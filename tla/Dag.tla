-------------------------------- MODULE Dag --------------------------------
(***************************************************************************)
(* The dependency graphs that gingk8s hands to godag: a function g from    *)
(* each node to the set of nodes it depends on (specNode.GetDependencies). *)
(* There is no RECURSIVE operator here, so that modules which use this one *)
(* can be proved about: reachability is the least closed set.              *)
(***************************************************************************)

\* C holds the dependencies of each of its own nodes.
Closed(g, C) == \A m \in C : g[m] \subseteq C

\* The nodes of S and everything they depend on, directly or not.
Upstream(g, S) ==
  {n \in DOMAIN g :
     \A C \in SUBSET (DOMAIN g) : S \subseteq C /\ Closed(g, C) => n \in C}

\* What n needs, directly or not, n itself left out.
Needs(g, n) == Upstream(g, {n}) \ {n}

\* Every set of nodes has one that depends on no other node of the set.
Acyclic(g) ==
  \A S \in (SUBSET (DOMAIN g)) \ {{}} : \E n \in S : g[n] \cap S = {}
=============================================================================
