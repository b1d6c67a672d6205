-------------------------- MODULE MCSpecLifecycle --------------------------
(***************************************************************************)
(* Plans of four nodes for TLC: a suite with one cluster and three         *)
(* resources in several dependency shapes, a suite whose release waits for *)
(* an image to be loaded, and a spec's child that inherits a cluster and a *)
(* release of its suite.                                                   *)
(***************************************************************************)
EXTENDS SpecLifecycle

CONSTANTS n1, n2, n3, n4

MCNode == {n1, n2, n3, n4}

Graph(d2, d3, d4) ==
  [n \in MCNode |-> CASE n = n1 -> {} [] n = n2 -> d2 [] n = n3 -> d3 [] OTHER -> d4]

Kinds(k1, k2, k3, k4) ==
  [n \in MCNode |-> CASE n = n1 -> k1 [] n = n2 -> k2 [] n = n3 -> k3 [] OTHER -> k4]

ClusterKinds == Kinds("cluster", "release", "action", "manifests")

Chain    == Graph({n1}, {n1, n2}, {n1, n3})
Diamond  == Graph({n1}, {n1}, {n1, n2, n3})
Fork     == Graph({n1}, {n1, n2}, {n1, n2})
Siblings == Graph({n1}, {n1}, {n1})
Images   == Graph({}, {n1, n2}, {n1, n3})

SuitePlan(g, keep) ==
  [suite |-> TRUE, deps |-> g, kind |-> ClusterKinds, keep |-> keep]

MCPlans ==
  {SuitePlan(g, {}) : g \in {Chain, Diamond, Fork, Siblings}}
  \cup {SuitePlan(Chain, {n2})}
  \cup {[suite |-> TRUE, deps |-> Images, keep |-> {},
         kind |-> Kinds("cluster", p[1], p[2], "release")]
        : p \in {<<"pull", "loadPulled">>, <<"build", "loadBuilt">>,
                 <<"archive", "loadArchive">>}}
  \cup {[suite |-> FALSE, deps |-> Graph({}, {n1, n2}, {n1, n3}), keep |-> {},
         kind |-> Kinds("inherited", "noop", "manifests", "action")]}

MCOptSets ==
  {{}, {"interactive"}, {"NoDeps", "NoPull", "NoBuild"},
   {"NoSuiteCleanup"}, {"NoSpecCleanup", "NoLoadPulled", "NoLoadBuilt"}}
=============================================================================
