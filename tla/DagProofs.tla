----------------------------- MODULE DagProofs -----------------------------
(***************************************************************************)
(* What the proofs of the other modules need to know of Upstream: it is a  *)
(* closed set that contains what it starts from, and the least such set.   *)
(***************************************************************************)
EXTENDS Dag, TLAPS

\* A set together with everything upstream of it is closed.
THEOREM UpstreamContains ==
  ASSUME NEW N, NEW g \in [N -> SUBSET N], NEW S \in SUBSET N
  PROVE  /\ Upstream(g, S) \subseteq N
         /\ S \subseteq Upstream(g, S)
         /\ Closed(g, Upstream(g, S))
<1>1. DOMAIN g = N
  OBVIOUS
<1>2. Upstream(g, S) \subseteq N
  BY <1>1 DEF Upstream
<1>3. S \subseteq Upstream(g, S)
  BY <1>1 DEF Upstream
<1>4. Closed(g, Upstream(g, S))
  <2> SUFFICES ASSUME NEW m \in Upstream(g, S), NEW d \in g[m]
               PROVE  d \in Upstream(g, S)
    BY DEF Closed
  <2>1. m \in N /\ d \in N
    BY <1>2
  <2>2. ASSUME NEW C \in SUBSET N, S \subseteq C, Closed(g, C)
        PROVE  d \in C
    <3>1. m \in C
      BY <1>1, <2>2 DEF Upstream
    <3> QED
      BY <2>2, <3>1 DEF Closed
  <2> QED
    BY <1>1, <2>1, <2>2 DEF Upstream
<1> QED
  BY <1>2, <1>3, <1>4

\* No closed set that contains the start leaves out anything upstream of it.
THEOREM UpstreamLeast ==
  ASSUME NEW N, NEW g \in [N -> SUBSET N], NEW S \in SUBSET N,
         NEW C \in SUBSET N, S \subseteq C, Closed(g, C)
  PROVE  Upstream(g, S) \subseteq C
<1>1. DOMAIN g = N
  OBVIOUS
<1> QED
  BY <1>1 DEF Upstream
=============================================================================
