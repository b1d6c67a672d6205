---------------------------- MODULE Provisioning ----------------------------
(***************************************************************************)
(* What Gingk8s.Setup and its deferred cleanup promise, with no executor,  *)
(* no lock and no cleanup list: resources come up after what they need,    *)
(* and go away before what they need.  A step that panics leaves a "broken"*)
(* resource behind, which the steps that wait for it cannot tell from one  *)
(* that is up.                                                             *)
(***************************************************************************)
EXTENDS Dag

CONSTANT Node

VARIABLES deps,   \* the dependency graph, fixed once Setup has built it
          st      \* st[n]: the life of resource n

vars == <<deps, st>>

Life == {"absent", "up", "broken", "retiring", "retired"}

Settled == {"up", "broken"}
Leaving == {"retiring", "retired"}

TypeOK ==
  /\ deps \in [Node -> SUBSET Node]
  /\ st \in [Node -> Life]

Init ==
  /\ deps \in [Node -> SUBSET Node]
  /\ st = [n \in Node |-> "absent"]

\* A resource settles once all it depends on has, and never once teardown
\* has begun.
Settle(n, how) ==
  /\ st[n] = "absent"
  /\ \A d \in deps[n] : st[d] \in Settled
  /\ \A m \in Node : st[m] \notin Leaving
  /\ st' = [st EXCEPT ![n] = how]
  /\ UNCHANGED deps

\* A resource may start to leave while all it needs is still there, and when
\* nothing that needs it, directly or through others, is up or still leaving.
Retire(n) ==
  /\ st[n] \in Settled
  /\ \A k \in Needs(deps, n) : st[k] \in Settled
  /\ \A m \in Node : n \in Needs(deps, m) => st[m] \notin {"up", "retiring"}
  /\ st' = [st EXCEPT ![n] = "retiring"]
  /\ UNCHANGED deps

Leave(n) ==
  /\ st[n] = "retiring"
  /\ st' = [st EXCEPT ![n] = "retired"]
  /\ UNCHANGED deps

Next ==
  \E n \in Node :
    \/ \E how \in Settled : Settle(n, how)
    \/ Retire(n)
    \/ Leave(n)

Spec == Init /\ [][Next]_vars

-----------------------------------------------------------------------------

(* A resource that is up, or still being deleted, stands on resources none *)
(* of which has begun to be deleted: what gingk8s's users rely on when a   *)
(* Cleanup talks to the cluster that its resource was created in.          *)
StandsOnWhatItNeeds ==
  \A m \in Node : st[m] \in {"up", "retiring"} =>
    \A n \in Needs(deps, m) : st[n] \in Settled
=============================================================================
