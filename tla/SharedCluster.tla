--------------------------- MODULE SharedCluster ---------------------------
(***************************************************************************)
(* Suites that share one KinD cluster, each calling KindCluster.Create     *)
(* with skipExisting (kind.go), as createClusterAction does, under a       *)
(* MultiSuiteLock or not.  Create is mkdir, then the config file, then     *)
(* Or("kind get clusters" lists the name, "kind create cluster"): the      *)
(* check and the creation are two commands.                                *)
(*                                                                         *)
(* kind is not part of the repository.  What src/ relies on: a cluster is  *)
(* listed from when its creation begins; creating one that is listed fails;*)
(* a creation that fails takes back what it has made, unless kind itself is*)
(* killed, as it is when the context of Create ends (kind.go:44): then what*)
(* there is of the cluster stays, and is listed.                           *)
(***************************************************************************)
EXTENDS SuiteLock

VARIABLES
  cluster,    \* the cluster of that name
  config,     \* the config file in TempDir
  create      \* create[s]: where Create of s is

vars == <<lockVars, cluster, config, create>>

CreateState == {"config", "write", "check", "create", "unchecked", "creating",
                "ok", "failed"}

TypeOK ==
  /\ LockTypeOK
  /\ cluster \in {"absent", "creating", "half", "ready"}
  /\ config \in {"absent", "partial", "whole"}
  /\ create \in [Suite -> CreateState]

-----------------------------------------------------------------------------
(* Deliberate faults *)

\* Create answers when the nodes have been started, before they are ready.
Unawaited(s) ==
  /\ create[s] = "creating"
  /\ cluster' = "started"
  /\ create' = [create EXCEPT ![s] = "ok"]
  /\ UNCHANGED <<config>>

-----------------------------------------------------------------------------

Init ==
  /\ LockInit
  /\ cluster = "absent"
  /\ config = "absent"
  /\ create = [s \in Suite |-> "config"]

\* os.Create empties the file that a template is to be written to.
TruncateConfig(s) ==
  /\ create[s] = "config"
  /\ config' = "partial"
  /\ create' = [create EXCEPT ![s] = "write"]
  /\ UNCHANGED <<cluster>>

WriteConfig(s) ==
  /\ create[s] = "write"
  /\ config' = "whole"
  /\ create' = [create EXCEPT ![s] = "check"]
  /\ UNCHANGED <<cluster>>

\* The directory, the template or the file cannot be had.
ConfigFails(s) ==
  /\ create[s] \in {"config", "write"}
  /\ create' = [create EXCEPT ![s] = "failed"]
  /\ UNCHANGED <<cluster, config>>

ClusterExists(s) ==
  /\ create[s] = "check"
  /\ create' = [create EXCEPT ![s] = IF cluster = "absent" THEN "create" ELSE "ok"]
  /\ UNCHANGED <<cluster, config>>

\* "kind get clusters" itself fails, which Or takes for a cluster not listed.
ListFails(s) ==
  /\ create[s] = "check"
  /\ create' = [create EXCEPT ![s] = "unchecked"]
  /\ UNCHANGED <<cluster, config>>

CreateBegins(s) ==
  /\ create[s] \in {"create", "unchecked"}
  /\ cluster = "absent" /\ config = "whole"
  /\ cluster' = "creating"
  /\ create' = [create EXCEPT ![s] = "creating"]
  /\ UNCHANGED <<config>>

\* kind finds the name taken, or half a config.
CreateRefused(s) ==
  /\ create[s] \in {"create", "unchecked"}
  /\ ~(cluster = "absent" /\ config = "whole")
  /\ create' = [create EXCEPT ![s] = "failed"]
  /\ UNCHANGED <<cluster, config>>

CreateEnds(s) ==
  /\ create[s] = "creating"
  /\ cluster' = "ready"
  /\ create' = [create EXCEPT ![s] = "ok"]
  /\ UNCHANGED <<config>>

\* kind gives up and deletes the nodes, or is killed and leaves them.
CreateFails(s) ==
  /\ create[s] = "creating"
  /\ cluster' \in {"absent", "half"}
  /\ create' = [create EXCEPT ![s] = "failed"]
  /\ UNCHANGED <<config>>

CreateStep(s) ==
  /\ pc[s] = "inside"
  /\ \/ TruncateConfig(s) \/ WriteConfig(s) \/ ConfigFails(s) \/ ClusterExists(s)
     \/ ListFails(s) \/ CreateBegins(s) \/ CreateRefused(s) \/ CreateEnds(s) \/ CreateFails(s)
  /\ UNCHANGED lockVars

CreateReturns(s) ==
  /\ \/ create[s] = "ok" /\ FunctionReturns(s, "nil")
     \/ create[s] = "failed" /\ FunctionReturns(s, "error")
  /\ UNCHANGED <<cluster, config, create>>

Locks(s) == LockStep(s) /\ UNCHANGED <<cluster, config, create>>

Crashes(s) == Crash(s) /\ UNCHANGED <<cluster, config, create>>

Next ==
  \E s \in Suite : Locks(s) \/ CreateStep(s) \/ CreateReturns(s) \/ Crashes(s)

Safety == Init /\ [][Next]_vars

(* Every suite goes on, and kind returns.                                  *)
Sharing ==
  /\ Safety
  /\ \A s \in Suite : WF_vars(Locks(s) \/ CreateStep(s) \/ CreateReturns(s))

-----------------------------------------------------------------------------
(* Properties *)

(* A creation that failed under a lock which was then let go of: whoever   *)
(* asked for it knows by its error, no other suite does.                   *)
ToldOfFailure(s) ==
  Unlocks /\ create[s] = "failed" /\ pc[s] = "returned" /\ result[s] = "error"

(* Whoever has been told by Create, under the lock, that there is a cluster*)
(* has one whose creation is complete: skipExisting never takes one for it *)
(* that another suite, dead or alive, is still creating.  The exception:   *)
(* what kind, killed, has left is taken for it (kind.go:44, kind.go:171),  *)
(* once the suite that was creating has returned an error and unlocked.    *)
StandsOnReady ==
  entry # "none" =>
    \A s \in Suite : create[s] = "ok" =>
      \/ cluster = "ready"
      \/ cluster = "half" /\ \E t \in Suite : ToldOfFailure(t)

(* After a check that answered, a creation is refused neither for the name *)
(* nor for half a config: suites under the lock do not get in each other's *)
(* way.                                                                    *)
NeverRefused ==
  entry # "none" =>
    \A s \in Suite : create[s] = "create" /\ pc[s] = "inside" =>
      cluster = "absent" /\ config = "whole"

(* Every suite gets its turn, unless one that had the lock has died or could*)
(* not remove the directory, after which the rest may wait for ever.       *)
EveryoneReturns ==
  \/ entry = "WithLock" /\ <>(\E s \in ran : pc[s] \in {"crashed", "unlockFailed"})
  \/ \A s \in Suite : <>(pc[s] \in Over)
=============================================================================
