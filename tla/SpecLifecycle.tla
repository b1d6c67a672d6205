--------------------------- MODULE SpecLifecycle ---------------------------
(***************************************************************************)
(* One call of Gingk8s.Setup and the cleanup it defers (gingk8s.go), with  *)
(* the tasks that the godag executor runs concurrently (spec.go).          *)
(*                                                                         *)
(* The nodes, their dependencies and their kinds are what registration     *)
(* left in specState.setup (module Registration); they are picked at Init  *)
(* from Plans, the option flags from OptSets, and never change after.      *)
(*                                                                         *)
(* godag is not part of the repository.  What src/ relies on: Run starts a *)
(* task only when the tasks it depends on have returned a nil error, never *)
(* starts one that depends on a failed task, and returns when no task is   *)
(* running; StartFrom restricts a run to the nodes reachable from a set.   *)
(***************************************************************************)
EXTENDS Dag

CONSTANTS Node,      \* ids of the registered steps
          Plans,     \* what registration may have left
          OptSets,   \* the option sets to consider
          Free       \* the value of cleanLock when nobody holds it

Kind == {"cluster", "pull", "build", "archive", "loadPulled", "loadBuilt",
         "loadArchive", "manifests", "release", "action",
         "inherited",   \* a noopCluster made by specState.child()
         "noop"}        \* a specNoop that Setup adds for a parent's id

\* The flags of SuiteOpts that Setup and Cleanup look at, and the
\* GINGK8S_INTERACTIVE environment variable.
Flag == {"NoSuiteCleanup", "NoSpecCleanup", "NoPull", "NoLoadPulled",
         "NoBuild", "NoLoadBuilt", "NoDeps", "interactive"}

\* suite: this is the suite's specState, it has no parent.
\* keep:  nodes whose SkipDelete is set, or whose cleanup function is nil.
Plan == [suite : BOOLEAN, deps : [Node -> SUBSET Node],
         kind : [Node -> Kind], keep : SUBSET Node]

ASSUME PlansAssumption   == Plans \subseteq Plan
ASSUME OptSetsAssumption == OptSets \subseteq SUBSET Flag
ASSUME FreeAssumption    == Free \notin Node

VARIABLES
  plan, opts,    \* what was registered, and the options; fixed
  phase,         \* where Setup and the deferred cleanup are
  pc,            \* pc[n]: where the task of node n is in DoDAGTask
  cleanLock,     \* the holder of the package's cleanLock
  snapshot,      \* the s.state.cleanup that the lock's holder has read
  cleanup,       \* specState.cleanup: the nodes whose Setup has succeeded
  scope,         \* the nodes that the cleanup executor will run
  undo,          \* undo[n]: where the cleanup task of node n is
  live,          \* resources that exist outside the process
  failed         \* what ginkgo's Failed() answers

config == <<plan, opts>>
taskVars == <<pc, cleanLock, snapshot, cleanup>>
undoVars == <<scope, undo>>
vars == <<plan, opts, phase, pc, cleanLock, snapshot, cleanup, scope, undo,
          live, failed>>

Phase == {"repos", "run", "specs", "teardown", "hold", "released", "cleanup",
          "finished"}

\* "appending": holds cleanLock, has read the list and not yet written it.
\* "failed": returned an error.  "panicked": GinkgoRecover swallowed a panic
\* and DoDAGTask returned (nil, nil), which the executor takes for success.
TaskState == {"waiting", "setup", "setUp", "appending", "done", "failed",
              "panicked"}
InFlight == {"setup", "setUp", "appending"}
Returned == {"done", "panicked"}

UndoState == {"idle", "running", "undone", "failed"}
Finished  == {"undone", "failed"}

Deps == plan.deps

TypeOK ==
  /\ plan \in Plans
  /\ opts \in OptSets
  /\ phase \in Phase
  /\ pc \in [Node -> TaskState]
  /\ cleanLock \in Node \cup {Free}
  /\ snapshot \subseteq Node
  /\ cleanup \subseteq Node
  /\ scope \subseteq Node
  /\ undo \in [Node -> UndoState]
  /\ live \subseteq Node
  /\ failed \in BOOLEAN

-----------------------------------------------------------------------------
(* What the options and the kind of a node decide *)

Inert == {"inherited", "noop"}

\* Setup returns nil without touching anything.
Skipped(n) ==
  \/ plan.kind[n] \in Inert
  \/ plan.kind[n] \in {"pull", "archive"} /\ "NoPull" \in opts
  \/ plan.kind[n] = "build" /\ "NoBuild" \in opts
  \/ plan.kind[n] \in {"loadPulled", "loadArchive"} /\ "NoLoadPulled" \in opts
  \/ plan.kind[n] = "loadBuilt" /\ "NoLoadBuilt" \in opts
  \/ plan.kind[n] \in {"manifests", "release"} /\ "NoDeps" \in opts

\* Setups in which an Expect, a panic("UNSUPPORTED") or a callback of the
\* user's may panic on the task's own goroutine.
MayPanic(n) ==
  plan.kind[n] \in {"loadPulled", "loadBuilt", "loadArchive", "release", "action"}

\* Setups that compute in a helper goroutine, whose panic GinkgoRecover
\* reports while the goroutine still answers "no error".
MayPanicAside(n) == plan.kind[n] \in {"manifests", "release"}

NoCleanup ==
  IF plan.suite THEN "NoSuiteCleanup" \in opts ELSE "NoSpecCleanup" \in opts

\* Cleanup of n calls something that deletes; otherwise it does nothing.
Deletes(n) ==
  /\ plan.kind[n] \in {"cluster", "manifests", "release", "action"}
  /\ ~NoCleanup
  /\ n \notin plan.keep

-----------------------------------------------------------------------------
(* Deliberate faults, each put in place of one action to see that the      *)
(* properties below notice it.  No specification uses them.                *)

\* A task starts as soon as its dependencies have started.
EagerStart(n) ==
  /\ phase = "run"
  /\ pc[n] = "waiting"
  /\ \A d \in Deps[n] : pc[d] # "waiting"
  /\ pc' = [pc EXCEPT ![n] = "setup"]
  /\ UNCHANGED <<config, phase, cleanLock, snapshot, cleanup, undoVars, live, failed>>

\* A failed Setup is tried again, without end.
RetriedSetup(n) ==
  /\ pc[n] = "setup"
  /\ ~Skipped(n)
  /\ pc' = [pc EXCEPT ![n] = "waiting"]
  /\ live' \in {live, live \cup {n}}
  /\ UNCHANGED <<config, phase, cleanLock, snapshot, cleanup, undoVars, failed>>

\* A bare recover() in place of GinkgoRecover.
SilentPanic(n) ==
  /\ pc[n] = "setup"
  /\ ~Skipped(n) /\ MayPanic(n)
  /\ pc' = [pc EXCEPT ![n] = "panicked"]
  /\ live' \in {live, live \cup {n}}
  /\ UNCHANGED <<config, phase, cleanLock, snapshot, cleanup, undoVars, failed>>

\* The append without the lock around it.
UnlockedAppend(n) ==
  /\ pc[n] = "setUp"
  /\ cleanLock' = n
  /\ snapshot' = cleanup
  /\ pc' = [pc EXCEPT ![n] = "appending"]
  /\ UNCHANGED <<config, phase, cleanup, undoVars, live, failed>>

\* The lock is released before the entry, its holder, is written.
LateAppend(n) ==
  /\ pc[n] = "appending"
  /\ cleanLock' = Free
  /\ cleanup' = snapshot \cup {cleanLock'}
  /\ snapshot' = {}
  /\ pc' = [pc EXCEPT ![n] = "done"]
  /\ UNCHANGED <<config, phase, undoVars, live, failed>>

\* The executor returns at the first error, with tasks still running.
RunFailsAtOnce ==
  /\ phase = "run"
  /\ \E n \in Node : pc[n] = "failed"
  /\ phase' = "teardown"
  /\ failed' = TRUE
  /\ UNCHANGED <<config, taskVars, undoVars, live>>

\* StartFrom computed when the cleanup is deferred, before anything ran.
EarlyStartFrom ==
  /\ phase \in {"teardown", "released"}
  /\ phase' = "cleanup"
  /\ scope' = {}
  /\ UNCHANGED <<config, taskVars, undo, live, failed>>

\* StartFrom left out.
NoStartFrom ==
  /\ phase \in {"teardown", "released"}
  /\ phase' = "cleanup"
  /\ scope' = Node
  /\ UNCHANGED <<config, taskVars, undo, live, failed>>

\* Only the nodes of the cleanup list, not what lies between them.
ListedOnly ==
  /\ phase \in {"teardown", "released"}
  /\ phase' = "cleanup"
  /\ scope' = cleanup
  /\ UNCHANGED <<config, taskVars, undo, live, failed>>

\* The error of a Cleanup is dropped.
UnreportedUndo(n) ==
  /\ undo[n] = "running"
  /\ Deletes(n)
  /\ undo' = [undo EXCEPT ![n] = "failed"]
  /\ UNCHANGED <<config, phase, taskVars, scope, live, failed>>

-----------------------------------------------------------------------------

Init ==
  /\ plan \in Plans
  /\ opts \in OptSets
  /\ phase = "repos"
  /\ pc = [n \in Node |-> "waiting"]
  /\ cleanLock = Free
  /\ snapshot = {}
  /\ cleanup = {}
  /\ scope = {}
  /\ undo = [n \in Node |-> "idle"]
  /\ live = {n \in Node : plan.kind[n] \in Inert}
  /\ failed = FALSE

(* Setup, up to the call of the executor.  A repository that cannot be     *)
(* added makes an Expect panic before any cleanup has been deferred.       *)

AddRepos ==
  /\ phase = "repos"
  /\ phase' = "run"
  /\ UNCHANGED <<config, taskVars, undoVars, live, failed>>

AddReposFails ==
  /\ phase = "repos"
  /\ phase' = "finished"
  /\ failed' = TRUE
  /\ UNCHANGED <<config, taskVars, undoVars, live>>

-----------------------------------------------------------------------------
(* specNode.DoDAGTask, one copy for each node *)

StartTask(n) ==
  /\ phase = "run"
  /\ pc[n] = "waiting"
  /\ \A d \in Deps[n] : pc[d] \in Returned
  /\ pc' = [pc EXCEPT ![n] = "setup"]
  /\ UNCHANGED <<config, phase, cleanLock, snapshot, cleanup, undoVars, live, failed>>

SetupSkipped(n) ==
  /\ pc[n] = "setup"
  /\ Skipped(n)
  /\ pc' = [pc EXCEPT ![n] = "setUp"]
  /\ UNCHANGED <<config, phase, cleanLock, snapshot, cleanup, undoVars, live, failed>>

SetupSucceeds(n) ==
  /\ pc[n] = "setup"
  /\ ~Skipped(n)
  /\ pc' = [pc EXCEPT ![n] = "setUp"]
  /\ live' = live \cup {n}
  /\ UNCHANGED <<config, phase, cleanLock, snapshot, cleanup, undoVars, failed>>

\* Setup returns an error; it may have created its resource or part of it.
SetupFails(n) ==
  /\ pc[n] = "setup"
  /\ ~Skipped(n)
  /\ pc' = [pc EXCEPT ![n] = "failed"]
  /\ live' \in {live, live \cup {n}}
  /\ UNCHANGED <<config, phase, cleanLock, snapshot, cleanup, undoVars, failed>>

\* Setup panics: GinkgoRecover reports it, and the task returns (nil, nil)
\* without having been appended to the cleanup list.
SetupPanics(n) ==
  /\ pc[n] = "setup"
  /\ ~Skipped(n) /\ MayPanic(n)
  /\ pc' = [pc EXCEPT ![n] = "panicked"]
  /\ live' \in {live, live \cup {n}}
  /\ failed' = TRUE
  /\ UNCHANGED <<config, phase, cleanLock, snapshot, cleanup, undoVars>>

\* A helper goroutine of Setup panics: reported, and Setup goes on.
HelperPanics(n) ==
  /\ pc[n] = "setup"
  /\ ~Skipped(n) /\ MayPanicAside(n)
  /\ ~failed
  /\ failed' = TRUE
  /\ UNCHANGED <<config, phase, taskVars, undoVars, live>>

LockCleanup(n) ==
  /\ pc[n] = "setUp"
  /\ cleanLock = Free
  /\ cleanLock' = n
  /\ snapshot' = cleanup
  /\ pc' = [pc EXCEPT ![n] = "appending"]
  /\ UNCHANGED <<config, phase, cleanup, undoVars, live, failed>>

AppendCleanup(n) ==
  /\ pc[n] = "appending"
  /\ cleanup' = snapshot \cup {n}
  /\ cleanLock' = Free
  /\ snapshot' = {}
  /\ pc' = [pc EXCEPT ![n] = "done"]
  /\ UNCHANGED <<config, phase, undoVars, live, failed>>

-----------------------------------------------------------------------------
(* The end of Setup, the specs, and the way to the deferred cleanup *)

Drained == \A n \in Node : pc[n] \notin InFlight
SomeTaskFailed == \E n \in Node : pc[n] = "failed"

RunSucceeds ==
  /\ phase = "run"
  /\ \A n \in Node : pc[n] \in Returned
  /\ phase' = "specs"
  /\ UNCHANGED <<config, taskVars, undoVars, live, failed>>

\* The Expect around ex.Run panics; the cleanup is deferred already.
RunFails ==
  /\ phase = "run"
  /\ Drained /\ SomeTaskFailed
  /\ phase' = "teardown"
  /\ failed' = TRUE
  /\ UNCHANGED <<config, taskVars, undoVars, live>>

SpecsEnd ==
  /\ phase = "specs"
  /\ phase' = "teardown"
  /\ failed' \in {failed, TRUE}
  /\ UNCHANGED <<config, taskVars, undoVars, live>>

\* The callback deferred last runs first: with GINGK8S_INTERACTIVE it waits
\* for the user's ^C when something has failed.
MustHold == "interactive" \in opts /\ failed

Hold ==
  /\ phase = "teardown"
  /\ MustHold
  /\ phase' = "hold"
  /\ UNCHANGED <<config, taskVars, undoVars, live, failed>>

Interrupt ==
  /\ phase = "hold"
  /\ phase' = "released"
  /\ UNCHANGED <<config, taskVars, undoVars, live, failed>>

-----------------------------------------------------------------------------
(* The deferred cleanup, and cleanupSpecNode.DoDAGTask for each node *)

\* StartFrom is the cleanup list; when that is empty the set is left unset,
\* of which src/ does not say whether godag runs everything or nothing.
StartCleanup ==
  /\ \/ phase = "teardown" /\ ~MustHold
     \/ phase = "released"
  /\ phase' = "cleanup"
  /\ scope' \in IF cleanup = {} THEN {Node, {}} ELSE {Upstream(Deps, cleanup)}
  /\ UNCHANGED <<config, taskVars, undo, live, failed>>

BeginUndo(n) ==
  /\ phase = "cleanup"
  /\ n \in scope
  /\ undo[n] = "idle"
  /\ \A m \in scope : n \in Deps[m] => undo[m] \in Finished
  /\ undo' = [undo EXCEPT ![n] = "running"]
  /\ UNCHANGED <<config, phase, taskVars, scope, live, failed>>

EndUndo(n) ==
  /\ undo[n] = "running"
  /\ undo' = [undo EXCEPT ![n] = "undone"]
  /\ live' = IF Deletes(n) THEN live \ {n} ELSE live
  /\ UNCHANGED <<config, phase, taskVars, scope, failed>>

\* The Expect in Cleanup panics; GinkgoRecover reports it, and the executor
\* goes on with the nodes that n depends on.
EndUndoFails(n) ==
  /\ undo[n] = "running"
  /\ Deletes(n)
  /\ undo' = [undo EXCEPT ![n] = "failed"]
  /\ failed' = TRUE
  /\ UNCHANGED <<config, phase, taskVars, scope, live>>

CleanupReturns ==
  /\ phase = "cleanup"
  /\ \A n \in scope : undo[n] \in Finished
  /\ phase' = "finished"
  /\ UNCHANGED <<config, taskVars, undoVars, live, failed>>

\* The process goes on with something else; keeps the end from being taken
\* for a deadlock.
Terminated == phase = "finished" /\ UNCHANGED vars

-----------------------------------------------------------------------------

Task(n) ==
  \/ StartTask(n) \/ SetupSkipped(n) \/ SetupSucceeds(n) \/ SetupFails(n)
  \/ SetupPanics(n) \/ HelperPanics(n) \/ LockCleanup(n) \/ AppendCleanup(n)

UndoTask(n) == BeginUndo(n) \/ EndUndo(n) \/ EndUndoFails(n)

Driver ==
  \/ AddRepos \/ AddReposFails \/ RunSucceeds \/ RunFails \/ SpecsEnd
  \/ Hold \/ Interrupt \/ StartCleanup \/ CleanupReturns

Next ==
  \/ Driver
  \/ \E n \in Node : Task(n) \/ UndoTask(n)
  \/ Terminated

Safety == Init /\ [][Next]_vars

(* Setups, specs and cleanups return; the executor starts what it can while*)
(* no task has failed.  The user need never press ^C.  Every step of the   *)
(* model brings some task or the driver forward, so one conjunct is enough.*)
Progress ==
  \/ AddRepos \/ AddReposFails \/ RunSucceeds \/ RunFails \/ SpecsEnd
  \/ Hold \/ StartCleanup \/ CleanupReturns
  \/ \E n \in Node :
       \/ ~SomeTaskFailed /\ StartTask(n)
       \/ SetupSkipped(n) \/ SetupSucceeds(n) \/ SetupFails(n)
       \/ LockCleanup(n) \/ AppendCleanup(n)
       \/ UndoTask(n)

Spec == Safety /\ WF_vars(Progress)

-----------------------------------------------------------------------------
(* Properties *)

(* A task starts only when everything it needs, directly or through others,*)
(* has returned to the executor without an error.                          *)
NeedsReturnFirst ==
  \A n \in Node : pc[n] # "waiting" =>
    \A m \in Needs(Deps, n) : pc[m] \in Returned

(* "steps to be taken once a cluster is ready, as well as any actions that *)
(* must succeed" (gingk8s_suite_test.go:42-44): a step starts only when the*)
(* Setup of each thing it waits for has succeeded.                         *)
StartsAfterSuccess ==
  \A n \in Node : pc[n] # "waiting" => \A d \in Deps[n] : pc[d] = "done"

(* Concurrent tasks lose no entry of specState.cleanup (spec.go:48-50), and*)
(* only a task whose Setup returned nil has one.                           *)
NoLostCleanup == cleanup = {n \in Node : pc[n] = "done"}

(* While a node whose Setup succeeded has not been torn down, the teardown *)
(* of nothing that it needs, even through nodes that panicked, has begun:  *)
(* what the reversed DAG and StartFrom are for (gingk8s.go:172-192).       *)
TeardownOrder ==
  \A m \in Node : pc[m] = "done" /\ undo[m] \notin Finished =>
    \A n \in Needs(Deps, m) : undo[n] = "idle"

(* When anything was set up, the Cleanup of a step whose Setup never ran or*)
(* returned an error is never called; RandomNamespace.Cleanup, for one,    *)
(* dereferences what its Setup stores.                                     *)
OnlyProvisionedUndone ==
  cleanup # {} => \A n \in Node : undo[n] # "idle" => pc[n] \in Returned

(* Once the deferred cleanup is over, whatever was set up and is to be     *)
(* deleted is gone, or its deletion failed and the spec is marked failed.  *)
NoLeak ==
  phase = "finished" =>
    \A n \in Node : pc[n] = "done" /\ Deletes(n) /\ n \in live =>
      undo[n] = "failed" /\ failed

(* The specs' body runs only when every task has returned, each listed for *)
(* cleanup or reported as a panic: the swallowed panics of spec.go:40 never*)
(* let a spec pass that lacks one of its resources.                        *)
NoSilentLoss ==
  phase \notin {"repos", "run"} =>
    \/ failed
    \/ cleanup = Node /\ \A n \in Node : Skipped(n) \/ n \in live \/ undo[n] = "undone"

(* Nothing is set up once teardown has begun, and a node is undone at most *)
(* once, in the order idle, running, over.                                 *)
TeardownIsFinal ==
  [][\A n \in Node :
       /\ undo[n] \in Finished => undo'[n] = undo[n]
       /\ (\E m \in Node : undo[m] # "idle") => pc'[n] = pc[n]]_vars

(* Whatever was set up is torn down in the end, unless the user was asked  *)
(* to look at the failure first.                                           *)
EveryDoneNodeUndone ==
  \A n \in Node : pc[n] = "done" ~> (undo[n] \in Finished \/ phase = "hold")

(* The whole comes to an end: tasks that wait on the lock, on each other or*)
(* on a node that failed do not keep it from finishing.                    *)
Terminates == <>(phase \in {"finished", "hold"})

-----------------------------------------------------------------------------
(* The lifecycle implements Provisioning.  A node that is undone without   *)
(* ever having settled stays absent.                                       *)

LifeOf(n) ==
  IF pc[n] \notin Returned THEN "absent"
  ELSE CASE undo[n] = "running"   -> "retiring"
         [] undo[n] \in Finished  -> "retired"
         [] OTHER -> IF pc[n] = "done" THEN "up" ELSE "broken"

P == INSTANCE Provisioning WITH deps <- Deps, st <- [n \in Node |-> LifeOf(n)]

(* Every step of the lifecycle is a step of Provisioning or a stutter.     *)
Provisions == P!Spec
=============================================================================
