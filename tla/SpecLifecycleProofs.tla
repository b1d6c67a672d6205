------------------------ MODULE SpecLifecycleProofs ------------------------
(***************************************************************************)
(* The safety of SpecLifecycle for every set of nodes, dependency graph    *)
(* and option set.  No graph needs to be acyclic for it: a cycle only      *)
(* keeps its nodes waiting.  Then the refinement of Provisioning, and what *)
(* Provisioning promises, of any graph and so of the lifecycle.            *)
(***************************************************************************)
EXTENDS SpecLifecycle, DagProofs

LEMMA DepsType ==
  ASSUME TypeOK
  PROVE  /\ Deps \in [Node -> SUBSET Node]
         /\ plan.kind \in [Node -> Kind]
         /\ plan.suite \in BOOLEAN
         /\ plan.keep \in SUBSET Node
BY PlansAssumption DEF TypeOK, Plan, Deps

-----------------------------------------------------------------------------
(* Type correctness *)

LEMMA TypeOKInit == Init => TypeOK
BY DEF Init, TypeOK, Phase, TaskState, UndoState

LEMMA TypeOKTask ==
  ASSUME TypeOK, NEW n \in Node, Task(n)
  PROVE  TypeOK'
<1> USE DEF TypeOK, config, taskVars, undoVars, TaskState
<1>1. CASE StartTask(n)
  BY <1>1 DEF StartTask
<1>2. CASE SetupSkipped(n)
  BY <1>2 DEF SetupSkipped
<1>3. CASE SetupSucceeds(n)
  BY <1>3 DEF SetupSucceeds
<1>4. CASE SetupFails(n)
  BY <1>4 DEF SetupFails
<1>5. CASE SetupPanics(n)
  BY <1>5 DEF SetupPanics
<1>6. CASE HelperPanics(n)
  BY <1>6 DEF HelperPanics
<1>7. CASE LockCleanup(n)
  BY <1>7 DEF LockCleanup
<1>8. CASE AppendCleanup(n)
  BY <1>8 DEF AppendCleanup
<1> QED
  BY <1>1, <1>2, <1>3, <1>4, <1>5, <1>6, <1>7, <1>8 DEF Task

LEMMA TypeOKUndo ==
  ASSUME TypeOK, NEW n \in Node, UndoTask(n)
  PROVE  TypeOK'
<1> USE DEF TypeOK, config, taskVars, UndoState
<1>1. CASE BeginUndo(n)
  BY <1>1 DEF BeginUndo
<1>2. CASE EndUndo(n)
  BY <1>2 DEF EndUndo
<1>3. CASE EndUndoFails(n)
  BY <1>3 DEF EndUndoFails
<1> QED
  BY <1>1, <1>2, <1>3 DEF UndoTask

LEMMA TypeOKDriver ==
  ASSUME TypeOK, Driver
  PROVE  TypeOK'
<1> USE DEF TypeOK, config, taskVars, undoVars, Phase
<1>1. CASE AddRepos
  BY <1>1 DEF AddRepos
<1>2. CASE AddReposFails
  BY <1>2 DEF AddReposFails
<1>3. CASE RunSucceeds
  BY <1>3 DEF RunSucceeds
<1>4. CASE RunFails
  BY <1>4 DEF RunFails
<1>5. CASE SpecsEnd
  BY <1>5 DEF SpecsEnd
<1>6. CASE Hold
  BY <1>6 DEF Hold
<1>7. CASE Interrupt
  BY <1>7 DEF Interrupt
<1>8. CASE StartCleanup
  <2>1. Upstream(Deps, cleanup) \subseteq Node
    BY DepsType, UpstreamContains
  <2> QED
    BY <1>8, <2>1 DEF StartCleanup
<1>9. CASE CleanupReturns
  BY <1>9 DEF CleanupReturns
<1> QED
  BY <1>1, <1>2, <1>3, <1>4, <1>5, <1>6, <1>7, <1>8, <1>9 DEF Driver

LEMMA TypeOKStep == TypeOK /\ [Next]_vars => TypeOK'
<1> SUFFICES ASSUME TypeOK, [Next]_vars PROVE TypeOK'
  OBVIOUS
<1>1. CASE Driver
  BY <1>1, TypeOKDriver
<1>2. ASSUME NEW n \in Node, Task(n) \/ UndoTask(n) PROVE TypeOK'
  BY <1>2, TypeOKTask, TypeOKUndo
<1>3. CASE UNCHANGED vars
  BY <1>3 DEF vars, TypeOK
<1> QED
  BY <1>1, <1>2, <1>3 DEF Next, Terminated

(* Every variable keeps to its type. *)
THEOREM TypeCorrect == Safety => []TypeOK
BY TypeOKInit, TypeOKStep, PTL DEF Safety

-----------------------------------------------------------------------------
(* The inductive invariant *)

\* Who appends holds the lock, and has read the list as it still is.
LockInv ==
  \A n \in Node : pc[n] = "appending" => cleanLock = n /\ snapshot = cleanup

\* Tasks run in phase "run" only, and cleanup tasks after it only.
PhaseInv ==
  /\ phase = "repos" => \A n \in Node : pc[n] = "waiting"
  /\ phase \notin {"repos", "run"} => Drained
  /\ phase \notin {"cleanup", "finished"} =>
       scope = {} /\ \A n \in Node : undo[n] = "idle"

\* A task that has started has all its direct dependencies behind it.
StartInv ==
  \A n \in Node : pc[n] # "waiting" => \A d \in Deps[n] : pc[d] \in Returned

\* The scope holds what its nodes depend on; it is what the cleanup list
\* needs, once it has been computed; nothing outside it is undone.
ScopeInv ==
  /\ Closed(Deps, scope)
  /\ phase \in {"cleanup", "finished"} /\ cleanup # {} =>
       scope = Upstream(Deps, cleanup)
  /\ \A n \in Node : undo[n] # "idle" => n \in scope

\* A direct dependency is left alone until the node that needs it is over.
UndoInv ==
  \A m \in scope : \A n \in Deps[m] : undo[n] # "idle" => undo[m] \in Finished

\* What the end of a cleanup task has left behind.
OutcomeInv ==
  /\ \A n \in Node : undo[n] = "failed" => failed
  /\ \A n \in Node : undo[n] = "undone" /\ Deletes(n) => n \notin live
  /\ phase = "finished" => \A n \in scope : undo[n] \in Finished

IInv ==
  /\ TypeOK
  /\ LockInv
  /\ NoLostCleanup
  /\ PhaseInv
  /\ StartInv
  /\ ScopeInv
  /\ UndoInv
  /\ OutcomeInv

LEMMA IInvInit == Init => IInv
<1> SUFFICES ASSUME Init PROVE IInv
  OBVIOUS
<1>1. TypeOK
  BY TypeOKInit
<1>2. /\ scope = {} /\ cleanup = {} /\ phase = "repos"
      /\ \A n \in Node : pc[n] = "waiting" /\ undo[n] = "idle"
  BY DEF Init
<1> QED
  BY <1>1, <1>2 DEF IInv, LockInv, NoLostCleanup, PhaseInv, StartInv, ScopeInv,
     UndoInv, OutcomeInv, Closed

\* A task's step happens in phase "run", before any cleanup task, and moves
\* that task alone.
LEMMA TaskFrame ==
  ASSUME IInv, NEW n \in Node, Task(n)
  PROVE  /\ phase = "run" /\ scope = {} /\ \A m \in Node : undo[m] = "idle"
         /\ UNCHANGED <<plan, opts, phase, scope, undo>>
         /\ \A m \in Node \ {n} : pc'[m] = pc[m]
         /\ pc[n] \notin Returned
         /\ pc' \in [Node -> TaskState]
<1>1. phase = "run"
  BY DEF IInv, TypeOK, PhaseInv, Drained, InFlight, Phase, TaskState, Task,
     StartTask, SetupSkipped, SetupSucceeds, SetupFails, SetupPanics,
     HelperPanics, LockCleanup, AppendCleanup
<1>2. scope = {} /\ \A m \in Node : undo[m] = "idle"
  BY <1>1 DEF IInv, PhaseInv
<1>3. TypeOK'
  BY TypeOKTask DEF IInv
<1>4. /\ UNCHANGED <<plan, opts, phase, scope, undo>>
      /\ \A m \in Node \ {n} : pc'[m] = pc[m]
      /\ pc[n] \notin Returned
  BY DEF IInv, TypeOK, Returned, config, taskVars, undoVars, Task,
     StartTask, SetupSkipped, SetupSucceeds, SetupFails, SetupPanics,
     HelperPanics, LockCleanup, AppendCleanup
<1> QED
  BY <1>1, <1>2, <1>3, <1>4 DEF TypeOK

LEMMA IInvTask ==
  ASSUME IInv, NEW n \in Node, Task(n)
  PROVE  IInv'
<1> DEFINE frame ==
      /\ phase = "run" /\ scope = {} /\ \A m \in Node : undo[m] = "idle"
      /\ UNCHANGED <<plan, opts, phase, scope, undo>>
      /\ \A m \in Node \ {n} : pc'[m] = pc[m]
      /\ pc[n] \notin Returned
      /\ pc' \in [Node -> TaskState]
<1>0. frame
  BY TaskFrame
<1> HIDE DEF frame
<1>1. TypeOK'
  BY TypeOKTask DEF IInv
<1>2. LockInv' /\ NoLostCleanup'
  <2> USE DEF IInv, LockInv, NoLostCleanup, TypeOK, config, taskVars
  <2>1. CASE LockCleanup(n)
    BY <2>1, FreeAssumption DEF LockCleanup
  <2>2. CASE AppendCleanup(n)
    BY <2>2 DEF AppendCleanup
  <2>3. CASE ~LockCleanup(n) /\ ~AppendCleanup(n)
    BY <2>3 DEF Task, StartTask, SetupSkipped, SetupSucceeds, SetupFails,
       SetupPanics, HelperPanics
  <2> QED
    BY <2>1, <2>2, <2>3
<1>3. PhaseInv'
  BY <1>0 DEF frame, PhaseInv
<1>4. StartInv'
  <2> SUFFICES ASSUME NEW m \in Node, pc'[m] # "waiting", NEW d \in Deps[m]
               PROVE  pc'[d] \in Returned
    BY <1>0 DEF frame, StartInv, Deps
  <2>1. d \in Node
    BY DepsType DEF IInv
  <2>2. pc[d] \in Returned
    <3>1. CASE m = n /\ pc[n] = "waiting"
      <4>1. StartTask(n)
        BY <3>1 DEF Task, SetupSkipped, SetupSucceeds, SetupFails, SetupPanics,
           HelperPanics, LockCleanup, AppendCleanup
      <4> QED
        BY <3>1, <4>1 DEF StartTask
    <3>2. CASE ~(m = n /\ pc[n] = "waiting")
      BY <1>0, <3>2 DEF frame, IInv, StartInv
    <3> QED
      BY <3>1, <3>2
  <2> QED
    BY <1>0, <2>1, <2>2 DEF frame
<1>5. ScopeInv' /\ UndoInv' /\ OutcomeInv'
  BY <1>0 DEF frame, ScopeInv, UndoInv, OutcomeInv, Closed
<1> QED
  BY <1>1, <1>2, <1>3, <1>4, <1>5 DEF IInv

LEMMA IInvUndo ==
  ASSUME IInv, NEW n \in Node, UndoTask(n)
  PROVE  IInv'
<1>1. /\ TypeOK'
      /\ UNCHANGED <<plan, opts, phase, pc, cleanLock, snapshot, cleanup, scope>>
      /\ \A m \in Node \ {n} : undo'[m] = undo[m]
      /\ n \in scope
      /\ phase \in {"cleanup", "finished"}
      /\ undo[n] \notin Finished
  <2>1. TypeOK'
    BY TypeOKUndo DEF IInv
  <2> QED
    BY <2>1 DEF IInv, TypeOK, PhaseInv, ScopeInv, Finished, UndoTask, BeginUndo, EndUndo,
       EndUndoFails, config, taskVars
<1>2. LockInv' /\ NoLostCleanup' /\ StartInv' /\ PhaseInv' /\ ScopeInv'
  BY <1>1 DEF IInv, LockInv, NoLostCleanup, StartInv, PhaseInv, Drained, ScopeInv,
     Deps
<1>3. UndoInv'
  <2> SUFFICES ASSUME NEW m \in scope, NEW d \in Deps[m], undo'[d] # "idle"
               PROVE  undo'[m] \in Finished
    BY <1>1 DEF UndoInv, Deps
  <2>1. m \in Node /\ d \in Node
    BY DepsType DEF IInv, TypeOK
  <2>2. undo[m] \in Finished
    <3>1. CASE BeginUndo(n) /\ d = n
      BY <3>1 DEF BeginUndo
    <3>2. CASE ~(BeginUndo(n) /\ d = n)
      <4>1. undo[d] # "idle"
        BY <1>1, <2>1, <3>2 DEF UndoTask, EndUndo, EndUndoFails
      <4> QED
        BY <4>1 DEF IInv, UndoInv
    <3> QED
      BY <3>1, <3>2
  <2> QED
    BY <1>1, <2>1, <2>2
<1>4. OutcomeInv'
  BY <1>1 DEF IInv, TypeOK, OutcomeInv, PhaseInv, ScopeInv, Deletes, NoCleanup,
     Finished, UndoTask, BeginUndo, EndUndo, EndUndoFails
<1> QED
  BY <1>1, <1>2, <1>3, <1>4 DEF IInv

LEMMA IInvDriver ==
  ASSUME IInv, Driver
  PROVE  IInv'
<1>1. TypeOK'
  BY TypeOKDriver DEF IInv
<1>2. UNCHANGED <<plan, opts, pc, cleanLock, snapshot, cleanup, undo, live>>
  BY DEF Driver, AddRepos, AddReposFails, RunSucceeds, RunFails, SpecsEnd, Hold,
     Interrupt, StartCleanup, CleanupReturns, config, taskVars, undoVars
<1>3. LockInv' /\ NoLostCleanup' /\ StartInv'
  BY <1>2 DEF IInv, LockInv, NoLostCleanup, StartInv, Deps
<1>4. CASE StartCleanup
  <2>1. /\ phase \in {"teardown", "released"} /\ phase' = "cleanup"
        /\ UNCHANGED failed
        /\ \A n \in Node : undo[n] = "idle"
    BY <1>4 DEF StartCleanup, IInv, PhaseInv
  <2>2. PhaseInv' /\ OutcomeInv'
    BY <1>2, <2>1 DEF IInv, PhaseInv, Drained, OutcomeInv
  <2>3. Deps \in [Node -> SUBSET Node] /\ cleanup \subseteq Node
    BY DepsType DEF IInv, TypeOK
  <2>4. UndoInv'
    BY <1>1, <1>2, <2>1, <2>3 DEF TypeOK, UndoInv, Deps
  <2>5. scope' \in {Node, {}, Upstream(Deps, cleanup)}
    BY <1>4 DEF StartCleanup
  <2>6. cleanup # {} => scope' = Upstream(Deps, cleanup)
    BY <1>4 DEF StartCleanup
  <2>7. Closed(Deps, scope')
    <3>1. Closed(Deps, Node) /\ Closed(Deps, {})
      BY <2>3 DEF Closed
    <3>2. Closed(Deps, Upstream(Deps, cleanup))
      BY <2>3, UpstreamContains
    <3> QED
      BY <2>5, <3>1, <3>2
  <2>8. ScopeInv'
    BY <1>2, <2>1, <2>6, <2>7 DEF ScopeInv, Deps
  <2> QED
    BY <1>1, <1>3, <2>2, <2>4, <2>8 DEF IInv
<1>5. CASE ~StartCleanup
  <2>1. UNCHANGED scope /\ (failed' = failed \/ failed' = TRUE)
    BY <1>5 DEF Driver, AddRepos, AddReposFails, RunSucceeds, RunFails, SpecsEnd,
       Hold, Interrupt, CleanupReturns, undoVars
  <2>2. PhaseInv'
    BY <1>2, <1>5, <2>1 DEF IInv, TypeOK, PhaseInv, Phase, Drained, InFlight,
       Returned, Driver, AddRepos, AddReposFails, RunSucceeds, RunFails, SpecsEnd,
       Hold, Interrupt, CleanupReturns
  <2>3. ScopeInv'
    <3>1. CASE phase = "repos"
      <4>1. cleanup = {}
        BY <3>1 DEF IInv, NoLostCleanup, PhaseInv
      <4> QED
        BY <1>2, <2>1, <4>1 DEF IInv, ScopeInv, Deps
    <3>2. CASE phase # "repos"
      <4>1. phase' \in {"cleanup", "finished"} => phase \in {"cleanup", "finished"}
        BY <1>5, <3>2 DEF Driver, AddRepos, AddReposFails, RunSucceeds, RunFails,
           SpecsEnd, Hold, Interrupt, CleanupReturns
      <4> QED
        BY <1>2, <2>1, <4>1 DEF IInv, ScopeInv, Deps
    <3> QED
      BY <3>1, <3>2
  <2>4. UndoInv'
    BY <1>2, <2>1 DEF IInv, UndoInv, Deps
  <2>5. OutcomeInv'
    <3>1. phase' = "finished" => \A n \in scope : undo[n] \in Finished
      BY <1>5 DEF IInv, PhaseInv, OutcomeInv, Driver, AddRepos, AddReposFails,
         RunSucceeds, RunFails, SpecsEnd, Hold, Interrupt, CleanupReturns
    <3> QED
      BY <1>2, <2>1, <3>1 DEF IInv, OutcomeInv, Deletes, NoCleanup
  <2> QED
    BY <1>1, <1>3, <2>2, <2>3, <2>4, <2>5 DEF IInv
<1> QED
  BY <1>4, <1>5

LEMMA IInvStep == IInv /\ [Next]_vars => IInv'
<1> SUFFICES ASSUME IInv, [Next]_vars PROVE IInv'
  OBVIOUS
<1>1. CASE Driver
  BY <1>1, IInvDriver
<1>2. ASSUME NEW n \in Node, Task(n) \/ UndoTask(n) PROVE IInv'
  BY <1>2, IInvTask, IInvUndo
<1>3. CASE UNCHANGED vars
  BY <1>3 DEF vars, IInv, TypeOK, LockInv, NoLostCleanup, PhaseInv, Drained,
     StartInv, ScopeInv, UndoInv, OutcomeInv, Deps, Deletes, NoCleanup
<1> QED
  BY <1>1, <1>2, <1>3 DEF Next, Terminated

THEOREM Invariance == Safety => []IInv
BY IInvInit, IInvStep, PTL DEF Safety

-----------------------------------------------------------------------------
(* The properties.  Direct dependencies are what the invariant speaks of;  *)
(* each property below follows for indirect ones by UpstreamLeast, from a  *)
(* set that the invariant shows to be closed.                              *)

LEMMA NeedsFirst == IInv => NeedsReturnFirst
<1> SUFFICES ASSUME IInv, NEW n \in Node, pc[n] # "waiting",
                    NEW m \in Needs(Deps, n)
             PROVE  pc[m] \in Returned
  BY DEF NeedsReturnFirst
<1> DEFINE C == {k \in Node : k = n \/ pc[k] \in Returned}
<1>1. Deps \in [Node -> SUBSET Node]
  BY DepsType DEF IInv
<1>2. Closed(Deps, C)
  BY <1>1 DEF IInv, StartInv, Closed, Returned
<1>3. Upstream(Deps, {n}) \subseteq C
  BY <1>1, <1>2, UpstreamLeast
<1> QED
  BY <1>3 DEF Needs

LEMMA OnlyProvisioned == IInv => OnlyProvisionedUndone
<1> SUFFICES ASSUME IInv, cleanup # {}, NEW n \in Node, undo[n] # "idle"
             PROVE  pc[n] \in Returned
  BY DEF OnlyProvisionedUndone
<1> DEFINE C == {k \in Node : pc[k] \in Returned}
<1>1. Deps \in [Node -> SUBSET Node]
  BY DepsType DEF IInv
<1>2. Closed(Deps, C)
  BY <1>1 DEF IInv, StartInv, Closed, Returned
<1>3. cleanup \subseteq C
  BY DEF IInv, NoLostCleanup, Returned
<1>4. Upstream(Deps, cleanup) \subseteq C
  BY <1>1, <1>2, <1>3, UpstreamLeast
<1>5. n \in Upstream(Deps, cleanup)
  BY DEF IInv, ScopeInv, PhaseInv
<1> QED
  BY <1>4, <1>5

\* Within the scope the order holds for whatever a node needs.
LEMMA ScopeOrder ==
  ASSUME IInv, NEW m \in scope, undo[m] \notin Finished, NEW n \in Needs(Deps, m)
  PROVE  n \in scope /\ undo[n] = "idle"
<1> DEFINE C == {k \in scope : k = m \/ undo[k] = "idle"}
<1>1. Deps \in [Node -> SUBSET Node] /\ scope \subseteq Node
  BY DepsType DEF IInv, TypeOK
<1>2. Closed(Deps, C)
  BY <1>1 DEF IInv, ScopeInv, UndoInv, Closed, Finished
<1>3. Upstream(Deps, {m}) \subseteq C
  BY <1>1, <1>2, UpstreamLeast
<1> QED
  BY <1>3 DEF Needs

\* Once the scope is known, it holds every node whose Setup succeeded.
LEMMA DoneInScope ==
  ASSUME IInv, phase \in {"cleanup", "finished"}, NEW m \in Node, pc[m] = "done"
  PROVE  m \in scope
<1>1. m \in cleanup
  BY DEF IInv, NoLostCleanup
<1>2. cleanup \subseteq Upstream(Deps, cleanup)
  BY DepsType, UpstreamContains DEF IInv, TypeOK
<1> QED
  BY <1>1, <1>2 DEF IInv, ScopeInv

LEMMA OrderedTeardown == IInv => TeardownOrder
<1> SUFFICES ASSUME IInv, NEW m \in Node, pc[m] = "done", undo[m] \notin Finished,
                    NEW n \in Needs(Deps, m)
             PROVE  undo[n] = "idle"
  BY DEF TeardownOrder
<1>1. CASE phase \in {"cleanup", "finished"}
  BY <1>1, DoneInScope, ScopeOrder
<1>2. CASE phase \notin {"cleanup", "finished"}
  <2>1. Deps \in [Node -> SUBSET Node]
    BY DepsType DEF IInv
  <2>2. n \in Node
    BY <2>1 DEF Needs, Upstream
  <2> QED
    BY <1>2, <2>2 DEF IInv, PhaseInv
<1> QED
  BY <1>1, <1>2

LEMMA Clean == IInv => NoLeak
<1> SUFFICES ASSUME IInv, phase = "finished", NEW n \in Node, pc[n] = "done",
                    Deletes(n), n \in live
             PROVE  undo[n] = "failed" /\ failed
  BY DEF NoLeak
<1>1. n \in scope
  BY DoneInScope
<1> QED
  BY <1>1 DEF IInv, OutcomeInv, Finished

(* A task starts only when all it needs, directly or not, has returned.    *)
THEOREM NeedsReturnFirstAlways == Safety => []NeedsReturnFirst
BY Invariance, NeedsFirst, PTL

(* Concurrent tasks never lose an entry of the cleanup list.               *)
THEOREM NoLostCleanupAlways == Safety => []NoLostCleanup
<1>1. IInv => NoLostCleanup
  BY DEF IInv
<1> QED
  BY <1>1, Invariance, PTL

(* What has been set up is torn down before anything it needs, directly or *)
(* through nodes that panicked and are on no list.                         *)
THEOREM TeardownOrderAlways == Safety => []TeardownOrder
BY Invariance, OrderedTeardown, PTL

(* A step whose Setup failed or never ran is not undone when others were   *)
(* set up.                                                                 *)
THEOREM OnlyProvisionedUndoneAlways == Safety => []OnlyProvisionedUndone
BY Invariance, OnlyProvisioned, PTL

(* The cleanup leaves nothing behind unless it says so.                    *)
THEOREM NoLeakAlways == Safety => []NoLeak
BY Invariance, Clean, PTL

(* Nothing is set up once teardown has begun, and nothing is undone twice. *)
THEOREM TeardownIsFinalAlways == Safety => TeardownIsFinal
<1> DEFINE Step == \A n \in Node :
                     /\ undo[n] \in Finished => undo'[n] = undo[n]
                     /\ (\E m \in Node : undo[m] # "idle") => pc'[n] = pc[n]
<1>1. IInv /\ [Next]_vars => [Step]_vars
  <2> SUFFICES ASSUME IInv, [Next]_vars, NEW n \in Node
               PROVE  /\ undo[n] \in Finished => undo'[n] = undo[n]
                      /\ (\E m \in Node : undo[m] # "idle") => pc'[n] = pc[n]
    OBVIOUS
  <2>1. CASE Driver
    BY <2>1 DEF Driver, AddRepos, AddReposFails, RunSucceeds, RunFails, SpecsEnd,
       Hold, Interrupt, StartCleanup, CleanupReturns, config, taskVars, undoVars
  <2>2. ASSUME NEW k \in Node, Task(k)
        PROVE  UNCHANGED undo /\ \A m \in Node : undo[m] = "idle"
    BY <2>2, TaskFrame
  <2>3. ASSUME NEW k \in Node, UndoTask(k)
        PROVE  UNCHANGED pc /\ (undo[n] \in Finished => undo'[n] = undo[n])
    BY <2>3 DEF UndoTask, BeginUndo, EndUndo, EndUndoFails, taskVars, Finished,
       IInv, TypeOK
  <2>4. CASE UNCHANGED vars
    BY <2>4 DEF vars
  <2> QED
    BY <2>1, <2>2, <2>3, <2>4 DEF Next, Terminated
<1> QED
  BY <1>1, Invariance, PTL DEF Safety, TeardownIsFinal

-----------------------------------------------------------------------------
(* Nothing is lost in silence *)

\* Every swallowed panic is on record; who has got past Setup skipped it or
\* has a resource, until that is deleted.
ReportInv ==
  /\ \A n \in Node : pc[n] = "panicked" => failed
  /\ phase \notin {"repos", "run"} => failed \/ \A n \in Node : pc[n] = "done"
  /\ \A n \in Node : pc[n] \in {"setUp", "appending", "done"} =>
       Skipped(n) \/ n \in live \/ undo[n] = "undone"

LEMMA ReportStep == IInv /\ ReportInv /\ [Next]_vars => ReportInv'
<1> SUFFICES ASSUME IInv, ReportInv, [Next]_vars PROVE ReportInv'
  OBVIOUS
<1>1. CASE Driver
  <2>1. UNCHANGED <<plan, opts, pc, undo, live>> /\ (failed => failed')
    BY <1>1 DEF Driver, AddRepos, AddReposFails, RunSucceeds, RunFails, SpecsEnd,
       Hold, Interrupt, StartCleanup, CleanupReturns, config, taskVars, undoVars,
       IInv, TypeOK
  <2>2. phase' \notin {"repos", "run"} => failed' \/ \A n \in Node : pc[n] = "done"
    BY <1>1, <2>1 DEF ReportInv, Returned, Driver, AddRepos, AddReposFails, RunSucceeds,
       RunFails, SpecsEnd, Hold, Interrupt, StartCleanup, CleanupReturns
  <2> QED
    BY <2>1, <2>2 DEF ReportInv, Skipped
<1>2. ASSUME NEW n \in Node, Task(n) PROVE ReportInv'
  <2>1. /\ phase = "run" /\ UNCHANGED <<plan, opts, phase, undo>>
        /\ \A m \in Node \ {n} : pc'[m] = pc[m]
        /\ pc' \in [Node -> TaskState]
    BY <1>2, TaskFrame
  <2>2. live \subseteq live' /\ (failed => failed')
    BY <1>2 DEF Task, StartTask, SetupSkipped, SetupSucceeds, SetupFails,
       SetupPanics, HelperPanics, LockCleanup, AppendCleanup, IInv, TypeOK
  <2>3. /\ pc'[n] = "panicked" => failed'
        /\ pc'[n] \in {"setUp", "appending", "done"} =>
             Skipped(n) \/ n \in live' \/ undo[n] = "undone"
    <3> USE DEF IInv, TypeOK
    <3>1. CASE StartTask(n) \/ SetupFails(n) \/ SetupPanics(n)
      BY <3>1 DEF StartTask, SetupFails, SetupPanics
    <3>2. CASE SetupSkipped(n) \/ SetupSucceeds(n)
      BY <3>2 DEF SetupSkipped, SetupSucceeds
    <3>3. CASE HelperPanics(n)
      BY <3>3 DEF HelperPanics, taskVars
    <3>4. CASE LockCleanup(n) \/ AppendCleanup(n)
      BY <2>2, <3>4 DEF LockCleanup, AppendCleanup, ReportInv
    <3> QED
      BY <1>2, <3>1, <3>2, <3>3, <3>4 DEF Task
  <2> QED
    BY <2>1, <2>2, <2>3 DEF ReportInv, Skipped
<1>3. ASSUME NEW n \in Node, UndoTask(n) PROVE ReportInv'
  <2>1. /\ UNCHANGED <<plan, opts, phase, pc>> /\ (failed => failed')
        /\ \A m \in Node \ {n} :
             /\ undo'[m] = undo[m]
             /\ m \in live' <=> m \in live
        /\ n \in live => n \in live' \/ undo'[n] = "undone"
        /\ undo[n] # "undone"
    BY <1>3 DEF UndoTask, BeginUndo, EndUndo, EndUndoFails, config, taskVars, IInv,
       TypeOK
  <2> QED
    BY <2>1 DEF ReportInv, Skipped
<1>4. CASE UNCHANGED vars
  BY <1>4 DEF vars, ReportInv, Skipped
<1> QED
  BY <1>1, <1>2, <1>3, <1>4 DEF Next, Terminated

(* A Setup that returns leaves every resource in place, or a failed spec.  *)
THEOREM NoSilentLossAlways == Safety => []NoSilentLoss
<1>1. Init => ReportInv
  BY DEF Init, ReportInv
<1>2. IInv /\ ReportInv => NoSilentLoss
  BY DEF IInv, TypeOK, NoLostCleanup, ReportInv, NoSilentLoss
<1> QED
  BY <1>1, <1>2, ReportStep, Invariance, PTL DEF Safety

-----------------------------------------------------------------------------
(***************************************************************************)
(* SpecLifecycle implements Provisioning for every plan: most steps change *)
(* no resource's life, and the others are steps of Provisioning.           *)
(***************************************************************************)


st == [n \in Node |-> LifeOf(n)]

\* A step that leaves pc and undo alone, up to the states that LifeOf does
\* not tell apart, is a stutter.
LEMMA Stutters ==
  ASSUME UNCHANGED plan, \A n \in Node : LifeOf(n)' = LifeOf(n)
  PROVE  UNCHANGED P!vars
BY DEF P!vars, Deps

LEMMA RefinesInit == Init => P!Init
BY PlansAssumption DEF Init, P!Init, LifeOf, Returned, Plan, Deps

\* The task of n settles, as "up" or "broken".
LEMMA RefinesSettle ==
  ASSUME IInv, NEW n \in Node, Task(n), pc'[n] \in Returned
  PROVE  P!Next
<1> DEFINE how == IF pc'[n] = "done" THEN "up" ELSE "broken"
<1>1. /\ phase = "run" /\ scope = {} /\ \A m \in Node : undo[m] = "idle"
      /\ UNCHANGED <<plan, opts, phase, scope, undo>>
      /\ \A m \in Node \ {n} : pc'[m] = pc[m]
      /\ pc[n] \notin Returned
      /\ pc' \in [Node -> TaskState]
  BY TaskFrame
<1>2. Deps \in [Node -> SUBSET Node]
  BY DepsType DEF IInv
<1>3. pc[n] # "waiting"
  BY DEF IInv, TypeOK, Returned, Task, StartTask, SetupSkipped, SetupSucceeds,
     SetupFails, SetupPanics, HelperPanics, LockCleanup, AppendCleanup
<1>4. st[n] = "absent" /\ how \in P!Settled
  BY <1>1 DEF st, LifeOf, P!Settled
<1>5. \A d \in Deps[n] : st[d] \in P!Settled
  BY <1>1, <1>2, <1>3 DEF IInv, StartInv, st, LifeOf, P!Settled, Finished
<1>6. \A m \in Node : st[m] \notin P!Leaving
  BY <1>1 DEF st, LifeOf, P!Leaving, Finished
<1>7. st' = [st EXCEPT ![n] = how]
  <2>1. ASSUME NEW m \in Node PROVE LifeOf(m)' = IF m = n THEN how ELSE LifeOf(m)
    BY <1>1 DEF LifeOf, Finished
  <2> QED
    BY <2>1 DEF st
<1>8. P!Settle(n, how)
  BY <1>1, <1>4, <1>5, <1>6, <1>7 DEF P!Settle, st, Deps
<1> QED
  BY <1>4, <1>8 DEF P!Next

\* Within the scope, whoever needs n is over when n's cleanup may begin.
LEMMA NeededNoMore ==
  ASSUME IInv, NEW n \in Node, BeginUndo(n),
         NEW m \in scope, n \in Needs(Deps, m)
  PROVE  undo[m] \in Finished
<1> SUFFICES ASSUME undo[m] \notin Finished PROVE FALSE
  OBVIOUS
<1> DEFINE C == {k \in scope : (k = m \/ undo[k] = "idle") /\ k # n}
<1>1. Deps \in [Node -> SUBSET Node] /\ scope \subseteq Node
  BY DepsType DEF IInv, TypeOK
<1>2. Closed(Deps, C)
  BY <1>1 DEF IInv, ScopeInv, UndoInv, Closed, Finished, BeginUndo
<1>3. m \in C
  BY DEF Needs
<1>4. Upstream(Deps, {m}) \subseteq C
  BY <1>1, <1>2, <1>3, UpstreamLeast
<1> QED
  BY <1>4 DEF Needs

\* The cleanup of n begins: its resource starts to leave, if it had settled.
LEMMA RefinesBeginUndo ==
  ASSUME IInv, NEW n \in Node, BeginUndo(n)
  PROVE  P!Next \/ UNCHANGED P!vars
<1>1. /\ n \in scope /\ undo[n] = "idle" /\ phase = "cleanup"
      /\ UNCHANGED <<plan, pc>>
      /\ undo' = [undo EXCEPT ![n] = "running"]
      /\ undo \in [Node -> UndoState] /\ pc \in [Node -> TaskState]
  BY DEF BeginUndo, config, taskVars, IInv, TypeOK
<1>2. CASE pc[n] \notin Returned
  <2>1. \A m \in Node : LifeOf(m)' = LifeOf(m)
    BY <1>1, <1>2 DEF LifeOf
  <2> QED
    BY <1>1, <2>1, Stutters
<1>3. CASE pc[n] \in Returned
  <2>1. st[n] \in P!Settled
    BY <1>1, <1>3 DEF st, LifeOf, P!Settled, Finished
  <2>2. Deps \in [Node -> SUBSET Node]
    BY DepsType DEF IInv
  <2>3. \A k \in Needs(Deps, n) : st[k] \in P!Settled
    <3> SUFFICES ASSUME NEW k \in Needs(Deps, n) PROVE st[k] \in P!Settled
      OBVIOUS
    <3>1. k \in Node
      BY <2>2 DEF Needs, Upstream
    <3>2. undo[k] = "idle"
      BY <1>1, ScopeOrder DEF Finished
    <3>3. pc[k] \in Returned
      <4>1. pc[n] # "waiting"
        BY <1>3 DEF Returned
      <4> QED
        BY <4>1, NeedsFirst DEF NeedsReturnFirst
    <3> QED
      BY <3>1, <3>2, <3>3 DEF st, LifeOf, P!Settled, Finished
  <2>4. \A m \in Node : n \in Needs(Deps, m) => st[m] \notin {"up", "retiring"}
    <3> SUFFICES ASSUME NEW m \in Node, n \in Needs(Deps, m),
                        st[m] \in {"up", "retiring"}
                 PROVE  FALSE
      OBVIOUS
    <3>1. m \in scope /\ undo[m] \notin Finished
      <4>1. CASE pc[m] = "done" /\ undo[m] = "idle"
        BY <1>1, <4>1, DoneInScope DEF Finished
      <4>2. CASE undo[m] = "running"
        BY <4>2 DEF IInv, ScopeInv, Finished
      <4>3. \/ pc[m] = "done" /\ undo[m] = "idle"
            \/ undo[m] = "running"
        BY <1>1 DEF st, LifeOf, Finished, UndoState
      <4> QED
        BY <4>1, <4>2, <4>3
    <3> QED
      BY <3>1, NeededNoMore
  <2>5. st' = [st EXCEPT ![n] = "retiring"]
    <3>1. ASSUME NEW m \in Node
          PROVE  LifeOf(m)' = IF m = n THEN "retiring" ELSE LifeOf(m)
      BY <1>1, <1>3 DEF LifeOf, Finished
    <3> QED
      BY <3>1 DEF st
  <2>6. P!Retire(n)
    BY <1>1, <2>1, <2>3, <2>4, <2>5 DEF P!Retire, P!Needs, Needs, P!Upstream,
       Upstream, P!Closed, Closed, st, Deps
  <2> QED
    BY <2>6 DEF P!Next
<1> QED
  BY <1>2, <1>3

\* The cleanup of n is over: its resource has left, if it had settled.
LEMMA RefinesEndUndo ==
  ASSUME IInv, NEW n \in Node, EndUndo(n) \/ EndUndoFails(n)
  PROVE  P!Next \/ UNCHANGED P!vars
<1>1. /\ undo[n] = "running"
      /\ UNCHANGED <<plan, pc>>
      /\ undo'[n] \in Finished
      /\ \A m \in Node \ {n} : undo'[m] = undo[m]
  BY DEF EndUndo, EndUndoFails, config, taskVars, IInv, TypeOK, Finished
<1>2. CASE pc[n] \notin Returned
  <2>1. \A m \in Node : LifeOf(m)' = LifeOf(m)
    BY <1>1, <1>2 DEF LifeOf
  <2> QED
    BY <1>1, <2>1, Stutters
<1>3. CASE pc[n] \in Returned
  <2>1. st[n] = "retiring"
    BY <1>1, <1>3 DEF st, LifeOf, Finished
  <2>2. st' = [st EXCEPT ![n] = "retired"]
    <3>1. ASSUME NEW m \in Node
          PROVE  LifeOf(m)' = IF m = n THEN "retired" ELSE LifeOf(m)
      BY <1>1, <1>3 DEF LifeOf, Finished
    <3> QED
      BY <3>1 DEF st
  <2>3. P!Leave(n)
    BY <1>1, <2>1, <2>2 DEF P!Leave, st, Deps
  <2> QED
    BY <2>3 DEF P!Next
<1> QED
  BY <1>2, <1>3

LEMMA RefinesStep == IInv /\ [Next]_vars => [P!Next]_(P!vars)
<1> SUFFICES ASSUME IInv, [Next]_vars PROVE P!Next \/ UNCHANGED P!vars
  OBVIOUS
<1>1. CASE Driver
  <2>1. UNCHANGED <<plan, pc, undo>>
    BY <1>1 DEF Driver, AddRepos, AddReposFails, RunSucceeds, RunFails, SpecsEnd,
       Hold, Interrupt, StartCleanup, CleanupReturns, config, taskVars, undoVars
  <2>2. \A m \in Node : LifeOf(m)' = LifeOf(m)
    BY <2>1 DEF LifeOf
  <2> QED
    BY <2>1, <2>2, Stutters
<1>2. ASSUME NEW n \in Node, Task(n) PROVE P!Next \/ UNCHANGED P!vars
  <2>1. CASE pc'[n] \in Returned
    BY <1>2, <2>1, RefinesSettle
  <2>2. CASE pc'[n] \notin Returned
    <3>1. /\ UNCHANGED <<plan, opts, phase, scope, undo>>
          /\ \A m \in Node \ {n} : pc'[m] = pc[m]
          /\ pc[n] \notin Returned
      BY <1>2, TaskFrame
    <3>2. \A m \in Node : LifeOf(m)' = LifeOf(m)
      BY <2>2, <3>1 DEF LifeOf
    <3> QED
      BY <3>1, <3>2, Stutters
  <2> QED
    BY <2>1, <2>2
<1>3. ASSUME NEW n \in Node, UndoTask(n) PROVE P!Next \/ UNCHANGED P!vars
  BY <1>3, RefinesBeginUndo, RefinesEndUndo DEF UndoTask
<1>4. CASE UNCHANGED vars
  BY <1>4 DEF vars, P!vars, Deps, LifeOf
<1> QED
  BY <1>1, <1>2, <1>3, <1>4 DEF Next, Terminated

(* Every behaviour of Setup and its cleanup is one that Provisioning allows*)
THEOREM Refinement == Safety => Provisions
BY RefinesInit, RefinesStep, Invariance, PTL DEF Safety, Provisions, P!Spec

-----------------------------------------------------------------------------
(* The promise of Provisioning, by itself: for every dependency graph.     *)

VARIABLES graph, life

A == INSTANCE Provisioning WITH deps <- graph, st <- life

\* What has left "absent" has left it after its dependencies did.
ASettleInv ==
  \A n \in Node : life[n] # "absent" => \A d \in graph[n] : life[d] # "absent"

AInv == A!TypeOK /\ ASettleInv /\ A!StandsOnWhatItNeeds

\* Before any teardown, all that a resource needs has settled.
LEMMA NeedsSettled ==
  ASSUME A!TypeOK, ASettleInv, \A m \in Node : life[m] \notin A!Leaving,
         NEW n \in Node, \A d \in graph[n] : life[d] # "absent"
  PROVE  \A k \in A!Needs(graph, n) : life[k] \in A!Settled
<1> DEFINE C == {k \in Node : k = n \/ life[k] # "absent"}
<1>1. Closed(graph, C)
  BY DEF Closed, A!TypeOK, ASettleInv
<1>2. Upstream(graph, {n}) \subseteq C
  BY <1>1, UpstreamLeast DEF A!TypeOK
<1>3. A!Upstream(graph, {n}) = Upstream(graph, {n})
  BY DEF A!Upstream, Upstream, A!Closed, Closed
<1> QED
  BY <1>2, <1>3 DEF A!Needs, A!TypeOK, A!Life, A!Leaving, A!Settled

LEMMA StandsStep == AInv /\ [A!Next]_A!vars => AInv'
<1> SUFFICES ASSUME AInv, [A!Next]_A!vars PROVE AInv'
  OBVIOUS
<1> USE DEF AInv
<1>1. ASSUME NEW n \in Node, NEW how \in A!Settled, A!Settle(n, how) PROVE AInv'
  <2>1. A!TypeOK' /\ ASettleInv'
    BY <1>1 DEF A!TypeOK, ASettleInv, A!Settle, A!Life, A!Settled
  <2>2. \A k \in A!Needs(graph, n) : life[k] \in A!Settled
    BY <1>1, NeedsSettled DEF A!Settle, A!Settled
  <2>3. \A m \in Node : A!Needs(graph, m) \subseteq Node
    BY DEF A!Needs, A!Upstream, A!TypeOK
  <2>4. A!StandsOnWhatItNeeds'
    BY <1>1, <2>2, <2>3 DEF A!StandsOnWhatItNeeds, A!Settle, A!TypeOK, A!Settled
  <2> QED
    BY <2>1, <2>4
<1>2. ASSUME NEW n \in Node, A!Retire(n) PROVE AInv'
  <2>1. A!TypeOK' /\ ASettleInv'
    BY <1>2 DEF A!TypeOK, ASettleInv, A!Retire, A!Life, A!Settled
  <2>2. \A m \in Node : A!Needs(graph, m) \subseteq Node \ {m}
    BY DEF A!Needs, A!Upstream, A!TypeOK
  <2>3. A!StandsOnWhatItNeeds'
    BY <1>2, <2>2 DEF A!StandsOnWhatItNeeds, A!Retire, A!TypeOK, A!Settled
  <2> QED
    BY <2>1, <2>3
<1>3. ASSUME NEW n \in Node, A!Leave(n) PROVE AInv'
  <2>1. A!TypeOK' /\ ASettleInv'
    BY <1>3 DEF A!TypeOK, ASettleInv, A!Leave, A!Life
  <2>2. \A m \in Node : A!Needs(graph, m) \subseteq Node \ {m}
    BY DEF A!Needs, A!Upstream, A!TypeOK
  <2>3. A!StandsOnWhatItNeeds'
    BY <1>3, <2>2 DEF A!StandsOnWhatItNeeds, A!Leave, A!TypeOK, A!Settled
  <2> QED
    BY <2>1, <2>3
<1>4. CASE UNCHANGED A!vars
  BY <1>4 DEF A!vars, A!TypeOK, ASettleInv, A!StandsOnWhatItNeeds
<1> QED
  BY <1>1, <1>2, <1>3, <1>4 DEF A!Next

LEMMA StandsInit == A!Init => AInv
BY DEF A!Init, AInv, A!TypeOK, ASettleInv, A!StandsOnWhatItNeeds, A!Life

(* A resource that is up or being deleted stands on resources none of which*)
(* has begun to be deleted: what a Cleanup that talks to its cluster relies*)
(* on.                                                                     *)
THEOREM StandsOnWhatItNeedsAlways == A!Spec => []A!StandsOnWhatItNeeds
<1>1. AInv => A!StandsOnWhatItNeeds
  BY DEF AInv
<1> QED
  BY <1>1, StandsInit, StandsStep, PTL DEF A!Spec

(* So it is with Setup and its cleanup: the Cleanup of a resource runs when*)
(* nothing has begun to be deleted that it needs, directly or not.         *)
THEOREM LifecycleStands == Safety => []P!StandsOnWhatItNeeds
<1>1. IInv => P!StandsOnWhatItNeeds
  <2> SUFFICES ASSUME IInv, NEW m \in Node, st[m] \in {"up", "retiring"},
                      NEW n \in Needs(Deps, m)
               PROVE  st[n] \in P!Settled
    BY DEF P!StandsOnWhatItNeeds, P!Needs, Needs, P!Upstream, Upstream, P!Closed, Closed, st, Deps
  <2>1. n \in Node
    BY DepsType DEF IInv, Needs, Upstream
  <2>2. pc[m] \in Returned /\ undo[m] \notin Finished
    BY DEF st, LifeOf, Finished
  <2>3. pc[n] \in Returned
    BY <2>2, NeedsFirst DEF NeedsReturnFirst, Returned
  <2>4. undo[n] = "idle"
    <3>1. CASE undo[m] = "running"
      BY <2>2, <3>1, ScopeOrder DEF IInv, ScopeInv, Finished
    <3>2. CASE pc[m] = "done"
      BY <2>2, <3>2, OrderedTeardown DEF TeardownOrder
    <3> QED
      BY <2>2, <3>1, <3>2 DEF st, LifeOf, IInv, TypeOK, UndoState, Finished
  <2> QED
    BY <2>1, <2>3, <2>4 DEF st, LifeOf, P!Settled, Finished
<1> QED
  BY <1>1, Invariance, PTL
=============================================================================
