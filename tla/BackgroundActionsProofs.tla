---------------------- MODULE BackgroundActionsProofs ----------------------
(***************************************************************************)
(* The safety of BackgroundActions for any number of rounds.  The goroutine*)
(* of a round reads stop and stopped from the fields whenever it needs     *)
(* them; what makes that safe is that the fields hold the channels of its  *)
(* own round for as long as it runs.  That is so for a logger whatever is  *)
(* called in which order, and for a forwarder until rounds overlap.        *)
(***************************************************************************)
EXTENDS BackgroundActions, TLAPS

\* The goroutine that runs has its channels in the fields.
Orderly == kind = "logger" \/ (kind = "forwarder" /\ ~overlap)

\* A round has the fields to itself from its Setup to the end of its Cleanup.
Single == kind # "watcher" /\ ~overlap /\ ~Intruded

Active(r) == call[r] \in {"up"} \cup Closing

\* There is a context to cancel when anything was called.
CancelInv ==
  /\ stopped # 0 => cancel # 0
  /\ \A r \in Round : call[r] # "idle" => cancel # 0

\* A goroutine that runs closes its own channel, and none outlives a Cleanup.
RunnerInv ==
  /\ stop = stopped
  /\ \A r \in Round :
       /\ runner[r] \notin {"none", "gone"} => stopped = r
       /\ (runner[r] = "gone") <=> (r \in closedStopped)
       /\ runner[r] = "canceled" => r \in cancelled
       /\ runner[r] # "none" => call[r] \notin {"idle", "refused"}
       /\ call[r] = "up" => runner[r] # "none"
       /\ r \in closedStop => runner[r] # "none"
       /\ call[r] = "done" => runner[r] \in {"none", "gone"}

\* One Cleanup at most has got beyond the close of stop, whoever called it;
\* until then the round that made the channel is up.
StopInv ==
  /\ \A r \in Round : call[r] \in Closing => stop # 0 /\ stop \in closedStop
  /\ \A q, r \in Round : call[q] \in Closing /\ call[r] \in Closing => q = r
  /\ stop # 0 =>
       \/ call[stop] = "up" /\ stop \notin closedStop
       \/ \E q \in Round : call[q] \in Closing
       \/ kind = "forwarder" /\ stop \in closedStopped

\* Only a logger refuses; only what was refused has no goroutine.
ForwarderInv ==
  kind = "forwarder" => \A r \in Round : (runner[r] = "none") <=> (call[r] = "idle")

SingleInv ==
  \A r \in Round :
    /\ call[r] # "panicked"
    /\ Active(r) => stop = r
    /\ call[r] = "up" => r \notin closedStop
    /\ runner[r] = "none" => call[r] \in {"idle", "refused"}

\* A watcher has no goroutine, and its Cleanup is one step.
WatcherInv ==
  \A r \in Round :
    /\ call[r] \notin Closing \cup {"panicked"}
    /\ runner[r] \in {"none", "kubectl", "gone"}

IInv ==
  /\ TypeOK
  /\ CancelInv
  /\ ForwarderInv
  /\ Orderly => ~crashed /\ RunnerInv /\ StopInv
  /\ Single => SingleInv /\ KeepsTrying
  /\ kind = "watcher" => ~crashed /\ WatcherInv

-----------------------------------------------------------------------------

LEMMA IInvInit == Init => IInv
BY RoundsAssumption DEF Init, IInv, TypeOK, CallState, RunnerState, Round, CancelInv,
   ForwarderInv, Orderly, RunnerInv, StopInv, Closing, Single, SingleInv, KeepsTrying,
   Active, WatcherInv

(* Once the Cleanup of a refused logger has run, that stays so.            *)
LEMMA IntrudedStays ==
  ASSUME TypeOK, Intruded, [Next]_vars
  PROVE  Intruded'
<1>1. PICK r \in Round : runner[r] = "none" /\ call[r] \notin {"idle", "refused"}
  BY DEF Intruded
<1>2. runner'[r] = "none" /\ call'[r] \notin {"idle", "refused"}
  <2>1. CASE UNCHANGED vars
    BY <1>1, <2>1 DEF vars
  <2>2. ASSUME NEW q \in Round,
               Setup(q) \/ SetupRefused(q) \/ WatcherNotStarted(q) \/ ContextEnds(q)
        PROVE  runner'[r] = "none" /\ call'[r] \notin {"idle", "refused"}
    BY <1>1, <2>2 DEF TypeOK, Setup, SetupRefused, WatcherNotStarted, ContextEnds, NextRound
  <2>3. ASSUME NEW q \in Round, KubectlExits(q) \/ Runner(q)
        PROVE  runner'[r] = "none" /\ call'[r] \notin {"idle", "refused"}
    BY <1>1, <2>3 DEF TypeOK, KubectlExits, Runner, StopOrRetry, Retry, Exit
  <2>4. ASSUME NEW q \in Round, CloseStop(q) \/ CancelWatcher(q) \/ Cleanup(q)
        PROVE  runner'[r] = "none" /\ call'[r] \notin {"idle", "refused"}
    BY <1>1, <2>4 DEF TypeOK, CloseStop, CancelWatcher, Cleanup, Cancel, AwaitRunner
  <2> QED
    BY <2>1, <2>2, <2>3, <2>4 DEF Next
<1> QED
  BY <1>2 DEF Intruded, Round

(* What is never undone.                                                   *)
LEMMA Lasting ==
  ASSUME TypeOK, [Next]_vars
  PROVE  /\ kind' = kind /\ stopOnSuccess' = stopOnSuccess
         /\ Orderly' => Orderly
         /\ Single' => Single
<1>1. kind' = kind /\ stopOnSuccess' = stopOnSuccess
  BY DEF vars, config, Next, Setup, SetupRefused, WatcherNotStarted, ContextEnds,
     KubectlExits, Runner, StopOrRetry, Retry, Exit, CloseStop, CancelWatcher, Cleanup,
     Cancel, AwaitRunner
<1>2. overlap' = overlap \/ Overlaps
  BY DEF vars, Next, Setup, SetupRefused, WatcherNotStarted, ContextEnds,
     KubectlExits, Runner, StopOrRetry, Retry, Exit, CloseStop, CancelWatcher, Cleanup,
     Cancel, AwaitRunner
<1>3. overlap => overlap'
  BY <1>2 DEF Overlaps
<1>4. Intruded => Intruded'
  BY IntrudedStays
<1> QED
  BY <1>1, <1>3, <1>4 DEF Orderly, Single

-----------------------------------------------------------------------------
(* Types *)

LEMMA TypeStep ==
  ASSUME TypeOK, CancelInv, [Next]_vars
  PROVE  TypeOK' /\ CancelInv'
<1> USE RoundsAssumption DEF TypeOK, CallState, RunnerState, Round, CancelInv, config,
        fields, channels
<1>1. CASE UNCHANGED vars
  BY <1>1 DEF vars
<1>2. ASSUME NEW r \in Round, Setup(r) \/ SetupRefused(r) \/ WatcherNotStarted(r)
      PROVE  TypeOK' /\ CancelInv'
  <2>1. CASE Setup(r)
    BY <2>1 DEF Setup, Overlaps
  <2>2. CASE SetupRefused(r)
    BY <2>2 DEF SetupRefused, MayStart
  <2>3. CASE WatcherNotStarted(r)
    BY <2>3 DEF WatcherNotStarted, Overlaps
  <2> QED
    BY <1>2, <2>1, <2>2, <2>3
<1>3. ASSUME NEW r \in Round, ContextEnds(r) \/ KubectlExits(r) \/ Runner(r)
      PROVE  TypeOK' /\ CancelInv'
  BY <1>3 DEF ContextEnds, KubectlExits, Runner, StopOrRetry, Retry, Exit
<1>4. ASSUME NEW r \in Round, CloseStop(r) \/ CancelWatcher(r)
      PROVE  TypeOK' /\ CancelInv'
  BY <1>4 DEF CloseStop, MayCleanUp, CancelWatcher
<1>5. ASSUME NEW r \in Round, Cleanup(r)
      PROVE  TypeOK' /\ CancelInv'
  <2>1. CASE Cancel(r)
    BY <2>1 DEF Cancel
  <2>2. CASE AwaitRunner(r)
    <3>1. CASE kind = "logger"
      BY <2>2, <3>1 DEF AwaitRunner, ResetFields
    <3>2. CASE kind # "logger"
      BY <2>2, <3>2 DEF AwaitRunner, ResetFields
    <3> QED
      BY <3>1, <3>2
  <2> QED
    BY <1>5, <2>1, <2>2 DEF Cleanup
<1> QED
  BY <1>1, <1>2, <1>3, <1>4, <1>5 DEF Next

-----------------------------------------------------------------------------
(* Who has the fields *)

LEMMA OrderlySetup ==
  ASSUME IInv, Orderly, Orderly', NEW r \in Round, Setup(r) \/ SetupRefused(r)
  PROVE  RunnerInv' /\ StopInv'
<1> USE RoundsAssumption DEF IInv, TypeOK, CallState, RunnerState, Round, config, fields,
        channels
<1>1. CASE Setup(r)
  <2>1. \A q \in Round : call[q] \notin Closing
    BY <1>1 DEF Setup, NextRound
  <2>2. kind = "forwarder" => \A q \in Round : call[q] # "up"
    BY <1>1 DEF Setup, Overlaps, Orderly
  <2>3. \A q \in Round : runner[q] \in {"none", "gone"}
    BY <1>1, <2>1, <2>2 DEF Setup, MayStart, Orderly, RunnerInv, StopInv
  <2>4. /\ stop' = r /\ stopped' = r /\ call[r] = "idle" /\ runner[r] = "none"
        /\ r \notin closedStop /\ r \notin closedStopped
        /\ UNCHANGED <<closedStop, closedStopped, cancelled>>
        /\ call' = [call EXCEPT ![r] = "up"] /\ runner' = [runner EXCEPT ![r] = "kubectl"]
    BY <1>1 DEF Setup, NextRound, Orderly, RunnerInv
  <2>5. RunnerInv'
    BY <2>3, <2>4 DEF Orderly, RunnerInv
  <2>6. StopInv'
    BY <2>1, <2>4 DEF StopInv, Closing
  <2> QED
    BY <2>5, <2>6
<1>2. CASE SetupRefused(r)
  BY <1>2 DEF SetupRefused, NextRound, RunnerInv, StopInv, Closing
<1> QED
  BY <1>1, <1>2

LEMMA OrderlyRunner ==
  ASSUME IInv, Orderly, Orderly', NEW r \in Round,
         ContextEnds(r) \/ KubectlExits(r) \/ Runner(r)
  PROVE  ~crashed' /\ RunnerInv' /\ StopInv'
<1> USE RoundsAssumption DEF IInv, TypeOK, CallState, RunnerState, Round, config, fields,
        channels, Orderly
<1>1. CASE ContextEnds(r)
  BY <1>1 DEF ContextEnds, RunnerInv, StopInv, Closing
<1>2. CASE KubectlExits(r)
  BY <1>2 DEF KubectlExits, RunnerInv, StopInv, Closing
<1>3. CASE StopOrRetry(r) \/ Retry(r)
  BY <1>3 DEF StopOrRetry, Retry, RunnerInv, StopInv, Closing
<1>4. CASE Exit(r)
  <2>1. stopped = r /\ r \notin closedStopped
    BY <1>4 DEF Exit, RunnerInv
  <2>2. ~crashed' /\ closedStopped' = closedStopped \cup {r}
        /\ UNCHANGED <<stop, stopped, closedStop, cancelled, call, kind>>
        /\ runner' = [runner EXCEPT ![r] = "gone"]
    BY <1>4, <2>1 DEF Exit
  <2>3. RunnerInv'
    BY <1>4, <2>1, <2>2 DEF Exit, RunnerInv
  <2>4. StopInv'
    BY <2>2 DEF StopInv, Closing
  <2> QED
    BY <2>2, <2>3, <2>4
<1> QED
  BY <1>1, <1>2, <1>3, <1>4 DEF Runner

LEMMA OrderlyCleanup ==
  ASSUME IInv, Orderly, Orderly', NEW r \in Round,
         CloseStop(r) \/ CancelWatcher(r) \/ Cleanup(r)
  PROVE  ~crashed' /\ RunnerInv' /\ StopInv'
<1> USE RoundsAssumption DEF IInv, TypeOK, CallState, RunnerState, Round, config, fields,
        channels, Orderly
<1>1. CASE CloseStop(r)
  <2>1. CASE stop \in closedStop \cup {0}
    <3>1. UNCHANGED <<kind, stop, stopped, closedStop, closedStopped, cancelled, runner, crashed>>
          /\ call' = [call EXCEPT ![r] = "panicked"] /\ call[r] \notin Closing
      BY <1>1, <2>1 DEF CloseStop, MayCleanUp, Closing
    <3>2. RunnerInv'
      BY <3>1 DEF RunnerInv
    <3>3. StopInv'
      <4>1. stop # 0 => \/ \E q \in Round : call[q] \in Closing
                        \/ kind = "forwarder" /\ stop \in closedStopped
        BY <2>1 DEF StopInv
      <4> QED
        BY <3>1, <4>1 DEF StopInv, Closing
    <3> QED
      BY <3>1, <3>2, <3>3
  <2>2. CASE stop \notin closedStop \cup {0}
    <3>1. /\ UNCHANGED <<kind, stop, stopped, closedStopped, cancelled, runner, crashed>>
          /\ call' = [call EXCEPT ![r] = "stopping"] /\ closedStop' = closedStop \cup {stop}
          /\ \A q \in Round : call[q] \notin Closing
      BY <1>1, <2>2 DEF CloseStop, StopInv
    <3>2. stop \in Round /\ runner[stop] # "none"
      <4>1. stop \in Round
        BY <2>2
      <4>2. call[stop] = "up" \/ stop \in closedStopped
        BY <2>2, <3>1 DEF StopInv
      <4> QED
        BY <4>1, <4>2 DEF RunnerInv
    <3>3. RunnerInv'
      BY <3>1, <3>2 DEF RunnerInv
    <3>4. StopInv'
      BY <3>1, <3>2 DEF StopInv, Closing
    <3> QED
      BY <3>1, <3>3, <3>4
  <2> QED
    BY <2>1, <2>2
<1>2. CASE CancelWatcher(r)
  BY <1>2 DEF CancelWatcher
<1>3. CASE Cancel(r)
  <2>1. /\ UNCHANGED <<kind, stop, stopped, closedStop, closedStopped, runner, crashed>>
        /\ call[r] = "stopping" /\ call' = [call EXCEPT ![r] = "waiting"]
        /\ cancelled \subseteq cancelled'
    BY <1>3 DEF Cancel
  <2>2. RunnerInv'
    BY <2>1 DEF RunnerInv
  <2>3. StopInv'
    BY <2>1 DEF StopInv, Closing
  <2> QED
    BY <2>1, <2>2, <2>3
<1>4. CASE AwaitRunner(r)
  <2>1. /\ UNCHANGED <<kind, closedStop, closedStopped, cancelled, runner, crashed>>
        /\ call[r] = "waiting" /\ call' = [call EXCEPT ![r] = "done"]
        /\ stopped \in closedStopped
    BY <1>4 DEF AwaitRunner
  <2>2. /\ stop' = stopped'
        /\ kind = "logger" => stop' = 0
        /\ kind = "forwarder" => stop' = stop
    BY <1>4 DEF AwaitRunner, ResetFields, RunnerInv
  <2>3. \A q \in Round : runner[q] \in {"none", "gone"}
    BY <2>1 DEF RunnerInv
  <2>4. \A q \in Round : call'[q] \notin Closing
    BY <2>1 DEF StopInv, Closing
  <2>5. RunnerInv'
    BY <2>1, <2>2, <2>3 DEF RunnerInv
  <2>6. StopInv'
    BY <2>1, <2>2, <2>4 DEF StopInv, RunnerInv
  <2> QED
    BY <2>1, <2>5, <2>6
<1> QED
  BY <1>1, <1>2, <1>3, <1>4 DEF Cleanup

LEMMA OrderlyStep ==
  ASSUME IInv, Orderly, Orderly', [Next]_vars
  PROVE  ~crashed' /\ RunnerInv' /\ StopInv'
<1>1. CASE UNCHANGED vars
  BY <1>1 DEF vars, fields, channels, IInv, RunnerInv, StopInv, Closing, config
<1>2. ASSUME NEW r \in Round, Setup(r) \/ SetupRefused(r)
      PROVE  ~crashed' /\ RunnerInv' /\ StopInv'
  BY <1>2, OrderlySetup DEF IInv, Setup, SetupRefused
<1>3. ASSUME NEW r \in Round, WatcherNotStarted(r) PROVE FALSE
  BY <1>3 DEF WatcherNotStarted, Orderly
<1> QED
  BY <1>1, <1>2, <1>3, OrderlyRunner, OrderlyCleanup DEF Next

-----------------------------------------------------------------------------
(* Rounds that do not get in each other's way *)

LEMMA SingleStep ==
  ASSUME IInv, Single, Single', [Next]_vars
  PROVE  SingleInv' /\ KeepsTrying'
<1> USE RoundsAssumption DEF IInv, TypeOK, CallState, RunnerState, Round, config, fields,
        channels, Active, Closing
<1>0. Orderly /\ SingleInv /\ KeepsTrying /\ RunnerInv /\ StopInv
  BY DEF Single, Orderly
<1>1. CASE UNCHANGED vars
  BY <1>0, <1>1 DEF vars, SingleInv, KeepsTrying, Intruded, Single
<1>2. ASSUME NEW r \in Round, Setup(r) PROVE SingleInv' /\ KeepsTrying'
  <2>1. \A q \in Round : ~Active(q)
    BY <1>2 DEF Setup, NextRound, Overlaps, Single
  <2>2. r \notin closedStop
    BY <1>0, <1>2 DEF Setup, NextRound, RunnerInv
  <2>3. /\ stop' = r /\ closedStop' = closedStop /\ cancelled' = cancelled
        /\ call' = [call EXCEPT ![r] = "up"] /\ runner' = [runner EXCEPT ![r] = "kubectl"]
    BY <1>2 DEF Setup, Single
  <2>4. SingleInv'
    BY <1>0, <2>1, <2>2, <2>3 DEF SingleInv
  <2>5. KeepsTrying'
    BY <2>1, <2>3 DEF KeepsTrying
  <2> QED
    BY <2>4, <2>5
<1>3. ASSUME NEW r \in Round, SetupRefused(r) PROVE SingleInv' /\ KeepsTrying'
  <2>1. /\ UNCHANGED <<kind, stopOnSuccess, stop, closedStop, cancelled, runner>>
        /\ call' = [call EXCEPT ![r] = "refused"]
    BY <1>3 DEF SetupRefused
  <2> QED
    BY <1>0, <2>1 DEF SingleInv, KeepsTrying, Single
<1>4. ASSUME NEW r \in Round, WatcherNotStarted(r) PROVE FALSE
  BY <1>4 DEF WatcherNotStarted, Single
<1>5. ASSUME NEW r \in Round, ContextEnds(r) \/ KubectlExits(r) \/ Retry(r) \/ Exit(r)
      PROVE  SingleInv' /\ KeepsTrying'
  <2>1. /\ UNCHANGED <<kind, stopOnSuccess, stop, closedStop, call>>
        /\ cancelled \subseteq cancelled' /\ runner[r] # "none"
        /\ \/ runner' = runner
           \/ \E x \in {"ok", "error", "canceled", "kubectl"} : runner' = [runner EXCEPT ![r] = x]
           \/ runner[r] = "exiting" /\ runner' = [runner EXCEPT ![r] = "gone"]
    BY <1>5 DEF ContextEnds, KubectlExits, Retry, Exit, Single
  <2>2. SingleInv'
    BY <1>0, <2>1 DEF SingleInv
  <2>3. KeepsTrying'
    BY <1>0, <2>1 DEF KeepsTrying, Single
  <2> QED
    BY <2>2, <2>3
<1>6. ASSUME NEW r \in Round, StopOrRetry(r) PROVE SingleInv' /\ KeepsTrying'
  <2>1. /\ UNCHANGED <<kind, stopOnSuccess, stop, closedStop, call, cancelled>>
        /\ stop = r
        /\ runner' = [runner EXCEPT ![r] =
                        IF Finishes(r) \/ stop \in closedStop THEN "exiting" ELSE "sleeping"]
        /\ runner[r] # "none"
    BY <1>0, <1>6 DEF StopOrRetry, RunnerInv
  <2>2. SingleInv'
    BY <1>0, <2>1 DEF SingleInv
  <2>3. KeepsTrying'
    <3>1. call[r] = "up" /\ Finishes(r) => r \in cancelled \/ (kind = "logger" /\ stopOnSuccess)
      BY <1>0 DEF Finishes, RunnerInv
    <3>2. call[r] = "up" => stop \notin closedStop
      BY <1>0, <2>1 DEF SingleInv
    <3> QED
      BY <1>0, <2>1, <3>1, <3>2 DEF KeepsTrying, Single
  <2> QED
    BY <2>2, <2>3
<1>7. ASSUME NEW r \in Round, CloseStop(r) PROVE SingleInv' /\ KeepsTrying'
  <2>1. call[r] = "up"
    <3>1. CASE call[r] = "refused"
      <4>1. runner[r] = "none" /\ runner' = runner /\ call'[r] \notin {"idle", "refused"}
        BY <1>0, <1>7, <3>1 DEF CloseStop, RunnerInv
      <4> QED
        BY <4>1 DEF Single, Intruded
    <3> QED
      BY <1>7, <3>1 DEF CloseStop, MayCleanUp
  <2>2. stop = r /\ r \notin closedStop /\ stop # 0
    BY <1>0, <2>1 DEF SingleInv
  <2>3. /\ UNCHANGED <<kind, stopOnSuccess, stop, cancelled, runner>>
        /\ closedStop' = closedStop \cup {r} /\ call' = [call EXCEPT ![r] = "stopping"]
    BY <1>7, <2>2 DEF CloseStop
  <2>4. SingleInv'
    BY <1>0, <2>1, <2>2, <2>3 DEF SingleInv
  <2>5. KeepsTrying'
    BY <1>0, <2>3 DEF KeepsTrying, Single
  <2> QED
    BY <2>4, <2>5
<1>8. ASSUME NEW r \in Round, CancelWatcher(r) PROVE FALSE
  BY <1>8 DEF CancelWatcher, Single
<1>9. ASSUME NEW r \in Round, Cleanup(r) PROVE SingleInv' /\ KeepsTrying'
  <2>1. /\ UNCHANGED <<kind, stopOnSuccess, closedStop, runner>> /\ cancelled \subseteq cancelled'
        /\ \/ call[r] = "stopping" /\ call' = [call EXCEPT ![r] = "waiting"] /\ stop' = stop
           \/ call[r] = "waiting" /\ call' = [call EXCEPT ![r] = "done"]
    BY <1>9 DEF Cleanup, Cancel, AwaitRunner
  <2>2. \A q \in Round : Active(q) => q = r
    BY <1>0, <2>1 DEF SingleInv
  <2>3. SingleInv'
    BY <1>0, <2>1, <2>2 DEF SingleInv
  <2>4. KeepsTrying'
    BY <1>0, <2>1 DEF KeepsTrying, Single
  <2> QED
    BY <2>3, <2>4
<1> QED
  BY <1>1, <1>2, <1>3, <1>4, <1>5, <1>6, <1>7, <1>8, <1>9 DEF Next, Runner

-----------------------------------------------------------------------------
(* The kinds *)

LEMMA ForwarderStep ==
  ASSUME IInv, [Next]_vars
  PROVE  ForwarderInv'
<1> USE DEF IInv, TypeOK, CallState, ForwarderInv
<1>0. kind' = kind
  BY Lasting
<1>1. CASE UNCHANGED vars
  BY <1>0, <1>1 DEF vars
<1>2. ASSUME NEW r \in Round, Setup(r) \/ SetupRefused(r) \/ WatcherNotStarted(r)
      PROVE  ForwarderInv'
  BY <1>0, <1>2 DEF Setup, SetupRefused, WatcherNotStarted, NextRound
<1>3. ASSUME NEW r \in Round, ContextEnds(r) \/ KubectlExits(r) \/ Runner(r)
      PROVE  ForwarderInv'
  BY <1>0, <1>3 DEF ContextEnds, KubectlExits, Runner, StopOrRetry, Retry, Exit
<1>4. ASSUME NEW r \in Round, CloseStop(r) \/ CancelWatcher(r) \/ Cleanup(r)
      PROVE  ForwarderInv'
  BY <1>0, <1>4 DEF CloseStop, MayCleanUp, CancelWatcher, Cleanup, Cancel, AwaitRunner
<1> QED
  BY <1>1, <1>2, <1>3, <1>4 DEF Next

LEMMA WatcherStep ==
  ASSUME IInv, kind = "watcher", [Next]_vars
  PROVE  ~crashed' /\ WatcherInv'
<1> USE DEF IInv, TypeOK, WatcherInv, Closing
<1>1. CASE UNCHANGED vars
  BY <1>1 DEF vars
<1>2. ASSUME NEW r \in Round, Setup(r) \/ SetupRefused(r) \/ WatcherNotStarted(r)
      PROVE  ~crashed' /\ WatcherInv'
  BY <1>2 DEF Setup, SetupRefused, WatcherNotStarted
<1>3. ASSUME NEW r \in Round, ContextEnds(r) \/ KubectlExits(r) \/ Runner(r)
      PROVE  ~crashed' /\ WatcherInv'
  BY <1>3 DEF ContextEnds, KubectlExits, Runner, StopOrRetry, Retry, Exit
<1>4. ASSUME NEW r \in Round, CloseStop(r) \/ CancelWatcher(r) \/ Cleanup(r)
      PROVE  ~crashed' /\ WatcherInv'
  BY <1>4 DEF CloseStop, CancelWatcher, Cleanup, Cancel, AwaitRunner
<1> QED
  BY <1>1, <1>2, <1>3, <1>4 DEF Next

LEMMA IInvStep == IInv /\ [Next]_vars => IInv'
<1> SUFFICES ASSUME IInv, [Next]_vars PROVE IInv'
  OBVIOUS
<1>1. TypeOK' /\ CancelInv'
  BY TypeStep DEF IInv
<1>2. ForwarderInv'
  BY ForwarderStep
<1>3. /\ kind' = kind
      /\ Orderly' => Orderly
      /\ Single' => Single
  BY Lasting DEF IInv
<1>4. Orderly' => ~crashed' /\ RunnerInv' /\ StopInv'
  BY <1>3, OrderlyStep
<1>5. Single' => SingleInv' /\ KeepsTrying'
  BY <1>3, SingleStep
<1>6. kind' = "watcher" => ~crashed' /\ WatcherInv'
  BY <1>3, WatcherStep
<1> QED
  BY <1>1, <1>2, <1>4, <1>5, <1>6 DEF IInv

LEMMA Invariance == Safety => []IInv
BY IInvInit, IInvStep, PTL DEF Safety

-----------------------------------------------------------------------------
(* Theorems *)

(* The variables keep to their types.                                      *)
THEOREM TypeCorrect == Safety => []TypeOK
<1>1. IInv => TypeOK
  BY DEF IInv
<1> QED
  BY <1>1, Invariance, PTL

(* However often a value is set up again, and whether or not it is cleaned *)
(* up in between, only a goroutine of a forwarder whose rounds overlap ends*)
(* the process with a second close; and a Cleanup closes twice, or nil,    *)
(* only then or when that of a refused logger has run.                     *)
THEOREM NoCrashAlways == Safety => []NoCrash
<1>1. IInv => NoCrash
  <2> SUFFICES ASSUME IInv PROVE NoCrash
    OBVIOUS
  <2>1. crashed => kind = "forwarder" /\ overlap
    BY DEF IInv, TypeOK, Orderly
  <2>2. ASSUME NEW r \in Round, call[r] = "panicked" PROVE overlap \/ Intruded
    BY <2>2 DEF IInv, WatcherInv, Single, SingleInv
  <2> QED
    BY <2>1, <2>2 DEF NoCrash
<1> QED
  BY <1>1, Invariance, PTL

(* When Cleanup of a logger, or of a forwarder whose rounds do not overlap,*)
(* has returned, the goroutine of its round has ended, and with it kubectl.*)
(* A watcher's waits for nothing, and nothing is said of it.               *)
THEOREM QuietAfterCleanupAlways == Safety => []QuietAfterCleanup
<1>1. IInv => QuietAfterCleanup
  BY DEF IInv, Orderly, RunnerInv, QuietAfterCleanup
<1> QED
  BY <1>1, Invariance, PTL

(* A goroutine gives up only when it is told to, unless another round has  *)
(* taken over its fields.                                                  *)
THEOREM KeepsTryingAlways == Safety => []KeepsTrying
<1>1. IInv => KeepsTrying
  BY DEF IInv, Single, KeepsTrying
<1> QED
  BY <1>1, Invariance, PTL

(* A logger refuses to be set up only while it is in use.                  *)
THEOREM RefusedOnlyInUseAlways == Safety => RefusedOnlyInUse
<1> DEFINE Legal == \A r \in Round : call[r] = "idle" /\ call'[r] = "refused" =>
                      kind = "watcher" \/ \E q \in Round : call[q] \in {"up"} \cup Closing
<1>1. IInv /\ [Next]_vars => [Legal]_vars
  <2> SUFFICES ASSUME IInv, Next, NEW r \in Round, call[r] = "idle", call'[r] = "refused"
               PROVE  kind = "watcher" \/ \E q \in Round : call[q] \in {"up"} \cup Closing
    OBVIOUS
  <2>1. PICK q \in Round :
          \/ Setup(q) \/ SetupRefused(q) \/ WatcherNotStarted(q) \/ ContextEnds(q)
          \/ KubectlExits(q) \/ Runner(q)
          \/ CloseStop(q) \/ CancelWatcher(q) \/ Cleanup(q)
    BY DEF Next
  <2>2. kind = "watcher" \/ (kind = "logger" /\ stopped # 0)
    BY <2>1 DEF Setup, SetupRefused, MayStart, WatcherNotStarted, ContextEnds, KubectlExits,
       Runner, StopOrRetry, Retry, Exit, CloseStop, CancelWatcher, Cleanup, Cancel,
       AwaitRunner, IInv, TypeOK
  <2>3. CASE kind = "logger" /\ stopped # 0
    BY <2>3 DEF IInv, TypeOK, Orderly, RunnerInv, StopInv, Closing
  <2> QED
    BY <2>2, <2>3
<1> QED
  BY <1>1, Invariance, PTL DEF Safety, RefusedOnlyInUse
=============================================================================
