------------------------- MODULE BackgroundActions -------------------------
(***************************************************************************)
(* One KubectlWatcher, KubectlPortForwarder or KubectlLogger (kubectl.go), *)
(* a value whose Setup starts a kubectl that outlives it and whose Cleanup *)
(* stops it, and which a test may register more than once: each pair of    *)
(* calls is a round.  The calls of Setup and Cleanup, the goroutine of each*)
(* round and the kubectl it runs interleave; the goroutine reads the fields*)
(* stop and stopped of the value when it needs them, not the channels that *)
(* its own Setup made.                                                     *)
(*                                                                         *)
(* Rounds overlap: a value may be set up again before, or without, the     *)
(* Cleanup of its last round, which NoSpecCleanup skips (action.go:133).   *)
(* Only a logger has a check against it.  One that refuses panics, which is*)
(* recovered (spec.go:40), and may get a Cleanup all the same.             *)
(*                                                                         *)
(* A channel or context is named by the round whose Setup made it, 0 is    *)
(* nil.  Setup is one step: two at the very same moment are outside this   *)
(* module.  Cleanups run when the Setups that precede them have returned.  *)
(***************************************************************************)
EXTENDS Naturals

CONSTANT Rounds   \* bound: how often the value is set up
ASSUME RoundsAssumption == Rounds \in Nat

Round == 1..Rounds

VARIABLES
  kind, stopOnSuccess,        \* which type, and the logger's field; fixed
  call,                       \* call[r]: where Setup and Cleanup of r are
  stop, stopped, cancel,      \* the fields of the value
  closedStop, closedStopped,  \* channels that have been closed
  cancelled,                  \* contexts that are done
  runner,                     \* runner[r]: where the goroutine of r is
  crashed,                    \* a close in a goroutine has ended the process
  overlap                     \* history: set up while another round was up

config == <<kind, stopOnSuccess>>
fields == <<stop, stopped, cancel>>
channels == <<closedStop, closedStopped>>
vars == <<config, call, fields, channels, cancelled, runner, crashed, overlap>>

CallState   == {"idle", "up", "refused", "stopping", "waiting", "done", "panicked"}
Closing     == {"stopping", "waiting"}
RunnerState == {"none", "kubectl", "canceled", "ok", "error", "sleeping",
                "exiting", "gone"}

TypeOK ==
  /\ kind \in {"watcher", "forwarder", "logger"}
  /\ stopOnSuccess \in BOOLEAN
  /\ call \in [Round -> CallState]
  /\ {stop, stopped, cancel} \subseteq Round \cup {0}
  /\ closedStop \subseteq Round /\ closedStopped \subseteq Round
  /\ cancelled \subseteq Round
  /\ runner \in [Round -> RunnerState]
  /\ {crashed, overlap} \subseteq BOOLEAN

-----------------------------------------------------------------------------
(* Deliberate faults, each in place of one definition below *)

\* Setup of a logger without the check.
NoCheck == TRUE

\* stop is reset before it is closed.
ResetFirst(r) ==
  /\ call[r] = "up" /\ kind # "watcher"
  /\ stop' = 0
  /\ closedStop' = closedStop \cup {stop'}
  /\ call' = [call EXCEPT ![r] = "stopping"]
  /\ UNCHANGED <<config, stopped, cancel, closedStopped, cancelled, runner, crashed, overlap>>

\* Cleanup closes stop and leaves kubectl running.
CancelForgotten(r) ==
  /\ call[r] = "stopping"
  /\ call' = [call EXCEPT ![r] = "waiting"]
  /\ UNCHANGED <<config, fields, channels, cancelled, runner, crashed, overlap>>

\* Cleanup does not wait for the goroutine.
NotAwaited(r) ==
  /\ call[r] = "waiting"
  /\ call' = [call EXCEPT ![r] = "done"]
  /\ stop' = 0 /\ stopped' = 0
  /\ UNCHANGED <<config, cancel, channels, cancelled, runner, crashed, overlap>>

\* Cleanup of a logger leaves the channels in the fields.
KeepFields == UNCHANGED <<stop, stopped>>

\* A kubectl that exits without an error is never tried again.
GivesUp(r) == runner[r] \in {"canceled", "ok"}

-----------------------------------------------------------------------------

Init ==
  /\ kind \in {"watcher", "forwarder", "logger"}
  /\ stopOnSuccess \in BOOLEAN
  /\ call = [r \in Round |-> "idle"]
  /\ stop = 0 /\ stopped = 0 /\ cancel = 0
  /\ closedStop = {} /\ closedStopped = {}
  /\ cancelled = {}
  /\ runner = [r \in Round |-> "none"]
  /\ crashed = FALSE /\ overlap = FALSE

(* Setup *)

NextRound(r) ==
  /\ call[r] = "idle"
  /\ \A q \in 1..(r - 1) : call[q] # "idle"
  /\ \A q \in Round : call[q] \notin Closing

\* The fields are written over while they are those of a round that is up.
Overlaps == overlap' = (overlap \/ \E q \in Round : call[q] = "up")

\* KubectlLogger.Setup fails when a channel of an earlier round is there.
MayStart == stopped = 0

Setup(r) ==
  /\ NextRound(r)
  /\ kind = "logger" => MayStart
  /\ IF kind = "watcher" THEN UNCHANGED <<stop, stopped>> ELSE stop' = r /\ stopped' = r
  /\ cancel' = r
  /\ runner' = [runner EXCEPT ![r] = "kubectl"]
  /\ call' = [call EXCEPT ![r] = "up"]
  /\ Overlaps
  /\ UNCHANGED <<config, channels, cancelled, crashed>>

\* Fail, which panics.
SetupRefused(r) ==
  /\ kind = "logger"
  /\ NextRound(r)
  /\ ~MayStart
  /\ call' = [call EXCEPT ![r] = "refused"]
  /\ UNCHANGED <<config, fields, channels, cancelled, runner, crashed, overlap>>

\* kubectl get -w cannot be started: an error, so that there is no Cleanup.
WatcherNotStarted(r) ==
  /\ kind = "watcher"
  /\ NextRound(r)
  /\ cancel' = r
  /\ call' = [call EXCEPT ![r] = "refused"]
  /\ Overlaps
  /\ UNCHANGED <<config, stop, stopped, channels, cancelled, runner, crashed>>

\* The context that Setup was given ends, as ginkgo's do with their node.
ContextEnds(r) ==
  /\ runner[r] \notin {"none", "gone"}
  /\ r \notin cancelled
  /\ cancelled' = cancelled \cup {r}
  /\ UNCHANGED <<config, call, fields, channels, runner, crashed, overlap>>

-----------------------------------------------------------------------------
(* The goroutine of round r.  Of a kubectl whose context is done, gosh may *)
(* report the context's error or that the process was killed.              *)

KubectlExits(r) ==
  /\ runner[r] = "kubectl"
  /\ \E result \in {"ok", "error"} \cup (IF r \in cancelled THEN {"canceled"} ELSE {}) :
       runner' = [runner EXCEPT ![r] = IF kind = "watcher" THEN "gone" ELSE result]
  /\ UNCHANGED <<config, call, fields, channels, cancelled, crashed, overlap>>

\* What makes the loop return without a look at stop.
Finishes(r) ==
  \/ runner[r] = "canceled"
  \/ kind = "logger" /\ stopOnSuccess /\ runner[r] = "ok"

StopOrRetry(r) ==
  /\ runner[r] \in {"canceled", "ok", "error"}
  /\ runner' = [runner EXCEPT ![r] =
       IF Finishes(r) \/ stop \in closedStop THEN "exiting" ELSE "sleeping"]
  /\ UNCHANGED <<config, call, fields, channels, cancelled, crashed, overlap>>

Retry(r) ==
  /\ runner[r] = "sleeping"
  /\ runner' = [runner EXCEPT ![r] = "kubectl"]
  /\ UNCHANGED <<config, call, fields, channels, cancelled, crashed, overlap>>

\* The deferred close(k.stopped).
Exit(r) ==
  /\ runner[r] = "exiting"
  /\ runner' = [runner EXCEPT ![r] = "gone"]
  /\ crashed' = (crashed \/ stopped \in closedStopped \cup {0})
  /\ closedStopped' = (closedStopped \cup {stopped}) \ {0}
  /\ UNCHANGED <<config, call, fields, closedStop, cancelled, overlap>>

-----------------------------------------------------------------------------
(* Cleanup *)

\* Of a round that is up, or of a logger that has refused, which is on no list
\* but reached from a step that depends on it.
MayCleanUp(r) == call[r] = "up" \/ (kind = "logger" /\ call[r] = "refused")

\* A second close of a channel, or one of nil, panics: in Cleanup that is
\* recovered, and what was to follow is left out (spec.go:68).
CloseStop(r) ==
  /\ kind # "watcher"
  /\ MayCleanUp(r)
  /\ IF stop \in closedStop \cup {0}
     THEN call' = [call EXCEPT ![r] = "panicked"] /\ UNCHANGED closedStop
     ELSE call' = [call EXCEPT ![r] = "stopping"] /\ closedStop' = closedStop \cup {stop}
  /\ UNCHANGED <<config, fields, closedStopped, cancelled, runner, crashed, overlap>>

Cancel(r) ==
  /\ call[r] = "stopping"
  /\ cancelled' = cancelled \cup {cancel}
  /\ call' = [call EXCEPT ![r] = "waiting"]
  /\ UNCHANGED <<config, fields, channels, runner, crashed, overlap>>

\* KubectlWatcher.Cleanup cancels, and waits for nothing.
CancelWatcher(r) ==
  /\ kind = "watcher"
  /\ call[r] = "up"
  /\ cancelled' = cancelled \cup {cancel}
  /\ call' = [call EXCEPT ![r] = "done"]
  /\ UNCHANGED <<config, fields, channels, runner, crashed, overlap>>

ResetFields == IF kind = "logger" THEN stop' = 0 /\ stopped' = 0 ELSE UNCHANGED <<stop, stopped>>

AwaitRunner(r) ==
  /\ call[r] = "waiting"
  /\ stopped \in closedStopped
  /\ call' = [call EXCEPT ![r] = "done"]
  /\ ResetFields
  /\ UNCHANGED <<config, cancel, channels, cancelled, runner, crashed, overlap>>

-----------------------------------------------------------------------------

Runner(r) == StopOrRetry(r) \/ Retry(r) \/ Exit(r)
Cleanup(r) == Cancel(r) \/ AwaitRunner(r)

\* Nothing happens any more when the process has ended.
Next ==
  /\ ~crashed
  /\ \E r \in Round :
       \/ Setup(r) \/ SetupRefused(r) \/ WatcherNotStarted(r) \/ ContextEnds(r)
       \/ KubectlExits(r) \/ Runner(r)
       \/ CloseStop(r) \/ CancelWatcher(r) \/ Cleanup(r)

Safety == Init /\ [][Next]_vars

(* A kubectl ends when its context is done, goroutines and a Cleanup that  *)
(* has begun go on.  A kubectl need not end by itself, a Cleanup need not  *)
(* be called.                                                              *)
Background ==
  /\ Safety
  /\ \A r \in Round :
       /\ WF_vars(~crashed /\ r \in cancelled /\ KubectlExits(r))
       /\ WF_vars(~crashed /\ Runner(r))
       /\ WF_vars(~crashed /\ Cleanup(r))

-----------------------------------------------------------------------------
(* Properties.  What the fields hold for one round only is safe as long as *)
(* no other round takes them over, by a Setup while it is up (overlap) or  *)
(* by the Cleanup of a logger that was refused (Intruded).  Each property  *)
(* says which of the two it needs to be absent.                            *)

Intruded == \E r \in Round : runner[r] = "none" /\ call[r] \notin {"idle", "refused"}

(* The deferred close(k.stopped) of a goroutine, whose panic nobody        *)
(* recovers and the process ends with, panics for a forwarder only, and    *)
(* only if rounds of it have overlapped: the check at kubectl.go:196 is    *)
(* what spares a logger.  Forwarders have none, and theirs does            *)
(* (kubectl.go:151).  A Cleanup closes twice, or nil, only after an overlap*)
(* or the Cleanup of a logger that was refused.                            *)
NoCrash ==
  /\ crashed => kind = "forwarder" /\ overlap
  /\ (\E r \in Round : call[r] = "panicked") => overlap \/ Intruded

(* Once Cleanup of a logger has returned, or of a forwarder whose rounds do*)
(* not overlap, neither the goroutine nor the kubectl of its round is      *)
(* running, whatever was retried meanwhile.  Cleanup of a watcher waits for*)
(* nothing (kubectl.go:130) and promises nothing of the kind.              *)
QuietAfterCleanup ==
  kind = "logger" \/ (kind = "forwarder" /\ ~overlap) =>
    \A r \in Round : call[r] = "done" => runner[r] \in {"none", "gone"}

(* The goroutine of a round gives up only when it is told to: by its own   *)
(* Cleanup, by the end of the context that Setup was given, or for a logger*)
(* with StopOnSuccess by the success of kubectl.  No other round has taken *)
(* over the fields.                                                        *)
KeepsTrying ==
  kind # "watcher" /\ ~overlap /\ ~Intruded =>
    \A r \in Round : call[r] = "up" /\ runner[r] \in {"exiting", "gone"} =>
      r \in cancelled \/ (kind = "logger" /\ stopOnSuccess)

(* A logger refuses to be set up only while a round of it has not been     *)
(* cleaned up: it can be used again by the next spec.                      *)
RefusedOnlyInUse ==
  [][\A r \in Round : call[r] = "idle" /\ call'[r] = "refused" =>
       kind = "watcher" \/ \E q \in Round : call[q] \in {"up"} \cup Closing]_vars

(* A Cleanup that has begun returns, and kubectl and the goroutine of its  *)
(* round end, those of a watcher included; unless rounds have overlapped,  *)
(* when the context of the one that was written over is cancelled by       *)
(* nobody.                                                                 *)
EndsWhenCleanedUp ==
  \A r \in Round :
    (call[r] \in {"stopping", "done", "panicked"}) ~>
      (overlap \/ (call[r] \in {"done", "panicked"} /\ runner[r] \in {"none", "gone"}))
=============================================================================
