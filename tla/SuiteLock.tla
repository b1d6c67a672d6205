----------------------------- MODULE SuiteLock -----------------------------
(***************************************************************************)
(* MultiSuiteLock (util.go): a directory by which suites, processes of     *)
(* their own that go test runs at the same time, keep out of each other's  *)
(* way.  os.Mkdir is atomic; whoever makes the directory has the lock.     *)
(* Every suite makes one call, all of WithLock or all of Once, with a      *)
(* function that defers the unlock it is given or one that does not call   *)
(* it, or all go without a lock; what runs inside is for the module that   *)
(* extends this one to say.                                                *)
(***************************************************************************)
EXTENDS Naturals, FiniteSets

CONSTANT Suite   \* the processes

VARIABLES
  entry,    \* the function they call; fixed
  dir,      \* LockDir exists
  pc,       \* pc[s]: where the call of s is
  ran,      \* the suites in which the function has been called
  result    \* result[s]: what the call has returned, or will

lockVars == <<entry, dir, pc, ran, result>>

LockState == {"trying", "sleeping", "inside", "leaving", "returned",
              "unlockFailed", "crashed"}
Over == {"returned", "unlockFailed", "crashed"}

Entry == {"WithLock", "Once", "OnceUnlocking", "none"}

\* The directory is removed when the function is over.
Unlocks == entry \in {"WithLock", "OnceUnlocking"}

LockTypeOK ==
  /\ entry \in Entry
  /\ dir \in BOOLEAN
  /\ pc \in [Suite -> LockState]
  /\ ran \subseteq Suite
  /\ result \in [Suite -> {"nil", "error"}]

-----------------------------------------------------------------------------
(* Deliberate faults *)

\* os.MkdirAll in place of os.Mkdir: no error for what is there.
Present == FALSE

\* An error of os.Mkdir is taken for a lock.
ErrorIgnored(s) ==
  /\ pc[s] = "trying"
  /\ pc' = [pc EXCEPT ![s] = "inside"]
  /\ ran' = ran \cup {s}
  /\ UNCHANGED <<entry, dir, result>>

\* The deferred unlock left out.
NeverUnlocked(s) ==
  /\ pc[s] = "leaving"
  /\ pc' = [pc EXCEPT ![s] = "returned"]
  /\ UNCHANGED <<entry, dir, ran, result>>

-----------------------------------------------------------------------------

LockInit ==
  /\ entry \in Entry
  /\ dir = FALSE
  /\ pc = [s \in Suite |-> IF entry = "none" THEN "inside" ELSE "trying"]
  /\ ran = IF entry = "none" THEN Suite ELSE {}
  /\ result = [s \in Suite |-> "nil"]

\* What os.Mkdir finds.
Taken == dir

\* tryLock makes the directory.
TryLock(s) ==
  /\ pc[s] = "trying"
  /\ ~Taken
  /\ dir' = TRUE
  /\ pc' = [pc EXCEPT ![s] = "inside"]
  /\ ran' = ran \cup {s}
  /\ UNCHANGED <<entry, result>>

\* It is there: lock sleeps before it tries again, Once does nothing.
TryLockTaken(s) ==
  /\ pc[s] = "trying"
  /\ Taken
  /\ pc' = [pc EXCEPT ![s] = IF entry = "WithLock" THEN "sleeping" ELSE "returned"]
  /\ UNCHANGED <<entry, dir, ran, result>>

\* os.Mkdir fails otherwise.
TryLockFails(s) ==
  /\ pc[s] = "trying"
  /\ pc' = [pc EXCEPT ![s] = "returned"]
  /\ result' = [result EXCEPT ![s] = "error"]
  /\ UNCHANGED <<entry, dir, ran>>

Poll(s) ==
  /\ pc[s] = "sleeping"
  /\ pc' = [pc EXCEPT ![s] = "trying"]
  /\ UNCHANGED <<entry, dir, ran, result>>

\* The function returns, or panics; then comes what it has deferred.
FunctionReturns(s, r) ==
  /\ pc[s] = "inside"
  /\ result' = [result EXCEPT ![s] = r]
  /\ pc' = [pc EXCEPT ![s] = IF Unlocks THEN "leaving" ELSE "returned"]
  /\ UNCHANGED <<entry, dir, ran>>

Unlock(s) ==
  /\ pc[s] = "leaving"
  /\ dir' = FALSE
  /\ pc' = [pc EXCEPT ![s] = "returned"]
  /\ UNCHANGED <<entry, ran, result>>

\* os.Remove fails.  The deferred function of WithLock assigns err after
\* return has taken its value, so the caller gets the same result as ever;
\* the function given to Once returns what unlock does.
UnlockFails(s) ==
  /\ pc[s] = "leaving"
  /\ pc' = [pc EXCEPT ![s] = "unlockFailed"]
  /\ result' = IF entry = "WithLock" THEN result ELSE [result EXCEPT ![s] = "error"]
  /\ UNCHANGED <<entry, dir, ran>>

\* The process is killed: nothing deferred runs.
Crash(s) ==
  /\ pc[s] \notin Over
  /\ pc' = [pc EXCEPT ![s] = "crashed"]
  /\ UNCHANGED <<entry, dir, ran, result>>

\* The steps outside of the function.
LockStep(s) ==
  \/ TryLock(s) \/ TryLockTaken(s) \/ TryLockFails(s) \/ Poll(s)
  \/ Unlock(s) \/ UnlockFails(s)

-----------------------------------------------------------------------------

(* "WithLock allows only one suite to execute a section at once"           *)
(* (util.go:101), Once included, even after a crash or a failed unlock.    *)
OneInside == entry # "none" => Cardinality({s \in Suite : pc[s] = "inside"}) <= 1

(* Of the suites that call Once, only one ever runs the function, as long  *)
(* as that one does not call the unlock it is given (util.go:118).         *)
OnceOnly == entry = "Once" => Cardinality(ran) <= 1
=============================================================================
