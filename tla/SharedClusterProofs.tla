------------------------ MODULE SharedClusterProofs ------------------------
(***************************************************************************)
(* What a MultiSuiteLock gives to suites that share a cluster, for every   *)
(* set of suites, with any of them killed at any point.  A suite is busy   *)
(* from when it gets the lock until it lets go, and stays so for ever when *)
(* it dies with the cluster half-made: then the directory stays as well,   *)
(* and that is why nobody can mistake such a cluster for a finished one.   *)
(* What a killed kind leaves is kept from the others by the lock as well,  *)
(* but only until its suite, with an error, lets go.                       *)
(***************************************************************************)
EXTENDS SharedCluster, FiniteSetTheorems, TLAPS

Locked == entry # "none"

Busy(s) ==
  \/ pc[s] \in {"inside", "leaving"}
  \/ create[s] \in {"write", "check", "create", "unchecked", "creating"}

\* One at a time, and only while the directory is there.
ExclusionInv ==
  /\ \A s \in Suite : Busy(s) => dir
  /\ \A s, t \in Suite : Busy(s) /\ Busy(t) => s = t
  /\ \A s \in Suite : pc[s] \in {"trying", "sleeping"} => create[s] = "config"
  /\ \A s \in Suite : pc[s] = "leaving" => create[s] \in {"ok", "failed"}

\* Nobody who calls Once with a function that keeps the lock removes the
\* directory.
OnceInv ==
  /\ \A s \in Suite : pc[s] = "leaving" => entry # "Once"
  /\ entry = "Once" =>
       /\ ran # {} => dir
       /\ \A s, t \in ran : s = t

\* The creation of s has failed, and nobody else has come in since.
KeepsOthersOut(s) ==
  /\ create[s] = "failed" /\ dir
  /\ pc[s] = "leaving" => result[s] = "error"
  /\ pc[s] = "returned" => ~Unlocks
  /\ \A t \in Suite : create[t] # "ok" /\ (t # s => ~Busy(t))

HalfInv ==
  cluster = "half" => \E s \in Suite : KeepsOthersOut(s) \/ ToldOfFailure(s)

\* The cluster and its config are as the busy suite has left them.
ClusterInv ==
  /\ cluster = "creating" => \E s \in Suite : create[s] = "creating"
  /\ \A s \in Suite :
       /\ create[s] \in {"check", "create", "unchecked", "creating"} => config = "whole"
       /\ create[s] = "create" => cluster = "absent"
       /\ create[s] = "creating" => cluster = "creating"
       /\ create[s] = "ok" => cluster \in {"ready", "half"}

IInv == TypeOK /\ (Locked => ExclusionInv /\ OnceInv /\ ClusterInv /\ HalfInv)

-----------------------------------------------------------------------------

LEMMA IInvInit == Init => IInv
BY DEF Init, LockInit, IInv, TypeOK, LockTypeOK, LockState, Entry, Unlocks, CreateState, Locked,
   ExclusionInv, OnceInv, ClusterInv, HalfInv, Busy

(* Types *)

LEMMA TypeOKLock ==
  ASSUME TypeOK, NEW s \in Suite, Locks(s) \/ CreateReturns(s) \/ Crashes(s)
  PROVE  TypeOK'
<1> USE DEF TypeOK, LockTypeOK, LockState, Entry, Unlocks
<1>1. CASE Locks(s)
  BY <1>1 DEF Locks, LockStep, TryLock, TryLockTaken, TryLockFails, Poll, Unlock,
     UnlockFails
<1>2. CASE CreateReturns(s)
  BY <1>2 DEF CreateReturns, FunctionReturns, Unlocks
<1>3. CASE Crashes(s)
  BY <1>3 DEF Crashes, Crash
<1> QED
  BY <1>1, <1>2, <1>3

LEMMA TypeOKCreate ==
  ASSUME TypeOK, NEW s \in Suite, CreateStep(s)
  PROVE  TypeOK'
BY DEF TypeOK, LockTypeOK, lockVars, CreateState, CreateStep, TruncateConfig,
   WriteConfig, ConfigFails, ClusterExists, ListFails, CreateBegins, CreateRefused,
   CreateEnds, CreateFails

-----------------------------------------------------------------------------
(* A half-made cluster *)

(* Of two suites, one that keeps the others out does so whatever it does,  *)
(* until it lets go; its error has reached its caller by then.             *)
LEMMA HalfLock ==
  ASSUME IInv, Locked, NEW s \in Suite, Locks(s) \/ CreateReturns(s) \/ Crashes(s)
  PROVE  HalfInv'
<1> USE DEF IInv, TypeOK, LockTypeOK, LockState, Locked, Busy
<1>1. UNCHANGED <<entry, cluster, create>>
  BY DEF Locks, LockStep, TryLock, TryLockTaken, TryLockFails, Poll, Unlock,
     UnlockFails, CreateReturns, FunctionReturns, Crashes, Crash
<1>2. ASSUME NEW t \in Suite, ToldOfFailure(t) PROVE ToldOfFailure(t)'
  BY <1>1, <1>2 DEF ToldOfFailure, Unlocks, Locks, LockStep, TryLock, TryLockTaken,
     TryLockFails, Poll, Unlock, UnlockFails, CreateReturns, FunctionReturns, Crashes,
     Crash, Over
<1>3. ASSUME NEW t \in Suite, KeepsOthersOut(t)
      PROVE  KeepsOthersOut(t)' \/ ToldOfFailure(t)'
  <2> USE <1>1, <1>3 DEF KeepsOthersOut, ExclusionInv, Unlocks
  <2>1. CASE TryLock(s) \/ TryLockTaken(s) \/ TryLockFails(s) \/ Poll(s)
    BY <2>1 DEF TryLock, Taken, TryLockTaken, TryLockFails, Poll
  <2>2. CASE Unlock(s)
    BY <2>2 DEF Unlock, ToldOfFailure, OnceInv, Entry
  <2>3. CASE UnlockFails(s)
    BY <2>3 DEF UnlockFails, OnceInv
  <2>4. CASE CreateReturns(s)
    BY <2>4 DEF CreateReturns, FunctionReturns
  <2>5. CASE Crashes(s)
    BY <2>5 DEF Crashes, Crash, Over
  <2> QED
    BY <2>1, <2>2, <2>3, <2>4, <2>5 DEF Locks, LockStep
<1> QED
  BY <1>1, <1>2, <1>3 DEF HalfInv

LEMMA HalfCreate ==
  ASSUME IInv, Locked, NEW s \in Suite, CreateStep(s)
  PROVE  HalfInv'
<1> USE DEF IInv, TypeOK, LockTypeOK, Locked, Busy
<1>1. pc[s] = "inside" /\ UNCHANGED lockVars
  BY DEF CreateStep
<1>2. ASSUME NEW t \in Suite, ToldOfFailure(t) PROVE ToldOfFailure(t)'
  <2>1. t # s
    BY <1>1, <1>2 DEF ToldOfFailure
  <2>2. create'[t] = create[t]
    BY <2>1 DEF CreateStep, TruncateConfig, WriteConfig, ConfigFails, ClusterExists,
       ListFails, CreateBegins, CreateRefused, CreateEnds, CreateFails
  <2> QED
    BY <1>1, <1>2, <2>2 DEF ToldOfFailure, lockVars, Unlocks
<1>3. ASSUME NEW t \in Suite, KeepsOthersOut(t) PROVE FALSE
  <2>1. t = s
    BY <1>1, <1>3 DEF KeepsOthersOut
  <2> QED
    BY <1>3, <2>1 DEF KeepsOthersOut, CreateStep, TruncateConfig, WriteConfig,
       ConfigFails, ClusterExists, ListFails, CreateBegins, CreateRefused, CreateEnds,
       CreateFails
<1>4. CASE CreateFails(s)
  <2>1. \A t \in Suite : t # s => create'[t] = create[t] /\ ~Busy(t)'
    BY <1>1, <1>4 DEF CreateFails, ExclusionInv, lockVars
  <2>2. create'[s] = "failed" /\ dir'
    BY <1>1, <1>4 DEF CreateFails, ExclusionInv, lockVars
  <2>3. \A t \in Suite : create'[t] # "ok"
    BY <1>1, <1>4, <2>1, <2>2 DEF CreateFails, ClusterInv
  <2>4. KeepsOthersOut(s)'
    BY <1>1, <2>1, <2>2, <2>3 DEF KeepsOthersOut, lockVars
  <2> QED
    BY <2>4 DEF HalfInv
<1>5. CASE ~CreateFails(s)
  <2>1. cluster' = "half" => cluster = "half"
    BY <1>5 DEF CreateStep, TruncateConfig, WriteConfig, ConfigFails, ClusterExists,
       ListFails, CreateBegins, CreateRefused, CreateEnds
  <2> QED
    BY <1>2, <1>3, <2>1 DEF HalfInv
<1> QED
  BY <1>4, <1>5

-----------------------------------------------------------------------------
(* The steps under the lock *)

LEMMA InvLock ==
  ASSUME IInv, Locked, NEW s \in Suite, Locks(s) \/ CreateReturns(s) \/ Crashes(s)
  PROVE  ExclusionInv' /\ OnceInv' /\ ClusterInv' /\ HalfInv'
<1> USE DEF IInv, TypeOK, LockTypeOK, Locked, ExclusionInv, Busy
<1>1. ClusterInv' /\ HalfInv'
  BY HalfLock DEF ClusterInv, Locks, CreateReturns, Crashes
<1>2. CASE TryLock(s) /\ UNCHANGED <<cluster, config, create>>
  BY <1>1, <1>2 DEF TryLock, Taken, OnceInv
<1>3. CASE (TryLockTaken(s) \/ TryLockFails(s) \/ Poll(s)) /\ UNCHANGED <<cluster, config, create>>
  BY <1>1, <1>3 DEF TryLockTaken, TryLockFails, Poll, OnceInv
<1>4. CASE (Unlock(s) \/ UnlockFails(s)) /\ UNCHANGED <<cluster, config, create>>
  BY <1>1, <1>4 DEF Unlock, UnlockFails, OnceInv
<1>5. CASE CreateReturns(s)
  BY <1>1, <1>5 DEF CreateReturns, FunctionReturns, Unlocks, OnceInv
<1>6. CASE Crashes(s)
  BY <1>1, <1>6 DEF Crashes, Crash, OnceInv, Over
<1> QED
  BY <1>2, <1>3, <1>4, <1>5, <1>6 DEF Locks, LockStep

LEMMA InvCreate ==
  ASSUME IInv, Locked, NEW s \in Suite, CreateStep(s)
  PROVE  ExclusionInv' /\ OnceInv' /\ ClusterInv' /\ HalfInv'
<1> USE DEF IInv, TypeOK, LockTypeOK, Locked, Busy
<1>1. /\ pc[s] = "inside" /\ UNCHANGED lockVars
      /\ \A t \in Suite \ {s} : create'[t] = create[t] /\ ~Busy(t)
      /\ create'[s] # "config"
  BY DEF ExclusionInv, CreateStep, TruncateConfig, WriteConfig, ConfigFails,
     ClusterExists, ListFails, CreateBegins, CreateRefused, CreateEnds, CreateFails,
     CreateState
<1>2. ExclusionInv' /\ OnceInv'
  BY <1>1 DEF ExclusionInv, OnceInv, lockVars
<1>3. \A t \in Suite \ {s} : create[t] \in {"config", "ok", "failed"}
  BY <1>1 DEF CreateState
<1>4. ClusterInv'
  <2> USE <1>3 DEF ClusterInv
  <2>1. CASE TruncateConfig(s) \/ WriteConfig(s)
    BY <2>1 DEF TruncateConfig, WriteConfig
  <2>2. CASE ConfigFails(s) \/ CreateRefused(s)
    BY <2>2 DEF ConfigFails, CreateRefused
  <2>3. CASE ClusterExists(s) \/ ListFails(s)
    BY <2>3 DEF ClusterExists, ListFails
  <2>4. CASE CreateBegins(s)
    BY <2>4 DEF CreateBegins
  <2>5. CASE CreateEnds(s) \/ CreateFails(s)
    BY <2>5 DEF CreateEnds, CreateFails
  <2> QED
    BY <2>1, <2>2, <2>3, <2>4, <2>5 DEF CreateStep
<1> QED
  BY <1>2, <1>4, HalfCreate

LEMMA IInvStep == IInv /\ [Next]_vars => IInv'
<1> SUFFICES ASSUME IInv, [Next]_vars PROVE IInv'
  OBVIOUS
<1>1. ASSUME NEW s \in Suite, Locks(s) \/ CreateReturns(s) \/ Crashes(s) PROVE IInv'
  <2>1. TypeOK' /\ (Locked' => Locked)
    BY <1>1, TypeOKLock DEF IInv, Locked, Locks, LockStep, TryLock, TryLockTaken,
       TryLockFails, Poll, Unlock, UnlockFails, CreateReturns, FunctionReturns,
       Crashes, Crash
  <2> QED
    BY <1>1, <2>1, InvLock DEF IInv
<1>2. ASSUME NEW s \in Suite, CreateStep(s) PROVE IInv'
  <2>1. TypeOK' /\ (Locked' => Locked)
    BY <1>2, TypeOKCreate DEF IInv, Locked, CreateStep, lockVars
  <2> QED
    BY <1>2, <2>1, InvCreate DEF IInv
<1>3. CASE UNCHANGED vars
  BY <1>3 DEF vars, lockVars, IInv, TypeOK, LockTypeOK, Locked, ExclusionInv, OnceInv,
     ClusterInv, HalfInv, KeepsOthersOut, ToldOfFailure, Unlocks, Busy
<1> QED
  BY <1>1, <1>2, <1>3 DEF Next

LEMMA Invariance == Safety => []IInv
BY IInvInit, IInvStep, PTL DEF Safety

-----------------------------------------------------------------------------
(* Theorems *)

(* A set whose members are all the same has at most one.                   *)
LEMMA AtMostOne ==
  ASSUME NEW S, \A s, t \in S : s = t
  PROVE  Cardinality(S) <= 1
<1>1. CASE S = {}
  BY <1>1, FS_EmptySet
<1>2. CASE S # {}
  <2>1. PICK s \in S : TRUE
    BY <1>2
  <2>2. S = {s}
    BY <2>1
  <2>3. Cardinality(S) = 1
    BY <2>2, FS_Singleton, Zenon
  <2> QED
    BY <2>3
<1> QED
  BY <1>1, <1>2

(* The variables keep to their types.                                      *)
THEOREM TypeCorrect == Safety => []TypeOK
<1>1. IInv => TypeOK
  BY DEF IInv
<1> QED
  BY <1>1, Invariance, PTL

(* MultiSuiteLock lets one suite in at a time, whoever crashes or fails to *)
(* unlock.                                                                 *)
THEOREM OneInsideAlways == Safety => []OneInside
<1>1. IInv => OneInside
  <2> SUFFICES ASSUME IInv, Locked PROVE Cardinality({s \in Suite : pc[s] = "inside"}) <= 1
    BY DEF OneInside, Locked
  <2> QED
    BY AtMostOne DEF IInv, ExclusionInv, Busy
<1> QED
  BY <1>1, Invariance, PTL

(* Of the suites that call Once, one at most runs the function.            *)
THEOREM OnceOnlyAlways == Safety => []OnceOnly
<1>1. IInv => OnceOnly
  BY AtMostOne DEF IInv, OnceInv, OnceOnly, Locked
<1> QED
  BY <1>1, Invariance, PTL

(* Under the lock Create never says that there is a cluster which another  *)
(* suite, dead or alive, is still creating; what it takes for a cluster is *)
(* one, or what a killed kind has left to a suite that has said so.        *)
THEOREM StandsOnReadyAlways == Safety => []StandsOnReady
<1>1. IInv => StandsOnReady
  BY DEF IInv, ClusterInv, HalfInv, KeepsOthersOut, StandsOnReady, Locked
<1> QED
  BY <1>1, Invariance, PTL

(* Under the lock kind is not asked for a name that is taken, nor given    *)
(* half a config, after a check that answered.                             *)
THEOREM NeverRefusedAlways == Safety => []NeverRefused
<1>1. IInv => NeverRefused
  BY DEF IInv, ClusterInv, NeverRefused, Locked
<1> QED
  BY <1>1, Invariance, PTL
=============================================================================
