------------------------ MODULE ManifestsApplyProofs ------------------------
(***************************************************************************)
(* The safety of ManifestsApply for any manifests: any number of sources,  *)
(* objects and slots, with every interleaving of the readers that share    *)
(* createdIx.                                                              *)
(***************************************************************************)
EXTENDS ManifestsApply, TLAPS

Applied == {"applying", "waiting", "applied"}

LEMMA PlanType ==
  ASSUME TypeOK
  PROVE  /\ Len(plan.objects) \in Nat \ {0}
         /\ \A k \in Source : plan.objects[k] \in Nat
         /\ plan.slots \in Nat
         /\ plan.computed \in BOOLEAN
         /\ plan.computed => 1 \in Source
BY PlansAssumption DEF TypeOK, IsPlan, Source

\* What kubectl has printed is in the cluster, and all of it once it has
\* ended well, unless a panic has been reported.
LiveInv ==
  /\ \A k \in Source : exit[k] = "running" => printed[k] = 0
  /\ phase \in Applied =>
       \A k \in Source :
         /\ First(k, printed[k]) \subseteq live
         /\ exit[k] = "ok" => ObjectsOf(k) \subseteq live \/ reported
  /\ phase \in {"waiting", "applied"} =>
       (\A k \in Source : ObjectsOf(k) \subseteq live) \/ reported

\* A reader that decodes has a slot of its own choice, and what is in a slot
\* has been read, once.
SlotInv ==
  /\ phase = "applying" =>
       \A k \in Source : reader[k] = "decode" => slot[k] \in 1..plan.slots
  /\ \A i \in 1..plan.slots : created[i] # None =>
       \E k \in Source : \E j \in 1..read[k] : created[i] = <<k, j>>
  /\ \A i, j \in 1..plan.slots : created[i] = created[j] /\ created[i] # None => i = j

\* What Delete is through with is gone.
DeleteInv ==
  /\ phase \in Applied => deleted = 0
  /\ phase = "deleting" =>
       /\ deleted < Len(plan.objects)
       /\ (\A k \in 1..deleted : ObjectsOf(k) \cap live = {}) \/ reported
  /\ phase = "deleted" => live = {} \/ reported

IInv == TypeOK /\ LiveInv /\ SlotInv /\ DeleteInv

-----------------------------------------------------------------------------
(* Types *)

LEMMA TypeOKInit == Init => TypeOK
<1> SUFFICES ASSUME Init PROVE TypeOK
  OBVIOUS
<1>1. Len(plan.objects) \in Nat \ {0} /\ plan.slots \in Nat
  BY PlansAssumption DEF Init, IsPlan
<1>2. \A k \in Source : plan.objects[k] \in Nat
  BY PlansAssumption DEF Init, IsPlan, Source
<1>3. reader \in [Source -> ReaderState]
  BY DEF Init, ReaderState
<1>4. exit \in [Source -> {"running", "ok", "failed"}]
  BY DEF Init
<1>5. /\ printed \in [Source -> Nat] /\ read \in [Source -> Nat]
      /\ slot \in [Source -> 0..plan.slots] /\ seen \in [Source -> Nat]
  BY <1>1 DEF Init
<1>6. \A k \in Source : read[k] <= printed[k] /\ printed[k] <= plan.objects[k]
  BY <1>2 DEF Init
<1>7. created \in [1..plan.slots -> Objects \cup {None}]
  BY DEF Init
<1>8. plan \in Plans /\ phase \in Phase /\ createdIx \in Nat /\ live \subseteq Objects
  BY DEF Init, Phase
<1>9. reported \in BOOLEAN
  BY DEF Init
<1>10. deleted \in 0..Len(plan.objects)
  BY <1>1 DEF Init
<1> QED
  BY <1>3, <1>4, <1>5, <1>6, <1>7, <1>8, <1>9, <1>10 DEF TypeOK

-----------------------------------------------------------------------------
(* The kubectls: KubectlApplies(k), KubectlFails(k) and ObjectsPanic all   *)
(* apply and print the first n objects of a source k.                      *)

Prints(k, n, how) ==
  /\ phase = "applying" /\ phase' = phase
  /\ live' = live \cup First(k, n)
  /\ printed' = [printed EXCEPT ![k] = n]
  /\ exit[k] = "running"
  /\ exit' = [exit EXCEPT ![k] = how]
  /\ UNCHANGED <<plan, readVars, deleted>>
  /\ reported => reported'
  /\ how = "ok" => n = plan.objects[k] \/ reported'

LEMMA KubectlPrints ==
  ASSUME IInv, NEW k \in Source,
         KubectlApplies(k) \/ KubectlFails(k) \/ (k = 1 /\ ObjectsPanic)
  PROVE  /\ \E n \in 0..plan.objects[k] : \E how \in {"ok", "failed"} : Prints(k, n, how)
         /\ reported' \in BOOLEAN
<1> USE DEF IInv
<1>1. plan.objects[k] \in Nat
  BY PlanType
<1>2. CASE KubectlApplies(k)
  <2>1. Prints(k, plan.objects[k], "ok")
    BY <1>2 DEF KubectlApplies, Prints, ObjectsOf
  <2>2. reported' \in BOOLEAN
    BY <1>2 DEF KubectlApplies, TypeOK
  <2> QED
    BY <1>1, <2>1, <2>2
<1>3. CASE KubectlFails(k)
  <2>1. PICK n \in 0..plan.objects[k] :
          live' = live \cup First(k, n) /\ printed' = [printed EXCEPT ![k] = n]
    BY <1>3 DEF KubectlFails
  <2>2. Prints(k, n, "failed")
    BY <1>3, <2>1 DEF KubectlFails, Prints
  <2>3. reported' \in BOOLEAN
    BY <1>3 DEF KubectlFails, TypeOK
  <2> QED
    BY <2>2, <2>3
<1>4. CASE k = 1 /\ ObjectsPanic
  <2>1. PICK n \in 0..(plan.objects[k] - 1) :
          live' = live \cup First(k, n) /\ printed' = [printed EXCEPT ![k] = n]
    BY <1>4 DEF ObjectsPanic
  <2>2. Prints(k, n, "ok")
    BY <1>4, <2>1 DEF ObjectsPanic, Prints
  <2>3. reported' \in BOOLEAN
    BY <1>4 DEF ObjectsPanic
  <2> QED
    BY <1>1, <2>1, <2>2, <2>3
<1> QED
  BY <1>2, <1>3, <1>4

LEMMA KubectlStep ==
  ASSUME IInv, NEW k \in Source,
         KubectlApplies(k) \/ KubectlFails(k) \/ (k = 1 /\ ObjectsPanic)
  PROVE  IInv'
<1>1. PICK n \in 0..plan.objects[k], how \in {"ok", "failed"} : Prints(k, n, how)
  BY KubectlPrints
<1>2. /\ plan.objects[k] \in Nat /\ n \in Nat
      /\ Source' = Source /\ Objects' = Objects
      /\ \A q \in Source : ObjectsOf(q)' = ObjectsOf(q)
  BY <1>1, PlanType DEF IInv, Prints, Source, Objects, ObjectsOf
<1>3. First(k, n) \subseteq Objects
  BY <1>2 DEF First, ObjectsOf, Objects
<1>4. TypeOK'
  <2>1. exit[k] = "running" /\ read[k] = 0
    BY <1>1 DEF Prints, IInv, TypeOK, LiveInv
  <2>2. /\ printed' \in [Source -> Nat] /\ read' \in [Source -> Nat]
        /\ \A q \in Source : read'[q] <= printed'[q] /\ printed'[q] <= plan.objects[q]
    BY <1>1, <1>2, <2>1 DEF Prints, readVars, IInv, TypeOK
  <2>3. exit' \in [Source -> {"running", "ok", "failed"}]
    BY <1>1 DEF Prints, IInv, TypeOK
  <2>4. live' \subseteq Objects
    BY <1>1, <1>3 DEF Prints, IInv, TypeOK
  <2>5. reported' \in BOOLEAN
    BY KubectlPrints
  <2> QED
    BY <1>1, <1>2, <2>2, <2>3, <2>4, <2>5 DEF Prints, readVars, IInv, TypeOK
<1>5. LiveInv'
  <2>1. \A q \in Source \ {k} : printed'[q] = printed[q] /\ exit'[q] = exit[q]
    BY <1>1 DEF Prints, IInv, TypeOK
  <2>2. /\ printed'[k] = n /\ exit'[k] = how
        /\ live' = live \cup First(k, n) /\ phase = "applying" /\ phase' = "applying"
        /\ reported => reported'
        /\ how = "ok" => First(k, n) = ObjectsOf(k) \/ reported'
    BY <1>1 DEF Prints, IInv, TypeOK, ObjectsOf
  <2>3. \A q \in Source : exit'[q] = "running" => printed'[q] = 0
    BY <2>1, <2>2 DEF IInv, LiveInv
  <2>4. \A q \in Source : First(q, printed'[q]) \subseteq live'
    BY <2>1, <2>2 DEF IInv, LiveInv, Applied
  <2>5. \A q \in Source : exit'[q] = "ok" => ObjectsOf(q) \subseteq live' \/ reported'
    BY <2>1, <2>2 DEF IInv, LiveInv, Applied
  <2>6. \A q \in Source : First(q, printed[q])' = First(q, printed'[q])
    BY DEF First
  <2> QED
    BY <1>2, <2>2, <2>3, <2>4, <2>5, <2>6 DEF LiveInv
<1>6. SlotInv' /\ DeleteInv'
  BY <1>1, <1>2 DEF Prints, readVars, IInv, SlotInv, DeleteInv, Applied
<1> QED
  BY <1>4, <1>5, <1>6 DEF IInv

-----------------------------------------------------------------------------
(* The readers *)

\* No step of a reader touches the cluster.
LEMMA ReaderFrame ==
  ASSUME NEW k \in Source, Reader(k)
  PROVE  /\ UNCHANGED <<plan, applyVars, live, reported, deleted>>
         /\ phase = "applying" /\ phase' \in {"applying", "crashed"}
         /\ Source' = Source /\ Objects' = Objects
BY DEF Reader, Step, Check, Index, Decode, DecodeEOF, DecodeFails, ReadIx, WriteIx, Drain,
   Source, Objects, ObjectsOf

LEMMA ReaderTypes ==
  ASSUME IInv, NEW k \in Source, Reader(k)
  PROVE  TypeOK'
<1> USE DEF IInv, TypeOK
<1>1. plan.slots \in Nat
  BY PlanType
<1>2. reader' \in [Source -> ReaderState]
  BY DEF Reader, Step, Check, Index, Decode, DecodeEOF, DecodeFails, ReadIx, WriteIx, Drain,
     AfterLast, ReaderState
<1>3. read' \in [Source -> Nat] /\ \A q \in Source : read'[q] <= printed[q]
  <2>1. \/ read' = read
        \/ read' = [read EXCEPT ![k] = printed[k]]
        \/ read[k] < printed[k] /\ read' = [read EXCEPT ![k] = read[k] + 1]
    BY DEF Reader, Check, Index, Decode, DecodeEOF, DecodeFails, ReadIx, WriteIx, Drain
  <2>2. /\ read \in [Source -> Nat]
        /\ \A q \in Source : read[q] <= printed[q] /\ printed[q] \in Nat
    OBVIOUS
  <2>3. CASE read' = read
    BY <2>2, <2>3
  <2>4. CASE read' = [read EXCEPT ![k] = printed[k]]
    BY <2>2, <2>4
  <2>5. CASE read[k] < printed[k] /\ read' = [read EXCEPT ![k] = read[k] + 1]
    BY <2>2, <2>5
  <2> QED
    BY <2>1, <2>3, <2>4, <2>5
<1>4. slot' \in [Source -> 0..plan.slots]
  <2>1. \/ slot' = slot
        \/ createdIx < plan.slots /\ slot' = [slot EXCEPT ![k] = createdIx + 1]
    BY DEF Reader, Check, Index, Decode, DecodeEOF, DecodeFails, ReadIx, WriteIx, Drain
  <2>2. createdIx \in Nat /\ slot \in [Source -> 0..plan.slots]
    OBVIOUS
  <2>3. CASE slot' = slot
    BY <2>2, <2>3
  <2>4. CASE createdIx < plan.slots /\ slot' = [slot EXCEPT ![k] = createdIx + 1]
    <3>1. createdIx + 1 \in 0..plan.slots
      BY <1>1, <2>2, <2>4
    <3> QED
      BY <2>2, <2>4, <3>1
  <2> QED
    BY <2>1, <2>3, <2>4
<1>5. seen' \in [Source -> Nat] /\ createdIx' \in Nat
  BY DEF Reader, Check, Index, Decode, DecodeEOF, DecodeFails, ReadIx, WriteIx, Drain,
     Increment
<1>6. created' \in [1..plan.slots -> Objects \cup {None}]
  <2>1. CASE Decode(k)
    <3>1. /\ read[k] \in Nat /\ printed[k] \in Nat /\ plan.objects[k] \in Nat
          /\ read[k] < printed[k] /\ printed[k] <= plan.objects[k]
      BY <2>1, PlanType DEF Decode
    <3>2. <<k, read[k] + 1>> \in Objects
      BY <3>1 DEF Objects, ObjectsOf, First
    <3> QED
      BY <2>1, <3>2 DEF Decode
  <2>2. CASE ~Decode(k)
    BY <2>2 DEF Reader, Check, Index, DecodeEOF, DecodeFails, ReadIx, WriteIx, Drain
  <2> QED
    BY <2>1, <2>2
<1>7. phase' \in Phase
  BY ReaderFrame DEF Phase
<1> QED
  BY <1>2, <1>3, <1>4, <1>5, <1>6, <1>7, ReaderFrame DEF applyVars

LEMMA ReaderSlots ==
  ASSUME IInv, NEW k \in Source, Reader(k)
  PROVE  SlotInv'
<1> USE DEF IInv, TypeOK, SlotInv
<1>1. plan.slots \in Nat /\ Source' = Source /\ plan' = plan /\ phase = "applying"
  BY PlanType, ReaderFrame
<1>2. CASE Decode(k)
  <2>1. /\ slot[k] \in 1..plan.slots /\ read[k] \in Nat
        /\ created' = [created EXCEPT ![slot[k]] = <<k, read[k] + 1>>]
        /\ read' = [read EXCEPT ![k] = read[k] + 1]
        /\ reader' = [reader EXCEPT ![k] = "count"] /\ slot' = slot
    BY <1>1, <1>2 DEF Decode, Step
  <2>2. \A i \in 1..plan.slots : created[i] # <<k, read[k] + 1>>
    <3> SUFFICES ASSUME NEW i \in 1..plan.slots, created[i] = <<k, read[k] + 1>>
                 PROVE  FALSE
      OBVIOUS
    <3>1. created[i] # None
      BY DEF None, Source
    <3>2. PICK q \in Source : \E j \in 1..read[q] : created[i] = <<q, j>>
      BY <3>1
    <3>3. q = k /\ read[k] + 1 \in 1..read[k]
      BY <3>2
    <3> QED
      BY <2>1, <3>3
  <2>3. \A q \in Source : reader'[q] = "decode" => slot'[q] \in 1..plan.slots
    BY <1>1, <2>1
  <2>4. \A i \in 1..plan.slots : created'[i] # None =>
          \E q \in Source : \E j \in 1..read'[q] : created'[i] = <<q, j>>
    <3> SUFFICES ASSUME NEW i \in 1..plan.slots, created'[i] # None
                 PROVE  \E q \in Source : \E j \in 1..read'[q] : created'[i] = <<q, j>>
      OBVIOUS
    <3>1. CASE i = slot[k]
      BY <2>1, <3>1
    <3>2. CASE i # slot[k]
      <4>1. PICK q \in Source : \E j \in 1..read[q] : created[i] = <<q, j>>
        BY <2>1, <3>2
      <4>2. 1..read[q] \subseteq 1..read'[q]
        BY <2>1
      <4> QED
        BY <2>1, <3>2, <4>1, <4>2
    <3> QED
      BY <3>1, <3>2
  <2>5. \A i, j \in 1..plan.slots : created'[i] = created'[j] /\ created'[i] # None => i = j
    BY <2>1, <2>2
  <2> QED
    BY <1>1, <2>3, <2>4, <2>5
<1>3. ASSUME created' = created,
             \A q \in Source : read[q] \in Nat /\ read'[q] \in Nat /\ read[q] <= read'[q],
             phase' = "applying" =>
               \A q \in Source : reader'[q] = "decode" => slot'[q] \in 1..plan.slots
      PROVE  SlotInv'
  <2>1. \A i \in 1..plan.slots : created[i] # None =>
          \E q \in Source : \E j \in 1..read'[q] : created[i] = <<q, j>>
    <3> SUFFICES ASSUME NEW i \in 1..plan.slots, created[i] # None
                 PROVE  \E q \in Source : \E j \in 1..read'[q] : created[i] = <<q, j>>
      OBVIOUS
    <3>1. PICK q \in Source : \E j \in 1..read[q] : created[i] = <<q, j>>
      OBVIOUS
    <3>2. 1..read[q] \subseteq 1..read'[q]
      BY <1>3
    <3> QED
      BY <3>1, <3>2
  <2> QED
    BY <1>1, <1>3, <2>1
<1>4. \A q \in Source : read[q] \in Nat /\ printed[q] \in Nat /\ read[q] <= printed[q]
  OBVIOUS
<1>5. CASE DecodeFails(k) \/ Drain(k)
  <2>1. /\ created' = created /\ slot' = slot
        /\ read' = [read EXCEPT ![k] = printed[k]]
        /\ reader'[k] # "decode" /\ \A q \in Source \ {k} : reader'[q] = reader[q]
    BY <1>5 DEF DecodeFails, Drain, Step
  <2>2. \A q \in Source : read[q] \in Nat /\ read'[q] \in Nat /\ read[q] <= read'[q]
    BY <1>4, <2>1
  <2> QED
    BY <1>1, <1>3, <2>1, <2>2
<1>6. CASE Index(k)
  <2>1. /\ created' = created /\ read' = read
        /\ \A q \in Source \ {k} : reader'[q] = reader[q] /\ slot'[q] = slot[q]
    BY <1>6 DEF Index, Step
  <2>2. CASE createdIx < plan.slots
    <3>1. slot'[k] \in 1..plan.slots
      BY <1>1, <1>6, <2>2 DEF Index
    <3> QED
      BY <1>1, <1>3, <1>4, <2>1, <3>1
  <2>3. CASE ~(createdIx < plan.slots)
    BY <1>3, <1>4, <1>6, <2>3 DEF Index, Step
  <2> QED
    BY <2>2, <2>3
<1>7. CASE Check(k) \/ DecodeEOF(k) \/ ReadIx(k) \/ WriteIx(k)
  <2>1. /\ created' = created /\ read' = read /\ slot' = slot
        /\ reader'[k] # "decode" /\ \A q \in Source \ {k} : reader'[q] = reader[q]
    BY <1>7 DEF Check, DecodeEOF, ReadIx, WriteIx, Step, AfterLast
  <2> QED
    BY <1>1, <1>3, <1>4, <2>1
<1> QED
  BY <1>2, <1>5, <1>6, <1>7 DEF Reader

LEMMA ReaderStep ==
  ASSUME IInv, NEW k \in Source, Reader(k)
  PROVE  IInv'
<1>1. \A q \in Source :
        ObjectsOf(q)' = ObjectsOf(q) /\ First(q, printed[q])' = First(q, printed[q])
  BY ReaderFrame DEF ObjectsOf, First, applyVars
<1>2. LiveInv' /\ DeleteInv'
  BY <1>1, ReaderFrame DEF IInv, LiveInv, DeleteInv, Applied, applyVars
<1> QED
  BY <1>2, ReaderTypes, ReaderSlots DEF IInv

-----------------------------------------------------------------------------
(* The waits, and Delete *)

LEMMA WaitStep ==
  ASSUME IInv, StartWaits \/ ApplyFails \/ WaitsEnd
  PROVE  IInv'
<1>1. /\ UNCHANGED <<plan, applyVars, readVars, live, reported, deleted>>
      /\ phase \in {"applying", "waiting"}
      /\ phase' \in {"waiting", "applied", "notApplied"}
      /\ phase' = "applied" => phase = "waiting"
      /\ phase' = "waiting" => AllApplied
  BY DEF StartWaits, ApplyFails, WaitsEnd
<1>2. /\ Source' = Source /\ Objects' = Objects
      /\ \A q \in Source :
           ObjectsOf(q)' = ObjectsOf(q) /\ First(q, printed[q])' = First(q, printed[q])
  BY <1>1 DEF Source, Objects, ObjectsOf, First, applyVars
<1>3. TypeOK'
  BY <1>1, <1>2 DEF IInv, TypeOK, Phase, applyVars, readVars
<1>4. phase' = "waiting" => (\A k \in Source : ObjectsOf(k) \subseteq live) \/ reported
  BY <1>1 DEF AllApplied, Succeeded, IInv, LiveInv, Applied
<1>5. LiveInv'
  BY <1>1, <1>2, <1>4 DEF IInv, LiveInv, Applied, applyVars
<1>6. SlotInv' /\ DeleteInv'
  BY <1>1, <1>2 DEF IInv, SlotInv, DeleteInv, readVars, Applied
<1> QED
  BY <1>3, <1>5, <1>6 DEF IInv

\* No step of Delete looks at the readers or adds to the cluster.
LEMMA DeleteFrame ==
  ASSUME IInv, StartDelete \/ DeleteNext \/ DeleteFails \/ DeletePanics
  PROVE  /\ UNCHANGED <<plan, applyVars, readVars>>
         /\ phase \in {"applied", "deleting"}
         /\ phase' \in {"deleting", "deleted", "notDeleted"}
         /\ live' \subseteq live
         /\ deleted' \in 0..Len(plan.objects)
         /\ reported' \in BOOLEAN
<1>1. /\ UNCHANGED <<plan, applyVars, readVars>>
      /\ phase \in {"applied", "deleting"}
      /\ phase' \in {"deleting", "deleted", "notDeleted"}
      /\ live' \subseteq live
  BY DEF StartDelete, DeleteNext, DeleteFails, DeletePanics
<1>2. /\ Len(plan.objects) \in Nat \ {0} /\ deleted \in Nat
      /\ phase = "deleting" => deleted < Len(plan.objects)
  BY PlanType DEF IInv, TypeOK, DeleteInv
<1>3. deleted' \in 0..Len(plan.objects)
  BY <1>2 DEF StartDelete, DeleteNext, DeleteFails, DeletePanics, IInv, TypeOK
<1>4. reported' \in BOOLEAN
  <2>1. reported' = reported \/ reported' = TRUE
    BY DEF StartDelete, DeleteNext, DeleteFails, DeletePanics
  <2> QED
    BY <2>1 DEF IInv, TypeOK
<1> QED
  BY <1>1, <1>3, <1>4

LEMMA DeleteStep ==
  ASSUME IInv, StartDelete \/ DeleteNext \/ DeleteFails \/ DeletePanics
  PROVE  IInv'
<1>1. /\ Source' = Source /\ Objects' = Objects
      /\ \A q \in 1..Len(plan.objects) : ObjectsOf(q)' = ObjectsOf(q)
      /\ phase \notin {"applying", "waiting"} /\ phase' \notin Applied
  BY DeleteFrame DEF Source, Objects, ObjectsOf, Applied
<1>2. TypeOK'
  BY <1>1, DeleteFrame DEF IInv, TypeOK, Phase, applyVars, readVars
<1>3. LiveInv' /\ SlotInv'
  BY <1>1, DeleteFrame DEF IInv, LiveInv, SlotInv, Applied, applyVars, readVars
<1>4. Len(plan.objects) \in Nat \ {0} /\ deleted \in Nat /\ live \subseteq Objects
  BY PlanType DEF IInv, TypeOK
<1>5. DeleteInv'
  <2>1. CASE StartDelete
    BY <1>1, <1>4, <2>1 DEF StartDelete, IInv, DeleteInv, Applied
  <2>2. CASE DeleteNext
    <3>1. /\ phase = "deleting" /\ deleted' = deleted + 1 /\ reported' = reported
          /\ plan' = plan /\ live' = live \ ObjectsOf(deleted + 1)
          /\ deleted < Len(plan.objects)
          /\ phase' = IF deleted + 1 = Len(plan.objects) THEN "deleted" ELSE "deleting"
      BY <2>2 DEF DeleteNext, IInv, DeleteInv
    <3>2. (\A k \in 1..(deleted + 1) : ObjectsOf(k) \cap live' = {}) \/ reported
      <4> SUFFICES ASSUME ~reported, NEW k \in 1..(deleted + 1) PROVE ObjectsOf(k) \cap live' = {}
        OBVIOUS
      <4>1. CASE k = deleted + 1
        BY <3>1, <4>1
      <4>2. CASE k \in 1..deleted
        BY <3>1, <4>2 DEF IInv, DeleteInv
      <4> QED
        BY <1>4, <4>1, <4>2
    <3>3. deleted + 1 = Len(plan.objects) => live' = {} \/ reported
      BY <1>4, <3>1, <3>2 DEF Objects, Source
    <3> QED
      BY <1>1, <1>4, <3>1, <3>2, <3>3 DEF DeleteInv, Applied
  <2>3. CASE DeleteFails
    BY <1>1, <2>3 DEF DeleteFails, DeleteInv
  <2>4. CASE DeletePanics
    <3>1. reported'
      BY <2>4, Zenon DEF DeletePanics
    <3>2. /\ deleted' = 1 /\ plan' = plan
          /\ phase' = IF Len(plan.objects) = 1 THEN "deleted" ELSE "deleting"
      BY <2>4 DEF DeletePanics
    <3>3. phase' = "deleting" => deleted' < Len(plan'.objects)
      <4> SUFFICES ASSUME phase' = "deleting" PROVE 1 < Len(plan.objects)
        BY <3>2
      <4>1. Len(plan.objects) # 1
        BY <3>2
      <4>2. \A n \in Nat \ {0} : n # 1 => 1 < n
        OBVIOUS
      <4> QED
        BY <1>4, <4>1, <4>2
    <3> QED
      BY <1>1, <3>1, <3>3 DEF DeleteInv
  <2> QED
    BY <2>1, <2>2, <2>3, <2>4
<1> QED
  BY <1>2, <1>3, <1>5 DEF IInv

-----------------------------------------------------------------------------

LEMMA IInvInit == Init => IInv
<1> SUFFICES ASSUME Init PROVE IInv
  OBVIOUS
<1>1. TypeOK
  BY TypeOKInit
<1>2. LiveInv
  BY DEF Init, LiveInv, First
<1>3. SlotInv
  BY DEF Init, SlotInv
<1>4. DeleteInv
  BY DEF Init, DeleteInv, Applied
<1> QED
  BY <1>1, <1>2, <1>3, <1>4 DEF IInv

LEMMA IInvStep == IInv /\ [Next]_vars => IInv'
<1> SUFFICES ASSUME IInv, [Next]_vars PROVE IInv'
  OBVIOUS
<1>1. CASE UNCHANGED vars
  BY <1>1 DEF vars, applyVars, readVars, IInv, TypeOK, LiveInv, SlotInv, DeleteInv, Source,
     Objects, ObjectsOf, First, Applied
<1>2. CASE ObjectsPanic
  <2>1. 1 \in Source
    BY <1>2, PlanType DEF ObjectsPanic, IInv
  <2> QED
    BY <1>2, <2>1, KubectlStep
<1>3. CASE Apply
  BY <1>3, KubectlStep, ReaderStep, WaitStep DEF Apply
<1>4. CASE StartDelete \/ DeleteNext \/ DeleteFails \/ DeletePanics
  BY <1>4, DeleteStep
<1> QED
  BY <1>1, <1>2, <1>3, <1>4 DEF Next

LEMMA Invariance == Safety => []IInv
BY IInvInit, IInvStep, PTL DEF Safety

-----------------------------------------------------------------------------
(* Theorems *)

(* The variables keep to their types.                                      *)
THEOREM TypeCorrect == Safety => []TypeOK
<1>1. IInv => TypeOK
  BY DEF IInv
<1> QED
  BY <1>1, Invariance, PTL

(* However the readers interleave, Created has no object twice and none    *)
(* that is not in the cluster.                                             *)
THEOREM SlotsAreTrueAlways == Safety => []SlotsAreTrue
<1>1. IInv => SlotsAreTrue
  <2> SUFFICES ASSUME IInv PROVE SlotsAreTrue
    OBVIOUS
  <2>1. DOMAIN created = 1..plan.slots
    BY DEF IInv, TypeOK
  <2>2. ASSUME phase \in Applied, NEW i \in 1..plan.slots, created[i] # None
        PROVE  created[i] \in live
    <3>1. PICK k \in Source : \E j \in 1..read[k] : created[i] = <<k, j>>
      BY <2>2 DEF IInv, SlotInv
    <3>2. read[k] \in Nat /\ printed[k] \in Nat /\ read[k] <= printed[k]
      BY DEF IInv, TypeOK
    <3>3. created[i] \in First(k, printed[k])
      BY <3>1, <3>2 DEF First
    <3> QED
      BY <2>2, <3>3 DEF IInv, LiveInv
  <2> QED
    BY <2>1, <2>2 DEF SlotsAreTrue, IInv, SlotInv, Applied
<1> QED
  BY <1>1, Invariance, PTL

(* The waits begin when everything is in the cluster, or a panic that cost *)
(* something has been reported.                                            *)
THEOREM AppliedBeforeWaitsAlways == Safety => []AppliedBeforeWaits
<1>1. IInv => AppliedBeforeWaits
  <2> SUFFICES ASSUME IInv, phase \in {"waiting", "applied"}, ~reported PROVE live = Objects
    BY DEF AppliedBeforeWaits
  <2> QED
    BY DEF IInv, TypeOK, LiveInv, Objects
<1> QED
  BY <1>1, Invariance, PTL

(* A Delete that succeeds leaves nothing behind unreported.                *)
THEOREM DeleteLeavesNothingAlways == Safety => []DeleteLeavesNothing
<1>1. IInv => DeleteLeavesNothing
  BY DEF IInv, DeleteInv, DeleteLeavesNothing
<1> QED
  BY <1>1, Invariance, PTL

-----------------------------------------------------------------------------
(* With one source there is one reader, which counts every document once   *)
(* and the end of the output only when it has no more use for createdIx.   *)

OnlyReader ==
  /\ phase # "crashed"
  /\ reader[1] \in {"check", "index", "decode"} => createdIx = read[1]
  /\ reader[1] \in {"index", "decode"} => read[1] < plan.slots
  /\ reader[1] = "decode" => slot[1] = read[1] + 1
  /\ reader[1] = "count" => createdIx + 1 = read[1]
  /\ reader[1] = "store" => seen[1] + 1 = read[1]
  /\ reader[1] = "drain" => plan.slots <= read[1]
  /\ reader[1] # "error" =>
       \A i \in 1..plan.slots : created[i] = IF i <= read[1] THEN <<1, i>> ELSE None
  /\ phase \in {"waiting", "applied"} => reader[1] = "returned" /\ read[1] = printed[1]

OneSource == Len(plan.objects) = 1
OneReaderInv == OneSource => OnlyReader

LEMMA OneReaderInit == Init => OneReaderInv
<1> SUFFICES ASSUME Init, OneSource PROVE OnlyReader
  BY DEF OneReaderInv
<1>1. 1 \in Source /\ plan.slots \in Nat
  BY PlansAssumption DEF Init, IsPlan, OneSource, Source
<1>2. /\ phase = "applying" /\ createdIx = 0 /\ read[1] = 0
      /\ reader[1] = IF plan.slots = 0 THEN "drain" ELSE "check"
      /\ created = [i \in 1..plan.slots |-> None]
  BY <1>1 DEF Init
<1> QED
  BY <1>1, <1>2 DEF OnlyReader

LEMMA OneReaderStep ==
  ASSUME IInv, OneReaderInv, [Next]_vars
  PROVE  OneReaderInv'
<1> SUFFICES ASSUME OneSource' PROVE OnlyReader'
  BY DEF OneReaderInv
<1>1. plan' = plan
  BY DEF Next, Apply, Reader, Step, KubectlApplies, KubectlFails, Check, Index, Decode,
     DecodeEOF, DecodeFails, ReadIx, WriteIx, Drain, StartWaits, ApplyFails, WaitsEnd,
     ObjectsPanic, StartDelete, DeleteNext, DeleteFails, DeletePanics, vars
<1>2. OnlyReader /\ Source = {1}
  <2>1. Len(plan.objects) = 1
    BY <1>1 DEF OneSource
  <2>2. 1..1 = {1}
    OBVIOUS
  <2> QED
    BY <2>1, <2>2, Zenon DEF OneReaderInv, OneSource, Source
<1>3. /\ read \in [Source -> Nat] /\ read[1] <= printed[1] /\ printed[1] \in Nat
      /\ plan.slots \in Nat /\ createdIx \in Nat
      /\ reader \in [Source -> ReaderState]
      /\ slot \in [Source -> 0..plan.slots] /\ seen \in [Source -> Nat]
      /\ created \in [1..plan.slots -> Objects \cup {None}]
  BY <1>2, PlanType DEF IInv, TypeOK
<1>4. CASE Check(1)
  BY <1>1, <1>2, <1>3, <1>4 DEF Check, Step, applyVars, AfterLast, OnlyReader
<1>5. CASE Index(1)
  BY <1>1, <1>2, <1>3, <1>5 DEF Index, Step, applyVars, OnlyReader
<1>6. CASE Decode(1)
  <2>1. /\ read[1] < plan.slots /\ slot[1] = read[1] + 1 /\ createdIx = read[1]
        /\ phase' = "applying" /\ reader'[1] = "count" /\ createdIx' = createdIx
        /\ read'[1] = read[1] + 1 /\ created' = [created EXCEPT ![slot[1]] = <<1, read[1] + 1>>]
        /\ \A i \in 1..plan.slots : created[i] = IF i <= read[1] THEN <<1, i>> ELSE None
    BY <1>2, <1>3, <1>6 DEF Decode, Step, OnlyReader
  <2>2. \A i \in 1..plan.slots : created'[i] = IF i <= read'[1] THEN <<1, i>> ELSE None
    <3> SUFFICES ASSUME NEW i \in 1..plan.slots
                 PROVE  created'[i] = IF i <= read'[1] THEN <<1, i>> ELSE None
      OBVIOUS
    <3>1. CASE i = read[1] + 1
      <4>1. created'[i] = <<1, i>>
        BY <1>3, <2>1, <3>1
      <4> QED
        BY <1>2, <1>3, <2>1, <3>1, <4>1
    <3>2. CASE i # read[1] + 1
      <4>1. created'[i] = created[i]
        BY <1>3, <2>1, <3>2
      <4>2. i <= read'[1] <=> i <= read[1]
        BY <1>2, <1>3, <2>1, <3>2
      <4> QED
        BY <2>1, <4>1, <4>2
    <3> QED
      BY <3>1, <3>2
  <2> QED
    BY <1>1, <2>1, <2>2 DEF OnlyReader
<1>7. CASE DecodeEOF(1) \/ DecodeFails(1)
  BY <1>1, <1>2, <1>3, <1>7 DEF DecodeEOF, DecodeFails, Step, applyVars, OnlyReader
<1>8. CASE ReadIx(1)
  BY <1>1, <1>2, <1>3, <1>8 DEF ReadIx, Step, applyVars, OnlyReader
<1>9. CASE WriteIx(1)
  BY <1>1, <1>2, <1>3, <1>9 DEF WriteIx, Increment, Step, applyVars, OnlyReader
<1>10. CASE Drain(1)
  BY <1>1, <1>2, <1>3, <1>10 DEF Drain, Step, applyVars, OnlyReader
<1>11. ASSUME NEW k \in Source, KubectlApplies(k) \/ KubectlFails(k) \/ ObjectsPanic
       PROVE  OnlyReader'
  BY <1>1, <1>2, <1>11 DEF KubectlApplies, KubectlFails, ObjectsPanic, readVars, OnlyReader
<1>12. CASE StartWaits
  BY <1>1, <1>2, <1>12 DEF StartWaits, AllApplied, Over, Succeeded, applyVars, readVars,
     OnlyReader
<1>13. CASE ApplyFails \/ WaitsEnd \/ StartDelete \/ DeleteNext \/ DeleteFails \/ DeletePanics
  BY <1>1, <1>2, <1>13 DEF ApplyFails, WaitsEnd, StartDelete, DeleteNext, DeleteFails,
     DeletePanics, applyVars, readVars, OnlyReader
<1>14. CASE UNCHANGED vars
  BY <1>2, <1>14 DEF vars, applyVars, readVars, OnlyReader
<1> QED
  BY <1>2, <1>4, <1>5, <1>6, <1>7, <1>8, <1>9, <1>10, <1>11, <1>12, <1>13, <1>14
     DEF Next, Apply, Reader

(* Of manifests with one source, CreateOrUpdate returns with the objects in*)
(* Created in order, and never with an index out of range.                 *)
THEOREM OneSourceInOrderAlways == Safety => []OneSourceInOrder
<1>1. OneReaderInv => OneSourceInOrder
  BY DEF OneReaderInv, OneSource, OnlyReader, OneSourceInOrder
<1> QED
  BY <1>1, OneReaderInit, OneReaderStep, Invariance, PTL DEF Safety
=============================================================================
