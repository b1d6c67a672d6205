--------------------------- MODULE ManifestsApply ---------------------------
(***************************************************************************)
(* KubectlCommand.CreateOrUpdate and Delete (kubectl.go).  A set of        *)
(* manifests comes as several sources: the ResourceObjects, each of the    *)
(* Resources, each path and each directory.  CreateOrUpdate runs a kubectl *)
(* for each source, all at once; each has a reader, a copy of readYAMLs,   *)
(* that decodes what it prints into the slots of Created.  The readers     *)
(* share createdIx without a lock, so each of their accesses to it is a    *)
(* step.  Then come the waits, and much later Delete, source by source.    *)
(*                                                                         *)
(* kubectl prints one document for each object it has applied.             *)
(***************************************************************************)
EXTENDS Naturals, Sequences, FiniteSets

CONSTANT Plans    \* sets of manifests to consider

\* objects: how many objects each source has.  computed: the first source is
\* ResourceObjects, turned into YAML by a goroutine.  slots: len(Created).
IsPlan(p) ==
  /\ p.objects \in Seq(Nat) /\ p.objects # <<>>
  /\ p.computed \in BOOLEAN /\ p.slots \in Nat
ASSUME PlansAssumption == \A p \in Plans : IsPlan(p)

VARIABLES
  plan,       \* fixed
  phase,      \* where CreateOrUpdate or Delete is
  exit,       \* exit[k]: how the kubectl of source k has ended
  printed,    \* printed[k]: documents on its output
  reader,     \* reader[k]: where readYAMLs of source k is
  read,       \* read[k]: documents decoded or drained
  slot, seen, \* slot[k], seen[k]: what reader k holds of createdIx
  createdIx,  \* shared by the readers
  created,    \* manifests.Created
  live,       \* objects in the cluster, <<source, number>>
  reported,   \* GinkgoRecover has reported a panic
  deleted     \* sources that Delete is through with

applyVars == <<exit, printed>>
readVars == <<reader, read, slot, seen, createdIx, created>>
vars == <<plan, phase, applyVars, readVars, live, reported, deleted>>

Source == 1..Len(plan.objects)
First(k, n) == {k} \X (1..n)   \* the first n objects of source k
ObjectsOf(k) == First(k, plan.objects[k])
Objects == UNION {ObjectsOf(k) : k \in Source}
None == <<0, 0>>

Phase == {"applying", "crashed", "waiting", "applied", "notApplied", "deleting",
          "deleted", "notDeleted"}
ReaderState == {"check", "index", "decode", "count", "store", "countEOF",
                "storeEOF", "drain", "returned", "error"}

TypeOK ==
  /\ plan \in Plans
  /\ phase \in Phase
  /\ exit \in [Source -> {"running", "ok", "failed"}]
  /\ reader \in [Source -> ReaderState]
  /\ printed \in [Source -> Nat] /\ read \in [Source -> Nat]
  /\ \A k \in Source : read[k] <= printed[k] /\ printed[k] <= plan.objects[k]
  /\ slot \in [Source -> 0..plan.slots] /\ seen \in [Source -> Nat]
  /\ createdIx \in Nat
  /\ created \in [1..plan.slots -> Objects \cup {None}]
  /\ live \subseteq Objects
  /\ reported \in BOOLEAN
  /\ deleted \in 0..Len(plan.objects)

-----------------------------------------------------------------------------

Init ==
  /\ plan \in Plans
  /\ phase = "applying"
  /\ exit = [k \in Source |-> "running"]
  /\ printed = [k \in Source |-> 0]
  /\ reader = [k \in Source |-> IF plan.slots = 0 THEN "drain" ELSE "check"]
  /\ read = [k \in Source |-> 0]
  /\ slot = [k \in Source |-> 0] /\ seen = [k \in Source |-> 0]
  /\ createdIx = 0
  /\ created = [i \in 1..plan.slots |-> None]
  /\ live = {}
  /\ reported = FALSE
  /\ deleted = 0

(* The kubectls *)

KubectlApplies(k) ==
  /\ phase = "applying" /\ exit[k] = "running"
  /\ live' = live \cup ObjectsOf(k)
  /\ printed' = [printed EXCEPT ![k] = plan.objects[k]]
  /\ exit' = [exit EXCEPT ![k] = "ok"]
  /\ UNCHANGED <<plan, phase, readVars, reported, deleted>>

\* kubectl stops at some object.
KubectlFails(k) ==
  /\ phase = "applying" /\ exit[k] = "running"
  /\ \E n \in 0..plan.objects[k] :
       /\ live' = live \cup First(k, n)
       /\ printed' = [printed EXCEPT ![k] = n]
  /\ exit' = [exit EXCEPT ![k] = "failed"]
  /\ UNCHANGED <<plan, phase, readVars, reported, deleted>>

\* A function in the ResourceObjects panics in objectsToYAML, which answers
\* "no error" all the same: kubectl gets the objects that came before.
ObjectsPanic ==
  /\ plan.computed
  /\ phase = "applying" /\ exit[1] = "running"
  /\ \E n \in 0..(plan.objects[1] - 1) :
       /\ live' = live \cup First(1, n)
       /\ printed' = [printed EXCEPT ![1] = n]
  /\ exit' = [exit EXCEPT ![1] = "ok"]
  /\ reported' = TRUE
  /\ UNCHANGED <<plan, phase, readVars, deleted>>

-----------------------------------------------------------------------------
(* readYAMLs *)

Step(k, from, to) ==
  /\ phase = "applying"
  /\ reader[k] = from
  /\ reader' = [reader EXCEPT ![k] = to]
  /\ UNCHANGED <<plan, applyVars, live, reported, deleted>>

\* Fault: a reader with nowhere to put the rest returns without reading it.
NoDrain == "returned"

AfterLast == "drain"

\* createdIx < len(manifests.Created)
Check(k) ==
  /\ Step(k, "check", IF createdIx < plan.slots THEN "index" ELSE AfterLast)
  /\ UNCHANGED <<phase, read, slot, seen, createdIx, created>>

\* Fault: a language that does not look whether the index is in range.
Unchecked(k) ==
  /\ Step(k, "index", "decode")
  /\ slot' = [slot EXCEPT ![k] = createdIx + 1]
  /\ UNCHANGED <<phase, read, seen, createdIx, created>>

\* &manifests.Created[createdIx]; out of range it panics, and GinkgoRecover
\* was called, not deferred, so the process ends.
Index(k) ==
  /\ Step(k, "index", "decode")
  /\ IF createdIx < plan.slots
     THEN slot' = [slot EXCEPT ![k] = createdIx + 1] /\ UNCHANGED phase
     ELSE phase' = "crashed" /\ UNCHANGED slot
  /\ UNCHANGED <<read, seen, createdIx, created>>

Decode(k) ==
  /\ read[k] < printed[k]
  /\ Step(k, "decode", "count")
  /\ created' = [created EXCEPT ![slot[k]] = <<k, read[k] + 1>>]
  /\ read' = [read EXCEPT ![k] = @ + 1]
  /\ UNCHANGED <<phase, slot, seen, createdIx>>

\* Fault: a variable for all documents, stored before its error is looked at.
StaleAtEOF(k) ==
  /\ exit[k] # "running" /\ read[k] = printed[k] /\ read[k] > 0
  /\ Step(k, "decode", "countEOF")
  /\ created' = [created EXCEPT ![slot[k]] = <<k, read[k]>>]
  /\ UNCHANGED <<phase, read, slot, seen, createdIx>>

\* The end of the output is found by decoding, and is counted as well.
DecodeEOF(k) ==
  /\ exit[k] # "running" /\ read[k] = printed[k]
  /\ Step(k, "decode", "countEOF")
  /\ UNCHANGED <<phase, read, slot, seen, createdIx, created>>

\* Not YAML, or not of the type in the slot.
DecodeFails(k) ==
  /\ read[k] < printed[k]
  /\ Step(k, "decode", "error")
  /\ read' = [read EXCEPT ![k] = printed[k]]
  /\ UNCHANGED <<phase, slot, seen, createdIx, created>>

\* createdIx++: read, then written.
ReadIx(k) ==
  /\ \/ Step(k, "count", "store")
     \/ Step(k, "countEOF", "storeEOF")
  /\ seen' = [seen EXCEPT ![k] = createdIx]
  /\ UNCHANGED <<phase, read, slot, createdIx, created>>

\* Fault: the index goes on by two.
SkipOne(ix) == ix + 2
Increment(ix) == ix + 1

WriteIx(k) ==
  /\ \/ Step(k, "store", "check")
     \/ Step(k, "storeEOF", "returned")
  /\ createdIx' = Increment(seen[k])
  /\ UNCHANGED <<phase, read, slot, seen, created>>

\* io.ReadAll
Drain(k) ==
  /\ exit[k] # "running"
  /\ Step(k, "drain", "returned")
  /\ read' = [read EXCEPT ![k] = printed[k]]
  /\ UNCHANGED <<phase, slot, seen, createdIx, created>>

Reader(k) ==
  \/ Check(k) \/ Index(k) \/ Decode(k) \/ DecodeEOF(k) \/ DecodeFails(k)
  \/ ReadIx(k) \/ WriteIx(k) \/ Drain(k)

-----------------------------------------------------------------------------
(* And(FanOut(applies), FanOut(waits)) *)

\* A kubectl whose output nobody reads does not end.
Over(k) ==
  /\ exit[k] # "running"
  /\ \/ reader[k] = "error"
     \/ reader[k] = "returned" /\ read[k] = printed[k]
Succeeded(k) == exit[k] = "ok" /\ reader[k] = "returned"

\* Fault: the waits begin when the first kubectl has succeeded.
FirstApplied == \E k \in Source : Over(k) /\ Succeeded(k)

AllApplied == \A k \in Source : Over(k) /\ Succeeded(k)

StartWaits ==
  /\ phase = "applying" /\ AllApplied
  /\ phase' = "waiting"
  /\ UNCHANGED <<plan, applyVars, readVars, live, reported, deleted>>

ApplyFails ==
  /\ phase = "applying"
  /\ \A k \in Source : Over(k)
  /\ \E k \in Source : ~Succeeded(k)
  /\ phase' = "notApplied"
  /\ UNCHANGED <<plan, applyVars, readVars, live, reported, deleted>>

WaitsEnd ==
  /\ phase = "waiting"
  /\ phase' \in {"applied", "notApplied"}
  /\ UNCHANGED <<plan, applyVars, readVars, live, reported, deleted>>

-----------------------------------------------------------------------------
(* Delete, which follows a CreateOrUpdate that succeeded *)

StartDelete ==
  /\ phase = "applied"
  /\ phase' = "deleting"
  /\ UNCHANGED <<plan, applyVars, readVars, live, reported, deleted>>

\* kubectl delete of the next source
DeleteNext ==
  LET k == deleted + 1 IN
  /\ phase = "deleting"
  /\ live' = live \ ObjectsOf(k)
  /\ deleted' = k
  /\ phase' = IF k = Len(plan.objects) THEN "deleted" ELSE "deleting"
  /\ UNCHANGED <<plan, applyVars, readVars, reported>>

\* Fault: gosh.FanOut in its place, whose errors nobody looks at.
DeletesOn ==
  LET k == deleted + 1 IN
  /\ phase = "deleting"
  /\ \E n \in 0..plan.objects[k] : live' = live \ First(k, n)
  /\ deleted' = k
  /\ phase' = IF k = Len(plan.objects) THEN "deleted" ELSE "deleting"
  /\ UNCHANGED <<plan, applyVars, readVars, reported>>

\* It fails: the sources after it are not tried.
DeleteFails ==
  /\ phase = "deleting"
  /\ \E n \in 0..plan.objects[deleted + 1] : live' = live \ First(deleted + 1, n)
  /\ phase' = "notDeleted"
  /\ UNCHANGED <<plan, applyVars, readVars, reported, deleted>>

\* The ResourceObjects panic this time.
DeletePanics ==
  /\ plan.computed /\ deleted = 0
  /\ phase = "deleting"
  /\ \E n \in 0..(plan.objects[1] - 1) : live' = live \ First(1, n)
  /\ deleted' = 1
  /\ phase' = IF Len(plan.objects) = 1 THEN "deleted" ELSE "deleting"
  /\ reported' = TRUE
  /\ UNCHANGED <<plan, applyVars, readVars>>

-----------------------------------------------------------------------------

Apply ==
  \/ \E k \in Source : KubectlApplies(k) \/ KubectlFails(k) \/ Reader(k)
  \/ StartWaits \/ ApplyFails \/ WaitsEnd

Next == Apply \/ ObjectsPanic \/ StartDelete \/ DeleteNext \/ DeleteFails \/ DeletePanics

Safety == Init /\ [][Next]_vars

(* kubectls end once their output is read, and readers go on.              *)
Manifests == Safety /\ WF_vars(Apply)

-----------------------------------------------------------------------------
(* Properties *)

(* Of a set with one source, CreateOrUpdate returns with the objects in    *)
(* Created in order, as many as there are slots, and nothing panics: the   *)
(* slot taken by the end of the output (kubectl.go:396) does no harm there.*)
OneSourceInOrder ==
  Len(plan.objects) = 1 =>
    /\ phase # "crashed"
    /\ phase \in {"waiting", "applied"} =>
         \A i \in 1..plan.slots :
           created[i] = IF i <= printed[1] THEN <<1, i>> ELSE None

(* However the readers interleave, no object is in two slots, and none that*)
(* was not applied is in any.                                              *)
SlotsAreTrue ==
  /\ \A i, j \in DOMAIN created : created[i] = created[j] /\ created[i] # None => i = j
  /\ phase \in {"applying", "waiting", "applied"} =>
       \A i \in DOMAIN created : created[i] \in live \cup {None}

(* The waits begin, and CreateOrUpdate succeeds, only when every object is *)
(* in the cluster, or the panic that cost some has been reported.          *)
AppliedBeforeWaits ==
  phase \in {"waiting", "applied"} => live = Objects \/ reported

(* A Delete that succeeds leaves nothing behind, or something was reported.*)
DeleteLeavesNothing == phase = "deleted" => live = {} \/ reported

(* CreateOrUpdate returns: readers with no slot left keep reading, so that *)
(* no kubectl is stuck on its output (kubectl.go:404).                     *)
ApplyEnds == <>(phase \notin {"applying", "waiting"})

(* "Created is the list of resources that were created/applied, in order. *)
(* [...] If non-nil, it must be a pre-populated with the same length as the*)
(* number of resources" (manifests.go:95-97).                              *)
CreatedListsAll ==
  phase = "applied" /\ ~reported /\ plan.slots = Cardinality(Objects) =>
    {created[i] : i \in 1..plan.slots} = Objects
=============================================================================
