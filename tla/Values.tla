------------------------------- MODULE Values -------------------------------
(***************************************************************************)
(* The Objects and NestedObjects (types.go) in which a test keeps the      *)
(* values of its charts, as Go has them: cells on a heap that refer to one *)
(* another, copied by DeepCopy, MergedFrom and With (reflection.go) and    *)
(* changed in place by the test.  meant is what each variable of the test  *)
(* would hold if a copy were a snapshot, which later changes of another    *)
(* variable leave alone: what a caller of a DeepCopy expects.              *)
(*                                                                         *)
(* Keys are numbers, as the indices of an array are.  The elements of a    *)
(* NestedObject are interfaces, so that rnestedValueCopy hands them all to *)
(* rvalueCopy: the copies of the two kinds of objects are the same.        *)
(***************************************************************************)
EXTENDS Naturals, Sequences, FiniteSets, Functions

CONSTANTS Handle,    \* variables of the test
          Base,      \* the one that is there from the start
          Key,       \* keys of the objects
          Scalar,    \* scalars; 0 is the zero value
          Shapes,    \* literals that Base may start with
          Puts,      \* those that the test puts into an object later
          Fresh,     \* the scalar in these
          Changed,   \* what a scalar is changed to in place
          MaxEdits   \* bound: changes that the test makes in place

CellKind == {"object", "array", "pointer"}
LeafKind == {"scalar", "nil", "func"}

\* Of what shape a value is: a leaf, a cell with a leaf under 1, or an array
\* with such an array or object under 1.
Shape == LeafKind \cup CellKind \cup {"arrays", "objects"}

ASSUME ValuesAssumption ==
  /\ Base \in Handle
  /\ Key \subseteq Nat /\ 1 \in Key
  /\ {0, Fresh, Changed} \subseteq Scalar /\ Scalar \subseteq Nat
  /\ Puts \subseteq Shapes /\ Shapes \subseteq Shape
  /\ MaxEdits \in Nat

VARIABLES
  heap,   \* a sequence of cells: what each holds by key or index
  obj,    \* obj[h]: the cell of the object that h refers to, 0 for none yet
  edits,  \* changes made in place so far
  lent,   \* cells that MergedFrom has put into a second object
  meant   \* meant[h]: the leaf at each path of h, by value

valueVars == <<heap, obj, edits, lent, meant>>

Leaf(kind, x) == [kind |-> kind, of |-> x]
Ref(c) == [kind |-> "ref", of |-> c]
Zero == Leaf("scalar", 0)
Nowhere == Leaf("nowhere", 0)
IsLeaf(v) == v.kind \in LeafKind

Cell(kind, at) == [kind |-> kind, at |-> at]

\* The entries of f, and those of g under other keys.
Joined(f, g) ==
  [x \in DOMAIN f \cup DOMAIN g |-> IF x \in DOMAIN f THEN f[x] ELSE g[x]]

-----------------------------------------------------------------------------
(* Reading along paths *)

\* Bound: no literal is nested deeper than two cells below the object.
Path == UNION {[1..n -> Key] : n \in 1..3}

Step(hp, v, i) ==
  IF v.kind = "ref" /\ i \in DOMAIN hp[v.of].at THEN hp[v.of].at[i] ELSE Nowhere

\* Where the first n steps of p lead from the object c.
Down(hp, c, p, n) ==
  LET one == Step(hp, Ref(c), p[1])
      two == Step(hp, one, p[2])
  IN CASE n = 1 -> one [] n = 2 -> two [] n = 3 -> Step(hp, two, p[3])

At(hp, c, p) == Down(hp, c, p, Len(p))

\* The cells that p goes through below the object c.
Along(hp, c, p) ==
  {Down(hp, c, p, n).of : n \in {m \in 1..(Len(p) - 1) : Down(hp, c, p, m).kind = "ref"}}

Reads(hp, c) == [p \in {q \in Path : IsLeaf(At(hp, c, q))} |-> At(hp, c, p)]

\* The cells below c.
Under(hp, c) == {At(hp, c, p).of : p \in {q \in Path : At(hp, c, q).kind = "ref"}}

-----------------------------------------------------------------------------
(* Literals *)

\* What a literal of the shape consists of, on a heap of n cells: the value,
\* and the cells to be appended.
Literal(shape, x, n) ==
  LET leaf == [i \in {1} |-> Leaf("scalar", x)]
      down == [i \in {1} |-> Ref(n + 2)]
  IN
  CASE shape \in LeafKind -> [value |-> Leaf(shape, x), cells |-> <<>>]
    [] shape \in CellKind -> [value |-> Ref(n + 1), cells |-> <<Cell(shape, leaf)>>]
    [] shape = "arrays"   -> [value |-> Ref(n + 1),
                              cells |-> <<Cell("array", down), Cell("array", leaf)>>]
    [] shape = "objects"  -> [value |-> Ref(n + 1),
                              cells |-> <<Cell("array", down), Cell("object", leaf)>>]

\* The object c with the value of the literal under k, and its cells.
WithLiteral(hp, c, k, lit) ==
  [hp EXCEPT ![c].at = Joined([i \in {k} |-> lit.value], @)] \o lit.cells

\* The same by value: what was under k is gone.
Put(m, k, shape, x) ==
  LET path == CASE shape \in LeafKind -> <<k>>
                [] shape \in CellKind -> <<k, 1>>
                [] shape \in {"arrays", "objects"} -> <<k, 1, 1>>
      leaf == Leaf(IF shape \in LeafKind THEN shape ELSE "scalar", x)
  IN Joined([p \in {path} |-> leaf], [p \in {q \in DOMAIN m : q[1] # k} |-> m[p]])

-----------------------------------------------------------------------------
(* rvalueCopy, rarrayCopy, robjectCopy *)

\* Fault: arrays are taken over as they are.
OnlyPointers(hp, c) == {c} \cup {d \in Under(hp, c) : hp[d].kind = "pointer"}

\* The cells that DeepCopy of c makes new ones for: c itself, and the arrays
\* and pointers that are reached through arrays alone.  A map below the top
\* falls through the cases of rvalueCopy.
Copied(hp, c) ==
  {c} \cup {At(hp, c, p).of :
              p \in {q \in Path :
                       LET v == At(hp, c, q) IN
                       /\ v.kind = "ref"
                       /\ hp[v.of].kind \in {"array", "pointer"}
                       /\ \A d \in Along(hp, c, q) : hp[d].kind = "array"}}

\* hp with the copy appended: that of a cell d is Len(hp) further on, where
\* there is a gap for what is not copied.  No object reaches a cell on two ways,
\* so that one copy of each will do.  The copy of a pointer is one to the copy
\* of the zero value that reflect.New has just made.
DeepCopied(hp, c) ==
  LET old == Copied(hp, c)
      moved(v) == IF v.kind = "ref" /\ v.of \in old THEN Ref(Len(hp) + v.of) ELSE v
      copy(cell) ==
        IF cell.kind = "pointer" THEN [cell EXCEPT !.at = [i \in {1} |-> Zero]]
        ELSE [cell EXCEPT !.at = [i \in DOMAIN @ |-> moved(@[i])]]
  IN hp \o [d \in 1..Len(hp) |-> IF d \in old THEN copy(hp[d]) ELSE Cell("unused", <<>>)]

\* Fault: off by one.
CopyPastEnd(hp, c) == Len(hp) + c + 1

\* Where the copy of c is in DeepCopied(hp, c).
CopyOf(hp, c) == Len(hp) + c

-----------------------------------------------------------------------------

\* The test has made Base, with a literal under the first key.
StartHeap(shape, x) ==
  WithLiteral(<<Cell("object", <<>>)>>, 1, 1, Literal(shape, x, 1))
StartObj == [h \in Handle |-> IF h = Base THEN 1 ELSE 0]
StartMeant(shape, x) ==
  [h \in Handle |-> IF h = Base THEN Put(<<>>, 1, shape, x) ELSE <<>>]

\* h[k] = literal
Assign(h, k, shape, x) ==
  /\ obj[h] # 0 /\ edits < MaxEdits
  /\ edits' = edits + 1
  /\ heap' = WithLiteral(heap, obj[h], k, Literal(shape, x, Len(heap)))
  /\ meant' = [meant EXCEPT ![h] = Put(@, k, shape, x)]
  /\ UNCHANGED <<obj, lent>>

\* h[k][i] = x, (*h[k]) = x, and the like: a leaf below the top is changed.
AssignBelow(h, p, x) ==
  /\ obj[h] # 0 /\ edits < MaxEdits
  /\ Len(p) > 1 /\ At(heap, obj[h], p).kind = "scalar"
  /\ edits' = edits + 1
  /\ heap' = [heap EXCEPT ![Down(heap, obj[h], p, Len(p) - 1).of].at[p[Len(p)]] =
                            Leaf("scalar", x)]
  /\ meant' = [meant EXCEPT ![h] = Joined([q \in {p} |-> Leaf("scalar", x)], @)]
  /\ UNCHANGED <<obj, lent>>

\* g := h.DeepCopy()
DeepCopy(g, h) ==
  /\ obj[h] # 0 /\ obj[g] = 0
  /\ heap' = DeepCopied(heap, obj[h])
  /\ obj' = [obj EXCEPT ![g] = CopyOf(heap, obj[h])]
  /\ meant' = [meant EXCEPT ![g] = Reads(heap, obj[h])]
  /\ UNCHANGED <<edits, lent>>

\* g := h.With(k, literal)
With(g, h, k, shape, x) ==
  LET hp == DeepCopied(heap, obj[h])
      c  == CopyOf(heap, obj[h])
  IN
  /\ obj[h] # 0 /\ obj[g] = 0
  /\ heap' = WithLiteral(hp, c, k, Literal(shape, x, Len(hp)))
  /\ obj' = [obj EXCEPT ![g] = c]
  /\ meant' = [meant EXCEPT ![g] = Put(Reads(heap, obj[h]), k, shape, x)]
  /\ UNCHANGED <<edits, lent>>

\* g := h.MergedFrom(toAdd): the values of toAdd are not copied.
MergedFrom(g, h, toAdd) ==
  LET hp == DeepCopied(heap, obj[h])
      c  == CopyOf(heap, obj[h])
      added == heap[obj[toAdd]].at
  IN
  /\ obj[h] # 0 /\ obj[toAdd] # 0 /\ obj[g] = 0
  /\ heap' = [hp EXCEPT ![c].at = Joined(added, @)]
  /\ obj' = [obj EXCEPT ![g] = c]
  /\ lent' = lent \cup Under(heap, obj[toAdd])
  /\ meant' = [meant EXCEPT ![g] =
       LET old == Reads(heap, obj[h]) IN
       Joined(Reads(heap, obj[toAdd]),
              [p \in {q \in DOMAIN old : q[1] \notin DOMAIN added} |-> old[p]])]
  /\ UNCHANGED edits

\* Code of the test.
TestCode ==
  \/ \E h \in Handle, k \in Key, shape \in Puts : Assign(h, k, shape, Fresh)
  \/ \E h \in Handle, p \in Path : AssignBelow(h, p, Changed)
  \/ \E g, h \in Handle : DeepCopy(g, h)
  \/ \E g, h \in Handle, k \in Key, shape \in Puts : With(g, h, k, shape, Fresh)
  \/ \E g, h, a \in Handle : MergedFrom(g, h, a)

-----------------------------------------------------------------------------
(* Properties *)

ValuesTypeOK ==
  /\ \A c \in DOMAIN heap :
       /\ heap[c].kind \in CellKind \cup {"unused"}
       /\ DOMAIN heap[c].at \subseteq Key
       /\ \A i \in DOMAIN heap[c].at :
            LET v == heap[c].at[i] IN
            IsLeaf(v) \/ (v.kind = "ref" /\ v.of \in DOMAIN heap)
  /\ obj \in [Handle -> 0..Len(heap)]
  /\ edits \in 0..MaxEdits
  /\ lent \subseteq DOMAIN heap
  /\ \A h \in Handle : DOMAIN meant[h] \subseteq Path

\* A path that a copy is to have for itself: below the top it goes through
\* arrays and pointers, which are copied, and none that was lent.
Own(h, p) ==
  \A c \in Along(heap, obj[h], p) : heap[c].kind # "object" /\ c \notin lent

Pointed(h, p) == \E c \in Along(heap, obj[h], p) : heap[c].kind = "pointer"

\* reads has at each of h's own paths what was meant for it; behind a pointer
\* it may be the zero value.
HoldsWhatWasMeant(h, reads) ==
  \A p \in DOMAIN reads \cup DOMAIN meant[h] : Own(h, p) =>
    /\ p \in DOMAIN reads \cap DOMAIN meant[h]
    /\ reads[p] = meant[h][p] \/ (Pointed(h, p) /\ reads[p] = Zero)

(* Whatever the test derives from what and changes in which order, each    *)
(* variable holds what was meant for it: a change of one never shows in    *)
(* another.  Exceptions: nested objects are shared, against types.go:73,   *)
(* and so is what MergedFrom has put into two objects; and behind a pointer*)
(* that was copied there may be the zero value, against types.go:45.       *)
MeantIsHeld ==
  \A h \in Handle : obj[h] # 0 => HoldsWhatWasMeant(h, Reads(heap, obj[h]))

(* "DeepCopy returns a copy of this object where pointers and arrays have  *)
(* their values deep copied" (types.go:45): what a pointer points to reads *)
(* alike in the copy.  rvalueCopy (reflection.go:240) copies the zero value*)
(* that the new pointer has, and not what the old one pointed to.          *)
PointersKeepTheirValue ==
  \A h \in Handle : \A p \in DOMAIN meant[h] :
    obj[h] # 0 /\ Own(h, p) /\ Pointed(h, p) => At(heap, obj[h], p) = meant[h][p]
=============================================================================
