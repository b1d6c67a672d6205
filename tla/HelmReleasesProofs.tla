------------------------- MODULE HelmReleasesProofs -------------------------
(***************************************************************************)
(* What a test's values hold, and what helm has of them, for every set of  *)
(* variables, every sequence of copies, merges and changes, every plan and *)
(* any number of runs.                                                     *)
(*                                                                         *)
(* The heap first: its cells form short chains (Sound), each is referred   *)
(* to from one place, but for objects below the top and what MergedFrom    *)
(* has lent (Owned), and each variable reads what was meant for it where   *)
(* nothing is shared (Meant).  Each step of the test's code preserves the  *)
(* three together, and none of them alone: that a change made through one  *)
(* variable does not show in another is that no second path leads there.   *)
(* Then the suite: the repositories, the files, the cluster, in this order,*)
(* each resting on the one before.                                         *)
(***************************************************************************)
EXTENDS HelmReleases, SequenceTheorems, TLAPS

\* What a cell holds under a key, and cells.
Held == [kind : LeafKind \cup {"ref"}, of : Nat]
CellType == [kind : CellKind \cup {"unused"}, at : UNION {[K -> Held] : K \in SUBSET Key}]

\* Cell c refers to cell d, under i.
Points(hp, c, i, d) ==
  c \in 1..Len(hp) /\ i \in DOMAIN hp[c].at /\ hp[c].at[i] = Ref(d)

\* A heap whose references lead to cells, along chains of at most two; and
\* behind a pointer is one leaf.
Sound(hp) ==
  /\ hp \in Seq(CellType)
  /\ \A c, i, d : Points(hp, c, i, d) => d \in 1..Len(hp) /\ hp[d].kind # "unused"
  /\ \A c, i, d, j, e : Points(hp, c, i, d) /\ Points(hp, d, j, e) =>
       \A k, f : ~Points(hp, e, k, f)
  /\ \A c \in 1..Len(hp) : hp[c].kind = "pointer" =>
       DOMAIN hp[c].at = {1} /\ IsLeaf(hp[c].at[1])

\* Paths, and cells.
LEMMA PathFacts ==
  ASSUME NEW p \in Path
  PROVE  /\ p \in Seq(Key)
         /\ Len(p) \in {1, 2, 3}
         /\ \A m \in 1..Len(p) : p[m] \in Key
         /\ \A k \in 1..(Len(p) - 1) : k \in 1..Len(p) /\ k \in {1, 2}
         /\ Len(p) = 1 => 1..Len(p) = {1}
         /\ Len(p) = 2 => 1..Len(p) = {1, 2}
         /\ Len(p) = 3 => 1..Len(p) = {1, 2, 3}
<1>1. PICK n \in 1..3 : p \in [1..n -> Key]
  BY DEF Path
<1>2. Len(p) = n /\ p \in Seq(Key)
  BY <1>1
<1> QED
  BY <1>1, <1>2

LEMMA PathOf ==
  ASSUME NEW i \in Key, NEW j \in Key
  PROVE  /\ <<i>> \in Path /\ Len(<<i>>) = 1 /\ <<i>>[1] = i
         /\ <<i, j>> \in Path /\ Len(<<i, j>>) = 2 /\ <<i, j>>[1] = i /\ <<i, j>>[2] = j
<1>1. <<i>> \in [1..1 -> Key]
  OBVIOUS
<1>2. <<i, j>> \in [1..2 -> Key]
  OBVIOUS
<1> QED
  BY <1>1, <1>2 DEF Path

LEMMA DownSteps ==
  ASSUME NEW hp, NEW c, NEW p
  PROVE  /\ Down(hp, c, p, 1) = Step(hp, Ref(c), p[1])
         /\ Down(hp, c, p, 2) = Step(hp, Down(hp, c, p, 1), p[2])
         /\ Down(hp, c, p, 3) = Step(hp, Down(hp, c, p, 2), p[3])
BY DEF Down

LEMMA HeldFacts ==
  \A v \in Held : (v.kind = "ref" /\ v = Ref(v.of)) \/ (v.kind # "ref" /\ IsLeaf(v))
BY DEF Held, Ref, IsLeaf, LeafKind

LEMMA CellShape ==
  ASSUME NEW v \in CellType
  PROVE  /\ v = Cell(v.kind, v.at)
         /\ v.kind \in CellKind \cup {"unused"}
         /\ DOMAIN v.at \subseteq Key
         /\ v.at \in [DOMAIN v.at -> Held]
BY DEF CellType, Cell

LEMMA CellFacts ==
  ASSUME NEW hp, hp \in Seq(CellType)
  PROVE  /\ Len(hp) \in Nat /\ DOMAIN hp = 1..Len(hp)
         /\ \A c \in 1..Len(hp) :
              /\ hp[c] \in CellType
              /\ DOMAIN hp[c].at \subseteq Key
              /\ \A i \in DOMAIN hp[c].at :
                   \/ hp[c].at[i].kind = "ref" /\ hp[c].at[i] = Ref(hp[c].at[i].of)
                   \/ hp[c].at[i].kind # "ref" /\ IsLeaf(hp[c].at[i])
<1>1. /\ Len(hp) \in Nat /\ DOMAIN hp = 1..Len(hp)
      /\ \A c \in 1..Len(hp) : hp[c] \in CellType
  OBVIOUS
<1>2. ASSUME NEW c \in 1..Len(hp) PROVE DOMAIN hp[c].at \subseteq Key /\ hp[c].at \in [DOMAIN hp[c].at -> Held]
  BY <1>1, CellShape
<1>3. ASSUME NEW c \in 1..Len(hp), NEW i \in DOMAIN hp[c].at PROVE hp[c].at[i] \in Held
  BY <1>2
<1> QED
  BY <1>1, <1>2, <1>3, HeldFacts

\* Where a path leads.
LEMMA StepFacts ==
  ASSUME NEW hp, Sound(hp), NEW v, NEW i, v.kind = "ref" => v.of \in 1..Len(hp)
  PROVE  LET w == Step(hp, v, i) IN
         /\ w = Nowhere \/ IsLeaf(w) \/ (w.kind = "ref" /\ w = Ref(w.of))
         /\ ~(IsLeaf(w) /\ w.kind = "ref")
         /\ w.kind = "ref" => v.kind = "ref" /\ Points(hp, v.of, i, w.of) /\ w.of \in 1..Len(hp)
         /\ IsLeaf(w) => v.kind = "ref" /\ i \in DOMAIN hp[v.of].at /\ hp[v.of].at[i] = w
<1>0. /\ Nowhere.kind = "nowhere" /\ ~IsLeaf(Nowhere)
      /\ \A w : ~(IsLeaf(w) /\ w.kind = "ref")
  BY DEF Nowhere, Leaf, IsLeaf, LeafKind
<1>1. CASE v.kind = "ref" /\ i \in DOMAIN hp[v.of].at
  <2>1. Step(hp, v, i) = hp[v.of].at[i]
    BY <1>1 DEF Step
  <2>2. hp \in Seq(CellType) /\ v.of \in 1..Len(hp)
    BY <1>1 DEF Sound
  <2>3. /\ hp[v.of].at[i].kind = "ref" => hp[v.of].at[i] = Ref(hp[v.of].at[i].of)
        /\ hp[v.of].at[i].kind # "ref" => IsLeaf(hp[v.of].at[i])
    BY <1>1, <2>2, CellFacts
  <2>4. hp[v.of].at[i].kind = "ref" => Points(hp, v.of, i, hp[v.of].at[i].of)
    BY <1>1, <2>2, <2>3 DEF Points
  <2>5. hp[v.of].at[i].kind = "ref" => hp[v.of].at[i].of \in 1..Len(hp)
    BY <2>4 DEF Sound
  <2> QED
    BY <1>0, <1>1, <2>1, <2>3, <2>4, <2>5
<1>2. CASE ~(v.kind = "ref" /\ i \in DOMAIN hp[v.of].at)
  <2>1. Step(hp, v, i) = Nowhere
    BY <1>2 DEF Step
  <2> QED
    BY <1>0, <2>1
<1> QED
  BY <1>1, <1>2

LEMMA DownFacts ==
  ASSUME NEW hp, Sound(hp), NEW c \in 1..Len(hp), NEW p \in Path, NEW m \in 1..Len(p)
  PROVE  LET v == Down(hp, c, p, m) IN
         /\ v = Nowhere \/ IsLeaf(v) \/ (v.kind = "ref" /\ v = Ref(v.of))
         /\ ~(IsLeaf(v) /\ v.kind = "ref")
         /\ v.kind = "ref" =>
              /\ v.of \in 1..Len(hp) /\ m # 3
              /\ m = 1 => Points(hp, c, p[1], v.of)
              /\ m = 2 => /\ Down(hp, c, p, 1).kind = "ref"
                          /\ Points(hp, c, p[1], Down(hp, c, p, 1).of)
                          /\ Points(hp, Down(hp, c, p, 1).of, p[2], v.of)
<1> DEFINE d(k) == Down(hp, c, p, k)
<1>0. m \in {1, 2, 3}
  BY PathFacts
<1>1. Ref(c).kind = "ref" /\ Ref(c).of = c
  BY DEF Ref
<1>2. /\ d(1) = Nowhere \/ IsLeaf(d(1)) \/ (d(1).kind = "ref" /\ d(1) = Ref(d(1).of))
      /\ ~(IsLeaf(d(1)) /\ d(1).kind = "ref")
      /\ d(1).kind = "ref" => Points(hp, c, p[1], d(1).of) /\ d(1).of \in 1..Len(hp)
  BY <1>1, StepFacts, DownSteps
<1>3. /\ d(2) = Nowhere \/ IsLeaf(d(2)) \/ (d(2).kind = "ref" /\ d(2) = Ref(d(2).of))
      /\ ~(IsLeaf(d(2)) /\ d(2).kind = "ref")
      /\ d(2).kind = "ref" => /\ d(1).kind = "ref"
                              /\ Points(hp, d(1).of, p[2], d(2).of) /\ d(2).of \in 1..Len(hp)
  BY <1>2, StepFacts, DownSteps
<1>4. /\ d(3) = Nowhere \/ IsLeaf(d(3)) \/ (d(3).kind = "ref" /\ d(3) = Ref(d(3).of))
      /\ ~(IsLeaf(d(3)) /\ d(3).kind = "ref")
      /\ d(3).kind = "ref" => d(2).kind = "ref" /\ Points(hp, d(2).of, p[3], d(3).of)
  BY <1>3, StepFacts, DownSteps
<1>5. d(3).kind # "ref"
  BY <1>2, <1>3, <1>4 DEF Sound
<1> HIDE DEF d
<1>7. /\ d(m) = Nowhere \/ IsLeaf(d(m)) \/ (d(m).kind = "ref" /\ d(m) = Ref(d(m).of))
      /\ ~(IsLeaf(d(m)) /\ d(m).kind = "ref")
  BY <1>2, <1>3, <1>4, <1>0
<1>8. d(m).kind = "ref" =>
              /\ d(m).of \in 1..Len(hp) /\ m # 3
              /\ m = 1 => Points(hp, c, p[1], d(m).of)
              /\ m = 2 => /\ d(1).kind = "ref"
                          /\ Points(hp, c, p[1], d(1).of)
                          /\ Points(hp, d(1).of, p[2], d(m).of)
  BY <1>2, <1>3, <1>5, <1>0
<1> QED
  BY <1>7, <1>8 DEF d

LEMMA AtFacts ==
  ASSUME NEW hp, Sound(hp), NEW c \in 1..Len(hp), NEW p \in Path
  PROVE  /\ Len(p) \in {1, 2, 3}
         /\ At(hp, c, p) = Down(hp, c, p, Len(p))
         /\ ~(IsLeaf(At(hp, c, p)) /\ At(hp, c, p).kind = "ref")
         /\ At(hp, c, p).kind = "ref" =>
              /\ Len(p) # 3 /\ At(hp, c, p).of \in 1..Len(hp)
              /\ At(hp, c, p) = Ref(At(hp, c, p).of)
<1>1. Len(p) \in {1, 2, 3} /\ Len(p) \in 1..Len(p)
  BY PathFacts
<1>2. PICK m \in 1..Len(p) : m = Len(p)
  BY <1>1
<1>3. At(hp, c, p) = Down(hp, c, p, m)
  BY <1>2 DEF At
<1>4. PICK v : v = Down(hp, c, p, m)
  OBVIOUS
<1>5. /\ v = Nowhere \/ IsLeaf(v) \/ (v.kind = "ref" /\ v = Ref(v.of))
      /\ ~(IsLeaf(v) /\ v.kind = "ref")
      /\ v.kind = "ref" => v.of \in 1..Len(hp) /\ m # 3
  BY <1>4, DownFacts
<1>6. Nowhere.kind # "ref"
  BY DEF Nowhere, Leaf
<1> QED
  BY <1>1, <1>2, <1>3, <1>4, <1>5, <1>6

\* hp2 has the cells of hp, but for one that nothing refers to.
SameBut(hp, hp2, t) ==
  /\ \A b, i : ~Points(hp, b, i, t)
  /\ \A d \in 1..Len(hp) \ {t} : hp2[d] = hp[d]

\* Two ways that begin alike in heaps that differ in a cell nothing refers to.
LEMMA DownSame ==
  ASSUME NEW hp, Sound(hp), NEW c \in 1..Len(hp), NEW hp2, NEW c2, NEW t,
         SameBut(hp, hp2, t),
         NEW p \in Path, Step(hp2, Ref(c2), p[1]) = Step(hp, Ref(c), p[1])
  PROVE  \A m \in 1..Len(p) : Down(hp2, c2, p, m) = Down(hp, c, p, m)
<1>0. Len(p) \in {1, 2, 3}
  BY PathFacts
<1>1. Down(hp2, c2, p, 1) = Down(hp, c, p, 1)
  BY DownSteps
<1>2. ASSUME NEW v, NEW b, NEW i, v.kind = "ref" => Points(hp, b, i, v.of), NEW j
      PROVE  Step(hp2, v, j) = Step(hp, v, j)
  <2>1. v.kind = "ref" => v.of \in 1..Len(hp) \ {t}
    BY <1>2 DEF Sound, SameBut
  <2> QED
    BY <2>1 DEF Step, SameBut
<1>3. Down(hp2, c2, p, 2) = Down(hp, c, p, 2)
  <2>1. 1 \in 1..Len(p)
    BY <1>0, PathFacts
  <2>2. Down(hp, c, p, 1).kind = "ref" => Points(hp, c, p[1], Down(hp, c, p, 1).of)
    BY <2>1, DownFacts
  <2>3. Step(hp2, Down(hp, c, p, 1), p[2]) = Step(hp, Down(hp, c, p, 1), p[2])
    BY <1>2, <2>2
  <2> QED
    BY <1>1, <2>3, DownSteps
<1>4. Len(p) = 3 => Down(hp2, c2, p, 3) = Down(hp, c, p, 3)
  <2> SUFFICES ASSUME Len(p) = 3 PROVE Down(hp2, c2, p, 3) = Down(hp, c, p, 3)
    OBVIOUS
  <2>1. 2 \in 1..Len(p)
    BY PathFacts
  <2>2. Down(hp, c, p, 2).kind = "ref" =>
          Points(hp, Down(hp, c, p, 1).of, p[2], Down(hp, c, p, 2).of)
    BY <2>1, DownFacts
  <2>3. Step(hp2, Down(hp, c, p, 2), p[3]) = Step(hp, Down(hp, c, p, 2), p[3])
    BY <1>2, <2>2
  <2> QED
    BY <1>3, <2>3, DownSteps
<1> QED
  BY <1>0, <1>1, <1>3, <1>4, PathFacts

-----------------------------------------------------------------------------
(* Copies *)

\* What is copied of an object: itself, and each array or pointer that an
\* array among them, or itself, refers to.
LEMMA CopiedFacts ==
  ASSUME NEW hp, Sound(hp), NEW c \in 1..Len(hp), hp[c].kind = "object"
  PROVE  /\ c \in Copied(hp, c) /\ Copied(hp, c) \subseteq 1..Len(hp)
         /\ \A e \in Copied(hp, c) \ {c} :
              /\ hp[e].kind \in {"array", "pointer"}
              /\ \E b \in Copied(hp, c), i \in Key : Points(hp, b, i, e)
         /\ \A b \in Copied(hp, c) : \A i, e :
              /\ Points(hp, b, i, e) /\ hp[b].kind # "pointer"
              /\ hp[e].kind \in {"array", "pointer"}
              => e \in Copied(hp, c)
<1> DEFINE old == Copied(hp, c)
           Way(q) == LET v == At(hp, c, q) IN
                       /\ v.kind = "ref"
                       /\ hp[v.of].kind \in {"array", "pointer"}
                       /\ \A d \in Along(hp, c, q) : hp[d].kind = "array"
<1>1. old = {c} \cup {At(hp, c, q).of : q \in {p \in Path : Way(p)}}
  BY DEF Copied
<1>2. \A e \in old \ {c} : \E q \in Path : Way(q) /\ e = At(hp, c, q).of
  BY <1>1
<1>3. ASSUME NEW q \in Path, Way(q) PROVE At(hp, c, q).of \in old
  BY <1>1, <1>3
<1> HIDE DEF old
<1>4. ASSUME NEW q \in Path, Way(q)
      PROVE  /\ Len(q) \in {1, 2} /\ At(hp, c, q).of \in 1..Len(hp)
             /\ Len(q) = 1 => /\ At(hp, c, q) = Down(hp, c, q, 1)
                              /\ Points(hp, c, q[1], At(hp, c, q).of)
             /\ Len(q) = 2 => /\ At(hp, c, q) = Down(hp, c, q, 2)
                              /\ hp[Down(hp, c, q, 1).of].kind = "array"
                              /\ Points(hp, c, q[1], Down(hp, c, q, 1).of)
                              /\ Points(hp, Down(hp, c, q, 1).of, q[2], At(hp, c, q).of)
  <2>1. Len(q) \in {1, 2, 3} /\ Len(q) \in 1..Len(q)
    BY PathFacts
  <2>2. At(hp, c, q) = Down(hp, c, q, Len(q))
    BY DEF At
  <2>3. At(hp, c, q).kind = "ref" /\ Len(q) # 3 /\ At(hp, c, q).of \in 1..Len(hp)
    BY <1>4, AtFacts
  <2>4. CASE Len(q) = 1
    BY <2>1, <2>2, <2>3, <2>4, DownFacts
  <2>5. CASE Len(q) = 2
    <3>1. /\ Down(hp, c, q, 1).kind = "ref"
          /\ Points(hp, c, q[1], Down(hp, c, q, 1).of)
          /\ Points(hp, Down(hp, c, q, 1).of, q[2], At(hp, c, q).of)
      <4>1. 2 \in 1..Len(q) /\ At(hp, c, q) = Down(hp, c, q, 2)
        BY <2>2, <2>5, PathFacts
      <4>2. Down(hp, c, q, 2).kind = "ref"
        BY <2>3, <4>1
      <4> QED
        BY <4>1, <4>2, DownFacts
    <3>2. Down(hp, c, q, 1).of \in Along(hp, c, q)
      BY <2>5, <3>1 DEF Along
    <3> QED
      BY <1>4, <2>2, <2>3, <2>5, <3>1, <3>2
  <2> QED
    BY <2>1, <2>3, <2>4, <2>5
<1>5. ASSUME NEW i \in Key, NEW e, Points(hp, c, i, e), hp[e].kind \in {"array", "pointer"}
      PROVE  e \in old
  <2>1. <<i>> \in Path /\ Len(<<i>>) = 1 /\ <<i>>[1] = i
    BY PathOf
  <2>2. At(hp, c, <<i>>) = Ref(e)
    BY <1>5, <2>1, DownSteps DEF At, Step, Points, Ref
  <2>3. Along(hp, c, <<i>>) = {}
    BY <2>1 DEF Along
  <2>4. At(hp, c, <<i>>).kind = "ref" /\ At(hp, c, <<i>>).of = e
    BY <2>2 DEF Ref
  <2> QED
    BY <1>3, <1>5, <2>1, <2>3, <2>4
<1>6. ASSUME NEW i \in Key, NEW b, Points(hp, c, i, b), hp[b].kind = "array",
             NEW j \in Key, NEW e, Points(hp, b, j, e), hp[e].kind \in {"array", "pointer"}
      PROVE  e \in old
  <2>1. <<i, j>> \in Path /\ Len(<<i, j>>) = 2 /\ <<i, j>>[1] = i /\ <<i, j>>[2] = j
    BY PathOf
  <2>2. Down(hp, c, <<i, j>>, 1) = Ref(b)
    BY <1>6, <2>1, DownSteps DEF Step, Points, Ref
  <2>3. At(hp, c, <<i, j>>) = Ref(e)
    BY <1>6, <2>1, <2>2, DownSteps DEF At, Step, Points, Ref
  <2>4. Along(hp, c, <<i, j>>) \subseteq {b}
    BY <2>1, <2>2 DEF Along, Ref
  <2>5. At(hp, c, <<i, j>>).kind = "ref" /\ At(hp, c, <<i, j>>).of = e
    BY <2>3 DEF Ref
  <2> QED
    BY <1>3, <1>6, <2>1, <2>4, <2>5
<1>7. \A b, i, e : Points(hp, b, i, e) => i \in Key /\ hp[e].kind # "unused"
  BY CellFacts DEF Points, Sound
<1>8. c \in old /\ old \subseteq 1..Len(hp)
  BY <1>1, <1>2, <1>4
<1>9. ASSUME NEW e \in old \ {c}
      PROVE  hp[e].kind \in {"array", "pointer"} /\ \E b \in old, i \in Key : Points(hp, b, i, e)
  <2>1. PICK q \in Path : Way(q) /\ e = At(hp, c, q).of
    BY <1>2
  <2>2. hp[e].kind \in {"array", "pointer"}
    BY <2>1
  <2>3. Len(q) = 1 => Points(hp, c, q[1], e)
    BY <1>4, <2>1
  <2>4. Len(q) = 2 => /\ Points(hp, c, q[1], Down(hp, c, q, 1).of)
                      /\ hp[Down(hp, c, q, 1).of].kind = "array"
                      /\ Points(hp, Down(hp, c, q, 1).of, q[2], e)
    BY <1>4, <2>1
  <2>5. Len(q) = 2 => Down(hp, c, q, 1).of \in old
    BY <2>4, <1>5, <1>7
  <2>6. Len(q) \in {1, 2}
    BY <1>4, <2>1
  <2> QED
    BY <1>7, <1>8, <2>2, <2>3, <2>4, <2>5, <2>6
<1>10. ASSUME NEW b \in old, NEW i, NEW e, Points(hp, b, i, e), hp[b].kind # "pointer",
              hp[e].kind \in {"array", "pointer"}
       PROVE  e \in old
  <2>1. CASE b = c
    BY <1>5, <1>7, <1>10, <2>1
  <2>2. CASE b # c
    <3>1. PICK q \in Path : Way(q) /\ b = At(hp, c, q).of
      BY <1>2, <2>2
    <3>2. hp[b].kind = "array"
      BY <1>10, <3>1
    <3>3. Len(q) = 1 => Points(hp, c, q[1], b)
      BY <1>4, <3>1
    <3>4. Len(q) = 2 => /\ Points(hp, c, q[1], Down(hp, c, q, 1).of)
                        /\ Points(hp, Down(hp, c, q, 1).of, q[2], b)
      BY <1>4, <3>1
    <3>5. Len(q) = 1
      BY <1>4, <1>10, <3>1, <3>4 DEF Sound
    <3> QED
      BY <1>6, <1>7, <1>10, <3>2, <3>3, <3>5
  <2> QED
    BY <2>1, <2>2
<1> QED
  BY <1>8, <1>9, <1>10 DEF old

\* The copy of a value that a cell holds, and of a cell.
Moved(hp, c, v) ==
  IF v.kind = "ref" /\ v.of \in Copied(hp, c) THEN Ref(Len(hp) + v.of) ELSE v

NewCell(hp, c, d) ==
  CASE d \in Copied(hp, c) /\ hp[d].kind # "pointer" ->
         Cell(hp[d].kind, [i \in DOMAIN hp[d].at |-> Moved(hp, c, hp[d].at[i])])
    [] d \in Copied(hp, c) /\ hp[d].kind = "pointer" ->
         Cell("pointer", [i \in {1} |-> Zero])
    [] d \notin Copied(hp, c) -> Cell("unused", <<>>)

LEMMA NewCellType ==
  ASSUME NEW hp, Sound(hp), NEW c, NEW d \in 1..Len(hp)
  PROVE  NewCell(hp, c, d) \in CellType
<1>0. Len(hp) \in Nat /\ hp \in Seq(CellType)
  BY CellFacts DEF Sound
<1>1. hp[d] \in CellType
  BY <1>0, CellFacts
<1>2. CASE d \in Copied(hp, c) /\ hp[d].kind # "pointer"
  <2>1. hp[d].kind \in CellKind \cup {"unused"} /\ DOMAIN hp[d].at \subseteq Key
        /\ hp[d].at \in [DOMAIN hp[d].at -> Held]
    BY <1>1, CellShape
  <2>2. ASSUME NEW v \in Held PROVE Moved(hp, c, v) \in Held
    BY <1>0 DEF Moved, Held, Ref
  <2>3. [i \in DOMAIN hp[d].at |-> Moved(hp, c, hp[d].at[i])] \in [DOMAIN hp[d].at -> Held]
    BY <2>1, <2>2
  <2> QED
    BY <1>2, <2>1, <2>3 DEF NewCell, Cell, CellType
<1>3. CASE d \in Copied(hp, c) /\ hp[d].kind = "pointer"
  <2>1. Zero \in Held /\ 1 \in Key
    BY ValuesAssumption DEF Zero, Leaf, Held, LeafKind
  <2>2. [i \in {1} |-> Zero] \in [{1} -> Held] /\ {1} \in SUBSET Key
    BY <2>1
  <2>3. NewCell(hp, c, d) = Cell("pointer", [i \in {1} |-> Zero])
    BY <1>3 DEF NewCell
  <2> QED
    BY <2>2, <2>3 DEF Cell, CellType, CellKind
<1>4. CASE d \notin Copied(hp, c)
  <2>1. NewCell(hp, c, d) = Cell("unused", <<>>)
    BY <1>4 DEF NewCell
  <2>2. <<>> \in [{} -> Held]
    OBVIOUS
  <2> QED
    BY <2>1, <2>2 DEF Cell, CellType
<1> QED
  BY <1>2, <1>3, <1>4

\* A copy is appended, and what was there stays.
LEMMA CopyCells ==
  ASSUME NEW hp, Sound(hp), NEW c
  PROVE  /\ DeepCopied(hp, c) \in Seq(CellType)
         /\ Len(DeepCopied(hp, c)) = Len(hp) + Len(hp)
         /\ \A d \in 1..Len(hp) : /\ DeepCopied(hp, c)[d] = hp[d]
                                  /\ DeepCopied(hp, c)[Len(hp) + d] = NewCell(hp, c, d)
<1> DEFINE new == [d \in 1..Len(hp) |-> NewCell(hp, c, d)]
<1>1. hp \in Seq(CellType) /\ Len(hp) \in Nat
  BY CellFacts DEF Sound
<1>2. \A d \in 1..Len(hp) : NewCell(hp, c, d) \in CellType
  BY NewCellType
<1>3. new \in Seq(CellType) /\ Len(new) = Len(hp)
  BY <1>1, <1>2
<1>4. DeepCopied(hp, c) = hp \o new
  <2> DEFINE old == Copied(hp, c)
             moved(v) == IF v.kind = "ref" /\ v.of \in old THEN Ref(Len(hp) + v.of) ELSE v
             copy(cell) ==
               IF cell.kind = "pointer" THEN [cell EXCEPT !.at = [i \in {1} |-> Zero]]
               ELSE [cell EXCEPT !.at = [i \in DOMAIN @ |-> moved(@[i])]]
             new2 == [d \in 1..Len(hp) |-> IF d \in old THEN copy(hp[d]) ELSE Cell("unused", <<>>)]
  <2>1. ASSUME NEW d \in 1..Len(hp), d \in old PROVE copy(hp[d]) = NewCell(hp, c, d)
    <3>1. hp[d] = Cell(hp[d].kind, hp[d].at)
      BY <1>1, CellFacts, CellShape
    <3>2. PICK k, a : hp[d] = [kind |-> k, at |-> a]
      BY <3>1 DEF Cell
    <3>3. hp[d].kind = k /\ hp[d].at = a
      BY <3>2
    <3>4. CASE k = "pointer"
      <4>1. copy(hp[d]) = [hp[d] EXCEPT !.at = [i \in {1} |-> Zero]]
        BY <3>3, <3>4
      <4>2. copy(hp[d]) = [kind |-> k, at |-> [i \in {1} |-> Zero]]
        BY <3>2, <4>1
      <4> QED
        BY <2>1, <3>3, <3>4, <4>2 DEF NewCell, Cell
    <3>5. CASE k # "pointer"
      <4>1. copy(hp[d]) = [hp[d] EXCEPT !.at = [i \in DOMAIN hp[d].at |-> moved(hp[d].at[i])]]
        BY <3>3, <3>5
      <4>2. copy(hp[d]) = [kind |-> k, at |-> [i \in DOMAIN a |-> moved(a[i])]]
        BY <3>2, <3>3, <4>1
      <4> QED
        BY <2>1, <3>3, <3>5, <4>2 DEF NewCell, Cell, Moved
    <3> QED
      BY <3>4, <3>5
  <2>2. ASSUME NEW d \in 1..Len(hp), d \notin old PROVE Cell("unused", <<>>) = NewCell(hp, c, d)
    BY <2>2 DEF NewCell
  <2> HIDE DEF copy
  <2>3. new2 = new
    BY <2>1, <2>2
  <2>4. DeepCopied(hp, c) = hp \o new2
    BY DEF DeepCopied, copy
  <2> QED
    BY <2>3, <2>4
<1>5. \A d \in 1..Len(hp) : new[d] = NewCell(hp, c, d)
  OBVIOUS
<1> HIDE DEF new
<1>6. /\ hp \o new \in Seq(CellType)
      /\ Len(hp \o new) = Len(hp) + Len(hp)
      /\ \A i \in 1 .. Len(hp) + Len(hp) : (hp \o new)[i] =
                     IF i <= Len(hp) THEN hp[i] ELSE new[i - Len(hp)]
  <2>1. /\ hp \o new \in Seq(CellType)
        /\ Len(hp \o new) = Len(hp) + Len(new)
        /\ \A i \in 1 .. Len(hp) + Len(new) : (hp \o new)[i] =
                     IF i <= Len(hp) THEN hp[i] ELSE new[i - Len(hp)]
    <3>1. hp \in Seq(CellType) /\ new \in Seq(CellType)
      BY <1>1, <1>3
    <3> QED
      BY <3>1, ConcatProperties, Zenon
  <2> QED
    BY <1>3, <2>1
<1>7. ASSUME NEW d \in 1..Len(hp)
      PROVE  (hp \o new)[d] = hp[d] /\ (hp \o new)[Len(hp) + d] = new[d]
  <2>1. /\ d \in 1..(Len(hp) + Len(hp)) /\ d <= Len(hp)
        /\ Len(hp) + d \in 1..(Len(hp) + Len(hp)) /\ ~(Len(hp) + d <= Len(hp))
        /\ Len(hp) + d - Len(hp) = d
    BY <1>1
  <2> QED
    BY <1>6, <2>1
<1> QED
  BY <1>4, <1>5, <1>6, <1>7

\* The numbers of a heap with a copy.
LEMMA Halves ==
  ASSUME NEW n \in Nat
  PROVE  /\ \A b \in 1..(n + n) : b \in 1..n \/ \E x \in 1..n : b = n + x
         /\ \A x \in 1..n : /\ x \in 1..(n + n) /\ n + x \in 1..(n + n)
                            /\ n + x \notin 1..n /\ n + x # 0
         /\ \A x \in 1..n, y \in 1..n : (n + x = n + y <=> x = y) /\ n + x # y
<1>1. ASSUME NEW b \in 1..(n + n), b \notin 1..n PROVE \E x \in 1..n : b = n + x
  <2>1. b - n \in 1..n /\ b = n + (b - n)
    BY <1>1
  <2> QED
    BY <2>1
<1> QED
  BY <1>1

\* What refers to what in a heap with a copy: the old cells as before, and the
\* copies to one another or, where the original is an object, to the original.
LEMMA CopyPoints ==
  ASSUME NEW hp, Sound(hp), NEW c \in 1..Len(hp), hp[c].kind = "object"
  PROVE  LET hp2 == DeepCopied(hp, c)
             n   == Len(hp)
         IN
         /\ \A b, i, e : Points(hp2, b, i, e) =>
              \/ Points(hp, b, i, e)
              \/ \E x \in Copied(hp, c) : \E d :
                   /\ b = n + x /\ hp[x].kind # "pointer" /\ Points(hp, x, i, d)
                   /\ \/ d \in Copied(hp, c) /\ e = n + d
                      \/ d \notin Copied(hp, c) /\ e = d /\ hp[d].kind = "object"
         /\ \A b, i, e : Points(hp, b, i, e) => Points(hp2, b, i, e)
<1> DEFINE hp2 == DeepCopied(hp, c)
           n   == Len(hp)
           old == Copied(hp, c)
<1>1. /\ hp2 \in Seq(CellType) /\ Len(hp2) = n + n /\ n \in Nat
      /\ \A d \in 1..n : hp2[d] = hp[d] /\ hp2[n + d] = NewCell(hp, c, d)
  BY CopyCells, CellFacts DEF Sound
<1>2. /\ c \in old /\ old \subseteq 1..n
      /\ \A b \in old : \A i, e :
              /\ Points(hp, b, i, e) /\ hp[b].kind # "pointer"
              /\ hp[e].kind \in {"array", "pointer"}
              => e \in old
  BY CopiedFacts
<1> HIDE DEF hp2, n, old
<1>3. /\ \A b \in 1..(n + n) : b \in 1..n \/ \E x \in 1..n : b = n + x
      /\ \A x \in 1..n : x \in 1..(n + n) /\ n + x \in 1..(n + n) /\ n + x \notin 1..n
      /\ \A x \in 1..n, y \in 1..n : n + x = n + y <=> x = y
  BY <1>1, Halves
<1>4. ASSUME NEW b, NEW i, NEW e, Points(hp, b, i, e) PROVE Points(hp2, b, i, e)
  BY <1>1, <1>3, <1>4 DEF Points, n
<1>5. ASSUME NEW b \in 1..n, NEW i, NEW e, Points(hp2, b, i, e) PROVE Points(hp, b, i, e)
  BY <1>1, <1>5 DEF Points, n
<1>6. ASSUME NEW x \in 1..n, NEW i, NEW e, Points(hp2, n + x, i, e)
      PROVE  x \in old /\ hp[x].kind # "pointer" /\
             \E d : /\ Points(hp, x, i, d)
                    /\ \/ d \in old /\ e = n + d
                       \/ d \notin old /\ e = d /\ hp[d].kind = "object"
  <2>1. i \in DOMAIN NewCell(hp, c, x).at /\ NewCell(hp, c, x).at[i] = Ref(e)
    BY <1>1, <1>6 DEF Points
  <2>2. x \in old
    <3> SUFFICES ASSUME x \notin old PROVE FALSE
      OBVIOUS
    <3>1. NewCell(hp, c, x) = Cell("unused", <<>>)
      BY DEF NewCell, old
    <3>2. DOMAIN NewCell(hp, c, x).at = {}
      BY <3>1 DEF Cell
    <3> QED
      BY <2>1, <3>2
  <2>3. hp[x].kind # "pointer"
    <3> SUFFICES ASSUME hp[x].kind = "pointer" PROVE FALSE
      OBVIOUS
    <3>1. NewCell(hp, c, x) = Cell("pointer", [j \in {1} |-> Zero])
      BY <2>2 DEF NewCell, old
    <3>2. NewCell(hp, c, x).at[i] = Zero
      BY <2>1, <3>1 DEF Cell
    <3> QED
      BY <2>1, <3>2 DEF Zero, Leaf, Ref
  <2>4. NewCell(hp, c, x) = Cell(hp[x].kind, [j \in DOMAIN hp[x].at |-> Moved(hp, c, hp[x].at[j])])
    BY <2>2, <2>3 DEF NewCell, old
  <2>5. i \in DOMAIN hp[x].at /\ Moved(hp, c, hp[x].at[i]) = Ref(e)
    BY <2>1, <2>4 DEF Cell
  <2>6. PICK v : v = hp[x].at[i]
    OBVIOUS
  <2>7. v.kind = "ref" /\ v = Ref(v.of)
    <3>1. hp \in Seq(CellType) /\ x \in 1..Len(hp)
      BY DEF Sound, n
    <3>2. \/ hp[x].at[i].kind = "ref" /\ hp[x].at[i] = Ref(hp[x].at[i].of)
          \/ hp[x].at[i].kind # "ref" /\ IsLeaf(hp[x].at[i])
      BY <2>5, <3>1, CellFacts
    <3>3. v.kind # "ref" => v = Ref(e)
      BY <2>5, <2>6 DEF Moved
    <3> QED
      BY <2>6, <3>2, <3>3 DEF Ref
  <2>8. Points(hp, x, i, v.of)
    BY <2>5, <2>6, <2>7 DEF Points, n
  <2>9. CASE v.of \in old
    <3>1. Ref(n + v.of) = Ref(e)
      BY <2>5, <2>6, <2>7, <2>9 DEF Moved, old, n
    <3>2. e = n + v.of
      BY <3>1 DEF Ref
    <3> QED
      BY <2>2, <2>3, <2>8, <2>9, <3>2
  <2>10. CASE v.of \notin old
    <3>1. v = Ref(e)
      BY <2>5, <2>6, <2>7, <2>10 DEF Moved, old
    <3>2. e = v.of
      BY <2>7, <3>1 DEF Ref
    <3>3. hp[e].kind \in CellKind
      <4>1. e \in 1..Len(hp) /\ hp[e].kind # "unused" /\ hp \in Seq(CellType)
        BY <2>8, <3>2 DEF Sound
      <4> QED
        BY <4>1, CellFacts, CellShape
    <3>4. hp[e].kind = "object"
      BY <1>2, <2>2, <2>3, <2>8, <2>10, <3>2, <3>3 DEF CellKind
    <3> QED
      BY <2>2, <2>3, <2>8, <2>10, <3>2, <3>4
  <2> QED
    BY <2>9, <2>10
<1>7. ASSUME NEW b, NEW i, NEW e, Points(hp2, b, i, e)
      PROVE  \/ Points(hp, b, i, e)
             \/ \E x \in old : \E d :
                  /\ b = n + x /\ hp[x].kind # "pointer" /\ Points(hp, x, i, d)
                  /\ \/ d \in old /\ e = n + d
                     \/ d \notin old /\ e = d /\ hp[d].kind = "object"
  <2>1. b \in 1..(n + n)
    BY <1>1, <1>7 DEF Points
  <2>2. CASE b \in 1..n
    BY <1>5, <1>7, <2>2
  <2>3. CASE \E x \in 1..n : b = n + x
    BY <1>6, <1>7, <2>3
  <2> QED
    BY <1>3, <2>1, <2>2, <2>3
<1> QED
  BY <1>4, <1>7 DEF hp2, n, old

LEMMA NewCellFacts ==
  ASSUME NEW hp, Sound(hp), NEW c \in 1..Len(hp), hp[c].kind = "object",
         NEW d \in Copied(hp, c)
  PROVE  /\ d \in 1..Len(hp)
         /\ hp[d].kind # "unused" /\ NewCell(hp, c, d).kind = hp[d].kind
         /\ hp[d].kind # "pointer" =>
              /\ DOMAIN NewCell(hp, c, d).at = DOMAIN hp[d].at
              /\ \A i \in DOMAIN hp[d].at : NewCell(hp, c, d).at[i] = Moved(hp, c, hp[d].at[i])
         /\ hp[d].kind = "pointer" => NewCell(hp, c, d).at = [i \in {1} |-> Zero]
<1>1. d \in 1..Len(hp) /\ hp[d].kind \in {"array", "pointer", "object"}
  BY CopiedFacts
<1>2. CASE hp[d].kind = "pointer"
  BY <1>1, <1>2 DEF NewCell, Cell
<1>3. CASE hp[d].kind # "pointer"
  BY <1>1, <1>3 DEF NewCell, Cell
<1> QED
  BY <1>1, <1>2, <1>3

\* A copy makes no chain longer, and no reference dangle.
LEMMA CopySound ==
  ASSUME NEW hp, Sound(hp), NEW c \in 1..Len(hp), hp[c].kind = "object"
  PROVE  Sound(DeepCopied(hp, c))
<1> DEFINE hp2 == DeepCopied(hp, c)
           n   == Len(hp)
           old == Copied(hp, c)
           From(b, x) == (b = x /\ x \in 1..n) \/ (b = n + x /\ x \in old)
<1>1. /\ hp2 \in Seq(CellType) /\ Len(hp2) = n + n /\ n \in Nat
      /\ \A d \in 1..n : hp2[d] = hp[d] /\ hp2[n + d] = NewCell(hp, c, d)
  BY CopyCells, CellFacts DEF Sound
<1>2. /\ \A b, i, e : Points(hp2, b, i, e) =>
           \/ Points(hp, b, i, e)
           \/ \E x \in old : \E d :
                /\ b = n + x /\ hp[x].kind # "pointer" /\ Points(hp, x, i, d)
                /\ \/ d \in old /\ e = n + d
                   \/ d \notin old /\ e = d /\ hp[d].kind = "object"
      /\ \A b, i, e : Points(hp, b, i, e) => Points(hp2, b, i, e)
  BY CopyPoints
<1>3. \A b, i, e : Points(hp, b, i, e) => b \in 1..n /\ e \in 1..n /\ hp[e].kind # "unused"
  BY DEF Sound, Points
<1>4. old \subseteq 1..n
  BY CopiedFacts
<1>5. \A d \in old : NewCell(hp, c, d).kind = hp[d].kind /\ hp[d].kind # "unused"
  BY NewCellFacts
<1>7. \A c1 \in 1..n : hp[c1].kind = "pointer" =>
        DOMAIN hp[c1].at = {1} /\ IsLeaf(hp[c1].at[1])
  BY DEF Sound
<1>8. \A c1, i, d, j, e : Points(hp, c1, i, d) /\ Points(hp, d, j, e) =>
        \A k, f : ~Points(hp, e, k, f)
  BY DEF Sound
<1> HIDE DEF hp2, n, old
<1>6. /\ \A b \in 1..(n + n) : b \in 1..n \/ \E x \in 1..n : b = n + x
      /\ \A x \in 1..n : x \in 1..(n + n) /\ n + x \in 1..(n + n) /\ n + x \notin 1..n
      /\ \A x \in 1..n, y \in 1..n : n + x = n + y <=> x = y
  BY <1>1, Halves
<1>9. ASSUME NEW b, NEW i, NEW e, Points(hp2, b, i, e)
      PROVE  e \in 1..(n + n) /\ hp2[e].kind # "unused"
  BY <1>1, <1>2, <1>3, <1>4, <1>5, <1>6, <1>9
<1>10. ASSUME NEW b, NEW i, NEW e, Points(hp2, b, i, e), NEW x, From(b, x)
       PROVE  \E y : Points(hp, x, i, y) /\ From(e, y)
  <2>1. CASE b = x /\ x \in 1..n
    <3>1. Points(hp, b, i, e)
      BY <1>2, <1>4, <1>6, <1>10, <2>1
    <3> QED
      BY <1>3, <2>1, <3>1
  <2>2. CASE b = n + x /\ x \in old
    <3>1. ~Points(hp, b, i, e)
      BY <1>3, <1>4, <1>6, <2>2
    <3>2. PICK z, d :
                /\ z \in old /\ b = n + z /\ Points(hp, z, i, d)
                /\ \/ d \in old /\ e = n + d
                   \/ d \notin old /\ e = d
      BY <1>2, <1>10, <3>1
    <3>3. z = x
      BY <1>4, <1>6, <2>2, <3>2
    <3> QED
      BY <1>3, <3>2, <3>3
  <2> QED
    BY <1>10, <2>1, <2>2
<1>11. ASSUME NEW b, NEW i, NEW e, Points(hp2, b, i, e)
       PROVE  \E x : From(b, x)
  BY <1>2, <1>3, <1>11
<1>12. ASSUME NEW b, NEW i, NEW d, NEW j, NEW e, NEW k, NEW f,
              Points(hp2, b, i, d), Points(hp2, d, j, e), Points(hp2, e, k, f)
       PROVE  FALSE
  <2> HIDE DEF From
  <2>1. PICK x : From(b, x)
    BY <1>11, <1>12
  <2>2. PICK y : Points(hp, x, i, y) /\ From(d, y)
    BY <1>10, <1>12, <2>1
  <2>3. PICK z : Points(hp, y, j, z) /\ From(e, z)
    BY <1>10, <1>12, <2>2
  <2>4. PICK w : Points(hp, z, k, w)
    BY <1>10, <1>12, <2>3
  <2> QED
    BY <1>8, <2>2, <2>3, <2>4
<1>13. ASSUME NEW b \in 1..(n + n), hp2[b].kind = "pointer"
       PROVE  DOMAIN hp2[b].at = {1} /\ IsLeaf(hp2[b].at[1])
  <2>1. CASE b \in 1..n
    BY <1>1, <1>7, <1>13, <2>1
  <2>2. ASSUME NEW x \in 1..n, b = n + x PROVE DOMAIN hp2[b].at = {1} /\ IsLeaf(hp2[b].at[1])
    <3>1. hp2[b] = NewCell(hp, c, x)
      BY <1>1, <2>2
    <3>2. x \in old
      <4> SUFFICES ASSUME x \notin old PROVE FALSE
        OBVIOUS
      <4>1. hp2[b].kind = "unused"
        BY <3>1 DEF NewCell, Cell, old
      <4> QED
        BY <1>13, <4>1
    <3>3. hp[x].kind = "pointer"
      BY <1>5, <1>13, <3>1, <3>2
    <3>4. hp2[b].at = [i \in {1} |-> Zero]
      BY <3>1, <3>2, <3>3, NewCellFacts DEF old
    <3> QED
      BY <3>4 DEF Zero, Leaf, IsLeaf, LeafKind
  <2> QED
    BY <1>6, <2>1, <2>2
<1> QED
  BY <1>1, <1>9, <1>12, <1>13 DEF Sound, hp2

\* The test's variables have objects of their own, that nothing refers to.  But
\* for objects below these, a cell has one reference; one that was lent may
\* have one from each of several variables' objects.
TopOf(ob, c) == \E h \in Handle : ob[h] = c

Owned(hp, ob, le) ==
  /\ ob \in [Handle -> 0..Len(hp)]
  /\ le \subseteq 1..Len(hp)
  /\ \A h \in Handle : ob[h] # 0 => hp[ob[h]].kind = "object"
  /\ \A h \in Handle : ob[h] # 0 => \A c, i : ~Points(hp, c, i, ob[h])
  /\ \A g, h \in Handle : ob[g] = ob[h] /\ ob[g] # 0 => g = h
  /\ \A c, i, b, j, d : Points(hp, c, i, d) /\ Points(hp, b, j, d) /\ hp[d].kind # "object" =>
       \/ c = b /\ i = j
       \/ d \in le /\ c # b /\ TopOf(ob, c) /\ TopOf(ob, b)

\* A copy has cells of its own, but for the objects that it shares.
LEMMA CopyOwned ==
  ASSUME NEW hp, Sound(hp), NEW ob, NEW le, Owned(hp, ob, le),
         NEW h \in Handle, ob[h] # 0, NEW g \in Handle, ob[g] = 0
  PROVE  Owned(DeepCopied(hp, ob[h]), [ob EXCEPT ![g] = CopyOf(hp, ob[h])], le)
<1> DEFINE c   == ob[h]
           hp2 == DeepCopied(hp, c)
           n   == Len(hp)
           old == Copied(hp, c)
           ob2 == [ob EXCEPT ![g] = CopyOf(hp, c)]
<1>0. /\ ob \in [Handle -> 0..n] /\ le \subseteq 1..n /\ n \in Nat /\ c \in 1..n
      /\ hp[c].kind = "object"
  BY CellFacts DEF Sound, Owned
<1>1. /\ Len(hp2) = n + n
      /\ \A d \in 1..n : hp2[d] = hp[d] /\ hp2[n + d] = NewCell(hp, c, d)
  BY CopyCells
<1>2. \A b, i, e : Points(hp2, b, i, e) =>
           \/ Points(hp, b, i, e)
           \/ \E x \in old : \E d :
                /\ b = n + x /\ hp[x].kind # "pointer" /\ Points(hp, x, i, d)
                /\ \/ d \in old /\ e = n + d
                   \/ d \notin old /\ e = d /\ hp[d].kind = "object"
  BY <1>0, CopyPoints
<1>3. \A b, i, e : Points(hp, b, i, e) => b \in 1..n /\ e \in 1..n
  BY DEF Sound, Points
<1>4. /\ c \in old /\ old \subseteq 1..n
      /\ \A e \in old \ {c} : hp[e].kind # "object" /\ \E b \in old, i \in Key : Points(hp, b, i, e)
  BY <1>0, CopiedFacts
<1>5. NewCell(hp, c, c).kind = "object"
  BY <1>0, <1>4, NewCellFacts
<1>6. ob2[g] = n + c /\ \A f \in Handle \ {g} : ob2[f] = ob[f]
  BY <1>0 DEF CopyOf
<1>7. /\ \A f \in Handle : ob[f] # 0 => \A b, i : ~Points(hp, b, i, ob[f])
      /\ \A b, i : ~Points(hp, b, i, c)
      /\ \A f \in Handle : ob[f] # 0 => hp[ob[f]].kind = "object"
      /\ \A f, e \in Handle : ob[f] = ob[e] /\ ob[f] # 0 => f = e
  BY DEF Owned
<1>8. \A b, i, x, j, d : Points(hp, b, i, d) /\ Points(hp, x, j, d) /\ hp[d].kind # "object" =>
        \/ b = x /\ i = j
        \/ d \in le /\ b # x /\ TopOf(ob, b) /\ TopOf(ob, x)
  BY DEF Owned
<1> HIDE DEF c, hp2, n, old, ob2
<1>9. /\ \A x \in 1..n : /\ x \in 1..(n + n) /\ n + x \in 1..(n + n)
                         /\ n + x \notin 1..n /\ n + x # 0
      /\ \A x \in 1..n, y \in 1..n : n + x = n + y <=> x = y
  BY <1>0, Halves
<1>a. ASSUME NEW b, NEW i, NEW e \in 1..n, Points(hp2, b, i, e)
      PROVE  \/ Points(hp, b, i, e)
             \/ hp[e].kind = "object" /\ \E x : Points(hp, x, i, e)
  <2> SUFFICES ASSUME ~Points(hp, b, i, e)
               PROVE  hp[e].kind = "object" /\ \E x : Points(hp, x, i, e)
    OBVIOUS
  <2>1. PICK x, d :
                /\ x \in old /\ Points(hp, x, i, d)
                /\ \/ d \in old /\ e = n + d
                   \/ e = d /\ hp[d].kind = "object"
    BY <1>2, <1>a
  <2>2. e # n + d \/ d \notin old
    BY <1>4, <1>9
  <2> QED
    BY <2>1, <2>2
<1>10. ob2 \in [Handle -> 0..(n + n)] /\ le \subseteq 1..(n + n)
  <2>1. ob2 = [ob EXCEPT ![g] = n + c]
    BY DEF ob2, CopyOf, n
  <2> QED
    BY <1>0, <2>1
<1>11. ASSUME NEW f \in Handle, ob2[f] # 0
       PROVE  hp2[ob2[f]].kind = "object" /\ \A b, i : ~Points(hp2, b, i, ob2[f])
  <2>1. CASE f = g
    <3>1. hp2[n + c].kind = "object"
      BY <1>0, <1>1, <1>5
    <3>2. ASSUME NEW b, NEW i, Points(hp2, b, i, n + c) PROVE FALSE
      <4>1. ~Points(hp, b, i, n + c)
        BY <1>0, <1>3, <1>9
      <4>2. PICK x, d : x \in old /\ Points(hp, x, i, d) /\ (n + c = n + d \/ n + c = d)
        BY <1>2, <3>2, <4>1
      <4>3. d \in 1..n
        BY <1>3, <4>2
      <4> QED
        BY <1>0, <1>7, <1>9, <4>2, <4>3
    <3> QED
      BY <1>6, <2>1, <3>1, <3>2
  <2>2. CASE f # g
    <3>1. ob2[f] = ob[f] /\ ob[f] \in 1..n
      BY <1>0, <1>6, <1>11, <2>2
    <3>2. ASSUME NEW b, NEW i, Points(hp2, b, i, ob[f]) PROVE FALSE
      <4>1. ~Points(hp, b, i, ob[f]) /\ \A x : ~Points(hp, x, i, ob[f])
        BY <1>7, <1>11, <3>1
      <4> QED
        BY <1>a, <3>1, <3>2, <4>1
    <3> QED
      BY <1>1, <1>7, <1>11, <3>1, <3>2
  <2> QED
    BY <2>1, <2>2
<1>12. ASSUME NEW e \in Handle, NEW f \in Handle, ob2[e] = ob2[f], ob2[e] # 0 PROVE e = f
  <2>1. \A x \in Handle : ob[x] # n + c
    BY <1>0, <1>9
  <2> QED
    BY <1>6, <1>7, <1>12, <2>1
<1>13. \A x \in 1..n : TopOf(ob, x) => TopOf(ob2, x)
  BY <1>6 DEF TopOf
<1>14. \A x \in old : TopOf(ob, x) => x = c
  BY <1>4, <1>7 DEF TopOf
<1>15. ASSUME NEW b, NEW i, NEW x, NEW j, NEW e,
              Points(hp2, b, i, e), Points(hp2, x, j, e), hp2[e].kind # "object"
       PROVE  \/ b = x /\ i = j
              \/ e \in le /\ b # x /\ TopOf(ob2, b) /\ TopOf(ob2, x)
  <2>1. CASE e \in 1..n
    <3>1. Points(hp, b, i, e)
      BY <1>1, <1>a, <1>15, <2>1
    <3>2. Points(hp, x, j, e)
      BY <1>1, <1>a, <1>15, <2>1
    <3>3. hp[e].kind # "object" /\ b \in 1..n /\ x \in 1..n
      BY <1>1, <1>3, <1>15, <2>1, <3>1, <3>2
    <3> QED
      BY <1>8, <1>13, <3>1, <3>2, <3>3
  <2>2. CASE e \notin 1..n
    <3>1. PICK y \in old, d \in old : b = n + y /\ Points(hp, y, i, d) /\ e = n + d
      BY <1>2, <1>3, <1>15, <2>2
    <3>2. PICK z \in old, f \in old : x = n + z /\ Points(hp, z, j, f) /\ e = n + f
      BY <1>2, <1>3, <1>15, <2>2
    <3>3. d = f
      BY <1>4, <1>9, <3>1, <3>2
    <3>4. d # c /\ hp[d].kind # "object"
      BY <1>4, <1>7, <3>1
    <3>5. y = z /\ i = j
      BY <1>8, <1>14, <3>1, <3>2, <3>3, <3>4
    <3> QED
      BY <3>1, <3>2, <3>5
  <2> QED
    BY <2>1, <2>2
<1> QED
  <2>1. Owned(hp2, ob2, le)
    BY <1>1, <1>10, <1>11, <1>12, <1>15 DEF Owned
  <2> QED
    BY <2>1 DEF hp2, ob2, c

\* What MeantIsHeld says of one path, of an object c that was meant to hold m.
Safe(hp, c, le, p) ==
  \A k \in 1..(Len(p) - 1) : LET v == Down(hp, c, p, k) IN
    v.kind = "ref" => hp[v.of].kind # "object" /\ v.of \notin le

Behind(hp, c, p) ==
  \E k \in 1..(Len(p) - 1) : LET v == Down(hp, c, p, k) IN
    v.kind = "ref" /\ hp[v.of].kind = "pointer"

Keeps(hp, c, le, m, p) ==
  Safe(hp, c, le, p) =>
    /\ p \in DOMAIN m <=> IsLeaf(At(hp, c, p))
    /\ p \in DOMAIN m => \/ At(hp, c, p) = m[p]
                         \/ Behind(hp, c, p) /\ At(hp, c, p) = Zero

\* What holds along a path goes on to hold if the path is left alone.
LEMMA KeepsFrame ==
  ASSUME NEW hp, Sound(hp), NEW c \in 1..Len(hp), NEW hp2, NEW c2, NEW t,
         SameBut(hp, hp2, t),
         NEW p \in Path, Step(hp2, Ref(c2), p[1]) = Step(hp, Ref(c), p[1]),
         NEW le, NEW le2, le \subseteq le2,
         NEW m, NEW m2, p \in DOMAIN m2 <=> p \in DOMAIN m,
         p \in DOMAIN m => m2[p] = m[p],
         Keeps(hp, c, le, m, p)
  PROVE  Keeps(hp2, c2, le2, m2, p)
<1>0. Len(p) \in {1, 2, 3} /\ Len(p) \in 1..Len(p)
  BY PathFacts
<1>1. \A k \in 1..Len(p) : Down(hp2, c2, p, k) = Down(hp, c, p, k)
  BY DownSame
<1>2. At(hp2, c2, p) = At(hp, c, p)
  BY <1>0, <1>1 DEF At
<1>3. ASSUME NEW k \in 1..(Len(p) - 1)
      PROVE  /\ Down(hp2, c2, p, k) = Down(hp, c, p, k)
             /\ Down(hp, c, p, k).kind = "ref" =>
                  hp2[Down(hp, c, p, k).of] = hp[Down(hp, c, p, k).of]
  <2>1. k \in 1..Len(p) /\ k \in {1, 2}
    BY PathFacts
  <2>2. PICK v : v = Down(hp, c, p, k)
    OBVIOUS
  <2>3. v.kind = "ref" => v.of \in 1..Len(hp) /\ \E b, i : Points(hp, b, i, v.of)
    BY <2>1, <2>2, DownFacts
  <2>4. v.kind = "ref" => v.of \in 1..Len(hp) \ {t}
    BY <2>3 DEF SameBut
  <2> QED
    BY <1>1, <2>1, <2>2, <2>4 DEF SameBut
<1>4. Safe(hp2, c2, le2, p) => Safe(hp, c, le, p)
  BY <1>3 DEF Safe
<1>5. Behind(hp, c, p) => Behind(hp2, c2, p)
  BY <1>3 DEF Behind
<1> QED
  BY <1>2, <1>4, <1>5 DEF Keeps

\* One step from a copy, and from what it was copied from.
LEMMA CopyStep ==
  ASSUME NEW hp, Sound(hp), NEW c \in 1..Len(hp), hp[c].kind = "object",
         NEW e \in Copied(hp, c), NEW i
  PROVE  LET w == Step(DeepCopied(hp, c), Ref(Len(hp) + e), i)
             v == Step(hp, Ref(e), i)
         IN
         /\ hp[e].kind # "pointer" => w = Moved(hp, c, v)
         /\ hp[e].kind = "pointer" => \/ w = Zero /\ IsLeaf(v)
                                      \/ w = Nowhere /\ v = Nowhere
<1>1. /\ Ref(e).kind = "ref" /\ Ref(e).of = e
      /\ Ref(Len(hp) + e).kind = "ref" /\ Ref(Len(hp) + e).of = Len(hp) + e
      /\ Moved(hp, c, Nowhere) = Nowhere
  BY DEF Ref, Moved, Nowhere, Leaf
<1>2. e \in 1..Len(hp) /\ DeepCopied(hp, c)[Len(hp) + e] = NewCell(hp, c, e)
  BY CopyCells, CopiedFacts
<1>3. CASE hp[e].kind # "pointer"
  <2>1. /\ DOMAIN NewCell(hp, c, e).at = DOMAIN hp[e].at
        /\ \A j \in DOMAIN hp[e].at : NewCell(hp, c, e).at[j] = Moved(hp, c, hp[e].at[j])
    BY <1>3, NewCellFacts
  <2> QED
    BY <1>1, <1>2, <1>3, <2>1 DEF Step
<1>4. CASE hp[e].kind = "pointer"
  <2>1. NewCell(hp, c, e).at = [j \in {1} |-> Zero]
    BY <1>4, NewCellFacts
  <2>2. DOMAIN hp[e].at = {1} /\ IsLeaf(hp[e].at[1])
    BY <1>2, <1>4 DEF Sound
  <2> QED
    BY <1>1, <1>2, <1>4, <2>1, <2>2 DEF Step
<1> QED
  BY <1>3, <1>4

\* A copy reads like the original, but that there may be zero behind pointers.
LEMMA CopyKeeps ==
  ASSUME NEW hp, Sound(hp), NEW c \in 1..Len(hp), hp[c].kind = "object",
         NEW le, NEW p \in Path
  PROVE  Keeps(DeepCopied(hp, c), CopyOf(hp, c), le, Reads(hp, c), p)
<1> DEFINE hp2 == DeepCopied(hp, c)
           n   == Len(hp)
           old == Copied(hp, c)
           v(k) == Down(hp, c, p, k)
           w(k) == Down(hp2, n + c, p, k)
           Like(k) == w(k) = Moved(hp, c, v(k))
           Reset(k) == /\ w(k) = Zero /\ IsLeaf(v(k))
                       /\ \E l \in 1..(k - 1) : w(l).kind = "ref" /\ hp2[w(l).of].kind = "pointer"
           Passed(k) == w(k).kind = "ref" => hp2[w(k).of].kind # "object"
<1>0. Len(p) \in {1, 2, 3}
  BY PathFacts
<1>1. c \in old /\ old \subseteq 1..n
  BY CopiedFacts
<1>2. /\ \A d \in 1..n : hp2[d] = hp[d] /\ hp2[n + d] = NewCell(hp, c, d)
      /\ \A d \in old : hp2[n + d].kind = hp[d].kind
  BY <1>1, CopyCells, NewCellFacts
<1>3. \A e \in old : \A i :
        /\ hp[e].kind # "pointer" =>
             Step(hp2, Ref(n + e), i) = Moved(hp, c, Step(hp, Ref(e), i))
        /\ hp[e].kind = "pointer" =>
             \/ Step(hp2, Ref(n + e), i) = Zero /\ IsLeaf(Step(hp, Ref(e), i))
             \/ Step(hp2, Ref(n + e), i) = Nowhere /\ Step(hp, Ref(e), i) = Nowhere
  BY CopyStep
<1>4. /\ w(1) = Step(hp2, Ref(n + c), p[1]) /\ v(1) = Step(hp, Ref(c), p[1])
      /\ w(2) = Step(hp2, w(1), p[2]) /\ v(2) = Step(hp, v(1), p[2])
      /\ w(3) = Step(hp2, w(2), p[3]) /\ v(3) = Step(hp, v(2), p[3])
  BY DownSteps
<1>5. /\ v(1).kind = "ref" => v(1) = Ref(v(1).of) /\ Points(hp, c, p[1], v(1).of)
      /\ v(2).kind = "ref" => v(2) = Ref(v(2).of) /\ Points(hp, v(1).of, p[2], v(2).of)
  <2>1. /\ Ref(c).kind = "ref" /\ Ref(c).of = c /\ Nowhere.kind # "ref"
        /\ \A x : IsLeaf(x) => x.kind # "ref"
    BY DEF Ref, Nowhere, Leaf, IsLeaf, LeafKind
  <2>2. /\ v(1).kind = "ref" => v(1) = Ref(v(1).of) /\ Points(hp, c, p[1], v(1).of)
                                /\ v(1).of \in 1..Len(hp)
    BY <1>4, <2>1, StepFacts
  <2>3. v(2).kind = "ref" => v(2) = Ref(v(2).of) /\ Points(hp, v(1).of, p[2], v(2).of)
    BY <1>4, <2>1, <2>2, StepFacts
  <2> QED
    BY <2>2, <2>3
<1>6. /\ \A b \in old : \A i, e :
              /\ Points(hp, b, i, e) /\ hp[b].kind # "pointer"
              /\ hp[e].kind \in {"array", "pointer"}
              => e \in old
      /\ \A b, i, e : Points(hp, b, i, e) => e \in 1..n /\ hp[e].kind \in CellKind
  <2>1. \A b, i, e : Points(hp, b, i, e) => e \in 1..n /\ hp[e].kind # "unused" /\ hp \in Seq(CellType)
    BY DEF Sound
  <2> QED
    BY <2>1, CopiedFacts, CellFacts, CellShape
<1> HIDE DEF hp2, n, old, v, w
<1>7. Like(1)
  BY <1>1, <1>3, <1>4
<1>8. ASSUME NEW x, x.kind = "ref" => x = Ref(x.of) /\ x.of \in old, NEW i
      PROVE  LET y == Moved(hp, c, x) IN
             \/ Step(hp2, y, i) = Moved(hp, c, Step(hp, x, i))
             \/ /\ Step(hp2, y, i) = Zero /\ IsLeaf(Step(hp, x, i))
                /\ y.kind = "ref" /\ hp2[y.of].kind = "pointer"
  <2>1. CASE x.kind # "ref"
    <3>1. Moved(hp, c, x) = x /\ Step(hp, x, i) = Nowhere /\ Step(hp2, x, i) = Nowhere
      BY <2>1 DEF Moved, Step
    <3>2. Moved(hp, c, Nowhere) = Nowhere
      BY DEF Moved, Nowhere, Leaf
    <3> QED
      BY <3>1, <3>2
  <2>2. CASE x.kind = "ref"
    <3>1. PICK e \in old : x = Ref(e)
      BY <1>8, <2>2
    <3>2. Moved(hp, c, x) = Ref(n + e)
      BY <3>1 DEF Moved, Ref, old, n
    <3>3. Ref(n + e).kind = "ref" /\ Ref(n + e).of = n + e
      BY DEF Ref
    <3>4. Moved(hp, c, Nowhere) = Nowhere
      BY DEF Moved, Nowhere, Leaf
    <3> QED
      BY <1>2, <1>3, <3>1, <3>2, <3>3, <3>4
  <2> QED
    BY <2>1, <2>2
<1>9. ASSUME NEW e \in 1..n, e \notin old, hp[e].kind = "object"
      PROVE  Moved(hp, c, Ref(e)) = Ref(e) /\ hp2[Ref(e).of].kind = "object" /\ Ref(e).kind = "ref"
  BY <1>2, <1>9 DEF Moved, Ref, old
<1>10. ASSUME Passed(1) PROVE v(1).kind = "ref" => v(1).of \in old
  <2>1. v(1).kind = "ref" /\ v(1).of \notin old =>
          v(1).of \in 1..n /\ hp[v(1).of].kind = "object"
    BY <1>1, <1>5, <1>6 DEF CellKind
  <2> QED
    BY <1>5, <1>7, <1>9, <1>10, <2>1
<1>11. ASSUME Passed(1) PROVE Like(2) \/ Reset(2)
  <2>1. 1 \in 1..(2 - 1)
    OBVIOUS
  <2> QED
    BY <1>4, <1>5, <1>7, <1>8, <1>10, <1>11, <2>1
<1>12. ASSUME Passed(1), Passed(2), Like(2) PROVE v(2).kind = "ref" => v(2).of \in old
  <2> SUFFICES ASSUME v(2).kind = "ref", v(2).of \notin old PROVE FALSE
    OBVIOUS
  <2>1. v(1).kind = "ref" /\ Points(hp, v(1).of, p[2], v(2).of)
    <3>1. v(2) # Nowhere
      BY DEF Nowhere, Leaf
    <3> QED
      BY <1>4, <1>5, <3>1 DEF Step
  <2>2. hp[v(1).of].kind # "pointer"
    <3>1. ~IsLeaf(Ref(v(2).of))
      BY DEF Ref, IsLeaf, LeafKind
    <3> QED
      BY <2>1, <3>1 DEF Sound, Points
  <2>3. v(2).of \in 1..n /\ hp[v(2).of].kind = "object"
    BY <1>6, <1>10, <1>12, <2>1, <2>2 DEF CellKind
  <2> QED
    BY <1>5, <1>9, <1>12, <2>3
<1>13. ASSUME Passed(1), Passed(2) PROVE Like(3) \/ Reset(3)
  <2>1. CASE Like(2)
    <3>1. 2 \in 1..(3 - 1)
      OBVIOUS
    <3> QED
      BY <1>4, <1>5, <1>8, <1>12, <1>13, <2>1, <3>1
  <2>2. CASE Reset(2)
    <3>1. w(2).kind # "ref" /\ v(2).kind # "ref"
      BY <2>2 DEF Zero, Leaf, IsLeaf, LeafKind
    <3>2. w(3) = Nowhere /\ v(3) = Nowhere
      BY <1>4, <3>1 DEF Step
    <3> QED
      BY <3>2 DEF Moved, Nowhere, Leaf
  <2> QED
    BY <1>11, <1>13, <2>1, <2>2
<1>14. ASSUME Safe(hp2, n + c, le, p) PROVE Like(Len(p)) \/ Reset(Len(p))
  <2>1. \A k \in 1..(Len(p) - 1) : Passed(k)
    BY <1>14 DEF Safe, w
  <2>2. CASE Len(p) = 1
    BY <1>7, <2>2
  <2>3. CASE Len(p) = 2
    BY <1>11, <2>1, <2>3
  <2>4. CASE Len(p) = 3
    BY <1>13, <2>1, <2>4
  <2> QED
    BY <1>0, <2>2, <2>3, <2>4
<1>15. At(hp2, n + c, p) = w(Len(p)) /\ At(hp, c, p) = v(Len(p))
  BY DEF At, w, v
<1>16. /\ p \in DOMAIN Reads(hp, c) <=> IsLeaf(v(Len(p)))
       /\ p \in DOMAIN Reads(hp, c) => Reads(hp, c)[p] = v(Len(p))
  BY <1>15 DEF Reads
<1>17. ASSUME Like(Len(p)) PROVE /\ IsLeaf(w(Len(p))) <=> IsLeaf(v(Len(p)))
                                 /\ IsLeaf(v(Len(p))) => w(Len(p)) = v(Len(p))
  BY <1>17 DEF Moved, IsLeaf, LeafKind, Ref
<1>18. ASSUME Reset(Len(p)) PROVE IsLeaf(w(Len(p))) /\ Behind(hp2, n + c, p)
  BY <1>18 DEF Behind, w, Zero, Leaf, IsLeaf, LeafKind
<1>19. Keeps(hp2, n + c, le, Reads(hp, c), p)
  BY <1>14, <1>15, <1>16, <1>17, <1>18 DEF Keeps
<1> QED
  BY <1>19 DEF hp2, n, CopyOf

\* Each variable holds what was meant for it.
Meant(hp, ob, le, me) ==
  /\ DOMAIN me = Handle
  /\ \A h \in Handle :
       /\ DOMAIN me[h] \subseteq Path
       /\ ob[h] # 0 => \A p \in Path : Keeps(hp, ob[h], le, me[h], p)

\* The invariant of the heap.
HeapInv(hp, ob, le, me) == Sound(hp) /\ Owned(hp, ob, le) /\ Meant(hp, ob, le, me)

LEMMA NotZero ==
  ASSUME NEW hp, Sound(hp)
  PROVE  \A b, i : ~Points(hp, b, i, 0)
BY DEF Sound

LEMMA ReadsKeeps ==
  ASSUME NEW hp, NEW c, NEW le, NEW p \in Path
  PROVE  Keeps(hp, c, le, Reads(hp, c), p)
BY DEF Keeps, Reads

\* DeepCopy: the copy is meant to hold what the original does, and holds it.
LEMMA CopyInv ==
  ASSUME NEW hp, NEW ob, NEW le, NEW me, HeapInv(hp, ob, le, me),
         NEW h \in Handle, ob[h] # 0, NEW g \in Handle, ob[g] = 0
  PROVE  HeapInv(DeepCopied(hp, ob[h]), [ob EXCEPT ![g] = CopyOf(hp, ob[h])], le,
                 [me EXCEPT ![g] = Reads(hp, ob[h])])
<1> DEFINE hp2 == DeepCopied(hp, ob[h])
           ob2 == [ob EXCEPT ![g] = CopyOf(hp, ob[h])]
           me2 == [me EXCEPT ![g] = Reads(hp, ob[h])]
<1>0. /\ Sound(hp) /\ Owned(hp, ob, le) /\ Meant(hp, ob, le, me)
      /\ ob \in [Handle -> 0..Len(hp)] /\ ob[h] \in 1..Len(hp) /\ hp[ob[h]].kind = "object"
      /\ hp \in Seq(CellType) /\ Len(hp) \in Nat
  BY CellFacts DEF HeapInv, Owned, Sound
<1>1. Sound(hp2) /\ Owned(hp2, ob2, le)
  BY <1>0, CopySound, CopyOwned
<1>2. \A d \in 1..Len(hp) : hp2[d] = hp[d]
  BY <1>0, CopyCells
<1>3. /\ ob2[g] = CopyOf(hp, ob[h]) /\ \A f \in Handle \ {g} : ob2[f] = ob[f]
      /\ DOMAIN me2 = Handle /\ me2[g] = Reads(hp, ob[h])
      /\ \A f \in Handle \ {g} : me2[f] = me[f]
  BY <1>0 DEF Meant
<1>4. ASSUME NEW f \in Handle
      PROVE  DOMAIN me2[f] \subseteq Path
  <2>1. DOMAIN Reads(hp, ob[h]) \subseteq Path
    BY DEF Reads
  <2> QED
    BY <1>0, <1>3, <2>1 DEF Meant
<1>5. ASSUME NEW f \in Handle, ob2[f] # 0, NEW p \in Path
      PROVE  Keeps(hp2, ob2[f], le, me2[f], p)
  <2>1. CASE f = g
    BY <1>0, <1>3, <2>1, CopyKeeps
  <2>2. CASE f # g
    <3>1. PICK c \in 1..Len(hp) : c = ob[f] /\ ob2[f] = c
      BY <1>0, <1>3, <1>5, <2>2
    <3>2. Keeps(hp, c, le, me[f], p)
      BY <1>0, <3>1 DEF Meant
    <3>3. Step(hp2, Ref(c), p[1]) = Step(hp, Ref(c), p[1])
      BY <1>2 DEF Step, Ref
    <3>4. SameBut(hp, hp2, 0)
      BY <1>0, <1>2, NotZero DEF SameBut
    <3>5. me2[f] = me[f] /\ ob2[f] = c
      BY <1>3, <2>2, <3>1
    <3> HIDE DEF hp2, me2, ob2
    <3>6. Keeps(hp2, c, le, me[f], p)
      BY <1>0, <3>2, <3>3, <3>4, KeepsFrame
    <3> QED
      BY <3>5, <3>6
  <2> QED
    BY <2>1, <2>2
<1> QED
  BY <1>1, <1>3, <1>4, <1>5 DEF HeapInv, Meant

-----------------------------------------------------------------------------
(* Literals under a key *)

LEMMA PathIs ==
  ASSUME NEW p \in Path
  PROVE  /\ Len(p) = 1 => p = <<p[1]>>
         /\ Len(p) = 2 => p = <<p[1], p[2]>>
         /\ Len(p) = 3 => p = <<p[1], p[2], p[3]>>
<1>1. p \in Seq(Key)
  BY PathFacts
<1> QED
  BY <1>1

LEMMA LiteralPaths ==
  ASSUME NEW k \in Key
  PROVE  /\ {<<k>>, <<k, 1>>, <<k, 1, 1>>} \subseteq Path
         /\ Len(<<k>>) = 1 /\ Len(<<k, 1>>) = 2 /\ Len(<<k, 1, 1>>) = 3
         /\ <<k>>[1] = k /\ <<k, 1>>[1] = k /\ <<k, 1, 1>>[1] = k
         /\ <<k, 1>>[2] = 1 /\ <<k, 1, 1>>[2] = 1 /\ <<k, 1, 1>>[3] = 1
<1>1. <<k>> \in [1..1 -> Key] /\ <<k, 1>> \in [1..2 -> Key] /\ <<k, 1, 1>> \in [1..3 -> Key]
  BY ValuesAssumption
<1> QED
  BY <1>1 DEF Path

\* What a literal consists of.
LEMMA LiteralFacts ==
  ASSUME NEW shape \in Shape, NEW x \in Nat, NEW n \in Nat
  PROVE  LET lit  == Literal(shape, x, n)
             leaf == [i \in {1} |-> Leaf("scalar", x)]
         IN
         /\ lit.value \in Held /\ lit.cells \in Seq(CellType)
         /\ shape \in LeafKind => lit.value = Leaf(shape, x) /\ lit.cells = <<>>
         /\ shape \in CellKind => lit.value = Ref(n + 1) /\ lit.cells = <<Cell(shape, leaf)>>
         /\ shape \in {"arrays", "objects"} =>
              /\ lit.value = Ref(n + 1)
              /\ \E kind \in {"array", "object"} :
                   lit.cells = <<Cell("array", [i \in {1} |-> Ref(n + 2)]), Cell(kind, leaf)>>
<1> DEFINE lit  == Literal(shape, x, n)
           leaf == [i \in {1} |-> Leaf("scalar", x)]
           down == [i \in {1} |-> Ref(n + 2)]
<1>1. leaf \in [{1} -> Held] /\ down \in [{1} -> Held] /\ {1} \in SUBSET Key
  BY ValuesAssumption DEF Leaf, Ref, Held, LeafKind
<1>2. \A kind \in CellKind : Cell(kind, leaf) \in CellType /\ Cell(kind, down) \in CellType
  BY <1>1 DEF Cell, CellType
<1>3. CASE shape \in LeafKind
  <2>1. lit = [value |-> Leaf(shape, x), cells |-> <<>>]
    BY <1>3 DEF Literal, LeafKind, CellKind
  <2>2. Leaf(shape, x) \in Held
    BY <1>3 DEF Leaf, Held
  <2> QED
    BY <1>3, <2>1, <2>2 DEF LeafKind, CellKind
<1>4. CASE shape \in CellKind
  <2>1. lit = [value |-> Ref(n + 1), cells |-> <<Cell(shape, leaf)>>]
    BY <1>4 DEF Literal, LeafKind, CellKind
  <2>2. Ref(n + 1) \in Held
    BY DEF Ref, Held
  <2> QED
    BY <1>2, <1>4, <2>1, <2>2 DEF LeafKind, CellKind
<1>5. CASE shape \in {"arrays", "objects"}
  <2>1. \E kind \in {"array", "object"} :
          lit = [value |-> Ref(n + 1), cells |-> <<Cell("array", down), Cell(kind, leaf)>>]
    BY <1>5 DEF Literal, LeafKind, CellKind
  <2>2. Ref(n + 1) \in Held
    BY DEF Ref, Held
  <2> QED
    BY <1>2, <1>5, <2>1, <2>2 DEF LeafKind, CellKind
<1> QED
  BY <1>3, <1>4, <1>5 DEF Shape

\* hp2 is hp with a literal under k of c.
HasLiteral(hp, hp2, c, k, shape, x) ==
  LET n    == Len(hp)
      leaf == [i \in {1} |-> Leaf("scalar", x)]
  IN
  /\ hp2 \in Seq(CellType) /\ Len(hp2) \in {n, n + 1, n + 2}
  /\ \A d \in 1..n \ {c} : hp2[d] = hp[d]
  /\ hp2[c].kind = "object" /\ DOMAIN hp2[c].at = DOMAIN hp[c].at \cup {k}
  /\ \A i \in DOMAIN hp[c].at \ {k} : hp2[c].at[i] = hp[c].at[i]
  /\ shape \in LeafKind => Len(hp2) = n /\ hp2[c].at[k] = Leaf(shape, x)
  /\ shape \in CellKind =>
       /\ Len(hp2) = n + 1 /\ hp2[c].at[k] = Ref(n + 1)
       /\ hp2[n + 1] = Cell(shape, leaf)
  /\ shape \in {"arrays", "objects"} =>
       /\ Len(hp2) = n + 2 /\ hp2[c].at[k] = Ref(n + 1)
       /\ hp2[n + 1] = Cell("array", [i \in {1} |-> Ref(n + 2)])
       /\ \E kind \in {"array", "object"} : hp2[n + 2] = Cell(kind, leaf)

LEMMA WithLiteralCells ==
  ASSUME NEW hp, Sound(hp), NEW c \in 1..Len(hp), hp[c].kind = "object", NEW k \in Key,
         NEW shape \in Shape, NEW x \in Nat
  PROVE  HasLiteral(hp, WithLiteral(hp, c, k, Literal(shape, x, Len(hp))), c, k, shape, x)
<1> DEFINE n    == Len(hp)
           lit  == Literal(shape, x, n)
           leaf == [i \in {1} |-> Leaf("scalar", x)]
           new  == Joined([i \in {k} |-> lit.value], hp[c].at)
           base == [hp EXCEPT ![c] = Cell("object", new)]
           hp2  == WithLiteral(hp, c, k, lit)
<1> SUFFICES HasLiteral(hp, hp2, c, k, shape, x)
  OBVIOUS
<1>0. n \in Nat /\ hp \in Seq(CellType) /\ hp[c] \in CellType
  BY CellFacts DEF Sound
<1>1. /\ lit.value \in Held /\ lit.cells \in Seq(CellType)
      /\ shape \in LeafKind => lit.value = Leaf(shape, x) /\ lit.cells = <<>>
      /\ shape \in CellKind => lit.value = Ref(n + 1) /\ lit.cells = <<Cell(shape, leaf)>>
      /\ shape \in {"arrays", "objects"} =>
           /\ lit.value = Ref(n + 1)
           /\ \E kind \in {"array", "object"} :
                lit.cells = <<Cell("array", [i \in {1} |-> Ref(n + 2)]), Cell(kind, leaf)>>
  BY <1>0, LiteralFacts
<1>2. /\ hp[c] = Cell("object", hp[c].at) /\ DOMAIN hp[c].at \subseteq Key
      /\ hp[c].at \in [DOMAIN hp[c].at -> Held]
  BY <1>0, CellShape
<1> HIDE DEF lit
<1>3. /\ DOMAIN new = DOMAIN hp[c].at \cup {k} /\ new[k] = lit.value
      /\ \A i \in DOMAIN hp[c].at \ {k} : new[i] = hp[c].at[i]
  BY DEF Joined
<1>4. Cell("object", new) \in CellType
  <2>1. new = [i \in DOMAIN hp[c].at \cup {k} |-> IF i = k THEN lit.value ELSE hp[c].at[i]]
    BY DEF Joined
  <2>2. new \in [DOMAIN hp[c].at \cup {k} -> Held] /\ DOMAIN hp[c].at \cup {k} \in SUBSET Key
    BY <1>1, <1>2, <2>1
  <2> HIDE DEF new
  <2> QED
    BY <2>2 DEF Cell, CellType, CellKind
<1>5. [hp EXCEPT ![c].at = Joined([i \in {k} |-> lit.value], @)] = base
  <2>1. [hp EXCEPT ![c].at = Joined([i \in {k} |-> lit.value], @)]
          = [hp EXCEPT ![c] = [hp[c] EXCEPT !.at = new]]
    OBVIOUS
  <2>2. PICK a : hp[c] = [kind |-> "object", at |-> a]
    BY <1>2 DEF Cell
  <2> HIDE DEF new
  <2>3. [hp[c] EXCEPT !.at = new] = [kind |-> "object", at |-> new]
    BY <2>2
  <2> QED
    BY <2>1, <2>3 DEF Cell
<1>6. hp2 = base \o lit.cells
  BY <1>5 DEF WithLiteral
<1> HIDE DEF new
<1>7. /\ base \in Seq(CellType) /\ Len(base) = n
      /\ base[c] = Cell("object", new)
      /\ \A d \in 1..n \ {c} : base[d] = hp[d]
  BY <1>0, <1>4
<1> HIDE DEF base, hp2
<1>8. /\ hp2 \in Seq(CellType)
      /\ Len(hp2) = Len(base) + Len(lit.cells)
      /\ \A i \in 1 .. Len(base) + Len(lit.cells) : hp2[i] =
           IF i <= Len(base) THEN base[i] ELSE lit.cells[i - Len(base)]
  <2>1. base \in Seq(CellType) /\ lit.cells \in Seq(CellType)
    BY <1>1, <1>7
  <2>2. /\ base \o lit.cells \in Seq(CellType)
        /\ Len(base \o lit.cells) = Len(base) + Len(lit.cells)
        /\ \A i \in 1 .. Len(base) + Len(lit.cells) : (base \o lit.cells)[i] =
             IF i <= Len(base) THEN base[i] ELSE lit.cells[i - Len(base)]
    BY <2>1, ConcatProperties, Zenon
  <2> QED
    BY <1>6, <2>2, Zenon
<1>9. Len(lit.cells) \in Nat
  BY <1>1
<1>10. \A d \in 1..n : hp2[d] = base[d]
  <2>1. \A d \in 1..n : d \in 1..(n + Len(lit.cells)) /\ d <= n
    BY <1>0, <1>9
  <2> QED
    BY <1>7, <1>8, <2>1
<1>11. hp2[c].kind = "object" /\ hp2[c].at = new
  BY <1>7, <1>10 DEF Cell
<1>12. \A m \in 1..Len(lit.cells) : hp2[n + m] = lit.cells[m]
  <2> SUFFICES ASSUME NEW m \in 1..Len(lit.cells) PROVE hp2[n + m] = lit.cells[m]
    OBVIOUS
  <2>1. n + m \in 1..(n + Len(lit.cells)) /\ ~(n + m <= n) /\ (n + m) - n = m
    BY <1>0, <1>9
  <2>2. hp2[n + m] = IF n + m <= n THEN base[n + m] ELSE lit.cells[(n + m) - n]
    BY <1>7, <1>8, <2>1, Zenon
  <2> QED
    BY <2>1, <2>2
<1>13. CASE shape \in LeafKind
  <2>1. Len(lit.cells) = 0 /\ lit.value = Leaf(shape, x)
    BY <1>1, <1>13
  <2>2. Len(hp2) = n
    BY <1>0, <1>7, <1>8, <2>1
  <2> QED
    BY <1>3, <1>7, <1>8, <1>10, <1>11, <1>13, <2>1, <2>2 DEF HasLiteral, LeafKind, CellKind
<1>14. CASE shape \in CellKind
  <2>1. Len(lit.cells) = 1 /\ lit.value = Ref(n + 1) /\ lit.cells[1] = Cell(shape, leaf)
    BY <1>1, <1>14
  <2>2. Len(hp2) = n + 1 /\ hp2[n + 1] = Cell(shape, leaf)
    BY <1>0, <1>7, <1>8, <1>12, <2>1
  <2> QED
    BY <1>3, <1>7, <1>8, <1>10, <1>11, <1>14, <2>1, <2>2 DEF HasLiteral, LeafKind, CellKind
<1>15. CASE shape \in {"arrays", "objects"}
  <2>1. PICK kind \in {"array", "object"} :
          lit.cells = <<Cell("array", [i \in {1} |-> Ref(n + 2)]), Cell(kind, leaf)>>
    BY <1>1, <1>15
  <2>2. /\ Len(lit.cells) = 2 /\ lit.value = Ref(n + 1)
        /\ lit.cells[1] = Cell("array", [i \in {1} |-> Ref(n + 2)])
        /\ lit.cells[2] = Cell(kind, leaf)
    BY <1>1, <1>15, <2>1
  <2>3. Len(hp2) = n + 2 /\ hp2[n + 1] = lit.cells[1] /\ hp2[n + 2] = lit.cells[2]
    BY <1>0, <1>7, <1>8, <1>12, <2>2
  <2> QED
    BY <1>3, <1>7, <1>8, <1>10, <1>11, <1>15, <2>2, <2>3 DEF HasLiteral, LeafKind, CellKind
<1> QED
  BY <1>13, <1>14, <1>15 DEF Shape

\* What refers to what when a literal has been put in.
LEMMA PutPoints ==
  ASSUME NEW hp, Sound(hp), NEW c \in 1..Len(hp), hp[c].kind = "object", NEW k \in Key,
         NEW shape \in Shape, NEW x \in Nat
  PROVE  LET n   == Len(hp)
             hp2 == WithLiteral(hp, c, k, Literal(shape, x, n))
         IN
         \A b, i, e : Points(hp2, b, i, e) =>
           \/ Points(hp, b, i, e)
           \/ b = c /\ i = k /\ e = n + 1 /\ e \in 1..Len(hp2) /\ hp2[e].kind # "unused"
           \/ /\ b = n + 1 /\ i = 1 /\ e = n + 2 /\ e \in 1..Len(hp2)
              /\ hp2[e].kind \in {"array", "object"}
<1> DEFINE n    == Len(hp)
           hp2  == WithLiteral(hp, c, k, Literal(shape, x, n))
           leaf == [i \in {1} |-> Leaf("scalar", x)]
           down == [i \in {1} |-> Ref(n + 2)]
<1>0. n \in Nat
  BY CellFacts DEF Sound
<1>a. HasLiteral(hp, hp2, c, k, shape, x)
  BY WithLiteralCells
<1> HIDE DEF hp2
<1>1. /\ Len(hp2) \in {n, n + 1, n + 2}
      /\ \A d \in 1..n \ {c} : hp2[d] = hp[d]
      /\ hp2[c].kind = "object" /\ DOMAIN hp2[c].at = DOMAIN hp[c].at \cup {k}
      /\ \A i \in DOMAIN hp[c].at \ {k} : hp2[c].at[i] = hp[c].at[i]
  BY <1>a DEF HasLiteral
<1>2. shape \in LeafKind => Len(hp2) = n /\ hp2[c].at[k] = Leaf(shape, x)
  BY <1>a DEF HasLiteral
<1>3. shape \in CellKind =>
              /\ Len(hp2) = n + 1 /\ hp2[c].at[k] = Ref(n + 1)
              /\ hp2[n + 1] = Cell(shape, leaf)
  BY <1>a DEF HasLiteral
<1>4. shape \in {"arrays", "objects"} =>
              /\ Len(hp2) = n + 2 /\ hp2[c].at[k] = Ref(n + 1)
              /\ hp2[n + 1] = Cell("array", down)
              /\ \E kind \in {"array", "object"} : hp2[n + 2] = Cell(kind, leaf)
  BY <1>a DEF HasLiteral
<1> HIDE DEF n
<1>5. ASSUME NEW b \in 1..n, NEW i, NEW e, Points(hp2, b, i, e), ~(b = c /\ i = k)
      PROVE  Points(hp, b, i, e)
  BY <1>1, <1>5 DEF Points, n
<1>6. ASSUME NEW b, NEW i, NEW e, Points(hp2, b, i, e), shape \in LeafKind
      PROVE  Points(hp, b, i, e)
  <2>1. Leaf(shape, x) # Ref(e)
    BY <1>6 DEF Leaf, Ref, LeafKind
  <2> QED
    BY <1>2, <1>5, <1>6, <2>1 DEF Points
<1>7. \A e : Leaf("scalar", x) # Ref(e)
  BY DEF Leaf, Ref
<1>8. \A d, e : Ref(d) = Ref(e) => d = e
  BY DEF Ref
<1>9. ASSUME NEW b, NEW i, NEW e, Points(hp2, b, i, e), shape \in CellKind
      PROVE  \/ Points(hp, b, i, e)
             \/ b = c /\ i = k /\ e = n + 1 /\ e \in 1..Len(hp2) /\ hp2[e].kind # "unused"
  <2>1. b \in 1..(n + 1)
    BY <1>3, <1>9 DEF Points
  <2>2. CASE b = n + 1
    BY <1>3, <1>7, <1>9, <2>2 DEF Points, Cell
  <2>3. CASE b = c /\ i = k
    <3>1. e = n + 1
      BY <1>3, <1>8, <1>9, <2>3 DEF Points
    <3>2. e \in 1..Len(hp2)
      BY <1>0, <1>3, <1>9, <3>1
    <3>3. hp2[e].kind # "unused"
      BY <1>3, <1>9, <3>1 DEF Cell, CellKind
    <3> QED
      BY <2>3, <3>1, <3>2, <3>3
  <2>4. CASE b # n + 1 /\ ~(b = c /\ i = k)
    <3>1. b \in 1..n
      BY <1>0, <2>1, <2>4
    <3> QED
      BY <1>5, <1>9, <2>4, <3>1
  <2> QED
    BY <2>2, <2>3, <2>4
<1>10. ASSUME NEW b, NEW i, NEW e, Points(hp2, b, i, e), shape \in {"arrays", "objects"}
      PROVE  \/ Points(hp, b, i, e)
             \/ b = c /\ i = k /\ e = n + 1 /\ e \in 1..Len(hp2) /\ hp2[e].kind # "unused"
             \/ /\ b = n + 1 /\ i = 1 /\ e = n + 2 /\ e \in 1..Len(hp2)
                /\ hp2[e].kind \in {"array", "object"}
  <2>1. b \in 1..(n + 2)
    BY <1>4, <1>10 DEF Points
  <2>2. CASE b = n + 2
    BY <1>4, <1>7, <1>10, <2>2 DEF Points, Cell
  <2>3. CASE b = n + 1
    <3>1. i = 1 /\ e = n + 2
      BY <1>4, <1>8, <1>10, <2>3 DEF Points, Cell
    <3>2. e \in 1..Len(hp2)
      BY <1>0, <1>4, <1>10, <3>1
    <3>3. hp2[e].kind \in {"array", "object"}
      BY <1>4, <1>10, <3>1 DEF Cell
    <3> QED
      BY <2>3, <3>1, <3>2, <3>3
  <2>4. CASE b = c /\ i = k
    <3>1. e = n + 1
      BY <1>4, <1>8, <1>10, <2>4 DEF Points
    <3>2. e \in 1..Len(hp2)
      BY <1>0, <1>4, <1>10, <3>1
    <3>3. hp2[e].kind # "unused"
      BY <1>4, <1>10, <3>1 DEF Cell
    <3> QED
      BY <2>4, <3>1, <3>2, <3>3
  <2>5. CASE b # n + 1 /\ b # n + 2 /\ ~(b = c /\ i = k)
    <3>1. b \in 1..n
      BY <1>0, <2>1, <2>5
    <3> QED
      BY <1>5, <1>10, <2>5, <3>1
  <2> QED
    BY <2>2, <2>3, <2>4, <2>5
<1> QED
  BY <1>6, <1>9, <1>10 DEF n, hp2, Shape

LEMMA PutSound ==
  ASSUME NEW hp, Sound(hp), NEW c \in 1..Len(hp), hp[c].kind = "object",
         \A b, i : ~Points(hp, b, i, c), NEW k \in Key, NEW shape \in Shape, NEW x \in Nat
  PROVE  Sound(WithLiteral(hp, c, k, Literal(shape, x, Len(hp))))
<1> DEFINE n    == Len(hp)
           hp2  == WithLiteral(hp, c, k, Literal(shape, x, n))
           leaf == [i \in {1} |-> Leaf("scalar", x)]
<1>0. n \in Nat
  BY CellFacts DEF Sound
<1>1. /\ hp2 \in Seq(CellType) /\ Len(hp2) \in {n, n + 1, n + 2}
      /\ \A d \in 1..n \ {c} : hp2[d] = hp[d]
      /\ hp2[c].kind = "object"
      /\ shape \in LeafKind => Len(hp2) = n
      /\ shape \in CellKind => Len(hp2) = n + 1 /\ hp2[n + 1] = Cell(shape, leaf)
      /\ shape \in {"arrays", "objects"} =>
              /\ Len(hp2) = n + 2 /\ hp2[n + 1].kind # "pointer"
              /\ hp2[n + 2].kind # "pointer"
  <2>1. HasLiteral(hp, hp2, c, k, shape, x)
    BY WithLiteralCells
  <2> HIDE DEF hp2
  <2> QED
    BY <2>1 DEF HasLiteral, Cell
<1>2. \A b, i, e : Points(hp2, b, i, e) =>
           \/ Points(hp, b, i, e)
           \/ b = c /\ i = k /\ e = n + 1 /\ e \in 1..Len(hp2) /\ hp2[e].kind # "unused"
           \/ /\ b = n + 1 /\ i = 1 /\ e = n + 2 /\ e \in 1..Len(hp2)
              /\ hp2[e].kind \in {"array", "object"}
  BY PutPoints
<1>3. \A b, i, e : Points(hp, b, i, e) => b \in 1..n /\ e \in 1..n /\ e # c /\ hp[e].kind # "unused"
  BY DEF Sound, Points
<1> HIDE DEF n, hp2
<1>4. /\ \A e \in 1..n : e \in 1..Len(hp2) /\ e # n + 1 /\ e # n + 2
      /\ n + 1 # n + 2 /\ n + 1 # c /\ n + 2 # c
  BY <1>0, <1>1 DEF n
<1>5. ASSUME NEW b, NEW i, NEW e, Points(hp2, b, i, e)
      PROVE  e \in 1..Len(hp2) /\ hp2[e].kind # "unused" /\ e # c
  BY <1>1, <1>2, <1>3, <1>4, <1>5
<1>6. ASSUME NEW b, NEW i, NEW d, NEW j, NEW e, NEW m, NEW f,
              Points(hp2, b, i, d), Points(hp2, d, j, e), Points(hp2, e, m, f)
       PROVE  FALSE
  <2>1. d # c /\ e # c
    BY <1>5, <1>6
  <2>2. Points(hp, d, j, e) \/ (d = n + 1 /\ e = n + 2)
    BY <1>2, <1>6, <2>1
  <2>3. Points(hp, e, m, f) \/ e = n + 1
    BY <1>2, <1>6, <2>1
  <2>4. Points(hp, d, j, e) /\ Points(hp, e, m, f)
    BY <1>3, <1>4, <2>2, <2>3
  <2>5. Points(hp, b, i, d)
    BY <1>2, <1>3, <1>4, <1>6, <2>4
  <2> QED
    BY <2>4, <2>5 DEF Sound
<1>7. ASSUME NEW b \in 1..Len(hp2), hp2[b].kind = "pointer"
      PROVE  DOMAIN hp2[b].at = {1} /\ IsLeaf(hp2[b].at[1])
  <2>1. b \in 1..n \/ b = n + 1 \/ b = n + 2
    BY <1>0, <1>1
  <2>2. CASE b \in 1..n
    <3>1. hp2[b] = hp[b]
      BY <1>1, <1>7, <2>2
    <3> QED
      BY <1>7, <2>2, <3>1 DEF Sound, n
  <2>3. CASE b \notin 1..n
    <3>1. shape \in CellKind /\ b = n + 1
      <4>1. shape \notin LeafKind
        BY <1>0, <1>1, <2>1, <2>3
      <4>2. shape \notin {"arrays", "objects"}
        BY <1>1, <1>7, <2>1, <2>3
      <4>3. shape \in CellKind
        BY <4>1, <4>2 DEF Shape
      <4> QED
        BY <1>0, <1>1, <2>1, <2>3, <4>3
    <3>2. hp2[b].at = leaf
      BY <1>1, <3>1 DEF Cell
    <3> QED
      BY <3>2 DEF Leaf, IsLeaf, LeafKind
  <2> QED
    BY <2>2, <2>3
<1> QED
  BY <1>1, <1>5, <1>6, <1>7 DEF Sound, hp2, n

LEMMA PutOwned ==
  ASSUME NEW hp, Sound(hp), NEW ob, NEW le, Owned(hp, ob, le),
         NEW h \in Handle, ob[h] # 0, NEW k \in Key, NEW shape \in Shape, NEW x \in Nat
  PROVE  Owned(WithLiteral(hp, ob[h], k, Literal(shape, x, Len(hp))), ob, le)
<1> DEFINE n   == Len(hp)
           c   == ob[h]
           hp2 == WithLiteral(hp, c, k, Literal(shape, x, n))
<1>0. /\ n \in Nat /\ c \in 1..n /\ hp[c].kind = "object"
      /\ ob \in [Handle -> 0..n] /\ le \subseteq 1..n
  BY CellFacts DEF Sound, Owned
<1>1. HasLiteral(hp, hp2, c, k, shape, x)
  BY <1>0, WithLiteralCells
<1>2. \A b, i, e : Points(hp2, b, i, e) =>
           \/ Points(hp, b, i, e)
           \/ b = c /\ i = k /\ e = n + 1 /\ e \in 1..Len(hp2) /\ hp2[e].kind # "unused"
           \/ /\ b = n + 1 /\ i = 1 /\ e = n + 2 /\ e \in 1..Len(hp2)
              /\ hp2[e].kind \in {"array", "object"}
  BY <1>0, PutPoints
<1>3. \A b, i, e : Points(hp, b, i, e) => b \in 1..n /\ e \in 1..n
  BY DEF Sound, Points
<1>4. /\ \A f \in Handle : ob[f] # 0 => hp[ob[f]].kind = "object"
      /\ \A f \in Handle : ob[f] # 0 => \A b, i : ~Points(hp, b, i, ob[f])
      /\ \A f, g \in Handle : ob[f] = ob[g] /\ ob[f] # 0 => f = g
      /\ \A b, i, y, j, d : Points(hp, b, i, d) /\ Points(hp, y, j, d) /\ hp[d].kind # "object" =>
           \/ b = y /\ i = j
           \/ d \in le /\ b # y /\ TopOf(ob, b) /\ TopOf(ob, y)
  BY DEF Owned
<1> HIDE DEF n, c, hp2
<1>5. /\ Len(hp2) \in {n, n + 1, n + 2}
      /\ \A d \in 1..n \ {c} : hp2[d] = hp[d]
      /\ hp2[c].kind = "object"
  BY <1>1 DEF HasLiteral, n
<1>6. /\ \A d \in 1..n : d \in 1..Len(hp2) /\ d # n + 1 /\ d # n + 2
      /\ n + 1 # n + 2 /\ \A d \in 0..n : d \in 0..Len(hp2)
  BY <1>0, <1>5
<1>7. ob \in [Handle -> 0..Len(hp2)] /\ le \subseteq 1..Len(hp2)
  BY <1>0, <1>6
<1>8. \A d \in 1..n : hp2[d].kind = hp[d].kind
  BY <1>0, <1>5
<1>9. ASSUME NEW f \in Handle, ob[f] # 0
      PROVE  hp2[ob[f]].kind = "object" /\ \A b, i : ~Points(hp2, b, i, ob[f])
  <2>1. ob[f] \in 1..n
    BY <1>0, <1>9
  <2> QED
    BY <1>2, <1>4, <1>6, <1>8, <1>9, <2>1
<1>10. ASSUME NEW b, NEW i, NEW y, NEW j, NEW d,
              Points(hp2, b, i, d), Points(hp2, y, j, d), hp2[d].kind # "object"
       PROVE  \/ b = y /\ i = j
              \/ d \in le /\ b # y /\ TopOf(ob, b) /\ TopOf(ob, y)
  <2>1. CASE d \in 1..n
    <3>1. Points(hp, b, i, d) /\ Points(hp, y, j, d)
      BY <1>2, <1>6, <1>10, <2>1
    <3> QED
      BY <1>4, <1>8, <1>10, <2>1, <3>1
  <2>2. CASE d \notin 1..n
    BY <1>2, <1>3, <1>6, <1>10, <2>2
  <2> QED
    BY <2>1, <2>2
<1>11. Owned(hp2, ob, le)
  BY <1>4, <1>7, <1>9, <1>10 DEF Owned
<1> QED
  BY <1>11 DEF hp2, n, c

\* Below k is what Put says.
LEMMA PutAt ==
  ASSUME NEW hp, Sound(hp), NEW hp2, NEW c \in 1..Len(hp), NEW k \in Key,
         NEW shape \in Shape, NEW x \in Nat, HasLiteral(hp, hp2, c, k, shape, x),
         NEW m, NEW p \in Path, p[1] = k
  PROVE  /\ p \in DOMAIN Put(m, k, shape, x) <=> IsLeaf(At(hp2, c, p))
         /\ p \in DOMAIN Put(m, k, shape, x) => At(hp2, c, p) = Put(m, k, shape, x)[p]
<1> DEFINE n    == Len(hp)
           leaf == [i \in {1} |-> Leaf("scalar", x)]
           put  == Put(m, k, shape, x)
           w(l) == Down(hp2, c, p, l)
<1>0. n \in Nat /\ Len(p) \in {1, 2, 3}
  BY CellFacts, PathFacts DEF Sound
<1>1. At(hp2, c, p) = w(Len(p))
  BY DEF At
<1>2. w(1) = Step(hp2, Ref(c), k) /\ w(2) = Step(hp2, w(1), p[2]) /\ w(3) = Step(hp2, w(2), p[3])
  BY DownSteps
<1>3. w(1) = hp2[c].at[k]
  BY <1>2 DEF HasLiteral, Step, Ref
<1>4. /\ Len(p) = 1 => p = <<k>>
      /\ Len(p) = 2 => p = <<k, p[2]>>
      /\ Len(p) = 3 => p = <<k, p[2], p[3]>>
  BY PathIs
<1>5. /\ Len(<<k>>) = 1 /\ Len(<<k, 1>>) = 2 /\ Len(<<k, 1, 1>>) = 3
      /\ <<k, 1>>[2] = 1 /\ <<k, 1, 1>>[2] = 1 /\ <<k, 1, 1>>[3] = 1
  BY LiteralPaths
<1>6. /\ \A i : Step(hp2, Nowhere, i) = Nowhere
      /\ \A kind \in LeafKind : \A i : Step(hp2, Leaf(kind, x), i) = Nowhere /\ IsLeaf(Leaf(kind, x))
      /\ \A d : Ref(d).kind = "ref" /\ Ref(d).of = d /\ ~IsLeaf(Ref(d))
      /\ ~IsLeaf(Nowhere) /\ "scalar" \in LeafKind
  BY DEF Step, Nowhere, Leaf, IsLeaf, LeafKind, Ref
<1>7. ASSUME NEW d, NEW kind, NEW v, hp2[d] = Cell(kind, [j \in {1} |-> v]), NEW i
      PROVE  Step(hp2, Ref(d), i) = IF i = 1 THEN v ELSE Nowhere
  <2>1. hp2[d].at = [j \in {1} |-> v]
    BY <1>7 DEF Cell
  <2> QED
    BY <1>6, <2>1 DEF Step
<1> HIDE DEF w
<1>8. CASE shape \in LeafKind
  <2>1. w(1) = Leaf(shape, x)
    BY <1>3, <1>8 DEF HasLiteral
  <2>2. w(2) = Nowhere /\ w(3) = Nowhere
    BY <1>2, <1>6, <1>8, <2>1
  <2>3. put = Joined([r \in {<<k>>} |-> Leaf(shape, x)], [r \in {q \in DOMAIN m : q[1] # k} |-> m[r]])
    BY <1>8 DEF Put, LeafKind, CellKind
  <2>4. p \in DOMAIN put <=> Len(p) = 1
    BY <1>4, <1>5, <2>3 DEF Joined
  <2>5. p \in DOMAIN put => put[p] = Leaf(shape, x)
    BY <1>4, <2>3, <2>4 DEF Joined
  <2> QED
    BY <1>0, <1>1, <1>6, <1>8, <2>1, <2>2, <2>4, <2>5
<1>9. CASE shape \in CellKind
  <2>1. w(1) = Ref(n + 1) /\ hp2[n + 1] = Cell(shape, leaf)
    BY <1>3, <1>9 DEF HasLiteral
  <2>2. w(2) = (IF p[2] = 1 THEN Leaf("scalar", x) ELSE Nowhere)
    <3>1. Step(hp2, Ref(n + 1), p[2]) = IF p[2] = 1 THEN Leaf("scalar", x) ELSE Nowhere
      BY <1>7, <2>1
    <3> QED
      BY <1>2, <2>1, <3>1
  <2>3. w(3) = Nowhere
    BY <1>2, <1>6, <2>2
  <2>4. put = Joined([r \in {<<k, 1>>} |-> Leaf("scalar", x)],
                     [r \in {q \in DOMAIN m : q[1] # k} |-> m[r]])
    BY <1>9 DEF Put, LeafKind, CellKind
  <2>5. p \in DOMAIN put <=> p = <<k, 1>>
    BY <2>4 DEF Joined
  <2>6. p \in DOMAIN put => put[p] = Leaf("scalar", x)
    BY <2>4, <2>5 DEF Joined
  <2>7. p = <<k, 1>> <=> Len(p) = 2 /\ p[2] = 1
    BY <1>4, <1>5
  <2>8. At(hp2, c, p) = (IF p = <<k, 1>> THEN Leaf("scalar", x)
                         ELSE IF Len(p) = 1 THEN Ref(n + 1) ELSE Nowhere)
    BY <1>0, <1>1, <2>1, <2>2, <2>3, <2>7
  <2> QED
    BY <1>6, <2>5, <2>6, <2>8
<1>10. CASE shape \in {"arrays", "objects"}
  <2>1. w(1) = Ref(n + 1) /\ hp2[n + 1] = Cell("array", [i \in {1} |-> Ref(n + 2)])
    BY <1>3, <1>10 DEF HasLiteral
  <2>2. PICK kind : hp2[n + 2] = Cell(kind, leaf)
    BY <1>10 DEF HasLiteral
  <2>3. w(2) = IF p[2] = 1 THEN Ref(n + 2) ELSE Nowhere
    <3>1. Step(hp2, Ref(n + 1), p[2]) = IF p[2] = 1 THEN Ref(n + 2) ELSE Nowhere
      BY <1>7, <2>1
    <3> QED
      BY <1>2, <2>1, <3>1
  <2>4. w(3) = IF p[2] = 1 /\ p[3] = 1 THEN Leaf("scalar", x) ELSE Nowhere
    <3>1. Step(hp2, Ref(n + 2), p[3]) = IF p[3] = 1 THEN Leaf("scalar", x) ELSE Nowhere
      BY <1>7, <2>2
    <3> QED
      BY <1>2, <1>6, <2>3, <3>1
  <2>5. put = Joined([r \in {<<k, 1, 1>>} |-> Leaf("scalar", x)],
                     [r \in {q \in DOMAIN m : q[1] # k} |-> m[r]])
    BY <1>10 DEF Put, LeafKind, CellKind
  <2>6. p \in DOMAIN put <=> p = <<k, 1, 1>>
    BY <2>5 DEF Joined
  <2>7. p \in DOMAIN put => put[p] = Leaf("scalar", x)
    BY <2>5, <2>6 DEF Joined
  <2>8. p = <<k, 1, 1>> <=> Len(p) = 3 /\ p[2] = 1 /\ p[3] = 1
    BY <1>4, <1>5
  <2>9. At(hp2, c, p) = (IF p = <<k, 1, 1>> THEN Leaf("scalar", x)
                         ELSE IF Len(p) = 1 THEN Ref(n + 1)
                         ELSE IF Len(p) = 2 /\ p[2] = 1 THEN Ref(n + 2) ELSE Nowhere)
    BY <1>0, <1>1, <2>1, <2>3, <2>4, <2>8
  <2> QED
    BY <1>6, <2>6, <2>7, <2>9
<1> QED
  BY <1>8, <1>9, <1>10 DEF Shape

\* Elsewhere it is as it was.
LEMMA PutDomain ==
  ASSUME NEW k \in Key, NEW shape \in Shape, NEW x, NEW m, DOMAIN m \subseteq Path
  PROVE  LET put == Put(m, k, shape, x) IN
         /\ DOMAIN put \subseteq Path
         /\ \A p \in Path : p[1] # k => /\ p \in DOMAIN put <=> p \in DOMAIN m
                                        /\ p \in DOMAIN m => put[p] = m[p]
<1>1. /\ {<<k>>, <<k, 1>>, <<k, 1, 1>>} \subseteq Path
      /\ <<k>>[1] = k /\ <<k, 1>>[1] = k /\ <<k, 1, 1>>[1] = k
  BY LiteralPaths
<1>2. \E path \in {<<k>>, <<k, 1>>, <<k, 1, 1>>} : \E leaf :
        Put(m, k, shape, x) =
          Joined([p \in {path} |-> leaf], [p \in {q \in DOMAIN m : q[1] # k} |-> m[p]])
  <2>1. CASE shape \in LeafKind
    BY <2>1 DEF Put, LeafKind, CellKind
  <2>2. CASE shape \in CellKind
    BY <2>2 DEF Put, LeafKind, CellKind
  <2>3. CASE shape \in {"arrays", "objects"}
    BY <2>3 DEF Put, LeafKind, CellKind
  <2> QED
    BY <2>1, <2>2, <2>3 DEF Shape
<1>3. PICK path \in {<<k>>, <<k, 1>>, <<k, 1, 1>>} : \E leaf :
        Put(m, k, shape, x) =
          Joined([p \in {path} |-> leaf], [p \in {q \in DOMAIN m : q[1] # k} |-> m[p]])
  BY <1>2
<1>4. path \in Path /\ path[1] = k
  BY <1>1
<1> QED
  BY <1>3, <1>4 DEF Joined

\* A literal under a key of one variable shows there, and in no other.
LEMMA PutInv ==
  ASSUME NEW hp, NEW ob, NEW le, NEW me, HeapInv(hp, ob, le, me),
         NEW h \in Handle, ob[h] # 0, NEW k \in Key, NEW shape \in Shape, NEW x \in Nat
  PROVE  HeapInv(WithLiteral(hp, ob[h], k, Literal(shape, x, Len(hp))), ob, le,
                 [me EXCEPT ![h] = Put(@, k, shape, x)])
<1> DEFINE c   == ob[h]
           hp2 == WithLiteral(hp, c, k, Literal(shape, x, Len(hp)))
           me2 == [me EXCEPT ![h] = Put(@, k, shape, x)]
<1>0. /\ Sound(hp) /\ Owned(hp, ob, le) /\ Meant(hp, ob, le, me)
      /\ c \in 1..Len(hp) /\ hp[c].kind = "object"
      /\ \A b, i : ~Points(hp, b, i, c)
      /\ \A f \in Handle : ob[f] # 0 => ob[f] \in 1..Len(hp)
      /\ \A f \in Handle : ob[f] = c => f = h
  BY CellFacts DEF HeapInv, Owned, Sound
<1>1. Sound(hp2) /\ Owned(hp2, ob, le) /\ HasLiteral(hp, hp2, c, k, shape, x)
  BY <1>0, PutSound, PutOwned, WithLiteralCells
<1>2. /\ DOMAIN me2 = Handle /\ me2[h] = Put(me[h], k, shape, x)
      /\ \A f \in Handle \ {h} : me2[f] = me[f]
      /\ \A f \in Handle : DOMAIN me[f] \subseteq Path
  BY <1>0 DEF Meant
<1>3. /\ \A d \in 1..Len(hp) \ {c} : hp2[d] = hp[d]
      /\ DOMAIN hp2[c].at = DOMAIN hp[c].at \cup {k}
      /\ \A i \in DOMAIN hp[c].at \ {k} : hp2[c].at[i] = hp[c].at[i]
  BY <1>1 DEF HasLiteral
<1>a. SameBut(hp, hp2, c)
  BY <1>0, <1>3 DEF SameBut
<1> HIDE DEF hp2, me2, c
<1>4. ASSUME NEW f \in Handle PROVE DOMAIN me2[f] \subseteq Path
  BY <1>2, PutDomain
<1>5. ASSUME NEW f \in Handle, ob[f] # 0, NEW p \in Path
      PROVE  Keeps(hp2, ob[f], le, me2[f], p)
  <2>1. CASE f # h
    <3>1. PICK b \in 1..Len(hp) : b = ob[f] /\ b # c
      BY <1>0, <1>5, <2>1
    <3>2. Keeps(hp, b, le, me[f], p)
      BY <1>0, <1>5, <3>1 DEF Meant
    <3>3. Step(hp2, Ref(b), p[1]) = Step(hp, Ref(b), p[1])
      BY <1>3, <3>1 DEF Step, Ref
    <3>4. Keeps(hp2, b, le, me[f], p)
      BY <1>0, <1>a, <3>2, <3>3, KeepsFrame
    <3> QED
      BY <1>2, <2>1, <3>1, <3>4
  <2>2. CASE f = h /\ p[1] # k
    <3>1. Keeps(hp, c, le, me[h], p)
      BY <1>0, <1>5, <2>2 DEF Meant, c
    <3>2. Step(hp2, Ref(c), p[1]) = Step(hp, Ref(c), p[1])
      BY <1>3, <2>2 DEF Step, Ref
    <3>3. /\ p \in DOMAIN me2[h] <=> p \in DOMAIN me[h]
          /\ p \in DOMAIN me[h] => me2[h][p] = me[h][p]
      BY <1>2, <2>2, PutDomain
    <3>4. Keeps(hp2, c, le, me2[h], p)
      BY <1>0, <1>a, <3>1, <3>2, <3>3, KeepsFrame
    <3> QED
      BY <2>2, <3>4 DEF c
  <2>3. CASE f = h /\ p[1] = k
    <3>0. PICK m, put : m = me[h] /\ put = Put(m, k, shape, x)
      OBVIOUS
    <3>2. /\ p \in DOMAIN put <=> IsLeaf(At(hp2, c, p))
          /\ p \in DOMAIN put => At(hp2, c, p) = put[p]
      <4>1. Sound(hp) /\ c \in 1..Len(hp) /\ p[1] = k /\ HasLiteral(hp, hp2, c, k, shape, x)
        BY <1>0, <1>1, <2>3
      <4>2. /\ p \in DOMAIN Put(m, k, shape, x) <=> IsLeaf(At(hp2, c, p))
            /\ p \in DOMAIN Put(m, k, shape, x) => At(hp2, c, p) = Put(m, k, shape, x)[p]
        BY <4>1, PutAt
      <4> QED
        BY <3>0, <4>2
    <3>1. /\ p \in DOMAIN me2[h] <=> IsLeaf(At(hp2, c, p))
          /\ p \in DOMAIN me2[h] => At(hp2, c, p) = me2[h][p]
      BY <1>2, <3>0, <3>2
    <3> QED
      BY <2>3, <3>1 DEF Keeps, c
  <2> QED
    BY <2>1, <2>2, <2>3
<1>6. HeapInv(hp2, ob, le, me2)
  BY <1>1, <1>2, <1>4, <1>5 DEF HeapInv, Meant
<1> QED
  BY <1>6 DEF hp2, me2, c

-----------------------------------------------------------------------------
(* Merging *)

LEMMA LeafKey ==
  ASSUME NEW hp, NEW c, NEW p \in Path, IsLeaf(At(hp, c, p))
  PROVE  p[1] \in DOMAIN hp[c].at
<1> SUFFICES ASSUME p[1] \notin DOMAIN hp[c].at PROVE FALSE
  OBVIOUS
<1>1. Down(hp, c, p, 1) = Nowhere
  BY DownSteps DEF Step, Ref
<1>2. \A i : Step(hp, Nowhere, i) = Nowhere
  BY DEF Step, Nowhere, Leaf
<1>3. Down(hp, c, p, 2) = Nowhere /\ Down(hp, c, p, 3) = Nowhere
  BY <1>1, <1>2, DownSteps
<1>4. At(hp, c, p) = Nowhere
  BY <1>1, <1>3, PathFacts DEF At
<1> QED
  BY <1>4 DEF Nowhere, Leaf, IsLeaf, LeafKind

\* A heap with more cells reads the same.
LEMMA ReadsSame ==
  ASSUME NEW hp, Sound(hp), NEW hp2, \A d \in 1..Len(hp) : hp2[d] = hp[d],
         NEW c \in 1..Len(hp)
  PROVE  Reads(hp2, c) = Reads(hp, c) /\ Under(hp2, c) = Under(hp, c)
<1>1. ASSUME NEW p \in Path PROVE At(hp2, c, p) = At(hp, c, p)
  <2>1. Step(hp2, Ref(c), p[1]) = Step(hp, Ref(c), p[1])
    BY DEF Step, Ref
  <2>2. \A m \in 1..Len(p) : Down(hp2, c, p, m) = Down(hp, c, p, m)
    <3>1. SameBut(hp, hp2, 0)
      BY NotZero DEF SameBut
    <3> QED
      BY <2>1, <3>1, DownSame
  <2> QED
    BY <2>2, PathFacts DEF At
<1>2. {q \in Path : IsLeaf(At(hp2, c, q))} = {q \in Path : IsLeaf(At(hp, c, q))}
  BY <1>1
<1>3. {q \in Path : At(hp2, c, q).kind = "ref"} = {q \in Path : At(hp, c, q).kind = "ref"}
  BY <1>1
<1> QED
  BY <1>1, <1>2, <1>3 DEF Reads, Under

LEMMA UnderFacts ==
  ASSUME NEW hp, Sound(hp), NEW c \in 1..Len(hp)
  PROVE  /\ Under(hp, c) \subseteq 1..Len(hp)
         /\ \A i, d : Points(hp, c, i, d) => d \in Under(hp, c)
<1>1. Under(hp, c) \subseteq 1..Len(hp)
  BY AtFacts DEF Under
<1>2. ASSUME NEW i, NEW d, Points(hp, c, i, d) PROVE d \in Under(hp, c)
  <2>1. i \in Key
    BY <1>2, CellFacts DEF Points, Sound
  <2>2. <<i>> \in Path /\ Len(<<i>>) = 1 /\ <<i>>[1] = i
    BY <2>1, PathOf
  <2>3. At(hp, c, <<i>>) = Ref(d)
    BY <1>2, <2>2, DownSteps DEF At, Step, Points, Ref
  <2>4. At(hp, c, <<i>>).kind = "ref" /\ At(hp, c, <<i>>).of = d
    BY <2>3 DEF Ref
  <2> QED
    BY <2>2, <2>4 DEF Under
<1> QED
  BY <1>1, <1>2

\* The object c with what is in a.
Merged(hp, c, a) == [hp EXCEPT ![c].at = Joined(hp[a].at, @)]

LEMMA MergedCells ==
  ASSUME NEW hp, Sound(hp), NEW c \in 1..Len(hp), hp[c].kind = "object", NEW a \in 1..Len(hp)
  PROVE  LET hp2 == Merged(hp, c, a) IN
         /\ hp2 \in Seq(CellType) /\ Len(hp2) = Len(hp)
         /\ \A d \in 1..Len(hp) \ {c} : hp2[d] = hp[d]
         /\ hp2[c].kind = "object" /\ hp2[c].at = Joined(hp[a].at, hp[c].at)
<1> DEFINE new  == Joined(hp[a].at, hp[c].at)
           base == [hp EXCEPT ![c] = Cell("object", new)]
<1>0. hp \in Seq(CellType) /\ hp[c] \in CellType /\ hp[a] \in CellType
  BY CellFacts DEF Sound
<1>1. /\ hp[c] = Cell("object", hp[c].at)
      /\ DOMAIN hp[c].at \subseteq Key /\ hp[c].at \in [DOMAIN hp[c].at -> Held]
      /\ DOMAIN hp[a].at \subseteq Key /\ hp[a].at \in [DOMAIN hp[a].at -> Held]
  BY <1>0, CellShape
<1>2. Cell("object", new) \in CellType
  <2>1. new \in [DOMAIN hp[a].at \cup DOMAIN hp[c].at -> Held]
        /\ DOMAIN hp[a].at \cup DOMAIN hp[c].at \in SUBSET Key
    BY <1>1 DEF Joined
  <2> HIDE DEF new
  <2> QED
    BY <2>1 DEF Cell, CellType, CellKind
<1>3. Merged(hp, c, a) = base
  <2>1. Merged(hp, c, a) = [hp EXCEPT ![c] = [hp[c] EXCEPT !.at = new]]
    BY DEF Merged
  <2>2. PICK at : hp[c] = [kind |-> "object", at |-> at]
    BY <1>1 DEF Cell
  <2> HIDE DEF new
  <2>3. [hp[c] EXCEPT !.at = new] = [kind |-> "object", at |-> new]
    BY <2>2
  <2> QED
    BY <2>1, <2>3 DEF Cell
<1> HIDE DEF new
<1>4. /\ base \in Seq(CellType) /\ Len(base) = Len(hp)
      /\ base[c] = Cell("object", new)
      /\ \A d \in 1..Len(hp) \ {c} : base[d] = hp[d]
  BY <1>0, <1>2
<1> QED
  BY <1>3, <1>4 DEF Cell, new

LEMMA MergedPoints ==
  ASSUME NEW hp, Sound(hp), NEW c \in 1..Len(hp), hp[c].kind = "object", NEW a \in 1..Len(hp)
  PROVE  \A b, i, e : Points(Merged(hp, c, a), b, i, e) =>
           Points(hp, b, i, e) \/ (b = c /\ Points(hp, a, i, e))
<1> DEFINE hp2 == Merged(hp, c, a)
<1>1. /\ Len(hp2) = Len(hp)
      /\ \A d \in 1..Len(hp) \ {c} : hp2[d] = hp[d]
      /\ hp2[c].at = Joined(hp[a].at, hp[c].at)
  BY MergedCells
<1> HIDE DEF hp2
<1>2. /\ DOMAIN hp2[c].at = DOMAIN hp[a].at \cup DOMAIN hp[c].at
      /\ \A i \in DOMAIN hp2[c].at :
           \/ i \in DOMAIN hp[a].at /\ hp2[c].at[i] = hp[a].at[i]
           \/ i \in DOMAIN hp[c].at /\ hp2[c].at[i] = hp[c].at[i]
  BY <1>1 DEF Joined
<1>3. ASSUME NEW b, NEW i, NEW e, Points(hp2, b, i, e)
      PROVE  Points(hp, b, i, e) \/ (b = c /\ Points(hp, a, i, e))
  BY <1>1, <1>2, <1>3 DEF Points
<1> QED
  BY <1>3 DEF hp2

LEMMA MergedSound ==
  ASSUME NEW hp, Sound(hp), NEW c \in 1..Len(hp), hp[c].kind = "object",
         \A b, i : ~Points(hp, b, i, c), NEW a \in 1..Len(hp)
  PROVE  Sound(Merged(hp, c, a))
<1> DEFINE hp2 == Merged(hp, c, a)
<1>1. /\ hp2 \in Seq(CellType) /\ Len(hp2) = Len(hp)
      /\ \A d \in 1..Len(hp) \ {c} : hp2[d] = hp[d]
      /\ hp2[c].kind = "object"
  BY MergedCells
<1>2. \A b, i, e : Points(hp2, b, i, e) =>
        Points(hp, b, i, e) \/ (b = c /\ Points(hp, a, i, e))
  BY MergedPoints
<1> HIDE DEF hp2
<1>3. ASSUME NEW b, NEW i, NEW e, Points(hp2, b, i, e)
      PROVE  e \in 1..Len(hp2) /\ hp2[e].kind # "unused" /\ e # c
  <2>1. PICK y : Points(hp, y, i, e)
    BY <1>2, <1>3
  <2>2. e \in 1..Len(hp) /\ hp[e].kind # "unused" /\ e # c
    BY <2>1 DEF Sound
  <2> QED
    BY <1>1, <2>2
<1>4. ASSUME NEW b, NEW i, NEW d, NEW j, NEW e, NEW k, NEW f,
             Points(hp2, b, i, d), Points(hp2, d, j, e), Points(hp2, e, k, f)
      PROVE  FALSE
  <2>1. d # c /\ e # c
    BY <1>3, <1>4
  <2>2. Points(hp, d, j, e) /\ Points(hp, e, k, f)
    BY <1>2, <1>4, <2>1
  <2>3. \E y : Points(hp, y, i, d)
    BY <1>2, <1>4
  <2> QED
    BY <2>2, <2>3 DEF Sound
<1>5. \A b \in 1..Len(hp2) : hp2[b].kind = "pointer" =>
        DOMAIN hp2[b].at = {1} /\ IsLeaf(hp2[b].at[1])
  BY <1>1 DEF Sound
<1>6. Sound(hp2)
  BY <1>1, <1>3, <1>4, <1>5 DEF Sound
<1> QED
  BY <1>6 DEF hp2

\* Nothing that c refers to is lent, objects aside.
NoneLent(hp, c, le) ==
  \A i, e : Points(hp, c, i, e) /\ hp[e].kind # "object" => e \notin le

\* What is merged in has two references from then on, and counts as lent.
LEMMA MergedOwned ==
  ASSUME NEW hp, Sound(hp), NEW ob, NEW le, Owned(hp, ob, le),
         NEW g \in Handle, NEW t \in Handle, g # t, ob[g] # 0, ob[t] # 0,
         NoneLent(hp, ob[g], le)
  PROVE  Owned(Merged(hp, ob[g], ob[t]), ob, le \cup Under(hp, ob[t]))
<1> DEFINE c   == ob[g]
           a   == ob[t]
           hp2 == Merged(hp, c, a)
           le2 == le \cup Under(hp, a)
<1>0. /\ c \in 1..Len(hp) /\ hp[c].kind = "object" /\ a \in 1..Len(hp)
      /\ ob \in [Handle -> 0..Len(hp)] /\ le \subseteq 1..Len(hp)
      /\ a # c /\ TopOf(ob, c) /\ TopOf(ob, a)
  BY CellFacts DEF Sound, Owned, TopOf
<1>1. /\ Len(hp2) = Len(hp)
      /\ \A d \in 1..Len(hp) \ {c} : hp2[d] = hp[d]
      /\ hp2[c].kind = "object"
  BY <1>0, MergedCells
<1>2. \A b, i, e : Points(hp2, b, i, e) =>
        Points(hp, b, i, e) \/ (b = c /\ Points(hp, a, i, e))
  BY <1>0, MergedPoints
<1>3. Under(hp, a) \subseteq 1..Len(hp) /\ \A i, d : Points(hp, a, i, d) => d \in Under(hp, a)
  BY <1>0, UnderFacts
<1>4. /\ \A f \in Handle : ob[f] # 0 => hp[ob[f]].kind = "object"
      /\ \A f \in Handle : ob[f] # 0 => \A b, i : ~Points(hp, b, i, ob[f])
      /\ \A e, f \in Handle : ob[e] = ob[f] /\ ob[e] # 0 => e = f
      /\ \A b, i, y, j, d : Points(hp, b, i, d) /\ Points(hp, y, j, d) /\ hp[d].kind # "object" =>
           \/ b = y /\ i = j
           \/ d \in le /\ b # y /\ TopOf(ob, b) /\ TopOf(ob, y)
  BY DEF Owned
<1>5. \A i, e : Points(hp, c, i, e) /\ hp[e].kind # "object" => e \notin le
  BY DEF NoneLent
<1>6. \A d \in 1..Len(hp) : hp2[d].kind = hp[d].kind
  BY <1>0, <1>1
<1>7. \A b, i, d : Points(hp, b, i, d) => d \in 1..Len(hp)
  BY DEF Sound
<1> HIDE DEF c, a, hp2
<1>8. ASSUME NEW f \in Handle, ob[f] # 0
      PROVE  hp2[ob[f]].kind = "object" /\ \A b, i : ~Points(hp2, b, i, ob[f])
  BY <1>0, <1>2, <1>4, <1>6, <1>8
<1>9. ASSUME NEW b, NEW i, NEW y, NEW j, NEW d,
             Points(hp2, b, i, d), Points(hp2, y, j, d), hp2[d].kind # "object"
      PROVE  \/ b = y /\ i = j
             \/ d \in le2 /\ b # y /\ TopOf(ob, b) /\ TopOf(ob, y)
  <2>1. hp[d].kind # "object"
    <3>1. d \in 1..Len(hp)
      BY <1>2, <1>7, <1>9
    <3> QED
      BY <1>6, <1>9, <3>1
  <2>2. CASE Points(hp, b, i, d) /\ Points(hp, y, j, d)
    BY <1>4, <2>1, <2>2
  <2>3. CASE b = c /\ Points(hp, a, i, d)
    <3>1. d \in le2
      BY <1>3, <2>3
    <3>2. CASE y = c /\ Points(hp, a, j, d)
      BY <1>4, <2>1, <2>3, <3>2
    <3>3. CASE Points(hp, y, j, d)
      BY <1>0, <1>4, <1>5, <2>1, <2>3, <3>1, <3>3
    <3> QED
      BY <1>2, <1>9, <3>2, <3>3
  <2>4. CASE y = c /\ Points(hp, a, j, d)
    <3>1. d \in le2
      BY <1>3, <2>4
    <3>2. CASE b = c /\ Points(hp, a, i, d)
      BY <1>4, <2>1, <2>4, <3>2
    <3>3. CASE Points(hp, b, i, d)
      BY <1>0, <1>4, <1>5, <2>1, <2>4, <3>1, <3>3
    <3> QED
      BY <1>2, <1>9, <3>2, <3>3
  <2> QED
    BY <1>2, <1>9, <2>2, <2>3, <2>4
<1>10. Owned(hp2, ob, le2)
  <2>1. ob \in [Handle -> 0..Len(hp2)] /\ le2 \subseteq 1..Len(hp2)
    BY <1>0, <1>1, <1>3
  <2> HIDE DEF le2
  <2> QED
    BY <1>4, <1>8, <1>9, <2>1 DEF Owned
<1> QED
  BY <1>10 DEF hp2, a, c

\* What g is meant to hold when t has been merged into it.
MergedMeant(hp, ob, me, g, t) ==
  [me EXCEPT ![g] =
     Joined(Reads(hp, ob[t]),
            [p \in {q \in DOMAIN @ : q[1] \notin DOMAIN hp[ob[t]].at} |-> @[p]])]

\* MergedFrom: what is lent is left out of what is meant from then on.
LEMMA MergeInv ==
  ASSUME NEW hp, NEW ob, NEW le, NEW me, HeapInv(hp, ob, le, me),
         NEW g \in Handle, NEW t \in Handle, g # t, ob[g] # 0, ob[t] # 0,
         NoneLent(hp, ob[g], le)
  PROVE  HeapInv(Merged(hp, ob[g], ob[t]), ob, le \cup Under(hp, ob[t]),
                 MergedMeant(hp, ob, me, g, t))
<1> DEFINE c   == ob[g]
           a   == ob[t]
           hp2 == Merged(hp, c, a)
           le2 == le \cup Under(hp, a)
           new == Reads(hp, a)
           old == me[g]
           m2  == Joined(new, [p \in {q \in DOMAIN old : q[1] \notin DOMAIN hp[a].at} |-> old[p]])
           me2 == [me EXCEPT ![g] = m2]
<1>0. /\ Sound(hp) /\ Owned(hp, ob, le) /\ Meant(hp, ob, le, me)
      /\ c \in 1..Len(hp) /\ hp[c].kind = "object" /\ a \in 1..Len(hp)
      /\ \A b, i : ~Points(hp, b, i, c)
      /\ \A f \in Handle : ob[f] # 0 => ob[f] \in 1..Len(hp)
      /\ \A f \in Handle : ob[f] = c => f = g
  BY CellFacts DEF HeapInv, Owned, Sound
<1>1. Sound(hp2) /\ Owned(hp2, ob, le2)
  BY <1>0, MergedSound, MergedOwned
<1>2. /\ \A d \in 1..Len(hp) \ {c} : hp2[d] = hp[d]
      /\ hp2[c].at = Joined(hp[a].at, hp[c].at)
  BY <1>0, MergedCells
<1>3. /\ \A f \in Handle : DOMAIN me[f] \subseteq Path
      /\ DOMAIN me2 = Handle /\ me2[g] = m2
      /\ \A f \in Handle \ {g} : me2[f] = me[f]
  BY <1>0 DEF Meant
<1>4. DOMAIN new \subseteq Path
  BY DEF Reads
<1>5. /\ DOMAIN m2 \subseteq DOMAIN new \cup DOMAIN old
      /\ \A p \in DOMAIN new : p \in DOMAIN m2 /\ m2[p] = new[p]
      /\ \A p : p \notin DOMAIN new =>
           /\ p \in DOMAIN m2 <=> p \in DOMAIN old /\ p[1] \notin DOMAIN hp[a].at
           /\ p \in DOMAIN m2 => m2[p] = old[p]
  BY DEF Joined
<1>6. \A p \in DOMAIN new : p[1] \in DOMAIN hp[a].at
  BY LeafKey DEF Reads
<1>7. le \subseteq le2
  OBVIOUS
<1>a. SameBut(hp, hp2, c)
  BY <1>0, <1>2 DEF SameBut
<1> HIDE DEF c, a, hp2, le2, new, old, m2, me2
<1>8. ASSUME NEW f \in Handle PROVE DOMAIN me2[f] \subseteq Path
  BY <1>3, <1>4, <1>5 DEF old
<1>9. ASSUME NEW f \in Handle, ob[f] # 0, NEW p \in Path
      PROVE  Keeps(hp2, ob[f], le2, me2[f], p)
  <2>1. CASE f # g
    <3>1. PICK b \in 1..Len(hp) : b = ob[f] /\ b # c
      BY <1>0, <1>9, <2>1
    <3>2. Keeps(hp, b, le, me[f], p)
      BY <1>0, <1>9, <3>1 DEF Meant
    <3>3. Step(hp2, Ref(b), p[1]) = Step(hp, Ref(b), p[1])
      BY <1>2, <3>1 DEF Step, Ref
    <3>4. Keeps(hp2, b, le2, me[f], p)
      BY <1>0, <1>a, <1>7, <3>2, <3>3, KeepsFrame
    <3> QED
      BY <1>3, <2>1, <3>1, <3>4
  <2>2. CASE f = g /\ p[1] \in DOMAIN hp[a].at
    <3>1. Keeps(hp, a, le2, new, p)
      BY ReadsKeeps DEF new
    <3>2. Step(hp2, Ref(c), p[1]) = Step(hp, Ref(a), p[1])
      BY <1>2, <2>2 DEF Step, Ref, Joined
    <3>3. /\ p \in DOMAIN m2 <=> p \in DOMAIN new
          /\ p \in DOMAIN new => m2[p] = new[p]
      BY <1>5, <2>2
    <3>4. Keeps(hp2, c, le2, m2, p)
      BY <1>0, <1>a, <3>1, <3>2, <3>3, KeepsFrame
    <3> QED
      BY <1>3, <2>2, <3>4 DEF c
  <2>3. CASE f = g /\ p[1] \notin DOMAIN hp[a].at
    <3>1. Keeps(hp, c, le, old, p)
      BY <1>0, <1>9, <2>3 DEF Meant, c, old
    <3>2. Step(hp2, Ref(c), p[1]) = Step(hp, Ref(c), p[1])
      BY <1>2, <2>3 DEF Step, Ref, Joined
    <3>3. /\ p \in DOMAIN m2 <=> p \in DOMAIN old
          /\ p \in DOMAIN old => m2[p] = old[p]
      BY <1>5, <1>6, <2>3
    <3>4. Keeps(hp2, c, le2, m2, p)
      BY <1>0, <1>a, <1>7, <3>1, <3>2, <3>3, KeepsFrame
    <3> QED
      BY <1>3, <2>3, <3>4 DEF c
  <2> QED
    BY <2>1, <2>2, <2>3
<1>10. HeapInv(hp2, ob, le2, me2)
  BY <1>1, <1>3, <1>8, <1>9 DEF HeapInv, Meant
<1> QED
  BY <1>10 DEF hp2, le2, me2, m2, new, old, a, c, MergedMeant

-----------------------------------------------------------------------------
(* Changing a leaf below the top *)

\* p leads from c to the entry l of the cell d.
Ends(hp, c, p, d, l) ==
  \/ Len(p) = 2 /\ Down(hp, c, p, 1) = Ref(d) /\ p[2] = l
  \/ Len(p) = 3 /\ Down(hp, c, p, 2) = Ref(d) /\ p[3] = l

\* A scalar below the top is in a cell that is not a top one.
LEMMA ScalarEnd ==
  ASSUME NEW hp, Sound(hp), NEW c \in 1..Len(hp), NEW p \in Path, Len(p) > 1,
         At(hp, c, p).kind = "scalar"
  PROVE  LET d == Down(hp, c, p, Len(p) - 1).of
             l == p[Len(p)]
         IN
         /\ d \in 1..Len(hp) /\ \E b, i : Points(hp, b, i, d)
         /\ Ends(hp, c, p, d, l)
         /\ l \in DOMAIN hp[d].at /\ IsLeaf(hp[d].at[l])
<1> DEFINE v(k) == Down(hp, c, p, k)
<1>0. Len(p) \in {1, 2, 3}
  BY PathFacts
<1>1. \A x : x.kind = "scalar" => IsLeaf(x) /\ x # Nowhere /\ x.kind # "ref"
  BY DEF IsLeaf, LeafKind, Nowhere, Leaf
<1>2. v(2) = Step(hp, v(1), p[2]) /\ v(3) = Step(hp, v(2), p[3])
  BY DownSteps
<1>3. At(hp, c, p) = v(Len(p))
  BY DEF At
<1>4. ASSUME NEW u, NEW i, Step(hp, u, i).kind = "scalar"
      PROVE  u.kind = "ref" /\ i \in DOMAIN hp[u.of].at /\ hp[u.of].at[i] = Step(hp, u, i)
  BY <1>1, <1>4 DEF Step
<1>5. CASE Len(p) = 2
  <2>1. v(2).kind = "scalar" /\ Len(p) - 1 = 1 /\ 1 \in 1..Len(p)
    BY <1>3, <1>5
  <2>2. v(1).kind = "ref" /\ p[2] \in DOMAIN hp[v(1).of].at /\ hp[v(1).of].at[p[2]] = v(2)
    BY <1>2, <1>4, <2>1
  <2>3. v(1) = Ref(v(1).of) /\ v(1).of \in 1..Len(hp) /\ Points(hp, c, p[1], v(1).of)
    <3>1. v(1) # Nowhere /\ ~IsLeaf(v(1))
      BY <2>2 DEF Nowhere, Leaf, IsLeaf, LeafKind
    <3> QED
      BY <2>1, <2>2, <3>1, DownFacts
  <2> HIDE DEF v
  <2> QED
    BY <1>1, <1>5, <2>1, <2>2, <2>3 DEF Ends, v
<1>6. CASE Len(p) = 3
  <2>1. v(3).kind = "scalar" /\ Len(p) - 1 = 2 /\ 2 \in 1..Len(p)
    BY <1>3, <1>6
  <2>2. v(2).kind = "ref" /\ p[3] \in DOMAIN hp[v(2).of].at /\ hp[v(2).of].at[p[3]] = v(3)
    BY <1>2, <1>4, <2>1
  <2>3. v(2) = Ref(v(2).of) /\ v(2).of \in 1..Len(hp) /\ Points(hp, v(1).of, p[2], v(2).of)
    <3>1. v(2) # Nowhere /\ ~IsLeaf(v(2))
      BY <2>2 DEF Nowhere, Leaf, IsLeaf, LeafKind
    <3> QED
      BY <2>1, <2>2, <3>1, DownFacts
  <2> HIDE DEF v
  <2> QED
    BY <1>1, <1>6, <2>1, <2>2, <2>3 DEF Ends, v
<1> QED
  BY <1>0, <1>5, <1>6

\* A path that a variable is to have for itself is the only one to where it ends.
LEMMA EndsOnce ==
  ASSUME NEW hp, Sound(hp), NEW ob, NEW le, Owned(hp, ob, le),
         NEW h \in Handle, ob[h] # 0, NEW p \in Path,
         NEW f \in Handle, ob[f] # 0, NEW q \in Path,
         NEW d, NEW l, Ends(hp, ob[h], p, d, l), Ends(hp, ob[f], q, d, l),
         Safe(hp, ob[f], le, q)
  PROVE  f = h /\ q = p
<1> DEFINE v(k) == Down(hp, ob[h], p, k)
           w(k) == Down(hp, ob[f], q, k)
<1>0. /\ ob[h] \in 1..Len(hp) /\ ob[f] \in 1..Len(hp)
      /\ \A b, i : ~Points(hp, b, i, ob[h]) /\ ~Points(hp, b, i, ob[f])
      /\ ob[h] = ob[f] => f = h
      /\ \A b, i, y, j, e : Points(hp, b, i, e) /\ Points(hp, y, j, e) /\ hp[e].kind # "object"
                              /\ e \notin le => b = y /\ i = j
  BY CellFacts DEF Sound, Owned
<1>1. /\ \A e : Ref(e).kind = "ref" /\ Ref(e).of = e
      /\ \A e, y : Ref(e) = Ref(y) => e = y
  BY DEF Ref
<1>2. /\ Len(p) = 2 => p = <<p[1], p[2]>> /\ 1 \in 1..Len(p)
      /\ Len(p) = 3 => p = <<p[1], p[2], p[3]>> /\ 1 \in 1..Len(p) /\ 2 \in 1..Len(p)
      /\ Len(q) = 2 => q = <<q[1], q[2]>> /\ 1 \in 1..Len(q) /\ 1 \in 1..(Len(q) - 1)
      /\ Len(q) = 3 => /\ q = <<q[1], q[2], q[3]>> /\ 1 \in 1..Len(q) /\ 2 \in 1..Len(q)
                       /\ 1 \in 1..(Len(q) - 1) /\ 2 \in 1..(Len(q) - 1)
  <2>1. /\ \A n \in {2, 3} : 1 \in 1..n /\ 1 \in 1..(n - 1)
        /\ 2 \in 1..3 /\ 2 \in 1..(3 - 1)
    OBVIOUS
  <2>2. /\ Len(p) = 2 => p = <<p[1], p[2]>>
        /\ Len(p) = 3 => p = <<p[1], p[2], p[3]>>
    BY PathIs, Zenon
  <2>3. /\ Len(q) = 2 => q = <<q[1], q[2]>>
        /\ Len(q) = 3 => q = <<q[1], q[2], q[3]>>
    BY PathIs, Zenon
  <2> QED
    BY <2>1, <2>2, <2>3, Zenon
<1>3. /\ Len(p) = 2 => v(1) = Ref(d) /\ p[2] = l /\ Points(hp, ob[h], p[1], d)
      /\ Len(p) = 3 => /\ v(2) = Ref(d) /\ p[3] = l /\ v(1).kind = "ref"
                       /\ Points(hp, ob[h], p[1], v(1).of) /\ Points(hp, v(1).of, p[2], d)
  <2>1. CASE Len(p) = 2
    <3>1. v(1) = Ref(d) /\ p[2] = l
      BY <2>1 DEF Ends
    <3>2. Points(hp, ob[h], p[1], v(1).of)
      BY <1>0, <1>1, <1>2, <2>1, <3>1, DownFacts
    <3> QED
      BY <1>1, <2>1, <3>1, <3>2
  <2>2. CASE Len(p) = 3
    <3>1. v(2) = Ref(d) /\ p[3] = l
      BY <2>2 DEF Ends
    <3>2. /\ v(1).kind = "ref"
          /\ Points(hp, ob[h], p[1], v(1).of) /\ Points(hp, v(1).of, p[2], v(2).of)
      <4>1. v(2).kind = "ref" /\ 2 \in 1..Len(p)
        BY <1>1, <1>2, <2>2, <3>1
      <4> QED
        BY <1>0, <4>1, DownFacts
    <3> QED
      BY <1>1, <2>2, <3>1, <3>2
  <2> QED
    BY <2>1, <2>2
<1>4. /\ Len(q) = 2 => w(1) = Ref(d) /\ q[2] = l /\ Points(hp, ob[f], q[1], d)
      /\ Len(q) = 3 => /\ w(2) = Ref(d) /\ q[3] = l /\ w(1).kind = "ref"
                       /\ Points(hp, ob[f], q[1], w(1).of) /\ Points(hp, w(1).of, q[2], d)
  <2>1. CASE Len(q) = 2
    <3>1. w(1) = Ref(d) /\ q[2] = l
      BY <2>1 DEF Ends
    <3>2. Points(hp, ob[f], q[1], w(1).of)
      BY <1>0, <1>1, <1>2, <2>1, <3>1, DownFacts
    <3> QED
      BY <1>1, <2>1, <3>1, <3>2
  <2>2. CASE Len(q) = 3
    <3>1. w(2) = Ref(d) /\ q[3] = l
      BY <2>2 DEF Ends
    <3>2. /\ w(1).kind = "ref"
          /\ Points(hp, ob[f], q[1], w(1).of) /\ Points(hp, w(1).of, q[2], w(2).of)
      <4>1. w(2).kind = "ref" /\ 2 \in 1..Len(q)
        BY <1>1, <1>2, <2>2, <3>1
      <4> QED
        BY <1>0, <4>1, DownFacts
    <3> QED
      BY <1>1, <2>2, <3>1, <3>2
  <2> QED
    BY <2>1, <2>2
<1>5. \A k \in 1..(Len(q) - 1) : w(k).kind = "ref" => hp[w(k).of].kind # "object" /\ w(k).of \notin le
  BY DEF Safe
<1>6. (Len(p) = 2 \/ Len(p) = 3) /\ (Len(q) = 2 \/ Len(q) = 3)
  BY DEF Ends
<1> HIDE DEF v, w
<1>7. hp[d].kind # "object" /\ d \notin le
  BY <1>1, <1>2, <1>4, <1>5, <1>6
<1>8. CASE Len(q) = 2 /\ Len(p) = 2
  <2>1. ob[f] = ob[h] /\ q[1] = p[1] /\ q[2] = p[2]
    BY <1>0, <1>3, <1>4, <1>7, <1>8
  <2> QED
    BY <1>0, <1>2, <1>8, <2>1
<1>9. CASE Len(q) = 2 /\ Len(p) = 3
  BY <1>0, <1>3, <1>4, <1>7, <1>9
<1>10. CASE Len(q) = 3 /\ Len(p) = 2
  BY <1>0, <1>3, <1>4, <1>7, <1>10
<1>11. CASE Len(q) = 3 /\ Len(p) = 3
  <2>1. w(1).of = v(1).of /\ q[2] = p[2] /\ q[3] = p[3]
    BY <1>0, <1>3, <1>4, <1>7, <1>11
  <2>2. hp[w(1).of].kind # "object" /\ w(1).of \notin le
    BY <1>2, <1>4, <1>5, <1>11
  <2>3. ob[f] = ob[h] /\ q[1] = p[1]
    BY <1>0, <1>3, <1>4, <1>11, <2>1, <2>2
  <2> QED
    BY <1>0, <1>2, <1>11, <2>1, <2>3
<1> QED
  BY <1>6, <1>8, <1>9, <1>10, <1>11

\* The leaf under l of d is changed to x.
Set(hp, d, l, x) == [hp EXCEPT ![d].at[l] = Leaf("scalar", x)]

LEMMA SetCells ==
  ASSUME NEW hp, Sound(hp), NEW d \in 1..Len(hp), NEW l \in DOMAIN hp[d].at,
         IsLeaf(hp[d].at[l]), NEW x \in Nat
  PROVE  LET hp2 == Set(hp, d, l, x) IN
         /\ hp2 \in Seq(CellType) /\ Len(hp2) = Len(hp)
         /\ \A e \in 1..Len(hp) \ {d} : hp2[e] = hp[e]
         /\ hp2[d].kind = hp[d].kind /\ DOMAIN hp2[d].at = DOMAIN hp[d].at
         /\ hp2[d].at[l] = Leaf("scalar", x)
         /\ \A i \in DOMAIN hp[d].at \ {l} : hp2[d].at[i] = hp[d].at[i]
<1> DEFINE new  == [hp[d].at EXCEPT ![l] = Leaf("scalar", x)]
           base == [hp EXCEPT ![d] = Cell(hp[d].kind, new)]
<1>0. hp \in Seq(CellType) /\ hp[d] \in CellType
  BY CellFacts DEF Sound
<1>1. PICK k, a : hp[d] = [kind |-> k, at |-> a]
  BY <1>0, CellShape DEF Cell
<1>2. /\ hp[d].kind = k /\ k \in CellKind \cup {"unused"}
      /\ hp[d].at = a /\ DOMAIN a \subseteq Key /\ a \in [DOMAIN a -> Held]
  BY <1>0, <1>1, CellShape
<1>3. Leaf("scalar", x) \in Held
  BY DEF Leaf, Held, LeafKind
<1>4. new \in [DOMAIN a -> Held] /\ DOMAIN new = DOMAIN a
  BY <1>2, <1>3
<1>5. new[l] = Leaf("scalar", x) /\ \A i \in DOMAIN a \ {l} : new[i] = a[i]
  BY <1>2
<1>6. Set(hp, d, l, x) = base
  <2>1. Set(hp, d, l, x) = [hp EXCEPT ![d] = [hp[d] EXCEPT !.at = new]]
    BY DEF Set
  <2> HIDE DEF new
  <2>3. [hp[d] EXCEPT !.at = new] = [kind |-> k, at |-> new]
    BY <1>1
  <2> QED
    BY <1>2, <2>1, <2>3 DEF Cell
<1> HIDE DEF new
<1>7. Cell(hp[d].kind, new) \in CellType
  <2>1. new \in [DOMAIN a -> Held] /\ DOMAIN a \in SUBSET Key
    BY <1>2, <1>4
  <2> QED
    BY <1>2, <2>1 DEF Cell, CellType
<1>8. /\ base \in Seq(CellType) /\ Len(base) = Len(hp)
      /\ base[d] = Cell(hp[d].kind, new)
      /\ \A e \in 1..Len(hp) \ {d} : base[e] = hp[e]
  BY <1>0, <1>7
<1>9. base[d].kind = hp[d].kind /\ base[d].at = new
  BY <1>8 DEF Cell
<1> HIDE DEF base
<1>10. /\ base \in Seq(CellType) /\ Len(base) = Len(hp)
       /\ \A e \in 1..Len(hp) \ {d} : base[e] = hp[e]
       /\ base[d].kind = hp[d].kind /\ DOMAIN base[d].at = DOMAIN hp[d].at
       /\ base[d].at[l] = Leaf("scalar", x)
       /\ \A i \in DOMAIN hp[d].at \ {l} : base[d].at[i] = hp[d].at[i]
  BY <1>2, <1>4, <1>5, <1>8, <1>9
<1> QED
  BY <1>6, <1>10

\* A change of a leaf leaves the references alone.
LEMMA SetOwned ==
  ASSUME NEW hp, Sound(hp), NEW d \in 1..Len(hp), NEW l \in DOMAIN hp[d].at,
         IsLeaf(hp[d].at[l]), NEW x \in Nat, NEW ob, NEW le, Owned(hp, ob, le)
  PROVE  Sound(Set(hp, d, l, x)) /\ Owned(Set(hp, d, l, x), ob, le)
<1> DEFINE hp2 == Set(hp, d, l, x)
<1>1. /\ hp2 \in Seq(CellType) /\ Len(hp2) = Len(hp)
      /\ \A e \in 1..Len(hp) \ {d} : hp2[e] = hp[e]
      /\ hp2[d].kind = hp[d].kind /\ DOMAIN hp2[d].at = DOMAIN hp[d].at
      /\ hp2[d].at[l] = Leaf("scalar", x)
      /\ \A i \in DOMAIN hp[d].at \ {l} : hp2[d].at[i] = hp[d].at[i]
  BY SetCells
<1> HIDE DEF hp2
<1>2. \A e \in 1..Len(hp) : hp2[e].kind = hp[e].kind
  BY <1>1
<1>3. ASSUME NEW b, NEW i, NEW e, Points(hp2, b, i, e) PROVE Points(hp, b, i, e)
  <2>1. hp2[b].at[i] # Leaf("scalar", x)
    BY <1>3 DEF Points, Leaf, Ref
  <2> QED
    BY <1>1, <1>3, <2>1 DEF Points
<1>4. \A b, i, e : Points(hp2, b, i, e) => e \in 1..Len(hp) /\ hp[e].kind # "unused"
  BY <1>3 DEF Sound
<1>5. ASSUME NEW b \in 1..Len(hp), hp2[b].kind = "pointer"
      PROVE  DOMAIN hp2[b].at = {1} /\ IsLeaf(hp2[b].at[1])
  <2>1. DOMAIN hp[b].at = {1} /\ IsLeaf(hp[b].at[1])
    BY <1>2, <1>5 DEF Sound
  <2>2. IsLeaf(Leaf("scalar", x))
    BY DEF IsLeaf, Leaf, LeafKind
  <2> QED
    BY <1>1, <2>1, <2>2
<1>6. \A b, i, y, j, e : Points(hp2, b, i, y) /\ Points(hp2, y, j, e) =>
        \A k, f : ~Points(hp2, e, k, f)
  BY <1>3 DEF Sound
<1>7. Sound(hp2)
  BY <1>1, <1>2, <1>4, <1>5, <1>6 DEF Sound
<1>8. Owned(hp2, ob, le)
  <2>1. \A h \in Handle : ob[h] # 0 => ob[h] \in 1..Len(hp)
    BY CellFacts DEF Owned, Sound
  <2>2. \A h \in Handle : ob[h] # 0 => hp2[ob[h]].kind = "object"
    BY <1>2, <2>1 DEF Owned
  <2>3. \A h \in Handle : ob[h] # 0 => \A c, i : ~Points(hp2, c, i, ob[h])
    BY <1>3 DEF Owned
  <2>4. ASSUME NEW c, NEW i, NEW b, NEW j, NEW e,
               Points(hp2, c, i, e), Points(hp2, b, j, e), hp2[e].kind # "object"
        PROVE  \/ c = b /\ i = j
               \/ e \in le /\ c # b /\ TopOf(ob, c) /\ TopOf(ob, b)
    <3>1. Points(hp, c, i, e) /\ Points(hp, b, j, e) /\ hp[e].kind # "object"
      BY <1>2, <1>3, <1>4, <2>4
    <3> QED
      BY <3>1 DEF Owned
  <2>5. /\ ob \in [Handle -> 0..Len(hp2)] /\ le \subseteq 1..Len(hp2)
        /\ \A g, h \in Handle : ob[g] = ob[h] /\ ob[g] # 0 => g = h
    BY <1>1 DEF Owned
  <2> QED
    BY <2>2, <2>3, <2>4, <2>5 DEF Owned
<1> QED
  BY <1>7, <1>8 DEF hp2

\* It shows on the paths that end there, and on no other.
LEMMA SetDown ==
  ASSUME NEW hp, Sound(hp), NEW d \in 1..Len(hp), NEW l \in DOMAIN hp[d].at,
         IsLeaf(hp[d].at[l]), NEW x \in Nat,
         NEW c \in 1..Len(hp), c # d, NEW p \in Path
  PROVE  LET hp2 == Set(hp, d, l, x) IN
         /\ \A k \in 1..(Len(p) - 1) :
              /\ Down(hp2, c, p, k).kind = "ref" <=> Down(hp, c, p, k).kind = "ref"
              /\ Down(hp, c, p, k).kind = "ref" => Down(hp2, c, p, k) = Down(hp, c, p, k)
         /\ Ends(hp, c, p, d, l) => At(hp2, c, p) = Leaf("scalar", x)
         /\ ~Ends(hp, c, p, d, l) => At(hp2, c, p) = At(hp, c, p)
<1> DEFINE hp2  == Set(hp, d, l, x)
           v(k) == Down(hp, c, p, k)
           w(k) == Down(hp2, c, p, k)
           new  == Leaf("scalar", x)
<1>1. /\ Len(hp2) = Len(hp)
      /\ \A e \in 1..Len(hp) \ {d} : hp2[e] = hp[e]
      /\ DOMAIN hp2[d].at = DOMAIN hp[d].at
      /\ hp2[d].at[l] = new
      /\ \A i \in DOMAIN hp[d].at \ {l} : hp2[d].at[i] = hp[d].at[i]
  BY SetCells
<1>2. /\ v(1) = Step(hp, Ref(c), p[1]) /\ w(1) = Step(hp2, Ref(c), p[1])
      /\ v(2) = Step(hp, v(1), p[2]) /\ w(2) = Step(hp2, w(1), p[2])
      /\ v(3) = Step(hp, v(2), p[3]) /\ w(3) = Step(hp2, w(2), p[3])
  BY DownSteps
<1>3. /\ Ref(c).kind = "ref" /\ Ref(c).of = c /\ Nowhere.kind # "ref"
      /\ \A u : IsLeaf(u) => u.kind # "ref"
      /\ IsLeaf(new)
  BY DEF Ref, Nowhere, Leaf, IsLeaf, LeafKind
<1>4. /\ v(1).kind = "ref" => v(1) = Ref(v(1).of) /\ v(1).of \in 1..Len(hp)
      /\ v(2).kind = "ref" => v(2) = Ref(v(2).of) /\ v(2).of \in 1..Len(hp)
  <2>1. /\ v(1).kind = "ref" => v(1) = Ref(v(1).of) /\ v(1).of \in 1..Len(hp)
    BY <1>2, <1>3, StepFacts
  <2> QED
    BY <1>2, <1>3, <2>1, StepFacts
<1>5. /\ At(hp, c, p) = v(Len(p)) /\ At(hp2, c, p) = w(Len(p))
      /\ Len(p) \in {1, 2, 3}
  BY PathFacts DEF At
<1> HIDE DEF hp2, v, w
<1>6. ASSUME NEW u, u.kind = "ref" => u = Ref(u.of) /\ u.of \in 1..Len(hp), NEW i
      PROVE  /\ u = Ref(d) /\ i = l => Step(hp2, u, i) = new /\ IsLeaf(Step(hp, u, i))
             /\ ~(u = Ref(d) /\ i = l) => Step(hp2, u, i) = Step(hp, u, i)
  <2>1. CASE u = Ref(d) /\ i = l
    <3>1. u.kind = "ref" /\ u.of = d
      BY <2>1 DEF Ref
    <3> QED
      BY <1>1, <2>1, <3>1 DEF Step
  <2>2. CASE ~(u = Ref(d) /\ i = l)
    BY <1>1, <1>6, <2>2 DEF Step
  <2> QED
    BY <2>1, <2>2
<1>7. w(1) = v(1)
  <2>1. hp2[c] = hp[c]
    BY <1>1
  <2> QED
    BY <1>2, <1>3, <2>1 DEF Step
<1>8. /\ v(1) = Ref(d) /\ p[2] = l => w(2) = new /\ IsLeaf(v(2))
      /\ ~(v(1) = Ref(d) /\ p[2] = l) => w(2) = v(2)
  BY <1>2, <1>4, <1>6, <1>7
<1>9. w(2).kind = "ref" <=> v(2).kind = "ref"
  BY <1>3, <1>8
<1>10. v(2).kind = "ref" => w(2) = v(2)
  BY <1>3, <1>8
<1>11. /\ v(2) = Ref(d) /\ p[3] = l => w(3) = new
       /\ ~(v(2) = Ref(d) /\ p[3] = l) => w(3) = v(3)
  <2>1. CASE v(2).kind = "ref"
    BY <1>2, <1>4, <1>6, <1>10, <2>1
  <2>2. CASE v(2).kind # "ref"
    <3>1. v(2) # Ref(d)
      BY <2>2 DEF Ref
    <3>2. w(3) = Nowhere /\ v(3) = Nowhere
      BY <1>2, <1>9, <2>2 DEF Step
    <3> QED
      BY <3>1, <3>2
  <2> QED
    BY <2>1, <2>2
<1>12. /\ \A k \in 1..(Len(p) - 1) :
              /\ w(k).kind = "ref" <=> v(k).kind = "ref"
              /\ v(k).kind = "ref" => w(k) = v(k)
  <2>1. \A k \in 1..(Len(p) - 1) : k \in {1, 2}
    BY PathFacts
  <2> QED
    BY <1>7, <1>9, <1>10, <2>1
<1>13. Ends(hp, c, p, d, l) <=> \/ Len(p) = 2 /\ v(1) = Ref(d) /\ p[2] = l
                                \/ Len(p) = 3 /\ v(2) = Ref(d) /\ p[3] = l
  BY DEF Ends, v
<1>14. /\ Ends(hp, c, p, d, l) => w(Len(p)) = new
       /\ ~Ends(hp, c, p, d, l) => w(Len(p)) = v(Len(p))
  <2>1. CASE Len(p) = 1
    BY <1>7, <1>13, <2>1
  <2>2. CASE Len(p) = 2
    BY <1>8, <1>13, <2>2
  <2>3. CASE Len(p) = 3
    BY <1>11, <1>13, <2>3
  <2> QED
    BY <1>5, <2>1, <2>2, <2>3
<1> QED
  BY <1>5, <1>12, <1>14 DEF hp2, v, w

\* What is meant then.
SetMeant(me, h, p, x) == [me EXCEPT ![h] = Joined([q \in {p} |-> Leaf("scalar", x)], @)]

\* Through a path that a variable has for itself no other variable changes.
LEMMA BelowInv ==
  ASSUME NEW hp, NEW ob, NEW le, NEW me, HeapInv(hp, ob, le, me),
         NEW h \in Handle, ob[h] # 0, NEW p \in Path, Len(p) > 1,
         At(hp, ob[h], p).kind = "scalar", NEW x \in Nat
  PROVE  HeapInv(Set(hp, Down(hp, ob[h], p, Len(p) - 1).of, p[Len(p)], x), ob, le,
                 SetMeant(me, h, p, x))
<1> DEFINE d   == Down(hp, ob[h], p, Len(p) - 1).of
           l   == p[Len(p)]
           hp2 == Set(hp, d, l, x)
           new == Joined([q \in {p} |-> Leaf("scalar", x)], me[h])
           me2 == [me EXCEPT ![h] = new]
<1>0. /\ Sound(hp) /\ Owned(hp, ob, le) /\ Meant(hp, ob, le, me)
      /\ \A f \in Handle : ob[f] # 0 => ob[f] \in 1..Len(hp) /\ \A b, i : ~Points(hp, b, i, ob[f])
  BY CellFacts DEF HeapInv, Owned, Sound
<1>1. /\ d \in 1..Len(hp) /\ \E b, i : Points(hp, b, i, d)
      /\ Ends(hp, ob[h], p, d, l)
      /\ l \in DOMAIN hp[d].at /\ IsLeaf(hp[d].at[l])
  BY <1>0, ScalarEnd
<1>2. /\ DOMAIN me2 = Handle /\ me2[h] = new
      /\ \A f \in Handle \ {h} : me2[f] = me[f]
      /\ \A f \in Handle : DOMAIN me[f] \subseteq Path
  BY <1>0 DEF Meant
<1>3. /\ DOMAIN new = DOMAIN me[h] \cup {p} /\ new[p] = Leaf("scalar", x)
      /\ \A q \in DOMAIN me[h] \ {p} : new[q] = me[h][q]
  BY DEF Joined
<1> HIDE DEF d, l, hp2, new, me2
<1>5. Sound(hp2) /\ Owned(hp2, ob, le)
  BY <1>0, <1>1, SetOwned DEF hp2
<1>6. /\ Len(hp2) = Len(hp) /\ \A e \in 1..Len(hp) : hp2[e].kind = hp[e].kind
  BY <1>0, <1>1, SetCells DEF hp2
<1>7. ASSUME NEW f \in Handle PROVE DOMAIN me2[f] \subseteq Path
  BY <1>2, <1>3
<1>8. ASSUME NEW f \in Handle, ob[f] # 0, NEW q \in Path
      PROVE  Keeps(hp2, ob[f], le, me2[f], q)
  <2>1. PICK c \in 1..Len(hp) : c = ob[f] /\ c # d
    BY <1>0, <1>1, <1>8
  <2>2. Keeps(hp, c, le, me[f], q)
    BY <1>0, <1>8, <2>1 DEF Meant
  <2>3. \A k \in 1..(Len(q) - 1) :
              /\ Down(hp2, c, q, k).kind = "ref" <=> Down(hp, c, q, k).kind = "ref"
              /\ Down(hp, c, q, k).kind = "ref" => Down(hp2, c, q, k) = Down(hp, c, q, k)
    BY <1>0, <1>1, <2>1, SetDown DEF hp2
  <2>4. /\ Ends(hp, c, q, d, l) => At(hp2, c, q) = Leaf("scalar", x)
        /\ ~Ends(hp, c, q, d, l) => At(hp2, c, q) = At(hp, c, q)
    BY <1>0, <1>1, <2>1, SetDown DEF hp2
  <2>5. ASSUME NEW k \in 1..(Len(q) - 1), Down(hp, c, q, k).kind = "ref"
        PROVE  hp2[Down(hp2, c, q, k).of].kind = hp[Down(hp, c, q, k).of].kind
    <3>1. Down(hp, c, q, k).of \in 1..Len(hp)
      BY <1>0, <2>5, PathFacts, DownFacts
    <3> QED
      BY <1>6, <2>3, <2>5, <3>1
  <2>6. Safe(hp2, c, le, q) => Safe(hp, c, le, q)
    BY <2>3, <2>5 DEF Safe
  <2>7. Behind(hp, c, q) => Behind(hp2, c, q)
    BY <2>3, <2>5 DEF Behind
  <2>8. CASE Ends(hp, c, q, d, l)
    <3>1. Safe(hp2, c, le, q) => f = h /\ q = p
      BY <1>0, <1>1, <1>8, <2>1, <2>6, <2>8, EndsOnce
    <3>2. IsLeaf(Leaf("scalar", x))
      BY DEF IsLeaf, Leaf, LeafKind
    <3> QED
      BY <1>2, <1>3, <2>1, <2>4, <2>8, <3>1, <3>2 DEF Keeps
  <2>9. CASE ~Ends(hp, c, q, d, l)
    <3>1. ~(f = h /\ q = p)
      BY <1>1, <2>1, <2>9
    <3>2. /\ q \in DOMAIN me2[f] <=> q \in DOMAIN me[f]
          /\ q \in DOMAIN me[f] => me2[f][q] = me[f][q]
      BY <1>2, <1>3, <3>1
    <3> QED
      BY <2>1, <2>2, <2>4, <2>6, <2>7, <2>9, <3>2 DEF Keeps
  <2> QED
    BY <2>8, <2>9
<1>9. HeapInv(hp2, ob, le, me2)
  BY <1>2, <1>5, <1>7, <1>8 DEF HeapInv, Meant
<1> QED
  BY <1>9 DEF hp2, me2, new, d, l, SetMeant

-----------------------------------------------------------------------------
(* The steps of the test's code *)

\* A fresh heap, with any literal in Base.
LEMMA StartInv ==
  ASSUME NEW shape \in Shape, NEW x \in Nat
  PROVE  HeapInv(StartHeap(shape, x), StartObj, {}, StartMeant(shape, x))
<1> DEFINE hp == <<Cell("object", <<>>)>>
           me == [h \in Handle |-> <<>>]
<1>1. Cell("object", <<>>) \in CellType
  <2>1. <<>> \in [{} -> Held] /\ {} \in SUBSET Key
    OBVIOUS
  <2> QED
    BY <2>1 DEF Cell, CellType, CellKind
<1>2. /\ hp \in Seq(CellType) /\ Len(hp) = 1
      /\ \A c \in 1..Len(hp) : c = 1 /\ hp[c].kind = "object" /\ hp[c].at = <<>>
  BY <1>1 DEF Cell
<1>3. Base \in Handle /\ 1 \in Key
  BY ValuesAssumption
<1> HIDE DEF hp
<1>4. \A b, i, e : ~Points(hp, b, i, e)
  BY <1>2 DEF Points
<1>5. Sound(hp)
  BY <1>2, <1>4 DEF Sound
<1>6. /\ StartObj \in [Handle -> 0..1] /\ StartObj[Base] = 1
      /\ \A h \in Handle : StartObj[h] # 0 => h = Base /\ StartObj[h] = 1
  BY <1>3 DEF StartObj
<1>7. Owned(hp, StartObj, {})
  BY <1>2, <1>4, <1>6 DEF Owned
<1>8. ASSUME NEW p \in Path PROVE Keeps(hp, 1, {}, <<>>, p)
  <2>1. ~IsLeaf(At(hp, 1, p))
    BY <1>2, LeafKey
  <2> QED
    BY <2>1 DEF Keeps
<1>9. Meant(hp, StartObj, {}, me)
  <2>1. DOMAIN me = Handle /\ \A h \in Handle : me[h] = <<>> /\ DOMAIN me[h] \subseteq Path
    OBVIOUS
  <2> HIDE DEF me
  <2> QED
    BY <1>6, <1>8, <2>1 DEF Meant
<1>10. HeapInv(hp, StartObj, {}, me)
  BY <1>5, <1>7, <1>9 DEF HeapInv
<1>11. HeapInv(WithLiteral(hp, 1, 1, Literal(shape, x, 1)), StartObj, {},
               [me EXCEPT ![Base] = Put(@, 1, shape, x)])
  <2>1. HeapInv(WithLiteral(hp, StartObj[Base], 1, Literal(shape, x, Len(hp))), StartObj, {},
               [me EXCEPT ![Base] = Put(@, 1, shape, x)])
    BY <1>3, <1>6, <1>10, PutInv
  <2> QED
    BY <1>2, <1>6, <2>1
<1>12. [me EXCEPT ![Base] = Put(@, 1, shape, x)] = StartMeant(shape, x)
  BY <1>3 DEF StartMeant
<1>13. WithLiteral(hp, 1, 1, Literal(shape, x, 1)) = StartHeap(shape, x)
  BY DEF StartHeap, hp
<1> QED
  BY <1>11, <1>12, <1>13

\* One step of the test each.
LEMMA AssignInv ==
  ASSUME HeapInv(heap, obj, lent, meant),
         NEW h \in Handle, NEW k \in Key, NEW shape \in Shape, NEW x \in Nat,
         Assign(h, k, shape, x)
  PROVE  HeapInv(heap', obj', lent', meant')
<1>1. HeapInv(WithLiteral(heap, obj[h], k, Literal(shape, x, Len(heap))), obj, lent,
              [meant EXCEPT ![h] = Put(@, k, shape, x)])
  BY PutInv DEF Assign
<1> QED
  BY <1>1 DEF Assign

LEMMA AssignBelowInv ==
  ASSUME HeapInv(heap, obj, lent, meant),
         NEW h \in Handle, NEW p \in Path, NEW x \in Nat, AssignBelow(h, p, x)
  PROVE  HeapInv(heap', obj', lent', meant')
<1>0. obj[h] # 0 /\ Len(p) > 1 /\ At(heap, obj[h], p).kind = "scalar"
  BY DEF AssignBelow
<1>1. HeapInv(Set(heap, Down(heap, obj[h], p, Len(p) - 1).of, p[Len(p)], x), obj, lent,
              SetMeant(meant, h, p, x))
  BY <1>0, BelowInv
<1> QED
  BY <1>1 DEF AssignBelow, Set, SetMeant

LEMMA DeepCopyInv ==
  ASSUME HeapInv(heap, obj, lent, meant), NEW g \in Handle, NEW h \in Handle, DeepCopy(g, h)
  PROVE  HeapInv(heap', obj', lent', meant')
<1>1. HeapInv(DeepCopied(heap, obj[h]), [obj EXCEPT ![g] = CopyOf(heap, obj[h])], lent,
              [meant EXCEPT ![g] = Reads(heap, obj[h])])
  BY CopyInv DEF DeepCopy
<1> QED
  BY <1>1 DEF DeepCopy

\* The copy is a new object, that nothing is lent of.
LEMMA CopyIsSome ==
  ASSUME NEW hp, NEW ob, NEW le, NEW me, HeapInv(hp, ob, le, me),
         NEW h \in Handle, ob[h] # 0, NEW g \in Handle, ob[g] = 0
  PROVE  /\ CopyOf(hp, ob[h]) # 0
         /\ DOMAIN me = Handle /\ DOMAIN ob = Handle
         /\ ob[h] \in 1..Len(hp) /\ hp[ob[h]].kind = "object"
         /\ Sound(hp) /\ le \subseteq 1..Len(hp)
         /\ \A d \in 1..Len(hp) : DeepCopied(hp, ob[h])[d] = hp[d]
         /\ NoneLent(DeepCopied(hp, ob[h]), CopyOf(hp, ob[h]), le)
<1>0. Sound(hp) /\ Owned(hp, ob, le) /\ Meant(hp, ob, le, me) /\ Len(hp) \in Nat
  BY CellFacts DEF HeapInv, Sound
<1>1. /\ ob \in [Handle -> 0..Len(hp)] /\ le \subseteq 1..Len(hp)
      /\ hp[ob[h]].kind = "object" /\ DOMAIN me = Handle
  BY <1>0 DEF Owned, Meant
<1>2. PICK c \in 1..Len(hp) : c = ob[h]
  BY <1>0, <1>1
<1>3. \A d \in 1..Len(hp) : DeepCopied(hp, c)[d] = hp[d]
  BY <1>0, CopyCells
<1>4. Len(hp) + c # 0 /\ \A y \in 1..Len(hp) : Len(hp) + y \notin 1..Len(hp)
  BY <1>0
<1>5. ASSUME NEW i, NEW e, Points(DeepCopied(hp, c), Len(hp) + c, i, e),
             DeepCopied(hp, c)[e].kind # "object", e \in le
      PROVE  FALSE
  <2>1. ~Points(hp, Len(hp) + c, i, e)
    BY <1>4 DEF Points
  <2>2. PICK y, d :
               /\ y \in Copied(hp, c) /\ Points(hp, y, i, d)
               /\ \/ d \in Copied(hp, c) /\ e = Len(hp) + d
                  \/ d \notin Copied(hp, c) /\ e = d /\ hp[d].kind = "object"
    BY <1>0, <1>1, <1>2, <1>5, <2>1, CopyPoints
  <2>3. d \in 1..Len(hp)
    BY <1>0, <2>2 DEF Sound
  <2>4. e \in 1..Len(hp)
    BY <1>1, <1>5
  <2> QED
    BY <1>3, <1>4, <1>5, <2>2, <2>3, <2>4
<1> QED
  BY <1>0, <1>1, <1>2, <1>3, <1>4, <1>5 DEF CopyOf, NoneLent

LEMMA WithInv ==
  ASSUME HeapInv(heap, obj, lent, meant), NEW g \in Handle, NEW h \in Handle,
         NEW k \in Key, NEW shape \in Shape, NEW x \in Nat, With(g, h, k, shape, x)
  PROVE  HeapInv(heap', obj', lent', meant')
<1> DEFINE hp == DeepCopied(heap, obj[h])
           c  == CopyOf(heap, obj[h])
           ob == [obj EXCEPT ![g] = c]
           me == [meant EXCEPT ![g] = Reads(heap, obj[h])]
<1>1. obj[h] # 0 /\ obj[g] = 0
  BY DEF With
<1>2. HeapInv(hp, ob, lent, me)
  BY <1>1, CopyInv
<1>3. ob[g] = c /\ c # 0 /\ me[g] = Reads(heap, obj[h])
  BY <1>1, CopyIsSome
<1>4. [me EXCEPT ![g] = Put(me[g], k, shape, x)]
        = [meant EXCEPT ![g] = Put(Reads(heap, obj[h]), k, shape, x)]
  BY <1>3
<1>5. /\ heap' = WithLiteral(hp, c, k, Literal(shape, x, Len(hp)))
      /\ obj' = ob /\ lent' = lent
      /\ meant' = [meant EXCEPT ![g] = Put(Reads(heap, obj[h]), k, shape, x)]
  BY DEF With
<1> HIDE DEF hp, c, ob, me
<1>6. HeapInv(WithLiteral(hp, ob[g], k, Literal(shape, x, Len(hp))), ob, lent,
              [me EXCEPT ![g] = Put(@, k, shape, x)])
  BY <1>2, <1>3, PutInv
<1> QED
  BY <1>3, <1>4, <1>5, <1>6

LEMMA MergedFromInv ==
  ASSUME HeapInv(heap, obj, lent, meant), NEW g \in Handle, NEW h \in Handle,
         NEW t \in Handle, MergedFrom(g, h, t)
  PROVE  HeapInv(heap', obj', lent', meant')
<1> DEFINE hp  == DeepCopied(heap, obj[h])
           c   == CopyOf(heap, obj[h])
           a   == obj[t]
           old == Reads(heap, obj[h])
           ob  == [obj EXCEPT ![g] = c]
           me  == [meant EXCEPT ![g] = old]
           m   == Joined(Reads(heap, a), [p \in {q \in DOMAIN old : q[1] \notin DOMAIN heap[a].at} |-> old[p]])
<1>1. obj[h] # 0 /\ obj[g] = 0 /\ obj[t] # 0 /\ g # t
  BY DEF MergedFrom
<1>2. HeapInv(hp, ob, lent, me)
  BY <1>1, CopyInv
<1>3. /\ c # 0 /\ Sound(heap)
      /\ \A d \in 1..Len(heap) : hp[d] = heap[d]
      /\ NoneLent(hp, c, lent)
      /\ DOMAIN meant = Handle /\ DOMAIN obj = Handle
  <2>1. c # 0 /\ Sound(heap) /\ DOMAIN meant = Handle /\ DOMAIN obj = Handle
    BY <1>1, CopyIsSome
  <2>2. \A d \in 1..Len(heap) : hp[d] = heap[d]
    BY <1>1, CopyIsSome
  <2>3. NoneLent(hp, c, lent)
    BY <1>1, CopyIsSome
  <2> QED
    BY <2>1, <2>2, <2>3
<1>4. ob[g] = c /\ ob[t] = a /\ me[g] = old /\ a \in 1..Len(heap)
  BY <1>1, <1>3, CopyIsSome
<1>5. Reads(hp, a) = Reads(heap, a) /\ Under(hp, a) = Under(heap, a) /\ hp[a] = heap[a]
  BY <1>3, <1>4, ReadsSame
<1>6. /\ heap' = [hp EXCEPT ![c].at = Joined(heap[a].at, @)]
      /\ obj' = ob /\ lent' = lent \cup Under(heap, a)
      /\ meant' = [meant EXCEPT ![g] = m]
  BY DEF MergedFrom
<1>7. [me EXCEPT ![g] = m] = [meant EXCEPT ![g] = m]
  BY <1>3
<1> HIDE DEF hp, c, a, old, ob, me
<1>8. HeapInv(Merged(hp, ob[g], ob[t]), ob, lent \cup Under(hp, ob[t]), MergedMeant(hp, ob, me, g, t))
  <2>1. NoneLent(hp, ob[g], lent)
    BY <1>3, <1>4
  <2>2. ob[g] # 0 /\ ob[t] # 0
    BY <1>1, <1>3, <1>4 DEF a
  <2> QED
    BY <1>1, <1>2, <2>1, <2>2, MergeInv
<1>9. HeapInv(Merged(hp, c, a), ob, lent \cup Under(heap, a), [me EXCEPT ![g] = m])
  BY <1>4, <1>5, <1>8 DEF MergedMeant
<1>10. Merged(hp, c, a) = heap'
  BY <1>5, <1>6 DEF Merged
<1> QED
  BY <1>6, <1>7, <1>9, <1>10

\* Code of the test preserves the invariant of the heap.
LEMMA TestCodeInv ==
  ASSUME HeapInv(heap, obj, lent, meant), TestCode
  PROVE  HeapInv(heap', obj', lent', meant')
<1>1. Fresh \in Nat /\ Changed \in Nat /\ Puts \subseteq Shape
  BY ValuesAssumption
<1>2. ASSUME NEW h \in Handle, NEW k \in Key, NEW shape \in Puts, Assign(h, k, shape, Fresh)
      PROVE  HeapInv(heap', obj', lent', meant')
  BY <1>1, <1>2, AssignInv
<1>3. ASSUME NEW h \in Handle, NEW p \in Path, AssignBelow(h, p, Changed)
      PROVE  HeapInv(heap', obj', lent', meant')
  BY <1>1, <1>3, AssignBelowInv
<1>4. ASSUME NEW g \in Handle, NEW h \in Handle, NEW k \in Key, NEW shape \in Puts,
             With(g, h, k, shape, Fresh)
      PROVE  HeapInv(heap', obj', lent', meant')
  BY <1>1, <1>4, WithInv
<1> QED
  BY <1>2, <1>3, <1>4, DeepCopyInv, MergedFromInv DEF TestCode

\* What the invariant of the heap says of the properties.
LEMMA HeapType ==
  ASSUME HeapInv(heap, obj, lent, meant), edits \in 0..MaxEdits
  PROVE  ValuesTypeOK
<1>1. Sound(heap) /\ Owned(heap, obj, lent) /\ Meant(heap, obj, lent, meant)
  BY DEF HeapInv
<1>2. heap \in Seq(CellType) /\ DOMAIN heap = 1..Len(heap)
  BY <1>1, CellFacts DEF Sound
<1>3. ASSUME NEW c \in DOMAIN heap
      PROVE  heap[c].kind \in CellKind \cup {"unused"} /\ DOMAIN heap[c].at \subseteq Key
  BY <1>2, CellFacts, CellShape
<1>4. ASSUME NEW c \in DOMAIN heap, NEW i \in DOMAIN heap[c].at
      PROVE  IsLeaf(heap[c].at[i]) \/ (heap[c].at[i].kind = "ref" /\ heap[c].at[i].of \in DOMAIN heap)
  <2>1. \/ heap[c].at[i].kind = "ref" /\ heap[c].at[i] = Ref(heap[c].at[i].of)
        \/ IsLeaf(heap[c].at[i])
    BY <1>2, CellFacts
  <2>2. PICK e : e = heap[c].at[i].of
    OBVIOUS
  <2>3. heap[c].at[i] = Ref(e) => Points(heap, c, i, e)
    BY <1>2 DEF Points
  <2>4. Points(heap, c, i, e) => e \in 1..Len(heap)
    BY <1>1 DEF Sound
  <2> QED
    BY <1>2, <2>1, <2>2, <2>3, <2>4
<1>5. obj \in [Handle -> 0..Len(heap)] /\ lent \subseteq DOMAIN heap
  BY <1>1, <1>2 DEF Owned
<1>6. \A h \in Handle : DOMAIN meant[h] \subseteq Path
  BY <1>1 DEF Meant
<1> QED
  BY <1>3, <1>4, <1>5, <1>6 DEF ValuesTypeOK

LEMMA HeapHolds ==
  ASSUME HeapInv(heap, obj, lent, meant)
  PROVE  MeantIsHeld
<1> SUFFICES ASSUME NEW h \in Handle, obj[h] # 0,
                    NEW p \in DOMAIN Reads(heap, obj[h]) \cup DOMAIN meant[h], Own(h, p)
             PROVE  /\ p \in DOMAIN Reads(heap, obj[h]) \cap DOMAIN meant[h]
                    /\ \/ Reads(heap, obj[h])[p] = meant[h][p]
                       \/ Pointed(h, p) /\ Reads(heap, obj[h])[p] = Zero
  BY DEF MeantIsHeld, HoldsWhatWasMeant
<1>1. p \in Path
  BY DEF Reads, HeapInv, Meant
<1>2. Keeps(heap, obj[h], lent, meant[h], p)
  BY <1>1 DEF HeapInv, Meant
<1>3. Safe(heap, obj[h], lent, p)
  BY DEF Own, Along, Safe
<1>4. Behind(heap, obj[h], p) => Pointed(h, p)
  BY DEF Behind, Along, Pointed
<1>5. /\ p \in DOMAIN Reads(heap, obj[h]) <=> IsLeaf(At(heap, obj[h], p))
      /\ p \in DOMAIN Reads(heap, obj[h]) => Reads(heap, obj[h])[p] = At(heap, obj[h], p)
  BY <1>1 DEF Reads
<1> QED
  BY <1>2, <1>3, <1>4, <1>5 DEF Keeps

-----------------------------------------------------------------------------
(* The suite *)

Early == phase \in {"code", "repos", "add", "refused"}

\* What belongs to which phase.
PhasesInv ==
  /\ phase \in {"code", "repos", "add"} => reported = {}
  /\ \A r \in Deployed :
       /\ Early => pc[r] = "waiting" /\ undo[r] = "no"
       /\ pc[r] \in {"values", "update", "upgrade", "wait"} => phase = "tasks"
       /\ undo[r] # "no" => phase \in {"cleanup", "over"}
       /\ phase = "over" /\ pc[r] = "done" => undo[r] # "no"

\* The repositories that the loop has come by, and those that helm has added.
ReposInv ==
  /\ phase # "refused" =>
       \A r \in Deployed \ unseen : ~D(r).local => D(r).repo.name \in DOMAIN repos
  /\ \A n \in DOMAIN repos : repos[n] \in UrlsOf(n)
  /\ phase \in {"code", "repos"} => DOMAIN adding = {}
  /\ phase \in {"add", "tasks", "cleanup", "over"} => unseen = {} /\ DOMAIN adding = DOMAIN repos
  /\ \A n \in DOMAIN adding :
       /\ adding[n] = "added" => n \in DOMAIN repoFile /\ repoFile[n] = repos[n]
       /\ phase \in {"tasks", "cleanup", "over"} => adding[n] = "added"

\* What r's n-th values file is to hold.
Wanted(r, n) == Reads(heap, obj[D(r).values[n]])

\* The values files of a task that is past writing them.
FilesInv ==
  /\ phase # "code" => \A r \in Deployed : \A n \in DOMAIN D(r).values : obj[D(r).values[n]] # 0
  /\ DOMAIN file = {DirOf(r) : r \in Deployed}
  /\ \A r \in Deployed :
       /\ reported = {} /\ ~plan.noDeps
       /\ pc[r] \in {"update", "upgrade", "wait", "done"}
       => \A n \in DOMAIN D(r).values :
            n \in DOMAIN file[DirOf(r)] /\ file[DirOf(r)][n] = Wanted(r, n)

\* What the cluster has of a release that this run has brought up.
Right(r, got) ==
  /\ got.run = run
  /\ ~D(r).local => D(r).repo.name \in DOMAIN repos /\ got.url = repos[D(r).repo.name]
  /\ reported = {} => \A n \in DOMAIN D(r).values : got.values[n] = Wanted(r, n)

InstalledInv ==
  /\ \A n \in DOMAIN installed : installed[n].run \in 0..run
  /\ \A r \in Deployed :
       /\ phase = "tasks" /\ ~plan.noDeps /\ pc[r] \in {"wait", "done"}
          => NameOf(r) \in DOMAIN installed /\ Right(r, installed[NameOf(r)])
       /\ NameOf(r) \in DOMAIN installed /\ installed[NameOf(r)].run = run
          => pc[r] \in {"wait", "done"} \/ r \in reported
       /\ undo[r] = "deleted" => NameOf(r) \notin DOMAIN installed
       /\ undo[r] = "failed" => r \in reported
       /\ undo[r] = "kept" => r \in plan.keep

HeapRight == HeapInv(heap, obj, lent, meant) /\ edits \in 0..MaxEdits

\* What HelmAssumption says of the plan.
LEMMA PlanFacts ==
  ASSUME plan \in Plans
  PROVE  /\ \A r \in Deployed : D(r) \in Deployment
         /\ plan.keep \subseteq Deployed /\ plan.left \subseteq Deployed
         /\ plan.shape \in Shape /\ plan.runs \in Nat /\ 1 \in 1..plan.runs
<1>1. PICK p : p = plan /\ p \in Plans
  OBVIOUS
<1>2. /\ \A r \in DOMAIN p.deploy : p.deploy[r] \in Deployment
      /\ p.keep \cup p.left \subseteq DOMAIN p.deploy
      /\ p.shape \in Shapes /\ p.runs \in Scalar \ {0}
  BY <1>1, HelmAssumption
<1>3. Scalar \subseteq Nat /\ Shapes \subseteq Shape
  BY ValuesAssumption
<1>4. p.runs \in Nat /\ 1 \in 1..p.runs
  BY <1>2, <1>3
<1>5. p.shape \in Shape /\ p.keep \subseteq DOMAIN p.deploy /\ p.left \subseteq DOMAIN p.deploy
  BY <1>2, <1>3
<1> QED
  BY <1>1, <1>2, <1>4, <1>5 DEF D, Deployed

LEMMA HeapInit ==
  ASSUME Init
  PROVE  HeapRight
<1>1. plan.shape \in Shape /\ run = 1
  BY PlanFacts DEF Init
<1>2. HeapInv(StartHeap(plan.shape, run), StartObj, {}, StartMeant(plan.shape, run))
  BY <1>1, StartInv
<1>3. 0 \in 0..MaxEdits
  BY ValuesAssumption
<1>4. /\ heap = StartHeap(plan.shape, run) /\ obj = StartObj
      /\ edits = 0 /\ lent = {} /\ meant = StartMeant(plan.shape, run)
  BY DEF Init
<1> QED
  BY <1>2, <1>3, <1>4 DEF HeapRight

\* The values change in the test's code alone, and when the suite is run anew.
LEMMA ValuesChange ==
  ASSUME [Next]_vars
  PROVE  Code \/ Rerun \/ UNCHANGED valueVars
BY DEF Next, vars, InTask, CallSetup, StartAdds, AddsEnd, TasksEnd, CleanupEnds, AddRepo,
       SeeRelease, StartTask, WriteValues, CommandSucceeds, CommandFails, Cleanup

LEMMA PlanStays ==
  ASSUME [Next]_vars
  PROVE  plan' = plan /\ (Rerun \/ run' = run)
BY DEF Next, vars, suite, InTask, Code, Rerun, CallSetup, StartAdds, AddsEnd, TasksEnd,
       CleanupEnds, AddRepo, SeeRelease, StartTask, WriteValues, CommandSucceeds,
       CommandFails, Cleanup

\* The invariant of the heap does not depend on the suite.
LEMMA HeapNext ==
  ASSUME plan \in Plans, run \in Nat, HeapRight, [Next]_vars
  PROVE  HeapRight'
<1>1. CASE Code
  <2>1. TestCode
    BY <1>1 DEF Code
  <2>2. HeapInv(heap', obj', lent', meant')
    BY <2>1, TestCodeInv DEF HeapRight
  <2>3. edits' = edits \/ (edits < MaxEdits /\ edits' = edits + 1)
    BY <2>1 DEF TestCode, Assign, AssignBelow, DeepCopy, With, MergedFrom
  <2> QED
    BY <2>2, <2>3, ValuesAssumption DEF HeapRight
<1>2. CASE Rerun
  <2>1. plan.shape \in Shape /\ run' \in Nat
    BY <1>2, PlanFacts DEF Rerun
  <2>2. HeapInv(StartHeap(plan.shape, run'), StartObj, {}, StartMeant(plan.shape, run'))
    BY <2>1, StartInv
  <2> QED
    BY <1>2, <2>2, ValuesAssumption DEF HeapRight, Rerun
<1>3. CASE UNCHANGED valueVars
  BY <1>3 DEF valueVars, HeapRight
<1> QED
  BY <1>1, <1>2, <1>3, ValuesChange

\* Where a task goes.
LEMMA AfterFacts ==
  ASSUME NEW r
  PROVE  /\ After(r, "start") \in {"values", "update", "upgrade"}
         /\ After(r, "start") # "values" => D(r).values = <<>>
         /\ After(r, "values") \in {"update", "upgrade"}
         /\ After(r, "update") = "upgrade"
         /\ After(r, "upgrade") \in {"wait", "done"}
         /\ After(r, "wait") = "done"
BY DEF After

\* Where a step of r's task may take it, and what it reports.
Moves(r, place) == pc' = [pc EXCEPT ![r] = place]

LEMMA MovesFacts ==
  ASSUME TypeOK, NEW r \in Deployed, NEW place, Moves(r, place)
  PROVE  pc'[r] = place /\ \A s \in Deployed \ {r} : pc'[s] = pc[s]
BY DEF TypeOK, Moves

\* What each step of a task, and a Cleanup, may do.
LEMMA StartMoves ==
  ASSUME NEW r, StartTask(r)
  PROVE  /\ phase = "tasks" /\ pc[r] = "waiting"
         /\ UNCHANGED <<disk, valueVars, suite, phase, setup, undo>>
         /\ \/ plan.noDeps /\ Moves(r, "done") /\ reported' = reported
            \/ ~plan.noDeps /\ Moves(r, After(r, "start")) /\ reported' = reported
            \/ Moves(r, "panicked") /\ reported' = reported \cup {r}
BY DEF StartTask, Goto, Report, InTask, Moves

\* All files are written, unless there is a report.
LEMMA WriteMoves ==
  ASSUME NEW r, WriteValues(r)
  PROVE  /\ pc[r] = "values"
         /\ UNCHANGED <<repoFile, installed, valueVars, suite, phase, setup, undo>>
         /\ \E k \in 0..Len(D(r).values) :
              /\ file' = [file EXCEPT ![DirOf(r)] =
                            Joined([n \in 1..k |-> Reads(heap, obj[D(r).values[n]])], @)]
              /\ \/ /\ k = Len(D(r).values)
                    /\ Moves(r, After(r, "values")) /\ reported' = reported
                 \/ Moves(r, After(r, "values")) /\ reported' = reported \cup {r}
                 \/ Moves(r, "failed") /\ reported' = reported \cup {r}
<1>1. PICK k \in 0..Len(D(r).values) :
        /\ file' = [file EXCEPT ![DirOf(r)] =
             Joined([n \in 1..k |-> Reads(heap, obj[D(r).values[n]])], @)]
        /\ IF k = Len(D(r).values) THEN MktempAnswers(r, "ok")
           ELSE \E outcome \in (Outcomes(D(r).values[k + 1]) \ {"ok"})
                                 \cup (IF plan.faulty THEN {"error"} ELSE {}) :
                  MktempAnswers(r, outcome)
  BY DEF WriteValues
<1>2. CASE k = Len(D(r).values)
  <2>1. MktempAnswers(r, "ok")
    BY <1>1, <1>2
  <2>2. Moves(r, After(r, "values")) /\ reported' = reported
    BY <2>1 DEF MktempAnswers, Goto, Moves
  <2> QED
    BY <1>1, <1>2, <2>2 DEF WriteValues, InTask
<1>3. CASE k # Len(D(r).values)
  <2>1. PICK outcome \in {"error", "panic"} : MktempAnswers(r, outcome)
    BY <1>1, <1>3 DEF Outcomes
  <2>2. \/ Moves(r, After(r, "values")) /\ reported' = reported \cup {r}
        \/ Moves(r, "failed") /\ reported' = reported \cup {r}
    BY <2>1 DEF MktempAnswers, Report, Moves
  <2> QED
    BY <1>1, <2>2 DEF WriteValues, InTask
<1> QED
  BY <1>2, <1>3

LEMMA SucceedMoves ==
  ASSUME NEW r, CommandSucceeds(r)
  PROVE  /\ UNCHANGED <<repoFile, file, valueVars, suite, phase, setup, undo, reported>>
         /\ Moves(r, After(r, pc[r]))
         /\ \/ pc[r] \in {"update", "wait"} /\ installed' = installed
            \/ pc[r] = "upgrade" /\ FindsAll(r) /\ Upgrade(r)
BY DEF CommandSucceeds, Goto, InTask, Moves

LEMMA FailMoves ==
  ASSUME NEW r, CommandFails(r)
  PROVE  /\ UNCHANGED <<repoFile, file, valueVars, suite, phase, setup, undo>>
         /\ pc[r] \in {"update", "upgrade", "wait"}
         /\ Moves(r, "failed") /\ reported' = reported \cup {r}
         /\ installed' = installed \/ (pc[r] = "upgrade" /\ FindsAll(r) /\ Upgrade(r))
BY DEF CommandFails, Report, InTask, Moves

LEMMA CleanupMoves ==
  ASSUME NEW r, Cleanup(r)
  PROVE  /\ UNCHANGED <<valueVars, suite, phase, setup, repoFile, file, pc>>
         /\ phase = "cleanup" /\ undo[r] = "no"
         /\ \/ /\ r \in plan.keep /\ undo' = [undo EXCEPT ![r] = "kept"]
               /\ reported' = reported /\ installed' = installed
            \/ /\ undo' = [undo EXCEPT ![r] = "deleted"] /\ reported' = reported
               /\ installed' = Restrict(installed, DOMAIN installed \ {NameOf(r)})
            \/ /\ undo' = [undo EXCEPT ![r] = "failed"]
               /\ reported' = reported \cup {r} /\ installed' = installed
BY DEF Cleanup, Delete, Target

LEMMA TypeInit ==
  ASSUME Init
  PROVE  TypeOK
<1>1. ValuesTypeOK
  BY HeapInit, HeapType DEF HeapRight
<1>2. plan \in Plans /\ run \in 1..plan.runs
  BY PlanFacts DEF Init
<1>3. /\ phase = "code" /\ unseen = Deployed /\ repos = <<>> /\ adding = <<>>
      /\ pc = [r \in Deployed |-> "waiting"] /\ undo = [r \in Deployed |-> "no"]
      /\ reported = {}
  BY DEF Init
<1> QED
  BY <1>1, <1>2, <1>3 DEF TypeOK

\* The type invariant, which takes the invariant of the heap to be inductive.
LEMMA TypeNext ==
  ASSUME TypeOK, HeapRight, [Next]_vars
  PROVE  TypeOK' /\ HeapRight'
<1> USE DEF TypeOK
<1>0. plan \in Plans /\ run \in Nat /\ plan.runs \in Nat
  BY PlanFacts
<1>1. HeapRight'
  BY <1>0, HeapNext
<1>2. ValuesTypeOK'
  <2>1. HeapInv(heap', obj', lent', meant') /\ edits' \in 0..MaxEdits
    BY <1>1 DEF HeapRight
  <2>2. (HeapInv(heap, obj, lent, meant) /\ edits \in 0..MaxEdits => ValuesTypeOK)'
    BY HeapType, PTL
  <2> QED
    BY <2>1, <2>2
<1>3. plan' = plan /\ Deployed' = Deployed
  BY PlanStays DEF Deployed
<1>4. CASE Rerun
  <2>1. run' \in 1..plan.runs
    BY <1>0, <1>4 DEF Rerun
  <2> QED
    BY <1>1, <1>2, <1>3, <1>4, <2>1 DEF Rerun
<1>5. CASE Code
  BY <1>1, <1>2, <1>3, <1>5 DEF Code, suite, setup, tasks
<1>6. CASE CallSetup
  BY <1>1, <1>2, <1>3, <1>6 DEF CallSetup, suite, setup, tasks
<1>7. CASE StartAdds
  <2>1. adding' = [n \in DOMAIN repos |-> "running"]
    BY <1>7 DEF StartAdds
  <2> QED
    BY <1>1, <1>2, <1>3, <1>7, <2>1 DEF StartAdds, suite, tasks
<1>8. CASE AddsEnd
  BY <1>1, <1>2, <1>3, <1>8 DEF AddsEnd, suite, setup
<1>9. CASE TasksEnd \/ CleanupEnds
  BY <1>1, <1>2, <1>3, <1>9 DEF TasksEnd, CleanupEnds, suite, setup, tasks
<1>10. ASSUME NEW n \in DOMAIN adding, AddRepo(n) PROVE TypeOK'
  <2>1. \E x \in {"added", "failed"} : adding' = [adding EXCEPT ![n] = x]
    BY <1>10 DEF AddRepo
  <2>2. DOMAIN adding' = DOMAIN adding
        /\ \A m \in DOMAIN adding : adding'[m] \in {"running", "added", "failed"}
    BY <2>1
  <2>3. /\ UNCHANGED <<suite, phase, unseen, repos, tasks>>
    BY <1>10 DEF AddRepo
  <2> QED
    BY <1>1, <1>2, <1>3, <2>2, <2>3 DEF suite, tasks
<1>11. ASSUME NEW r \in Deployed, SeeRelease(r) PROVE TypeOK'
  <2>1. repos' = repos \/ repos' = Joined([n \in {D(r).repo.name} |-> D(r).repo.url], repos)
    BY <1>11 DEF SeeRelease
  <2>2. DOMAIN repos \subseteq DOMAIN repos'
    BY <2>1 DEF Joined
  <2>3. /\ phase' \in {"repos", "refused"} /\ reported' \in {reported, {Release}}
        /\ unseen' \subseteq Deployed
        /\ UNCHANGED <<suite, adding, pc, undo>>
    BY <1>11 DEF SeeRelease
  <2> QED
    BY <1>1, <1>2, <1>3, <2>2, <2>3 DEF suite
<1>12. ASSUME NEW r \in Deployed, StartTask(r) \/ WriteValues(r) \/ CommandSucceeds(r) \/ CommandFails(r)
       PROVE  TypeOK'
  <2>1. PICK place \in {"values", "update", "upgrade", "wait", "done", "failed", "panicked"} :
          Moves(r, place)
    <3>1. CASE StartTask(r)
      BY <3>1, StartMoves, AfterFacts
    <3>2. CASE WriteValues(r)
      <4>1. Moves(r, After(r, "values")) \/ Moves(r, "failed")
        BY <3>2, WriteMoves
      <4> QED
        BY <4>1, AfterFacts
    <3>3. CASE CommandSucceeds(r)
      <4>1. Moves(r, After(r, pc[r])) /\ pc[r] \in {"update", "upgrade", "wait"}
        BY <3>3, SucceedMoves
      <4> QED
        BY <4>1, AfterFacts
    <3>4. CASE CommandFails(r)
      BY <3>4, FailMoves
    <3> QED
      BY <1>12, <3>1, <3>2, <3>3, <3>4
  <2>2. reported' \in {reported, reported \cup {r}}
    BY <1>12, StartMoves, WriteMoves, SucceedMoves, FailMoves
  <2>3. UNCHANGED <<suite, phase, setup, undo>>
    BY <1>12 DEF StartTask, WriteValues, CommandSucceeds, CommandFails, InTask
  <2> QED
    BY <1>1, <1>2, <1>3, <2>1, <2>2, <2>3 DEF suite, setup, Moves
<1>13. ASSUME NEW r \in Deployed, Cleanup(r) PROVE TypeOK'
  <2>1. \E x \in {"deleted", "failed", "kept"} : undo' = [undo EXCEPT ![r] = x]
    BY <1>13 DEF Cleanup, Delete
  <2>2. reported' \in {reported, reported \cup {r}}
    BY <1>13 DEF Cleanup, Delete
  <2>3. UNCHANGED <<suite, phase, setup, pc>>
    BY <1>13 DEF Cleanup
  <2> QED
    BY <1>1, <1>2, <1>3, <2>1, <2>2, <2>3 DEF suite, setup
<1>14. CASE UNCHANGED vars
  BY <1>1, <1>2, <1>3, <1>14 DEF vars, suite, setup, tasks
<1> QED
  BY <1>1, <1>4, <1>5, <1>6, <1>7, <1>8, <1>9, <1>10, <1>11, <1>12, <1>13, <1>14 DEF Next

\* Tasks run in one phase, and are cleaned up in another.
LEMMA PhasesNext ==
  ASSUME TypeOK, PhasesInv, [Next]_vars
  PROVE  PhasesInv'
<1>0. plan' = plan /\ Deployed' = Deployed
  BY PlanStays DEF Deployed
<1>1. CASE Rerun
  BY <1>0, <1>1 DEF Rerun, PhasesInv, Early
<1>2. CASE Code \/ CallSetup \/ StartAdds
  BY <1>0, <1>2 DEF Code, CallSetup, StartAdds, tasks, PhasesInv, Early
<1>3. CASE AddsEnd
  BY <1>0, <1>3 DEF AddsEnd, AddsDone, PhasesInv, Early
<1>4. CASE TasksEnd \/ CleanupEnds
  BY <1>0, <1>4 DEF TasksEnd, CleanupEnds, tasks, PhasesInv, Early
<1>5. ASSUME NEW n \in DOMAIN adding, AddRepo(n) PROVE PhasesInv'
  BY <1>0, <1>5 DEF AddRepo, tasks, PhasesInv, Early
<1>6. ASSUME NEW r \in Deployed, SeeRelease(r) PROVE PhasesInv'
  BY <1>0, <1>6 DEF SeeRelease, PhasesInv, Early
<1>7. ASSUME NEW r \in Deployed, StartTask(r) \/ WriteValues(r) \/ CommandSucceeds(r) \/ CommandFails(r)
      PROVE  PhasesInv'
  <2>1. UNCHANGED <<phase, undo>> /\ phase = "tasks"
    BY <1>7, StartMoves, WriteMoves, SucceedMoves, FailMoves DEF PhasesInv
  <2> QED
    BY <1>0, <2>1 DEF PhasesInv, Early
<1>8. ASSUME NEW r \in Deployed, Cleanup(r) PROVE PhasesInv'
  <2>1. UNCHANGED <<phase, pc>> /\ phase = "cleanup"
    BY <1>8, CleanupMoves
  <2> QED
    BY <1>0, <2>1 DEF PhasesInv, Early
<1>9. CASE UNCHANGED vars
  BY <1>0, <1>9 DEF vars, tasks, PhasesInv, Early
<1> QED
  BY <1>1, <1>2, <1>3, <1>4, <1>5, <1>6, <1>7, <1>8, <1>9 DEF Next

\* The repositories that helm has are those of the releases before a task starts.
LEMMA ReposNext ==
  ASSUME TypeOK, PhasesInv, ReposInv, [Next]_vars
  PROVE  ReposInv'
<1>0. plan' = plan /\ Deployed' = Deployed /\ (\A r : D(r)' = D(r))
  BY PlanStays DEF Deployed, D
<1>a. \A n : UrlsOf(n)' = UrlsOf(n)
  BY <1>0 DEF UrlsOf
<1>b. DOMAIN adding \subseteq DOMAIN repos
  BY DEF TypeOK
<1>1. CASE Rerun
  <2>1. unseen' = Deployed /\ repos' = <<>> /\ adding' = <<>> /\ phase' = "code"
    BY <1>1 DEF Rerun
  <2>2. DOMAIN repos' = {} /\ DOMAIN adding' = {}
    BY <2>1
  <2> QED
    BY <1>0, <2>1, <2>2 DEF ReposInv
<1>2. CASE Code \/ CallSetup
  BY <1>0, <1>a, <1>2 DEF Code, CallSetup, setup, disk, ReposInv
<1>3. CASE StartAdds
  <2>1. /\ adding' = [n \in DOMAIN repos |-> "running"] /\ phase' = "add" /\ phase = "repos"
        /\ UNCHANGED <<unseen, repos>> /\ unseen = {}
    BY <1>3 DEF StartAdds
  <2>2. DOMAIN adding' = DOMAIN repos /\ \A n \in DOMAIN adding' : adding'[n] = "running"
    BY <2>1
  <2> QED
    BY <1>0, <1>a, <2>1, <2>2 DEF ReposInv
<1>4. CASE AddsEnd
  <2>1. /\ "running" \notin Range(adding) /\ phase = "add"
        /\ phase' # "refused" => "failed" \notin Range(adding) /\ phase' = "tasks"
        /\ UNCHANGED <<unseen, repos, adding, repoFile>>
    BY <1>4 DEF AddsEnd, AddsDone, setup, disk
  <2>2. \A n \in DOMAIN adding : phase' # "refused" => adding[n] = "added"
    BY <2>1 DEF TypeOK, Range
  <2>3. phase' \in {"refused", "tasks"}
    BY <2>1
  <2> QED
    BY <1>0, <1>a, <2>1, <2>2, <2>3 DEF ReposInv
<1>5. CASE TasksEnd \/ CleanupEnds
  BY <1>0, <1>a, <1>5 DEF TasksEnd, CleanupEnds, setup, disk, ReposInv
<1>6. ASSUME NEW n \in DOMAIN adding, AddRepo(n) PROVE ReposInv'
  <2>1. /\ phase = "add" /\ UNCHANGED <<phase, unseen, repos>> /\ n \in DOMAIN repos
        /\ \/ /\ adding' = [adding EXCEPT ![n] = "added"]
              /\ repoFile' = Joined([m \in {n} |-> repos[n]], repoFile)
           \/ adding' = [adding EXCEPT ![n] = "failed"] /\ repoFile' = repoFile
    BY <1>b, <1>6 DEF AddRepo
  <2>2. DOMAIN adding' = DOMAIN adding
    BY <2>1
  <2>3. ASSUME NEW m \in DOMAIN adding, adding'[m] = "added"
        PROVE  m \in DOMAIN repoFile' /\ repoFile'[m] = repos[m]
    <3>1. CASE adding' = [adding EXCEPT ![n] = "failed"]
      BY <2>1, <2>3, <3>1 DEF ReposInv
    <3>2. CASE /\ adding' = [adding EXCEPT ![n] = "added"]
               /\ repoFile' = Joined([k \in {n} |-> repos[n]], repoFile)
      BY <2>3, <3>2 DEF ReposInv, Joined
    <3> QED
      BY <2>1, <3>1, <3>2
  <2> QED
    BY <1>0, <1>a, <2>1, <2>2, <2>3 DEF ReposInv
<1>7. ASSUME NEW r \in Deployed, SeeRelease(r) PROVE ReposInv'
  <2>1. /\ phase = "repos" /\ phase' \in {"repos", "refused"} /\ unseen' = unseen \ {r}
        /\ adding' = adding /\ DOMAIN adding = {}
    BY <1>7 DEF SeeRelease, ReposInv
  <2>2. ASSUME phase' = "repos", NEW s \in Deployed \ unseen', ~D(s).local
        PROVE  D(s).repo.name \in DOMAIN repos'
    <3>1. s # r => D(s).repo.name \in DOMAIN repos
      BY <2>1, <2>2 DEF ReposInv
    <3>2. CASE D(r).chart \in DOMAIN repos \/ D(r).local
      <4>1. repos' = repos
        BY <1>7, <3>2 DEF SeeRelease
      <4>2. CASE s = r
        <5>1. [name |-> D(r).chart, url |-> repos[D(r).chart]] = D(r).repo /\ D(r).chart \in DOMAIN repos
          BY <1>7, <2>2, <3>2, <4>2 DEF SeeRelease
        <5> QED
          BY <4>1, <4>2, <5>1
      <4> QED
        BY <3>1, <4>1, <4>2
    <3>3. CASE ~(D(r).chart \in DOMAIN repos \/ D(r).local)
      <4>1. repos' = Joined([n \in {D(r).repo.name} |-> D(r).repo.url], repos)
        BY <1>7, <3>3 DEF SeeRelease
      <4> QED
        BY <3>1, <4>1 DEF Joined
    <3> QED
      BY <3>2, <3>3
  <2>3. ASSUME NEW n \in DOMAIN repos' PROVE repos'[n] \in UrlsOf(n)
    <3>1. CASE repos' = repos
      BY <2>3, <3>1 DEF ReposInv
    <3>2. CASE ~D(r).local /\ repos' = Joined([m \in {D(r).repo.name} |-> D(r).repo.url], repos)
      <4>1. D(r).repo.url \in UrlsOf(D(r).repo.name)
        BY <3>2 DEF UrlsOf
      <4>2. \/ n = D(r).repo.name /\ repos'[n] = D(r).repo.url
            \/ n \in DOMAIN repos /\ repos'[n] = repos[n]
        BY <2>3, <3>2 DEF Joined
      <4> QED
        BY <4>1, <4>2 DEF ReposInv
    <3> QED
      BY <1>7, <3>1, <3>2 DEF SeeRelease
  <2> QED
    BY <1>0, <1>a, <2>1, <2>2, <2>3 DEF ReposInv
<1>8. ASSUME NEW r \in Deployed, StartTask(r) \/ WriteValues(r) \/ CommandSucceeds(r) \/ CommandFails(r)
      PROVE  ReposInv'
  <2>1. UNCHANGED <<phase, setup, repoFile>>
    BY <1>8, StartMoves, WriteMoves, SucceedMoves, FailMoves DEF disk
  <2> QED
    BY <1>0, <1>a, <2>1 DEF ReposInv, setup
<1>9. ASSUME NEW r \in Deployed, Cleanup(r) PROVE ReposInv'
  <2>1. UNCHANGED <<phase, setup, repoFile>>
    BY <1>9, CleanupMoves
  <2> QED
    BY <1>0, <1>a, <2>1 DEF ReposInv, setup
<1>10. CASE UNCHANGED vars
  BY <1>0, <1>a, <1>10 DEF vars, setup, disk, ReposInv
<1> QED
  BY <1>1, <1>2, <1>3, <1>4, <1>5, <1>6, <1>7, <1>8, <1>9, <1>10 DEF Next

\* No plan has two releases that helm knows by one name.
DistinctNames ==
  \A p \in Plans : \A r, s \in DOMAIN p.deploy :
    /\ p.deploy[r].namespace = p.deploy[s].namespace
    /\ p.deploy[r].name = p.deploy[s].name
    => r = s

\* So no two releases have one directory or one name with helm.
LEMMA NamesDiffer ==
  ASSUME DistinctNames, plan \in Plans
  PROVE  \A r, s \in Deployed : NameOf(r) = NameOf(s) \/ DirOf(r) = DirOf(s) => r = s
BY DEF DistinctNames, NameOf, DirOf, D, Deployed

\* The files that a task wants written, when it has got past that.
LEMMA FilesNext ==
  ASSUME DistinctNames, TypeOK, PhasesInv, FilesInv, [Next]_vars
  PROVE  FilesInv'
<1> DEFINE Written(r) == \A n \in DOMAIN D(r).values :
             n \in DOMAIN file[DirOf(r)] /\ file[DirOf(r)][n] = Wanted(r, n)
           Past(r) == /\ reported = {} /\ ~plan.noDeps
                      /\ pc[r] \in {"update", "upgrade", "wait", "done"}
<1>0. /\ plan' = plan /\ Deployed' = Deployed /\ (\A r : D(r)' = D(r))
      /\ \A r : DirOf(r)' = DirOf(r)
  BY PlanStays DEF Deployed, D, DirOf
<1>a. plan \in Plans
  BY DEF TypeOK
<1>b. UNCHANGED valueVars => \A r, n : Wanted(r, n)' = Wanted(r, n)
  BY <1>0 DEF valueVars, Wanted
<1>c. FilesInv <=>
        /\ phase # "code" => \A r \in Deployed : \A n \in DOMAIN D(r).values : obj[D(r).values[n]] # 0
        /\ DOMAIN file = {DirOf(r) : r \in Deployed}
        /\ \A r \in Deployed : Past(r) => Written(r)
  BY DEF FilesInv
<1>d. FilesInv' <=>
        /\ phase' # "code" => \A r \in Deployed : \A n \in DOMAIN D(r).values : obj'[D(r).values[n]] # 0
        /\ DOMAIN file' = {DirOf(r) : r \in Deployed}
        /\ \A r \in Deployed : Past(r)' => Written(r)'
  BY <1>0 DEF FilesInv
<1>e. ASSUME UNCHANGED <<valueVars, file>> PROVE \A r : Written(r)' = Written(r)
  BY <1>0, <1>b, <1>e
<1>f. \A r \in Deployed : D(r).values \in Seq(Handle)
  BY <1>a, PlanFacts DEF Deployment
<1>1. CASE Rerun
  <2>1. phase' = "code" /\ file' = file /\ \A r \in Deployed : pc'[r] = "waiting"
    BY <1>1 DEF Rerun, disk
  <2> QED
    BY <1>c, <1>d, <2>1
<1>2. CASE Code
  <2>1. phase' = "code" /\ file' = file /\ pc' = pc /\ phase = "code"
    BY <1>2 DEF Code, disk, tasks
  <2>2. \A r \in Deployed : pc'[r] = "waiting"
    BY <2>1 DEF PhasesInv, Early
  <2> QED
    BY <1>c, <1>d, <2>1, <2>2
<1>3. CASE CallSetup
  <2>1. /\ UNCHANGED <<valueVars, file>> /\ pc' = pc /\ reported' = reported
        /\ \A r \in Deployed : \A n \in DOMAIN D(r).values : obj'[D(r).values[n]] # 0
    BY <1>3 DEF CallSetup, disk, tasks, valueVars
  <2>2. \A r \in Deployed : Past(r)' => Past(r)
    BY <1>0, <2>1
  <2> HIDE DEF Past, Written
  <2> QED
    BY <1>c, <1>d, <1>e, <2>1, <2>2
<1>4. ASSUME UNCHANGED <<valueVars, file>>, phase # "code", \A r \in Deployed : Past(r)' => Past(r)
      PROVE  FilesInv'
  <2>1. obj' = obj /\ file' = file
    BY <1>4 DEF valueVars
  <2> HIDE DEF Past, Written
  <2> QED
    BY <1>c, <1>d, <1>e, <1>4, <2>1
<1>5. CASE StartAdds \/ TasksEnd \/ CleanupEnds
  <2>1. UNCHANGED <<valueVars, file, pc, reported>> /\ phase # "code"
    BY <1>5 DEF StartAdds, TasksEnd, CleanupEnds, disk, tasks
  <2> QED
    BY <1>0, <1>4, <2>1
<1>6. CASE AddsEnd
  <2>1. /\ UNCHANGED <<valueVars, file, pc>> /\ phase # "code"
        /\ \A r \in Deployed : pc[r] = "waiting"
    BY <1>6 DEF AddsEnd, AddsDone, disk, PhasesInv, Early
  <2> QED
    BY <1>0, <1>4, <2>1
<1>7. ASSUME NEW n \in DOMAIN adding, AddRepo(n) PROVE FilesInv'
  <2>1. UNCHANGED <<valueVars, file, pc, reported>> /\ phase # "code"
    BY <1>7 DEF AddRepo, tasks
  <2> QED
    BY <1>0, <1>4, <2>1
<1>8. ASSUME NEW r \in Deployed, SeeRelease(r) PROVE FilesInv'
  <2>1. /\ UNCHANGED <<valueVars, file, pc>> /\ phase # "code"
        /\ \A s \in Deployed : pc[s] = "waiting"
    BY <1>8 DEF SeeRelease, disk, PhasesInv, Early
  <2> QED
    BY <1>0, <1>4, <2>1
<1>9. ASSUME NEW r \in Deployed, StartTask(r) PROVE FilesInv'
  <2>1. UNCHANGED <<valueVars, file>> /\ phase = "tasks" /\ phase' = phase
    BY <1>9, StartMoves DEF disk
  <2>2. ASSUME NEW s \in Deployed, Past(s)' PROVE Written(s)
    <3>1. CASE s # r
      <4>1. pc'[s] = pc[s] /\ reported \subseteq reported'
        BY <1>9, <3>1, StartMoves, MovesFacts
      <4>2. Past(s)
        BY <1>0, <2>2, <4>1
      <4> HIDE DEF Past, Written
      <4> QED
        BY <1>c, <4>2
    <3>2. CASE s = r
      <4>1. ~plan.noDeps /\ reported' = {} /\ pc'[r] \in {"update", "upgrade", "wait", "done"}
        BY <1>0, <2>2, <3>2
      <4>2. Moves(r, After(r, "start"))
        BY <1>9, <4>1, StartMoves
      <4>3. pc'[r] = After(r, "start")
        BY <4>2 DEF Moves, TypeOK
      <4>4. D(r).values = <<>>
        BY <4>1, <4>3, AfterFacts
      <4> QED
        BY <3>2, <4>4
    <3> QED
      BY <3>1, <3>2
  <2>3. obj' = obj /\ file' = file
    BY <2>1 DEF valueVars
  <2> HIDE DEF Past, Written
  <2> QED
    BY <1>c, <1>d, <1>e, <2>1, <2>2, <2>3
<1>10. ASSUME NEW r \in Deployed, WriteValues(r) PROVE FilesInv'
  <2>1. PICK k \in 0..Len(D(r).values) :
              /\ file' = [file EXCEPT ![DirOf(r)] =
                            Joined([n \in 1..k |-> Reads(heap, obj[D(r).values[n]])], @)]
              /\ \/ k = Len(D(r).values) /\ Moves(r, After(r, "values")) /\ reported' = reported
                 \/ Moves(r, After(r, "values")) /\ reported' = reported \cup {r}
                 \/ Moves(r, "failed") /\ reported' = reported \cup {r}
    BY <1>10, WriteMoves
  <2>2. UNCHANGED valueVars /\ phase = "tasks" /\ phase' = phase /\ obj' = obj
    BY <1>10, WriteMoves DEF PhasesInv, valueVars
  <2>3. DOMAIN file' = DOMAIN file
    BY <2>1
  <2>4. ASSUME NEW s \in Deployed, Past(s)' PROVE Written(s)'
    <3>1. reported' = {} /\ reported = {}
      BY <2>1, <2>4
    <3>2. CASE s # r
      <4>1. pc'[s] = pc[s]
        BY <2>1, <3>2, MovesFacts
      <4>2. Past(s)
        BY <1>0, <2>4, <3>1, <4>1
      <4>3. file'[DirOf(s)] = file[DirOf(s)]
        <5>1. DirOf(s) # DirOf(r)
          BY <1>a, <3>2, NamesDiffer
        <5> QED
          BY <2>1, <5>1
      <4>4. Written(s)
        BY <1>c, <4>2
      <4> QED
        BY <1>0, <1>b, <2>2, <4>3, <4>4
    <3>3. CASE s = r
      <4>1. k = Len(D(r).values)
        BY <2>1, <3>1
      <4>2. DOMAIN D(r).values = 1..k
        BY <1>f, <4>1
      <4>3. file'[DirOf(r)] = Joined([n \in 1..k |-> Wanted(r, n)], file[DirOf(r)])
        BY <1>c, <2>1 DEF Wanted
      <4>4. \A n \in 1..k : n \in DOMAIN file'[DirOf(r)] /\ file'[DirOf(r)][n] = Wanted(r, n)
        BY <4>3 DEF Joined
      <4> QED
        BY <1>0, <1>b, <2>2, <3>3, <4>2, <4>4
    <3> QED
      BY <3>2, <3>3
  <2> HIDE DEF Past, Written
  <2> QED
    BY <1>c, <1>d, <2>2, <2>3, <2>4
<1>11. ASSUME NEW r \in Deployed, CommandSucceeds(r) PROVE FilesInv'
  <2>1. UNCHANGED <<valueVars, file, phase, reported>>
    BY <1>11, SucceedMoves
  <2>2. pc[r] \in {"update", "upgrade", "wait"} /\ Moves(r, After(r, pc[r]))
    BY <1>11, SucceedMoves
  <2>3. phase = "tasks"
    BY <2>2 DEF PhasesInv
  <2>4. \A s \in Deployed : pc'[s] = pc[s] \/ (s = r /\ pc[s] \in {"update", "upgrade", "wait"})
    BY <2>2 DEF Moves
  <2>5. \A s \in Deployed : Past(s)' => Past(s)
    BY <1>0, <2>1, <2>4
  <2> QED
    BY <1>4, <2>1, <2>3, <2>5
<1>12. ASSUME NEW r \in Deployed, CommandFails(r) PROVE FilesInv'
  <2>1. UNCHANGED <<valueVars, file, phase>> /\ reported' # {} /\ phase = "tasks"
    BY <1>12, FailMoves DEF PhasesInv
  <2> QED
    BY <1>4, <2>1
<1>13. ASSUME NEW r \in Deployed, Cleanup(r) PROVE FilesInv'
  <2>1. UNCHANGED <<valueVars, file, phase, pc>> /\ reported \subseteq reported' /\ phase = "cleanup"
    BY <1>13, CleanupMoves
  <2> QED
    BY <1>0, <1>4, <2>1
<1>14. CASE UNCHANGED vars
  <2>1. UNCHANGED <<valueVars, file, phase, pc, reported>> /\ obj' = obj
    BY <1>14 DEF vars, disk, tasks, valueVars
  <2>2. \A r \in Deployed : Past(r)' <=> Past(r)
    BY <1>0, <2>1
  <2> HIDE DEF Past, Written
  <2> QED
    BY <1>c, <1>d, <1>e, <2>1, <2>2
<1> QED
  BY <1>1, <1>2, <1>3, <1>5, <1>6, <1>7, <1>8, <1>9, <1>10, <1>11, <1>12, <1>13, <1>14 DEF Next

LEMMA UpgradeFacts ==
  ASSUME NEW r, Upgrade(r)
  PROVE  /\ DOMAIN installed' = DOMAIN installed \cup {NameOf(r)}
         /\ installed'[NameOf(r)] = Upgraded(r)
         /\ \A n \in DOMAIN installed \ {NameOf(r)} : installed'[n] = installed[n]
BY DEF Upgrade, Joined

\* What is installed, and by whom.
LEMMA InstalledNext ==
  ASSUME DistinctNames, TypeOK, PhasesInv, ReposInv, FilesInv, InstalledInv, [Next]_vars
  PROVE  InstalledInv'
<1> DEFINE Up(r)   == phase = "tasks" /\ ~plan.noDeps /\ pc[r] \in {"wait", "done"}
           Here(r) == NameOf(r) \in DOMAIN installed
           Got(r)  == installed[NameOf(r)]
           Whose(r) == Here(r) /\ Got(r).run = run => pc[r] \in {"wait", "done"} \/ r \in reported
           Undone(r) == /\ undo[r] = "deleted" => ~Here(r)
                        /\ undo[r] = "failed" => r \in reported
                        /\ undo[r] = "kept" => r \in plan.keep
           Runs == \A n \in DOMAIN installed : installed[n].run \in 0..run
<1>0. /\ plan' = plan /\ Deployed' = Deployed /\ (\A r : D(r)' = D(r))
      /\ \A r : NameOf(r)' = NameOf(r)
  BY PlanStays DEF Deployed, D, NameOf
<1>a. plan \in Plans /\ run \in Nat /\ run \in 1..plan.runs
  BY PlanFacts DEF TypeOK
<1>c. InstalledInv <=>
        /\ Runs
        /\ \A r \in Deployed :
             /\ Up(r) => Here(r) /\ Right(r, Got(r))
             /\ Whose(r) /\ Undone(r)
  BY DEF InstalledInv
<1>d. InstalledInv' <=>
        /\ Runs'
        /\ \A r \in Deployed :
             /\ Up(r)' => Here(r)' /\ Right(r, Got(r))'
             /\ Whose(r)' /\ Undone(r)'
  BY <1>0 DEF InstalledInv
<1>e. ASSUME UNCHANGED <<valueVars, run, repos>>, NEW r \in Deployed, Got(r)' = Got(r),
             reported' = {} => reported = {}, Right(r, Got(r))
      PROVE  Right(r, Got(r))'
  <2>1. \A n : Wanted(r, n)' = Wanted(r, n)
    BY <1>0, <1>e DEF valueVars, Wanted
  <2> QED
    BY <1>0, <1>e, <2>1 DEF Right
\* Steps that leave the cluster and the tasks alone.
<1>1. ASSUME UNCHANGED <<installed, pc, undo, run>>, reported \subseteq reported',
             phase' = "tasks" => UNCHANGED <<valueVars, repos, reported>> /\ (phase = "tasks" \/ \A r \in Deployed : pc[r] = "waiting")
      PROVE  InstalledInv'
  <2>1. Runs'
    BY <1>c, <1>1
  <2>2. ASSUME NEW r \in Deployed PROVE Whose(r)' /\ Undone(r)'
    BY <1>0, <1>c, <1>1
  <2>3. ASSUME NEW r \in Deployed, Up(r)' PROVE Here(r)' /\ Right(r, Got(r))'
    <3>1. Up(r)
      BY <1>0, <1>1, <2>3
    <3>2. Here(r) /\ Right(r, Got(r))
      BY <1>c, <3>1
    <3>3. Got(r)' = Got(r) /\ Here(r)'
      BY <1>0, <1>1, <3>2
    <3>4. UNCHANGED <<valueVars, repos, reported>>
      BY <1>1, <2>3
    <3> HIDE DEF Got, Here
    <3>5. Right(r, Got(r))'
      BY <1>e, <1>1, <3>2, <3>3, <3>4
    <3> QED
      BY <3>3, <3>5
  <2> HIDE DEF Up, Here, Got, Whose, Undone, Runs
  <2> QED
    BY <1>d, <2>1, <2>2, <2>3
\* Steps of r's task, the upgrade aside.
<1>2. ASSUME NEW r \in Deployed, NEW place, Moves(r, place),
             UNCHANGED <<valueVars, repos, installed, undo, run, phase>>, phase = "tasks",
             reported \subseteq reported',
             place \in {"wait", "done"} => plan.noDeps \/ pc[r] \in {"wait", "done"},
             pc[r] \in {"wait", "done"} => place \in {"wait", "done"} \/ r \in reported'
      PROVE  InstalledInv'
  <2>0. pc'[r] = place /\ \A s \in Deployed \ {r} : pc'[s] = pc[s]
    BY <1>2, MovesFacts
  <2>1. Runs'
    BY <1>c, <1>2
  <2>2. ASSUME NEW s \in Deployed PROVE Whose(s)' /\ Undone(s)'
    <3>1. Whose(s)'
      BY <1>0, <1>c, <1>2, <2>0
    <3>2. Undone(s)'
      BY <1>0, <1>c, <1>2
    <3> QED
      BY <3>1, <3>2
  <2>3. ASSUME NEW s \in Deployed, Up(s)' PROVE Here(s)' /\ Right(s, Got(s))'
    <3>1. Up(s)
      BY <1>0, <1>2, <2>0, <2>3
    <3>2. Here(s) /\ Right(s, Got(s))
      BY <1>c, <3>1
    <3>3. Got(s)' = Got(s) /\ Here(s)'
      BY <1>0, <1>2, <3>2
    <3>4. reported' = {} => reported = {}
      BY <1>2
    <3> HIDE DEF Got, Here
    <3>5. Right(s, Got(s))'
      BY <1>e, <1>2, <3>2, <3>3, <3>4
    <3> QED
      BY <3>3, <3>5
  <2> HIDE DEF Up, Here, Got, Whose, Undone, Runs
  <2> QED
    BY <1>d, <2>1, <2>2, <2>3
<1>3. ASSUME NEW r \in Deployed, pc[r] = "upgrade", FindsAll(r), Upgrade(r),
             UNCHANGED <<valueVars, repos, undo, run, phase>>, reported \subseteq reported',
             NEW place, Moves(r, place),
             place \in {"wait", "done"} \/ (place = "failed" /\ r \in reported')
      PROVE  InstalledInv'
  <2>0. pc'[r] = place /\ \A s \in Deployed \ {r} : pc'[s] = pc[s]
    BY <1>3, MovesFacts
  <2>1. /\ DOMAIN installed' = DOMAIN installed \cup {NameOf(r)}
        /\ installed'[NameOf(r)] = Upgraded(r)
        /\ \A n \in DOMAIN installed \ {NameOf(r)} : installed'[n] = installed[n]
    BY <1>3, UpgradeFacts
  <2>2. phase = "tasks" /\ \A s \in Deployed : undo[s] = "no"
    BY <1>3 DEF PhasesInv, TypeOK
  <2>3. \A s \in Deployed \ {r} : NameOf(s) # NameOf(r)
    BY <1>a, NamesDiffer
  <2>4. Upgraded(r).run = run
    BY DEF Upgraded
  <2>5. Runs'
    <3>1. run \in 0..run
      BY <1>a
    <3> QED
      BY <1>c, <1>3, <2>1, <2>4, <3>1
  <2>6. ASSUME NEW s \in Deployed PROVE Undone(s)'
    BY <1>3, <2>2
  <2>7. ASSUME NEW s \in Deployed, s # r PROVE Whose(s)' /\ (Up(s)' => Here(s)' /\ Right(s, Got(s))')
    <3>1. Got(s)' = installed'[NameOf(s)] /\ (Here(s)' <=> NameOf(s) \in DOMAIN installed')
      BY <1>0
    <3>2. (Here(s)' <=> Here(s)) /\ (Here(s) => Got(s)' = Got(s))
      BY <2>1, <2>3, <2>7, <3>1
    <3>3. Whose(s)'
      BY <1>c, <1>3, <2>0, <2>7, <3>2
    <3>4. ASSUME Up(s)' PROVE Here(s)' /\ Right(s, Got(s))'
      <4>1. Up(s)
        BY <1>0, <1>3, <2>0, <2>7, <3>4
      <4>2. Here(s) /\ Right(s, Got(s))
        BY <1>c, <4>1
      <4>3. reported' = {} => reported = {}
        BY <1>3
      <4> HIDE DEF Got, Here
      <4>4. Right(s, Got(s))'
        BY <1>e, <1>3, <3>2, <4>2, <4>3
      <4> QED
        BY <3>2, <4>2, <4>4
    <3> QED
      BY <3>3, <3>4
  <2>8. Whose(r)'
    BY <1>3, <2>0
  <2>9. ASSUME Up(r)' PROVE Here(r)' /\ Right(r, Got(r))'
    <3>1. Here(r)' /\ Got(r)' = Upgraded(r)
      BY <1>0, <2>1
    <3>2. ASSUME ~D(r).local
          PROVE  D(r).repo.name \in DOMAIN repos /\ Upgraded(r).url = repos[D(r).repo.name]
      <4>1. D(r).repo.name \in DOMAIN repos
        BY <2>2, <3>2 DEF ReposInv
      <4>2. D(r).repo.name \in DOMAIN adding
        BY <2>2, <4>1 DEF ReposInv
      <4>3. repoFile[D(r).repo.name] = repos[D(r).repo.name]
        BY <2>2, <4>2 DEF ReposInv
      <4> QED
        BY <3>2, <4>1, <4>3 DEF Upgraded
    <3>3. reported' = {} => \A n \in DOMAIN D(r).values : Upgraded(r).values[n] = Wanted(r, n)
      <4>1. ~plan.noDeps
        BY <1>0, <2>9
      <4>2. reported' = {} => reported = {}
        BY <1>3
      <4> QED
        BY <1>3, <4>1, <4>2 DEF FilesInv, Upgraded
    <3>4. \A n : Wanted(r, n)' = Wanted(r, n)
      BY <1>0, <1>3 DEF valueVars, Wanted
    <3>5. Got(r)'.run = run'
      BY <1>3, <2>4, <3>1
    <3>6. ~D(r)'.local => D(r)'.repo.name \in DOMAIN repos' /\ Got(r)'.url = repos'[D(r)'.repo.name]
      BY <1>0, <1>3, <3>1, <3>2
    <3>7. reported' = {} => \A n \in DOMAIN D(r)'.values : Got(r)'.values[n] = Wanted(r, n)'
      BY <1>0, <3>1, <3>3, <3>4
    <3> HIDE DEF Got, Here
    <3>8. Right(r, Got(r))'
      BY <3>5, <3>6, <3>7 DEF Right
    <3> QED
      BY <3>1, <3>8
  <2> HIDE DEF Up, Here, Got, Whose, Undone, Runs
  <2> QED
    BY <1>d, <2>5, <2>6, <2>7, <2>8, <2>9
<1>4. CASE Rerun
  <2>1. /\ installed' = installed /\ run' = run + 1 /\ phase' = "code"
        /\ \A r \in Deployed : undo'[r] = "no"
    BY <1>4 DEF Rerun, disk
  <2>2. \A x \in 0..run : x \in 0..(run + 1) /\ x # run + 1
    BY <1>a
  <2>3. Runs'
    BY <1>c, <2>1, <2>2
  <2>4. ASSUME NEW r \in Deployed PROVE Whose(r)'
    <3>1. Here(r)' => Here(r) /\ Got(r)' = Got(r)
      BY <1>0, <2>1
    <3>2. Here(r) => Got(r).run \in 0..run
      BY <1>c
    <3> QED
      BY <2>1, <2>2, <3>1, <3>2
  <2>5. \A r \in Deployed : Undone(r)' /\ ~Up(r)'
    BY <2>1
  <2> HIDE DEF Up, Here, Got, Whose, Undone, Runs
  <2> QED
    BY <1>d, <2>3, <2>4, <2>5
<1>5. CASE Code \/ CallSetup \/ StartAdds \/ TasksEnd \/ CleanupEnds
  <2>1. UNCHANGED <<installed, pc, undo, run, reported>> /\ phase' # "tasks"
    BY <1>5 DEF Code, CallSetup, StartAdds, TasksEnd, CleanupEnds, suite, disk, tasks
  <2> QED
    BY <1>1, <2>1
<1>6. CASE AddsEnd
  <2>1. /\ UNCHANGED <<valueVars, repos, installed, pc, undo, run>> /\ phase = "add"
        /\ phase' = "tasks" => reported' = reported
        /\ reported' = reported \/ reported' = {Release}
    BY <1>6 DEF AddsEnd, AddsDone, suite, setup, disk
  <2>2. reported = {} /\ \A r \in Deployed : pc[r] = "waiting"
    BY <2>1 DEF PhasesInv, Early
  <2> QED
    BY <1>1, <2>1, <2>2
<1>7. ASSUME NEW n \in DOMAIN adding, AddRepo(n) PROVE InstalledInv'
  <2>1. UNCHANGED <<installed, pc, undo, run, reported, phase>> /\ phase # "tasks"
    BY <1>7 DEF AddRepo, suite, tasks
  <2> QED
    BY <1>1, <2>1
<1>8. ASSUME NEW r \in Deployed, SeeRelease(r) PROVE InstalledInv'
  <2>1. /\ UNCHANGED <<installed, pc, undo, run>> /\ phase = "repos" /\ phase' # "tasks"
        /\ reported' = reported \/ reported' = {Release}
    BY <1>8 DEF SeeRelease, suite, disk
  <2>2. reported = {}
    BY <2>1 DEF PhasesInv
  <2> QED
    BY <1>1, <2>1, <2>2
<1>9. ASSUME NEW r \in Deployed, StartTask(r) PROVE InstalledInv'
  <2>1. /\ UNCHANGED <<valueVars, repos, installed, undo, run, phase>> /\ phase = "tasks"
        /\ pc[r] = "waiting" /\ reported \subseteq reported'
    BY <1>9, StartMoves DEF disk, suite, setup
  <2>2. PICK place : Moves(r, place) /\ (place \in {"wait", "done"} => plan.noDeps)
    BY <1>9, StartMoves, AfterFacts
  <2> QED
    BY <1>2, <2>1, <2>2
<1>10. ASSUME NEW r \in Deployed, WriteValues(r) PROVE InstalledInv'
  <2>1. /\ UNCHANGED <<valueVars, repos, installed, undo, run, phase>> /\ phase = "tasks"
        /\ pc[r] = "values" /\ reported \subseteq reported'
    BY <1>10, WriteMoves DEF suite, setup, PhasesInv
  <2>2. PICK place : Moves(r, place) /\ place \in {After(r, "values"), "failed"}
    BY <1>10, WriteMoves
  <2>3. place \notin {"wait", "done"}
    BY <2>2, AfterFacts
  <2> QED
    BY <1>2, <2>1, <2>2, <2>3
<1>11. ASSUME NEW r \in Deployed, CommandSucceeds(r) PROVE InstalledInv'
  <2>1. /\ UNCHANGED <<valueVars, repos, undo, run, phase, reported>>
        /\ Moves(r, After(r, pc[r]))
        /\ \/ pc[r] \in {"update", "wait"} /\ installed' = installed
           \/ pc[r] = "upgrade" /\ FindsAll(r) /\ Upgrade(r)
    BY <1>11, SucceedMoves DEF suite, setup
  <2>2. phase = "tasks"
    BY <2>1 DEF PhasesInv
  <2>3. CASE pc[r] = "upgrade"
    <3>1. After(r, pc[r]) \in {"wait", "done"}
      BY <2>3, AfterFacts
    <3> QED
      BY <1>3, <2>1, <2>3, <3>1
  <2>4. CASE pc[r] = "update"
    <3>1. After(r, pc[r]) = "upgrade"
      BY <2>4, AfterFacts
    <3> QED
      BY <1>2, <2>1, <2>2, <2>4, <3>1
  <2>5. CASE pc[r] = "wait"
    <3>1. After(r, pc[r]) = "done"
      BY <2>5, AfterFacts
    <3> QED
      BY <1>2, <2>1, <2>2, <2>5, <3>1
  <2> QED
    BY <2>1, <2>3, <2>4, <2>5
<1>12. ASSUME NEW r \in Deployed, CommandFails(r) PROVE InstalledInv'
  <2>1. /\ UNCHANGED <<valueVars, repos, undo, run, phase>>
        /\ pc[r] \in {"update", "upgrade", "wait"}
        /\ Moves(r, "failed") /\ reported' = reported \cup {r}
        /\ installed' = installed \/ (pc[r] = "upgrade" /\ FindsAll(r) /\ Upgrade(r))
    BY <1>12, FailMoves DEF suite, setup
  <2>2. phase = "tasks" /\ reported \subseteq reported' /\ r \in reported'
    BY <2>1 DEF PhasesInv
  <2>3. CASE installed' = installed
    BY <1>2, <2>1, <2>2, <2>3
  <2>4. CASE pc[r] = "upgrade" /\ FindsAll(r) /\ Upgrade(r)
    BY <1>3, <2>1, <2>2, <2>4
  <2> QED
    BY <2>1, <2>3, <2>4
<1>13. ASSUME NEW r \in Deployed, Cleanup(r) PROVE InstalledInv'
  <2>1. /\ UNCHANGED <<run, phase, pc>> /\ phase = "cleanup"
        /\ \/ /\ r \in plan.keep /\ undo' = [undo EXCEPT ![r] = "kept"]
              /\ reported' = reported /\ installed' = installed
           \/ /\ undo' = [undo EXCEPT ![r] = "deleted"] /\ reported' = reported
              /\ installed' = Restrict(installed, DOMAIN installed \ {NameOf(r)})
           \/ /\ undo' = [undo EXCEPT ![r] = "failed"]
              /\ reported' = reported \cup {r} /\ installed' = installed
    BY <1>13, CleanupMoves DEF suite
  <2>2. /\ DOMAIN installed' \subseteq DOMAIN installed
        /\ \A n \in DOMAIN installed' : installed'[n] = installed[n]
    BY <2>1 DEF Restrict
  <2>3. \A s \in Deployed \ {r} : undo'[s] = undo[s]
    BY <2>1 DEF TypeOK
  <2>4. /\ undo'[r] = "deleted" => NameOf(r) \notin DOMAIN installed'
        /\ undo'[r] = "failed" => r \in reported'
        /\ undo'[r] = "kept" => r \in plan.keep
    <3>1. \A x : undo' = [undo EXCEPT ![r] = x] => undo'[r] = x
      BY DEF TypeOK
    <3>2. NameOf(r) \notin DOMAIN Restrict(installed, DOMAIN installed \ {NameOf(r)})
      BY DEF Restrict
    <3> QED
      BY <2>1, <3>1, <3>2
  <2>5. reported \subseteq reported'
    BY <2>1
  <2>6. Runs'
    BY <1>c, <2>1, <2>2
  <2>7. ASSUME NEW s \in Deployed PROVE Whose(s)' /\ Undone(s)' /\ ~Up(s)'
    <3>1. Here(s)' => Here(s) /\ Got(s)' = Got(s)
      BY <1>0, <2>2
    <3>2. Whose(s)'
      BY <1>c, <2>1, <2>5, <3>1
    <3>3. Undone(s)'
      BY <1>0, <1>c, <2>3, <2>4, <2>5, <3>1
    <3> QED
      BY <2>1, <3>2, <3>3
  <2> HIDE DEF Up, Here, Got, Whose, Undone, Runs
  <2> QED
    BY <1>d, <2>6, <2>7
<1>14. CASE UNCHANGED vars
  <2>1. UNCHANGED <<valueVars, repos, installed, pc, undo, run, reported, phase>>
    BY <1>14 DEF vars, suite, setup, disk, tasks
  <2> QED
    BY <1>1, <2>1
<1> QED
  BY <1>4, <1>5, <1>6, <1>7, <1>8, <1>9, <1>10, <1>11, <1>12, <1>13, <1>14 DEF Next

-----------------------------------------------------------------------------
(* The theorems *)

\* Nothing is wrong to begin with.
LEMMA SuiteInit ==
  ASSUME Init
  PROVE  PhasesInv /\ ReposInv /\ FilesInv /\ InstalledInv
<1>0. /\ run = 1 /\ phase = "code" /\ unseen = Deployed /\ adding = <<>>
      /\ file = [d \in {DirOf(r) : r \in Deployed} |-> <<>>]
      /\ installed = [n \in {NameOf(r) : r \in plan.left} |->
                        [run |-> 0, url |-> "", values |-> <<>>]]
      /\ pc = [r \in Deployed |-> "waiting"] /\ undo = [r \in Deployed |-> "no"]
      /\ reported = {}
  BY DEF Init
<1>1. /\ run = 1 /\ phase = "code" /\ unseen = Deployed /\ DOMAIN adding = {}
      /\ \A r \in Deployed : pc[r] = "waiting" /\ undo[r] = "no"
      /\ reported = {} /\ DOMAIN file = {DirOf(r) : r \in Deployed}
  <2>1. \A r \in Deployed : pc[r] = "waiting" /\ undo[r] = "no"
    BY <1>0
  <2>2. DOMAIN file = {DirOf(r) : r \in Deployed}
    BY <1>0
  <2>3. DOMAIN adding = {}
    <3>1. adding = <<>>
      BY <1>0
    <3> QED
      BY <3>1
  <2> QED
    BY <1>0, <2>1, <2>2, <2>3
<1>2. \A n \in DOMAIN installed : installed[n].run = 0
  BY <1>0
<1>3. PhasesInv
  BY <1>1 DEF PhasesInv, Early
<1>4. ReposInv
  <2>1. repos = <<>>
    BY DEF Init
  <2>2. DOMAIN repos = {}
    BY <2>1
  <2> QED
    BY <1>1, <2>2 DEF ReposInv
<1>5. FilesInv
  BY <1>1 DEF FilesInv
<1>6. InstalledInv
  BY <1>1, <1>2 DEF InstalledInv
<1> QED
  BY <1>3, <1>4, <1>5, <1>6

\* The types and the heap need nothing of the suite.
THEOREM HeapInvariance == Helm => [](TypeOK /\ HeapRight)
<1>1. Init => TypeOK /\ HeapRight
  BY TypeInit, HeapInit
<1>2. TypeOK /\ HeapRight /\ [Next]_vars => (TypeOK /\ HeapRight)'
  BY TypeNext
<1> QED
  BY <1>1, <1>2, PTL DEF Helm

\* Every cell is one of Go's, no reference dangles, and the suite's variables
\* have their types.
THEOREM TypeCorrect == Helm => []TypeOK
BY HeapInvariance, PTL

\* Deriving one variable of the test from another and changing either in place
\* never shows in the other, however many steps the test takes: except
\* below a nested object, in what MergedFrom has taken over, and behind a
\* pointer, of which the copy may be the zero value.
THEOREM MeantIsHeldAlways == Helm => []MeantIsHeld
<1>1. HeapRight => MeantIsHeld
  BY HeapHolds DEF HeapRight
<1> QED
  BY <1>1, HeapInvariance, PTL

\* Where no two releases have one name, what helm has and what the suite does
\* go together, over any number of runs.
THEOREM SuiteInvariance ==
  ASSUME DistinctNames
  PROVE  Helm => [](PhasesInv /\ ReposInv /\ FilesInv /\ InstalledInv)
<1> DEFINE Inv == PhasesInv /\ ReposInv /\ FilesInv /\ InstalledInv
<1>1. Init => Inv
  BY SuiteInit
<1>2. TypeOK /\ Inv /\ [Next]_vars => Inv'
  <2> SUFFICES ASSUME TypeOK, Inv, [Next]_vars
               PROVE  PhasesInv' /\ ReposInv' /\ FilesInv' /\ InstalledInv'
    OBVIOUS
  <2>1. PhasesInv'
    BY PhasesNext
  <2>2. ReposInv'
    BY ReposNext
  <2>3. FilesInv'
    BY FilesNext
  <2>4. InstalledInv'
    BY InstalledNext
  <2> QED
    BY <2>1, <2>2, <2>3, <2>4
<1> QED
  BY <1>1, <1>2, HeapInvariance, PTL DEF Helm

\* The chart of a release of which nothing was reported comes from a URL that a
\* release of the suite has for the repository's name, the same for all that
\* have it, whatever helm knew the name for before the suite.
THEOREM ChartFromItsRepoAlways ==
  ASSUME DistinctNames
  PROVE  Helm => []ChartFromItsRepo
<1>1. ReposInv /\ InstalledInv => ChartFromItsRepo
  <2> SUFFICES ASSUME ReposInv, InstalledInv, NEW r \in Deployed, NEW s \in Deployed,
                      UpAndFine(r), ~D(r).local, UpAndFine(s), ~D(s).local,
                      D(r).repo.name = D(s).repo.name
               PROVE  /\ installed[NameOf(r)].url \in UrlsOf(D(r).repo.name)
                      /\ installed[NameOf(r)].url = installed[NameOf(s)].url
    BY DEF ChartFromItsRepo
  <2>1. Right(r, installed[NameOf(r)]) /\ Right(s, installed[NameOf(s)])
    BY DEF InstalledInv, UpAndFine
  <2> QED
    BY <2>1 DEF Right, ReposInv
<1> QED
  BY <1>1, SuiteInvariance, PTL

\* helm has for each release the values that were meant for it when its task is
\* past the upgrade and nothing was reported: no failure in the helper goroutine
\* and no file of an earlier run gets in between, and no other variable of the
\* test, along the paths that HoldsWhatWasMeant speaks of: those that lead
\* through no nested object and nothing lent, and behind a copied pointer the
\* zero value may stand for what was meant.
THEOREM ValuesAsMeantAlways ==
  ASSUME DistinctNames
  PROVE  Helm => []ValuesAsMeant
<1>1. TypeOK /\ HeapRight /\ FilesInv /\ InstalledInv => ValuesAsMeant
  <2> SUFFICES ASSUME TypeOK, HeapRight, FilesInv, InstalledInv,
                      NEW r \in Deployed, UpAndFine(r)
               PROVE  LET got == installed[NameOf(r)] IN
                      /\ NameOf(r) \in DOMAIN installed /\ got.run = run
                      /\ \A n \in DOMAIN D(r).values :
                           HoldsWhatWasMeant(D(r).values[n], got.values[n])
    BY DEF ValuesAsMeant
  <2> DEFINE got == installed[NameOf(r)]
  <2>1. phase = "tasks" /\ reported = {} /\ NameOf(r) \in DOMAIN installed /\ Right(r, got)
    BY DEF InstalledInv, UpAndFine
  <2>2. got.run = run
    BY <2>1 DEF Right
  <2>3. ASSUME NEW n \in DOMAIN D(r).values
        PROVE  HoldsWhatWasMeant(D(r).values[n], got.values[n])
    <3>1. got.values[n] = Reads(heap, obj[D(r).values[n]])
      BY <2>1 DEF Right, Wanted
    <3>2. obj[D(r).values[n]] # 0
      BY <2>1 DEF FilesInv
    <3>3. D(r).values[n] \in Handle
      <4>1. D(r).values \in Seq(Handle)
        BY PlanFacts DEF TypeOK, Deployment
      <4> QED
        BY <4>1
    <3>4. MeantIsHeld
      BY HeapHolds DEF HeapRight
    <3>5. HoldsWhatWasMeant(D(r).values[n], Reads(heap, obj[D(r).values[n]]))
      BY <3>2, <3>3, <3>4 DEF MeantIsHeld
    <3> QED
      BY <3>1, <3>5
  <2> QED
    BY <2>1, <2>2, <2>3
<1> QED
  BY <1>1, HeapInvariance, SuiteInvariance, PTL

\* What a run has installed is gone when its cleanup has ended, unless it was to
\* be kept or a failure of that very release was reported.
THEOREM NothingLeftBehindAlways ==
  ASSUME DistinctNames
  PROVE  Helm => []NothingLeftBehind
<1>1. TypeOK /\ PhasesInv /\ InstalledInv => NothingLeftBehind
  <2> SUFFICES ASSUME TypeOK, PhasesInv, InstalledInv, phase = "over", NEW r \in Deployed,
                      NameOf(r) \in DOMAIN installed, installed[NameOf(r)].run = run,
                      r \notin reported
               PROVE  r \in plan.keep
    BY DEF NothingLeftBehind
  <2>1. pc[r] \in {"wait", "done"}
    BY DEF InstalledInv
  <2>2. pc[r] = "done" /\ undo[r] # "no"
    BY <2>1 DEF PhasesInv
  <2>3. undo[r] \in {"deleted", "failed", "kept"}
    BY <2>2 DEF TypeOK
  <2> QED
    BY <2>3 DEF InstalledInv
<1> QED
  BY <1>1, HeapInvariance, SuiteInvariance, PTL
=============================================================================
