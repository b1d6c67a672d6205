------------------------- MODULE RegistrationProofs -------------------------
(***************************************************************************)
(* What registration hands to godag, for every sequence of calls.  An id is*)
(* drawn once, by one spec, and a node depends on ids drawn before its own:*)
(* so no id has two owners and no graph has a cycle.  That every dependency*)
(* has a node holds as long as specs are made on the suite only, and that  *)
(* is assumed where it is needed.                                          *)
(***************************************************************************)
EXTENDS Registration, DagProofs, FiniteSetTheorems, WellFoundedInduction, TLAPS

\* The ids of all nodes of s, of those that Setup runs something for, and
\* those under which s keeps what it has registered, clusters apart.
Ids(s) == {n.id : n \in setup[s]}
Own(s) == {n.id : n \in {m \in setup[s] : m.act # "inherited"}}
Kept(s) == DOMAIN images[s] \cup resources[s] \cup {loads[s][q] : q \in DOMAIN loads[s]}
Drawn(s) == Own(s) \cup Kept(s)

\* Where there is no spec, or a stub of one, nothing is registered.
ShapeInv ==
  /\ DOMAIN clusters = Spec /\ DOMAIN images = Spec /\ DOMAIN resources = Spec
  /\ DOMAIN loads = Spec /\ DOMAIN setup = Spec
  /\ \A s \in Spec : ~Exists(s) \/ s \in stubs => Kept(s) = {} /\ setup[s] = {}
  /\ \A s \in Spec : ~Exists(s) => clusters[s] = {} /\ s \notin stubs

\* Ids are drawn once, and nodes depend on what was drawn before.
IDInv ==
  /\ \A s, t \in Spec : s # t => Drawn(s) \cap Drawn(t) = {}
  /\ \A s, t \in Spec : clusters[s] \cap Kept(t) = {}
  /\ \A s \in Spec : \A m, n \in setup[s] : m.id = n.id => m = n
  /\ \A s \in Spec : \A n \in setup[s] :
       /\ n.act = "inherited" => n.id \in clusters[s]
       /\ n.act # "noop"
       /\ \A d \in n.deps : d \in Nat /\ d < n.id

IInv == TypeOK /\ ShapeInv /\ IDInv

-----------------------------------------------------------------------------
(* Sets of numbers *)

LEMMA LeastIn ==
  ASSUME NEW S \in SUBSET Nat, S # {}
  PROVE  \E n \in S : \A m \in S : n <= m
<1> DEFINE R == {p \in Nat \X Nat : p[1] < p[2]}
<1>1. IsWellFoundedOn(R, Nat)
  BY NatLessThanWellFounded DEF OpToRel
<1>2. \E n \in S : \A m \in S : <<m, n>> \notin R
  <2> HIDE DEF R
  <2> QED
    BY <1>1, WFMin
<1>3. \A m, n \in Nat : <<m, n>> \notin R => n <= m
  OBVIOUS
<1> QED
  BY <1>2, <1>3

LEMMA GreatestIn ==
  ASSUME NEW N \in Nat, NEW S \in SUBSET (1..N), S # {}
  PROVE  \E n \in S : \A m \in S : m <= n
<1> DEFINE T == {N - m : m \in S}
<1>1. T \subseteq Nat /\ T # {}
  <2>1. \A m \in S : N - m \in Nat
    OBVIOUS
  <2>2. PICK m \in S : TRUE
    OBVIOUS
  <2>3. N - m \in T
    OBVIOUS
  <2> QED
    BY <2>1, <2>3
<1>2. \E t \in T : \A u \in T : t <= u
  <2> HIDE DEF T
  <2> QED
    BY <1>1, LeastIn
<1>3. PICK t \in T : \A u \in T : t <= u
  BY <1>2
<1>4. PICK n \in S : t = N - n
  BY <1>3
<1>5. ASSUME NEW m \in S PROVE m <= n
  <2>1. N - n <= N - m
    BY <1>3, <1>4
  <2>2. m \in Nat /\ n \in Nat
    OBVIOUS
  <2> QED
    BY <2>1, <2>2
<1> QED
  BY <1>5

-----------------------------------------------------------------------------
(* Registering on a spec *)

\* What all registrations on s have in common: they draw ids, and change
\* nothing but what s has,
New == nextID..(nextID' - 1)

Draws(s) ==
  /\ Exists(s)
  /\ nextID' \in nextID..(MaxID + 1)
  /\ UNCHANGED <<parent, stubs>>
  /\ panicked \subseteq panicked' /\ panicked' \subseteq Spec
  /\ DOMAIN declared' \subseteq DOMAIN declared \cup New
  /\ \A r \in DOMAIN declared : r \in DOMAIN declared' /\ declared'[r] = declared[r]

OnlyAt(s) ==
  /\ DOMAIN clusters' = Spec /\ DOMAIN images' = Spec /\ DOMAIN resources' = Spec
  /\ DOMAIN loads' = Spec /\ DOMAIN setup' = Spec
  /\ \A t \in Spec \ {s} :
       /\ clusters'[t] = clusters[t] /\ images'[t] = images[t] /\ resources'[t] = resources[t]
       /\ loads'[t] = loads[t] /\ setup'[t] = setup[t]

\* to which they add nodes, on what was drawn before,
NewNodes(s) ==
  LET news == setup'[s] \ setup[s] IN
  /\ setup[s] \subseteq setup'[s]
  /\ \A n \in news :
       /\ n.id \in New /\ n.act \in {"image", "load", "cluster", "resource"}
       /\ \A d \in n.deps : d \in Nat /\ d < n.id
  /\ \A m, n \in news : m.id = n.id => m = n
  /\ s \in stubs => news = {}

\* and keys for them.
NewKeys(s) ==
  /\ clusters[s] \subseteq clusters'[s]
  /\ DOMAIN images[s] \subseteq DOMAIN images'[s]
  /\ DOMAIN images'[s] \subseteq DOMAIN images[s] \cup New
  /\ resources[s] \subseteq resources'[s]
  /\ DOMAIN loads[s] \subseteq DOMAIN loads'[s]
  /\ \A q \in DOMAIN loads[s] : loads'[s][q] = loads[s][q]
  /\ Kept(s)' \subseteq Kept(s) \cup New
  /\ clusters'[s] \subseteq clusters[s] \cup (New \ Kept(s)')
  /\ s \in stubs => Kept(s)' = Kept(s)

Adds(s) == Draws(s) /\ OnlyAt(s) /\ NewNodes(s) /\ NewKeys(s)

LEMMA DrawnBelow ==
  ASSUME TypeOK, NEW s \in Spec
  PROVE  /\ nextID \in Nat \ {0}
         /\ Ids(s) \cup Kept(s) \cup clusters[s] \subseteq 1..(nextID - 1)
         /\ Own(s) \subseteq Ids(s)
         /\ Drawn(s) \subseteq 1..(nextID - 1)
<1>1. nextID \in Nat \ {0}
  BY RegistrationAssumption DEF TypeOK
<1>2. Ids(s) \cup Kept(s) \cup clusters[s] \subseteq 1..(nextID - 1)
  BY DEF TypeOK, Ids, Kept
<1>3. Own(s) \subseteq Ids(s)
  BY DEF Own, Ids
<1> QED
  BY <1>1, <1>2, <1>3 DEF Drawn

LEMMA Intervals ==
  ASSUME NEW a \in Nat \ {0}, NEW b \in Nat, a <= b
  PROVE  /\ 1..(a - 1) \subseteq 1..(b - 1)
         /\ a..(b - 1) \subseteq 1..(b - 1)
         /\ \A x \in a..(b - 1) : x \notin 1..(a - 1)
OBVIOUS

LEMMA AddsFrame ==
  ASSUME IInv, NEW s \in Spec, Adds(s)
  PROVE  /\ \A t \in Spec \ {s} : Ids(t)' = Ids(t) /\ Own(t)' = Own(t) /\ Kept(t)' = Kept(t)
         /\ \A t \in Spec : Exists(t)' = Exists(t)
         /\ Kept(s) \subseteq Kept(s)'
         /\ Drawn(s)' \subseteq Drawn(s) \cup New
<1>1. \A t \in Spec \ {s} : Ids(t)' = Ids(t) /\ Own(t)' = Own(t) /\ Kept(t)' = Kept(t)
  BY DEF Adds, OnlyAt, Ids, Own, Kept
<1>2. \A t \in Spec : Exists(t)' = Exists(t)
  BY DEF Adds, Draws, Exists
<1>3. Kept(s) \subseteq Kept(s)'
  BY DEF Adds, NewKeys, Kept
<1>4. Own(s)' \subseteq Own(s) \cup New
  BY DEF Adds, NewNodes, Own
<1>5. Kept(s)' \subseteq Kept(s) \cup New
  BY DEF Adds, NewKeys
<1> QED
  BY <1>1, <1>2, <1>3, <1>4, <1>5 DEF Drawn

LEMMA AddsInv ==
  ASSUME IInv, NEW s \in Spec, Adds(s)
  PROVE  IInv'
<1> DEFINE news == setup'[s] \ setup[s]
<1>1. nextID \in Nat \ {0} /\ nextID' \in Nat /\ nextID <= nextID'
  <2>1. nextID \in Nat \ {0}
    BY DrawnBelow DEF IInv
  <2>2. nextID' \in nextID..(MaxID + 1)
    BY DEF Adds, Draws
  <2> QED
    BY <2>1, <2>2, RegistrationAssumption
<1>2. /\ 1..(nextID - 1) \subseteq 1..(nextID' - 1) /\ New \subseteq 1..(nextID' - 1)
      /\ \A x \in New : x \notin 1..(nextID - 1)
  BY <1>1, Intervals DEF New
<1>3. TypeOK'
  <2>1. \A t \in Spec :
          /\ clusters'[t] \subseteq 1..(nextID' - 1) /\ Kept(t)' \subseteq 1..(nextID' - 1)
    <3>1. \A t \in Spec : Kept(t) \cup clusters[t] \subseteq 1..(nextID - 1)
      BY DrawnBelow DEF IInv
    <3>2. \A t \in Spec \ {s} : clusters'[t] = clusters[t] /\ Kept(t)' = Kept(t)
      BY AddsFrame DEF Adds, OnlyAt
    <3>3. clusters'[s] \subseteq clusters[s] \cup New /\ Kept(s)' \subseteq Kept(s) \cup New
      BY DEF Adds, NewKeys
    <3> QED
      BY <1>2, <3>1, <3>2, <3>3
  <2>2. \A t \in Spec : \A n \in setup'[t] : n.id \in 1..(nextID' - 1) /\ n.act \in Act
    <3>1. \A n \in news : n.id \in New /\ n.act \in Act
      BY DEF Adds, NewNodes, Act
    <3>2. \A t \in Spec : \A n \in setup[t] : n.id \in 1..(nextID - 1) /\ n.act \in Act
      BY DEF IInv, TypeOK
    <3> QED
      BY <1>2, <3>1, <3>2 DEF Adds, OnlyAt, NewNodes
  <2>3. \A t \in Spec :
          /\ DOMAIN images'[t] \subseteq 1..(nextID' - 1) /\ resources'[t] \subseteq 1..(nextID' - 1)
          /\ \A q \in DOMAIN loads'[t] : loads'[t][q] \in 1..(nextID' - 1)
    BY <2>1 DEF Kept
  <2>4. DOMAIN declared' \subseteq 1..(nextID' - 1)
    BY <1>2 DEF IInv, TypeOK, Adds, Draws
  <2>5. /\ parent' \in [Spec -> Spec \cup {None}] /\ stubs' \subseteq Spec
        /\ panicked' \subseteq Spec
    BY DEF IInv, TypeOK, Adds, Draws
  <2>6. nextID' \in 1..(MaxID + 1)
    BY <1>1, RegistrationAssumption DEF Adds, Draws
  <2> QED
    BY <2>1, <2>2, <2>3, <2>4, <2>5, <2>6 DEF TypeOK
<1>4. ShapeInv'
  BY AddsFrame DEF IInv, ShapeInv, Adds, Draws, OnlyAt, NewNodes, NewKeys
<1>5. \A t \in Spec : Drawn(t) \cup Kept(t) \cup clusters[t] \subseteq 1..(nextID - 1)
  BY DrawnBelow DEF IInv
<1>6. \A t, u \in Spec : t # u => Drawn(t)' \cap Drawn(u)' = {}
  <2>1. Drawn(s)' \subseteq Drawn(s) \cup New
    BY AddsFrame
  <2>2. \A t \in Spec \ {s} : Drawn(t)' = Drawn(t)
    BY AddsFrame DEF Drawn
  <2>3. \A t, u \in Spec : t # u => Drawn(t) \cap Drawn(u) = {}
    BY DEF IInv, IDInv
  <2>4. \A t \in Spec \ {s} : Drawn(s)' \cap Drawn(t)' = {}
    <3> SUFFICES ASSUME NEW t \in Spec \ {s}, NEW x \in Drawn(s)', x \in Drawn(t)'
                 PROVE  FALSE
      OBVIOUS
    <3>1. x \in Drawn(t) /\ x \in 1..(nextID - 1)
      BY <1>5, <2>2
    <3>2. x \in Drawn(s)
      BY <1>2, <2>1, <3>1
    <3> QED
      BY <2>3, <3>1, <3>2
  <2> QED
    BY <2>2, <2>3, <2>4
<1>7. \A t, u \in Spec : clusters'[t] \cap Kept(u)' = {}
  <2>1. \A t, u \in Spec : clusters[t] \cap Kept(u) = {}
    BY DEF IInv, IDInv
  <2>2. clusters'[s] \subseteq clusters[s] \cup (New \ Kept(s)')
        /\ Kept(s)' \subseteq Kept(s) \cup New
    BY DEF Adds, NewKeys
  <2>3. \A t \in Spec \ {s} : clusters'[t] = clusters[t] /\ Kept(t)' = Kept(t)
    BY AddsFrame DEF Adds, OnlyAt
  <2>4. clusters'[s] \cap Kept(s)' = {}
    BY <1>2, <1>5, <2>1, <2>2
  <2>5. \A t \in Spec \ {s} : clusters'[s] \cap Kept(t)' = {} /\ clusters'[t] \cap Kept(s)' = {}
    BY <1>2, <1>5, <2>1, <2>2, <2>3
  <2> QED
    BY <2>1, <2>3, <2>4, <2>5
<1>8. \A t \in Spec : \A m, n \in setup'[t] : m.id = n.id => m = n
  <2>1. \A t \in Spec : \A m, n \in setup[t] : m.id = n.id => m = n
    BY DEF IInv, IDInv
  <2>2. \A n \in setup[s] : n.id \in 1..(nextID - 1)
    BY DEF IInv, TypeOK
  <2>3. /\ \A n \in news : n.id \in New
        /\ \A m, n \in news : m.id = n.id => m = n
    BY DEF Adds, NewNodes
  <2>4. \A m \in setup[s], n \in news : m.id # n.id
    BY <1>2, <2>2, <2>3
  <2> QED
    BY <2>1, <2>3, <2>4 DEF Adds, OnlyAt, NewNodes
<1>9. \A t \in Spec : \A n \in setup'[t] :
        /\ n.act = "inherited" => n.id \in clusters'[t]
        /\ n.act # "noop"
        /\ \A d \in n.deps : d \in Nat /\ d < n.id
  BY DEF IInv, IDInv, Adds, OnlyAt, NewNodes, NewKeys
<1> QED
  BY <1>3, <1>4, <1>6, <1>7, <1>8, <1>9 DEF IInv, IDInv

-----------------------------------------------------------------------------
(* Each registration adds *)

LEMMA AddImageAdds ==
  ASSUME IInv, NEW s \in Spec, NEW class \in ImageClass, AddImage(s, class)
  PROVE  Adds(s)
<1>1. nextID \in Nat \ {0} /\ nextID' = nextID + 1 /\ nextID' \in nextID..(MaxID + 1)
  BY DrawnBelow, RegistrationAssumption DEF IInv, AddImage, RoomFor
<1>2. New = {nextID}
  BY <1>1 DEF New
<1>3. Exists(s) /\ s \notin stubs
  BY DEF AddImage, Registers, Open
<1>4. setup'[s] = setup[s] \cup {Node(nextID, {}, "image")}
  BY DEF AddImage, IInv, ShapeInv
<1>5. /\ DOMAIN images'[s] = DOMAIN images[s] \cup {nextID}
      /\ resources'[s] = resources[s] /\ loads'[s] = loads[s] /\ clusters'[s] = clusters[s]
  BY DEF AddImage, IInv, ShapeInv, Joined
<1>6. Kept(s)' = Kept(s) \cup {nextID}
  BY <1>5 DEF Kept
<1>7. \A n \in setup'[s] \ setup[s] : n = Node(nextID, {}, "image")
  BY <1>4
<1>8. /\ DOMAIN clusters' = Spec /\ DOMAIN images' = Spec /\ DOMAIN resources' = Spec
      /\ DOMAIN loads' = Spec /\ DOMAIN setup' = Spec
  BY DEF AddImage, IInv, ShapeInv
<1>9. \A t \in Spec \ {s} :
        /\ clusters'[t] = clusters[t] /\ images'[t] = images[t] /\ resources'[t] = resources[t]
        /\ loads'[t] = loads[t] /\ setup'[t] = setup[t]
  BY DEF AddImage, IInv, ShapeInv
<1>10. /\ UNCHANGED <<parent, stubs>> /\ declared' = declared
       /\ panicked \subseteq panicked' /\ panicked' \subseteq Spec
  BY DEF AddImage, IInv, TypeOK
<1>11. Draws(s)
  BY <1>1, <1>3, <1>10 DEF Draws
<1>12. OnlyAt(s)
  BY <1>8, <1>9 DEF OnlyAt
<1>13. NewNodes(s)
  BY <1>2, <1>3, <1>4, <1>7 DEF NewNodes, Node
<1>14. NewKeys(s)
  BY <1>2, <1>3, <1>5, <1>6 DEF NewKeys
<1> QED
  BY <1>11, <1>12, <1>13, <1>14 DEF Adds

LEMMA ImageListFacts ==
  ASSUME IInv, NEW s \in Spec, NEW deps \in ImageLists(s)
  PROVE  /\ Len(deps) \in 0..2 /\ DOMAIN deps = 1..Len(deps)
         /\ \A k \in DOMAIN deps : /\ IsImage(deps[k]) /\ deps[k] \in 1..(nextID - 1)
                                  /\ deps[k] \in Visible(s)
         /\ Reached(s, deps) \in 0..Len(deps)
         /\ Fails(s, deps) # {} => Reached(s, deps) \in Fails(s, deps)
         /\ Fails(s, deps) = {} => Reached(s, deps) = Len(deps)
<1> DEFINE im == {i \in Visible(s) : IsImage(i)}
<1>1. Len(deps) \in 0..2 /\ DOMAIN deps = 1..Len(deps) /\ \A k \in DOMAIN deps : deps[k] \in im
  <2>1. CASE deps = <<>>
    BY <2>1
  <2>2. CASE \E i \in im : deps = <<i>>
    BY <2>2
  <2>3. CASE deps \in im \X im
    <3>1. PICK i, j \in im : deps = <<i, j>>
      BY <2>3
    <3> QED
      BY <3>1
  <2> QED
    BY <2>1, <2>2, <2>3 DEF ImageLists
<1>2. \A i \in im : IsImage(i) /\ i \in 1..(nextID - 1)
  BY DEF IInv, TypeOK, IsImage
<1>3. Fails(s, deps) \subseteq 1..Len(deps)
  BY <1>1 DEF Fails
<1>4. Fails(s, deps) # {} => Reached(s, deps) \in Fails(s, deps)
  <2>1. SUFFICES ASSUME Fails(s, deps) # {}
                 PROVE  Reached(s, deps) \in Fails(s, deps)
    OBVIOUS
  <2>2. Fails(s, deps) \in SUBSET Nat
    BY <1>1, <1>3
  <2>3. \E k \in Fails(s, deps) : \A j \in Fails(s, deps) : k <= j
    BY <2>1, <2>2, LeastIn
  <2> QED
    BY <2>1, <2>3 DEF Reached
<1>5. Fails(s, deps) = {} => Reached(s, deps) = Len(deps)
  BY DEF Reached
<1>6. Reached(s, deps) \in 0..Len(deps)
  BY <1>1, <1>3, <1>4, <1>5
<1> QED
  BY <1>1, <1>2, <1>4, <1>5, <1>6

LEMMA LastOfFacts ==
  ASSUME NEW deps, NEW end \in Nat, NEW k \in 1..end
  PROVE  LET l == LastOf(deps, end, deps[k]) IN l \in 1..end /\ deps[l] = deps[k]
<1> DEFINE S == {j \in 1..end : deps[j] = deps[k]}
<1>1. S \in SUBSET (1..end) /\ S # {}
  OBVIOUS
<1>2. \E n \in S : \A m \in S : m <= n
  <2> HIDE DEF S
  <2> QED
    BY <1>1, GreatestIn
<1>3. PICK n \in S : \A m \in S : m <= n
  BY <1>2
<1>4. \A j \in (n+1)..end : deps[j] # deps[k]
  BY <1>3
<1>5. n \in 1..end /\ deps[n] = deps[k] /\ \A j \in (n+1)..end : deps[j] # deps[k]
  BY <1>4
<1> QED
  BY <1>5 DEF LastOf

LEMMA AddClusterAdds ==
  ASSUME IInv, NEW s \in Spec, NEW deps \in ImageLists(s), AddCluster(s, deps)
  PROVE  Adds(s)
<1> DEFINE c    == nextID
           end  == Reached(s, deps)
           ends == Fails(s, deps) = {}
           done == IF ends THEN end ELSE end - 1
           keys == {<<c, deps[k]>> : k \in 1..end}
           more == [q \in keys |-> c + LastOf(deps, end, q[2])]
           made == {Node(c + k, {c, deps[k]}, "load") : k \in 1..done}
                     \cup (IF ends THEN {Node(c, {}, "cluster")} ELSE {})
<1>1. /\ nextID' = c + end + 1 /\ c + 1 + end <= MaxID + 1
      /\ clusters' = [clusters EXCEPT ![s] = @ \cup {c}]
      /\ loads' = [loads EXCEPT ![s] = Joined(@, more)]
      /\ setup' = [setup EXCEPT ![s] = @ \cup made]
      /\ panicked' = IF ends THEN panicked ELSE panicked \cup {s}
      /\ UNCHANGED <<parent, stubs, images, resources, declared>>
      /\ Exists(s) /\ s \notin stubs
  <2>1. /\ nextID' = c + (end + 1) /\ c + (1 + end) <= MaxID + 1
        /\ clusters' = [clusters EXCEPT ![s] = @ \cup {c}]
        /\ panicked' = IF ends THEN panicked ELSE panicked \cup {s}
        /\ UNCHANGED <<parent, stubs, images, resources, declared>>
        /\ Exists(s) /\ s \notin stubs
    BY DEF AddCluster, IDsDrawn, RoomFor, Registers, Open
  <2>2. loads' = [loads EXCEPT ![s] = Joined(@, more)]
    BY DEF AddCluster
  <2>3. setup' = [setup EXCEPT ![s] = @ \cup made]
    BY DEF AddCluster
  <2>4. c \in Nat /\ end \in Nat
    BY DrawnBelow, ImageListFacts DEF IInv
  <2> QED
    BY <2>1, <2>2, <2>3, <2>4, RegistrationAssumption
<1>2. c \in Nat \ {0} /\ end \in Nat /\ done \in Nat /\ done <= end
  <2>1. c \in Nat \ {0} /\ end \in Nat
    BY DrawnBelow, ImageListFacts DEF IInv
  <2>2. ~ends => end \in 1..Len(deps)
    BY ImageListFacts DEF Fails
  <2> QED
    BY <2>1, <2>2, ImageListFacts
<1>3. \A k \in 1..end : /\ deps[k] \in 1..(c - 1)
                        /\ LastOf(deps, end, deps[k]) \in 1..end
  <2>1. \A k \in 1..end : k \in DOMAIN deps
    BY ImageListFacts
  <2> QED
    BY <1>2, <2>1, ImageListFacts, LastOfFacts
<1>4. \A k \in 0..end : c + k \in New
  BY <1>1, <1>2 DEF New
<1>5. \A n \in made :
        /\ n.id \in New /\ n.act \in {"load", "cluster"}
        /\ \A d \in n.deps : d \in Nat /\ d < n.id
  <2>1. ASSUME NEW k \in 1..done
        PROVE  LET n == Node(c + k, {c, deps[k]}, "load") IN
               /\ n.id \in New /\ n.act = "load"
               /\ \A d \in n.deps : d \in Nat /\ d < n.id
    <3>1. k \in 1..end /\ k \in 0..end
      BY <1>2
    <3>2. deps[k] \in Nat /\ deps[k] < c + k /\ c < c + k
      BY <1>2, <1>3, <3>1
    <3> QED
      BY <1>2, <1>4, <3>1, <3>2 DEF Node
  <2>2. c \in New
    BY <1>2, <1>4
  <2>3. LET n == Node(c, {}, "cluster") IN
        n.id \in New /\ n.act = "cluster" /\ \A d \in n.deps : d \in Nat /\ d < n.id
    BY <2>2 DEF Node
  <2> QED
    BY <2>1, <2>3
<1>6. \A m, n \in made : m.id = n.id => m = n
  <2>1. \A n \in made : \E k \in 0..done :
          /\ n.id = c + k
          /\ n = IF k = 0 THEN Node(c, {}, "cluster") ELSE Node(c + k, {c, deps[k]}, "load")
    <3>1. ASSUME NEW k \in 1..done
          PROVE  k \in 0..done /\ k # 0 /\ Node(c + k, {c, deps[k]}, "load").id = c + k
      BY <1>2 DEF Node
    <3>2. 0 \in 0..done /\ Node(c, {}, "cluster").id = c + 0
      BY <1>2 DEF Node
    <3> QED
      BY <3>1, <3>2
  <2>2. \A j, k \in 0..done : c + j = c + k => j = k
    BY <1>2
  <2> HIDE DEF c, made, done
  <2> QED
    BY <2>1, <2>2
<1>7. DOMAIN more = keys /\ \A q \in keys : more[q] \in New \ {c}
  <2>1. ASSUME NEW k \in 1..end PROVE more[<<c, deps[k]>>] \in New \ {c}
    <3>1. LastOf(deps, end, deps[k]) \in 1..end
      BY <1>3
    <3>2. more[<<c, deps[k]>>] = c + LastOf(deps, end, deps[k])
      OBVIOUS
    <3> QED
      BY <1>2, <1>4, <3>1, <3>2
  <2> QED
    BY <2>1
<1> HIDE DEF c, end, ends, done, keys, more, made
<1>8. Draws(s)
  <2>1. nextID' \in nextID..(MaxID + 1)
    BY <1>1, <1>2, RegistrationAssumption DEF c
  <2>2. panicked \subseteq panicked' /\ panicked' \subseteq Spec
    BY <1>1 DEF IInv, TypeOK
  <2> QED
    BY <1>1, <2>1, <2>2 DEF Draws
<1>9. OnlyAt(s)
  BY <1>1 DEF OnlyAt, IInv, ShapeInv
<1>10. NewNodes(s)
  <2>1. setup'[s] = setup[s] \cup made
    BY <1>1 DEF IInv, ShapeInv
  <2> QED
    BY <1>1, <1>5, <1>6, <2>1 DEF NewNodes
<1>11. NewKeys(s)
  <2>1. /\ clusters'[s] = clusters[s] \cup {c}
        /\ images'[s] = images[s] /\ resources'[s] = resources[s]
        /\ loads'[s] = Joined(loads[s], more)
    BY <1>1 DEF IInv, ShapeInv
  <2>2. /\ DOMAIN loads'[s] = DOMAIN loads[s] \cup keys
        /\ \A q \in DOMAIN loads[s] : loads'[s][q] = loads[s][q]
        /\ \A q \in keys \ DOMAIN loads[s] : loads'[s][q] = more[q]
    BY <1>7, <2>1 DEF Joined
  <2>3. Kept(s)' \subseteq Kept(s) \cup (New \ {c})
    BY <1>7, <2>1, <2>2 DEF Kept
  <2>4. c \notin Kept(s)
    BY <1>2, DrawnBelow DEF IInv, c
  <2>5. c \in New
    BY <1>2, <1>4
  <2> QED
    BY <1>1, <2>1, <2>2, <2>3, <2>4, <2>5 DEF NewKeys
<1> QED
  BY <1>8, <1>9, <1>10, <1>11 DEF Adds

LEMMA AddResourceAdds ==
  ASSUME IInv, NEW s \in Spec, NEW class \in ResourceClass, NEW c,
         NEW direct \in SUBSET Visible(s), NEW bundle \in SUBSET Visible(s),
         AddResource(s, class, c, direct, bundle)
  PROVE  Adds(s)
<1> DEFINE deps == direct \cup Unbundled(bundle)
           node == Node(nextID, DependsOn(s, c, deps), "resource")
<1>1. nextID \in Nat \ {0} /\ nextID' = nextID + 1 /\ nextID' \in nextID..(MaxID + 1)
  BY DrawnBelow, RegistrationAssumption DEF IInv, AddResource, RoomFor
<1>2. New = {nextID}
  BY <1>1 DEF New
<1>3. Exists(s) /\ s \notin stubs
  BY DEF AddResource, Registers, Open
<1>4. /\ resources'[s] = resources[s] \cup {nextID}
      /\ clusters'[s] = clusters[s] /\ images'[s] = images[s] /\ loads'[s] = loads[s]
  BY DEF AddResource, IInv, ShapeInv
<1>5. Kept(s)' = Kept(s) \cup {nextID}
  BY <1>4 DEF Kept
<1>6. CASE Resolves(s, c, deps)
  <2>1. /\ setup' = [setup EXCEPT ![s] = @ \cup {node}]
        /\ DOMAIN declared' = DOMAIN declared \cup {nextID}
        /\ \A r \in DOMAIN declared : declared'[r] = declared[r]
        /\ panicked' = panicked
    BY <1>6 DEF AddResource, Joined
  <2>2. \A d \in node.deps : d \in Nat /\ d < nextID
    <3>1. c \in 1..(nextID - 1)
      BY <1>6 DEF Resolves, IInv, TypeOK
    <3>2. \A i \in deps : IsImage(i) => loads[s][<<c, i>>] \in 1..(nextID - 1)
      BY <1>6 DEF Resolves, IInv, TypeOK
    <3>3. \A i \in deps : ~IsImage(i) => i \in 1..(nextID - 1)
      <4>1. deps \subseteq Visible(s)
        BY DEF Unbundled
      <4>2. \A i \in Visible(s) : IsImage(i) \/ i \in DOMAIN declared
        <5>1. Lineage(s) \subseteq Spec
          BY DEF Lineage, Upstream
        <5> QED
          BY <5>1 DEF Visible, IsImage
      <4> QED
        BY <4>1, <4>2 DEF IInv, TypeOK
    <3>4. node.deps = {c} \cup {IF IsImage(i) THEN loads[s][<<c, i>>] ELSE i : i \in deps}
      BY DEF Node, DependsOn
    <3>5. node.deps \subseteq 1..(nextID - 1)
      <4> HIDE DEF deps, node
      <4> QED
        BY <3>1, <3>2, <3>3, <3>4
    <3> QED
      BY <1>1, <3>5
  <2>3. node.id = nextID /\ node.act = "resource"
    BY DEF Node
  <2>4. setup'[s] = setup[s] \cup {node}
    BY <2>1 DEF IInv, ShapeInv
  <2> HIDE DEF node, deps
  <2>5. Draws(s)
    BY <1>1, <1>2, <1>3, <2>1 DEF Draws, AddResource, IInv, TypeOK
  <2>6. OnlyAt(s)
    BY <2>1 DEF OnlyAt, AddResource, IInv, ShapeInv
  <2>7. NewNodes(s)
    BY <1>2, <1>3, <2>2, <2>3, <2>4 DEF NewNodes
  <2>8. NewKeys(s)
    BY <1>2, <1>3, <1>4, <1>5 DEF NewKeys
  <2> QED
    BY <2>5, <2>6, <2>7, <2>8 DEF Adds
<1>7. CASE ~Resolves(s, c, deps)
  <2>1. setup' = setup /\ declared' = declared /\ panicked' = panicked \cup {s}
    BY <1>7 DEF AddResource
  <2>2. Draws(s)
    BY <1>1, <1>3, <2>1 DEF Draws, AddResource, IInv, TypeOK
  <2>3. OnlyAt(s)
    BY <2>1 DEF OnlyAt, AddResource, IInv, ShapeInv
  <2>4. NewNodes(s)
    BY <2>1 DEF NewNodes
  <2>5. NewKeys(s)
    BY <1>2, <1>3, <1>4, <1>5 DEF NewKeys
  <2> QED
    BY <2>2, <2>3, <2>4, <2>5 DEF Adds
<1> QED
  BY <1>6, <1>7

LEMMA OnStubAdds ==
  ASSUME IInv, NEW s \in Spec, OnStub(s)
  PROVE  Adds(s)
<1>1. nextID \in Nat \ {0} /\ nextID' = nextID + 1 /\ nextID' \in nextID..(MaxID + 1)
  BY DrawnBelow, RegistrationAssumption DEF IInv, OnStub, RoomFor
<1>2. New = {nextID}
  BY <1>1 DEF New
<1>3. Draws(s)
  BY <1>1 DEF Draws, OnStub, Open, IInv, TypeOK
<1>4. OnlyAt(s)
  BY DEF OnlyAt, OnStub, IInv, ShapeInv
<1>5. NewNodes(s)
  BY DEF NewNodes, OnStub
<1>6. NewKeys(s)
  <2>1. Kept(s)' = Kept(s) /\ nextID \notin Kept(s)
    BY <1>1, DrawnBelow DEF OnStub, Kept, IInv
  <2>2. clusters'[s] \in {clusters[s], clusters[s] \cup {nextID}}
    BY DEF OnStub, IInv, ShapeInv
  <2> QED
    BY <1>2, <2>1, <2>2 DEF NewKeys, OnStub
<1> QED
  BY <1>3, <1>4, <1>5, <1>6 DEF Adds

-----------------------------------------------------------------------------
(* Making a spec *)

\* What ForSpec and Rehydrate have in common.
Makes(p, s) ==
  /\ Exists(p) /\ ~Exists(s)
  /\ \E q \in {p, None} : parent' = [parent EXCEPT ![s] = q]
  /\ clusters' = [clusters EXCEPT ![s] = clusters[p]]
  /\ \/ setup' = [setup EXCEPT ![s] = Inherited(clusters[p])] /\ stubs' = stubs
     \/ setup' = setup /\ stubs' = stubs \cup {s}
  /\ UNCHANGED <<nextID, images, resources, loads, declared, panicked>>

LEMMA ForSpecMakes ==
  ASSUME NEW p \in Spec, NEW s \in Spec, ForSpec(p, s)
  PROVE  Makes(p, s)
BY DEF ForSpec, Makes, Open, Fresh

LEMMA RehydrateMakes ==
  ASSUME NEW p \in Spec, NEW s \in Spec, Rehydrate(p, s)
  PROVE  Makes(p, s)
BY DEF Rehydrate, Makes, Open, Fresh

LEMMA MakesFrame ==
  ASSUME IInv, NEW p \in Spec, NEW s \in Spec, Makes(p, s)
  PROVE  /\ s # p
         /\ \A t \in Spec : Exists(t)' <=> (Exists(t) \/ t = s)
         /\ \A t \in Spec \ {s} : parent'[t] = parent[t] /\ clusters'[t] = clusters[t]
                                 /\ setup'[t] = setup[t]
         /\ \A t \in Spec \ {s} : t \in stubs' <=> t \in stubs
         /\ clusters'[s] = clusters[p] /\ Kept(s)' = {}
         /\ setup'[s] \in {{}, Inherited(clusters[p])} /\ (s \in stubs' => setup'[s] = {})
         /\ \A t \in Spec : Kept(t)' = Kept(t)
<1>1. s # p /\ None # s
  BY RegistrationAssumption DEF Makes
<1>2. \A t \in Spec \ {s} : parent'[t] = parent[t]
  BY DEF Makes, IInv, TypeOK
<1>3. parent'[s] # s
  BY <1>1 DEF Makes, IInv, TypeOK
<1>4. \A t \in Spec \ {s} : clusters'[t] = clusters[t] /\ setup'[t] = setup[t]
  BY DEF Makes, IInv, ShapeInv
<1>5. setup[s] = {} /\ Kept(s) = {} /\ s \notin stubs
  BY DEF Makes, IInv, ShapeInv
<1>6. /\ clusters'[s] = clusters[p]
      /\ setup'[s] \in {{}, Inherited(clusters[p])} /\ (s \in stubs' => setup'[s] = {})
  BY <1>5 DEF Makes, IInv, ShapeInv
<1>7. \A t \in Spec : Kept(t)' = Kept(t)
  BY DEF Makes, Kept
<1>8. \A t \in Spec \ {s} : t \in stubs' <=> t \in stubs
  BY DEF Makes
<1>9. \A t \in Spec : Exists(t)' <=> (Exists(t) \/ t = s)
  BY <1>2, <1>3 DEF Exists
<1> QED
  BY <1>1, <1>2, <1>4, <1>5, <1>6, <1>7, <1>8, <1>9

LEMMA MakesInv ==
  ASSUME IInv, NEW p \in Spec, NEW s \in Spec, Makes(p, s)
  PROVE  IInv'
<1>1. \A n \in setup'[s] : \E c \in clusters[p] : n = Node(c, {}, "inherited")
  BY MakesFrame DEF Inherited
<1>2. \A n \in setup'[s] :
        n.id \in clusters[p] /\ n.act = "inherited" /\ n.deps = {} /\ n = Node(n.id, {}, "inherited")
  BY <1>1 DEF Node
<1>3. clusters[p] \subseteq 1..(nextID - 1)
  BY DEF IInv, TypeOK
<1>4. /\ nextID' = nextID /\ images' = images /\ resources' = resources /\ loads' = loads
      /\ declared' = declared /\ panicked' = panicked
  BY DEF Makes
<1>5. TypeOK'
  <2>1. \A t \in Spec : clusters'[t] \subseteq 1..(nextID - 1)
    BY <1>3, MakesFrame DEF IInv, TypeOK
  <2>2. \A t \in Spec : \A n \in setup'[t] : n.id \in 1..(nextID - 1) /\ n.act \in Act
    BY <1>2, <1>3, MakesFrame DEF IInv, TypeOK, Act
  <2>3. parent' \in [Spec -> Spec \cup {None}] /\ stubs' \subseteq Spec
    BY DEF IInv, TypeOK, Makes
  <2> QED
    BY <1>4, <2>1, <2>2, <2>3 DEF IInv, TypeOK
<1>6. ShapeInv'
  <2>1. /\ DOMAIN clusters' = Spec /\ DOMAIN images' = Spec /\ DOMAIN resources' = Spec
        /\ DOMAIN loads' = Spec /\ DOMAIN setup' = Spec
    BY DEF IInv, ShapeInv, Makes
  <2>2. \A t \in Spec : ~Exists(t)' \/ t \in stubs' => Kept(t)' = {} /\ setup'[t] = {}
    BY MakesFrame DEF IInv, ShapeInv
  <2>3. \A t \in Spec : ~Exists(t)' => clusters'[t] = {} /\ t \notin stubs'
    BY MakesFrame DEF IInv, ShapeInv
  <2> QED
    BY <2>1, <2>2, <2>3 DEF ShapeInv
<1>7. \A t \in Spec : Drawn(t)' \subseteq Drawn(t)
  <2>1. Own(s)' = {}
    BY <1>2 DEF Own
  <2>2. \A t \in Spec \ {s} : Own(t)' = Own(t)
    BY MakesFrame DEF Own
  <2> QED
    BY <2>1, <2>2, MakesFrame DEF Drawn
<1>8. \A t, u \in Spec : t # u => Drawn(t)' \cap Drawn(u)' = {}
  BY <1>7 DEF IInv, IDInv
<1>9. \A t, u \in Spec : clusters'[t] \cap Kept(u)' = {}
  BY MakesFrame DEF IInv, IDInv
<1>10. \A t \in Spec : \A m, n \in setup'[t] : m.id = n.id => m = n
  BY <1>2, MakesFrame DEF IInv, IDInv
<1>11. \A t \in Spec : \A n \in setup'[t] :
         /\ n.act = "inherited" => n.id \in clusters'[t]
         /\ n.act # "noop"
         /\ \A d \in n.deps : d \in Nat /\ d < n.id
  BY <1>2, MakesFrame DEF IInv, IDInv
<1> QED
  BY <1>5, <1>6, <1>8, <1>9, <1>10, <1>11 DEF IInv, IDInv

-----------------------------------------------------------------------------

LEMMA IInvInit == Init => IInv
<1> SUFFICES ASSUME Init PROVE IInv
  OBVIOUS
<1>1. \A s \in Spec : Kept(s) = {} /\ setup[s] = {} /\ clusters[s] = {} /\ Own(s) = {}
  BY DEF Init, Kept, Own
<1>2. TypeOK
  <2>1. nextID \in 1..(MaxID + 1)
    BY RegistrationAssumption DEF Init
  <2>2. parent \in [Spec -> Spec \cup {None}]
    BY DEF Init
  <2>3. \A s \in Spec : DOMAIN images[s] = {} /\ resources[s] = {} /\ DOMAIN loads[s] = {}
    BY DEF Init
  <2>4. DOMAIN declared = {} /\ stubs = {} /\ panicked = {}
    BY DEF Init
  <2> QED
    BY <1>1, <2>1, <2>2, <2>3, <2>4 DEF TypeOK
<1>3. ShapeInv
  BY <1>1 DEF Init, ShapeInv
<1>4. IDInv
  BY <1>1 DEF IDInv, Drawn
<1> QED
  BY <1>2, <1>3, <1>4 DEF IInv

\* A step of a spec, with what it registers, or that makes one.
LEMMA Steps ==
  ASSUME IInv, Next
  PROVE  \/ \E s \in Spec : Adds(s)
         \/ \E p, s \in Spec : Makes(p, s)
<1>1. CASE \E s \in Spec, class \in ImageClass : AddImage(s, class)
  BY <1>1, AddImageAdds
<1>2. CASE \E s \in Spec : \E deps \in ImageLists(s) : AddCluster(s, deps)
  BY <1>2, AddClusterAdds
<1>3. CASE \E s \in Spec : \E class \in ResourceClass, c \in VisibleClusters(s),
               direct, bundle \in SUBSET Visible(s) : AddResource(s, class, c, direct, bundle)
  BY <1>3, AddResourceAdds
<1>4. CASE \E p, s \in Spec : ForSpec(p, s) \/ Rehydrate(p, s)
  BY <1>4, ForSpecMakes, RehydrateMakes
<1>5. CASE \E s \in Spec : OnStub(s)
  BY <1>5, OnStubAdds
<1> QED
  BY <1>1, <1>2, <1>3, <1>4, <1>5 DEF Next

LEMMA IInvStep == IInv /\ [Next]_vars => IInv'
<1> SUFFICES ASSUME IInv, [Next]_vars PROVE IInv'
  OBVIOUS
<1>1. CASE Next
  BY <1>1, Steps, AddsInv, MakesInv
<1>2. CASE UNCHANGED vars
  <2>1. TypeOK' = TypeOK
    BY <1>2 DEF vars, TypeOK
  <2>2. ShapeInv' = ShapeInv
    BY <1>2 DEF vars, ShapeInv, Exists, Kept
  <2>3. IDInv' = IDInv
    BY <1>2 DEF vars, IDInv, Drawn, Own, Kept
  <2> QED
    BY <2>1, <2>2, <2>3 DEF IInv
<1> QED
  BY <1>1, <1>2

THEOREM Invariance == Calls => []IInv
BY IInvInit, IInvStep, PTL DEF Calls

\* Every key of a map and every node has an id that newID has returned.
THEOREM TypeCorrect == Calls => []TypeOK
<1>1. IInv => TypeOK
  BY DEF IInv
<1> QED
  BY <1>1, Invariance, PTL

\* No id is set up by two specs, however deep they nest and whatever else
\* they share: of what a spec has from another it runs nothing.
THEOREM OneOwnerAlways == Calls => []OneOwner
<1>1. IInv => OneOwner
  <2> SUFFICES ASSUME IInv, NEW s \in Spec, NEW t \in Spec,
                      NEW m \in SetupNodes(s), NEW n \in SetupNodes(t), s # t, m.id = n.id,
                      m.act \notin {"inherited", "noop"}, n.act \notin {"inherited", "noop"}
               PROVE  FALSE
    BY DEF OneOwner
  <2>1. m \in setup[s] /\ n \in setup[t]
    BY DEF SetupNodes, Node
  <2>2. m.id \in Own(s) /\ n.id \in Own(t)
    BY <2>1 DEF Own
  <2> QED
    BY <2>2 DEF IInv, IDInv, Drawn
<1> QED
  BY <1>1, Invariance, PTL

-----------------------------------------------------------------------------
(* Specs made on the suite only: a spec has what it can name *)

\* A parent is there, and has no parent itself.
DepthInv ==
  \A s \in Spec : Exists(s) /\ parent[s] # None =>
    Exists(parent[s]) /\ parent[parent[s]] = None

\* What s has has nodes, and so has what its nodes depend on, in s or, for
\* what came from the parent, among the noops; where Cluster() has panicked
\* half-way, that is left for the nodes of resources.
PresenceInv ==
  \A s \in Spec :
    /\ DOMAIN images[s] \subseteq Ids(s)
    /\ s \notin panicked \cup stubs => clusters[s] \subseteq Ids(s)
    /\ s \notin panicked => \A q \in DOMAIN loads[s] :
         Node(loads[s][q], {q[1], q[2]}, "load") \in setup[s]
    /\ \A n \in setup[s] : s \notin panicked \/ n.act = "resource" =>
         n.deps \subseteq Ids(s) \cup NoopIDs(s)

\* The node of r depends on its cluster, the resources it names and loads of
\* the images it names.
DeclaredAt(r) ==
  LET d == declared[r] IN
  /\ d.spec \in Spec /\ r \in resources[d.spec] /\ ~IsImage(r)
  /\ \A x \in d.direct \cup d.bundle : IsImage(x) \/ x \in DOMAIN declared
  /\ \E n \in setup[d.spec] :
       /\ n.id = r /\ n.act = "resource" /\ d.cluster \in n.deps
       /\ \A x \in d.direct \cup Unbundled(d.bundle) :
            IF IsImage(x)
            THEN \E m \in setup[d.spec] :
                   m.act = "load" /\ m.id \in n.deps /\ m.deps = {d.cluster, x}
            ELSE x \in n.deps

DeclaredInv == \A r \in DOMAIN declared : DeclaredAt(r)

FlatInv == DepthInv /\ PresenceInv /\ DeclaredInv

LEMMA LineageOf ==
  ASSUME IInv, NEW s \in Spec, Exists(s)
  PROVE  /\ Lineage(s) \subseteq Spec /\ s \in Lineage(s)
         /\ parent[s] # None => parent[s] \in Lineage(s)
         /\ DepthInv => Lineage(s) \subseteq {s, parent[s]} \ {None}
<1> DEFINE g == [t \in Spec |-> IF Exists(t) THEN {parent[t]} \ {None} ELSE {}]
           C == {s, parent[s]} \ {None}
<1>1. g \in [Spec -> SUBSET Spec]
  BY DEF IInv, TypeOK
<1>2. Lineage(s) = Upstream(g, {s})
  BY DEF Lineage
<1>3. g[s] = {parent[s]} \ {None} /\ s # None
  BY RegistrationAssumption
<1>4. C \in SUBSET Spec /\ {s} \subseteq C
  BY <1>3 DEF IInv, TypeOK
<1>5. DepthInv => Closed(g, C)
  <2> SUFFICES ASSUME DepthInv, NEW m \in C PROVE g[m] \subseteq C
    BY DEF Closed
  <2>1. CASE m = s
    BY <1>3, <2>1
  <2>2. CASE m = parent[s] /\ parent[s] # None
    BY <1>4, <2>2 DEF DepthInv
  <2> QED
    BY <2>1, <2>2
<1> HIDE DEF g, C
<1>6. Upstream(g, {s}) \subseteq Spec /\ {s} \subseteq Upstream(g, {s}) /\ Closed(g, Upstream(g, {s}))
  BY <1>1, UpstreamContains
<1>7. DepthInv => Upstream(g, {s}) \subseteq C
  BY <1>1, <1>4, <1>5, UpstreamLeast
<1>8. parent[s] # None => parent[s] \in Upstream(g, {s})
  BY <1>3, <1>6 DEF Closed
<1> QED
  BY <1>2, <1>6, <1>7, <1>8 DEF C

\* All that a spec can name has a node in its graph.
LEMMA VisiblePresent ==
  ASSUME IInv, FlatInv, NEW s \in Spec, Exists(s), NEW x \in Visible(s)
  PROVE  /\ x \in Ids(s) \cup NoopIDs(s)
         /\ IsImage(x) \/ x \in DOMAIN declared
<1>1. PICK t \in Lineage(s) :
        x \in DOMAIN images[t] \/ (x \in DOMAIN declared /\ declared[x].spec = t)
  BY DEF Visible
<1>2. t \in Spec /\ (t = s \/ (t = parent[s] /\ t # None))
  BY LineageOf DEF FlatInv
<1>3. IsImage(x) \/ x \in DOMAIN declared
  BY <1>1, <1>2 DEF IsImage
<1>4. CASE t = s
  <2>1. CASE x \in DOMAIN images[t]
    BY <1>3, <1>4, <2>1 DEF FlatInv, PresenceInv
  <2>2. CASE x \in DOMAIN declared /\ declared[x].spec = t
    <3>1. \E n \in setup[s] : n.id = x
      BY <1>4, <2>2 DEF FlatInv, DeclaredInv, DeclaredAt
    <3> QED
      BY <1>3, <3>1 DEF Ids
  <2> QED
    BY <1>1, <1>3, <2>1, <2>2
<1>5. CASE t = parent[s] /\ t # None
  <2>1. CASE x \in DOMAIN images[t]
    BY <1>3, <1>5, <2>1 DEF NoopIDs
  <2>2. CASE x \in DOMAIN declared /\ declared[x].spec = t
    <3>1. x \in resources[t]
      BY <2>2 DEF FlatInv, DeclaredInv, DeclaredAt
    <3> QED
      BY <1>3, <1>5, <3>1 DEF NoopIDs
  <2> QED
    BY <1>1, <1>3, <2>1, <2>2
<1> QED
  BY <1>2, <1>3, <1>4, <1>5

\* What there is stays.
Grows ==
  /\ \A t \in Spec : /\ setup[t] \subseteq setup'[t] /\ clusters[t] \subseteq clusters'[t]
                     /\ DOMAIN images[t] \subseteq DOMAIN images'[t]
                     /\ resources[t] \subseteq resources'[t]
                     /\ \A q \in DOMAIN loads[t] : q \in DOMAIN loads'[t] /\ loads'[t][q] = loads[t][q]
  /\ \A t \in Spec : Exists(t) => parent'[t] = parent[t]
  /\ \A r \in DOMAIN declared : r \in DOMAIN declared' /\ declared'[r] = declared[r]
  /\ \A x \in 1..(nextID - 1) : IsImage(x)' <=> IsImage(x)

LEMMA AddsGrows ==
  ASSUME IInv, NEW s \in Spec, Adds(s)
  PROVE  Grows
<1>1. \A t \in Spec : /\ setup[t] \subseteq setup'[t] /\ clusters[t] \subseteq clusters'[t]
                     /\ DOMAIN images[t] \subseteq DOMAIN images'[t]
                     /\ resources[t] \subseteq resources'[t]
                     /\ \A q \in DOMAIN loads[t] : q \in DOMAIN loads'[t] /\ loads'[t][q] = loads[t][q]
  BY DEF Adds, OnlyAt, NewNodes, NewKeys
<1>2. \A x \in 1..(nextID - 1) : IsImage(x)' <=> IsImage(x)
  <2>1. \A t \in Spec : DOMAIN images'[t] \subseteq DOMAIN images[t] \cup New
    BY DEF Adds, OnlyAt, NewKeys
  <2>2. \A x \in New : x \notin 1..(nextID - 1)
    BY DrawnBelow DEF IInv, New
  <2> QED
    BY <1>1, <2>1, <2>2 DEF IsImage
<1> QED
  BY <1>1, <1>2 DEF Grows, Adds, Draws

LEMMA MakesGrows ==
  ASSUME IInv, NEW p \in Spec, NEW s \in Spec, Makes(p, s)
  PROVE  Grows
<1>1. clusters[s] = {} /\ setup[s] = {} /\ ~Exists(s)
  BY DEF IInv, ShapeInv, Makes
<1>2. \A t \in Spec : setup[t] \subseteq setup'[t] /\ clusters[t] \subseteq clusters'[t]
  BY <1>1, MakesFrame
<1>3. \A t \in Spec : Exists(t) => parent'[t] = parent[t]
  BY <1>1, MakesFrame
<1> QED
  BY <1>2, <1>3 DEF Grows, Makes, IsImage

LEMMA GrowsKeeps ==
  ASSUME IInv, FlatInv, Grows
  PROVE  /\ \A t \in Spec : Ids(t) \subseteq Ids(t)'
         /\ \A t \in Spec : Exists(t) => NoopIDs(t) \subseteq NoopIDs(t)'
         /\ \A r \in DOMAIN declared : DeclaredAt(r)'
<1>1. \A t \in Spec : Ids(t) \subseteq Ids(t)'
  BY DEF Ids, Grows
<1>2. ASSUME NEW t \in Spec, Exists(t) PROVE NoopIDs(t) \subseteq NoopIDs(t)'
  <2>1. parent'[t] = parent[t]
    BY <1>2 DEF Grows
  <2>2. CASE parent[t] = None
    BY <2>2 DEF NoopIDs
  <2>3. CASE parent[t] # None
    <3>1. parent[t] \in Spec
      BY <2>3 DEF IInv, TypeOK
    <3> DEFINE p == parent[t]
    <3>2. ASSUME NEW q \in DOMAIN loads[p], q[1] \in clusters[p]
          PROVE  loads[p][q] \in NoopIDs(t)'
      <4>1. q \in DOMAIN loads'[p] /\ loads'[p][q] = loads[p][q] /\ q[1] \in clusters'[p]
        BY <3>1, <3>2 DEF Grows
      <4> QED
        BY <2>1, <2>3, <4>1 DEF NoopIDs
    <3>3. DOMAIN images[p] \cup resources[p] \subseteq NoopIDs(t)'
      BY <2>1, <2>3, <3>1 DEF NoopIDs, Grows
    <3>4. NoopIDs(t) = {loads[p][q] : q \in {q \in DOMAIN loads[p] : q[1] \in clusters[p]}}
                         \cup DOMAIN images[p] \cup resources[p]
      BY <2>3 DEF NoopIDs
    <3> QED
      BY <3>2, <3>3, <3>4
  <2> QED
    BY <2>2, <2>3
<1>3. ASSUME NEW r \in DOMAIN declared PROVE DeclaredAt(r)'
  <2> DEFINE d == declared[r]
             S == d.direct \cup d.bundle
  <2>1. declared'[r] = d /\ DeclaredAt(r)
    BY DEF Grows, FlatInv, DeclaredInv
  <2>2. \A x \in S : (IsImage(x)' <=> IsImage(x)) /\ (IsImage(x) \/ x \in DOMAIN declared)
    <3>1. \A x \in S : IsImage(x) \/ x \in DOMAIN declared
      BY <2>1 DEF DeclaredAt
    <3>2. \A x \in S : x \in 1..(nextID - 1)
      BY <3>1 DEF IsImage, IInv, TypeOK
    <3> QED
      BY <3>1, <3>2 DEF Grows
  <2>3. ~IsImage(r)'
    BY <2>1 DEF DeclaredAt, Grows, IInv, TypeOK
  <2>4. Unbundled(d.bundle)' = Unbundled(d.bundle)
    BY <2>2 DEF Unbundled, Grows
  <2>5. PICK n \in setup[d.spec] :
          /\ n.id = r /\ n.act = "resource" /\ d.cluster \in n.deps
          /\ \A x \in d.direct \cup Unbundled(d.bundle) :
               IF IsImage(x)
               THEN \E m \in setup[d.spec] :
                      m.act = "load" /\ m.id \in n.deps /\ m.deps = {d.cluster, x}
               ELSE x \in n.deps
    BY <2>1 DEF DeclaredAt
  <2>6. d.spec \in Spec /\ setup[d.spec] \subseteq setup'[d.spec] /\ r \in resources'[d.spec]
    BY <2>1 DEF DeclaredAt, Grows
  <2>7. Unbundled(d.bundle) \subseteq d.bundle
    BY DEF Unbundled
  <2>8. \A x \in S : IsImage(x)' \/ x \in DOMAIN declared'
    BY <2>2 DEF Grows
  <2> QED
    BY <2>1, <2>2, <2>3, <2>4, <2>5, <2>6, <2>7, <2>8 DEF DeclaredAt
<1> QED
  BY <1>1, <1>2, <1>3

\* What a registration on s owes: nodes for what it adds.
Provides(s) ==
  /\ s \notin panicked' \cup stubs => clusters'[s] \subseteq Ids(s)'
  /\ DOMAIN images'[s] \subseteq Ids(s)'
  /\ s \notin panicked' => \A q \in DOMAIN loads'[s] :
       Node(loads'[s][q], {q[1], q[2]}, "load") \in setup'[s]
  /\ \A n \in setup'[s] \ setup[s] : s \notin panicked' \/ n.act = "resource" =>
       n.deps \subseteq Ids(s)' \cup NoopIDs(s)'
  /\ \A r \in DOMAIN declared' \ DOMAIN declared : DeclaredAt(r)'

LEMMA AddsFlat ==
  ASSUME IInv, FlatInv, NEW s \in Spec, Adds(s), Provides(s)
  PROVE  FlatInv'
<1>1. Grows
  BY AddsGrows
<1>2. \A t \in Spec \ {s} :
        /\ clusters'[t] = clusters[t] /\ images'[t] = images[t] /\ resources'[t] = resources[t]
        /\ loads'[t] = loads[t] /\ setup'[t] = setup[t] /\ Ids(t)' = Ids(t)
  BY AddsFrame DEF Adds, OnlyAt
<1>3. /\ parent' = parent /\ stubs' = stubs /\ panicked \subseteq panicked'
      /\ \A t \in Spec : Exists(t)' = Exists(t)
  BY AddsFrame DEF Adds, Draws
<1>4. DepthInv'
  <2>1. \A t \in Spec : Exists(t) <=> Exists(t)'
    BY <1>3
  <2>2. \A t \in Spec : parent[t] # None => parent[t] \in Spec
    BY DEF IInv, TypeOK
  <2> QED
    BY <1>3, <2>1, <2>2 DEF DepthInv, FlatInv
<1>5. \A t \in Spec : \A n \in setup[t] : t \notin panicked' \/ n.act = "resource" =>
        n.deps \subseteq Ids(t)' \cup NoopIDs(t)'
  <2> SUFFICES ASSUME NEW t \in Spec, NEW n \in setup[t], t \notin panicked' \/ n.act = "resource"
               PROVE  n.deps \subseteq Ids(t)' \cup NoopIDs(t)'
    OBVIOUS
  <2>1. n.deps \subseteq Ids(t) \cup NoopIDs(t)
    BY <1>3 DEF FlatInv, PresenceInv
  <2>2. Exists(t)
    BY DEF IInv, ShapeInv
  <2> QED
    BY <1>1, <2>1, <2>2, GrowsKeeps
<1>6. PresenceInv'
  <2>1. ASSUME NEW t \in Spec
        PROVE  /\ DOMAIN images'[t] \subseteq Ids(t)'
               /\ t \notin panicked' \cup stubs' => clusters'[t] \subseteq Ids(t)'
               /\ t \notin panicked' => \A q \in DOMAIN loads'[t] :
                    Node(loads'[t][q], {q[1], q[2]}, "load") \in setup'[t]
    <3>1. CASE t = s
      BY <1>3, <3>1 DEF Provides
    <3>2. CASE t # s
      BY <1>2, <1>3, <3>2 DEF FlatInv, PresenceInv
    <3> QED
      BY <3>1, <3>2
  <2>2. ASSUME NEW t \in Spec, NEW n \in setup'[t], t \notin panicked' \/ n.act = "resource"
        PROVE  n.deps \subseteq Ids(t)' \cup NoopIDs(t)'
    <3>1. CASE n \in setup[t]
      BY <1>5, <2>2, <3>1
    <3>2. CASE n \notin setup[t]
      BY <1>2, <2>2, <3>2 DEF Provides
    <3> QED
      BY <3>1, <3>2
  <2> QED
    BY <2>1, <2>2 DEF PresenceInv
<1>7. DeclaredInv'
  BY <1>1, GrowsKeeps DEF DeclaredInv, Provides
<1> QED
  BY <1>4, <1>6, <1>7 DEF FlatInv

LEMMA MakesFlat ==
  ASSUME IInv, FlatInv, NEW p \in Spec, NEW s \in Spec, Makes(p, s),
         parent'[s] = p => parent[p] = None
  PROVE  FlatInv'
<1>1. Grows
  BY MakesGrows
<1>2. DepthInv'
  <2>1. /\ \A t \in Spec : Exists(t)' <=> (Exists(t) \/ t = s)
        /\ \A t \in Spec \ {s} : parent'[t] = parent[t]
        /\ s # p /\ Exists(p) /\ ~Exists(s)
    BY MakesFrame DEF Makes
  <2>2. parent'[s] \in {p, None} /\ p # None
    BY RegistrationAssumption DEF Makes, IInv, TypeOK
  <2>3. \A t \in Spec : parent[t] # None => parent[t] \in Spec
    BY DEF IInv, TypeOK
  <2>4. \A t \in Spec \ {s} : Exists(t) /\ parent[t] # None =>
          parent[t] # s /\ Exists(parent[t]) /\ parent[parent[t]] = None
    BY <2>1 DEF FlatInv, DepthInv
  <2>5. ASSUME NEW t \in Spec, Exists(t)', parent'[t] # None
        PROVE  \E q \in Spec : parent'[t] = q /\ Exists(q)' /\ parent'[q] = None
    <3>1. CASE t = s
      <4>1. parent'[t] = p /\ parent[p] = None
        BY <2>2, <2>5, <3>1
      <4>2. Exists(p)' /\ parent'[p] = None
        BY <2>1, <4>1
      <4> QED
        BY <4>1, <4>2
    <3>2. CASE t # s
      <4>1. parent'[t] = parent[t] /\ Exists(t)
        BY <2>1, <2>5, <3>2
      <4>2. parent[t] \in Spec \ {s} /\ Exists(parent[t]) /\ parent[parent[t]] = None
        BY <2>3, <2>4, <2>5, <3>2, <4>1
      <4>3. PICK q \in Spec \ {s} : q = parent[t] /\ Exists(q) /\ parent[q] = None
        BY <4>2
      <4>4. Exists(q)' /\ parent'[q] = None
        BY <2>1, <4>3
      <4> QED
        BY <4>1, <4>3, <4>4
    <3> QED
      BY <3>1, <3>2
  <2>6. ASSUME NEW t \in Spec, Exists(t)', parent'[t] # None
        PROVE  parent'[parent'[t]] # parent'[t] /\ parent'[parent'[t]] = None
    <3>1. PICK q \in Spec : parent'[t] = q /\ Exists(q)' /\ parent'[q] = None
      BY <2>5, <2>6
    <3> QED
      BY <3>1 DEF Exists
  <2> QED
    BY <2>6 DEF DepthInv, Exists
<1>3. PresenceInv'
  <2>1. ASSUME NEW t \in Spec \ {s}
        PROVE  /\ DOMAIN images'[t] \subseteq Ids(t)'
               /\ t \notin panicked' \cup stubs' => clusters'[t] \subseteq Ids(t)'
               /\ t \notin panicked' => \A q \in DOMAIN loads'[t] :
                    Node(loads'[t][q], {q[1], q[2]}, "load") \in setup'[t]
    <3>1. Ids(t)' = Ids(t) /\ setup'[t] = setup[t] /\ clusters'[t] = clusters[t]
      BY MakesFrame DEF Ids
    <3>2. images' = images /\ loads' = loads /\ panicked' = panicked
      BY DEF Makes
    <3>3. t \in stubs' <=> t \in stubs
      BY MakesFrame
    <3> QED
      BY <3>1, <3>2, <3>3 DEF FlatInv, PresenceInv
  <2>2. /\ DOMAIN images'[s] = {} /\ DOMAIN loads'[s] = {}
        /\ s \notin stubs' => clusters'[s] \subseteq Ids(s)'
        /\ \A n \in setup'[s] : n.deps = {}
    <3>1. DOMAIN images'[s] = {} /\ DOMAIN loads'[s] = {}
      BY MakesFrame DEF Kept
    <3>2. s \notin stubs' => setup'[s] = Inherited(clusters[p])
      BY MakesFrame DEF Makes, IInv, ShapeInv
    <3>3. \A c \in clusters[p] : Node(c, {}, "inherited") \in Inherited(clusters[p])
      BY DEF Inherited
    <3>4. s \notin stubs' => \A c \in clusters[p] : c \in Ids(s)'
      <4> SUFFICES ASSUME s \notin stubs', NEW c \in clusters[p] PROVE c \in Ids(s)'
        OBVIOUS
      <4>1. Node(c, {}, "inherited") \in setup'[s]
        BY <3>2, <3>3
      <4>2. Node(c, {}, "inherited").id = c
        BY DEF Node
      <4> QED
        BY <4>1, <4>2 DEF Ids
    <3>5. \A n \in setup'[s] : n.deps = {}
      BY MakesFrame DEF Inherited, Node
    <3> QED
      BY <3>1, <3>4, <3>5, MakesFrame
  <2>3. ASSUME NEW t \in Spec \ {s}, NEW n \in setup'[t], t \notin panicked' \/ n.act = "resource"
        PROVE  n.deps \subseteq Ids(t)' \cup NoopIDs(t)'
    <3>1. n \in setup[t]
      BY MakesFrame
    <3>2. n.deps \subseteq Ids(t) \cup NoopIDs(t)
      BY <2>3, <3>1 DEF FlatInv, PresenceInv, Makes
    <3>3. Exists(t)
      BY <3>1 DEF IInv, ShapeInv
    <3> QED
      BY <1>1, <3>2, <3>3, GrowsKeeps
  <2> QED
    BY <2>1, <2>2, <2>3 DEF PresenceInv
<1>4. DeclaredInv'
  BY <1>1, GrowsKeeps DEF DeclaredInv, Makes
<1> QED
  BY <1>2, <1>3, <1>4 DEF FlatInv

LEMMA AddImageProvides ==
  ASSUME IInv, FlatInv, NEW s \in Spec, NEW class \in ImageClass, AddImage(s, class)
  PROVE  Provides(s)
<1>1. /\ setup'[s] = setup[s] \cup {Node(nextID, {}, "image")}
      /\ DOMAIN images'[s] = DOMAIN images[s] \cup {nextID}
      /\ clusters' = clusters /\ loads' = loads /\ panicked' = panicked /\ declared' = declared
  BY DEF AddImage, IInv, ShapeInv, Joined
<1>2. Ids(s) \subseteq Ids(s)' /\ nextID \in Ids(s)'
  <2>1. Node(nextID, {}, "image").id = nextID
    BY DEF Node
  <2> QED
    BY <1>1, <2>1 DEF Ids
<1>3. \A n \in setup'[s] \ setup[s] : n.deps = {}
  BY <1>1 DEF Node
<1> QED
  BY <1>1, <1>2, <1>3 DEF Provides, FlatInv, PresenceInv

LEMMA AddClusterProvides ==
  ASSUME IInv, FlatInv, NEW s \in Spec, NEW deps \in ImageLists(s), AddCluster(s, deps)
  PROVE  Provides(s)
<1> DEFINE c    == nextID
           end  == Reached(s, deps)
           ends == Fails(s, deps) = {}
           done == IF ends THEN end ELSE end - 1
           keys == {<<c, deps[k]>> : k \in 1..end}
           more == [q \in keys |-> c + LastOf(deps, end, q[2])]
           load(k) == Node(c + k, {c, deps[k]}, "load")
           made == {load(k) : k \in 1..done} \cup (IF ends THEN {Node(c, {}, "cluster")} ELSE {})
<1>1. /\ clusters'[s] = clusters[s] \cup {c}
      /\ loads'[s] = Joined(loads[s], more)
      /\ setup'[s] = setup[s] \cup made
      /\ panicked' = IF ends THEN panicked ELSE panicked \cup {s}
      /\ images' = images /\ declared' = declared /\ Exists(s) /\ s \notin panicked
  <2>1. Exists(s) /\ s \notin panicked
    BY LineageOf DEF AddCluster, Registers, Open
  <2>2. /\ clusters'[s] = clusters[s] \cup {c}
        /\ panicked' = IF ends THEN panicked ELSE panicked \cup {s}
        /\ images' = images /\ declared' = declared
    BY DEF AddCluster, IInv, ShapeInv
  <2>3. loads'[s] = Joined(loads[s], more)
    <3>1. loads' = [loads EXCEPT ![s] = Joined(@, more)]
      BY DEF AddCluster
    <3> QED
      BY <3>1 DEF IInv, ShapeInv
  <2>4. setup'[s] = setup[s] \cup made
    <3>1. setup' = [setup EXCEPT ![s] = @ \cup made]
      BY DEF AddCluster
    <3> QED
      BY <3>1 DEF IInv, ShapeInv
  <2> QED
    BY <2>1, <2>2, <2>3, <2>4
<1>2. \A n \in made : n.act # "resource"
  BY DEF Node
<1>3. Ids(s) \subseteq Ids(s)'
  BY <1>1 DEF Ids
<1>4. CASE ~ends
  <2>1. s \in panicked'
    BY <1>1, <1>4
  <2> HIDE DEF made
  <2> QED
    BY <1>1, <1>2, <1>3, <2>1 DEF Provides, FlatInv, PresenceInv
<1>5. CASE ends
  <2>1. done = Len(deps) /\ end = Len(deps) /\ Len(deps) \in Nat /\ panicked' = panicked
    BY <1>1, <1>5, ImageListFacts
  <2>2. \A k \in 1..end : load(k) \in made
    BY <2>1
  <2>3. c \in Ids(s)'
    <3>1. Node(c, {}, "cluster") \in setup'[s] /\ Node(c, {}, "cluster").id = c
      BY <1>1, <1>5 DEF Node
    <3> QED
      BY <3>1 DEF Ids
  <2>4. \A k \in 1..end : deps[k] \in Ids(s)' \cup NoopIDs(s)'
    <3>1. \A k \in 1..end : deps[k] \in Visible(s)
      BY <2>1, ImageListFacts
    <3>2. NoopIDs(s) \subseteq NoopIDs(s)'
      BY <1>1, AddClusterAdds, AddsGrows, GrowsKeeps
    <3> QED
      BY <1>1, <1>3, <3>1, <3>2, VisiblePresent
  <2>5. \A n \in made : n.deps \subseteq Ids(s)' \cup NoopIDs(s)'
    <3>1. \A k \in 1..done : load(k).deps \subseteq Ids(s)' \cup NoopIDs(s)'
      BY <2>1, <2>3, <2>4 DEF Node
    <3>2. Node(c, {}, "cluster").deps = {}
      BY DEF Node
    <3> QED
      BY <3>1, <3>2
  <2>6. ASSUME NEW q \in DOMAIN loads'[s]
        PROVE  Node(loads'[s][q], {q[1], q[2]}, "load") \in setup'[s]
    <3>1. CASE q \in DOMAIN loads[s]
      <4>1. loads'[s][q] = loads[s][q]
        BY <1>1, <3>1 DEF Joined
      <4>2. Node(loads[s][q], {q[1], q[2]}, "load") \in setup[s]
        BY <1>1, <3>1 DEF FlatInv, PresenceInv
      <4> QED
        BY <1>1, <4>1, <4>2
    <3>2. CASE q \notin DOMAIN loads[s]
      <4>1. q \in keys
        BY <1>1, <3>2 DEF Joined
      <4>2. loads'[s][q] = more[q]
        BY <1>1, <3>2, <4>1 DEF Joined
      <4>3. PICK k \in 1..end : q = <<c, deps[k]>>
        BY <4>1
      <4> DEFINE l == LastOf(deps, end, deps[k])
      <4>4. l \in 1..end /\ deps[l] = deps[k]
        BY <2>1, LastOfFacts
      <4>5. loads'[s][q] = c + l /\ q[1] = c /\ q[2] = deps[l]
        BY <4>1, <4>2, <4>3, <4>4
      <4>6. load(l) \in setup'[s]
        BY <1>1, <2>2, <4>4
      <4> QED
        BY <4>5, <4>6
    <3> QED
      BY <3>1, <3>2
  <2>7. s \notin stubs => clusters'[s] \subseteq Ids(s)'
    BY <1>1, <1>3, <2>3 DEF FlatInv, PresenceInv
  <2> HIDE DEF made
  <2> QED
    BY <1>1, <1>3, <2>1, <2>5, <2>6, <2>7 DEF Provides, FlatInv, PresenceInv
<1> QED
  BY <1>4, <1>5

LEMMA OnStubProvides ==
  ASSUME IInv, FlatInv, NEW s \in Spec, OnStub(s)
  PROVE  Provides(s)
<1>1. /\ s \in panicked' /\ images' = images /\ setup' = setup /\ declared' = declared
  BY DEF OnStub
<1>2. Ids(s)' = Ids(s)
  BY <1>1 DEF Ids
<1> QED
  BY <1>1, <1>2 DEF Provides, FlatInv, PresenceInv

LEMMA AddResourceProvides ==
  ASSUME IInv, FlatInv, NEW s \in Spec, NEW class \in ResourceClass, NEW c,
         NEW direct \in SUBSET Visible(s), NEW bundle \in SUBSET Visible(s),
         AddResource(s, class, c, direct, bundle)
  PROVE  Provides(s)
<1> DEFINE deps == direct \cup Unbundled(bundle)
           node == Node(nextID, DependsOn(s, c, deps), "resource")
<1>1. /\ Exists(s) /\ s \notin panicked /\ s \notin stubs
      /\ clusters' = clusters /\ images' = images /\ loads' = loads
      /\ resources'[s] = resources[s] \cup {nextID}
  <2>1. Exists(s) /\ s \notin panicked
    BY LineageOf DEF AddResource, Registers, Open
  <2> QED
    BY <2>1 DEF AddResource, Registers, IInv, ShapeInv
<1>2. Grows
  BY AddResourceAdds, AddsGrows
<1>3. Ids(s) \subseteq Ids(s)' /\ NoopIDs(s) \subseteq NoopIDs(s)'
  BY <1>1, <1>2, GrowsKeeps
<1>4. CASE ~Resolves(s, c, deps)
  <2>1. setup' = setup /\ declared' = declared /\ s \in panicked'
    BY <1>4 DEF AddResource
  <2> QED
    BY <1>1, <1>3, <2>1 DEF Provides, FlatInv, PresenceInv
<1>5. CASE Resolves(s, c, deps)
  <2>1. /\ setup'[s] = setup[s] \cup {node} /\ panicked' = panicked
        /\ DOMAIN declared' = DOMAIN declared \cup {nextID}
        /\ nextID \notin DOMAIN declared =>
             declared'[nextID] = [spec |-> s, class |-> class, cluster |-> c,
                                  direct |-> direct, bundle |-> bundle]
    BY <1>5 DEF AddResource, Joined, IInv, ShapeInv
  <2>2. node.id = nextID /\ node.act = "resource" /\ node.deps = DependsOn(s, c, deps)
    BY DEF Node
  <2>3. /\ direct \cup bundle \subseteq Ids(s) \cup NoopIDs(s)
        /\ \A x \in direct \cup bundle : IsImage(x) \/ x \in DOMAIN declared
    BY <1>1, VisiblePresent
  <2>4. deps \subseteq direct \cup bundle
    BY DEF Unbundled
  <2>5. c \in clusters[s] /\ c \in Ids(s)
    BY <1>1, <1>5 DEF Resolves, FlatInv, PresenceInv
  <2>6. \A x \in deps : IsImage(x) =>
          \E m \in setup[s] : /\ m.id = loads[s][<<c, x>>] /\ m.act = "load" /\ m.deps = {c, x}
    <3> SUFFICES ASSUME NEW x \in deps, IsImage(x)
                 PROVE  \E m \in setup[s] :
                          m.id = loads[s][<<c, x>>] /\ m.act = "load" /\ m.deps = {c, x}
      OBVIOUS
    <3> DEFINE q == <<c, x>>
    <3>1. q \in DOMAIN loads[s]
      BY <1>5 DEF Resolves
    <3>2. Node(loads[s][q], {q[1], q[2]}, "load") \in setup[s]
      BY <1>1, <3>1 DEF FlatInv, PresenceInv
    <3>3. q[1] = c /\ q[2] = x
      OBVIOUS
    <3> QED
      BY <3>2, <3>3 DEF Node
  <2>7. node.deps \subseteq Ids(s) \cup NoopIDs(s)
    <3>1. \A x \in deps : IsImage(x) => loads[s][<<c, x>>] \in Ids(s)
      BY <2>6 DEF Ids
    <3> HIDE DEF deps, node
    <3>2. deps \subseteq Ids(s) \cup NoopIDs(s)
      BY <2>3, <2>4
    <3> QED
      BY <2>2, <2>5, <3>1, <3>2 DEF DependsOn
  <2>8. \A x \in 1..(nextID - 1) : IsImage(x)' <=> IsImage(x)
    BY <1>2 DEF Grows
  <2>9. DOMAIN declared \subseteq 1..(nextID - 1) /\ \A x : IsImage(x) => x \in 1..(nextID - 1)
    BY DEF IInv, TypeOK, IsImage
  <2>10. \A x : IsImage(x)' <=> IsImage(x)
    BY <1>1 DEF IsImage
  <2>11. ASSUME NEW r \in DOMAIN declared' \ DOMAIN declared PROVE DeclaredAt(r)'
    <3>1. r = nextID
      BY <2>1, <2>11
    <3>2. declared'[r] = [spec |-> s, class |-> class, cluster |-> c,
                          direct |-> direct, bundle |-> bundle]
      BY <2>1, <2>11, <3>1
    <3>3. r \in resources'[s] /\ ~IsImage(r)'
      <4>1. r \notin 1..(nextID - 1)
        BY <3>1, DrawnBelow DEF IInv
      <4> QED
        BY <1>1, <2>9, <2>10, <3>1, <4>1
    <3>4. \A x \in direct \cup bundle : IsImage(x)' \/ x \in DOMAIN declared'
      BY <2>1, <2>3, <2>10
    <3>5. Unbundled(bundle)' = Unbundled(bundle)
      BY <1>2, <2>3, <2>10 DEF Unbundled, Grows
    <3>6. node \in setup'[s] /\ node.id = r /\ c \in node.deps
      BY <2>1, <2>2, <3>1 DEF DependsOn
    <3>7. \A x \in deps :
            IF IsImage(x)'
            THEN \E m \in setup'[s] : m.act = "load" /\ m.id \in node.deps /\ m.deps = {c, x}
            ELSE x \in node.deps
      <4> HIDE DEF deps, node
      <4>1. \A x \in deps : IF IsImage(x) THEN loads[s][<<c, x>>] \in node.deps ELSE x \in node.deps
        BY <2>2 DEF DependsOn
      <4> QED
        BY <2>1, <2>6, <2>10, <4>1
    <3> HIDE DEF node
    <3>8. \E n \in setup'[s] :
            /\ n.id = r /\ n.act = "resource" /\ c \in n.deps
            /\ \A x \in direct \cup Unbundled(bundle)' :
                 IF IsImage(x)'
                 THEN \E m \in setup'[s] : m.act = "load" /\ m.id \in n.deps /\ m.deps = {c, x}
                 ELSE x \in n.deps
      BY <2>2, <3>5, <3>6, <3>7
    <3> QED
      BY <3>2, <3>3, <3>4, <3>8 DEF DeclaredAt
  <2>12. \A n \in setup'[s] \ setup[s] : n.deps \subseteq Ids(s)' \cup NoopIDs(s)'
    <3> HIDE DEF node
    <3> QED
      BY <1>3, <2>1, <2>7
  <2> HIDE DEF node, deps
  <2> QED
    BY <1>1, <1>3, <2>1, <2>11, <2>12 DEF Provides, FlatInv, PresenceInv
<1> QED
  BY <1>4, <1>5

LEMMA FlatInit == Init => FlatInv
<1> SUFFICES ASSUME Init PROVE FlatInv
  OBVIOUS
<1>1. \A s \in Spec : Exists(s) => parent[s] = None
  BY DEF Init, Exists
<1>2. \A s \in Spec : /\ DOMAIN images[s] = {} /\ clusters[s] = {}
                     /\ DOMAIN loads[s] = {} /\ setup[s] = {}
  BY DEF Init
<1>3. DOMAIN declared = {}
  BY DEF Init
<1> QED
  BY <1>1, <1>2, <1>3 DEF FlatInv, DepthInv, PresenceInv, DeclaredInv

\* The guard of ForSpec: a spec and its parent are two.
LEMMA OnSuiteOnly ==
  ASSUME MaxDepth <= 1, IInv, NEW p \in Spec, NEW s \in Spec, ForSpec(p, s)
  PROVE  parent[p] = None
<1> SUFFICES ASSUME parent[p] # None PROVE FALSE
  OBVIOUS
<1> DEFINE q == parent[p]
<1>1. Exists(p) /\ q # p /\ Cardinality(Lineage(p)) <= MaxDepth
  BY DEF ForSpec, Open, Exists
<1>2. {p, q} \subseteq Lineage(p) /\ IsFiniteSet(Lineage(p))
  BY <1>1, LineageOf, FS_Subset, RegistrationAssumption
<1>3. Cardinality({p, q}) = 2 /\ IsFiniteSet({p})
  <2>1. IsFiniteSet({p}) /\ Cardinality({p}) = 1
    BY FS_Singleton
  <2>2. Cardinality({p} \cup {q}) = Cardinality({p}) + 1
    BY <1>1, <2>1, FS_AddElement
  <2>3. {p, q} = {p} \cup {q}
    OBVIOUS
  <2> QED
    BY <2>1, <2>2, <2>3
<1>4. Cardinality({p, q}) <= Cardinality(Lineage(p)) /\ Cardinality(Lineage(p)) \in Nat
  BY <1>2, FS_Subset, FS_CardinalityType
<1> QED
  BY <1>1, <1>3, <1>4, RegistrationAssumption

LEMMA FlatStep ==
  ASSUME MaxDepth <= 1
  PROVE  IInv /\ FlatInv /\ [Next]_vars => FlatInv'
<1> SUFFICES ASSUME IInv, FlatInv, [Next]_vars PROVE FlatInv'
  OBVIOUS
<1>1. CASE \E s \in Spec, class \in ImageClass : AddImage(s, class)
  BY <1>1, AddImageAdds, AddImageProvides, AddsFlat
<1>2. CASE \E s \in Spec : \E deps \in ImageLists(s) : AddCluster(s, deps)
  BY <1>2, AddClusterAdds, AddClusterProvides, AddsFlat
<1>3. CASE \E s \in Spec : \E class \in ResourceClass, c \in VisibleClusters(s),
               direct, bundle \in SUBSET Visible(s) : AddResource(s, class, c, direct, bundle)
  BY <1>3, AddResourceAdds, AddResourceProvides, AddsFlat
<1>4. CASE \E p, s \in Spec : ForSpec(p, s)
  BY <1>4, OnSuiteOnly, ForSpecMakes, MakesFlat
<1>5. CASE \E p, s \in Spec : Rehydrate(p, s)
  <2>1. PICK p \in Spec, s \in Spec : Rehydrate(p, s)
    BY <1>5
  <2>2. parent'[s] = None /\ p # None
    BY <2>1, RegistrationAssumption DEF Rehydrate, IInv, TypeOK
  <2> QED
    BY <2>1, <2>2, RehydrateMakes, MakesFlat
<1>6. CASE \E s \in Spec : OnStub(s)
  BY <1>6, OnStubAdds, OnStubProvides, AddsFlat
<1>7. CASE UNCHANGED vars
  <2>1. DepthInv' = DepthInv
    BY <1>7 DEF vars, DepthInv, Exists
  <2>2. PresenceInv' = PresenceInv
    BY <1>7 DEF vars, PresenceInv, Ids, NoopIDs
  <2>3. DeclaredInv' = DeclaredInv
    BY <1>7 DEF vars, DeclaredInv, DeclaredAt, IsImage, Unbundled
  <2> QED
    BY <2>1, <2>2, <2>3 DEF FlatInv
<1> QED
  BY <1>1, <1>2, <1>3, <1>4, <1>5, <1>6, <1>7 DEF Next

THEOREM FlatInvariance ==
  ASSUME MaxDepth <= 1
  PROVE  Calls => []FlatInv
<1>1. IInv /\ FlatInv /\ [Next]_vars => FlatInv'
  BY FlatStep
<1> QED
  BY <1>1, FlatInit, Invariance, PTL DEF Calls

-----------------------------------------------------------------------------
(* The graph *)

LEMMA NoopsOfParent ==
  ASSUME IInv, NEW s \in Spec, NEW x \in NoopIDs(s)
  PROVE  parent[s] \in Spec /\ x \in Kept(parent[s]) /\ x \in 1..(nextID - 1)
<1>1. parent[s] \in Spec /\ x \in Kept(parent[s])
  BY DEF NoopIDs, Kept, IInv, TypeOK
<1> QED
  BY <1>1, DrawnBelow DEF IInv

\* Of any spec, also where specs nest: one node for an id,
LEMMA NodesUnique ==
  ASSUME IInv, NEW s \in Spec, Exists(s),
         NEW m \in SetupNodes(s), NEW n \in SetupNodes(s), m.id = n.id
  PROVE  m = n
<1> DEFINE Noops == {Node(id, {}, "noop") : id \in NoopIDs(s)}
<1>1. \A k \in Noops : k.id \in NoopIDs(s) /\ k = Node(k.id, {}, "noop")
  BY DEF Node
<1>2. \A k \in setup[s] : k.id \notin NoopIDs(s)
  <2> SUFFICES ASSUME NEW k \in setup[s], k.id \in NoopIDs(s) PROVE FALSE
    OBVIOUS
  <2>1. parent[s] \in Spec \ {s} /\ k.id \in Kept(parent[s])
    BY NoopsOfParent DEF Exists
  <2>2. CASE k.act = "inherited"
    BY <2>1, <2>2 DEF IInv, IDInv
  <2>3. CASE k.act # "inherited"
    <3>1. k.id \in Own(s)
      BY <2>3 DEF Own
    <3> QED
      BY <2>1, <3>1 DEF IInv, IDInv, Drawn
  <2> QED
    BY <2>2, <2>3
<1>3. m \in setup[s] \cup Noops /\ n \in setup[s] \cup Noops
  BY DEF SetupNodes
<1> HIDE DEF Noops
<1>4. CASE m \in setup[s] /\ n \in setup[s]
  BY <1>4 DEF IInv, IDInv
<1>5. CASE m \in Noops \/ n \in Noops
  BY <1>1, <1>2, <1>3, <1>5
<1> QED
  BY <1>3, <1>4, <1>5

\* and no cycle.
LEMMA GraphAcyclic ==
  ASSUME IInv, NEW s \in Spec
  PROVE  Acyclic(SetupGraph(s))
<1> DEFINE N == {n.id : n \in SetupNodes(s)}
           g == SetupGraph(s)
<1>1. \A n \in SetupNodes(s) :
        /\ n.id \in Nat
        /\ \A d \in n.deps : d \in Nat /\ d < n.id
  <2>1. \A n \in setup[s] : n.id \in Nat /\ \A d \in n.deps : d \in Nat /\ d < n.id
    BY DEF IInv, IDInv, TypeOK
  <2>2. \A id \in NoopIDs(s) : id \in Nat
    BY NoopsOfParent
  <2>3. \A id \in NoopIDs(s) : Node(id, {}, "noop").id = id /\ Node(id, {}, "noop").deps = {}
    BY DEF Node
  <2> QED
    BY <2>1, <2>2, <2>3 DEF SetupNodes
<1>2. DOMAIN g = N /\ N \subseteq Nat
  BY <1>1 DEF SetupGraph
<1>3. \A i \in N : \A d \in g[i] : d \in Nat /\ d < i
  BY <1>1 DEF SetupGraph
<1> HIDE DEF g, N
<1>4. ASSUME NEW S \in (SUBSET (DOMAIN g)) \ {{}} PROVE \E n \in S : g[n] \cap S = {}
  <2>1. PICK n \in S : \A m \in S : n <= m
    BY <1>2, LeastIn
  <2>2. ASSUME NEW d \in g[n], d \in S PROVE FALSE
    <3>1. n \in Nat /\ d \in Nat /\ d < n
      BY <1>2, <1>3
    <3>2. n <= d
      BY <2>1, <2>2
    <3> QED
      BY <3>1, <3>2
  <2> QED
    BY <2>2
<1>5. Acyclic(g)
  BY <1>4 DEF Acyclic
<1> QED
  BY <1>5 DEF g

\* The ids of the graph, and what a node of s depends on.
LEMMA GraphOf ==
  ASSUME IInv, NEW s \in Spec, Exists(s)
  PROVE  /\ DOMAIN SetupGraph(s) = Ids(s) \cup NoopIDs(s)
         /\ \A n \in setup[s] : SetupGraph(s)[n.id] = n.deps
<1>1. \A id \in NoopIDs(s) : Node(id, {}, "noop").id = id
  BY DEF Node
<1>2. DOMAIN SetupGraph(s) = Ids(s) \cup NoopIDs(s)
  BY <1>1 DEF SetupGraph, SetupNodes, Ids
<1>3. ASSUME NEW n \in setup[s] PROVE SetupGraph(s)[n.id] = n.deps
  <2>1. n \in SetupNodes(s)
    BY DEF SetupNodes
  <2>2. \A m \in SetupNodes(s) : m.id = n.id => m = n
    BY <2>1, NodesUnique
  <2>3. {m \in SetupNodes(s) : m.id = n.id} = {n}
    BY <2>1, <2>2
  <2>4. SetupGraph(s)[n.id] = UNION {m.deps : m \in {n}}
    BY <2>1, <2>3 DEF SetupGraph
  <2> QED
    BY <2>4
<1> QED
  BY <1>2, <1>3

\* As long as specs are made on the suite only, Setup can build the graph of
\* whatever was registered without a panic.
THEOREM BuildableAlways ==
  ASSUME MaxDepth <= 1
  PROVE  Calls => []Buildable
<1>1. IInv /\ FlatInv => Buildable
  <2> SUFFICES ASSUME IInv, FlatInv, NEW s \in Spec, Open(s)
               PROVE  /\ \A m, n \in SetupNodes(s) : m.id = n.id => m = n
                      /\ \A n \in SetupNodes(s) : n.deps \subseteq DOMAIN SetupGraph(s)
                      /\ Acyclic(SetupGraph(s))
    BY DEF Buildable
  <2>1. Exists(s) /\ s \notin panicked
    BY LineageOf DEF Open
  <2>2. \A m, n \in SetupNodes(s) : m.id = n.id => m = n
    BY <2>1, NodesUnique
  <2>3. \A n \in setup[s] : n.deps \subseteq Ids(s) \cup NoopIDs(s)
    BY <2>1 DEF FlatInv, PresenceInv
  <2>4. \A n \in SetupNodes(s) : n \in setup[s] \/ n.deps = {}
    BY DEF SetupNodes, Node
  <2>5. \A n \in SetupNodes(s) : n.deps \subseteq DOMAIN SetupGraph(s)
    BY <2>1, <2>3, <2>4, GraphOf
  <2> QED
    BY <2>2, <2>5, GraphAcyclic
<1> QED
  BY <1>1, Invariance, FlatInvariance, PTL

LEMMA DirectNeed ==
  ASSUME NEW g, NEW r \in DOMAIN g, NEW d \in g[r], d \in DOMAIN g, d # r
  PROVE  d \in Needs(g, r)
BY DEF Needs, Upstream, Closed

\* And there a resource waits for its cluster, for the loads of its images
\* onto that cluster, and for the resources it names.
THEOREM DeclaredWaitsAlways ==
  ASSUME MaxDepth <= 1
  PROVE  Calls => []DeclaredWaits
<1>1. IInv /\ FlatInv => DeclaredWaits
  <2> SUFFICES ASSUME IInv, FlatInv, NEW r \in DOMAIN declared
               PROVE  /\ declared[r].cluster \in Needs(SetupGraph(declared[r].spec), r)
                      /\ \A x \in declared[r].direct \cup Unbundled(declared[r].bundle) :
                           WaitsFor(r, x)
    BY DEF DeclaredWaits
  <2> DEFINE d == declared[r]
             s == d.spec
             g == SetupGraph(s)
  <2>1. DeclaredAt(r)
    BY DEF FlatInv, DeclaredInv
  <2>2. PICK n \in setup[s] :
          /\ n.id = r /\ n.act = "resource" /\ d.cluster \in n.deps
          /\ \A x \in d.direct \cup Unbundled(d.bundle) :
               IF IsImage(x)
               THEN \E m \in setup[s] :
                      m.act = "load" /\ m.id \in n.deps /\ m.deps = {d.cluster, x}
               ELSE x \in n.deps
    BY <2>1 DEF DeclaredAt
  <2>3. s \in Spec /\ Exists(s)
    <3>1. s \in Spec
      BY <2>1 DEF DeclaredAt
    <3> QED
      BY <2>2, <3>1 DEF IInv, ShapeInv
  <2>4. n.deps \subseteq DOMAIN g /\ g[r] = n.deps /\ r \in DOMAIN g
    <3>1. n.deps \subseteq Ids(s) \cup NoopIDs(s)
      BY <2>2, <2>3 DEF FlatInv, PresenceInv
    <3>2. r \in Ids(s)
      BY <2>2 DEF Ids
    <3> QED
      BY <2>2, <2>3, <3>1, <3>2, GraphOf
  <2>5. \A x \in n.deps : x # r
    <3>1. \A x \in n.deps : x \in Nat /\ x < r
      BY <2>2, <2>3 DEF IInv, IDInv
    <3>2. r \in Nat
      BY DEF IInv, TypeOK
    <3> QED
      BY <3>1, <3>2
  <2>6. \A x \in n.deps : x \in Needs(g, r)
    BY <2>4, <2>5, DirectNeed
  <2>7. ASSUME NEW x \in d.direct \cup Unbundled(d.bundle) PROVE WaitsFor(r, x)
    <3>1. CASE IsImage(x)
      <4>1. PICK m \in setup[s] : m.act = "load" /\ m.id \in n.deps /\ m.deps = {d.cluster, x}
        BY <2>2, <3>1
      <4>2. m.id \in Needs(g, r)
        BY <2>6, <4>1
      <4> QED
        BY <3>1, <4>1, <4>2 DEF WaitsFor
    <3>2. CASE ~IsImage(x)
      BY <2>2, <2>6, <3>2 DEF WaitsFor
    <3> QED
      BY <3>1, <3>2
  <2> QED
    BY <2>2, <2>6, <2>7
<1> QED
  BY <1>1, Invariance, FlatInvariance, PTL
=============================================================================
