-------------------------- MODULE MCManifestsApply --------------------------
(***************************************************************************)
(* One source, with fewer, as many and more slots than objects, and two    *)
(* sources whose readers compete for the slots.                            *)
(***************************************************************************)
EXTENDS ManifestsApply

Manifest(objects, computed, slots) ==
  [objects |-> objects, computed |-> computed, slots |-> slots]

MCPlans ==
  {Manifest(<<2>>, computed, slots) : computed \in BOOLEAN, slots \in {0, 1, 2, 3}}
  \cup {Manifest(objects, TRUE, slots)
        : objects \in {<<1, 1>>, <<2, 1>>}, slots \in {0, 2, 3}}
=============================================================================
