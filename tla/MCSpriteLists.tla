---------------------------- MODULE MCSpriteLists ----------------------------
(* Instances of SpriteLists for TLC. *)
EXTENDS SpriteLists, TLC

\* The lists are alike: permuting them changes nothing in a safety check.
ListSymmetry == Permutations(Lists)

MCFreezable == {2}
=============================================================================
