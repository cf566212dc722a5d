------------------------------- MODULE MCBook -------------------------------
(***************************************************************************)
(* Book for TLC.  The host's connections are interchangeable.              *)
(***************************************************************************)
EXTENDS Book, TLC

SlotSymmetry == Permutations(Slots)
=============================================================================
