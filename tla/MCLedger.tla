------------------------------ MODULE MCLedger ------------------------------
(***************************************************************************)
(* Ledger for TLC.  Payment references are interchangeable.                *)
(***************************************************************************)
EXTENDS Ledger, TLC

RefSymmetry == Permutations(Refs)
=============================================================================
