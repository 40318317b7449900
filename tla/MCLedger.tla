------------------------------ MODULE MCLedger ------------------------------
(***************************************************************************)
(* A small instance of Ledger for TLC.                                     *)
(***************************************************************************)
EXTENDS Ledger, TLC

CONSTANT MaxLen   \* the rows a ledger grows to in the instance

Short == Len(table) <= MaxLen
Symmetry == Permutations(Subject)
=============================================================================
