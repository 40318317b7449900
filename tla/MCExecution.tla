---------------------------- MODULE MCExecution -----------------------------
(***************************************************************************)
(* Small instances of Execution for TLC.                                   *)
(***************************************************************************)
EXTENDS Execution, TLC

\* Handlers are interchangeable; attempts are not (FreeRow is a CHOOSE).
HandlerSymmetry == Permutations(Handler)
SettlementSymmetry == Permutations(Settlement)
=============================================================================
