----------------------------- MODULE MCReceipts ------------------------------
(***************************************************************************)
(* The instance of MCSettlements, with what is told about it.              *)
(***************************************************************************)
EXTENDS MCSettlements, Receipts

\* Two that add up to the ceiling, one past both thresholds, one past the registered
\* ceiling, one out of scope.
MCReceiptRequest ==
  {Body(Thrifty, 1, x, 2), Body(Thrifty, 3, y, 2), Body(Thrifty, 4, y, 3),
   Body(Lavish, 5, x, 4), Body(Thrifty, 6, z, 1)}
=============================================================================
