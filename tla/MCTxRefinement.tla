--------------------------- MODULE MCTxRefinement ---------------------------
(* TLC instances of TxRefinement. *)
EXTENDS TxRefinement

NoFaultPoints == {}
=============================================================================
