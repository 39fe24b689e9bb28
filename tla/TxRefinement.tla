---------------------------- MODULE TxRefinement ----------------------------
(***************************************************************************)
(* The journal of TxJournal implements the contract of TxContract: the     *)
(* data records are what statements see, Image is what a crash leaves      *)
(* behind, and the phase is read off JS, g_tx_active and the caller.       *)
(***************************************************************************)
EXTENDS TxJournal

Phase ==
  CASE js = "none" -> "quiet"
    [] js = "ACTIVE" /\ caller = "commit" -> "closing"
    [] js = "ACTIVE" /\ active = 1 /\ caller = "none" -> "open"
    [] OTHER -> "undoing"

Torn == INSTANCE TxContract WITH
  vis <- data, img <- Image, phase <- Phase, Tears <- TRUE

(* The transaction layer of storage.c implements the contract with tears:  *)
(* the store statements see and the store a crash leaves change only as    *)
(* the contract says, whatever is interrupted and however often.  Without   *)
(* tears it does not: tx_clear_journal deletes JK 1, 2, ... first and JS   *)
(* last, and a process that stops in between leaves a journal that undoes   *)
(* the rest only.                                                          *)
ImplementsTornContract == Torn!Spec
=============================================================================
