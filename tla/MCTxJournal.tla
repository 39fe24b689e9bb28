---------------------------- MODULE MCTxJournal ----------------------------
(* TLC instances of TxJournal. *)
EXTENDS TxJournal

(* No operation fails. *)
NoFaultPoints == {}

(* Any record operation may fail. *)
AllPoints == PCs

(* Only the put of a JD record may fail. *)
FailedJD == {"logJD"}
=============================================================================
