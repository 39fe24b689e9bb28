----------------------------- MODULE TxContract -----------------------------
(***************************************************************************)
(* What the transaction layer (tx_begin, tx_commit, tx_rollback, tx_recover,*)
(* kv_put and kv_delete of src/src/storage.c) promises the statements that *)
(* use it: a store whose changes are visible at once and become permanent, *)
(* or vanish, together.  With Tears = FALSE the contract is the one the    *)
(* README states.  With Tears = TRUE it says what is left of it when the   *)
(* process stops while a transaction is being closed: each record keeps    *)
(* some value it held during the transaction.                              *)
(***************************************************************************)
CONSTANTS
  Keys,       \* keys of the store
  Payloads,   \* what a key may hold, "no record" included
  Tears       \* may closing a transaction be cut short half-way

VARIABLES
  vis,    \* the store the statements see
  img,    \* the store a crash would leave behind
  held,   \* the values each key has held since img was taken
  phase   \* where the transaction stands

vars == <<vis, img, held, phase>>

Fresh == [k \in Keys |-> {vis[k]}]
Mixes == {m \in [Keys -> Payloads] : \A k \in Keys : m[k] \in held[k]}

Init ==
  /\ vis \in [Keys -> Payloads]
  /\ img = vis /\ held = Fresh /\ phase = "quiet"

Begin ==
  /\ phase = "quiet" /\ phase' = "open"
  /\ held' = Fresh /\ UNCHANGED <<vis, img>>

Put(k, v) ==
  /\ phase = "open"
  /\ vis' = [vis EXCEPT ![k] = v]
  /\ held' = [held EXCEPT ![k] = @ \cup {v}]
  /\ UNCHANGED <<img, phase>>

Commit == phase = "open" /\ phase' = "closing" /\ UNCHANGED <<vis, img, held>>

(* ROLLBACK, and a crash at any time, lead to undoing. *)
Undo ==
  /\ phase \in {"open", "closing"} /\ phase' = "undoing"
  /\ UNCHANGED <<vis, img, held>>

(* An entry at a time, a key may pass through values it held before. *)
Restore(k) ==
  /\ phase = "undoing"
  /\ \E v \in held[k] : vis' = [vis EXCEPT ![k] = v]
  /\ UNCHANGED <<img, held, phase>>

(* The one moment at which a commit takes effect. *)
CommitPoint ==
  /\ phase = "closing"
  /\ img' = vis
  /\ UNCHANGED <<vis, held, phase>>

Tear ==
  /\ Tears /\ phase \in {"closing", "undoing"}
  /\ img' \in Mixes
  /\ UNCHANGED <<vis, held, phase>>

(* The journal holds nothing any more. *)
Settle ==
  /\ phase \in {"closing", "undoing"} /\ vis = img
  /\ held' = Fresh /\ UNCHANGED <<vis, img, phase>>

End ==
  /\ phase \in {"closing", "undoing"} /\ vis = img
  /\ phase' = "quiet" /\ UNCHANGED <<vis, img, held>>

Next ==
  \/ Begin \/ Commit \/ Undo \/ CommitPoint \/ Tear \/ Settle \/ End
  \/ \E k \in Keys : Restore(k)
  \/ \E k \in Keys, v \in Payloads : Put(k, v)

Spec == Init /\ [][Next]_vars
=============================================================================
