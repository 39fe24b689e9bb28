----------------------------- MODULE TxJournal -----------------------------
(***************************************************************************)
(* The transaction journal of src/src/storage.c, one action per record     *)
(* operation.  The journal lives in the same KSDS as the data it protects: *)
(*                                                                         *)
(*   JK|TX|i   the key of the i-th logged write (hexadecimal)              *)
(*   JT|TX|i   "P" if the key existed before the write, "D" if it did not  *)
(*   JD|TX|i   the record it held ("" when it did not exist)               *)
(*   JN|TX     the number of complete entries                              *)
(*   JS|TX     "ACTIVE" while there is something to undo                   *)
(*                                                                         *)
(* A record operation that returned is durable, so the process can stop    *)
(* between any two of them.  Every one can also fail.                      *)
(*                                                                         *)
(* Definitions marked "(Slip: ...)" are no part of the specification: each *)
(* is a wrong variant of the definition after it, which a property notices.*)
(***************************************************************************)
EXTENDS Naturals, FiniteSetsExt

CONSTANTS
  Keys,         \* keys of the data records (C|, T|, R| and X|)
  Values,       \* record payloads
  Empty,        \* the payload ""
  Absent,       \* "no such record"
  MaxSeq,       \* bound: logged writes of one transaction
  MaxCrashes,   \* bound: crashes of a behaviour
  MaxFaults,    \* bound: failed record operations of a behaviour
  FaultPoints   \* the values of pc at which a record operation may fail

ASSUME EmptyAssumption == Empty \in Values
ASSUME AbsentAssumption == Absent \notin Values /\ Absent \notin Keys
ASSUME BoundsAssumption ==
  MaxSeq \in Nat /\ MaxCrashes \in Nat /\ MaxFaults \in Nat

VARIABLES
  data,     \* persistent: the data records
  jk,       \* persistent: the JK records
  jt,       \* persistent: the JT records ("none": no record)
  jd,       \* persistent: the JD records
  jn,       \* persistent: the JN record; no record reads as 0, like "0"
  js,       \* persistent: the JS record ("none": no record)
  active,   \* g_tx_active, 1 or 0
  seq,      \* g_tx_seq
  pc,       \* the record operation the process performs next
  key,      \* kv_put, kv_delete: the key being written
  val,      \* kv_put, kv_delete: its new payload, Absent to delete it
  old,      \* tx_log_before: what kv_get found under the key
  caller,   \* who called tx_rollback_to or tx_clear_journal
  i,        \* their loop index
  upto,     \* their parameter
  crashes,  \* crashes so far
  faults,   \* failed record operations so far
  snap,     \* history: the image the open transaction must be undone to
  held,     \* history: the values each key held since that image
  torn,     \* history: 1 while a half-cleared journal is left behind
  damaged   \* history: 1 once a failed operation left or read a wrong journal

persistent == <<data, jk, jt, jd, jn, js>>
process == <<active, seq, pc>>
write == <<key, val, old>>
loop == <<caller, i, upto>>
bounds == <<crashes, faults, damaged>>
history == <<snap, held, torn>>
vars == <<persistent, process, write, loop, bounds, history>>

Slots == 1..MaxSeq
Payloads == Values \cup {Absent}
Stopped == "down"
LogPoints == {"logJK", "logJT", "logJD", "logJN"}
ClearPoints == {"clear", "clearJT", "clearJD", "clearJS"}
PCs == {Stopped, "idle", "beginJN", "write", "replay"} \cup LogPoints \cup ClearPoints

TypeOK ==
  /\ data \in [Keys -> Payloads]
  /\ jk \in [Slots -> Keys \cup {Absent}]
  /\ jt \in [Slots -> {"P", "D", "none"}]
  /\ jd \in [Slots -> Payloads]
  /\ jn \in 0..MaxSeq
  /\ js \in {"ACTIVE", "none"}
  /\ active \in 0..1
  /\ seq \in 0..MaxSeq
  /\ pc \in PCs
  /\ key \in Keys \cup {Absent}
  /\ val \in Payloads
  /\ old \in Payloads
  /\ caller \in {"none", "commit", "rollback", "recover"}
  /\ i \in 0..MaxSeq + 1
  /\ upto \in 0..MaxSeq
  /\ crashes \in 0..MaxCrashes
  /\ faults \in 0..MaxFaults
  /\ snap \in [Keys -> Payloads]
  /\ held \in [Keys -> SUBSET Payloads]
  /\ torn \in 0..1
  /\ damaged \in 0..1

Init ==
  /\ data \in [Keys -> Payloads]
  /\ jk = [j \in Slots |-> Absent]
  /\ jt = [j \in Slots |-> "none"]
  /\ jd = [j \in Slots |-> Absent]
  /\ jn = 0 /\ js = "none"
  /\ active = 0 /\ seq = 0 /\ pc = Stopped
  /\ key = Absent /\ val = Absent /\ old = Absent
  /\ caller = "none" /\ i = 0 /\ upto = 0
  /\ crashes = 0 /\ faults = 0
  /\ snap = data /\ held = [k \in Keys |-> {data[k]}]
  /\ torn = 0 /\ damaged = 0

-----------------------------------------------------------------------------
(* Outcomes of a record operation.                                         *)

Works == UNCHANGED bounds
MayFail ==
  /\ pc \in FaultPoints
  /\ faults < MaxFaults
  /\ faults' = faults + 1
  /\ UNCHANGED crashes
(* It returns an error, and the journal can still be trusted. *)
Fails == MayFail /\ UNCHANGED damaged
(* A read that fails looks like a record that is not there; a delete whose  *)
(* read fails returns 1 and deletes nothing; a log that fails leaves an     *)
(* entry that tx_rollback will count.                                       *)
Misleads == MayFail /\ damaged' = 1

(* Locals whose function returned are put back to one fixed value. *)
ForgetWrite == key' = Absent /\ val' = Absent /\ old' = Absent
ForgetLoop == caller' = "none" /\ i' = 0 /\ upto' = 0

(* The journal entry j, and what undoing it leaves under its key. *)
Live(j) == jk[j] # Absent /\ jt[j] # "none"
(* (Slip: JT is not looked at.) *)
OldOfAlwaysPut(j) == IF jd[j] = Absent THEN Empty ELSE jd[j]
OldOf(j) ==
  IF jt[j] = "D" THEN Absent ELSE IF jd[j] = Absent THEN Empty ELSE jd[j]

(* Some JK record of the journal being cleared is gone and JN still counts it. *)
HalfCleared == pc \in {"clearJT", "clearJD"} \/ (pc = "clear" /\ i > 1)
-----------------------------------------------------------------------------
(* tx_begin: JS, then JN. *)

TxBegin ==
  /\ pc = "idle" /\ active = 0
  /\ \/ /\ Works
        /\ js' = "ACTIVE" /\ active' = 1 /\ seq' = 0 /\ pc' = "beginJN"
        /\ snap' = data /\ held' = [k \in Keys |-> {data[k]}] /\ torn' = 0
     \/ Fails /\ seq' = 0 /\ UNCHANGED <<js, active, pc, history>>
  /\ UNCHANGED <<data, jk, jt, jd, jn, write, loop>>

BeginJN ==
  /\ pc = "beginJN"
  /\ pc' = "idle"
  /\ \/ Works /\ jn' = 0 /\ UNCHANGED active
     \/ Fails /\ active' = 0 /\ UNCHANGED jn
  /\ UNCHANGED <<data, jk, jt, jd, js, seq, write, loop, history>>
-----------------------------------------------------------------------------
(* kv_put and kv_delete inside a transaction: tx_log_before reads the old  *)
(* record, then writes JK, JT, JD and JN; the write itself comes last.  A  *)
(* failed operation returns 0 to the statement and leaves the rest undone, *)
(* g_tx_seq included.                                                      *)

(* (Slip: a delete is not logged.) *)
KvWriteDeleteUnlogged(k, v) ==
  /\ pc = "idle" /\ active = 1 /\ seq < MaxSeq /\ Works
  /\ old' = data[k] /\ key' = k /\ val' = v
  /\ IF v = Absent THEN seq' = seq /\ pc' = "write" ELSE seq' = seq + 1 /\ pc' = "logJK"
  /\ UNCHANGED <<persistent, active, loop, history>>

KvWrite(k, v) ==
  /\ pc = "idle" /\ active = 1 /\ seq < MaxSeq
  /\ \/ Works /\ old' = data[k]
     \/ Misleads /\ old' = Absent
  /\ key' = k /\ val' = v /\ seq' = seq + 1 /\ pc' = "logJK"
  /\ UNCHANGED <<persistent, active, loop, history>>

GiveUp == pc' = "idle" /\ ForgetWrite

LogJK ==
  /\ pc = "logJK"
  /\ \/ Works /\ jk' = [jk EXCEPT ![seq] = key] /\ pc' = "logJT" /\ UNCHANGED write
     \/ Misleads /\ GiveUp /\ UNCHANGED jk
  /\ UNCHANGED <<data, jt, jd, jn, js, active, seq, loop, history>>

LogJT ==
  /\ pc = "logJT"
  /\ \/ /\ Works
        /\ jt' = [jt EXCEPT ![seq] = IF old = Absent THEN "D" ELSE "P"]
        /\ pc' = "logJD" /\ UNCHANGED write
     \/ Misleads /\ GiveUp /\ UNCHANGED jt
  /\ UNCHANGED <<data, jk, jd, jn, js, active, seq, loop, history>>

(* (Slip: the new payload is logged instead of the old one.) *)
LogJDNew ==
  /\ pc = "logJD" /\ Works
  /\ jd' = [jd EXCEPT ![seq] = val] /\ pc' = "logJN"
  /\ UNCHANGED <<data, jk, jt, jn, js, active, seq, write, loop, history>>

LogJD ==
  /\ pc = "logJD"
  /\ \/ /\ Works
        /\ jd' = [jd EXCEPT ![seq] = IF old = Absent THEN Empty ELSE old]
        /\ pc' = "logJN" /\ UNCHANGED write
     \/ Misleads /\ GiveUp /\ UNCHANGED jd
  /\ UNCHANGED <<data, jk, jt, jn, js, active, seq, loop, history>>

(* (Slips: JN counts one entry too many; JN is not written at all.) *)
LogJNNext ==
  /\ pc = "logJN" /\ Works
  /\ jn' = seq + 1 /\ pc' = "write"
  /\ UNCHANGED <<data, jk, jt, jd, js, active, seq, write, loop, history>>
LogJNForgotten ==
  /\ pc = "logJN" /\ Works
  /\ pc' = "write"
  /\ UNCHANGED <<persistent, active, seq, write, loop, history>>

LogJN ==
  /\ pc = "logJN"
  /\ \/ Works /\ jn' = seq /\ pc' = "write" /\ UNCHANGED write
     \/ Misleads /\ GiveUp /\ UNCHANGED jn
  /\ UNCHANGED <<data, jk, jt, jd, js, active, seq, loop, history>>

Write ==
  /\ pc = "write"
  /\ \/ /\ Works
        /\ data' = [data EXCEPT ![key] = val]
        /\ held' = [held EXCEPT ![key] = @ \cup {val}]
     \/ Fails /\ UNCHANGED <<data, held>>
  /\ GiveUp
  /\ UNCHANGED <<jk, jt, jd, jn, js, active, seq, loop, snap, torn>>
-----------------------------------------------------------------------------
(* tx_commit clears the journal; tx_rollback undoes it first; tx_recover   *)
(* undoes at start-up what JS and JN say a stopped process left behind.    *)

(* (Slip: the last entry is not cleared.) *)
TxCommitShort ==
  /\ pc = "idle" /\ active = 1
  /\ caller' = "commit" /\ upto' = (IF seq = 0 THEN 0 ELSE seq - 1) /\ i' = 1 /\ pc' = "clear"
  /\ UNCHANGED <<persistent, active, seq, write, bounds, history>>

TxCommit ==
  /\ pc = "idle" /\ active = 1
  /\ caller' = "commit" /\ upto' = seq /\ i' = 1 /\ pc' = "clear"
  /\ UNCHANGED <<persistent, active, seq, write, bounds, history>>

TxRollback ==
  /\ pc = "idle" /\ active = 1
  /\ caller' = "rollback" /\ upto' = seq /\ i' = seq /\ pc' = "replay"
  /\ UNCHANGED <<persistent, active, seq, write, bounds, history>>

TxRecover ==
  /\ pc = Stopped
  /\ \/ /\ js = "none" /\ Works
        /\ pc' = "idle" /\ UNCHANGED loop
     \/ /\ js = "ACTIVE" /\ Works
        /\ pc' = "replay" /\ caller' = "recover" /\ upto' = jn /\ i' = jn
     \/ /\ js = "ACTIVE" /\ Misleads
        /\ \/ pc' = "idle" /\ UNCHANGED loop         \* JS cannot be read
           \/ pc' = "replay" /\ caller' = "recover"   \* JN cannot be read
              /\ upto' = 0 /\ i' = 0
  /\ UNCHANGED <<persistent, active, seq, write, history>>

(* (Slip: g_tx_active is reset also when the journal could not be cleared.) *)
AbandonResets ==
  /\ pc' = IF caller = "recover" THEN Stopped ELSE "idle"
  /\ active' = 0 /\ seq' = 0 /\ ForgetLoop
  /\ torn' = IF HalfCleared THEN 1 ELSE torn
  /\ UNCHANGED <<snap, held>>

(* A hard failure inside rollback, clear or recovery: tx_commit and         *)
(* tx_rollback return with the transaction still active, run_processor      *)
(* stops with return code 8 when recovery fails.                            *)
Abandon ==
  /\ pc' = IF caller = "recover" THEN Stopped ELSE "idle"
  /\ ForgetLoop
  /\ torn' = IF HalfCleared THEN 1 ELSE torn
  /\ UNCHANGED <<active, seq, snap, held>>

Replay ==
  /\ pc = "replay" /\ i >= 1
  /\ \/ /\ \/ /\ Works
              /\ data' = IF Live(i) THEN [data EXCEPT ![jk[i]] = OldOf(i)] ELSE data
           \/ Misleads /\ Live(i) /\ UNCHANGED data        \* JK or JT cannot be read
           \/ /\ Misleads /\ Live(i) /\ jt[i] = "P"         \* JD cannot be read
              /\ data' = [data EXCEPT ![jk[i]] = Empty]
        /\ i' = i - 1 /\ UNCHANGED <<caller, upto, process, history>>
     \/ Fails /\ Live(i) /\ Abandon /\ UNCHANGED data
  /\ UNCHANGED <<jk, jt, jd, jn, js, write>>

ReplayDone ==
  /\ pc = "replay" /\ i = 0
  /\ pc' = "clear" /\ i' = 1
  /\ UNCHANGED <<persistent, active, seq, write, caller, upto, bounds, history>>
-----------------------------------------------------------------------------
(* tx_clear_journal: JK, JT and JD of 1, 2, ..., upto, then JN, then JS.   *)

Go(next) == pc' = next /\ UNCHANGED <<active, seq, loop, history>>

ClearJK ==
  /\ pc = "clear" /\ i <= upto
  /\ \/ Works /\ jk' = [jk EXCEPT ![i] = Absent] /\ Go("clearJT")
     \/ Misleads /\ UNCHANGED jk /\ Go("clearJT")
     \/ Fails /\ UNCHANGED jk /\ Abandon
  /\ UNCHANGED <<data, jt, jd, jn, js, write>>

ClearJT ==
  /\ pc = "clearJT"
  /\ \/ Works /\ jt' = [jt EXCEPT ![i] = "none"] /\ Go("clearJD")
     \/ Misleads /\ UNCHANGED jt /\ Go("clearJD")
     \/ Fails /\ UNCHANGED jt /\ Abandon
  /\ UNCHANGED <<data, jk, jd, jn, js, write>>

ClearJD ==
  /\ pc = "clearJD"
  /\ \/ /\ \/ Works /\ jd' = [jd EXCEPT ![i] = Absent]
           \/ Misleads /\ UNCHANGED jd
        /\ pc' = "clear" /\ i' = i + 1
        /\ UNCHANGED <<active, seq, caller, upto, history>>
     \/ Fails /\ UNCHANGED jd /\ Abandon
  /\ UNCHANGED <<data, jk, jt, jn, js, write>>

(* With JN gone nothing is left to undo: the data are the image again. *)
ClearJN ==
  /\ pc = "clear" /\ i > upto
  /\ \/ /\ Works /\ jn' = 0
        /\ pc' = "clearJS" /\ UNCHANGED <<active, seq, loop>>
        /\ snap' = data /\ held' = [k \in Keys |-> {data[k]}] /\ torn' = 0
     \/ Misleads /\ UNCHANGED jn /\ Go("clearJS")
     \/ Fails /\ UNCHANGED jn /\ Abandon
  /\ UNCHANGED <<data, jk, jt, jd, js, write>>

(* (Slip: JS stays.) *)
ClearJSForgotten ==
  /\ pc = "clearJS" /\ Works
  /\ pc' = "idle" /\ active' = 0 /\ seq' = 0 /\ ForgetLoop
  /\ UNCHANGED <<persistent, write, history>>

ClearJS ==
  /\ pc = "clearJS"
  /\ \/ /\ \/ Works /\ js' = "none"
           \/ Misleads /\ UNCHANGED js
        /\ pc' = "idle" /\ active' = 0 /\ seq' = 0 /\ ForgetLoop
        /\ UNCHANGED history
     \/ Fails /\ UNCHANGED js /\ Abandon
  /\ UNCHANGED <<data, jk, jt, jd, jn, write>>
-----------------------------------------------------------------------------
(* The process stops: a crash anywhere, or .QUIT and end of input between  *)
(* statements, which close the file without ending the transaction.        *)

Stop ==
  /\ pc' = Stopped /\ active' = 0 /\ seq' = 0
  /\ ForgetWrite /\ ForgetLoop
  /\ torn' = IF HalfCleared THEN 1 ELSE torn
  /\ UNCHANGED <<persistent, snap, held>>

Crash ==
  /\ pc # Stopped /\ crashes < MaxCrashes
  /\ crashes' = crashes + 1 /\ UNCHANGED <<faults, damaged>>
  /\ Stop

Quit == pc = "idle" /\ UNCHANGED bounds /\ Stop
-----------------------------------------------------------------------------
(* What the process does without being asked. *)
Step ==
  \/ BeginJN
  \/ LogJK \/ LogJT \/ LogJD \/ LogJN \/ Write
  \/ Replay \/ ReplayDone
  \/ ClearJK \/ ClearJT \/ ClearJD \/ ClearJN \/ ClearJS

(* What statements ask of it. *)
Request ==
  \/ TxBegin \/ TxCommit \/ TxRollback
  \/ \E k \in Keys, v \in Payloads : KvWrite(k, v)

Next == Step \/ Request \/ TxRecover \/ Crash \/ Quit

Spec == Init /\ [][Next]_vars

(* A running process keeps running, and a stopped one is started again. *)
FairSpec == Spec /\ WF_vars(Step) /\ WF_vars(TxRecover)
-----------------------------------------------------------------------------
(* What start-up would restore if the process stopped now: under each key  *)
(* the old record of the first entry that covers it.                       *)

Covering(k) == {j \in 1..jn : Live(j) /\ jk[j] = k}
Image ==
  [k \in Keys |->
    IF js = "none" \/ Covering(k) = {} THEN data[k] ELSE OldOf(Min(Covering(k)))]

(* ROLLBACK, and recovery at start-up, have restored every record to what   *)
(* it was when the transaction began by the time they start to clear the    *)
(* journal (tx_rollback_to), whatever was overwritten how often, however    *)
(* many crashes and failed puts interrupted earlier attempts - unless the   *)
(* journal is damaged or an earlier clear was cut short.                    *)
RollbackRestores ==
  (pc = "clear" /\ i = 1 /\ caller \in {"rollback", "recover"}
     /\ torn = 0 /\ damaged = 0)
  => data = snap

(* The journal is a write-ahead log: at every moment, in the middle of     *)
(* logging, writing or replaying, what a crash would bring back is exactly *)
(* the image the transaction began with (tx_log_before completes before    *)
(* kv_put_raw).  The one window is a clear that has deleted a JK record    *)
(* and not yet JN.                                                         *)
CrashRestores == (damaged = 0 /\ torn = 0 /\ ~HalfCleared) => Image = snap

(* Even when clears are cut short (tx_clear_journal, as often as the bound  *)
(* allows), a record only ever holds, and a crash only ever restores, a     *)
(* value it really held since the last image; a key the transaction never   *)
(* wrote is untouched.                                                      *)
OnlyHeldValues ==
  damaged = 0 => \A k \in Keys : {data[k], Image[k], snap[k]} \subseteq held[k]

(* Replay is idempotent: however far it got, and whatever state a cut-short *)
(* clear left the journal in, starting over ends in the same image.  Only   *)
(* deleting a JK record (tx_clear_journal) moves what a crash restores.     *)
OnlyClearMovesImage ==
  [][damaged' = 0 /\ Image' # Image => pc = "clear" /\ pc' = "clearJT"]_vars

(* A COMMIT that answered OK is final even when record operations failed    *)
(* on the way (tx_commit): a crash right after it changes nothing.  Four    *)
(* deletes that report success without deleting, of one entry's JK and JT   *)
(* and of JN and JS, are the fewest that bring a transaction back.          *)
CommitSticks ==
  [][(caller = "commit" /\ pc = "clearJS" /\ pc' = "idle" /\ active' = 0 /\ faults' < 4)
     => Image' = data']_vars

(* However often it is interrupted, start-up recovery (tx_recover) ends     *)
(* with the process ready and no active journal left behind.                *)
RecoveryCompletes == (pc = Stopped /\ js = "ACTIVE") ~> (pc = "idle" /\ js = "none")

(* README, Transaction Support: "ROLLBACK replays that journal backward and *)
(* restores the prior state", also after a statement that failed            *)
(* (tx_rollback uses g_tx_seq, which counts entries that were never         *)
(* completed).                                                              *)
RollbackUndoes ==
  (pc = "clear" /\ i = 1 /\ caller = "rollback" /\ torn = 0) => data = snap

-----------------------------------------------------------------------------
(* Why it works: the inductive strengthening of RollbackRestores and        *)
(* CrashRestores.                                                           *)

Dead(from, to) == \A j \in from..to : ~Live(j)
Touched(k, n) == \E j \in 1..n : Live(j) /\ jk[j] = k
Untouched(n) == \A k \in Keys : ~Touched(k, n) => data[k] = snap[k]
FirstIsOld ==
  \A j \in 1..jn : Live(j) /\ ~Touched(jk[j], j - 1) => OldOf(j) = snap[jk[j]]

(* Which calls are open at which step. *)
ControlInv ==
  /\ caller = "none" <=> pc \notin {"replay"} \cup ClearPoints
  /\ pc = "replay" => i <= upto
  /\ pc = "clear" => i \in 1..upto + 1
  /\ pc \in {"clearJT", "clearJD"} => i \in 1..upto
  /\ pc \in LogPoints \cup {"write"} => seq >= 1 /\ key \in Keys
  /\ pc \in LogPoints \cup {"write", "beginJN"} => active = 1
  /\ pc = Stopped => active = 0
  /\ caller \in {"commit", "rollback"} => active = 1 /\ upto = seq
  /\ caller = "recover" => active = 0

(* JN counts something only while JS says so, and never more than was logged. *)
CountInv ==
  /\ (js = "none" \/ pc \in {"beginJN", "clearJS"} \/ (pc = "idle" /\ active = 0)) => jn = 0
  /\ active = 1 \/ caller # "none" => js = "ACTIVE"
  /\ pc = "beginJN" => seq = 0
  /\ (active = 1 /\ pc = "idle") => jn <= seq
  /\ pc \in LogPoints => jn < seq
  /\ caller # "none" => jn <= upto

(* No stale entry hides between JN and g_tx_seq, nor behind a clear. *)
StaleInv ==
  /\ (active = 1 /\ pc = "idle") => Dead(jn + 1, seq)
  /\ pc \in LogPoints => Dead(jn + 1, seq - 1)
  /\ caller # "none" => Dead(jn + 1, upto)
  /\ pc \in {"clear", "clearJT", "clearJD"} => Dead(1, i - 1)
  /\ pc \in {"clearJT", "clearJD"} => ~Live(i)
  /\ pc = "clearJS" => Dead(1, upto)

(* The entry being logged describes the record as it still is. *)
EntryInv ==
  /\ pc \in LogPoints => old = data[key]
  /\ pc \in {"logJT", "logJD", "logJN", "write"} => jk[seq] = key
  /\ pc \in {"logJD", "logJN"} => jt[seq] = IF old = Absent THEN "D" ELSE "P"
  /\ pc = "logJN" => jd[seq] = IF old = Absent THEN Empty ELSE old
  /\ pc = "write" => jn = seq /\ jt[seq] # "none"

(* Undoing the first entry of a key brings back snap, and so does leaving a *)
(* key alone that no entry covers.                                          *)
UndoInv ==
  torn = 0 =>
    /\ ~HalfCleared => FirstIsOld /\ Untouched(jn)
    /\ caller \in {"rollback", "recover"} =>
         IF pc = "replay" THEN Untouched(i) ELSE data = snap

(* The journal can be trusted to the last detail (storage.c as a whole).    *)
JournalInv == ControlInv /\ (damaged = 0 => CountInv /\ StaleInv /\ EntryInv /\ UndoInv)
=============================================================================
