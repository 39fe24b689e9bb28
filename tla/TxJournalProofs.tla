-------------------------- MODULE TxJournalProofs --------------------------
(***************************************************************************)
(* Proofs about TxJournal for all keys, payloads and bounds; and that, as  *)
(* long as no record operation fails, it implements the contract with      *)
(* tears: each step of storage.c is a step of TxContract under the mapping *)
(* of TxRefinement, or changes nothing there.                              *)
(***************************************************************************)
EXTENDS TxRefinement, TLAPS, WellFoundedInduction

USE EmptyAssumption, AbsentAssumption, BoundsAssumption DEF EmptyAssumption, AbsentAssumption, BoundsAssumption

(* What TypeOK and ControlInv say together: the part of the invariant that *)
(* holds whatever fails.                                                   *)
Typed == TypeOK /\ ControlInv

LEMMA InitTyped == Init => Typed
BY SMT DEF Init, Typed, TypeOK, ControlInv, Payloads, Slots, PCs, Stopped, LogPoints, ClearPoints

LEMMA StepTyped == Typed /\ [Next]_vars => Typed'
<1> SUFFICES ASSUME Typed, [Next]_vars
             PROVE  Typed'
  OBVIOUS
<1> USE DEF Typed, TypeOK, ControlInv, Payloads, Slots, PCs, Stopped, LogPoints, ClearPoints,
            persistent, process, write, loop, bounds, history,
            Works, Fails, Misleads, MayFail, ForgetWrite, ForgetLoop, GiveUp, Abandon, Go
<1>1. CASE TxBegin
  BY <1>1 DEF TxBegin
<1>2. CASE BeginJN
  BY <1>2 DEF BeginJN
<1>3. ASSUME NEW k \in Keys, NEW v \in Payloads, KvWrite(k, v)
      PROVE  Typed'
  BY <1>3 DEF KvWrite
<1>4. CASE LogJK
  BY <1>4 DEF LogJK
<1>5. CASE LogJT
  BY <1>5 DEF LogJT
<1>6. CASE LogJD
  BY <1>6 DEF LogJD
<1>7. CASE LogJN
  BY <1>7 DEF LogJN
<1>8. CASE Write
  <2>1. /\ data' \in [Keys -> Payloads]
        /\ held' \in [Keys -> SUBSET Payloads]
    BY <1>8 DEF Write
  <2>2. QED
    BY <1>8, <2>1 DEF Write
<1>9. CASE TxCommit
  BY <1>9 DEF TxCommit
<1>10. CASE TxRollback
  BY <1>10 DEF TxRollback
<1>11. CASE TxRecover
  BY <1>11 DEF TxRecover
<1>12. CASE Replay
  <2>1. i \in Slots
    BY <1>12 DEF Replay
  <2>2. OldOf(i) \in Payloads
    BY <2>1 DEF OldOf
  <2>3. data' \in [Keys -> Payloads]
    BY <1>12, <2>1, <2>2 DEF Replay
  <2>4. CASE Fails /\ Live(i) /\ Abandon /\ UNCHANGED data
    BY <1>12, <2>1, <2>4 DEF Replay
  <2>5. CASE i' = i - 1 /\ UNCHANGED <<caller, upto, process, history>>
    BY <1>12, <2>1, <2>3, <2>5 DEF Replay
  <2>6. QED
    BY <1>12, <2>4, <2>5 DEF Replay
<1>13. CASE ReplayDone
  BY <1>13 DEF ReplayDone
<1>14. CASE ClearJK
  <2>1. jk' \in [Slots -> Keys \cup {Absent}]
    BY <1>14 DEF ClearJK
  <2>2. CASE Abandon
    BY <1>14, <2>1, <2>2 DEF ClearJK
  <2>3. CASE Go("clearJT")
    BY <1>14, <2>1, <2>3 DEF ClearJK
  <2>4. QED
    BY <1>14, <2>2, <2>3 DEF ClearJK
<1>15. CASE ClearJT
  <2>1. jt' \in [Slots -> {"P", "D", "none"}]
    BY <1>15 DEF ClearJT
  <2>2. CASE Abandon
    BY <1>15, <2>1, <2>2 DEF ClearJT
  <2>3. CASE Go("clearJD")
    BY <1>15, <2>1, <2>3 DEF ClearJT
  <2>4. QED
    BY <1>15, <2>2, <2>3 DEF ClearJT
<1>16. CASE ClearJD
  <2>1. i \in Slots /\ i \in 1..upto /\ i \in Nat /\ upto \in Nat
    BY <1>16 DEF ClearJD
  <2>2. CASE pc' = "clear" /\ i' = i + 1 /\ UNCHANGED <<active, seq, caller, upto, history>>
    BY <1>16, <2>1, <2>2 DEF ClearJD
  <2>3. CASE Fails /\ UNCHANGED jd /\ Abandon
    BY <1>16, <2>1, <2>3 DEF ClearJD
  <2>4. QED
    BY <1>16, <2>2, <2>3 DEF ClearJD
<1>17. CASE ClearJN
  BY <1>17 DEF ClearJN
<1>18. CASE ClearJS
  BY <1>18 DEF ClearJS
<1>19. CASE Crash \/ Quit
  BY <1>19 DEF Crash, Quit, Stop
<1>20. CASE UNCHANGED vars
  BY <1>20 DEF vars
<1>21. QED
  BY <1>1, <1>2, <1>3, <1>4, <1>5, <1>6, <1>7, <1>8, <1>9, <1>10, <1>11, <1>12,
     <1>13, <1>14, <1>15, <1>16, <1>17, <1>18, <1>19, <1>20
     DEF Next, Step, Request
-----------------------------------------------------------------------------
(* The rest of JournalInv holds as long as no failure damaged the journal.  *)
Sound == CountInv /\ StaleInv /\ EntryInv /\ UndoInv

(* The part of Typed that arithmetic needs. *)
Numbers ==
  /\ jn \in Nat /\ seq \in Nat /\ i \in Nat /\ upto \in Nat
  /\ jn <= MaxSeq /\ seq <= MaxSeq /\ upto <= MaxSeq
  /\ active \in 0..1 /\ torn \in 0..1
  /\ pc \in PCs
  /\ caller \in {"none", "commit", "rollback", "recover"}
  /\ js \in {"ACTIVE", "none"}

LEMMA TypedNumbers == Typed => Numbers
BY DEF Typed, TypeOK, Numbers

LEMMA TypedNumbersNext == Typed' => Numbers'
BY DEF Typed, TypeOK, Numbers

(* A step that changes no counted entry and no record keeps what undoing   *)
(* them would do.                                                          *)
SameJournal ==
  /\ jn \in Nat /\ UNCHANGED <<jn, data, snap>>
  /\ \A j \in 1..jn : jk'[j] = jk[j] /\ jt'[j] = jt[j] /\ jd'[j] = jd[j]

LEMMA JournalKeepsUndo ==
  SameJournal => /\ FirstIsOld => FirstIsOld'
                 /\ Untouched(jn) => Untouched(jn)'
<1> SUFFICES ASSUME SameJournal
             PROVE  /\ FirstIsOld => FirstIsOld'
                    /\ Untouched(jn) => Untouched(jn)'
  OBVIOUS
<1> USE DEF SameJournal
<1>1. \A j \in 1..jn : Live(j)' = Live(j) /\ OldOf(j)' = OldOf(j)
  BY DEF Live, OldOf
<1>2. \A n \in 0..jn : \A k : Touched(k, n)' = Touched(k, n)
  BY <1>1 DEF Touched
<1>3. FirstIsOld => FirstIsOld'
  BY <1>1, <1>2 DEF FirstIsOld
<1>4. Untouched(jn) => Untouched(jn)'
  BY <1>2 DEF Untouched
<1>5. QED
  BY <1>3, <1>4

LEMMA InitSound == Init => Sound
BY DEF Init, Sound, CountInv, StaleInv, EntryInv, UndoInv, Dead, Touched, Untouched, FirstIsOld,
       HalfCleared, Stopped, LogPoints

LEMMA StepSound == Typed /\ Typed' /\ Sound /\ [Next]_vars /\ damaged' = 0 => Sound'
<1> SUFFICES ASSUME Typed, Typed', Sound, [Next]_vars, damaged' = 0
             PROVE  Sound'
  OBVIOUS
<1>a. Numbers /\ Numbers' /\ ControlInv /\ ControlInv' /\ TypeOK /\ TypeOK'
  BY TypedNumbers, TypedNumbersNext DEF Typed
<1>b. CountInv /\ StaleInv /\ EntryInv /\ UndoInv
  BY DEF Sound
<1> USE DEF Numbers, PCs, Stopped, LogPoints, ClearPoints,
            persistent, process, write, loop, bounds, history, HalfCleared,
            Works, Fails, Misleads, MayFail, ForgetWrite, ForgetLoop, GiveUp, Abandon, Go
<1>1. CASE TxBegin
  <2>1. CountInv'
    BY <1>a, <1>b, <1>1 DEF TxBegin, CountInv, ControlInv
  <2>2. StaleInv'
    BY <1>a, <1>1 DEF TxBegin, ControlInv, StaleInv
  <2>3. EntryInv'
    BY <1>a, <1>b, <1>1 DEF TxBegin, EntryInv, ControlInv, TypeOK
  <2>4. UndoInv'
    BY <1>a, <1>b, <1>1 DEF TxBegin, UndoInv, CountInv, ControlInv, FirstIsOld, Untouched, Touched, Live, OldOf
  <2>5. QED
    BY <2>1, <2>2, <2>3, <2>4 DEF Sound
<1>2. CASE BeginJN
  <2>1. CountInv'
    BY <1>a, <1>b, <1>2 DEF BeginJN, CountInv, ControlInv
  <2>2. StaleInv'
    <3>1. seq = 0 /\ seq' = seq /\ pc' = "idle" /\ caller' = "none"
      BY <1>a, <1>b, <1>2 DEF BeginJN, CountInv, ControlInv
    <3>2. \A m \in Nat : Dead(m + 1, 0)'
      BY DEF Dead
    <3>3. QED
      BY <1>a, <3>1, <3>2 DEF StaleInv
  <2>3. EntryInv'
    BY <1>a, <1>b, <1>2 DEF BeginJN, EntryInv, ControlInv, TypeOK
  <2>4. UndoInv'
    BY <1>a, <1>b, <1>2 DEF BeginJN, UndoInv, CountInv, ControlInv, FirstIsOld, Untouched, Touched, Live, OldOf
  <2>5. QED
    BY <2>1, <2>2, <2>3, <2>4 DEF Sound
<1>3. ASSUME NEW k \in Keys, NEW v \in Payloads, KvWrite(k, v)
      PROVE  Sound'
  <2>1. CountInv'
    BY <1>a, <1>b, <1>3 DEF KvWrite, CountInv, ControlInv
  <2>2. StaleInv'
    BY <1>a, <1>b, <1>3 DEF KvWrite, CountInv, ControlInv, StaleInv, Dead, Live
  <2>3. EntryInv'
    BY <1>a, <1>b, <1>3 DEF KvWrite, EntryInv, ControlInv, TypeOK
  <2>4. UndoInv'
    BY <1>a, <1>b, <1>3 DEF KvWrite, UndoInv, CountInv, ControlInv, FirstIsOld, Untouched, Touched, Live, OldOf
  <2>5. QED
    BY <2>1, <2>2, <2>3, <2>4 DEF Sound
<1>4. CASE LogJK
  <2>1. CountInv'
    BY <1>a, <1>b, <1>4 DEF LogJK, CountInv, ControlInv
  <2>2. StaleInv'
    BY <1>a, <1>b, <1>4 DEF LogJK, CountInv, ControlInv, StaleInv, Dead, Live, TypeOK, Slots
  <2>3. EntryInv'
    BY <1>a, <1>b, <1>4 DEF LogJK, EntryInv, ControlInv, TypeOK, Slots
  <2>4. UndoInv'
    <3>1. SameJournal
      BY <1>a, <1>b, <1>4 DEF LogJK, SameJournal, CountInv, TypeOK, Slots
    <3>2. QED
      BY <1>a, <1>b, <1>4, <3>1, JournalKeepsUndo DEF LogJK, UndoInv, ControlInv
  <2>5. QED
    BY <2>1, <2>2, <2>3, <2>4 DEF Sound
<1>5. CASE LogJT
  <2>1. CountInv'
    BY <1>a, <1>b, <1>5 DEF LogJT, CountInv, ControlInv
  <2>2. StaleInv'
    BY <1>a, <1>b, <1>5 DEF LogJT, CountInv, ControlInv, StaleInv, Dead, Live, TypeOK, Slots
  <2>3. EntryInv'
    BY <1>a, <1>b, <1>5 DEF LogJT, EntryInv, ControlInv, TypeOK, Slots
  <2>4. UndoInv'
    <3>1. SameJournal
      BY <1>a, <1>b, <1>5 DEF LogJT, SameJournal, CountInv, TypeOK, Slots
    <3>2. QED
      BY <1>a, <1>b, <1>5, <3>1, JournalKeepsUndo DEF LogJT, UndoInv, ControlInv
  <2>5. QED
    BY <2>1, <2>2, <2>3, <2>4 DEF Sound
<1>6. CASE LogJD
  <2>1. CountInv'
    BY <1>a, <1>b, <1>6 DEF LogJD, CountInv, ControlInv
  <2>2. StaleInv'
    BY <1>a, <1>b, <1>6 DEF LogJD, CountInv, ControlInv, StaleInv, Dead, Live, TypeOK, Slots
  <2>3. EntryInv'
    BY <1>a, <1>b, <1>6 DEF LogJD, EntryInv, ControlInv, TypeOK, Slots
  <2>4. UndoInv'
    BY <1>a, <1>b, <1>6 DEF LogJD, UndoInv, CountInv, ControlInv, TypeOK, Slots, FirstIsOld, Untouched, Touched, Live, OldOf
  <2>5. QED
    BY <2>1, <2>2, <2>3, <2>4 DEF Sound
<1>7. CASE LogJN
  <2>1. CountInv'
    BY <1>a, <1>b, <1>7 DEF LogJN, CountInv, ControlInv
  <2>2. StaleInv'
    BY <1>a, <1>b, <1>7 DEF LogJN, CountInv, ControlInv, StaleInv, Dead, Live, TypeOK, Slots
  <2>3. EntryInv'
    BY <1>a, <1>b, <1>7 DEF LogJN, EntryInv, ControlInv, TypeOK, Slots
  <2>4. UndoInv'
    <3> SUFFICES ASSUME torn = 0
                 PROVE  FirstIsOld' /\ Untouched(jn)'
      BY <1>a, <1>7 DEF LogJN, UndoInv, ControlInv
    <3>1. /\ pc = "logJN" /\ jn' = seq /\ UNCHANGED <<data, jk, jt, jd, snap>>
          /\ FirstIsOld /\ Untouched(jn) /\ jn < seq /\ Dead(jn + 1, seq - 1)
      BY <1>a, <1>b, <1>7 DEF LogJN, UndoInv, CountInv, StaleInv
    <3>2. jk[seq] = key /\ key \in Keys /\ OldOf(seq) = data[key]
      BY <1>a, <1>b, <3>1 DEF EntryInv, ControlInv, OldOf, TypeOK, Payloads
    <3>3. \A j : Live(j)' = Live(j) /\ OldOf(j)' = OldOf(j) /\ jk'[j] = jk[j]
      BY <3>1 DEF Live, OldOf
    <3>4. \A k, m : Touched(k, m)' = Touched(k, m)
      BY <3>3 DEF Touched
    <3>5. \A k : Touched(k, jn) => Touched(k, seq - 1) /\ Touched(k, seq)
      BY <1>a, <3>1 DEF Touched
    <3>6. Untouched(jn)'
      BY <3>1, <3>4, <3>5 DEF Untouched
    <3>7. ASSUME NEW j \in 1..seq, Live(j), ~Touched(jk[j], j - 1)
          PROVE  OldOf(j) = snap[jk[j]]
      <4>1. CASE j \in 1..jn
        BY <3>1, <3>7, <4>1 DEF FirstIsOld
      <4>2. CASE j = seq
        BY <3>1, <3>2, <3>5, <3>7, <4>2 DEF Untouched
      <4>3. j \in 1..jn \/ j = seq
        BY <1>a, <3>1, <3>7 DEF Dead
      <4>4. QED
        BY <4>1, <4>2, <4>3
    <3>8. FirstIsOld'
      BY <3>1, <3>3, <3>4, <3>7 DEF FirstIsOld
    <3>9. QED
      BY <3>6, <3>8
  <2>5. QED
    BY <2>1, <2>2, <2>3, <2>4 DEF Sound
<1>8. CASE Write
  <2>1. CountInv'
    BY <1>a, <1>b, <1>8 DEF Write, CountInv, ControlInv, EntryInv
  <2>2. StaleInv'
    BY <1>a, <1>b, <1>8 DEF Write, EntryInv, ControlInv, StaleInv, Dead, Live
  <2>3. EntryInv'
    BY <1>a, <1>b, <1>8 DEF Write, EntryInv, ControlInv, TypeOK
  <2>4. UndoInv'
    <3> SUFFICES ASSUME torn = 0
                 PROVE  FirstIsOld' /\ Untouched(jn)'
      BY <1>a, <1>8 DEF Write, UndoInv, ControlInv
    <3>1. /\ UNCHANGED <<jk, jt, jd, jn, snap>>
          /\ FirstIsOld /\ Untouched(jn)
      BY <1>a, <1>b, <1>8 DEF Write, UndoInv
    <3>2. Touched(key, jn)
      BY <1>a, <1>b, <1>8 DEF Write, EntryInv, ControlInv, Touched, Live
    <3>3. \A k \in Keys : k # key => data'[k] = data[k]
      BY <1>a, <1>8 DEF Write, TypeOK
    <3>4. \A j : Live(j)' = Live(j) /\ OldOf(j)' = OldOf(j)
      BY <3>1 DEF Live, OldOf
    <3>5. \A k, m : Touched(k, m)' = Touched(k, m)
      BY <3>1, <3>4 DEF Touched
    <3>6. Untouched(jn)'
      BY <3>1, <3>2, <3>3, <3>5 DEF Untouched
    <3>7. FirstIsOld'
      BY <3>1, <3>4, <3>5 DEF FirstIsOld
    <3>8. QED
      BY <3>6, <3>7
  <2>5. QED
    BY <2>1, <2>2, <2>3, <2>4 DEF Sound
<1>9. CASE TxCommit
  <2>1. CountInv'
    BY <1>a, <1>b, <1>9 DEF TxCommit, CountInv, ControlInv
  <2>2. StaleInv'
    BY <1>a, <1>b, <1>9 DEF TxCommit, CountInv, ControlInv, StaleInv, Dead, Live
  <2>3. EntryInv'
    BY <1>a, <1>b, <1>9 DEF TxCommit, EntryInv, ControlInv, TypeOK
  <2>4. UndoInv'
    BY <1>a, <1>b, <1>9 DEF TxCommit, UndoInv, CountInv, ControlInv, FirstIsOld, Untouched, Touched, Live, OldOf
  <2>5. QED
    BY <2>1, <2>2, <2>3, <2>4 DEF Sound
<1>10. CASE TxRollback
  <2>1. CountInv'
    BY <1>a, <1>b, <1>10 DEF TxRollback, CountInv, ControlInv
  <2>2. StaleInv'
    BY <1>a, <1>b, <1>10 DEF TxRollback, CountInv, ControlInv, StaleInv, Dead, Live
  <2>3. EntryInv'
    BY <1>a, <1>b, <1>10 DEF TxRollback, EntryInv, ControlInv, TypeOK
  <2>4. UndoInv'
    BY <1>a, <1>b, <1>10 DEF TxRollback, UndoInv, CountInv, ControlInv, FirstIsOld, Untouched, Touched, Live, OldOf
  <2>5. QED
    BY <2>1, <2>2, <2>3, <2>4 DEF Sound
<1>11. CASE TxRecover
  <2>1. CountInv'
    BY <1>a, <1>b, <1>11 DEF TxRecover, CountInv, ControlInv
  <2>2. StaleInv'
    <3>1. active' = 0 /\ pc' \in {"idle", "replay"} /\ (caller' # "none" => upto' <= jn')
      BY <1>a, <1>11 DEF TxRecover, ControlInv
    <3>2. \A m, n \in Nat : n <= m => Dead(m + 1, n)'
      BY DEF Dead
    <3>3. QED
      BY <1>a, <3>1, <3>2 DEF StaleInv
  <2>3. EntryInv'
    BY <1>a, <1>b, <1>11 DEF TxRecover, EntryInv, ControlInv, TypeOK
  <2>4. UndoInv'
    BY <1>a, <1>b, <1>11 DEF TxRecover, UndoInv, CountInv, ControlInv, FirstIsOld, Untouched, Touched, Live, OldOf
  <2>5. QED
    BY <2>1, <2>2, <2>3, <2>4 DEF Sound
<1>12. CASE Replay
  <2>1. CountInv'
    BY <1>a, <1>b, <1>12 DEF Replay, CountInv, ControlInv
  <2>2. StaleInv'
    BY <1>a, <1>b, <1>12 DEF Replay, CountInv, ControlInv, StaleInv, Dead, Live
  <2>3. EntryInv'
    BY <1>a, <1>b, <1>12 DEF Replay, EntryInv, ControlInv, TypeOK
  <2>4. UndoInv'
    <3> SUFFICES ASSUME torn = 0
                 PROVE  /\ FirstIsOld' /\ Untouched(jn)'
                        /\ pc' = "replay" /\ caller' \in {"rollback", "recover"} => Untouched(i)'
                        /\ pc' \in ClearPoints => data' = snap'
      BY <1>a, <1>b, <1>12 DEF Replay, UndoInv, ControlInv
    <3>1. /\ UNCHANGED <<jk, jt, jd, jn, snap>>
          /\ pc = "replay" /\ i \in Slots /\ i <= upto /\ jn <= upto
          /\ FirstIsOld /\ Untouched(jn) /\ Dead(jn + 1, upto)
          /\ pc' \in {"replay", "idle", "down"}
      BY <1>a, <1>b, <1>12 DEF Replay, UndoInv, CountInv, StaleInv, ControlInv, Slots
    <3>2. Live(i) => i \in 1..jn /\ jk[i] \in Keys
      BY <1>a, <3>1 DEF Dead, Live, TypeOK, Slots
    <3>3. \A j : Live(j)' = Live(j) /\ OldOf(j)' = OldOf(j)
      BY <3>1 DEF Live, OldOf
    <3>4. \A k, m : Touched(k, m)' = Touched(k, m)
      BY <3>1, <3>3 DEF Touched
    <3>5. FirstIsOld'
      BY <3>1, <3>3, <3>4 DEF FirstIsOld
    <3>6. data' = data \/ (Live(i) /\ data' = [data EXCEPT ![jk[i]] = OldOf(i)])
      BY <1>a, <1>12 DEF Replay
    <3>7. \A k \in Keys : ~(Live(i) /\ jk[i] = k) => data'[k] = data[k]
      BY <1>a, <3>6 DEF TypeOK
    <3>8. Untouched(jn)'
      <4>1. \A k \in Keys : ~Touched(k, jn) => data'[k] = data[k]
        BY <3>2, <3>7 DEF Touched
      <4>2. QED
        BY <3>1, <3>4, <4>1 DEF Untouched
    <3>9. ASSUME pc' = "replay", caller' \in {"rollback", "recover"}
          PROVE  Untouched(i)'
      <4>1. i' = i - 1 /\ caller' = caller /\ Untouched(i)
        BY <1>a, <1>b, <1>12, <3>1, <3>9 DEF Replay, UndoInv
      <4>2. Live(i) => data' = [data EXCEPT ![jk[i]] = OldOf(i)]
        BY <1>a, <1>12, <3>1, <3>9 DEF Replay
      <4>3. ASSUME NEW k \in Keys, ~Touched(k, i - 1)
            PROVE  data'[k] = snap[k]
        <5>1. CASE Live(i) /\ jk[i] = k
          BY <1>a, <3>1, <3>2, <4>2, <4>3, <5>1 DEF FirstIsOld, TypeOK
        <5>2. CASE ~(Live(i) /\ jk[i] = k)
          <6>1. ~Touched(k, i)
            BY <1>a, <3>1, <4>3, <5>2 DEF Touched, Slots
          <6>2. QED
            BY <3>7, <4>1, <5>2, <6>1 DEF Untouched
        <5>3. QED
          BY <5>1, <5>2
      <4>4. QED
        BY <3>1, <3>4, <4>1, <4>3 DEF Untouched
    <3>10. QED
      BY <3>1, <3>5, <3>8, <3>9
  <2>5. QED
    BY <2>1, <2>2, <2>3, <2>4 DEF Sound
<1>13. CASE ReplayDone
  <2>1. CountInv'
    BY <1>a, <1>b, <1>13 DEF ReplayDone, CountInv, ControlInv
  <2>2. StaleInv'
    BY <1>a, <1>b, <1>13 DEF ReplayDone, CountInv, ControlInv, StaleInv, Dead, Live
  <2>3. EntryInv'
    BY <1>a, <1>b, <1>13 DEF ReplayDone, EntryInv, ControlInv, TypeOK
  <2>4. UndoInv'
    <3> SUFFICES ASSUME torn = 0
                 PROVE  /\ FirstIsOld' /\ Untouched(jn)'
                        /\ caller \in {"rollback", "recover"} => data = snap
      BY <1>a, <1>b, <1>13 DEF ReplayDone, UndoInv, ControlInv
    <3>1. FirstIsOld /\ Untouched(jn) /\ SameJournal
      BY <1>a, <1>b, <1>13 DEF ReplayDone, UndoInv, SameJournal
    <3>2. ASSUME caller \in {"rollback", "recover"}
          PROVE  data = snap
      <4>1. Untouched(0) /\ \A k : ~Touched(k, 0)
        BY <1>a, <1>b, <1>13, <3>2 DEF ReplayDone, UndoInv, Touched
      <4>2. QED
        BY <1>a, <4>1 DEF Untouched, TypeOK
    <3>3. QED
      BY <3>1, <3>2, JournalKeepsUndo
  <2>5. QED
    BY <2>1, <2>2, <2>3, <2>4 DEF Sound
<1>14. CASE ClearJK
  <2>1. CountInv'
    BY <1>a, <1>b, <1>14 DEF ClearJK, CountInv, ControlInv
  <2>2. StaleInv'
    <3>1. \A j \in Slots : ~Live(j) => ~Live(j)'
      BY <1>a, <1>14 DEF ClearJK, Live, TypeOK
    <3>2. /\ jn' = jn /\ caller # "none" /\ i \in 1..upto
          /\ Dead(1, i - 1) /\ Dead(jn + 1, upto)
      BY <1>a, <1>b, <1>14 DEF ClearJK, ControlInv, StaleInv
    <3>3. /\ \A j \in 1..(i - 1) : ~Live(j)'
          /\ \A j \in (jn + 1)..upto : ~Live(j)'
      BY <1>a, <3>1, <3>2 DEF Dead, Slots
    <3>4. CASE Abandon
      <4>1. pc' \in {"idle", "down"} /\ caller' = "none" /\ UNCHANGED <<active, seq>>
        BY <1>a, <3>4
      <4>2. active = 1 => upto = seq
        BY <1>a, <3>2 DEF ControlInv
      <4>3. QED
        BY <1>a, <3>2, <3>3, <4>1, <4>2 DEF StaleInv, ControlInv, Dead
    <3>5. CASE pc' = "clearJT" /\ UNCHANGED <<i, upto, caller, active, seq>> /\ ~Live(i)'
      BY <1>a, <3>2, <3>3, <3>5 DEF StaleInv, Dead
    <3>6. QED
      <4>1. Abandon \/ (pc' = "clearJT" /\ UNCHANGED <<i, upto, caller, active, seq>> /\ ~Live(i)')
        BY <1>a, <1>b, <1>14 DEF ClearJK, Live, StaleInv, ControlInv, TypeOK, Slots
      <4>2. QED
        BY <3>4, <3>5, <4>1
  <2>3. EntryInv'
    BY <1>a, <1>b, <1>14 DEF ClearJK, EntryInv, ControlInv, TypeOK
  <2>4. UndoInv'
    BY <1>a, <1>b, <1>14 DEF ClearJK, UndoInv, CountInv, ControlInv, FirstIsOld, Untouched, Touched, Live, OldOf
  <2>5. QED
    BY <2>1, <2>2, <2>3, <2>4 DEF Sound
<1>15. CASE ClearJT
  <2>1. CountInv'
    BY <1>a, <1>b, <1>15 DEF ClearJT, CountInv, ControlInv
  <2>2. StaleInv'
    <3>1. \A j \in Slots : ~Live(j) => ~Live(j)'
      BY <1>a, <1>15 DEF ClearJT, Live, TypeOK
    <3>2. /\ jn' = jn /\ caller # "none" /\ i \in 1..upto
          /\ Dead(1, i - 1) /\ Dead(jn + 1, upto)
      BY <1>a, <1>b, <1>15 DEF ClearJT, ControlInv, StaleInv
    <3>3. /\ \A j \in 1..(i - 1) : ~Live(j)'
          /\ \A j \in (jn + 1)..upto : ~Live(j)'
      BY <1>a, <3>1, <3>2 DEF Dead, Slots
    <3>4. CASE Abandon
      <4>1. pc' \in {"idle", "down"} /\ caller' = "none" /\ UNCHANGED <<active, seq>>
        BY <1>a, <3>4
      <4>2. active = 1 => upto = seq
        BY <1>a, <3>2 DEF ControlInv
      <4>3. QED
        BY <1>a, <3>2, <3>3, <4>1, <4>2 DEF StaleInv, ControlInv, Dead
    <3>5. CASE pc' = "clearJD" /\ UNCHANGED <<i, upto, caller, active, seq>> /\ ~Live(i)'
      BY <1>a, <3>2, <3>3, <3>5 DEF StaleInv, Dead
    <3>6. QED
      <4>1. Abandon \/ (pc' = "clearJD" /\ UNCHANGED <<i, upto, caller, active, seq>> /\ ~Live(i)')
        BY <1>a, <1>b, <1>15 DEF ClearJT, Live, StaleInv, ControlInv, TypeOK, Slots
      <4>2. QED
        BY <3>4, <3>5, <4>1
  <2>3. EntryInv'
    BY <1>a, <1>b, <1>15 DEF ClearJT, EntryInv, ControlInv, TypeOK
  <2>4. UndoInv'
    BY <1>a, <1>b, <1>15 DEF ClearJT, UndoInv, CountInv, ControlInv, FirstIsOld, Untouched, Touched, Live, OldOf
  <2>5. QED
    BY <2>1, <2>2, <2>3, <2>4 DEF Sound
<1>16. CASE ClearJD
  <2>1. CountInv'
    BY <1>a, <1>b, <1>16 DEF ClearJD, CountInv, ControlInv
  <2>2. StaleInv'
    <3>1. \A j \in Slots : ~Live(j) => ~Live(j)'
      BY <1>a, <1>16 DEF ClearJD, Live, TypeOK
    <3>2. /\ jn' = jn /\ caller # "none" /\ i \in 1..upto
          /\ Dead(1, i - 1) /\ Dead(jn + 1, upto)
      BY <1>a, <1>b, <1>16 DEF ClearJD, ControlInv, StaleInv
    <3>3. /\ \A j \in 1..(i - 1) : ~Live(j)'
          /\ \A j \in (jn + 1)..upto : ~Live(j)'
      BY <1>a, <3>1, <3>2 DEF Dead, Slots
    <3>4. CASE Abandon
      <4>1. pc' \in {"idle", "down"} /\ caller' = "none" /\ UNCHANGED <<active, seq>>
        BY <1>a, <3>4
      <4>2. active = 1 => upto = seq
        BY <1>a, <3>2 DEF ControlInv
      <4>3. QED
        BY <1>a, <3>2, <3>3, <4>1, <4>2 DEF StaleInv, ControlInv, Dead
    <3>5. CASE pc' = "clear" /\ i' = i + 1 /\ UNCHANGED <<upto, caller, active, seq>>
      BY <1>a, <1>b, <1>16, <3>2, <3>3, <3>5 DEF ClearJD, StaleInv, Dead, Live
    <3>6. QED
      <4>1. Abandon \/ (pc' = "clear" /\ i' = i + 1 /\ UNCHANGED <<upto, caller, active, seq>>)
        BY <1>a, <1>b, <1>16 DEF ClearJD, Live, StaleInv, ControlInv, TypeOK, Slots
      <4>2. QED
        BY <3>4, <3>5, <4>1
  <2>3. EntryInv'
    BY <1>a, <1>b, <1>16 DEF ClearJD, EntryInv, ControlInv, TypeOK
  <2>4. UndoInv'
    BY <1>a, <1>b, <1>16 DEF ClearJD, UndoInv, CountInv, ControlInv, FirstIsOld, Untouched, Touched, Live, OldOf
  <2>5. QED
    BY <2>1, <2>2, <2>3, <2>4 DEF Sound
<1>17. CASE ClearJN
  <2>1. CountInv'
    BY <1>a, <1>b, <1>17 DEF ClearJN, CountInv, ControlInv
  <2>2. StaleInv'
    <3>1. \A j \in Slots : ~Live(j) => ~Live(j)'
      BY <1>a, <1>17 DEF ClearJN, Live, TypeOK
    <3>2. \A m \in Nat \ {0}, n \in 0..MaxSeq : Dead(m, n) => Dead(m, n)'
      BY <3>1 DEF Dead, Slots
    <3>3. QED
      BY <1>a, <1>b, <1>17, <3>2 DEF ClearJN, CountInv, ControlInv, StaleInv
  <2>3. EntryInv'
    BY <1>a, <1>b, <1>17 DEF ClearJN, EntryInv, ControlInv, TypeOK
  <2>4. UndoInv'
    BY <1>a, <1>b, <1>17 DEF ClearJN, UndoInv, CountInv, ControlInv, FirstIsOld, Untouched, Touched, Live, OldOf
  <2>5. QED
    BY <2>1, <2>2, <2>3, <2>4 DEF Sound
<1>18. CASE ClearJS
  <2>1. CountInv'
    BY <1>a, <1>b, <1>18 DEF ClearJS, CountInv, ControlInv
  <2>2. StaleInv'
    <3>1. \A j \in Slots : ~Live(j) => ~Live(j)'
      BY <1>a, <1>18 DEF ClearJS, Live, TypeOK
    <3>2. \A m \in Nat \ {0}, n \in 0..MaxSeq : Dead(m, n) => Dead(m, n)'
      BY <3>1 DEF Dead, Slots
    <3>3. QED
      BY <1>a, <1>b, <1>18, <3>2 DEF ClearJS, CountInv, ControlInv, StaleInv
  <2>3. EntryInv'
    BY <1>a, <1>b, <1>18 DEF ClearJS, EntryInv, ControlInv, TypeOK
  <2>4. UndoInv'
    BY <1>a, <1>b, <1>18 DEF ClearJS, UndoInv, CountInv, ControlInv, FirstIsOld, Untouched, Touched, Live, OldOf
  <2>5. QED
    BY <2>1, <2>2, <2>3, <2>4 DEF Sound
<1>19. CASE Crash \/ Quit
  <2>1. CountInv'
    BY <1>a, <1>b, <1>19 DEF Crash, Quit, Stop, CountInv, ControlInv
  <2>2. StaleInv'
    BY <1>a, <1>b, <1>19 DEF Crash, Quit, Stop, CountInv, ControlInv, StaleInv
  <2>3. EntryInv'
    BY <1>a, <1>b, <1>19 DEF Crash, Quit, Stop, EntryInv
  <2>4. UndoInv'
    BY <1>a, <1>b, <1>19 DEF Crash, Quit, Stop, UndoInv, ControlInv, FirstIsOld, Untouched, Touched, Live, OldOf
  <2>5. QED
    BY <2>1, <2>2, <2>3, <2>4 DEF Sound
<1>20. CASE UNCHANGED vars
  BY <1>a, <1>b, <1>20 DEF vars, Sound, CountInv, StaleInv, EntryInv, UndoInv, Dead, FirstIsOld, Untouched, Touched, Live, OldOf
<1>21. QED
  BY <1>1, <1>2, <1>3, <1>4, <1>5, <1>6, <1>7, <1>8, <1>9, <1>10, <1>11, <1>12,
     <1>13, <1>14, <1>15, <1>16, <1>17, <1>18, <1>19, <1>20
     DEF Next, Step, Request
-----------------------------------------------------------------------------
(* Every record keeps its type and every call its place: what tx_begin,    *)
(* kv_put, kv_delete, tx_commit, tx_rollback and tx_recover may rely on.   *)
THEOREM TypeCorrect == Spec => []TypeOK
<1>1. Typed /\ [Next]_vars => Typed'
  BY StepTyped
<1>2. Spec => []Typed
  BY <1>1, InitTyped, PTL DEF Spec
<1>3. Typed => TypeOK
  BY DEF Typed
<1>4. QED
  BY <1>2, <1>3, PTL

LEMMA DamageIsForGood == TypeOK /\ [Next]_vars /\ damaged' = 0 => damaged = 0
BY DEF Next, Step, Request, vars, bounds, history, TypeOK, Works, Fails, Misleads, MayFail,
       TxBegin, BeginJN, KvWrite, LogJK, LogJT, LogJD, LogJN, Write, TxCommit, TxRollback,
       TxRecover, Replay, ReplayDone, ClearJK, ClearJT, ClearJD, ClearJN, ClearJS, Crash, Quit

LEMMA JournalInvIsSound == JournalInv <=> ControlInv /\ (damaged = 0 => Sound)
BY DEF JournalInv, Sound

(* The journal of storage.c is consistent in every reachable state, for     *)
(* any number of keys, writes, crashes and failed operations.              *)
THEOREM JournalCorrect == Spec => [](TypeOK /\ JournalInv)
<1>1. Init => TypeOK /\ JournalInv
  BY InitTyped, InitSound, JournalInvIsSound DEF Typed
<1>2. TypeOK /\ JournalInv /\ [Next]_vars => (TypeOK /\ JournalInv)'
  <2> SUFFICES ASSUME TypeOK, JournalInv, [Next]_vars
               PROVE  TypeOK' /\ JournalInv'
    OBVIOUS
  <2>1. Typed /\ Typed'
    BY StepTyped, JournalInvIsSound DEF Typed
  <2>2. damaged' = 0 => Sound'
    BY <2>1, StepSound, DamageIsForGood, JournalInvIsSound
  <2>3. QED
    BY <2>1, <2>2 DEF Typed, JournalInv, Sound
<1>3. QED
  BY <1>1, <1>2, PTL DEF Spec

(* tx_rollback and tx_recover restore the state the transaction began with. *)
THEOREM RollbackCorrect == Spec => []RollbackRestores
<1>1. TypeOK /\ JournalInv => RollbackRestores
  BY DEF JournalInv, UndoInv, RollbackRestores
<1>2. QED
  BY <1>1, JournalCorrect, PTL

LEMMA LessThanOnNat == \A x, y \in Nat : <<x, y>> \in OpToRel(<, Nat) <=> x < y
BY Zenon DEF OpToRel

LEMMA LeastElement ==
  ASSUME NEW S \in SUBSET Nat, S # {}
  PROVE  Min(S) \in S /\ \A x \in S : Min(S) <= x
<1> DEFINE R == OpToRel(<, Nat)
<1>1. IsWellFoundedOn(R, Nat)
  BY NatLessThanWellFounded, Zenon
<1>2. \A x, y \in Nat : <<x, y>> \in R <=> x < y
  BY LessThanOnNat, Zenon
<1> HIDE DEF R
<1>3. \E x \in S : \A y \in S : ~(<<y, x>> \in R)
  BY <1>1, WFMin
<1>4. \A x, y \in Nat : ~(<<y, x>> \in R) <=> ~(y < x)
  BY <1>2
<1>5. \A x, y \in Nat : ~(y < x) => x <= y
  OBVIOUS
<1>6. \E x \in S : \A y \in S : x <= y
  BY <1>3, <1>4, <1>5, Zenon
<1>7. QED
  BY <1>6 DEF Min

(* The journal is a write-ahead log: between any two record operations of   *)
(* kv_put, kv_delete and tx_rollback_to, a crash brings back exactly the    *)
(* state the transaction began with.                                        *)
THEOREM CrashCorrect == Spec => []CrashRestores
<1>1. ASSUME TypeOK, JournalInv, damaged = 0, torn = 0, ~HalfCleared
      PROVE  Image = snap
  <2>1. /\ FirstIsOld /\ Untouched(jn) /\ jn \in Nat
        /\ js = "none" => jn = 0
    BY <1>1 DEF JournalInv, UndoInv, CountInv, TypeOK
  <2>2. ASSUME NEW k \in Keys
        PROVE  Image[k] = snap[k]
    <3>1. CASE js = "none" \/ Covering(k) = {}
      BY <2>1, <3>1 DEF Image, Covering, Untouched, Touched
    <3>2. CASE js # "none" /\ Covering(k) # {}
      <4> DEFINE m == Min(Covering(k))
      <4>1. m \in Covering(k) /\ \A j \in Covering(k) : m <= j
        BY <2>1, <3>2, LeastElement DEF Covering
      <4>2. ~Touched(k, m - 1)
        BY <2>1, <4>1 DEF Touched, Covering
      <4>3. OldOf(m) = snap[k]
        BY <2>1, <4>1, <4>2 DEF FirstIsOld, Covering
      <4>4. QED
        BY <3>2, <4>3 DEF Image
    <3>3. QED
      BY <3>1, <3>2
  <2>3. QED
    BY <1>1, <2>2 DEF Image, TypeOK
<1>2. TypeOK /\ JournalInv => CrashRestores
  BY <1>1 DEF CrashRestores
<1>3. QED
  BY <1>2, JournalCorrect, PTL
-----------------------------------------------------------------------------
(* Every record, what it was when the image was taken, and whatever an entry *)
(* that JN counts would put back, is among the values it held since then.    *)
(* Unlike UndoInv this survives a clear that is cut short: an entry taken    *)
(* out of the journal makes nothing new of the others.                       *)
HeldInv ==
  /\ \A k \in Keys : data[k] \in held[k] /\ snap[k] \in held[k]
  /\ \A j \in 1..jn : Live(j) => OldOf(j) \in held[jk[j]]

(* A step under which no live entry and no value held is new.                *)
LEMMA HeldStays ==
  ASSUME HeldInv, jn' \in Nat, TypeOK,
         UNCHANGED snap,
         \A k \in Keys : held[k] \subseteq held'[k] /\ data'[k] \in held'[k],
         \A j \in 1..jn' :
           Live(j)' => j \in 1..jn /\ Live(j) /\ jk'[j] = jk[j] /\ OldOf(j)' = OldOf(j)
  PROVE  HeldInv'
<1>1. \A j \in 1..jn' : Live(j)' => jk[j] \in Keys
  BY DEF Live, TypeOK, Slots
<1> QED
  BY <1>1 DEF HeldInv

(* A new image is all that its records held.                                 *)
LEMMA HeldAnew ==
  ASSUME jn' = 0, snap' = data, data' = data, held' = [k \in Keys |-> {data[k]}]
  PROVE  HeldInv'
BY DEF HeldInv

LEMMA InitHeld == Init => HeldInv
BY DEF Init, HeldInv

LEMMA StepHeld ==
  ASSUME Typed, Typed', Sound, HeldInv, [Next]_vars, damaged' = 0, damaged = 0
  PROVE  HeldInv'
<1>a. /\ Numbers /\ Numbers' /\ ControlInv /\ TypeOK /\ jn' \in Nat
      /\ CountInv /\ StaleInv /\ EntryInv
  BY TypedNumbers, TypedNumbersNext DEF Typed, Sound, Numbers
<1>b. ASSUME UNCHANGED <<data, snap, held, jk, jt, jd>>, jn' = jn \/ jn' = 0
      PROVE  HeldInv'
  <2>1. \A j : (Live(j)' <=> Live(j)) /\ OldOf(j)' = OldOf(j)
    BY <1>b DEF Live, OldOf
  <2>2. \A j \in 1..jn' : j \in 1..jn
    BY <1>a, <1>b DEF Numbers
  <2>3. \A k \in Keys : held[k] \subseteq held'[k] /\ data'[k] \in held'[k]
    BY <1>b DEF HeldInv
  <2> QED
    BY <1>a, <1>b, <2>1, <2>2, <2>3, HeldStays
<1> USE DEF persistent, process, write, loop, bounds, history, Stopped, LogPoints, ClearPoints,
            Works, Fails, Misleads, MayFail, Go, Abandon, GiveUp
<1>1. CASE TxBegin
  <2>1. jn = 0 /\ UNCHANGED <<data, jk, jt, jd, jn>>
    BY <1>a, <1>1 DEF TxBegin, CountInv
  <2>2. CASE UNCHANGED history
    BY <1>b, <2>1, <2>2
  <2>3. CASE snap' = data /\ held' = [k \in Keys |-> {data[k]}]
    BY <2>1, <2>3, HeldAnew
  <2> QED
    BY <1>1, <2>2, <2>3 DEF TxBegin
<1>2. CASE BeginJN
  BY <1>b, <1>2 DEF BeginJN
<1>3. ASSUME NEW k \in Keys, NEW v \in Payloads, KvWrite(k, v)
      PROVE  HeldInv'
  BY <1>b, <1>3 DEF KvWrite
<1>4. CASE LogJK \/ LogJT \/ LogJD
  <2>1. UNCHANGED <<data, snap, held, jn>> /\ jn < seq
    BY <1>a, <1>4 DEF LogJK, LogJT, LogJD, CountInv
  <2>2. \A j \in 1..jn : jk'[j] = jk[j] /\ jt'[j] = jt[j] /\ jd'[j] = jd[j]
    BY <1>a, <1>4, <2>1 DEF LogJK, LogJT, LogJD, Numbers, TypeOK, Slots
  <2>3. \A j \in 1..jn : (Live(j)' <=> Live(j)) /\ OldOf(j)' = OldOf(j)
    BY <2>2 DEF Live, OldOf
  <2>4. \A k \in Keys : held[k] \subseteq held'[k] /\ data'[k] \in held'[k]
    BY <2>1 DEF HeldInv
  <2> QED
    BY <1>a, <2>1, <2>2, <2>3, <2>4, HeldStays
<1>5. CASE LogJN
  <2>1. /\ pc = "logJN" /\ jn' = seq /\ UNCHANGED <<data, snap, held, jk, jt, jd>>
        /\ jn < seq /\ Dead(jn + 1, seq - 1)
    BY <1>a, <1>5 DEF LogJN, CountInv, StaleInv
  <2>2. jk[seq] = key /\ key \in Keys /\ OldOf(seq) = data[key]
    BY <1>a, <2>1 DEF EntryInv, ControlInv, OldOf, TypeOK, Payloads
  <2>3. \A j : (Live(j)' <=> Live(j)) /\ OldOf(j)' = OldOf(j)
    BY <2>1 DEF Live, OldOf
  <2>4. ASSUME NEW j \in 1..seq, Live(j)
        PROVE  OldOf(j) \in held[jk[j]]
    <3>1. j \in 1..jn \/ j = seq
      BY <1>a, <2>1, <2>4 DEF Dead, Numbers
    <3> QED
      BY <2>2, <2>4, <3>1 DEF HeldInv
  <2> QED
    BY <2>1, <2>3, <2>4 DEF HeldInv
<1>6. CASE Write
  <2>1. UNCHANGED <<jk, jt, jd, jn, snap>>
    BY <1>6 DEF Write
  <2>2. \A j : (Live(j)' <=> Live(j)) /\ OldOf(j)' = OldOf(j)
    BY <2>1 DEF Live, OldOf
  <2>3. \A k \in Keys : held[k] \subseteq held'[k] /\ data'[k] \in held'[k]
    BY <1>a, <1>6 DEF Write, HeldInv, TypeOK, ControlInv
  <2> QED
    BY <1>a, <2>1, <2>2, <2>3, HeldStays
<1>7. CASE TxCommit \/ TxRollback \/ TxRecover
  BY <1>b, <1>7 DEF TxCommit, TxRollback, TxRecover
<1>8. CASE Replay
  <2>1. UNCHANGED <<jk, jt, jd, jn, snap, held>> /\ pc = "replay"
    BY <1>8 DEF Replay
  <2>2. \A j : (Live(j)' <=> Live(j)) /\ OldOf(j)' = OldOf(j)
    BY <2>1 DEF Live, OldOf
  <2>3. i \in 1..upto /\ upto \in Nat /\ Dead(jn + 1, upto)
    BY <1>a, <1>8 DEF Replay, ControlInv, StaleInv, Numbers
  <2>4. Live(i) => i \in 1..jn
    BY <1>a, <2>3 DEF Dead, Numbers
  <2>5. data' = data \/ (Live(i) /\ data' = [data EXCEPT ![jk[i]] = OldOf(i)])
    BY <1>8 DEF Replay, TypeOK
  <2>6. \A k \in Keys : held[k] \subseteq held'[k] /\ data'[k] \in held'[k]
    BY <1>a, <2>1, <2>4, <2>5 DEF HeldInv, TypeOK
  <2> QED
    BY <1>a, <2>1, <2>2, <2>6, HeldStays
<1>9. CASE ReplayDone
  BY <1>b, <1>9 DEF ReplayDone
<1>10. CASE ClearJK \/ ClearJT \/ ClearJD
  <2>1. UNCHANGED <<data, snap, held, jn>>
    BY <1>10 DEF ClearJK, ClearJT, ClearJD
  <2>2. ASSUME NEW j \in 1..jn, Live(j)'
        PROVE  Live(j) /\ jk'[j] = jk[j] /\ OldOf(j)' = OldOf(j)
    <3>1. j \in Slots
      BY <1>a DEF Numbers, Slots
    <3>2. CASE ClearJK
      BY <1>a, <2>2, <3>1, <3>2 DEF ClearJK, Live, OldOf, TypeOK
    <3>3. CASE ClearJT
      BY <1>a, <2>2, <3>1, <3>3 DEF ClearJT, Live, OldOf, TypeOK
    <3>4. CASE ClearJD
      BY <1>a, <2>2, <3>1, <3>4 DEF ClearJD, Live, OldOf, TypeOK, StaleInv
    <3> QED
      BY <1>10, <3>2, <3>3, <3>4
  <2>3. \A k \in Keys : held[k] \subseteq held'[k] /\ data'[k] \in held'[k]
    BY <2>1 DEF HeldInv
  <2> QED
    BY <1>a, <2>1, <2>2, <2>3, HeldStays
<1>11. CASE ClearJN
  <2>1. CASE jn' = 0 /\ snap' = data /\ held' = [k \in Keys |-> {data[k]}]
    BY <1>11, <2>1, HeldAnew DEF ClearJN
  <2>2. CASE UNCHANGED <<jn, snap, held>>
    BY <1>b, <1>11, <2>2 DEF ClearJN
  <2> QED
    BY <1>11, <2>1, <2>2 DEF ClearJN
<1>12. CASE ClearJS
  BY <1>b, <1>12 DEF ClearJS
<1>13. CASE Crash \/ Quit
  BY <1>b, <1>13 DEF Crash, Quit, Stop
<1>14. CASE UNCHANGED vars
  BY <1>b, <1>14 DEF vars
<1> QED
  BY <1>1, <1>2, <1>3, <1>4, <1>5, <1>6, <1>7, <1>8, <1>9, <1>10, <1>11, <1>12, <1>13, <1>14
     DEF Next, Step, Request

LEMMA HeldInvMeans ==
  ASSUME TypeOK, HeldInv
  PROVE  \A k \in Keys : {data[k], Image[k], snap[k]} \subseteq held[k]
<1> SUFFICES ASSUME NEW k \in Keys
             PROVE  Image[k] \in held[k]
  BY DEF HeldInv
<1>1. CASE js = "none" \/ Covering(k) = {}
  BY <1>1 DEF Image, HeldInv
<1>2. CASE js # "none" /\ Covering(k) # {}
  <2> DEFINE m == Min(Covering(k))
  <2>1. m \in Covering(k)
    BY <1>2, LeastElement DEF Covering
  <2>2. OldOf(m) \in held[k]
    BY <2>1 DEF Covering, HeldInv
  <2> QED
    BY <1>2, <2>2 DEF Image
<1> QED
  BY <1>1, <1>2

(* Whatever clears are cut short, however often, and whatever fails without  *)
(* misleading the journal: a record holds, and a crash restores, only values *)
(* the record really held (tx_clear_journal, tx_rollback_to).                *)
THEOREM HeldCorrect == Spec => []OnlyHeldValues
<1>1. Init => (damaged = 0 => HeldInv)
  BY InitHeld
<1>2. TypeOK /\ JournalInv /\ (TypeOK /\ JournalInv)' /\ (damaged = 0 => HeldInv) /\ [Next]_vars
        => (damaged = 0 => HeldInv)'
  BY StepHeld, DamageIsForGood, JournalInvIsSound DEF Typed, JournalInv
<1>3. TypeOK /\ (damaged = 0 => HeldInv) => OnlyHeldValues
  BY HeldInvMeans DEF OnlyHeldValues
<1> QED
  BY <1>1, <1>2, <1>3, JournalCorrect, PTL DEF Spec
-----------------------------------------------------------------------------
(* A step that keeps what covers each key, what undoing it would put back,   *)
(* and the records no entry covers, keeps what a crash would restore.        *)
LEMMA ImageStays ==
  ASSUME jn \in Nat,
         js' = js \/ \A k \in Keys : Covering(k) = {},
         \A k \in Keys :
           /\ Covering(k)' = Covering(k)
           /\ \A j \in Covering(k) : OldOf(j)' = OldOf(j)
           /\ js = "none" \/ Covering(k) = {} => data'[k] = data[k]
  PROVE  Image' = Image
<1> SUFFICES ASSUME NEW k \in Keys
             PROVE  Image'[k] = Image[k]
  BY DEF Image
<1>1. CASE Covering(k) = {}
  BY <1>1 DEF Image
<1>2. CASE Covering(k) # {}
  <2> DEFINE m == Min(Covering(k))
  <2>1. m \in Covering(k)
    BY <1>2, LeastElement DEF Covering
  <2>2. js' = js /\ OldOf(m)' = OldOf(m)
    BY <1>2, <2>1
  <2>3. Covering(k)' # {} /\ Min(Covering(k))' = m
    BY <1>2
  <2> HIDE DEF m
  <2>4. Image[k] = IF js = "none" THEN data[k] ELSE OldOf(m)
    BY <1>2 DEF Image, m
  <2>5. Image'[k] = IF js' = "none" THEN data'[k] ELSE OldOf(m)'
    BY <2>3 DEF Image, m
  <2> QED
    BY <2>2, <2>4, <2>5
<1> QED
  BY <1>1, <1>2

(* Nothing but data, JK, JT, JD, JN and JS matters to it. *)
LEMMA StoreKeepsImage ==
  UNCHANGED <<data, jk, jt, jd, jn, js>> => Image' = Image
BY DEF Image, Covering, Live, OldOf

LEMMA StepImage ==
  ASSUME Typed, Typed', Sound, [Next]_vars, damaged' = 0
  PROVE  Image' = Image \/ (pc = "clear" /\ pc' = "clearJT")
<1>a. /\ Numbers /\ Numbers' /\ ControlInv /\ TypeOK
      /\ CountInv /\ StaleInv /\ EntryInv
  BY TypedNumbers, TypedNumbersNext DEF Typed, Sound
<1>b. ASSUME jn = 0, jn' = 0, UNCHANGED data
      PROVE  Image' = Image
  <2>1. \A k : Covering(k) = {} /\ Covering(k)' = {}
    BY <1>b DEF Covering
  <2> QED
    BY <1>b, <2>1, ImageStays
<1> USE DEF persistent, process, write, loop, bounds, history, Stopped, LogPoints, ClearPoints,
            Works, Fails, Misleads, MayFail, Go, Abandon, GiveUp
<1>1. CASE TxBegin \/ BeginJN
  <2>1. CASE TxBegin
    BY <1>a, <1>b, <2>1 DEF TxBegin, CountInv
  <2>2. CASE BeginJN
    BY <1>a, <1>b, <2>2 DEF BeginJN, CountInv
  <2> QED
    BY <1>1, <2>1, <2>2
<1>2. ASSUME NEW k \in Keys, NEW v \in Payloads, KvWrite(k, v)
      PROVE  Image' = Image
  BY <1>2, StoreKeepsImage DEF KvWrite
<1>3. CASE LogJK \/ LogJT \/ LogJD
  <2>1. UNCHANGED <<data, jn, js>> /\ jn < seq
    BY <1>a, <1>3 DEF LogJK, LogJT, LogJD, CountInv
  <2>2. \A j \in 1..jn : jk'[j] = jk[j] /\ jt'[j] = jt[j] /\ jd'[j] = jd[j]
    BY <1>a, <1>3, <2>1 DEF LogJK, LogJT, LogJD, Numbers, TypeOK, Slots
  <2>3. \A j \in 1..jn : (Live(j)' <=> Live(j)) /\ OldOf(j)' = OldOf(j)
    BY <2>2 DEF Live, OldOf
  <2>4. \A k : Covering(k)' = Covering(k) /\ Covering(k) \subseteq 1..jn
    BY <2>1, <2>2, <2>3 DEF Covering
  <2> QED
    BY <1>a, <2>1, <2>3, <2>4, ImageStays DEF Numbers
<1>4. CASE LogJN
  <2>1. CASE UNCHANGED jn
    BY <1>4, <2>1, StoreKeepsImage DEF LogJN
  <2>2. CASE jn' = seq
    <3>1. /\ UNCHANGED <<data, jk, jt, jd, js>> /\ jn < seq /\ Dead(jn + 1, seq - 1)
          /\ js = "ACTIVE" /\ seq \in Nat /\ jn \in Nat
      BY <1>a, <1>4 DEF LogJN, CountInv, StaleInv, ControlInv, Numbers
    <3>2. /\ jk[seq] = key /\ key \in Keys /\ OldOf(seq) = data[key] /\ Live(seq)
          /\ pc = "logJN"
      BY <1>a, <1>4 DEF LogJN, EntryInv, ControlInv, OldOf, Live, TypeOK, Payloads
    <3>3. \A j : (Live(j)' <=> Live(j)) /\ OldOf(j)' = OldOf(j)
      BY <3>1 DEF Live, OldOf
    <3>4. \A j \in 1..seq : Live(j) => j \in 1..jn \/ j = seq
      BY <3>1 DEF Dead
    <3>5. \A k : Covering(k)' = {j \in 1..seq : Live(j) /\ jk[j] = k}
      BY <2>2, <3>1, <3>3 DEF Covering
    <3>6. ASSUME NEW k \in Keys
          PROVE  Image'[k] = Image[k]
      <4>1. CASE k # key
        <5>1. Covering(k)' = Covering(k)
          <6>1. \A j : j \in 1..seq /\ Live(j) /\ jk[j] = k <=> j \in 1..jn /\ Live(j) /\ jk[j] = k
            BY <3>1, <3>2, <3>4, <4>1
          <6> QED
            BY <3>5, <6>1 DEF Covering
        <5>2. CASE Covering(k) = {}
          BY <3>1, <5>1, <5>2 DEF Image
        <5>3. CASE Covering(k) # {}
          BY <3>1, <3>3, <5>1, <5>3 DEF Image
        <5> QED
          BY <5>2, <5>3
      <4>2. CASE k = key
        <5>1. Covering(k)' = Covering(k) \cup {seq}
          <6>1. \A j : j \in 1..seq /\ Live(j) /\ jk[j] = k
                       <=> (j \in 1..jn /\ Live(j) /\ jk[j] = k) \/ j = seq
            <7>1. seq \in 1..seq
              BY <1>a, <3>1 DEF Numbers
            <7> QED
              BY <3>1, <3>2, <3>4, <4>2, <7>1
          <6> QED
            BY <3>5, <6>1 DEF Covering
        <5>2. CASE Covering(k) = {}
          <6>1. Covering(k)' = {seq} /\ Min({seq}) = seq
            BY <3>1, <5>1, <5>2 DEF Min
          <6>2. Image'[k] = OldOf(seq)
            BY <3>1, <3>3, <6>1 DEF Image
          <6>3. Image[k] = data[key]
            BY <4>2, <5>2 DEF Image
          <6> QED
            BY <3>2, <6>2, <6>3
        <5>3. CASE Covering(k) # {}
          <6>1. PICK m \in Nat : /\ m = Min(Covering(k)) /\ m \in Covering(k)
                                 /\ \A j \in Covering(k) : m <= j
            <7>1. Covering(k) \in SUBSET Nat
              BY <3>1 DEF Covering
            <7> QED
              BY <5>3, <7>1, LeastElement
          <6>2. PICK n \in Nat : /\ n = Min(Covering(k) \cup {seq}) /\ n \in Covering(k) \cup {seq}
                                 /\ \A j \in Covering(k) \cup {seq} : n <= j
            <7>1. Covering(k) \cup {seq} \in SUBSET Nat
              BY <3>1 DEF Covering
            <7> QED
              BY <7>1, LeastElement
          <6>3. m < seq
            BY <3>1, <6>1 DEF Covering
          <6>4. m = n
            <7>1. n <= m
              BY <6>1, <6>2
            <7>2. n \in Covering(k)
              BY <3>1, <6>2, <6>3, <7>1
            <7> QED
              BY <6>1, <7>1, <7>2
          <6>5. Image[k] = OldOf(m)
            BY <3>1, <5>3, <6>1 DEF Image
          <6>6. Image'[k] = OldOf(m)'
            BY <3>1, <5>1, <6>2, <6>4 DEF Image
          <6> QED
            BY <3>3, <6>5, <6>6
        <5> QED
          BY <5>2, <5>3
      <4> QED
        BY <4>1, <4>2
    <3> QED
      BY <3>6 DEF Image
  <2> QED
    BY <1>4, <2>1, <2>2 DEF LogJN
<1>5. CASE Write
  <2>1. UNCHANGED <<jk, jt, jd, jn, js>>
    BY <1>5 DEF Write
  <2>2. \A k : Covering(k)' = Covering(k)
    BY <2>1 DEF Covering, Live
  <2>3. key \in Keys /\ seq \in Covering(key) /\ js = "ACTIVE"
    BY <1>a, <1>5 DEF Write, EntryInv, ControlInv, CountInv, Covering, Live, Numbers
  <2>4. \A k \in Keys : Covering(k) = {} => data'[k] = data[k]
    BY <1>a, <1>5, <2>3 DEF Write, TypeOK
  <2>5. \A j : OldOf(j)' = OldOf(j)
    BY <2>1 DEF OldOf
  <2> QED
    BY <1>a, <2>1, <2>2, <2>3, <2>4, <2>5, ImageStays DEF Numbers
<1>6. CASE TxCommit \/ TxRollback \/ TxRecover \/ ReplayDone \/ Crash \/ Quit \/ UNCHANGED vars
  BY <1>6, StoreKeepsImage
     DEF TxCommit, TxRollback, TxRecover, ReplayDone, Crash, Quit, Stop, vars
<1>7. CASE Replay
  <2>1. UNCHANGED <<jk, jt, jd, jn, js>> /\ js = "ACTIVE"
    BY <1>a, <1>7 DEF Replay, CountInv, ControlInv
  <2>2. \A k : Covering(k)' = Covering(k)
    BY <2>1 DEF Covering, Live
  <2>3. i \in 1..upto /\ upto \in Nat /\ Dead(jn + 1, upto)
    BY <1>a, <1>7 DEF Replay, ControlInv, StaleInv, Numbers
  <2>4. data' = data \/ (Live(i) /\ data' = [data EXCEPT ![jk[i]] = OldOf(i)])
    BY <1>7 DEF Replay, TypeOK
  <2>5. Live(i) => i \in Covering(jk[i])
    BY <1>a, <2>3 DEF Dead, Numbers, Covering
  <2>6. \A k \in Keys : Covering(k) = {} => data'[k] = data[k]
    BY <1>a, <2>4, <2>5 DEF TypeOK
  <2>7. \A j : OldOf(j)' = OldOf(j)
    BY <2>1 DEF OldOf
  <2> QED
    BY <1>a, <2>1, <2>2, <2>6, <2>7, ImageStays DEF Numbers
<1>8. CASE ClearJK
  <2>1. CASE UNCHANGED jk
    BY <1>8, <2>1, StoreKeepsImage DEF ClearJK
  <2>2. CASE pc' = "clearJT"
    BY <1>8, <2>2 DEF ClearJK
  <2> QED
    BY <1>8, <2>1, <2>2 DEF ClearJK
<1>9. CASE ClearJT \/ ClearJD
  <2>1. UNCHANGED <<data, jk, jn, js>> /\ i \in Slots /\ ~Live(i)
    BY <1>a, <1>9 DEF ClearJT, ClearJD, StaleInv, ControlInv, Numbers, Slots
  <2>2. \A j \in Slots : j # i => jt'[j] = jt[j] /\ jd'[j] = jd[j]
    BY <1>a, <1>9, <2>1 DEF ClearJT, ClearJD, TypeOK
  <2>4. \A j \in Slots : (jk'[j] # Absent /\ jt'[j] # "none") <=> Live(j)
    <3>1. jk[i] = Absent \/ jt[i] = "none" \/ FALSE
      BY <2>1 DEF Live
    <3>2. jt'[i] = jt[i] \/ jt'[i] = "none"
      BY <1>a, <1>9, <2>1 DEF ClearJT, ClearJD, TypeOK
    <3> QED
      BY <2>1, <2>2, <3>1, <3>2 DEF Live
  <2>5. \A j \in Slots : Live(j) => OldOf(j)' = OldOf(j)
    <3>1. jt' = jt \/ jd' = jd
      BY <1>9 DEF ClearJT, ClearJD
    <3> QED
      BY <2>1, <2>2 DEF OldOf
  <2>6. \A k : Covering(k)' = Covering(k) /\ \A j \in Covering(k) : j \in Slots /\ Live(j)
    BY <1>a, <2>1, <2>4 DEF Covering, Live, Numbers, Slots
  <2> QED
    BY <1>a, <2>1, <2>5, <2>6, ImageStays DEF Numbers
<1>10. CASE ClearJN
  <2>1. CASE UNCHANGED jn
    BY <1>10, <2>1, StoreKeepsImage DEF ClearJN
  <2>2. CASE jn' = 0
    <3>1. UNCHANGED <<data, jk, jt, jd, js>> /\ Dead(1, upto) /\ jn <= upto
      <4>1. Dead(1, i - 1) /\ jn <= upto /\ i > upto /\ i <= upto + 1
        BY <1>a, <1>10 DEF ClearJN, StaleInv, CountInv, ControlInv, Numbers
      <4> QED
        BY <1>a, <1>10, <4>1 DEF ClearJN, Numbers, Dead
    <3>2. \A k : Covering(k) = {}
      BY <1>a, <3>1 DEF Covering, Dead, Numbers
    <3>3. \A k : Covering(k)' = {}
      BY <2>2 DEF Covering
    <3> QED
      BY <1>a, <3>1, <3>2, <3>3, ImageStays DEF Numbers
  <2> QED
    BY <1>10, <2>1, <2>2 DEF ClearJN
<1>11. CASE ClearJS
  BY <1>a, <1>b, <1>11 DEF ClearJS, CountInv
<1> QED
  BY <1>1, <1>2, <1>3, <1>4, <1>5, <1>6, <1>7, <1>8, <1>9, <1>10, <1>11
     DEF Next, Step, Request

(* However often recovery starts over, and whatever clears were cut short:   *)
(* only deleting a JK record moves what a crash restores (tx_clear_journal). *)
THEOREM ReplayIdempotent == Spec => OnlyClearMovesImage
<1>1. TypeOK /\ JournalInv /\ (TypeOK /\ JournalInv)' /\ [Next]_vars
        => [damaged' = 0 /\ Image' # Image => pc = "clear" /\ pc' = "clearJT"]_vars
  BY StepImage, DamageIsForGood, JournalInvIsSound DEF Typed, JournalInv
<1> QED
  BY <1>1, JournalCorrect, PTL DEF Spec, OnlyClearMovesImage
-----------------------------------------------------------------------------
(* How many operations must have failed for an entry to survive the commit   *)
(* that passed it by: JK and JT each outlive one delete, and JN one more.    *)
(* JN never counts more than g_tx_seq, so the commit passes every entry.     *)
Survives(from, to) == \E j \in from..to : Live(j)
CommitInv ==
  /\ active = 1 /\ pc # "beginJN" => jn <= seq
  /\ caller = "commit" =>
       /\ pc \in {"clear", "clearJT", "clearJD"} /\ Survives(1, i - 1) => faults >= 2
       /\ pc = "clearJT" /\ Live(i) => faults >= 1
       /\ pc = "clearJD" /\ Live(i) => faults >= 2
       /\ pc = "clearJS" /\ Survives(1, jn) => faults >= 3

LEMMA InitCommit == Init => CommitInv
BY DEF Init, CommitInv

LEMMA StepCommit ==
  ASSUME Typed, Typed', CommitInv, [Next]_vars
  PROVE  CommitInv'
<1>a. /\ Numbers /\ Numbers' /\ ControlInv /\ ControlInv' /\ TypeOK
      /\ faults \in Nat /\ faults' \in Nat
  BY TypedNumbers, TypedNumbersNext DEF Typed, TypeOK
<1> USE DEF persistent, process, write, loop, bounds, history, Stopped, LogPoints, ClearPoints,
            Works, Fails, Misleads, MayFail, Go, Abandon, GiveUp, ForgetLoop, Numbers
<1>b. ASSUME caller' # "commit", active' = 1 /\ pc' # "beginJN" => jn' <= seq'
      PROVE  CommitInv'
  BY <1>b DEF CommitInv
<1>1. CASE TxBegin \/ BeginJN
  BY <1>a, <1>b, <1>1 DEF TxBegin, BeginJN, CommitInv, ControlInv
<1>2. ASSUME NEW k \in Keys, NEW v \in Payloads, KvWrite(k, v)
      PROVE  CommitInv'
  BY <1>a, <1>b, <1>2 DEF KvWrite, CommitInv, ControlInv
<1>3. CASE LogJK \/ LogJT \/ LogJD \/ LogJN \/ Write
  BY <1>a, <1>b, <1>3 DEF LogJK, LogJT, LogJD, LogJN, Write, CommitInv, ControlInv
<1>4. CASE TxCommit
  <2>1. ~Survives(1, 0)'
    BY DEF Survives
  <2> QED
    BY <1>a, <1>4, <2>1 DEF TxCommit, CommitInv
<1>5. CASE TxRollback \/ TxRecover \/ Replay \/ ReplayDone
  <2>1. ~Survives(1, 0)'
    BY DEF Survives
  <2> QED
    BY <1>a, <1>5, <2>1 DEF TxRollback, TxRecover, Replay, ReplayDone, CommitInv, ControlInv
<1>6. CASE ClearJK \/ ClearJT
  <2>1. jn' = jn /\ seq' = seq /\ active' = active /\ pc # "beginJN" /\ i \in Slots
    BY <1>a, <1>6 DEF ClearJK, ClearJT, ControlInv, Slots
  <2>2. CASE caller' # "commit"
    BY <1>b, <2>1, <2>2 DEF CommitInv
  <2>3. CASE caller' = "commit"
    <3>1. caller = "commit" /\ i' = i /\ (active = 1 => jn <= seq)
      BY <1>6, <2>1, <2>3 DEF ClearJK, ClearJT, CommitInv
    <3>2. \A j \in 1..i - 1 : jk'[j] = jk[j] /\ jt'[j] = jt[j]
      BY <1>a, <1>6, <2>1 DEF ClearJK, ClearJT, TypeOK, Slots
    <3>3. Survives(1, i - 1)' => Survives(1, i - 1)
      BY <3>1, <3>2 DEF Survives, Live
    <3>4. CASE ClearJK
      <4>1. pc' = "clearJT" /\ faults' >= faults /\ (Live(i)' => faults' >= 1)
        BY <1>a, <2>1, <2>3, <3>4 DEF ClearJK, Live, TypeOK
      <4> QED
        BY <1>a, <2>1, <3>1, <3>3, <3>4, <4>1 DEF ClearJK, CommitInv
    <3>5. CASE ClearJT
      <4>1. pc' = "clearJD" /\ faults' >= faults /\ (Live(i)' => Live(i) /\ faults' = faults + 1)
        BY <1>a, <2>1, <2>3, <3>5 DEF ClearJT, Live, TypeOK
      <4> QED
        BY <1>a, <2>1, <3>1, <3>3, <3>5, <4>1 DEF ClearJT, CommitInv
    <3> QED
      BY <1>6, <3>4, <3>5
  <2> QED
    BY <2>2, <2>3
<1>7. CASE ClearJD
  <2>1. /\ UNCHANGED <<jn, jk, jt, seq, active>> /\ pc = "clearJD" /\ faults' >= faults
    BY <1>a, <1>7 DEF ClearJD
  <2>2. CASE caller' # "commit"
    BY <1>b, <2>1, <2>2 DEF CommitInv
  <2>3. CASE caller' = "commit"
    <3>1. caller = "commit" /\ i' = i + 1 /\ pc' = "clear" /\ (active = 1 => jn <= seq)
      BY <1>7, <2>1, <2>3 DEF ClearJD, CommitInv
    <3>2. Survives(1, i - 1)' => Survives(1, i - 1) \/ Live(i)
      BY <1>a, <2>1, <3>1 DEF Survives, Live
    <3> QED
      BY <1>a, <2>1, <3>1, <3>2 DEF CommitInv
  <2> QED
    BY <2>2, <2>3
<1>8. CASE ClearJN
  <2>1. /\ UNCHANGED <<jk, jt, seq, active>> /\ pc = "clear" /\ jn' \in {0, jn} /\ faults' >= faults
    BY <1>a, <1>8 DEF ClearJN
  <2>2. CASE caller' # "commit"
    BY <1>a, <1>b, <2>1, <2>2 DEF CommitInv
  <2>3. CASE caller' = "commit"
    <3>1. /\ caller = "commit" /\ pc' = "clearJS" /\ active = 1 /\ jn <= seq
          /\ upto = seq /\ i = upto + 1
          /\ jn' = 0 \/ faults' = faults + 1
      BY <1>a, <1>8, <2>1, <2>3 DEF ClearJN, CommitInv, ControlInv
    <3>2. Survives(1, jn)' => jn' = jn /\ jn # 0 /\ Survives(1, i - 1)
      BY <1>a, <2>1, <3>1 DEF Survives, Live
    <3> QED
      BY <1>a, <2>1, <3>1, <3>2 DEF CommitInv
  <2> QED
    BY <2>2, <2>3
<1>9. CASE ClearJS
  BY <1>a, <1>b, <1>9 DEF ClearJS, CommitInv, ControlInv
<1>10. CASE Crash \/ Quit
  BY <1>a, <1>b, <1>10 DEF Crash, Quit, Stop
<1>11. CASE UNCHANGED vars
  BY <1>a, <1>11 DEF vars, CommitInv, Survives, Live
<1> QED
  BY <1>1, <1>2, <1>3, <1>4, <1>5, <1>6, <1>7, <1>8, <1>9, <1>10, <1>11
     DEF Next, Step, Request

(* A COMMIT that answered OK is final unless four deletes reported success   *)
(* without deleting (tx_commit, tx_clear_journal).                           *)
THEOREM CommitIsFinal == Spec => CommitSticks
<1>1. ASSUME TypeOK, CommitInv, [Next]_vars,
             caller = "commit", pc = "clearJS", pc' = "idle", active' = 0, faults' < 4
      PROVE  Image' = data'
  <2> USE DEF persistent, process, write, loop, bounds, history, Works, Misleads, Fails, MayFail, Abandon
  <2>1. CASE ClearJS
    <3>a. data' \in [Keys -> Payloads]
      BY <1>1, <2>1 DEF ClearJS, TypeOK
    <3>1. CASE js' = "none"
      BY <3>a, <3>1 DEF Image
    <3>2. CASE UNCHANGED js /\ faults' = faults + 1
      <4>1. ~Survives(1, jn) /\ UNCHANGED <<jn, jk, jt>>
        BY <1>1, <2>1, <3>2 DEF ClearJS, CommitInv, TypeOK
      <4>2. \A k : Covering(k)' = {}
        BY <4>1 DEF Survives, Covering, Live
      <4> QED
        BY <3>a, <4>2 DEF Image
    <3> QED
      BY <1>1, <2>1, <3>1, <3>2 DEF ClearJS, CommitInv
  <2>2. CASE UNCHANGED vars
    BY <1>1, <2>2 DEF vars
  <2> QED
    BY <1>1, <2>1, <2>2
       DEF Next, Step, Request, TxBegin, BeginJN, KvWrite, LogJK, LogJT, LogJD, LogJN, Write,
           TxCommit, TxRollback, TxRecover, Replay, ReplayDone, ClearJK, ClearJT, ClearJD, ClearJN,
           Crash, Quit, Stop, Stopped
<1>2. CommitInv /\ TypeOK /\ JournalInv /\ (TypeOK /\ JournalInv)' /\ [Next]_vars => CommitInv'
  BY StepCommit DEF Typed, JournalInv
<1> QED
  BY <1>1, <1>2, InitCommit, JournalCorrect, PTL DEF Spec, CommitSticks
-----------------------------------------------------------------------------
(* The refinement: with no failure, each step of storage.c is a step of      *)
(* TxContract under the mapping of TxRefinement, or changes nothing there.    *)

(* What only holds while nothing fails: JS is gone whenever no transaction   *)
(* is open, and only a rollback or a recovery replays the journal.           *)
QuietInv ==
  /\ faults = 0 /\ damaged = 0
  /\ pc = "idle" /\ active = 0 => js = "none"
  /\ pc = "replay" => caller # "commit"

LEMMA InitQuiet == Init => QuietInv
BY DEF Init, QuietInv, Stopped

(* With no failure left to happen every operation works.                     *)
LEMMA AllWorks ==
  ASSUME MaxFaults = 0, QuietInv
  PROVE  ~MayFail /\ ~Fails /\ ~Misleads
BY DEF QuietInv, MayFail, Fails, Misleads

LEMMA StepQuiet ==
  ASSUME MaxFaults = 0, Typed, Sound, QuietInv, [Next]_vars
  PROVE  QuietInv'
<1>a. /\ ControlInv /\ TypeOK /\ CountInv /\ ~Fails /\ ~Misleads
  BY AllWorks DEF Typed, Sound
<1> USE DEF persistent, process, write, loop, bounds, history, Stopped, LogPoints, ClearPoints,
            Works, Go, GiveUp, ForgetLoop, QuietInv
<1>1. CASE TxBegin \/ BeginJN
  BY <1>a, <1>1 DEF TxBegin, BeginJN, ControlInv
<1>2. ASSUME NEW k \in Keys, NEW v \in Payloads, KvWrite(k, v)
      PROVE  QuietInv'
  BY <1>a, <1>2 DEF KvWrite
<1>3. CASE LogJK \/ LogJT \/ LogJD \/ LogJN \/ Write
  BY <1>a, <1>3 DEF LogJK, LogJT, LogJD, LogJN, Write, ControlInv
<1>4. CASE TxCommit \/ TxRollback \/ TxRecover \/ Replay \/ ReplayDone
  BY <1>a, <1>4 DEF TxCommit, TxRollback, TxRecover, Replay, ReplayDone
<1>5. CASE ClearJK \/ ClearJT \/ ClearJD \/ ClearJN \/ ClearJS
  BY <1>a, <1>5 DEF ClearJK, ClearJT, ClearJD, ClearJN, ClearJS
<1>6. CASE Crash \/ Quit
  BY <1>a, <1>6 DEF Crash, Quit, Stop
<1>7. CASE UNCHANGED vars
  BY <1>7 DEF vars
<1> QED
  BY <1>1, <1>2, <1>3, <1>4, <1>5, <1>6, <1>7 DEF Next, Step, Request

(* Where the mapping puts each call.                                         *)
LEMMA PhaseIs ==
  /\ js = "none" => Phase = "quiet"
  /\ js = "ACTIVE" /\ caller = "commit" => Phase = "closing"
  /\ js = "ACTIVE" /\ active = 1 /\ caller = "none" => Phase = "open"
  /\ js = "ACTIVE" /\ caller \in {"rollback", "recover"} => Phase = "undoing"
  /\ js = "ACTIVE" /\ active = 0 /\ caller = "none" => Phase = "undoing"
BY DEF Phase

LEMMA PhaseIsNext ==
  /\ js' = "none" => Phase' = "quiet"
  /\ js' = "ACTIVE" /\ caller' = "commit" => Phase' = "closing"
  /\ js' = "ACTIVE" /\ active' = 1 /\ caller' = "none" => Phase' = "open"
  /\ js' = "ACTIVE" /\ caller' \in {"rollback", "recover"} => Phase' = "undoing"
  /\ js' = "ACTIVE" /\ active' = 0 /\ caller' = "none" => Phase' = "undoing"
BY DEF Phase

LEMMA InitRefines == Init => Torn!Init
<1> SUFFICES ASSUME Init
             PROVE  Torn!Init
  OBVIOUS
<1>1. Image = data
  BY DEF Init, Image
<1> QED
  BY <1>1, PhaseIs DEF Init, Torn!Init, Torn!Fresh

(* The store a crash leaves after a step: a store, each of whose records     *)
(* holds a value it held since the last image.                               *)
LEMMA CoveredNext ==
  ASSUME TypeOK', NEW k \in Keys, (Covering(k) # {})'
  PROVE  \E m \in 1..jn' : /\ m \in Slots /\ Live(m)' /\ jk'[m] = k
                           /\ OldOf(Min(Covering(k)))' = OldOf(m)' /\ OldOf(m)' \in Payloads
<1>1. (Covering(k) \in SUBSET Nat)' /\ (Covering(k) \subseteq Slots)'
  BY DEF Covering, TypeOK, Slots
<1>2. PICK m \in Covering(k)' : m = Min(Covering(k)')
  BY <1>1, LeastElement
<1>3. m \in Slots /\ m \in 1..jn' /\ Live(m)' /\ jk'[m] = k
  BY <1>1, <1>2 DEF Covering
<1>4. OldOf(Min(Covering(k)))' = OldOf(m)'
  BY <1>2 DEF OldOf
<1>5. OldOf(m)' \in Payloads
  BY <1>3 DEF OldOf, TypeOK, Payloads
<1> QED
  BY <1>3, <1>4, <1>5

LEMMA ImageIsStoreNext == TypeOK' => Image' \in [Keys -> Payloads]
<1> SUFFICES ASSUME TypeOK', NEW k \in Keys, (Covering(k) # {})'
             PROVE  OldOf(Min(Covering(k)))' \in Payloads
  BY DEF Image, TypeOK
<1> QED
  BY CoveredNext

LEMMA ImageHeldNext == TypeOK' /\ HeldInv' => \A k \in Keys : Image'[k] \in held'[k]
<1> SUFFICES ASSUME TypeOK', HeldInv', NEW k \in Keys
             PROVE  Image'[k] \in held'[k]
  OBVIOUS
<1>1. CASE js' = "none" \/ (Covering(k) = {})'
  BY <1>1 DEF Image, HeldInv
<1>2. CASE js' # "none" /\ (Covering(k) # {})'
  <2>1. Image'[k] = OldOf(Min(Covering(k)))'
    BY <1>2 DEF Image
  <2> QED
    BY <1>2, <2>1, CoveredNext DEF HeldInv
<1> QED
  BY <1>1, <1>2

(* With an empty journal a crash leaves what statements see.                 *)
LEMMA NothingToUndo ==
  ASSUME TypeOK, \A k \in Keys : Covering(k) = {}
  PROVE  Image = data
BY DEF Image, TypeOK

(* A step the contract allows.                                               *)
TornStep == [Torn!Next]_(Torn!vars)

LEMMA StepRefines ==
  ASSUME MaxFaults = 0, Typed, Typed', Sound, HeldInv, HeldInv', QuietInv, QuietInv', [Next]_vars
  PROVE  TornStep
<1>z. SUFFICES [Torn!Next]_(Torn!vars)
  BY DEF TornStep
<1>a. /\ Numbers /\ Numbers' /\ ControlInv /\ ControlInv' /\ TypeOK /\ TypeOK'
      /\ CountInv /\ StaleInv /\ EntryInv /\ ~Fails /\ ~Misleads
  BY TypedNumbers, TypedNumbersNext, AllWorks DEF Typed, Sound
<1>b. Image' = Image \/ (pc = "clear" /\ pc' = "clearJT")
  BY StepImage DEF QuietInv
<1>c. ASSUME UNCHANGED <<data, held, js, active, caller>>, pc # "clear"
      PROVE  UNCHANGED Torn!vars
  BY <1>b, <1>c DEF Torn!vars, Phase
<1> USE DEF persistent, process, write, loop, bounds, history, Stopped, LogPoints, ClearPoints,
            Works, Go, GiveUp, ForgetLoop
<1>1. CASE TxBegin
  <2>1. js = "none" /\ Phase = "quiet" /\ Phase' = "open" /\ Image' = Image
    BY <1>a, <1>b, <1>1, PhaseIs, PhaseIsNext DEF TxBegin, QuietInv, ControlInv
  <2>2. Torn!Begin
    BY <1>a, <1>1, <2>1 DEF TxBegin, Torn!Begin, Torn!Fresh
  <2> QED
    BY <2>2 DEF Torn!Next
<1>2. CASE BeginJN
  BY <1>a, <1>c, <1>2 DEF BeginJN
<1>3. ASSUME NEW k \in Keys, NEW v \in Payloads, KvWrite(k, v)
      PROVE  UNCHANGED Torn!vars
  BY <1>a, <1>c, <1>3 DEF KvWrite
<1>4. CASE LogJK \/ LogJT \/ LogJD \/ LogJN
  BY <1>a, <1>c, <1>4 DEF LogJK, LogJT, LogJD, LogJN
<1>5. CASE Write
  <2>1. /\ key \in Keys /\ val \in Payloads /\ Image' = Image
        /\ Phase = "open" /\ Phase' = "open"
    BY <1>a, <1>b, <1>5, PhaseIs, PhaseIsNext DEF Write, ControlInv, CountInv, TypeOK
  <2>2. Torn!Put(key, val)
    BY <1>a, <1>5, <2>1 DEF Write, Torn!Put
  <2> QED
    BY <2>1, <2>2 DEF Torn!Next
<1>6. CASE TxCommit
  <2>1. Phase = "open" /\ Phase' = "closing" /\ Image' = Image
    BY <1>a, <1>b, <1>6, PhaseIs, PhaseIsNext DEF TxCommit, ControlInv, CountInv
  <2>2. Torn!Commit
    BY <1>6, <2>1 DEF TxCommit, Torn!Commit
  <2> QED
    BY <2>2 DEF Torn!Next
<1>7. CASE TxRollback
  <2>1. Phase = "open" /\ Phase' = "undoing" /\ Image' = Image
    BY <1>a, <1>b, <1>7, PhaseIs, PhaseIsNext DEF TxRollback, ControlInv, CountInv
  <2>2. Torn!Undo
    BY <1>7, <2>1 DEF TxRollback, Torn!Undo
  <2> QED
    BY <2>2 DEF Torn!Next
<1>8. CASE TxRecover
  <2>1. UNCHANGED <<data, held>> /\ Image' = Image
    BY <1>a, <1>b, <1>8 DEF TxRecover
  <2>2. Phase' = Phase
    BY <1>a, <1>8, PhaseIs, PhaseIsNext DEF TxRecover, ControlInv
  <2> QED
    BY <2>1, <2>2 DEF Torn!vars
<1>9. CASE Replay
  <2>1. /\ UNCHANGED held /\ Image' = Image
        /\ Phase = "undoing" /\ Phase' = "undoing"
    BY <1>a, <1>b, <1>9, PhaseIs, PhaseIsNext DEF Replay, ControlInv, CountInv, QuietInv, Numbers
  <2>2. CASE UNCHANGED data
    BY <2>1, <2>2 DEF Torn!vars
  <2>3. CASE Live(i) /\ data' = [data EXCEPT ![jk[i]] = OldOf(i)]
    <3>1. i \in 1..upto /\ Dead(jn + 1, upto)
      BY <1>a, <1>9 DEF Replay, ControlInv, StaleInv, Numbers
    <3>2. i \in 1..jn
      BY <1>a, <2>3, <3>1 DEF Dead, Numbers
    <3>3. jk[i] \in Keys /\ OldOf(i) \in held[jk[i]]
      BY <1>a, <2>3, <3>2 DEF HeldInv, Live, TypeOK, Slots, Numbers
    <3>4. Torn!Restore(jk[i])
      BY <2>1, <2>3, <3>3 DEF Torn!Restore
    <3> QED
      BY <3>3, <3>4 DEF Torn!Next
  <2> QED
    BY <1>a, <1>9, <2>2, <2>3 DEF Replay
<1>10. CASE ReplayDone
  BY <1>c, <1>10 DEF ReplayDone
<1>11. CASE ClearJK
  <2>1. /\ UNCHANGED <<data, held, js, active, caller>>
        /\ Phase' = Phase /\ Phase \in {"closing", "undoing"}
    BY <1>a, <1>11, PhaseIs, PhaseIsNext DEF ClearJK, ControlInv, CountInv, Numbers
  <2>2. Image' \in [Keys -> Payloads]
    BY <1>a, ImageIsStoreNext
  <2>3. \A k \in Keys : Image'[k] \in held'[k]
    BY <1>a, ImageHeldNext
  <2>4. Torn!Tear
    BY <2>1, <2>2, <2>3 DEF Torn!Tear, Torn!Mixes
  <2> QED
    BY <2>4 DEF Torn!Next
<1>12. CASE ClearJT \/ ClearJD
  BY <1>a, <1>c, <1>12 DEF ClearJT, ClearJD
<1>13. CASE ClearJN
  <2>1. Dead(1, upto) /\ jn <= upto
    <3>1. Dead(1, i - 1) /\ jn <= upto /\ i > upto /\ i <= upto + 1
      BY <1>a, <1>13 DEF ClearJN, StaleInv, CountInv, ControlInv, Numbers
    <3> QED
      BY <1>a, <3>1 DEF Numbers, Dead
  <2>2. Image = data
    <3>1. \A k : Covering(k) = {}
      BY <1>a, <2>1 DEF Covering, Dead, Numbers
    <3> QED
      BY <1>a, <3>1, NothingToUndo
  <2>3. /\ Image' = Image /\ UNCHANGED data
        /\ Phase' = Phase /\ Phase \in {"closing", "undoing"}
    BY <1>a, <1>b, <1>13, PhaseIs, PhaseIsNext DEF ClearJN, ControlInv, CountInv, Numbers
  <2>4. Torn!Settle
    BY <1>a, <1>13, <2>2, <2>3 DEF ClearJN, Torn!Settle, Torn!Fresh
  <2> QED
    BY <2>4 DEF Torn!Next
<1>14. CASE ClearJS
  <2>1. Image = data
    <3>1. \A k : Covering(k) = {}
      BY <1>a, <1>14 DEF ClearJS, CountInv, Covering
    <3> QED
      BY <1>a, <3>1, NothingToUndo
  <2>2. /\ Image' = Image /\ UNCHANGED <<data, held>>
        /\ Phase \in {"closing", "undoing"} /\ Phase' = "quiet"
    BY <1>a, <1>b, <1>14, PhaseIs, PhaseIsNext DEF ClearJS, ControlInv, CountInv, Numbers
  <2>3. Torn!End
    BY <2>1, <2>2 DEF Torn!End
  <2> QED
    BY <2>3 DEF Torn!Next
<1>15. CASE Crash \/ Quit
  <2>1. UNCHANGED <<data, held, js>> /\ Image' = Image /\ active' = 0 /\ caller' = "none"
    BY <1>a, <1>b, <1>15 DEF Crash, Quit, Stop
  <2>2. CASE Phase' = Phase
    BY <2>1, <2>2 DEF Torn!vars
  <2>3. CASE Phase' # Phase
    <3>1. Phase' = "undoing" /\ Phase \in {"open", "closing"}
      BY <1>a, <2>1, <2>3, PhaseIs, PhaseIsNext DEF Numbers
    <3>2. Torn!Undo
      BY <2>1, <3>1 DEF Torn!Undo
    <3> QED
      BY <3>2 DEF Torn!Next
  <2> QED
    BY <2>2, <2>3
<1>16. CASE UNCHANGED vars
  BY <1>16 DEF vars, Torn!vars, Phase, Image, Covering, Live, OldOf
<1> QED
  BY <1>1, <1>2, <1>3, <1>4, <1>5, <1>6, <1>7, <1>8, <1>9, <1>10, <1>11, <1>12, <1>13, <1>14,
     <1>15, <1>16
     DEF Next, Step, Request

(* The transaction layer of storage.c implements the contract with tears: no *)
(* interleaving of statements, crashes and recoveries makes the visible or   *)
(* the recoverable store change in a way the contract does not allow.        *)
THEOREM ImplementsCorrect == MaxFaults = 0 => (Spec => ImplementsTornContract)
<1> SUFFICES ASSUME MaxFaults = 0
             PROVE  Spec => ImplementsTornContract
  OBVIOUS
<1>1. TypeOK /\ JournalInv /\ (TypeOK /\ JournalInv)' /\ QuietInv /\ [Next]_vars => QuietInv'
  BY StepQuiet, JournalInvIsSound DEF Typed, JournalInv, QuietInv
<1>2. TypeOK /\ JournalInv /\ (TypeOK /\ JournalInv)' /\ QuietInv /\ QuietInv' /\ HeldInv /\ [Next]_vars
        => HeldInv'
  BY StepHeld, JournalInvIsSound DEF Typed, JournalInv, QuietInv
<1>3. TypeOK /\ JournalInv /\ (TypeOK /\ JournalInv)' /\ QuietInv /\ QuietInv'
        /\ HeldInv /\ HeldInv' /\ [Next]_vars
        => TornStep
  BY StepRefines, JournalInvIsSound DEF Typed, JournalInv, QuietInv
<1> QED
  BY <1>1, <1>2, <1>3, InitQuiet, InitHeld, InitRefines, JournalCorrect, PTL
     DEF Spec, ImplementsTornContract, Torn!Spec, TornStep
=============================================================================
