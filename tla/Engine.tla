------------------------------- MODULE Engine -------------------------------
(***************************************************************************)
(* execute of src/src/process.c and the statements it runs: the catalog is *)
(* loaded, a mutating statement outside a transaction gets an implicit     *)
(* one, its writes follow one by one, and the implicit transaction is      *)
(* committed whatever the statement answered.                              *)
(*                                                                         *)
(* The transaction layer below is the contract TxJournal implements:       *)
(* changes are visible at once and a crash leaves base.  A crash while the *)
(* journal of an implicit transaction is being cleared is Tear.            *)
(***************************************************************************)
EXTENDS Tables

CONSTANTS
  TableDefs,     \* definitions a CREATE TABLE may give
  IndexNames,
  ColumnValues,  \* values statements use, "" included
  MaxStatements, \* bound: statements of one explicit transaction
  MaxCrashes,    \* bound: crashes of a behaviour
  MaxFaults,     \* bound: failed record operations of a behaviour
  MaxTears       \* bound: clears of a journal that a crash cut short

ASSUME EngineAssumption ==
  /\ MaxStatements \in Nat /\ MaxCrashes \in Nat /\ MaxFaults \in Nat /\ MaxTears \in Nat
  /\ TableDefs \subseteq TableDef /\ TableDefs # {} /\ IndexNames \subseteq STRING

VARIABLES
  kv,        \* the store as kv_get and kv_scan see it
  base,      \* the store a crash leaves once the next run has recovered
  mode,      \* g_tx_mode: "none", "user" or "implicit"
  implicit,  \* the local implicit_tx of execute, 1 or 0
  pc,        \* "idle" between statements, "run" inside one
  todo,      \* the writes the running statement still has to make
  reply,     \* what the last statement answered
  count,     \* statements of the open explicit transaction
  crashes, faults, tears

vars == <<kv, base, mode, implicit, pc, todo, reply, count, crashes, faults, tears>>

IsKey(k) ==
  \/ \E n \in 1..MaxTables : k = CKey(n)
  \/ \E d \in TableDefs :
       \/ k = TKey(d.name)
       \/ k[1] = "R" /\ k = RKey(d.name, k[3]) /\ k[3] \in Nat \ {0}
       \/ k[1] = "X" /\ k = XKey(d.name, k[3], k[4], k[5]) /\ k[3] \in IndexNames
          /\ k[4] \in ColumnValues /\ k[5] \in Nat \ {0}

TypeOK ==
  /\ \A s \in {kv, base} : \A k \in DOMAIN s : IsKey(k)
  /\ mode \in {"none", "user", "implicit"}
  /\ implicit \in 0..1
  /\ pc \in {"idle", "run"}
  /\ \A j \in 1..Len(todo) : todo[j].op \in {"put", "delete"} /\ IsKey(todo[j].key)
  /\ reply \in {"OK", "ERR"}
  /\ count \in 0..MaxStatements
  /\ crashes \in 0..MaxCrashes
  /\ faults \in 0..MaxFaults
  /\ tears \in 0..MaxTears

Init ==
  /\ kv = << >> /\ base = << >>
  /\ mode = "none" /\ implicit = 0 /\ pc = "idle" /\ todo = << >>
  /\ reply = "OK" /\ count = 0 /\ crashes = 0 /\ faults = 0 /\ tears = 0

Works == UNCHANGED <<crashes, faults, tears>>
Fault == faults < MaxFaults /\ faults' = faults + 1 /\ UNCHANGED <<crashes, tears>>
Answer(r) == reply' = r
-----------------------------------------------------------------------------
(* BEGIN, COMMIT and ROLLBACK.  A ROLLBACK that fails after it has undone   *)
(* some records is in TxJournal; here it fails before the first.            *)

Begin ==
  /\ pc = "idle"
  /\ \/ mode = "none" /\ Works /\ mode' = "user" /\ Answer("OK")
     \/ mode = "none" /\ Fault /\ Answer("ERR") /\ UNCHANGED mode
     \/ mode # "none" /\ Works /\ Answer("ERR") /\ UNCHANGED mode
  /\ UNCHANGED <<kv, base, implicit, pc, todo, count>>

Commit ==
  /\ pc = "idle"
  /\ \/ /\ mode # "none" /\ Works
        /\ base' = kv /\ mode' = "none" /\ count' = 0 /\ Answer("OK")
     \/ mode # "none" /\ Fault /\ Answer("ERR") /\ UNCHANGED <<base, mode, count>>
     \/ mode = "none" /\ Works /\ Answer("ERR") /\ UNCHANGED <<base, mode, count>>
  /\ UNCHANGED <<kv, implicit, pc, todo>>

Rollback ==
  /\ pc = "idle"
  /\ \/ /\ mode # "none" /\ Works
        /\ kv' = base /\ mode' = "none" /\ count' = 0 /\ Answer("OK")
     \/ mode # "none" /\ Fault /\ Answer("ERR") /\ UNCHANGED <<kv, mode, count>>
     \/ mode = "none" /\ Works /\ Answer("ERR") /\ UNCHANGED <<kv, mode, count>>
  /\ UNCHANGED <<base, implicit, pc, todo>>
-----------------------------------------------------------------------------
(* The other statements: load_catalog, the implicit tx_begin, then the      *)
(* statement's own checks on the tables it was given.                       *)

Refused == Answer("ERR") /\ UNCHANGED <<mode, implicit, pc, todo, count>>

(* Unread: the C records that one failed read keeps load_catalog from seeing. *)
(* They are skipped like records that are not there.                          *)
Unread == {{}} \cup {{n} : n \in CatalogSlots(kv)}
Loads(unread) == CatalogReadable(kv, unread)
Loaded(unread) == Catalog(kv, unread)

(* What a statement does with the tables it was given. *)
Outcome(ok, ops) == [ok |-> ok, ops |-> IF ok THEN ops ELSE << >>]

Accepted(outcome) ==
  /\ pc' = "run"
  /\ IF mode = "none"
       THEN mode' = "implicit" /\ implicit' = 1 /\ UNCHANGED count
       ELSE count' = count + 1 /\ UNCHANGED <<mode, implicit>>
  /\ todo' = outcome.ops
  /\ Answer(IF outcome.ok THEN "OK" ELSE "ERR")

(* outcome gives the outcome for each set of unread records. *)
Execute(outcome) ==
  /\ pc = "idle" /\ (mode # "none" => count < MaxStatements)
  /\ \/ Loads({}) /\ Works /\ Accepted(outcome[{}])
     \/ \E unread \in Unread \ {{}} :
          Loads(unread) /\ Fault /\ Accepted(outcome[unread])
     \/ ~Loads({}) /\ Works /\ Refused
     \/ (mode = "none" \/ CatalogSlots(kv) # {}) /\ Fault /\ Refused
  /\ UNCHANGED <<kv, base>>

Names == {d.name : d \in TableDefs}
ColumnNames == UNION {Range(d.cols) : d \in TableDefs}
Rows == UNION {[1..Len(d.cols) -> ColumnValues] : d \in TableDefs}
Wheres == {AllRows} \cup [col : ColumnNames, val : ColumnValues]

Insert(name, row) ==
  Execute([u \in Unread |-> Outcome(InsertOk(kv, Loaded(u), name, row),
                                    InsertOps(kv, Loaded(u), name, row))])
DeleteFrom(name, where) ==
  Execute([u \in Unread |-> Outcome(DeleteOk(kv, Loaded(u), name, where),
                                    DeleteOps(kv, Loaded(u), name, where))])
Update(name, col, val, where) ==
  Execute([u \in Unread |-> Outcome(UpdateOk(kv, Loaded(u), name, col, val, where),
                                    UpdateOps(kv, Loaded(u), name, col, val, where))])
CreateTable(def) ==
  Execute([u \in Unread |-> Outcome(CreateOk(Loaded(u), def), CreateOps(Loaded(u), def))])
CreateIndex(x, name, col) ==
  Execute([u \in Unread |-> Outcome(CreateIndexOk(Loaded(u), x, name, col),
                                    CreateIndexOps(kv, Loaded(u), x, name, col))])
DropIndex(x) ==
  Execute([u \in Unread |-> Outcome(IndexOwner(Loaded(u), x) > 0,
                                    DropIndexOps(kv, Loaded(u), x))])
DropTable(name) ==
  Execute([u \in Unread |-> Outcome(DropOk(Loaded(u), name),
                                    DropOps(kv, Loaded(u), name))])

(* One kv_put or kv_delete.  When it fails the statement gives up where it  *)
(* is and answers ERR; a delete that cannot read the record reports success. *)
RunOp ==
  /\ pc = "run" /\ todo # << >>
  /\ \/ Works /\ kv' = Apply(kv, Head(todo)) /\ todo' = Tail(todo) /\ UNCHANGED reply
     \/ Fault /\ todo' = << >> /\ Answer("ERR") /\ UNCHANGED kv
     \/ Head(todo).op = "delete" /\ Fault /\ todo' = Tail(todo) /\ UNCHANGED <<kv, reply>>
  /\ UNCHANGED <<base, mode, implicit, pc, count>>

(* The end of execute: the implicit transaction is committed, also after a  *)
(* statement that failed.                                                   *)
Finish ==
  /\ pc = "run" /\ todo = << >>
  /\ pc' = "idle" /\ implicit' = 0
  /\ \/ implicit = 0 /\ Works /\ UNCHANGED <<base, mode, reply>>
     \/ implicit = 1 /\ Works /\ base' = kv /\ mode' = "none" /\ UNCHANGED reply
     \/ implicit = 1 /\ Fault /\ Answer("ERR") /\ UNCHANGED <<base, mode>>
  /\ UNCHANGED <<kv, todo, count>>
-----------------------------------------------------------------------------
(* The process stops and the next run recovers before it reads a statement. *)

Restart ==
  /\ mode' = "none" /\ implicit' = 0
  /\ pc' = "idle" /\ todo' = << >> /\ Answer("OK") /\ count' = 0

Rerun == kv' = base /\ UNCHANGED base /\ Restart

Crash ==
  /\ crashes < MaxCrashes
  /\ crashes' = crashes + 1 /\ UNCHANGED <<faults, tears>>
  /\ Rerun

Quit == pc = "idle" /\ Works /\ Rerun

(* A crash inside tx_clear_journal, which takes away the first entries first *)
(* and JN and JS last: the next start undoes the entries that are left.  If  *)
(* the clear was that of the commit, the writes made so far stay and those   *)
(* still in todo are undone.  If it was that of a recovery, which had undone *)
(* everything, the keys of the next n writes go back to what they hold now   *)
(* and the others to base.  One step stands for the rest of the statement,   *)
(* the crash or crashes and the start that follows.                          *)
UndoneTo(n) ==
  LET keys == {todo[j].key : j \in 1..n}
  IN  [k \in (DOMAIN kv \cap keys) \cup (DOMAIN base \ keys) |->
         IF k \in keys THEN kv[k] ELSE base[k]]

Tear ==
  /\ pc = "run" /\ implicit = 1
  /\ tears < MaxTears
  /\ tears' = tears + 1 /\ UNCHANGED <<crashes, faults>>
  /\ \/ base' = kv
     \/ \E n \in 1..Len(todo) : base' = UndoneTo(n)
  /\ kv' = base'
  /\ Restart

Statement ==
  \/ \E name \in Names, row \in Rows : Insert(name, row)
  \/ \E name \in Names, where \in Wheres : DeleteFrom(name, where)
  \/ \E name \in Names, col \in ColumnNames, val \in ColumnValues, where \in Wheres :
       Update(name, col, val, where)
  \/ \E def \in TableDefs : CreateTable(def)
  \/ \E x \in IndexNames, name \in Names, col \in ColumnNames : CreateIndex(x, name, col)
  \/ \E x \in IndexNames : DropIndex(x)
  \/ \E name \in Names : DropTable(name)

Next == Begin \/ Commit \/ Rollback \/ Statement \/ RunOp \/ Finish \/ Crash \/ Tear \/ Quit

Spec == Init /\ [][Next]_vars
-----------------------------------------------------------------------------
(* The stores the engine may leave behind: between statements the visible    *)
(* one and the one a crash leaves, which no step inside a statement changes. *)
(* Sound they are while no record operation has failed and no clear was cut  *)
(* short: execute commits what a failed statement did, and a Tear may part   *)
(* the records of a catalog.  What stays true then is OthersKept.            *)
Whole == faults = 0 /\ tears = 0
Settled == IF pc = "idle" THEN {kv, base} ELSE {}

(* Catalog slots are dense, every T record is listed once, and there are no *)
(* rows or index records of a table that is not listed: save_catalog, DROP  *)
(* and the implicit transactions leave nothing orphaned and nothing         *)
(* unreadable (load_catalog would refuse every later statement).            *)
CatalogOf(s) ==
  LET slots == CatalogSlots(s)
      listed == {s[CKey(n)] : n \in slots}
  IN  /\ slots = 1..Cardinality(slots)
      /\ Cardinality(listed) = Cardinality(slots)
      /\ \A k \in DOMAIN s : k[1] # "C" => k[2] \in listed
      /\ \A name \in listed : TKey(name) \in DOMAIN s
CatalogSound == Whole => \A s \in Settled : CatalogOf(s)

(* PRIMARY KEY and FOREIGN KEY hold in every store that outlives a          *)
(* statement, whatever was inserted, updated, deleted or dropped in which   *)
(* order (cmd_insert, cmd_delete, cmd_update, cmd_drop, row_is_referenced). *)
KeysOf(s) ==
  LET tables == Catalog(s, {})
  IN  \A j \in 1..Len(tables) :
        LET t == tables[j]
            rows == LoadRows(s, t)
        IN  /\ t.pk > 0 => /\ \A r \in 1..Len(rows) : rows[r][t.pk] # Empty
                           /\ IsInjective([r \in 1..Len(rows) |-> rows[r][t.pk]])
            /\ \A r \in 1..Len(rows) : CheckForeignKeys(s, tables, t, rows[r])
KeysSound == Whole => \A s \in Settled : KeysOf(s)

(* An indexed SELECT prints exactly the rows the full scan would, each      *)
(* once: the index records agree with the rows they were rebuilt from, slot *)
(* by slot (save_rows, rebuild_indexes, CREATE INDEX, DROP INDEX).          *)
SelectsAgree(s) ==
  \A t \in Range(Catalog(s, {})), v \in ColumnValues : \A x \in Range(t.ixs) :
    LET where == [col |-> t.cols[x.col], val |-> v]
    IN  IndexSelect(s, t, where) = ScanSelect(s, t, where)
IndexSound == Whole => \A s \in Settled : SelectsAgree(s)

(* A statement on its own changes one table at most, its name in the        *)
(* catalog, its definition, rows and indexes; and either the definition of a *)
(* table or its rows.  Each CREATE and DROP writes all definitions anew, and *)
(* DROP INDEX finds its table by the name of an index, which several tables  *)
(* may have (save_catalog, cmd_drop_index, cmd_create_index).                *)
Listed(s) == {s[CKey(n)] : n \in CatalogSlots(s)}
RecordsOf(s, name) == Restrict(s, {k \in DOMAIN s : k[1] # "C" /\ k[2] = name})
RowsOf(s, name) == Restrict(s, {k \in DOMAIN s : k[1] = "R" /\ k[2] = name})
SameTable(s, z, name) ==
  (name \in Listed(s) <=> name \in Listed(z)) /\ RecordsOf(s, name) = RecordsOf(z, name)
DefinitionOrRows(s, z, name) ==
  name \in Listed(s) \cap Listed(z) =>
    s[TKey(name)] = z[TKey(name)] \/ RowsOf(s, name) = RowsOf(z, name)
ChangesOneTable ==
  [][(Whole' /\ pc = "run" /\ pc' = "idle" /\ implicit = 1) =>
       \E name \in Names :
         /\ \A other \in Names \ {name} : SameTable(base, base', other)
         /\ DefinitionOrRows(base, base', name)]_vars

(* README, Transaction Support: a statement outside a transaction "either   *)
(* finishes with its journal cleared or can be recovered on the next run".  *)
(* One that answered ERR did not finish, and execute commits what it did.   *)
FailedLeavesBase ==
  [][(pc = "run" /\ pc' = "idle" /\ implicit = 1 /\ reply = "ERR") => base' = base]_vars

(* Whatever fails, and wherever a crash falls, the one that cuts a commit or *)
(* a recovery short included: of all tables but one a statement on its own   *)
(* leaves the rows as they were, and the definitions, unless they are lost:  *)
(* also when it was given a catalog without a table that could not be read,  *)
(* or was rewriting the catalog when the process stopped (load_catalog,      *)
(* save_catalog, save_rows, cmd_drop, tx_clear_journal).                     *)
KeepsOrLoses(s, z, k) == k \in DOMAIN s \cap DOMAIN z => s[k] = z[k]
OthersKept ==
  [][(pc = "run" /\ pc' = "idle" /\ implicit = 1) =>
       \E name \in Names : \A other \in Names \ {name} :
         /\ RowsOf(base, other) = RowsOf(base', other)
         /\ KeepsOrLoses(base, base', TKey(other))]_vars
=============================================================================
