------------------------------- MODULE Tables -------------------------------
(***************************************************************************)
(* How the engine lays out catalog, rows and indexes in the key-value      *)
(* store (src/src/catalog.c, src/src/rows.c), and which record operations  *)
(* each statement performs (src/src/mutate.c, src/src/schema.c).           *)
(*                                                                         *)
(* A store is a function from record keys to record contents:              *)
(*   <<"C", n>>             the name of the n-th table                     *)
(*   <<"T", table>>         its definition                                 *)
(*   <<"R", table, n>>      its n-th row, a sequence of values             *)
(*   <<"X", table, index, value, n>>  "row n holds value", no content      *)
(* The texts of definitions and rows are modelled elsewhere; here a record *)
(* holds what its decoder returns.                                         *)
(*                                                                         *)
(* Definitions marked "(Slip: ...)" are no part of the specification: each *)
(* is a wrong variant of the definition after it, which a property notices.*)
(***************************************************************************)
EXTENDS Integers, Sequences, SequencesExt

CONSTANTS
  MaxTables,    \* MAX_TABLES
  MaxIndexes,   \* MAX_INDEXES
  Empty,        \* the value ""
  IntValues     \* the values an INT column accepts (validate_value)

ASSUME LimitsAssumption == MaxTables \in Nat \ {0} /\ MaxIndexes \in Nat

CKey(n) == <<"C", n>>
TKey(t) == <<"T", t>>
RKey(t, n) == <<"R", t, n>>
(* The code keeps 18 characters of v here, and compares the row it fetches. *)
XKey(t, x, v, n) == <<"X", t, x, v, n>>

(* A table definition, struct TableDef: name, columns and their types, the   *)
(* column of the primary key or 0, the indexes and the foreign keys.         *)
TableDef ==
  [name : STRING, cols : Seq(STRING), types : Seq(STRING), pk : Nat,
   ixs : Seq([name : STRING, col : Nat]),
   fks : Seq([col : Nat, table : STRING, ref : STRING])]

(* One logged write: kv_put of data under key, or kv_delete of key. *)
Put(key, data) == [op |-> "put", key |-> key, data |-> data]
Delete(key) == [op |-> "delete", key |-> key]
Apply(s, o) ==
  IF o.op = "put" THEN [k \in DOMAIN s \cup {o.key} |-> IF k = o.key THEN o.data ELSE s[k]]
  ELSE Restrict(s, DOMAIN s \ {o.key})

(* The members of a finite set of numbers, the least first: the order of a scan. *)
Ascending(S) ==
  CHOOSE f \in [1..Cardinality(S) -> S] : \A i, j \in 1..Cardinality(S) : i < j => f[i] < f[j]
-----------------------------------------------------------------------------
(* Catalog.  tables is the array of definitions load_catalog fills.         *)

CatalogSlots(s) == {n \in 1..MaxTables : CKey(n) \in DOMAIN s}
(* unread: the slots whose C record cannot be read; load_catalog skips them. *)
CatalogReadable(s, unread) ==
  \A n \in CatalogSlots(s) \ unread : TKey(s[CKey(n)]) \in DOMAIN s
Catalog(s, unread) ==
  LET slots == Ascending(CatalogSlots(s) \ unread)
  IN  [j \in 1..Len(slots) |-> s[TKey(s[CKey(slots[j])])]]

SaveCatalog(tables) ==
  [n \in 1..MaxTables |-> Delete(CKey(n))]
  \o FlattenSeq([j \in 1..Len(tables) |->
       << Put(CKey(j), tables[j].name), Delete(TKey(tables[j].name)),
          Put(TKey(tables[j].name), tables[j]) >>])

(* Positions in C arrays count from 1 here; 0 is "not found". *)
FindTable(tables, name) == SelectInSeq(tables, LAMBDA t : t.name = name)
FindCol(t, name) == SelectInSeq(t.cols, LAMBDA c : c = name)
FindIndexName(t, name) == SelectInSeq(t.ixs, LAMBDA x : x.name = name)
FindIndexCol(t, c) == SelectInSeq(t.ixs, LAMBDA x : x.col = c)
-----------------------------------------------------------------------------
(* Rows and indexes. *)

RowSlots(s, name) == {k[3] : k \in {k \in DOMAIN s : k[1] = "R" /\ k[2] = name}}
IndexKeys(s, name) == {k \in DOMAIN s : k[1] = "X" /\ k[2] = name}
SlotSeq(s, name) == Ascending(RowSlots(s, name))

LoadRows(s, t) ==
  LET slots == SlotSeq(s, t.name)
  IN  [j \in 1..Len(slots) |-> s[RKey(t.name, slots[j])]]

DeleteIndexRows(s, t) ==
  LET keys == SetToSeq(IndexKeys(s, t.name))
  IN  [j \in 1..Len(keys) |-> Delete(keys[j])]

(* The slot of a row is taken to be its position in the scan. *)
PutIndexRows(t, rows) ==
  FlattenSeq([x \in 1..Len(t.ixs) |->
    [r \in 1..Len(rows) |-> Put(XKey(t.name, t.ixs[x].name, rows[r][t.ixs[x].col], r), "")]])

(* (Slip: the old index records stay.) *)
RebuildIndexesOver(s, t, rows) == PutIndexRows(t, rows)
RebuildIndexes(s, t, rows) == DeleteIndexRows(s, t) \o PutIndexRows(t, rows)

(* (Slip: slots count from 0.) *)
SaveRowsFromZero(s, t, rows) ==
  [r \in 1..Len(rows) |-> Put(RKey(t.name, r - 1), rows[r])] \o RebuildIndexes(s, t, rows)
(* (Slip: old rows go by a prefix without the name of the table.) *)
SaveRowsOfAll(s, t, rows) ==
  LET keys == SetToSeq({k \in DOMAIN s : k[1] = "R"})
  IN  [j \in 1..Len(keys) |-> Delete(keys[j])]
      \o [r \in 1..Len(rows) |-> Put(RKey(t.name, r), rows[r])]
      \o RebuildIndexes(s, t, rows)
SaveRows(s, t, rows) ==
  LET slots == SlotSeq(s, t.name)
  IN  [j \in 1..Len(slots) |-> Delete(RKey(t.name, slots[j]))]
      \o [r \in 1..Len(rows) |-> Put(RKey(t.name, r), rows[r])]
      \o RebuildIndexes(s, t, rows)

FindPkDuplicate(t, rows, value) == SelectInSeq(rows, LAMBDA r : r[t.pk] = value)

FkValueExists(s, tables, fk, value) ==
  LET p == FindTable(tables, fk.table)
  IN  /\ p > 0
      /\ FindCol(tables[p], fk.ref) > 0
      /\ tables[p].pk = FindCol(tables[p], fk.ref)
      /\ FindPkDuplicate(tables[p], LoadRows(s, tables[p]), value) > 0

CheckForeignKeys(s, tables, t, row) ==
  \A f \in 1..Len(t.fks) :
    row[t.fks[f].col] # Empty /\ FkValueExists(s, tables, t.fks[f], row[t.fks[f].col])

RowIsReferenced(s, tables, t, value) ==
  \E c \in 1..Len(tables) : \E f \in 1..Len(tables[c].fks) :
    LET fk == tables[c].fks[f]
    IN  /\ fk.table = t.name /\ fk.ref = t.cols[t.pk]
        /\ \E r \in 1..Len(LoadRows(s, tables[c])) :
             LoadRows(s, tables[c])[r][fk.col] = value

ValidateValue(t, c, value) == t.types[c] = "I" => value \in IntValues
-----------------------------------------------------------------------------
(* WHERE clauses: every row, or the rows with one value in one column. *)

AllRows == [col |-> "", val |-> Empty]
WhereOk(t, where) ==
  where # AllRows =>
    FindCol(t, where.col) > 0 /\ ValidateValue(t, FindCol(t, where.col), where.val)
WhereMatch(t, row, where) == where = AllRows \/ row[FindCol(t, where.col)] = where.val

(* SELECT * FROM t WHERE col = val, as the bag of rows it prints: cmd_select *)
(* scans the rows, or walks all keys of an index on the column and fetches   *)
(* each row by the slot in the key.                                          *)
ScanSelect(s, t, where) ==
  [n \in {n \in RowSlots(s, t.name) : WhereMatch(t, s[RKey(t.name, n)], where)} |-> 1]

IndexSelect(s, t, where) ==
  LET x == t.ixs[FindIndexCol(t, FindCol(t, where.col))].name
      hits == {k \in IndexKeys(s, t.name) :
                 /\ k[3] = x /\ RKey(t.name, k[5]) \in DOMAIN s
                 /\ WhereMatch(t, s[RKey(t.name, k[5])], where)}
  IN  [n \in {k[5] : k \in hits} |-> Cardinality({k \in hits : k[5] = n})]
-----------------------------------------------------------------------------
(* The statements: when one is accepted, and the writes it then makes.     *)

InsertOk(s, tables, name, row) ==
  LET j == FindTable(tables, name)
      t == tables[j]
  IN  /\ j > 0
      /\ Len(row) = Len(t.cols)
      /\ \A c \in 1..Len(row) : ValidateValue(t, c, row[c])
      /\ t.pk > 0 => row[t.pk] # Empty /\ FindPkDuplicate(t, LoadRows(s, t), row[t.pk]) = 0
      /\ CheckForeignKeys(s, tables, t, row)

InsertOps(s, tables, name, row) ==
  LET t == tables[FindTable(tables, name)]
  IN  SaveRows(s, t, Append(LoadRows(s, t), row))

(* (Slip: references to the rows are not looked for.) *)
DeleteOkUnchecked(s, tables, name, where) ==
  /\ FindTable(tables, name) > 0
  /\ WhereOk(tables[FindTable(tables, name)], where)

DeleteOk(s, tables, name, where) ==
  LET j == FindTable(tables, name)
      t == tables[j]
      rows == LoadRows(s, t)
  IN  /\ j > 0
      /\ WhereOk(t, where)
      /\ t.pk > 0 => \A r \in 1..Len(rows) :
           WhereMatch(t, rows[r], where) => ~RowIsReferenced(s, tables, t, rows[r][t.pk])

DeleteOps(s, tables, name, where) ==
  LET t == tables[FindTable(tables, name)]
      rows == LoadRows(s, t)
      kept == Ascending({r \in 1..Len(rows) : ~WhereMatch(t, rows[r], where)})
  IN  SaveRows(s, t, [j \in 1..Len(kept) |-> rows[kept[j]]])

Updated(t, row, col, val, where) ==
  IF WhereMatch(t, row, where) THEN [row EXCEPT ![FindCol(t, col)] = val] ELSE row

UpdateOk(s, tables, name, col, val, where) ==
  LET j == FindTable(tables, name)
      t == tables[j]
      rows == LoadRows(s, t)
  IN  /\ j > 0
      /\ FindCol(t, col) > 0 /\ FindCol(t, col) # t.pk
      /\ ValidateValue(t, FindCol(t, col), val)
      /\ WhereOk(t, where)
      /\ \A r \in 1..Len(rows) :
           WhereMatch(t, rows[r], where)
           => CheckForeignKeys(s, tables, t, Updated(t, rows[r], col, val, where))

UpdateOps(s, tables, name, col, val, where) ==
  LET t == tables[FindTable(tables, name)]
      rows == LoadRows(s, t)
  IN  SaveRows(s, t, [r \in 1..Len(rows) |-> Updated(t, rows[r], col, val, where)])

CreateOk(tables, def) ==
  /\ FindTable(tables, def.name) = 0
  /\ Len(tables) < MaxTables
  /\ Len(def.cols) >= 1
  /\ def.pk \in 0..Len(def.cols)
  /\ \A f \in 1..Len(def.fks) :
       LET fk == def.fks[f]
           p == FindTable(tables, fk.table)
       IN  /\ fk.col \in 1..Len(def.cols)
           /\ p > 0
           /\ FindCol(tables[p], fk.ref) > 0
           /\ tables[p].pk = FindCol(tables[p], fk.ref)
           /\ def.types[fk.col] = tables[p].types[tables[p].pk]

CreateOps(tables, def) == SaveCatalog(Append(tables, [def EXCEPT !.ixs = <<>>]))

CreateIndexOk(tables, x, name, col) ==
  LET j == FindTable(tables, name)
      t == tables[j]
  IN  /\ j > 0
      /\ Len(t.ixs) < MaxIndexes
      /\ FindIndexName(t, x) = 0
      /\ FindCol(t, col) > 0

CreateIndexOps(s, tables, x, name, col) ==
  LET j == FindTable(tables, name)
      t == [tables[j] EXCEPT !.ixs = Append(@, [name |-> x, col |-> FindCol(tables[j], col)])]
  IN  RebuildIndexes(s, t, LoadRows(s, t)) \o SaveCatalog([tables EXCEPT ![j] = t])

(* The first table that has an index of this name. *)
IndexOwner(tables, x) == SelectInSeq(tables, LAMBDA t : FindIndexName(t, x) > 0)

(* (Slip: every table loses its index of that name.) *)
DropIndexOpsAll(s, tables, x) ==
  LET t == tables[IndexOwner(tables, x)]
  IN  DeleteIndexRows(s, t)
      \o SaveCatalog([j \in 1..Len(tables) |->
            [tables[j] EXCEPT !.ixs = SelectSeq(@, LAMBDA ix : ix.name # x)]])
(* delete_index_rows runs twice, the second time inside rebuild_indexes; what *)
(* the first pass has deleted it does not find and leaves as it is.           *)
DropIndexOps(s, tables, x) ==
  LET j == IndexOwner(tables, x)
      t == [tables[j] EXCEPT !.ixs = RemoveAt(@, FindIndexName(tables[j], x))]
  IN  DeleteIndexRows(s, t) \o RebuildIndexes(s, t, LoadRows(s, t))
      \o SaveCatalog([tables EXCEPT ![j] = t])

DropOk(tables, name) ==
  LET j == FindTable(tables, name)
  IN  /\ j > 0
      /\ \A c \in (1..Len(tables)) \ {j} : \A f \in 1..Len(tables[c].fks) :
           tables[c].fks[f].table # name

(* (Slips: the rows stay; the index records stay.) *)
DropOpsRowsStay(s, tables, name) ==
  << Delete(TKey(name)) >> \o SaveCatalog(RemoveAt(tables, FindTable(tables, name)))
DropOpsIndexStays(s, tables, name) ==
  << Delete(TKey(name)) >>
  \o [r \in 1..Len(SlotSeq(s, name)) |-> Delete(RKey(name, SlotSeq(s, name)[r]))]
  \o SaveCatalog(RemoveAt(tables, FindTable(tables, name)))

DropOps(s, tables, name) ==
  LET j == FindTable(tables, name)
      slots == SlotSeq(s, name)
  IN  << Delete(TKey(name)) >>
      \o [r \in 1..Len(slots) |-> Delete(RKey(name, slots[r]))]
      \o DeleteIndexRows(s, tables[j])
      \o SaveCatalog(RemoveAt(tables, j))
=============================================================================
