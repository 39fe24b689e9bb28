---------------------------- MODULE CatalogCodec ----------------------------
(***************************************************************************)
(* How table definitions travel through the catalog: save_catalog writes   *)
(* every definition as a text of tokens, and load_catalog decodes all of   *)
(* them again before each statement (src/src/catalog.c).  Column types and *)
(* lengths are left out; names, keys, indexes and references are kept.     *)
(* A name is a sequence of letters.                                        *)
(***************************************************************************)
EXTENDS Naturals, Sequences, SequencesExt, FiniteSetsExt

CONSTANTS
  TableNames, ColumnNames, IndexNames,
  MaxTables, MaxCols, MaxIndexes, MaxFks,   \* MAX_TABLES ... MAX_FKS
  MaxName,   \* MAX_NAME
  MaxToken   \* MAX_VALUE, the length an IX= or FK= token is cut to

(* Names are what valid_name lets pass; a ":" is not among their letters. *)
Colon == ":"
ASSUME NameAssumption ==
  /\ MaxTables \in Nat /\ MaxCols \in Nat /\ MaxIndexes \in Nat /\ MaxFks \in Nat
  /\ MaxName \in Nat /\ MaxToken \in Nat
  /\ \A n \in TableNames \cup ColumnNames \cup IndexNames :
       n \in Seq(STRING \ {Colon}) /\ Len(n) \in 1..MaxName

VARIABLES
  catalog,  \* the texts of the tables, one per catalog slot
  asked     \* history: the definitions the statements that answered OK asked for

vars == <<catalog, asked>>

Cut(s) == SubSeq(s, 1, Min({Len(s), MaxToken}))
Position(s, x) == SelectInSeq(s, LAMBDA y : y = x)
-----------------------------------------------------------------------------
(* (Slip: the PK= token is forgotten.) *)
EncodeWithoutPk(t) ==
  [name |-> t.name, pk |-> << >>, cols |-> t.cols,
   ix |-> [x \in 1..Len(t.ixs) |-> t.ixs[x].name \o <<Colon>> \o t.cols[t.ixs[x].col]],
   fk |-> << >>]

(* save_catalog *)
Encode(t) ==
  [name |-> t.name,
   pk |-> IF t.pk = 0 THEN << >> ELSE t.cols[t.pk],
   cols |-> t.cols,
   ix |-> [x \in 1..Len(t.ixs) |-> t.ixs[x].name \o <<Colon>> \o t.cols[t.ixs[x].col]],
   fk |-> [f \in 1..Len(t.fks) |->
             t.cols[t.fks[f].col] \o <<Colon>> \o t.fks[f].table \o <<Colon>> \o t.fks[f].ref]]

(* The parts of a token between its first colons. *)
Before(s) == SubSeq(s, 1, Position(s, Colon) - 1)
After(s) == SubSeq(s, Position(s, Colon) + 1, Len(s))
ValidName(s) == Len(s) \in 1..MaxName /\ Colon \notin Range(s)

(* decode_table_def, which fails when one token cannot be understood. *)
IxOk(cols, token) ==
  Position(Cut(token), Colon) > 0 /\ Position(cols, After(Cut(token))) > 0
FkOk(cols, token) ==
  LET rest == After(Cut(token))
  IN  /\ Position(Cut(token), Colon) > 0 /\ Position(rest, Colon) > 0
      /\ Position(cols, Before(Cut(token))) > 0
      /\ ValidName(Before(rest)) /\ ValidName(After(rest))
Decodable(text) ==
  /\ \A x \in 1..Len(text.ix) : IxOk(text.cols, text.ix[x])
  /\ \A f \in 1..Len(text.fk) : FkOk(text.cols, text.fk[f])

Decode(text) ==
  [name |-> text.name, cols |-> text.cols,
   pk |-> Position(text.cols, text.pk),
   ixs |-> [x \in 1..Len(text.ix) |->
             [name |-> Before(Cut(text.ix[x])),
              col |-> Position(text.cols, After(Cut(text.ix[x])))]],
   fks |-> [f \in 1..Len(text.fk) |->
             LET rest == After(Cut(text.fk[f]))
             IN  [col |-> Position(text.cols, Before(Cut(text.fk[f]))),
                  table |-> Before(rest), ref |-> After(rest)]]]

Loads == \A j \in 1..Len(catalog) : Decodable(catalog[j])
Tables == [j \in 1..Len(catalog) |-> Decode(catalog[j])]
Save(tables) == catalog' = [j \in 1..Len(tables) |-> Encode(tables[j])]
Find(name) == SelectInSeq(Tables, LAMBDA t : t.name = name)
-----------------------------------------------------------------------------
Init == catalog = << >> /\ asked = << >>

(* PRIMARY KEY inside the i-th column: a later column of that name is taken. *)
InlinePk(cols, i) == Max({j \in i..Len(cols) : cols[j] = cols[i]})

CreateTable(name, cols, pk, fks) ==
  LET t == [name |-> name, cols |-> cols, pk |-> pk, ixs |-> << >>, fks |-> fks]
  IN  /\ Loads /\ Find(name) = 0 /\ Len(catalog) < MaxTables
      /\ \A f \in 1..Len(fks) :
           LET p == Find(fks[f].table)
           IN  /\ p > 0
               /\ Position(Tables[p].cols, fks[f].ref) = Tables[p].pk
               /\ Tables[p].pk > 0
      /\ Save(Append(Tables, t))
      /\ asked' = Append(asked, t)

CreateIndex(x, name, col) ==
  LET j == Find(name)
      t == Tables[j]
      ix == [name |-> x, col |-> Position(t.cols, col)]
  IN  /\ Loads /\ j > 0
      /\ Len(t.ixs) < MaxIndexes
      /\ \A y \in 1..Len(t.ixs) : t.ixs[y].name # x
      /\ ix.col > 0
      /\ Save([Tables EXCEPT ![j].ixs = Append(@, ix)])
      /\ asked' = [asked EXCEPT ![j].ixs = Append(@, ix)]

DropIndex(x) ==
  LET j == SelectInSeq(Tables, LAMBDA t : \E y \in 1..Len(t.ixs) : t.ixs[y].name = x)
      y == SelectInSeq(Tables[j].ixs, LAMBDA ix : ix.name = x)
  IN  /\ Loads /\ j > 0
      /\ Save([Tables EXCEPT ![j].ixs = RemoveAt(@, y)])
      /\ asked' = [asked EXCEPT ![j].ixs = RemoveAt(@, y)]

DropTable(name) ==
  LET j == Find(name)
  IN  /\ Loads /\ j > 0
      /\ \A c \in (1..Len(catalog)) \ {j}, f \in 1..MaxFks :
           f <= Len(Tables[c].fks) => Tables[c].fks[f].table # name
      /\ Save(RemoveAt(Tables, j))
      /\ asked' = RemoveAt(asked, j)

(* Every statement is refused from now on: ERR CANNOT READ CATALOG. *)
Refuse == ~Loads /\ UNCHANGED vars

ColumnLists == UNION {[1..n -> ColumnNames] : n \in 1..MaxCols}
Pks(cols) ==
  {0} \cup {InlinePk(cols, n) : n \in 1..Len(cols)}
  \cup {Position(cols, c) : c \in Range(cols)}   \* PRIMARY KEY (c) after all columns
Fks(cols) ==
  {<< >>} \cup
  {<<[col |-> Position(cols, c), table |-> t, ref |-> r]>> :
     c \in Range(cols), t \in TableNames, r \in ColumnNames}

Next ==
  \/ \E name \in TableNames, cols \in ColumnLists :
       \E pk \in Pks(cols), fks \in Fks(cols) : CreateTable(name, cols, pk, fks)
  \/ \E x \in IndexNames, name \in TableNames, col \in ColumnNames : CreateIndex(x, name, col)
  \/ \E x \in IndexNames : DropIndex(x)
  \/ \E name \in TableNames : DropTable(name)
  \/ Refuse

Spec == Init /\ [][Next]_vars
-----------------------------------------------------------------------------
(* A definition survives when the names of each index and of each reference *)
(* fit one token together and its column names are distinct.                *)
Fits(t) ==
  /\ IsInjective(t.cols)
  /\ \A x \in 1..Len(t.ixs) :
       Len(t.ixs[x].name) + Len(t.cols[t.ixs[x].col]) + 1 <= MaxToken
  /\ \A f \in 1..Len(t.fks) :
       Len(t.cols[t.fks[f].col]) + Len(t.fks[f].table) + Len(t.fks[f].ref) + 2 <= MaxToken

(* Over any sequence of DDL statements, each of which decodes and rewrites  *)
(* the whole catalog, tables whose tokens fit are still defined as asked,   *)
(* and one that does not fit is the only way to make the catalog unreadable.*)
CatalogKeeps ==
  /\ ~Loads => \E j \in 1..Len(asked) : ~Fits(asked[j])
  /\ \A j \in 1..Len(asked) : Fits(asked[j]) => Decode(catalog[j]) = asked[j]

(* README, Limitations: "Table, column, and index names may have at most 16 *)
(* characters": with such names the catalog can be read back.  The second   *)
(* of two names that share an IX= or FK= token loses its end.               *)
NamesKeep == Loads
=============================================================================
