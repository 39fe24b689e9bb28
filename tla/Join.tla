-------------------------------- MODULE Join --------------------------------
(***************************************************************************)
(* SELECT on two tables: cmd_select hands a text with the word JOIN to     *)
(* cmd_select_join, and cmd_explain to explain_select_join.  The tables are*)
(* the one of Select and another without indexes; either may be the left   *)
(* or the right one, or both.                                              *)
(*                                                                         *)
(* The pairs are found twice, first to measure them and then to print them.*)
(***************************************************************************)
EXTENDS Select

CONSTANTS
  Other,      \* name of the other table
  OtherCols,  \* its columns, none of type INT
  Others,     \* contents it may have
  JoinTables, \* contents of the table of Select in a join
  JoinAsked,  \* questions, see SpellJoin
  MaxName     \* MAX_NAME

ASSUME JoinAssumption ==
  /\ Other # Table /\ IntCols \cap Range(OtherCols) = {} /\ MaxName \in Nat \ {0}
  /\ AreContents(Cols, JoinTables) /\ AreContents(OtherCols, Others)

VARIABLES
  wanted,  \* the join the user means, or None
  others,  \* the other table
  parts,   \* the parts the text was cut into
  join,    \* what the parser made of them
  lefts,   \* rows of the left table
  l,       \* the left row that is looked up next
  pass     \* 1: measure, 2: print

joinInput == <<wanted, others>>
joinVars == <<vars, joinInput, parts, join, lefts, l, pass>>
selectOnly == <<input, cut, plan, byIndex, out, groups, r>>
-----------------------------------------------------------------------------
(* A question and the text that says it.  A list item, a side of ON and the *)
(* column of WHERE is [side, col]; side 0 is an unqualified column.         *)
Dot == "."
Qualifier(w, side) ==
  IF side = 1 THEN (IF w.lalias = None THEN w.left ELSE w.lalias)
  ELSE IF w.ralias = None THEN w.right ELSE w.ralias
SpellCol(w, c) == IF c.side = 0 THEN c.col ELSE Qualifier(w, c.side) \o <<Dot>> \o c.col
SpellTable(w, name, alias) ==
  name \o SpellIf(alias # None, (IF w.as THEN <<"AS", Blank>> ELSE << >>) \o alias)
SpellJoin(w) ==
  LET item(k) == (IF k = 1 THEN << >> ELSE <<Comma>>) \o SpellCol(w, w.list[k])
  IN  <<"SELECT", Blank>>
      \o (IF w.list = None THEN <<"*">> ELSE FlattenSeq([k \in 1..Len(w.list) |-> item(k)]))
      \o <<Blank, "FROM", Blank>> \o SpellTable(w, w.left, w.lalias) \o SpellIf(w.kind # None, w.kind)
      \o <<Blank, "JOIN", Blank>> \o SpellTable(w, w.right, w.ralias)
      \o <<Blank, "ON", Blank>> \o SpellCol(w, w.on[1]) \o <<"=">> \o SpellCol(w, w.on[2])
      \o SpellIf(w.value # None,
                 <<"WHERE", Blank>> \o SpellCol(w, w.where) \o <<"=", Quote>> \o w.value \o <<Quote>>)
      \o SpellIf(w.tail # None, w.tail)

JoinInit ==
  \/ /\ Init /\ wanted = None /\ others = << >> /\ parts = None /\ join = None
     /\ lefts = << >> /\ l = 1 /\ pass = 1
  \/ /\ asked = None /\ wanted \in JoinAsked /\ text = SpellJoin(wanted)
     /\ rows \in JoinTables /\ others \in Others /\ indexed \in SUBSET Range(Cols)
     /\ phase = "typed" /\ cut = None /\ plan = None /\ byIndex = FALSE
     /\ queue = << >> /\ out = << >> /\ groups = << >> /\ r = 1 /\ printed = << >> /\ faults = 0
     /\ parts = None /\ join = None /\ lefts = << >> /\ l = 1 /\ pass = 1
-----------------------------------------------------------------------------
(* parse_qualified_col.  Table and column are cut to MAX_NAME characters     *)
(* before they are looked at, so what follows a longer column is lost.       *)
CutName(s) == SubSeq(s, 1, Min({Len(s), MaxName}))
NamesAt(b, dot) ==
  [table |-> CutName(SubSeq(b, 1, dot - 1)), col |-> CutName(SubSeq(b, dot + 1, Len(b)))]
Dotted(b) == NamesAt(b, FindI(b, Dot))
Qualified(s) == Dotted(CleanToken(CutValue(s)))
IsQualified(s) == LET q == Qualified(s) IN ValidName(q.table) /\ ValidName(q.col)

(* parse_alias_segment.  Any word before JOIN or ON is an alias. *)
AfterAs(t) == IF Len(t) > 1 /\ t[1] = "AS" /\ t[2] = Blank THEN LTrim(SubSeq(t, 3, Len(t))) ELSE t
Alias(s) == AfterAs(Trim(s))
AliasOk(s) == Trim(s) = None \/ ValidName(Alias(s))

(* The statement is cut at FROM, JOIN, ON and, within the condition, WHERE.  *)
(* The name of each table is at the start, what follows it is its alias.     *)
PartsOf(from, joined, on, where) ==
  [ok |-> /\ from.found /\ Len(from.before) > 0 /\ joined.found /\ on.found
          /\ ValidName(NameAt(LTrim(from.after))) /\ ValidName(NameAt(LTrim(joined.after)))
          /\ AliasOk(joined.before) /\ AliasOk(on.before),
   list |-> from.before,
   left |-> NameAt(LTrim(from.after)), lalias |-> Alias(joined.before),
   right |-> NameAt(LTrim(joined.after)), ralias |-> Alias(on.before),
   tail |-> on.after,
   filtered |-> where.found,
   on |-> IF where.found THEN where.before ELSE on.after,
   where |-> IF where.found THEN LTrim(where.after) ELSE None,
   tokens |-> IF where.found THEN Tokens(LTrim(where.after)) ELSE << >>]
CutAtWhere(from, joined, on) == PartsOf(from, joined, on, Split(on.after, "WHERE"))
CutAtOn(from, joined) == CutAtWhere(from, joined, Split(AfterName(LTrim(joined.after)), "ON"))
CutAtJoin(from) == CutAtOn(from, Split(AfterName(LTrim(from.after)), "JOIN"))

(* The two sides of a condition, the text on each side of its first "=". *)
OnText(on, side) ==
  IF side = 1 THEN SubSeq(on, 1, FindI(on, "=") - 1) ELSE SubSeq(on, FindI(on, "=") + 1, Len(on))
OnOk(on) == FindI(on, "=") > 0 /\ \A side \in 1..2 : IsQualified(OnText(on, side))
On(on, side) == Qualified(OnText(on, side))

(* name_matches, and the table a qualifier stands for; 0 is none. *)
Named(q, name, alias) == q = name \/ (alias # None /\ q = alias)
SideOf(p, q) ==
  IF Named(q, p.left, p.lalias) THEN 1 ELSE IF Named(q, p.right, p.ralias) THEN 2 ELSE 0
InOrderOn(p, on) ==
  Named(On(on, 1).table, p.left, p.lalias) /\ Named(On(on, 2).table, p.right, p.ralias)

Known == {Table, Other}
ColsOf(name) == IF name = Table THEN Cols ELSE OtherCols
RowsOf(name) == IF name = Table THEN rows ELSE others
NameOn(p, side) == IF side = 1 THEN p.left ELSE p.right
HasCol(p, side, col) == col \in Range(ColsOf(NameOn(p, side)))

(* parse_join_select_list *)
ItemOf(p, q) == [side |-> SideOf(p, q.table), col |-> q.col]
ItemOk(p, item) == item.side > 0 /\ HasCol(p, item.side, item.col)
Items(p, texts) == [k \in 1..Len(texts) |-> ItemOf(p, Qualified(texts[k]))]
ItemsOk(p, texts) ==
  /\ \A k \in 1..Len(texts) : IsQualified(texts[k])
  /\ \A item \in Range(Items(p, texts)) : ItemOk(p, item)
AllOf(p) ==
  [k \in 1..Len(ColsOf(p.left)) |-> [side |-> 1, col |-> ColsOf(p.left)[k]]]
  \o [k \in 1..Len(ColsOf(p.right)) |-> [side |-> 2, col |-> ColsOf(p.right)[k]]]
JoinListOk(p) == CleanToken(p.list) = <<"*">> \/ ItemsOk(p, ParseCsv(CleanToken(p.list)))
JoinList(p) ==
  IF CleanToken(p.list) = <<"*">> THEN AllOf(p) ELSE Items(p, ParseCsv(CleanToken(p.list)))

(* WHERE: the qualifier of its first token names the table, and is taken    *)
(* out of the text before the text is parsed.                               *)
WhereSide(p) ==
  IF p.tokens # << >> /\ TokensFit(p.tokens) /\ IsQualified(p.tokens[1])
    THEN SideOf(p, Qualified(p.tokens[1]).table) ELSE 0
WhereOn(p) ==
  ConditionOn(Range(ColsOf(NameOn(p, WhereSide(p)))),
    Qualified(p.tokens[1]).col \o SubSeq(p.where, Len(p.tokens[1]) + 1, Len(p.where)))

(* The checks of cmd_select_join, and what it understood. *)
IsJoinSelect(p) ==
  /\ p.ok /\ OnOk(p.on)
  /\ {p.left, p.right} \subseteq Known
  /\ p.filtered => WhereSide(p) > 0 /\ WhereOn(p) # None
  /\ InOrderOn(p, p.on)
  /\ JoinListOk(p)
  /\ \A side \in 1..2 : HasCol(p, side, On(p.on, side).col)
HasIndex(name, col) == name = Table /\ col \in indexed
JoinOf(p) ==
  [left |-> p.left, right |-> p.right,
   lcol |-> On(p.on, 1).col, rcol |-> On(p.on, 2).col,
   list |-> JoinList(p),
   side |-> IF p.filtered THEN WhereSide(p) ELSE 1,
   where |-> IF p.filtered THEN WhereOn(p) ELSE None,
   index |-> HasIndex(p.right, On(p.on, 2).col)]

(* explain_select_join cuts the text the same way, but for WHERE, and does   *)
(* not look at the list and the left column.  (Slip: it looks for an index   *)
(* on the left column.)                                                      *)
Explainable(p) ==
  /\ p.ok /\ OnOk(p.tail) /\ {p.left, p.right} \subseteq Known
  /\ InOrderOn(p, p.tail) /\ HasCol(p, 2, On(p.tail, 2).col)
ExplainJoinLeft(p) ==
  IF ~Explainable(p) THEN "none"
  ELSE IF HasIndex(p.left, On(p.tail, 1).col) THEN "index" ELSE "scan"
ExplainJoin(p) ==
  IF ~Explainable(p) THEN "none"
  ELSE IF HasIndex(p.right, On(p.tail, 2).col) THEN "index" ELSE "scan"
-----------------------------------------------------------------------------
CutJoin ==
  /\ phase = "typed" /\ IsJoin(text)
  /\ parts' = CutAtJoin(Split(AfterSelect(text), "FROM"))
  /\ phase' = "cut join"
  /\ UNCHANGED <<selectOnly, joinInput, queue, printed, faults, join, lefts, l, pass>>

(* The parts are understood and the left table is loaded. *)
JoinStart ==
  /\ phase = "cut join"
  /\ \/ /\ IsJoinSelect(parts)
        /\ join' = JoinOf(parts) /\ phase' = "join"
        /\ \/ Works /\ lefts' = RowsOf(join'.left)
           \/ Fails /\ lefts' = << >>
     \/ /\ phase' = "refused" /\ UNCHANGED <<join, lefts>>
        /\ \/ IsJoinSelect(parts) /\ Fails
           \/ ~IsJoinSelect(parts) /\ Works
  /\ UNCHANGED <<selectOnly, joinInput, parts, queue, printed, l, pass>>

(* Values are compared as texts, whatever their types.  (Slip: WHERE is      *)
(* asked of the left row only.)                                              *)
IsPairLeft(a, b) == a[join.lcol] = b[join.rcol] /\ (join.side = 1 => Matches(join.where, a))
IsPair(a, b) ==
  a[join.lcol] = b[join.rcol] /\ Matches(join.where, IF join.side = 1 THEN a ELSE b)
Line(a, b) ==
  [c \in 1..Len(join.list) |-> (IF join.list[c].side = 1 THEN a ELSE b)[join.list[c].col]]
PairLines(a, b) == IF pass = 2 /\ IsPair(a, b) THEN <<Line(a, b)>> ELSE << >>
EndPass ==
  /\ pass' = 2 /\ l' = 1
  /\ phase' = IF pass = 1 THEN "join" ELSE "joined"

(* A pass without an index: the right table is loaded, and all pairs are     *)
(* looked at.                                                                *)
NestedLoop ==
  /\ phase = "join" /\ ~join.index
  /\ \/ /\ \/ /\ Works
              /\ LET rights == RowsOf(join.right)
                     linesOf(m) == FlattenSeq([n \in 1..Len(rights) |-> PairLines(lefts[m], rights[n])])
                 IN  printed' = printed \o FlattenSeq([m \in 1..Len(lefts) |-> linesOf(m)])
           \/ Fails /\ UNCHANGED printed
        /\ EndPass
     \/ Fails /\ phase' = "refused" /\ UNCHANGED <<printed, pass, l>>
  /\ UNCHANGED <<selectOnly, joinInput, parts, join, lefts, queue>>

(* A pass with an index scans the whole index for each left row, ... *)
Lookup ==
  /\ phase = "join" /\ join.index /\ queue = << >> /\ l <= Len(lefts)
  /\ \/ Works /\ queue' \in IndexOrders(join.rcol) /\ l' = l + 1 /\ UNCHANGED phase
     \/ Fails /\ l' = l + 1 /\ UNCHANGED <<queue, phase>>
     \/ Fails /\ phase' = "refused" /\ UNCHANGED <<queue, l>>
  /\ UNCHANGED <<selectOnly, joinInput, parts, join, lefts, printed, pass>>

(* ... and loads the row of every slot.  (Slip: both passes print.) *)
FetchPairTwice ==
  /\ phase = "join" /\ queue # << >>
  /\ \/ /\ Works
        /\ LET b == rows[Head(queue)]
           IN  printed' = IF IsPair(lefts[l - 1], b) THEN Append(printed, Line(lefts[l - 1], b))
                          ELSE printed
     \/ Fails /\ UNCHANGED printed
  /\ queue' = Tail(queue)
  /\ UNCHANGED <<selectOnly, joinInput, parts, join, lefts, phase, l, pass>>
FetchPair ==
  /\ phase = "join" /\ queue # << >>
  /\ \/ Works /\ printed' = printed \o PairLines(lefts[l - 1], rows[Head(queue)])
     \/ Fails /\ UNCHANGED printed
  /\ queue' = Tail(queue)
  /\ UNCHANGED <<selectOnly, joinInput, parts, join, lefts, phase, l, pass>>

EndLookups ==
  /\ phase = "join" /\ join.index /\ queue = << >> /\ l > Len(lefts)
  /\ EndPass /\ Works
  /\ UNCHANGED <<selectOnly, joinInput, parts, join, lefts, queue, printed>>

JoinNext ==
  \/ Next /\ UNCHANGED <<joinInput, parts, join, lefts, l, pass>>
  \/ CutJoin \/ JoinStart \/ NestedLoop \/ Lookup \/ FetchPair \/ EndLookups

JoinSpec == JoinInit /\ [][JoinNext]_joinVars
-----------------------------------------------------------------------------
(* What was asked, said of the two tables.                                   *)
WantedList ==
  IF wanted.list # None THEN wanted.list ELSE AllOf([left |-> wanted.left, right |-> wanted.right])
Wanted(a, b) ==
  /\ a[wanted.on[1].col] = b[wanted.on[2].col]
  /\ wanted.value = None \/ (IF wanted.where.side = 1 THEN a ELSE b)[wanted.where.col] = wanted.value
WantedLine(a, b) ==
  [c \in 1..Len(WantedList) |-> (IF WantedList[c].side = 1 THEN a ELSE b)[WantedList[c].col]]
LinesFor(a) ==
  LET rights == RowsOf(wanted.right)
      found == SelectSeq([n \in 1..Len(rights) |-> n], LAMBDA n : Wanted(a, rights[n]))
  IN  [n \in 1..Len(found) |-> WantedLine(a, rights[found[n]])]
WantedLines ==
  FlattenSeq([m \in 1..Len(RowsOf(wanted.left)) |-> LinesFor(RowsOf(wanted.left)[m])])

(* What README, Simple Joins, describes.  INNER and LEFT take the place of  *)
(* an alias.                                                                 *)
JoinSupported ==
  /\ wanted.list # None => \A c \in Range(wanted.list) : c.side > 0
  /\ wanted.on[1].side = 1 /\ wanted.on[2].side = 2
  /\ wanted.tail = None
  /\ wanted.kind # None => wanted.lalias = None
  /\ wanted.value # None => wanted.where.side > 0 /\ (wanted.where.col \in IntCols => IsInt(wanted.value))
Ambiguous ==
  /\ Qualifier(wanted, 1) = Qualifier(wanted, 2)
  /\ wanted.list # None \/ wanted.value # None \/ wanted.on[1].side # 1

(* A supported join prints the pairs that match, in the order of the left   *)
(* table and then of the right one, with and without an index; any other is *)
(* refused, but for clauses after an ON whose right column has a name of    *)
(* MAX_NAME characters: those are not seen (cmd_select_join).  LEFT JOIN,   *)
(* which README.md:120-122 says is not supported, answers as an inner join. *)
JoinAsMeant ==
  wanted # None /\ faults = 0 /\ ~Ambiguous =>
    /\ phase = "joined" =>
         /\ JoinSupported \/ (wanted.tail # None /\ Len(wanted.on[2].col) >= MaxName)
         /\ printed = WantedLines
    /\ phase = "refused" => ~JoinSupported

(* The pairs of rows that a join prints, by their slots, and their order:    *)
(* that of the left table and then of the right one.                         *)
PairLine(p) == Line(RowsOf(join.left)[p[1]], RowsOf(join.right)[p[2]])
Matching ==
  {p \in (1..Len(RowsOf(join.left))) \X (1..Len(RowsOf(join.right))) :
     IsPair(RowsOf(join.left)[p[1]], RowsOf(join.right)[p[2]])}
PairBefore(p, q) == p[1] < q[1] \/ (p[1] = q[1] /\ p[2] < q[2])

(* What a join has printed at any time, whatever fails and even if it ends   *)
(* with an error: lines of pairs that match, each pair once and in order,    *)
(* through the index as well.  A join that ends printed all of them, unless  *)
(* an operation failed; without an index it is all or nothing even then.     *)
PrintsPart ==
  join # None =>
    \E pair \in [1..Len(printed) -> Matching] :
      /\ \A n \in 1..Len(printed) : printed[n] = PairLine(pair[n])
      /\ \A m, n \in 1..Len(printed) : m < n => PairBefore(pair[m], pair[n])
      /\ phase = "joined" /\ (faults = 0 \/ (~join.index /\ printed # << >>))
         => Range(pair) = Matching

(* EXPLAIN names the way a join goes, or refuses one with a WHERE clause,   *)
(* which it takes for a part of the right column (explain_select_join).     *)
JoinExplained ==
  join # None =>
    \/ ExplainJoin(parts) = IF join.index THEN "index" ELSE "scan"
    \/ ExplainJoin(parts) = "none" /\ parts.filtered
=============================================================================
