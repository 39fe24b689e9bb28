------------------------------- MODULE Select -------------------------------
(***************************************************************************)
(* SELECT on one table, and EXPLAIN (cmd_select, cmd_explain and their     *)
(* helpers in src/src/select.c): the text is cut into clauses by searching *)
(* for their keywords, the rows come from a scan or from an index, and are *)
(* grouped, sorted, cut to LIMIT and printed.                              *)
(*                                                                         *)
(* A WHERE clause is one condition here, with = or <; Where models what    *)
(* longer ones mean.                                                       *)
(***************************************************************************)
EXTENDS Lexis

CONSTANTS
  Table,     \* name of the table
  Cols,      \* its columns, a sequence of names
  IntCols,   \* those of type INT
  IntBits,   \* bits of an int
  Tables,    \* contents the table may have, sequences of rows in slot order
  Asked,     \* questions, see Spell
  MaxFaults  \* bound: failed store operations of a behaviour

(* A column has a name, and what is stored under it is a text.               *)
AreContents(cols, tables) == tables \subseteq Seq([Range(cols) -> Seq(STRING)])

ASSUME SelectAssumption ==
  /\ Cols \in Seq(Seq(STRING) \ {<< >>}) /\ IntCols \subseteq Range(Cols)
  /\ IntBits \in Nat \ {0} /\ MaxFaults \in Nat
  /\ AreContents(Cols, Tables)

VARIABLES
  asked,    \* what the user means
  text,     \* the statement
  rows,     \* the table
  indexed,  \* its columns that have an index
  cut,      \* the parts the text was cut into
  phase,    \* "typed", "cut", "fetch", "rows", "done", "refused"; Join has more
  plan,     \* what the parser made of the text
  byIndex,  \* the rows are fetched through an index
  queue,    \* slots still to look at
  out,      \* rows found
  groups,   \* groups, in the order of their first rows
  r,        \* the row of out that is grouped next
  printed,  \* the lines printed
  faults

input == <<asked, text, rows, indexed>>
vars == <<input, cut, phase, plan, byIndex, queue, out, groups, r, printed, faults>>

None == << >>
-----------------------------------------------------------------------------
(* A question and the text that says it.  The value of WHERE may be bare.   *)
SpellIf(present, symbols) == IF present THEN <<Blank>> \o symbols ELSE << >>
SpellAgg(agg) == <<agg.kind, "(">> \o (IF agg.col = None THEN <<"*">> ELSE agg.col) \o <<")">>
SpellList(a) ==
  LET items == (IF a.star THEN << <<"*">> >> ELSE a.cols)
               \o (IF a.agg.kind = "NONE" THEN << >> ELSE <<SpellAgg(a.agg)>>)
  IN  FlattenSeq([k \in 1..Len(items) |-> IF k = 1 THEN items[k] ELSE <<Comma>> \o items[k]])
Spell(a) ==
  <<"SELECT", Blank>> \o SpellList(a) \o <<Blank, "FROM", Blank>> \o Table
  \o SpellIf(a.col # None, <<"WHERE", Blank>> \o a.col \o a.op \o a.quote \o a.value \o a.quote)
  \o SpellIf(a.group # None, <<"GROUP BY", Blank>> \o a.group)
  \o SpellIf(a.order # None, <<"ORDER BY", Blank>> \o a.order \o SpellIf(a.desc, <<"DESC">>))
  \o SpellIf(a.limit # None, <<"LIMIT", Blank>> \o a.limit)
-----------------------------------------------------------------------------
(* parse_aggregate_expr and parse_select_list. *)
Column(name) == name \in Range(Cols)
Kinds == {"COUNT", "SUM", "AVG", "MIN", "MAX"}
Aggregate(kind, col) == [kind |-> kind, col |-> col]
NotOne == Aggregate("NONE", None)
BadOne == Aggregate("BAD", None)
Argument(kind, arg) ==
  IF kind = "COUNT" /\ arg \in {None, <<"*">>} THEN Aggregate("COUNT", None)
  ELSE IF kind # "COUNT" /\ Column(arg) THEN Aggregate(kind, arg)
  ELSE BadOne
AggregateOf(s) ==
  IF FindI(s, "(") = 0 THEN NotOne
  ELSE IF Last(s) # ")" THEN BadOne
  ELSE IF FindI(s, "(") # 2 \/ s[1] \notin Kinds THEN NotOne
  ELSE Argument(s[1], Trim(SubSeq(s, 3, Len(s) - 1)))

IsAggregate(item) == AggregateOf(item).kind \in Kinds
ListOf(s, aggs, plain) ==
  LET agg == IF aggs = << >> THEN NotOne ELSE AggregateOf(aggs[1])
  IN  [star |-> s = <<"*">>,
       cols |-> IF s = <<"*">> THEN Cols ELSE plain,
       agg  |-> agg,
       ok   |-> \/ s = <<"*">>
                \/ /\ Len(aggs) <= 1 /\ \A item \in Range(plain) : Column(item)
                   /\ agg.kind \in {"SUM", "AVG"} => agg.col \in IntCols]
ItemsOf(s, items) ==
  ListOf(s, SelectSeq(items, IsAggregate), SelectSeq(items, LAMBDA item : ~IsAggregate(item)))
Whole(s) == ItemsOf(s, IF IsAggregate(s) THEN <<s>> ELSE ParseCsv(s))
SelectList(listText) == Whole(CleanToken(listText))

(* Where the clauses of s, the text after the table name, begin; 0 is NULL. *)
Keywords == <<"WHERE", "GROUP BY", "ORDER BY", "LIMIT">>
At(s, w) == FindI(s, w)
Starts(s) == {At(s, w) : w \in Range(Keywords)} \ {0}
InOrder(s) ==
  \A j, k \in 1..4 : j < k /\ At(s, Keywords[j]) > 0 /\ At(s, Keywords[k]) > 0
                     => At(s, Keywords[j]) < At(s, Keywords[k])
(* The text of a clause, after its keyword and up to the next clause. *)
ClauseText(s, w) ==
  LET later == {p \in Starts(s) : p > At(s, w)}
  IN  Trim(SubSeq(s, At(s, w) + 1, IF later = {} THEN Len(s) ELSE Min(later) - 1))

(* One condition of parse_where; None when it reads none. *)
ConditionOf(columns, t) ==
  IF Len(t) = 3 /\ t[1] \in columns /\ t[2] \in {<<"=">>, <<"<">>} /\ (t[1] \in IntCols => IsInt(t[3]))
    THEN t ELSE None
ConditionOn(columns, s) == ConditionOf(columns, Tokens(s))
Condition(s) == ConditionOn(Range(Cols), s)

(* parse_order_clause and parse_limit_clause *)
OrderName(s) ==
  LET stop == SelectInSeq(s \o <<Blank>>,
                LAMBDA c : ~Alnum(c) /\ c \notin {"_", "(", ")", "*"})
  IN  SubSeq(s, 1, stop - 1)
Counts == {<<"COUNT">>, <<"COUNT", "(", ")">>, <<"COUNT", "(", "*", ")">>}
OrderWay(s) == LTrim(SubSeq(s, Len(OrderName(s)) + 1, Len(s)))
OrderOk(s, group) ==
  /\ OrderWay(s) \in {None, <<"DESC">>, <<"ASC">>}
  /\ IF OrderName(s) \in Counts THEN group # None
     ELSE Column(OrderName(s)) /\ (group # None => OrderName(s) = group)

WrapLimit(digits) ==
  LET half == 2 ^ (IntBits - 1)
  IN  ((Magnitude(digits) + half) % (2 * half)) - half
LimitOk(s) == s # None /\ Range(s) \subseteq Digits /\ WrapLimit(s) >= 0
-----------------------------------------------------------------------------
(* cmd_select cuts the text at FROM and after the name of the table. *)
AfterSelect(t) == Tail(t)
IsJoin(t) == FindKeyword(AfterSelect(t), "JOIN") > 0   \* for cmd_select_join
Split(s, w) ==
  LET at == FindKeyword(s, w)
  IN  [found |-> at > 0, before |-> SubSeq(s, 1, at - 1), after |-> SubSeq(s, at + 1, Len(s))]
Parts(list, rest) == [list |-> list, name |-> NameAt(rest), clauses |-> Trim(AfterName(rest))]
CutAt(from) == Parts(from.before, IF from.found THEN LTrim(from.after) ELSE << >>)

(* The checks before it reads a row, and what it understood; c is cut. *)
Has(c, w) == At(c.clauses, w) > 0
Text(c, w) == ClauseText(c.clauses, w)
Group(c) == IF Has(c, "GROUP BY") THEN Text(c, "GROUP BY") ELSE None
IsSelect(c) ==
  /\ Trim(c.list) # None
  /\ c.name = Table
  /\ SelectList(c.list).ok
  /\ IF Starts(c.clauses) = {} THEN c.clauses = None ELSE Min(Starts(c.clauses)) = 1
  /\ InOrder(c.clauses)
  /\ Has(c, "GROUP BY") => Column(Group(c))
  /\ Has(c, "ORDER BY") => OrderOk(Text(c, "ORDER BY"), Group(c))
  /\ Has(c, "LIMIT") => LimitOk(Text(c, "LIMIT"))
  /\ Has(c, "WHERE") => Condition(Text(c, "WHERE")) # None

PlanOf(c, list) ==
  [star  |-> list.star, cols |-> list.cols, agg |-> list.agg,
   where |-> IF Has(c, "WHERE") THEN Condition(Text(c, "WHERE")) ELSE None,
   group |-> Group(c),
   order |-> IF Has(c, "ORDER BY") THEN OrderName(Text(c, "ORDER BY")) ELSE None,
   desc  |-> Has(c, "ORDER BY") /\ OrderWay(Text(c, "ORDER BY")) = <<"DESC">>,
   limit |-> IF Has(c, "LIMIT") THEN WrapLimit(Text(c, "LIMIT")) ELSE -1]

(* where_simple_eq: the one way to an index. *)
SimpleEq(cond) == cond # None /\ cond[2] = <<"=">> /\ cond[1] \in indexed

(* cmd_explain cuts the text the same way, and looks at table and clauses    *)
(* only; "none" is a PLAN ERROR.  (Slip: it does not look at GROUP BY.)      *)
Where(c) == IF Has(c, "WHERE") THEN Condition(Text(c, "WHERE")) ELSE None
ExplainPathNoGroup(c) == IF ~Has(c, "ORDER BY") /\ SimpleEq(Where(c)) THEN "index" ELSE "scan"
ExplainPath(c) ==
  IF c.name # Table \/ (Has(c, "WHERE") /\ Where(c) = None) THEN "none"
  ELSE IF ~Has(c, "GROUP BY") /\ ~Has(c, "ORDER BY") /\ SimpleEq(Where(c)) THEN "index"
  ELSE "scan"
-----------------------------------------------------------------------------
Init ==
  /\ asked \in Asked /\ text = Spell(asked)
  /\ rows \in Tables /\ indexed \in SUBSET Range(Cols)
  /\ phase = "typed" /\ cut = None /\ plan = None /\ byIndex = FALSE
  /\ queue = << >> /\ out = << >> /\ groups = << >> /\ r = 1
  /\ printed = << >> /\ faults = 0

Refuse == phase' = "refused" /\ UNCHANGED <<byIndex, queue, plan>>
Works == UNCHANGED faults
Fails == faults < MaxFaults /\ faults' = faults + 1

(* cmp_value; numbers beyond a long are in Where. *)
Less(col, a, b) == IF col \in IntCols THEN Number(a) < Number(b) ELSE StrLess(a, b)
Matches(cond, row) ==
  \/ cond = None
  \/ cond # None /\ cond[2] = <<"=">> /\ row[cond[1]] = cond[3]
  \/ cond # None /\ cond[2] = <<"<">> /\ Less(cond[1], row[cond[1]], cond[3])

(* The slots in the order of the scan, and in that of the index records: by  *)
(* value, and by slot where values are equal.                                *)
(* (Slip: one slot too many.)                                                *)
ScanOrderPast == [n \in 1..Len(rows) + 1 |-> n]
ScanOrder == [n \in 1..Len(rows) |-> n]
IndexBefore(col, m, n) ==
  IF rows[m][col] = rows[n][col] THEN m < n ELSE StrLess(rows[m][col], rows[n][col])
IndexOrders(col) ==
  {q \in Bijection(1..Len(rows), 1..Len(rows)) :
     \A j, k \in 1..Len(rows) : j < k => IndexBefore(col, q[j], q[k])}

CutClauses ==
  /\ phase = "typed" /\ ~IsJoin(text)
  /\ cut' = CutAt(Split(AfterSelect(text), "FROM"))
  /\ phase' = "cut"
  /\ UNCHANGED <<input, plan, byIndex, queue, out, groups, r, printed, faults>>

(* The clauses are understood and the scan that finds the slots is made.  A  *)
(* read error refuses the statement; a failed positioning (__vsstge) is an   *)
(* empty scan.                                                               *)
IsSimple(p) == p.group = None /\ p.order = None /\ SimpleEq(p.where)
Start ==
  /\ phase = "cut"
  /\ \/ /\ IsSelect(cut)
        /\ plan' = PlanOf(cut, SelectList(cut.list)) /\ byIndex' = IsSimple(plan')
        /\ phase' = "fetch"
        /\ \/ Works /\ queue' \in IF byIndex' THEN IndexOrders(plan'.where[1]) ELSE {ScanOrder}
           \/ Fails /\ queue' = << >>
     \/ IsSelect(cut) /\ Fails /\ Refuse
     \/ ~IsSelect(cut) /\ Works /\ Refuse
  /\ UNCHANGED <<input, cut, out, groups, r, printed>>

(* One row; load_row_slot takes a row that cannot be read for one that is    *)
(* not there, and a scan brings the rows along.  (Slip: a scan skips what it *)
(* cannot read.)                                                             *)
FetchSkips ==
  /\ phase = "fetch" /\ queue # << >>
  /\ \/ Works /\ out' = IF Matches(plan.where, rows[Head(queue)])
                         THEN Append(out, rows[Head(queue)]) ELSE out
     \/ Fails /\ UNCHANGED out
  /\ queue' = Tail(queue)
  /\ UNCHANGED <<input, cut, phase, plan, byIndex, groups, r, printed>>
Fetch ==
  /\ phase = "fetch" /\ queue # << >>
  /\ \/ Works /\ out' = IF Matches(plan.where, rows[Head(queue)])
                         THEN Append(out, rows[Head(queue)]) ELSE out
     \/ byIndex /\ Fails /\ UNCHANGED out
  /\ queue' = Tail(queue)
  /\ UNCHANGED <<input, cut, phase, plan, byIndex, groups, r, printed>>

(* The select lists that fit GROUP BY, or no GROUP BY, are told apart here.  *)
ListFits ==
  IF plan.group = None
    THEN plan.agg.kind = "NONE" \/ plan.cols = None
    ELSE plan.star \/ Range(plan.cols) \subseteq {plan.group}
Fetched ==
  /\ phase = "fetch" /\ queue = << >>
  /\ phase' = IF ListFits THEN "rows" ELSE "refused"
  /\ UNCHANGED <<input, cut, plan, byIndex, queue, out, groups, r, printed, faults>>

(* add_group_row *)
Value(row, col) == IF col = None THEN None ELSE row[col]
Sum(row, col) == IF col \in IntCols THEN Number(row[col]) ELSE 0
NewGroup(row) ==
  LET v == Value(row, plan.agg.col)
  IN  [value |-> Value(row, plan.group), count |-> 1, sum |-> Sum(row, plan.agg.col), min |-> v, max |-> v]
Grown(g, row) ==
  LET c == plan.agg.col
      v == Value(row, c)
  IN  [value |-> g.value, count |-> g.count + 1, sum |-> g.sum + Sum(row, c),
       min |-> IF c # None /\ Less(c, v, g.min) THEN v ELSE g.min,
       max |-> IF c # None /\ Less(c, g.max, v) THEN v ELSE g.max]
(* (Slip: only the last group is compared.) *)
GroupRowLast ==
  /\ phase = "rows" /\ plan.group # None /\ r <= Len(out)
  /\ LET n == Len(groups)
     IN  groups' = IF n = 0 \/ groups[n].value # out[r][plan.group]
                   THEN Append(groups, NewGroup(out[r]))
                   ELSE Append(Front(groups), Grown(groups[n], out[r]))
  /\ r' = r + 1
  /\ UNCHANGED <<input, cut, phase, plan, byIndex, queue, out, printed, faults>>
GroupRow ==
  /\ phase = "rows" /\ plan.group # None /\ r <= Len(out)
  /\ LET same == {k \in 1..Len(groups) : groups[k].value = out[r][plan.group]}
     IN  groups' = IF same = {} THEN Append(groups, NewGroup(out[r]))
                   ELSE [k \in 1..Len(groups) |->
                          IF k = Min(same) THEN Grown(groups[k], out[r]) ELSE groups[k]]
  /\ r' = r + 1
  /\ UNCHANGED <<input, cut, phase, plan, byIndex, queue, out, printed, faults>>

(* What a group or an aggregate shows; AVG is its sum and its count. *)
Shows(kind, g) ==
  IF kind = "SUM" THEN <<g.sum>>
  ELSE IF kind = "AVG" THEN <<g.sum, g.count>>
  ELSE IF kind = "MIN" THEN g.min
  ELSE IF kind = "MAX" THEN g.max
  ELSE <<g.count>>
GroupLine(g) ==
  LET shown == Shows(plan.agg.kind, g)
  IN  IF plan.star \/ (plan.cols # None /\ plan.agg.kind # "NONE") THEN <<g.value, shown>>
      ELSE IF plan.agg.kind # "NONE" THEN <<shown>>
      ELSE <<g.value>>
RowLine(row) == [c \in 1..Len(plan.cols) |-> row[plan.cols[c]]]

(* qsort may put equal elements in any order: follows[j, k] says that the    *)
(* k-th may come after the j-th.                                             *)
(* (Slip: LIMIT 0 is taken for no limit.)                                   *)
LimitPositive(s) == IF plan.limit > 0 THEN SubSeq(s, 1, Min({plan.limit, Len(s)})) ELSE s
Limit(s) == IF plan.limit >= 0 THEN SubSeq(s, 1, Min({plan.limit, Len(s)})) ELSE s
Orders(n, follows) ==
  {q \in Bijection(1..n, 1..n) : \A k \in 1..n - 1 : follows[q[k], q[k + 1]]}
Arrange(lines, follows) ==
  {Limit([k \in 1..Len(lines) |-> lines[q[k]]]) : q \in Orders(Len(lines), follows)}
(* cmp_row_qsort and cmp_group_qsort *)
Sorted(n, less) ==
  [j, k \in 1..n |-> IF plan.order = None THEN j < k
                     ELSE IF plan.desc THEN ~less[j, k] ELSE ~less[k, j]]
RowLess ==
  [j, k \in 1..Len(out) |-> Less(plan.order, out[j][plan.order], out[k][plan.order])]
GroupLess ==
  [j, k \in 1..Len(groups) |->
     IF plan.order \in Counts THEN groups[j].count < groups[k].count
     ELSE Less(plan.group, groups[j].value, groups[k].value)]

(* The one line of an aggregate without GROUP BY, whatever the LIMIT. *)
Total ==
  IF out = << >> THEN [value |-> None, count |-> 0, sum |-> 0, min |-> None, max |-> None]
  ELSE FoldLeft(Grown, NewGroup(Head(out)), Tail(out))

PrintRows ==
  /\ phase = "rows" /\ (plan.group # None => r > Len(out))
  /\ phase' = "done"
  /\ \/ /\ plan.group # None
        /\ printed' \in Arrange([k \in 1..Len(groups) |-> GroupLine(groups[k])],
                                Sorted(Len(groups), GroupLess))
     \/ /\ plan.group = None /\ plan.agg.kind # "NONE"
        /\ printed' = << <<Shows(plan.agg.kind, Total)>> >>
     \/ /\ plan.group = None /\ plan.agg.kind = "NONE"
        /\ printed' \in Arrange([k \in 1..Len(out) |-> RowLine(out[k])], Sorted(Len(out), RowLess))
  /\ UNCHANGED <<input, cut, plan, byIndex, queue, out, groups, r, faults>>

Next == CutClauses \/ Start \/ Fetch \/ Fetched \/ GroupRow \/ PrintRows

Spec == Init /\ [][Next]_vars
-----------------------------------------------------------------------------
(* What was asked, said of the table alone.  An answer is made of sets of    *)
(* slots: single rows, the groups, or all rows an aggregate counts.          *)
Meets(n) ==
  \/ asked.col = None
  \/ asked.op = <<"=">> /\ rows[n][asked.col] = asked.value
  \/ asked.op = <<"<">> /\ Less(asked.col, rows[n][asked.col], asked.value)
Found == {n \in 1..Len(rows) : Meets(n)}
Elements ==
  IF asked.group # None
    THEN {{n \in Found : rows[n][asked.group] = v} : v \in {rows[n][asked.group] : n \in Found}}
  ELSE IF asked.agg.kind # "NONE" THEN {Found}
  ELSE {{n} : n \in Found}

Extreme(e, col, top) ==
  {rows[n][col] : n \in {n \in e : \A m \in e :
     IF top THEN ~Less(col, rows[n][col], rows[m][col]) ELSE ~Less(col, rows[m][col], rows[n][col])}}
Aggregated(e) ==
  LET kind == asked.agg.kind
      col == asked.agg.col
      sum == MapThenSumSet(LAMBDA n : Number(rows[n][col]), e)
  IN  IF kind \in {"COUNT", "NONE"} THEN {<<Cardinality(e)>>}
      ELSE IF kind = "SUM" THEN {<<sum>>}
      ELSE IF kind = "AVG" THEN {<<sum, Cardinality(e)>>}
      ELSE IF e = {} THEN {None}
      ELSE Extreme(e, col, kind = "MAX")
AskedCols == IF asked.group # None /\ asked.star THEN <<asked.group>> ELSE IF asked.star THEN Cols ELSE asked.cols
WithCount == asked.agg.kind # "NONE" \/ (asked.group # None /\ asked.star)
IsLine(line, e) ==
  LET shown == [c \in 1..Len(AskedCols) |-> rows[CHOOSE n \in e : TRUE][AskedCols[c]]]
  IN  IF WithCount THEN \E v \in Aggregated(e) : line = shown \o <<v>> ELSE line = shown
Before(d, e) ==
  LET less(x, y) ==
        IF asked.order \in Counts THEN Cardinality(x) < Cardinality(y)
        ELSE Less(asked.order, rows[CHOOSE n \in x : TRUE][asked.order],
                               rows[CHOOSE n \in y : TRUE][asked.order])
  IN  IF asked.order = None THEN d # {} /\ e # {} /\ Min(d) < Min(e)
      ELSE IF asked.desc THEN less(e, d) ELSE less(d, e)
Most ==
  IF asked.limit = None \/ (asked.group = None /\ asked.agg.kind # "NONE") THEN Cardinality(Elements)
  ELSE Min({Magnitude(asked.limit), Cardinality(Elements)})
(* A LIMIT beyond an int wraps around to a smaller one, or below zero. *)
FitsInt == asked.limit # None => Magnitude(asked.limit) < 2 ^ (IntBits - 1)
IsAnswer ==
  \E pick \in Injection(1..Len(printed), Elements) :
    /\ IF FitsInt THEN Len(printed) = Most ELSE Len(printed) <= Most
    /\ \A k \in 1..Len(printed) : IsLine(printed[k], pick[k])
    /\ \A j, k \in 1..Len(printed) : j < k => ~Before(pick[k], pick[j])
    /\ \A e \in Elements \ Range(pick), k \in 1..Len(printed) : ~Before(e, pick[k])

(* What the README says SELECT takes. *)
Supported ==
  /\ Range(asked.cols) \subseteq Range(Cols)
  /\ asked.agg.kind \in {"SUM", "AVG"} => asked.agg.col \in IntCols
  /\ asked.group # None => asked.star \/ Range(asked.cols) \subseteq {asked.group}
  /\ asked.group = None => asked.agg.kind = "NONE" \/ (asked.cols = None /\ ~asked.star)
  /\ asked.group # None => asked.order \in Counts \cup {None, asked.group}
  /\ asked.group = None => asked.order \notin Counts
  /\ asked.col \in IntCols => IsInt(asked.value)
HasKeyword == Range(asked.value) \cap (Range(Keywords) \cup {"JOIN", "FROM"}) # {}

TypeOK ==
  /\ indexed \subseteq Range(Cols)
  /\ phase \in {"typed", "cut", "fetch", "rows", "done", "refused", "cut join", "join", "joined"}
  /\ byIndex \in BOOLEAN
  /\ Range(queue) \subseteq 1..Len(rows)
  /\ Range(out) \subseteq Range(rows)
  /\ Len(groups) <= Len(out)
  /\ r \in 1..Len(out) + 1
  /\ faults \in 0..MaxFaults

(* A supported question is answered as meant and any other refused, whether  *)
(* an index is used or not: the right rows, each once, grouped, aggregated,  *)
(* sorted and cut to a LIMIT n.  A LIMIT that no int holds may lose rows or  *)
(* be refused, but never prints another row, one out of order or more than   *)
(* n; a keyword inside a quoted value may cause a refusal, but never another *)
(* answer (cmd_select, parse_limit_clause).                                  *)
AnswersAsMeant ==
  asked # None /\ faults = 0 /\ (HasKeyword => asked.quote # None) =>
    /\ phase # "joined"
    /\ phase = "done" => Supported /\ IsAnswer
    /\ phase = "refused" => ~Supported \/ HasKeyword \/ ~FitsInt

(* The slots of the rows that match. *)
Hits == {n \in 1..Len(rows) : Matches(plan.where, rows[n])}

(* The rows found are those of the table that match, each once and in the    *)
(* order of the scan, through an index as well; a failed read or positioning *)
(* may lose some, but on a scan it loses all (load_row_slot, kv_scan).       *)
FoundInOrder ==
  phase \in {"rows", "done"} =>
    \E slot \in [1..Len(out) -> Hits] :
      /\ \A k \in 1..Len(out) : out[k] = rows[slot[k]]
      /\ \A j, k \in 1..Len(out) : j < k => slot[j] < slot[k]
      /\ faults = 0 \/ (~byIndex /\ out # << >>) => Range(slot) = Hits

(* The groups are the distinct values of the GROUP BY column among the rows  *)
(* taken so far, each once and with the number of its rows (add_group_row).  *)
GroupsPartition ==
  phase \in {"rows", "done"} /\ plan.group # None =>
    /\ \A j, k \in 1..Len(groups) : groups[j].value = groups[k].value => j = k
    /\ \A n \in 1..r - 1 : \E k \in 1..Len(groups) : groups[k].value = out[n][plan.group]
    /\ \A k \in 1..Len(groups) :
         groups[k].count = Cardinality({n \in 1..r - 1 : out[n][plan.group] = groups[k].value})
    /\ phase = "done" => r = Len(out) + 1

(* EXPLAIN names the way the same SELECT takes (cmd_explain, cmd_select).    *)
ExplainAgrees == plan # None => ExplainPath(cut) = IF byIndex THEN "index" ELSE "scan"
=============================================================================
