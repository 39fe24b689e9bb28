-------------------------------- MODULE Where --------------------------------
(***************************************************************************)
(* WHERE clauses: parse_where reads the tokens of the text into conditions *)
(* joined by AND and OR, and where_match evaluates them on one row after   *)
(* another (src/src/parser.c).                                             *)
(*                                                                         *)
(* The conditions are kept as the positions of their first tokens; the     *)
(* column, the operator and the values are the tokens from there on.       *)
(***************************************************************************)
EXTENDS Lexis

CONSTANTS
  Columns,     \* column names of the table
  IntColumns,  \* those of type INT
  Width,       \* most characters of a value in the other columns
  Rows,        \* rows a scan hands to where_match
  Asked,       \* conditions a user means, see Understood
  Texts,       \* texts nobody means anything by
  BigInts,     \* integers no long holds
  Outcomes     \* what atol may make of one of them

(* Rows hold what validate_value let in. *)
ASSUME WhereAssumption ==
  /\ IntColumns \subseteq Columns /\ Outcomes \subseteq Int
  /\ Rows # {}
  /\ \A r \in Rows : /\ \A c \in Columns : r[c] \in Seq(Range(CharCodes))
                     /\ \A c \in IntColumns : IsInt(r[c])
  /\ Texts \subseteq Seq(STRING)

VARIABLES
  asked,   \* what the text is meant to say, or NothingAsked
  text,    \* where_text
  phase,   \* "text", "conds", "refused", "parsed", "match", "matched"
  tokens,  \* toks
  pos,     \* pos, counted from 1
  conds,   \* where the conditions of expr start
  logic,   \* logic of expr
  row, i, anyOr, current,   \* of where_match
  atol     \* the library's answers beyond its range

parseVars == <<asked, text, tokens, pos, conds, logic, atol>>
vars == <<parseVars, phase, row, i, anyOr, current>>

NoText == <<"NULL">>     \* the statement has no WHERE
NothingAsked == [conds |-> << >>, joins |-> << >>]
-----------------------------------------------------------------------------
(* The texts that say what was asked: values bare, where that is possible,  *)
(* or in quotes, with and without blanks around an operator.  SELECT and    *)
(* DELETE pass the text from WHERE on, UPDATE what follows it.              *)
Values(c) == IF c.op = <<"BETWEEN">> THEN <<c.low, c.high>> ELSE <<c.low>>
IsBare(v) == v # << >> /\ Range(v) \cap (Operators \cup Quotes \cup {Blank}) = {}
Spell(c, quote, gap) ==
  LET value(v) == quote \o v \o quote
      op == IF c.op[1] \in Operators THEN gap \o c.op \o gap ELSE <<Blank>> \o c.op \o <<Blank>>
  IN  c.col \o op \o value(c.low)
      \o IF c.op = <<"BETWEEN">> THEN <<Blank, "AND", Blank>> \o value(c.high) ELSE << >>
SpellAll(a, quote, gap) ==
  FlattenSeq([k \in 1..Len(a.conds) |->
    (IF k = 1 THEN << >> ELSE <<Blank, a.joins[k - 1], Blank>>) \o Spell(a.conds[k], quote, gap)])
Marks(a) ==
  IF \A k \in 1..Len(a.conds) : \A v \in Range(Values(a.conds[k])) : IsBare(v)
    THEN {<< >>, <<Quote>>} ELSE {<<Quote>>}
Said(a) == {SpellAll(a, q, g) : q \in Marks(a), g \in {<< >>, <<Blank>>}}
Spellings(a) == Said(a) \cup {<<"WHERE", Blank>> \o s : s \in Said(a)}

(* A condition the user may mean: a name that valid_name accepts, and       *)
(* values that fit a token and hold no quote.                               *)
Comparisons == {<<"=">>, <<"<">>, <<">">>, <<"<", "=">>, <<">", "=">>, <<"<", ">">>, <<"!", "=">>}
Askable(c) ==
  /\ {c.col, c.op, c.low, c.high} \subseteq Seq(STRING)
  /\ c.col \in Columns /\ IsBare(c.col) /\ Len(c.col) <= MaxValue
  /\ c.op \in Comparisons \cup {<<"LIKE">>, <<"BETWEEN">>}
  /\ \A v \in {c.low, c.high} : Quote \notin Range(v) /\ Len(v) <= MaxValue
ASSUME AskedAssumption ==
  \A a \in Asked :
    /\ a.conds # << >> /\ Len(a.conds) \in Nat /\ \A k \in 1..Len(a.conds) : Askable(a.conds[k])
    /\ a.joins \in Seq({"AND", "OR"}) /\ Len(a.joins) = Len(a.conds) - 1

Init ==
  /\ \/ asked = NothingAsked /\ text \in Texts \cup {NoText}
     \/ asked \in Asked /\ text \in Spellings(asked)
  /\ phase = "text" /\ tokens = << >> /\ pos = 1 /\ conds = << >> /\ logic = << >>
  /\ row = (CHOOSE r \in Rows : TRUE) /\ i = 1 /\ anyOr = FALSE /\ current = FALSE
  /\ atol \in [BigInts -> Outcomes]
-----------------------------------------------------------------------------
(* parse_where.  A WHERE at the start is skipped, also one that begins a name. *)
Clause == IF LTrim(text) # << >> /\ Head(LTrim(text)) = "WHERE" THEN Tail(LTrim(text)) ELSE text

Tokenize ==
  /\ phase = "text"
  /\ \/ /\ text = NoText
        /\ phase' = "parsed" /\ UNCHANGED tokens
     \/ /\ text # NoText
        /\ tokens' = Tokens(Clause)
        /\ phase' = IF Len(tokens') = 0 \/ ~TokensFit(tokens') THEN "refused" ELSE "conds"
  /\ UNCHANGED <<asked, text, pos, conds, logic, atol, row, i, anyOr, current>>

(* validate_value *)
ValidValue(col, v) == IF col \in IntColumns THEN IsInt(v) ELSE Len(v) <= Width

(* parse_where_cond *)
CondOk(p) ==
  /\ p + 2 <= Len(tokens)
  /\ tokens[p] \in Columns
  /\ \/ tokens[p + 1] = <<"LIKE">>
     \/ /\ tokens[p + 1] = <<"BETWEEN">>
        /\ p + 4 <= Len(tokens)
        /\ tokens[p + 3] = <<"AND">>
        /\ ValidValue(tokens[p], tokens[p + 2]) /\ ValidValue(tokens[p], tokens[p + 4])
     \/ tokens[p + 1] \in Comparisons /\ ValidValue(tokens[p], tokens[p + 2])
(* (Slip: BETWEEN is taken for an operator with one value.) *)
CondLengthThree(p) == 3
CondLength(p) == IF tokens[p + 1] = <<"BETWEEN">> THEN 5 ELSE 3

(* (Slip: any other word stands for OR.) *)
ConnectsAny(p) == TRUE
Connects(p) == tokens[p] \in {<<"AND">>, <<"OR">>}

(* One round of the loop: a condition, and AND or OR unless the text ends.  *)
(* An AND or OR after which the text ends is read too.                      *)
ReadCond ==
  /\ phase = "conds"
  /\ LET next == pos + CondLength(pos)
         more == CondOk(pos) /\ next <= Len(tokens)
     IN  \/ /\ Len(conds) < MaxConds /\ CondOk(pos) /\ ~more
            /\ conds' = Append(conds, pos) /\ pos' = next
            /\ phase' = "parsed" /\ UNCHANGED logic
         \/ /\ Len(conds) + 1 < MaxConds /\ more
            /\ Connects(next)
            /\ conds' = Append(conds, pos) /\ pos' = next + 1
            /\ logic' = Append(logic, IF tokens[next] = <<"AND">> THEN "AND" ELSE "OR")
            /\ phase' = IF next + 1 <= Len(tokens) THEN "conds" ELSE "parsed"
         \/ /\ \/ Len(conds) >= MaxConds
               \/ ~CondOk(pos)
               \/ more /\ Len(conds) + 1 >= MaxConds
               \/ more /\ ~Connects(next)
            /\ phase' = "refused" /\ UNCHANGED <<conds, logic, pos>>
  /\ UNCHANGED <<asked, text, tokens, atol, row, i, anyOr, current>>
-----------------------------------------------------------------------------
(* cmp_value: atol on INT columns, strcmp on the others. *)
Atol(v) == IF v \in BigInts THEN atol[v] ELSE Number(v)
Less(col, a, b) == IF col \in IntColumns THEN Atol(a) < Atol(b) ELSE StrLess(a, b)

(* like_match of the pattern from y on and the text from x on: runs of %     *)
(* count as one, and the text is tried from each place on, its end included. *)
(* (Slip: the end is not tried.)                                             *)
LikeShort(v, pat) ==
  LET match[y \in 1..Len(pat) + 1] == [x \in 1..Len(v) + 1 |->
        IF y > Len(pat) THEN x > Len(v)
        ELSE IF pat[y] = "%"
          THEN \E m \in x..Len(v) : match[y + 1][m]
          ELSE x <= Len(v) /\ pat[y] \in {"_", v[x]} /\ match[y + 1][x + 1]]
  IN  match[1][1]
Like(v, pat) ==
  LET match[y \in 1..Len(pat) + 1] == [x \in 1..Len(v) + 1 |->
        IF y > Len(pat) THEN x > Len(v)
        ELSE IF pat[y] = "%"
          THEN LET rest == SelectInSubSeq(pat, y, Len(pat), LAMBDA c : c # "%")
               IN  rest = 0 \/ \E m \in x..Len(v) + 1 : match[rest][m]
          ELSE x <= Len(v) /\ pat[y] \in {"_", v[x]} /\ match[y + 1][x + 1]]
  IN  match[1][1]

(* eval_cond.  = and <> compare texts, whatever the type. *)
Differs == {<<"<", ">">>, <<"!", "=">>}
HoldsAt(p) ==
  LET col == tokens[p]
      op == tokens[p + 1]
      v == row[col]
      a == tokens[p + 2]
  IN  \/ op = <<"=">> /\ v = a
      \/ op = <<"<">> /\ Less(col, v, a)
      \/ op = <<">">> /\ Less(col, a, v)
      \/ op = <<"<", "=">> /\ ~Less(col, a, v)
      \/ op = <<">", "=">> /\ ~Less(col, v, a)
      \/ op \in Differs /\ v # a
      \/ op = <<"LIKE">> /\ Like(v, a)
      \/ op = <<"BETWEEN">> /\ ~Less(col, v, a) /\ ~Less(col, tokens[p + 4], v)
Holds(k) == HoldsAt(conds[k])

(* where_match.  i is the condition the loop evaluates next; the first one  *)
(* starts a run of ANDs like one after an OR.                               *)
StartMatch ==
  /\ phase \in {"parsed", "matched"}
  /\ row' \in Rows
  /\ i' = 1 /\ anyOr' = FALSE /\ current' = FALSE
  /\ phase' = "match"
  /\ UNCHANGED parseVars

After(k) == IF k \in 1..Len(logic) THEN logic[k] ELSE "OR"
EvalCond ==
  /\ phase = "match" /\ i <= Len(conds)
  /\ \/ /\ After(i - 1) = "AND"
        /\ current' = (current /\ Holds(i)) /\ UNCHANGED anyOr
     \/ /\ After(i - 1) # "AND"
        /\ anyOr' = (anyOr \/ current) /\ current' = Holds(i)
  /\ i' = i + 1
  /\ UNCHANGED <<parseVars, phase, row>>

EndMatch ==
  /\ phase = "match" /\ i > Len(conds)
  /\ phase' = "matched"
  /\ UNCHANGED <<parseVars, row, i, anyOr, current>>
Matches == conds = << >> \/ anyOr \/ current

Next == Tokenize \/ ReadCond \/ StartMatch \/ EvalCond \/ EndMatch

Spec == Init /\ [][Next]_vars
-----------------------------------------------------------------------------
Joined(a, b) == \A k \in a..b - 1 : logic[k] = "AND"
AllHold(a, b) == \A k \in a..b : Holds(k)
Begins(a) == a = 1 \/ logic[a - 1] = "OR"
Run(a, b) == Begins(a) /\ Joined(a, b) /\ AllHold(a, b)
Ends(b) == b = Len(conds) \/ logic[b] = "OR"

TypeOK ==
  /\ phase \in {"text", "conds", "refused", "parsed", "match", "matched"}
  /\ pos \in Nat \ {0}
  /\ phase \in {"conds", "parsed", "match", "matched"} => Len(tokens) <= MaxConds * 5
  /\ conds \in Seq(Nat \ {0}) /\ Len(conds) <= MaxConds
  /\ logic \in Seq({"AND", "OR"}) /\ Len(logic) \in {Len(conds) - 1, Len(conds)}
  /\ i \in 1..Len(conds) + 1
  /\ anyOr \in BOOLEAN /\ current \in BOOLEAN

(* The conditions and the connectives between them cover the tokens without *)
(* a gap: no token of a clause that is accepted is skipped or read twice,   *)
(* the AND of BETWEEN included (parse_where, parse_where_cond).             *)
AfterCond(k) == conds[k] + CondLength(conds[k])
LastRead == AfterCond(Len(conds)) + Len(logic) - Len(conds)
Covers ==
  /\ \A k \in 1..Len(conds) : conds[k] = IF k = 1 THEN 1 ELSE AfterCond(k - 1) + 1
  /\ \A k \in 1..Len(logic) : tokens[AfterCond(k)] = <<logic[k]>>
  /\ (conds # << >> /\ phase \in {"parsed", "match", "matched"}) =>
       LastRead <= Len(tokens) /\ ~(LastRead + 1 <= Len(tokens))

(* Where the loop of parse_where stands. *)
ReadInv ==
  /\ phase = "text" => tokens = << >> /\ conds = << >> /\ logic = << >>
  /\ phase \in {"text", "conds"} =>
       /\ Len(logic) = Len(conds)
       /\ pos = IF conds = << >> THEN 1 ELSE AfterCond(Len(conds)) + 1

(* A row matches when all conditions of some run of ANDs hold, a run being  *)
(* what stands between two ORs: AND binds tighter (where_match).            *)
OrOfAnds ==
  \/ conds = << >>
  \/ \E a, b \in 1..Len(conds) : a <= b /\ Run(a, b) /\ Ends(b)

(* The loop of where_match, up to condition i: current says that the run    *)
(* condition i - 1 is in holds so far, anyOr that an earlier run holds.     *)
LoopInv ==
  /\ phase = "matched" => i = Len(conds) + 1
  /\ phase \in {"match", "matched"} =>
       /\ current <=> \E a \in 1..i - 1 : Run(a, i - 1)
       /\ anyOr <=> \E b \in 1..i - 2 : logic[b] = "OR" /\ \E a \in 1..b : Run(a, b)

(* What was asked is understood, up to the limits on conditions and tokens: *)
(* the same columns, operators and connectives, and the values without      *)
(* outer blanks.  A clause beyond the limits or with an integer that is     *)
(* none is refused, never cut short.  A column whose name begins with WHERE *)
(* is lost where the text has no WHERE of its own (where_tokenize).         *)
Betweens(a, n) == Cardinality({k \in 1..n : a.conds[k].op = <<"BETWEEN">>})
TokenCount(a) == 4 * Len(a.conds) - 1 + 2 * Betweens(a, Len(a.conds))
Valid(c) == c.op = <<"LIKE">> \/ \A v \in Range(Values(c)) : ValidValue(c.col, Trim(v))
Means(k, c) ==
  LET p == conds[k]
  IN  /\ tokens[p] = c.col /\ tokens[p + 1] = c.op /\ tokens[p + 2] = Trim(c.low)
      /\ c.op = <<"BETWEEN">> => tokens[p + 4] = Trim(c.high)
Fits(a) ==
  /\ Len(a.conds) <= MaxConds /\ TokenCount(a) <= MaxConds * 5
  /\ \A k \in 1..Len(a.conds) : Valid(a.conds[k])
HidesColumn == Head(text) = "WHERE" /\ text \in Said(asked)
Understood ==
  asked # NothingAsked /\ ~HidesColumn =>
    /\ phase = "refused" => ~Fits(asked)
    /\ phase \in {"parsed", "match", "matched"} =>
         /\ Fits(asked)
         /\ Len(conds) = Len(asked.conds) /\ logic = asked.joins
         /\ \A k \in 1..Len(conds) : Means(k, asked.conds[k])

(* A row that is taken is one of those the clause means.  LIKE matches when *)
(* the text can be cut into what each symbol of the pattern stands for.     *)
(* The comparisons on an INT column order the numbers that fit a long.  A   *)
(* row that = finds is found by <= and >= as well, but only on the other    *)
(* columns is it so the other way round: = tells 03 from 3.  <> and != find *)
(* the rows that = does not.  The conditions are joined as OrOfAnds says    *)
(* (like_match, cmp_value, eval_cond, where_match).                         *)
LikeMeans(v, pat) ==
  \E cut \in [1..Len(pat) + 1 -> 1..Len(v) + 1] :
    /\ cut[1] = 1 /\ cut[Len(pat) + 1] = Len(v) + 1
    /\ \A y \in 1..Len(pat) :
         IF pat[y] = "%" THEN cut[y] <= cut[y + 1]
         ELSE cut[y + 1] = cut[y] + 1 /\ pat[y] \in {"_", v[cut[y]]}
AtMost(col, a, b) ==
  IF col \in IntColumns /\ {a, b} \cap BigInts = {} THEN Number(a) <= Number(b) ELSE ~Less(col, b, a)
CondMeans(p, v) ==
  LET col == tokens[p]
      op == tokens[p + 1]
      a == tokens[p + 2]
      same == AtMost(col, a, v) /\ AtMost(col, v, a)
  IN  /\ op = <<"LIKE">> => (HoldsAt(p) <=> LikeMeans(v, a))
      /\ op = <<"BETWEEN">> =>
           (HoldsAt(p) <=> AtMost(col, a, v) /\ AtMost(col, v, tokens[p + 4]))
      /\ op = <<"<", "=">> => (HoldsAt(p) <=> AtMost(col, v, a))
      /\ op = <<">">> => (HoldsAt(p) <=> ~AtMost(col, v, a))
      /\ op = <<"<">> => (HoldsAt(p) <=> ~AtMost(col, a, v))
      /\ op = <<">", "=">> => (HoldsAt(p) <=> AtMost(col, a, v))
      /\ op = <<"=">> => (HoldsAt(p) => same)
      /\ op = <<"=">> /\ col \notin IntColumns => (same => HoldsAt(p))
      /\ op \in Differs => (~HoldsAt(p) => same)
      /\ op \in Differs /\ col \notin IntColumns => (same => ~HoldsAt(p))
ConditionsMean ==
  phase = "matched" =>
    /\ \A k \in 1..Len(conds) : CondMeans(conds[k], row[tokens[conds[k]]])
    /\ Matches <=> OrOfAnds
=============================================================================
