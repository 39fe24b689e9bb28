------------------------------ MODULE MCMutate ------------------------------
(* TLC instances of Mutate: three text columns, values around the length of 6  *)
(* that MAX_VALUE is here, and statements with text too much.                *)
EXTENDS Mutate

TheTable == <<"T">>
TheNames == << <<"C">>, <<"S", "SET">>, <<"D">> >>

Long(n) == [k \in 1..n |-> "A"]
Chars == {"A", " ", ","}
Values ==
  UNION {[1..n -> Chars] : n \in 0..2}
  \cup {Long(4), Long(5), Long(6), <<"A", "A", "A", ",">>, <<"A", ",", "A", "A">>}

(* The ways to write a value: bare or in quotes, after a blank or not.      *)
Spellings(v) ==
  LET bare == IF v = Trim(v) /\ Comma \notin Range(v) THEN {v} ELSE {}
  IN  UNION {{s, <<Blank>> \o s} : s \in bare \cup {Quoted(v)}}

Nothing ==
  [before |-> None, extra |-> None, values |-> None, fields |-> None, col |-> 1,
   value |-> None, field |-> None, wcol |-> None, wvalue |-> None]
Ins(values, fields) ==
  [op |-> "INSERT"] @@ [[Nothing EXCEPT !.values = values] EXCEPT !.fields = fields]
Upd(c, v, f) ==
  [op |-> "UPDATE"] @@ [[[Nothing EXCEPT !.col = c] EXCEPT !.value = v] EXCEPT !.field = f]
Del == [op |-> "DELETE"] @@ Nothing
If(q, c, v) == [[q EXCEPT !.wcol = TheNames[c]] EXCEPT !.wvalue = v]

Plainly(v) == Upd(1, v, Quoted(v))
Tricky ==
  {<<"A", ")">>, <<"(", "A">>, <<"=">>, <<"VALUES">>, <<"SET">>, <<"WHERE">>, <<"A", "WHERE">>,
   <<"A", "WHERE", "C", "=", "A">>, <<"WHERE", "C", "=", "A">>}

Others == {<<"A">>, <<"A", ",">>, Long(5)}
TypedInserts ==
  UNION {{Ins(<<v1, v2, <<"A">>>>, <<f1, f2, <<"A">>>>) : f1 \in Spellings(v1), f2 \in Spellings(v2)} :
           v1 \in Values, v2 \in Others}
TypedUpdates ==
  {Upd(c, v, Quoted(v)) : c \in 1..3, v \in {<<"A">>, Long(5)}}
  \cup {Upd(1, v, Quoted(v)) : v \in {<<"A", ",">>, Long(4)}} \cup {Upd(1, Long(5), Long(5))}
Compared == {<< >>, <<"A">>, <<"A", " ">>, Long(6)}
Short(v) == Ins(<<v, <<"B">>, <<"B">>>>, <<Quoted(v), <<Quote, "B", Quote>>, <<"B">>>>)
TrickyOnes ==
  {Short(v) : v \in Tricky} \cup {Plainly(v) : v \in Tricky}
  \cup UNION {{If(Plainly(v), 2, <<"B">>), If(Plainly(<<"A">>), 1, v), If(Del, 1, v)} : v \in Tricky}
  \cup {If(Plainly(<<"A">>), c, v) : c \in 1..2, v \in Compared}
  \cup {Del} \cup {If(Del, c, v) : c \in 1..2, v \in Compared}
Simple == <<<<"A">>, <<"B">>, <<"B">>>>
Extras ==
  {[Short(<<"A">>) EXCEPT !.before = <<"(", "S", "SET", ",", "C", ")">>],
   [Ins(Simple, Simple) EXCEPT !.extra = <<",", "(", "A", ",", "B", ",", "B", ")">>],
   [Short(<<"A">>) EXCEPT !.extra = <<" ", "X", "(", "C", ")">>],
   [Short(<<"A">>) EXCEPT !.extra = <<" ", "X">>],
   [Plainly(<<"A">>) EXCEPT !.extra = <<",", "S", "SET", "=", "'", "B", "'">>],
   [Plainly(<<"A">>) EXCEPT !.extra = <<" ", "X", " ", "C", "=", "'", "B", "'">>],
   [Upd(1, <<"A">>, <<"A">>) EXCEPT !.extra = <<",", "S", "SET", "=", "B">>],
   [If(Plainly(<<"A">>), 2, <<"B">>) EXCEPT !.extra = <<" ", "X">>],
   [Del EXCEPT !.extra = <<"X", " ", "C", "=", "'", "B", "'">>],
   [If(Del, 1, <<"B">>) EXCEPT !.extra = <<"X">>]}

Statements == TypedInserts \cup TypedUpdates \cup TrickyOnes \cup Extras
=============================================================================
