------------------------------ MODULE MCSelect ------------------------------
(* TLC instances of Select and Join: a table T with an INT column and a text *)
(* column, and a table U whose second column has a name of MAX_NAME letters. *)
EXTENDS Join

TheTable == <<"T">>
TheCols == << <<"I">>, <<"C">> >>
OneInt == {<<"I">>}

Row(n, w) == (<<"I">> :> n) @@ (<<"C">> :> w)
One == Row(<<"1">>, <<"A">>)
Contents ==
  {<< >>,
   << Row(<<"2">>, <<"B">>), One, Row(<<"2">>, <<"A">>) >>,
   << One, Row(<<"-", "1">>, <<"B">>), One >>,
   << Row(<<"0", "1">>, <<"A">>), One, Row(<<"1">>, << >>) >>,
   << Row(<<"3">>, << >>), One, Row(<<"2">>, << >>), Row(<<"1">>, <<"B">>) >>}

All == [star |-> TRUE, cols |-> None, agg |-> NotOne, col |-> None, op |-> None, value |-> None,
        quote |-> None, group |-> None, order |-> None, desc |-> FALSE, limit |-> None]
List(cols, agg) == [All EXCEPT !.star = FALSE, !.cols = cols, !.agg = agg]
Plain == {All, List(<< <<"C">> >>, NotOne), List(<< <<"C">>, <<"I">> >>, NotOne)}
Totals ==
  {List(None, Aggregate("COUNT", None))}
  \cup {List(None, Aggregate(k, c)) : k \in Kinds \ {"COUNT"}, c \in Range(TheCols)}
PerGroup ==
  {All} \cup {List(<< <<"C">> >>, agg) :
               agg \in {NotOne, Aggregate("COUNT", None), Aggregate("SUM", <<"I">>),
                        Aggregate("MIN", <<"I">>), Aggregate("MAX", <<"C">>)}}

If(q, col, op, value, quote) ==
  [q EXCEPT !.col = col, !.op = op, !.value = value, !.quote = quote]
Wheres(q) ==
  {q, If(q, <<"I">>, <<"=">>, <<"1">>, None), If(q, <<"C">>, <<"=">>, <<"A">>, <<Quote>>),
   If(q, <<"C">>, <<"<">>, <<"B">>, <<Quote>>), If(q, <<"I">>, <<"<">>, <<"A">>, None)}
  \cup {If(q, <<"C">>, <<"=">>, <<"A", Blank, w, Blank, "1">>, <<Quote>>) :
          w \in {"JOIN", "FROM"} \cup Range(Keywords)}
Limits == {None, <<"0">>, <<"1">>, <<"9">>, <<"1", "6">>}
Tails(q) ==
  {[[[q EXCEPT !.order = o] EXCEPT !.desc = d] EXCEPT !.limit = n] :
     o \in {None, <<"I">>, <<"C">>, <<"COUNT">>}, d \in BOOLEAN, n \in Limits}
  \ {x \in {[[q EXCEPT !.desc = TRUE] EXCEPT !.limit = n] : n \in Limits} : x.order = None}

Questions ==
  UNION {Wheres(q) : q \in Plain \cup Totals}
  \cup UNION {Wheres([q EXCEPT !.group = <<"C">>]) : q \in PerGroup \cup Plain}
  \cup UNION {Tails(q) : q \in {List(<< <<"C">>, <<"I">> >>, NotOne), List(None, Aggregate("MAX", <<"I">>))}}
  \cup UNION {Tails([q EXCEPT !.group = <<"C">>]) :
                q \in {All, List(<< <<"C">> >>, Aggregate("SUM", <<"I">>))}}

-----------------------------------------------------------------------------
OtherName == <<"U">>
TheOtherCols == << <<"K">>, <<"K", "K">> >>
OtherRow(k, kk) == (<<"K">> :> k) @@ (<<"K", "K">> :> kk)
OtherContents == {<< >>, << OtherRow(<<"A">>, <<"1">>), OtherRow(<<"B">>, <<"1">>) >>}
TwoRows == {<< One, Row(<<"2">>, <<"A">>) >>, << Row(<<"0", "1">>, <<"B">>), One >>}

At1(col) == [side |-> 1, col |-> col]
At2(col) == [side |-> 2, col |-> col]
At0(col) == [side |-> 0, col |-> col]
Of(left, lalias, right, ralias, lcol, rcol) ==
  [list |-> None, left |-> left, lalias |-> lalias, right |-> right, ralias |-> ralias,
   as |-> FALSE, kind |-> None, on |-> <<At1(lcol), At2(rcol)>>,
   where |-> At1(lcol), value |-> None, tail |-> None]
TandU == Of(TheTable, None, OtherName, None, <<"C">>, <<"K">>)
UandT == Of(OtherName, None, TheTable, None, <<"K">>, <<"C">>)
Nums == Of(OtherName, <<"A">>, TheTable, <<"B">>, <<"K", "K">>, <<"I">>)
Selves == Of(TheTable, <<"A">>, TheTable, <<"B">>, <<"C">>, <<"C">>)
Same == Of(TheTable, None, TheTable, None, <<"I">>, <<"I">>)
Long == Of(TheTable, None, OtherName, None, <<"I">>, <<"K", "K">>)
Bases == {TandU, UandT, Nums, Selves, Same, Long}

Filtered(w) ==
  {[[w EXCEPT !.where = c] EXCEPT !.value = <<"A">>] : c \in {At1(w.on[1].col), At2(w.on[2].col)}}
  \cup {[[w EXCEPT !.where = At0(w.on[1].col)] EXCEPT !.value = <<"A">>]}
Listed(w) ==
  {[w EXCEPT !.list = <<At2(w.on[2].col), At1(w.on[1].col)>>],
   [w EXCEPT !.list = <<At1(w.on[1].col), At0(w.on[2].col)>>],
   [[w EXCEPT !.list = <<At2(w.on[2].col)>>] EXCEPT !.as = TRUE]}
Odd(w) ==
  {[w EXCEPT !.on = <<w.on[2], w.on[1]>>],
   [w EXCEPT !.kind = <<"INNER">>], [w EXCEPT !.kind = <<"LEFT">>],
   [w EXCEPT !.tail = <<"LIMIT", Blank, "1">>], [w EXCEPT !.tail = <<"WHERE">>],
   [[w EXCEPT !.tail = <<"ORDER BY", Blank, "I">>] EXCEPT !.value = <<"A">>]}
JoinQuestions == Bases \cup UNION {Filtered(w) \cup Listed(w) \cup Odd(w) : w \in Bases}
=============================================================================
