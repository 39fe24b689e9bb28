------------------------------- MODULE MCWhere -------------------------------
(* TLC instances of Where: a table with an INT column I, a text column C and *)
(* text columns whose names begin with WHERE.                                *)
EXTENDS Where

TableColumns == {<<"I">>, <<"C">>, <<"WHERE", "C">>, <<"WHERE">>}
OneInt == {<<"I">>}
Big == {<<"1", "2">>}
TooBig == {9, -10}

Ints == {<<"2">>, <<"0", "3">>, <<"-", "1">>} \cup Big
Words == {<< >>, <<"A">>, <<"A", "B">>, <<"B", "A", "B">>}
TableRows ==
  {(<<"I">> :> n) @@ (<<"C">> :> w) @@ (<<"WHERE", "C">> :> <<"A">>) @@ (<<"WHERE">> :> << >>) : n \in Ints, w \in Words}

Cond(c, o, a, b) == [col |-> c, op |-> o, low |-> a, high |-> b]
Between(c, a, b) == Cond(c, <<"BETWEEN">>, a, b)
Simple ==
  {Cond(<<"I">>, o, a, << >>) : o \in Comparisons, a \in Ints \cup {<<"3">>, <<"A">>}}
  \cup {Between(<<"I">>, a, b) : a \in Ints, b \in Ints}
  \cup {Cond(c, o, a, << >>) : c \in TableColumns \ OneInt,
                               o \in Comparisons, a \in Words \cup {<<" ", "A">>}}
  \cup {Cond(<<"C">>, <<"LIKE">>, p, << >>) :
          p \in UNION {[1..n -> {"A", "_", "%"}] : n \in 0..3}}
Few ==
  {Cond(<<"C">>, <<"=">>, <<"A">>, << >>), Cond(<<"I">>, <<">">>, <<"2">>, << >>),
   Between(<<"C">>, << >>, <<"A", "B">>)}
Questions ==
  {[conds |-> <<c>>, joins |-> << >>] : c \in Simple}
  \cup UNION {[conds : [1..n -> Few], joins : [1..n - 1 -> {"AND", "OR"}]] : n \in 2..4}

(* Texts of up to six tokens. *)
Pieces == {<<"C">>, <<"=">>, <<"A">>, <<"AND">>, <<"BETWEEN">>}
Jumble ==
  {FlattenSeq([k \in 1..Len(s) |-> s[k] \o <<" ">>]) : s \in UNION {[1..n -> Pieces] : n \in 0..6}}
=============================================================================
