------------------------------ MODULE MCInput ------------------------------
(* TLC instances of Input: statements of one or two lines, lines of up to   *)
(* six characters, with each character that the loop treats as a key, and   *)
(* the first part of a line longer than any statement.                      *)
EXTENDS Input

TypedLines ==
  {<<"S", "x">>, <<"S", "x", "semi">>, <<"x", "semi">>, <<"blank", "x", "x">>,
   <<"'", "x", "x", "semi">>, <<"'", "x", "semi">>, <<"'", "semi">>,
   <<"@", "x", "semi">>, <<"low", "semi">>, <<".TABLES">>, <<".REPEAT">>,
   <<".CLEAR", "semi">>, <<".QUIT">>,
   <<"semi">>, <<"blank">>, <<"S", "x", "x", "x", "x", "semi">>,
   <<"S", "x", "x", "x", "x", "x", "x">>}

Edited ==
  {<<"S", "x">>, <<"x">>, <<"nul", "S", "x", "semi">>, <<".TABLES">>,
   <<"S", "x", "x", "x", "x", "semi">>, <<"blank">>}
=============================================================================
