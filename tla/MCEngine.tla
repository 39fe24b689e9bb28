------------------------------ MODULE MCEngine ------------------------------
(* TLC instances of Engine: a parent table P and a child C that refers to it. *)
EXTENDS Engine

Parent == [name |-> "P", cols |-> <<"ID">>, types |-> <<"I">>,
           pk |-> 1, ixs |-> << >>, fks |-> << >>]
Child == [name |-> "C", cols |-> <<"ID", "PID">>, types |-> <<"I", "I">>,
          pk |-> 1, ixs |-> << >>,
          fks |-> << [col |-> 2, table |-> "P", ref |-> "ID"] >>]
ParentAndChild == {Parent, Child}

(* Two tables whose indexes may have the same names; the second takes one row *)
(* where OneInt are the integers.                                            *)
Indexed == [name |-> "P", cols |-> <<"ID", "V">>, types |-> <<"T", "T">>,
            pk |-> 1, ixs |-> << >>, fks |-> << >>]
Namesake == [Parent EXCEPT !.name = "Q"]
IndexedAndNamesake == {Indexed, Namesake}
IndexedOnly == {Indexed}
Ints == {"1", "2"}
OneInt == {"1"}
=============================================================================
