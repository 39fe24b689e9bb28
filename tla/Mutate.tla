------------------------------- MODULE Mutate -------------------------------
(***************************************************************************)
(* The texts of INSERT, UPDATE and DELETE (src/src/mutate.c): how each is  *)
(* cut into names, values and a WHERE clause, and what it then does to the *)
(* one row of RowCodec.  A text begins after the words that execute knows  *)
(* the statement by.  A WHERE clause is one condition with = here.         *)
(***************************************************************************)
EXTENDS RowCodec

CONSTANTS
  Table,   \* name of the table
  Names,   \* names of its columns, a sequence
  Asked    \* statements, see Spell

(* Names are what valid_name accepts, in a buffer that MAX_VALUE exceeds.   *)
ASSUME NamesAssumption ==
  /\ Table \in Seq(STRING) /\ ValidName(Table)
  /\ Names \in Seq(Seq(STRING)) /\ Len(Names) = Columns
  /\ \A c \in 1..Columns : ValidName(Names[c]) /\ Len(Names[c]) < MaxValue
  /\ \A c, d \in 1..Columns : Names[c] = Names[d] => c = d

VARIABLES
  asked,   \* the latest statement
  answer,  \* "OK", "ERR", or "none" between statements
  before   \* the row as its user knew it before the statement

vars == <<rowVars, asked, answer, before>>

None == << >>
NoWhere == <<"NULL">>    \* the statement has no WHERE
NoStatement == [op |-> "NONE"]
-----------------------------------------------------------------------------
(* Statements and their texts.  extra is text no statement should have: a   *)
(* list of columns (before VALUES), more rows, more assignments, a          *)
(* misspelt WHERE.                                                          *)
Quoted(v) == <<Quote>> \o v \o <<Quote>>
IsValue(v) == v \in Seq(STRING \ {"NULL", Quote})
Writes(f, v) ==
  \E gap \in {<< >>, <<Blank>>} :
    f = gap \o Quoted(v) \/ (f = gap \o v /\ v = Trim(v) /\ Comma \notin Range(v))
ASSUME AskedAssumption ==
  \A q \in Asked :
    /\ q.op \in {"INSERT", "UPDATE", "DELETE"}
    /\ q.op = "INSERT" =>
         /\ q.values \in Seq(Seq(STRING)) /\ Len(q.values) = Columns
         /\ q.fields \in Seq(Seq(STRING)) /\ Len(q.fields) = Columns
         /\ \A c \in 1..Columns : IsValue(q.values[c]) /\ Writes(q.fields[c], q.values[c])
    /\ q.op = "UPDATE" => q.col \in 1..Columns /\ IsValue(q.value) /\ Writes(q.field, q.value)
    /\ q.wcol # None => q.wcol \in Range(Names) /\ IsValue(q.wvalue) /\ Len(q.wvalue) <= MaxValue

SpellIf(present, symbols) == IF present THEN <<Blank>> \o symbols ELSE << >>
SpellWhere(q) ==
  SpellIf(q.wcol # None, <<"WHERE", Blank>> \o q.wcol \o <<"=">> \o Quoted(q.wvalue))
Spell(q) ==
  <<Blank>> \o Table
  \o CASE q.op = "INSERT" ->
            SpellIf(q.before # None, q.before)
            \o <<Blank, "VALUES", Blank, "(">> \o Join(q.fields) \o <<")">> \o q.extra
       [] q.op = "UPDATE" ->
            <<Blank, "SET", Blank>> \o Names[q.col] \o <<"=">> \o q.field \o q.extra \o SpellWhere(q)
       [] q.op = "DELETE" -> SpellIf(q.extra # None, q.extra) \o SpellWhere(q)
-----------------------------------------------------------------------------
(* The text before and after the letters w, in a literal as well. *)
Cut(s, w) ==
  LET at == FindI(s, w)
  IN  [found |-> at > 0, before |-> SubSeq(s, 1, at - 1), after |-> SubSeq(s, at + 1, Len(s))]

(* parse_where skips the letters WHERE once: in cmd_delete those it was      *)
(* found by, in cmd_update a second WHERE.                                  *)
Skipped(s) == IF LTrim(s) # << >> /\ Head(LTrim(s)) = "WHERE" THEN Tail(LTrim(s)) ELSE s
ConditionOf(t) == IF Len(t) = 3 /\ t[1] \in Range(Names) /\ t[2] = <<"=">> THEN t ELSE None
Condition(cut, rest) == IF cut.found THEN ConditionOf(Tokens(rest)) ELSE NoWhere
Position(name) == SelectInSeq(Names, LAMBDA n : n = name)
Refusal == [ok |-> FALSE]

(* cmd_insert: the values stand between the first "(" after VALUES and the  *)
(* last ")".  (Slip: the first ")" ends them.)                              *)
ClosingFirst(s) == SelectInSeq(s, LAMBDA c : c = ")")
Closing(s) == SelectLastInSeq(s, LAMBDA c : c = ")")
ListIn(open) == SubSeq(open.after, 1, Closing(open.after) - 1)
CutInsert(open) ==
  IF open.found /\ Closing(open.after) > 0 /\ Readable(ListIn(open))
    THEN [ok |-> TRUE, list |-> ListIn(open)] ELSE Refusal
CutValues(values) == IF values.found THEN CutInsert(Cut(values.after, "(")) ELSE Refusal

(* cmd_update: the text between SET and WHERE is cut at its first "=".      *)
AssignmentOf(col, set, cond) ==
  IF col > 0 /\ cond # None THEN [ok |-> TRUE, col |-> col, set |-> set, cond |-> cond] ELSE Refusal
CutAssignment(to, cond) ==
  IF to.found THEN AssignmentOf(Position(CleanToken(CutValue(to.before))), to.after, cond) ELSE Refusal
CutWhere(set, where) ==
  CutAssignment(Cut(IF where.found THEN where.before ELSE set.after, "="), Condition(where, Skipped(where.after)))
CutUpdate(set) == IF set.found THEN CutWhere(set, Cut(set.after, "WHERE")) ELSE Refusal

(* cmd_delete *)
Clause(cond) == IF cond # None THEN [ok |-> TRUE, cond |-> cond] ELSE Refusal
CutDelete(where) == Clause(Condition(where, where.after))

(* What a statement is understood to say. *)
CutStatement(op, s) ==
  IF NameAt(LTrim(s)) # Table THEN Refusal
  ELSE CASE op = "INSERT" -> CutValues(Cut(AfterName(LTrim(s)), "VALUES"))
         [] op = "UPDATE" -> CutUpdate(Cut(AfterName(LTrim(s)), "SET"))
         [] op = "DELETE" -> CutDelete(Cut(AfterName(LTrim(s)), "WHERE"))
Said(q) == CutStatement(q.op, Spell(q))
-----------------------------------------------------------------------------
(* The statements README.md:682-684 describes, and those of them whose value *)
(* or names hold the keyword cmd_update searches for.                       *)
Supported(q) == q.before = None /\ q.extra = None
HidesWhere(q) == q.op = "UPDATE" /\ "WHERE" \in Range(q.value)
NamesWhere(q) == q.op = "UPDATE" /\ "WHERE" \in Range(Names[q.col]) \cup Range(q.wcol)

(* Bound: what a statement that is neither of the first kind nor refused    *)
(* has stored is not followed.                                              *)
Ordinary(q) == Supported(q) /\ ~HidesWhere(q) /\ ~NamesWhere(q)
Followed == answer = "OK" => Ordinary(asked)

Init == RowInit /\ asked = NoStatement /\ answer = "none" /\ before = None

(* A row one of whose values did not keep is not what its user knows.  Once  *)
(* such a row is changed, any column may hold what was meant for another.    *)
NotKept == << <<"NULL">> >>
Mixed == << <<"NULL">>, <<"NULL">> >>
Unknown == {NotKept, Mixed}
Known ==
  IF record = NoRecord THEN None
  ELSE IF before \in Unknown THEN Mixed
  ELSE IF \A c \in 1..Columns : Plain(c) THEN wanted ELSE NotKept

Refused == answer' = "ERR" /\ UNCHANGED rowVars
Accepted(change) == answer' = "OK" /\ change
(* (Slip: the condition is read and not applied.) *)
MatchesAny(cond) == TRUE
Matches(cond) == cond = NoWhere \/ ParseCsv(record)[Position(cond[1])] = cond[3]

(* The table cannot be read, or the text not understood, or the statement   *)
(* does what it was understood to say.                                      *)
InsertInto(q) ==
  /\ q.op = "INSERT" /\ record = NoRecord
  /\ IF Said(q).ok THEN Accepted(Insert(q.values, q.fields, Said(q).list)) ELSE Refused

Change(q, matched) ==
  IF ~Said(q).ok \/ ~Readable(record) THEN Refused
  ELSE Accepted(IF Matches(Said(q).cond) THEN matched ELSE Rewrite)

UpdateSet(q) ==
  /\ q.op = "UPDATE" /\ record # NoRecord
  /\ Change(q, Update(Said(q).col, q.value, q.field, Said(q).set))

DeleteFrom(q) ==
  /\ q.op = "DELETE" /\ record # NoRecord
  /\ Change(q, Delete)

(* The statement is done; the next one may be typed. *)
Done ==
  /\ answer # "none" /\ Followed
  /\ asked' = NoStatement /\ answer' = "none"
  /\ before' = IF answer = "OK" THEN Known ELSE before
  /\ UNCHANGED rowVars

Statement(q) == asked' = q /\ (InsertInto(q) \/ UpdateSet(q) \/ DeleteFrom(q))
Next ==
  \/ \E q \in Asked : answer = "none" /\ UNCHANGED before /\ Statement(q)
  \/ Rewrite /\ answer = "none" /\ UNCHANGED <<asked, answer, before>>
  \/ Done

Spec == Init /\ [][Next]_vars
-----------------------------------------------------------------------------
(* A row is read back as written, however often the table is rewritten, if  *)
(* all its values are plain (parse_csv after save_rows after parse_csv).    *)
Stored == record # NoRecord /\ Followed
AllPlain == \A c \in 1..Columns : Plain(c)
PlainKeeps ==
  Stored /\ before # Mixed /\ ~(before = NotKept /\ answer = "OK") =>
    (AllPlain => ParseCsv(record) = wanted)

(* And only if.  So README.md:647, "One column value may have at most 32    *)
(* characters", is true of bare values only: quotes count as well.  Of a    *)
(* row that was changed again after a value of it was lost nothing is said: *)
(* new plain values for the columns that were not may leave others wrong.   *)
OnlyPlainKeeps ==
  Stored /\ before # Mixed /\ ~(before = NotKept /\ answer = "OK") =>
    (ParseCsv(record) = wanted => AllPlain)

(* What a statement means for the row, extra text left out. *)
Meets(q) == q.wcol = None \/ before[Position(q.wcol)] = Trim(q.wvalue)
Meant(q) ==
  IF q.op = "INSERT" THEN q.values
  ELSE IF ~Meets(q) THEN before
  ELSE IF q.op = "UPDATE" THEN [before EXCEPT ![q.col] = q.value]
  ELSE None
PlainFields(q) ==
  /\ q.op = "INSERT" => \A c \in 1..Columns : IsPlain(q.values[c], q.fields[c])
  /\ q.op = "UPDATE" => IsPlain(q.value, q.field)
Row == IF record = NoRecord THEN None ELSE ParseCsv(record)

(* A statement of plain values, written as the documentation says, is       *)
(* answered OK and does what it says, to the row that its WHERE clause      *)
(* names, whatever keywords the literals hold (cmd_insert, cmd_update,      *)
(* cmd_delete).                                                             *)
PlainAsked == answer # "none" /\ before \notin Unknown /\ PlainFields(asked)
DoesAsAsked ==
  PlainAsked /\ Ordinary(asked) => answer = "OK" /\ Row = Meant(asked)

(* The marks a text leaves in a value that was cut out of it at a wrong     *)
(* place.                                                                   *)
Marked(v) == Range(v) \cap {Quote, "(", ")"} # {}

(* Other text is refused, or ignored (a list of columns; what follows the   *)
(* table name of a DELETE, unless it contains WHERE: the row is deleted), or *)
(* stored as a part of a value (what follows the values of an INSERT, or    *)
(* the value of an UPDATE, up to WHERE; a second assignment can leave a row *)
(* nobody can read).  A value that contains WHERE is cut there, or it makes *)
(* an UPDATE fail, or answer OK and change nothing, what follows WHERE in   *)
(* it being the condition (cmd_insert, cmd_update, cmd_delete).  For names  *)
(* that contain it see Where.                                               *)
ChangesAsMeant ==
  PlainAsked /\ ~Ordinary(asked) /\ ~NamesWhere(asked) =>
    \/ answer = "ERR" /\ Row = before
    \/ answer = "OK" /\ Row = IF HidesWhere(asked) THEN before ELSE Meant(asked)
    \/ /\ answer = "OK" /\ asked.op # "DELETE"
       /\ Len(Row) # Columns \/ \E c \in 1..Columns : Marked(Row[c])
=============================================================================
