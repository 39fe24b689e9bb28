------------------------------- MODULE Input -------------------------------
(* Statement input and recall: the loop of run_processor in process.c, the  *)
(* line tests of parser.c and the 3270 screen of terminal3270.h.  A text is *)
(* a sequence of characters; what the code tells apart is one character     *)
(* each: "S" is any word that starts a command, ".QUIT", ".CLEAR",          *)
(* ".REPEAT" and ".TABLES" the commands that start with a point, "x" any    *)
(* other character, "blank" and "semi" the blank and the semicolon, "nul"   *)
(* the byte 0 of an erased screen cell.  A line is what one fgets returns:  *)
(* of a longer line the first part, then the rest as a line of its own.     *)
(* The terminal hands over bytes, and on the host those of the Enter, PF12  *)
(* and Clear keys are the characters ' @ and the underscore "low".          *)
EXTENDS Integers, Sequences, SequencesExt

CONSTANTS
  MaxStatement,  \* MAX_STATEMENT: the size of the statement buffer
  TermCapacity,  \* TERM_CAPACITY: the cells of the recall screen's field
  Lines,         \* the lines that are typed
  Edits,         \* what is made of a recalled statement, besides nothing
  MaxLines,      \* bound: lines typed without anything having run
  MaxFaults      \* bound: terminal calls that fail

(* A statement that the recall screen can show fits into the buffer again.  *)
ASSUME RecallFits == TermCapacity + 3 <= MaxStatement

(* The field ends where its protected neighbour begins.  A key types no      *)
(* order of the terminal, and a byte 0 only stands in an erased cell.       *)
Orders == {"SBA0", "SBA3", "SBA6"}
ASSUME EditsFit == \A t \in Edits : Len(t) <= TermCapacity
ASSUME InputAssumption ==
  /\ {MaxStatement, TermCapacity, MaxFaults} \subseteq Nat
  /\ Lines \subseteq Seq(STRING \ (Orders \cup {"nul"}))
  /\ Edits \subseteq Seq(STRING \ Orders)

VARIABLES
  interactive, \* the parameter of run_processor: MSQLTSO or MINISQL
  open,        \* the loop still runs
  stmt,        \* the statement collected so far
  last,        \* g_last_statement
  recalling,   \* recall_active
  screen,      \* the recalled text the display shows, <<>> when it shows none
  faults,      \* terminal calls that failed so far
  input,       \* the input of the latest pass of the loop
  typed,       \* the lines typed since the user last saw a statement end
  ran,         \* what the latest pass gave to execute, with the lines typed for it
  latest       \* the latest SQL that ran, and the line that ended it

vars == <<interactive, open, stmt, last, recalling, screen, faults, input,
          typed, ran, latest>>

-----------------------------------------------------------------------------
(* Characters and lines (parser.c).                                         *)

Dots == {".QUIT", ".CLEAR", ".REPEAT", ".TABLES"}

Blanks == {"blank"}

Trim(t) ==
  LET solid == {k \in DOMAIN t : t[k] \notin Blanks} IN
  IF solid = {} THEN <<>>
  ELSE SubSeq(t, CHOOSE k \in solid : \A m \in solid : k <= m,
                 CHOOSE k \in solid : \A m \in solid : m <= k)

IsDot(p) == p # <<>> /\ Head(p) \in Dots

StartsCommand(p) == p # <<>> /\ Head(p) \in Dots \cup {"S"}

(* (Slip: a line that starts no command is stray whatever it ends.)         *)
StrayWhatever(p) == ~StartsCommand(p)

(* A line that starts nothing and ends nothing, typed when nothing is       *)
(* collected.                                                               *)
Stray(p) == ~StartsCommand(p) /\ ~Contains(p, "semi")

Is(p, command) == p \in {<<command>>, <<command, "semi">>}

JoinLine(s, p) == IF s = <<>> THEN p ELSE s \o <<"blank">> \o p

(* (Slip: only the new line is measured.)                                   *)
TooLongAlone(s, p) == Len(p) + 2 >= MaxStatement

TooLong(s, p) == Len(s) + Len(p) + 2 >= MaxStatement

-----------------------------------------------------------------------------
(* The 3270 terminal (terminal3270.h, external below it).  An input is one  *)
(* key with the field it sends: Read Modified gives the key's byte, the     *)
(* cursor and, after a set-buffer-address order, the field's bytes.         *)

FieldStart == 6

Address == [SBA0 |-> 0, SBA3 |-> 3, SBA6 |-> FieldStart]

KeyByte == [enter |-> "'", pf12 |-> "@", clear |-> "low", pf3 |-> "3"]

Typed(t) == [by |-> "line", at |-> "none", text |-> t]

NoInput == [by |-> "nobody", at |-> "none", text |-> <<>>]

Pressed(key, at, t) == [by |-> key, at |-> at, text |-> t]

(* The bytes msqtget returns.  Clear sends its own byte only, and a         *)
(* malformed response has no order.                                         *)
Raw(e) ==
  CASE e.by = "line"  -> e.text
    [] e.by = "clear" -> <<KeyByte.clear>>
    [] OTHER -> <<KeyByte[e.by], "cur", "cur">>
                \o (IF e.at = "none" THEN <<>> ELSE <<e.at>>) \o e.text

(* An erased cell is a blank.                                               *)
Seen(c) == IF c = "nul" THEN "blank" ELSE c

Malformed == <<"malformed">>

(* The text so far with character c in cell at, blanks up to it.            *)
PutAt(out, at, c) ==
  [k \in 1 .. (IF at < Len(out) THEN Len(out) ELSE at + 1) |->
    IF k = at + 1 THEN c ELSE IF k <= Len(out) THEN out[k] ELSE "blank"]

(* (Slip: the last cell of the field is out of reach.)                      *)
ReachableButLast(recall, at) == at >= 0 /\ (recall => at < TermCapacity - 1)

Reachable(recall, at) == at >= 0 /\ (recall => at < TermCapacity)

(* One byte after the cursor: an order moves, a character is stored.        *)
TermByte(st, b, recall) ==
  IF b \in Orders
  THEN [st EXCEPT !.pos = Address[b],
                  !.out = IF ~recall /\ @ # <<>> /\ Last(@) # "blank"
                          THEN Append(@, "blank") ELSE @]
  ELSE LET at == IF recall THEN st.pos - FieldStart ELSE Len(st.out) IN
       IF st.pos < 0 \/ ~Reachable(recall, at) THEN [st EXCEPT !.bad = TRUE]
       ELSE [st EXCEPT !.out = PutAt(@, at, Seen(b)),
                       !.pos = @ + 1]

(* term_input: the field as a line, or Malformed.                           *)
RTrim(t) == SubSeq(t, 1, SelectLastInSeq(t, LAMBDA c : c # "blank"))

TermStart == [pos |-> -1, out |-> <<>>, bad |-> FALSE]

TermInput(raw, recall) ==
  LET after[k \in 3 .. Len(raw)] ==
        IF k = 3 THEN TermStart
        ELSE IF after[k - 1].bad THEN after[k - 1]
        ELSE TermByte(after[k - 1], raw[k], recall)
      end == after[Len(raw)]
  IN IF end.bad THEN Malformed ELSE RTrim(end.out)

(* term_recall_screen: a statement the field has no room for is refused.    *)
FitsScreen(t) == Len(t) <= TermCapacity

-----------------------------------------------------------------------------
(* Reading a line.                                                          *)

Nothing == [text |-> <<>>, lines |-> <<>>]

IsRepeatKey(raw) == interactive /\ raw # <<>> /\ Head(raw) = KeyByte.pf12

IsClearKey(raw) == interactive /\ raw # <<>> /\ Head(raw) = KeyByte.clear

IsEnterKey(raw) ==
  interactive /\ Len(raw) >= 3 /\ Head(raw) = KeyByte.enter

Line(raw) ==
  CASE IsRepeatKey(raw) -> <<".REPEAT">>
    [] IsClearKey(raw)  -> <<".CLEAR">>
    [] IsEnterKey(raw)  -> TermInput(raw, recalling)
    [] OTHER            -> raw

(* (Slip: only keys that send no field are told from lines.)                *)
IsOtherKeyBare(raw) ==
  /\ interactive /\ recalling
  /\ ~IsRepeatKey(raw) /\ ~IsClearKey(raw) /\ Len(raw) < 3

(* Any key but those three while the recall screen is up.                   *)
IsOtherKey(raw) ==
  /\ interactive /\ recalling
  /\ ~IsRepeatKey(raw) /\ ~IsClearKey(raw) /\ ~IsEnterKey(raw)

(* (Slip: Enter does not end the recall.)                                   *)
RecallingAfterEnter(raw) == recalling /\ ~IsClearKey(raw)

RecallingAfter(raw) == recalling /\ ~IsClearKey(raw) /\ ~IsEnterKey(raw)

(* The loop and the display disagree on whether a recalled statement is up. *)
Apart == recalling # (screen # <<>>)

Crossed == <<"crossed">>

(* The lines typed so far, as the user sees them: a key types nothing, and  *)
(* neither does .REPEAT or a stray line between two statements.  What is    *)
(* typed while loop and display disagree is marked.                         *)
TypedWith(e) ==
  LET p == Trim([k \in DOMAIN e.text |-> Seen(e.text[k])]) IN
  IF Apart /\ e.by \in {"line", "enter", "pf3"} THEN Append(typed, Crossed)
  ELSE IF \/ e.by \notin {"line", "enter"}
          \/ p = <<>> \/ Is(p, ".REPEAT")
          \/ (interactive /\ typed = <<>> /\ Stray(p))
  THEN typed ELSE Append(typed, p)

(* What the display shows of a recalled statement after the key: Clear      *)
(* erases it, any other key leaves the field as it was edited.              *)
Shown(e) == IF screen = <<>> \/ e.by = "clear" THEN <<>> ELSE e.text

(* A line of output, after which the recall screen may be gone or not.      *)
Wrote(e) == screen' \in {Shown(e), <<>>}

(* A call of msqtclr: the display is erased, or the call fails.             *)
Erase(e) ==
  \/ screen' = <<>> /\ faults' = faults
  \/ faults < MaxFaults /\ faults' = faults + 1 /\ screen' = Shown(e)

(* The terminal's inputs.  While the recall screen is up Enter sends what   *)
(* has become of the field; PF3 stands for every other key that sends it.   *)
(* The field is sent whole each time, as the program wrote it modified.     *)
Inputs ==
  IF ~interactive THEN {Typed(t) : t \in Lines}
  ELSE IF screen = <<>>
  THEN {Typed(t) : t \in Lines}
       \cup {Pressed("enter", at, <<"S", "x", "semi">>) :
               at \in {"SBA0", "none"}}
       \cup {Pressed(key, "none", <<>>) : key \in {"pf12", "clear"}}
  ELSE {Pressed("enter", "SBA3", screen), Pressed("clear", "none", <<>>)}
       \cup {Pressed(key, "SBA6", t) :
               key \in {"enter", "pf12", "pf3"}, t \in {screen} \cup Edits}

-----------------------------------------------------------------------------
(* One pass of the loop.                                                    *)

Init ==
  /\ interactive \in BOOLEAN
  /\ open = TRUE /\ stmt = <<>> /\ last = <<>>
  /\ recalling = FALSE /\ screen = <<>> /\ faults = 0
  /\ input = NoInput /\ typed = <<>>
  /\ ran = Nothing /\ latest = [text |-> <<>>, line |-> <<>>]

(* A malformed screen response is reported; the display is erased.          *)
InvalidInput(e) ==
  /\ IsEnterKey(Raw(e)) /\ Line(Raw(e)) = Malformed
  /\ Erase(e)
  /\ recalling' = RecallingAfter(Raw(e))
  /\ typed' = IF e.by = "enter" THEN typed ELSE TypedWith(e)
  /\ UNCHANGED <<open, stmt, last, latest>>

(* Another key shows the recall screen again; a failure is ignored.         *)
ShowAgain(e) ==
  /\ IsOtherKey(Raw(e))
  /\ \/ FitsScreen(last) /\ screen' = last /\ faults' = faults
        /\ typed' = <<>>
     \/ faults < MaxFaults /\ faults' = faults + 1
        /\ screen' = Shown(e) /\ typed' = TypedWith(e)
  /\ UNCHANGED <<open, stmt, last, recalling, latest>>

(* The line of an input that is neither of these.                           *)
IsLine(e, p) ==
  /\ ~IsOtherKey(Raw(e)) /\ Line(Raw(e)) # Malformed
  /\ p = Trim(Line(Raw(e)))

(* Nothing on the line, or nothing that starts or ends a statement.         *)
Skip(e, p) ==
  /\ p = <<>> \/ (interactive /\ stmt = <<>> /\ Stray(p))
  /\ recalling' = RecallingAfter(Raw(e)) /\ typed' = TypedWith(e)
  /\ Wrote(e)
  /\ UNCHANGED <<open, stmt, last, faults, latest>>

IsStatement(p) ==
  /\ p # <<>> /\ ~(interactive /\ stmt = <<>> /\ Stray(p))
  /\ p # <<".QUIT">> /\ ~Is(p, ".CLEAR") /\ ~Is(p, ".REPEAT")

Quit(e, p) ==
  /\ p = <<".QUIT">>
  /\ open' = FALSE /\ typed' = <<>>
  /\ recalling' = RecallingAfter(Raw(e)) /\ screen' = Shown(e)
  /\ UNCHANGED <<stmt, last, faults, latest>>

Clear(e, p) ==
  /\ Is(p, ".CLEAR")
  /\ stmt' = <<>> /\ typed' = <<>>
  /\ recalling' = RecallingAfter(Raw(e))
  /\ IF interactive THEN Erase(e) ELSE UNCHANGED <<screen, faults>>
  /\ UNCHANGED <<open, last, latest>>

(* .REPEAT with nothing to show, or more than the screen holds, is an       *)
(* error; in a job the text is printed.                                     *)
RepeatNot(e, p) ==
  /\ Is(p, ".REPEAT")
  /\ (last = <<>> \/ ~interactive \/ ~FitsScreen(last))
  /\ recalling' = RecallingAfter(Raw(e)) /\ typed' = TypedWith(e)
  /\ Wrote(e)
  /\ UNCHANGED <<open, stmt, last, faults, latest>>

(* (Slip: what was collected stays when the recall screen opens.)           *)
AfterRecallKept(s) == s

AfterRecall(s) == <<>>

Repeat(e, p) ==
  /\ Is(p, ".REPEAT")
  /\ interactive /\ last # <<>> /\ FitsScreen(last)
  /\ screen' = last /\ recalling' = TRUE
  /\ stmt' = AfterRecall(stmt) /\ typed' = <<>>
  /\ UNCHANGED <<open, last, faults, latest>>

(* The recall screen cannot be opened: an error and the prompt, below which *)
(* an older recall screen may or may not survive.                           *)
RepeatFails(e, p) ==
  /\ Is(p, ".REPEAT")
  /\ interactive /\ last # <<>> /\ FitsScreen(last)
  /\ faults < MaxFaults /\ faults' = faults + 1
  /\ Wrote(e)
  /\ recalling' = RecallingAfter(Raw(e)) /\ typed' = TypedWith(e)
  /\ UNCHANGED <<open, stmt, last, latest>>

(* A line too many: everything collected is dropped.                        *)
Drop(e, p) ==
  /\ IsStatement(p) /\ TooLong(stmt, p)
  /\ stmt' = <<>>
  /\ typed' = IF Contains(p, "semi") \/ IsDot(p) THEN <<>> ELSE TypedWith(e)
  /\ recalling' = RecallingAfter(Raw(e))
  /\ Wrote(e)
  /\ UNCHANGED <<open, last, faults, latest>>

Collect(e, p) ==
  /\ IsStatement(p) /\ ~TooLong(stmt, p)
  /\ ~Contains(p, "semi") /\ ~IsDot(p)
  /\ stmt' = JoinLine(stmt, p) /\ typed' = TypedWith(e)
  /\ recalling' = RecallingAfter(Raw(e)) /\ screen' = Shown(e)
  /\ UNCHANGED <<open, last, faults, latest>>

(* (Slip: commands are remembered too.)                                     *)
RememberedAlways(old, new, p) == new

(* The statement that recall will show: a line that starts with a point     *)
(* leaves it alone.                                                         *)
Remembered(old, new, p) == IF IsDot(p) THEN old ELSE new

(* The line ends the statement: it is remembered and given to execute.      *)
Run(e, p) ==
  /\ IsStatement(p) /\ ~TooLong(stmt, p)
  /\ Contains(p, "semi") \/ IsDot(p)
  /\ stmt' = <<>> /\ typed' = <<>>
  /\ last' = Remembered(last, JoinLine(stmt, p), p)
  /\ ran' = [text |-> JoinLine(stmt, p), lines |-> TypedWith(e)]
  /\ latest' = IF IsDot(JoinLine(stmt, p)) THEN latest
               ELSE [text |-> JoinLine(stmt, p), line |-> p]
  /\ recalling' = RecallingAfter(Raw(e))
  /\ IF interactive THEN Erase(e) ELSE UNCHANGED <<screen, faults>>
  /\ UNCHANGED open

(* The terminal or the job's input ends.                                    *)
EndOfInput ==
  /\ open /\ open' = FALSE /\ ran' = Nothing /\ input' = NoInput
  /\ UNCHANGED <<interactive, stmt, last, recalling, screen, faults, typed,
                 latest>>

Pass(e) ==
  \/ InvalidInput(e) /\ ran' = Nothing
  \/ ShowAgain(e) /\ ran' = Nothing
  \/ \E p \in {Trim(Line(Raw(e)))} :
       /\ IsLine(e, p)
       /\ \/ Skip(e, p) /\ ran' = Nothing
          \/ Quit(e, p) /\ ran' = Nothing
          \/ Clear(e, p) /\ ran' = Nothing
          \/ RepeatNot(e, p) /\ ran' = Nothing
          \/ Repeat(e, p) /\ ran' = Nothing
          \/ RepeatFails(e, p) /\ ran' = Nothing
          \/ Drop(e, p) /\ ran' = Nothing
          \/ Collect(e, p) /\ ran' = Nothing
          \/ Run(e, p)

(* Bound: what the terminal makes of orders inside a recalled statement is  *)
(* not followed.  Only a field read as a line brings them there.            *)
Followed == \A k \in DOMAIN last : last[k] \notin Orders

Next ==
  \/ \E e \in Inputs :
       /\ open /\ Len(typed) < MaxLines /\ Followed
       /\ input' = e /\ UNCHANGED interactive
       /\ Pass(e)
  \/ EndOfInput

Spec == Init /\ [][Next]_vars
-----------------------------------------------------------------------------
TypeOK ==
  /\ {interactive, open, recalling} \subseteq BOOLEAN
  /\ \A t \in {stmt, last, ran.text} : Len(t) <= MaxStatement - 2
  /\ Len(screen) <= TermCapacity /\ faults \in 0..MaxFaults
  /\ recalling => interactive /\ stmt = <<>> /\ FitsScreen(last)

(* What the lines typed for a statement come to: each is joined to those    *)
(* before it, a line too many takes them along, and in a session a line     *)
(* that starts nothing is lost when nothing is left before it.              *)
AddLine(s, p, session) ==
  IF TooLong(s, p) \/ (session /\ s = <<>> /\ Stray(p)) THEN <<>>
  ELSE JoinLine(s, p)

Gathered(lines, session) ==
  LET upto[k \in 0 .. Len(lines)] ==
        IF k = 0 THEN <<>> ELSE AddLine(upto[k - 1], lines[k], session)
  IN upto[Len(lines)]

(* A typed line whose first character is the byte of a key.                 *)
LooksLikeKey(t) == interactive /\ t # <<>> /\ Head(t) \in {"'", "@", "low"}

(* A line that looked like a key, or was typed while loop and display       *)
(* disagreed on the recall screen.                                          *)
Excused(lines) ==
  \E k \in DOMAIN lines : lines[k] = Crossed \/ LooksLikeKey(lines[k])

(* What runs is what was typed since the last statement ended, whatever     *)
(* keys, recalls and failing calls came between: all of it, or after a line *)
(* too many (process.c:309) exactly the lines behind that one: the tail of  *)
(* a statement too long runs on its own.                                    *)
RunsWhole ==
  ran # Nothing =>
    ran.text = Gathered(ran.lines, interactive) \/ Excused(ran.lines)

(* README.md:545: "PF12 or .REPEAT recall the last SQL statement": a pass   *)
(* that opens the recall screen, for whatever key, shows all of it, unless  *)
(* its last line began with a point.                                        *)
RecallsLast ==
  [][open' /\ recalling' /\ screen' # <<>> /\ faults' = faults
     /\ ~IsDot(latest'.line)
     => screen' = latest'.text]_vars

(* Enter on an unchanged recall screen runs the recalled statement again,   *)
(* though it passes through the field and the length test once more         *)
(* (term_recall_screen, term_input, process.c:309).                         *)
RecalledRuns ==
  [][recalling /\ input' = Pressed("enter", "SBA6", last) => ran'.text = last]_vars

(* README.md:547 and process.c:241: no key but Enter runs a statement or    *)
(* adds to one, or changes what is recalled.  Except one that sends a field *)
(* the loop believes gone, once loop and display have parted (PartWays): it *)
(* is read as a line, whose first character is the key's own.               *)
KeysRunNothing ==
  [][input'.by \in {"pf12", "pf3", "clear"} =>
       \/ ran' = Nothing /\ last' = last /\ stmt' \in {stmt, <<>>}
       \/ /\ input'.by = "pf3" /\ Apart
          /\ IsPrefix(JoinLine(stmt, <<KeyByte.pf3>>),
                      IF ran' = Nothing THEN stmt' ELSE ran'.text)]_vars

(* A typed line with a semicolon makes something run that ends with it, in  *)
(* the same pass, unless the statement is too long, the line is a command   *)
(* of the loop, looks like a key, or follows a recall screen that the       *)
(* terminal lost (process.c:244: it is swallowed).                          *)
TypedRuns ==
  [][LET p == Trim(input'.text) IN
     input'.by = "line" /\ Contains(p, "semi") =>
       \/ ran' # Nothing /\ IsSuffix(p, ran'.text)
       \/ TooLong(stmt, p) \/ Is(p, ".CLEAR") \/ Is(p, ".REPEAT")
       \/ LooksLikeKey(p) \/ Apart]_vars

(* Loop and display come to disagree on the recall screen only when a call  *)
(* of the terminal fails, or when Enter on that screen returns a line that  *)
(* runs nothing: recall_active is reset and the display is left alone.      *)
PartWays ==
  [][~Apart /\ Apart' /\ open' =>
       faults' > faults \/ (input'.by = "enter" /\ ran' = Nothing)]_vars
=============================================================================
