------------------------------ MODULE RowCodec ------------------------------
(***************************************************************************)
(* How the values of a row travel: typed in INSERT, split by parse_csv,    *)
(* joined with commas by save_rows, split by parse_csv again each time     *)
(* load_rows reads the row, and joined again each time any statement       *)
(* rewrites the table (src/src/parser.c, src/src/rows.c, src/src/mutate.c).*)
(*                                                                         *)
(* The table has one row or none, and no column of type INT or key; Tables *)
(* models several rows, keys and references.                               *)
(***************************************************************************)
EXTENDS Lexis

CONSTANT Columns    \* columns of the table

ASSUME WidthAssumption == Columns \in Nat \ {0}

VARIABLES
  wanted,  \* the values the user wrote
  raw,     \* the fields as typed
  record   \* the payload of the row's record, or NoRecord

rowVars == <<wanted, raw, record>>

NoRecord == <<"NULL">>
-----------------------------------------------------------------------------
(* save_rows *)
Join(values) ==
  FlattenSeq([c \in 1..Len(values) |-> IF c = 1 THEN values[c] ELSE <<Comma>> \o values[c]])

Readable(text) == Len(ParseCsv(text)) = Columns

RowInit == wanted = << >> /\ raw = << >> /\ record = NoRecord

(* cmd_insert, from the list of values on: the fields are split and stored. *)
Insert(values, fields, list) ==
  /\ record = NoRecord /\ Readable(list)
  /\ wanted' = values /\ raw' = fields
  /\ record' = Join(ParseCsv(list))

(* Another INSERT, UPDATE or DELETE on the table reads the row and writes   *)
(* it back; when the row cannot be read the statement is refused.           *)
Rewrite ==
  /\ record # NoRecord
  /\ record' = IF Readable(record) THEN Join(ParseCsv(record)) ELSE record
  /\ UNCHANGED <<wanted, raw>>

(* UPDATE SET one column: the text after "=" is cut and cleaned as one field,*)
(* commas included, and all rows are read and written back.                 *)
Update(c, value, field, set) ==
  /\ record # NoRecord /\ Readable(record)
  /\ wanted' = [wanted EXCEPT ![c] = value] /\ raw' = [raw EXCEPT ![c] = field]
  /\ record' = Join([x \in 1..Columns |->
                 IF x = c THEN CleanToken(CutValue(set)) ELSE ParseCsv(record)[x]])

Delete ==
  /\ record # NoRecord /\ Readable(record)
  /\ wanted' = << >> /\ raw' = << >> /\ record' = NoRecord
-----------------------------------------------------------------------------
(* A value keeps exactly when its field, blanks and quotes included, fits   *)
(* MAX_VALUE, it has no comma and no outer blank.                           *)
IsPlain(value, field) ==
  Len(field) <= MaxValue /\ Comma \notin Range(value) /\ value = Trim(value)
Plain(c) == IsPlain(wanted[c], raw[c])
=============================================================================
