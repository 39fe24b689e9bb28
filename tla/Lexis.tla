-------------------------------- MODULE Lexis --------------------------------
(***************************************************************************)
(* The text helpers of src/src/parser.c that all statements share.  A text *)
(* is a sequence of symbols: a single character, or a keyword, which is one*)
(* symbol wherever its letters stand.  Texts are upper case, which is how  *)
(* clean_token leaves them and how eqi and find_i compare them.            *)
(***************************************************************************)
EXTENDS Integers, Sequences, SequencesExt, FiniteSetsExt

CONSTANTS
  MaxValue,    \* MAX_VALUE
  MaxConds     \* MAX_CONDS

ASSUME LexisAssumption == MaxValue \in Nat \ {0, 1} /\ MaxConds \in Nat \ {0}

Blank == " "
Comma == ","
Quote == "'"
Quotes == {Quote, "\""}    \* the marks where_tokenize knows
Operators == {"=", "<", ">", "!"}
Punctuation == Operators \cup Quotes \cup {Blank, Comma, "_", "%", "(", ")", "*", "+", "-", ".", ";"}
Alnum(c) == c \notin Punctuation
DigitSeq == <<"0", "1", "2", "3", "4", "5", "6", "7", "8", "9">>
Digits == Range(DigitSeq)

(* ltrim, rtrim and trim *)
LTrim(s) ==
  LET solid == {j \in 1..Len(s) : s[j] # Blank}
  IN  IF solid = {} THEN << >> ELSE SubSeq(s, Min(solid), Len(s))
Trim(s) ==
  LET solid == {j \in 1..Len(s) : s[j] # Blank}
  IN  IF solid = {} THEN << >> ELSE SubSeq(s, Min(solid), Max(solid))

(* clean_token: trim, then strip one pair of quotes. *)
Unquote(s) ==
  IF Len(s) >= 2 /\ Head(s) = Quote /\ Last(s) = Quote THEN SubSeq(s, 2, Len(s) - 1) ELSE s
CleanToken(s) == Unquote(Trim(s))

(* find_i finds letters, in a name or a literal as well; find_keyword finds *)
(* words, in a literal as well.  Positions count from 1; 0 is NULL.         *)
FindI(s, w) == SelectInSeq(s, LAMBDA c : c = w)
FindKeyword(s, w) ==
  LET words == {j \in 1..Len(s) : /\ s[j] = w
                                  /\ j > 1 => ~Alnum(s[j - 1])
                                  /\ j < Len(s) => ~Alnum(s[j + 1])}
  IN  IF words = {} THEN 0 ELSE Min(words)

(* The name at the start of s: letters, digits and "_". *)
NameLength(s) == SelectInSeq(s \o <<Blank>>, LAMBDA c : ~Alnum(c) /\ c # "_") - 1
NameAt(s) == SubSeq(s, 1, NameLength(s))
AfterName(s) == SubSeq(s, NameLength(s) + 1, Len(s))

(* valid_name; the length of a name is left to the codec modules. *)
ValidName(s) == s # << >> /\ Alnum(s[1]) /\ s[1] \notin Digits /\ NameAt(s) = s

(* What validate_value and parse_limit_clause take for a number. *)
Signs == {"+", "-"}
Unsigned(s) == IF s # << >> /\ Head(s) \in Signs THEN Tail(s) ELSE s
IsInt(s) == Unsigned(s) # << >> /\ Range(Unsigned(s)) \subseteq Digits
Magnitude(digits) ==
  FoldLeft(LAMBDA n, d : 10 * n + SelectInSeq(DigitSeq, LAMBDA c : c = d) - 1, 0, digits)
Number(s) == IF Head(s) = "-" THEN -Magnitude(Tail(s)) ELSE Magnitude(Unsigned(s))

(* strcmp, for the characters values are made of. *)
CharCodes ==
  <<" ", "%", "'", "*", "+", ",", "-", "0", "1", "2", "3", "9", "<", "=", ">", "A", "B", "C", "_">>
Code(c) == SelectInSeq(CharCodes, LAMBDA d : d = c)
StrLess(a, b) ==
  \E k \in 1..Len(b) :
    /\ \A j \in 1..k - 1 : j <= Len(a) /\ a[j] = b[j]
    /\ k > Len(a) \/ Code(a[k]) < Code(b[k])
-----------------------------------------------------------------------------
(* parse_csv_limit.  A comma splits unless an odd number of quotes comes    *)
(* before it, and a field is cut to MAX_VALUE characters before cleaning.   *)
Commas(text) ==
  {j \in 1..Len(text) :
     text[j] = Comma /\ Cardinality({q \in 1..j : text[q] = Quote}) % 2 = 0}
Nth(S, n) == CHOOSE c \in S : Cardinality({d \in S : d < c}) = n - 1
Fields(text) ==
  LET cuts == Commas(text) \cup {0, Len(text) + 1}
  IN  [f \in 1..Cardinality(cuts) - 1 |-> SubSeq(text, Nth(cuts, f) + 1, Nth(cuts, f + 1) - 1)]
(* (Slip: the end of the text takes one of the places.) *)
CutValueShort(s) == SubSeq(s, 1, Min({Len(s), MaxValue - 1}))
CutValue(s) == SubSeq(s, 1, Min({Len(s), MaxValue}))

(* (Slip: a field is cleaned before it is cut.) *)
ParseCsvCleanFirst(text) ==
  [f \in 1..Len(Fields(text)) |-> CutValue(CleanToken(Fields(text)[f]))]
ParseCsv(text) ==
  LET fields == Fields(text)
  IN  [f \in 1..Len(fields) |-> CleanToken(CutValue(fields[f]))]
-----------------------------------------------------------------------------
(* where_tokenize.  A token is a quoted text, an operator of one or two     *)
(* symbols, or a word up to the next blank or operator.                     *)
FirstOf(s, from, set, other) ==
  LET j == SelectInSubSeq(s, from, Len(s), LAMBDA c : c \in set)
  IN  IF j = 0 THEN other ELSE j

Pairs == {<<"<", "=">>, <<">", "=">>, <<"!", "=">>, <<"<", ">">>}
QuotedToken(s, p) ==
  LET q == FirstOf(s, p + 1, {s[p]}, Len(s) + 1)
  IN  [text |-> SubSeq(s, p + 1, q - 1), next |-> Min({q + 1, Len(s) + 1})]
OperatorToken(s, p) ==
  IF p < Len(s) /\ <<s[p], s[p + 1]>> \in Pairs
    THEN [text |-> SubSeq(s, p, p + 1), next |-> p + 2]
    ELSE [text |-> <<s[p]>>, next |-> p + 1]
WordToken(s, p) ==
  LET q == FirstOf(s, p, Operators \cup {Blank}, Len(s) + 1)
  IN  [text |-> SubSeq(s, p, q - 1), next |-> q]
TokenAt(s, p) ==
  IF s[p] \in Quotes THEN QuotedToken(s, p)
  ELSE IF s[p] \in Operators THEN OperatorToken(s, p)
  ELSE WordToken(s, p)

Tokens(s) ==
  LET from[p \in 1..Len(s) + 1] ==
        LET q == SelectInSubSeq(s, p, Len(s), LAMBDA c : c # Blank)
        IN  IF q = 0 THEN << >>
            ELSE LET t == TokenAt(s, q)
                 IN  <<CleanToken(CutValue(t.text))>> \o from[t.next]
  IN  from[1]
(* (Slip: more tokens than toks has room for.) *)
TokensFitMore(tokens) == Len(tokens) <= MaxConds * 5 + 2
TokensFit(tokens) == Len(tokens) <= MaxConds * 5
=============================================================================
