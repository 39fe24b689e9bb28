---------------------------- MODULE MutateProofs ----------------------------
(***************************************************************************)
(* Rows of plain values are read back as written, and INSERT, UPDATE and   *)
(* DELETE do what they say, for every table, value and statement: what is  *)
(* between the first and the last words of a statement is followed symbol  *)
(* by symbol through the texts that Spell puts together and cmd_insert,    *)
(* cmd_update, cmd_delete and parse_csv take apart again.                  *)
(***************************************************************************)
EXTENDS Mutate, LexisProofs, TLAPS

(* The first place of a symbol, and a text cut there.                        *)
LEMMA FindIIs ==
  ASSUME NEW s, Len(s) \in Nat, NEW x
  PROVE  /\ \A k \in 1..Len(s) : s[k] = x /\ (\A j \in 1..k - 1 : s[j] # x) => FindI(s, x) = k
         /\ (\A j \in 1..Len(s) : s[j] # x) => FindI(s, x) = 0
<1> DEFINE I == {j \in 1..Len(s) : s[j] = x}
<1>1. I \in SUBSET Nat
  OBVIOUS
<1>2. FindI(s, x) = IF I # {} THEN Min(I) ELSE 0
  BY DEF FindI, SelectInSeq
<1>3. ASSUME NEW k \in 1..Len(s), s[k] = x, \A j \in 1..k - 1 : s[j] # x
      PROVE  FindI(s, x) = k
  <2>1. k \in I
    BY <1>3
  <2>2. PICK m \in I : m = Min(I) /\ \A y \in I : m <= y
    BY <1>1, <2>1, Least
  <2>3. m <= k /\ m \in 1..Len(s) /\ s[m] = x
    BY <2>1, <2>2
  <2>4. ~(m < k)
    BY <1>3, <2>3
  <2> QED
    BY <1>2, <2>1, <2>2, <2>3, <2>4
<1>4. ASSUME \A j \in 1..Len(s) : s[j] # x
      PROVE  FindI(s, x) = 0
  BY <1>2, <1>4
<1> QED
  BY <1>3, <1>4

LEMMA Around ==
  ASSUME NEW S, NEW u \in Seq(S), NEW x \in S, NEW w \in Seq(S)
  PROVE  LET s == u \o (<<x>> \o w)
         IN  /\ s \in Seq(S) /\ Len(s) = Len(u) + 1 + Len(w) /\ s[Len(u) + 1] = x
             /\ \A j \in 1..Len(u) : s[j] = u[j]
             /\ \A j \in 1..Len(w) : s[Len(u) + 1 + j] = w[j]
<1>1. <<x>> \o w \in Seq(S) /\ Len(<<x>> \o w) = 1 + Len(w) /\ (<<x>> \o w)[1] = x
      /\ \A j \in 1..Len(w) : (<<x>> \o w)[1 + j] = w[j]
  OBVIOUS
<1> QED
  BY <1>1

LEMMA PieceIs ==
  ASSUME NEW S, NEW s \in Seq(S), NEW k \in Nat, NEW n \in Nat, k + n <= Len(s),
         NEW a, a = k + 1, NEW b, b = k + n
  PROVE  LET t == SubSeq(s, a, b)
         IN  t \in Seq(S) /\ Len(t) = n /\ \A j \in 1..n : t[j] = s[k + j]
<1>1. SubSeq(s, a, b) \in Seq(S)
  OBVIOUS
<1>2. Len(SubSeq(s, a, b)) = n
  OBVIOUS
<1>3. ASSUME NEW j \in 1..n
      PROVE  SubSeq(s, a, b)[j] = s[k + j]
  <2>1. k + j = a + j - 1 /\ a \in Nat /\ b \in Nat /\ j \in 1..b - a + 1
    OBVIOUS
  <2>2. SubSeq(s, a, b)[j] = s[a + j - 1]
    BY <2>1
  <2> QED
    BY <2>1, <2>2
<1> QED
  BY <1>1, <1>2, <1>3

LEMMA PartsOf ==
  ASSUME NEW S, NEW s \in Seq(S), NEW u \in Seq(S), NEW w \in Seq(S),
         Len(s) = Len(u) + 1 + Len(w), \A j \in 1..Len(u) : s[j] = u[j],
         \A j \in 1..Len(w) : s[Len(u) + 1 + j] = w[j]
  PROVE  SubSeq(s, 1, (Len(u) + 1) - 1) = u /\ SubSeq(s, (Len(u) + 1) + 1, Len(s)) = w
<1>1. PICK n \in Nat, m \in Nat : n = Len(u) /\ m = Len(w)
  OBVIOUS
<1>2. Len(s) = n + 1 + m /\ (n + 1) - 1 = n /\ (n + 1) + 1 = n + 2
  BY <1>1
<1>3. PICK a \in Seq(S) : a = SubSeq(s, 1, n) /\ Len(a) = n /\ \A j \in 1..n : a[j] = s[j]
  <2>1. 0 \in Nat /\ 0 + n <= Len(s) /\ 1 = 0 + 1 /\ n = 0 + n /\ \A j \in 1..n : 0 + j = j
    BY <1>2
  <2>2. /\ SubSeq(s, 1, n) \in Seq(S) /\ Len(SubSeq(s, 1, n)) = n
        /\ \A j \in 1..n : SubSeq(s, 1, n)[j] = s[0 + j]
    BY <2>1, PieceIs
  <2> QED
    BY <2>1, <2>2
<1>4. PICK b \in Seq(S) : b = SubSeq(s, n + 2, n + 1 + m) /\ Len(b) = m /\ \A j \in 1..m : b[j] = s[n + 1 + j]
  <2>1. PICK k \in Nat, x \in Nat, y \in Nat : k = n + 1 /\ x = n + 2 /\ y = n + 1 + m
    OBVIOUS
  <2>2. k + m <= Len(s) /\ x = k + 1 /\ y = k + m
    BY <1>2, <2>1
  <2>3. SubSeq(s, x, y) \in Seq(S) /\ Len(SubSeq(s, x, y)) = m /\ \A j \in 1..m : SubSeq(s, x, y)[j] = s[k + j]
    BY <2>2, PieceIs
  <2> QED
    BY <2>1, <2>3
<1>5. a = u
  BY <1>1, <1>3, SameSeq
<1>6. b = w
  <2>1. Len(w) = m /\ \A j \in 1..m : w[j] = s[n + 1 + j]
    BY <1>1
  <2>2. Len(b) = Len(w) /\ \A j \in 1..Len(b) : b[j] = w[j]
    BY <1>4, <2>1
  <2> QED
    BY <2>2, SameSeq
<1> QED
  BY <1>1, <1>2, <1>3, <1>4, <1>5, <1>6

LEMMA CutIs ==
  ASSUME NEW S, NEW u \in Seq(S), NEW x \in S, NEW w \in Seq(S), \A j \in 1..Len(u) : u[j] # x
  PROVE  Cut(u \o (<<x>> \o w), x) = [found |-> TRUE, before |-> u, after |-> w]
<1>1. PICK s \in Seq(S) : s = u \o (<<x>> \o w)
  BY Around
<1>2. /\ Len(s) = Len(u) + 1 + Len(w) /\ s[Len(u) + 1] = x
      /\ \A j \in 1..Len(u) : s[j] = u[j]
      /\ \A j \in 1..Len(w) : s[Len(u) + 1 + j] = w[j]
  BY <1>1, Around
<1>3. FindI(s, x) = Len(u) + 1
  <2>1. PICK k \in 1..Len(s) : k = Len(u) + 1
    BY <1>2
  <2>2. s[k] = x /\ \A j \in 1..k - 1 : s[j] # x
    BY <1>2, <2>1
  <2> QED
    BY <2>1, <2>2, FindIIs
<1>4. SubSeq(s, 1, (Len(u) + 1) - 1) = u /\ SubSeq(s, (Len(u) + 1) + 1, Len(s)) = w
  BY <1>2, PartsOf
<1>5. Len(u) + 1 > 0
  OBVIOUS
<1> QED
  BY <1>1, <1>3, <1>4, <1>5, Zenon DEF Cut

LEMMA CutNowhere ==
  ASSUME NEW s, Len(s) \in Nat, NEW x, \A j \in 1..Len(s) : s[j] # x
  PROVE  Cut(s, x).found = FALSE
<1>1. FindI(s, x) = 0
  BY FindIIs
<1>2. (0 > 0) = FALSE
  OBVIOUS
<1>3. Cut(s, x) = [found |-> FALSE, before |-> SubSeq(s, 1, 0 - 1), after |-> SubSeq(s, 0 + 1, Len(s))]
  BY <1>1, <1>2, Zenon DEF Cut
<1> QED
  BY <1>3

(* A name ends where something else than letters, digits and "_" follows.    *)
NameSymbol(c) == Alnum(c) \/ c = "_"
LEMMA NameSymbolIs ==
  /\ \A x : NameSymbol(x) <=> ~(~Alnum(x) /\ x # "_")
  /\ ~NameSymbol(Blank)
  /\ \A x : NameSymbol(x) => x # Blank /\ x \notin Operators \cup Quotes
BY DEF NameSymbol, Alnum, Punctuation, Blank, Operators, Quotes, Quote

AfterAName(r) == r = << >> \/ r[1] = Blank

LEMMA NameLengthIs ==
  ASSUME NEW S, NEW s \in Seq(S), NEW k \in 1..Len(s) + 1,
         \A j \in 1..k - 1 : NameSymbol(s[j]), k <= Len(s) => ~NameSymbol(s[k])
  PROVE  NameLength(s) = k - 1
<1> DEFINE t == s \o <<Blank>>
           I == {j \in 1..Len(t) : ~NameSymbol(t[j])}
<1>1. /\ Len(t) = Len(s) + 1 /\ Len(s) \in Nat /\ t[Len(s) + 1] = Blank
      /\ \A j \in 1..Len(s) : t[j] = s[j]
  <2>1. <<Blank>> \in Seq({Blank})
    OBVIOUS
  <2> QED
    OBVIOUS
<1>2. I = {j \in 1..Len(t) : ~Alnum(t[j]) /\ t[j] # "_"}
  BY NameSymbolIs
<1>3. NameLength(s) = (IF I # {} THEN Min(I) ELSE 0) - 1
  BY <1>2, Zenon DEF NameLength, SelectInSeq
<1> HIDE DEF t
<1>4. k \in 1..Len(t) /\ ~NameSymbol(t[k])
  <2>1. CASE k <= Len(s)
    BY <1>1, <2>1
  <2>2. CASE k = Len(s) + 1
    BY <1>1, <2>2, NameSymbolIs
  <2> QED
    BY <1>1, <2>1, <2>2
<1>5. \A j \in 1..k - 1 : j \notin I
  BY <1>1
<1>6. k \in I /\ I \in SUBSET Nat
  BY <1>1, <1>4
<1>7. Min(I) = k
  <2>1. Min(I) \in I /\ \A y \in I : Min(I) <= y
    BY <1>6, Least
  <2>2. PICK m \in I : m = Min(I)
    BY <2>1
  <2>3. m <= k /\ m \in Nat /\ m >= 1
    BY <1>1, <1>6, <2>1, <2>2
  <2>4. ~(m < k)
    BY <1>5, <2>2, <2>3
  <2> QED
    BY <2>2, <2>3, <2>4
<1> QED
  BY <1>3, <1>6, <1>7

LEMMA NameSymbolsOf ==
  ASSUME NEW S, NEW s \in Seq(S), ValidName(s)
  PROVE  Len(s) > 0 /\ \A j \in 1..Len(s) : NameSymbol(s[j])
<1> DEFINE t == s \o <<Blank>>
           I == {j \in 1..Len(t) : ~NameSymbol(t[j])}
<1>1. /\ Len(t) = Len(s) + 1 /\ Len(s) \in Nat /\ t[Len(s) + 1] = Blank
      /\ \A j \in 1..Len(s) : t[j] = s[j]
  <2>1. <<Blank>> \in Seq({Blank})
    OBVIOUS
  <2> QED
    OBVIOUS
<1>2. I = {j \in 1..Len(t) : ~Alnum(t[j]) /\ t[j] # "_"}
  BY NameSymbolIs
<1>3. NameLength(s) = (IF I # {} THEN Min(I) ELSE 0) - 1
  BY <1>2, Zenon DEF NameLength, SelectInSeq
<1> HIDE DEF t
<1>4. Len(s) + 1 \in I /\ I \in SUBSET Nat
  <2>1. ~NameSymbol(Blank)
    BY NameSymbolIs
  <2>2. Len(s) + 1 \in 1..Len(t) /\ ~NameSymbol(t[Len(s) + 1])
    BY <1>1, <2>1
  <2> QED
    BY <2>2
<1>5. PICK m \in I : m = Min(I) /\ \A y \in I : m <= y
  BY <1>4, Least
<1>6. m \in 1..Len(s) + 1 /\ NameLength(s) = m - 1
  BY <1>1, <1>3, <1>4, <1>5
<1>7. SubSeq(s, 1, m - 1) = s
  BY <1>6 DEF ValidName, NameAt
<1>8. m - 1 = Len(s)
  <2>1. Len(SubSeq(s, 1, m - 1)) = m - 1
    BY <1>6
  <2> QED
    BY <1>7, <2>1
<1>9. ASSUME NEW j \in 1..Len(s)
      PROVE  NameSymbol(s[j])
  <2>1. j \notin I
    BY <1>1, <1>5, <1>8
  <2> QED
    BY <1>1, <2>1
<1>10. Len(s) > 0
  BY DEF ValidName
<1> QED
  BY <1>9, <1>10

LEMMA CutAt ==
  ASSUME NEW S, NEW x \in S, NEW u \in Seq(S \ {x}), NEW w \in Seq(S)
  PROVE  Cut(u \o (<<x>> \o w), x) = [found |-> TRUE, before |-> u, after |-> w]
<1>1. u \in Seq(S) /\ \A j \in 1..Len(u) : u[j] # x
  OBVIOUS
<1> QED
  BY <1>1, CutIs

LEMMA CutNo ==
  ASSUME NEW S, NEW x, NEW s \in Seq(S \ {x})
  PROVE  Cut(s, x).found = FALSE
<1>1. Len(s) \in Nat /\ \A j \in 1..Len(s) : s[j] # x
  OBVIOUS
<1> QED
  BY <1>1, CutNowhere

LEMMA ClosingIs ==
  ASSUME NEW S, NEW u \in Seq(S), ")" \in S
  PROVE  Closing(u \o <<")">>) = Len(u) + 1
<1>1. PICK s \in Seq(S) : s = u \o <<")">>
  <2>1. <<")">> \in Seq(S)
    OBVIOUS
  <2>2. u \o <<")">> \in Seq(S)
    BY <2>1, JoinText
  <2> QED
    BY <2>2
<1>0. PICK n \in Nat : n = Len(s)
  OBVIOUS
<1> DEFINE I == {j \in 1..n : s[j] = ")"}
<1>2. n = Len(u) + 1 /\ s[n] = ")"
  BY <1>0, <1>1
<1>3. Closing(s) = IF I # {} THEN Max(I) ELSE 0
  BY <1>0, Zenon DEF Closing, SelectLastInSeq
<1>4. n \in I /\ I \in SUBSET (1..n)
  BY <1>2
<1>5. PICK m \in I : m = Max(I) /\ \A y \in I : y <= m
  BY <1>4, Greatest
<1>6. m = n
  BY <1>4, <1>5
<1> QED
  BY <1>1, <1>2, <1>3, <1>4, <1>5, <1>6

LEMMA ListInIs ==
  ASSUME NEW S, NEW u \in Seq(S), ")" \in S, NEW open, open.after = u \o <<")">>
  PROVE  Closing(open.after) > 0 /\ ListIn(open) = u
<1>1. Closing(open.after) = Len(u) + 1 /\ Len(u) \in Nat
  BY ClosingIs
<1>2. (Len(u) + 1) - 1 = Len(u) /\ Len(u) + 1 > 0
  BY <1>1
<1>3. ListIn(open) = SubSeq(u \o <<")">>, 1, Len(u))
  BY <1>1, <1>2, Zenon DEF ListIn
<1>4. SubSeq(u \o <<")">>, 1, Len(u)) = u
  OBVIOUS
<1> QED
  BY <1>1, <1>2, <1>3, <1>4

LEMMA LTrimIs ==
  ASSUME NEW S, NEW s \in Seq(S), Len(s) > 0, s[1] # Blank
  PROVE  LTrim(s) = s /\ LTrim(<<Blank>> \o s) = s
<1>1. ASSUME NEW t, Len(t) \in Nat, NEW k \in 1..Len(t), t[k] # Blank, \A j \in 1..k - 1 : t[j] = Blank
      PROVE  LTrim(t) = SubSeq(t, k, Len(t))
  <2> DEFINE I == {j \in 1..Len(t) : t[j] # Blank}
  <2>1. k \in I /\ I \in SUBSET Nat
    BY <1>1
  <2>2. PICK m \in I : m = Min(I) /\ \A y \in I : m <= y
    BY <2>1, Least
  <2>3. m = k
    <3>1. m <= k /\ m \in 1..Len(t) /\ t[m] # Blank
      BY <2>1, <2>2
    <3>2. ~(m < k)
      BY <1>1, <3>1
    <3> QED
      BY <3>1, <3>2
  <2>4. LTrim(t) = IF I = {} THEN << >> ELSE SubSeq(t, Min(I), Len(t))
    BY Zenon DEF LTrim
  <2> QED
    BY <2>1, <2>2, <2>3, <2>4
<1>2. LTrim(s) = s
  <2>1. 1 \in 1..Len(s) /\ \A j \in 1..1 - 1 : s[j] = Blank
    OBVIOUS
  <2>2. LTrim(s) = SubSeq(s, 1, Len(s))
    BY <1>1, <2>1
  <2> QED
    BY <2>2
<1>3. LTrim(<<Blank>> \o s) = s
  <2>1. PICK t \in Seq(S \cup {Blank}) : t = <<Blank>> \o s
    <3>1. <<Blank>> \in Seq(S \cup {Blank}) /\ s \in Seq(S \cup {Blank})
      OBVIOUS
    <3> QED
      BY <3>1, JoinText
  <2>2. Len(t) = Len(s) + 1 /\ Len(s) \in Nat /\ t[1] = Blank /\ \A j \in 1..Len(s) : t[1 + j] = s[j]
    BY <2>1
  <2>3. 2 \in 1..Len(t) /\ t[2] # Blank /\ \A j \in 1..2 - 1 : t[j] = Blank
    <3>1. t[1 + 1] = s[1]
      BY <2>2
    <3> QED
      BY <2>2, <3>1
  <2>4. LTrim(t) = SubSeq(t, 2, Len(t))
    BY <1>1, <2>2, <2>3
  <2>5. SubSeq(t, 2, Len(t)) = s
    <3>1. PICK n \in Nat, b \in Nat : n = Len(s) /\ b = Len(t) /\ b = 1 + n
      BY <2>2
    <3>2. SubSeq(t, 2, b) \in Seq(S \cup {Blank}) /\ Len(SubSeq(t, 2, b)) = n
          /\ \A j \in 1..n : SubSeq(t, 2, b)[j] = t[1 + j]
      <4>1. PICK k \in Nat, a \in Nat : k = 1 /\ a = 2
        OBVIOUS
      <4>2. k + n <= Len(t) /\ a = k + 1 /\ b = k + n
        BY <3>1, <4>1
      <4>3. SubSeq(t, a, b) \in Seq(S \cup {Blank}) /\ Len(SubSeq(t, a, b)) = n
            /\ \A j \in 1..n : SubSeq(t, a, b)[j] = t[k + j]
        BY <4>2, PieceIs
      <4> QED
        BY <4>1, <4>3
    <3>3. s \in Seq(S \cup {Blank})
      OBVIOUS
    <3>4. \A j \in 1..n : SubSeq(t, 2, b)[j] = s[j]
      BY <2>2, <3>1, <3>2
    <3> QED
      BY <3>1, <3>2, <3>3, <3>4, SameSeq
  <2> QED
    BY <2>1, <2>4, <2>5
<1> QED
  BY <1>2, <1>3

LEMMA NameCut ==
  ASSUME NEW S, NEW t \in Seq(S), Len(t) > 0, \A j \in 1..Len(t) : NameSymbol(t[j]),
         NEW r \in Seq(S), AfterAName(r)
  PROVE  NameAt(t \o r) = t /\ AfterName(t \o r) = r
<1>1. PICK s \in Seq(S) : s = t \o r
  BY JoinText
<1>2. PICK n \in Nat, m \in Nat : n = Len(t) /\ m = Len(r)
  OBVIOUS
<1>3. /\ Len(s) = n + m
      /\ \A j \in 1..n : s[j] = t[j]
      /\ \A j \in 1..m : s[n + j] = r[j]
  BY <1>1, <1>2, Behind
<1>4. NameLength(s) = n
  <2>1. PICK k \in 1..Len(s) + 1 : k = n + 1
    BY <1>3
  <2>2. \A j \in 1..k - 1 : NameSymbol(s[j])
    BY <1>2, <1>3, <2>1
  <2>3. k <= Len(s) => ~NameSymbol(s[k])
    <3> SUFFICES ASSUME k <= Len(s) PROVE ~NameSymbol(s[k])
      OBVIOUS
    <3>1. m > 0 /\ s[k] = r[1] /\ r # << >>
      BY <1>2, <1>3, <2>1
    <3>2. s[k] = Blank
      BY <3>1 DEF AfterAName
    <3> QED
      BY <3>2, NameSymbolIs
  <2>4. NameLength(s) = k - 1
    BY <2>2, <2>3, NameLengthIs
  <2> QED
    BY <2>1, <2>4
<1>5. SubSeq(s, 1, n) = t
  <2>1. PICK z \in Nat : z = 0
    OBVIOUS
  <2>2. z + n <= Len(s) /\ 1 = z + 1 /\ n = z + n
    BY <1>3, <2>1
  <2>3. SubSeq(s, 1, n) \in Seq(S) /\ Len(SubSeq(s, 1, n)) = n /\ \A j \in 1..n : SubSeq(s, 1, n)[j] = s[z + j]
    BY <2>2, PieceIs
  <2>4. \A j \in 1..n : SubSeq(s, 1, n)[j] = t[j]
    BY <1>3, <2>1, <2>3
  <2> QED
    BY <1>2, <2>3, <2>4, SameSeq
<1>6. SubSeq(s, n + 1, Len(s)) = r
  <2>1. PICK a, b : a = n + 1 /\ b = n + m
    OBVIOUS
  <2>2. SubSeq(s, a, b) \in Seq(S) /\ Len(SubSeq(s, a, b)) = m /\ \A j \in 1..m : SubSeq(s, a, b)[j] = s[n + j]
    <3>1. n + m <= Len(s)
      BY <1>3
    <3> QED
      BY <2>1, <3>1, PieceIs
  <2>3. \A j \in 1..m : SubSeq(s, a, b)[j] = r[j]
    BY <1>3, <2>2
  <2>4. SubSeq(s, a, b) = r
    BY <1>2, <2>2, <2>3, SameSeq
  <2> QED
    BY <1>3, <2>1, <2>4
<1> QED
  BY <1>1, <1>4, <1>5, <1>6, Zenon DEF NameAt, AfterName

(* The texts of statements that are written as documented.                   *)
Letter == STRING \cup {Blank, Comma, Quote, "(", ")", "=", "SET", "WHERE", "VALUES"}
Text == Seq(Letter)
Without(x) == Seq(Letter \ {x})

LEMMA LetterIs ==
  /\ Blank \in Letter /\ Comma \in Letter /\ Quote \in Letter /\ "(" \in Letter /\ ")" \in Letter
  /\ "=" \in Letter /\ "SET" \in Letter /\ "WHERE" \in Letter /\ "VALUES" \in Letter
  /\ <<Blank>> \in Text /\ << >> \in Text
  /\ \A x : Without(x) \in SUBSET Text
BY DEF Letter, Text, Without

(* Texts may be put together from the left or from the right.                *)
LEMMA Joined == \A a, b \in Text : a \o b \in Text
BY JoinText DEF Text

LEMMA Apart == \A a, b, c \in Text : (a \o b) \o c = a \o (b \o c)
BY DEF Text

LEMMA FewFirst ==
  ASSUME NEW a \in Letter, NEW b \in Letter, NEW y \in Text
  PROVE  <<a, b>> \o y = <<a>> \o (<<b>> \o y) /\ <<a>> \in Text /\ <<b>> \in Text
<1>1. <<a>> \in Text /\ <<b>> \in Text
  BY DEF Text
<1>2. <<a, b>> = <<a>> \o <<b>>
  <2>1. <<a, b>> \in Text /\ Len(<<a, b>>) = 2 /\ <<a, b>>[1] = a /\ <<a, b>>[2] = b
    BY DEF Text
  <2>2. PICK t \in Text : t = <<a>> \o <<b>> /\ Len(t) = 2 /\ t[1] = a /\ t[2] = b
    <3>1. <<a>> \o <<b>> \in Text
      BY <1>1, JoinText DEF Text
    <3>2. Len(<<a>> \o <<b>>) = 2 /\ (<<a>> \o <<b>>)[1] = a /\ (<<a>> \o <<b>>)[2] = b
      OBVIOUS
    <3> QED
      BY <3>1, <3>2
  <2>3. PICK p \in Text : p = <<a, b>> /\ Len(p) = 2 /\ p[1] = a /\ p[2] = b
    BY <2>1
  <2>4. \A j \in 1..Len(p) : p[j] = t[j]
    <3>1. \A j \in 1..Len(p) : j = 1 \/ j = 2
      BY <2>3
    <3> QED
      BY <2>2, <2>3, <3>1
  <2>5. p = t
    BY <2>2, <2>3, <2>4, SameSeq DEF Text
  <2> QED
    BY <2>2, <2>3, <2>5
<1>3. (<<a>> \o <<b>>) \o y = <<a>> \o (<<b>> \o y)
  BY <1>1, Apart, Zenon
<1> QED
  BY <1>1, <1>2, <1>3

LEMMA Few == \A a, b \in Letter : \A y \in Text : <<a, b>> \o y = <<a>> \o (<<b>> \o y)
BY FewFirst

LEMMA Nothing == \A a \in Text : << >> \o a = a /\ a \o << >> = a
BY DEF Text

WhereText(q) ==
  IF q.wcol = None THEN << >>
  ELSE <<Blank>> \o (<<"WHERE">> \o (<<Blank>> \o (q.wcol \o (<<"=">> \o Quoted(q.wvalue)))))
InsertText(list) == <<Blank>> \o (<<"VALUES">> \o (<<Blank>> \o (<<"(">> \o (list \o <<")">>))))
UpdateText(q) ==
  <<Blank>> \o (<<"SET">> \o (<<Blank>> \o (Names[q.col] \o (<<"=">> \o (q.field \o WhereText(q))))))

LEMMA QuotedText ==
  ASSUME NEW v \in Text
  PROVE  Quoted(v) \in Text
<1>1. <<Quote>> \in Text
  BY LetterIs DEF Text
<1> QED
  BY <1>1, Joined, Zenon DEF Quoted

(* Four texts, put together from the left.                                   *)
LEMMA FourApart ==
  \A a, b, c, d \in Text : ((a \o b) \o c) \o d = a \o (b \o (c \o d))
<1> TAKE a, b, c, d \in Text
<1>1. a \o b \in Text
  BY Joined, Zenon
<1>2. c \o d \in Text
  BY Joined, Zenon
<1>5. ((a \o b) \o c) \o d = (a \o b) \o (c \o d)
  BY <1>1, Apart, Zenon
<1>6. (a \o b) \o (c \o d) = a \o (b \o (c \o d))
  BY <1>2, Apart, Zenon
<1> QED
  BY <1>5, <1>6, Zenon

LEMMA WhereIs ==
  ASSUME NEW q, q.wcol # None => q.wcol \in Text /\ q.wvalue \in Text
  PROVE  SpellWhere(q) = WhereText(q) /\ WhereText(q) \in Text
<1>1. CASE q.wcol = None
  <2>1. SpellWhere(q) = << >> /\ WhereText(q) = << >>
    BY <1>1, Zenon DEF SpellWhere, SpellIf, WhereText
  <2> QED
    BY <2>1, LetterIs
<1>2. CASE q.wcol # None
  <2> DEFINE rest == q.wcol \o (<<"=">> \o Quoted(q.wvalue))
  <2>1. <<"WHERE">> \in Text /\ <<Blank>> \in Text /\ <<"=">> \in Text /\ <<"WHERE", Blank>> \in Text
    BY LetterIs DEF Text
  <2>3. q.wcol \in Text /\ Quoted(q.wvalue) \in Text
    BY <1>2, QuotedText
  <2>10. \A a, e \in Text : \A c, y \in Text : ((a \o c) \o e) \o y = a \o (c \o (e \o y))
    BY FourApart, Zenon
  <2>11. <<"WHERE", Blank>> \in Text /\ <<"=">> \in Text
    BY <2>1
  <2>12. \A c, y \in Text : ((<<"WHERE", Blank>> \o c) \o <<"=">>) \o y = <<"WHERE", Blank>> \o (c \o (<<"=">> \o y))
    BY <2>11, <2>10, Zenon
  <2>4. ((<<"WHERE", Blank>> \o q.wcol) \o <<"=">>) \o Quoted(q.wvalue) = <<"WHERE", Blank>> \o rest
    BY <2>3, <2>12, Zenon DEF rest
  <2>9. rest \in Text
    BY <2>1, <2>3, Joined, Zenon
  <2>5. SpellWhere(q) = <<Blank>> \o (((<<"WHERE", Blank>> \o q.wcol) \o <<"=">>) \o Quoted(q.wvalue))
    BY <1>2, Zenon DEF SpellWhere, SpellIf
  <2>6. WhereText(q) = <<Blank>> \o (<<"WHERE">> \o (<<Blank>> \o rest))
    BY <1>2, Zenon DEF WhereText
  <2> HIDE DEF rest
  <2>7. <<"WHERE", Blank>> \o rest = <<"WHERE">> \o (<<Blank>> \o rest)
    BY <2>9, Few, LetterIs, Zenon
  <2>8. <<Blank>> \o (<<"WHERE">> \o (<<Blank>> \o rest)) \in Text
    BY <2>1, <2>9, Joined, Zenon
  <2> QED
    BY <2>4, <2>5, <2>6, <2>7, <2>8, Zenon
<1> QED
  BY <1>1, <1>2

(* Nth of a finite set of numbers is the member with n - 1 members below it. *)
Below(S, c) == {d \in S : d < c}

LEMMA BelowGrows ==
  ASSUME NEW S \in SUBSET Nat, IsFiniteSet(S), NEW a \in S, NEW b \in S, a < b
  PROVE  Cardinality(Below(S, a)) < Cardinality(Below(S, b))
<1>1. IsFiniteSet(Below(S, b)) /\ Below(S, a) \subseteq Below(S, b)
  <2>1. Below(S, b) \subseteq S
    BY DEF Below
  <2>2. ASSUME NEW d \in Below(S, a)
        PROVE  d \in Below(S, b)
    <3>1. d \in S /\ d \in Nat /\ d < a /\ a \in Nat /\ b \in Nat
      BY DEF Below
    <3>2. d < b
      BY <3>1
    <3> QED
      BY <3>1, <3>2 DEF Below
  <2> QED
    BY <2>1, <2>2, FS_Subset
<1>2. a \in Below(S, b) /\ a \notin Below(S, a)
  BY DEF Below
<1>3. Cardinality(Below(S, a)) <= Cardinality(Below(S, b))
      /\ Cardinality(Below(S, a)) # Cardinality(Below(S, b))
  BY <1>1, <1>2, FS_Subset
<1>4. Cardinality(Below(S, a)) \in Nat /\ Cardinality(Below(S, b)) \in Nat
  <2>1. IsFiniteSet(Below(S, a))
    BY <1>1, FS_Subset
  <2> QED
    BY <1>1, <2>1, FS_CardinalityType
<1> QED
  BY <1>3, <1>4

LEMMA NthOnly ==
  ASSUME NEW S \in SUBSET Nat, IsFiniteSet(S), NEW c \in S, NEW n, Cardinality(Below(S, c)) = n - 1
  PROVE  Nth(S, n) = c
<1>1. Nth(S, n) = CHOOSE d \in S : Cardinality(Below(S, d)) = n - 1
  BY Zenon DEF Nth, Below
<1>2. PICK m : m = Nth(S, n)
  OBVIOUS
<1>3. m \in S /\ Cardinality(Below(S, m)) = n - 1
  BY <1>1, <1>2
<1>4. Cardinality(Below(S, m)) = Cardinality(Below(S, c))
  BY <1>3
<1>5. ~(m < c) /\ ~(c < m)
  <2>1. Cardinality(Below(S, c)) \in Nat
    <3>1. Below(S, c) \subseteq S
      BY DEF Below
    <3> QED
      BY <3>1, FS_Subset, FS_CardinalityType
  <2> QED
    BY <1>3, <1>4, <2>1, BelowGrows
<1> QED
  BY <1>2, <1>3, <1>5

(* Places that come one after the other are found by their number.           *)
Places(c, k) == {c[i] : i \in 0..k}

LEMMA PlacesCount ==
  ASSUME NEW n \in Nat, NEW c \in [0..n -> Nat], \A i, j \in 0..n : i < j => c[i] < c[j]
  PROVE  \A k \in 0..n : IsFiniteSet(Places(c, k)) /\ Cardinality(Places(c, k)) = k + 1
<1> DEFINE G == {k \in 0..n : IsFiniteSet(Places(c, k)) /\ Cardinality(Places(c, k)) = k + 1}
<1>1. ASSUME NEW k \in 0..n, \A l \in 0..k - 1 : l \in G
      PROVE  IsFiniteSet(Places(c, k)) /\ Cardinality(Places(c, k)) = k + 1
  <2>1. CASE k = 0
    <3>1. Places(c, k) = {c[0]}
      BY <2>1 DEF Places
    <3>2. IsFiniteSet({c[0]}) /\ Cardinality({c[0]}) = 1
      BY FS_Singleton
    <3>3. IsFiniteSet(Places(c, k)) /\ Cardinality(Places(c, k)) = 1
      BY <3>1, <3>2, Zenon
    <3> QED
      BY <2>1, <3>3
  <2>2. CASE k > 0
    <3> PICK m \in 0..k - 1 : m = k - 1 /\ k = m + 1
      <4>1. k - 1 \in 0..k - 1 /\ k = (k - 1) + 1
        BY <2>2
      <4> QED
        BY <4>1
    <3>1. m \in G
      BY <1>1
    <3>2. IsFiniteSet(Places(c, m)) /\ Cardinality(Places(c, m)) = m + 1
      BY <3>1
    <3>3. Places(c, k) = Places(c, m) \cup {c[k]}
      <4>1. 0..k = (0..m) \cup {k}
        OBVIOUS
      <4> QED
        BY <4>1 DEF Places
    <3>4. c[k] \notin Places(c, m)
      <4>1. \A i \in 0..m : i \in 0..n /\ i < k
        OBVIOUS
      <4>2. \A i \in 0..m : c[i] < c[k] /\ c[i] \in Nat /\ c[k] \in Nat
        BY <4>1
      <4>3. \A i \in 0..m : c[i] # c[k]
        BY <4>2
      <4> QED
        BY <4>3 DEF Places
    <3>5. IsFiniteSet(Places(c, m) \cup {c[k]})
          /\ Cardinality(Places(c, m) \cup {c[k]}) = IF c[k] \in Places(c, m) THEN Cardinality(Places(c, m)) ELSE Cardinality(Places(c, m)) + 1
      BY <3>2, FS_AddElement
    <3> QED
      BY <3>2, <3>3, <3>4, <3>5
  <2> QED
    BY <2>1, <2>2
<1>2. \A k \in 0..n : (\A l \in 0..k - 1 : l \in G) => k \in G
  BY <1>1
<1>3. \A k \in 0..n : k \in G
  <2> HIDE DEF G
  <2> QED
    BY <1>2, UpTo
<1> QED
  BY <1>3

LEMMA PlaceByNumber ==
  ASSUME NEW n \in Nat, NEW c \in [0..n -> Nat], \A i, j \in 0..n : i < j => c[i] < c[j],
         NEW S, S = Places(c, n)
  PROVE  /\ Cardinality(S) = n + 1
         /\ \A k \in 0..n : Nth(S, k + 1) = c[k]
<1>1. /\ IsFiniteSet(S) /\ Cardinality(S) = n + 1 /\ S \in SUBSET Nat
  <2>1. n \in 0..n
    OBVIOUS
  <2> QED
    BY <2>1, PlacesCount DEF Places
<1>2. ASSUME NEW k \in 0..n
      PROVE  Nth(S, k + 1) = c[k]
  <2> PICK m : m = k - 1
    OBVIOUS
  <2>1. Below(S, c[k]) = IF k = 0 THEN {} ELSE Places(c, m)
    <3>1. \A i \in 0..n : c[i] \in Nat /\ (c[i] < c[k] <=> i < k)
      <4>1. \A i \in 0..n : c[i] \in Nat
        OBVIOUS
      <4>2. \A i \in 0..n : i < k \/ i = k \/ k < i
        OBVIOUS
      <4>3. \A i \in 0..n : k < i => c[k] < c[i] /\ ~(c[i] < c[k])
        BY <4>1
      <4> QED
        BY <4>1, <4>2, <4>3
    <3>2. Below(S, c[k]) = {c[i] : i \in {l \in 0..n : l < k}}
      BY <3>1 DEF Below, Places
    <3>3. CASE k = 0
      <4>1. {l \in 0..n : l < k} = {}
        BY <3>3
      <4> QED
        BY <3>2, <3>3, <4>1
    <3>4. CASE k > 0
      <4>1. {l \in 0..n : l < k} = 0..m
        BY <3>4
      <4>2. Below(S, c[k]) = Places(c, m)
        BY <3>2, <4>1 DEF Places
      <4> QED
        BY <3>4, <4>2
    <3> QED
      BY <3>3, <3>4
  <2>2. Cardinality(Below(S, c[k])) = (k + 1) - 1
    <3>1. CASE k = 0
      BY <2>1, <3>1, FS_EmptySet
    <3>2. CASE k > 0
      <4>1. m \in 0..n /\ m + 1 = k
        BY <3>2
      <4>2. Cardinality(Places(c, m)) = m + 1
        BY <4>1, PlacesCount
      <4> QED
        BY <2>1, <3>2, <4>1, <4>2
    <3> QED
      BY <3>1, <3>2
  <2>3. c[k] \in S
    BY DEF Places
  <2> PICK x \in S, y \in Nat : x = c[k] /\ y = k + 1
    BY <2>3
  <2>4. Cardinality(Below(S, x)) = y - 1
    BY <2>2
  <2>5. Nth(S, y) = x
    BY <1>1, <2>4, NthOnly
  <2> QED
    BY <2>5
<1> QED
  BY <1>1, <1>2

(* The quotes up to a place of a text.                                       *)
Marks(s, m) == {q \in 1..m : s[q] = Quote}

LEMMA MarksFinite ==
  ASSUME NEW s, NEW m \in Nat
  PROVE  IsFiniteSet(Marks(s, m)) /\ Cardinality(Marks(s, m)) \in Nat
<1>1. IsFiniteSet(1..m)
  BY FS_Interval
<1>2. Marks(s, m) \in SUBSET (1..m)
  BY DEF Marks
<1>3. IsFiniteSet(Marks(s, m))
  BY <1>1, <1>2, FS_Subset
<1> QED
  BY <1>3, FS_CardinalityType

LEMMA MarksNone ==
  ASSUME NEW s, NEW m \in Nat, \A j \in 1..m : s[j] # Quote
  PROVE  Cardinality(Marks(s, m)) = 0
<1>1. Marks(s, m) = {}
  BY DEF Marks
<1> QED
  BY <1>1, FS_EmptySet

LEMMA MarksGrow ==
  ASSUME NEW s, NEW m \in Nat, NEW k, k = m + 1
  PROVE  Cardinality(Marks(s, k)) = Cardinality(Marks(s, m)) + IF s[k] = Quote THEN 1 ELSE 0
<1>1. IsFiniteSet(Marks(s, m)) /\ Cardinality(Marks(s, m)) \in Nat
  BY MarksFinite
<1>2. 1..k = (1..m) \cup {k} /\ k \notin 1..m
  OBVIOUS
<1>3. CASE s[k] = Quote
  <2>1. Marks(s, k) = Marks(s, m) \cup {k} /\ k \notin Marks(s, m)
    BY <1>2, <1>3 DEF Marks
  <2> QED
    BY <1>1, <1>3, <2>1, FS_AddElement
<1>4. CASE s[k] # Quote
  <2>1. Marks(s, k) = Marks(s, m)
    BY <1>2, <1>4 DEF Marks
  <2> QED
    BY <1>1, <1>4, <2>1
<1> QED
  BY <1>3, <1>4

LEMMA MarksBehind ==
  ASSUME NEW s, NEW u, NEW n \in Nat, NEW m \in Nat, \A j \in 1..m : s[n + j] = u[j]
  PROVE  \A k \in 0..m : Cardinality(Marks(s, n + k)) = Cardinality(Marks(s, n)) + Cardinality(Marks(u, k))
<1> DEFINE G == {k \in 0..m : Cardinality(Marks(s, n + k)) = Cardinality(Marks(s, n)) + Cardinality(Marks(u, k))}
<1>0. Cardinality(Marks(s, n)) \in Nat
  BY MarksFinite
<1>1. ASSUME NEW k \in 0..m, \A l \in 0..k - 1 : l \in G
      PROVE  Cardinality(Marks(s, n + k)) = Cardinality(Marks(s, n)) + Cardinality(Marks(u, k))
  <2>1. CASE k = 0
    <3>1. Cardinality(Marks(u, 0)) = 0
      BY MarksNone
    <3>2. n + 0 = n
      OBVIOUS
    <3> QED
      BY <1>0, <2>1, <3>1, <3>2
  <2>2. CASE k > 0
    <3> PICK l \in Nat, a \in Nat, b \in Nat : l = k - 1 /\ a = n + l /\ b = n + k /\ b = a + 1 /\ k = l + 1
      <4>1. k - 1 \in Nat /\ n + (k - 1) \in Nat /\ n + k \in Nat /\ n + k = (n + (k - 1)) + 1 /\ k = (k - 1) + 1
        BY <2>2
      <4> QED
        BY <4>1
    <3>1. l \in 0..k - 1 /\ l \in G
      BY <1>1
    <3>2. Cardinality(Marks(s, a)) = Cardinality(Marks(s, n)) + Cardinality(Marks(u, l))
      BY <3>1
    <3>3. Cardinality(Marks(s, b)) = Cardinality(Marks(s, a)) + IF s[b] = Quote THEN 1 ELSE 0
      BY MarksGrow
    <3>4. Cardinality(Marks(u, k)) = Cardinality(Marks(u, l)) + IF u[k] = Quote THEN 1 ELSE 0
      BY MarksGrow
    <3>5. s[b] = u[k]
      BY <2>2
    <3>6. Cardinality(Marks(u, l)) \in Nat
      BY MarksFinite
    <3>7. Cardinality(Marks(s, b)) = Cardinality(Marks(s, n)) + Cardinality(Marks(u, k))
      BY <1>0, <3>2, <3>3, <3>4, <3>5, <3>6
    <3> QED
      BY <3>7
  <2> QED
    BY <2>1, <2>2
<1>2. \A k \in 0..m : (\A l \in 0..k - 1 : l \in G) => k \in G
  BY <1>1
<1>3. \A k \in 0..m : k \in G
  <2> HIDE DEF G
  <2> QED
    BY <1>2, UpTo
<1> QED
  BY <1>3

(* Where the fields of a list end, counted from its start, the comma behind  *)
(* each of them included, and the text that has them there.                  *)
Ends(vs, c, n) ==
  /\ c \in [0..n -> Nat] /\ c[0] = 0
  /\ \A i \in 1..n : Len(vs[i]) \in Nat /\ c[i] = c[i - 1] + Len(vs[i]) + 1
Spread(s, vs, c, k) ==
  /\ Len(s) = c[k] - 1
  /\ \A i \in 1..k : \A j \in 1..Len(vs[i]) : s[c[i - 1] + j] = vs[i][j]
  /\ \A i \in 1..k - 1 : s[c[i]] = Comma

LEMMA EndsGrow ==
  ASSUME NEW vs, NEW n \in Nat, NEW c, Ends(vs, c, n)
  PROVE  \A i, j \in 0..n : i < j => c[i] < c[j]
<1>0. \A i \in 0..n : c[i] \in Nat
  BY DEF Ends
<1>1. \A i \in 1..n : c[i - 1] < c[i]
  <2> TAKE i \in 1..n
  <2>1. Len(vs[i]) \in Nat /\ c[i] = c[i - 1] + Len(vs[i]) + 1
    BY DEF Ends
  <2>2. i - 1 \in 0..n
    OBVIOUS
  <2>3. c[i - 1] \in Nat
    BY <1>0, <2>2
  <2> QED
    BY <2>1, <2>3
<1> DEFINE G == {j \in 0..n : \A i \in 0..n : i < j => c[i] < c[j]}
<1>2. ASSUME NEW j \in 0..n, \A l \in 0..j - 1 : l \in G, NEW i \in 0..n, i < j
      PROVE  c[i] < c[j]
  <2> PICK l \in 0..n : l = j - 1 /\ l \in 0..j - 1
    <3>1. j - 1 \in 0..n /\ j - 1 \in 0..j - 1
      BY <1>2
    <3> QED
      BY <3>1
  <2>1. c[l] < c[j]
    <3>1. j \in 1..n
      BY <1>2
    <3> QED
      BY <1>1, <3>1
  <2>2. CASE i = l
    BY <2>1, <2>2
  <2>3. CASE i # l
    <3>1. l \in G /\ i < l
      BY <1>2, <2>3
    <3>2. c[i] < c[l]
      BY <3>1
    <3> QED
      BY <1>0, <2>1, <3>2
  <2> QED
    BY <2>2, <2>3
<1>3. \A j \in 0..n : (\A l \in 0..j - 1 : l \in G) => j \in G
  BY <1>2
<1>4. \A j \in 0..n : j \in G
  <2> HIDE DEF G
  <2> QED
    BY <1>3, UpTo
<1> QED
  BY <1>4

LEMMA EndsStep ==
  ASSUME NEW vs, NEW n \in Nat, NEW c, Ends(vs, c, n), NEW i \in 1..n, NEW h, h = i - 1
  PROVE  /\ c[h] \in Nat /\ c[i] \in Nat /\ Len(vs[i]) \in Nat
         /\ c[i] = c[h] + Len(vs[i]) + 1
<1>1. h \in 0..n /\ i \in 0..n
  OBVIOUS
<1> QED
  BY <1>1 DEF Ends

(* A position of the text is one of its commas or within one of its fields.  *)
LEMMA WithinIs ==
  ASSUME NEW vs, NEW n \in Nat, NEW c, Ends(vs, c, n), NEW p \in Nat, p > 0, p < c[n]
  PROVE  \/ \E i \in 1..n - 1 : p = c[i]
         \/ \E i \in 1..n : \E j \in 1..Len(vs[i]) : p = c[i - 1] + j
<1> DEFINE I == {i \in 0..n : p <= c[i]}
<1>0. \A i \in 0..n : c[i] \in Nat
  BY DEF Ends
<1>1. n \in I /\ I \in SUBSET Nat
  BY <1>0
<1>2. PICK i \in I : \A x \in I : i <= x
  <2>1. Min(I) \in I /\ \A x \in I : Min(I) <= x
    BY <1>1, Least
  <2> QED
    BY <2>1
<1>3. i \in 1..n
  <2>1. c[0] = 0
    BY DEF Ends
  <2>2. i # 0
    BY <2>1
  <2> QED
    BY <2>2
<1> PICK h \in 0..n : h = i - 1
  <2>1. i - 1 \in 0..n
    BY <1>3
  <2> QED
    BY <2>1
<1>4. c[i] = c[h] + Len(vs[i]) + 1 /\ Len(vs[i]) \in Nat /\ c[h] \in Nat
  BY <1>3, EndsStep
<1>5. c[h] < p
  <2>1. h \notin I
    BY <1>2, <1>3
  <2> QED
    BY <1>4, <2>1
<1>6. CASE p = c[i]
  <2>1. i # n
    BY <1>6
  <2>2. i \in 1..n - 1
    BY <1>3, <2>1
  <2> QED
    BY <1>6, <2>2
<1>7. CASE p # c[i]
  <2>1. p - c[h] \in 1..Len(vs[i]) /\ p = c[h] + (p - c[h])
    BY <1>0, <1>3, <1>4, <1>5, <1>7
  <2>2. \E j \in 1..Len(vs[i]) : p = c[i - 1] + j
    BY <2>1
  <2> QED
    BY <1>3, <2>2
<1> QED
  BY <1>6, <1>7

(* The quotes before each comma are even in number.                          *)
Even(v) == Cardinality(Marks(v, Len(v))) % 2 = 0
Bare(v) == \A j \in 1..Len(v) : v[j] # Comma

Shifted(s, v, a, m) == \A j \in 1..m : s[a + j] = v[j]

LEMMA MarksShifted ==
  ASSUME NEW s, NEW v, NEW a \in Nat, NEW m \in Nat, Shifted(s, v, a, m), NEW d, d = a + m
  PROVE  Cardinality(Marks(s, d)) = Cardinality(Marks(s, a)) + Cardinality(Marks(v, m))
<1>1. \A j \in 1..m : s[a + j] = v[j]
  BY DEF Shifted
<1>2. \A k \in 0..m : Cardinality(Marks(s, a + k)) = Cardinality(Marks(s, a)) + Cardinality(Marks(v, k))
  BY <1>1, MarksBehind
<1>3. m \in 0..m
  OBVIOUS
<1> QED
  BY <1>2, <1>3

LEMMA EvenStep ==
  ASSUME NEW s, NEW v, NEW a \in Nat, NEW m \in Nat, Shifted(s, v, a, m),
         Cardinality(Marks(s, a)) % 2 = 0, Cardinality(Marks(v, m)) % 2 = 0,
         NEW b, b = a + m + 1, s[b] = Comma
  PROVE  Cardinality(Marks(s, b)) % 2 = 0
<1> PICK d \in Nat : d = a + m
  OBVIOUS
<1>1. Cardinality(Marks(s, d)) = Cardinality(Marks(s, a)) + Cardinality(Marks(v, m))
  BY MarksShifted
<1>2. s[b] # Quote
  BY DEF Comma, Quote
<1>3. Cardinality(Marks(s, b)) = Cardinality(Marks(s, d)) + IF s[b] = Quote THEN 1 ELSE 0
  <2>1. b = d + 1
    OBVIOUS
  <2> QED
    BY <2>1, MarksGrow
<1>4. PICK x \in Nat, y \in Nat : x = Cardinality(Marks(s, a)) /\ y = Cardinality(Marks(v, m))
  <2>1. Cardinality(Marks(s, a)) \in Nat /\ Cardinality(Marks(v, m)) \in Nat
    BY MarksFinite
  <2> QED
    BY <2>1
<1>5. Cardinality(Marks(s, b)) = x + y
  BY <1>1, <1>2, <1>3, <1>4
<1>6. x % 2 = 0 /\ y % 2 = 0
  BY <1>4
<1>7. \A z, t \in Nat : z % 2 = 0 /\ t % 2 = 0 => (z + t) % 2 = 0
  OBVIOUS
<1> QED
  BY <1>4, <1>5, <1>6, <1>7

LEMMA EvenBefore ==
  ASSUME NEW vs, NEW n \in Nat, NEW c, Ends(vs, c, n), NEW s, Spread(s, vs, c, n),
         \A i \in 1..n : Even(vs[i])
  PROVE  \A k \in 0..n : k < n => Cardinality(Marks(s, c[k])) % 2 = 0
<1> DEFINE G == {k \in 0..n : k < n => Cardinality(Marks(s, c[k])) % 2 = 0}
<1>1. ASSUME NEW k \in 0..n, \A l \in 0..k - 1 : l \in G, k < n
      PROVE  Cardinality(Marks(s, c[k])) % 2 = 0
  <2>1. CASE k = 0
    <3>1. Cardinality(Marks(s, 0)) = 0
      BY MarksNone
    <3>2. c[k] = 0
      BY <2>1 DEF Ends
    <3> QED
      BY <3>1, <3>2
  <2>2. CASE k > 0
    <3> PICK h \in 0..k - 1 : h = k - 1
      <4>1. k - 1 \in 0..k - 1
        BY <2>2
      <4> QED
        BY <4>1
    <3>0. k \in 1..n /\ k \in 1..n - 1
      BY <1>1, <2>2
    <3>1. /\ c[h] \in Nat /\ c[k] \in Nat /\ Len(vs[k]) \in Nat
          /\ c[k] = c[h] + Len(vs[k]) + 1
      BY <3>0, EndsStep
    <3>2. Cardinality(Marks(s, c[h])) % 2 = 0
      <4>1. h \in G /\ h < n
        BY <1>1
      <4> QED
        BY <4>1
    <3>3. Shifted(s, vs[k], c[h], Len(vs[k]))
      BY <3>0 DEF Spread, Shifted
    <3>4. s[c[k]] = Comma
      BY <3>0 DEF Spread
    <3>5. Cardinality(Marks(vs[k], Len(vs[k]))) % 2 = 0
      BY <3>0 DEF Even
    <3> QED
      BY <3>1, <3>2, <3>3, <3>4, <3>5, EvenStep, Zenon
  <2> QED
    BY <2>1, <2>2
<1>2. \A k \in 0..n : (\A l \in 0..k - 1 : l \in G) => k \in G
  BY <1>1
<1>3. \A k \in 0..n : k \in G
  <2> HIDE DEF G
  <2> QED
    BY <1>2, UpTo
<1> QED
  BY <1>3

LEMMA CommasOf ==
  ASSUME NEW vs, NEW n \in Nat \ {0}, NEW c, Ends(vs, c, n), NEW s, Spread(s, vs, c, n),
         \A i \in 1..n : Even(vs[i]), \A i \in 1..n : Bare(vs[i])
  PROVE  Commas(s) \cup {0, Len(s) + 1} = Places(c, n)
<1>0. \A i \in 0..n : c[i] \in Nat
  BY DEF Ends
<1>1. c[0] = 0 /\ Len(s) = c[n] - 1 /\ Len(s) + 1 = c[n]
  <2>1. n \in 0..n /\ c[n] \in Nat
    BY <1>0
  <2> QED
    BY <2>1 DEF Ends, Spread
<1>2. ASSUME NEW p \in Commas(s)
      PROVE  p \in Places(c, n)
  <2>1. p \in 1..Len(s) /\ s[p] = Comma
    BY DEF Commas
  <2>2. p \in Nat /\ p > 0 /\ p < c[n]
    BY <1>0, <1>1, <2>1
  <2>3. CASE \E i \in 1..n - 1 : p = c[i]
    <3>1. \A i \in 1..n - 1 : i \in 0..n
      OBVIOUS
    <3> QED
      BY <2>3, <3>1 DEF Places
  <2>4. CASE \E i \in 1..n : \E j \in 1..Len(vs[i]) : p = c[i - 1] + j
    <3> PICK i \in 1..n : \E j \in 1..Len(vs[i]) : p = c[i - 1] + j
      BY <2>4
    <3>1. PICK j \in 1..Len(vs[i]) : p = c[i - 1] + j
      OBVIOUS
    <3>2. s[p] = vs[i][j]
      BY <3>1 DEF Spread
    <3> QED
      BY <2>1, <3>1, <3>2 DEF Bare
  <2> QED
    BY <2>2, <2>3, <2>4, WithinIs
<1>3. ASSUME NEW i \in 1..n - 1
      PROVE  c[i] \in Commas(s)
  <2>1. i \in 0..n /\ 0 \in 0..n /\ n \in 0..n /\ 0 < i /\ i < n
    OBVIOUS
  <2>2. c[0] < c[i] /\ c[i] < c[n]
    BY <2>1, EndsGrow
  <2>3. c[i] \in 1..Len(s)
    BY <1>0, <1>1, <2>1, <2>2
  <2>4. s[c[i]] = Comma
    BY DEF Spread
  <2>5. Cardinality(Marks(s, c[i])) % 2 = 0
    BY <2>1, EvenBefore
  <2> QED
    BY <2>3, <2>4, <2>5 DEF Commas, Marks
<1>4. ASSUME NEW p \in Places(c, n)
      PROVE  p \in Commas(s) \cup {0, Len(s) + 1}
  <2>1. PICK i \in 0..n : p = c[i]
    BY DEF Places
  <2>2. CASE i = 0
    BY <1>1, <2>1, <2>2
  <2>3. CASE i = n
    BY <1>1, <2>1, <2>3
  <2>4. CASE i # 0 /\ i # n
    <3>1. i \in 1..n - 1
      BY <2>4
    <3> QED
      BY <1>3, <2>1, <3>1
  <2> QED
    BY <2>2, <2>3, <2>4
<1>5. 0 \in Places(c, n) /\ Len(s) + 1 \in Places(c, n)
  <2>1. 0 \in 0..n /\ n \in 0..n
    OBVIOUS
  <2> QED
    BY <1>1, <2>1 DEF Places
<1> QED
  BY <1>2, <1>4, <1>5

LEMMA EndsOrder ==
  ASSUME NEW vs, NEW n \in Nat, NEW c, Ends(vs, c, n), NEW i \in 0..n, NEW j \in i..n
  PROVE  c[i] \in Nat /\ c[j] \in Nat /\ c[i] <= c[j]
<1>1. c[i] \in Nat /\ c[j] \in Nat /\ j \in 0..n
  BY DEF Ends
<1>2. i = j \/ i < j
  OBVIOUS
<1>3. i < j => c[i] < c[j]
  BY <1>1, EndsGrow, Zenon
<1> QED
  BY <1>1, <1>2, <1>3

LEMMA PieceSame ==
  ASSUME NEW S, NEW s \in Seq(S), NEW v \in Seq(S), NEW k \in Nat,
         k + Len(v) <= Len(s), Shifted(s, v, k, Len(v))
  PROVE  SubSeq(s, k + 1, k + Len(v)) = v
<1> PICK m \in Nat, a \in Nat, b \in Nat : m = Len(v) /\ a = k + 1 /\ b = k + m
  <2>1. Len(v) \in Nat
    OBVIOUS
  <2> QED
    BY <2>1
<1>1. SubSeq(s, a, b) \in Seq(S) /\ Len(SubSeq(s, a, b)) = m /\ \A j \in 1..m : SubSeq(s, a, b)[j] = s[k + j]
  <2>1. k + m <= Len(s) /\ a = k + 1 /\ b = k + m
    OBVIOUS
  <2> QED
    BY <2>1, PieceIs
<1>2. \A j \in 1..m : s[k + j] = v[j]
  BY DEF Shifted
<1> QED
  BY <1>1, <1>2, SameSeq

LEMMA PlacesOfEnds ==
  ASSUME NEW vs, NEW n \in Nat, NEW c, Ends(vs, c, n)
  PROVE  Cardinality(Places(c, n)) = n + 1 /\ \A k \in 0..n : Nth(Places(c, n), k + 1) = c[k]
<1>1. c \in [0..n -> Nat]
  BY DEF Ends
<1>2. \A i, j \in 0..n : i < j => c[i] < c[j]
  BY EndsGrow
<1> QED
  BY <1>1, <1>2, PlaceByNumber

LEMMA PieceOf ==
  ASSUME NEW S, NEW vs \in Seq(Seq(S)), NEW c, Ends(vs, c, Len(vs)), NEW s \in Seq(S), Spread(s, vs, c, Len(vs)),
         NEW f \in 1..Len(vs), NEW h, h = f - 1
  PROVE  SubSeq(s, c[h] + 1, c[h] + Len(vs[f])) = vs[f]
<1>1. c[h] \in Nat /\ c[f] \in Nat /\ Len(vs[f]) \in Nat /\ c[f] = c[h] + Len(vs[f]) + 1
  BY EndsStep
<1>2. vs[f] \in Seq(S)
  BY ItemOf
<1>3. c[f] <= c[Len(vs)] /\ c[Len(vs)] \in Nat
  <2>1. f \in 0..Len(vs) /\ Len(vs) \in f..Len(vs)
    OBVIOUS
  <2> QED
    BY <2>1, EndsOrder
<1>4. c[h] + Len(vs[f]) <= Len(s)
  <2>1. Len(s) = c[Len(vs)] - 1
    BY DEF Spread
  <2> QED
    BY <1>1, <1>3, <2>1
<1>5. Shifted(s, vs[f], c[h], Len(vs[f]))
  BY DEF Spread, Shifted
<1> QED
  BY <1>1, <1>2, <1>4, <1>5, PieceSame, Zenon

LEMMA FieldsSpread ==
  ASSUME NEW S, NEW vs \in Seq(Seq(S)), NEW c, Ends(vs, c, Len(vs)),
         NEW s \in Seq(S), Spread(s, vs, c, Len(vs)),
         \A i \in 1..Len(vs) : Even(vs[i]), \A i \in 1..Len(vs) : Bare(vs[i]), Len(vs) > 0
  PROVE  Fields(s) = vs
<1>1. Commas(s) \cup {0, Len(s) + 1} = Places(c, Len(vs))
  BY CommasOf
<1> DEFINE P == Places(c, Len(vs))
<1>2. Fields(s) = [f \in 1..Cardinality(P) - 1 |-> SubSeq(s, Nth(P, f) + 1, Nth(P, f + 1) - 1)]
  BY <1>1, Zenon DEF Fields
<1>3. Cardinality(P) = Len(vs) + 1 /\ \A k \in 0..Len(vs) : Nth(P, k + 1) = c[k]
  <2>1. Len(vs) \in Nat
    OBVIOUS
  <2> QED
    BY <2>1, PlacesOfEnds, Zenon
<1> HIDE DEF P
<1>4. ASSUME NEW f \in 1..Len(vs)
      PROVE  SubSeq(s, Nth(P, f) + 1, Nth(P, f + 1) - 1) = vs[f]
  <2> PICK h \in 0..Len(vs) : h = f - 1
    <3>1. f - 1 \in 0..Len(vs)
      OBVIOUS
    <3> QED
      BY <3>1
  <2>1. Nth(P, f) = c[h] /\ Nth(P, f + 1) = c[f]
    <3>1. Nth(P, h + 1) = c[h] /\ Nth(P, f + 1) = c[f]
      <4>1. h \in 0..Len(vs) /\ f \in 0..Len(vs)
        OBVIOUS
      <4> QED
        BY <1>3, <4>1, Zenon
    <3>2. h + 1 = f
      OBVIOUS
    <3> QED
      BY <3>1, <3>2
  <2>2. c[h] \in Nat /\ c[f] \in Nat /\ Len(vs[f]) \in Nat /\ c[f] = c[h] + Len(vs[f]) + 1
    BY EndsStep
  <2>3. SubSeq(s, c[h] + 1, c[h] + Len(vs[f])) = vs[f]
    BY PieceOf
  <2>4. c[f] - 1 = c[h] + Len(vs[f])
    BY <2>2
  <2> QED
    BY <2>1, <2>3, <2>4
<1>5. Cardinality(P) - 1 = Len(vs)
  BY <1>3
<1>6. Fields(s) = [f \in 1..Len(vs) |-> vs[f]]
  BY <1>2, <1>4, <1>5
<1> QED
  BY <1>6

(* save_rows: the fields of a row, with commas between them.                 *)
Add(u, v) == u \o (<<Comma>> \o v)
Appended(s, u, v) ==
  /\ Len(s) = Len(u) + 1 + Len(v) /\ s[Len(u) + 1] = Comma
  /\ \A j \in 1..Len(u) : s[j] = u[j]
  /\ \A j \in 1..Len(v) : s[Len(u) + 1 + j] = v[j]

LEMMA AddIs ==
  ASSUME NEW S, Comma \in S, NEW u \in Seq(S), NEW v \in Seq(S)
  PROVE  Add(u, v) \in Seq(S) /\ Appended(Add(u, v), u, v)
BY Around DEF Add, Appended

LEMMA AddText == \A S : Comma \in S => \A u, v \in Seq(S) : Add(u, v) \in Seq(S)
BY AddIs

LEMMA AddAppends == \A S : Comma \in S => \A u, v \in Seq(S) : Appended(Add(u, v), u, v)
BY AddIs

LEMMA PlaceBefore ==
  ASSUME NEW x \in Nat, NEW m \in Nat, NEW y \in Nat, y = x + m + 1, NEW z \in Nat, y <= z,
         NEW a \in Nat, a + 1 = z, NEW j \in 1..m
  PROVE  x + j \in 1..a
OBVIOUS

LEMMA SpreadStep ==
  ASSUME NEW vs, NEW c, NEW n \in Nat, Ends(vs, c, n), NEW l \in 2..n, NEW k, k = l - 1,
         NEW u, Len(u) \in Nat, Spread(u, vs, c, k), NEW s, Appended(s, u, vs[l])
  PROVE  Spread(s, vs, c, l)
<1>1. /\ l \in 1..n /\ k \in 0..n /\ k \in 1..n
      /\ \A i \in 1..k : i \in 1..n /\ i \in 0..n /\ k \in i..n
      /\ \A i \in 1..l : i \in 1..k \/ i = l
      /\ \A i \in 1..l - 1 : i \in 1..k
  OBVIOUS
<1>2. c[k] \in Nat /\ c[l] \in Nat /\ c[l] = c[k] + Len(vs[l]) + 1 /\ Len(vs[l]) \in Nat
  BY <1>1, EndsStep
<1>3. /\ Len(u) = c[k] - 1
      /\ \A i \in 1..k : \A j \in 1..Len(vs[i]) : u[c[i - 1] + j] = vs[i][j]
      /\ \A i \in 1..k - 1 : u[c[i]] = Comma
  BY DEF Spread
<1>4. Len(u) + 1 = c[k]
  BY <1>2, <1>3
<1>5. /\ Len(s) = c[k] + Len(vs[l]) /\ s[c[k]] = Comma
      /\ \A j \in 1..Len(u) : s[j] = u[j]
      /\ \A j \in 1..Len(vs[l]) : s[c[k] + j] = vs[l][j]
  BY <1>4 DEF Appended
<1>6. Len(s) = c[l] - 1
  BY <1>2, <1>5
<1>7. ASSUME NEW i \in 1..k, NEW j \in 1..Len(vs[i])
      PROVE  s[c[i - 1] + j] = vs[i][j]
  <2> PICK h : h = i - 1
    OBVIOUS
  <2>1. c[h] \in Nat /\ c[i] \in Nat /\ Len(vs[i]) \in Nat /\ c[i] = c[h] + Len(vs[i]) + 1
    BY <1>1, EndsStep
  <2>2. c[i] <= c[k]
    BY <1>1, EndsOrder
  <2>3. c[h] + j \in 1..Len(u)
    <3>1. Len(vs[i]) \in Nat /\ Len(u) \in Nat
      BY <2>1
    <3> QED
      BY <1>2, <1>4, <2>1, <2>2, <3>1, PlaceBefore, Zenon
  <2>4. s[c[h] + j] = u[c[h] + j]
    BY <1>5, <2>3
  <2>5. u[c[h] + j] = vs[i][j]
    BY <1>3
  <2> QED
    BY <2>4, <2>5
<1>8. \A j \in 1..Len(vs[l]) : s[c[l - 1] + j] = vs[l][j]
  BY <1>5
<1>9. ASSUME NEW i \in 1..l - 1
      PROVE  s[c[i]] = Comma
  <2>1. CASE i = k
    BY <1>5, <2>1
  <2>2. CASE i # k
    <3>1. i \in 1..k - 1 /\ i \in 0..n /\ 0 \in 0..n /\ 0 < i /\ i < k
      BY <2>2
    <3>2. c[i] < c[k] /\ c[0] < c[i]
      BY <1>1, <3>1, EndsGrow
    <3>3. c[i] \in Nat /\ c[0] = 0
      BY <3>1 DEF Ends
    <3>4. c[i] \in 1..Len(u)
      BY <1>2, <1>4, <3>2, <3>3
    <3>5. s[c[i]] = u[c[i]]
      BY <1>5, <3>4
    <3> QED
      BY <1>3, <3>1, <3>5
  <2> QED
    BY <2>1, <2>2
<1>10. \A i \in 1..l : \A j \in 1..Len(vs[i]) : s[c[i - 1] + j] = vs[i][j]
  BY <1>1, <1>7, <1>8
<1> QED
  BY <1>6, <1>9, <1>10 DEF Spread

(* The texts that save_rows has joined after each field.                     *)
Growing(f, vs, n) == f[1] = vs[1] /\ \A k \in 2..n : f[k] = Add(f[k - 1], vs[k])

LEMMA FlatSteps ==
  ASSUME NEW B, NEW n, NEW f, Flat(B, n, f)
  PROVE  \A l \in 1..n : f[l] = IF l = 1 THEN B[l] ELSE f[l - 1] \o B[l]
<1> SUFFICES ASSUME NEW l \in 1..n
             PROVE  f[l] = IF l = 1 THEN B[l] ELSE f[l - 1] \o B[l]
  OBVIOUS
<1> QED
  BY Zenon DEF Flat

LEMMA JoinGrows ==
  ASSUME NEW vs, Len(vs) \in Nat \ {0}
  PROVE  \E f : Growing(f, vs, Len(vs)) /\ Join(vs) = f[Len(vs)]
<1> DEFINE B == [i \in 1..Len(vs) |-> IF i = 1 THEN vs[i] ELSE <<Comma>> \o vs[i]]
<1>1. Join(vs) = FlattenSeq(B)
  BY Zenon DEF Join
<1>2. Len(B) = Len(vs) /\ B[1] = vs[1] /\ \A l \in 2..Len(vs) : B[l] = <<Comma>> \o vs[l]
  OBVIOUS
<1> HIDE DEF B
<1>3. PICK f : Flat(B, Len(vs), f) /\ FlattenSeq(B) = f[Len(vs)]
  BY <1>2, FlattenIs
<1>4. \A l \in 1..Len(vs) : f[l] = IF l = 1 THEN B[l] ELSE f[l - 1] \o B[l]
  BY <1>3, FlatSteps
<1>5. f[1] = vs[1]
  <2>1. 1 \in 1..Len(vs)
    OBVIOUS
  <2> QED
    BY <1>2, <1>4, <2>1
<1>6. ASSUME NEW l \in 2..Len(vs)
      PROVE  f[l] = Add(f[l - 1], vs[l])
  <2>1. l \in 1..Len(vs) /\ l # 1
    OBVIOUS
  <2>2. f[l] = f[l - 1] \o B[l]
    BY <1>4, <2>1, Zenon
  <2>3. B[l] = <<Comma>> \o vs[l]
    BY <1>2, Zenon
  <2> QED
    BY <2>2, <2>3, Zenon DEF Add
<1> QED
  BY <1>1, <1>3, <1>5, <1>6, Zenon DEF Growing

LEMMA GrowingText ==
  ASSUME NEW S, Comma \in S, NEW vs \in Seq(Seq(S)), Len(vs) > 0, NEW f, Growing(f, vs, Len(vs))
  PROVE  \A k \in 1..Len(vs) : f[k] \in Seq(S)
<1> PICK n \in Nat : n = Len(vs)
  OBVIOUS
<1>0. f[1] = vs[1] /\ \A k \in 2..n : f[k] = Add(f[k - 1], vs[k])
  BY DEF Growing
<1>1. \A k \in 1..n : vs[k] \in Seq(S)
  BY ItemOf
<1> DEFINE G == {k \in 0..n : k = 0 \/ f[k] \in Seq(S)}
<1>2. ASSUME NEW k \in 0..n, \A l \in 0..k - 1 : l \in G
      PROVE  k = 0 \/ f[k] \in Seq(S)
  <2>1. CASE k = 1
    BY <1>0, <1>1, <2>1
  <2>2. CASE k > 1
    <3>1. k - 1 \in 0..k - 1 /\ k - 1 # 0 /\ k \in 2..n /\ k \in 1..n
      BY <2>2
    <3>2. f[k - 1] \in Seq(S)
      BY <1>2, <3>1
    <3>3. Add(f[k - 1], vs[k]) \in Seq(S)
      BY <1>1, <3>1, <3>2, AddText, Zenon
    <3>4. f[k] = Add(f[k - 1], vs[k])
      BY <1>0, <3>1, Zenon
    <3> QED
      BY <3>3, <3>4, Zenon
  <2> QED
    BY <2>1, <2>2
<1>3. \A k \in 0..n : (\A l \in 0..k - 1 : l \in G) => k \in G
  BY <1>2
<1>4. \A k \in 0..n : k \in G
  <2> HIDE DEF G
  <2> QED
    BY <1>3, UpTo
<1>5. \A k \in 1..n : k \in 0..n /\ k # 0
  OBVIOUS
<1> QED
  BY <1>4, <1>5

EndsOf(f, n) == [i \in 0..n |-> IF i = 0 THEN 0 ELSE Len(f[i]) + 1]

LEMMA GrowingEnds ==
  ASSUME NEW S, Comma \in S, NEW vs \in Seq(Seq(S)), Len(vs) > 0, NEW f, Growing(f, vs, Len(vs)),
         NEW c, c = EndsOf(f, Len(vs))
  PROVE  Ends(vs, c, Len(vs)) /\ Spread(f[1], vs, c, 1)
<1> PICK n \in Nat \ {0} : n = Len(vs)
  OBVIOUS
<1>1. \A k \in 1..n : f[k] \in Seq(S)
  BY GrowingText
<1>2. /\ c[0] = 0 /\ \A k \in 1..n : c[k] = Len(f[k]) + 1 /\ Len(f[k]) \in Nat
      /\ c \in [0..n -> Nat]
  BY <1>1 DEF EndsOf
<1>3. ASSUME NEW i \in 1..n
      PROVE  Len(vs[i]) \in Nat /\ c[i] = c[i - 1] + Len(vs[i]) + 1
  <2>1. vs[i] \in Seq(S)
    BY ItemOf
  <2>2. CASE i = 1
    <3>1. f[1] = vs[1]
      BY DEF Growing
    <3> QED
      BY <1>2, <2>1, <2>2, <3>1
  <2>3. CASE i > 1
    <3>0. i \in 2..n /\ i - 1 \in 1..n
      BY <2>3
    <3>1. f[i] = Add(f[i - 1], vs[i])
      BY <3>0, Zenon DEF Growing
    <3>2. f[i - 1] \in Seq(S)
      BY <1>1, <3>0, Zenon
    <3>3. Appended(Add(f[i - 1], vs[i]), f[i - 1], vs[i])
      BY <2>1, <3>2, AddAppends, Zenon
    <3>4. Appended(f[i], f[i - 1], vs[i])
      BY <3>1, <3>3, Zenon
    <3>5. Len(f[i]) = Len(f[i - 1]) + 1 + Len(vs[i])
      BY <3>4 DEF Appended
    <3>6. c[i] = Len(f[i]) + 1 /\ c[i - 1] = Len(f[i - 1]) + 1 /\ Len(f[i - 1]) \in Nat
      BY <1>2, <3>0
    <3>7. Len(vs[i]) \in Nat
      BY <2>1
    <3> QED
      BY <3>5, <3>6, <3>7
  <2> QED
    BY <2>2, <2>3
<1>4. Ends(vs, c, n)
  BY <1>2, <1>3 DEF Ends
<1>5. \A i \in 1..1 : i = 1 /\ i - 1 = 0
  OBVIOUS
<1>6. \A j \in 1..Len(vs[1]) : f[1][c[0] + j] = vs[1][j]
  BY <1>2 DEF Growing
<1>7. Len(f[1]) = c[1] - 1
  BY <1>2
<1>8. Spread(f[1], vs, c, 1)
  BY <1>5, <1>6, <1>7 DEF Spread
<1> QED
  BY <1>4, <1>8

LEMMA JoinIs ==
  ASSUME NEW S, Comma \in S, NEW vs \in Seq(Seq(S)), Len(vs) > 0
  PROVE  Join(vs) \in Seq(S) /\ \E c : Ends(vs, c, Len(vs)) /\ Spread(Join(vs), vs, c, Len(vs))
<1> PICK n \in Nat \ {0} : n = Len(vs)
  OBVIOUS
<1>1. PICK f : Growing(f, vs, n) /\ Join(vs) = f[n]
  BY JoinGrows
<1>2. \A k \in 1..n : f[k] \in Seq(S)
  BY <1>1, GrowingText
<1>3. PICK c : c = EndsOf(f, n)
  OBVIOUS
<1>4. Ends(vs, c, n) /\ Spread(f[1], vs, c, 1)
  BY <1>1, <1>3, GrowingEnds
<1> DEFINE G == {k \in 0..n : k = 0 \/ Spread(f[k], vs, c, k)}
<1>5. ASSUME NEW k \in 0..n, \A l \in 0..k - 1 : l \in G
      PROVE  k = 0 \/ Spread(f[k], vs, c, k)
  <2>1. CASE k = 1
    BY <1>4, <2>1
  <2>2. CASE k > 1
    <3>0. k - 1 \in 0..k - 1 /\ k - 1 # 0 /\ k \in 2..n /\ k - 1 \in 1..n /\ k \in 1..n
      BY <2>2
    <3>1. Spread(f[k - 1], vs, c, k - 1)
      BY <1>5, <3>0
    <3>2. vs[k] \in Seq(S) /\ f[k - 1] \in Seq(S) /\ Len(f[k - 1]) \in Nat
      BY <1>2, <3>0, ItemOf
    <3>3. f[k] = Add(f[k - 1], vs[k])
      BY <1>1, <3>0, Zenon DEF Growing
    <3>4. Appended(Add(f[k - 1], vs[k]), f[k - 1], vs[k])
      BY <3>2, AddAppends, Zenon
    <3>5. Appended(f[k], f[k - 1], vs[k])
      BY <3>3, <3>4, Zenon
    <3>6. Spread(f[k], vs, c, k)
      BY <1>4, <3>0, <3>1, <3>2, <3>5, SpreadStep
    <3> QED
      BY <3>6
  <2> QED
    BY <2>1, <2>2
<1>6. \A k \in 0..n : (\A l \in 0..k - 1 : l \in G) => k \in G
  BY <1>5
<1>7. \A k \in 0..n : k \in G
  <2> HIDE DEF G
  <2> QED
    BY <1>6, UpTo
<1>8. n \in 1..n /\ n \in 0..n /\ n # 0
  OBVIOUS
<1>9. Join(vs) \in Seq(S) /\ Spread(Join(vs), vs, c, n)
  BY <1>1, <1>2, <1>7, <1>8
<1> QED
  BY <1>4, <1>9

(* What parse_csv makes of the text that save_rows joined.                   *)
LEMMA FieldsJoin ==
  ASSUME NEW S, Comma \in S, NEW vs \in Seq(Seq(S)), Len(vs) > 0,
         \A i \in 1..Len(vs) : Even(vs[i]), \A i \in 1..Len(vs) : Bare(vs[i])
  PROVE  Join(vs) \in Seq(S) /\ Fields(Join(vs)) = vs
<1>1. Join(vs) \in Seq(S) /\ \E c : Ends(vs, c, Len(vs)) /\ Spread(Join(vs), vs, c, Len(vs))
  BY JoinIs
<1>2. PICK c : Ends(vs, c, Len(vs)) /\ Spread(Join(vs), vs, c, Len(vs))
  BY <1>1
<1> QED
  BY <1>1, <1>2, FieldsSpread

(* Three and four symbols in front of a text.                                *)
LEMMA FewText == \A a, b \in Letter : <<a>> \in Text /\ <<a, b>> \in Text
BY DEF Text

LEMMA MoreFirst ==
  ASSUME NEW a \in Letter, NEW b \in Letter, NEW c \in Letter
  PROVE  <<a, b, c>> = <<a, b>> \o <<c>>
<1>1. ASSUME NEW s \in Text, NEW t \in Text, Len(s) = 3, Len(t) = 3, s[1] = t[1], s[2] = t[2], s[3] = t[3]
      PROVE  s = t
  <2>1. \A j \in 1..Len(s) : j = 1 \/ j = 2 \/ j = 3
    BY <1>1
  <2>2. \A j \in 1..Len(s) : s[j] = t[j]
    BY <1>1, <2>1
  <2> QED
    BY <1>1, <2>2, SameSeq DEF Text
<1>3. <<a, b, c>> \in Text /\ <<a, b>> \in Text /\ <<c>> \in Text
  BY DEF Text
<1>4. <<a, b>> \o <<c>> \in Text
  BY <1>3, Joined, Zenon
<1>5. LET s == <<a, b>> \o <<c>> IN Len(s) = 3 /\ s[1] = a /\ s[2] = b /\ s[3] = c
  OBVIOUS
<1>7. LET s == <<a, b, c>> IN Len(s) = 3 /\ s[1] = a /\ s[2] = b /\ s[3] = c
  OBVIOUS
<1> QED
  BY <1>1, <1>3, <1>4, <1>5, <1>7, Zenon

ValuesFirst(y) == <<Blank, "VALUES", Blank, "(">> \o y
LEMMA ValuesFirstIs ==
  \A y \in Text : ValuesFirst(y) = <<Blank>> \o (<<"VALUES">> \o (<<Blank>> \o (<<"(">> \o y)))
<1>1. ASSUME NEW s \in Text, NEW t \in Text, Len(s) = 4, Len(t) = 4,
             s[1] = t[1], s[2] = t[2], s[3] = t[3], s[4] = t[4]
      PROVE  s = t
  <2>1. \A j \in 1..Len(s) : j = 1 \/ j = 2 \/ j = 3 \/ j = 4
    BY <1>1
  <2>2. \A j \in 1..Len(s) : s[j] = t[j]
    BY <1>1, <2>1
  <2> QED
    BY <1>1, <2>2, SameSeq DEF Text
<1>2. Blank \in Letter /\ "VALUES" \in Letter /\ "(" \in Letter
  BY LetterIs
<1>3. PICK a, b, c : a = Blank /\ b = "VALUES" /\ c = "(" /\ a \in Letter /\ b \in Letter /\ c \in Letter
  BY <1>2
<1>4. <<a, b, a, c>> \in Text /\ <<a, b>> \in Text /\ <<a, c>> \in Text /\ <<c>> \in Text /\ <<a>> \in Text
  BY <1>3 DEF Text
<1>5. <<a, b>> \o <<a, c>> \in Text
  BY <1>4, Joined, Zenon
<1>6. LET s == <<a, b>> \o <<a, c>> IN Len(s) = 4 /\ s[1] = a /\ s[2] = b /\ s[3] = a /\ s[4] = c
  OBVIOUS
<1>7. LET s == <<a, b, a, c>> IN Len(s) = 4 /\ s[1] = a /\ s[2] = b /\ s[3] = a /\ s[4] = c
  OBVIOUS
<1>8. <<a, b, a, c>> = <<a, b>> \o <<a, c>>
  BY <1>1, <1>4, <1>5, <1>6, <1>7, Zenon
<1>9. ASSUME NEW y \in Text
      PROVE  <<a, b, a, c>> \o y = <<a>> \o (<<b>> \o (<<a>> \o (<<c>> \o y)))
  <2>1. <<a, b>> \in Text
    BY <1>4
  <2>2. <<a, c>> \in Text
    BY <1>4
  <2>3. (<<a, b>> \o <<a, c>>) \o y = <<a, b>> \o (<<a, c>> \o y)
    BY <2>1, <2>2, Apart, Zenon
  <2>4. a \in Letter /\ b \in Letter /\ c \in Letter
    BY <1>3
  <2>5. <<a, c>> \o y = <<a>> \o (<<c>> \o y)
    BY <2>4, Few, Zenon
  <2>6. <<a>> \o (<<c>> \o y) \in Text
    BY <1>4, Joined, Zenon
  <2>7. <<a, b>> \o (<<a>> \o (<<c>> \o y)) = <<a>> \o (<<b>> \o (<<a>> \o (<<c>> \o y)))
    BY <2>4, <2>6, Few, Zenon
  <2> QED
    BY <1>8, <2>3, <2>5, <2>7, Zenon
<1> QED
  BY <1>3, <1>9, Zenon DEF ValuesFirst

LEMMA MoreThree == \A a, b, c \in Letter : <<a, b, c>> = <<a, b>> \o <<c>>
BY MoreFirst

LEMMA Three ==
  ASSUME NEW a \in Letter, NEW b \in Letter, NEW c \in Letter, NEW y \in Text
  PROVE  <<a, b, c>> \o y = <<a>> \o (<<b>> \o (<<c>> \o y))
<1>1. <<a, b>> \in Text /\ <<c>> \in Text
  BY FewText
<1>2. <<a, b, c>> \o y = <<a, b>> \o (<<c>> \o y)
  <2>1. <<a, b, c>> = <<a, b>> \o <<c>>
    BY MoreThree, Zenon
  <2>2. (<<a, b>> \o <<c>>) \o y = <<a, b>> \o (<<c>> \o y)
    BY <1>1, Apart, Zenon
  <2> QED
    BY <2>1, <2>2, Zenon
<1>3. <<c>> \o y \in Text
  BY <1>1, Joined, Zenon
<1>4. <<a, b>> \o (<<c>> \o y) = <<a>> \o (<<b>> \o (<<c>> \o y))
  BY <1>3, Few, Zenon
<1> QED
  BY <1>2, <1>4, Zenon

LEMMA ThreeOf == \A a, b, c \in Letter : \A y \in Text : <<a, b, c>> \o y = <<a>> \o (<<b>> \o (<<c>> \o y))
BY Three

LEMMA AfterTable == \A y \in Text : (<<Blank>> \o Table) \o y = <<Blank>> \o (Table \o y)
<1>1. <<Blank>> \in Text
  BY LetterIs
<1>2. Table \in Text
  BY NamesAssumption DEF Text, Letter
<1> QED
  BY <1>1, <1>2, Apart, Zenon

LEMMA TableText == Table \in Text /\ Len(Table) > 0 /\ \A j \in 1..Len(Table) : NameSymbol(Table[j])
BY NamesAssumption, NameSymbolsOf DEF Text, Letter

LEMMA SpellInsert ==
  ASSUME NEW q, q.op = "INSERT", q.before = None, q.extra = None, Join(q.fields) \in Text
  PROVE  /\ Spell(q) = <<Blank>> \o (Table \o InsertText(Join(q.fields)))
         /\ InsertText(Join(q.fields)) \in Text
<1> PICK list \in Text : list = Join(q.fields)
  OBVIOUS
<1>1. /\ <<Blank>> \in Text /\ <<"VALUES">> \in Text /\ <<"(">> \in Text /\ <<")">> \in Text
      /\ <<Blank, "VALUES", Blank, "(">> \in Text
  BY LetterIs DEF Text
<1>2. list \o <<")">> \in Text
  BY <1>1, Joined, Zenon
<1>3. InsertText(list) = <<Blank, "VALUES", Blank, "(">> \o (list \o <<")">>)
  <2>1. ValuesFirst(list \o <<")">>)
          = <<Blank>> \o (<<"VALUES">> \o (<<Blank>> \o (<<"(">> \o (list \o <<")">>))))
    BY <1>2, ValuesFirstIs, Zenon
  <2> QED
    BY <2>1, Zenon DEF InsertText, ValuesFirst
<1>4. InsertText(list) \in Text
  BY <1>1, <1>2, <1>3, Joined, Zenon
<1>5. Spell(q) = (<<Blank>> \o Table) \o
        ((((<< >> \o <<Blank, "VALUES", Blank, "(">>) \o list) \o <<")">>) \o << >>)
  <2>1. SpellIf(q.before # None, q.before) = << >>
    BY Zenon DEF SpellIf
  <2> QED
    BY <2>1, Zenon DEF Spell, None
<1>6. ((((<< >> \o <<Blank, "VALUES", Blank, "(">>) \o list) \o <<")">>) \o << >>) = InsertText(list)
  <2>1. << >> \o <<Blank, "VALUES", Blank, "(">> = <<Blank, "VALUES", Blank, "(">>
    BY <1>1, Nothing, Zenon
  <2>2. (<<Blank, "VALUES", Blank, "(">> \o list) \o <<")">> = InsertText(list)
    BY <1>1, <1>3, Apart, Zenon
  <2>3. InsertText(list) \o << >> = InsertText(list)
    BY <1>4, Nothing, Zenon
  <2> QED
    BY <2>1, <2>2, <2>3, Zenon
<1>7. (<<Blank>> \o Table) \o InsertText(list) = <<Blank>> \o (Table \o InsertText(list))
  BY <1>4, AfterTable, Zenon
<1> QED
  BY <1>4, <1>5, <1>6, <1>7, Zenon

LEMMA SpellUpdate ==
  ASSUME NEW q, q.op = "UPDATE", q.extra = None, q.field \in Text, Names[q.col] \in Text,
         q.wcol # None => q.wcol \in Text /\ q.wvalue \in Text
  PROVE  Spell(q) = <<Blank>> \o (Table \o UpdateText(q)) /\ UpdateText(q) \in Text
<1> PICK name \in Text : name = Names[q.col]
  OBVIOUS
<1> PICK field \in Text : field = q.field
  OBVIOUS
<1>1. /\ <<Blank>> \in Text /\ <<"SET">> \in Text /\ <<"=">> \in Text
      /\ <<Blank, "SET", Blank>> \in Text
  BY LetterIs DEF Text
<1>2. SpellWhere(q) = WhereText(q) /\ WhereText(q) \in Text
  BY WhereIs
<1> PICK where \in Text : where = WhereText(q)
  BY <1>2
<1>3. field \o where \in Text /\ <<"=">> \o (field \o where) \in Text
      /\ name \o (<<"=">> \o (field \o where)) \in Text
  BY <1>1, Joined, Zenon
<1> DEFINE rest == name \o (<<"=">> \o (field \o where))
<1>4. UpdateText(q) = <<Blank, "SET", Blank>> \o rest
  <2>1. UpdateText(q) = <<Blank>> \o (<<"SET">> \o (<<Blank>> \o rest))
    BY Zenon DEF UpdateText
  <2>2. <<Blank, "SET", Blank>> \o rest = <<Blank>> \o (<<"SET">> \o (<<Blank>> \o rest))
    <3>1. rest \in Text
      BY <1>3
    <3>2. Blank \in Letter /\ "SET" \in Letter
      BY LetterIs
    <3> HIDE DEF rest
    <3> QED
      BY <3>1, <3>2, ThreeOf, Zenon
  <2> QED
    BY <2>1, <2>2, Zenon
<1>5. UpdateText(q) \in Text
  BY <1>1, <1>3, <1>4, Joined, Zenon
<1>6. Spell(q) = (<<Blank>> \o Table) \o
        (((((<<Blank, "SET", Blank>> \o name) \o <<"=">>) \o field) \o << >>) \o where)
  BY <1>2, Zenon DEF Spell, None
<1>7. ((((<<Blank, "SET", Blank>> \o name) \o <<"=">>) \o field) \o << >>) \o where = UpdateText(q)
  <2>0. PICK set, is : set \in Text /\ set = <<Blank, "SET", Blank>> /\ is \in Text /\ is = <<"=">>
    BY <1>1
  <2>5. set \in Text
    BY <2>0
  <2>6. is \in Text
    BY <2>0
  <2>1. set \o name \in Text /\ (set \o name) \o is \in Text /\ ((set \o name) \o is) \o field \in Text
    BY <2>5, <2>6, Joined, Zenon
  <2>2. (((set \o name) \o is) \o field) \o << >> = ((set \o name) \o is) \o field
    BY <2>1, Nothing, Zenon
  <2>3. (((set \o name) \o is) \o field) \o where = ((set \o name) \o is) \o (field \o where)
    <3>1. (set \o name) \o is \in Text
      BY <2>1
    <3>2. \A b, c \in Text : (((set \o name) \o is) \o b) \o c = ((set \o name) \o is) \o (b \o c)
      BY <3>1, Apart, Zenon
    <3> QED
      BY <3>2, Zenon
  <2>7. field \o where \in Text
    BY <1>3
  <2>4. ((set \o name) \o is) \o (field \o where) = set \o (name \o (is \o (field \o where)))
    <3>1. \A c, d \in Text : ((set \o name) \o c) \o d = set \o (name \o (c \o d))
      BY <2>5, FourApart, Zenon
    <3> QED
      BY <2>6, <2>7, <3>1, Zenon
  <2> QED
    BY <1>4, <2>0, <2>2, <2>3, <2>4, Zenon
<1>8. (<<Blank>> \o Table) \o UpdateText(q) = <<Blank>> \o (Table \o UpdateText(q))
  BY <1>5, AfterTable, Zenon
<1> QED
  BY <1>5, <1>6, <1>7, <1>8, Zenon

LEMMA SpellDelete ==
  ASSUME NEW q, q.op = "DELETE", q.extra = None,
         q.wcol # None => q.wcol \in Text /\ q.wvalue \in Text
  PROVE  Spell(q) = <<Blank>> \o (Table \o WhereText(q)) /\ WhereText(q) \in Text
<1>1. SpellWhere(q) = WhereText(q) /\ WhereText(q) \in Text
  BY WhereIs
<1>2. SpellIf(q.extra # None, q.extra) = << >>
  BY Zenon DEF SpellIf
<1>3. Spell(q) = (<<Blank>> \o Table) \o (<< >> \o WhereText(q))
  BY <1>1, <1>2, Zenon DEF Spell
<1>4. << >> \o WhereText(q) = WhereText(q)
  BY <1>1, Nothing, Zenon
<1>5. (<<Blank>> \o Table) \o WhereText(q) = <<Blank>> \o (Table \o WhereText(q))
  BY <1>1, AfterTable, Zenon
<1> QED
  BY <1>1, <1>3, <1>4, <1>5, Zenon

(* A text with nothing but blanks around a core, which starts after n of     *)
(* them.                                                                     *)
Padded(s, c, n) ==
  /\ n + Len(c) <= Len(s) /\ Shifted(s, c, n, Len(c))
  /\ \A j \in 1..Len(s) : j <= n \/ j > n + Len(c) => s[j] = Blank
Tight(c) == c = << >> \/ (c[1] # Blank /\ c[Len(c)] # Blank)

LEMMA PaddedTrim ==
  ASSUME NEW S, NEW s \in Seq(S), NEW c \in Seq(S), NEW n \in Nat, Padded(s, c, n), Tight(c)
  PROVE  Trim(s) = c
<1>1. /\ Len(c) \in Nat /\ Len(s) \in Nat /\ n + Len(c) <= Len(s)
      /\ \A j \in 1..Len(c) : s[n + j] = c[j]
      /\ \A j \in 1..Len(s) : j <= n \/ j > n + Len(c) => s[j] = Blank
  BY DEF Padded, Shifted
<1>2. CASE c = << >>
  <2>1. \A j \in 1..Len(s) : s[j] = Blank
    BY <1>1, <1>2
  <2> QED
    BY <1>2, <2>1, TrimIs
<1>3. CASE c # << >>
  <2>1. Len(c) > 0 /\ c[1] # Blank /\ c[Len(c)] # Blank
    BY <1>3 DEF Tight
  <2>2. /\ n + 1 \in 1..Len(s) /\ s[n + 1] # Blank
        /\ n + Len(c) \in 1..Len(s) /\ s[n + Len(c)] # Blank
    <3>1. 1 \in 1..Len(c) /\ Len(c) \in 1..Len(c)
      BY <1>1, <2>1
    <3>2. s[n + 1] = c[1] /\ s[n + Len(c)] = c[Len(c)]
      BY <1>1, <3>1
    <3>3. n + 1 \in 1..Len(s) /\ n + Len(c) \in 1..Len(s)
      BY <1>1, <2>1
    <3> QED
      BY <2>1, <3>2, <3>3
  <2>3. PICK a, b \in 1..Len(s) :
          /\ a <= b /\ s[a] # Blank /\ s[b] # Blank /\ Trim(s) = SubSeq(s, a, b)
          /\ \A j \in 1..Len(s) : j < a \/ j > b => s[j] = Blank
    BY <2>2, TrimIs
  <2>4. a = n + 1
    <3>1. ~(n + 1 < a)
      BY <2>2, <2>3
    <3>2. ~(a <= n)
      BY <1>1, <2>3
    <3> QED
      BY <3>1, <3>2
  <2>5. b = n + Len(c)
    <3>1. ~(n + Len(c) > b)
      BY <2>2, <2>3
    <3>2. ~(b > n + Len(c))
      BY <1>1, <2>3
    <3> QED
      BY <1>1, <3>1, <3>2
  <2>6. SubSeq(s, n + 1, n + Len(c)) = c
    BY PieceSame DEF Padded
  <2> QED
    BY <2>3, <2>4, <2>5, <2>6
<1> QED
  BY <1>2, <1>3

LEMMA PadFront ==
  ASSUME NEW S, NEW c \in Seq(S), Blank \in S
  PROVE  /\ Padded(c, c, 0)
         /\ <<Blank>> \o c \in Seq(S) /\ Padded(<<Blank>> \o c, c, 1)
<1>1. Padded(c, c, 0)
  BY DEF Padded, Shifted
<1>2. <<Blank>> \o c \in Seq(S) /\ Len(<<Blank>> \o c) = 1 + Len(c) /\ (<<Blank>> \o c)[1] = Blank
      /\ \A j \in 1..Len(c) : (<<Blank>> \o c)[1 + j] = c[j]
  OBVIOUS
<1>3. Padded(<<Blank>> \o c, c, 1)
  <2>1. \A j \in 1..1 + Len(c) : j <= 1 \/ j > 1 + Len(c) => j = 1
    OBVIOUS
  <2>2. 1 + Len(c) <= Len(<<Blank>> \o c)
    BY <1>2
  <2>3. \A j \in 1..Len(<<Blank>> \o c) : j <= 1 \/ j > 1 + Len(c) => (<<Blank>> \o c)[j] = Blank
    BY <1>2, <2>1
  <2> QED
    BY <1>2, <2>2, <2>3 DEF Padded, Shifted
<1> QED
  BY <1>1, <1>2, <1>3

LEMMA PadBehind ==
  ASSUME NEW S, NEW s \in Seq(S), Blank \in S
  PROVE  /\ s \o <<Blank>> \in Seq(S) /\ Len(s \o <<Blank>>) = Len(s) + 1
         /\ (s \o <<Blank>>)[Len(s) + 1] = Blank
         /\ \A j \in 1..Len(s) : (s \o <<Blank>>)[j] = s[j]
OBVIOUS

LEMMA PadBack ==
  ASSUME NEW S, NEW s \in Seq(S), Blank \in S, NEW c, Len(c) \in Nat, NEW n \in Nat, Padded(s, c, n)
  PROVE  Padded(s \o <<Blank>>, c, n)
<1>1. PICK t \in Seq(S) : /\ t = s \o <<Blank>> /\ Len(t) = Len(s) + 1 /\ t[Len(s) + 1] = Blank
                          /\ \A j \in 1..Len(s) : t[j] = s[j]
  BY PadBehind
<1>2. /\ n + Len(c) <= Len(s) /\ Len(s) \in Nat
      /\ \A j \in 1..Len(c) : s[n + j] = c[j]
      /\ \A j \in 1..Len(s) : j <= n \/ j > n + Len(c) => s[j] = Blank
  BY DEF Padded, Shifted
<1>3. n + Len(c) <= Len(t)
  BY <1>1, <1>2
<1>4. \A j \in 1..Len(c) : t[n + j] = c[j]
  <2>1. \A j \in 1..Len(c) : n + j \in 1..Len(s)
    BY <1>2
  <2> QED
    BY <1>1, <1>2, <2>1
<1>5. \A j \in 1..Len(t) : j <= n \/ j > n + Len(c) => t[j] = Blank
  <2>1. \A j \in 1..Len(t) : j \in 1..Len(s) \/ j = Len(s) + 1
    BY <1>1, <1>2
  <2> QED
    BY <1>1, <1>2, <2>1
<1> QED
  BY <1>1, <1>3, <1>4, <1>5 DEF Padded, Shifted

LEMMA CutTail ==
  ASSUME NEW S, NEW s \in Seq(S), Blank \in S, Len(s) <= MaxValue
  PROVE  CutValue(s \o <<Blank>>) \in {s, s \o <<Blank>>}
<1>1. PICK t \in Seq(S) : /\ t = s \o <<Blank>> /\ Len(t) = Len(s) + 1 /\ t[Len(s) + 1] = Blank
                          /\ \A j \in 1..Len(s) : t[j] = s[j]
  BY PadBehind
<1>2. CASE Len(s) < MaxValue
  <2>1. Len(t) <= MaxValue
    BY <1>1, <1>2, LexisAssumption
  <2>2. CutValue(t) = t
    BY <2>1, CutWhole
  <2> QED
    BY <1>1, <2>2
<1>3. CASE Len(s) = MaxValue
  <2>1. Min({Len(s) + 1, Len(s)}) = Len(s)
    BY MinOfTwo
  <2>2. CutValue(t) = SubSeq(t, 1, Len(s))
    BY <1>1, <1>3, <2>1 DEF CutValue
  <2>3. SubSeq(t, 0 + 1, 0 + Len(s)) = s
    <3>1. Shifted(t, s, 0, Len(s)) /\ 0 + Len(s) <= Len(t)
      BY <1>1 DEF Shifted
    <3> QED
      BY <3>1, PieceSame
  <2>4. 0 + 1 = 1 /\ 0 + Len(s) = Len(s)
    OBVIOUS
  <2>5. CutValue(t) = s
    BY <2>2, <2>3, <2>4
  <2> QED
    BY <1>1, <2>5
<1> QED
  BY <1>2, <1>3, LexisAssumption

(* A field that fits, with or without a blank behind it.                     *)
LEMMA FieldTrims ==
  ASSUME NEW S, NEW f \in Seq(S), Blank \in S, Len(f) <= MaxValue,
         NEW c \in Seq(S), Tight(c), NEW n \in Nat, Padded(f, c, n)
  PROVE  Trim(CutValue(f)) = c /\ Trim(CutValue(f \o <<Blank>>)) = c
<1>1. CutValue(f) = f
  BY CutWhole
<1>2. Trim(f) = c
  BY PaddedTrim
<1>3. Trim(f \o <<Blank>>) = c
  <2>1. f \o <<Blank>> \in Seq(S)
    BY PadBehind
  <2>2. Padded(f \o <<Blank>>, c, n)
    BY PadBack
  <2> QED
    BY <2>1, <2>2, PaddedTrim
<1> QED
  BY <1>1, <1>2, <1>3, CutTail

(* The symbols of a value, and the two ways it is written.                   *)
ValueSymbols == Letter \ {"NULL", Quote}
Core(v, c) == c = v \/ c = Quoted(v)

LEMMA SeqGrows == \A S, T : S \subseteq T => Seq(S) \subseteq Seq(T)
OBVIOUS

LEMMA ValueText ==
  ASSUME NEW v, IsValue(v)
  PROVE  v \in Seq(ValueSymbols) /\ v \in Text
<1>1. STRING \ {"NULL", Quote} \subseteq ValueSymbols /\ ValueSymbols \subseteq Letter
  BY DEF ValueSymbols, Letter
<1> QED
  BY <1>1, SeqGrows DEF IsValue, Text

LEMMA TrimTight ==
  ASSUME NEW S, NEW v \in Seq(S), v = Trim(v)
  PROVE  Tight(v)
<1>1. CASE Trim(v) = << >>
  BY <1>1 DEF Tight
<1>2. ASSUME NEW a \in 1..Len(v), NEW b \in 1..Len(v),
             a <= b, v[a] # Blank, v[b] # Blank, Trim(v) = SubSeq(v, a, b)
      PROVE  Tight(v)
  <2>1. Len(SubSeq(v, a, b)) = b - a + 1
    BY <1>2
  <2>2. Len(v) = b - a + 1
    BY <1>2, <2>1
  <2>3. a = 1 /\ b = Len(v)
    BY <1>2, <2>2
  <2> QED
    BY <1>2, <2>3 DEF Tight
<1> QED
  BY <1>1, <1>2, TrimIs

LEMMA QuotedParts ==
  ASSUME NEW v \in Text
  PROVE  /\ Quoted(v) \in Text /\ Len(Quoted(v)) = Len(v) + 2
         /\ Quoted(v)[1] = Quote /\ Quoted(v)[Len(v) + 2] = Quote
         /\ \A j \in 1..Len(v) : Quoted(v)[1 + j] = v[j]
<1>1. <<Quote>> \o v \in Text /\ Len(<<Quote>> \o v) = 1 + Len(v) /\ (<<Quote>> \o v)[1] = Quote
      /\ \A j \in 1..Len(v) : (<<Quote>> \o v)[1 + j] = v[j]
  BY LetterIs DEF Text
<1>2. PICK u \in Text : /\ u = <<Quote>> \o v /\ Len(u) = 1 + Len(v) /\ u[1] = Quote
                        /\ \A j \in 1..Len(v) : u[1 + j] = v[j]
  BY <1>1
<1>3. /\ u \o <<Quote>> \in Text /\ Len(u \o <<Quote>>) = Len(u) + 1
      /\ (u \o <<Quote>>)[Len(u) + 1] = Quote
      /\ \A j \in 1..Len(u) : (u \o <<Quote>>)[j] = u[j]
  BY LetterIs DEF Text
<1>4. Quoted(v) = u \o <<Quote>>
  BY <1>2, Zenon DEF Quoted
<1>5. Len(v) \in Nat /\ 1 \in 1..Len(u) /\ \A j \in 1..Len(v) : 1 + j \in 1..Len(u)
  BY <1>2 DEF Text
<1>6. Len(u) + 1 = Len(v) + 2
  BY <1>2, <1>5
<1> QED
  BY <1>2, <1>3, <1>4, <1>5, <1>6

LEMMA UnquotedSame ==
  ASSUME NEW v \in Seq(ValueSymbols)
  PROVE  Unquote(v) = v
<1>1. Len(v) >= 2 => Head(v) # Quote
  <2>1. Len(v) >= 2 => Head(v) \in ValueSymbols
    OBVIOUS
  <2> QED
    BY <2>1 DEF ValueSymbols
<1> QED
  BY <1>1, Zenon DEF Unquote

LEMMA UnquotedIs ==
  ASSUME NEW v \in Text
  PROVE  Unquote(Quoted(v)) = v
<1>1. PICK t \in Text : /\ t = Quoted(v) /\ Len(t) = Len(v) + 2 /\ t[1] = Quote /\ t[Len(v) + 2] = Quote
                        /\ \A j \in 1..Len(v) : t[1 + j] = v[j]
  BY QuotedParts
<1>2. Len(v) \in Nat
  BY DEF Text
<1>3. Len(t) >= 2 /\ Head(t) = Quote /\ Last(t) = Quote
  BY <1>1, <1>2 DEF Text, Last
<1>4. Unquote(t) = SubSeq(t, 2, Len(t) - 1)
  BY <1>3, Zenon DEF Unquote
<1>5. SubSeq(t, 1 + 1, 1 + Len(v)) = v
  <2>1. Shifted(t, v, 1, Len(v)) /\ 1 + Len(v) <= Len(t)
    BY <1>1, <1>2 DEF Shifted
  <2> QED
    BY <2>1, PieceSame DEF Text
<1>6. 1 + 1 = 2 /\ 1 + Len(v) = Len(t) - 1
  BY <1>1, <1>2
<1> QED
  BY <1>1, <1>4, <1>5, <1>6

LEMMA NoMarks ==
  ASSUME NEW v \in Seq(ValueSymbols)
  PROVE  Even(v) /\ Cardinality(Marks(v, Len(v))) = 0
<1>1. \A j \in 1..Len(v) : v[j] # Quote
  BY DEF ValueSymbols
<1>2. Cardinality(Marks(v, Len(v))) = 0
  BY <1>1, MarksNone
<1> QED
  BY <1>2 DEF Even

LEMMA TwoMarks ==
  ASSUME NEW v \in Seq(ValueSymbols), v \in Text
  PROVE  Even(Quoted(v))
<1>1. PICK t \in Text : /\ t = Quoted(v) /\ Len(t) = Len(v) + 2 /\ t[1] = Quote /\ t[Len(v) + 2] = Quote
                        /\ \A j \in 1..Len(v) : t[1 + j] = v[j]
  BY QuotedParts
<1>2. Len(v) \in Nat
  OBVIOUS
<1>3. Cardinality(Marks(t, 0)) = 0
  BY MarksNone
<1>4. Cardinality(Marks(t, 1)) = 1
  <2>1. Cardinality(Marks(t, 1)) = Cardinality(Marks(t, 0)) + 1
    <3>1. 1 = 0 + 1 /\ 0 \in Nat
      OBVIOUS
    <3> QED
      BY <1>1, <3>1, MarksGrow
  <2> QED
    BY <1>3, <2>1
<1>5. Cardinality(Marks(t, 1 + Len(v))) = 1
  <2>1. Shifted(t, v, 1, Len(v))
    BY <1>1 DEF Shifted
  <2>2. Cardinality(Marks(t, 1 + Len(v))) = Cardinality(Marks(t, 1)) + Cardinality(Marks(v, Len(v)))
    BY <1>2, <2>1, MarksShifted
  <2> QED
    BY <1>4, <2>2, NoMarks
<1>6. Cardinality(Marks(t, Len(v) + 2)) = 2
  <2>1. PICK m \in Nat, k \in Nat : m = 1 + Len(v) /\ k = Len(v) + 2
    BY <1>2
  <2>2. k = m + 1 /\ t[k] = Quote
    BY <1>1, <1>2, <2>1
  <2>3. Cardinality(Marks(t, k)) = Cardinality(Marks(t, m)) + 1
    BY <2>2, MarksGrow
  <2> QED
    BY <1>5, <2>1, <2>3
<1> QED
  BY <1>1, <1>6 DEF Even

LEMMA BlankFirst ==
  ASSUME NEW c \in Text
  PROVE  /\ <<Blank>> \o c \in Text /\ Len(<<Blank>> \o c) = 1 + Len(c)
         /\ (<<Blank>> \o c)[1] = Blank
         /\ \A j \in 1..Len(c) : (<<Blank>> \o c)[1 + j] = c[j]
BY LetterIs DEF Text

LEMMA EvenBlank ==
  ASSUME NEW c \in Text, Even(c)
  PROVE  Even(<<Blank>> \o c)
<1>1. PICK t \in Text : t = <<Blank>> \o c /\ Len(t) = 1 + Len(c) /\ t[1] = Blank
                        /\ \A j \in 1..Len(c) : t[1 + j] = c[j]
  BY BlankFirst
<1>2. Len(c) \in Nat
  BY DEF Text
<1>3. Cardinality(Marks(t, 1)) = 0
  <2>1. \A j \in 1..1 : t[j] # Quote
    <3>1. t[1] # Quote
      BY <1>1 DEF Blank, Quote
    <3>2. \A j \in 1..1 : j = 1
      OBVIOUS
    <3> QED
      BY <3>1, <3>2, Zenon
  <2> QED
    BY <2>1, MarksNone
<1>4. Cardinality(Marks(t, 1 + Len(c))) = Cardinality(Marks(t, 1)) + Cardinality(Marks(c, Len(c)))
  <2>1. Shifted(t, c, 1, Len(c))
    BY <1>1 DEF Shifted
  <2> QED
    BY <1>2, <2>1, MarksShifted
<1>5. Cardinality(Marks(c, Len(c))) \in Nat
  BY <1>2, MarksFinite
<1>6. Cardinality(Marks(t, 1 + Len(c))) = Cardinality(Marks(c, Len(c)))
  BY <1>3, <1>4, <1>5
<1> QED
  BY <1>1, <1>6 DEF Even

LEMMA BareFrom ==
  ASSUME NEW v \in Text, Comma \notin Range(v)
  PROVE  Bare(v) /\ Bare(Quoted(v))
<1>1. Bare(v)
  BY DEF Bare, Range
<1>2. PICK t \in Text : /\ t = Quoted(v) /\ Len(t) = Len(v) + 2 /\ t[1] = Quote /\ t[Len(v) + 2] = Quote
                        /\ \A j \in 1..Len(v) : t[1 + j] = v[j]
  BY QuotedParts
<1>3. Len(v) \in Nat
  BY DEF Text
<1>4. ASSUME NEW j \in 1..Len(t)
      PROVE  t[j] # Comma
  <2>1. CASE j = 1 \/ j = Len(v) + 2
    BY <1>2, <2>1 DEF Comma, Quote
  <2>2. CASE j # 1 /\ j # Len(v) + 2
    <3>1. PICK i \in 1..Len(v) : j = 1 + i
      BY <1>2, <1>3, <2>2
    <3> QED
      BY <1>1, <1>2, <3>1 DEF Bare
  <2> QED
    BY <2>1, <2>2
<1> QED
  BY <1>1, <1>2, <1>4 DEF Bare

LEMMA BareBlank ==
  ASSUME NEW c \in Text, Bare(c)
  PROVE  Bare(<<Blank>> \o c)
<1>1. PICK t \in Text : t = <<Blank>> \o c /\ Len(t) = 1 + Len(c) /\ t[1] = Blank
                        /\ \A j \in 1..Len(c) : t[1 + j] = c[j]
  BY BlankFirst
<1>2. ASSUME NEW j \in 1..Len(t)
      PROVE  t[j] # Comma
  <2>1. CASE j = 1
    BY <1>1, <2>1 DEF Comma, Blank
  <2>2. CASE j # 1
    <3>1. PICK i \in 1..Len(c) : j = 1 + i
      BY <1>1, <2>2 DEF Text
    <3> QED
      BY <1>1, <3>1 DEF Bare
  <2> QED
    BY <2>1, <2>2
<1> QED
  BY <1>1, <1>2 DEF Bare

LEMMA CoreIs ==
  ASSUME NEW v, IsValue(v), v = Trim(v), NEW c, Core(v, c)
  PROVE  /\ c \in Text /\ Tight(c) /\ Unquote(c) = v /\ Even(c) /\ Len(v) <= Len(c)
         /\ Comma \notin Range(v) => Bare(c)
<1>1. v \in Seq(ValueSymbols) /\ v \in Text
  BY ValueText
<1>2. CASE c = v
  <2>1. Tight(v) /\ Len(v) \in Nat
    BY <1>1, TrimTight DEF Text
  <2> QED
    BY <1>1, <1>2, <2>1, UnquotedSame, NoMarks, BareFrom
<1>3. CASE c = Quoted(v)
  <2>1. /\ c \in Text /\ Len(c) = Len(v) + 2 /\ c[1] = Quote /\ c[Len(c)] = Quote
        /\ Len(v) \in Nat
    BY <1>1, <1>3, QuotedParts DEF Text
  <2>2. Tight(c)
    BY <2>1 DEF Tight, Quote, Blank
  <2> QED
    BY <1>1, <1>3, <2>1, <2>2, UnquotedIs, TwoMarks, BareFrom
<1> QED
  BY <1>2, <1>3 DEF Core

(* A field is a core, with a blank before it or without.                     *)
LEMMA FieldCore ==
  ASSUME NEW v, IsValue(v), NEW f, Writes(f, v), v = Trim(v)
  PROVE  \E c : Core(v, c) /\ (f = c \/ f = <<Blank>> \o c)
<1>1. v \in Text /\ Quoted(v) \in Text
  BY ValueText, QuotedText
<1>2. << >> \o v = v /\ << >> \o Quoted(v) = Quoted(v)
  BY <1>1, Nothing, Zenon
<1>3. PICK gap \in {<< >>, <<Blank>>} : f = gap \o Quoted(v) \/ f = gap \o v
  BY DEF Writes
<1>4. PICK c : Core(v, c) /\ f = gap \o c
  BY <1>3 DEF Core
<1>5. << >> \o c = c
  BY <1>2, <1>4 DEF Core
<1> QED
  BY <1>4, <1>5

LEMMA FieldReads ==
  ASSUME NEW v, IsValue(v), NEW f, Writes(f, v), IsPlain(v, f)
  PROVE  /\ f \in Text /\ Even(f) /\ Bare(f) /\ Len(v) <= MaxValue
         /\ CleanToken(CutValue(f)) = v /\ CleanToken(CutValue(f \o <<Blank>>)) = v
<1>1. Len(f) <= MaxValue /\ Comma \notin Range(v) /\ v = Trim(v)
  BY DEF IsPlain
<1>2. PICK c : Core(v, c) /\ (f = c \/ f = <<Blank>> \o c)
  BY <1>1, FieldCore
<1>3. c \in Text /\ Tight(c) /\ Unquote(c) = v /\ Even(c) /\ Bare(c) /\ Len(v) <= Len(c)
  BY <1>1, <1>2, CoreIs
<1>4. /\ f \in Text /\ Even(f) /\ Bare(f) /\ Len(c) <= Len(f)
      /\ \E n \in Nat : Padded(f, c, n)
  <2>1. Len(c) \in Nat
    BY <1>3 DEF Text
  <2>2. Padded(c, c, 0) /\ Padded(<<Blank>> \o c, c, 1) /\ 0 \in Nat /\ 1 \in Nat
    BY <1>3, LetterIs, PadFront DEF Text
  <2>3. CASE f = c
    BY <1>3, <2>1, <2>2, <2>3
  <2>4. CASE f = <<Blank>> \o c
    <3>1. f \in Text /\ Len(f) = 1 + Len(c)
      BY <1>3, <2>4, BlankFirst
    <3>2. Even(f) /\ Bare(f)
      BY <1>3, <2>4, EvenBlank, BareBlank
    <3> QED
      BY <2>1, <2>2, <2>4, <3>1, <3>2
  <2> QED
    BY <1>2, <2>3, <2>4
<1>5. PICK n \in Nat : Padded(f, c, n)
  BY <1>4
<1>6. Trim(CutValue(f)) = c /\ Trim(CutValue(f \o <<Blank>>)) = c
  BY <1>1, <1>3, <1>4, <1>5, LetterIs, FieldTrims DEF Text
<1>7. Len(v) <= MaxValue
  <2>1. Len(v) \in Nat /\ Len(c) \in Nat /\ Len(f) \in Nat
    BY <1>3, <1>4, ValueText DEF Text
  <2> QED
    BY <1>1, <1>3, <1>4, <2>1, LexisAssumption
<1>8. CleanToken(CutValue(f)) = v /\ CleanToken(CutValue(f \o <<Blank>>)) = v
  BY <1>3, <1>6, Zenon DEF CleanToken
<1> QED
  BY <1>4, <1>7, <1>8

LEMMA ValueReads ==
  ASSUME NEW v, IsValue(v), Len(v) <= MaxValue, Comma \notin Range(v), v = Trim(v)
  PROVE  v \in Seq(ValueSymbols) /\ Even(v) /\ Bare(v) /\ CleanToken(CutValue(v)) = v
<1>1. v \in Seq(ValueSymbols) /\ v \in Text
  BY ValueText
<1>2. CleanToken(CutValue(v)) = v
  <2>1. Quote \notin ValueSymbols
    BY DEF ValueSymbols
  <2> QED
    BY <1>1, <2>1, CleanUnquoted
<1> QED
  BY <1>1, <1>2, NoMarks, BareFrom

(* parse_csv of a text whose fields are known.                               *)
LEMMA ParseIs ==
  ASSUME NEW t, NEW S, NEW fs \in Seq(S), Fields(t) = fs, NEW T, NEW vs \in Seq(T), Len(vs) = Len(fs),
         \A i \in 1..Len(fs) : CleanToken(CutValue(fs[i])) = vs[i]
  PROVE  ParseCsv(t) = vs
<1>1. ParseCsv(t) = [f \in 1..Len(fs) |-> CleanToken(CutValue(fs[f]))]
  BY Zenon DEF ParseCsv
<1>2. vs = [i \in 1..Len(fs) |-> vs[i]]
  OBVIOUS
<1> QED
  BY <1>1, <1>2

(* The rows that are read back as they are.                                  *)
Keeps(v) == IsValue(v) /\ Len(v) <= MaxValue /\ Comma \notin Range(v) /\ v = Trim(v)
IsRow(vs) == vs \in Seq(Text) /\ Len(vs) = Columns /\ \A c \in 1..Columns : Keeps(vs[c])

LEMMA EachIn ==
  ASSUME NEW S, NEW T, NEW vs \in Seq(T), \A i \in 1..Len(vs) : vs[i] \in S
  PROVE  vs \in Seq(S)
OBVIOUS

LEMMA RowReads ==
  ASSUME NEW vs, IsRow(vs)
  PROVE  ParseCsv(Join(vs)) = vs /\ Join(vs) # NoRecord /\ Readable(Join(vs))
<1> DEFINE S == Letter \ {"NULL"}
<1>1. vs \in Seq(Text) /\ Len(vs) = Columns /\ Columns > 0
  BY WidthAssumption DEF IsRow
<1>2. \A i \in 1..Len(vs) : /\ vs[i] \in Seq(ValueSymbols) /\ Even(vs[i]) /\ Bare(vs[i])
                            /\ CleanToken(CutValue(vs[i])) = vs[i]
  BY <1>1, ValueReads DEF IsRow, Keeps
<1>3. vs \in Seq(Seq(S)) /\ Comma \in S /\ "NULL" \notin S
  <2>1. ValueSymbols \subseteq S
    BY DEF ValueSymbols
  <2>2. Seq(ValueSymbols) \subseteq Seq(S)
    BY <2>1, SeqGrows
  <2>3. \A i \in 1..Len(vs) : vs[i] \in Seq(S)
    BY <1>2, <2>2
  <2>4. vs \in Seq(Seq(S))
    <3> HIDE DEF S
    <3> QED
      BY <1>1, <2>3, EachIn
  <2>5. Comma \in S /\ "NULL" \notin S
    BY LetterIs DEF Comma
  <2> QED
    BY <2>4, <2>5
<1> HIDE DEF S
<1>4. Join(vs) \in Seq(S) /\ Fields(Join(vs)) = vs
  BY <1>1, <1>2, <1>3, FieldsJoin
<1>5. ParseCsv(Join(vs)) = vs
  BY <1>1, <1>2, <1>4, ParseIs
<1>6. Join(vs) # NoRecord
  <2>1. NoRecord[1] = "NULL" /\ Len(NoRecord) = 1
    BY DEF NoRecord
  <2> QED
    BY <1>3, <1>4, <2>1
<1> QED
  BY <1>1, <1>5, <1>6 DEF Readable

LEMMA ListReads ==
  ASSUME NEW vs \in Seq(Text), NEW fs \in Seq(Text), Len(vs) = Columns, Len(fs) = Columns,
         \A c \in 1..Columns : IsValue(vs[c]) /\ Writes(fs[c], vs[c]) /\ IsPlain(vs[c], fs[c])
  PROVE  /\ Join(fs) \in Text /\ ParseCsv(Join(fs)) = vs /\ Readable(Join(fs))
         /\ IsRow(vs)
<1>1. \A i \in 1..Len(fs) : /\ fs[i] \in Text /\ Even(fs[i]) /\ Bare(fs[i]) /\ Len(vs[i]) <= MaxValue
                            /\ CleanToken(CutValue(fs[i])) = vs[i]
  BY FieldReads
<1>2. IsRow(vs)
  BY <1>1 DEF IsRow, Keeps, IsPlain
<1>3. Len(fs) > 0
  BY WidthAssumption
<1>4. fs \in Seq(Seq(Letter)) /\ Comma \in Letter
  <2>1. fs \in Seq(Text)
    BY <1>1, EachIn
  <2> QED
    BY <2>1, LetterIs DEF Text
<1>5. Join(fs) \in Seq(Letter) /\ Fields(Join(fs)) = fs
  BY <1>1, <1>3, <1>4, FieldsJoin
<1>6. ParseCsv(Join(fs)) = vs
  BY <1>1, <1>5, ParseIs
<1> QED
  BY <1>2, <1>5, <1>6 DEF Text, Readable

LEMMA WithoutIs ==
  ASSUME NEW s \in Text, NEW x, \A j \in 1..Len(s) : s[j] # x
  PROVE  s \in Without(x)
<1>1. \A j \in 1..Len(s) : s[j] \in Letter \ {x}
  BY DEF Text
<1>2. s \in Seq(Letter)
  BY DEF Text
<1> QED
  BY <1>1, <1>2, EachIn DEF Without

LEMMA WithoutJoined == \A x : \A a, b \in Without(x) : a \o b \in Without(x)
BY JoinText DEF Without

LEMMA OneWithout ==
  /\ <<Blank>> \in Without("VALUES") /\ <<Blank>> \in Without("(") /\ <<Blank>> \in Without("SET")
  /\ <<Blank>> \in Without("WHERE") /\ <<Blank>> \in Without("=") /\ <<"=">> \in Without("WHERE")
  /\ <<Quote>> \in Without("WHERE") /\ \A x : << >> \in Without(x)
<1>1. \A x : \A a \in Letter : a # x => <<a>> \in Without(x)
  BY DEF Without
<1>2. /\ Blank # "VALUES" /\ Blank # "(" /\ Blank # "SET" /\ Blank # "WHERE" /\ Blank # "="
      /\ "=" # "WHERE" /\ Quote # "WHERE"
  BY DEF Blank, Quote
<1>3. \A x : << >> \in Without(x)
  BY DEF Without
<1>4. Blank \in Letter /\ "=" \in Letter /\ Quote \in Letter
  BY LetterIs
<1> QED
  BY <1>1, <1>2, <1>3, <1>4, Zenon

LEMMA CutOf ==
  \A x \in Letter : \A u \in Without(x) : \A w \in Text :
    Cut(u \o (<<x>> \o w), x) = [found |-> TRUE, before |-> u, after |-> w]
BY CutAt DEF Text, Without

(* The text behind the name of the table.                                    *)
LEMMA TableCut ==
  ASSUME NEW r \in Text, AfterAName(r), NEW s, s = <<Blank>> \o (Table \o r)
  PROVE  NameAt(LTrim(s)) = Table /\ AfterName(LTrim(s)) = r
<1>1. NameAt(Table \o r) = Table /\ AfterName(Table \o r) = r
  BY TableText, NameCut DEF Text
<1>2. Table \o r \in Text /\ Len(Table \o r) > 0 /\ (Table \o r)[1] = Table[1]
  BY TableText DEF Text
<1>3. Table[1] # Blank
  <2>1. 1 \in 1..Len(Table)
    BY TableText DEF Text
  <2> QED
    BY <2>1, TableText, NameSymbolIs
<1>4. LTrim(s) = Table \o r
  <2> PICK t \in Text : t = Table \o r
    BY <1>2
  <2>1. Len(t) > 0 /\ t[1] # Blank
    BY <1>2, <1>3
  <2>2. LTrim(<<Blank>> \o t) = t
    BY <2>1, LTrimIs DEF Text
  <2> QED
    BY <2>2, Zenon
<1> QED
  BY <1>1, <1>4, Zenon

LEMMA BlankName == \A y \in Text : AfterAName(<<Blank>> \o y)
BY BlankFirst DEF AfterAName

LEMMA CutStatementIs ==
  ASSUME NEW s, NameAt(LTrim(s)) = Table, NEW r, AfterName(LTrim(s)) = r
  PROVE  /\ CutStatement("INSERT", s) = CutValues(Cut(r, "VALUES"))
         /\ CutStatement("UPDATE", s) = CutUpdate(Cut(r, "SET"))
         /\ CutStatement("DELETE", s) = CutDelete(Cut(r, "WHERE"))
<1>1. "INSERT" # "UPDATE" /\ "INSERT" # "DELETE" /\ "UPDATE" # "DELETE"
  OBVIOUS
<1>2. CutStatement("INSERT", s) = CutValues(Cut(r, "VALUES"))
  BY <1>1, Zenon DEF CutStatement
<1>3. CutStatement("UPDATE", s) = CutUpdate(Cut(r, "SET"))
  BY <1>1, Zenon DEF CutStatement
<1>4. CutStatement("DELETE", s) = CutDelete(Cut(r, "WHERE"))
  BY <1>1, Zenon DEF CutStatement
<1> QED
  BY <1>2, <1>3, <1>4

LEMMA SaidInsert ==
  ASSUME NEW q, q.op = "INSERT", Supported(q), NEW list \in Text, list = Join(q.fields), Readable(list)
  PROVE  Said(q) = [ok |-> TRUE, list |-> list]
<1>0. list \o <<")">> \in Text /\ <<")">> \in Text /\ <<"(">> \in Text /\ <<Blank>> \in Text
  BY LetterIs, Joined DEF Text
<1> DEFINE last == list \o <<")">>
           open == <<Blank>> \o (<<"(">> \o last)
<1>1. Spell(q) = <<Blank>> \o (Table \o InsertText(list)) /\ InsertText(list) \in Text
  BY SpellInsert DEF Supported
<1>2. InsertText(list) = <<Blank>> \o (<<"VALUES">> \o open)
  BY Zenon DEF InsertText
<1>3. last \in Text /\ open \in Text /\ <<"VALUES">> \o open \in Text
  BY <1>0, LetterIs, Joined DEF Text
<1>4. AfterAName(InsertText(list))
  BY <1>2, <1>3, BlankName, Zenon
<1>5. NameAt(LTrim(Spell(q))) = Table /\ AfterName(LTrim(Spell(q))) = InsertText(list)
  BY <1>1, <1>4, TableCut
<1>6. Said(q) = CutValues(Cut(InsertText(list), "VALUES"))
  BY <1>5, CutStatementIs DEF Said
<1>7. PICK values : values = Cut(InsertText(list), "VALUES") /\ values.found /\ values.after = open
  <2>1. <<Blank>> \in Without("VALUES") /\ "VALUES" \in Letter
    BY OneWithout, LetterIs
  <2> HIDE DEF open
  <2>2. Cut(<<Blank>> \o (<<"VALUES">> \o open), "VALUES") = [found |-> TRUE, before |-> <<Blank>>, after |-> open]
    BY <1>3, <2>1, CutOf, Zenon
  <2> QED
    BY <1>2, <2>2
<1>8. Cut(open, "(") = [found |-> TRUE, before |-> <<Blank>>, after |-> last]
  <2>1. <<Blank>> \in Without("(") /\ "(" \in Letter
    BY OneWithout, LetterIs
  <2> HIDE DEF last
  <2> QED
    BY <1>3, <2>1, CutOf, Zenon
<1>9. PICK cut : cut = Cut(open, "(") /\ cut.found /\ cut.after = list \o <<")">>
  BY <1>8
<1>10. Closing(cut.after) > 0 /\ ListIn(cut) = list
  BY <1>9, LetterIs, ListInIs DEF Text
<1>11. CutInsert(cut) = [ok |-> TRUE, list |-> list]
  BY <1>9, <1>10, Zenon DEF CutInsert
<1> HIDE DEF open
<1>12. CutValues(values) = CutInsert(cut)
  BY <1>7, <1>9, Zenon DEF CutValues
<1> QED
  BY <1>6, <1>7, <1>11, <1>12, Zenon

LEMMA PositionIs ==
  ASSUME NEW c \in 1..Columns
  PROVE  Position(Names[c]) = c
<1> PICK name : name = Names[c]
  OBVIOUS
<1>0. Columns \in Nat /\ Len(Names) = Columns /\ \A a, b \in 1..Columns : Names[a] = Names[b] => a = b
  BY WidthAssumption, NamesAssumption
<1> DEFINE I == {j \in 1..Len(Names) : Names[j] = name}
<1>1. I = {c}
  BY <1>0
<1>2. Position(name) = IF I # {} THEN Min(I) ELSE 0
  BY Zenon DEF Position, SelectInSeq
<1>3. Min({c}) = c
  <2>1. {c} \in SUBSET Nat
    BY <1>0
  <2> QED
    BY <2>1, Least
<1> QED
  BY <1>1, <1>2, <1>3

LEMMA NameIs ==
  ASSUME NEW c \in 1..Columns
  PROVE  /\ Names[c] \in Text /\ Len(Names[c]) > 0 /\ Len(Names[c]) < MaxValue
         /\ \A j \in 1..Len(Names[c]) : NameSymbol(Names[c][j])
         /\ Solid(Names[c]) /\ Names[c] \in Range(Names)
<1>1. Names[c] \in Seq(STRING) /\ ValidName(Names[c]) /\ Len(Names[c]) < MaxValue /\ Names[c] \in Range(Names)
  BY NamesAssumption DEF Range
<1>2. Len(Names[c]) > 0 /\ \A j \in 1..Len(Names[c]) : NameSymbol(Names[c][j])
  BY <1>1, NameSymbolsOf
<1>3. Names[c] \in Text
  BY <1>1 DEF Text, Letter
<1>4. Solid(Names[c])
  <2>1. Names[c] # << >>
    BY <1>2
  <2>2. \A j \in 1..Len(Names[c]) : Names[c][j] \notin Operators \cup Quotes \cup {Blank}
    BY <1>2, NameSymbolIs
  <2> QED
    BY <2>1, <2>2, Zenon DEF Solid
<1> QED
  BY <1>1, <1>2, <1>3, <1>4

LEMMA NameOf ==
  ASSUME NEW w \in Range(Names)
  PROVE  \E c \in 1..Columns : w = Names[c]
BY NamesAssumption DEF Range

(* The tokens of a condition.                                                *)
CondText(w, v) == w \o (<<"=">> \o Quoted(v))

LEMMA CondTextIs ==
  ASSUME NEW w \in Range(Names), NEW v, IsValue(v)
  PROVE  CondText(w, v) \in Text /\ Len(CondText(w, v)) > 0 /\ CondText(w, v)[1] = w[1] /\ NameSymbol(w[1])
         /\ w \in Text
<1>1. PICK c \in 1..Columns : w = Names[c]
  BY NameOf
<1>2. w \in Text /\ Len(w) > 0 /\ \A j \in 1..Len(w) : NameSymbol(w[j])
  BY <1>1, NameIs
<1>3. <<"=">> \o Quoted(v) \in Text
  <2>1. Quoted(v) \in Text /\ <<"=">> \in Text
    BY ValueText, QuotedText, LetterIs DEF Text
  <2> QED
    BY <2>1, Joined, Zenon
<1>4. 1 \in 1..Len(w)
  BY <1>2 DEF Text
<1>5. \A y \in Text : w \o y \in Text /\ Len(w \o y) > 0 /\ (w \o y)[1] = w[1]
  BY <1>2 DEF Text
<1> QED
  BY <1>2, <1>3, <1>4, <1>5 DEF CondText

LEMMA CondTokens ==
  ASSUME NEW w \in Range(Names), NEW v, IsValue(v), Len(v) <= MaxValue
  PROVE  Tokens(CondText(w, v)) = <<w>> \o (<<<<"=">>>> \o (<<Trim(v)>> \o << >>))
<1>1. PICK c \in 1..Columns : w = Names[c]
  BY NameOf
<1>2. w \in Text /\ Solid(w) /\ Len(w) <= MaxValue
  <2>1. w \in Text /\ Len(w) < MaxValue /\ Solid(w)
    BY <1>1, NameIs
  <2> QED
    BY <2>1, LexisAssumption DEF Text
<1>3. v \in Text /\ Quoted(v) \in Text
  BY ValueText, QuotedText
<1>4. Tokens(Quoted(v)) = <<Trim(v)>> \o << >>
  <2>1. PICK S : v \in Seq(S) /\ Quote \notin S /\ S \subseteq Letter
    BY DEF IsValue, Letter
  <2>0. Quote \in Letter /\ << >> \in Seq(Letter) /\ v \in Seq(S) /\ Quote \notin S /\ S \subseteq Letter
    BY <2>1, LetterIs
  <2>5. \A u \in Seq(Letter) :
          Tokens(<<Quote>> \o v \o <<Quote>> \o u) = <<Trim(v)>> \o Tokens(u)
    BY <2>0, QuotedIs, SMTT(40)
  <2>2. Tokens(<<Quote>> \o v \o <<Quote>> \o << >>) = <<Trim(v)>> \o Tokens(<< >>)
    BY <2>0, <2>5, Zenon
  <2>3. Quoted(v) \o << >> = Quoted(v)
    BY <1>3, Nothing, Zenon
  <2>4. Tokens(Quoted(v) \o << >>) = <<Trim(v)>> \o Tokens(<< >>)
    BY <2>2, Zenon DEF Quoted
  <2> QED
    BY <2>3, <2>4, TokensEmpty, Zenon
<1>5. Tokens(<<"=">> \o Quoted(v)) = <<<<"=">>>> \o Tokens(Quoted(v))
  <2>1. "=" \in Letter /\ "=" \in Operators
    BY LetterIs DEF Operators
  <2>2. Quoted(v)[1] \notin Operators
    BY <1>3, QuotedParts DEF Operators, Quote
  <2> QED
    BY <1>3, <2>1, <2>2, SingleIs DEF Text
<1>6. Tokens(w \o (<<"=">> \o Quoted(v))) = <<w>> \o Tokens(<<"=">> \o Quoted(v))
  <2>1. "=" \in Letter
    BY LetterIs
  <2>2. <<"=">> \o Quoted(v) \in Text /\ (<<"=">> \o Quoted(v))[1] = "="
    BY <1>3, <2>1 DEF Text
  <2>3. PICK u \in Text : u = <<"=">> \o Quoted(v) /\ u[1] = "="
    BY <2>2
  <2>4. WordEnds(u)
    BY <2>3 DEF WordEnds, Operators
  <2>5. Tokens(w \o u) = <<w>> \o Tokens(u)
    BY <1>2, <2>4, WordIs DEF Text
  <2> QED
    BY <2>3, <2>5, Zenon
<1> QED
  BY <1>4, <1>5, <1>6, Zenon DEF CondText

LEMMA CondIs ==
  ASSUME NEW w \in Range(Names), NEW v, IsValue(v), Len(v) <= MaxValue
  PROVE  /\ ConditionOf(Tokens(CondText(w, v))) = Tokens(CondText(w, v))
         /\ ConditionOf(Tokens(<<Blank>> \o CondText(w, v))) = Tokens(CondText(w, v))
         /\ Tokens(CondText(w, v)) # None /\ Tokens(CondText(w, v)) # NoWhere
         /\ Tokens(CondText(w, v))[1] = w /\ Tokens(CondText(w, v))[3] = Trim(v)
<1> PICK t : t = Tokens(CondText(w, v))
  OBVIOUS
<1>1. t = <<w>> \o (<<<<"=">>>> \o (<<Trim(v)>> \o << >>))
  BY CondTokens
<1>2. Len(t) = 3 /\ t[1] = w /\ t[2] = <<"=">> /\ t[3] = Trim(v)
  BY <1>1
<1>3. Tokens(<<Blank>> \o CondText(w, v)) = t
  <2>1. CondText(w, v) \in Seq(Letter) /\ Blank \in Letter
    BY CondTextIs, LetterIs DEF Text
  <2> QED
    BY <2>1, TokensBlank
<1>4. t # None /\ t # NoWhere
  <2>1. Len(None) = 0 /\ Len(NoWhere) = 1
    BY DEF None, NoWhere
  <2>2. Len(t) # Len(None) /\ Len(t) # Len(NoWhere)
    BY <1>2, <2>1
  <2> QED
    BY <2>2, Zenon
<1>5. ConditionOf(t) = t
  BY <1>2, Zenon DEF ConditionOf
<1> QED
  BY <1>2, <1>3, <1>4, <1>5

(* What the WHERE clause of a statement says.                                *)
NamesColumn(q) == q.wcol # None => q.wcol \in Range(Names) /\ IsValue(q.wvalue) /\ Len(q.wvalue) <= MaxValue
Cond(q) == IF q.wcol = None THEN NoWhere ELSE Tokens(CondText(q.wcol, q.wvalue))

LEMMA WhereParts ==
  ASSUME NEW q, NamesColumn(q), q.wcol # None
  PROVE  /\ q.wcol \in Text /\ q.wvalue \in Text /\ CondText(q.wcol, q.wvalue) \in Text
         /\ <<Blank>> \o CondText(q.wcol, q.wvalue) \in Text
         /\ <<"WHERE">> \o (<<Blank>> \o CondText(q.wcol, q.wvalue)) \in Text
         /\ WhereText(q) = <<Blank>> \o (<<"WHERE">> \o (<<Blank>> \o CondText(q.wcol, q.wvalue)))
         /\ ConditionOf(Tokens(<<Blank>> \o CondText(q.wcol, q.wvalue))) = Cond(q)
         /\ Cond(q) # None
<1>1. q.wcol \in Range(Names) /\ IsValue(q.wvalue) /\ Len(q.wvalue) <= MaxValue
  BY DEF NamesColumn
<1>2. q.wcol \in Text /\ q.wvalue \in Text /\ CondText(q.wcol, q.wvalue) \in Text
  BY <1>1, CondTextIs, ValueText
<1>3. <<Blank>> \in Text /\ <<"WHERE">> \in Text
  BY LetterIs DEF Text
<1>4. <<Blank>> \o CondText(q.wcol, q.wvalue) \in Text
  BY <1>2, <1>3, Joined, Zenon
<1>5. <<"WHERE">> \o (<<Blank>> \o CondText(q.wcol, q.wvalue)) \in Text
  BY <1>3, <1>4, Joined, Zenon
<1>6. WhereText(q) = <<Blank>> \o (<<"WHERE">> \o (<<Blank>> \o CondText(q.wcol, q.wvalue)))
  BY Zenon DEF WhereText, CondText
<1>7. Cond(q) = Tokens(CondText(q.wcol, q.wvalue))
  BY Zenon DEF Cond
<1>8. ConditionOf(Tokens(<<Blank>> \o CondText(q.wcol, q.wvalue))) = Cond(q) /\ Cond(q) # None
  BY <1>1, <1>7, CondIs
<1> QED
  BY <1>2, <1>4, <1>5, <1>6, <1>8

LEMMA CutWhereText ==
  ASSUME NEW q, NamesColumn(q)
  PROVE  LET where == Cut(WhereText(q), "WHERE")
         IN  Condition(where, where.after) = Cond(q) /\ Cond(q) # None
<1> PICK where : where = Cut(WhereText(q), "WHERE")
  OBVIOUS
<1>1. CASE q.wcol = None
  <2>1. << >> \in Without("WHERE")
    BY OneWithout
  <2>2. Cut(<< >>, "WHERE").found = FALSE
    BY <2>1, CutNo DEF Without
  <2>3. WhereText(q) = << >>
    BY <1>1, Zenon DEF WhereText
  <2>4. Condition(where, where.after) = NoWhere
    BY <2>2, <2>3, Zenon DEF Condition
  <2>5. Cond(q) = NoWhere /\ NoWhere # None
    BY <1>1 DEF Cond, NoWhere, None
  <2> QED
    BY <2>4, <2>5
<1>2. CASE q.wcol # None
  <2> DEFINE rest == <<Blank>> \o CondText(q.wcol, q.wvalue)
  <2>1. WhereText(q) = <<Blank>> \o (<<"WHERE">> \o rest) /\ rest \in Text
        /\ ConditionOf(Tokens(rest)) = Cond(q) /\ Cond(q) # None
    BY <1>2, WhereParts
  <2> HIDE DEF rest
  <2>2. <<Blank>> \in Without("WHERE") /\ "WHERE" \in Letter
    BY OneWithout, LetterIs
  <2>3. Cut(<<Blank>> \o (<<"WHERE">> \o rest), "WHERE") = [found |-> TRUE, before |-> <<Blank>>, after |-> rest]
    BY <2>1, <2>2, CutOf, Zenon
  <2>4. where.found = TRUE /\ where.after = rest
    BY <2>1, <2>3
  <2>5. Condition(where, where.after) = ConditionOf(Tokens(rest))
    BY <2>4, Zenon DEF Condition
  <2> QED
    BY <2>1, <2>5
<1> QED
  BY <1>1, <1>2

LEMMA WhereBehind ==
  ASSUME NEW q, NamesColumn(q)
  PROVE  WhereText(q) \in Text /\ AfterAName(WhereText(q))
<1>1. CASE q.wcol = None
  <2>1. WhereText(q) = << >>
    BY <1>1, Zenon DEF WhereText
  <2> QED
    BY <2>1, LetterIs DEF AfterAName
<1>2. CASE q.wcol # None
  <2>1. PICK y \in Text : WhereText(q) = <<Blank>> \o y
    BY <1>2, WhereParts
  <2> QED
    BY <2>1, BlankFirst, BlankName
<1> QED
  BY <1>1, <1>2

LEMMA SaidDelete ==
  ASSUME NEW q, q.op = "DELETE", Supported(q), NamesColumn(q)
  PROVE  Said(q) = [ok |-> TRUE, cond |-> Cond(q)]
<1>1. q.wcol # None => q.wcol \in Text /\ q.wvalue \in Text
  BY WhereParts
<1>2. Spell(q) = <<Blank>> \o (Table \o WhereText(q)) /\ WhereText(q) \in Text /\ AfterAName(WhereText(q))
  BY <1>1, SpellDelete, WhereBehind DEF Supported
<1>3. NameAt(LTrim(Spell(q))) = Table /\ AfterName(LTrim(Spell(q))) = WhereText(q)
  BY <1>2, TableCut
<1>4. Said(q) = CutDelete(Cut(WhereText(q), "WHERE"))
  BY <1>3, CutStatementIs DEF Said
<1> PICK where : where = Cut(WhereText(q), "WHERE")
  OBVIOUS
<1>5. Condition(where, where.after) = Cond(q) /\ Cond(q) # None
  BY CutWhereText
<1>6. CutDelete(where) = [ok |-> TRUE, cond |-> Cond(q)]
  BY <1>5, Zenon DEF CutDelete, Clause
<1> QED
  BY <1>4, <1>6

(* The assignment of an UPDATE.                                              *)
LEMMA ColumnNamed ==
  ASSUME NEW c \in 1..Columns
  PROVE  CleanToken(CutValue(<<Blank>> \o Names[c])) = Names[c]
<1> PICK name \in Text : name = Names[c]
  BY NameIs
<1>1. Len(name) > 0 /\ Len(name) < MaxValue /\ \A j \in 1..Len(name) : NameSymbol(name[j])
  BY NameIs
<1>2. 1 \in 1..Len(name) /\ Len(name) \in 1..Len(name) /\ Len(name) \in Nat
  BY <1>1 DEF Text
<1>3. name[1] # Blank /\ name[Len(name)] # Blank /\ name[1] # Quote
  <2>1. NameSymbol(name[1]) /\ NameSymbol(name[Len(name)])
    BY <1>1, <1>2
  <2>2. Quote \in Quotes
    BY DEF Quotes
  <2> QED
    BY <2>1, <2>2, NameSymbolIs
<1>4. Tight(name)
  BY <1>3 DEF Tight
<1>5. Padded(<<Blank>> \o name, name, 1) /\ <<Blank>> \o name \in Text /\ Len(<<Blank>> \o name) = 1 + Len(name)
  BY PadFront, LetterIs, BlankFirst DEF Text
<1>6. Trim(<<Blank>> \o name) = name
  BY <1>4, <1>5, PaddedTrim DEF Text
<1>7. CutValue(<<Blank>> \o name) = <<Blank>> \o name
  <2>1. Len(<<Blank>> \o name) <= MaxValue
    BY <1>1, <1>2, <1>5, LexisAssumption
  <2> QED
    BY <1>5, <2>1, CutWhole DEF Text
<1>8. Unquote(name) = name
  <2>1. Head(name) = name[1]
    BY <1>1 DEF Text
  <2> QED
    BY <1>3, <2>1, Zenon DEF Unquote
<1> QED
  BY <1>6, <1>7, <1>8, Zenon DEF CleanToken

InFront(r, y, z) == r \in Text /\ r \o y = z
LEMMA OneApart ==
  ASSUME NEW y \in Text, NEW r, NEW z, InFront(r, y, z), NEW a \in Text
  PROVE  InFront(a \o r, y, a \o z)
<1>0. r \in Text /\ r \o y = z
  BY Zenon DEF InFront
<1>1. a \o r \in Text
  BY <1>0, Joined, Zenon
<1>2. (a \o r) \o y = a \o (r \o y)
  BY <1>0, Apart, Zenon
<1> QED
  BY <1>0, <1>1, <1>2, Zenon DEF InFront

LEMMA FieldWithout ==
  ASSUME NEW v, IsValue(v), NEW f, Writes(f, v)
  PROVE  f \in Text /\ ("WHERE" \notin Range(v) => f \in Without("WHERE"))
<1>1. v \in Text /\ Quoted(v) \in Text
  BY ValueText, QuotedText
<1>2. PICK gap \in {<< >>, <<Blank>>} : f = gap \o Quoted(v) \/ f = gap \o v
  BY DEF Writes
<1>3. gap \in Text
  BY LetterIs
<1>4. f \in Text
  BY <1>1, <1>2, <1>3, Joined, Zenon
<1>5. ASSUME "WHERE" \notin Range(v)
      PROVE  f \in Without("WHERE")
  <2>1. v \in Without("WHERE")
    <3>1. \A j \in 1..Len(v) : v[j] # "WHERE"
      BY <1>1, <1>5 DEF Text, Range
    <3> QED
      BY <1>1, <3>1, WithoutIs
  <2>2. <<Quote>> \in Without("WHERE") /\ gap \in Without("WHERE")
    BY OneWithout
  <2>3. <<Quote>> \o v \in Without("WHERE")
    BY <2>1, <2>2, WithoutJoined, Zenon
  <2>4. Quoted(v) \in Without("WHERE")
    BY <2>2, <2>3, WithoutJoined, Zenon DEF Quoted
  <2> QED
    BY <1>2, <2>1, <2>2, <2>4, WithoutJoined, Zenon
<1> QED
  BY <1>4, <1>5

AssignText(name, field, tail) == <<Blank>> \o (name \o (<<"=">> \o (field \o tail)))

Assigned(c, field, tail, cond) ==
  CutAssignment(Cut(AssignText(Names[c], field, tail), "="), cond)
    = [ok |-> TRUE, col |-> c, set |-> field \o tail, cond |-> cond]

LEMMA CutAtEquals ==
  ASSUME NEW c \in 1..Columns, NEW field \in Text, NEW tail \in Text, NEW cond, cond # None
  PROVE  Assigned(c, field, tail, cond)
<1> PICK name \in Text : name = Names[c]
  BY NameIs
<1>1. name \in Without("=") /\ <<Blank>> \in Without("=")
  <2>1. \A j \in 1..Len(name) : name[j] # "="
    <3>1. \A j \in 1..Len(name) : NameSymbol(name[j])
      BY NameIs
    <3>2. "=" \in Operators
      BY DEF Operators
    <3> QED
      BY <3>1, <3>2, NameSymbolIs
  <2> QED
    BY <2>1, WithoutIs, OneWithout
<1>2. <<Blank>> \o name \in Without("=")
  BY <1>1, WithoutJoined, Zenon
<1>3. field \o tail \in Text
  BY Joined, Zenon
<1>4. <<"=">> \o (field \o tail) \in Text
  <2>1. <<"=">> \in Text
    BY LetterIs DEF Text
  <2> QED
    BY <1>3, <2>1, Joined, Zenon
<1>5. AssignText(name, field, tail) = (<<Blank>> \o name) \o (<<"=">> \o (field \o tail))
  <2>1. <<Blank>> \in Text
    BY LetterIs
  <2> QED
    BY <1>4, <2>1, Apart, Zenon DEF AssignText
<1> PICK to : to = Cut(AssignText(name, field, tail), "=")
  OBVIOUS
<1>6. to = [found |-> TRUE, before |-> <<Blank>> \o name, after |-> field \o tail]
  <2>1. "=" \in Letter
    BY LetterIs
  <2>2. Cut((<<Blank>> \o name) \o (<<"=">> \o (field \o tail)), "=")
          = [found |-> TRUE, before |-> <<Blank>> \o name, after |-> field \o tail]
    BY <1>2, <1>3, <2>1, CutOf, Zenon
  <2> QED
    BY <1>5, <2>2, Zenon
<1>7. to.found = TRUE /\ to.before = <<Blank>> \o name /\ to.after = field \o tail
  BY <1>6
<1>8. Position(CleanToken(CutValue(to.before))) = c /\ c > 0
  <2>1. CleanToken(CutValue(<<Blank>> \o name)) = name
    BY ColumnNamed, Zenon
  <2>2. Position(name) = c
    BY PositionIs, Zenon
  <2>3. c > 0
    BY WidthAssumption
  <2> QED
    BY <1>7, <2>1, <2>2, <2>3, Zenon
<1>9. CutAssignment(to, cond) = AssignmentOf(c, field \o tail, cond)
  BY <1>7, <1>8, Zenon DEF CutAssignment
<1> QED
  BY <1>8, <1>9, Zenon DEF AssignmentOf, Assigned

GapOf(q) == IF q.wcol = None THEN << >> ELSE <<Blank>>
Assigns(q) ==
  /\ q.col \in 1..Columns /\ IsValue(q.value) /\ Writes(q.field, q.value)
  /\ "WHERE" \notin Range(q.value) \cup Range(Names[q.col]) \cup Range(q.wcol)

LEMMA AssignWithout ==
  ASSUME NEW q, Assigns(q), NEW tail \in {<< >>, <<Blank>>}
  PROVE  /\ AssignText(Names[q.col], q.field, tail) \in Without("WHERE")
         /\ q.field \in Text /\ Names[q.col] \in Text /\ tail \in Text
<1>1. q.field \in Text /\ q.field \in Without("WHERE")
  BY FieldWithout DEF Assigns
<1>2. Names[q.col] \in Text
  BY NameIs DEF Assigns
<1>3. Names[q.col] \in Without("WHERE")
  <2>1. \A j \in 1..Len(Names[q.col]) : Names[q.col][j] # "WHERE"
    BY <1>2 DEF Text, Range, Assigns
  <2> QED
    BY <1>2, <2>1, WithoutIs
<1>4. <<Blank>> \in Without("WHERE") /\ <<"=">> \in Without("WHERE") /\ tail \in Without("WHERE")
  BY OneWithout
<1>5. q.field \o tail \in Without("WHERE")
  BY <1>1, <1>4, WithoutJoined, Zenon
<1>6. <<"=">> \o (q.field \o tail) \in Without("WHERE")
  BY <1>4, <1>5, WithoutJoined, Zenon
<1>7. Names[q.col] \o (<<"=">> \o (q.field \o tail)) \in Without("WHERE")
  BY <1>3, <1>6, WithoutJoined, Zenon
<1>8. AssignText(Names[q.col], q.field, tail) \in Without("WHERE")
  BY <1>4, <1>7, WithoutJoined, Zenon DEF AssignText
<1> QED
  BY <1>1, <1>2, <1>8, LetterIs

LEMMA NotSkipped ==
  ASSUME NEW q, NamesColumn(q), q.wcol # None, "WHERE" \notin Range(q.wcol)
  PROVE  Skipped(<<Blank>> \o CondText(q.wcol, q.wvalue)) = <<Blank>> \o CondText(q.wcol, q.wvalue)
<1> PICK t : t = CondText(q.wcol, q.wvalue)
  OBVIOUS
<1>1. q.wcol \in Range(Names) /\ IsValue(q.wvalue)
  BY DEF NamesColumn
<1>2. t \in Text /\ Len(t) > 0 /\ t[1] = q.wcol[1] /\ NameSymbol(q.wcol[1])
  BY <1>1, CondTextIs
<1>3. q.wcol \in Text /\ Len(q.wcol) > 0
  BY <1>1, NameOf, NameIs
<1>4. t[1] # Blank
  BY <1>2, NameSymbolIs
<1>5. t[1] # "WHERE"
  BY <1>2, <1>3 DEF Text, Range
<1>6. LTrim(<<Blank>> \o t) = t
  BY <1>2, <1>4, LTrimIs DEF Text
<1>7. Head(t) # "WHERE"
  BY <1>2, <1>5 DEF Text
<1> QED
  BY <1>6, <1>7, Zenon DEF Skipped

(* cmd_update: what is between SET and WHERE, and what is behind WHERE.       *)
SetText(q) == <<Blank>> \o (Names[q.col] \o (<<"=">> \o (q.field \o WhereText(q))))

LEMMA SetCut ==
  ASSUME NEW q, q.field \in Text, Names[q.col] \in Text, WhereText(q) \in Text
  PROVE  /\ SetText(q) \in Text /\ UpdateText(q) = <<Blank>> \o (<<"SET">> \o SetText(q))
         /\ AfterAName(UpdateText(q))
         /\ Cut(UpdateText(q), "SET") = [found |-> TRUE, before |-> <<Blank>>, after |-> SetText(q)]
<1>1. <<Blank>> \in Text /\ <<"SET">> \in Text /\ <<"=">> \in Text
  BY LetterIs DEF Text
<1>2. q.field \o WhereText(q) \in Text
  BY Joined, Zenon
<1>3. <<"=">> \o (q.field \o WhereText(q)) \in Text
  BY <1>1, <1>2, Joined, Zenon
<1>4. Names[q.col] \o (<<"=">> \o (q.field \o WhereText(q))) \in Text
  BY <1>3, Joined, Zenon
<1>5. SetText(q) \in Text
  BY <1>1, <1>4, Joined, Zenon DEF SetText
<1>6. UpdateText(q) = <<Blank>> \o (<<"SET">> \o SetText(q))
  BY Zenon DEF UpdateText, SetText
<1>7. <<"SET">> \o SetText(q) \in Text
  BY <1>1, <1>5, Joined, Zenon
<1>8. AfterAName(UpdateText(q))
  BY <1>6, <1>7, BlankName, Zenon
<1>9. <<Blank>> \in Without("SET") /\ "SET" \in Letter
  BY OneWithout, LetterIs
<1>10. Cut(<<Blank>> \o (<<"SET">> \o SetText(q)), "SET") = [found |-> TRUE, before |-> <<Blank>>, after |-> SetText(q)]
  BY <1>5, <1>9, CutOf, Zenon
<1> QED
  BY <1>5, <1>6, <1>8, <1>10, Zenon

LEMMA SetNoWhere ==
  ASSUME NEW q, Assigns(q), q.wcol = None, NEW set, set.after = SetText(q)
  PROVE  LET where == Cut(set.after, "WHERE")
         IN  /\ (IF where.found THEN where.before ELSE set.after) = AssignText(Names[q.col], q.field, << >>)
             /\ Condition(where, Skipped(where.after)) = Cond(q)
<1> PICK where : where = Cut(set.after, "WHERE")
  OBVIOUS
<1>1. SetText(q) = AssignText(Names[q.col], q.field, << >>)
  <2>1. WhereText(q) = << >>
    BY Zenon DEF WhereText
  <2> QED
    BY <2>1, Zenon DEF SetText, AssignText
<1>2. AssignText(Names[q.col], q.field, << >>) \in Seq(Letter \ {"WHERE"})
  BY AssignWithout, Zenon DEF Without
<1>3. where.found = FALSE
  BY <1>1, <1>2, CutNo
<1>4. Condition(where, Skipped(where.after)) = NoWhere /\ Cond(q) = NoWhere
  BY <1>3, Zenon DEF Condition, Cond
<1> QED
  BY <1>1, <1>3, <1>4, Zenon

LEMMA AssignBefore ==
  ASSUME NEW name \in Text, NEW field \in Text, NEW w \in Text
  PROVE  AssignText(name, field, <<Blank>>) \o w
           = <<Blank>> \o (name \o (<<"=">> \o (field \o (<<Blank>> \o w))))
<1>1. <<Blank>> \in Text /\ <<"=">> \in Text
  BY LetterIs DEF Text
<1>2. InFront(<<Blank>>, w, <<Blank>> \o w)
  BY <1>1, Zenon DEF InFront
<1>3. InFront(field \o <<Blank>>, w, field \o (<<Blank>> \o w))
  BY <1>2, OneApart, Zenon
<1>4. InFront(<<"=">> \o (field \o <<Blank>>), w, <<"=">> \o (field \o (<<Blank>> \o w)))
  BY <1>1, <1>3, OneApart, Zenon
<1>5. InFront(name \o (<<"=">> \o (field \o <<Blank>>)), w, name \o (<<"=">> \o (field \o (<<Blank>> \o w))))
  BY <1>4, OneApart, Zenon
<1>6. InFront(AssignText(name, field, <<Blank>>), w,
              <<Blank>> \o (name \o (<<"=">> \o (field \o (<<Blank>> \o w)))))
  BY <1>1, <1>5, OneApart, Zenon DEF AssignText
<1> QED
  BY <1>6, Zenon DEF InFront

LEMMA SetWhere ==
  ASSUME NEW q, Assigns(q), NamesColumn(q), q.wcol # None, NEW set, set.after = SetText(q)
  PROVE  LET where == Cut(set.after, "WHERE")
         IN  /\ (IF where.found THEN where.before ELSE set.after) = AssignText(Names[q.col], q.field, <<Blank>>)
             /\ Condition(where, Skipped(where.after)) = Cond(q)
<1> PICK where : where = Cut(set.after, "WHERE")
  OBVIOUS
<1> PICK rest : rest = <<Blank>> \o CondText(q.wcol, q.wvalue)
  OBVIOUS
<1>1. /\ rest \in Text /\ <<"WHERE">> \o rest \in Text /\ WhereText(q) = <<Blank>> \o (<<"WHERE">> \o rest)
      /\ ConditionOf(Tokens(rest)) = Cond(q)
  BY WhereParts
<1>2. PICK first : first = AssignText(Names[q.col], q.field, <<Blank>>)
  OBVIOUS
<1>3. first \in Without("WHERE") /\ q.field \in Text /\ Names[q.col] \in Text
  BY <1>2, AssignWithout
<1>4. SetText(q) = first \o (<<"WHERE">> \o rest)
  <2>1. PICK w \in Text : w = <<"WHERE">> \o rest
    BY <1>1
  <2>2. AssignText(Names[q.col], q.field, <<Blank>>) \o w
          = <<Blank>> \o (Names[q.col] \o (<<"=">> \o (q.field \o (<<Blank>> \o w))))
    BY <1>3, AssignBefore
  <2>3. SetText(q) = <<Blank>> \o (Names[q.col] \o (<<"=">> \o (q.field \o (<<Blank>> \o w))))
    BY <1>1, <2>1, Zenon DEF SetText
  <2> QED
    BY <1>2, <2>1, <2>2, <2>3, Zenon
<1>5. where = [found |-> TRUE, before |-> first, after |-> rest]
  <2>1. "WHERE" \in Letter
    BY LetterIs
  <2>2. Cut(first \o (<<"WHERE">> \o rest), "WHERE") = [found |-> TRUE, before |-> first, after |-> rest]
    BY <1>1, <1>3, <2>1, CutOf, Zenon
  <2> QED
    BY <1>4, <2>2, Zenon
<1>6. where.found = TRUE /\ where.before = first /\ where.after = rest
  BY <1>5
<1>7. Skipped(rest) = rest
  BY NotSkipped DEF Assigns
<1>8. Condition(where, Skipped(where.after)) = Cond(q)
  BY <1>1, <1>6, <1>7, Zenon DEF Condition
<1> QED
  BY <1>2, <1>6, <1>8, Zenon

LEMMA SaidUpdate ==
  ASSUME NEW q, q.op = "UPDATE", Supported(q), Assigns(q), NamesColumn(q)
  PROVE  Said(q) = [ok |-> TRUE, col |-> q.col, set |-> q.field \o GapOf(q), cond |-> Cond(q)]
<1>1. q.wcol # None => q.wcol \in Text /\ q.wvalue \in Text
  BY WhereParts
<1>2. q.field \in Text /\ Names[q.col] \in Text /\ q.col \in 1..Columns
  BY FieldWithout, NameIs DEF Assigns
<1>3. Spell(q) = <<Blank>> \o (Table \o UpdateText(q)) /\ UpdateText(q) \in Text
  BY <1>1, <1>2, SpellUpdate DEF Supported
<1>4. WhereText(q) \in Text
  BY WhereBehind
<1>5. /\ AfterAName(UpdateText(q))
      /\ Cut(UpdateText(q), "SET") = [found |-> TRUE, before |-> <<Blank>>, after |-> SetText(q)]
  BY <1>2, <1>4, SetCut
<1>6. NameAt(LTrim(Spell(q))) = Table /\ AfterName(LTrim(Spell(q))) = UpdateText(q)
  BY <1>3, <1>5, TableCut
<1> PICK set : set = Cut(UpdateText(q), "SET")
  OBVIOUS
<1>7. Said(q) = CutUpdate(set)
  BY <1>6, CutStatementIs DEF Said
<1>8. set.found = TRUE /\ set.after = SetText(q)
  BY <1>5
<1> PICK where : where = Cut(set.after, "WHERE")
  OBVIOUS
<1>9. CutUpdate(set) = CutAssignment(Cut(IF where.found THEN where.before ELSE set.after, "="),
                                     Condition(where, Skipped(where.after)))
  BY <1>8, Zenon DEF CutUpdate, CutWhere
<1>10. /\ (IF where.found THEN where.before ELSE set.after) = AssignText(Names[q.col], q.field, GapOf(q))
       /\ Condition(where, Skipped(where.after)) = Cond(q)
  <2>1. CASE q.wcol = None
    <3>1. GapOf(q) = << >>
      BY <2>1, Zenon DEF GapOf
    <3> QED
      BY <1>8, <2>1, <3>1, SetNoWhere, Zenon
  <2>2. CASE q.wcol # None
    <3>1. GapOf(q) = <<Blank>>
      BY <2>2, Zenon DEF GapOf
    <3> QED
      BY <1>8, <2>2, <3>1, SetWhere, Zenon
  <2> QED
    BY <2>1, <2>2
<1>11. GapOf(q) \in Text
  BY LetterIs DEF GapOf
<1>12. Cond(q) # None
  BY CutWhereText, Zenon
<1>13. CutAssignment(Cut(AssignText(Names[q.col], q.field, GapOf(q)), "="), Cond(q))
         = [ok |-> TRUE, col |-> q.col, set |-> q.field \o GapOf(q), cond |-> Cond(q)]
  <2>1. Assigned(q.col, q.field, GapOf(q), Cond(q))
    BY <1>2, <1>11, <1>12, CutAtEquals
  <2> QED
    BY <2>1, Zenon DEF Assigned
<1> QED
  BY <1>7, <1>9, <1>10, <1>13, Zenon

(* What the statements of Asked are understood to say.                       *)
LEMMA AskedIs ==
  ASSUME NEW q \in Asked
  PROVE  /\ NamesColumn(q) /\ q.op \in {"INSERT", "UPDATE", "DELETE"}
         /\ q.op = "INSERT" =>
              /\ q.values \in Seq(Text) /\ Len(q.values) = Columns
              /\ q.fields \in Seq(Text) /\ Len(q.fields) = Columns
              /\ \A c \in 1..Columns : IsValue(q.values[c]) /\ Writes(q.fields[c], q.values[c])
         /\ q.op = "UPDATE" =>
              /\ q.col \in 1..Columns /\ IsValue(q.value) /\ Writes(q.field, q.value)
              /\ q.value \in Text /\ q.field \in Text
<1>1. STRING \subseteq Letter
  BY DEF Letter
<1>2. Seq(STRING) \subseteq Text
  BY <1>1, SeqGrows DEF Text
<1>3. Seq(Seq(STRING)) \subseteq Seq(Text)
  BY <1>2, SeqGrows
<1>4. NamesColumn(q) /\ q.op \in {"INSERT", "UPDATE", "DELETE"}
  BY AskedAssumption DEF NamesColumn
<1>5. ASSUME q.op = "INSERT"
      PROVE  /\ q.values \in Seq(Text) /\ Len(q.values) = Columns
             /\ q.fields \in Seq(Text) /\ Len(q.fields) = Columns
             /\ \A c \in 1..Columns : IsValue(q.values[c]) /\ Writes(q.fields[c], q.values[c])
  BY <1>3, <1>5, AskedAssumption
<1>6. ASSUME q.op = "UPDATE"
      PROVE  /\ q.col \in 1..Columns /\ IsValue(q.value) /\ Writes(q.field, q.value)
             /\ q.value \in Text /\ q.field \in Text
  <2>1. q.col \in 1..Columns /\ IsValue(q.value) /\ Writes(q.field, q.value)
    BY <1>6, AskedAssumption
  <2> QED
    BY <2>1, ValueText, FieldWithout
<1> QED
  BY <1>4, <1>5, <1>6

LEMMA InsertSays ==
  ASSUME NEW q \in Asked, q.op = "INSERT", Ordinary(q),
         \A c \in 1..Columns : IsPlain(q.values[c], q.fields[c])
  PROVE  /\ Said(q).ok = TRUE /\ Said(q).list = Join(q.fields)
         /\ ParseCsv(Join(q.fields)) = q.values /\ IsRow(q.values)
<1>1. /\ q.values \in Seq(Text) /\ Len(q.values) = Columns
      /\ q.fields \in Seq(Text) /\ Len(q.fields) = Columns
      /\ \A c \in 1..Columns : IsValue(q.values[c]) /\ Writes(q.fields[c], q.values[c])
  BY AskedIs
<1>2. /\ Join(q.fields) \in Text /\ ParseCsv(Join(q.fields)) = q.values /\ Readable(Join(q.fields))
      /\ IsRow(q.values)
  BY <1>1, ListReads
<1>3. Said(q) = [ok |-> TRUE, list |-> Join(q.fields)]
  BY <1>2, SaidInsert DEF Ordinary
<1> QED
  BY <1>2, <1>3

LEMMA UpdateSays ==
  ASSUME NEW q \in Asked, q.op = "UPDATE", Ordinary(q)
  PROVE  /\ Said(q).ok = TRUE /\ Said(q).col = q.col /\ Said(q).cond = Cond(q)
         /\ IsPlain(q.value, q.field) =>
              CleanToken(CutValue(Said(q).set)) = q.value /\ Keeps(q.value)
<1>1. /\ NamesColumn(q) /\ q.col \in 1..Columns /\ IsValue(q.value) /\ Writes(q.field, q.value)
      /\ q.field \in Text
  BY AskedIs
<1>2. Assigns(q)
  BY <1>1 DEF Assigns, Ordinary, HidesWhere, NamesWhere
<1>3. Said(q) = [ok |-> TRUE, col |-> q.col, set |-> q.field \o GapOf(q), cond |-> Cond(q)]
  BY <1>1, <1>2, SaidUpdate DEF Ordinary
<1>4. Said(q).ok = TRUE /\ Said(q).col = q.col /\ Said(q).cond = Cond(q) /\ Said(q).set = q.field \o GapOf(q)
  BY <1>3
<1>5. ASSUME IsPlain(q.value, q.field)
      PROVE  CleanToken(CutValue(Said(q).set)) = q.value /\ Keeps(q.value)
  <2>1. /\ CleanToken(CutValue(q.field)) = q.value /\ CleanToken(CutValue(q.field \o <<Blank>>)) = q.value
        /\ Len(q.value) <= MaxValue
    BY <1>1, <1>5, FieldReads
  <2>2. q.field \o << >> = q.field
    BY <1>1, Nothing, Zenon
  <2>3. Said(q).set = q.field \/ Said(q).set = q.field \o <<Blank>>
    BY <1>4, <2>2, Zenon DEF GapOf
  <2>4. Keeps(q.value)
    BY <1>1, <1>5, <2>1 DEF Keeps, IsPlain
  <2>5. CleanToken(CutValue(Said(q).set)) = q.value
    BY <2>1, <2>3, Zenon
  <2> QED
    BY <2>4, <2>5
<1> QED
  BY <1>4, <1>5

LEMMA DeleteSays ==
  ASSUME NEW q \in Asked, q.op = "DELETE", Ordinary(q)
  PROVE  Said(q).ok = TRUE /\ Said(q).cond = Cond(q)
<1>1. Said(q) = [ok |-> TRUE, cond |-> Cond(q)]
  BY AskedIs, SaidDelete DEF Ordinary
<1> QED
  BY <1>1

(* The WHERE clause is applied to what the row is.                           *)
LEMMA MatchesIs ==
  ASSUME NEW q \in Asked, ParseCsv(record) = before
  PROVE  Matches(Cond(q)) <=> Meets(q)
<1>1. CASE q.wcol = None
  <2>1. Cond(q) = NoWhere
    BY <1>1, Zenon DEF Cond
  <2> QED
    BY <1>1, <2>1, Zenon DEF Matches, Meets
<1>2. CASE q.wcol # None
  <2>1. q.wcol \in Range(Names) /\ IsValue(q.wvalue) /\ Len(q.wvalue) <= MaxValue
    BY <1>2, AskedIs DEF NamesColumn
  <2>2. Cond(q) = Tokens(CondText(q.wcol, q.wvalue))
    BY <1>2, Zenon DEF Cond
  <2>3. Cond(q) # NoWhere /\ Cond(q)[1] = q.wcol /\ Cond(q)[3] = Trim(q.wvalue)
    BY <2>1, <2>2, CondIs
  <2> QED
    BY <1>2, <2>3, Zenon DEF Matches, Meets
<1> QED
  BY <1>1, <1>2

(* The invariant: what the user knows of the row, and how the row is stored. *)
Shape ==
  /\ wanted \in Seq(Text) /\ Len(wanted) = Columns /\ raw \in Seq(Text) /\ Len(raw) = Columns
  /\ \A c \in 1..Columns : IsValue(wanted[c]) /\ Writes(raw[c], wanted[c])
KnownRow ==
  answer # "OK" /\ before \notin Unknown =>
    IF record = NoRecord THEN before = None ELSE AllPlain /\ before = wanted
LostRow == answer # "OK" /\ before = NotKept /\ record # NoRecord => ~AllPlain
Clear == Stored /\ before # Mixed /\ ~(before = NotKept /\ answer = "OK")
KeptRow == Clear /\ AllPlain => record = Join(wanted)
RowInv ==
  /\ answer \in {"none", "OK", "ERR"}
  /\ record # NoRecord => Shape
  /\ KnownRow /\ LostRow /\ KeptRow

LEMMA ShapeRow ==
  ASSUME Shape, AllPlain
  PROVE  IsRow(wanted)
BY ListReads DEF Shape, AllPlain, Plain

LEMMA Reread ==
  ASSUME RowInv, Clear, AllPlain
  PROVE  /\ record = Join(wanted) /\ ParseCsv(record) = wanted /\ Readable(record) /\ IsRow(wanted)
<1>1. record = Join(wanted) /\ Shape
  BY DEF RowInv, KeptRow, Clear, Stored
<1>2. IsRow(wanted)
  BY <1>1, ShapeRow
<1> QED
  BY <1>1, <1>2, RowReads

LEMMA KnownIs ==
  ASSUME RowInv, answer = "none", before \notin Unknown, record # NoRecord
  PROVE  /\ AllPlain /\ before = wanted /\ Shape
         /\ record = Join(wanted) /\ ParseCsv(record) = wanted /\ Readable(record) /\ IsRow(wanted)
<1>1. AllPlain /\ before = wanted /\ Shape
  BY DEF RowInv, KnownRow
<1>2. Clear
  BY DEF Clear, Stored, Followed, Unknown
<1> QED
  BY <1>1, <1>2, Reread

LEMMA InitKeeps ==
  ASSUME Init
  PROVE  RowInv /\ DoesAsAsked
<1>1. record = NoRecord /\ answer = "none" /\ before = None
  BY DEF Init, RowInit
<1> QED
  BY <1>1 DEF RowInv, KnownRow, LostRow, KeptRow, Clear, Stored, DoesAsAsked, PlainAsked

(* A statement that is refused leaves the row, and what is known of it.      *)
LEMMA RefusedKeeps ==
  ASSUME RowInv, answer = "none", before' = before, Refused
  PROVE  RowInv'
<1>1. answer' = "ERR" /\ wanted' = wanted /\ raw' = raw /\ record' = record
  BY DEF Refused, rowVars
<1>2. record' # NoRecord => Shape'
  BY <1>1 DEF RowInv, Shape
<1>3. AllPlain' <=> AllPlain
  BY <1>1 DEF AllPlain, Plain, IsPlain
<1>4. KnownRow' /\ LostRow'
  BY <1>1, <1>3 DEF RowInv, KnownRow, LostRow
<1>5. KeptRow'
  <2>1. Clear' => Clear
    BY <1>1 DEF Clear, Stored, Followed
  <2> QED
    BY <1>1, <1>3, <2>1 DEF RowInv, KeptRow
<1> QED
  BY <1>1, <1>2, <1>4, <1>5 DEF RowInv

LEMMA InsertKeeps ==
  ASSUME RowInv, answer = "none", before' = before, NEW q \in Asked, asked' = q, InsertInto(q)
  PROVE  RowInv' /\ DoesAsAsked'
<1>0. q.op = "INSERT" /\ record = NoRecord
  BY DEF InsertInto
<1>1. CASE ~Said(q).ok
  <2>1. Refused
    BY <1>1, Zenon DEF InsertInto
  <2>2. ~(PlainAsked' /\ Ordinary(q))
    <3> SUFFICES ASSUME PlainAsked', Ordinary(q)
                 PROVE  FALSE
      OBVIOUS
    <3>1. \A c \in 1..Columns : IsPlain(q.values[c], q.fields[c])
      BY <1>0 DEF PlainAsked, PlainFields
    <3> QED
      BY <1>0, <1>1, <3>1, InsertSays
  <2>3. DoesAsAsked'
    BY <2>2 DEF DoesAsAsked
  <2> QED
    BY <2>1, <2>3, RefusedKeeps
<1>2. CASE Said(q).ok
  <2>1. /\ answer' = "OK" /\ wanted' = q.values /\ raw' = q.fields
        /\ record' = Join(ParseCsv(Said(q).list))
    BY <1>2 DEF InsertInto, Accepted, Insert
  <2>2. Shape'
    BY <1>0, <2>1, AskedIs DEF Shape
  <2>3. KnownRow' /\ LostRow'
    BY <2>1 DEF KnownRow, LostRow
  <2>4. ASSUME Ordinary(q), \A c \in 1..Columns : IsPlain(q.values[c], q.fields[c])
        PROVE  record' = Join(q.values) /\ IsRow(q.values)
    BY <1>0, <2>1, <2>4, InsertSays
  <2>5. KeptRow'
    <3> SUFFICES ASSUME Clear', AllPlain'
                 PROVE  record' = Join(wanted')
      BY DEF KeptRow
    <3>1. Ordinary(q)
      BY <2>1 DEF Clear, Stored, Followed
    <3>2. \A c \in 1..Columns : IsPlain(q.values[c], q.fields[c])
      BY <2>1 DEF AllPlain, Plain
    <3> QED
      BY <2>1, <2>4, <3>1, <3>2
  <2>6. DoesAsAsked'
    <3> SUFFICES ASSUME PlainAsked', Ordinary(q)
                 PROVE  answer' = "OK" /\ Row' = Meant(q)'
      BY DEF DoesAsAsked
    <3>1. \A c \in 1..Columns : IsPlain(q.values[c], q.fields[c])
      BY <1>0 DEF PlainAsked, PlainFields
    <3>2. record' = Join(q.values) /\ ParseCsv(Join(q.values)) = q.values /\ Join(q.values) # NoRecord
      BY <2>4, <3>1, RowReads
    <3>3. Row' = q.values
      BY <3>2, Zenon DEF Row
    <3>4. Meant(q)' = q.values
      BY <1>0 DEF Meant
    <3> QED
      BY <2>1, <3>3, <3>4
  <2> QED
    BY <2>1, <2>2, <2>3, <2>5, <2>6 DEF RowInv
<1> QED
  BY <1>1, <1>2

(* A row that is written back as it was read.                                *)
LEMMA RewriteKeeps ==
  ASSUME RowInv, answer = "none", before' = before, Rewrite, answer' \in {"none", "OK"}
  PROVE  /\ RowInv'
         /\ before \notin Unknown => Row' = before
<1>1. record # NoRecord /\ wanted' = wanted /\ raw' = raw
      /\ record' = IF Readable(record) THEN Join(ParseCsv(record)) ELSE record
  BY DEF Rewrite
<1>2. Shape /\ Shape'
  BY <1>1 DEF RowInv, Shape
<1>3. AllPlain' <=> AllPlain
  BY <1>1 DEF AllPlain, Plain, IsPlain
<1>4. ASSUME before \notin Unknown
      PROVE  record' = record /\ record = Join(wanted) /\ AllPlain /\ before = wanted /\ ParseCsv(record) = wanted
  BY <1>1, <1>4, KnownIs
<1>5. KnownRow'
  BY <1>1, <1>3, <1>4, Zenon DEF KnownRow
<1>6. LostRow'
  BY <1>1, <1>3 DEF RowInv, LostRow
<1>7. KeptRow'
  <2> SUFFICES ASSUME Clear', AllPlain'
               PROVE  record' = Join(wanted')
    BY DEF KeptRow
  <2>1. before \notin Unknown
    <3>1. before # Mixed
      BY DEF Clear
    <3>2. before = NotKept => ~AllPlain
      BY <1>1 DEF RowInv, LostRow
    <3> QED
      BY <1>3, <3>1, <3>2 DEF Unknown
  <2> QED
    BY <1>1, <1>4, <2>1
<1>8. before \notin Unknown => Row' = before
  BY <1>1, <1>4 DEF Row
<1> QED
  BY <1>2, <1>5, <1>6, <1>7, <1>8 DEF RowInv

(* Why a documented statement is not refused.                                *)
LEMMA NotRefused ==
  ASSUME RowInv, answer = "none", record # NoRecord, before \notin Unknown,
         NEW q, Said(q).ok = TRUE
  PROVE  ~(~Said(q).ok \/ ~Readable(record))
BY KnownIs

(* A column of a row that keeps is given a new value that keeps.             *)
LEMMA ColumnSet ==
  ASSUME NEW vs, IsRow(vs), NEW c \in 1..Columns, NEW v, Keeps(v)
  PROVE  /\ IsRow([vs EXCEPT ![c] = v])
         /\ [x \in 1..Columns |-> IF x = c THEN v ELSE vs[x]] = [vs EXCEPT ![c] = v]
<1>1. vs \in Seq(Text) /\ Len(vs) = Columns /\ v \in Text
  BY ValueText DEF IsRow, Keeps
<1>2. /\ [vs EXCEPT ![c] = v] \in Seq(Text) /\ Len([vs EXCEPT ![c] = v]) = Columns
      /\ \A x \in 1..Columns : [vs EXCEPT ![c] = v][x] = IF x = c THEN v ELSE vs[x]
  BY <1>1
<1>3. IsRow([vs EXCEPT ![c] = v])
  BY <1>2 DEF IsRow
<1>4. [x \in 1..Columns |-> IF x = c THEN v ELSE vs[x]] = [vs EXCEPT ![c] = v]
  <2>1. DOMAIN vs = 1..Columns
    BY <1>1
  <2> QED
    BY <2>1
<1> QED
  BY <1>3, <1>4

LEMMA AnyColumnSet ==
  ASSUME NEW S, NEW s \in Seq(S), NEW v \in S, NEW i
  PROVE  /\ [s EXCEPT ![i] = v] \in Seq(S) /\ Len([s EXCEPT ![i] = v]) = Len(s)
         /\ \A k \in 1..Len(s) : [s EXCEPT ![i] = v][k] = IF k = i THEN v ELSE s[k]
<1> PICK n \in Nat : n = Len(s) /\ s \in [1..n -> S]
  OBVIOUS
<1> PICK t : t = [s EXCEPT ![i] = v]
  OBVIOUS
<1>1. t \in [1..n -> S] /\ \A k \in 1..n : t[k] = IF k = i THEN v ELSE s[k]
  OBVIOUS
<1>2. t \in Seq(S) /\ Len(t) = n
  BY <1>1
<1> QED
  BY <1>1, <1>2

LEMMA UpdateKeeps ==
  ASSUME RowInv, answer = "none", before' = before, NEW q \in Asked, asked' = q, UpdateSet(q)
  PROVE  RowInv' /\ DoesAsAsked'
<1>0. /\ q.op = "UPDATE" /\ record # NoRecord
      /\ Change(q, Update(Said(q).col, q.value, q.field, Said(q).set))
  BY DEF UpdateSet
<1>1. /\ q.col \in 1..Columns /\ IsValue(q.value) /\ Writes(q.field, q.value)
      /\ q.value \in Text /\ q.field \in Text
  BY <1>0, AskedIs
<1>2. ASSUME before \notin Unknown
      PROVE  /\ AllPlain /\ before = wanted /\ Shape /\ Readable(record)
             /\ record = Join(wanted) /\ ParseCsv(record) = wanted /\ IsRow(wanted)
  BY <1>0, <1>2, KnownIs
<1>3. ASSUME PlainAsked', Ordinary(q)
      PROVE  /\ before \notin Unknown /\ IsPlain(q.value, q.field)
             /\ Said(q).ok = TRUE /\ Said(q).col = q.col
             /\ CleanToken(CutValue(Said(q).set)) = q.value /\ Keeps(q.value)
             /\ Matches(Said(q).cond) <=> Meets(q)
  <2>1. before \notin Unknown /\ IsPlain(q.value, q.field)
    BY <1>0, <1>3 DEF PlainAsked, PlainFields
  <2>2. /\ Said(q).ok = TRUE /\ Said(q).col = q.col /\ Said(q).cond = Cond(q)
        /\ CleanToken(CutValue(Said(q).set)) = q.value /\ Keeps(q.value)
    BY <1>0, <1>3, <2>1, UpdateSays
  <2>3. ParseCsv(record) = before
    BY <1>2, <2>1
  <2>4. Matches(Cond(q)) <=> Meets(q)
    BY <2>3, MatchesIs
  <2> QED
    BY <2>1, <2>2, <2>4
<1>4. CASE ~Said(q).ok \/ ~Readable(record)
  <2>1. Refused
    BY <1>0, <1>4, Zenon DEF Change
  <2>2. DoesAsAsked'
    <3> SUFFICES ASSUME PlainAsked', Ordinary(q)
                 PROVE  FALSE
      BY DEF DoesAsAsked
    <3> QED
      BY <1>2, <1>3, <1>4
  <2> QED
    BY <2>1, <2>2, RefusedKeeps
<1>5. CASE ~(~Said(q).ok \/ ~Readable(record)) /\ ~Matches(Said(q).cond)
  <2>1. answer' = "OK" /\ Rewrite
    BY <1>0, <1>5, Zenon DEF Change, Accepted
  <2>2. RowInv' /\ (before \notin Unknown => Row' = before)
    BY <2>1, RewriteKeeps
  <2>3. DoesAsAsked'
    <3> SUFFICES ASSUME PlainAsked', Ordinary(q)
                 PROVE  answer' = "OK" /\ Row' = Meant(q)'
      BY DEF DoesAsAsked
    <3>1. ~Meets(q) /\ Row' = before
      BY <1>3, <1>5, <2>2
    <3>2. Meant(q)' = before
      BY <1>0, <3>1 DEF Meant, Meets
    <3> QED
      BY <2>1, <3>1, <3>2
  <2> QED
    BY <2>2, <2>3
<1>6. CASE ~(~Said(q).ok \/ ~Readable(record)) /\ Matches(Said(q).cond)
  <2>1. answer' = "OK" /\ Update(Said(q).col, q.value, q.field, Said(q).set)
    BY <1>0, <1>6, Zenon DEF Change, Accepted
  <2>2. /\ wanted' = [wanted EXCEPT ![Said(q).col] = q.value] /\ raw' = [raw EXCEPT ![Said(q).col] = q.field]
        /\ record' = Join([x \in 1..Columns |->
                       IF x = Said(q).col THEN CleanToken(CutValue(Said(q).set)) ELSE ParseCsv(record)[x]])
    BY <2>1, Zenon DEF Update
  <2>3. Shape'
    <3>1. Shape
      BY <1>0 DEF RowInv
    <3>2. /\ wanted' \in Seq(Text) /\ Len(wanted') = Columns /\ raw' \in Seq(Text) /\ Len(raw') = Columns
      BY <1>1, <2>2, <3>1, AnyColumnSet DEF Shape
    <3>3. \A c \in 1..Columns : \/ wanted'[c] = wanted[c] /\ raw'[c] = raw[c]
                                \/ wanted'[c] = q.value /\ raw'[c] = q.field
      BY <1>1, <2>2, <3>1, AnyColumnSet DEF Shape
    <3> QED
      BY <1>1, <3>1, <3>2, <3>3 DEF Shape
  <2>4. KnownRow' /\ LostRow'
    BY <2>1 DEF KnownRow, LostRow
  <2>5. ASSUME before \notin Unknown, Ordinary(q), IsPlain(q.value, q.field)
        PROVE  /\ record' = Join([wanted EXCEPT ![q.col] = q.value])
               /\ IsRow([wanted EXCEPT ![q.col] = q.value])
    <3>1. /\ Said(q).col = q.col /\ CleanToken(CutValue(Said(q).set)) = q.value /\ Keeps(q.value)
      BY <1>0, <2>5, UpdateSays
    <3>2. ParseCsv(record) = wanted /\ IsRow(wanted)
      BY <1>2, <2>5
    <3>3. /\ IsRow([wanted EXCEPT ![q.col] = q.value])
          /\ [x \in 1..Columns |-> IF x = q.col THEN q.value ELSE wanted[x]] = [wanted EXCEPT ![q.col] = q.value]
      BY <1>1, <3>1, <3>2, ColumnSet
    <3>4. record' = Join([x \in 1..Columns |-> IF x = q.col THEN q.value ELSE wanted[x]])
      BY <2>2, <3>1, <3>2, Zenon
    <3> QED
      BY <3>3, <3>4, Zenon
  <2>6. KeptRow'
    <3> SUFFICES ASSUME Clear', AllPlain'
                 PROVE  record' = Join(wanted')
      BY DEF KeptRow
    <3>1. Ordinary(q)
      BY <2>1 DEF Clear, Stored, Followed
    <3>2. before \notin Unknown
      BY <2>1 DEF Clear, Unknown
    <3>3. Said(q).col = q.col
      BY <1>0, <3>1, UpdateSays
    <3>4. IsPlain(q.value, q.field)
      <4>1. Plain(q.col)'
        BY <1>1 DEF AllPlain
      <4>2. wanted'[q.col] = q.value /\ raw'[q.col] = q.field
        BY <1>0, <1>1, <2>2, <3>3 DEF RowInv, Shape
      <4> QED
        BY <4>1, <4>2 DEF Plain
    <3> QED
      BY <2>2, <2>5, <3>1, <3>2, <3>3, <3>4
  <2>7. DoesAsAsked'
    <3> SUFFICES ASSUME PlainAsked', Ordinary(q)
                 PROVE  answer' = "OK" /\ Row' = Meant(q)'
      BY DEF DoesAsAsked
    <3>1. Meets(q) /\ before \notin Unknown /\ IsPlain(q.value, q.field)
      BY <1>3, <1>6
    <3>2. PICK vs : vs = [wanted EXCEPT ![q.col] = q.value]
      OBVIOUS
    <3>3. record' = Join(vs) /\ ParseCsv(Join(vs)) = vs /\ Join(vs) # NoRecord
      BY <2>5, <3>1, <3>2, RowReads
    <3>4. Row' = vs
      BY <3>3, Zenon DEF Row
    <3>5. Meant(q)' = [before EXCEPT ![q.col] = q.value]
      BY <1>0, <3>1 DEF Meant, Meets
    <3>6. before = wanted
      BY <1>2, <3>1
    <3> QED
      BY <2>1, <3>2, <3>4, <3>5, <3>6
  <2> QED
    BY <2>1, <2>3, <2>4, <2>6, <2>7 DEF RowInv
<1> QED
  BY <1>4, <1>5, <1>6

LEMMA DeleteKeeps ==
  ASSUME RowInv, answer = "none", before' = before, NEW q \in Asked, asked' = q, DeleteFrom(q)
  PROVE  RowInv' /\ DoesAsAsked'
<1>0. q.op = "DELETE" /\ record # NoRecord /\ Change(q, Delete)
  BY DEF DeleteFrom
<1>1. ASSUME PlainAsked', Ordinary(q)
      PROVE  /\ before \notin Unknown /\ Readable(record)
             /\ Said(q).ok = TRUE /\ (Matches(Said(q).cond) <=> Meets(q))
  <2>1. before \notin Unknown
    BY <1>1 DEF PlainAsked
  <2>2. Said(q).ok = TRUE /\ Said(q).cond = Cond(q)
    BY <1>0, <1>1, DeleteSays
  <2>3. ParseCsv(record) = before /\ Readable(record)
    BY <1>0, <2>1, KnownIs
  <2>4. Matches(Cond(q)) <=> Meets(q)
    BY <2>3, MatchesIs
  <2> QED
    BY <2>1, <2>2, <2>3, <2>4
<1>2. CASE ~Said(q).ok \/ ~Readable(record)
  <2>1. Refused
    BY <1>0, <1>2, Zenon DEF Change
  <2>2. DoesAsAsked'
    <3> SUFFICES ASSUME PlainAsked', Ordinary(q)
                 PROVE  FALSE
      BY DEF DoesAsAsked
    <3> QED
      BY <1>1, <1>2
  <2> QED
    BY <2>1, <2>2, RefusedKeeps
<1>3. CASE ~(~Said(q).ok \/ ~Readable(record)) /\ ~Matches(Said(q).cond)
  <2>1. answer' = "OK" /\ Rewrite
    BY <1>0, <1>3, Zenon DEF Change, Accepted
  <2>2. RowInv' /\ (before \notin Unknown => Row' = before)
    BY <2>1, RewriteKeeps
  <2>3. DoesAsAsked'
    <3> SUFFICES ASSUME PlainAsked', Ordinary(q)
                 PROVE  answer' = "OK" /\ Row' = Meant(q)'
      BY DEF DoesAsAsked
    <3>1. ~Meets(q) /\ Row' = before
      BY <1>1, <1>3, <2>2
    <3>2. Meant(q)' = before
      BY <1>0, <3>1 DEF Meant, Meets
    <3> QED
      BY <2>1, <3>1, <3>2
  <2> QED
    BY <2>2, <2>3
<1>4. CASE ~(~Said(q).ok \/ ~Readable(record)) /\ Matches(Said(q).cond)
  <2>1. answer' = "OK" /\ record' = NoRecord
    BY <1>0, <1>4 DEF Change, Accepted, Delete
  <2>2. RowInv'
    BY <2>1 DEF RowInv, KnownRow, LostRow, KeptRow, Clear, Stored
  <2>3. DoesAsAsked'
    <3> SUFFICES ASSUME PlainAsked', Ordinary(q)
                 PROVE  answer' = "OK" /\ Row' = Meant(q)'
      BY DEF DoesAsAsked
    <3>1. Meets(q)
      BY <1>1, <1>4
    <3>2. Meant(q)' = None
      BY <1>0, <3>1 DEF Meant, Meets
    <3>3. Row' = None
      BY <2>1 DEF Row
    <3> QED
      BY <2>1, <3>2, <3>3
  <2> QED
    BY <2>2, <2>3
<1> QED
  BY <1>2, <1>3, <1>4

LEMMA DoneKeeps ==
  ASSUME RowInv, Done
  PROVE  RowInv' /\ DoesAsAsked'
<1>1. /\ answer # "none" /\ Followed /\ asked' = NoStatement /\ answer' = "none"
      /\ before' = (IF answer = "OK" THEN Known ELSE before)
      /\ wanted' = wanted /\ raw' = raw /\ record' = record
  BY DEF Done, rowVars
<1>2. record' # NoRecord => Shape'
  BY <1>1 DEF RowInv, Shape
<1>3. AllPlain' <=> AllPlain
  BY <1>1 DEF AllPlain, Plain, IsPlain
<1>4. DoesAsAsked'
  BY <1>1 DEF DoesAsAsked, PlainAsked
<1>5. CASE answer # "OK"
  <2>1. before' = before
    BY <1>1, <1>5
  <2>2. KnownRow' /\ LostRow'
    BY <1>1, <1>3, <1>5, <2>1 DEF RowInv, KnownRow, LostRow
  <2>3. Clear' => Clear
    BY <1>1, <1>5, <2>1 DEF Clear, Stored, Followed
  <2>4. KeptRow'
    BY <1>1, <1>3, <2>3 DEF RowInv, KeptRow
  <2> QED
    BY <1>1, <1>2, <1>4, <2>2, <2>4 DEF RowInv
<1>6. CASE answer = "OK" /\ record = NoRecord
  <2>1. before' = None
    BY <1>1, <1>6 DEF Known
  <2> QED
    BY <1>1, <1>4, <1>6, <2>1 DEF RowInv, KnownRow, LostRow, KeptRow, Clear, Stored
<1>7. CASE answer = "OK" /\ record # NoRecord
  <2>1. before' = IF before \in Unknown THEN Mixed ELSE IF AllPlain THEN wanted ELSE NotKept
    BY <1>1, <1>7 DEF Known, AllPlain
  <2>2. NotKept # Mixed
    BY DEF NotKept, Mixed
  <2>3. CASE before \in Unknown
    <3>1. before' = Mixed
      BY <2>1, <2>3
    <3> QED
      BY <1>1, <1>2, <1>4, <1>7, <2>2, <3>1 DEF RowInv, KnownRow, LostRow, KeptRow, Clear, Unknown
  <2>4. CASE before \notin Unknown /\ AllPlain
    <3>1. before' = wanted
      BY <2>1, <2>4
    <3>2. Clear
      BY <1>1, <1>7, <2>4 DEF Clear, Stored, Unknown
    <3>3. record = Join(wanted) /\ IsRow(wanted)
      BY <2>4, <3>2, Reread
    <3>4. wanted # NotKept
      <4>1. 1 \in 1..Columns /\ Columns = Len(wanted) /\ IsValue(wanted[1])
        BY <3>3, WidthAssumption DEF IsRow, Keeps
      <4>2. wanted[1] # <<"NULL">>
        BY <4>1 DEF IsValue
      <4> QED
        BY <4>2 DEF NotKept
    <3>5. KnownRow'
      BY <1>1, <1>3, <1>7, <2>4, <3>1 DEF KnownRow
    <3>6. LostRow' /\ KeptRow'
      BY <1>1, <3>1, <3>3, <3>4 DEF LostRow, KeptRow
    <3> QED
      BY <1>1, <1>2, <1>4, <3>5, <3>6 DEF RowInv
  <2>5. CASE before \notin Unknown /\ ~AllPlain
    <3>1. before' = NotKept
      BY <2>1, <2>5
    <3> QED
      BY <1>1, <1>2, <1>3, <1>4, <2>5, <3>1 DEF RowInv, KnownRow, LostRow, KeptRow, Unknown
  <2> QED
    BY <2>3, <2>4, <2>5
<1> QED
  BY <1>5, <1>6, <1>7

(* What is stored and what is known of it agree: an invariant of the whole.   *)
THEOREM RowCorrect == Spec => [](RowInv /\ DoesAsAsked)
<1>1. Init => RowInv /\ DoesAsAsked
  BY InitKeeps
<1>2. RowInv /\ DoesAsAsked /\ [Next]_vars => (RowInv /\ DoesAsAsked)'
  <2> SUFFICES ASSUME RowInv, DoesAsAsked, [Next]_vars
               PROVE  RowInv' /\ DoesAsAsked'
    OBVIOUS
  <2>1. CASE \E q \in Asked : answer = "none" /\ UNCHANGED before /\ Statement(q)
    <3>1. PICK q \in Asked : /\ answer = "none" /\ before' = before /\ asked' = q
                             /\ InsertInto(q) \/ UpdateSet(q) \/ DeleteFrom(q)
      BY <2>1 DEF Statement
    <3> QED
      BY <3>1, InsertKeeps, UpdateKeeps, DeleteKeeps
  <2>2. CASE Rewrite /\ answer = "none" /\ UNCHANGED <<asked, answer, before>>
    <3>1. Rewrite /\ answer = "none" /\ answer' = "none" /\ before' = before
      BY <2>2
    <3>2. RowInv'
      BY <3>1, RewriteKeeps
    <3> QED
      BY <3>1, <3>2 DEF DoesAsAsked, PlainAsked
  <2>3. CASE Done
    BY <2>3, DoneKeeps
  <2>4. CASE UNCHANGED vars
    <3>1. /\ wanted' = wanted /\ raw' = raw /\ record' = record
          /\ asked' = asked /\ answer' = answer /\ before' = before
      BY <2>4 DEF vars, rowVars
    <3>2. AllPlain' <=> AllPlain
      BY <3>1 DEF AllPlain, Plain, IsPlain
    <3>3. RowInv'
      BY <3>1, <3>2 DEF RowInv, Shape, KnownRow, LostRow, KeptRow, Clear, Stored, Followed
    <3>4. (PlainAsked' <=> PlainAsked) /\ Row' = Row /\ Meant(asked)' = Meant(asked)
      BY <3>1 DEF PlainAsked, Row, Meant, Meets
    <3>5. DoesAsAsked'
      BY <3>1, <3>4 DEF DoesAsAsked
    <3> QED
      BY <3>3, <3>5
  <2> QED
    BY <2>1, <2>2, <2>3, <2>4 DEF Next
<1> QED
  BY <1>1, <1>2, PTL DEF Spec

(* Statements of plain values that the documentation describes do what they  *)
(* say.                                                                      *)
THEOREM DoesCorrect == Spec => []DoesAsAsked
BY RowCorrect, PTL

(* Rows of plain values are read back as written.                            *)
THEOREM PlainKeepsCorrect == Spec => []PlainKeeps
<1>1. RowInv => PlainKeeps
  <2> SUFFICES ASSUME RowInv, Clear, AllPlain
               PROVE  ParseCsv(record) = wanted
    BY DEF PlainKeeps, Clear
  <2> QED
    BY Reread
<1> QED
  BY <1>1, RowCorrect, PTL
=============================================================================
