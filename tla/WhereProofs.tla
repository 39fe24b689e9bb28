----------------------------- MODULE WhereProofs -----------------------------
(***************************************************************************)
(* Proofs about Where for all tables, rows, texts and limits: the arrays   *)
(* are large enough, the parser reads every token once, the loop over the  *)
(* conditions computes the OR of the ANDs, each condition means what its   *)
(* operator says, and what a user asks is what the parser reads.           *)
(***************************************************************************)
EXTENDS Where, LexisProofs
-----------------------------------------------------------------------------
(* like_match returns whether the text can be cut as the pattern asks:      *)
(* LikeIs.                                                                  *)
(* What is left of a text from x on is cut for what is left of a pattern.    *)
Goes(v, pat, y, x, next) ==
  IF pat[y] = "%" THEN x <= next ELSE next = x + 1 /\ pat[y] \in {"_", v[x]}
Cutting(v, pat, x, y, cut) ==
  /\ cut \in [y..Len(pat) + 1 -> 1..Len(v) + 1]
  /\ cut[y] = x /\ cut[Len(pat) + 1] = Len(v) + 1
  /\ \A j \in y..Len(pat) : Goes(v, pat, j, cut[j], cut[j + 1])
Left(v, pat, x, y) == \E cut : Cutting(v, pat, x, y, cut)

LEMMA LeftEnd ==
  ASSUME NEW v, NEW pat, Len(v) \in Nat, Len(pat) \in Nat, NEW x \in 1..Len(v) + 1
  PROVE  Left(v, pat, x, Len(pat) + 1) <=> x = Len(v) + 1
<1> DEFINE m == Len(pat)
           n == Len(v)
<1>1. ASSUME x = n + 1 PROVE Left(v, pat, x, m + 1)
  <2> DEFINE cut == [j \in m + 1..m + 1 |-> n + 1]
  <2>1. Cutting(v, pat, x, m + 1, cut)
    BY <1>1 DEF Cutting
  <2> QED
    BY <2>1 DEF Left
<1>2. ASSUME Left(v, pat, x, m + 1) PROVE x = n + 1
  BY <1>2 DEF Left, Cutting
<1> QED
  BY <1>1, <1>2

LEMMA LeftStep ==
  ASSUME NEW v, NEW pat, Len(v) \in Nat, Len(pat) \in Nat, NEW x \in 1..Len(v) + 1, NEW y \in 1..Len(pat)
  PROVE  Left(v, pat, x, y) <=> \E z \in 1..Len(v) + 1 : Goes(v, pat, y, x, z) /\ Left(v, pat, z, y + 1)
<1> DEFINE m == Len(pat)
           n == Len(v)
<1>1. ASSUME Left(v, pat, x, y)
      PROVE  \E z \in 1..n + 1 : Goes(v, pat, y, x, z) /\ Left(v, pat, z, y + 1)
  <2>1. PICK cut : Cutting(v, pat, x, y, cut)
    BY <1>1 DEF Left
  <2> DEFINE t == [j \in y + 1..m + 1 |-> cut[j]]
  <2>2. cut[y + 1] \in 1..n + 1 /\ Goes(v, pat, y, x, cut[y + 1])
    BY <2>1 DEF Cutting
  <2>3. Cutting(v, pat, cut[y + 1], y + 1, t)
    <3>1. /\ t \in [y + 1..m + 1 -> 1..n + 1] /\ t[y + 1] = cut[y + 1] /\ t[m + 1] = n + 1
      BY <2>1 DEF Cutting
    <3>2. ASSUME NEW j \in y + 1..m PROVE Goes(v, pat, j, t[j], t[j + 1])
      <4>1. t[j] = cut[j] /\ t[j + 1] = cut[j + 1] /\ j \in y..m
        OBVIOUS
      <4> QED
        BY <2>1, <4>1 DEF Cutting
    <3> QED
      BY <3>1, <3>2 DEF Cutting
  <2> QED
    BY <2>2, <2>3 DEF Left
<1>2. ASSUME NEW z \in 1..n + 1, Goes(v, pat, y, x, z), Left(v, pat, z, y + 1)
      PROVE  Left(v, pat, x, y)
  <2>1. PICK cut : Cutting(v, pat, z, y + 1, cut)
    BY <1>2 DEF Left
  <2> DEFINE t == [j \in y..m + 1 |-> IF j = y THEN x ELSE cut[j]]
  <2>2. /\ t \in [y..m + 1 -> 1..n + 1] /\ t[y] = x /\ t[m + 1] = n + 1
    BY <2>1 DEF Cutting
  <2>3. ASSUME NEW j \in y..m PROVE Goes(v, pat, j, t[j], t[j + 1])
    <3>1. CASE j = y
      <4>1. t[j] = x /\ t[j + 1] = z
        BY <2>1, <3>1 DEF Cutting
      <4> QED
        BY <1>2, <3>1, <4>1
    <3>2. CASE j # y
      <4>1. t[j] = cut[j] /\ t[j + 1] = cut[j + 1] /\ j \in y + 1..m
        BY <3>2
      <4> QED
        BY <2>1, <4>1 DEF Cutting
    <3> QED
      BY <3>1, <3>2
  <2>4. Cutting(v, pat, x, y, t)
    BY <2>2, <2>3 DEF Cutting
  <2> QED
    BY <2>4 DEF Left
<1> QED
  BY <1>1, <1>2

(* A run of % is like one. *)
Above(v, pat, x, y) == \E z \in x..Len(v) + 1 : Left(v, pat, z, y)

LEMMA PercentStep ==
  ASSUME NEW v, NEW pat, Len(v) \in Nat, Len(pat) \in Nat, NEW x \in 1..Len(v) + 1, NEW y \in 1..Len(pat),
         pat[y] = "%"
  PROVE  /\ Left(v, pat, x, y) <=> Above(v, pat, x, y + 1)
         /\ Above(v, pat, x, y) <=> Above(v, pat, x, y + 1)
<1> DEFINE n == Len(v)
<1>1. \A w \in 1..n + 1 : Left(v, pat, w, y) <=> \E z \in 1..n + 1 : w <= z /\ Left(v, pat, z, y + 1)
  BY LeftStep DEF Goes
<1>2. \A w \in x..n + 1 : w \in 1..n + 1
  OBVIOUS
<1>3. Left(v, pat, x, y) <=> Above(v, pat, x, y + 1)
  BY <1>1, <1>2 DEF Above
<1>4. Above(v, pat, x, y) <=> Above(v, pat, x, y + 1)
  BY <1>1, <1>2 DEF Above
<1> QED
  BY <1>3, <1>4

LEMMA PercentRun ==
  ASSUME NEW v, NEW pat, Len(v) \in Nat, Len(pat) \in Nat, NEW x \in 1..Len(v) + 1,
         NEW y \in 1..Len(pat), NEW r \in y + 1..Len(pat) + 1, \A j \in y..r - 1 : pat[j] = "%"
  PROVE  Left(v, pat, x, y) <=> Above(v, pat, x, r)
<1> DEFINE P(k) == Above(v, pat, x, r - k) <=> Above(v, pat, x, r)
           B == {k \in 0..r - y - 1 : ~P(k)}
<1>0. P(0) /\ \A k \in 1..r - y - 1 : P(k - 1) => P(k)
  <2>1. P(0)
    <3>1. r - 0 = r
      OBVIOUS
    <3> QED
      BY <3>1
  <2>2. ASSUME NEW k \in 1..r - y - 1, P(k - 1)
        PROVE  P(k)
    <3>1. r - k \in 1..Len(pat) /\ pat[r - k] = "%" /\ (r - k) + 1 = r - (k - 1)
      OBVIOUS
    <3>2. Above(v, pat, x, r - k) <=> Above(v, pat, x, (r - k) + 1)
      BY <3>1, PercentStep
    <3> QED
      BY <2>2, <3>1, <3>2
  <2> QED
    BY <2>1, <2>2
<1> HIDE DEF P
<1>1. \A k \in 0..r - y - 1 : P(k)
  <2> SUFFICES ASSUME B # {} PROVE FALSE
    OBVIOUS
  <2>0. B \in SUBSET Nat
    OBVIOUS
  <2>1. PICK k \in B : \A l \in B : k <= l
    BY <2>0, Least
  <2>2. k \in 0..r - y - 1 /\ ~P(k)
    OBVIOUS
  <2>3. k # 0 /\ k \in 1..r - y - 1
    BY <1>0, <2>2
  <2>4. k - 1 \in 0..r - y - 1 /\ ~(k <= k - 1)
    BY <2>2, <2>3
  <2>5. P(k - 1)
    BY <2>1, <2>4
  <2> QED
    BY <1>0, <2>2, <2>3, <2>5
<1>2. Above(v, pat, x, y + 1) <=> Above(v, pat, x, r)
  <2>1. r - y - 1 \in Nat /\ r - (r - y - 1) = y + 1
    OBVIOUS
  <2>2. P(r - y - 1)
    BY <1>1
  <2> QED
    BY <2>1, <2>2 DEF P
<1>3. pat[y] = "%"
  OBVIOUS
<1> QED
  BY <1>2, <1>3, PercentStep

(* One step of like_match, its recursive calls answered by f. *)
RestOf(pat, y) == SelectInSubSeq(pat, y, Len(pat), LAMBDA c : c # "%")
LikeStep(v, pat, f, x, y) ==
  IF y > Len(pat) THEN x > Len(v)
  ELSE IF pat[y] = "%"
    THEN RestOf(pat, y) = 0 \/ \E m \in x..Len(v) + 1 : f[RestOf(pat, y)][m]
    ELSE x <= Len(v) /\ pat[y] \in {"_", v[x]} /\ f[y + 1][x + 1]

LEMMA RestOfIs ==
  ASSUME NEW pat, Len(pat) \in Nat, NEW y \in 1..Len(pat), pat[y] = "%"
  PROVE  LET r == RestOf(pat, y)
         IN  \/ r = 0 /\ \A j \in y..Len(pat) : pat[j] = "%"
             \/ r \in y + 1..Len(pat) /\ \A j \in y..r - 1 : pat[j] = "%"
<1> DEFINE I == {j \in y..Len(pat) : pat[j] # "%"}
<1>1. I \in SUBSET Nat
  OBVIOUS
<1>2. RestOf(pat, y) = IF I # {} THEN Min(I) ELSE 0
  BY DEF RestOf, SelectInSubSeq
<1>3. CASE I = {}
  BY <1>2, <1>3
<1>4. CASE I # {}
  <2>1. RestOf(pat, y) \in I /\ \A j \in I : RestOf(pat, y) <= j
    BY <1>1, <1>2, <1>4, Least
  <2>2. \A j \in y..RestOf(pat, y) - 1 : j \in y..Len(pat) /\ j \notin I
    BY <2>1
  <2> QED
    BY <2>1, <2>2
<1> QED
  BY <1>3, <1>4

LEMMA LikeStepIs ==
  ASSUME NEW v, NEW pat, Len(v) \in Nat, Len(pat) \in Nat, NEW f,
         NEW x \in 1..Len(v) + 1, NEW y \in 1..Len(pat) + 1,
         \A z \in 1..Len(v) + 1, w \in 1..Len(pat) + 1 :
           w > y => f[w][z] = Left(v, pat, z, w)
  PROVE  LikeStep(v, pat, f, x, y) = Left(v, pat, x, y)
<1> DEFINE m == Len(pat)
           n == Len(v)
<1>1. CASE y = m + 1
  <2>0. y > m
    BY <1>1
  <2>1. LikeStep(v, pat, f, x, y) = (x > n)
    BY <2>0, Zenon DEF LikeStep
  <2>2. Left(v, pat, x, y) <=> x = n + 1
    BY <1>1, LeftEnd
  <2>3. Left(v, pat, x, y) \in BOOLEAN
    BY DEF Left
  <2> QED
    BY <2>1, <2>2, <2>3
<1>2. CASE y \in 1..m /\ pat[y] = "%"
  <2> DEFINE r == RestOf(pat, y)
  <2>1. LikeStep(v, pat, f, x, y) = (r = 0 \/ \E z \in x..n + 1 : f[r][z])
    BY <1>2 DEF LikeStep
  <2>2. \/ r = 0 /\ \A j \in y..m : pat[j] = "%"
        \/ r \in y + 1..m /\ \A j \in y..r - 1 : pat[j] = "%"
    BY <1>2, RestOfIs
  <2> HIDE DEF r
  <2>3. CASE r = 0
    <3>1. Left(v, pat, x, y) <=> Above(v, pat, x, m + 1)
      <4>1. m + 1 \in y + 1..m + 1 /\ \A j \in y..(m + 1) - 1 : pat[j] = "%"
        BY <1>2, <2>2, <2>3
      <4> QED
        BY <1>2, <4>1, PercentRun
    <3>2. Left(v, pat, n + 1, m + 1) /\ n + 1 \in x..n + 1
      BY LeftEnd
    <3>3. Above(v, pat, x, m + 1)
      BY <3>2 DEF Above
    <3> QED
      BY <2>1, <2>3, <3>1, <3>3 DEF Left
  <2>4. CASE r # 0
    <3>1. r \in y + 1..m + 1 /\ \A j \in y..r - 1 : pat[j] = "%"
      BY <2>2, <2>4
    <3>2. Left(v, pat, x, y) <=> Above(v, pat, x, r)
      BY <1>2, <3>1, PercentRun
    <3>3. \A z \in x..n + 1 : f[r][z] = Left(v, pat, z, r)
      BY <3>1
    <3>4. (\E z \in x..n + 1 : f[r][z]) <=> Above(v, pat, x, r)
      BY <3>3, Zenon DEF Above
    <3> QED
      BY <2>1, <2>4, <3>2, <3>4, Zenon DEF Left
  <2> QED
    BY <2>3, <2>4
<1>3. CASE y \in 1..m /\ pat[y] # "%"
  <2>1. LikeStep(v, pat, f, x, y) = (x <= n /\ pat[y] \in {"_", v[x]} /\ f[y + 1][x + 1])
    <3>1. ~(y > m) /\ pat[y] # "%"
      BY <1>3
    <3> QED
      BY <3>1, Zenon DEF LikeStep
  <2>2. Left(v, pat, x, y) <=>
          \E z \in 1..n + 1 : z = x + 1 /\ pat[y] \in {"_", v[x]} /\ Left(v, pat, z, y + 1)
    BY <1>3, LeftStep DEF Goes
  <2>3. x <= n => f[y + 1][x + 1] = Left(v, pat, x + 1, y + 1)
    BY <1>3
  <2>4. x + 1 \in 1..n + 1 <=> x <= n
    OBVIOUS
  <2>5. Left(v, pat, x, y) <=> x <= n /\ pat[y] \in {"_", v[x]} /\ f[y + 1][x + 1]
    BY <2>2, <2>3, <2>4, Zenon
  <2> QED
    BY <2>1, <2>5, Zenon DEF Left
<1> QED
  BY <1>1, <1>2, <1>3

(* like_match: a text matches a pattern exactly if it can be cut into what  *)
(* each symbol of the pattern stands for.                                   *)
THEOREM LikeIs ==
  ASSUME NEW v, NEW pat, Len(v) \in Nat, Len(pat) \in Nat
  PROVE  Like(v, pat) <=> LikeMeans(v, pat)
<1> DEFINE X == 1..Len(v) + 1
           Y == 1..Len(pat) + 1
           It(f) == f = [y \in Y |-> [x \in X |-> LikeStep(v, pat, f, x, y)]]
           c == CHOOSE f : It(f)
           g == [y \in Y |-> [x \in X |-> Left(v, pat, x, y)]]
<1>1. Like(v, pat) = c[1][1]
  BY DEF Like, LikeStep, RestOf
<1>2. It(g)
  <2>1. \A x \in X, y \in Y : g[y][x] = Left(v, pat, x, y)
    OBVIOUS
  <2> HIDE DEF g
  <2>2. \A x \in X, y \in Y : LikeStep(v, pat, g, x, y) = Left(v, pat, x, y)
    BY <2>1, LikeStepIs
  <2>3. [y \in Y |-> [x \in X |-> LikeStep(v, pat, g, x, y)]] = [y \in Y |-> [x \in X |-> Left(v, pat, x, y)]]
    BY <2>2, Zenon
  <2> QED
    BY <2>3 DEF g
<1>3. It(c)
  <2> HIDE DEF g
  <2> QED
    BY <1>2, Zenon
<1>4. PICK d : d = c
  OBVIOUS
<1> HIDE DEF c
<1>5. \A x \in X, y \in Y : d[y][x] = LikeStep(v, pat, d, x, y)
  <2>1. It(d)
    BY <1>3, <1>4, Zenon
  <2>2. \A y \in Y : d[y] = [x \in X |-> LikeStep(v, pat, d, x, y)]
    BY <2>1, Zenon
  <2> HIDE DEF X, Y
  <2> QED
    BY <2>2, Zenon
<1> DEFINE m == Len(pat)
           P(k) == \A x \in X : d[m + 1 - k][x] = Left(v, pat, x, m + 1 - k)
           B == {k \in 0..m : ~P(k)}
<1>6. B = {}
  <2> SUFFICES ASSUME B # {} PROVE FALSE
    OBVIOUS
  <2>0. B \in SUBSET Nat
    OBVIOUS
  <2>1. PICK k \in B : \A l \in B : k <= l
    BY <2>0, Least
  <2>2. k \in 0..m /\ ~P(k)
    OBVIOUS
  <2>3. \A l \in 0..k - 1 : P(l)
    <3> HIDE DEF P
    <3> SUFFICES ASSUME NEW l \in 0..k - 1 PROVE P(l)
      OBVIOUS
    <3>1. l \in 0..m /\ ~(k <= l)
      BY <2>2
    <3> QED
      BY <2>1, <3>1
  <2>4. \A z \in X, w \in Y : w > m + 1 - k => d[w][z] = Left(v, pat, z, w)
    <3> SUFFICES ASSUME NEW z \in X, NEW w \in Y, w > m + 1 - k
                 PROVE  d[w][z] = Left(v, pat, z, w)
      OBVIOUS
    <3>1. m + 1 - w \in 0..k - 1 /\ m + 1 - (m + 1 - w) = w
      BY <2>2
    <3>2. P(m + 1 - w)
      BY <2>3, <3>1
    <3> QED
      BY <3>1, <3>2
  <2>5. m + 1 - k \in Y
    BY <2>2
  <2>6. \A x \in X : LikeStep(v, pat, d, x, m + 1 - k) = Left(v, pat, x, m + 1 - k)
    BY <2>4, <2>5, LikeStepIs
  <2> QED
    BY <1>5, <2>2, <2>5, <2>6
<1>7. d[1][1] = Left(v, pat, 1, 1)
  <2>1. P(m)
    BY <1>6
  <2>2. m + 1 - m = 1 /\ 1 \in X
    OBVIOUS
  <2> QED
    BY <2>1, <2>2
<1>8. Left(v, pat, 1, 1) <=> LikeMeans(v, pat)
  BY DEF Left, Cutting, Goes, LikeMeans
<1> QED
  BY <1>1, <1>4, <1>7, <1>8, Zenon
-----------------------------------------------------------------------------
(* The texts that say what is asked.  Symbols are strings; the provers are  *)
(* not told that the ones the model writes out are in STRING.               *)
Symbol == STRING \cup {Blank, Quote, "AND", "OR", "WHERE", "NULL"}

(* What parse_where makes of a text that says what is asked.  A text is     *)
(* read as some tokens before certain texts when its tokens come first and  *)
(* those of what follows are as if it stood alone.                          *)
AnyText == Seq(Symbol)
AfterWord == {u \in AnyText : WordEnds(u)}
NoOperator == {u \in AnyText : u = << >> \/ u[1] \notin Operators}
Gap == {u \in AnyText : u = << >> \/ u[1] = Blank}
Reads(w, ts, F) == \A u \in F : Tokens(w \o u) = ts \o Tokens(u)

LEMMA Associative ==
  ASSUME NEW S, NEW x \in Seq(S), NEW y \in Seq(S), NEW z \in Seq(S)
  PROVE  (x \o y) \o z = x \o (y \o z)
OBVIOUS

LEMMA FirstIs ==
  ASSUME NEW S, NEW w \in Seq(S), NEW u \in Seq(S), w # << >>
  PROVE  w \o u # << >> /\ (w \o u)[1] = w[1] /\ w \o u \in Seq(S)
OBVIOUS

LEMMA NothingBefore ==
  ASSUME NEW S, NEW u \in Seq(S)
  PROVE  << >> \o u = u /\ u \o << >> = u
OBVIOUS

LEMMA ReadsBoth ==
  ASSUME NEW w1 \in AnyText, NEW t1 \in Seq(AnyText), NEW F1,
         NEW w2 \in AnyText, NEW t2 \in Seq(AnyText), NEW F2 \in SUBSET AnyText,
         Reads(w1, t1, F1), Reads(w2, t2, F2), \A u \in F2 : w2 \o u \in F1
  PROVE  Reads(w1 \o w2, t1 \o t2, F2)
<1> SUFFICES ASSUME NEW u \in F2
             PROVE  Tokens((w1 \o w2) \o u) = (t1 \o t2) \o Tokens(u)
  BY DEF Reads
<1>1. PICK t3 \in Seq(AnyText) : t3 = Tokens(u)
  BY TokensText DEF AnyText
<1>2. (w1 \o w2) \o u = w1 \o (w2 \o u)
  <2>1. w1 \in Seq(Symbol) /\ w2 \in Seq(Symbol) /\ u \in Seq(Symbol)
    BY DEF AnyText
  <2> QED
    BY <2>1, Associative
<1>3. Tokens(w1 \o (w2 \o u)) = t1 \o (t2 \o t3)
  BY <1>1 DEF Reads
<1>4. (t1 \o t2) \o t3 = t1 \o (t2 \o t3)
  BY Associative
<1> QED
  BY <1>1, <1>2, <1>3, <1>4

LEMMA ReadsNothing == \A F \in SUBSET AnyText : Reads(<< >>, << >>, F)
<1> SUFFICES ASSUME NEW u \in AnyText
             PROVE  Tokens(<< >> \o u) = << >> \o Tokens(u)
  BY DEF Reads
<1>1. Tokens(u) \in Seq(AnyText)
  BY TokensText DEF AnyText
<1> QED
  BY <1>1, NothingBefore DEF AnyText

LEMMA ReadsBlank == Reads(<<Blank>>, << >>, AnyText)
<1> SUFFICES ASSUME NEW u \in AnyText
             PROVE  Tokens(<<Blank>> \o u) = << >> \o Tokens(u)
  BY DEF Reads
<1>1. Tokens(u) \in Seq(AnyText)
  BY TokensText DEF AnyText
<1>2. Blank \in Symbol
  BY DEF Symbol
<1>3. Tokens(<<Blank>> \o u) = Tokens(u)
  BY <1>2, TokensBlank DEF AnyText
<1> QED
  BY <1>1, <1>3, NothingBefore

LEMMA ReadsWord ==
  ASSUME NEW w \in AnyText, Solid(w), Len(w) <= MaxValue
  PROVE  Reads(w, <<w>>, AfterWord)
<1> SUFFICES ASSUME NEW u \in AnyText, WordEnds(u)
             PROVE  Tokens(w \o u) = <<w>> \o Tokens(u)
  BY DEF Reads, AfterWord
<1> QED
  BY WordIs DEF AnyText

(* A keyword between blanks.                                                 *)
LEMMA ReadsKeyword ==
  ASSUME NEW x \in Symbol, x \notin Operators \cup Quotes \cup {Blank}
  PROVE  /\ Reads(<<Blank>> \o <<x>> \o <<Blank>>, <<<<x>>>>, AnyText)
         /\ <<Blank>> \o <<x>> \o <<Blank>> \in AnyText
         /\ \A u \in AnyText : (<<Blank>> \o <<x>> \o <<Blank>>) \o u \in Gap
<1> DEFINE w == <<x>>
           b == <<Blank>>
<1>1. w \in AnyText /\ b \in AnyText /\ Solid(w) /\ Len(w) <= MaxValue
  <2>1. w \in AnyText /\ b \in AnyText /\ Len(w) = 1 /\ w[1] = x /\ w # << >>
    BY DEF AnyText, Symbol
  <2>2. 1 <= MaxValue
    BY LexisAssumption DEF LexisAssumption
  <2> HIDE DEF w, b
  <2> QED
    BY <2>1, <2>2 DEF Solid
<1>2. Reads(w, <<w>>, AfterWord)
  BY <1>1, ReadsWord
<1>3. Reads(b, << >>, AnyText)
  BY ReadsBlank
<1>4. \A u \in AnyText : b \o u \in AfterWord /\ b \o u \in Gap
  <2> SUFFICES ASSUME NEW u \in AnyText PROVE b \o u \in AfterWord /\ b \o u \in Gap
    OBVIOUS
  <2>1. b \o u \in AnyText /\ (b \o u)[1] = Blank
    BY <1>1 DEF AnyText
  <2> QED
    BY <2>1 DEF AfterWord, Gap, WordEnds
<1>5. \A u \in AfterWord : w \o u \in AnyText
  BY <1>1, JoinText DEF AfterWord, AnyText
<1> DEFINE bw == b \o w
           bwb == bw \o b
<1>6. bw \in AnyText /\ bwb \in AnyText
  BY <1>1, JoinText DEF AnyText
<1>7. AfterWord \in SUBSET AnyText /\ AnyText \in SUBSET AnyText
  BY DEF AfterWord
<1>8. << >> \in Seq(AnyText) /\ <<w>> \in Seq(AnyText) /\ << >> \o <<w>> = <<w>> /\ <<w>> \o << >> = <<w>>
  BY <1>1
<1>9. \A u \in AnyText : bwb \o u \in Gap
  <2> SUFFICES ASSUME NEW u \in AnyText PROVE bwb \o u \in Gap
    OBVIOUS
  <2>1. bw[1] = Blank /\ bw # << >>
    OBVIOUS
  <2>2. bwb[1] = Blank /\ bwb # << >>
    BY <1>1, <1>6, <2>1, FirstIs DEF AnyText
  <2>3. bwb \o u \in AnyText /\ (bwb \o u)[1] = Blank
    <3> HIDE DEF bwb
    <3> QED
      BY <1>6, <2>2, FirstIs DEF AnyText
  <2> QED
    BY <2>3 DEF Gap
<1> HIDE DEF w, b
<1>10. Reads(bw, << >> \o <<w>>, AfterWord)
  BY <1>1, <1>2, <1>3, <1>5, <1>7, <1>8, ReadsBoth
<1> HIDE DEF bw
<1>11. Reads(bwb, <<w>> \o << >>, AnyText)
  BY <1>1, <1>3, <1>4, <1>6, <1>7, <1>8, <1>10, ReadsBoth
<1> QED
  BY <1>6, <1>8, <1>9, <1>11 DEF w, b, bw

LEMMA ReadsComparison ==
  ASSUME NEW o \in Comparisons, o \in AnyText
  PROVE  o # << >> /\ o[1] \in Operators /\ Reads(o, <<o>>, NoOperator)
<1>1. \/ \E x \in Operators : o = <<x>>
      \/ \E x, y : o = <<x, y>> /\ <<x, y>> \in Pairs
  BY Zenon DEF Comparisons, Operators, Pairs
<1>2. CASE \E x \in Operators : o = <<x>>
  <2>1. PICK x \in Operators : o = <<x>>
    BY <1>2
  <2>2. x \in Symbol
    BY <2>1 DEF AnyText
  <2> SUFFICES ASSUME NEW u \in AnyText, u = << >> \/ u[1] \notin Operators
               PROVE  Tokens(<<x>> \o u) = <<<<x>>>> \o Tokens(u)
    BY <2>1 DEF Reads, NoOperator
  <2> QED
    BY <2>2, SingleIs DEF AnyText
<1>3. CASE \E x, y : o = <<x, y>> /\ <<x, y>> \in Pairs
  <2>1. PICK x, y : o = <<x, y>> /\ <<x, y>> \in Pairs
    BY <1>3
  <2>2. x \in Operators /\ o[1] = x /\ o # << >> /\ o \in Pairs /\ o \in Seq(Symbol)
    BY <2>1, PairFacts DEF AnyText
  <2>3. \A u \in AnyText : Tokens(o \o u) = <<o>> \o Tokens(u)
    BY <2>2, PairIs DEF AnyText
  <2> QED
    BY <2>2, <2>3 DEF Reads, NoOperator
<1> QED
  BY <1>1, <1>2, <1>3

LEMMA ReadsSpaced ==
  ASSUME NEW o \in AnyText, NEW ts \in Seq(AnyText), NEW F \in SUBSET AnyText, Reads(o, ts, F),
         \A u \in AnyText : <<Blank>> \o u \in F
  PROVE  /\ Reads(<<Blank>> \o o \o <<Blank>>, ts, AnyText)
         /\ <<Blank>> \o o \o <<Blank>> \in AnyText
         /\ \A u \in AnyText : (<<Blank>> \o o \o <<Blank>>) \o u \in Gap
<1> DEFINE b == <<Blank>>
           bo == b \o o
           bob == bo \o b
<1>1. b \in AnyText /\ b # << >> /\ b[1] = Blank
  BY DEF AnyText, Symbol
<1>2. bo \in AnyText /\ bo # << >> /\ bo[1] = Blank
  <2> HIDE DEF b
  <2> QED
    BY <1>1, FirstIs DEF AnyText
<1>3. bob \in AnyText /\ bob # << >> /\ bob[1] = Blank
  <2> HIDE DEF b, bo
  <2> QED
    BY <1>1, <1>2, FirstIs DEF AnyText
<1>4. Reads(b, << >>, AnyText)
  BY ReadsBlank
<1>5. \A u \in F : o \o u \in AnyText
  BY JoinText DEF AnyText
<1>6. \A u \in AnyText : b \o u \in F /\ b \o u \in AnyText
  BY <1>1, JoinText DEF AnyText
<1>7. \A u \in AnyText : bob \o u \in Gap
  <2> HIDE DEF bob
  <2> SUFFICES ASSUME NEW u \in AnyText PROVE bob \o u \in Gap
    OBVIOUS
  <2>1. bob \o u \in AnyText /\ (bob \o u)[1] = Blank
    BY <1>3, FirstIs DEF AnyText
  <2> QED
    BY <2>1 DEF Gap
<1>8. << >> \in Seq(AnyText) /\ << >> \o ts = ts /\ ts \o << >> = ts /\ AnyText \in SUBSET AnyText
  BY NothingBefore
<1> HIDE DEF b
<1>9. Reads(bo, << >> \o ts, F)
  BY <1>1, <1>4, <1>5, <1>8, ReadsBoth
<1> HIDE DEF bo
<1>10. Reads(bob, ts \o << >>, AnyText)
  BY <1>1, <1>2, <1>4, <1>6, <1>8, <1>9, ReadsBoth
<1> QED
  BY <1>3, <1>7, <1>8, <1>10 DEF b, bo

LEMMA ReadsOp ==
  ASSUME NEW c, Askable(c), NEW gap \in {<< >>, <<Blank>>}
  PROVE  LET op == IF c.op[1] \in Operators THEN gap \o c.op \o gap ELSE <<Blank>> \o c.op \o <<Blank>>
         IN  /\ op \in AnyText /\ Reads(op, <<c.op>>, NoOperator)
             /\ \A u \in AnyText : op \o u \in AfterWord
<1> PICK o \in AnyText : o = c.op
  BY DEF Askable, AnyText, Symbol
<1>0. <<o>> \in Seq(AnyText) /\ NoOperator \in SUBSET AnyText /\ AfterWord \in SUBSET AnyText /\ Gap \subseteq AfterWord
  BY DEF NoOperator, AfterWord, Gap, WordEnds
<1>1. Blank \notin Operators
  BY DEF Blank, Operators
<1>2. \A u \in AnyText : <<Blank>> \o u \in NoOperator /\ <<Blank>> \o u \in AfterWord
  <2> SUFFICES ASSUME NEW u \in AnyText PROVE <<Blank>> \o u \in NoOperator /\ <<Blank>> \o u \in AfterWord
    OBVIOUS
  <2>1. <<Blank>> \o u \in AnyText /\ (<<Blank>> \o u)[1] = Blank
    BY DEF AnyText, Symbol
  <2> QED
    BY <1>1, <2>1 DEF NoOperator, AfterWord, WordEnds
<1>3. ASSUME Reads(<<Blank>> \o o \o <<Blank>>, <<o>>, AnyText)
      PROVE  Reads(<<Blank>> \o o \o <<Blank>>, <<o>>, NoOperator)
  BY <1>0, <1>3 DEF Reads
<1>4. CASE o \in Comparisons
  <2>1. o # << >> /\ o[1] \in Operators /\ Reads(o, <<o>>, NoOperator)
    BY <1>4, ReadsComparison
  <2>2. CASE gap = << >>
    <3>1. gap \o o \o gap = o
      BY <2>2, NothingBefore DEF AnyText
    <3>2. \A u \in AnyText : o \o u \in AfterWord
      <4> SUFFICES ASSUME NEW u \in AnyText PROVE o \o u \in AfterWord
        OBVIOUS
      <4>1. o \o u \in AnyText /\ (o \o u)[1] = o[1]
        BY <2>1, FirstIs DEF AnyText
      <4> QED
        BY <2>1, <4>1 DEF AfterWord, WordEnds
    <3> QED
      BY <2>1, <3>1, <3>2
  <2>3. CASE gap = <<Blank>>
    <3>1. /\ Reads(<<Blank>> \o o \o <<Blank>>, <<o>>, AnyText)
          /\ <<Blank>> \o o \o <<Blank>> \in AnyText
          /\ \A u \in AnyText : (<<Blank>> \o o \o <<Blank>>) \o u \in Gap
      BY <1>0, <1>2, <2>1, ReadsSpaced
    <3> QED
      BY <1>0, <1>3, <2>1, <2>3, <3>1
  <2> QED
    BY <2>2, <2>3
<1>5. CASE o \notin Comparisons
  <2>1. o \in {<<"LIKE">>, <<"BETWEEN">>}
    BY <1>5 DEF Askable
  <2>2. Solid(o) /\ Len(o) = 1 /\ o[1] \notin Operators
    <3>1. \A x \in {"LIKE", "BETWEEN"} : x \notin Operators \cup Quotes \cup {Blank}
      BY DEF Operators, Quotes, Quote, Blank
    <3>2. Len(o) = 1 /\ o[1] \in {"LIKE", "BETWEEN"} /\ o # << >>
      BY <2>1
    <3> QED
      BY <3>1, <3>2 DEF Solid
  <2>3. 1 <= MaxValue
    BY LexisAssumption DEF LexisAssumption
  <2>4. Reads(o, <<o>>, AfterWord)
    BY <2>2, <2>3, ReadsWord
  <2>5. /\ Reads(<<Blank>> \o o \o <<Blank>>, <<o>>, AnyText)
        /\ <<Blank>> \o o \o <<Blank>> \in AnyText
        /\ \A u \in AnyText : (<<Blank>> \o o \o <<Blank>>) \o u \in Gap
    BY <1>0, <1>2, <2>4, ReadsSpaced
  <2> QED
    BY <1>0, <1>3, <2>2, <2>5
<1> QED
  BY <1>4, <1>5

LEMMA ReadsValue ==
  ASSUME NEW v \in Seq(STRING), Quote \notin Range(v), Len(v) <= MaxValue,
         NEW quote, quote = <<Quote>> \/ (quote = << >> /\ IsBare(v))
  PROVE  /\ quote \o v \o quote \in AnyText
         /\ Reads(quote \o v \o quote, <<Trim(v)>>, Gap)
         /\ \A u \in Gap : (quote \o v \o quote) \o u \in NoOperator
<1>1. v \in AnyText
  BY DEF AnyText, Symbol
<1>2. CASE quote = << >> /\ IsBare(v)
  <2>1. quote \o v \o quote = v
    BY <1>1, <1>2, NothingBefore DEF AnyText
  <2>2. Solid(v) /\ v # << >> /\ v[1] \notin Operators
    BY <1>1, <1>2 DEF IsBare, Range, Solid, AnyText
  <2>3. Reads(v, <<v>>, AfterWord)
    BY <1>1, <2>2, ReadsWord
  <2>4. Trim(v) = v
    BY <2>2, TrimSolid DEF Solid
  <2>5. Gap \subseteq AfterWord /\ Gap \subseteq AnyText
    BY DEF Gap, AfterWord, WordEnds
  <2>6. \A u \in Gap : v \o u \in NoOperator
    <3> SUFFICES ASSUME NEW u \in Gap PROVE v \o u \in NoOperator
      OBVIOUS
    <3>1. v \o u \in AnyText /\ (v \o u)[1] = v[1]
      BY <1>1, <2>2, <2>5, FirstIs DEF AnyText
    <3> QED
      BY <2>2, <3>1 DEF NoOperator
  <2>7. Reads(v, <<v>>, Gap)
    BY <2>3, <2>5 DEF Reads
  <2> QED
    BY <1>1, <2>1, <2>4, <2>6, <2>7
<1>3. CASE quote = <<Quote>>
  <2> DEFINE q == <<Quote>>
             w == q \o v \o q
  <2>1. q \in AnyText /\ q # << >> /\ q[1] = Quote
    BY DEF AnyText, Symbol
  <2>2. q \o v \in AnyText /\ q \o v # << >> /\ (q \o v)[1] = Quote
    <3> HIDE DEF q
    <3> QED
      BY <1>1, <2>1, FirstIs DEF AnyText
  <2>3. w \in AnyText /\ w # << >> /\ w[1] = Quote
    <3> HIDE DEF q
    <3> QED
      BY <2>1, <2>2, FirstIs DEF AnyText
  <2>4. ASSUME NEW u \in Gap
        PROVE  w \o u \in NoOperator
    <3>1. u \in AnyText
      BY DEF Gap
    <3>2. w \o u \in AnyText /\ (w \o u)[1] = Quote
      <4> HIDE DEF w
      <4> QED
        BY <2>3, <3>1, FirstIs DEF AnyText
    <3> QED
      BY <3>2 DEF NoOperator, Quote, Operators
  <2>5. v \in Seq(STRING \ {Quote})
    BY DEF Range
  <2>6. ASSUME NEW u \in Gap
        PROVE  Tokens(w \o u) = <<Trim(v)>> \o Tokens(u)
    <3>1. u \in Seq(Symbol)
      BY DEF Gap, AnyText
    <3>2. PICK P : v \in Seq(P) /\ Quote \notin P /\ P \subseteq Symbol
      <4>1. Quote \notin STRING \ {Quote} /\ STRING \ {Quote} \subseteq Symbol
        BY DEF Symbol
      <4> QED
        BY <2>5, <4>1
    <3>3. Quote \in Symbol
      BY DEF Symbol
    <3>4. Tokens(<<Quote>> \o v \o <<Quote>> \o u) = <<Trim(v)>> \o Tokens(u)
      BY <3>1, <3>2, <3>3, QuotedIs
    <3> QED
      BY <3>4
  <2>7. Reads(w, <<Trim(v)>>, Gap)
    BY <2>6 DEF Reads
  <2> QED
    BY <1>3, <2>3, <2>4, <2>7
<1> QED
  BY <1>2, <1>3

CondTokens(c) ==
  <<c.col>> \o <<c.op>> \o <<Trim(c.low)>>
  \o IF c.op = <<"BETWEEN">> THEN <<<<"AND">>>> \o <<Trim(c.high)>> ELSE << >>

LEMMA Listed == \A x, y, z : <<x>> \o <<y>> \o <<z>> = <<x, y, z>>
<1> SUFFICES ASSUME NEW x, NEW y, NEW z
             PROVE  <<x>> \o <<y>> \o <<z>> = <<x, y, z>>
  OBVIOUS
<1> PICK S : S = {x, y, z}
  OBVIOUS
<1>1. /\ <<x>> \o <<y>> \o <<z>> \in Seq(S) /\ Len(<<x>> \o <<y>> \o <<z>>) = 3
      /\ (<<x>> \o <<y>> \o <<z>>)[1] = x /\ (<<x>> \o <<y>> \o <<z>>)[2] = y /\ (<<x>> \o <<y>> \o <<z>>)[3] = z
  OBVIOUS
<1>2. <<x, y, z>> \in Seq(S) /\ Len(<<x, y, z>>) = 3 /\ <<x, y, z>>[1] = x /\ <<x, y, z>>[2] = y /\ <<x, y, z>>[3] = z
  OBVIOUS
<1>3. PICK s, t \in Seq(S) : s = <<x>> \o <<y>> \o <<z>> /\ t = <<x, y, z>>
  BY <1>1, <1>2
<1>4. Len(s) = 3 /\ Len(t) = 3 /\ s[1] = t[1] /\ s[2] = t[2] /\ s[3] = t[3]
  BY <1>1, <1>2, <1>3, Zenon
<1>5. \A j \in 1..Len(s) : s[j] = t[j]
  <2>1. \A j \in 1..3 : j = 1 \/ j = 2 \/ j = 3
    OBVIOUS
  <2> QED
    BY <1>4, <2>1
<1>6. s = t
  BY <1>4, <1>5, SameSeq
<1> QED
  BY <1>3, <1>6, Zenon

(* What comes after AND or OR.                                               *)
LEMMA ReadsAfter ==
  ASSUME NEW x \in {"AND", "OR"}, NEW w \in AnyText, NEW ts \in Seq(AnyText), Reads(w, ts, Gap)
  PROVE  LET more == <<Blank, x, Blank>> \o w
         IN  /\ more \in AnyText /\ Reads(more, <<<<x>>>> \o ts, Gap)
             /\ \A u \in Gap : more \o u \in Gap
<1>0. <<Blank>> \o <<x>> \o <<Blank>> = <<Blank, x, Blank>> /\ <<Blank, x, Blank>> \in AnyText
  <2>1. Blank \in Symbol /\ x \in Symbol
    BY DEF Symbol
  <2>2. \A S : \A p, y \in S : <<p, y, p>> \in Seq(S)
    OBVIOUS
  <2> QED
    BY <2>1, <2>2, Listed, Zenon DEF AnyText
<1>a. PICK a : a = <<Blank, x, Blank>>
  OBVIOUS
<1>11. a \in AnyText
  BY <1>0, <1>a, Zenon
<1>1. x \in Symbol /\ x \notin Operators \cup Quotes \cup {Blank}
  BY DEF Symbol, Operators, Quotes, Quote, Blank
<1>2. Reads(a, <<<<x>>>>, AnyText) /\ \A u \in AnyText : a \o u \in Gap
  <2>1. Reads(<<Blank>> \o <<x>> \o <<Blank>>, <<<<x>>>>, AnyText)
    BY <1>1, ReadsKeyword
  <2>2. \A u \in AnyText : (<<Blank>> \o <<x>> \o <<Blank>>) \o u \in Gap
    BY <1>1, ReadsKeyword
  <2> QED
    BY <1>0, <1>a, <2>1, <2>2, Zenon
<1>6. Gap \in SUBSET AnyText
  BY DEF Gap
<1>4. \A u \in Gap : w \o u \in AnyText
  BY <1>6, JoinText DEF AnyText
<1>5. <<x>> \in AnyText
  BY <1>1 DEF AnyText
<1>8. Reads(a \o w, <<<<x>>>> \o ts, Gap)
  <2>1. <<<<x>>>> \in Seq(AnyText)
    BY <1>5
  <2> QED
    BY <1>2, <1>4, <1>6, <1>11, <2>1, ReadsBoth
<1>9. a \o w \in AnyText
  BY <1>11, JoinText DEF AnyText
<1>10. \A u \in Gap : (a \o w) \o u \in Gap
  <2> SUFFICES ASSUME NEW u \in Gap PROVE (a \o w) \o u \in Gap
    OBVIOUS
  <2>1. u \in AnyText /\ w \o u \in AnyText
    BY <1>4, <1>6
  <2>2. (a \o w) \o u = a \o (w \o u)
    <3>1. a \in Seq(Symbol) /\ w \in Seq(Symbol) /\ u \in Seq(Symbol)
      BY <1>11, <2>1 DEF AnyText
    <3> QED
      BY <3>1, Associative
  <2> QED
    BY <1>2, <2>1, <2>2
<1> QED
  BY <1>8, <1>9, <1>10, <1>a

LEMMA ReadsHigh ==
  ASSUME NEW v \in Seq(STRING), Quote \notin Range(v), Len(v) <= MaxValue,
         NEW quote, quote = <<Quote>> \/ (quote = << >> /\ IsBare(v))
  PROVE  LET high == <<Blank, "AND", Blank>> \o (quote \o v \o quote)
         IN  /\ high \in AnyText /\ Reads(high, <<<<"AND">>>> \o <<Trim(v)>>, Gap)
             /\ \A u \in Gap : high \o u \in Gap
<1>1. PICK w : w = quote \o v \o quote
  OBVIOUS
<1>2. w \in AnyText /\ Reads(w, <<Trim(v)>>, Gap)
  BY <1>1, ReadsValue
<1>3. <<Trim(v)>> \in Seq(AnyText)
  <2>1. v \in Seq(Symbol)
    BY DEF Symbol
  <2>2. Trim(v) \in AnyText
    BY <2>1, TrimText DEF AnyText
  <2> QED
    BY <2>2
<1>4. "AND" \in {"AND", "OR"}
  OBVIOUS
<1>5. /\ <<Blank, "AND", Blank>> \o w \in AnyText
      /\ Reads(<<Blank, "AND", Blank>> \o w, <<<<"AND">>>> \o <<Trim(v)>>, Gap)
      /\ \A u \in Gap : (<<Blank, "AND", Blank>> \o w) \o u \in Gap
  BY <1>2, <1>3, <1>4, ReadsAfter, Zenon
<1> QED
  BY <1>1, <1>5, Zenon

LEMMA ReadsCond ==
  ASSUME NEW c, Askable(c), NEW gap \in {<< >>, <<Blank>>},
         NEW quote, quote = <<Quote>> \/ (quote = << >> /\ \A v \in Range(Values(c)) : IsBare(v))
  PROVE  LET s == Spell(c, quote, gap)
         IN  s \in AnyText /\ s # << >> /\ s[1] = c.col[1] /\ Reads(s, CondTokens(c), Gap)
<1> DEFINE value(v) == quote \o v \o quote
           op == IF c.op[1] \in Operators THEN gap \o c.op \o gap ELSE <<Blank>> \o c.op \o <<Blank>>
           high == IF c.op = <<"BETWEEN">> THEN <<Blank, "AND", Blank>> \o value(c.high) ELSE << >>
           highTokens == IF c.op = <<"BETWEEN">> THEN <<<<"AND">>>> \o <<Trim(c.high)>> ELSE << >>
<1>1. Spell(c, quote, gap) = c.col \o op \o value(c.low) \o high
  BY Zenon DEF Spell
<1>2. /\ c.col \in Seq(STRING) /\ c.op \in Seq(STRING) /\ c.low \in Seq(STRING) /\ c.high \in Seq(STRING)
      /\ IsBare(c.col) /\ Len(c.col) <= MaxValue
      /\ Quote \notin Range(c.low) /\ Len(c.low) <= MaxValue
      /\ Quote \notin Range(c.high) /\ Len(c.high) <= MaxValue
  BY DEF Askable
<1>3. quote = <<Quote>> \/ (quote = << >> /\ IsBare(c.low))
  BY DEF Values, Range
<1>4. c.op = <<"BETWEEN">> => quote = <<Quote>> \/ (quote = << >> /\ IsBare(c.high))
  <2> SUFFICES ASSUME c.op = <<"BETWEEN">> PROVE c.high \in Range(Values(c))
    OBVIOUS
  <2>1. Values(c) = <<c.low, c.high>>
    BY DEF Values
  <2>2. 2 \in DOMAIN Values(c) /\ Values(c)[2] = c.high
    BY <2>1
  <2> QED
    BY <2>2 DEF Range
<1>5. /\ c.col \in AnyText /\ c.col # << >> /\ Reads(c.col, <<c.col>>, AfterWord)
  <2>1. c.col \in AnyText /\ Solid(c.col)
    <3>1. c.col \in AnyText
      BY <1>2 DEF AnyText, Symbol
    <3>2. c.col # << >> /\ \A j \in 1..Len(c.col) : c.col[j] \notin Operators \cup Quotes \cup {Blank}
      BY <1>2 DEF IsBare, Range
    <3> QED
      BY <3>1, <3>2 DEF Solid
  <2> QED
    BY <1>2, <2>1, ReadsWord DEF Solid
<1>6. op \in AnyText /\ Reads(op, <<c.op>>, NoOperator) /\ \A u \in AnyText : op \o u \in AfterWord
  BY ReadsOp
<1>7. /\ value(c.low) \in AnyText /\ Reads(value(c.low), <<Trim(c.low)>>, Gap)
      /\ \A u \in Gap : value(c.low) \o u \in NoOperator
  BY <1>2, <1>3, ReadsValue
<1>8. high \in AnyText /\ Reads(high, highTokens, Gap) /\ \A u \in Gap : high \o u \in Gap
  <2>1. CASE c.op = <<"BETWEEN">>
    BY <1>2, <1>4, <2>1, ReadsHigh
  <2>2. CASE c.op # <<"BETWEEN">>
    <3>1. high = << >> /\ highTokens = << >>
      BY <2>2
    <3>2. \A u \in Gap : << >> \o u = u
      BY NothingBefore DEF Gap, AnyText
    <3>3. Reads(<< >>, << >>, Gap) /\ << >> \in AnyText
      BY ReadsNothing DEF Gap, AnyText
    <3> QED
      BY <3>1, <3>2, <3>3
  <2> QED
    BY <2>1, <2>2
<1>9. /\ NoOperator \in SUBSET AnyText /\ Gap \in SUBSET AnyText
      /\ <<c.col>> \in Seq(AnyText) /\ <<c.op>> \in Seq(AnyText)
      /\ <<Trim(c.low)>> \in Seq(AnyText) /\ highTokens \in Seq(AnyText)
  <2>1. \A v \in Seq(STRING) : v \in AnyText /\ Trim(v) \in AnyText
    <3> SUFFICES ASSUME NEW v \in Seq(STRING) PROVE v \in AnyText /\ Trim(v) \in AnyText
      OBVIOUS
    <3>1. v \in Seq(Symbol)
      BY DEF Symbol
    <3> QED
      BY <3>1, TrimText DEF AnyText
  <2>2. <<"AND">> \in AnyText
    BY DEF AnyText, Symbol
  <2> QED
    BY <1>2, <2>1, <2>2 DEF NoOperator, Gap
<1>10. CondTokens(c) = <<c.col>> \o <<c.op>> \o <<Trim(c.low)>> \o highTokens
  BY Zenon DEF CondTokens
<1>p. PICK p : p = op
  OBVIOUS
<1>v. PICK v : v = value(c.low)
  OBVIOUS
<1>h. PICK h : h = high
  OBVIOUS
<1>t. PICK ts : ts = highTokens
  OBVIOUS
<1> HIDE DEF op, value, high, highTokens
<1>21. p \in AnyText /\ Reads(p, <<c.op>>, NoOperator) /\ \A u \in AnyText : p \o u \in AfterWord
  BY <1>6, <1>p, Zenon
<1>22. v \in AnyText /\ Reads(v, <<Trim(c.low)>>, Gap) /\ \A u \in Gap : v \o u \in NoOperator
  BY <1>7, <1>v, Zenon
<1>23. h \in AnyText /\ Reads(h, ts, Gap) /\ (\A u \in Gap : h \o u \in Gap) /\ ts \in Seq(AnyText)
  BY <1>8, <1>9, <1>h, <1>t, Zenon
<1>x. PICK x : x = c.col \o p
  OBVIOUS
<1>11. x \in AnyText /\ x # << >> /\ x[1] = c.col[1]
  BY <1>5, <1>21, <1>x, FirstIs DEF AnyText
<1>y. PICK y : y = x \o v
  OBVIOUS
<1>12. y \in AnyText /\ y # << >> /\ y[1] = c.col[1]
  BY <1>22, <1>11, <1>y, FirstIs DEF AnyText
<1>z. PICK z : z = y \o h
  OBVIOUS
<1>13. z \in AnyText /\ z # << >> /\ z[1] = c.col[1]
  BY <1>23, <1>12, <1>z, FirstIs DEF AnyText
<1>14. Reads(x, <<c.col>> \o <<c.op>>, NoOperator)
  <2>1. \A u \in NoOperator : p \o u \in AfterWord
    BY <1>21, <1>9
  <2> QED
    BY <1>5, <1>21, <1>9, <1>x, <2>1, ReadsBoth
<1>15. Reads(y, <<c.col>> \o <<c.op>> \o <<Trim(c.low)>>, Gap)
  <2>1. <<c.col>> \o <<c.op>> \in Seq(AnyText)
    BY <1>9, JoinText
  <2> QED
    BY <1>22, <1>9, <1>11, <1>14, <1>y, <2>1, ReadsBoth
<1>16. Reads(z, <<c.col>> \o <<c.op>> \o <<Trim(c.low)>> \o ts, Gap)
  <2>1. <<c.col>> \o <<c.op>> \o <<Trim(c.low)>> \in Seq(AnyText)
    BY <1>9, JoinText
  <2> QED
    BY <1>23, <1>9, <1>12, <1>15, <1>z, <2>1, ReadsBoth
<1>17. z = Spell(c, quote, gap)
  BY <1>1, <1>p, <1>v, <1>h, <1>x, <1>y, <1>z, Zenon
<1> QED
  BY <1>10, <1>13, <1>16, <1>17, <1>t, Zenon

(* Where the tokens of the conditions are.                                   *)
IsBetween(c) == c.op = <<"BETWEEN">>
At(ts, p, c) ==
  /\ ts[p] = c.col /\ ts[p + 1] = c.op /\ ts[p + 2] = Trim(c.low)
  /\ IsBetween(c) => ts[p + 3] = <<"AND">> /\ ts[p + 4] = Trim(c.high)
Start(a, k) == 4 * (k - 1) + 1 + 2 * Betweens(a, k - 1)
SaidBy(a, ts, k) ==
  /\ ts \in Seq(AnyText) /\ Len(ts) = Start(a, k + 1) - 2
  /\ \A j \in 1..k : At(ts, Start(a, j), a.conds[j])
  /\ \A j \in 1..k - 1 : ts[Start(a, j + 1) - 1] = <<a.joins[j]>>

LEMMA BetweensAre ==
  ASSUME NEW a, NEW k \in Nat
  PROVE  /\ Betweens(a, k) \in Nat /\ Betweens(a, 0) = 0
         /\ Betweens(a, k + 1) = Betweens(a, k) + IF IsBetween(a.conds[k + 1]) THEN 1 ELSE 0
<1> DEFINE B(n) == {j \in 1..n : a.conds[j].op = <<"BETWEEN">>}
<1>1. \A n \in Nat : IsFiniteSet(B(n)) /\ Cardinality(B(n)) \in Nat
  <2> SUFFICES ASSUME NEW n \in Nat PROVE IsFiniteSet(B(n)) /\ Cardinality(B(n)) \in Nat
    OBVIOUS
  <2>1. IsFiniteSet(1..n)
    BY FS_Interval
  <2>2. IsFiniteSet(B(n))
    BY <2>1, FS_Subset
  <2> QED
    BY <2>2, FS_CardinalityType
<1>2. B(0) = {}
  OBVIOUS
<1>3. Cardinality(B(0)) = 0
  BY <1>2, FS_EmptySet
<1>4. CASE IsBetween(a.conds[k + 1])
  <2>1. B(k + 1) = B(k) \cup {k + 1} /\ k + 1 \notin B(k)
    <3>1. 1..k + 1 = (1..k) \cup {k + 1} /\ k + 1 \notin 1..k
      OBVIOUS
    <3> QED
      BY <1>4, <3>1 DEF IsBetween
  <2>2. Cardinality(B(k + 1)) = Cardinality(B(k)) + 1
    <3> HIDE DEF B
    <3> QED
      BY <1>1, <2>1, FS_AddElement
  <2> QED
    BY <1>1, <1>3, <1>4, <2>2 DEF Betweens
<1>5. CASE ~IsBetween(a.conds[k + 1])
  <2>1. B(k + 1) = B(k)
    <3>1. 1..k + 1 = (1..k) \cup {k + 1}
      OBVIOUS
    <3> QED
      BY <1>5, <3>1 DEF IsBetween
  <2>2. Betweens(a, k + 1) = Betweens(a, k)
    BY <2>1, Zenon DEF Betweens
  <2>3. Betweens(a, k) \in Nat /\ Betweens(a, 0) = 0
    BY <1>1, <1>3 DEF Betweens
  <2> QED
    BY <1>5, <2>2, <2>3
<1> QED
  BY <1>4, <1>5

LEMMA BetweensGrow ==
  ASSUME NEW a, NEW k \in Nat, NEW j \in 0..k
  PROVE  Betweens(a, j) <= Betweens(a, k)
<1> DEFINE B(n) == {l \in 1..n : a.conds[l].op = <<"BETWEEN">>}
<1>1. IsFiniteSet(B(k))
  <2>1. IsFiniteSet(1..k)
    BY FS_Interval
  <2> QED
    BY <2>1, FS_Subset
<1>2. B(j) \subseteq B(k)
  OBVIOUS
<1>3. Cardinality(B(j)) <= Cardinality(B(k))
  <2> HIDE DEF B
  <2> QED
    BY <1>1, <1>2, FS_Subset
<1> QED
  BY <1>3 DEF Betweens

LEMMA StartIs ==
  ASSUME NEW a, NEW k \in Nat \ {0}
  PROVE  /\ Start(a, k) \in Nat \ {0} /\ Start(a, 1) = 1
         /\ Start(a, k + 1) = Start(a, k) + IF IsBetween(a.conds[k]) THEN 6 ELSE 4
<1>1. k - 1 \in Nat /\ (k - 1) + 1 = k /\ (k + 1) - 1 = k /\ 1 - 1 = 0
  OBVIOUS
<1> PICK l \in Nat : l = k - 1
  BY <1>1
<1>2. Betweens(a, l) \in Nat /\ Betweens(a, 0) = 0
  BY BetweensAre
<1>3. Betweens(a, l + 1) = Betweens(a, l) + IF IsBetween(a.conds[l + 1]) THEN 1 ELSE 0
  BY BetweensAre
<1> QED
  BY <1>1, <1>2, <1>3 DEF Start

LEMMA StartBefore ==
  ASSUME NEW a, NEW n \in Nat, NEW k \in 1..n
  PROVE  /\ Start(a, k) + (IF IsBetween(a.conds[k]) THEN 4 ELSE 2) <= Start(a, n + 1) - 2
         /\ k < n => Start(a, k + 1) <= Start(a, n + 1) - 4
<1>1. Betweens(a, k) \in Nat /\ Betweens(a, n) \in Nat /\ Betweens(a, k) <= Betweens(a, n)
  BY BetweensAre, BetweensGrow
<1>2. (k + 1) - 1 = k /\ (n + 1) - 1 = n
  OBVIOUS
<1>3. Start(a, k + 1) <= Start(a, n + 1) /\ (k < n => Start(a, k + 1) <= Start(a, n + 1) - 4)
  BY <1>1, <1>2 DEF Start
<1>4. /\ Start(a, k) \in Nat \ {0}
      /\ Start(a, k + 1) = Start(a, k) + IF IsBetween(a.conds[k]) THEN 6 ELSE 4
  BY StartIs
<1>5. Start(a, n + 1) \in Nat
  BY StartIs
<1> QED
  BY <1>3, <1>4, <1>5

LEMMA CondTokensAre ==
  ASSUME NEW c, Askable(c)
  PROVE  /\ CondTokens(c) \in Seq(AnyText)
         /\ Len(CondTokens(c)) = IF IsBetween(c) THEN 5 ELSE 3
         /\ At(CondTokens(c), 1, c)
<1>1. \A v \in {c.col, c.op, c.low, c.high} : v \in AnyText /\ Trim(v) \in AnyText
  <2> SUFFICES ASSUME NEW v \in Seq(STRING) PROVE v \in AnyText /\ Trim(v) \in AnyText
    BY DEF Askable
  <2>1. v \in Seq(Symbol)
    BY DEF Symbol
  <2> QED
    BY <2>1, TrimText DEF AnyText
<1>2. <<"AND">> \in AnyText
  BY DEF AnyText, Symbol
<1> PICK p, q, r, s \in AnyText : p = c.col /\ q = c.op /\ r = Trim(c.low) /\ s = Trim(c.high)
  BY <1>1
<1>3. CASE IsBetween(c)
  <2>1. CondTokens(c) = <<p>> \o <<q>> \o <<r>> \o (<<<<"AND">>>> \o <<s>>)
    BY <1>3 DEF CondTokens, IsBetween
  <2>2. \A t \in AnyText : LET u == <<p>> \o <<q>> \o <<r>> \o (<<t>> \o <<s>>)
        IN  /\ u \in Seq(AnyText) /\ Len(u) = 5
            /\ u[1] = p /\ u[2] = q /\ u[3] = r /\ u[4] = t /\ u[5] = s
    OBVIOUS
  <2> QED
    BY <1>2, <1>3, <2>1, <2>2 DEF At
<1>4. CASE ~IsBetween(c)
  <2>1. CondTokens(c) = <<p>> \o <<q>> \o <<r>> \o << >>
    BY <1>4 DEF CondTokens, IsBetween
  <2>2. LET u == <<p>> \o <<q>> \o <<r>> \o << >>
        IN  u \in Seq(AnyText) /\ Len(u) = 3 /\ u[1] = p /\ u[2] = q /\ u[3] = r
    OBVIOUS
  <2> QED
    BY <1>4, <2>1, <2>2 DEF At
<1> QED
  BY <1>3, <1>4

(* One more condition.                                                       *)
LEMMA SaidFirst ==
  ASSUME NEW a, Askable(a.conds[1])
  PROVE  SaidBy(a, CondTokens(a.conds[1]), 1)
<1> PICK ts : ts = CondTokens(a.conds[1])
  OBVIOUS
<1>1. /\ ts \in Seq(AnyText) /\ Len(ts) = (IF IsBetween(a.conds[1]) THEN 5 ELSE 3) /\ At(ts, 1, a.conds[1])
  BY CondTokensAre
<1>2. Start(a, 1) = 1 /\ Start(a, 1 + 1) = 1 + IF IsBetween(a.conds[1]) THEN 6 ELSE 4
  BY StartIs
<1> QED
  BY <1>1, <1>2 DEF SaidBy

Extended(z, ts, y, x) ==
  /\ z = ts \o (<<y>> \o x) /\ Len(z) = Len(ts) + 1 + Len(x) /\ Len(x) \in Nat
  /\ \A j \in 1..Len(ts) : z[j] = ts[j]
  /\ z[Len(ts) + 1] = y
  /\ \A j \in 1..Len(x) : z[Len(ts) + 1 + j] = x[j]

LEMMA Longer ==
  ASSUME NEW S, NEW ts \in Seq(S), NEW y \in S, NEW x \in Seq(S)
  PROVE  \E z \in Seq(S) : Extended(z, ts, y, x)
<1>0. PICK m : m = Len(ts)
  OBVIOUS
<1>1. PICK v \in Seq(S) : v = <<y>> \o x
  <2>1. <<y>> \o x \in Seq(S)
    OBVIOUS
  <2> QED
    BY <2>1
<1>2. Len(v) = 1 + Len(x) /\ Len(x) \in Nat /\ v[1] = y /\ \A j \in 1..Len(x) : v[1 + j] = x[j]
  BY <1>1
<1>3. PICK z \in Seq(S) : z = ts \o v
  <2>1. ts \o v \in Seq(S)
    BY JoinText
  <2> QED
    BY <2>1
<1>4. Len(z) = m + Len(v) /\ (\A j \in 1..m : z[j] = ts[j]) /\ \A j \in 1..Len(v) : z[m + j] = v[j]
  BY <1>0, <1>3
<1>5. m \in Nat
  BY <1>0
<1>6. z[m + 1] = y
  BY <1>2, <1>4
<1>7. ASSUME NEW j \in 1..Len(x)
      PROVE  z[m + 1 + j] = x[j]
  <2>1. 1 + j \in 1..Len(v) /\ m + 1 + j = m + (1 + j)
    BY <1>2, <1>5
  <2>2. z[m + (1 + j)] = v[1 + j]
    BY <1>4, <2>1
  <2> QED
    BY <1>2, <2>1, <2>2
<1>8. Len(z) = m + 1 + Len(x)
  BY <1>2, <1>4, <1>5
<1> QED
  BY <1>0, <1>1, <1>2, <1>3, <1>4, <1>6, <1>7, <1>8, Zenon DEF Extended

LEMMA SaidMore ==
  ASSUME NEW a, NEW k \in Nat \ {0}, NEW ts, SaidBy(a, ts, k), Askable(a.conds[k + 1]),
         a.joins[k] \in {"AND", "OR"}
  PROVE  SaidBy(a, ts \o (<<<<a.joins[k]>>>> \o CondTokens(a.conds[k + 1])), k + 1)
<1> DEFINE c == a.conds[k + 1]
<1>1. PICK x \in Seq(AnyText) : x = CondTokens(c)
  BY CondTokensAre
<1>2. Len(x) = (IF IsBetween(c) THEN 5 ELSE 3) /\ At(x, 1, c)
  BY <1>1, CondTokensAre
<1>3. PICK y \in AnyText : y = <<a.joins[k]>>
  <2>1. a.joins[k] \in Symbol
    BY DEF Symbol
  <2>2. \A S : \A w \in S : <<w>> \in Seq(S)
    OBVIOUS
  <2> QED
    BY <2>1, <2>2, Zenon DEF AnyText
<1>4. ts \in Seq(AnyText) /\ Len(ts) = Start(a, k + 1) - 2
  BY DEF SaidBy
<1>5. PICK m \in Nat : m = Len(ts)
  BY <1>4
<1>6. PICK z \in Seq(AnyText) : Extended(z, ts, y, x)
  BY <1>4, Longer
<1>7. /\ Len(z) = m + 1 + Len(x) /\ Len(x) \in Nat
      /\ \A j \in 1..m : z[j] = ts[j]
      /\ z[m + 1] = y
      /\ \A j \in 1..Len(x) : z[m + 1 + j] = x[j]
  BY <1>5, <1>6, Zenon DEF Extended
<1>8. /\ Start(a, k + 1) = m + 2 /\ Start(a, k + 1) \in Nat
      /\ Start(a, k + 1 + 1) = Start(a, k + 1) + IF IsBetween(c) THEN 6 ELSE 4
  <2>1. k + 1 \in Nat \ {0}
    OBVIOUS
  <2>2. /\ Start(a, k + 1) \in Nat \ {0}
        /\ Start(a, k + 1 + 1) = Start(a, k + 1) + IF IsBetween(c) THEN 6 ELSE 4
    BY <2>1, StartIs
  <2> QED
    BY <1>4, <1>5, <2>2
<1>9. Len(z) = Start(a, k + 1 + 1) - 2
  BY <1>2, <1>7, <1>8
<1> HIDE <1>6
<1>10. At(z, m + 2, c)
  <2>1. z[m + 1 + 1] = x[1] /\ z[m + 1 + 2] = x[2] /\ z[m + 1 + 3] = x[3]
    <3>1. 1 \in 1..Len(x) /\ 2 \in 1..Len(x) /\ 3 \in 1..Len(x)
      BY <1>2
    <3> QED
      BY <1>7, <3>1
  <2>2. IsBetween(c) => z[m + 1 + 4] = x[4] /\ z[m + 1 + 5] = x[5]
    <3>1. IsBetween(c) => 4 \in 1..Len(x) /\ 5 \in 1..Len(x)
      BY <1>2
    <3> QED
      BY <1>7, <3>1
  <2>3. m + 1 + 1 = m + 2 /\ m + 1 + 2 = m + 2 + 1 /\ m + 1 + 3 = m + 2 + 2 /\ m + 1 + 4 = m + 2 + 3 /\ m + 1 + 5 = m + 2 + 4
    OBVIOUS
  <2>4. 1 + 1 = 2 /\ 1 + 2 = 3 /\ 1 + 3 = 4 /\ 1 + 4 = 5
    OBVIOUS
  <2>5. /\ x[1] = c.col /\ x[2] = c.op /\ x[3] = Trim(c.low)
        /\ IsBetween(c) => x[4] = <<"AND">> /\ x[5] = Trim(c.high)
    BY <1>2, <2>4, Zenon DEF At
  <2>6. /\ z[m + 2] = c.col /\ z[m + 2 + 1] = c.op /\ z[m + 2 + 2] = Trim(c.low)
    BY <2>1, <2>3, <2>5, Zenon
  <2>7. IsBetween(c) => z[m + 2 + 3] = <<"AND">> /\ z[m + 2 + 4] = Trim(c.high)
    BY <2>2, <2>3, <2>5, Zenon
  <2> QED
    BY <2>6, <2>7, Zenon DEF At
<1>11. ASSUME NEW j \in 1..k
       PROVE  At(z, Start(a, j), a.conds[j])
  <2>1. At(ts, Start(a, j), a.conds[j])
    BY DEF SaidBy
  <2>2. Start(a, j) + (IF IsBetween(a.conds[j]) THEN 4 ELSE 2) <= m /\ Start(a, j) \in Nat \ {0}
    <3>1. j \in Nat \ {0} /\ k \in Nat
      OBVIOUS
    <3>2. Start(a, j) + (IF IsBetween(a.conds[j]) THEN 4 ELSE 2) <= Start(a, k + 1) - 2
      BY <3>1, StartBefore
    <3>3. Start(a, j) \in Nat \ {0}
      BY <3>1, StartIs
    <3> QED
      BY <1>4, <1>5, <3>2, <3>3
  <2>3. PICK p \in Nat \ {0} : p = Start(a, j)
    BY <2>2
  <2>4. z[p] = ts[p] /\ z[p + 1] = ts[p + 1] /\ z[p + 2] = ts[p + 2]
    <3>1. p + 2 <= m /\ m \in Nat
      BY <2>2, <2>3
    <3>2. p \in 1..m /\ p + 1 \in 1..m /\ p + 2 \in 1..m
      BY <3>1
    <3> QED
      BY <1>7, <3>2
  <2>5. IsBetween(a.conds[j]) => z[p + 3] = ts[p + 3] /\ z[p + 4] = ts[p + 4]
    BY <1>7, <2>2, <2>3
  <2> QED
    BY <2>1, <2>3, <2>4, <2>5, Zenon DEF At
<1>12. ASSUME NEW j \in 1..k - 1
       PROVE  z[Start(a, j + 1) - 1] = <<a.joins[j]>>
  <2>1. ts[Start(a, j + 1) - 1] = <<a.joins[j]>>
    BY DEF SaidBy
  <2>2. Start(a, j + 1) - 1 \in 1..m
    <3>1. /\ Start(a, j) \in Nat \ {0}
          /\ Start(a, j + 1) = Start(a, j) + IF IsBetween(a.conds[j]) THEN 6 ELSE 4
      <4>1. j \in Nat \ {0}
        OBVIOUS
      <4> QED
        BY <4>1, StartIs
    <3>2. Start(a, j + 1) <= Start(a, k + 1) - 4
      <4>1. j \in 1..k /\ j < k /\ k \in Nat
        OBVIOUS
      <4> QED
        BY <4>1, StartBefore
    <3>3. Start(a, j + 1) \in Nat /\ Start(a, j + 1) >= 5
      BY <3>1
    <3> QED
      BY <1>8, <3>2, <3>3
  <2> QED
    BY <1>7, <2>1, <2>2
<1>13. z[Start(a, k + 1) - 1] = <<a.joins[k]>>
  <2>1. Start(a, k + 1) - 1 = m + 1
    BY <1>8
  <2> QED
    BY <1>3, <1>7, <2>1
<1>14. \A j \in 1..k + 1 : At(z, Start(a, j), a.conds[j])
  <2>1. \A j \in 1..k + 1 : j \in 1..k \/ j = k + 1
    OBVIOUS
  <2> QED
    BY <1>8, <1>10, <1>11, <2>1
<1>15. \A j \in 1..(k + 1) - 1 : z[Start(a, j + 1) - 1] = <<a.joins[j]>>
  <2>1. \A j \in 1..(k + 1) - 1 : j \in 1..k - 1 \/ j = k
    OBVIOUS
  <2> QED
    BY <1>12, <1>13, <2>1, Zenon
<1>16. SaidBy(a, z, k + 1)
  BY <1>9, <1>14, <1>15 DEF SaidBy
<1> QED
  BY <1>1, <1>3, <1>6, <1>16, Zenon DEF Extended

LEMMA AskedIs ==
  ASSUME NEW a \in Asked
  PROVE  /\ Len(a.conds) \in Nat \ {0} /\ \A k \in 1..Len(a.conds) : Askable(a.conds[k])
         /\ a.joins \in Seq({"AND", "OR"}) /\ Len(a.joins) = Len(a.conds) - 1
<1>1. /\ a.conds # << >> /\ Len(a.conds) \in Nat /\ \A k \in 1..Len(a.conds) : Askable(a.conds[k])
      /\ a.joins \in Seq({"AND", "OR"}) /\ Len(a.joins) = Len(a.conds) - 1
  BY AskedAssumption, Zenon DEF AskedAssumption
<1>2. Len(a.joins) \in Nat
  BY <1>1
<1> QED
  BY <1>1, <1>2

LEMMA ReadsAll ==
  ASSUME NEW a \in Asked, NEW quote \in Marks(a), NEW gap \in {<< >>, <<Blank>>}
  PROVE  LET s == SpellAll(a, quote, gap)
         IN  /\ SaidBy(a, Tokens(s), Len(a.conds))
             /\ s \in AnyText /\ s # << >> /\ s[1] = a.conds[1].col[1]
<1>0. PICK n \in Nat \ {0} : n = Len(a.conds)
  BY AskedIs
<1> DEFINE join(k) == IF k = 1 THEN << >> ELSE <<Blank, a.joins[k - 1], Blank>>
           spelled(k) == Spell(a.conds[k], quote, gap)
           B == [k \in 1..n |-> join(k) \o spelled(k)]
<1>1. SpellAll(a, quote, gap) = FlattenSeq(B)
  BY <1>0, Zenon DEF SpellAll
<1>2. \A k \in 1..n : Askable(a.conds[k]) /\ (k < n => a.joins[k] \in {"AND", "OR"})
  BY <1>0, AskedIs
<1>3. \A k \in 1..n : /\ spelled(k) \in AnyText /\ spelled(k) # << >> /\ spelled(k)[1] = a.conds[k].col[1]
                      /\ Reads(spelled(k), CondTokens(a.conds[k]), Gap)
  <2> SUFFICES ASSUME NEW k \in 1..n
               PROVE  LET s == Spell(a.conds[k], quote, gap)
                      IN  s \in AnyText /\ s # << >> /\ s[1] = a.conds[k].col[1] /\ Reads(s, CondTokens(a.conds[k]), Gap)
    BY Zenon
  <2>1. quote = <<Quote>> \/ (quote = << >> /\ \A v \in Range(Values(a.conds[k])) : IsBare(v))
    <3>1. quote = <<Quote>> \/ (quote = << >> /\ \A l \in 1..Len(a.conds) : \A v \in Range(Values(a.conds[l])) : IsBare(v))
      BY DEF Marks
    <3> QED
      BY <1>0, <3>1
  <2> QED
    BY <1>2, <2>1, ReadsCond
<1>4. \A k \in 1..n : B[k] = join(k) \o spelled(k)
  OBVIOUS
<1>5. PICK f : Flat(B, n, f) /\ FlattenSeq(B) = f[n]
  <2>1. Len(B) = n /\ n > 0 /\ n \in Nat
    OBVIOUS
  <2> HIDE DEF B
  <2> QED
    BY <2>1, FlattenIs
<1>6. \A k \in 1..n : f[k] = IF k = 1 THEN B[k] ELSE f[k - 1] \o B[k]
  <2> HIDE DEF B
  <2> QED
    BY <1>5, FlatAt
<1> DEFINE P(k) == \E ts : /\ SaidBy(a, ts, k) /\ Reads(f[k], ts, Gap)
                           /\ f[k] \in AnyText /\ f[k] # << >> /\ f[k][1] = a.conds[1].col[1]
           G == {k \in 0..n : k = 0 \/ P(k)}
<1> HIDE DEF B, spelled
<1>7. P(1)
  <2>1. f[1] = spelled(1)
    <3>1. 1 \in 1..n
      OBVIOUS
    <3>2. f[1] = << >> \o spelled(1)
      BY <1>4, <1>6, <3>1
    <3> QED
      BY <1>3, <3>1, <3>2, NothingBefore DEF AnyText
  <2>2. 1 \in 1..n
    OBVIOUS
  <2>3. SaidBy(a, CondTokens(a.conds[1]), 1)
    BY <1>2, <2>2, SaidFirst
  <2> QED
    BY <1>3, <2>1, <2>2, <2>3
<1>8. ASSUME NEW k \in 1..n, k < n, P(k)
      PROVE  P(k + 1)
  <2>1. PICK ts : /\ SaidBy(a, ts, k) /\ Reads(f[k], ts, Gap)
                  /\ f[k] \in AnyText /\ f[k] # << >> /\ f[k][1] = a.conds[1].col[1]
    BY <1>8
  <2>2. k + 1 \in 1..n /\ k + 1 # 1 /\ (k + 1) - 1 = k /\ k \in Nat \ {0}
    BY <1>8
  <2>3. PICK x \in {"AND", "OR"} : x = a.joins[k]
    BY <1>2, <1>8
  <2>4. PICK w \in AnyText : w = spelled(k + 1) /\ Reads(w, CondTokens(a.conds[k + 1]), Gap)
    BY <1>3, <2>2
  <2>5. PICK ct \in Seq(AnyText) : ct = CondTokens(a.conds[k + 1])
    BY <1>2, <2>2, CondTokensAre
  <2>6. PICK b : b = <<Blank, x, Blank>> \o w
    OBVIOUS
  <2>7. b \in AnyText /\ Reads(b, <<<<x>>>> \o ct, Gap) /\ \A u \in Gap : b \o u \in Gap
    BY <2>4, <2>5, <2>6, ReadsAfter
  <2>8. f[k + 1] = f[k] \o b
    <3>1. f[k + 1] = f[k] \o B[k + 1]
      BY <1>6, <2>2
    <3>2. B[k + 1] = <<Blank, x, Blank>> \o w
      BY <1>4, <2>2, <2>3, <2>4
    <3> QED
      BY <2>6, <3>1, <3>2, Zenon
  <2>9. PICK y \in Seq(AnyText) : y = <<<<x>>>> \o ct
    <3>1. <<x>> \in AnyText
      BY DEF AnyText, Symbol
    <3>2. <<<<x>>>> \in Seq(AnyText)
      BY <3>1
    <3>3. <<<<x>>>> \o ct \in Seq(AnyText)
      BY <3>2, JoinText
    <3> QED
      BY <3>3
  <2>10. ts \in Seq(AnyText) /\ Gap \in SUBSET AnyText
    BY <2>1 DEF SaidBy, Gap
  <2>11. Reads(b, y, Gap)
    BY <2>7, <2>9, Zenon
  <2>12. Reads(f[k] \o b, ts \o y, Gap)
    BY <2>1, <2>7, <2>10, <2>11, ReadsBoth
  <2>13. SaidBy(a, ts \o y, k + 1)
    <3>1. SaidBy(a, ts \o (<<<<a.joins[k]>>>> \o CondTokens(a.conds[k + 1])), k + 1)
      BY <1>2, <2>1, <2>2, <2>3, SaidMore
    <3> QED
      BY <2>3, <2>5, <2>9, <3>1, Zenon
  <2>14. f[k] \o b \in AnyText /\ f[k] \o b # << >> /\ (f[k] \o b)[1] = f[k][1]
    BY <2>1, <2>7, FirstIs DEF AnyText
  <2> QED
    BY <2>1, <2>8, <2>12, <2>13, <2>14, Zenon
<1> HIDE DEF P
<1>9. P(n)
  <2>1. \A k \in 0..n : (\A l \in 0..k - 1 : l \in G) => k \in G
    <3> SUFFICES ASSUME NEW k \in 0..n, \A l \in 0..k - 1 : l \in G, k # 0
                 PROVE  P(k)
      OBVIOUS
    <3>1. CASE k = 1
      BY <1>7, <3>1
    <3>2. CASE k # 1
      <4>1. k - 1 \in 0..k - 1 /\ k - 1 \in 1..n /\ k - 1 < n /\ (k - 1) + 1 = k /\ k - 1 # 0
        BY <3>2
      <4>2. P(k - 1)
        BY <4>1
      <4> QED
        BY <1>8, <4>1, <4>2
    <3> QED
      BY <3>1, <3>2
  <2> HIDE DEF G
  <2>2. n \in 0..n /\ n \in Nat
    OBVIOUS
  <2>3. n \in G
    BY <2>1, <2>2, UpTo
  <2> QED
    BY <2>3 DEF G
<1>10. PICK ts : /\ SaidBy(a, ts, n) /\ Reads(f[n], ts, Gap)
                 /\ f[n] \in AnyText /\ f[n] # << >> /\ f[n][1] = a.conds[1].col[1]
  BY <1>9 DEF P
<1>11. Tokens(f[n]) = ts
  <2>1. << >> \in Gap /\ ts \in Seq(AnyText)
    BY <1>10 DEF Gap, AnyText, SaidBy
  <2>2. Tokens(f[n] \o << >>) = ts \o Tokens(<< >>)
    BY <1>10, <2>1 DEF Reads
  <2>3. f[n] \o << >> = f[n]
    BY <1>10, NothingBefore DEF AnyText
  <2>4. ts \o << >> = ts
    BY <2>1, NothingBefore
  <2> QED
    BY <2>2, <2>3, <2>4, TokensEmpty, Zenon
<1> QED
  BY <1>0, <1>1, <1>5, <1>10, <1>11, Zenon

LEMMA ClauseText ==
  ASSUME text \in Seq(Symbol)
  PROVE  Clause \in Seq(Symbol)
<1> DEFINE s == LTrim(text)
<1>1. s \in Seq(Symbol)
  <2> DEFINE solid == {j \in 1..Len(text) : text[j] # Blank}
  <2>1. s = IF solid = {} THEN << >> ELSE SubSeq(text, Min(solid), Len(text))
    BY Zenon DEF LTrim
  <2>2. solid \in SUBSET Nat /\ \A j \in solid : j > 0
    OBVIOUS
  <2> HIDE DEF solid, s
  <2>3. CASE solid = {}
    BY <2>1, <2>3
  <2>4. CASE solid # {}
    <3>1. Min(solid) \in Nat \ {0}
      <4>1. PICK m \in solid : m = Min(solid)
        BY <2>2, <2>4, Least
      <4> QED
        BY <2>2, <4>1
    <3>2. SubSeq(text, Min(solid), Len(text)) \in Seq(Symbol)
      BY <3>1, PartOf
    <3> QED
      BY <2>1, <2>4, <3>2
  <2> QED
    BY <2>3, <2>4
<1>2. Clause = IF s # << >> /\ Head(s) = "WHERE" THEN Tail(s) ELSE text
  BY Zenon DEF Clause
<1> HIDE DEF s
<1>3. s # << >> => Tail(s) \in Seq(Symbol)
  BY <1>1
<1> QED
  BY <1>2, <1>3, Zenon

LEMMA AskedText ==
  ASSUME NEW t, t \in Texts \cup {NoText} \/ \E a \in Asked : t \in Spellings(a)
  PROVE  t \in Seq(Symbol)
<1>1. CASE t \in Texts
  BY <1>1, WhereAssumption DEF WhereAssumption, Symbol
<1>2. CASE t = NoText
  BY <1>2 DEF NoText, Symbol
<1>3. CASE \E a \in Asked : t \in Spellings(a)
  <2>1. PICK a \in Asked : t \in Spellings(a)
    BY <1>3
  <2>2. \A s \in Said(a) : s \in AnyText
    BY ReadsAll DEF Said
  <2>3. <<"WHERE", Blank>> \in Seq(Symbol)
    BY DEF Symbol
  <2>4. t \in Said(a) \/ \E s \in Said(a) : t = <<"WHERE", Blank>> \o s
    BY <2>1 DEF Spellings
  <2> QED
    BY <2>2, <2>3, <2>4, JoinText DEF AnyText
<1> QED
  BY <1>1, <1>2, <1>3
-----------------------------------------------------------------------------
(* The parser and the loop of where_match, by one invariant.                *)
USE LexisAssumption DEF LexisAssumption

IInv == TypeOK /\ Covers /\ ReadInv /\ LoopInv

LEMMA HoldsIsBoolean == \A p : HoldsAt(p) \in BOOLEAN
BY Zenon DEF HoldsAt

LEMMA BetweenIsAlone == <<"BETWEEN">> \notin Comparisons \cup {<<"LIKE">>}
<1>1. \A x : <<x>> = <<"BETWEEN">> => x = "BETWEEN"
  OBVIOUS
<1>2. \A x, y : <<x, y>> # <<"BETWEEN">>
  OBVIOUS
<1>3. QED
  BY <1>1, <1>2 DEF Comparisons

LEMMA InitInv == Init => IInv
<1> SUFFICES ASSUME Init
             PROVE  IInv
  OBVIOUS
<1>1. TypeOK
  <2>1. anyOr \in BOOLEAN /\ current \in BOOLEAN
    BY Zenon DEF Init
  <2>2. QED
    BY <2>1 DEF Init, TypeOK
<1>2. Covers /\ ReadInv
  BY DEF Init, Covers, ReadInv
<1>3. LoopInv
  BY DEF Init, LoopInv
<1>4. QED
  BY <1>1, <1>2, <1>3 DEF IInv

LEMMA StepFlags == TypeOK /\ [Next]_vars => anyOr' \in BOOLEAN /\ current' \in BOOLEAN
<1> SUFFICES ASSUME TypeOK, [Next]_vars
             PROVE  anyOr' \in BOOLEAN /\ current' \in BOOLEAN
  OBVIOUS
<1>1. anyOr \in BOOLEAN /\ current \in BOOLEAN
  BY Zenon DEF TypeOK
<1>2. CASE EvalCond
  BY Zenon, <1>1, <1>2, HoldsIsBoolean DEF EvalCond, Holds
<1>3. CASE StartMatch
  BY Zenon, <1>3 DEF StartMatch
<1>4. CASE UNCHANGED <<anyOr, current>>
  BY Zenon, <1>1, <1>4
<1>5. QED
  BY Zenon, <1>2, <1>3, <1>4 DEF Next, Tokenize, ReadCond, EndMatch, vars

LEMMA StepTyped == TypeOK /\ ReadInv /\ [Next]_vars => TypeOK'
<1> SUFFICES ASSUME TypeOK, ReadInv, [Next]_vars
             PROVE  TypeOK'
  OBVIOUS
<1>0. anyOr' \in BOOLEAN /\ current' \in BOOLEAN
  BY StepFlags
<1> USE DEF TypeOK, parseVars
<1>1. CASE Tokenize
  <2>1. /\ UNCHANGED <<conds, logic, pos, i>>
        /\ \/ phase' = "parsed" /\ tokens' = tokens
           \/ phase' = "refused"
           \/ phase' = "conds" /\ TokensFit(tokens')
    BY <1>1 DEF Tokenize
  <2>2. phase = "text" /\ conds = << >> /\ tokens = << >>
    BY <1>1 DEF Tokenize, ReadInv
  <2>3. QED
    BY <1>0, <2>1, <2>2 DEF TokensFit
<1>2. CASE ReadCond
  <2> USE <1>0 DEF ReadInv
  <2> DEFINE next == pos + CondLength(pos)
             more == CondOk(pos) /\ next <= Len(tokens)
  <2>1. next \in Nat \ {0} /\ next + 1 \in Nat \ {0}
    BY DEF CondLength
  <2>6. phase = "conds" /\ tokens' = tokens /\ i' = i
    BY <1>2 DEF ReadCond
  <2> HIDE DEF next, more
  <2>2. CASE /\ Len(conds) < MaxConds
             /\ conds' = Append(conds, pos) /\ pos' = next
             /\ phase' = "parsed" /\ UNCHANGED logic
    BY <2>1, <2>2, <2>6
  <2>3. CASE /\ Len(conds) + 1 < MaxConds
             /\ conds' = Append(conds, pos) /\ pos' = next + 1
             /\ logic' = Append(logic, IF tokens[next] = <<"AND">> THEN "AND" ELSE "OR")
             /\ phase' = IF next + 1 <= Len(tokens) THEN "conds" ELSE "parsed"
    BY <2>1, <2>3, <2>6
  <2>4. CASE phase' = "refused" /\ UNCHANGED <<conds, logic, pos>>
    BY <2>4, <2>6
  <2>5. QED
    BY <1>2, <2>2, <2>3, <2>4 DEF ReadCond, next, more
<1>3. CASE StartMatch
  <2>1. UNCHANGED <<conds, logic, pos, tokens>> /\ i' = 1
    BY Zenon, <1>3 DEF StartMatch
  <2>2. phase \in {"parsed", "matched"} /\ phase' = "match"
    BY Zenon, <1>3 DEF StartMatch
  <2>3. QED
    BY <1>0, <2>1, <2>2
<1>4. CASE EvalCond
  BY <1>0, <1>4 DEF EvalCond
<1>5. CASE EndMatch
  <2>1. UNCHANGED <<conds, logic, pos, tokens, i>> /\ phase = "match" /\ phase' = "matched"
    BY Zenon, <1>5 DEF EndMatch
  <2>2. QED
    BY <1>0, <2>1
<1>6. CASE UNCHANGED vars
  BY <1>6 DEF vars
<1>7. QED
  BY <1>1, <1>2, <1>3, <1>4, <1>5, <1>6 DEF Next

(* The same for the parser: what ReadCond appends continues what is there. *)
LEMMA ReadCondCovers == TypeOK /\ Covers /\ ReadInv /\ ReadCond => Covers' /\ ReadInv'
<1> SUFFICES ASSUME TypeOK, Covers, ReadInv, ReadCond
             PROVE  Covers' /\ ReadInv'
  OBVIOUS
<1> PICK next : next = pos + CondLength(pos)
  OBVIOUS
<1>0. Len(conds) \in Nat
  BY DEF TypeOK
<1> PICK n \in Nat : n = Len(conds)
  BY <1>0
<1>1. next \in Nat /\ pos \in Nat
  BY DEF CondLength, TypeOK
<1>2. CondOk(pos) => next - 1 <= Len(tokens)
  <2>1. CASE tokens[pos + 1] = <<"BETWEEN">>
    BY <1>1, <2>1, BetweenIsAlone DEF CondLength, CondOk
  <2>2. CASE tokens[pos + 1] # <<"BETWEEN">>
    BY <1>1, <2>2 DEF CondLength, CondOk
  <2>3. QED
    BY <2>1, <2>2
<1>3. tokens' = tokens /\ phase = "conds" /\ Len(logic) = n
  BY DEF ReadCond, ReadInv
<1>4. pos = IF n = 0 THEN 1 ELSE AfterCond(n) + 1
  BY <1>3 DEF ReadInv, TypeOK
<1>5. \A k \in 1..n : conds[k] = IF k = 1 THEN 1 ELSE AfterCond(k - 1) + 1
  BY DEF Covers
<1>6. \A k \in 1..n : tokens[AfterCond(k)] = <<logic[k]>>
  BY <1>3 DEF Covers
<1>7. ASSUME conds' = Append(conds, pos)
      PROVE  /\ Len(conds') = n + 1 /\ conds'[n + 1] = pos
             /\ AfterCond(n + 1)' = next
             /\ \A k \in 1..n : AfterCond(k)' = AfterCond(k)
             /\ \A k \in 1..n + 1 : conds'[k] = IF k = 1 THEN 1 ELSE AfterCond(k - 1)' + 1
  <2>1. Len(conds') = n + 1 /\ conds'[n + 1] = pos /\ \A k \in 1..n : conds'[k] = conds[k]
    BY <1>7, <1>1 DEF TypeOK
  <2>2. AfterCond(n + 1)' = next /\ \A k \in 1..n : AfterCond(k)' = AfterCond(k)
    BY <1>3, <2>1 DEF AfterCond, CondLength
  <2>3. ASSUME NEW k \in 1..n
        PROVE  conds'[k] = IF k = 1 THEN 1 ELSE AfterCond(k - 1)' + 1
    BY <1>5, <2>1, <2>2
  <2>4. conds'[n + 1] = IF n + 1 = 1 THEN 1 ELSE AfterCond(n + 1 - 1)' + 1
    BY <1>4, <2>1, <2>2
  <2>5. QED
    BY <2>1, <2>2, <2>3, <2>4
<1>8. CASE phase' = "refused" /\ UNCHANGED <<conds, logic, pos>>
  BY <1>3, <1>5, <1>6, <1>8 DEF Covers, ReadInv, AfterCond, CondLength
<1>9. CASE /\ CondOk(pos) /\ ~(next <= Len(tokens))
           /\ conds' = Append(conds, pos)
           /\ phase' = "parsed" /\ UNCHANGED logic
  <2>1. LastRead' = next - 1
    BY <1>1, <1>3, <1>7, <1>9 DEF LastRead
  <2>2. next - 1 + 1 = next
    BY <1>1
  <2>3. QED
    BY <1>2, <1>3, <1>6, <1>7, <1>9, <2>1, <2>2 DEF Covers, ReadInv
<1>10. CASE /\ next <= Len(tokens) /\ Connects(next)
            /\ conds' = Append(conds, pos) /\ pos' = next + 1
            /\ logic' = Append(logic, IF tokens[next] = <<"AND">> THEN "AND" ELSE "OR")
            /\ phase' = IF next + 1 <= Len(tokens) THEN "conds" ELSE "parsed"
  <2>1. /\ Len(logic') = n + 1 /\ \A k \in 1..n : logic'[k] = logic[k]
        /\ tokens[next] = <<logic'[n + 1]>>
    BY <1>3, <1>10 DEF Connects, TypeOK
  <2>2. \A k \in 1..n + 1 : tokens'[AfterCond(k)'] = <<logic'[k]>>
    <3>1. \A k \in 1..n : tokens'[AfterCond(k)'] = <<logic'[k]>>
      BY <1>3, <1>6, <1>7, <1>10, <2>1
    <3>2. tokens'[AfterCond(n + 1)'] = <<logic'[n + 1]>>
      BY <1>3, <1>7, <1>10, <2>1
    <3>3. QED
      BY <3>1, <3>2
  <2>3. LastRead' = next
    BY <1>1, <1>7, <1>10, <2>1 DEF LastRead
  <2>4. Covers'
    BY <1>3, <1>7, <1>10, <2>1, <2>2, <2>3 DEF Covers
  <2>5. conds' # << >>
    BY <1>7, <1>10
  <2>6. QED
    BY <1>7, <1>10, <2>1, <2>4, <2>5 DEF ReadInv
<1>11. QED
  BY <1>8, <1>9, <1>10 DEF ReadCond

LEMMA StepRead == TypeOK /\ Covers /\ ReadInv /\ [Next]_vars => Covers' /\ ReadInv'
<1> SUFFICES ASSUME TypeOK, Covers, ReadInv, [Next]_vars
             PROVE  Covers' /\ ReadInv'
  OBVIOUS
<1>1. CASE Tokenize
  BY <1>1 DEF Tokenize, TypeOK, Covers, ReadInv
<1>2. CASE ReadCond
  BY <1>2, ReadCondCovers
<1> USE DEF Covers, ReadInv, AfterCond, LastRead, CondLength, parseVars
<1>3. CASE StartMatch
  BY <1>3 DEF StartMatch
<1>4. CASE EvalCond
  BY <1>4 DEF EvalCond
<1>5. CASE EndMatch
  BY <1>5 DEF EndMatch
<1>6. CASE UNCHANGED vars
  BY <1>6 DEF vars
<1>7. QED
  BY <1>1, <1>2, <1>3, <1>4, <1>5, <1>6 DEF Next

(* The loop of where_match.  A run that reaches condition i either extends  *)
(* one that reached i - 1 or is condition i alone.                          *)
LEMMA RunExtends ==
  ASSUME TypeOK, i <= Len(conds)
  PROVE  /\ \A a \in 1..i - 1 : Run(a, i) <=> Run(a, i - 1) /\ logic[i - 1] = "AND" /\ Holds(i)
         /\ Run(i, i) <=> Begins(i) /\ Holds(i)
         /\ After(i - 1) = "AND" => i > 1 /\ logic[i - 1] = "AND" /\ ~Begins(i)
         /\ After(i - 1) # "AND" => i = 1 \/ logic[i - 1] = "OR"
<1>1. i \in Nat /\ i >= 1 /\ (i > 1 => i - 1 \in 1..Len(logic))
  BY DEF TypeOK
<1>2. ASSUME NEW a \in 1..i - 1
      PROVE  Run(a, i) <=> Run(a, i - 1) /\ logic[i - 1] = "AND" /\ Holds(i)
  <2>1. a..i = (a..i - 1) \cup {i} /\ a..i - 1 = (a..i - 1 - 1) \cup {i - 1}
    BY <1>1
  <2>2. QED
    BY <2>1 DEF Run, Joined, AllHold
<1>3. Run(i, i) <=> Begins(i) /\ Holds(i)
  <2>1. i..i = {i} /\ i..i - 1 = {}
    BY <1>1
  <2>2. QED
    BY <2>1 DEF Run, Joined, AllHold
<1>4. i > 1 => logic[i - 1] \in {"AND", "OR"}
  BY <1>1 DEF TypeOK
<1>5. QED
  BY <1>1, <1>2, <1>3, <1>4 DEF After, Begins

LEMMA StepLoop == TypeOK /\ LoopInv /\ [Next]_vars => LoopInv'
<1> SUFFICES ASSUME TypeOK, LoopInv, [Next]_vars
             PROVE  LoopInv'
  OBVIOUS
<1> USE DEF parseVars
<1>1. CASE phase' \notin {"match", "matched"}
  BY <1>1 DEF LoopInv
<1>2. CASE StartMatch
  BY <1>2 DEF StartMatch, LoopInv
<1>3. CASE EvalCond
  <2>1. UNCHANGED <<conds, logic, tokens, row, atol, phase>>
    BY <1>3 DEF EvalCond
  <2>2. \A a, b : Run(a, b)' <=> Run(a, b)
    BY <2>1 DEF Run, Begins, Joined, AllHold, Holds, HoldsAt, Less, Atol
  <2>3. i \in Nat /\ i' = i + 1 /\ i <= Len(conds) /\ phase = "match"
    BY <1>3 DEF EvalCond, TypeOK
  <2>4. CASE After(i - 1) = "AND"
    <3>1. (current' <=> current /\ Holds(i)) /\ anyOr' = anyOr
      BY Zenon, <1>3, <2>4 DEF EvalCond
    <3>2. current' <=> \E a \in 1..i : Run(a, i)
      BY <2>3, <2>4, <3>1, RunExtends DEF LoopInv
    <3>3. anyOr' <=> \E b \in 1..i - 1 : logic[b] = "OR" /\ \E a \in 1..b : Run(a, b)
      BY <2>3, <2>4, <3>1, RunExtends DEF LoopInv
    <3>4. QED
      BY <2>1, <2>2, <2>3, <3>2, <3>3 DEF LoopInv
  <2>5. CASE After(i - 1) # "AND"
    <3>1. (current' <=> Holds(i)) /\ (anyOr' <=> anyOr \/ current)
      BY Zenon, <1>3, <2>5 DEF EvalCond
    <3>2. current' <=> \E a \in 1..i : Run(a, i)
      <4>1. Begins(i) /\ (i > 1 => logic[i - 1] # "AND")
        BY <2>3, <2>5, RunExtends DEF Begins
      <4>2. Run(i, i) <=> Holds(i)
        BY <2>3, <4>1, RunExtends
      <4>3. \A a \in 1..i - 1 : ~Run(a, i)
        BY <2>3, <4>1, RunExtends
      <4>4. i \in 1..i /\ \A a \in 1..i : a \in 1..i - 1 \/ a = i
        BY <2>3 DEF TypeOK
      <4>5. QED
        BY Zenon, <3>1, <4>2, <4>3, <4>4
    <3>3. anyOr' <=> \E b \in 1..i - 1 : logic[b] = "OR" /\ \E a \in 1..b : Run(a, b)
      BY <2>3, <2>5, <3>1, RunExtends DEF LoopInv
    <3>4. QED
      BY <2>1, <2>2, <2>3, <3>2, <3>3 DEF LoopInv
  <2>6. QED
    BY <2>4, <2>5
<1>4. CASE EndMatch \/ UNCHANGED vars
  <2>1. UNCHANGED <<conds, logic, tokens, row, atol, i>> /\ (current' <=> current) /\ (anyOr' <=> anyOr)
    <3>1. UNCHANGED <<conds, logic, tokens, row, atol, i>> /\ current' = current /\ anyOr' = anyOr
      BY <1>4 DEF EndMatch, vars
    <3>2. QED
      BY Zenon, <3>1
  <2>2. \A a, b : Run(a, b)' <=> Run(a, b)
    BY <2>1 DEF Run, Begins, Joined, AllHold, Holds, HoldsAt, Less, Atol
  <2>3. \/ phase = "match" /\ phase' = "matched" /\ i > Len(conds)
        \/ phase' = phase
    BY <1>4 DEF EndMatch, vars
  <2>4. QED
    BY <2>1, <2>2, <2>3 DEF LoopInv, TypeOK
<1>5. QED
  BY <1>1, <1>2, <1>3, <1>4 DEF Next, Tokenize, ReadCond
-----------------------------------------------------------------------------
LEMMA InvCorrect == Spec => []IInv
<1>1. IInv /\ [Next]_vars => IInv'
  BY StepTyped, StepRead, StepLoop DEF IInv
<1>2. QED
  BY InitInv, <1>1, PTL DEF Spec

(* The arrays of parse_where and where_match are never indexed beyond their *)
(* sizes, whatever the text.                                                *)
THEOREM TypeCorrect == Spec => []TypeOK
<1>1. IInv => TypeOK
  BY DEF IInv
<1>2. QED
  BY InvCorrect, <1>1, PTL

(* parse_where reads every token of an accepted clause exactly once.        *)
THEOREM CoversCorrect == Spec => []Covers
<1>1. IInv => Covers
  BY DEF IInv
<1>2. QED
  BY InvCorrect, <1>1, PTL

(* where_match computes the OR of the ANDs of any number of conditions.     *)
LEMMA OrOfAndsIs == IInv /\ phase = "matched" => (Matches <=> OrOfAnds)
<1> SUFFICES ASSUME TypeOK, LoopInv, phase = "matched", conds # << >>
             PROVE  anyOr \/ current <=> \E a, b \in 1..Len(conds) : a <= b /\ Run(a, b) /\ Ends(b)
  BY DEF IInv, OrOfAnds, Matches
<1> PICK n \in Nat : n = Len(conds)
  BY DEF TypeOK
<1>1. i = n + 1 /\ n >= 1
  BY DEF LoopInv, TypeOK
<1>2. current <=> \E a \in 1..n : Run(a, n)
  BY <1>1 DEF LoopInv
<1>3. anyOr <=> \E b \in 1..n - 1 : logic[b] = "OR" /\ \E a \in 1..b : Run(a, b)
  BY <1>1 DEF LoopInv
<1> QED
  BY <1>1, <1>2, <1>3 DEF Ends
-----------------------------------------------------------------------------
(* What the conditions mean: rows, texts and tokens are texts, and the      *)
(* conditions are ones parse_where_cond accepted.                           *)
MeansInv ==
  /\ row \in Rows
  /\ atol \in [BigInts -> Outcomes]
  /\ text \in Seq(Symbol)
  /\ tokens \in Seq(Seq(Symbol))
  /\ \A k \in 1..Len(conds) : CondOk(conds[k])

LEMMA InitMeans == Init => MeansInv
<1> SUFFICES ASSUME Init
             PROVE  MeansInv
  OBVIOUS
<1>1. row \in Rows
  <2>1. row = CHOOSE r \in Rows : TRUE
    BY Zenon DEF Init
  <2>2. Rows # {}
    BY WhereAssumption, Zenon DEF WhereAssumption
  <2> QED
    BY <2>1, <2>2
<1>2. atol \in [BigInts -> Outcomes]
  BY Zenon DEF Init
<1>3. text \in Seq(Symbol)
  <2>1. text \in Texts \cup {NoText} \/ \E a \in Asked : text \in Spellings(a)
    BY Zenon DEF Init
  <2> QED
    BY <2>1, AskedText
<1>4. tokens = << >> /\ conds = << >>
  BY Zenon DEF Init
<1> QED
  BY <1>1, <1>2, <1>3, <1>4 DEF MeansInv

LEMMA StepMeans == TypeOK /\ ReadInv /\ MeansInv /\ [Next]_vars => MeansInv'
<1> SUFFICES ASSUME TypeOK, ReadInv, MeansInv, [Next]_vars
             PROVE  MeansInv'
  OBVIOUS
<1>1. CASE Tokenize
  <2>1. conds = << >>
    BY <1>1 DEF Tokenize, ReadInv
  <2>2. tokens' \in Seq(Seq(Symbol))
    <3>1. tokens' = tokens \/ tokens' = Tokens(Clause)
      BY <1>1, Zenon DEF Tokenize
    <3>2. Clause \in Seq(Symbol)
      BY ClauseText DEF MeansInv
    <3>3. Tokens(Clause) \in Seq(Seq(Symbol))
      BY <3>2, TokensText
    <3> QED
      BY <3>1, <3>3 DEF MeansInv
  <2>3. UNCHANGED <<row, atol, text, conds>>
    BY <1>1, Zenon DEF Tokenize
  <2> QED
    BY <2>1, <2>2, <2>3 DEF MeansInv
<1>2. CASE ReadCond
  <2>1. UNCHANGED <<row, atol, text, tokens>>
    BY <1>2, Zenon DEF ReadCond
  <2>2. \A p : CondOk(p)' <=> CondOk(p)
    BY <2>1 DEF CondOk
  <2>3. \/ conds' = conds
        \/ conds' = Append(conds, pos) /\ CondOk(pos)
    BY <1>2, Zenon DEF ReadCond
  <2>4. \A k \in 1..Len(conds') : CondOk(conds'[k])
    <3>1. ASSUME NEW p, conds' = Append(conds, p), NEW k \in 1..Len(conds')
          PROVE  conds'[k] = p \/ (k \in 1..Len(conds) /\ conds'[k] = conds[k])
      BY <3>1 DEF TypeOK
    <3>2. \A k \in 1..Len(conds) : CondOk(conds[k])
      BY DEF MeansInv
    <3> QED
      BY <2>3, <3>1, <3>2
  <2> QED
    BY <2>1, <2>2, <2>4 DEF MeansInv
<1>3. CASE StartMatch \/ EvalCond \/ EndMatch \/ UNCHANGED vars
  <2>1. UNCHANGED <<atol, text, tokens, conds>>
    BY <1>3, Zenon DEF StartMatch, EvalCond, EndMatch, vars, parseVars
  <2>2. row' \in Rows
    BY <1>3, Zenon DEF StartMatch, EvalCond, EndMatch, vars, parseVars, MeansInv
  <2>3. \A p : CondOk(p)' <=> CondOk(p)
    BY <2>1 DEF CondOk
  <2> QED
    BY <2>1, <2>2, <2>3 DEF MeansInv
<1> QED
  BY <1>1, <1>2, <1>3 DEF Next

LEMMA MeansCorrect == Spec => []MeansInv
<1>1. IInv => TypeOK /\ ReadInv
  BY DEF IInv
<1>2. QED
  BY InvCorrect, InitMeans, StepMeans, <1>1, PTL DEF Spec

LEMMA HoldsCases ==
  ASSUME NEW p
  PROVE  LET col == tokens[p]
             op == tokens[p + 1]
             v == row[col]
             a == tokens[p + 2]
         IN  /\ op = <<"LIKE">> => (HoldsAt(p) <=> Like(v, a))
             /\ op = <<"BETWEEN">> =>
                  (HoldsAt(p) <=> ~Less(col, v, a) /\ ~Less(col, tokens[p + 4], v))
             /\ op = <<"<", "=">> => (HoldsAt(p) <=> ~Less(col, a, v))
             /\ op = <<">">> => (HoldsAt(p) <=> Less(col, a, v))
             /\ op = <<"<">> => (HoldsAt(p) <=> Less(col, v, a))
             /\ op = <<">", "=">> => (HoldsAt(p) <=> ~Less(col, v, a))
             /\ op = <<"=">> => (HoldsAt(p) <=> v = a)
             /\ op \in Differs => (HoldsAt(p) <=> v # a)
<1>1. \A x, y : <<x>> = <<y>> => x = y
  OBVIOUS
<1>2. \A x, y, z : <<x>> # <<y, z>>
  OBVIOUS
<1>3. \A x, y, z, w : <<x, y>> = <<z, w>> => x = z /\ y = w
  OBVIOUS
<1> DEFINE col == tokens[p]
           op == tokens[p + 1]
           v == row[col]
           a == tokens[p + 2]
<1>4. HoldsAt(p) <=>
        \/ op = <<"=">> /\ v = a
        \/ op = <<"<">> /\ Less(col, v, a)
        \/ op = <<">">> /\ Less(col, a, v)
        \/ op = <<"<", "=">> /\ ~Less(col, a, v)
        \/ op = <<">", "=">> /\ ~Less(col, v, a)
        \/ op \in {<<"<", ">">>, <<"!", "=">>} /\ v # a
        \/ op = <<"LIKE">> /\ Like(v, a)
        \/ op = <<"BETWEEN">> /\ ~Less(col, v, a) /\ ~Less(col, tokens[p + 4], v)
  BY Zenon DEF HoldsAt, Differs
<1> HIDE DEF op, v, a, col
<1>5. ASSUME op = <<"LIKE">> PROVE HoldsAt(p) <=> Like(v, a)
  <2>1. /\ op # <<"=">> /\ op # <<"<">> /\ op # <<">">> /\ op # <<"BETWEEN">> /\ op # <<"<", "=">>
        /\ op # <<">", "=">> /\ op \notin {<<"<", ">">>, <<"!", "=">>}
    BY <1>1, <1>2, <1>5
  <2> QED
    BY <1>4, <1>5, <2>1, Zenon
<1>6. ASSUME op = <<"BETWEEN">> PROVE HoldsAt(p) <=> ~Less(col, v, a) /\ ~Less(col, tokens[p + 4], v)
  <2>1. /\ op # <<"=">> /\ op # <<"<">> /\ op # <<">">> /\ op # <<"LIKE">> /\ op # <<"<", "=">>
        /\ op # <<">", "=">> /\ op \notin {<<"<", ">">>, <<"!", "=">>}
    BY <1>1, <1>2, <1>6
  <2> QED
    BY <1>4, <1>6, <2>1, Zenon
<1>7. ASSUME op = <<"<", "=">> PROVE HoldsAt(p) <=> ~Less(col, a, v)
  <2>1. /\ op # <<"=">> /\ op # <<"<">> /\ op # <<">">> /\ op # <<"LIKE">> /\ op # <<"BETWEEN">>
        /\ op # <<">", "=">> /\ op \notin {<<"<", ">">>, <<"!", "=">>}
    BY <1>2, <1>3, <1>7
  <2> QED
    BY <1>4, <1>7, <2>1, Zenon
<1>8. ASSUME op = <<">">> PROVE HoldsAt(p) <=> Less(col, a, v)
  <2>1. /\ op # <<"=">> /\ op # <<"<">> /\ op # <<"LIKE">> /\ op # <<"BETWEEN">> /\ op # <<"<", "=">>
        /\ op # <<">", "=">> /\ op \notin {<<"<", ">">>, <<"!", "=">>}
    BY <1>1, <1>2, <1>8
  <2> QED
    BY <1>4, <1>8, <2>1, Zenon
<1>9. ASSUME op = <<"=">> PROVE HoldsAt(p) <=> v = a
  <2>1. /\ op # <<">">> /\ op # <<"<">> /\ op # <<"LIKE">> /\ op # <<"BETWEEN">> /\ op # <<"<", "=">>
        /\ op # <<">", "=">> /\ op \notin {<<"<", ">">>, <<"!", "=">>}
    BY <1>1, <1>2, <1>9
  <2> QED
    BY <1>4, <1>9, <2>1, Zenon
<1>10. ASSUME op = <<"<">> PROVE HoldsAt(p) <=> Less(col, v, a)
  <2>1. /\ op # <<"=">> /\ op # <<">">> /\ op # <<"LIKE">> /\ op # <<"BETWEEN">> /\ op # <<"<", "=">>
        /\ op # <<">", "=">> /\ op \notin {<<"<", ">">>, <<"!", "=">>}
    BY <1>1, <1>2, <1>10
  <2> QED
    BY <1>4, <1>10, <2>1, Zenon
<1>11. ASSUME op = <<">", "=">> PROVE HoldsAt(p) <=> ~Less(col, v, a)
  <2>1. /\ op # <<"=">> /\ op # <<"<">> /\ op # <<">">> /\ op # <<"LIKE">> /\ op # <<"BETWEEN">>
        /\ op # <<"<", "=">> /\ op \notin {<<"<", ">">>, <<"!", "=">>}
    BY <1>2, <1>3, <1>11
  <2> QED
    BY <1>4, <1>11, <2>1, Zenon
<1>12. ASSUME op \in Differs PROVE HoldsAt(p) <=> v # a
  <2>1. /\ op # <<"=">> /\ op # <<"<">> /\ op # <<">">> /\ op # <<"LIKE">> /\ op # <<"BETWEEN">>
        /\ op # <<"<", "=">> /\ op # <<">", "=">>
    BY <1>2, <1>3, <1>12 DEF Differs
  <2> QED
    BY <1>4, <1>12, <2>1, Zenon DEF Differs
<1> QED
  BY <1>5, <1>6, <1>7, <1>8, <1>9, <1>10, <1>11, <1>12, Zenon DEF op, v, a, col

LEMMA AtolIs ==
  ASSUME MeansInv, NEW S, NEW s \in Seq(S), IsInt(s)
  PROVE  Atol(s) \in Int /\ (s \notin BigInts => Atol(s) = Number(s))
<1>1. CASE s \in BigInts
  BY <1>1, WhereAssumption DEF MeansInv, Atol, WhereAssumption
<1>2. CASE s \notin BigInts
  BY <1>2, NumberIs DEF Atol
<1> QED
  BY <1>1, <1>2

(* What can be compared: of an INT column, integers. *)
Comparable(col, s) == (\E S : s \in Seq(S)) /\ (col \in IntColumns => IsInt(s))

LEMMA AtMostIs ==
  ASSUME MeansInv, NEW col, NEW a, NEW b, Comparable(col, a), Comparable(col, b)
  PROVE  AtMost(col, a, b) <=> ~Less(col, b, a)
<1>1. CASE col \in IntColumns /\ {a, b} \cap BigInts = {}
  <2>1. Atol(a) \in Int /\ Atol(a) = Number(a) /\ Atol(b) \in Int /\ Atol(b) = Number(b)
    BY <1>1, AtolIs DEF Comparable
  <2> QED
    BY <1>1, <2>1 DEF AtMost, Less
<1>2. CASE ~(col \in IntColumns /\ {a, b} \cap BigInts = {})
  BY <1>2, Zenon DEF AtMost
<1> QED
  BY <1>1, <1>2

LEMMA NotLess ==
  ASSUME MeansInv, NEW col, NEW a, Comparable(col, a)
  PROVE  ~Less(col, a, a)
<1>1. CASE col \in IntColumns
  <2>1. Atol(a) \in Int
    BY <1>1, AtolIs DEF Comparable
  <2> QED
    BY <1>1, <2>1 DEF Less
<1>2. CASE col \notin IntColumns
  <2>1. Len(a) \in Nat
    BY DEF Comparable
  <2>2. ~StrLess(a, a)
    BY <2>1, NotLessThanItself
  <2> QED
    BY <1>2, <2>2, Zenon DEF Less
<1> QED
  BY <1>1, <1>2

LEMMA CondCorrect ==
  ASSUME MeansInv, NEW p \in Nat \ {0}, CondOk(p)
  PROVE  CondMeans(p, row[tokens[p]])
<1> DEFINE col == tokens[p]
           op == tokens[p + 1]
           v == row[col]
           a == tokens[p + 2]
           b == tokens[p + 4]
<1>1. v \in Seq(Range(CharCodes)) /\ Comparable(col, v)
  <2>1. col \in Columns /\ row \in Rows
    BY DEF CondOk, MeansInv
  <2>2. v \in Seq(Range(CharCodes)) /\ (col \in IntColumns => IsInt(v))
    BY <2>1, WhereAssumption DEF WhereAssumption
  <2> QED
    BY <2>2 DEF Comparable
<1>2. a \in Seq(Symbol)
  <2>1. p + 2 \in 1..Len(tokens) /\ tokens \in Seq(Seq(Symbol))
    BY DEF CondOk, MeansInv
  <2> QED
    BY <2>1, ItemOf
<1>3. op = <<"BETWEEN">> => Comparable(col, a) /\ Comparable(col, b)
  <2> SUFFICES ASSUME op = <<"BETWEEN">> PROVE Comparable(col, a) /\ Comparable(col, b)
    OBVIOUS
  <2>1. /\ p + 4 <= Len(tokens)
        /\ ValidValue(col, a) /\ ValidValue(col, b)
    BY BetweenIsAlone DEF CondOk
  <2>2. p + 4 \in 1..Len(tokens) /\ tokens \in Seq(Seq(Symbol))
    BY <2>1 DEF MeansInv
  <2>3. b \in Seq(Symbol)
    BY <2>2, ItemOf
  <2> QED
    BY <1>2, <2>1, <2>3 DEF Comparable, ValidValue
<1>4. op \notin {<<"LIKE">>, <<"BETWEEN">>} => Comparable(col, a)
  <2> SUFFICES ASSUME op \notin {<<"LIKE">>, <<"BETWEEN">>} PROVE Comparable(col, a)
    OBVIOUS
  <2>1. ValidValue(col, a)
    BY DEF CondOk
  <2> QED
    BY <1>2, <2>1 DEF Comparable, ValidValue
<1> DEFINE Orders == {<<"<", "=">>, <<">">>, <<"<">>, <<">", "=">>, <<"=">>} \cup Differs
<1>5. \A x \in Orders : x \notin {<<"LIKE">>, <<"BETWEEN">>}
  <2>1. \A x, y : <<x>> = <<y>> => x = y
    OBVIOUS
  <2>2. \A x, y, z : <<x>> # <<y, z>>
    OBVIOUS
  <2> QED
    BY <2>1, <2>2 DEF Differs
<1> HIDE DEF col, op, v, a, b
<1>6. op = <<"LIKE">> => (HoldsAt(p) <=> LikeMeans(v, a))
  <2>1. Len(v) \in Nat /\ Len(a) \in Nat
    BY <1>1, <1>2
  <2>2. Like(v, a) <=> LikeMeans(v, a)
    BY <2>1, LikeIs
  <2> QED
    BY <2>2, HoldsCases DEF op, v, a, col
<1>7. op = <<"BETWEEN">> => (HoldsAt(p) <=> AtMost(col, a, v) /\ AtMost(col, v, b))
  <2> SUFFICES ASSUME op = <<"BETWEEN">> PROVE HoldsAt(p) <=> AtMost(col, a, v) /\ AtMost(col, v, b)
    OBVIOUS
  <2>1. (AtMost(col, a, v) <=> ~Less(col, v, a)) /\ (AtMost(col, v, b) <=> ~Less(col, b, v))
    BY <1>1, <1>3, AtMostIs
  <2>2. HoldsAt(p) <=> ~Less(col, v, a) /\ ~Less(col, b, v)
    BY HoldsCases DEF op, v, a, b, col
  <2> QED
    BY <2>1, <2>2, Zenon
<1>8. ASSUME op \in Orders
      PROVE  /\ AtMost(col, v, a) <=> ~Less(col, a, v)
             /\ AtMost(col, a, v) <=> ~Less(col, v, a)
  <2>1. Comparable(col, a)
    BY <1>4, <1>5, <1>8
  <2> QED
    BY <1>1, <2>1, AtMostIs
<1>9. op = <<"<", "=">> => (HoldsAt(p) <=> AtMost(col, v, a))
  <2>1. op = <<"<", "=">> => (HoldsAt(p) <=> ~Less(col, a, v))
    BY HoldsCases DEF op, v, a, col
  <2> QED
    BY <1>8, <2>1, Zenon
<1>10. op = <<">">> => (HoldsAt(p) <=> ~AtMost(col, v, a))
  <2>1. op = <<">">> => (HoldsAt(p) <=> Less(col, a, v))
    BY HoldsCases DEF op, v, a, col
  <2> QED
    BY <1>8, <2>1, Zenon
<1>11. op = <<"<">> => (HoldsAt(p) <=> ~AtMost(col, a, v))
  <2>1. op = <<"<">> => (HoldsAt(p) <=> Less(col, v, a))
    BY HoldsCases DEF op, v, a, col
  <2> QED
    BY <1>8, <2>1, Zenon
<1>12. op = <<">", "=">> => (HoldsAt(p) <=> AtMost(col, a, v))
  <2>1. op = <<">", "=">> => (HoldsAt(p) <=> ~Less(col, v, a))
    BY HoldsCases DEF op, v, a, col
  <2> QED
    BY <1>8, <2>1, Zenon
<1> DEFINE Alike == {<<"=">>} \cup Differs
           same == AtMost(col, a, v) /\ AtMost(col, v, a)
<1>13. /\ op = <<"=">> => (HoldsAt(p) <=> v = a)
       /\ op \in Differs => (HoldsAt(p) <=> v # a)
  BY HoldsCases DEF op, v, a, col
<1>14. op \in Alike /\ v = a => same
  <2>1. ~Less(col, v, v)
    BY <1>1, NotLess
  <2> QED
    BY <1>8, <2>1, Zenon
<1>15. op \in Alike /\ col \notin IntColumns /\ same => v = a
  <2> SUFFICES ASSUME op \in Alike, col \notin IntColumns, same
               PROVE  v = a
    OBVIOUS
  <2>1. ~Less(col, a, v) /\ ~Less(col, v, a)
    BY <1>8, Zenon
  <2>2. ~StrLess(a, v) /\ ~StrLess(v, a)
    BY <2>1, Zenon DEF Less
  <2> QED
    BY <1>1, <1>2, <2>2, NeitherLess
<1>16. /\ op = <<"=">> => (HoldsAt(p) => same)
       /\ op = <<"=">> /\ col \notin IntColumns => (same => HoldsAt(p))
       /\ op \in Differs => (~HoldsAt(p) => same)
       /\ op \in Differs /\ col \notin IntColumns => (same => ~HoldsAt(p))
  BY <1>13, <1>14, <1>15, Zenon
<1> QED
  BY <1>6, <1>7, <1>9, <1>10, <1>11, <1>12, <1>16, Zenon DEF CondMeans, op, v, a, b, col

(* Every condition of any clause means what its operator says: LIKE that    *)
(* the text can be cut as the pattern asks, < <= > >= and BETWEEN the order *)
(* of the values, = the same text, <> another; and a row is taken exactly   *)
(* if some run of ANDs holds (like_match, cmp_value, eval_cond,             *)
(* where_match).                                                            *)
THEOREM ConditionsCorrect == Spec => []ConditionsMean
<1>1. IInv /\ MeansInv => ConditionsMean
  <2> SUFFICES ASSUME IInv, MeansInv, phase = "matched", NEW k \in 1..Len(conds)
               PROVE  CondMeans(conds[k], row[tokens[conds[k]]])
    BY OrOfAndsIs DEF ConditionsMean
  <2>1. conds[k] \in Nat \ {0} /\ CondOk(conds[k])
    BY DEF IInv, TypeOK, MeansInv
  <2> QED
    BY <2>1, CondCorrect
<1>2. QED
  BY InvCorrect, MeansCorrect, <1>1, PTL
-----------------------------------------------------------------------------
LEMMA LTrimSolid ==
  ASSUME NEW S, NEW s \in Seq(S), s # << >>, s[1] # Blank
  PROVE  LTrim(s) = s
<1> DEFINE I == {j \in 1..Len(s) : s[j] # Blank}
<1>1. 1 \in I /\ I \in SUBSET Nat
  OBVIOUS
<1>2. PICK m : m = Min(I)
  OBVIOUS
<1>3. m \in I /\ \A x \in I : m <= x
  BY <1>1, <1>2, Least
<1>4. m = 1
  BY <1>1, <1>3
<1>5. LTrim(s) = SubSeq(s, Min(I), Len(s))
  BY <1>1, Zenon DEF LTrim
<1>6. SubSeq(s, 1, Len(s)) = s
  OBVIOUS
<1> QED
  BY <1>2, <1>4, <1>5, <1>6, Zenon

(* Where a WHERE is before what is asked, it is what the clause loses.       *)
LEMMA ClauseSays ==
  ASSUME NEW a \in Asked, text \in Spellings(a), ~(Head(text) = "WHERE" /\ text \in Said(a))
  PROVE  text # NoText /\ SaidBy(a, Tokens(Clause), Len(a.conds))
<1>0. Len(a.conds) \in Nat \ {0} /\ 1 \in 1..Len(a.conds) /\ Askable(a.conds[1])
  BY AskedIs
<1>1. \A s \in Said(a) : /\ SaidBy(a, Tokens(s), Len(a.conds))
                         /\ s \in AnyText /\ s # << >> /\ s[1] = a.conds[1].col[1]
  <2> SUFFICES ASSUME NEW s \in Said(a)
               PROVE  /\ SaidBy(a, Tokens(s), Len(a.conds))
                      /\ s \in AnyText /\ s # << >> /\ s[1] = a.conds[1].col[1]
    OBVIOUS
  <2>1. PICK q \in Marks(a), g \in {<< >>, <<Blank>>} : s = SpellAll(a, q, g)
    BY DEF Said
  <2> QED
    BY <2>1, ReadsAll
<1>2. a.conds[1].col[1] # Blank
  <2>1. PICK col \in Seq(STRING) : col = a.conds[1].col /\ IsBare(col)
    BY <1>0 DEF Askable
  <2>2. col # << >> /\ Range(col) \cap (Operators \cup Quotes \cup {Blank}) = {}
    BY <2>1 DEF IsBare
  <2>3. 1 \in DOMAIN col
    BY <2>2
  <2>4. col[1] \in Range(col)
    BY <2>3 DEF Range
  <2> QED
    BY <2>1, <2>2, <2>4
<1>3. SaidBy(a, Tokens(Clause), Len(a.conds))
  <2>1. text \in Said(a) \/ \E s \in Said(a) : text = <<"WHERE", Blank>> \o s
    BY DEF Spellings
  <2>2. CASE text \in Said(a)
    <3>1. text \in Seq(Symbol) /\ text # << >> /\ text[1] # Blank
      BY <1>1, <1>2, <2>2 DEF AnyText
    <3>2. LTrim(text) = text
      BY <3>1, LTrimSolid
    <3>3. Clause = text
      BY <2>2, <3>2, Zenon DEF Clause
    <3> QED
      BY <1>1, <2>2, <3>3
  <2>3. CASE \E s \in Said(a) : text = <<"WHERE", Blank>> \o s
    <3>1. PICK s \in Said(a) : text = <<"WHERE", Blank>> \o s
      BY <2>3
    <3>2. s \in Seq(Symbol) /\ <<"WHERE", Blank>> \in Seq(Symbol)
      BY <1>1 DEF AnyText, Symbol
    <3>3. PICK t \in Seq(Symbol) : t = <<"WHERE", Blank>> \o s
      <4>1. <<"WHERE", Blank>> \o s \in Seq(Symbol)
        BY <3>2, JoinText
      <4> QED
        BY <4>1
    <3>4. /\ t # << >> /\ t[1] = "WHERE" /\ Head(t) = "WHERE" /\ Len(t) = Len(s) + 2
          /\ Tail(t) \in Seq(Symbol) /\ EndsIn(Tail(t), s, 1) /\ Tail(t)[1] = Blank
      BY <3>2, <3>3 DEF EndsIn
    <3>5. t[1] # Blank
      BY <3>4 DEF Blank
    <3>6. LTrim(t) = t
      BY <3>4, <3>5, LTrimSolid
    <3>7. Clause = Tail(t)
      BY <3>1, <3>3, <3>4, <3>6, Zenon DEF Clause
    <3>8. Tokens(Tail(t)) = Tokens(s)
      BY <3>2, <3>4, TokensSkip
    <3> QED
      BY <1>1, <3>7, <3>8
  <2> QED
    BY <2>1, <2>2, <2>3
<1>4. text # NoText
  <2> SUFFICES ASSUME text = NoText PROVE FALSE
    OBVIOUS
  <2>1. NoText \in Seq(Symbol) /\ NoText # << >> /\ NoText[1] = "NULL" /\ Head(NoText) = "NULL" /\ Len(NoText) = 1
    BY DEF NoText, Symbol
  <2>2. "NULL" \notin Operators \cup Quotes \cup {Blank} /\ "NULL" # "WHERE"
    BY DEF Operators, Quotes, Quote, Blank
  <2>3. LTrim(NoText) = NoText
    BY <2>1, <2>2, LTrimSolid
  <2>4. Clause = NoText
    BY <2>1, <2>2, <2>3, Zenon DEF Clause
  <2>5. Reads(NoText, <<NoText>>, AfterWord)
    <3>1. Solid(NoText)
      BY <2>1, <2>2 DEF Solid
    <3>2. Len(NoText) <= MaxValue /\ NoText \in AnyText
      BY <2>1 DEF AnyText
    <3> QED
      BY <3>1, <3>2, ReadsWord
  <2>6. Tokens(NoText) = <<NoText>>
    <3>1. << >> \in AfterWord
      BY DEF AfterWord, AnyText, WordEnds
    <3>2. Tokens(NoText \o << >>) = <<NoText>> \o Tokens(<< >>)
      BY <2>5, <3>1 DEF Reads
    <3>3. NoText \o << >> = NoText /\ <<NoText>> \o << >> = <<NoText>>
      BY <2>1, NothingBefore
    <3> QED
      BY <3>2, <3>3, TokensEmpty, Zenon
  <2>7. Len(Tokens(Clause)) = 1
    BY <2>4, <2>6
  <2>8. Len(Tokens(Clause)) = Start(a, Len(a.conds) + 1) - 2
    BY <1>3 DEF SaidBy
  <2>9. /\ Start(a, 1) = 1 /\ Start(a, Len(a.conds)) \in Nat \ {0}
        /\ Start(a, Len(a.conds)) + (IF IsBetween(a.conds[Len(a.conds)]) THEN 4 ELSE 2) <= Start(a, Len(a.conds) + 1) - 2
        /\ Start(a, Len(a.conds) + 1) \in Nat
    <3>1. Len(a.conds) \in 1..Len(a.conds) /\ Len(a.conds) \in Nat /\ Len(a.conds) + 1 \in Nat \ {0}
      BY <1>0
    <3> QED
      BY <1>0, <3>1, StartIs, StartBefore
  <2> QED
    BY <2>7, <2>8, <2>9
<1> QED
  BY <1>3, <1>4

LEMMA TokenCountIs ==
  ASSUME NEW a \in Asked
  PROVE  TokenCount(a) = Start(a, Len(a.conds) + 1) - 2 /\ TokenCount(a) \in Nat /\ TokenCount(a) > 0
<1>0. PICK n \in Nat \ {0} : n = Len(a.conds)
  BY AskedIs
<1>1. (n + 1) - 1 = n /\ Betweens(a, n) \in Nat
  BY BetweensAre
<1> QED
  BY <1>0, <1>1 DEF TokenCount, Start

(* How far the text is read, and that what is read is what was asked.        *)
Meant == asked # NothingAsked /\ ~HidesColumn
SaysInv ==
  LET n == Len(asked.conds)
  IN  Meant =>
    /\ asked \in Asked
    /\ phase = "text" => text \in Spellings(asked)
    /\ phase # "text" => SaidBy(asked, tokens, n)
    /\ phase = "refused" => ~Fits(asked)
    /\ phase \notin {"text", "refused"} =>
         /\ TokenCount(asked) <= MaxConds * 5 /\ Len(conds) <= n
         /\ \A k \in 1..Len(conds) : conds[k] = Start(asked, k) /\ Valid(asked.conds[k])
         /\ \A k \in 1..Len(logic) : k < n /\ logic[k] = asked.joins[k]
    /\ phase = "conds" =>
         Len(conds) < n /\ Len(logic) = Len(conds) /\ pos = Start(asked, Len(conds) + 1)
    /\ phase \in {"parsed", "match", "matched"} => Len(conds) = n /\ Len(logic) = n - 1

LEMMA InitSays == Init => SaysInv
<1> SUFFICES ASSUME Init, Meant
             PROVE  SaysInv
  BY DEF SaysInv
<1>1. asked \in Asked /\ text \in Spellings(asked) /\ phase = "text"
  BY Zenon DEF Init, Meant
<1> QED
  BY <1>1 DEF SaysInv

LEMMA TokenizeSays ==
  ASSUME TypeOK, ReadInv, SaysInv, Tokenize, Meant'
  PROVE  SaysInv'
<1> PICK a : a = asked
  OBVIOUS
<1>1. UNCHANGED <<asked, text, conds, logic, pos>> /\ phase = "text"
  BY Zenon DEF Tokenize
<1>2. Meant
  BY <1>1 DEF Meant, HidesColumn
<1>3. a \in Asked /\ text \in Spellings(a) /\ ~(Head(text) = "WHERE" /\ text \in Said(a))
  BY <1>1, <1>2 DEF SaysInv, Meant, HidesColumn
<1>4. PICK n \in Nat \ {0} : n = Len(a.conds)
  BY <1>3, AskedIs
<1>5. text # NoText /\ SaidBy(a, Tokens(Clause), n)
  BY <1>3, <1>4, ClauseSays
<1>6. tokens' = Tokens(Clause) /\ phase' = IF Len(tokens') = 0 \/ ~TokensFit(tokens') THEN "refused" ELSE "conds"
  BY <1>5, Zenon DEF Tokenize
<1>7. Len(tokens') = TokenCount(a) /\ TokenCount(a) \in Nat /\ TokenCount(a) > 0
  BY <1>3, <1>4, <1>5, <1>6, TokenCountIs DEF SaidBy
<1>8. phase' = IF ~(TokenCount(a) <= MaxConds * 5) THEN "refused" ELSE "conds"
  BY <1>6, <1>7 DEF TokensFit
<1>9. phase' = "refused" => ~Fits(a)
  BY <1>8 DEF Fits
<1>10. conds = << >> /\ logic = << >> /\ pos = 1 /\ Start(a, 1) = 1
  <2>1. 1 \in Nat \ {0}
    OBVIOUS
  <2> QED
    BY <1>1, <2>1, StartIs DEF ReadInv
<1>11. SaidBy(a, tokens', n)
  BY <1>5, <1>6
<1>12. phase' \in {"refused", "conds"} /\ (phase' = "conds" => TokenCount(a) <= MaxConds * 5)
  BY <1>8
<1>13. asked' = a /\ conds' = << >> /\ logic' = << >> /\ pos' = 1
  BY <1>1, <1>10
<1>14. phase' = "refused" => ~Fits(asked)'
  <2>1. Fits(a) <=> Fits(asked)'
    BY <1>13 DEF Fits, TokenCount, Betweens, Valid, Values, ValidValue
  <2> QED
    BY <1>9, <2>1
<1>15. Len(conds') = 0 /\ Len(logic') = 0 /\ 0 + 1 = 1
  BY <1>13
<1>16. TokenCount(asked)' = TokenCount(a) /\ (\A k : Start(asked, k)' = Start(a, k)) /\ SaidBy(asked, tokens, n)'
  BY <1>11, <1>13 DEF TokenCount, Betweens, Start, SaidBy, At, IsBetween
<1> QED
  BY <1>3, <1>4, <1>10, <1>12, <1>13, <1>14, <1>15, <1>16 DEF SaysInv

(* A condition that was said is read at its place exactly if it is valid.    *)
LEMMA CondOkIs ==
  ASSUME NEW a \in Asked, NEW k \in 1..Len(a.conds), SaidBy(a, tokens, Len(a.conds))
  PROVE  /\ CondOk(Start(a, k)) <=> Valid(a.conds[k])
         /\ Start(a, k) + CondLength(Start(a, k)) = Start(a, k + 1) - 1
         /\ Start(a, k + 1) - 1 <= Len(tokens) <=> k < Len(a.conds)
         /\ k < Len(a.conds) => tokens[Start(a, k + 1) - 1] = <<a.joins[k]>>
<1>0. PICK n \in Nat \ {0} : n = Len(a.conds)
  BY AskedIs
<1>1. PICK c : c = a.conds[k] /\ Askable(c)
  BY AskedIs
<1>2. /\ Len(tokens) = Start(a, n + 1) - 2
      /\ At(tokens, Start(a, k), c)
      /\ k < n => tokens[Start(a, k + 1) - 1] = <<a.joins[k]>>
  BY <1>0, <1>1 DEF SaidBy
<1>3. /\ Start(a, k) \in Nat \ {0} /\ Start(a, n + 1) \in Nat \ {0} /\ Start(a, k + 1) \in Nat \ {0}
      /\ Start(a, k + 1) = Start(a, k) + IF IsBetween(c) THEN 6 ELSE 4
  <2>1. k \in Nat \ {0} /\ k + 1 \in Nat \ {0} /\ n + 1 \in Nat \ {0}
    BY <1>0
  <2> QED
    BY <1>1, <2>1, StartIs
<1>4. /\ Start(a, k) + (IF IsBetween(c) THEN 4 ELSE 2) <= Start(a, n + 1) - 2
      /\ k < n => Start(a, k + 1) <= Start(a, n + 1) - 4
  <2>1. k \in 1..n /\ n \in Nat
    BY <1>0
  <2> QED
    BY <1>1, <2>1, StartBefore
<1>5. PICK p \in Nat \ {0} : p = Start(a, k)
  BY <1>3
<1>6. /\ tokens[p] = c.col /\ tokens[p + 1] = c.op /\ tokens[p + 2] = Trim(c.low)
      /\ IsBetween(c) => tokens[p + 3] = <<"AND">> /\ tokens[p + 4] = Trim(c.high)
  BY <1>2, <1>5 DEF At
<1>7. CondLength(p) = IF IsBetween(c) THEN 5 ELSE 3
  BY <1>6, Zenon DEF CondLength, IsBetween
<1>8. p + CondLength(p) = Start(a, k + 1) - 1
  BY <1>3, <1>5, <1>7
<1>9. Start(a, k + 1) - 1 <= Len(tokens) <=> k < n
  <2>1. CASE k < n
    BY <1>2, <1>3, <1>4, <2>1
  <2>2. CASE k = n
    BY <1>2, <1>3, <2>2
  <2> QED
    BY <1>0, <2>1, <2>2
<1>10. c.col \in Columns /\ c.op \in Comparisons \cup {<<"LIKE">>, <<"BETWEEN">>}
  BY <1>1 DEF Askable
<1>11. CondOk(p) <=> Valid(c)
  <2>1. CASE IsBetween(c)
    <3>1. p + 2 <= Len(tokens) /\ p + 4 <= Len(tokens)
      BY <1>2, <1>3, <1>4, <1>5, <2>1
    <3>2. c.op \notin Comparisons /\ c.op # <<"LIKE">>
      BY <2>1, BetweenIsAlone DEF IsBetween
    <3>3. CondOk(p) <=> ValidValue(c.col, Trim(c.low)) /\ ValidValue(c.col, Trim(c.high))
      BY <1>6, <1>10, <2>1, <3>1, <3>2, Zenon DEF CondOk, IsBetween
    <3>4. Values(c) = <<c.low, c.high>>
      BY <2>1 DEF Values, IsBetween
    <3>5. Range(Values(c)) = {c.low, c.high}
      <4>1. DOMAIN Values(c) = 1..2 /\ Values(c)[1] = c.low /\ Values(c)[2] = c.high
        BY <3>4
      <4>2. 1..2 = {1, 2}
        OBVIOUS
      <4> QED
        BY <4>1, <4>2 DEF Range
    <3>6. Valid(c) <=> \A v \in Range(Values(c)) : ValidValue(c.col, Trim(v))
      BY <3>2, Zenon DEF Valid
    <3> QED
      BY <3>3, <3>5, <3>6
  <2>2. CASE ~IsBetween(c)
    <3>1. p + 2 <= Len(tokens)
      BY <1>2, <1>3, <1>4, <1>5, <2>2
    <3>2. c.op # <<"BETWEEN">>
      BY <2>2 DEF IsBetween
    <3>3. CondOk(p) <=> c.op = <<"LIKE">> \/ (c.op \in Comparisons /\ ValidValue(c.col, Trim(c.low)))
      BY <1>6, <1>10, <3>1, <3>2, Zenon DEF CondOk
    <3>4. Values(c) = <<c.low>>
      BY <3>2 DEF Values
    <3>5. Range(Values(c)) = {c.low}
      BY <3>4 DEF Range
    <3>6. Valid(c) <=> c.op = <<"LIKE">> \/ ValidValue(c.col, Trim(c.low))
      BY <3>5 DEF Valid
    <3> QED
      BY <1>10, <3>2, <3>3, <3>6
  <2> QED
    BY <2>1, <2>2
<1> QED
  BY <1>0, <1>1, <1>2, <1>5, <1>8, <1>9, <1>11

LEMMA ReadCondSays ==
  ASSUME TypeOK, SaysInv, ReadCond, Meant'
  PROVE  SaysInv'
<1> PICK a : a = asked
  OBVIOUS
<1>1. UNCHANGED <<asked, text, tokens>> /\ phase = "conds"
  BY Zenon DEF ReadCond
<1>2. Meant
  BY <1>1 DEF Meant, HidesColumn
<1>3. a \in Asked /\ SaidBy(a, tokens, Len(a.conds))
  BY <1>1, <1>2 DEF SaysInv
<1>4. PICK n \in Nat \ {0} : n = Len(a.conds)
  BY <1>3, AskedIs
<1>5. PICK m \in Nat : m = Len(conds)
  BY DEF TypeOK
<1>6. /\ TokenCount(a) <= MaxConds * 5 /\ m < n /\ Len(logic) = m /\ pos = Start(a, m + 1)
      /\ \A k \in 1..m : conds[k] = Start(a, k) /\ Valid(a.conds[k])
      /\ \A k \in 1..m : logic[k] = a.joins[k]
  BY <1>1, <1>2, <1>4, <1>5 DEF SaysInv
<1>7. m + 1 \in 1..n
  BY <1>6
<1>8. PICK next : next = pos + CondLength(pos)
  OBVIOUS
<1>9. /\ CondOk(pos) <=> Valid(a.conds[m + 1])
      /\ next = Start(a, m + 1 + 1) - 1
      /\ next <= Len(tokens) <=> m + 1 < n
      /\ m + 1 < n => tokens[next] = <<a.joins[m + 1]>>
  <2>1. PICK k \in 1..Len(a.conds) : k = m + 1
    BY <1>4, <1>7
  <2>2. /\ CondOk(Start(a, k)) <=> Valid(a.conds[k])
        /\ Start(a, k) + CondLength(Start(a, k)) = Start(a, k + 1) - 1
        /\ Start(a, k + 1) - 1 <= Len(tokens) <=> k < Len(a.conds)
        /\ k < Len(a.conds) => tokens[Start(a, k + 1) - 1] = <<a.joins[k]>>
    BY <1>3, CondOkIs
  <2> QED
    BY <1>4, <1>6, <1>8, <2>1, <2>2, Zenon
<1>10. Start(a, m + 1 + 1) \in Nat \ {0}
  <2>1. m + 1 + 1 \in Nat \ {0}
    OBVIOUS
  <2> QED
    BY <2>1, StartIs
<1>11. m + 1 < n => a.joins[m + 1] \in {"AND", "OR"}
  BY <1>3, <1>4, AskedIs
<1>12. \A x, y : <<x>> = <<y>> => x = y
  OBVIOUS
<1>13. /\ asked' = a /\ (Fits(asked)' <=> Fits(a)) /\ TokenCount(asked)' = TokenCount(a)
       /\ \A k : Start(asked, k)' = Start(a, k)
       /\ SaidBy(asked, tokens, n)'
       /\ \A k \in 1..n : Valid(asked.conds[k])' <=> Valid(a.conds[k])
  <2>1. asked' = a /\ tokens' = tokens
    BY <1>1
  <2>2. TokenCount(asked)' = TokenCount(a) /\ \A k : Start(asked, k)' = Start(a, k)
    BY <2>1 DEF TokenCount, Betweens, Start
  <2>3. SaidBy(asked, tokens, n)' <=> SaidBy(a, tokens, n)
    BY <2>1 DEF SaidBy, At, IsBetween, Start, Betweens
  <2>4. \A k : Valid(asked.conds[k])' <=> Valid(a.conds[k])
    BY <2>1 DEF Valid, Values, ValidValue
  <2>5. Fits(asked)' <=> Fits(a)
    BY <2>1 DEF Fits, TokenCount, Betweens, Valid, Values, ValidValue
  <2> QED
    BY <1>3, <1>4, <2>1, <2>2, <2>3, <2>4, <2>5
<1>14. ASSUME conds' = Append(conds, pos), Valid(a.conds[m + 1])
       PROVE  Len(conds') = m + 1 /\ \A k \in 1..m + 1 : conds'[k] = Start(a, k) /\ Valid(a.conds[k])
  <2>1. Len(conds') = m + 1 /\ conds'[m + 1] = pos /\ \A k \in 1..m : conds'[k] = conds[k]
    BY <1>5, <1>14 DEF TypeOK
  <2>2. \A k \in 1..m + 1 : k \in 1..m \/ k = m + 1
    OBVIOUS
  <2> QED
    BY <1>6, <1>14, <2>1, <2>2
<1>15. CASE /\ CondOk(pos) /\ ~(next <= Len(tokens))
            /\ conds' = Append(conds, pos) /\ phase' = "parsed" /\ UNCHANGED logic
  <2>1. m + 1 = n
    BY <1>6, <1>9, <1>15
  <2>2. Len(conds') = n /\ \A k \in 1..n : conds'[k] = Start(a, k) /\ Valid(a.conds[k])
    BY <1>9, <1>14, <1>15, <2>1
  <2>3. Len(logic') = n - 1 /\ \A k \in 1..n - 1 : logic'[k] = a.joins[k]
    BY <1>6, <1>15, <2>1
  <2> QED
    BY <1>3, <1>4, <1>6, <1>13, <1>15, <2>2, <2>3 DEF SaysInv
<1>16. CASE /\ CondOk(pos) /\ next <= Len(tokens)
            /\ conds' = Append(conds, pos) /\ pos' = next + 1
            /\ logic' = Append(logic, IF tokens[next] = <<"AND">> THEN "AND" ELSE "OR")
            /\ phase' = IF next + 1 <= Len(tokens) THEN "conds" ELSE "parsed"
  <2>1. m + 1 < n
    BY <1>9, <1>16
  <2>2. (IF tokens[next] = <<"AND">> THEN "AND" ELSE "OR") = a.joins[m + 1]
    BY <1>9, <1>11, <1>12, <2>1
  <2>3. Len(logic') = m + 1 /\ \A k \in 1..m + 1 : logic'[k] = a.joins[k]
    <3>1. Len(logic') = m + 1 /\ logic'[m + 1] = a.joins[m + 1] /\ \A k \in 1..m : logic'[k] = logic[k]
      BY <1>6, <1>16, <2>2 DEF TypeOK
    <3>2. \A k \in 1..m + 1 : k \in 1..m \/ k = m + 1
      OBVIOUS
    <3> QED
      BY <1>6, <3>1, <3>2
  <2>4. Len(conds') = m + 1 /\ \A k \in 1..m + 1 : conds'[k] = Start(a, k) /\ Valid(a.conds[k])
    BY <1>9, <1>14, <1>16
  <2>5. next + 1 <= Len(tokens)
    <3>1. m + 2 \in 1..n /\ m + 1 + 1 = m + 2
      BY <2>1
    <3>2. Start(a, m + 2) + (IF IsBetween(a.conds[m + 2]) THEN 4 ELSE 2) <= Start(a, n + 1) - 2
      BY <3>1, StartBefore
    <3>3. Len(tokens) = Start(a, n + 1) - 2 /\ Start(a, n + 1) \in Nat
      <4>1. n + 1 \in Nat \ {0}
        OBVIOUS
      <4> QED
        BY <1>3, <1>4, <4>1, StartIs DEF SaidBy
    <3> QED
      BY <1>9, <1>10, <3>1, <3>2, <3>3
  <2>6. phase' = "conds" /\ pos' = Start(a, m + 1 + 1)
    BY <1>9, <1>10, <1>16, <2>5
  <2> QED
    BY <1>3, <1>4, <1>6, <1>13, <2>1, <2>3, <2>4, <2>6 DEF SaysInv
<1>17. CASE /\ \/ Len(conds) >= MaxConds
               \/ ~CondOk(pos)
               \/ CondOk(pos) /\ next <= Len(tokens) /\ Len(conds) + 1 >= MaxConds
               \/ CondOk(pos) /\ next <= Len(tokens) /\ ~Connects(next)
            /\ phase' = "refused"
  <2>1. ~Fits(a)
    <3>1. CASE m >= MaxConds
      <4>1. ~(n <= MaxConds)
        BY <1>6, <3>1
      <4> QED
        BY <1>4, <4>1 DEF Fits
    <3>2. CASE ~CondOk(pos)
      BY <1>4, <1>7, <1>9, <3>2 DEF Fits
    <3>3. CASE m + 1 < n /\ m + 1 >= MaxConds
      <4>1. ~(n <= MaxConds)
        BY <3>3
      <4> QED
        BY <1>4, <4>1 DEF Fits
    <3>4. CASE m + 1 < n /\ ~Connects(next)
      BY <1>9, <1>11, <3>4 DEF Connects
    <3> QED
      BY <1>5, <1>9, <1>17, <3>1, <3>2, <3>3, <3>4
  <2> QED
    BY <1>3, <1>4, <1>13, <1>17, <2>1 DEF SaysInv
<1>18. \/ /\ CondOk(pos) /\ ~(next <= Len(tokens))
          /\ conds' = Append(conds, pos) /\ phase' = "parsed" /\ UNCHANGED logic
       \/ /\ CondOk(pos) /\ next <= Len(tokens)
          /\ conds' = Append(conds, pos) /\ pos' = next + 1
          /\ logic' = Append(logic, IF tokens[next] = <<"AND">> THEN "AND" ELSE "OR")
          /\ phase' = IF next + 1 <= Len(tokens) THEN "conds" ELSE "parsed"
       \/ /\ \/ Len(conds) >= MaxConds
             \/ ~CondOk(pos)
             \/ CondOk(pos) /\ next <= Len(tokens) /\ Len(conds) + 1 >= MaxConds
             \/ CondOk(pos) /\ next <= Len(tokens) /\ ~Connects(next)
          /\ phase' = "refused"
  BY <1>8, Zenon DEF ReadCond
<1> QED
  BY <1>15, <1>16, <1>17, <1>18

LEMMA StepSays == TypeOK /\ ReadInv /\ SaysInv /\ [Next]_vars => SaysInv'
<1> SUFFICES ASSUME TypeOK, ReadInv, SaysInv, [Next]_vars, Meant'
             PROVE  SaysInv'
  BY DEF SaysInv
<1>1. CASE Tokenize
  BY <1>1, TokenizeSays
<1>2. CASE ReadCond
  BY <1>2, ReadCondSays
<1>3. CASE StartMatch \/ EvalCond \/ EndMatch \/ UNCHANGED vars
  <2>1. UNCHANGED <<asked, text, tokens, conds, logic, pos>>
    BY <1>3, Zenon DEF StartMatch, EvalCond, EndMatch, vars, parseVars
  <2>2. \/ phase' = phase
        \/ phase \in {"parsed", "match", "matched"} /\ phase' \in {"parsed", "match", "matched"}
    <3>1. StartMatch \/ EvalCond \/ EndMatch => phase \in {"parsed", "match", "matched"} /\ phase' \in {"match", "matched"} \cup {phase}
      BY DEF StartMatch, EvalCond, EndMatch
    <3>2. UNCHANGED vars => phase' = phase
      BY DEF vars
    <3> QED
      BY <1>3, <3>1, <3>2
  <2>3. Meant
    BY <2>1 DEF Meant, HidesColumn
  <2>4. /\ Fits(asked)' <=> Fits(asked)
        /\ TokenCount(asked)' = TokenCount(asked)
        /\ \A k : Start(asked, k)' = Start(asked, k)
        /\ SaidBy(asked, tokens, Len(asked.conds))' <=> SaidBy(asked, tokens, Len(asked.conds))
        /\ \A k : Valid(asked.conds[k])' <=> Valid(asked.conds[k])
    BY <2>1 DEF Fits, TokenCount, Betweens, Valid, Values, ValidValue, Start, SaidBy, At, IsBetween
  <2>5. Spellings(asked)' = Spellings(asked)
    BY <2>1
  <2> QED
    BY <2>1, <2>2, <2>3, <2>4, <2>5 DEF SaysInv
<1> QED
  BY <1>1, <1>2, <1>3 DEF Next

LEMMA SaysCorrect == Spec => []SaysInv
<1>1. IInv => TypeOK /\ ReadInv
  BY DEF IInv
<1>2. QED
  BY InvCorrect, InitSays, StepSays, <1>1, PTL DEF Spec

(* parse_where understands every clause that is within its limits exactly   *)
(* as it was meant, for all columns, values and connectives, and refuses    *)
(* the others, except where a column is taken for the word WHERE.           *)
THEOREM UnderstoodCorrect == Spec => []Understood
<1>1. TypeOK /\ SaysInv => Understood
  <2> SUFFICES ASSUME TypeOK, SaysInv, Meant
               PROVE  /\ phase = "refused" => ~Fits(asked)
                      /\ phase \in {"parsed", "match", "matched"} =>
                           /\ Fits(asked)
                           /\ Len(conds) = Len(asked.conds) /\ logic = asked.joins
                           /\ \A k \in 1..Len(conds) : Means(k, asked.conds[k])
    BY DEF Understood, Meant
  <2>1. phase = "refused" => ~Fits(asked)
    BY DEF SaysInv
  <2>2. ASSUME phase \in {"parsed", "match", "matched"}
        PROVE  /\ Fits(asked)
               /\ Len(conds) = Len(asked.conds) /\ logic = asked.joins
               /\ \A k \in 1..Len(conds) : Means(k, asked.conds[k])
    <3>1. PICK n \in Nat \ {0} : n = Len(asked.conds)
      BY AskedIs DEF SaysInv
    <3>2. /\ TokenCount(asked) <= MaxConds * 5 /\ Len(conds) = n /\ Len(logic) = n - 1
          /\ \A k \in 1..n : conds[k] = Start(asked, k) /\ Valid(asked.conds[k])
          /\ \A k \in 1..n - 1 : logic[k] = asked.joins[k]
          /\ SaidBy(asked, tokens, n) /\ asked \in Asked
      BY <2>2, <3>1 DEF SaysInv
    <3>3. Fits(asked)
      BY <3>1, <3>2 DEF Fits, TypeOK
    <3>4. logic = asked.joins
      <4>1. asked.joins \in Seq({"AND", "OR"}) /\ Len(asked.joins) = n - 1
        BY <3>1, <3>2, AskedIs
      <4>2. logic \in Seq({"AND", "OR"})
        BY DEF TypeOK
      <4> QED
        BY <3>2, <4>1, <4>2, SameSeq
    <3>5. \A k \in 1..n : Means(k, asked.conds[k])
      BY <3>2 DEF SaidBy, At, Means, IsBetween
    <3> QED
      BY <3>1, <3>2, <3>3, <3>4, <3>5
  <2> QED
    BY <2>1, <2>2
<1>2. QED
  BY TypeCorrect, SaysCorrect, <1>1, PTL
=============================================================================
