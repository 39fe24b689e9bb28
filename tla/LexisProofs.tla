----------------------------- MODULE LexisProofs -----------------------------
(***************************************************************************)
(* Lemmas about the text helpers of Lexis, for all texts: strcmp and the   *)
(* value of a number, the tokens where_tokenize cuts a text into.          *)
(***************************************************************************)
EXTENDS Lexis, TLAPS, WellFoundedInduction, FiniteSetTheorems
-----------------------------------------------------------------------------
(* A set of positions has a least member.                                   *)
LEMMA LessThanOnNat == \A x, y \in Nat : <<x, y>> \in OpToRel(<, Nat) <=> x < y
BY Zenon DEF OpToRel

LEMMA Least ==
  ASSUME NEW S \in SUBSET Nat, S # {}
  PROVE  Min(S) \in S /\ \A x \in S : Min(S) <= x
<1> DEFINE R == OpToRel(<, Nat)
<1>1. IsWellFoundedOn(R, Nat)
  BY NatLessThanWellFounded, Zenon
<1>2. \A x, y \in Nat : <<x, y>> \in R <=> x < y
  BY LessThanOnNat, Zenon
<1> HIDE DEF R
<1>3. \E x \in S : \A y \in S : ~(<<y, x>> \in R)
  BY <1>1, WFMin
<1>4. \A x, y \in Nat : ~(<<y, x>> \in R) <=> ~(y < x)
  BY <1>2
<1>5. \A x, y \in Nat : ~(y < x) => x <= y
  OBVIOUS
<1>6. \E x \in S : \A y \in S : x <= y
  BY <1>3, <1>4, <1>5, Zenon
<1>7. QED
  BY <1>6 DEF Min

-----------------------------------------------------------------------------
(* strcmp and atol: what they make of texts and of numbers.                 *)
LEMMA ItemOf == ASSUME NEW S, NEW s \in Seq(S), NEW k \in 1..Len(s) PROVE s[k] \in S
OBVIOUS

LEMMA PartOf ==
  ASSUME NEW S, NEW s \in Seq(S), NEW a \in Nat \ {0}, NEW b \in Int, b <= Len(s)
  PROVE  SubSeq(s, a, b) \in Seq(S)
OBVIOUS

LEMMA Greatest ==
  ASSUME NEW n \in Nat, NEW S \in SUBSET (1..n), S # {}
  PROVE  Max(S) \in S /\ \A x \in S : x <= Max(S)
<1> DEFINE R == {n - k : k \in S}
<1>1. R \in SUBSET Nat /\ R # {}
  <2>1. PICK l \in S : TRUE
    OBVIOUS
  <2>2. n - l \in R
    OBVIOUS
  <2>3. \A j \in 1..n : n - j \in Nat
    OBVIOUS
  <2>4. \A x \in R : x \in Nat
    BY <2>3
  <2> QED
    BY <2>2, <2>4
<1>2. PICK m \in R : \A x \in R : m <= x
  BY <1>1, Least
<1>3. PICK k \in S : m = n - k
  BY <1>2
<1>4. \A l \in S : k >= l
  <2> SUFFICES ASSUME NEW l \in S PROVE k >= l
    OBVIOUS
  <2>1. m <= n - l
    BY <1>2
  <2>2. k \in Int /\ l \in Int
    OBVIOUS
  <2> QED
    BY <1>3, <2>1, <2>2
<1>5. PICK g : g = Max(S)
  OBVIOUS
<1>6. g \in S /\ \A l \in S : g >= l
  BY <1>4, <1>5 DEF Max
<1>7. \A x \in 1..n, y \in 1..n : x >= y => y <= x
  OBVIOUS
<1> QED
  BY <1>5, <1>6, <1>7

(* The first place of a symbol.                                              *)
Place(s, x) == SelectInSeq(s, LAMBDA y : y = x)

LEMMA PlaceIs ==
  ASSUME NEW s, NEW x, Len(s) \in Nat
  PROVE  /\ Place(s, x) \in 0..Len(s) /\ (Place(s, x) > 0 => s[Place(s, x)] = x)
         /\ \A k \in 1..Len(s) : s[k] = x => Place(s, x) > 0
<1> DEFINE I == {j \in 1..Len(s) : s[j] = x}
<1>1. I \in SUBSET Nat
  OBVIOUS
<1>2. I # {} => Min(I) \in I
  BY <1>1, Least
<1>3. Place(s, x) = IF I # {} THEN Min(I) ELSE 0
  BY DEF Place, SelectInSeq
<1>4. CASE I = {}
  BY <1>3, <1>4
<1>5. CASE I # {}
  <2>1. Place(s, x) \in I
    BY <1>2, <1>3, <1>5
  <2> QED
    BY <2>1
<1> QED
  BY <1>4, <1>5

LEMMA CodeIs ==
  /\ \A c : Code(c) \in Nat
  /\ \A c \in Range(CharCodes) : \A d : Code(c) = Code(d) => c = d
<1> DEFINE t == CharCodes
<1>1. Len(t) \in Nat /\ DOMAIN t = 1..Len(t)
  BY DEF CharCodes
<1>2. \A c : Code(c) = Place(t, c)
  BY Zenon DEF Code, Place
<1> HIDE DEF t
<1>4. \A c : /\ Code(c) \in 0..Len(t) /\ (Code(c) > 0 => t[Code(c)] = c)
             /\ \A k \in 1..Len(t) : t[k] = c => Code(c) > 0
  BY <1>1, <1>2, PlaceIs
<1>5. \A c \in Range(CharCodes) : \E k \in 1..Len(t) : t[k] = c
  BY <1>1 DEF Range, t
<1>6. ASSUME NEW c \in Range(CharCodes), NEW d, Code(c) = Code(d)
      PROVE  c = d
  <2>1. Code(c) > 0
    BY <1>4, <1>5
  <2> QED
    BY <1>4, <1>6, <2>1
<1> QED
  BY <1>1, <1>4, <1>6

(* strcmp tells two texts apart as soon as they differ.                      *)
LEMMA StrLessIs ==
  ASSUME NEW a, NEW b, Len(a) \in Nat, Len(b) \in Nat
  PROVE  StrLess(a, b) <=>
           \E k \in 1..Len(b) : /\ \A j \in 1..k - 1 : j <= Len(a) /\ a[j] = b[j]
                                /\ k > Len(a) \/ Code(a[k]) < Code(b[k])
BY DEF StrLess

LEMMA NotLessThanItself ==
  ASSUME NEW a, Len(a) \in Nat
  PROVE  ~StrLess(a, a)
<1>1. \A k \in 1..Len(a) : ~(k > Len(a)) /\ ~(Code(a[k]) < Code(a[k]))
  BY CodeIs
<1> QED
  BY <1>1, StrLessIs

LEMMA NeitherLess ==
  ASSUME NEW S, NEW a \in Seq(Range(CharCodes)), NEW b \in Seq(S), ~StrLess(a, b), ~StrLess(b, a)
  PROVE  a = b
<1>0. Len(a) \in Nat /\ Len(b) \in Nat
  OBVIOUS
<1> DEFINE D == {k \in Nat \ {0} : /\ k <= Len(a) \/ k <= Len(b)
                                   /\ k > Len(a) \/ k > Len(b) \/ a[k] # b[k]}
<1>1. D = {}
  <2> SUFFICES ASSUME D # {} PROVE FALSE
    OBVIOUS
  <2>1. D \in SUBSET Nat
    OBVIOUS
  <2>2. PICK k \in D : \A l \in D : k <= l
    BY <2>1, Least
  <2>3. \A j \in 1..k - 1 : j <= Len(a) /\ j <= Len(b) /\ a[j] = b[j]
    <3> SUFFICES ASSUME NEW j \in 1..k - 1 PROVE j <= Len(a) /\ j <= Len(b) /\ a[j] = b[j]
      OBVIOUS
    <3>1. j \in Nat \ {0} /\ j \notin D /\ k \in Nat
      BY <2>2
    <3>2. ~(k <= j) /\ (k <= Len(a) \/ k <= Len(b))
      BY <3>1
    <3> QED
      BY <1>0, <3>1, <3>2
  <2>4. CASE k > Len(a)
    <3>1. k \in 1..Len(b)
      BY <2>2, <2>4, <1>0
    <3>2. StrLess(a, b)
      BY <1>0, <2>3, <2>4, <3>1, StrLessIs
    <3> QED
      BY <3>2
  <2>5. CASE k > Len(b)
    <3>1. k \in 1..Len(a)
      BY <2>2, <2>5, <1>0
    <3>2. StrLess(b, a)
      BY <1>0, <2>3, <2>5, <3>1, StrLessIs
    <3> QED
      BY <3>2
  <2>6. CASE k <= Len(a) /\ k <= Len(b) /\ a[k] # b[k]
    <3>1. k \in 1..Len(a) /\ k \in 1..Len(b)
      BY <2>6, <1>0
    <3>2. a[k] \in Range(CharCodes)
      BY <3>1, ItemOf
    <3>3. Code(a[k]) # Code(b[k]) /\ Code(a[k]) \in Nat /\ Code(b[k]) \in Nat
      BY <2>6, <3>2, CodeIs
    <3>4. Code(a[k]) < Code(b[k]) => StrLess(a, b)
      BY <1>0, <2>3, <3>1, StrLessIs
    <3>5. Code(b[k]) < Code(a[k]) => StrLess(b, a)
      BY <1>0, <2>3, <3>1, StrLessIs
    <3> QED
      BY <3>3, <3>4, <3>5
  <2> QED
    BY <1>0, <2>2, <2>4, <2>5, <2>6
<1>2. \A k \in Nat \ {0} : k <= Len(a) \/ k <= Len(b) =>
                             k <= Len(a) /\ k <= Len(b) /\ a[k] = b[k]
  BY <1>0, <1>1
<1>3. Len(a) = Len(b)
  <2>1. Len(a) # 0 => Len(a) <= Len(b)
    BY <1>0, <1>2
  <2>2. Len(b) # 0 => Len(b) <= Len(a)
    BY <1>0, <1>2
  <2> QED
    BY <1>0, <2>1, <2>2
<1>4. \A k \in 1..Len(a) : a[k] = b[k]
  BY <1>0, <1>2
<1> QED
  BY <1>3, <1>4

(* A number is computed from its digits one after another. *)
Digit(d) == Place(DigitSeq, d) - 1
MagStep(t, f, s) == IF s = {} THEN 0 ELSE 10 * f[s \ {Max(s)}] + Digit(t[Max(s)])
MagOn(t, f, k) ==
  f \in [SUBSET (1..k) -> Int] /\ \A s \in SUBSET (1..k) : f[s] = MagStep(t, f, s)

LEMMA DigitIs == \A d : Digit(d) \in Int
<1> DEFINE t == DigitSeq
<1>1. Len(t) \in Nat
  BY DEF DigitSeq
<1> HIDE DEF t
<1>2. \A d : Place(t, d) \in 0..Len(t)
  BY <1>1, PlaceIs
<1> QED
  BY <1>1, <1>2 DEF Digit, t

LEMMA MagGrows ==
  ASSUME NEW t, NEW k \in Nat, NEW f, MagOn(t, f, k)
  PROVE  \E g : MagOn(t, g, k + 1)
<1> DEFINE V(s) == IF k + 1 \in s THEN 10 * f[s \ {k + 1}] + Digit(t[k + 1]) ELSE f[s]
           g == [s \in SUBSET (1..k + 1) |-> V(s)]
<1>1. \A s \in SUBSET (1..k + 1) : s \ {k + 1} \in SUBSET (1..k) /\ (k + 1 \notin s => s \in SUBSET (1..k))
  <2>1. \A x \in 1..k + 1 : x = k + 1 \/ x \in 1..k
    OBVIOUS
  <2> QED
    BY <2>1
<1>2. f \in [SUBSET (1..k) -> Int] /\ \A s \in SUBSET (1..k) : f[s] = MagStep(t, f, s)
  BY DEF MagOn
<1>3. \A s \in SUBSET (1..k + 1) : V(s) \in Int
  <2> SUFFICES ASSUME NEW s \in SUBSET (1..k + 1) PROVE V(s) \in Int
    OBVIOUS
  <2>1. CASE k + 1 \in s
    <3>1. f[s \ {k + 1}] \in Int /\ Digit(t[k + 1]) \in Int
      BY <1>1, <1>2, DigitIs
    <3> QED
      BY <2>1, <3>1
  <2>2. CASE k + 1 \notin s
    BY <1>1, <1>2, <2>2
  <2> QED
    BY <2>1, <2>2
<1>4. \A s \in SUBSET (1..k) : s \in SUBSET (1..k + 1) /\ k + 1 \notin s
  OBVIOUS
<1> HIDE DEF V
<1>5. \A s \in SUBSET (1..k + 1) : g[s] = V(s)
  OBVIOUS
<1>6. g \in [SUBSET (1..k + 1) -> Int]
  BY <1>3
<1> HIDE DEF g
<1>7. \A s \in SUBSET (1..k) : g[s] = f[s]
  BY <1>4, <1>5 DEF V
<1>8. ASSUME NEW s \in SUBSET (1..k + 1)
      PROVE  g[s] = MagStep(t, g, s)
  <2>1. CASE s = {}
    <3>1. s \in SUBSET (1..k)
      BY <2>1
    <3> QED
      BY <1>2, <1>7, <2>1, <3>1 DEF MagStep
  <2>2. CASE s # {} /\ k + 1 \in s
    <3>0. k + 1 \in Nat /\ s \in SUBSET (1..k + 1)
      OBVIOUS
    <3>1. PICK m : m = Max(s) /\ m \in s /\ \A x \in s : x <= m
      BY <2>2, <3>0, Greatest
    <3>2. Max(s) = k + 1
      <4>1. m \in 1..k + 1 /\ k + 1 <= m
        BY <2>2, <3>1
      <4> QED
        BY <3>1, <4>1
    <3>3. g[s \ {k + 1}] = f[s \ {k + 1}]
      BY <1>1, <1>7
    <3>4. g[s] = 10 * f[s \ {k + 1}] + Digit(t[k + 1])
      BY <1>5, <2>2 DEF V
    <3> QED
      BY <2>2, <3>2, <3>3, <3>4, Zenon DEF MagStep
  <2>3. CASE s # {} /\ k + 1 \notin s
    <3>1. s \in SUBSET (1..k)
      BY <1>1, <2>3
    <3>2. g[s] = MagStep(t, f, s)
      BY <1>2, <1>7, <3>1
    <3>3. g[s \ {Max(s)}] = f[s \ {Max(s)}]
      BY <1>7, <3>1
    <3> QED
      BY <3>2, <3>3, Zenon DEF MagStep
  <2> QED
    BY <2>1, <2>2, <2>3
<1> QED
  BY <1>6, <1>8 DEF MagOn

LEMMA MagExists ==
  ASSUME NEW t, NEW n \in Nat
  PROVE  \E f : MagOn(t, f, n)
<1> DEFINE P(k) == \E f : MagOn(t, f, k)
           B == {k \in Nat : ~P(k)}
<1>1. P(0)
  <2> DEFINE f == [s \in {{}} |-> 0]
  <2>1. SUBSET (1..0) = {{}}
    OBVIOUS
  <2>2. f \in [{{}} -> Int] /\ f[{}] = 0
    OBVIOUS
  <2> HIDE DEF f
  <2>3. \A s \in {{}} : f[s] = MagStep(t, f, s)
    BY <2>2 DEF MagStep
  <2>4. MagOn(t, f, 0)
    BY <2>1, <2>2, <2>3, Zenon DEF MagOn
  <2> QED
    BY <2>4
<1>2. \A k \in Nat : P(k) => P(k + 1)
  BY MagGrows
<1> HIDE DEF P
<1>3. B = {}
  <2> SUFFICES ASSUME B # {} PROVE FALSE
    OBVIOUS
  <2>0. B \in SUBSET Nat
    OBVIOUS
  <2>1. PICK k \in B : \A l \in B : k <= l
    BY <2>0, Least
  <2>2. k \in Nat /\ ~P(k) /\ k # 0
    BY <1>1
  <2>3. k - 1 \in Nat /\ ~(k <= k - 1) /\ (k - 1) + 1 = k
    BY <2>2
  <2>4. P(k - 1)
    BY <2>1, <2>3
  <2> QED
    BY <1>2, <2>2, <2>3, <2>4
<1>4. P(n)
  BY <1>3
<1> QED
  BY <1>4 DEF P

LEMMA MagnitudeIs ==
  ASSUME NEW S, NEW t \in Seq(S)
  PROVE  Magnitude(t) \in Int
<1> DEFINE It(f) == f = [s \in SUBSET (DOMAIN t) |-> MagStep(t, f, s)]
           c == CHOOSE f : It(f)
<1>1. PICK n \in Nat : n = Len(t) /\ DOMAIN t = 1..n
  OBVIOUS
<1>2. Magnitude(t) = c[DOMAIN t]
  BY DEF Magnitude, FoldLeft, MapThenFoldSet, MagStep, Digit, Place
<1>3. It(c)
  <2>1. PICK f : MagOn(t, f, n)
    BY MagExists
  <2>2. f = [s \in SUBSET (1..n) |-> f[s]]
    BY <2>1 DEF MagOn
  <2>3. It(f)
    BY <1>1, <2>1, <2>2, Zenon DEF MagOn
  <2> QED
    BY <2>3, Zenon
<1>4. PICK d : d = c
  OBVIOUS
<1> HIDE DEF c
<1>5. \A s \in SUBSET (1..n) : d[s] = MagStep(t, d, s)
  <2>1. It(d)
    BY <1>3, <1>4, Zenon
  <2> QED
    BY <1>1, <2>1, Zenon
<1> DEFINE P(k) == \A s \in SUBSET (1..k) : d[s] \in Int
           B == {k \in 0..n : ~P(k)}
<1>6. P(0)
  <2>1. SUBSET (1..0) = {{}} /\ {} \in SUBSET (1..n)
    OBVIOUS
  <2>2. d[{}] = 0
    BY <1>5, <2>1, Zenon DEF MagStep
  <2> SUFFICES ASSUME NEW s \in SUBSET (1..0) PROVE d[s] \in Int
    OBVIOUS
  <2>3. s = {}
    BY <2>1
  <2> QED
    BY <2>2, <2>3
<1>7. ASSUME NEW k \in 1..n, \A l \in 0..k - 1 : P(l)
      PROVE  P(k)
  <2> SUFFICES ASSUME NEW s \in SUBSET (1..k) PROVE d[s] \in Int
    OBVIOUS
  <2>1. s \in SUBSET (1..n)
    OBVIOUS
  <2>2. CASE s = {}
    <3>1. d[s] = 0
      BY <1>5, <2>1, <2>2, Zenon DEF MagStep
    <3> QED
      BY <3>1
  <2>3. CASE s # {}
    <3>0. k \in Nat
      OBVIOUS
    <3>1. PICK m : m = Max(s) /\ m \in s /\ \A x \in s : x <= m
      BY <2>3, <3>0, Greatest
    <3>2. m \in 1..k /\ m - 1 \in 0..k - 1
      BY <3>1
    <3>6. s \ {m} \in SUBSET (1..m - 1)
      <4> SUFFICES ASSUME NEW x \in s \ {m} PROVE x \in 1..m - 1
        OBVIOUS
      <4>1. x \in 1..k /\ x <= m /\ x # m
        BY <3>1
      <4> QED
        BY <3>2, <4>1
    <3>3. d[s \ {Max(s)}] \in Int
      BY <1>7, <3>1, <3>2, <3>6
    <3>4. d[s] = 10 * d[s \ {Max(s)}] + Digit(t[Max(s)])
      BY <1>5, <2>1, <2>3, Zenon DEF MagStep
    <3>5. Digit(t[Max(s)]) \in Int
      BY DigitIs
    <3> QED
      BY <3>3, <3>4, <3>5
  <2> QED
    BY <2>2, <2>3
<1> HIDE DEF P
<1>8. B = {}
  <2> SUFFICES ASSUME B # {} PROVE FALSE
    OBVIOUS
  <2>0. B \in SUBSET Nat
    OBVIOUS
  <2>1. PICK k \in B : \A l \in B : k <= l
    BY <2>0, Least
  <2>2. k \in 0..n /\ ~P(k)
    OBVIOUS
  <2>3. k \in 1..n
    BY <1>6, <2>2
  <2>4. \A l \in 0..k - 1 : P(l)
    <3> SUFFICES ASSUME NEW l \in 0..k - 1 PROVE P(l)
      OBVIOUS
    <3>1. l \in 0..n /\ ~(k <= l)
      BY <2>2
    <3> QED
      BY <2>1, <3>1
  <2> QED
    BY <1>7, <2>2, <2>3, <2>4
<1>9. P(n)
  BY <1>8
<1>10. d[1..n] \in Int
  BY <1>9 DEF P
<1> QED
  BY <1>1, <1>2, <1>4, <1>10

LEMMA NumberIs ==
  ASSUME NEW S, NEW s \in Seq(S), IsInt(s)
  PROVE  Number(s) \in Int
<1>1. s # << >>
  BY DEF IsInt, Unsigned
<1>2. Tail(s) \in Seq(S) /\ Unsigned(s) \in Seq(S)
  BY <1>1 DEF Unsigned
<1>3. Magnitude(Tail(s)) \in Int /\ Magnitude(Unsigned(s)) \in Int
  BY <1>2, MagnitudeIs
<1> QED
  BY <1>3 DEF Number

(* What follows from all smaller numbers up to n holds up to n.              *)
LEMMA UpTo ==
  ASSUME NEW n \in Nat, NEW G, \A k \in 0..n : (\A l \in 0..k - 1 : l \in G) => k \in G
  PROVE  \A k \in 0..n : k \in G
<1> DEFINE B == {k \in 0..n : k \notin G}
<1> SUFFICES ASSUME B # {} PROVE FALSE
  OBVIOUS
<1>1. B \in SUBSET Nat
  OBVIOUS
<1>2. PICK k \in B : \A l \in B : k <= l
  BY <1>1, Least
<1>3. k \in 0..n /\ k \notin G
  OBVIOUS
<1>4. \A l \in 0..k - 1 : l \in G
  <2> SUFFICES ASSUME NEW l \in 0..k - 1 PROVE l \in G
    OBVIOUS
  <2>1. l \in 0..n /\ ~(k <= l)
    BY <1>3
  <2> QED
    BY <1>2, <2>1
<1> QED
  BY <1>3, <1>4
-----------------------------------------------------------------------------
(* where_tokenize: the tokens of a text over some symbols are texts over    *)
(* them.                                                                    *)
LEMMA TrimText ==
  ASSUME NEW S, NEW s \in Seq(S)
  PROVE  Trim(s) \in Seq(S)
<1> DEFINE I == {j \in 1..Len(s) : s[j] # Blank}
<1>0. Len(s) \in Nat /\ I \in SUBSET (1..Len(s)) /\ I \in SUBSET Nat
  OBVIOUS
<1>1. CASE I = {}
  <2>1. Trim(s) = << >>
    BY <1>1, Zenon DEF Trim
  <2> QED
    BY <2>1
<1>2. CASE I # {}
  <2>1. Trim(s) = SubSeq(s, Min(I), Max(I))
    BY <1>2, Zenon DEF Trim
  <2>2. PICK a \in I : a = Min(I)
    BY <1>0, <1>2, Least
  <2>3. PICK b \in I : b = Max(I)
    BY <1>0, <1>2, Greatest
  <2>4. a \in Nat \ {0} /\ b \in Int /\ b <= Len(s)
    OBVIOUS
  <2>5. SubSeq(s, a, b) \in Seq(S)
    BY <2>4, PartOf
  <2> QED
    BY <2>1, <2>2, <2>3, <2>5
<1> QED
  BY <1>1, <1>2

LEMMA CleanText ==
  ASSUME NEW S, NEW s \in Seq(S)
  PROVE  CleanToken(CutValue(s)) \in Seq(S)
<1>1. PICK m \in Nat : m = Min({Len(s), MaxValue}) /\ m <= Len(s)
  <2>1. {Len(s), MaxValue} \in SUBSET Nat /\ {Len(s), MaxValue} # {}
    BY LexisAssumption DEF LexisAssumption
  <2>2. /\ Min({Len(s), MaxValue}) \in {Len(s), MaxValue}
        /\ \A x \in {Len(s), MaxValue} : Min({Len(s), MaxValue}) <= x
    BY <2>1, Least
  <2> QED
    BY <2>1, <2>2
<1>2. CutValue(s) \in Seq(S)
  <2>1. SubSeq(s, 1, m) \in Seq(S)
    <3>1. 1 \in Nat \ {0} /\ m \in Int
      OBVIOUS
    <3> QED
      BY <1>1, <3>1, PartOf
  <2> QED
    BY <1>1, <2>1 DEF CutValue
<1> DEFINE u == Trim(CutValue(s))
<1>3. u \in Seq(S)
  BY <1>2, TrimText
<1> HIDE DEF u
<1>4. Unquote(u) \in Seq(S)
  <2>1. SubSeq(u, 2, Len(u) - 1) \in Seq(S)
    <3>1. 2 \in Nat \ {0} /\ Len(u) - 1 \in Int /\ Len(u) - 1 <= Len(u)
      BY <1>3
    <3> QED
      BY <1>3, <3>1, PartOf
  <2> QED
    BY <1>3, <2>1 DEF Unquote
<1> QED
  BY <1>4 DEF CleanToken, u

LEMMA FirstOfIs ==
  ASSUME NEW s, Len(s) \in Nat, NEW from \in Nat \ {0}, NEW set, NEW other
  PROVE  LET q == FirstOf(s, from, set, other)
         IN  q = other \/ (q \in from..Len(s) /\ s[q] \in set)
<1> DEFINE I == {j \in from..Len(s) : s[j] \in set}
<1>1. I \in SUBSET Nat
  OBVIOUS
<1>2. I # {} => Min(I) \in I
  BY <1>1, Least
<1> DEFINE j == SelectInSubSeq(s, from, Len(s), LAMBDA c : c \in set)
<1>3. j = IF I # {} THEN Min(I) ELSE 0
  BY DEF SelectInSubSeq
<1>4. FirstOf(s, from, set, other) = IF j = 0 THEN other ELSE j
  BY Zenon DEF FirstOf
<1> HIDE DEF j
<1>5. CASE I = {}
  BY <1>3, <1>4, <1>5
<1>6. CASE I # {}
  <2>1. j \in I
    BY <1>2, <1>3, <1>6
  <2> QED
    BY <1>4, <2>1
<1> QED
  BY <1>5, <1>6

LEMMA TokenIs ==
  ASSUME NEW S, NEW s \in Seq(S), NEW p \in 1..Len(s), s[p] # Blank
  PROVE  TokenAt(s, p).text \in Seq(S) /\ TokenAt(s, p).next \in p + 1..Len(s) + 1
<1> DEFINE n == Len(s)
<1>0. n \in Nat /\ p \in Nat /\ p >= 1 /\ p <= n
  OBVIOUS
<1>1. CASE s[p] \in Quotes
  <2> DEFINE q == FirstOf(s, p + 1, {s[p]}, n + 1)
             m == Min({q + 1, n + 1})
  <2>1. TokenAt(s, p) = [text |-> SubSeq(s, p + 1, q - 1), next |-> m]
    BY <1>1, Zenon DEF TokenAt, QuotedToken
  <2>2. q \in p + 1..n + 1
    <3>1. p + 1 \in Nat \ {0}
      BY <1>0
    <3>2. q = n + 1 \/ q \in p + 1..n
      BY <1>0, <3>1, FirstOfIs
    <3> QED
      BY <1>0, <3>2
  <2> HIDE DEF q
  <2>3. m \in {q + 1, n + 1}
    <3>1. {q + 1, n + 1} \in SUBSET Nat /\ {q + 1, n + 1} # {}
      BY <1>0, <2>2
    <3> QED
      BY <3>1, Least
  <2>4. m <= n + 1
    <3>1. {q + 1, n + 1} \in SUBSET Nat /\ {q + 1, n + 1} # {}
      BY <1>0, <2>2
    <3>2. \A x \in {q + 1, n + 1} : Min({q + 1, n + 1}) <= x
      BY <3>1, Least
    <3> QED
      BY <3>2
  <2>5. SubSeq(s, p + 1, q - 1) \in Seq(S)
    <3>1. p + 1 \in Nat \ {0} /\ q - 1 \in Int /\ q - 1 <= n
      BY <1>0, <2>2
    <3> QED
      BY <3>1, PartOf
  <2> HIDE DEF m
  <2>6. m \in p + 1..n + 1
    BY <1>0, <2>2, <2>3, <2>4
  <2> QED
    BY <2>1, <2>5, <2>6
<1>2. CASE s[p] \notin Quotes /\ s[p] \in Operators
  <2>1. TokenAt(s, p) = OperatorToken(s, p)
    BY <1>2, Zenon DEF TokenAt
  <2>2. SubSeq(s, p, p + 1) \in Seq(S) \/ ~(p < n)
    <3>1. p \in Nat \ {0} /\ p + 1 \in Int
      BY <1>0
    <3>2. p < n => p + 1 <= n
      BY <1>0
    <3> QED
      BY <3>1, <3>2, PartOf
  <2>3. <<s[p]>> \in Seq(S)
    <3>1. s[p] \in S
      BY ItemOf
    <3> QED
      BY <3>1
  <2>4. CASE p < n /\ <<s[p], s[p + 1]>> \in Pairs
    <3>1. TokenAt(s, p) = [text |-> SubSeq(s, p, p + 1), next |-> p + 2]
      BY <2>1, <2>4, Zenon DEF OperatorToken
    <3>2. p + 2 \in p + 1..n + 1
      BY <1>0, <2>4
    <3> QED
      BY <2>2, <2>4, <3>1, <3>2
  <2>5. CASE ~(p < n /\ <<s[p], s[p + 1]>> \in Pairs)
    <3>1. TokenAt(s, p) = [text |-> <<s[p]>>, next |-> p + 1]
      BY <2>1, <2>5, Zenon DEF OperatorToken
    <3>2. p + 1 \in p + 1..n + 1
      BY <1>0
    <3> QED
      BY <2>3, <3>1, <3>2
  <2> QED
    BY <2>4, <2>5
<1>3. CASE s[p] \notin Quotes /\ s[p] \notin Operators
  <2> DEFINE q == FirstOf(s, p, Operators \cup {Blank}, n + 1)
  <2>1. TokenAt(s, p) = [text |-> SubSeq(s, p, q - 1), next |-> q]
    BY <1>3, Zenon DEF TokenAt, WordToken
  <2>2. q = n + 1 \/ (q \in p..n /\ s[q] \in Operators \cup {Blank})
    BY <1>0, FirstOfIs
  <2> HIDE DEF q
  <2>3. q \in p + 1..n + 1
    BY <1>0, <1>3, <2>2
  <2>4. SubSeq(s, p, q - 1) \in Seq(S)
    <3>1. p \in Nat \ {0} /\ q - 1 \in Int /\ q - 1 <= n
      BY <1>0, <2>3
    <3> QED
      BY <3>1, PartOf
  <2> QED
    BY <2>1, <2>3, <2>4
<1> QED
  BY <1>1, <1>2, <1>3

(* One round of where_tokenize's loop, the tokens of what is left given by f.*)
NextSolid(s, p) == SelectInSubSeq(s, p, Len(s), LAMBDA c : c # Blank)
TokenStep(s, f, p) ==
  LET q == NextSolid(s, p)
  IN  IF q = 0 THEN << >>
      ELSE LET t == TokenAt(s, q)
           IN  <<CleanToken(CutValue(t.text))>> \o f[t.next]

LEMMA NextSolidIs ==
  ASSUME NEW s, Len(s) \in Nat, NEW p \in Nat \ {0}
  PROVE  NextSolid(s, p) # 0 => NextSolid(s, p) \in p..Len(s) /\ s[NextSolid(s, p)] # Blank
<1> DEFINE I == {j \in p..Len(s) : s[j] # Blank}
<1>1. I \in SUBSET Nat
  OBVIOUS
<1>2. I # {} => Min(I) \in I
  BY <1>1, Least
<1>3. NextSolid(s, p) = IF I # {} THEN Min(I) ELSE 0
  BY DEF NextSolid, SelectInSubSeq
<1>4. CASE I = {}
  BY <1>3, <1>4
<1>5. CASE I # {}
  <2>1. NextSolid(s, p) \in I
    BY <1>2, <1>3, <1>5
  <2> QED
    BY <2>1
<1> QED
  BY <1>4, <1>5

NoToken(s, p) == \A g : TokenStep(s, g, p) = << >>
OneToken(s, p, t, q) == \A g : TokenStep(s, g, p) = <<t>> \o g[q]

LEMMA TokenStepIs ==
  ASSUME NEW S, NEW s \in Seq(S), NEW p \in 1..Len(s) + 1
  PROVE  \/ NoToken(s, p)
         \/ \E t \in Seq(S), q \in p + 1..Len(s) + 1 : OneToken(s, p, t, q)
<1> DEFINE q == NextSolid(s, p)
           t == TokenAt(s, q)
<1>0. Len(s) \in Nat /\ p \in Nat \ {0}
  OBVIOUS
<1>1. CASE q = 0
  <2>1. NoToken(s, p)
    BY <1>1, Zenon DEF TokenStep, NoToken
  <2> QED
    BY <2>1
<1>2. CASE q # 0
  <2>1. q \in p..Len(s) /\ s[q] # Blank
    BY <1>0, <1>2, NextSolidIs
  <2>2. OneToken(s, p, CleanToken(CutValue(t.text)), t.next)
    BY <1>2, Zenon DEF TokenStep, OneToken
  <2> HIDE DEF q
  <2>3. t.text \in Seq(S) /\ t.next \in q + 1..Len(s) + 1
    <3>1. q \in 1..Len(s)
      BY <1>0, <2>1
    <3> QED
      BY <2>1, <3>1, TokenIs
  <2> HIDE DEF t
  <2>4. CleanToken(CutValue(t.text)) \in Seq(S)
    BY <2>3, CleanText
  <2>5. t.next \in p + 1..Len(s) + 1
    BY <1>0, <2>1, <2>3
  <2> QED
    BY <2>2, <2>4, <2>5
<1> QED
  BY <1>1, <1>2

TokensFrom(s, f, a) == \A p \in a..Len(s) + 1 : f[p] = TokenStep(s, f, p)

LEMMA TokensExist ==
  ASSUME NEW S, NEW s \in Seq(S)
  PROVE  \E f : TokensFrom(s, f, 1)
<1> DEFINE n == Len(s)
           P(k) == \E f : TokensFrom(s, f, n + 2 - k)
           G == {k \in 0..n + 1 : P(k)}
<1>0. n \in Nat
  OBVIOUS
<1>1. P(0)
  <2>1. TokensFrom(s, s, n + 2 - 0)
    BY <1>0 DEF TokensFrom
  <2> QED
    BY <2>1
<1>2. ASSUME NEW k \in 1..n + 1, P(k - 1)
      PROVE  P(k)
  <2>1. PICK a \in 1..n + 1 : a = n + 2 - k
    BY <1>0
  <2>2. PICK f : TokensFrom(s, f, a + 1)
    <3>1. n + 2 - (k - 1) = a + 1
      BY <1>0, <2>1
    <3> QED
      BY <1>2, <3>1
  <2> DEFINE g == [p \in 1..n + 1 |-> IF p = a THEN TokenStep(s, f, p) ELSE f[p]]
  <2>3. \A p \in 1..n + 1 : g[p] = IF p = a THEN TokenStep(s, f, p) ELSE f[p]
    BY Zenon
  <2> HIDE DEF g
  <2>4. ASSUME NEW p \in a..n + 1
        PROVE  TokenStep(s, g, p) = TokenStep(s, f, p)
    <3>0. p \in 1..n + 1
      BY <1>0
    <3>1. \/ NoToken(s, p)
          \/ \E t \in Seq(S), q \in p + 1..n + 1 : OneToken(s, p, t, q)
      BY <3>0, TokenStepIs
    <3>2. CASE NoToken(s, p)
      BY <3>2 DEF NoToken
    <3>3. CASE \E t \in Seq(S), q \in p + 1..n + 1 : OneToken(s, p, t, q)
      <4>1. PICK t \in Seq(S), q \in p + 1..n + 1 : OneToken(s, p, t, q)
        BY <3>3
      <4>2. g[q] = f[q]
        BY <1>0, <2>1, <2>3
      <4> QED
        BY <4>1, <4>2 DEF OneToken
    <3> QED
      BY <3>1, <3>2, <3>3
  <2>5. TokensFrom(s, g, a)
    <3> SUFFICES ASSUME NEW p \in a..n + 1 PROVE g[p] = TokenStep(s, g, p)
      BY DEF TokensFrom
    <3>0. p \in 1..n + 1
      BY <1>0
    <3>1. CASE p = a
      BY <2>3, <2>4, <3>0, <3>1
    <3>2. CASE p # a
      <4>1. p \in a + 1..n + 1
        BY <3>2
      <4>2. f[p] = TokenStep(s, f, p)
        BY <2>2, <4>1 DEF TokensFrom
      <4> QED
        BY <2>3, <2>4, <3>0, <3>2, <4>2
    <3> QED
      BY <3>1, <3>2
  <2> QED
    BY <2>1, <2>5
<1> HIDE DEF P
<1>3. \A k \in 0..n + 1 : (\A l \in 0..k - 1 : l \in G) => k \in G
  <2> SUFFICES ASSUME NEW k \in 0..n + 1, \A l \in 0..k - 1 : l \in G PROVE P(k)
    OBVIOUS
  <2>1. CASE k = 0
    BY <1>1, <2>1
  <2>2. CASE k # 0
    <3>1. k - 1 \in 0..k - 1 /\ k \in 1..n + 1
      BY <2>2
    <3> QED
      BY <1>2, <3>1
  <2> QED
    BY <2>1, <2>2
<1> HIDE DEF G
<1>4. \A k \in 0..n + 1 : k \in G
  <2>1. n + 1 \in Nat
    BY <1>0
  <2> QED
    BY <1>3, <2>1, UpTo
<1>5. P(n + 1)
  <2>1. n + 1 \in 0..n + 1
    BY <1>0
  <2> QED
    BY <1>4, <2>1 DEF G
<1>6. n + 2 - (n + 1) = 1
  BY <1>0
<1> QED
  BY <1>5, <1>6 DEF P

LEMMA TokensAre ==
  ASSUME NEW S, NEW s \in Seq(S)
  PROVE  \E d : Tokens(s) = d[1] /\ TokensFrom(s, d, 1)
<1> DEFINE n == Len(s)
           It(f) == f = [p \in 1..n + 1 |-> TokenStep(s, f, p)]
           c == CHOOSE f : It(f)
<1>0. n \in Nat
  OBVIOUS
<1>1. Tokens(s) = c[1]
  BY DEF Tokens, TokenStep, NextSolid
<1>2. It(c)
  <2>1. PICK f : TokensFrom(s, f, 1)
    BY TokensExist
  <2> DEFINE g == [p \in 1..n + 1 |-> f[p]]
  <2>2. \A p \in 1..n + 1 : g[p] = f[p] /\ g[p] = TokenStep(s, f, p)
    BY <2>1, Zenon DEF TokensFrom
  <2>3. g = [p \in 1..n + 1 |-> g[p]]
    BY Zenon
  <2> HIDE DEF g
  <2>4. \A p \in 1..n + 1 : TokenStep(s, g, p) = TokenStep(s, f, p)
    <3> SUFFICES ASSUME NEW p \in 1..n + 1 PROVE TokenStep(s, g, p) = TokenStep(s, f, p)
      OBVIOUS
    <3>1. \/ NoToken(s, p)
          \/ \E t \in Seq(S), q \in p + 1..n + 1 : OneToken(s, p, t, q)
      BY TokenStepIs
    <3>2. CASE NoToken(s, p)
      BY <3>2 DEF NoToken
    <3>3. CASE \E t \in Seq(S), q \in p + 1..n + 1 : OneToken(s, p, t, q)
      <4>1. PICK t \in Seq(S), q \in p + 1..n + 1 : OneToken(s, p, t, q)
        BY <3>3
      <4>2. g[q] = f[q]
        BY <1>0, <2>2
      <4> QED
        BY <4>1, <4>2 DEF OneToken
    <3> QED
      BY <3>1, <3>2, <3>3
  <2>5. It(g)
    BY <2>2, <2>3, <2>4, Zenon
  <2> QED
    BY <2>5, Zenon
<1>3. PICK d : d = c
  OBVIOUS
<1> HIDE DEF c
<1>4. \A p \in 1..n + 1 : d[p] = TokenStep(s, d, p)
  <2>1. It(d)
    BY <1>2, <1>3, Zenon
  <2> QED
    BY <2>1, Zenon
<1> QED
  BY <1>1, <1>3, <1>4 DEF TokensFrom

LEMMA TokensText ==
  ASSUME NEW S, NEW s \in Seq(S)
  PROVE  Tokens(s) \in Seq(Seq(S))
<1> DEFINE n == Len(s)
<1>0. n \in Nat
  OBVIOUS
<1>1. PICK d : Tokens(s) = d[1] /\ TokensFrom(s, d, 1)
  BY TokensAre
<1>4. \A p \in 1..n + 1 : d[p] = TokenStep(s, d, p)
  BY <1>1 DEF TokensFrom
<1> DEFINE G == {k \in 0..n : d[n + 1 - k] \in Seq(Seq(S))}
<1>5. \A k \in 0..n : (\A l \in 0..k - 1 : l \in G) => k \in G
  <2> SUFFICES ASSUME NEW k \in 0..n, \A l \in 0..k - 1 : l \in G
               PROVE  d[n + 1 - k] \in Seq(Seq(S))
    OBVIOUS
  <2>0. n + 1 - k \in 1..n + 1
    BY <1>0
  <2>1. PICK p \in 1..n + 1 : p = n + 1 - k
    BY <2>0
  <2>2. \A q \in p + 1..n + 1 : d[q] \in Seq(Seq(S))
    <3> SUFFICES ASSUME NEW q \in p + 1..n + 1 PROVE d[q] \in Seq(Seq(S))
      OBVIOUS
    <3>1. n + 1 - q \in 0..k - 1 /\ n + 1 - (n + 1 - q) = q
      BY <1>0, <2>1
    <3>2. n + 1 - q \in G
      BY <3>1
    <3> QED
      BY <3>1, <3>2
  <2>3. d[p] = TokenStep(s, d, p)
    BY <1>4
  <2>4. \/ NoToken(s, p)
        \/ \E t \in Seq(S), q \in p + 1..n + 1 : OneToken(s, p, t, q)
    BY TokenStepIs
  <2>5. CASE NoToken(s, p)
    <3>1. d[p] = << >>
      BY <2>3, <2>5 DEF NoToken
    <3>2. \A U : << >> \in Seq(U)
      OBVIOUS
    <3>3. d[p] \in Seq(Seq(S))
      BY <3>1, <3>2
    <3> QED
      BY <2>1, <3>3
  <2>6. CASE \E t \in Seq(S), q \in p + 1..n + 1 : OneToken(s, p, t, q)
    <3>1. PICK t \in Seq(S), q \in p + 1..n + 1 : OneToken(s, p, t, q)
      BY <2>6
    <3>2. d[p] = <<t>> \o d[q] /\ d[q] \in Seq(Seq(S))
      BY <2>2, <2>3, <3>1 DEF OneToken
    <3>3. \A U : \A x \in U, y \in Seq(U) : <<x>> \o y \in Seq(U)
      OBVIOUS
    <3> QED
      BY <2>1, <3>1, <3>2, <3>3
  <2> QED
    BY <2>4, <2>5, <2>6
<1> HIDE DEF G
<1>6. n \in G
  <2>1. \A k \in 0..n : k \in G
    BY <1>0, <1>5, UpTo
  <2> QED
    BY <1>0, <2>1
<1>7. d[1] \in Seq(Seq(S))
  <2>1. n + 1 - n = 1
    BY <1>0
  <2> QED
    BY <1>6, <2>1 DEF G
<1> QED
  BY <1>1, <1>7

(* The tokens of a text behind another text do not depend on what is before. *)
LEMMA Behind ==
  ASSUME NEW S, NEW w \in Seq(S), NEW u \in Seq(S)
  PROVE  /\ w \o u \in Seq(S) /\ Len(w \o u) = Len(w) + Len(u)
         /\ Len(w) \in Nat /\ Len(u) \in Nat
         /\ \A j \in 1..Len(u) : (w \o u)[Len(w) + j] = u[j]
         /\ \A j \in 1..Len(w) : (w \o u)[j] = w[j]
OBVIOUS

LEMMA MinOfTwo ==
  ASSUME NEW a \in Nat, NEW b \in Nat
  PROVE  Min({a, b}) = IF a <= b THEN a ELSE b
<1>1. {a, b} \in SUBSET Nat /\ {a, b} # {}
  OBVIOUS
<1>2. Min({a, b}) \in {a, b} /\ \A x \in {a, b} : Min({a, b}) <= x
  BY <1>1, Least
<1> QED
  BY <1>2

LEMMA FirstOfOnly ==
  ASSUME NEW s, Len(s) \in Nat, NEW from \in Nat \ {0}, NEW set, NEW other
  PROVE  /\ \A q \in from..Len(s) :
              s[q] \in set /\ (\A j \in from..q - 1 : s[j] \notin set)
              => FirstOf(s, from, set, other) = q
         /\ (\A j \in from..Len(s) : s[j] \notin set) => FirstOf(s, from, set, other) = other
         /\ \/ \A j \in from..Len(s) : s[j] \notin set
            \/ \E q \in from..Len(s) : s[q] \in set /\ \A j \in from..q - 1 : s[j] \notin set
<1> DEFINE I == {j \in from..Len(s) : s[j] \in set}
<1>1. I \in SUBSET Nat
  OBVIOUS
<1>2. I # {} => Min(I) \in I /\ \A x \in I : Min(I) <= x
  BY <1>1, Least
<1> DEFINE j == SelectInSubSeq(s, from, Len(s), LAMBDA c : c \in set)
<1>3. j = IF I # {} THEN Min(I) ELSE 0
  BY DEF SelectInSubSeq
<1>4. FirstOf(s, from, set, other) = IF j = 0 THEN other ELSE j
  BY Zenon DEF FirstOf
<1> HIDE DEF j
<1>5. CASE I = {}
  <2>1. \A k \in from..Len(s) : s[k] \notin set
    BY <1>5
  <2>2. FirstOf(s, from, set, other) = other
    BY <1>3, <1>4, <1>5
  <2> QED
    BY <2>1, <2>2
<1>6. CASE I # {}
  <2>1. PICK m \in I : m = Min(I) /\ \A x \in I : m <= x
    BY <1>2, <1>6
  <2>2. FirstOf(s, from, set, other) = m
    BY <1>3, <1>4, <1>6, <2>1
  <2>3. m \in from..Len(s) /\ s[m] \in set
    BY <2>1
  <2>4. ASSUME NEW k \in from..m - 1 PROVE s[k] \notin set
    <3>1. k \in from..Len(s) /\ ~(m <= k)
      BY <2>3
    <3> QED
      BY <2>1, <3>1
  <2>5. ASSUME NEW q \in from..Len(s), s[q] \in set, \A k \in from..q - 1 : s[k] \notin set
        PROVE  q = m
    <3>1. m <= q
      BY <2>1, <2>5
    <3>2. ~(m < q)
      BY <2>3, <2>5
    <3> QED
      BY <2>3, <3>1, <3>2
  <2> QED
    BY <2>2, <2>3, <2>4, <2>5
<1> QED
  BY <1>5, <1>6

LEMMA SameSeq ==
  ASSUME NEW S, NEW x \in Seq(S), NEW y \in Seq(S), Len(x) = Len(y), \A j \in 1..Len(x) : x[j] = y[j]
  PROVE  x = y
OBVIOUS

LEMMA FirstOfAt ==
  ASSUME NEW s, Len(s) \in Nat, NEW from \in Nat \ {0}, NEW set, NEW other,
         NEW q \in from..Len(s), s[q] \in set, \A j \in from..q - 1 : s[j] \notin set
  PROVE  FirstOf(s, from, set, other) = q
BY FirstOfOnly

EndsIn(s, u, n) == Len(s) = n + Len(u) /\ \A j \in 1..Len(u) : s[n + j] = u[j]

LEMMA FirstOfBehind ==
  ASSUME NEW s, NEW u, NEW n \in Nat, Len(u) \in Nat, EndsIn(s, u, n),
         NEW from \in Nat \ {0}, NEW set, NEW other \in Nat
  PROVE  FirstOf(s, n + from, set, n + other) = n + FirstOf(u, from, set, other)
<1>0. Len(u) \in Nat
  OBVIOUS
<1>1. Len(s) = n + Len(u) /\ \A j \in 1..Len(u) : s[n + j] = u[j]
  BY DEF EndsIn
<1>2. CASE \A j \in from..Len(u) : u[j] \notin set
  <2>1. FirstOf(u, from, set, other) = other
    BY <1>0, <1>2, FirstOfOnly
  <2>2. ASSUME NEW j \in n + from..Len(s)
        PROVE  s[j] \notin set
    <3>1. j - n \in from..Len(u) /\ j - n \in 1..Len(u) /\ n + (j - n) = j
      BY <1>0, <1>1
    <3> QED
      BY <1>1, <1>2, <3>1
  <2>3. FirstOf(s, n + from, set, n + other) = n + other
    <3>1. n + from \in Nat \ {0} /\ Len(s) \in Nat
      BY <1>0, <1>1
    <3> QED
      BY <2>2, <3>1, FirstOfOnly
  <2> QED
    BY <2>1, <2>3
<1>3. CASE \E q \in from..Len(u) : u[q] \in set /\ \A j \in from..q - 1 : u[j] \notin set
  <2>1. PICK q \in from..Len(u) : u[q] \in set /\ \A j \in from..q - 1 : u[j] \notin set
    BY <1>3
  <2>2. FirstOf(u, from, set, other) = q
    BY <1>0, <2>1, FirstOfOnly
  <2>3. n + q \in n + from..Len(s) /\ s[n + q] \in set
    BY <1>0, <1>1, <2>1
  <2>4. ASSUME NEW j \in n + from..n + q - 1
        PROVE  s[j] \notin set
    <3>1. j - n \in from..q - 1 /\ j - n \in 1..Len(u) /\ n + (j - n) = j
      BY <1>0, <2>1
    <3> QED
      BY <1>1, <2>1, <3>1
  <2>5. FirstOf(s, n + from, set, n + other) = n + q
    <3>1. n + from \in Nat \ {0} /\ Len(s) \in Nat
      BY <1>0, <1>1
    <3>2. PICK m \in n + from..Len(s) : m = n + q
      BY <2>3
    <3>3. s[m] \in set /\ \A j \in n + from..m - 1 : s[j] \notin set
      BY <2>3, <2>4, <3>2
    <3>4. FirstOf(s, n + from, set, n + other) = m
      BY <3>1, <3>3, FirstOfOnly
    <3> QED
      BY <3>2, <3>4
  <2> QED
    BY <2>2, <2>5
<1> QED
  BY <1>0, <1>2, <1>3, FirstOfOnly

LEMMA NextSolidOnly ==
  ASSUME NEW s, Len(s) \in Nat, NEW p \in Nat \ {0}
  PROVE  /\ \A q \in p..Len(s) :
              s[q] # Blank /\ (\A j \in p..q - 1 : s[j] = Blank) => NextSolid(s, p) = q
         /\ (\A j \in p..Len(s) : s[j] = Blank) => NextSolid(s, p) = 0
         /\ \/ \A j \in p..Len(s) : s[j] = Blank
            \/ \E q \in p..Len(s) : s[q] # Blank /\ \A j \in p..q - 1 : s[j] = Blank
<1> DEFINE I == {j \in p..Len(s) : s[j] # Blank}
<1>1. I \in SUBSET Nat
  OBVIOUS
<1>2. I # {} => Min(I) \in I /\ \A x \in I : Min(I) <= x
  BY <1>1, Least
<1>3. NextSolid(s, p) = IF I # {} THEN Min(I) ELSE 0
  BY DEF NextSolid, SelectInSubSeq
<1>5. CASE I = {}
  <2>1. \A k \in p..Len(s) : s[k] = Blank
    BY <1>5
  <2> QED
    BY <1>3, <1>5, <2>1
<1>6. CASE I # {}
  <2>1. PICK m \in I : m = Min(I) /\ \A x \in I : m <= x
    BY <1>2, <1>6
  <2>2. NextSolid(s, p) = m
    BY <1>3, <1>6, <2>1
  <2>3. m \in p..Len(s) /\ s[m] # Blank
    BY <2>1
  <2>4. \A k \in p..m - 1 : s[k] = Blank
    BY <2>1, <2>3
  <2>5. ASSUME NEW q \in p..Len(s), s[q] # Blank, \A k \in p..q - 1 : s[k] = Blank
        PROVE  q = m
    <3>1. m <= q
      BY <2>1, <2>5
    <3>2. ~(m < q)
      BY <2>3, <2>5
    <3> QED
      BY <2>3, <3>1, <3>2
  <2> QED
    BY <2>2, <2>3, <2>4, <2>5
<1> QED
  BY <1>5, <1>6

LEMMA NextSolidBehind ==
  ASSUME NEW s, NEW u, NEW n \in Nat, Len(u) \in Nat, EndsIn(s, u, n), NEW p \in Nat \ {0}
  PROVE  NextSolid(s, n + p) = IF NextSolid(u, p) = 0 THEN 0 ELSE n + NextSolid(u, p)
<1>0. Len(u) \in Nat
  OBVIOUS
<1>1. Len(s) = n + Len(u) /\ \A j \in 1..Len(u) : s[n + j] = u[j]
  BY DEF EndsIn
<1>2. n + p \in Nat \ {0} /\ Len(s) \in Nat
  BY <1>0, <1>1
<1>3. CASE \A j \in p..Len(u) : u[j] = Blank
  <2>1. NextSolid(u, p) = 0
    BY <1>0, <1>3, NextSolidOnly
  <2>2. ASSUME NEW j \in n + p..Len(s)
        PROVE  s[j] = Blank
    <3>1. j - n \in p..Len(u) /\ j - n \in 1..Len(u) /\ n + (j - n) = j
      BY <1>0, <1>1
    <3> QED
      BY <1>1, <1>3, <3>1
  <2>3. NextSolid(s, n + p) = 0
    BY <1>2, <2>2, NextSolidOnly
  <2> QED
    BY <2>1, <2>3
<1>4. CASE \E q \in p..Len(u) : u[q] # Blank /\ \A j \in p..q - 1 : u[j] = Blank
  <2>1. PICK q \in p..Len(u) : u[q] # Blank /\ \A j \in p..q - 1 : u[j] = Blank
    BY <1>4
  <2>2. NextSolid(u, p) = q /\ q # 0
    BY <1>0, <2>1, NextSolidOnly
  <2>3. n + q \in n + p..Len(s) /\ s[n + q] # Blank
    BY <1>0, <1>1, <2>1
  <2>4. ASSUME NEW j \in n + p..n + q - 1
        PROVE  s[j] = Blank
    <3>1. j - n \in p..q - 1 /\ j - n \in 1..Len(u) /\ n + (j - n) = j
      BY <1>0, <2>1
    <3> QED
      BY <1>1, <2>1, <3>1
  <2>5. NextSolid(s, n + p) = n + q
    <3>1. PICK m \in n + p..Len(s) : m = n + q
      BY <2>3
    <3>2. s[m] # Blank /\ \A j \in n + p..m - 1 : s[j] = Blank
      BY <2>3, <2>4, <3>1
    <3>3. NextSolid(s, n + p) = m
      BY <1>2, <3>2, NextSolidOnly
    <3> QED
      BY <3>1, <3>3
  <2> QED
    BY <2>2, <2>5
<1> QED
  BY <1>0, <1>3, <1>4, NextSolidOnly

LEMMA TokenAtBehind ==
  ASSUME NEW S, NEW s \in Seq(S), NEW u \in Seq(S), NEW n \in Nat, EndsIn(s, u, n),
         NEW p \in 1..Len(u), u[p] # Blank
  PROVE  /\ TokenAt(s, n + p).text = TokenAt(u, p).text
         /\ TokenAt(s, n + p).next = n + TokenAt(u, p).next
<1> PICK m \in Nat : m = Len(u)
  OBVIOUS
<1>1. Len(s) = n + m /\ \A j \in 1..m : s[n + j] = u[j]
  BY DEF EndsIn
<1>2. s[n + p] = u[p] /\ p \in 1..m
  BY <1>1
<1>3. ASSUME NEW a \in 1..m + 1, NEW b \in 0..m
      PROVE  SubSeq(s, n + a, n + b) = SubSeq(u, a, b)
  <2>1. /\ SubSeq(u, a, b) \in Seq(S) /\ Len(SubSeq(u, a, b)) = (IF a <= b THEN b - a + 1 ELSE 0)
        /\ \A j \in 1..Len(SubSeq(u, a, b)) : SubSeq(u, a, b)[j] = u[a + j - 1]
    OBVIOUS
  <2>2. /\ SubSeq(s, n + a, n + b) \in Seq(S)
        /\ Len(SubSeq(s, n + a, n + b)) = (IF a <= b THEN b - a + 1 ELSE 0)
        /\ \A j \in 1..Len(SubSeq(s, n + a, n + b)) : SubSeq(s, n + a, n + b)[j] = s[n + a + j - 1]
    <3>1. n + a \in 1..Len(s) + 1 /\ n + b \in 0..Len(s)
      BY <1>1
    <3>2. PICK x \in 1..Len(s) + 1, y \in 0..Len(s) : x = n + a /\ y = n + b
      BY <3>1
    <3>3. /\ SubSeq(s, x, y) \in Seq(S) /\ Len(SubSeq(s, x, y)) = (IF x <= y THEN y - x + 1 ELSE 0)
          /\ \A j \in 1..Len(SubSeq(s, x, y)) : SubSeq(s, x, y)[j] = s[x + j - 1]
      OBVIOUS
    <3> QED
      BY <3>2, <3>3
  <2>3. \A j \in 1..Len(SubSeq(u, a, b)) : SubSeq(s, n + a, n + b)[j] = SubSeq(u, a, b)[j]
    <3> SUFFICES ASSUME NEW j \in 1..Len(SubSeq(u, a, b))
                 PROVE  SubSeq(s, n + a, n + b)[j] = SubSeq(u, a, b)[j]
      OBVIOUS
    <3>1. a + j - 1 \in 1..m /\ n + (a + j - 1) = n + a + j - 1
      BY <2>1
    <3>2. s[n + a + j - 1] = u[a + j - 1]
      BY <1>1, <3>1
    <3> QED
      BY <2>1, <2>2, <3>2
  <2> QED
    <3> HIDE DEF EndsIn
    <3>1. PICK x \in Seq(S), y \in Seq(S) : x = SubSeq(s, n + a, n + b) /\ y = SubSeq(u, a, b)
      BY <2>1, <2>2
    <3>2. Len(x) = Len(y) /\ \A j \in 1..Len(x) : x[j] = y[j]
      BY <2>1, <2>2, <2>3, <3>1
    <3>3. x = y
      BY <3>2, SameSeq
    <3> QED
      BY <3>1, <3>3
<1>4. CASE u[p] \in Quotes
  <2> DEFINE q == FirstOf(u, p + 1, {u[p]}, m + 1)
             h == FirstOf(s, n + p + 1, {u[p]}, n + m + 1)
  <2>1. TokenAt(u, p) = [text |-> SubSeq(u, p + 1, q - 1), next |-> Min({q + 1, m + 1})]
    BY <1>4, Zenon DEF TokenAt, QuotedToken
  <2>2. TokenAt(s, n + p) = [text |-> SubSeq(s, n + p + 1, h - 1), next |-> Min({h + 1, n + m + 1})]
    BY <1>1, <1>2, <1>4, Zenon DEF TokenAt, QuotedToken
  <2>3. h = n + q
    <3>1. FirstOf(s, n + (p + 1), {u[p]}, n + (m + 1)) = n + FirstOf(u, p + 1, {u[p]}, m + 1)
      <4>1. p + 1 \in Nat \ {0} /\ m + 1 \in Nat
        OBVIOUS
      <4> QED
        BY <4>1, FirstOfBehind
    <3>2. n + (p + 1) = n + p + 1 /\ n + (m + 1) = n + m + 1
      OBVIOUS
    <3> QED
      BY <3>1, <3>2
  <2>4. q \in p + 1..m + 1
    <3>1. p + 1 \in Nat \ {0}
      OBVIOUS
    <3>2. q = m + 1 \/ q \in p + 1..m
      BY <3>1, FirstOfIs
    <3> QED
      BY <3>2
  <2> HIDE DEF q, h
  <2>5. /\ Min({q + 1, m + 1}) = IF q = m + 1 THEN m + 1 ELSE q + 1
        /\ Min({h + 1, n + m + 1}) = IF q = m + 1 THEN n + m + 1 ELSE n + q + 1
    <3>1. q + 1 \in Nat /\ m + 1 \in Nat /\ h + 1 \in Nat /\ n + m + 1 \in Nat
      BY <2>3, <2>4
    <3>2. /\ Min({q + 1, m + 1}) = IF q + 1 <= m + 1 THEN q + 1 ELSE m + 1
          /\ Min({h + 1, n + m + 1}) = IF h + 1 <= n + m + 1 THEN h + 1 ELSE n + m + 1
      BY <3>1, MinOfTwo
    <3> QED
      BY <2>3, <2>4, <3>2
  <2>6. SubSeq(s, n + (p + 1), n + (q - 1)) = SubSeq(u, p + 1, q - 1)
    <3>1. p + 1 \in 1..m + 1 /\ q - 1 \in 0..m
      BY <2>4
    <3> QED
      BY <1>3, <3>1
  <2>7. n + (p + 1) = n + p + 1 /\ n + (q - 1) = h - 1
    BY <2>3, <2>4
  <2> QED
    BY <2>1, <2>2, <2>4, <2>5, <2>6, <2>7
<1>5. CASE u[p] \notin Quotes /\ u[p] \in Operators
  <2>1. TokenAt(u, p) = OperatorToken(u, p) /\ TokenAt(s, n + p) = OperatorToken(s, n + p)
    BY <1>2, <1>5, Zenon DEF TokenAt
  <2>2. CASE p < m
    <3>1. s[n + p + 1] = u[p + 1]
      <4>1. p + 1 \in 1..m /\ n + (p + 1) = n + p + 1
        BY <2>2
      <4> QED
        BY <1>1, <4>1
    <3>2. SubSeq(s, n + p, n + p + 1) = SubSeq(u, p, p + 1)
      <4>1. p \in 1..m + 1 /\ p + 1 \in 0..m /\ n + (p + 1) = n + p + 1
        BY <2>2
      <4> QED
        BY <1>3, <4>1
    <3>3. n + p < Len(s)
      BY <1>1, <2>2
    <3>4. CASE <<u[p], u[p + 1]>> \in Pairs
      <4>1. TokenAt(u, p) = [text |-> SubSeq(u, p, p + 1), next |-> p + 2]
        BY <2>1, <2>2, <3>4, Zenon DEF OperatorToken
      <4>2. TokenAt(s, n + p) = [text |-> SubSeq(s, n + p, n + p + 1), next |-> n + p + 2]
        BY <1>2, <2>1, <3>1, <3>3, <3>4, Zenon DEF OperatorToken
      <4> QED
        BY <3>2, <4>1, <4>2
    <3>5. CASE <<u[p], u[p + 1]>> \notin Pairs
      <4>1. TokenAt(u, p) = [text |-> <<u[p]>>, next |-> p + 1]
        BY <2>1, <3>5, Zenon DEF OperatorToken
      <4>2. TokenAt(s, n + p) = [text |-> <<u[p]>>, next |-> n + p + 1]
        BY <1>2, <2>1, <3>1, <3>5, Zenon DEF OperatorToken
      <4> QED
        BY <4>1, <4>2
    <3> QED
      BY <3>4, <3>5
  <2>3. CASE ~(p < m)
    <3>1. ~(n + p < Len(s))
      BY <1>1, <2>3
    <3>2. TokenAt(u, p) = [text |-> <<u[p]>>, next |-> p + 1]
      BY <2>1, <2>3, Zenon DEF OperatorToken
    <3>3. TokenAt(s, n + p) = [text |-> <<u[p]>>, next |-> n + p + 1]
      BY <1>2, <2>1, <3>1, Zenon DEF OperatorToken
    <3> QED
      BY <3>2, <3>3
  <2> QED
    BY <2>2, <2>3
<1>6. CASE u[p] \notin Quotes /\ u[p] \notin Operators
  <2> DEFINE ends == Operators \cup {Blank}
             q == FirstOf(u, p, ends, m + 1)
             h == FirstOf(s, n + p, ends, n + m + 1)
  <2>1. TokenAt(u, p) = [text |-> SubSeq(u, p, q - 1), next |-> q]
    BY <1>6, Zenon DEF TokenAt, WordToken
  <2>2. TokenAt(s, n + p) = [text |-> SubSeq(s, n + p, h - 1), next |-> h]
    BY <1>1, <1>2, <1>6, Zenon DEF TokenAt, WordToken
  <2>3. h = n + q
    <3>1. FirstOf(s, n + p, ends, n + (m + 1)) = n + FirstOf(u, p, ends, m + 1)
      <4>1. p \in Nat \ {0} /\ m + 1 \in Nat
        OBVIOUS
      <4> HIDE DEF ends
      <4> QED
        BY <4>1, FirstOfBehind
    <3>2. n + (m + 1) = n + m + 1
      OBVIOUS
    <3> QED
      BY <3>1, <3>2
  <2>4. q \in p..m + 1
    <3>1. p \in Nat \ {0}
      OBVIOUS
    <3>2. q = m + 1 \/ q \in p..m
      BY <3>1, FirstOfIs
    <3> QED
      BY <3>2
  <2> HIDE DEF q, h
  <2>5. SubSeq(s, n + p, n + (q - 1)) = SubSeq(u, p, q - 1)
    <3>1. p \in 1..m + 1 /\ q - 1 \in 0..m
      BY <2>4
    <3> QED
      BY <1>3, <3>1
  <2>6. n + (q - 1) = h - 1
    BY <2>3, <2>4
  <2> HIDE DEF ends
  <2>7. TokenAt(s, n + p) = [text |-> SubSeq(u, p, q - 1), next |-> n + q]
    BY <2>2, <2>3, <2>5, <2>6
  <2> QED
    BY <2>1, <2>7
<1> QED
  BY <1>4, <1>5, <1>6

LEMMA TokensBehind ==
  ASSUME NEW S, NEW s \in Seq(S), NEW u \in Seq(S), NEW n \in Nat, EndsIn(s, u, n),
         NEW d, TokensFrom(s, d, 1), NEW e, TokensFrom(u, e, 1)
  PROVE  \A p \in 1..Len(u) + 1 : d[n + p] = e[p]
<1> PICK m \in Nat : m = Len(u)
  OBVIOUS
<1>0. Len(s) = n + m
  BY DEF EndsIn
<1> DEFINE G == {k \in 0..m : d[n + (m + 1 - k)] = e[m + 1 - k]}
<1>1. \A k \in 0..m : (\A l \in 0..k - 1 : l \in G) => k \in G
  <2> SUFFICES ASSUME NEW k \in 0..m, \A l \in 0..k - 1 : l \in G
               PROVE  d[n + (m + 1 - k)] = e[m + 1 - k]
    OBVIOUS
  <2>0. m + 1 - k \in 1..m + 1
    OBVIOUS
  <2>1. PICK p \in 1..m + 1 : p = m + 1 - k
    BY <2>0
  <2>2. ASSUME NEW q \in p + 1..m + 1
        PROVE  d[n + q] = e[q]
    <3>1. m + 1 - q \in 0..k - 1 /\ m + 1 - (m + 1 - q) = q
      BY <2>1
    <3>2. m + 1 - q \in G
      BY <3>1
    <3> QED
      BY <3>1, <3>2
  <2>3. d[n + p] = TokenStep(s, d, n + p) /\ e[p] = TokenStep(u, e, p)
    <3>1. n + p \in 1..Len(s) + 1
      BY <1>0
    <3> QED
      BY <3>1 DEF TokensFrom
  <2>4. NextSolid(s, n + p) = IF NextSolid(u, p) = 0 THEN 0 ELSE n + NextSolid(u, p)
    <3>1. p \in Nat \ {0}
      OBVIOUS
    <3> QED
      BY <3>1, NextSolidBehind
  <2>5. CASE NextSolid(u, p) = 0
    <3>1. TokenStep(s, d, n + p) = << >> /\ TokenStep(u, e, p) = << >>
      BY <2>4, <2>5, Zenon DEF TokenStep
    <3> QED
      BY <2>1, <2>3, <3>1
  <2>6. CASE NextSolid(u, p) # 0
    <3>1. PICK q : q = NextSolid(u, p)
      OBVIOUS
    <3>2. q \in p..m /\ u[q] # Blank
      <4>1. p \in Nat \ {0}
        OBVIOUS
      <4> QED
        BY <2>6, <3>1, <4>1, NextSolidIs
    <3>3. n + q # 0 /\ NextSolid(s, n + p) = n + q /\ q # 0 /\ q \in 1..m
      BY <2>4, <2>6, <3>1, <3>2
    <3>4. PICK t : t = TokenAt(u, q)
      OBVIOUS
    <3>5. t.next \in q + 1..m + 1
      BY <3>2, <3>3, <3>4, TokenIs
    <3>6. TokenAt(s, n + q).text = t.text /\ TokenAt(s, n + q).next = n + t.next
      <4>1. q \in 1..Len(u)
        BY <3>3
      <4> HIDE DEF G
      <4> QED
        BY <3>2, <3>4, <4>1, TokenAtBehind
    <3>7. TokenStep(u, e, p) = <<CleanToken(CutValue(t.text))>> \o e[t.next]
      BY <2>6, <3>1, <3>4, Zenon DEF TokenStep
    <3>8. TokenStep(s, d, n + p) = <<CleanToken(CutValue(TokenAt(s, n + q).text))>> \o d[TokenAt(s, n + q).next]
      BY <3>3, Zenon DEF TokenStep
    <3>9. d[n + t.next] = e[t.next]
      <4>1. t.next \in p + 1..m + 1
        BY <3>2, <3>5
      <4> QED
        BY <2>2, <4>1
    <3> QED
      BY <2>1, <2>3, <3>6, <3>7, <3>8, <3>9
  <2> QED
    BY <2>5, <2>6
<1> HIDE DEF G
<1>2. \A k \in 0..m : k \in G
  BY <1>1, UpTo
<1> SUFFICES ASSUME NEW p \in 1..m + 1 PROVE d[n + p] = e[p]
  OBVIOUS
<1>3. m + 1 - p \in 0..m /\ m + 1 - (m + 1 - p) = p
  OBVIOUS
<1> QED
  BY <1>2, <1>3 DEF G

LEMMA TokensHead ==
  ASSUME NEW S, NEW s \in Seq(S), NEW u \in Seq(S), NEW n \in Nat \ {0}, EndsIn(s, u, n), s[1] # Blank,
         NEW t, TokenAt(s, 1).text = t, TokenAt(s, 1).next = n + 1
  PROVE  Tokens(s) = <<CleanToken(CutValue(t))>> \o Tokens(u)
<1>1. PICK d : Tokens(s) = d[1] /\ TokensFrom(s, d, 1)
  BY TokensAre
<1>2. PICK e : Tokens(u) = e[1] /\ TokensFrom(u, e, 1)
  BY TokensAre
<1>3. Len(s) \in Nat /\ Len(u) \in Nat /\ 1 \in 1..Len(s) /\ 1 \in 1..Len(s) + 1 /\ 1 \in 1..Len(u) + 1
  BY DEF EndsIn
<1>4. NextSolid(s, 1) = 1
  <2>1. 1 \in Nat \ {0} /\ \A j \in 1..1 - 1 : s[j] = Blank
    OBVIOUS
  <2> QED
    BY <1>3, <2>1, NextSolidOnly
<1>5. TokenStep(s, d, 1) = <<CleanToken(CutValue(t))>> \o d[n + 1]
  <2>1. TokenStep(s, d, 1) = <<CleanToken(CutValue(TokenAt(s, 1).text))>> \o d[TokenAt(s, 1).next]
    BY <1>4 DEF TokenStep
  <2> QED
    BY <2>1
<1>6. d[n + 1] = e[1]
  BY <1>1, <1>2, <1>3, TokensBehind
<1> QED
  BY <1>1, <1>2, <1>3, <1>5, <1>6 DEF TokensFrom

LEMMA TokensSkip ==
  ASSUME NEW S, NEW s \in Seq(S), NEW u \in Seq(S), EndsIn(s, u, 1), s[1] = Blank
  PROVE  Tokens(s) = Tokens(u)
<1>0. Len(s) = Len(u) + 1 /\ Len(u) \in Nat /\ Len(s) \in Nat /\ 1 \in Nat \ {0} /\ 2 \in Nat \ {0} /\ 1 \in Nat
  BY DEF EndsIn
<1>1. PICK d : Tokens(s) = d[1] /\ TokensFrom(s, d, 1)
  BY TokensAre
<1>2. PICK e : Tokens(u) = e[1] /\ TokensFrom(u, e, 1)
  BY TokensAre
<1>3. NextSolid(s, 1) = NextSolid(s, 2)
  <2>1. CASE \A j \in 2..Len(s) : s[j] = Blank
    <3>1. \A j \in 1..Len(s) : s[j] = Blank
      <4>1. \A j \in 1..Len(s) : j = 1 \/ j \in 2..Len(s)
        BY <1>0
      <4> QED
        BY <2>1, <4>1
    <3>2. NextSolid(s, 1) = 0 /\ NextSolid(s, 2) = 0
      BY <1>0, <2>1, <3>1, NextSolidOnly
    <3> QED
      BY <3>2
  <2>2. CASE \E q \in 2..Len(s) : s[q] # Blank /\ \A j \in 2..q - 1 : s[j] = Blank
    <3>1. PICK q \in 2..Len(s) : s[q] # Blank /\ \A j \in 2..q - 1 : s[j] = Blank
      BY <2>2
    <3>2. q \in 1..Len(s) /\ \A j \in 1..q - 1 : s[j] = Blank
      <4>1. \A j \in 1..q - 1 : j = 1 \/ j \in 2..q - 1
        BY <1>0
      <4> QED
        BY <1>0, <3>1, <4>1
    <3>3. NextSolid(s, 1) = q
      BY <1>0, <3>1, <3>2, NextSolidOnly
    <3>4. NextSolid(s, 2) = q
      BY <1>0, <3>1, NextSolidOnly
    <3> QED
      BY <3>3, <3>4
  <2> QED
    BY <1>0, <2>1, <2>2, NextSolidOnly
<1>4. d[1] = d[2]
  <2>1. d[1] = TokenStep(s, d, 1) /\ d[2] = TokenStep(s, d, 2)
    <3>1. 1 \in 1..Len(s) + 1 /\ 2 \in 1..Len(s) + 1
      BY <1>0
    <3> QED
      BY <1>1, <3>1 DEF TokensFrom
  <2> QED
    BY <1>3, <2>1, Zenon DEF TokenStep
<1>5. d[1 + 1] = e[1]
  <2>1. 1 \in 1..Len(u) + 1
    BY <1>0
  <2> QED
    BY <1>0, <1>1, <1>2, <2>1, TokensBehind
<1> QED
  BY <1>1, <1>2, <1>4, <1>5

LEMMA TokensBlank ==
  ASSUME NEW S, NEW u \in Seq(S), Blank \in S
  PROVE  Tokens(<<Blank>> \o u) = Tokens(u)
<1>1. <<Blank>> \o u \in Seq(S) /\ EndsIn(<<Blank>> \o u, u, 1) /\ (<<Blank>> \o u)[1] = Blank
  BY DEF EndsIn
<1> QED
  BY <1>1, TokensSkip

LEMMA TokensEmpty == Tokens(<< >>) = << >>
<1>1. << >> \in Seq({}) /\ Len(<< >>) = 0
  OBVIOUS
<1>2. PICK d : Tokens(<< >>) = d[1] /\ TokensFrom(<< >>, d, 1)
  BY <1>1, TokensAre
<1>3. d[1] = TokenStep(<< >>, d, 1)
  BY <1>1, <1>2 DEF TokensFrom
<1>4. NextSolid(<< >>, 1) = 0
  <2>1. \A j \in 1..Len(<< >>) : << >>[j] = Blank
    BY <1>1
  <2> QED
    BY <1>1, <2>1, NextSolidOnly
<1> QED
  BY <1>2, <1>3, <1>4 DEF TokenStep

LEMMA TrimIs ==
  ASSUME NEW S, NEW s \in Seq(S)
  PROVE  \/ Trim(s) = << >> /\ \A j \in 1..Len(s) : s[j] = Blank
         \/ \E a, b \in 1..Len(s) :
              /\ a <= b /\ s[a] # Blank /\ s[b] # Blank /\ Trim(s) = SubSeq(s, a, b)
              /\ \A j \in 1..Len(s) : j < a \/ j > b => s[j] = Blank
<1> DEFINE I == {j \in 1..Len(s) : s[j] # Blank}
<1>0. Len(s) \in Nat /\ I \in SUBSET (1..Len(s)) /\ I \in SUBSET Nat
  OBVIOUS
<1>1. CASE I = {}
  <2>1. Trim(s) = << >>
    BY <1>1, Zenon DEF Trim
  <2> QED
    BY <1>1, <2>1
<1>2. CASE I # {}
  <2>1. Trim(s) = SubSeq(s, Min(I), Max(I))
    BY <1>2, Zenon DEF Trim
  <2>2. PICK a \in I : a = Min(I) /\ \A x \in I : a <= x
    BY <1>0, <1>2, Least
  <2>3. PICK b \in I : b = Max(I) /\ \A x \in I : x <= b
    BY <1>0, <1>2, Greatest
  <2>4. a \in 1..Len(s) /\ b \in 1..Len(s) /\ a <= b /\ s[a] # Blank /\ s[b] # Blank
    BY <2>2
  <2>5. ASSUME NEW j \in 1..Len(s), j < a \/ j > b
        PROVE  s[j] = Blank
    <3>1. ~(a <= j) \/ ~(j <= b)
      BY <2>4, <2>5
    <3> QED
      BY <2>2, <2>3, <3>1
  <2>6. Trim(s) = SubSeq(s, a, b)
    BY <2>1, <2>2, <2>3
  <2> QED
    BY <2>4, <2>5, <2>6
<1> QED
  BY <1>1, <1>2

LEMMA TrimSolid ==
  ASSUME NEW S, NEW s \in Seq(S), Len(s) > 0, s[1] # Blank, s[Len(s)] # Blank
  PROVE  Trim(s) = s
<1>1. 1 \in 1..Len(s) /\ Len(s) \in 1..Len(s)
  OBVIOUS
<1>2. PICK a, b \in 1..Len(s) :
        /\ a <= b /\ Trim(s) = SubSeq(s, a, b)
        /\ \A j \in 1..Len(s) : j < a \/ j > b => s[j] = Blank
  BY <1>1, TrimIs
<1>3. ~(1 < a) /\ ~(Len(s) > b)
  BY <1>1, <1>2
<1>4. a = 1 /\ b = Len(s)
  BY <1>3
<1>5. SubSeq(s, 1, Len(s)) = s
  OBVIOUS
<1> QED
  BY <1>2, <1>4, <1>5

LEMMA CutWhole ==
  ASSUME NEW S, NEW v \in Seq(S), Len(v) <= MaxValue
  PROVE  CutValue(v) = v
<1>1. Len(v) \in Nat /\ MaxValue \in Nat
  BY LexisAssumption DEF LexisAssumption
<1>2. Min({Len(v), MaxValue}) = Len(v)
  BY <1>1, MinOfTwo
<1>3. SubSeq(v, 1, Len(v)) = v
  OBVIOUS
<1> QED
  BY <1>2, <1>3 DEF CutValue

LEMMA CleanUnquoted ==
  ASSUME NEW S, Quote \notin S, NEW v \in Seq(S), Len(v) <= MaxValue
  PROVE  CleanToken(CutValue(v)) = Trim(v)
<1>1. CutValue(v) = v
  BY CutWhole
<1>2. PICK x \in Seq(S) : x = Trim(v)
  BY TrimText
<1>3. Unquote(x) = x
  BY DEF Unquote
<1> QED
  BY <1>1, <1>2, <1>3 DEF CleanToken

(* A word, an operator and a quoted value are one token each.                *)
Solid(w) == w # << >> /\ \A j \in 1..Len(w) : w[j] \notin Operators \cup Quotes \cup {Blank}
WordEnds(u) == u = << >> \/ u[1] \in Operators \cup {Blank}

LEMMA WordIs ==
  ASSUME NEW S, NEW w \in Seq(S), NEW u \in Seq(S), Solid(w), Len(w) <= MaxValue, WordEnds(u)
  PROVE  Tokens(w \o u) = <<w>> \o Tokens(u)
<1> PICK n \in Nat : n = Len(w)
  OBVIOUS
<1>0. w \o u \in Seq(S)
  OBVIOUS
<1>1. PICK s \in Seq(S) : s = w \o u
  BY <1>0
<1>2. /\ EndsIn(s, u, n) /\ Len(s) = n + Len(u) /\ n > 0 /\ Len(u) \in Nat /\ Len(s) \in Nat
      /\ \A j \in 1..n : s[j] = w[j]
      /\ SubSeq(s, 1, n) = w
  BY <1>1 DEF EndsIn, Solid
<1>3. \A j \in 1..n : s[j] \notin Operators \cup Quotes \cup {Blank}
  BY <1>2 DEF Solid
<1> HIDE <1>1
<1>4. FirstOf(s, 1, Operators \cup {Blank}, Len(s) + 1) = n + 1
  <2> DEFINE E == Operators \cup {Blank}
  <2>1. \A j \in 1..n : s[j] \notin E
    BY <1>3
  <2>2. CASE u = << >>
    <3>1. Len(s) = n
      BY <1>2, <2>2
    <3>2. \A j \in 1..Len(s) : s[j] \notin E
      BY <2>1, <3>1
    <3>3. 1 \in Nat \ {0}
      OBVIOUS
    <3> HIDE DEF E
    <3>4. FirstOf(s, 1, E, Len(s) + 1) = Len(s) + 1
      BY <1>2, <3>2, <3>3, FirstOfOnly
    <3> QED
      BY <3>1, <3>4 DEF E
  <2>3. CASE u # << >>
    <3>1. Len(u) > 0 /\ u[1] \in E
      BY <2>3 DEF WordEnds
    <3>2. 1 \in 1..Len(u)
      BY <1>2, <3>1
    <3>3. s[n + 1] \in E
      BY <3>1, <3>2, <1>2 DEF EndsIn
    <3>4. PICK q \in 1..Len(s) : q = n + 1
      BY <1>2, <3>1
    <3> HIDE DEF E
    <3>5. s[q] \in E /\ \A j \in 1..q - 1 : s[j] \notin E
      BY <2>1, <3>3, <3>4
    <3>6. FirstOf(s, 1, E, Len(s) + 1) = q
      <4>1. 1 \in Nat \ {0}
        OBVIOUS
      <4> QED
        BY <1>2, <3>5, <4>1, FirstOfOnly
    <3> QED
      BY <3>4, <3>6 DEF E
  <2> QED
    BY <2>2, <2>3
<1>5. 1 \in 1..n
  BY <1>2
<1>6. s[1] \notin Operators \cup Quotes \cup {Blank}
  BY <1>3, <1>5
<1>7. TokenAt(s, 1) = WordToken(s, 1)
  BY <1>6 DEF TokenAt
<1>8. TokenAt(s, 1).text = w /\ TokenAt(s, 1).next = n + 1
  <2> DEFINE q == FirstOf(s, 1, Operators \cup {Blank}, Len(s) + 1)
  <2>1. TokenAt(s, 1) = [text |-> SubSeq(s, 1, q - 1), next |-> q]
    BY <1>7, Zenon DEF WordToken
  <2>2. q = n + 1
    BY <1>4
  <2> HIDE DEF q
  <2>3. q - 1 = n
    BY <2>2
  <2> QED
    BY <1>2, <2>1, <2>2, <2>3
<1>9. CleanToken(CutValue(w)) = w
  <2>1. w[1] \notin Operators \cup Quotes \cup {Blank} /\ w[n] # Blank
    BY <1>2, <1>3, <1>5
  <2>2. CutValue(w) = w
    BY CutWhole
  <2>3. Trim(w) = w
    BY <1>2, <2>1, TrimSolid
  <2>4. Unquote(w) = w
    <3>1. Head(w) = w[1]
      OBVIOUS
    <3>2. Head(w) # Quote
      BY <2>1, <3>1, Zenon DEF Quotes
    <3> QED
      BY <3>2, Zenon DEF Unquote
  <2> QED
    BY <2>2, <2>3, <2>4 DEF CleanToken
<1>10. Tokens(s) = <<CleanToken(CutValue(w))>> \o Tokens(u)
  <2>1. n \in Nat \ {0}
    BY <1>2
  <2>2. s[1] # Blank
    BY <1>6
  <2>3. EndsIn(s, u, n)
    BY <1>2
  <2> QED
    BY <1>8, <2>1, <2>2, <2>3, TokensHead
<1> QED
  BY <1>1, <1>9, <1>10

LEMMA QuotedIs ==
  ASSUME NEW S, Quote \notin S, NEW v \in Seq(S), Len(v) <= MaxValue,
         NEW T, S \subseteq T, Quote \in T, NEW u \in Seq(T)
  PROVE  Tokens(<<Quote>> \o v \o <<Quote>> \o u) = <<Trim(v)>> \o Tokens(u)
<1> PICK n \in Nat : n = Len(v)
  OBVIOUS
<1>0. v \in Seq(T)
  OBVIOUS
<1>10. <<Quote>> \o v \o <<Quote>> \o u \in Seq(T)
  BY <1>0
<1>1. PICK s \in Seq(T) : s = <<Quote>> \o v \o <<Quote>> \o u
  BY <1>10
<1>2. /\ Len(s) = n + 2 + Len(u) /\ Len(u) \in Nat /\ Len(s) \in Nat
      /\ s[1] = Quote /\ s[n + 2] = Quote
      /\ \A j \in 1..n : s[j + 1] = v[j]
      /\ \A j \in 1..Len(u) : s[n + 2 + j] = u[j]
  BY <1>0, <1>1
<1>3. EndsIn(s, u, n + 2)
  BY <1>2 DEF EndsIn
<1>4. SubSeq(s, 2, n + 1) = v
  <2>1. /\ SubSeq(s, 2, n + 1) \in Seq(T) /\ Len(SubSeq(s, 2, n + 1)) = n
        /\ \A j \in 1..n : SubSeq(s, 2, n + 1)[j] = s[j + 1]
    <3> HIDE <1>1
    <3> QED
      BY <1>2
  <2>2. PICK x \in Seq(T) : x = SubSeq(s, 2, n + 1)
    BY <2>1
  <2>3. Len(x) = Len(v) /\ \A j \in 1..Len(x) : x[j] = v[j]
    BY <1>2, <2>1, <2>2
  <2>4. x = v
    BY <1>0, <2>3, SameSeq
  <2> QED
    BY <2>2, <2>4
<1> HIDE <1>1
<1>5. FirstOf(s, 2, {Quote}, Len(s) + 1) = n + 2
  <2>1. PICK q \in 2..Len(s) : q = n + 2
    BY <1>2
  <2> PICK E : E = {Quote}
    OBVIOUS
  <2>2. s[q] \in E
    BY <1>2, <2>1
  <2>3. ASSUME NEW j \in 2..q - 1
        PROVE  s[j] \notin E
    <3>1. j - 1 \in 1..n /\ (j - 1) + 1 = j
      BY <2>1
    <3>2. s[j] = v[j - 1] /\ v[j - 1] \in S
      BY <1>2, <3>1
    <3> QED
      BY <3>2
  <2>4. 2 \in Nat \ {0}
    OBVIOUS
  <2>5. FirstOf(s, 2, E, Len(s) + 1) = q
    <3> QED
      BY <1>2, <2>2, <2>3, <2>4, FirstOfAt
  <2> QED
    BY <2>1, <2>5
<1>6. TokenAt(s, 1).text = v /\ TokenAt(s, 1).next = n + 3
  <2>1. TokenAt(s, 1) = QuotedToken(s, 1)
    BY <1>2 DEF TokenAt, Quotes
  <2> DEFINE q == FirstOf(s, 1 + 1, {s[1]}, Len(s) + 1)
  <2>2. TokenAt(s, 1) = [text |-> SubSeq(s, 1 + 1, q - 1), next |-> Min({q + 1, Len(s) + 1})]
    BY <2>1, Zenon DEF QuotedToken
  <2>3. q = n + 2
    BY <1>2, <1>5
  <2> HIDE DEF q
  <2>4. Min({q + 1, Len(s) + 1}) = n + 3
    <3>1. q + 1 \in Nat /\ Len(s) + 1 \in Nat /\ q + 1 <= Len(s) + 1 /\ q + 1 = n + 3
      BY <1>2, <2>3
    <3> QED
      BY <3>1, MinOfTwo
  <2>5. 1 + 1 = 2 /\ q - 1 = n + 1
    BY <2>3
  <2>6. TokenAt(s, 1) = [text |-> v, next |-> n + 3]
    BY <1>4, <2>2, <2>4, <2>5, Zenon
  <2> QED
    BY <2>6
<1>7. CleanToken(CutValue(v)) = Trim(v)
  BY CleanUnquoted
<1>8. Tokens(s) = <<CleanToken(CutValue(v))>> \o Tokens(u)
  <2>1. n + 2 \in Nat \ {0} /\ n + 2 + 1 = n + 3
    OBVIOUS
  <2>2. s[1] # Blank
    BY <1>2 DEF Quote, Blank
  <2> QED
    BY <1>3, <1>6, <2>1, <2>2, TokensHead
<1> QED
  BY <1>1, <1>7, <1>8

LEMMA ShortToken ==
  ASSUME NEW S, NEW w \in Seq(S), Len(w) \in 1..2, \A j \in 1..Len(w) : w[j] \in Operators
  PROVE  CleanToken(CutValue(w)) = w
<1>1. w[1] \in Operators /\ w[Len(w)] \in Operators
  OBVIOUS
<1>2. w[1] # Blank /\ w[1] # Quote /\ w[Len(w)] # Blank
  BY <1>1 DEF Operators, Blank, Quote
<1>3. CutValue(w) = w
  <2>1. Len(w) <= MaxValue
    BY LexisAssumption DEF LexisAssumption
  <2> QED
    BY <2>1, CutWhole
<1>4. Trim(w) = w
  BY <1>2, TrimSolid
<1>5. Unquote(w) = w
  <2>1. Head(w) = w[1]
    OBVIOUS
  <2> QED
    BY <1>2, <2>1, Zenon DEF Unquote
<1> QED
  BY <1>3, <1>4, <1>5 DEF CleanToken

LEMMA PairFacts ==
  ASSUME NEW a, NEW b, <<a, b>> \in Pairs
  PROVE  a \in Operators /\ b \in Operators /\ a \notin Quotes /\ b \notin Quotes /\ a # Blank
<1>1. \A c, d : <<a, b>> = <<c, d>> => a = c /\ b = d
  OBVIOUS
<1>2. a \in {"<", ">", "!"} /\ b \in {"=", ">"}
  BY <1>1 DEF Pairs
<1> QED
  BY <1>2 DEF Operators, Quotes, Quote, Blank

LEMMA PairIs ==
  ASSUME NEW S, NEW w \in Seq(S), w \in Pairs, NEW u \in Seq(S)
  PROVE  Tokens(w \o u) = <<w>> \o Tokens(u)
<1>0. w \o u \in Seq(S)
  OBVIOUS
<1> PICK a, b : w = <<a, b>>
  BY DEF Pairs
<1>3. /\ a \in Operators /\ b \in Operators /\ a \notin Quotes /\ a # Blank /\ <<a, b>> \in Pairs
      /\ Len(w) = 2 /\ w[1] = a /\ w[2] = b
  BY PairFacts
<1>1. PICK s \in Seq(S) : s = w \o u
  BY <1>0
<1>2. /\ s[1] = a /\ s[2] = b /\ EndsIn(s, u, 2) /\ 1 < Len(s) /\ SubSeq(s, 1, 2) = w
  <2>1. s[1] = a /\ s[2] = b /\ EndsIn(s, u, 2) /\ 1 < Len(s)
    BY <1>1, <1>3 DEF EndsIn
  <2>2. SubSeq(s, 1, 2) = w
    <3> HIDE <1>1
    <3>1. /\ SubSeq(s, 1, 2) \in Seq(S) /\ Len(SubSeq(s, 1, 2)) = 2
          /\ SubSeq(s, 1, 2)[1] = s[1] /\ SubSeq(s, 1, 2)[2] = s[2]
      BY <2>1
    <3>2. PICK x \in Seq(S) : x = SubSeq(s, 1, 2)
      BY <3>1
    <3>3. Len(x) = Len(w) /\ \A j \in 1..Len(x) : x[j] = w[j]
      BY <1>3, <2>1, <3>1, <3>2
    <3>4. x = w
      BY <3>3, SameSeq
    <3> QED
      BY <3>2, <3>4
  <2> QED
    BY <2>1, <2>2
<1> HIDE <1>1
<1>4. TokenAt(s, 1) = OperatorToken(s, 1)
  BY <1>2, <1>3, Zenon DEF TokenAt
<1>5. TokenAt(s, 1).text = w /\ TokenAt(s, 1).next = 3
  <2>1. 1 + 1 = 2 /\ 1 + 2 = 3
    OBVIOUS
  <2>2. s[1 + 1] = b
    BY <1>2, <2>1
  <2>3. TokenAt(s, 1) = [text |-> SubSeq(s, 1, 1 + 1), next |-> 1 + 2]
    BY <1>2, <1>3, <1>4, <2>2, Zenon DEF OperatorToken
  <2>4. TokenAt(s, 1) = [text |-> w, next |-> 3]
    BY <1>2, <2>1, <2>3, Zenon
  <2> QED
    BY <2>4
<1>6. CleanToken(CutValue(w)) = w
  <2>1. Len(w) \in 1..2 /\ \A j \in 1..Len(w) : w[j] \in Operators
    BY <1>3
  <2> QED
    BY <2>1, ShortToken
<1>7. Tokens(s) = <<CleanToken(CutValue(w))>> \o Tokens(u)
  <2>1. 2 \in Nat \ {0} /\ TokenAt(s, 1).next = 2 + 1 /\ s[1] # Blank
    BY <1>2, <1>3, <1>5
  <2> QED
    BY <1>2, <1>5, <2>1, TokensHead
<1> QED
  BY <1>1, <1>6, <1>7

LEMMA SingleIs ==
  ASSUME NEW S, NEW a \in S, a \in Operators, NEW u \in Seq(S), u = << >> \/ u[1] \notin Operators
  PROVE  Tokens(<<a>> \o u) = <<<<a>>>> \o Tokens(u)
<1>0. <<a>> \o u \in Seq(S)
  OBVIOUS
<1>1. PICK s \in Seq(S) : s = <<a>> \o u
  BY <1>0
<1>2. /\ s[1] = a /\ EndsIn(s, u, 1) /\ (1 < Len(s) => u # << >> /\ s[2] = u[1])
  BY <1>1 DEF EndsIn
<1> HIDE <1>1
<1>3. a \notin Quotes /\ a # Blank
  BY DEF Operators, Quotes, Quote, Blank
<1>4. TokenAt(s, 1) = OperatorToken(s, 1)
  BY <1>2, <1>3, Zenon DEF TokenAt
<1>5. TokenAt(s, 1).text = <<a>> /\ TokenAt(s, 1).next = 2
  <2>1. 1 + 1 = 2
    OBVIOUS
  <2>2. ~(1 < Len(s) /\ <<s[1], s[1 + 1]>> \in Pairs)
    BY <1>2, <2>1, PairFacts
  <2>3. TokenAt(s, 1) = [text |-> <<s[1]>>, next |-> 1 + 1]
    BY <1>4, <2>2, Zenon DEF OperatorToken
  <2> QED
    BY <1>2, <2>1, <2>3
<1>6. CleanToken(CutValue(<<a>>)) = <<a>>
  <2>1. <<a>> \in Seq(S) /\ Len(<<a>>) \in 1..2
    OBVIOUS
  <2>2. \A j \in 1..Len(<<a>>) : <<a>>[j] \in Operators
    OBVIOUS
  <2> QED
    BY <2>1, <2>2, ShortToken
<1>7. Tokens(s) = <<CleanToken(CutValue(<<a>>))>> \o Tokens(u)
  <2>1. 1 \in Nat \ {0} /\ TokenAt(s, 1).next = 1 + 1 /\ s[1] # Blank
    BY <1>2, <1>3, <1>5
  <2> QED
    BY <1>2, <1>5, <2>1, TokensHead
<1> QED
  BY <1>1, <1>6, <1>7
-----------------------------------------------------------------------------
(* Texts one after the other.                                               *)
Flat(B, k, g) == g = [j \in 1..k |-> IF j = 1 THEN B[j] ELSE g[j - 1] \o B[j]]

LEMMA FlatAt ==
  ASSUME NEW B, NEW k, NEW g, Flat(B, k, g), NEW j \in 1..k
  PROVE  g[j] = IF j = 1 THEN B[j] ELSE g[j - 1] \o B[j]
BY Zenon DEF Flat

LEMMA FlatExists ==
  ASSUME NEW B, NEW n \in Nat
  PROVE  \A k \in 0..n : \E g : Flat(B, k, g)
<1> DEFINE G == {k \in 0..n : \E g : Flat(B, k, g)}
<1> SUFFICES ASSUME NEW k \in 0..n, \A l \in 0..k - 1 : l \in G
             PROVE  \E g : Flat(B, k, g)
  <2>1. ASSUME \A k \in 0..n : (\A l \in 0..k - 1 : l \in G) => k \in G
        PROVE  \A k \in 0..n : k \in G
    <3> HIDE DEF G
    <3> QED
      BY <2>1, UpTo
  <2> QED
    BY <2>1
<1>1. CASE k = 0
  <2>1. Flat(B, 0, << >>)
    BY DEF Flat
  <2> QED
    BY <1>1, <2>1
<1>2. CASE k > 0
  <2>1. PICK h : Flat(B, k - 1, h)
    BY <1>2
  <2> DEFINE g == [j \in 1..k |-> IF j < k THEN h[j] ELSE IF k = 1 THEN B[k] ELSE h[k - 1] \o B[k]]
  <2>2. ASSUME NEW j \in 1..k
        PROVE  g[j] = IF j = 1 THEN B[j] ELSE g[j - 1] \o B[j]
    <3>1. CASE j < k
      <4>1. h[j] = IF j = 1 THEN B[j] ELSE h[j - 1] \o B[j]
        BY <1>2, <2>1, <3>1, FlatAt
      <4> QED
        BY <1>2, <3>1, <4>1
    <3>2. CASE j = k
      BY <1>2, <3>2
    <3> QED
      BY <1>2, <3>1, <3>2
  <2>3. Flat(B, k, g)
    BY <2>2 DEF Flat
  <2> QED
    BY <2>3
<1> QED
  BY <1>1, <1>2

LEMMA FlattenIs ==
  ASSUME NEW n \in Nat, n > 0, NEW B, Len(B) = n
  PROVE  \E f : Flat(B, n, f) /\ FlattenSeq(B) = f[n]
<1>1. n \in 1..n /\ n \in 0..n
  OBVIOUS
<1>2. \E g : Flat(B, n, g)
  BY <1>1, FlatExists, Zenon
<1> DEFINE f == CHOOSE g : Flat(B, n, g)
<1>3. Flat(B, n, f)
  BY <1>2, Zenon
<1>4. FlattenSeq(B) = f[n]
  BY <1>1 DEF FlattenSeq, Flat
<1> QED
  BY <1>3, <1>4

LEMMA JoinText == \A S : \A x, y \in Seq(S) : x \o y \in Seq(S)
OBVIOUS

=============================================================================
