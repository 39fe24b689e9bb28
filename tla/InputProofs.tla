---------------------------- MODULE InputProofs -----------------------------
(***************************************************************************)
(* The statement loop with any lines, edits, keys and failing calls of the *)
(* terminal: what runs is what was typed, and recall shows and runs the    *)
(* last statement.                                                         *)
(***************************************************************************)
EXTENDS Input, TLAPS, WellFoundedInduction

(* A set of numbers has a least member.                                      *)
LEMMA LessOnNat == \A x, y \in Nat : <<x, y>> \in OpToRel(<, Nat) <=> x < y
BY Zenon DEF OpToRel

LEMMA Least ==
  ASSUME NEW S \in SUBSET Nat, S # {}
  PROVE  \E x \in S : \A y \in S : x <= y
<1> DEFINE R == OpToRel(<, Nat)
<1>1. IsWellFoundedOn(R, Nat)
  BY NatLessThanWellFounded, Zenon
<1>2. \A x, y \in Nat : <<x, y>> \in R <=> x < y
  BY LessOnNat, Zenon
<1> HIDE DEF R
<1>3. \E x \in S : \A y \in S : ~(<<y, x>> \in R)
  BY <1>1, WFMin
<1>4. \A x, y \in Nat : ~(<<y, x>> \in R) <=> ~(y < x)
  BY <1>2
<1>5. \A x, y \in Nat : ~(y < x) => x <= y
  OBVIOUS
<1> QED
  BY <1>3, <1>4, <1>5, Zenon
LEMMA Greatest ==
  ASSUME NEW n \in Nat, NEW S \in SUBSET (1..n), S # {}
  PROVE  \E x \in S : \A y \in S : y <= x
<1> DEFINE Above == {b \in Nat : \A y \in S : y <= b}
<1>1. n \in Above
  OBVIOUS
<1>2. PICK b \in Above : \A c \in Above : b <= c
  <2>1. Above \in SUBSET Nat /\ Above # {}
    BY <1>1
  <2> HIDE DEF Above
  <2> QED
    BY <2>1, Least
<1>3. ASSUME b \notin S
      PROVE  FALSE
  <2>0. PICK z \in S : z \in 1..n
    OBVIOUS
  <2>1. b - 1 \in Nat /\ \A y \in S : y <= b - 1
    <3>1. b \in Nat /\ z <= b /\ z # b
      BY <1>2, <1>3, <2>0
    <3>2. \A y \in S : y \in 1..n /\ y <= b /\ y # b
      BY <1>2, <1>3
    <3> QED
      BY <2>0, <3>1, <3>2
  <2>2. b - 1 \in Above
    BY <2>1
  <2>3. b <= b - 1
    BY <1>2, <2>2
  <2> QED
    BY <1>2, <2>3
<1> QED
  BY <1>2, <1>3
-----------------------------------------------------------------------------
(* The characters.  The prover does not know that a literal is in STRING.    *)
Char == STRING \cup Dots \cup Orders
        \cup {"S", "x", "blank", "semi", "nul", "'", "@", "low", "3", "cur",
              "malformed", "crossed"}

(* Texts: an erased cell comes only with an order beside it, a statement     *)
(* begins with a character that is no blank and starts no command of the     *)
(* loop.                                                                     *)
Clean(t) == \A k \in 1..Len(t) : t[k] \notin Orders
NoErased(t) == Clean(t) => \A k \in 1..Len(t) : t[k] # "nul"
Starts(t) == t # <<>> => t[1] # "blank" /\ t[1] \notin Dots
Ends(t) == t # <<>> => t[Len(t)] # "blank"

(* Trim keeps what is between the first and the last character that is not a *)
(* blank.                                                                    *)
Solid(t) == {k \in 1..Len(t) : t[k] # "blank"}
Between(t, a, b) ==
  /\ a \in Solid(t) /\ b \in Solid(t) /\ Trim(t) = SubSeq(t, a, b)
  /\ \A k \in Solid(t) : a <= k /\ k <= b

LEMMA TrimIs ==
  ASSUME NEW S, NEW t \in Seq(S)
  PROVE  IF Solid(t) = {} THEN Trim(t) = <<>> ELSE \E a, b \in 1..Len(t) : Between(t, a, b)
<1>1. DOMAIN t = 1..Len(t) /\ Len(t) \in Nat
  OBVIOUS
<1> DEFINE X == {k \in DOMAIN t : t[k] \notin Blanks}
<1>3. X = Solid(t)
  BY <1>1 DEF Solid, Blanks
<1>4. Trim(t) = IF X = {} THEN <<>>
                ELSE SubSeq(t, CHOOSE k \in X : \A m \in X : k <= m, CHOOSE k \in X : \A m \in X : m <= k)
  BY DEF Trim
<1> HIDE DEF X
<1>5. CASE X # {}
  <2>1. X \in SUBSET (1..Len(t)) /\ X \in SUBSET Nat
    BY <1>1, <1>3 DEF Solid
  <2>2. \E k \in X : \A m \in X : k <= m
    BY <1>5, <2>1, Least
  <2>3. \E k \in X : \A m \in X : m <= k
    BY <1>1, <1>5, <2>1, Greatest
  <2>4. PICK a : a = CHOOSE k \in X : \A m \in X : k <= m
    OBVIOUS
  <2>5. PICK b : b = CHOOSE k \in X : \A m \in X : m <= k
    OBVIOUS
  <2>6. a \in X /\ \A m \in X : a <= m
    BY <2>2, <2>4, Zenon
  <2>7. b \in X /\ \A m \in X : m <= b
    BY <2>3, <2>5, Zenon
  <2>8. Trim(t) = SubSeq(t, a, b)
    BY <1>4, <1>5, <2>4, <2>5, Zenon
  <2> QED
    BY <1>3, <1>5, <2>1, <2>6, <2>7, <2>8 DEF Between
<1> QED
  BY <1>3, <1>4, <1>5

LEMMA SubSeqIs ==
  ASSUME NEW S, NEW t \in Seq(S), NEW a \in 1..Len(t), NEW b \in 1..Len(t), a <= b
  PROVE  /\ SubSeq(t, a, b) \in Seq(S) /\ Len(SubSeq(t, a, b)) = b - a + 1
         /\ \A j \in 1..b - a + 1 : SubSeq(t, a, b)[j] = t[a + j - 1]
OBVIOUS

LEMMA TrimText ==
  ASSUME NEW S, NEW t \in Seq(S)
  PROVE  /\ Trim(t) \in Seq(S) /\ Len(Trim(t)) <= Len(t)
         /\ Trim(t) # <<>> => Trim(t)[1] # "blank" /\ Ends(Trim(t))
         /\ \A k \in 1..Len(t) : t[k] # "blank" => \E j \in 1..Len(Trim(t)) : Trim(t)[j] = t[k]
         /\ \A j \in 1..Len(Trim(t)) : \E k \in 1..Len(t) : Trim(t)[j] = t[k]
<1>1. CASE Solid(t) = {}
  <2>1. Trim(t) = <<>> /\ Len(<<>>) = 0 /\ <<>> \in Seq(S) /\ Len(t) \in Nat
    BY <1>1, TrimIs
  <2>2. \A j \in 1..0 : FALSE
    OBVIOUS
  <2> QED
    BY <1>1, <2>1, <2>2 DEF Solid
<1>2. CASE Solid(t) # {}
  <2>1. PICK a \in 1..Len(t), b \in 1..Len(t) : Between(t, a, b)
    BY <1>2, TrimIs
  <2>2. a <= b /\ t[a] # "blank" /\ t[b] # "blank" /\ Len(t) \in Nat
    BY <2>1 DEF Between, Solid
  <2>3. PICK u : u = SubSeq(t, a, b)
    OBVIOUS
  <2>4. PICK n \in Nat : n = b - a + 1
    BY <2>2
  <2>5. u = Trim(t) /\ u \in Seq(S) /\ Len(u) = n /\ \A j \in 1..n : u[j] = t[a + j - 1]
    BY <2>1, <2>2, <2>3, <2>4, SubSeqIs DEF Between
  <2>6. n <= Len(t) /\ n > 0 /\ u[1] = t[a] /\ u[n] = t[b]
    <3>1. n > 0 /\ n <= Len(t) /\ a + 1 - 1 = a /\ a + n - 1 = b /\ 1 \in 1..n /\ n \in 1..n
      BY <2>2, <2>4
    <3>2. u[1] = t[a + 1 - 1] /\ u[n] = t[a + n - 1]
      BY <2>5, <3>1
    <3> QED
      BY <3>1, <3>2
  <2>7. ASSUME NEW k \in 1..Len(t), t[k] # "blank"
        PROVE  \E j \in 1..n : u[j] = t[k]
    <3>1. a <= k /\ k <= b
      BY <2>1, <2>7 DEF Between, Solid
    <3>2. k - a + 1 \in 1..n /\ a + (k - a + 1) - 1 = k
      BY <2>4, <3>1
    <3>3. u[k - a + 1] = t[a + (k - a + 1) - 1]
      BY <2>5, <3>2
    <3> QED
      BY <3>2, <3>3
  <2>8. ASSUME NEW j \in 1..n
        PROVE  \E k \in 1..Len(t) : u[j] = t[k]
    <3>1. a + j - 1 \in 1..Len(t)
      BY <2>2, <2>4
    <3> QED
      BY <2>5, <3>1
  <2> QED
    BY <2>2, <2>5, <2>6, <2>7, <2>8 DEF Ends
<1> QED
  BY <1>1, <1>2
LEMMA TrimKeeps ==
  ASSUME NEW S, NEW t \in Seq(S), t # <<>>, t[1] # "blank", t[Len(t)] # "blank"
  PROVE  Trim(t) = t
<1>1. 1 \in Solid(t) /\ Len(t) \in Solid(t) /\ Len(t) \in Nat
  BY DEF Solid
<1>2. PICK a \in 1..Len(t), b \in 1..Len(t) : Between(t, a, b)
  <2>1. Solid(t) # {}
    BY <1>1
  <2> QED
    BY <2>1, TrimIs
<1>3. a = 1 /\ b = Len(t)
  BY <1>1, <1>2 DEF Between
<1>4. SubSeq(t, 1, Len(t)) = t
  OBVIOUS
<1> QED
  BY <1>2, <1>3, <1>4 DEF Between

LEMMA TrimOne ==
  ASSUME NEW c, c # "blank"
  PROVE  Trim(<<c>>) = <<c>>
<1>1. PICK t : t = <<c>>
  OBVIOUS
<1>2. t \in Seq({c}) /\ t # <<>> /\ t[1] = c /\ Len(t) = 1
  BY <1>1
<1>3. Trim(t) = t
  BY <1>2, TrimKeeps
<1> QED
  BY <1>1, <1>3

LEMMA TrimHead ==
  ASSUME NEW S, NEW t \in Seq(S), t # <<>>, t[1] # "blank"
  PROVE  Trim(t) # <<>> /\ Trim(t)[1] = t[1]
<1>1. 1 \in Solid(t) /\ Len(t) \in Nat
  BY DEF Solid
<1>2. PICK a \in 1..Len(t), b \in 1..Len(t) : Between(t, a, b)
  <2>1. Solid(t) # {}
    BY <1>1
  <2> QED
    BY <2>1, TrimIs
<1>3. a = 1 /\ a <= b
  BY <1>1, <1>2 DEF Between
<1>4. /\ SubSeq(t, a, b) \in Seq(S) /\ Len(SubSeq(t, a, b)) = b - a + 1
      /\ \A j \in 1..b - a + 1 : SubSeq(t, a, b)[j] = t[a + j - 1]
  BY <1>3, SubSeqIs
<1>5. Trim(t) \in Seq(S) /\ Len(Trim(t)) = b /\ Trim(t)[1] = t[1] /\ b > 0
  <2>1. 1 \in 1..b - a + 1 /\ a + 1 - 1 = 1 /\ b - a + 1 = b /\ b > 0
    BY <1>1, <1>3
  <2>2. SubSeq(t, a, b)[1] = t[a + 1 - 1]
    BY <1>4, <2>1
  <2> QED
    BY <1>2, <1>4, <2>1, <2>2 DEF Between
<1> QED
  BY <1>5

(* Blanks at the end make no difference to Trim.                             *)
LEMMA LastIs ==
  ASSUME NEW S, NEW t \in Seq(S), Solid(t) # {}
  PROVE  \E b \in Solid(t) : RTrim(t) = SubSeq(t, 1, b) /\ \A k \in Solid(t) : k <= b
<1> DEFINE X == {i \in 1..Len(t) : t[i] # "blank"}
<1>1. X = Solid(t) /\ X \in SUBSET (1..Len(t)) /\ Len(t) \in Nat /\ X # {}
  BY DEF Solid
<1>2. SelectLastInSeq(t, LAMBDA c : c # "blank") = CHOOSE x \in X : \A y \in X : x >= y
  BY <1>1 DEF SelectLastInSeq, Max
<1> HIDE DEF X
<1>3. \E x \in X : \A y \in X : x >= y
  <2>1. PICK x \in X : \A y \in X : y <= x
    BY <1>1, Greatest
  <2>2. \A y \in X : x >= y
    BY <1>1, <2>1
  <2> QED
    BY <2>2
<1>4. PICK b : b = CHOOSE x \in X : \A y \in X : x >= y
  OBVIOUS
<1>5. b \in X /\ \A y \in X : b >= y
  BY <1>3, <1>4, Zenon
<1>6. \A y \in X : y <= b
  BY <1>1, <1>5
<1> QED
  BY <1>1, <1>2, <1>4, <1>5, <1>6 DEF RTrim

LEMMA NoneIs ==
  ASSUME NEW S, NEW t \in Seq(S), Solid(t) = {}
  PROVE  RTrim(t) = <<>>
<1> DEFINE X == {i \in 1..Len(t) : t[i] # "blank"}
<1>1. X = {}
  BY DEF Solid
<1>2. SelectLastInSeq(t, LAMBDA c : c # "blank") = 0
  BY <1>1 DEF SelectLastInSeq
<1>3. SubSeq(t, 1, 0) = <<>>
  OBVIOUS
<1> QED
  BY <1>2, <1>3 DEF RTrim

LEMMA TrimRTrim ==
  ASSUME NEW S, NEW t \in Seq(S)
  PROVE  Trim(RTrim(t)) = Trim(t) /\ RTrim(t) \in Seq(S)
<1>1. CASE Solid(t) = {}
  <2>1. RTrim(t) = <<>> /\ Trim(t) = <<>> /\ <<>> \in Seq(S)
    BY <1>1, NoneIs, TrimIs
  <2>2. Solid(<<>>) = {}
    BY DEF Solid
  <2>3. Trim(<<>>) = <<>>
    BY <2>1, <2>2, TrimIs
  <2> QED
    BY <2>1, <2>3
<1>2. CASE Solid(t) # {}
  <2>1. PICK e \in Solid(t) : RTrim(t) = SubSeq(t, 1, e) /\ \A k \in Solid(t) : k <= e
    BY <1>2, LastIs
  <2>2. PICK a \in 1..Len(t), b \in 1..Len(t) : Between(t, a, b)
    BY <1>2, TrimIs
  <2>3. b = e /\ a \in 1..b /\ Len(t) \in Nat /\ b \in 1..Len(t)
    BY <2>1, <2>2 DEF Between, Solid
  <2>4. PICK u : u = SubSeq(t, 1, b)
    OBVIOUS
  <2>5. u \in Seq(S) /\ Len(u) = b /\ \A j \in 1..b : u[j] = t[j]
    BY <2>3, <2>4
  <2>6. Solid(u) = Solid(t)
    <3>1. ASSUME NEW k \in Solid(t)
          PROVE  k \in Solid(u)
      <4>1. k \in 1..b /\ t[k] # "blank"
        BY <2>2, <3>1 DEF Between, Solid
      <4> QED
        BY <2>5, <4>1 DEF Solid
    <3>2. ASSUME NEW k \in Solid(u)
          PROVE  k \in Solid(t)
      BY <2>3, <2>5 DEF Solid
    <3> QED
      BY <3>1, <3>2
  <2>7. PICK c \in 1..Len(u), d \in 1..Len(u) : Between(u, c, d)
    BY <1>2, <2>5, <2>6, TrimIs
  <2>8. c = a /\ d = b
    BY <2>2, <2>3, <2>5, <2>6, <2>7 DEF Between
  <2>9. Trim(u) = SubSeq(u, a, b) /\ Trim(t) = SubSeq(t, a, b)
    BY <2>2, <2>7, <2>8 DEF Between
  <2>10. SubSeq(u, a, b) = SubSeq(t, a, b)
    <3>1. PICK n \in Nat : n = b - a + 1
      BY <2>3
    <3>2. PICK v : v = SubSeq(u, a, b)
      OBVIOUS
    <3>3. PICK w : w = SubSeq(t, a, b)
      OBVIOUS
    <3>4. v \in Seq(S) /\ Len(v) = n /\ \A j \in 1..n : v[j] = u[a + j - 1]
      BY <2>3, <2>5, <3>1, <3>2, SubSeqIs
    <3>5. w \in Seq(S) /\ Len(w) = n /\ \A j \in 1..n : w[j] = t[a + j - 1]
      BY <2>3, <3>1, <3>3, SubSeqIs
    <3>6. \A j \in 1..n : a + j - 1 \in 1..b
      BY <2>3, <3>1
    <3>7. \A j \in 1..n : v[j] = w[j]
      BY <2>5, <3>4, <3>5, <3>6
    <3>8. v = w
      BY <3>4, <3>5, <3>7
    <3> QED
      BY <3>2, <3>3, <3>8
  <2> QED
    BY <2>1, <2>3, <2>4, <2>5, <2>9, <2>10
<1> QED
  BY <1>1, <1>2
-----------------------------------------------------------------------------
(* Gathered adds line after line.                                            *)
Gathers(f, n, lines, tso) ==
  f = [k \in 0..n |-> IF k = 0 THEN <<>> ELSE AddLine(f[k - 1], lines[k], tso)]

LEMMA GathersExist ==
  ASSUME NEW tso, NEW lines, NEW n \in Nat
  PROVE  \E f : Gathers(f, n, lines, tso)
<1> DEFINE Bad == {m \in Nat : ~ \E f : Gathers(f, m, lines, tso)}
<1> SUFFICES ASSUME Bad # {}
             PROVE  FALSE
  OBVIOUS
<1>1. PICK m \in Bad : \A k \in Bad : m <= k
  BY Least
<1>2. m # 0
  <2>1. Gathers([k \in 0..0 |-> <<>>], 0, lines, tso)
    BY DEF Gathers
  <2> QED
    BY <2>1
<1>3. m - 1 \in Nat /\ m - 1 \notin Bad
  BY <1>1, <1>2
<1>4. PICK f : Gathers(f, m - 1, lines, tso)
  BY <1>3
<1> DEFINE g == [k \in 0..m |-> IF k = m THEN AddLine(f[m - 1], lines[m], tso) ELSE f[k]]
           h == [k \in 0..m |-> IF k = 0 THEN <<>> ELSE AddLine(g[k - 1], lines[k], tso)]
<1>5. ASSUME NEW k \in 0..m
      PROVE  g[k] = h[k]
  <2>1. CASE k = m
    <3>1. g[k - 1] = f[k - 1]
      BY <1>1, <1>2, <2>1
    <3> QED
      BY <1>2, <2>1, <3>1
  <2>2. CASE k # m
    <3>1. k \in 0..m - 1
      BY <2>2
    <3>2. f[k] = IF k = 0 THEN <<>> ELSE AddLine(f[k - 1], lines[k], tso)
      BY <1>4, <3>1 DEF Gathers
    <3>3. k # 0 => k - 1 \in 0..m /\ k - 1 # m
      BY <3>1
    <3> QED
      BY <3>1, <3>2, <3>3, <2>2
  <2> QED
    BY <2>1, <2>2
<1>6. Gathers(g, m, lines, tso)
  BY <1>5 DEF Gathers
<1> QED
  BY <1>6

GatheredBy(f, n, lines, tso) ==
  /\ Gathered(lines, tso) = f[n] /\ f[0] = <<>>
  /\ \A k \in 1..n : f[k] = AddLine(f[k - 1], lines[k], tso)

LEMMA GatheredIs ==
  ASSUME NEW tso, NEW lines, NEW n \in Nat, n = Len(lines)
  PROVE  \E f : GatheredBy(f, n, lines, tso)
<1>1. \E f : f = [k \in 0..n |-> IF k = 0 THEN <<>> ELSE AddLine(f[k - 1], lines[k], tso)]
  BY GathersExist DEF Gathers
<1> DEFINE c == CHOOSE f : f = [k \in 0..n |-> IF k = 0 THEN <<>> ELSE AddLine(f[k - 1], lines[k], tso)]
<1>2. c = [k \in 0..n |-> IF k = 0 THEN <<>> ELSE AddLine(c[k - 1], lines[k], tso)]
  BY <1>1
<1>3. Gathered(lines, tso) = c[n]
  BY DEF Gathered
<1> HIDE DEF c
<1>4. PICK d : d = c
  OBVIOUS
<1>5. d = [k \in 0..n |-> IF k = 0 THEN <<>> ELSE AddLine(d[k - 1], lines[k], tso)]
  BY <1>2, <1>4, Zenon
<1>6. \A k \in 0..n : d[k] = IF k = 0 THEN <<>> ELSE AddLine(d[k - 1], lines[k], tso)
  BY <1>5
<1>7. 0 \in 0..n /\ \A k \in 1..n : k \in 0..n /\ k # 0
  OBVIOUS
<1>8. d[0] = <<>> /\ \A k \in 1..n : d[k] = AddLine(d[k - 1], lines[k], tso)
  BY <1>6, <1>7, Zenon
<1> QED
  BY <1>3, <1>4, <1>8 DEF GatheredBy

LEMMA GatheredNone == ASSUME NEW tso PROVE Gathered(<<>>, tso) = <<>>
<1>1. PICK e : e = <<>>
  OBVIOUS
<1>2. Len(e) = 0
  BY <1>1
<1>3. PICK f : GatheredBy(f, 0, e, tso)
  BY <1>2, GatheredIs
<1> QED
  BY <1>1, <1>3 DEF GatheredBy

LEMMA GatheredAppend ==
  ASSUME NEW tso, NEW S, NEW lines \in Seq(S), NEW p \in S
  PROVE  Gathered(Append(lines, p), tso) = AddLine(Gathered(lines, tso), p, tso)
<1>1. PICK n \in Nat : n = Len(lines)
  OBVIOUS
<1>2. PICK more : more = Append(lines, p)
  OBVIOUS
<1>3. Len(more) = n + 1 /\ more[n + 1] = p /\ \A k \in 1..n : more[k] = lines[k]
  BY <1>1, <1>2
<1>4. PICK f : GatheredBy(f, n, lines, tso)
  BY <1>1, GatheredIs
<1>5. PICK g : GatheredBy(g, n + 1, more, tso)
  <2>1. n + 1 \in Nat /\ n + 1 = Len(more)
    BY <1>3
  <2> QED
    BY <2>1, GatheredIs, Zenon
<1> DEFINE Bad == {k \in 0..n : f[k] # g[k]}
<1>6. Bad = {}
  <2> SUFFICES ASSUME Bad # {}
               PROVE  FALSE
    OBVIOUS
  <2>1. PICK m \in Bad : \A k \in Bad : m <= k
    <3>1. Bad \in SUBSET Nat
      OBVIOUS
    <3> HIDE DEF Bad
    <3> QED
      BY <3>1, Least
  <2>2. m \in 1..n /\ f[m - 1] = g[m - 1]
    <3>1. m \in 0..n /\ m # 0
      BY <1>4, <1>5, <2>1 DEF GatheredBy
    <3>2. m - 1 \in 0..n /\ ~(m <= m - 1)
      BY <3>1
    <3>3. m - 1 \notin Bad
      <4> HIDE DEF Bad
      <4> QED
        BY <2>1, <3>2
    <3> QED
      BY <3>1, <3>2, <3>3
  <2>3. f[m] = AddLine(f[m - 1], lines[m], tso)
    BY <1>4, <2>2 DEF GatheredBy
  <2>4. g[m] = AddLine(g[m - 1], more[m], tso)
    BY <1>5, <2>2 DEF GatheredBy
  <2> QED
    BY <1>3, <2>1, <2>2, <2>3, <2>4
<1>7. n \in 0..n /\ n + 1 \in 1..n + 1
  OBVIOUS
<1>8. g[n] = f[n]
  BY <1>6, <1>7
<1>9. g[n + 1] = AddLine(g[n], p, tso)
  BY <1>3, <1>5, <1>7 DEF GatheredBy
<1> QED
  BY <1>2, <1>4, <1>5, <1>8, <1>9 DEF GatheredBy
-----------------------------------------------------------------------------
(* term_input, byte by byte.                                                 *)
Decode(st, b, recall) == IF st.bad THEN st ELSE TermByte(st, b, recall)
Reads(f, n, raw, recall) ==
  f = [k \in 3..n |-> IF k = 3 THEN TermStart
                      ELSE IF f[k - 1].bad THEN f[k - 1] ELSE TermByte(f[k - 1], raw[k], recall)]

LEMMA ReadsExist ==
  ASSUME NEW raw, NEW recall, NEW n \in Nat
  PROVE  \E f : Reads(f, n, raw, recall)
<1> DEFINE Bad == {m \in Nat : ~ \E f : Reads(f, m, raw, recall)}
<1> SUFFICES ASSUME Bad # {}
             PROVE  FALSE
  OBVIOUS
<1>1. PICK m \in Bad : \A k \in Bad : m <= k
  BY Least
<1>2. m > 3
  <2>1. Reads([k \in 3..0 |-> TermStart], 0, raw, recall)
    BY DEF Reads
  <2>2. Reads([k \in 3..1 |-> TermStart], 1, raw, recall)
    BY DEF Reads
  <2>3. Reads([k \in 3..2 |-> TermStart], 2, raw, recall)
    BY DEF Reads
  <2>4. Reads([k \in 3..3 |-> TermStart], 3, raw, recall)
    BY DEF Reads
  <2>5. m # 0 /\ m # 1 /\ m # 2 /\ m # 3
    BY <2>1, <2>2, <2>3, <2>4
  <2> QED
    BY <2>5
<1>3. m - 1 \in Nat /\ m - 1 \notin Bad
  BY <1>1, <1>2
<1>4. PICK f : Reads(f, m - 1, raw, recall)
  BY <1>3
<1> DEFINE Next1(q, k) == IF q[k - 1].bad THEN q[k - 1] ELSE TermByte(q[k - 1], raw[k], recall)
           g == [k \in 3..m |-> IF k = m THEN Next1(f, m) ELSE f[k]]
           h == [k \in 3..m |-> IF k = 3 THEN TermStart ELSE Next1(g, k)]
<1>5. ASSUME NEW k \in 3..m
      PROVE  g[k] = h[k]
  <2>1. CASE k = m
    <3>1. g[k - 1] = f[k - 1] /\ k # 3
      BY <1>1, <1>2, <2>1
    <3> QED
      BY <2>1, <3>1
  <2>2. CASE k # m
    <3>1. k \in 3..m - 1
      BY <2>2
    <3>2. f[k] = IF k = 3 THEN TermStart ELSE Next1(f, k)
      BY <1>4, <3>1 DEF Reads
    <3>3. k # 3 => g[k - 1] = f[k - 1]
      BY <3>1
    <3> QED
      BY <3>1, <3>2, <3>3, <2>2
  <2> QED
    BY <2>1, <2>2
<1>6. Reads(g, m, raw, recall)
  BY <1>5 DEF Reads
<1> QED
  BY <1>6

ReadBy(f, n, raw, recall) ==
  /\ TermInput(raw, recall) = IF f[n].bad THEN Malformed ELSE RTrim(f[n].out)
  /\ f[3] = TermStart
  /\ \A k \in 4..n : f[k] = Decode(f[k - 1], raw[k], recall)

LEMMA ReadIs ==
  ASSUME NEW raw, NEW recall, NEW n \in Nat, n = Len(raw), n >= 3
  PROVE  \E f : ReadBy(f, n, raw, recall)
<1> DEFINE It(f) == f = [k \in 3..n |-> IF k = 3 THEN TermStart
                         ELSE IF f[k - 1].bad THEN f[k - 1] ELSE TermByte(f[k - 1], raw[k], recall)]
           c == CHOOSE f : It(f)
<1>1. \E f : It(f)
  <2>1. PICK f : Reads(f, n, raw, recall)
    BY ReadsExist
  <2>2. It(f)
    BY <2>1, Zenon DEF Reads
  <2> QED
    BY <2>2, Zenon
<1>2. It(c)
  BY <1>1, Zenon
<1>3. TermInput(raw, recall) = IF c[n].bad THEN Malformed ELSE RTrim(c[n].out)
  BY DEF TermInput
<1>4. PICK d : d = c
  OBVIOUS
<1> HIDE DEF c
<1>5. It(d)
  BY <1>2, <1>4, Zenon
<1>6. \A k \in 3..n : d[k] = IF k = 3 THEN TermStart
                             ELSE IF d[k - 1].bad THEN d[k - 1] ELSE TermByte(d[k - 1], raw[k], recall)
  BY <1>5
<1>7. 3 \in 3..n /\ \A k \in 4..n : k \in 3..n /\ k # 3
  OBVIOUS
<1>8. d[3] = TermStart /\ \A k \in 4..n : d[k] = Decode(d[k - 1], raw[k], recall)
  BY <1>6, <1>7, Zenon DEF Decode
<1> QED
  BY <1>3, <1>4, <1>8 DEF ReadBy
State == [pos : Int, out : Seq(Char \ {"nul"}), bad : BOOLEAN]

LEMMA OrdersIs ==
  \A b \in Orders : /\ Address[b] \in Nat
                    /\ Address[b] = IF b = "SBA0" THEN 0 ELSE IF b = "SBA3" THEN 3 ELSE 6
BY DEF Address, Orders, FieldStart

LEMMA PutText ==
  ASSUME NEW S, NEW out \in Seq(S), NEW at \in Nat, NEW c \in S, "blank" \in S
  PROVE  PutAt(out, at, c) \in Seq(S)
<1>1. PICK n \in Nat : n = IF at < Len(out) THEN Len(out) ELSE at + 1
  <2>1. Len(out) \in Nat /\ at + 1 \in Nat
    OBVIOUS
  <2> QED
    BY <2>1
<1>2. \A k \in 1..n : k <= Len(out) => out[k] \in S
  BY <1>1
<1> QED
  BY <1>1, <1>2 DEF PutAt

LEMMA TermByteText ==
  ASSUME NEW st \in State, NEW b \in Char, NEW recall \in BOOLEAN
  PROVE  TermByte(st, b, recall) \in State
<1> DEFINE T == Char \ {"nul"}
<1>1. st.pos \in Int /\ st.out \in Seq(T) /\ st.bad \in BOOLEAN
  BY DEF State
<1>2. "blank" \in T
  BY DEF Char
<1>3. CASE b \in Orders
  <2>1. Address[b] \in Int
    BY <1>3, OrdersIs
  <2>2. Append(st.out, "blank") \in Seq(T)
    BY <1>1, <1>2
  <2>3. PICK o \in Seq(T) : o = IF ~recall /\ st.out # <<>> /\ Last(st.out) # "blank"
                               THEN Append(st.out, "blank") ELSE st.out
    BY <1>1, <2>2
  <2>4. TermByte(st, b, recall) = [st EXCEPT !.pos = Address[b], !.out = o]
    BY <1>3, <2>3 DEF TermByte
  <2> QED
    BY <2>1, <2>4 DEF State
<1>4. CASE b \notin Orders
  <2>1. PICK at \in Int : at = IF recall THEN st.pos - FieldStart ELSE Len(st.out)
    BY <1>1 DEF FieldStart
  <2>2. CASE st.pos < 0 \/ ~Reachable(recall, at)
    <3>1. TermByte(st, b, recall) = [st EXCEPT !.bad = TRUE]
      BY <1>4, <2>1, <2>2 DEF TermByte
    <3> QED
      BY <3>1 DEF State
  <2>3. CASE ~(st.pos < 0 \/ ~Reachable(recall, at))
    <3>1. TermByte(st, b, recall) = [st EXCEPT !.out = PutAt(st.out, at, Seen(b)), !.pos = st.pos + 1]
      BY <1>4, <2>1, <2>3 DEF TermByte
    <3>2. at \in Nat /\ Seen(b) \in T
      BY <1>2, <2>1, <2>3 DEF Reachable, Seen
    <3>3. PutAt(st.out, at, Seen(b)) \in Seq(T)
      BY <1>1, <1>2, <3>2, PutText
    <3>4. st.pos + 1 \in Int
      BY <1>1
    <3> QED
      BY <3>1, <3>3, <3>4 DEF State
  <2> QED
    BY <2>2, <2>3
<1> QED
  BY <1>3, <1>4

(* What term_input makes of any response is a text without erased cells.     *)
LEMMA ReadText ==
  ASSUME NEW raw \in Seq(Char), Len(raw) >= 3, NEW recall \in BOOLEAN,
         TermInput(raw, recall) # Malformed
  PROVE  TermInput(raw, recall) \in Seq(Char \ {"nul"})
<1>1. PICK n \in Nat : n = Len(raw)
  OBVIOUS
<1>2. PICK f : ReadBy(f, n, raw, recall)
  BY <1>1, ReadIs
<1> DEFINE Bad == {k \in 3..n : f[k] \notin State}
<1>3. Bad = {}
  <2> SUFFICES ASSUME Bad # {}
               PROVE  FALSE
    OBVIOUS
  <2>1. PICK m \in Bad : \A k \in Bad : m <= k
    <3>1. Bad \in SUBSET Nat
      OBVIOUS
    <3> HIDE DEF Bad
    <3> QED
      BY <3>1, Least
  <2>2. TermStart \in State
    BY DEF TermStart, State
  <2>3. m \in 4..n /\ f[m - 1] \in State
    <3>1. m \in 3..n /\ m # 3
      BY <1>2, <2>1, <2>2 DEF ReadBy
    <3>2. m - 1 \in 3..n /\ ~(m <= m - 1)
      BY <3>1
    <3>3. m - 1 \notin Bad
      <4> HIDE DEF Bad
      <4> QED
        BY <2>1, <3>2
    <3> QED
      BY <3>1, <3>2, <3>3
  <2>4. f[m] = Decode(f[m - 1], raw[m], recall)
    BY <1>2, <2>3 DEF ReadBy
  <2>5. raw[m] \in Char
    BY <1>1, <2>3
  <2>6. f[m] \in State
    BY <2>3, <2>4, <2>5, TermByteText DEF Decode
  <2> QED
    BY <2>1, <2>6
<1>4. n \in 3..n
  BY <1>1
<1>5. f[n] \in State
  BY <1>3, <1>4
<1>6. f[n].out \in Seq(Char \ {"nul"})
  BY <1>5 DEF State
<1>7. TermInput(raw, recall) = RTrim(f[n].out)
  BY <1>2 DEF ReadBy
<1> QED
  BY <1>6, <1>7, TrimRTrim

(* Once a response is malformed it stays so.                                 *)
LEMMA BadStays ==
  ASSUME NEW raw, NEW recall, NEW n \in Nat, NEW f, ReadBy(f, n, raw, recall),
         NEW m \in 3..n, f[m].bad
  PROVE  TermInput(raw, recall) = Malformed
<1> DEFINE Bad == {k \in m..n : f[k] # f[m]}
<1>1. Bad = {}
  <2> SUFFICES ASSUME Bad # {}
               PROVE  FALSE
    OBVIOUS
  <2>1. PICK k \in Bad : \A j \in Bad : k <= j
    <3>1. Bad \in SUBSET Nat
      OBVIOUS
    <3> HIDE DEF Bad
    <3> QED
      BY <3>1, Least
  <2>2. k \in 4..n /\ f[k - 1] = f[m]
    <3>1. k \in m..n /\ k # m
      BY <2>1
    <3>2. k - 1 \in m..n /\ ~(k <= k - 1)
      BY <3>1
    <3>3. k - 1 \notin Bad
      <4> HIDE DEF Bad
      <4> QED
        BY <2>1, <3>2
    <3> QED
      BY <3>1, <3>2, <3>3
  <2>3. f[k] = Decode(f[k - 1], raw[k], recall)
    BY <2>2 DEF ReadBy
  <2>4. f[k] = f[m]
    BY <2>2, <2>3 DEF Decode
  <2> QED
    BY <2>1, <2>4
<1>2. n \in m..n
  OBVIOUS
<1>3. f[n] = f[m]
  BY <1>1, <1>2
<1> QED
  BY <1>3 DEF ReadBy

(* A character before any order, or before the field, is malformed.          *)
LEMMA NoOrder ==
  ASSUME NEW raw, Len(raw) \in Nat, Len(raw) >= 4, NEW recall, raw[4] \notin Orders
  PROVE  TermInput(raw, recall) = Malformed
<1>1. PICK n \in Nat : n = Len(raw)
  OBVIOUS
<1>2. PICK f : ReadBy(f, n, raw, recall)
  BY <1>1, ReadIs
<1>3. 4 \in 4..n /\ 4 \in 3..n /\ 4 - 1 = 3
  BY <1>1
<1>4. f[4] = Decode(TermStart, raw[4], recall)
  BY <1>2, <1>3 DEF ReadBy
<1>5. f[4] = [TermStart EXCEPT !.bad = TRUE]
  BY <1>4 DEF Decode, TermByte, TermStart
<1>6. f[4].bad
  BY <1>5 DEF TermStart
<1> QED
  BY <1>2, <1>3, <1>6, BadStays

LEMMA OnlyKey ==
  ASSUME NEW raw, Len(raw) = 3, NEW recall
  PROVE  TermInput(raw, recall) = <<>>
<1>1. PICK f : ReadBy(f, 3, raw, recall)
  <2>1. 3 \in Nat /\ 3 = Len(raw) /\ 3 >= 3
    OBVIOUS
  <2> QED
    BY <2>1, ReadIs, Zenon
<1>2. ~TermStart.bad /\ TermStart.out = <<>>
  BY DEF TermStart
<1>3. RTrim(<<>>) = <<>>
  <2>1. Solid(<<>>) = {} /\ <<>> \in Seq({})
    BY DEF Solid
  <2> QED
    BY <2>1, NoneIs
<1> QED
  BY <1>1, <1>2, <1>3 DEF ReadBy
(* An order before the field: its first character is out of reach.           *)
LEMMA BeforeField ==
  ASSUME NEW raw, Len(raw) \in Nat, Len(raw) >= 5, raw[4] \in {"SBA0", "SBA3"}, raw[5] \notin Orders
  PROVE  TermInput(raw, TRUE) = Malformed
<1>1. PICK n \in Nat : n = Len(raw)
  OBVIOUS
<1>2. PICK f : ReadBy(f, n, raw, TRUE)
  <2>1. n >= 3
    BY <1>1
  <2> QED
    BY <1>1, <2>1, ReadIs, Zenon
<1>3. 4 \in 4..n /\ 5 \in 4..n /\ 5 \in 3..n /\ 4 - 1 = 3 /\ 5 - 1 = 4
  BY <1>1
<1>4. f[4] = Decode(TermStart, raw[4], TRUE) /\ f[5] = Decode(f[4], raw[5], TRUE)
  BY <1>2, <1>3 DEF ReadBy
<1>5. PICK at : at = Address[raw[4]] /\ at \in {0, 3}
  <2>1. raw[4] \in Orders /\ raw[4] # "SBA6"
    BY DEF Orders
  <2> QED
    BY <2>1, OrdersIs
<1>6. f[4] = [pos |-> at, out |-> <<>>, bad |-> FALSE]
  BY <1>4, <1>5 DEF Decode, TermByte, TermStart, Orders
<1>7. f[5] = [f[4] EXCEPT !.bad = TRUE]
  <2>1. f[4].pos = at /\ f[4].bad = FALSE
    BY <1>6
  <2>2. ~(f[4].pos - FieldStart >= 0) /\ raw[5] \notin Orders
    <3>1. at \in Int /\ ~(at - 6 >= 0)
      BY <1>5
    <3> QED
      BY <2>1, <3>1 DEF FieldStart
  <2>3. ~Reachable(TRUE, f[4].pos - FieldStart)
    BY <2>2 DEF Reachable
  <2>4. TermByte(f[4], raw[5], TRUE) = [f[4] EXCEPT !.bad = TRUE]
    BY <2>2, <2>3 DEF TermByte
  <2> QED
    BY <1>4, <2>1, <2>4 DEF Decode
<1>8. f[5].bad
  BY <1>6, <1>7
<1> QED
  BY <1>2, <1>3, <1>8, BadStays

(* A field that begins where it is read and fits is read whole.              *)
Seens(t, j) == [k \in 1..j |-> Seen(t[k])]
Follows(raw, order, t) ==
  /\ order \in Orders /\ t \in Seq(Char) /\ Clean(t)
  /\ Len(raw) = 4 + Len(t) /\ raw[4] = order
  /\ \A j \in 1..Len(t) : raw[4 + j] = t[j]

LEMMA OneMore ==
  ASSUME NEW t \in Seq(Char), NEW j \in Nat, j + 1 \in 1..Len(t), Clean(t), NEW recall \in BOOLEAN,
         NEW pos \in Nat, recall => pos = FieldStart + j /\ Len(t) <= TermCapacity
  PROVE  TermByte([pos |-> pos, out |-> Seens(t, j), bad |-> FALSE], t[j + 1], recall)
         = [pos |-> pos + 1, out |-> Seens(t, j + 1), bad |-> FALSE]
<1>1. PICK b : b = t[j + 1]
  OBVIOUS
<1>2. b \notin Orders
  BY <1>1 DEF Clean
<1>3. PICK out : out = Seens(t, j)
  OBVIOUS
<1>4. Len(out) = j /\ \A k \in 1..j : out[k] = Seen(t[k])
  <2>1. \A k \in 1..j : Seen(t[k]) \in Char
    BY DEF Seen, Char
  <2> QED
    BY <1>3, <2>1 DEF Seens
<1>5. PICK st : st = [pos |-> pos, out |-> out, bad |-> FALSE]
  OBVIOUS
<1>6. st.pos = pos /\ st.out = out /\ st.bad = FALSE
  BY <1>5
<1>7. PICK at : at = IF recall THEN st.pos - FieldStart ELSE Len(st.out)
  OBVIOUS
<1>8. at = j
  BY <1>4, <1>6, <1>7 DEF FieldStart
<1>9. Reachable(recall, at) /\ ~(pos < 0)
  BY <1>8, InputAssumption DEF Reachable
<1>10. TermByte(st, b, recall) = [st EXCEPT !.out = PutAt(out, j, Seen(b)), !.pos = pos + 1]
  BY <1>2, <1>6, <1>7, <1>8, <1>9 DEF TermByte
<1>11. PutAt(out, j, Seen(b)) = Seens(t, j + 1)
  <2>1. ~(j < Len(out)) /\ \A k \in 1..j + 1 : k # j + 1 => k <= Len(out) /\ k \in 1..j
    BY <1>4
  <2>2. PutAt(out, j, Seen(b)) = [k \in 1..j + 1 |-> IF k = j + 1 THEN Seen(b) ELSE out[k]]
    BY <2>1 DEF PutAt
  <2>3. \A k \in 1..j + 1 : (IF k = j + 1 THEN Seen(b) ELSE out[k]) = Seen(t[k])
    BY <1>1, <1>4, <2>1
  <2> QED
    BY <2>2, <2>3 DEF Seens
<1> QED
  BY <1>1, <1>3, <1>5, <1>10, <1>11

LEMMA FieldRead ==
  ASSUME NEW raw, NEW order, NEW t, Follows(raw, order, t), NEW recall \in BOOLEAN,
         recall => order = "SBA6" /\ Len(t) <= TermCapacity
  PROVE  TermInput(raw, recall) = RTrim([k \in DOMAIN t |-> Seen(t[k])])
<1>1. PICK m \in Nat : m = Len(t)
  BY DEF Follows
<1>2. Len(raw) = m + 4 /\ m + 4 \in Nat /\ m + 4 >= 3
  BY <1>1 DEF Follows
<1>3. PICK f : ReadBy(f, m + 4, raw, recall)
  BY <1>2, ReadIs, Zenon
<1>4. PICK a \in Nat : a = Address[order]
  BY OrdersIs DEF Follows
<1> DEFINE St(j) == [pos |-> a + j, out |-> Seens(t, j), bad |-> FALSE]
           Bad == {j \in 0..m : f[4 + j] # St(j)}
<1>5. f[4] = St(0)
  <2>1. 4 \in 4..m + 4 /\ 4 - 1 = 3
    OBVIOUS
  <2>2. f[4] = Decode(TermStart, raw[4], recall)
    BY <1>3, <2>1 DEF ReadBy
  <2>3. f[4] = [pos |-> a, out |-> <<>>, bad |-> FALSE]
    BY <1>4, <2>2 DEF Follows, Decode, TermByte, TermStart
  <2>4. a + 0 = a /\ Seens(t, 0) = <<>>
    BY DEF Seens
  <2> QED
    BY <2>3, <2>4
<1>6. Bad = {}
  <2> SUFFICES ASSUME Bad # {}
               PROVE  FALSE
    OBVIOUS
  <2>1. PICK k \in Bad : \A j \in Bad : k <= j
    <3>1. Bad \in SUBSET Nat
      OBVIOUS
    <3> HIDE DEF Bad
    <3> QED
      BY <3>1, Least
  <2>2. k \in 1..m
    <3>1. k \in 0..m /\ f[4 + k] # St(k)
      BY <2>1
    <3>2. k # 0
      <4>1. 4 + 0 = 4
        OBVIOUS
      <4>2. f[4 + 0] = St(0)
        BY <1>5, <4>1
      <4> HIDE DEF St
      <4> QED
        BY <3>1, <4>2, Zenon
    <3> QED
      BY <3>1, <3>2
  <2>3. PICK j \in Nat : j = k - 1
    BY <2>2
  <2>4. j \in 0..m /\ ~(k <= j) /\ k = j + 1
    BY <2>2, <2>3
  <2>5. f[4 + j] = St(j)
    BY <2>1, <2>4
  <2>6. f[4 + k] = Decode(f[4 + j], raw[4 + k], recall)
    <3>1. 4 + k \in 4..m + 4 /\ (4 + k) - 1 = 4 + j
      BY <2>2, <2>3
    <3> QED
      BY <1>3, <3>1 DEF ReadBy
  <2>7. raw[4 + k] = t[j + 1]
    BY <1>1, <2>2, <2>4 DEF Follows
  <2>8. TermByte(St(j), t[j + 1], recall) = [pos |-> a + j + 1, out |-> Seens(t, j + 1), bad |-> FALSE]
    <3>1. t \in Seq(Char) /\ Clean(t) /\ j + 1 \in 1..Len(t) /\ a + j \in Nat
      BY <1>1, <2>2, <2>4 DEF Follows
    <3>2. recall => a + j = FieldStart + j /\ Len(t) <= TermCapacity
      <4>1. ASSUME recall
            PROVE  a + j = FieldStart + j /\ Len(t) <= TermCapacity
        <5>1. order = "SBA6" /\ Len(t) <= TermCapacity
          BY <4>1
        <5>2. a = 6
          BY <1>4, <5>1, OrdersIs DEF Orders
        <5> QED
          BY <5>1, <5>2 DEF FieldStart
      <4> QED
        BY <4>1
    <3> QED
      BY <3>1, <3>2, OneMore
  <2>9. a + j + 1 = a + k
    BY <2>4
  <2>10. f[4 + k] = St(k)
    <3>1. St(j).bad = FALSE
      OBVIOUS
    <3>2. f[4 + k] = TermByte(St(j), t[j + 1], recall)
      <4> HIDE DEF St
      <4> QED
        BY <2>5, <2>6, <2>7, <3>1 DEF Decode
    <3>3. [pos |-> a + j + 1, out |-> Seens(t, j + 1), bad |-> FALSE] = St(k)
      BY <2>4, <2>9
    <3> HIDE DEF St
    <3> QED
      BY <3>2, <3>3, <2>8
  <2> QED
    BY <2>1, <2>10
<1>7. f[4 + m] = St(m)
  <2>1. m \in 0..m
    OBVIOUS
  <2> HIDE DEF St
  <2> QED
    BY <1>6, <2>1
<1>8. TermInput(raw, recall) = RTrim(Seens(t, m))
  <2>1. 4 + m = m + 4
    OBVIOUS
  <2>2. f[m + 4].out = Seens(t, m) /\ f[m + 4].bad = FALSE
    BY <1>7, <2>1
  <2> QED
    BY <1>3, <2>2 DEF ReadBy
<1>9. DOMAIN t = 1..m
  BY <1>1 DEF Follows
<1> QED
  BY <1>8, <1>9 DEF Seens
-----------------------------------------------------------------------------
TypedInv ==
  /\ {interactive, open, recalling} \subseteq BOOLEAN /\ faults \in 0..MaxFaults
  /\ {stmt, last, screen, ran.text, latest.text, latest.line} \subseteq Seq(Char)
  /\ {typed, ran.lines} \subseteq Seq(Seq(Char))
  /\ \A t \in {stmt, last, ran.text} : Len(t) <= MaxStatement - 2
  /\ \A k \in 1..Len(typed) : typed[k] # <<>>

ScreenInv ==
  /\ Len(screen) <= TermCapacity /\ Clean(screen)
  /\ ~interactive => screen = <<>> /\ ~recalling
  /\ recalling => stmt = <<>> /\ FitsScreen(last) /\ last # <<>>

(* The inputs, by key.                                                       *)
Cells(e) == [k \in DOMAIN e.text |-> Seen(e.text[k])]
KeyLine(raw) == raw # <<>> /\ raw[1] \in {"'", "@", "low"}

LineInput(e) ==
  /\ e.by = "line" /\ e.text \in Lines /\ Raw(e) = e.text
  /\ interactive => screen = <<>>
KeyInput(e) ==
  /\ interactive /\ e.by \in {"pf12", "clear"} /\ Raw(e) \in Seq(Char) /\ Raw(e) # <<>>
  /\ Raw(e)[1] = IF e.by = "clear" THEN "low" ELSE "@"
FieldInput(e, n) ==
  /\ Raw(e) \in Seq(Char) /\ Len(Raw(e)) = n + Len(e.text)
  /\ \A j \in 1..Len(e.text) : Raw(e)[n + j] = e.text[j]
  /\ n = 4 => Raw(e)[4] = e.at
EnterInput(e) ==
  /\ interactive /\ e.by = "enter" /\ Raw(e)[1] = "'"
  /\ e.text # <<>> \/ e.at = "SBA6"
  /\ \/ screen = <<>> /\ e.text[1] \notin Orders
        /\ (\/ e.at = "none" /\ FieldInput(e, 3)
            \/ e.at = "SBA0" /\ FieldInput(e, 4))
     \/ screen # <<>> /\ e.at \in {"SBA3", "SBA6"} /\ FieldInput(e, 4)
        /\ (e.at = "SBA3" => e.text[1] \notin Orders) /\ Len(e.text) <= TermCapacity
PfInput(e) ==
  /\ interactive /\ screen # <<>> /\ e.by = "pf3" /\ e.at = "SBA6"
  /\ FieldInput(e, 4) /\ Raw(e)[1] = "3"

LEMMA TextsIn ==
  ASSUME NEW A, NEW B, NEW t \in Seq(A), \A x \in A : x \in B
  PROVE  t \in Seq(B)
<1>1. t = [k \in 1..Len(t) |-> t[k]] /\ Len(t) \in Nat /\ \A k \in 1..Len(t) : t[k] \in B
  OBVIOUS
<1> QED
  BY <1>1

LEMMA LinesText ==
  ASSUME NEW t \in Lines
  PROVE  t \in Seq(Char) /\ Clean(t) /\ \A k \in 1..Len(t) : t[k] # "nul"
<1>1. t \in Seq(STRING \ (Orders \cup {"nul"}))
  BY InputAssumption
<1>2. \A x \in STRING \ (Orders \cup {"nul"}) : x \in Char
  BY DEF Char
<1>3. t \in Seq(Char)
  BY <1>1, <1>2, TextsIn, Zenon
<1>4. \A k \in 1..Len(t) : t[k] \in STRING \ (Orders \cup {"nul"})
  BY <1>1
<1> QED
  BY <1>3, <1>4 DEF Clean

LEMMA EditsText ==
  ASSUME NEW t \in Edits
  PROVE  t \in Seq(Char) /\ Clean(t) /\ Len(t) <= TermCapacity
<1>1. t \in Seq(STRING \ Orders)
  BY InputAssumption
<1>2. \A x \in STRING \ Orders : x \in Char
  BY DEF Char
<1>3. t \in Seq(Char)
  BY <1>1, <1>2, TextsIn, Zenon
<1>4. \A k \in 1..Len(t) : t[k] \in STRING \ Orders
  BY <1>1
<1> QED
  BY <1>3, <1>4, EditsFit DEF Clean

IsConcat(w, S, h, n, t) ==
  /\ w \in Seq(S) /\ Len(w) = n + Len(t)
  /\ \A i \in 1..n : w[i] = h[i]
  /\ \A j \in 1..Len(t) : w[n + j] = t[j]

LEMMA ConcatIs ==
  ASSUME NEW S, NEW h \in Seq(S), NEW t \in Seq(S), NEW n \in Nat, Len(h) = n
  PROVE  IsConcat(h \o t, S, h, n, t)
<1>1. h \o t \in Seq(S)
  OBVIOUS
<1>2. Len(h \o t) = n + Len(t)
  OBVIOUS
<1>3. \A i \in 1..n : (h \o t)[i] = h[i]
  OBVIOUS
<1>4. \A j \in 1..Len(t) : (h \o t)[n + j] = t[j]
  OBVIOUS
<1> QED
  BY <1>1, <1>2, <1>3, <1>4 DEF IsConcat

LEMMA RawField ==
  ASSUME NEW e, e.by \in {"enter", "pf3", "pf12"}, e.text \in Seq(Char),
         e.at \in Orders \cup {"none"}
  PROVE  /\ FieldInput(e, IF e.at = "none" THEN 3 ELSE 4)
         /\ Raw(e)[1] = IF e.by = "enter" THEN "'" ELSE IF e.by = "pf12" THEN "@" ELSE "3"
<1>1. PICK c \in Char : c = IF e.by = "enter" THEN "'" ELSE IF e.by = "pf12" THEN "@" ELSE "3"
  BY DEF Char
<1>2. KeyByte[e.by] = c
  <2>1. CASE e.by = "enter"
    BY <1>1, <2>1 DEF KeyByte
  <2>2. CASE e.by = "pf3"
    BY <1>1, <2>2 DEF KeyByte
  <2>3. CASE e.by = "pf12"
    BY <1>1, <2>3 DEF KeyByte
  <2> QED
    BY <2>1, <2>2, <2>3
<1>3. Raw(e) = <<c, "cur", "cur">> \o (IF e.at = "none" THEN <<>> ELSE <<e.at>>) \o e.text
  BY <1>2 DEF Raw
<1>4. PICK t \in Seq(Char) : t = e.text
  OBVIOUS
<1>5. "cur" \in Char
  BY DEF Char
<1>6. CASE e.at = "none"
  <2>1. PICK h : h = <<c, "cur", "cur">>
    OBVIOUS
  <2>2. h \in Seq(Char) /\ Len(h) = 3 /\ h[1] = c /\ 3 \in Nat
    BY <1>5, <2>1
  <2>3. h \o <<>> = h
    BY <2>2
  <2>4. PICK w : w = h \o t
    OBVIOUS
  <2>5. IsConcat(w, Char, h, 3, t)
    BY <2>2, <2>4, ConcatIs, Zenon
  <2>6. Raw(e) = w
    BY <1>3, <1>4, <1>6, <2>1, <2>3, <2>4
  <2> QED
    BY <1>1, <1>4, <1>6, <2>2, <2>5, <2>6 DEF FieldInput, IsConcat
<1>7. CASE e.at # "none"
  <2>1. e.at \in Char
    BY <1>7 DEF Char
  <2>2. PICK u : u = <<c, "cur", "cur">>
    OBVIOUS
  <2>3. PICK v : v = <<e.at>>
    OBVIOUS
  <2>4. /\ u \in Seq(Char) /\ Len(u) = 3 /\ u[1] = c /\ 3 \in Nat
        /\ v \in Seq(Char) /\ Len(v) = 1 /\ v[1] = e.at
    BY <1>5, <2>1, <2>2, <2>3
  <2>5. PICK h : h = u \o v
    OBVIOUS
  <2>6. IsConcat(h, Char, u, 3, v)
    BY <2>4, <2>5, ConcatIs, Zenon
  <2>7. h \in Seq(Char) /\ Len(h) = 4 /\ h[1] = c /\ h[4] = e.at /\ 4 \in Nat
    <3>1. 1 \in 1..3 /\ 1 \in 1..1 /\ 3 + 1 = 4
      OBVIOUS
    <3> QED
      BY <2>4, <2>6, <3>1 DEF IsConcat
  <2>8. PICK w : w = h \o t
    OBVIOUS
  <2>9. IsConcat(w, Char, h, 4, t)
    BY <2>7, <2>8, ConcatIs, Zenon
  <2>10. Raw(e) = w
    BY <1>3, <1>4, <1>7, <2>2, <2>3, <2>5, <2>8
  <2> QED
    BY <1>1, <1>4, <1>7, <2>7, <2>9, <2>10 DEF FieldInput, IsConcat
<1> QED
  BY <1>6, <1>7
-----------------------------------------------------------------------------
IsText(t) == t \in Seq(Char) /\ Clean(t) /\ (screen # <<>> => Len(t) <= TermCapacity)
IsInput(e) == LineInput(e) \/ KeyInput(e) \/ EnterInput(e) \/ PfInput(e)

LEMMA TypedIs ==
  ASSUME TypedInv, ScreenInv, NEW t \in Lines, interactive => screen = <<>>
  PROVE  IsText(Typed(t).text) /\ LineInput(Typed(t))
<1>1. Typed(t).by = "line" /\ Typed(t).text = t
  BY DEF Typed
<1>2. Raw(Typed(t)) = t
  BY <1>1 DEF Raw
<1>3. screen = <<>>
  BY DEF ScreenInv, TypedInv
<1> QED
  BY <1>1, <1>2, <1>3, LinesText DEF LineInput, IsText

LEMMA EnterIs ==
  ASSUME interactive, screen = <<>>, NEW at \in {"SBA0", "none"}
  PROVE  /\ IsText(Pressed("enter", at, <<"S", "x", "semi">>).text)
         /\ EnterInput(Pressed("enter", at, <<"S", "x", "semi">>))
<1>1. PICK t : t = <<"S", "x", "semi">>
  OBVIOUS
<1>2. t \in Seq(Char) /\ t # <<>> /\ t[1] \notin Orders /\ Len(t) = 3
  BY <1>1 DEF Char, Orders
<1>3. Clean(t)
  BY <1>1, <1>2 DEF Clean, Orders
<1>4. PICK e : e = Pressed("enter", at, t)
  OBVIOUS
<1>5. e.by = "enter" /\ e.at = at /\ e.text = t
  BY <1>4 DEF Pressed
<1>6. FieldInput(e, IF e.at = "none" THEN 3 ELSE 4) /\ Raw(e)[1] = "'"
  BY <1>2, <1>5, RawField DEF Orders
<1>7. EnterInput(e)
  <2>1. e.text # <<>> /\ e.text[1] \notin Orders
    BY <1>2, <1>5
  <2>2. \/ e.at = "none" /\ FieldInput(e, 3)
        \/ e.at = "SBA0" /\ FieldInput(e, 4)
    <3>1. PICK n : n = IF e.at = "none" THEN 3 ELSE 4
      OBVIOUS
    <3>2. FieldInput(e, n)
      BY <1>6, <3>1, Zenon
    <3>3. CASE e.at = "none"
      <4>1. n = 3
        BY <3>1, <3>3
      <4> QED
        BY <3>2, <3>3, <4>1
    <3>4. CASE e.at = "SBA0"
      <4>1. n = 4
        BY <3>1, <3>4
      <4> QED
        BY <3>2, <3>4, <4>1, Zenon
    <3> QED
      BY <1>5, <3>3, <3>4
  <2> QED
    BY <1>5, <1>6, <2>1, <2>2 DEF EnterInput
<1> QED
  BY <1>1, <1>2, <1>3, <1>4, <1>5, <1>7 DEF IsText

LEMMA FieldIs ==
  ASSUME TypedInv, ScreenInv, interactive, screen # <<>>, NEW t \in {screen} \cup Edits,
         NEW key \in {"enter", "pf3"}, NEW at \in {"SBA3", "SBA6"},
         at = "SBA3" => t = screen /\ key = "enter"
  PROVE  IsText(Pressed(key, at, t).text) /\ IsInput(Pressed(key, at, t))
<1>1. t \in Seq(Char) /\ Clean(t) /\ Len(t) <= TermCapacity
  BY EditsText DEF TypedInv, ScreenInv
<1>2. PICK e : e = Pressed(key, at, t)
  OBVIOUS
<1>3. e.by = key /\ e.at = at /\ e.text = t
  BY <1>2 DEF Pressed
<1>4. FieldInput(e, IF e.at = "none" THEN 3 ELSE 4) /\ Raw(e)[1] = IF e.by = "enter" THEN "'" ELSE "3"
  BY <1>1, <1>3, RawField DEF Orders
<1>5. FieldInput(e, 4)
  BY <1>3, <1>4
<1>6. at = "SBA3" => t # <<>> /\ t[1] \notin Orders
  BY <1>1 DEF Clean
<1>7. EnterInput(e) \/ PfInput(e)
  BY <1>1, <1>3, <1>4, <1>5, <1>6 DEF EnterInput, PfInput
<1> QED
  BY <1>1, <1>2, <1>3, <1>7 DEF IsText, IsInput

LEMMA KeyIs ==
  ASSUME interactive, NEW key \in {"pf12", "clear"}, NEW at \in {"SBA6", "none"}, NEW t, IsText(t)
  PROVE  IsText(Pressed(key, at, t).text) /\ KeyInput(Pressed(key, at, t))
<1>1. PICK e : e = Pressed(key, at, t)
  OBVIOUS
<1>2. e.by = key /\ e.at = at /\ e.text = t /\ t \in Seq(Char)
  BY <1>1 DEF Pressed, IsText
<1>3. CASE key = "clear"
  <2>1. Raw(e) = <<"low">>
    BY <1>2, <1>3 DEF Raw, KeyByte
  <2> QED
    BY <1>1, <1>2, <1>3, <2>1 DEF KeyInput, Char
<1>4. CASE key = "pf12"
  <2>1. FieldInput(e, IF e.at = "none" THEN 3 ELSE 4) /\ Raw(e)[1] = "@"
    BY <1>2, <1>4, RawField DEF Orders
  <2>2. Raw(e) \in Seq(Char) /\ Raw(e) # <<>>
    <3>1. Len(t) \in Nat /\ Len(e.text) = Len(t)
      BY <1>2
    <3>2. Len(Raw(e)) > 0 /\ Raw(e) \in Seq(Char)
      BY <2>1, <3>1 DEF FieldInput
    <3> QED
      BY <3>2
  <2> QED
    BY <1>1, <1>2, <1>4, <2>1, <2>2 DEF KeyInput
<1> QED
  BY <1>3, <1>4

LEMMA InputIs ==
  ASSUME TypedInv, ScreenInv, NEW e \in Inputs
  PROVE  IsText(e.text) /\ IsInput(e)
<1>0. interactive \in BOOLEAN
  BY DEF TypedInv
<1>1. CASE ~interactive
  <2>1. PICK t \in Lines : e = Typed(t)
    BY <1>1 DEF Inputs
  <2> QED
    BY <1>1, <2>1, TypedIs DEF IsInput
<1>2. CASE interactive /\ screen = <<>>
  <2>0. <<>> \in Seq(Char) /\ Clean(<<>>)
    BY DEF Clean
  <2>1. IsText(<<>>)
    BY <1>2, <2>0 DEF IsText
  <2>2. \/ \E t \in Lines : e = Typed(t)
        \/ \E at \in {"SBA0", "none"} : e = Pressed("enter", at, <<"S", "x", "semi">>)
        \/ \E key \in {"pf12", "clear"} : e = Pressed(key, "none", <<>>)
    BY <1>2 DEF Inputs
  <2>3. CASE \E t \in Lines : e = Typed(t)
    BY <1>2, <2>3, TypedIs, Zenon DEF IsInput
  <2>4. CASE \E at \in {"SBA0", "none"} : e = Pressed("enter", at, <<"S", "x", "semi">>)
    BY <1>2, <2>4, EnterIs, Zenon DEF IsInput
  <2>5. CASE \E key \in {"pf12", "clear"} : e = Pressed(key, "none", <<>>)
    BY <1>2, <2>1, <2>5, KeyIs, Zenon DEF IsInput
  <2> QED
    BY <2>2, <2>3, <2>4, <2>5
<1>3. CASE interactive /\ screen # <<>>
  <2>0. <<>> \in Seq(Char) /\ Clean(<<>>) /\ Len(<<>>) <= TermCapacity
    BY InputAssumption DEF Clean
  <2>1. IsText(<<>>)
    BY <2>0 DEF IsText
  <2>2. \A t \in {screen} \cup Edits : IsText(t)
    BY EditsText DEF IsText, TypedInv, ScreenInv
  <2>3. \/ e = Pressed("enter", "SBA3", screen)
        \/ e = Pressed("clear", "none", <<>>)
        \/ \E key \in {"enter", "pf12", "pf3"}, t \in {screen} \cup Edits : e = Pressed(key, "SBA6", t)
    BY <1>3 DEF Inputs
  <2>4. CASE e = Pressed("enter", "SBA3", screen)
    <3>1. screen \in {screen} \cup Edits /\ "enter" \in {"enter", "pf3"} /\ "SBA3" \in {"SBA3", "SBA6"}
      OBVIOUS
    <3> QED
      BY <1>3, <2>4, <3>1, FieldIs
  <2>5. CASE e = Pressed("clear", "none", <<>>)
    BY <1>3, <2>1, <2>5, KeyIs DEF IsInput
  <2>6. CASE \E key \in {"enter", "pf12", "pf3"}, t \in {screen} \cup Edits : e = Pressed(key, "SBA6", t)
    <3>1. PICK key \in {"enter", "pf12", "pf3"}, t \in {screen} \cup Edits : e = Pressed(key, "SBA6", t)
      BY <2>6, Zenon
    <3>2. CASE key = "pf12"
      BY <1>3, <2>2, <3>1, <3>2, KeyIs DEF IsInput
    <3>3. CASE key \in {"enter", "pf3"}
      <4>1. "SBA6" \in {"SBA3", "SBA6"} /\ "SBA6" # "SBA3"
        OBVIOUS
      <4> QED
        BY <1>3, <3>1, <3>3, <4>1, FieldIs
    <3> QED
      BY <3>1, <3>2, <3>3
  <2> QED
    BY <2>3, <2>4, <2>5, <2>6
<1> QED
  BY <1>0, <1>1, <1>2, <1>3
(* What each key is read as.                                                 *)
LEMMA HeadIs == ASSUME NEW S, NEW t \in Seq(S), t # <<>> PROVE Head(t) = t[1]
OBVIOUS

LEMMA KeyReads ==
  ASSUME NEW e, KeyInput(e)
  PROVE  /\ ~IsEnterKey(Raw(e)) /\ ~IsOtherKey(Raw(e)) /\ (IsClearKey(Raw(e)) <=> e.by = "clear")
         /\ Line(Raw(e)) # Malformed
         /\ Trim(Line(Raw(e))) = IF e.by = "clear" THEN <<".CLEAR">> ELSE <<".REPEAT">>
<1>1. Head(Raw(e)) = Raw(e)[1] /\ Raw(e) # <<>> /\ interactive /\ e.by \in {"pf12", "clear"}
  BY HeadIs DEF KeyInput
<1>2. KeyByte.enter = "'" /\ KeyByte.pf12 = "@" /\ KeyByte.clear = "low"
  BY DEF KeyByte
<1>3. CASE e.by = "clear"
  <2>1. Raw(e)[1] = "low"
    BY <1>3 DEF KeyInput
  <2>2. ~IsRepeatKey(Raw(e)) /\ IsClearKey(Raw(e)) /\ ~IsEnterKey(Raw(e)) /\ ~IsOtherKey(Raw(e))
    BY <1>1, <1>2, <2>1 DEF IsRepeatKey, IsClearKey, IsEnterKey, IsOtherKey
  <2>3. Line(Raw(e)) = <<".CLEAR">>
    BY <2>2 DEF Line
  <2> QED
    BY <1>3, <2>2, <2>3, TrimOne DEF Malformed
<1>4. CASE e.by = "pf12"
  <2>1. Raw(e)[1] = "@"
    BY <1>4 DEF KeyInput
  <2>2. IsRepeatKey(Raw(e)) /\ ~IsClearKey(Raw(e)) /\ ~IsEnterKey(Raw(e)) /\ ~IsOtherKey(Raw(e))
    BY <1>1, <1>2, <2>1 DEF IsRepeatKey, IsClearKey, IsEnterKey, IsOtherKey
  <2>3. Line(Raw(e)) = <<".REPEAT">>
    BY <2>2 DEF Line
  <2> QED
    BY <1>4, <2>2, <2>3, TrimOne DEF Malformed
<1> QED
  BY <1>1, <1>3, <1>4

LEMMA PfReads ==
  ASSUME NEW e, PfInput(e), e.text \in Seq(Char)
  PROVE  /\ ~IsEnterKey(Raw(e)) /\ ~IsClearKey(Raw(e)) /\ (IsOtherKey(Raw(e)) <=> recalling)
         /\ Line(Raw(e)) = Raw(e) /\ Raw(e) \in Seq(Char) /\ 4 \in 1..Len(Raw(e)) /\ Raw(e)[4] = "SBA6"
<1>1. Raw(e) \in Seq(Char) /\ Len(Raw(e)) = 4 + Len(e.text) /\ Raw(e)[4] = "SBA6" /\ Raw(e)[1] = "3"
  BY DEF PfInput, FieldInput
<1>2. Len(e.text) \in Nat
  OBVIOUS
<1>3. 4 \in 1..Len(Raw(e)) /\ Raw(e) # <<>>
  BY <1>1, <1>2
<1>4. Head(Raw(e)) = "3" /\ interactive
  BY <1>1, <1>3, HeadIs DEF PfInput
<1>5. KeyByte.enter = "'" /\ KeyByte.pf12 = "@" /\ KeyByte.clear = "low"
  BY DEF KeyByte
<1>6. ~IsRepeatKey(Raw(e)) /\ ~IsClearKey(Raw(e)) /\ ~IsEnterKey(Raw(e))
  BY <1>4, <1>5 DEF IsRepeatKey, IsClearKey, IsEnterKey
<1> QED
  BY <1>1, <1>3, <1>4, <1>6 DEF IsOtherKey, Line

LEMMA EnterReads ==
  ASSUME NEW e, EnterInput(e), IsText(e.text), recalling \in BOOLEAN
  PROVE  /\ IsEnterKey(Raw(e)) /\ ~IsClearKey(Raw(e)) /\ ~IsOtherKey(Raw(e))
         /\ Line(Raw(e)) # Malformed =>
              /\ Line(Raw(e)) \in Seq(Char \ {"nul"})
              /\ ~Apart => Line(Raw(e)) = RTrim(Cells(e))
         /\ recalling /\ screen # <<>> /\ e.at = "SBA6" => Line(Raw(e)) = RTrim(Cells(e))
<1>1. PICK t \in Seq(Char) : t = e.text /\ Clean(t) /\ (screen # <<>> => Len(t) <= TermCapacity)
  BY DEF IsText
<1>2. PICK raw : raw = Raw(e)
  OBVIOUS
<1>3. PICK m \in Nat : m = Len(t)
  OBVIOUS
<1>4. raw \in Seq(Char) /\ raw[1] = "'" /\ (Len(raw) = m + 3 \/ Len(raw) = m + 4) /\ interactive
  BY <1>1, <1>2, <1>3 DEF EnterInput, FieldInput
<1>5. raw # <<>> /\ Len(raw) >= 3
  BY <1>4
<1>6. Head(raw) = "'"
  BY <1>4, <1>5, HeadIs
<1>7. KeyByte.enter = "'" /\ KeyByte.pf12 = "@" /\ KeyByte.clear = "low"
  BY DEF KeyByte
<1>8. IsEnterKey(raw) /\ ~IsClearKey(raw) /\ ~IsRepeatKey(raw)
  BY <1>4, <1>5, <1>6, <1>7 DEF IsRepeatKey, IsClearKey, IsEnterKey
<1>9. ~IsOtherKey(raw) /\ Line(raw) = TermInput(raw, recalling)
  BY <1>8 DEF IsOtherKey, Line
<1>10. TermInput(raw, recalling) # Malformed => TermInput(raw, recalling) \in Seq(Char \ {"nul"})
  BY <1>4, <1>5, ReadText
<1>11. ASSUME e.at \in Orders, FieldInput(e, 4), recalling => e.at = "SBA6" /\ screen # <<>>
       PROVE  Line(raw) = RTrim(Cells(e))
  <2>1. Follows(raw, e.at, t)
    BY <1>1, <1>2, <1>3, <1>11 DEF FieldInput, Follows
  <2>2. recalling => e.at = "SBA6" /\ Len(t) <= TermCapacity
    BY <1>1, <1>11
  <2>3. TermInput(raw, recalling) = RTrim([k \in DOMAIN t |-> Seen(t[k])])
    BY <2>1, <2>2, FieldRead
  <2> QED
    BY <1>1, <1>9, <2>3 DEF Cells
<1>12. ASSUME ~Apart, Line(raw) # Malformed
       PROVE  Line(raw) = RTrim(Cells(e))
  <2>1. CASE e.at = "none"
    <3>1. FieldInput(e, 3) /\ t # <<>> /\ t[1] \notin Orders
      BY <1>1, <2>1 DEF EnterInput
    <3>2. 1 \in 1..m /\ 3 + 1 = 4
      BY <1>3, <3>1
    <3>3. raw[4] = t[1] /\ Len(raw) = 3 + m
      BY <1>1, <1>2, <1>3, <3>1, <3>2 DEF FieldInput
    <3>4. Len(raw) >= 4 /\ Len(raw) \in Nat /\ raw[4] \notin Orders
      BY <3>1, <3>2, <3>3
    <3>5. TermInput(raw, recalling) = Malformed
      BY <3>4, NoOrder
    <3> QED
      BY <1>9, <1>12, <3>5
  <2>2. CASE e.at = "SBA3" /\ recalling
    <3>1. FieldInput(e, 4) /\ t # <<>> /\ t[1] \notin Orders
      BY <1>1, <2>2 DEF EnterInput
    <3>2. 1 \in 1..m /\ 4 + 1 = 5
      BY <1>3, <3>1
    <3>3. raw[5] = t[1] /\ Len(raw) = 4 + m /\ raw[4] = "SBA3"
      BY <1>1, <1>2, <1>3, <2>2, <3>1, <3>2 DEF FieldInput
    <3>4. Len(raw) >= 5 /\ Len(raw) \in Nat /\ raw[5] \notin Orders /\ raw[4] \in {"SBA0", "SBA3"}
      BY <3>1, <3>2, <3>3
    <3>5. TermInput(raw, TRUE) = Malformed
      BY <3>4, BeforeField
    <3> QED
      BY <1>9, <1>12, <2>2, <3>5
  <2>3. CASE ~(e.at = "none") /\ ~(e.at = "SBA3" /\ recalling)
    <3>1. e.at \in Orders /\ FieldInput(e, 4)
      BY <2>3 DEF EnterInput, Orders
    <3>2. recalling => e.at = "SBA6" /\ screen # <<>>
      BY <1>12, <2>3 DEF EnterInput, Apart
    <3> QED
      BY <1>11, <3>1, <3>2
  <2> QED
    BY <2>1, <2>2, <2>3
<1>13. ASSUME recalling, screen # <<>>, e.at = "SBA6"
       PROVE  Line(raw) = RTrim(Cells(e))
  <2>1. e.at \in Orders /\ FieldInput(e, 4)
    BY <1>13 DEF EnterInput, Orders
  <2> QED
    BY <1>11, <1>13, <2>1
<1> QED
  BY <1>2, <1>8, <1>9, <1>10, <1>12, <1>13

LEMMA LineReads ==
  ASSUME NEW e, LineInput(e), interactive \in BOOLEAN
  PROVE  /\ ~LooksLikeKey(e.text) =>
              /\ Line(Raw(e)) = e.text /\ ~IsEnterKey(Raw(e)) /\ ~IsClearKey(Raw(e))
              /\ IsOtherKey(Raw(e)) <=> interactive /\ recalling
         /\ LooksLikeKey(e.text) =>
              \/ Line(Raw(e)) = <<".REPEAT">> /\ e.text[1] = "@" /\ ~IsEnterKey(Raw(e)) /\ ~IsClearKey(Raw(e))
              \/ Line(Raw(e)) = <<".CLEAR">> /\ ~IsEnterKey(Raw(e))
              \/ ~IsClearKey(Raw(e)) /\ Line(Raw(e)) \in {<<>>, Malformed, e.text} 
<1>1. PICK t \in Seq(Char) : t = e.text /\ Clean(t) /\ Raw(e) = t
  BY LinesText DEF LineInput
<1>2. KeyByte.enter = "'" /\ KeyByte.pf12 = "@" /\ KeyByte.clear = "low"
  BY DEF KeyByte
<1>3. t # <<>> => Head(t) = t[1]
  BY HeadIs
<1>4. ASSUME ~LooksLikeKey(t)
      PROVE  ~IsRepeatKey(t) /\ ~IsClearKey(t) /\ ~IsEnterKey(t)
  <2>1. Len(t) >= 3 => t # <<>>
    OBVIOUS
  <2> QED
    BY <1>2, <1>3, <1>4, <2>1 DEF IsRepeatKey, IsClearKey, IsEnterKey, LooksLikeKey
<1>5. ASSUME ~LooksLikeKey(t)
      PROVE  Line(t) = t /\ (IsOtherKey(t) <=> interactive /\ recalling)
  BY <1>4, <1>5 DEF Line, IsOtherKey
<1>6. ASSUME LooksLikeKey(t)
      PROVE  \/ Line(t) = <<".REPEAT">> /\ t[1] = "@" /\ ~IsEnterKey(t) /\ ~IsClearKey(t)
             \/ Line(t) = <<".CLEAR">> /\ ~IsEnterKey(t)
             \/ ~IsClearKey(t) /\ Line(t) \in {<<>>, Malformed, t}
  <2>1. interactive /\ t # <<>> /\ t[1] \in {"'", "@", "low"}
    BY <1>3, <1>6 DEF LooksLikeKey
  <2>2. CASE t[1] = "@"
    <3>1. IsRepeatKey(t) /\ ~IsEnterKey(t) /\ ~IsClearKey(t)
      BY <1>2, <1>3, <2>1, <2>2 DEF IsRepeatKey, IsEnterKey, IsClearKey
    <3> QED
      BY <2>2, <3>1 DEF Line
  <2>3. CASE t[1] = "low"
    <3>1. ~IsRepeatKey(t) /\ ~IsEnterKey(t) /\ IsClearKey(t)
      BY <1>2, <1>3, <2>1, <2>3 DEF IsRepeatKey, IsEnterKey, IsClearKey
    <3> QED
      BY <3>1 DEF Line
  <2>4. CASE t[1] = "'"
    <3>1. ~IsRepeatKey(t) /\ ~IsClearKey(t) /\ (IsEnterKey(t) <=> Len(t) >= 3)
      BY <1>2, <1>3, <2>1, <2>4 DEF IsRepeatKey, IsEnterKey, IsClearKey
    <3>2. PICK m \in Nat : m = Len(t)
      OBVIOUS
    <3>3. CASE ~(m >= 3)
      BY <3>1, <3>2, <3>3 DEF Line
    <3>4. CASE m = 3
      <4>1. TermInput(t, recalling) = <<>>
        BY <3>2, <3>4, OnlyKey
      <4>2. IsEnterKey(t)
        BY <3>1, <3>2, <3>4
      <4> QED
        BY <3>1, <4>1, <4>2 DEF Line
    <3>5. CASE m >= 4
      <4>1. Len(t) \in Nat /\ Len(t) >= 4 /\ 4 \in 1..Len(t)
        BY <3>2, <3>5
      <4>2. t[4] \notin Orders
        BY <1>1, <4>1 DEF Clean
      <4>3. TermInput(t, recalling) = Malformed
        BY <4>1, <4>2, NoOrder
      <4>4. IsEnterKey(t)
        BY <3>1, <4>1
      <4> QED
        BY <3>1, <4>3, <4>4 DEF Line
    <3> QED
      BY <3>2, <3>3, <3>4, <3>5
  <2> QED
    BY <2>1, <2>2, <2>3, <2>4
<1> QED
  BY <1>1, <1>4, <1>5, <1>6
(* None of the lines is excused.                                             *)
Plain(lines) == \A k \in DOMAIN lines : lines[k] # Crossed /\ ~LooksLikeKey(lines[k])
LEMMA PlainAppend ==
  ASSUME NEW lines \in Seq(Seq(Char)), NEW x \in Seq(Char)
  PROVE  Plain(Append(lines, x)) <=> Plain(lines) /\ x # Crossed /\ ~LooksLikeKey(x)
<1>1. PICK n \in Nat : n = Len(lines)
  OBVIOUS
<1>2. PICK more : more = Append(lines, x)
  OBVIOUS
<1>3. /\ DOMAIN more = 1..n + 1 /\ DOMAIN lines = 1..n /\ more[n + 1] = x
      /\ \A k \in 1..n : more[k] = lines[k]
  BY <1>1, <1>2
<1>4. \A k : k \in 1..n + 1 <=> k \in 1..n \/ k = n + 1
  OBVIOUS
<1> QED
  BY <1>2, <1>3, <1>4 DEF Plain

(* A line that was read.                                                     *)
LineText(p) == p \in Seq(Char) /\ NoErased(p) /\ (p # <<>> => p[1] # "blank") /\ Ends(p)

LEMMA TrimLine ==
  ASSUME NEW t \in Seq(Char),
         (\A k \in 1..Len(t) : t[k] # "nul") \/ (\E k \in 1..Len(t) : t[k] \in Orders)
  PROVE  LineText(Trim(t))
<1>1. PICK u \in Seq(Char) : u = Trim(t)
  BY TrimText
<1>2. (u # <<>> => u[1] # "blank") /\ Ends(u)
  BY <1>1, TrimText DEF Ends
<1>3. \A k \in 1..Len(t) : t[k] # "blank" => \E j \in 1..Len(u) : u[j] = t[k]
  BY <1>1, TrimText
<1>4. \A j \in 1..Len(u) : \E k \in 1..Len(t) : u[j] = t[k]
  BY <1>1, TrimText
<1>5. NoErased(u)
  <2>1. CASE \A k \in 1..Len(t) : t[k] # "nul"
    BY <1>4, <2>1 DEF NoErased
  <2>2. CASE \E k \in 1..Len(t) : t[k] \in Orders
    <3>1. PICK k \in 1..Len(t) : t[k] \in Orders
      BY <2>2
    <3>2. t[k] # "blank"
      BY <3>1 DEF Orders
    <3>3. PICK j \in 1..Len(u) : u[j] = t[k]
      BY <1>3, <3>2
    <3> QED
      BY <3>1, <3>3 DEF NoErased, Clean
  <2> QED
    BY <2>1, <2>2
<1> QED
  BY <1>1, <1>2, <1>5 DEF LineText

LEMMA OneText == ASSUME NEW c \in Char, c # "nul" PROVE <<c>> \in Seq(Char) /\ \A k \in 1..Len(<<c>>) : <<c>>[k] # "nul"
OBVIOUS

LEMMA LineIsText ==
  ASSUME TypedInv, ScreenInv, NEW e \in Inputs, NEW p, IsLine(e, p)
  PROVE  LineText(p)
<1>1. PICK l : l = Line(Raw(e))
  OBVIOUS
<1>2. p = Trim(l) /\ l # Malformed
  BY <1>1 DEF IsLine
<1>3. IsText(e.text) /\ IsInput(e)
  BY InputIs
<1>4. {".CLEAR", ".REPEAT"} \subseteq Char /\ "nul" \notin {".CLEAR", ".REPEAT"}
  BY DEF Char, Dots
<1>5. LineText(Trim(<<".CLEAR">>)) /\ LineText(Trim(<<".REPEAT">>))
  BY <1>4, OneText, TrimLine
<1>6. CASE LineInput(e)
  <2>1. e.text \in Seq(Char) /\ \A k \in 1..Len(e.text) : e.text[k] # "nul"
    BY <1>6, LinesText DEF LineInput
  <2>2. l \in {e.text, <<".REPEAT">>, <<".CLEAR">>, <<>>}
    BY <1>1, <1>2, <1>6, LineReads DEF TypedInv
  <2>3. <<>> \in Seq(Char) /\ \A k \in 1..Len(<<>>) : <<>>[k] # "nul"
    OBVIOUS
  <2>4. LineText(Trim(<<>>)) /\ LineText(Trim(e.text))
    BY <2>1, <2>3, TrimLine
  <2> QED
    BY <1>2, <1>5, <2>2, <2>4
<1>7. CASE KeyInput(e)
  <2>1. p \in {<<".CLEAR">>, <<".REPEAT">>}
    BY <1>1, <1>2, <1>7, KeyReads
  <2>2. Trim(<<".CLEAR">>) = <<".CLEAR">> /\ Trim(<<".REPEAT">>) = <<".REPEAT">>
    BY TrimOne
  <2> QED
    BY <1>5, <2>1, <2>2
<1>8. CASE EnterInput(e)
  <2>1. l \in Seq(Char \ {"nul"})
    BY <1>1, <1>2, <1>3, <1>8, EnterReads DEF TypedInv
  <2>2. l \in Seq(Char) /\ \A k \in 1..Len(l) : l[k] # "nul"
    <3>1. \A x \in Char \ {"nul"} : x \in Char
      OBVIOUS
    <3>2. l \in Seq(Char)
      BY <2>1, <3>1, TextsIn, Zenon
    <3> QED
      BY <2>1, <3>2
  <2> QED
    BY <1>2, <2>2, TrimLine
<1>9. CASE PfInput(e)
  <2>1. l \in Seq(Char) /\ 4 \in 1..Len(l) /\ l[4] \in Orders
    BY <1>1, <1>3, <1>9, PfReads DEF IsText, Orders
  <2> QED
    BY <1>2, <2>1, TrimLine
<1> QED
  BY <1>3, <1>6, <1>7, <1>8, <1>9 DEF IsInput

(* What is typed is a list of texts.                                         *)
LEMMA CellsIs ==
  ASSUME NEW e, e.text \in Seq(Char)
  PROVE  Cells(e) \in Seq(Char)
<1>1. \A k \in 1..Len(e.text) : Seen(e.text[k]) \in Char
  BY DEF Seen, Char
<1> QED
  BY <1>1 DEF Cells

LEMMA TypedWithIs ==
  ASSUME TypedInv, ScreenInv, NEW e \in Inputs
  PROVE  \/ TypedWith(e) = typed
         \/ \E x \in Seq(Char) : /\ TypedWith(e) = Append(typed, x) /\ x # <<>>
                                 /\ \/ x = Crossed
                                    \/ ~Apart /\ x = Trim(Cells(e)) /\ e.by \in {"line", "enter"}
<1>1. e.text \in Seq(Char)
  BY InputIs DEF IsText
<1>2. Cells(e) \in Seq(Char)
  BY <1>1, CellsIs
<1>3. PICK q \in Seq(Char) : q = Trim(Cells(e))
  BY <1>2, TrimText
<1>4. Crossed \in Seq(Char) /\ Crossed # <<>>
  BY DEF Crossed, Char
<1>5. TypedWith(e) = IF Apart /\ e.by \in {"line", "enter", "pf3"} THEN Append(typed, Crossed)
        ELSE IF \/ e.by \notin {"line", "enter"}
                \/ q = <<>> \/ Is(q, ".REPEAT")
                \/ (interactive /\ typed = <<>> /\ Stray(q))
             THEN typed ELSE Append(typed, q)
  BY <1>3 DEF TypedWith, Cells
<1> QED
  BY <1>3, <1>4, <1>5
LEMMA CellsPlain ==
  ASSUME NEW e, e.text \in Seq(Char), \A k \in 1..Len(e.text) : e.text[k] # "nul"
  PROVE  Cells(e) = e.text
<1>1. PICK t \in Seq(Char) : t = e.text
  OBVIOUS
<1>2. \A k \in 1..Len(t) : Seen(t[k]) = t[k]
  BY <1>1 DEF Seen
<1>3. t = [k \in 1..Len(t) |-> t[k]] /\ DOMAIN t = 1..Len(t)
  OBVIOUS
<1> QED
  BY <1>1, <1>2, <1>3 DEF Cells

(* An input that adds nothing to what was typed, or the line that is read.   *)
Unsaid(p) == p = <<>> \/ Is(p, ".REPEAT") \/ (interactive /\ typed = <<>> /\ Stray(p))

LEMMA Uncrossed ==
  ASSUME TypedInv, ScreenInv, NEW e \in Inputs, Plain(TypedWith(e)), NEW q, q = Trim(Cells(e))
  PROVE  /\ ~(Apart /\ e.by \in {"line", "enter", "pf3"})
         /\ TypedWith(e) = IF e.by \notin {"line", "enter"} \/ Unsaid(q) THEN typed ELSE Append(typed, q)
         /\ q \in Seq(Char) /\ (LooksLikeKey(q) => TypedWith(e) = typed)
<1>1. Cells(e) \in Seq(Char)
  BY InputIs, CellsIs DEF IsText
<1>2. q \in Seq(Char)
  BY <1>1, TrimText
<1>3. Crossed \in Seq(Char) /\ typed \in Seq(Seq(Char))
  BY DEF Crossed, Char, TypedInv
<1>4. ~Plain(Append(typed, Crossed))
  BY <1>3, PlainAppend
<1>5. TypedWith(e) = IF Apart /\ e.by \in {"line", "enter", "pf3"} THEN Append(typed, Crossed)
        ELSE IF e.by \notin {"line", "enter"} \/ Unsaid(q) THEN typed ELSE Append(typed, q)
  BY DEF TypedWith, Cells, Unsaid
<1>6. LooksLikeKey(q) => ~Plain(Append(typed, q))
  BY <1>2, <1>3, PlainAppend
<1> QED
  BY <1>2, <1>4, <1>5, <1>6

LEMMA KeyStays ==
  ASSUME NEW t \in Seq(Char), LooksLikeKey(t)
  PROVE  LooksLikeKey(Trim(t))
<1>1. t # <<>> /\ Head(t) = t[1] /\ Head(t) \in {"'", "@", "low"} /\ interactive
  BY HeadIs DEF LooksLikeKey
<1>2. Trim(t) # <<>> /\ Trim(t)[1] = t[1] /\ Trim(t) \in Seq(Char)
  BY <1>1, TrimHead, TrimText
<1> QED
  BY <1>1, <1>2, HeadIs DEF LooksLikeKey

LEMMA LineTyped ==
  ASSUME TypedInv, ScreenInv, NEW e \in Inputs, NEW p, IsLine(e, p), ~Is(p, ".CLEAR"),
         Plain(TypedWith(e))
  PROVE  TypedWith(e) = IF Unsaid(p) THEN typed ELSE Append(typed, p)
<1>1. IsText(e.text) /\ IsInput(e)
  BY InputIs
<1>2. PICK q : q = Trim(Cells(e))
  OBVIOUS
<1>3. /\ ~(Apart /\ e.by \in {"line", "enter", "pf3"})
      /\ TypedWith(e) = IF e.by \notin {"line", "enter"} \/ Unsaid(q) THEN typed ELSE Append(typed, q)
      /\ q \in Seq(Char) /\ (LooksLikeKey(q) => TypedWith(e) = typed)
  BY <1>2, Uncrossed
<1>4. PICK l : l = Line(Raw(e))
  OBVIOUS
<1>5. p = Trim(l) /\ l # Malformed /\ ~IsOtherKey(Raw(e))
  BY <1>4 DEF IsLine
<1>6. Unsaid(<<".REPEAT">>) /\ Unsaid(<<>>)
  BY DEF Unsaid, Is
<1>7. CASE LineInput(e)
  <2>1. e.text \in Seq(Char) /\ (\A k \in 1..Len(e.text) : e.text[k] # "nul") /\ e.by = "line"
    BY <1>7, LinesText DEF LineInput
  <2>2. q = Trim(e.text)
    BY <1>2, <2>1, CellsPlain
  <2>3. CASE ~LooksLikeKey(e.text)
    <3>1. l = e.text
      BY <1>4, <1>7, <2>3, LineReads DEF TypedInv
    <3> QED
      BY <1>3, <1>5, <2>1, <2>2, <3>1
  <2>4. CASE LooksLikeKey(e.text)
    <3>1. TypedWith(e) = typed
      BY <1>3, <2>1, <2>2, <2>4, KeyStays
    <3>2. l \in {<<".REPEAT">>, <<".CLEAR">>, <<>>, e.text}
      BY <1>4, <1>5, <1>7, <2>4, LineReads DEF TypedInv
    <3>3. CASE l = <<".REPEAT">>
      BY <1>5, <1>6, <3>1, <3>3, TrimOne
    <3>4. CASE l = <<".CLEAR">>
      BY <1>5, <3>4, TrimOne DEF Is
    <3>5. CASE l = <<>>
      <4>1. <<>> \in Seq(Char) /\ Len(<<>>) = 0
        OBVIOUS
      <4>2. PICK u \in Seq(Char) : u = Trim(<<>>) /\ Len(u) <= 0
        BY <4>1, TrimText
      <4>3. u = <<>>
        BY <4>2
      <4> QED
        BY <1>5, <1>6, <3>1, <3>5, <4>2, <4>3
    <3>6. CASE l = e.text
      BY <1>3, <1>5, <2>1, <2>2, <3>6
    <3> QED
      BY <3>2, <3>3, <3>4, <3>5, <3>6
  <2> QED
    BY <2>3, <2>4
<1>8. CASE KeyInput(e)
  <2>1. p = IF e.by = "clear" THEN <<".CLEAR">> ELSE <<".REPEAT">>
    BY <1>4, <1>5, <1>8, KeyReads
  <2>2. p = <<".REPEAT">>
    BY <2>1 DEF Is
  <2>3. e.by \notin {"line", "enter"}
    BY <1>8 DEF KeyInput
  <2> QED
    BY <1>3, <1>6, <2>2, <2>3
<1>9. CASE EnterInput(e)
  <2>1. e.by = "enter"
    BY <1>9 DEF EnterInput
  <2>2. l = RTrim(Cells(e))
    BY <1>1, <1>3, <1>4, <1>5, <1>9, <2>1, EnterReads DEF TypedInv
  <2>3. Cells(e) \in Seq(Char)
    BY <1>1, CellsIs DEF IsText
  <2>4. p = q
    BY <1>2, <1>5, <2>2, <2>3, TrimRTrim
  <2> QED
    BY <1>3, <2>1, <2>4
<1>10. CASE PfInput(e)
  <2>1. ~recalling
    BY <1>1, <1>5, <1>10, PfReads DEF IsText
  <2>2. e.by = "pf3" /\ screen # <<>>
    BY <1>10 DEF PfInput
  <2> QED
    BY <1>3, <2>1, <2>2 DEF Apart, TypedInv
<1> QED
  BY <1>1, <1>7, <1>8, <1>9, <1>10 DEF IsInput

LEMMA NoLineTyped ==
  ASSUME TypedInv, ScreenInv, NEW e \in Inputs, Plain(TypedWith(e)),
         \/ IsOtherKey(Raw(e))
         \/ IsEnterKey(Raw(e)) /\ Line(Raw(e)) = Malformed /\ e.by # "enter"
  PROVE  TypedWith(e) = typed
<1>1. IsText(e.text) /\ IsInput(e)
  BY InputIs
<1>2. PICK q : q = Trim(Cells(e))
  OBVIOUS
<1>3. /\ ~(Apart /\ e.by \in {"line", "enter", "pf3"})
      /\ TypedWith(e) = IF e.by \notin {"line", "enter"} \/ Unsaid(q) THEN typed ELSE Append(typed, q)
      /\ q \in Seq(Char) /\ (LooksLikeKey(q) => TypedWith(e) = typed)
  BY <1>2, Uncrossed
<1>4. CASE LineInput(e)
  <2>1. e.text \in Seq(Char) /\ (\A k \in 1..Len(e.text) : e.text[k] # "nul") /\ e.by = "line"
    BY <1>4, LinesText DEF LineInput
  <2>2. ~(IsOtherKey(Raw(e)))
    <3>1. ASSUME interactive, recalling
          PROVE  FALSE
      BY <1>3, <1>4, <2>1, <3>1 DEF LineInput, Apart
    <3> QED
      BY <3>1 DEF IsOtherKey
  <2>3. IsEnterKey(Raw(e))
    BY <2>2
  <2>4. LooksLikeKey(e.text)
    BY <1>4, <2>3, LineReads DEF TypedInv
  <2>5. q = Trim(e.text)
    BY <1>2, <2>1, CellsPlain
  <2> QED
    BY <1>3, <2>1, <2>4, <2>5, KeyStays
<1>5. CASE KeyInput(e)
  BY <1>5, KeyReads
<1>6. CASE EnterInput(e)
  <2>1. e.by = "enter" /\ ~IsOtherKey(Raw(e))
    BY <1>1, <1>6, EnterReads DEF EnterInput, TypedInv
  <2> QED
    BY <2>1
<1>7. CASE PfInput(e)
  BY <1>3, <1>7 DEF PfInput
<1> QED
  BY <1>1, <1>4, <1>5, <1>6, <1>7 DEF IsInput

RecallInv ==
  /\ Starts(stmt) /\ Starts(last) /\ Ends(last) /\ NoErased(stmt) /\ NoErased(last)
  /\ last # <<>> => Contains(last, "semi")
  /\ IsDot(latest.line) \/ last = latest.text

StmtInv ==
  /\ open /\ Plain(typed) => stmt = Gathered(typed, interactive)
  /\ RunsWhole

InputInv == TypedInv /\ ScreenInv /\ RecallInv /\ StmtInv
-----------------------------------------------------------------------------
(* A line added to what is collected.                                        *)
IsJoin(c, s, p) ==
  /\ c \in Seq(Char) /\ c # <<>>
  /\ Len(c) <= (IF s = <<>> THEN 0 ELSE Len(s) + 1) + Len(p)
  /\ c[1] = (IF s = <<>> THEN p[1] ELSE s[1]) /\ c[Len(c)] = p[Len(p)]
  /\ \A k \in 1..Len(p) : \E j \in 1..Len(c) : c[j] = p[k]
  /\ \A k \in 1..Len(s) : \E j \in 1..Len(c) : c[j] = s[k]
  /\ \A j \in 1..Len(c) : \/ c[j] = "blank" \/ (\E k \in 1..Len(p) : c[j] = p[k])
                          \/ (\E k \in 1..Len(s) : c[j] = s[k])

LEMMA JoinLineIs ==
  ASSUME NEW s \in Seq(Char), NEW p \in Seq(Char), p # <<>>
  PROVE  IsJoin(JoinLine(s, p), s, p)
<1>1. PICK m \in Nat : m = Len(p) /\ m > 0
  OBVIOUS
<1>2. CASE s = <<>>
  <2>1. JoinLine(s, p) = p /\ Len(s) = 0
    BY <1>2 DEF JoinLine
  <2> QED
    BY <1>1, <1>2, <2>1 DEF IsJoin
<1>3. CASE s # <<>>
  <2>1. PICK n \in Nat : n = Len(s) /\ n > 0
    BY <1>3
  <2>2. PICK b : b = <<"blank">>
    OBVIOUS
  <2>3. b \in Seq(Char) /\ Len(b) = 1 /\ b[1] = "blank"
    BY <2>2 DEF Char
  <2>4. PICK h : h = s \o b
    OBVIOUS
  <2>5. IsConcat(h, Char, s, n, b)
    BY <2>1, <2>3, <2>4, ConcatIs, Zenon
  <2>6. h \in Seq(Char) /\ Len(h) = n + 1 /\ n + 1 \in Nat
    BY <2>3, <2>5 DEF IsConcat
  <2>7. PICK c : c = h \o p
    OBVIOUS
  <2>8. IsConcat(c, Char, h, n + 1, p)
    BY <2>6, <2>7, ConcatIs, Zenon
  <2>9. JoinLine(s, p) = c
    BY <1>3, <2>2, <2>4, <2>7 DEF JoinLine
  <2>10. c \in Seq(Char) /\ Len(c) = n + 1 + m
    BY <1>1, <2>8 DEF IsConcat
  <2>11. \A i \in 1..n : i \in 1..n + 1 /\ i \in 1..n + 1 + m /\ c[i] = s[i]
    <3>1. ASSUME NEW i \in 1..n
          PROVE  i \in 1..n + 1 /\ i \in 1..n + 1 + m /\ c[i] = s[i]
      <4>1. i \in 1..n + 1 /\ i \in 1..n + 1 + m
        BY <1>1
      <4>2. c[i] = h[i]
        BY <2>8, <4>1 DEF IsConcat
      <4>3. h[i] = s[i]
        BY <2>5 DEF IsConcat
      <4> QED
        BY <4>1, <4>2, <4>3
    <3> QED
      BY <3>1
  <2>12. c[n + 1] = "blank"
    <3>1. n + 1 \in 1..n + 1 /\ 1 \in 1..1
      BY <2>1
    <3>2. c[n + 1] = h[n + 1]
      BY <2>8, <3>1 DEF IsConcat
    <3>3. h[n + 1] = b[1]
      BY <2>3, <2>5, <3>1 DEF IsConcat
    <3> QED
      BY <2>3, <3>2, <3>3
  <2>13. \A k \in 1..m : n + 1 + k \in 1..n + 1 + m /\ c[n + 1 + k] = p[k]
    BY <1>1, <2>8 DEF IsConcat
  <2>14. c # <<>> /\ c[1] = s[1] /\ c[Len(c)] = p[Len(p)]
    <3>1. 1 \in 1..n /\ m \in 1..m
      BY <1>1, <2>1
    <3> QED
      BY <1>1, <2>10, <2>11, <2>13, <3>1
  <2>15. \A k \in 1..m : \E j \in 1..n + 1 + m : c[j] = p[k]
    BY <2>13
  <2>16. \A k \in 1..n : \E j \in 1..n + 1 + m : c[j] = s[k]
    BY <2>11
  <2>17. ASSUME NEW j \in 1..n + 1 + m
         PROVE  c[j] = "blank" \/ (\E k \in 1..m : c[j] = p[k]) \/ (\E k \in 1..n : c[j] = s[k])
    <3>1. CASE j \in 1..n
      BY <2>11, <3>1
    <3>2. CASE j = n + 1
      BY <2>12, <3>2
    <3>3. CASE j > n + 1
      <4>1. j - (n + 1) \in 1..m /\ n + 1 + (j - (n + 1)) = j
        BY <3>3
      <4> QED
        BY <2>13, <4>1
    <3> QED
      BY <3>1, <3>2, <3>3
  <2> QED
    BY <1>1, <1>3, <2>1, <2>9, <2>10, <2>14, <2>15, <2>16, <2>17 DEF IsJoin
<1> QED
  BY <1>2, <1>3

LEMMA Collected ==
  ASSUME NEW s \in Seq(Char), Starts(s), NoErased(s), NEW p, LineText(p), p # <<>>,
         s = <<>> => p[1] \notin Dots, NEW c, c = JoinLine(s, p)
  PROVE  /\ c \in Seq(Char) /\ c # <<>> /\ Starts(c) /\ Ends(c) /\ NoErased(c)
         /\ Contains(p, "semi") => Contains(c, "semi")
<1>1. IsJoin(c, s, p) /\ p \in Seq(Char)
  BY JoinLineIs DEF LineText
<1>2. Starts(c) /\ Ends(c)
  BY <1>1 DEF IsJoin, Starts, Ends, LineText
<1>3. NoErased(c)
  <2>1. ASSUME Clean(c)
        PROVE  \A j \in 1..Len(c) : c[j] # "nul"
    <3>1. Clean(s) /\ Clean(p)
      BY <1>1, <2>1 DEF IsJoin, Clean
    <3>2. (\A k \in 1..Len(s) : s[k] # "nul") /\ (\A k \in 1..Len(p) : p[k] # "nul")
      BY <3>1 DEF NoErased, LineText
    <3>3. \A j \in 1..Len(c) : \/ c[j] = "blank" \/ (\E k \in 1..Len(p) : c[j] = p[k])
                               \/ (\E k \in 1..Len(s) : c[j] = s[k])
      BY <1>1 DEF IsJoin
    <3> QED
      BY <3>2, <3>3
  <2> QED
    BY <2>1 DEF NoErased
<1>4. Contains(p, "semi") => Contains(c, "semi")
  BY <1>1 DEF IsJoin, Contains
<1> QED
  BY <1>1, <1>2, <1>3, <1>4 DEF IsJoin

LEMMA DotIs == ASSUME NEW p \in Seq(Char) PROVE IsDot(p) <=> p # <<>> /\ p[1] \in Dots
BY HeadIs DEF IsDot
-----------------------------------------------------------------------------
(* The steps.                                                                *)
FitText(t) == t \in Seq(Char) /\ Len(t) <= MaxStatement - 2
LinesOK(l) == l \in Seq(Seq(Char)) /\ \A k \in 1..Len(l) : l[k] # <<>>
ScreenOK(s) ==
  /\ s \in Seq(Char) /\ Len(s) <= TermCapacity /\ Clean(s)
  /\ ~interactive => s = <<>>

LEMMA Empty == FitText(<<>>) /\ LinesOK(<<>>) /\ ScreenOK(<<>>) /\ (\A tso : Gathered(<<>>, tso) = <<>>)
<1>1. 0 <= MaxStatement - 2 /\ 0 <= TermCapacity
  BY RecallFits, InputAssumption
<1>2. Len(<<>>) = 0 /\ <<>> \in Seq(Char) /\ <<>> \in Seq(Seq(Char)) /\ 1..0 = {}
  OBVIOUS
<1> QED
  BY <1>1, <1>2, GatheredNone DEF FitText, LinesOK, ScreenOK, Clean

LEMMA Shows ==
  ASSUME TypedInv, ScreenInv, NEW e \in Inputs
  PROVE  ScreenOK(Shown(e))
<1>1. CASE screen = <<>> \/ e.by = "clear"
  BY <1>1, Empty DEF Shown
<1>2. CASE ~(screen = <<>> \/ e.by = "clear")
  <2>1. IsText(e.text) /\ Shown(e) = e.text
    BY <1>2, InputIs DEF Shown
  <2> QED
    BY <1>2, <2>1 DEF IsText, ScreenOK, ScreenInv
<1> QED
  BY <1>1, <1>2

LEMMA TypedMore ==
  ASSUME TypedInv, ScreenInv, NEW e \in Inputs
  PROVE  LinesOK(TypedWith(e))
<1>1. LinesOK(typed)
  BY DEF LinesOK, TypedInv
<1>2. ASSUME NEW x \in Seq(Char), x # <<>>
      PROVE  LinesOK(Append(typed, x))
  <2>1. PICK n \in Nat : n = Len(typed)
    BY <1>1 DEF LinesOK
  <2>2. PICK more : more = Append(typed, x)
    OBVIOUS
  <2>3. more \in Seq(Seq(Char)) /\ Len(more) = n + 1 /\ more[n + 1] = x /\ \A k \in 1..n : more[k] = typed[k]
    BY <1>1, <2>1, <2>2 DEF LinesOK
  <2>4. \A k : k \in 1..n + 1 <=> k \in 1..n \/ k = n + 1
    OBVIOUS
  <2>5. \A k \in 1..n : typed[k] # <<>>
    BY <1>1, <2>1 DEF LinesOK
  <2> QED
    BY <1>2, <2>2, <2>3, <2>4, <2>5 DEF LinesOK
<1> QED
  BY <1>1, <1>2, TypedWithIs

LEMMA Recalling ==
  ASSUME TypedInv, ScreenInv, NEW e, NEW p, IsLine(e, p), RecallingAfter(Raw(e))
  PROVE  p = <<".REPEAT">> /\ recalling /\ interactive
<1>1. recalling /\ ~IsClearKey(Raw(e)) /\ ~IsEnterKey(Raw(e)) /\ interactive
  BY DEF RecallingAfter, ScreenInv, TypedInv
<1>2. IsRepeatKey(Raw(e))
  BY <1>1 DEF IsLine, IsOtherKey
<1>3. Line(Raw(e)) = <<".REPEAT">>
  BY <1>1, <1>2 DEF Line
<1> QED
  BY <1>1, <1>3, TrimOne DEF IsLine

RanWhole(r) == r # Nothing => r.text = Gathered(r.lines, interactive) \/ ~Plain(r.lines)
SafeRan(r) == FitText(r.text) /\ LinesOK(r.lines) /\ RanWhole(r)
RecallPart(s, l, t) ==
  /\ Starts(s) /\ Starts(l) /\ Ends(l) /\ NoErased(s) /\ NoErased(l)
  /\ l # <<>> => Contains(l, "semi")
  /\ {t.text, t.line} \subseteq Seq(Char) /\ (IsDot(t.line) \/ l = t.text)
StmtPart(s, lines) == Plain(lines) => s = Gathered(lines, interactive)

StepIs ==
  /\ interactive' = interactive /\ {open', recalling'} \subseteq BOOLEAN /\ faults' \in 0..MaxFaults
  /\ FitText(stmt') /\ FitText(last') /\ ScreenOK(screen') /\ LinesOK(typed')
  /\ SafeRan(ran') /\ RecallPart(stmt', last', latest')
  /\ recalling' => interactive /\ stmt' = <<>> /\ FitsScreen(last') /\ last' # <<>>
  /\ open' => StmtPart(stmt', typed')

LEMMA RunsWholeIs == RunsWhole <=> RanWhole(ran)
BY DEF RunsWhole, RanWhole, Plain, Excused

LEMMA StepInv == ASSUME InputInv, StepIs PROVE InputInv'
<1>1. TypedInv'
  BY DEF StepIs, TypedInv, InputInv, FitText, ScreenOK, LinesOK, SafeRan, RecallPart
<1>2. ScreenInv'
  BY DEF StepIs, ScreenInv, InputInv, TypedInv, ScreenOK
<1>3. RecallInv'
  BY DEF StepIs, RecallInv, RecallPart
<1>4. StmtInv'
  <2>1. interactive' = interactive
    BY DEF StepIs
  <2>3. RunsWhole'
    <3>1. RanWhole(ran')
      BY DEF StepIs, SafeRan
    <3> QED
      BY <2>1, <3>1 DEF RunsWhole, RanWhole, Plain, Excused, LooksLikeKey
  <2>4. (open /\ Plain(typed) => stmt = Gathered(typed, interactive))'
    <3>1. open' => StmtPart(stmt', typed')
      BY DEF StepIs
    <3> QED
      BY <2>1, <3>1 DEF StmtPart, Plain, LooksLikeKey
  <2> QED
    BY <2>3, <2>4 DEF StmtInv
<1> QED
  BY <1>1, <1>2, <1>3, <1>4 DEF InputInv

LEMMA Statement ==
  ASSUME InputInv, open, NEW e \in Inputs, NEW p, IsLine(e, p), IsStatement(p), Plain(TypedWith(e))
  PROVE  Gathered(TypedWith(e), interactive) = IF TooLong(stmt, p) THEN <<>> ELSE JoinLine(stmt, p)
<1>1. TypedInv /\ ScreenInv /\ StmtInv /\ typed \in Seq(Seq(Char))
  BY DEF InputInv, TypedInv
<1>2. LineText(p) /\ p \in Seq(Char)
  BY <1>1, LineIsText DEF LineText
<1>3. p # <<>> /\ ~Is(p, ".CLEAR") /\ ~Is(p, ".REPEAT") /\ ~(interactive /\ stmt = <<>> /\ Stray(p))
  BY DEF IsStatement
<1>4. TypedWith(e) = IF Unsaid(p) THEN typed ELSE Append(typed, p)
  BY <1>1, <1>3, LineTyped
<1>5. ~Unsaid(p)
  <2>1. ASSUME interactive, typed = <<>>, Stray(p)
        PROVE  FALSE
    <3>1. Unsaid(p)
      BY <2>1 DEF Unsaid
    <3>2. Plain(typed)
      BY <1>4, <3>1
    <3>3. stmt = Gathered(<<>>, interactive)
      BY <1>1, <2>1, <3>2 DEF StmtInv
    <3> QED
      BY <1>3, <2>1, <3>3, GatheredNone
  <2> QED
    BY <1>3, <2>1 DEF Unsaid
<1>6. TypedWith(e) = Append(typed, p)
  BY <1>4, <1>5
<1>7. Plain(typed)
  BY <1>1, <1>2, <1>6, PlainAppend
<1>8. stmt = Gathered(typed, interactive)
  BY <1>1, <1>7 DEF StmtInv
<1>9. Gathered(Append(typed, p), interactive) = AddLine(Gathered(typed, interactive), p, interactive)
  BY <1>1, <1>2, GatheredAppend
<1> QED
  BY <1>3, <1>6, <1>8, <1>9 DEF AddLine

(* What every pass of the loop starts from.                                  *)
Before(e) ==
  /\ open /\ e \in Inputs /\ Clean(last) /\ interactive' = interactive
  /\ interactive \in BOOLEAN /\ recalling \in BOOLEAN /\ faults \in 0..MaxFaults
  /\ FitText(stmt) /\ FitText(last) /\ ScreenOK(screen) /\ LinesOK(typed)
  /\ ScreenOK(Shown(e)) /\ LinesOK(TypedWith(e)) /\ ScreenOK(<<>>)
  /\ RecallPart(stmt, last, latest) /\ RecallPart(<<>>, last, latest)
  /\ recalling => interactive /\ stmt = <<>> /\ FitsScreen(last) /\ last # <<>>
  /\ StmtPart(stmt, typed) /\ StmtPart(<<>>, <<>>)
  /\ SafeRan(Nothing) /\ FitText(<<>>) /\ LinesOK(<<>>)
  /\ RecallingAfter(Raw(e)) \in BOOLEAN

LEMMA BeforeIs ==
  ASSUME InputInv, open, Followed, NEW e \in Inputs, interactive' = interactive
  PROVE  Before(e)
<1>1. TypedInv /\ ScreenInv /\ RecallInv /\ StmtInv
  BY DEF InputInv
<1>2. FitText(<<>>) /\ LinesOK(<<>>) /\ ScreenOK(<<>>) /\ (\A tso : Gathered(<<>>, tso) = <<>>)
  BY Empty
<1>3. ScreenOK(Shown(e)) /\ LinesOK(TypedWith(e))
  BY <1>1, Shows, TypedMore
<1>4. Clean(last)
  BY <1>1 DEF Followed, Clean, TypedInv
<1>5. FitText(stmt) /\ FitText(last) /\ LinesOK(typed) /\ ScreenOK(screen)
  BY <1>1 DEF TypedInv, ScreenInv, FitText, LinesOK, ScreenOK
<1>6. RecallPart(stmt, last, latest)
  BY <1>1 DEF RecallInv, RecallPart, TypedInv
<1>7. RecallPart(<<>>, last, latest)
  BY <1>6 DEF RecallPart, Starts, NoErased, Clean
<1>8. StmtPart(stmt, typed) /\ StmtPart(<<>>, <<>>)
  BY <1>1, <1>2 DEF StmtInv, StmtPart
<1>9. SafeRan(Nothing)
  BY <1>2 DEF SafeRan, Nothing, RanWhole
<1>10. recalling => interactive /\ stmt = <<>> /\ FitsScreen(last) /\ last # <<>>
  BY <1>1 DEF ScreenInv, TypedInv
<1>11. RecallingAfter(Raw(e)) \in BOOLEAN
  BY DEF RecallingAfter
<1> QED
  BY <1>1, <1>2, <1>3, <1>4, <1>5, <1>6, <1>7, <1>8, <1>9, <1>10, <1>11 DEF Before, TypedInv

LEMMA ErasedIs ==
  ASSUME NEW e, Before(e), Erase(e)
  PROVE  ScreenOK(screen') /\ faults' \in 0..MaxFaults
BY InputAssumption DEF Before, Erase

LEMMA WroteIs ==
  ASSUME NEW e, Before(e), Wrote(e)
  PROVE  ScreenOK(screen')
BY DEF Before, Wrote

LEMMA InvalidStep ==
  ASSUME InputInv, NEW e, Before(e), InvalidInput(e), ran' = Nothing
  PROVE  StepIs
<1>1. ~recalling'
  BY DEF InvalidInput, RecallingAfter
<1>2. LinesOK(typed') /\ StmtPart(stmt', typed')
  <2>1. CASE e.by = "enter"
    BY <2>1 DEF InvalidInput, Before
  <2>2. CASE e.by # "enter"
    <3>1. Plain(TypedWith(e)) => TypedWith(e) = typed
      BY <2>2, NoLineTyped DEF InputInv, Before, InvalidInput
    <3>2. typed' = TypedWith(e) /\ stmt' = stmt /\ LinesOK(TypedWith(e)) /\ StmtPart(stmt, typed)
      BY <2>2 DEF InvalidInput, Before
    <3> QED
      BY <3>1, <3>2 DEF StmtPart
  <2> QED
    BY <2>1, <2>2
<1>3. ScreenOK(screen') /\ faults' \in 0..MaxFaults
  BY ErasedIs DEF InvalidInput
<1>4. recalling' \in BOOLEAN /\ open' \in BOOLEAN
  BY DEF InvalidInput, Before
<1> QED
  BY <1>1, <1>2, <1>3, <1>4 DEF StepIs, InvalidInput, Before

LEMMA AgainStep ==
  ASSUME InputInv, NEW e, Before(e), ShowAgain(e), ran' = Nothing
  PROVE  StepIs
<1>1. interactive /\ recalling
  BY DEF ShowAgain, IsOtherKey
<1>2. CASE FitsScreen(last) /\ screen' = last /\ faults' = faults /\ typed' = <<>>
  <2>1. ScreenOK(last)
    BY <1>1, <1>2 DEF Before, FitText, FitsScreen, ScreenOK
  <2>2. stmt' = <<>>
    BY <1>1 DEF Before, ShowAgain
  <2> QED
    BY <1>1, <1>2, <2>1, <2>2 DEF StepIs, ShowAgain, Before
<1>3. CASE faults < MaxFaults /\ faults' = faults + 1 /\ screen' = Shown(e) /\ typed' = TypedWith(e)
  <2>1. Plain(TypedWith(e)) => TypedWith(e) = typed
    BY NoLineTyped DEF InputInv, Before, ShowAgain
  <2>2. StmtPart(stmt', typed')
    BY <1>3, <2>1 DEF StmtPart, Before, ShowAgain
  <2>3. faults' \in 0..MaxFaults
    BY <1>3, InputAssumption DEF Before
  <2> QED
    BY <1>1, <1>3, <2>2, <2>3 DEF StepIs, ShowAgain, Before
<1> QED
  BY <1>2, <1>3 DEF ShowAgain

LEMMA SkipStep ==
  ASSUME InputInv, NEW e, Before(e), NEW p, IsLine(e, p), Skip(e, p), ran' = Nothing
  PROVE  StepIs
<1>1. p # <<".REPEAT">> /\ ~Is(p, ".CLEAR")
  <2>1. Head(<<".REPEAT">>) \in Dots /\ Head(<<".CLEAR">>) \in Dots /\ Head(<<".CLEAR", "semi">>) \in Dots
    BY DEF Dots
  <2> QED
    BY <2>1 DEF Skip, Stray, StartsCommand, Is
<1>2. ~recalling'
  BY <1>1, Recalling DEF InputInv, Skip
<1>3. StmtPart(stmt', typed')
  <2>1. ASSUME Plain(TypedWith(e))
        PROVE  stmt = Gathered(TypedWith(e), interactive)
    <3>1. TypedWith(e) = IF Unsaid(p) THEN typed ELSE Append(typed, p)
      BY <1>1, <2>1, LineTyped DEF InputInv, Before
    <3>2. CASE Unsaid(p)
      BY <2>1, <3>1, <3>2 DEF Before, StmtPart
    <3>3. CASE ~Unsaid(p)
      <4>1. interactive /\ stmt = <<>> /\ Stray(p)
        BY <3>3 DEF Skip, Unsaid
      <4>2. p \in Seq(Char) /\ typed \in Seq(Seq(Char))
        BY LineIsText DEF InputInv, TypedInv, Before, LineText
      <4>3. Plain(typed)
        BY <2>1, <3>1, <3>3, <4>2, PlainAppend
      <4>4. stmt = Gathered(typed, interactive)
        BY <4>3 DEF Before, StmtPart
      <4>5. Gathered(Append(typed, p), interactive) = AddLine(Gathered(typed, interactive), p, interactive)
        BY <4>2, GatheredAppend
      <4> QED
        BY <3>1, <3>3, <4>1, <4>4, <4>5 DEF AddLine
    <3> QED
      BY <3>2, <3>3
  <2> QED
    BY <2>1 DEF Skip, Before, StmtPart
<1>4. ScreenOK(screen')
  BY WroteIs DEF Skip
<1> QED
  BY <1>2, <1>3, <1>4 DEF StepIs, Skip, Before

LEMMA QuitStep ==
  ASSUME InputInv, NEW e, Before(e), NEW p, IsLine(e, p), Quit(e, p), ran' = Nothing
  PROVE  StepIs
<1>1. ~recalling'
  BY Recalling DEF InputInv, Quit
<1> QED
  BY <1>1 DEF StepIs, Quit, Before

LEMMA ClearStep ==
  ASSUME InputInv, NEW e, Before(e), NEW p, IsLine(e, p), Clear(e, p), ran' = Nothing
  PROVE  StepIs
<1>1. ~recalling'
  BY Recalling DEF InputInv, Clear, Is
<1>2. ScreenOK(screen') /\ faults' \in 0..MaxFaults
  BY ErasedIs DEF Clear, Before
<1> QED
  BY <1>1, <1>2 DEF StepIs, Clear, Before

LEMMA RepeatTyped ==
  ASSUME InputInv, NEW e, Before(e), NEW p, IsLine(e, p), Is(p, ".REPEAT"), Plain(TypedWith(e))
  PROVE  TypedWith(e) = typed
<1>1. ~Is(p, ".CLEAR") /\ Unsaid(p)
  BY DEF Is, Unsaid
<1> QED
  BY <1>1, LineTyped DEF InputInv, Before

LEMMA RepeatNotStep ==
  ASSUME InputInv, NEW e, Before(e), NEW p, IsLine(e, p), RepeatNot(e, p), ran' = Nothing
  PROVE  StepIs
<1>1. StmtPart(stmt', typed')
  BY RepeatTyped DEF RepeatNot, Before, StmtPart
<1>2. ScreenOK(screen')
  BY WroteIs DEF RepeatNot
<1>3. recalling' => recalling
  BY DEF RepeatNot, RecallingAfter
<1> QED
  BY <1>1, <1>2, <1>3 DEF StepIs, RepeatNot, Before

LEMMA RepeatFailsStep ==
  ASSUME InputInv, NEW e, Before(e), NEW p, IsLine(e, p), RepeatFails(e, p), ran' = Nothing
  PROVE  StepIs
<1>1. StmtPart(stmt', typed')
  BY RepeatTyped DEF RepeatFails, Before, StmtPart
<1>2. ScreenOK(screen')
  BY WroteIs DEF RepeatFails
<1>3. recalling' => recalling
  BY DEF RepeatFails, RecallingAfter
<1>4. faults' \in 0..MaxFaults
  BY InputAssumption DEF RepeatFails, Before
<1> QED
  BY <1>1, <1>2, <1>3, <1>4 DEF StepIs, RepeatFails, Before

LEMMA RepeatStep ==
  ASSUME InputInv, NEW e, Before(e), NEW p, IsLine(e, p), Repeat(e, p), ran' = Nothing
  PROVE  StepIs
<1>1. ScreenOK(last)
  BY DEF Before, Repeat, FitText, FitsScreen, ScreenOK
<1> QED
  BY <1>1 DEF StepIs, Repeat, Before, AfterRecall

LEMMA NotRepeat ==
  ASSUME InputInv, NEW e, NEW p, IsLine(e, p), IsStatement(p)
  PROVE  ~RecallingAfter(Raw(e))
BY Recalling DEF InputInv, IsStatement, Is

(* The text a line makes of what is collected.                               *)
LEMMA LineAdds ==
  ASSUME InputInv, NEW e, Before(e), NEW p, IsLine(e, p), p # <<>>, ~TooLong(stmt, p), stmt = <<>> => ~IsDot(p)
  PROVE  /\ FitText(JoinLine(stmt, p)) /\ JoinLine(stmt, p) # <<>> /\ p \in Seq(Char)
         /\ Starts(JoinLine(stmt, p)) /\ Ends(JoinLine(stmt, p)) /\ NoErased(JoinLine(stmt, p))
         /\ Contains(p, "semi") => Contains(JoinLine(stmt, p), "semi")
<1>1. LineText(p) /\ p \in Seq(Char)
  BY LineIsText DEF InputInv, Before, LineText
<1>2. stmt = <<>> => p[1] \notin Dots
  BY <1>1, DotIs
<1>3. stmt \in Seq(Char) /\ Starts(stmt) /\ NoErased(stmt)
  BY DEF Before, FitText, RecallPart
<1>4. PICK c : c = JoinLine(stmt, p)
  OBVIOUS
<1>5. /\ c \in Seq(Char) /\ c # <<>> /\ Starts(c) /\ Ends(c) /\ NoErased(c)
      /\ Contains(p, "semi") => Contains(c, "semi")
  BY <1>1, <1>2, <1>3, <1>4, Collected
<1>6. IsJoin(c, stmt, p)
  BY <1>1, <1>3, <1>4, JoinLineIs
<1>7. Len(c) <= MaxStatement - 2
  <2>1. Len(c) <= (IF stmt = <<>> THEN 0 ELSE Len(stmt) + 1) + Len(p)
    BY <1>6 DEF IsJoin
  <2>2. PICK n \in Nat : n = Len(stmt)
    BY <1>3
  <2>3. PICK m \in Nat : m = Len(p)
    BY <1>1
  <2>4. PICK l \in Nat : l = Len(c)
    BY <1>5
  <2>5. ~(n + m + 2 >= MaxStatement) /\ MaxStatement \in Nat
    BY <2>2, <2>3, InputAssumption DEF TooLong
  <2>6. l <= n + 1 + m
    BY <2>1, <2>2, <2>3, <2>4
  <2> QED
    BY <2>4, <2>5, <2>6
<1> QED
  BY <1>1, <1>4, <1>5, <1>7 DEF FitText

LEMMA DropStep ==
  ASSUME InputInv, NEW e, Before(e), NEW p, IsLine(e, p), Drop(e, p), ran' = Nothing
  PROVE  StepIs
<1>1. ~recalling'
  BY NotRepeat DEF Drop
<1>2. StmtPart(stmt', typed') /\ LinesOK(typed')
  <2>1. CASE Contains(p, "semi") \/ IsDot(p)
    BY <2>1 DEF Drop, Before
  <2>2. CASE ~(Contains(p, "semi") \/ IsDot(p))
    <3>1. Plain(TypedWith(e)) => Gathered(TypedWith(e), interactive) = <<>>
      BY Statement DEF Drop, Before
    <3> QED
      BY <2>2, <3>1 DEF Drop, Before, StmtPart
  <2> QED
    BY <2>1, <2>2
<1>3. ScreenOK(screen')
  BY WroteIs DEF Drop
<1> QED
  BY <1>1, <1>2, <1>3 DEF StepIs, Drop, Before

LEMMA CollectStep ==
  ASSUME InputInv, NEW e, Before(e), NEW p, IsLine(e, p), Collect(e, p), ran' = Nothing
  PROVE  StepIs
<1>1. ~recalling'
  BY NotRepeat DEF Collect
<1>2. /\ FitText(stmt') /\ stmt' # <<>> /\ Starts(stmt') /\ NoErased(stmt')
  BY LineAdds DEF Collect, IsStatement
<1>3. RecallPart(stmt', last', latest')
  BY <1>2 DEF Collect, Before, RecallPart
<1>4. StmtPart(stmt', typed')
  BY <1>2, Statement DEF Collect, Before, StmtPart
<1> QED
  BY <1>1, <1>2, <1>3, <1>4 DEF StepIs, Collect, Before

LEMMA RunStep ==
  ASSUME InputInv, NEW e, Before(e), NEW p, IsLine(e, p), Run(e, p)
  PROVE  StepIs
<1>1. ~recalling'
  BY NotRepeat DEF Run
<1>2. PICK c : c = JoinLine(stmt, p)
  OBVIOUS
<1>3. p \in Seq(Char) /\ p # <<>> /\ ~TooLong(stmt, p)
  BY LineIsText DEF InputInv, Before, LineText, Run, IsStatement
<1>4. FitText(c) /\ c # <<>>
  <2>1. IsJoin(c, stmt, p)
    BY <1>2, <1>3, JoinLineIs DEF Before, FitText
  <2>2. Len(c) <= (IF stmt = <<>> THEN 0 ELSE Len(stmt) + 1) + Len(p) /\ c \in Seq(Char) /\ c # <<>>
    BY <2>1 DEF IsJoin
  <2>3. PICK n \in Nat : n = Len(stmt)
    BY DEF Before, FitText
  <2>4. PICK m \in Nat : m = Len(p)
    BY <1>3
  <2>5. PICK l \in Nat : l = Len(c)
    BY <2>2
  <2>6. ~(n + m + 2 >= MaxStatement) /\ MaxStatement \in Nat
    BY <1>3, <2>3, <2>4, InputAssumption DEF TooLong
  <2>7. l <= n + 1 + m
    BY <2>2, <2>3, <2>4, <2>5
  <2>8. Len(c) <= MaxStatement - 2
    BY <2>5, <2>6, <2>7
  <2> QED
    BY <2>2, <2>8 DEF FitText
<1>5. SafeRan(ran')
  <2>1. ran'.text = c /\ ran'.lines = TypedWith(e)
    BY <1>2 DEF Run
  <2>2. Plain(TypedWith(e)) => c = Gathered(TypedWith(e), interactive)
    BY <1>2, Statement DEF Run, Before
  <2>3. LinesOK(TypedWith(e))
    BY DEF Before
  <2> QED
    BY <1>4, <2>1, <2>2, <2>3 DEF SafeRan, RanWhole
<1>6. FitText(last') /\ RecallPart(stmt', last', latest')
  <2>1. stmt' = <<>> /\ RecallPart(<<>>, last, latest) /\ FitText(last) /\ c \in Seq(Char)
    BY <1>4 DEF Run, Before, FitText
  <2>2. CASE IsDot(p)
    <3>1. last' = last
      BY <2>2 DEF Run, Remembered
    <3>2. latest' = latest \/ latest' = [text |-> c, line |-> p]
      BY <1>2 DEF Run
    <3> QED
      BY <1>3, <2>1, <2>2, <3>1, <3>2 DEF RecallPart
  <2>3. CASE ~IsDot(p)
    <3>1. last' = c /\ Contains(p, "semi")
      BY <1>2, <2>3 DEF Run, Remembered
    <3>2. Starts(c) /\ Ends(c) /\ NoErased(c) /\ Contains(c, "semi")
      BY <1>2, <1>3, <2>3, <3>1, LineAdds
    <3>3. ~IsDot(c)
      BY <2>1, <3>2, DotIs DEF Starts
    <3>4. latest' = [text |-> c, line |-> p]
      BY <1>2, <3>3 DEF Run
    <3> QED
      BY <1>3, <1>4, <2>1, <3>1, <3>2, <3>4 DEF RecallPart
  <2> QED
    BY <2>2, <2>3
<1>7. ScreenOK(screen') /\ faults' \in 0..MaxFaults
  BY ErasedIs DEF Run, Before
<1> QED
  BY <1>1, <1>5, <1>6, <1>7 DEF StepIs, Run, Before

LEMMA PassStep ==
  ASSUME InputInv, NEW e, Before(e), Pass(e)
  PROVE  StepIs
<1>1. CASE InvalidInput(e) /\ ran' = Nothing
  BY <1>1, InvalidStep
<1>2. CASE ShowAgain(e) /\ ran' = Nothing
  BY <1>2, AgainStep
<1>3. ASSUME NEW p, IsLine(e, p),
             \/ Skip(e, p) /\ ran' = Nothing
             \/ Quit(e, p) /\ ran' = Nothing
             \/ Clear(e, p) /\ ran' = Nothing
             \/ RepeatNot(e, p) /\ ran' = Nothing
             \/ Repeat(e, p) /\ ran' = Nothing
             \/ RepeatFails(e, p) /\ ran' = Nothing
             \/ Drop(e, p) /\ ran' = Nothing
             \/ Collect(e, p) /\ ran' = Nothing
             \/ Run(e, p)
      PROVE  StepIs
  BY <1>3, SkipStep, QuitStep, ClearStep, RepeatNotStep, RepeatStep, RepeatFailsStep,
     DropStep, CollectStep, RunStep
<1> QED
  BY <1>1, <1>2, <1>3 DEF Pass

LEMMA InitInv == Init => InputInv
<1> SUFFICES ASSUME Init
             PROVE  InputInv
  OBVIOUS
<1>1. FitText(<<>>) /\ LinesOK(<<>>) /\ ScreenOK(<<>>) /\ (\A tso : Gathered(<<>>, tso) = <<>>)
  BY Empty
<1>2. TypedInv
  <2>1. {stmt, last, screen, ran.text, latest.text, latest.line} \subseteq Seq(Char)
        /\ (\A t \in {stmt, last, ran.text} : Len(t) <= MaxStatement - 2)
    BY <1>1 DEF Init, FitText, Nothing
  <2>2. {typed, ran.lines} \subseteq Seq(Seq(Char)) /\ \A k \in 1..Len(typed) : typed[k] # <<>>
    BY <1>1 DEF Init, LinesOK, Nothing
  <2>3. {interactive, open, recalling} \subseteq BOOLEAN /\ faults \in 0..MaxFaults
    <3>1. MaxFaults \in Nat
      BY InputAssumption
    <3>2. interactive \in BOOLEAN /\ open = TRUE /\ recalling = FALSE /\ faults = 0
      BY DEF Init
    <3>3. {interactive, open, recalling} \subseteq BOOLEAN
      BY <3>2
    <3> QED
      BY <3>1, <3>2, <3>3
  <2> QED
    BY <2>1, <2>2, <2>3 DEF TypedInv
<1>3. ScreenInv
  BY <1>1 DEF Init, ScreenInv, ScreenOK
<1>4. RecallInv
  BY DEF Init, RecallInv, Starts, Ends, NoErased, Clean
<1>5. StmtInv
  BY <1>1 DEF Init, StmtInv, RunsWhole
<1> QED
  BY <1>2, <1>3, <1>4, <1>5 DEF InputInv

LEMMA NextInv == InputInv /\ [Next]_vars => InputInv'
<1> SUFFICES ASSUME InputInv, [Next]_vars
             PROVE  InputInv'
  OBVIOUS
<1>1. ASSUME NEW e \in Inputs, open, Followed, interactive' = interactive, Pass(e)
      PROVE  InputInv'
  BY <1>1, BeforeIs, PassStep, StepInv
<1>2. CASE EndOfInput
  <2>1. TypedInv'
    BY <1>2, Empty DEF EndOfInput, InputInv, TypedInv, Nothing, FitText, LinesOK
  <2>2. ScreenInv'
    BY <1>2 DEF EndOfInput, InputInv, ScreenInv
  <2>3. RecallInv'
    BY <1>2 DEF EndOfInput, InputInv, RecallInv
  <2>4. StmtInv'
    BY <1>2 DEF EndOfInput, StmtInv, RunsWhole
  <2> QED
    BY <2>1, <2>2, <2>3, <2>4 DEF InputInv
<1>3. CASE UNCHANGED vars
  BY <1>3 DEF vars, InputInv, TypedInv, ScreenInv, RecallInv, StmtInv, RunsWhole, Plain, Excused, LooksLikeKey
<1>4. CASE Next
  BY <1>1, <1>2, <1>4 DEF Next
<1> QED
  BY <1>3, <1>4

LEMMA InputCorrect == Spec => []InputInv
BY InitInv, NextInv, PTL DEF Spec

-----------------------------------------------------------------------------
(* The statement buffer, the recalled text and the screen's field are within *)
(* their sizes, and a recall is only active with nothing collected and a     *)
(* statement that fits on the screen (process.c, terminal3270.h).            *)
THEOREM TypeCorrect == Spec => []TypeOK
<1>1. InputInv => TypeOK
  BY DEF InputInv, TypedInv, ScreenInv, TypeOK
<1> QED
  BY <1>1, InputCorrect, PTL

(* What execute is given is what was typed since the last statement ended,   *)
(* and after a line too many exactly what came behind it, unless a line      *)
(* looked like a key or was typed while the loop and the display disagreed   *)
(* on the recall screen (process.c).                                         *)
THEOREM RunsWholeCorrect == Spec => []RunsWhole
<1>1. InputInv => RunsWhole
  BY DEF InputInv, StmtInv
<1> QED
  BY <1>1, InputCorrect, PTL

(* A step is a pass with an input, or the end of input.                      *)
Passes(e) ==
  e \in Inputs /\ open /\ Followed /\ input' = e /\ interactive' = interactive /\ Pass(e)
Does(e, p) ==
  \/ Skip(e, p) /\ ran' = Nothing
  \/ Quit(e, p) /\ ran' = Nothing
  \/ Clear(e, p) /\ ran' = Nothing
  \/ RepeatNot(e, p) /\ ran' = Nothing
  \/ Repeat(e, p) /\ ran' = Nothing
  \/ RepeatFails(e, p) /\ ran' = Nothing
  \/ Drop(e, p) /\ ran' = Nothing
  \/ Collect(e, p) /\ ran' = Nothing
  \/ Run(e, p)

LEMMA NextIs == ASSUME Next PROVE EndOfInput \/ \E e : Passes(e)
BY DEF Next, Passes

LEMMA PassIs ==
  ASSUME NEW e, Passes(e)
  PROVE  \/ InvalidInput(e) /\ ran' = Nothing
         \/ ShowAgain(e) /\ ran' = Nothing
         \/ IsLine(e, Trim(Line(Raw(e)))) /\ Does(e, Trim(Line(Raw(e))))
BY DEF Passes, Pass, Does

(* A pass that opens the recall screen, for whatever key, shows the latest   *)
(* SQL statement whole (process.c, term_recall_screen).                      *)
THEOREM RecallsLastCorrect == Spec => RecallsLast
<1>1. ASSUME InputInv, InputInv', Next, open', recalling', screen' # <<>>, faults' = faults,
             ~IsDot(latest'.line)
      PROVE  screen' = latest'.text
  <2>1. last' = latest'.text
    BY <1>1 DEF InputInv, RecallInv
  <2>2. ~EndOfInput
    BY <1>1 DEF EndOfInput
  <2>3. PICK e : Passes(e)
    BY <1>1, <2>2, NextIs
  <2>4. faults' # faults + 1
    BY <1>1 DEF InputInv, TypedInv
  <2>5. CASE InvalidInput(e)
    BY <1>1, <2>5 DEF InvalidInput, RecallingAfter
  <2>6. CASE ShowAgain(e)
    BY <2>1, <2>4, <2>6 DEF ShowAgain
  <2>7. ASSUME NEW p, IsLine(e, p), Does(e, p)
        PROVE  screen' = latest'.text
    <3>1. CASE Repeat(e, p)
      BY <2>1, <3>1 DEF Repeat
    <3>2. CASE ~Repeat(e, p)
      <4>1. recalling' = RecallingAfter(Raw(e))
        BY <2>7, <3>2 DEF Does, Skip, Quit, Clear, RepeatNot, RepeatFails, Drop, Collect, Run
      <4>2. p = <<".REPEAT">> /\ recalling /\ interactive
        BY <1>1, <2>7, <4>1, Recalling DEF InputInv
      <4>3. last # <<>> /\ FitsScreen(last)
        BY <1>1, <4>2 DEF InputInv, ScreenInv
      <4>4. Head(p) \in Dots /\ p # <<>> /\ ~Is(p, ".CLEAR") /\ Is(p, ".REPEAT") /\ p # <<".QUIT">>
        BY <4>2 DEF Dots, Is
      <4>5. ~Stray(p) /\ ~IsStatement(p)
        BY <4>4 DEF Stray, StartsCommand, IsStatement
      <4> QED
        BY <2>4, <2>7, <3>2, <4>2, <4>3, <4>4, <4>5
           DEF Does, Skip, Quit, Clear, RepeatNot, RepeatFails, Drop, Collect, Run
    <3> QED
      BY <3>1, <3>2
  <2> QED
    BY <2>3, <2>5, <2>6, <2>7, PassIs
<1>2. ASSUME InputInv, InputInv', [Next]_vars
      PROVE  [open' /\ recalling' /\ screen' # <<>> /\ faults' = faults /\ ~IsDot(latest'.line)
              => screen' = latest'.text]_vars
  BY <1>1, <1>2
<1> QED
  BY <1>2, InputCorrect, PTL DEF Spec, RecallsLast

(* Enter on an unchanged recall screen runs the recalled statement again     *)
(* (term_input, process.c).                                                  *)
THEOREM RecalledRunsCorrect == Spec => RecalledRuns
<1>1. ASSUME InputInv, Next, recalling, input' = Pressed("enter", "SBA6", last)
      PROVE  ran'.text = last
  <2>1. PICK e : e = input' /\ e.by = "enter" /\ e.at = "SBA6" /\ e.text = last
    BY <1>1 DEF Pressed
  <2>2. ~EndOfInput
    BY <2>1 DEF EndOfInput, NoInput
  <2>3. Passes(e)
    BY <1>1, <2>1, <2>2, NextIs DEF Passes
  <2>4. TypedInv /\ ScreenInv /\ RecallInv /\ recalling \in BOOLEAN
    BY <1>1 DEF InputInv, TypedInv
  <2>5. last # <<>> /\ FitsScreen(last) /\ stmt = <<>> /\ last \in Seq(Char) /\ interactive
    BY <1>1, <2>4 DEF ScreenInv, TypedInv
  <2>6. IsText(e.text) /\ EnterInput(e)
    BY <2>1, <2>3, <2>4, InputIs DEF IsInput, Passes, LineInput, KeyInput, PfInput
  <2>7. Clean(last)
    BY <2>3, <2>5 DEF Passes, Followed, Clean
  <2>8. Cells(e) = last
    <3>1. \A k \in 1..Len(last) : last[k] # "nul"
      BY <2>4, <2>7 DEF RecallInv, NoErased
    <3> QED
      BY <2>1, <2>5, <3>1, CellsPlain
  <2>9. screen # <<>>
    BY <2>1, <2>6 DEF EnterInput
  <2>10. IsEnterKey(Raw(e)) /\ ~IsOtherKey(Raw(e)) /\ Line(Raw(e)) = RTrim(last)
    BY <1>1, <2>1, <2>4, <2>6, <2>8, <2>9, EnterReads
  <2>11. last[1] # "blank" /\ last[1] \notin Dots /\ last[Len(last)] # "blank" /\ Contains(last, "semi")
    BY <2>4, <2>5 DEF RecallInv, Starts, Ends
  <2>12. Trim(Line(Raw(e))) = last
    BY <2>5, <2>10, <2>11, TrimRTrim, TrimKeeps
  <2>13. Line(Raw(e)) # Malformed
    <3>1. Trim(Malformed) = Malformed
      BY TrimOne DEF Malformed
    <3>2. ~Contains(Malformed, "semi")
      BY DEF Contains, Malformed
    <3> QED
      BY <2>11, <2>12, <3>1, <3>2
  <2>14. Does(e, last)
    BY <2>3, <2>10, <2>12, <2>13, PassIs DEF InvalidInput, ShowAgain
  <2>15. ~Stray(last) /\ ~TooLong(stmt, last) /\ JoinLine(stmt, last) = last
    <3>1. PICK n \in Nat : n = Len(last)
      BY <2>5
    <3>2. n <= TermCapacity /\ ~(0 + n + 2 >= MaxStatement) /\ Len(stmt) = 0
      BY <2>5, <3>1, RecallFits, InputAssumption DEF FitsScreen
    <3> QED
      BY <2>5, <2>11, <3>1, <3>2 DEF TooLong, Stray, JoinLine
  <2>16. last # <<".QUIT">> /\ ~Is(last, ".CLEAR") /\ ~Is(last, ".REPEAT")
    BY <2>11 DEF Is, Dots
  <2>17. Run(e, last)
    BY <2>5, <2>11, <2>14, <2>15, <2>16
       DEF Does, Skip, Quit, Clear, RepeatNot, Repeat, RepeatFails, Drop, Collect
  <2> QED
    BY <2>15, <2>17 DEF Run
<1>2. ASSUME InputInv, [Next]_vars
      PROVE  [recalling /\ input' = Pressed("enter", "SBA6", last) => ran'.text = last]_vars
  BY <1>1, <1>2
<1> QED
  BY <1>2, InputCorrect, PTL DEF Spec, RecalledRuns

(* What a text is joined to something stands in front of.                    *)
LEMMA JoinedFront ==
  ASSUME NEW s \in Seq(Char), NEW p \in Seq(Char), NEW c \in Char, p # <<>>, p[1] = c
  PROVE  IsPrefix(JoinLine(s, <<c>>), JoinLine(s, p))
<1>1. PICK n \in Nat : n = Len(s)
  OBVIOUS
<1>2. PICK m \in Nat : m = Len(p)
  OBVIOUS
<1>3. m >= 1 /\ "blank" \in Char
  BY <1>2 DEF Char
<1>4. CASE s = <<>>
  <2>1. JoinLine(s, <<c>>) = <<c>> /\ JoinLine(s, p) = p
    BY <1>4 DEF JoinLine
  <2>2. Len(<<c>>) = 1 /\ SubSeq(<<c>>, 1, 1) = SubSeq(p, 1, 1)
    BY <1>2, <1>3
  <2> QED
    BY <1>2, <1>3, <2>1, <2>2 DEF IsPrefix
<1>5. CASE s # <<>>
  <2>1. PICK a, b : a = JoinLine(s, <<c>>) /\ b = JoinLine(s, p)
    OBVIOUS
  <2>2. a = s \o <<"blank">> \o <<c>> /\ b = s \o <<"blank">> \o p
    BY <1>5, <2>1 DEF JoinLine
  <2>3. /\ a \in Seq(Char) /\ Len(a) = n + 2 /\ b \in Seq(Char) /\ Len(b) = n + 1 + m
        /\ \A k \in 1..n + 2 : a[k] = b[k]
    BY <1>1, <1>2, <1>3, <2>2
  <2>4. SubSeq(a, 1, n + 2) = SubSeq(b, 1, n + 2)
    BY <1>3, <2>3
  <2> QED
    BY <1>3, <2>1, <2>3, <2>4 DEF IsPrefix
<1> QED
  BY <1>4, <1>5

(* No key but Enter runs a statement, adds to one or changes what is         *)
(* recalled; a field the loop believes gone is read as a line that begins    *)
(* with the key's own character (process.c).                                 *)
THEOREM KeysRunNothingCorrect == Spec => KeysRunNothing
<1> DEFINE Quiet == ran' = Nothing /\ last' = last /\ stmt' \in {stmt, <<>>}
           Marked == /\ input'.by = "pf3" /\ Apart
                     /\ IsPrefix(JoinLine(stmt, <<KeyByte.pf3>>),
                                 IF ran' = Nothing THEN stmt' ELSE ran'.text)
<1>1. ASSUME InputInv, Next, input'.by \in {"pf12", "pf3", "clear"}
      PROVE  Quiet \/ Marked
  <2>1. ~EndOfInput
    BY <1>1 DEF EndOfInput, NoInput
  <2>2. PICK e : Passes(e)
    BY <1>1, <2>1, NextIs
  <2>3. e.by \in {"pf12", "pf3", "clear"} /\ e = input'
    BY <1>1, <2>2 DEF Passes
  <2>4. IsText(e.text) /\ (KeyInput(e) \/ PfInput(e))
    BY <1>1, <2>2, <2>3, InputIs DEF InputInv, Passes, IsInput, LineInput, EnterInput
  <2>5. CASE InvalidInput(e) /\ ran' = Nothing
    BY <2>5 DEF InvalidInput
  <2>6. CASE ShowAgain(e) /\ ran' = Nothing
    BY <2>6 DEF ShowAgain
  <2>7. ASSUME NEW p, p = Trim(Line(Raw(e))), IsLine(e, p), Does(e, p)
        PROVE  Quiet \/ Marked
    <3>1. CASE KeyInput(e) /\ ~PfInput(e)
      <4>1. p \in {<<".CLEAR">>, <<".REPEAT">>}
        BY <2>7, <3>1, KeyReads
      <4>2. ~IsStatement(p)
        BY <4>1 DEF IsStatement, Is
      <4> QED
        BY <2>7, <4>2 DEF Does, Skip, Quit, Clear, RepeatNot, Repeat, RepeatFails, Drop, Collect,
                          Run, AfterRecall
    <3>2. CASE PfInput(e)
      <4>1. e.text \in Seq(Char) /\ stmt \in Seq(Char) /\ recalling \in BOOLEAN
        BY <1>1, <2>4 DEF IsText, InputInv, TypedInv
      <4>2. ~recalling /\ Line(Raw(e)) = Raw(e) /\ Raw(e) \in Seq(Char)
        BY <2>7, <3>2, <4>1, PfReads DEF IsLine
      <4>3. Raw(e)[1] = "3" /\ Raw(e) # <<>> /\ screen # <<>> /\ e.by = "pf3"
        BY <3>2, <4>1 DEF PfInput, FieldInput
      <4>4. p \in Seq(Char) /\ p # <<>> /\ p[1] = "3" /\ "3" \in Char /\ KeyByte.pf3 = "3"
        BY <2>7, <4>2, <4>3, TrimHead, TrimText DEF KeyByte, Char
      <4>5. Apart
        BY <4>1, <4>2, <4>3 DEF Apart
      <4>6. IsPrefix(JoinLine(stmt, <<KeyByte.pf3>>), JoinLine(stmt, p))
        BY <4>1, <4>4, JoinedFront
      <4>7. CASE Collect(e, p) /\ ran' = Nothing
        BY <2>3, <4>3, <4>5, <4>6, <4>7 DEF Collect
      <4>8. CASE Run(e, p)
        <5>1. ran'.text = JoinLine(stmt, p)
          BY <4>8 DEF Run
        <5>2. JoinLine(stmt, p) # <<>>
          BY <4>1, <4>4 DEF JoinLine
        <5>3. ran' # Nothing
          BY <5>1, <5>2 DEF Nothing
        <5> QED
          BY <2>3, <4>3, <4>5, <4>6, <5>1, <5>3
      <4>9. CASE ~(Collect(e, p) /\ ran' = Nothing) /\ ~Run(e, p)
        BY <2>7, <4>9 DEF Does, Skip, Quit, Clear, RepeatNot, Repeat, RepeatFails, Drop, AfterRecall
      <4> QED
        BY <4>7, <4>8, <4>9
    <3> QED
      BY <2>4, <3>1, <3>2
  <2> QED
    BY <2>2, <2>5, <2>6, <2>7, PassIs
<1> HIDE DEF Quiet, Marked
<1>2. ASSUME InputInv, [Next]_vars
      PROVE  [input'.by \in {"pf12", "pf3", "clear"} => Quiet \/ Marked]_vars
  BY <1>1, <1>2
<1> USE DEF Quiet, Marked
<1> QED
  BY <1>2, InputCorrect, PTL DEF Spec, KeysRunNothing

(* Loop and display part only by a failing call of the terminal, or by Enter *)
(* on a recall screen with a line that runs nothing (process.c).             *)
THEOREM PartWaysCorrect == Spec => PartWays
<1>1. ASSUME InputInv, InputInv', Next, ~Apart, Apart', open'
      PROVE  faults' > faults \/ (input'.by = "enter" /\ ran' = Nothing)
  <2>1. ~EndOfInput
    BY <1>1 DEF EndOfInput
  <2>2. PICK e : Passes(e)
    BY <1>1, <2>1, NextIs
  <2>3. SUFFICES ASSUME ~(faults' > faults), ~(e.by = "enter" /\ ran' = Nothing)
                 PROVE  FALSE
    BY <2>2 DEF Passes
  <2>4. faults' # faults + 1 /\ TypedInv /\ ScreenInv /\ recalling \in BOOLEAN
    BY <1>1, <2>3 DEF InputInv, TypedInv
  <2>5. IsText(e.text) /\ IsInput(e)
    BY <2>2, <2>4, InputIs DEF Passes
  <2>6. recalling <=> screen # <<>>
    BY <1>1, <2>4 DEF Apart
  <2>7. ~(recalling' <=> screen' # <<>>)
    <3>1. recalling' \in BOOLEAN
      BY <1>1 DEF InputInv, TypedInv
    <3>2. recalling' # (screen' # <<>>)
      BY <1>1 DEF Apart
    <3> QED
      BY <3>1, <3>2
  <2>8. screen = <<>> => Shown(e) = <<>>
    BY DEF Shown
  <2>9. CASE InvalidInput(e)
    <3>1. ~recalling' /\ screen' = <<>>
      BY <2>4, <2>9 DEF InvalidInput, Erase, RecallingAfter
    <3> QED
      BY <2>7, <3>1
  <2>10. CASE ShowAgain(e)
    <3>1. recalling /\ recalling' /\ screen' = last /\ last # <<>>
      BY <2>4, <2>10 DEF ShowAgain, IsOtherKey, ScreenInv
    <3> QED
      BY <2>7, <3>1
  <2>11. ASSUME NEW p, p = Trim(Line(Raw(e))), IsLine(e, p), Does(e, p)
         PROVE  FALSE
    <3>1. ~Repeat(e, p)
      BY <2>7 DEF Repeat
    <3>2. recalling' = RecallingAfter(Raw(e))
      BY <2>11, <3>1 DEF Does, Skip, Quit, Clear, RepeatNot, RepeatFails, Drop, Collect, Run
    <3>3. ~recalling'
      <4>1. ASSUME recalling'
            PROVE  FALSE
        <5>0. RecallingAfter(Raw(e))
          BY <3>2, <4>1
        <5>1. p = <<".REPEAT">> /\ recalling /\ interactive
          BY <2>4, <2>11, <5>0, Recalling
        <5>2. last # <<>> /\ FitsScreen(last)
          BY <2>4, <5>1 DEF ScreenInv
        <5>3. Head(p) \in Dots /\ p # <<>> /\ ~Is(p, ".CLEAR") /\ Is(p, ".REPEAT") /\ p # <<".QUIT">>
          BY <5>1 DEF Dots, Is
        <5>4. ~Stray(p) /\ ~IsStatement(p)
          BY <5>3 DEF Stray, StartsCommand, IsStatement
        <5> QED
          BY <2>4, <2>11, <3>1, <5>1, <5>2, <5>3, <5>4
             DEF Does, Skip, Quit, Clear, RepeatNot, RepeatFails, Drop, Collect, Run
      <4> QED
        BY <4>1
    <3>4. screen' # <<>>
      BY <2>7, <3>3
    <3>5. screen # <<>> /\ recalling /\ interactive
      <4>1. ASSUME screen = <<>>
            PROVE  screen' = <<>>
        BY <2>4, <2>8, <2>11, <3>1, <4>1
           DEF Does, Skip, Quit, Clear, RepeatNot, RepeatFails, Drop, Collect, Run, Wrote, Erase
      <4> QED
        BY <2>4, <2>6, <3>4, <4>1 DEF ScreenInv
    <3>6. ~LineInput(e)
      BY <3>5 DEF LineInput
    <3>7. ~PfInput(e)
      BY <2>5, <2>11, <3>5, PfReads DEF IsLine, IsText
    <3>8. CASE KeyInput(e)
      <4>1. p = IF e.by = "clear" THEN <<".CLEAR">> ELSE <<".REPEAT">>
        BY <2>11, <3>8, KeyReads
      <4>2. CASE e.by = "clear"
        <5>1. Is(p, ".CLEAR") /\ ~Is(p, ".REPEAT") /\ p # <<>> /\ p # <<".QUIT">> /\ Head(p) \in Dots
          BY <4>1, <4>2 DEF Is, Dots
        <5>2. ~Stray(p) /\ ~IsStatement(p)
          BY <5>1 DEF Stray, StartsCommand, IsStatement
        <5>3. Clear(e, p)
          BY <2>11, <5>1, <5>2 DEF Does, Skip, Quit, RepeatNot, Repeat, RepeatFails, Drop, Collect, Run
        <5>4. screen' = <<>>
          BY <2>4, <3>5, <5>3 DEF Clear, Erase
        <5> QED
          BY <3>4, <5>4
      <4>3. CASE e.by # "clear"
        <5>1. ~IsClearKey(Raw(e)) /\ ~IsEnterKey(Raw(e))
          BY <3>8, <4>3, KeyReads
        <5> QED
          BY <3>2, <3>3, <3>5, <5>1 DEF RecallingAfter
      <4> QED
        BY <4>2, <4>3
    <3>9. CASE EnterInput(e)
      <4>1. e.by = "enter"
        BY <3>9 DEF EnterInput
      <4>2. Run(e, p)
        BY <2>3, <2>11, <4>1 DEF Does
      <4>3. screen' = <<>>
        BY <2>4, <3>5, <4>2 DEF Run, Erase
      <4> QED
        BY <3>4, <4>3
    <3> QED
      BY <2>5, <3>6, <3>7, <3>8, <3>9 DEF IsInput
  <2> QED
    BY <2>2, <2>9, <2>10, <2>11, PassIs
<1>2. ASSUME InputInv, InputInv', [Next]_vars
      PROVE  [~Apart /\ Apart' /\ open' => faults' > faults \/ (input'.by = "enter" /\ ran' = Nothing)]_vars
  BY <1>1, <1>2
<1> QED
  BY <1>2, InputCorrect, PTL DEF Spec, PartWays

(* The tail of what a line is joined to.                                     *)
LEMMA SuffixIs ==
  ASSUME NEW s \in Seq(Char), NEW p \in Seq(Char)
  PROVE  IsSuffix(p, JoinLine(s, p))
<1>1. PICK m \in Nat : m = Len(p)
  OBVIOUS
<1>2. PICK h \in Seq(Char) : JoinLine(s, p) = h \o p
  <2>1. CASE s = <<>>
    <3>1. <<>> \in Seq(Char) /\ <<>> \o p = p
      OBVIOUS
    <3> QED
      BY <2>1, <3>1 DEF JoinLine
  <2>2. CASE s # <<>>
    <3>1. <<"blank">> \in Seq(Char)
      BY DEF Char
    <3>2. s \o <<"blank">> \in Seq(Char)
      BY <3>1
    <3> QED
      BY <2>2, <3>2 DEF JoinLine
  <2> QED
    BY <2>1, <2>2
<1>3. PICK n \in Nat : n = Len(h)
  OBVIOUS
<1>4. PICK c : c = h \o p
  OBVIOUS
<1>5. IsConcat(c, Char, h, n, p)
  BY <1>3, <1>4, ConcatIs, Zenon
<1>6. c \in Seq(Char) /\ Len(c) = n + m /\ \A j \in 1..m : c[n + j] = p[j]
  BY <1>1, <1>5 DEF IsConcat
<1>7. PICK u : u = Reverse(p)
  OBVIOUS
<1>8. PICK v : v = Reverse(c)
  OBVIOUS
<1>9. u \in Seq(Char) /\ Len(u) = m /\ \A i \in 1..m : u[i] = p[(m - i) + 1]
  <2>1. u = [i \in 1..m |-> p[(m - i) + 1]]
    BY <1>1, <1>7 DEF Reverse
  <2>2. \A i \in 1..m : p[(m - i) + 1] \in Char
    BY <1>1
  <2> QED
    BY <2>1, <2>2
<1>10. v \in Seq(Char) /\ Len(v) = n + m /\ \A i \in 1..n + m : v[i] = c[(n + m - i) + 1]
  <2>1. v = [i \in 1..n + m |-> c[(n + m - i) + 1]]
    BY <1>6, <1>8 DEF Reverse
  <2>2. \A i \in 1..n + m : c[(n + m - i) + 1] \in Char
    BY <1>6
  <2> QED
    BY <2>1, <2>2
<1>11. ASSUME NEW i \in 1..m
       PROVE  u[i] = v[i]
  <2>1. i \in 1..n + m /\ (m - i) + 1 \in 1..m /\ (n + m - i) + 1 = n + ((m - i) + 1)
    OBVIOUS
  <2>2. v[i] = c[n + ((m - i) + 1)]
    BY <1>10, <2>1
  <2>3. c[n + ((m - i) + 1)] = p[(m - i) + 1]
    BY <1>6, <2>1
  <2> QED
    BY <1>9, <2>2, <2>3
<1>12. SubSeq(u, 1, m) = SubSeq(v, 1, m)
  <2>1. SubSeq(u, 1, m) = [i \in 1..m |-> u[i]] /\ SubSeq(v, 1, m) = [i \in 1..m |-> v[i]]
    BY <1>9, <1>10
  <2> QED
    BY <1>11, <2>1
<1> QED
  BY <1>2, <1>4, <1>7, <1>8, <1>9, <1>10, <1>12 DEF IsSuffix, IsPrefix

(* A typed line with a semicolon makes something run that ends with it, but  *)
(* for a statement too long, the commands of the loop, a line that looks     *)
(* like a key and a recall screen the terminal lost (process.c).             *)
THEOREM TypedRunsCorrect == Spec => TypedRuns
<1>1. ASSUME InputInv, Next, NEW p, p = Trim(input'.text), input'.by = "line", Contains(p, "semi")
      PROVE  \/ ran' # Nothing /\ IsSuffix(p, ran'.text)
             \/ TooLong(stmt, p) \/ Is(p, ".CLEAR") \/ Is(p, ".REPEAT")
             \/ LooksLikeKey(p) \/ Apart
  <2>1. SUFFICES ASSUME ~TooLong(stmt, p), ~Is(p, ".CLEAR"), ~Is(p, ".REPEAT"), ~LooksLikeKey(p), ~Apart
                 PROVE  ran' # Nothing /\ IsSuffix(p, ran'.text)
    OBVIOUS
  <2>2. ~EndOfInput
    BY <1>1 DEF EndOfInput, NoInput
  <2>3. PICK e : Passes(e)
    BY <1>1, <2>2, NextIs
  <2>4. e.by = "line" /\ p = Trim(e.text)
    BY <1>1, <2>3 DEF Passes
  <2>5. TypedInv /\ ScreenInv /\ RecallInv
    BY <1>1 DEF InputInv
  <2>6. LineInput(e) /\ e.text \in Seq(Char)
    BY <2>3, <2>4, <2>5, InputIs DEF Passes, IsInput, IsText, KeyInput, EnterInput, PfInput
  <2>7. ~LooksLikeKey(e.text)
    BY <2>1, <2>4, <2>6, KeyStays
  <2>8. ~(interactive /\ recalling)
    BY <2>1, <2>5, <2>6 DEF LineInput, Apart, TypedInv
  <2>9. Line(Raw(e)) = e.text /\ ~IsEnterKey(Raw(e)) /\ ~IsOtherKey(Raw(e))
    BY <2>5, <2>6, <2>7, <2>8, LineReads DEF TypedInv
  <2>10. Does(e, p)
    BY <2>3, <2>4, <2>9, PassIs DEF InvalidInput, ShowAgain
  <2>11. p # <<>> /\ p \in Seq(Char) /\ p # <<".QUIT">> /\ ~Stray(p)
    <3>1. p \in Seq(Char)
      BY <2>4, <2>6, TrimText
    <3>2. p # <<>> /\ p # <<".QUIT">>
      BY <1>1 DEF Contains
    <3> QED
      BY <1>1, <3>1, <3>2 DEF Stray
  <2>12. Run(e, p)
    BY <1>1, <2>1, <2>10, <2>11
       DEF Does, Skip, Quit, Clear, RepeatNot, Repeat, RepeatFails, Drop, Collect
  <2>13. ran'.text = JoinLine(stmt, p) /\ stmt \in Seq(Char)
    BY <2>5, <2>12 DEF Run, TypedInv
  <2>14. IsSuffix(p, ran'.text)
    BY <2>11, <2>13, SuffixIs
  <2>15. ran' # Nothing
    <3>1. IsJoin(JoinLine(stmt, p), stmt, p)
      BY <2>11, <2>13, JoinLineIs
    <3>2. ran'.text # <<>>
      BY <2>13, <3>1 DEF IsJoin
    <3> QED
      BY <3>2 DEF Nothing
  <2> QED
    BY <2>14, <2>15
<1>2. ASSUME InputInv, [Next]_vars
      PROVE  [LET p == Trim(input'.text) IN
              input'.by = "line" /\ Contains(p, "semi") =>
                \/ ran' # Nothing /\ IsSuffix(p, ran'.text)
                \/ TooLong(stmt, p) \/ Is(p, ".CLEAR") \/ Is(p, ".REPEAT")
                \/ LooksLikeKey(p) \/ Apart]_vars
  BY <1>1, <1>2
<1> QED
  BY <1>2, InputCorrect, PTL DEF Spec, TypedRuns

=============================================================================
