------------------------- MODULE CatalogCodecProofs -------------------------
(***************************************************************************)
(* Definitions written and read back any number of times stay what the     *)
(* statements asked for, for all names, lengths and limits, as long as the *)
(* names of each index and each reference fit their token.                 *)
(***************************************************************************)
EXTENDS CatalogCodec, TLAPS, WellFoundedInduction

LEMMA LimitsAre ==
  /\ MaxTables \in Nat /\ MaxCols \in Nat /\ MaxIndexes \in Nat /\ MaxFks \in Nat
  /\ MaxName \in Nat /\ MaxToken \in Nat
BY NameAssumption DEF NameAssumption

(* A set of numbers has a least member.                                      *)
LEMMA LessThanOnNat == \A x, y \in Nat : <<x, y>> \in OpToRel(<, Nat) <=> x < y
BY Zenon DEF OpToRel

LEMMA Least ==
  ASSUME NEW S \in SUBSET Nat, S # {}
  PROVE  Min(S) \in S /\ \A x \in S : Min(S) <= x
<1> DEFINE R == OpToRel(<, Nat)
<1>1. IsWellFoundedOn(R, Nat)
  BY NatLessThanWellFounded, Zenon
<1>2. \A x, y \in Nat : <<x, y>> \in R <=> x < y
  BY LessThanOnNat, Zenon
<1> HIDE DEF R
<1>3. \E x \in S : \A y \in S : ~(<<y, x>> \in R)
  BY <1>1, WFMin
<1>4. \A x, y \in Nat : ~(<<y, x>> \in R) <=> ~(y < x)
  BY <1>2
<1>5. \A x, y \in Nat : ~(y < x) => x <= y
  OBVIOUS
<1>6. \E x \in S : \A y \in S : x <= y
  BY <1>3, <1>4, <1>5, Zenon
<1>7. QED
  BY <1>6 DEF Min

LEMMA MinIs == ASSUME NEW a \in Int, NEW b \in Int PROVE Min({a, b}) = IF a <= b THEN a ELSE b
BY DEF Min
-----------------------------------------------------------------------------
(* The position found is the first, and 0 when there is none.                *)
LEMMA PositionIs ==
  ASSUME NEW s, NEW x, Len(s) \in Nat
  PROVE  /\ Position(s, x) \in 0..Len(s)
         /\ Position(s, x) > 0 => s[Position(s, x)] = x
         /\ \A j \in 1..Len(s) : s[j] = x => Position(s, x) > 0 /\ Position(s, x) <= j
<1> DEFINE I == {j \in 1..Len(s) : s[j] = x}
<1>1. I \in SUBSET Nat
  OBVIOUS
<1>2. I # {} => Min(I) \in I /\ \A j \in I : Min(I) <= j
  BY <1>1, Least
<1>3. Position(s, x) = IF I # {} THEN Min(I) ELSE 0
  BY DEF Position, SelectInSeq
<1>4. ASSUME NEW j \in 1..Len(s), s[j] = x
      PROVE  Position(s, x) > 0 /\ Position(s, x) <= j
  <2>1. j \in I
    BY <1>4
  <2> QED
    BY <1>2, <1>3, <2>1
<1> QED
  BY <1>2, <1>3, <1>4

(* The texts of tokens: a colon belongs to no name.                          *)
Letter == STRING \ {Colon}
Char == Letter \cup {Colon}
Name == {n \in Seq(Letter) : Len(n) \in 1..MaxName}

LEMMA NamesAre == TableNames \cup ColumnNames \cup IndexNames \subseteq Name
BY NameAssumption DEF Name, Letter, NameAssumption

LEMMA NameIsText ==
  ASSUME NEW n \in Seq(Letter)
  PROVE  n \in Seq(Char) /\ Len(n) \in Nat /\ \A k \in 1..Len(n) : n[k] # Colon
BY DEF Letter, Char

(* A name, a colon and a rest. *)
LEMMA TokenIs ==
  ASSUME NEW n \in Seq(Letter), NEW rest \in Seq(Char)
  PROVE  LET t == n \o <<Colon>> \o rest
         IN  /\ t \in Seq(Char) /\ Len(t) = Len(n) + 1 + Len(rest)
             /\ \A k \in 1..Len(n) : t[k] = n[k] /\ t[k] # Colon
             /\ t[Len(n) + 1] = Colon
             /\ \A k \in 1..Len(rest) : t[Len(n) + 1 + k] = rest[k]
<1> DEFINE c == Colon
           a == n \o <<c>>
<1>1. n \in Seq(Char) /\ Len(n) \in Nat /\ Len(rest) \in Nat /\ c \in Char
  BY NameIsText DEF Char
<1>3. \A k \in 1..Len(n) : n[k] # c
  BY NameIsText
<1> HIDE DEF c
<1>2. a \in Seq(Char) /\ Len(a) = Len(n) + 1 /\ a[Len(n) + 1] = c
  BY <1>1
<1>4. \A k \in 1..Len(n) : a[k] = n[k]
  BY <1>1
<1> HIDE DEF a
<1>5. /\ a \o rest \in Seq(Char) /\ Len(a \o rest) = Len(n) + 1 + Len(rest)
      /\ \A k \in 1..Len(n) + 1 : (a \o rest)[k] = a[k]
      /\ \A k \in 1..Len(rest) : (a \o rest)[Len(n) + 1 + k] = rest[k]
  BY <1>1, <1>2
<1> QED
  BY <1>1, <1>2, <1>3, <1>4, <1>5 DEF a, c

LEMMA FirstPart ==
  ASSUME NEW S, NEW t \in Seq(S), NEW m \in 0..Len(t)
  PROVE  LET p == SubSeq(t, 1, m)
         IN  p \in Seq(S) /\ Len(p) = m /\ \A k \in 1..m : p[k] = t[k]
OBVIOUS

LEMMA ItemOf == ASSUME NEW S, NEW s \in Seq(S), NEW k \in 1..Len(s) PROVE s[k] \in S
OBVIOUS

LEMMA ListOf ==
  ASSUME NEW S, NEW n \in Nat, NEW f, f = [k \in 1..n |-> f[k]], \A k \in 1..n : f[k] \in S
  PROVE  f \in Seq(S) /\ Len(f) = n
OBVIOUS

LEMMA ConcatIs ==
  ASSUME NEW S, NEW a \in Seq(S), NEW b \in Seq(S)
  PROVE  /\ a \o b \in Seq(S) /\ Len(a \o b) = Len(a) + Len(b)
         /\ \A i \in 1..Len(a) : (a \o b)[i] = a[i]
         /\ \A i \in 1..Len(b) : (a \o b)[Len(a) + i] = b[i]
OBVIOUS

LEMMA SameText ==
  ASSUME NEW S, NEW s \in Seq(S), NEW t \in Seq(S), Len(s) = Len(t),
         \A k \in 1..Len(s) : s[k] = t[k]
  PROVE  s = t
OBVIOUS

LEMMA WholePart == ASSUME NEW S, NEW t \in Seq(S) PROVE SubSeq(t, 1, Len(t)) = t
OBVIOUS

LEMMA Between ==
  ASSUME NEW S, NEW t \in Seq(S), NEW a \in Nat, NEW m \in Nat, a <= m, m <= Len(t)
  PROVE  LET p == SubSeq(t, a + 1, m)
         IN  p \in Seq(S) /\ Len(p) = m - a /\ \A k \in 1..m - a : p[k] = t[a + k]
OBVIOUS

(* A text comes apart at its first colon.                                    *)
LEMMA ColonAt ==
  ASSUME NEW p \in Seq(Char), NEW j \in 1..Len(p), p[j] = Colon,
         \A i \in 1..j - 1 : p[i] # Colon
  PROVE  /\ Position(p, Colon) = j
         /\ Before(p) = SubSeq(p, 1, j - 1) /\ After(p) = SubSeq(p, j + 1, Len(p))
<1> DEFINE c == Colon
           q == Position(p, c)
<1>1. Len(p) \in Nat
  OBVIOUS
<1>2. q \in 0..Len(p) /\ (q > 0 => p[q] = c) /\ \A i \in 1..Len(p) : p[i] = c => q > 0 /\ q <= i
  BY <1>1, PositionIs
<1>3. p[j] = c /\ \A i \in 1..j - 1 : p[i] # c
  OBVIOUS
<1> HIDE DEF c, q
<1>4. q > 0 /\ q <= j /\ p[q] = c
  BY <1>1, <1>2, <1>3
<1>5. q = j
  BY <1>1, <1>2, <1>3, <1>4
<1>6. Position(p, Colon) = j
  BY <1>5 DEF q, c
<1> QED
  BY <1>6 DEF Before, After

LEMMA NoColon ==
  ASSUME NEW p \in Seq(Char), \A i \in 1..Len(p) : p[i] # Colon
  PROVE  Position(p, Colon) = 0
<1>1. Len(p) \in Nat
  OBVIOUS
<1>2. Position(p, Colon) \in 0..Len(p) /\ (Position(p, Colon) > 0 => p[Position(p, Colon)] = Colon)
  BY <1>1, PositionIs
<1> QED
  BY <1>1, <1>2

(* The beginning of a token that goes beyond its colon comes apart there.    *)
LEMMA PartsAre ==
  ASSUME NEW n \in Seq(Letter), NEW u \in Seq(Char), NEW m \in 0..(Len(n) + 1 + Len(u))
  PROVE  LET p == SubSeq(n \o <<Colon>> \o u, 1, m)
         IN  /\ Position(p, Colon) > 0 <=> m > Len(n)
             /\ m > Len(n) =>
                  /\ Before(p) = n
                  /\ m - Len(n) - 1 \in 0..Len(u) /\ After(p) = SubSeq(u, 1, m - Len(n) - 1)
<1> DEFINE t == n \o <<Colon>> \o u
           p == SubSeq(t, 1, m)
           h == Len(n)
           k == m - h - 1
<1>1. /\ t \in Seq(Char) /\ Len(t) = h + 1 + Len(u)
      /\ \A i \in 1..h : t[i] = n[i] /\ t[i] # Colon
      /\ t[h + 1] = Colon
      /\ \A i \in 1..Len(u) : t[h + 1 + i] = u[i]
  BY TokenIs
<1>2. n \in Seq(Char) /\ h \in Nat /\ Len(u) \in Nat /\ m \in Nat /\ m <= h + 1 + Len(u)
  BY NameIsText
<1> HIDE DEF t, h
<1>3. p \in Seq(Char) /\ Len(p) = m /\ \A i \in 1..m : p[i] = t[i]
  BY <1>1, <1>2, FirstPart
<1> HIDE DEF p
<1>5. ASSUME m > h
      PROVE  /\ Position(p, Colon) > 0 /\ Before(p) = n
             /\ k \in 0..Len(u) /\ After(p) = SubSeq(u, 1, k)
  <2>1. h + 1 \in 1..Len(p) /\ p[h + 1] = Colon /\ \A i \in 1..h : p[i] = n[i] /\ p[i] # Colon
    BY <1>1, <1>2, <1>3, <1>5
  <2>2. /\ Position(p, Colon) = h + 1
        /\ Before(p) = SubSeq(p, 1, h) /\ After(p) = SubSeq(p, h + 2, m)
    <3>1. (h + 1) - 1 = h /\ (h + 1) + 1 = h + 2
      BY <1>2
    <3> QED
      BY <1>3, <2>1, <3>1, ColonAt
  <2>3. Before(p) = n
    <3>1. SubSeq(p, 1, h) \in Seq(Char) /\ Len(SubSeq(p, 1, h)) = h
          /\ \A i \in 1..h : SubSeq(p, 1, h)[i] = p[i]
      BY <1>2, <1>3, <1>5, FirstPart
    <3>2. \A i \in 1..h : SubSeq(p, 1, h)[i] = n[i]
      BY <2>1, <3>1
    <3>3. Len(n) = h
      BY DEF h
    <3> QED
      BY <1>2, <2>2, <3>1, <3>2, <3>3, SameText
  <2>4. k \in 0..Len(u) /\ h + 1 \in Nat /\ (h + 1) + 1 = h + 2 /\ m - (h + 1) = k /\ h + 1 <= m
    BY <1>2, <1>5
  <2> HIDE DEF k
  <2>5. After(p) = SubSeq(u, 1, k)
    <3> DEFINE a == SubSeq(p, h + 2, m)
               b == SubSeq(u, 1, k)
    <3>1. a \in Seq(Char) /\ Len(a) = k /\ \A i \in 1..k : a[i] = p[h + 1 + i]
      BY <1>2, <1>3, <2>4, Between
    <3>2. b \in Seq(Char) /\ Len(b) = k /\ \A i \in 1..k : b[i] = u[i]
      BY <2>4, FirstPart
    <3>3. ASSUME NEW i \in 1..k
          PROVE  p[h + 1 + i] = u[i]
      <4>1. h + 1 + i \in 1..m /\ i \in 1..Len(u)
        BY <1>2, <2>4 DEF k
      <4> QED
        BY <1>1, <1>3, <4>1
    <3> HIDE DEF a, b
    <3>4. a = b
      BY <3>1, <3>2, <3>3, SameText
    <3> QED
      BY <2>2, <3>4 DEF a, b
  <2> QED
    BY <1>2, <2>2, <2>3, <2>4, <2>5
<1>6. ASSUME ~(m > h)
      PROVE  Position(p, Colon) = 0
  <2>1. \A i \in 1..m : p[i] # Colon
    BY <1>1, <1>2, <1>3, <1>6
  <2> QED
    BY <1>3, <2>1, NoColon
<1> QED
  BY <1>5, <1>6 DEF p, t, h

LEMMA CutIs ==
  ASSUME NEW t \in Seq(Char)
  PROVE  Cut(t) = SubSeq(t, 1, IF Len(t) <= MaxToken THEN Len(t) ELSE MaxToken)
<1>1. Min({Len(t), MaxToken}) = IF Len(t) <= MaxToken THEN Len(t) ELSE MaxToken
  BY MinIs, LimitsAre
<1> QED
  BY <1>1 DEF Cut

(* A token as decode_table_def reads it. *)
LEMMA CutParts ==
  ASSUME NEW n \in Seq(Letter), NEW u \in Seq(Char), NEW t, t = n \o <<Colon>> \o u
  PROVE  /\ t \in Seq(Char) /\ Len(t) = Len(n) + 1 + Len(u)
         /\ Position(Cut(t), Colon) > 0 =>
              /\ Before(Cut(t)) = n
              /\ \E k \in 0..Len(u) : After(Cut(t)) = SubSeq(u, 1, k)
         /\ Len(t) <= MaxToken => Position(Cut(t), Colon) > 0 /\ After(Cut(t)) = u
<1> DEFINE m == IF Len(t) <= MaxToken THEN Len(t) ELSE MaxToken
<1>1. t \in Seq(Char) /\ Len(t) = Len(n) + 1 + Len(u)
  BY TokenIs
<1>2. Len(n) \in Nat /\ Len(u) \in Nat
  BY NameIsText
<1>3. m \in 0..(Len(n) + 1 + Len(u))
  BY <1>1, <1>2, LimitsAre
<1>4. Cut(t) = SubSeq(t, 1, m)
  BY <1>1, CutIs
<1> HIDE DEF m
<1>5. /\ Position(Cut(t), Colon) > 0 <=> m > Len(n)
      /\ m > Len(n) =>
           /\ Before(Cut(t)) = n
           /\ m - Len(n) - 1 \in 0..Len(u) /\ After(Cut(t)) = SubSeq(u, 1, m - Len(n) - 1)
  <2> DEFINE p == SubSeq(n \o <<Colon>> \o u, 1, m)
  <2>1. /\ Position(p, Colon) > 0 <=> m > Len(n)
        /\ m > Len(n) =>
             /\ Before(p) = n
             /\ m - Len(n) - 1 \in 0..Len(u) /\ After(p) = SubSeq(u, 1, m - Len(n) - 1)
    BY <1>3, PartsAre
  <2>2. Cut(t) = p
    BY <1>4
  <2> QED
    BY <2>1, <2>2
<1>6. ASSUME Len(t) <= MaxToken
      PROVE  Position(Cut(t), Colon) > 0 /\ After(Cut(t)) = u
  <2>1. m = Len(t)
    BY <1>6 DEF m
  <2>2. m > Len(n) /\ m - Len(n) - 1 = Len(u)
    BY <1>1, <1>2, <2>1
  <2> QED
    BY <1>5, <2>2, WholePart
<1> QED
  BY <1>1, <1>5, <1>6

(* A reference has three names. *)
IsReference(t, n, v, w) == t = n \o <<Colon>> \o v \o <<Colon>> \o w

LEMMA CutThree ==
  ASSUME NEW n \in Seq(Letter), NEW v \in Seq(Letter), NEW w \in Seq(Char),
         NEW t, IsReference(t, n, v, w)
  PROVE  /\ t \in Seq(Char) /\ Len(t) = Len(n) + Len(v) + Len(w) + 2
         /\ Position(Cut(t), Colon) > 0 /\ Position(After(Cut(t)), Colon) > 0 =>
              /\ Before(Cut(t)) = n /\ Before(After(Cut(t))) = v
              /\ \E k \in 0..Len(w) : After(After(Cut(t))) = SubSeq(w, 1, k)
         /\ Len(t) <= MaxToken =>
              /\ Position(Cut(t), Colon) > 0 /\ Position(After(Cut(t)), Colon) > 0
              /\ After(After(Cut(t))) = w
<1> DEFINE u == v \o <<Colon>> \o w
           c == Colon
<1>1. n \in Seq(Char) /\ v \in Seq(Char) /\ <<c>> \in Seq(Char)
  BY NameIsText DEF Char
<1>2. u \in Seq(Char) /\ Len(u) = Len(v) + 1 + Len(w)
  BY TokenIs
<1>3. Len(n) \in Nat /\ Len(v) \in Nat /\ Len(w) \in Nat
  BY NameIsText
<1>4. t = n \o <<Colon>> \o u
  <2> DEFINE b == <<c>>
  <2>0. b \in Seq(Char) /\ n \in Seq(Char) /\ v \in Seq(Char) /\ w \in Seq(Char)
    BY <1>1
  <2> HIDE DEF b
  <2>1. n \o b \o v \o b \o w = n \o b \o (v \o b \o w)
    BY <2>0
  <2> QED
    BY <2>1 DEF b, IsReference
<1> HIDE DEF u
<1>5. /\ t \in Seq(Char) /\ Len(t) = Len(n) + 1 + Len(u)
      /\ Position(Cut(t), Colon) > 0 =>
           /\ Before(Cut(t)) = n
           /\ \E k \in 0..Len(u) : After(Cut(t)) = SubSeq(u, 1, k)
      /\ Len(t) <= MaxToken => Position(Cut(t), Colon) > 0 /\ After(Cut(t)) = u
  BY <1>2, <1>4, CutParts
<1>6. \A k \in 0..Len(u) :
        /\ Position(SubSeq(u, 1, k), Colon) > 0 <=> k > Len(v)
        /\ k > Len(v) => /\ Before(SubSeq(u, 1, k)) = v
                         /\ k - Len(v) - 1 \in 0..Len(w)
                         /\ After(SubSeq(u, 1, k)) = SubSeq(w, 1, k - Len(v) - 1)
  <2> SUFFICES ASSUME NEW k \in 0..Len(u)
               PROVE  /\ Position(SubSeq(u, 1, k), Colon) > 0 <=> k > Len(v)
                      /\ k > Len(v) => /\ Before(SubSeq(u, 1, k)) = v
                                       /\ k - Len(v) - 1 \in 0..Len(w)
                                       /\ After(SubSeq(u, 1, k)) = SubSeq(w, 1, k - Len(v) - 1)
    OBVIOUS
  <2>1. k \in 0..(Len(v) + 1 + Len(w))
    BY <1>2
  <2> QED
    BY <2>1, PartsAre DEF u
<1>7. ASSUME Position(Cut(t), Colon) > 0, Position(After(Cut(t)), Colon) > 0
      PROVE  /\ Before(Cut(t)) = n /\ Before(After(Cut(t))) = v
             /\ \E k \in 0..Len(w) : After(After(Cut(t))) = SubSeq(w, 1, k)
  BY <1>5, <1>6, <1>7
<1>8. ASSUME Len(t) <= MaxToken
      PROVE  /\ Position(Cut(t), Colon) > 0 /\ Position(After(Cut(t)), Colon) > 0
             /\ After(After(Cut(t))) = w
  <2>1. Position(Cut(t), Colon) > 0 /\ After(Cut(t)) = u
    BY <1>5, <1>8
  <2>2. SubSeq(u, 1, Len(u)) = u /\ SubSeq(w, 1, Len(w)) = w
    BY <1>2, WholePart
  <2>3. Len(u) > Len(v) /\ Len(u) - Len(v) - 1 = Len(w) /\ Len(u) \in 0..Len(u)
    BY <1>2, <1>3
  <2> QED
    BY <1>6, <2>1, <2>2, <2>3
<1>9. Len(t) = Len(n) + Len(v) + Len(w) + 2
  BY <1>2, <1>3, <1>5
<1> QED
  BY <1>5, <1>7, <1>8, <1>9
-----------------------------------------------------------------------------
(* A definition, and what a definition read from the catalog has in common   *)
(* with the one asked for.  Names and the tables referred to never change.   *)
Definition ==
  [name : Name, cols : Seq(Name), pk : Nat, ixs : Seq([name : Name, col : Nat]),
   fks : Seq([col : Nat, table : Name, ref : Name])]
IsDef(t) ==
  /\ t \in Definition /\ t.pk <= Len(t.cols)
  /\ \A x \in 1..Len(t.ixs) : t.ixs[x].col \in 1..Len(t.cols)
  /\ \A f \in 1..Len(t.fks) : t.fks[f].col \in 1..Len(t.cols)

IxFits(t, x) == Len(t.ixs[x].name) + Len(t.cols[t.ixs[x].col]) + 1 <= MaxToken
FkFits(t, f) ==
  Len(t.cols[t.fks[f].col]) + Len(t.fks[f].table) + Len(t.fks[f].ref) + 2 <= MaxToken
Agrees(d, t) ==
  /\ d.name = t.name /\ d.cols = t.cols /\ Len(d.ixs) = Len(t.ixs) /\ Len(d.fks) = Len(t.fks)
  /\ \A x \in 1..Len(t.ixs) : d.ixs[x].name = t.ixs[x].name
  /\ \A f \in 1..Len(t.fks) : d.fks[f].table = t.fks[f].table
  /\ IsInjective(t.cols) =>
       /\ d.pk = t.pk
       /\ \A x \in 1..Len(t.ixs) : IxFits(t, x) => d.ixs[x].col = t.ixs[x].col
       /\ \A f \in 1..Len(t.fks) :
            FkFits(t, f) => d.fks[f].col = t.fks[f].col /\ d.fks[f].ref = t.fks[f].ref

LEMMA AgreesOn ==
  ASSUME NEW t, NEW d, NEW e, Agrees(d, t), Agrees(e, d)
  PROVE  Agrees(e, t)
<1>1. \A x \in 1..Len(t.ixs) : IsInjective(t.cols) /\ IxFits(t, x) => IxFits(d, x)
  BY DEF Agrees, IxFits
<1>2. \A f \in 1..Len(t.fks) : IsInjective(t.cols) /\ FkFits(t, f) => FkFits(d, f)
  BY DEF Agrees, FkFits
<1> QED
  BY <1>1, <1>2 DEF Agrees

LEMMA AgreesWhole ==
  ASSUME NEW t, NEW d, IsDef(t), IsDef(d), Agrees(d, t), Fits(t)
  PROVE  d = t
<1>1. IsInjective(t.cols) /\ d.pk = t.pk /\ d.name = t.name /\ d.cols = t.cols
  BY DEF Agrees, Fits
<1>2. t \in Definition /\ d \in Definition
  BY DEF IsDef
<1>3. d.ixs = t.ixs
  <2>1. /\ d.ixs \in Seq([name : Name, col : Nat]) /\ t.ixs \in Seq([name : Name, col : Nat])
        /\ Len(d.ixs) = Len(t.ixs)
    BY <1>2 DEF Agrees, Definition
  <2>2. ASSUME NEW x \in 1..Len(d.ixs)
        PROVE  d.ixs[x] = t.ixs[x]
    <3>1. d.ixs[x].name = t.ixs[x].name /\ d.ixs[x].col = t.ixs[x].col
      BY <1>1, <2>1 DEF Agrees, Fits, IxFits
    <3>2. d.ixs[x] \in [name : Name, col : Nat] /\ t.ixs[x] \in [name : Name, col : Nat]
      BY <2>1, ItemOf
    <3> QED
      BY <3>1, <3>2
  <2> QED
    BY <2>1, <2>2, SameText
<1>4. d.fks = t.fks
  <2>1. /\ d.fks \in Seq([col : Nat, table : Name, ref : Name])
        /\ t.fks \in Seq([col : Nat, table : Name, ref : Name]) /\ Len(d.fks) = Len(t.fks)
    BY <1>2 DEF Agrees, Definition
  <2>2. ASSUME NEW f \in 1..Len(d.fks)
        PROVE  d.fks[f] = t.fks[f]
    <3>1. /\ d.fks[f].col = t.fks[f].col /\ d.fks[f].table = t.fks[f].table
          /\ d.fks[f].ref = t.fks[f].ref
      BY <1>1, <2>1 DEF Agrees, Fits, FkFits
    <3>2. /\ d.fks[f] \in [col : Nat, table : Name, ref : Name]
          /\ t.fks[f] \in [col : Nat, table : Name, ref : Name]
      BY <2>1, ItemOf
    <3> QED
      BY <3>1, <3>2
  <2> QED
    BY <2>1, <2>2, SameText
<1> QED
  <2>1. /\ t = [name |-> t.name, cols |-> t.cols, pk |-> t.pk, ixs |-> t.ixs, fks |-> t.fks]
        /\ d = [name |-> d.name, cols |-> d.cols, pk |-> d.pk, ixs |-> d.ixs, fks |-> d.fks]
    BY <1>2 DEF Definition
  <2> QED
    BY <1>1, <1>3, <1>4, <2>1

-----------------------------------------------------------------------------
(* A definition that is written and read back.                               *)
LEMMA DefParts ==
  ASSUME NEW d, IsDef(d)
  PROVE  /\ d.name \in Name /\ d.cols \in Seq(Name) /\ Len(d.cols) \in Nat /\ d.pk \in 0..Len(d.cols)
         /\ d.ixs \in Seq([name : Name, col : Nat]) /\ Len(d.ixs) \in Nat
         /\ d.fks \in Seq([col : Nat, table : Name, ref : Name]) /\ Len(d.fks) \in Nat
         /\ \A i \in 1..Len(d.cols) : d.cols[i] \in Name
         /\ \A x \in 1..Len(d.ixs) : d.ixs[x].name \in Name /\ d.ixs[x].col \in 1..Len(d.cols)
         /\ \A f \in 1..Len(d.fks) : /\ d.fks[f].table \in Name /\ d.fks[f].ref \in Name
                                     /\ d.fks[f].col \in 1..Len(d.cols)
<1>1. /\ d.name \in Name /\ d.cols \in Seq(Name) /\ d.pk \in Nat /\ d.pk <= Len(d.cols)
      /\ d.ixs \in Seq([name : Name, col : Nat])
      /\ d.fks \in Seq([col : Nat, table : Name, ref : Name])
  BY DEF IsDef, Definition
<1>2. Len(d.cols) \in Nat /\ Len(d.ixs) \in Nat /\ Len(d.fks) \in Nat
  BY <1>1
<1>3. \A i \in 1..Len(d.cols) : d.cols[i] \in Name
  BY <1>1, ItemOf
<1>4. \A x \in 1..Len(d.ixs) : d.ixs[x] \in [name : Name, col : Nat]
  BY <1>1, ItemOf
<1>5. \A f \in 1..Len(d.fks) : d.fks[f] \in [col : Nat, table : Name, ref : Name]
  BY <1>1, ItemOf
<1> QED
  BY <1>1, <1>2, <1>3, <1>4, <1>5 DEF IsDef

LEMMA NameParts ==
  ASSUME NEW n \in Name
  PROVE  /\ n \in Seq(Letter) /\ n \in Seq(Char) /\ Len(n) \in 1..MaxName /\ Len(n) \in Nat
         /\ n # << >> /\ Colon \notin Range(n)
<1>1. n \in Seq(Letter) /\ Len(n) \in 1..MaxName
  BY DEF Name
<1>2. n \in Seq(Char) /\ Len(n) \in Nat /\ \A k \in 1..Len(n) : n[k] # Colon
  BY <1>1, NameIsText
<1>3. Len(<< >>) = 0 /\ DOMAIN n = 1..Len(n)
  BY <1>1
<1> QED
  BY <1>1, <1>2, <1>3 DEF Range

LEMMA ColumnAt ==
  ASSUME NEW S, NEW cols \in Seq(S), NEW i \in 1..Len(cols)
  PROVE  /\ Position(cols, cols[i]) \in 1..Len(cols)
         /\ IsInjective(cols) => Position(cols, cols[i]) = i
<1>1. Len(cols) \in Nat /\ DOMAIN cols = 1..Len(cols)
  OBVIOUS
<1> DEFINE x == cols[i]
<1>2. /\ Position(cols, x) \in 0..Len(cols)
      /\ Position(cols, x) > 0 => cols[Position(cols, x)] = x
      /\ Position(cols, x) > 0 /\ Position(cols, x) <= i
  BY <1>1, PositionIs
<1> QED
  BY <1>1, <1>2 DEF IsInjective

LEMMA Encoded ==
  ASSUME NEW d, IsDef(d)
  PROVE  LET x == Encode(d)
         IN  /\ x.name = d.name /\ x.cols = d.cols
             /\ x.pk = IF d.pk = 0 THEN << >> ELSE d.cols[d.pk]
             /\ Len(x.ix) = Len(d.ixs) /\ Len(x.fk) = Len(d.fks)
             /\ \A y \in 1..Len(d.ixs) :
                  x.ix[y] = d.ixs[y].name \o <<Colon>> \o d.cols[d.ixs[y].col]
             /\ \A f \in 1..Len(d.fks) :
                  x.fk[f] = d.cols[d.fks[f].col] \o <<Colon>> \o d.fks[f].table \o <<Colon>> \o d.fks[f].ref
<1>1. Len(d.ixs) \in Nat /\ Len(d.fks) \in Nat
  BY DefParts
<1> DEFINE ix == [y \in 1..Len(d.ixs) |-> d.ixs[y].name \o <<Colon>> \o d.cols[d.ixs[y].col]]
           fk == [f \in 1..Len(d.fks) |->
                    d.cols[d.fks[f].col] \o <<Colon>> \o d.fks[f].table \o <<Colon>> \o d.fks[f].ref]
<1>2. /\ Encode(d).name = d.name /\ Encode(d).cols = d.cols
      /\ Encode(d).pk = IF d.pk = 0 THEN << >> ELSE d.cols[d.pk]
  BY Zenon DEF Encode
<1>3. Encode(d).ix = ix /\ Encode(d).fk = fk
  BY Zenon DEF Encode
<1>4. Len(ix) = Len(d.ixs) /\ Len(fk) = Len(d.fks)
  BY <1>1
<1> QED
  BY <1>2, <1>3, <1>4

LEMMA PrimaryKept ==
  ASSUME NEW d, IsDef(d)
  PROVE  /\ Position(d.cols, Encode(d).pk) \in 0..Len(d.cols)
         /\ IsInjective(d.cols) => Position(d.cols, Encode(d).pk) = d.pk
<1>1. /\ d.cols \in Seq(Name) /\ Len(d.cols) \in Nat /\ d.pk \in 0..Len(d.cols)
      /\ \A i \in 1..Len(d.cols) : d.cols[i] \in Name
  BY DefParts
<1>2. CASE d.pk = 0
  <2>1. Encode(d).pk = << >>
    BY <1>2, Encoded
  <2>2. \A i \in 1..Len(d.cols) : d.cols[i] # << >>
    BY <1>1, NameParts
  <2>3. /\ Position(d.cols, << >>) \in 0..Len(d.cols)
        /\ Position(d.cols, << >>) > 0 => d.cols[Position(d.cols, << >>)] = << >>
    BY <1>1, PositionIs
  <2> QED
    BY <1>1, <1>2, <2>1, <2>2, <2>3
<1>3. CASE d.pk # 0
  <2>0. Encode(d).pk = d.cols[d.pk]
    BY <1>3, Encoded
  <2>1. Encode(d).pk = d.cols[d.pk] /\ d.pk \in 1..Len(d.cols)
    BY <1>1, <1>3, <2>0
  <2> QED
    BY <1>1, <2>1, ColumnAt
<1> QED
  BY <1>2, <1>3

LEMMA IndexKept ==
  ASSUME NEW d, IsDef(d), NEW y \in 1..Len(d.ixs)
  PROVE  LET t == Encode(d).ix[y]
         IN  /\ IxOk(d.cols, t) => /\ Before(Cut(t)) = d.ixs[y].name
                                   /\ Position(d.cols, After(Cut(t))) \in 1..Len(d.cols)
             /\ IxFits(d, y) => /\ IxOk(d.cols, t)
                                /\ IsInjective(d.cols) =>
                                     Position(d.cols, After(Cut(t))) = d.ixs[y].col
<1> DEFINE n == d.ixs[y].name
           i == d.ixs[y].col
           u == d.cols[i]
           t == Encode(d).ix[y]
<1>1. /\ d.cols \in Seq(Name) /\ Len(d.cols) \in Nat /\ n \in Name /\ i \in 1..Len(d.cols) /\ u \in Name
  BY DefParts
<1>2. t = n \o <<Colon>> \o u
  BY Encoded
<1>3. IxFits(d, y) <=> Len(n) + Len(u) + 1 <= MaxToken
  BY DEF IxFits
<1> HIDE DEF n, u, t
<1>4. n \in Seq(Letter) /\ u \in Seq(Char) /\ Len(n) \in Nat /\ Len(u) \in Nat
  BY <1>1, NameParts
<1>5. /\ t \in Seq(Char) /\ Len(t) = Len(n) + 1 + Len(u)
      /\ Position(Cut(t), Colon) > 0 => Before(Cut(t)) = n
      /\ Len(t) <= MaxToken => Position(Cut(t), Colon) > 0 /\ After(Cut(t)) = u
  BY <1>2, <1>4, CutParts
<1>6. ASSUME IxOk(d.cols, t)
      PROVE  Before(Cut(t)) = n /\ Position(d.cols, After(Cut(t))) \in 1..Len(d.cols)
  <2>1. Position(d.cols, After(Cut(t))) \in 0..Len(d.cols)
    BY <1>1, PositionIs
  <2> QED
    BY <1>1, <1>5, <1>6, <2>1 DEF IxOk
<1>7. ASSUME IxFits(d, y)
      PROVE  IxOk(d.cols, t) /\ (IsInjective(d.cols) => Position(d.cols, After(Cut(t))) = i)
  <2>1. Position(Cut(t), Colon) > 0 /\ After(Cut(t)) = u
    BY <1>3, <1>4, <1>5, <1>7
  <2>2. Position(d.cols, u) \in 1..Len(d.cols) /\ (IsInjective(d.cols) => Position(d.cols, u) = i)
    BY <1>1, ColumnAt DEF u
  <2> QED
    BY <1>1, <2>1, <2>2 DEF IxOk
<1> QED
  BY <1>6, <1>7 DEF n, t

LEMMA ReferenceKept ==
  ASSUME NEW d, IsDef(d), NEW f \in 1..Len(d.fks)
  PROVE  LET t == Encode(d).fk[f]
             rest == After(Cut(t))
         IN  /\ FkOk(d.cols, t) => /\ Position(d.cols, Before(Cut(t))) \in 1..Len(d.cols)
                                   /\ Before(rest) = d.fks[f].table /\ After(rest) \in Name
             /\ FkFits(d, f) => /\ FkOk(d.cols, t) /\ After(rest) = d.fks[f].ref
                                /\ IsInjective(d.cols) =>
                                     Position(d.cols, Before(Cut(t))) = d.fks[f].col
<1> DEFINE i == d.fks[f].col
           n == d.cols[i]
           v == d.fks[f].table
           w == d.fks[f].ref
           t == Encode(d).fk[f]
           rest == After(Cut(t))
<1>1. /\ d.cols \in Seq(Name) /\ Len(d.cols) \in Nat /\ i \in 1..Len(d.cols)
      /\ n \in Name /\ v \in Name /\ w \in Name
  BY DefParts
<1>2. IsReference(t, n, v, w)
  BY Encoded DEF IsReference
<1>3. FkFits(d, f) <=> Len(n) + Len(v) + Len(w) + 2 <= MaxToken
  BY DEF FkFits
<1>4. Position(d.cols, n) \in 1..Len(d.cols) /\ (IsInjective(d.cols) => Position(d.cols, n) = i)
  BY <1>1, ColumnAt
<1> HIDE DEF n, v, w, t, i
<1>5. /\ n \in Seq(Letter) /\ v \in Seq(Letter) /\ w \in Seq(Letter) /\ w \in Seq(Char)
      /\ Len(n) \in Nat /\ Len(v) \in Nat /\ Len(w) \in Nat
      /\ ValidName(v) /\ ValidName(w)
  BY <1>1, NameParts DEF ValidName
<1>6. /\ t \in Seq(Char) /\ Len(t) = Len(n) + Len(v) + Len(w) + 2
      /\ Position(Cut(t), Colon) > 0 /\ Position(rest, Colon) > 0 =>
           /\ Before(Cut(t)) = n /\ Before(rest) = v
           /\ \E k \in 0..Len(w) : After(rest) = SubSeq(w, 1, k)
      /\ Len(t) <= MaxToken =>
           Position(Cut(t), Colon) > 0 /\ Position(rest, Colon) > 0 /\ After(rest) = w
  BY <1>2, <1>5, CutThree
<1>7. ASSUME FkOk(d.cols, t)
      PROVE  /\ Position(d.cols, Before(Cut(t))) \in 1..Len(d.cols)
             /\ Before(rest) = v /\ After(rest) \in Name
  <2>1. /\ Before(Cut(t)) = n /\ Before(rest) = v
        /\ \E k \in 0..Len(w) : After(rest) = SubSeq(w, 1, k)
        /\ Len(After(rest)) \in 1..MaxName
    BY <1>6, <1>7 DEF FkOk, ValidName
  <2>2. PICK k \in 0..Len(w) : After(rest) = SubSeq(w, 1, k)
    BY <2>1
  <2>3. After(rest) \in Seq(Letter)
    BY <1>5, <2>2, FirstPart
  <2> QED
    BY <1>4, <2>1, <2>3 DEF Name
<1>8. ASSUME FkFits(d, f)
      PROVE  /\ FkOk(d.cols, t) /\ After(rest) = w
             /\ IsInjective(d.cols) => Position(d.cols, Before(Cut(t))) = i
  <2>1. /\ Position(Cut(t), Colon) > 0 /\ Position(rest, Colon) > 0 /\ After(rest) = w
        /\ Before(Cut(t)) = n /\ Before(rest) = v
    BY <1>3, <1>5, <1>6, <1>8
  <2> QED
    BY <1>4, <1>5, <2>1 DEF FkOk
<1> QED
  BY <1>7, <1>8 DEF v, w, t, i

LEMMA Recoded ==
  ASSUME NEW d, IsDef(d), Decodable(Encode(d))
  PROVE  IsDef(Decode(Encode(d))) /\ Agrees(Decode(Encode(d)), d)
<1> DEFINE x == Encode(d)
           e == Decode(x)
           ixs == [y \in 1..Len(x.ix) |->
                     [name |-> Before(Cut(x.ix[y])), col |-> Position(x.cols, After(Cut(x.ix[y])))]]
           fks == [f \in 1..Len(x.fk) |->
                     [col |-> Position(x.cols, Before(Cut(x.fk[f]))),
                      table |-> Before(After(Cut(x.fk[f]))), ref |-> After(After(Cut(x.fk[f])))]]
<1>1. /\ d.name \in Name /\ d.cols \in Seq(Name) /\ Len(d.cols) \in Nat
      /\ Len(d.ixs) \in Nat /\ Len(d.fks) \in Nat
      /\ \A y \in 1..Len(d.ixs) : d.ixs[y].name \in Name
      /\ \A f \in 1..Len(d.fks) : d.fks[f].table \in Name
  BY DefParts
<1>2. x.name = d.name /\ x.cols = d.cols /\ Len(x.ix) = Len(d.ixs) /\ Len(x.fk) = Len(d.fks)
  BY Encoded
<1>3. e = [name |-> x.name, cols |-> x.cols, pk |-> Position(x.cols, x.pk), ixs |-> ixs, fks |-> fks]
  BY Zenon DEF Decode
<1>4. \A y \in 1..Len(d.ixs) : IxOk(d.cols, x.ix[y])
  BY <1>2 DEF Decodable
<1>5. \A f \in 1..Len(d.fks) : FkOk(d.cols, x.fk[f])
  BY <1>2 DEF Decodable
<1>6. /\ Position(d.cols, x.pk) \in 0..Len(d.cols)
      /\ IsInjective(d.cols) => Position(d.cols, x.pk) = d.pk
  BY PrimaryKept
<1>7. \A y \in 1..Len(d.ixs) :
        /\ ixs[y] \in [name : Name, col : Nat] /\ ixs[y].name = d.ixs[y].name
        /\ ixs[y].col \in 1..Len(d.cols)
        /\ IxFits(d, y) /\ IsInjective(d.cols) => ixs[y].col = d.ixs[y].col
  <2> SUFFICES ASSUME NEW y \in 1..Len(d.ixs)
               PROVE  /\ ixs[y] \in [name : Name, col : Nat] /\ ixs[y].name = d.ixs[y].name
                      /\ ixs[y].col \in 1..Len(d.cols)
                      /\ IxFits(d, y) /\ IsInjective(d.cols) => ixs[y].col = d.ixs[y].col
    OBVIOUS
  <2> DEFINE t == x.ix[y]
  <2>1. ixs[y] = [name |-> Before(Cut(t)), col |-> Position(d.cols, After(Cut(t)))]
    BY <1>2
  <2>2. /\ Before(Cut(t)) = d.ixs[y].name
        /\ Position(d.cols, After(Cut(t))) \in 1..Len(d.cols)
        /\ IxFits(d, y) /\ IsInjective(d.cols) => Position(d.cols, After(Cut(t))) = d.ixs[y].col
    BY <1>4, IndexKept
  <2> HIDE DEF ixs, t
  <2> QED
    BY <1>1, <2>1, <2>2
<1>8. \A f \in 1..Len(d.fks) :
        /\ fks[f] \in [col : Nat, table : Name, ref : Name] /\ fks[f].table = d.fks[f].table
        /\ fks[f].col \in 1..Len(d.cols) /\ fks[f].ref \in Name
        /\ FkFits(d, f) /\ IsInjective(d.cols) =>
             fks[f].col = d.fks[f].col /\ fks[f].ref = d.fks[f].ref
  <2> SUFFICES ASSUME NEW f \in 1..Len(d.fks)
               PROVE  /\ fks[f] \in [col : Nat, table : Name, ref : Name] /\ fks[f].table = d.fks[f].table
                      /\ fks[f].col \in 1..Len(d.cols) /\ fks[f].ref \in Name
                      /\ FkFits(d, f) /\ IsInjective(d.cols) =>
                           fks[f].col = d.fks[f].col /\ fks[f].ref = d.fks[f].ref
    OBVIOUS
  <2> DEFINE t == x.fk[f]
  <2>1. fks[f] = [col |-> Position(d.cols, Before(Cut(t))), table |-> Before(After(Cut(t))),
                  ref |-> After(After(Cut(t)))]
    BY <1>2
  <2>2. /\ Position(d.cols, Before(Cut(t))) \in 1..Len(d.cols)
        /\ Before(After(Cut(t))) = d.fks[f].table /\ After(After(Cut(t))) \in Name
        /\ FkFits(d, f) /\ IsInjective(d.cols) =>
             /\ Position(d.cols, Before(Cut(t))) = d.fks[f].col
             /\ After(After(Cut(t))) = d.fks[f].ref
    BY <1>5, ReferenceKept
  <2> HIDE DEF fks, t
  <2> QED
    BY <1>1, <2>1, <2>2
<1>9. DOMAIN ixs = 1..Len(d.ixs) /\ DOMAIN fks = 1..Len(d.fks)
  BY <1>2
<1>10. Len(ixs) = Len(d.ixs) /\ Len(fks) = Len(d.fks)
  BY <1>1, <1>2
<1>i. ixs = [y \in 1..Len(d.ixs) |-> ixs[y]] /\ fks = [f \in 1..Len(d.fks) |-> fks[f]]
  BY <1>2, Zenon
<1> HIDE DEF ixs, fks, x
<1>11. ixs \in Seq([name : Name, col : Nat])
  BY <1>1, <1>i, <1>7, ListOf
<1>12. fks \in Seq([col : Nat, table : Name, ref : Name])
  BY <1>1, <1>i, <1>8, ListOf
<1>13. /\ e.name = d.name /\ e.cols = d.cols /\ e.pk = Position(d.cols, x.pk)
       /\ e.ixs = ixs /\ e.fks = fks
  BY <1>2, <1>3
<1>14. IsDef(e)
  <2>1. e \in Definition
    BY <1>1, <1>2, <1>3, <1>6, <1>11, <1>12 DEF Definition
  <2> QED
    BY <1>1, <1>6, <1>7, <1>8, <1>10, <1>13, <2>1 DEF IsDef
<1>15. Agrees(e, d)
  BY <1>6, <1>7, <1>8, <1>10, <1>13 DEF Agrees
<1> QED
  BY <1>14, <1>15 DEF x

LEMMA FitsDecodes ==
  ASSUME NEW d, IsDef(d), Fits(d)
  PROVE  Decodable(Encode(d)) /\ Decode(Encode(d)) = d
<1>1. \A y \in 1..Len(d.ixs) : IxFits(d, y)
  BY DEF Fits, IxFits
<1>2. \A f \in 1..Len(d.fks) : FkFits(d, f)
  BY DEF Fits, FkFits
<1>3. /\ Encode(d).cols = d.cols /\ Len(Encode(d).ix) = Len(d.ixs)
      /\ Len(Encode(d).fk) = Len(d.fks)
  BY Encoded
<1>4. Decodable(Encode(d))
  <2>1. \A y \in 1..Len(d.ixs) : IxOk(d.cols, Encode(d).ix[y])
    BY <1>1, IndexKept
  <2>2. \A f \in 1..Len(d.fks) : FkOk(d.cols, Encode(d).fk[f])
    BY <1>2, ReferenceKept
  <2> QED
    BY <1>3, <2>1, <2>2 DEF Decodable
<1> QED
  BY <1>4, Recoded, AgreesWhole

-----------------------------------------------------------------------------
(* Every text in the catalog is the writing of a definition that agrees with *)
(* the one asked for.                                                        *)
CodecInv ==
  /\ asked \in Seq(Definition) /\ Len(catalog) = Len(asked)
  /\ \A j \in 1..Len(asked) :
       IsDef(asked[j]) /\ \E d : IsDef(d) /\ Agrees(d, asked[j]) /\ catalog[j] = Encode(d)

(* A list of definitions beside the list asked for. *)
Beside(D, A) ==
  /\ D \in Seq(Definition) /\ A \in Seq(Definition) /\ Len(D) = Len(A)
  /\ \A j \in 1..Len(A) : IsDef(D[j]) /\ IsDef(A[j]) /\ Agrees(D[j], A[j])

LEMMA Reads ==
  ASSUME CodecInv, Loads
  PROVE  Beside(Tables, asked)
<1>1. Len(asked) \in Nat /\ Len(catalog) = Len(asked)
  BY DEF CodecInv
<1>2. ASSUME NEW j \in 1..Len(asked)
      PROVE  IsDef(Decode(catalog[j])) /\ Agrees(Decode(catalog[j]), asked[j])
  <2>1. PICK d : IsDef(d) /\ Agrees(d, asked[j]) /\ catalog[j] = Encode(d)
    BY DEF CodecInv
  <2>2. Decodable(catalog[j])
    BY <1>1 DEF Loads
  <2>3. IsDef(Decode(catalog[j])) /\ Agrees(Decode(catalog[j]), d)
    BY <2>1, <2>2, Recoded
  <2> QED
    BY <2>1, <2>3, AgreesOn
<1>3. Tables = [j \in 1..Len(asked) |-> Decode(catalog[j])]
  BY <1>1 DEF Tables
<1>4. \A j \in 1..Len(asked) : Tables[j] = Decode(catalog[j])
  BY <1>3
<1>5. \A j \in 1..Len(asked) : Tables[j] \in Definition
  BY <1>2, <1>4 DEF IsDef
<1>6. Tables = [j \in 1..Len(asked) |-> Tables[j]]
  BY <1>3, <1>4
<1>7. Tables \in Seq(Definition) /\ Len(Tables) = Len(asked)
  BY <1>1, <1>5, <1>6, ListOf
<1> QED
  BY <1>2, <1>4, <1>7 DEF Beside, CodecInv

LEMMA Saves ==
  ASSUME NEW D, Beside(D, asked'), Save(D)
  PROVE  CodecInv'
<1>1. Len(D) \in Nat /\ Len(D) = Len(asked')
  BY DEF Beside
<1>2. Len(catalog') = Len(asked') /\ \A j \in 1..Len(asked') : catalog'[j] = Encode(D[j])
  BY <1>1 DEF Save
<1> QED
  BY <1>1, <1>2 DEF Beside, CodecInv

(* The first table or index of a name, or 0. *)
LEMMA FindIs ==
  ASSUME NEW name, Len(Tables) \in Nat
  PROVE  Find(name) \in 0..Len(Tables)
<1> DEFINE I == {j \in 1..Len(Tables) : Tables[j].name = name}
<1>1. I \in SUBSET Nat
  OBVIOUS
<1>2. I # {} => Min(I) \in I
  BY <1>1, Least
<1> QED
  BY <1>2 DEF Find, SelectInSeq

Owner(x) == SelectInSeq(Tables, LAMBDA t : \E y \in 1..Len(t.ixs) : t.ixs[y].name = x)
IndexIn(t, x) == SelectInSeq(t.ixs, LAMBDA ix : ix.name = x)

LEMMA OwnerIs ==
  ASSUME NEW x, Len(Tables) \in Nat
  PROVE  /\ Owner(x) \in 0..Len(Tables)
         /\ Owner(x) > 0 => \E y \in 1..Len(Tables[Owner(x)].ixs) : Tables[Owner(x)].ixs[y].name = x
<1> DEFINE I == {j \in 1..Len(Tables) : \E y \in 1..Len(Tables[j].ixs) : Tables[j].ixs[y].name = x}
<1>1. I \in SUBSET Nat
  OBVIOUS
<1>2. I # {} => Min(I) \in I
  BY <1>1, Least
<1>3. Owner(x) = IF I # {} THEN Min(I) ELSE 0
  BY DEF Owner, SelectInSeq
<1>4. CASE I = {}
  <2>1. Owner(x) = 0
    BY <1>3, <1>4
  <2> QED
    BY <2>1
<1>5. CASE I # {}
  <2>1. Owner(x) \in I
    BY <1>2, <1>3, <1>5
  <2> HIDE DEF I
  <2>2. Owner(x) \in 1..Len(Tables) /\ \E y \in 1..Len(Tables[Owner(x)].ixs) : Tables[Owner(x)].ixs[y].name = x
    BY <2>1 DEF I
  <2> QED
    BY <2>2
<1> QED
  BY <1>4, <1>5

LEMMA IndexInIs ==
  ASSUME NEW t, NEW x, Len(t.ixs) \in Nat, \E y \in 1..Len(t.ixs) : t.ixs[y].name = x
  PROVE  IndexIn(t, x) \in 1..Len(t.ixs)
<1> DEFINE I == {y \in 1..Len(t.ixs) : t.ixs[y].name = x}
<1>1. I \in SUBSET Nat /\ I # {}
  OBVIOUS
<1>2. Min(I) \in I
  BY <1>1, Least
<1>3. IndexIn(t, x) = IF I # {} THEN Min(I) ELSE 0
  BY DEF IndexIn, SelectInSeq
<1> QED
  BY <1>1, <1>2, <1>3

LEMMA RemovedIs ==
  ASSUME NEW S, NEW s \in Seq(S), NEW j \in 1..Len(s)
  PROVE  /\ RemoveAt(s, j) \in Seq(S) /\ Len(RemoveAt(s, j)) = Len(s) - 1
         /\ \A i \in 1..Len(s) - 1 : RemoveAt(s, j)[i] = IF i < j THEN s[i] ELSE s[i + 1]
<1> DEFINE a == SubSeq(s, 1, j - 1)
           b == SubSeq(s, j + 1, Len(s))
<1>1. Len(s) \in Nat /\ j \in Nat /\ j - 1 \in 0..Len(s) /\ j <= Len(s)
  OBVIOUS
<1>2. a \in Seq(S) /\ Len(a) = j - 1 /\ \A i \in 1..j - 1 : a[i] = s[i]
  BY <1>1, FirstPart
<1>3. b \in Seq(S) /\ Len(b) = Len(s) - j /\ \A i \in 1..Len(s) - j : b[i] = s[j + i]
  BY <1>1, Between
<1> HIDE DEF a, b
<1>4. /\ a \o b \in Seq(S) /\ Len(a \o b) = Len(a) + Len(b)
      /\ \A i \in 1..Len(a) : (a \o b)[i] = a[i]
      /\ \A i \in 1..Len(b) : (a \o b)[Len(a) + i] = b[i]
  <2>1. a \in Seq(S) /\ b \in Seq(S)
    BY <1>2, <1>3
  <2> QED
    BY <2>1, ConcatIs
<1>5. ASSUME NEW i \in 1..Len(s) - 1
      PROVE  (a \o b)[i] = IF i < j THEN s[i] ELSE s[i + 1]
  <2>1. CASE i < j
    BY <1>1, <1>2, <1>4, <2>1
  <2>2. CASE ~(i < j)
    <3>1. i - (j - 1) \in 1..Len(s) - j /\ (j - 1) + (i - (j - 1)) = i /\ j + (i - (j - 1)) = i + 1
      BY <1>1, <2>2
    <3>2. (a \o b)[i] = b[i - (j - 1)]
      BY <1>2, <1>3, <1>4, <3>1
    <3> QED
      BY <1>3, <2>2, <3>1, <3>2
  <2> QED
    BY <2>1, <2>2
<1>6. Len(a \o b) = Len(s) - 1
  BY <1>1, <1>2, <1>3, <1>4
<1>7. RemoveAt(s, j) = a \o b
  BY DEF RemoveAt, a, b
<1> QED
  BY <1>4, <1>5, <1>6, <1>7

-----------------------------------------------------------------------------
(* Lists that agree still do when the same is done to both.                  *)
LEMMA AddedBeside ==
  ASSUME NEW D, NEW A, Beside(D, A), NEW t, IsDef(t)
  PROVE  Beside(Append(D, t), Append(A, t))
<1>1. /\ D \in Seq(Definition) /\ A \in Seq(Definition) /\ Len(D) = Len(A) /\ t \in Definition
      /\ Len(A) \in Nat
  BY DEF Beside, IsDef
<1>2. Agrees(t, t)
  BY DEF Agrees
<1> DEFINE U == Append(D, t)
           B == Append(A, t)
<1>3. /\ U \in Seq(Definition) /\ B \in Seq(Definition) /\ Len(U) = Len(A) + 1 /\ Len(B) = Len(A) + 1
      /\ \A i \in 1..Len(A) : U[i] = D[i] /\ B[i] = A[i]
      /\ U[Len(A) + 1] = t /\ B[Len(A) + 1] = t
  BY <1>1
<1> HIDE DEF U, B
<1>4. ASSUME NEW i \in 1..Len(B)
      PROVE  IsDef(U[i]) /\ IsDef(B[i]) /\ Agrees(U[i], B[i])
  <2>1. CASE i \in 1..Len(A)
    BY <1>3, <2>1 DEF Beside
  <2>2. CASE i = Len(A) + 1
    BY <1>2, <1>3, <2>2
  <2> QED
    BY <1>1, <1>3, <2>1, <2>2
<1> QED
  BY <1>3, <1>4 DEF Beside, U, B

LEMMA ChangedBeside ==
  ASSUME NEW D, NEW A, Beside(D, A), NEW j \in 1..Len(A),
         NEW d, NEW t, IsDef(d), IsDef(t), Agrees(d, t)
  PROVE  Beside([D EXCEPT ![j] = d], [A EXCEPT ![j] = t])
<1>1. /\ D \in Seq(Definition) /\ A \in Seq(Definition) /\ Len(D) = Len(A)
      /\ t \in Definition /\ d \in Definition /\ Len(A) \in Nat
  BY DEF Beside, IsDef
<1> DEFINE U == [D EXCEPT ![j] = d]
           B == [A EXCEPT ![j] = t]
<1>2. /\ U \in Seq(Definition) /\ B \in Seq(Definition) /\ Len(U) = Len(A) /\ Len(B) = Len(A)
      /\ \A i \in 1..Len(A) : /\ U[i] = IF i = j THEN d ELSE D[i]
                              /\ B[i] = IF i = j THEN t ELSE A[i]
  BY <1>1
<1> HIDE DEF U, B
<1>3. ASSUME NEW i \in 1..Len(B)
      PROVE  IsDef(U[i]) /\ IsDef(B[i]) /\ Agrees(U[i], B[i])
  <2>1. CASE i = j
    BY <1>2, <2>1
  <2>2. CASE i # j
    BY <1>2, <2>2 DEF Beside
  <2> QED
    BY <2>1, <2>2
<1> QED
  BY <1>2, <1>3 DEF Beside, U, B

LEMMA RemovedBeside ==
  ASSUME NEW D, NEW A, Beside(D, A), NEW j \in 1..Len(A)
  PROVE  Beside(RemoveAt(D, j), RemoveAt(A, j))
<1>1. /\ D \in Seq(Definition) /\ A \in Seq(Definition) /\ Len(D) = Len(A) /\ Len(A) \in Nat
  BY DEF Beside
<1> DEFINE U == RemoveAt(D, j)
           B == RemoveAt(A, j)
<1>2. /\ U \in Seq(Definition) /\ Len(U) = Len(A) - 1
      /\ \A i \in 1..Len(A) - 1 : U[i] = IF i < j THEN D[i] ELSE D[i + 1]
  BY <1>1, RemovedIs
<1>3. /\ B \in Seq(Definition) /\ Len(B) = Len(A) - 1
      /\ \A i \in 1..Len(A) - 1 : B[i] = IF i < j THEN A[i] ELSE A[i + 1]
  BY <1>1, RemovedIs
<1> HIDE DEF U, B
<1>4. ASSUME NEW i \in 1..Len(B)
      PROVE  IsDef(U[i]) /\ IsDef(B[i]) /\ Agrees(U[i], B[i])
  <2>1. i \in 1..Len(A) /\ i + 1 \in 1..Len(A) /\ i \in 1..Len(A) - 1
    BY <1>1, <1>3
  <2>2. CASE i < j
    BY <1>2, <1>3, <2>1, <2>2 DEF Beside
  <2>3. CASE ~(i < j)
    BY <1>2, <1>3, <2>1, <2>3 DEF Beside
  <2> QED
    BY <2>2, <2>3
<1> QED
  BY <1>2, <1>3, <1>4 DEF Beside, U, B

LEMMA AddedIndex ==
  ASSUME NEW d, IsDef(d), NEW ix \in [name : Name, col : Nat], ix.col \in 1..Len(d.cols)
  PROVE  LET e == [d EXCEPT !.ixs = Append(@, ix)]
         IN  /\ IsDef(e) /\ e.name = d.name /\ e.cols = d.cols /\ e.pk = d.pk /\ e.fks = d.fks
             /\ e.ixs = Append(d.ixs, ix)
<1> DEFINE u == Append(d.ixs, ix)
           e == [d EXCEPT !.ixs = Append(@, ix)]
<1>1. /\ d \in Definition /\ d.ixs \in Seq([name : Name, col : Nat]) /\ Len(d.ixs) \in Nat
      /\ \A x \in 1..Len(d.ixs) : d.ixs[x].col \in 1..Len(d.cols)
  BY DefParts DEF IsDef
<1>2. /\ u \in Seq([name : Name, col : Nat]) /\ Len(u) = Len(d.ixs) + 1
      /\ \A x \in 1..Len(d.ixs) : u[x] = d.ixs[x]
      /\ u[Len(d.ixs) + 1] = ix
  BY <1>1
<1> HIDE DEF u
<1>3. /\ e \in Definition /\ e.name = d.name /\ e.cols = d.cols /\ e.pk = d.pk /\ e.fks = d.fks
      /\ e.ixs = u
  BY <1>1, <1>2 DEF Definition, u
<1> HIDE DEF e
<1>4. ASSUME NEW x \in 1..Len(u)
      PROVE  u[x].col \in 1..Len(d.cols)
  <2>1. CASE x \in 1..Len(d.ixs)
    BY <1>1, <1>2, <2>1
  <2>2. CASE x = Len(d.ixs) + 1
    BY <1>2, <2>2
  <2> QED
    BY <1>1, <1>2, <2>1, <2>2
<1>5. IsDef(e)
  BY <1>3, <1>4 DEF IsDef
<1> QED
  BY <1>3, <1>5 DEF e, u

LEMMA RemovedIndex ==
  ASSUME NEW d, IsDef(d), NEW y \in 1..Len(d.ixs)
  PROVE  LET e == [d EXCEPT !.ixs = RemoveAt(@, y)]
         IN  /\ IsDef(e) /\ e.name = d.name /\ e.cols = d.cols /\ e.pk = d.pk /\ e.fks = d.fks
             /\ e.ixs = RemoveAt(d.ixs, y)
<1> DEFINE u == RemoveAt(d.ixs, y)
           e == [d EXCEPT !.ixs = RemoveAt(@, y)]
<1>1. /\ d \in Definition /\ d.ixs \in Seq([name : Name, col : Nat]) /\ Len(d.ixs) \in Nat
      /\ \A x \in 1..Len(d.ixs) : d.ixs[x].col \in 1..Len(d.cols)
  BY DefParts DEF IsDef
<1>2. /\ u \in Seq([name : Name, col : Nat]) /\ Len(u) = Len(d.ixs) - 1
      /\ \A x \in 1..Len(d.ixs) - 1 : u[x] = IF x < y THEN d.ixs[x] ELSE d.ixs[x + 1]
  BY <1>1, RemovedIs
<1> HIDE DEF u
<1>3. /\ e \in Definition /\ e.name = d.name /\ e.cols = d.cols /\ e.pk = d.pk /\ e.fks = d.fks
      /\ e.ixs = u
  BY <1>1, <1>2 DEF Definition, u
<1> HIDE DEF e
<1>4. ASSUME NEW x \in 1..Len(u)
      PROVE  u[x].col \in 1..Len(d.cols)
  <2>1. x \in 1..Len(d.ixs) /\ x + 1 \in 1..Len(d.ixs) /\ x \in 1..Len(d.ixs) - 1
    BY <1>1, <1>2
  <2>2. CASE x < y
    BY <1>1, <1>2, <2>1, <2>2
  <2>3. CASE ~(x < y)
    BY <1>1, <1>2, <2>1, <2>3
  <2> QED
    BY <2>2, <2>3
<1>5. IsDef(e)
  BY <1>3, <1>4 DEF IsDef
<1> QED
  BY <1>3, <1>5 DEF e, u

LEMMA AgreesAdded ==
  ASSUME NEW d, NEW t, IsDef(d), IsDef(t), Agrees(d, t),
         NEW ix \in [name : Name, col : Nat], ix.col \in 1..Len(t.cols)
  PROVE  LET e == [d EXCEPT !.ixs = Append(@, ix)]
             v == [t EXCEPT !.ixs = Append(@, ix)]
         IN  IsDef(e) /\ IsDef(v) /\ Agrees(e, v)
<1> DEFINE e == [d EXCEPT !.ixs = Append(@, ix)]
           v == [t EXCEPT !.ixs = Append(@, ix)]
           n == Len(t.ixs)
<1>1. d.cols = t.cols /\ Len(d.ixs) = n /\ n \in Nat
  BY DefParts DEF Agrees
<1>2. /\ IsDef(e) /\ e.name = d.name /\ e.cols = d.cols /\ e.pk = d.pk /\ e.fks = d.fks
      /\ e.ixs = Append(d.ixs, ix)
  BY <1>1, AddedIndex
<1>3. /\ IsDef(v) /\ v.name = t.name /\ v.cols = t.cols /\ v.pk = t.pk /\ v.fks = t.fks
      /\ v.ixs = Append(t.ixs, ix)
  BY AddedIndex
<1>4. d.ixs \in Seq([name : Name, col : Nat]) /\ t.ixs \in Seq([name : Name, col : Nat])
  BY DefParts
<1> HIDE DEF e, v
<1>5. /\ Len(e.ixs) = n + 1 /\ \A x \in 1..n : e.ixs[x] = d.ixs[x]
      /\ e.ixs[n + 1] = ix
  BY <1>1, <1>2, <1>4
<1>6. /\ Len(v.ixs) = n + 1 /\ \A x \in 1..n : v.ixs[x] = t.ixs[x]
      /\ v.ixs[n + 1] = ix
  BY <1>1, <1>3, <1>4
<1> HIDE DEF n
<1>7. ASSUME NEW x \in 1..n + 1
      PROVE  /\ e.ixs[x].name = v.ixs[x].name
             /\ IsInjective(t.cols) /\ IxFits(v, x) => e.ixs[x].col = v.ixs[x].col
  <2>1. CASE x \in 1..n
    <3>1. IxFits(v, x) <=> IxFits(t, x)
      BY <1>3, <1>6, <2>1 DEF IxFits
    <3>2. /\ d.ixs[x].name = t.ixs[x].name
          /\ IsInjective(t.cols) /\ IxFits(t, x) => d.ixs[x].col = t.ixs[x].col
      BY <2>1 DEF Agrees, n
    <3> QED
      BY <1>5, <1>6, <2>1, <3>1, <3>2
  <2>2. CASE x = n + 1
    BY <1>5, <1>6, <2>2
  <2> QED
    BY <1>1, <2>1, <2>2
<1>8. \A f : FkFits(v, f) <=> FkFits(t, f)
  BY <1>3 DEF FkFits
<1>9. Agrees(e, v)
  <2>1. /\ e.name = v.name /\ e.cols = v.cols /\ Len(e.ixs) = Len(v.ixs) /\ Len(e.fks) = Len(v.fks)
        /\ \A x \in 1..Len(v.ixs) : e.ixs[x].name = v.ixs[x].name
        /\ \A f \in 1..Len(v.fks) : e.fks[f].table = v.fks[f].table
    BY <1>1, <1>2, <1>3, <1>5, <1>6, <1>7 DEF Agrees
  <2>2. ASSUME IsInjective(v.cols)
        PROVE  /\ e.pk = v.pk
               /\ \A x \in 1..Len(v.ixs) : IxFits(v, x) => e.ixs[x].col = v.ixs[x].col
               /\ \A f \in 1..Len(v.fks) :
                    FkFits(v, f) => e.fks[f].col = v.fks[f].col /\ e.fks[f].ref = v.fks[f].ref
    BY <1>2, <1>3, <1>6, <1>7, <1>8, <2>2 DEF Agrees
  <2> QED
    BY <2>1, <2>2 DEF Agrees
<1> QED
  BY <1>2, <1>3, <1>9 DEF e, v

LEMMA AgreesRemoved ==
  ASSUME NEW d, NEW t, IsDef(d), IsDef(t), Agrees(d, t), NEW y \in 1..Len(t.ixs)
  PROVE  LET e == [d EXCEPT !.ixs = RemoveAt(@, y)]
             v == [t EXCEPT !.ixs = RemoveAt(@, y)]
         IN  IsDef(e) /\ IsDef(v) /\ Agrees(e, v)
<1> DEFINE e == [d EXCEPT !.ixs = RemoveAt(@, y)]
           v == [t EXCEPT !.ixs = RemoveAt(@, y)]
           n == Len(t.ixs)
<1>1. d.cols = t.cols /\ Len(d.ixs) = n /\ n \in Nat /\ y \in 1..n
  BY DefParts DEF Agrees
<1>2. /\ IsDef(e) /\ e.name = d.name /\ e.cols = d.cols /\ e.pk = d.pk /\ e.fks = d.fks
      /\ e.ixs = RemoveAt(d.ixs, y)
  BY <1>1, RemovedIndex
<1>3. /\ IsDef(v) /\ v.name = t.name /\ v.cols = t.cols /\ v.pk = t.pk /\ v.fks = t.fks
      /\ v.ixs = RemoveAt(t.ixs, y)
  BY RemovedIndex
<1>4. d.ixs \in Seq([name : Name, col : Nat]) /\ t.ixs \in Seq([name : Name, col : Nat])
  BY DefParts
<1> HIDE DEF e, v
<1>5. Len(e.ixs) = n - 1 /\ \A x \in 1..n - 1 : e.ixs[x] = IF x < y THEN d.ixs[x] ELSE d.ixs[x + 1]
  <2> DEFINE s == d.ixs
  <2>1. s \in Seq([name : Name, col : Nat]) /\ Len(s) = n /\ y \in 1..Len(s)
    BY <1>1, <1>4
  <2> HIDE DEF s
  <2>2. /\ Len(RemoveAt(s, y)) = Len(s) - 1
        /\ \A x \in 1..Len(s) - 1 : RemoveAt(s, y)[x] = IF x < y THEN s[x] ELSE s[x + 1]
    BY <2>1, RemovedIs
  <2> QED
    BY <1>2, <2>1, <2>2 DEF s
<1>6. Len(v.ixs) = n - 1 /\ \A x \in 1..n - 1 : v.ixs[x] = IF x < y THEN t.ixs[x] ELSE t.ixs[x + 1]
  BY <1>1, <1>3, <1>4, RemovedIs
<1> HIDE DEF n
<1>7. ASSUME NEW x \in 1..n - 1
      PROVE  /\ e.ixs[x].name = v.ixs[x].name
             /\ IsInjective(t.cols) /\ IxFits(v, x) => e.ixs[x].col = v.ixs[x].col
  <2> DEFINE z == IF x < y THEN x ELSE x + 1
  <2>1. z \in 1..n
    BY <1>1
  <2>2. e.ixs[x] = d.ixs[z] /\ v.ixs[x] = t.ixs[z]
    BY <1>5, <1>6
  <2> HIDE DEF z
  <2>3. IxFits(v, x) <=> IxFits(t, z)
    BY <1>3, <2>2 DEF IxFits
  <2>4. /\ d.ixs[z].name = t.ixs[z].name
        /\ IsInjective(t.cols) /\ IxFits(t, z) => d.ixs[z].col = t.ixs[z].col
    BY <2>1 DEF Agrees, n
  <2> QED
    BY <2>2, <2>3, <2>4
<1>8. \A f : FkFits(v, f) <=> FkFits(t, f)
  BY <1>3 DEF FkFits
<1>9. Agrees(e, v)
  <2>1. /\ e.name = v.name /\ e.cols = v.cols /\ Len(e.ixs) = Len(v.ixs) /\ Len(e.fks) = Len(v.fks)
        /\ \A x \in 1..Len(v.ixs) : e.ixs[x].name = v.ixs[x].name
        /\ \A f \in 1..Len(v.fks) : e.fks[f].table = v.fks[f].table
    BY <1>1, <1>2, <1>3, <1>5, <1>6, <1>7 DEF Agrees
  <2>2. ASSUME IsInjective(v.cols)
        PROVE  /\ e.pk = v.pk
               /\ \A x \in 1..Len(v.ixs) : IxFits(v, x) => e.ixs[x].col = v.ixs[x].col
               /\ \A f \in 1..Len(v.fks) :
                    FkFits(v, f) => e.fks[f].col = v.fks[f].col /\ e.fks[f].ref = v.fks[f].ref
    BY <1>2, <1>3, <1>6, <1>7, <1>8, <2>2 DEF Agrees
  <2> QED
    BY <2>1, <2>2 DEF Agrees
<1> QED
  BY <1>2, <1>3, <1>9 DEF e, v
-----------------------------------------------------------------------------
(* Each statement keeps CodecInv.                                            *)
LEMMA InitInv == Init => CodecInv
<1> SUFFICES ASSUME Init PROVE CodecInv
  OBVIOUS
<1>1. catalog = << >> /\ asked = << >>
  BY DEF Init
<1>2. asked \in Seq(Definition) /\ Len(catalog) = 0 /\ Len(asked) = 0
  BY <1>1
<1> QED
  BY <1>2 DEF CodecInv

LEMMA BesideIs ==
  ASSUME NEW D, NEW A, Beside(D, A)
  PROVE  /\ Len(D) = Len(A) /\ Len(A) \in Nat
         /\ \A j \in 1..Len(A) : IsDef(D[j]) /\ IsDef(A[j]) /\ Agrees(D[j], A[j])
BY DEF Beside

LEMMA CreateIndexKeeps ==
  ASSUME CodecInv, NEW x \in IndexNames, NEW name, NEW col, CreateIndex(x, name, col)
  PROVE  CodecInv'
<1> DEFINE D == Tables
           j == Find(name)
           ix == [name |-> x, col |-> Position(D[j].cols, col)]
           d == [D[j] EXCEPT !.ixs = Append(@, ix)]
           t == [asked[j] EXCEPT !.ixs = Append(@, ix)]
<1>1. Loads /\ j > 0 /\ ix.col > 0
  BY Zenon DEF CreateIndex
<1>2. Beside(D, asked)
  BY <1>1, Reads
<1>3. Len(D) = Len(asked) /\ Len(asked) \in Nat
  BY <1>2, BesideIs
<1>4. j \in 1..Len(asked)
  BY <1>1, <1>3, FindIs
<1>5. IsDef(D[j]) /\ IsDef(asked[j]) /\ Agrees(D[j], asked[j])
  BY <1>2, <1>4, BesideIs
<1>6. x \in Name
  BY NamesAre
<1>7. ix \in [name : Name, col : Nat] /\ ix.col \in 1..Len(asked[j].cols)
  <2>1. D[j].cols = asked[j].cols /\ Len(D[j].cols) \in Nat
    BY <1>5, DefParts DEF Agrees
  <2>2. Position(D[j].cols, col) \in 0..Len(D[j].cols)
    BY <2>1, PositionIs
  <2> QED
    BY <1>1, <1>6, <2>1, <2>2
<1>8. /\ Save([D EXCEPT ![j].ixs = Append(@, ix)])
      /\ asked' = [asked EXCEPT ![j].ixs = Append(@, ix)]
  BY Zenon DEF CreateIndex
<1> HIDE DEF D, ix, j
<1>9. IsDef(d) /\ IsDef(t) /\ Agrees(d, t)
  BY <1>5, <1>7, AgreesAdded
<1>10. Save([D EXCEPT ![j] = d]) /\ asked' = [asked EXCEPT ![j] = t]
  BY <1>8
<1> HIDE DEF d, t
<1>11. Beside([D EXCEPT ![j] = d], asked')
  BY <1>2, <1>4, <1>9, <1>10, ChangedBeside
<1> QED
  BY <1>10, <1>11, Saves

LEMMA DropIndexKeeps ==
  ASSUME CodecInv, NEW x, DropIndex(x)
  PROVE  CodecInv'
<1> DEFINE D == Tables
           j == Owner(x)
           y == IndexIn(D[j], x)
           d == [D[j] EXCEPT !.ixs = RemoveAt(@, y)]
           t == [asked[j] EXCEPT !.ixs = RemoveAt(@, y)]
<1>1. /\ Loads /\ j > 0
      /\ Save([D EXCEPT ![j].ixs = RemoveAt(@, y)])
      /\ asked' = [asked EXCEPT ![j].ixs = RemoveAt(@, y)]
  BY Zenon DEF DropIndex, Owner, IndexIn
<1>2. Beside(D, asked)
  BY <1>1, Reads
<1>3. Len(D) = Len(asked) /\ Len(asked) \in Nat
  BY <1>2, BesideIs
<1>4. j \in 1..Len(asked) /\ \E i \in 1..Len(D[j].ixs) : D[j].ixs[i].name = x
  BY <1>1, <1>3, OwnerIs
<1>5. IsDef(D[j]) /\ IsDef(asked[j]) /\ Agrees(D[j], asked[j])
  BY <1>2, <1>4, BesideIs
<1>6. y \in 1..Len(asked[j].ixs)
  <2>1. Len(D[j].ixs) = Len(asked[j].ixs) /\ Len(D[j].ixs) \in Nat
    BY <1>5, DefParts DEF Agrees
  <2> HIDE DEF D, j
  <2> QED
    BY <1>4, <2>1, IndexInIs
<1> HIDE DEF D, j, y
<1>7. IsDef(d) /\ IsDef(t) /\ Agrees(d, t)
  BY <1>5, <1>6, AgreesRemoved
<1>8. Save([D EXCEPT ![j] = d]) /\ asked' = [asked EXCEPT ![j] = t]
  BY <1>1
<1> HIDE DEF d, t
<1>9. Beside([D EXCEPT ![j] = d], asked')
  BY <1>2, <1>4, <1>7, <1>8, ChangedBeside
<1> QED
  BY <1>8, <1>9, Saves

LEMMA DropTableKeeps ==
  ASSUME CodecInv, NEW name, DropTable(name)
  PROVE  CodecInv'
<1> DEFINE D == Tables
           j == Find(name)
<1>1. Loads /\ j > 0 /\ Save(RemoveAt(D, j)) /\ asked' = RemoveAt(asked, j)
  BY Zenon DEF DropTable
<1>2. Beside(D, asked)
  BY <1>1, Reads
<1>3. Len(D) = Len(asked) /\ Len(asked) \in Nat
  BY <1>2, BesideIs
<1>4. j \in 1..Len(asked)
  BY <1>1, <1>3, FindIs
<1> HIDE DEF D, j
<1>5. Beside(RemoveAt(D, j), asked')
  BY <1>1, <1>2, <1>4, RemovedBeside
<1> QED
  BY <1>1, <1>5, Saves

LEMMA RefuseKeeps == ASSUME CodecInv, UNCHANGED vars PROVE CodecInv'
<1>1. catalog' = catalog /\ asked' = asked
  BY DEF vars
<1> QED
  BY <1>1 DEF CodecInv

(* The definition a CREATE TABLE statement asks for. *)
LEMMA Greatest ==
  ASSUME NEW n \in Nat, NEW S \in SUBSET (1..n), S # {}
  PROVE  Max(S) \in S
<1> DEFINE R == {n - k : k \in S}
<1>1. R \in SUBSET Nat /\ R # {}
  <2>1. PICK l \in S : TRUE
    OBVIOUS
  <2>2. n - l \in R
    OBVIOUS
  <2>3. \A i \in 1..n : n - i \in Nat
    OBVIOUS
  <2>4. \A x \in R : x \in Nat
    BY <2>3
  <2> QED
    BY <2>2, <2>4
<1>2. PICK m \in R : \A x \in R : m <= x
  BY <1>1, Least
<1>3. PICK k \in S : m = n - k
  BY <1>2
<1>4. \A l \in S : k >= l
  <2> SUFFICES ASSUME NEW l \in S PROVE k >= l
    OBVIOUS
  <2>1. m <= n - l
    BY <1>2
  <2>2. k \in Int /\ l \in Int
    OBVIOUS
  <2> QED
    BY <1>3, <2>1, <2>2
<1> QED
  BY <1>4 DEF Max

LEMMA ColumnListsAre ==
  ASSUME NEW cols \in ColumnLists
  PROVE  cols \in Seq(Name) /\ Len(cols) \in Nat /\ Range(cols) \subseteq Name
         /\ \A c \in Range(cols) : Position(cols, c) \in 1..Len(cols)
<1>1. PICK n \in 1..MaxCols : cols \in [1..n -> ColumnNames]
  BY DEF ColumnLists
<1>2. n \in Nat /\ \A k \in 1..n : cols[k] \in Name
  BY <1>1, LimitsAre, NamesAre
<1>3. cols = [k \in 1..n |-> cols[k]]
  BY <1>1
<1>4. cols \in Seq(Name) /\ Len(cols) = n
  BY <1>2, <1>3, ListOf
<1>5. \A c \in Range(cols) : \E i \in 1..Len(cols) : c = cols[i]
  BY <1>1, <1>4 DEF Range
<1>6. \A i \in 1..Len(cols) : Position(cols, cols[i]) \in 1..Len(cols)
  BY <1>4, ColumnAt
<1> QED
  BY <1>2, <1>4, <1>5, <1>6

LEMMA PkIs ==
  ASSUME NEW cols \in ColumnLists, NEW pk \in Pks(cols)
  PROVE  pk \in 0..Len(cols)
<1>1. Len(cols) \in Nat /\ \A c \in Range(cols) : Position(cols, c) \in 1..Len(cols)
  BY ColumnListsAre
<1>2. \A i \in 1..Len(cols) : InlinePk(cols, i) \in 1..Len(cols)
  <2> SUFFICES ASSUME NEW i \in 1..Len(cols) PROVE InlinePk(cols, i) \in 1..Len(cols)
    OBVIOUS
  <2> DEFINE S == {j \in i..Len(cols) : cols[j] = cols[i]}
  <2>1. S \in SUBSET (1..Len(cols)) /\ i \in S
    BY <1>1
  <2> HIDE DEF S
  <2>2. Max(S) \in S
    BY <1>1, <2>1, Greatest
  <2> QED
    BY <2>1, <2>2 DEF InlinePk, S
<1> QED
  BY <1>1, <1>2 DEF Pks

LEMMA FksAre ==
  ASSUME NEW cols \in ColumnLists, NEW fks \in Fks(cols)
  PROVE  /\ fks \in Seq([col : Nat, table : Name, ref : Name])
         /\ \A f \in 1..Len(fks) : fks[f].col \in 1..Len(cols)
<1>1. Len(cols) \in Nat /\ \A c \in Range(cols) : Position(cols, c) \in 1..Len(cols)
  BY ColumnListsAre
<1>2. CASE fks = << >>
  BY <1>2
<1>3. ASSUME NEW c \in Range(cols), NEW t \in TableNames, NEW r \in ColumnNames,
             fks = <<[col |-> Position(cols, c), table |-> t, ref |-> r]>>
      PROVE  /\ fks \in Seq([col : Nat, table : Name, ref : Name])
             /\ \A f \in 1..Len(fks) : fks[f].col \in 1..Len(cols)
  <2> DEFINE e == [col |-> Position(cols, c), table |-> t, ref |-> r]
  <2>1. e \in [col : Nat, table : Name, ref : Name] /\ e.col \in 1..Len(cols)
    BY <1>1, NamesAre
  <2>2. fks = <<e>>
    BY <1>3
  <2> HIDE DEF e
  <2> QED
    BY <2>1, <2>2
<1>4. \/ fks = << >>
      \/ \E c \in Range(cols), t \in TableNames, r \in ColumnNames :
           fks = <<[col |-> Position(cols, c), table |-> t, ref |-> r]>>
  BY DEF Fks
<1> QED
  BY <1>2, <1>3, <1>4

LEMMA CreateTableKeeps ==
  ASSUME CodecInv, NEW name \in TableNames, NEW cols \in ColumnLists, NEW pk \in Pks(cols),
         NEW fks \in Fks(cols), CreateTable(name, cols, pk, fks)
  PROVE  CodecInv'
<1> DEFINE t == [name |-> name, cols |-> cols, pk |-> pk, ixs |-> << >>, fks |-> fks]
           D == Tables
<1>1. Loads /\ Save(Append(D, t)) /\ asked' = Append(asked, t)
  BY Zenon DEF CreateTable
<1>2. Beside(D, asked)
  BY <1>1, Reads
<1>3. IsDef(t)
  <2>1. /\ name \in Name /\ cols \in Seq(Name) /\ pk \in Nat /\ pk <= Len(cols)
        /\ fks \in Seq([col : Nat, table : Name, ref : Name])
        /\ \A f \in 1..Len(fks) : fks[f].col \in 1..Len(cols)
    <3>1. cols \in Seq(Name) /\ Len(cols) \in Nat
      BY ColumnListsAre
    <3>2. pk \in 0..Len(cols)
      BY PkIs
    <3> QED
      <4>1. name \in Name
        BY NamesAre
      <4>2. /\ fks \in Seq([col : Nat, table : Name, ref : Name])
            /\ \A f \in 1..Len(fks) : fks[f].col \in 1..Len(cols)
        BY FksAre
      <4>3. pk \in Nat /\ pk <= Len(cols)
        BY <3>1, <3>2
      <4> QED
        BY <3>1, <4>1, <4>2, <4>3
  <2>2. << >> \in Seq([name : Name, col : Nat]) /\ Len(<< >>) = 0
    OBVIOUS
  <2>3. t \in Definition
    BY <2>1, <2>2 DEF Definition
  <2>4. t.cols = cols /\ t.pk = pk /\ t.ixs = << >> /\ t.fks = fks
    OBVIOUS
  <2> HIDE DEF t
  <2> QED
    BY <2>1, <2>2, <2>3, <2>4 DEF IsDef
<1> HIDE DEF t, D
<1>4. Beside(Append(D, t), asked')
  BY <1>1, <1>2, <1>3, AddedBeside
<1> QED
  BY <1>1, <1>4, Saves

LEMMA NextKeeps == CodecInv /\ [Next]_vars => CodecInv'
<1> SUFFICES ASSUME CodecInv, [Next]_vars PROVE CodecInv'
  OBVIOUS
<1>1. ASSUME NEW name \in TableNames, NEW cols \in ColumnLists, NEW pk \in Pks(cols),
             NEW fks \in Fks(cols), CreateTable(name, cols, pk, fks)
      PROVE  CodecInv'
  BY <1>1, CreateTableKeeps
<1>2. ASSUME NEW x \in IndexNames, NEW name \in TableNames, NEW col \in ColumnNames,
             CreateIndex(x, name, col)
      PROVE  CodecInv'
  BY <1>2, CreateIndexKeeps
<1>3. ASSUME NEW x \in IndexNames, DropIndex(x)
      PROVE  CodecInv'
  BY <1>3, DropIndexKeeps
<1>4. ASSUME NEW name \in TableNames, DropTable(name)
      PROVE  CodecInv'
  BY <1>4, DropTableKeeps
<1>5. CASE Refuse
  BY <1>5, RefuseKeeps DEF Refuse
<1>6. CASE UNCHANGED vars
  BY <1>6, RefuseKeeps
<1> QED
  BY <1>1, <1>2, <1>3, <1>4, <1>5, <1>6, Zenon DEF Next

(* A definition that fits is read back whole. *)
LEMMA KeptWhole ==
  ASSUME CodecInv, NEW j \in 1..Len(asked), Fits(asked[j])
  PROVE  Decodable(catalog[j]) /\ Decode(catalog[j]) = asked[j]
<1>1. PICK d : IsDef(asked[j]) /\ IsDef(d) /\ Agrees(d, asked[j]) /\ catalog[j] = Encode(d)
  BY DEF CodecInv
<1>2. d = asked[j]
  BY <1>1, AgreesWhole
<1> QED
  BY <1>1, <1>2, FitsDecodes

LEMMA InvKeeps == CodecInv => CatalogKeeps
<1> SUFFICES ASSUME CodecInv PROVE CatalogKeeps
  OBVIOUS
<1>1. \A j \in 1..Len(asked) :
        Fits(asked[j]) => Decodable(catalog[j]) /\ Decode(catalog[j]) = asked[j]
  BY KeptWhole
<1>2. Len(catalog) = Len(asked)
  BY DEF CodecInv
<1>3. ~Loads => \E j \in 1..Len(asked) : ~Fits(asked[j])
  BY <1>1, <1>2 DEF Loads
<1> QED
  BY <1>1, <1>3 DEF CatalogKeeps

(* Whatever DDL statements run, each decoding and rewriting the whole        *)
(* catalog (load_catalog, save_catalog), every table whose tokens fit is     *)
(* still defined as it was asked for, and the catalog can be read unless a   *)
(* definition was accepted that does not fit.                                *)
THEOREM CatalogCorrect == Spec => []CatalogKeeps
<1>1. Init => CodecInv
  BY InitInv
<1>2. CodecInv /\ [Next]_vars => CodecInv'
  BY NextKeeps
<1>3. CodecInv => CatalogKeeps
  BY InvKeeps
<1> QED
  BY <1>1, <1>2, <1>3, PTL DEF Spec
=============================================================================
