---------------------------- MODULE EngineProofs ----------------------------
(***************************************************************************)
(* Proofs about Engine for all definitions, values and bounds, as long as  *)
(* no record operation fails: every store the engine leaves behind is the  *)
(* layout of a database, a list of tables and the rows of each, in which   *)
(* keys and references hold.                                               *)
(***************************************************************************)
EXTENDS Engine, TLAPS, WellFoundedInduction, FiniteSetTheorems
-----------------------------------------------------------------------------
(* What the operators of Tables do to a store, for all tables and rows.    *)

(* A set of numbers has a least member.                                      *)
LEMMA LessThanOnNat == \A x, y \in Nat : <<x, y>> \in OpToRel(<, Nat) <=> x < y
BY Zenon DEF OpToRel

LEMMA LeastElement ==
  ASSUME NEW S \in SUBSET Nat, S # {}
  PROVE  Min(S) \in S /\ \A x \in S : Min(S) <= x
<1> DEFINE R == OpToRel(<, Nat)
<1>1. IsWellFoundedOn(R, Nat)
  BY NatLessThanWellFounded, Zenon
<1>2. \A x, y \in Nat : <<x, y>> \in R <=> x < y
  BY LessThanOnNat, Zenon
<1> HIDE DEF R
<1>3. \E x \in S : \A y \in S : ~(<<y, x>> \in R)
  BY <1>1, WFMin
<1>4. \A x, y \in Nat : ~(<<y, x>> \in R) <=> ~(y < x)
  BY <1>2
<1>5. \A x, y \in Nat : ~(y < x) => x <= y
  OBVIOUS
<1>6. \E x \in S : \A y \in S : x <= y
  BY <1>3, <1>4, <1>5, Zenon
<1>7. QED
  BY <1>6 DEF Min
-----------------------------------------------------------------------------
(* The parts of a record key; only these are used of them.                   *)
LEMMA KeyParts ==
  /\ \A n : CKey(n)[1] = "C" /\ CKey(n)[2] = n
  /\ \A t : TKey(t)[1] = "T" /\ TKey(t)[2] = t
  /\ \A t, n : RKey(t, n)[1] = "R" /\ RKey(t, n)[2] = t /\ RKey(t, n)[3] = n
  /\ \A t, x, v, n : /\ XKey(t, x, v, n)[1] = "X" /\ XKey(t, x, v, n)[2] = t
                     /\ XKey(t, x, v, n)[3] = x /\ XKey(t, x, v, n)[4] = v /\ XKey(t, x, v, n)[5] = n
BY DEF CKey, TKey, RKey, XKey
-----------------------------------------------------------------------------
(* A list of writes takes store s to store z: path lists the stores between.  *)
IsStore(s) == s = [k \in DOMAIN s |-> s[k]]
Leads(s, ops, z) ==
  /\ \E X : ops \in Seq(X)
  /\ \E path :
       /\ path[0] = s /\ path[Len(ops)] = z
       /\ \A j \in 1..Len(ops) : path[j] = Apply(path[j - 1], ops[j])

LEMMA LeadsNowhere ==
  ASSUME NEW s, NEW z
  PROVE  Leads(s, << >>, z) <=> z = s
<1>1. ASSUME z = s
      PROVE  Leads(s, << >>, z)
  <2> DEFINE path == [j \in {0} |-> s]
  <2>1. path[0] = s /\ path[Len(<< >>)] = z /\ Len(<< >>) = 0 /\ << >> \in Seq({})
    BY <1>1
  <2>2. \A j \in 1..Len(<< >>) : path[j] = Apply(path[j - 1], << >>[j])
    BY <2>1
  <2> QED
    BY <2>1, <2>2 DEF Leads
<1> QED
  BY <1>1 DEF Leads

LEMMA LeadsOn ==
  ASSUME NEW s, NEW ops, NEW z, ops # << >>, Leads(s, ops, z)
  PROVE  Leads(Apply(s, Head(ops)), Tail(ops), z)
<1>1. PICK X : ops \in Seq(X)
  BY DEF Leads
<1>2. Tail(ops) \in Seq(X) /\ Len(ops) > 0 /\ Len(Tail(ops)) = Len(ops) - 1 /\ Head(ops) = ops[1]
      /\ \A j \in 1..Len(ops) - 1 : Tail(ops)[j] = ops[j + 1]
  BY <1>1
<1>3. PICK path : /\ path[0] = s /\ path[Len(ops)] = z
                  /\ \A j \in 1..Len(ops) : path[j] = Apply(path[j - 1], ops[j])
  BY DEF Leads
<1> DEFINE rest == [j \in 0..Len(ops) - 1 |-> path[j + 1]]
<1>4. Len(ops) \in Nat
  BY <1>1
<1>5. rest[0] = Apply(s, Head(ops)) /\ rest[Len(Tail(ops))] = z
  BY <1>2, <1>3, <1>4
<1>6. ASSUME NEW j \in 1..Len(Tail(ops))
      PROVE  rest[j] = Apply(rest[j - 1], Tail(ops)[j])
  <2>1. j + 1 \in 1..Len(ops) /\ j \in 0..Len(ops) - 1 /\ j - 1 \in 0..Len(ops) - 1 /\ (j + 1) - 1 = j
        /\ (j - 1) + 1 = j
    BY <1>2, <1>4
  <2>2. path[j + 1] = Apply(path[j], ops[j + 1])
    BY <1>3, <2>1
  <2> QED
    BY <1>2, <2>1, <2>2
<1> QED
  BY <1>2, <1>5, <1>6 DEF Leads

LEMMA LeadsThrough ==
  ASSUME NEW s, NEW a, NEW m, NEW b, NEW z, Leads(s, a, m), Leads(m, b, z)
  PROVE  Leads(s, a \o b, z)
<1>1. PICK X : a \in Seq(X)
  BY DEF Leads
<1>2. PICK Y : b \in Seq(Y)
  BY DEF Leads
<1>3. a \in Seq(X \cup Y) /\ b \in Seq(X \cup Y)
  BY <1>1, <1>2
<1>4. /\ a \o b \in Seq(X \cup Y) /\ Len(a \o b) = Len(a) + Len(b)
      /\ Len(a) \in Nat /\ Len(b) \in Nat
      /\ \A j \in 1..Len(a) + Len(b) : (a \o b)[j] = IF j <= Len(a) THEN a[j] ELSE b[j - Len(a)]
  BY <1>3
<1>5. PICK p : /\ p[0] = s /\ p[Len(a)] = m
               /\ \A j \in 1..Len(a) : p[j] = Apply(p[j - 1], a[j])
  BY DEF Leads
<1>6. PICK q : /\ q[0] = m /\ q[Len(b)] = z
               /\ \A j \in 1..Len(b) : q[j] = Apply(q[j - 1], b[j])
  BY DEF Leads
<1> DEFINE path == [j \in 0..Len(a) + Len(b) |-> IF j <= Len(a) THEN p[j] ELSE q[j - Len(a)]]
<1>7. path[0] = s /\ path[Len(a \o b)] = z
  <2>1. path[0] = p[0]
    BY <1>4
  <2>2. path[Len(a) + Len(b)] = IF Len(b) = 0 THEN p[Len(a)] ELSE q[Len(b)]
    <3>1. Len(a) + Len(b) \in 0..Len(a) + Len(b) /\ (Len(a) + Len(b)) - Len(a) = Len(b)
          /\ (Len(a) + Len(b) <= Len(a) <=> Len(b) = 0)
      BY <1>4
    <3>2. Len(b) = 0 => Len(a) + Len(b) = Len(a)
      BY <1>4
    <3> QED
      BY <3>1, <3>2
  <2> HIDE DEF path
  <2> QED
    BY <1>4, <1>5, <1>6, <2>1, <2>2
<1>8. ASSUME NEW j \in 1..Len(a \o b)
      PROVE  path[j] = Apply(path[j - 1], (a \o b)[j])
  <2>1. CASE j <= Len(a)
    BY <1>4, <1>5, <2>1
  <2>2. CASE j = Len(a) + 1
    <3>1. path[j - 1] = q[0] /\ path[j] = q[1] /\ (a \o b)[j] = b[1] /\ 1 \in 1..Len(b)
      BY <1>4, <1>5, <1>6, <2>2
    <3> QED
      BY <1>6, <3>1
  <2>3. CASE j > Len(a) + 1
    <3>1. /\ path[j - 1] = q[(j - Len(a)) - 1] /\ path[j] = q[j - Len(a)]
          /\ (a \o b)[j] = b[j - Len(a)] /\ j - Len(a) \in 1..Len(b)
      BY <1>4, <2>3
    <3> QED
      BY <1>6, <3>1
  <2> QED
    BY <1>4, <2>1, <2>2, <2>3
<1> QED
  BY <1>4, <1>7, <1>8 DEF Leads
-----------------------------------------------------------------------------
(* What a block of deletes and a block of puts make of a store.              *)
Without(s, K) == [k \in DOMAIN s \ K |-> s[k]]
With(s, K, D) == [k \in DOMAIN s \cup K |-> IF k \in K THEN D[k] ELSE s[k]]

KeysIn(n, key) == {key[j] : j \in 1..n}
DeletesOf(n, key) == [j \in 1..n |-> Delete(key[j])]
PutsOf(n, key, data) == [j \in 1..n |-> Put(key[j], data[j])]

LEMMA DeletesLead ==
  ASSUME NEW s, IsStore(s), NEW n \in Nat, NEW key
  PROVE  Leads(s, DeletesOf(n, key), Without(s, KeysIn(n, key)))
<1> DEFINE ops == [j \in 1..n |-> Delete(key[j])]
           path == [m \in 0..n |-> Without(s, {key[j] : j \in 1..m})]
<1>1. ops \in Seq({Delete(key[j]) : j \in 1..n}) /\ Len(ops) = n
  OBVIOUS
<1>2. path[0] = s /\ path[Len(ops)] = Without(s, {key[j] : j \in 1..n})
  <2>1. {key[j] : j \in 1..0} = {}
    OBVIOUS
  <2>2. Without(s, {}) = s
    BY DEF Without, IsStore
  <2> QED
    BY <1>1, <2>1, <2>2
<1>3. ASSUME NEW m \in 1..Len(ops)
      PROVE  path[m] = Apply(path[m - 1], ops[m])
  <2>1. {key[j] : j \in 1..m} = {key[j] : j \in 1..m - 1} \cup {key[m]}
    BY <1>1
  <2>2. path[m] = Without(s, {key[j] : j \in 1..m}) /\ path[m - 1] = Without(s, {key[j] : j \in 1..m - 1})
        /\ ops[m] = Delete(key[m])
    BY <1>1
  <2> HIDE DEF path, ops
  <2>3. Apply(path[m - 1], ops[m]) = Without(path[m - 1], {key[m]})
    BY <2>2 DEF Apply, Delete, Restrict, Without
  <2> QED
    BY <2>1, <2>2, <2>3 DEF Without
<1> QED
  BY <1>1, <1>2, <1>3 DEF Leads, DeletesOf, KeysIn

LEMMA PutsLead ==
  ASSUME NEW s, IsStore(s), NEW n \in Nat, NEW key, NEW data, NEW D,
         \A j \in 1..n : D[key[j]] = data[j]
  PROVE  Leads(s, PutsOf(n, key, data), With(s, KeysIn(n, key), D))
<1> DEFINE ops == [j \in 1..n |-> Put(key[j], data[j])]
           path == [m \in 0..n |-> With(s, {key[j] : j \in 1..m}, D)]
<1>1. ops \in Seq({Put(key[j], data[j]) : j \in 1..n}) /\ Len(ops) = n
  OBVIOUS
<1>2. path[0] = s /\ path[Len(ops)] = With(s, {key[j] : j \in 1..n}, D)
  <2>1. {key[j] : j \in 1..0} = {}
    OBVIOUS
  <2>2. With(s, {}, D) = s
    BY DEF With, IsStore
  <2> QED
    BY <1>1, <2>1, <2>2
<1>3. ASSUME NEW m \in 1..Len(ops)
      PROVE  path[m] = Apply(path[m - 1], ops[m])
  <2>1. {key[j] : j \in 1..m} = {key[j] : j \in 1..m - 1} \cup {key[m]}
    BY <1>1
  <2>2. path[m] = With(s, {key[j] : j \in 1..m}, D) /\ path[m - 1] = With(s, {key[j] : j \in 1..m - 1}, D)
        /\ ops[m] = Put(key[m], data[m]) /\ D[key[m]] = data[m]
    BY <1>1
  <2> HIDE DEF path, ops
  <2>3. Apply(path[m - 1], ops[m]) = With(path[m - 1], {key[m]}, D)
    BY <2>2 DEF Apply, Put, With
  <2>4. With(With(s, {key[j] : j \in 1..m - 1}, D), {key[m]}, D)
          = With(s, {key[j] : j \in 1..m - 1} \cup {key[m]}, D)
    BY DEF With
  <2> QED
    BY <2>1, <2>2, <2>3, <2>4
<1> QED
  BY <1>1, <1>2, <1>3 DEF Leads, PutsOf, KeysIn

LEMMA DeleteLeads ==
  ASSUME NEW s, NEW k
  PROVE  Leads(s, << Delete(k) >>, Without(s, {k}))
<1> DEFINE ops == << Delete(k) >>
           path == [j \in 0..1 |-> IF j = 0 THEN s ELSE Without(s, {k})]
<1>1. ops \in Seq({Delete(k)}) /\ Len(ops) = 1 /\ ops[1] = Delete(k)
  OBVIOUS
<1>2. path[0] = s /\ path[1] = Without(s, {k})
  OBVIOUS
<1>3. Apply(s, Delete(k)) = Without(s, {k})
  BY DEF Apply, Delete, Restrict, Without
<1> HIDE DEF ops, path
<1>4. \A j \in 1..Len(ops) : path[j] = Apply(path[j - 1], ops[j])
  <2>1. \A j \in 1..Len(ops) : j = 1
    BY <1>1
  <2> QED
    BY <1>1, <1>2, <1>3, <2>1
<1>5. Leads(s, ops, Without(s, {k}))
  BY <1>1, <1>2, <1>4 DEF Leads
<1> QED
  BY <1>5 DEF ops

LEMMA StoresAgain ==
  ASSUME NEW s, NEW K, NEW D
  PROVE  IsStore(Without(s, K)) /\ IsStore(With(s, K, D))
BY DEF IsStore, Without, With

LEMMA WithMore ==
  ASSUME NEW s, NEW K, NEW L, NEW D
  PROVE  With(With(s, K, D), L, D) = With(s, K \cup L, D)
BY DEF With

(* Blocks one after the other.  store lists the stores between the blocks.   *)
Flat(B, k, g) == g = [i \in 1..k |-> IF i = 1 THEN B[i] ELSE g[i - 1] \o B[i]]

LEMMA FlatAt ==
  ASSUME NEW B, NEW k, NEW g, Flat(B, k, g), NEW i \in 1..k
  PROVE  g[i] = IF i = 1 THEN B[i] ELSE g[i - 1] \o B[i]
BY Zenon DEF Flat

LEMMA FlatExists ==
  ASSUME NEW B, NEW n \in Nat
  PROVE  \A k \in 1..n : \E g : Flat(B, k, g)
<1> DEFINE Bad == {k \in 1..n : ~\E g : Flat(B, k, g)}
<1> SUFFICES ASSUME Bad # {}
             PROVE  FALSE
  OBVIOUS
<1>1. PICK k \in Bad : \A x \in Bad : k <= x
  <2>1. Bad \in SUBSET Nat
    OBVIOUS
  <2> HIDE DEF Bad
  <2> QED
    BY <2>1, LeastElement
<1>2. CASE k = 1
  <2> DEFINE g == [i \in 1..1 |-> B[i]]
  <2>1. Flat(B, 1, g)
    BY DEF Flat
  <2> QED
    BY <1>2, <2>1
<1>3. CASE k > 1
  <2>1. k - 1 \in 1..n /\ k - 1 \notin Bad
    BY <1>1, <1>3
  <2>2. PICK h : Flat(B, k - 1, h)
    BY <2>1
  <2> DEFINE g == [i \in 1..k |-> IF i < k THEN h[i] ELSE h[k - 1] \o B[k]]
  <2>3. ASSUME NEW i \in 1..k
        PROVE  g[i] = IF i = 1 THEN B[i] ELSE g[i - 1] \o B[i]
    <3>1. CASE i < k
      <4>1. h[i] = IF i = 1 THEN B[i] ELSE h[i - 1] \o B[i]
        BY <1>3, <2>1, <2>2, <3>1, FlatAt
      <4> QED
        BY <2>1, <3>1, <4>1
    <3>2. CASE i = k
      BY <1>3, <2>1, <3>2
    <3> QED
      BY <2>1, <3>1, <3>2
  <2>4. Flat(B, k, g)
    BY <2>3 DEF Flat
  <2> QED
    BY <2>4
<1> QED
  BY <1>2, <1>3

LEMMA FlatLeads ==
  ASSUME NEW B, NEW n \in Nat, NEW f, Flat(B, n, f), NEW store,
         \A j \in 1..n : Leads(store[j - 1], B[j], store[j])
  PROVE  \A k \in 1..n : Leads(store[0], f[k], store[k])
<1> DEFINE Bad == {k \in 1..n : ~Leads(store[0], f[k], store[k])}
<1> SUFFICES ASSUME Bad # {}
             PROVE  FALSE
  OBVIOUS
<1>1. PICK k \in Bad : \A x \in Bad : k <= x
  <2>1. Bad \in SUBSET Nat
    OBVIOUS
  <2> HIDE DEF Bad
  <2> QED
    BY <2>1, LeastElement
<1>2. k \in 1..n /\ ~Leads(store[0], f[k], store[k])
      /\ \A x \in 1..n : x < k => Leads(store[0], f[x], store[x])
  BY <1>1
<1> HIDE DEF Bad
<1>3. f[k] = IF k = 1 THEN B[k] ELSE f[k - 1] \o B[k]
  BY <1>2, FlatAt
<1>4. CASE k = 1
  <2>1. Leads(store[0], B[1], store[1])
    BY <1>2, <1>4
  <2> QED
    BY <1>2, <1>3, <1>4, <2>1
<1>5. CASE k > 1
  <2>1. f[k] = f[k - 1] \o B[k]
    BY <1>2, <1>3, <1>5
  <2>2. Leads(store[0], f[k - 1], store[k - 1]) /\ Leads(store[k - 1], B[k], store[k])
    BY <1>2, <1>5
  <2> QED
    BY <1>2, <2>1, <2>2, LeadsThrough
<1> QED
  BY <1>2, <1>4, <1>5

LEMMA FlattenIs ==
  ASSUME NEW n \in Nat, n > 0, NEW B, Len(B) = n
  PROVE  \E f : Flat(B, n, f) /\ FlattenSeq(B) = f[n]
<1>1. n \in 1..n
  OBVIOUS
<1>2. \E g : Flat(B, n, g)
  <2>1. \A k \in 1..n : \E g : Flat(B, k, g)
    BY FlatExists, Zenon
  <2> QED
    BY <1>1, <2>1, Zenon
<1> DEFINE f == CHOOSE g : Flat(B, n, g)
<1>3. Flat(B, n, f)
  BY <1>2, Zenon
<1>4. FlattenSeq(B) = f[n]
  BY <1>1 DEF FlattenSeq, Flat
<1> QED
  BY <1>3, <1>4

(* The blocks' members are the members of the whole.                         *)
LEMMA FlattenIn ==
  ASSUME NEW n \in Nat, NEW B, B = [j \in 1..n |-> B[j]], NEW X, \A j \in 1..n : B[j] \in Seq(X)
  PROVE  FlattenSeq(B) \in Seq(X)
<1>0. Len(B) = n
  OBVIOUS
<1>1. CASE n = 0
  <2>1. B = << >> /\ FlattenSeq(B) = << >>
    BY <1>1 DEF FlattenSeq
  <2> QED
    BY <2>1
<1>2. CASE n > 0
  <2>1. PICK f : Flat(B, n, f) /\ FlattenSeq(B) = f[n]
    BY <1>0, <1>2, FlattenIs
  <2> DEFINE Bad == {k \in 1..n : f[k] \notin Seq(X)}
  <2>2. CASE Bad # {}
    <3>1. PICK k \in Bad : \A x \in Bad : k <= x
      <4>1. Bad \in SUBSET Nat
        OBVIOUS
      <4> HIDE DEF Bad
      <4> QED
        BY <2>2, <4>1, LeastElement
    <3>2. k \in 1..n /\ f[k] \notin Seq(X) /\ \A x \in 1..n : x < k => f[x] \in Seq(X)
      BY <3>1
    <3> HIDE DEF Bad
    <3>3. f[k] = IF k = 1 THEN B[k] ELSE f[k - 1] \o B[k]
      BY <2>1, <3>2, FlatAt
    <3>4. k # 1
      BY <3>2, <3>3
    <3>5. f[k - 1] \in Seq(X) /\ B[k] \in Seq(X)
      BY <3>2, <3>4
    <3>6. f[k - 1] \o B[k] \in Seq(X)
      BY <3>5
    <3> QED
      BY <3>2, <3>3, <3>4, <3>6
  <2>3. CASE Bad = {}
    BY <1>2, <2>1, <2>3
  <2> QED
    BY <2>2, <2>3
<1> QED
  BY <1>1, <1>2

LEMMA FlattenLeads ==
  ASSUME NEW n \in Nat, NEW B, B = [j \in 1..n |-> B[j]], NEW store,
         \A j \in 1..n : Leads(store[j - 1], B[j], store[j])
  PROVE  Leads(store[0], FlattenSeq(B), store[n])
<1>1. Len(B) = n
  OBVIOUS
<1>2. CASE n = 0
  <2>1. B = << >> /\ FlattenSeq(B) = << >>
    BY <1>1, <1>2 DEF FlattenSeq
  <2> QED
    BY <1>2, <2>1, LeadsNowhere
<1>3. CASE n > 0
  <2>1. PICK f : Flat(B, n, f) /\ FlattenSeq(B) = f[n]
    BY <1>1, <1>3, FlattenIs
  <2>2. n \in 1..n
    BY <1>3
  <2>3. Leads(store[0], f[n], store[n])
    BY <2>1, <2>2, FlatLeads
  <2> QED
    BY <2>1, <2>3
<1> QED
  BY <1>2, <1>3
-----------------------------------------------------------------------------
(* The order of a scan.                                                      *)
Ascends(f, S) ==
  f \in [1..Cardinality(S) -> S] /\ \A i, j \in 1..Cardinality(S) : i < j => f[i] < f[j]

LEMMA RunIsFinite ==
  ASSUME NEW n \in Nat, NEW S \in SUBSET (1..n)
  PROVE  IsFiniteSet(S) /\ Cardinality(S) \in Nat
<1>1. IsFiniteSet(1..n)
  BY FS_Interval
<1>2. IsFiniteSet(S)
  BY <1>1, FS_Subset
<1> QED
  BY <1>2, FS_CardinalityType

LEMMA AscentOfMore ==
  ASSUME NEW m \in Nat \ {0}, NEW U \in SUBSET (1..m - 1), NEW g, Ascends(g, U)
  PROVE  \E f : Ascends(f, U \cup {m})
<1> DEFINE c == Cardinality(U)
           T == U \cup {m}
           f == [i \in 1..c + 1 |-> IF i = c + 1 THEN m ELSE g[i]]
<1>0. m - 1 \in Nat /\ m \in Nat /\ \A x \in U : x < m
  OBVIOUS
<1>1. IsFiniteSet(U) /\ c \in Nat
  BY <1>0, RunIsFinite
<1>2. m \notin U
  OBVIOUS
<1>3. Cardinality(T) = c + 1
  BY <1>1, <1>2, FS_AddElement
<1>4. g \in [1..c -> U] /\ \A i, j \in 1..c : i < j => g[i] < g[j]
  BY DEF Ascends
<1> HIDE DEF c
<1>5. \A i \in 1..c : g[i] \in U /\ g[i] < m
  BY <1>0, <1>4
<1>6. f \in [1..c + 1 -> T]
  BY <1>1, <1>5
<1>7. \A i, j \in 1..c + 1 : i < j => f[i] < f[j]
  BY <1>1, <1>4, <1>5
<1> HIDE DEF f, T
<1>8. Ascends(f, T)
  BY <1>3, <1>6, <1>7 DEF Ascends
<1> QED
  BY <1>8 DEF T

AscentsUpTo(m) == \A T \in SUBSET (1..m) : \E f : Ascends(f, T)

LEMMA AscentExists ==
  ASSUME NEW n \in Nat, NEW S \in SUBSET (1..n)
  PROVE  \E f : Ascends(f, S)
<1> DEFINE Bad == {m \in Nat : ~AscentsUpTo(m)}
<1>1. Bad = {}
  <2> SUFFICES ASSUME Bad # {}
               PROVE  FALSE
    OBVIOUS
  <2>1. PICK m \in Bad : \A x \in Bad : m <= x
    <3>1. Bad \in SUBSET Nat
      OBVIOUS
    <3> HIDE DEF Bad
    <3> QED
      BY <3>1, LeastElement
  <2>2. m \in Nat /\ ~AscentsUpTo(m) /\ \A k \in Nat : k < m => AscentsUpTo(k)
    BY <2>1
  <2> HIDE DEF Bad
  <2>3. PICK T \in SUBSET (1..m) : ~\E f : Ascends(f, T)
    BY <2>2 DEF AscentsUpTo
  <2>4. CASE m = 0
    <3>1. T = {}
      BY <2>4
    <3>2. Cardinality(T) = 0
      BY <3>1, FS_EmptySet
    <3>3. Ascends([i \in {} |-> i], T)
      BY <3>1, <3>2 DEF Ascends
    <3> QED
      BY <2>3, <3>3
  <2>5. CASE m > 0 /\ m \notin T
    <3>1. T \in SUBSET (1..m - 1) /\ m - 1 \in Nat /\ m - 1 < m
      BY <2>2, <2>5
    <3> QED
      BY <2>2, <2>3, <3>1 DEF AscentsUpTo
  <2>6. CASE m > 0 /\ m \in T
    <3> DEFINE U == T \ {m}
    <3>1. U \in SUBSET (1..m - 1) /\ m - 1 \in Nat /\ m - 1 < m /\ m \in Nat \ {0}
      BY <2>2, <2>6
    <3>2. T = U \cup {m}
      BY <2>6
    <3> HIDE DEF U
    <3>3. PICK g : Ascends(g, U)
      BY <2>2, <3>1 DEF AscentsUpTo
    <3>4. \E f : Ascends(f, U \cup {m})
      BY <3>1, <3>3, AscentOfMore
    <3> QED
      BY <2>3, <3>2, <3>4
  <2> QED
    BY <2>2, <2>4, <2>5, <2>6
<1> QED
  BY <1>1 DEF AscentsUpTo

(* Ascending lists each member once, the smaller before the greater.         *)
LEMMA AscendingIs ==
  ASSUME NEW n \in Nat, NEW S \in SUBSET (1..n)
  PROVE  /\ Cardinality(S) \in Nat
         /\ Ascending(S) \in [1..Cardinality(S) -> S]
         /\ \A i, j \in 1..Cardinality(S) : i < j => Ascending(S)[i] < Ascending(S)[j]
         /\ \A x \in S : \E i \in 1..Cardinality(S) : Ascending(S)[i] = x
<1> DEFINE c == Cardinality(S)
           f == Ascending(S)
<1>1. IsFiniteSet(S) /\ c \in Nat
  BY RunIsFinite
<1>2. Ascends(f, S)
  <2>1. \E g : Ascends(g, S)
    BY AscentExists
  <2> QED
    BY <2>1 DEF Ascending, Ascends
<1> HIDE DEF f
<1>3. f \in [1..c -> S] /\ \A i, j \in 1..c : i < j => f[i] < f[j]
  BY <1>2 DEF Ascends
<1>4. f \in Injection(1..c, S)
  <2>1. ASSUME NEW i \in 1..c, NEW j \in 1..c, f[i] = f[j]
        PROVE  i = j
    <3>1. ~(i < j) /\ ~(j < i)
      <4>1. f[i] \in 1..n /\ f[j] \in 1..n
        BY <1>3
      <4> QED
        BY <1>3, <2>1, <4>1
    <3> QED
      BY <1>1, <3>1
  <2> QED
    BY <1>3, <2>1 DEF Injection, IsInjective
<1>5. IsFiniteSet(1..c) /\ Cardinality(1..c) = c
  BY <1>1, FS_Interval
<1>6. f \in Surjection(1..c, S)
  BY <1>1, <1>4, <1>5, FS_Injection
<1> QED
  BY <1>1, <1>3, <1>6 DEF f, Surjection

(* Slots without gaps are scanned in order.                                  *)
Run(n) == [j \in 1..n |-> j]

LEMMA AscendingRun ==
  ASSUME NEW n \in Nat
  PROVE  Ascending(1..n) = Run(n) /\ Cardinality(1..n) = n
<1> DEFINE f == Ascending(1..n)
           Low == {i \in 1..n : f[i] < i}
           High == {k \in 0..n - 1 : f[n - k] > n - k}
<1>1. Cardinality(1..n) = n
  BY FS_Interval
<1>2. f \in [1..n -> 1..n] /\ \A i, j \in 1..n : i < j => f[i] < f[j]
  BY <1>1, AscendingIs
<1> HIDE DEF f
<1>3. Low = {}
  <2> SUFFICES ASSUME Low # {}
               PROVE  FALSE
    OBVIOUS
  <2>1. PICK i \in Low : \A x \in Low : i <= x
    <3>1. Low \in SUBSET Nat
      OBVIOUS
    <3> HIDE DEF Low
    <3> QED
      BY <3>1, LeastElement
  <2>2. i \in 1..n /\ f[i] < i /\ \A x \in 1..n : x < i => f[x] >= x
    <3>1. \A x \in 1..n : x \notin Low => ~(f[x] < x)
      OBVIOUS
    <3>2. i \in 1..n /\ f[i] < i /\ \A x \in 1..n : x < i => x \notin Low
      BY <2>1
    <3> HIDE DEF Low
    <3> QED
      BY <1>2, <3>1, <3>2
  <2> HIDE DEF Low
  <2>3. i > 1 /\ i - 1 \in 1..n
    BY <1>2, <2>2
  <2>4. f[i - 1] < f[i] /\ f[i - 1] >= i - 1 /\ f[i - 1] \in Int /\ f[i] \in Int
    BY <1>2, <2>2, <2>3
  <2> QED
    BY <2>2, <2>4
<1>4. High = {}
  <2> SUFFICES ASSUME High # {}
               PROVE  FALSE
    OBVIOUS
  <2>1. PICK k \in High : \A x \in High : k <= x
    <3>1. High \in SUBSET Nat
      OBVIOUS
    <3> HIDE DEF High
    <3> QED
      BY <3>1, LeastElement
  <2>2. k \in 0..n - 1 /\ f[n - k] > n - k /\ \A x \in 0..n - 1 : x < k => ~(f[n - x] > n - x)
    BY <2>1
  <2> HIDE DEF High
  <2>3. k > 0 /\ k - 1 \in 0..n - 1 /\ n - k \in 1..n /\ n - (k - 1) \in 1..n
    BY <1>2, <2>2
  <2>4. n - k < n - (k - 1)
    BY <2>2, <2>3
  <2>5. f[n - k] < f[n - (k - 1)] /\ f[n - k] \in Int /\ f[n - (k - 1)] \in Int
    BY <1>2, <2>3, <2>4
  <2>6. ~(f[n - (k - 1)] > n - (k - 1))
    BY <2>2, <2>3
  <2> QED
    BY <2>2, <2>3, <2>5, <2>6
<1>5. ASSUME NEW j \in 1..n
      PROVE  f[j] = j
  <2>1. ~(f[j] < j)
    BY <1>3
  <2>2. n - j \in 0..n - 1 /\ n - (n - j) = j
    OBVIOUS
  <2>3. ~(f[n - (n - j)] > n - (n - j))
    BY <1>4, <2>2
  <2> QED
    BY <1>2, <2>1, <2>2, <2>3
<1> QED
  BY <1>1, <1>2, <1>5 DEF f, Run

LEMMA RunIs ==
  ASSUME NEW n \in Nat
  PROVE  Len(Run(n)) = n /\ \A j \in 1..n : Run(n)[j] = j
BY DEF Run

(* SetToSeq lists each member of a finite set.                               *)
LEMMA SetToSeqIs ==
  ASSUME NEW S, IsFiniteSet(S)
  PROVE  /\ Cardinality(S) \in Nat
         /\ SetToSeq(S) \in [1..Cardinality(S) -> S]
         /\ S = {SetToSeq(S)[j] : j \in 1..Cardinality(S)}
<1> DEFINE c == Cardinality(S)
           f == SetToSeq(S)
<1>1. c \in Nat /\ ExistsBijection(1..c, S)
  BY FS_CardinalityType
<1>2. f \in [1..c -> S] /\ IsInjective(f)
  BY <1>1 DEF SetToSeq, ExistsBijection, Bijection, Injection
<1> HIDE DEF f
<1>3. f \in Injection(1..c, S)
  BY <1>2 DEF Injection
<1>4. f \in Surjection(1..c, S)
  BY <1>1, <1>3, FS_Interval, FS_Injection
<1> QED
  BY <1>1, <1>2, <1>4 DEF f, Surjection
-----------------------------------------------------------------------------
(* What the lookups find: a position that matches, or 0 when none does.      *)
LEMMA FindTableIs ==
  ASSUME NEW tables, NEW name, Len(tables) \in Nat
  PROVE  /\ FindTable(tables, name) \in 0..Len(tables)
         /\ FindTable(tables, name) > 0 => tables[FindTable(tables, name)].name = name
         /\ FindTable(tables, name) = 0 => \A j \in 1..Len(tables) : ~(tables[j].name = name)
<1> DEFINE I == {j \in 1..Len(tables) : tables[j].name = name}
<1>1. I \in SUBSET Nat
  OBVIOUS
<1>2. I # {} => Min(I) \in I
  BY <1>1, LeastElement
<1> QED
  BY <1>2 DEF FindTable, SelectInSeq

LEMMA FindColIs ==
  ASSUME NEW t, NEW name, Len(t.cols) \in Nat
  PROVE  /\ FindCol(t, name) \in 0..Len(t.cols)
         /\ FindCol(t, name) > 0 => t.cols[FindCol(t, name)] = name
         /\ FindCol(t, name) = 0 => \A j \in 1..Len(t.cols) : ~(t.cols[j] = name)
<1> DEFINE I == {j \in 1..Len(t.cols) : t.cols[j] = name}
<1>1. I \in SUBSET Nat
  OBVIOUS
<1>2. I # {} => Min(I) \in I
  BY <1>1, LeastElement
<1> QED
  BY <1>2 DEF FindCol, SelectInSeq

LEMMA FindIndexNameIs ==
  ASSUME NEW t, NEW name, Len(t.ixs) \in Nat
  PROVE  /\ FindIndexName(t, name) \in 0..Len(t.ixs)
         /\ FindIndexName(t, name) > 0 => t.ixs[FindIndexName(t, name)].name = name
         /\ FindIndexName(t, name) = 0 => \A j \in 1..Len(t.ixs) : ~(t.ixs[j].name = name)
<1> DEFINE I == {j \in 1..Len(t.ixs) : t.ixs[j].name = name}
<1>1. I \in SUBSET Nat
  OBVIOUS
<1>2. I # {} => Min(I) \in I
  BY <1>1, LeastElement
<1> QED
  BY <1>2 DEF FindIndexName, SelectInSeq

LEMMA FindIndexColIs ==
  ASSUME NEW t, NEW c, Len(t.ixs) \in Nat
  PROVE  /\ FindIndexCol(t, c) \in 0..Len(t.ixs)
         /\ FindIndexCol(t, c) > 0 => t.ixs[FindIndexCol(t, c)].col = c
         /\ FindIndexCol(t, c) = 0 => \A j \in 1..Len(t.ixs) : ~(t.ixs[j].col = c)
<1> DEFINE I == {j \in 1..Len(t.ixs) : t.ixs[j].col = c}
<1>1. I \in SUBSET Nat
  OBVIOUS
<1>2. I # {} => Min(I) \in I
  BY <1>1, LeastElement
<1> QED
  BY <1>2 DEF FindIndexCol, SelectInSeq

LEMMA FindPkDuplicateIs ==
  ASSUME NEW t, NEW rows, NEW value, Len(rows) \in Nat
  PROVE  /\ FindPkDuplicate(t, rows, value) \in 0..Len(rows)
         /\ FindPkDuplicate(t, rows, value) > 0 => rows[FindPkDuplicate(t, rows, value)][t.pk] = value
         /\ FindPkDuplicate(t, rows, value) = 0 => \A j \in 1..Len(rows) : ~(rows[j][t.pk] = value)
<1> DEFINE I == {j \in 1..Len(rows) : rows[j][t.pk] = value}
<1>1. I \in SUBSET Nat
  OBVIOUS
<1>2. I # {} => Min(I) \in I
  BY <1>1, LeastElement
<1> QED
  BY <1>2 DEF FindPkDuplicate, SelectInSeq

LEMMA IndexOwnerIs ==
  ASSUME NEW tables, NEW x, Len(tables) \in Nat
  PROVE  /\ IndexOwner(tables, x) \in 0..Len(tables)
         /\ IndexOwner(tables, x) > 0 => FindIndexName(tables[IndexOwner(tables, x)], x) > 0
         /\ IndexOwner(tables, x) = 0 => \A j \in 1..Len(tables) : ~(FindIndexName(tables[j], x) > 0)
<1> DEFINE I == {j \in 1..Len(tables) : FindIndexName(tables[j], x) > 0}
<1>1. I \in SUBSET Nat
  OBVIOUS
<1>2. I # {} => Min(I) \in I
  BY <1>1, LeastElement
<1> QED
  BY <1>2 DEF IndexOwner, SelectInSeq
-----------------------------------------------------------------------------
(* What the writes of rebuild_indexes, save_rows and save_catalog make of a  *)
(* store.                                                                    *)
XKeysOf(t, rows) ==
  {XKey(t.name, t.ixs[x].name, rows[r][t.ixs[x].col], r) : x \in 1..Len(t.ixs), r \in 1..Len(rows)}
XData(t, rows) == [k \in XKeysOf(t, rows) |-> ""]
RKeysOf(name, n) == {RKey(name, r) : r \in 1..n}
RData(rows, name) == [k \in RKeysOf(name, Len(rows)) |-> rows[k[3]]]

LEMMA DeleteIndexLeads ==
  ASSUME NEW s, IsStore(s), NEW z, NEW t, IsFiniteSet(IndexKeys(z, t.name))
  PROVE  Leads(s, DeleteIndexRows(z, t), Without(s, IndexKeys(z, t.name)))
<1> DEFINE K == IndexKeys(z, t.name)
           f == SetToSeq(K)
           c == Cardinality(K)
<1>1. c \in Nat /\ f \in [1..c -> K] /\ K = {f[j] : j \in 1..c}
  BY SetToSeqIs
<1>2. Len(f) = c
  BY <1>1
<1>3. DeleteIndexRows(z, t) = DeletesOf(c, f) /\ K = KeysIn(c, f)
  BY <1>1, <1>2 DEF DeleteIndexRows, DeletesOf, KeysIn
<1> HIDE DEF K, f, c
<1>4. Leads(s, DeletesOf(c, f), Without(s, KeysIn(c, f)))
  BY <1>1, DeletesLead
<1> QED
  BY <1>3, <1>4 DEF K

LEMMA XKeysAre ==
  ASSUME NEW t, NEW rows
  PROVE  \A k : k \in XKeysOf(t, rows) <=>
           \E x \in 1..Len(t.ixs) : \E r \in 1..Len(rows) :
             k = XKey(t.name, t.ixs[x].name, rows[r][t.ixs[x].col], r)
BY DEF XKeysOf

LEMMA XKeysFinite ==
  ASSUME NEW t, NEW rows, Len(t.ixs) \in Nat, Len(rows) \in Nat
  PROVE  IsFiniteSet(XKeysOf(t, rows))
<1> DEFINE m == Len(t.ixs)
           n == Len(rows)
           f == [p \in (1..m) \X (1..n) |->
                  XKey(t.name, t.ixs[p[1]].name, rows[p[2]][t.ixs[p[1]].col], p[2])]
<1>1. IsFiniteSet((1..m) \X (1..n))
  <2>1. IsFiniteSet(1..m) /\ IsFiniteSet(1..n)
    BY FS_Interval
  <2> HIDE DEF m, n
  <2> QED
    BY <2>1, FS_Product
<1>2. \A x \in 1..m : \A r \in 1..n :
        /\ <<x, r>> \in (1..m) \X (1..n)
        /\ f[<<x, r>>] = XKey(t.name, t.ixs[x].name, rows[r][t.ixs[x].col], r)
  OBVIOUS
<1>3. \A p \in (1..m) \X (1..n) : f[p] \in XKeysOf(t, rows)
  <2> SUFFICES ASSUME NEW p \in (1..m) \X (1..n)
               PROVE  f[p] \in XKeysOf(t, rows)
    OBVIOUS
  <2>1. PICK x \in 1..m, r \in 1..n : p = <<x, r>>
    OBVIOUS
  <2> QED
    BY <1>2, <2>1, XKeysAre
<1>4. DOMAIN f = (1..m) \X (1..n) /\ f = [p \in DOMAIN f |-> f[p]]
  OBVIOUS
<1>5. \A k \in XKeysOf(t, rows) : \E p \in (1..m) \X (1..n) : f[p] = k
  <2> SUFFICES ASSUME NEW k \in XKeysOf(t, rows)
               PROVE  \E p \in (1..m) \X (1..n) : f[p] = k
    OBVIOUS
  <2>1. PICK x \in 1..m : \E r \in 1..n :
          k = XKey(t.name, t.ixs[x].name, rows[r][t.ixs[x].col], r)
    BY XKeysAre
  <2>2. PICK r \in 1..n : k = XKey(t.name, t.ixs[x].name, rows[r][t.ixs[x].col], r)
    BY <2>1
  <2>3. <<x, r>> \in (1..m) \X (1..n) /\ f[<<x, r>>] = k
    BY <1>2, <2>2
  <2> QED
    BY <2>3
<1> HIDE DEF f, m, n
<1>6. f \in Surjection((1..m) \X (1..n), XKeysOf(t, rows))
  BY <1>3, <1>4, <1>5 DEF Surjection
<1> QED
  BY <1>1, <1>6, FS_Surjection

(* Lists of puts of the same length, one after the other.                    *)
GridKeys(x, n, key) == UNION {KeysIn(n, key[y]) : y \in 1..x}

LEMMA GridMore ==
  ASSUME NEW x \in Nat \ {0}, NEW n, NEW key
  PROVE  GridKeys(x, n, key) = GridKeys(x - 1, n, key) \cup KeysIn(n, key[x])
<1>1. 1..x = (1..x - 1) \cup {x}
  OBVIOUS
<1> QED
  BY <1>1 DEF GridKeys

LEMMA GridLeads ==
  ASSUME NEW s, IsStore(s), NEW m \in Nat, NEW n \in Nat, NEW key, NEW data, NEW D,
         \A x \in 1..m : \A r \in 1..n : D[key[x][r]] = data[x][r]
  PROVE  Leads(s, FlattenSeq([x \in 1..m |-> PutsOf(n, key[x], data[x])]),
               With(s, GridKeys(m, n, key), D))
<1> DEFINE store == [x \in 0..m |-> With(s, GridKeys(x, n, key), D)]
           B == [x \in 1..m |-> PutsOf(n, key[x], data[x])]
<1>1. ASSUME NEW x \in 1..m
      PROVE  Leads(store[x - 1], B[x], store[x])
  <2>1. store[x - 1] = With(s, GridKeys(x - 1, n, key), D) /\ store[x] = With(s, GridKeys(x, n, key), D)
        /\ B[x] = PutsOf(n, key[x], data[x])
    OBVIOUS
  <2> HIDE DEF store, B
  <2>2. GridKeys(x, n, key) = GridKeys(x - 1, n, key) \cup KeysIn(n, key[x])
    BY GridMore
  <2>3. IsStore(store[x - 1])
    BY <2>1, StoresAgain
  <2>4. Leads(store[x - 1], PutsOf(n, key[x], data[x]), With(store[x - 1], KeysIn(n, key[x]), D))
    BY <2>3, PutsLead
  <2> QED
    BY <2>1, <2>2, <2>4, WithMore
<1>2. store[0] = s
  <2>1. GridKeys(0, n, key) = {}
    BY DEF GridKeys
  <2>2. With(s, {}, D) = s
    BY DEF With, IsStore
  <2> QED
    BY <2>1, <2>2
<1>3. store[m] = With(s, GridKeys(m, n, key), D)
  OBVIOUS
<1>4. B = [x \in 1..m |-> B[x]]
  OBVIOUS
<1> HIDE DEF store, B
<1>5. Leads(store[0], FlattenSeq(B), store[m])
  BY <1>1, <1>4, FlattenLeads
<1> QED
  BY <1>2, <1>3, <1>5 DEF B

LEMMA PutIndexLeads ==
  ASSUME NEW s, IsStore(s), NEW t, NEW rows, Len(t.ixs) \in Nat, Len(rows) \in Nat
  PROVE  Leads(s, PutIndexRows(t, rows), With(s, XKeysOf(t, rows), XData(t, rows)))
<1> DEFINE D == XData(t, rows)
           m == Len(t.ixs)
           n == Len(rows)
           key == [x \in 1..m |-> [r \in 1..n |->
                    XKey(t.name, t.ixs[x].name, rows[r][t.ixs[x].col], r)]]
           data == [x \in 1..m |-> [r \in 1..n |-> ""]]
<1>1. \A x \in 1..m : \A r \in 1..n :
        key[x][r] = XKey(t.name, t.ixs[x].name, rows[r][t.ixs[x].col], r) /\ data[x][r] = ""
  OBVIOUS
<1>2. PutIndexRows(t, rows) = FlattenSeq([x \in 1..m |-> PutsOf(n, key[x], data[x])])
  <2>1. ASSUME NEW x \in 1..m
        PROVE  [r \in 1..n |-> Put(XKey(t.name, t.ixs[x].name, rows[r][t.ixs[x].col], r), "")]
                 = PutsOf(n, key[x], data[x])
    BY DEF PutsOf
  <2> QED
    BY <2>1 DEF PutIndexRows
<1>2a. \A k : k \in XKeysOf(t, rows) <=> \E x \in 1..m : \E r \in 1..n :
               k = XKey(t.name, t.ixs[x].name, rows[r][t.ixs[x].col], r)
  BY XKeysAre
<1> HIDE DEF key, data, m, n
<1>3. \A x \in 1..m : \A r \in 1..n : key[x][r] \in XKeysOf(t, rows)
  BY <1>1, <1>2a
<1>4. \A x \in 1..m : \A r \in 1..n : D[key[x][r]] = data[x][r]
  BY <1>1, <1>3 DEF XData
<1>5. XKeysOf(t, rows) = GridKeys(m, n, key)
  <2>1. \A k : k \in GridKeys(m, n, key) <=> \E x \in 1..m : k \in KeysIn(n, key[x])
    BY DEF GridKeys
  <2>2. \A k, x : k \in KeysIn(n, key[x]) <=> \E r \in 1..n : k = key[x][r]
    BY DEF KeysIn
  <2>3. \A k : k \in XKeysOf(t, rows) <=> \E x \in 1..m : \E r \in 1..n : k = key[x][r]
    <3>1. ASSUME NEW k \in XKeysOf(t, rows)
          PROVE  \E x \in 1..m : \E r \in 1..n : k = key[x][r]
      <4>1. PICK x \in 1..m : \E r \in 1..n : k = XKey(t.name, t.ixs[x].name, rows[r][t.ixs[x].col], r)
        BY <1>2a
      <4>2. PICK r \in 1..n : k = XKey(t.name, t.ixs[x].name, rows[r][t.ixs[x].col], r)
        BY <4>1
      <4>3. k = key[x][r]
        BY <1>1, <4>2
      <4> QED
        BY <4>3
    <3> QED
      BY <1>3, <3>1
  <2> QED
    BY <2>1, <2>2, <2>3, Zenon
<1> HIDE DEF D
<1>6. Leads(s, FlattenSeq([x \in 1..m |-> PutsOf(n, key[x], data[x])]), With(s, GridKeys(m, n, key), D))
  BY <1>4, GridLeads DEF m, n
<1> QED
  BY <1>2, <1>5, <1>6 DEF D

(* The writes of rebuild_indexes. *)
Indexed(s, z, t, rows) == With(Without(s, IndexKeys(z, t.name)), XKeysOf(t, rows), XData(t, rows))

LEMMA RebuildLeads ==
  ASSUME NEW s, IsStore(s), NEW z, NEW t, NEW rows, Len(t.ixs) \in Nat, Len(rows) \in Nat,
         IsFiniteSet(IndexKeys(z, t.name))
  PROVE  Leads(s, DeleteIndexRows(z, t) \o PutIndexRows(t, rows), Indexed(s, z, t, rows))
<1> DEFINE m == Without(s, IndexKeys(z, t.name))
<1>1. Leads(s, DeleteIndexRows(z, t), m)
  BY DeleteIndexLeads
<1>2. IsStore(m)
  BY StoresAgain
<1> HIDE DEF m
<1>3. Leads(m, PutIndexRows(t, rows), With(m, XKeysOf(t, rows), XData(t, rows)))
  BY <1>2, PutIndexLeads
<1>4. Leads(s, DeleteIndexRows(z, t) \o PutIndexRows(t, rows),
            With(m, XKeysOf(t, rows), XData(t, rows)))
  BY <1>1, <1>3, LeadsThrough
<1> QED
  BY <1>4 DEF Indexed, m

(* CREATE INDEX rebuilds the indexes of a table; DROP INDEX deletes them first. *)
IndexWrites(s, t, rows) ==
  {RebuildIndexes(s, t, rows), DeleteIndexRows(s, t) \o RebuildIndexes(s, t, rows)}

LEMMA IndexWritesLead ==
  ASSUME NEW s, IsStore(s), NEW t, NEW rows, Len(t.ixs) \in Nat, Len(rows) \in Nat,
         IsFiniteSet(IndexKeys(s, t.name)), NEW a \in IndexWrites(s, t, rows)
  PROVE  Leads(s, a, Indexed(s, s, t, rows))
<1> DEFINE m == Without(s, IndexKeys(s, t.name))
           b == DeleteIndexRows(s, t) \o PutIndexRows(t, rows)
<1>1. Leads(s, b, Indexed(s, s, t, rows))
  BY RebuildLeads
<1>2. Leads(s, DeleteIndexRows(s, t), m)
  BY DeleteIndexLeads
<1>3. IsStore(m)
  BY StoresAgain
<1>4. Without(m, IndexKeys(s, t.name)) = m
  BY DEF Without
<1> HIDE DEF m
<1>5. Leads(m, b, Indexed(m, s, t, rows))
  BY <1>3, RebuildLeads
<1>6. Indexed(m, s, t, rows) = Indexed(s, s, t, rows)
  BY <1>4 DEF Indexed, m
<1> HIDE DEF b
<1>7. Leads(s, DeleteIndexRows(s, t) \o b, Indexed(s, s, t, rows))
  BY <1>2, <1>5, <1>6, LeadsThrough
<1> QED
  BY <1>1, <1>7 DEF IndexWrites, RebuildIndexes, b

(* The writes of save_rows over n rows. *)
Replaced(s, name, n, rows) ==
  With(Without(s, RKeysOf(name, n)), RKeysOf(name, Len(rows)), RData(rows, name))
Saved(s, t, n, rows) == Indexed(Replaced(s, t.name, n, rows), s, t, rows)

LEMMA DeleteRowsLead ==
  ASSUME NEW s, IsStore(s), NEW name, NEW n \in Nat
  PROVE  Leads(s, [r \in 1..n |-> Delete(RKey(name, r))], Without(s, RKeysOf(name, n)))
<1> DEFINE key == [r \in 1..n |-> RKey(name, r)]
<1>1. [r \in 1..n |-> Delete(RKey(name, r))] = DeletesOf(n, key)
  BY DEF DeletesOf
<1>2. RKeysOf(name, n) = KeysIn(n, key)
  BY DEF RKeysOf, KeysIn
<1> HIDE DEF key
<1> QED
  BY <1>1, <1>2, DeletesLead

LEMMA PutRowsLead ==
  ASSUME NEW s, IsStore(s), NEW name, NEW rows, Len(rows) \in Nat
  PROVE  Leads(s, [r \in 1..Len(rows) |-> Put(RKey(name, r), rows[r])],
               With(s, RKeysOf(name, Len(rows)), RData(rows, name)))
<1> DEFINE n == Len(rows)
           key == [r \in 1..n |-> RKey(name, r)]
           D == RData(rows, name)
<1>1. [r \in 1..n |-> Put(RKey(name, r), rows[r])] = PutsOf(n, key, rows)
  BY DEF PutsOf
<1>2. RKeysOf(name, n) = KeysIn(n, key)
  BY DEF RKeysOf, KeysIn
<1>3. \A r \in 1..n : key[r] = RKey(name, r) /\ RKey(name, r) \in RKeysOf(name, n)
  BY DEF RKeysOf
<1>4. \A r \in 1..n : D[key[r]] = rows[r]
  BY <1>3, KeyParts DEF RData
<1> HIDE DEF key, D, n
<1>5. Leads(s, PutsOf(n, key, rows), With(s, KeysIn(n, key), D))
  BY <1>4, PutsLead DEF n
<1> QED
  BY <1>1, <1>2, <1>5 DEF D, n

LEMMA SaveRowsLead ==
  ASSUME NEW s, IsStore(s), NEW t, NEW n \in Nat, SlotSeq(s, t.name) = Run(n),
         NEW rows, Len(t.ixs) \in Nat, Len(rows) \in Nat, IsFiniteSet(IndexKeys(s, t.name))
  PROVE  Leads(s, SaveRows(s, t, rows), Saved(s, t, n, rows))
<1> DEFINE a == [r \in 1..n |-> Delete(RKey(t.name, r))]
           b == [r \in 1..Len(rows) |-> Put(RKey(t.name, r), rows[r])]
           c == DeleteIndexRows(s, t) \o PutIndexRows(t, rows)
           m == Without(s, RKeysOf(t.name, n))
           p == Replaced(s, t.name, n, rows)
<1>1. SaveRows(s, t, rows) = a \o b \o c
  <2>1. Len(Run(n)) = n /\ \A r \in 1..n : Run(n)[r] = r
    BY RunIs
  <2> QED
    BY <2>1 DEF SaveRows, RebuildIndexes
<1>2. Leads(s, a, m) /\ IsStore(m)
  BY DeleteRowsLead, StoresAgain
<1>3. p = With(m, RKeysOf(t.name, Len(rows)), RData(rows, t.name))
  BY DEF Replaced
<1> HIDE DEF a, c, m, p
<1>4. Leads(m, b, p) /\ IsStore(p)
  BY <1>2, <1>3, PutRowsLead, StoresAgain
<1>5. Leads(p, c, Indexed(p, s, t, rows))
  BY <1>4, RebuildLeads DEF c
<1> HIDE DEF b
<1>6. Leads(s, a \o b, p)
  BY <1>2, <1>4, LeadsThrough
<1>7. Leads(s, a \o b \o c, Indexed(p, s, t, rows))
  BY <1>5, <1>6, LeadsThrough
<1> QED
  BY <1>1, <1>7 DEF Saved, p

(* The writes of save_catalog. *)
CKeys == {CKey(n) : n \in 1..MaxTables}
CatalogKeys(U, n) == {CKey(j) : j \in 1..n} \cup {TKey(U[j].name) : j \in 1..n}
Describes(D, U) == \A j \in 1..Len(U) : D[CKey(j)] = U[j].name /\ D[TKey(U[j].name)] = U[j]

LEMMA EntryLeads ==
  ASSUME NEW s, IsStore(s), NEW c, NEW t, NEW D, NEW ck, NEW tk, D[ck] = c, D[tk] = t
  PROVE  Leads(s, << Put(ck, c), Delete(tk), Put(tk, t) >>, With(s, {ck, tk}, D))
<1> DEFINE ops == << Put(ck, c), Delete(tk), Put(tk, t) >>
           m == With(s, {ck}, D)
           path == [j \in 0..3 |-> IF j = 0 THEN s ELSE IF j = 1 THEN m
                                   ELSE IF j = 2 THEN Without(m, {tk}) ELSE With(s, {ck, tk}, D)]
<1>1. ops \in Seq({Put(ck, c), Delete(tk), Put(tk, t)}) /\ Len(ops) = 3
      /\ ops[1] = Put(ck, c) /\ ops[2] = Delete(tk) /\ ops[3] = Put(tk, t)
  OBVIOUS
<1>2. path[0] = s /\ path[1] = m /\ path[2] = Without(m, {tk}) /\ path[3] = With(s, {ck, tk}, D)
  OBVIOUS
<1>3. Apply(s, Put(ck, c)) = m
  BY DEF Apply, Put, With
<1>4. Apply(m, Delete(tk)) = Without(m, {tk})
  BY DEF Apply, Delete, Restrict, Without
<1>5. Apply(Without(m, {tk}), Put(tk, t)) = With(s, {ck, tk}, D)
  BY DEF Apply, Put, With, Without
<1> HIDE DEF ops, path
<1>6. \A j \in 1..Len(ops) : path[j] = Apply(path[j - 1], ops[j])
  <2>1. \A j \in 1..Len(ops) : j = 1 \/ j = 2 \/ j = 3
    BY <1>1
  <2> QED
    BY <1>1, <1>2, <1>3, <1>4, <1>5, <2>1
<1>7. Leads(s, ops, With(s, {ck, tk}, D))
  BY <1>1, <1>2, <1>6 DEF Leads
<1> QED
  BY <1>7 DEF ops

LEMMA SaveCatalogLeads ==
  ASSUME NEW s, IsStore(s), NEW U, Len(U) \in Nat, NEW D, Describes(D, U)
  PROVE  Leads(s, SaveCatalog(U), With(Without(s, CKeys), CatalogKeys(U, Len(U)), D))
<1> DEFINE n == Len(U)
           key == [j \in 1..MaxTables |-> CKey(j)]
           a == [j \in 1..MaxTables |-> Delete(CKey(j))]
           m == Without(s, CKeys)
           B == [j \in 1..n |-> << Put(CKey(j), U[j].name), Delete(TKey(U[j].name)),
                                  Put(TKey(U[j].name), U[j]) >>]
           store == [j \in 0..n |-> With(m, CatalogKeys(U, j), D)]
<1>1. SaveCatalog(U) = a \o FlattenSeq(B)
  BY DEF SaveCatalog
<1>2. Leads(s, a, m) /\ IsStore(m)
  <2>1. a = DeletesOf(MaxTables, key)
    BY DEF DeletesOf
  <2>2. CKeys = KeysIn(MaxTables, key)
    BY DEF CKeys, KeysIn
  <2>3. MaxTables \in Nat
    BY LimitsAssumption DEF LimitsAssumption
  <2> HIDE DEF a, key
  <2> QED
    BY <2>1, <2>2, <2>3, DeletesLead, StoresAgain
<1> HIDE DEF m
<1>3. ASSUME NEW j \in 1..n
      PROVE  Leads(store[j - 1], B[j], store[j])
  <2> DEFINE K == CatalogKeys(U, j - 1)
             ck == CKey(j)
             tk == TKey(U[j].name)
             w == With(m, K, D)
  <2>1. CatalogKeys(U, j) = K \cup {ck, tk}
    <3>1. 1..j = (1..j - 1) \cup {j}
      OBVIOUS
    <3> QED
      BY <3>1 DEF CatalogKeys
  <2>2. store[j - 1] = w /\ store[j] = With(m, CatalogKeys(U, j), D)
    OBVIOUS
  <2>3. B[j] = << Put(ck, U[j].name), Delete(tk), Put(tk, U[j]) >>
    OBVIOUS
  <2>4. D[ck] = U[j].name /\ D[tk] = U[j]
    BY DEF Describes
  <2> HIDE DEF K, ck, tk, store, B
  <2>5. IsStore(w) /\ With(w, {ck, tk}, D) = With(m, K \cup {ck, tk}, D)
    BY StoresAgain, WithMore
  <2> HIDE DEF w
  <2>6. Leads(w, << Put(ck, U[j].name), Delete(tk), Put(tk, U[j]) >>, With(w, {ck, tk}, D))
    BY <2>4, <2>5, EntryLeads
  <2> QED
    BY <2>1, <2>2, <2>3, <2>5, <2>6
<1>4. store[0] = m
  <2>1. CatalogKeys(U, 0) = {}
    BY DEF CatalogKeys
  <2>2. With(m, {}, D) = m
    BY <1>2 DEF With, IsStore
  <2> QED
    BY <2>1, <2>2
<1>5. store[n] = With(m, CatalogKeys(U, n), D)
  OBVIOUS
<1>6. B = [j \in 1..n |-> B[j]]
  OBVIOUS
<1> HIDE DEF store, B, a
<1>7. Leads(store[0], FlattenSeq(B), store[n])
  BY <1>3, <1>6, FlattenLeads
<1>8. Leads(s, a \o FlattenSeq(B), store[n])
  BY <1>2, <1>4, <1>7, LeadsThrough
<1> QED
  BY <1>1, <1>5, <1>8 DEF m
-----------------------------------------------------------------------------

(* A database: T lists the tables, R gives the rows of each name.            *)

(* A definition as save_catalog may write it. *)
IsTable(t) ==
  /\ t \in TableDef /\ t.name \in Names
  /\ t.pk \in 0..Len(t.cols)
  /\ \A x \in 1..Len(t.ixs) : /\ t.ixs[x].name \in IndexNames
                              /\ t.ixs[x].col \in 1..Len(t.cols)
                              /\ t.ixs[x].col = FindCol(t, t.cols[t.ixs[x].col])
  /\ \A x, y \in 1..Len(t.ixs) : t.ixs[x].name = t.ixs[y].name => x = y
  /\ \A f \in 1..Len(t.fks) : t.fks[f].col \in 1..Len(t.cols)

Refers(fk, p) == fk.table = p.name /\ p.pk = FindCol(p, fk.ref) /\ p.pk > 0

Definitions(T) ==
  /\ T \in Seq(TableDef) /\ Len(T) <= MaxTables
  /\ \A j \in 1..Len(T) : IsTable(T[j])
  /\ \A j, i \in 1..Len(T) : T[j].name = T[i].name => j = i
  /\ \A j \in 1..Len(T) : \A f \in 1..Len(T[j].fks) :
       \E p \in 1..Len(T) : Refers(T[j].fks[f], T[p])

RowFits(t) == [1..Len(t.cols) -> ColumnValues]
RowsFit(T, R) == \A j \in 1..Len(T) : R[T[j].name] \in Seq(RowFits(T[j]))

(* PRIMARY KEY and FOREIGN KEY. *)
KeyHolds(t, rows) ==
  t.pk > 0 => /\ \A r \in 1..Len(rows) : rows[r][t.pk] # Empty
              /\ \A r, q \in 1..Len(rows) : rows[r][t.pk] = rows[q][t.pk] => r = q
HasKey(p, rows, value) == \E q \in 1..Len(rows) : rows[q][p.pk] = value
(* The row's references lead to rows of the tables they name. *)
RowRefers(T, R, t, row) ==
  \A f \in 1..Len(t.fks) :
    /\ row[t.fks[f].col] # Empty
    /\ \A p \in 1..Len(T) : T[p].name = t.fks[f].table
         => HasKey(T[p], R[T[p].name], row[t.fks[f].col])
KeysHold(T, R) ==
  \A j \in 1..Len(T) :
    /\ KeyHolds(T[j], R[T[j].name])
    /\ \A r \in 1..Len(R[T[j].name]) : RowRefers(T, R, T[j], R[T[j].name][r])

(* The keys of a database's records, and their contents. *)
OfTable(k, t, rows) ==
  k = TKey(t.name) \/ k \in RKeysOf(t.name, Len(rows)) \/ k \in XKeysOf(t, rows)
IsC(k, T) == \E j \in 1..Len(T) : k = CKey(j)
IsRecord(k, T, R) == IsC(k, T) \/ \E j \in 1..Len(T) : OfTable(k, T[j], R[T[j].name])
Contents(s, t, rows) ==
  /\ s[TKey(t.name)] = t
  /\ \A r \in 1..Len(rows) : s[RKey(t.name, r)] = rows[r]
  /\ \A k \in XKeysOf(t, rows) : s[k] = ""

Layout(s, T, R) ==
  /\ IsStore(s)
  /\ \A k : k \in DOMAIN s <=> IsRecord(k, T, R)
  /\ \A j \in 1..Len(T) : s[CKey(j)] = T[j].name /\ Contents(s, T[j], R[T[j].name])

Holds(s, T, R) == Definitions(T) /\ RowsFit(T, R) /\ KeysHold(T, R) /\ Layout(s, T, R)

LEMMA Lengths ==
  ASSUME NEW T, Definitions(T)
  PROVE  /\ Len(T) \in Nat /\ Len(T) <= MaxTables /\ T = [j \in 1..Len(T) |-> T[j]]
         /\ \A j \in 1..Len(T) : Len(T[j].cols) \in Nat /\ Len(T[j].ixs) \in Nat /\ Len(T[j].fks) \in Nat
<1>1. T \in Seq(TableDef) /\ Len(T) <= MaxTables
  BY DEF Definitions
<1>2. \A t \in TableDef : Len(t.cols) \in Nat /\ Len(t.ixs) \in Nat /\ Len(t.fks) \in Nat
  BY DEF TableDef
<1>3. \A j \in 1..Len(T) : T[j] \in TableDef
  BY <1>1
<1> QED
  BY <1>1, <1>2, <1>3

LEMMA RowLengths ==
  ASSUME NEW T, NEW R, RowsFit(T, R), NEW j \in 1..Len(T)
  PROVE  /\ Len(R[T[j].name]) \in Nat
         /\ R[T[j].name] = [r \in 1..Len(R[T[j].name]) |-> R[T[j].name][r]]
         /\ \A r \in 1..Len(R[T[j].name]) : R[T[j].name][r] \in RowFits(T[j])
<1> DEFINE rows == R[T[j].name]
           S == RowFits(T[j])
<1>1. rows \in Seq(S)
  BY DEF RowsFit
<1> HIDE DEF rows, S
<1>2. Len(rows) \in Nat /\ rows = [r \in 1..Len(rows) |-> rows[r]] /\ \A r \in 1..Len(rows) : rows[r] \in S
  BY <1>1
<1> QED
  BY <1>2 DEF rows, S
-----------------------------------------------------------------------------
(* Which keys are in the store of a database. *)
LEMMA KeyOfTable ==
  ASSUME NEW t, NEW rows
  PROVE  /\ \A k : OfTable(k, t, rows) => k[1] # "C" /\ k[2] = t.name
         /\ \A k : OfTable(k, t, rows) /\ k[1] = "T" => k = TKey(t.name)
         /\ \A k : OfTable(k, t, rows) /\ k[1] = "R" => k \in RKeysOf(t.name, Len(rows))
         /\ \A k : OfTable(k, t, rows) /\ k[1] = "X" => k \in XKeysOf(t, rows)
         /\ \A k \in RKeysOf(t.name, Len(rows)) : k[1] = "R"
         /\ \A k \in XKeysOf(t, rows) : k[1] = "X"
         /\ TKey(t.name)[1] = "T"
<1>1. \A k \in RKeysOf(t.name, Len(rows)) : k[1] = "R" /\ k[2] = t.name
  BY KeyParts DEF RKeysOf
<1>2. \A k \in XKeysOf(t, rows) : k[1] = "X" /\ k[2] = t.name
  BY KeyParts, XKeysAre
<1>3. TKey(t.name)[1] = "T" /\ TKey(t.name)[2] = t.name
  BY KeyParts
<1> QED
  BY <1>1, <1>2, <1>3 DEF OfTable

LEMMA OwnKey ==
  /\ \A t, rows, k : OfTable(k, t, rows) => k[2] = t.name
  /\ \A t, rows, k : OfTable(k, t, rows) => k[1] # "C"
  /\ \A t, rows, k : OfTable(k, t, rows) /\ k[1] = "T" => k = TKey(t.name)
BY KeyOfTable

LEMMA CKeysAre ==
  /\ \A k, T : IsC(k, T) => k[1] = "C"
  /\ \A n, T : IsC(CKey(n), T) <=> n \in 1..Len(T)
<1>1. \A k, T : IsC(k, T) => k[1] = "C"
  BY KeyParts DEF IsC
<1>2. ASSUME NEW n, NEW T
      PROVE  IsC(CKey(n), T) <=> n \in 1..Len(T)
  BY KeyParts DEF IsC
<1> QED
  BY <1>1, <1>2

LEMMA LayoutHas ==
  ASSUME NEW s, NEW T, NEW R, Layout(s, T, R), NEW j \in 1..Len(T)
  PROVE  /\ CKey(j) \in DOMAIN s /\ s[CKey(j)] = T[j].name
         /\ TKey(T[j].name) \in DOMAIN s /\ s[TKey(T[j].name)] = T[j]
         /\ \A r \in 1..Len(R[T[j].name]) :
              RKey(T[j].name, r) \in DOMAIN s /\ s[RKey(T[j].name, r)] = R[T[j].name][r]
         /\ \A k : OfTable(k, T[j], R[T[j].name]) => k \in DOMAIN s
<1>1. IsC(CKey(j), T)
  BY DEF IsC
<1>2. \A k : OfTable(k, T[j], R[T[j].name]) => k \in DOMAIN s
  BY DEF Layout, IsRecord
<1>3. \A r \in 1..Len(R[T[j].name]) : OfTable(RKey(T[j].name, r), T[j], R[T[j].name])
  BY DEF OfTable, RKeysOf
<1>4. OfTable(TKey(T[j].name), T[j], R[T[j].name])
  BY DEF OfTable
<1>5. CKey(j) \in DOMAIN s /\ s[CKey(j)] = T[j].name /\ Contents(s, T[j], R[T[j].name])
  BY <1>1 DEF Layout, IsRecord
<1> QED
  BY <1>2, <1>3, <1>4, <1>5 DEF Contents

(* A record of a listed name that is no catalog slot is of that table.       *)
LEMMA LayoutOwns ==
  ASSUME NEW s, NEW T, NEW R, Definitions(T), Layout(s, T, R)
  PROVE  /\ \A k \in DOMAIN s : k[1] # "C" => \E i \in 1..Len(T) : OfTable(k, T[i], R[T[i].name])
         /\ \A j \in 1..Len(T) : \A k \in DOMAIN s :
              k[1] # "C" /\ k[2] = T[j].name => OfTable(k, T[j], R[T[j].name])
<1>1. ASSUME NEW k \in DOMAIN s, k[1] # "C"
      PROVE  \E i \in 1..Len(T) : OfTable(k, T[i], R[T[i].name])
  BY <1>1, CKeysAre DEF Layout, IsRecord
<1>2. ASSUME NEW j \in 1..Len(T), NEW k \in DOMAIN s, k[1] # "C", k[2] = T[j].name
      PROVE  OfTable(k, T[j], R[T[j].name])
  <2>1. PICK i \in 1..Len(T) : OfTable(k, T[i], R[T[i].name])
    BY <1>1, <1>2
  <2>2. k[2] = T[i].name
    BY <2>1, OwnKey
  <2>3a. T[i].name = T[j].name
    BY <1>2, <2>2
  <2>3. i = j
    BY <2>3a DEF Definitions
  <2> QED
    BY <2>1, <2>3
<1> QED
  BY <1>1, <1>2
-----------------------------------------------------------------------------
(* What load_catalog and load_rows make of the records of a database.        *)
LEMMA LayoutCatalog ==
  ASSUME NEW s, NEW T, NEW R, Definitions(T), Layout(s, T, R)
  PROVE  CatalogSlots(s) = 1..Len(T) /\ CatalogReadable(s, {}) /\ Catalog(s, {}) = T
<1>1. Len(T) \in Nat /\ Len(T) <= MaxTables /\ T = [j \in 1..Len(T) |-> T[j]]
  BY Lengths
<1>2. ASSUME NEW n \in 1..MaxTables
      PROVE  CKey(n) \in DOMAIN s <=> n \in 1..Len(T)
  <2>1. ASSUME CKey(n) \in DOMAIN s
        PROVE  n \in 1..Len(T)
    <3>1. \A i \in 1..Len(T) : ~OfTable(CKey(n), T[i], R[T[i].name])
      <4>1. CKey(n)[1] = "C"
        BY KeyParts
      <4> QED
        BY <4>1, OwnKey
    <3>2. IsC(CKey(n), T)
      BY <2>1, <3>1 DEF Layout, IsRecord
    <3> QED
      BY <3>2, CKeysAre
  <2> QED
    BY <2>1, LayoutHas
<1>3. CatalogSlots(s) = 1..Len(T)
  <2>1. 1..Len(T) \subseteq 1..MaxTables
    BY <1>1, LimitsAssumption DEF LimitsAssumption
  <2> QED
    BY <1>2, <2>1 DEF CatalogSlots
<1>4. CatalogSlots(s) \ {} = 1..Len(T)
  BY <1>3
<1>5. \A j \in 1..Len(T) : s[CKey(j)] = T[j].name /\ s[TKey(T[j].name)] = T[j] /\ TKey(T[j].name) \in DOMAIN s
  BY LayoutHas
<1>6. CatalogReadable(s, {})
  BY <1>4, <1>5 DEF CatalogReadable
<1>7. /\ Ascending(1..Len(T)) = Run(Len(T)) /\ Len(Run(Len(T))) = Len(T)
      /\ \A j \in 1..Len(T) : Run(Len(T))[j] = j
  BY <1>1, AscendingRun, RunIs
<1>8. Catalog(s, {}) = [j \in 1..Len(T) |-> s[TKey(s[CKey(j)])]]
  BY <1>4, <1>7 DEF Catalog
<1>9. [j \in 1..Len(T) |-> s[TKey(s[CKey(j)])]] = [j \in 1..Len(T) |-> T[j]]
  BY <1>5
<1> QED
  BY <1>1, <1>3, <1>6, <1>8, <1>9

LEMMA LayoutRows ==
  ASSUME NEW s, NEW T, NEW R, Definitions(T), RowsFit(T, R), Layout(s, T, R),
         NEW j \in 1..Len(T)
  PROVE  /\ RowSlots(s, T[j].name) = 1..Len(R[T[j].name])
         /\ SlotSeq(s, T[j].name) = Run(Len(R[T[j].name]))
         /\ LoadRows(s, T[j]) = R[T[j].name]
<1> DEFINE name == T[j].name
           rows == R[T[j].name]
           n == Len(rows)
<1>1. n \in Nat /\ rows = [r \in 1..n |-> rows[r]]
  BY RowLengths
<1>2. ASSUME NEW k \in DOMAIN s, k[1] = "R", k[2] = name
      PROVE  k[3] \in 1..n
  <2>1. OfTable(k, T[j], rows)
    BY <1>2, LayoutOwns
  <2>2. k \in RKeysOf(name, n)
    BY <1>2, <2>1, KeyOfTable, Zenon
  <2> QED
    BY <2>2, KeyParts DEF RKeysOf
<1>3. ASSUME NEW r \in 1..n
      PROVE  RKey(name, r) \in DOMAIN s /\ s[RKey(name, r)] = rows[r]
  BY LayoutHas
<1>4. RowSlots(s, name) = 1..n
  <2>1. \A r \in 1..n : r \in RowSlots(s, name)
    <3> SUFFICES ASSUME NEW r \in 1..n
                 PROVE  r \in RowSlots(s, name)
      OBVIOUS
    <3>1. RKey(name, r) \in {k \in DOMAIN s : k[1] = "R" /\ k[2] = name} /\ RKey(name, r)[3] = r
      BY <1>3, KeyParts
    <3> QED
      BY <3>1 DEF RowSlots
  <2>2. \A r \in RowSlots(s, name) : r \in 1..n
    BY <1>2 DEF RowSlots
  <2> QED
    BY <2>1, <2>2
<1>5. SlotSeq(s, name) = Run(n) /\ Len(Run(n)) = n /\ \A r \in 1..n : Run(n)[r] = r
  BY <1>1, <1>4, AscendingRun, RunIs DEF SlotSeq
<1>6. LoadRows(s, T[j]) = [r \in 1..n |-> s[RKey(name, r)]]
  BY <1>5 DEF LoadRows
<1>7. [r \in 1..n |-> s[RKey(name, r)]] = [r \in 1..n |-> rows[r]]
  BY <1>3
<1> QED
  BY <1>1, <1>4, <1>5, <1>6, <1>7

LEMMA LayoutIndex ==
  ASSUME NEW s, NEW T, NEW R, Definitions(T), RowsFit(T, R), Layout(s, T, R),
         NEW j \in 1..Len(T)
  PROVE  /\ IndexKeys(s, T[j].name) = XKeysOf(T[j], R[T[j].name])
         /\ IsFiniteSet(XKeysOf(T[j], R[T[j].name]))
<1> DEFINE name == T[j].name
           t == T[j]
           rows == R[name]
<1>1. ASSUME NEW k \in IndexKeys(s, name)
      PROVE  k \in XKeysOf(t, rows)
  <2>1. k \in DOMAIN s /\ k[1] = "X" /\ k[2] = name
    BY DEF IndexKeys
  <2>2. OfTable(k, t, rows)
    BY <2>1, LayoutOwns
  <2> QED
    BY <2>1, <2>2, KeyOfTable
<1>2. ASSUME NEW k \in XKeysOf(t, rows)
      PROVE  k \in IndexKeys(s, name)
  <2>1. OfTable(k, t, rows)
    BY DEF OfTable
  <2>2. k \in DOMAIN s
    BY <2>1, LayoutHas
  <2>3. k[1] = "X" /\ k[2] = name
    BY <2>1, KeyOfTable
  <2> QED
    BY <2>2, <2>3 DEF IndexKeys
<1>3. Len(t.ixs) \in Nat /\ Len(rows) \in Nat
  BY Lengths, RowLengths
<1> HIDE DEF t, rows
<1>4. IsFiniteSet(XKeysOf(t, rows))
  BY <1>3, XKeysFinite
<1> QED
  BY <1>1, <1>2, <1>4 DEF t, rows
-----------------------------------------------------------------------------
(* A store that is the layout of a database is sound in the sense of the     *)
(* three invariants of Engine.                                               *)
LEMMA LayoutSound ==
  ASSUME NEW s, NEW T, NEW R, Definitions(T), Layout(s, T, R)
  PROVE  CatalogOf(s)
<1> DEFINE n == Len(T)
           slots == CatalogSlots(s)
           listed == {s[CKey(i)] : i \in slots}
           f == [j \in 1..n |-> T[j].name]
<1>1. n \in Nat /\ slots = 1..n
  BY Lengths, LayoutCatalog
<1>2. Cardinality(1..n) = n
  <2> HIDE DEF n
  <2> QED
    BY <1>1, AscendingRun
<1>3. \A j \in 1..n : s[CKey(j)] = T[j].name /\ TKey(T[j].name) \in DOMAIN s
  BY LayoutHas
<1>4. listed = {f[j] : j \in 1..n}
  BY <1>1, <1>3
<1>5. \A i, j \in 1..n : f[i] = f[j] => i = j
  BY DEF Definitions
<1>6. f \in Bijection(1..n, listed)
  <2>1. f \in [1..n -> listed] /\ \A x \in listed : \E j \in 1..n : f[j] = x
    BY <1>4
  <2> HIDE DEF f, listed
  <2> QED
    BY <1>5, <2>1 DEF Bijection, Injection, Surjection, IsInjective
<1>7. Cardinality(listed) = n
  <2> HIDE DEF f, listed, n
  <2>1. ExistsBijection(1..n, listed)
    BY <1>6 DEF ExistsBijection
  <2> QED
    BY <1>1, <2>1, FS_CountingElements
<1>8. ASSUME NEW k \in DOMAIN s, k[1] # "C"
      PROVE  k[2] \in listed
  <2>1. PICK i \in 1..n : OfTable(k, T[i], R[T[i].name])
    BY <1>8, LayoutOwns
  <2>2. k[2] = T[i].name
    BY <2>1, OwnKey
  <2> QED
    BY <1>4, <2>2
<1>9. \A name \in listed : TKey(name) \in DOMAIN s
  BY <1>3, <1>4
<1> HIDE DEF listed
<1> QED
  BY <1>1, <1>2, <1>7, <1>8, <1>9 DEF CatalogOf, listed

(* Which table a foreign key leads to. *)
LEMMA ReferredTable ==
  ASSUME NEW T, Definitions(T), NEW p \in 1..Len(T), NEW fk, Refers(fk, T[p])
  PROVE  /\ FindTable(T, fk.table) = p
         /\ FindCol(T[p], fk.ref) > 0 /\ T[p].pk = FindCol(T[p], fk.ref)
         /\ fk.ref = T[p].cols[T[p].pk]
<1>1. Len(T) \in Nat /\ Len(T[p].cols) \in Nat
  BY Lengths
<1>2. fk.table = T[p].name /\ T[p].pk = FindCol(T[p], fk.ref) /\ T[p].pk > 0
  BY DEF Refers
<1> DEFINE i == FindTable(T, fk.table)
<1>3. i \in 0..Len(T) /\ (i > 0 => T[i].name = fk.table)
      /\ (i = 0 => \A j \in 1..Len(T) : ~(T[j].name = fk.table))
  BY <1>1, FindTableIs
<1> HIDE DEF i
<1>4. i \in 1..Len(T) /\ T[i].name = T[p].name
  BY <1>1, <1>2, <1>3
<1>5. i = p
  BY <1>4 DEF Definitions
<1>6. T[p].cols[FindCol(T[p], fk.ref)] = fk.ref
  BY <1>1, <1>2, FindColIs
<1> QED
  BY <1>2, <1>5, <1>6 DEF i

(* check_foreign_keys accepts exactly the rows whose references hold.        *)
LEMMA ForeignKeysChecked ==
  ASSUME NEW s, NEW T, NEW R, Definitions(T), RowsFit(T, R), Layout(s, T, R),
         NEW j \in 1..Len(T), NEW row
  PROVE  CheckForeignKeys(s, T, T[j], row) <=> RowRefers(T, R, T[j], row)
<1>1. ASSUME NEW f \in 1..Len(T[j].fks), NEW value
      PROVE  FkValueExists(s, T, T[j].fks[f], value) <=>
               \A p \in 1..Len(T) : T[p].name = T[j].fks[f].table => HasKey(T[p], R[T[p].name], value)
  <2> DEFINE fk == T[j].fks[f]
  <2>1. PICK p \in 1..Len(T) : Refers(fk, T[p])
    BY DEF Definitions
  <2> HIDE DEF fk
  <2>2. FindTable(T, fk.table) = p /\ FindCol(T[p], fk.ref) > 0 /\ T[p].pk = FindCol(T[p], fk.ref)
    BY <2>1, ReferredTable
  <2>3. \A i \in 1..Len(T) : T[i].name = fk.table <=> i = p
    BY <2>1 DEF Refers, Definitions
  <2>4. LoadRows(s, T[p]) = R[T[p].name] /\ Len(R[T[p].name]) \in Nat
    <3>1. LoadRows(s, T[p]) = R[T[p].name]
      BY LayoutRows
    <3>2. Len(R[T[p].name]) \in Nat
      BY RowLengths
    <3> QED
      BY <3>1, <3>2
  <2> DEFINE q == FindPkDuplicate(T[p], R[T[p].name], value)
  <2>5. q > 0 <=> HasKey(T[p], R[T[p].name], value)
    <3>1. q \in 0..Len(R[T[p].name])
          /\ (q > 0 => R[T[p].name][q][T[p].pk] = value)
          /\ (q = 0 => \A i \in 1..Len(R[T[p].name]) : ~(R[T[p].name][i][T[p].pk] = value))
      BY <2>4, FindPkDuplicateIs
    <3> HIDE DEF q
    <3> QED
      BY <2>4, <3>1 DEF HasKey
  <2>6. FkValueExists(s, T, fk, value) <=> q > 0
    BY <2>2, <2>4 DEF FkValueExists
  <2> HIDE DEF q
  <2>7. FkValueExists(s, T, fk, value) <=>
          \A i \in 1..Len(T) : T[i].name = fk.table => HasKey(T[i], R[T[i].name], value)
    BY <2>3, <2>5, <2>6
  <2> QED
    BY <2>7 DEF fk
<1>2. CheckForeignKeys(s, T, T[j], row) <=>
        \A f \in 1..Len(T[j].fks) :
          row[T[j].fks[f].col] # Empty /\ FkValueExists(s, T, T[j].fks[f], row[T[j].fks[f].col])
  BY DEF CheckForeignKeys
<1>3. RowRefers(T, R, T[j], row) <=>
        \A f \in 1..Len(T[j].fks) :
          /\ row[T[j].fks[f].col] # Empty
          /\ \A p \in 1..Len(T) : T[p].name = T[j].fks[f].table
               => HasKey(T[p], R[T[p].name], row[T[j].fks[f].col])
  BY DEF RowRefers
<1> QED
  BY <1>1, <1>2, <1>3, Zenon

LEMMA LayoutKeys ==
  ASSUME NEW s, NEW T, NEW R, Holds(s, T, R)
  PROVE  KeysOf(s)
<1>1. Definitions(T) /\ RowsFit(T, R) /\ KeysHold(T, R) /\ Layout(s, T, R)
  BY DEF Holds
<1>2. Catalog(s, {}) = T
  BY <1>1, LayoutCatalog
<1>3. ASSUME NEW j \in 1..Len(T)
      PROVE  LET t == T[j]
                 rows == LoadRows(s, t)
             IN  /\ t.pk > 0 => /\ \A r \in 1..Len(rows) : rows[r][t.pk] # Empty
                                /\ IsInjective([r \in 1..Len(rows) |-> rows[r][t.pk]])
                 /\ \A r \in 1..Len(rows) : CheckForeignKeys(s, T, t, rows[r])
  <2> DEFINE t == T[j]
             rows == R[t.name]
  <2>1. LoadRows(s, t) = rows
    <3>1. LoadRows(s, T[j]) = R[T[j].name]
      BY <1>1, LayoutRows
    <3> QED
      BY <3>1
  <2>2. KeyHolds(t, rows) /\ \A r \in 1..Len(rows) : RowRefers(T, R, t, rows[r])
    BY <1>1 DEF KeysHold
  <2>3. \A r \in 1..Len(rows) : CheckForeignKeys(s, T, t, rows[r])
    BY <1>1, <2>2, ForeignKeysChecked
  <2> HIDE DEF t, rows
  <2>4. t.pk > 0 => /\ \A r \in 1..Len(rows) : rows[r][t.pk] # Empty
                    /\ IsInjective([r \in 1..Len(rows) |-> rows[r][t.pk]])
    BY <2>2 DEF KeyHolds, IsInjective
  <2> QED
    BY <2>1, <2>3, <2>4 DEF t
<1> QED
  BY <1>2, <1>3 DEF KeysOf

LEMMA LayoutSelects ==
  ASSUME NEW s, NEW T, NEW R, Definitions(T), RowsFit(T, R), Layout(s, T, R)
  PROVE  SelectsAgree(s)
<1>1. Catalog(s, {}) = T
  BY LayoutCatalog
<1>2. ASSUME NEW j \in 1..Len(T), NEW y \in 1..Len(T[j].ixs), NEW where,
             where.col = T[j].cols[T[j].ixs[y].col]
      PROVE  IndexSelect(s, T[j], where) = ScanSelect(s, T[j], where)
  <2> DEFINE t == T[j]
             rows == R[t.name]
             c == FindCol(t, where.col)
             i == FindIndexCol(t, c)
             x == t.ixs[i].name
             hits == {k \in IndexKeys(s, t.name) :
                        /\ k[3] = x /\ RKey(t.name, k[5]) \in DOMAIN s
                        /\ WhereMatch(t, s[RKey(t.name, k[5])], where)}
             K(r) == XKey(t.name, x, rows[r][t.ixs[i].col], r)
  <2>1. Len(t.ixs) \in Nat /\ Len(rows) \in Nat
    BY Lengths, RowLengths
  <2>2. IsTable(t)
    BY DEF Definitions
  <2>3. i \in 1..Len(t.ixs)
    <3>1. t.ixs[y].col = c
      BY <1>2, <2>2 DEF IsTable
    <3> HIDE DEF t, c
    <3> QED
      BY <2>1, <3>1, FindIndexColIs DEF t
  <2>4. \A r \in 1..Len(rows) : RKey(t.name, r) \in DOMAIN s /\ s[RKey(t.name, r)] = rows[r]
    BY LayoutHas
  <2>5. IndexKeys(s, t.name) = XKeysOf(t, rows) /\ RowSlots(s, t.name) = 1..Len(rows)
    <3>1. IndexKeys(s, T[j].name) = XKeysOf(T[j], R[T[j].name])
      BY LayoutIndex
    <3>2. RowSlots(s, T[j].name) = 1..Len(R[T[j].name])
      BY LayoutRows
    <3> QED
      BY <3>1, <3>2
  <2>6. \A a, b \in 1..Len(t.ixs) : t.ixs[a].name = t.ixs[b].name => a = b
    BY <2>2 DEF IsTable
  <2> HIDE DEF t, rows, i
  <2>7. \A k : k \in IndexKeys(s, t.name) /\ k[3] = x <=> \E r \in 1..Len(rows) : k = K(r)
    <3>1. ASSUME NEW k \in IndexKeys(s, t.name), k[3] = x
          PROVE  \E r \in 1..Len(rows) : k = K(r)
      <4>1. PICK a \in 1..Len(t.ixs) : \E r \in 1..Len(rows) :
              k = XKey(t.name, t.ixs[a].name, rows[r][t.ixs[a].col], r)
        BY <2>5, XKeysAre
      <4>2. PICK r \in 1..Len(rows) : k = XKey(t.name, t.ixs[a].name, rows[r][t.ixs[a].col], r)
        BY <4>1
      <4>3. k[3] = t.ixs[a].name
        BY <4>2, KeyParts
      <4>4. a = i
        BY <2>3, <2>6, <3>1, <4>3
      <4> QED
        BY <4>2, <4>4
    <3>2. ASSUME NEW r \in 1..Len(rows)
          PROVE  K(r) \in IndexKeys(s, t.name) /\ K(r)[3] = x
      BY <2>3, <2>5, XKeysAre, KeyParts
    <3> QED
      BY <3>1, <3>2
  <2>8. \A r : K(r)[5] = r
    BY KeyParts
  <2> DEFINE good == {r \in 1..Len(rows) : WhereMatch(t, rows[r], where)}
  <2> HIDE DEF x, K
  <2>9. \A k : k \in hits <=> \E r \in good : k = K(r)
    BY <2>4, <2>7, <2>8
  <2>10. {k[5] : k \in hits} = good
    BY <2>8, <2>9
  <2>11. \A r \in good : {k \in hits : k[5] = r} = {K(r)}
    BY <2>8, <2>9
  <2>12. \A r \in good : Cardinality({k \in hits : k[5] = r}) = 1
    BY <2>11, FS_Singleton
  <2>13. {r \in RowSlots(s, t.name) : WhereMatch(t, s[RKey(t.name, r)], where)} = good
    BY <2>4, <2>5
  <2>14. ScanSelect(s, t, where) = [r \in good |-> 1]
    BY <2>13 DEF ScanSelect
  <2>15. IndexSelect(s, t, where) = [r \in {k[5] : k \in hits} |-> Cardinality({k \in hits : k[5] = r})]
    BY DEF IndexSelect, x, i
  <2> HIDE DEF hits, good
  <2>16. [r \in {k[5] : k \in hits} |-> Cardinality({k \in hits : k[5] = r})] = [r \in good |-> 1]
    BY <2>10, <2>12
  <2> QED
    BY <2>14, <2>15, <2>16 DEF t
<1>3. ASSUME NEW t \in Range(T)
      PROVE  \E j \in 1..Len(T) : t = T[j]
  BY Lengths DEF Range
<1>4. ASSUME NEW j \in 1..Len(T), NEW x \in Range(T[j].ixs)
      PROVE  \E y \in 1..Len(T[j].ixs) : x = T[j].ixs[y]
  <2>1. T[j].ixs \in Seq([name : STRING, col : Nat])
    BY DEF Definitions, TableDef, IsTable
  <2> QED
    BY <2>1 DEF Range
<1>5. ASSUME NEW t \in Range(Catalog(s, {})), NEW v \in ColumnValues, NEW x \in Range(t.ixs)
      PROVE  LET where == [col |-> t.cols[x.col], val |-> v]
             IN  IndexSelect(s, t, where) = ScanSelect(s, t, where)
  <2> DEFINE where == [col |-> t.cols[x.col], val |-> v]
  <2>1. PICK j \in 1..Len(T) : t = T[j]
    BY <1>1, <1>3
  <2>2. PICK y \in 1..Len(T[j].ixs) : x = T[j].ixs[y]
    BY <1>4, <2>1
  <2>3. where.col = T[j].cols[T[j].ixs[y].col]
    BY <2>1, <2>2
  <2> HIDE DEF where
  <2>4. IndexSelect(s, T[j], where) = ScanSelect(s, T[j], where)
    BY <1>2, <2>3
  <2> QED
    BY <2>1, <2>4 DEF where
<1> QED
  BY <1>5 DEF SelectsAgree
-----------------------------------------------------------------------------
(* What the writes of the statements make of the layout of a database.       *)
LEMMA WithHas ==
  /\ \A s, K, D, k : k \in DOMAIN With(s, K, D) <=> k \in DOMAIN s \/ k \in K
  /\ \A s, K, D, k : k \in K => With(s, K, D)[k] = D[k]
  /\ \A s, K, D, k : k \in DOMAIN s /\ k \notin K => With(s, K, D)[k] = s[k]
BY DEF With

LEMMA WithoutHas ==
  /\ \A s, K, k : k \in DOMAIN Without(s, K) <=> k \in DOMAIN s /\ k \notin K
  /\ \A s, K, k : k \in DOMAIN s /\ k \notin K => Without(s, K)[k] = s[k]
BY DEF Without

(* The record k belongs to no table of this name. *)
Elsewhere(k, name) == k[1] = "C" \/ k[2] # name
(* From s to z only the records of one table change, which becomes t.        *)
ChangesTable(s, z, t, rows) ==
  /\ IsStore(z)
  /\ \A k : k \in DOMAIN z <=> (k \in DOMAIN s /\ Elsewhere(k, t.name)) \/ OfTable(k, t, rows)
  /\ \A k \in DOMAIN s : Elsewhere(k, t.name) => z[k] = s[k]
  /\ Contents(z, t, rows)

Changed(R, name, rows) == [n \in Names |-> IF n = name THEN rows ELSE R[n]]

LEMMA ChangedIs ==
  /\ \A R, name, rows : name \in Names => Changed(R, name, rows)[name] = rows
  /\ \A R, name, rows, n : n \in Names /\ n # name => Changed(R, name, rows)[n] = R[n]
BY DEF Changed

LEMMA ChangedRows ==
  ASSUME NEW T, NEW R, Definitions(T), NEW j \in 1..Len(T), NEW rows
  PROVE  /\ Changed(R, T[j].name, rows)[T[j].name] = rows
         /\ \A i \in 1..Len(T) : i # j => Changed(R, T[j].name, rows)[T[i].name] = R[T[i].name]
<1>1. \A i \in 1..Len(T) : T[i].name \in Names
  BY DEF Definitions, IsTable
<1>2. \A i \in 1..Len(T) : i # j => T[i].name # T[j].name
  BY DEF Definitions
<1> QED
  BY <1>1, <1>2 DEF Changed

LEMMA ContentsKept ==
  ASSUME NEW s, NEW z, NEW t, NEW rows, Contents(s, t, rows),
         \A k : OfTable(k, t, rows) => z[k] = s[k]
  PROVE  Contents(z, t, rows)
<1>1. OfTable(TKey(t.name), t, rows)
  BY DEF OfTable
<1>2. \A r \in 1..Len(rows) : OfTable(RKey(t.name, r), t, rows)
  BY DEF OfTable, RKeysOf
<1>3. \A k \in XKeysOf(t, rows) : OfTable(k, t, rows)
  BY DEF OfTable
<1> QED
  BY <1>1, <1>2, <1>3 DEF Contents

LEMMA OneTable ==
  ASSUME NEW s, NEW T, NEW R, Definitions(T), Layout(s, T, R), NEW j \in 1..Len(T),
         NEW t, t.name = T[j].name, NEW rows, NEW z, ChangesTable(s, z, t, rows)
  PROVE  Layout(z, [T EXCEPT ![j] = t], Changed(R, t.name, rows))
<1> DEFINE U == [T EXCEPT ![j] = t]
           Q == Changed(R, t.name, rows)
           name == t.name
<1>1. /\ Len(U) = Len(T) /\ U[j] = t /\ \A i \in 1..Len(T) : i # j => U[i] = T[i]
  BY Lengths
<1>2. Q[name] = rows /\ \A i \in 1..Len(T) : i # j => Q[T[i].name] = R[T[i].name]
  BY ChangedRows
<1>3. \A i \in 1..Len(T) : i # j => T[i].name # name
  BY DEF Definitions
<1>4. \A i \in 1..Len(T) : U[i].name = T[i].name
  BY <1>1
<1> HIDE DEF U, Q
<1>5. \A k : IsC(k, U) <=> IsC(k, T)
  BY <1>1 DEF IsC
<1>6. ASSUME NEW k
      PROVE  k \in DOMAIN z <=> IsRecord(k, U, Q)
  <2>1. k \in DOMAIN s <=> IsC(k, T) \/ \E i \in 1..Len(T) : OfTable(k, T[i], R[T[i].name])
    BY DEF Layout, IsRecord
  <2>2. IsC(k, T) => Elsewhere(k, name)
    BY CKeysAre DEF Elsewhere
  <2>3. \A i \in 1..Len(T) : OfTable(k, T[i], R[T[i].name]) => (Elsewhere(k, name) <=> i # j)
    BY <1>3, OwnKey DEF Elsewhere
  <2>4. k \in DOMAIN s /\ Elsewhere(k, name) <=>
          IsC(k, T) \/ \E i \in 1..Len(T) : i # j /\ OfTable(k, T[i], R[T[i].name])
    BY <2>1, <2>2, <2>3
  <2>5. \A i \in 1..Len(T) : i # j => (OfTable(k, U[i], Q[U[i].name]) <=> OfTable(k, T[i], R[T[i].name]))
    BY <1>1, <1>2
  <2>6. OfTable(k, U[j], Q[U[j].name]) <=> OfTable(k, t, rows)
    BY <1>1, <1>2
  <2>7. IsRecord(k, U, Q) <=> IsC(k, T) \/ \E i \in 1..Len(T) : OfTable(k, U[i], Q[U[i].name])
    BY <1>1, <1>5 DEF IsRecord
  <2>8. k \in DOMAIN z <=> (k \in DOMAIN s /\ Elsewhere(k, name)) \/ OfTable(k, t, rows)
    BY DEF ChangesTable
  <2> QED
    BY <2>4, <2>5, <2>6, <2>7, <2>8
<1>7. ASSUME NEW i \in 1..Len(U)
      PROVE  z[CKey(i)] = U[i].name /\ Contents(z, U[i], Q[U[i].name])
  <2>1. CKey(i) \in DOMAIN s /\ s[CKey(i)] = T[i].name
    BY <1>1, LayoutHas
  <2>2. Elsewhere(CKey(i), name)
    BY KeyParts DEF Elsewhere
  <2>3. z[CKey(i)] = U[i].name
    BY <1>1, <1>4, <2>1, <2>2 DEF ChangesTable
  <2>4. CASE i = j
    BY <1>1, <1>2, <2>3, <2>4 DEF ChangesTable
  <2>5. CASE i # j
    <3>1. U[i] = T[i] /\ Q[U[i].name] = R[T[i].name] /\ Contents(s, T[i], R[T[i].name])
      BY <1>1, <1>2, <2>5 DEF Layout
    <3>2. \A k : OfTable(k, T[i], R[T[i].name]) => k \in DOMAIN s /\ Elsewhere(k, name)
      BY <1>1, <1>3, <2>5, LayoutHas, OwnKey DEF Elsewhere
    <3>3. \A k : OfTable(k, T[i], R[T[i].name]) => z[k] = s[k]
      BY <3>2 DEF ChangesTable
    <3>4. Contents(z, T[i], R[T[i].name])
      BY <3>1, <3>3, ContentsKept
    <3> QED
      BY <2>3, <3>1, <3>4
  <2> QED
    BY <2>4, <2>5
<1> QED
  BY <1>6, <1>7 DEF Layout, ChangesTable, U, Q

(* save_rows. *)
LEMMA SavedChanges ==
  ASSUME NEW s, NEW T, NEW R, Definitions(T), RowsFit(T, R), Layout(s, T, R),
         NEW j \in 1..Len(T), NEW rows, Len(rows) \in Nat
  PROVE  LET z == Saved(s, T[j], Len(R[T[j].name]), rows)
         IN  Leads(s, SaveRows(s, T[j], rows), z) /\ ChangesTable(s, z, T[j], rows)
<1> DEFINE t == T[j]
           name == t.name
           old == R[name]
           RK == RKeysOf(name, Len(old))
           RN == RKeysOf(name, Len(rows))
           XK == IndexKeys(s, name)
           XN == XKeysOf(t, rows)
           z == Saved(s, t, Len(old), rows)
<1>1. IsStore(s)
  BY DEF Layout
<1>2. Len(t.ixs) \in Nat /\ Len(old) \in Nat
  BY Lengths, RowLengths
<1>3. SlotSeq(s, name) = Run(Len(old))
  BY LayoutRows
<1>4. XK = XKeysOf(t, old) /\ IsFiniteSet(XK)
  BY LayoutIndex
<1>5. Leads(s, SaveRows(s, t, rows), z)
  <2> HIDE DEF t, old
  <2> QED
    BY <1>1, <1>2, <1>3, <1>4, SaveRowsLead
<1>6. \A k \in DOMAIN s : ~Elsewhere(k, name) => k = TKey(name) \/ k \in RK \/ k \in XK
  <2>1. \A k \in DOMAIN s : ~Elsewhere(k, name) => OfTable(k, t, old)
    BY LayoutOwns DEF Elsewhere
  <2> QED
    BY <1>4, <2>1 DEF OfTable
<1>7. /\ TKey(name) \in DOMAIN s /\ s[TKey(name)] = t
  BY LayoutHas
<1>8. /\ \A k \in RK : k[1] = "R" /\ k[2] = name
      /\ \A k \in RN : k[1] = "R" /\ k[2] = name
      /\ \A k \in XK : k[1] = "X" /\ k[2] = name
      /\ \A k \in XN : k[1] = "X" /\ k[2] = name
      /\ TKey(name)[1] = "T" /\ TKey(name)[2] = name
  <2>1. /\ \A k \in RK : k[1] = "R" /\ k[2] = name
        /\ \A k \in RN : k[1] = "R" /\ k[2] = name
    BY KeyParts DEF RKeysOf
  <2>2. \A k \in XK : k[1] = "X" /\ k[2] = name
    BY DEF IndexKeys
  <2>3. \A k \in XN : k[1] = "X" /\ k[2] = name
    BY XKeysAre, KeyParts
  <2> QED
    BY <2>1, <2>2, <2>3, KeyParts
<1> DEFINE a == Replaced(s, name, Len(old), rows)
<1>9. /\ \A k : k \in DOMAIN a <=> (k \in DOMAIN s /\ k \notin RK) \/ k \in RN
      /\ \A k \in RN : a[k] = RData(rows, name)[k]
      /\ \A k \in DOMAIN s : k \notin RK /\ k \notin RN => a[k] = s[k]
  BY WithHas, WithoutHas DEF Replaced
<1>10. /\ \A k : k \in DOMAIN z <=> (k \in DOMAIN a /\ k \notin XK) \/ k \in XN
       /\ \A k \in XN : z[k] = XData(t, rows)[k]
       /\ \A k \in DOMAIN a : k \notin XK /\ k \notin XN => z[k] = a[k]
  BY WithHas, WithoutHas DEF Saved, Indexed
<1>11. \A k \in RN : RData(rows, name)[k] = rows[k[3]]
  BY DEF RData
<1>12. \A k \in XN : XData(t, rows)[k] = ""
  BY DEF XData
<1>13. \A r \in 1..Len(rows) : RKey(name, r) \in RN /\ RKey(name, r)[3] = r
  BY KeyParts DEF RKeysOf
<1>14. IsStore(z)
  BY StoresAgain DEF Saved, Indexed
<1>15. \A k : OfTable(k, t, rows) <=> k = TKey(name) \/ k \in RN \/ k \in XN
  BY DEF OfTable
<1> HIDE DEF t, old, RK, RN, XK, XN, a, z
<1>16. \A k : k \in DOMAIN z <=> (k \in DOMAIN s /\ Elsewhere(k, name)) \/ OfTable(k, t, rows)
  BY <1>6, <1>7, <1>8, <1>9, <1>10, <1>15 DEF Elsewhere
<1>17. \A k \in DOMAIN s : Elsewhere(k, name) => z[k] = s[k]
  BY <1>8, <1>9, <1>10 DEF Elsewhere
<1>18. Contents(z, t, rows)
  <2>1. \A r \in 1..Len(rows) : z[RKey(name, r)] = rows[r]
    BY <1>8, <1>9, <1>10, <1>11, <1>13
  <2>2. \A k \in XN : z[k] = ""
    BY <1>10, <1>12
  <2>3. z[TKey(name)] = t
    BY <1>7, <1>8, <1>9, <1>10
  <2> QED
    BY <2>1, <2>2, <2>3 DEF Contents, XN
<1> QED
  BY <1>5, <1>14, <1>16, <1>17, <1>18 DEF ChangesTable, z, t, old

(* save_catalog makes a database of a store that holds its rows and indexes. *)
RowsLaid(m, U, Q) ==
  /\ IsStore(m)
  /\ \A k \in DOMAIN m : k[1] = "C" => k \in CKeys
  /\ \A k \in DOMAIN m : k[1] = "T" => \E i \in 1..Len(U) : k = TKey(U[i].name)
  /\ \A k : k[1] # "C" /\ k[1] # "T" =>
       (k \in DOMAIN m <=> \E i \in 1..Len(U) : OfTable(k, U[i], Q[U[i].name]))
  /\ \A i \in 1..Len(U) :
       /\ \A r \in 1..Len(Q[U[i].name]) : m[RKey(U[i].name, r)] = Q[U[i].name][r]
       /\ \A k \in XKeysOf(U[i], Q[U[i].name]) : m[k] = ""

Distinct(U) == \A i, j \in 1..Len(U) : U[i].name = U[j].name => i = j

LEMMA DescribesSome ==
  ASSUME NEW U, Distinct(U)
  PROVE  \E D : Describes(D, U)
<1> DEFINE K == CatalogKeys(U, Len(U))
           At(name) == CHOOSE i \in 1..Len(U) : U[i].name = name
           D == [k \in K |-> IF k[1] = "C" THEN U[k[2]].name ELSE U[At(k[2])]]
<1>1. ASSUME NEW j \in 1..Len(U)
      PROVE  D[CKey(j)] = U[j].name /\ D[TKey(U[j].name)] = U[j]
  <2>1. CKey(j) \in K /\ TKey(U[j].name) \in K
    BY DEF CatalogKeys
  <2>2. At(U[j].name) = j
    BY DEF Distinct
  <2> HIDE DEF K, At
  <2> QED
    BY <2>1, <2>2, KeyParts
<1> HIDE DEF D
<1>2. Describes(D, U)
  BY <1>1 DEF Describes
<1> QED
  BY <1>2

LEMMA CatalogKeysAre ==
  ASSUME NEW U
  PROVE  \A k : k \in CatalogKeys(U, Len(U)) <=>
                  IsC(k, U) \/ \E i \in 1..Len(U) : k = TKey(U[i].name)
BY DEF CatalogKeys, IsC

LEMMA CatalogSaved ==
  ASSUME NEW m, NEW U, NEW Q, Len(U) \in Nat, Len(U) <= MaxTables, Distinct(U),
         RowsLaid(m, U, Q)
  PROVE  \E z : Leads(m, SaveCatalog(U), z) /\ Layout(z, U, Q)
<1>1. PICK D : Describes(D, U)
  BY DescribesSome
<1> DEFINE K == CatalogKeys(U, Len(U))
           z == With(Without(m, CKeys), K, D)
<1>2. Leads(m, SaveCatalog(U), z)
  BY <1>1, SaveCatalogLeads DEF RowsLaid
<1>3. /\ \A k : k \in DOMAIN z <=> (k \in DOMAIN m /\ k \notin CKeys) \/ k \in K
      /\ \A k \in K : z[k] = D[k]
      /\ \A k \in DOMAIN m : k \notin CKeys /\ k \notin K => z[k] = m[k]
  BY WithHas, WithoutHas
<1>4. IsStore(z)
  BY StoresAgain
<1>5. \A k : k \in K <=> IsC(k, U) \/ \E i \in 1..Len(U) : k = TKey(U[i].name)
  BY CatalogKeysAre
<1>6. \A k \in CKeys : k[1] = "C"
  BY KeyParts DEF CKeys
<1>7. /\ \A k, i : OfTable(k, U[i], Q[U[i].name]) /\ k[1] = "T" => k = TKey(U[i].name)
      /\ \A k, i : OfTable(k, U[i], Q[U[i].name]) => k[1] # "C"
      /\ \A i : OfTable(TKey(U[i].name), U[i], Q[U[i].name])
  <2>1. \A i : OfTable(TKey(U[i].name), U[i], Q[U[i].name])
    BY DEF OfTable
  <2> QED
    BY <2>1, OwnKey
<1>8. /\ \A k : IsC(k, U) => k[1] = "C"
      /\ \A name : TKey(name)[1] = "T"
  BY CKeysAre, KeyParts
<1>9. \A k \in K : k[1] = "C" \/ k[1] = "T"
  BY <1>5, <1>8
<1> HIDE DEF K, z
<1>10. ASSUME NEW k
       PROVE  k \in DOMAIN z <=> IsRecord(k, U, Q)
  <2>1. CASE k[1] = "C"
    <3>1. k \in DOMAIN z <=> k \in K
      BY <1>3, <2>1 DEF RowsLaid
    <3>2. k \in K <=> IsC(k, U)
      BY <1>5, <1>8, <2>1
    <3>3. IsRecord(k, U, Q) <=> IsC(k, U)
      BY <1>7, <2>1 DEF IsRecord
    <3> QED
      BY <3>1, <3>2, <3>3
  <2>2. CASE k[1] = "T"
    <3>1. k \in DOMAIN z <=> \E i \in 1..Len(U) : k = TKey(U[i].name)
      BY <1>3, <1>5, <1>6, <1>8, <2>2 DEF RowsLaid
    <3>2. IsRecord(k, U, Q) <=> \E i \in 1..Len(U) : OfTable(k, U[i], Q[U[i].name])
      BY <1>8, <2>2 DEF IsRecord
    <3>3. \A i \in 1..Len(U) : OfTable(k, U[i], Q[U[i].name]) <=> k = TKey(U[i].name)
      BY <1>7, <2>2
    <3> QED
      BY <3>1, <3>2, <3>3
  <2>3. CASE k[1] # "C" /\ k[1] # "T"
    <3>1. k \in DOMAIN z <=> k \in DOMAIN m
      BY <1>3, <1>6, <1>9, <2>3
    <3>2. IsRecord(k, U, Q) <=> \E i \in 1..Len(U) : OfTable(k, U[i], Q[U[i].name])
      BY <1>8, <2>3 DEF IsRecord
    <3> QED
      BY <2>3, <3>1, <3>2 DEF RowsLaid
  <2> QED
    BY <2>1, <2>2, <2>3
<1>11. ASSUME NEW i \in 1..Len(U)
       PROVE  z[CKey(i)] = U[i].name /\ Contents(z, U[i], Q[U[i].name])
  <2>1. CKey(i) \in K /\ TKey(U[i].name) \in K
    BY <1>5 DEF IsC
  <2>2. z[CKey(i)] = U[i].name /\ z[TKey(U[i].name)] = U[i]
    BY <1>1, <1>3, <2>1 DEF Describes
  <2>3. ASSUME NEW k, OfTable(k, U[i], Q[U[i].name]), k[1] # "T"
        PROVE  z[k] = m[k]
    <3>1. k[1] # "C" /\ k \in DOMAIN m
      BY <1>7, <2>3 DEF RowsLaid
    <3> QED
      BY <1>3, <1>6, <1>9, <2>3, <3>1
  <2>4. \A r \in 1..Len(Q[U[i].name]) : z[RKey(U[i].name, r)] = Q[U[i].name][r]
    <3>1. \A r \in 1..Len(Q[U[i].name]) :
            OfTable(RKey(U[i].name, r), U[i], Q[U[i].name]) /\ RKey(U[i].name, r)[1] # "T"
      BY KeyParts DEF OfTable, RKeysOf
    <3> QED
      BY <2>3, <3>1 DEF RowsLaid
  <2>5. \A k \in XKeysOf(U[i], Q[U[i].name]) : z[k] = ""
    <3>1. \A k \in XKeysOf(U[i], Q[U[i].name]) :
            OfTable(k, U[i], Q[U[i].name]) /\ k[1] # "T"
      BY KeyOfTable DEF OfTable
    <3> QED
      BY <2>3, <3>1 DEF RowsLaid
  <2> QED
    BY <2>2, <2>4, <2>5 DEF Contents
<1>12. Layout(z, U, Q)
  BY <1>4, <1>10, <1>11 DEF Layout
<1> QED
  BY <1>2, <1>12

LEMMA LayoutKinds ==
  ASSUME NEW s, NEW T, NEW R, Definitions(T), Layout(s, T, R)
  PROVE  /\ \A k \in DOMAIN s : k[1] = "C" => k \in CKeys
         /\ \A k \in DOMAIN s : k[1] = "T" => \E i \in 1..Len(T) : k = TKey(T[i].name)
         /\ \A k : k[1] # "C" =>
              (k \in DOMAIN s <=> \E i \in 1..Len(T) : OfTable(k, T[i], R[T[i].name]))
<1>1. \A k : k \in DOMAIN s <=> IsC(k, T) \/ \E i \in 1..Len(T) : OfTable(k, T[i], R[T[i].name])
  BY DEF Layout, IsRecord
<1>2. Len(T) \in Nat /\ Len(T) <= MaxTables /\ MaxTables \in Nat
  BY Lengths, LimitsAssumption DEF LimitsAssumption
<1>3. \A j \in 1..Len(T) : j \in 1..MaxTables
  BY <1>2
<1>4. \A k : IsC(k, T) => k[1] = "C" /\ k \in CKeys
  BY <1>3, CKeysAre DEF IsC, CKeys
<1>5. /\ \A i, k : OfTable(k, T[i], R[T[i].name]) => k[1] # "C"
      /\ \A i, k : OfTable(k, T[i], R[T[i].name]) /\ k[1] = "T" => k = TKey(T[i].name)
  BY OwnKey
<1>6. \A k \in DOMAIN s : k[1] = "C" => k \in CKeys
  BY <1>1, <1>4, <1>5
<1>7. \A k : k[1] # "C" =>
              (k \in DOMAIN s <=> \E i \in 1..Len(T) : OfTable(k, T[i], R[T[i].name]))
  BY <1>1, <1>4
<1>8. ASSUME NEW k \in DOMAIN s, k[1] = "T"
      PROVE  \E i \in 1..Len(T) : k = TKey(T[i].name)
  BY <1>5, <1>7, <1>8
<1> QED
  BY <1>6, <1>7, <1>8

(* CREATE INDEX and DROP INDEX: the index records of a table are written     *)
(* anew, then the catalog.                                                   *)
LEMMA RedefinedLeads ==
  ASSUME NEW s, NEW T, NEW R, Definitions(T), RowsFit(T, R), Layout(s, T, R),
         NEW j \in 1..Len(T), NEW t, t.name = T[j].name, Len(t.ixs) \in Nat,
         NEW a \in IndexWrites(s, t, R[t.name])
  PROVE  \E z : /\ Leads(s, a \o SaveCatalog([T EXCEPT ![j] = t]), z)
                /\ Layout(z, [T EXCEPT ![j] = t], R)
<1> DEFINE name == t.name
           rows == R[name]
           U == [T EXCEPT ![j] = t]
           XK == IndexKeys(s, name)
           XN == XKeysOf(t, rows)
           m == Indexed(s, s, t, rows)
<1>1. IsStore(s) /\ Len(rows) \in Nat
  BY RowLengths DEF Layout
<1>2. XK = XKeysOf(T[j], rows) /\ IsFiniteSet(XK)
  <2>1. IndexKeys(s, T[j].name) = XKeysOf(T[j], R[T[j].name])
        /\ IsFiniteSet(XKeysOf(T[j], R[T[j].name]))
    BY LayoutIndex
  <2> QED
    BY <2>1
<1>3. Leads(s, a, m)
  <2>1. a \in IndexWrites(s, t, rows)
    OBVIOUS
  <2> HIDE DEF rows
  <2> QED
    BY <1>1, <1>2, <2>1, IndexWritesLead
<1>4. /\ \A k : k \in DOMAIN m <=> (k \in DOMAIN s /\ k \notin XK) \/ k \in XN
      /\ \A k \in XN : m[k] = XData(t, rows)[k]
      /\ \A k \in DOMAIN s : k \notin XK /\ k \notin XN => m[k] = s[k]
  BY WithHas, WithoutHas DEF Indexed
<1>5. \A k \in XN : XData(t, rows)[k] = ""
  BY DEF XData
<1>6. /\ \A k \in XK : k[1] = "X" /\ k[2] = name
      /\ \A k \in XN : k[1] = "X" /\ k[2] = name
  <2>1. \A k \in XK : k[1] = "X" /\ k[2] = name
    BY DEF IndexKeys
  <2>2. \A k \in XN : k[1] = "X" /\ k[2] = name
    BY XKeysAre, KeyParts
  <2> QED
    BY <2>1, <2>2
<1>7. /\ Len(U) = Len(T) /\ U[j] = t /\ \A i \in 1..Len(T) : i # j => U[i] = T[i]
      /\ Len(T) \in Nat /\ Len(T) <= MaxTables
  BY Lengths
<1>8. \A i \in 1..Len(T) : U[i].name = T[i].name
  BY <1>7
<1>9. Distinct(U) /\ \A i \in 1..Len(T) : i # j => T[i].name # name
  <2>1. \A i, l \in 1..Len(T) : T[i].name = T[l].name => i = l
    BY DEF Definitions
  <2> HIDE DEF U
  <2> QED
    BY <1>7, <1>8, <2>1 DEF Distinct
<1>10. IsStore(m)
  BY StoresAgain DEF Indexed
<1>11. /\ \A k : OfTable(k, t, rows) <=> k = TKey(name) \/ k \in RKeysOf(name, Len(rows)) \/ k \in XN
       /\ \A k : OfTable(k, T[j], rows) <=> k = TKey(name) \/ k \in RKeysOf(name, Len(rows)) \/ k \in XK
  BY <1>2 DEF OfTable
<1>12. \A k \in RKeysOf(name, Len(rows)) : k[1] = "R"
  BY KeyParts DEF RKeysOf
<1> HIDE DEF U, XN, XK, m
<1>13. ASSUME NEW k, k[1] # "C", k[1] # "T"
       PROVE  k \in DOMAIN m <=> \E i \in 1..Len(U) : OfTable(k, U[i], R[U[i].name])
  <2>1. k # TKey(name)
    BY <1>13, KeyParts
  <2>2. k \in DOMAIN s <=> \E i \in 1..Len(T) : OfTable(k, T[i], R[T[i].name])
    BY <1>13, LayoutKinds
  <2>3. \A i \in 1..Len(T) : i # j /\ OfTable(k, T[i], R[T[i].name]) => k \notin XK
    BY <1>6, <1>9, OwnKey
  <2>4. (k \in DOMAIN s /\ k \notin XK) <=>
          \/ \E i \in 1..Len(T) : i # j /\ OfTable(k, T[i], R[T[i].name])
          \/ k \in RKeysOf(name, Len(rows))
    BY <1>6, <1>11, <1>12, <2>1, <2>2, <2>3
  <2>5. \A i \in 1..Len(T) : i # j => U[i] = T[i]
    BY <1>7
  <2>6. OfTable(k, U[j], R[U[j].name]) <=> k \in RKeysOf(name, Len(rows)) \/ k \in XN
    BY <1>7, <1>11, <2>1
  <2> QED
    BY <1>4, <1>7, <2>4, <2>5, <2>6
<1>14. \A k \in DOMAIN m : k[1] = "C" \/ k[1] = "T" => k \in DOMAIN s
  BY <1>4, <1>6
<1>15. ASSUME NEW i \in 1..Len(U)
       PROVE  /\ \A r \in 1..Len(R[U[i].name]) : m[RKey(U[i].name, r)] = R[U[i].name][r]
              /\ \A k \in XKeysOf(U[i], R[U[i].name]) : m[k] = ""
  <2>1. \A r \in 1..Len(R[T[i].name]) :
          /\ RKey(T[i].name, r) \in DOMAIN s /\ s[RKey(T[i].name, r)] = R[T[i].name][r]
          /\ RKey(T[i].name, r) \notin XK /\ RKey(T[i].name, r) \notin XN
    <3>1. i \in 1..Len(T)
      BY <1>7
    <3>2. \A r \in 1..Len(R[T[i].name]) :
            RKey(T[i].name, r) \in DOMAIN s /\ s[RKey(T[i].name, r)] = R[T[i].name][r]
      BY <3>1, LayoutHas
    <3>3. \A r : RKey(T[i].name, r)[1] = "R"
      BY KeyParts, Zenon
    <3>4. \A r : RKey(T[i].name, r) \notin XK /\ RKey(T[i].name, r) \notin XN
      BY <1>6, <3>3
    <3> QED
      BY <3>2, <3>4, Zenon
  <2>2. \A r \in 1..Len(R[U[i].name]) : m[RKey(U[i].name, r)] = R[U[i].name][r]
    BY <1>4, <1>7, <1>8, <2>1
  <2>3. CASE i = j
    BY <1>4, <1>5, <1>7, <2>2, <2>3 DEF XN
  <2>4. CASE i # j
    <3>1. U[i] = T[i] /\ T[i].name # name
      BY <1>7, <1>9, <2>4
    <3>2. \A k \in XKeysOf(T[i], R[T[i].name]) : OfTable(k, T[i], R[T[i].name])
      BY DEF OfTable
    <3>3. \A k \in XKeysOf(T[i], R[T[i].name]) : k \in DOMAIN s /\ k[2] = T[i].name /\ s[k] = ""
      <4>1. \A k \in XKeysOf(T[i], R[T[i].name]) : s[k] = ""
        BY <1>7 DEF Layout, Contents
      <4>2. \A k : OfTable(k, T[i], R[T[i].name]) => k \in DOMAIN s
        BY <1>7, LayoutHas
      <4> QED
        BY <3>2, <4>1, <4>2, OwnKey
    <3>4. \A k \in XKeysOf(T[i], R[T[i].name]) : m[k] = ""
      BY <1>4, <1>6, <3>1, <3>3
    <3> QED
      BY <2>2, <3>1, <3>4
  <2> QED
    BY <2>3, <2>4
<1>16. RowsLaid(m, U, R)
  <2>1. \A k \in DOMAIN m : k[1] = "C" => k \in CKeys
    BY <1>14, LayoutKinds
  <2>2. \A k \in DOMAIN m : k[1] = "T" => \E i \in 1..Len(U) : k = TKey(U[i].name)
    BY <1>7, <1>8, <1>14, LayoutKinds
  <2> QED
    BY <1>10, <1>13, <1>15, <2>1, <2>2 DEF RowsLaid
<1>17. PICK z : Leads(m, SaveCatalog(U), z) /\ Layout(z, U, R)
  BY <1>7, <1>9, <1>16, CatalogSaved
<1>18. Leads(s, a \o SaveCatalog(U), z)
  BY <1>3, <1>17, LeadsThrough
<1> QED
  BY <1>17, <1>18 DEF U

(* CREATE TABLE. *)
LEMMA CreatedLeads ==
  ASSUME NEW s, NEW T, NEW R, Definitions(T), Layout(s, T, R), Len(T) < MaxTables,
         NEW d, d.name \in Names, d.ixs = << >>, \A i \in 1..Len(T) : T[i].name # d.name
  PROVE  \E z : /\ Leads(s, SaveCatalog(Append(T, d)), z)
                /\ Layout(z, Append(T, d), Changed(R, d.name, << >>))
<1> DEFINE n == Len(T)
           U == Append(T, d)
           Q == Changed(R, d.name, << >>)
<1>1. n \in Nat /\ n <= MaxTables /\ MaxTables \in Nat /\ T \in Seq(TableDef)
  BY Lengths, LimitsAssumption DEF LimitsAssumption, Definitions
<1>2. /\ Len(U) = n + 1 /\ U[n + 1] = d /\ \A i \in 1..n : U[i] = T[i]
      /\ \A i \in 1..n + 1 : i \in 1..n \/ i = n + 1
  BY <1>1
<1>3. Q[d.name] = << >> /\ \A i \in 1..n : Q[T[i].name] = R[T[i].name]
  BY DEF Definitions, IsTable, Changed
<1>4. \A i, l \in 1..n : T[i].name = T[l].name => i = l
  BY DEF Definitions
<1> HIDE DEF U, Q
<1>5. Distinct(U)
  BY <1>1, <1>2, <1>4 DEF Distinct
<1>6. \A k : OfTable(k, d, << >>) <=> k = TKey(d.name)
  <2>1. RKeysOf(d.name, Len(<< >>)) = {}
    BY DEF RKeysOf
  <2>2. XKeysOf(d, << >>) = {}
    BY XKeysAre
  <2> QED
    BY <2>1, <2>2 DEF OfTable
<1>7. ASSUME NEW k, k[1] # "C", k[1] # "T"
      PROVE  k \in DOMAIN s <=> \E i \in 1..Len(U) : OfTable(k, U[i], Q[U[i].name])
  <2>1. k \in DOMAIN s <=> \E i \in 1..n : OfTable(k, T[i], R[T[i].name])
    BY <1>7, LayoutKinds
  <2>2. ~OfTable(k, U[n + 1], Q[U[n + 1].name])
    BY <1>2, <1>3, <1>6, <1>7, KeyParts
  <2>3. \A i \in 1..n : OfTable(k, U[i], Q[U[i].name]) <=> OfTable(k, T[i], R[T[i].name])
    BY <1>2, <1>3
  <2>4. \A i \in 1..n : i \in 1..n + 1
    BY <1>1
  <2> QED
    BY <1>2, <2>1, <2>2, <2>3, <2>4
<1>8. ASSUME NEW i \in 1..Len(U)
      PROVE  /\ \A r \in 1..Len(Q[U[i].name]) : s[RKey(U[i].name, r)] = Q[U[i].name][r]
             /\ \A k \in XKeysOf(U[i], Q[U[i].name]) : s[k] = ""
  <2>1. CASE i = n + 1
    <3>1. Q[U[i].name] = << >> /\ Len(<< >>) = 0
      BY <1>2, <1>3, <2>1
    <3>2. XKeysOf(U[i], << >>) = {}
      BY <3>1, XKeysAre
    <3>3. \A r \in 1..Len(Q[U[i].name]) : FALSE
      BY <3>1
    <3>4. \A k \in XKeysOf(U[i], Q[U[i].name]) : FALSE
      BY <3>1, <3>2
    <3> QED
      BY <3>3, <3>4
  <2>2. CASE i \in 1..n
    <3>1. U[i] = T[i] /\ Q[U[i].name] = R[T[i].name] /\ Contents(s, T[i], R[T[i].name])
      BY <1>2, <1>3, <2>2 DEF Layout
    <3> QED
      BY <3>1 DEF Contents
  <2> QED
    BY <1>2, <2>1, <2>2
<1>9. RowsLaid(s, U, Q)
  <2>1. \A k \in DOMAIN s : k[1] = "C" => k \in CKeys
    BY LayoutKinds
  <2>2. \A k \in DOMAIN s : k[1] = "T" => \E i \in 1..Len(U) : k = TKey(U[i].name)
    <3>1. \A i \in 1..n : i \in 1..Len(U) /\ U[i].name = T[i].name
      BY <1>1, <1>2
    <3> QED
      BY <3>1, LayoutKinds
  <2>3. IsStore(s)
    BY DEF Layout
  <2> QED
    BY <1>7, <1>8, <2>1, <2>2, <2>3 DEF RowsLaid
<1>10. Len(U) \in Nat /\ Len(U) <= MaxTables
  BY <1>1, <1>2
<1> QED
  BY <1>5, <1>9, <1>10, CatalogSaved DEF U, Q

(* DROP TABLE. *)
LEMMA RemovedIs ==
  ASSUME NEW S, NEW T \in Seq(S), NEW j \in 1..Len(T)
  PROVE  /\ RemoveAt(T, j) \in Seq(S) /\ Len(RemoveAt(T, j)) = Len(T) - 1
         /\ \A i \in 1..Len(T) - 1 : RemoveAt(T, j)[i] = IF i < j THEN T[i] ELSE T[i + 1]
<1> DEFINE a == SubSeq(T, 1, j - 1)
           b == SubSeq(T, j + 1, Len(T))
<1>1. Len(T) \in Nat /\ j \in Nat
  OBVIOUS
<1>2. a \in Seq(S) /\ Len(a) = j - 1 /\ \A i \in 1..j - 1 : a[i] = T[i]
  BY <1>1
<1>3. b \in Seq(S) /\ Len(b) = Len(T) - j /\ \A i \in 1..Len(T) - j : b[i] = T[j + i]
  BY <1>1
<1> HIDE DEF a, b
<1>4. a \o b \in Seq(S) /\ Len(a \o b) = Len(T) - 1
  <2>1. a \o b \in Seq(S) /\ Len(a \o b) = Len(a) + Len(b)
    <3>1. a \in Seq(S) /\ b \in Seq(S)
      BY <1>2, <1>3
    <3> QED
      BY <3>1
  <2>2. Len(a) + Len(b) = Len(T) - 1
    BY <1>1, <1>2, <1>3
  <2> QED
    BY <2>1, <2>2
<1>5. ASSUME NEW i \in 1..Len(T) - 1
      PROVE  (a \o b)[i] = IF i < j THEN T[i] ELSE T[i + 1]
  <2>1. CASE i < j
    BY <1>1, <1>2, <1>3, <2>1
  <2>2. CASE ~(i < j)
    <3>1. (a \o b)[i] = b[i - (j - 1)]
      BY <1>1, <1>2, <1>3, <2>2
    <3>2. i - (j - 1) \in 1..Len(T) - j /\ j + (i - (j - 1)) = i + 1
      BY <1>1, <2>2
    <3> QED
      BY <1>3, <2>2, <3>1, <3>2
  <2> QED
    BY <2>1, <2>2
<1> QED
  BY <1>4, <1>5 DEF RemoveAt, a, b

LEMMA RemovedTables ==
  ASSUME NEW T, Definitions(T), NEW j \in 1..Len(T)
  PROVE  LET U == RemoveAt(T, j)
         IN  /\ U \in Seq(TableDef) /\ Len(U) \in Nat /\ Len(U) <= MaxTables
             /\ \A i \in 1..Len(U) : \E l \in 1..Len(T) : l # j /\ U[i] = T[l]
             /\ \A l \in 1..Len(T) : l # j => \E i \in 1..Len(U) : U[i] = T[l]
             /\ Distinct(U)
<1> DEFINE U == RemoveAt(T, j)
           n == Len(T)
<1>1. n \in Nat /\ n <= MaxTables /\ MaxTables \in Nat /\ T \in Seq(TableDef)
  BY Lengths, LimitsAssumption DEF LimitsAssumption, Definitions
<1>2. /\ U \in Seq(TableDef) /\ Len(U) = n - 1
      /\ \A i \in 1..n - 1 : U[i] = IF i < j THEN T[i] ELSE T[i + 1]
  BY <1>1, RemovedIs
<1>3. \A i, l \in 1..n : T[i].name = T[l].name => i = l
  BY DEF Definitions
<1> HIDE DEF U, n
<1>4. j \in 1..n
  BY DEF n
<1>5. \A i \in 1..Len(U) : \E l \in 1..n : l # j /\ U[i] = T[l]
  <2> SUFFICES ASSUME NEW i \in 1..Len(U)
               PROVE  \E l \in 1..n : l # j /\ U[i] = T[l]
    OBVIOUS
  <2>1. CASE i < j
    BY <1>1, <1>2, <1>4, <2>1
  <2>2. CASE ~(i < j)
    <3>1. i + 1 \in 1..n /\ i + 1 # j /\ U[i] = T[i + 1]
      BY <1>1, <1>2, <1>4, <2>2
    <3> QED
      BY <3>1
  <2> QED
    BY <2>1, <2>2
<1>6. \A l \in 1..n : l # j => \E i \in 1..Len(U) : U[i] = T[l]
  <2> SUFFICES ASSUME NEW l \in 1..n, l # j
               PROVE  \E i \in 1..Len(U) : U[i] = T[l]
    OBVIOUS
  <2>1. CASE l < j
    BY <1>1, <1>2, <1>4, <2>1
  <2>2. CASE l > j
    <3>1. l - 1 \in 1..Len(U) /\ ~(l - 1 < j) /\ (l - 1) + 1 = l
      BY <1>1, <1>2, <1>4, <2>2
    <3>2. U[l - 1] = T[l]
      BY <1>2, <3>1
    <3> QED
      BY <3>1, <3>2
  <2> QED
    BY <1>4, <2>1, <2>2
<1>7. Distinct(U)
  <2> SUFFICES ASSUME NEW i \in 1..Len(U), NEW l \in 1..Len(U), U[i].name = U[l].name
               PROVE  i = l
    BY DEF Distinct
  <2> DEFINE x == IF i < j THEN i ELSE i + 1
             y == IF l < j THEN l ELSE l + 1
  <2>1. x \in 1..n /\ y \in 1..n /\ U[i] = T[x] /\ U[l] = T[y]
    BY <1>1, <1>2, <1>4
  <2>2. x = y => i = l
    BY <1>1, <1>2, <1>4
  <2> HIDE DEF x, y
  <2> QED
    BY <1>3, <2>1, <2>2
<1> QED
  BY <1>1, <1>2, <1>5, <1>6, <1>7 DEF U, n

LEMMA DroppedLeads ==
  ASSUME NEW s, NEW T, NEW R, Definitions(T), RowsFit(T, R), Layout(s, T, R),
         NEW j \in 1..Len(T), NEW name, name = T[j].name, FindTable(T, name) = j
  PROVE  \E z : Leads(s, DropOps(s, T, name), z) /\ Layout(z, RemoveAt(T, j), R)
<1> DEFINE t == T[j]
           rows == R[name]
           n == Len(rows)
           U == RemoveAt(T, j)
           RK == RKeysOf(name, n)
           XK == IndexKeys(s, name)
           a == << Delete(TKey(name)) >>
           b == [r \in 1..n |-> Delete(RKey(name, r))]
           c == DeleteIndexRows(s, t)
           ma == Without(s, {TKey(name)})
           mb == Without(ma, RK)
           m == Without(mb, XK)
<1>1. IsStore(s) /\ n \in Nat
  BY RowLengths DEF Layout
<1>2. XK = XKeysOf(t, rows) /\ IsFiniteSet(XK)
  <2>1. IndexKeys(s, T[j].name) = XKeysOf(T[j], R[T[j].name])
        /\ IsFiniteSet(XKeysOf(T[j], R[T[j].name]))
    BY LayoutIndex
  <2> QED
    BY <2>1
<1>3. SlotSeq(s, name) = Run(n) /\ Len(Run(n)) = n /\ \A r \in 1..n : Run(n)[r] = r
  <2>1. SlotSeq(s, T[j].name) = Run(Len(R[T[j].name]))
    BY LayoutRows
  <2> HIDE DEF n
  <2>2. Len(Run(n)) = n /\ \A r \in 1..n : Run(n)[r] = r
    BY <1>1, RunIs
  <2> QED
    BY <2>1, <2>2 DEF n
<1>4. DropOps(s, T, name) = a \o b \o c \o SaveCatalog(U)
  <2>1. [r \in 1..Len(SlotSeq(s, name)) |-> Delete(RKey(name, SlotSeq(s, name)[r]))] = b
    <3> HIDE DEF n
    <3> QED
      BY <1>3
  <2> HIDE DEF b
  <2> QED
    BY <2>1 DEF DropOps
<1>5. Leads(s, a, ma)
  BY DeleteLeads
<1>6. Leads(ma, b, mb)
  <2>1. IsStore(ma)
    BY StoresAgain
  <2> HIDE DEF ma, n
  <2> QED
    BY <1>1, <2>1, DeleteRowsLead
<1>7. Leads(mb, c, m)
  <2>1. IsStore(mb)
    BY StoresAgain
  <2> HIDE DEF mb
  <2> QED
    BY <1>2, <2>1, DeleteIndexLeads
<1>8. /\ \A k : k \in DOMAIN m <=> k \in DOMAIN s /\ k # TKey(name) /\ k \notin RK /\ k \notin XK
      /\ \A k \in DOMAIN m : m[k] = s[k]
  BY WithoutHas
<1>9. IsStore(m)
  BY StoresAgain
<1>10. /\ U \in Seq(TableDef) /\ Len(U) \in Nat /\ Len(U) <= MaxTables /\ Distinct(U)
       /\ \A i \in 1..Len(U) : \E l \in 1..Len(T) : l # j /\ U[i] = T[l]
       /\ \A l \in 1..Len(T) : l # j => \E i \in 1..Len(U) : U[i] = T[l]
  BY RemovedTables
<1>11. /\ \A l \in 1..Len(T) : l # j => T[l].name # name
  BY DEF Definitions
<1>12. \A k : OfTable(k, t, rows) <=> k = TKey(name) \/ k \in RK \/ k \in XK
  BY <1>2 DEF OfTable
<1> HIDE DEF t, n, U, RK, XK, a, b, c, ma, mb, m
<1>13. \A k : k \in DOMAIN m <=> k \in DOMAIN s /\ ~OfTable(k, T[j], R[T[j].name])
  BY <1>8, <1>12 DEF t
<1>14. \A k : k \in DOMAIN m /\ k[1] # "C" <=>
                \E l \in 1..Len(T) : l # j /\ OfTable(k, T[l], R[T[l].name])
  <2>1. \A k : k[1] # "C" => (k \in DOMAIN s <=> \E l \in 1..Len(T) : OfTable(k, T[l], R[T[l].name]))
    BY LayoutKinds
  <2>2. \A k : \A l \in 1..Len(T) : l # j /\ OfTable(k, T[l], R[T[l].name])
          => ~OfTable(k, T[j], R[T[j].name]) /\ k[1] # "C"
    BY <1>11, OwnKey
  <2> QED
    BY <1>13, <2>1, <2>2
<1>15. \A k : k \in DOMAIN m /\ k[1] # "C" <=>
                \E i \in 1..Len(U) : OfTable(k, U[i], R[U[i].name])
  BY <1>10, <1>14
<1>16. ASSUME NEW i \in 1..Len(U)
       PROVE  /\ \A r \in 1..Len(R[U[i].name]) : m[RKey(U[i].name, r)] = R[U[i].name][r]
              /\ \A k \in XKeysOf(U[i], R[U[i].name]) : m[k] = ""
  <2>1. PICK l \in 1..Len(T) : l # j /\ U[i] = T[l]
    BY <1>10
  <2>2. Contents(s, U[i], R[U[i].name])
    BY <2>1 DEF Layout
  <2>3. \A k : OfTable(k, U[i], R[U[i].name]) => m[k] = s[k]
    BY <1>8, <1>15
  <2>4. Contents(m, U[i], R[U[i].name])
    BY <2>2, <2>3, ContentsKept
  <2> QED
    BY <2>4 DEF Contents
<1>17. RowsLaid(m, U, R)
  <2>1. \A k \in DOMAIN m : k[1] = "C" => k \in CKeys
    BY <1>8, LayoutKinds
  <2>2. \A k \in DOMAIN m : k[1] = "T" => \E i \in 1..Len(U) : k = TKey(U[i].name)
    BY <1>15, OwnKey
  <2>3. \A k : k[1] # "C" /\ k[1] # "T" =>
          (k \in DOMAIN m <=> \E i \in 1..Len(U) : OfTable(k, U[i], R[U[i].name]))
    BY <1>15
  <2> QED
    BY <1>9, <1>16, <2>1, <2>2, <2>3 DEF RowsLaid
<1>18. PICK z : Leads(m, SaveCatalog(U), z) /\ Layout(z, U, R)
  BY <1>10, <1>17, CatalogSaved
<1>19. Leads(s, a \o b, mb)
  BY <1>5, <1>6, LeadsThrough
<1>20. Leads(s, a \o b \o c, m)
  BY <1>7, <1>19, LeadsThrough
<1>21. Leads(s, a \o b \o c \o SaveCatalog(U), z)
  BY <1>18, <1>20, LeadsThrough
<1> QED
  BY <1>4, <1>18, <1>21 DEF U
-----------------------------------------------------------------------------
(* Which records the writes of a statement touch. *)
KnownWrite(o) == o.op \in {"put", "delete"} /\ IsKey(o.key)
KnownWrites(ops) == \E X : ops \in Seq(X) /\ \A o \in X : KnownWrite(o)

LEMMA KnownOp ==
  ASSUME NEW k, IsKey(k)
  PROVE  KnownWrite(Delete(k)) /\ \A data : KnownWrite(Put(k, data))
BY DEF KnownWrite, Delete, Put

LEMMA KnownOn ==
  ASSUME NEW a, NEW b, KnownWrites(a), KnownWrites(b)
  PROVE  KnownWrites(a \o b)
<1>1. PICK X : a \in Seq(X) /\ \A o \in X : KnownWrite(o)
  BY DEF KnownWrites
<1>2. PICK Y : b \in Seq(Y) /\ \A o \in Y : KnownWrite(o)
  BY DEF KnownWrites
<1>3. a \in Seq(X \cup Y) /\ b \in Seq(X \cup Y)
  BY <1>1, <1>2
<1>4. a \o b \in Seq(X \cup Y)
  BY <1>3
<1> QED
  BY <1>1, <1>2, <1>4 DEF KnownWrites

LEMMA KnownList ==
  ASSUME NEW n \in Nat, NEW ops, ops = [j \in 1..n |-> ops[j]], \A j \in 1..n : KnownWrite(ops[j])
  PROVE  KnownWrites(ops)
<1> DEFINE X == {ops[j] : j \in 1..n}
<1>1. [j \in 1..n |-> ops[j]] \in Seq(X)
  OBVIOUS
<1>2. \A o \in X : KnownWrite(o)
  OBVIOUS
<1> HIDE DEF X
<1>3. ops \in Seq(X)
  BY <1>1
<1> QED
  BY <1>2, <1>3 DEF KnownWrites

LEMMA KnownNothing == KnownWrites(<< >>)
<1> DEFINE X == {}
<1>1. << >> \in Seq(X) /\ \A o \in X : KnownWrite(o)
  OBVIOUS
<1> HIDE DEF X
<1> QED
  BY <1>1 DEF KnownWrites

LEMMA KnownKeys ==
  /\ \A n \in 1..MaxTables : IsKey(CKey(n))
  /\ \A name \in Names : IsKey(TKey(name))
  /\ \A name \in Names : \A n \in Nat \ {0} : IsKey(RKey(name, n))
  /\ \A name \in Names : \A x \in IndexNames : \A v \in ColumnValues : \A n \in Nat \ {0} :
       IsKey(XKey(name, x, v, n))
<1>1. \A n \in 1..MaxTables : IsKey(CKey(n))
  BY DEF IsKey
<1>2. ASSUME NEW name \in Names
      PROVE  /\ IsKey(TKey(name)) /\ \A n \in Nat \ {0} : IsKey(RKey(name, n))
             /\ \A x \in IndexNames : \A v \in ColumnValues : \A n \in Nat \ {0} :
                  IsKey(XKey(name, x, v, n))
  <2>1. PICK d \in TableDefs : d.name = name
    BY DEF Names
  <2>2. IsKey(TKey(name))
    BY <2>1 DEF IsKey
  <2>3. \A n \in Nat \ {0} : IsKey(RKey(name, n))
    BY <2>1, KeyParts DEF IsKey
  <2>4. \A x \in IndexNames : \A v \in ColumnValues : \A n \in Nat \ {0} : IsKey(XKey(name, x, v, n))
    BY <2>1, KeyParts DEF IsKey
  <2> QED
    BY <2>2, <2>3, <2>4
<1> QED
  BY <1>1, <1>2

(* The records of one table. *)
LEMMA KnownIndexKeys ==
  ASSUME NEW t, IsTable(t), NEW rows, rows \in Seq(RowFits(t))
  PROVE  \A k \in XKeysOf(t, rows) : IsKey(k)
<1> SUFFICES ASSUME NEW k \in XKeysOf(t, rows)
             PROVE  IsKey(k)
  OBVIOUS
<1>1. PICK x \in 1..Len(t.ixs) : \E r \in 1..Len(rows) :
        k = XKey(t.name, t.ixs[x].name, rows[r][t.ixs[x].col], r)
  BY XKeysAre
<1>2. PICK r \in 1..Len(rows) : k = XKey(t.name, t.ixs[x].name, rows[r][t.ixs[x].col], r)
  BY <1>1
<1>3. t.name \in Names /\ t.ixs[x].name \in IndexNames /\ t.ixs[x].col \in 1..Len(t.cols)
  BY DEF IsTable
<1> DEFINE S == RowFits(t)
<1>4. Len(rows) \in Nat /\ rows[r] \in S
  <2> HIDE DEF S
  <2>1. rows \in Seq(S)
    BY DEF S
  <2> QED
    BY <2>1
<1>5. rows[r][t.ixs[x].col] \in ColumnValues
  BY <1>3, <1>4 DEF RowFits
<1>6. r \in Nat \ {0}
  BY <1>4
<1> QED
  BY <1>2, <1>3, <1>5, <1>6, KnownKeys

LEMMA KnownLayout ==
  ASSUME NEW s, NEW T, NEW R, Definitions(T), RowsFit(T, R), Layout(s, T, R)
  PROVE  \A k \in DOMAIN s : IsKey(k)
<1> SUFFICES ASSUME NEW k \in DOMAIN s
             PROVE  IsKey(k)
  OBVIOUS
<1>1. IsC(k, T) \/ \E j \in 1..Len(T) : OfTable(k, T[j], R[T[j].name])
  BY DEF Layout, IsRecord
<1>2. CASE IsC(k, T)
  <2>1. Len(T) \in Nat /\ Len(T) <= MaxTables /\ MaxTables \in Nat
    BY Lengths, LimitsAssumption DEF LimitsAssumption
  <2> QED
    BY <1>2, <2>1, KnownKeys DEF IsC
<1>3. ASSUME NEW j \in 1..Len(T), OfTable(k, T[j], R[T[j].name])
      PROVE  IsKey(k)
  <2>1. IsTable(T[j]) /\ R[T[j].name] \in Seq(RowFits(T[j])) /\ T[j].name \in Names
    BY DEF Definitions, RowsFit, IsTable
  <2>2. CASE k = TKey(T[j].name)
    BY <2>1, <2>2, KnownKeys
  <2>3. CASE k \in RKeysOf(T[j].name, Len(R[T[j].name]))
    <3>1. \A n \in 1..Len(R[T[j].name]) : n \in Nat \ {0}
      BY RowLengths
    <3> QED
      BY <2>1, <2>3, <3>1, KnownKeys DEF RKeysOf
  <2>4. CASE k \in XKeysOf(T[j], R[T[j].name])
    BY <2>1, <2>4, KnownIndexKeys
  <2> QED
    BY <1>3, <2>2, <2>3, <2>4 DEF OfTable
<1> QED
  BY <1>1, <1>2, <1>3

(* The writes of rebuild_indexes, save_rows and save_catalog. *)
LEMMA KnownIndexDeletes ==
  ASSUME NEW s, \A k \in DOMAIN s : IsKey(k), NEW t, IsFiniteSet(IndexKeys(s, t.name))
  PROVE  KnownWrites(DeleteIndexRows(s, t))
<1> DEFINE K == IndexKeys(s, t.name)
           f == SetToSeq(K)
           c == Cardinality(K)
           ops == [j \in 1..c |-> Delete(f[j])]
<1>1. c \in Nat /\ f \in [1..c -> K]
  BY SetToSeqIs
<1>2. DeleteIndexRows(s, t) = ops
  <2>1. Len(f) = c
    BY <1>1
  <2> QED
    BY <2>1 DEF DeleteIndexRows
<1>3. \A k \in K : IsKey(k)
  BY DEF IndexKeys
<1> HIDE DEF K, f, c
<1>4. \A j \in 1..c : KnownWrite(ops[j])
  BY <1>1, <1>3, KnownOp
<1>5. ops = [j \in 1..c |-> ops[j]]
  OBVIOUS
<1> HIDE DEF ops
<1> QED
  BY <1>1, <1>2, <1>4, <1>5, KnownList

LEMMA KnownIndexPuts ==
  ASSUME NEW t, IsTable(t), NEW rows, rows \in Seq(RowFits(t))
  PROVE  KnownWrites(PutIndexRows(t, rows))
<1> DEFINE m == Len(t.ixs)
           n == Len(rows)
           X == {Put(k, "") : k \in XKeysOf(t, rows)}
           B == [x \in 1..m |->
                  [r \in 1..n |-> Put(XKey(t.name, t.ixs[x].name, rows[r][t.ixs[x].col], r), "")]]
<1>1. m \in Nat /\ n \in Nat
  BY DEF IsTable, TableDef
<1>2. \A o \in X : KnownWrite(o)
  BY KnownIndexKeys, KnownOp
<1>3. \A x \in 1..m : \A r \in 1..n :
        Put(XKey(t.name, t.ixs[x].name, rows[r][t.ixs[x].col], r), "") \in X
  BY XKeysAre
<1>4. PutIndexRows(t, rows) = FlattenSeq(B)
  BY DEF PutIndexRows
<1> HIDE DEF X, m, n
<1>5. \A x \in 1..m : B[x] \in Seq(X)
  <2> SUFFICES ASSUME NEW x \in 1..m
               PROVE  B[x] \in Seq(X)
    OBVIOUS
  <2> DEFINE w(r) == Put(XKey(t.name, t.ixs[x].name, rows[r][t.ixs[x].col], r), "")
  <2>1. \A r \in 1..n : w(r) \in X
    BY <1>3
  <2>2. B[x] = [r \in 1..n |-> w(r)]
    OBVIOUS
  <2> HIDE DEF w, B
  <2>3. [r \in 1..n |-> w(r)] \in Seq(X)
    BY <1>1, <2>1
  <2> QED
    BY <2>2, <2>3
<1>6. B = [x \in 1..m |-> B[x]]
  OBVIOUS
<1> HIDE DEF B
<1>7. FlattenSeq(B) \in Seq(X)
  BY <1>1, <1>5, <1>6, FlattenIn
<1> QED
  BY <1>2, <1>4, <1>7 DEF KnownWrites

LEMMA KnownRowDeletes ==
  ASSUME NEW name \in Names, NEW n \in Nat
  PROVE  KnownWrites([r \in 1..n |-> Delete(RKey(name, r))])
<1> DEFINE ops == [r \in 1..n |-> Delete(RKey(name, r))]
<1>1. \A r \in 1..n : KnownWrite(ops[r])
  BY KnownKeys, KnownOp
<1>2. ops = [r \in 1..n |-> ops[r]]
  OBVIOUS
<1> HIDE DEF ops
<1>3. KnownWrites(ops)
  BY <1>1, <1>2, KnownList
<1> QED
  BY <1>3 DEF ops

LEMMA KnownSaveRows ==
  ASSUME NEW s, NEW T, NEW R, Definitions(T), RowsFit(T, R), Layout(s, T, R), NEW j \in 1..Len(T),
         NEW rows, rows \in Seq(RowFits(T[j]))
  PROVE  KnownWrites(SaveRows(s, T[j], rows))
<1> DEFINE t == T[j]
           n == Len(R[t.name])
           a == [r \in 1..n |-> Delete(RKey(t.name, r))]
           b == [r \in 1..Len(rows) |-> Put(RKey(t.name, r), rows[r])]
<1>1. IsTable(t) /\ t.name \in Names /\ n \in Nat /\ Len(rows) \in Nat
  <2>1. Len(rows) \in Nat
    OBVIOUS
  <2>2. n \in Nat
    BY RowLengths
  <2> QED
    BY <2>1, <2>2 DEF Definitions, IsTable
<1>2. SaveRows(s, t, rows) = a \o b \o (DeleteIndexRows(s, t) \o PutIndexRows(t, rows))
  <2>1. SlotSeq(s, t.name) = Run(n)
    BY LayoutRows
  <2> HIDE DEF n, t
  <2>2. Len(Run(n)) = n /\ \A r \in 1..n : Run(n)[r] = r
    BY <1>1, RunIs
  <2> QED
    BY <2>1, <2>2 DEF SaveRows, RebuildIndexes
<1>3. KnownWrites(a)
  BY <1>1, KnownRowDeletes
<1>4. KnownWrites(b)
  <2>1. \A r \in 1..Len(rows) : KnownWrite(b[r])
    <3> SUFFICES ASSUME NEW r \in 1..Len(rows)
                 PROVE  KnownWrite(Put(RKey(t.name, r), rows[r]))
      OBVIOUS
    <3>1. IsKey(RKey(t.name, r))
      BY <1>1, KnownKeys
    <3> QED
      BY <3>1, KnownOp
  <2>2. b = [r \in 1..Len(rows) |-> b[r]]
    OBVIOUS
  <2> HIDE DEF b
  <2> QED
    BY <1>1, <2>1, <2>2, KnownList
<1>5. KnownWrites(DeleteIndexRows(s, t))
  <2>1. IsFiniteSet(IndexKeys(s, t.name))
    BY LayoutIndex
  <2>2. \A k \in DOMAIN s : IsKey(k)
    BY KnownLayout
  <2> HIDE DEF t
  <2> QED
    BY <2>1, <2>2, KnownIndexDeletes
<1>6. KnownWrites(PutIndexRows(t, rows))
  BY <1>1, KnownIndexPuts
<1> HIDE DEF a, b, t
<1>7. KnownWrites(a \o b)
  BY <1>3, <1>4, KnownOn
<1>8. KnownWrites(DeleteIndexRows(s, t) \o PutIndexRows(t, rows))
  BY <1>5, <1>6, KnownOn
<1>9. KnownWrites(a \o b \o (DeleteIndexRows(s, t) \o PutIndexRows(t, rows)))
  BY <1>7, <1>8, KnownOn
<1> QED
  BY <1>2, <1>9 DEF t

LEMMA KnownSaveCatalog ==
  ASSUME NEW U, Definitions(U)
  PROVE  KnownWrites(SaveCatalog(U))
<1> DEFINE n == Len(U)
           a == [j \in 1..MaxTables |-> Delete(CKey(j))]
           B == [j \in 1..n |-> << Put(CKey(j), U[j].name), Delete(TKey(U[j].name)),
                                  Put(TKey(U[j].name), U[j]) >>]
           X == {Put(CKey(j), U[j].name) : j \in 1..n} \cup {Delete(TKey(U[j].name)) : j \in 1..n}
                \cup {Put(TKey(U[j].name), U[j]) : j \in 1..n}
<1>1. n \in Nat /\ n <= MaxTables /\ MaxTables \in Nat
  BY Lengths, LimitsAssumption DEF LimitsAssumption
<1>2. \A j \in 1..n : U[j].name \in Names /\ j \in 1..MaxTables
  BY <1>1 DEF Definitions, IsTable
<1>3. SaveCatalog(U) = a \o FlattenSeq(B)
  BY DEF SaveCatalog
<1>4. KnownWrites(a)
  <2>1. \A j \in 1..MaxTables : KnownWrite(a[j])
    BY KnownKeys, KnownOp
  <2>2. a = [j \in 1..MaxTables |-> a[j]]
    OBVIOUS
  <2> HIDE DEF a
  <2> QED
    BY <1>1, <2>1, <2>2, KnownList
<1>5. \A o \in X : KnownWrite(o)
  BY <1>2, KnownKeys, KnownOp
<1>6. \A j \in 1..n : B[j] \in Seq(X)
  <2> SUFFICES ASSUME NEW j \in 1..n
               PROVE  B[j] \in Seq(X)
    OBVIOUS
  <2>1. /\ Put(CKey(j), U[j].name) \in X /\ Delete(TKey(U[j].name)) \in X
        /\ Put(TKey(U[j].name), U[j]) \in X
    OBVIOUS
  <2> HIDE DEF X
  <2> QED
    BY <2>1
<1>7. B = [j \in 1..n |-> B[j]]
  OBVIOUS
<1> HIDE DEF a, B, X, n
<1>8. FlattenSeq(B) \in Seq(X)
  BY <1>1, <1>6, <1>7, FlattenIn
<1>9. KnownWrites(FlattenSeq(B))
  BY <1>5, <1>8 DEF KnownWrites
<1>10. KnownWrites(a \o FlattenSeq(B))
  BY <1>4, <1>9, KnownOn
<1> QED
  BY <1>3, <1>10

-----------------------------------------------------------------------------
(* The statements.  Each accepted one leads from a database to a database;   *)
(* apart from one table the two are the same, and of that one either the     *)
(* definition or the rows.                                                   *)
OneName(T, R, U, Q) ==
  \E name \in Names :
    /\ \A i \in 1..Len(T) : T[i].name # name =>
         \E l \in 1..Len(U) : U[l] = T[i] /\ Q[T[i].name] = R[T[i].name]
    /\ \A l \in 1..Len(U) : U[l].name # name => \E i \in 1..Len(T) : T[i] = U[l]
    /\ \A i \in 1..Len(T), l \in 1..Len(U) :
         T[i].name = name /\ U[l].name = name => T[i] = U[l] \/ Q[name] = R[name]

(* What follows ops is a database again. *)
Done(s, T, R, ops) ==
  KnownWrites(ops) /\ \E z, U, Q : Leads(s, ops, z) /\ Holds(z, U, Q) /\ OneName(T, R, U, Q)

LEMMA TableFound ==
  ASSUME NEW T, Definitions(T), NEW name, FindTable(T, name) > 0
  PROVE  FindTable(T, name) \in 1..Len(T) /\ T[FindTable(T, name)].name = name
<1>1. Len(T) \in Nat
  BY Lengths
<1>2. FindTable(T, name) \in 0..Len(T) /\ (FindTable(T, name) > 0 => T[FindTable(T, name)].name = name)
  BY <1>1, FindTableIs
<1> DEFINE i == FindTable(T, name)
<1> HIDE DEF i
<1> QED
  BY <1>1, <1>2 DEF i

(* New rows of one table. *)
LEMMA SaveRowsDone ==
  ASSUME NEW s, NEW T, NEW R, Holds(s, T, R), NEW j \in 1..Len(T),
         NEW rows, rows \in Seq(RowFits(T[j])), KeysHold(T, Changed(R, T[j].name, rows))
  PROVE  Done(s, T, R, SaveRows(s, T[j], rows))
<1> DEFINE Q == Changed(R, T[j].name, rows)
           z == Saved(s, T[j], Len(R[T[j].name]), rows)
<1>1. Definitions(T) /\ RowsFit(T, R) /\ Layout(s, T, R)
  BY DEF Holds
<1>2. Len(rows) \in Nat
  OBVIOUS
<1>3. Leads(s, SaveRows(s, T[j], rows), z) /\ ChangesTable(s, z, T[j], rows)
  BY <1>1, <1>2, SavedChanges
<1>4. [T EXCEPT ![j] = T[j]] = T
  BY <1>1, Lengths
<1> HIDE DEF z
<1>5. Layout(z, [T EXCEPT ![j] = T[j]], Q)
  BY <1>1, <1>3, OneTable
<1>6. Layout(z, T, Q)
  BY <1>4, <1>5
<1>7. Q[T[j].name] = rows /\ \A i \in 1..Len(T) : i # j => Q[T[i].name] = R[T[i].name]
  <2>1. \A i \in 1..Len(T) : T[i].name \in Names
    BY <1>1 DEF Definitions, IsTable
  <2>2. \A i \in 1..Len(T) : i # j => T[i].name # T[j].name
    BY <1>1 DEF Definitions
  <2>3. Q[T[j].name] = rows
    BY <2>1, ChangedIs
  <2>4. \A i \in 1..Len(T) : i # j => Q[T[i].name] = R[T[i].name]
    BY <2>1, <2>2, ChangedIs
  <2> QED
    BY <2>3, <2>4
<1> HIDE DEF Q
<1>8. RowsFit(T, Q)
  BY <1>1, <1>7 DEF RowsFit
<1>9. Holds(z, T, Q)
  BY <1>1, <1>6, <1>8 DEF Holds, Q
<1>10. OneName(T, R, T, Q)
  <2>1. T[j].name \in Names
    BY <1>1 DEF Definitions, IsTable
  <2>2. \A i, l \in 1..Len(T) : T[i].name = T[l].name => i = l
    BY <1>1 DEF Definitions
  <2> QED
    BY <1>7, <2>1, <2>2 DEF OneName
<1>11. KnownWrites(SaveRows(s, T[j], rows))
  BY <1>1, KnownSaveRows
<1> QED
  BY <1>3, <1>9, <1>10, <1>11 DEF Done

(* References hold on where the referred rows keep their keys: rows of table *)
(* p replace old.                                                            *)
KeepsKeys(p, old, rows, t, row) ==
  \A f \in 1..Len(t.fks) :
    p.pk > 0 /\ t.fks[f].table = p.name /\ HasKey(p, old, row[t.fks[f].col])
      => HasKey(p, rows, row[t.fks[f].col])

LEMMA StillRefers ==
  ASSUME NEW T, NEW R, Definitions(T), NEW j \in 1..Len(T), NEW rows,
         NEW i \in 1..Len(T), NEW t, t = T[i], NEW row,
         RowRefers(T, R, t, row), KeepsKeys(T[j], R[T[j].name], rows, t, row)
  PROVE  RowRefers(T, Changed(R, T[j].name, rows), t, row)
<1> DEFINE Q == Changed(R, T[j].name, rows)
<1>1. Q[T[j].name] = rows /\ \A l \in 1..Len(T) : l # j => Q[T[l].name] = R[T[l].name]
  BY ChangedRows
<1> HIDE DEF Q
<1>2. ASSUME NEW f \in 1..Len(t.fks)
      PROVE  /\ row[t.fks[f].col] # Empty
             /\ \A p \in 1..Len(T) : T[p].name = t.fks[f].table
                  => HasKey(T[p], Q[T[p].name], row[t.fks[f].col])
  <2>1. /\ row[t.fks[f].col] # Empty
        /\ \A p \in 1..Len(T) : T[p].name = t.fks[f].table
             => HasKey(T[p], R[T[p].name], row[t.fks[f].col])
    BY DEF RowRefers
  <2>2. ASSUME NEW p \in 1..Len(T), T[p].name = t.fks[f].table
        PROVE  HasKey(T[p], Q[T[p].name], row[t.fks[f].col])
    <3>1. HasKey(T[p], R[T[p].name], row[t.fks[f].col])
      BY <2>1, <2>2
    <3>2. CASE p = j
      <4>1. PICK l \in 1..Len(T) : Refers(T[i].fks[f], T[l])
        BY DEF Definitions
      <4>2. l = j
        BY <2>2, <3>2, <4>1 DEF Refers, Definitions
      <4>3. T[j].pk > 0
        BY <4>1, <4>2 DEF Refers
      <4> QED
        BY <1>1, <2>2, <3>1, <3>2, <4>3 DEF KeepsKeys
    <3>3. CASE p # j
      BY <1>1, <3>1, <3>3
    <3> QED
      BY <3>2, <3>3
  <2> QED
    BY <2>1, <2>2
<1> QED
  BY <1>2 DEF RowRefers, Q

LEMMA KeysStillHold ==
  ASSUME NEW T, NEW R, Definitions(T), KeysHold(T, R), NEW j \in 1..Len(T), NEW rows,
         KeyHolds(T[j], rows),
         \A r \in 1..Len(rows) :
           RowRefers(T, R, T[j], rows[r]) /\ KeepsKeys(T[j], R[T[j].name], rows, T[j], rows[r]),
         \A i \in 1..Len(T) : \A r \in 1..Len(R[T[i].name]) :
           i # j => KeepsKeys(T[j], R[T[j].name], rows, T[i], R[T[i].name][r])
  PROVE  KeysHold(T, Changed(R, T[j].name, rows))
<1> DEFINE Q == Changed(R, T[j].name, rows)
<1>1. Q[T[j].name] = rows /\ \A i \in 1..Len(T) : i # j => Q[T[i].name] = R[T[i].name]
  BY ChangedRows
<1> HIDE DEF Q
<1>2. ASSUME NEW i \in 1..Len(T)
      PROVE  /\ KeyHolds(T[i], Q[T[i].name])
             /\ \A r \in 1..Len(Q[T[i].name]) : RowRefers(T, Q, T[i], Q[T[i].name][r])
  <2>1. CASE i = j
    <3>1. \A r \in 1..Len(rows) : RowRefers(T, Q, T[j], rows[r])
      BY <2>1, StillRefers DEF Q
    <3> QED
      BY <1>1, <2>1, <3>1
  <2>2. CASE i # j
    <3>1. Q[T[i].name] = R[T[i].name]
      BY <1>1, <2>2
    <3>2. KeyHolds(T[i], R[T[i].name]) /\ \A r \in 1..Len(R[T[i].name]) : RowRefers(T, R, T[i], R[T[i].name][r])
      BY DEF KeysHold
    <3>3. \A r \in 1..Len(R[T[i].name]) : RowRefers(T, Q, T[i], R[T[i].name][r])
      BY <2>2, <3>2, StillRefers DEF Q
    <3> QED
      BY <3>1, <3>2, <3>3
  <2> QED
    BY <2>1, <2>2
<1> QED
  BY <1>2 DEF KeysHold, Q

LEMMA InsertDone ==
  ASSUME NEW s, NEW T, NEW R, Holds(s, T, R), NEW name, NEW row \in Rows,
         InsertOk(s, T, name, row)
  PROVE  Done(s, T, R, InsertOps(s, T, name, row))
<1> DEFINE j == FindTable(T, name)
           t == T[j]
           old == R[t.name]
           rows == Append(old, row)
<1>1. Definitions(T) /\ RowsFit(T, R) /\ Layout(s, T, R) /\ KeysHold(T, R)
  BY DEF Holds
<1>2. j > 0 /\ Len(row) = Len(t.cols)
      /\ (t.pk > 0 => row[t.pk] # Empty /\ FindPkDuplicate(t, LoadRows(s, t), row[t.pk]) = 0)
      /\ CheckForeignKeys(s, T, t, row)
  BY DEF InsertOk
<1>3. j \in 1..Len(T)
  BY <1>1, <1>2, TableFound
<1> HIDE DEF j
<1>4. LoadRows(s, t) = old
  BY <1>1, <1>3, LayoutRows
<1>5. InsertOps(s, T, name, row) = SaveRows(s, t, rows)
  BY <1>4 DEF InsertOps, j
<1>6. row \in RowFits(t)
  <2>1. PICK d \in TableDefs : row \in [1..Len(d.cols) -> ColumnValues]
    BY DEF Rows
  <2>2. Len(d.cols) \in Nat
    BY EngineAssumption DEF EngineAssumption, TableDef
  <2>3. Len(row) = Len(d.cols)
    BY <2>1, <2>2
  <2> HIDE DEF t
  <2> QED
    BY <1>2, <2>1, <2>3 DEF RowFits
<1>7. old \in Seq(RowFits(t))
  BY <1>1, <1>3 DEF RowsFit
<1>8. RowRefers(T, R, t, row)
  BY <1>1, <1>2, <1>3, ForeignKeysChecked
<1>9. KeyHolds(t, old) /\ \A r \in 1..Len(old) : RowRefers(T, R, t, old[r])
  BY <1>1, <1>3 DEF KeysHold
<1> DEFINE S == RowFits(t)
<1> HIDE DEF t, old, S
<1>10. /\ rows \in Seq(S) /\ Len(old) \in Nat /\ Len(rows) = Len(old) + 1
       /\ rows[Len(old) + 1] = row /\ \A r \in 1..Len(old) : rows[r] = old[r]
  BY <1>6, <1>7 DEF S
<1> HIDE DEF rows
<1>11. \A r \in 1..Len(rows) : r \in 1..Len(old) \/ r = Len(old) + 1
  BY <1>10
<1>12. KeyHolds(t, rows)
  <2> SUFFICES ASSUME t.pk > 0
               PROVE  /\ \A r \in 1..Len(rows) : rows[r][t.pk] # Empty
                      /\ \A r, q \in 1..Len(rows) : rows[r][t.pk] = rows[q][t.pk] => r = q
    BY DEF KeyHolds
  <2>1. \A r \in 1..Len(old) : ~(old[r][t.pk] = row[t.pk])
    BY <1>2, <1>4, <1>10, FindPkDuplicateIs
  <2>2. /\ \A r \in 1..Len(old) : old[r][t.pk] # Empty
        /\ \A r, q \in 1..Len(old) : old[r][t.pk] = old[q][t.pk] => r = q
    BY <1>9 DEF KeyHolds
  <2> QED
    BY <1>2, <1>10, <1>11, <2>1, <2>2
<1>13. \A value : HasKey(t, old, value) => HasKey(t, rows, value)
  <2>1. \A r \in 1..Len(old) : r \in 1..Len(rows)
    BY <1>10
  <2> QED
    BY <1>10, <2>1 DEF HasKey
<1>14. \A u, x : KeepsKeys(t, old, rows, u, x)
  BY <1>13 DEF KeepsKeys
<1>15. \A r \in 1..Len(rows) : RowRefers(T, R, t, rows[r])
  BY <1>8, <1>9, <1>10, <1>11
<1>16. KeysHold(T, Changed(R, T[j].name, rows))
  BY <1>1, <1>3, <1>12, <1>14, <1>15, KeysStillHold DEF t, old
<1>17. Done(s, T, R, SaveRows(s, T[j], rows))
  BY <1>3, <1>10, <1>16, SaveRowsDone DEF S, t
<1> QED
  BY <1>5, <1>17 DEF t

LEMMA DeleteDone ==
  ASSUME NEW s, NEW T, NEW R, Holds(s, T, R), NEW name, NEW where,
         DeleteOk(s, T, name, where)
  PROVE  Done(s, T, R, DeleteOps(s, T, name, where))
<1> DEFINE j == FindTable(T, name)
           t == T[j]
           old == R[t.name]
           K == {r \in 1..Len(old) : ~WhereMatch(t, old[r], where)}
           kept == Ascending(K)
           c == Cardinality(K)
           rows == [i \in 1..c |-> old[kept[i]]]
<1>1. Definitions(T) /\ RowsFit(T, R) /\ Layout(s, T, R) /\ KeysHold(T, R)
  BY DEF Holds
<1>2. j > 0
      /\ (t.pk > 0 => \A r \in 1..Len(LoadRows(s, t)) :
            WhereMatch(t, LoadRows(s, t)[r], where)
              => ~RowIsReferenced(s, T, t, LoadRows(s, t)[r][t.pk]))
  BY DEF DeleteOk
<1>3. j \in 1..Len(T)
  BY <1>1, <1>2, TableFound
<1> HIDE DEF j
<1>4. LoadRows(s, t) = old
  BY <1>1, <1>3, LayoutRows
<1>5. /\ old \in Seq(RowFits(t)) /\ Len(old) \in Nat
      /\ \A r \in 1..Len(old) : old[r] \in RowFits(t)
  BY <1>1, <1>3, RowLengths DEF RowsFit
<1>6. K \in SUBSET (1..Len(old))
  OBVIOUS
<1>7. /\ c \in Nat /\ kept \in [1..c -> K]
      /\ \A a, b \in 1..c : a < b => kept[a] < kept[b]
      /\ \A x \in K : \E i \in 1..c : kept[i] = x
  <2> HIDE DEF K, old
  <2> QED
    BY <1>5, <1>6, AscendingIs
<1>8. Len(kept) = c
  <2> HIDE DEF kept, c
  <2> QED
    BY <1>7
<1>9. DeleteOps(s, T, name, where) = SaveRows(s, t, rows)
  BY <1>4, <1>8 DEF DeleteOps, j
<1>10. KeyHolds(t, old) /\ \A r \in 1..Len(old) : RowRefers(T, R, t, old[r])
  BY <1>1, <1>3 DEF KeysHold
<1>11. \A r \in 1..Len(old) : r \notin K => WhereMatch(t, old[r], where)
  OBVIOUS
<1> DEFINE S == RowFits(t)
<1> HIDE DEF t, old, K, kept, c, S
<1>12. \A i \in 1..c : kept[i] \in 1..Len(old) /\ rows[i] = old[kept[i]]
  BY <1>6, <1>7
<1>13. rows \in Seq(S) /\ Len(rows) = c
  BY <1>5, <1>7, <1>12 DEF S
<1> HIDE DEF rows
<1>14. \A a, b \in 1..c : kept[a] = kept[b] => a = b
  <2> SUFFICES ASSUME NEW a \in 1..c, NEW b \in 1..c, kept[a] = kept[b]
               PROVE  a = b
    OBVIOUS
  <2>1. kept[a] \in Int /\ ~(a < b) /\ ~(b < a)
    BY <1>5, <1>7, <1>12
  <2> QED
    BY <1>7, <2>1
<1>15. KeyHolds(t, rows)
  <2> SUFFICES ASSUME t.pk > 0
               PROVE  /\ \A r \in 1..Len(rows) : rows[r][t.pk] # Empty
                      /\ \A r, q \in 1..Len(rows) : rows[r][t.pk] = rows[q][t.pk] => r = q
    BY DEF KeyHolds
  <2>1. /\ \A r \in 1..Len(old) : old[r][t.pk] # Empty
        /\ \A r, q \in 1..Len(old) : old[r][t.pk] = old[q][t.pk] => r = q
    BY <1>10 DEF KeyHolds
  <2>2. \A r \in 1..Len(rows) : rows[r][t.pk] # Empty
    BY <1>12, <1>13, <2>1
  <2>3. ASSUME NEW r \in 1..c, NEW q \in 1..c, rows[r][t.pk] = rows[q][t.pk]
        PROVE  r = q
    <3>1. kept[r] = kept[q]
      BY <1>12, <2>1, <2>3
    <3> QED
      BY <1>14, <3>1
  <2> QED
    BY <1>13, <2>2, <2>3
<1>16. ASSUME NEW i \in 1..Len(T), NEW r \in 1..Len(R[T[i].name])
       PROVE  KeepsKeys(t, old, rows, T[i], R[T[i].name][r])
  <2> SUFFICES ASSUME NEW f \in 1..Len(T[i].fks), t.pk > 0, T[i].fks[f].table = t.name,
                      HasKey(t, old, R[T[i].name][r][T[i].fks[f].col])
               PROVE  HasKey(t, rows, R[T[i].name][r][T[i].fks[f].col])
    BY DEF KeepsKeys
  <2> DEFINE fk == T[i].fks[f]
             value == R[T[i].name][r][fk.col]
  <2>1. PICK q \in 1..Len(old) : old[q][t.pk] = value
    BY DEF HasKey
  <2>2. PICK p \in 1..Len(T) : Refers(fk, T[p])
    BY <1>1 DEF Definitions
  <2>3. p = j
    BY <1>1, <1>3, <2>2 DEF Definitions, Refers, t
  <2>4. fk.ref = t.cols[t.pk] /\ t.pk > 0
    <3> HIDE DEF fk
    <3>1. fk.ref = T[p].cols[T[p].pk]
      BY <1>1, <2>2, ReferredTable
    <3> QED
      BY <2>2, <2>3, <3>1 DEF Refers, t
  <2>5. LoadRows(s, T[i]) = R[T[i].name]
    BY <1>1, LayoutRows
  <2>6. RowIsReferenced(s, T, t, value)
    BY <2>4, <2>5 DEF RowIsReferenced
  <2>7. q \in K
    BY <1>2, <1>4, <1>11, <2>1, <2>4, <2>6
  <2>8. PICK x \in 1..c : kept[x] = q
    BY <1>7, <2>7
  <2> QED
    BY <1>12, <1>13, <2>1, <2>8 DEF HasKey
<1>17. ASSUME NEW x \in 1..Len(rows)
       PROVE  RowRefers(T, R, t, rows[x]) /\ KeepsKeys(t, old, rows, t, rows[x])
  <2>1. kept[x] \in 1..Len(old) /\ rows[x] = old[kept[x]]
    BY <1>12, <1>13
  <2>2. KeepsKeys(T[j], R[T[j].name], rows, T[j], R[T[j].name][kept[x]])
    BY <1>3, <1>16, <2>1 DEF t, old
  <2> QED
    BY <1>10, <2>1, <2>2 DEF t, old
<1>18. KeysHold(T, Changed(R, T[j].name, rows))
  BY <1>1, <1>3, <1>15, <1>16, <1>17, KeysStillHold DEF t, old
<1>19. Done(s, T, R, SaveRows(s, T[j], rows))
  BY <1>3, <1>13, <1>18, SaveRowsDone DEF S, t
<1> QED
  BY <1>9, <1>19 DEF t

LEMMA UpdateDone ==
  ASSUME NEW s, NEW T, NEW R, Holds(s, T, R), NEW name, NEW col, NEW val \in ColumnValues,
         NEW where, UpdateOk(s, T, name, col, val, where)
  PROVE  Done(s, T, R, UpdateOps(s, T, name, col, val, where))
<1> DEFINE j == FindTable(T, name)
           t == T[j]
           old == R[t.name]
           c == FindCol(t, col)
           rows == [r \in 1..Len(old) |-> Updated(t, old[r], col, val, where)]
<1>1. Definitions(T) /\ RowsFit(T, R) /\ Layout(s, T, R) /\ KeysHold(T, R)
  BY DEF Holds
<1>2. j > 0 /\ c > 0 /\ c # t.pk
      /\ \A r \in 1..Len(LoadRows(s, t)) :
           WhereMatch(t, LoadRows(s, t)[r], where)
             => CheckForeignKeys(s, T, t, Updated(t, LoadRows(s, t)[r], col, val, where))
  BY DEF UpdateOk
<1>3. j \in 1..Len(T)
  BY <1>1, <1>2, TableFound
<1> HIDE DEF j
<1>4. LoadRows(s, t) = old
  BY <1>1, <1>3, LayoutRows
<1>5. /\ old \in Seq(RowFits(t)) /\ Len(old) \in Nat
      /\ \A r \in 1..Len(old) : old[r] \in RowFits(t)
  BY <1>1, <1>3, RowLengths DEF RowsFit
<1>6. UpdateOps(s, T, name, col, val, where) = SaveRows(s, t, rows)
  BY <1>4 DEF UpdateOps, j
<1>7. KeyHolds(t, old) /\ \A r \in 1..Len(old) : RowRefers(T, R, t, old[r])
  BY <1>1, <1>3 DEF KeysHold
<1>8. \A r \in 1..Len(old) : \/ rows[r] = [old[r] EXCEPT ![c] = val] /\ WhereMatch(t, old[r], where)
                             \/ rows[r] = old[r]
  BY DEF Updated
<1>9. \A r \in 1..Len(old) : WhereMatch(t, old[r], where) => RowRefers(T, R, t, rows[r])
  BY <1>1, <1>2, <1>3, <1>4, ForeignKeysChecked
<1>10. Len(rows) = Len(old) /\ DOMAIN rows = 1..Len(old)
  BY <1>5
<1>10a. rows = [r \in 1..Len(old) |-> rows[r]]
  OBVIOUS
<1> DEFINE S == RowFits(t)
<1> HIDE DEF t, old, c, rows, S
<1>11. \A r \in 1..Len(old) : rows[r] \in S /\ (t.pk > 0 => rows[r][t.pk] = old[r][t.pk])
  <2> SUFFICES ASSUME NEW r \in 1..Len(old)
               PROVE  rows[r] \in S /\ (t.pk > 0 => rows[r][t.pk] = old[r][t.pk])
    OBVIOUS
  <2>1. old[r] \in [1..Len(t.cols) -> ColumnValues]
    BY <1>5 DEF RowFits
  <2>2. [old[r] EXCEPT ![c] = val] \in [1..Len(t.cols) -> ColumnValues]
        /\ (t.pk > 0 => [old[r] EXCEPT ![c] = val][t.pk] = old[r][t.pk])
    <3>1. t.pk > 0 => t.pk \in 1..Len(t.cols)
      BY <1>1, <1>3 DEF Definitions, IsTable, t
    <3> QED
      BY <1>2, <2>1, <3>1
  <2> QED
    BY <1>8, <2>1, <2>2 DEF S, RowFits
<1>12. rows \in Seq(S)
  BY <1>5, <1>10a, <1>11
<1>13. KeyHolds(t, rows)
  BY <1>7, <1>10, <1>11 DEF KeyHolds
<1>14. \A value : t.pk > 0 /\ HasKey(t, old, value) => HasKey(t, rows, value)
  BY <1>10, <1>11 DEF HasKey
<1>15. \A u, x : KeepsKeys(t, old, rows, u, x)
  BY <1>14 DEF KeepsKeys
<1>16. \A r \in 1..Len(rows) : RowRefers(T, R, t, rows[r])
  BY <1>7, <1>8, <1>9, <1>10
<1>17. KeysHold(T, Changed(R, T[j].name, rows))
  BY <1>1, <1>3, <1>13, <1>15, <1>16, KeysStillHold DEF t, old
<1>18. Done(s, T, R, SaveRows(s, T[j], rows))
  BY <1>3, <1>12, <1>17, SaveRowsDone DEF S, t
<1> QED
  BY <1>6, <1>18 DEF t

LEMMA CreateDone ==
  ASSUME NEW s, NEW T, NEW R, Holds(s, T, R), NEW def \in TableDefs, CreateOk(T, def)
  PROVE  Done(s, T, R, CreateOps(T, def))
<1> DEFINE d == [def EXCEPT !.ixs = << >>]
           n == Len(T)
           U == Append(T, d)
           Q == Changed(R, d.name, << >>)
<1>1. Definitions(T) /\ RowsFit(T, R) /\ Layout(s, T, R) /\ KeysHold(T, R)
  BY DEF Holds
<1>2. /\ n \in Nat /\ n <= MaxTables /\ MaxTables \in Nat /\ T \in Seq(TableDef)
  BY <1>1, Lengths, LimitsAssumption DEF LimitsAssumption, Definitions
<1>3. /\ FindTable(T, def.name) = 0 /\ n < MaxTables
      /\ def.pk \in 0..Len(def.cols)
      /\ \A f \in 1..Len(def.fks) :
           /\ def.fks[f].col \in 1..Len(def.cols)
           /\ FindTable(T, def.fks[f].table) > 0
           /\ FindCol(T[FindTable(T, def.fks[f].table)], def.fks[f].ref) > 0
           /\ T[FindTable(T, def.fks[f].table)].pk
                = FindCol(T[FindTable(T, def.fks[f].table)], def.fks[f].ref)
  BY DEF CreateOk
<1>4. def \in TableDef
  BY EngineAssumption DEF EngineAssumption
<1>5. /\ d \in TableDef /\ d.name = def.name /\ d.cols = def.cols /\ d.pk = def.pk
      /\ d.fks = def.fks /\ d.ixs = << >> /\ Len(<< >>) = 0
  <2>1. << >> \in Seq([name : STRING, col : Nat]) /\ Len(<< >>) = 0
    OBVIOUS
  <2>2. d \in TableDef
    BY <1>4, <2>1 DEF TableDef
  <2> QED
    BY <1>4, <2>1, <2>2 DEF TableDef
<1>6. d.name \in Names
  BY <1>5 DEF Names
<1>7. \A i \in 1..n : T[i].name # d.name
  BY <1>2, <1>3, <1>5, FindTableIs
<1> HIDE DEF d, n
<1>8. IsTable(d)
  <2>1. \A x \in 1..Len(d.ixs) : FALSE
    BY <1>5
  <2> QED
    BY <1>3, <1>5, <1>6, <2>1 DEF IsTable
<1>9. \A f \in 1..Len(d.fks) : \E p \in 1..n : Refers(d.fks[f], T[p])
  <2> SUFFICES ASSUME NEW f \in 1..Len(d.fks)
               PROVE  \E p \in 1..n : Refers(d.fks[f], T[p])
    OBVIOUS
  <2> DEFINE p == FindTable(T, d.fks[f].table)
  <2>1. p > 0 /\ FindCol(T[p], d.fks[f].ref) > 0 /\ T[p].pk = FindCol(T[p], d.fks[f].ref)
    BY <1>3, <1>5
  <2>2. p \in 1..n /\ T[p].name = d.fks[f].table
    BY <1>1, <2>1, TableFound DEF n
  <2> HIDE DEF p
  <2> QED
    BY <2>1, <2>2 DEF Refers
<1>10. /\ U \in Seq(TableDef) /\ Len(U) = n + 1 /\ U[n + 1] = d
       /\ \A i \in 1..n : U[i] = T[i] /\ i \in 1..n + 1
       /\ \A i \in 1..n + 1 : i \in 1..n \/ i = n + 1
  BY <1>2, <1>5 DEF n
<1>11. Q[d.name] = << >> /\ \A i \in 1..n : Q[T[i].name] = R[T[i].name]
  <2>1. \A i \in 1..n : T[i].name \in Names
    BY <1>1 DEF Definitions, IsTable, n
  <2> QED
    BY <1>6, <1>7, <2>1, ChangedIs
<1>12. PICK z : Leads(s, SaveCatalog(U), z) /\ Layout(z, U, Q)
  BY <1>1, <1>3, <1>5, <1>6, <1>7, CreatedLeads DEF n
<1> HIDE DEF U, Q
<1>13. /\ \A i \in 1..n : IsTable(T[i])
       /\ \A i, l \in 1..n : T[i].name = T[l].name => i = l
       /\ \A i \in 1..n : \A f \in 1..Len(T[i].fks) : \E p \in 1..n : Refers(T[i].fks[f], T[p])
  BY <1>1 DEF Definitions, n
<1>14. Definitions(U)
  <2>1. \A i \in 1..Len(U) : IsTable(U[i])
    BY <1>8, <1>10, <1>13
  <2>2. \A i, l \in 1..Len(U) : U[i].name = U[l].name => i = l
    BY <1>7, <1>10, <1>13
  <2>3. \A i \in 1..Len(U) : \A f \in 1..Len(U[i].fks) : \E p \in 1..Len(U) : Refers(U[i].fks[f], U[p])
    <3> SUFFICES ASSUME NEW i \in 1..Len(U), NEW f \in 1..Len(U[i].fks)
                 PROVE  \E p \in 1..Len(U) : Refers(U[i].fks[f], U[p])
      OBVIOUS
    <3>1. PICK p \in 1..n : Refers(U[i].fks[f], T[p])
      BY <1>9, <1>10, <1>13
    <3> QED
      BY <1>10, <3>1
  <2>4. Len(U) <= MaxTables
    BY <1>2, <1>3, <1>10
  <2> QED
    BY <1>10, <2>1, <2>2, <2>3, <2>4 DEF Definitions
<1>15. RowsFit(U, Q)
  <2>1. \A i \in 1..n : Q[U[i].name] \in Seq(RowFits(U[i]))
    BY <1>1, <1>10, <1>11 DEF RowsFit, n
  <2>2. Q[U[n + 1].name] \in Seq(RowFits(U[n + 1]))
    BY <1>10, <1>11
  <2> QED
    BY <1>10, <2>1, <2>2 DEF RowsFit
<1>16. KeysHold(U, Q)
  <2> SUFFICES ASSUME NEW i \in 1..Len(U)
               PROVE  /\ KeyHolds(U[i], Q[U[i].name])
                      /\ \A r \in 1..Len(Q[U[i].name]) : RowRefers(U, Q, U[i], Q[U[i].name][r])
    BY DEF KeysHold
  <2>1. CASE i = n + 1
    <3>1. Q[U[i].name] = << >> /\ \A r \in 1..Len(<< >>) : FALSE
      BY <1>5, <1>10, <1>11, <2>1
    <3> QED
      BY <3>1 DEF KeyHolds
  <2>2. CASE i \in 1..n
    <3>1. U[i] = T[i] /\ Q[U[i].name] = R[T[i].name]
      BY <1>10, <1>11, <2>2
    <3>2. KeyHolds(T[i], R[T[i].name]) /\ \A r \in 1..Len(R[T[i].name]) : RowRefers(T, R, T[i], R[T[i].name][r])
      BY <1>1, <2>2 DEF KeysHold, n
    <3>3. ASSUME NEW r \in 1..Len(R[T[i].name])
          PROVE  RowRefers(U, Q, T[i], R[T[i].name][r])
      <4> DEFINE row == R[T[i].name][r]
      <4>1. RowRefers(T, R, T[i], row)
        BY <3>2
      <4> HIDE DEF row
      <4> SUFFICES ASSUME NEW f \in 1..Len(T[i].fks)
                   PROVE  /\ row[T[i].fks[f].col] # Empty
                          /\ \A p \in 1..Len(U) : U[p].name = T[i].fks[f].table
                               => HasKey(U[p], Q[U[p].name], row[T[i].fks[f].col])
        BY DEF RowRefers, row
      <4>2. /\ row[T[i].fks[f].col] # Empty
            /\ \A p \in 1..n : T[p].name = T[i].fks[f].table
                 => HasKey(T[p], R[T[p].name], row[T[i].fks[f].col])
        BY <4>1 DEF RowRefers, n
      <4>3. T[i].fks[f].table # d.name
        BY <1>7, <1>13, <2>2 DEF Refers
      <4>4. ASSUME NEW p \in 1..Len(U), U[p].name = T[i].fks[f].table
            PROVE  HasKey(U[p], Q[U[p].name], row[T[i].fks[f].col])
        <5>1. p \in 1..n
          BY <1>10, <4>3, <4>4
        <5>2. U[p] = T[p] /\ Q[U[p].name] = R[T[p].name]
          BY <1>10, <1>11, <5>1
        <5> QED
          BY <4>2, <4>4, <5>1, <5>2
      <4> QED
        BY <4>2, <4>4
    <3> QED
      BY <3>1, <3>2, <3>3
  <2> QED
    BY <1>10, <2>1, <2>2
<1>17. Holds(z, U, Q)
  BY <1>12, <1>14, <1>15, <1>16 DEF Holds
<1>18. OneName(T, R, U, Q)
  <2>1. \A i \in 1..n : U[i] = T[i] /\ Q[T[i].name] = R[T[i].name] /\ i \in 1..Len(U)
    BY <1>10, <1>11
  <2>2. \A l \in 1..Len(U) : U[l].name # d.name => l \in 1..n /\ T[l] = U[l]
    BY <1>10
  <2> QED
    BY <1>6, <1>7, <2>1, <2>2 DEF OneName, n
<1>19. KnownWrites(SaveCatalog(U))
  BY <1>17, KnownSaveCatalog DEF Holds
<1> QED
  BY <1>12, <1>17, <1>18, <1>19 DEF Done, CreateOps, U, d

(* A table with other indexes. *)
LEMMA RedefinedDone ==
  ASSUME NEW s, NEW T, NEW R, Holds(s, T, R), NEW j \in 1..Len(T), NEW t, IsTable(t),
         t.name = T[j].name, t.cols = T[j].cols, t.pk = T[j].pk, t.fks = T[j].fks,
         NEW w \in IndexWrites(s, t, R[t.name])
  PROVE  Done(s, T, R, w \o SaveCatalog([T EXCEPT ![j] = t]))
<1> DEFINE U == [T EXCEPT ![j] = t]
<1>1. Definitions(T) /\ RowsFit(T, R) /\ Layout(s, T, R) /\ KeysHold(T, R)
  BY DEF Holds
<1>2. t \in TableDef /\ Len(t.ixs) \in Nat
  BY DEF IsTable, TableDef
<1>3. PICK z : Leads(s, w \o SaveCatalog(U), z) /\ Layout(z, U, R)
  BY <1>1, <1>2, RedefinedLeads
<1>4. /\ U \in Seq(TableDef) /\ Len(U) = Len(T) /\ U[j] = t
      /\ \A i \in 1..Len(T) : i # j => U[i] = T[i]
  BY <1>1, <1>2 DEF Definitions
<1> HIDE DEF U
<1>5. \A i \in 1..Len(T) : /\ U[i].name = T[i].name /\ U[i].cols = T[i].cols
                           /\ U[i].pk = T[i].pk /\ U[i].fks = T[i].fks
  BY <1>4
<1>6. \A fk, i : i \in 1..Len(T) => (Refers(fk, U[i]) <=> Refers(fk, T[i]))
  <2>1. \A i, x : i \in 1..Len(T) => FindCol(U[i], x) = FindCol(T[i], x)
    BY <1>5 DEF FindCol
  <2> QED
    BY <1>5, <2>1 DEF Refers
<1>7. Definitions(U)
  <2>1. \A i \in 1..Len(U) : IsTable(U[i])
    BY <1>1, <1>4 DEF Definitions
  <2>2. \A i, l \in 1..Len(U) : U[i].name = U[l].name => i = l
    BY <1>1, <1>4, <1>5 DEF Definitions
  <2>3. \A i \in 1..Len(U) : \A f \in 1..Len(U[i].fks) : \E p \in 1..Len(U) : Refers(U[i].fks[f], U[p])
    <3> SUFFICES ASSUME NEW i \in 1..Len(T), NEW f \in 1..Len(T[i].fks)
                 PROVE  \E p \in 1..Len(T) : Refers(T[i].fks[f], U[p])
      <4>1. \A i \in 1..Len(U) : i \in 1..Len(T) /\ U[i].fks = T[i].fks
        BY <1>4, <1>5
      <4>2. 1..Len(U) = 1..Len(T)
        BY <1>4
      <4> QED
        BY <4>1, <4>2, Zenon
    <3>1. PICK p \in 1..Len(T) : Refers(T[i].fks[f], T[p])
      BY <1>1 DEF Definitions
    <3> QED
      BY <1>6, <3>1
  <2>4. Len(U) <= MaxTables
    BY <1>1, <1>4 DEF Definitions
  <2> QED
    BY <1>4, <2>1, <2>2, <2>3, <2>4 DEF Definitions
<1>8. RowsFit(U, R)
  BY <1>1, <1>4, <1>5 DEF RowsFit, RowFits
<1>9. KeysHold(U, R)
  <2>1. \A i \in 1..Len(T) : \A rows, value : HasKey(U[i], rows, value) <=> HasKey(T[i], rows, value)
    BY <1>5 DEF HasKey
  <2>2. \A i \in 1..Len(T) : \A rows : KeyHolds(U[i], rows) <=> KeyHolds(T[i], rows)
    BY <1>5 DEF KeyHolds
  <2>3. \A i \in 1..Len(T) : \A row : RowRefers(T, R, T[i], row) => RowRefers(U, R, U[i], row)
    <3> SUFFICES ASSUME NEW i \in 1..Len(T), NEW row, RowRefers(T, R, T[i], row)
                 PROVE  RowRefers(U, R, U[i], row)
      OBVIOUS
    <3>0. U[i].fks = T[i].fks
      BY <1>5
    <3> SUFFICES ASSUME NEW f \in 1..Len(T[i].fks)
                 PROVE  /\ row[T[i].fks[f].col] # Empty
                        /\ \A p \in 1..Len(U) : U[p].name = T[i].fks[f].table
                             => HasKey(U[p], R[U[p].name], row[T[i].fks[f].col])
      BY <3>0 DEF RowRefers
    <3>1. /\ row[T[i].fks[f].col] # Empty
          /\ \A p \in 1..Len(T) : T[p].name = T[i].fks[f].table
               => HasKey(T[p], R[T[p].name], row[T[i].fks[f].col])
      BY DEF RowRefers
    <3> QED
      BY <1>4, <1>5, <2>1, <3>1
  <2> QED
    BY <1>1, <1>4, <1>5, <2>2, <2>3 DEF KeysHold
<1>10. OneName(T, R, U, R)
  <2>1. T[j].name \in Names
    BY <1>1 DEF Definitions, IsTable
  <2>2. \A i \in 1..Len(T) : T[i].name # T[j].name => U[i] = T[i]
    BY <1>4
  <2>3. \A i \in 1..Len(U) : U[i].name # T[j].name => T[i] = U[i]
    BY <1>4, <1>5
  <2> QED
    BY <1>4, <2>1, <2>2, <2>3 DEF OneName
<1>11. Holds(z, U, R)
  BY <1>3, <1>7, <1>8, <1>9 DEF Holds
<1>12. KnownWrites(w \o SaveCatalog(U))
  <2> DEFINE a == DeleteIndexRows(s, t)
             b == PutIndexRows(t, R[t.name])
             c == SaveCatalog(U)
  <2>1. KnownWrites(a)
    <3>1. \A k \in DOMAIN s : IsKey(k)
      BY <1>1, KnownLayout
    <3>2. IsFiniteSet(IndexKeys(s, t.name))
      BY <1>1, LayoutIndex
    <3> QED
      BY <3>1, <3>2, KnownIndexDeletes
  <2>2. KnownWrites(b)
    <3>1. R[t.name] \in Seq(RowFits(t))
      BY <1>1 DEF RowsFit, RowFits
    <3> QED
      BY <3>1, KnownIndexPuts
  <2>3. KnownWrites(c)
    BY <1>7, KnownSaveCatalog
  <2> HIDE DEF a, b, c
  <2>4. KnownWrites(a \o b)
    BY <2>1, <2>2, KnownOn
  <2>5. KnownWrites(a \o (a \o b))
    BY <2>1, <2>4, KnownOn
  <2>6. KnownWrites(w)
    BY <2>4, <2>5 DEF IndexWrites, RebuildIndexes, a, b
  <2> QED
    BY <2>3, <2>6, KnownOn DEF c
<1> QED
  BY <1>3, <1>10, <1>11, <1>12 DEF Done, U

LEMMA CreateIndexDone ==
  ASSUME NEW s, NEW T, NEW R, Holds(s, T, R), NEW x \in IndexNames, NEW name, NEW col,
         CreateIndexOk(T, x, name, col)
  PROVE  Done(s, T, R, CreateIndexOps(s, T, x, name, col))
<1> DEFINE j == FindTable(T, name)
           c == FindCol(T[j], col)
           ix == [name |-> x, col |-> c]
           ixs == Append(T[j].ixs, ix)
           t == [T[j] EXCEPT !.ixs = ixs]
<1>1. Definitions(T) /\ RowsFit(T, R) /\ Layout(s, T, R)
  BY DEF Holds
<1>2. j > 0 /\ FindIndexName(T[j], x) = 0 /\ c > 0
  BY DEF CreateIndexOk
<1>3. j \in 1..Len(T)
  BY <1>1, <1>2, TableFound
<1>4. CreateIndexOps(s, T, x, name, col)
        = RebuildIndexes(s, t, LoadRows(s, t)) \o SaveCatalog([T EXCEPT ![j] = t])
  BY DEF CreateIndexOps
<1> HIDE DEF j
<1>5. IsTable(T[j]) /\ T[j] \in TableDef
  BY <1>1, <1>3 DEF Definitions, IsTable
<1>6. Len(T[j].cols) \in Nat /\ Len(T[j].ixs) \in Nat /\ T[j].ixs \in Seq([name : STRING, col : Nat])
  BY <1>5 DEF TableDef
<1>7. c \in 1..Len(T[j].cols) /\ T[j].cols[c] = col
  <2>1. FindCol(T[j], col) \in 0..Len(T[j].cols)
        /\ (FindCol(T[j], col) > 0 => T[j].cols[FindCol(T[j], col)] = col)
    BY <1>6, FindColIs
  <2> QED
    BY <1>2, <1>6, <2>1
<1>8. c = FindCol(T[j], T[j].cols[c])
  BY <1>7
<1> HIDE DEF c
<1>9. ix \in [name : STRING, col : Nat] /\ ix.name = x /\ ix.col = c
  BY <1>6, <1>7, EngineAssumption DEF EngineAssumption
<1> HIDE DEF ix
<1>10. /\ ixs \in Seq([name : STRING, col : Nat]) /\ Len(ixs) = Len(T[j].ixs) + 1
       /\ ixs[Len(T[j].ixs) + 1] = ix /\ \A y \in 1..Len(T[j].ixs) : ixs[y] = T[j].ixs[y]
  BY <1>6, <1>9
<1> HIDE DEF ixs
<1>11. /\ t \in TableDef /\ t.name = T[j].name /\ t.cols = T[j].cols /\ t.pk = T[j].pk
       /\ t.fks = T[j].fks /\ t.ixs = ixs
  BY <1>5, <1>10 DEF TableDef
<1> HIDE DEF t
<1>12. \A y \in 1..Len(ixs) : y \in 1..Len(T[j].ixs) \/ y = Len(T[j].ixs) + 1
  BY <1>6, <1>10
<1>13. \A y \in 1..Len(T[j].ixs) : ~(T[j].ixs[y].name = x)
  BY <1>2, <1>6, FindIndexNameIs
<1>14. \A v : FindCol(t, v) = FindCol(T[j], v)
  BY <1>11 DEF FindCol
<1>15. IsTable(t)
  <2>1. ASSUME NEW y \in 1..Len(ixs)
        PROVE  /\ ixs[y].name \in IndexNames /\ ixs[y].col \in 1..Len(t.cols)
               /\ ixs[y].col = FindCol(t, t.cols[ixs[y].col])
    <3>1. CASE y \in 1..Len(T[j].ixs)
      BY <1>5, <1>10, <1>11, <1>14, <3>1 DEF IsTable
    <3>2. CASE y = Len(T[j].ixs) + 1
      BY <1>7, <1>8, <1>9, <1>10, <1>11, <1>14, <3>2
    <3> QED
      BY <1>12, <3>1, <3>2
  <2>2. \A y, w \in 1..Len(ixs) : ixs[y].name = ixs[w].name => y = w
    BY <1>5, <1>9, <1>10, <1>12, <1>13 DEF IsTable
  <2> QED
    BY <1>5, <1>11, <2>1, <2>2 DEF IsTable
<1>16. LoadRows(s, t) = R[t.name]
  <2>1. LoadRows(s, t) = LoadRows(s, T[j])
    BY <1>11 DEF LoadRows
  <2> QED
    BY <1>1, <1>3, <1>11, <2>1, LayoutRows
<1>17. Done(s, T, R, RebuildIndexes(s, t, R[t.name]) \o SaveCatalog([T EXCEPT ![j] = t]))
  BY <1>3, <1>11, <1>15, RedefinedDone DEF IndexWrites
<1> QED
  BY <1>4, <1>16, <1>17

LEMMA DropIndexDone ==
  ASSUME NEW s, NEW T, NEW R, Holds(s, T, R), NEW x, IndexOwner(T, x) > 0
  PROVE  Done(s, T, R, DropIndexOps(s, T, x))
<1> DEFINE j == IndexOwner(T, x)
           i == FindIndexName(T[j], x)
           ixs == RemoveAt(T[j].ixs, i)
           t == [T[j] EXCEPT !.ixs = ixs]
<1>1. Definitions(T) /\ RowsFit(T, R) /\ Layout(s, T, R) /\ Len(T) \in Nat
  BY Lengths DEF Holds
<1>2. IndexOwner(T, x) \in 0..Len(T) /\ FindIndexName(T[IndexOwner(T, x)], x) > 0
  BY <1>1, IndexOwnerIs
<1>3. j \in 1..Len(T) /\ i > 0
  BY <1>1, <1>2
<1>4. DropIndexOps(s, T, x)
        = DeleteIndexRows(s, t) \o RebuildIndexes(s, t, LoadRows(s, t))
            \o SaveCatalog([T EXCEPT ![j] = t])
  BY DEF DropIndexOps
<1> HIDE DEF j
<1>5. IsTable(T[j]) /\ T[j] \in TableDef
  BY <1>1, <1>3 DEF Definitions, IsTable
<1> DEFINE n == Len(T[j].ixs)
<1>6. n \in Nat /\ T[j].ixs \in Seq([name : STRING, col : Nat])
  BY <1>5 DEF TableDef
<1>7. i \in 1..n
  <2>1. FindIndexName(T[j], x) \in 0..Len(T[j].ixs)
    BY <1>6, FindIndexNameIs
  <2> QED
    BY <1>3, <1>6, <2>1
<1> HIDE DEF i
<1>8. /\ ixs \in Seq([name : STRING, col : Nat]) /\ Len(ixs) = n - 1
      /\ \A y \in 1..n - 1 : ixs[y] = IF y < i THEN T[j].ixs[y] ELSE T[j].ixs[y + 1]
  BY <1>6, <1>7, RemovedIs
<1> HIDE DEF ixs, n
<1>9. /\ t \in TableDef /\ t.name = T[j].name /\ t.cols = T[j].cols /\ t.pk = T[j].pk
      /\ t.fks = T[j].fks /\ t.ixs = ixs
  BY <1>5, <1>8 DEF TableDef
<1> HIDE DEF t
<1>10. \A v : FindCol(t, v) = FindCol(T[j], v)
  BY <1>9 DEF FindCol
<1>11. IsTable(t)
  <2> DEFINE at(y) == IF y < i THEN y ELSE y + 1
  <2>1. \A y \in 1..Len(ixs) : at(y) \in 1..n /\ ixs[y] = T[j].ixs[at(y)]
    BY <1>6, <1>7, <1>8
  <2>2. \A y, w \in 1..Len(ixs) : at(y) = at(w) => y = w
    BY <1>6, <1>7, <1>8
  <2> HIDE DEF at
  <2>3. \A y \in 1..Len(ixs) : /\ ixs[y].name \in IndexNames
                               /\ ixs[y].col \in 1..Len(t.cols)
                               /\ ixs[y].col = FindCol(t, t.cols[ixs[y].col])
    <3> SUFFICES ASSUME NEW y \in 1..Len(ixs)
                 PROVE  /\ ixs[y].name \in IndexNames
                        /\ ixs[y].col \in 1..Len(t.cols)
                        /\ ixs[y].col = FindCol(t, t.cols[ixs[y].col])
      OBVIOUS
    <3> DEFINE q == at(y)
    <3>1. q \in 1..n /\ ixs[y] = T[j].ixs[q]
      BY <2>1
    <3> HIDE DEF q
    <3>2. /\ T[j].ixs[q].name \in IndexNames /\ T[j].ixs[q].col \in 1..Len(T[j].cols)
          /\ T[j].ixs[q].col = FindCol(T[j], T[j].cols[T[j].ixs[q].col])
      BY <1>5, <3>1 DEF IsTable, n
    <3> QED
      BY <1>9, <1>10, <3>1, <3>2
  <2>4. \A y, w \in 1..Len(ixs) : ixs[y].name = ixs[w].name => y = w
    <3> SUFFICES ASSUME NEW y \in 1..Len(ixs), NEW w \in 1..Len(ixs), ixs[y].name = ixs[w].name
                 PROVE  y = w
      OBVIOUS
    <3> DEFINE q == at(y)
               r == at(w)
    <3>1. q \in 1..n /\ r \in 1..n /\ T[j].ixs[q].name = T[j].ixs[r].name /\ (q = r => y = w)
      BY <2>1, <2>2
    <3> HIDE DEF q, r
    <3>2. q = r
      BY <1>5, <3>1 DEF IsTable, n
    <3> QED
      BY <3>1, <3>2
  <2> QED
    BY <1>5, <1>9, <2>3, <2>4 DEF IsTable
<1>12. LoadRows(s, t) = R[t.name]
  <2>1. LoadRows(s, t) = LoadRows(s, T[j])
    BY <1>9 DEF LoadRows
  <2> QED
    BY <1>1, <1>3, <1>9, <2>1, LayoutRows
<1>13. Done(s, T, R, DeleteIndexRows(s, t) \o RebuildIndexes(s, t, R[t.name])
                       \o SaveCatalog([T EXCEPT ![j] = t]))
  BY <1>3, <1>9, <1>11, RedefinedDone DEF IndexWrites
<1> QED
  BY <1>4, <1>12, <1>13

LEMMA DropTableDone ==
  ASSUME NEW s, NEW T, NEW R, Holds(s, T, R), NEW name, DropOk(T, name)
  PROVE  Done(s, T, R, DropOps(s, T, name))
<1> DEFINE j == FindTable(T, name)
           U == RemoveAt(T, j)
<1>1. Definitions(T) /\ RowsFit(T, R) /\ Layout(s, T, R) /\ KeysHold(T, R)
  BY DEF Holds
<1>2. j > 0 /\ \A c \in (1..Len(T)) \ {j} : \A f \in 1..Len(T[c].fks) : T[c].fks[f].table # name
  BY DEF DropOk
<1>3. j \in 1..Len(T) /\ T[j].name = name
  BY <1>1, <1>2, TableFound
<1>4. PICK z : Leads(s, DropOps(s, T, name), z) /\ Layout(z, U, R)
  BY <1>1, <1>3, DroppedLeads
<1> HIDE DEF j
<1>5. /\ U \in Seq(TableDef) /\ Len(U) \in Nat /\ Len(U) <= MaxTables
      /\ \A i \in 1..Len(U) : \E l \in 1..Len(T) : l # j /\ U[i] = T[l]
      /\ \A l \in 1..Len(T) : l # j => \E i \in 1..Len(U) : U[i] = T[l]
      /\ Distinct(U)
  BY <1>1, <1>3, RemovedTables
<1> HIDE DEF U
<1>6. Definitions(U)
  <2>1. ASSUME NEW i \in 1..Len(U), NEW f \in 1..Len(U[i].fks)
        PROVE  \E p \in 1..Len(U) : Refers(U[i].fks[f], U[p])
    <3>1. PICK l \in 1..Len(T) : l # j /\ U[i] = T[l]
      BY <1>5
    <3>2. PICK p \in 1..Len(T) : Refers(T[l].fks[f], T[p])
      BY <1>1, <3>1 DEF Definitions
    <3>3. T[l].fks[f].table # name
      BY <1>2, <3>1
    <3>4. p # j
      BY <1>3, <3>2, <3>3 DEF Refers
    <3> QED
      BY <1>5, <3>1, <3>2, <3>4
  <2>2. \A i \in 1..Len(U) : IsTable(U[i])
    BY <1>1, <1>5 DEF Definitions
  <2> QED
    BY <1>5, <2>1, <2>2 DEF Definitions, Distinct
<1>7. RowsFit(U, R)
  BY <1>1, <1>5 DEF RowsFit
<1>8. KeysHold(U, R)
  <2> SUFFICES ASSUME NEW i \in 1..Len(U)
               PROVE  /\ KeyHolds(U[i], R[U[i].name])
                      /\ \A r \in 1..Len(R[U[i].name]) : RowRefers(U, R, U[i], R[U[i].name][r])
    BY DEF KeysHold
  <2>1. PICK l \in 1..Len(T) : U[i] = T[l]
    BY <1>5
  <2>2. /\ KeyHolds(T[l], R[T[l].name])
        /\ \A r \in 1..Len(R[T[l].name]) : RowRefers(T, R, T[l], R[T[l].name][r])
    BY <1>1 DEF KeysHold
  <2>3. \A row : RowRefers(T, R, T[l], row) => RowRefers(U, R, T[l], row)
    <3> SUFFICES ASSUME NEW row, RowRefers(T, R, T[l], row), NEW f \in 1..Len(T[l].fks)
                 PROVE  /\ row[T[l].fks[f].col] # Empty
                        /\ \A p \in 1..Len(U) : U[p].name = T[l].fks[f].table
                             => HasKey(U[p], R[U[p].name], row[T[l].fks[f].col])
      BY DEF RowRefers
    <3>1. /\ row[T[l].fks[f].col] # Empty
          /\ \A p \in 1..Len(T) : T[p].name = T[l].fks[f].table
               => HasKey(T[p], R[T[p].name], row[T[l].fks[f].col])
      BY DEF RowRefers
    <3>2. \A p \in 1..Len(U) : \E q \in 1..Len(T) : U[p] = T[q]
      BY <1>5
    <3> QED
      BY <3>1, <3>2
  <2> QED
    BY <2>1, <2>2, <2>3
<1>9. Holds(z, U, R)
  BY <1>4, <1>6, <1>7, <1>8 DEF Holds
<1>10. OneName(T, R, U, R)
  <2>1. name \in Names
    BY <1>1, <1>3 DEF Definitions, IsTable
  <2>2. \A i \in 1..Len(T) : T[i].name # name => i # j
    BY <1>3
  <2>3. \A l \in 1..Len(U) : \E i \in 1..Len(T) : T[i] = U[l]
    BY <1>5
  <2> QED
    BY <1>5, <2>1, <2>2, <2>3 DEF OneName
<1>11. KnownWrites(DropOps(s, T, name))
  <2> DEFINE n == Len(R[name])
             a == << Delete(TKey(name)) >>
             b == [r \in 1..n |-> Delete(RKey(name, r))]
             c == DeleteIndexRows(s, T[j])
             e == SaveCatalog(U)
  <2>1. SlotSeq(s, name) = Run(n) /\ n \in Nat
    BY <1>1, <1>3, LayoutRows, RowLengths
  <2>2. DropOps(s, T, name) = a \o b \o c \o e
    <3>1. Len(Run(n)) = n /\ \A r \in 1..n : Run(n)[r] = r
      BY <2>1, RunIs
    <3> HIDE DEF n
    <3>2. [r \in 1..Len(SlotSeq(s, name)) |-> Delete(RKey(name, SlotSeq(s, name)[r]))] = b
      BY <2>1, <3>1
    <3> HIDE DEF b
    <3> QED
      BY <3>2 DEF DropOps, U, j
  <2>3. name \in Names
    BY <1>1, <1>3 DEF Definitions, IsTable
  <2>4. KnownWrites(a)
    <3> DEFINE X == {Delete(TKey(name))}
    <3>1. a \in Seq(X) /\ \A o \in X : KnownWrite(o)
      BY <2>3, KnownKeys, KnownOp
    <3> HIDE DEF X
    <3> QED
      BY <3>1 DEF KnownWrites
  <2>5. KnownWrites(b)
    BY <2>1, <2>3, KnownRowDeletes
  <2>6. KnownWrites(c)
    <3>1. \A k \in DOMAIN s : IsKey(k)
      BY <1>1, KnownLayout
    <3>2. IsFiniteSet(IndexKeys(s, T[j].name))
      BY <1>1, <1>3, LayoutIndex
    <3> QED
      BY <3>1, <3>2, KnownIndexDeletes
  <2>7. KnownWrites(e)
    BY <1>6, KnownSaveCatalog
  <2> HIDE DEF a, b, c, e
  <2>8. KnownWrites(a \o b)
    BY <2>4, <2>5, KnownOn
  <2>9. KnownWrites(a \o b \o c)
    BY <2>6, <2>8, KnownOn
  <2>10. KnownWrites(a \o b \o c \o e)
    BY <2>7, <2>9, KnownOn
  <2> QED
    BY <2>2, <2>10
<1> QED
  BY <1>4, <1>9, <1>10, <1>11 DEF Done
-----------------------------------------------------------------------------
(* The engine. *)
LEMMA RefusedDone ==
  ASSUME NEW s, NEW T, NEW R, Holds(s, T, R)
  PROVE  Done(s, T, R, << >>)
<1>1. Leads(s, << >>, s)
  BY LeadsNowhere
<1>2. \E name : name \in Names
  BY EngineAssumption DEF EngineAssumption, Names
<1>3. OneName(T, R, T, R)
  BY <1>2 DEF OneName
<1> QED
  BY <1>1, <1>3, KnownNothing DEF Done

LEMMA OutcomeDone ==
  ASSUME NEW s, NEW T, NEW R, Holds(s, T, R), NEW ok, NEW ops, ok => Done(s, T, R, ops)
  PROVE  Done(s, T, R, Outcome(ok, ops).ops)
BY RefusedDone DEF Outcome

LEMMA StatementIdle == Statement => pc = "idle"
BY DEF Statement, Insert, DeleteFrom, Update, CreateTable, CreateIndex, DropIndex, DropTable, Execute

(* As long as nothing fails, execute loads every definition. *)
LEMMA ExecutedWell ==
  ASSUME NEW out, Execute(out), faults = 0, faults' = 0,
         NEW T, NEW R, Holds(kv, T, R)
  PROVE  /\ pc = "idle" /\ Accepted(out[{}]) /\ UNCHANGED <<kv, base>>
         /\ {} \in Unread /\ Loaded({}) = T
<1>1. Definitions(T) /\ Layout(kv, T, R)
  BY DEF Holds
<1>2. CatalogReadable(kv, {}) /\ Catalog(kv, {}) = T
  BY <1>1, LayoutCatalog
<1>3. ~Fault
  BY DEF Fault
<1>4. Accepted(out[{}])
  BY <1>2, <1>3 DEF Execute, Loads
<1> QED
  BY <1>2, <1>4 DEF Execute, Unread, Loaded

(* Each statement that execute accepts makes writes that lead from a database *)
(* to a database.                                                             *)
LEMMA StatementStep ==
  ASSUME Statement, faults = 0, faults' = 0, NEW T, NEW R, Holds(kv, T, R)
  PROVE  /\ pc = "idle" /\ pc' = "run" /\ UNCHANGED <<kv, base>>
         /\ Done(kv, T, R, todo')
         /\ mode = "none" => mode' = "implicit" /\ implicit' = 1
         /\ mode # "none" => UNCHANGED <<mode, implicit>>
<1> DEFINE Accepts(ok, ops) ==
             pc = "idle" /\ UNCHANGED <<kv, base>> /\ Accepted(Outcome(ok, ops))
<1>1. \E ok, ops : Accepts(ok, ops) /\ (ok => Done(kv, T, R, ops))
  <2>1. ASSUME NEW name \in Names, NEW row \in Rows, Insert(name, row)
        PROVE  /\ Accepts(InsertOk(kv, T, name, row), InsertOps(kv, T, name, row))
               /\ InsertOk(kv, T, name, row) => Done(kv, T, R, InsertOps(kv, T, name, row))
    BY <2>1, ExecutedWell, InsertDone DEF Insert
  <2>2. ASSUME NEW name \in Names, NEW where \in Wheres, DeleteFrom(name, where)
        PROVE  /\ Accepts(DeleteOk(kv, T, name, where), DeleteOps(kv, T, name, where))
               /\ DeleteOk(kv, T, name, where) => Done(kv, T, R, DeleteOps(kv, T, name, where))
    BY <2>2, ExecutedWell, DeleteDone DEF DeleteFrom
  <2>3. ASSUME NEW name \in Names, NEW col \in ColumnNames, NEW val \in ColumnValues,
               NEW where \in Wheres, Update(name, col, val, where)
        PROVE  /\ Accepts(UpdateOk(kv, T, name, col, val, where),
                          UpdateOps(kv, T, name, col, val, where))
               /\ UpdateOk(kv, T, name, col, val, where)
                    => Done(kv, T, R, UpdateOps(kv, T, name, col, val, where))
    BY <2>3, ExecutedWell, UpdateDone DEF Update
  <2>4. ASSUME NEW def \in TableDefs, CreateTable(def)
        PROVE  /\ Accepts(CreateOk(T, def), CreateOps(T, def))
               /\ CreateOk(T, def) => Done(kv, T, R, CreateOps(T, def))
    BY <2>4, ExecutedWell, CreateDone DEF CreateTable
  <2>5. ASSUME NEW x \in IndexNames, NEW name \in Names, NEW col \in ColumnNames,
               CreateIndex(x, name, col)
        PROVE  /\ Accepts(CreateIndexOk(T, x, name, col), CreateIndexOps(kv, T, x, name, col))
               /\ CreateIndexOk(T, x, name, col)
                    => Done(kv, T, R, CreateIndexOps(kv, T, x, name, col))
    BY <2>5, ExecutedWell, CreateIndexDone DEF CreateIndex
  <2>6. ASSUME NEW x \in IndexNames, DropIndex(x)
        PROVE  /\ Accepts(IndexOwner(T, x) > 0, DropIndexOps(kv, T, x))
               /\ IndexOwner(T, x) > 0 => Done(kv, T, R, DropIndexOps(kv, T, x))
    BY <2>6, ExecutedWell, DropIndexDone DEF DropIndex
  <2>7. ASSUME NEW name \in Names, DropTable(name)
        PROVE  /\ Accepts(DropOk(T, name), DropOps(kv, T, name))
               /\ DropOk(T, name) => Done(kv, T, R, DropOps(kv, T, name))
    BY <2>7, ExecutedWell, DropTableDone DEF DropTable
  <2> HIDE DEF Accepts
  <2> QED
    BY <2>1, <2>2, <2>3, <2>4, <2>5, <2>6, <2>7 DEF Statement
<1>2. PICK ok, ops : Accepts(ok, ops) /\ (ok => Done(kv, T, R, ops))
  BY <1>1
<1>3. Done(kv, T, R, Outcome(ok, ops).ops)
  BY <1>2, OutcomeDone
<1> QED
  BY <1>2, <1>3 DEF Accepted

(* The stores between statements are databases; inside a statement, what is  *)
(* left of its writes leads to one.                                          *)
ControlInv ==
  /\ mode \in {"none", "user", "implicit"} /\ implicit \in 0..1 /\ pc \in {"idle", "run"}
  /\ pc = "idle" => todo = << >> /\ implicit = 0 /\ mode # "implicit" /\ (mode = "none" => kv = base)
  /\ pc = "run" => mode # "none" /\ (implicit = 1 <=> mode = "implicit")

LeadsToOne(T, R) ==
  \E z, U, Q : Leads(kv, todo, z) /\ Holds(z, U, Q) /\ (implicit = 1 => OneName(T, R, U, Q))

EngineInv ==
  /\ ControlInv
  /\ KnownWrites(todo) /\ \A k \in DOMAIN kv : IsKey(k)
  /\ \E T, R : Holds(base, T, R) /\ LeadsToOne(T, R)

QuietInv == faults \in Nat /\ tears \in Nat /\ (Whole => EngineInv)

LEMMA IdleHolds ==
  ASSUME EngineInv, pc = "idle"
  PROVE  \E T, R : Holds(kv, T, R)
BY LeadsNowhere DEF EngineInv, ControlInv, LeadsToOne

LEMMA BaseHolds ==
  ASSUME EngineInv
  PROVE  \E T, R : Holds(base, T, R)
BY DEF EngineInv

LEMMA InitEngine == Init => QuietInv
<1> SUFFICES ASSUME Init
             PROVE  EngineInv
  BY DEF Init, QuietInv
<1> DEFINE R == [n \in Names |-> << >>]
<1>1. ControlInv
  BY DEF Init, ControlInv
<1>2. Len(<< >>) = 0 /\ << >> \in Seq(TableDef) /\ MaxTables \in Nat
  BY LimitsAssumption DEF LimitsAssumption
<1>3. \A j \in 1..Len(<< >>) : FALSE
  BY <1>2
<1>4. Holds(<< >>, << >>, R)
  <2>1. Definitions(<< >>)
    BY <1>2, <1>3 DEF Definitions
  <2>2. RowsFit(<< >>, R) /\ KeysHold(<< >>, R)
    BY <1>3 DEF RowsFit, KeysHold
  <2>3. DOMAIN << >> = {} /\ IsStore(<< >>)
    BY DEF IsStore
  <2>4. \A k : ~IsRecord(k, << >>, R)
    BY <1>3 DEF IsRecord, IsC
  <2>5. Layout(<< >>, << >>, R)
    BY <1>3, <2>3, <2>4 DEF Layout
  <2> QED
    BY <2>1, <2>2, <2>5 DEF Holds
<1> HIDE DEF R
<1>5. Leads(<< >>, << >>, << >>)
  BY LeadsNowhere
<1>6. kv = << >> /\ base = << >> /\ todo = << >> /\ implicit = 0
  BY DEF Init
<1>7. Holds(base, << >>, R) /\ Leads(kv, todo, << >>) /\ ~(implicit = 1)
  BY <1>4, <1>5, <1>6
<1>8. KnownWrites(todo) /\ DOMAIN kv = {}
  BY <1>6, KnownNothing
<1> QED
  BY <1>1, <1>4, <1>7, <1>8 DEF EngineInv, LeadsToOne

(* What stays when a statement ends, or when the next run begins. *)
LEMMA RestsOn ==
  ASSUME ControlInv', pc' = "idle", NEW T, NEW R, Holds(base', T, R), NEW U, NEW Q, Holds(kv', U, Q)
  PROVE  EngineInv'
<1>1. todo' = << >> /\ implicit' = 0
  BY DEF ControlInv
<1>2. Leads(kv', todo', kv')
  BY <1>1, LeadsNowhere
<1>3. LeadsToOne(T, R)'
  BY <1>1, <1>2 DEF LeadsToOne
<1>4. KnownWrites(todo')
  BY <1>1, KnownNothing
<1>5. \A k \in DOMAIN kv' : IsKey(k)
  BY KnownLayout DEF Holds
<1> QED
  BY <1>3, <1>4, <1>5 DEF EngineInv

LEMMA StepEngine == QuietInv /\ [Next]_vars => QuietInv'
<1> SUFFICES ASSUME QuietInv, [Next]_vars
             PROVE  QuietInv'
  OBVIOUS
<1>1. /\ faults \in Nat /\ (faults' = faults \/ faults' = faults + 1)
      /\ tears \in Nat /\ (tears' = tears \/ tears' = tears + 1)
  BY DEF QuietInv, Next, Begin, Commit, Rollback, Statement, Insert, DeleteFrom, Update, CreateTable,
         CreateIndex, DropIndex, DropTable, Execute, RunOp, Finish, Crash, Quit, Tear, Works, Fault, vars
<1> SUFFICES ASSUME Whole, Whole'
             PROVE  EngineInv'
  BY <1>1 DEF QuietInv, Whole
<1>2. EngineInv /\ ControlInv /\ faults = 0 /\ faults' = 0 /\ ~Fault /\ ~Tear
  BY DEF QuietInv, EngineInv, Fault, Tear, Whole
<1>3. PICK T, R : Holds(base, T, R) /\ LeadsToOne(T, R)
  BY <1>2 DEF EngineInv
<1>4. pc = "idle" => \E U, Q : Holds(kv, U, Q)
  BY <1>2, IdleHolds
<1>5. CASE Begin \/ Commit \/ Rollback
  <2>1. ControlInv' /\ pc = "idle" /\ pc' = "idle"
    BY <1>2, <1>5 DEF Begin, Commit, Rollback, ControlInv
  <2>2. (kv' = kv \/ kv' = base) /\ (base' = kv \/ base' = base)
    BY <1>5 DEF Begin, Commit, Rollback
  <2> QED
    BY <1>3, <1>4, <2>1, <2>2, RestsOn
<1>6. CASE Statement
  <2>1. PICK U, Q : Holds(kv, U, Q)
    BY <1>2, <1>6, StatementIdle, IdleHolds
  <2>2. /\ pc = "idle" /\ pc' = "run" /\ UNCHANGED <<kv, base>> /\ Done(kv, U, Q, todo')
        /\ mode = "none" => mode' = "implicit" /\ implicit' = 1
        /\ mode # "none" => UNCHANGED <<mode, implicit>>
    BY <1>2, <1>6, <2>1, StatementStep
  <2>3. ControlInv'
    BY <1>2, <2>2 DEF ControlInv
  <2>4. CASE mode = "none"
    <3>1. Holds(base', U, Q)
      BY <1>2, <2>1, <2>2, <2>4 DEF ControlInv
    <3>2. LeadsToOne(U, Q)'
      BY <2>2 DEF Done, LeadsToOne
    <3> QED
      BY <1>2, <2>2, <2>3, <3>1, <3>2 DEF EngineInv, Done
  <2>5. CASE mode # "none"
    <3>1. Holds(base', T, R) /\ ~(implicit' = 1)
      BY <1>2, <1>3, <2>2, <2>5 DEF ControlInv
    <3>2. LeadsToOne(T, R)'
      BY <2>2, <3>1 DEF Done, LeadsToOne
    <3> QED
      BY <1>2, <2>2, <2>3, <3>1, <3>2 DEF EngineInv, Done
  <2> QED
    BY <2>4, <2>5
<1>7. CASE RunOp
  <2>1. /\ pc = "run" /\ todo # << >> /\ kv' = Apply(kv, Head(todo)) /\ todo' = Tail(todo)
        /\ UNCHANGED <<base, mode, implicit, pc>>
    BY <1>2, <1>7 DEF RunOp
  <2>2. ControlInv'
    BY <1>2, <2>1 DEF ControlInv
  <2>3. PICK z, U, Q : Leads(kv, todo, z) /\ Holds(z, U, Q) /\ (implicit = 1 => OneName(T, R, U, Q))
    BY <1>3 DEF LeadsToOne
  <2>4. Leads(kv', todo', z)
    BY <2>1, <2>3, LeadsOn
  <2>5. LeadsToOne(T, R)'
    BY <2>1, <2>3, <2>4 DEF LeadsToOne
  <2>6. Holds(base', T, R)
    BY <1>3, <2>1
  <2>7. KnownWrites(todo') /\ IsKey(Head(todo).key)
    <3>1. PICK X : todo \in Seq(X) /\ \A o \in X : KnownWrite(o)
      BY <1>2 DEF EngineInv, KnownWrites
    <3>2. Tail(todo) \in Seq(X) /\ Head(todo) \in X
      BY <2>1, <3>1
    <3> QED
      BY <2>1, <3>1, <3>2 DEF KnownWrites, KnownWrite
  <2>8. \A k \in DOMAIN kv' : IsKey(k)
    <3>1. \A k \in DOMAIN kv' : k \in DOMAIN kv \/ k = Head(todo).key
      BY <2>1 DEF Apply, Restrict
    <3> QED
      BY <1>2, <2>7, <3>1 DEF EngineInv
  <2> QED
    BY <2>2, <2>5, <2>6, <2>7, <2>8 DEF EngineInv
<1>8. CASE Finish
  <2>1. pc = "run" /\ todo = << >> /\ pc' = "idle" /\ kv' = kv /\ (base' = base \/ base' = kv)
    BY <1>8 DEF Finish
  <2>2. ControlInv'
    BY <1>2, <1>8 DEF Finish, ControlInv
  <2>3. \E U, Q : Holds(kv, U, Q)
    BY <1>3, <2>1, LeadsNowhere DEF LeadsToOne
  <2> QED
    BY <1>3, <2>1, <2>2, <2>3, RestsOn
<1>9. CASE Crash \/ Quit
  <2>1. kv' = base /\ base' = base /\ pc' = "idle" /\ ControlInv'
    BY <1>9 DEF Crash, Quit, Rerun, Restart, ControlInv
  <2> QED
    BY <1>3, <2>1, RestsOn
<1>10. CASE UNCHANGED vars
  BY <1>2, <1>10 DEF vars, EngineInv, ControlInv, LeadsToOne
<1> QED
  BY <1>2, <1>5, <1>6, <1>7, <1>8, <1>9, <1>10 DEF Next

LEMMA Quiet == Spec => []QuietInv
BY InitEngine, StepEngine, PTL DEF Spec

(* What has once failed stays on record. *)
LEMMA WholeBefore == QuietInv /\ [Next]_vars /\ Whole' => Whole
<1> SUFFICES ASSUME QuietInv, [Next]_vars, Whole'
             PROVE  Whole
  OBVIOUS
<1>1. /\ faults \in Nat /\ (faults' = faults \/ faults' = faults + 1)
      /\ tears \in Nat /\ (tears' = tears \/ tears' = tears + 1)
  BY DEF QuietInv, Next, Begin, Commit, Rollback, Statement, Insert, DeleteFrom, Update, CreateTable,
         CreateIndex, DropIndex, DropTable, Execute, RunOp, Finish, Crash, Quit, Tear, Works, Fault, vars
<1> QED
  BY <1>1 DEF Whole

LEMMA SettledHolds ==
  ASSUME QuietInv, Whole, NEW s \in Settled
  PROVE  \E T, R : Holds(s, T, R)
<1>1. EngineInv
  BY DEF QuietInv
<1> QED
  BY <1>1, IdleHolds, BaseHolds DEF Settled

(* Types, until a record operation fails or a clear is cut short. *)
BoundsInv ==
  reply \in {"OK", "ERR"} /\ count \in 0..MaxStatements /\ crashes \in 0..MaxCrashes
  /\ faults \in 0..MaxFaults /\ tears \in 0..MaxTears

LEMMA Bounds == Spec => []BoundsInv
<1> USE EngineAssumption DEF EngineAssumption
<1>1. Init => BoundsInv
  BY DEF Init, BoundsInv
<1>2. BoundsInv /\ [Next]_vars => BoundsInv'
  <2> SUFFICES ASSUME BoundsInv, [Next]_vars
               PROVE  BoundsInv'
    OBVIOUS
  <2> USE DEF BoundsInv, Answer
  <2>1. Works \/ Fault => /\ crashes' \in 0..MaxCrashes /\ faults' \in 0..MaxFaults
                         /\ tears' \in 0..MaxTears
    BY DEF Works, Fault
  <2>2. ASSUME NEW out, Execute(out)
        PROVE  BoundsInv'
    <3>1. Works \/ Fault
      BY <2>2 DEF Execute
    <3>2. \/ \E w : Accepted(w)
          \/ Refused
      BY <2>2 DEF Execute
    <3>3. mode # "none" => count < MaxStatements
      BY <2>2 DEF Execute
    <3> QED
      BY <2>1, <3>1, <3>2, <3>3 DEF Accepted, Refused
  <2>3. CASE Statement
    BY <2>2, <2>3 DEF Statement, Insert, DeleteFrom, Update, CreateTable, CreateIndex, DropIndex,
                      DropTable
  <2>4. CASE Begin \/ Commit \/ Rollback \/ RunOp \/ Finish
    BY <2>1, <2>4 DEF Begin, Commit, Rollback, RunOp, Finish
  <2>5. CASE Crash \/ Quit \/ Tear
    BY <2>5 DEF Crash, Quit, Tear, Rerun, Restart, Works
  <2>6. CASE UNCHANGED vars
    BY <2>6 DEF vars
  <2> QED
    BY <2>3, <2>4, <2>5, <2>6 DEF Next
<1> QED
  BY <1>1, <1>2, PTL DEF Spec

(* Statements touch no records but those of the catalog, and the rows and    *)
(* index records of tables some CREATE TABLE may name, with slots from 1 up. *)
THEOREM EngineTypes == Spec => [](Whole => TypeOK)
<1>1. ASSUME QuietInv, BoundsInv, Whole
      PROVE  TypeOK
  <2>1. EngineInv /\ ControlInv
    BY <1>1 DEF QuietInv, EngineInv
  <2>2. \A k \in DOMAIN base : IsKey(k)
    BY <2>1, BaseHolds, KnownLayout DEF Holds
  <2>3. \A j \in 1..Len(todo) : todo[j].op \in {"put", "delete"} /\ IsKey(todo[j].key)
    <3>1. PICK X : todo \in Seq(X) /\ \A o \in X : KnownWrite(o)
      BY <2>1 DEF EngineInv, KnownWrites
    <3> QED
      BY <3>1 DEF KnownWrite
  <2> QED
    BY <1>1, <2>1, <2>2, <2>3 DEF TypeOK, BoundsInv, ControlInv, EngineInv
<1> QED
  BY <1>1, Quiet, Bounds, PTL

(* Every store the engine leaves behind has a catalog load_catalog can read, *)
(* with nothing orphaned, while nothing has failed and no clear was cut short.*)
THEOREM CatalogStaysSound == Spec => []CatalogSound
<1>1. ASSUME QuietInv
      PROVE  CatalogSound
  BY <1>1, SettledHolds, LayoutSound DEF CatalogSound, Holds
<1> QED
  BY <1>1, Quiet, PTL

(* PRIMARY KEY and FOREIGN KEY hold in it.                                   *)
THEOREM KeysStaySound == Spec => []KeysSound
<1>1. ASSUME QuietInv
      PROVE  KeysSound
  BY <1>1, SettledHolds, LayoutKeys DEF KeysSound
<1> QED
  BY <1>1, Quiet, PTL

(* A SELECT through an index prints there what a scan of the rows prints.    *)
THEOREM IndexesStaySound == Spec => []IndexSound
<1>1. ASSUME QuietInv
      PROVE  IndexSound
  BY <1>1, SettledHolds, LayoutSelects DEF IndexSound, Holds
<1> QED
  BY <1>1, Quiet, PTL
-----------------------------------------------------------------------------
(* What one statement on its own changes. *)
LEMMA RecordsOfTable ==
  ASSUME NEW s, NEW T, NEW R, Definitions(T), Layout(s, T, R)
  PROVE  /\ \A name : name \in Listed(s) <=> \E i \in 1..Len(T) : T[i].name = name
         /\ \A i \in 1..Len(T) : \A k :
              (k \in DOMAIN s /\ k[1] # "C" /\ k[2] = T[i].name) <=> OfTable(k, T[i], R[T[i].name])
<1>1. \A name : name \in Listed(s) <=> \E i \in 1..Len(T) : T[i].name = name
  <2>1. CatalogSlots(s) = 1..Len(T)
    BY LayoutCatalog
  <2>2. \A i \in 1..Len(T) : s[CKey(i)] = T[i].name
    BY LayoutHas
  <2> QED
    BY <2>1, <2>2 DEF Listed
<1>2. ASSUME NEW i \in 1..Len(T), NEW k, k \in DOMAIN s, k[1] # "C", k[2] = T[i].name
      PROVE  OfTable(k, T[i], R[T[i].name])
  <2>1. PICK l \in 1..Len(T) : OfTable(k, T[l], R[T[l].name])
    BY <1>2, LayoutOwns
  <2>2. T[l].name = T[i].name
    BY <1>2, <2>1, OwnKey
  <2> QED
    BY <2>1, <2>2 DEF Definitions
<1>3. ASSUME NEW i \in 1..Len(T), NEW k, OfTable(k, T[i], R[T[i].name])
      PROVE  k \in DOMAIN s /\ k[1] # "C" /\ k[2] = T[i].name
  <2>1. k[1] # "C" /\ k[2] = T[i].name
    BY <1>3, OwnKey
  <2>2. k \in DOMAIN s
    BY <1>3 DEF Layout, IsRecord
  <2> QED
    BY <2>1, <2>2
<1> QED
  BY <1>1, <1>2, <1>3

LEMMA SameContents ==
  ASSUME NEW s, NEW z, NEW t, NEW rows, Contents(s, t, rows), Contents(z, t, rows),
         NEW k, OfTable(k, t, rows)
  PROVE  s[k] = z[k]
<1>1. CASE k = TKey(t.name)
  BY <1>1 DEF Contents
<1>2. CASE k \in RKeysOf(t.name, Len(rows))
  BY <1>2 DEF Contents, RKeysOf
<1>3. CASE k \in XKeysOf(t, rows)
  BY <1>3 DEF Contents
<1> QED
  BY <1>1, <1>2, <1>3 DEF OfTable

LEMMA OtherTable ==
  ASSUME NEW s, NEW T, NEW R, Definitions(T), Layout(s, T, R),
         NEW z, NEW U, NEW Q, Definitions(U), Layout(z, U, Q),
         NEW other,
         \A i \in 1..Len(T) : T[i].name = other =>
           \E l \in 1..Len(U) : U[l] = T[i] /\ Q[T[i].name] = R[T[i].name],
         \A l \in 1..Len(U) : U[l].name = other => \E i \in 1..Len(T) : T[i] = U[l]
  PROVE  SameTable(s, z, other)
<1> DEFINE KS == {k \in DOMAIN s : k[1] # "C" /\ k[2] = other}
           KZ == {k \in DOMAIN z : k[1] # "C" /\ k[2] = other}
<1>1. other \in Listed(s) <=> \E i \in 1..Len(T) : T[i].name = other
  BY RecordsOfTable
<1>2. other \in Listed(z) <=> \E l \in 1..Len(U) : U[l].name = other
  BY RecordsOfTable
<1>3. KS = KZ /\ \A k \in KS : s[k] = z[k]
  <2>1. ASSUME NEW i \in 1..Len(T), T[i].name = other
        PROVE  KS = KZ /\ \A k \in KS : s[k] = z[k]
    <3>1. PICK l \in 1..Len(U) : U[l] = T[i] /\ Q[T[i].name] = R[T[i].name]
      BY <2>1
    <3>2. \A k : k \in KS <=> OfTable(k, T[i], R[T[i].name])
      BY <2>1, RecordsOfTable
    <3>3. \A k : k \in KZ <=> OfTable(k, U[l], Q[U[l].name])
      BY <2>1, <3>1, RecordsOfTable
    <3>4. Contents(s, T[i], R[T[i].name]) /\ Contents(z, T[i], R[T[i].name])
      BY <3>1 DEF Layout
    <3>5. \A k \in KS : s[k] = z[k]
      BY <3>2, <3>4, SameContents
    <3> HIDE DEF KS, KZ
    <3> QED
      BY <3>1, <3>2, <3>3, <3>5
  <2>2. ASSUME ~\E i \in 1..Len(T) : T[i].name = other
        PROVE  KS = {} /\ KZ = {}
    <3>1. \A k \in KS : \E i \in 1..Len(T) : T[i].name = other
      <4> SUFFICES ASSUME NEW k \in DOMAIN s, k[1] # "C", k[2] = other
                   PROVE  \E i \in 1..Len(T) : T[i].name = other
        OBVIOUS
      <4> QED
        BY LayoutOwns, OwnKey
    <3>2. \A k \in KZ : \E l \in 1..Len(U) : U[l].name = other
      <4> SUFFICES ASSUME NEW k \in DOMAIN z, k[1] # "C", k[2] = other
                   PROVE  \E l \in 1..Len(U) : U[l].name = other
        OBVIOUS
      <4> QED
        BY LayoutOwns, OwnKey
    <3> HIDE DEF KS, KZ
    <3> QED
      BY <2>2, <3>1, <3>2
  <2> QED
    BY <2>1, <2>2
<1>4. RecordsOf(s, other) = RecordsOf(z, other)
  BY <1>3 DEF RecordsOf, Restrict
<1>5. other \in Listed(s) <=> other \in Listed(z)
  BY <1>1, <1>2
<1> QED
  BY <1>4, <1>5 DEF SameTable

LEMMA RKeysAlone ==
  ASSUME NEW t, NEW rows
  PROVE  \A k : (OfTable(k, t, rows) /\ k[1] = "R") <=> k \in RKeysOf(t.name, Len(rows))
<1>1. \A k : OfTable(k, t, rows) /\ k[1] = "R" => k \in RKeysOf(t.name, Len(rows))
  BY KeyOfTable
<1>2. \A k \in RKeysOf(t.name, Len(rows)) : k[1] = "R"
  BY KeyOfTable
<1>3. \A k \in RKeysOf(t.name, Len(rows)) : OfTable(k, t, rows)
  BY DEF OfTable
<1> QED
  BY <1>1, <1>2, <1>3

LEMMA OneOrOther ==
  ASSUME NEW s, NEW T, NEW R, Definitions(T), Layout(s, T, R),
         NEW z, NEW U, NEW Q, Definitions(U), Layout(z, U, Q), NEW name,
         \A i \in 1..Len(T), l \in 1..Len(U) :
           T[i].name = name /\ U[l].name = name => T[i] = U[l] \/ Q[name] = R[name]
  PROVE  DefinitionOrRows(s, z, name)
<1> SUFFICES ASSUME name \in Listed(s), name \in Listed(z)
             PROVE  s[TKey(name)] = z[TKey(name)] \/ RowsOf(s, name) = RowsOf(z, name)
  BY DEF DefinitionOrRows
<1>1. PICK i \in 1..Len(T) : T[i].name = name
  BY RecordsOfTable
<1>2. PICK l \in 1..Len(U) : U[l].name = name
  BY RecordsOfTable
<1>3. CASE T[i] = U[l]
  BY <1>1, <1>2, <1>3, LayoutHas
<1>4. CASE Q[name] = R[name]
  <2> DEFINE KS == {k \in DOMAIN s : k[1] = "R" /\ k[2] = name}
             KZ == {k \in DOMAIN z : k[1] = "R" /\ k[2] = name}
             RK == RKeysOf(name, Len(R[name]))
  <2>1. \A k : k \in KS <=> k \in RK
    <3>1. \A k : k \in KS <=> OfTable(k, T[i], R[T[i].name]) /\ k[1] = "R"
      BY <1>1, RecordsOfTable
    <3>2. \A k : (OfTable(k, T[i], R[T[i].name]) /\ k[1] = "R") <=> k \in RK
      <4> DEFINE rows == R[T[i].name]
      <4> HIDE DEF rows
      <4>1. \A k : (OfTable(k, T[i], rows) /\ k[1] = "R") <=> k \in RKeysOf(T[i].name, Len(rows))
        BY RKeysAlone
      <4> QED
        BY <1>1, <4>1 DEF rows
    <3> QED
      BY <3>1, <3>2
  <2>2. \A k : k \in KZ <=> k \in RK
    <3>1. \A k : k \in KZ <=> OfTable(k, U[l], Q[U[l].name]) /\ k[1] = "R"
      BY <1>2, RecordsOfTable
    <3>2. \A k : (OfTable(k, U[l], Q[U[l].name]) /\ k[1] = "R") <=> k \in RK
      BY <1>2, <1>4, RKeysAlone
    <3> QED
      BY <3>1, <3>2
  <2>3. \A r \in 1..Len(R[name]) : s[RKey(name, r)] = z[RKey(name, r)]
    BY <1>1, <1>2, <1>4, LayoutHas
  <2>4. \A k \in RK : s[k] = z[k]
    BY <2>3 DEF RKeysOf
  <2> HIDE DEF RK
  <2>5. KS = KZ /\ \A k \in KS : s[k] = z[k]
    BY <2>1, <2>2, <2>4
  <2> QED
    BY <2>5 DEF RowsOf, Restrict
<1> QED
  BY <1>1, <1>2, <1>3, <1>4

(* A statement on its own changes one table at most, and of that one either  *)
(* the definition or the rows (save_catalog, save_rows, rebuild_indexes,     *)
(* cmd_drop_index), while nothing has failed and no clear was cut short.     *)
THEOREM OneTableChanges == Spec => ChangesOneTable
<1>1. ASSUME QuietInv, Whole, Whole', [Next]_vars, pc = "run", pc' = "idle", implicit = 1
      PROVE  \E name \in Names : /\ \A other \in Names \ {name} : SameTable(base, base', other)
                                 /\ DefinitionOrRows(base, base', name)
  <2>1. EngineInv /\ ~Fault /\ ~Tear
    BY <1>1 DEF QuietInv, Fault, Tear, Whole
  <2>2. PICK T, R : Holds(base, T, R) /\ LeadsToOne(T, R)
    BY <2>1 DEF EngineInv
  <2>3. CASE base' = base
    <3>1. \E name : name \in Names
      BY EngineAssumption DEF EngineAssumption, Names
    <3>2. \A name : SameTable(base, base', name) /\ DefinitionOrRows(base, base', name)
      BY <2>3 DEF SameTable, DefinitionOrRows
    <3> QED
      BY <3>1, <3>2
  <2>4. CASE Finish
    <3>1. todo = << >> /\ base' = kv
      BY <1>1, <2>1, <2>4 DEF Finish
    <3>2. PICK U, Q : Holds(kv, U, Q) /\ OneName(T, R, U, Q)
      BY <1>1, <2>2, <3>1, LeadsNowhere DEF LeadsToOne
    <3>3. PICK name \in Names :
            /\ \A i \in 1..Len(T) : T[i].name # name =>
                 \E l \in 1..Len(U) : U[l] = T[i] /\ Q[T[i].name] = R[T[i].name]
            /\ \A l \in 1..Len(U) : U[l].name # name => \E i \in 1..Len(T) : T[i] = U[l]
            /\ \A i \in 1..Len(T), l \in 1..Len(U) :
                 T[i].name = name /\ U[l].name = name => T[i] = U[l] \/ Q[name] = R[name]
      BY <3>2 DEF OneName
    <3>4. /\ Definitions(T) /\ Layout(base, T, R) /\ Definitions(U) /\ Layout(base', U, Q)
      BY <2>2, <3>1, <3>2 DEF Holds
    <3>5. \A other \in Names \ {name} : SameTable(base, base', other)
      BY <3>3, <3>4, OtherTable
    <3>6. DefinitionOrRows(base, base', name)
      BY <3>3, <3>4, OneOrOther
    <3> QED
      BY <3>5, <3>6
  <2>5. CASE Begin \/ Commit \/ Rollback \/ Statement \/ RunOp \/ Crash \/ Quit \/ UNCHANGED vars
    BY <1>1, <2>3, <2>5, StatementIdle
       DEF Begin, Commit, Rollback, RunOp, Crash, Quit, Rerun, vars
  <2> QED
    BY <1>1, <2>1, <2>4, <2>5 DEF Next
<1> DEFINE OneTableStep ==
      (Whole' /\ pc = "run" /\ pc' = "idle" /\ implicit = 1) =>
       \E name \in Names :
         /\ \A other \in Names \ {name} : SameTable(base, base', other)
         /\ DefinitionOrRows(base, base', name)
<1>2. QuietInv /\ [Next]_vars => OneTableStep
  BY <1>1, WholeBefore
<1> HIDE DEF OneTableStep
<1>3. Spec => [][OneTableStep]_vars
  BY <1>2, Quiet, PTL DEF Spec
<1> QED
  BY <1>3 DEF ChangesOneTable, OneTableStep
=============================================================================
