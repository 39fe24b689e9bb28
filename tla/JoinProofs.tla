----------------------------- MODULE JoinProofs -----------------------------
(***************************************************************************)
(* SELECT, for any tables, texts and failing operations.  On one table:    *)
(* types, GROUP BY counts every row once, the rows found are those that    *)
(* match in the order of their slots, and EXPLAIN names the way they are   *)
(* found.  A join prints the lines of the pairs that match, each once and  *)
(* in order, whether the right table is read through an index or not.      *)
(***************************************************************************)
EXTENDS Join, TLAPS, WellFoundedInduction, FiniteSetTheorems
-----------------------------------------------------------------------------
(* SELECT on one table. *)
Key(n) == out[n][plan.group]
With(v, n) == {m \in 1..n : Key(m) = v}

(* The groups cover rows 1 to n. *)
Distinct == \A j, k \in 1..Len(groups) : groups[j].value = groups[k].value => j = k
Covered(n) == \A m \in 1..n : \E k \in 1..Len(groups) : groups[k].value = Key(m)
Counted(n) == \A k \in 1..Len(groups) : groups[k].count = Cardinality(With(groups[k].value, n))
Partition(n) == Distinct /\ Covered(n) /\ Counted(n)

GroupsInv ==
  /\ \E S : out \in Seq(S)
  /\ \E S : groups \in Seq(S)
  /\ r \in Nat \ {0}
  /\ phase \in {"typed", "cut", "fetch"} => groups = << >> /\ r = 1
  /\ phase \in {"rows", "done"} /\ plan.group # None => Partition(r - 1) /\ r <= Len(out) + 1
  /\ phase = "done" /\ plan.group # None => r = Len(out) + 1

(* The rows with a value, one row later. *)
LEMMA WithNext ==
  ASSUME NEW v, NEW n \in Nat
  PROVE  /\ IsFiniteSet(With(v, n))
         /\ Cardinality(With(v, n)) \in Nat
         /\ Key(n + 1) # v => With(v, n + 1) = With(v, n)
         /\ Key(n + 1) = v => Cardinality(With(v, n + 1)) = Cardinality(With(v, n)) + 1
<1>1. IsFiniteSet(1..n)
  BY FS_Interval
<1>2. With(v, n) \subseteq 1..n
  BY DEF With
<1>3. IsFiniteSet(With(v, n))
  BY <1>1, <1>2, FS_Subset
<1>4. Cardinality(With(v, n)) \in Nat
  BY <1>3, FS_CardinalityType
<1>5. Key(n + 1) # v => With(v, n + 1) = With(v, n)
  BY DEF With
<1>6. ASSUME Key(n + 1) = v PROVE Cardinality(With(v, n + 1)) = Cardinality(With(v, n)) + 1
  <2>1. With(v, n + 1) = With(v, n) \cup {n + 1}
    BY <1>6 DEF With
  <2>2. n + 1 \notin With(v, n)
    BY DEF With
  <2> QED
    BY <2>1, <2>2, <1>3, FS_AddElement
<1> QED
  BY <1>3, <1>4, <1>5, <1>6

(* A row whose value is new starts a group of one row. *)
LEMMA NewValue ==
  ASSUME NEW n \in Nat, \A m \in 1..n : Key(m) # Key(n + 1)
  PROVE  Cardinality(With(Key(n + 1), n + 1)) = 1
<1>1. With(Key(n + 1), n + 1) = {n + 1}
  BY DEF With
<1> QED
  BY <1>1, FS_Singleton

(* The smallest position of a value, when it has only one. *)
LEMMA OnlyPosition ==
  ASSUME NEW k \in Nat
  PROVE  Min({k}) = k
BY DEF Min

(* GroupRow adds row n + 1 to the groups of the rows before it: they are    *)
(* gs after the step.                                                       *)
LEMMA AddRow ==
  ASSUME NEW S, groups \in Seq(S), NEW n \in Nat, Partition(n), r = n + 1,
         phase = "rows", plan.group # None, GroupRow
  PROVE  /\ Distinct'
         /\ \A m \in 1..n + 1 : \E k \in 1..Len(groups') : groups'[k].value = Key(m)
         /\ \A k \in 1..Len(groups') : groups'[k].count = Cardinality(With(groups'[k].value, n + 1))
         /\ \E T : groups' \in Seq(T)
<1> DEFINE v == Key(n + 1)
           row == out[n + 1]
           same == {k \in 1..Len(groups) : groups[k].value = v}
<1>1. groups' = IF same = {} THEN Append(groups, NewGroup(row))
                ELSE [k \in 1..Len(groups) |->
                       IF k = Min(same) THEN Grown(groups[k], row) ELSE groups[k]]
  BY DEF GroupRow, Key
<1>2. NewGroup(row).value = v /\ NewGroup(row).count = 1
  BY DEF NewGroup, Key, Value
<1>3. \A k \in 1..Len(groups) :
        Grown(groups[k], row).value = groups[k].value /\ Grown(groups[k], row).count = groups[k].count + 1
  BY DEF Grown
<1>4. Len(groups) \in Nat
  OBVIOUS
<1>5. CASE same = {}
  <2>1. groups' = Append(groups, NewGroup(row))
    BY <1>1, <1>5
  <2>2. \E T : groups' \in Seq(T)
    <3>1. groups \in Seq(S \cup {NewGroup(row)})
      OBVIOUS
    <3> QED
      BY <3>1, <2>1
  <2>3. /\ Len(groups') = Len(groups) + 1
        /\ \A k \in 1..Len(groups) : groups'[k] = groups[k]
        /\ groups'[Len(groups) + 1] = NewGroup(row)
    <3>1. groups \in Seq(S \cup {NewGroup(row)})
      OBVIOUS
    <3> QED
      BY <3>1, <2>1
  <2>4. \A k \in 1..Len(groups) : groups[k].value # v
    BY <1>5
  <2>5. Distinct'
    BY <2>3, <2>4, <1>2, <1>4 DEF Partition, Distinct
  <2>6. \A m \in 1..n + 1 : \E k \in 1..Len(groups') : groups'[k].value = Key(m)
    <3> SUFFICES ASSUME NEW m \in 1..n + 1
                 PROVE  \E k \in 1..Len(groups') : groups'[k].value = Key(m)
      OBVIOUS
    <3>1. CASE m = n + 1
      BY <3>1, <2>3, <1>2, <1>4
    <3>2. CASE m # n + 1
      <4>1. PICK k \in 1..Len(groups) : groups[k].value = Key(m)
        BY <3>2 DEF Partition, Covered
      <4> QED
        BY <4>1, <2>3, <1>4
    <3> QED
      BY <3>1, <3>2
  <2>7. \A k \in 1..Len(groups') : groups'[k].count = Cardinality(With(groups'[k].value, n + 1))
    <3> SUFFICES ASSUME NEW k \in 1..Len(groups')
                 PROVE  groups'[k].count = Cardinality(With(groups'[k].value, n + 1))
      OBVIOUS
    <3>1. CASE k = Len(groups) + 1
      <4>1. \A m \in 1..n : Key(m) # Key(n + 1)
        BY <2>4 DEF Partition, Covered
      <4>2. Cardinality(With(Key(n + 1), n + 1)) = 1
        BY <4>1, NewValue
      <4> QED
        BY <3>1, <4>2, <2>3, <1>2
    <3>2. CASE k # Len(groups) + 1
      <4>1. k \in 1..Len(groups) /\ groups'[k] = groups[k]
        BY <3>2, <2>3, <1>4
      <4>2. Key(n + 1) # groups[k].value
        BY <4>1, <2>4
      <4>3. With(groups[k].value, n + 1) = With(groups[k].value, n)
        BY <4>2, WithNext
      <4> QED
        BY <4>1, <4>3 DEF Partition, Counted
    <3> QED
      BY <3>1, <3>2
  <2> QED
    BY <2>2, <2>5, <2>6, <2>7
<1>6. CASE same # {}
  <2>1. PICK i \in same : TRUE
    BY <1>6
  <2>2. same = {i}
    BY <2>1 DEF Partition, Distinct
  <2>3. Min(same) = i
    BY <2>1, <2>2, <1>4, OnlyPosition
  <2>4. groups' = [k \in 1..Len(groups) |-> IF k = i THEN Grown(groups[k], row) ELSE groups[k]]
    BY <1>1, <1>6, <2>3
  <2>5. \E T : groups' \in Seq(T)
    <3>1. groups' \in Seq(S \cup {Grown(groups[i], row)})
      BY <2>4, <1>4
    <3> QED
      BY <3>1
  <2>6. Len(groups') = Len(groups)
    BY <2>4, <1>4
  <2>7. /\ \A k \in 1..Len(groups) : groups'[k].value = groups[k].value
        /\ \A k \in 1..Len(groups) : k # i => groups'[k].count = groups[k].count
        /\ groups'[i].count = groups[i].count + 1
    BY <2>1, <2>4, <1>3
  <2>8. Distinct'
    BY <2>6, <2>7 DEF Partition, Distinct
  <2>9. \A m \in 1..n + 1 : \E k \in 1..Len(groups') : groups'[k].value = Key(m)
    <3> SUFFICES ASSUME NEW m \in 1..n + 1
                 PROVE  \E k \in 1..Len(groups) : groups[k].value = Key(m)
      BY <2>6, <2>7
    <3>1. CASE m = n + 1
      BY <3>1, <2>1
    <3>2. CASE m # n + 1
      BY <3>2 DEF Partition, Covered
    <3> QED
      BY <3>1, <3>2
  <2>10. \A k \in 1..Len(groups') : groups'[k].count = Cardinality(With(groups'[k].value, n + 1))
    <3> SUFFICES ASSUME NEW k \in 1..Len(groups)
                 PROVE  groups'[k].count = Cardinality(With(groups[k].value, n + 1))
      BY <2>6, <2>7
    <3>1. groups[k].count = Cardinality(With(groups[k].value, n))
      BY DEF Partition, Counted
    <3>2. CASE k = i
      BY <3>1, <3>2, <2>1, <2>7, WithNext
    <3>3. CASE k # i
      <4>1. Key(n + 1) # groups[k].value
        BY <3>3, <2>2
      <4> QED
        BY <4>1, <3>1, <3>3, <2>7, WithNext
    <3> QED
      BY <3>2, <3>3
  <2> QED
    BY <2>5, <2>8, <2>9, <2>10
<1> QED
  BY <1>5, <1>6
-----------------------------------------------------------------------------
LEMMA GroupsInvInit == Init => GroupsInv
BY DEF Init, GroupsInv, None

(* A step that neither groups nor finishes leaves what the invariant says. *)
LEMMA GroupsInvSame ==
  ASSUME GroupsInv, UNCHANGED <<out, groups, r, plan, phase>>
  PROVE  GroupsInv'
BY DEF GroupsInv, Partition, Distinct, Covered, Counted, Key, With

(* Before grouping starts there are no groups and nothing is said of them. *)
LEMMA GroupsInvBefore ==
  ASSUME GroupsInv, groups = << >> /\ r = 1, UNCHANGED <<groups, r>>,
         \E S : out' \in Seq(S), phase' \in {"typed", "cut", "fetch", "refused"}
  PROVE  GroupsInv'
BY DEF GroupsInv

LEMMA GroupsInvNext == GroupsInv /\ [Next]_vars => GroupsInv'
<1> SUFFICES ASSUME GroupsInv, [Next]_vars
             PROVE  GroupsInv'
  OBVIOUS
<1>1. CASE CutClauses
  BY <1>1, GroupsInvBefore DEF CutClauses, GroupsInv, input
<1>2. CASE Start
  BY <1>2, GroupsInvBefore DEF Start, GroupsInv, input, Refuse
<1>3. CASE Fetch
  <2>1. groups = << >> /\ r = 1 /\ UNCHANGED <<groups, r>> /\ phase' = "fetch"
    BY <1>3 DEF Fetch, GroupsInv
  <2>2. PICK S : out \in Seq(S)
    BY DEF GroupsInv
  <2>3. \/ UNCHANGED out
        \/ out' = Append(out, rows[Head(queue)])
    BY <1>3 DEF Fetch
  <2>4. \E T : out' \in Seq(T)
    <3>1. out \in Seq(S \cup {rows[Head(queue)]})
      BY <2>2
    <3>2. out' \in Seq(S \cup {rows[Head(queue)]})
      BY <3>1, <2>3
    <3> QED
      BY <3>2
  <2> QED
    BY <2>1, <2>4, GroupsInvBefore
<1>4. CASE Fetched
  <2>1. /\ groups = << >> /\ r = 1 /\ UNCHANGED <<groups, r, out, plan>>
        /\ phase' \in {"rows", "refused"}
    BY <1>4 DEF Fetched, GroupsInv
  <2>2. PICK S : out \in Seq(S)
    BY DEF GroupsInv
  <2>3. Partition(0)'
    BY <2>1 DEF Partition, Distinct, Covered, Counted
  <2>4. r' - 1 = 0 /\ r' <= Len(out') + 1
    BY <2>1, <2>2
  <2> QED
    BY <2>1, <2>3, <2>4 DEF GroupsInv
<1>5. CASE GroupRow
  <2>1. /\ phase = "rows" /\ plan.group # None /\ r <= Len(out) /\ r' = r + 1
        /\ UNCHANGED <<phase, plan, out>>
    BY <1>5 DEF GroupRow
  <2>2. PICK n \in Nat : r = n + 1
    BY DEF GroupsInv
  <2>3. Partition(n)
    BY <2>1, <2>2 DEF GroupsInv
  <2>4. PICK S : groups \in Seq(S)
    BY DEF GroupsInv
  <2>5. /\ Distinct'
        /\ \A m \in 1..n + 1 : \E k \in 1..Len(groups') : groups'[k].value = Key(m)
        /\ \A k \in 1..Len(groups') : groups'[k].count = Cardinality(With(groups'[k].value, n + 1))
        /\ \E T : groups' \in Seq(T)
    BY <1>5, <2>1, <2>2, <2>3, <2>4, AddRow
  <2>6. Partition(n + 1)'
    BY <2>1, <2>5 DEF Partition, Covered, Counted, Key, With
  <2>7. r' - 1 = n + 1 /\ r' \in Nat \ {0}
    BY <2>1, <2>2
  <2>8. PICK T : out \in Seq(T)
    BY DEF GroupsInv
  <2>9. r' <= Len(out') + 1
    BY <2>1, <2>2, <2>8
  <2> QED
    BY <2>1, <2>5, <2>6, <2>7, <2>8, <2>9 DEF GroupsInv
<1>6. CASE PrintRows
  <2>1. /\ phase = "rows" /\ phase' = "done" /\ (plan.group # None => r > Len(out))
        /\ UNCHANGED <<plan, out, groups, r>>
    BY <1>6 DEF PrintRows
  <2>2. PICK S : out \in Seq(S)
    BY DEF GroupsInv
  <2>3. plan.group # None => r = Len(out) + 1
    BY <2>1, <2>2 DEF GroupsInv
  <2>4. plan.group # None => Partition(r - 1)'
    <3>1. plan.group # None => Partition(r - 1)
      BY <2>1 DEF GroupsInv
    <3>2. plan' = plan /\ out' = out /\ groups' = groups /\ r' = r
      BY <2>1
    <3>3. Partition(r - 1)' <=> Partition(r - 1)
      BY <3>2 DEF Partition, Distinct, Covered, Counted, Key, With
    <3> QED
      BY <3>1, <3>3
  <2> QED
    BY <2>1, <2>3, <2>4 DEF GroupsInv
<1>7. CASE UNCHANGED vars
  BY <1>7, GroupsInvSame DEF vars
<1> QED
  BY <1>1, <1>2, <1>3, <1>4, <1>5, <1>6, <1>7 DEF Next

LEMMA GroupsInvMeans == GroupsInv => GroupsPartition
<1> SUFFICES ASSUME GroupsInv, phase \in {"rows", "done"}, plan.group # None
             PROVE  /\ Partition(r - 1)
                    /\ phase = "done" => r = Len(out) + 1
  BY DEF GroupsPartition, Partition, Distinct, Covered, Counted, Key, With
<1> QED
  BY DEF GroupsInv

(* GROUP BY loses no row, counts none twice and makes no two groups of one  *)
(* value, however the rows were found (add_group_row, cmd_select).          *)
THEOREM GroupsCorrect == Spec => []GroupsPartition
<1>1. Spec => []GroupsInv
  BY GroupsInvInit, GroupsInvNext, PTL DEF Spec
<1> QED
  BY <1>1, GroupsInvMeans, PTL
-----------------------------------------------------------------------------
(* The rows found.  Taken: those of out are rows that match, in the order   *)
(* of their slots and before what is still to be looked at; nothing that    *)
(* matches is lost unless an operation fails, and a scan fails before it    *)
(* brings a row.                                                            *)
QueueInOrder ==
  \A j, k \in 1..Len(queue) :
    j < k /\ queue[j] \in Hits /\ queue[k] \in Hits => queue[j] < queue[k]
TakenFrom(slot) ==
  /\ \A k \in 1..Len(out) : out[k] = rows[slot[k]]
  /\ \A j, k \in 1..Len(out) : j < k => slot[j] < slot[k]
  /\ \A k \in 1..Len(out), j \in 1..Len(queue) : queue[j] \in Hits => slot[k] < queue[j]
  /\ faults = 0 => \A n \in Hits : \/ \E k \in 1..Len(out) : slot[k] = n
                                   \/ \E j \in 1..Len(queue) : queue[j] = n
Taken ==
  /\ QueueInOrder
  /\ \E slot \in [1..Len(out) -> Hits] : TakenFrom(slot)
  /\ ~byIndex /\ faults # 0 => out = << >> /\ queue = << >>

Typed ==
  /\ \E S : rows \in Seq(S)
  /\ indexed \subseteq Range(Cols) /\ byIndex \in BOOLEAN /\ faults \in 0..MaxFaults
  /\ phase \in {"typed", "cut", "fetch", "rows", "done", "refused", "cut join", "join", "joined"}
  /\ queue \in Seq(1..Len(rows)) /\ out \in Seq(Range(rows))
Counting ==
  /\ \E S : groups \in Seq(S)
  /\ r \in 1..Len(out) + 1 /\ Len(groups) <= r - 1
  /\ phase \in {"typed", "cut", "fetch"} => groups = << >> /\ r = 1
Planned ==
  plan # None => /\ IsSelect(cut) /\ plan = PlanOf(cut, SelectList(cut.list))
                 /\ byIndex = IsSimple(plan)
FoundInv ==
  /\ Typed /\ Counting /\ Planned
  /\ phase \in {"typed", "cut"} => plan = None /\ queue = << >> /\ out = << >> /\ faults = 0
  /\ phase \in {"rows", "done"} => queue = << >>
  /\ phase \in {"fetch", "rows", "done"} => Taken

LEMMA FoundInvTypes == FoundInv => TypeOK
<1> SUFFICES ASSUME FoundInv
             PROVE  TypeOK
  OBVIOUS
<1>1. Range(queue) \subseteq 1..Len(rows) /\ Range(out) \subseteq Range(rows)
  <2>1. queue \in Seq(1..Len(rows)) /\ out \in Seq(Range(rows))
    BY DEF FoundInv, Typed
  <2>2. Range(queue) \subseteq 1..Len(rows)
    BY <2>1 DEF Range
  <2>3. \A S : out \in Seq(S) => Range(out) \subseteq S
    BY DEF Range
  <2> QED
    BY <2>1, <2>2, <2>3
<1>2. Len(groups) <= Len(out) /\ r \in 1..Len(out) + 1
  <2>1. PICK S : groups \in Seq(S)
    BY DEF FoundInv, Counting
  <2>2. out \in Seq(Range(rows))
    BY DEF FoundInv, Typed
  <2>3. Len(out) \in Nat /\ Len(groups) \in Nat
    BY <2>1, <2>2
  <2> QED
    BY <2>3 DEF FoundInv, Counting
<1> QED
  BY <1>1, <1>2 DEF FoundInv, Typed, TypeOK

LEMMA FoundInvFinds == FoundInv => FoundInOrder
<1> SUFFICES ASSUME FoundInv, phase \in {"rows", "done"}
             PROVE  \E slot \in [1..Len(out) -> Hits] :
                      /\ \A k \in 1..Len(out) : out[k] = rows[slot[k]]
                      /\ \A j, k \in 1..Len(out) : j < k => slot[j] < slot[k]
                      /\ faults = 0 \/ (~byIndex /\ out # << >>) => Range(slot) = Hits
  BY DEF FoundInOrder
<1>1. PICK slot \in [1..Len(out) -> Hits] : TakenFrom(slot)
  BY DEF FoundInv, Taken
<1>2. queue = << >> /\ Len(queue) = 0
  BY DEF FoundInv
<1>3. ASSUME faults = 0 \/ (~byIndex /\ out # << >>)
      PROVE  Range(slot) = Hits
  <2>1. faults = 0
    BY <1>3 DEF FoundInv, Taken
  <2>2. \A n \in Hits : \E k \in 1..Len(out) : slot[k] = n
    BY <1>1, <1>2, <2>1 DEF TakenFrom
  <2> QED
    BY <2>2 DEF Range
<1> QED
  BY <1>1, <1>3 DEF TakenFrom

(* A record is not the empty text that stands for nothing. *)
LEMMA PlanIsSome ==
  ASSUME NEW c, NEW list
  PROVE  PlanOf(c, list) # None
<1>1. "star" \in DOMAIN PlanOf(c, list)
  BY DEF PlanOf
<1>2. DOMAIN None = {}
  BY DEF None
<1> QED
  BY <1>1, <1>2

(* A name in the list of columns, and one of COUNT's spellings, is a name.   *)
LEMMA ColumnIsSome ==
  ASSUME NEW name, Column(name)
  PROVE  name # None
BY SelectAssumption DEF Column, Range, None

LEMMA CountIsSome ==
  ASSUME NEW name, name \in Counts
  PROVE  name # None
<1>1. Len(<<"COUNT">>) = 1 /\ Len(<<"COUNT", "(", ")">>) = 3 /\ Len(<<"COUNT", "(", "*", ")">>) = 4
  OBVIOUS
<1>2. Len(None) = 0
  BY DEF None
<1> QED
  BY <1>1, <1>2 DEF Counts

LEMMA FoundInvExplains == FoundInv => ExplainAgrees
<1> SUFFICES ASSUME FoundInv, plan # None
             PROVE  ExplainPath(cut) = IF byIndex THEN "index" ELSE "scan"
  BY DEF ExplainAgrees
<1>1. /\ IsSelect(cut) /\ plan = PlanOf(cut, SelectList(cut.list))
      /\ byIndex = IsSimple(plan)
  BY DEF FoundInv, Planned
<1>2. /\ plan.group = Group(cut) /\ plan.where = Where(cut)
      /\ plan.order = IF Has(cut, "ORDER BY") THEN OrderName(Text(cut, "ORDER BY")) ELSE None
  BY <1>1 DEF PlanOf, Where
<1>3. Has(cut, "GROUP BY") <=> Group(cut) # None
  <2>1. Has(cut, "GROUP BY") => Column(Group(cut))
    BY <1>1 DEF IsSelect
  <2>2. ~Has(cut, "GROUP BY") => Group(cut) = None
    BY DEF Group
  <2> QED
    BY <2>1, <2>2, ColumnIsSome
<1>4. Has(cut, "ORDER BY") <=> plan.order # None
  <2>1. CASE Has(cut, "ORDER BY")
    <3>1. OrderOk(Text(cut, "ORDER BY"), Group(cut))
      BY <1>1, <2>1 DEF IsSelect
    <3>2. OrderName(Text(cut, "ORDER BY")) \in Counts \/ Column(OrderName(Text(cut, "ORDER BY")))
      BY <3>1 DEF OrderOk
    <3>3. OrderName(Text(cut, "ORDER BY")) # None
      BY <3>2, ColumnIsSome, CountIsSome
    <3> QED
      BY <1>2, <2>1, <3>3
  <2> QED
    BY <1>2, <2>1
<1>5. cut.name = Table /\ (Has(cut, "WHERE") => Where(cut) # None)
  BY <1>1 DEF IsSelect, Where
<1>6. ExplainPath(cut) = IF ~Has(cut, "GROUP BY") /\ ~Has(cut, "ORDER BY") /\ SimpleEq(Where(cut))
                         THEN "index" ELSE "scan"
  BY <1>5 DEF ExplainPath
<1>7. IsSimple(plan) <=> ~Has(cut, "GROUP BY") /\ ~Has(cut, "ORDER BY") /\ SimpleEq(Where(cut))
  BY <1>2, <1>3, <1>4 DEF IsSimple
<1> QED
  BY <1>1, <1>6, <1>7
LEMMA FoundInvStarts ==
  ASSUME \E S : rows \in Seq(S), indexed \subseteq Range(Cols), phase = "typed", plan = None,
         byIndex = FALSE, queue = << >>, out = << >>, groups = << >>, r = 1, faults = 0
  PROVE  FoundInv /\ GroupsInv
<1>1. MaxFaults \in Nat
  BY SelectAssumption
<1>2. \A S : << >> \in Seq(S) /\ Len(<< >>) = 0
  OBVIOUS
<1>3. Typed
  <2>1. queue \in Seq(1..Len(rows)) /\ out \in Seq(Range(rows))
    BY <1>2
  <2>2. faults \in 0..MaxFaults
    BY <1>1
  <2> QED
    BY <2>1, <2>2, Zenon DEF Typed
<1>4. Counting
  BY <1>2 DEF Counting
<1>5. FoundInv
  BY <1>3, <1>4 DEF FoundInv, Planned
<1>6. GroupsInv
  BY <1>2 DEF GroupsInv
<1> QED
  BY <1>5, <1>6

LEMMA FoundInvInit == Init => FoundInv
<1> SUFFICES ASSUME Init
             PROVE  FoundInv
  OBVIOUS
<1>1. rows \in Seq([Range(Cols) -> Seq(STRING)])
  BY SelectAssumption DEF Init, AreContents
<1> QED
  BY <1>1, FoundInvStarts, Zenon DEF Init

(* A step that leaves alone what the invariant looks at. *)
LEMMA FoundInvSame ==
  ASSUME FoundInv, UNCHANGED vars
  PROVE  FoundInv'
<1>1. Hits' = Hits
  BY DEF Hits, vars, input
<1>2. Taken => Taken'
  BY <1>1 DEF Taken, QueueInOrder, TakenFrom, vars, input
<1>3. Planned'
  BY DEF FoundInv, Planned, PlanOf, IsSimple, SimpleEq, vars, input
<1> QED
  BY <1>2, <1>3 DEF FoundInv, Typed, Counting, vars, input

(* A function on 1..n is a sequence of length n. *)
LEMMA IsSequence ==
  ASSUME NEW n \in Nat, NEW S, NEW q \in [1..n -> S]
  PROVE  q \in Seq(S) /\ Len(q) = n
OBVIOUS

(* Where a slot with the value of an equality stands in an order of the index. *)
LEMMA IndexOrderIs ==
  ASSUME NEW col, NEW q \in IndexOrders(col), Len(rows) \in Nat
  PROVE  /\ q \in Seq(1..Len(rows)) /\ Len(q) = Len(rows)
         /\ \A n \in 1..Len(rows) : \E j \in 1..Len(rows) : q[j] = n
         /\ \A j, k \in 1..Len(rows) : j < k /\ rows[q[j]][col] = rows[q[k]][col] => q[j] < q[k]
<1>1. q \in Bijection(1..Len(rows), 1..Len(rows))
  BY DEF IndexOrders
<1>2. /\ q \in [1..Len(rows) -> 1..Len(rows)]
      /\ \A n \in 1..Len(rows) : \E j \in 1..Len(rows) : q[j] = n
  BY <1>1, Zenon DEF Bijection, Injection, Surjection, IsInjective
<1>3. q \in Seq(1..Len(rows)) /\ Len(q) = Len(rows)
  BY <1>2, IsSequence, Zenon
<1>4. \A j, k \in 1..Len(rows) : j < k /\ rows[q[j]][col] = rows[q[k]][col] => q[j] < q[k]
  BY DEF IndexOrders, IndexBefore
<1> QED
  BY <1>2, <1>3, <1>4

(* An equality with a value holds of the slots with that value. *)
LEMMA EqualityHits ==
  ASSUME NEW w, w # None, w[2] = <<"=">>, NEW row, Matches(w, row)
  PROVE  row[w[1]] = w[3]
<1>1. <<"=">> # <<"<">>
  OBVIOUS
<1> QED
  BY <1>1 DEF Matches

(* The scan and the index both bring the slots that match in order. *)
LEMMA StartOrders ==
  ASSUME Len(rows) \in Nat, NEW w, NEW simple \in BOOLEAN, simple => SimpleEq(w), NEW q,
         q \in IF simple THEN IndexOrders(w[1]) ELSE {ScanOrder}
  PROVE  /\ q \in Seq(1..Len(rows)) /\ Len(q) = Len(rows)
         /\ \A n \in 1..Len(rows) : \E j \in 1..Len(rows) : q[j] = n
         /\ \A j, k \in 1..Len(rows) :
              j < k /\ Matches(w, rows[q[j]]) /\ Matches(w, rows[q[k]]) => q[j] < q[k]
<1>1. CASE simple
  <2>1. q \in IndexOrders(w[1])
    BY <1>1
  <2>2. /\ q \in Seq(1..Len(rows)) /\ Len(q) = Len(rows)
        /\ \A n \in 1..Len(rows) : \E j \in 1..Len(rows) : q[j] = n
        /\ \A j, k \in 1..Len(rows) : j < k /\ rows[q[j]][w[1]] = rows[q[k]][w[1]] => q[j] < q[k]
    BY <2>1, IndexOrderIs
  <2>3. w # None /\ w[2] = <<"=">>
    BY <1>1 DEF SimpleEq
  <2>4. \A row : Matches(w, row) => row[w[1]] = w[3]
    BY <2>3, EqualityHits, Zenon
  <2> QED
    BY <2>2, <2>4, Zenon
<1>2. CASE ~simple
  <2>1. q = [n \in 1..Len(rows) |-> n]
    BY <1>2 DEF ScanOrder
  <2>2. q \in [1..Len(rows) -> 1..Len(rows)] /\ \A n \in 1..Len(rows) : q[n] = n
    BY <2>1
  <2>3. q \in Seq(1..Len(rows)) /\ Len(q) = Len(rows)
    BY <2>2, IsSequence
  <2> QED
    BY <2>2, <2>3
<1> QED
  BY <1>1, <1>2

LEMMA StartFinds ==
  ASSUME FoundInv, Start
  PROVE  FoundInv'
<1>1. /\ phase = "cut" /\ plan = None /\ queue = << >> /\ out = << >> /\ faults = 0
      /\ groups = << >> /\ r = 1
  BY DEF FoundInv, Start, Counting
<1>2. UNCHANGED <<rows, indexed, cut, out, groups, r>>
  BY DEF Start, input
<1>3. PICK S : rows \in Seq(S)
  BY DEF FoundInv, Typed
<1>4. Len(rows) \in Nat
  BY <1>3
<1>5. MaxFaults \in Nat
  BY SelectAssumption
<1>6. \A T : << >> \in Seq(T) /\ Len(<< >>) = 0
  OBVIOUS
<1>7. Counting'
  BY <1>1, <1>2, <1>6 DEF Counting
<1>8. CASE Refuse /\ (Works \/ Fails)
  <2>1. faults' \in 0..MaxFaults
    BY <1>1, <1>5, <1>8 DEF Works, Fails
  <2>2. UNCHANGED <<byIndex, queue, plan>> /\ phase' = "refused"
    BY <1>8 DEF Refuse
  <2>3. Typed'
    BY <1>2, <2>1, <2>2, Zenon DEF FoundInv, Typed
  <2>4. Planned'
    BY <1>1, <2>2 DEF Planned
  <2> QED
    BY <1>7, <2>2, <2>3, <2>4 DEF FoundInv
<1>9. CASE /\ IsSelect(cut)
           /\ plan' = PlanOf(cut, SelectList(cut.list)) /\ byIndex' = IsSimple(plan')
           /\ phase' = "fetch"
           /\ \/ Works /\ queue' \in IF byIndex' THEN IndexOrders(plan'.where[1]) ELSE {ScanOrder}
              \/ Fails /\ queue' = << >>
  <2> DEFINE w == plan'.where
             simple == byIndex'
  <2>1. faults' \in 0..MaxFaults
    BY <1>1, <1>5, <1>9 DEF Works, Fails
  <2>2. simple \in BOOLEAN /\ (simple => SimpleEq(w))
    BY <1>9 DEF IsSimple, SimpleEq
  <2>3. Planned'
    <3>1. IsSimple(plan') = IsSimple(plan)'
      BY <1>2 DEF IsSimple, SimpleEq
    <3>2. IsSelect(cut)' /\ plan' = PlanOf(cut, SelectList(cut.list))'
      BY <1>2, <1>9
    <3> QED
      BY <1>9, <3>1, <3>2 DEF Planned
  <2>4. Hits' = {n \in 1..Len(rows) : Matches(w, rows[n])}
    BY <1>2 DEF Hits
  <2>5. CASE Fails /\ queue' = << >>
    <3>1. faults' # 0
      BY <1>1, <2>5 DEF Fails
    <3>2. Typed'
      BY <1>2, <1>6, <1>9, <2>1, <2>2, <2>5, Zenon DEF FoundInv, Typed
    <3>3. Taken'
      <4>1. QueueInOrder'
        BY <1>6, <2>5 DEF QueueInOrder
      <4>2. \E slot \in [1..Len(out') -> Hits'] : TakenFrom(slot)'
        <5>1. [k \in 1..Len(out') |-> 0] \in [1..Len(out') -> Hits'] /\ Len(out') = 0
          BY <1>1, <1>2, <1>6
        <5>2. \A slot : TakenFrom(slot)'
          BY <5>1, <3>1 DEF TakenFrom
        <5> QED
          BY <5>1, <5>2
      <4> QED
        BY <4>1, <4>2, <1>1, <1>2, <2>5 DEF Taken
    <3> QED
      BY <1>7, <1>9, <2>3, <3>2, <3>3 DEF FoundInv
  <2>6. CASE Works /\ queue' \in IF simple THEN IndexOrders(w[1]) ELSE {ScanOrder}
    <3> HIDE DEF w, simple
    <3>1. /\ queue' \in Seq(1..Len(rows)) /\ Len(queue') = Len(rows)
          /\ \A n \in 1..Len(rows) : \E j \in 1..Len(rows) : queue'[j] = n
          /\ \A j, k \in 1..Len(rows) :
               j < k /\ Matches(w, rows[queue'[j]]) /\ Matches(w, rows[queue'[k]])
               => queue'[j] < queue'[k]
      BY <1>4, <2>2, <2>6, StartOrders
    <3>2. faults' = 0
      BY <1>1, <2>6 DEF Works
    <3>3. Typed'
      BY <1>2, <1>9, <2>1, <2>2, <3>1, Zenon DEF FoundInv, Typed, simple
    <3>4. Taken'
      <4>1. QueueInOrder'
        BY <2>4, <3>1 DEF QueueInOrder
      <4>2. \E slot \in [1..Len(out') -> Hits'] : TakenFrom(slot)'
        <5>1. [k \in 1..Len(out') |-> 0] \in [1..Len(out') -> Hits'] /\ Len(out') = 0
          BY <1>1, <1>2, <1>6
        <5>2. \A n \in Hits' : \E j \in 1..Len(queue') : queue'[j] = n
          BY <2>4, <3>1
        <5>3. \A slot : TakenFrom(slot)'
          BY <5>1, <5>2 DEF TakenFrom
        <5> QED
          BY <5>1, <5>3
      <4> QED
        BY <4>1, <4>2, <3>2 DEF Taken
    <3> QED
      BY <1>7, <1>9, <2>3, <3>3, <3>4 DEF FoundInv
  <2> QED
    BY <1>9, <2>5, <2>6
<1> QED
  BY <1>8, <1>9 DEF Start

(* Adding the row of the next slot to those found. *)
LEMMA TakeOne ==
  ASSUME Len(rows) \in Nat, queue \in Seq(1..Len(rows)), queue # << >>, out \in Seq(Range(rows)),
         UNCHANGED <<rows, plan>>, NEW n, n = Head(queue), n \in Hits, queue' = Tail(queue),
         out' = Append(out, rows[n]), UNCHANGED faults, QueueInOrder,
         NEW slot \in [1..Len(out) -> Hits], TakenFrom(slot)
  PROVE  \E next \in [1..Len(out') -> Hits'] : TakenFrom(next)'
<1>0. PICK c : c = Len(out)
  OBVIOUS
<1>1. Hits' = Hits
  BY DEF Hits
<1>2. /\ Len(queue) \in Nat /\ Len(queue) > 0 /\ n = queue[1]
      /\ Len(queue') = Len(queue) - 1 /\ \A j \in 1..Len(queue) - 1 : queue'[j] = queue[j + 1]
  OBVIOUS
<1>3. n \in 1..Len(rows) /\ Hits \subseteq 1..Len(rows)
  BY DEF Hits
<1>4. c \in Nat
  BY <1>0
<1>5. /\ Len(out') = c + 1 /\ out'[c + 1] = rows[n]
      /\ \A k \in 1..c : out'[k] = out[k]
  <2>1. PICK T : out \in Seq(T) /\ rows[n] \in T
    <3>1. out \in Seq(Range(rows) \cup {rows[n]})
      OBVIOUS
    <3> QED
      BY <3>1
  <2> QED
    BY <2>1, <1>0
<1>6. PICK next \in [1..c + 1 -> Hits] : next[c + 1] = n /\ \A k \in 1..c : next[k] = slot[k]
  <2> DEFINE f == [k \in 1..c + 1 |-> IF k = c + 1 THEN n ELSE slot[k]]
  <2>1. f \in [1..c + 1 -> Hits]
    BY <1>0, <1>4
  <2>2. f[c + 1] = n /\ \A k \in 1..c : f[k] = slot[k]
    BY <1>4
  <2> QED
    BY <2>1, <2>2
<1>7. \A k \in 1..c + 1 : k = c + 1 \/ k \in 1..c
  BY <1>4
<1>8. \A k \in 1..c : slot[k] < n
  BY <1>0, <1>2 DEF TakenFrom
<1>9. \A k \in 1..Len(out') : out'[k] = rows'[next[k]]
  BY <1>0, <1>4, <1>5, <1>6, <1>7 DEF TakenFrom
<1>10. ASSUME NEW j \in 1..Len(out'), NEW k \in 1..Len(out'), j < k
       PROVE  next[j] < next[k]
  <2>1. j \in 1..c
    BY <1>4, <1>5, <1>10
  <2>2. CASE k = c + 1
    BY <1>6, <1>8, <2>1, <2>2
  <2>3. CASE k # c + 1
    <3>1. k \in 1..c
      BY <1>5, <1>7, <2>3
    <3> QED
      BY <1>0, <1>6, <1>10, <2>1, <3>1 DEF TakenFrom
  <2> QED
    BY <2>2, <2>3
<1>11. ASSUME NEW k \in 1..Len(out'), NEW j \in 1..Len(queue'), queue'[j] \in Hits
       PROVE  next[k] < queue'[j]
  <2>1. j + 1 \in 1..Len(queue) /\ 1 \in 1..Len(queue) /\ queue'[j] = queue[j + 1] /\ 1 < j + 1
    BY <1>2
  <2>2. n < queue'[j]
    BY <1>2, <1>11, <2>1 DEF QueueInOrder
  <2>3. CASE k = c + 1
    BY <1>6, <2>2, <2>3
  <2>4. CASE k # c + 1
    <3>1. k \in 1..c
      BY <1>5, <1>7, <2>4
    <3>2. slot[k] < queue[j + 1]
      BY <1>0, <1>11, <2>1, <3>1 DEF TakenFrom
    <3> QED
      BY <1>6, <2>1, <3>1, <3>2
  <2> QED
    BY <2>3, <2>4
<1>12. ASSUME faults' = 0, NEW m \in Hits
       PROVE  \/ \E k \in 1..Len(out') : next[k] = m
              \/ \E j \in 1..Len(queue') : queue'[j] = m
  <2>1. \/ \E k \in 1..c : slot[k] = m
        \/ \E j \in 1..Len(queue) : queue[j] = m
    BY <1>0, <1>12 DEF TakenFrom
  <2>2. ASSUME NEW k \in 1..c, slot[k] = m
        PROVE  \E i \in 1..Len(out') : next[i] = m
    <3>1. k \in 1..Len(out') /\ next[k] = m
      BY <1>4, <1>5, <1>6, <2>2
    <3> QED
      BY <3>1
  <2>3. ASSUME NEW j \in 1..Len(queue), queue[j] = m
        PROVE  \/ \E k \in 1..Len(out') : next[k] = m
               \/ \E i \in 1..Len(queue') : queue'[i] = m
    <3>1. CASE j = 1
      <4>1. c + 1 \in 1..Len(out') /\ next[c + 1] = m
        BY <1>2, <1>4, <1>5, <1>6, <2>3, <3>1
      <4> QED
        BY <4>1
    <3>2. CASE j # 1
      <4>1. j - 1 \in 1..Len(queue') /\ queue'[j - 1] = queue[(j - 1) + 1] /\ (j - 1) + 1 = j
        BY <1>2, <3>2
      <4> QED
        BY <2>3, <4>1
    <3> QED
      BY <3>1, <3>2
  <2> QED
    BY <2>1, <2>2, <2>3
<1>13. TakenFrom(next)'
  BY <1>1, <1>9, <1>10, <1>11, <1>12 DEF TakenFrom
<1> QED
  BY <1>1, <1>5, <1>6, <1>13

(* Passing over a slot that does not match, or whose row cannot be read. *)
LEMMA PassOver ==
  ASSUME Len(rows) \in Nat, queue \in Seq(1..Len(rows)), queue # << >>,
         UNCHANGED <<rows, plan, out>>, queue' = Tail(queue),
         faults' = 0 => faults = 0 /\ Head(queue) \notin Hits,
         NEW slot \in [1..Len(out) -> Hits], TakenFrom(slot)
  PROVE  slot \in [1..Len(out') -> Hits'] /\ TakenFrom(slot)'
<1>1. Hits' = Hits
  BY DEF Hits
<1>2. /\ Len(queue) \in Nat /\ Len(queue) > 0 /\ Head(queue) = queue[1]
      /\ Len(queue') = Len(queue) - 1 /\ \A j \in 1..Len(queue) - 1 : queue'[j] = queue[j + 1]
  OBVIOUS
<1>3. \A j \in 1..Len(queue') : j + 1 \in 1..Len(queue) /\ queue'[j] = queue[j + 1]
  BY <1>2
<1>4. \A k \in 1..Len(out), j \in 1..Len(queue') : queue'[j] \in Hits => slot[k] < queue'[j]
  BY <1>3 DEF TakenFrom
<1>5. ASSUME faults' = 0, NEW m \in Hits
      PROVE  \/ \E k \in 1..Len(out) : slot[k] = m
             \/ \E j \in 1..Len(queue') : queue'[j] = m
  <2>1. \/ \E k \in 1..Len(out) : slot[k] = m
        \/ \E j \in 1..Len(queue) : queue[j] = m
    BY <1>5 DEF TakenFrom
  <2>2. ASSUME NEW j \in 1..Len(queue), queue[j] = m
        PROVE  \E i \in 1..Len(queue') : queue'[i] = m
    <3>1. j # 1
      BY <1>2, <1>5, <2>2
    <3>2. j - 1 \in 1..Len(queue') /\ queue'[j - 1] = queue[(j - 1) + 1] /\ (j - 1) + 1 = j
      BY <1>2, <3>1
    <3> QED
      BY <2>2, <3>2
  <2> QED
    BY <2>1, <2>2
<1>6. TakenFrom(slot)'
  BY <1>1, <1>4, <1>5 DEF TakenFrom
<1> QED
  BY <1>1, <1>6

LEMMA FetchFinds ==
  ASSUME FoundInv, Fetch
  PROVE  FoundInv'
<1> DEFINE n == Head(queue)
<1>1. /\ phase = "fetch" /\ queue # << >> /\ queue' = Tail(queue)
      /\ UNCHANGED <<input, cut, phase, plan, byIndex, groups, r>>
      /\ \/ Works /\ out' = IF Matches(plan.where, rows[n]) THEN Append(out, rows[n]) ELSE out
         \/ byIndex /\ Fails /\ UNCHANGED out
  BY DEF Fetch
<1>2. UNCHANGED <<rows, indexed>>
  BY <1>1 DEF input
<1>3. Typed /\ Counting /\ Planned /\ Taken
  BY <1>1 DEF FoundInv
<1>4. PICK S : rows \in Seq(S)
  BY <1>3 DEF Typed
<1>5. Len(rows) \in Nat /\ Range(rows) = {rows[k] : k \in 1..Len(rows)}
  BY <1>4 DEF Range
<1>6. queue \in Seq(1..Len(rows)) /\ out \in Seq(Range(rows))
  BY <1>3 DEF Typed
<1>7. n \in 1..Len(rows) /\ queue' \in Seq(1..Len(rows)) /\ Len(queue') = Len(queue) - 1
      /\ \A j \in 1..Len(queue') : queue'[j] = queue[j + 1] /\ j + 1 \in 1..Len(queue)
  BY <1>1, <1>6
<1>8. n \in Hits <=> Matches(plan.where, rows[n])
  BY <1>7 DEF Hits
<1>9. PICK slot \in [1..Len(out) -> Hits] : TakenFrom(slot)
  BY <1>3 DEF Taken
<1>10. Hits' = Hits
  BY <1>1, <1>2 DEF Hits
<1>11. \/ out' = Append(out, rows[n]) /\ UNCHANGED faults /\ n \in Hits
       \/ UNCHANGED <<out, faults>> /\ n \notin Hits
       \/ UNCHANGED out /\ byIndex /\ faults' = faults + 1 /\ faults < MaxFaults
  BY <1>1, <1>8 DEF Works, Fails
<1>12. /\ faults' \in 0..MaxFaults /\ (faults' = 0 => faults = 0)
       /\ UNCHANGED faults \/ byIndex
  <2>1. faults \in 0..MaxFaults /\ MaxFaults \in Nat
    BY <1>3, SelectAssumption DEF Typed
  <2> QED
    BY <1>11, <2>1
<1>13. out' \in Seq(Range(rows)) /\ Len(out') \in Nat /\ Len(out) \in Nat /\ Len(out') >= Len(out)
  <2>1. rows[n] \in Range(rows)
    BY <1>5, <1>7
  <2>2. \A S1, x : out \in Seq(S1) /\ x \in S1 =>
          /\ Append(out, x) \in Seq(S1) /\ Len(Append(out, x)) = Len(out) + 1 /\ Len(out) \in Nat
    OBVIOUS
  <2>3. Append(out, rows[n]) \in Seq(Range(rows)) /\ Len(Append(out, rows[n])) = Len(out) + 1
        /\ Len(out) \in Nat
    BY <1>6, <2>1, <2>2, Zenon
  <2>4. out' = Append(out, rows[n]) \/ out' = out
    BY <1>11
  <2>5. out' \in Seq(Range(rows))
    BY <1>6, <2>3, <2>4, Zenon
  <2>6. Len(out') = Len(out) + 1 \/ Len(out') = Len(out)
    BY <2>3, <2>4, Zenon
  <2>7. \A x, y \in Nat : y \in Nat /\ (x = y + 1 \/ x = y) => x >= y
    OBVIOUS
  <2>8. Len(out) \in Nat /\ Len(out) + 1 \in Nat
    BY <2>3
  <2> QED
    BY <2>5, <2>6, <2>7, <2>8, Zenon
<1>14. Typed'
  BY <1>1, <1>2, <1>3, <1>7, <1>12, <1>13, Zenon DEF Typed
<1>15. Counting'
  BY <1>1, <1>3, <1>13 DEF Counting
<1>16. Planned'
  BY <1>1, <1>2, <1>3 DEF Planned, PlanOf, IsSimple, SimpleEq
<1>17. Taken'
  <2>1. QueueInOrder'
    <3>1. QueueInOrder
      BY <1>3 DEF Taken
    <3>2. ASSUME NEW j \in 1..Len(queue'), NEW k \in 1..Len(queue'),
                 j < k, queue'[j] \in Hits, queue'[k] \in Hits
          PROVE  queue'[j] < queue'[k]
      <4>0. j \in Int /\ k \in Int
        BY <3>2
      <4>1. j + 1 \in 1..Len(queue) /\ k + 1 \in 1..Len(queue) /\ j + 1 < k + 1
            /\ queue'[j] = queue[j + 1] /\ queue'[k] = queue[k + 1]
        BY <1>7, <3>2, <4>0
      <4> QED
        BY <3>1, <3>2, <4>1 DEF QueueInOrder
    <3> QED
      BY <1>10, <3>2 DEF QueueInOrder
  <2>2. \E next \in [1..Len(out') -> Hits'] : TakenFrom(next)'
    <3>1. CASE out' = Append(out, rows[n]) /\ UNCHANGED faults /\ n \in Hits
      <4>1. UNCHANGED <<rows, plan>> /\ QueueInOrder
        BY <1>1, <1>2, <1>3 DEF Taken
      <4> QED
        BY <1>1, <1>5, <1>6, <1>9, <3>1, <4>1, TakeOne
    <3>2. CASE UNCHANGED out /\ (faults' = 0 => faults = 0 /\ n \notin Hits)
      <4>1. UNCHANGED <<rows, plan, out>>
        BY <1>1, <1>2, <3>2
      <4>2. slot \in [1..Len(out') -> Hits'] /\ TakenFrom(slot)'
        BY <1>1, <1>5, <1>6, <1>9, <3>2, <4>1, PassOver
      <4> QED
        BY <4>2
    <3>3. faults \in 0..MaxFaults
      BY <1>3 DEF Typed
    <3> QED
      BY <1>11, <1>12, <3>1, <3>2, <3>3
  <2>3. ~byIndex' /\ faults' # 0 => out' = << >> /\ queue' = << >>
    BY <1>1, <1>3, <1>12 DEF Taken
  <2> QED
    BY <2>1, <2>2, <2>3 DEF Taken
<1> QED
  BY <1>1, <1>14, <1>15, <1>16, <1>17 DEF FoundInv

(* A step after the last row is found.                                       *)
LEMMA LaterFinds ==
  ASSUME FoundInv, phase \in {"fetch", "rows"}, queue = << >>, phase' \in {"rows", "done", "refused"},
         UNCHANGED <<input, cut, plan, byIndex, queue, out, faults>>, Counting'
  PROVE  FoundInv'
<1>1. Hits' = Hits
  BY DEF Hits, input
<1>2. Taken'
  BY <1>1 DEF FoundInv, Taken, QueueInOrder, TakenFrom, input
<1>3. Planned'
  BY DEF FoundInv, Planned, PlanOf, IsSimple, SimpleEq, input
<1>4. Typed'
  BY DEF FoundInv, Typed, input
<1> QED
  BY <1>2, <1>3, <1>4 DEF FoundInv

LEMMA GroupRowCounts ==
  ASSUME Counting, out \in Seq(Range(rows)), phase = "rows", GroupRow
  PROVE  Counting'
<1>1. PICK S : groups \in Seq(S)
  BY DEF Counting
<1>2. Len(groups) \in Nat /\ Len(out) \in Nat
  BY <1>1
<1>3. r \in Nat /\ r <= Len(out) /\ r' = r + 1 /\ UNCHANGED <<out, phase>> /\ Len(groups) <= r - 1
  BY <1>2 DEF Counting, GroupRow
<1>4. (\E T : groups' \in Seq(T)) /\ Len(groups') <= Len(groups) + 1
  <2>1. ASSUME NEW g, groups' = Append(groups, g)
        PROVE  (\E T : groups' \in Seq(T)) /\ Len(groups') <= Len(groups) + 1
    <3>1. groups \in Seq(S \cup {g})
      BY <1>1
    <3>2. groups' \in Seq(S \cup {g}) /\ Len(groups') = Len(groups) + 1
      BY <2>1, <3>1
    <3> QED
      BY <1>2, <3>2
  <2> DEFINE same == {k \in 1..Len(groups) : groups[k].value = out[r][plan.group]}
  <2>3. CASE same = {}
    <3>1. groups' = Append(groups, NewGroup(out[r]))
      BY <2>3 DEF GroupRow
    <3> QED
      BY <2>1, <3>1
  <2>4. CASE same # {}
    <3> DEFINE f(k) == IF k = Min(same) THEN Grown(groups[k], out[r]) ELSE groups[k]
               G == {f(k) : k \in 1..Len(groups)}
    <3>1. groups' = [k \in 1..Len(groups) |-> f(k)]
      BY <2>4 DEF GroupRow
    <3>2. groups' \in [1..Len(groups) -> G]
      BY <3>1
    <3> HIDE DEF G
    <3>3. groups' \in Seq(G) /\ Len(groups') = Len(groups)
      BY <1>2, <3>2, IsSequence
    <3> QED
      BY <1>2, <3>3
  <2> QED
    BY <2>3, <2>4
<1>5. Len(groups') \in Nat
  BY <1>4
<1> QED
  BY <1>2, <1>3, <1>4, <1>5 DEF Counting

LEMMA FoundInvNext == FoundInv /\ [Next]_vars => FoundInv'
<1> SUFFICES ASSUME FoundInv, [Next]_vars
             PROVE  FoundInv'
  OBVIOUS
<1>1. CASE CutClauses
  <2>1. /\ phase = "typed" /\ phase' = "cut"
        /\ UNCHANGED <<input, plan, byIndex, queue, out, groups, r, faults>>
    BY <1>1 DEF CutClauses
  <2> QED
    BY <2>1 DEF FoundInv, Typed, Counting, Planned, input
<1>2. CASE Fetched
  <2>1. /\ phase = "fetch" /\ queue = << >> /\ phase' \in {"rows", "refused"}
        /\ UNCHANGED <<input, cut, plan, byIndex, queue, out, groups, r, faults>>
    BY <1>2 DEF Fetched
  <2>2. Counting'
    BY <2>1 DEF FoundInv, Counting
  <2> QED
    BY <2>1, <2>2, LaterFinds
<1>3. CASE GroupRow
  <2>1. /\ phase = "rows" /\ queue = << >> /\ phase' = "rows" /\ out \in Seq(Range(rows))
        /\ UNCHANGED <<input, cut, plan, byIndex, queue, out, faults>>
    BY <1>3 DEF GroupRow, FoundInv, Typed
  <2>2. Counting'
    BY <1>3, <2>1, GroupRowCounts DEF FoundInv
  <2> QED
    BY <2>1, <2>2, LaterFinds
<1>4. CASE PrintRows
  <2>1. /\ phase = "rows" /\ queue = << >> /\ phase' = "done"
        /\ UNCHANGED <<input, cut, plan, byIndex, queue, out, groups, r, faults>>
    BY <1>4 DEF PrintRows, FoundInv
  <2>2. Counting'
    BY <2>1 DEF FoundInv, Counting
  <2> QED
    BY <2>1, <2>2, LaterFinds
<1>5. CASE UNCHANGED vars
  BY <1>5, FoundInvSame
<1> QED
  BY <1>1, <1>2, <1>3, <1>4, <1>5, StartFinds, FetchFinds DEF Next

LEMMA FoundInvHolds == Spec => []FoundInv
BY FoundInvInit, FoundInvNext, PTL DEF Spec

(* Whatever the statement and the failing operations, every variable of a   *)
(* SELECT keeps its type: slots stay slots of the table (cmd_select).       *)
THEOREM TypeCorrect == Spec => []TypeOK
BY FoundInvHolds, FoundInvTypes, PTL

(* The rows found are rows of the table that match, each once and in the    *)
(* order of their slots, through an index as well as by a scan; none is     *)
(* lost unless an operation fails, and on a scan only all (cmd_select).     *)
THEOREM FoundCorrect == Spec => []FoundInOrder
BY FoundInvHolds, FoundInvFinds, PTL

(* EXPLAIN names the way the SELECT of the same text takes, for any text    *)
(* and any indexes (cmd_explain, cmd_select).                               *)
THEOREM ExplainCorrect == Spec => []ExplainAgrees
BY FoundInvHolds, FoundInvExplains, PTL
-----------------------------------------------------------------------------
(* Joins. *)
(* A set of numbers has a least member.                                      *)
LEMMA LessOnNat == \A x, y \in Nat : <<x, y>> \in OpToRel(<, Nat) <=> x < y
BY Zenon DEF OpToRel

LEMMA Least ==
  ASSUME NEW S \in SUBSET Nat, S # {}
  PROVE  \E x \in S : \A y \in S : x <= y
<1> DEFINE R == OpToRel(<, Nat)
<1>1. IsWellFoundedOn(R, Nat)
  BY NatLessThanWellFounded, Zenon
<1>2. \A x, y \in Nat : <<x, y>> \in R <=> x < y
  BY LessOnNat, Zenon
<1> HIDE DEF R
<1>3. \E x \in S : \A y \in S : ~(<<y, x>> \in R)
  BY <1>1, WFMin
<1>4. \A x, y \in Nat : ~(<<y, x>> \in R) <=> ~(y < x)
  BY <1>2
<1>5. \A x, y \in Nat : ~(y < x) => x <= y
  OBVIOUS
<1> QED
  BY <1>3, <1>4, <1>5, Zenon
-----------------------------------------------------------------------------
(* FlattenSeq puts the sequences one behind the other.                       *)
Flattens(f, m, seqs) ==
  f = [i \in 1..m |-> IF i = 1 THEN seqs[i] ELSE f[i - 1] \o seqs[i]]

LEMMA FlattenExists ==
  ASSUME NEW seqs, NEW n \in Nat
  PROVE  \E f : Flattens(f, n, seqs)
<1> DEFINE Bad == {m \in Nat : ~ \E f : Flattens(f, m, seqs)}
<1> SUFFICES ASSUME Bad # {}
             PROVE  FALSE
  OBVIOUS
<1>1. PICK m \in Bad : \A k \in Bad : m <= k
  BY Least
<1>2. m # 0
  <2>1. Flattens([i \in 1..0 |-> 0], 0, seqs)
    BY DEF Flattens
  <2> QED
    BY <2>1
<1>3. m - 1 \in Nat /\ m - 1 \notin Bad
  BY <1>1, <1>2
<1>4. PICK f : Flattens(f, m - 1, seqs)
  BY <1>3
<1> DEFINE g == [i \in 1..m |-> IF i = m THEN (IF i = 1 THEN seqs[i] ELSE f[i - 1] \o seqs[i]) ELSE f[i]]
           h == [i \in 1..m |-> IF i = 1 THEN seqs[i] ELSE g[i - 1] \o seqs[i]]
<1>5. ASSUME NEW i \in 1..m
      PROVE  g[i] = h[i]
  <2>1. CASE i = m
    BY <2>1
  <2>2. CASE i # m
    <3>1. i \in 1..m - 1
      BY <2>2
    <3>2. f[i] = IF i = 1 THEN seqs[i] ELSE f[i - 1] \o seqs[i]
      BY <1>4, <3>1 DEF Flattens
    <3>3. i # 1 => i - 1 \in 1..m /\ i - 1 # m
      BY <3>1
    <3> QED
      BY <3>1, <3>2, <3>3, <2>2
  <2> QED
    BY <2>1, <2>2
<1>6. Flattens(g, m, seqs)
  BY <1>5 DEF Flattens
<1> QED
  BY <1>6

LEMMA FlattenIs ==
  ASSUME NEW seqs, NEW n \in Nat \ {0}, n = Len(seqs)
  PROVE  \E f : /\ FlattenSeq(seqs) = f[n]
                /\ f[1] = seqs[1]
                /\ \A i \in 2..n : f[i] = f[i - 1] \o seqs[i]
<1>1. \E f : f = [i \in 1..n |-> IF i = 1 THEN seqs[i] ELSE f[i - 1] \o seqs[i]]
  BY FlattenExists DEF Flattens
<1> DEFINE c == CHOOSE f : f = [i \in 1..n |-> IF i = 1 THEN seqs[i] ELSE f[i - 1] \o seqs[i]]
<1>2. c = [i \in 1..n |-> IF i = 1 THEN seqs[i] ELSE c[i - 1] \o seqs[i]]
  BY <1>1
<1>3. FlattenSeq(seqs) = c[n]
  BY DEF FlattenSeq
<1> HIDE DEF c
<1>4. c[1] = seqs[1] /\ \A i \in 2..n : c[i] = c[i - 1] \o seqs[i]
  <2>1. PICK d : d = c
    OBVIOUS
  <2>2. d = [i \in 1..n |-> IF i = 1 THEN seqs[i] ELSE d[i - 1] \o seqs[i]]
    BY <1>2, <2>1, Zenon
  <2>3. \A i \in 1..n : d[i] = IF i = 1 THEN seqs[i] ELSE d[i - 1] \o seqs[i]
    BY <2>2
  <2>4. d[1] = seqs[1]
    <3>1. 1 \in 1..n
      OBVIOUS
    <3> QED
      BY <2>3, <3>1, Zenon
  <2>5. ASSUME NEW i \in 2..n
        PROVE  d[i] = d[i - 1] \o seqs[i]
    <3>1. i \in 1..n /\ i # 1
      OBVIOUS
    <3> QED
      BY <2>3, <3>1, Zenon
  <2> QED
    BY <2>1, <2>4, <2>5
<1> QED
  BY <1>3, <1>4
-----------------------------------------------------------------------------
(* t lists the pairs of T in their order, each once, by what of makes of it. *)
Lists(of, t, T) ==
  /\ \E S : t \in Seq(S)
  /\ \E pair \in [1..Len(t) -> T] :
       /\ \A n \in 1..Len(t) : t[n] = of[pair[n]]
       /\ \A m, n \in 1..Len(t) : m < n => PairBefore(pair[m], pair[n])
       /\ \A p \in T : \E n \in 1..Len(t) : pair[n] = p

LEMMA ListsBy ==
  ASSUME NEW of, NEW t, NEW T, NEW S, t \in Seq(S), NEW n, n = Len(t), NEW pair \in [1..n -> T],
         \A k \in 1..n : t[k] = of[pair[k]],
         \A j, k \in 1..n : j < k => PairBefore(pair[j], pair[k]),
         \A p \in T : \E k \in 1..n : pair[k] = p
  PROVE  Lists(of, t, T)
BY Zenon DEF Lists

LEMMA ListsNone == \A of : Lists(of, << >>, {})
<1> SUFFICES ASSUME NEW of
             PROVE  Lists(of, << >>, {})
  OBVIOUS
<1>1. Len(<< >>) = 0 /\ << >> \in Seq({}) /\ [n \in {} |-> 0] \in [1..0 -> {}]
  OBVIOUS
<1>2. \A n \in 1..0 : FALSE
  OBVIOUS
<1> QED
  BY <1>1, <1>2 DEF Lists

LEMMA ListsOne == \A of, p : Lists(of, <<of[p]>>, {p})
<1> SUFFICES ASSUME NEW of, NEW p
             PROVE  Lists(of, <<of[p]>>, {p})
  OBVIOUS
<1>1. Len(<<of[p]>>) = 1 /\ <<of[p]>> \in Seq({of[p]}) /\ <<of[p]>>[1] = of[p]
  OBVIOUS
<1>2. PICK pair \in [1..1 -> {p}] : pair[1] = p
  <2>1. [n \in 1..1 |-> p] \in [1..1 -> {p}] /\ [n \in 1..1 |-> p][1] = p
    OBVIOUS
  <2> QED
    BY <2>1
<1>3. \A n \in 1..1 : n = 1
  OBVIOUS
<1>4. \A m, n \in 1..1 : m < n => FALSE
  OBVIOUS
<1>5. PICK t : t = <<of[p]>>
  OBVIOUS
<1>6. 1 \in 1..1 /\ \A k \in 1..1 : t[k] = of[pair[k]]
  BY <1>1, <1>2, <1>3, <1>5
<1>7. \A q \in {p} : \E k \in 1..1 : pair[k] = q
  BY <1>2, <1>6
<1>8. t \in Seq({of[p]}) /\ 1 = Len(t)
  BY <1>1, <1>5
<1>9. Lists(of, t, {p})
  BY <1>4, <1>6, <1>7, <1>8, ListsBy
<1> QED
  BY <1>5, <1>9

LEMMA ListsBoth ==
  ASSUME NEW of, NEW t, NEW T, NEW u, NEW U, Lists(of, t, T), Lists(of, u, U),
         \A p \in T, q \in U : PairBefore(p, q)
  PROVE  Lists(of, t \o u, T \cup U)
<1>1. PICK A : t \in Seq(A)
  BY DEF Lists
<1>2. PICK B : u \in Seq(B)
  BY DEF Lists
<1>3. PICK a \in Nat : a = Len(t)
  BY <1>1
<1>4. PICK b \in Nat : b = Len(u)
  BY <1>2
<1>5. /\ t \o u \in Seq(A \cup B) /\ Len(t \o u) = a + b
      /\ \A n \in 1..a + b : (t \o u)[n] = IF n <= a THEN t[n] ELSE u[n - a]
  <2>1. t \in Seq(A \cup B) /\ u \in Seq(A \cup B)
    BY <1>1, <1>2
  <2> QED
    BY <1>3, <1>4, <2>1
<1>6. PICK f \in [1..a -> T] :
        /\ \A n \in 1..a : t[n] = of[f[n]]
        /\ \A m, n \in 1..a : m < n => PairBefore(f[m], f[n])
        /\ \A p \in T : \E n \in 1..a : f[n] = p
  BY <1>3 DEF Lists
<1>7. PICK g \in [1..b -> U] :
        /\ \A n \in 1..b : u[n] = of[g[n]]
        /\ \A m, n \in 1..b : m < n => PairBefore(g[m], g[n])
        /\ \A p \in U : \E n \in 1..b : g[n] = p
  BY <1>4 DEF Lists
<1>8. PICK h : h = [n \in 1..a + b |-> IF n <= a THEN f[n] ELSE g[n - a]]
  OBVIOUS
<1>9. \A n \in 1..a + b : (n <= a => n \in 1..a) /\ (n > a => n - a \in 1..b)
  OBVIOUS
<1>10. h \in [1..a + b -> T \cup U]
  BY <1>8, <1>9
<1>11. \A n \in 1..a + b : h[n] = IF n <= a THEN f[n] ELSE g[n - a]
  BY <1>8
<1>12. \A n \in 1..a + b : (t \o u)[n] = of[h[n]]
  BY <1>5, <1>6, <1>7, <1>9, <1>11
<1>13. ASSUME NEW m \in 1..a + b, NEW n \in 1..a + b, m < n
       PROVE  PairBefore(h[m], h[n])
  <2>1. CASE n <= a
    BY <1>6, <1>9, <1>11, <1>13, <2>1
  <2>2. CASE m > a
    <3>1. m - a \in 1..b /\ n - a \in 1..b /\ m - a < n - a /\ h[m] = g[m - a] /\ h[n] = g[n - a]
      BY <1>9, <1>11, <1>13, <2>2
    <3> QED
      BY <1>7, <3>1
  <2>3. CASE m <= a /\ n > a
    <3>1. h[m] \in T /\ h[n] \in U
      BY <1>9, <1>11, <2>3
    <3> QED
      BY <3>1
  <2> QED
    BY <1>13, <2>1, <2>2, <2>3
<1>14. ASSUME NEW p \in T \cup U
       PROVE  \E n \in 1..a + b : h[n] = p
  <2>1. CASE p \in T
    <3>1. PICK n \in 1..a : f[n] = p
      BY <1>6, <2>1
    <3>2. n \in 1..a + b /\ h[n] = p
      BY <1>11, <3>1
    <3> QED
      BY <3>2
  <2>2. CASE p \in U
    <3>1. PICK n \in 1..b : g[n] = p
      BY <1>7, <2>2
    <3>2. n + a \in 1..a + b /\ ~(n + a <= a) /\ (n + a) - a = n
      BY <3>1
    <3>3. h[n + a] = p
      BY <1>11, <3>1, <3>2
    <3> QED
      BY <3>2, <3>3
  <2> QED
    BY <2>1, <2>2
<1>15. PICK x : x = t \o u
  OBVIOUS
<1>16. PICK n : n = a + b
  OBVIOUS
<1>17. x \in Seq(A \cup B) /\ n = Len(x) /\ h \in [1..n -> T \cup U]
       /\ \A k \in 1..n : x[k] = of[h[k]]
  BY <1>5, <1>10, <1>12, <1>15, <1>16
<1>18. Lists(of, x, T \cup U)
  <2>1. \A j, k \in 1..n : j < k => PairBefore(h[j], h[k])
    BY <1>13, <1>16, Zenon
  <2>2. \A p \in T \cup U : \E k \in 1..n : h[k] = p
    BY <1>14, <1>16, Zenon
  <2> HIDE DEF Lists
  <2>3. PICK X : X = T \cup U
    OBVIOUS
  <2>4. PICK C : C = A \cup B
    OBVIOUS
  <2>5. x \in Seq(C) /\ n = Len(x) /\ h \in [1..n -> X] /\ (\A k \in 1..n : x[k] = of[h[k]])
        /\ \A p \in X : \E k \in 1..n : h[k] = p
    BY <1>17, <2>2, <2>3, <2>4, Zenon
  <2>6. /\ x \in Seq(C) /\ h \in [1..Len(x) -> X]
        /\ \A k \in 1..Len(x) : x[k] = of[h[k]]
        /\ \A j, k \in 1..Len(x) : j < k => PairBefore(h[j], h[k])
        /\ \A p \in X : \E k \in 1..Len(x) : h[k] = p
    BY <2>1, <2>5, Zenon
  <2>7. Lists(of, x, X)
    BY <2>6, Zenon DEF Lists
  <2> QED
    BY <2>3, <2>7
<1> QED
  BY <1>15, <1>18

(* Lists of consecutive rows of pairs, one behind the other.                *)
InRow(of, seqs, n, T, W) ==
  /\ n \in Nat /\ n = Len(seqs) /\ (seqs = << >> \/ n > 0)
  /\ \A i \in 1..n : Lists(of, seqs[i], T[i])
  /\ \A i, j \in 1..n : i < j => \A p \in T[i], q \in T[j] : PairBefore(p, q)
  /\ \A p : p \in W <=> \E i \in 1..n : p \in T[i]

LEMMA ListsAll ==
  ASSUME NEW of, NEW seqs, NEW n, NEW T, NEW W, InRow(of, seqs, n, T, W)
  PROVE  Lists(of, FlattenSeq(seqs), W)
<1>1. /\ n \in Nat /\ n = Len(seqs) /\ (seqs = << >> \/ n > 0)
      /\ \A i \in 1..n : Lists(of, seqs[i], T[i])
      /\ \A i, j \in 1..n : i < j => \A p \in T[i], q \in T[j] : PairBefore(p, q)
      /\ \A p : p \in W <=> \E i \in 1..n : p \in T[i]
  BY DEF InRow
<1> DEFINE Upto(m) == UNION {T[i] : i \in 1..m}
<1>2. CASE n = 0
  <2>1. FlattenSeq(seqs) = << >> /\ W = {}
    BY <1>1, <1>2 DEF FlattenSeq
  <2> QED
    BY <2>1, ListsNone
<1>3. CASE n # 0
  <2>1. PICK f : /\ FlattenSeq(seqs) = f[n]
                 /\ f[1] = seqs[1]
                 /\ \A i \in 2..n : f[i] = f[i - 1] \o seqs[i]
    <3>1. n \in Nat \ {0} /\ n = Len(seqs)
      BY <1>1, <1>3
    <3> QED
      BY <3>1, FlattenIs, Zenon
  <2> DEFINE Bad == {m \in 1..n : ~Lists(of, f[m], Upto(m))}
  <2>2. Bad = {}
    <3> SUFFICES ASSUME Bad # {}
                 PROVE  FALSE
      OBVIOUS
    <3>1. PICK m \in Bad : \A k \in Bad : m <= k
      <4>1. Bad \in SUBSET Nat
        OBVIOUS
      <4> HIDE DEF Bad
      <4> QED
        BY <4>1, Least
    <3>2. CASE m = 1
      <4>1. Upto(1) = T[1]
        OBVIOUS
      <4> QED
        BY <1>1, <2>1, <3>1, <3>2, <4>1
    <3>3. CASE m # 1
      <4>1. m - 1 \in 1..n /\ m \in 2..n /\ m - 1 < m /\ m - 1 \notin Bad
        <5>1. m \in 1..n /\ m - 1 \in Nat /\ ~(m <= m - 1)
          BY <3>1
        <5>2. m - 1 \notin Bad
          <6> HIDE DEF Bad
          <6> QED
            BY <3>1, <5>1
        <5> QED
          BY <1>1, <3>3, <5>1, <5>2
      <4>2. Lists(of, f[m - 1], Upto(m - 1)) /\ Lists(of, seqs[m], T[m])
        BY <1>1, <4>1
      <4>3. \A p \in Upto(m - 1), q \in T[m] : PairBefore(p, q)
        <5> SUFFICES ASSUME NEW i \in 1..m - 1, NEW p \in T[i], NEW q \in T[m]
                     PROVE  PairBefore(p, q)
          OBVIOUS
        <5>1. i \in 1..n /\ m \in 1..n /\ i < m
          BY <1>1, <4>1
        <5> QED
          BY <1>1, <5>1
      <4>4. Upto(m) = Upto(m - 1) \cup T[m]
        <5>1. \A i : i \in 1..m <=> i \in 1..m - 1 \/ i = m
          BY <4>1
        <5> QED
          BY <5>1
      <4> HIDE DEF Upto
      <4>5. Lists(of, f[m - 1] \o seqs[m], Upto(m - 1) \cup T[m])
        BY <4>2, <4>3, ListsBoth
      <4>6. Lists(of, f[m], Upto(m))
        BY <2>1, <4>1, <4>4, <4>5
      <4> QED
        BY <3>1, <4>6
    <3> QED
      BY <3>2, <3>3
  <2>3. n \in 1..n
    BY <1>1, <1>3
  <2>4. Lists(of, f[n], Upto(n))
    BY <2>2, <2>3
  <2> QED
    BY <1>1, <2>1, <2>4
<1> QED
  BY <1>2, <1>3
-----------------------------------------------------------------------------
(* What a join keeps.  The pairs reached are those of the left rows before   *)
(* the one that is looked up, and of that one those not left in the queue.   *)
Lines == [p \in Matching |-> PairLine(p)]
Reached(p) ==
  p[1] < l - 1 \/ (p[1] = l - 1 /\ \A j \in 1..Len(queue) : queue[j] # p[2])
Here(n) == <<l - 1, n>>
QueueAscends ==
  /\ \A j, k \in 1..Len(queue) :
       j < k /\ Here(queue[j]) \in Matching /\ Here(queue[k]) \in Matching => queue[j] < queue[k]
  /\ \A j \in 1..Len(queue), n \in 1..Len(rows) :
       Here(n) \in Matching /\ Reached(Here(n)) /\ Here(queue[j]) \in Matching => n < queue[j]
  /\ queue # << >> => l > 1
Complete(T) ==
  /\ phase = "joined" /\ (faults = 0 \/ (~join.index /\ T # {})) => T = Matching
  /\ phase = "join" =>
       IF pass = 1 \/ ~join.index THEN T = {}
       ELSE /\ \A p \in T : Reached(p)
            /\ faults = 0 => \A p \in Matching : Reached(p) => p \in T
Joins ==
  /\ IsJoinSelect(parts) /\ join = JoinOf(parts)
  /\ phase \in {"join", "joined", "refused"}
  /\ lefts \in {<< >>, RowsOf(join.left)} /\ (faults = 0 => lefts = RowsOf(join.left))
  /\ pass \in 1..2 /\ l \in 1..Len(lefts) + 1
  /\ \E T \in SUBSET Matching : Lists(Lines, printed, T) /\ Complete(T)
  /\ phase = "join" => IF join.index THEN QueueAscends ELSE queue = << >>
JoinInv ==
  /\ FoundInv /\ GroupsInv
  /\ \E S : others \in Seq(S)
  /\ phase \in {"typed", "cut join"} =>
       printed = << >> /\ queue = << >> /\ faults = 0 /\ l = 1 /\ pass = 1
  /\ phase \notin {"join", "joined", "refused"} => join = None
  /\ phase \in {"join", "joined"} => join # None
  /\ join # None => Joins

LEMMA JoinIsSome ==
  ASSUME NEW p
  PROVE  JoinOf(p) # None
<1>1. "left" \in DOMAIN JoinOf(p)
  BY DEF JoinOf
<1>2. DOMAIN None = {}
  BY DEF None
<1> QED
  BY <1>1, <1>2

LEMMA JoinInvInit == JoinInit => JoinInv
<1> SUFFICES ASSUME JoinInit
             PROVE  JoinInv
  OBVIOUS
<1>1. /\ rows \in Tables \cup JoinTables /\ indexed \subseteq Range(Cols)
      /\ phase = "typed" /\ plan = None /\ byIndex = FALSE /\ queue = << >> /\ out = << >>
      /\ groups = << >> /\ r = 1 /\ faults = 0
      /\ printed = << >> /\ l = 1 /\ pass = 1 /\ join = None
      /\ others = << >> \/ others \in Others
  BY DEF JoinInit, Init
<1>2. rows \in Seq([Range(Cols) -> Seq(STRING)])
  BY <1>1, SelectAssumption, JoinAssumption DEF AreContents
<1>3. FoundInv /\ GroupsInv
  BY <1>1, <1>2, FoundInvStarts, Zenon
<1>4. \E S : others \in Seq(S)
  <2>1. << >> \in Seq({})
    OBVIOUS
  <2>2. CASE others \in Others
    <3>1. others \in Seq([Range(OtherCols) -> Seq(STRING)])
      BY <2>2, JoinAssumption DEF AreContents
    <3> QED
      BY <3>1
  <2> QED
    BY <1>1, <2>1, <2>2
<1> QED
  BY <1>1, <1>3, <1>4, Zenon DEF JoinInv

(* A step of a join leaves the single SELECT alone.                          *)
LEMMA JoinStepAlone ==
  ASSUME FoundInv, GroupsInv, UNCHANGED selectOnly,
         phase \in {"typed", "cut join", "join"},
         phase' \in {"cut join", "join", "joined", "refused"},
         queue' \in Seq(1..Len(rows)), faults' \in 0..MaxFaults
  PROVE  FoundInv' /\ GroupsInv'
<1>1. UNCHANGED <<rows, indexed, cut, plan, byIndex, out, groups, r>>
  BY DEF selectOnly, input
<1>2. Typed'
  BY <1>1, Zenon DEF FoundInv, Typed
<1>3. Counting'
  BY <1>1, Zenon DEF FoundInv, Counting
<1>4. Planned'
  BY <1>1 DEF FoundInv, Planned, PlanOf, IsSimple, SimpleEq
<1>5. FoundInv'
  BY <1>2, <1>3, <1>4 DEF FoundInv
<1>6. GroupsInv'
  BY <1>1 DEF GroupsInv
<1> QED
  BY <1>5, <1>6

(* The failures counted stay within their bound.                             *)
LEMMA FaultsBounded ==
  ASSUME faults \in 0..MaxFaults, Works \/ Fails
  PROVE  /\ faults' \in 0..MaxFaults /\ (faults' = 0 => faults = 0)
         /\ Fails => faults' # 0
         /\ Works => faults' = faults
<1>1. MaxFaults \in Nat
  BY SelectAssumption
<1> QED
  BY <1>1 DEF Works, Fails

(* What is matched and shown depends on the tables and the join.             *)
LEMMA MatchingStays ==
  ASSUME UNCHANGED <<rows, others, join>>
  PROVE  Matching' = Matching /\ Lines' = Lines
<1>1. \A name : RowsOf(name)' = RowsOf(name)
  BY DEF RowsOf
<1>2. Matching' = Matching
  BY <1>1 DEF Matching, IsPair
<1>3. Lines' = Lines
  BY <1>1, <1>2 DEF Lines, PairLine, Line
<1> QED
  BY <1>2, <1>3

LEMMA EmptyHasNone == Len(<< >>) = 0
OBVIOUS

LEMMA CutJoinKeeps ==
  ASSUME JoinInv, CutJoin
  PROVE  JoinInv'
<1>1. /\ phase = "typed" /\ phase' = "cut join"
      /\ UNCHANGED <<selectOnly, others, queue, printed, faults, join, l, pass>>
  BY DEF CutJoin, joinInput
<1>2. queue' \in Seq(1..Len(rows)) /\ faults' \in 0..MaxFaults
  BY <1>1 DEF JoinInv, FoundInv, Typed
<1>3. FoundInv' /\ GroupsInv'
  BY <1>1, <1>2, JoinStepAlone DEF JoinInv
<1> QED
  BY <1>1, <1>3, Zenon DEF JoinInv

LEMMA JoinStartKeeps ==
  ASSUME JoinInv, JoinStart
  PROVE  JoinInv'
<1>1. /\ phase = "cut join" /\ UNCHANGED <<selectOnly, others, parts, queue, printed, l, pass>>
      /\ printed = << >> /\ queue = << >> /\ faults = 0 /\ l = 1 /\ pass = 1 /\ join = None
  BY DEF JoinStart, JoinInv, joinInput
<1>2. UNCHANGED <<rows, others>>
  BY <1>1 DEF selectOnly, input
<1>3. Works \/ Fails
  BY DEF JoinStart
<1>4. faults' \in 0..MaxFaults /\ (Fails => faults' # 0) /\ queue' \in Seq(1..Len(rows))
  <2>1. faults \in 0..MaxFaults /\ queue \in Seq(1..Len(rows))
    BY DEF JoinInv, FoundInv, Typed
  <2> QED
    BY <1>1, <1>3, <2>1, FaultsBounded
<1>5. phase' \in {"join", "refused"}
  BY DEF JoinStart
<1>6. FoundInv' /\ GroupsInv'
  BY <1>1, <1>4, <1>5, JoinStepAlone DEF JoinInv
<1>7. (\E S : others \in Seq(S))'
  BY <1>1 DEF JoinInv
<1>8. CASE phase' = "refused" /\ UNCHANGED <<join, lefts>>
  BY <1>1, <1>6, <1>7, <1>8, Zenon DEF JoinInv
<1>9. CASE /\ IsJoinSelect(parts)
           /\ join' = JoinOf(parts) /\ phase' = "join"
           /\ \/ Works /\ lefts' = RowsOf(join'.left)
              \/ Fails /\ lefts' = << >>
  <2>1. join' # None
    BY <1>9, JoinIsSome
  <2>2. RowsOf(join.left)' = RowsOf(join'.left)
    BY <1>2 DEF RowsOf
  <2>3. /\ lefts' \in {<< >>, RowsOf(join.left)'}
        /\ faults' = 0 => lefts' = RowsOf(join.left)'
    BY <1>4, <1>9, <2>2
  <2>4. pass' \in 1..2 /\ l' \in 1..Len(lefts') + 1
    <3>1. Len(lefts') \in Nat
      <4>1. PICK S : rows \in Seq(S)
        BY DEF JoinInv, FoundInv, Typed
      <4>2. PICK U : others \in Seq(U)
        BY DEF JoinInv
      <4>3. lefts' \in {<< >>, rows, others}
        BY <1>9 DEF RowsOf
      <4> QED
        BY <4>1, <4>2, <4>3
    <3>2. pass' = 1 /\ l' = 1
      BY <1>1, Zenon
    <3> QED
      BY <3>1, <3>2
  <2>5. Lists(Lines, printed, {})' /\ Complete({})'
    <3>1. \A p \in {} : FALSE
      OBVIOUS
    <3>2. pass' = 1 /\ phase' = "join" /\ printed' = << >>
      BY <1>1, <1>9
    <3>3. Lists(Lines', << >>, {})
      BY ListsNone
    <3>4. Lists(Lines, printed, {})'
      BY <3>2, <3>3 DEF Lists
    <3> QED
      BY <3>2, <3>4 DEF Complete
  <2>6. (IF join.index THEN QueueAscends ELSE queue = << >>)'
    <3>1. queue' = << >> /\ Len(queue') = 0
      BY <1>1, Zenon, EmptyHasNone
    <3>2. \A j \in 1..0 : FALSE
      OBVIOUS
    <3>3. QueueAscends'
      BY <3>1, <3>2 DEF QueueAscends
    <3> QED
      BY <3>1, <3>3
  <2>7. Joins'
    <3>1. (\E T \in SUBSET Matching : Lists(Lines, printed, T) /\ Complete(T))'
      BY <2>5
    <3>2. IsJoinSelect(parts)' /\ JoinOf(parts)' = JoinOf(parts)
      <4>1. UNCHANGED <<parts, rows, others, indexed>>
        BY <1>1 DEF selectOnly, input
      <4> QED
        BY <1>9, <4>1 DEF IsJoinSelect, JoinOf, HasIndex
    <3> QED
      BY <1>9, <2>3, <2>4, <2>6, <3>1, <3>2 DEF Joins
  <2> QED
    BY <1>6, <1>7, <1>9, <2>1, <2>7 DEF JoinInv
<1> QED
  BY <1>8, <1>9 DEF JoinStart

(* The lines of a pass without an index: none when it measures, all in order *)
(* when it prints.                                                           *)
Due == IF pass = 2 THEN Matching ELSE {}
RowLines(m) ==
  FlattenSeq([n \in 1..Len(RowsOf(join.right)) |-> PairLines(lefts[m], RowsOf(join.right)[n])])
AllLines == FlattenSeq([m \in 1..Len(lefts) |-> RowLines(m)])

LEMMA OneLine ==
  ASSUME lefts = RowsOf(join.left), NEW m \in 1..Len(lefts), NEW n \in 1..Len(RowsOf(join.right))
  PROVE  Lists(Lines, PairLines(lefts[m], RowsOf(join.right)[n]), {<<m, n>>} \cap Due)
<1> DEFINE p == <<m, n>>
<1>1. p \in Matching <=> IsPair(lefts[m], RowsOf(join.right)[n])
  BY DEF Matching
<1>2. CASE p \in Due
  <2>1. p \in Matching /\ pass = 2 /\ {p} \cap Due = {p}
    BY <1>2 DEF Due
  <2>2. PairLines(lefts[m], RowsOf(join.right)[n]) = <<Line(lefts[m], RowsOf(join.right)[n])>>
    BY <1>1, <2>1 DEF PairLines
  <2>3. Lines[p] = Line(lefts[m], RowsOf(join.right)[n])
    BY <2>1 DEF Lines, PairLine
  <2> QED
    BY <2>1, <2>2, <2>3, ListsOne
<1>3. CASE p \notin Due
  <2>1. {p} \cap Due = {} /\ PairLines(lefts[m], RowsOf(join.right)[n]) = << >>
    BY <1>1, <1>3 DEF Due, PairLines
  <2> QED
    BY <2>1, ListsNone
<1> QED
  BY <1>2, <1>3

LEMMA LinesOfRow ==
  ASSUME lefts = RowsOf(join.left), Len(RowsOf(join.right)) \in Nat, NEW m \in 1..Len(lefts)
  PROVE  Lists(Lines, RowLines(m), {p \in Due : p[1] = m})
<1>1. PICK N \in Nat : N = Len(RowsOf(join.right))
  OBVIOUS
<1>2. PICK seqs : seqs = [n \in 1..N |-> PairLines(lefts[m], RowsOf(join.right)[n])]
  OBVIOUS
<1>3. PICK T : T = [n \in 1..N |-> {<<m, n>>} \cap Due]
  OBVIOUS
<1>4. Len(seqs) = N
  BY <1>2
<1>5. \A i \in 1..N : Lists(Lines, seqs[i], T[i])
  BY <1>1, <1>2, <1>3, OneLine
<1>6. \A i, j \in 1..N : i < j => \A p \in T[i], q \in T[j] : PairBefore(p, q)
  BY <1>3 DEF PairBefore
<1>7. seqs = << >> \/ Len(seqs) > 0
  BY <1>2, <1>4
<1>8. \A p : p \in Due /\ p[1] = m <=> \E i \in 1..N : p \in T[i]
  <2>1. ASSUME NEW p \in Due, p[1] = m
        PROVE  \E i \in 1..N : p \in T[i]
    <3>1. p \in (1..Len(RowsOf(join.left))) \X (1..N)
      BY <1>1 DEF Due, Matching
    <3>2. p = <<m, p[2]>> /\ p[2] \in 1..N
      BY <2>1, <3>1
    <3> QED
      BY <1>3, <3>2
  <2>2. ASSUME NEW i \in 1..N, NEW p \in T[i]
        PROVE  p \in Due /\ p[1] = m
    BY <1>3
  <2> QED
    BY <2>1, <2>2
<1>9. RowLines(m) = FlattenSeq(seqs)
  BY <1>1, <1>2 DEF RowLines
<1>10. PICK of : of = Lines
  OBVIOUS
<1>11. PICK W : W = {p \in Due : p[1] = m}
  OBVIOUS
<1>12. \A i \in 1..N : Lists(of, seqs[i], T[i])
  BY <1>5, <1>10
<1>13. (seqs = << >> \/ N > 0) /\ \A p : p \in W <=> \E i \in 1..N : p \in T[i]
  BY <1>4, <1>7, <1>8, <1>11
<1>14. InRow(of, seqs, N, T, W)
  BY <1>4, <1>6, <1>12, <1>13, Zenon DEF InRow
<1>15. Lists(of, FlattenSeq(seqs), W)
  BY <1>14, ListsAll, Zenon
<1> QED
  BY <1>9, <1>10, <1>11, <1>15

LEMMA LinesOfPass ==
  ASSUME lefts = RowsOf(join.left), Len(RowsOf(join.right)) \in Nat, Len(lefts) \in Nat
  PROVE  Lists(Lines, AllLines, Due)
<1>1. PICK N \in Nat : N = Len(lefts)
  OBVIOUS
<1>2. PICK seqs : seqs = [m \in 1..N |-> RowLines(m)]
  OBVIOUS
<1>3. PICK T : T = [m \in 1..N |-> {p \in Due : p[1] = m}]
  OBVIOUS
<1>4. Len(seqs) = N
  BY <1>2
<1>5. \A i \in 1..N : Lists(Lines, seqs[i], T[i])
  BY <1>1, <1>2, <1>3, LinesOfRow
<1>6. \A i, j \in 1..N : i < j => \A p \in T[i], q \in T[j] : PairBefore(p, q)
  BY <1>3 DEF PairBefore
<1>7. seqs = << >> \/ Len(seqs) > 0
  BY <1>2, <1>4
<1>8. \A p : p \in Due <=> \E i \in 1..N : p \in T[i]
  <2>1. ASSUME NEW p \in Due
        PROVE  \E i \in 1..N : p \in T[i]
    <3>1. p[1] \in 1..N
      BY <1>1 DEF Due, Matching
    <3> QED
      BY <1>3, <3>1
  <2>2. ASSUME NEW i \in 1..N, NEW p \in T[i]
        PROVE  p \in Due
    BY <1>3
  <2> QED
    BY <2>1, <2>2
<1>9. AllLines = FlattenSeq(seqs)
  BY <1>1, <1>2 DEF AllLines
<1>10. PICK of : of = Lines
  OBVIOUS
<1>11. PICK W : W = Due
  OBVIOUS
<1>12. \A i \in 1..N : Lists(of, seqs[i], T[i])
  BY <1>5, <1>10
<1>13. (seqs = << >> \/ N > 0) /\ \A p : p \in W <=> \E i \in 1..N : p \in T[i]
  BY <1>4, <1>7, <1>8, <1>11
<1>14. InRow(of, seqs, N, T, W)
  BY <1>4, <1>6, <1>12, <1>13, Zenon DEF InRow
<1>15. Lists(of, FlattenSeq(seqs), W)
  BY <1>14, ListsAll, Zenon
<1> QED
  BY <1>9, <1>10, <1>11, <1>15

(* A step of a join that starts, goes on or ends.                            *)
LEMMA JoinStaysPut ==
  ASSUME UNCHANGED <<rows, others, indexed, parts, join, lefts>>
  PROVE  /\ Matching' = Matching /\ Lines' = Lines
         /\ IsJoinSelect(parts)' = IsJoinSelect(parts) /\ JoinOf(parts)' = JoinOf(parts)
         /\ RowsOf(join.left)' = RowsOf(join.left)
BY MatchingStays DEF RowsOf, IsJoinSelect, JoinOf, HasIndex

LEMMA JoinGoesOn ==
  ASSUME JoinInv, phase = "join", UNCHANGED <<selectOnly, joinInput, parts, join, lefts>>,
         Works \/ Fails, phase' \in {"join", "joined", "refused"},
         queue' \in Seq(1..Len(rows)), pass' \in 1..2, l' \in 1..Len(lefts) + 1,
         NEW T \in SUBSET Matching, Lists(Lines, printed', T), Complete(T)',
         phase' = "join" => IF join.index THEN QueueAscends' ELSE queue' = << >>
  PROVE  JoinInv'
<1>1. UNCHANGED <<rows, others, indexed, parts, join, lefts>>
  BY DEF selectOnly, joinInput, input
<1>2. join # None /\ Joins
  BY DEF JoinInv
<1>3. faults \in 0..MaxFaults
  BY DEF JoinInv, FoundInv, Typed
<1>4. faults' \in 0..MaxFaults /\ (faults' = 0 => faults = 0)
  BY <1>3, FaultsBounded
<1>5. FoundInv' /\ GroupsInv'
  BY <1>4, JoinStepAlone DEF JoinInv
<1>6. (\E S : others \in Seq(S))'
  BY <1>1 DEF JoinInv
<1>7. (\E U \in SUBSET Matching : Lists(Lines, printed, U) /\ Complete(U))'
  <2>1. Lists(Lines, printed, T)'
    <3>1. Lines' = Lines
      BY <1>1, JoinStaysPut
    <3>2. Lists(Lines', printed', T)
      BY <3>1
    <3> QED
      BY <3>2 DEF Lists, PairBefore
  <2>2. T \in SUBSET Matching'
    BY <1>1, JoinStaysPut
  <2> QED
    BY <2>1, <2>2
<1>8. Joins'
  <2>1. (lefts \in {<< >>, RowsOf(join.left)} /\ (faults = 0 => lefts = RowsOf(join.left)))'
    BY <1>1, <1>2, <1>4, JoinStaysPut DEF Joins
  <2>2. (IsJoinSelect(parts) /\ join = JoinOf(parts))'
    BY <1>1, <1>2, JoinStaysPut DEF Joins
  <2>3. (pass \in 1..2 /\ l \in 1..Len(lefts) + 1)'
    BY <1>1
  <2>4. (phase = "join" => IF join.index THEN QueueAscends ELSE queue = << >>)'
    BY <1>1
  <2> QED
    BY <1>7, <2>1, <2>2, <2>3, <2>4, Zenon DEF Joins
<1> QED
  BY <1>1, <1>2, <1>5, <1>6, <1>8 DEF JoinInv

(* What a join in its passes has.                                            *)
LEMMA JoinHas ==
  ASSUME JoinInv, phase = "join"
  PROVE  /\ Joins /\ join # None
         /\ Len(rows) \in Nat /\ Len(lefts) \in Nat /\ Len(RowsOf(join.right)) \in Nat
         /\ l \in 1..Len(lefts) + 1 /\ pass \in 1..2
         /\ queue \in Seq(1..Len(rows)) /\ faults \in 0..MaxFaults
         /\ (faults = 0 \/ lefts # << >>) => lefts = RowsOf(join.left)
         /\ join.index \in BOOLEAN
         /\ join.index => RowsOf(join.right) = rows
<1>1. Joins /\ join # None
  BY DEF JoinInv
<1>2. PICK S : rows \in Seq(S)
  BY DEF JoinInv, FoundInv, Typed
<1>3. PICK U : others \in Seq(U)
  BY DEF JoinInv
<1>4. \A name : RowsOf(name) \in {rows, others}
  BY DEF RowsOf
<1>5. lefts \in {<< >>, rows, others}
  BY <1>1, <1>4 DEF Joins
<1>6. Len(rows) \in Nat /\ Len(lefts) \in Nat /\ Len(RowsOf(join.right)) \in Nat
  BY <1>2, <1>3, <1>4, <1>5
<1>7. join.index \in BOOLEAN /\ (join.index => join.right = Table)
  BY <1>1 DEF Joins, JoinOf, HasIndex
<1>8. join.index => RowsOf(join.right) = rows
  BY <1>7 DEF RowsOf
<1>9. /\ l \in 1..Len(lefts) + 1 /\ pass \in 1..2
      /\ (faults = 0 \/ lefts # << >>) => lefts = RowsOf(join.left)
  BY <1>1 DEF Joins
<1>10. queue \in Seq(1..Len(rows)) /\ faults \in 0..MaxFaults
  BY DEF JoinInv, FoundInv, Typed
<1> QED
  BY <1>1, <1>6, <1>7, <1>8, <1>9, <1>10

LEMMA NestedLoopKeeps ==
  ASSUME JoinInv, NestedLoop
  PROVE  JoinInv'
<1>1. /\ phase = "join" /\ ~join.index
      /\ UNCHANGED <<selectOnly, joinInput, parts, join, lefts>> /\ queue' = queue
  BY DEF NestedLoop
<1>2. PICK T \in SUBSET Matching : Lists(Lines, printed, T) /\ Complete(T)
  BY <1>1, JoinHas DEF Joins
<1>3. T = {}
  BY <1>1, <1>2 DEF Complete
<1>4. queue = << >>
  BY <1>1, JoinHas DEF Joins
<1>5. pass' \in 1..2 /\ l' \in 1..Len(lefts) + 1
  <2>1. 1 \in 1..Len(lefts) + 1 /\ 1 \in 1..2 /\ 2 \in 1..2
    BY <1>1, JoinHas
  <2>2. l \in 1..Len(lefts) + 1 /\ pass \in 1..2
    BY <1>1, JoinHas
  <2> QED
    BY <2>1, <2>2 DEF NestedLoop, EndPass
<1>6. queue' \in Seq(1..Len(rows)) /\ queue' = << >>
  BY <1>1, <1>4, JoinHas
<1>7. (Works \/ Fails) /\ phase' \in {"join", "joined", "refused"}
  BY DEF NestedLoop, EndPass
<1>8. faults \in 0..MaxFaults /\ ~join'.index
  BY <1>1, JoinHas
<1>9. CASE Fails /\ UNCHANGED printed
  <2>1. faults' # 0
    BY <1>8, <1>9, FaultsBounded
  <2>2. Complete({})'
    BY <1>8, <2>1 DEF Complete
  <2>3. Lists(Lines, printed', {})
    BY <1>2, <1>3, <1>9
  <2> QED
    BY <1>1, <1>5, <1>6, <1>7, <2>2, <2>3, JoinGoesOn
<1>10. CASE Works /\ printed' = printed \o AllLines /\ EndPass
  <2>1. CASE lefts = RowsOf(join.left)
    <3>1. Lists(Lines, AllLines, Due)
      BY <1>1, <2>1, JoinHas, LinesOfPass
    <3>2. Lists(Lines, printed \o AllLines, {} \cup Due)
      <4>1. \A p \in {}, q \in Due : PairBefore(p, q)
        OBVIOUS
      <4> QED
        BY <1>2, <1>3, <3>1, <4>1, ListsBoth
    <3>3. {} \cup Due = Due
      OBVIOUS
    <3>4. Lists(Lines, printed', Due)
      BY <1>10, <3>2, <3>3
    <3>5. PICK D : D = Due
      OBVIOUS
    <3>6. Matching' = Matching
      BY <1>1, JoinStaysPut DEF selectOnly, joinInput, input
    <3>7. Complete(D)'
      <4>1. pass \in 1..2
        BY <1>1, JoinHas
      <4> QED
        BY <1>8, <1>10, <3>5, <3>6, <4>1 DEF Complete, EndPass, Due
    <3>8. D \in SUBSET Matching /\ Lists(Lines, printed', D)
      BY <3>4, <3>5 DEF Due
    <3> QED
      BY <1>1, <1>5, <1>6, <1>7, <3>7, <3>8, JoinGoesOn
  <2>2. CASE lefts # RowsOf(join.left)
    <3>1. lefts = << >> /\ faults # 0
      BY <1>1, <2>2, JoinHas
    <3>2. AllLines = << >>
      <4>1. Len(lefts) = 0
        BY <3>1, EmptyHasNone
      <4>2. [m \in 1..0 |-> RowLines(m)] = << >>
        OBVIOUS
      <4>3. FlattenSeq(<< >>) = << >>
        BY DEF FlattenSeq
      <4> QED
        BY <4>1, <4>2, <4>3 DEF AllLines
    <3>3. Lists(Lines, printed', {})
      <4>1. printed \o << >> = printed
        <5>1. PICK S : printed \in Seq(S)
          BY <1>2 DEF Lists
        <5> QED
          BY <5>1
      <4> QED
        BY <1>2, <1>3, <1>10, <3>2, <4>1
    <3>4. faults' # 0
      BY <1>10, <3>1 DEF Works
    <3>5. Complete({})'
      BY <1>8, <3>4 DEF Complete
    <3> QED
      BY <1>1, <1>5, <1>6, <1>7, <3>3, <3>5, JoinGoesOn
  <2> QED
    BY <2>1, <2>2
<1> QED
  BY <1>9, <1>10 DEF NestedLoop, AllLines, RowLines

LEMMA LookupKeeps ==
  ASSUME JoinInv, Lookup
  PROVE  JoinInv'
<1>1. /\ phase = "join" /\ join.index /\ queue = << >> /\ l <= Len(lefts)
      /\ UNCHANGED <<selectOnly, joinInput, parts, join, lefts>>
      /\ printed' = printed /\ pass' = pass
  BY DEF Lookup
<1>2. /\ Len(rows) \in Nat /\ Len(lefts) \in Nat
      /\ l \in 1..Len(lefts) + 1 /\ l + 1 \in 1..Len(lefts) + 1 /\ pass \in 1..2
      /\ faults \in 0..MaxFaults /\ lefts = RowsOf(join.left) /\ RowsOf(join.right) = rows
  <2>1. l \in 1..Len(lefts) + 1 /\ Len(lefts) \in Nat
    BY <1>1, JoinHas
  <2>2. lefts # << >>
    BY <1>1, <2>1, EmptyHasNone
  <2> QED
    BY <1>1, <2>1, <2>2, JoinHas
<1>3. PICK T \in SUBSET Matching : Lists(Lines, printed, T) /\ Complete(T)
  BY <1>1, JoinHas DEF Joins
<1>4. Matching' = Matching /\ join' = join /\ rows' = rows /\ lefts' = lefts
  BY <1>1, JoinStaysPut DEF selectOnly, joinInput, input
<1>5. ASSUME NEW p \in Matching
      PROVE  /\ p[1] \in 1..Len(lefts) /\ p[2] \in 1..Len(rows) /\ p = <<p[1], p[2]>>
             /\ lefts[p[1]][join.lcol] = rows[p[2]][join.rcol]
  BY <1>2 DEF Matching, IsPair
<1>6. ASSUME NEW p \in Matching
      PROVE  Reached(p) <=> p[1] < l
  <2>1. p[1] \in Nat /\ l \in Nat
    BY <1>2, <1>5
  <2>2. \A j \in 1..0 : FALSE
    OBVIOUS
  <2>3. Reached(p) <=> p[1] < l - 1 \/ p[1] = l - 1
    BY <1>1, <2>2, EmptyHasNone DEF Reached
  <2> QED
    BY <2>1, <2>3
<1>7. (Works \/ Fails) /\ phase' \in {"join", "refused"}
  BY <1>1 DEF Lookup
<1>8. Lists(Lines, printed', T)
  BY <1>1, <1>3
<1>9. CASE Works /\ queue' \in IndexOrders(join.rcol) /\ l' = l + 1 /\ UNCHANGED phase
  <2>1. /\ queue' \in Seq(1..Len(rows)) /\ Len(queue') = Len(rows)
        /\ \A n \in 1..Len(rows) : \E j \in 1..Len(rows) : queue'[j] = n
        /\ \A j, k \in 1..Len(rows) :
             j < k /\ rows[queue'[j]][join.rcol] = rows[queue'[k]][join.rcol] => queue'[j] < queue'[k]
    <3>1. PICK q \in IndexOrders(join.rcol) : q = queue'
      BY <1>9
    <3>2. PICK col : col = join.rcol
      OBVIOUS
    <3>3. q \in IndexOrders(col) /\ Len(rows) \in Nat
      BY <1>2, <3>2
    <3>4. /\ q \in Seq(1..Len(rows)) /\ Len(q) = Len(rows)
          /\ \A n \in 1..Len(rows) : \E j \in 1..Len(rows) : q[j] = n
          /\ \A j, k \in 1..Len(rows) : j < k /\ rows[q[j]][col] = rows[q[k]][col] => q[j] < q[k]
      BY <3>3, IndexOrderIs
    <3> QED
      BY <3>1, <3>2, <3>4
  <2>2. (l - 1)' = l
    BY <1>2, <1>9
  <2>3. ASSUME NEW p \in Matching
        PROVE  Reached(p)' <=> p[1] < l
    <3>1. \E j \in 1..Len(queue') : queue'[j] = p[2]
      BY <1>5, <2>1
    <3> QED
      BY <2>2, <3>1 DEF Reached
  <2>4. Complete(T)'
    <3>1. phase' = "join" /\ faults' = faults
      BY <1>1, <1>9 DEF Works
    <3>2. CASE pass = 1
      BY <1>1, <1>3, <3>1, <3>2 DEF Complete
    <3>3. CASE pass # 1
      <4>1. /\ \A p \in T : Reached(p)
            /\ faults = 0 => \A p \in Matching : Reached(p) => p \in T
        BY <1>1, <1>3, <3>3 DEF Complete
      <4>2. /\ \A p \in T : Reached(p)'
            /\ faults' = 0 => \A p \in Matching' : Reached(p)' => p \in T
        BY <1>4, <1>6, <2>3, <3>1, <4>1
      <4> QED
        BY <1>1, <1>4, <3>1, <3>3, <4>2 DEF Complete
    <3> QED
      BY <3>2, <3>3
  <2>5. QueueAscends'
    <3>0. PICK L \in Nat : L = l
      BY <1>2
    <3>1. \A n : Here(n)' = <<L, n>>
      BY <2>2, <3>0 DEF Here
    <3>2. \A n : <<L, n>> \in Matching => ~Reached(<<L, n>>)'
      <4>1. ASSUME NEW n, <<L, n>> \in Matching
            PROVE  ~Reached(<<L, n>>)'
        <5>1. PICK p \in Matching : p = <<L, n>>
          BY <4>1
        <5>2. ~Reached(p)'
          BY <2>3, <3>0, <5>1
        <5> QED
          BY <5>1, <5>2
      <4> QED
        BY <4>1
    <3>3. ASSUME NEW j \in 1..Len(queue'), NEW k \in 1..Len(queue'), j < k,
                 <<L, queue'[j]>> \in Matching, <<L, queue'[k]>> \in Matching
          PROVE  queue'[j] < queue'[k]
      <4>1. rows[queue'[j]][join.rcol] = rows[queue'[k]][join.rcol]
        BY <1>5, <3>3
      <4> QED
        BY <2>1, <3>3, <4>1
    <3>4. l' > 1
      BY <1>2, <1>9
    <3>5. /\ \A j, k \in 1..Len(queue') :
               j < k /\ Here(queue[j])' \in Matching' /\ Here(queue[k])' \in Matching' => queue'[j] < queue'[k]
          /\ \A j \in 1..Len(queue'), n \in 1..Len(rows') :
               Here(n)' \in Matching' /\ Reached(Here(n))' /\ Here(queue[j])' \in Matching' => n < queue'[j]
      <4>1. \A n : Reached(Here(n))' <=> Reached(<<L, n>>)'
        BY <2>2, <3>0 DEF Reached, Here
      <4>2. \A j : Here(queue[j])' = <<L, queue'[j]>>
        BY <2>2, <3>0 DEF Here
      <4> QED
        BY <1>4, <3>1, <3>2, <3>3, <4>1, <4>2
    <3> QED
      BY <3>4, <3>5 DEF QueueAscends
  <2> QED
    BY <1>1, <1>2, <1>4, <1>7, <1>8, <1>9, <2>1, <2>4, <2>5, JoinGoesOn
<1>10. CASE Fails /\ UNCHANGED queue
  <2>1. faults' # 0 /\ queue' = << >> /\ Len(queue') = 0
    BY <1>1, <1>2, <1>10, FaultsBounded, EmptyHasNone
  <2>2. \A j \in 1..0 : FALSE
    OBVIOUS
  <2>3. QueueAscends'
    BY <2>1, <2>2 DEF QueueAscends
  <2>4. l' \in {l, l + 1}
    BY <1>10 DEF Lookup
  <2>5. \A p \in Matching : Reached(p) => Reached(p)'
    <3>1. ASSUME NEW p \in Matching, p[1] < l
          PROVE  Reached(p)'
      <4>1. p[1] < l' - 1 \/ p[1] = l' - 1
        BY <1>2, <1>5, <2>4, <3>1
      <4> QED
        BY <2>1, <2>2, <4>1 DEF Reached
    <3> QED
      BY <1>6, <3>1
  <2>6. Complete(T)'
    <3>1. phase' # "joined"
      BY <1>7
    <3>2. pass' = 1 => T = {}
      BY <1>1, <1>3 DEF Complete
    <3>3. pass' # 1 => \A p \in T : Reached(p)'
      BY <1>1, <1>3, <2>5 DEF Complete
    <3> QED
      BY <1>1, <1>4, <2>1, <3>1, <3>2, <3>3 DEF Complete
  <2>7. queue' \in Seq(1..Len(rows)) /\ l' \in 1..Len(lefts) + 1
    BY <1>2, <2>1, <2>4
  <2> QED
    BY <1>1, <1>2, <1>7, <1>8, <2>3, <2>6, <2>7, JoinGoesOn
<1> QED
  BY <1>9, <1>10 DEF Lookup

(* What the queue and the pairs reached are once its head is taken.          *)
LEMMA HeadTaken ==
  ASSUME JoinInv, phase = "join", join.index, queue # << >>, queue' = Tail(queue),
         UNCHANGED <<rows, others, indexed, parts, join, lefts, l>>,
         NEW L, L = l - 1, NEW h, h = Head(queue)
  PROVE  /\ L \in 1..Len(lefts) /\ h \in 1..Len(rows)
         /\ queue' \in Seq(1..Len(rows)) /\ QueueAscends'
         /\ \A p \in Matching : Reached(p)' <=> Reached(p) \/ p = <<L, h>>
         /\ \A p \in Matching : Reached(p) /\ <<L, h>> \in Matching => PairBefore(p, <<L, h>>)
<1>1. /\ QueueAscends /\ Len(rows) \in Nat /\ Len(lefts) \in Nat /\ l \in 1..Len(lefts) + 1
      /\ queue \in Seq(1..Len(rows)) /\ RowsOf(join.right) = rows
  BY JoinHas DEF Joins
<1>2. PICK N \in Nat : N = Len(queue)
  BY <1>1
<1>3. /\ N > 0 /\ queue[1] = h /\ h \in 1..Len(rows) /\ 1 \in 1..N
      /\ queue' \in Seq(1..Len(rows)) /\ Len(queue') = N - 1
      /\ \A j \in 1..N - 1 : queue'[j] = queue[j + 1] /\ j + 1 \in 1..N /\ 1 < j + 1
      /\ \A j \in 1..N : j = 1 \/ (j - 1 \in 1..N - 1 /\ queue'[j - 1] = queue[j])
  BY <1>1, <1>2
<1>4. l > 1 /\ L \in 1..Len(lefts) /\ L \in Nat
  BY <1>1 DEF QueueAscends
<1>5. /\ \A j, k \in 1..N :
           j < k /\ <<L, queue[j]>> \in Matching /\ <<L, queue[k]>> \in Matching => queue[j] < queue[k]
      /\ \A j \in 1..N, n \in 1..Len(rows) :
           <<L, n>> \in Matching /\ Reached(<<L, n>>) /\ <<L, queue[j]>> \in Matching => n < queue[j]
  BY <1>1, <1>2 DEF QueueAscends, Here
<1>6. ASSUME NEW p \in Matching
      PROVE  p[1] \in Nat /\ p[2] \in 1..Len(rows) /\ p = <<p[1], p[2]>>
  BY <1>1 DEF Matching
<1>7. /\ \A p : Reached(p) <=> p[1] < L \/ (p[1] = L /\ \A j \in 1..N : queue[j] # p[2])
      /\ \A p : Reached(p)' <=> p[1] < L \/ (p[1] = L /\ \A j \in 1..N - 1 : queue'[j] # p[2])
  BY <1>2, <1>3 DEF Reached
<1>8. Matching' = Matching
  BY JoinStaysPut
<1>9. ASSUME NEW j \in 2..N, <<L, h>> \in Matching, <<L, queue[j]>> \in Matching
      PROVE  h < queue[j]
  <2>1. 1 \in 1..N /\ j \in 1..N /\ 1 < j
    BY <1>3
  <2> QED
    BY <1>3, <1>5, <1>9, <2>1
<1>10. ASSUME NEW p \in Matching
       PROVE  Reached(p)' <=> Reached(p) \/ p = <<L, h>>
  <2>1. CASE p[1] = L
    <3>1. p = <<L, p[2]>>
      BY <1>6, <2>1
    <3>2. CASE p[2] = h
      <4>1. \A j \in 1..N - 1 : queue'[j] # h
        <5>1. ASSUME NEW j \in 1..N - 1, queue'[j] = h
              PROVE  FALSE
          <6>1. j + 1 \in 2..N /\ queue[j + 1] = h
            BY <1>2, <1>3, <5>1
          <6>2. <<L, h>> \in Matching
            BY <3>1, <3>2
          <6>3. h < queue[j + 1]
            BY <1>9, <6>1, <6>2
          <6> QED
            BY <1>1, <1>3, <6>1, <6>3
        <5> QED
          BY <5>1
      <4> QED
        BY <1>7, <2>1, <3>1, <3>2, <4>1
    <3>3. CASE p[2] # h
      <4>1. (\A j \in 1..N - 1 : queue'[j] # p[2]) <=> (\A j \in 1..N : queue[j] # p[2])
        <5>1. ASSUME \A j \in 1..N - 1 : queue'[j] # p[2], NEW j \in 1..N, queue[j] = p[2]
              PROVE  FALSE
          <6>1. j # 1 /\ j - 1 \in 1..N - 1 /\ queue'[j - 1] = queue[j]
            BY <1>3, <3>3, <5>1
          <6> QED
            BY <5>1, <6>1
        <5>2. ASSUME \A j \in 1..N : queue[j] # p[2], NEW j \in 1..N - 1, queue'[j] = p[2]
              PROVE  FALSE
          <6>1. j + 1 \in 1..N /\ queue'[j] = queue[j + 1]
            BY <1>3
          <6> QED
            BY <5>2, <6>1
        <5> QED
          BY <5>1, <5>2
      <4>2. p # <<L, h>>
        BY <3>3
      <4> QED
        BY <1>7, <2>1, <4>1, <4>2
    <3> QED
      BY <3>2, <3>3
  <2>2. CASE p[1] # L
    <3>1. p # <<L, h>>
      BY <2>2
    <3> QED
      BY <1>7, <2>2, <3>1
  <2> QED
    BY <2>1, <2>2
<1>11. ASSUME NEW p \in Matching, Reached(p), <<L, h>> \in Matching
       PROVE  PairBefore(p, <<L, h>>)
  <2>1. CASE p[1] < L
    BY <2>1 DEF PairBefore
  <2>2. CASE p[1] = L
    <3>1. p = <<L, p[2]>> /\ p[2] \in 1..Len(rows)
      BY <1>6, <2>2
    <3>2. p[2] < queue[1]
      BY <1>3, <1>5, <1>11, <3>1
    <3> QED
      BY <1>3, <2>2, <3>2 DEF PairBefore
  <2> QED
    BY <1>7, <1>11, <2>1, <2>2
<1>12. QueueAscends'
  <2>1. /\ \A n : Here(n)' = <<L, n>>
        /\ \A j : Here(queue[j])' = <<L, queue'[j]>>
        /\ \A n : Reached(Here(n))' <=> Reached(<<L, n>>)'
    BY DEF Here, Reached
  <2>2. ASSUME NEW j \in 1..N - 1, NEW k \in 1..N - 1, j < k,
               <<L, queue'[j]>> \in Matching, <<L, queue'[k]>> \in Matching
        PROVE  queue'[j] < queue'[k]
    <3>1. j + 1 \in 1..N /\ k + 1 \in 1..N /\ j + 1 < k + 1
      BY <1>3, <2>2
    <3>2. queue'[j] = queue[j + 1] /\ queue'[k] = queue[k + 1]
      BY <1>3
    <3> QED
      BY <1>5, <2>2, <3>1, <3>2
  <2>3. ASSUME NEW j \in 1..N - 1, NEW n \in 1..Len(rows),
               <<L, n>> \in Matching, Reached(<<L, n>>)', <<L, queue'[j]>> \in Matching
        PROVE  n < queue'[j]
    <3>1. j + 1 \in 2..N /\ j + 1 \in 1..N /\ queue'[j] = queue[j + 1]
      BY <1>3
    <3>2. PICK p \in Matching : p = <<L, n>>
      BY <2>3
    <3>3. Reached(p)'
      BY <2>3, <3>2
    <3>4. Reached(p) \/ p = <<L, h>>
      BY <1>10, <3>3
    <3>5. CASE Reached(p)
      <4>1. Reached(<<L, n>>)
        BY <3>2, <3>5
      <4> QED
        BY <1>5, <2>3, <3>1, <4>1
    <3>6. CASE p = <<L, h>>
      <4>1. n = h
        BY <3>2, <3>6
      <4> QED
        BY <1>9, <2>3, <3>1, <4>1
    <3> QED
      BY <3>4, <3>5, <3>6
  <2>4. queue' # << >> => l' > 1
    BY <1>4
  <2> QED
    BY <1>3, <1>8, <2>1, <2>2, <2>3, <2>4 DEF QueueAscends
<1> QED
  BY <1>3, <1>4, <1>10, <1>11, <1>12

LEMMA FetchPairKeeps ==
  ASSUME JoinInv, FetchPair
  PROVE  JoinInv'
<1>1. /\ phase = "join" /\ phase' = "join" /\ queue # << >> /\ queue' = Tail(queue)
      /\ UNCHANGED <<selectOnly, joinInput, parts, join, lefts, l, pass>>
  BY DEF FetchPair
<1>2. UNCHANGED <<rows, others, indexed, parts, join, lefts, l>>
  BY <1>1 DEF selectOnly, joinInput, input
<1>3. /\ join.index /\ pass \in 1..2 /\ l \in 1..Len(lefts) + 1 /\ faults \in 0..MaxFaults
      /\ RowsOf(join.right) = rows /\ Len(lefts) \in Nat
      /\ lefts # << >> => lefts = RowsOf(join.left)
  BY <1>1, JoinHas DEF Joins
<1>4. PICK L : L = l - 1
  OBVIOUS
<1>5. PICK h : h = Head(queue)
  OBVIOUS
<1>6. /\ L \in 1..Len(lefts) /\ h \in 1..Len(rows)
      /\ queue' \in Seq(1..Len(rows)) /\ QueueAscends'
      /\ \A p \in Matching : Reached(p)' <=> Reached(p) \/ p = <<L, h>>
      /\ \A p \in Matching : Reached(p) /\ <<L, h>> \in Matching => PairBefore(p, <<L, h>>)
  BY <1>1, <1>2, <1>3, <1>4, <1>5, HeadTaken
<1>7. PICK T \in SUBSET Matching : Lists(Lines, printed, T) /\ Complete(T)
  BY <1>1, JoinHas DEF Joins
<1>8. /\ pass = 1 => T = {}
      /\ pass = 2 => /\ \A p \in T : Reached(p)
                     /\ faults = 0 => \A p \in Matching : Reached(p) => p \in T
  BY <1>1, <1>3, <1>7 DEF Complete
<1>9. Matching' = Matching /\ join' = join /\ pass' = pass
  BY <1>1, <1>2, JoinStaysPut
<1>10. Works \/ Fails
  BY DEF FetchPair
<1>11. lefts = RowsOf(join.left)
  <2>1. lefts # << >>
    BY <1>6, EmptyHasNone
  <2> QED
    BY <1>3, <2>1
<1>12. ASSUME NEW U \in SUBSET Matching, Lists(Lines, printed', U),
              pass = 1 => U = {},
              pass = 2 => /\ \A p \in U : Reached(p)'
                          /\ faults' = 0 => \A p \in Matching : Reached(p)' => p \in U
       PROVE  JoinInv'
  <2>1. Complete(U)'
    BY <1>1, <1>3, <1>9, <1>12 DEF Complete
  <2> QED
    BY <1>1, <1>3, <1>6, <1>9, <1>10, <1>12, <2>1, JoinGoesOn
<1>13. CASE Fails /\ UNCHANGED printed
  <2>1. faults' # 0
    BY <1>3, <1>13, FaultsBounded
  <2>2. Lists(Lines, printed', T)
    BY <1>7, <1>13
  <2> QED
    BY <1>6, <1>7, <1>8, <1>12, <2>1, <2>2
<1>14. CASE Works /\ printed' = printed \o PairLines(lefts[l - 1], rows[Head(queue)])
  <2>1. PICK D : D = {<<L, h>>} \cap Due
    OBVIOUS
  <2>2. Lists(Lines, PairLines(lefts[L], rows[h]), D)
    <3>1. h \in 1..Len(RowsOf(join.right))
      BY <1>3, <1>6
    <3>2. Lists(Lines, PairLines(lefts[L], RowsOf(join.right)[h]), {<<L, h>>} \cap Due)
      BY <1>6, <1>11, <3>1, OneLine
    <3> QED
      BY <1>3, <2>1, <3>2
  <2>3. \A p \in T, q \in D : PairBefore(p, q)
    <3> SUFFICES ASSUME NEW p \in T, NEW q \in D
                 PROVE  PairBefore(p, q)
      OBVIOUS
    <3>1. pass = 2 /\ q = <<L, h>> /\ q \in Matching
      BY <2>1 DEF Due
    <3> QED
      BY <1>6, <1>8, <3>1
  <2>4. PICK U : U = T \cup D
    OBVIOUS
  <2>5. Lists(Lines, printed', U)
    <3>1. PICK add : add = PairLines(lefts[L], rows[h])
      OBVIOUS
    <3>2. printed' = printed \o add
      BY <1>4, <1>5, <1>14, <3>1
    <3>3. Lists(Lines, printed \o add, T \cup D)
      BY <1>7, <2>2, <2>3, <3>1, ListsBoth
    <3> QED
      BY <2>4, <3>2, <3>3
  <2>6. U \in SUBSET Matching
    BY <1>7, <2>1, <2>4 DEF Due
  <2>7. pass = 1 => U = {}
    BY <1>8, <2>1, <2>4 DEF Due
  <2>8. ASSUME pass = 2
        PROVE  /\ \A p \in U : Reached(p)'
               /\ faults' = 0 => \A p \in Matching : Reached(p)' => p \in U
    <3>1. ASSUME NEW p \in U
          PROVE  Reached(p)'
      <4>1. p \in Matching /\ (p \in T \/ p = <<L, h>>)
        BY <2>1, <2>4, <2>6, <3>1
      <4> QED
        BY <1>6, <1>8, <2>8, <4>1
    <3>2. ASSUME faults' = 0, NEW p \in Matching, Reached(p)'
          PROVE  p \in U
      <4>1. faults = 0
        BY <1>14, <3>2 DEF Works
      <4>2. CASE Reached(p)
        BY <1>8, <2>4, <2>8, <4>1, <4>2
      <4>3. CASE p = <<L, h>>
        BY <2>1, <2>4, <2>8, <4>3 DEF Due
      <4> QED
        BY <1>6, <3>2, <4>2, <4>3
    <3> QED
      BY <3>1, <3>2
  <2> QED
    BY <1>12, <2>5, <2>6, <2>7, <2>8
<1> QED
  BY <1>13, <1>14 DEF FetchPair

LEMMA EndLookupsKeeps ==
  ASSUME JoinInv, EndLookups
  PROVE  JoinInv'
<1>1. /\ phase = "join" /\ join.index /\ queue = << >> /\ l > Len(lefts)
      /\ pass' = 2 /\ l' = 1 /\ phase' = (IF pass = 1 THEN "join" ELSE "joined")
      /\ faults' = faults /\ queue' = queue /\ printed' = printed
      /\ UNCHANGED <<selectOnly, joinInput, parts, join, lefts>>
  BY DEF EndLookups, EndPass, Works
<1>2. /\ l = Len(lefts) + 1 /\ Len(lefts) \in Nat /\ pass \in 1..2
      /\ queue \in Seq(1..Len(rows)) /\ 1 \in 1..Len(lefts) + 1
      /\ faults = 0 => lefts = RowsOf(join.left)
  BY <1>1, JoinHas
<1>3. PICK T \in SUBSET Matching : Lists(Lines, printed, T) /\ Complete(T)
  BY <1>1, JoinHas DEF Joins
<1>4. Matching' = Matching
  BY <1>1, JoinStaysPut DEF selectOnly, joinInput, input
<1>5. \A p \in Matching : p[1] \in 1..Len(RowsOf(join.left)) /\ p[1] > 0
  BY DEF Matching
<1>6. \A j \in 1..0 : FALSE
  OBVIOUS
<1>7. queue' = << >> /\ Len(queue') = 0
  BY <1>1, EmptyHasNone
<1>8. QueueAscends'
  BY <1>6, <1>7 DEF QueueAscends
<1>9. Complete(T)'
  <2>1. CASE pass = 1
    <3>1. T = {}
      BY <1>1, <1>3, <2>1 DEF Complete
    <3>2. \A p \in Matching : ~Reached(p)'
      BY <1>1, <1>5 DEF Reached
    <3>3. phase' = "join" /\ pass' = 2 /\ join' = join
      BY <1>1, <2>1
    <3> QED
      BY <1>4, <3>1, <3>2, <3>3 DEF Complete
  <2>2. CASE pass # 1
    <3>1. phase' = "joined" /\ join'.index
      BY <1>1, <2>2
    <3>2. ASSUME faults = 0, NEW p \in Matching
          PROVE  p \in T
      <4>1. p[1] < l - 1 \/ p[1] = l - 1
        BY <1>2, <1>5, <3>2
      <4>2. Reached(p)
        BY <1>1, <1>6, <4>1, EmptyHasNone DEF Reached
      <4> QED
        BY <1>1, <1>3, <2>2, <3>2, <4>2 DEF Complete
    <3>3. faults' = 0 => T = Matching'
      BY <1>1, <1>3, <1>4, <3>2
    <3> QED
      BY <3>1, <3>3 DEF Complete
  <2> QED
    BY <2>1, <2>2
<1>10. phase' \in {"join", "joined", "refused"} /\ Works /\ Lists(Lines, printed', T)
       /\ queue' \in Seq(1..Len(rows)) /\ pass' \in 1..2 /\ l' \in 1..Len(lefts) + 1
  BY <1>1, <1>2, <1>3 DEF Works
<1> QED
  BY <1>1, <1>3, <1>8, <1>9, <1>10, JoinGoesOn

(* A SELECT on one table has no join, and a step that changes nothing keeps  *)
(* what there was.                                                           *)
LEMMA NextKeeps ==
  ASSUME JoinInv, Next, UNCHANGED <<joinInput, parts, join, lefts, l, pass>>
  PROVE  JoinInv'
<1>1. FoundInv' /\ GroupsInv'
  BY FoundInvNext, GroupsInvNext DEF JoinInv
<1>2. /\ phase \in {"typed", "cut", "fetch", "rows"}
      /\ phase' \in {"cut", "fetch", "rows", "done", "refused"}
  BY DEF Next, CutClauses, Start, Refuse, Fetch, Fetched, GroupRow, PrintRows
<1>3. join = None /\ join' = join /\ others' = others
  BY <1>2 DEF JoinInv, joinInput
<1>4. (\E S : others \in Seq(S))'
  BY <1>3 DEF JoinInv
<1> QED
  BY <1>1, <1>2, <1>3, <1>4 DEF JoinInv

LEMMA JoinInvSame ==
  ASSUME JoinInv, UNCHANGED joinVars
  PROVE  JoinInv'
<1>1. FoundInv' /\ GroupsInv'
  BY FoundInvNext, GroupsInvNext DEF JoinInv, joinVars
<1>2. /\ UNCHANGED <<others, phase, printed, queue, faults, l, pass, join, lefts, rows, indexed, parts>>
      /\ UNCHANGED vars
  BY DEF joinVars, vars, input, joinInput
<1>3. (\E S : others \in Seq(S))'
  BY <1>2 DEF JoinInv
<1>4. ASSUME Joins
      PROVE  Joins'
  <2>1. PICK T \in SUBSET Matching : Lists(Lines, printed, T) /\ Complete(T)
    BY <1>4 DEF Joins
  <2>2. Matching' = Matching /\ Lines' = Lines
    BY <1>2, JoinStaysPut
  <2>3. (\E U \in SUBSET Matching : Lists(Lines, printed, U) /\ Complete(U))'
    <3>1. Lists(Lines, printed, T)'
      <4>1. Lists(Lines', printed', T)
        BY <1>2, <2>1, <2>2
      <4> QED
        BY <4>1 DEF Lists, PairBefore
    <3>2. Complete(T)'
      BY <1>2, <2>1, <2>2 DEF Complete, Reached
    <3> QED
      BY <2>2, <3>1, <3>2
  <2>4. QueueAscends => QueueAscends'
    BY <1>2, <2>2 DEF QueueAscends, Reached, Here
  <2>5. (/\ IsJoinSelect(parts) /\ join = JoinOf(parts) /\ lefts \in {<< >>, RowsOf(join.left)}
         /\ (faults = 0 => lefts = RowsOf(join.left)))'
    BY <1>2, <1>4, JoinStaysPut DEF Joins
  <2>6. (phase \in {"join", "joined", "refused"} /\ pass \in 1..2 /\ l \in 1..Len(lefts) + 1)'
    BY <1>2, <1>4 DEF Joins
  <2>7. (phase = "join" => IF join.index THEN QueueAscends ELSE queue = << >>)'
    BY <1>2, <1>4, <2>4 DEF Joins
  <2> QED
    BY <2>3, <2>5, <2>6, <2>7 DEF Joins
<1> QED
  BY <1>1, <1>2, <1>3, <1>4 DEF JoinInv

LEMMA JoinInvNext == JoinInv /\ [JoinNext]_joinVars => JoinInv'
BY CutJoinKeeps, JoinStartKeeps, NestedLoopKeeps, LookupKeeps, FetchPairKeeps, EndLookupsKeeps,
   NextKeeps, JoinInvSame DEF JoinNext

LEMMA JoinInvHolds == JoinSpec => []JoinInv
BY JoinInvInit, JoinInvNext, PTL DEF JoinSpec

LEMMA JoinInvPrints == JoinInv => PrintsPart
<1> SUFFICES ASSUME JoinInv, join # None
             PROVE  \E pair \in [1..Len(printed) -> Matching] :
                      /\ \A n \in 1..Len(printed) : printed[n] = PairLine(pair[n])
                      /\ \A m, n \in 1..Len(printed) : m < n => PairBefore(pair[m], pair[n])
                      /\ phase = "joined" /\ (faults = 0 \/ (~join.index /\ printed # << >>))
                         => Range(pair) = Matching
  BY DEF PrintsPart
<1>1. PICK T \in SUBSET Matching : Lists(Lines, printed, T) /\ Complete(T)
  BY DEF JoinInv, Joins
<1>2. PICK S : printed \in Seq(S)
  BY <1>1 DEF Lists
<1>3. PICK pair \in [1..Len(printed) -> T] :
        /\ \A n \in 1..Len(printed) : printed[n] = Lines[pair[n]]
        /\ \A m, n \in 1..Len(printed) : m < n => PairBefore(pair[m], pair[n])
        /\ \A p \in T : \E n \in 1..Len(printed) : pair[n] = p
  BY <1>1 DEF Lists
<1>4. pair \in [1..Len(printed) -> Matching]
  BY <1>3
<1>5. \A n \in 1..Len(printed) : printed[n] = PairLine(pair[n])
  BY <1>3, <1>4 DEF Lines
<1>6. Range(pair) = T
  BY <1>3 DEF Range
<1>7. printed # << >> => T # {}
  <2>1. printed # << >> => 1 \in 1..Len(printed)
    BY <1>2
  <2> QED
    BY <1>3, <2>1
<1>8. phase = "joined" /\ (faults = 0 \/ (~join.index /\ printed # << >>)) => Range(pair) = Matching
  BY <1>1, <1>6, <1>7 DEF Complete
<1> QED
  BY <1>3, <1>4, <1>5, <1>8
-----------------------------------------------------------------------------
(* Whatever fails and however a join ends, it has printed lines of pairs     *)
(* that match, each pair once and in order, through an index as well as by   *)
(* nested loops, and all of them when nothing failed (cmd_select_join).      *)
THEOREM JoinPrints == JoinSpec => []PrintsPart
BY JoinInvHolds, JoinInvPrints, PTL

(* With joins beside it, SELECT on one table keeps its promises (cmd_select, *)
(* which hands a text with JOIN to cmd_select_join).                         *)
THEOREM SelectBesideJoin == JoinSpec => [](TypeOK /\ FoundInOrder /\ GroupsPartition /\ ExplainAgrees)
<1>1. JoinInv => TypeOK /\ FoundInOrder /\ GroupsPartition /\ ExplainAgrees
  BY FoundInvTypes, FoundInvFinds, FoundInvExplains, GroupsInvMeans DEF JoinInv
<1> QED
  BY <1>1, JoinInvHolds, PTL

(* What EXPLAIN and SELECT take for the condition is the same text in a join *)
(* without WHERE.                                                            *)
SameCondition == ~parts.filtered => parts.on = parts.tail
Unfiltered == join # None /\ ~parts.filtered
PartsInv == JoinInv /\ (phase = "cut join" \/ join # None => SameCondition)

LEMMA PartsInvNext == PartsInv /\ [JoinNext]_joinVars => PartsInv'
<1> SUFFICES ASSUME PartsInv, [JoinNext]_joinVars
             PROVE  PartsInv'
  OBVIOUS
<1>1. JoinInv /\ JoinInv'
  BY JoinInvNext DEF PartsInv
<1>2. CASE CutJoin
  BY <1>1, <1>2 DEF PartsInv, SameCondition, CutJoin, CutAtJoin, CutAtOn, CutAtWhere, PartsOf
<1>3. ASSUME UNCHANGED parts, phase' = "cut join" \/ join' # None => phase = "cut join" \/ join # None
      PROVE  PartsInv'
  BY <1>1, <1>3 DEF PartsInv, SameCondition
<1>4. CASE JoinStart
  BY <1>3, <1>4 DEF JoinStart
<1>5. CASE NestedLoop \/ Lookup \/ FetchPair \/ EndLookups
  <2>1. UNCHANGED <<parts, join>> /\ phase' # "cut join"
    BY <1>5 DEF NestedLoop, Lookup, FetchPair, EndLookups, EndPass
  <2> QED
    BY <1>3, <2>1
<1>6. CASE Next /\ UNCHANGED <<joinInput, parts, join, lefts, l, pass>>
  <2>1. phase' # "cut join"
    BY <1>6 DEF Next, CutClauses, Start, Refuse, Fetch, Fetched, GroupRow, PrintRows
  <2> QED
    BY <1>3, <1>6, <2>1
<1>7. CASE UNCHANGED joinVars
  <2>1. UNCHANGED <<parts, join, phase>>
    BY <1>7 DEF joinVars, vars
  <2> QED
    BY <1>3, <2>1
<1> QED
  BY <1>2, <1>4, <1>5, <1>6, <1>7 DEF JoinNext

(* EXPLAIN names the way a join without WHERE goes, for any text and any     *)
(* indexes (explain_select_join, cmd_select_join).                           *)
THEOREM JoinExplains ==
  JoinSpec => [](Unfiltered => ExplainJoin(parts) = IF join.index THEN "index" ELSE "scan")
<1>1. JoinInit => PartsInv
  <2>1. JoinInit => phase = "typed" /\ join = None
    BY DEF JoinInit, Init
  <2> QED
    BY <2>1, JoinInvInit DEF PartsInv
<1>2. PartsInv => (Unfiltered => ExplainJoin(parts) = IF join.index THEN "index" ELSE "scan")
  <2> SUFFICES ASSUME PartsInv, Unfiltered
               PROVE  ExplainJoin(parts) = IF join.index THEN "index" ELSE "scan"
    OBVIOUS
  <2>1. IsJoinSelect(parts) /\ join = JoinOf(parts) /\ parts.on = parts.tail
    BY DEF PartsInv, JoinInv, Joins, SameCondition, Unfiltered
  <2>2. Explainable(parts)
    BY <2>1 DEF IsJoinSelect, Explainable
  <2>3. join.index = HasIndex(parts.right, On(parts.tail, 2).col)
    BY <2>1 DEF JoinOf
  <2> QED
    BY <2>2, <2>3 DEF ExplainJoin
<1> QED
  BY <1>1, <1>2, PartsInvNext, PTL DEF JoinSpec
=============================================================================
