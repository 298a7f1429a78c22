------------------------- MODULE CullPromote_proofs -------------------------
(***************************************************************************)
(* Proofs about cull and promote: what their passes over lists compute,    *)
(* and what is in the rows, the checkpoint and memory while they run.      *)
(***************************************************************************)
EXTENDS MatterPromote, MatterDedupe_proofs

-----------------------------------------------------------------------------
(* The order of a review set. *)

LEMMA ItemNumbers ==
    /\ NE \in Nat /\ NI \in Nat /\ NE <= NI
    /\ \A i : i \in Items <=> i \in Nat /\ 1 <= i /\ i <= NI
    /\ \A i \in Items : /\ FamilyKey(i) \in Nat /\ ParentOf[i] \in Nat /\ ParentOf[i] < i
                        /\ ParentOf[i] = 0 <=> i \in Emails
                        /\ ParentOf[i] # 0 => ParentOf[i] \in Items
    /\ Emails \subseteq Items
<1>1. NE \in Nat /\ NI \in Nat /\ NE <= NI /\ \A i : i \in Items <=> i \in Nat /\ 1 <= i /\ i <= NI
    BY ItemsAssumptions DEF Items
<1>2. ASSUME NEW i \in Items
      PROVE  /\ ParentOf[i] \in Nat /\ ParentOf[i] < i
             /\ ParentOf[i] = 0 <=> i \in Emails
             /\ ParentOf[i] # 0 => ParentOf[i] \in Items
    BY <1>1, ItemsAssumptions DEF Emails
<1>3. \A i \in Items : FamilyKey(i) \in Nat
    BY <1>1, <1>2 DEF FamilyKey
<1> QED BY <1>1, <1>2, <1>3 DEF Emails

(* Precedes orders the items strictly and totally, families one after the other. *)
LEMMA PrecedesOrder ==
    /\ \A i \in Items : ~Precedes(i, i)
    /\ \A i, j \in Items : i # j => Precedes(i, j) \/ Precedes(j, i)
    /\ \A i, j \in Items : Precedes(i, j) => ~Precedes(j, i) /\ FamilyKey(i) <= FamilyKey(j)
    /\ \A i, j, k \in Items : Precedes(i, j) /\ Precedes(j, k) => Precedes(i, k)
<1>1. \A i \in Items : FamilyKey(i) \in Nat /\ i \in Nat
    BY ItemNumbers
<1>2. \A i, j \in Items : i # j => Precedes(i, j) \/ Precedes(j, i)
    BY <1>1 DEF Precedes
<1>3. \A i, j \in Items : Precedes(i, j) => ~Precedes(j, i) /\ FamilyKey(i) <= FamilyKey(j)
    BY <1>1 DEF Precedes
<1>4. \A i, j, k \in Items : Precedes(i, j) /\ Precedes(j, k) => Precedes(i, k)
    BY <1>1 DEF Precedes
<1> QED BY <1>2, <1>3, <1>4, <1>1 DEF Precedes

LEMMA ItemsFinite == \A S \in SUBSET Items : IsFiniteSet(S) /\ Cardinality(S) \in Nat /\ Cardinality(S) <= NI
<1>1. IsFiniteSet(Items) /\ Cardinality(Items) = NI
    BY ItemNumbers, FS_Interval DEF Items
<1> QED BY <1>1, FS_Subset, FS_CardinalityType

(* How many members of S come before i. *)
Before(S, i) == {j \in S : Precedes(j, i)}

LEMMA RankGrows ==
    ASSUME NEW S \in SUBSET Items, NEW i \in S, NEW j \in S, Precedes(i, j)
    PROVE  Cardinality(Before(S, i)) < Cardinality(Before(S, j))
<1>1. Before(S, i) \subseteq Before(S, j) /\ i \in Before(S, j) /\ i \notin Before(S, i)
    BY PrecedesOrder DEF Before
<1>2. Before(S, j) \in SUBSET Items
    BY DEF Before
<1>3. IsFiniteSet(Before(S, j)) /\ Cardinality(Before(S, j)) \in Nat /\ Cardinality(Before(S, i)) \in Nat
    BY <1>1, <1>2, ItemsFinite
<1>4. Cardinality(Before(S, i)) <= Cardinality(Before(S, j))
    BY <1>1, <1>3, FS_Subset
<1>5. Cardinality(Before(S, i)) # Cardinality(Before(S, j))
    BY <1>1, <1>3, FS_Subset
<1> QED BY <1>3, <1>4, <1>5

(* Every place of the list is taken by one member. *)
LEMMA PlaceTaken ==
    ASSUME NEW S \in SUBSET Items, NEW n \in 1..Cardinality(S)
    PROVE  \E i \in S : Cardinality(Before(S, i)) = n - 1
<1> DEFINE T == 0..(Cardinality(S) - 1)
           r == [i \in S |-> Cardinality(Before(S, i))]
<1>1. IsFiniteSet(S) /\ Cardinality(S) \in Nat
    BY ItemsFinite
<1>2. IsFiniteSet(T) /\ Cardinality(T) = Cardinality(S)
    <2>1. \A c \in Nat : IsFiniteSet(0..(c - 1)) /\ Cardinality(0..(c - 1)) = c
        <3> TAKE c \in Nat
        <3> PICK d \in Int : d = c - 1
            OBVIOUS
        <3>1. IsFiniteSet(0..d) /\ Cardinality(0..d) = IF 0 > d THEN 0 ELSE d - 0 + 1
            BY FS_Interval
        <3>2. Cardinality(0..d) = c
            BY <3>1
        <3> QED BY <3>1, <3>2
    <2> QED BY <1>1, <2>1
<1>3. ASSUME NEW i \in S PROVE r[i] \in T
    <2>1. Before(S, i) \subseteq S /\ i \in S /\ i \notin Before(S, i)
        BY PrecedesOrder DEF Before
    <2>2. Cardinality(Before(S, i)) \in Nat /\ Cardinality(Before(S, i)) <= Cardinality(S)
        BY <1>1, <2>1, FS_Subset, FS_CardinalityType
    <2>3. Cardinality(Before(S, i)) # Cardinality(S)
        BY <1>1, <2>1, FS_Subset
    <2> QED BY <1>1, <2>2, <2>3
<1>4. ASSUME NEW i \in S, NEW j \in S, i # j PROVE r[i] # r[j]
    <2>1. Precedes(i, j) \/ Precedes(j, i)
        BY <1>4, PrecedesOrder
    <2>2. r[i] \in Nat /\ r[j] \in Nat
        BY <1>3
    <2> QED BY <2>1, <2>2, RankGrows
<1>5. r \in Injection(S, T)
    BY <1>3, <1>4 DEF Injection, IsInjective
<1>6. r \in Surjection(S, T)
    <2> HIDE DEF r, T
    <2> QED BY <1>1, <1>2, <1>5, FS_Injection
<1>7. n - 1 \in T
    BY <1>1
<1> QED BY <1>6, <1>7 DEF Surjection

(* ordered_membership lists every member once, in the order. *)
LEMMA OrderedFacts ==
    ASSUME NEW S \in SUBSET Items
    PROVE  /\ Ordered(S) \in Seq(Items) /\ Len(Ordered(S)) = Cardinality(S) /\ Cardinality(S) \in 0..NI
           /\ \A n \in 1..Cardinality(S) : Ordered(S)[n] \in S
           /\ \A i \in S : \E n \in 1..Cardinality(S) : Ordered(S)[n] = i
           /\ \A m, n \in 1..Cardinality(S) : m < n => Precedes(Ordered(S)[m], Ordered(S)[n])
<1> DEFINE L == Ordered(S)
           c == Cardinality(S)
<1>1. c \in Nat /\ c <= NI /\ IsFiniteSet(S)
    BY ItemsFinite
<1>2. \A n \in 1..c : L[n] \in S /\ Cardinality(Before(S, L[n])) = n - 1
    <2> TAKE n \in 1..c
    <2>1. L[n] = CHOOSE i \in S : Cardinality(Before(S, i)) = n - 1
        BY DEF Ordered, Before
    <2>2. \E i \in S : Cardinality(Before(S, i)) = n - 1
        BY PlaceTaken
    <2> QED BY <2>1, <2>2
<1>3. L \in [1..c -> Items]
    BY <1>2 DEF Ordered
<1>4. L \in Seq(Items) /\ Len(L) = c
    BY <1>1, <1>3
<1> HIDE DEF L
<1>5. ASSUME NEW i \in S PROVE \E n \in 1..c : L[n] = i
    <2>1. Before(S, i) \subseteq S /\ i \notin Before(S, i)
        BY PrecedesOrder DEF Before
    <2>2. Cardinality(Before(S, i)) \in Nat /\ Cardinality(Before(S, i)) <= c /\ Cardinality(Before(S, i)) # c
        BY <1>1, <2>1, FS_Subset, FS_CardinalityType
    <2> DEFINE n == Cardinality(Before(S, i)) + 1
    <2>3. n \in 1..c /\ n - 1 = Cardinality(Before(S, i))
        BY <1>1, <2>2
    <2>4. L[n] \in S /\ Cardinality(Before(S, L[n])) = Cardinality(Before(S, i))
        BY <1>2, <2>3
    <2>5. L[n] = i
        <3> SUFFICES ASSUME L[n] # i PROVE FALSE
            OBVIOUS
        <3>1. Precedes(L[n], i) \/ Precedes(i, L[n])
            BY <2>4, PrecedesOrder
        <3> HIDE DEF n
        <3> QED BY <2>2, <2>4, <3>1, RankGrows
    <2> QED BY <2>3, <2>5
<1>6. ASSUME NEW m \in 1..c, NEW n \in 1..c, m < n PROVE Precedes(L[m], L[n])
    <2>1. L[m] \in S /\ L[n] \in S /\ L[m] # L[n]
        BY <1>2, <1>6
    <2>2. Cardinality(Before(S, L[m])) < Cardinality(Before(S, L[n]))
        BY <1>1, <1>2, <1>6
    <2>3. ~Precedes(L[n], L[m])
        <3> SUFFICES ASSUME Precedes(L[n], L[m]) PROVE FALSE
            OBVIOUS
        <3>1. Cardinality(Before(S, L[n])) < Cardinality(Before(S, L[m]))
            BY <2>1, RankGrows
        <3> QED BY <1>1, <1>2, <2>2, <3>1
    <2> QED BY <2>1, <2>3, PrecedesOrder
<1> QED BY <1>1, <1>2, <1>4, <1>5, <1>6 DEF L

-----------------------------------------------------------------------------
(* The promote job. *)

(* The list a promote job freezes and writes; the rows of dedupe and cull decide it. *)
List == Ordered(Membership)

(* The first n of the list have their places, and nothing else has one. *)
OrderOK(n) ==
    /\ \A m \in 1..n : order[List[m]] = m
    /\ \A i \in Items : order[i] # 0 => order[i] \in 1..n /\ List[order[i]] = i

(* The checkpoint says how much of the list is written, and holds the list or none. *)
CheckpointOK ==
    /\ promoteCp.index <= Len(List)
    /\ promoteCp.phase # "write" => promoteCp.index = Len(List)
    /\ promoteCp.ids \in {<<>>, List}
    /\ OrderOK(promoteCp.index)

(* The inductive invariant: the memory of a running job is its checkpoint with the list. *)
PromoteInv ==
    /\ PromoteTypeOK
    /\ promoteJob # "queued" => CheckpointOK
    /\ promoteJob = "running" =>
        /\ promoteRun.cursor = [promoteCp EXCEPT !.ids = List]
        /\ promoteRun.counted => snapshot = Len(List)
    /\ promoteJob = "succeeded" => promoteCp.phase = "done" /\ snapshot = Len(List)

(* One round adds the children and the parents. *)
LEMMA ExpandOnceAdds ==
    ASSUME NEW S \in SUBSET Items
    PROVE  /\ ExpandOnce(S) \in SUBSET Items
           /\ \A i \in Items : i \in ExpandOnce(S) <=> \/ i \in S
                                                      \/ ParentOf[i] \in S
                                                      \/ \E c \in S : ParentOf[c] = i
<1> DEFINE K == UNION {Children(p) : p \in S}
           P == {p \in Items : \E c \in S : ParentOf[c] = p}
<1>1. \A i : i \in K <=> i \in Items /\ ParentOf[i] \in S
    BY DEF Children
<1>2. \A i : i \in P <=> i \in Items /\ \E c \in S : ParentOf[c] = i
    OBVIOUS
<1>3. ExpandOnce(S) = S \cup K \cup P
    BY DEF ExpandOnce
<1> HIDE DEF K, P
<1>4. \A i : i \in ExpandOnce(S) <=> i \in S \/ i \in K \/ i \in P
    BY <1>3
<1> QED BY <1>1, <1>2, <1>4

LEMMA BaseIsItems == SelectBase \in SUBSET Items
BY PromoteAssumptions DEF SelectBase, ResolvedPolicy

LEMMA MembersAreItems == Membership \in SUBSET Items
<1>1. SelectBase \in SUBSET Items
    BY BaseIsItems
<1>2. \A S \in SUBSET Items : ExpandOnce(S) \in SUBSET Items
    BY ExpandOnceAdds
<1> QED BY <1>1, <1>2 DEF Membership, ExpandTwice

LEMMA ListFacts ==
    /\ List \in Seq(Items) /\ Len(List) \in 0..NI /\ Len(List) = Cardinality(Membership)
    /\ \A n \in 1..Len(List) : List[n] \in Membership /\ List[n] \in Items
    /\ \A i \in Membership : \E n \in 1..Len(List) : List[n] = i
    /\ \A m, n \in 1..Len(List) : m < n => Precedes(List[m], List[n])
    /\ \A m, n \in 1..Len(List) : List[m] = List[n] => m = n
<1>1. Membership \in SUBSET Items
    BY MembersAreItems
<1>2. /\ List \in Seq(Items) /\ Len(List) \in 0..NI /\ Len(List) = Cardinality(Membership)
      /\ \A n \in 1..Len(List) : List[n] \in Membership /\ List[n] \in Items
      /\ \A i \in Membership : \E n \in 1..Len(List) : List[n] = i
      /\ \A m, n \in 1..Len(List) : m < n => Precedes(List[m], List[n])
    BY <1>1, OrderedFacts DEF List
<1>3. ASSUME NEW m \in 1..Len(List), NEW n \in 1..Len(List), List[m] = List[n], m # n PROVE FALSE
    <2>1. m < n \/ n < m
        BY <1>3
    <2> QED BY <1>2, <1>3, <2>1, PrecedesOrder
<1> QED BY <1>2, <1>3

LEMMA ListStays == ASSUME cull' = cull, dedup' = dedup PROVE List' = List
BY DEF List, Ordered, Membership, ExpandTwice, ExpandOnce, SelectBase, ResolvedPolicy, Children, Precedes, FamilyKey

LEMMA PromoteInitInv == ASSUME PromoteInit PROVE PromoteInv
<1>1. <<>> \in Seq(Items) /\ 0 \in 0..NI
    BY ItemNumbers
<1> QED BY <1>1 DEF PromoteInit, PromoteInv, PromoteTypeOK, PromoteCursors, FreshPromoteCursor, NoPromoteRun, JobPhases

(* Opening the job on a checkpoint. *)
LEMMA PromoteOpenKeeps ==
    ASSUME PromoteInv, List' = List, NEW cp, promoteCp' = cp, PromoteOpen(cp),
           cp = FreshPromoteCursor \/ (promoteJob = "stopped" /\ cp = promoteCp)
    PROVE  PromoteInv'
<1>1. cp \in PromoteCursors
    <2>1. FreshPromoteCursor \in PromoteCursors
        BY ItemNumbers DEF FreshPromoteCursor, PromoteCursors
    <2> QED BY <2>1 DEF PromoteInv, PromoteTypeOK
<1>2. cp.ids \in {<<>>, List} /\ FrozenIds(cp) = List
    BY DEF PromoteInv, FrozenIds, FreshPromoteCursor, CheckpointOK, List
<1>3. promoteRun' = [cursor |-> [cp EXCEPT !.ids = List], counted |-> FALSE] /\ promoteJob' = "running"
      /\ snapshot' = snapshot
    BY <1>2 DEF PromoteOpen
<1>4. promoteRun' \in [cursor : PromoteCursors, counted : BOOLEAN]
    BY <1>1, <1>3, ListFacts DEF PromoteCursors
<1>5. order' \in [Items -> 0..NI]
    BY ItemNumbers DEF PromoteOpen, PromoteInv, PromoteTypeOK
<1>6. PromoteTypeOK'
    BY <1>1, <1>3, <1>4, <1>5 DEF PromoteInv, PromoteTypeOK, JobPhases
<1>7. cp.index \in 0..NI /\ cp.index <= Len(List) /\ (cp.phase # "write" => cp.index = Len(List))
    BY <1>1, ListFacts DEF PromoteInv, FreshPromoteCursor, CheckpointOK, PromoteCursors
<1>8. OrderOK(cp.index)'
    <2>1. CASE IsFreshPromote(cp)
        <3>1. cp.index = 0 /\ \A i \in Items : order'[i] = 0
            BY <2>1 DEF PromoteOpen, IsFreshPromote
        <3> QED BY <3>1 DEF OrderOK
    <2>2. CASE ~IsFreshPromote(cp)
        <3>1. order' = order /\ cp = promoteCp /\ OrderOK(cp.index)
            BY <2>2 DEF PromoteOpen, IsFreshPromote, FreshPromoteCursor, PromoteInv, CheckpointOK
        <3> QED BY <3>1 DEF OrderOK
    <2> QED BY <2>1, <2>2
<1>9. CheckpointOK'
    BY <1>2, <1>7, <1>8 DEF CheckpointOK
<1> QED BY <1>3, <1>6, <1>9 DEF PromoteInv

(* One batch of orders. *)
LEMMA PromoteWriteKeeps == ASSUME PromoteInv, List' = List, PromoteWrite PROVE PromoteInv'
<1> DEFINE last == IF promoteCp.index + PromoteBatch <= Total THEN promoteCp.index + PromoteBatch ELSE Total
<1>1. promoteJob = "running" /\ CheckpointOK /\ promoteRun.cursor = [promoteCp EXCEPT !.ids = List]
      /\ promoteCp \in PromoteCursors /\ order \in [Items -> 0..NI]
      /\ promoteRun \in [cursor : PromoteCursors, counted : BOOLEAN]
    BY DEF PromoteWrite, Writing, PromoteInv, PromoteTypeOK
<1>2. promoteRun.cursor.ids = List /\ promoteRun.cursor.index = promoteCp.index
    BY <1>1, ListFacts DEF PromoteCursors
<1>3. Total = Len(List) /\ promoteCp.index \in Nat /\ promoteCp.index <= Len(List) /\ Len(List) \in 0..NI /\ NI \in Nat
    BY <1>1, <1>2, ListFacts, ItemNumbers DEF Total, CheckpointOK, PromoteCursors
<1>4. PICK from \in Nat, end \in Nat :
            from = promoteCp.index /\ end = last /\ from <= end /\ end <= Len(List) /\ end \in 0..NI
    BY <1>3, PromoteAssumptions
<1>5. PICK cursor : cursor = [promoteRun.cursor EXCEPT !.index = end,
                                !.phase = IF end = Len(List) THEN "snapshot" ELSE "write"]
    OBVIOUS
<1>6. /\ order' = [i \in Items |-> IF \E n \in (from + 1)..end : List[n] = i
                                   THEN CHOOSE n \in (from + 1)..end : List[n] = i ELSE order[i]]
      /\ promoteCp' = cursor /\ promoteRun' = [promoteRun EXCEPT !.cursor = cursor]
      /\ snapshot' = snapshot /\ promoteJob' = promoteJob
    <2>1. cursor.ids = List
        BY <1>1, <1>2, <1>5 DEF PromoteCursors
    <2>2. cursor = [promoteRun.cursor EXCEPT !.index = last, !.phase = IF last = Total THEN "snapshot" ELSE "write"]
        BY <1>3, <1>4, <1>5
    <2>3. /\ order' = [i \in Items |-> IF \E n \in (from + 1)..last : cursor.ids[n] = i
                                       THEN CHOOSE n \in (from + 1)..last : cursor.ids[n] = i ELSE order[i]]
          /\ promoteCp' = cursor /\ promoteRun' = [promoteRun EXCEPT !.cursor = cursor]
          /\ snapshot' = snapshot /\ promoteJob' = promoteJob
        <3> DEFINE f == promoteRun.cursor.index
                   e == IF f + PromoteBatch <= Total THEN f + PromoteBatch ELSE Total
                   c == [promoteRun.cursor EXCEPT !.index = e, !.phase = IF e = Total THEN "snapshot" ELSE "write"]
        <3>1. /\ order' = [i \in Items |-> IF \E n \in (f + 1)..e : c.ids[n] = i
                                           THEN CHOOSE n \in (f + 1)..e : c.ids[n] = i ELSE order[i]]
              /\ promoteCp' = c /\ promoteRun' = [promoteRun EXCEPT !.cursor = c]
              /\ snapshot' = snapshot /\ promoteJob' = promoteJob
            BY DEF PromoteWrite, OrderOf
        <3>2. f = from
            BY <1>2, <1>4
        <3>3. e = last
            BY <1>2
        <3> HIDE DEF last, e, f
        <3>4. c = cursor
            BY <2>2, <3>3, Zenon
        <3> HIDE DEF c
        <3> QED BY <3>1, <3>2, <3>3, <3>4, Zenon
    <2> HIDE DEF last
    <2> QED BY <1>4, <2>1, <2>3, Zenon
<1>7. cursor \in PromoteCursors /\ cursor.ids = List /\ cursor.index = end
      /\ (cursor.phase # "write" => end = Len(List)) /\ cursor = [cursor EXCEPT !.ids = List]
    BY <1>1, <1>2, <1>4, <1>5, ListFacts DEF PromoteCursors
<1>8. ASSUME NEW n \in (from + 1)..end
      PROVE  List[n] \in Items /\ order'[List[n]] = n
    <2>1. n \in 1..Len(List) /\ List[n] \in Items
        BY <1>3, <1>4, ListFacts
    <2>2. \A k \in (from + 1)..end : List[k] = List[n] => k = n
        BY <1>3, <1>4, ListFacts
    <2>3. order'[List[n]] = CHOOSE k \in (from + 1)..end : List[k] = List[n]
        BY <1>6, <2>1
    <2> QED BY <2>1, <2>2, <2>3
<1>9. ASSUME NEW i \in Items, ~ \E n \in (from + 1)..end : List[n] = i
      PROVE  order'[i] = order[i]
    BY <1>6, <1>9
<1>10. order' \in [Items -> 0..NI]
    <2>1. \A i \in Items : order'[i] \in 0..NI
        <3> TAKE i \in Items
        <3>1. CASE \E n \in (from + 1)..end : List[n] = i
            BY <1>3, <1>4, <1>8, <3>1
        <3> QED BY <1>1, <1>9, <3>1
    <2> QED BY <1>6, <2>1
<1>11. OrderOK(end)'
    <2>1. ASSUME NEW m \in 1..end PROVE order'[List[m]] = m
        <3>1. CASE m \in (from + 1)..end
            BY <1>8, <3>1
        <3>2. CASE m \notin (from + 1)..end
            <4>1. m \in 1..from /\ m \in 1..Len(List) /\ List[m] \in Items
                BY <1>3, <1>4, <3>2, ListFacts
            <4>2. ~ \E n \in (from + 1)..end : List[n] = List[m]
                BY <1>3, <1>4, <4>1, ListFacts
            <4>3. order[List[m]] = m
                BY <1>1, <1>4, <4>1 DEF CheckpointOK, OrderOK
            <4> QED BY <1>9, <4>1, <4>2, <4>3
        <3> QED BY <3>1, <3>2
    <2>2. ASSUME NEW i \in Items, order'[i] # 0 PROVE order'[i] \in 1..end /\ List[order'[i]] = i
        <3>1. CASE \E n \in (from + 1)..end : List[n] = i
            BY <1>3, <1>4, <1>8, <3>1
        <3>2. CASE ~ \E n \in (from + 1)..end : List[n] = i
            <4>1. order'[i] = order[i]
                BY <1>9, <3>2
            <4>2. order[i] \in 1..from /\ List[order[i]] = i
                BY <1>1, <1>4, <2>2, <4>1 DEF CheckpointOK, OrderOK
            <4> QED BY <1>3, <1>4, <4>1, <4>2
        <3> QED BY <3>1, <3>2
    <2> QED BY <2>1, <2>2 DEF OrderOK
<1>12. CheckpointOK'
    BY <1>4, <1>6, <1>7, <1>11 DEF CheckpointOK
<1>13. promoteRun' \in [cursor : PromoteCursors, counted : BOOLEAN] /\ promoteRun'.cursor = cursor
       /\ promoteRun'.counted = promoteRun.counted
    BY <1>1, <1>6, <1>7
<1>14. PromoteTypeOK'
    BY <1>6, <1>7, <1>10, <1>13 DEF PromoteInv, PromoteTypeOK
<1> QED BY <1>1, <1>6, <1>7, <1>12, <1>13, <1>14 DEF PromoteInv

(* Every step of the job keeps the invariant. *)
LEMMA PromoteStepKeepsInv ==
    ASSUME PromoteInv, PromoteNext, cull' = cull, dedup' = dedup
    PROVE  PromoteInv'
<1>0. List' = List
    BY ListStays
<1>1. CASE PromoteStart
    BY <1>0, <1>1, PromoteOpenKeeps DEF PromoteStart
<1>2. CASE PromoteResume
    BY <1>0, <1>2, PromoteOpenKeeps DEF PromoteResume
<1>3. CASE PromoteWrite
    BY <1>0, <1>3, PromoteWriteKeeps
<1>4. CASE PromoteSnapshot
    <2>1. promoteJob = "running" /\ promoteRun.cursor.ids = List /\ Total = Len(List)
        BY <1>4 DEF PromoteSnapshot, Finalizing, PromoteInv, PromoteTypeOK, PromoteCursors, Total
    <2>2. promoteRun' = [promoteRun EXCEPT !.counted = TRUE] /\ snapshot' = Len(List)
          /\ UNCHANGED <<order, promoteCp, promoteJob>>
        BY <1>4, <2>1 DEF PromoteSnapshot
    <2>3. CheckpointOK'
        BY <1>0, <2>1, <2>2 DEF PromoteInv, CheckpointOK, OrderOK
    <2>4. PromoteTypeOK'
        BY <2>2, ListFacts DEF PromoteInv, PromoteTypeOK
    <2>5. promoteRun'.cursor = promoteRun.cursor
        BY <2>2 DEF PromoteInv, PromoteTypeOK
    <2> QED BY <1>0, <2>1, <2>2, <2>3, <2>4, <2>5 DEF PromoteInv
<1>5. CASE PromoteDone
    <2>1. promoteJob = "running" /\ promoteCp \in PromoteCursors /\ promoteRun.cursor = [promoteCp EXCEPT !.ids = List]
          /\ promoteRun.counted /\ promoteRun.cursor.phase = "snapshot" /\ CheckpointOK
          /\ promoteRun \in [cursor : PromoteCursors, counted : BOOLEAN] /\ snapshot = Len(List)
        BY <1>5 DEF PromoteDone, Finalizing, PromoteInv, PromoteTypeOK
    <2>2. promoteCp' = [promoteRun.cursor EXCEPT !.phase = "done"] /\ UNCHANGED <<order, snapshot, promoteJob>>
          /\ promoteRun' = [promoteRun EXCEPT !.cursor = [promoteRun.cursor EXCEPT !.phase = "done"]]
        BY <1>5 DEF PromoteDone
    <2>3. promoteCp' \in PromoteCursors /\ promoteCp'.ids = List /\ promoteCp'.index = promoteCp.index
          /\ promoteCp.index = Len(List) /\ promoteCp'.phase = "done"
          /\ promoteCp' = [promoteCp' EXCEPT !.ids = List]
        BY <2>1, <2>2 DEF PromoteCursors, CheckpointOK
    <2>4. promoteRun' \in [cursor : PromoteCursors, counted : BOOLEAN] /\ promoteRun'.cursor = promoteCp'
        BY <2>1, <2>2, <2>3
    <2>5. CheckpointOK'
        BY <1>0, <2>1, <2>2, <2>3 DEF CheckpointOK, OrderOK
    <2>6. PromoteTypeOK'
        BY <2>2, <2>3, <2>4 DEF PromoteInv, PromoteTypeOK
    <2> QED BY <1>0, <2>1, <2>2, <2>3, <2>4, <2>5, <2>6 DEF PromoteInv
<1>6. ASSUME promoteJob = "running", promoteJob' \in {"stopped", "succeeded"}, promoteRun' = NoPromoteRun,
             promoteCp' \in {promoteCp, promoteRun.cursor}, UNCHANGED <<order, snapshot>>,
             promoteJob' = "succeeded" => promoteRun.cursor.phase = "done" /\ promoteRun.counted
      PROVE  PromoteInv'
    <2>1. promoteCp \in PromoteCursors /\ promoteRun.cursor = [promoteCp EXCEPT !.ids = List]
          /\ promoteRun.cursor \in PromoteCursors
        BY <1>6 DEF PromoteInv, PromoteTypeOK
    <2>2. promoteCp' \in PromoteCursors /\ promoteCp'.index = promoteCp.index /\ promoteCp'.phase = promoteCp.phase
          /\ promoteRun.cursor.phase = promoteCp.phase /\ promoteCp'.ids \in {promoteCp.ids, List}
        BY <1>6, <2>1 DEF PromoteCursors
    <2>3. CheckpointOK'
        BY <1>0, <1>6, <2>2 DEF PromoteInv, CheckpointOK, OrderOK
    <2>4. NoPromoteRun \in [cursor : PromoteCursors, counted : BOOLEAN]
        BY ItemNumbers DEF NoPromoteRun, FreshPromoteCursor, PromoteCursors
    <2>5. PromoteTypeOK'
        BY <1>6, <2>2, <2>4 DEF PromoteInv, PromoteTypeOK, JobPhases
    <2> QED BY <1>0, <1>6, <2>2, <2>3, <2>5 DEF PromoteInv
<1>7. CASE PromoteSucceed
    BY <1>6, <1>7 DEF PromoteSucceed
<1>8. CASE PromotePause
    BY <1>6, <1>8 DEF PromotePause, Writing
<1>9. CASE PromoteCrash
    BY <1>6, <1>9 DEF PromoteCrash
<1>10. CASE PromoteAgain
    BY <1>10 DEF PromoteAgain, PromoteInv, PromoteTypeOK, JobPhases
<1> QED BY <1>1, <1>2, <1>3, <1>4, <1>5, <1>7, <1>8, <1>9, <1>10 DEF PromoteNext, PromoteStep

(* While the job is queued the list may change under it. *)
LEMMA QueuedKeepsInv == ASSUME PromoteInv, promoteJob = "queued", UNCHANGED promoteVars PROVE PromoteInv'
BY DEF PromoteInv, PromoteTypeOK, promoteVars

LEMMA IdleKeepsInv == ASSUME PromoteInv, cull' = cull, dedup' = dedup, UNCHANGED promoteVars PROVE PromoteInv'
BY ListStays DEF PromoteInv, PromoteTypeOK, promoteVars, CheckpointOK, OrderOK

(* What a promote that succeeded left: exactly the members, each at its place in the list. *)
LEMMA SucceededOrders ==
    ASSUME PromoteInv, promoteJob = "succeeded"
    PROVE  /\ Promoted = Membership /\ snapshot = Cardinality(Promoted)
           /\ \A i \in Promoted : order[i] \in 1..Len(List) /\ List[order[i]] = i
           /\ \A n \in 1..Len(List) : List[n] \in Promoted /\ order[List[n]] = n
<1>1. promoteCp.index = Len(List) /\ OrderOK(Len(List)) /\ snapshot = Len(List)
    BY DEF PromoteInv, CheckpointOK
<1>2. \A i \in Promoted : order[i] \in 1..Len(List) /\ List[order[i]] = i
    BY <1>1 DEF OrderOK, Promoted
<1>3. \A n \in 1..Len(List) : List[n] \in Promoted /\ order[List[n]] = n
    BY <1>1, ListFacts DEF OrderOK, Promoted
<1>4. Promoted \subseteq Membership
    BY <1>2, ListFacts
<1>5. Membership \subseteq Promoted
    BY <1>3, ListFacts
<1>6. Promoted = Membership
    BY <1>4, <1>5
<1>7. Len(List) = Cardinality(Promoted)
    BY <1>6, ListFacts, Zenon
<1> QED BY <1>1, <1>2, <1>3, <1>6, <1>7

LEMMA SucceededIsExact == ASSUME PromoteInv PROVE ReviewSetIsExact
<1> SUFFICES ASSUME promoteJob = "succeeded"
             PROVE  /\ {order[i] : i \in Promoted} = 1..Cardinality(Promoted)
                    /\ snapshot = Cardinality(Promoted)
                    /\ \A i, j, k \in Promoted :
                        order[i] < order[j] /\ order[j] < order[k] /\ FamilyKey(i) = FamilyKey(k)
                            => FamilyKey(j) = FamilyKey(i)
                    /\ \A i \in Promoted : ParentOf[i] \in Promoted \cap Emails => order[ParentOf[i]] < order[i]
    BY DEF ReviewSetIsExact
<1>1. /\ Promoted = Membership /\ snapshot = Cardinality(Promoted)
      /\ \A i \in Promoted : order[i] \in 1..Len(List) /\ List[order[i]] = i
      /\ \A n \in 1..Len(List) : List[n] \in Promoted /\ order[List[n]] = n
    BY SucceededOrders
<1>2. Len(List) = Cardinality(Promoted) /\ Len(List) \in Nat /\ Promoted \subseteq Items
    <2>1. Len(List) = Cardinality(Promoted)
        BY <1>1, ListFacts, Zenon
    <2>2. Len(List) \in Nat
        BY ListFacts, ItemNumbers
    <2> QED BY <2>1, <2>2 DEF Promoted
<1>3. {order[i] : i \in Promoted} = 1..Cardinality(Promoted)
    BY <1>1, <1>2
<1>4. \A i, j \in Promoted : order[i] < order[j] => Precedes(i, j)
    BY <1>1, ListFacts
<1>5. ASSUME NEW i \in Promoted, NEW j \in Promoted, NEW k \in Promoted,
             order[i] < order[j], order[j] < order[k], FamilyKey(i) = FamilyKey(k)
      PROVE  FamilyKey(j) = FamilyKey(i)
    <2>1. FamilyKey(i) <= FamilyKey(j) /\ FamilyKey(j) <= FamilyKey(k)
        BY <1>2, <1>4, <1>5, PrecedesOrder
    <2>2. FamilyKey(i) \in Nat /\ FamilyKey(j) \in Nat /\ FamilyKey(k) \in Nat
        BY <1>2, ItemNumbers
    <2> QED BY <1>5, <2>1, <2>2
<1>6. ASSUME NEW i \in Promoted, ParentOf[i] \in Promoted \cap Emails
      PROVE  order[ParentOf[i]] < order[i]
    <2> PICK p \in Promoted : p = ParentOf[i] /\ p \in Emails
        BY <1>6
    <2>1. i \in Items /\ p \in Items /\ ParentOf[p] = 0 /\ p # 0 /\ p # i
        BY <1>2, ItemNumbers
    <2>2. Precedes(p, i)
        BY <2>1 DEF Precedes, FamilyKey
    <2>3. ~(order[i] < order[p])
        BY <1>4, <2>1, <2>2, PrecedesOrder
    <2>4. order[i] # order[p]
        BY <1>1, <2>1
    <2>5. order[i] \in Nat /\ order[p] \in Nat
        BY <1>1
    <2> QED BY <2>3, <2>4, <2>5
<1> QED BY <1>1, <1>3, <1>5, <1>6

-----------------------------------------------------------------------------
(* What the family pass computes. *)

LEMMA CandidateNumbers ==
    /\ Candidates \in Nat /\ Candidates <= NI /\ CullCandidates = 1..Candidates
    /\ CullCandidates \in SUBSET Items /\ Emails \subseteq CullCandidates
<1>1. \A n \in Nat : Cardinality(1..n) = n
    <2> TAKE n \in Nat
    <2>1. Cardinality(1..n) = IF 1 > n THEN 0 ELSE n - 1 + 1
        BY FS_Interval
    <2> QED BY <2>1
<1>2. CASE CullCandidates = Items
    <2>1. CullCandidates = 1..NI
        BY <1>2 DEF Items
    <2>2. Candidates = NI
        BY <1>1, <2>1, ItemNumbers DEF Candidates
    <2> QED BY <2>1, <2>2, ItemNumbers DEF Items
<1>3. CASE CullCandidates = Emails
    <2>1. CullCandidates = 1..NE
        BY <1>3 DEF Emails
    <2>2. Candidates = NE
        BY <1>1, <2>1, ItemNumbers DEF Candidates
    <2> QED BY <2>1, <2>2, ItemNumbers DEF Items, Emails
<1> QED BY <1>2, <1>3 DEF CullCandidates

(* As long as the rules in force are the same, so is what they stand for. *)
LEMMA RulesStay ==
    ASSUME UNCHANGED <<hits, rules>>
    PROVE  /\ UNCHANGED <<CullCandidates, Candidates, Hits, FamilyPolicy>>
           /\ (Excludes' <=> Excludes) /\ (Reset' <=> Reset)
<1>1. UniqueOnly' <=> UniqueOnly
    BY DEF UniqueOnly
<1>2. UNCHANGED <<CullCandidates, Hits, FamilyPolicy>>
    BY DEF CullCandidates, Hits, FamilyPolicy, UniqueOnly
<1>3. (Excludes' <=> Excludes) /\ (Reset' <=> Reset)
    BY <1>1, Zenon DEF Excludes, Reset
<1> QED BY <1>2, <1>3 DEF Candidates

(* The candidates of the rules that a start or a resume brings. *)
LEMMA NextCandidateNumbers ==
    /\ Candidates' \in Nat /\ Candidates' <= NI /\ CullCandidates' = 1..Candidates'
    /\ CullCandidates' \in SUBSET Items /\ Emails \subseteq CullCandidates'
<1>1. \A n \in Nat : Cardinality(1..n) = n
    <2> TAKE n \in Nat
    <2>1. Cardinality(1..n) = IF 1 > n THEN 0 ELSE n - 1 + 1
        BY FS_Interval
    <2> QED BY <2>1
<1>2. PICK n \in Nat : CullCandidates' = 1..n /\ n <= NI /\ NE <= n
    BY ItemNumbers DEF CullCandidates, Items, Emails
<1>3. Candidates' = n
    BY <1>1, <1>2 DEF Candidates
<1> QED BY <1>2, <1>3, ItemNumbers DEF Items, Emails

LEMMA FlagFacts ==
    ASSUME NEW S \in SUBSET CullReasons
    PROVE  /\ Flag(S) \in CullFlags /\ Flag(S).reasons = S
           /\ Flag(S).status = IF S = {} THEN "included" ELSE "culled"
           /\ S = {} => Flag(S) = Included
BY DEF Flag, Included, CullFlags

LEMMA EvaluateFacts ==
    ASSUME NEW i
    PROVE  /\ EvaluateItem(i) \in CullFlags /\ EvaluateItem(i).reasons \in SUBSET CullReasons
           /\ EvaluateItem(i) = Flag(EvaluateItem(i).reasons)
           /\ EvaluateItem(i).status \in {"included", "culled"}
           /\ EvaluateItem(i).status = "included" => EvaluateItem(i) = Included
<1>1. PICK S \in SUBSET CullReasons : EvaluateItem(i) = Flag(S)
    BY DEF EvaluateItem, CullReasons
<1>2. Flag(S) \in CullFlags /\ Flag(S).reasons = S /\ Flag(S).status = (IF S = {} THEN "included" ELSE "culled")
      /\ (S = {} => Flag(S) = Included)
    BY FlagFacts
<1> QED BY <1>1, <1>2

(* The ancestors of an item are its parent and the parent's ancestors. *)
LEMMA AncestorsUnfold ==
    \A i \in Items : AncestorsOf[i] = IF HasParent(i) THEN {ParentOf[i]} \cup AncestorsOf[ParentOf[i]] ELSE {}
<1> DEFINE Upto(m, g) == g = [i \in 1..m |-> IF HasParent(i) THEN {ParentOf[i]} \cup g[ParentOf[i]] ELSE {}]
           T == {m \in Nat : m <= NI /\ ~ \E g : Upto(m, g)}
<1>1. T = {}
    <2> SUFFICES ASSUME T # {} PROVE FALSE
        OBVIOUS
    <2>1. FirstOf(T) \in T /\ \A y \in T : FirstOf(T) <= y
        BY FirstOfIsMin
    <2> PICK m \in T : \A y \in T : m <= y
        BY <2>1
    <2>2. m \in Nat /\ m <= NI /\ NI \in Nat /\ ~ \E g : Upto(m, g)
        BY ItemNumbers
    <2>3. m # 0
        <3> DEFINE h == [i \in 1..0 |-> {}]
        <3>1. Upto(0, h)
            OBVIOUS
        <3> QED BY <2>2, <3>1
    <2>4. PICK g : Upto(m - 1, g)
        <3>1. m - 1 \in Nat /\ m - 1 <= NI /\ ~(m <= m - 1)
            BY <2>2, <2>3
        <3>2. m - 1 \notin T
            <4> HIDE DEF T
            <4> QED BY <3>1
        <3> HIDE DEF Upto
        <3> QED BY <3>1, <3>2
    <2> DEFINE h == [i \in 1..m |-> IF i = m THEN IF HasParent(m) THEN {ParentOf[m]} \cup g[ParentOf[m]] ELSE {}
                                    ELSE g[i]]
    <2>5. ASSUME NEW i \in 1..m
          PROVE  h[i] = IF HasParent(i) THEN {ParentOf[i]} \cup h[ParentOf[i]] ELSE {}
        <3>1. i \in Items
            BY <2>2, ItemNumbers
        <3>2. ParentOf[i] \in Nat /\ ParentOf[i] < i /\ (HasParent(i) => ParentOf[i] \in 1..(i - 1))
            BY <3>1, ItemNumbers, CandidateNumbers DEF HasParent
        <3>3. HasParent(i) => h[ParentOf[i]] = g[ParentOf[i]]
            <4> SUFFICES ASSUME HasParent(i) PROVE h[ParentOf[i]] = g[ParentOf[i]]
                OBVIOUS
            <4>1. ParentOf[i] \in 1..m /\ ParentOf[i] # m
                BY <2>2, <3>2
            <4> QED BY <4>1
        <3>4. CASE i = m
            BY <3>3, <3>4
        <3>5. CASE i # m
            <4>1. i \in 1..(m - 1)
                BY <2>2, <3>5
            <4>2. g[i] = IF HasParent(i) THEN {ParentOf[i]} \cup g[ParentOf[i]] ELSE {}
                BY <2>4, <4>1
            <4>3. h[i] = g[i]
                BY <3>5
            <4> QED BY <3>3, <4>2, <4>3
        <3> QED BY <3>4, <3>5
    <2>6. Upto(m, h)
        BY <2>5
    <2> QED BY <2>2, <2>6
<1>2. PICK g : Upto(NI, g)
    <2>1. NI \in Nat /\ NI <= NI
        BY ItemNumbers
    <2>2. NI \notin T
        BY <1>1, Zenon
    <2> HIDE DEF Upto
    <2> QED BY <2>1, <2>2
<1>3. \E f : f = [i \in Items |-> IF ParentOf[i] \in CullCandidates THEN {ParentOf[i]} \cup f[ParentOf[i]] ELSE {}]
    BY <1>2, Zenon DEF HasParent, Items
<1>4. AncestorsOf = [i \in Items |-> IF ParentOf[i] \in CullCandidates
                                     THEN {ParentOf[i]} \cup AncestorsOf[ParentOf[i]] ELSE {}]
    BY <1>3, Zenon DEF AncestorsOf
<1> QED BY <1>4, Zenon DEF HasParent

(* The reference flag of an item follows from its parent's. *)
LEMMA ReferenceUnfold ==
    ASSUME NEW i \in CullCandidates
    PROVE  /\ ReferenceFlag(i) \in CullFlags /\ ReferenceFlag(i).status \in {"included", "culled"}
           /\ FamilyPolicy = "independent" => ReferenceFlag(i) = EvaluateItem(i)
           /\ FamilyPolicy = "keep_children" =>
                ReferenceFlag(i) = IF HasParent(i) /\ ReferenceFlag(ParentOf[i]).status = "included"
                                   THEN Included ELSE EvaluateItem(i)
           /\ FamilyPolicy = "cull_children" =>
                ReferenceFlag(i) = IF HasParent(i) /\ ReferenceFlag(ParentOf[i]).status = "culled"
                                   THEN Flag(EvaluateItem(i).reasons \cup {"family_with_culled_parent"})
                                   ELSE EvaluateItem(i)
<1> DEFINE above(j, status) == \E a \in AncestorsOf[j] : EvaluateItem(a).status = status
           cut(j) == Flag(EvaluateItem(j).reasons \cup {"family_with_culled_parent"})
<1>1. \A j \in CullCandidates, status \in {"included", "culled"} : above(j, status) <=>
            HasParent(j) /\ (EvaluateItem(ParentOf[j]).status = status \/ above(ParentOf[j], status))
    <2> TAKE j \in CullCandidates, status \in {"included", "culled"}
    <2>1. j \in Items
        BY CandidateNumbers
    <2>2. AncestorsOf[j] = IF HasParent(j) THEN {ParentOf[j]} \cup AncestorsOf[ParentOf[j]] ELSE {}
        BY <2>1, AncestorsUnfold
    <2> QED BY <2>2
<1>2. \A j : ReferenceFlag(j) = CASE FamilyPolicy = "keep_children" /\ above(j, "included") -> Included
                                  [] FamilyPolicy = "cull_children" /\ above(j, "culled") -> cut(j)
                                  [] OTHER -> EvaluateItem(j)
    BY DEF ReferenceFlag
<1>3. \A j : cut(j) \in CullFlags /\ cut(j).status = "culled"
    <2> TAKE j
    <2> DEFINE S == EvaluateItem(j).reasons \cup {"family_with_culled_parent"}
    <2>1. S \in SUBSET CullReasons /\ S # {}
        BY EvaluateFacts DEF CullReasons
    <2> HIDE DEF S
    <2>2. Flag(S) \in CullFlags /\ Flag(S).status = "culled"
        BY <2>1, FlagFacts
    <2> QED BY <2>2 DEF S
<1>4. Included \in CullFlags /\ Included.status = "included"
    BY DEF Included, CullFlags
<1> HIDE DEF above, cut
<1>5. ReferenceFlag(i) \in {Included, cut(i), EvaluateItem(i)}
    BY <1>2
<1>6. ReferenceFlag(i) \in CullFlags /\ ReferenceFlag(i).status \in {"included", "culled"}
    BY <1>3, <1>4, <1>5, EvaluateFacts
<1>7. ASSUME FamilyPolicy = "keep_children"
      PROVE  ReferenceFlag(i) = IF HasParent(i) /\ ReferenceFlag(ParentOf[i]).status = "included"
                                THEN Included ELSE EvaluateItem(i)
    <2>1. \A j : ReferenceFlag(j) = IF above(j, "included") THEN Included ELSE EvaluateItem(j)
        BY <1>2, <1>7
    <2>2. \A j : ReferenceFlag(j).status = "included" <=>
                    above(j, "included") \/ EvaluateItem(j).status = "included"
        BY <1>4, <2>1
    <2> QED BY <1>1, <2>1, <2>2
<1>8. ASSUME FamilyPolicy = "cull_children"
      PROVE  ReferenceFlag(i) = IF HasParent(i) /\ ReferenceFlag(ParentOf[i]).status = "culled"
                                THEN cut(i) ELSE EvaluateItem(i)
    <2>1. \A j : ReferenceFlag(j) = IF above(j, "culled") THEN cut(j) ELSE EvaluateItem(j)
        BY <1>2, <1>8
    <2>2. \A j : ReferenceFlag(j).status = "culled" <=> above(j, "culled") \/ EvaluateItem(j).status = "culled"
        BY <1>3, <2>1
    <2> QED BY <1>1, <2>1, <2>2
<1>9. FamilyPolicy = "independent" => ReferenceFlag(i) = EvaluateItem(i)
    BY <1>2
<1> QED BY <1>6, <1>7, <1>8, <1>9 DEF cut

(* The rounds of the family policy from d, one after the other. *)
Rounds(d, g) == g = [n \in 0..NI |-> IF n = 0 THEN d ELSE FamilyRound(g[n - 1])]

LEMMA RoundsFacts ==
    ASSUME NEW d
    PROVE  \E g : /\ ApplyFamilyPolicy(d) = g[NI] /\ g[0] = d
                  /\ \A n \in Nat : n < NI => g[n + 1] = FamilyRound(g[n])
<1> DEFINE Upto(m, g) == g = [n \in 0..m |-> IF n = 0 THEN d ELSE FamilyRound(g[n - 1])]
           T == {m \in Nat : m <= NI /\ ~ \E g : Upto(m, g)}
<1>1. T = {}
    <2> SUFFICES ASSUME T # {} PROVE FALSE
        OBVIOUS
    <2>1. FirstOf(T) \in T /\ \A y \in T : FirstOf(T) <= y
        BY FirstOfIsMin
    <2> PICK m \in T : \A y \in T : m <= y
        BY <2>1
    <2>2. m \in Nat /\ m <= NI /\ NI \in Nat /\ ~ \E g : Upto(m, g)
        BY ItemNumbers
    <2>3. m # 0
        <3> DEFINE h == [n \in 0..0 |-> d]
        <3>1. Upto(0, h)
            OBVIOUS
        <3> QED BY <2>2, <3>1
    <2>4. PICK g : Upto(m - 1, g)
        <3>1. m - 1 \in Nat /\ m - 1 <= NI /\ ~(m <= m - 1)
            BY <2>2, <2>3
        <3>2. m - 1 \notin T
            <4> HIDE DEF T
            <4> QED BY <3>1
        <3> HIDE DEF Upto
        <3> QED BY <3>1, <3>2
    <2> DEFINE h == [n \in 0..m |-> IF n = m THEN FamilyRound(g[m - 1]) ELSE g[n]]
    <2>5. ASSUME NEW n \in 0..m
          PROVE  h[n] = IF n = 0 THEN d ELSE FamilyRound(h[n - 1])
        <3>1. n # 0 => h[n - 1] = g[n - 1]
            <4> SUFFICES ASSUME n # 0 PROVE h[n - 1] = g[n - 1]
                OBVIOUS
            <4>1. n - 1 \in 0..m /\ n - 1 # m
                BY <2>2
            <4> QED BY <4>1
        <3>2. CASE n = m
            <4>1. h[n] = FamilyRound(g[m - 1])
                BY <3>2
            <4> HIDE DEF h
            <4> QED BY <2>3, <3>1, <3>2, <4>1
        <3>3. CASE n # m
            <4>1. n \in 0..(m - 1)
                BY <2>2, <3>3
            <4>2. g[n] = IF n = 0 THEN d ELSE FamilyRound(g[n - 1])
                BY <2>4, <4>1
            <4>3. h[n] = g[n]
                BY <3>3
            <4> HIDE DEF h
            <4> QED BY <3>1, <4>2, <4>3
        <3> QED BY <3>2, <3>3
    <2>6. Upto(m, h)
        BY <2>5
    <2> QED BY <2>2, <2>6
<1>2. \E g : Rounds(d, g)
    <2>1. NI \in Nat /\ NI <= NI
        BY ItemNumbers
    <2>2. NI \notin T
        BY <1>1, Zenon
    <2>3. \E g : Upto(NI, g)
        <3> HIDE DEF Upto
        <3> QED BY <2>1, <2>2
    <2> QED BY <2>3 DEF Rounds
<1>3. \E g : Rounds(d, g) /\ ApplyFamilyPolicy(d) = g[NI]
    BY <1>2, Zenon DEF ApplyFamilyPolicy, Rounds
<1>4. PICK g : Rounds(d, g) /\ ApplyFamilyPolicy(d) = g[NI]
    BY <1>3
<1>5. g[0] = d /\ \A n \in Nat : n < NI => g[n + 1] = FamilyRound(g[n])
    <2>1. g[0] = d
        BY <1>4, ItemNumbers DEF Rounds
    <2>2. ASSUME NEW n \in Nat, n < NI PROVE g[n + 1] = FamilyRound(g[n])
        <3>1. n + 1 \in 0..NI /\ n + 1 # 0 /\ (n + 1) - 1 = n
            BY <2>2, ItemNumbers
        <3>2. g[n + 1] = FamilyRound(g[(n + 1) - 1])
            BY <1>4, <3>1 DEF Rounds
        <3> QED BY <3>1, <3>2
    <2> QED BY <2>1, <2>2
<1> QED BY <1>4, <1>5

(* Typed flags stay typed, and an item without a parent keeps its flag. *)
LEMMA PolicyKeeps ==
    ASSUME NEW d \in [CullCandidates -> CullFlags]
    PROVE  /\ ApplyFamilyPolicy(d) \in [CullCandidates -> CullFlags]
           /\ \A i \in CullCandidates : d[i].status # "null" => ApplyFamilyPolicy(d)[i].status # "null"
           /\ \A i \in CullCandidates : ~HasParent(i) => ApplyFamilyPolicy(d)[i] = d[i]
<1> DEFINE Good(f) == /\ f \in [CullCandidates -> CullFlags]
                      /\ \A i \in CullCandidates : d[i].status # "null" => f[i].status # "null"
                      /\ \A i \in CullCandidates : ~HasParent(i) => f[i] = d[i]
<1>1. ASSUME NEW f, Good(f) PROVE Good(FamilyRound(f))
    <2>1. Included \in CullFlags /\ Included.status # "null"
        BY DEF Included, CullFlags
    <2>2. CASE FamilyPolicy = "independent"
        BY <1>1, <2>2 DEF FamilyRound
    <2>3. CASE FamilyPolicy = "keep_children"
        <3>1. FamilyRound(f) = KeepRound(f)
            BY <2>3 DEF FamilyRound
        <3> QED BY <1>1, <2>1, <3>1 DEF KeepRound
    <2>4. CASE FamilyPolicy = "cull_children"
        <3>1. FamilyRound(f) = CullRound(f)
            BY <2>4 DEF FamilyRound
        <3>2. ASSUME NEW i \in CullCandidates
              PROVE  /\ Flag(f[i].reasons \cup {"family_with_culled_parent"}) \in CullFlags
                     /\ Flag(f[i].reasons \cup {"family_with_culled_parent"}).status # "null"
            <4>1. f[i].reasons \cup {"family_with_culled_parent"} \in SUBSET CullReasons
                BY <1>1 DEF CullFlags, CullReasons
            <4> QED BY <4>1, FlagFacts
        <3> QED BY <1>1, <3>1, <3>2 DEF CullRound
    <2> QED BY <2>2, <2>3, <2>4, CullAssumptions DEF FamilyPolicy
<1>2. Good(d)
    OBVIOUS
<1> HIDE DEF Good
<1>3. PICK g : /\ ApplyFamilyPolicy(d) = g[NI] /\ g[0] = d
               /\ \A n \in Nat : n < NI => g[n + 1] = FamilyRound(g[n])
    BY RoundsFacts
<1> DEFINE T == {n \in Nat : n <= NI /\ ~Good(g[n])}
<1>4. T = {}
    <2> SUFFICES ASSUME T # {} PROVE FALSE
        OBVIOUS
    <2>1. FirstOf(T) \in T /\ \A y \in T : FirstOf(T) <= y
        BY FirstOfIsMin
    <2> PICK n \in T : \A y \in T : n <= y
        BY <2>1
    <2>2. n \in Nat /\ n <= NI /\ NI \in Nat /\ ~Good(g[n]) /\ n # 0
        BY <1>2, <1>3, ItemNumbers
    <2>3. n - 1 \in Nat /\ n - 1 < NI /\ (n - 1) + 1 = n /\ ~(n <= n - 1)
        BY <2>2
    <2>4. n - 1 \notin T
        <3> HIDE DEF T
        <3> QED BY <2>3
    <2>5. Good(g[n - 1])
        BY <2>3, <2>4, <2>2
    <2>6. g[(n - 1) + 1] = FamilyRound(g[n - 1])
        BY <1>3, <2>3
    <2>7. g[n] = FamilyRound(g[n - 1])
        BY <2>3, <2>6
    <2> QED BY <1>1, <2>2, <2>5, <2>7
<1>5. Good(g[NI])
    <2>1. NI \in Nat /\ NI <= NI
        BY ItemNumbers
    <2>2. NI \notin T
        BY <1>4, Zenon
    <2> QED BY <2>1, <2>2
<1> QED BY <1>3, <1>5 DEF Good

(* From flags that are each the item's own or already the reference, the policy reaches the reference. *)
LEMMA PolicyReaches ==
    ASSUME NEW d \in [CullCandidates -> CullFlags],
           \A i \in CullCandidates : d[i] \in {EvaluateItem(i), ReferenceFlag(i)}
    PROVE  \A i \in CullCandidates : ApplyFamilyPolicy(d)[i] = ReferenceFlag(i)
<1> DEFINE Good(f, n) == /\ f \in [CullCandidates -> CullFlags]
                         /\ \A i \in CullCandidates : f[i] \in {EvaluateItem(i), ReferenceFlag(i)}
                         /\ \A i \in CullCandidates : i <= n => f[i] = ReferenceFlag(i)
<1>0. \A i \in CullCandidates : i \in Nat /\ (HasParent(i) => ParentOf[i] \in CullCandidates /\ ParentOf[i] < i)
    BY ItemNumbers, CandidateNumbers DEF HasParent
<1>1. ASSUME NEW f, NEW n \in Nat, Good(f, n) PROVE Good(FamilyRound(f), n + 1)
    <2>1. ASSUME NEW i \in CullCandidates, HasParent(i)
          PROVE  /\ ParentOf[i] \in CullCandidates
                 /\ i <= n + 1 => f[ParentOf[i]] = ReferenceFlag(ParentOf[i])
                 /\ f[ParentOf[i]] \in {EvaluateItem(ParentOf[i]), ReferenceFlag(ParentOf[i])}
        <3>1. i \in Nat /\ ParentOf[i] \in Nat /\ ParentOf[i] < i /\ ParentOf[i] \in CullCandidates
            BY <1>0, <2>1
        <3>2. i <= n + 1 => ParentOf[i] <= n
            BY <3>1
        <3> QED BY <1>1, <3>1, <3>2
    <2>2. CASE FamilyPolicy = "independent"
        <3>1. FamilyRound(f) = f
            BY <2>2 DEF FamilyRound
        <3>2. \A i \in CullCandidates : ReferenceFlag(i) = EvaluateItem(i)
            BY <2>2, ReferenceUnfold
        <3> QED BY <1>1, <3>1, <3>2
    <2>3. CASE FamilyPolicy = "keep_children"
        <3>1. FamilyRound(f) = [i \in CullCandidates |->
                    IF HasParent(i) /\ f[ParentOf[i]].status = "included" THEN Included ELSE f[i]]
            BY <2>3 DEF FamilyRound, KeepRound
        <3>2. ASSUME NEW i \in CullCandidates
              PROVE  /\ FamilyRound(f)[i] \in {EvaluateItem(i), ReferenceFlag(i)}
                     /\ i <= n + 1 => FamilyRound(f)[i] = ReferenceFlag(i)
            <4>1. ReferenceFlag(i) = IF HasParent(i) /\ ReferenceFlag(ParentOf[i]).status = "included"
                                     THEN Included ELSE EvaluateItem(i)
                BY <2>3, ReferenceUnfold
            <4>2. f[i] \in {EvaluateItem(i), ReferenceFlag(i)}
                BY <1>1
            <4>3. CASE ~HasParent(i)
                <5>1. FamilyRound(f)[i] = f[i] /\ ReferenceFlag(i) = EvaluateItem(i)
                    BY <3>1, <4>1, <4>3
                <5> QED BY <4>2, <5>1
            <4>4. CASE HasParent(i)
                <5> PICK p \in CullCandidates : p = ParentOf[i]
                    BY <2>1, <4>4
                <5>1. FamilyRound(f)[i] = IF f[p].status = "included" THEN Included ELSE f[i]
                    BY <3>1, <4>4
                <5>2. ReferenceFlag(p) = Included \/ ReferenceFlag(p) = EvaluateItem(p)
                    BY <2>3, ReferenceUnfold
                <5>3. Included.status = "included"
                    BY DEF Included
                <5>4. f[p] \in {EvaluateItem(p), ReferenceFlag(p)} /\ (i <= n + 1 => f[p] = ReferenceFlag(p))
                    BY <2>1, <4>4
                <5>5. f[p].status = "included" => ReferenceFlag(p).status = "included"
                    BY <5>2, <5>3, <5>4
                <5>6. ReferenceFlag(i) = IF ReferenceFlag(p).status = "included" THEN Included ELSE EvaluateItem(i)
                    BY <4>1, <4>4
                <5> QED BY <4>2, <5>1, <5>4, <5>5, <5>6
            <4> QED BY <4>3, <4>4
        <3>3. FamilyRound(f) \in [CullCandidates -> CullFlags]
            BY <1>1, <3>1 DEF Included, CullFlags
        <3> QED BY <3>2, <3>3
    <2>4. CASE FamilyPolicy = "cull_children"
        <3> DEFINE fam == {"family_with_culled_parent"}
        <3>1. FamilyRound(f) = [i \in CullCandidates |->
                    IF HasParent(i) /\ f[ParentOf[i]].status = "culled" THEN Flag(f[i].reasons \cup fam) ELSE f[i]]
            BY <2>4 DEF FamilyRound, CullRound
        <3>2. ASSUME NEW j \in CullCandidates
              PROVE  /\ Flag(EvaluateItem(j).reasons \cup fam) \in CullFlags
                     /\ Flag(EvaluateItem(j).reasons \cup fam).status = "culled"
                     /\ Flag(EvaluateItem(j).reasons \cup fam).reasons = EvaluateItem(j).reasons \cup fam
                     /\ Flag(f[j].reasons \cup fam) = Flag(EvaluateItem(j).reasons \cup fam)
                     /\ ReferenceFlag(j) \in {EvaluateItem(j), Flag(EvaluateItem(j).reasons \cup fam)}
            <4>1. EvaluateItem(j).reasons \cup fam \in SUBSET CullReasons /\ EvaluateItem(j).reasons \cup fam # {}
                BY EvaluateFacts DEF CullReasons
            <4>2. /\ Flag(EvaluateItem(j).reasons \cup fam) \in CullFlags
                  /\ Flag(EvaluateItem(j).reasons \cup fam).status = "culled"
                  /\ Flag(EvaluateItem(j).reasons \cup fam).reasons = EvaluateItem(j).reasons \cup fam
                BY <4>1, FlagFacts
            <4>3. ReferenceFlag(j) \in {EvaluateItem(j), Flag(EvaluateItem(j).reasons \cup fam)}
                BY <2>4, ReferenceUnfold
            <4>4. f[j] \in {EvaluateItem(j), Flag(EvaluateItem(j).reasons \cup fam)}
                BY <1>1, <4>3
            <4>5. f[j].reasons \cup fam = EvaluateItem(j).reasons \cup fam
                BY <4>2, <4>4
            <4> QED BY <4>2, <4>3, <4>5
        <3>3. ASSUME NEW i \in CullCandidates
              PROVE  /\ FamilyRound(f)[i] \in {EvaluateItem(i), ReferenceFlag(i)}
                     /\ i <= n + 1 => FamilyRound(f)[i] = ReferenceFlag(i)
            <4>1. ReferenceFlag(i) = IF HasParent(i) /\ ReferenceFlag(ParentOf[i]).status = "culled"
                                     THEN Flag(EvaluateItem(i).reasons \cup fam) ELSE EvaluateItem(i)
                BY <2>4, ReferenceUnfold
            <4>2. f[i] \in {EvaluateItem(i), ReferenceFlag(i)}
                BY <1>1
            <4>3. CASE ~HasParent(i)
                <5>1. FamilyRound(f)[i] = f[i] /\ ReferenceFlag(i) = EvaluateItem(i)
                    BY <3>1, <4>1, <4>3
                <5> QED BY <4>2, <5>1
            <4>4. CASE HasParent(i)
                <5> PICK p \in CullCandidates : p = ParentOf[i]
                    BY <2>1, <4>4
                <5>1. FamilyRound(f)[i] = IF f[p].status = "culled" THEN Flag(EvaluateItem(i).reasons \cup fam) ELSE f[i]
                    BY <3>1, <3>2, <4>4
                <5>2. ReferenceFlag(p) = EvaluateItem(p) \/ ReferenceFlag(p).status = "culled"
                    BY <3>2
                <5>3. f[p] \in {EvaluateItem(p), ReferenceFlag(p)} /\ (i <= n + 1 => f[p] = ReferenceFlag(p))
                    BY <2>1, <4>4
                <5>4. f[p].status = "culled" => ReferenceFlag(p).status = "culled"
                    BY <5>2, <5>3
                <5>5. ReferenceFlag(i) = IF ReferenceFlag(p).status = "culled"
                                         THEN Flag(EvaluateItem(i).reasons \cup fam) ELSE EvaluateItem(i)
                    BY <4>1, <4>4
                <5> QED BY <4>2, <5>1, <5>3, <5>4, <5>5
            <4> QED BY <4>3, <4>4
        <3>4. FamilyRound(f) \in [CullCandidates -> CullFlags]
            <4>1. ASSUME NEW i \in CullCandidates PROVE FamilyRound(f)[i] \in CullFlags
                <5>1. EvaluateItem(i) \in CullFlags
                    BY EvaluateFacts
                <5>2. ReferenceFlag(i) \in CullFlags
                    BY ReferenceUnfold
                <5> QED BY <3>3, <5>1, <5>2
            <4> QED BY <3>1, <4>1
        <3> QED BY <3>3, <3>4
    <2> QED BY <2>2, <2>3, <2>4, CullAssumptions DEF FamilyPolicy
<1>2. Good(d, 0)
    BY CandidateNumbers
<1> HIDE DEF Good
<1>3. PICK g : /\ ApplyFamilyPolicy(d) = g[NI] /\ g[0] = d
               /\ \A n \in Nat : n < NI => g[n + 1] = FamilyRound(g[n])
    BY RoundsFacts
<1> DEFINE T == {n \in Nat : n <= NI /\ ~Good(g[n], n)}
<1>4. T = {}
    <2> SUFFICES ASSUME T # {} PROVE FALSE
        OBVIOUS
    <2>1. FirstOf(T) \in T /\ \A y \in T : FirstOf(T) <= y
        BY FirstOfIsMin
    <2> PICK n \in T : \A y \in T : n <= y
        BY <2>1
    <2>2. n \in Nat /\ n <= NI /\ NI \in Nat /\ ~Good(g[n], n) /\ n # 0
        BY <1>2, <1>3, ItemNumbers
    <2>3. n - 1 \in Nat /\ n - 1 < NI /\ (n - 1) + 1 = n /\ ~(n <= n - 1)
        BY <2>2
    <2>4. n - 1 \notin T
        <3> HIDE DEF T
        <3> QED BY <2>3
    <2>5. Good(g[n - 1], n - 1)
        BY <2>3, <2>4, <2>2
    <2>6. g[(n - 1) + 1] = FamilyRound(g[n - 1])
        BY <1>3, <2>3
    <2>7. Good(FamilyRound(g[n - 1]), (n - 1) + 1)
        BY <1>1, <2>3, <2>5
    <2>8. Good(g[n], n)
        BY <2>3, <2>6, <2>7
    <2> QED BY <2>2, <2>8
<1>5. Good(g[NI], NI)
    <2>1. NI \in Nat /\ NI <= NI
        BY ItemNumbers
    <2>2. NI \notin T
        BY <1>4, Zenon
    <2> QED BY <2>1, <2>2
<1>6. \A i \in CullCandidates : i <= NI
    BY CandidateNumbers, ItemNumbers
<1> QED BY <1>3, <1>5, <1>6 DEF Good

-----------------------------------------------------------------------------
(* The cull job: what is flagged, whatever the params. *)

Updates == Seq([item : Items, flag : CullFlags])
CullRuns == [cursor : CullCursors, batch : SUBSET Items, at : 0..NI, updates : Updates, loaded : BOOLEAN]

(* The memory of a running job: it is where its checkpoint is; the candidates it has passed have a *)
(* flag or wait in the batch; the updates are flags of candidates.                                 *)
PassOK ==
    /\ cullRun.cursor.phase = cullCp.phase /\ cullRun.cursor.index = cullCp.index
    /\ cullCp.phase = "items" =>
        /\ cullRun.at <= Candidates
        /\ cullRun.batch \subseteq CullCandidates
        /\ \A i \in CullCandidates : i <= cullRun.at => cull[i].status # "null" \/ i \in cullRun.batch
        /\ cullRun.at = Candidates => cullRun.batch = {}
    /\ \A n \in 1..Len(cullRun.updates) :
        cullRun.updates[n].item \in CullCandidates /\ cullRun.updates[n].flag.status # "null"

(* The inductive invariant: behind the checkpoint every candidate has a flag. *)
CullInv ==
    /\ CullTypeOK
    /\ cullCp.phase = "items" => cullCp.index <= Candidates
    /\ cullJob \in {"running", "stopped"} =>
        \A i \in CullCandidates : cullCp.phase # "items" \/ i <= cullCp.index => cull[i].status # "null"
    /\ cullJob = "succeeded" => \A i \in CullCandidates : cull[i].status # "null"
    /\ cullJob = "running" => PassOK

LEMMA FreshCullTypes == FreshCullCursor \in CullCursors /\ NoCullRun \in CullRuns /\ NoFlag \in CullFlags
<1>1. <<>> \in Updates /\ 0 \in 0..NI
    BY ItemNumbers DEF Updates
<1> QED BY <1>1 DEF FreshCullCursor, CullCursors, NoCullRun, CullRuns, NoFlag, CullFlags

LEMMA CullInitInv == ASSUME CullInit PROVE CullInv
<1>1. CullTypeOK
    BY FreshCullTypes DEF CullInit, CullTypeOK, CullRuns, Updates, JobPhases
<1>2. cullCp.index <= Candidates
    BY CandidateNumbers DEF CullInit, FreshCullCursor
<1> QED BY <1>1, <1>2 DEF CullInit, CullInv

LEMMA InOrderFacts ==
    ASSUME NEW S \in SUBSET Items
    PROVE  /\ InOrder(S) \in Seq(Items) /\ Len(InOrder(S)) = Cardinality(S) /\ Cardinality(S) \in Nat
           /\ \A n \in 1..Cardinality(S) : InOrder(S)[n] \in S
<1>1. Cardinality(S) \in Nat /\ NI \in Nat /\ \A q \in S : q \in Nat /\ 1 <= q /\ q <= NI
    BY ItemsFinite, ItemNumbers
<1>2. ASSUME NEW n \in 1..Cardinality(S) PROVE InOrder(S)[n] \in S
    <2>1. PICK f \in Nat : f = n - 1 /\ f < Cardinality(S)
        BY <1>1
    <2>2. \E x \in S : Cardinality({q \in S : q < x}) = f
        <3> DEFINE D == S
        <3>1. NI \in Nat /\ \A q \in D : q \in Nat /\ 1 <= q /\ q <= NI
            BY <1>1
        <3>2. f \in Nat /\ f < Cardinality(D)
            BY <2>1
        <3> HIDE DEF D
        <3>3. \E x \in D : Cardinality({q \in D : q < x}) = f
            BY <3>1, <3>2, ElementAtIndex
        <3> QED BY <3>3 DEF D
    <2>3. InOrder(S)[n] = CHOOSE i \in S : Cardinality({j \in S : j < i}) = n - 1
        BY DEF InOrder
    <2> QED BY <2>1, <2>2, <2>3
<1>3. InOrder(S) \in [1..Cardinality(S) -> Items]
    BY <1>2 DEF InOrder
<1> QED BY <1>1, <1>2, <1>3

(* 1..n in order is 1, 2, ... *)
LEMMA InOrderOfInterval ==
    ASSUME NEW n \in Nat, n <= NI
    PROVE  Len(InOrder(1..n)) = n /\ \A k \in 1..n : InOrder(1..n)[k] = k
<1>1. \A m \in Nat : Cardinality(1..m) = m
    <2> TAKE m \in Nat
    <2>1. Cardinality(1..m) = IF 1 > m THEN 0 ELSE m - 1 + 1
        BY FS_Interval
    <2> QED BY <2>1
<1>2. (1..n) \in SUBSET Items
    BY ItemNumbers DEF Items
<1>3. Len(InOrder(1..n)) = n
    BY <1>1, <1>2, InOrderFacts
<1>4. ASSUME NEW k \in 1..n PROVE InOrder(1..n)[k] = k
    <2>1. InOrder(1..n)[k] = CHOOSE i \in 1..n : Cardinality({j \in 1..n : j < i}) = k - 1
        BY <1>1 DEF InOrder
    <2>2. ASSUME NEW i \in 1..n PROVE Cardinality({j \in 1..n : j < i}) = i - 1
        <3> PICK m \in Nat : m = i - 1
            OBVIOUS
        <3>1. {j \in 1..n : j < i} = 1..m
            OBVIOUS
        <3>2. Cardinality(1..m) = m
            BY <1>1
        <3> QED BY <3>1, <3>2
    <2>3. \A i \in 1..n : Cardinality({j \in 1..n : j < i}) = k - 1 => i = k
        BY <2>2
    <2>4. Cardinality({j \in 1..n : j < k}) = k - 1
        BY <2>2
    <2> QED BY <2>1, <2>3, <2>4, Zenon
<1> QED BY <1>3, <1>4

(* The family pass's writes are candidates with their final flags; with reset, all of them in order. *)
LEMMA UpdateListFacts ==
    ASSUME NEW final \in [CullCandidates -> CullFlags]
    PROVE  /\ UpdateList(final) \in Updates
           /\ \A n \in 1..Len(UpdateList(final)) :
                /\ UpdateList(final)[n].item \in CullCandidates
                /\ UpdateList(final)[n].flag = final[UpdateList(final)[n].item]
           /\ Reset => /\ Len(UpdateList(final)) = Candidates
                           /\ \A n \in 1..Candidates : UpdateList(final)[n] = [item |-> n, flag |-> final[n]]
<1> DEFINE S == {i \in CullCandidates : Reset \/ cull[i] # final[i]}
           L == InOrder(S)
           U == [n \in 1..Len(L) |-> [item |-> L[n], flag |-> final[L[n]]]]
<1>1. UpdateList(final) = U
    BY DEF UpdateList
<1>2. S \in SUBSET CullCandidates /\ S \in SUBSET Items
    BY CandidateNumbers
<1> HIDE DEF S
<1>3. L \in Seq(Items) /\ Len(L) = Cardinality(S) /\ Cardinality(S) \in Nat
      /\ \A n \in 1..Cardinality(S) : L[n] \in S
    BY <1>2, InOrderFacts
<1> HIDE DEF L
<1>4. \A n \in 1..Len(L) : L[n] \in CullCandidates /\ L[n] \in Items
    BY <1>2, <1>3
<1>5. U \in [1..Len(L) -> [item : Items, flag : CullFlags]] /\ Len(L) \in Nat
    BY <1>3, <1>4
<1>6. U \in Updates /\ Len(U) = Len(L)
    BY <1>5 DEF Updates
<1>7. \A n \in 1..Len(U) : U[n].item \in CullCandidates /\ U[n].flag = final[U[n].item]
    BY <1>4, <1>6
<1>8. ASSUME Reset
      PROVE  Len(U) = Candidates /\ \A n \in 1..Candidates : U[n] = [item |-> n, flag |-> final[n]]
    <2>1. S = 1..Candidates
        BY <1>8, CandidateNumbers DEF S
    <2>2. Len(InOrder(1..Candidates)) = Candidates /\ \A n \in 1..Candidates : InOrder(1..Candidates)[n] = n
        BY CandidateNumbers, InOrderOfInterval
    <2>3. Len(L) = Candidates /\ \A n \in 1..Candidates : L[n] = n
        BY <2>1, <2>2, Zenon DEF L
    <2> QED BY <1>6, <2>3
<1> HIDE DEF U
<1> QED BY <1>1, <1>6, <1>7, <1>8

LEMMA ReadBackFacts ==
    ASSUME CullTypeOK
    PROVE  /\ ReadBack \in [CullCandidates -> CullFlags]
           /\ \A i \in CullCandidates : ReadBack[i].status # "null"
           /\ \A i \in CullCandidates : cull[i].status # "null" => ReadBack[i] = cull[i]
           /\ \A i \in CullCandidates : cull[i] = NoFlag => ReadBack[i] = Included
<1>1. \A i \in CullCandidates : cull[i] \in CullFlags
    BY CandidateNumbers DEF CullTypeOK
<1>2. \A i \in CullCandidates : ReadBack[i] =
            IF cull[i].status = "null" THEN [cull[i] EXCEPT !.status = "included"] ELSE cull[i]
    BY DEF ReadBack
<1>3. ASSUME NEW i \in CullCandidates
      PROVE  ReadBack[i] \in CullFlags /\ ReadBack[i].status # "null" /\ (cull[i] = NoFlag => ReadBack[i] = Included)
    <2>1. CASE cull[i].status # "null"
        <3>1. NoFlag.status = "null"
            BY DEF NoFlag
        <3>2. cull[i] # NoFlag
            BY <2>1, <3>1
        <3> QED BY <1>1, <1>2, <2>1, <3>2
    <2>2. CASE cull[i].status = "null"
        <3>1. ReadBack[i] = [cull[i] EXCEPT !.status = "included"] /\ cull[i] \in CullFlags
            BY <1>1, <1>2, <2>2
        <3>2. ReadBack[i] = [status |-> "included", reasons |-> cull[i].reasons]
            BY <3>1 DEF CullFlags
        <3>3. cull[i].reasons \in SUBSET CullReasons
            BY <3>1 DEF CullFlags
        <3>4. ReadBack[i] \in CullFlags /\ ReadBack[i].status # "null"
            BY <3>2, <3>3 DEF CullFlags
        <3>5. cull[i] = NoFlag => cull[i].reasons = {}
            BY DEF NoFlag
        <3> QED BY <3>2, <3>4, <3>5 DEF Included
    <2> QED BY <2>1, <2>2
<1> QED BY <1>2, <1>3 DEF ReadBack

LEMMA CullTypes ==
    CullTypeOK <=> /\ hits \in RuleHits /\ rules \in {"own", "default"} /\ cull \in [Items -> CullFlags] /\ cullCp \in CullCursors
                   /\ cullJob \in JobPhases /\ cullRun \in CullRuns
BY DEF CullTypeOK, CullRuns, Updates

(* Opening the job on a checkpoint: only one that has written nothing may find other rules. *)
LEMMA CullOpenFacts ==
    ASSUME CullInv, NEW cp, CullOpen(cp), cp = FreshCullCursor \/ (cullJob = "stopped" /\ cp = cullCp),
           rules' = rules \/ IsFreshCull(cp)
    PROVE  /\ cp \in CullCursors /\ (cp.phase = "items" => cp.index <= Candidates')
           /\ cullJob' = "running" /\ hits' = hits
           /\ (cp.phase = "items" /\ cp.index = 0) \/ UNCHANGED <<cull, hits, rules, CullCandidates, Candidates>>
           /\ cullRun' \in CullRuns /\ cullRun'.cursor = cp /\ cullRun'.batch = {} /\ cullRun'.updates = <<>>
           /\ ~cullRun'.loaded /\ cullRun'.at = (IF cp.phase = "items" THEN cp.index ELSE 0)
           /\ cull' \in [Items -> CullFlags]
           /\ \A i \in Items : cull'[i] = cull[i] \/ cull'[i] = NoFlag
           /\ Reset' /\ IsFreshCull(cp) => \A i \in CullCandidates' : cull'[i] = NoFlag
<1>0. cullRun' = [NoCullRun EXCEPT !.cursor = cp, !.at = IF cp.phase = "items" THEN cp.index ELSE 0]
      /\ cullJob' = "running" /\ hits' = hits
    BY DEF CullOpen
<1>1. cp \in CullCursors
    BY FreshCullTypes DEF CullInv, CullTypeOK
<1>2. (cp.phase = "items" /\ cp.index = 0) \/ UNCHANGED <<cull, hits, rules, CullCandidates, Candidates>>
    <2>1. CASE IsFreshCull(cp)
        BY <2>1 DEF IsFreshCull
    <2>2. CASE ~IsFreshCull(cp)
        BY <1>0, <2>2, RulesStay DEF CullOpen
    <2> QED BY <2>1, <2>2
<1>a. cp.phase = "items" => cp.index <= Candidates'
    BY <1>2, NextCandidateNumbers DEF CullInv, FreshCullCursor
<1>3. (IF cp.phase = "items" THEN cp.index ELSE 0) \in 0..NI
    BY <1>1, <1>a, NextCandidateNumbers, ItemNumbers DEF CullCursors
<1>4. cullRun' \in CullRuns /\ cullRun'.cursor = cp /\ cullRun'.batch = {} /\ cullRun'.updates = <<>>
      /\ ~cullRun'.loaded /\ cullRun'.at = (IF cp.phase = "items" THEN cp.index ELSE 0)
    BY <1>0, <1>1, <1>3, FreshCullTypes DEF CullRuns, NoCullRun
<1>5. cull \in [Items -> CullFlags]
    BY DEF CullInv, CullTypeOK
<1>6. CASE Reset' /\ IsFreshCull(cp)
    <2>1. cull' = [i \in Items |-> IF i \in CullCandidates' THEN NoFlag ELSE cull[i]]
        BY <1>6 DEF CullOpen
    <2>2. \A i \in CullCandidates' : i \in Items
        BY NextCandidateNumbers
    <2> QED BY <1>0, <1>1, <1>2, <1>4, <1>5, <1>a, <2>1, <2>2, FreshCullTypes
<1>7. CASE ~(Reset' /\ IsFreshCull(cp))
    <2>1. cull' = cull
        BY <1>7 DEF CullOpen
    <2> QED BY <1>0, <1>1, <1>2, <1>4, <1>5, <1>7, <1>a, <2>1
<1> QED BY <1>6, <1>7

LEMMA CullOpenKeeps ==
    ASSUME CullInv, NEW cp, cullCp' = cp, CullOpen(cp), cp = FreshCullCursor \/ (cullJob = "stopped" /\ cp = cullCp),
           rules' = rules \/ IsFreshCull(cp), rules' \in {"own", "default"}
    PROVE  CullInv'
<1>1. /\ cp \in CullCursors /\ (cp.phase = "items" => cp.index <= Candidates')
      /\ cullJob' = "running" /\ hits' = hits
      /\ (cp.phase = "items" /\ cp.index = 0) \/ UNCHANGED <<cull, hits, rules, CullCandidates, Candidates>>
      /\ cullRun' \in CullRuns /\ cullRun'.cursor = cp /\ cullRun'.batch = {} /\ cullRun'.updates = <<>>
      /\ cullRun'.at = (IF cp.phase = "items" THEN cp.index ELSE 0)
      /\ cull' \in [Items -> CullFlags]
    BY CullOpenFacts
<1>2. CullTypeOK'
    BY <1>1 DEF CullInv, CullTypeOK, CullRuns, Updates, JobPhases
<1>3. ASSUME NEW i \in CullCandidates', cp.phase # "items" \/ i <= cp.index PROVE cull'[i].status # "null"
    <2>1. ~(cp.phase = "items" /\ cp.index = 0)
        BY <1>3, NextCandidateNumbers
    <2>2. cull' = cull /\ CullCandidates' = CullCandidates /\ cullJob = "stopped" /\ cp = cullCp
        BY <1>1, <2>1 DEF FreshCullCursor
    <2> QED BY <1>3, <2>2 DEF CullInv
<1>4. PassOK'
    BY <1>1, <1>3 DEF PassOK
<1> QED BY <1>1, <1>2, <1>3, <1>4 DEF CullInv

(* The candidate the item pass is at, and the batch with it. *)
LEMMA CullItemFacts ==
    ASSUME CullInv, CullItem
    PROVE  /\ cullJob = "running" /\ cullCp.phase = "items" /\ PassOK /\ cullJob' = cullJob /\ UNCHANGED <<hits, rules, CullCandidates, Candidates>>
           /\ \E i \in CullCandidates, batch \in SUBSET CullCandidates :
                /\ i = cullRun.at + 1
                /\ cullRun.batch \subseteq batch /\ batch \subseteq cullRun.batch \cup {i}
                /\ i \in batch \/ (~Reset /\ cull[i].status # "null")
                /\ \/ WriteItemBatch(batch, i)
                   \/ /\ i < Candidates /\ cullRun' = [cullRun EXCEPT !.batch = batch, !.at = i]
                      /\ UNCHANGED <<cull, cullCp>>
<1>1. cullJob = "running" /\ cullCp.phase = "items" /\ PassOK /\ cullRun.at < Candidates /\ cullRun.at \in Nat
      /\ cullRun.batch \subseteq CullCandidates
    BY ItemNumbers DEF CullItem, InItemPass, CullInv, PassOK, CullTypeOK
<1> DEFINE i == cullRun.at + 1
           skip == ~Reset /\ cull[i].status # "null"
           batch == IF skip THEN cullRun.batch ELSE cullRun.batch \cup {i}
<1>2. i \in CullCandidates /\ i \in Nat /\ i <= Candidates
    BY <1>1, CandidateNumbers
<1>3. IF Cardinality(batch) >= BatchSize \/ i = Candidates
      THEN WriteItemBatch(batch, i)
      ELSE cullRun' = [cullRun EXCEPT !.batch = batch, !.at = i] /\ UNCHANGED <<cull, cullCp>>
    BY DEF CullItem
<1>4. batch \in SUBSET CullCandidates /\ cullRun.batch \subseteq batch /\ batch \subseteq cullRun.batch \cup {i}
      /\ (i \in batch \/ skip)
    BY <1>1, <1>2
<1>5. cullJob' = cullJob /\ UNCHANGED <<hits, rules, CullCandidates, Candidates>>
    <2>1. cullJob' = cullJob /\ UNCHANGED <<hits, rules>>
        BY DEF CullItem
    <2> QED BY <2>1, RulesStay
<1>6. PICK b \in SUBSET CullCandidates : b = batch
    BY <1>4
<1>7. PICK j \in CullCandidates : j = i
    BY <1>2
<1>8. \/ WriteItemBatch(b, j)
      \/ j < Candidates /\ cullRun' = [cullRun EXCEPT !.batch = b, !.at = j] /\ UNCHANGED <<cull, cullCp>>
    <2> HIDE DEF batch, i
    <2>1. CASE Cardinality(batch) >= BatchSize \/ i = Candidates
        BY <1>3, <1>6, <1>7, <2>1, Zenon
    <2>2. CASE ~(Cardinality(batch) >= BatchSize \/ i = Candidates)
        <3>1. cullRun' = [cullRun EXCEPT !.batch = batch, !.at = i] /\ UNCHANGED <<cull, cullCp>>
            BY <1>3, <2>2, Zenon
        <3>2. j < Candidates
            BY <1>2, <1>7, <2>2, CandidateNumbers
        <3> QED BY <1>6, <1>7, <3>1, <3>2
    <2> QED BY <2>1, <2>2
<1>9. /\ j = cullRun.at + 1
      /\ cullRun.batch \subseteq b /\ b \subseteq cullRun.batch \cup {j}
      /\ j \in b \/ (~Reset /\ cull[j].status # "null")
    BY <1>4, <1>6, <1>7
<1> HIDE DEF batch, i, skip
<1> QED BY <1>1, <1>5, <1>8, <1>9

(* One transaction of the item pass. *)
LEMMA WriteItemFacts ==
    ASSUME CullInv, cullJob = "running", cullCp.phase = "items", NEW batch \in SUBSET CullCandidates,
           NEW i \in CullCandidates, WriteItemBatch(batch, i)
    PROVE  /\ cull' \in [Items -> CullFlags]
           /\ \A k \in Items : cull'[k] = IF k \in batch THEN EvaluateItem(k) ELSE cull[k]
           /\ cullCp' \in CullCursors /\ cullCp'.phase = "items" /\ cullCp'.index = i
           /\ cullRun' \in CullRuns /\ cullRun'.cursor = cullCp' /\ cullRun'.batch = {} /\ cullRun'.at = i
           /\ cullRun'.updates = cullRun.updates /\ cullRun'.loaded = cullRun.loaded
<1> DEFINE inc == Cardinality({k \in batch : EvaluateItem(k).status = "included"})
           out == Cardinality({k \in batch : EvaluateItem(k).status = "culled"})
           c == cullRun.cursor
<1>1. inc \in Nat /\ out \in Nat
    BY ItemsFinite, CandidateNumbers
<1>2. /\ cull' = [k \in Items |-> IF k \in batch THEN EvaluateItem(k) ELSE cull[k]]
      /\ cullCp' = [c EXCEPT !.index = i, !.included = c.included + inc, !.culled = c.culled + out]
      /\ cullRun' = [cullRun EXCEPT !.cursor = cullCp', !.batch = {}, !.at = i]
    BY DEF WriteItemBatch
<1>3. c \in CullCursors /\ c.phase = "items" /\ cullRun \in CullRuns /\ cull \in [Items -> CullFlags]
    BY DEF CullInv, CullTypeOK, CullRuns, Updates, PassOK
<1>4. i \in Nat /\ i \in 0..NI
    BY CandidateNumbers, ItemNumbers
<1> HIDE DEF inc, out, c
<1>5. cullCp' \in CullCursors /\ cullCp'.phase = "items" /\ cullCp'.index = i
    <2>1. c.included + inc \in Nat /\ c.culled + out \in Nat
        BY <1>1, <1>3 DEF CullCursors
    <2> PICK m \in Nat, n \in Nat : m = c.included + inc /\ n = c.culled + out
        BY <2>1
    <2>2. cullCp' = [c EXCEPT !.index = i, !.included = m, !.culled = n]
        BY <1>2
    <2> QED BY <1>3, <1>4, <2>2 DEF CullCursors
<1>6. /\ cullRun' \in CullRuns /\ cullRun'.cursor = cullCp' /\ cullRun'.batch = {} /\ cullRun'.at = i
      /\ cullRun'.updates = cullRun.updates /\ cullRun'.loaded = cullRun.loaded
    BY <1>2, <1>3, <1>4, <1>5 DEF CullRuns
<1>7. \A k \in Items : EvaluateItem(k) \in CullFlags
    BY EvaluateFacts
<1>8. cull' \in [Items -> CullFlags] /\ \A k \in Items : cull'[k] = IF k \in batch THEN EvaluateItem(k) ELSE cull[k]
    BY <1>2, <1>3, <1>7
<1> QED BY <1>5, <1>6, <1>8

LEMMA CullItemKeeps == ASSUME CullInv, CullItem PROVE CullInv'
<1>1. cullJob = "running" /\ cullCp.phase = "items" /\ PassOK /\ cullJob' = cullJob /\ UNCHANGED <<hits, rules, CullCandidates, Candidates>>
    BY CullItemFacts
<1>2. PICK i \in CullCandidates, batch \in SUBSET CullCandidates :
            /\ i = cullRun.at + 1
            /\ cullRun.batch \subseteq batch /\ batch \subseteq cullRun.batch \cup {i}
            /\ i \in batch \/ (~Reset /\ cull[i].status # "null")
            /\ \/ WriteItemBatch(batch, i)
               \/ /\ i < Candidates /\ cullRun' = [cullRun EXCEPT !.batch = batch, !.at = i]
                  /\ UNCHANGED <<cull, cullCp>>
    BY CullItemFacts
<1>3. cullRun.at \in Nat /\ i \in Nat /\ i <= Candidates /\ Candidates \in Nat /\ Candidates <= NI /\ NI \in Nat
    BY CandidateNumbers, ItemNumbers DEF CullInv, CullTypeOK
<1>4. \A k \in CullCandidates : k \in Items /\ k \in Nat
    BY CandidateNumbers, ItemNumbers
<1>5. ASSUME NEW k \in CullCandidates, k <= i PROVE cull[k].status # "null" \/ k \in batch
    <2>1. k = i \/ k <= cullRun.at
        BY <1>2, <1>3, <1>4, <1>5
    <2> QED BY <1>1, <1>2, <2>1 DEF PassOK
<1>6. CASE WriteItemBatch(batch, i)
    <2>1. /\ cull' \in [Items -> CullFlags]
          /\ \A k \in Items : cull'[k] = IF k \in batch THEN EvaluateItem(k) ELSE cull[k]
          /\ cullCp' \in CullCursors /\ cullCp'.phase = "items" /\ cullCp'.index = i
          /\ cullRun' \in CullRuns /\ cullRun'.cursor = cullCp' /\ cullRun'.batch = {} /\ cullRun'.at = i
          /\ cullRun'.updates = cullRun.updates /\ cullRun'.loaded = cullRun.loaded
        BY <1>1, <1>6, WriteItemFacts
    <2>2. \A k \in CullCandidates : k <= i => cull'[k].status # "null"
        <3> TAKE k \in CullCandidates
        <3>1. EvaluateItem(k).status # "null"
            BY EvaluateFacts
        <3> QED BY <1>4, <1>5, <2>1, <3>1
    <2>3. CullTypeOK'
        BY <1>1, <2>1 DEF CullInv, CullTypeOK, CullRuns, Updates
    <2>4. PassOK'
        BY <1>1, <1>3, <2>1, <2>2 DEF PassOK
    <2> QED BY <1>1, <1>3, <2>1, <2>2, <2>3, <2>4 DEF CullInv
<1>7. CASE i < Candidates /\ cullRun' = [cullRun EXCEPT !.batch = batch, !.at = i] /\ UNCHANGED <<cull, cullCp>>
    <2>1. cullRun \in CullRuns /\ i \in 0..NI /\ batch \in SUBSET Items
        <3>1. cullRun \in CullRuns
            BY DEF CullInv, CullTypeOK, CullRuns, Updates
        <3>2. i \in 0..NI
            BY <1>3
        <3>3. batch \subseteq Items
            BY <1>4
        <3> QED BY <3>1, <3>2, <3>3
    <2>2. cullRun' \in CullRuns /\ cullRun'.cursor = cullRun.cursor /\ cullRun'.batch = batch /\ cullRun'.at = i
          /\ cullRun'.updates = cullRun.updates
        BY <1>7, <2>1 DEF CullRuns
    <2>3. CullTypeOK'
        BY <1>1, <1>7, <2>2 DEF CullInv, CullTypeOK, CullRuns, Updates
    <2>4. PassOK'
        BY <1>1, <1>3, <1>5, <1>7, <2>2 DEF PassOK
    <2> QED BY <1>1, <1>7, <2>3, <2>4 DEF CullInv
<1> QED BY <1>2, <1>6, <1>7

LEMMA CullEnterFacts ==
    ASSUME CullInv, CullEnterFamily
    PROVE  /\ cullJob = "running" /\ cullCp.phase = "items" /\ PassOK /\ cullRun.at = Candidates
           /\ cull' = cull /\ UNCHANGED <<hits, rules, CullCandidates, Candidates>> /\ cullJob' = cullJob
           /\ cullCp' \in CullCursors /\ cullCp'.phase = "family" /\ cullCp'.index = 0
           /\ cullRun' \in CullRuns /\ cullRun'.cursor = cullCp'
           /\ cullRun'.updates = cullRun.updates /\ cullRun'.loaded = cullRun.loaded
<1>1. cullJob = "running" /\ cullCp.phase = "items" /\ PassOK /\ cullRun.at = Candidates
      /\ cull' = cull /\ UNCHANGED <<hits, rules, CullCandidates, Candidates>> /\ cullJob' = cullJob
    <2>1. cull' = cull /\ UNCHANGED <<hits, rules>> /\ cullJob' = cullJob
        BY DEF CullEnterFamily
    <2>2. cullJob = "running" /\ cullCp.phase = "items" /\ PassOK /\ cullRun.at = Candidates
        BY DEF CullEnterFamily, InItemPass, CullInv, PassOK
    <2> QED BY <2>1, <2>2, RulesStay
<1>2. cullRun \in CullRuns /\ cullRun.cursor \in CullCursors
    BY DEF CullInv, CullTypeOK, CullRuns, Updates
<1>3. cullCp' = [cullRun.cursor EXCEPT !.phase = "family", !.index = 0]
      /\ cullRun' = [cullRun EXCEPT !.cursor = cullCp']
    BY DEF CullEnterFamily
<1>4. cullCp' \in CullCursors /\ cullCp'.phase = "family" /\ cullCp'.index = 0
    BY <1>2, <1>3 DEF CullCursors
<1>5. cullRun' \in CullRuns /\ cullRun'.cursor = cullCp' /\ cullRun'.updates = cullRun.updates
      /\ cullRun'.loaded = cullRun.loaded
    BY <1>2, <1>3, <1>4 DEF CullRuns
<1> QED BY <1>1, <1>4, <1>5

LEMMA CullEnterKeeps == ASSUME CullInv, CullEnterFamily PROVE CullInv'
<1>1. /\ cullJob = "running" /\ cullCp.phase = "items" /\ PassOK /\ cullRun.at = Candidates
      /\ cull' = cull /\ UNCHANGED <<hits, rules, CullCandidates, Candidates>> /\ cullJob' = cullJob
      /\ cullCp' \in CullCursors /\ cullCp'.phase = "family" /\ cullCp'.index = 0
      /\ cullRun' \in CullRuns /\ cullRun'.cursor = cullCp'
      /\ cullRun'.updates = cullRun.updates /\ cullRun'.loaded = cullRun.loaded
    BY CullEnterFacts
<1>2. CullTypeOK'
    BY <1>1 DEF CullInv, CullTypeOK, CullRuns, Updates
<1>3. \A i \in CullCandidates : cull'[i].status # "null"
    BY <1>1, CandidateNumbers DEF PassOK
<1>4. PassOK'
    BY <1>1 DEF PassOK
<1> QED BY <1>1, <1>2, <1>3, <1>4 DEF CullInv

(* The family pass reads and decides: it ends as the error does, or holds its writes and its counts. *)
LEMMA CullDecideFacts ==
    ASSUME CullInv, CullDecide
    PROVE  /\ cullJob = "running" /\ cullCp.phase = "family" /\ PassOK /\ cull' = cull /\ UNCHANGED <<hits, rules, CullCandidates, Candidates>>
           /\ cullCp' \in CullCursors /\ cullCp'.index = cullCp.index /\ cullCp'.phase \in {"family", "done"}
           /\ cullRun' \in CullRuns
           /\ \/ cullJob' = "stopped" /\ cullRun' = NoCullRun /\ cullCp' = cullCp
              \/ /\ cullJob' = "running" /\ cullRun'.cursor.phase = cullCp'.phase
                 /\ cullRun'.cursor.index = cullCp'.index
                 /\ cullRun'.updates = UpdateList(ApplyFamilyPolicy(ReadBack))
                 /\ cullRun'.cursor.culled = CountCulled(ApplyFamilyPolicy(ReadBack))
                 /\ cullRun'.cursor.included = Candidates - CountCulled(ApplyFamilyPolicy(ReadBack))
                 /\ cullCp'.phase = "done" \/ cullCp' = cullCp
                 /\ cullCp'.phase = "done" => cullRun'.updates = <<>> /\ cullCp' = cullRun'.cursor
<1>1. cullJob = "running" /\ cullRun.cursor.phase = "family" /\ cullCp.phase = "family" /\ PassOK
      /\ cullRun.cursor.index = cullCp.index /\ cull' = cull /\ UNCHANGED <<hits, rules, CullCandidates, Candidates>>
    <2>1. cull' = cull /\ UNCHANGED <<hits, rules>>
        BY DEF CullDecide
    <2>2. cullJob = "running" /\ cullRun.cursor.phase = "family" /\ cullCp.phase = "family" /\ PassOK
          /\ cullRun.cursor.index = cullCp.index
        BY DEF CullDecide, InFamilyCull, CullInv, PassOK
    <2> QED BY <2>1, <2>2, RulesStay
<1>2. cullRun \in CullRuns /\ cullRun.cursor \in CullCursors /\ cullCp \in CullCursors
    BY DEF CullInv, CullTypeOK, CullRuns, Updates
<1> DEFINE final == ApplyFamilyPolicy(ReadBack)
           count == CountCulled(final)
           left == Candidates - count
           updates == UpdateList(final)
           phase == IF updates = <<>> THEN "done" ELSE "family"
           cursor == [cullRun.cursor EXCEPT !.phase = IF updates = <<>> THEN "done" ELSE @,
                                            !.culled = count, !.included = left]
<1>3. final \in [CullCandidates -> CullFlags]
    BY ReadBackFacts, PolicyKeeps DEF CullInv
<1>4. updates \in Updates
    BY <1>3, UpdateListFacts
<1>5. count \in Nat /\ left \in Nat
    <2>1. {i \in CullCandidates : final[i].status = "culled"} \subseteq CullCandidates
        OBVIOUS
    <2>2. IsFiniteSet(CullCandidates) /\ Cardinality(CullCandidates) \in Nat
        BY CandidateNumbers, ItemsFinite
    <2>3. count \in Nat /\ count <= Cardinality(CullCandidates)
        BY <2>1, <2>2, FS_Subset, FS_CardinalityType DEF CountCulled
    <2> QED BY <2>2, <2>3 DEF Candidates
<1>6. /\ cullRun' = IF cursor.index > Len(updates) THEN NoCullRun
                    ELSE [cullRun EXCEPT !.cursor = cursor, !.updates = updates, !.loaded = TRUE]
      /\ cullJob' = IF cursor.index > Len(updates) THEN "stopped" ELSE cullJob
      /\ cullCp' = IF cursor.index = 0 /\ updates = <<>> THEN cursor ELSE cullCp
    BY DEF CullDecide
<1>7. cursor = [cullRun.cursor EXCEPT !.phase = phase, !.culled = count, !.included = left]
    BY <1>1
<1> HIDE DEF final, count, left, updates, cursor
<1>8. /\ cursor \in CullCursors /\ cursor.index = cullCp.index /\ cursor.phase = phase
      /\ cursor.culled = count /\ cursor.included = left
    BY <1>1, <1>2, <1>5, <1>7 DEF CullCursors
<1>9. Len(updates) \in Nat /\ cursor.index \in Nat /\ (updates = <<>> => Len(updates) = 0)
    BY <1>2, <1>4, <1>8 DEF Updates, CullCursors
<1>10. CASE cursor.index > Len(updates)
    <2>1. cullRun' = NoCullRun /\ cullJob' = "stopped" /\ cullCp' = cullCp
        BY <1>6, <1>9, <1>10
    <2> QED BY <1>1, <1>2, <2>1, FreshCullTypes
<1>11. CASE ~(cursor.index > Len(updates))
    <2>1. cullRun' = [cullRun EXCEPT !.cursor = cursor, !.updates = updates, !.loaded = TRUE] /\ cullJob' = "running"
        BY <1>1, <1>6, <1>11
    <2>2. cullRun' \in CullRuns /\ cullRun'.cursor = cursor /\ cullRun'.updates = updates
        BY <1>2, <1>4, <1>8, <2>1 DEF CullRuns
    <2>3. updates = <<>> => cursor.index = 0
        BY <1>9, <1>11
    <2>4. cullCp' = IF updates = <<>> THEN cursor ELSE cullCp
        BY <1>6, <2>3
    <2>5. cullCp' \in CullCursors /\ cullCp'.index = cullCp.index /\ cullCp'.phase = phase
        BY <1>1, <1>2, <1>8, <2>4
    <2>6. cullRun'.cursor.phase = cullCp'.phase /\ cullRun'.cursor.index = cullCp'.index
          /\ (cullCp'.phase = "done" \/ cullCp' = cullCp)
          /\ (cullCp'.phase = "done" => cullRun'.updates = <<>> /\ cullCp' = cullRun'.cursor)
        BY <1>8, <2>2, <2>4, <2>5
    <2>7. cullRun'.updates = UpdateList(ApplyFamilyPolicy(ReadBack))
          /\ cullRun'.cursor.culled = CountCulled(ApplyFamilyPolicy(ReadBack))
          /\ cullRun'.cursor.included = Candidates - CountCulled(ApplyFamilyPolicy(ReadBack))
        BY <1>8, <2>2 DEF final, count, left, updates
    <2> QED BY <1>1, <2>1, <2>2, <2>5, <2>6, <2>7
<1> QED BY <1>10, <1>11

LEMMA CullDecideKeeps == ASSUME CullInv, CullDecide PROVE CullInv'
<1>1. /\ cullJob = "running" /\ cullCp.phase = "family" /\ PassOK /\ cull' = cull /\ UNCHANGED <<hits, rules, CullCandidates, Candidates>>
      /\ cullCp' \in CullCursors /\ cullCp'.phase \in {"family", "done"}
      /\ cullRun' \in CullRuns
      /\ \/ cullJob' = "stopped" /\ cullRun' = NoCullRun /\ cullCp' = cullCp
         \/ /\ cullJob' = "running" /\ cullRun'.cursor.phase = cullCp'.phase
            /\ cullRun'.cursor.index = cullCp'.index
            /\ cullRun'.updates = UpdateList(ApplyFamilyPolicy(ReadBack))
    BY CullDecideFacts
<1>2. CullTypeOK'
    BY <1>1 DEF CullInv, CullTypeOK, CullRuns, Updates, JobPhases
<1>3. \A i \in CullCandidates : cull'[i].status # "null"
    BY <1>1 DEF CullInv
<1>4. ASSUME cullJob' = "running" PROVE PassOK'
    <2> DEFINE final == ApplyFamilyPolicy(ReadBack)
    <2>1. final \in [CullCandidates -> CullFlags] /\ \A i \in CullCandidates : final[i].status # "null"
        BY ReadBackFacts, PolicyKeeps DEF CullInv
    <2> HIDE DEF final
    <2>2. \A n \in 1..Len(UpdateList(final)) : UpdateList(final)[n].item \in CullCandidates
                                             /\ UpdateList(final)[n].flag.status # "null"
        BY <2>1, UpdateListFacts
    <2>3. cullRun'.updates = UpdateList(final)
        BY <1>1, <1>4 DEF final
    <2> QED BY <1>1, <1>4, <2>2, <2>3 DEF PassOK
<1> QED BY <1>1, <1>2, <1>3, <1>4 DEF CullInv

LEMMA ElementTyped == \A X : \A s \in Seq(X) : \A n \in 1..Len(s) : s[n] \in X
OBVIOUS

(* One transaction of the family pass. *)
LEMMA CullWriteFacts ==
    ASSUME CullInv, CullWriteFamily
    PROVE  /\ cullJob = "running" /\ cullCp.phase = "family" /\ PassOK /\ cullRun.loaded
           /\ UNCHANGED <<hits, rules, CullCandidates, Candidates>> /\ cullJob' = cullJob /\ cull' \in [Items -> CullFlags]
           /\ cullCp' \in CullCursors /\ cullRun' \in CullRuns /\ cullRun'.cursor = cullCp'
           /\ cullRun'.updates = cullRun.updates /\ cullRun'.loaded = cullRun.loaded
           /\ cullCp'.culled = cullRun.cursor.culled /\ cullCp'.included = cullRun.cursor.included
           /\ \E from \in Nat, end \in Nat :
                /\ from = cullCp.index /\ end <= Len(cullRun.updates) /\ from <= end /\ cullCp'.index = end
                /\ cullCp'.phase = IF end = Len(cullRun.updates) THEN "done" ELSE "family"
                /\ \A i \in Items :
                    \/ \E n \in (from + 1)..end : cullRun.updates[n].item = i /\ cull'[i] = cullRun.updates[n].flag
                    \/ /\ \A n \in (from + 1)..end : cullRun.updates[n].item # i
                       /\ cull'[i] = cull[i]
<1>1. /\ cullJob = "running" /\ cullRun.cursor.phase = "family" /\ cullCp.phase = "family" /\ PassOK /\ cullRun.loaded
      /\ cullRun.cursor.index = cullCp.index /\ UNCHANGED <<hits, rules, CullCandidates, Candidates>> /\ cullJob' = cullJob
      /\ cullRun.cursor.index < Len(cullRun.updates)
    <2>1. UNCHANGED <<hits, rules>> /\ cullJob' = cullJob
        BY DEF CullWriteFamily
    <2>2. /\ cullJob = "running" /\ cullRun.cursor.phase = "family" /\ cullCp.phase = "family" /\ PassOK /\ cullRun.loaded
          /\ cullRun.cursor.index = cullCp.index /\ cullRun.cursor.index < Len(cullRun.updates)
        BY DEF CullWriteFamily, InFamilyCull, CullInv, PassOK
    <2> QED BY <2>1, <2>2, RulesStay
<1>2. cullRun \in CullRuns /\ cullRun.cursor \in CullCursors /\ cullRun.updates \in Updates /\ cull \in [Items -> CullFlags]
    BY DEF CullInv, CullTypeOK, CullRuns, Updates
<1> DEFINE u == cullRun.updates
           f == cullRun.cursor.index
           e == IF f + BatchSize <= Len(u) THEN f + BatchSize ELSE Len(u)
           c == [cullRun.cursor EXCEPT !.index = e, !.phase = IF FamilyWritten(e) THEN "done" ELSE "family"]
<1>3. /\ cull' = [i \in Items |-> IF \E n \in (f + 1)..e : u[n].item = i
                                  THEN u[CHOOSE n \in (f + 1)..e : u[n].item = i].flag ELSE cull[i]]
      /\ cullCp' = c /\ cullRun' = [cullRun EXCEPT !.cursor = c]
    BY DEF CullWriteFamily
<1>4. f \in Nat /\ Len(u) \in Nat /\ f < Len(u)
    BY <1>1, <1>2 DEF CullCursors, Updates
<1>5. e \in Nat /\ f <= e /\ e <= Len(u)
    BY <1>4, CullAssumptions DEF BatchSize
<1>6. c = [cullRun.cursor EXCEPT !.index = e, !.phase = IF e = Len(u) THEN "done" ELSE "family"]
    BY DEF FamilyWritten
<1> HIDE DEF e, c, f, u
<1>7. PICK from \in Nat, end \in Nat : from = f /\ end = e
    BY <1>4, <1>5
<1>8. /\ c \in CullCursors /\ c.index = end /\ c.phase = (IF end = Len(u) THEN "done" ELSE "family")
      /\ c.culled = cullRun.cursor.culled /\ c.included = cullRun.cursor.included
    BY <1>2, <1>5, <1>6, <1>7 DEF CullCursors
<1>9. cullRun' \in CullRuns /\ cullRun'.cursor = c /\ cullRun'.updates = u /\ cullRun'.loaded = cullRun.loaded
    BY <1>2, <1>3, <1>8 DEF CullRuns, u
<1>10. ASSUME NEW n \in (from + 1)..end PROVE u[n] \in [item : Items, flag : CullFlags]
    <2>1. n \in 1..Len(u)
        BY <1>4, <1>5, <1>7
    <2>2. u \in Seq([item : Items, flag : CullFlags])
        BY <1>2 DEF u, Updates
    <2> QED BY <2>1, <2>2, ElementTyped, Zenon
<1>11. ASSUME NEW i \in Items
       PROVE  \/ \E n \in (from + 1)..end : u[n].item = i /\ cull'[i] = u[n].flag
              \/ (\A n \in (from + 1)..end : u[n].item # i) /\ cull'[i] = cull[i]
    <2>1. cull'[i] = IF \E n \in (from + 1)..end : u[n].item = i
                     THEN u[CHOOSE n \in (from + 1)..end : u[n].item = i].flag ELSE cull[i]
        BY <1>3, <1>7
    <2>2. CASE \E n \in (from + 1)..end : u[n].item = i
        <3> DEFINE k == CHOOSE n \in (from + 1)..end : u[n].item = i
        <3>1. k \in (from + 1)..end /\ u[k].item = i
            BY <2>2, Zenon
        <3>2. cull'[i] = u[k].flag
            BY <2>1, <2>2, Zenon
        <3> QED BY <3>1, <3>2
    <2>3. CASE ~ \E n \in (from + 1)..end : u[n].item = i
        BY <2>1, <2>3
    <2> QED BY <2>2, <2>3
<1>12. cull' \in [Items -> CullFlags]
    <2>1. \A i \in Items : cull'[i] \in CullFlags
        BY <1>2, <1>10, <1>11
    <2> QED BY <1>3, <2>1
<1>13. from = cullCp.index /\ end <= Len(u) /\ from <= end /\ cullCp' = c
    BY <1>1, <1>3, <1>5, <1>7 DEF f
<1> QED BY <1>1, <1>8, <1>9, <1>11, <1>12, <1>13 DEF u

LEMMA CullWriteKeeps == ASSUME CullInv, CullWriteFamily PROVE CullInv'
<1>1. /\ cullJob = "running" /\ cullCp.phase = "family" /\ PassOK /\ UNCHANGED <<hits, rules, CullCandidates, Candidates>> /\ cullJob' = cullJob
      /\ cull' \in [Items -> CullFlags]
      /\ cullCp' \in CullCursors /\ cullRun' \in CullRuns /\ cullRun'.cursor = cullCp'
      /\ cullRun'.updates = cullRun.updates
    BY CullWriteFacts
<1>2. PICK from \in Nat, end \in Nat :
            /\ from = cullCp.index /\ end <= Len(cullRun.updates) /\ from <= end
            /\ cullCp'.phase = IF end = Len(cullRun.updates) THEN "done" ELSE "family"
            /\ \A i \in Items :
                \/ \E n \in (from + 1)..end : cullRun.updates[n].item = i /\ cull'[i] = cullRun.updates[n].flag
                \/ /\ \A n \in (from + 1)..end : cullRun.updates[n].item # i
                   /\ cull'[i] = cull[i]
    BY CullWriteFacts
<1>3. CullTypeOK'
    BY <1>1 DEF CullInv, CullTypeOK, CullRuns, Updates
<1>4. Len(cullRun.updates) \in Nat
    BY DEF CullInv, CullTypeOK
<1>5. ASSUME NEW i \in CullCandidates PROVE cull'[i].status # "null"
    <2>1. i \in Items /\ cull[i].status # "null"
        BY <1>1, CandidateNumbers DEF CullInv
    <2>2. \A n \in (from + 1)..end : cullRun.updates[n].flag.status # "null"
        BY <1>1, <1>2, <1>4 DEF PassOK
    <2> QED BY <1>2, <2>1, <2>2
<1>6. cullCp'.phase # "items"
    BY <1>2
<1>7. PassOK'
    BY <1>1, <1>6 DEF PassOK
<1> QED BY <1>1, <1>3, <1>5, <1>6, <1>7 DEF CullInv

LEMMA CullStepKeepsInv == ASSUME CullInv, CullNext PROVE CullInv'
<1>0. rules \in {"own", "default"}
    BY DEF CullInv, CullTypeOK
<1>1. CASE CullStart
    BY <1>1, CullOpenKeeps DEF CullStart, IsFreshCull, FreshCullCursor
<1>2. CASE CullResume
    BY <1>0, <1>2, CullOpenKeeps DEF CullResume
<1>3. CASE CullSucceed
    <2>1. cullJob = "running" /\ cullCp.phase # "items" /\ cullJob' = "succeeded" /\ UNCHANGED <<hits, rules, CullCandidates, Candidates, cull, cullCp>>
          /\ cullRun' = [NoCullRun EXCEPT !.cursor = cullRun.cursor]
        <3>1. cullJob = "running" /\ cullCp.phase # "items" /\ cullJob' = "succeeded" /\ UNCHANGED <<hits, rules, cull, cullCp>>
              /\ cullRun' = [NoCullRun EXCEPT !.cursor = cullRun.cursor]
            BY <1>3 DEF CullSucceed, InFamilyCull, CullInv, PassOK
        <3> QED BY <3>1, RulesStay
    <2>2. cullRun' \in CullRuns
        BY <2>1, FreshCullTypes DEF CullInv, CullTypeOK, CullRuns
    <2>3. CullTypeOK'
        BY <2>1, <2>2 DEF CullInv, CullTypeOK, CullRuns, Updates, JobPhases
    <2> QED BY <2>1, <2>3 DEF CullInv
<1>4. CASE CullAgain
    <2>1. CullTypeOK'
        BY <1>4 DEF CullAgain, CullInv, CullTypeOK, JobPhases
    <2>2. UNCHANGED <<hits, rules, cull, cullCp, cullRun>> /\ cullJob' = "queued"
        BY <1>4 DEF CullAgain
    <2>3. UNCHANGED <<CullCandidates, Candidates>>
        BY <2>2, RulesStay
    <2> QED BY <2>1, <2>2, <2>3 DEF CullInv
<1>5. ASSUME cullJob = "running", cullJob' = "stopped", cullRun' = NoCullRun, UNCHANGED <<hits, rules, cull>>,
             cullCp' = cullCp \/ (cullCp.phase = "family" /\ cullCp' = cullRun.cursor)
      PROVE  CullInv'
    <2>1. cullCp' \in CullCursors /\ cullCp'.phase = cullCp.phase /\ cullCp'.index = cullCp.index
        BY <1>5 DEF CullInv, CullTypeOK, PassOK
    <2>2. CullTypeOK'
        BY <1>5, <2>1, FreshCullTypes DEF CullInv, CullTypeOK, CullRuns, Updates, JobPhases
    <2>3. UNCHANGED <<CullCandidates, Candidates>>
        BY <1>5, RulesStay
    <2> QED BY <1>5, <2>1, <2>2, <2>3 DEF CullInv
<1>6. CASE CullPause
    BY <1>5, <1>6 DEF CullPause, InItemPass, InFamilyCull, CullInv, PassOK
<1>7. CASE CullCrash
    BY <1>5, <1>7 DEF CullCrash
<1> QED BY <1>1, <1>2, <1>3, <1>4, <1>6, <1>7, CullItemKeeps, CullEnterKeeps, CullDecideKeeps, CullWriteKeeps
        DEF CullNext, CullStep

LEMMA CullIdleKeepsInv == ASSUME CullInv, UNCHANGED cullVars PROVE CullInv'
<1>1. UNCHANGED <<hits, rules>>
    BY DEF cullVars
<1>2. UNCHANGED <<CullCandidates, Candidates>>
    BY <1>1, RulesStay
<1> QED BY <1>2 DEF CullInv, CullTypeOK, cullVars, PassOK

-----------------------------------------------------------------------------
(* The cull job with reset: which flags are in the rows. *)

RefCulled == Cardinality({i \in CullCandidates : ReferenceFlag(i).status = "culled"})
CountsRight(c) == c.culled = RefCulled /\ c.included = Candidates - RefCulled

(* Behind the checkpoint: items judged on their own, then some settled with their family, then all. *)
RowsOK ==
    /\ cullCp.phase = "items" => \A i \in CullCandidates : i <= cullCp.index => cull[i] = EvaluateItem(i)
    /\ cullCp.phase = "family" =>
        \A i \in CullCandidates : /\ cull[i] \in {EvaluateItem(i), ReferenceFlag(i)}
                                  /\ i <= cullCp.index => cull[i] = ReferenceFlag(i)
    /\ cullCp.phase = "done" => CountsRight(cullCp) /\ \A i \in CullCandidates : cull[i] = ReferenceFlag(i)

(* In memory: the batch is what lies between the checkpoint and the loop; the writes and the counts of *)
(* the family pass are the reference, however much of it was in the rows when the pass read them.     *)
MemoryOK ==
    /\ cullCp.phase = "items" =>
        /\ ~cullRun.loaded
        /\ cullCp.index <= cullRun.at
        /\ \A i \in CullCandidates : i \in cullRun.batch <=> cullCp.index < i /\ i <= cullRun.at
    /\ cullRun.loaded =>
        /\ CountsRight(cullRun.cursor) /\ Len(cullRun.updates) = Candidates
        /\ \A n \in 1..Candidates : cullRun.updates[n] = [item |-> n, flag |-> ReferenceFlag(n)]
    /\ cullCp.phase = "done" => CountsRight(cullRun.cursor)

ExactInv ==
    /\ cullJob \in {"running", "stopped"} => RowsOK
    /\ cullJob = "running" => MemoryOK
    /\ cullJob = "succeeded" => CountsRight(cullRun.cursor) /\ \A i \in CullCandidates : cull[i] = ReferenceFlag(i)

LEMMA ReferenceStays ==
    ASSUME UNCHANGED <<dedup, hits, rules>>
    PROVE  /\ \A i : EvaluateItem(i)' = EvaluateItem(i) /\ ReferenceFlag(i)' = ReferenceFlag(i)
           /\ RefCulled' = RefCulled
<1>0. dedup' = dedup /\ Hits' = Hits /\ (Excludes' <=> Excludes)
    BY RulesStay
<1>1. \A i : EvaluateItem(i)' = EvaluateItem(i)
    BY <1>0, Zenon DEF EvaluateItem
<1>2. AncestorsOf' = AncestorsOf /\ FamilyPolicy' = FamilyPolicy /\ CullCandidates' = CullCandidates
    BY RulesStay DEF AncestorsOf
<1>3. \A i : ReferenceFlag(i)' = ReferenceFlag(i)
    BY <1>1, <1>2 DEF ReferenceFlag
<1> QED BY <1>1, <1>2, <1>3 DEF RefCulled

LEMMA ExactOpen ==
    ASSUME CullInv, ExactInv, dedup' = dedup, NEW cp, cullCp' = cp, CullOpen(cp),
           cp = FreshCullCursor \/ (cullJob = "stopped" /\ cp = cullCp), rules' = rules \/ IsFreshCull(cp)
    PROVE  ExactInv'
<1>1. /\ cp \in CullCursors /\ cullJob' = "running" /\ hits' = hits
      /\ cullRun'.cursor = cp /\ cullRun'.batch = {} /\ ~cullRun'.loaded
      /\ cullRun'.at = (IF cp.phase = "items" THEN cp.index ELSE 0)
      /\ (cp.phase = "items" /\ cp.index = 0) \/ UNCHANGED <<cull, hits, rules, CullCandidates, Candidates>>
    BY CullOpenFacts
<1>3. \A i \in CullCandidates' : i \in Nat /\ i # 0
    BY NextCandidateNumbers
<1>4. CASE cp.phase = "items" /\ cp.index = 0
    <2>1. RowsOK'
        BY <1>3, <1>4 DEF RowsOK
    <2>2. MemoryOK'
        BY <1>1, <1>3, <1>4 DEF MemoryOK
    <2> QED BY <1>1, <2>1, <2>2 DEF ExactInv
<1>5. CASE ~(cp.phase = "items" /\ cp.index = 0)
    <2>1. /\ UNCHANGED <<cull, hits, rules, CullCandidates, Candidates>>
          /\ cullCp' = cullCp /\ cullJob = "stopped" /\ cp = cullCp
        BY <1>1, <1>5 DEF FreshCullCursor
    <2>r. (\A i : EvaluateItem(i)' = EvaluateItem(i) /\ ReferenceFlag(i)' = ReferenceFlag(i)) /\ RefCulled' = RefCulled
        BY <2>1, ReferenceStays
    <2>2. RowsOK'
        BY <2>r, <2>1 DEF ExactInv, RowsOK, CountsRight
    <2>3. cp.phase = "done" => CountsRight(cullRun.cursor)'
        BY <1>1, <2>r, <2>1 DEF ExactInv, RowsOK, CountsRight
    <2>4. cp.phase = "items" => /\ cp.index <= cullRun'.at
                                /\ \A i \in CullCandidates' : i \in cullRun'.batch <=> cp.index < i /\ i <= cullRun'.at
        BY <1>1, <1>3 DEF CullCursors
    <2>5. MemoryOK'
        BY <1>1, <2>3, <2>4 DEF MemoryOK
    <2> QED BY <1>1, <2>2, <2>5 DEF ExactInv
<1> QED BY <1>4, <1>5

LEMMA ExactItem == ASSUME Reset, CullInv, ExactInv, dedup' = dedup, CullItem PROVE ExactInv'
<1>1. cullJob = "running" /\ cullCp.phase = "items" /\ PassOK /\ cullJob' = cullJob /\ UNCHANGED <<hits, rules, CullCandidates, Candidates>>
    BY CullItemFacts
<1>2. PICK i \in CullCandidates, batch \in SUBSET CullCandidates :
            /\ i = cullRun.at + 1
            /\ cullRun.batch \subseteq batch /\ batch \subseteq cullRun.batch \cup {i}
            /\ i \in batch \/ (~Reset /\ cull[i].status # "null")
            /\ \/ WriteItemBatch(batch, i)
               \/ /\ i < Candidates /\ cullRun' = [cullRun EXCEPT !.batch = batch, !.at = i]
                  /\ UNCHANGED <<cull, cullCp>>
    BY CullItemFacts
<1>3. (\A k : EvaluateItem(k)' = EvaluateItem(k) /\ ReferenceFlag(k)' = ReferenceFlag(k)) /\ RefCulled' = RefCulled
    BY <1>1, ReferenceStays
<1>4. \A k \in CullCandidates : k \in Items /\ k \in Nat
    BY CandidateNumbers, ItemNumbers
<1>5. cullRun.at \in Nat /\ cullCp.index \in Nat
    BY ItemNumbers DEF CullInv, CullTypeOK, CullCursors
<1>6. RowsOK /\ MemoryOK
    BY <1>1 DEF ExactInv
<1>7. cullCp.index < i /\ \A k \in CullCandidates : k \in batch <=> cullCp.index < k /\ k <= i
    <2>1. cullCp.index <= cullRun.at
          /\ \A k \in CullCandidates : k \in cullRun.batch <=> cullCp.index < k /\ k <= cullRun.at
        BY <1>1, <1>6 DEF MemoryOK
    <2>2. i \in batch /\ batch = cullRun.batch \cup {i}
        BY <1>2
    <2>3. \A k \in CullCandidates : k <= i <=> k <= cullRun.at \/ k = i
        BY <1>2, <1>4, <1>5
    <2> QED BY <1>2, <1>4, <1>5, <2>1, <2>2, <2>3
<1>8. CASE WriteItemBatch(batch, i)
    <2>1. /\ \A k \in Items : cull'[k] = IF k \in batch THEN EvaluateItem(k) ELSE cull[k]
          /\ cullCp'.phase = "items" /\ cullCp'.index = i
          /\ cullRun'.cursor = cullCp' /\ cullRun'.batch = {} /\ cullRun'.at = i
          /\ cullRun'.updates = cullRun.updates /\ cullRun'.loaded = cullRun.loaded
        BY <1>1, <1>8, WriteItemFacts
    <2>2. ~cullRun'.loaded
        BY <1>1, <1>6, <2>1 DEF MemoryOK
    <2>3. ASSUME NEW k \in CullCandidates, k <= i PROVE cull'[k] = EvaluateItem(k)
        <3>1. CASE k \in batch
            BY <1>4, <2>1, <3>1
        <3>2. CASE k \notin batch
            <4>1. k <= cullCp.index /\ cull'[k] = cull[k]
                BY <1>4, <1>5, <1>7, <2>1, <2>3, <3>2
            <4> QED BY <1>1, <1>6, <4>1 DEF RowsOK
        <3> QED BY <3>1, <3>2
    <2>4. RowsOK'
        BY <1>1, <1>3, <2>1, <2>3 DEF RowsOK
    <2>5. MemoryOK'
        BY <1>1, <1>4, <2>1, <2>2 DEF MemoryOK
    <2> QED BY <1>1, <2>4, <2>5 DEF ExactInv
<1>9. CASE i < Candidates /\ cullRun' = [cullRun EXCEPT !.batch = batch, !.at = i] /\ UNCHANGED <<cull, cullCp>>
    <2>1. cullRun'.at = i /\ cullRun'.batch = batch /\ cullRun'.loaded = cullRun.loaded
        BY <1>9 DEF CullInv, CullTypeOK
    <2>2. RowsOK'
        BY <1>1, <1>3, <1>6, <1>9 DEF RowsOK, CountsRight
    <2>3. MemoryOK'
        BY <1>1, <1>2, <1>5, <1>6, <1>7, <1>9, <2>1 DEF MemoryOK
    <2> QED BY <1>1, <2>2, <2>3 DEF ExactInv
<1> QED BY <1>2, <1>8, <1>9

LEMMA ExactEnter == ASSUME Reset, CullInv, ExactInv, dedup' = dedup, CullEnterFamily PROVE ExactInv'
<1>1. /\ cullJob = "running" /\ cullCp.phase = "items" /\ PassOK /\ cullRun.at = Candidates
      /\ cull' = cull /\ UNCHANGED <<hits, rules, CullCandidates, Candidates>> /\ cullJob' = cullJob
      /\ cullCp'.phase = "family" /\ cullCp'.index = 0
      /\ cullRun'.loaded = cullRun.loaded
    BY CullEnterFacts
<1>2. (\A k : EvaluateItem(k)' = EvaluateItem(k) /\ ReferenceFlag(k)' = ReferenceFlag(k)) /\ RefCulled' = RefCulled
    BY <1>1, ReferenceStays
<1>3. RowsOK /\ MemoryOK
    BY <1>1 DEF ExactInv
<1>4. ASSUME NEW i \in CullCandidates PROVE i # 0 /\ i \in Nat /\ cull[i] = EvaluateItem(i)
    <2>1. i \in Nat /\ i # 0 /\ i <= Candidates /\ cullCp.index \in Nat
        BY CandidateNumbers DEF CullInv, CullTypeOK, CullCursors
    <2>2. i \notin cullRun.batch
        BY <1>1 DEF PassOK
    <2>3. i <= cullCp.index
        BY <1>1, <1>3, <2>1, <2>2 DEF MemoryOK
    <2> QED BY <1>1, <1>3, <2>1, <2>3 DEF RowsOK
<1>5. RowsOK'
    BY <1>1, <1>2, <1>4 DEF RowsOK
<1>6. MemoryOK'
    BY <1>1, <1>3 DEF MemoryOK
<1> QED BY <1>1, <1>5, <1>6 DEF ExactInv

(* However much of the pass was written before it was stopped, it decides the reference again. *)
LEMMA ExactDecide == ASSUME Reset, CullInv, ExactInv, dedup' = dedup, CullDecide PROVE ExactInv'
<1>1. /\ cullJob = "running" /\ cullCp.phase = "family" /\ PassOK /\ cull' = cull /\ UNCHANGED <<hits, rules, CullCandidates, Candidates>>
      /\ cullCp' \in CullCursors /\ cullCp'.index = cullCp.index /\ cullCp'.phase \in {"family", "done"}
      /\ \/ cullJob' = "stopped" /\ cullRun' = NoCullRun /\ cullCp' = cullCp
         \/ /\ cullJob' = "running" /\ cullRun'.cursor.phase = cullCp'.phase
            /\ cullRun'.updates = UpdateList(ApplyFamilyPolicy(ReadBack))
            /\ cullRun'.cursor.culled = CountCulled(ApplyFamilyPolicy(ReadBack))
            /\ cullRun'.cursor.included = Candidates - CountCulled(ApplyFamilyPolicy(ReadBack))
            /\ cullCp'.phase = "done" \/ cullCp' = cullCp
            /\ cullCp'.phase = "done" => cullRun'.updates = <<>> /\ cullCp' = cullRun'.cursor
    BY CullDecideFacts
<1>2. (\A k : EvaluateItem(k)' = EvaluateItem(k) /\ ReferenceFlag(k)' = ReferenceFlag(k)) /\ RefCulled' = RefCulled
    BY <1>1, ReferenceStays
<1>3. RowsOK
    BY <1>1 DEF ExactInv
<1> DEFINE final == ApplyFamilyPolicy(ReadBack)
<1>4. final \in [CullCandidates -> CullFlags] /\ \A i \in CullCandidates : final[i] = ReferenceFlag(i)
    <2>1. ReadBack \in [CullCandidates -> CullFlags]
        BY ReadBackFacts DEF CullInv
    <2>2. \A i \in CullCandidates : ReadBack[i] = cull[i]
        BY <1>1, ReadBackFacts DEF CullInv
    <2>3. \A i \in CullCandidates : ReadBack[i] \in {EvaluateItem(i), ReferenceFlag(i)}
        BY <1>1, <1>3, <2>2 DEF RowsOK
    <2> QED BY <2>1, <2>3, PolicyReaches, PolicyKeeps
<1>5. CountCulled(final) = RefCulled
    <2>1. {i \in CullCandidates : final[i].status = "culled"} = {i \in CullCandidates : ReferenceFlag(i).status = "culled"}
        BY <1>4
    <2> QED BY <2>1, Zenon DEF CountCulled, RefCulled
<1>6. Len(UpdateList(final)) = Candidates
      /\ \A n \in 1..Candidates : UpdateList(final)[n] = [item |-> n, flag |-> ReferenceFlag(n)]
    <2>1. /\ Len(UpdateList(final)) = Candidates
          /\ \A n \in 1..Candidates : UpdateList(final)[n] = [item |-> n, flag |-> final[n]]
        BY <1>4, UpdateListFacts
    <2>2. \A n \in 1..Candidates : final[n] = ReferenceFlag(n)
        BY <1>4, CandidateNumbers
    <2> QED BY <2>1, <2>2
<1> HIDE DEF final
<1>7. CASE cullJob' = "stopped"
    <2>1. cullCp' = cullCp
        BY <1>1, <1>7
    <2>2. RowsOK'
        BY <1>1, <1>2, <1>3, <2>1 DEF RowsOK
    <2> QED BY <1>7, <2>2 DEF ExactInv
<1>8. CASE cullJob' = "running"
    <2>1. cullRun'.updates = UpdateList(final) /\ CountsRight(cullRun.cursor)'
        BY <1>1, <1>2, <1>5, <1>8 DEF final, CountsRight
    <2>2. cullCp'.phase = "done" => Candidates = 0 /\ cullCp' = cullRun'.cursor
        <3>1. Len(<<>>) = 0
            OBVIOUS
        <3> QED BY <1>1, <1>6, <1>8, <2>1, <3>1
    <2>3. cullCp'.phase # "done" => cullCp' = cullCp
        BY <1>1, <1>8
    <2>4. RowsOK'
        <3>1. CASE cullCp'.phase = "done"
            <4>1. CullCandidates = {}
                BY <2>2, <3>1, CandidateNumbers
            <4>2. CountsRight(cullCp)'
                BY <2>1, <2>2, <3>1 DEF CountsRight
            <4> QED BY <1>1, <3>1, <4>1, <4>2 DEF RowsOK
        <3>2. CASE cullCp'.phase # "done"
            BY <1>1, <1>2, <1>3, <2>3, <3>2 DEF RowsOK
        <3> QED BY <3>1, <3>2
    <2>5. MemoryOK'
        BY <1>1, <1>2, <1>6, <2>1 DEF MemoryOK
    <2> QED BY <1>8, <2>4, <2>5 DEF ExactInv
<1> QED BY <1>1, <1>7, <1>8

LEMMA ExactWrite == ASSUME Reset, CullInv, ExactInv, dedup' = dedup, CullWriteFamily PROVE ExactInv'
<1>1. /\ cullJob = "running" /\ cullCp.phase = "family" /\ PassOK /\ cullRun.loaded
      /\ UNCHANGED <<hits, rules, CullCandidates, Candidates>> /\ cullJob' = cullJob /\ cullRun'.cursor = cullCp'
      /\ cullRun'.updates = cullRun.updates /\ cullRun'.loaded = cullRun.loaded
      /\ cullCp'.culled = cullRun.cursor.culled /\ cullCp'.included = cullRun.cursor.included
    BY CullWriteFacts
<1>2. PICK from \in Nat, end \in Nat :
            /\ from = cullCp.index /\ end <= Len(cullRun.updates) /\ from <= end /\ cullCp'.index = end
            /\ cullCp'.phase = IF end = Len(cullRun.updates) THEN "done" ELSE "family"
            /\ \A i \in Items :
                \/ \E n \in (from + 1)..end : cullRun.updates[n].item = i /\ cull'[i] = cullRun.updates[n].flag
                \/ /\ \A n \in (from + 1)..end : cullRun.updates[n].item # i
                   /\ cull'[i] = cull[i]
    BY CullWriteFacts
<1>3. (\A k : EvaluateItem(k)' = EvaluateItem(k) /\ ReferenceFlag(k)' = ReferenceFlag(k)) /\ RefCulled' = RefCulled
    BY <1>1, ReferenceStays
<1>4. RowsOK /\ MemoryOK
    BY <1>1 DEF ExactInv
<1>5. /\ CountsRight(cullRun.cursor) /\ Len(cullRun.updates) = Candidates
      /\ \A n \in 1..Candidates : cullRun.updates[n].item = n /\ cullRun.updates[n].flag = ReferenceFlag(n)
    <2>1. /\ CountsRight(cullRun.cursor) /\ Len(cullRun.updates) = Candidates
          /\ \A n \in 1..Candidates : cullRun.updates[n] = [item |-> n, flag |-> ReferenceFlag(n)]
        BY <1>1, <1>4 DEF MemoryOK
    <2>2. ASSUME NEW n \in 1..Candidates
          PROVE  cullRun.updates[n].item = n /\ cullRun.updates[n].flag = ReferenceFlag(n)
        <3>1. cullRun.updates[n] = [item |-> n, flag |-> ReferenceFlag(n)]
            BY <2>1
        <3> QED BY <3>1
    <2> QED BY <2>1, <2>2
<1>6. ASSUME NEW i \in CullCandidates
      PROVE  /\ i \in Nat /\ i <= Candidates
             /\ cull'[i] \in {EvaluateItem(i), ReferenceFlag(i)} /\ (i <= end => cull'[i] = ReferenceFlag(i))
    <2>1. i \in Nat /\ i \in Items /\ 1 <= i /\ i <= Candidates /\ Candidates \in Nat
        BY CandidateNumbers, ItemNumbers
    <2>2. CASE i \in (from + 1)..end
        <3>1. cullRun.updates[i].item = i
            BY <1>5, <2>1
        <3>2. PICK n \in (from + 1)..end : cullRun.updates[n].item = i /\ cull'[i] = cullRun.updates[n].flag
            BY <1>2, <2>1, <2>2, <3>1
        <3>3. n \in 1..Candidates
            BY <1>2, <1>5
        <3>4. cull'[i] = ReferenceFlag(i)
            BY <1>5, <3>2, <3>3
        <3> QED BY <2>1, <3>4
    <2>3. CASE i \notin (from + 1)..end
        <3>1. \A n \in (from + 1)..end : n \in 1..Candidates
            BY <1>2, <1>5
        <3>2. \A n \in (from + 1)..end : cullRun.updates[n].item # i
            BY <1>5, <2>3, <3>1
        <3>3. cull'[i] = cull[i]
            BY <1>2, <2>1, <3>2
        <3>4. i <= end => i <= from
            BY <2>1, <2>3
        <3> QED BY <1>1, <1>2, <1>4, <2>1, <3>3, <3>4 DEF RowsOK
    <2> QED BY <2>2, <2>3
<1>7. CountsRight(cullCp)'
    BY <1>1, <1>3, <1>5 DEF CountsRight
<1>8. RowsOK'
    BY <1>1, <1>2, <1>3, <1>5, <1>6, <1>7 DEF RowsOK
<1>9. CountsRight(cullRun.cursor)'
    BY <1>1, <1>7 DEF CountsRight
<1>10. MemoryOK'
    BY <1>1, <1>2, <1>3, <1>4, <1>9 DEF MemoryOK
<1> QED BY <1>1, <1>8, <1>10 DEF ExactInv

LEMMA CullExactNext == ASSUME CullReset, CullInv, ExactInv, dedup' = dedup, CullNext PROVE ExactInv'
<1>0. Reset /\ rules \in {"own", "default"}
    BY DEF Reset, CullInv, CullTypeOK
<1>1. CASE CullStart
    BY <1>1, ExactOpen DEF CullStart, IsFreshCull, FreshCullCursor
<1>2. CASE CullResume
    BY <1>2, ExactOpen DEF CullResume
<1>3. CASE CullSucceed
    <2>1. cullJob = "running" /\ cullJob' = "succeeded" /\ UNCHANGED <<hits, rules, CullCandidates, Candidates, cull, cullCp>>
          /\ cullRun' = [NoCullRun EXCEPT !.cursor = cullRun.cursor] /\ PassOK /\ RowsOK /\ MemoryOK
          /\ (cullCp.phase = "done" \/ (cullCp.phase = "family" /\ cullRun.loaded /\ cullCp.index = Len(cullRun.updates)))
        <3>1. UNCHANGED <<hits, rules, cull, cullCp>>
            BY <1>3 DEF CullSucceed
        <3>2. cullJob = "running" /\ cullJob' = "succeeded"
              /\ cullRun' = [NoCullRun EXCEPT !.cursor = cullRun.cursor] /\ PassOK /\ RowsOK /\ MemoryOK
              /\ (cullCp.phase = "done" \/ (cullCp.phase = "family" /\ cullRun.loaded /\ cullCp.index = Len(cullRun.updates)))
            BY <1>3 DEF CullSucceed, InFamilyCull, CullInv, PassOK, ExactInv
        <3> QED BY <3>1, <3>2, RulesStay
    <2>2. (\A k : EvaluateItem(k)' = EvaluateItem(k) /\ ReferenceFlag(k)' = ReferenceFlag(k)) /\ RefCulled' = RefCulled
        BY <2>1, ReferenceStays
    <2>3. CountsRight(cullRun.cursor)
        BY <2>1 DEF MemoryOK
    <2>4. \A i \in CullCandidates : cull[i] = ReferenceFlag(i)
        BY <2>1, CandidateNumbers DEF RowsOK, MemoryOK
    <2>5. cullRun'.cursor = cullRun.cursor
        BY <2>1 DEF NoCullRun
    <2>6. CountsRight(cullRun.cursor)'
        BY <2>1, <2>2, <2>3, <2>5 DEF CountsRight
    <2> QED BY <2>1, <2>2, <2>4, <2>6 DEF ExactInv
<1>4. CASE CullAgain
    BY <1>4 DEF CullAgain, ExactInv
<1>5. ASSUME cullJob = "running", cullJob' = "stopped", UNCHANGED <<hits, rules, cull>>,
             cullCp' = cullCp \/ (cullCp.phase = "family" /\ cullCp' = cullRun.cursor)
      PROVE  ExactInv'
    <2>1. cullCp'.phase = cullCp.phase /\ cullCp'.index = cullCp.index /\ (cullCp.phase # "family" => cullCp' = cullCp)
        BY <1>5 DEF CullInv, PassOK
    <2>2. (\A k : EvaluateItem(k)' = EvaluateItem(k) /\ ReferenceFlag(k)' = ReferenceFlag(k)) /\ RefCulled' = RefCulled
        BY <1>5, ReferenceStays
    <2>3. RowsOK
        BY <1>5 DEF ExactInv
    <2>c. UNCHANGED <<CullCandidates, Candidates>>
        BY <1>5, RulesStay
    <2>4. RowsOK'
        BY <1>5, <2>1, <2>2, <2>3, <2>c DEF RowsOK, CountsRight
    <2> QED BY <1>5, <2>4 DEF ExactInv
<1>6. CASE CullPause
    BY <1>5, <1>6 DEF CullPause, InItemPass, InFamilyCull, CullInv, PassOK
<1>7. CASE CullCrash
    BY <1>5, <1>7 DEF CullCrash
<1> QED BY <1>0, <1>1, <1>2, <1>3, <1>4, <1>6, <1>7, ExactItem, ExactEnter, ExactDecide, ExactWrite
        DEF CullNext, CullStep

LEMMA CullExactIdle == ASSUME ExactInv, UNCHANGED cullVars, dedup' = dedup \/ cullJob = "queued" PROVE ExactInv'
<1>1. CASE cullJob = "queued"
    BY <1>1 DEF ExactInv, cullVars
<1>2. CASE dedup' = dedup
    <2>1. (\A k : EvaluateItem(k)' = EvaluateItem(k) /\ ReferenceFlag(k)' = ReferenceFlag(k)) /\ RefCulled' = RefCulled
        BY <1>2, ReferenceStays DEF cullVars
    <2>c. UNCHANGED <<CullCandidates, Candidates>>
        BY RulesStay DEF cullVars
    <2>2. RowsOK => RowsOK'
        BY <2>1, <2>c DEF RowsOK, CountsRight, cullVars
    <2>3. MemoryOK => MemoryOK'
        BY <2>1, <2>c DEF MemoryOK, CountsRight, cullVars
    <2>4. CountsRight(cullRun.cursor) => CountsRight(cullRun.cursor)'
        BY <2>1, <2>c DEF CountsRight, cullVars
    <2> QED BY <2>1, <2>2, <2>3, <2>4, <2>c DEF ExactInv, cullVars
<1> QED BY <1>1, <1>2

LEMMA CullMatches == ASSUME CullInv, ExactInv PROVE CullMatchesPolicy
<1> SUFFICES ASSUME cullJob = "succeeded"
             PROVE  /\ \A i \in CullCandidates : cull[i] = ReferenceFlag(i)
                    /\ cullRun.cursor.culled = CountCulled(cull)
                    /\ cullRun.cursor.included = Candidates - CountCulled(cull)
    BY DEF CullMatchesPolicy
<1>1. CountsRight(cullRun.cursor) /\ \A i \in CullCandidates : cull[i] = ReferenceFlag(i)
    BY DEF ExactInv
<1>2. {i \in CullCandidates : cull[i].status = "culled"} = {i \in CullCandidates : ReferenceFlag(i).status = "culled"}
    BY <1>1
<1>3. CountCulled(cull) = RefCulled
    BY <1>2, Zenon DEF CountCulled, RefCulled
<1> QED BY <1>1, <1>3 DEF CountsRight

-----------------------------------------------------------------------------
(* The emails that stand for themselves and that no rule hits: no cull ever flags one otherwise than *)
(* included, in any mode.                                                                            *)

Kept == {e \in Emails : Stands(e) /\ e \notin Hits}

KeptOK ==
    /\ \A e \in Kept : cull[e] \in {NoFlag, Included}
    /\ \A n \in 1..Len(cullRun.updates) : cullRun.updates[n].item \in Kept => cullRun.updates[n].flag = Included

LEMMA KeptFacts ==
    ASSUME RolesAreReference, NEW e \in Kept
    PROVE  /\ e \in Items /\ e \in CullCandidates /\ ~HasParent(e) /\ dedup[e].role # "duplicate"
           /\ EvaluateItem(e) = Included
<1>1. e \in Emails /\ Stands(e) /\ e \notin Hits
    BY DEF Kept
<1>2. e \in Items /\ e \in CullCandidates /\ ~HasParent(e)
    BY <1>1, ItemNumbers, CandidateNumbers DEF HasParent
<1>3. ReferenceRole(e).role = "unique"
    BY <1>1, ReferenceRoleKind
<1>4. dedup[e].role # "duplicate"
    BY <1>1, <1>3 DEF RolesAreReference
<1>5. EvaluateItem(e) = Flag({} \cup {})
    BY <1>1, <1>4 DEF EvaluateItem
<1>6. EvaluateItem(e) = Included
    BY <1>5 DEF Flag
<1> QED BY <1>2, <1>4, <1>6

LEMMA KeptStays == ASSUME UNCHANGED <<input, hits, rules>> PROVE Kept' = Kept
BY InputDecides, RulesStay DEF Kept

LEMMA KeptNext ==
    ASSUME CullInv, KeptOK, RolesAreReference, input' = input, CullNext
    PROVE  KeptOK'
<1>0. ASSUME UNCHANGED <<hits, rules>> PROVE Kept' = Kept
    BY <1>0, KeptStays
<1>1. \A e \in Kept : e \in Items /\ e \in CullCandidates /\ ~HasParent(e) /\ EvaluateItem(e) = Included
    BY KeptFacts
<1>2. ASSUME NEW cp, CullOpen(cp), cp = FreshCullCursor \/ (cullJob = "stopped" /\ cp = cullCp),
             rules' \in {"own", "default"}, rules' = rules \/ IsFreshCull(cp)
      PROVE  KeptOK'
    <2>1. cullRun'.updates = <<>> /\ (\A i \in Items : cull'[i] = cull[i] \/ cull'[i] = NoFlag) /\ hits' = hits
          /\ (Reset' /\ IsFreshCull(cp) => \A i \in CullCandidates' : cull'[i] = NoFlag)
        BY <1>2, CullOpenFacts
    <2>2. CASE Kept' \subseteq Kept
        BY <1>1, <2>1, <2>2 DEF KeptOK
    <2>3. CASE rules' = rules
        <3>1. Kept' = Kept
            BY <1>0, <2>1, <2>3
        <3> QED BY <2>2, <3>1
    <2>4. CASE rules' = "own"
        <3>1. Hits \subseteq Hits'
            BY <2>1, <2>4 DEF Hits, UniqueOnly
        <3>2. Kept' \subseteq Kept
            BY <3>1, InputDecides DEF Kept
        <3> QED BY <2>2, <3>2
    <2>5. CASE rules' = "default" /\ rules' # rules
        <3>1. Reset'
            BY <2>5 DEF Reset, UniqueOnly
        <3>2. \A i \in CullCandidates' : cull'[i] = NoFlag
            BY <1>2, <2>1, <2>5, <3>1
        <3>3. Kept' \subseteq CullCandidates'
            BY NextCandidateNumbers DEF Kept
        <3> QED BY <2>1, <3>2, <3>3 DEF KeptOK
    <2> QED BY <1>2, <2>3, <2>4, <2>5
<1>3. CASE CullItem
    <2>1. cullJob = "running" /\ cullCp.phase = "items" /\ Kept' = Kept
        BY <1>0, <1>3, CullItemFacts
    <2>2. PICK i \in CullCandidates, batch \in SUBSET CullCandidates :
                \/ WriteItemBatch(batch, i)
                \/ cullRun' = [cullRun EXCEPT !.batch = batch, !.at = i] /\ UNCHANGED <<cull, cullCp>>
        BY <1>3, CullItemFacts
    <2>3. CASE WriteItemBatch(batch, i)
        <3>1. /\ \A k \in Items : cull'[k] = IF k \in batch THEN EvaluateItem(k) ELSE cull[k]
              /\ cullRun'.updates = cullRun.updates
            BY <2>1, <2>3, WriteItemFacts
        <3> QED BY <1>1, <2>1, <3>1 DEF KeptOK
    <2>4. CASE cullRun' = [cullRun EXCEPT !.batch = batch, !.at = i] /\ UNCHANGED <<cull, cullCp>>
        <3>1. cullRun'.updates = cullRun.updates
            BY <2>4 DEF CullInv, CullTypeOK
        <3> QED BY <2>1, <2>4, <3>1 DEF KeptOK
    <2> QED BY <2>2, <2>3, <2>4
<1>4. CASE CullEnterFamily
    <2>1. cull' = cull /\ cullRun'.updates = cullRun.updates /\ Kept' = Kept
        BY <1>0, <1>4, CullEnterFacts
    <2> QED BY <2>1 DEF KeptOK
<1>5. CASE CullDecide
    <2>1. cull' = cull /\ (cullRun' = NoCullRun \/ cullRun'.updates = UpdateList(ApplyFamilyPolicy(ReadBack)))
          /\ Kept' = Kept
        BY <1>0, <1>5, CullDecideFacts
    <2>2. CASE cullRun' = NoCullRun
        <3>1. cullRun'.updates = <<>>
            BY <2>2 DEF NoCullRun
        <3> QED BY <2>1, <3>1 DEF KeptOK
    <2>3. CASE cullRun'.updates = UpdateList(ApplyFamilyPolicy(ReadBack))
        <3> DEFINE final == ApplyFamilyPolicy(ReadBack)
        <3>1. final \in [CullCandidates -> CullFlags]
            BY ReadBackFacts, PolicyKeeps DEF CullInv
        <3>2. ASSUME NEW e \in Kept PROVE final[e] = Included
            <4>1. e \in CullCandidates /\ ~HasParent(e) /\ cull[e] \in {NoFlag, Included}
                BY <1>1 DEF KeptOK
            <4>2. ReadBack \in [CullCandidates -> CullFlags]
                BY ReadBackFacts DEF CullInv
            <4>3. final[e] = ReadBack[e]
                BY <4>1, <4>2, PolicyKeeps
            <4>4. Included.status # "null"
                BY DEF Included
            <4>5. ReadBack[e] = Included
                BY <4>1, <4>4, ReadBackFacts DEF CullInv
            <4> QED BY <4>3, <4>5
        <3> HIDE DEF final
        <3>3. \A n \in 1..Len(UpdateList(final)) : UpdateList(final)[n].flag = final[UpdateList(final)[n].item]
            BY <3>1, UpdateListFacts
        <3>4. cullRun'.updates = UpdateList(final)
            BY <2>3 DEF final
        <3> QED BY <2>1, <3>2, <3>3, <3>4 DEF KeptOK
    <2> QED BY <2>1, <2>2, <2>3
<1>6. CASE CullWriteFamily
    <2>1. cullRun'.updates = cullRun.updates /\ Len(cullRun.updates) \in Nat /\ Kept' = Kept
        BY <1>0, <1>6, CullWriteFacts DEF CullInv, CullTypeOK
    <2>2. PICK from \in Nat, end \in Nat :
            /\ from = cullCp.index /\ end <= Len(cullRun.updates) /\ from <= end /\ cullCp'.index = end
            /\ cullCp'.phase = IF end = Len(cullRun.updates) THEN "done" ELSE "family"
            /\ \A i \in Items :
                \/ \E n \in (from + 1)..end : cullRun.updates[n].item = i /\ cull'[i] = cullRun.updates[n].flag
                \/ /\ \A n \in (from + 1)..end : cullRun.updates[n].item # i
                   /\ cull'[i] = cull[i]
        BY <1>6, CullWriteFacts
    <2>3. ASSUME NEW e \in Kept PROVE cull'[e] \in {NoFlag, Included}
        <3>1. CASE cull'[e] = cull[e]
            BY <3>1 DEF KeptOK
        <3>2. CASE cull'[e] # cull[e]
            <4>1. PICK n \in (from + 1)..end : cullRun.updates[n].item = e /\ cull'[e] = cullRun.updates[n].flag
                BY <1>1, <2>2, <3>2
            <4>2. n \in 1..Len(cullRun.updates)
                BY <2>1, <2>2
            <4> QED BY <4>1, <4>2 DEF KeptOK
        <3> QED BY <3>1, <3>2
    <2> QED BY <2>1, <2>3 DEF KeptOK
<1>7. ASSUME UNCHANGED <<hits, rules, cull>>, cullRun'.updates = <<>> \/ cullRun' = cullRun PROVE KeptOK'
    <2>1. CASE cullRun'.updates = <<>>
        BY <1>0, <1>7, <2>1 DEF KeptOK
    <2>2. CASE cullRun' = cullRun
        BY <1>0, <1>7, <2>2 DEF KeptOK
    <2> QED BY <1>7, <2>1, <2>2
<1>8. CASE CullSucceed \/ CullAgain \/ CullPause \/ CullCrash
    <2>1. UNCHANGED <<hits, rules, cull>> /\ (cullRun' = NoCullRun \/ cullRun' = [NoCullRun EXCEPT !.cursor = cullRun.cursor]
                           \/ cullRun' = cullRun)
        BY <1>8 DEF CullSucceed, CullAgain, CullPause, CullCrash
    <2>2. cullRun'.updates = <<>> \/ cullRun' = cullRun
        BY <2>1 DEF NoCullRun
    <2> QED BY <1>7, <2>1, <2>2
<1>9. CASE CullStart
    BY <1>2, <1>9 DEF CullStart, IsFreshCull, FreshCullCursor
<1>10. CASE CullResume
    BY <1>2, <1>10 DEF CullResume, CullInv, CullTypeOK
<1> QED BY <1>3, <1>4, <1>5, <1>6, <1>8, <1>9, <1>10 DEF CullNext, CullStep

LEMMA KeptIdle == ASSUME KeptOK, input' = input, UNCHANGED cullVars PROVE KeptOK'
BY KeptStays DEF KeptOK, cullVars

LEMMA KeptInit == ASSUME CullInit PROVE KeptOK
<1>1. \A e \in Kept : e \in Items
    BY ItemNumbers DEF Kept
<1> QED BY <1>1 DEF CullInit, KeptOK, NoCullRun
=============================================================================
