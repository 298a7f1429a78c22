------------------------ MODULE MatterDedupe_proofs ------------------------
(***************************************************************************)
(* About MatterDedupe, for every matter, keying, batch size and number of  *)
(* stops: every role in the item rows is the reference role, families are  *)
(* settled and the counters are right.                                     *)
(*                                                                         *)
(* The strengthening says what a job's memory is worth: the maps hold the  *)
(* first representative under each key among the items passed so far,      *)
(* every item passed has its role, committed or staged, and the counters   *)
(* count the roles the job has given, committed or staged.                 *)
(***************************************************************************)
EXTENDS MatterDedupe, FiniteSetTheorems, WellFoundedInduction, TLAPS

(* The first of a set of items is a member of it and no later than the others. *)
LEMMA FirstOfIsMin ==
    ASSUME NEW S, \A y \in S : y \in Nat
    PROVE  /\ S = {} => FirstOf(S) = 0
           /\ S # {} => FirstOf(S) \in S /\ \A y \in S : FirstOf(S) <= y
<1>1. CASE S = {}
  BY <1>1 DEF FirstOf
<1>2. CASE S # {}
  <2>0. S \subseteq Nat
    OBVIOUS
  <2>1. PICK x \in S : \A y \in S : ~(<<y, x>> \in OpToRel(<, Nat))
    BY <1>2, <2>0, WFMin, NatLessThanWellFounded
  <2>2. ASSUME NEW y \in S, y < x PROVE FALSE
    <3>1. <<y, x>> \in OpToRel(<, Nat)
      BY <2>0, <2>2 DEF OpToRel
    <3> QED BY <2>1, <3>1
  <2>3. \A y \in S : x <= y
    BY <2>2
  <2> QED BY <1>2, <2>3 DEF FirstOf
<1> QED BY <1>1, <1>2

(* A least member is the first. *)
LEMMA FirstOfIs ==
    ASSUME NEW S, \A y \in S : y \in Nat, NEW x \in S, \A y \in S : x <= y
    PROVE  FirstOf(S) = x
<1>1. FirstOf(S) \in S /\ FirstOf(S) <= x
  BY FirstOfIsMin
<1> QED BY <1>1

(* A later item is the first only of an empty set. *)
LEMMA FirstOfExtended ==
    ASSUME NEW S, NEW n \in Nat, \A y \in S : y \in Nat /\ 1 <= y /\ y <= n
    PROVE  FirstOf(S \cup {n + 1}) = IF FirstOf(S) = 0 THEN n + 1 ELSE FirstOf(S)
<1> DEFINE T == S \cup {n + 1}
<1>0. \A y \in T : y \in Nat
  OBVIOUS
<1>1. CASE S = {}
  <2>1. FirstOf(S) = 0
    BY <1>1, FirstOfIsMin
  <2>2. n + 1 \in T /\ \A y \in T : n + 1 <= y
    BY <1>1
  <2> HIDE DEF T
  <2>3. FirstOf(T) = n + 1
    BY <1>0, <2>2, FirstOfIs
  <2> QED BY <2>1, <2>3 DEF T
<1>2. CASE S # {}
  <2>1. FirstOf(S) \in S /\ \A y \in S : FirstOf(S) <= y
    BY <1>2, FirstOfIsMin
  <2>2. FirstOf(S) \in T /\ \A y \in T : FirstOf(S) <= y
    BY <2>1
  <2> HIDE DEF T
  <2>3. FirstOf(T) = FirstOf(S)
    BY <1>0, <2>2, FirstOfIs
  <2> QED BY <2>1, <2>3 DEF T
<1> QED BY <1>1, <1>2

(* A finite set of positive numbers has an element at every index below its size. *)
LEMMA ElementAtIndex ==
    ASSUME NEW n \in Nat, NEW D, \A q \in D : q \in Nat /\ 1 <= q /\ q <= n,
           NEW f \in Nat, f < Cardinality(D)
    PROVE  \E x \in D : Cardinality({q \in D : q < x}) = f
<1> DEFINE UpTo(x) == {q \in D : q <= x}
<1>1. IsFiniteSet(D)
  <2>1. D \in SUBSET (1..n)
    OBVIOUS
  <2>2. IsFiniteSet(1..n)
    BY FS_Interval
  <2> QED BY <2>1, <2>2, FS_Subset
<1>2. \A x : IsFiniteSet(UpTo(x)) /\ Cardinality(UpTo(x)) \in Nat
  <2> SUFFICES ASSUME NEW x PROVE IsFiniteSet(UpTo(x)) /\ Cardinality(UpTo(x)) \in Nat
    OBVIOUS
  <2>1. UpTo(x) \in SUBSET D
    OBVIOUS
  <2> QED BY <1>1, <2>1, FS_Subset, FS_CardinalityType
<1>3. UpTo(n) = D /\ UpTo(0) = {}
  OBVIOUS
<1> DEFINE Past == {x \in 0..n : Cardinality(UpTo(x)) > f}
<1>4. PICK x \in Past : \A y \in Past : x <= y
  <2>1. n \in Past
    BY <1>3
  <2>2. \A y \in Past : y \in Nat
    OBVIOUS
  <2> HIDE DEF Past
  <2> QED BY <2>1, <2>2, FirstOfIsMin
<1>5. x \in Nat /\ x <= n /\ Cardinality(UpTo(x)) > f
  BY <1>4
<1>6. x # 0
  BY <1>3, <1>5, FS_EmptySet
<1>7. Cardinality(UpTo(x - 1)) \in Nat /\ Cardinality(UpTo(x - 1)) <= f
  <2>1. x - 1 \in 0..n /\ x - 1 < x
    BY <1>5, <1>6
  <2>2. x - 1 \notin Past
    <3> HIDE DEF Past
    <3> QED BY <1>4, <1>5, <2>1
  <2>3. ~(Cardinality(UpTo(x - 1)) > f)
    BY <2>1, <2>2
  <2> HIDE DEF UpTo
  <2> QED BY <1>2, <2>3
<1>8. UpTo(x) = IF x \in D THEN UpTo(x - 1) \cup {x} ELSE UpTo(x - 1)
  BY <1>5
<1>9. x \notin UpTo(x - 1) /\ UpTo(x - 1) = {q \in D : q < x}
  BY <1>5
<1> HIDE DEF UpTo
<1>10. x \in D
  BY <1>5, <1>7, <1>8
<1>11. Cardinality(UpTo(x)) = Cardinality(UpTo(x - 1)) + 1
  BY <1>2, <1>8, <1>9, <1>10, FS_AddElement
<1>12. Cardinality(UpTo(x - 1)) = f
  BY <1>5, <1>7, <1>11
<1> QED BY <1>9, <1>10, <1>12

(* dup_parents[idx] exists while family_cursor is below its length. *)
LEMMA DupParentExists ==
    ASSUME DedupeTypeOK, MoreDupParents
    PROVE  DupParent \in DupParents
<1> DEFINE f == dedupeRun.cursor.family
           D == DupParents
<1>1. f \in Nat
  BY DEF DedupeTypeOK, DedupeRuns, DedupeCursors
<1>2. NE \in Nat /\ \A q \in D : q \in Nat /\ 1 <= q /\ q <= NE
  BY ItemsAssumptions DEF DupParents, Emails
<1>3. f < Cardinality(D)
  BY DEF MoreDupParents
<1>4. \E x \in D : Cardinality({q \in D : q < x}) = f
  <2> HIDE DEF f, D
  <2> QED BY <1>1, <1>2, <1>3, ElementAtIndex
<1> QED BY <1>4 DEF DupParent

-----------------------------------------------------------------------------
(* Representatives and the key maps. *)

(* e stands for itself: it is what resolve_parent calls unique. *)
Stands(e) == Representative(e) = e

(* The maps hold the first representative under each key among the first n emails. *)
MidHolders(k, n) == {e \in 1..n : Stands(e) /\ MidKey(e) = k}
LogicalHolders(k, n) == {e \in 1..n : Stands(e) /\ LogicalKey(e) = k}
MapsExact(maps, n) ==
    /\ \A k \in Mids : maps.mid[k] = FirstOf(MidHolders(k, n))
    /\ \A k \in Logicals : maps.logical[k] = FirstOf(LogicalHolders(k, n))

LEMMA KeysAreKeys ==
    ASSUME input \in DedupeInputs, NEW e \in Emails
    PROVE  MidKey(e) \in Mids \cup {NoKey} /\ LogicalKey(e) \in Logicals \cup {NoKey}
BY DedupeAssumptions DEF MidKey, LogicalKey

LEMMA EmailNumbers == NE \in Nat /\ NI \in Nat /\ NE <= NI /\ \A e : e \in Emails <=> e \in Nat /\ 1 <= e /\ e <= NE
BY ItemsAssumptions DEF Emails

(* The representative of e is no later than e and stands for itself. *)
LEMMA RepresentativeStands ==
    ASSUME NEW e \in Emails
    PROVE  /\ Representative(e) \in Emails
           /\ Representative(e) <= e
           /\ Stands(Representative(e))
<1> DEFINE k == MidKey(e)
           l == LogicalKey(e)
<1> USE EmailNumbers
<1>1. CASE k # NoKey
  <2> DEFINE S == WithMid(k)
             f == FirstOf(S)
  <2>1. e \in S /\ \A y \in S : y \in Nat
    BY DEF WithMid
  <2>2. f \in S /\ f <= e
    <3> HIDE DEF S
    <3> QED BY <2>1, FirstOfIsMin
  <2>3. f \in Emails /\ MidKey(f) = k
    BY <2>2 DEF WithMid
  <2>4. Representative(e) = f /\ Representative(f) = f
    BY <1>1, <2>3 DEF Representative
  <2> QED BY <2>2, <2>3, <2>4 DEF Stands
<1>2. CASE k = NoKey /\ l # NoKey
  <2> DEFINE S == WithLogical(l)
             f == FirstOf(S)
  <2>1. e \in S /\ \A y \in S : y \in Nat
    BY <1>2 DEF WithLogical, Standing
  <2>2. f \in S /\ f <= e
    <3> HIDE DEF S
    <3> QED BY <2>1, FirstOfIsMin
  <2>3. f \in Emails /\ LogicalKey(f) = l /\ Standing(f)
    BY <2>2 DEF WithLogical
  <2>4. Representative(e) = f
    BY <1>2 DEF Representative
  <2>5. Representative(f) = f
    BY <1>2, <2>3 DEF Representative, Standing
  <2> QED BY <2>2, <2>3, <2>4, <2>5 DEF Stands
<1>3. CASE k = NoKey /\ l = NoKey
  BY <1>3 DEF Representative, Stands
<1> QED BY <1>1, <1>2, <1>3

(* What resolve_parent finds in exact maps is the representative, or nothing for a new one. *)
LEMMA CanonicalIsRepresentative ==
    ASSUME input \in DedupeInputs, NEW n \in Nat, n + 1 \in Emails, NEW maps, MapsExact(maps, n)
    PROVE  CanonicalFor(n + 1, maps) = IF Stands(n + 1) THEN 0 ELSE Representative(n + 1)
<1> DEFINE e == n + 1
           f == Representative(e)
           k == MidKey(e)
           l == LogicalKey(e)
<1> USE EmailNumbers
<1>1. f \in Emails /\ f <= e /\ Stands(f)
  BY RepresentativeStands
<1>2. f # e => f \in 1..n
  BY <1>1
<1>3. CASE k # NoKey
  <2> DEFINE H == MidHolders(k, n)
  <2>1. k \in Mids /\ CanonicalFor(e, maps) = FirstOf(H)
    BY <1>3, KeysAreKeys DEF CanonicalFor, MapsExact
  <2>2. f = FirstOf(WithMid(k)) /\ e \in WithMid(k)
    BY <1>3 DEF Representative, WithMid
  <2>3. \A y \in WithMid(k) : y \in Nat
    BY DEF WithMid
  <2>4. f \in WithMid(k) /\ \A y \in WithMid(k) : f <= y
    BY <2>2, <2>3, FirstOfIsMin
  <2>5. \A y \in H : y \in WithMid(k) /\ y \in Nat /\ y <= n
    BY DEF MidHolders, WithMid
  <2>6. CASE f = e
    <3>1. H = {}
      BY <2>4, <2>5, <2>6
    <3> QED BY <2>1, <2>6, <3>1, FirstOfIsMin DEF Stands
  <2>7. CASE f # e
    <3>1. f \in H
      BY <1>1, <1>2, <2>4, <2>7 DEF MidHolders, WithMid
    <3>2. FirstOf(H) = f
      <4> HIDE DEF H, f
      <4> QED BY <2>4, <2>5, <3>1, FirstOfIs
    <3> QED BY <2>1, <2>7, <3>2 DEF Stands
  <2> QED BY <2>6, <2>7
<1>4. CASE k = NoKey /\ l # NoKey
  <2> DEFINE H == LogicalHolders(l, n)
  <2>1. l \in Logicals /\ CanonicalFor(e, maps) = FirstOf(H)
    BY <1>4, KeysAreKeys DEF CanonicalFor, MapsExact
  <2>2. f = FirstOf(WithLogical(l)) /\ e \in WithLogical(l)
    BY <1>4 DEF Representative, WithLogical, Standing
  <2>3. \A y \in WithLogical(l) : y \in Nat
    BY DEF WithLogical
  <2>4. f \in WithLogical(l) /\ \A y \in WithLogical(l) : f <= y
    BY <2>2, <2>3, FirstOfIsMin
  <2>5. \A y \in H : y \in WithLogical(l) /\ y \in Nat /\ y <= n
    <3> SUFFICES ASSUME NEW y \in H PROVE y \in WithLogical(l) /\ y \in Nat /\ y <= n
      OBVIOUS
    <3>1. y \in Emails /\ y <= n /\ Stands(y) /\ LogicalKey(y) = l
      BY DEF LogicalHolders
    <3>2. Standing(y)
      BY <3>1 DEF Stands, Standing, Representative
    <3> QED BY <3>1, <3>2 DEF WithLogical
  <2>6. CASE f = e
    <3>1. H = {}
      BY <2>4, <2>5, <2>6
    <3> QED BY <2>1, <2>6, <3>1, FirstOfIsMin DEF Stands
  <2>7. CASE f # e
    <3>1. f \in H
      BY <1>1, <1>2, <2>4, <2>7 DEF LogicalHolders, WithLogical
    <3>2. FirstOf(H) = f
      <4> HIDE DEF H, f
      <4> QED BY <2>4, <2>5, <3>1, FirstOfIs
    <3> QED BY <2>1, <2>7, <3>2 DEF Stands
  <2> QED BY <2>6, <2>7
<1>5. CASE k = NoKey /\ l = NoKey
  BY <1>5 DEF CanonicalFor, Representative, Stands
<1> QED BY <1>3, <1>4, <1>5

(* Passing one more email keeps the maps exact when exactly the representatives are inserted. *)
LEMMA SeedKeepsExact ==
    ASSUME input \in DedupeInputs, NEW n \in Nat, n + 1 \in Emails, NEW maps, MapsExact(maps, n)
    PROVE  MapsExact(IF Stands(n + 1) THEN SeedMaps(maps, n + 1) ELSE maps, n + 1)
<1> USE EmailNumbers
<1>1. CASE ~Stands(n + 1)
  <2>1. \A k : MidHolders(k, n + 1) = MidHolders(k, n) /\ LogicalHolders(k, n + 1) = LogicalHolders(k, n)
    BY <1>1 DEF MidHolders, LogicalHolders
  <2> QED BY <1>1, <2>1 DEF MapsExact
<1>2. CASE Stands(n + 1)
  <2>1. ASSUME NEW k \in Mids
        PROVE  SeedMaps(maps, n + 1).mid[k] = FirstOf(MidHolders(k, n + 1))
    <3> DEFINE H == MidHolders(k, n)
    <3>1. \A y \in H : y \in Nat /\ 1 <= y /\ y <= n
      BY DEF MidHolders
    <3>2. SeedMaps(maps, n + 1).mid[k] = IF k = MidKey(n + 1) /\ FirstOf(H) = 0 THEN n + 1 ELSE FirstOf(H)
      BY DEF SeedMaps, MapsExact
    <3>3. CASE k # MidKey(n + 1)
      <4>1. MidHolders(k, n + 1) = H
        BY <3>3 DEF MidHolders
      <4> QED BY <3>2, <3>3, <4>1
    <3>4. CASE k = MidKey(n + 1)
      <4>1. MidHolders(k, n + 1) = H \cup {n + 1}
        BY <1>2, <3>4 DEF MidHolders
      <4>2. FirstOf(H \cup {n + 1}) = IF FirstOf(H) = 0 THEN n + 1 ELSE FirstOf(H)
        <5> HIDE DEF H
        <5> QED BY <3>1, FirstOfExtended
      <4> QED BY <3>2, <3>4, <4>1, <4>2
    <3> QED BY <3>3, <3>4
  <2>2. ASSUME NEW k \in Logicals
        PROVE  SeedMaps(maps, n + 1).logical[k] = FirstOf(LogicalHolders(k, n + 1))
    <3> DEFINE H == LogicalHolders(k, n)
    <3>1. \A y \in H : y \in Nat /\ 1 <= y /\ y <= n
      BY DEF LogicalHolders
    <3>2. SeedMaps(maps, n + 1).logical[k] =
            IF k = LogicalKey(n + 1) /\ FirstOf(H) = 0 THEN n + 1 ELSE FirstOf(H)
      BY DEF SeedMaps, MapsExact
    <3>3. CASE k # LogicalKey(n + 1)
      <4>1. LogicalHolders(k, n + 1) = H
        BY <3>3 DEF LogicalHolders
      <4> QED BY <3>2, <3>3, <4>1
    <3>4. CASE k = LogicalKey(n + 1)
      <4>1. LogicalHolders(k, n + 1) = H \cup {n + 1}
        BY <1>2, <3>4 DEF LogicalHolders
      <4>2. FirstOf(H \cup {n + 1}) = IF FirstOf(H) = 0 THEN n + 1 ELSE FirstOf(H)
        <5> HIDE DEF H
        <5> QED BY <3>1, FirstOfExtended
      <4> QED BY <3>2, <3>4, <4>1, <4>2
    <3> QED BY <3>3, <3>4
  <2> QED BY <1>2, <2>1, <2>2 DEF MapsExact
<1> QED BY <1>1, <1>2

(* A reference role is "unique" for exactly the representatives, and never NULL. *)
LEMMA ReferenceRoleKind ==
    ASSUME NEW e \in Emails
    PROVE  /\ ReferenceRole(e).role = "unique" <=> Stands(e)
           /\ ReferenceRole(e).role # "null"
           /\ ReferenceRole(e) # NullRole
<1>1. Representative(e) # 0
  BY RepresentativeStands, EmailNumbers
<1> QED BY <1>1 DEF ReferenceRole, RoleOf, Stands, NullRole

(* rebuild_maps_from_committed: what a resume rebuilds from reference roles is exact. *)
LEMMA RebuildIsExact ==
    ASSUME NEW n \in 0..NE, NEW roles, \A e \in 1..n : roles[e] = ReferenceRole(e)
    PROVE  MapsExact(RebuildMaps(roles, n), n)
<1> USE EmailNumbers
<1>1. \A e \in 1..n : roles[e].role = "unique" <=> Stands(e)
  BY ReferenceRoleKind
<1> DEFINE U == {e \in 1..n : roles[e].role = "unique"}
<1>2. \A k : {e \in U : MidKey(e) = k} = MidHolders(k, n)
  BY <1>1 DEF MidHolders
<1>3. \A k : {e \in U : LogicalKey(e) = k} = LogicalHolders(k, n)
  BY <1>1 DEF LogicalHolders
<1> HIDE DEF U
<1>4. RebuildMaps(roles, n) = [mid |-> [k \in Mids |-> FirstOf({e \in U : MidKey(e) = k})],
                               logical |-> [k \in Logicals |-> FirstOf({e \in U : LogicalKey(e) = k})]]
  BY DEF RebuildMaps, U
<1> QED BY <1>2, <1>3, <1>4 DEF MapsExact

-----------------------------------------------------------------------------
(* The inductive invariant. *)

(* What is staged for an email is its reference role. *)
StagedAreReference(staged) == \A e \in Emails : staged[e] # NullRole => staged[e] = ReferenceRole(e)

(* Every email before the cursor has its role, committed or staged. *)
Covered(run) == \A e \in 1..run.cursor.next : dedup[e].role # "null" \/ run.staged[e] # NullRole

RunOK(run) ==
    /\ run \in DedupeRuns
    /\ StagedAreReference(run.staged)
    /\ Covered(run)
    /\ MapsExact(run.maps, run.cursor.next)

DedupeInv ==
    /\ DedupeTypeOK
    /\ RolesAreReference
    /\ \A e \in 1..dedupeCp.next : dedup[e].role # "null"
    /\ RunOK(dedupeRun)

(* Keys, representatives and reference roles depend on the input alone. *)
LEMMA InputDecides ==
    ASSUME input' = input
    PROVE  /\ \A e : ReferenceRole(e)' = ReferenceRole(e)
           /\ \A e : Stands(e)' = Stands(e)
           /\ \A e : MidKey(e)' = MidKey(e) /\ LogicalKey(e)' = LogicalKey(e)
<1>1. \A e : MidKey(e)' = MidKey(e) /\ LogicalKey(e)' = LogicalKey(e)
  BY DEF MidKey, LogicalKey
<1>2. \A k : WithMid(k)' = WithMid(k)
  BY <1>1 DEF WithMid
<1>3. \A e : Standing(e)' = Standing(e)
  BY <1>1, <1>2 DEF Standing
<1>4. \A k : WithLogical(k)' = WithLogical(k)
  BY <1>1, <1>3 DEF WithLogical
<1>5. \A e : Representative(e)' = Representative(e)
  BY <1>1, <1>2, <1>4 DEF Representative
<1>6. \A e : ReferenceRole(e)' = ReferenceRole(e)
  BY <1>1, <1>5 DEF ReferenceRole, Tier, RoleOf
<1> QED BY <1>1, <1>5, <1>6 DEF Stands

LEMMA MapsExactStays ==
    ASSUME input' = input, NEW run, MapsExact(run.maps, run.cursor.next),
           dedupeRun'.maps = run.maps, dedupeRun'.cursor.next = run.cursor.next
    PROVE  MapsExact(dedupeRun.maps, dedupeRun.cursor.next)'
<1> DEFINE n == run.cursor.next
<1>1. \A k : {e \in 1..n : Stands(e)' /\ MidKey(e)' = k} = MidHolders(k, n)
  BY InputDecides DEF MidHolders
<1>2. \A k : {e \in 1..n : Stands(e)' /\ LogicalKey(e)' = k} = LogicalHolders(k, n)
  BY InputDecides DEF LogicalHolders
<1>3. \A k : MidHolders(k, dedupeRun.cursor.next)' = MidHolders(k, n)
  BY <1>1 DEF MidHolders
<1>4. \A k : LogicalHolders(k, dedupeRun.cursor.next)' = LogicalHolders(k, n)
  BY <1>2 DEF LogicalHolders
<1> QED BY <1>3, <1>4 DEF MapsExact

(* A memory that is in order stays so while the rows do not change. *)
LEMMA RunStays ==
    ASSUME NEW run, RunOK(run), input' = input, dedup' = dedup, dedupeRun' = run
    PROVE  RunOK(dedupeRun)'
<1>1. StagedAreReference(dedupeRun.staged)'
  BY InputDecides DEF RunOK, StagedAreReference
<1>2. Covered(dedupeRun)'
  BY DEF RunOK, Covered
<1>3. MapsExact(dedupeRun.maps, dedupeRun.cursor.next)'
  BY MapsExactStays DEF RunOK
<1> QED BY <1>1, <1>2, <1>3 DEF RunOK

LEMMA EmptyRunIsOK ==
    ASSUME input \in DedupeInputs
    PROVE  RunOK(NoDedupeRun)
<1> USE EmailNumbers
<1>1. NullRole \in DedupeRoles
  BY DEF NullRole, DedupeRoles
<1>2. NothingStaged \in [Items -> DedupeRoles]
  BY <1>1 DEF NothingStaged
<1>3. FreshDedupeCursor \in DedupeCursors /\ FreshDedupeCursor.next = 0
  BY DEF FreshDedupeCursor, DedupeCursors
<1>4. NoKeysSeen \in KeyMaps
  BY DEF NoKeysSeen, KeyMaps
<1>5. NoDedupeRun \in DedupeRuns
  BY <1>2, <1>3, <1>4 DEF NoDedupeRun, DedupeRuns
<1>6. StagedAreReference(NothingStaged)
  BY ItemsAssumptions DEF StagedAreReference, NothingStaged, Items, Emails
<1>7. \A k : MidHolders(k, 0) = {} /\ LogicalHolders(k, 0) = {}
  BY DEF MidHolders, LogicalHolders
<1>8. MapsExact(NoKeysSeen, 0)
  BY <1>7, FirstOfIsMin DEF MapsExact, NoKeysSeen
<1>9. Covered(NoDedupeRun)
  BY <1>3 DEF Covered, NoDedupeRun
<1> QED BY <1>3, <1>5, <1>6, <1>8, <1>9 DEF RunOK, NoDedupeRun

LEMMA EmptyRunStays ==
    ASSUME input \in DedupeInputs, input' = input, dedupeRun' = NoDedupeRun
    PROVE  RunOK(dedupeRun)'
<1>1. RunOK(NoDedupeRun) /\ NoDedupeRun.cursor.next = 0
  BY EmptyRunIsOK DEF NoDedupeRun, FreshDedupeCursor
<1>2. StagedAreReference(dedupeRun.staged)'
  BY <1>1, InputDecides DEF RunOK, StagedAreReference
<1>3. Covered(dedupeRun)'
  BY <1>1 DEF Covered
<1>4. MapsExact(dedupeRun.maps, dedupeRun.cursor.next)'
  BY <1>1, MapsExactStays DEF RunOK
<1> QED BY <1>1, <1>2, <1>3, <1>4 DEF RunOK

(* Rows written from a batch are reference roles and cover the cursor written with them. *)
LEMMA BatchRows ==
    ASSUME DedupeInv, NEW run, RunOK(run), input' = input,
           dedup' = [i \in Items |-> IF run.staged[i] # NullRole THEN run.staged[i] ELSE dedup[i]]
    PROVE  /\ dedup' \in [Items -> DedupeRoles]
           /\ RolesAreReference'
           /\ \A e \in 1..run.cursor.next : dedup'[e].role # "null"
<1> USE EmailNumbers
<1>1. run \in DedupeRuns /\ dedup \in [Items -> DedupeRoles]
  BY DEF RunOK, DedupeInv, DedupeTypeOK
<1>2. /\ run.staged \in [Items -> DedupeRoles]
      /\ run.cursor.next \in Nat /\ run.cursor.next <= NE
  BY <1>1 DEF DedupeRuns, DedupeCursors
<1>3. dedup' \in [Items -> DedupeRoles]
  BY <1>1, <1>2
<1>4. RolesAreReference'
  <2> SUFFICES ASSUME NEW e \in Emails, dedup'[e].role # "null"
               PROVE  dedup'[e] = ReferenceRole(e)'
    BY DEF RolesAreReference
  <2>1. e \in Items
    BY DEF Items
  <2>2. dedup'[e] = IF run.staged[e] # NullRole THEN run.staged[e] ELSE dedup[e]
    BY <2>1
  <2>3. dedup'[e] = ReferenceRole(e)
    BY <2>2 DEF RunOK, StagedAreReference, DedupeInv, RolesAreReference
  <2> QED BY <2>3, InputDecides
<1>5. \A e \in 1..run.cursor.next : dedup'[e].role # "null"
  <2> SUFFICES ASSUME NEW e \in 1..run.cursor.next PROVE dedup'[e].role # "null"
    OBVIOUS
  <2>1. e \in Items /\ e \in Emails
    BY <1>2 DEF Items
  <2>2. dedup'[e] = IF run.staged[e] # NullRole THEN run.staged[e] ELSE dedup[e]
    BY <2>1
  <2>3. run.staged[e] # NullRole => run.staged[e].role # "null"
    BY <2>1, ReferenceRoleKind DEF RunOK, StagedAreReference
  <2> QED BY <2>2, <2>3 DEF RunOK, Covered
<1> QED BY <1>3, <1>4, <1>5

(* Rows and checkpoint are written in one transaction, and the job goes on. *)
LEMMA CommitKeepsInv ==
    ASSUME DedupeInv, NEW run, RunOK(run), CommitBatch(run),
           input' = input, stops' \in Nat, dedupeJob' = dedupeJob
    PROVE  DedupeInv'
<1>1. run \in DedupeRuns /\ run.cursor \in DedupeCursors /\ dedupeCp' = run.cursor
  BY DEF RunOK, DedupeRuns, CommitBatch
<1>2. /\ dedup' \in [Items -> DedupeRoles]
      /\ RolesAreReference'
      /\ \A e \in 1..run.cursor.next : dedup'[e].role # "null"
  BY BatchRows DEF CommitBatch
<1>3. RunOK(NoDedupeRun)
  BY EmptyRunIsOK DEF DedupeInv, DedupeTypeOK
<1>4. /\ dedupeRun'.staged = NothingStaged
      /\ dedupeRun'.cursor = run.cursor /\ dedupeRun'.maps = run.maps
      /\ dedupeRun' \in DedupeRuns
  BY <1>1, <1>3 DEF CommitBatch, DedupeRuns, RunOK, NoDedupeRun
<1>5. DedupeTypeOK'
  BY <1>1, <1>2, <1>4 DEF DedupeInv, DedupeTypeOK
<1>6. RunOK(dedupeRun)'
  <2>1. StagedAreReference(dedupeRun.staged)'
    BY <1>4, EmailNumbers DEF StagedAreReference, NothingStaged, Items
  <2>2. Covered(dedupeRun)'
    BY <1>2, <1>4 DEF Covered
  <2>3. MapsExact(dedupeRun.maps, dedupeRun.cursor.next)'
    BY <1>4, MapsExactStays DEF RunOK
  <2> QED BY <1>4, <2>1, <2>2, <2>3 DEF RunOK
<1> QED BY <1>1, <1>2, <1>5, <1>6 DEF DedupeInv

(* Nothing but the memory changes. *)
LEMMA MemoryKeepsInv ==
    ASSUME DedupeInv, NEW run, RunOK(run), dedupeRun' = run,
           UNCHANGED <<input, dedup, dedupeCp>>, stops' \in Nat,
           dedupeJob' \in [state : JobPhases, reset : BOOLEAN, had : SUBSET Items]
    PROVE  DedupeInv'
<1>1. RunOK(dedupeRun)'
  BY RunStays
<1>2. DedupeTypeOK'
  BY <1>1 DEF DedupeInv, DedupeTypeOK, RunOK
<1>3. RolesAreReference'
  BY InputDecides DEF DedupeInv, RolesAreReference
<1> QED BY <1>1, <1>2, <1>3 DEF DedupeInv

-----------------------------------------------------------------------------
(* One lemma per group of actions. *)

JobType == [state : JobPhases, reset : BOOLEAN, had : SUBSET Items]

LEMMA CommitWhenFullKeepsInv ==
    ASSUME DedupeInv, NEW run, RunOK(run), CommitWhenFull(run), input' = input, UNCHANGED <<dedupeJob, stops>>
    PROVE  DedupeInv'
<1>1. stops' \in Nat /\ dedupeJob' \in JobType
  BY DEF DedupeInv, DedupeTypeOK, JobType
<1>2. CASE CommitBatch(run)
  BY <1>1, <1>2, CommitKeepsInv
<1>3. CASE dedupeRun' = run /\ UNCHANGED <<dedup, dedupeCp>>
  BY <1>1, <1>3, MemoryKeepsInv DEF JobType
<1> QED BY <1>2, <1>3 DEF CommitWhenFull

(* Clearing, rebuilding the maps and continuing from the checkpoint. *)
LEMMA OpenKeepsInv ==
    ASSUME DedupeInv, NEW cp \in DedupeCursors, NEW reset \in BOOLEAN, DedupeOpen(cp, reset),
           dedupeCp' = cp, stops' = stops,
           \A e \in 1..cp.next : dedup[e].role # "null"
    PROVE  DedupeInv'
<1> USE EmailNumbers
<1> DEFINE cleared == reset /\ IsFreshDedupe(cp)
           roles == IF cleared THEN ClearDedupe ELSE dedup
           run == [NoDedupeRun EXCEPT !.cursor = cp, !.maps = RebuildMaps(roles, cp.next)]
<1>1. dedup' = roles /\ dedupeRun' = run /\ input' = input
  BY DEF DedupeOpen
<1>2. cp.next \in Nat /\ cp.next <= NE
  BY DEF DedupeCursors
<1>3. NullRole \in DedupeRoles /\ NullRole.role = "null"
  BY DEF NullRole, DedupeRoles
<1>4. dedup' \in [Items -> DedupeRoles]
  BY <1>1, <1>3 DEF DedupeInv, DedupeTypeOK, ClearDedupe
<1>5. \A e \in Emails : dedup'[e].role # "null" => dedup'[e] = ReferenceRole(e)
  BY <1>1, <1>3 DEF DedupeInv, RolesAreReference, ClearDedupe, Items
<1>6. RolesAreReference'
  BY <1>1, <1>5, InputDecides DEF RolesAreReference
<1>7. \A e \in 1..cp.next : dedup'[e].role # "null"
  BY <1>1 DEF IsFreshDedupe
<1>8. \A e \in 1..cp.next : roles[e] = ReferenceRole(e)
  <2>1. \A e \in 1..cp.next : e \in Emails
    BY <1>2
  <2> QED BY <1>1, <1>5, <1>7, <2>1
<1>9. MapsExact(RebuildMaps(roles, cp.next), cp.next)
  <2> HIDE DEF roles
  <2>1. cp.next \in 0..NE
    BY <1>2
  <2> QED BY <1>8, <2>1, RebuildIsExact
<1>10. RebuildMaps(roles, cp.next) \in KeyMaps
  <2> DEFINE U == {e \in 1..cp.next : roles[e].role = "unique"}
  <2>1. \A k : FirstOf({e \in U : MidKey(e) = k}) \in 0..NE
    <3> SUFFICES ASSUME NEW k PROVE FirstOf({e \in U : MidKey(e) = k}) \in 0..NE
      OBVIOUS
    <3> DEFINE V == {e \in U : MidKey(e) = k}
    <3>1. \A e \in V : e \in Nat /\ e <= NE
      BY <1>2
    <3> HIDE DEF V
    <3>2. FirstOf(V) \in 0..NE
      BY <3>1, FirstOfIsMin
    <3> QED BY <3>2 DEF V
  <2>2. \A k : FirstOf({e \in U : LogicalKey(e) = k}) \in 0..NE
    <3> SUFFICES ASSUME NEW k PROVE FirstOf({e \in U : LogicalKey(e) = k}) \in 0..NE
      OBVIOUS
    <3> DEFINE V == {e \in U : LogicalKey(e) = k}
    <3>1. \A e \in V : e \in Nat /\ e <= NE
      BY <1>2
    <3> HIDE DEF V
    <3>2. FirstOf(V) \in 0..NE
      BY <3>1, FirstOfIsMin
    <3> QED BY <3>2 DEF V
  <2>3. RebuildMaps(roles, cp.next) = [mid |-> [k \in Mids |-> FirstOf({e \in U : MidKey(e) = k})],
                                       logical |-> [k \in Logicals |-> FirstOf({e \in U : LogicalKey(e) = k})]]
    BY DEF RebuildMaps
  <2> HIDE DEF U, roles
  <2>4. [k \in Mids |-> FirstOf({e \in U : MidKey(e) = k})] \in [Mids -> 0..NE]
    BY <2>1
  <2>5. [k \in Logicals |-> FirstOf({e \in U : LogicalKey(e) = k})] \in [Logicals -> 0..NE]
    BY <2>2
  <2> QED BY <2>3, <2>4, <2>5 DEF KeyMaps
<1>11. RunOK(NoDedupeRun)
  BY EmptyRunIsOK DEF DedupeInv, DedupeTypeOK
<1>12. /\ dedupeRun' \in DedupeRuns
       /\ dedupeRun'.staged = NothingStaged /\ dedupeRun'.cursor = cp
       /\ dedupeRun'.maps = RebuildMaps(roles, cp.next)
  <2> HIDE DEF roles
  <2> QED BY <1>1, <1>10, <1>11 DEF RunOK, DedupeRuns, NoDedupeRun
<1>13. RunOK(dedupeRun)'
  <2>1. StagedAreReference(dedupeRun.staged)'
    BY <1>12 DEF StagedAreReference, NothingStaged, Items
  <2>2. Covered(dedupeRun)'
    BY <1>7, <1>12 DEF Covered
  <2>3. MapsExact(dedupeRun.maps, dedupeRun.cursor.next)'
    <3> DEFINE r == [maps |-> RebuildMaps(roles, cp.next), cursor |-> cp]
    <3>1. MapsExact(r.maps, r.cursor.next) /\ dedupeRun'.maps = r.maps /\ dedupeRun'.cursor.next = r.cursor.next
      BY <1>9, <1>12
    <3> HIDE DEF r
    <3> QED BY <1>1, <3>1, MapsExactStays
  <2> QED BY <1>12, <2>1, <2>2, <2>3 DEF RunOK
<1>14. DedupeTypeOK'
  <2>1. dedupeJob' \in [state : JobPhases, reset : BOOLEAN, had : SUBSET Items]
    <3> DEFINE h == IF IsFreshDedupe(cp) THEN {i \in Items : roles[i].role # "null"} ELSE dedupeJob.had
    <3>1. dedupeJob' = [state |-> "running", reset |-> reset, had |-> h]
      BY DEF DedupeOpen
    <3>2. h \in SUBSET Items
      BY DEF DedupeInv, DedupeTypeOK
    <3> HIDE DEF h
    <3> QED BY <3>1, <3>2 DEF JobPhases
  <2> QED BY <1>1, <1>4, <1>12, <2>1 DEF DedupeInv, DedupeTypeOK
<1> QED BY <1>6, <1>7, <1>13, <1>14 DEF DedupeInv

LEMMA StartKeepsInv ==
    ASSUME DedupeInv, (\E reset \in BOOLEAN : DedupeStart(reset)) \/ DedupeResume
    PROVE  DedupeInv'
<1>1. CASE \E reset \in BOOLEAN : DedupeStart(reset)
  <2>1. PICK reset \in BOOLEAN : DedupeStart(reset)
    BY <1>1
  <2>2. FreshDedupeCursor \in DedupeCursors /\ FreshDedupeCursor.next = 0
    BY EmailNumbers DEF FreshDedupeCursor, DedupeCursors
  <2>3. \A e \in 1..FreshDedupeCursor.next : dedup[e].role # "null"
    BY <2>2
  <2> QED BY <2>1, <2>2, <2>3, OpenKeepsInv DEF DedupeStart
<1>2. CASE DedupeResume
  <2>1. dedupeCp \in DedupeCursors /\ dedupeJob.reset \in BOOLEAN
    BY DEF DedupeInv, DedupeTypeOK
  <2>2. \A e \in 1..dedupeCp.next : dedup[e].role # "null"
    BY DEF DedupeInv
  <2>3. PICK reset \in BOOLEAN : DedupeOpen(dedupeCp, reset)
    BY <1>2, <2>1 DEF DedupeResume
  <2> QED BY <1>2, <2>1, <2>2, <2>3, OpenKeepsInv DEF DedupeResume
<1> QED BY <1>1, <1>2

(* Passing one email: skipped or resolved. *)
LEMMA SeedIsTyped ==
    ASSUME NEW maps \in KeyMaps, NEW e \in Emails
    PROVE  SeedMaps(maps, e) \in KeyMaps
<1>1. maps.mid \in [Mids -> 0..NE] /\ maps.logical \in [Logicals -> 0..NE] /\ e \in 0..NE
  BY EmailNumbers DEF KeyMaps
<1>2. [k \in Mids |-> IF k = MidKey(e) /\ maps.mid[k] = 0 THEN e ELSE maps.mid[k]] \in [Mids -> 0..NE]
  BY <1>1
<1>3. [k \in Logicals |-> IF k = LogicalKey(e) /\ maps.logical[k] = 0 THEN e ELSE maps.logical[k]]
        \in [Logicals -> 0..NE]
  BY <1>1
<1> QED BY <1>2, <1>3 DEF SeedMaps, KeyMaps

(* The email at the cursor, and the maps once it has been passed. *)
LEMMA AtCursor ==
    ASSUME DedupeInv, dedupeRun.cursor.next < NE
    PROVE  LET n == dedupeRun.cursor.next
               e == NextParent
               seeded == IF Stands(e) THEN SeedMaps(dedupeRun.maps, e) ELSE dedupeRun.maps
           IN  /\ n \in Nat /\ e = n + 1 /\ e \in Emails /\ e \in Items /\ e \in 0..NE
               /\ seeded \in KeyMaps /\ MapsExact(seeded, e)
               /\ CanonicalFor(e, dedupeRun.maps) = IF Stands(e) THEN 0 ELSE Representative(e)
<1> USE EmailNumbers
<1> DEFINE n == dedupeRun.cursor.next
           e == NextParent
           seeded == IF Stands(e) THEN SeedMaps(dedupeRun.maps, e) ELSE dedupeRun.maps
<1>1. dedupeRun.cursor \in DedupeCursors /\ dedupeRun.maps \in KeyMaps /\ input \in DedupeInputs
  BY DEF DedupeInv, DedupeTypeOK, DedupeRuns
<1>2. n \in Nat /\ e = n + 1 /\ e \in Emails /\ e \in Items /\ e \in 0..NE
  BY <1>1 DEF DedupeCursors, Items, NextParent
<1>3. MapsExact(dedupeRun.maps, n)
  BY DEF DedupeInv, RunOK
<1>4. seeded \in KeyMaps
  BY <1>1, <1>2, SeedIsTyped
<1>5. MapsExact(IF Stands(n + 1) THEN SeedMaps(dedupeRun.maps, n + 1) ELSE dedupeRun.maps, n + 1)
  BY <1>1, <1>2, <1>3, SeedKeepsExact
<1>6. CanonicalFor(n + 1, dedupeRun.maps) = IF Stands(n + 1) THEN 0 ELSE Representative(n + 1)
  BY <1>1, <1>2, <1>3, CanonicalIsRepresentative
<1> QED BY <1>2, <1>4, <1>5, <1>6

LEMMA SkipKeepsInv ==
    ASSUME DedupeInv, DedupeSkipParent
    PROVE  DedupeInv'
<1> USE EmailNumbers
<1> DEFINE e == NextParent
           m == IF dedup[e].role = "unique" THEN SeedMaps(dedupeRun.maps, e) ELSE dedupeRun.maps
           c == [dedupeRun.cursor EXCEPT !.next = @ + 1]
           run == [dedupeRun EXCEPT !.cursor = c, !.staged = dedupeRun.staged, !.maps = m]
<1>0. dedupeRun \in DedupeRuns /\ dedupeRun.cursor \in DedupeCursors /\ dedupeRun.staged \in [Items -> DedupeRoles]
  BY DEF DedupeInv, DedupeTypeOK, DedupeRuns
<1>1. dedupeRun.cursor.next < NE /\ dedup[e].role # "null" /\ UNCHANGED <<input, dedup, dedupeCp, dedupeJob, stops>>
  BY DEF DedupeSkipParent
<1>2. dedupeRun' = run
  BY <1>0 DEF DedupeSkipParent, DedupeRuns
<1>3. e = dedupeRun.cursor.next + 1 /\ e \in Emails /\ e \in 0..NE /\ dedupeRun.cursor.next \in Nat
  BY <1>1, AtCursor
<1>4. dedup[e].role = "unique" <=> Stands(e)
  BY <1>1, <1>3, ReferenceRoleKind DEF DedupeInv, RolesAreReference
<1>5. m \in KeyMaps /\ MapsExact(m, e)
  BY <1>1, <1>4, AtCursor
<1>6. c \in DedupeCursors /\ c.next = e
  BY <1>0, <1>3 DEF DedupeCursors
<1> HIDE DEF e, m, c
<1>7. run.cursor = c /\ run.staged = dedupeRun.staged /\ run.maps = m /\ run \in DedupeRuns
  BY <1>0, <1>5, <1>6 DEF DedupeRuns
<1> HIDE DEF run
<1>8. Covered(run)
  BY <1>1, <1>3, <1>6, <1>7 DEF Covered, DedupeInv, RunOK
<1>9. RunOK(run)
  BY <1>5, <1>6, <1>7, <1>8 DEF DedupeInv, RunOK
<1>10. stops' \in Nat /\ dedupeJob' \in [state : JobPhases, reset : BOOLEAN, had : SUBSET Items]
  BY <1>1 DEF DedupeInv, DedupeTypeOK
<1> QED BY <1>1, <1>2, <1>9, <1>10, MemoryKeepsInv

LEMMA ResolveKeepsInv ==
    ASSUME DedupeInv, DedupeResolveParent
    PROVE  DedupeInv'
<1> USE EmailNumbers
<1> DEFINE e == NextParent
           canon == CanonicalFor(e, dedupeRun.maps)
           conflict == canon # 0 /\ MidKey(e) # NoKey /\ input.logical[canon] # input.logical[e]
           st == [dedupeRun.staged EXCEPT ![e] = RoleOf(canon, Tier(e))]
           m == IF canon = 0 THEN SeedMaps(dedupeRun.maps, e) ELSE dedupeRun.maps
           c == [dedupeRun.cursor EXCEPT
                    !.next = e,
                    !.unique = IF canon = 0 THEN dedupeRun.cursor.unique + 1 ELSE dedupeRun.cursor.unique,
                    !.duplicate = IF canon = 0 THEN dedupeRun.cursor.duplicate ELSE dedupeRun.cursor.duplicate + 1,
                    !.conflicts = IF conflict THEN dedupeRun.cursor.conflicts + 1 ELSE dedupeRun.cursor.conflicts]
           run == [dedupeRun EXCEPT !.staged = st, !.maps = m, !.cursor = c]
<1>0. dedupeRun \in DedupeRuns /\ dedupeRun.cursor \in DedupeCursors /\ dedupeRun.staged \in [Items -> DedupeRoles]
  BY DEF DedupeInv, DedupeTypeOK, DedupeRuns
<1>1. dedupeRun.cursor.next < NE /\ UNCHANGED <<input, dedupeJob, stops>>
  BY DEF DedupeResolveParent
<1>2. CommitWhenFull(run)
  BY DEF DedupeResolveParent
<1>3. /\ e = dedupeRun.cursor.next + 1 /\ e \in Emails /\ e \in Items /\ e \in 0..NE
      /\ dedupeRun.cursor.next \in Nat
      /\ canon = IF Stands(e) THEN 0 ELSE Representative(e)
  BY <1>1, AtCursor
<1>4. Representative(e) \in Emails /\ Representative(e) # 0
  BY <1>3, RepresentativeStands
<1>5. RoleOf(canon, Tier(e)) = ReferenceRole(e) /\ RoleOf(canon, Tier(e)) \in DedupeRoles
  BY <1>3, <1>4 DEF ReferenceRole, Stands, RoleOf, DedupeRoles, Tier
<1>6. m \in KeyMaps /\ MapsExact(m, e)
  BY <1>1, <1>3, <1>4, AtCursor
<1> HIDE DEF e, canon, conflict
<1>7. c \in DedupeCursors /\ c.next = e
  <2>1. dedupeRun.cursor.unique \in Nat /\ dedupeRun.cursor.duplicate \in Nat /\ dedupeRun.cursor.conflicts \in Nat
    BY <1>0 DEF DedupeCursors
  <2> DEFINE u == IF canon = 0 THEN dedupeRun.cursor.unique + 1 ELSE dedupeRun.cursor.unique
             d == IF canon = 0 THEN dedupeRun.cursor.duplicate ELSE dedupeRun.cursor.duplicate + 1
             k == IF conflict THEN dedupeRun.cursor.conflicts + 1 ELSE dedupeRun.cursor.conflicts
  <2>2. u \in Nat /\ d \in Nat /\ k \in Nat
    BY <2>1
  <2>3. c = [dedupeRun.cursor EXCEPT !.next = e, !.unique = u, !.duplicate = d, !.conflicts = k]
    OBVIOUS
  <2> HIDE DEF u, d, k, c
  <2> QED BY <1>0, <1>3, <2>2, <2>3 DEF DedupeCursors
<1>8. st \in [Items -> DedupeRoles] /\ \A x \in Items : st[x] = IF x = e THEN ReferenceRole(e) ELSE dedupeRun.staged[x]
  BY <1>0, <1>3, <1>5
<1> HIDE DEF st, m, c
<1>9. run.cursor = c /\ run.staged = st /\ run.maps = m /\ run \in DedupeRuns
  BY <1>0, <1>6, <1>7, <1>8 DEF DedupeRuns
<1> HIDE DEF run
<1>10. StagedAreReference(run.staged)
  BY <1>8, <1>9 DEF StagedAreReference, Items, DedupeInv, RunOK
<1>11. Covered(run)
  BY <1>3, <1>7, <1>8, <1>9, ReferenceRoleKind DEF Covered, Items, DedupeInv, RunOK
<1>12. RunOK(run)
  BY <1>6, <1>7, <1>9, <1>10, <1>11 DEF RunOK
<1> QED BY <1>1, <1>2, <1>12, CommitWhenFullKeepsInv

(* The end of the parent pass, and the steps of the family pass that write no email. *)
LEMMA FlushKeepsInv ==
    ASSUME DedupeInv, DedupeFlushParents \/ DedupeEnterFamily \/ DedupeFlushFamily
    PROVE  DedupeInv'
<1>1. stops' \in Nat /\ input' = input /\ dedupeJob' = dedupeJob
  BY DEF DedupeFlushParents, DedupeEnterFamily, DedupeFlushFamily, DedupeInv, DedupeTypeOK
<1>2. CASE DedupeFlushParents \/ DedupeFlushFamily
  BY <1>1, <1>2, CommitKeepsInv DEF DedupeFlushParents, DedupeFlushFamily, DedupeInv
<1>3. CASE DedupeEnterFamily
  <2> DEFINE run == [dedupeRun EXCEPT !.cursor.phase = "family", !.cursor.family = 0]
  <2>1. dedupeRun \in DedupeRuns /\ dedupeRun.cursor \in DedupeCursors
    BY DEF DedupeInv, DedupeTypeOK, DedupeRuns
  <2>2. /\ run \in DedupeRuns /\ run.staged = dedupeRun.staged /\ run.maps = dedupeRun.maps
        /\ run.cursor.next = dedupeRun.cursor.next
    BY <2>1 DEF DedupeRuns, DedupeCursors
  <2>3. CommitBatch(run)
    BY <1>3 DEF DedupeEnterFamily
  <2> HIDE DEF run
  <2>4. RunOK(run)
    BY <2>2 DEF DedupeInv, RunOK, Covered
  <2> QED BY <1>1, <2>3, <2>4, CommitKeepsInv
<1> QED BY <1>2, <1>3

(* An attachment gets the family tier: it is no email. *)
LEMMA ChildKeepsInv ==
    ASSUME DedupeInv, DedupeChild
    PROVE  DedupeInv'
<1> USE EmailNumbers
<1> DEFINE T == Children(DupParent) \ dedupeRun.done
           c == FirstOf(T)
           twin == MatchAttach(c, Children(dedup[DupParent].of))
           r == [role |-> "duplicate", of |-> twin, tier |-> "family"]
           st == [dedupeRun.staged EXCEPT ![c] = r]
           run == [dedupeRun EXCEPT
                    !.staged[c] = [role |-> "duplicate", of |-> twin, tier |-> "family"],
                    !.cursor.duplicate = IF AlreadyFamily(c) THEN @ ELSE @ + 1,
                    !.done = @ \cup {c}]
<1>0. dedupeRun \in DedupeRuns /\ dedupeRun.cursor \in DedupeCursors /\ dedupeRun.staged \in [Items -> DedupeRoles]
  BY DEF DedupeInv, DedupeTypeOK, DedupeRuns
<1>1. CommitWhenFull(run) /\ UNCHANGED <<input, dedupeJob, stops>> /\ T # {} /\ MoreDupParents
  BY DEF DedupeChild
<1>2. DupParent \in Emails
  BY <1>1, DupParentExists DEF DupParents, DedupeInv
<1>3. \A x \in T : x \in Items /\ x \in Nat /\ x \notin Emails
  BY <1>2, ItemsAssumptions DEF Children, Items
<1>4. c \in T
  <2> HIDE DEF T
  <2> QED BY <1>1, <1>3, FirstOfIsMin
<1>5. c \in Items /\ c \notin Emails
  BY <1>3, <1>4
<1> HIDE DEF c
<1>6. twin \in 0..NI
  <2> DEFINE C == Children(dedup[DupParent].of)
             D == {t \in C : Digest[c] # NoKey /\ Digest[t] = Digest[c]}
             N == {t \in C : NameSize[c] # NoKey /\ NameSize[t] = NameSize[c]}
  <2>1. \A x \in C : x \in Nat /\ x <= NI
    BY DEF Children, Items
  <2>2. (\A x \in D : x \in Nat /\ x <= NI) /\ (\A x \in N : x \in Nat /\ x <= NI)
    BY <2>1
  <2>3. twin = FirstOf(IF D # {} THEN D ELSE N)
    BY DEF MatchAttach
  <2> HIDE DEF C, D, N
  <2>4. \A S : (\A x \in S : x \in Nat /\ x <= NI) => FirstOf(S) \in 0..NI
    BY FirstOfIsMin
  <2> QED BY <2>2, <2>3, <2>4
<1> HIDE DEF twin
<1>7. r \in DedupeRoles
  BY <1>6 DEF DedupeRoles
<1> HIDE DEF r
<1>8. st \in [Items -> DedupeRoles] /\ \A x \in Items : x # c => st[x] = dedupeRun.staged[x]
  BY <1>0, <1>5, <1>7
<1>9. /\ run.staged = st /\ run.maps = dedupeRun.maps
      /\ run.cursor.next = dedupeRun.cursor.next
      /\ run.cursor \in DedupeCursors
      /\ run.done \in SUBSET Items
  <2>1. run.staged = st
    BY <1>0 DEF DedupeRuns, r
  <2>2. run.maps = dedupeRun.maps
    BY <1>0 DEF DedupeRuns
  <2>3. run.cursor = [dedupeRun.cursor EXCEPT !.duplicate = IF AlreadyFamily(c) THEN @ ELSE @ + 1]
    BY <1>0 DEF DedupeRuns
  <2>4. run.cursor.next = dedupeRun.cursor.next /\ run.cursor \in DedupeCursors
    BY <1>0, <2>3 DEF DedupeCursors
  <2>5. run.done \in SUBSET Items
    BY <1>0, <1>5 DEF DedupeRuns
  <2> QED BY <2>1, <2>2, <2>4, <2>5
<1>10. run \in DedupeRuns
  <2> DEFINE cu == [dedupeRun.cursor EXCEPT !.duplicate = IF AlreadyFamily(c) THEN @ ELSE @ + 1]
             dn == dedupeRun.done \cup {c}
  <2>1. cu \in DedupeCursors /\ dn \in SUBSET Items
    BY <1>0, <1>5 DEF DedupeCursors, DedupeRuns
  <2>2. run = [dedupeRun EXCEPT !.staged = st, !.cursor = cu, !.done = dn]
    BY <1>0 DEF DedupeRuns, r
  <2> HIDE DEF cu, dn, st, run
  <2> QED BY <1>0, <1>8, <2>1, <2>2 DEF DedupeRuns
<1> HIDE DEF run, st
<1>11. StagedAreReference(run.staged)
  BY <1>5, <1>8, <1>9 DEF StagedAreReference, Items, DedupeInv, RunOK
<1>12. Covered(run)
  <2>1. dedupeRun.cursor.next \in Nat /\ dedupeRun.cursor.next <= NE
    BY <1>0 DEF DedupeCursors
  <2>2. \A e \in 1..dedupeRun.cursor.next : e \in Items /\ e # c
    BY <1>5, <2>1 DEF Items
  <2> QED BY <1>8, <1>9, <2>2 DEF Covered, DedupeInv, RunOK
<1>13. RunOK(run)
  BY <1>9, <1>10, <1>11, <1>12 DEF RunOK, DedupeInv
<1> QED BY <1>1, <1>13, CommitWhenFullKeepsInv

LEMMA NextDupParentKeepsInv ==
    ASSUME DedupeInv, DedupeNextDupParent
    PROVE  DedupeInv'
<1> DEFINE run == [dedupeRun EXCEPT !.cursor.family = @ + 1, !.done = {}]
<1>1. dedupeRun \in DedupeRuns /\ dedupeRun.cursor \in DedupeCursors
  BY DEF DedupeInv, DedupeTypeOK, DedupeRuns
<1>2. /\ run \in DedupeRuns /\ run.staged = dedupeRun.staged /\ run.maps = dedupeRun.maps
      /\ run.cursor.next = dedupeRun.cursor.next
  <2> DEFINE cu == [dedupeRun.cursor EXCEPT !.family = @ + 1]
  <2>1. cu \in DedupeCursors /\ cu.next = dedupeRun.cursor.next
    BY <1>1 DEF DedupeCursors
  <2>2. run = [dedupeRun EXCEPT !.cursor = cu, !.done = {}]
    OBVIOUS
  <2> HIDE DEF cu, run
  <2> QED BY <1>1, <2>1, <2>2 DEF DedupeRuns
<1>3. dedupeRun' = run /\ UNCHANGED <<input, dedup, dedupeCp, dedupeJob, stops>>
  BY DEF DedupeNextDupParent
<1> HIDE DEF run
<1>4. RunOK(run)
  BY <1>2 DEF DedupeInv, RunOK, Covered
<1>5. stops' \in Nat /\ dedupeJob' \in [state : JobPhases, reset : BOOLEAN, had : SUBSET Items]
  BY <1>3 DEF DedupeInv, DedupeTypeOK
<1> QED BY <1>3, <1>4, <1>5, MemoryKeepsInv

(* A job ends, stops or is replaced. *)
LEMMA EndKeepsInv ==
    ASSUME DedupeInv, DedupeSucceed \/ DedupeAgain \/ DedupePause \/ DedupeCrash
    PROVE  DedupeInv'
<1>1. /\ stops' \in Nat
      /\ input' = input
      /\ dedupeJob' \in [state : JobPhases, reset : BOOLEAN, had : SUBSET Items]
  BY DEF DedupeSucceed, DedupeAgain, DedupePause, DedupeCrash, Interrupt, DedupeInv, DedupeTypeOK, JobPhases
<1>2. RunOK(dedupeRun) /\ RunOK(NoDedupeRun)
  BY EmptyRunIsOK DEF DedupeInv, DedupeTypeOK
<1>3. CASE UNCHANGED <<dedup, dedupeCp>>
  <2>1. dedupeRun' = NoDedupeRun \/ dedupeRun' = dedupeRun
    BY DEF DedupeSucceed, DedupeAgain, DedupePause, DedupeCrash
  <2> QED BY <1>1, <1>2, <1>3, <2>1, MemoryKeepsInv
<1>4. CASE ~UNCHANGED <<dedup, dedupeCp>>
  <2>1. /\ dedup' = [i \in Items |-> IF dedupeRun.staged[i] # NullRole THEN dedupeRun.staged[i] ELSE dedup[i]]
        /\ dedupeCp' = dedupeRun.cursor
        /\ dedupeRun' = NoDedupeRun
    BY <1>4 DEF DedupeSucceed, DedupeAgain, DedupePause, DedupeCrash
  <2>2. /\ dedup' \in [Items -> DedupeRoles]
        /\ RolesAreReference'
        /\ \A e \in 1..dedupeRun.cursor.next : dedup'[e].role # "null"
    BY <1>1, <1>2, <2>1, BatchRows
  <2>3. RunOK(dedupeRun)'
    BY <1>1, <2>1, EmptyRunStays DEF DedupeInv, DedupeTypeOK
  <2>4. dedupeCp' \in DedupeCursors
    BY <2>1 DEF DedupeInv, DedupeTypeOK, DedupeRuns
  <2>5. DedupeTypeOK'
    BY <1>1, <2>2, <2>3, <2>4 DEF DedupeInv, DedupeTypeOK, RunOK
  <2> QED BY <2>1, <2>2, <2>3, <2>5 DEF DedupeInv
<1> QED BY <1>3, <1>4

(* Every step of a dedupe job preserves the invariant. *)
LEMMA DedupeStepKeepsInv ==
    ASSUME DedupeInv, DedupeNext
    PROVE  DedupeInv'
BY SkipKeepsInv, ResolveKeepsInv, FlushKeepsInv, ChildKeepsInv, NextDupParentKeepsInv, EndKeepsInv, StartKeepsInv
   DEF DedupeNext, DedupeStep

LEMMA DedupeInitInv ==
    ASSUME DedupeInit, stops = 0
    PROVE  DedupeInv
<1> USE EmailNumbers
<1>1. RunOK(dedupeRun)
  BY EmptyRunIsOK DEF DedupeInit
<1>2. FreshDedupeCursor \in DedupeCursors /\ FreshDedupeCursor.next = 0 /\ NullRole \in DedupeRoles /\ NullRole.role = "null"
  BY DEF FreshDedupeCursor, DedupeCursors, NullRole, DedupeRoles
<1>3. DedupeTypeOK
  BY <1>1, <1>2 DEF DedupeInit, DedupeTypeOK, RunOK, JobPhases
<1>4. RolesAreReference
  BY <1>2 DEF DedupeInit, RolesAreReference, Items
<1> QED BY <1>1, <1>2, <1>3, <1>4 DEF DedupeInit, DedupeInv

LEMMA DedupeStutterKeepsInv ==
    ASSUME DedupeInv, UNCHANGED dedupeVars, stops' \in Nat
    PROVE  DedupeInv'
<1>1. RunOK(dedupeRun) /\ dedupeJob' \in [state : JobPhases, reset : BOOLEAN, had : SUBSET Items]
  BY DEF DedupeInv, DedupeTypeOK, dedupeVars
<1> QED BY <1>1, MemoryKeepsInv DEF dedupeVars

(* Whatever is paused, crashes, is resumed or run again, with or without reset: every role an *)
(* email has is the one an uninterrupted run over the whole matter gives it.                  *)
THEOREM DedupeRolesTheorem == DedupeSpec => [](DedupeTypeOK /\ RolesAreReference)
<1>1. DedupeInit /\ stops = 0 => DedupeInv
  BY DedupeInitInv
<1>2. DedupeInv /\ [DedupeNext]_<<dedupeVars, stops>> => DedupeInv'
  <2>1. ASSUME DedupeInv, UNCHANGED <<dedupeVars, stops>> PROVE DedupeInv'
    BY <2>1, DedupeStutterKeepsInv DEF DedupeInv, DedupeTypeOK
  <2> QED BY <2>1, DedupeStepKeepsInv
<1>3. DedupeInv => DedupeTypeOK /\ RolesAreReference
  BY DEF DedupeInv
<1> QED BY <1>1, <1>2, <1>3, PTL DEF DedupeSpec

-----------------------------------------------------------------------------
(* Counters and families: what a cursor says of the rows written with it. *)

(* The rows as they will be once what is staged is committed. *)
Overlay(rows, staged) == [i \in Items |-> IF staged[i] # NullRole THEN staged[i] ELSE rows[i]]

Conflicts(roles, e, in) ==
    roles[e].role = "duplicate" /\ roles[e].tier = "message_id" /\ in.logical[roles[e].of] # in.logical[e]

(* The counters count, once each, the items that had no role when the job began. *)
Counted(roles, c, job, in) ==
    /\ c.unique = Cardinality({i \in Items \ job.had : roles[i].role = "unique"})
    /\ c.duplicate = Cardinality({i \in Items \ job.had : roles[i].role = "duplicate"})
    /\ c.conflicts = Cardinality({e \in (Items \ job.had) \cap Emails : Conflicts(roles, e, in)})

Dups(roles) == {p \in Emails : roles[p].role = "duplicate"}
Rank(D, p) == Cardinality({q \in D : q < p})

(* An attachment has a role only as a family duplicate, under a duplicate. *)
ChildrenOK(roles) ==
    \A i \in Items \ Emails :
        \/ roles[i] = NullRole
        \/ /\ SuppressChildren /\ ParentOf[i] \in Dups(roles)
           /\ roles[i].role = "duplicate" /\ roles[i].tier = "family"

(* Nothing that had a role has lost it; with reset no email beyond the cursor has one; in the family *)
(* pass the children of the duplicates before the cursor are done.                                  *)
ProgressOK(roles, c, job, in) ==
    /\ Counted(roles, c, job, in)
    /\ IsFreshDedupe(c) => c = FreshDedupeCursor
    /\ \A i \in job.had : roles[i].role # "null"
    /\ job.reset => \A e \in Emails : e > c.next => roles[e].role = "null"
    /\ c.phase = "family" =>
        /\ c.next = NE
        /\ \A i \in Items : ParentOf[i] \in Dups(roles) /\ Rank(Dups(roles), ParentOf[i]) < c.family /\ SuppressChildren
                                => roles[i].role = "duplicate"

(* The memory of a job: emails are staged up to the cursor, and in the family pass only children of *)
(* duplicates before the cursor or done under the one at the cursor.                                *)
MemoryExact(rows, run, job, in) ==
    LET roles == Overlay(rows, run.staged) IN
    /\ ProgressOK(roles, run.cursor, job, in)
    /\ ChildrenOK(roles)
    /\ \A e \in Emails : e > run.cursor.next => run.staged[e] = NullRole
    /\ run.cursor.phase = "parents" => run.done = {}
    /\ run.cursor.phase = "family" =>
        /\ \A e \in Emails : run.staged[e] = NullRole
        /\ \A i \in Items : run.staged[i] # NullRole =>
            i \in run.done \/ Rank(Dups(roles), ParentOf[i]) < run.cursor.family
        /\ \A i \in run.done : /\ ParentOf[i] \in Dups(roles) /\ Rank(Dups(roles), ParentOf[i]) = run.cursor.family
                               /\ roles[i].role = "duplicate"

SettledOK(roles) ==
    /\ \A e \in Emails : roles[e].role # "null"
    /\ SuppressChildren => \A i \in Items \ Emails : ParentOf[i] \in Dups(roles) => roles[i].role = "duplicate"

DedupeCountInv ==
    /\ ChildrenOK(dedup)
    /\ dedupeJob.state # "queued" => ProgressOK(dedup, dedupeCp, dedupeJob, input)
    /\ dedupeJob.state = "running" => MemoryExact(dedup, dedupeRun, dedupeJob, input)
    /\ dedupeJob.state = "succeeded" => SettledOK(dedup)

LEMMA Attachments ==
    /\ \A S \in SUBSET Items : IsFiniteSet(S) /\ Cardinality(S) \in Nat
    /\ Emails \subseteq Items /\ \A i \in Items : ParentOf[i] \in Emails => i \notin Emails
<1>1. IsFiniteSet(Items)
    BY EmailNumbers, FS_Interval DEF Items
<1>2. Emails \subseteq Items /\ \A i \in Items : ParentOf[i] \in Emails => i \notin Emails
    BY ItemsAssumptions DEF Items, Emails
<1> QED BY <1>1, <1>2, FS_Subset, FS_CardinalityType

LEMMA RankFacts ==
    ASSUME NEW D \in SUBSET Emails
    PROVE  /\ \A p : Rank(D, p) \in Nat
           /\ \A p \in D : Rank(D, p) < Cardinality(D)
           /\ \A p, q \in D : Rank(D, p) = Rank(D, q) => p = q
<1> USE EmailNumbers
<1> DEFINE Below(p) == {q \in D : q < p}
<1>1. \A p : Rank(D, p) = Cardinality(Below(p))
    BY DEF Rank
<1>2. IsFiniteSet(D) /\ \A S \in SUBSET D : IsFiniteSet(S) /\ Cardinality(S) \in Nat
    BY Attachments
<1>3. \A p : Below(p) \in SUBSET D
    OBVIOUS
<1>4. ASSUME NEW p \in D, NEW S \in SUBSET D, Below(p) \subseteq S, p \in S
      PROVE  Cardinality(Below(p)) < Cardinality(S)
    <2>1. p \notin Below(p) /\ Below(p) \cup {p} \subseteq S /\ Below(p) \cup {p} \in SUBSET D
        BY <1>4
    <2> HIDE DEF Below
    <2>2. Cardinality(Below(p) \cup {p}) = Cardinality(Below(p)) + 1
        BY <1>2, <1>3, <2>1, FS_AddElement
    <2>3. Cardinality(Below(p) \cup {p}) <= Cardinality(S)
        BY <1>2, <1>4, <2>1, FS_Subset
    <2> QED BY <1>2, <1>3, <1>4, <2>1, <2>2, <2>3
<1>5. \A p \in D : Cardinality(Below(p)) < Cardinality(D)
    BY <1>3, <1>4
<1>6. ASSUME NEW p \in D, NEW q \in D, p < q
      PROVE  Cardinality(Below(p)) < Cardinality(Below(q))
    <2>1. Below(p) \subseteq Below(q) /\ p \in Below(q) /\ Below(q) \in SUBSET D
        BY <1>6
    <2> HIDE DEF Below
    <2> QED BY <1>4, <2>1
<1> HIDE DEF Below
<1>7. \A p \in D : p \in Nat
    OBVIOUS
<1>8. ASSUME NEW p \in D, NEW q \in D, Rank(D, p) = Rank(D, q)
      PROVE  p = q
    <2>1. Cardinality(Below(p)) = Cardinality(Below(q)) /\ Cardinality(Below(p)) \in Nat
        BY <1>1, <1>2, <1>3, <1>8
    <2>2. ~(p < q) /\ ~(q < p)
        BY <1>6, <2>1
    <2> QED BY <1>7, <2>2
<1> QED BY <1>1, <1>2, <1>3, <1>5, <1>8

(* One more item has a role: one counter moves by one. *)
LEMMA CountsOne ==
    ASSUME NEW roles, NEW new, NEW k \in Items, NEW c \in DedupeCursors, NEW d, NEW job, NEW in,
           Counted(roles, c, job, in), k \notin job.had, roles[k].role = "null",
           new[k].role \in {"unique", "duplicate"}, \A i \in Items : i # k => new[i] = roles[i],
           d.unique = IF new[k].role = "unique" THEN c.unique + 1 ELSE c.unique,
           d.duplicate = IF new[k].role = "duplicate" THEN c.duplicate + 1 ELSE c.duplicate,
           d.conflicts = IF k \in Emails /\ Conflicts(new, k, in) THEN c.conflicts + 1 ELSE c.conflicts
    PROVE  Counted(new, d, job, in)
<1> DEFINE given == Items \ job.had
           U(f) == {i \in given : f[i].role = "unique"}
           D(f) == {i \in given : f[i].role = "duplicate"}
           K(f) == {e \in given \cap Emails : Conflicts(f, e, in)}
<1>1. U(roles) \in SUBSET Items /\ D(roles) \in SUBSET Items /\ K(roles) \in SUBSET Items
    OBVIOUS
<1>2. k \notin U(roles) /\ k \notin D(roles) /\ k \notin K(roles)
    BY DEF Conflicts
<1>3. U(new) = IF new[k].role = "unique" THEN U(roles) \cup {k} ELSE U(roles)
    OBVIOUS
<1>4. D(new) = IF new[k].role = "duplicate" THEN D(roles) \cup {k} ELSE D(roles)
    OBVIOUS
<1>5. K(new) = IF k \in Emails /\ Conflicts(new, k, in) THEN K(roles) \cup {k} ELSE K(roles)
    <2>1. \A e \in given \cap Emails : e # k => (Conflicts(new, e, in) <=> Conflicts(roles, e, in))
        BY DEF Conflicts
    <2>2. k \in given /\ ~Conflicts(roles, k, in)
        BY DEF Conflicts
    <2> QED BY <2>1, <2>2
<1>6. \A S \in SUBSET Items : k \notin S => Cardinality(S \cup {k}) = Cardinality(S) + 1
    BY Attachments, FS_AddElement
<1>7. c.unique = Cardinality(U(roles)) /\ c.duplicate = Cardinality(D(roles)) /\ c.conflicts = Cardinality(K(roles))
    BY DEF Counted
<1>8. d.unique = Cardinality(U(new)) /\ d.duplicate = Cardinality(D(new)) /\ d.conflicts = Cardinality(K(new))
    <2> HIDE DEF U, D, K
    <2> QED BY <1>1, <1>2, <1>3, <1>4, <1>5, <1>6, <1>7
<1> QED BY <1>8 DEF Counted

(* An attachment that is a duplicate already is staged again: nothing is counted. *)
LEMMA CountsSame ==
    ASSUME NEW roles, NEW new, NEW c, NEW d, NEW job, NEW in, Counted(roles, c, job, in),
           \A i \in Items : new[i].role = roles[i].role, \A e \in Emails : new[e] = roles[e],
           d.unique = c.unique, d.duplicate = c.duplicate, d.conflicts = c.conflicts
    PROVE  Counted(new, d, job, in)
<1> DEFINE given == Items \ job.had
           U(f) == {i \in given : f[i].role = "unique"}
           D(f) == {i \in given : f[i].role = "duplicate"}
           K(f) == {e \in given \cap Emails : Conflicts(f, e, in)}
<1>1. U(new) = U(roles) /\ D(new) = D(roles)
    OBVIOUS
<1>2. K(new) = K(roles)
    BY DEF Conflicts
<1>3. c.unique = Cardinality(U(roles)) /\ c.duplicate = Cardinality(D(roles)) /\ c.conflicts = Cardinality(K(roles))
    BY DEF Counted
<1>4. d.unique = Cardinality(U(new)) /\ d.duplicate = Cardinality(D(new)) /\ d.conflicts = Cardinality(K(new))
    <2> HIDE DEF U, D, K
    <2> QED BY <1>1, <1>2, <1>3
<1> QED BY <1>4 DEF Counted

LEMMA OverlayNothing ==
    ASSUME NEW rows \in [Items -> DedupeRoles]
    PROVE  Overlay(rows, NothingStaged) = rows
BY DEF Overlay, NothingStaged

LEMMA OverlayTyped ==
    ASSUME NEW rows \in [Items -> DedupeRoles], NEW staged \in [Items -> DedupeRoles]
    PROVE  /\ Overlay(rows, staged) \in [Items -> DedupeRoles]
           /\ \A i \in Items : Overlay(rows, staged)[i] = IF staged[i] # NullRole THEN staged[i] ELSE rows[i]
BY DEF Overlay

(* Memory changes and the rows do not. *)
LEMMA MemoryKeepsCount ==
    ASSUME DedupeCountInv, dedupeJob.state = "running", dedupeJob' = dedupeJob, UNCHANGED <<input, dedup, dedupeCp>>,
           MemoryExact(dedup, dedupeRun', dedupeJob, input)
    PROVE  DedupeCountInv'
<1>1. MemoryExact(dedup', dedupeRun', dedupeJob', input')
    OBVIOUS
<1>2. ChildrenOK(dedup') /\ ProgressOK(dedup', dedupeCp', dedupeJob', input')
    BY DEF DedupeCountInv
<1>3. dedupeJob'.state = "running"
    OBVIOUS
<1> QED BY <1>1, <1>2, <1>3 DEF DedupeCountInv

(* What is staged becomes the rows, with the cursor. *)
LEMMA CommitKeepsCount ==
    ASSUME DedupeInv, DedupeCountInv, dedupeJob.state = "running", dedupeJob' = dedupeJob, input' = input,
           NEW run \in DedupeRuns, MemoryExact(dedup, run, dedupeJob, input), CommitBatch(run)
    PROVE  DedupeCountInv'
<1> DEFINE roles == Overlay(dedup, run.staged)
           D == Dups(roles)
<1>1. dedup' = roles /\ dedupeCp' = run.cursor /\ dedupeRun' = [run EXCEPT !.staged = NothingStaged]
    BY DEF CommitBatch, Overlay
<1>2. dedup \in [Items -> DedupeRoles] /\ run.staged \in [Items -> DedupeRoles]
    BY DEF DedupeInv, DedupeTypeOK, DedupeRuns
<1>3. roles \in [Items -> DedupeRoles]
    BY <1>2, OverlayTyped
<1>4. dedupeRun'.staged = NothingStaged /\ dedupeRun'.cursor = run.cursor /\ dedupeRun'.done = run.done
    BY <1>1 DEF DedupeRuns
<1>5. ProgressOK(roles, run.cursor, dedupeJob, input) /\ ChildrenOK(roles)
    BY DEF MemoryExact
<1>6. run.cursor.phase = "family" =>
        \A i \in run.done : /\ ParentOf[i] \in D /\ Rank(D, ParentOf[i]) = run.cursor.family
                            /\ roles[i].role = "duplicate"
    BY DEF MemoryExact
<1>6a. run.cursor.phase = "parents" => run.done = {}
    BY DEF MemoryExact
<1>7. \A i \in Items : NothingStaged[i] = NullRole
    BY DEF NothingStaged
<1>8. Overlay(roles, NothingStaged) = roles
    BY <1>3, OverlayNothing
<1> HIDE DEF roles
<1>9. MemoryExact(roles, dedupeRun', dedupeJob, input)
    BY <1>4, <1>5, <1>6, <1>6a, <1>7, <1>8, Attachments DEF MemoryExact
<1>10. MemoryExact(dedup', dedupeRun', dedupeJob', input') /\ ChildrenOK(dedup')
       /\ ProgressOK(dedup', dedupeCp', dedupeJob', input')
    BY <1>1, <1>5, <1>9
<1>11. dedupeJob'.state = "running"
    OBVIOUS
<1> QED BY <1>10, <1>11 DEF DedupeCountInv

LEMMA CommitWhenFullKeepsCount ==
    ASSUME DedupeInv, DedupeCountInv, dedupeJob.state = "running", dedupeJob' = dedupeJob, input' = input,
           NEW run \in DedupeRuns, MemoryExact(dedup, run, dedupeJob, input), CommitWhenFull(run)
    PROVE  DedupeCountInv'
<1>1. CASE CommitBatch(run)
    BY <1>1, CommitKeepsCount
<1>2. CASE ~CommitBatch(run)
    <2>1. dedupeRun' = run /\ UNCHANGED <<dedup, dedupeCp>>
        BY <1>2 DEF CommitWhenFull
    <2> QED BY <2>1, MemoryKeepsCount
<1> QED BY <1>1, <1>2

LEMMA SkipKeepsCount == ASSUME DedupeInv, DedupeCountInv, DedupeSkipParent PROVE DedupeCountInv'
<1> USE EmailNumbers
<1> DEFINE m == IF dedup[NextParent].role = "unique" THEN SeedMaps(dedupeRun.maps, NextParent) ELSE dedupeRun.maps
           c == [dedupeRun.cursor EXCEPT !.next = @ + 1]
           roles == Overlay(dedup, dedupeRun.staged)
<1>1. /\ dedupeJob.state = "running" /\ dedupeRun.cursor.phase = "parents" /\ ~dedupeJob.reset
      /\ dedupeJob' = dedupeJob /\ UNCHANGED <<input, dedup, dedupeCp>>
      /\ dedupeRun' = [dedupeRun EXCEPT !.maps = m, !.cursor = c]
    BY DEF DedupeSkipParent, InParentPass
<1>2. dedupeRun \in DedupeRuns /\ dedupeRun.cursor \in DedupeCursors /\ dedupeRun.cursor.next \in Nat
    BY DEF DedupeInv, DedupeTypeOK, DedupeRuns, DedupeCursors
<1>3. /\ c.next = dedupeRun.cursor.next + 1 /\ c.phase = "parents" /\ c.unique = dedupeRun.cursor.unique
      /\ c.duplicate = dedupeRun.cursor.duplicate /\ c.conflicts = dedupeRun.cursor.conflicts
    BY <1>1, <1>2 DEF DedupeCursors
<1> HIDE DEF m, c
<1>4. dedupeRun'.staged = dedupeRun.staged /\ dedupeRun'.cursor = c /\ dedupeRun'.done = dedupeRun.done
    BY <1>1, <1>2 DEF DedupeRuns
<1>5. /\ ProgressOK(roles, dedupeRun.cursor, dedupeJob, input) /\ ChildrenOK(roles)
      /\ \A e \in Emails : e > dedupeRun.cursor.next => dedupeRun.staged[e] = NullRole
      /\ dedupeRun.done = {}
    BY <1>1 DEF DedupeCountInv, MemoryExact
<1> HIDE DEF roles
<1>6. Counted(roles, c, dedupeJob, input)
    BY <1>3, <1>5 DEF ProgressOK, Counted
<1>7. ProgressOK(roles, c, dedupeJob, input)
    BY <1>1, <1>2, <1>3, <1>5, <1>6 DEF ProgressOK, IsFreshDedupe
<1>8. \A e \in Emails : e > c.next => dedupeRun.staged[e] = NullRole
    BY <1>2, <1>3, <1>5
<1>9. MemoryExact(dedup, dedupeRun', dedupeJob, input)
    BY <1>3, <1>4, <1>5, <1>7, <1>8 DEF MemoryExact, roles
<1> QED BY <1>1, <1>9, MemoryKeepsCount

LEMMA ResolveKeepsCount == ASSUME DedupeInv, DedupeCountInv, DedupeResolveParent PROVE DedupeCountInv'
<1> USE EmailNumbers
<1> DEFINE e == NextParent
           canon == CanonicalFor(e, dedupeRun.maps)
           conflict == canon # 0 /\ MidKey(e) # NoKey /\ input.logical[canon] # input.logical[e]
           r == RoleOf(canon, Tier(e))
           st == [dedupeRun.staged EXCEPT ![e] = r]
           m == IF canon = 0 THEN SeedMaps(dedupeRun.maps, e) ELSE dedupeRun.maps
           c == [dedupeRun.cursor EXCEPT
                    !.next = e,
                    !.unique = IF canon = 0 THEN dedupeRun.cursor.unique + 1 ELSE dedupeRun.cursor.unique,
                    !.duplicate = IF canon = 0 THEN dedupeRun.cursor.duplicate ELSE dedupeRun.cursor.duplicate + 1,
                    !.conflicts = IF conflict THEN dedupeRun.cursor.conflicts + 1 ELSE dedupeRun.cursor.conflicts]
           run == [dedupeRun EXCEPT !.staged = st, !.maps = m, !.cursor = c]
           roles == Overlay(dedup, dedupeRun.staged)
           new == Overlay(dedup, st)
<1>0. /\ dedupeRun \in DedupeRuns /\ dedupeRun.cursor \in DedupeCursors /\ dedupeRun.staged \in [Items -> DedupeRoles]
      /\ dedup \in [Items -> DedupeRoles]
    BY DEF DedupeInv, DedupeTypeOK, DedupeRuns
<1>1. /\ dedupeJob.state = "running" /\ dedupeRun.cursor.phase = "parents" /\ dedupeRun.cursor.next < NE
      /\ UNCHANGED <<input, dedupeJob>> /\ (dedupeJob.reset \/ dedup[e].role = "null")
    BY DEF DedupeResolveParent, InParentPass
<1>2. CommitWhenFull(run)
    BY DEF DedupeResolveParent
<1>3. /\ e = dedupeRun.cursor.next + 1 /\ e \in Emails /\ e \in Items /\ e \in 0..NE /\ dedupeRun.cursor.next \in Nat
      /\ canon = IF Stands(e) THEN 0 ELSE Representative(e)
      /\ (IF Stands(e) THEN SeedMaps(dedupeRun.maps, e) ELSE dedupeRun.maps) \in KeyMaps
    BY <1>1, AtCursor
<1>4. Representative(e) \in Emails /\ Representative(e) # 0
    BY <1>3, RepresentativeStands
<1>5. r \in DedupeRoles /\ r # NullRole /\ m \in KeyMaps
    BY <1>3, <1>4 DEF RoleOf, DedupeRoles, Tier, NullRole
<1>6. /\ r.role = (IF canon = 0 THEN "unique" ELSE "duplicate") /\ r.of = canon
      /\ (r.tier = "message_id" <=> MidKey(e) # NoKey)
    BY DEF RoleOf, Tier
<1>7. dedupeRun.cursor.unique \in Nat /\ dedupeRun.cursor.duplicate \in Nat /\ dedupeRun.cursor.conflicts \in Nat
    BY <1>0 DEF DedupeCursors
<1> HIDE DEF e, canon, r
<1>8. /\ c \in DedupeCursors /\ c.next = e /\ c.phase = "parents"
      /\ c.unique = (IF canon = 0 THEN dedupeRun.cursor.unique + 1 ELSE dedupeRun.cursor.unique)
      /\ c.duplicate = (IF canon = 0 THEN dedupeRun.cursor.duplicate ELSE dedupeRun.cursor.duplicate + 1)
      /\ c.conflicts = (IF conflict THEN dedupeRun.cursor.conflicts + 1 ELSE dedupeRun.cursor.conflicts)
    <2> DEFINE u == IF canon = 0 THEN dedupeRun.cursor.unique + 1 ELSE dedupeRun.cursor.unique
               d == IF canon = 0 THEN dedupeRun.cursor.duplicate ELSE dedupeRun.cursor.duplicate + 1
               k == IF conflict THEN dedupeRun.cursor.conflicts + 1 ELSE dedupeRun.cursor.conflicts
    <2>1. u \in Nat /\ d \in Nat /\ k \in Nat
        BY <1>7
    <2>2. c = [dedupeRun.cursor EXCEPT !.next = e, !.unique = u, !.duplicate = d, !.conflicts = k]
        OBVIOUS
    <2> HIDE DEF u, d, k, c
    <2>3. c \in DedupeCursors /\ c.next = e /\ c.phase = "parents" /\ c.unique = u /\ c.duplicate = d /\ c.conflicts = k
        BY <1>0, <1>1, <1>3, <2>1, <2>2 DEF DedupeCursors
    <2> QED BY <2>3 DEF u, d, k
<1>9. st \in [Items -> DedupeRoles] /\ \A x \in Items : st[x] = IF x = e THEN r ELSE dedupeRun.staged[x]
    BY <1>0, <1>3, <1>5
<1> HIDE DEF st, m, c
<1>10. run.cursor = c /\ run.staged = st /\ run.done = dedupeRun.done /\ run \in DedupeRuns
    BY <1>0, <1>5, <1>8, <1>9 DEF DedupeRuns
<1> HIDE DEF run
<1>11. /\ ProgressOK(roles, dedupeRun.cursor, dedupeJob, input) /\ ChildrenOK(roles)
       /\ \A x \in Emails : x > dedupeRun.cursor.next => dedupeRun.staged[x] = NullRole
       /\ dedupeRun.done = {}
    BY <1>1 DEF DedupeCountInv, MemoryExact
<1>12. /\ \A x \in Items : roles[x] = IF dedupeRun.staged[x] # NullRole THEN dedupeRun.staged[x] ELSE dedup[x]
       /\ \A x \in Items : new[x] = IF st[x] # NullRole THEN st[x] ELSE dedup[x]
    BY <1>0, <1>9, OverlayTyped
<1> HIDE DEF roles, new
<1>13. new[e] = r /\ \A x \in Items : x # e => new[x] = roles[x]
    BY <1>3, <1>5, <1>9, <1>12
<1>14. roles[e].role = "null"
    <2>1. e > dedupeRun.cursor.next /\ roles[e] = dedup[e]
        BY <1>3, <1>11, <1>12
    <2> QED BY <1>1, <1>3, <1>11, <2>1 DEF ProgressOK
<1>15. e \notin dedupeJob.had
    BY <1>11, <1>14 DEF ProgressOK
<1>16. Conflicts(new, e, input) <=> conflict
    BY <1>6, <1>13 DEF Conflicts
<1>17. Counted(roles, dedupeRun.cursor, dedupeJob, input)
    BY <1>11 DEF ProgressOK
<1>18. new[e].role \in {"unique", "duplicate"} /\ (new[e].role = "unique" <=> canon = 0)
       /\ (new[e].role = "duplicate" <=> canon # 0)
    BY <1>6, <1>13
<1>19. Counted(new, c, dedupeJob, input)
    <2> HIDE DEF conflict
    <2>1. /\ c.unique = IF new[e].role = "unique" THEN dedupeRun.cursor.unique + 1 ELSE dedupeRun.cursor.unique
          /\ c.duplicate = IF new[e].role = "duplicate" THEN dedupeRun.cursor.duplicate + 1 ELSE dedupeRun.cursor.duplicate
          /\ c.conflicts = IF e \in Emails /\ Conflicts(new, e, input)
                           THEN dedupeRun.cursor.conflicts + 1 ELSE dedupeRun.cursor.conflicts
        BY <1>3, <1>8, <1>16, <1>18
    <2> QED BY <1>0, <1>3, <1>13, <1>14, <1>15, <1>17, <1>18, <2>1, CountsOne
<1>20. \A x \in dedupeJob.had : new[x].role # "null"
    <2>1. dedupeJob.had \subseteq Items
        BY DEF DedupeInv, DedupeTypeOK
    <2> QED BY <1>11, <1>13, <1>15, <2>1 DEF ProgressOK
<1>21. dedupeJob.reset => \A x \in Emails : x > e => new[x].role = "null"
    BY <1>3, <1>11, <1>13, Attachments DEF ProgressOK
<1>22. ProgressOK(new, c, dedupeJob, input)
    BY <1>3, <1>8, <1>19, <1>20, <1>21 DEF ProgressOK, IsFreshDedupe
<1>23. ChildrenOK(new)
    <2>1. \A p \in Dups(roles) : p \in Dups(new)
        BY <1>13, <1>14, Attachments DEF Dups
    <2> QED BY <1>3, <1>11, <1>13, <2>1 DEF ChildrenOK
<1>24. \A x \in Emails : x > e => st[x] = NullRole
    BY <1>3, <1>9, <1>11, Attachments
<1>25. MemoryExact(dedup, run, dedupeJob, input)
    BY <1>8, <1>10, <1>11, <1>22, <1>23, <1>24 DEF MemoryExact, new
<1> QED BY <1>1, <1>2, <1>10, <1>25, CommitWhenFullKeepsCount

LEMMA FlushKeepsCount ==
    ASSUME DedupeInv, DedupeCountInv, DedupeFlushParents \/ DedupeFlushFamily
    PROVE  DedupeCountInv'
<1>1. dedupeJob.state = "running" /\ CommitBatch(dedupeRun) /\ UNCHANGED <<input, dedupeJob>>
    BY DEF DedupeFlushParents, DedupeFlushFamily, InParentPass, InFamilyPass
<1>2. dedupeRun \in DedupeRuns /\ MemoryExact(dedup, dedupeRun, dedupeJob, input)
    BY <1>1 DEF DedupeInv, DedupeTypeOK, DedupeCountInv
<1> QED BY <1>1, <1>2, CommitKeepsCount

(* The family pass begins with nothing staged and no duplicate behind the cursor. *)
LEMMA EnterKeepsCount == ASSUME DedupeInv, DedupeCountInv, DedupeEnterFamily PROVE DedupeCountInv'
<1> DEFINE c == [dedupeRun.cursor EXCEPT !.phase = "family", !.family = 0]
           run == [dedupeRun EXCEPT !.cursor = c]
           roles == Overlay(dedup, dedupeRun.staged)
<1>0. dedupeRun \in DedupeRuns /\ dedupeRun.cursor \in DedupeCursors
    BY DEF DedupeInv, DedupeTypeOK, DedupeRuns
<1>1. /\ dedupeJob.state = "running" /\ dedupeRun.cursor.phase = "parents" /\ dedupeRun.cursor.next = NE
      /\ UNCHANGED <<input, dedupeJob>>
      /\ StagedItems(dedupeRun.staged) = {} /\ CommitBatch(run)
    BY DEF DedupeEnterFamily, InParentPass
<1>2. /\ c \in DedupeCursors /\ c.phase = "family" /\ c.family = 0 /\ c.next = dedupeRun.cursor.next
      /\ c.unique = dedupeRun.cursor.unique /\ c.duplicate = dedupeRun.cursor.duplicate
      /\ c.conflicts = dedupeRun.cursor.conflicts
    BY <1>0 DEF DedupeCursors
<1> HIDE DEF c
<1>3. run \in DedupeRuns /\ run.cursor = c /\ run.staged = dedupeRun.staged /\ run.done = dedupeRun.done
    BY <1>0, <1>2 DEF DedupeRuns
<1>4. ProgressOK(roles, dedupeRun.cursor, dedupeJob, input) /\ ChildrenOK(roles) /\ dedupeRun.done = {}
    BY <1>1 DEF DedupeCountInv, MemoryExact
<1>5. \A i \in Items : dedupeRun.staged[i] = NullRole
    BY <1>1 DEF StagedItems
<1> HIDE DEF roles, run
<1>6. \A p : ~(Rank(Dups(roles), p) < 0)
    <2>1. Dups(roles) \in SUBSET Emails
        BY DEF Dups
    <2> QED BY <2>1, RankFacts
<1>7. Counted(roles, c, dedupeJob, input)
    BY <1>2, <1>4 DEF ProgressOK, Counted
<1>8. ProgressOK(roles, c, dedupeJob, input)
    BY <1>1, <1>2, <1>4, <1>6, <1>7 DEF ProgressOK, IsFreshDedupe
<1>9. MemoryExact(dedup, run, dedupeJob, input)
    BY <1>2, <1>3, <1>4, <1>5, <1>8, Attachments DEF MemoryExact, roles
<1> QED BY <1>1, <1>3, <1>9, CommitKeepsCount

LEMMA DupParentRank ==
    ASSUME DedupeTypeOK, MoreDupParents
    PROVE  DupParent \in DupParents /\ Rank(DupParents, DupParent) = dedupeRun.cursor.family
<1> DEFINE f == dedupeRun.cursor.family
           D == DupParents
<1>1. f \in Nat
    BY DEF DedupeTypeOK, DedupeRuns, DedupeCursors
<1>2. NE \in Nat /\ \A q \in D : q \in Nat /\ 1 <= q /\ q <= NE
    BY ItemsAssumptions DEF DupParents, Emails
<1>3. f < Cardinality(D)
    BY DEF MoreDupParents
<1>4. DupParent = CHOOSE p \in D : Cardinality({q \in D : q < p}) = f
    BY DEF DupParent
<1> HIDE DEF D, f
<1>5. \E x \in D : Cardinality({q \in D : q < x}) = f
    BY <1>1, <1>2, <1>3, ElementAtIndex
<1>6. DupParent \in D /\ Cardinality({q \in D : q < DupParent}) = f
    BY <1>4, <1>5
<1> QED BY <1>6 DEF Rank, D, f

(* In the family pass no email is staged: the duplicates are those of the rows. *)
LEMMA FamilyPassFacts ==
    ASSUME DedupeInv, DedupeCountInv, dedupeJob.state = "running", dedupeRun.cursor.phase = "family"
    PROVE  LET roles == Overlay(dedup, dedupeRun.staged) IN
           /\ roles \in [Items -> DedupeRoles] /\ Dups(roles) = DupParents
           /\ \A i \in Items : roles[i] = IF dedupeRun.staged[i] # NullRole THEN dedupeRun.staged[i] ELSE dedup[i]
           /\ ProgressOK(roles, dedupeRun.cursor, dedupeJob, input) /\ ChildrenOK(roles) /\ ChildrenOK(dedup)
           /\ \A e \in Emails : dedupeRun.staged[e] = NullRole /\ roles[e] = dedup[e]
           /\ \A i \in Items : dedupeRun.staged[i] # NullRole =>
                i \in dedupeRun.done \/ Rank(DupParents, ParentOf[i]) < dedupeRun.cursor.family
           /\ \A i \in dedupeRun.done : /\ ParentOf[i] \in DupParents
                                        /\ Rank(DupParents, ParentOf[i]) = dedupeRun.cursor.family
                                        /\ roles[i].role = "duplicate"
<1> DEFINE roles == Overlay(dedup, dedupeRun.staged)
<1>0. dedupeRun.staged \in [Items -> DedupeRoles] /\ dedup \in [Items -> DedupeRoles]
    BY DEF DedupeInv, DedupeTypeOK, DedupeRuns
<1>1. /\ roles \in [Items -> DedupeRoles]
      /\ \A i \in Items : roles[i] = IF dedupeRun.staged[i] # NullRole THEN dedupeRun.staged[i] ELSE dedup[i]
    BY <1>0, OverlayTyped
<1>2. /\ ProgressOK(roles, dedupeRun.cursor, dedupeJob, input) /\ ChildrenOK(roles) /\ ChildrenOK(dedup)
      /\ \A e \in Emails : dedupeRun.staged[e] = NullRole
      /\ \A i \in Items : dedupeRun.staged[i] # NullRole =>
            i \in dedupeRun.done \/ Rank(Dups(roles), ParentOf[i]) < dedupeRun.cursor.family
      /\ \A i \in dedupeRun.done : /\ ParentOf[i] \in Dups(roles)
                                   /\ Rank(Dups(roles), ParentOf[i]) = dedupeRun.cursor.family
                                   /\ roles[i].role = "duplicate"
    BY DEF DedupeCountInv, MemoryExact
<1> HIDE DEF roles
<1>3. \A e \in Emails : roles[e] = dedup[e]
    BY <1>1, <1>2, Attachments
<1>4. Dups(roles) = DupParents
    BY <1>3 DEF Dups, DupParents
<1> QED BY <1>1, <1>2, <1>3, <1>4 DEF roles

LEMMA ChildKeepsCount == ASSUME DedupeInv, DedupeCountInv, DedupeChild PROVE DedupeCountInv'
<1> USE EmailNumbers
<1> DEFINE T == Children(DupParent) \ dedupeRun.done
           k == FirstOf(T)
           twin == MatchAttach(k, Children(dedup[DupParent].of))
           r == [role |-> "duplicate", of |-> twin, tier |-> "family"]
           st == [dedupeRun.staged EXCEPT ![k] = r]
           c == [dedupeRun.cursor EXCEPT !.duplicate = IF AlreadyFamily(k) THEN @ ELSE @ + 1]
           run == [dedupeRun EXCEPT !.staged = st, !.cursor = c, !.done = @ \cup {k}]
           roles == Overlay(dedup, dedupeRun.staged)
           new == Overlay(dedup, st)
           f == dedupeRun.cursor.family
<1>0. /\ dedupeRun \in DedupeRuns /\ dedupeRun.cursor \in DedupeCursors /\ dedupeRun.staged \in [Items -> DedupeRoles]
      /\ dedup \in [Items -> DedupeRoles] /\ dedupeRun.done \in SUBSET Items /\ dedupeJob.had \in SUBSET Items
    BY DEF DedupeInv, DedupeTypeOK, DedupeRuns
<1>1. /\ dedupeJob.state = "running" /\ dedupeRun.cursor.phase = "family" /\ SuppressChildren
      /\ UNCHANGED <<input, dedupeJob>> /\ T # {} /\ MoreDupParents
    BY DEF DedupeChild, InFamilyPass
<1>2. CommitWhenFull(run)
    BY DEF DedupeChild
<1>3. DupParent \in Emails /\ DupParent \in DupParents /\ Rank(DupParents, DupParent) = f
    BY <1>1, DupParentRank DEF DupParents, DedupeInv
<1>4. \A x \in T : x \in Items /\ x \in Nat /\ x \notin Emails /\ ParentOf[x] = DupParent /\ x \notin dedupeRun.done
    BY <1>3, Attachments DEF Children, Items
<1>5. k \in T
    <2> HIDE DEF T
    <2> QED BY <1>1, <1>4, FirstOfIsMin
<1>6. k \in Items /\ k \notin Emails /\ ParentOf[k] = DupParent /\ k \notin dedupeRun.done
    BY <1>4, <1>5
<1> HIDE DEF k
<1>7. twin \in 0..NI
    <2> DEFINE C == Children(dedup[DupParent].of)
               D == {t \in C : Digest[k] # NoKey /\ Digest[t] = Digest[k]}
               N == {t \in C : NameSize[k] # NoKey /\ NameSize[t] = NameSize[k]}
    <2>1. \A x \in C : x \in Nat /\ x <= NI
        BY DEF Children, Items
    <2>2. (\A x \in D : x \in Nat /\ x <= NI) /\ (\A x \in N : x \in Nat /\ x <= NI)
        BY <2>1
    <2>3. twin = FirstOf(IF D # {} THEN D ELSE N)
        BY DEF MatchAttach
    <2> HIDE DEF C, D, N
    <2>4. \A S : (\A x \in S : x \in Nat /\ x <= NI) => FirstOf(S) \in 0..NI
        BY FirstOfIsMin
    <2> QED BY <2>2, <2>3, <2>4
<1> HIDE DEF twin
<1>8. r \in DedupeRoles /\ r # NullRole /\ r.role = "duplicate" /\ r.tier = "family"
    BY <1>7 DEF DedupeRoles, NullRole
<1> HIDE DEF r
<1>9. st \in [Items -> DedupeRoles] /\ \A x \in Items : st[x] = IF x = k THEN r ELSE dedupeRun.staged[x]
    BY <1>0, <1>6, <1>8
<1>10. /\ c \in DedupeCursors /\ c.next = dedupeRun.cursor.next /\ c.phase = "family" /\ c.family = f
       /\ c.unique = dedupeRun.cursor.unique /\ c.conflicts = dedupeRun.cursor.conflicts
       /\ c.duplicate = IF AlreadyFamily(k) THEN dedupeRun.cursor.duplicate ELSE dedupeRun.cursor.duplicate + 1
    BY <1>0, <1>1 DEF DedupeCursors
<1> HIDE DEF st, c
<1>11. run \in DedupeRuns /\ run.cursor = c /\ run.staged = st /\ run.done = dedupeRun.done \cup {k}
    <2> DEFINE dn == dedupeRun.done \cup {k}
    <2>1. dn \in SUBSET Items /\ run = [dedupeRun EXCEPT !.staged = st, !.cursor = c, !.done = dn]
        BY <1>0, <1>6
    <2> HIDE DEF dn, run
    <2>2. run \in DedupeRuns /\ run.cursor = c /\ run.staged = st /\ run.done = dn
        BY <1>0, <1>9, <1>10, <2>1 DEF DedupeRuns
    <2> QED BY <2>2 DEF dn
<1> HIDE DEF run
<1>12. /\ Dups(roles) = DupParents
       /\ \A i \in Items : roles[i] = IF dedupeRun.staged[i] # NullRole THEN dedupeRun.staged[i] ELSE dedup[i]
       /\ ProgressOK(roles, dedupeRun.cursor, dedupeJob, input) /\ ChildrenOK(roles) /\ ChildrenOK(dedup)
       /\ \A e \in Emails : dedupeRun.staged[e] = NullRole
       /\ \A i \in Items : dedupeRun.staged[i] # NullRole => i \in dedupeRun.done \/ Rank(DupParents, ParentOf[i]) < f
       /\ \A i \in dedupeRun.done : /\ ParentOf[i] \in DupParents /\ Rank(DupParents, ParentOf[i]) = f
                                    /\ roles[i].role = "duplicate"
    BY <1>1, FamilyPassFacts
<1>13. \A x \in Items : new[x] = IF st[x] # NullRole THEN st[x] ELSE dedup[x]
    BY <1>0, <1>9, OverlayTyped
<1> HIDE DEF roles, new, f
<1>14. new[k] = r /\ \A x \in Items : x # k => new[x] = roles[x]
    BY <1>6, <1>8, <1>9, <1>12, <1>13
<1>15. roles[k] = dedup[k]
    <2>1. f \in Nat
        BY <1>0 DEF DedupeCursors, f
    <2>2. dedupeRun.staged[k] = NullRole
        BY <1>3, <1>6, <1>12, <2>1
    <2> QED BY <1>6, <1>12, <2>2
<1>16. \A e \in Emails : new[e] = roles[e]
    BY <1>6, <1>14, Attachments
<1>17. Dups(new) = DupParents
    BY <1>12, <1>16 DEF Dups
<1>18. Counted(roles, dedupeRun.cursor, dedupeJob, input)
    BY <1>12 DEF ProgressOK
<1>19. Counted(new, c, dedupeJob, input)
    <2>1. CASE AlreadyFamily(k)
        <3>1. \A i \in Items : new[i].role = roles[i].role
            BY <1>8, <1>14, <1>15, <2>1 DEF AlreadyFamily
        <3>2. c.duplicate = dedupeRun.cursor.duplicate
            BY <1>10, <2>1
        <3> QED BY <1>10, <1>16, <1>18, <3>1, <3>2, CountsSame
    <2>2. CASE ~AlreadyFamily(k)
        <3>1. dedup[k] = NullRole
            BY <1>6, <1>12, <2>2 DEF ChildrenOK, AlreadyFamily
        <3>2. roles[k].role = "null"
            BY <1>15, <3>1 DEF NullRole
        <3>3. k \notin dedupeJob.had
            BY <1>12, <3>2 DEF ProgressOK
        <3>4. c.duplicate = dedupeRun.cursor.duplicate + 1
            BY <1>10, <2>2
        <3> QED BY <1>0, <1>6, <1>8, <1>10, <1>14, <1>18, <3>2, <3>3, <3>4, CountsOne
    <2> QED BY <2>1, <2>2
<1>20. \A x \in dedupeJob.had : new[x].role # "null"
    BY <1>0, <1>8, <1>12, <1>14 DEF ProgressOK
<1>21. dedupeJob.reset => \A x \in Emails : x > c.next => new[x].role = "null"
    BY <1>10, <1>12, <1>16 DEF ProgressOK
<1>22. \A i \in Items : ParentOf[i] \in DupParents /\ Rank(DupParents, ParentOf[i]) < f => new[i].role = "duplicate"
    BY <1>1, <1>8, <1>12, <1>14 DEF ProgressOK, f
<1>23. ProgressOK(new, c, dedupeJob, input)
    BY <1>1, <1>10, <1>12, <1>17, <1>19, <1>20, <1>21, <1>22 DEF ProgressOK, IsFreshDedupe
<1>24. ChildrenOK(new)
    BY <1>1, <1>3, <1>6, <1>8, <1>12, <1>14, <1>17 DEF ChildrenOK
<1>25. \A i \in Items : st[i] # NullRole => i \in run.done \/ Rank(DupParents, ParentOf[i]) < f
    BY <1>9, <1>11, <1>12
<1>26. \A i \in run.done : /\ ParentOf[i] \in DupParents /\ Rank(DupParents, ParentOf[i]) = f
                           /\ new[i].role = "duplicate"
    BY <1>0, <1>3, <1>6, <1>8, <1>11, <1>12, <1>14
<1>27. \A e \in Emails : st[e] = NullRole
    BY <1>6, <1>9, <1>12, Attachments
<1>28. MemoryExact(dedup, run, dedupeJob, input)
    BY <1>10, <1>11, <1>17, <1>23, <1>24, <1>25, <1>26, <1>27 DEF MemoryExact, new
<1> QED BY <1>1, <1>2, <1>11, <1>28, CommitWhenFullKeepsCount

LEMMA NextDupParentKeepsCount == ASSUME DedupeInv, DedupeCountInv, DedupeNextDupParent PROVE DedupeCountInv'
<1> DEFINE c == [dedupeRun.cursor EXCEPT !.family = @ + 1]
           run == [dedupeRun EXCEPT !.cursor = c, !.done = {}]
           roles == Overlay(dedup, dedupeRun.staged)
           f == dedupeRun.cursor.family
<1>0. dedupeRun \in DedupeRuns /\ dedupeRun.cursor \in DedupeCursors /\ f \in Nat
    BY DEF DedupeInv, DedupeTypeOK, DedupeRuns, DedupeCursors
<1>1. /\ dedupeJob.state = "running" /\ dedupeRun.cursor.phase = "family"
      /\ UNCHANGED <<input, dedup, dedupeCp, dedupeJob>> /\ dedupeRun' = run
      /\ Children(DupParent) \subseteq dedupeRun.done /\ MoreDupParents
    BY DEF DedupeNextDupParent, InFamilyPass
<1>2. DupParent \in DupParents /\ Rank(DupParents, DupParent) = f
    BY <1>1, DupParentRank DEF DedupeInv
<1>3. /\ c.next = dedupeRun.cursor.next /\ c.phase = "family" /\ c.family = f + 1
      /\ c.unique = dedupeRun.cursor.unique /\ c.conflicts = dedupeRun.cursor.conflicts
      /\ c.duplicate = dedupeRun.cursor.duplicate
    BY <1>0, <1>1 DEF DedupeCursors
<1> HIDE DEF c
<1>4. run.cursor = c /\ run.staged = dedupeRun.staged /\ run.done = {}
    BY <1>0 DEF DedupeRuns
<1>5. /\ Dups(roles) = DupParents
      /\ ProgressOK(roles, dedupeRun.cursor, dedupeJob, input) /\ ChildrenOK(roles)
      /\ \A e \in Emails : dedupeRun.staged[e] = NullRole
      /\ \A i \in Items : dedupeRun.staged[i] # NullRole => i \in dedupeRun.done \/ Rank(DupParents, ParentOf[i]) < f
      /\ \A i \in dedupeRun.done : /\ ParentOf[i] \in DupParents /\ Rank(DupParents, ParentOf[i]) = f
                                   /\ roles[i].role = "duplicate"
    BY <1>1, FamilyPassFacts
<1>6. /\ \A p : Rank(DupParents, p) \in Nat
      /\ \A p, q \in DupParents : Rank(DupParents, p) = Rank(DupParents, q) => p = q
    <2>1. DupParents \in SUBSET Emails
        BY DEF DupParents
    <2> QED BY <2>1, RankFacts
<1>7. \A i \in Items : ParentOf[i] = DupParent => i \in dedupeRun.done
    BY <1>1 DEF Children
<1>8. \A i \in Items : ParentOf[i] \in DupParents /\ Rank(DupParents, ParentOf[i]) < f /\ SuppressChildren
                        => roles[i].role = "duplicate"
    BY <1>1, <1>5 DEF ProgressOK
<1> HIDE DEF roles, run, f
<1>9. ASSUME NEW i \in Items, ParentOf[i] \in DupParents, Rank(DupParents, ParentOf[i]) < f + 1, SuppressChildren
      PROVE  roles[i].role = "duplicate"
    <2>1. Rank(DupParents, ParentOf[i]) < f \/ Rank(DupParents, ParentOf[i]) = f
        BY <1>0, <1>6, <1>9
    <2>2. CASE Rank(DupParents, ParentOf[i]) < f
        BY <1>8, <1>9, <2>2
    <2>3. CASE Rank(DupParents, ParentOf[i]) = f
        <3>1. ParentOf[i] = DupParent
            BY <1>2, <1>6, <1>9, <2>3
        <3> QED BY <1>5, <1>7, <3>1
    <2> QED BY <2>1, <2>2, <2>3
<1>10. \A i \in Items : dedupeRun.staged[i] # NullRole => Rank(DupParents, ParentOf[i]) < f + 1
    BY <1>0, <1>5, <1>6
<1>11. Counted(roles, c, dedupeJob, input)
    BY <1>3, <1>5 DEF ProgressOK, Counted
<1>12. ProgressOK(roles, c, dedupeJob, input)
    BY <1>1, <1>3, <1>5, <1>9, <1>11 DEF ProgressOK, IsFreshDedupe
<1>13. MemoryExact(dedup, run, dedupeJob, input)
    BY <1>3, <1>4, <1>5, <1>10, <1>12 DEF MemoryExact, roles
<1> QED BY <1>1, <1>13, MemoryKeepsCount

(* The state of the job is no part of its progress. *)
LEMMA ProgressOfJob ==
    ASSUME NEW roles, NEW c, NEW job, NEW in, ProgressOK(roles, c, job, in),
           NEW next, next.had = job.had, next.reset = job.reset
    PROVE  ProgressOK(roles, c, next, in)
<1>1. Counted(roles, c, next, in)
    BY DEF ProgressOK, Counted
<1> QED BY <1>1 DEF ProgressOK

(* The loop is past every duplicate: all their children are done. *)
LEMMA SucceedKeepsCount == ASSUME DedupeInv, DedupeCountInv, DedupeSucceed PROVE DedupeCountInv'
<1> USE EmailNumbers
<1> DEFINE roles == Overlay(dedup, dedupeRun.staged)
           f == dedupeRun.cursor.family
<1>0. dedupeRun \in DedupeRuns /\ f \in Nat /\ dedupeJob \in [state : JobPhases, reset : BOOLEAN, had : SUBSET Items]
    BY DEF DedupeInv, DedupeTypeOK, DedupeRuns, DedupeCursors
<1>1. /\ dedupeJob.state = "running" /\ dedupeRun.cursor.phase = "family"
      /\ dedupeJob' = [dedupeJob EXCEPT !.state = "succeeded"] /\ UNCHANGED <<input, dedup, dedupeCp>>
      /\ SuppressChildren => ~MoreDupParents /\ StagedItems(dedupeRun.staged) = {}
    BY DEF DedupeSucceed
<1>2. dedupeJob'.state = "succeeded" /\ dedupeJob'.had = dedupeJob.had /\ dedupeJob'.reset = dedupeJob.reset
    BY <1>0, <1>1
<1>3. /\ Dups(roles) = DupParents /\ ChildrenOK(dedup)
      /\ \A i \in Items : roles[i] = IF dedupeRun.staged[i] # NullRole THEN dedupeRun.staged[i] ELSE dedup[i]
      /\ ProgressOK(roles, dedupeRun.cursor, dedupeJob, input)
      /\ \A e \in Emails : dedupeRun.staged[e] = NullRole
    BY <1>1, FamilyPassFacts
<1>4. dedupeRun.cursor.next = NE
    BY <1>1, <1>3 DEF ProgressOK
<1>5. \A e \in Emails : dedup[e].role # "null"
    BY <1>3, <1>4 DEF DedupeInv, RunOK, Covered
<1>6. \A p \in DupParents : Rank(DupParents, p) \in Nat /\ Rank(DupParents, p) < Cardinality(DupParents)
    <2>1. DupParents \in SUBSET Emails
        BY DEF DupParents
    <2> QED BY <2>1, RankFacts
<1>7. Cardinality(DupParents) \in Nat
    BY Attachments DEF DupParents
<1> HIDE DEF roles
<1>8. ASSUME SuppressChildren, NEW i \in Items, ParentOf[i] \in DupParents
      PROVE  dedup[i].role = "duplicate"
    <2>1. dedupeRun.staged[i] = NullRole
        BY <1>1, <1>8 DEF StagedItems
    <2>2. ~(f < Cardinality(DupParents))
        BY <1>1, <1>8 DEF MoreDupParents
    <2>3. Rank(DupParents, ParentOf[i]) < f
        BY <1>0, <1>6, <1>7, <1>8, <2>2
    <2>4. roles[i].role = "duplicate"
        BY <1>1, <1>3, <1>8, <2>3 DEF ProgressOK
    <2> QED BY <1>3, <2>1, <2>4
<1>9. Dups(dedup) = DupParents
    BY DEF Dups, DupParents
<1>10. SettledOK(dedup')
    BY <1>1, <1>5, <1>8, <1>9 DEF SettledOK
<1>11. ProgressOK(dedup, dedupeCp, dedupeJob, input)
    BY <1>1 DEF DedupeCountInv
<1>12. ProgressOK(dedup', dedupeCp', dedupeJob', input')
    BY <1>1, <1>2, <1>11, ProgressOfJob
<1>13. ChildrenOK(dedup')
    BY <1>1, <1>3
<1> QED BY <1>2, <1>10, <1>12, <1>13 DEF DedupeCountInv

LEMMA StopKeepsCount ==
    ASSUME DedupeInv, DedupeCountInv, DedupeAgain \/ DedupePause \/ DedupeCrash
    PROVE  DedupeCountInv'
<1>0. dedupeRun \in DedupeRuns /\ dedupeJob \in [state : JobPhases, reset : BOOLEAN, had : SUBSET Items]
    BY DEF DedupeInv, DedupeTypeOK
<1>1. CASE DedupeAgain
    <2>1. dedupeJob'.state = "queued" /\ dedup' = dedup
        BY <1>0, <1>1 DEF DedupeAgain
    <2>2. ChildrenOK(dedup')
        BY <2>1 DEF DedupeCountInv
    <2> QED BY <2>1, <2>2 DEF DedupeCountInv
<1>2. CASE DedupePause \/ DedupeCrash
    <2>1. /\ dedupeJob.state = "running" /\ dedupeJob' = [dedupeJob EXCEPT !.state = "stopped"] /\ input' = input
          /\ \/ UNCHANGED <<dedup, dedupeCp>>
             \/ dedup' = Overlay(dedup, dedupeRun.staged) /\ dedupeCp' = dedupeRun.cursor
        BY <1>2 DEF DedupePause, DedupeCrash, DedupePolls, InParentPass, InFamilyPass, Overlay
    <2>2. dedupeJob'.state = "stopped" /\ dedupeJob'.had = dedupeJob.had /\ dedupeJob'.reset = dedupeJob.reset
        BY <1>0, <2>1
    <2>3. ChildrenOK(dedup') /\ ProgressOK(dedup', dedupeCp', dedupeJob, input)
        BY <2>1 DEF DedupeCountInv, MemoryExact
    <2>4. ProgressOK(dedup', dedupeCp', dedupeJob', input')
        BY <2>1, <2>2, <2>3, ProgressOfJob
    <2> QED BY <2>2, <2>3, <2>4 DEF DedupeCountInv
<1> QED BY <1>1, <1>2

(* A job opens on its checkpoint; with a fresh one it begins, and counts from there. *)
LEMMA OpenKeepsCount ==
    ASSUME DedupeInv, DedupeCountInv, NEW cp \in DedupeCursors, NEW reset \in BOOLEAN, DedupeOpen(cp, reset),
           dedupeCp' = cp,
           \/ cp = FreshDedupeCursor
           \/ dedupeJob.state = "stopped" /\ cp = dedupeCp /\ (reset = dedupeJob.reset \/ IsFreshDedupe(cp))
    PROVE  DedupeCountInv'
<1> USE EmailNumbers
<1> DEFINE fresh == IsFreshDedupe(cp)
           roles == IF reset /\ fresh THEN ClearDedupe ELSE dedup
           had == IF fresh THEN {i \in Items : roles[i].role # "null"} ELSE dedupeJob.had
           maps == RebuildMaps(roles, cp.next)
<1>1. /\ dedup' = roles /\ input' = input /\ dedupeJob' = [state |-> "running", reset |-> reset, had |-> had]
      /\ dedupeRun' = [NoDedupeRun EXCEPT !.cursor = cp, !.maps = maps]
    BY DEF DedupeOpen
<1> HIDE DEF maps
<1>2. dedupeRun'.cursor = cp /\ dedupeRun'.staged = NothingStaged /\ dedupeRun'.done = {}
    BY <1>1 DEF NoDedupeRun
<1>3. NullRole \in DedupeRoles /\ NullRole.role = "null" /\ \A i \in Items : NothingStaged[i] = NullRole
    BY DEF NullRole, DedupeRoles, NothingStaged
<1>4. dedup \in [Items -> DedupeRoles] /\ roles \in [Items -> DedupeRoles]
    BY <1>3 DEF DedupeInv, DedupeTypeOK, ClearDedupe
<1>5. ChildrenOK(roles)
    <2>1. CASE ~(reset /\ fresh)
        BY <2>1 DEF DedupeCountInv
    <2>2. CASE reset /\ fresh
        <3>1. \A i \in Items : roles[i] = IF i \in Emails \/ (SuppressChildren /\ ParentOf[i] \in Emails)
                                          THEN NullRole ELSE dedup[i]
            BY <2>2 DEF ClearDedupe
        <3>2. \A i \in Items \ Emails : dedup[i] = NullRole \/ (SuppressChildren /\ ParentOf[i] \in Emails)
            BY DEF DedupeCountInv, ChildrenOK, Dups
        <3> HIDE DEF roles
        <3> QED BY <3>1, <3>2 DEF ChildrenOK
    <2> QED BY <2>1, <2>2
<1>6. /\ dedupeJob'.state = "running" /\ dedupeJob'.had = had /\ dedupeJob'.reset = reset
    BY <1>1
<1>7. ProgressOK(roles, cp, dedupeJob', input)
    <2>1. CASE fresh
        <3>1. cp = FreshDedupeCursor
            <4>1. CASE dedupeJob.state = "stopped" /\ cp = dedupeCp
                <5>1. ProgressOK(dedup, dedupeCp, dedupeJob, input)
                    BY <4>1 DEF DedupeCountInv
                <5> QED BY <2>1, <4>1, <5>1 DEF ProgressOK
            <4> QED BY <4>1
        <3>2. /\ cp.next = 0 /\ cp.phase = "parents" /\ cp.unique = 0 /\ cp.duplicate = 0 /\ cp.conflicts = 0
            BY <3>1 DEF FreshDedupeCursor
        <3>3. had = {i \in Items : roles[i].role # "null"}
            BY <2>1
        <3>4. reset => \A e \in Emails : roles[e].role = "null"
            BY <1>3, <2>1, Attachments DEF ClearDedupe
        <3> HIDE DEF roles, had, fresh
        <3>5. /\ {i \in Items \ had : roles[i].role = "unique"} = {}
              /\ {i \in Items \ had : roles[i].role = "duplicate"} = {}
            BY <3>3
        <3>6. {e \in (Items \ had) \cap Emails : Conflicts(roles, e, input)} = {}
            BY <3>3 DEF Conflicts
        <3>7. Counted(roles, cp, dedupeJob', input)
            BY <1>6, <3>2, <3>5, <3>6, FS_EmptySet DEF Counted
        <3>8. \A i \in had : roles[i].role # "null"
            BY <3>3
        <3> QED BY <1>6, <3>1, <3>2, <3>4, <3>7, <3>8 DEF ProgressOK
    <2>2. CASE ~fresh
        <3>1. dedupeJob.state = "stopped" /\ cp = dedupeCp /\ reset = dedupeJob.reset
            BY <2>2 DEF FreshDedupeCursor, IsFreshDedupe
        <3>2. roles = dedup /\ had = dedupeJob.had
            BY <2>2
        <3>3. ProgressOK(dedup, dedupeCp, dedupeJob, input)
            BY <3>1 DEF DedupeCountInv
        <3> HIDE DEF roles, had, fresh
        <3>4. dedupeJob'.had = dedupeJob.had /\ dedupeJob'.reset = dedupeJob.reset
            BY <1>6, <3>1, <3>2
        <3>5. ProgressOK(dedup, dedupeCp, dedupeJob', input)
            BY <3>3, <3>4, ProgressOfJob
        <3> QED BY <3>1, <3>2, <3>5
    <2> QED BY <2>1, <2>2
<1>8. Overlay(roles, NothingStaged) = roles
    BY <1>4, OverlayNothing
<1> HIDE DEF roles, had, fresh
<1>9. MemoryExact(roles, dedupeRun', dedupeJob', input)
    BY <1>2, <1>3, <1>5, <1>7, <1>8, Attachments DEF MemoryExact
<1>10. MemoryExact(dedup', dedupeRun', dedupeJob', input') /\ ChildrenOK(dedup')
       /\ ProgressOK(dedup', dedupeCp', dedupeJob', input')
    BY <1>1, <1>5, <1>7, <1>9
<1> QED BY <1>6, <1>10 DEF DedupeCountInv

(* Every step of a dedupe job preserves the counts. *)
LEMMA DedupeStepKeepsCount ==
    ASSUME DedupeInv, DedupeCountInv, DedupeNext
    PROVE  DedupeCountInv'
<1>1. CASE DedupeResume
    <2>1. dedupeCp \in DedupeCursors /\ dedupeJob.reset \in BOOLEAN
        BY DEF DedupeInv, DedupeTypeOK
    <2>2. dedupeJob.state = "stopped" /\ dedupeCp' = dedupeCp
        BY <1>1 DEF DedupeResume
    <2>3. PICK reset \in BOOLEAN : /\ DedupeOpen(dedupeCp, reset)
                                   /\ reset = dedupeJob.reset \/ IsFreshDedupe(dedupeCp)
        BY <1>1, <2>1 DEF DedupeResume
    <2> QED BY <2>1, <2>2, <2>3, OpenKeepsCount
<1>2. ASSUME NEW reset \in BOOLEAN, DedupeStart(reset)
      PROVE  DedupeCountInv'
    <2>1. FreshDedupeCursor \in DedupeCursors
        BY EmailNumbers DEF FreshDedupeCursor, DedupeCursors
    <2>2. DedupeOpen(FreshDedupeCursor, reset) /\ dedupeCp' = FreshDedupeCursor
        BY <1>2 DEF DedupeStart
    <2> QED BY <2>1, <2>2, OpenKeepsCount
<1> QED BY <1>1, <1>2, SkipKeepsCount, ResolveKeepsCount, FlushKeepsCount, EnterKeepsCount, ChildKeepsCount,
           NextDupParentKeepsCount, SucceedKeepsCount, StopKeepsCount DEF DedupeNext, DedupeStep

LEMMA DedupeInitCount == ASSUME DedupeInit PROVE DedupeCountInv
<1>1. dedupeJob.state = "queued" /\ \A i \in Items : dedup[i] = NullRole
    BY DEF DedupeInit
<1> QED BY <1>1 DEF DedupeCountInv, ChildrenOK

LEMMA DedupeStutterKeepsCount == ASSUME DedupeCountInv, UNCHANGED dedupeVars PROVE DedupeCountInv'
BY DEF DedupeCountInv, dedupeVars

(* A job that succeeded gave every email a role, settled the families, and counted right. *)
LEMMA DedupeCountsRight == ASSUME DedupeInv, DedupeCountInv PROVE DedupeSuccessIsExact
<1> SUFFICES ASSUME dedupeJob.state = "succeeded"
             PROVE  LET given == Items \ dedupeJob.had IN
                    /\ \A e \in Emails : dedup[e].role # "null"
                    /\ SuppressChildren =>
                        \A i \in Items \ Emails : dedup[i].role = "duplicate" <=> i \in FamilyChildren
                    /\ dedupeCp.unique = Cardinality({i \in given : dedup[i].role = "unique"})
                    /\ dedupeCp.duplicate = Cardinality({i \in given : dedup[i].role = "duplicate"})
                    /\ dedupeCp.conflicts = Cardinality({e \in given \cap Emails :
                            /\ dedup[e].role = "duplicate" /\ dedup[e].tier = "message_id"
                            /\ input.logical[dedup[e].of] # input.logical[e]})
    BY DEF DedupeSuccessIsExact
<1>1. ChildrenOK(dedup) /\ SettledOK(dedup) /\ Counted(dedup, dedupeCp, dedupeJob, input)
    BY DEF DedupeCountInv, ProgressOK
<1>2. Dups(dedup) = DupParents
    BY DEF Dups, DupParents
<1>3. SuppressChildren => \A i \in Items \ Emails : dedup[i].role = "duplicate" <=> i \in FamilyChildren
    BY <1>1, <1>2 DEF ChildrenOK, SettledOK, FamilyChildren, NullRole
<1>4. /\ dedupeCp.unique = Cardinality({i \in Items \ dedupeJob.had : dedup[i].role = "unique"})
      /\ dedupeCp.duplicate = Cardinality({i \in Items \ dedupeJob.had : dedup[i].role = "duplicate"})
      /\ dedupeCp.conflicts = Cardinality({e \in (Items \ dedupeJob.had) \cap Emails :
            /\ dedup[e].role = "duplicate" /\ dedup[e].tier = "message_id"
            /\ input.logical[dedup[e].of] # input.logical[e]})
    BY <1>1, Zenon DEF Counted, Conflicts
<1> QED BY <1>1, <1>3, <1>4, Zenon DEF SettledOK

=============================================================================
