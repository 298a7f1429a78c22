--------------------------- MODULE MatterDedupe ----------------------------
(***************************************************************************)
(* The tiered dedupe job (matter-dedupe, run.rs): a pass over the email    *)
(* parents in listing order, then a pass over the attachments of the       *)
(* duplicates.  Role writes are staged and committed in batches, each in   *)
(* one transaction with the job's checkpoint; what a job knows besides is  *)
(* memory, lost when it stops and rebuilt from committed rows when it is   *)
(* resumed.  dedup_group_id, the job id and the timestamps are left out;   *)
(* keys are compared, never built.                                         *)
(***************************************************************************)
EXTENDS MatterItems

CONSTANTS
    Mids, Logicals,     \* Message-ID and logical-hash keys
    NoKey,              \* no usable key
    DedupeInputs,       \* the keyings of the emails to consider
    UseMessageId, UseLogicalHash, SuppressChildren,     \* DedupeParams
    DedupeBatch,        \* DedupeParams.batch_size
    Digest, NameSize    \* attachment -> native_sha256; (file name, size)

VARIABLES
    input,      \* message_id and logical_hash of the emails; never changes
    dedup,      \* item -> dedup_role, duplicate_of_item_id, dedup_tier
    dedupeCp,   \* the job's checkpoint; a missing one reads as FreshDedupeCursor
    dedupeJob,  \* the job: its state, its reset param, and (history) the items with a role at its start
    dedupeRun   \* the memory of a running job

dedupeVars == <<input, dedup, dedupeCp, dedupeJob, dedupeRun>>

ASSUME DedupeAssumptions ==
    /\ NoKey \notin Mids /\ NoKey \notin Logicals
    /\ DedupeInputs \subseteq [mid : [Emails -> Mids \cup {NoKey}],
                               logical : [Emails -> Logicals \cup {NoKey}]]
    /\ UseMessageId \in BOOLEAN /\ UseLogicalHash \in BOOLEAN /\ SuppressChildren \in BOOLEAN
    /\ DedupeBatch \in Nat \ {0}

NullRole == [role |-> "null", of |-> 0, tier |-> "null"]
DedupeRoles == [role : {"null", "unique", "duplicate"}, of : 0..NI,
                tier : {"null", "message_id", "logical_hash", "none", "family"}]

FreshDedupeCursor ==
    [next |-> 0, phase |-> "parents", family |-> 0, unique |-> 0, duplicate |-> 0, conflicts |-> 0]
DedupeCursors == [next : 0..NE, phase : {"parents", "family"}, family : Nat,
                  unique : Nat, duplicate : Nat, conflicts : Nat]

KeyMaps == [mid : [Mids -> 0..NE], logical : [Logicals -> 0..NE]]
NoKeysSeen == [mid |-> [k \in Mids |-> 0], logical |-> [k \in Logicals |-> 0]]
NothingStaged == [i \in Items |-> NullRole]

DedupeRuns == [cursor : DedupeCursors, staged : [Items -> DedupeRoles], maps : KeyMaps, done : SUBSET Items]
NoDedupeRun == [cursor |-> FreshDedupeCursor, staged |-> NothingStaged, maps |-> NoKeysSeen, done |-> {}]

DedupeInit ==
    /\ input \in DedupeInputs
    /\ dedup = [i \in Items |-> NullRole]
    /\ dedupeCp = FreshDedupeCursor
    /\ dedupeJob = [state |-> "queued", reset |-> TRUE, had |-> {}]
    /\ dedupeRun = NoDedupeRun

-----------------------------------------------------------------------------
(* Keys and the maps from key to first unique item. *)

MidKey(e) == IF UseMessageId THEN input.mid[e] ELSE NoKey
LogicalKey(e) == IF UseLogicalHash THEN input.logical[e] ELSE NoKey

(* seed_maps_from_existing, and the inserts of resolve_parent for a unique item. *)
(* mid_logical is left out: it is the logical hash of the item in the mid map.   *)
SeedMaps(maps, e) ==
    [mid |-> [k \in Mids |-> IF k = MidKey(e) /\ maps.mid[k] = 0 THEN e ELSE maps.mid[k]],
     logical |-> [k \in Logicals |-> IF k = LogicalKey(e) /\ maps.logical[k] = 0 THEN e ELSE maps.logical[k]]]

(* Mutant: whoever holds a role seeds the logical map, duplicates too. *)
RebuildMaps_anyRole(roles, n) ==
    [mid |-> [k \in Mids |-> FirstOf({e \in 1..n : roles[e].role = "unique" /\ MidKey(e) = k})],
     logical |-> [k \in Logicals |-> FirstOf({e \in 1..n : roles[e].role # "null" /\ LogicalKey(e) = k})]]

(* rebuild_maps_from_committed *)
RebuildMaps(roles, n) ==
    LET Uniques == {e \in 1..n : roles[e].role = "unique"} IN
    [mid |-> [k \in Mids |-> FirstOf({e \in Uniques : MidKey(e) = k})],
     logical |-> [k \in Logicals |-> FirstOf({e \in Uniques : LogicalKey(e) = k})]]

(* Mutant: the key is stored where its tier belongs. *)
Tier_key(e) == IF MidKey(e) # NoKey THEN MidKey(e) ELSE LogicalKey(e)

Tier(e) == IF MidKey(e) # NoKey THEN "message_id"
           ELSE IF LogicalKey(e) # NoKey THEN "logical_hash" ELSE "none"

(* The item resolve_parent finds under the first tier e has a key for; 0 when none. *)
CanonicalFor(e, maps) ==
    IF MidKey(e) # NoKey THEN maps.mid[MidKey(e)]
    ELSE IF LogicalKey(e) # NoKey THEN maps.logical[LogicalKey(e)] ELSE 0

RoleOf(canon, tier) ==
    [role |-> IF canon = 0 THEN "unique" ELSE "duplicate", of |-> canon, tier |-> tier]

-----------------------------------------------------------------------------
(* Starting and resuming. *)

IsFreshDedupe(cp) == cp.next = 0 /\ cp.phase = "parents" /\ cp.family = 0

(* clear_dedupe_fields *)
ClearDedupe ==
    [i \in Items |-> IF i \in Emails \/ (SuppressChildren /\ ParentOf[i] \in Emails)
                     THEN NullRole ELSE dedup[i]]

(* run_dedupe_inner up to its first loop, for a job with checkpoint cp. *)
DedupeOpen(cp, reset) ==
    LET roles == IF reset /\ IsFreshDedupe(cp) THEN ClearDedupe ELSE dedup IN
    /\ dedup' = roles
    /\ dedupeJob' = [state |-> "running", reset |-> reset,
                     had |-> IF IsFreshDedupe(cp) THEN {i \in Items : roles[i].role # "null"}
                             ELSE dedupeJob.had]
    /\ dedupeRun' = [NoDedupeRun EXCEPT !.cursor = cp, !.maps = RebuildMaps(roles, cp.next)]
    /\ UNCHANGED input

(* A job of its own: no checkpoint yet. *)
DedupeStart(reset) ==
    /\ dedupeJob.state = "queued"
    /\ dedupeCp' = FreshDedupeCursor
    /\ DedupeOpen(FreshDedupeCursor, reset)
    /\ UNCHANGED stops

(* The same job again, from its checkpoint and with its frozen params.  Before the first  *)
(* checkpoint there are none and the defaults apply, unless the caller passes them again. *)
(* The default of reset is TRUE; the other parameters are constants, equal to their       *)
(* defaults where that matters.                                                           *)
DedupeResume ==
    /\ dedupeJob.state = "stopped"
    /\ \E reset \in {dedupeJob.reset} \cup (IF IsFreshDedupe(dedupeCp) THEN {TRUE} ELSE {}) :
        DedupeOpen(dedupeCp, reset)
    /\ UNCHANGED <<dedupeCp, stops>>

(* Another job takes the place of one that stopped or succeeded. *)
DedupeAgain ==
    /\ dedupeJob.state \in {"stopped", "succeeded"}
    /\ Interrupt
    /\ dedupeJob' = [dedupeJob EXCEPT !.state = "queued"]
    /\ UNCHANGED <<input, dedup, dedupeCp, dedupeRun>>

-----------------------------------------------------------------------------
(* Batches. *)

StagedItems(staged) == {i \in Items : staged[i] # NullRole}

(* commit_batch: staged roles and the cursor in one transaction. *)
CommitBatch(run) ==
    /\ dedup' = [i \in Items |-> IF run.staged[i] # NullRole THEN run.staged[i] ELSE dedup[i]]
    /\ dedupeCp' = run.cursor
    /\ dedupeRun' = [run EXCEPT !.staged = NothingStaged]

(* Commit once batch_size updates are staged. *)
CommitWhenFull(run) ==
    IF Cardinality(StagedItems(run.staged)) >= DedupeBatch
    THEN CommitBatch(run)
    ELSE dedupeRun' = run /\ UNCHANGED <<dedup, dedupeCp>>

-----------------------------------------------------------------------------
(* The parent pass. *)

InParentPass == dedupeJob.state = "running" /\ dedupeRun.cursor.phase = "parents"
NextParent == dedupeRun.cursor.next + 1

(* Incremental mode: an item with a role keeps it and seeds the maps when unique. *)
DedupeSkipParent ==
    /\ InParentPass
    /\ dedupeRun.cursor.next < NE
    /\ ~dedupeJob.reset
    /\ dedup[NextParent].role # "null"
    /\ dedupeRun' = [dedupeRun EXCEPT
            !.maps = IF dedup[NextParent].role = "unique" THEN SeedMaps(@, NextParent) ELSE @,
            !.cursor.next = @ + 1]
    /\ UNCHANGED <<input, dedup, dedupeCp, dedupeJob, stops>>

(* resolve_parent *)
DedupeResolveParent ==
    /\ InParentPass
    /\ dedupeRun.cursor.next < NE
    /\ dedupeJob.reset \/ dedup[NextParent].role = "null"
    /\ LET e == NextParent
           canon == CanonicalFor(e, dedupeRun.maps)
           conflict == canon # 0 /\ MidKey(e) # NoKey /\ input.logical[canon] # input.logical[e]
           cursor == dedupeRun.cursor
       IN  CommitWhenFull(
            [dedupeRun EXCEPT
                !.staged[e] = RoleOf(canon, Tier(e)),
                !.maps = IF canon = 0 THEN SeedMaps(@, e) ELSE @,
                !.cursor = [cursor EXCEPT
                    !.next = e,
                    !.unique = IF canon = 0 THEN cursor.unique + 1 ELSE cursor.unique,
                    !.duplicate = IF canon = 0 THEN cursor.duplicate ELSE cursor.duplicate + 1,
                    !.conflicts = IF conflict THEN cursor.conflicts + 1 ELSE cursor.conflicts]])
    /\ UNCHANGED <<input, dedupeJob, stops>>

(* The rest of the last batch. *)
DedupeFlushParents ==
    /\ InParentPass
    /\ dedupeRun.cursor.next = NE
    /\ StagedItems(dedupeRun.staged) # {}
    /\ CommitBatch(dedupeRun)
    /\ UNCHANGED <<input, dedupeJob, stops>>

(* Mutant: the phase is not advanced. *)
DedupeEnterFamily_samePhase ==
    /\ InParentPass
    /\ dedupeRun.cursor.next = NE
    /\ StagedItems(dedupeRun.staged) = {}
    /\ CommitBatch([dedupeRun EXCEPT !.cursor.family = 0])
    /\ UNCHANGED <<input, dedupeJob, stops>>

DedupeEnterFamily ==
    /\ InParentPass
    /\ dedupeRun.cursor.next = NE
    /\ StagedItems(dedupeRun.staged) = {}
    /\ CommitBatch([dedupeRun EXCEPT !.cursor.phase = "family", !.cursor.family = 0])
    /\ UNCHANGED <<input, dedupeJob, stops>>

-----------------------------------------------------------------------------
(* The family pass: the direct attachments of every duplicate parent. *)

InFamilyPass == dedupeJob.state = "running" /\ dedupeRun.cursor.phase = "family" /\ SuppressChildren

DupParents == {p \in Emails : dedup[p].role = "duplicate"}
MoreDupParents == dedupeRun.cursor.family < Cardinality(DupParents)

(* dup_parents[idx] *)
DupParent == CHOOSE p \in DupParents :
                Cardinality({q \in DupParents : q < p}) = dedupeRun.cursor.family

(* match_attach: same digest, else same name and size, else nothing; never the parent email. *)
MatchAttach(c, twins) ==
    LET sameDigest == {t \in twins : Digest[c] # NoKey /\ Digest[t] = Digest[c]}
        sameName == {t \in twins : NameSize[c] # NoKey /\ NameSize[t] = NameSize[c]}
    IN  FirstOf(IF sameDigest # {} THEN sameDigest ELSE sameName)

(* Mutant: a child is counted each time it is visited. *)
AlreadyFamily_never(c) == dedup[c].role = "family"

AlreadyFamily(c) == dedup[c].role = "duplicate" /\ dedup[c].tier = "family"

DedupeChild ==
    /\ InFamilyPass
    /\ MoreDupParents
    /\ Children(DupParent) \ dedupeRun.done # {}
    /\ LET c == FirstOf(Children(DupParent) \ dedupeRun.done)
           twin == MatchAttach(c, Children(dedup[DupParent].of))
       IN  CommitWhenFull(
            [dedupeRun EXCEPT
                !.staged[c] = [role |-> "duplicate", of |-> twin, tier |-> "family"],
                !.cursor.duplicate = IF AlreadyFamily(c) THEN @ ELSE @ + 1,
                !.done = @ \cup {c}])
    /\ UNCHANGED <<input, dedupeJob, stops>>

(* family_cursor moves past a parent after all its children; nothing is committed for it. *)
DedupeNextDupParent ==
    /\ InFamilyPass
    /\ MoreDupParents
    /\ Children(DupParent) \subseteq dedupeRun.done
    /\ dedupeRun' = [dedupeRun EXCEPT !.cursor.family = @ + 1, !.done = {}]
    /\ UNCHANGED <<input, dedup, dedupeCp, dedupeJob, stops>>

DedupeFlushFamily ==
    /\ InFamilyPass
    /\ ~MoreDupParents
    /\ StagedItems(dedupeRun.staged) # {}
    /\ CommitBatch(dedupeRun)
    /\ UNCHANGED <<input, dedupeJob, stops>>

DedupeSucceed ==
    /\ dedupeJob.state = "running"
    /\ dedupeRun.cursor.phase = "family"
    /\ SuppressChildren => ~MoreDupParents /\ StagedItems(dedupeRun.staged) = {}
    /\ dedupeJob' = [dedupeJob EXCEPT !.state = "succeeded"]
    /\ dedupeRun' = NoDedupeRun
    /\ UNCHANGED <<input, dedup, dedupeCp, stops>>

-----------------------------------------------------------------------------
(* Stopping. *)

(* Where cancel is polled: before each parent, before each duplicate parent, and after a *)
(* batch committed inside one.                                                           *)
DedupePolls ==
    \/ InParentPass /\ dedupeRun.cursor.next < NE
    \/ InFamilyPass /\ MoreDupParents /\ dedupeRun.done = {}
    \/ InFamilyPass /\ MoreDupParents /\ StagedItems(dedupeRun.staged) = {}

(* Paused: what is staged is committed first. *)
DedupePause ==
    /\ DedupePolls
    /\ Interrupt
    /\ dedupeJob' = [dedupeJob EXCEPT !.state = "stopped"]
    /\ dedupeRun' = NoDedupeRun
    /\ IF StagedItems(dedupeRun.staged) = {}
       THEN UNCHANGED <<dedup, dedupeCp>>
       ELSE /\ dedup' = [i \in Items |-> IF dedupeRun.staged[i] # NullRole THEN dedupeRun.staged[i] ELSE dedup[i]]
            /\ dedupeCp' = dedupeRun.cursor
    /\ UNCHANGED input

(* The program dies, or a read, write or audit call fails and the job ends Failed. *)
DedupeCrash ==
    /\ dedupeJob.state = "running"
    /\ Interrupt
    /\ dedupeJob' = [dedupeJob EXCEPT !.state = "stopped"]
    /\ dedupeRun' = NoDedupeRun
    /\ UNCHANGED <<input, dedup, dedupeCp>>

DedupeStep ==
    \/ DedupeSkipParent \/ DedupeResolveParent \/ DedupeFlushParents \/ DedupeEnterFamily
    \/ DedupeChild \/ DedupeNextDupParent \/ DedupeFlushFamily \/ DedupeSucceed
    \/ DedupeResume
    \/ \E reset \in BOOLEAN : DedupeStart(reset)

DedupeNext == DedupeStep \/ DedupeAgain \/ DedupePause \/ DedupeCrash

DedupeSpec == DedupeInit /\ stops = 0 /\ [][DedupeNext]_<<dedupeVars, stops>>

-----------------------------------------------------------------------------
(* What the job promises, with no reference to its passes. *)

(* The item that stands for e: the first of its Message-ID; without one, the first of its *)
(* logical hash among the items that are not themselves duplicates by Message-ID.         *)
WithMid(k) == {x \in Emails : MidKey(x) = k}
Standing(x) == MidKey(x) = NoKey \/ FirstOf(WithMid(MidKey(x))) = x
WithLogical(k) == {x \in Emails : LogicalKey(x) = k /\ Standing(x)}

Representative(e) ==
    IF MidKey(e) # NoKey THEN FirstOf(WithMid(MidKey(e)))
    ELSE IF LogicalKey(e) # NoKey THEN FirstOf(WithLogical(LogicalKey(e))) ELSE e

ReferenceRole(e) == RoleOf(IF Representative(e) = e THEN 0 ELSE Representative(e), Tier(e))

DedupeTypeOK ==
    /\ stops \in Nat
    /\ input \in DedupeInputs
    /\ dedup \in [Items -> DedupeRoles]
    /\ dedupeCp \in DedupeCursors
    /\ dedupeJob \in [state : JobPhases, reset : BOOLEAN, had : SUBSET Items]
    /\ dedupeRun \in DedupeRuns

(* Whatever was paused, crashed, resumed or run again, with or without reset,  *)
(* an email that has a role has the one an uninterrupted run over the whole    *)
(* matter gives it: the maps a resume rebuilds lose and invent no key.         *)
RolesAreReference == \A e \in Emails : dedup[e].role # "null" => dedup[e] = ReferenceRole(e)

(* A job that succeeded gave every email a role and, under the suppress        *)
(* policy, made the direct attachments of exactly the duplicates family        *)
(* duplicates; its counters count each item it gave a role to once, although   *)
(* a resume visits attachments again.                                          *)
FamilyChildren == {i \in Items : ParentOf[i] \in DupParents}

DedupeSuccessIsExact ==
    dedupeJob.state = "succeeded" =>
        LET given == Items \ dedupeJob.had IN
        /\ \A e \in Emails : dedup[e].role # "null"
        /\ SuppressChildren =>
            \A i \in Items \ Emails : dedup[i].role = "duplicate" <=> i \in FamilyChildren
        /\ dedupeCp.unique = Cardinality({i \in given : dedup[i].role = "unique"})
        /\ dedupeCp.duplicate = Cardinality({i \in given : dedup[i].role = "duplicate"})
        /\ dedupeCp.conflicts = Cardinality({e \in given \cap Emails :
                /\ dedup[e].role = "duplicate" /\ dedup[e].tier = "message_id"
                /\ input.logical[dedup[e].of] # input.logical[e]})

============================================================================
