--------------------------- MODULE MatterPromote ---------------------------
(***************************************************************************)
(* The promote job (matter-promote): selects items, completes families,    *)
(* freezes the ordered list in its checkpoint, writes dense review orders  *)
(* in batches and then the item count of the review set.  Every item here  *)
(* has an extracted-like status, and fail_if_empty and require_dedupe are  *)
(* off (their defaults); ids sort as the item numbers do.                  *)
(***************************************************************************)
EXTENDS MatterCull

CONSTANTS
    PromotePolicy,      \* "auto", "cull_included", "unique_only" or "all_extracted"
    ExpandFamilies,     \* expand_families, or a policy that implies it
    PromoteBatch        \* PromoteParams.batch_size; reset is on (its default)

VARIABLES
    order,          \* item -> review_order, 0 when not in_review
    snapshot,       \* review_sets.item_count
    promoteCp,      \* the job's checkpoint; a missing one reads as FreshPromoteCursor
    promoteJob,     \* the job's state
    promoteRun      \* the memory of a running job: its cursor, and whether the snapshot is written

promoteVars == <<order, snapshot, promoteCp, promoteJob, promoteRun>>

ASSUME PromoteAssumptions ==
    /\ PromotePolicy \in {"auto", "cull_included", "unique_only", "all_extracted"}
    /\ ExpandFamilies \in BOOLEAN
    /\ PromoteBatch \in Nat \ {0}

FreshPromoteCursor == [phase |-> "write", index |-> 0, ids |-> <<>>]
PromoteCursors == [phase : {"write", "snapshot", "done"}, index : 0..NI, ids : Seq(Items)]
NoPromoteRun == [cursor |-> FreshPromoteCursor, counted |-> FALSE]

PromoteInit ==
    /\ order = [i \in Items |-> 0]
    /\ snapshot = 0
    /\ promoteCp = FreshPromoteCursor
    /\ promoteJob = "queued"
    /\ promoteRun = NoPromoteRun

-----------------------------------------------------------------------------
(* resolve_policy: "auto" follows the cull if one has run. *)
ResolvedPolicy ==
    IF PromotePolicy # "auto" THEN PromotePolicy
    ELSE IF \E i \in Items : cull[i].status # "null" THEN "cull_included" ELSE "unique_only"

(* select_base_ids_from_candidates *)
SelectBase ==
    CASE ResolvedPolicy = "cull_included" -> {i \in Items : cull[i].status = "included"}
      [] ResolvedPolicy = "unique_only" -> {i \in Items : dedup[i].role # "duplicate"}
      [] ResolvedPolicy = "all_extracted" -> Items

(* One round: direct children and parents. *)
ExpandOnce(S) == S \cup (UNION {Children(i) : i \in S}) \cup {p \in Items : \E i \in S : ParentOf[i] = p}

(* Mutant: parents and children once. *)
ExpandTwice_once(S) == ExpandOnce(S)

(* expand_families_bidirectional: at most two rounds. *)
ExpandTwice(S) == ExpandOnce(ExpandOnce(S))

Membership == IF ExpandFamilies THEN ExpandTwice(SelectBase) ELSE SelectBase

(* ordered_membership: by parent or self, the parent first, then by path and id. *)
FamilyKey(i) == IF ParentOf[i] = 0 THEN i ELSE ParentOf[i]
Precedes(i, j) ==
    \/ FamilyKey(i) < FamilyKey(j)
    \/ FamilyKey(i) = FamilyKey(j) /\ ParentOf[i] = 0 /\ ParentOf[j] # 0
    \/ FamilyKey(i) = FamilyKey(j) /\ (ParentOf[i] = 0 <=> ParentOf[j] = 0) /\ i < j

Ordered(S) == [n \in 1..Cardinality(S) |->
                CHOOSE i \in S : Cardinality({j \in S : Precedes(j, i)}) = n - 1]

-----------------------------------------------------------------------------
(* Starting and resuming. *)

IsFreshPromote(cp) == cp.phase = "write" /\ cp.index = 0 /\ cp.ids = <<>>

FrozenIds(cp) == IF cp.ids = <<>> THEN Ordered(Membership) ELSE cp.ids

(* clear_review_membership_for_set on a fresh start; the list is built or restored. *)
PromoteOpen(cp) ==
    /\ promoteJob' = "running"
    /\ order' = IF IsFreshPromote(cp) THEN [i \in Items |-> 0] ELSE order
    /\ promoteRun' = [cursor |-> [cp EXCEPT !.ids = FrozenIds(cp)], counted |-> FALSE]
    /\ UNCHANGED <<snapshot, stops>>

PromoteStart ==
    /\ promoteJob = "queued"
    /\ promoteCp' = FreshPromoteCursor
    /\ PromoteOpen(FreshPromoteCursor)

(* The parameters are those of the checkpoint.  A job that has none yet gets the defaults: *)
(* policy "auto", families expanded.                                                       *)
PromoteResume ==
    /\ promoteJob = "stopped"
    /\ PromoteOpen(promoteCp)
    /\ UNCHANGED promoteCp

PromoteAgain ==
    /\ promoteJob \in {"stopped", "succeeded"}
    /\ Interrupt
    /\ promoteJob' = "queued"
    /\ UNCHANGED <<order, snapshot, promoteCp, promoteRun>>

-----------------------------------------------------------------------------
(* Membership, snapshot, done. *)

Total == Len(promoteRun.cursor.ids)
Writing == promoteJob = "running" /\ promoteRun.cursor.phase = "write"

(* Mutant: orders start again with each batch. *)
OrderOf_inBatch(n, from) == n - from

(* The place in the whole list, not in the batch. *)
OrderOf(n, from) == n

(* One batch of dense orders with the cursor; the last one, or the only and empty one of an *)
(* empty list, moves on to the snapshot.                                                    *)
PromoteWrite ==
    /\ Writing
    /\ promoteRun.cursor.index < Total \/ Total = 0
    /\ LET from == promoteRun.cursor.index
           end == IF from + PromoteBatch <= Total THEN from + PromoteBatch ELSE Total
           cursor == [promoteRun.cursor EXCEPT !.index = end,
                        !.phase = IF end = Total THEN "snapshot" ELSE "write"]
       IN  /\ order' = [i \in Items |->
                            IF \E n \in (from + 1)..end : cursor.ids[n] = i
                            THEN OrderOf(CHOOSE n \in (from + 1)..end : cursor.ids[n] = i, from)
                            ELSE order[i]]
           /\ promoteCp' = cursor
           /\ promoteRun' = [promoteRun EXCEPT !.cursor = cursor]
    /\ UNCHANGED <<snapshot, promoteJob, stops>>

(* finalize_promote runs for "snapshot" and again for "done". *)
Finalizing == promoteJob = "running" /\ promoteRun.cursor.phase \in {"snapshot", "done"}

PromoteSnapshot ==
    /\ Finalizing
    /\ ~promoteRun.counted
    /\ snapshot' = Total
    /\ promoteRun' = [promoteRun EXCEPT !.counted = TRUE]
    /\ UNCHANGED <<order, promoteCp, promoteJob, stops>>

PromoteDone ==
    /\ Finalizing
    /\ promoteRun.counted
    /\ promoteRun.cursor.phase = "snapshot"
    /\ promoteCp' = [promoteRun.cursor EXCEPT !.phase = "done"]
    /\ promoteRun' = [promoteRun EXCEPT !.cursor.phase = "done"]
    /\ UNCHANGED <<order, snapshot, promoteJob, stops>>

PromoteSucceed ==
    /\ promoteJob = "running"
    /\ promoteRun.cursor.phase = "done"
    /\ promoteRun.counted
    /\ promoteJob' = "succeeded"
    /\ promoteRun' = NoPromoteRun
    /\ UNCHANGED <<order, snapshot, promoteCp, stops>>

-----------------------------------------------------------------------------
(* Stopping. *)

(* Before a batch; the cursor, with the frozen list, is kept. *)
PromotePause ==
    /\ Writing
    /\ promoteRun.cursor.index < Total
    /\ Interrupt
    /\ promoteCp' = promoteRun.cursor
    /\ promoteJob' = "stopped"
    /\ promoteRun' = NoPromoteRun
    /\ UNCHANGED <<order, snapshot>>

PromoteCrash ==
    /\ promoteJob = "running"
    /\ Interrupt
    /\ promoteJob' = "stopped"
    /\ promoteRun' = NoPromoteRun
    /\ UNCHANGED <<order, snapshot, promoteCp>>

PromoteStep ==
    \/ PromoteStart \/ PromoteResume \/ PromoteWrite
    \/ PromoteSnapshot \/ PromoteDone \/ PromoteSucceed

PromoteNext == PromoteStep \/ PromoteAgain \/ PromotePause \/ PromoteCrash

-----------------------------------------------------------------------------
PromoteTypeOK ==
    /\ order \in [Items -> 0..NI]
    /\ snapshot \in 0..NI
    /\ promoteCp \in PromoteCursors
    /\ promoteJob \in JobPhases
    /\ promoteRun \in [cursor : PromoteCursors, counted : BOOLEAN]

Promoted == {i \in Items : order[i] # 0}

(* A promote that succeeded left the orders 1..k, one item each, with an email *)
(* before its attachments and no other family between them, and the review     *)
(* set's item count is k, whichever commits were lost to a crash or repeated   *)
(* by a resume.                                                                *)
ReviewSetIsExact ==
    promoteJob = "succeeded" =>
        /\ {order[i] : i \in Promoted} = 1..Cardinality(Promoted)
        /\ snapshot = Cardinality(Promoted)
        /\ \A i, j, k \in Promoted :
            order[i] < order[j] /\ order[j] < order[k] /\ FamilyKey(i) = FamilyKey(k)
                => FamilyKey(j) = FamilyKey(i)
        /\ \A i \in Promoted : ParentOf[i] \in Promoted \cap Emails => order[ParentOf[i]] < order[i]

============================================================================
