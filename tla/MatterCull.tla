---------------------------- MODULE MatterCull -----------------------------
(***************************************************************************)
(* The cull job (matter-cull): every candidate is judged by the rules and  *)
(* flagged, then a family pass reads the flags back, makes families whole  *)
(* and writes the result in batches.  The rules are abstract: an item is   *)
(* hit by exclude_exact_duplicates when dedupe made it a duplicate, and by *)
(* "rule" when any other condition (date, custodian, path, category, MIME, *)
(* size, empty, near-dup, DeNIST, status) matches it.  Reasons are a set.  *)
(* The parameters reach a resume only through the checkpoint: a job that   *)
(* stopped before its first one is resumed with "{}", which is the preset  *)
(* unique_only, unless a workflow or a profile passes them again.          *)
(***************************************************************************)
EXTENDS MatterDedupe, Sequences

CONSTANTS
    RuleHits,               \* the sets of items the other rules may match
    ExcludeDuplicates,      \* rules.exclude_exact_duplicates
    ProcessAttachments,     \* rules.roles.process_attachments
    CullFamilyPolicy,       \* "independent", "keep_children" or "cull_children"
    CullReset, CullBatch    \* CullParams

VARIABLES
    hits,       \* the items the job's other rules match; never changes
    rules,      \* the parameters in force: the job's "own", or the "default" ones
    cull,       \* item -> cull_status and cull_reasons_json
    cullCp,     \* the job's checkpoint; a missing one reads as FreshCullCursor
    cullJob,    \* the job's state
    cullRun     \* the memory of a running job

cullVars == <<hits, rules, cull, cullCp, cullJob, cullRun>>

ASSUME CullAssumptions ==
    /\ RuleHits \subseteq SUBSET Items
    /\ ExcludeDuplicates \in BOOLEAN /\ ProcessAttachments \in BOOLEAN /\ CullReset \in BOOLEAN
    /\ CullFamilyPolicy \in {"independent", "keep_children", "cull_children"}
    /\ CullBatch \in Nat \ {0}

CullReasons == {"exact_duplicate", "rule", "family_with_culled_parent"}
CullFlags == [status : {"null", "included", "culled"}, reasons : SUBSET CullReasons]
NoFlag == [status |-> "null", reasons |-> {}]
Included == [status |-> "included", reasons |-> {}]
Flag(reasons) == IF reasons = {} THEN Included ELSE [status |-> "culled", reasons |-> reasons]

FreshCullCursor == [phase |-> "items", index |-> 0, included |-> 0, culled |-> 0]
CullCursors == [phase : {"items", "family", "done"}, index : Nat, included : Nat, culled : Nat]

(* batch: the candidates judged and not yet written; at: how far the loop over them is; *)
(* updates: the family pass's writes.                                                   *)
NoCullRun == [cursor |-> FreshCullCursor, batch |-> {}, at |-> 0, updates |-> <<>>, loaded |-> FALSE]

(* What is in force.  unique_only also has a status rule, which matches no item of an *)
(* extracted-like status.                                                             *)
UniqueOnly == rules = "default"
Hits == IF UniqueOnly THEN {} ELSE hits
Excludes == UniqueOnly \/ ExcludeDuplicates
FamilyPolicy == IF UniqueOnly THEN "keep_children" ELSE CullFamilyPolicy
Reset == UniqueOnly \/ CullReset
BatchSize == IF UniqueOnly THEN 500 ELSE CullBatch

(* list_cull_candidates, in listing order. *)
CullCandidates == IF UniqueOnly \/ ProcessAttachments THEN Items ELSE Emails
Candidates == Cardinality(CullCandidates)

CullInit ==
    /\ hits \in RuleHits
    /\ rules = "own"
    /\ cull = [i \in Items |-> NoFlag]
    /\ cullCp = FreshCullCursor
    /\ cullJob = "queued"
    /\ cullRun = NoCullRun

-----------------------------------------------------------------------------
(* Mutant: any dedupe role excludes. *)
EvaluateItem_anyRole(i) ==
    Flag((IF Excludes /\ dedup[i].role # "null" THEN {"exact_duplicate"} ELSE {})
         \cup (IF i \in Hits THEN {"rule"} ELSE {}))

(* evaluate_item collects every reason. *)
EvaluateItem(i) ==
    Flag((IF Excludes /\ dedup[i].role = "duplicate" THEN {"exact_duplicate"} ELSE {})
         \cup (IF i \in Hits THEN {"rule"} ELSE {}))

HasParent(i) == ParentOf[i] \in CullCandidates

(* One round of keep_children_with_included_parent over the flags d. *)
KeepRound(d) ==
    [i \in CullCandidates |->
        IF HasParent(i) /\ d[ParentOf[i]].status = "included" THEN Included ELSE d[i]]

(* One round of cull_children_with_parent. *)
CullRound(d) ==
    [i \in CullCandidates |->
        IF HasParent(i) /\ d[ParentOf[i]].status = "culled"
        THEN Flag(d[i].reasons \cup {"family_with_culled_parent"}) ELSE d[i]]

(* One round of apply_family_policy. *)
FamilyRound(d) ==
    CASE FamilyPolicy = "independent" -> d
      [] FamilyPolicy = "keep_children" -> KeepRound(d)
      [] FamilyPolicy = "cull_children" -> CullRound(d)

(* Mutant: one round, no fixpoint. *)
ApplyFamilyPolicy_once(d) == FamilyRound(d)

(* apply_family_policy: rounds until nothing changes; a family is never deeper than NI. *)
ApplyFamilyPolicy(d) ==
    LET round[n \in 0..NI] == IF n = 0 THEN d ELSE FamilyRound(round[n - 1])
    IN  round[NI]

CountCulled(d) == Cardinality({i \in CullCandidates : d[i].status = "culled"})

-----------------------------------------------------------------------------
(* Starting and resuming. *)

IsFreshCull(cp) == cp.phase = "items" /\ cp.index = 0

(* clear_cull_fields on a fresh start with reset, then the loops from the checkpoint. *)
CullOpen(cp) ==
    /\ cullJob' = "running"
    /\ cull' = IF Reset' /\ IsFreshCull(cp)
               THEN [i \in Items |-> IF i \in CullCandidates' THEN NoFlag ELSE cull[i]]
               ELSE cull
    /\ cullRun' = [NoCullRun EXCEPT !.cursor = cp, !.at = IF cp.phase = "items" THEN cp.index ELSE 0]
    /\ UNCHANGED <<hits, stops>>

CullStart ==
    /\ cullJob = "queued"
    /\ rules' = "own"
    /\ cullCp' = FreshCullCursor
    /\ CullOpen(FreshCullCursor)

(* The parameters are in the checkpoint; without one they are those of the call. *)
CullResume ==
    /\ cullJob = "stopped"
    /\ rules' \in IF IsFreshCull(cullCp) THEN {"own", "default"} ELSE {rules}
    /\ CullOpen(cullCp)
    /\ UNCHANGED cullCp

CullAgain ==
    /\ cullJob \in {"stopped", "succeeded"}
    /\ Interrupt
    /\ cullJob' = "queued"
    /\ UNCHANGED <<hits, rules, cull, cullCp, cullRun>>

-----------------------------------------------------------------------------
(* The item pass. *)

InItemPass == cullJob = "running" /\ cullRun.cursor.phase = "items"

(* build_updates and apply_cull_batch_with_checkpoint: the batch and the cursor together. *)
WriteItemBatch(batch, at) ==
    LET cursor == [cullRun.cursor EXCEPT
                    !.index = at,
                    !.included = @ + Cardinality({i \in batch : EvaluateItem(i).status = "included"}),
                    !.culled = @ + Cardinality({i \in batch : EvaluateItem(i).status = "culled"})]
    IN  /\ cull' = [i \in Items |-> IF i \in batch THEN EvaluateItem(i) ELSE cull[i]]
        /\ cullCp' = cursor
        /\ cullRun' = [cullRun EXCEPT !.cursor = cursor, !.batch = {}, !.at = at]

(* One candidate: judged, or left as it is when a cumulative run finds it flagged. *)
CullItem ==
    /\ InItemPass
    /\ cullRun.at < Candidates
    /\ LET i == cullRun.at + 1
           skip == ~Reset /\ cull[i].status # "null"
           batch == IF skip THEN cullRun.batch ELSE cullRun.batch \cup {i}
       IN  IF Cardinality(batch) >= BatchSize \/ i = Candidates
           THEN WriteItemBatch(batch, i)
           ELSE /\ cullRun' = [cullRun EXCEPT !.batch = batch, !.at = i]
                /\ UNCHANGED <<cull, cullCp>>
    /\ UNCHANGED <<hits, rules, cullJob, stops>>

CullEnterFamily ==
    /\ InItemPass
    /\ cullRun.at = Candidates
    /\ LET cursor == [cullRun.cursor EXCEPT !.phase = "family", !.index = 0] IN
        /\ cullCp' = cursor
        /\ cullRun' = [cullRun EXCEPT !.cursor = cursor]
    /\ UNCHANGED <<hits, rules, cull, cullJob, stops>>

-----------------------------------------------------------------------------
(* The family pass. *)

InFamilyCull == cullJob = "running" /\ cullRun.cursor.phase = "family"

(* The flags the pass reads back: a missing one counts as included. *)
ReadBack == [i \in CullCandidates |->
                IF cull[i].status = "null" THEN [cull[i] EXCEPT !.status = "included"] ELSE cull[i]]

(* Candidates in order, each with its final flag; a cumulative run leaves out what is unchanged. *)
UpdateList(final) ==
    LET changed == InOrder({i \in CullCandidates : Reset \/ cull[i] # final[i]})
    IN  [n \in 1..Len(changed) |-> [item |-> changed[n], flag |-> final[changed[n]]]]

(* Reads, decides and counts before the first write.  With nothing to write the job is done; *)
(* an index beyond the list is the error "family checkpoint cursor_index exceeds update      *)
(* count", which ends the job.                                                               *)
CullDecide ==
    /\ InFamilyCull
    /\ ~cullRun.loaded
    /\ LET final == ApplyFamilyPolicy(ReadBack)
           updates == UpdateList(final)
           cursor == [cullRun.cursor EXCEPT !.phase = IF updates = <<>> THEN "done" ELSE @,
                                            !.culled = CountCulled(final),
                                            !.included = Candidates - CountCulled(final)]
       IN  /\ cullRun' = IF cursor.index > Len(updates) THEN NoCullRun
                         ELSE [cullRun EXCEPT !.cursor = cursor, !.updates = updates, !.loaded = TRUE]
           /\ cullJob' = IF cursor.index > Len(updates) THEN "stopped" ELSE cullJob
           /\ cullCp' = IF cursor.index = 0 /\ updates = <<>> THEN cursor ELSE cullCp
    /\ UNCHANGED <<hits, rules, cull, stops>>

FamilyWritten(end) == end = Len(cullRun.updates)

(* One batch of the list with the cursor. *)
CullWriteFamily ==
    /\ InFamilyCull
    /\ cullRun.loaded
    /\ cullRun.cursor.index < Len(cullRun.updates)
    /\ LET updates == cullRun.updates
           from == cullRun.cursor.index
           end == IF from + BatchSize <= Len(updates) THEN from + BatchSize ELSE Len(updates)
           cursor == [cullRun.cursor EXCEPT !.index = end,
                        !.phase = IF FamilyWritten(end) THEN "done" ELSE "family"]
       IN  /\ cull' = [i \in Items |->
                        IF \E n \in (from + 1)..end : updates[n].item = i
                        THEN updates[CHOOSE n \in (from + 1)..end : updates[n].item = i].flag
                        ELSE cull[i]]
           /\ cullCp' = cursor
           /\ cullRun' = [cullRun EXCEPT !.cursor = cursor]
    /\ UNCHANGED <<hits, rules, cullJob, stops>>

(* The loops are over: the last batch is written, or there was none to write after the index. *)
CullSucceed ==
    /\ cullJob = "running"
    /\ \/ cullRun.cursor.phase = "done"
       \/ InFamilyCull /\ cullRun.loaded /\ cullRun.cursor.index = Len(cullRun.updates)
    /\ cullJob' = "succeeded"
    /\ cullRun' = [NoCullRun EXCEPT !.cursor = cullRun.cursor]
    /\ UNCHANGED <<hits, rules, cull, cullCp, stops>>

-----------------------------------------------------------------------------
(* Stopping. *)

(* In the item pass the pending batch is dropped; in the family pass the cursor is kept. *)
CullPause ==
    /\ \/ InItemPass /\ cullRun.at < Candidates /\ UNCHANGED cullCp
       \/ /\ InFamilyCull /\ cullRun.loaded
          /\ cullRun.cursor.index < Len(cullRun.updates)
          /\ cullCp' = cullRun.cursor
    /\ Interrupt
    /\ cullJob' = "stopped"
    /\ cullRun' = NoCullRun
    /\ UNCHANGED <<hits, rules, cull>>

CullCrash ==
    /\ cullJob = "running"
    /\ Interrupt
    /\ cullJob' = "stopped"
    /\ cullRun' = NoCullRun
    /\ UNCHANGED <<hits, rules, cull, cullCp>>

CullStep ==
    \/ CullStart \/ CullResume \/ CullItem \/ CullEnterFamily
    \/ CullDecide \/ CullWriteFamily \/ CullSucceed

CullNext == CullStep \/ CullAgain \/ CullPause \/ CullCrash

-----------------------------------------------------------------------------
(* What the job promises, from the families and the rules alone. *)

AncestorsOf[i \in Items] ==
    IF ParentOf[i] \in CullCandidates THEN {ParentOf[i]} \cup AncestorsOf[ParentOf[i]] ELSE {}

ReferenceFlag(i) ==
    LET base == EvaluateItem(i)
        above(status) == \E a \in AncestorsOf[i] : EvaluateItem(a).status = status
    IN  CASE FamilyPolicy = "keep_children" /\ above("included") -> Included
          [] FamilyPolicy = "cull_children" /\ above("culled") ->
                Flag(base.reasons \cup {"family_with_culled_parent"})
          [] OTHER -> base

CullTypeOK ==
    /\ hits \in RuleHits
    /\ rules \in {"own", "default"}
    /\ cull \in [Items -> CullFlags]
    /\ cullCp \in CullCursors
    /\ cullJob \in JobPhases
    /\ cullRun \in [cursor : CullCursors, batch : SUBSET Items, at : 0..NI,
                    updates : Seq([item : Items, flag : CullFlags]), loaded : BOOLEAN]

(* A cull that succeeded left every candidate with the flag its family and the *)
(* rules in force call for, and counted them right, although a resumed family  *)
(* pass decides again from rows that are half rewritten and goes on by an      *)
(* index into a list it has just rebuilt.  The rules in force are the job's    *)
(* own unless a resume before the first checkpoint replaced them: then no flag *)
(* of the own rules may be left over, and none of a later cull's may be mixed  *)
(* with those of unique_only.                                                  *)
CullMatchesPolicy ==
    cullJob = "succeeded" =>
        /\ \A i \in CullCandidates : cull[i] = ReferenceFlag(i)
        /\ cullRun.cursor.culled = CountCulled(cull)
        /\ cullRun.cursor.included = Candidates - CountCulled(cull)

============================================================================
