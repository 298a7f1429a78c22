------------------------ MODULE ReviewPipeline_proofs -----------------------
(***************************************************************************)
(* The theorems about the stages in the composed pipeline: no step of one  *)
(* stage disturbs what another, or the resume of another, relies on.       *)
(***************************************************************************)
EXTENDS ReviewPipeline, CullPromote_proofs

LEMMA CullCountsStops ==
    ASSUME stops \in Nat, CullNext
    PROVE  stops' \in Nat
BY DEF CullNext, CullStep, CullStart, CullResume, CullOpen, CullItem, CullEnterFamily, CullDecide, CullWriteFamily,
       CullSucceed, CullAgain, CullPause, CullCrash, Interrupt

LEMMA PromoteCountsStops ==
    ASSUME stops \in Nat, PromoteNext
    PROVE  stops' \in Nat
BY DEF PromoteNext, PromoteStep, PromoteStart, PromoteResume, PromoteOpen, PromoteWrite, PromoteSnapshot, PromoteDone,
       PromoteSucceed, PromoteAgain, PromotePause, PromoteCrash, Interrupt

(* Whatever the stages do and wherever they are stopped, an email with a role has its reference role. *)
THEOREM RolesAreReferenceTheorem == Spec => []RolesAreReference
<1>1. Init => DedupeInv
  BY DedupeInitInv DEF Init
<1>2. DedupeInv /\ [Next]_pipelineVars => DedupeInv'
  <2> SUFFICES ASSUME DedupeInv, [Next]_pipelineVars PROVE DedupeInv'
    OBVIOUS
  <2>0. stops \in Nat
    BY DEF DedupeInv, DedupeTypeOK
  <2>1. CASE Dedupe
    BY <2>1, DedupeStepKeepsInv DEF Dedupe
  <2>2. CASE Cull
    BY <2>0, <2>2, CullCountsStops, DedupeStutterKeepsInv DEF Cull
  <2>3. CASE Promote
    BY <2>0, <2>3, PromoteCountsStops, DedupeStutterKeepsInv DEF Promote
  <2>4. CASE UNCHANGED pipelineVars
    BY <2>0, <2>4, DedupeStutterKeepsInv DEF pipelineVars
  <2> QED BY <2>1, <2>2, <2>3, <2>4 DEF Next
<1>3. DedupeInv => RolesAreReference
  BY DEF DedupeInv
<1> QED BY <1>1, <1>2, <1>3, PTL DEF Spec

-----------------------------------------------------------------------------
(* Promote in the pipeline. *)

(* Once a promote job has started, dedupe and cull have succeeded and stay so. *)
StageOK == promoteJob # "queued" => Stage = "promote"

LEMMA PromoteNextInv == StageOK /\ PromoteInv /\ [Next]_pipelineVars => (StageOK /\ PromoteInv)'
<1> SUFFICES ASSUME StageOK, PromoteInv, [Next]_pipelineVars PROVE StageOK' /\ PromoteInv'
    OBVIOUS
<1>1. CASE Dedupe
    <2>1. promoteJob = "queued" /\ UNCHANGED promoteVars
        BY <1>1 DEF Dedupe, StageOK, Stage
    <2> QED BY <2>1, QueuedKeepsInv DEF StageOK, promoteVars
<1>2. CASE Cull
    <2>1. promoteJob = "queued" /\ UNCHANGED promoteVars
        BY <1>2 DEF Cull, StageOK, Stage
    <2> QED BY <2>1, QueuedKeepsInv DEF StageOK, promoteVars
<1>3. CASE Promote
    <2>1. Stage = "promote" /\ PromoteNext /\ UNCHANGED <<dedupeVars, cullVars>>
        BY <1>3 DEF Promote
    <2>2. cull' = cull /\ dedup' = dedup /\ cullJob' = cullJob /\ dedupeJob' = dedupeJob
        BY <2>1 DEF dedupeVars, cullVars
    <2>3. Stage' = "promote"
        BY <2>1, <2>2 DEF Stage
    <2> QED BY <2>1, <2>2, <2>3, PromoteStepKeepsInv DEF StageOK
<1>4. CASE UNCHANGED pipelineVars
    <2>1. cull' = cull /\ dedup' = dedup /\ cullJob' = cullJob /\ dedupeJob' = dedupeJob /\ UNCHANGED promoteVars
        BY <1>4 DEF pipelineVars, dedupeVars, cullVars
    <2>2. Stage' = Stage /\ promoteJob' = promoteJob
        BY <2>1 DEF Stage, promoteVars
    <2> QED BY <2>1, <2>2, IdleKeepsInv DEF StageOK
<1> QED BY <1>1, <1>2, <1>3, <1>4 DEF Next

LEMMA PromoteInitially == Init => StageOK /\ PromoteInv
BY PromoteInitInv DEF Init, PromoteInit, StageOK

(* A promote that succeeded left a dense, family-ordered review set with its right count, however often *)
(* dedupe, cull and promote were stopped, resumed or run again on the way.                              *)
THEOREM ReviewSetIsExactTheorem == Spec => []ReviewSetIsExact
<1>1. PromoteInv => ReviewSetIsExact
    BY SucceededIsExact
<1> QED BY <1>1, PromoteInitially, PromoteNextInv, PTL DEF Spec

(* Two rounds of children and parents reach all of a family two levels deep, and nothing of one untouched. *)
LEMMA ExpandTwiceKeepsFamilies ==
    ASSUME NEW S \in SUBSET Items, NEW e \in Emails, \A c \in Children(e) : Children(c) = {}
    PROVE  Family(e) \subseteq ExpandTwice(S) \/ Family(e) \cap ExpandTwice(S) = {}
<1>1. /\ e \in Items /\ Family(e) \subseteq Items /\ ParentOf[e] = 0 /\ 0 \notin Items
      /\ \A c \in Items : c \in Family(e) <=> c = e \/ ParentOf[c] = e
    BY ItemNumbers DEF Family, Children
<1>2. \A i \in Items : ParentOf[i] \in Family(e) => i \in Family(e)
    BY <1>1 DEF Family, Children
<1>3. ASSUME NEW T \in SUBSET Items, NEW x \in Family(e), x \in ExpandOnce(T)
      PROVE  \E y \in Family(e) : y \in T
    <2>1. x \in Items
        BY <1>1
    <2>2. x \in T \/ ParentOf[x] \in T \/ \E c \in T : ParentOf[c] = x
        BY <1>3, <2>1, ExpandOnceAdds
    <2>3. CASE ParentOf[x] \in T
        BY <1>1, <2>1, <2>3
    <2>4. CASE \E c \in T : ParentOf[c] = x
        BY <1>2, <2>4
    <2> QED BY <2>2, <2>3, <2>4
<1>4. ExpandOnce(S) \in SUBSET Items
    BY ExpandOnceAdds
<1>5. ASSUME NEW x \in Family(e), x \in ExpandTwice(S)
      PROVE  Family(e) \subseteq ExpandTwice(S)
    <2>1. PICK y \in Family(e) : y \in S
        BY <1>3, <1>4, <1>5 DEF ExpandTwice
    <2>2. e \in ExpandOnce(S)
        BY <1>1, <2>1, ExpandOnceAdds
    <2>3. \A c \in Family(e) : c \in ExpandOnce(ExpandOnce(S))
        BY <1>1, <1>4, <2>2, ExpandOnceAdds
    <2> QED BY <2>3 DEF ExpandTwice
<1> QED BY <1>5

(* A family without nested attachments is promoted as a whole or not at all. *)
THEOREM FamiliesStayTogetherTheorem == Spec => []FamiliesStayTogether
<1>1. PromoteInv => FamiliesStayTogether
    <2> SUFFICES ASSUME PromoteInv, promoteJob = "succeeded", ExpandFamilies,
                        NEW e \in Emails, \A c \in Children(e) : Children(c) = {}
                 PROVE  Family(e) \subseteq Promoted \/ Family(e) \cap Promoted = {}
        BY DEF FamiliesStayTogether
    <2>1. SelectBase \in SUBSET Items
        BY BaseIsItems
    <2>2. Promoted = ExpandTwice(SelectBase)
        BY SucceededOrders DEF Membership
    <2> QED BY <2>1, <2>2, ExpandTwiceKeepsFamilies
<1> QED BY <1>1, PromoteInitially, PromoteNextInv, PTL DEF Spec

-----------------------------------------------------------------------------
(* All stages together. *)

(* Once a cull has started, dedupe has succeeded and stays so. *)
CullStageOK == cullJob # "queued" => dedupeJob.state = "succeeded"

PipelineInv == DedupeInv /\ CullStageOK /\ CullInv /\ KeptOK /\ StageOK /\ PromoteInv

LEMMA DedupeKeepsInput == ASSUME DedupeNext PROVE input' = input
BY DEF DedupeNext, DedupeStep, DedupeStart, DedupeResume, DedupeOpen, DedupeSkipParent, DedupeResolveParent,
       DedupeFlushParents, DedupeEnterFamily, DedupeChild, DedupeNextDupParent, DedupeFlushFamily,
       DedupeSucceed, DedupeAgain, DedupePause, DedupeCrash

LEMMA PipelineInitially == Init => PipelineInv
<1> SUFFICES ASSUME Init PROVE PipelineInv
    OBVIOUS
<1>1. DedupeInv
    BY DedupeInitInv DEF Init
<1>2. CullStageOK /\ CullInv /\ KeptOK
    BY CullInitInv, KeptInit DEF Init, CullInit, CullStageOK
<1> QED BY <1>1, <1>2, PromoteInitially DEF PipelineInv

(* A step of one stage finds the next not started, and leaves what the others rely on alone. *)
LEMMA PipelineNextInv == PipelineInv /\ [Next]_pipelineVars => PipelineInv'
<1> SUFFICES ASSUME PipelineInv, [Next]_pipelineVars PROVE PipelineInv'
    OBVIOUS
<1> USE DEF PipelineInv
<1>1. StageOK' /\ PromoteInv'
    BY PromoteNextInv
<1>2. stops \in Nat /\ RolesAreReference
    BY DEF DedupeInv, DedupeTypeOK
<1>3. CASE Dedupe
    <2>1. DedupeNext /\ UNCHANGED cullVars /\ cullJob = "queued" /\ cullJob' = cullJob
        BY <1>3 DEF Dedupe, CullStageOK, Stage, cullVars
    <2>2. DedupeInv'
        BY <2>1, DedupeStepKeepsInv
    <2>3. CullInv' /\ KeptOK'
        BY <2>1, CullIdleKeepsInv, DedupeKeepsInput, KeptIdle
    <2> QED BY <1>1, <2>1, <2>2, <2>3 DEF CullStageOK
<1>4. CASE Cull
    <2>1. CullNext /\ UNCHANGED dedupeVars /\ input' = input /\ dedupeJob' = dedupeJob
          /\ dedupeJob.state = "succeeded"
        BY <1>4 DEF Cull, Stage, dedupeVars
    <2>2. DedupeInv'
        BY <1>2, <2>1, CullCountsStops, DedupeStutterKeepsInv
    <2>3. CullInv' /\ KeptOK'
        BY <1>2, <2>1, CullStepKeepsInv, KeptNext
    <2> QED BY <1>1, <2>1, <2>2, <2>3 DEF CullStageOK
<1>5. CASE Promote \/ UNCHANGED pipelineVars
    <2>1. UNCHANGED dedupeVars /\ UNCHANGED cullVars /\ stops' \in Nat
        BY <1>2, <1>5, PromoteCountsStops DEF Promote, pipelineVars
    <2>2. input' = input /\ dedupeJob' = dedupeJob /\ cullJob' = cullJob
        BY <2>1 DEF dedupeVars, cullVars
    <2>3. DedupeInv'
        BY <2>1, DedupeStutterKeepsInv
    <2>4. CullInv' /\ KeptOK'
        BY <2>1, <2>2, CullIdleKeepsInv, KeptIdle
    <2> QED BY <1>1, <2>2, <2>3, <2>4 DEF CullStageOK
<1> QED BY <1>3, <1>4, <1>5 DEF Next

(* Every variable of the pipeline keeps its type, for every matter and all parameters. *)
THEOREM PipelineTypeTheorem == Spec => []TypeOK
<1>1. PipelineInv => TypeOK
    BY DEF PipelineInv, DedupeInv, CullInv, PromoteInv, TypeOK
<1> QED BY <1>1, PipelineInitially, PipelineNextInv, PTL DEF Spec

(* When the job clears first, as by default, a cull that succeeded left every candidate with the     *)
(* flag its family and the rules in force call for, whatever was stopped, resumed or run again on    *)
(* the way.  The rules in force are the job's own, or those of unique_only when a resume before the  *)
(* first checkpoint lost the job's: then no flag the other rules gave survives.  Without clearing    *)
(* the claim is false: the run CullResume.                                                           *)
THEOREM CullMatchesPolicyTheorem == ASSUME CullReset PROVE Spec => []CullMatchesPolicy
<1>1. Init => ExactInv
    BY DEF Init, CullInit, ExactInv
<1>2. PipelineInv /\ ExactInv /\ [Next]_pipelineVars => ExactInv'
    <2> SUFFICES ASSUME PipelineInv, ExactInv, [Next]_pipelineVars PROVE ExactInv'
        OBVIOUS
    <2> USE DEF PipelineInv
    <2>1. CASE Dedupe
        <3>1. cullJob = "queued" /\ UNCHANGED cullVars
            BY <2>1 DEF Dedupe, CullStageOK, Stage
        <3> QED BY <3>1, CullExactIdle
    <2>2. CASE Cull
        <3>1. CullNext /\ dedup' = dedup
            BY <2>2 DEF Cull, dedupeVars
        <3> QED BY <3>1, CullReset, CullExactNext
    <2>3. CASE Promote \/ UNCHANGED pipelineVars
        <3>1. UNCHANGED cullVars /\ dedup' = dedup
            BY <2>3 DEF Promote, pipelineVars, dedupeVars
        <3> QED BY <3>1, CullExactIdle
    <2> QED BY <2>1, <2>2, <2>3 DEF Next
<1>3. PipelineInv /\ ExactInv => CullMatchesPolicy
    BY CullMatches DEF PipelineInv
<1> QED BY <1>1, <1>2, <1>3, PipelineInitially, PipelineNextInv, PTL DEF Spec

(* No email is lost between the stages: when a promote has succeeded, the representative of every *)
(* email is in the review set unless a rule hit it, under every policy.                           *)
THEOREM NothingLostTheorem == Spec => []NothingLost
<1>1. PipelineInv => NothingLost
    <2> SUFFICES ASSUME PipelineInv, promoteJob = "succeeded", NEW e \in Emails, Representative(e) \notin Hits
                 PROVE  Representative(e) \in Promoted
        BY DEF NothingLost
    <2> USE DEF PipelineInv
    <2> DEFINE r == Representative(e)
    <2>1. r \in Kept
        BY RepresentativeStands DEF Kept
    <2>2. r \in Items /\ r \in CullCandidates /\ dedup[r].role # "duplicate"
        BY <2>1, KeptFacts DEF DedupeInv
    <2>3. cullJob = "succeeded"
        BY DEF StageOK, Stage
    <2>4. cull[r].status # "null"
        BY <2>2, <2>3 DEF CullInv
    <2>5. cull[r].status = "included"
        BY <2>1, <2>4 DEF KeptOK, NoFlag, Included
    <2>6. r \in SelectBase
        BY <2>2, <2>5, PromoteAssumptions DEF SelectBase, ResolvedPolicy
    <2>7. SelectBase \in SUBSET Items /\ ExpandOnce(SelectBase) \in SUBSET Items
        BY BaseIsItems, ExpandOnceAdds
    <2>8. r \in ExpandTwice(SelectBase)
        BY <2>2, <2>6, <2>7, ExpandOnceAdds DEF ExpandTwice
    <2> QED BY <2>6, <2>8, SucceededOrders DEF Membership
<1> QED BY <1>1, PipelineInitially, PipelineNextInv, PTL DEF Spec

(* A dedupe job that succeeded gave every email a role, made family duplicates of the attachments *)
(* of exactly the duplicates, and counted each item it gave a role to once, whatever batches were  *)
(* lost or visited again on the way.                                                               *)
THEOREM DedupeSuccessIsExactTheorem == Spec => []DedupeSuccessIsExact
<1>1. Init => DedupeCountInv
    BY DedupeInitCount DEF Init
<1>2. PipelineInv /\ DedupeCountInv /\ [Next]_pipelineVars => DedupeCountInv'
    <2> SUFFICES ASSUME PipelineInv, DedupeCountInv, [Next]_pipelineVars PROVE DedupeCountInv'
        OBVIOUS
    <2>1. CASE Dedupe
        BY <2>1, DedupeStepKeepsCount DEF Dedupe, PipelineInv
    <2>2. CASE Cull \/ Promote \/ UNCHANGED pipelineVars
        BY <2>2, DedupeStutterKeepsCount DEF Cull, Promote, pipelineVars
    <2> QED BY <2>1, <2>2 DEF Next
<1>3. PipelineInv /\ DedupeCountInv => DedupeSuccessIsExact
    BY DedupeCountsRight DEF PipelineInv
<1> QED BY <1>1, <1>2, <1>3, PipelineInitially, PipelineNextInv, PTL DEF Spec

=============================================================================
