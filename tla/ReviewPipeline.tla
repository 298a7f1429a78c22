--------------------------- MODULE ReviewPipeline --------------------------
(***************************************************************************)
(* Dedupe, cull and promote one after the other, as a workflow or a user   *)
(* runs them: a matter runs one job at a time (ProcessRunner), and a stage *)
(* starts once the one before it has succeeded (WorkflowRun).  Each may be *)
(* paused, crash, be resumed or be run again; the stages speak to each     *)
(* other only through the item rows.                                       *)
(***************************************************************************)
EXTENDS MatterPromote

pipelineVars == <<dedupeVars, cullVars, promoteVars, stops>>

Init ==
    /\ stops = 0
    /\ DedupeInit
    /\ CullInit
    /\ PromoteInit

(* The stage whose job is due or under way. *)
Stage ==
    CASE dedupeJob.state # "succeeded" -> "dedupe"
      [] dedupeJob.state = "succeeded" /\ cullJob # "succeeded" -> "cull"
      [] OTHER -> "promote"

(* A new job of a stage that has succeeded may replace it until the next stage starts. *)
Dedupe ==
    /\ Stage = "dedupe" \/ cullJob = "queued"
    /\ DedupeNext
    /\ UNCHANGED <<cullVars, promoteVars>>

Cull ==
    /\ Stage = "cull" \/ (Stage = "promote" /\ promoteJob = "queued")
    /\ CullNext
    /\ UNCHANGED <<dedupeVars, promoteVars>>

Promote ==
    /\ Stage = "promote"
    /\ PromoteNext
    /\ UNCHANGED <<dedupeVars, cullVars>>

Next == Dedupe \/ Cull \/ Promote

(* A worker that is not stopped goes on, and a job that stopped is resumed. *)
Progress ==
    \/ DedupeStep /\ UNCHANGED <<cullVars, promoteVars>>
    \/ Stage = "cull" /\ CullStep /\ UNCHANGED <<dedupeVars, promoteVars>>
    \/ Stage = "promote" /\ PromoteStep /\ UNCHANGED <<dedupeVars, cullVars>>

Spec == Init /\ [][Next]_pipelineVars /\ WF_pipelineVars(Progress)

-----------------------------------------------------------------------------
TypeOK == DedupeTypeOK /\ CullTypeOK /\ PromoteTypeOK

(* End to end, under every policy: every email is in the review set or stands  *)
(* behind one that is; only a rule keeps the representative of an email out.   *)
NothingLost ==
    promoteJob = "succeeded" =>
        \A e \in Emails : Representative(e) \in Hits \/ Representative(e) \in Promoted

(* A family without nested attachments is in the review set as a whole or not  *)
(* at all, although dedupe, cull and promote each treat families their own     *)
(* way.                                                                        *)
Family(e) == {e} \cup Children(e)
FamiliesStayTogether ==
    promoteJob = "succeeded" /\ ExpandFamilies =>
        \A e \in Emails :
            (\A c \in Children(e) : Children(c) = {}) =>
                Family(e) \subseteq Promoted \/ Family(e) \cap Promoted = {}

(* However often it is stopped, the pipeline ends with a review set. *)
PipelineCompletes == <>[](promoteJob = "succeeded")

============================================================================
