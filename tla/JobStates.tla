----------------------------- MODULE JobStates -----------------------------
(***************************************************************************)
(* The durable job table of a matter: crates/matter-core/src/jobs.rs.      *)
(* A job row is its state; a job that create_job has not inserted yet is   *)
(* NoRow.  Time stamps and summaries are data no property tells apart.     *)
(***************************************************************************)

JobState == {"pending", "running", "paused", "failed", "cancelled", "succeeded"}

NoRow == "absent"

RowState == JobState \cup {NoRow}

(* JobState::can_transition_to *)
CanTransitionTo(from, to) ==
    \/ from = "pending"   /\ to \in {"running", "cancelled"}
    \/ from = "running"   /\ to \in {"paused", "failed", "cancelled", "succeeded"}
    \/ from = "paused"    /\ to \in {"running", "cancelled", "failed"}
    \/ from = "failed"    /\ to \in {"pending", "running"}
    \/ from = "cancelled" /\ to = "pending"

(* Whether set_job_state(j, to) returns Ok on the table rows. *)
SetJobStateOk(rows, j, to) ==
    /\ rows[j] # NoRow
    /\ rows[j] = to \/ CanTransitionTo(rows[j], to)

(* The table set_job_state(j, to) leaves; a refused transition changes nothing. *)
SetJobState(rows, j, to) ==
    IF SetJobStateOk(rows, j, to) THEN [rows EXCEPT ![j] = to] ELSE rows

(* create_job inserts a Pending row. *)
CreateJob(rows, j) == [rows EXCEPT ![j] = "pending"]

(* list_jobs filtered to Running rows, among the jobs js of one matter. *)
RunningRows(rows, js) == {j \in js : rows[j] = "running"}

============================================================================
