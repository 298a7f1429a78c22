---------------------------- MODULE WorkflowRun ----------------------------
(***************************************************************************)
(* The orchestration handlers of crates/process-runner/src/handlers:        *)
(* workflow_run.rs and profile_run.rs, which differ in a few places told     *)
(* apart by Kind.  One parent job executes a plan of nodes, each through a   *)
(* child job that it creates and runs in its own thread, and checkpoints a   *)
(* cursor (node, child, status).  Every durable write is a step, so that a   *)
(* crash can fall between any two; the runner's accept rules, crash and the  *)
(* CLI's job cancel surround the handler (ProcessRunner has them in detail,  *)
(* one thread holds the matter's lock during a run).                         *)
(*                                                                          *)
(* Nodes that are disabled have no effect on a run and are left out of Plan; *)
(* a profile_run node is a node whose own children are not looked at.        *)
(***************************************************************************)
EXTENDS JobStates, Naturals, Sequences, FiniteSets

CONSTANTS Parent,       \* the orchestration job
          Children,     \* identifiers create_job_with_parent may draw
          GateChildren, \* those of them that go to gate nodes
          Plan,         \* the enabled nodes: type, and whether a failure is soft
          Kind,         \* "workflow_run" or "profile_run"
          StoreFaults,  \* steps of the handler that may return an error
          MaxCrashes,   \* bound on crashes
          None          \* no child, no node

ASSUME PlanAssumption ==
    /\ Plan \in Seq([type : {"job", "gate"}, soft : BOOLEAN]) /\ Plan # << >>
    /\ Kind \in {"workflow_run", "profile_run"}
    /\ Kind = "profile_run" => \A n \in DOMAIN Plan : Plan[n].type = "job"
    /\ StoreFaults \subseteq {"dispatch", "create", "set", "persist"}
    /\ MaxCrashes \in Nat
    /\ Parent \notin Children /\ GateChildren \subseteq Children
    /\ None \notin Children \cup {Parent} \cup Nat

Nodes == DOMAIN Plan
Jobs == {Parent} \cup Children

VARIABLES
    rows,       \* durable: job |-> state of its row
    cursor,     \* durable checkpoint of the parent: node |-> entry
    mem,        \* the cursor in the handler's memory
    fresh,      \* identifiers not drawn yet
    pc,         \* where the worker thread is
    idx,        \* position of the plan loop
    child,      \* child job of the current node; job of a run of its own
    term,       \* ChildTerminal of the current node
    verdict,    \* what the handler returns
    cancelled,  \* the run's CancelToken
    crashes     \* crashes so far

vars == <<rows, cursor, mem, fresh, pc, idx, child, term, verdict, cancelled, crashes>>

Outcomes == {"succeeded", "paused", "failed", "err"}
NodeStatus == {"none", "running", "succeeded", "paused", "failed", "soft_failed"}
Entry == [status : NodeStatus, job : Children \cup {None}]
NoEntry == [status |-> "none", job |-> None]

Init ==
    /\ rows = [j \in Jobs |-> NoRow]
    /\ cursor = [n \in Nodes |-> NoEntry]
    /\ mem = [n \in Nodes |-> NoEntry]
    /\ fresh = Children
    /\ pc = "idle" /\ idx = 1 /\ child = None
    /\ term = "succeeded" /\ verdict = "succeeded"
    /\ cancelled = FALSE /\ crashes = 0

----------------------------------------------------------------------------
(* The runner around the handler. *)

(* run_start and run_resume refuse while another row of the matter is Running. *)
Admitted(j) == RunningRows(rows, Jobs \ {j}) = {}

IsGate(n) == Plan[n].type = "gate"

(* Bound: a run draws at most one identifier per node. *)
EnoughIds ==
    /\ Cardinality(fresh \cap GateChildren) >= Cardinality({n \in Nodes : IsGate(n)})
    /\ Cardinality(fresh \ GateChildren) >= Cardinality({n \in Nodes : ~IsGate(n)})

Accept(j, to) ==
    /\ pc = "idle" /\ Admitted(j)
    /\ rows' = [rows EXCEPT ![j] = "running"]
    /\ pc' = to /\ cancelled' = FALSE
    /\ UNCHANGED <<cursor, mem, fresh, idx, term, verdict, crashes>>

StartRun == rows[Parent] = NoRow /\ EnoughIds /\ Accept(Parent, "load") /\ UNCHANGED child

ResumeRun ==
    /\ rows[Parent] \notin {NoRow, "succeeded"} /\ EnoughIds
    /\ Accept(Parent, "load") /\ UNCHANGED child

(* A child's row can be resumed as a job of its own; no handler is registered *)
(* for the kind of a gate's row.                                              *)
ResumeChild(c) ==
    /\ c \notin GateChildren /\ rows[c] \notin {NoRow, "succeeded"}
    /\ Accept(c, "solo") /\ child' = c

Cancel ==
    /\ pc \notin {"idle", "returned"} /\ ~cancelled
    /\ cancelled' = TRUE
    /\ UNCHANGED <<rows, cursor, mem, fresh, pc, idx, child, term, verdict, crashes>>

----------------------------------------------------------------------------
(* MatterWorkflowRunHandler::run and MatterProfileRunHandler::run. *)

(* The handler returns Err: finalize_job is next. *)
Fails == /\ verdict' = "err" /\ pc' = "finalize"
         /\ UNCHANGED <<rows, cursor, mem, fresh, idx, child, term, cancelled, crashes>>

Faulty(step) == step \in StoreFaults /\ Fails

(* load_or_init_cursor; workflow_run also writes the cursor it just read.  *)
(* A failing audit write ends the handler like a failing cursor write.  A  *)
(* run that died before its first cursor write has its definition resolved *)
(* here as by its caller: the runner's own resume has no parameters for it *)
(* and ends in an error before the loop.                                   *)
LoadCursor ==
    /\ pc = "load"
    /\ \/ /\ mem' = cursor /\ idx' = 1 /\ pc' = "loop"
          /\ UNCHANGED <<rows, cursor, fresh, child, term, verdict, cancelled, crashes>>
       \/ Faulty("persist")

(* Wrong form: a node whose failure was accepted runs again on resume. *)
TerminalForResume_SucceededOnly(status) == status = "succeeded"

(* Wrong form: a paused node counts as done. *)
TerminalForResume_PausedToo(status) == status \in {"succeeded", "soft_failed", "paused"}

(* node_status_is_terminal_for_resume; profile_run never writes soft_failed. *)
TerminalForResume(status) == status \in {"succeeded", "soft_failed"}

AtNode == pc = "loop" /\ idx \in Nodes

SkipNode ==
    /\ AtNode /\ TerminalForResume(mem[idx].status)
    /\ idx' = idx + 1
    /\ UNCHANGED <<rows, cursor, mem, fresh, pc, child, term, verdict, cancelled, crashes>>

(* Only workflow_run pauses the children left behind. *)
AfterPause == IF Kind = "workflow_run" THEN "cascade" ELSE "close"

StopCancelled ==
    /\ AtNode /\ ~TerminalForResume(mem[idx].status) /\ cancelled
    /\ verdict' = "paused" /\ pc' = AfterPause
    /\ UNCHANGED <<rows, cursor, mem, fresh, idx, child, term, cancelled, crashes>>

(* cascade_cancel, one child at a time; errors are ignored. *)
CascadeCancel(c) ==
    /\ pc = "cascade" /\ rows[c] \in {"running", "pending"}
    /\ rows' = SetJobState(rows, c, IF rows[c] = "running" THEN "paused" ELSE "cancelled")
    /\ UNCHANGED <<cursor, mem, fresh, pc, idx, child, term, verdict, cancelled, crashes>>

CascadeDone ==
    /\ pc = "cascade"
    /\ "set" \in StoreFaults \/ \A c \in Children : rows[c] \notin {"running", "pending"}
    /\ pc' = "close"
    /\ UNCHANGED <<rows, cursor, mem, fresh, idx, child, term, verdict, cancelled, crashes>>

(* Wrong form: a child recorded as paused is continued whatever its row says. *)
Reusable_AnyState(e) == e.status = "paused"

(* resolve_or_create_child: only a child recorded as paused is continued. *)
Reusable(e) == e.status = "paused" /\ rows[e.job] \in {"paused", "running"}

Dispatch == AtNode /\ ~TerminalForResume(mem[idx].status) /\ ~cancelled

(* No handler for the kind, or the prior child cannot be read. *)
DispatchFails == Dispatch /\ Faulty("dispatch")

ReuseChild ==
    /\ Dispatch /\ Reusable(mem[idx])
    /\ \/ /\ rows' = SetJobState(rows, mem[idx].job, "running")
          /\ child' = mem[idx].job /\ pc' = "announce"
          /\ UNCHANGED <<cursor, mem, fresh, idx, term, verdict, cancelled, crashes>>
       \/ Faulty("set")

CreateChild(c) ==
    /\ Dispatch /\ ~Reusable(mem[idx])
    /\ c \in fresh /\ (c \in GateChildren <=> IsGate(idx))
    /\ \/ /\ rows' = CreateJob(rows, c)
          /\ fresh' = fresh \ {c} /\ child' = c /\ pc' = "set_running"
          /\ UNCHANGED <<cursor, mem, idx, term, verdict, cancelled, crashes>>
       \/ Faulty("create")

SetChildRunning ==
    /\ pc = "set_running"
    /\ \/ /\ rows' = SetJobState(rows, child, "running") /\ pc' = "announce"
          /\ UNCHANGED <<cursor, mem, fresh, idx, child, term, verdict, cancelled, crashes>>
       \/ Faulty("set")

(* persist_cursor after the entry of the current node changed to e. *)
Persist(e, to) ==
    \/ /\ mem' = [mem EXCEPT ![idx] = e] /\ cursor' = mem' /\ pc' = to
       /\ UNCHANGED <<rows, fresh, child, term, verdict, cancelled, crashes>>
    \/ Faulty("persist")

AnnounceChild ==
    /\ pc = "announce"
    /\ Persist([status |-> "running", job |-> child], "child") /\ UNCHANGED idx

(* A stage may write its row's final state itself. *)
ChildWrites(s) ==
    /\ pc = "child" /\ ~IsGate(idx) /\ rows[child] = "running"
    /\ rows' = SetJobState(rows, child, s)
    /\ UNCHANGED <<cursor, mem, fresh, pc, idx, child, term, verdict, cancelled, crashes>>

(* Wrong form: an Err of the handler is not mapped to Failed. *)
MapOutcome_Identity(out) == out

MapOutcome(out) == IF out = "err" THEN "failed" ELSE out

(* Wrong form: an Err of the child's handler leaves its row alone. *)
FinalizeChild_OkOnly(out) ==
    IF rows[child] = "running" /\ out # "err" THEN SetJobState(rows, child, out) ELSE rows

(* finalize_child; run_gate_node writes the same two states. *)
FinalizeChild(out) ==
    IF rows[child] = "running" \/ out = "err"
    THEN SetJobState(rows, child, MapOutcome(out)) ELSE rows

ChildReturns(out) ==
    /\ pc = "child"
    /\ IsGate(idx) => out \in {"succeeded", "failed"}
    /\ rows[child] # "running" => out \in {rows[child], "err"}
    /\ rows' = FinalizeChild(out) \/ ("set" \in StoreFaults /\ rows' = rows)
    /\ term' = MapOutcome(out) /\ pc' = "record"
    /\ UNCHANGED <<cursor, mem, fresh, idx, child, verdict, cancelled, crashes>>

RecordChild ==
    /\ pc = "record"
    /\ Persist([status |-> term, job |-> child], "decide") /\ UNCHANGED idx

(* Wrong form: soft_fail is honoured on a gate too. *)
AllowSoft_GatesToo(n) == Plan[n].soft

(* soft_fail of an ordinary node; for profile_run, stop_on_stage_failure off. *)
AllowSoft(n) == Plan[n].soft /\ ~IsGate(n)

NextNode ==
    /\ idx' = idx + 1 /\ pc' = "loop"
    /\ UNCHANGED <<rows, cursor, mem, fresh, child, term, verdict, cancelled, crashes>>

ChildSucceeded == pc = "decide" /\ term = "succeeded" /\ NextNode

ChildPaused ==
    /\ pc = "decide" /\ term = "paused"
    /\ verdict' = "paused" /\ pc' = AfterPause
    /\ UNCHANGED <<rows, cursor, mem, fresh, idx, child, term, cancelled, crashes>>

(* A tolerated failure: workflow_run makes it final, profile_run goes on. *)
ChildSoftFailed ==
    /\ pc = "decide" /\ term = "failed" /\ AllowSoft(idx)
    /\ IF Kind = "workflow_run"
       THEN Persist([mem[idx] EXCEPT !.status = "soft_failed"], "soft") /\ UNCHANGED idx
       ELSE NextNode

AfterSoftFailure == pc = "soft" /\ NextNode

ChildFailed ==
    /\ pc = "decide" /\ term = "failed" /\ ~AllowSoft(idx)
    /\ verdict' = "failed" /\ pc' = "close"
    /\ UNCHANGED <<rows, cursor, mem, fresh, idx, child, term, cancelled, crashes>>

Complete ==
    /\ pc = "loop" /\ idx \notin Nodes
    /\ verdict' = "succeeded" /\ pc' = "close"
    /\ UNCHANGED <<rows, cursor, mem, fresh, idx, child, term, cancelled, crashes>>

(* Cursor and audit writes, set_parent_if_running; then the handler returns. *)
CloseParent ==
    /\ pc = "close"
    /\ \/ /\ rows' = IF rows[Parent] = "running" THEN SetJobState(rows, Parent, verdict) ELSE rows
          /\ pc' = "finalize"
          /\ UNCHANGED <<cursor, mem, fresh, idx, child, term, verdict, cancelled, crashes>>
       \/ Faulty("set") \/ Faulty("persist")

(* The runner's finalize_job for the parent, or for a child run on its own. *)
FinalizeRun(j, out) ==
    /\ \/ rows' = IF rows[j] = "running" THEN SetJobState(rows, j, MapOutcome(out)) ELSE rows
       \/ "set" \in StoreFaults /\ UNCHANGED rows
    /\ pc' = "returned"
    /\ UNCHANGED <<cursor, mem, fresh, idx, child, term, verdict, cancelled, crashes>>

FinalizeParent == pc = "finalize" /\ FinalizeRun(Parent, verdict)

ChildRunReturns(out) == pc = "solo" /\ FinalizeRun(child, out)

----------------------------------------------------------------------------
(* What a process keeps in memory is gone: on the way out, or in a crash. *)
Forget ==
    /\ pc' = "idle" /\ mem' = [n \in Nodes |-> NoEntry] /\ idx' = 1 /\ child' = None
    /\ term' = "succeeded" /\ verdict' = "succeeded" /\ cancelled' = FALSE
    /\ UNCHANGED <<rows, cursor, fresh>>

Release == pc = "returned" /\ Forget /\ UNCHANGED crashes

Crash ==
    /\ pc # "idle" /\ crashes < MaxCrashes
    /\ crashes' = crashes + 1 /\ Forget

(* The CLI's job cancel: one row, no cascade. *)
CliJobCancel(j) ==
    /\ pc = "idle" /\ rows[j] \in {"pending", "running", "paused"}
    /\ rows' = SetJobState(rows, j, "cancelled")
    /\ UNCHANGED <<cursor, mem, fresh, pc, idx, child, term, verdict, cancelled, crashes>>

HandlerStep ==
    \/ LoadCursor \/ SkipNode \/ StopCancelled \/ CascadeDone \/ DispatchFails \/ ReuseChild
    \/ SetChildRunning \/ AnnounceChild \/ RecordChild
    \/ \E c \in Children : CascadeCancel(c) \/ CreateChild(c)
    \/ \E out \in Outcomes : ChildReturns(out) \/ ChildRunReturns(out)
    \/ ChildSucceeded \/ ChildPaused \/ ChildSoftFailed \/ AfterSoftFailure \/ ChildFailed
    \/ Complete \/ CloseParent \/ FinalizeParent \/ Release

Next ==
    \/ StartRun \/ ResumeRun \/ \E c \in Children : ResumeChild(c)
    \/ Cancel \/ HandlerStep
    \/ \E s \in {"succeeded", "paused", "failed"} : ChildWrites(s)
    \/ Crash \/ \E j \in Jobs : CliJobCancel(j)

Spec == Init /\ [][Next]_vars

----------------------------------------------------------------------------
(* Properties. *)

PCs == {"idle", "load", "loop", "cascade", "set_running", "announce", "child", "record",
        "decide", "soft", "close", "finalize", "solo", "returned"}

(* Every variable stays in its type. *)
TypeOK ==
    /\ rows \in [Jobs -> RowState]
    /\ cursor \in [Nodes -> Entry] /\ mem \in [Nodes -> Entry]
    /\ fresh \in SUBSET Children
    /\ pc \in PCs /\ idx \in 1..(Len(Plan) + 1)
    /\ child \in Children \cup {None}
    /\ term \in {"succeeded", "paused", "failed"} /\ verdict \in Outcomes
    /\ cancelled \in BOOLEAN /\ crashes \in 0..MaxCrashes

(* A run that returns by itself, whether it completed, paused, failed or was   *)
(* cancelled, leaves no Running row behind, so the next start or resume of the *)
(* matter is not refused as Busy.                                              *)
ReturnFreesMatter == pc = "returned" => RunningRows(rows, Jobs) = {}

(* A parent that reports Succeeded has, for every node, a child that really    *)
(* succeeded, or an ordinary node whose failure the plan tolerates.            *)
SuccessIsBacked ==
    rows[Parent] = "succeeded" =>
        \A n \in Nodes :
            \/ cursor[n].status = "succeeded" /\ rows[cursor[n].job] = "succeeded"
            \/ /\ Plan[n].soft /\ Plan[n].type # "gate"
               /\ cursor[n].status \in {"soft_failed", "failed"}

(* Resuming continues a paused child: it never turns a child that ended        *)
(* (succeeded, failed, cancelled) back into a running one under the parent.    *)
EndedChildStaysEnded ==
    [][\A c \in Children :
          (pc = "loop" /\ rows[c] \in {"succeeded", "failed", "cancelled"})
              => rows'[c] = rows[c]]_vars

(* The orchestration carries its plan out: nodes in order and one at a time,   *)
(* no settled node executed again over crashes, pauses and resumes, success    *)
(* only at the end of the plan.                                                *)
PlanRefinement == INSTANCE PlanExecution WITH
    Tolerated <- {n \in Nodes : Plan[n].soft /\ Plan[n].type # "gate"},
    NoNode <- None,
    settled <- {n \in Nodes : cursor[n].status \in {"succeeded", "soft_failed"}},
    passed <- {n \in Nodes : /\ cursor[n].status = "failed"
                             /\ Plan[n].soft /\ Plan[n].type # "gate"},
    current <- IF pc \in {"child", "record"} THEN idx ELSE None,
    succeeded <- rows[Parent] = "succeeded"

ExecutesPlan == PlanRefinement!PlanSpec

(* conductor/0116-ProcessFold/spec.md:252, "durable Running row with idle      *)
(* snapshot -> process_resume same id or process_cancel unblocks a later       *)
(* process_start": with no run in progress process_cancel finds no active job, *)
(* so resume must be admitted for every row left Running.                      *)
IdleRunningRowResumable ==
    pc = "idle" => \A j \in RunningRows(rows, Jobs) : Admitted(j)

============================================================================
