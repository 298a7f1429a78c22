--------------------------- MODULE ProcessRunner ---------------------------
(***************************************************************************)
(* The in-process job runner, crates/process-runner/src/runner.rs, in every *)
(* program that opens the same matters (desk, chrome, CLI), each a process  *)
(* p with its own ProcessRunner: client threads call start, resume, cancel  *)
(* and shutdown; one worker thread takes commands from a FIFO channel,      *)
(* opens the matter under its exclusive OS lock, runs the handler and       *)
(* finalizes the job row; a poller thread patches the progress snapshot.    *)
(* Handlers are single-job stages; the orchestration handlers that create   *)
(* child jobs are modelled in WorkflowRun.                                  *)
(*                                                                          *)
(* A job identifier stands for the id create_job will draw: it is fixed     *)
(* when start is called, with the matter and the kind of the call, so the   *)
(* number of start calls is bounded by Jobs.                                *)
(***************************************************************************)
EXTENDS JobStates, Sequences, Naturals

CONSTANTS Procs,        \* programs that run a ProcessRunner
          Clients,      \* threads that call it
          Jobs,         \* job identifiers
          Matters,      \* matter directories
          ProcOf,       \* the program a client thread belongs to
          MatterOf,     \* the matter a job belongs to
          HasHandler,   \* the jobs whose kind has a handler registered in p
          ClientOps,    \* calls the clients of this instance make
          StoreFaults,  \* store operations that may return an I/O error
          MaxRestarts,  \* bound on crashes and restarts
          None          \* no client, no job, no process

ASSUME ConstantsAssumption ==
    /\ ProcOf \in [Clients -> Procs]
    /\ MatterOf \in [Jobs -> Matters]
    /\ HasHandler \in [Procs -> SUBSET Jobs]
    /\ ClientOps \subseteq {"start", "resume", "cancel", "shutdown"}
    /\ StoreFaults \subseteq {"list", "create", "set"}
    /\ MaxRestarts \in Nat

VARIABLES
    rows,      \* durable: job |-> state of its row
    lock,      \* OS lock on <root>/.matter.lock: matter |-> process or None
    chan,      \* cmd_rx: process |-> queued commands
    tx,        \* process |-> cmd_tx is still Some
    accept,    \* accept mutex: process |-> client holding it or None
    active,    \* active slot: process |-> job or None
    cancel,    \* CancelToken of the active job
    wpc,       \* program counter of the matter-worker thread
    wcmd,      \* command the worker is executing
    outcome,   \* what handler.run returned
    snap,      \* latest progress snapshot
    poller,    \* program counter of the progress-poller thread
    copy,      \* snapshot the poller has cloned and will write back
    cpc,       \* program counter of a client thread
    call,      \* command a client is issuing
    reply,     \* content of the client's reply channel
    fresh,     \* job identifiers no start call has drawn yet
    restarts   \* crashes so far

durable == <<rows, lock, fresh, restarts>>
workerVars == <<active, cancel, wpc, wcmd, outcome>>
progressVars == <<snap, poller, copy>>
clientVars == <<accept, tx, chan, cpc, call, reply>>
vars == <<durable, workerVars, progressVars, clientVars>>

JobCommand == [op : {"start", "resume", "cancel"}, client : Clients, job : Jobs]
ShutdownCommand == [op : {"shutdown"}, client : Clients, job : {None}]
Command == JobCommand \cup ShutdownCommand
NoCommand == [op |-> "none", client |-> None, job |-> None]
Replies == {"ok", "busy", "unknown_kind", "matter_open", "job_not_found",
            "invalid_job", "matter_error", "cancel_failed", "shut_down"}
Outcomes == {"succeeded", "paused", "failed", "err"}
Snapshot == [job : Jobs \cup {None}, state : JobState \cup {"idle"}]
IdleSnapshot == [job |-> None, state |-> "idle"]

ASSUME NoneAssumption == None \notin Procs \cup Clients \cup Jobs \cup Replies

JobsOf(m) == {j \in Jobs : MatterOf[j] = m}
ClientsOf(p) == {c \in Clients : ProcOf[c] = p}

----------------------------------------------------------------------------
Init ==
    /\ rows = [j \in Jobs |-> NoRow]
    /\ lock = [m \in Matters |-> None]
    /\ chan = [p \in Procs |-> << >>]
    /\ tx = [p \in Procs |-> TRUE]
    /\ accept = [p \in Procs |-> None]
    /\ active = [p \in Procs |-> None]
    /\ cancel = [p \in Procs |-> FALSE]
    /\ wpc = [p \in Procs |-> "recv"]
    /\ wcmd = [p \in Procs |-> NoCommand]
    /\ outcome = [p \in Procs |-> "succeeded"]
    /\ snap = [p \in Procs |-> IdleSnapshot]
    /\ poller = [p \in Procs |-> "off"]
    /\ copy = [p \in Procs |-> IdleSnapshot]
    /\ cpc = [c \in Clients |-> "idle"]
    /\ call = [c \in Clients |-> NoCommand]
    /\ reply = [c \in Clients |-> None]
    /\ fresh = Jobs
    /\ restarts = 0

----------------------------------------------------------------------------
(* Client threads.  A call that ends with a result known at once leaves it  *)
(* in reply and returns through Return like the calls that wait.            *)

Goto(c, pc) == cpc' = [cpc EXCEPT ![c] = pc]
Answer(c, res) == reply' = [reply EXCEPT ![c] = res]

CallStart(c, j) ==
    /\ "start" \in ClientOps
    /\ cpc[c] = "idle" /\ j \in fresh
    /\ fresh' = fresh \ {j}
    /\ call' = [call EXCEPT ![c] = [op |-> "start", client |-> c, job |-> j]]
    /\ Goto(c, "gate")
    /\ UNCHANGED <<rows, lock, restarts, workerVars, progressVars, accept, tx, chan, reply>>

CallResume(c, j) ==
    /\ "resume" \in ClientOps
    /\ cpc[c] = "idle" /\ j \notin fresh
    /\ call' = [call EXCEPT ![c] = [op |-> "resume", client |-> c, job |-> j]]
    /\ Goto(c, "gate")
    /\ UNCHANGED <<durable, workerVars, progressVars, accept, tx, chan, reply>>

(* Wrong form: start and resume without the accept mutex. *)
AcceptFree_NoMutex(p) == TRUE

AcceptFree(p) == accept[p] = None

(* accept.lock(), then the check of the active slot that start and resume share. *)
EnterAccept(c) ==
    LET p == ProcOf[c] IN
    /\ cpc[c] = "gate" /\ AcceptFree(p)
    /\ accept' = [accept EXCEPT ![p] = c]
    /\ \/ active[p] # None /\ Answer(c, "busy") /\ Goto(c, "wait")
       \/ active[p] = None /\ Goto(c, "send") /\ UNCHANGED reply
    /\ UNCHANGED <<durable, workerVars, progressVars, tx, chan, call>>

RaiseCancel(p) == cancel' = [cancel EXCEPT ![p] = TRUE]

(* cancel of a job the caller knows from its row: the fast path sets the flag *)
(* under the active lock.                                                     *)
CallCancel(c, j) ==
    LET p == ProcOf[c] IN
    /\ "cancel" \in ClientOps
    /\ cpc[c] = "idle" /\ rows[j] # NoRow
    /\ call' = [call EXCEPT ![c] = [op |-> "cancel", client |-> c, job |-> j]]
    /\ \/ /\ active[p] = j
          /\ RaiseCancel(p)
          /\ Answer(c, "ok") /\ Goto(c, "wait")
       \/ /\ active[p] # j
          /\ Goto(c, "send") /\ UNCHANGED <<cancel, reply>>
    /\ UNCHANGED <<durable, active, wpc, wcmd, outcome, progressVars, accept, tx, chan>>

(* send: cmd_tx is checked and used under its lock. *)
Send(c) ==
    LET p == ProcOf[c] IN
    /\ cpc[c] = "send"
    /\ \/ tx[p] /\ chan' = [chan EXCEPT ![p] = Append(@, call[c])] /\ UNCHANGED reply
       \/ ~tx[p] /\ Answer(c, "shut_down") /\ UNCHANGED chan
    /\ Goto(c, "wait")
    /\ UNCHANGED <<durable, workerVars, progressVars, accept, tx, call>>

(* The reply is received; dropping the guard releases accept. *)
Return(c) ==
    LET p == ProcOf[c] IN
    /\ cpc[c] = "wait" /\ reply[c] # None
    /\ Goto(c, "idle") /\ Answer(c, None)
    /\ call' = [call EXCEPT ![c] = NoCommand]
    /\ accept' = [accept EXCEPT ![p] = IF @ = c THEN None ELSE @]
    /\ UNCHANGED <<durable, workerVars, progressVars, tx, chan>>

(* shutdown: cancel the active job ... *)
CallShutdown(c) ==
    LET p == ProcOf[c] IN
    /\ "shutdown" \in ClientOps
    /\ cpc[c] = "idle"
    /\ call' = [call EXCEPT ![c] = [op |-> "shutdown", client |-> c, job |-> None]]
    /\ cancel' = [cancel EXCEPT ![p] = @ \/ active[p] # None]
    /\ Goto(c, "take")
    /\ UNCHANGED <<durable, active, wpc, wcmd, outcome, progressVars, accept, tx, chan, reply>>

(* Wrong form: the sender is taken and Shutdown never queued. *)
TakeSender_NoShutdown(c) ==
    /\ cpc[c] = "take"
    /\ tx' = [tx EXCEPT ![ProcOf[c]] = FALSE]
    /\ Goto(c, "join")
    /\ UNCHANGED <<durable, workerVars, progressVars, accept, chan, call, reply>>

(* ... take cmd_tx and, if this caller got it, queue Shutdown ... *)
TakeSender(c) ==
    LET p == ProcOf[c] IN
    /\ cpc[c] = "take"
    /\ tx' = [tx EXCEPT ![p] = FALSE]
    /\ chan' = IF tx[p] THEN [chan EXCEPT ![p] = Append(@, call[c])] ELSE chan
    /\ Goto(c, "join")
    /\ UNCHANGED <<durable, workerVars, progressVars, accept, call, reply>>

(* Wrong form: the worker is detached instead of joined. *)
WorkerExited_Detached(p) == TRUE

WorkerExited(p) == wpc[p] = "exited"

(* ... and join the worker thread, without a timeout. *)
JoinWorker(c) ==
    /\ cpc[c] = "join" /\ WorkerExited(ProcOf[c])
    /\ Goto(c, "joined")
    /\ UNCHANGED <<durable, workerVars, progressVars, accept, tx, chan, call, reply>>

ShutdownReturns(c) ==
    /\ cpc[c] = "joined"
    /\ Goto(c, "idle")
    /\ call' = [call EXCEPT ![c] = NoCommand]
    /\ UNCHANGED <<durable, workerVars, progressVars, accept, tx, chan, reply>>

----------------------------------------------------------------------------
(* The matter-worker thread: worker_loop. *)

WGoto(p, pc) == wpc' = [wpc EXCEPT ![p] = pc]
Caller(p) == wcmd[p].client
Job(p) == wcmd[p].job
Matter(p) == MatterOf[Job(p)]

Receive(p, op) ==
    /\ wpc[p] = "recv" /\ chan[p] # << >> /\ Head(chan[p]).op = op
    /\ chan' = [chan EXCEPT ![p] = Tail(@)]

(* The slot is emptied, and with it goes the job's CancelToken. *)
EmptySlot(p) ==
    /\ active' = [active EXCEPT ![p] = None]
    /\ cancel' = [cancel EXCEPT ![p] = FALSE]

RecvShutdown(p) ==
    /\ Receive(p, "shutdown")
    /\ WGoto(p, "exited") /\ EmptySlot(p)
    /\ UNCHANGED <<durable, wcmd, outcome, progressVars, accept, tx, cpc, call, reply>>

(* cancel_active *)
RecvCancel(p) ==
    LET cmd == Head(chan[p]) IN
    /\ Receive(p, "cancel")
    /\ \/ /\ active[p] = cmd.job
          /\ RaiseCancel(p)
          /\ Answer(cmd.client, "ok")
       \/ /\ active[p] # cmd.job
          /\ Answer(cmd.client, "cancel_failed") /\ UNCHANGED cancel
    /\ UNCHANGED <<durable, active, wpc, wcmd, outcome, progressVars, accept, tx, cpc, call>>

(* Start looks the handler up before it opens the matter, Resume after. *)
RecvRefusal(p, op) ==
    IF active[p] # None THEN "busy"
    ELSE IF op = "start" /\ Head(chan[p]).job \notin HasHandler[p] THEN "unknown_kind"
    ELSE None

RecvJob(p, op) ==
    LET cmd == Head(chan[p]) IN
    /\ Receive(p, op)
    /\ \/ /\ RecvRefusal(p, op) # None
          /\ Answer(cmd.client, RecvRefusal(p, op)) /\ UNCHANGED <<wpc, wcmd>>
       \/ /\ RecvRefusal(p, op) = None
          /\ WGoto(p, "open") /\ wcmd' = [wcmd EXCEPT ![p] = cmd] /\ UNCHANGED reply
    /\ UNCHANGED <<durable, active, cancel, outcome, progressVars, accept, tx, cpc, call>>

(* Wrong form: the write-open does not look at the lock file. *)
LockFree_Ignored(m) == TRUE

LockFree(m) == lock[m] = None

(* open_matter: try_lock_exclusive fails at once when another process holds it. *)
OpenMatter(p) ==
    /\ wpc[p] = "open"
    /\ \/ /\ LockFree(Matter(p))
          /\ lock' = [lock EXCEPT ![Matter(p)] = p]
          /\ WGoto(p, wcmd[p].op) /\ UNCHANGED <<wcmd, reply>>
       \/ /\ ~LockFree(Matter(p))
          /\ Answer(Caller(p), "matter_open")
          /\ WGoto(p, "recv") /\ wcmd' = [wcmd EXCEPT ![p] = NoCommand] /\ UNCHANGED lock
    /\ UNCHANGED <<rows, fresh, restarts, active, cancel, outcome, progressVars,
                   accept, tx, chan, cpc, call>>

(* Wrong form: only the in-memory slot is consulted. *)
Blocked_MemoryOnly(p, except) == active[p] # None

(* Durable single-flight: a Running row of the matter, other than except. *)
Blocked(p, except) == RunningRows(rows, JobsOf(Matter(p)) \ except) # {}

(* Wrong form: an early return of the accept phase that does not reply. *)
ReplyErr_Dropped(p, res) == UNCHANGED reply

(* reply_err_string, reply_err_unit *)
ReplyErr(p, res) == Answer(Caller(p), res)

(* run_start, accept phase.  A failing list_jobs skips the check. *)
StartAccept(p) ==
    /\ wpc[p] = "start"
    /\ \/ Blocked(p, {}) /\ ReplyErr(p, "busy") /\ WGoto(p, "abandon") /\ UNCHANGED rows
       \/ /\ ~Blocked(p, {}) \/ "list" \in StoreFaults
          /\ \/ /\ rows' = CreateJob(rows, Job(p))
                /\ WGoto(p, "set_running") /\ UNCHANGED reply
             \/ /\ "create" \in StoreFaults
                /\ ReplyErr(p, "matter_error") /\ WGoto(p, "abandon") /\ UNCHANGED rows
    /\ UNCHANGED <<lock, fresh, restarts, active, cancel, wcmd, outcome, progressVars,
                   accept, tx, chan, cpc, call>>

StartSetRunning(p) ==
    /\ wpc[p] = "set_running"
    /\ \/ /\ SetJobStateOk(rows, Job(p), "running")
          /\ rows' = SetJobState(rows, Job(p), "running")
          /\ WGoto(p, "activate") /\ UNCHANGED reply
       \/ /\ "set" \in StoreFaults \/ ~SetJobStateOk(rows, Job(p), "running")
          /\ ReplyErr(p, "matter_error") /\ WGoto(p, "abandon") /\ UNCHANGED rows
    /\ UNCHANGED <<lock, fresh, restarts, active, cancel, wcmd, outcome, progressVars,
                   accept, tx, chan, cpc, call>>

(* The active slot is filled with a new CancelToken. *)
Activate(p) ==
    /\ active' = [active EXCEPT ![p] = Job(p)]
    /\ cancel' = [cancel EXCEPT ![p] = FALSE]

StartActivate(p) ==
    /\ wpc[p] = "activate"
    /\ Activate(p) /\ WGoto(p, "publish")
    /\ UNCHANGED <<durable, wcmd, outcome, progressVars, clientVars>>

(* run_resume, accept phase. *)
ResumeRefusal(p) ==
    IF rows[Job(p)] = NoRow THEN "job_not_found"
    ELSE IF Job(p) \notin HasHandler[p] THEN "unknown_kind"
    ELSE IF rows[Job(p)] = "succeeded" THEN "invalid_job"
    ELSE None

ResumeAccept(p) ==
    LET others == Blocked(p, {Job(p)})
        refused(res) == /\ ReplyErr(p, res) /\ WGoto(p, "abandon")
                        /\ UNCHANGED <<active, cancel>>
    IN
    /\ wpc[p] = "resume"
    /\ \/ rows[Job(p)] # NoRow /\ others /\ refused("busy")
       \/ /\ rows[Job(p)] = NoRow \/ ~others \/ "list" \in StoreFaults
          /\ \/ ResumeRefusal(p) # None /\ refused(ResumeRefusal(p))
             \/ /\ ResumeRefusal(p) = None
                /\ Activate(p) /\ WGoto(p, "reopen") /\ UNCHANGED reply
    /\ UNCHANGED <<durable, wcmd, outcome, progressVars, accept, tx, chan, cpc, call>>

(* Wrong form: a resume whose reopen fails leaves its job in the active slot. *)
SlotAfterFailedReopen_kept(p) == UNCHANGED <<active, cancel>>

SlotAfterFailedReopen(p) == EmptySlot(p)

(* run_resume brings the row to Running, a Cancelled one through Pending. *)
ResumeReopen(p) ==
    LET to == IF rows[Job(p)] = "cancelled" THEN "pending" ELSE "running" IN
    /\ wpc[p] = "reopen"
    /\ \/ /\ SetJobStateOk(rows, Job(p), to)
          /\ rows' = SetJobState(rows, Job(p), to)
          /\ WGoto(p, IF to = "pending" THEN "reopen" ELSE "publish")
          /\ UNCHANGED <<active, cancel, reply>>
       \/ /\ "set" \in StoreFaults \/ ~SetJobStateOk(rows, Job(p), to)
          /\ rows[Job(p)] # "running"
          /\ SlotAfterFailedReopen(p)
          /\ ReplyErr(p, "matter_error") /\ WGoto(p, "abandon") /\ UNCHANGED rows
    /\ UNCHANGED <<lock, fresh, restarts, wcmd, outcome, progressVars,
                   accept, tx, chan, cpc, call>>

(* publish_started, the Ok reply and start_checkpoint_poller in one step: *)
(* the first poll comes after the handler may have begun in any case.     *)
PublishStarted(p) ==
    /\ wpc[p] = "publish"
    /\ snap' = [snap EXCEPT ![p] = [job |-> Job(p), state |-> "running"]]
    /\ Answer(Caller(p), "ok")
    /\ poller' = [poller EXCEPT ![p] = "idle"]
    /\ WGoto(p, "run")
    /\ UNCHANGED <<durable, active, cancel, wcmd, outcome, copy, accept, tx, chan, cpc, call>>

(* A stage may write the job's final state itself before it returns. *)
StageWrites(p, s) ==
    /\ wpc[p] = "run" /\ rows[Job(p)] = "running"
    /\ rows' = SetJobState(rows, Job(p), s)
    /\ UNCHANGED <<lock, fresh, restarts, workerVars, progressVars, clientVars>>

(* handler.run returns; stop_checkpoint_poller raises the stop flag. *)
HandlerReturns(p, out) ==
    /\ wpc[p] = "run"
    /\ rows[Job(p)] # "running" => out \in {rows[Job(p)], "err"}
    /\ outcome' = [outcome EXCEPT ![p] = out]
    /\ WGoto(p, "stop_poller")
    /\ UNCHANGED <<durable, active, cancel, wcmd, progressVars, clientVars>>

(* Wrong form: the stop flag is raised and the thread not joined. *)
PollerExited_Detached(p) == TRUE

PollerExited(p) == poller[p] = "off"

(* stop_checkpoint_poller joins the thread. *)
JoinPoller(p) ==
    /\ wpc[p] = "stop_poller" /\ PollerExited(p)
    /\ WGoto(p, "finalize")
    /\ UNCHANGED <<durable, active, cancel, wcmd, outcome, progressVars, clientVars>>

(* finalize_job: a state the stage wrote wins; else the outcome is mapped and *)
(* the result of set_job_state is ignored.  Its get_job is taken to answer.   *)
(* Wrong form: an Err of the handler is not mapped to Failed. *)
MapOutcome_Identity(out) == out

MapOutcome(out) == IF out = "err" THEN "failed" ELSE out

(* Wrong form: the handler's outcome wins over the state the stage wrote. *)
FinalState_OutcomeWins(p) == MapOutcome(outcome[p])

FinalState(p) == IF rows[Job(p)] # "running" THEN rows[Job(p)] ELSE MapOutcome(outcome[p])

(* Wrong form: the slot is cleared with the final snapshot, the lock still held. *)
SlotAfterFinalize_Cleared(p) == EmptySlot(p)

(* The active slot is left to worker_loop. *)
SlotAfterFinalize(p) == UNCHANGED <<active, cancel>>

FinalizeJob(p) ==
    LET j == Job(p)
        final == FinalState(p)
    IN
    /\ wpc[p] = "finalize"
    /\ \/ rows' = SetJobState(rows, j, final)
       \/ "set" \in StoreFaults /\ UNCHANGED rows
    /\ snap' = [snap EXCEPT ![p] = [job |-> j, state |-> final]]
    /\ WGoto(p, "drop")
    /\ SlotAfterFinalize(p)
    /\ UNCHANGED <<lock, fresh, restarts, wcmd, outcome, poller, copy, clientVars>>

(* drop(matter) releases the OS lock, then the active slot is cleared. *)
DropMatter(p) ==
    /\ wpc[p] \in {"drop", "abandon"}
    /\ lock' = [lock EXCEPT ![Matter(p)] = None]
    /\ WGoto(p, "clear")
    /\ UNCHANGED <<rows, fresh, restarts, active, cancel, wcmd, outcome, progressVars, clientVars>>

ClearActive(p) ==
    /\ wpc[p] = "clear"
    /\ EmptySlot(p)
    /\ wcmd' = [wcmd EXCEPT ![p] = NoCommand]
    /\ outcome' = [outcome EXCEPT ![p] = "succeeded"]
    /\ WGoto(p, "recv")
    /\ UNCHANGED <<durable, progressVars, clientVars>>

----------------------------------------------------------------------------
(* The progress-poller thread.  The stop flag is up once the worker has left  *)
(* handler.run.  ProgressSink::patch clones the snapshot, changes counters    *)
(* the model leaves out and sends the clone back, without holding anything.   *)

(* Wrong form: stop_checkpoint_poller joins without raising the flag. *)
PollerStopped_Never(p) == FALSE

PollerStopped(p) == wpc[p] # "run"

PollerExits(p) ==
    /\ poller[p] = "idle" /\ PollerStopped(p)
    /\ poller' = [poller EXCEPT ![p] = "off"]
    /\ UNCHANGED <<durable, workerVars, snap, copy, clientVars>>

(* The code reads the stop flag once for the patches of one round; the join *)
(* waits for the round.                                                     *)
PatchClones(p) ==
    /\ poller[p] = "idle" /\ ~PollerStopped(p)
    /\ copy' = [copy EXCEPT ![p] = snap[p]]
    /\ poller' = [poller EXCEPT ![p] = "patch"]
    /\ UNCHANGED <<durable, workerVars, snap, clientVars>>

PatchSends(p) ==
    /\ poller[p] = "patch"
    /\ snap' = [snap EXCEPT ![p] = copy[p]]
    /\ copy' = [copy EXCEPT ![p] = IdleSnapshot]
    /\ poller' = [poller EXCEPT ![p] = "idle"]
    /\ UNCHANGED <<durable, workerVars, clientVars>>

----------------------------------------------------------------------------
(* A process dies, or exits after shutdown, and is started again: the OS     *)
(* releases its locks, ProcessRunner::new starts over, the rows remain.      *)
Restart(p) ==
    /\ restarts < MaxRestarts
    /\ restarts' = restarts + 1
    /\ lock' = [m \in Matters |-> IF lock[m] = p THEN None ELSE lock[m]]
    /\ chan' = [chan EXCEPT ![p] = << >>]
    /\ tx' = [tx EXCEPT ![p] = TRUE]
    /\ accept' = [accept EXCEPT ![p] = None]
    /\ active' = [active EXCEPT ![p] = None]
    /\ cancel' = [cancel EXCEPT ![p] = FALSE]
    /\ wpc' = [wpc EXCEPT ![p] = "recv"]
    /\ wcmd' = [wcmd EXCEPT ![p] = NoCommand]
    /\ outcome' = [outcome EXCEPT ![p] = "succeeded"]
    /\ snap' = [snap EXCEPT ![p] = IdleSnapshot]
    /\ poller' = [poller EXCEPT ![p] = "off"]
    /\ copy' = [copy EXCEPT ![p] = IdleSnapshot]
    /\ cpc' = [c \in Clients |-> IF ProcOf[c] = p THEN "idle" ELSE cpc[c]]
    /\ call' = [c \in Clients |-> IF ProcOf[c] = p THEN NoCommand ELSE call[c]]
    /\ reply' = [c \in Clients |-> IF ProcOf[c] = p THEN None ELSE reply[c]]
    /\ UNCHANGED <<rows, fresh>>

(* The CLI's job cancel, in a process of its own: write-open, one state      *)
(* change, drop.  Nobody else can write meanwhile, so it is one step.        *)
CliJobCancel(j) ==
    /\ lock[MatterOf[j]] = None
    /\ rows[j] \in {"pending", "running", "paused"}
    /\ rows' = SetJobState(rows, j, "cancelled")
    /\ UNCHANGED <<lock, fresh, restarts, workerVars, progressVars, clientVars>>

----------------------------------------------------------------------------
ClientStep(c) == EnterAccept(c) \/ Send(c) \/ Return(c) \/ TakeSender(c)
                 \/ JoinWorker(c) \/ ShutdownReturns(c)

ClientCall(c) == \/ \E j \in Jobs : CallStart(c, j) \/ CallResume(c, j) \/ CallCancel(c, j)
                 \/ CallShutdown(c)

WorkerStep(p) ==
    \/ RecvShutdown(p) \/ RecvCancel(p) \/ RecvJob(p, "start") \/ RecvJob(p, "resume")
    \/ OpenMatter(p) \/ StartAccept(p) \/ StartSetRunning(p) \/ StartActivate(p)
    \/ ResumeAccept(p) \/ ResumeReopen(p) \/ PublishStarted(p)
    \/ JoinPoller(p) \/ FinalizeJob(p) \/ DropMatter(p) \/ ClearActive(p)

HandlerStep(p) == \/ \E s \in {"succeeded", "paused", "failed"} : StageWrites(p, s)
                  \/ \E out \in Outcomes : HandlerReturns(p, out)

PollerStep(p) == PollerExits(p) \/ PatchClones(p) \/ PatchSends(p)

Next == \/ \E c \in Clients : ClientCall(c) \/ ClientStep(c)
        \/ \E p \in Procs : WorkerStep(p) \/ HandlerStep(p) \/ PollerStep(p) \/ Restart(p)
        \/ \E j \in Jobs : CliJobCancel(j)

Spec == Init /\ [][Next]_vars

(* Threads keep running; a handler is only assumed to return once its cancel *)
(* flag is up, since stages poll it between batches.                         *)
CooperativeFairness ==
    /\ \A c \in Clients : WF_vars(ClientStep(c))
    /\ \A p \in Procs : /\ WF_vars(WorkerStep(p))
                        /\ WF_vars(PollerStep(p))
                        /\ WF_vars(cancel[p] /\ \E out \in Outcomes : HandlerReturns(p, out))

CooperativeSpec == Spec /\ CooperativeFairness

(* Stages work through a finite list of items, so every handler returns. *)
FiniteHandlers ==
    \A p \in Procs : WF_vars(\E out \in Outcomes : HandlerReturns(p, out))

----------------------------------------------------------------------------
(* Properties. *)

WorkerPCs == {"recv", "open", "start", "set_running", "activate", "resume", "reopen",
              "publish", "run", "stop_poller", "finalize", "drop", "abandon", "clear", "exited"}
PollerPCs == {"off", "idle", "patch"}
ClientPCs == {"idle", "gate", "send", "wait", "take", "join", "joined"}

(* Every variable of the runner stays in its type. *)
TypeOK ==
    /\ rows \in [Jobs -> RowState]
    /\ lock \in [Matters -> Procs \cup {None}]
    /\ chan \in [Procs -> Seq(Command)]
    /\ tx \in [Procs -> BOOLEAN]
    /\ accept \in [Procs -> Clients \cup {None}]
    /\ active \in [Procs -> Jobs \cup {None}]
    /\ cancel \in [Procs -> BOOLEAN]
    /\ wpc \in [Procs -> WorkerPCs]
    /\ wcmd \in [Procs -> JobCommand \cup {NoCommand}]
    /\ outcome \in [Procs -> Outcomes]
    /\ snap \in [Procs -> Snapshot]
    /\ poller \in [Procs -> PollerPCs]
    /\ copy \in [Procs -> Snapshot]
    /\ cpc \in [Clients -> ClientPCs]
    /\ call \in [Clients -> Command \cup {NoCommand}]
    /\ reply \in [Clients -> Replies \cup {None}]
    /\ fresh \in SUBSET Jobs
    /\ restarts \in 0..MaxRestarts

(* Durable single-flight (run_start, run_resume): over crashes, restarts, any *)
(* number of processes and the CLI's job cancel, a matter never has two job   *)
(* rows in state Running.                                                     *)
OneRunningRowPerMatter ==
    \A m \in Matters : \A i, j \in RunningRows(rows, JobsOf(m)) : i = j

(* While a worker is between creating a job and dropping the Matter it holds  *)
(* that matter's OS lock, and while its handler runs the active slot names    *)
(* that very job, so that cancel(job_id) reaches its token.                   *)
HandlerOwnsMatter ==
    \A p \in Procs :
        /\ wpc[p] \in {"start", "set_running", "activate", "resume", "reopen", "publish",
                       "run", "stop_poller", "finalize", "drop", "abandon"} => lock[Matter(p)] = p
        /\ wpc[p] \in {"run", "stop_poller", "finalize"} => active[p] = Job(p)

(* What the accept mutex is for: no start or resume command ever waits in the *)
(* channel behind a job that is being run; its caller was told Busy instead.  *)
NoJobQueuedBehindJob ==
    \A p \in Procs : \A i \in 1..Len(chan[p]) :
        chan[p][i].op \in {"start", "resume"} => active[p] = None

(* wait_until_idle callers can write-open immediately (worker_loop): a process *)
(* whose active slot is empty holds a matter's lock only while a start or      *)
(* resume call is being decided or has just been refused.                      *)
IdleMeansUnlocked ==
    \A p \in Procs : \A m \in Matters :
        lock[m] = p /\ active[p] = None => accept[p] # None \/ wpc[p] = "abandon"

(* Every early return of run_start and run_resume undoes what it marked before *)
(* it answers: from the error until the caller has returned, no job is marked  *)
(* active, whatever other threads and a failing store do meanwhile.  Whoever   *)
(* retries at once is not told Busy by the job that just failed, and no cancel *)
(* is accepted for a job that is not run.                                      *)
RefusedCallLeavesIdle ==
    \A c \in Clients :
        call[c].op \in {"start", "resume"} /\ reply[c] \notin {None, "ok", "busy"}
            => active[ProcOf[c]] = None

(* The terminal snapshot published by finalize_job is the state on disk, for  *)
(* as long as nobody else can write the matter.                               *)
SnapshotMatchesRow ==
    \A p \in Procs :
        wpc[p] = "drop" => snap[p] = [job |-> Job(p), state |-> rows[Job(p)]]

(* The poller never undoes a terminal snapshot: only publish_started turns a  *)
(* snapshot back to running.                                                  *)
TerminalSnapshotStays ==
    [][\A p \in Procs :
          snap[p].state # "running" /\ snap'[p].state = "running" => wpc[p] = "publish"]_vars

(* When shutdown returns to the code that will reopen the matter (the CLI     *)
(* reads the job row next), the process holds no lock and runs no job.        *)
ShutdownReleases ==
    \A c \in Clients : cpc[c] = "joined" =>
        /\ active[ProcOf[c]] = None
        /\ \A m \in Matters : lock[m] # ProcOf[c]

(* start and resume answer before the handler runs: the caller that holds the *)
(* accept mutex gives it back even if no handler ever returns by itself.      *)
AcceptedCallReturns ==
    \A p \in Procs : \A c \in ClientsOf(p) : accept[p] = c ~> accept[p] # c

(* A raised cancel flag takes effect: the job leaves the active slot, through  *)
(* the handler's return, the poller's join and the release of the matter,      *)
(* given only that handlers poll their token.                                  *)
CancelStopsJob ==
    \A p \in Procs : \A j \in Jobs : (active[p] = j /\ cancel[p]) ~> active[p] # j

(* No call hangs: if handlers finish by themselves, a queued command is always *)
(* answered and shutdown joins a worker that exits, whatever the order of      *)
(* calls.                                                                      *)
EveryCallReturns ==
    FiniteHandlers =>
        \A c \in Clients : cpc[c] \in {"send", "wait", "take", "join"} ~> cpc[c] = "idle"

(* runner.rs:257, "Fallback via worker (job may not yet be marked active)":   *)
(* a cancel queued for a job that becomes active takes effect on that job.    *)
QueuedCancelTakesEffect ==
    \A p \in Procs : \A i \in 1..Len(chan[p]) :
        (wpc[p] = "finalize" /\ chan[p][i].op = "cancel" /\ chan[p][i].job = Job(p))
            => cancel[p]

============================================================================
