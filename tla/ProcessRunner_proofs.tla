----------------------- MODULE ProcessRunner_proofs -----------------------
(***************************************************************************)
(* Proofs about ProcessRunner, for every set of processes, clients, jobs    *)
(* and matters and every number of restarts.                                *)
(***************************************************************************)
EXTENDS ProcessRunner, SequenceTheorems, TLAPS

(* The command in a client's hands is the one its program counter says. *)
CallOK ==
    \A c \in Clients :
        /\ cpc[c] \in {"gate", "send"} => call[c] \in JobCommand /\ call[c].client = c
        /\ cpc[c] = "take" => call[c] \in ShutdownCommand

(* A worker between recv and clear executes a start or resume command. *)
WorkerOK ==
    \A p \in Procs :
        wpc[p] \notin {"recv", "exited"} => wcmd[p] \in JobCommand /\ wcmd[p].op # "cancel"

(* Once run_start has created the row, or run_resume has found it, it exists. *)
RowOK ==
    \A p \in Procs :
        wpc[p] \in {"set_running", "activate", "reopen", "publish", "run", "stop_poller",
                   "finalize", "drop"} => rows[wcmd[p].job] # NoRow

TypeInv == TypeOK /\ CallOK /\ WorkerOK /\ RowOK

(* The channel stays a sequence of commands under send and receive. *)
LEMMA ChanTypes ==
    ASSUME NEW s \in Seq(Command)
    PROVE  /\ \A e \in Command : Append(s, e) \in Seq(Command)
           /\ s # << >> => Head(s) \in Command /\ Tail(s) \in Seq(Command)
  <1>1. \A e \in Command : Append(s, e) \in Seq(Command)
    BY AppendProperties
  <1>2. s # << >> => Head(s) \in Command /\ Tail(s) \in Seq(Command)
    BY HeadTailProperties
  <1> QED BY <1>1, <1>2

(* ProcessRunner::new starts in a state of the invariant. *)
LEMMA TypeInit == Init => TypeInv
  <1> SUFFICES ASSUME Init PROVE TypeInv
    OBVIOUS
  <1>1. TypeOK
    BY ConstantsAssumption, EmptySeq DEF Init, TypeOK, RowState, JobState, WorkerPCs,
       PollerPCs, ClientPCs,
       Outcomes, Snapshot, IdleSnapshot
  <1>2. CallOK /\ WorkerOK /\ RowOK
    BY DEF Init, CallOK, WorkerOK, RowOK
  <1> QED BY <1>1, <1>2 DEF TypeInv

(* The commands the client calls build are commands of their kind. *)
LEMMA CommandTypes ==
    /\ \A cmd \in JobCommand : /\ cmd \in Command /\ cmd.client \in Clients /\ cmd.job \in Jobs
                               /\ cmd.op \in {"start", "resume", "cancel"}
    /\ \A cmd \in ShutdownCommand : cmd \in Command
    /\ \A cmd \in Command : cmd.op # "shutdown" => cmd \in JobCommand
    /\ \A op \in {"start", "resume", "cancel"}, c \in Clients, j \in Jobs :
          [op |-> op, client |-> c, job |-> j] \in JobCommand
    /\ \A c \in Clients : [op |-> "shutdown", client |-> c, job |-> None] \in ShutdownCommand
  BY DEF JobCommand, ShutdownCommand, Command

(* A step's effect on the job table: typed, and no row disappears. *)
RowsKept == /\ rows' \in [Jobs -> RowState]
            /\ \A i \in Jobs : rows[i] # NoRow => rows'[i] # NoRow

(* set_job_state writes a state and removes no row. *)
LEMMA RowsKeptBySet ==
    ASSUME TypeOK, NEW j \in Jobs, NEW to \in JobState, rows' = SetJobState(rows, j, to)
    PROVE  RowsKept
  <1>1. to # NoRow /\ to \in RowState
    BY DEF JobState, NoRow, RowState
  <1> QED BY <1>1 DEF TypeOK, RowsKept, SetJobState

(* The job a worker executes is a job, for a client, started or resumed. *)
LEMMA WorkerJob ==
    ASSUME TypeInv
    PROVE  \A q \in Procs : wpc[q] \notin {"recv", "exited"} =>
              /\ wcmd[q].job \in Jobs /\ wcmd[q].client \in Clients
              /\ wcmd[q].op \in {"start", "resume"}
  BY CommandTypes DEF TypeInv, WorkerOK

(* worker_loop takes a command off the channel and leaves the rest. *)
LEMMA RecvTypes ==
    ASSUME TypeInv, NEW p \in Procs, NEW op, Receive(p, op)
    PROVE  /\ Head(chan[p]) \in Command
           /\ chan' \in [Procs -> Seq(Command)]
           /\ op # "shutdown" => Head(chan[p]) \in JobCommand
  <1>1. chan[p] \in Seq(Command) /\ chan[p] # << >>
    BY DEF TypeInv, TypeOK, Receive
  <1>2. Head(chan[p]) \in Command /\ Tail(chan[p]) \in Seq(Command)
    BY <1>1, ChanTypes
  <1> QED BY <1>2, CommandTypes DEF Receive, TypeInv, TypeOK

(* Every refusal of the accept phase is one of the replies. *)
LEMMA RefusalTypes ==
    /\ \A p \in Procs, op \in {"start", "resume"} : RecvRefusal(p, op) \in Replies \cup {None}
    /\ \A p \in Procs : ResumeRefusal(p) \in Replies \cup {None}
  BY DEF RecvRefusal, ResumeRefusal, Replies

(* Every step of clients, worker, poller, restart and CLI keeps the types. *)
LEMMA TypeNext == TypeInv /\ [Next]_vars => TypeInv'
  <1> SUFFICES ASSUME TypeInv, [Next]_vars PROVE TypeInv'
    OBVIOUS
  <1>1. ASSUME NEW c \in Clients, NEW j \in Jobs, CallStart(c, j) PROVE TypeInv'
    <2>7. /\ fresh' \in SUBSET Jobs
          /\ call' \in [Clients -> Command \cup {NoCommand}]
          /\ cpc' \in [Clients -> ClientPCs]
      BY <1>1, CommandTypes DEF CallStart, TypeInv, TypeOK, Goto, ClientPCs
    <2>8. TypeOK'
      BY <1>1, <2>7 DEF CallStart, TypeInv, TypeOK, durable, workerVars, progressVars,
         clientVars
    <2>9. CallOK' /\ WorkerOK'
      BY <1>1, CommandTypes DEF CallStart, TypeInv, TypeOK, CallOK, WorkerOK, Goto,
         ClientPCs, durable, workerVars, progressVars, clientVars
    <2>10. RowOK'
      BY <1>1, CommandTypes, WorkerJob DEF CallStart, TypeInv, TypeOK, RowOK, Goto,
         ClientPCs, durable, workerVars, progressVars, clientVars
    <2> QED BY <2>8, <2>9, <2>10 DEF TypeInv
  <1>2. ASSUME NEW c \in Clients, NEW j \in Jobs, CallResume(c, j) PROVE TypeInv'
    <2>7. call' \in [Clients -> Command \cup {NoCommand}] /\ cpc' \in [Clients -> ClientPCs]
      BY <1>2, CommandTypes DEF CallResume, TypeInv, TypeOK, Goto, ClientPCs
    <2>8. TypeOK'
      BY <1>2, <2>7 DEF CallResume, TypeInv, TypeOK, durable, workerVars, progressVars,
         clientVars
    <2>9. CallOK' /\ WorkerOK'
      BY <1>2, CommandTypes DEF CallResume, TypeInv, TypeOK, CallOK, WorkerOK, Goto,
         ClientPCs, durable, workerVars, progressVars, clientVars
    <2>10. RowOK'
      BY <1>2, CommandTypes, WorkerJob DEF CallResume, TypeInv, TypeOK, RowOK, Goto,
         ClientPCs, durable, workerVars, progressVars, clientVars
    <2> QED BY <2>8, <2>9, <2>10 DEF TypeInv
  <1>3. ASSUME NEW c \in Clients, NEW j \in Jobs, CallCancel(c, j) PROVE TypeInv'
    <2>7. /\ call' \in [Clients -> Command \cup {NoCommand}]
          /\ cpc' \in [Clients -> ClientPCs]
          /\ reply' \in [Clients -> Replies \cup {None}]
          /\ cancel' \in [Procs -> BOOLEAN]
      BY <1>3, CommandTypes, ConstantsAssumption DEF CallCancel, TypeInv, TypeOK, Goto,
         ClientPCs, Answer, Replies, RaiseCancel
    <2>8. TypeOK'
      BY <1>3, <2>7 DEF CallCancel, TypeInv, TypeOK, durable, workerVars, progressVars,
         clientVars
    <2>9. CallOK' /\ WorkerOK'
      BY <1>3, CommandTypes, ConstantsAssumption DEF CallCancel, TypeInv, TypeOK, CallOK,
         WorkerOK, Goto, ClientPCs, Answer, Replies, RaiseCancel, durable, workerVars,
         progressVars, clientVars
    <2>10. RowOK'
      BY <1>3, CommandTypes, ConstantsAssumption, WorkerJob DEF CallCancel, TypeInv, TypeOK,
         RowOK, Goto, ClientPCs, Answer, Replies, RaiseCancel, durable, workerVars,
         progressVars, clientVars
    <2> QED BY <2>8, <2>9, <2>10 DEF TypeInv
  <1>4. ASSUME NEW c \in Clients, CallShutdown(c) PROVE TypeInv'
    <2>7. /\ call' \in [Clients -> Command \cup {NoCommand}]
          /\ cpc' \in [Clients -> ClientPCs]
          /\ cancel' \in [Procs -> BOOLEAN]
      BY <1>4, CommandTypes, ConstantsAssumption DEF CallShutdown, TypeInv, TypeOK, Goto,
         ClientPCs
    <2>8. TypeOK'
      BY <1>4, <2>7 DEF CallShutdown, TypeInv, TypeOK, durable, workerVars, progressVars,
         clientVars
    <2>9. CallOK' /\ WorkerOK'
      BY <1>4, CommandTypes, ConstantsAssumption DEF CallShutdown, TypeInv, TypeOK, CallOK,
         WorkerOK, Goto, ClientPCs, durable, workerVars, progressVars, clientVars
    <2>10. RowOK'
      BY <1>4, CommandTypes, ConstantsAssumption, WorkerJob DEF CallShutdown, TypeInv,
         TypeOK, RowOK, Goto, ClientPCs, durable, workerVars, progressVars, clientVars
    <2> QED BY <2>8, <2>9, <2>10 DEF TypeInv
  <1>5. ASSUME NEW c \in Clients, EnterAccept(c) PROVE TypeInv'
    <2>7. /\ accept' \in [Procs -> Clients \cup {None}]
          /\ cpc' \in [Clients -> ClientPCs]
          /\ reply' \in [Clients -> Replies \cup {None}]
      BY <1>5, ConstantsAssumption DEF EnterAccept, TypeInv, TypeOK, Goto, ClientPCs, Answer,
         Replies
    <2>8. TypeOK'
      BY <1>5, <2>7 DEF EnterAccept, TypeInv, TypeOK, durable, workerVars, progressVars,
         clientVars
    <2>9. CallOK' /\ WorkerOK'
      BY <1>5, ConstantsAssumption DEF EnterAccept, TypeInv, TypeOK, CallOK, WorkerOK, Goto,
         ClientPCs, Answer, Replies, durable, workerVars, progressVars, clientVars
    <2>10. RowOK'
      BY <1>5, ConstantsAssumption, WorkerJob DEF EnterAccept, TypeInv, TypeOK, RowOK, Goto,
         ClientPCs, Answer, Replies, durable, workerVars, progressVars, clientVars
    <2> QED BY <2>8, <2>9, <2>10 DEF TypeInv
  <1>6. ASSUME NEW c \in Clients, Send(c) PROVE TypeInv'
    <2>1. ProcOf[c] \in Procs /\ chan[ProcOf[c]] \in Seq(Command) /\ call[c] \in Command
      BY <1>6, CommandTypes, ConstantsAssumption DEF Send, TypeInv, TypeOK, CallOK
    <2>2. Append(chan[ProcOf[c]], call[c]) \in Seq(Command)
      BY <2>1, ChanTypes
    <2>7. /\ chan' \in [Procs -> Seq(Command)]
          /\ cpc' \in [Clients -> ClientPCs]
          /\ reply' \in [Clients -> Replies \cup {None}]
      BY <1>6, <2>1, <2>2 DEF Send, TypeInv, TypeOK, Goto, ClientPCs, Answer, Replies
    <2>8. TypeOK'
      BY <1>6, <2>7 DEF Send, TypeInv, TypeOK, durable, workerVars, progressVars, clientVars
    <2>9. CallOK' /\ WorkerOK'
      BY <1>6, <2>1, <2>2 DEF Send, TypeInv, TypeOK, CallOK, WorkerOK, Goto, ClientPCs,
         Answer, Replies, durable, workerVars, progressVars, clientVars
    <2>10. RowOK'
      BY <1>6, <2>1, <2>2, WorkerJob DEF Send, TypeInv, TypeOK, RowOK, Goto, ClientPCs,
         Answer, Replies, durable, workerVars, progressVars, clientVars
    <2> QED BY <2>8, <2>9, <2>10 DEF TypeInv
  <1>7. ASSUME NEW c \in Clients, Return(c) PROVE TypeInv'
    <2>7. /\ accept' \in [Procs -> Clients \cup {None}]
          /\ cpc' \in [Clients -> ClientPCs]
          /\ reply' \in [Clients -> Replies \cup {None}]
          /\ call' \in [Clients -> Command \cup {NoCommand}]
      BY <1>7, ConstantsAssumption DEF Return, TypeInv, TypeOK, Goto, ClientPCs, Answer
    <2>8. TypeOK'
      BY <1>7, <2>7 DEF Return, TypeInv, TypeOK, durable, workerVars, progressVars, clientVars
    <2>9. CallOK' /\ WorkerOK'
      BY <1>7, ConstantsAssumption DEF Return, TypeInv, TypeOK, CallOK, WorkerOK, Goto,
         ClientPCs, Answer, durable, workerVars, progressVars, clientVars
    <2>10. RowOK'
      BY <1>7, ConstantsAssumption, WorkerJob DEF Return, TypeInv, TypeOK, RowOK, Goto,
         ClientPCs, Answer, durable, workerVars, progressVars, clientVars
    <2> QED BY <2>8, <2>9, <2>10 DEF TypeInv
  <1>8. ASSUME NEW c \in Clients, TakeSender(c) PROVE TypeInv'
    <2>1. ProcOf[c] \in Procs /\ chan[ProcOf[c]] \in Seq(Command) /\ call[c] \in Command
      BY <1>8, CommandTypes, ConstantsAssumption DEF TakeSender, TypeInv, TypeOK, CallOK
    <2>2. Append(chan[ProcOf[c]], call[c]) \in Seq(Command)
      BY <2>1, ChanTypes
    <2>7. /\ chan' \in [Procs -> Seq(Command)]
          /\ cpc' \in [Clients -> ClientPCs]
          /\ tx' \in [Procs -> BOOLEAN]
      BY <1>8, <2>1, <2>2 DEF TakeSender, TypeInv, TypeOK, Goto, ClientPCs
    <2>8. TypeOK'
      BY <1>8, <2>7 DEF TakeSender, TypeInv, TypeOK, durable, workerVars, progressVars,
         clientVars
    <2>9. CallOK' /\ WorkerOK'
      BY <1>8, <2>1, <2>2 DEF TakeSender, TypeInv, TypeOK, CallOK, WorkerOK, Goto, ClientPCs,
         durable, workerVars, progressVars, clientVars
    <2>10. RowOK'
      BY <1>8, <2>1, <2>2, WorkerJob DEF TakeSender, TypeInv, TypeOK, RowOK, Goto, ClientPCs,
         durable, workerVars, progressVars, clientVars
    <2> QED BY <2>8, <2>9, <2>10 DEF TypeInv
  <1>9. ASSUME NEW c \in Clients, JoinWorker(c) PROVE TypeInv'
    <2>7. cpc' \in [Clients -> ClientPCs]
      BY <1>9, ConstantsAssumption DEF JoinWorker, TypeInv, TypeOK, Goto, ClientPCs
    <2>8. TypeOK'
      BY <1>9, <2>7 DEF JoinWorker, TypeInv, TypeOK, durable, workerVars, progressVars,
         clientVars
    <2>9. CallOK' /\ WorkerOK'
      BY <1>9, ConstantsAssumption DEF JoinWorker, TypeInv, TypeOK, CallOK, WorkerOK, Goto,
         ClientPCs, durable, workerVars, progressVars, clientVars
    <2>10. RowOK'
      BY <1>9, ConstantsAssumption, WorkerJob DEF JoinWorker, TypeInv, TypeOK, RowOK, Goto,
         ClientPCs, durable, workerVars, progressVars, clientVars
    <2> QED BY <2>8, <2>9, <2>10 DEF TypeInv
  <1>10. ASSUME NEW c \in Clients, ShutdownReturns(c) PROVE TypeInv'
    <2>7. cpc' \in [Clients -> ClientPCs] /\ call' \in [Clients -> Command \cup {NoCommand}]
      BY <1>10, ConstantsAssumption DEF ShutdownReturns, TypeInv, TypeOK, Goto, ClientPCs
    <2>8. TypeOK'
      BY <1>10, <2>7 DEF ShutdownReturns, TypeInv, TypeOK, durable, workerVars, progressVars,
         clientVars
    <2>9. CallOK' /\ WorkerOK'
      BY <1>10, ConstantsAssumption DEF ShutdownReturns, TypeInv, TypeOK, CallOK, WorkerOK,
         Goto, ClientPCs, durable, workerVars, progressVars, clientVars
    <2>10. RowOK'
      BY <1>10, ConstantsAssumption, WorkerJob DEF ShutdownReturns, TypeInv, TypeOK, RowOK,
         Goto, ClientPCs, durable, workerVars, progressVars, clientVars
    <2> QED BY <2>8, <2>9, <2>10 DEF TypeInv
  <1>11. ASSUME NEW p \in Procs, RecvShutdown(p) PROVE TypeInv'
    <2>7. /\ chan' \in [Procs -> Seq(Command)]
          /\ wpc' \in [Procs -> WorkerPCs]
          /\ active' \in [Procs -> Jobs \cup {None}]
          /\ cancel' \in [Procs -> BOOLEAN]
      BY <1>11, RecvTypes DEF RecvShutdown, TypeInv, TypeOK, EmptySlot, WGoto, WorkerPCs
    <2>8. TypeOK'
      BY <1>11, <2>7 DEF RecvShutdown, TypeInv, TypeOK, durable, workerVars, progressVars,
         clientVars
    <2>9. CallOK' /\ WorkerOK'
      BY <1>11, RecvTypes DEF RecvShutdown, TypeInv, TypeOK, CallOK, WorkerOK, EmptySlot,
         WGoto, WorkerPCs, durable, workerVars, progressVars, clientVars
    <2>10. RowOK'
      BY <1>11, RecvTypes, WorkerJob DEF RecvShutdown, TypeInv, TypeOK, RowOK, EmptySlot,
         WGoto, WorkerPCs, durable, workerVars, progressVars, clientVars
    <2> QED BY <2>8, <2>9, <2>10 DEF TypeInv
  <1>12. ASSUME NEW p \in Procs, RecvCancel(p) PROVE TypeInv'
    <2>1. Head(chan[p]) \in JobCommand /\ chan' \in [Procs -> Seq(Command)]
      BY <1>12, RecvTypes DEF RecvCancel
    <2>2. Head(chan[p]).client \in Clients /\ Head(chan[p]).job \in Jobs
      BY <2>1, CommandTypes
    <2>7. /\ chan' \in [Procs -> Seq(Command)]
          /\ reply' \in [Clients -> Replies \cup {None}]
          /\ cancel' \in [Procs -> BOOLEAN]
      BY <1>12, <2>1, <2>2 DEF RecvCancel, TypeInv, TypeOK, Answer, RaiseCancel, Replies
    <2>8. TypeOK'
      BY <1>12, <2>7 DEF RecvCancel, TypeInv, TypeOK, durable, workerVars, progressVars,
         clientVars
    <2>9. CallOK' /\ WorkerOK'
      BY <1>12, <2>1, <2>2 DEF RecvCancel, TypeInv, TypeOK, CallOK, WorkerOK, Answer,
         RaiseCancel, Replies, durable, workerVars, progressVars, clientVars
    <2>10. RowOK'
      BY <1>12, <2>1, <2>2, WorkerJob DEF RecvCancel, TypeInv, TypeOK, RowOK, Answer,
         RaiseCancel, Replies, durable, workerVars, progressVars, clientVars
    <2> QED BY <2>8, <2>9, <2>10 DEF TypeInv
  <1>13. ASSUME NEW p \in Procs, NEW op \in {"start", "resume"}, RecvJob(p, op) PROVE TypeInv'
    <2>1. Head(chan[p]) \in JobCommand /\ chan' \in [Procs -> Seq(Command)]
      BY <1>13, RecvTypes DEF RecvJob
    <2>2. Head(chan[p]).client \in Clients /\ Head(chan[p]).job \in Jobs
      BY <2>1, CommandTypes
    <2>7. /\ chan' \in [Procs -> Seq(Command)]
          /\ wpc' \in [Procs -> WorkerPCs]
          /\ reply' \in [Clients -> Replies \cup {None}]
          /\ wcmd' \in [Procs -> JobCommand \cup {NoCommand}]
      <3>1. chan' \in [Procs -> Seq(Command)]
        BY <1>13, <2>1, <2>2, RefusalTypes DEF RecvJob, TypeInv, TypeOK
      <3>2. wpc' \in [Procs -> WorkerPCs]
        BY <1>13, <2>1, <2>2, RefusalTypes DEF RecvJob, TypeInv, TypeOK, WGoto, WorkerPCs
      <3>3. reply' \in [Clients -> Replies \cup {None}]
        BY <1>13, <2>1, <2>2, RefusalTypes DEF RecvJob, TypeInv, TypeOK, Answer, Replies
      <3>4. wcmd' \in [Procs -> JobCommand \cup {NoCommand}]
        BY <1>13, <2>1, <2>2, RefusalTypes DEF RecvJob, TypeInv, TypeOK
      <3> QED BY <3>1, <3>2, <3>3, <3>4
    <2>8. TypeOK'
      BY <1>13, <2>7 DEF RecvJob, TypeInv, TypeOK, durable, workerVars, progressVars, clientVars
    <2>9. CallOK' /\ WorkerOK'
      BY <1>13, <2>1, <2>2, RefusalTypes DEF RecvJob, TypeInv, TypeOK, CallOK, WorkerOK,
         RowsKept, Answer, WGoto, Receive, durable, workerVars, progressVars, clientVars
    <2>10. RowOK'
      BY <1>13, <2>1, <2>2, RefusalTypes, WorkerJob DEF RecvJob, TypeInv, TypeOK, RowOK,
         RowsKept, Answer, WGoto, Receive, durable, workerVars, progressVars, clientVars
    <2> QED BY <2>8, <2>9, <2>10 DEF TypeInv
  <1>14. ASSUME NEW p \in Procs, OpenMatter(p) PROVE TypeInv'
    <2>1. wcmd[p] \in JobCommand /\ wcmd[p].op # "cancel"
      BY <1>14 DEF OpenMatter, TypeInv, WorkerOK
    <2>2. /\ Caller(p) \in Clients
          /\ Job(p) \in Jobs
          /\ Matter(p) \in Matters
          /\ wcmd[p].op \in {"start", "resume"}
      BY <2>1, CommandTypes, ConstantsAssumption DEF Caller, Job, Matter
    <2>7. /\ lock' \in [Matters -> Procs \cup {None}]
          /\ wpc' \in [Procs -> WorkerPCs]
          /\ reply' \in [Clients -> Replies \cup {None}]
          /\ wcmd' \in [Procs -> JobCommand \cup {NoCommand}]
      <3>1. lock' \in [Matters -> Procs \cup {None}]
        BY <1>14, <2>1, <2>2 DEF OpenMatter, TypeInv, TypeOK
      <3>2. wpc' \in [Procs -> WorkerPCs]
        BY <1>14, <2>1, <2>2 DEF OpenMatter, TypeInv, TypeOK, WGoto, WorkerPCs
      <3>3. reply' \in [Clients -> Replies \cup {None}]
        BY <1>14, <2>1, <2>2 DEF OpenMatter, TypeInv, TypeOK, Answer, Replies
      <3>4. wcmd' \in [Procs -> JobCommand \cup {NoCommand}]
        BY <1>14, <2>1, <2>2 DEF OpenMatter, TypeInv, TypeOK
      <3> QED BY <3>1, <3>2, <3>3, <3>4
    <2>8. TypeOK'
      BY <1>14, <2>7 DEF OpenMatter, TypeInv, TypeOK, durable, workerVars, progressVars,
         clientVars
    <2>9. CallOK' /\ WorkerOK'
      <3>1. CallOK'
        BY <1>14 DEF OpenMatter, TypeInv, CallOK
      <3>2. WorkerOK'
        BY <1>14, <2>1, <2>2 DEF OpenMatter, TypeInv, TypeOK, WorkerOK, WGoto
      <3> QED BY <3>1, <3>2
    <2>10. RowOK'
      BY <1>14, <2>1, <2>2, WorkerJob DEF OpenMatter, TypeInv, TypeOK, RowOK, RowsKept,
         Answer, WGoto, durable, workerVars, progressVars, clientVars
    <2> QED BY <2>8, <2>9, <2>10 DEF TypeInv
  <1>15. ASSUME NEW p \in Procs, StartAccept(p) PROVE TypeInv'
    <2>1. wcmd[p] \in JobCommand /\ wcmd[p].op # "cancel"
      BY <1>15 DEF StartAccept, TypeInv, WorkerOK
    <2>2. /\ Caller(p) \in Clients
          /\ Job(p) \in Jobs
          /\ Matter(p) \in Matters
          /\ wcmd[p].op \in {"start", "resume"}
      BY <2>1, CommandTypes, ConstantsAssumption DEF Caller, Job, Matter
    <2>4. RowsKept
      BY <1>15, <2>2 DEF StartAccept, TypeInv, TypeOK, RowsKept, JobState, CreateJob,
         RowState, NoRow
    <2>7. /\ rows' \in [Jobs -> RowState]
          /\ wpc' \in [Procs -> WorkerPCs]
          /\ reply' \in [Clients -> Replies \cup {None}]
      BY <1>15, <2>1, <2>2, <2>4 DEF StartAccept, TypeInv, TypeOK, ReplyErr, Answer, Replies,
         WGoto, WorkerPCs, RowsKept
    <2>8. TypeOK'
      BY <1>15, <2>7 DEF StartAccept, TypeInv, TypeOK, durable, workerVars, progressVars,
         clientVars
    <2>9. CallOK' /\ WorkerOK'
      BY <1>15, <2>1, <2>2, <2>4 DEF StartAccept, TypeInv, TypeOK, CallOK, WorkerOK,
         ReplyErr, Answer, Replies, WGoto, WorkerPCs, RowsKept, durable, workerVars,
         progressVars, clientVars
    <2>10. RowOK'
      <3>1. ASSUME wpc'[p] = "set_running" PROVE rows'[wcmd[p].job] # NoRow
        BY <1>15, <2>2, <3>1 DEF StartAccept, CreateJob, Job, NoRow, WGoto, TypeInv, TypeOK
      <3>2. wpc'[p] \in {"set_running", "abandon"} /\ wcmd' = wcmd
        BY <1>15 DEF StartAccept, WGoto, TypeInv, TypeOK
      <3>3. \A q \in Procs \ {p} : wpc'[q] = wpc[q]
        BY <1>15 DEF StartAccept, WGoto, TypeInv, TypeOK
      <3> QED BY <2>4, <3>1, <3>2, <3>3, WorkerJob DEF RowOK, RowsKept, TypeInv
    <2> QED BY <2>8, <2>9, <2>10 DEF TypeInv
  <1>16. ASSUME NEW p \in Procs, StartSetRunning(p) PROVE TypeInv'
    <2>1. wcmd[p] \in JobCommand /\ wcmd[p].op # "cancel"
      BY <1>16 DEF StartSetRunning, TypeInv, WorkerOK
    <2>2. /\ Caller(p) \in Clients
          /\ Job(p) \in Jobs
          /\ Matter(p) \in Matters
          /\ wcmd[p].op \in {"start", "resume"}
      BY <2>1, CommandTypes, ConstantsAssumption DEF Caller, Job, Matter
    <2>4. RowsKept
      BY <1>16, <2>2, RowsKeptBySet DEF StartSetRunning, TypeInv, TypeOK, RowsKept, JobState,
         RowState
    <2>7. /\ rows' \in [Jobs -> RowState]
          /\ wpc' \in [Procs -> WorkerPCs]
          /\ reply' \in [Clients -> Replies \cup {None}]
      <3>1. rows' \in [Jobs -> RowState]
        BY <1>16, <2>1, <2>2, <2>4 DEF StartSetRunning, TypeInv, TypeOK, RowsKept
      <3>2. wpc' \in [Procs -> WorkerPCs]
        BY <1>16, <2>1, <2>2, <2>4 DEF StartSetRunning, TypeInv, TypeOK, WGoto, WorkerPCs
      <3>3. reply' \in [Clients -> Replies \cup {None}]
        BY <1>16, <2>1, <2>2, <2>4 DEF StartSetRunning, TypeInv, TypeOK, ReplyErr, Answer,
           Replies
      <3> QED BY <3>1, <3>2, <3>3
    <2>8. TypeOK'
      BY <1>16, <2>7 DEF StartSetRunning, TypeInv, TypeOK, durable, workerVars, progressVars,
         clientVars
    <2>9. CallOK' /\ WorkerOK'
      BY <1>16, <2>1, <2>2, <2>4 DEF StartSetRunning, TypeInv, TypeOK, CallOK, WorkerOK,
         RowsKept, ReplyErr, Answer, WGoto, durable, workerVars, progressVars, clientVars
    <2>10. RowOK'
      BY <1>16, <2>1, <2>2, <2>4, WorkerJob DEF StartSetRunning, TypeInv, TypeOK, RowOK,
         RowsKept, ReplyErr, Answer, WGoto, durable, workerVars, progressVars, clientVars
    <2> QED BY <2>8, <2>9, <2>10 DEF TypeInv
  <1>17. ASSUME NEW p \in Procs, StartActivate(p) PROVE TypeInv'
    <2>1. wcmd[p] \in JobCommand /\ wcmd[p].op # "cancel"
      BY <1>17 DEF StartActivate, TypeInv, WorkerOK
    <2>2. /\ Caller(p) \in Clients
          /\ Job(p) \in Jobs
          /\ Matter(p) \in Matters
          /\ wcmd[p].op \in {"start", "resume"}
      BY <2>1, CommandTypes, ConstantsAssumption DEF Caller, Job, Matter
    <2>7. /\ active' \in [Procs -> Jobs \cup {None}]
          /\ cancel' \in [Procs -> BOOLEAN]
          /\ wpc' \in [Procs -> WorkerPCs]
      BY <1>17, <2>1, <2>2 DEF StartActivate, TypeInv, TypeOK, Activate, WGoto, WorkerPCs
    <2>8. TypeOK'
      BY <1>17, <2>7 DEF StartActivate, TypeInv, TypeOK, durable, workerVars, progressVars,
         clientVars
    <2>9. CallOK' /\ WorkerOK'
      BY <1>17, <2>1, <2>2 DEF StartActivate, TypeInv, TypeOK, CallOK, WorkerOK, Activate,
         WGoto, WorkerPCs, durable, workerVars, progressVars, clientVars
    <2>10. RowOK'
      BY <1>17, <2>1, <2>2, WorkerJob DEF StartActivate, TypeInv, TypeOK, RowOK, Activate,
         WGoto, WorkerPCs, durable, workerVars, progressVars, clientVars
    <2> QED BY <2>8, <2>9, <2>10 DEF TypeInv
  <1>18. ASSUME NEW p \in Procs, ResumeAccept(p) PROVE TypeInv'
    <2>1. wcmd[p] \in JobCommand /\ wcmd[p].op # "cancel"
      BY <1>18 DEF ResumeAccept, TypeInv, WorkerOK
    <2>2. /\ Caller(p) \in Clients
          /\ Job(p) \in Jobs
          /\ Matter(p) \in Matters
          /\ wcmd[p].op \in {"start", "resume"}
      BY <2>1, CommandTypes, ConstantsAssumption DEF Caller, Job, Matter
    <2>3. ResumeRefusal(p) = None => rows[wcmd[p].job] # NoRow
      BY NoneAssumption DEF ResumeRefusal, Job, Replies
    <2>7. /\ active' \in [Procs -> Jobs \cup {None}]
          /\ cancel' \in [Procs -> BOOLEAN]
          /\ wpc' \in [Procs -> WorkerPCs]
          /\ reply' \in [Clients -> Replies \cup {None}]
      <3>1. active' \in [Procs -> Jobs \cup {None}]
        BY <1>18, <2>1, <2>2, <2>3, RefusalTypes DEF ResumeAccept, TypeInv, TypeOK, Activate
      <3>2. cancel' \in [Procs -> BOOLEAN]
        BY <1>18, <2>1, <2>2, <2>3, RefusalTypes DEF ResumeAccept, TypeInv, TypeOK, Activate
      <3>3. wpc' \in [Procs -> WorkerPCs]
        BY <1>18, <2>1, <2>2, <2>3, RefusalTypes DEF ResumeAccept, TypeInv, TypeOK, WGoto,
           WorkerPCs
      <3>4. reply' \in [Clients -> Replies \cup {None}]
        BY <1>18, <2>1, <2>2, <2>3, RefusalTypes DEF ResumeAccept, TypeInv, TypeOK, ReplyErr,
           Answer, Replies
      <3> QED BY <3>1, <3>2, <3>3, <3>4
    <2>8. TypeOK'
      BY <1>18, <2>7 DEF ResumeAccept, TypeInv, TypeOK, durable, workerVars, progressVars,
         clientVars
    <2>9. CallOK' /\ WorkerOK'
      BY <1>18, <2>1, <2>2, <2>3, RefusalTypes DEF ResumeAccept, TypeInv, TypeOK, CallOK,
         WorkerOK, RowsKept, WGoto, durable, workerVars, progressVars, clientVars
    <2>10. RowOK'
      BY <1>18, <2>1, <2>2, <2>3, RefusalTypes, WorkerJob DEF ResumeAccept, TypeInv, TypeOK,
         RowOK, RowsKept, WGoto, durable, workerVars, progressVars, clientVars
    <2> QED BY <2>8, <2>9, <2>10 DEF TypeInv
  <1>19. ASSUME NEW p \in Procs, ResumeReopen(p) PROVE TypeInv'
    <2>1. wcmd[p] \in JobCommand /\ wcmd[p].op # "cancel"
      BY <1>19 DEF ResumeReopen, TypeInv, WorkerOK
    <2>2. /\ Caller(p) \in Clients
          /\ Job(p) \in Jobs
          /\ Matter(p) \in Matters
          /\ wcmd[p].op \in {"start", "resume"}
      BY <2>1, CommandTypes, ConstantsAssumption DEF Caller, Job, Matter
    <2>4. RowsKept
      BY <1>19, <2>2, RowsKeptBySet DEF ResumeReopen, TypeInv, TypeOK, RowsKept, JobState,
         RowState
    <2>7. /\ rows' \in [Jobs -> RowState]
          /\ active' \in [Procs -> Jobs \cup {None}]
          /\ cancel' \in [Procs -> BOOLEAN]
          /\ wpc' \in [Procs -> WorkerPCs]
          /\ reply' \in [Clients -> Replies \cup {None}]
      <3>1. rows' \in [Jobs -> RowState]
        BY <1>19, <2>1, <2>2, <2>4 DEF ResumeReopen, TypeInv, TypeOK, RowsKept
      <3>2. active' \in [Procs -> Jobs \cup {None}]
        BY <1>19, <2>1, <2>2, <2>4 DEF ResumeReopen, TypeInv, TypeOK, SlotAfterFailedReopen, EmptySlot
      <3>3. cancel' \in [Procs -> BOOLEAN]
        BY <1>19, <2>1, <2>2, <2>4 DEF ResumeReopen, TypeInv, TypeOK, SlotAfterFailedReopen, EmptySlot
      <3>4. wpc' \in [Procs -> WorkerPCs]
        BY <1>19, <2>1, <2>2, <2>4 DEF ResumeReopen, TypeInv, TypeOK, WGoto, WorkerPCs
      <3>5. reply' \in [Clients -> Replies \cup {None}]
        BY <1>19, <2>1, <2>2, <2>4 DEF ResumeReopen, TypeInv, TypeOK, ReplyErr, Answer, Replies
      <3> QED BY <3>1, <3>2, <3>3, <3>4, <3>5
    <2>8. TypeOK'
      BY <1>19, <2>7 DEF ResumeReopen, TypeInv, TypeOK, durable, workerVars, progressVars,
         clientVars
    <2>9. CallOK' /\ WorkerOK'
      BY <1>19, <2>1, <2>2, <2>4 DEF ResumeReopen, TypeInv, TypeOK, CallOK, WorkerOK,
         RowsKept, WGoto, durable, workerVars, progressVars, clientVars
    <2>10. RowOK'
      BY <1>19, <2>1, <2>2, <2>4, WorkerJob DEF ResumeReopen, TypeInv, TypeOK, RowOK,
         RowsKept, WGoto, durable, workerVars, progressVars, clientVars
    <2> QED BY <2>8, <2>9, <2>10 DEF TypeInv
  <1>20. ASSUME NEW p \in Procs, PublishStarted(p) PROVE TypeInv'
    <2>1. wcmd[p] \in JobCommand /\ wcmd[p].op # "cancel"
      BY <1>20 DEF PublishStarted, TypeInv, WorkerOK
    <2>2. /\ Caller(p) \in Clients
          /\ Job(p) \in Jobs
          /\ Matter(p) \in Matters
          /\ wcmd[p].op \in {"start", "resume"}
      BY <2>1, CommandTypes, ConstantsAssumption DEF Caller, Job, Matter
    <2>7. /\ snap' \in [Procs -> Snapshot]
          /\ poller' \in [Procs -> PollerPCs]
          /\ wpc' \in [Procs -> WorkerPCs]
          /\ reply' \in [Clients -> Replies \cup {None}]
      BY <1>20, <2>1, <2>2 DEF PublishStarted, TypeInv, TypeOK, WGoto, WorkerPCs, PollerPCs,
         Answer, Replies, Snapshot, JobState
    <2>8. TypeOK'
      BY <1>20, <2>7 DEF PublishStarted, TypeInv, TypeOK, durable, workerVars, progressVars,
         clientVars
    <2>9. CallOK' /\ WorkerOK'
      BY <1>20, <2>1, <2>2 DEF PublishStarted, TypeInv, TypeOK, CallOK, WorkerOK, WGoto,
         WorkerPCs, PollerPCs, Answer, Replies, Snapshot, JobState, durable, workerVars,
         progressVars, clientVars
    <2>10. RowOK'
      BY <1>20, <2>1, <2>2, WorkerJob DEF PublishStarted, TypeInv, TypeOK, RowOK, WGoto,
         WorkerPCs, PollerPCs, Answer, Replies, Snapshot, JobState, durable, workerVars,
         progressVars, clientVars
    <2> QED BY <2>8, <2>9, <2>10 DEF TypeInv
  <1>21. ASSUME NEW p \in Procs, JoinPoller(p) PROVE TypeInv'
    <2>7. wpc' \in [Procs -> WorkerPCs]
      BY <1>21 DEF JoinPoller, TypeInv, TypeOK, WGoto, WorkerPCs
    <2>8. TypeOK'
      BY <1>21, <2>7 DEF JoinPoller, TypeInv, TypeOK, durable, workerVars, progressVars,
         clientVars
    <2>9. CallOK' /\ WorkerOK'
      BY <1>21 DEF JoinPoller, TypeInv, TypeOK, CallOK, WorkerOK, WGoto, WorkerPCs, durable,
         workerVars, progressVars, clientVars
    <2>10. RowOK'
      BY <1>21, WorkerJob DEF JoinPoller, TypeInv, TypeOK, RowOK, WGoto, WorkerPCs, durable,
         workerVars, progressVars, clientVars
    <2> QED BY <2>8, <2>9, <2>10 DEF TypeInv
  <1>22. ASSUME NEW p \in Procs, FinalizeJob(p) PROVE TypeInv'
    <2>1. wcmd[p] \in JobCommand /\ wcmd[p].op # "cancel"
      BY <1>22 DEF FinalizeJob, TypeInv, WorkerOK
    <2>2. /\ Caller(p) \in Clients
          /\ Job(p) \in Jobs
          /\ Matter(p) \in Matters
          /\ wcmd[p].op \in {"start", "resume"}
      BY <2>1, CommandTypes, ConstantsAssumption DEF Caller, Job, Matter
    <2>3. FinalState(p) \in JobState /\ FinalState(p) \in RowState
      BY <1>22, <2>2 DEF FinalizeJob, FinalState, MapOutcome, Outcomes, RowState, JobState,
         TypeInv, TypeOK, RowOK, Job, NoRow
    <2>4. RowsKept
      BY <1>22, <2>2, <2>3, RowsKeptBySet DEF FinalizeJob, TypeInv, TypeOK, RowsKept, JobState
    <2>7. /\ rows' \in [Jobs -> RowState]
          /\ snap' \in [Procs -> Snapshot]
          /\ wpc' \in [Procs -> WorkerPCs]
          /\ active' \in [Procs -> Jobs \cup {None}]
          /\ cancel' \in [Procs -> BOOLEAN]
      <3>1. rows' \in [Jobs -> RowState]
        BY <1>22, <2>1, <2>2, <2>4, <2>3 DEF FinalizeJob, TypeInv, TypeOK, RowsKept
      <3>2. snap' \in [Procs -> Snapshot]
        BY <1>22, <2>1, <2>2, <2>4, <2>3 DEF FinalizeJob, TypeInv, TypeOK, Snapshot
      <3>3. wpc' \in [Procs -> WorkerPCs]
        BY <1>22, <2>1, <2>2, <2>4, <2>3 DEF FinalizeJob, TypeInv, TypeOK, WGoto, WorkerPCs
      <3>4. active' \in [Procs -> Jobs \cup {None}]
        BY <1>22, <2>1, <2>2, <2>4, <2>3 DEF FinalizeJob, TypeInv, TypeOK, SlotAfterFinalize
      <3>5. cancel' \in [Procs -> BOOLEAN]
        BY <1>22, <2>1, <2>2, <2>4, <2>3 DEF FinalizeJob, TypeInv, TypeOK, SlotAfterFinalize
      <3> QED BY <3>1, <3>2, <3>3, <3>4, <3>5
    <2>8. TypeOK'
      BY <1>22, <2>7 DEF FinalizeJob, TypeInv, TypeOK, durable, workerVars, progressVars,
         clientVars
    <2>9. CallOK' /\ WorkerOK'
      BY <1>22, <2>1, <2>2, <2>4, <2>3 DEF FinalizeJob, TypeInv, TypeOK, CallOK, WorkerOK,
         RowsKept, WGoto, durable, workerVars, progressVars, clientVars
    <2>10. RowOK'
      BY <1>22, <2>1, <2>2, <2>4, <2>3, WorkerJob DEF FinalizeJob, TypeInv, TypeOK, RowOK,
         RowsKept, WGoto, durable, workerVars, progressVars, clientVars
    <2> QED BY <2>8, <2>9, <2>10 DEF TypeInv
  <1>23. ASSUME NEW p \in Procs, DropMatter(p) PROVE TypeInv'
    <2>7. lock' \in [Matters -> Procs \cup {None}] /\ wpc' \in [Procs -> WorkerPCs]
      BY <1>23 DEF DropMatter, TypeInv, TypeOK, WGoto, WorkerPCs
    <2>8. TypeOK'
      BY <1>23, <2>7 DEF DropMatter, TypeInv, TypeOK, durable, workerVars, progressVars,
         clientVars
    <2>9. CallOK' /\ WorkerOK'
      BY <1>23 DEF DropMatter, TypeInv, TypeOK, CallOK, WorkerOK, WGoto, WorkerPCs, durable,
         workerVars, progressVars, clientVars
    <2>10. RowOK'
      BY <1>23, WorkerJob DEF DropMatter, TypeInv, TypeOK, RowOK, WGoto, WorkerPCs, durable,
         workerVars, progressVars, clientVars
    <2> QED BY <2>8, <2>9, <2>10 DEF TypeInv
  <1>24. ASSUME NEW p \in Procs, ClearActive(p) PROVE TypeInv'
    <2>7. /\ active' \in [Procs -> Jobs \cup {None}]
          /\ cancel' \in [Procs -> BOOLEAN]
          /\ wpc' \in [Procs -> WorkerPCs]
          /\ wcmd' \in [Procs -> JobCommand \cup {NoCommand}]
          /\ outcome' \in [Procs -> Outcomes]
      BY <1>24 DEF ClearActive, TypeInv, TypeOK, EmptySlot, WGoto, WorkerPCs, Outcomes
    <2>8. TypeOK'
      BY <1>24, <2>7 DEF ClearActive, TypeInv, TypeOK, durable, workerVars, progressVars,
         clientVars
    <2>9. CallOK' /\ WorkerOK'
      BY <1>24 DEF ClearActive, TypeInv, TypeOK, CallOK, WorkerOK, EmptySlot, WGoto,
         WorkerPCs, Outcomes, durable, workerVars, progressVars, clientVars
    <2>10. RowOK'
      BY <1>24, WorkerJob DEF ClearActive, TypeInv, TypeOK, RowOK, EmptySlot, WGoto,
         WorkerPCs, Outcomes, durable, workerVars, progressVars, clientVars
    <2> QED BY <2>8, <2>9, <2>10 DEF TypeInv
  <1>25. ASSUME NEW p \in Procs, NEW s \in {"succeeded", "paused", "failed"}, StageWrites(p, s) PROVE TypeInv'
    <2>1. wcmd[p] \in JobCommand /\ wcmd[p].op # "cancel"
      BY <1>25 DEF StageWrites, TypeInv, WorkerOK
    <2>2. /\ Caller(p) \in Clients
          /\ Job(p) \in Jobs
          /\ Matter(p) \in Matters
          /\ wcmd[p].op \in {"start", "resume"}
      BY <2>1, CommandTypes, ConstantsAssumption DEF Caller, Job, Matter
    <2>4. RowsKept
      BY <1>25, <2>2, RowsKeptBySet DEF StageWrites, TypeInv, TypeOK, RowsKept, JobState
    <2>7. rows' \in [Jobs -> RowState]
      BY <1>25, <2>1, <2>2, <2>4 DEF StageWrites, TypeInv, TypeOK, RowsKept
    <2>8. TypeOK'
      BY <1>25, <2>7 DEF StageWrites, TypeInv, TypeOK, durable, workerVars, progressVars,
         clientVars
    <2>9. CallOK' /\ WorkerOK'
      BY <1>25, <2>1, <2>2, <2>4 DEF StageWrites, TypeInv, TypeOK, CallOK, WorkerOK,
         RowsKept, durable, workerVars, progressVars, clientVars
    <2>10. RowOK'
      BY <1>25, <2>1, <2>2, <2>4, WorkerJob DEF StageWrites, TypeInv, TypeOK, RowOK,
         RowsKept, durable, workerVars, progressVars, clientVars
    <2> QED BY <2>8, <2>9, <2>10 DEF TypeInv
  <1>26. ASSUME NEW p \in Procs, NEW out \in Outcomes, HandlerReturns(p, out) PROVE TypeInv'
    <2>7. wpc' \in [Procs -> WorkerPCs] /\ outcome' \in [Procs -> Outcomes]
      BY <1>26 DEF HandlerReturns, TypeInv, TypeOK, WGoto, WorkerPCs
    <2>8. TypeOK'
      BY <1>26, <2>7 DEF HandlerReturns, TypeInv, TypeOK, durable, workerVars, progressVars,
         clientVars
    <2>9. CallOK' /\ WorkerOK'
      BY <1>26 DEF HandlerReturns, TypeInv, TypeOK, CallOK, WorkerOK, WGoto, WorkerPCs,
         durable, workerVars, progressVars, clientVars
    <2>10. RowOK'
      BY <1>26, WorkerJob DEF HandlerReturns, TypeInv, TypeOK, RowOK, WGoto, WorkerPCs,
         durable, workerVars, progressVars, clientVars
    <2> QED BY <2>8, <2>9, <2>10 DEF TypeInv
  <1>27. ASSUME NEW p \in Procs, PollerExits(p) PROVE TypeInv'
    <2>7. poller' \in [Procs -> PollerPCs]
      BY <1>27 DEF PollerExits, TypeInv, TypeOK, PollerPCs
    <2>8. TypeOK'
      BY <1>27, <2>7 DEF PollerExits, TypeInv, TypeOK, durable, workerVars, progressVars,
         clientVars
    <2>9. CallOK' /\ WorkerOK'
      BY <1>27 DEF PollerExits, TypeInv, TypeOK, CallOK, WorkerOK, PollerPCs, durable,
         workerVars, progressVars, clientVars
    <2>10. RowOK'
      BY <1>27, WorkerJob DEF PollerExits, TypeInv, TypeOK, RowOK, PollerPCs, durable,
         workerVars, progressVars, clientVars
    <2> QED BY <2>8, <2>9, <2>10 DEF TypeInv
  <1>28. ASSUME NEW p \in Procs, PatchClones(p) PROVE TypeInv'
    <2>7. poller' \in [Procs -> PollerPCs] /\ copy' \in [Procs -> Snapshot]
      BY <1>28 DEF PatchClones, TypeInv, TypeOK, PollerPCs
    <2>8. TypeOK'
      BY <1>28, <2>7 DEF PatchClones, TypeInv, TypeOK, durable, workerVars, progressVars,
         clientVars
    <2>9. CallOK' /\ WorkerOK'
      BY <1>28 DEF PatchClones, TypeInv, TypeOK, CallOK, WorkerOK, PollerPCs, durable,
         workerVars, progressVars, clientVars
    <2>10. RowOK'
      BY <1>28, WorkerJob DEF PatchClones, TypeInv, TypeOK, RowOK, PollerPCs, durable,
         workerVars, progressVars, clientVars
    <2> QED BY <2>8, <2>9, <2>10 DEF TypeInv
  <1>29. ASSUME NEW p \in Procs, PatchSends(p) PROVE TypeInv'
    <2>7. /\ poller' \in [Procs -> PollerPCs]
          /\ copy' \in [Procs -> Snapshot]
          /\ snap' \in [Procs -> Snapshot]
      BY <1>29 DEF PatchSends, TypeInv, TypeOK, PollerPCs, Snapshot, IdleSnapshot
    <2>8. TypeOK'
      BY <1>29, <2>7 DEF PatchSends, TypeInv, TypeOK, durable, workerVars, progressVars,
         clientVars
    <2>9. CallOK' /\ WorkerOK'
      BY <1>29 DEF PatchSends, TypeInv, TypeOK, CallOK, WorkerOK, PollerPCs, Snapshot,
         IdleSnapshot, durable, workerVars, progressVars, clientVars
    <2>10. RowOK'
      BY <1>29, WorkerJob DEF PatchSends, TypeInv, TypeOK, RowOK, PollerPCs, Snapshot,
         IdleSnapshot, durable, workerVars, progressVars, clientVars
    <2> QED BY <2>8, <2>9, <2>10 DEF TypeInv
  <1>30. ASSUME NEW p \in Procs, Restart(p) PROVE TypeInv'
    <2>7. /\ lock' \in [Matters -> Procs \cup {None}]
          /\ chan' \in [Procs -> Seq(Command)]
          /\ tx' \in [Procs -> BOOLEAN]
          /\ accept' \in [Procs -> Clients \cup {None}]
          /\ active' \in [Procs -> Jobs \cup {None}]
          /\ cancel' \in [Procs -> BOOLEAN]
          /\ wpc' \in [Procs -> WorkerPCs]
          /\ wcmd' \in [Procs -> JobCommand \cup {NoCommand}]
          /\ outcome' \in [Procs -> Outcomes]
          /\ snap' \in [Procs -> Snapshot]
          /\ poller' \in [Procs -> PollerPCs]
          /\ copy' \in [Procs -> Snapshot]
          /\ cpc' \in [Clients -> ClientPCs]
          /\ call' \in [Clients -> Command \cup {NoCommand}]
          /\ reply' \in [Clients -> Replies \cup {None}]
          /\ restarts' \in 0..MaxRestarts
      BY <1>30, ConstantsAssumption, EmptySeq DEF Restart, TypeInv, TypeOK, WorkerPCs,
         PollerPCs, ClientPCs, Outcomes, Snapshot, IdleSnapshot
    <2>8. TypeOK'
      BY <1>30, <2>7 DEF Restart, TypeInv, TypeOK, durable, workerVars, progressVars, clientVars
    <2>9. CallOK' /\ WorkerOK'
      BY <1>30, ConstantsAssumption, EmptySeq DEF Restart, TypeInv, TypeOK, CallOK, WorkerOK,
         WorkerPCs, PollerPCs, ClientPCs, Outcomes, Snapshot, IdleSnapshot, durable,
         workerVars, progressVars, clientVars
    <2>10. RowOK'
      BY <1>30, ConstantsAssumption, EmptySeq, WorkerJob DEF Restart, TypeInv, TypeOK, RowOK,
         WorkerPCs, PollerPCs, ClientPCs, Outcomes, Snapshot, IdleSnapshot, durable,
         workerVars, progressVars, clientVars
    <2> QED BY <2>8, <2>9, <2>10 DEF TypeInv
  <1>31. ASSUME NEW j \in Jobs, CliJobCancel(j) PROVE TypeInv'
    <2>4. RowsKept
      BY <1>31, RowsKeptBySet DEF CliJobCancel, TypeInv, JobState
    <2>7. rows' \in [Jobs -> RowState]
      BY <1>31, <2>4 DEF CliJobCancel, TypeInv, TypeOK, RowsKept
    <2>8. TypeOK'
      BY <1>31, <2>7 DEF CliJobCancel, TypeInv, TypeOK, durable, workerVars, progressVars,
         clientVars
    <2>9. CallOK' /\ WorkerOK'
      BY <1>31, <2>4 DEF CliJobCancel, TypeInv, TypeOK, CallOK, WorkerOK, RowsKept, durable,
         workerVars, progressVars, clientVars
    <2>10. RowOK'
      BY <1>31, <2>4, WorkerJob DEF CliJobCancel, TypeInv, TypeOK, RowOK, RowsKept, durable,
         workerVars, progressVars, clientVars
    <2> QED BY <2>8, <2>9, <2>10 DEF TypeInv
  <1>32. CASE UNCHANGED vars
    BY <1>32 DEF TypeInv, TypeOK, CallOK, WorkerOK, RowOK, vars, durable, workerVars,
       progressVars, clientVars
  <1> QED
    BY <1>1, <1>2, <1>3, <1>4, <1>5, <1>6, <1>7, <1>8, <1>9, <1>10, <1>11, <1>12, <1>13,
       <1>14, <1>15, <1>16, <1>17, <1>18, <1>19, <1>20, <1>21, <1>22, <1>23, <1>24, <1>25,
       <1>26, <1>27, <1>28, <1>29, <1>30, <1>31, <1>32
       DEF Next, ClientCall, ClientStep, WorkerStep, HandlerStep, PollerStep

(* Every variable keeps its type: client threads, worker, poller and the job *)
(* table, over every interleaving, restart and store fault.                  *)
THEOREM TypeCorrect == Spec => []TypeOK
  <1>1. TypeInv => TypeOK
    BY DEF TypeInv
  <1> QED BY <1>1, TypeInit, TypeNext, PTL DEF Spec

----------------------------------------------------------------------------
(* The worker's program counters at which it owns the open Matter. *)
Holding == {"start", "set_running", "activate", "resume", "reopen", "publish",
            "run", "stop_poller", "finalize", "drop", "abandon"}

(* The lock file of a matter is locked by exactly the worker that has it open. *)
LockOK ==
    \A p \in Procs, m \in Matters :
        lock[m] = p <=> wpc[p] \in Holding /\ MatterOf[wcmd[p].job] = m

(* From the acceptance of a job to its final state the slot names it. *)
ActiveOK ==
    \A p \in Procs :
        wpc[p] \in {"reopen", "publish", "run", "stop_poller", "finalize"} =>
            active[p] = wcmd[p].job

OwnerInv == LockOK /\ ActiveOK

(* A step that leaves what the ownership of matters depends on. *)
LEMMA OwnerStutter ==
    ASSUME OwnerInv, lock' = lock, wpc' = wpc, wcmd' = wcmd, active' = active
    PROVE  OwnerInv'
  BY DEF OwnerInv, LockOK, ActiveOK

(* A step of p's worker that neither takes nor gives up a lock. *)
LEMMA OwnerMoves ==
    ASSUME TypeInv, OwnerInv, NEW p \in Procs, NEW pc,
           lock' = lock, wpc' = [wpc EXCEPT ![p] = pc],
           \A q \in Procs \ {p} : wcmd'[q] = wcmd[q] /\ active'[q] = active[q],
           \/ wpc[p] \in Holding /\ pc \in Holding /\ wcmd'[p] = wcmd[p]
           \/ wpc[p] \notin Holding /\ pc \notin Holding,
           pc \in {"reopen", "publish", "run", "stop_poller", "finalize"} =>
              active'[p] = wcmd'[p].job
    PROVE  OwnerInv'
  <1>1. LockOK'
    BY DEF TypeInv, TypeOK, OwnerInv, LockOK
  <1>2. ActiveOK'
    BY DEF TypeInv, TypeOK, OwnerInv, ActiveOK
  <1> QED BY <1>1, <1>2 DEF OwnerInv

(* Every step keeps lock, active slot and worker in agreement. *)
LEMMA OwnerNext == TypeInv /\ OwnerInv /\ [Next]_vars => OwnerInv'
  <1> SUFFICES ASSUME TypeInv, OwnerInv, [Next]_vars PROVE OwnerInv'
    OBVIOUS
  <1> USE DEF durable, workerVars, progressVars, clientVars
  <1>1. ASSUME NEW c \in Clients, ClientCall(c) \/ ClientStep(c) PROVE OwnerInv'
    BY <1>1, OwnerStutter DEF ClientCall, ClientStep, CallStart, CallResume, CallCancel,
       CallShutdown, EnterAccept, Send, Return, TakeSender, JoinWorker, ShutdownReturns
  <1>2. ASSUME NEW p \in Procs, RecvShutdown(p) PROVE OwnerInv'
    BY <1>2, OwnerMoves DEF RecvShutdown, Receive, WGoto, EmptySlot, Holding, TypeInv, TypeOK
  <1>3. ASSUME NEW p \in Procs, RecvCancel(p) PROVE OwnerInv'
    BY <1>3, OwnerStutter DEF RecvCancel
  <1>4. ASSUME NEW p \in Procs, NEW op \in {"start", "resume"}, RecvJob(p, op) PROVE OwnerInv'
    <2>1. CASE RecvRefusal(p, op) # None
      BY <1>4, <2>1, OwnerStutter DEF RecvJob
    <2>2. CASE RecvRefusal(p, op) = None
      BY <1>4, <2>2, OwnerMoves DEF RecvJob, Receive, WGoto, Holding, TypeInv, TypeOK
    <2> QED BY <2>1, <2>2
  <1>5. ASSUME NEW p \in Procs, OpenMatter(p) PROVE OwnerInv'
    <2>1. wcmd[p].job \in Jobs /\ Matter(p) \in Matters /\ wcmd[p].op \in {"start", "resume"}
      BY <1>5, WorkerJob, ConstantsAssumption DEF OpenMatter, Matter, Job
    <2>2. CASE ~LockFree(Matter(p))
      BY <1>5, <2>2, OwnerMoves DEF OpenMatter, WGoto, Holding, TypeInv, TypeOK
    <2>3. CASE LockFree(Matter(p))
      <3>1. /\ lock' = [lock EXCEPT ![Matter(p)] = p] /\ lock[Matter(p)] = None
            /\ wpc' = [wpc EXCEPT ![p] = wcmd[p].op] /\ wcmd' = wcmd /\ active' = active
        BY <1>5, <2>3 DEF OpenMatter, WGoto, LockFree
      <3>2. LockOK'
        <4> SUFFICES ASSUME NEW q \in Procs, NEW m \in Matters
                     PROVE  (lock[m] = q <=> wpc[q] \in Holding /\ MatterOf[wcmd[q].job] = m)'
          BY DEF LockOK
        <4>1. CASE q = p
          BY <1>5, <2>1, <3>1, <4>1 DEF OpenMatter, Holding, Matter, Job, TypeInv, TypeOK,
             OwnerInv, LockOK
        <4>2. CASE q # p
          BY <2>1, <3>1, <4>2, NoneAssumption DEF TypeInv, TypeOK, OwnerInv, LockOK
        <4> QED BY <4>1, <4>2
      <3>3. ActiveOK'
        BY <2>1, <3>1 DEF TypeInv, TypeOK, OwnerInv, ActiveOK
      <3> QED BY <3>2, <3>3 DEF OwnerInv
    <2> QED BY <2>2, <2>3
  <1>6. ASSUME NEW p \in Procs, StartAccept(p) \/ StartSetRunning(p) PROVE OwnerInv'
    BY <1>6, OwnerMoves DEF StartAccept, StartSetRunning, WGoto, Holding, TypeInv, TypeOK
  <1>7. ASSUME NEW p \in Procs, StartActivate(p) PROVE OwnerInv'
    BY <1>7, OwnerMoves DEF StartActivate, Activate, Job, WGoto, Holding, TypeInv, TypeOK
  <1>8. ASSUME NEW p \in Procs, ResumeAccept(p) PROVE OwnerInv'
    BY <1>8, OwnerMoves DEF ResumeAccept, Activate, Job, WGoto, Holding, TypeInv, TypeOK
  <1>9. ASSUME NEW p \in Procs, ResumeReopen(p) PROVE OwnerInv'
    <2>1. PICK pc \in {"reopen", "publish", "abandon"} :
             /\ wpc' = [wpc EXCEPT ![p] = pc]
             /\ pc # "abandon" => active' = active
      BY <1>9 DEF ResumeReopen, WGoto
    <2>2. /\ wpc[p] = "reopen" /\ lock' = lock /\ wcmd' = wcmd
          /\ \A q \in Procs \ {p} : active'[q] = active[q]
      BY <1>9 DEF ResumeReopen, SlotAfterFailedReopen, EmptySlot, TypeInv, TypeOK
    <2>3. active[p] = wcmd[p].job
      BY <2>2 DEF OwnerInv, ActiveOK
    <2> QED BY <2>1, <2>2, <2>3, OwnerMoves DEF Holding
  <1>10. ASSUME NEW p \in Procs,
                PublishStarted(p) \/ JoinPoller(p) \/ \E out \in Outcomes : HandlerReturns(p, out)
         PROVE OwnerInv'
    BY <1>10, OwnerMoves DEF PublishStarted, JoinPoller, HandlerReturns, WGoto, Holding,
       TypeInv, TypeOK, OwnerInv, ActiveOK
  <1>11. ASSUME NEW p \in Procs, FinalizeJob(p) PROVE OwnerInv'
    BY <1>11, OwnerMoves DEF FinalizeJob, SlotAfterFinalize, WGoto, Holding, TypeInv, TypeOK
  <1>12. ASSUME NEW p \in Procs, DropMatter(p) PROVE OwnerInv'
    <2>1. wcmd[p].job \in Jobs /\ Matter(p) \in Matters /\ lock[Matter(p)] = p
      BY <1>12, WorkerJob, ConstantsAssumption DEF DropMatter, Matter, Job, OwnerInv, LockOK,
         Holding
    <2>2. LockOK'
      BY <1>12, <2>1, NoneAssumption
         DEF DropMatter, Matter, Job, WGoto, Holding, TypeInv, TypeOK, OwnerInv, LockOK
    <2>3. ActiveOK'
      BY <1>12 DEF DropMatter, WGoto, TypeInv, TypeOK, OwnerInv, ActiveOK
    <2> QED BY <2>2, <2>3 DEF OwnerInv
  <1>13. ASSUME NEW p \in Procs, ClearActive(p) PROVE OwnerInv'
    BY <1>13, OwnerMoves DEF ClearActive, EmptySlot, WGoto, Holding, TypeInv, TypeOK
  <1>14. ASSUME NEW p \in Procs, PollerStep(p) \/ \E s \in {"succeeded", "paused", "failed"} : StageWrites(p, s)
         PROVE OwnerInv'
    BY <1>14, OwnerStutter DEF PollerStep, PollerExits, PatchClones, PatchSends, StageWrites
  <1>15. ASSUME NEW p \in Procs, Restart(p) PROVE OwnerInv'
    BY <1>15, NoneAssumption DEF Restart, Holding, TypeInv, TypeOK, OwnerInv, LockOK, ActiveOK
  <1>16. ASSUME NEW j \in Jobs, CliJobCancel(j) PROVE OwnerInv'
    BY <1>16, OwnerStutter DEF CliJobCancel
  <1>17. CASE UNCHANGED vars
    BY <1>17, OwnerStutter DEF vars
  <1> QED
    BY <1>1, <1>2, <1>3, <1>4, <1>5, <1>6, <1>7, <1>8, <1>9, <1>10, <1>11, <1>12, <1>13, <1>14,
       <1>15, <1>16, <1>17
       DEF Next, WorkerStep, HandlerStep

----------------------------------------------------------------------------
(* A worker about to make a row Running has seen that no other row of the   *)
(* matter is, and nobody can change that while it holds the lock.           *)
AloneOK ==
    \A p \in Procs : wpc[p] \in {"set_running", "reopen"} =>
        \A j \in Jobs : rows[j] = "running" /\ MatterOf[j] = MatterOf[wcmd[p].job]
                            => j = wcmd[p].job

(* OneRunningRowPerMatter, unfolded. *)
OneRunning ==
    \A i, j \in Jobs : rows[i] = "running" /\ rows[j] = "running" /\ MatterOf[i] = MatterOf[j]
                           => i = j

FlightInv == AloneOK /\ OneRunning

(* The form of single-flight used in the proof is the property checked. *)
LEMMA OneRunningUnfolded == OneRunning <=> OneRunningRowPerMatter
  BY ConstantsAssumption DEF OneRunning, OneRunningRowPerMatter, RunningRows, JobsOf

(* A step that makes no row Running and brings no worker to a point from     *)
(* which it would.                                                           *)
LEMMA FlightKept ==
    ASSUME FlightInv,
           \A j \in Jobs : rows'[j] = "running" => rows[j] = "running",
           \A q \in Procs : wpc'[q] \in {"set_running", "reopen"} =>
               wpc[q] \in {"set_running", "reopen"} /\ wcmd'[q] = wcmd[q]
    PROVE  FlightInv'
  BY DEF FlightInv, AloneOK, OneRunning

(* What set_job_state may write, seen from the Running rows. *)
LEMMA SetRunning ==
    ASSUME TypeOK, NEW j \in Jobs, NEW to
    PROVE  \A i \in Jobs : SetJobState(rows, j, to)[i] = "running" =>
              rows[i] = "running" \/ (i = j /\ to = "running")
  BY DEF SetJobState, TypeOK

(* Two workers in their accept phase are in different matters. *)
LEMMA OtherMatter ==
    ASSUME TypeInv, OwnerInv, NEW p \in Procs, NEW q \in Procs, p # q,
           wpc[p] \in Holding, wpc[q] \in Holding
    PROVE  MatterOf[wcmd[p].job] # MatterOf[wcmd[q].job]
  BY WorkerJob, ConstantsAssumption DEF OwnerInv, LockOK, Holding

(* The step that makes p's row Running. *)
LEMMA FlightRuns ==
    ASSUME TypeInv, OwnerInv, FlightInv, NEW p \in Procs,
           wpc[p] \in {"set_running", "reopen"}, wcmd' = wcmd,
           \A i \in Jobs : rows'[i] = "running" => rows[i] = "running" \/ i = wcmd[p].job,
           \A q \in Procs \ {p} : wpc'[q] = wpc[q]
    PROVE  FlightInv'
  <1>1. wcmd[p].job \in Jobs
    BY WorkerJob
  <1>2. \A j \in Jobs : rows'[j] = "running" /\ MatterOf[j] = MatterOf[wcmd[p].job] => j = wcmd[p].job
    BY DEF FlightInv, AloneOK
  <1>3. OneRunning'
    BY <1>1, <1>2 DEF FlightInv, OneRunning
  <1>4. AloneOK'
    <2> SUFFICES ASSUME NEW q \in Procs, wpc'[q] \in {"set_running", "reopen"}, NEW j \in Jobs,
                        rows'[j] = "running", MatterOf[j] = MatterOf[wcmd[q].job]
                 PROVE  j = wcmd[q].job
      BY DEF AloneOK
    <2>1. CASE q = p
      BY <1>2, <2>1
    <2>2. CASE q # p
      <3>1. wpc[q] \in {"set_running", "reopen"}
        BY <2>2
      <3>2. j # wcmd[p].job
        BY <2>2, <3>1, OtherMatter DEF Holding
      <3> QED BY <3>1, <3>2 DEF FlightInv, AloneOK
    <2> QED BY <2>1, <2>2
  <1> QED BY <1>3, <1>4 DEF FlightInv

(* If list_jobs answers, every step keeps one Running row per matter. *)
LEMMA FlightNext ==
    ASSUME "list" \notin StoreFaults
    PROVE  TypeInv /\ OwnerInv /\ FlightInv /\ [Next]_vars => FlightInv'
  <1> SUFFICES ASSUME TypeInv, OwnerInv, FlightInv, [Next]_vars PROVE FlightInv'
    OBVIOUS
  <1> USE DEF durable, workerVars, progressVars, clientVars
  <1>1. ASSUME NEW c \in Clients, ClientCall(c) \/ ClientStep(c) PROVE FlightInv'
    BY <1>1, FlightKept DEF ClientCall, ClientStep, CallStart, CallResume, CallCancel,
       CallShutdown, EnterAccept, Send, Return, TakeSender, JoinWorker, ShutdownReturns
  <1>2. ASSUME NEW p \in Procs,
               \/ RecvShutdown(p) \/ RecvCancel(p) \/ StartActivate(p) \/ PublishStarted(p)
               \/ JoinPoller(p) \/ DropMatter(p) \/ ClearActive(p)
               \/ \E op \in {"start", "resume"} : RecvJob(p, op)
               \/ \E out \in Outcomes : HandlerReturns(p, out)
        PROVE  FlightInv'
    <2>1. rows' = rows
      BY <1>2 DEF RecvShutdown, RecvCancel, RecvJob, StartActivate, PublishStarted, JoinPoller,
         DropMatter, ClearActive, HandlerReturns
    <2>2. \A q \in Procs : wpc'[q] \in {"set_running", "reopen"} =>
             wpc[q] \in {"set_running", "reopen"} /\ wcmd'[q] = wcmd[q]
      BY <1>2 DEF RecvShutdown, RecvCancel, RecvJob, Receive, StartActivate, PublishStarted,
         JoinPoller, DropMatter, ClearActive, HandlerReturns, WGoto, TypeInv, TypeOK
    <2> QED BY <2>1, <2>2, FlightKept
  <1>3. ASSUME NEW p \in Procs, OpenMatter(p) PROVE FlightInv'
    <2>1. wcmd[p].op \in {"start", "resume"}
      BY <1>3, WorkerJob DEF OpenMatter
    <2> QED BY <1>3, <2>1, FlightKept DEF OpenMatter, WGoto, TypeInv, TypeOK
  <1>4. ASSUME NEW p \in Procs, StartAccept(p) PROVE FlightInv'
    <2>1. wcmd[p].job \in Jobs
      BY <1>4, WorkerJob DEF StartAccept
    <2>2. CASE wpc'[p] # "set_running"
      <3>1. rows' = rows
        BY <1>4, <2>2 DEF StartAccept, WGoto, TypeInv, TypeOK
      <3> QED BY <1>4, <2>2, <3>1, FlightKept DEF StartAccept, WGoto, TypeInv, TypeOK
    <2>3. CASE wpc'[p] = "set_running"
      <3>1. \A j \in Jobs : MatterOf[j] = MatterOf[wcmd[p].job] => rows[j] # "running"
        BY <1>4, <2>3 DEF StartAccept, Blocked, RunningRows, JobsOf, Matter, Job, WGoto,
           TypeInv, TypeOK
      <3>2. \A j \in Jobs : rows'[j] = "running" => rows[j] = "running"
        BY <1>4, <2>1, <2>3 DEF StartAccept, CreateJob, Job, WGoto, TypeInv, TypeOK
      <3>3. wcmd' = wcmd /\ \A q \in Procs \ {p} : wpc'[q] = wpc[q]
        BY <1>4 DEF StartAccept, WGoto, TypeInv, TypeOK
      <3> QED BY <3>1, <3>2, <3>3 DEF FlightInv, AloneOK, OneRunning
    <2> QED BY <2>2, <2>3
  <1>5. ASSUME NEW p \in Procs, StartSetRunning(p) PROVE FlightInv'
    <2>1. wcmd[p].job \in Jobs
      BY <1>5, WorkerJob DEF StartSetRunning
    <2>2. \A i \in Jobs : rows'[i] = "running" => rows[i] = "running" \/ i = wcmd[p].job
      BY <1>5, <2>1, SetRunning DEF StartSetRunning, Job, TypeInv
    <2> QED BY <1>5, <2>2, FlightRuns DEF StartSetRunning, WGoto, TypeInv, TypeOK
  <1>6. ASSUME NEW p \in Procs, ResumeAccept(p) PROVE FlightInv'
    <2>1. rows' = rows /\ wcmd' = wcmd /\ \A q \in Procs \ {p} : wpc'[q] = wpc[q]
      BY <1>6 DEF ResumeAccept, WGoto, TypeInv, TypeOK
    <2>2. CASE wpc'[p] # "reopen"
      BY <1>6, <2>1, <2>2, FlightKept DEF ResumeAccept, WGoto, TypeInv, TypeOK
    <2>3. CASE wpc'[p] = "reopen"
      <3>1. ~Blocked(p, {Job(p)})
        BY <1>6, <2>3, NoneAssumption DEF ResumeAccept, ResumeRefusal, Replies, WGoto,
           TypeInv, TypeOK
      <3>2. \A j \in Jobs : rows[j] = "running" /\ MatterOf[j] = MatterOf[wcmd[p].job] => j = wcmd[p].job
        BY <3>1 DEF Blocked, RunningRows, JobsOf, Matter, Job
      <3> QED BY <2>1, <3>2 DEF FlightInv, AloneOK, OneRunning
    <2> QED BY <2>2, <2>3
  <1>7. ASSUME NEW p \in Procs, ResumeReopen(p) PROVE FlightInv'
    <2>1. wcmd[p].job \in Jobs
      BY <1>7, WorkerJob DEF ResumeReopen
    <2>2. \A i \in Jobs : rows'[i] = "running" => rows[i] = "running" \/ i = wcmd[p].job
      BY <1>7, <2>1, SetRunning DEF ResumeReopen, Job, TypeInv
    <2>3. wcmd' = wcmd /\ wpc[p] = "reopen" /\ \A q \in Procs \ {p} : wpc'[q] = wpc[q]
      BY <1>7 DEF ResumeReopen, WGoto, TypeInv, TypeOK
    <2> QED BY <2>2, <2>3, FlightRuns
  <1>8. ASSUME NEW p \in Procs, FinalizeJob(p) PROVE FlightInv'
    <2>1. wcmd[p].job \in Jobs /\ FinalState(p) # "running"
      BY <1>8, WorkerJob DEF FinalizeJob, FinalState, MapOutcome, Outcomes, TypeInv, TypeOK
    <2>2. \A i \in Jobs : rows'[i] = "running" => rows[i] = "running"
      BY <1>8, <2>1, SetRunning DEF FinalizeJob, Job, TypeInv
    <2> QED BY <1>8, <2>2, FlightKept DEF FinalizeJob, WGoto, TypeInv, TypeOK
  <1>9. ASSUME NEW p \in Procs, NEW s \in {"succeeded", "paused", "failed"}, StageWrites(p, s)
        PROVE FlightInv'
    <2>1. wcmd[p].job \in Jobs
      BY <1>9, WorkerJob DEF StageWrites
    <2>2. \A i \in Jobs : rows'[i] = "running" => rows[i] = "running"
      BY <1>9, <2>1, SetRunning DEF StageWrites, Job, TypeInv
    <2> QED BY <1>9, <2>2, FlightKept DEF StageWrites
  <1>10. ASSUME NEW p \in Procs, PollerStep(p) PROVE FlightInv'
    BY <1>10, FlightKept DEF PollerStep, PollerExits, PatchClones, PatchSends
  <1>11. ASSUME NEW p \in Procs, Restart(p) PROVE FlightInv'
    BY <1>11, FlightKept DEF Restart, TypeInv, TypeOK
  <1>12. ASSUME NEW j \in Jobs, CliJobCancel(j) PROVE FlightInv'
    <2>1. \A i \in Jobs : rows'[i] = "running" => rows[i] = "running"
      BY <1>12, SetRunning DEF CliJobCancel, TypeInv
    <2> QED BY <1>12, <2>1, FlightKept DEF CliJobCancel
  <1>13. CASE UNCHANGED vars
    BY <1>13, FlightKept DEF vars
  <1> QED
    BY <1>1, <1>2, <1>3, <1>4, <1>5, <1>6, <1>7, <1>8, <1>9, <1>10, <1>11, <1>12, <1>13
       DEF Next, WorkerStep, HandlerStep

----------------------------------------------------------------------------
(* The lock, the active slot and the command of a worker agree: whoever runs *)
(* a handler has the matter to itself and can be reached by cancel.          *)
THEOREM HandlerOwnsMatterTheorem == Spec => []HandlerOwnsMatter
  <1>1. Init => OwnerInv
    BY NoneAssumption, ConstantsAssumption DEF Init, OwnerInv, LockOK, ActiveOK, Holding
  <1>2. TypeInv /\ OwnerInv => HandlerOwnsMatter
    BY WorkerJob, ConstantsAssumption
       DEF OwnerInv, LockOK, ActiveOK, Holding, HandlerOwnsMatter, Matter, Job
  <1> QED BY <1>1, <1>2, TypeInit, TypeNext, OwnerNext, PTL DEF Spec

(* Durable single-flight: as long as list_jobs can be read, no interleaving   *)
(* of processes, restarts, failed writes and CLI cancels gives a matter two   *)
(* Running rows.                                                              *)
THEOREM SingleFlight ==
    ASSUME "list" \notin StoreFaults
    PROVE  Spec => []OneRunningRowPerMatter
  <1>1. Init => OwnerInv /\ FlightInv
    BY NoneAssumption, ConstantsAssumption
       DEF Init, OwnerInv, LockOK, ActiveOK, Holding, FlightInv, AloneOK, OneRunning, NoRow
  <1>2. FlightInv => OneRunningRowPerMatter
    BY OneRunningUnfolded DEF FlightInv
  <1>3. TypeInv /\ OwnerInv /\ FlightInv /\ [Next]_vars => FlightInv'
    BY FlightNext
  <1> QED BY <1>1, <1>2, <1>3, TypeInit, TypeNext, OwnerNext, PTL DEF Spec

===========================================================================
