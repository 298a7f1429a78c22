------------------------ MODULE RunnerCalls_proofs ------------------------
(***************************************************************************)
(* Proofs about the calls of ProcessRunner: what the accept mutex, the     *)
(* command channel, the join of the worker and the join of the poller      *)
(* guarantee to the threads that call start, resume, cancel and shutdown.  *)
(***************************************************************************)
EXTENDS ProcessRunner_proofs

(* The program counters of a worker that has taken a start or resume command *)
(* and not answered it yet.                                                  *)
Deciding == {"open", "start", "set_running", "activate", "resume", "reopen", "publish"}

(* A client holding accept whose start or resume has not been answered. *)
Pending(c) ==
    cpc[c] \in {"send", "wait"} /\ reply[c] = None /\ call[c].op \in {"start", "resume"}

(* Only a client that waits may have a reply. *)
ReplyOK == \A c \in Clients : cpc[c] # "wait" => reply[c] = None

(* The client of an unanswered command waits for it, in this process. *)
Waits(p, cmd) ==
    LET c == cmd.client IN
    c \in ClientsOf(p) /\ cpc[c] = "wait" /\ reply[c] = None /\ call[c] = cmd

(* Whoever queued a command waits for its answer, and queued nothing else. *)
QueuedOK ==
    \A p \in Procs : \A i \in 1..Len(chan[p]) : chan[p][i].op # "shutdown" =>
        /\ Waits(p, chan[p][i])
        /\ \A k \in 1..Len(chan[p]) :
              chan[p][k].op # "shutdown" /\ chan[p][k].client = chan[p][i].client => k = i

(* So does the caller of the command the worker decides on. *)
DecidedOK ==
    \A p \in Procs : wpc[p] \in Deciding =>
        /\ Waits(p, wcmd[p])
        /\ \A i \in 1..Len(chan[p]) :
              chan[p][i].op # "shutdown" => chan[p][i].client # wcmd[p].client

(* start and resume hold accept from the check of the slot to the answer. *)
AcceptOK ==
    \A c \in Clients :
        cpc[c] \in {"send", "wait"} /\ call[c].op \in {"start", "resume"} => accept[ProcOf[c]] = c

(* While such a call is open the slot is empty, until the worker fills it for *)
(* that very call.                                                            *)
SlotOK ==
    \A c \in Clients :
        Pending(c) /\ wpc[ProcOf[c]] \notin {"reopen", "publish"} => active[ProcOf[c]] = None

CallsInv == ReplyOK /\ QueuedOK /\ DecidedOK /\ AcceptOK /\ SlotOK

(* A step of p's worker that answers nobody and takes nothing off the channel. *)
LEMMA CallsKept ==
    ASSUME TypeInv, CallsInv, NEW p \in Procs,
           chan' = chan, cpc' = cpc, call' = call, accept' = accept, reply' = reply,
           \A q \in Procs \ {p} : wpc'[q] = wpc[q] /\ wcmd'[q] = wcmd[q] /\ active'[q] = active[q],
           wpc'[p] \in Deciding => wpc[p] \in Deciding /\ wcmd'[p] = wcmd[p],
           \/ active'[p] = None
           \/ wpc'[p] \in {"reopen", "publish"}
           \/ wpc[p] \notin {"reopen", "publish"} /\ active'[p] = active[p]
    PROVE  CallsInv'
  <1>1. ReplyOK' /\ AcceptOK' /\ QueuedOK'
    BY DEF CallsInv, ReplyOK, AcceptOK, QueuedOK, Waits
  <1>2. DecidedOK'
    BY DEF CallsInv, DecidedOK, Waits
  <1>3. SlotOK'
    BY ConstantsAssumption DEF CallsInv, SlotOK, Pending
  <1> QED BY <1>1, <1>2, <1>3 DEF CallsInv

(* While the worker decides on a command, its caller is the one that holds   *)
(* accept and no other client of the process has a start or resume open.     *)
LEMMA DecidedCaller ==
    ASSUME TypeInv, CallsInv, NEW p \in Procs, wpc[p] \in Deciding
    PROVE  /\ Waits(p, wcmd[p]) /\ wcmd[p].client \in Clients
           /\ accept[p] = wcmd[p].client
           /\ \A c \in ClientsOf(p) : Pending(c) => c = wcmd[p].client
  <1>1. Waits(p, wcmd[p])
    BY DEF CallsInv, DecidedOK
  <1>2. wcmd[p].client \in Clients /\ wcmd[p].op \in {"start", "resume"}
    BY WorkerJob DEF Deciding
  <1>3. accept[p] = wcmd[p].client
    BY <1>1, <1>2 DEF Waits, ClientsOf, CallsInv, AcceptOK
  <1>4. \A c \in ClientsOf(p) : Pending(c) => c = wcmd[p].client
    BY <1>3 DEF ClientsOf, Pending, CallsInv, AcceptOK
  <1> QED BY <1>1, <1>2, <1>3, <1>4

(* The worker answers the command it decided on and is done with it. *)
LEMMA CallsDecided ==
    ASSUME TypeInv, CallsInv, NEW p \in Procs, NEW res \in Replies,
           chan' = chan, cpc' = cpc, call' = call, accept' = accept,
           wpc[p] \in Deciding, wpc'[p] \notin Deciding,
           reply' = [reply EXCEPT ![wcmd[p].client] = res],
           \A q \in Procs \ {p} : wpc'[q] = wpc[q] /\ wcmd'[q] = wcmd[q] /\ active'[q] = active[q]
    PROVE  CallsInv'
  <1>1. /\ Waits(p, wcmd[p]) /\ wcmd[p].client \in Clients
        /\ \A c \in ClientsOf(p) : Pending(c) => c = wcmd[p].client
    BY DecidedCaller
  <1>2. /\ \A c \in Clients \ {wcmd[p].client} : reply'[c] = reply[c]
        /\ reply'[wcmd[p].client] # None
    BY <1>1, NoneAssumption DEF TypeInv, TypeOK
  <1>3. ReplyOK'
    BY <1>1, <1>2 DEF CallsInv, ReplyOK, Waits
  <1>4. AcceptOK'
    BY DEF CallsInv, AcceptOK
  <1>5. QueuedOK'
    BY <1>1, <1>2 DEF CallsInv, QueuedOK, DecidedOK, Waits, ClientsOf
  <1>6. DecidedOK'
    BY <1>1, <1>2 DEF CallsInv, DecidedOK, Waits, ClientsOf
  <1>7. SlotOK'
    BY <1>1, <1>2, ConstantsAssumption DEF CallsInv, SlotOK, Pending, ClientsOf
  <1> QED BY <1>3, <1>4, <1>5, <1>6, <1>7 DEF CallsInv

(* A step of client c that queues nothing, when c is not waiting for an answer. *)
LEMMA CallsMoved ==
    ASSUME TypeInv, CallsInv, NEW c \in Clients,
           chan' = chan, wpc' = wpc, wcmd' = wcmd, active' = active,
           ~(cpc[c] = "wait" /\ reply[c] = None),
           \A d \in Clients \ {c} : /\ cpc'[d] = cpc[d] /\ call'[d] = call[d] /\ reply'[d] = reply[d]
                                    /\ accept[ProcOf[d]] = d => accept'[ProcOf[d]] = d,
           cpc'[c] # "wait" => reply'[c] = None,
           cpc'[c] \in {"send", "wait"} /\ call'[c].op \in {"start", "resume"} =>
               /\ accept'[ProcOf[c]] = c
               /\ reply'[c] = None => active[ProcOf[c]] = None
    PROVE  CallsInv'
  <1>1. ReplyOK'
    BY DEF CallsInv, ReplyOK
  <1>2. AcceptOK'
    BY DEF CallsInv, AcceptOK
  <1>3. QueuedOK'
    BY DEF CallsInv, QueuedOK, Waits, ClientsOf
  <1>4. DecidedOK'
    BY DEF CallsInv, DecidedOK, Waits, ClientsOf
  <1>5. SlotOK'
    BY DEF CallsInv, SlotOK, Pending
  <1> QED BY <1>1, <1>2, <1>3, <1>4, <1>5 DEF CallsInv

(* What is in the channel after a command was queued. *)
LEMMA Queued ==
    ASSUME TypeInv, NEW p \in Procs, NEW cmd \in Command,
           chan' = [chan EXCEPT ![p] = Append(@, cmd)]
    PROVE  \A q \in Procs : \A i \in 1..Len(chan'[q]) :
              \/ i \in 1..Len(chan[q]) /\ chan'[q][i] = chan[q][i]
              \/ q = p /\ i = Len(chan[p]) + 1 /\ chan'[q][i] = cmd
  <1>1. chan \in [Procs -> Seq(Command)] /\ chan[p] \in Seq(Command)
    BY DEF TypeInv, TypeOK
  <1>2. /\ Len(Append(chan[p], cmd)) = Len(chan[p]) + 1
        /\ Append(chan[p], cmd)[Len(chan[p]) + 1] = cmd
        /\ \A i \in 1..Len(chan[p]) : Append(chan[p], cmd)[i] = chan[p][i]
    BY <1>1, AppendProperties
  <1>3. Len(chan[p]) \in Nat
    BY <1>1, LenProperties
  <1> QED BY <1>1, <1>2, <1>3

(* What is left in it after worker_loop has taken the head. *)
LEMMA Dequeued ==
    ASSUME TypeInv, NEW p \in Procs, NEW op, Receive(p, op)
    PROVE  /\ 1 \in 1..Len(chan[p]) /\ Head(chan[p]) = chan[p][1]
           /\ \A i \in 1..Len(chan'[p]) : i + 1 \in 2..Len(chan[p]) /\ chan'[p][i] = chan[p][i + 1]
           /\ \A q \in Procs \ {p} : chan'[q] = chan[q]
  <1>1. chan \in [Procs -> Seq(Command)] /\ chan[p] \in Seq(Command) /\ chan[p] # << >>
    BY DEF TypeInv, TypeOK, Receive
  <1>2. chan' = [chan EXCEPT ![p] = Tail(@)]
    BY DEF Receive
  <1>3. Len(chan[p]) \in Nat /\ Len(chan[p]) >= 1
    BY <1>1, EmptySeq, LenProperties
  <1>4. /\ Head(chan[p]) = chan[p][1]
        /\ Len(Tail(chan[p])) = Len(chan[p]) - 1
        /\ \A i \in 1..(Len(chan[p]) - 1) : Tail(chan[p])[i] = chan[p][i + 1]
    BY <1>1, <1>3, HeadTailProperties
  <1> QED BY <1>1, <1>2, <1>3, <1>4

(* send: the caller starts to wait for what it queued. *)
LEMMA CallsSent == ASSUME TypeInv, CallsInv, NEW c \in Clients, Send(c) PROVE CallsInv'
  <1> DEFINE p == ProcOf[c]
  <1>1. p \in Procs /\ call[c] \in JobCommand /\ call[c] \in Command /\ call[c].client = c
    BY CommandTypes, ConstantsAssumption DEF Send, TypeInv, CallOK
  <1>2. /\ cpc[c] = "send" /\ reply[c] = None /\ cpc' = [cpc EXCEPT ![c] = "wait"]
        /\ call' = call /\ accept' = accept /\ wpc' = wpc /\ wcmd' = wcmd /\ active' = active
    BY DEF Send, Goto, CallsInv, ReplyOK, workerVars
  <1>3. CASE ~tx[p]
    <2>1. reply' = [reply EXCEPT ![c] = "shut_down"] /\ chan' = chan
      BY <1>3 DEF Send, Answer
    <2>2. "shut_down" # None
      BY NoneAssumption DEF Replies
    <2> QED BY <1>1, <1>2, <2>1, <2>2, CallsMoved DEF TypeInv, TypeOK, CallsInv, AcceptOK
  <1>4. CASE tx[p]
    <2>1. reply' = reply /\ chan' = [chan EXCEPT ![p] = Append(@, call[c])]
      BY <1>4 DEF Send
    <2>2. \A q \in Procs : \A i \in 1..Len(chan'[q]) :
              \/ i \in 1..Len(chan[q]) /\ chan'[q][i] = chan[q][i]
              \/ q = p /\ i = Len(chan[p]) + 1 /\ chan'[q][i] = call[c]
      BY <1>1, <2>1, Queued
    <2>3. cpc'[c] = "wait" /\ \A d \in Clients \ {c} : cpc'[d] = cpc[d]
      BY <1>2 DEF TypeInv, TypeOK
    <2>4. ReplyOK' /\ AcceptOK' /\ SlotOK'
      BY <1>2, <2>1, <2>3 DEF CallsInv, ReplyOK, AcceptOK, SlotOK, Pending
    <2>5. QueuedOK'
      <3>1. ASSUME NEW q \in Procs, NEW i \in 1..Len(chan'[q]), chan'[q][i].op # "shutdown"
            PROVE  Waits(q, chan[q][i])'
        BY <1>1, <1>2, <2>1, <2>2, <2>3, <3>1 DEF CallsInv, QueuedOK, Waits, ClientsOf
      <3>2. ASSUME NEW q \in Procs, NEW i \in 1..Len(chan'[q]), NEW k \in 1..Len(chan'[q]),
                   chan'[q][i].op # "shutdown", chan'[q][k].op # "shutdown",
                   chan'[q][k].client = chan'[q][i].client
            PROVE  k = i
        <4>1. \A n \in 1..Len(chan[q]) : chan[q][n].op # "shutdown" => chan[q][n].client # c
          BY <1>2 DEF CallsInv, QueuedOK, Waits
        <4> QED BY <1>1, <2>2, <3>2, <4>1 DEF CallsInv, QueuedOK
      <3> QED BY <3>1, <3>2 DEF QueuedOK
    <2>6. DecidedOK'
      BY <1>1, <1>2, <2>1, <2>2, <2>3 DEF CallsInv, DecidedOK, Waits, ClientsOf
    <2> QED BY <2>4, <2>5, <2>6 DEF CallsInv
  <1> QED BY <1>3, <1>4

(* shutdown queues a command nobody waits for. *)
LEMMA CallsTaken == ASSUME TypeInv, CallsInv, NEW c \in Clients, TakeSender(c) PROVE CallsInv'
  <1> DEFINE p == ProcOf[c]
  <1>1. p \in Procs /\ call[c] \in Command /\ call[c].op = "shutdown"
    BY CommandTypes, ConstantsAssumption DEF TakeSender, TypeInv, CallOK, ShutdownCommand
  <1>2. /\ cpc[c] = "take" /\ reply' = reply
        /\ cpc'[c] = "join" /\ \A d \in Clients \ {c} : cpc'[d] = cpc[d]
        /\ call' = call /\ accept' = accept /\ wpc' = wpc /\ wcmd' = wcmd /\ active' = active
    BY DEF TakeSender, Goto, workerVars, TypeInv, TypeOK
  <1>3. \A q \in Procs : \A i \in 1..Len(chan'[q]) :
            chan'[q][i].op # "shutdown" => i \in 1..Len(chan[q]) /\ chan'[q][i] = chan[q][i]
    BY <1>1, Queued DEF TakeSender
  <1>4. ReplyOK' /\ AcceptOK' /\ SlotOK'
    BY <1>2 DEF CallsInv, ReplyOK, AcceptOK, SlotOK, Pending
  <1>5. QueuedOK'
    <2>1. ASSUME NEW q \in Procs, NEW i \in 1..Len(chan'[q]), chan'[q][i].op # "shutdown"
          PROVE  Waits(q, chan[q][i])'
      BY <1>2, <1>3, <2>1 DEF CallsInv, QueuedOK, Waits, ClientsOf
    <2>2. ASSUME NEW q \in Procs, NEW i \in 1..Len(chan'[q]), NEW k \in 1..Len(chan'[q]),
                 chan'[q][i].op # "shutdown", chan'[q][k].op # "shutdown",
                 chan'[q][k].client = chan'[q][i].client
          PROVE  k = i
      BY <1>3, <2>2 DEF CallsInv, QueuedOK
    <2> QED BY <2>1, <2>2 DEF QueuedOK
  <1>6. DecidedOK'
    BY <1>2, <1>3 DEF CallsInv, DecidedOK, Waits, ClientsOf
  <1> QED BY <1>4, <1>5, <1>6 DEF CallsInv

(* The commands left behind the one worker_loop has taken: their clients wait, *)
(* each for one of them, and none is the client of the command taken.          *)
LEMMA LeftBehind ==
    ASSUME TypeInv, CallsInv, NEW p \in Procs, NEW op, Receive(p, op)
    PROVE  /\ op # "shutdown" => Waits(p, Head(chan[p]))
           /\ \A q \in Procs : \A i \in 1..Len(chan'[q]) : chan'[q][i].op # "shutdown" =>
                /\ Waits(q, chan'[q][i])
                /\ op # "shutdown" => chan'[q][i].client # Head(chan[p]).client
                /\ wpc[q] \in Deciding => chan'[q][i].client # wcmd[q].client
                /\ \A k \in 1..Len(chan'[q]) :
                      chan'[q][k].op # "shutdown" /\ chan'[q][k].client = chan'[q][i].client => k = i
  <1>1. /\ 1 \in 1..Len(chan[p]) /\ Head(chan[p]) = chan[p][1]
        /\ \A i \in 1..Len(chan'[p]) : i + 1 \in 2..Len(chan[p]) /\ chan'[p][i] = chan[p][i + 1]
        /\ \A q \in Procs \ {p} : chan'[q] = chan[q]
    BY Dequeued
  <1>2. op # "shutdown" => Waits(p, Head(chan[p]))
    BY <1>1 DEF Receive, CallsInv, QueuedOK
  <1>3. ASSUME NEW q \in Procs, NEW i \in 1..Len(chan'[q]), chan'[q][i].op # "shutdown"
        PROVE  /\ Waits(q, chan'[q][i])
               /\ op # "shutdown" => chan'[q][i].client # Head(chan[p]).client
               /\ wpc[q] \in Deciding => chan'[q][i].client # wcmd[q].client
               /\ \A k \in 1..Len(chan'[q]) :
                     chan'[q][k].op # "shutdown" /\ chan'[q][k].client = chan'[q][i].client => k = i
    <2>1. CASE q = p
      <3>1. i + 1 \in 1..Len(chan[p]) /\ chan'[p][i] = chan[p][i + 1] /\ i + 1 # 1
        BY <1>1, <1>3, <2>1
      <3>2. /\ Waits(p, chan[p][i + 1])
            /\ wpc[p] \in Deciding => chan[p][i + 1].client # wcmd[p].client
        BY <1>3, <2>1, <3>1 DEF CallsInv, QueuedOK, DecidedOK
      <3>3. op # "shutdown" => chan[p][i + 1].client # chan[p][1].client
        <4>1. op # "shutdown" => chan[p][1].op # "shutdown"
          BY <1>1 DEF Receive
        <4>2. chan[p][i + 1].op # "shutdown"
          BY <1>3, <2>1, <3>1
        <4> QED BY <1>1, <3>1, <4>1, <4>2 DEF CallsInv, QueuedOK
      <3>4. ASSUME NEW k \in 1..Len(chan'[p]), chan'[p][k].op # "shutdown",
                   chan'[p][k].client = chan'[p][i].client
            PROVE  k = i
        <4>1. k + 1 \in 1..Len(chan[p]) /\ chan'[p][k] = chan[p][k + 1]
          BY <1>1, <3>4
        <4>2. k + 1 = i + 1
          BY <1>3, <2>1, <3>1, <3>4, <4>1 DEF CallsInv, QueuedOK
        <4> QED BY <2>1, <4>2
      <3> QED BY <1>1, <2>1, <3>1, <3>2, <3>3, <3>4
    <2>2. CASE q # p
      BY <1>1, <1>2, <1>3, <2>2 DEF CallsInv, QueuedOK, DecidedOK, Waits, ClientsOf
    <2> QED BY <2>1, <2>2
  <1> QED BY <1>2, <1>3

(* worker_loop answers the command it has taken at once. *)
LEMMA CallsAnswered ==
    ASSUME TypeInv, CallsInv, NEW p \in Procs, NEW op, op # "shutdown", Receive(p, op),
           NEW res \in Replies, reply' = [reply EXCEPT ![Head(chan[p]).client] = res],
           cpc' = cpc, call' = call, accept' = accept, wpc' = wpc, wcmd' = wcmd, active' = active
    PROVE  CallsInv'
  <1> DEFINE c == Head(chan[p]).client
  <1>1. Waits(p, Head(chan[p])) /\ c \in Clients
    BY LeftBehind DEF Waits, ClientsOf
  <1>2. reply'[c] # None /\ \A d \in Clients \ {c} : reply'[d] = reply[d]
    BY <1>1, NoneAssumption DEF TypeInv, TypeOK
  <1>3. ReplyOK'
    BY <1>1, <1>2 DEF CallsInv, ReplyOK, Waits
  <1>4. AcceptOK' /\ SlotOK'
    BY <1>2 DEF CallsInv, AcceptOK, SlotOK, Pending
  <1>5. QueuedOK'
    BY <1>1, <1>2, LeftBehind DEF QueuedOK, Waits, ClientsOf
  <1>6. DecidedOK'
    <2> SUFFICES ASSUME NEW q \in Procs, wpc[q] \in Deciding
                 PROVE  /\ Waits(q, wcmd[q])'
                        /\ \A i \in 1..Len(chan'[q]) :
                              chan'[q][i].op # "shutdown" => chan'[q][i].client # wcmd[q].client
      BY DEF DecidedOK
    <2>1. wcmd[q].client # c
      <3>1. CASE q = p
        BY <3>1 DEF Receive, Deciding
      <3>2. CASE q # p
        BY <1>1, <3>2 DEF CallsInv, DecidedOK, Waits, ClientsOf
      <3> QED BY <3>1, <3>2
    <2>2. Waits(q, wcmd[q])'
      BY <1>2, <2>1 DEF CallsInv, DecidedOK, Waits, ClientsOf
    <2> QED BY <2>2, LeftBehind
  <1> QED BY <1>3, <1>4, <1>5, <1>6 DEF CallsInv

(* worker_loop goes on with the command it has taken. *)
LEMMA CallsTakenUp ==
    ASSUME TypeInv, CallsInv, NEW p \in Procs, NEW op \in {"start", "resume"}, Receive(p, op),
           wpc' = [wpc EXCEPT ![p] = "open"], wcmd' = [wcmd EXCEPT ![p] = Head(chan[p])],
           cpc' = cpc, call' = call, accept' = accept, reply' = reply, active' = active
    PROVE  CallsInv'
  <1>1. /\ wpc'[p] = "open" /\ wcmd'[p] = Head(chan[p]) /\ wpc[p] = "recv"
        /\ \A q \in Procs \ {p} : wpc'[q] = wpc[q] /\ wcmd'[q] = wcmd[q]
    BY DEF Receive, TypeInv, TypeOK
  <1>2. ReplyOK' /\ AcceptOK'
    BY DEF CallsInv, ReplyOK, AcceptOK
  <1>3. SlotOK'
    BY <1>1, ConstantsAssumption DEF CallsInv, SlotOK, Pending
  <1>4. QueuedOK'
    BY LeftBehind DEF QueuedOK, Waits
  <1>5. DecidedOK'
    <2>1. Waits(p, wcmd[p])'
      BY <1>1, LeftBehind DEF Waits
    <2>2. \A i \in 1..Len(chan'[p]) :
             chan'[p][i].op # "shutdown" => chan'[p][i].client # wcmd'[p].client
      BY <1>1, LeftBehind
    <2>3. ASSUME NEW q \in Procs \ {p}, wpc'[q] \in Deciding
          PROVE  /\ Waits(q, wcmd[q])'
                 /\ \A i \in 1..Len(chan'[q]) :
                      chan'[q][i].op # "shutdown" => chan'[q][i].client # wcmd'[q].client
      <3>1. Waits(q, wcmd[q])'
        BY <1>1, <2>3 DEF CallsInv, DecidedOK, Waits
      <3> QED BY <1>1, <2>3, <3>1, LeftBehind
    <2> QED BY <2>1, <2>2, <2>3 DEF DecidedOK
  <1> QED BY <1>2, <1>3, <1>4, <1>5 DEF CallsInv

(* A process that starts over has no calls; the others keep theirs. *)
LEMMA CallsRestarted == ASSUME TypeInv, CallsInv, NEW p \in Procs, Restart(p) PROVE CallsInv'
  <1>1. /\ chan'[p] = << >> /\ wpc'[p] = "recv"
        /\ \A q \in Procs \ {p} : /\ chan'[q] = chan[q] /\ wpc'[q] = wpc[q] /\ wcmd'[q] = wcmd[q]
                                  /\ accept'[q] = accept[q] /\ active'[q] = active[q]
    BY DEF Restart, TypeInv, TypeOK
  <1>2. \A c \in Clients :
           /\ ProcOf[c] = p => cpc'[c] = "idle" /\ reply'[c] = None
           /\ ProcOf[c] # p => cpc'[c] = cpc[c] /\ call'[c] = call[c] /\ reply'[c] = reply[c]
    BY DEF Restart
  <1>3. ReplyOK'
    BY <1>2 DEF CallsInv, ReplyOK
  <1>4. AcceptOK'
    BY <1>1, <1>2, ConstantsAssumption DEF CallsInv, AcceptOK
  <1>5. SlotOK'
    BY <1>1, <1>2, ConstantsAssumption DEF CallsInv, SlotOK, Pending
  <1>6. QueuedOK'
    <2>1. \A i \in 1..Len(chan'[p]) : FALSE
      BY <1>1, EmptySeq
    <2> QED BY <1>1, <1>2, <2>1 DEF CallsInv, QueuedOK, Waits, ClientsOf
  <1>7. DecidedOK'
    BY <1>1, <1>2 DEF CallsInv, DecidedOK, Deciding, Waits, ClientsOf
  <1> QED BY <1>3, <1>4, <1>5, <1>6, <1>7 DEF CallsInv

(* Every step keeps the calls, the channel, accept and the slot in agreement. *)
LEMMA CallsNext == TypeInv /\ OwnerInv /\ CallsInv /\ [Next]_vars => CallsInv'
  <1> SUFFICES ASSUME TypeInv, OwnerInv, CallsInv, [Next]_vars PROVE CallsInv'
    OBVIOUS
  <1> USE DEF durable, workerVars, progressVars, clientVars
  <1>1. ASSUME NEW c \in Clients, NEW j \in Jobs, CallStart(c, j) \/ CallResume(c, j)
        PROVE  CallsInv'
    <2>1. cpc[c] = "idle" /\ cpc' = [cpc EXCEPT ![c] = "gate"] /\ reply[c] = None
      BY <1>1 DEF CallStart, CallResume, Goto, CallsInv, ReplyOK
    <2> QED BY <1>1, <2>1, CallsMoved DEF CallStart, CallResume, TypeInv, TypeOK
  <1>2. ASSUME NEW c \in Clients, NEW j \in Jobs, CallCancel(c, j) PROVE CallsInv'
    <2>1. cpc[c] = "idle" /\ reply[c] = None
      BY <1>2 DEF CallCancel, CallsInv, ReplyOK
    <2>2. /\ call'[c].op = "cancel"
          /\ cpc'[c] # "wait" => reply'[c] = None
          /\ \A d \in Clients \ {c} : cpc'[d] = cpc[d] /\ call'[d] = call[d] /\ reply'[d] = reply[d]
      BY <1>2, <2>1 DEF CallCancel, Goto, Answer, TypeInv, TypeOK
    <2>3. chan' = chan /\ wpc' = wpc /\ wcmd' = wcmd /\ active' = active /\ accept' = accept
      BY <1>2 DEF CallCancel
    <2> QED BY <2>1, <2>2, <2>3, CallsMoved
  <1>3. ASSUME NEW c \in Clients, CallShutdown(c) \/ JoinWorker(c) \/ ShutdownReturns(c)
        PROVE  CallsInv'
    <2>1. reply[c] = None /\ cpc[c] # "wait"
      BY <1>3 DEF CallShutdown, JoinWorker, ShutdownReturns, CallsInv, ReplyOK
    <2>2. /\ cpc'[c] \notin {"send", "wait"}
          /\ \A d \in Clients \ {c} : cpc'[d] = cpc[d] /\ call'[d] = call[d]
      BY <1>3 DEF CallShutdown, JoinWorker, ShutdownReturns, Goto, TypeInv, TypeOK
    <2> QED BY <1>3, <2>1, <2>2, CallsMoved DEF CallShutdown, JoinWorker, ShutdownReturns
  <1>4. ASSUME NEW c \in Clients, EnterAccept(c) PROVE CallsInv'
    <2> DEFINE p == ProcOf[c]
    <2>1. /\ p \in Procs /\ reply[c] = None /\ cpc[c] = "gate" /\ accept[p] = None
          /\ accept' = [accept EXCEPT ![p] = c] /\ accept'[p] = c
      BY <1>4, ConstantsAssumption DEF EnterAccept, AcceptFree, CallsInv, ReplyOK, TypeInv, TypeOK
    <2>2. \A d \in Clients \ {c} : accept[ProcOf[d]] = d => accept'[ProcOf[d]] = d
      BY <2>1, NoneAssumption, ConstantsAssumption DEF TypeInv, TypeOK
    <2>3. /\ cpc'[c] # "wait" => reply'[c] = None
          /\ reply'[c] = None => active[p] = None
          /\ \A d \in Clients \ {c} : cpc'[d] = cpc[d] /\ reply'[d] = reply[d]
      <3>1. CASE active[p] # None /\ Answer(c, "busy") /\ Goto(c, "wait")
        <4>1. "busy" # None
          BY NoneAssumption DEF Replies
        <4> QED BY <3>1, <4>1 DEF Answer, Goto, TypeInv, TypeOK
      <3>2. CASE active[p] = None /\ Goto(c, "send") /\ UNCHANGED reply
        BY <2>1, <3>2 DEF Goto, TypeInv, TypeOK
      <3> QED BY <1>4, <3>1, <3>2 DEF EnterAccept
    <2>4. chan' = chan /\ wpc' = wpc /\ wcmd' = wcmd /\ active' = active /\ call' = call
      BY <1>4 DEF EnterAccept
    <2> QED BY <2>1, <2>2, <2>3, <2>4, CallsMoved
  <1>5. ASSUME NEW c \in Clients, Return(c) PROVE CallsInv'
    <2>1. /\ cpc[c] = "wait" /\ reply[c] # None /\ cpc'[c] = "idle" /\ reply'[c] = None
          /\ \A d \in Clients \ {c} : cpc'[d] = cpc[d] /\ call'[d] = call[d] /\ reply'[d] = reply[d]
      BY <1>5 DEF Return, Goto, Answer, TypeInv, TypeOK
    <2>2. \A d \in Clients \ {c} : accept[ProcOf[d]] = d => accept'[ProcOf[d]] = d
      BY <1>5, ConstantsAssumption DEF Return, TypeInv, TypeOK
    <2> QED BY <1>5, <2>1, <2>2, CallsMoved DEF Return
  <1>6. ASSUME NEW c \in Clients, Send(c) \/ TakeSender(c) PROVE CallsInv'
    BY <1>6, CallsSent, CallsTaken
  <1>7. ASSUME NEW p \in Procs, RecvShutdown(p) PROVE CallsInv'
    <2>1. /\ wpc'[p] = "exited" /\ active'[p] = None
          /\ \A q \in Procs \ {p} : wpc'[q] = wpc[q] /\ active'[q] = active[q]
      BY <1>7 DEF RecvShutdown, WGoto, EmptySlot, TypeInv, TypeOK
    <2>2. wcmd' = wcmd /\ cpc' = cpc /\ call' = call /\ accept' = accept /\ reply' = reply
      BY <1>7 DEF RecvShutdown
    <2>3. Receive(p, "shutdown")
      BY <1>7 DEF RecvShutdown
    <2>4. ReplyOK' /\ AcceptOK' /\ SlotOK'
      BY <2>1, <2>2, ConstantsAssumption DEF CallsInv, ReplyOK, AcceptOK, SlotOK, Pending
    <2>5. QueuedOK'
      BY <2>2, <2>3, LeftBehind DEF QueuedOK, Waits
    <2>6. DecidedOK'
      BY <2>1, <2>2, <2>3, LeftBehind DEF CallsInv, DecidedOK, Deciding, Waits
    <2> QED BY <2>4, <2>5, <2>6 DEF CallsInv
  <1>8. ASSUME NEW p \in Procs, RecvCancel(p) PROVE CallsInv'
    <2>1. /\ Receive(p, "cancel")
          /\ wpc' = wpc /\ wcmd' = wcmd /\ active' = active
          /\ cpc' = cpc /\ call' = call /\ accept' = accept
      BY <1>8 DEF RecvCancel
    <2>2. \E res \in Replies : reply' = [reply EXCEPT ![Head(chan[p]).client] = res]
      BY <1>8 DEF RecvCancel, Answer, Replies
    <2> QED BY <2>1, <2>2, CallsAnswered
  <1>9. ASSUME NEW p \in Procs, NEW op \in {"start", "resume"}, RecvJob(p, op) PROVE CallsInv'
    <2>1. /\ Receive(p, op) /\ active' = active
          /\ cpc' = cpc /\ call' = call /\ accept' = accept
      BY <1>9 DEF RecvJob
    <2>2. CASE RecvRefusal(p, op) # None
      <3>1. RecvRefusal(p, op) \in Replies
        BY <2>2, RefusalTypes
      <3>2. /\ wpc' = wpc /\ wcmd' = wcmd
            /\ reply' = [reply EXCEPT ![Head(chan[p]).client] = RecvRefusal(p, op)]
        BY <1>9, <2>2 DEF RecvJob, Answer
      <3> QED BY <2>1, <3>1, <3>2, CallsAnswered
    <2>3. CASE RecvRefusal(p, op) = None
      BY <1>9, <2>1, <2>3, CallsTakenUp DEF RecvJob, WGoto
    <2> QED BY <2>2, <2>3
  <1>10. ASSUME NEW p \in Procs, OpenMatter(p) PROVE CallsInv'
    <2>1. /\ wpc[p] = "open" /\ active' = active
          /\ chan' = chan /\ cpc' = cpc /\ call' = call /\ accept' = accept
      BY <1>10 DEF OpenMatter
    <2>2. CASE LockFree(Matter(p))
      <3>1. wcmd[p].op \in {"start", "resume"}
        BY <2>1, WorkerJob
      <3>2. /\ wpc'[p] \in {"start", "resume"} /\ wcmd' = wcmd /\ reply' = reply
            /\ \A q \in Procs \ {p} : wpc'[q] = wpc[q]
        BY <1>10, <2>2, <3>1 DEF OpenMatter, WGoto, TypeInv, TypeOK
      <3> QED BY <2>1, <3>2, CallsKept DEF Deciding
    <2>3. CASE ~LockFree(Matter(p))
      <3>1. /\ wpc'[p] = "recv" /\ reply' = [reply EXCEPT ![wcmd[p].client] = "matter_open"]
            /\ \A q \in Procs \ {p} : wpc'[q] = wpc[q] /\ wcmd'[q] = wcmd[q]
        BY <1>10, <2>3 DEF OpenMatter, WGoto, Answer, Caller, TypeInv, TypeOK
      <3> QED BY <2>1, <3>1, CallsDecided DEF Deciding, Replies
    <2> QED BY <2>2, <2>3
  <1>11. ASSUME NEW p \in Procs, StartAccept(p) \/ StartSetRunning(p) PROVE CallsInv'
    <2>1. /\ wpc[p] \in {"start", "set_running"} /\ wcmd' = wcmd /\ active' = active
          /\ chan' = chan /\ cpc' = cpc /\ call' = call /\ accept' = accept
          /\ \A q \in Procs \ {p} : wpc'[q] = wpc[q]
      BY <1>11 DEF StartAccept, StartSetRunning, WGoto, TypeInv, TypeOK
    <2>2. \/ reply' = reply /\ wpc'[p] \in {"set_running", "activate"}
          \/ /\ wpc'[p] = "abandon"
             /\ \E res \in Replies : reply' = [reply EXCEPT ![wcmd[p].client] = res]
      BY <1>11 DEF StartAccept, StartSetRunning, WGoto, ReplyErr, Answer, Caller, Replies,
         TypeInv, TypeOK
    <2>3. CASE reply' = reply /\ wpc'[p] \in {"set_running", "activate"}
      BY <2>1, <2>3, CallsKept DEF Deciding
    <2>4. CASE /\ wpc'[p] = "abandon"
               /\ \E res \in Replies : reply' = [reply EXCEPT ![wcmd[p].client] = res]
      BY <2>1, <2>4, CallsDecided DEF Deciding
    <2> QED BY <2>2, <2>3, <2>4
  <1>12. ASSUME NEW p \in Procs, StartActivate(p) PROVE CallsInv'
    <2>1. /\ wpc[p] = "activate" /\ wpc'[p] = "publish" /\ wcmd' = wcmd /\ reply' = reply
          /\ chan' = chan /\ cpc' = cpc /\ call' = call /\ accept' = accept
          /\ \A q \in Procs \ {p} : wpc'[q] = wpc[q] /\ active'[q] = active[q]
      BY <1>12 DEF StartActivate, Activate, WGoto, TypeInv, TypeOK
    <2> QED BY <2>1, CallsKept DEF Deciding
  <1>13. ASSUME NEW p \in Procs, ResumeAccept(p) \/ ResumeReopen(p) PROVE CallsInv'
    <2>1. /\ wpc[p] \in {"resume", "reopen"} /\ wcmd' = wcmd
          /\ chan' = chan /\ cpc' = cpc /\ call' = call /\ accept' = accept
      BY <1>13 DEF ResumeAccept, ResumeReopen
    <2>2. \A q \in Procs \ {p} : wpc'[q] = wpc[q] /\ active'[q] = active[q]
      BY <1>13 DEF ResumeAccept, ResumeReopen, WGoto, Activate, SlotAfterFailedReopen, EmptySlot, TypeInv, TypeOK
    <2>3. \/ reply' = reply /\ wpc'[p] \in {"reopen", "publish"}
          \/ /\ wpc'[p] = "abandon"
             /\ \E res \in Replies : reply' = [reply EXCEPT ![wcmd[p].client] = res]
      <3>1. CASE ResumeAccept(p)
        BY <3>1, RefusalTypes DEF ResumeAccept, WGoto, ReplyErr, Answer, Caller, Replies,
           TypeInv, TypeOK
      <3>2. CASE ResumeReopen(p)
        BY <3>2 DEF ResumeReopen, WGoto, ReplyErr, Answer, Caller, Replies, TypeInv, TypeOK
      <3> QED BY <1>13, <3>1, <3>2
    <2>4. CASE reply' = reply /\ wpc'[p] \in {"reopen", "publish"}
      BY <2>1, <2>2, <2>4, CallsKept DEF Deciding
    <2>5. CASE /\ wpc'[p] = "abandon"
               /\ \E res \in Replies : reply' = [reply EXCEPT ![wcmd[p].client] = res]
      BY <2>1, <2>2, <2>5, CallsDecided DEF Deciding
    <2> QED BY <2>3, <2>4, <2>5
  <1>14. ASSUME NEW p \in Procs, PublishStarted(p) PROVE CallsInv'
    <2>1. /\ wpc[p] = "publish" /\ wpc'[p] = "run" /\ wcmd' = wcmd /\ active' = active
          /\ chan' = chan /\ cpc' = cpc /\ call' = call /\ accept' = accept
          /\ reply' = [reply EXCEPT ![wcmd[p].client] = "ok"]
          /\ \A q \in Procs \ {p} : wpc'[q] = wpc[q]
      BY <1>14 DEF PublishStarted, WGoto, Answer, Caller, TypeInv, TypeOK
    <2> QED BY <2>1, CallsDecided DEF Deciding, Replies
  <1>15. ASSUME NEW p \in Procs,
                \/ JoinPoller(p) \/ FinalizeJob(p) \/ DropMatter(p) \/ ClearActive(p)
                \/ PollerStep(p) \/ HandlerStep(p)
         PROVE CallsInv'
    <2>1. chan' = chan /\ cpc' = cpc /\ call' = call /\ accept' = accept /\ reply' = reply
      BY <1>15 DEF JoinPoller, FinalizeJob, DropMatter, ClearActive, PollerStep, PollerExits,
         PatchClones, PatchSends, HandlerStep, StageWrites, HandlerReturns
    <2>2. /\ \A q \in Procs \ {p} : wpc'[q] = wpc[q] /\ wcmd'[q] = wcmd[q] /\ active'[q] = active[q]
          /\ \/ wpc' = wpc /\ wcmd' = wcmd /\ active' = active
             \/ /\ wpc[p] \notin Deciding /\ wpc'[p] \notin Deciding
                /\ active'[p] \in {active[p], None}
      BY <1>15 DEF JoinPoller, FinalizeJob, SlotAfterFinalize, DropMatter, ClearActive, EmptySlot,
         PollerStep, PollerExits, PatchClones, PatchSends, HandlerStep, StageWrites,
         HandlerReturns, WGoto, Deciding, TypeInv, TypeOK
    <2> QED BY <2>1, <2>2, CallsKept DEF Deciding
  <1>16. ASSUME NEW p \in Procs, Restart(p) PROVE CallsInv'
    BY <1>16, CallsRestarted
  <1>17. ASSUME NEW j \in Jobs, CliJobCancel(j) PROVE CallsInv'
    BY <1>17 DEF CliJobCancel, CallsInv, ReplyOK, QueuedOK, DecidedOK, AcceptOK, SlotOK, Waits,
       Pending
  <1>18. CASE UNCHANGED vars
    BY <1>18 DEF vars, CallsInv, ReplyOK, QueuedOK, DecidedOK, AcceptOK, SlotOK, Waits, Pending
  <1> QED
    BY <1>1, <1>2, <1>3, <1>4, <1>5, <1>6, <1>7, <1>8, <1>9, <1>10, <1>11, <1>12, <1>13, <1>14,
       <1>15, <1>16, <1>17, <1>18
       DEF Next, ClientCall, ClientStep, WorkerStep

(* The runner starts without calls. *)
LEMMA CallsInit == Init => OwnerInv /\ CallsInv
  <1> SUFFICES ASSUME Init PROVE OwnerInv /\ CallsInv
    OBVIOUS
  <1>1. OwnerInv
    BY NoneAssumption, ConstantsAssumption DEF Init, OwnerInv, LockOK, ActiveOK, Holding
  <1>2. \A p \in Procs : \A i \in 1..Len(chan[p]) : FALSE
    BY EmptySeq DEF Init
  <1>3. CallsInv
    BY <1>2, ConstantsAssumption
       DEF Init, CallsInv, ReplyOK, QueuedOK, DecidedOK, AcceptOK, SlotOK, Pending, Deciding
  <1> QED BY <1>1, <1>3

(* What the accept mutex is for: whatever the clients of a process do, in any *)
(* number, no start or resume command waits in the channel behind a job that  *)
(* is being run; its caller was told Busy.                                    *)
THEOREM NoJobQueuedBehindJobTheorem == Spec => []NoJobQueuedBehindJob
  <1>1. ASSUME TypeInv, CallsInv PROVE NoJobQueuedBehindJob
    <2> SUFFICES ASSUME NEW p \in Procs, NEW i \in 1..Len(chan[p]),
                        chan[p][i].op \in {"start", "resume"}
                 PROVE  active[p] = None
      BY DEF NoJobQueuedBehindJob
    <2>1. Waits(p, chan[p][i])
      BY <1>1 DEF CallsInv, QueuedOK
    <2>2. /\ chan[p][i].client \in Clients /\ ProcOf[chan[p][i].client] = p
          /\ Pending(chan[p][i].client)
      BY <2>1 DEF Waits, ClientsOf, Pending
    <2>3. wpc[p] \notin {"reopen", "publish"}
      <3> SUFFICES ASSUME wpc[p] \in Deciding PROVE FALSE
        BY DEF Deciding
      <3>1. chan[p][i].client = wcmd[p].client
        BY <1>1, <2>2, DecidedCaller DEF ClientsOf
      <3> QED BY <1>1, <3>1 DEF CallsInv, DecidedOK
    <2> QED BY <1>1, <2>2, <2>3 DEF CallsInv, SlotOK
  <1> QED BY <1>1, TypeInit, TypeNext, OwnerNext, CallsInit, CallsNext, PTL DEF Spec

----------------------------------------------------------------------------
(* After the final state is written the slot still names the job. *)
DropOK == \A p \in Procs : wpc[p] = "drop" => active[p] = wcmd[p].job

(* A worker that has left its loop runs nothing, and only then is it joined. *)
ExitOK ==
    /\ \A p \in Procs : wpc[p] = "exited" => active[p] = None
    /\ \A c \in Clients : cpc[c] = "joined" => wpc[ProcOf[c]] = "exited"

(* The poller lives only while the handler runs, and what it cloned is what it *)
(* will write back.                                                            *)
PollerOK ==
    \A p \in Procs :
        /\ poller[p] # "off" => wpc[p] \in {"run", "stop_poller"}
        /\ poller[p] = "patch" => copy[p] = snap[p]

EndInv == DropOK /\ ExitOK /\ PollerOK

(* A step that moves no program counter of a worker or a joined client, and   *)
(* touches neither slots nor progress.                                         *)
LEMMA EndKept ==
    ASSUME EndInv, wpc' = wpc, wcmd' = wcmd, active' = active, snap' = snap, poller' = poller,
           copy' = copy, \A c \in Clients : cpc'[c] = "joined" => cpc[c] = "joined"
    PROVE  EndInv'
  BY DEF EndInv, DropOK, ExitOK, PollerOK

(* A step of p's worker between taking a command and joining the poller. *)
LEMMA EndMoved ==
    ASSUME TypeInv, EndInv, NEW p \in Procs, cpc' = cpc, poller' = poller, copy' = copy,
           snap' = snap, wpc[p] # "exited",
           \A q \in Procs \ {p} : wpc'[q] = wpc[q] /\ wcmd'[q] = wcmd[q] /\ active'[q] = active[q],
           wpc'[p] # "drop", wpc'[p] = "exited" => active'[p] = None,
           poller[p] = "off" \/ wpc'[p] \in {"run", "stop_poller"}
    PROVE  EndInv'
  <1>1. DropOK'
    BY DEF EndInv, DropOK
  <1>2. ExitOK'
    BY ConstantsAssumption DEF EndInv, ExitOK
  <1>3. PollerOK'
    BY DEF EndInv, PollerOK
  <1> QED BY <1>1, <1>2, <1>3 DEF EndInv

(* Every step keeps the slot, the worker's exit and the poller in order. *)
LEMMA EndNext == TypeInv /\ OwnerInv /\ EndInv /\ [Next]_vars => EndInv'
  <1> SUFFICES ASSUME TypeInv, OwnerInv, EndInv, [Next]_vars PROVE EndInv'
    OBVIOUS
  <1> USE DEF durable, workerVars, progressVars, clientVars
  <1>1. ASSUME NEW c \in Clients, (ClientCall(c) \/ ClientStep(c)) /\ ~JoinWorker(c) PROVE EndInv'
    <2>1. /\ wpc' = wpc /\ wcmd' = wcmd /\ active' = active
          /\ snap' = snap /\ poller' = poller /\ copy' = copy
      BY <1>1 DEF ClientCall, ClientStep, CallStart, CallResume, CallCancel, CallShutdown,
         EnterAccept, Send, Return, TakeSender, ShutdownReturns
    <2>2. \A d \in Clients : cpc'[d] = "joined" => cpc[d] = "joined"
      BY <1>1 DEF ClientCall, ClientStep, CallStart, CallResume, CallCancel, CallShutdown,
         EnterAccept, Send, Return, TakeSender, ShutdownReturns, Goto, TypeInv, TypeOK
    <2> QED BY <2>1, <2>2, EndKept
  <1>2. ASSUME NEW c \in Clients, JoinWorker(c) PROVE EndInv'
    BY <1>2 DEF JoinWorker, WorkerExited, Goto, TypeInv, TypeOK, EndInv, DropOK, ExitOK, PollerOK
  <1>3. ASSUME NEW p \in Procs,
               \/ RecvShutdown(p) \/ RecvCancel(p) \/ \E op \in {"start", "resume"} : RecvJob(p, op)
        PROVE  EndInv'
    <2>1. wpc[p] = "recv" /\ poller[p] = "off"
      BY <1>3 DEF RecvShutdown, RecvCancel, RecvJob, Receive, EndInv, PollerOK
    <2>2. /\ cpc' = cpc /\ snap' = snap /\ poller' = poller /\ copy' = copy
          /\ \A q \in Procs \ {p} : wpc'[q] = wpc[q] /\ wcmd'[q] = wcmd[q] /\ active'[q] = active[q]
          /\ wpc'[p] \in {"recv", "open", "exited"}
          /\ wpc'[p] = "exited" => active'[p] = None
      BY <1>3, <2>1 DEF RecvShutdown, RecvCancel, RecvJob, WGoto, EmptySlot, TypeInv, TypeOK
    <2> QED BY <2>1, <2>2, EndMoved
  <1>4. ASSUME NEW p \in Procs,
               \/ OpenMatter(p) \/ StartAccept(p) \/ StartSetRunning(p) \/ StartActivate(p)
               \/ ResumeAccept(p) \/ ResumeReopen(p) \/ DropMatter(p) \/ ClearActive(p)
        PROVE  EndInv'
    <2>1. wpc[p] \notin {"recv", "exited", "run", "stop_poller"} /\ poller[p] = "off"
      BY <1>4 DEF OpenMatter, StartAccept, StartSetRunning, StartActivate, ResumeAccept,
         ResumeReopen, DropMatter, ClearActive, EndInv, PollerOK
    <2>2. cpc' = cpc /\ snap' = snap /\ poller' = poller /\ copy' = copy
      BY <1>4 DEF OpenMatter, StartAccept, StartSetRunning, StartActivate, ResumeAccept,
         ResumeReopen, DropMatter, ClearActive
    <2>3. \A q \in Procs \ {p} : wpc'[q] = wpc[q] /\ wcmd'[q] = wcmd[q] /\ active'[q] = active[q]
      BY <1>4 DEF OpenMatter, StartAccept, StartSetRunning, StartActivate, ResumeAccept,
         ResumeReopen, DropMatter, ClearActive, WGoto, Activate, SlotAfterFailedReopen, EmptySlot, TypeInv, TypeOK
    <2>4. wpc'[p] \notin {"drop", "exited"}
      BY <1>4, <2>1, WorkerJob DEF OpenMatter, StartAccept, StartSetRunning, StartActivate,
         ResumeAccept, ResumeReopen, DropMatter, ClearActive, WGoto, TypeInv, TypeOK
    <2> QED BY <2>1, <2>2, <2>3, <2>4, EndMoved
  <1>5. ASSUME NEW p \in Procs, PublishStarted(p) PROVE EndInv'
    BY <1>5, ConstantsAssumption DEF PublishStarted, WGoto, TypeInv, TypeOK, EndInv, DropOK,
       ExitOK, PollerOK
  <1>6. ASSUME NEW p \in Procs, JoinPoller(p) \/ HandlerStep(p) PROVE EndInv'
    <2>1. /\ wpc[p] \in {"run", "stop_poller"} /\ active' = active /\ wcmd' = wcmd
          /\ cpc' = cpc /\ snap' = snap /\ poller' = poller /\ copy' = copy
      BY <1>6 DEF JoinPoller, HandlerStep, StageWrites, HandlerReturns
    <2>2. /\ \A q \in Procs \ {p} : wpc'[q] = wpc[q]
          /\ \/ wpc'[p] \in {"run", "stop_poller"}
             \/ wpc'[p] = "finalize" /\ poller[p] = "off"
      BY <1>6 DEF JoinPoller, PollerExited, HandlerStep, StageWrites, HandlerReturns, WGoto,
         TypeInv, TypeOK
    <2> QED BY <2>1, <2>2, EndMoved
  <1>7. ASSUME NEW p \in Procs, FinalizeJob(p) PROVE EndInv'
    <2>1. active[p] = wcmd[p].job /\ poller[p] = "off"
      BY <1>7 DEF FinalizeJob, OwnerInv, ActiveOK, EndInv, PollerOK
    <2>2. /\ active' = active /\ wcmd' = wcmd /\ cpc' = cpc /\ poller' = poller /\ copy' = copy
          /\ wpc[p] = "finalize" /\ wpc'[p] = "drop"
          /\ \A q \in Procs \ {p} : wpc'[q] = wpc[q] /\ snap'[q] = snap[q]
      BY <1>7 DEF FinalizeJob, SlotAfterFinalize, WGoto, TypeInv, TypeOK
    <2> QED BY <2>1, <2>2, ConstantsAssumption DEF EndInv, DropOK, ExitOK, PollerOK
  <1>8. ASSUME NEW p \in Procs, PollerStep(p) PROVE EndInv'
    <2>1. /\ wpc' = wpc /\ wcmd' = wcmd /\ active' = active /\ cpc' = cpc
          /\ poller[p] # "off"
      BY <1>8 DEF PollerStep, PollerExits, PatchClones, PatchSends
    <2>2. DropOK' /\ ExitOK'
      BY <2>1 DEF EndInv, DropOK, ExitOK
    <2>3. PollerOK'
      BY <1>8, <2>1 DEF PollerStep, PollerExits, PatchClones, PatchSends, TypeInv, TypeOK, EndInv,
         PollerOK
    <2> QED BY <2>2, <2>3 DEF EndInv
  <1>9. ASSUME NEW p \in Procs, Restart(p) PROVE EndInv'
    BY <1>9, ConstantsAssumption DEF Restart, TypeInv, TypeOK, EndInv, DropOK, ExitOK, PollerOK
  <1>10. ASSUME NEW j \in Jobs, CliJobCancel(j) PROVE EndInv'
    BY <1>10, EndKept DEF CliJobCancel
  <1>11. CASE UNCHANGED vars
    BY <1>11, EndKept DEF vars
  <1> QED
    BY <1>1, <1>2, <1>3, <1>4, <1>5, <1>6, <1>7, <1>8, <1>9, <1>10, <1>11
       DEF Next, WorkerStep

(* The runner starts with nothing to end. *)
LEMMA EndInit == Init => EndInv
  BY DEF Init, EndInv, DropOK, ExitOK, PollerOK

(* An idle process is unlocked: one whose active slot is empty holds the lock *)
(* of a matter only while it decides on a start or resume or has just refused *)
(* one, also when calls of the store fail.                                    *)
THEOREM IdleMeansUnlockedTheorem == Spec => []IdleMeansUnlocked
  <1>1. ASSUME TypeInv, OwnerInv, CallsInv, EndInv PROVE IdleMeansUnlocked
    <2> SUFFICES ASSUME NEW p \in Procs, NEW m \in Matters, lock[m] = p, active[p] = None
                 PROVE  accept[p] # None \/ wpc[p] = "abandon"
      BY DEF IdleMeansUnlocked
    <2>1. wpc[p] \in Holding
      BY <1>1 DEF OwnerInv, LockOK
    <2>2. wpc[p] \notin {"run", "stop_poller", "finalize", "drop"}
      BY <1>1, WorkerJob, NoneAssumption DEF OwnerInv, ActiveOK, EndInv, DropOK
    <2>3. wpc[p] \in Deciding \/ wpc[p] = "abandon"
      BY <2>1, <2>2 DEF Holding, Deciding
    <2> QED BY <1>1, <2>3, DecidedCaller, NoneAssumption
  <1> QED BY <1>1, TypeInit, TypeNext, OwnerNext, CallsInit, CallsNext, EndInit, EndNext, PTL DEF Spec

(* A caller that was refused keeps accept until it returns, so the worker     *)
(* decides on nothing and fills no slot meanwhile.                            *)
LEMMA RefusedHolds ==
    ASSUME TypeInv, CallsInv, NEW c \in Clients,
           call[c].op \in {"start", "resume"}, reply[c] # None
    PROVE  cpc[c] = "wait" /\ wpc[ProcOf[c]] \notin Deciding
  <1>1. cpc[c] = "wait" /\ accept[ProcOf[c]] = c /\ ProcOf[c] \in Procs
    BY ConstantsAssumption DEF CallsInv, ReplyOK, AcceptOK
  <1>2. ASSUME wpc[ProcOf[c]] \in Deciding PROVE FALSE
    BY <1>1, <1>2, DecidedCaller DEF Waits
  <1> QED BY <1>1, <1>2

(* A step that fills no slot and answers no start or resume with a refusal. *)
LEMMA RefusedKept ==
    ASSUME RefusedCallLeavesIdle,
           \A c \in Clients :
               \/ active'[ProcOf[c]] = active[ProcOf[c]]
               \/ active'[ProcOf[c]] = None,
           \A c \in Clients :
               call'[c].op \in {"start", "resume"} /\ reply'[c] \notin {None, "ok", "busy"} =>
                   call'[c] = call[c] /\ reply'[c] = reply[c]
    PROVE  RefusedCallLeavesIdle'
  BY DEF RefusedCallLeavesIdle

(* A step of p's worker that answers at most the command it decides on and    *)
(* leaves the slot empty if that answer is a refusal.                         *)
LEMMA RefusedDecided ==
    ASSUME TypeInv, CallsInv, RefusedCallLeavesIdle, NEW p \in Procs, wpc[p] \in Deciding,
           call' = call,
           \A q \in Procs \ {p} : active'[q] = active[q],
           \A c \in Clients \ {wcmd[p].client} : reply'[c] = reply[c],
           reply'[wcmd[p].client] \notin {None, "ok", "busy"} => active'[p] = None
    PROVE  RefusedCallLeavesIdle'
  <1> SUFFICES ASSUME NEW c \in Clients, call[c].op \in {"start", "resume"},
                      reply'[c] \notin {None, "ok", "busy"}
               PROVE  active'[ProcOf[c]] = None
    BY DEF RefusedCallLeavesIdle
  <1>1. ProcOf[wcmd[p].client] = p
    BY DecidedCaller DEF Waits, ClientsOf
  <1>2. CASE c = wcmd[p].client
    BY <1>1, <1>2
  <1>3. CASE c # wcmd[p].client
    <2>1. reply'[c] = reply[c]
      BY <1>3
    <2>2. ProcOf[c] \in Procs \ {p}
      BY <2>1, RefusedHolds, ConstantsAssumption
    <2> QED BY <2>1, <2>2 DEF RefusedCallLeavesIdle
  <1> QED BY <1>2, <1>3

(* Every step keeps the slot empty behind a refused call. *)
LEMMA RefusedNext ==
    TypeInv /\ CallsInv /\ RefusedCallLeavesIdle /\ [Next]_vars => RefusedCallLeavesIdle'
  <1> SUFFICES ASSUME TypeInv, CallsInv, RefusedCallLeavesIdle, [Next]_vars
               PROVE  RefusedCallLeavesIdle'
    OBVIOUS
  <1> USE DEF durable, workerVars, progressVars, clientVars
  <1>1. ASSUME NEW c \in Clients, ClientCall(c) \/ EnterAccept(c) \/ Return(c) \/ TakeSender(c)
                                  \/ JoinWorker(c) \/ ShutdownReturns(c)
        PROVE  RefusedCallLeavesIdle'
    <2>1. active' = active
      BY <1>1 DEF ClientCall, CallStart, CallResume, CallCancel, CallShutdown, EnterAccept, Return,
         TakeSender, JoinWorker, ShutdownReturns
    <2>2. \A d \in Clients \ {c} : call'[d] = call[d] /\ reply'[d] = reply[d]
      BY <1>1 DEF ClientCall, CallStart, CallResume, CallCancel, CallShutdown, EnterAccept, Return,
         TakeSender, JoinWorker, ShutdownReturns, Answer, TypeInv, TypeOK
    <2>3. call'[c].op \in {"start", "resume"} /\ reply'[c] \notin {None, "ok", "busy"} =>
              call'[c] = call[c] /\ reply'[c] = reply[c]
      BY <1>1 DEF ClientCall, CallStart, CallResume, CallCancel, CallShutdown, EnterAccept, Return,
         TakeSender, JoinWorker, ShutdownReturns, Answer, NoCommand, TypeInv, TypeOK, CallsInv,
         ReplyOK
    <2> QED BY <2>1, <2>2, <2>3, RefusedKept
  <1>2. ASSUME NEW c \in Clients, Send(c) PROVE RefusedCallLeavesIdle'
    <2>1. active' = active /\ call' = call /\ \A d \in Clients \ {c} : reply'[d] = reply[d]
      BY <1>2 DEF Send, Answer, TypeInv, TypeOK
    <2>2. reply[c] = None
      BY <1>2 DEF Send, CallsInv, ReplyOK
    <2>3. call[c].op \in {"start", "resume"} => active[ProcOf[c]] = None
      <3> SUFFICES ASSUME call[c].op \in {"start", "resume"} PROVE active[ProcOf[c]] = None
        OBVIOUS
      <3>1. Pending(c) /\ accept[ProcOf[c]] = c /\ ProcOf[c] \in Procs
        BY <1>2, <2>2, ConstantsAssumption DEF Send, Pending, CallsInv, AcceptOK
      <3>2. wpc[ProcOf[c]] \notin Deciding
        BY <1>2, <3>1, DecidedCaller DEF Send, Waits
      <3> QED BY <3>1, <3>2 DEF CallsInv, SlotOK, Deciding
    <2> QED BY <2>1, <2>3 DEF RefusedCallLeavesIdle
  <1>3. ASSUME NEW p \in Procs, RecvShutdown(p) \/ ClearActive(p) PROVE RefusedCallLeavesIdle'
    <2>1. call' = call /\ reply' = reply
      BY <1>3 DEF RecvShutdown, Receive, ClearActive
    <2>2. \A q \in Procs : active'[q] = active[q] \/ active'[q] = None
      BY <1>3 DEF RecvShutdown, ClearActive, EmptySlot, TypeInv, TypeOK
    <2> QED BY <2>1, <2>2, RefusedKept, ConstantsAssumption
  <1>4. ASSUME NEW p \in Procs, RecvCancel(p) PROVE RefusedCallLeavesIdle'
    <2>1. PICK cmd \in {Head(chan[p])} : TRUE
      OBVIOUS
    <2>2. /\ chan[p] \in Seq(Command) /\ chan[p] # << >> /\ cmd.op = "cancel"
          /\ cmd = chan[p][1] /\ 1 \in 1..Len(chan[p])
      BY <1>4, <2>1 DEF RecvCancel, Receive, TypeInv, TypeOK
    <2>3. cmd.client \in Clients /\ call[cmd.client].op = "cancel"
      BY <2>2 DEF CallsInv, QueuedOK, Waits, ClientsOf
    <2>4. /\ active' = active /\ call' = call
          /\ \A d \in Clients \ {cmd.client} : reply'[d] = reply[d]
      BY <1>4, <2>1 DEF RecvCancel, Answer, TypeInv, TypeOK
    <2> QED BY <2>3, <2>4, RefusedKept
  <1>5. ASSUME NEW p \in Procs, NEW op \in {"start", "resume"}, RecvJob(p, op)
        PROVE  RefusedCallLeavesIdle'
    <2>1. PICK cmd \in {Head(chan[p])} : TRUE
      OBVIOUS
    <2>2. /\ chan[p] \in Seq(Command) /\ chan[p] # << >> /\ cmd.op = op
          /\ cmd = chan[p][1] /\ 1 \in 1..Len(chan[p])
      BY <1>5, <2>1 DEF RecvJob, Receive, TypeInv, TypeOK
    <2>3. cmd.client \in Clients /\ ProcOf[cmd.client] = p
      BY <2>2 DEF CallsInv, QueuedOK, Waits, ClientsOf
    <2>4. /\ active' = active /\ call' = call
          /\ \A d \in Clients \ {cmd.client} : reply'[d] = reply[d]
      BY <1>5, <2>1 DEF RecvJob, Answer, TypeInv, TypeOK
    <2>5. \/ reply'[cmd.client] = reply[cmd.client]
          \/ reply'[cmd.client] = "busy"
          \/ active[p] = None
      BY <1>5, <2>1, <2>3 DEF RecvJob, RecvRefusal, Answer, TypeInv, TypeOK
    <2> QED BY <2>3, <2>4, <2>5 DEF RefusedCallLeavesIdle
  <1>6. ASSUME NEW p \in Procs,
               \/ OpenMatter(p) \/ StartAccept(p) \/ StartSetRunning(p) \/ StartActivate(p)
               \/ ResumeAccept(p) \/ ResumeReopen(p) \/ PublishStarted(p)
        PROVE  RefusedCallLeavesIdle'
    <2>1. wpc[p] \in Deciding /\ call' = call
      BY <1>6 DEF OpenMatter, StartAccept, StartSetRunning, StartActivate, ResumeAccept,
         ResumeReopen, PublishStarted, Deciding
    <2>2. /\ Waits(p, wcmd[p]) /\ wcmd[p].client \in Clients /\ ProcOf[wcmd[p].client] = p
          /\ wcmd[p].op \in {"start", "resume"}
      BY <2>1, DecidedCaller, WorkerJob DEF Waits, ClientsOf, Deciding
    <2>3. \A q \in Procs \ {p} : active'[q] = active[q]
      BY <1>6 DEF OpenMatter, StartAccept, StartSetRunning, StartActivate, ResumeAccept,
         ResumeReopen, SlotAfterFailedReopen, PublishStarted, Activate, EmptySlot, TypeInv, TypeOK
    <2>4. \A c \in Clients \ {wcmd[p].client} : reply'[c] = reply[c]
      BY <1>6 DEF OpenMatter, StartAccept, StartSetRunning, StartActivate, ResumeAccept,
         ResumeReopen, PublishStarted, ReplyErr, Answer, Caller, TypeInv, TypeOK
    <2>5. wpc[p] \notin {"reopen", "publish"} => active[p] = None
      BY <2>2 DEF CallsInv, SlotOK, Pending, Waits
    <2>6. reply'[wcmd[p].client] \notin {None, "ok", "busy"} => active'[p] = None
      <3>1. CASE OpenMatter(p) \/ StartAccept(p) \/ StartSetRunning(p)
        BY <3>1, <2>5 DEF OpenMatter, StartAccept, StartSetRunning
      <3>2. CASE StartActivate(p)
        BY <3>2, <2>2 DEF StartActivate, Waits
      <3>3. CASE ResumeAccept(p)
        BY <3>3, <2>2, <2>5 DEF ResumeAccept, Waits
      <3>4. CASE ResumeReopen(p)
        BY <3>4, <2>2 DEF ResumeReopen, SlotAfterFailedReopen, EmptySlot, Waits, TypeInv, TypeOK
      <3>5. CASE PublishStarted(p)
        BY <3>5, <2>2 DEF PublishStarted, Answer, Caller, TypeInv, TypeOK
      <3> QED BY <1>6, <3>1, <3>2, <3>3, <3>4, <3>5
    <2> QED BY <2>1, <2>3, <2>4, <2>6, RefusedDecided
  <1>7. ASSUME NEW p \in Procs, JoinPoller(p) \/ FinalizeJob(p) \/ DropMatter(p)
                                \/ HandlerStep(p) \/ PollerStep(p)
        PROVE  RefusedCallLeavesIdle'
    BY <1>7, RefusedKept DEF JoinPoller, FinalizeJob, SlotAfterFinalize, DropMatter, HandlerStep,
       StageWrites, HandlerReturns, PollerStep, PollerExits, PatchClones, PatchSends
  <1>8. ASSUME NEW p \in Procs, Restart(p) PROVE RefusedCallLeavesIdle'
    BY <1>8, RefusedKept, ConstantsAssumption DEF Restart, TypeInv, TypeOK
  <1>9. ASSUME NEW j \in Jobs, CliJobCancel(j) PROVE RefusedCallLeavesIdle'
    BY <1>9, RefusedKept DEF CliJobCancel
  <1>10. CASE UNCHANGED vars
    BY <1>10, RefusedKept DEF vars
  <1> QED
    BY <1>1, <1>2, <1>3, <1>4, <1>5, <1>6, <1>7, <1>8, <1>9, <1>10
       DEF Next, ClientStep, WorkerStep

(* Every early return of start and resume undoes what it marked: from the     *)
(* error until its caller has returned no job is marked active in that        *)
(* process, whatever the other threads do and whichever call of the store     *)
(* fails.                                                                     *)
THEOREM RefusedCallTheorem == Spec => []RefusedCallLeavesIdle
  <1>1. Init => RefusedCallLeavesIdle
    BY DEF Init, RefusedCallLeavesIdle
  <1> QED BY <1>1, TypeInit, TypeNext, OwnerNext, CallsInit, CallsNext, RefusedNext, PTL DEF Spec

(* When shutdown returns, the process holds no lock and runs no job: the      *)
(* worker was joined, it left its loop from between two commands, and nothing *)
(* starts it again.                                                           *)
THEOREM ShutdownReleasesTheorem == Spec => []ShutdownReleases
  <1>1. ASSUME TypeInv, OwnerInv, EndInv PROVE ShutdownReleases
    <2> SUFFICES ASSUME NEW c \in Clients, cpc[c] = "joined"
                 PROVE  /\ active[ProcOf[c]] = None
                        /\ \A m \in Matters : lock[m] # ProcOf[c]
      BY DEF ShutdownReleases
    <2>1. ProcOf[c] \in Procs /\ wpc[ProcOf[c]] = "exited"
      BY <1>1, ConstantsAssumption DEF EndInv, ExitOK
    <2> QED BY <1>1, <2>1 DEF EndInv, ExitOK, OwnerInv, LockOK, Holding
  <1> QED BY <1>1, TypeInit, TypeNext, OwnerNext, CallsInit, EndInit, EndNext, PTL DEF Spec

(* The snapshot is written by publish_started, finalize_job, a patch of the   *)
(* poller and a restart, and by nothing else.                                  *)
LEMMA SnapshotWriters ==
    ASSUME [Next]_vars
    PROVE  \/ snap' = snap
           \/ \E q \in Procs : PublishStarted(q) \/ FinalizeJob(q) \/ PatchSends(q) \/ Restart(q)
  <1> USE DEF durable, workerVars, progressVars, clientVars
  <1>1. ASSUME NEW c \in Clients, ClientCall(c) \/ ClientStep(c) PROVE snap' = snap
    BY <1>1 DEF ClientCall, ClientStep, CallStart, CallResume, CallCancel, CallShutdown,
       EnterAccept, Send, Return, TakeSender, JoinWorker, ShutdownReturns
  <1>2. ASSUME NEW p \in Procs, WorkerStep(p)
        PROVE  snap' = snap \/ PublishStarted(p) \/ FinalizeJob(p)
    BY <1>2 DEF WorkerStep, RecvShutdown, RecvCancel, RecvJob, OpenMatter, StartAccept,
       StartSetRunning, StartActivate, ResumeAccept, ResumeReopen, JoinPoller, DropMatter,
       ClearActive
  <1>3. ASSUME NEW p \in Procs, HandlerStep(p) \/ PollerStep(p) PROVE snap' = snap \/ PatchSends(p)
    BY <1>3 DEF HandlerStep, StageWrites, HandlerReturns, PollerStep, PollerExits, PatchClones
  <1>4. ASSUME NEW j \in Jobs, CliJobCancel(j) PROVE snap' = snap
    BY <1>4 DEF CliJobCancel
  <1>5. CASE UNCHANGED vars
    BY <1>5 DEF vars
  <1> QED BY <1>1, <1>2, <1>3, <1>4, <1>5 DEF Next

(* The poller never undoes a terminal snapshot: what it writes back is what    *)
(* it cloned, because stop_checkpoint_poller joins it before finalize_job      *)
(* publishes the final state.                                                  *)
THEOREM TerminalSnapshotStaysTheorem == Spec => TerminalSnapshotStays
  <1> DEFINE Undone == \E p \in Procs : snap[p].state # "running" /\ snap'[p].state = "running"
                                             /\ wpc[p] # "publish"
  <1>1. ASSUME TypeInv, OwnerInv, EndInv, [Next]_vars PROVE ~Undone
    <2> SUFFICES ASSUME NEW p \in Procs, wpc[p] # "publish", snap[p].state # "running"
                 PROVE  snap'[p].state # "running"
      OBVIOUS
    <2> USE DEF durable, workerVars, progressVars, clientVars
    <2>1. CASE snap' = snap
      BY <2>1
    <2>2. ASSUME NEW q \in Procs, PublishStarted(q) PROVE snap'[p] = snap[p]
      BY <1>1, <2>2 DEF PublishStarted, TypeInv, TypeOK
    <2>3. ASSUME NEW q \in Procs, FinalizeJob(q)
          PROVE  snap'[p] = snap[p] \/ (snap'[p].state = FinalState(q) /\ FinalState(q) # "running")
      <3>1. FinalState(q) # "running"
        BY <1>1 DEF FinalState, MapOutcome, Outcomes, TypeInv, TypeOK
      <3> QED BY <1>1, <2>3, <3>1 DEF FinalizeJob, TypeInv, TypeOK
    <2>4. ASSUME NEW q \in Procs, PatchSends(q) PROVE snap'[p] = snap[p]
      BY <1>1, <2>4 DEF PatchSends, TypeInv, TypeOK, EndInv, PollerOK
    <2>5. ASSUME NEW q \in Procs, Restart(q) PROVE snap'[p] = snap[p] \/ snap'[p].state = "idle"
      BY <1>1, <2>5 DEF Restart, IdleSnapshot, TypeInv, TypeOK
    <2> QED BY <1>1, <2>1, <2>2, <2>3, <2>4, <2>5, SnapshotWriters
  <1>2. ASSUME TypeInv, OwnerInv, EndInv, [Next]_vars
        PROVE  [\A p \in Procs : snap[p].state # "running" /\ snap'[p].state = "running"
                                    => wpc[p] = "publish"]_vars
    BY <1>1, <1>2
  <1> QED
    BY <1>2, TypeInit, TypeNext, OwnerNext, CallsInit, EndInit, EndNext, PTL
       DEF Spec, TerminalSnapshotStays

(* While p has finished its job and not yet dropped the Matter, nobody writes  *)
(* the job's row: every writer needs the matter's lock.                        *)
LEMMA RowHeld ==
    ASSUME TypeInv, OwnerInv, [Next]_vars, NEW p \in Procs, wpc[p] = "drop"
    PROVE  rows'[wcmd[p].job] = rows[wcmd[p].job]
  <1> USE DEF durable, workerVars, progressVars, clientVars
  <1>1. wcmd[p].job \in Jobs /\ lock[MatterOf[wcmd[p].job]] = p
    BY WorkerJob, ConstantsAssumption DEF OwnerInv, LockOK, Holding
  <1>2. ASSUME NEW q \in Procs, wpc[q] \in Holding \ {"drop"}
        PROVE  wcmd[q].job \in Jobs /\ wcmd[q].job # wcmd[p].job
    BY <1>1, <1>2, OtherMatter, WorkerJob DEF Holding
  <1>3. ASSUME NEW c \in Clients, ClientCall(c) \/ ClientStep(c) PROVE rows' = rows
    BY <1>3 DEF ClientCall, ClientStep, CallStart, CallResume, CallCancel, CallShutdown,
       EnterAccept, Send, Return, TakeSender, JoinWorker, ShutdownReturns
  <1>4. ASSUME NEW q \in Procs, StartAccept(q) \/ StartSetRunning(q) \/ ResumeReopen(q) \/ FinalizeJob(q)
        PROVE  rows'[wcmd[p].job] = rows[wcmd[p].job]
    <2>1. wcmd[q].job \in Jobs /\ wcmd[q].job # wcmd[p].job
      BY <1>2, <1>4 DEF StartAccept, StartSetRunning, ResumeReopen, FinalizeJob, Holding
    <2>2. \/ rows' = rows \/ rows' = CreateJob(rows, wcmd[q].job)
          \/ \E s : rows' = SetJobState(rows, wcmd[q].job, s)
      BY <1>4 DEF StartAccept, StartSetRunning, ResumeReopen, FinalizeJob, Job
    <2> QED BY <1>1, <2>1, <2>2 DEF CreateJob, SetJobState, TypeInv, TypeOK
  <1>5. ASSUME NEW q \in Procs, NEW s, StageWrites(q, s)
        PROVE  rows'[wcmd[p].job] = rows[wcmd[p].job]
    <2>1. wcmd[q].job \in Jobs /\ wcmd[q].job # wcmd[p].job
      BY <1>2, <1>5 DEF StageWrites, Holding
    <2> QED BY <1>1, <1>5, <2>1 DEF StageWrites, Job, SetJobState, TypeInv, TypeOK
  <1>6. ASSUME NEW q \in Procs,
               \/ RecvShutdown(q) \/ RecvCancel(q) \/ \E op \in {"start", "resume"} : RecvJob(q, op)
               \/ OpenMatter(q) \/ StartActivate(q) \/ ResumeAccept(q) \/ PublishStarted(q)
               \/ JoinPoller(q) \/ DropMatter(q) \/ ClearActive(q) \/ PollerStep(q) \/ Restart(q)
               \/ \E out \in Outcomes : HandlerReturns(q, out)
        PROVE  rows' = rows
    BY <1>6 DEF RecvShutdown, RecvCancel, RecvJob, OpenMatter, StartActivate, ResumeAccept,
       PublishStarted, JoinPoller, DropMatter, ClearActive, PollerStep, PollerExits, PatchClones,
       PatchSends, Restart, HandlerReturns
  <1>7. ASSUME NEW j \in Jobs, CliJobCancel(j) PROVE rows'[wcmd[p].job] = rows[wcmd[p].job]
    <2>1. j # wcmd[p].job
      BY <1>1, <1>7, NoneAssumption DEF CliJobCancel
    <2> QED BY <1>1, <1>7, <2>1 DEF CliJobCancel, SetJobState, TypeInv, TypeOK
  <1>8. CASE UNCHANGED vars
    BY <1>8 DEF vars
  <1> QED BY <1>3, <1>4, <1>5, <1>6, <1>7, <1>8 DEF Next, WorkerStep, HandlerStep

(* finalize_job publishes the state it leaves on disk, if set_job_state can    *)
(* write: the state a stage wrote is kept, and from Running every outcome is a  *)
(* legal transition.                                                           *)
LEMMA FinalizePublishes ==
    ASSUME "set" \notin StoreFaults, TypeInv, NEW p \in Procs, FinalizeJob(p)
    PROVE  snap'[p] = [job |-> wcmd[p].job, state |-> rows'[wcmd[p].job]]
  <1>1. wcmd[p].job \in Jobs /\ rows[wcmd[p].job] # NoRow
    BY WorkerJob DEF FinalizeJob, TypeInv, RowOK
  <1>2. rows' = SetJobState(rows, wcmd[p].job, FinalState(p))
    BY DEF FinalizeJob, Job
  <1>3. SetJobStateOk(rows, wcmd[p].job, FinalState(p))
    <2>1. CASE rows[wcmd[p].job] # "running"
      BY <1>1, <2>1 DEF SetJobStateOk, FinalState, Job
    <2>2. CASE rows[wcmd[p].job] = "running"
      <3>1. FinalState(p) \in {"succeeded", "paused", "failed"}
        BY <2>2 DEF FinalState, MapOutcome, Outcomes, Job, TypeInv, TypeOK
      <3> QED BY <1>1, <2>2, <3>1 DEF SetJobStateOk, CanTransitionTo
    <2> QED BY <2>1, <2>2
  <1>4. rows'[wcmd[p].job] = FinalState(p)
    BY <1>1, <1>2, <1>3 DEF SetJobState, TypeInv, TypeOK
  <1> QED BY <1>4 DEF FinalizeJob, Job, TypeInv, TypeOK

(* Every step keeps a published final state equal to the row. *)
LEMMA SnapshotNext ==
    ASSUME "set" \notin StoreFaults
    PROVE  TypeInv /\ OwnerInv /\ EndInv /\ SnapshotMatchesRow /\ [Next]_vars => SnapshotMatchesRow'
  <1> SUFFICES ASSUME TypeInv, OwnerInv, EndInv, SnapshotMatchesRow, [Next]_vars,
                      NEW p \in Procs, wpc'[p] = "drop"
               PROVE  snap'[p] = [job |-> wcmd'[p].job, state |-> rows'[wcmd'[p].job]]
    BY DEF SnapshotMatchesRow, Job
  <1> USE DEF durable, workerVars, progressVars, clientVars
  <1>1. CASE FinalizeJob(p)
    <2>1. wcmd' = wcmd
      BY <1>1 DEF FinalizeJob
    <2> QED BY <1>1, <2>1, FinalizePublishes
  <1>2. CASE ~FinalizeJob(p)
    <2>1. wpc[p] = "drop" /\ wcmd'[p] = wcmd[p]
      <3>1. ASSUME NEW c \in Clients, ClientCall(c) \/ ClientStep(c)
            PROVE  wpc' = wpc /\ wcmd' = wcmd
        BY <3>1 DEF ClientCall, ClientStep, CallStart, CallResume, CallCancel, CallShutdown,
           EnterAccept, Send, Return, TakeSender, JoinWorker, ShutdownReturns
      <3>2. ASSUME NEW q \in Procs, WorkerStep(q)
            PROVE  wpc[p] = "drop" /\ wcmd'[p] = wcmd[p]
        <4>1. q # p
          BY <1>2, <3>2, WorkerJob DEF WorkerStep, RecvShutdown, RecvCancel, RecvJob, Receive,
             OpenMatter, StartAccept, StartSetRunning, StartActivate, ResumeAccept, ResumeReopen,
             PublishStarted, JoinPoller, DropMatter, ClearActive, WGoto, TypeInv, TypeOK
        <4> QED BY <3>2, <4>1 DEF WorkerStep, RecvShutdown, RecvCancel, RecvJob, OpenMatter,
             StartAccept, StartSetRunning, StartActivate, ResumeAccept, ResumeReopen, PublishStarted,
             JoinPoller, FinalizeJob, DropMatter, ClearActive, WGoto, TypeInv, TypeOK
      <3>3. ASSUME NEW q \in Procs, HandlerStep(q) \/ PollerStep(q) \/ Restart(q)
            PROVE  wpc[p] = "drop" /\ wcmd'[p] = wcmd[p]
        BY <3>3 DEF HandlerStep, StageWrites, HandlerReturns, PollerStep, PollerExits, PatchClones,
           PatchSends, Restart, WGoto, TypeInv, TypeOK
      <3>4. ASSUME NEW j \in Jobs, CliJobCancel(j) PROVE wpc' = wpc /\ wcmd' = wcmd
        BY <3>4 DEF CliJobCancel
      <3>5. CASE UNCHANGED vars
        BY <3>5 DEF vars
      <3> QED BY <3>1, <3>2, <3>3, <3>4, <3>5 DEF Next
    <2>2. rows'[wcmd[p].job] = rows[wcmd[p].job]
      BY <2>1, RowHeld
    <2>3. snap'[p] = snap[p]
      <3>1. ASSUME NEW q \in Procs, PublishStarted(q) \/ FinalizeJob(q) \/ PatchSends(q) \/ Restart(q)
            PROVE  snap'[p] = snap[p]
        <4>1. q # p
          BY <1>2, <2>1, <3>1 DEF PublishStarted, PatchSends, Restart, EndInv, PollerOK, TypeInv, TypeOK
        <4> QED BY <3>1, <4>1 DEF PublishStarted, FinalizeJob, PatchSends, Restart, TypeInv, TypeOK
      <3> QED BY <3>1, SnapshotWriters
    <2> QED BY <2>1, <2>2, <2>3 DEF SnapshotMatchesRow, Job
  <1> QED BY <1>1, <1>2

(* The terminal snapshot is the state on disk for as long as the Matter is     *)
(* open: with a store whose writes succeed, in every interleaving with other    *)
(* processes, their restarts and the CLI's job cancel.                          *)
THEOREM SnapshotMatchesRowTheorem ==
    ASSUME "set" \notin StoreFaults
    PROVE  Spec => []SnapshotMatchesRow
  <1>1. Init => SnapshotMatchesRow
    BY DEF Init, SnapshotMatchesRow
  <1>2. TypeInv /\ OwnerInv /\ EndInv /\ SnapshotMatchesRow /\ [Next]_vars => SnapshotMatchesRow'
    BY SnapshotNext
  <1> QED BY <1>1, <1>2, TypeInit, TypeNext, OwnerNext, CallsInit, EndInit, EndNext, PTL DEF Spec

===========================================================================
