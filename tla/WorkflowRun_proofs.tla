------------------------ MODULE WorkflowRun_proofs ------------------------
(***************************************************************************)
(* Proofs about WorkflowRun, for every plan, every set of child identifiers *)
(* and any number of crashes.                                               *)
(***************************************************************************)
EXTENDS WorkflowRun, TLAPS

(* An entry that says something names a child. *)
CursorOK ==
    \A n \in Nodes : /\ cursor[n].status # "none" => cursor[n].job \in Children
                     /\ mem[n].status # "none" => mem[n].job \in Children

InNode == {"set_running", "announce", "child", "record", "decide", "soft"}

(* Inside a node the loop stands at that node with a child in hand; on the   *)
(* way out the handler has a verdict other than an error.                    *)
HandOK == /\ pc \in InNode => idx \in Nodes /\ child \in Children
          /\ pc = "decide" => mem[idx].status = term
          /\ pc = "solo" => child \in Children
          /\ pc \in {"cascade", "close"} => verdict # "err"

TypeInv == TypeOK /\ CursorOK /\ HandOK

(* Positions of the plan are numbers. *)
LEMMA PlanPositions ==
    /\ Nodes = 1..Len(Plan) /\ Len(Plan) \in Nat /\ 1 \in Nodes
    /\ \A n \in Nodes : Plan[n].soft \in BOOLEAN
    /\ None \notin Nodes /\ None \notin Children /\ Parent \notin Children
  <1>1. Nodes = 1..Len(Plan) /\ Len(Plan) \in Nat /\ 1 \in Nodes
    <2> DEFINE S == [type : {"job", "gate"}, soft : BOOLEAN]
    <2>1. Plan \in Seq(S) /\ Plan # << >>
      BY PlanAssumption
    <2> HIDE DEF S
    <2> QED BY <2>1 DEF Nodes
  <1>2. \A n \in Nodes : Plan[n].soft \in BOOLEAN
    <2>1. \A n \in Nodes : Plan[n] \in [type : {"job", "gate"}, soft : BOOLEAN]
      <3> DEFINE S == [type : {"job", "gate"}, soft : BOOLEAN]
      <3>1. Plan \in Seq(S)
        BY PlanAssumption
      <3> HIDE DEF S
      <3>2. \A n \in Nodes : Plan[n] \in S
        BY <3>1 DEF Nodes
      <3> QED BY <3>2 DEF S
    <2> QED BY <2>1
  <1>3. None \notin Nodes /\ None \notin Children /\ Parent \notin Children
    BY <1>1, PlanAssumption
  <1> QED BY <1>1, <1>2, <1>3

(* set_job_state keeps the table a table, touches one row, and writes only    *)
(* what it was asked to.                                                      *)
LEMMA SetTypes ==
    ASSUME TypeOK, NEW j \in Jobs, NEW s \in JobState
    PROVE  /\ SetJobState(rows, j, s) \in [Jobs -> RowState]
           /\ \A i \in Jobs \ {j} : SetJobState(rows, j, s)[i] = rows[i]
           /\ SetJobState(rows, j, s)[j] \in {rows[j], s}
           /\ rows[j] = NoRow => SetJobState(rows, j, s)[j] = NoRow
           /\ rows[j] = "succeeded" => SetJobState(rows, j, s)[j] = "succeeded"
           /\ rows[j] = "running" /\ s \in {"succeeded", "paused", "failed", "cancelled"}
                 => SetJobState(rows, j, s)[j] = s
  BY DEF TypeOK, SetJobState, SetJobStateOk, CanTransitionTo, RowState, JobState, NoRow

(* Before the first run every variable has its type. *)
LEMMA TypeInit == Init => TypeInv
  <1> SUFFICES ASSUME Init PROVE TypeInv
    OBVIOUS
  <1>1. NoEntry \in Entry /\ NoEntry.status = "none"
    BY DEF NoEntry, Entry, NodeStatus
  <1>2. TypeOK
    <2>1. crashes \in 0..MaxCrashes /\ idx \in 1..(Len(Plan) + 1)
      BY PlanAssumption, PlanPositions DEF Init
    <2>2. /\ rows \in [Jobs -> RowState] /\ fresh \in SUBSET Children
          /\ cursor \in [Nodes -> Entry] /\ mem \in [Nodes -> Entry]
      BY <1>1 DEF Init, RowState
    <2>3. /\ pc = "idle" /\ child = None /\ cancelled = FALSE
          /\ term = "succeeded" /\ verdict = "succeeded"
      BY DEF Init
    <2> QED BY <2>1, <2>2, <2>3 DEF TypeOK, PCs, Outcomes
  <1>3. CursorOK /\ HandOK
    BY <1>1 DEF Init, CursorOK, HandOK, InNode
  <1> QED BY <1>2, <1>3 DEF TypeInv

(* Every step of the runner, the handler and the CLI keeps the types. *)
LEMMA TypeNext == TypeInv /\ [Next]_vars => TypeInv'
  <1> SUFFICES ASSUME TypeInv, [Next]_vars PROVE TypeInv'
    OBVIOUS
  <1> USE DEF TypeInv
  <1>1. ASSUME StartRun PROVE TypeInv'
    BY <1>1 DEF StartRun, Accept, TypeOK, CursorOK, HandOK, InNode, PCs, Jobs,
       RowState, JobState
  <1>2. ASSUME ResumeRun PROVE TypeInv'
    BY <1>2 DEF ResumeRun, Accept, TypeOK, CursorOK, HandOK, InNode, PCs, Jobs,
       RowState, JobState
  <1>3. ASSUME NEW c \in Children, ResumeChild(c) PROVE TypeInv'
    BY <1>3 DEF ResumeChild, Accept, TypeOK, CursorOK, HandOK, InNode, PCs, Jobs,
       RowState, JobState
  <1>4. ASSUME Cancel PROVE TypeInv'
    BY <1>4 DEF Cancel, TypeOK, CursorOK, HandOK, InNode, PCs
  <1>5. ASSUME LoadCursor PROVE TypeInv'
    BY <1>5 DEF LoadCursor, Faulty, Fails, TypeOK, CursorOK, HandOK, InNode, PCs,
       Outcomes
  <1>6. ASSUME SkipNode PROVE TypeInv'
    BY <1>6, PlanPositions DEF SkipNode, AtNode, TypeOK, CursorOK, HandOK, InNode, PCs
  <1>7. ASSUME StopCancelled PROVE TypeInv'
    BY <1>7 DEF StopCancelled, AtNode, AfterPause, TypeOK, CursorOK, HandOK, InNode,
       PCs, Outcomes
  <1>8. ASSUME NEW c \in Children, CascadeCancel(c) PROVE TypeInv'
    BY <1>8, SetTypes DEF CascadeCancel, TypeOK, CursorOK, HandOK, InNode, PCs, Jobs,
       JobState
  <1>9. ASSUME CascadeDone PROVE TypeInv'
    BY <1>9 DEF CascadeDone, TypeOK, CursorOK, HandOK, InNode, PCs
  <1>10. ASSUME DispatchFails PROVE TypeInv'
    BY <1>10 DEF DispatchFails, Faulty, Fails, Dispatch, AtNode, TypeOK, CursorOK,
       HandOK, InNode, PCs, Outcomes
  <1>11. ASSUME ReuseChild PROVE TypeInv'
    BY <1>11, SetTypes DEF ReuseChild, Dispatch, AtNode, Reusable, Faulty, Fails,
       TypeOK, CursorOK, HandOK, InNode, PCs, Jobs, JobState, Outcomes
  <1>12. ASSUME NEW c \in Children, CreateChild(c) PROVE TypeInv'
    BY <1>12 DEF CreateChild, Dispatch, AtNode, CreateJob, Faulty, Fails, TypeOK,
       CursorOK, HandOK, InNode, PCs, Jobs, JobState, RowState, Outcomes
  <1>13. ASSUME SetChildRunning PROVE TypeInv'
    BY <1>13, SetTypes DEF SetChildRunning, Faulty, Fails, TypeOK, CursorOK, HandOK,
       InNode, PCs, Jobs, JobState, Outcomes
  <1>14. ASSUME AnnounceChild PROVE TypeInv'
    <2> DEFINE e == [status |-> "running", job |-> child]
    <2>1. e \in Entry /\ e.job \in Children
      BY <1>14 DEF AnnounceChild, HandOK, InNode, Entry, NodeStatus
    <2> HIDE DEF e
    <2>2. CASE Faulty("persist")
      BY <1>14, <2>2 DEF AnnounceChild, Faulty, Fails, TypeOK, CursorOK, HandOK, InNode, PCs,
         Outcomes
    <2>3. CASE ~Faulty("persist")
      <3>1. /\ mem' = [mem EXCEPT ![idx] = e] /\ cursor' = mem' /\ pc' = "child"
            /\ UNCHANGED <<rows, fresh, child, term, verdict, cancelled, crashes, idx>>
            /\ pc = "announce"
        BY <1>14, <2>3 DEF AnnounceChild, Persist, e
      <3> QED BY <2>1, <3>1 DEF TypeOK, CursorOK, HandOK, InNode, PCs
    <2> QED BY <2>2, <2>3
  <1>15. ASSUME NEW s \in {"succeeded", "paused", "failed"}, ChildWrites(s) PROVE TypeInv'
    BY <1>15, SetTypes DEF ChildWrites, TypeOK, CursorOK, HandOK, InNode, PCs, Jobs,
       JobState
  <1>16. ASSUME NEW out \in Outcomes, ChildReturns(out) PROVE TypeInv'
    BY <1>16, SetTypes DEF ChildReturns, FinalizeChild, MapOutcome, TypeOK, CursorOK,
       HandOK, InNode, PCs, Jobs, JobState, Outcomes
  <1>17. ASSUME RecordChild PROVE TypeInv'
    <2> DEFINE e == [status |-> term, job |-> child]
    <2>1. e \in Entry /\ e.job \in Children /\ e.status = term
      BY <1>17 DEF RecordChild, TypeOK, HandOK, InNode, Entry, NodeStatus
    <2> HIDE DEF e
    <2>2. CASE Faulty("persist")
      BY <1>17, <2>2 DEF RecordChild, Faulty, Fails, TypeOK, CursorOK, HandOK, InNode, PCs,
         Outcomes
    <2>3. CASE ~Faulty("persist")
      <3>1. /\ mem' = [mem EXCEPT ![idx] = e] /\ cursor' = mem' /\ pc' = "decide"
            /\ UNCHANGED <<rows, fresh, child, term, verdict, cancelled, crashes, idx>>
            /\ pc = "record"
        BY <1>17, <2>3 DEF RecordChild, Persist, e
      <3> QED BY <2>1, <3>1 DEF TypeOK, CursorOK, HandOK, InNode, PCs
    <2> QED BY <2>2, <2>3
  <1>18. ASSUME ChildSucceeded PROVE TypeInv'
    BY <1>18, PlanPositions DEF ChildSucceeded, NextNode, TypeOK, CursorOK, HandOK,
       InNode, PCs
  <1>19. ASSUME ChildPaused PROVE TypeInv'
    BY <1>19 DEF ChildPaused, AfterPause, TypeOK, CursorOK, HandOK, InNode, PCs,
       Outcomes
  <1>20. ASSUME ChildSoftFailed PROVE TypeInv'
    <2> DEFINE e == [mem[idx] EXCEPT !.status = "soft_failed"]
    <2>1. /\ idx \in Nodes /\ mem[idx] \in Entry /\ mem[idx].job \in Children
          /\ pc = "decide"
      BY <1>20 DEF ChildSoftFailed, TypeOK, HandOK, InNode, CursorOK
    <2>2. e \in Entry /\ e.job \in Children
      BY <2>1 DEF Entry, NodeStatus
    <2> HIDE DEF e
    <2>3. CASE Faulty("persist")
      BY <1>20, <2>3 DEF ChildSoftFailed, Faulty, Fails, TypeOK, CursorOK, HandOK, InNode, PCs,
         Outcomes
    <2>4. CASE NextNode /\ UNCHANGED mem
      BY <2>1, <2>4, PlanPositions DEF NextNode, TypeOK, CursorOK, HandOK, InNode, PCs
    <2>5. CASE /\ mem' = [mem EXCEPT ![idx] = e] /\ cursor' = mem' /\ pc' = "soft"
               /\ UNCHANGED <<rows, fresh, child, term, verdict, cancelled, crashes, idx>>
      BY <2>1, <2>2, <2>5 DEF TypeOK, CursorOK, HandOK, InNode, PCs
    <2> QED BY <1>20, <2>3, <2>4, <2>5 DEF ChildSoftFailed, Persist, NextNode, e
  <1>21. ASSUME AfterSoftFailure PROVE TypeInv'
    BY <1>21, PlanPositions DEF AfterSoftFailure, NextNode, TypeOK, CursorOK, HandOK,
       InNode, PCs
  <1>22. ASSUME ChildFailed PROVE TypeInv'
    BY <1>22 DEF ChildFailed, TypeOK, CursorOK, HandOK, InNode, PCs, Outcomes
  <1>23. ASSUME Complete PROVE TypeInv'
    BY <1>23 DEF Complete, TypeOK, CursorOK, HandOK, InNode, PCs, Outcomes
  <1>24. ASSUME CloseParent PROVE TypeInv'
    <2>1. verdict \in JobState /\ Parent \in Jobs
      BY <1>24 DEF CloseParent, TypeOK, HandOK, Outcomes, JobState, Jobs
    <2>2. SetJobState(rows, Parent, verdict) \in [Jobs -> RowState]
      BY <2>1, SetTypes
    <2>3. CASE Faulty("set") \/ Faulty("persist")
      BY <1>24, <2>3 DEF CloseParent, Faulty, Fails, TypeOK, CursorOK, HandOK, InNode, PCs,
         Outcomes
    <2>4. CASE ~(Faulty("set") \/ Faulty("persist"))
      BY <1>24, <2>2, <2>4 DEF CloseParent, TypeOK, CursorOK, HandOK, InNode, PCs
    <2> QED BY <2>3, <2>4
  <1>25. ASSUME FinalizeParent PROVE TypeInv'
    BY <1>25, SetTypes DEF FinalizeParent, FinalizeRun, MapOutcome, TypeOK, CursorOK,
       HandOK, InNode, PCs, Jobs, JobState, Outcomes
  <1>26. ASSUME NEW out \in Outcomes, ChildRunReturns(out) PROVE TypeInv'
    BY <1>26, SetTypes DEF ChildRunReturns, FinalizeRun, MapOutcome, TypeOK, CursorOK,
       HandOK, InNode, PCs, Jobs, JobState, Outcomes
  <1>27. ASSUME Release PROVE TypeInv'
    <2>1. NoEntry \in Entry /\ NoEntry.status = "none"
      BY DEF NoEntry, Entry, NodeStatus
    <2>2. mem' \in [Nodes -> Entry] /\ (\A n \in Nodes : mem'[n].status = "none")
      BY <1>27, <2>1 DEF Release, Forget
    <2>4. /\ pc' = "idle" /\ idx' = 1 /\ child' = None /\ cancelled' = FALSE
          /\ term' = "succeeded" /\ verdict' = "succeeded"
          /\ UNCHANGED <<rows, cursor, fresh>>
      BY <1>27 DEF Release, Forget
    <2>5. crashes' \in 0..MaxCrashes /\ idx' \in 1..(Len(Plan) + 1)
      BY <1>27, <2>4, PlanPositions DEF Release, TypeOK
    <2> QED BY <2>2, <2>4, <2>5 DEF TypeOK, CursorOK, HandOK, InNode, PCs, Outcomes
  <1>28. ASSUME Crash PROVE TypeInv'
    <2>1. NoEntry \in Entry /\ NoEntry.status = "none"
      BY DEF NoEntry, Entry, NodeStatus
    <2>2. mem' \in [Nodes -> Entry] /\ (\A n \in Nodes : mem'[n].status = "none")
      BY <1>28, <2>1 DEF Crash, Forget
    <2>3. crashes' \in 0..MaxCrashes
      BY <1>28, PlanAssumption DEF Crash, TypeOK
    <2>4. /\ pc' = "idle" /\ idx' = 1 /\ child' = None /\ cancelled' = FALSE
          /\ term' = "succeeded" /\ verdict' = "succeeded"
          /\ UNCHANGED <<rows, cursor, fresh>>
      BY <1>28 DEF Crash, Forget
    <2>5. crashes' \in 0..MaxCrashes /\ idx' \in 1..(Len(Plan) + 1)
      BY <1>28, <2>3, <2>4, PlanPositions DEF Crash, TypeOK
    <2> QED BY <2>2, <2>4, <2>5 DEF TypeOK, CursorOK, HandOK, InNode, PCs, Outcomes
  <1>29. ASSUME NEW j \in Jobs, CliJobCancel(j) PROVE TypeInv'
    BY <1>29, SetTypes DEF CliJobCancel, TypeOK, CursorOK, HandOK, InNode, PCs, Jobs,
       JobState
  <1>30. ASSUME UNCHANGED vars PROVE TypeInv'
    BY <1>30 DEF vars, TypeOK, CursorOK, HandOK, InNode, PCs
  <1> QED
    BY <1>1, <1>2, <1>3, <1>4, <1>5, <1>6, <1>7, <1>8, <1>9, <1>10, <1>11, <1>12,
       <1>13, <1>14, <1>15, <1>16, <1>17, <1>18, <1>19, <1>20, <1>21, <1>22, <1>23,
       <1>24, <1>25, <1>26, <1>27, <1>28, <1>29, <1>30 DEF Next, HandlerStep
(* Every variable of the handler and of the matter it works on keeps its type, *)
(* over every plan, crash, failing write, cancel and resume.                   *)
THEOREM TypeCorrect == Spec => []TypeOK
  <1>1. TypeInv => TypeOK
    BY DEF TypeInv
  <1> QED BY <1>1, TypeInit, TypeNext, PTL DEF Spec

----------------------------------------------------------------------------
(* A run that returns frees the matter, if its own writes do not fail. *)

(* Who may be Running: the parent until the runner's finalize_job, and the    *)
(* child from the step that starts it to the one that ends it.                *)
RunningOK ==
    \A j \in Jobs : rows[j] = "running" =>
        \/ pc = "idle"
        \/ j = Parent /\ pc \notin {"solo", "returned"}
        \/ j = child /\ pc \in {"announce", "child", "solo"}

(* Every step keeps it, whichever of the other calls fail. *)
LEMMA RunningNext ==
    ASSUME StoreFaults \subseteq {"dispatch", "create"},
           TypeInv, RunningOK, [Next]_vars
    PROVE  RunningOK'
  <1>1. ASSUME StartRun PROVE RunningOK'
    BY <1>1 DEF StartRun, Accept, RunningOK, Admitted, RunningRows, TypeInv, TypeOK
  <1>2. ASSUME ResumeRun PROVE RunningOK'
    BY <1>2 DEF ResumeRun, Accept, RunningOK, Admitted, RunningRows, TypeInv, TypeOK
  <1>3. ASSUME NEW c \in Children, ResumeChild(c) PROVE RunningOK'
    BY <1>3 DEF ResumeChild, Accept, RunningOK, Admitted, RunningRows, TypeInv, TypeOK
  <1>4. ASSUME Cancel PROVE RunningOK'
    BY <1>4 DEF Cancel, RunningOK
  <1>5. ASSUME LoadCursor PROVE RunningOK'
    BY <1>5 DEF LoadCursor, Faulty, Fails, RunningOK
  <1>6. ASSUME SkipNode PROVE RunningOK'
    BY <1>6 DEF SkipNode, AtNode, RunningOK
  <1>7. ASSUME StopCancelled PROVE RunningOK'
    BY <1>7 DEF StopCancelled, AtNode, AfterPause, RunningOK
  <1>8. ASSUME NEW c \in Children, CascadeCancel(c) PROVE RunningOK'
    <2>1. c \in Jobs /\ c # Parent /\ pc = "cascade" /\ rows[c] # "running"
      BY <1>8, PlanPositions DEF CascadeCancel, RunningOK, Jobs
    <2>2. rows' = SetJobState(rows, c, "cancelled")
      BY <1>8, <2>1 DEF CascadeCancel
    <2>3. \A i \in Jobs : rows'[i] = rows[i] \/ rows'[i] = "cancelled"
      <3>1. "cancelled" \in JobState /\ TypeOK
        BY DEF JobState, TypeInv
      <3> QED BY <2>1, <2>2, <3>1, SetTypes
    <2> QED BY <1>8, <2>3 DEF CascadeCancel, RunningOK
  <1>9. ASSUME CascadeDone PROVE RunningOK'
    BY <1>9 DEF CascadeDone, RunningOK
  <1>10. ASSUME DispatchFails PROVE RunningOK'
    BY <1>10 DEF DispatchFails, Faulty, Fails, Dispatch, AtNode, RunningOK
  <1>11. ASSUME ReuseChild PROVE RunningOK'
    BY <1>11, PlanPositions, SetTypes DEF ReuseChild, Dispatch, AtNode, Reusable,
       Faulty, Fails, RunningOK, TypeInv, TypeOK, HandOK, InNode, CursorOK, Outcomes,
       JobState, Jobs
  <1>12. ASSUME NEW c \in Children, CreateChild(c) PROVE RunningOK'
    BY <1>12 DEF CreateChild, Dispatch, AtNode, CreateJob, Faulty, Fails, RunningOK,
       TypeInv, TypeOK
  <1>13. ASSUME SetChildRunning PROVE RunningOK'
    BY <1>13, SetTypes DEF SetChildRunning, Faulty, Fails, RunningOK, Jobs, JobState,
       TypeInv, HandOK, InNode
  <1>14. ASSUME AnnounceChild PROVE RunningOK'
    BY <1>14 DEF AnnounceChild, Persist, Faulty, Fails, RunningOK
  <1>15. ASSUME NEW s \in {"succeeded", "paused", "failed"}, ChildWrites(s) PROVE RunningOK'
    BY <1>15, SetTypes DEF ChildWrites, RunningOK, Jobs, JobState, TypeInv, HandOK,
       InNode
  <1>16. ASSUME NEW out \in Outcomes, ChildReturns(out) PROVE RunningOK'
    <2>1. /\ child \in Jobs /\ child # Parent /\ pc = "child"
          /\ pc' = "record" /\ child' = child
      BY <1>16, PlanPositions DEF ChildReturns, TypeInv, HandOK, InNode, Jobs
    <2>2. MapOutcome(out) \in {"succeeded", "paused", "failed"}
      BY DEF MapOutcome, Outcomes
    <2>3. rows' = IF rows[child] = "running" \/ out = "err"
                  THEN SetJobState(rows, child, MapOutcome(out)) ELSE rows
      BY <1>16 DEF ChildReturns, FinalizeChild
    <2>4. rows'[child] # "running" /\ \A i \in Jobs \ {child} : rows'[i] = rows[i]
      BY <2>1, <2>2, <2>3, SetTypes DEF TypeInv, JobState
    <2> QED BY <2>1, <2>4 DEF RunningOK
  <1>17. ASSUME RecordChild PROVE RunningOK'
    BY <1>17 DEF RecordChild, Persist, Faulty, Fails, RunningOK
  <1>18. ASSUME ChildSucceeded PROVE RunningOK'
    BY <1>18 DEF ChildSucceeded, NextNode, RunningOK
  <1>19. ASSUME ChildPaused PROVE RunningOK'
    BY <1>19 DEF ChildPaused, AfterPause, RunningOK
  <1>20. ASSUME ChildSoftFailed PROVE RunningOK'
    BY <1>20 DEF ChildSoftFailed, Persist, NextNode, Faulty, Fails, RunningOK
  <1>21. ASSUME AfterSoftFailure PROVE RunningOK'
    BY <1>21 DEF AfterSoftFailure, NextNode, RunningOK
  <1>22. ASSUME ChildFailed PROVE RunningOK'
    BY <1>22 DEF ChildFailed, RunningOK
  <1>23. ASSUME Complete PROVE RunningOK'
    BY <1>23 DEF Complete, RunningOK
  <1>24. ASSUME CloseParent PROVE RunningOK'
    BY <1>24, SetTypes DEF CloseParent, Faulty, Fails, RunningOK, Jobs, JobState,
       TypeInv, TypeOK, HandOK, Outcomes
  <1>25. ASSUME FinalizeParent PROVE RunningOK'
    BY <1>25, SetTypes DEF FinalizeParent, FinalizeRun, MapOutcome, RunningOK, Jobs,
       JobState, TypeInv, TypeOK, HandOK, Outcomes
  <1>26. ASSUME NEW out \in Outcomes, ChildRunReturns(out) PROVE RunningOK'
    <2>1. child \in Jobs /\ pc = "solo" /\ pc' = "returned" /\ child' = child
      BY <1>26 DEF ChildRunReturns, FinalizeRun, TypeInv, HandOK, Jobs
    <2>2. MapOutcome(out) \in {"succeeded", "paused", "failed"}
      BY DEF MapOutcome, Outcomes
    <2>3. rows' = IF rows[child] = "running" THEN SetJobState(rows, child, MapOutcome(out))
                                             ELSE rows
      BY <1>26 DEF ChildRunReturns, FinalizeRun
    <2> HIDE DEF MapOutcome
    <2>4. rows'[child] # "running" /\ \A i \in Jobs \ {child} : rows'[i] = rows[i]
      BY <2>1, <2>2, <2>3, SetTypes DEF TypeInv, JobState
    <2> QED BY <2>1, <2>4 DEF RunningOK
  <1>27. ASSUME Release PROVE RunningOK'
    BY <1>27 DEF Release, Forget, RunningOK
  <1>28. ASSUME Crash PROVE RunningOK'
    BY <1>28 DEF Crash, Forget, RunningOK
  <1>29. ASSUME NEW j \in Jobs, CliJobCancel(j) PROVE RunningOK'
    BY <1>29 DEF CliJobCancel, RunningOK
  <1>30. ASSUME UNCHANGED vars PROVE RunningOK'
    BY <1>30 DEF vars, RunningOK
  <1> QED
    BY <1>1, <1>2, <1>3, <1>4, <1>5, <1>6, <1>7, <1>8, <1>9, <1>10, <1>11, <1>12,
       <1>13, <1>14, <1>15, <1>16, <1>17, <1>18, <1>19, <1>20, <1>21, <1>22, <1>23,
       <1>24, <1>25, <1>26, <1>27, <1>28, <1>29, <1>30 DEF Next, HandlerStep

(* A run that completes, pauses, fails or is cancelled leaves no Running row, *)
(* as long as cursor and state writes succeed.                                *)
THEOREM ReturnFreesMatterTheorem ==
    ASSUME StoreFaults \subseteq {"dispatch", "create"}
    PROVE  Spec => []ReturnFreesMatter
  <1>1. Init => RunningOK
    BY DEF Init, RunningOK
  <1>2. TypeInv /\ RunningOK => ReturnFreesMatter
    BY DEF RunningOK, ReturnFreesMatter, RunningRows
  <1>3. TypeInv /\ RunningOK /\ [Next]_vars => RunningOK'
    BY RunningNext
  <1> QED BY <1>1, <1>2, <1>3, TypeInit, TypeNext, PTL DEF Spec

----------------------------------------------------------------------------
(* The handler carries out its plan. *)

(* A node that has had its turn. *)
Done(n) == \/ cursor[n].status \in {"succeeded", "soft_failed"}
           \/ cursor[n].status = "failed" /\ Plan[n].soft /\ Plan[n].type # "gate"

(* While the plan loop runs, memory and checkpoint agree, the nodes passed    *)
(* have had their turn, and the parent's row is Running.                      *)
LoopOK ==
    pc \in InNode \cup {"loop"} =>
        /\ mem = cursor
        /\ \A i \in Nodes : i < idx => Done(i)

(* The current node's entry says how far its child has got. *)
EntryOK ==
    /\ pc \in {"set_running", "announce"} => ~TerminalForResume(cursor[idx].status)
    /\ pc \in {"child", "record"} => cursor[idx].status = "running"
    /\ pc = "decide" => cursor[idx].status = term
    /\ pc = "soft" => cursor[idx].status = "soft_failed"

(* A verdict of success comes from the end of the plan, and only then does    *)
(* the parent's row leave Running for Succeeded.                              *)
VerdictOK ==
    /\ pc \in InNode \cup {"loop", "load"} => rows[Parent] = "running"
    /\ pc \in {"cascade", "close", "finalize"} /\ verdict = "succeeded" =>
          \A n \in Nodes : Done(n)
    /\ rows[Parent] = "succeeded" => \A n \in Nodes : Done(n)

RunInv == LoopOK /\ EntryOK /\ VerdictOK

(* Every step of the runner, the handler and the CLI keeps it. *)
LEMMA RunNext == TypeInv /\ RunInv /\ [Next]_vars => RunInv'
  <1> SUFFICES ASSUME TypeInv, RunInv, [Next]_vars PROVE RunInv'
    OBVIOUS
  <1>1. ASSUME StartRun PROVE RunInv'
    BY <1>1, PlanPositions DEF StartRun, Accept, RunInv, LoopOK, EntryOK, VerdictOK,
       Done, InNode, TypeInv, TypeOK, Jobs
  <1>2. ASSUME ResumeRun PROVE RunInv'
    BY <1>2, PlanPositions DEF ResumeRun, Accept, RunInv, LoopOK, EntryOK, VerdictOK,
       Done, InNode, TypeInv, TypeOK, Jobs
  <1>3. ASSUME NEW c \in Children, ResumeChild(c) PROVE RunInv'
    BY <1>3 DEF ResumeChild, Accept, RunInv, LoopOK, EntryOK, VerdictOK, Done, InNode
  <1>4. ASSUME Cancel PROVE RunInv'
    BY <1>4 DEF Cancel, RunInv, LoopOK, EntryOK, VerdictOK, Done, InNode
  <1>5. ASSUME LoadCursor PROVE RunInv'
    BY <1>5, PlanPositions DEF LoadCursor, Faulty, Fails, RunInv, LoopOK, EntryOK,
       VerdictOK, Done, InNode, TypeInv, TypeOK
  <1>6. ASSUME SkipNode PROVE RunInv'
    BY <1>6, PlanPositions DEF SkipNode, AtNode, RunInv, LoopOK, EntryOK, VerdictOK,
       Done, InNode, TypeInv, TypeOK, TerminalForResume
  <1>7. ASSUME StopCancelled PROVE RunInv'
    BY <1>7 DEF StopCancelled, AtNode, AfterPause, RunInv, LoopOK, EntryOK, VerdictOK,
       Done, InNode
  <1>8. ASSUME NEW c \in Children, CascadeCancel(c) PROVE RunInv'
    <2>1. c \in Jobs /\ Parent \in Jobs /\ c # Parent
      BY PlanPositions DEF Jobs
    <2>2. PICK s \in JobState : rows' = SetJobState(rows, c, s)
      BY <1>8 DEF CascadeCancel, JobState
    <2>3. rows'[Parent] = rows[Parent]
      BY <2>1, <2>2, SetTypes DEF TypeInv
    <2> QED BY <1>8, <2>3 DEF CascadeCancel, RunInv, LoopOK, EntryOK, VerdictOK, Done, InNode
  <1>9. ASSUME CascadeDone PROVE RunInv'
    BY <1>9 DEF CascadeDone, RunInv, LoopOK, EntryOK, VerdictOK, Done, InNode
  <1>10. ASSUME DispatchFails PROVE RunInv'
    BY <1>10 DEF DispatchFails, Faulty, Fails, Dispatch, AtNode, RunInv, LoopOK,
       EntryOK, VerdictOK, Done, InNode, TerminalForResume
  <1>11. ASSUME ReuseChild PROVE RunInv'
    <2>1. CASE Faulty("set")
      BY <1>11, <2>1 DEF ReuseChild, Dispatch, AtNode, Faulty, Fails, RunInv, LoopOK, EntryOK,
         VerdictOK, Done, InNode
    <2>2. CASE ~Faulty("set")
      <3>1. /\ rows' = SetJobState(rows, mem[idx].job, "running") /\ pc' = "announce"
            /\ UNCHANGED <<cursor, mem, fresh, idx, term, verdict, cancelled, crashes>>
            /\ pc = "loop" /\ idx \in Nodes /\ ~TerminalForResume(mem[idx].status)
            /\ mem[idx].status = "paused"
        BY <1>11, <2>2 DEF ReuseChild, Dispatch, AtNode, Reusable
      <3>2. mem[idx].job \in Jobs /\ mem[idx].job # Parent /\ Parent \in Jobs
        BY <3>1, PlanPositions DEF TypeInv, CursorOK, Jobs
      <3>3. rows'[Parent] = rows[Parent]
        <4>1. "running" \in JobState /\ TypeOK
          BY DEF JobState, TypeInv
        <4> QED BY <3>1, <3>2, <4>1, SetTypes
      <3> QED BY <3>1, <3>3 DEF RunInv, LoopOK, EntryOK, VerdictOK, Done, InNode
    <2> QED BY <2>1, <2>2
  <1>12. ASSUME NEW c \in Children, CreateChild(c) PROVE RunInv'
    BY <1>12, PlanPositions DEF CreateChild, Dispatch, AtNode, CreateJob, Faulty,
       Fails, RunInv, LoopOK, EntryOK, VerdictOK, Done, InNode, TypeInv, TypeOK, Jobs,
       TerminalForResume
  <1>13. ASSUME SetChildRunning PROVE RunInv'
    BY <1>13, SetTypes, PlanPositions DEF SetChildRunning, Faulty, Fails, RunInv,
       LoopOK, EntryOK, VerdictOK, Done, InNode, TypeInv, HandOK, Jobs, JobState,
       TerminalForResume
  <1>14. ASSUME AnnounceChild PROVE RunInv'
    BY <1>14, PlanPositions DEF AnnounceChild, Persist, Faulty, Fails, RunInv, LoopOK,
       EntryOK, VerdictOK, Done, InNode, TypeInv, TypeOK, HandOK, TerminalForResume
  <1>15. ASSUME NEW s \in {"succeeded", "paused", "failed"}, ChildWrites(s) PROVE RunInv'
    BY <1>15, SetTypes, PlanPositions DEF ChildWrites, RunInv, LoopOK, EntryOK,
       VerdictOK, Done, InNode, TypeInv, HandOK, Jobs, JobState
  <1>16. ASSUME NEW out \in Outcomes, ChildReturns(out) PROVE RunInv'
    BY <1>16, PlanPositions, SetTypes DEF ChildReturns, FinalizeChild, MapOutcome,
       RunInv, LoopOK, EntryOK, VerdictOK, Done, InNode, TypeInv, TypeOK, HandOK,
       CursorOK, Outcomes, JobState, Jobs
  <1>17. ASSUME RecordChild PROVE RunInv'
    BY <1>17, PlanPositions DEF RecordChild, Persist, Faulty, Fails, RunInv, LoopOK,
       EntryOK, VerdictOK, Done, InNode, TypeInv, TypeOK, HandOK, CursorOK, Outcomes,
       Jobs, TerminalForResume
  <1>18. ASSUME ChildSucceeded PROVE RunInv'
    BY <1>18, PlanPositions DEF ChildSucceeded, NextNode, RunInv, LoopOK, EntryOK,
       VerdictOK, Done, InNode, TypeInv, TypeOK
  <1>19. ASSUME ChildPaused PROVE RunInv'
    BY <1>19 DEF ChildPaused, AfterPause, RunInv, LoopOK, EntryOK, VerdictOK, Done,
       InNode
  <1>20. ASSUME ChildSoftFailed PROVE RunInv'
    <2> DEFINE e == [mem[idx] EXCEPT !.status = "soft_failed"]
    <2>1. /\ idx \in Nodes /\ mem[idx] \in Entry /\ pc = "decide" /\ mem = cursor
          /\ cursor[idx].status = "failed" /\ Plan[idx].soft /\ Plan[idx].type # "gate"
      BY <1>20 DEF ChildSoftFailed, TypeInv, TypeOK, HandOK, InNode, AllowSoft, IsGate, RunInv,
         LoopOK, EntryOK
    <2>2. e.status = "soft_failed"
      BY <2>1 DEF Entry
    <2> HIDE DEF e
    <2>3. CASE Faulty("persist")
      BY <1>20, <2>3 DEF ChildSoftFailed, Faulty, Fails, RunInv, LoopOK, EntryOK, VerdictOK,
         Done, InNode
    <2>4. CASE NextNode /\ UNCHANGED mem
      <3>1. \A i \in Nodes : i < idx' => Done(i)
        BY <2>1, <2>4, PlanPositions DEF NextNode, RunInv, LoopOK, InNode, Done, TypeInv, TypeOK
      <3> QED BY <2>1, <2>4, <3>1 DEF NextNode, RunInv, LoopOK, EntryOK, VerdictOK, Done, InNode
    <2>5. CASE /\ mem' = [mem EXCEPT ![idx] = e] /\ cursor' = mem' /\ pc' = "soft"
               /\ UNCHANGED <<rows, fresh, child, term, verdict, cancelled, crashes, idx>>
      <3>1. cursor'[idx] = e /\ \A i \in Nodes \ {idx} : cursor'[i] = cursor[i]
        BY <2>1, <2>5 DEF TypeInv, TypeOK
      <3>2. \A i \in Nodes : i # idx /\ Done(i) => Done(i)'
        BY <3>1 DEF Done
      <3> QED BY <2>1, <2>2, <2>5, <3>1, <3>2, PlanPositions
              DEF RunInv, LoopOK, EntryOK, VerdictOK, InNode
    <2> QED BY <1>20, <2>3, <2>4, <2>5 DEF ChildSoftFailed, Persist, NextNode, e
  <1>21. ASSUME AfterSoftFailure PROVE RunInv'
    BY <1>21, PlanPositions DEF AfterSoftFailure, NextNode, RunInv, LoopOK, EntryOK,
       VerdictOK, Done, InNode, TypeInv, TypeOK
  <1>22. ASSUME ChildFailed PROVE RunInv'
    BY <1>22 DEF ChildFailed, RunInv, LoopOK, EntryOK, VerdictOK, Done, InNode
  <1>23. ASSUME Complete PROVE RunInv'
    BY <1>23, PlanPositions DEF Complete, RunInv, LoopOK, EntryOK, VerdictOK, Done,
       InNode, TypeInv, TypeOK
  <1>24. ASSUME CloseParent PROVE RunInv'
    BY <1>24, PlanPositions, SetTypes DEF CloseParent, Faulty, Fails, RunInv, LoopOK,
       EntryOK, VerdictOK, Done, InNode, TypeInv, TypeOK, HandOK, CursorOK, Outcomes,
       JobState, Jobs
  <1>25. ASSUME FinalizeParent PROVE RunInv'
    BY <1>25, PlanPositions, SetTypes DEF FinalizeParent, FinalizeRun, MapOutcome,
       RunInv, LoopOK, EntryOK, VerdictOK, Done, InNode, TypeInv, TypeOK, HandOK,
       CursorOK, Outcomes, JobState, Jobs
  <1>26. ASSUME NEW out \in Outcomes, ChildRunReturns(out) PROVE RunInv'
    BY <1>26, PlanPositions, SetTypes DEF ChildRunReturns, FinalizeRun, MapOutcome,
       RunInv, LoopOK, EntryOK, VerdictOK, Done, InNode, TypeInv, TypeOK, HandOK,
       CursorOK, Outcomes, JobState, Jobs
  <1>27. ASSUME Release PROVE RunInv'
    BY <1>27 DEF Release, Forget, RunInv, LoopOK, EntryOK, VerdictOK, Done, InNode
  <1>28. ASSUME Crash PROVE RunInv'
    BY <1>28 DEF Crash, Forget, RunInv, LoopOK, EntryOK, VerdictOK, Done, InNode
  <1>29. ASSUME NEW j \in Jobs, CliJobCancel(j) PROVE RunInv'
    BY <1>29, SetTypes DEF CliJobCancel, RunInv, LoopOK, EntryOK, VerdictOK, Done,
       InNode, TypeInv, Jobs, JobState
  <1>30. ASSUME UNCHANGED vars PROVE RunInv'
    BY <1>30 DEF vars, RunInv, LoopOK, EntryOK, VerdictOK, Done, InNode
  <1> QED
    BY <1>1, <1>2, <1>3, <1>4, <1>5, <1>6, <1>7, <1>8, <1>9, <1>10, <1>11, <1>12,
       <1>13, <1>14, <1>15, <1>16, <1>17, <1>18, <1>19, <1>20, <1>21, <1>22, <1>23,
       <1>24, <1>25, <1>26, <1>27, <1>28, <1>29, <1>30 DEF Next, HandlerStep

(* The node the abstract run is executing. *)
Current == IF pc \in {"child", "record"} THEN idx ELSE None

(* A step that leaves the checkpoint, the node being executed and the report  *)
(* of success alone is a stuttering step of the abstract run.                 *)
LEMMA PlanStutters ==
    ASSUME UNCHANGED <<cursor, Current>>,
           rows'[Parent] = "succeeded" <=> rows[Parent] = "succeeded"
    PROVE  UNCHANGED PlanRefinement!planVars
  BY DEF PlanRefinement!planVars, Current

(* set_job_state on a child leaves the parent's row alone. *)
LEMMA ChildRowOnly ==
    ASSUME TypeInv, NEW c \in Children, NEW s \in JobState,
           rows' = SetJobState(rows, c, s) \/ rows' = rows
    PROVE  rows'[Parent] = rows[Parent]
  BY SetTypes, PlanPositions DEF TypeInv, Jobs

(* The child is announced: the abstract run begins the node. *)
LEMMA AnnounceBegins ==
    ASSUME TypeInv, RunInv, AnnounceChild, ~Faulty("persist")
    PROVE  \E n \in Nodes : PlanRefinement!Begin(n)
  <1>1. /\ pc = "announce" /\ pc' = "child" /\ rows' = rows /\ idx' = idx /\ idx \in Nodes
        /\ cursor' = [cursor EXCEPT ![idx] = [status |-> "running", job |-> child]]
    BY DEF AnnounceChild, Persist, RunInv, LoopOK, TypeInv, HandOK, InNode
  <1>2. /\ cursor'[idx].status = "running"
        /\ \A n \in Nodes \ {idx} : cursor'[n] = cursor[n]
    BY <1>1 DEF TypeInv, TypeOK
  <1>3. rows[Parent] # "succeeded" /\ cursor[idx].status \notin {"succeeded", "soft_failed"}
    BY <1>1 DEF RunInv, EntryOK, VerdictOK, InNode, TerminalForResume
  <1>4. \A i \in Nodes : i < idx => Done(i)
    BY <1>1 DEF RunInv, LoopOK, InNode
  <1>5. PICK n \in Nodes : n = idx
    BY <1>1
  <1>6. PlanRefinement!Begin(n)
    BY <1>1, <1>2, <1>3, <1>4, <1>5 DEF PlanRefinement!Begin, PlanRefinement!TurnOf, Done
  <1> QED BY <1>6

(* The child's end is recorded: the abstract run settles the node, passes it  *)
(* over or is interrupted.                                                    *)
LEMMA RecordEnds ==
    ASSUME TypeInv, RunInv, RecordChild, ~Faulty("persist")
    PROVE  \/ \E n \in Nodes : PlanRefinement!Settle(n) \/ PlanRefinement!PassOver(n)
           \/ PlanRefinement!Interrupt
  <1>1. /\ pc = "record" /\ pc' = "decide" /\ rows' = rows /\ idx' = idx /\ idx \in Nodes
        /\ cursor' = [cursor EXCEPT ![idx] = [status |-> term, job |-> child]]
        /\ term \in {"succeeded", "paused", "failed"}
    BY DEF RecordChild, Persist, RunInv, LoopOK, TypeInv, TypeOK, HandOK, InNode
  <1>2. /\ cursor'[idx].status = term /\ cursor[idx].status = "running"
        /\ \A n \in Nodes \ {idx} : cursor'[n] = cursor[n]
    BY <1>1 DEF TypeInv, TypeOK, RunInv, EntryOK
  <1> PICK n \in Nodes : n = idx
    BY <1>1
  <1>3. CASE term = "succeeded"
    <2>1. PlanRefinement!Settle(n)
      BY <1>1, <1>2, <1>3 DEF PlanRefinement!Settle
    <2> QED BY <2>1
  <1>4. CASE term = "failed" /\ Plan[idx].soft /\ Plan[idx].type # "gate"
    <2>1. PlanRefinement!PassOver(n)
      BY <1>1, <1>2, <1>4 DEF PlanRefinement!PassOver
    <2> QED BY <2>1
  <1>5. CASE term = "paused" \/ (term = "failed" /\ ~(Plan[idx].soft /\ Plan[idx].type # "gate"))
    BY <1>1, <1>2, <1>5, PlanPositions DEF PlanRefinement!Interrupt
  <1> QED BY <1>1, <1>3, <1>4, <1>5

(* The cursor says soft_failed: the failure passed over becomes final. *)
LEMMA SoftSettles ==
    ASSUME TypeInv, RunInv, ChildSoftFailed, pc' = "soft"
    PROVE  \E n \in Nodes : PlanRefinement!SettlePassed(n)
  <1> DEFINE e == [mem[idx] EXCEPT !.status = "soft_failed"]
  <1>1. /\ pc = "decide" /\ rows' = rows /\ idx' = idx /\ idx \in Nodes
        /\ mem = cursor /\ cursor' = [cursor EXCEPT ![idx] = e]
        /\ cursor[idx].status = "failed" /\ Plan[idx].soft /\ Plan[idx].type # "gate"
    BY DEF ChildSoftFailed, Persist, Faulty, Fails, NextNode, RunInv, LoopOK, EntryOK, TypeInv,
       TypeOK, HandOK, InNode, AllowSoft, IsGate
  <1>2. e.status = "soft_failed"
    BY <1>1 DEF TypeInv, TypeOK, Entry
  <1> HIDE DEF e
  <1>3. /\ cursor'[idx].status = "soft_failed"
        /\ \A n \in Nodes \ {idx} : cursor'[n] = cursor[n]
    BY <1>1, <1>2 DEF TypeInv, TypeOK
  <1>4. PICK n \in Nodes : n = idx
    BY <1>1
  <1>5. PlanRefinement!SettlePassed(n)
    BY <1>1, <1>3, <1>4 DEF PlanRefinement!SettlePassed
  <1> QED BY <1>5

(* A crash, or a failing cursor write, interrupts the node being executed. *)
LEMMA LeavingInterrupts ==
    ASSUME TypeInv, UNCHANGED <<cursor, rows>>, pc' \notin {"child", "record"}
    PROVE  PlanRefinement!Interrupt \/ UNCHANGED PlanRefinement!planVars
  <1>1. CASE pc \in {"child", "record"}
    <2>1. idx # None
      BY <1>1, PlanPositions DEF TypeInv, HandOK, InNode
    <2> QED BY <1>1, <2>1 DEF PlanRefinement!Interrupt
  <1>2. CASE pc \notin {"child", "record"}
    BY <1>2, PlanStutters DEF Current
  <1> QED BY <1>1, <1>2

(* The parent's row becomes Succeeded: the abstract run concludes. *)
LEMMA SuccessConcludes ==
    ASSUME TypeInv, RunInv, UNCHANGED cursor, verdict = "succeeded",
           pc \in {"close", "finalize"}, pc' \in {"finalize", "returned"},
           rows'[Parent] = "succeeded"
    PROVE  PlanRefinement!Conclude
  <1>1. \A n \in Nodes : Done(n)
    BY DEF RunInv, VerdictOK
  <1> QED BY <1>1 DEF PlanRefinement!Conclude, Done

(* Every step of the implementation is a step of the abstract run or a stutter. *)
LEMMA RefineNext ==
    TypeInv /\ RunInv /\ [Next]_vars => [PlanRefinement!PlanNext]_(PlanRefinement!planVars)
  <1> DEFINE G == PlanRefinement!PlanNext \/ UNCHANGED PlanRefinement!planVars
  <1> SUFFICES ASSUME TypeInv, RunInv, [Next]_vars PROVE G
    OBVIOUS
  <1>1. ASSUME StartRun PROVE G
    <2>1. UNCHANGED <<cursor, Current>> /\ rows'[Parent] = "running" /\ rows[Parent] = NoRow
      BY <1>1 DEF StartRun, Accept, Current, TypeInv, TypeOK, Jobs
    <2> QED BY <2>1, PlanStutters DEF NoRow
  <1>2. ASSUME ResumeRun PROVE G
    <2>1. /\ UNCHANGED <<cursor, Current>> /\ rows'[Parent] = "running"
          /\ rows[Parent] # "succeeded"
      BY <1>2 DEF ResumeRun, Accept, Current, TypeInv, TypeOK, Jobs
    <2> QED BY <2>1, PlanStutters
  <1>3. ASSUME NEW c \in Children, ResumeChild(c) PROVE G
    <2>1. UNCHANGED <<cursor, Current>> /\ rows'[Parent] = rows[Parent]
      BY <1>3, PlanPositions DEF ResumeChild, Accept, Current, TypeInv, TypeOK, Jobs
    <2> QED BY <2>1, PlanStutters
  <1>4. ASSUME Cancel PROVE G
    BY <1>4, PlanStutters DEF Cancel, Current
  <1>5. ASSUME LoadCursor PROVE G
    BY <1>5, PlanStutters DEF LoadCursor, Faulty, Fails, Current
  <1>6. ASSUME SkipNode PROVE G
    BY <1>6, PlanStutters DEF SkipNode, AtNode, Current
  <1>7. ASSUME StopCancelled PROVE G
    BY <1>7, PlanStutters DEF StopCancelled, AtNode, AfterPause, Current
  <1>8. ASSUME NEW c \in Children, CascadeCancel(c) PROVE G
    <2>1. UNCHANGED <<cursor, Current>>
      BY <1>8 DEF CascadeCancel, Current
    <2>2. PICK s \in JobState : rows' = SetJobState(rows, c, s)
      BY <1>8 DEF CascadeCancel, JobState
    <2> QED BY <2>1, <2>2, ChildRowOnly, PlanStutters
  <1>9. ASSUME CascadeDone PROVE G
    BY <1>9, PlanStutters DEF CascadeDone, Current
  <1>10. ASSUME DispatchFails PROVE G
    BY <1>10, PlanStutters DEF DispatchFails, Faulty, Fails, Dispatch, AtNode, Current
  <1>11. ASSUME ReuseChild PROVE G
    <2>1. UNCHANGED <<cursor, Current>>
      BY <1>11 DEF ReuseChild, Dispatch, AtNode, Faulty, Fails, Current
    <2>2. mem[idx].job \in Children /\ "running" \in JobState
      BY <1>11 DEF ReuseChild, Dispatch, AtNode, Reusable, TypeInv, CursorOK, JobState
    <2>3. rows' = SetJobState(rows, mem[idx].job, "running") \/ rows' = rows
      BY <1>11 DEF ReuseChild, Faulty, Fails
    <2> QED BY <2>1, <2>2, <2>3, ChildRowOnly, PlanStutters
  <1>12. ASSUME NEW c \in Children, CreateChild(c) PROVE G
    <2>1. UNCHANGED <<cursor, Current>> /\ rows'[Parent] = rows[Parent]
      BY <1>12, PlanPositions DEF CreateChild, Dispatch, AtNode, CreateJob, Faulty, Fails,
         Current, TypeInv, TypeOK, Jobs
    <2> QED BY <2>1, PlanStutters
  <1>13. ASSUME SetChildRunning PROVE G
    <2>1. UNCHANGED <<cursor, Current>>
      BY <1>13 DEF SetChildRunning, Faulty, Fails, Current
    <2>2. child \in Children /\ "running" \in JobState
      BY <1>13 DEF SetChildRunning, TypeInv, HandOK, InNode, JobState
    <2>3. rows' = SetJobState(rows, child, "running") \/ rows' = rows
      BY <1>13 DEF SetChildRunning, Faulty, Fails
    <2> QED BY <2>1, <2>2, <2>3, ChildRowOnly, PlanStutters
  <1>14. ASSUME AnnounceChild PROVE G
    <2>1. CASE Faulty("persist")
      BY <1>14, <2>1, LeavingInterrupts DEF Faulty, Fails, PlanRefinement!PlanNext
    <2>2. CASE ~Faulty("persist")
      BY <1>14, <2>2, AnnounceBegins DEF PlanRefinement!PlanNext
    <2> QED BY <2>1, <2>2
  <1>15. ASSUME NEW s \in {"succeeded", "paused", "failed"}, ChildWrites(s) PROVE G
    <2>1. UNCHANGED <<cursor, Current>> /\ child \in Children /\ s \in JobState
      BY <1>15 DEF ChildWrites, Current, TypeInv, HandOK, InNode, JobState
    <2>2. rows' = SetJobState(rows, child, s)
      BY <1>15 DEF ChildWrites
    <2> QED BY <2>1, <2>2, ChildRowOnly, PlanStutters
  <1>16. ASSUME NEW out \in Outcomes, ChildReturns(out) PROVE G
    <2>1. UNCHANGED <<cursor, Current>> /\ child \in Children
      BY <1>16 DEF ChildReturns, Current, TypeInv, HandOK, InNode
    <2>2. MapOutcome(out) \in JobState
      BY DEF MapOutcome, Outcomes, JobState
    <2>3. rows' = SetJobState(rows, child, MapOutcome(out)) \/ rows' = rows
      BY <1>16 DEF ChildReturns, FinalizeChild
    <2> QED BY <2>1, <2>2, <2>3, ChildRowOnly, PlanStutters
  <1>17. ASSUME RecordChild PROVE G
    <2>1. CASE Faulty("persist")
      BY <1>17, <2>1, LeavingInterrupts DEF Faulty, Fails, PlanRefinement!PlanNext
    <2>2. CASE ~Faulty("persist")
      BY <1>17, <2>2, RecordEnds DEF PlanRefinement!PlanNext
    <2> QED BY <2>1, <2>2
  <1>18. ASSUME ChildSucceeded PROVE G
    BY <1>18, PlanStutters DEF ChildSucceeded, NextNode, Current
  <1>19. ASSUME ChildPaused PROVE G
    BY <1>19, PlanStutters DEF ChildPaused, AfterPause, Current
  <1>20. ASSUME ChildSoftFailed PROVE G
    <2>1. CASE pc' = "soft"
      BY <1>20, <2>1, SoftSettles DEF PlanRefinement!PlanNext
    <2>2. CASE pc' # "soft"
      BY <1>20, <2>2, PlanStutters
         DEF ChildSoftFailed, Persist, NextNode, Faulty, Fails, Current
    <2> QED BY <2>1, <2>2
  <1>21. ASSUME AfterSoftFailure PROVE G
    BY <1>21, PlanStutters DEF AfterSoftFailure, NextNode, Current
  <1>22. ASSUME ChildFailed PROVE G
    BY <1>22, PlanStutters DEF ChildFailed, Current
  <1>23. ASSUME Complete PROVE G
    BY <1>23, PlanStutters DEF Complete, Current
  <1>24. ASSUME CloseParent PROVE G
    <2>1. UNCHANGED <<cursor, Current>> /\ pc = "close" /\ pc' = "finalize"
      BY <1>24 DEF CloseParent, Faulty, Fails, Current
    <2>2. /\ verdict \in JobState /\ Parent \in Jobs /\ TypeOK
          /\ rows' = SetJobState(rows, Parent, verdict) \/ rows' = rows
      BY <1>24 DEF CloseParent, Faulty, Fails, TypeInv, TypeOK, HandOK, Outcomes, JobState, Jobs
    <2>3. /\ rows[Parent] = "succeeded" => rows'[Parent] = "succeeded"
          /\ rows'[Parent] \in {rows[Parent], verdict}
      BY <2>2, SetTypes
    <2>4. CASE rows'[Parent] = "succeeded" /\ rows[Parent] # "succeeded"
      BY <2>1, <2>3, <2>4, SuccessConcludes DEF PlanRefinement!PlanNext
    <2> QED BY <2>1, <2>3, <2>4, PlanStutters
  <1>25. ASSUME FinalizeParent PROVE G
    <2>1. UNCHANGED <<cursor, Current>> /\ pc = "finalize" /\ pc' = "returned"
      BY <1>25 DEF FinalizeParent, FinalizeRun, Current
    <2>2. /\ MapOutcome(verdict) \in JobState /\ Parent \in Jobs /\ TypeOK
          /\ MapOutcome(verdict) = "succeeded" => verdict = "succeeded"
      BY DEF MapOutcome, TypeInv, TypeOK, Outcomes, JobState, Jobs
    <2>3. rows' = SetJobState(rows, Parent, MapOutcome(verdict)) \/ rows' = rows
      BY <1>25 DEF FinalizeParent, FinalizeRun
    <2>4. /\ rows[Parent] = "succeeded" => rows'[Parent] = "succeeded"
          /\ rows'[Parent] \in {rows[Parent], MapOutcome(verdict)}
      BY <2>2, <2>3, SetTypes
    <2>5. CASE rows'[Parent] = "succeeded" /\ rows[Parent] # "succeeded"
      BY <2>1, <2>2, <2>4, <2>5, SuccessConcludes DEF PlanRefinement!PlanNext
    <2> QED BY <2>1, <2>4, <2>5, PlanStutters
  <1>26. ASSUME NEW out \in Outcomes, ChildRunReturns(out) PROVE G
    <2>1. UNCHANGED <<cursor, Current>> /\ child \in Children
      BY <1>26 DEF ChildRunReturns, FinalizeRun, Current, TypeInv, HandOK
    <2>2. MapOutcome(out) \in JobState
      BY DEF MapOutcome, Outcomes, JobState
    <2>3. rows' = SetJobState(rows, child, MapOutcome(out)) \/ rows' = rows
      BY <1>26 DEF ChildRunReturns, FinalizeRun
    <2> QED BY <2>1, <2>2, <2>3, ChildRowOnly, PlanStutters
  <1>27. ASSUME Release PROVE G
    BY <1>27, PlanStutters DEF Release, Forget, Current
  <1>28. ASSUME Crash PROVE G
    <2>1. UNCHANGED <<cursor, rows>> /\ pc' = "idle"
      BY <1>28 DEF Crash, Forget
    <2> QED BY <2>1, LeavingInterrupts DEF PlanRefinement!PlanNext
  <1>29. ASSUME NEW j \in Jobs, CliJobCancel(j) PROVE G
    <2>1. UNCHANGED <<cursor, Current>> /\ "cancelled" \in JobState /\ TypeOK
      BY <1>29 DEF CliJobCancel, Current, JobState, TypeInv
    <2>2. rows'[Parent] = "succeeded" <=> rows[Parent] = "succeeded"
      BY <1>29, <2>1, SetTypes DEF CliJobCancel, Jobs
    <2> QED BY <2>1, <2>2, PlanStutters
  <1>30. ASSUME UNCHANGED vars PROVE G
    BY <1>30, PlanStutters DEF vars, Current
  <1> QED
    BY <1>1, <1>2, <1>3, <1>4, <1>5, <1>6, <1>7, <1>8, <1>9, <1>10, <1>11, <1>12,
       <1>13, <1>14, <1>15, <1>16, <1>17, <1>18, <1>19, <1>20, <1>21, <1>22, <1>23,
       <1>24, <1>25, <1>26, <1>27, <1>28, <1>29, <1>30 DEF Next, HandlerStep

(* workflow_run and profile_run implement PlanExecution: over every crash,    *)
(* failing write, cancel, resume and CLI cancel, nodes are executed in order, *)
(* no settled node is executed again, and success is reported only at the end *)
(* of the plan.                                                               *)
THEOREM RefinesPlanExecution == Spec => ExecutesPlan
  <1>1. Init => RunInv
    BY DEF Init, RunInv, LoopOK, EntryOK, VerdictOK, InNode, NoRow, Jobs
  <1>2. Init => PlanRefinement!PlanInit
    <2> SUFFICES ASSUME Init PROVE PlanRefinement!PlanInit
      OBVIOUS
    <2>1. \A n \in Nodes : cursor[n].status = "none"
      BY DEF Init, NoEntry
    <2>2. pc = "idle" /\ rows[Parent] # "succeeded"
      BY DEF Init, NoRow, Jobs
    <2> QED BY <2>1, <2>2 DEF PlanRefinement!PlanInit
  <1> QED BY <1>1, <1>2, TypeInit, TypeNext, RunNext, RefineNext, PTL
         DEF Spec, ExecutesPlan, PlanRefinement!PlanSpec

----------------------------------------------------------------------------
(* Success is backed by the children's rows. *)

(* An identifier not drawn yet has no row. *)
FreshOK == \A c \in fresh : rows[c] = NoRow

(* A job that succeeded stays succeeded. *)
SucceededStay == \A c \in Children : rows[c] = "succeeded" => rows'[c] = "succeeded"

(* Every step keeps both. *)
LEMMA FreshNext == TypeInv /\ FreshOK /\ [Next]_vars => FreshOK' /\ SucceededStay
  <1> SUFFICES ASSUME TypeInv, FreshOK, [Next]_vars PROVE FreshOK' /\ SucceededStay
    OBVIOUS
  <1> DEFINE G == FreshOK' /\ SucceededStay
  <1>a. ASSUME UNCHANGED <<rows, fresh>> PROVE G
    BY <1>a DEF FreshOK, SucceededStay
  <1>b. ASSUME NEW j \in Jobs, NEW s \in JobState, UNCHANGED fresh,
               rows' = SetJobState(rows, j, s) \/ rows' = rows
        PROVE  G
    BY <1>b, SetTypes DEF FreshOK, SucceededStay, TypeInv, TypeOK, Jobs
  <1>c. ASSUME NEW j \in Jobs, NEW to, rows[j] \notin {NoRow, "succeeded"}, Accept(j, to)
        PROVE  G
    BY <1>c DEF Accept, FreshOK, SucceededStay, TypeInv, TypeOK, Jobs
  <1>1. ASSUME StartRun PROVE G
    BY <1>1, PlanPositions DEF StartRun, Accept, FreshOK, SucceededStay, TypeInv, TypeOK, Jobs
  <1>2. ASSUME ResumeRun PROVE G
    BY <1>2, <1>c DEF ResumeRun, Jobs
  <1>3. ASSUME NEW c \in Children, ResumeChild(c) PROVE G
    BY <1>3, <1>c DEF ResumeChild, Jobs
  <1>4. ASSUME Cancel PROVE G
    BY <1>4, <1>a DEF Cancel
  <1>5. ASSUME LoadCursor PROVE G
    BY <1>5, <1>a DEF LoadCursor, Faulty, Fails
  <1>6. ASSUME SkipNode PROVE G
    BY <1>6, <1>a DEF SkipNode, AtNode
  <1>7. ASSUME StopCancelled PROVE G
    BY <1>7, <1>a DEF StopCancelled, AtNode, AfterPause
  <1>8. ASSUME NEW c \in Children, CascadeCancel(c) PROVE G
    BY <1>8, <1>b DEF CascadeCancel, Jobs, JobState
  <1>9. ASSUME CascadeDone PROVE G
    BY <1>9, <1>a DEF CascadeDone
  <1>10. ASSUME DispatchFails PROVE G
    BY <1>10, <1>a DEF DispatchFails, Faulty, Fails, Dispatch, AtNode
  <1>11. ASSUME ReuseChild PROVE G
    <2>1. mem[idx].job \in Jobs /\ "running" \in JobState
      BY <1>11 DEF ReuseChild, Dispatch, AtNode, Reusable, TypeInv, CursorOK, JobState, Jobs
    <2> QED BY <1>11, <1>b, <2>1 DEF ReuseChild, Faulty, Fails
  <1>12. ASSUME NEW c \in Children, CreateChild(c) PROVE G
    <2>1. CASE Faulty("create")
      BY <1>a, <2>1 DEF Faulty, Fails
    <2>2. CASE ~Faulty("create")
      BY <1>12, <2>2 DEF CreateChild, CreateJob, FreshOK, SucceededStay, TypeInv, TypeOK, Jobs, NoRow
    <2> QED BY <2>1, <2>2
  <1>13. ASSUME SetChildRunning PROVE G
    <2>1. child \in Jobs /\ "running" \in JobState
      BY <1>13 DEF SetChildRunning, TypeInv, HandOK, InNode, JobState, Jobs
    <2> QED BY <1>13, <1>b, <2>1 DEF SetChildRunning, Faulty, Fails
  <1>14. ASSUME AnnounceChild PROVE G
    BY <1>14, <1>a DEF AnnounceChild, Persist, Faulty, Fails
  <1>15. ASSUME NEW s \in {"succeeded", "paused", "failed"}, ChildWrites(s) PROVE G
    <2>1. child \in Jobs /\ s \in JobState
      BY <1>15 DEF ChildWrites, TypeInv, HandOK, InNode, JobState, Jobs
    <2> QED BY <1>15, <1>b, <2>1 DEF ChildWrites
  <1>16. ASSUME NEW out \in Outcomes, ChildReturns(out) PROVE G
    <2>1. child \in Jobs
      BY <1>16 DEF ChildReturns, TypeInv, HandOK, InNode, Jobs
    <2>2. MapOutcome(out) \in JobState
      BY DEF MapOutcome, Outcomes, JobState
    <2>3. rows' = SetJobState(rows, child, MapOutcome(out)) \/ rows' = rows
      BY <1>16 DEF ChildReturns, FinalizeChild
    <2> QED BY <1>16, <1>b, <2>1, <2>2, <2>3 DEF ChildReturns
  <1>17. ASSUME RecordChild PROVE G
    BY <1>17, <1>a DEF RecordChild, Persist, Faulty, Fails
  <1>18. ASSUME ChildSucceeded PROVE G
    BY <1>18, <1>a DEF ChildSucceeded, NextNode
  <1>19. ASSUME ChildPaused PROVE G
    BY <1>19, <1>a DEF ChildPaused, AfterPause
  <1>20. ASSUME ChildSoftFailed PROVE G
    BY <1>20, <1>a DEF ChildSoftFailed, Persist, NextNode, Faulty, Fails
  <1>21. ASSUME AfterSoftFailure PROVE G
    BY <1>21, <1>a DEF AfterSoftFailure, NextNode
  <1>22. ASSUME ChildFailed PROVE G
    BY <1>22, <1>a DEF ChildFailed
  <1>23. ASSUME Complete PROVE G
    BY <1>23, <1>a DEF Complete
  <1>24. ASSUME CloseParent PROVE G
    <2>1. verdict \in JobState /\ Parent \in Jobs
      BY <1>24 DEF CloseParent, TypeInv, TypeOK, HandOK, Outcomes, JobState, Jobs
    <2> QED BY <1>24, <1>b, <2>1 DEF CloseParent, Faulty, Fails
  <1>25. ASSUME FinalizeParent PROVE G
    <2>1. MapOutcome(verdict) \in JobState /\ Parent \in Jobs
      BY DEF MapOutcome, TypeInv, TypeOK, Outcomes, JobState, Jobs
    <2> QED BY <1>25, <1>b, <2>1 DEF FinalizeParent, FinalizeRun
  <1>26. ASSUME NEW out \in Outcomes, ChildRunReturns(out) PROVE G
    <2>1. MapOutcome(out) \in JobState /\ child \in Jobs
      BY <1>26 DEF ChildRunReturns, MapOutcome, TypeInv, HandOK, Outcomes, JobState, Jobs
    <2> QED BY <1>26, <1>b, <2>1 DEF ChildRunReturns, FinalizeRun
  <1>27. ASSUME Release PROVE G
    BY <1>27, <1>a DEF Release, Forget
  <1>28. ASSUME Crash PROVE G
    BY <1>28, <1>a DEF Crash, Forget
  <1>29. ASSUME NEW j \in Jobs, CliJobCancel(j) PROVE G
    BY <1>29, <1>b DEF CliJobCancel, JobState
  <1>30. ASSUME UNCHANGED vars PROVE G
    BY <1>30, <1>a DEF vars
  <1> QED
    BY <1>1, <1>2, <1>3, <1>4, <1>5, <1>6, <1>7, <1>8, <1>9, <1>10, <1>11, <1>12,
       <1>13, <1>14, <1>15, <1>16, <1>17, <1>18, <1>19, <1>20, <1>21, <1>22, <1>23,
       <1>24, <1>25, <1>26, <1>27, <1>28, <1>29, <1>30 DEF Next, HandlerStep

(* A node recorded as succeeded has a child that succeeded, and so has the    *)
(* node about to be recorded; soft_failed is recorded of tolerated nodes only. *)
BackedOK ==
    /\ \A n \in Nodes : cursor[n].status = "succeeded" => rows[cursor[n].job] = "succeeded"
    /\ pc = "record" /\ term = "succeeded" => rows[child] = "succeeded"
    /\ \A n \in Nodes : cursor[n].status = "soft_failed" => AllowSoft(n)

(* If the state of a row can be written, every step keeps it. *)
LEMMA BackedNext ==
    ASSUME "set" \notin StoreFaults,
           TypeInv, RunInv, FreshOK, BackedOK, [Next]_vars
    PROVE  BackedOK'
  <1>s. SucceededStay
    BY FreshNext
  <1>a. ASSUME UNCHANGED cursor, pc' # "record" \/ UNCHANGED <<pc, term, child>>
        PROVE  BackedOK'
    BY <1>a, <1>s DEF BackedOK, AllowSoft, IsGate, SucceededStay, TypeInv, CursorOK, HandOK, InNode
  <1>b. ASSUME NEW e, e.status = "soft_failed" => AllowSoft(idx),
               e.status = "succeeded" => pc = "record" /\ e.job = child /\ term = "succeeded",
               cursor' = [cursor EXCEPT ![idx] = e], idx \in Nodes, pc' # "record"
        PROVE  BackedOK'
    <2>1. cursor'[idx] = e /\ \A n \in Nodes \ {idx} : cursor'[n] = cursor[n]
      BY <1>b DEF TypeInv, TypeOK
    <2>2. e.status = "succeeded" => rows'[e.job] = "succeeded"
      BY <1>b, <1>s DEF BackedOK, SucceededStay, TypeInv, HandOK, InNode
    <2> QED BY <1>b, <1>s, <2>1, <2>2 DEF BackedOK, AllowSoft, IsGate, SucceededStay, TypeInv, CursorOK
  <1>1. ASSUME StartRun PROVE BackedOK'
    BY <1>1, <1>a DEF StartRun, Accept
  <1>2. ASSUME ResumeRun PROVE BackedOK'
    BY <1>2, <1>a DEF ResumeRun, Accept
  <1>3. ASSUME NEW c \in Children, ResumeChild(c) PROVE BackedOK'
    BY <1>3, <1>a DEF ResumeChild, Accept
  <1>4. ASSUME Cancel PROVE BackedOK'
    BY <1>4, <1>a DEF Cancel
  <1>5. ASSUME LoadCursor PROVE BackedOK'
    BY <1>5, <1>a DEF LoadCursor, Faulty, Fails
  <1>6. ASSUME SkipNode PROVE BackedOK'
    BY <1>6, <1>a DEF SkipNode, AtNode
  <1>7. ASSUME StopCancelled PROVE BackedOK'
    BY <1>7, <1>a DEF StopCancelled, AtNode, AfterPause
  <1>8. ASSUME NEW c \in Children, CascadeCancel(c) PROVE BackedOK'
    BY <1>8, <1>a DEF CascadeCancel
  <1>9. ASSUME CascadeDone PROVE BackedOK'
    BY <1>9, <1>a DEF CascadeDone
  <1>10. ASSUME DispatchFails PROVE BackedOK'
    BY <1>10, <1>a DEF DispatchFails, Faulty, Fails, Dispatch, AtNode
  <1>11. ASSUME ReuseChild PROVE BackedOK'
    BY <1>11, <1>a DEF ReuseChild, Dispatch, AtNode, Reusable, Faulty, Fails
  <1>12. ASSUME NEW c \in Children, CreateChild(c) PROVE BackedOK'
    BY <1>12, <1>a DEF CreateChild, Dispatch, AtNode, CreateJob, Faulty, Fails
  <1>13. ASSUME SetChildRunning PROVE BackedOK'
    BY <1>13, <1>a DEF SetChildRunning, Faulty, Fails
  <1>14. ASSUME AnnounceChild PROVE BackedOK'
    <2>1. CASE Faulty("persist")
      BY <1>a, <2>1 DEF Faulty, Fails
    <2>2. CASE ~Faulty("persist")
      <3> DEFINE e == [status |-> "running", job |-> child]
      <3>1. cursor' = [cursor EXCEPT ![idx] = e] /\ idx \in Nodes /\ pc' = "child"
        BY <1>14, <2>2 DEF AnnounceChild, Persist, RunInv, LoopOK, TypeInv, HandOK, InNode
      <3>2. e.status = "running"
        OBVIOUS
      <3> HIDE DEF e
      <3> QED BY <1>b, <3>1, <3>2
    <2> QED BY <2>1, <2>2
  <1>15. ASSUME NEW s \in {"succeeded", "paused", "failed"}, ChildWrites(s) PROVE BackedOK'
    BY <1>15, <1>a DEF ChildWrites
  <1>16. ASSUME NEW out \in Outcomes, ChildReturns(out) PROVE BackedOK'
    <2>1. cursor' = cursor /\ child' = child /\ pc' = "record" /\ child \in Jobs
      BY <1>16 DEF ChildReturns, TypeInv, HandOK, InNode, Jobs
    <2>2. CASE term' = "succeeded"
      <3>1. out = "succeeded"
        BY <1>16, <2>2 DEF ChildReturns, MapOutcome
      <3>2. rows'[child] = "succeeded"
        <4>1. "succeeded" \in JobState /\ TypeOK /\ MapOutcome(out) = "succeeded"
          BY <3>1 DEF JobState, TypeInv, MapOutcome
        <4>2. /\ rows[child] = "running" => rows' = SetJobState(rows, child, "succeeded")
              /\ rows[child] # "running" => rows[child] = "succeeded" /\ rows' = rows
          BY <1>16, <3>1, <4>1 DEF ChildReturns, FinalizeChild
        <4> QED BY <2>1, <4>1, <4>2, SetTypes
      <3> QED BY <1>s, <2>1, <3>2 DEF BackedOK, SucceededStay, TypeInv, CursorOK, AllowSoft, IsGate
    <2>3. CASE term' # "succeeded"
      BY <1>s, <2>1, <2>3 DEF BackedOK, SucceededStay, TypeInv, CursorOK, AllowSoft, IsGate
    <2> QED BY <2>2, <2>3
  <1>17. ASSUME RecordChild PROVE BackedOK'
    <2>1. CASE Faulty("persist")
      BY <1>a, <2>1 DEF Faulty, Fails
    <2>2. CASE ~Faulty("persist")
      <3> DEFINE e == [status |-> term, job |-> child]
      <3>1. /\ cursor' = [cursor EXCEPT ![idx] = e] /\ idx \in Nodes /\ pc' = "decide"
            /\ pc = "record" /\ term # "soft_failed"
        BY <1>17, <2>2 DEF RecordChild, Persist, RunInv, LoopOK, TypeInv, TypeOK, HandOK, InNode
      <3>2. e.status = term /\ e.job = child
        OBVIOUS
      <3> HIDE DEF e
      <3> QED BY <1>b, <3>1, <3>2
    <2> QED BY <2>1, <2>2
  <1>18. ASSUME ChildSucceeded PROVE BackedOK'
    BY <1>18, <1>a DEF ChildSucceeded, NextNode
  <1>19. ASSUME ChildPaused PROVE BackedOK'
    BY <1>19, <1>a DEF ChildPaused, AfterPause
  <1>20. ASSUME ChildSoftFailed PROVE BackedOK'
    <2> DEFINE e == [mem[idx] EXCEPT !.status = "soft_failed"]
    <2>1. idx \in Nodes /\ mem[idx] \in Entry /\ mem = cursor /\ (pc' = "soft" => AllowSoft(idx))
      BY <1>20 DEF ChildSoftFailed, TypeInv, TypeOK, HandOK, InNode, RunInv, LoopOK
    <2>2. e.status = "soft_failed"
      BY <2>1 DEF Entry
    <2> HIDE DEF e
    <2>3. CASE cursor' = cursor /\ pc' # "record"
      BY <1>a, <2>3
    <2>4. CASE cursor' = [cursor EXCEPT ![idx] = e] /\ pc' = "soft"
      BY <1>b, <2>1, <2>2, <2>4
    <2> QED BY <1>20, <2>1, <2>3, <2>4
            DEF ChildSoftFailed, Persist, Faulty, Fails, NextNode, e
  <1>21. ASSUME AfterSoftFailure PROVE BackedOK'
    BY <1>21, <1>a DEF AfterSoftFailure, NextNode
  <1>22. ASSUME ChildFailed PROVE BackedOK'
    BY <1>22, <1>a DEF ChildFailed
  <1>23. ASSUME Complete PROVE BackedOK'
    BY <1>23, <1>a DEF Complete
  <1>24. ASSUME CloseParent PROVE BackedOK'
    BY <1>24, <1>a DEF CloseParent, Faulty, Fails
  <1>25. ASSUME FinalizeParent PROVE BackedOK'
    BY <1>25, <1>a DEF FinalizeParent, FinalizeRun, MapOutcome
  <1>26. ASSUME NEW out \in Outcomes, ChildRunReturns(out) PROVE BackedOK'
    BY <1>26, <1>a DEF ChildRunReturns, FinalizeRun, MapOutcome
  <1>27. ASSUME Release PROVE BackedOK'
    BY <1>27, <1>a DEF Release, Forget
  <1>28. ASSUME Crash PROVE BackedOK'
    BY <1>28, <1>a DEF Crash, Forget
  <1>29. ASSUME NEW j \in Jobs, CliJobCancel(j) PROVE BackedOK'
    BY <1>29, <1>a DEF CliJobCancel
  <1>30. ASSUME UNCHANGED vars PROVE BackedOK'
    BY <1>30, <1>a DEF vars
  <1> QED
    BY <1>1, <1>2, <1>3, <1>4, <1>5, <1>6, <1>7, <1>8, <1>9, <1>10, <1>11, <1>12,
       <1>13, <1>14, <1>15, <1>16, <1>17, <1>18, <1>19, <1>20, <1>21, <1>22, <1>23,
       <1>24, <1>25, <1>26, <1>27, <1>28, <1>29, <1>30 DEF Next, HandlerStep

(* A parent row that says Succeeded has, for every node, a child that          *)
(* succeeded, or an ordinary node whose failure the plan tolerates, as long as *)
(* the state of a row can be written.                                          *)
THEOREM SuccessIsBackedTheorem ==
    ASSUME "set" \notin StoreFaults
    PROVE  Spec => []SuccessIsBacked
  <1>1. Init => RunInv /\ FreshOK /\ BackedOK
    <2> SUFFICES ASSUME Init PROVE RunInv /\ FreshOK /\ BackedOK
      OBVIOUS
    <2>1. \A n \in Nodes : cursor[n].status = "none"
      BY DEF Init, NoEntry
    <2>2. pc = "idle" /\ fresh = Children /\ \A j \in Jobs : rows[j] = NoRow
      BY DEF Init
    <2> QED BY <2>1, <2>2 DEF RunInv, LoopOK, EntryOK, VerdictOK, InNode, FreshOK, BackedOK,
               Jobs, NoRow
  <1>2. RunInv /\ BackedOK => SuccessIsBacked
    <2> SUFFICES ASSUME RunInv, BackedOK, rows[Parent] = "succeeded", NEW n \in Nodes
                 PROVE  \/ cursor[n].status = "succeeded" /\ rows[cursor[n].job] = "succeeded"
                        \/ /\ Plan[n].soft /\ Plan[n].type # "gate"
                           /\ cursor[n].status \in {"soft_failed", "failed"}
      BY DEF SuccessIsBacked
    <2> QED BY DEF RunInv, VerdictOK, Done, BackedOK, AllowSoft, IsGate
  <1>3. TypeInv /\ RunInv /\ FreshOK /\ BackedOK /\ [Next]_vars => BackedOK'
    BY BackedNext
  <1> QED BY <1>1, <1>2, <1>3, TypeInit, TypeNext, RunNext, FreshNext, PTL DEF Spec

(* A child that ended is not turned back into a running one by the plan loop: *)
(* resolve_or_create_child continues paused children and draws new ones.      *)
THEOREM EndedChildStaysEndedTheorem == Spec => EndedChildStaysEnded
  <1> DEFINE A == \A c \in Children :
                     (pc = "loop" /\ rows[c] \in {"succeeded", "failed", "cancelled"})
                         => rows'[c] = rows[c]
  <1>1. Init => FreshOK
    BY DEF Init, FreshOK, Jobs
  <1>2. TypeInv /\ FreshOK /\ [Next]_vars => [A]_vars
    <2> SUFFICES ASSUME TypeInv, FreshOK, Next, pc = "loop", NEW c \in Children,
                        rows[c] \in {"succeeded", "failed", "cancelled"}
                 PROVE  rows'[c] = rows[c]
      OBVIOUS
    <2>1. CASE ReuseChild
      <3>1. mem[idx].job # c /\ c \in Jobs
        BY <2>1 DEF ReuseChild, Reusable, Jobs
      <3>2. rows' = [rows EXCEPT ![mem[idx].job] = "running"] \/ rows' = rows
        BY <2>1 DEF ReuseChild, SetJobState, Faulty, Fails
      <3> QED BY <3>1, <3>2 DEF TypeInv, TypeOK
    <2>2. CASE \E d \in Children : CreateChild(d)
      <3>1. PICK d \in Children : CreateChild(d)
        BY <2>2
      <3>2. d # c /\ c \in Jobs
        BY <3>1 DEF CreateChild, FreshOK, NoRow, Jobs
      <3>3. rows' = [rows EXCEPT ![d] = "pending"] \/ rows' = rows
        BY <3>1 DEF CreateChild, CreateJob, Faulty, Fails
      <3> QED BY <3>2, <3>3 DEF TypeInv, TypeOK
    <2>3. CASE rows' = rows
      BY <2>3
    <2> QED
      BY <2>1, <2>2, <2>3
         DEF Next, HandlerStep, StartRun, ResumeRun, ResumeChild, Accept, Cancel, LoadCursor,
             SkipNode, StopCancelled, CascadeDone, DispatchFails, SetChildRunning,
             AnnounceChild, RecordChild, CascadeCancel, ChildReturns, ChildRunReturns,
             ChildSucceeded, ChildPaused, ChildSoftFailed, AfterSoftFailure, ChildFailed,
             Complete, CloseParent, FinalizeParent, Release, ChildWrites, Crash, Forget,
             CliJobCancel, Faulty, Fails
  <1> QED BY <1>1, <1>2, TypeInit, TypeNext, FreshNext, PTL DEF Spec, EndedChildStaysEnded


===========================================================================
