--------------------------- MODULE PlanExecution ---------------------------
(***************************************************************************)
(* What an orchestration run promises, without child jobs, cursors or       *)
(* crashes: the nodes of a plan are executed one at a time and in order, a   *)
(* settled node is never executed again, and the run succeeds only when      *)
(* every node is settled or its failure was passed over.                     *)
(***************************************************************************)
EXTENDS Naturals

CONSTANTS Nodes,      \* the positions 1..n of the enabled nodes of the plan
          Tolerated,  \* the nodes whose failure does not end the run
          NoNode      \* nothing is being executed

VARIABLES settled,    \* nodes that are never executed again
          passed,     \* tolerated nodes that failed and may be tried again
          current,    \* the node being executed, or NoNode
          succeeded   \* the run has been reported succeeded

planVars == <<settled, passed, current, succeeded>>

PlanInit == settled = {} /\ passed = {} /\ current = NoNode /\ succeeded = FALSE

(* Every node before n has had its turn. *)
TurnOf(n) == \A i \in Nodes : i < n => i \in settled \cup passed

Begin(n) ==
    /\ current = NoNode /\ ~succeeded
    /\ n \notin settled /\ TurnOf(n)
    /\ current' = n /\ passed' = passed \ {n}
    /\ UNCHANGED <<settled, succeeded>>

Settle(n) ==
    /\ current = n
    /\ settled' = settled \cup {n} /\ current' = NoNode
    /\ UNCHANGED <<passed, succeeded>>

PassOver(n) ==
    /\ current = n /\ n \in Tolerated
    /\ passed' = passed \cup {n} /\ current' = NoNode
    /\ UNCHANGED <<settled, succeeded>>

(* A failure passed over is made final. *)
SettlePassed(n) ==
    /\ current = NoNode /\ n \in passed
    /\ passed' = passed \ {n} /\ settled' = settled \cup {n}
    /\ UNCHANGED <<current, succeeded>>

(* The node is paused, fails for good, or the program dies. *)
Interrupt ==
    /\ current # NoNode
    /\ current' = NoNode
    /\ UNCHANGED <<settled, passed, succeeded>>

Conclude ==
    /\ current = NoNode /\ settled \cup passed = Nodes
    /\ succeeded' = TRUE
    /\ UNCHANGED <<settled, passed, current>>

PlanNext ==
    \/ \E n \in Nodes : Begin(n) \/ Settle(n) \/ PassOver(n) \/ SettlePassed(n)
    \/ Interrupt \/ Conclude

PlanSpec == PlanInit /\ [][PlanNext]_planVars

============================================================================
