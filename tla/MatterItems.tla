---------------------------- MODULE MatterItems ----------------------------
(***************************************************************************)
(* What the stage jobs share: the items of a matter, their families, and   *)
(* the interruptions a job meets.                                          *)
(*                                                                         *)
(* Items are numbered in the order the stages list them (imported_at,      *)
(* path, id).  Emails come first; an attachment comes after its parent.    *)
(***************************************************************************)
EXTENDS Integers, FiniteSets

CONSTANTS
    NE,         \* number of email parents
    NI,         \* number of items
    ParentOf,   \* item -> its parent_item_id, 0 when NULL
    MaxStops    \* bound: pauses, crashes and repeated jobs

VARIABLE stops  \* how many so far

Emails == 1..NE
Items == 1..NI

(* list_attachments: the direct children. *)
Children(p) == {i \in Items : ParentOf[i] = p}

ASSUME ItemsAssumptions ==
    /\ NE \in Nat /\ NI \in Nat /\ NE <= NI
    /\ ParentOf \in [Items -> 0..NI]
    /\ \A i \in Items : IF i <= NE THEN ParentOf[i] = 0 ELSE ParentOf[i] \in 1..(i - 1)
    /\ MaxStops \in Nat

(* A job of stage is queued, runs, has stopped short (paused, failed or crashed) or succeeded. *)
JobPhases == {"queued", "running", "stopped", "succeeded"}

Interrupt == stops < MaxStops /\ stops' = stops + 1

(* A set of items in listing order. *)
InOrder(S) == [n \in 1..Cardinality(S) |-> CHOOSE i \in S : Cardinality({j \in S : j < i}) = n - 1]

(* The first of a set of items in listing order, 0 when there is none. *)
FirstOf(S) == IF S = {} THEN 0 ELSE CHOOSE x \in S : \A y \in S : x <= y

============================================================================
