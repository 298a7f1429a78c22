-------------------------- MODULE MCProcessRunner --------------------------
(***************************************************************************)
(* Small instances of ProcessRunner.                                       *)
(***************************************************************************)
EXTENDS ProcessRunner, TLC

CONSTANTS p1, p2, c1, c2, j1, j2, j3, m1

(* Two programs, one client thread each: the OS lock is what separates them. *)
TwoProcsOf == [c \in Clients |-> IF c = c1 THEN p1 ELSE p2]

(* One program, two client threads: accept, active and the channel are shared. *)
OneProcOf == [c \in Clients |-> p1]

(* All jobs in one matter. *)
OneMatterOf == [j \in Jobs |-> m1]

(* Every kind registered everywhere, or the kind of j3 unknown. *)
AllHandlers == [p \in Procs |-> Jobs]
NoHandlerForJ3 == [p \in Procs |-> Jobs \ {j3}]

(* Jobs of one matter are interchangeable; so are two programs with their clients. *)
JobSymmetry == Permutations(Jobs)
HandledJobSymmetry == Permutations(Jobs \ {j3})
JobAndProgramSymmetry ==
    JobSymmetry \cup {(p1 :> p2 @@ p2 :> p1 @@ c1 :> c2 @@ c2 :> c1) @@ f : f \in JobSymmetry}

NoFaults == {}
AllFaults == {"list", "create", "set"}

============================================================================
