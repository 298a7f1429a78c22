-------------------------- MODULE MCReviewService --------------------------
(***************************************************************************)
(* A small instance of ReviewService: an admin and a reviewer, of whom the *)
(* second logs in at two clients, a family of two items, one batch.        *)
(***************************************************************************)
EXTENDS ReviewService, TLC

CONSTANTS adm, rev, c1, c2, i1, i2, b1, n1

(* Both use c1; c2 is the reviewer's second client. *)
SharedClient == [c \in Clients |-> IF c = c1 THEN Users ELSE {rev}]
ReviewRole == [u \in Users |-> IF u = adm THEN "admin" ELSE "reviewer"]
OneFamily == [i \in Items |-> Items]

(* "privilege" is a multi code of its own. *)
MultiCodes == [k \in Codes |-> {k}]
AddPrivilege == {[add |-> {"privilege"}, remove |-> {}]}
OneItemBatches == {{i} : i \in Items}

ItemSymmetry == Permutations(Items)

============================================================================
