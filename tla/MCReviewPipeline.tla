-------------------------- MODULE MCReviewPipeline -------------------------
(***************************************************************************)
(* Small instances of ReviewPipeline: every keying of the emails over one  *)
(* Message-ID and two logical hashes.                                      *)
(***************************************************************************)
EXTENDS ReviewPipeline

CONSTANTS m1, l1, l2

(* Up to renaming: l2 is not used before l1. *)
AllKeyings ==
    {k \in [mid : [Emails -> Mids \cup {NoKey}], logical : [Emails -> Logicals \cup {NoKey}]] :
        \A e \in Emails : k.logical[e] = l2 => \E f \in 1..(e - 1) : k.logical[f] = l1}

(* 1 has an attachment with a nested one, 2 has two attachments, 3 has none. *)
NestedFamily == <<0, 0, 0, 1, 2, 2, 4>>
FamilyDigest == [i \in Items |-> IF i \in {4, 6} THEN 1 ELSE NoKey]
FamilyNames == [i \in Items |-> IF i \in {4, 5} THEN 1 ELSE NoKey]
SomeHits == {{2, 4, 5, 7}, Items}

(* One email with two attachments. *)
OneFamily == <<0, 1, 1>>
NoDigest == [i \in Items |-> NoKey]
ChildrenHit == {{2, 3}}

============================================================================
