--------------------------- MODULE ReviewService ---------------------------
(***************************************************************************)
(* The multi-user matter service: HTTP requests over one open matter       *)
(* (matter-service) and the review tables behind them (matter-core,        *)
(* multi_user.rs).                                                         *)
(*                                                                         *)
(* A request takes the write gate twice: once in the AuthUser extractor,   *)
(* which resolves the bearer token to a user, and once in its handler.     *)
(* Between the two any other request may run, so a handler acts for a user *)
(* that may have been logged out or disabled meanwhile.  A handler is one  *)
(* SQLite transaction: it takes effect as a whole or, on any error, not at *)
(* all (Reject).                                                           *)
(*                                                                         *)
(* Expiry times are abstracted: a session or a lock may lapse at any       *)
(* moment.  Every reader treats an expired row as a missing one and        *)
(* deletes it, so lapsing removes the row.  What a client saw of an item   *)
(* when it read the version is kept beside that version.                   *)
(***************************************************************************)
EXTENDS Naturals, FiniteSets

CONSTANTS
    Users, Clients, Items, Batches,
    Codes,          \* code definitions
    Bodies,         \* note bodies
    AccountsOf,     \* client -> the users that log in there
    Role,           \* "admin", "reviewer" or "read_only"; no route changes it
    Bootstrap,      \* users made by bootstrap-admin before the service starts
    Family,         \* item -> the items of its family unit, itself included
    Group,          \* code -> the codes of its group when the group is single, else only itself
    PrivilegeCode,  \* the code whose key is "privilege"
    CodeEdits,      \* the [add, remove] pairs a client may send
    Claims,         \* the claims a client may set
    BatchChoices,   \* the item lists a client may make a batch of
    MaxWrites,      \* bound: accepted writes, after which no item is opened
    None

VARIABLES
    user,       \* user -> "absent", "active" or "disabled"    (matter_users)
    session,    \* client -> None or the user of its token's unexpired row  (matter_sessions)
    request,    \* client -> None or the user AuthUser has resolved its token to
    lock,       \* item -> None or the holder of its unexpired lock    (item_locks)
    member,     \* batch -> its items; {} before it is created (review_batches, review_batch_items)
    checkout,   \* batch -> users with checked_in_at NULL      (batch_checkouts)
    version,    \* item -> review_version                      (items)
    review,     \* item -> codes, note and privilege claim     (item_codes, item_notes, item_privilege)
    view,       \* client -> None or the item it has open: version read and review state at that time
    writes,     \* accepted writes so far, for the bound
    away,       \* history: users whose logout has run, until they log in or a late request takes
    late        \* history: clients with a request in flight when its user was logged out

vars == <<user, session, request, lock, member, checkout, version, review, view, writes, away, late>>

Reviews == [codes : SUBSET Codes, note : Bodies \cup {None}, claim : {"none", "asserted", "cleared"}]
Views == [item : Items, version : Nat, seen : Reviews]

ASSUME ReviewAssumptions ==
    /\ AccountsOf \in [Clients -> SUBSET Users]
    /\ Role \in [Users -> {"admin", "reviewer", "read_only"}]
    /\ Bootstrap \subseteq Users
    /\ Family \in [Items -> SUBSET Items]
    /\ \A i \in Items : i \in Family[i]
    /\ Group \in [Codes -> SUBSET Codes]
    /\ \A k \in Codes : k \in Group[k] /\ \A j \in Group[k] : Group[j] = Group[k]
    /\ PrivilegeCode \in Codes
    /\ CodeEdits \subseteq [add : SUBSET Codes, remove : SUBSET Codes]
    /\ Claims \subseteq {"asserted", "cleared"}
    /\ BatchChoices \subseteq SUBSET Items
    /\ {} \notin BatchChoices
    /\ MaxWrites \in Nat
    /\ None \notin Bodies /\ None \notin Users /\ None \notin Views

Unreviewed == [codes |-> {}, note |-> None, claim |-> "none"]

Init ==
    /\ user = [u \in Users |-> IF u \in Bootstrap THEN "active" ELSE "absent"]
    /\ session = [c \in Clients |-> None]
    /\ request = [c \in Clients |-> None]
    /\ lock = [i \in Items |-> None]
    /\ member = [b \in Batches |-> {}]
    /\ checkout = [b \in Batches |-> {}]
    /\ version = [i \in Items |-> 0]
    /\ review = [i \in Items |-> Unreviewed]
    /\ view = [c \in Clients |-> None]
    /\ writes = 0
    /\ away = {}
    /\ late = {}

matterVars == <<lock, member, checkout, version, review>>

-----------------------------------------------------------------------------
(* Sessions and the first half of a request. *)

(* authenticate: a wrong name or password changes nothing; a disabled user is refused. *)
Login(c, u) ==
    /\ request[c] = None
    /\ user[u] = "active"
    /\ session' = [session EXCEPT ![c] = u]
    /\ view' = [view EXCEPT ![c] = None]
    /\ away' = away \ {u}
    /\ UNCHANGED <<user, request, matterVars, writes, late>>

(* AuthUser: the gate is held for resolve_session only. *)
Authenticate(c) ==
    /\ request[c] = None
    /\ session[c] # None
    /\ user[session[c]] = "active"
    /\ request' = [request EXCEPT ![c] = session[c]]
    /\ UNCHANGED <<user, session, matterVars, view, writes, away, late>>

(* Logout with a token that does not resolve: OptionalAuthUser lets it through and only *)
(* its row goes.  Nothing in between depends on that row, so the two halves are one.    *)
LogoutToken(c) ==
    /\ request[c] = None
    /\ session[c] # None
    /\ user[session[c]] # "active"
    /\ session' = [session EXCEPT ![c] = None]
    /\ UNCHANGED <<user, request, matterVars, view, writes, away, late>>

-----------------------------------------------------------------------------
(* The second half: the handler of an authenticated request. *)

(* require_role on the user the extractor resolved. *)
RoleRank == [admin |-> 3, reviewer |-> 2, read_only |-> 1]

Answered(c) ==
    /\ request' = [request EXCEPT ![c] = None]
    /\ late' = late \ {c}

Handle(c, minRole) ==
    /\ request[c] # None
    /\ RoleRank[Role[request[c]]] >= RoleRank[minRole]
    /\ Answered(c)

(* Every error of a handler: the transaction is rolled back. *)
Reject(c) ==
    /\ request[c] # None
    /\ Answered(c)
    /\ UNCHANGED <<user, session, matterVars, view, writes, away>>

(* Mutant: the user resolved by the extractor is trusted. *)
ActiveActor_cached(c) == request[c] # None

(* resolve_strict_actor_conn, and the disabled check of lock_item and require_role. *)
ActiveActor(c) == user[request[c]] = "active"

(* active_lock_conn *)
LockedByOther(i, u) == lock[i] \notin {None, u}

(* assert_batch_mutate_allowed_conn *)
CheckedOutItems(u) == UNION {member[b] : b \in {x \in Batches : u \in checkout[x]}}
InCheckedOutBatch(i, u) ==
    (\E b \in Batches : u \in checkout[b]) => i \in CheckedOutItems(u)

(* assert_can_mutate_conn *)
CanMutate(i, u) == ~LockedByOther(i, u) /\ InCheckedOutBatch(i, u)

(* Mutant: a newer expected version is refused, an older one is not. *)
VersionMatches_older(i, expected) == version[i] >= expected

(* Mutant: a family write bumps no version. *)
BumpVersions_family(targets) ==
    [i \in Items |-> IF targets = {i} THEN version[i] + 1 ELSE version[i]]

(* bump_review_version_conn *)
VersionMatches(i, expected) == version[i] = expected
BumpVersions(targets) == [i \in Items |-> IF i \in targets THEN version[i] + 1 ELSE version[i]]

(* prepare_review_mutates_conn: every target is guarded and checked against the one expected version. *)
PrepareMutates(targets, c) ==
    /\ ActiveActor(c)
    /\ \A t \in targets : CanMutate(t, request[c]) /\ VersionMatches(t, view[c].version)
    /\ version' = BumpVersions(targets)

(* A write to the item the client has open; edited gives the new review state of each target. *)
Mutate(c, targets, edited) ==
    /\ Handle(c, "reviewer")
    /\ writes < MaxWrites
    /\ writes' = writes + 1
    /\ PrepareMutates(targets, c)
    /\ review' = [i \in Items |-> IF i \in targets THEN edited[i] ELSE review[i]]
    /\ view' = [view EXCEPT ![c] = None]
    /\ UNCHANGED <<user, session, lock, member, checkout, away>>

(* Adds clear the rest of a single group, then removes; the privilege code carries its claim. *)
EditCodes(r, e) ==
    [r EXCEPT !.codes = ((@ \ UNION {Group[k] : k \in e.add}) \cup e.add) \ e.remove,
              !.claim = IF PrivilegeCode \in e.remove
                        THEN IF PrivilegeCode \in e.add \/ @ # "none" THEN "cleared" ELSE @
                        ELSE IF PrivilegeCode \in e.add THEN "asserted" ELSE @]

(* apply_codes refuses an empty edit and two codes of one single group. *)
ValidEdit(e) ==
    /\ e.add \cup e.remove # {}
    /\ \A k, l \in e.add : l \in Group[k] => l = k

ApplyCodes(c, e, propagate) ==
    /\ view[c] # None
    /\ ValidEdit(e)
    /\ Mutate(c, IF propagate THEN Family[view[c].item] ELSE {view[c].item},
                 [i \in Items |-> EditCodes(review[i], e)])

UpsertNote(c, body) ==
    /\ view[c] # None
    /\ Mutate(c, {view[c].item}, [i \in Items |-> [review[i] EXCEPT !.note = body]])

UpsertPrivilege(c, claim) ==
    /\ view[c] # None
    /\ Mutate(c, {view[c].item}, [i \in Items |-> [review[i] EXCEPT !.claim = claim]])

(* get_item: a user with a checkout sees the items of its batches only.  Nothing is opened *)
(* once the bound on writes is used up.                                                    *)
GetItem(c, i) ==
    /\ Handle(c, "read_only")
    /\ writes < MaxWrites
    /\ InCheckedOutBatch(i, request[c])
    /\ view' = [view EXCEPT ![c] = [item |-> i, version |-> version[i], seen |-> review[i]]]
    /\ UNCHANGED <<user, session, matterVars, writes, away>>

(* A late request that takes something ends the user's time away. *)
EndsAway(c) == away' = IF c \in late THEN away \ {request[c]} ELSE away

LockItem(c, i) ==
    /\ Handle(c, "reviewer")
    /\ ActiveActor(c)
    /\ ~LockedByOther(i, request[c])
    /\ lock' = [lock EXCEPT ![i] = request[c]]
    /\ EndsAway(c)
    /\ UNCHANGED <<user, session, member, checkout, version, review, view, writes>>

(* Mutant: unlock deletes the row whoever holds it. *)
UnlockItem_any(c, i) ==
    /\ Handle(c, "reviewer")
    /\ lock' = [lock EXCEPT ![i] = None]
    /\ UNCHANGED <<user, session, member, checkout, version, review, view, writes, away>>

(* unlock_item does not look at disabled_at again. *)
UnlockItem(c, i) ==
    /\ Handle(c, "reviewer")
    /\ ~LockedByOther(i, request[c])
    /\ lock' = [lock EXCEPT ![i] = None]
    /\ UNCHANGED <<user, session, member, checkout, version, review, view, writes, away>>

(* Mutant: the row is marked instead of deleted. *)
ForceUnlock_marked(c, i) ==
    /\ Handle(c, "admin")
    /\ ActiveActor(c)
    /\ lock' = [lock EXCEPT ![i] = "forced"]
    /\ UNCHANGED <<user, session, member, checkout, version, review, view, writes, away>>

ForceUnlock(c, i) ==
    /\ Handle(c, "admin")
    /\ ActiveActor(c)
    /\ lock' = [lock EXCEPT ![i] = None]
    /\ UNCHANGED <<user, session, member, checkout, version, review, view, writes, away>>

CreateBatch(c, b, items) ==
    /\ Handle(c, "reviewer")
    /\ ActiveActor(c)
    /\ member[b] = {}
    /\ member' = [member EXCEPT ![b] = items]
    /\ UNCHANGED <<user, session, lock, checkout, version, review, view, writes, away>>

(* Mutant: only the primary key (batch, user) is relied on. *)
CheckoutBatch_keyed(c, b) ==
    /\ Handle(c, "reviewer")
    /\ ActiveActor(c)
    /\ member[b] # {}
    /\ checkout' = [checkout EXCEPT ![b] = @ \cup {request[c]}]
    /\ EndsAway(c)
    /\ UNCHANGED <<user, session, lock, member, version, review, view, writes>>

(* One active checkout per batch; the holder's own repeat returns the row it has. *)
CheckoutBatch(c, b) ==
    /\ Handle(c, "reviewer")
    /\ ActiveActor(c)
    /\ member[b] # {}
    /\ checkout[b] \subseteq {request[c]}
    /\ checkout' = [checkout EXCEPT ![b] = @ \cup {request[c]}]
    /\ EndsAway(c)
    /\ UNCHANGED <<user, session, lock, member, version, review, view, writes>>

CheckinBatch(c, b) ==
    /\ Handle(c, "reviewer")
    /\ request[c] \in checkout[b]
    /\ checkout' = [checkout EXCEPT ![b] = @ \ {request[c]}]
    /\ UNCHANGED <<user, session, lock, member, version, review, view, writes, away>>

CreateUser(c, u) ==
    /\ Handle(c, "admin")
    /\ ActiveActor(c)
    /\ user[u] = "absent"
    /\ user' = [user EXCEPT ![u] = "active"]
    /\ UNCHANGED <<session, matterVars, view, writes, away>>

(* Soft disable: sessions, locks and checkouts of the user stay. *)
DisableUser(c, u) ==
    /\ Handle(c, "admin")
    /\ ActiveActor(c)
    /\ user[u] # "absent"
    /\ user' = [user EXCEPT ![u] = "disabled"]
    /\ UNCHANGED <<session, matterVars, view, writes, away>>

(* logout_user_release_locks: every session, lock and checkout of the user. *)
ReleaseUser(u) ==
    /\ session' = [c \in Clients |-> IF session[c] = u THEN None ELSE session[c]]
    /\ lock' = [i \in Items |-> IF lock[i] = u THEN None ELSE lock[i]]
    /\ checkout' = [b \in Batches |-> checkout[b] \ {u}]

(* Requests of u that another client has in flight when u is logged out. *)
LeaveLate(c, u) ==
    /\ away' = away \cup {u}
    /\ late' = (late \cup {d \in Clients : request[d] = u}) \ {c}

(* Mutant: logout deletes the session of its own token only. *)
Logout_token(c) ==
    /\ request[c] # None
    /\ request' = [request EXCEPT ![c] = None]
    /\ LeaveLate(c, request[c])
    /\ session' = [session EXCEPT ![c] = None]
    /\ lock' = [i \in Items |-> IF lock[i] = request[c] THEN None ELSE lock[i]]
    /\ checkout' = [b \in Batches |-> checkout[b] \ {request[c]}]
    /\ UNCHANGED <<user, member, version, review, view, writes>>

Logout(c) ==
    /\ request[c] # None
    /\ request' = [request EXCEPT ![c] = None]
    /\ ReleaseUser(request[c])
    /\ LeaveLate(c, request[c])
    /\ UNCHANGED <<user, member, version, review, view, writes>>

-----------------------------------------------------------------------------
(* Time, and the service process. *)

(* resolve_session deletes an expired row and refuses the token as it does a missing one. *)
SessionLapses(c) ==
    /\ session[c] # None
    /\ session' = [session EXCEPT ![c] = None]
    /\ UNCHANGED <<user, request, matterVars, view, writes, away, late>>

LockLapses(i) ==
    /\ lock[i] # None
    /\ lock' = [lock EXCEPT ![i] = None]
    /\ UNCHANGED <<user, session, request, member, checkout, version, review, view, writes, away,
                   late>>

(* The service stops: requests in flight are lost, the tables stay. *)
Restart ==
    /\ \E c \in Clients : request[c] # None
    /\ request' = [c \in Clients |-> None]
    /\ late' = {}
    /\ UNCHANGED <<user, session, matterVars, view, writes, away>>

Enter(c) == (\E u \in AccountsOf[c] : Login(c, u)) \/ Authenticate(c) \/ LogoutToken(c)

Write(c) ==
    \/ \E e \in CodeEdits, propagate \in BOOLEAN : ApplyCodes(c, e, propagate)
    \/ \E body \in Bodies : UpsertNote(c, body)
    \/ \E claim \in Claims : UpsertPrivilege(c, claim)

Hold(c) ==
    \/ \E i \in Items : GetItem(c, i) \/ LockItem(c, i) \/ UnlockItem(c, i) \/ ForceUnlock(c, i)
    \/ \E b \in Batches :
        \/ \E items \in BatchChoices : CreateBatch(c, b, items)
        \/ CheckoutBatch(c, b)
        \/ CheckinBatch(c, b)

Administer(c) == \E u \in Users : CreateUser(c, u) \/ DisableUser(c, u)

Next ==
    \/ \E c \in Clients :
        Enter(c) \/ Write(c) \/ Hold(c) \/ Administer(c) \/ Logout(c)
        \/ Reject(c) \/ SessionLapses(c)
    \/ \E i \in Items : LockLapses(i)
    \/ Restart

Spec == Init /\ [][Next]_vars

-----------------------------------------------------------------------------
(* Every variable keeps its shape. *)
TypeOK ==
    /\ user \in [Users -> {"absent", "active", "disabled"}]
    /\ session \in [Clients -> Users \cup {None}]
    /\ request \in [Clients -> Users \cup {None}]
    /\ lock \in [Items -> Users \cup {None}]
    /\ member \in [Batches -> SUBSET Items]
    /\ checkout \in [Batches -> SUBSET Users]
    /\ version \in [Items -> Nat]
    /\ review \in [Items -> Reviews]
    /\ view \in [Clients -> Views \cup {None}]
    /\ writes \in Nat
    /\ away \subseteq Users
    /\ late \subseteq Clients

(* No lost update: a client whose version would still be accepted has seen the *)
(* review state it is about to overwrite, whichever of codes, note or claim    *)
(* the other writers changed, alone or through a family.                       *)
NoLostUpdate ==
    \A c \in Clients :
        view[c] # None =>
            LET v == view[c] IN
            /\ v.version <= version[v.item]
            /\ v.version = version[v.item] => v.seen = review[v.item]

(* checkout_batch: at most one user has a batch, although the table's key is   *)
(* the pair of batch and user and two requests may pass authentication first.  *)
OneCheckoutPerBatch == \A b \in Batches : \A u, w \in checkout[b] : u = w

(* Logging out ends everything: whoever logged out on one client has no       *)
(* session on any other, no lock and no checkout, and gets none before the     *)
(* next login.  The one way round it is a request that had passed AuthUser     *)
(* before the logout and is handled after it; nothing else of the user is in   *)
(* flight, and until such a request takes a lock or a batch the user holds     *)
(* nothing.                                                                    *)
LoggedOutHoldsNothing ==
    \A u \in away :
        /\ \A c \in Clients : session[c] # u /\ (request[c] = u => c \in late)
        /\ \A i \in Items : lock[i] # u
        /\ \A b \in Batches : u \notin checkout[b]

(* The handler of c's request runs in this step. *)
Acts(c) == request[c] # None /\ request'[c] = None

(* Whatever happened between authentication and handler, the writer of every   *)
(* changed item is active, no other user holds the item's lock, and the item   *)
(* is in a checked-out batch of the writer if it has one; of the item the      *)
(* writer has open, it has seen what it overwrites.                            *)
WriteIsEntitled ==
    [][\A i \in Items :
        (review'[i] # review[i] \/ version'[i] # version[i]) =>
            \E c \in Clients : LET u == request[c] IN
                /\ Acts(c)
                /\ user[u] = "active"
                /\ lock[i] \in {None, u}
                /\ view[c] # None
                /\ view[c].item = i => view[c].seen = review[i]
                /\ \A b \in Batches : u \in checkout[b] =>
                    \E x \in Batches : u \in checkout[x] /\ i \in member[x]]_vars

(* A lock changes hands only after it was given up, has lapsed or was forced   *)
(* open by an admin: it never passes from one user to another in one step, and *)
(* nobody but its holder or an active admin removes it by a request.           *)
LockKeepsHolder ==
    [][\A i \in Items :
        (lock[i] # None /\ lock'[i] # lock[i]) =>
            /\ lock'[i] = None
            /\ \A c \in Clients : Acts(c) =>
                LET u == request[c] IN u = lock[i] \/ (Role[u] = "admin" /\ user[u] = "active")]_vars

(* A user disabled after its request was authenticated takes no lock and no    *)
(* batch with it.                                                              *)
DisabledTakesNothing ==
    [][\A u \in Users : user[u] # "active" =>
        /\ \A i \in Items : lock'[i] = u => lock[i] = u
        /\ \A b \in Batches : u \in checkout'[b] => u \in checkout[b]]_vars

============================================================================
