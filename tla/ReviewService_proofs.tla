------------------------ MODULE ReviewService_proofs ------------------------
(***************************************************************************)
(* Theorems about ReviewService, for every set of users, clients, items,   *)
(* batches and codes and without the bound on writes mattering.            *)
(***************************************************************************)
EXTENDS ReviewService, TLAPS

(* A write: the shape shared by codes, notes and privilege claims. *)
Writes(c, targets, edited) ==
    /\ view[c] # None
    /\ targets \subseteq Items
    /\ edited \in [Items -> Reviews]
    /\ Mutate(c, targets, edited)

(* Codes after an edit are codes, and a claim stays one of the three values. *)
LEMMA EditIsReview ==
    ASSUME NEW r \in Reviews, NEW e \in CodeEdits
    PROVE  EditCodes(r, e) \in Reviews
<1>1. e.add \subseteq Codes /\ e.remove \subseteq Codes
  BY ReviewAssumptions
<1>2. ((r.codes \ UNION {Group[k] : k \in e.add}) \cup e.add) \ e.remove \subseteq Codes
  BY <1>1 DEF Reviews
<1>3. r.claim \in {"none", "asserted", "cleared"}
  BY DEF Reviews
<1> QED BY <1>2, <1>3 DEF EditCodes, Reviews

(* Each of the three write requests is a write of well-formed review states. *)
LEMMA WriteShape ==
    ASSUME TypeOK, NEW c \in Clients, Write(c)
    PROVE  \E targets, edited : Writes(c, targets, edited)
<1>0. view[c] # None => view[c] \in Views
  BY DEF TypeOK
<1>1. CASE \E e \in CodeEdits, propagate \in BOOLEAN : ApplyCodes(c, e, propagate)
  <2>1. PICK e \in CodeEdits, propagate \in BOOLEAN : ApplyCodes(c, e, propagate)
    BY <1>1
  <2> DEFINE T == IF propagate THEN Family[view[c].item] ELSE {view[c].item}
             E == [i \in Items |-> EditCodes(review[i], e)]
  <2>2. view[c] # None /\ Mutate(c, T, E)
    BY <2>1 DEF ApplyCodes
  <2>3. T \subseteq Items
    BY <1>0, <2>2, ReviewAssumptions DEF Views
  <2>4. E \in [Items -> Reviews]
    BY EditIsReview DEF TypeOK
  <2> QED BY <2>2, <2>3, <2>4 DEF Writes
<1>2. CASE \E body \in Bodies : UpsertNote(c, body)
  <2>1. PICK body \in Bodies : UpsertNote(c, body)
    BY <1>2
  <2> DEFINE E == [i \in Items |-> [review[i] EXCEPT !.note = body]]
  <2>2. view[c] # None /\ Mutate(c, {view[c].item}, E)
    BY <2>1 DEF UpsertNote
  <2>3. E \in [Items -> Reviews]
    BY DEF TypeOK, Reviews
  <2> QED BY <1>0, <2>2, <2>3 DEF Writes, Views
<1>3. CASE \E claim \in Claims : UpsertPrivilege(c, claim)
  <2>1. PICK claim \in Claims : UpsertPrivilege(c, claim)
    BY <1>3
  <2> DEFINE E == [i \in Items |-> [review[i] EXCEPT !.claim = claim]]
  <2>2. view[c] # None /\ Mutate(c, {view[c].item}, E)
    BY <2>1 DEF UpsertPrivilege
  <2>3. E \in [Items -> Reviews]
    BY ReviewAssumptions DEF TypeOK, Reviews
  <2> QED BY <1>0, <2>2, <2>3 DEF Writes, Views
<1> QED BY <1>1, <1>2, <1>3 DEF Write

-----------------------------------------------------------------------------
(* The type invariant. *)

LEMMA InitType == Init => TypeOK
<1> SUFFICES ASSUME Init PROVE TypeOK
  OBVIOUS
<1>1. Unreviewed \in Reviews
  BY DEF Unreviewed, Reviews
<1>2. version \in [Items -> Nat] /\ review \in [Items -> Reviews]
  BY <1>1 DEF Init
<1> QED BY <1>2, ReviewAssumptions DEF Init, TypeOK

LEMMA WriteKeepsType ==
    ASSUME TypeOK, NEW c \in Clients, NEW T, NEW E, Writes(c, T, E)
    PROVE  TypeOK'
<1>1. /\ writes' \in Nat
      /\ version' \in [Items -> Nat]
      /\ review' \in [Items -> Reviews]
  BY DEF Writes, Mutate, PrepareMutates, BumpVersions, TypeOK
<1>2. view' \in [Clients -> Views \cup {None}]
  BY DEF Writes, Mutate, TypeOK
<1>3. request' \in [Clients -> Users \cup {None}] /\ late' \subseteq Clients
  BY DEF Writes, Mutate, Handle, Answered, TypeOK
<1> QED BY <1>1, <1>2, <1>3 DEF Writes, Mutate, TypeOK

LEMMA StepKeepsType ==
    ASSUME TypeOK, Next
    PROVE  TypeOK'
<1> USE ReviewAssumptions
<1>1. CASE \E c \in Clients : Write(c)
  BY <1>1, WriteShape, WriteKeepsType
<1>2. ASSUME NEW c \in Clients, Enter(c) \/ Reject(c) \/ SessionLapses(c)
      PROVE  TypeOK'
  BY <1>2 DEF TypeOK, Enter, Login, Authenticate, LogoutToken, Reject, Answered, SessionLapses,
              matterVars
<1>3. ASSUME NEW c \in Clients, NEW i \in Items, GetItem(c, i)
      PROVE  TypeOK'
  <2>1. [item |-> i, version |-> version[i], seen |-> review[i]] \in Views
    BY DEF TypeOK, Views
  <2>2. view' \in [Clients -> Views \cup {None}]
    BY <1>3, <2>1 DEF GetItem, TypeOK
  <2>3. request' \in [Clients -> Users \cup {None}] /\ late' \subseteq Clients
    BY <1>3 DEF GetItem, Handle, Answered, TypeOK
  <2> QED BY <1>3, <2>2, <2>3 DEF GetItem, TypeOK, matterVars
<1>4. ASSUME NEW c \in Clients, NEW i \in Items, LockItem(c, i) \/ UnlockItem(c, i) \/ ForceUnlock(c, i)
      PROVE  TypeOK'
  <2>1. request[c] \in Users /\ request' \in [Clients -> Users \cup {None}] /\ late' \subseteq Clients
    BY <1>4 DEF LockItem, UnlockItem, ForceUnlock, Handle, Answered, TypeOK
  <2>2. lock' \in [Items -> Users \cup {None}] /\ away' \subseteq Users
    BY <1>4, <2>1 DEF LockItem, UnlockItem, ForceUnlock, EndsAway, TypeOK
  <2> QED BY <1>4, <2>1, <2>2 DEF LockItem, UnlockItem, ForceUnlock, TypeOK
<1>5. ASSUME NEW c \in Clients, NEW b \in Batches, NEW items \in BatchChoices, CreateBatch(c, b, items)
      PROVE  TypeOK'
  BY <1>5 DEF CreateBatch, Handle, Answered, TypeOK
<1>6. ASSUME NEW c \in Clients, NEW b \in Batches, CheckoutBatch(c, b) \/ CheckinBatch(c, b)
      PROVE  TypeOK'
  <2>1. checkout' \in [Batches -> SUBSET Users]
    BY <1>6 DEF CheckoutBatch, CheckinBatch, Handle, TypeOK
  <2>2. /\ request' \in [Clients -> Users \cup {None}]
        /\ late' \subseteq Clients /\ away' \subseteq Users
    BY <1>6 DEF CheckoutBatch, CheckinBatch, EndsAway, Handle, Answered, TypeOK
  <2> QED BY <1>6, <2>1, <2>2 DEF CheckoutBatch, CheckinBatch, TypeOK
<1>7. ASSUME NEW c \in Clients, NEW u \in Users, CreateUser(c, u) \/ DisableUser(c, u)
      PROVE  TypeOK'
  BY <1>7 DEF CreateUser, DisableUser, Handle, Answered, TypeOK, matterVars
<1>8. ASSUME NEW c \in Clients, Logout(c)
      PROVE  TypeOK'
  <2>1. /\ session' \in [Clients -> Users \cup {None}]
        /\ lock' \in [Items -> Users \cup {None}]
        /\ checkout' \in [Batches -> SUBSET Users]
    BY <1>8 DEF Logout, ReleaseUser, TypeOK
  <2>2. request' \in [Clients -> Users \cup {None}] /\ late' \subseteq Clients /\ away' \subseteq Users
    BY <1>8 DEF Logout, LeaveLate, TypeOK
  <2> QED BY <1>8, <2>1, <2>2 DEF Logout, TypeOK
<1>9. ASSUME NEW i \in Items, LockLapses(i)
      PROVE  TypeOK'
  BY <1>9 DEF LockLapses, TypeOK
<1>10. CASE Restart
  BY <1>10 DEF Restart, TypeOK, matterVars
<1> QED
  BY <1>1, <1>2, <1>3, <1>4, <1>5, <1>6, <1>7, <1>8, <1>9, <1>10 DEF Next, Hold, Administer

LEMMA StutterKeepsType == ASSUME TypeOK, UNCHANGED vars PROVE TypeOK'
  BY DEF TypeOK, vars

(* Type correctness, for any number of users, clients, items and batches. *)
THEOREM TypeCorrect == Spec => []TypeOK
<1>1. TypeOK /\ [Next]_vars => TypeOK'
  BY StepKeepsType, StutterKeepsType
<1> QED BY InitType, <1>1, PTL DEF Spec

-----------------------------------------------------------------------------
(* No lost update.  The invariant is inductive with the types: a write bumps   *)
(* the version of every item whose review state it replaces.                   *)

LEMMA StepKeepsNoLostUpdate ==
    ASSUME TypeOK, NoLostUpdate, Next
    PROVE  NoLostUpdate'
<1> USE ReviewAssumptions
<1>1. ASSUME NEW c \in Clients, Write(c)
      PROVE  NoLostUpdate'
  <2>1. PICK T, E : Writes(c, T, E)
    BY <1>1, WriteShape
  <2>2. \A i \in Items : /\ version[i] \in Nat
                         /\ version'[i] = IF i \in T THEN version[i] + 1 ELSE version[i]
                         /\ i \notin T => review'[i] = review[i]
    BY <2>1 DEF Writes, Mutate, PrepareMutates, BumpVersions, TypeOK
  <2>3. view' = [view EXCEPT ![c] = None]
    BY <2>1 DEF Writes, Mutate
  <2> SUFFICES ASSUME NEW d \in Clients, view'[d] # None
               PROVE  /\ view'[d].version <= version'[view'[d].item]
                      /\ view'[d].version = version'[view'[d].item] =>
                            view'[d].seen = review'[view'[d].item]
    BY DEF NoLostUpdate
  <2>4. view'[d] = view[d] /\ view[d] \in Views
    BY <2>3 DEF TypeOK
  <2>5. view[d].item \in Items /\ view[d].version \in Nat
    BY <2>4 DEF Views
  <2>6. /\ view[d].version <= version[view[d].item]
        /\ view[d].version = version[view[d].item] => view[d].seen = review[view[d].item]
    BY <2>4 DEF NoLostUpdate
  <2> QED BY <2>2, <2>4, <2>5, <2>6
<1>2. ASSUME NEW c \in Clients, NEW i \in Items, GetItem(c, i)
      PROVE  NoLostUpdate'
  <2>1. version' = version /\ review' = review
    BY <1>2 DEF GetItem, matterVars
  <2>2. version[i] \in Nat
    BY DEF TypeOK
  <2>3. view' = [view EXCEPT ![c] = [item |-> i, version |-> version[i], seen |-> review[i]]]
    BY <1>2 DEF GetItem
  <2>4. \A d \in Clients : view'[d] = IF d = c THEN [item |-> i, version |-> version[i], seen |-> review[i]]
                                      ELSE view[d]
    BY <2>3 DEF TypeOK
  <2> SUFFICES ASSUME NEW d \in Clients, view'[d] # None
               PROVE  /\ view'[d].version <= version'[view'[d].item]
                      /\ view'[d].version = version'[view'[d].item] =>
                            view'[d].seen = review'[view'[d].item]
    BY DEF NoLostUpdate
  <2>5. CASE d = c
    BY <2>1, <2>2, <2>4, <2>5
  <2>6. CASE d # c
    BY <2>1, <2>4, <2>6 DEF NoLostUpdate
  <2> QED BY <2>5, <2>6
<1>3. ASSUME NEW c \in Clients, NEW u \in Users, Login(c, u)
      PROVE  NoLostUpdate'
  BY <1>3 DEF Login, matterVars, NoLostUpdate, TypeOK
<1>4. ASSUME UNCHANGED <<view, version, review>>
      PROVE  NoLostUpdate'
  BY <1>4 DEF NoLostUpdate
<1>5. ASSUME NEW c \in Clients,
             \/ Authenticate(c) \/ LogoutToken(c) \/ Reject(c) \/ SessionLapses(c) \/ Logout(c)
             \/ Administer(c)
      PROVE  UNCHANGED <<view, version, review>>
  BY <1>5 DEF Authenticate, LogoutToken, Reject, SessionLapses, Logout, Administer, CreateUser,
              DisableUser, matterVars
<1>6. ASSUME NEW c \in Clients, Hold(c), \A i \in Items : ~GetItem(c, i)
      PROVE  UNCHANGED <<view, version, review>>
  BY <1>6 DEF Hold, LockItem, UnlockItem, ForceUnlock, CreateBatch, CheckoutBatch, CheckinBatch
<1>7. ASSUME (\E i \in Items : LockLapses(i)) \/ Restart
      PROVE  UNCHANGED <<view, version, review>>
  BY <1>7 DEF LockLapses, Restart, matterVars
<1> QED
  BY <1>1, <1>2, <1>3, <1>4, <1>5, <1>6, <1>7 DEF Next, Enter

(* A version that would still be accepted belongs to the review state the client has seen. *)
THEOREM NoLostUpdateTheorem == Spec => []NoLostUpdate
<1>1. Init => NoLostUpdate
  BY DEF Init, NoLostUpdate
<1>2. TypeOK /\ NoLostUpdate /\ [Next]_vars => NoLostUpdate'
  <2>1. ASSUME NoLostUpdate, UNCHANGED vars PROVE NoLostUpdate'
    BY <2>1 DEF NoLostUpdate, vars
  <2> QED BY <2>1, StepKeepsNoLostUpdate
<1> QED BY <1>1, <1>2, TypeCorrect, PTL DEF Spec

-----------------------------------------------------------------------------
(* Checkouts. *)

LEMMA StepKeepsOneCheckout ==
    ASSUME TypeOK, OneCheckoutPerBatch, Next
    PROVE  OneCheckoutPerBatch'
<1>1. ASSUME NEW c \in Clients, NEW b \in Batches, CheckoutBatch(c, b)
      PROVE  OneCheckoutPerBatch'
  <2>1. \A x \in Batches : checkout'[x] = IF x = b THEN checkout[b] \cup {request[c]} ELSE checkout[x]
    BY <1>1 DEF CheckoutBatch, TypeOK
  <2>2. checkout[b] \subseteq {request[c]}
    BY <1>1 DEF CheckoutBatch
  <2> QED BY <2>1, <2>2 DEF OneCheckoutPerBatch
<1>2. ASSUME \A b \in Batches : checkout'[b] \subseteq checkout[b]
      PROVE  OneCheckoutPerBatch'
  BY <1>2 DEF OneCheckoutPerBatch
<1>3. ASSUME NEW c \in Clients, NEW x \in Batches, CheckinBatch(c, x)
      PROVE  \A b \in Batches : checkout'[b] \subseteq checkout[b]
  <2>1. \A b \in Batches : checkout'[b] = IF b = x THEN checkout[x] \ {request[c]} ELSE checkout[b]
    BY <1>3 DEF CheckinBatch, TypeOK
  <2> QED BY <2>1
<1>8. ASSUME NEW c \in Clients, Logout(c)
      PROVE  \A b \in Batches : checkout'[b] \subseteq checkout[b]
  <2>1. \A b \in Batches : checkout'[b] = checkout[b] \ {request[c]}
    BY <1>8 DEF Logout, ReleaseUser
  <2> QED BY <2>1
<1>4. ASSUME UNCHANGED checkout
      PROVE  \A b \in Batches : checkout'[b] \subseteq checkout[b]
  BY <1>4
<1>5. ASSUME NEW c \in Clients, Enter(c) \/ Write(c) \/ Administer(c) \/ Reject(c) \/ SessionLapses(c)
      PROVE  UNCHANGED checkout
  BY <1>5 DEF Enter, Login, Authenticate, LogoutToken, Write, ApplyCodes, UpsertNote, UpsertPrivilege,
              Mutate, Administer, CreateUser, DisableUser, Reject, SessionLapses, matterVars
<1>6. ASSUME NEW c \in Clients, Hold(c), \A b \in Batches : ~CheckoutBatch(c, b) /\ ~CheckinBatch(c, b)
      PROVE  UNCHANGED checkout
  BY <1>6 DEF Hold, GetItem, LockItem, UnlockItem, ForceUnlock, CreateBatch, matterVars
<1>7. ASSUME (\E i \in Items : LockLapses(i)) \/ Restart
      PROVE  UNCHANGED checkout
  BY <1>7 DEF LockLapses, Restart, matterVars
<1> QED
  BY <1>1, <1>2, <1>3, <1>4, <1>5, <1>6, <1>7, <1>8 DEF Next

(* A batch is checked out to one user at most. *)
THEOREM OneCheckoutTheorem == Spec => []OneCheckoutPerBatch
<1>1. Init => OneCheckoutPerBatch
  BY DEF Init, OneCheckoutPerBatch
<1>2. TypeOK /\ OneCheckoutPerBatch /\ [Next]_vars => OneCheckoutPerBatch'
  <2>1. ASSUME OneCheckoutPerBatch, UNCHANGED vars PROVE OneCheckoutPerBatch'
    BY <2>1 DEF OneCheckoutPerBatch, vars
  <2> QED BY <2>1, StepKeepsOneCheckout
<1> QED BY <1>1, <1>2, TypeCorrect, PTL DEF Spec

-----------------------------------------------------------------------------
(* Logging out. *)

(* Nothing is gained by a user that is away, except through a late request. *)
GainsNothing(u) ==
    /\ \A c \in Clients : /\ session'[c] = u => session[c] = u
                          /\ request'[c] = u => request[c] = u /\ (c \in late => c \in late')
    /\ \A i \in Items : lock'[i] = u => lock[i] = u
    /\ \A b \in Batches : u \in checkout'[b] => u \in checkout[b]

LEMMA AwayStaysBare ==
    ASSUME LoggedOutHoldsNothing, away' \subseteq away, \A u \in away' : GainsNothing(u)
    PROVE  LoggedOutHoldsNothing'
<1> SUFFICES ASSUME NEW u \in away'
             PROVE  /\ \A c \in Clients : session'[c] # u /\ (request'[c] = u => c \in late')
                    /\ \A i \in Items : lock'[i] # u
                    /\ \A b \in Batches : u \notin checkout'[b]
  BY DEF LoggedOutHoldsNothing
<1> QED BY DEF LoggedOutHoldsNothing, GainsNothing

(* A handled request leaves the requests of the other clients as they were. *)
LEMMA HandleLeaves ==
    ASSUME TypeOK, NEW c \in Clients, NEW role, Handle(c, role)
    PROVE  /\ request[c] \in Users
           /\ \A u \in Users : \A d \in Clients :
                 request'[d] = u => request[d] = u /\ (d \in late => d \in late')
BY ReviewAssumptions DEF Handle, Answered, TypeOK

(* A request of a user that is away is a late one. *)
LEMMA AwayIsLate ==
    ASSUME LoggedOutHoldsNothing, NEW c \in Clients, request[c] \in away
    PROVE  c \in late
BY DEF LoggedOutHoldsNothing

LEMMA StepKeepsLoggedOut ==
    ASSUME TypeOK, LoggedOutHoldsNothing, Next
    PROVE  LoggedOutHoldsNothing'
<1> USE ReviewAssumptions
<1>0. away \subseteq Users
  BY DEF TypeOK
<1>1. ASSUME NEW c \in Clients, Enter(c) \/ Reject(c) \/ SessionLapses(c)
      PROVE  away' \subseteq away /\ \A u \in away' : GainsNothing(u)
  <2>1. CASE \E u \in AccountsOf[c] : Login(c, u)
    BY <2>1 DEF Login, matterVars, GainsNothing, TypeOK
  <2>2. CASE Authenticate(c)
    <3>1. session[c] \notin away
      BY <2>2 DEF Authenticate, LoggedOutHoldsNothing
    <3> QED BY <2>2, <3>1 DEF Authenticate, matterVars, GainsNothing, TypeOK
  <2>3. CASE LogoutToken(c) \/ Reject(c) \/ SessionLapses(c)
    BY <1>0, <2>3 DEF LogoutToken, Reject, Answered, SessionLapses, matterVars, GainsNothing, TypeOK
  <2> QED BY <1>1, <2>1, <2>2, <2>3 DEF Enter
<1>3. ASSUME NEW c \in Clients, Write(c)
      PROVE  away' \subseteq away /\ \A u \in away' : GainsNothing(u)
  <2>1. PICK T, E : Writes(c, T, E)
    BY <1>3, WriteShape
  <2>2. Handle(c, "reviewer") /\ UNCHANGED <<session, lock, checkout, away>>
    BY <2>1 DEF Writes, Mutate
  <2> QED BY <1>0, <2>2, HandleLeaves DEF GainsNothing
<1>4. ASSUME NEW c \in Clients, NEW i \in Items,
             GetItem(c, i) \/ LockItem(c, i) \/ UnlockItem(c, i) \/ ForceUnlock(c, i)
      PROVE  away' \subseteq away /\ \A u \in away' : GainsNothing(u)
  <2>1. UNCHANGED <<session, checkout>> /\ \E role : Handle(c, role)
    BY <1>4 DEF GetItem, LockItem, UnlockItem, ForceUnlock, matterVars
  <2>2. away' \subseteq away /\ \A x \in Items : lock'[x] \in {lock[x], request[c], None}
    BY <1>4 DEF GetItem, LockItem, UnlockItem, ForceUnlock, EndsAway, matterVars, TypeOK
  <2>3. \A x \in Items : lock'[x] \in away' => lock'[x] = lock[x]
    <3>1. CASE LockItem(c, i)
      BY <1>0, <2>2, <3>1, AwayIsLate DEF LockItem, EndsAway, TypeOK
    <3>2. CASE GetItem(c, i) \/ UnlockItem(c, i) \/ ForceUnlock(c, i)
      BY <1>0, <2>2, <3>2 DEF GetItem, UnlockItem, ForceUnlock, matterVars, TypeOK
    <3> QED BY <1>4, <3>1, <3>2
  <2> QED BY <1>0, <2>1, <2>2, <2>3, HandleLeaves DEF GainsNothing
<1>5. ASSUME NEW c \in Clients, NEW b \in Batches,
             (\E items \in BatchChoices : CreateBatch(c, b, items)) \/ CheckoutBatch(c, b) \/ CheckinBatch(c, b)
      PROVE  away' \subseteq away /\ \A u \in away' : GainsNothing(u)
  <2>1. UNCHANGED <<session, lock>> /\ \E role : Handle(c, role)
    BY <1>5 DEF CreateBatch, CheckoutBatch, CheckinBatch
  <2>2. /\ away' \subseteq away
        /\ \A u \in away' : \A x \in Batches : u \in checkout'[x] => u \in checkout[x]
    <3>1. CASE \E items \in BatchChoices : CreateBatch(c, b, items)
      BY <3>1 DEF CreateBatch
    <3>2. CASE CheckoutBatch(c, b)
      <4>1. \A x \in Batches : checkout'[x] = IF x = b THEN checkout[b] \cup {request[c]} ELSE checkout[x]
        BY <3>2 DEF CheckoutBatch, TypeOK
      <4>2. away' \subseteq away /\ request[c] \notin away'
        BY <3>2, AwayIsLate DEF CheckoutBatch, EndsAway
      <4> QED BY <4>1, <4>2
    <3>3. CASE CheckinBatch(c, b)
      <4>1. \A x \in Batches : checkout'[x] = IF x = b THEN checkout[b] \ {request[c]} ELSE checkout[x]
        BY <3>3 DEF CheckinBatch, TypeOK
      <4> QED BY <3>3, <4>1 DEF CheckinBatch
    <3> QED BY <1>5, <3>1, <3>2, <3>3
  <2> QED BY <1>0, <2>1, <2>2, HandleLeaves DEF GainsNothing
<1>6. ASSUME NEW c \in Clients, Administer(c)
      PROVE  away' \subseteq away /\ \A u \in away' : GainsNothing(u)
  <2>1. Handle(c, "admin") /\ UNCHANGED <<session, lock, checkout, away>>
    BY <1>6 DEF Administer, CreateUser, DisableUser, matterVars
  <2> QED BY <1>0, <2>1, HandleLeaves DEF GainsNothing
<1>7. ASSUME NEW c \in Clients, Logout(c)
      PROVE  LoggedOutHoldsNothing'
  <2> DEFINE w == request[c]
  <2>1. /\ w \in Users /\ away' = away \cup {w}
        /\ \A d \in Clients : request'[d] = IF d = c THEN None ELSE request[d]
        /\ \A d \in Clients \ {c} : d \in late' <=> d \in late \/ request[d] = w
    BY <1>7 DEF Logout, LeaveLate, TypeOK
  <2>2. /\ \A d \in Clients : session'[d] = IF session[d] = w THEN None ELSE session[d]
        /\ \A i \in Items : lock'[i] = IF lock[i] = w THEN None ELSE lock[i]
        /\ \A b \in Batches : checkout'[b] = checkout[b] \ {w}
    BY <1>7 DEF Logout, ReleaseUser
  <2>3. ASSUME NEW u \in away'
        PROVE  /\ \A d \in Clients : session'[d] # u /\ (request'[d] = u => d \in late')
               /\ \A i \in Items : lock'[i] # u
               /\ \A b \in Batches : u \notin checkout'[b]
    <3>0. u \in Users /\ u # None
      BY <1>0, <2>1
    <3>1. CASE u = w
      BY <3>0, <3>1, <2>1, <2>2
    <3>2. CASE u # w
      BY <3>0, <3>2, <2>1, <2>2 DEF LoggedOutHoldsNothing
    <3> QED BY <3>1, <3>2
  <2> QED BY <2>3 DEF LoggedOutHoldsNothing
<1>8. ASSUME (\E i \in Items : LockLapses(i)) \/ Restart
      PROVE  away' \subseteq away /\ \A u \in away' : GainsNothing(u)
  BY <1>0, <1>8 DEF LockLapses, Restart, matterVars, GainsNothing, TypeOK
<1> QED
  BY <1>1, <1>3, <1>4, <1>5, <1>6, <1>7, <1>8, AwayStaysBare DEF Next, Hold

(* A user that has logged out holds nothing until the next login, but for what a request *)
(* authenticated before the logout takes.                                                *)
THEOREM LoggedOutTheorem == Spec => []LoggedOutHoldsNothing
<1>1. Init => LoggedOutHoldsNothing
  BY DEF Init, LoggedOutHoldsNothing
<1>2. TypeOK /\ LoggedOutHoldsNothing /\ [Next]_vars => LoggedOutHoldsNothing'
  <2>1. ASSUME LoggedOutHoldsNothing, UNCHANGED vars PROVE LoggedOutHoldsNothing'
    BY <2>1 DEF LoggedOutHoldsNothing, vars
  <2> QED BY <2>1, StepKeepsLoggedOut
<1> QED BY <1>1, <1>2, TypeCorrect, PTL DEF Spec

-----------------------------------------------------------------------------
(* What a step may do. *)

(* Only a write request touches review states or versions. *)
LEMMA OnlyWritesWrite ==
    ASSUME Next, \A c \in Clients : ~Write(c)
    PROVE  UNCHANGED <<version, review>>
BY DEF Next, Enter, Login, Authenticate, LogoutToken, Hold, GetItem, LockItem, UnlockItem, ForceUnlock,
       CreateBatch, CheckoutBatch, CheckinBatch, Administer, CreateUser, DisableUser, Logout, Reject,
       SessionLapses, LockLapses, Restart, matterVars

(* The writer of a changed item is entitled to it and has seen what it replaces. *)
THEOREM WriteIsEntitledTheorem == Spec => WriteIsEntitled
<1> DEFINE Entitled(i) ==
        \E c \in Clients : LET u == request[c] IN
            /\ Acts(c)
            /\ user[u] = "active"
            /\ lock[i] \in {None, u}
            /\ view[c] # None
            /\ view[c].item = i => view[c].seen = review[i]
            /\ \A b \in Batches : u \in checkout[b] =>
                \E x \in Batches : u \in checkout[x] /\ i \in member[x]
<1>1. ASSUME TypeOK, NoLostUpdate, Next, NEW i \in Items,
             review'[i] # review[i] \/ version'[i] # version[i]
      PROVE  Entitled(i)
  <2>1. PICK c \in Clients : Write(c)
    BY <1>1, OnlyWritesWrite
  <2>2. PICK T, E : Writes(c, T, E)
    BY <1>1, <2>1, WriteShape
  <2>3. i \in T
    BY <1>1, <2>2 DEF Writes, Mutate, PrepareMutates, BumpVersions, TypeOK
  <2>4. /\ user[request[c]] = "active"
        /\ CanMutate(i, request[c])
        /\ version[i] = view[c].version
        /\ view[c] # None
    BY <2>2, <2>3 DEF Writes, Mutate, PrepareMutates, ActiveActor, VersionMatches
  <2>5. Acts(c)
    BY <1>1, <2>2 DEF Writes, Mutate, Handle, Answered, Acts, TypeOK
  <2>6. view[c].item = i => view[c].seen = review[i]
    BY <1>1, <2>4 DEF NoLostUpdate
  <2>7. \A b \in Batches : request[c] \in checkout[b] =>
            \E x \in Batches : request[c] \in checkout[x] /\ i \in member[x]
    BY <2>4 DEF CanMutate, InCheckedOutBatch, CheckedOutItems
  <2>8. lock[i] \in {None, request[c]}
    BY <2>4 DEF CanMutate, LockedByOther
  <2> QED BY <2>4, <2>5, <2>6, <2>7, <2>8
<1>2. ASSUME UNCHANGED vars, NEW i \in Items
      PROVE  ~(review'[i] # review[i] \/ version'[i] # version[i])
  BY <1>2 DEF vars
<1>3. TypeOK /\ NoLostUpdate /\ [Next]_vars =>
        [\A i \in Items : (review'[i] # review[i] \/ version'[i] # version[i]) => Entitled(i)]_vars
  BY <1>1
<1> QED BY <1>3, TypeCorrect, NoLostUpdateTheorem, PTL DEF Spec, WriteIsEntitled

(* A lock is given up before it is taken, and only its holder or an active admin gives it up. *)
THEOREM LockKeepsHolderTheorem == Spec => LockKeepsHolder
<1> USE ReviewAssumptions
<1> DEFINE Kept(i) ==
        /\ lock'[i] = None
        /\ \A c \in Clients : Acts(c) =>
            LET u == request[c] IN u = lock[i] \/ (Role[u] = "admin" /\ user[u] = "active")
<1>1. ASSUME TypeOK, Next, NEW i \in Items, lock[i] # None, lock'[i] # lock[i]
      PROVE  Kept(i)
  <2>1. ASSUME NEW c \in Clients, NEW role, Handle(c, role)
        PROVE  \A d \in Clients : Acts(d) => d = c
    BY <1>1, <2>1 DEF Handle, Answered, Acts, TypeOK
  <2>2. ASSUME NEW c \in Clients, NEW x \in Items, LockItem(c, x) \/ UnlockItem(c, x)
        PROVE  Kept(i)
    <3>1. Handle(c, "reviewer") /\ lock[x] \in {None, request[c]}
      BY <2>2 DEF LockItem, UnlockItem, LockedByOther
    <3>2. x = i /\ lock'[i] \in {None, request[c]}
      BY <1>1, <2>2 DEF LockItem, UnlockItem, TypeOK
    <3>3. lock[i] = request[c] /\ lock'[i] = None
      BY <1>1, <3>1, <3>2
    <3> QED BY <2>1, <3>1, <3>3
  <2>3. ASSUME NEW c \in Clients, NEW x \in Items, ForceUnlock(c, x)
        PROVE  Kept(i)
    <3>1. Handle(c, "admin") /\ user[request[c]] = "active"
      BY <2>3 DEF ForceUnlock, ActiveActor
    <3>2. Role[request[c]] = "admin"
      <4>1. request[c] \in Users
        BY <1>1, <3>1 DEF Handle, TypeOK
      <4> QED BY <3>1, <4>1 DEF Handle, RoleRank
    <3>3. lock'[i] = None
      BY <1>1, <2>3 DEF ForceUnlock, TypeOK
    <3> QED BY <2>1, <3>1, <3>2, <3>3
  <2>4. ASSUME NEW c \in Clients, Logout(c)
        PROVE  Kept(i)
    <3>1. lock[i] = request[c] /\ lock'[i] = None
      BY <1>1, <2>4 DEF Logout, ReleaseUser
    <3>2. \A d \in Clients : Acts(d) => d = c
      BY <1>1, <2>4 DEF Logout, Acts, TypeOK
    <3> QED BY <3>1, <3>2
  <2>5. ASSUME NEW x \in Items, LockLapses(x)
        PROVE  Kept(i)
    <3>1. lock'[i] = None /\ request' = request
      BY <1>1, <2>5 DEF LockLapses, TypeOK
    <3> QED BY <3>1 DEF Acts
  <2>6. ASSUME NEW c \in Clients, Enter(c) \/ Write(c) \/ Administer(c) \/ Reject(c) \/ SessionLapses(c)
        PROVE  UNCHANGED lock
    BY <2>6 DEF Enter, Login, Authenticate, LogoutToken, Write, ApplyCodes, UpsertNote, UpsertPrivilege,
                Mutate, Administer, CreateUser, DisableUser, Reject, SessionLapses, matterVars
  <2>7. ASSUME NEW c \in Clients,
               \/ \E x \in Items : GetItem(c, x)
               \/ \E b \in Batches : (\E items \in BatchChoices : CreateBatch(c, b, items))
                                     \/ CheckoutBatch(c, b) \/ CheckinBatch(c, b)
        PROVE  UNCHANGED lock
    BY <2>7 DEF GetItem, CreateBatch, CheckoutBatch, CheckinBatch, matterVars
  <2>8. ASSUME Restart PROVE UNCHANGED lock
    BY <2>8 DEF Restart, matterVars
  <2> QED BY <1>1, <2>2, <2>3, <2>4, <2>5, <2>6, <2>7, <2>8 DEF Next, Hold
<1>2. TypeOK /\ [Next]_vars =>
        [\A i \in Items : (lock[i] # None /\ lock'[i] # lock[i]) => Kept(i)]_vars
  BY <1>1
<1> QED BY <1>2, TypeCorrect, PTL DEF Spec, LockKeepsHolder

(* A disabled user gains no lock and no batch from a request authenticated before. *)
THEOREM DisabledTakesNothingTheorem == Spec => DisabledTakesNothing
<1> USE ReviewAssumptions
<1> DEFINE Bare(u) == /\ \A i \in Items : lock'[i] = u => lock[i] = u
                      /\ \A b \in Batches : u \in checkout'[b] => u \in checkout[b]
<1>1. ASSUME TypeOK, Next, NEW u \in Users, user[u] # "active"
      PROVE  Bare(u)
  <2>1. ASSUME NEW c \in Clients, NEW i \in Items, LockItem(c, i)
        PROVE  Bare(u)
    BY <1>1, <2>1 DEF LockItem, ActiveActor, TypeOK
  <2>2. ASSUME NEW c \in Clients, NEW b \in Batches, CheckoutBatch(c, b)
        PROVE  Bare(u)
    <3>1. request[c] # u
      BY <1>1, <2>2 DEF CheckoutBatch, ActiveActor
    <3>2. \A x \in Batches : checkout'[x] = IF x = b THEN checkout[b] \cup {request[c]} ELSE checkout[x]
      BY <1>1, <2>2 DEF CheckoutBatch, TypeOK
    <3> QED BY <2>2, <3>1, <3>2 DEF CheckoutBatch
  <2>3. ASSUME NEW c \in Clients, NEW b \in Batches, CheckinBatch(c, b)
        PROVE  Bare(u)
    <3>1. \A x \in Batches : checkout'[x] = IF x = b THEN checkout[b] \ {request[c]} ELSE checkout[x]
      BY <1>1, <2>3 DEF CheckinBatch, TypeOK
    <3> QED BY <2>3, <3>1 DEF CheckinBatch
  <2>4. ASSUME NEW c \in Clients, Logout(c)
        PROVE  Bare(u)
    BY <1>1, <2>4 DEF Logout, ReleaseUser, TypeOK
  <2>5. ASSUME (\E c \in Clients, i \in Items : UnlockItem(c, i) \/ ForceUnlock(c, i))
               \/ (\E i \in Items : LockLapses(i))
        PROVE  Bare(u)
    BY <1>1, <2>5 DEF UnlockItem, ForceUnlock, LockLapses, TypeOK
  <2>6. ASSUME NEW c \in Clients, Enter(c) \/ Write(c) \/ Administer(c) \/ Reject(c) \/ SessionLapses(c)
        PROVE  UNCHANGED <<lock, checkout>>
    BY <2>6 DEF Enter, Login, Authenticate, LogoutToken, Write, ApplyCodes, UpsertNote, UpsertPrivilege,
                Mutate, Administer, CreateUser, DisableUser, Reject, SessionLapses, matterVars
  <2>7. ASSUME (\E c \in Clients, i \in Items : GetItem(c, i)) \/ Restart
               \/ (\E c \in Clients, b \in Batches, items \in BatchChoices : CreateBatch(c, b, items))
        PROVE  UNCHANGED <<lock, checkout>>
    BY <2>7 DEF GetItem, CreateBatch, Restart, matterVars
  <2> QED BY <1>1, <2>1, <2>2, <2>3, <2>4, <2>5, <2>6, <2>7 DEF Next, Hold
<1>2. TypeOK /\ [Next]_vars => [\A u \in Users : user[u] # "active" => Bare(u)]_vars
  BY <1>1
<1> QED BY <1>2, TypeCorrect, PTL DEF Spec, DisabledTakesNothing

============================================================================
