-------------------------- MODULE EmailChangeProofs -------------------------
(***************************************************************************)
(* Proofs about EmailChange, for any sets of users, temporary users,       *)
(* addresses and handlers: type correctness, and that whatever interleaves *)
(* and fails, an address changes only on the request of its user and a     *)
(* handler deletes only temporary users of the user it serves.  For users  *)
(* whose handlers do not overlap, the request that the metadata show is    *)
(* the one that can be confirmed; and if an address that is pending cannot *)
(* be asked for again, then others hold it.                                *)
(***************************************************************************)
EXTENDS EmailChange, TLAPS

-----------------------------------------------------------------------------
(* Type correctness.  A handler under way serves a user, and the steps     *)
(* that use a temporary user have one.                                     *)

HandlerInv ==
    \A c \in Calls :
        /\ pc[c] \notin Ended => userId[c] \in Users
        /\ pc[c] \in {"lookup", "discard", "create"} => newEmail[c] \in Emails
        /\ pc[c] \in {"point", "verify", "switch", "drop"} => tempUser[c] \in Created
        /\ pc[c] \in {"discard", "cancel"} => user[c].pending.id \in Temps
        /\ pc[c] \in {"lookup", "discard", "create"} => user[c].email \in Emails

\* The claims of a temporary user are complete.
ClaimsInv ==
    \A t \in Created : /\ claims[t].email \in Emails
                       /\ claims[t].originalUserId \in Users

TypeInv == TypeOK /\ HandlerInv /\ ClaimsInv

\* A handler that starts has read a user of the tenant.
LEMMA StartTypeOK ==
    ASSUME TypeInv, NEW c \in Calls, NEW u \in Users, NEW to \in CallPC \ Ended,
           NEW e \in Emails \cup {None}, NEW t \in Temps \cup {None},
           Start(c, u, to, e, t),
           to = "lookup" => e \in Emails,
           to = "verify" => t \in Created,
           to = "cancel" => pending[u].id \in Temps,
           to \in {"lookup", "cancel", "verify", "profile"}
    PROVE  TypeInv'
<1> USE DEF TypeInv, TypeOK, Start, tenantVars
<1>1. TypeOK'
  BY DEF CallPC
<1>2. HandlerInv'
  BY DEF HandlerInv, Created, Ended
<1>3. ClaimsInv'
  BY DEF ClaimsInv, Created
<1> QED BY <1>1, <1>2, <1>3

\* A handler that moves keeps its user, or forgets it when it is over.
LEMMA MovesTypeOK ==
    ASSUME TypeOK, NEW c \in Calls, NEW from \in CallPC, NEW to \in CallPC,
           NEW t \in Temps \cup {None}, Moves(c, from, to, t)
    PROVE  /\ pc' \in [Calls -> CallPC]
           /\ userId' \in [Calls -> Users \cup {None}]
           /\ newEmail' \in [Calls -> Emails \cup {None}]
           /\ tempUser' \in [Calls -> Temps \cup {None}]
           /\ user' \in [Calls -> [email : Emails \cup {None},
                                   pending : [id : Temps \cup {None},
                                              email : Emails \cup {None}]]]
<1>1. NoUser \in [email : Emails \cup {None},
                  pending : [id : Temps \cup {None}, email : Emails \cup {None}]]
  BY DEF NoUser, NotPending
<1>2. user' = user \/ user' = [user EXCEPT ![c] = NoUser]
  BY DEF Moves
<1>3. user' \in [Calls -> [email : Emails \cup {None},
                           pending : [id : Temps \cup {None},
                                      email : Emails \cup {None}]]]
  BY <1>1, <1>2 DEF TypeOK
<1> QED BY <1>3 DEF TypeOK, Moves

LEMMA LookupTypeOK ==
    ASSUME TypeInv, NEW c \in Calls, Lookup(c)
    PROVE  TypeInv'
<1>1. LookupResult(c) \in {"idle", "resent", "rejected", "discard", "create"}
  BY DEF LookupResult, TypeInv, TypeOK
<1>2. LookupResult(c) = "discard" => user[c].pending.id \in Temps
  BY DEF LookupResult, TypeInv, TypeOK
<1>3. TypeOK'
  BY <1>1, MovesTypeOK DEF Lookup, TypeInv, TypeOK, tenantVars, CallPC, Ended
<1>4. HandlerInv' /\ ClaimsInv'
  BY <1>1, <1>2
  DEF Lookup, Moves, TypeInv, TypeOK, HandlerInv, ClaimsInv, Created, Ended,
      tenantVars
<1> QED BY <1>3, <1>4 DEF TypeInv

\* The steps that write no claims.
LEMMA PlainTypeOK ==
    ASSUME TypeInv, NEW c \in Calls,
           \/ Discard(c) \/ Point(c) \/ Cancel(c) \/ Clear(c) \/ Verify(c)
           \/ Switch(c) \/ Drop(c) \/ WriteProfile(c) \/ CallFails(c)
    PROVE  TypeInv'
<1> USE DEF TypeInv, TypeOK, Delete, tenantVars
<1>1. CASE Discard(c)
  <2>1. TypeOK'
    BY <1>1, MovesTypeOK DEF Discard, CallPC
  <2> QED
    BY <1>1, <2>1
    DEF Discard, Moves, HandlerInv, ClaimsInv, Created, Ended
<1>2. CASE Point(c)
  <2>1. userId[c] \in Users /\ tempUser[c] \in Temps
        /\ claims[tempUser[c]].email \in Emails
    BY <1>2 DEF Point, Moves, HandlerInv, ClaimsInv, Created, Ended
  <2>2. pending' \in [Users -> [id : Temps \cup {None}, email : Emails \cup {None}]]
    BY <1>2, <2>1 DEF Point
  <2>3. TypeOK'
    BY <1>2, <2>2, MovesTypeOK DEF Point, CallPC, Ended
  <2> QED
    BY <1>2, <2>3 DEF Point, Moves, HandlerInv, ClaimsInv, Created, Ended
<1>3. CASE Cancel(c)
  <2>1. TypeOK'
    BY <1>3, MovesTypeOK DEF Cancel, CallPC
  <2> QED
    BY <1>3, <2>1 DEF Cancel, Moves, HandlerInv, ClaimsInv, Created, Ended
<1>4. CASE Clear(c)
  <2>1. TypeOK'
    BY <1>4, MovesTypeOK DEF Clear, CallPC, Ended, NotPending
  <2> QED
    BY <1>4, <2>1 DEF Clear, Moves, HandlerInv, ClaimsInv, Created, Ended
<1>5. CASE Verify(c)
  <2>1. TypeOK'
    BY <1>5, MovesTypeOK DEF Verify, CallPC, Ended
  <2> QED
    BY <1>5, <2>1 DEF Verify, Moves, HandlerInv, ClaimsInv, Created, Ended
<1>6. CASE Switch(c)
  <2>1. userId[c] \in Users /\ claims[tempUser[c]].email \in Emails
    BY <1>6 DEF Switch, Moves, HandlerInv, ClaimsInv, Ended
  <2>2. TypeOK'
    BY <1>6, <2>1, MovesTypeOK DEF Switch, CallPC, NotPending
  <2> QED
    BY <1>6, <2>2 DEF Switch, Moves, HandlerInv, ClaimsInv, Created, Ended
<1>7. CASE Drop(c)
  <2>1. TypeOK'
    BY <1>7, MovesTypeOK DEF Drop, CallPC, Ended
  <2> QED
    BY <1>7, <2>1 DEF Drop, Moves, HandlerInv, ClaimsInv, Created, Ended
<1>8. CASE WriteProfile(c)
  <2>1. TypeOK'
    BY <1>8, MovesTypeOK DEF WriteProfile, CallPC, Ended
  <2> QED
    BY <1>8, <2>1 DEF WriteProfile, Moves, HandlerInv, ClaimsInv, Created, Ended
<1>9. CASE CallFails(c)
  <2>1. TypeOK'
    BY <1>9, MovesTypeOK DEF CallFails, CallPC, Ended, HandlerInv
  <2> QED
    BY <1>9, <2>1 DEF CallFails, Moves, HandlerInv, ClaimsInv, Created, Ended
<1> QED BY <1>1, <1>2, <1>3, <1>4, <1>5, <1>6, <1>7, <1>8, <1>9

\* The creation of a temporary user completes its claims.
LEMMA CreateTypeOK ==
    ASSUME TypeInv, NEW c \in Calls, NEW t \in Temps, Create(c, t)
    PROVE  TypeInv'
<1> USE DEF TypeInv, TypeOK
<1>1. /\ newEmail[c] \in Emails
      /\ userId[c] \in Users
      /\ user[c].email \in Emails
  BY DEF Create, Moves, HandlerInv, Ended
<1> DEFINE new == [email |-> newEmail[c], originalUserId |-> userId[c],
                   originalUserEmail |-> user[c].email]
<1>2. claims' = [claims EXCEPT ![t] = new] /\ claims[t] = NoClaims
  BY DEF Create
<1>3. new \in [email : Emails \cup {None}, originalUserId : Users \cup {None},
               originalUserEmail : Emails \cup {None}]
  BY <1>1
<1>4. TypeOK'
  <2>1. claims' \in [Temps -> [email : Emails \cup {None},
                               originalUserId : Users \cup {None},
                               originalUserEmail : Emails \cup {None}]]
    BY <1>2, <1>3
  <2>2. "create" \in CallPC /\ "point" \in CallPC
    BY DEF CallPC
  <2> HIDE DEF new
  <2> QED BY <2>1, <2>2, MovesTypeOK DEF Create
<1>5. new # NoClaims
  BY <1>1, EmailAssumption DEF NoClaims
<1>6. Created' = Created \cup {t}
  BY <1>2, <1>5 DEF Created
<1>7. \A s \in Created : claims'[s] = claims[s]
  BY <1>2 DEF Created
<1>8. ClaimsInv'
  BY <1>1, <1>2, <1>6, <1>7 DEF ClaimsInv
<1>9. HandlerInv'
  <2> SUFFICES ASSUME NEW d \in Calls
               PROVE  /\ pc'[d] \notin Ended => userId'[d] \in Users
                      /\ pc'[d] \in {"lookup", "discard", "create"}
                            => newEmail'[d] \in Emails
                      /\ pc'[d] \in {"point", "verify", "switch", "drop"}
                            => tempUser'[d] \in Created'
                      /\ pc'[d] \in {"discard", "cancel"}
                            => user'[d].pending.id \in Temps
                      /\ pc'[d] \in {"lookup", "discard", "create"}
                            => user'[d].email \in Emails
    BY DEF HandlerInv
  <2>1. UNCHANGED <<userId, newEmail, user>>
    BY DEF Create, Moves, Ended
  <2>2. CASE d = c
    BY <1>1, <1>6, <2>1, <2>2 DEF Create, Moves, Ended
  <2>3. CASE d # c
    <3>1. pc'[d] = pc[d] /\ tempUser'[d] = tempUser[d]
      BY <2>3 DEF Create, Moves
    <3> QED BY <1>6, <2>1, <3>1 DEF HandlerInv
  <2> QED BY <2>2, <2>3
<1> QED BY <1>4, <1>8, <1>9

\* Every step keeps the types.
LEMMA NextTypeOK == TypeInv /\ [Next]_vars => TypeInv'
<1> SUFFICES ASSUME TypeInv, [Next]_vars PROVE TypeInv'
  OBVIOUS
<1>1. ASSUME NEW c \in Calls, NEW u \in Users, Requests(c, u)
      PROVE  TypeInv'
  <2>1. CASE \E e \in Emails : EmailChangeRequest(c, u, e)
    BY <2>1, StartTypeOK DEF EmailChangeRequest, CallPC, Ended
  <2>2. CASE EmailChangeCancelRequest(c, u)
    BY <2>2, StartTypeOK
    DEF EmailChangeCancelRequest, CallPC, Ended, TypeInv, TypeOK
  <2>3. CASE \E t \in Temps : EmailChangeConfirmationHook(c, u, t)
    BY <2>3, StartTypeOK DEF EmailChangeConfirmationHook, CallPC, Ended
  <2>4. CASE UpdateProfile(c, u)
    BY <2>4, StartTypeOK DEF UpdateProfile, CallPC, Ended
  <2> QED BY <1>1, <2>1, <2>2, <2>3, <2>4 DEF Requests
<1>2. ASSUME NEW c \in Calls, CallStep(c)
      PROVE  TypeInv'
  BY <1>2, LookupTypeOK, PlainTypeOK, CreateTypeOK DEF CallStep
<1>3. ASSUME NEW u \in Users, DeleteAccount(u)
      PROVE  TypeInv'
  BY <1>3 DEF DeleteAccount, TypeInv, TypeOK, HandlerInv, ClaimsInv, Created,
     NotPending, callVars
<1>4. CASE UNCHANGED vars
  BY <1>4 DEF vars, tenantVars, callVars, TypeInv, TypeOK, HandlerInv,
     ClaimsInv, Created
<1> QED BY <1>1, <1>2, <1>3, <1>4 DEF Next

\* Every reachable state is typed: TypeOK, on its way to the invariants below.
THEOREM TypeInvariant == Spec => []TypeInv
<1>1. Init => TypeInv
  BY DEF Init, TypeInv, TypeOK, HandlerInv, ClaimsInv, Created, CallPC, Ended,
     NotPending, NoClaims, NoUser
<1> QED BY <1>1, NextTypeOK, PTL DEF Spec

\* The accounts of the tenant and the state of the handlers have their types in
\* every reachable state, for any constants.
THEOREM TypeCorrect == Spec => []TypeOK
<1>1. TypeInv => TypeOK
  BY DEF TypeInv
<1> QED BY <1>1, TypeInvariant, PTL

-----------------------------------------------------------------------------
(* Ownership.  Wherever a temporary user is mentioned, in the metadata of  *)
(* a user, in what a handler read of them or at the step of a handler that *)
(* will use it, it was made for that user.                                 *)

OwnedBy(t, u) == t \in Created /\ claims[t].originalUserId = u

PendingIsOwned ==
    \A u \in Users : pending[u].id # None => OwnedBy(pending[u].id, u)
ReadIsOwned ==
    \A c \in Calls : pc[c] \notin Ended /\ user[c].pending.id # None =>
        OwnedBy(user[c].pending.id, userId[c])
UsedIsOwned ==
    \A c \in Calls : pc[c] \in {"point", "switch", "drop"} =>
        OwnedBy(tempUser[c], userId[c])

OwnerInv == PendingIsOwned /\ ReadIsOwned /\ UsedIsOwned

\* What each step may change in the tenant.
LEMMA RequestsOnlyRead ==
    ASSUME NEW c \in Calls, NEW u \in Users, Requests(c, u)
    PROVE  UNCHANGED tenantVars
BY DEF Requests, EmailChangeRequest, EmailChangeCancelRequest,
   EmailChangeConfirmationHook, UpdateProfile, Start

LEMMA StepChanges ==
    ASSUME NEW c \in Calls, CallStep(c)
    PROVE  /\ UNCHANGED claims \/ \E t \in Temps : Create(c, t)
           /\ UNCHANGED email \/ Switch(c)
           /\ live \subseteq live' \/ Discard(c) \/ Cancel(c) \/ Drop(c)
<1>1. CASE Lookup(c) \/ Verify(c) \/ CallFails(c)
  BY <1>1 DEF Lookup, Verify, CallFails, tenantVars
<1>2. CASE \E t \in Temps : Create(c, t)
  BY <1>2 DEF Create
<1>3. CASE Discard(c) \/ Cancel(c) \/ Drop(c)
  BY <1>3 DEF Discard, Cancel, Drop, Delete
<1>4. CASE Point(c) \/ Clear(c) \/ WriteProfile(c)
  BY <1>4 DEF Point, Clear, WriteProfile
<1>5. CASE Switch(c)
  BY <1>5 DEF Switch
<1> QED BY <1>1, <1>2, <1>3, <1>4, <1>5 DEF CallStep

LEMMA NextChanges ==
    ASSUME [Next]_vars
    PROVE  /\ UNCHANGED claims \/ \E c \in Calls, t \in Temps : Create(c, t)
           /\ \/ UNCHANGED email \/ \E c \in Calls : Switch(c)
              \/ \E u \in Users : DeleteAccount(u)
           /\ live \subseteq live'
              \/ \E c \in Calls : Discard(c) \/ Cancel(c) \/ Drop(c)
<1>1. CASE \E c \in Calls, u \in Users : Requests(c, u)
  BY <1>1, RequestsOnlyRead DEF tenantVars
<1>2. CASE \E c \in Calls : CallStep(c)
  BY <1>2, StepChanges
<1>3. CASE \E u \in Users : DeleteAccount(u)
  BY <1>3 DEF DeleteAccount
<1>4. CASE UNCHANGED vars
  BY <1>4 DEF vars, tenantVars
<1> QED BY <1>1, <1>2, <1>3, <1>4 DEF Next

\* The claims of a temporary user are never rewritten.
LEMMA ClaimsKept ==
    ASSUME [Next]_vars, NEW t, NEW u, OwnedBy(t, u)
    PROVE  OwnedBy(t, u)'
<1>1. ASSUME NEW c \in Calls, NEW s \in Temps, Create(c, s)
      PROVE  claims'[t] = claims[t]
  BY <1>1 DEF Create, OwnedBy, Created
<1>2. ASSUME UNCHANGED claims
      PROVE  claims'[t] = claims[t]
  BY <1>2
<1>3. claims'[t] = claims[t]
  BY <1>1, <1>2, NextChanges
<1> QED BY <1>3 DEF OwnedBy, Created

\* A handler that starts reads what the user points to.
LEMMA StartOwner ==
    ASSUME TypeInv, OwnerInv, [Next]_vars, NEW c \in Calls, NEW u \in Users,
           NEW e, NEW t, NEW to \in {"lookup", "cancel", "verify", "profile"},
           Start(c, u, to, e, t)
    PROVE  OwnerInv'
<1> USE DEF OwnerInv, TypeInv, TypeOK, Start, tenantVars
<1>1. PendingIsOwned'
  BY ClaimsKept DEF PendingIsOwned
<1>2. ReadIsOwned'
  BY ClaimsKept DEF ReadIsOwned, PendingIsOwned
<1>3. UsedIsOwned'
  BY ClaimsKept DEF UsedIsOwned
<1> QED BY <1>1, <1>2, <1>3

\* A handler that moves keeps what it read.
LEMMA MovesOwner ==
    ASSUME TypeInv, ReadIsOwned, [Next]_vars, NEW c \in Calls,
           NEW from \in CallPC \ Ended, NEW to, NEW t, Moves(c, from, to, t)
    PROVE  ReadIsOwned'
BY ClaimsKept DEF ReadIsOwned, Moves, TypeInv, TypeOK

\* A handler that moves to a step that uses a temporary user has one of its
\* own user.
LEMMA MovesUsed ==
    ASSUME TypeInv, UsedIsOwned, [Next]_vars, NEW c \in Calls,
           NEW from, NEW to, NEW t, Moves(c, from, to, t),
           to \in {"point", "switch", "drop"} => OwnedBy(t, userId[c])'
    PROVE  UsedIsOwned'
BY ClaimsKept DEF UsedIsOwned, Moves, TypeInv, TypeOK, Ended

\* Every step keeps the ownership.
LEMMA StepOwner ==
    ASSUME TypeInv, OwnerInv, [Next]_vars, NEW c \in Calls, CallStep(c)
    PROVE  OwnerInv'
<1> USE DEF OwnerInv, TypeInv, TypeOK
<1>1. CASE Lookup(c)
  <2>1. LookupResult(c) \notin {"point", "switch", "drop"}
    BY DEF LookupResult
  <2>2. PendingIsOwned'
    BY <1>1, ClaimsKept DEF Lookup, PendingIsOwned, tenantVars
  <2> QED
    BY <1>1, <2>1, <2>2, MovesOwner, MovesUsed DEF Lookup, CallPC, Ended
<1>2. CASE Discard(c) \/ Cancel(c) \/ Drop(c) \/ CallFails(c)
  <2>1. PendingIsOwned'
    BY <1>2, ClaimsKept
    DEF Discard, Cancel, Drop, CallFails, Delete, PendingIsOwned, tenantVars
  <2>2. UsedIsOwned'
    BY <1>2, MovesUsed DEF Discard, Cancel, Drop, CallFails
  <2>3. ReadIsOwned'
    BY <1>2, MovesOwner DEF Discard, Cancel, Drop, CallFails, CallPC, Ended
  <2> QED BY <2>1, <2>2, <2>3
<1>3. ASSUME NEW t \in Temps, Create(c, t)
      PROVE  OwnerInv'
  <2>1. OwnedBy(t, userId[c])'
    <3>1. claims'[t].originalUserId = userId[c] /\ userId'[c] = userId[c]
      BY <1>3 DEF Create, Moves, Ended
    <3>2. userId[c] \in Users
      BY <1>3 DEF Create, Moves, HandlerInv, Ended
    <3>3. claims'[t] # NoClaims
      BY <3>1, <3>2, EmailAssumption DEF NoClaims
    <3> QED BY <3>1, <3>3 DEF OwnedBy, Created
  <2>2. PendingIsOwned'
    BY <1>3, ClaimsKept DEF Create, PendingIsOwned
  <2> QED
    BY <1>3, <2>1, <2>2, MovesOwner, MovesUsed DEF Create, CallPC, Ended
<1>4. CASE Point(c)
  <2>1. OwnedBy(tempUser[c], userId[c]) /\ userId[c] \in Users
    BY <1>4 DEF Point, Moves, UsedIsOwned, HandlerInv, Ended
  <2>2. PendingIsOwned'
    BY <1>4, <2>1, ClaimsKept DEF Point, PendingIsOwned
  <2> QED
    BY <1>4, <2>2, MovesOwner, MovesUsed DEF Point, CallPC, Ended
<1>5. CASE Clear(c)
  <2>1. PendingIsOwned'
    BY <1>5, ClaimsKept DEF Clear, PendingIsOwned, NotPending
  <2> QED
    BY <1>5, <2>1, MovesOwner, MovesUsed DEF Clear, CallPC, Ended
<1>6. CASE Verify(c)
  <2>1. pc'[c] = "switch" => OwnedBy(tempUser[c], userId[c]) /\ userId'[c] = userId[c]
    BY <1>6
    DEF Verify, Moves, CheckCustomClaims, OwnedBy, HandlerInv, Ended
  <2>2. PendingIsOwned'
    BY <1>6, ClaimsKept DEF Verify, PendingIsOwned, tenantVars
  <2>3. UsedIsOwned'
    BY <1>6, <2>1, ClaimsKept, MovesUsed DEF Verify, Moves
  <2> QED
    BY <1>6, <2>2, <2>3, MovesOwner DEF Verify, CallPC, Ended
<1>7. CASE Switch(c)
  <2>1. UNCHANGED <<userId, tempUser>>
    BY <1>7 DEF Switch, Moves, Ended
  <2>2. PendingIsOwned'
    BY <1>7, ClaimsKept DEF Switch, PendingIsOwned, NotPending
  <2>3. UsedIsOwned'
    BY <1>7, <2>1, ClaimsKept DEF Switch, Moves, UsedIsOwned
  <2> QED
    BY <1>7, <2>2, <2>3, MovesOwner DEF Switch, CallPC, Ended
<1>8. CASE WriteProfile(c)
  <2>1. user[c].pending.id # None => OwnedBy(user[c].pending.id, userId[c])
    BY <1>8 DEF WriteProfile, Moves, ReadIsOwned, Ended
  <2>2. PendingIsOwned'
    BY <1>8, <2>1, ClaimsKept DEF WriteProfile, PendingIsOwned
  <2> QED
    BY <1>8, <2>2, MovesOwner, MovesUsed DEF WriteProfile, CallPC, Ended
<1> QED
  BY <1>1, <1>2, <1>3, <1>4, <1>5, <1>6, <1>7, <1>8 DEF CallStep

\* In every reachable state temporary users are mentioned only for their own
\* user.
THEOREM Ownership == Spec => []OwnerInv
<1>1. Init => OwnerInv
  BY DEF Init, OwnerInv, PendingIsOwned, ReadIsOwned, UsedIsOwned, NotPending,
     NoUser, Ended
<1>2. TypeInv /\ OwnerInv /\ [Next]_vars => OwnerInv'
  <2> SUFFICES ASSUME TypeInv, OwnerInv, [Next]_vars PROVE OwnerInv'
    OBVIOUS
  <2>1. ASSUME NEW c \in Calls, NEW u \in Users, Requests(c, u)
        PROVE  OwnerInv'
    BY <2>1, StartOwner
    DEF Requests, EmailChangeRequest, EmailChangeCancelRequest,
        EmailChangeConfirmationHook, UpdateProfile
  <2>2. ASSUME NEW u \in Users, DeleteAccount(u)
        PROVE  OwnerInv'
    BY <2>2, ClaimsKept
    DEF DeleteAccount, OwnerInv, PendingIsOwned, ReadIsOwned, UsedIsOwned,
        TypeInv, TypeOK, NotPending, callVars
  <2>3. CASE UNCHANGED vars
    BY <2>3, ClaimsKept
    DEF vars, tenantVars, callVars, OwnerInv, PendingIsOwned, ReadIsOwned,
        UsedIsOwned
  <2> QED BY <2>1, <2>2, <2>3, StepOwner DEF Next
<1> QED BY <1>1, <1>2, TypeInvariant, PTL DEF Spec

\* Whatever interleaves and fails, the address of a user changes only to one
\* of a temporary user made on this user's own request (checkCustomClaims).
THEOREM OwnRequest == Spec => EmailComesFromOwnRequest
<1>1. TypeInv /\ OwnerInv /\ [Next]_vars =>
        [\A u \in Users : email'[u] \notin {email[u], None} =>
            \E t \in OwnTemps(u) : claims[t].email = email'[u]]_vars
  <2> SUFFICES ASSUME TypeInv, OwnerInv, Next, NEW u \in Users,
                      email'[u] \notin {email[u], None}
               PROVE  \E t \in OwnTemps(u) : claims[t].email = email'[u]
    OBVIOUS
  <2>1. PICK c \in Calls : Switch(c)
    <3>1. ASSUME NEW v \in Users, DeleteAccount(v)
          PROVE  email'[u] \in {email[u], None}
      BY <3>1 DEF DeleteAccount, TypeInv, TypeOK
    <3> QED BY <3>1, NextChanges
  <2>2. email'[u] = claims[tempUser[c]].email /\ u = userId[c]
    BY <2>1 DEF Switch, TypeInv, TypeOK
  <2>3. OwnedBy(tempUser[c], u)
    BY <2>1, <2>2 DEF Switch, Moves, OwnerInv, UsedIsOwned
  <2> QED BY <2>2, <2>3 DEF OwnedBy, OwnTemps
<1> QED
  BY <1>1, TypeInvariant, Ownership, PTL DEF Spec, EmailComesFromOwnRequest

\* Whatever interleaves and fails, a handler deletes only temporary users that
\* were made for the user it serves.
THEOREM OwnDeletions == Spec => DeletesOwnTempsOnly
<1>1. TypeInv /\ OwnerInv /\ [Next]_vars =>
        [\A t \in live \ live' :
            \E c \in Calls : pc[c] \in {"discard", "cancel", "drop"}
                             /\ userId[c] = claims[t].originalUserId]_vars
  <2> SUFFICES ASSUME TypeInv, OwnerInv, Next, NEW t \in live \ live'
               PROVE  \E c \in Calls : pc[c] \in {"discard", "cancel", "drop"}
                                       /\ userId[c] = claims[t].originalUserId
    OBVIOUS
  <2>1. PICK c \in Calls : Discard(c) \/ Cancel(c) \/ Drop(c)
    BY NextChanges
  <2>2. CASE Discard(c) \/ Cancel(c)
    <3>1. t = user[c].pending.id /\ pc[c] \in {"discard", "cancel"}
      BY <2>2 DEF Discard, Cancel, Delete, Moves
    <3>2. t # None
      BY EmailAssumption DEF TypeInv, TypeOK
    <3> QED BY <3>1, <3>2 DEF OwnerInv, ReadIsOwned, OwnedBy, Ended
  <2>3. CASE Drop(c)
    <3>1. t = tempUser[c] /\ pc[c] = "drop"
      BY <2>3 DEF Drop, Delete, Moves
    <3> QED BY <3>1 DEF OwnerInv, UsedIsOwned, OwnedBy
  <2> QED BY <2>1, <2>2, <2>3
<1> QED
  BY <1>1, TypeInvariant, Ownership, PTL DEF Spec, DeletesOwnTempsOnly

-----------------------------------------------------------------------------
(* One after the other.  A user whose calls never overlapped, nor failed   *)
(* between two writes that belong together, is served by one handler at    *)
(* most, what it read of the user is current until it writes, and no other *)
(* handler touches the user or the temporary users made for them.          *)

Mine(u) == OwnTemps(u) \cap live

\* The metadata of the user point to t, and its link still confirms.
PointsTo(u, t) ==
    /\ pending[u] = [id |-> t, email |-> claims[t].email]
    /\ claims[t].originalUserEmail = email[u]

AtRest(u) == \A t \in Mine(u) : PointsTo(u, t)

HasRead(c, u) == user[c].email = email[u] /\ user[c].pending = pending[u]

\* Where handler c may be while it serves u: before the first write of the
\* handler nothing has changed; between two writes the user has no temporary
\* user, or just the one in hand.
Working(c, u) ==
    /\ pc[c] \notin Ended
    /\ pc[c] \in {"lookup", "discard", "cancel", "verify", "switch", "profile"} =>
          HasRead(c, u) /\ AtRest(u)
    /\ pc[c] = "lookup" => newEmail[c] # email[u]
    /\ pc[c] \in {"create", "clear"} => Mine(u) = {}
    /\ pc[c] = "create" => user[c].email = email[u]
    /\ pc[c] = "point" =>
          /\ Mine(u) \subseteq {tempUser[c]}
          /\ claims[tempUser[c]].originalUserEmail = email[u]
    /\ pc[c] = "switch" =>
          tempUser[c] \in Mine(u) /\ CheckCustomClaims(c, tempUser[c])
    /\ pc[c] = "drop" => Mine(u) \subseteq {tempUser[c]}

Orderly(u) ==
    /\ \A c, d \in CallsOf(u) : c = d
    /\ CallsOf(u) = {} => AtRest(u)
    /\ \A c \in CallsOf(u) : Working(c, u)

OrderInv == \A u \in Users \ disturbed : Orderly(u)
\* A step leaves user u alone in the tenant, and handler d as it is.
Kept(u) ==
    /\ email'[u] = email[u] /\ pending'[u] = pending[u]
    /\ Mine(u)' = Mine(u)
    /\ \A t \in OwnTemps(u) : claims'[t] = claims[t]
Same(d) ==
    /\ pc'[d] = pc[d] /\ userId'[d] = userId[d] /\ newEmail'[d] = newEmail[d]
    /\ tempUser'[d] = tempUser[d] /\ user'[d] = user[d]

LEMMA KeptStaysOrderly ==
    ASSUME OwnerInv, NEW u \in Users, Orderly(u), Kept(u),
           CallsOf(u)' = CallsOf(u), \A d \in CallsOf(u) : Same(d)
    PROVE  Orderly(u)'
<1>1. \A t \in Mine(u) : PointsTo(u, t) => PointsTo(u, t)'
  BY DEF Kept, PointsTo, Mine
<1>2. AtRest(u) => AtRest(u)'
  BY <1>1 DEF AtRest, Kept
<1>3. ASSUME NEW d \in CallsOf(u)
      PROVE  Working(d, u)'
  <2>1. Working(d, u) /\ Same(d) /\ d \in Calls /\ userId[d] = u
    BY <1>3 DEF Orderly, CallsOf
  <2>2. HasRead(d, u) => HasRead(d, u)'
    BY <2>1 DEF HasRead, Same, Kept
  <2>3. pc[d] \in {"point", "switch", "drop"} =>
           claims'[tempUser[d]] = claims[tempUser[d]]
    BY <2>1 DEF OwnerInv, UsedIsOwned, OwnedBy, OwnTemps, Kept
  <2>4. pc[d] = "switch" => CheckCustomClaims(d, tempUser[d])'
    BY <2>1, <2>3 DEF Working, CheckCustomClaims, Same
  <2> QED
    BY <1>2, <2>1, <2>2, <2>3, <2>4 DEF Working, Same, Kept
<1> QED
  BY <1>2, <1>3 DEF Orderly

\* What a handler that moves leaves: the other handlers, and its user.
LEMMA MovesAlone ==
    ASSUME TypeOK, NEW c \in Calls, NEW from, NEW to, NEW t, Moves(c, from, to, t)
    PROVE  /\ \A d \in Calls \ {c} : Same(d)
           /\ to \in Ended => userId'[c] = None
           /\ to \notin Ended =>
                 /\ pc'[c] = to /\ tempUser'[c] = t
                 /\ userId'[c] = userId[c] /\ newEmail'[c] = newEmail[c]
                 /\ user'[c] = user[c]
BY DEF Moves, Same, TypeOK

LEMMA StepMoves ==
    ASSUME NEW c \in Calls, CallStep(c)
    PROVE  \E from, to, t : Moves(c, from, to, t)
BY DEF CallStep, Lookup, Discard, Create, Point, Cancel, Clear, Verify, Switch,
   Drop, WriteProfile, CallFails

\* A handler of another user leaves this one alone.
LEMMA OthersKeep ==
    ASSUME TypeInv, OwnerInv, NEW c \in Calls, CallStep(c),
           NEW u \in Users, userId[c] # u
    PROVE  Kept(u) /\ CallsOf(u)' = CallsOf(u) /\ \A d \in CallsOf(u) : Same(d)
<1>1. CallsOf(u)' = CallsOf(u) /\ \A d \in CallsOf(u) : Same(d)
  <2>1. PICK from, to, t : Moves(c, from, to, t)
    BY StepMoves
  <2>2. /\ \A d \in Calls \ {c} : Same(d)
        /\ userId'[c] \in {None, userId[c]}
    BY <2>1, MovesAlone DEF TypeInv
  <2>3. u # None
    BY EmailAssumption
  <2> QED BY <2>2, <2>3 DEF CallsOf, Same
<1> USE DEF TypeInv, TypeOK
<1>2. CASE Lookup(c) \/ Verify(c) \/ CallFails(c)
  BY <1>1, <1>2
  DEF Lookup, Verify, CallFails, tenantVars, Kept, Mine, OwnTemps, Created
<1>3. ASSUME NEW t, Delete(t), OwnedBy(t, userId[c])
      PROVE  Kept(u)
  BY <1>3 DEF Delete, OwnedBy, Kept, Mine, OwnTemps, Created
<1>4. CASE Discard(c) \/ Cancel(c)
  <2>1. user[c].pending.id # None /\ pc[c] \notin Ended /\ Delete(user[c].pending.id)
    BY <1>4, EmailAssumption DEF Discard, Cancel, Moves, HandlerInv, Ended
  <2> QED BY <1>1, <1>3, <2>1 DEF OwnerInv, ReadIsOwned
<1>5. CASE Drop(c)
  <2>1. pc[c] = "drop" /\ Delete(tempUser[c])
    BY <1>5 DEF Drop, Moves
  <2> QED BY <1>1, <1>3, <2>1 DEF OwnerInv, UsedIsOwned
<1>6. ASSUME NEW t \in Temps, Create(c, t)
      PROVE  Kept(u)
  <2>1. /\ claims[t] = NoClaims /\ claims'[t].originalUserId = userId[c]
        /\ \A s \in Temps \ {t} : claims'[s] = claims[s]
        /\ live' = live \cup {t} /\ UNCHANGED <<email, pending>>
    BY <1>6 DEF Create
  <2>2. t \notin OwnTemps(u)
    BY <2>1 DEF OwnTemps, Created
  <2>3. OwnTemps(u)' = OwnTemps(u)
    BY <2>1 DEF OwnTemps, Created
  <2> QED BY <2>1, <2>2, <2>3 DEF Kept, Mine, OwnTemps, Created
<1>7. CASE Point(c) \/ Clear(c) \/ WriteProfile(c)
  BY <1>1, <1>7 DEF Point, Clear, WriteProfile, Kept, Mine, OwnTemps, Created
<1>8. CASE Switch(c)
  BY <1>1, <1>8 DEF Switch, Kept, Mine, OwnTemps, Created
<1> QED
  BY <1>1, <1>2, <1>4, <1>5, <1>6, <1>7, <1>8 DEF CallStep

\* The one handler of a user goes on, or comes to its end.
LEMMA GoesOn ==
    ASSUME NEW u, NEW c, CallsOf(u)' = {c}, Working(c, u)'
    PROVE  Orderly(u)'
BY DEF Orderly

LEMMA ComesToEnd ==
    ASSUME NEW u, CallsOf(u)' = {}, AtRest(u)'
    PROVE  Orderly(u)'
BY DEF Orderly

LEMMA OneHandler ==
    ASSUME TypeInv, NEW u \in Users, Orderly(u), NEW c \in Calls, userId[c] = u,
           NEW from, NEW to, NEW t, Moves(c, from, to, t)
    PROVE  /\ Working(c, u) /\ pc[c] = from
           /\ to \in Ended => CallsOf(u)' = {}
           /\ to \notin Ended =>
                 /\ CallsOf(u)' = {c}
                 /\ pc'[c] = to /\ tempUser'[c] = t
                 /\ newEmail'[c] = newEmail[c] /\ user'[c] = user[c]
<1>1. CallsOf(u) = {c} /\ Working(c, u)
  BY DEF Orderly, CallsOf
<1>2. \A d \in Calls \ {c} : userId'[d] = userId[d] /\ userId'[d] # u
  BY <1>1, MovesAlone DEF TypeInv, Same, CallsOf
<1>3. to \in Ended => userId'[c] # u
  BY MovesAlone, EmailAssumption DEF TypeInv
<1>4. to \notin Ended =>
         /\ userId'[c] = u /\ pc'[c] = to /\ tempUser'[c] = t
         /\ newEmail'[c] = newEmail[c] /\ user'[c] = user[c]
  BY MovesAlone DEF TypeInv
<1> QED
  BY <1>1, <1>2, <1>3, <1>4 DEF CallsOf, Moves

\* With nothing pending a user at rest has no temporary user; what is pending
\* is the only one.
LEMMA RestingTemps ==
    ASSUME TypeInv, NEW u \in Users, AtRest(u)
    PROVE  \A t \in Mine(u) : t = pending[u].id /\ t # None
<1> TAKE t \in Mine(u)
<1>1. t \in Temps /\ PointsTo(u, t)
  BY DEF AtRest, Mine, OwnTemps, Created
<1>2. pending[u].id = t
  BY <1>1 DEF PointsTo
<1> QED BY <1>1, <1>2, EmailAssumption

LEMMA SameTenant ==
    ASSUME UNCHANGED tenantVars, NEW u
    PROVE  /\ Mine(u)' = Mine(u)
           /\ AtRest(u) => AtRest(u)'
BY DEF tenantVars, Mine, OwnTemps, Created, AtRest, PointsTo

LEMMA LookupOrderly ==
    ASSUME TypeInv, NEW u \in Users, Orderly(u), NEW c \in Calls, userId[c] = u,
           Lookup(c)
    PROVE  Orderly(u)'
<1> DEFINE to == LookupResult(c)
<1>1. Moves(c, "lookup", to, None) /\ UNCHANGED tenantVars
  BY DEF Lookup
<1>2. /\ to \in Ended \cup {"create", "discard"}
      /\ to = "create" => user[c].pending.id = None
  BY DEF LookupResult, Ended
<1> HIDE DEF to
<1>3. pc[c] = "lookup" /\ Working(c, u)
  BY <1>1, OneHandler
<1>4. HasRead(c, u) /\ AtRest(u)
  BY <1>3 DEF Working
<1>5. CASE to \in Ended
  BY <1>1, <1>4, <1>5, OneHandler, SameTenant, ComesToEnd
<1>6. CASE to \notin Ended
  <2>1. CallsOf(u)' = {c} /\ pc'[c] = to /\ user'[c] = user[c]
    BY <1>1, <1>6, OneHandler
  <2>2. to = "create" => Mine(u)' = {}
    BY <1>1, <1>2, <1>4, RestingTemps, SameTenant DEF HasRead
  <2>3. HasRead(c, u)' /\ AtRest(u)' /\ user'[c].email = email'[u]
    BY <1>1, <1>4, <2>1, SameTenant DEF HasRead, tenantVars
  <2>4. Working(c, u)'
    BY <1>2, <1>6, <2>1, <2>2, <2>3 DEF Working, Ended
  <2> QED BY <2>1, <2>4, GoesOn
<1> QED BY <1>5, <1>6

LEMMA DiscardOrderly ==
    ASSUME TypeInv, NEW u \in Users, Orderly(u), NEW c \in Calls, userId[c] = u,
           Discard(c) \/ Cancel(c)
    PROVE  Orderly(u)'
<1>1. PICK to \in {"create", "clear"} :
         \E from \in {"discard", "cancel"} : Moves(c, from, to, None)
  BY DEF Discard, Cancel
<1>2. /\ pc[c] \in {"discard", "cancel"} /\ Working(c, u)
      /\ CallsOf(u)' = {c} /\ pc'[c] = to /\ user'[c] = user[c]
  BY <1>1, OneHandler DEF Ended
<1>3. HasRead(c, u) /\ AtRest(u)
  BY <1>2 DEF Working
<1>4. Delete(pending[u].id)
  BY <1>3 DEF Discard, Cancel, HasRead
<1>5. Mine(u)' = {}
  <2>1. Mine(u)' = Mine(u) \ {pending[u].id}
    BY <1>4 DEF Delete, Mine, OwnTemps, Created
  <2> QED BY <1>3, <2>1, RestingTemps
<1>6. user'[c].email = email'[u]
  BY <1>2, <1>3, <1>4 DEF HasRead, Delete
<1>7. Working(c, u)'
  BY <1>1, <1>2, <1>5, <1>6 DEF Working, Ended
<1> QED BY <1>2, <1>7, GoesOn

LEMMA CreateOrderly ==
    ASSUME TypeInv, NEW u \in Users, Orderly(u), NEW c \in Calls, userId[c] = u,
           NEW t \in Temps, Create(c, t)
    PROVE  Orderly(u)'
<1>1. Moves(c, "create", "point", t)
  BY DEF Create
<1>2. /\ Working(c, u) /\ pc[c] = "create"
      /\ CallsOf(u)' = {c} /\ pc'[c] = "point" /\ tempUser'[c] = t
  BY <1>1, OneHandler DEF Ended
<1>3. Mine(u) = {} /\ user[c].email = email[u]
  BY <1>2 DEF Working
<1>4. /\ claims'[t].originalUserEmail = user[c].email
      /\ \A s \in Temps \ {t} : claims'[s] = claims[s]
      /\ live' = live \cup {t} /\ email' = email
  BY DEF Create, TypeInv, TypeOK
<1>5. Mine(u)' \subseteq {t}
  BY <1>3, <1>4 DEF Mine, OwnTemps, Created
<1>6. Working(c, u)'
  BY <1>2, <1>3, <1>4, <1>5 DEF Working, Ended
<1> QED BY <1>2, <1>6, GoesOn

LEMMA PointOrderly ==
    ASSUME TypeInv, NEW u \in Users, Orderly(u), NEW c \in Calls, userId[c] = u,
           Point(c)
    PROVE  Orderly(u)'
<1> DEFINE t == tempUser[c]
<1>1. Moves(c, "point", "idle", None)
  BY DEF Point
<1>2. Working(c, u) /\ pc[c] = "point" /\ CallsOf(u)' = {}
  BY <1>1, OneHandler DEF Ended
<1>3. Mine(u) \subseteq {t} /\ claims[t].originalUserEmail = email[u]
  BY <1>2 DEF Working
<1>4. /\ pending'[u] = [id |-> t, email |-> claims[t].email]
      /\ UNCHANGED <<email, claims, live>>
  BY DEF Point, TypeInv, TypeOK
<1>5. Mine(u)' = Mine(u)
  BY <1>4 DEF Mine, OwnTemps, Created
<1>6. AtRest(u)'
  BY <1>3, <1>4, <1>5 DEF AtRest, PointsTo
<1> QED BY <1>2, <1>6, ComesToEnd

LEMMA VerifyOrderly ==
    ASSUME TypeInv, NEW u \in Users, Orderly(u), NEW c \in Calls, userId[c] = u,
           Verify(c)
    PROVE  Orderly(u)'
<1> DEFINE t == tempUser[c]
<1>1. /\ pc[c] = "verify"
      /\ \/ Moves(c, "verify", "idle", t)
         \/ t \in live /\ CheckCustomClaims(c, t) /\ Moves(c, "verify", "switch", t)
      /\ UNCHANGED tenantVars
  BY DEF Verify, Moves
<1>2. Working(c, u) /\ HasRead(c, u) /\ AtRest(u)
  BY <1>1, OneHandler DEF Working
<1>3. CASE Moves(c, "verify", "idle", t)
  BY <1>1, <1>2, <1>3, OneHandler, SameTenant, ComesToEnd DEF Ended
<1>4. CASE t \in live /\ CheckCustomClaims(c, t) /\ Moves(c, "verify", "switch", t)
  <2>1. /\ CallsOf(u)' = {c} /\ pc'[c] = "switch" /\ tempUser'[c] = t
        /\ user'[c] = user[c] /\ userId'[c] = u
    BY <1>4, OneHandler DEF Ended, CallsOf
  <2>2. t \in Mine(u)
    BY <1>1, <1>4 DEF TypeInv, HandlerInv, CheckCustomClaims, Mine, OwnTemps
  <2>3. Mine(u)' = Mine(u) /\ AtRest(u)'
    BY <1>1, <1>2, SameTenant
  <2>4. HasRead(c, u)' /\ CheckCustomClaims(c, tempUser[c])'
    BY <1>1, <1>2, <1>4, <2>1 DEF HasRead, CheckCustomClaims, tenantVars
  <2>5. Working(c, u)'
    BY <2>1, <2>2, <2>3, <2>4 DEF Working, Ended
  <2> QED BY <2>1, <2>5, GoesOn
<1> QED BY <1>1, <1>3, <1>4

LEMMA SwitchOrderly ==
    ASSUME TypeInv, NEW u \in Users, Orderly(u), NEW c \in Calls, userId[c] = u,
           Switch(c)
    PROVE  Orderly(u)'
<1> DEFINE t == tempUser[c]
<1>1. Moves(c, "switch", "drop", t) /\ UNCHANGED <<claims, live>>
  BY DEF Switch
<1>2. /\ Working(c, u) /\ pc[c] = "switch"
      /\ CallsOf(u)' = {c} /\ pc'[c] = "drop" /\ tempUser'[c] = t
  BY <1>1, OneHandler DEF Ended
<1>3. HasRead(c, u) /\ AtRest(u) /\ CheckCustomClaims(c, t)
  BY <1>2 DEF Working
<1>4. pending[u].id = t
  BY <1>3 DEF HasRead, CheckCustomClaims
<1>5. Mine(u) \subseteq {t}
  BY <1>3, <1>4, RestingTemps
<1>6. Mine(u)' \subseteq {t}
  BY <1>1, <1>5 DEF Mine, OwnTemps, Created
<1>7. Working(c, u)'
  BY <1>2, <1>6 DEF Working, Ended
<1> QED BY <1>2, <1>7, GoesOn

\* The steps that end a handler with no temporary user left, or with nothing
\* changed.
LEMMA EndOrderly ==
    ASSUME TypeInv, NEW u \in Users \ disturbed', Orderly(u), NEW c \in Calls,
           userId[c] = u, Clear(c) \/ Drop(c) \/ WriteProfile(c) \/ CallFails(c)
    PROVE  Orderly(u)'
<1>1. PICK from : Moves(c, from, "idle", None)
  BY DEF Clear, Drop, WriteProfile, CallFails
<1>2. Working(c, u) /\ CallsOf(u)' = {}
  BY <1>1, OneHandler DEF Ended
<1>3. CASE Clear(c)
  <2>1. Mine(u) = {} /\ UNCHANGED <<claims, live>>
    BY <1>2, <1>3 DEF Clear, Moves, Working
  <2> QED BY <1>2, <2>1, ComesToEnd DEF AtRest, Mine, OwnTemps, Created
<1>4. CASE Drop(c)
  <2>1. Mine(u) \subseteq {tempUser[c]} /\ Delete(tempUser[c])
    BY <1>2, <1>4 DEF Drop, Moves, Working
  <2>2. Mine(u)' = {}
    BY <2>1 DEF Delete, Mine, OwnTemps, Created
  <2> QED BY <1>2, <2>2, ComesToEnd DEF AtRest
<1>5. CASE WriteProfile(c)
  <2>1. HasRead(c, u) /\ AtRest(u) /\ UNCHANGED <<email, claims, live>>
    BY <1>2, <1>5 DEF WriteProfile, Moves, Working
  <2>2. pending'[u] = pending[u]
    BY <1>5, <2>1 DEF WriteProfile, HasRead, TypeInv, TypeOK
  <2>3. AtRest(u)'
    BY <2>1, <2>2 DEF AtRest, PointsTo, Mine, OwnTemps, Created
  <2> QED BY <1>2, <2>3, ComesToEnd
<1>6. CASE CallFails(c)
  <2>1. pc[c] \in CallPC \ Ended /\ pc[c] \notin {"point", "drop"}
        /\ UNCHANGED tenantVars
    BY <1>6 DEF CallFails, TypeInv, TypeOK
  <2>2. AtRest(u) \/ Mine(u) = {}
    BY <1>2, <2>1 DEF Working, CallPC, Ended
  <2>3. AtRest(u)'
    BY <2>1, <2>2, SameTenant DEF AtRest
  <2> QED BY <1>2, <2>3, ComesToEnd
<1> QED BY <1>3, <1>4, <1>5, <1>6

\* A handler that starts for a user who has one already disturbs the user.
LEMMA StartOrderly ==
    ASSUME TypeInv, OwnerInv, NEW v \in Users \ disturbed', Orderly(v),
           NEW c \in Calls, NEW u \in Users, Requests(c, u)
    PROVE  Orderly(v)'
<1>1. PICK to \in {"lookup", "cancel", "verify", "profile"},
           e \in Emails \cup {None}, t \in Temps \cup {None} :
         Start(c, u, to, e, t) /\ (to = "lookup" => e # email[u])
  BY DEF Requests, EmailChangeRequest, EmailChangeCancelRequest,
         EmailChangeConfirmationHook, UpdateProfile
<1>2. /\ \A d \in Calls \ {c} : Same(d)
      /\ pc'[c] = to /\ userId'[c] = u /\ newEmail'[c] = e
      /\ user'[c].email = email[u] /\ user'[c].pending = pending[u]
      /\ pc[c] \in Ended /\ UNCHANGED tenantVars
      /\ u \notin disturbed' => CallsOf(u) = {}
  BY <1>1 DEF Start, Same, TypeInv, TypeOK
<1>3. c \notin CallsOf(v)
  BY <1>2 DEF Orderly, Working
<1>4. CASE v # u
  <2>1. Kept(v)
    BY <1>2 DEF Kept, Mine, OwnTemps, Created, tenantVars
  <2>2. CallsOf(v)' = CallsOf(v) /\ \A d \in CallsOf(v) : Same(d)
    BY <1>2, <1>3, <1>4 DEF CallsOf, Same
  <2> QED BY <2>1, <2>2, KeptStaysOrderly
<1>5. CASE v = u
  <2>1. CallsOf(v) = {}
    BY <1>2, <1>5
  <2>2. CallsOf(v)' = {c}
    BY <1>2, <1>5, <2>1 DEF CallsOf, Same
  <2>3. AtRest(v)' /\ HasRead(c, v)'
    BY <1>2, <1>5, <2>1, SameTenant DEF Orderly, HasRead, tenantVars
  <2>4. to = "lookup" => newEmail'[c] # email'[v]
    BY <1>1, <1>2, <1>5 DEF tenantVars
  <2>5. Working(c, v)'
    BY <1>2, <2>3, <2>4 DEF Working, Ended
  <2> QED BY <2>2, <2>5, GoesOn
<1> QED BY <1>4, <1>5

LEMMA NextOrderly == TypeInv /\ OwnerInv /\ OrderInv /\ [Next]_vars => OrderInv'
<1> SUFFICES ASSUME TypeInv, OwnerInv, OrderInv, [Next]_vars,
                    NEW u \in Users \ disturbed'
             PROVE  Orderly(u)'
  BY DEF OrderInv
<1>1. ASSUME NEW c \in Calls, NEW v \in Users, Requests(c, v)
      PROVE  Orderly(u)'
  <2>1. disturbed \subseteq disturbed'
    BY <1>1 DEF Requests, EmailChangeRequest, EmailChangeCancelRequest,
                EmailChangeConfirmationHook, UpdateProfile, Start
  <2> QED BY <1>1, <2>1, StartOrderly DEF OrderInv
<1>2. ASSUME NEW c \in Calls, CallStep(c)
      PROVE  Orderly(u)'
  <2>1. disturbed \subseteq disturbed'
    BY <1>2 DEF CallStep, Lookup, Discard, Create, Point, Cancel, Clear, Verify,
                Switch, Drop, WriteProfile, CallFails
  <2>2. Orderly(u)
    BY <2>1 DEF OrderInv
  <2>3. CASE userId[c] # u
    BY <1>2, <2>2, <2>3, OthersKeep, KeptStaysOrderly
  <2>4. CASE userId[c] = u
    BY <1>2, <2>2, <2>4, LookupOrderly, DiscardOrderly, CreateOrderly,
       PointOrderly, VerifyOrderly, SwitchOrderly, EndOrderly
    DEF CallStep
  <2> QED BY <2>3, <2>4
<1>3. ASSUME NEW v \in Users, DeleteAccount(v)
      PROVE  Orderly(u)'
  <2>1. u # v /\ u \notin disturbed
    BY <1>3 DEF DeleteAccount
  <2>2. Kept(u) /\ CallsOf(u)' = CallsOf(u) /\ \A d \in CallsOf(u) : Same(d)
    BY <1>3, <2>1
    DEF DeleteAccount, Kept, Mine, OwnTemps, Created, Same, CallsOf, callVars,
        TypeInv, TypeOK
  <2> QED BY <2>1, <2>2, KeptStaysOrderly DEF OrderInv
<1>4. CASE UNCHANGED vars
  <2>1. Kept(u) /\ CallsOf(u)' = CallsOf(u) /\ \A d \in CallsOf(u) : Same(d)
    BY <1>4 DEF vars, tenantVars, callVars, Kept, Mine, OwnTemps, Created, Same,
                CallsOf
  <2>2. Orderly(u)
    BY <1>4 DEF OrderInv, vars
  <2> QED BY <2>1, <2>2, KeptStaysOrderly
<1> QED BY <1>1, <1>2, <1>3, <1>4 DEF Next

\* A user whose calls came one after the other, whatever other users do with
\* the same addresses, is in every reachable state where the handler says.
THEOREM Order == Spec => []OrderInv
<1>1. Init => OrderInv
  <2> SUFFICES ASSUME Init, NEW u \in Users PROVE Orderly(u)
    BY DEF OrderInv
  <2>1. CallsOf(u) = {} /\ Mine(u) = {}
    BY EmailAssumption DEF Init, CallsOf, Mine
  <2> QED BY <2>1 DEF Orderly, AtRest
<1> QED BY <1>1, NextOrderly, TypeInvariant, Ownership, PTL DEF Spec

\* At rest such a user has no temporary user but the one the metadata point
\* to, and its link still confirms.
THEOREM PendingCoherent == Spec => []PendingRequestIsCoherent
<1>1. OrderInv => PendingRequestIsCoherent
  BY DEF OrderInv, Orderly, AtRest, PointsTo, Mine, PendingRequestIsCoherent
<1> QED BY <1>1, Order, PTL

\* The address of such a user changes only to that of the request pending at
\* that moment, while the temporary user is still there.
THEOREM ConfirmsThePending == Spec => ChangeIsThePendingRequest
<1>1. TypeInv /\ OrderInv /\ [Next]_vars =>
        [\A u \in Users \ disturbed : email'[u] \notin {email[u], None} =>
            pending[u].id \in live /\ pending[u].email = email'[u]]_vars
  <2> SUFFICES ASSUME TypeInv, OrderInv, Next, NEW u \in Users \ disturbed,
                      email'[u] \notin {email[u], None}
               PROVE  pending[u].id \in live /\ pending[u].email = email'[u]
    OBVIOUS
  <2>1. PICK c \in Calls : Switch(c)
    <3>1. ASSUME NEW v \in Users, DeleteAccount(v)
          PROVE  email'[u] \in {email[u], None}
      BY <3>1 DEF DeleteAccount, TypeInv, TypeOK
    <3> QED BY <3>1, NextChanges
  <2>2. /\ email'[u] = claims[tempUser[c]].email /\ u = userId[c]
        /\ pc[c] = "switch"
    BY <2>1 DEF Switch, Moves, TypeInv, TypeOK
  <2>3. Working(c, u)
    BY <2>2 DEF OrderInv, Orderly, CallsOf
  <2>4. /\ HasRead(c, u) /\ tempUser[c] \in Mine(u)
        /\ CheckCustomClaims(c, tempUser[c])
    BY <2>2, <2>3 DEF Working
  <2> QED BY <2>2, <2>4 DEF HasRead, CheckCustomClaims, Mine
<1> QED
  BY <1>1, TypeInvariant, Order, PTL DEF Spec, ChangeIsThePendingRequest

\* Such a user is told that an address "is already registered" only when
\* somebody else holds it.
THEOREM OthersHoldTheAddress == Spec => NoSelfLockout
<1>1. TypeInv /\ OrderInv /\ [Next]_vars =>
        [\A c \in Calls :
            pc[c] = "lookup" /\ pc'[c] = "rejected" /\ userId[c] \notin disturbed =>
                \E h \in Holders(newEmail[c]) :
                    h # userId[c] /\ h \notin OwnTemps(userId[c])]_vars
  <2> SUFFICES ASSUME TypeInv, OrderInv, Next, NEW c \in Calls,
                      pc[c] = "lookup", pc'[c] = "rejected",
                      userId[c] \notin disturbed
               PROVE  \E h \in Holders(newEmail[c]) :
                          h # userId[c] /\ h \notin OwnTemps(userId[c])
    OBVIOUS
  <2> DEFINE u == userId[c]
             found == Holders(newEmail[c])
  <2>1. LookupResult(c) = "rejected"
    <3>1. \A d \in Calls, v \in Users : Requests(d, v) => pc'[c] # "rejected"
      BY DEF Requests, EmailChangeRequest, EmailChangeCancelRequest,
         EmailChangeConfirmationHook, UpdateProfile, Start, TypeInv, TypeOK
    <3>2. \A v \in Users : DeleteAccount(v) => pc'[c] # "rejected"
      BY DEF DeleteAccount, callVars
    <3>3. PICK d \in Calls : CallStep(d)
      BY <3>1, <3>2 DEF Next
    <3>4. d = c
      BY <3>3, StepMoves, MovesAlone DEF Same, TypeInv
    <3>5. Lookup(c)
      BY <3>3, <3>4
      DEF CallStep, Lookup, Discard, Create, Point, Cancel, Clear, Verify, Switch,
          Drop, WriteProfile, CallFails, Moves, TypeInv, TypeOK
    <3> QED BY <3>5 DEF Lookup, Moves, TypeInv, TypeOK
  <2>2. PICK h \in found : TRUE
    BY <2>1 DEF LookupResult
  <2>3. ~\E t \in found \cap live : CheckCustomClaims(c, t)
    BY <2>1 DEF LookupResult
  <2>4. u \in Users /\ Working(c, u)
    BY DEF TypeInv, HandlerInv, Ended, OrderInv, Orderly, CallsOf
  <2>5. HasRead(c, u) /\ AtRest(u) /\ newEmail[c] # email[u]
    BY <2>4 DEF Working
  <2>6. h # u
    <3>1. u \notin Temps
      BY <2>4, EmailAssumption
    <3> QED BY <2>5, <3>1 DEF Holders, TypeInv, TypeOK
  <2>7. ASSUME h \in OwnTemps(u) PROVE FALSE
    <3>1. h \in Temps /\ h \notin Users /\ claims[h].originalUserId = u
      BY <2>7, EmailAssumption DEF OwnTemps, Created
    <3>2. h \in live /\ h \in Mine(u)
      BY <2>7, <3>1 DEF Holders, Mine
    <3>3. PointsTo(u, h)
      BY <2>5, <3>2 DEF AtRest
    <3>4. CheckCustomClaims(c, h)
      BY <2>5, <3>1, <3>3 DEF PointsTo, HasRead, CheckCustomClaims
    <3> QED BY <2>3, <3>2, <3>4
  <2> QED BY <2>2, <2>6, <2>7
<1> QED
  BY <1>1, TypeInvariant, Order, PTL DEF Spec, NoSelfLockout
=============================================================================
