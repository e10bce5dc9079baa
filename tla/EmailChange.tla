---------------------------- MODULE EmailChange -----------------------------
(***************************************************************************)
(* Changing the email address of an account.                               *)
(*                                                                         *)
(* The accounts live in the Auth0 tenant.  A request to change the address *)
(* of a user creates a temporary, passwordless user that holds the new     *)
(* address, and a pointer to it in the metadata of the user; following the *)
(* link that the temporary user receives confirms the change; cancelling   *)
(* removes it.  A request, a cancellation, a confirmation and an update of *)
(* the profile each read the user first and make their other calls to      *)
(* Auth0 on what they read; any number of them interleave, and each call   *)
(* may fail, which ends the handler that made it.                          *)
(***************************************************************************)
EXTENDS Naturals, FiniteSets

CONSTANTS
    Users,    \* user ids of the accounts with a password
    Temps,    \* user ids of the temporary users that Auth0 may create
    Emails,   \* addresses
    Calls,    \* handlers that may be under way at once
    None      \* no account, no address

ASSUME EmailAssumption ==
    None \notin Users \cup Temps \cup Emails /\ Users \cap Temps = {}

VARIABLES
    email,      \* the address of each user, None once the account is deleted
    pending,    \* pendingUserId and pendingUserEmail in each user's metadata
    claims,     \* address, originalUserId and originalUserEmail of a temporary
    live,       \* the temporary users that exist
    pc,         \* where each handler is
    userId,     \* the user it serves
    newEmail,   \* the address of a request
    tempUser,   \* the temporary user of a confirmation, or the one created
    user,       \* what it read of the user
    disturbed   \* history: users whose own calls overlapped or stopped half way

tenantVars == <<email, pending, claims, live>>
callVars == <<pc, userId, newEmail, tempUser, user>>
vars == <<tenantVars, callVars, disturbed>>

-----------------------------------------------------------------------------

NotPending == [id |-> None, email |-> None]
NoClaims == [email |-> None, originalUserId |-> None, originalUserEmail |-> None]
NoUser == [email |-> None, pending |-> NotPending]

Created == {t \in Temps : claims[t] # NoClaims}
CallsOf(u) == {c \in Calls : userId[c] = u}

\* getUsersByEmail: the accounts of every connection.
Holders(e) == {u \in Users : email[u] = e}
              \cup {t \in live : claims[t].email = e}

\* Mistake: only the new address is compared.
CheckAddressOnly(c, t) ==
    user[c].pending.id # None /\ user[c].email # claims[t].email

\* checkCustomClaims(t, u), on what handler c read of the user.
CheckCustomClaims(c, t) ==
    /\ user[c].pending = [id |-> t, email |-> claims[t].email]
    /\ claims[t].originalUserId = userId[c]
    /\ claims[t].originalUserEmail = user[c].email

Init ==
    /\ email \in [Users -> Emails]
    /\ \A u, v \in Users : email[u] = email[v] => u = v
    /\ pending = [u \in Users |-> NotPending]
    /\ claims = [t \in Temps |-> NoClaims]
    /\ live = {}
    /\ pc = [c \in Calls |-> "idle"]
    /\ userId = [c \in Calls |-> None]
    /\ newEmail = [c \in Calls |-> None]
    /\ tempUser = [c \in Calls |-> None]
    /\ user = [c \in Calls |-> NoUser]
    /\ disturbed = {}

-----------------------------------------------------------------------------
(* The handlers.  The first call of each is to getUser.                    *)

\* "resent" and "rejected" are the answers of a request that found the address.
Ended == {"idle", "resent", "rejected"}
CallPC == Ended \cup {"lookup", "discard", "create", "point",
                      "cancel", "clear", "verify", "switch", "drop", "profile"}

\* Handler c starts for user u, whom it reads, with step "to".
Start(c, u, to, e, t) ==
    /\ pc[c] \in Ended
    /\ email[u] # None
    /\ pc' = [pc EXCEPT ![c] = to]
    /\ userId' = [userId EXCEPT ![c] = u]
    /\ newEmail' = [newEmail EXCEPT ![c] = e]
    /\ tempUser' = [tempUser EXCEPT ![c] = t]
    /\ user' = [user EXCEPT ![c] = [email |-> email[u], pending |-> pending[u]]]
    /\ disturbed' = IF CallsOf(u) = {} THEN disturbed ELSE disturbed \cup {u}
    /\ UNCHANGED tenantVars

\* Handler c goes on from step "from" with temporary user t, or is over.
Moves(c, from, to, t) ==
    /\ pc[c] = from
    /\ pc' = [pc EXCEPT ![c] = to]
    /\ tempUser' = [tempUser EXCEPT ![c] = IF to \in Ended THEN None ELSE t]
    /\ IF to \in Ended
       THEN /\ userId' = [userId EXCEPT ![c] = None]
            /\ newEmail' = [newEmail EXCEPT ![c] = None]
            /\ user' = [user EXCEPT ![c] = NoUser]
       ELSE UNCHANGED <<userId, newEmail, user>>

\* A request for the address the user has already is over at once.
EmailChangeRequest(c, u, e) ==
    email[u] # e /\ Start(c, u, "lookup", e, None)

\* So is a cancellation when nothing is pending.
EmailChangeCancelRequest(c, u) ==
    pending[u].id # None /\ Start(c, u, "cancel", None, None)

EmailChangeConfirmationHook(c, u, t) ==
    t \in Created /\ Start(c, u, "verify", None, t)

UpdateProfile(c, u) == Start(c, u, "profile", None, None)

\* Mistake: the old temporary user is not discarded.
LookupNeverDiscards(c) ==
    LET found == Holders(newEmail[c]) IN
    IF found = {} THEN "create"
    ELSE IF Cardinality(found) > 1 THEN "idle"
    ELSE IF \E t \in found \cap live : CheckCustomClaims(c, t) THEN "resent"
    ELSE "rejected"

\* getUserByEmail fails when two accounts hold the address.  The one holder
\* must be the temporary user of this very request, which is sent the link
\* again; without a holder the old temporary user, if any, is replaced.
LookupResult(c) ==
    LET found == Holders(newEmail[c]) IN
    IF found = {} THEN IF user[c].pending.id = None THEN "create" ELSE "discard"
    ELSE IF Cardinality(found) > 1 THEN "idle"
    ELSE IF \E t \in found \cap live : CheckCustomClaims(c, t) THEN "resent"
    ELSE "rejected"

Lookup(c) ==
    /\ Moves(c, "lookup", LookupResult(c), None)
    /\ UNCHANGED <<tenantVars, disturbed>>

\* deleteUser succeeds whether or not the account is still there.
Delete(t) == live' = live \ {t} /\ UNCHANGED <<email, pending, claims>>

Discard(c) ==
    /\ Moves(c, "discard", "create", None)
    /\ Delete(user[c].pending.id)
    /\ UNCHANGED disturbed

\* createPasswordlessUser: two accounts of one connection cannot share an
\* address.
Create(c, t) ==
    /\ Moves(c, "create", "point", t)
    /\ claims[t] = NoClaims
    /\ \A s \in live : claims[s].email # newEmail[c]
    /\ claims' = [claims EXCEPT ![t] = [email |-> newEmail[c],
                                        originalUserId |-> userId[c],
                                        originalUserEmail |-> user[c].email]]
    /\ live' = live \cup {t}
    /\ UNCHANGED <<email, pending, disturbed>>

\* updateUserMetadata: the user points to the temporary user.
Point(c) ==
    LET u == userId[c]
        t == tempUser[c] IN
    /\ Moves(c, "point", "idle", None)
    /\ email[u] # None
    /\ pending' = [pending EXCEPT ![u] = [id |-> t, email |-> claims[t].email]]
    /\ UNCHANGED <<email, claims, live, disturbed>>

\* The cancellation deletes the temporary user, then the pointer.
Cancel(c) ==
    /\ Moves(c, "cancel", "clear", None)
    /\ Delete(user[c].pending.id)
    /\ UNCHANGED disturbed

Clear(c) ==
    /\ Moves(c, "clear", "idle", None)
    /\ email[userId[c]] # None
    /\ pending' = [pending EXCEPT ![userId[c]] = NotPending]
    /\ UNCHANGED <<email, claims, live, disturbed>>

\* Mistake: a temporary user that is gone still confirms.
VerifyClaimsOnly(c) ==
    LET t == tempUser[c] IN
    /\ Moves(c, "verify", IF CheckCustomClaims(c, t) THEN "switch" ELSE "idle", t)
    /\ UNCHANGED <<tenantVars, disturbed>>

\* The confirmation reads the temporary user and compares the two.
Verify(c) ==
    LET t == tempUser[c] IN
    /\ Moves(c, "verify",
             IF t \in live /\ CheckCustomClaims(c, t) THEN "switch" ELSE "idle", t)
    /\ UNCHANGED <<tenantVars, disturbed>>

\* updateUser: the user takes the address, unless another user has it.
Switch(c) ==
    LET u == userId[c]
        e == claims[tempUser[c]].email IN
    /\ Moves(c, "switch", "drop", tempUser[c])
    /\ email[u] # None
    /\ \A v \in Users \ {u} : email[v] # e
    /\ email' = [email EXCEPT ![u] = e]
    /\ pending' = [pending EXCEPT ![u] = NotPending]
    /\ UNCHANGED <<claims, live, disturbed>>

\* Mistake: the confirmed temporary user stays.
KeepTemp(c) ==
    /\ Moves(c, "drop", "idle", None)
    /\ UNCHANGED <<tenantVars, disturbed>>

Drop(c) ==
    /\ Moves(c, "drop", "idle", None)
    /\ Delete(tempUser[c])
    /\ UNCHANGED disturbed

\* PUT /profile writes back the metadata it read, under the fields it
\* changes.  Auth0 merges metadata: a field that is not there stays.
WriteProfile(c) ==
    LET u == userId[c] IN
    /\ Moves(c, "profile", "idle", None)
    /\ email[u] # None
    /\ pending' = IF user[c].pending.id = None THEN pending
                  ELSE [pending EXCEPT ![u] = user[c].pending]
    /\ UNCHANGED <<email, claims, live, disturbed>>

\* A call to Auth0 fails, because it is refused above or for any reason.
CallFails(c) ==
    /\ pc[c] \notin Ended
    /\ Moves(c, pc[c], "idle", None)
    /\ disturbed' = IF pc[c] \in {"point", "drop"}
                    THEN disturbed \cup {userId[c]} ELSE disturbed
    /\ UNCHANGED tenantVars

\* DELETE /profile ends with deleteUser; the temporary user is left.
DeleteAccount(u) ==
    /\ email[u] # None
    /\ email' = [email EXCEPT ![u] = None]
    /\ pending' = [pending EXCEPT ![u] = NotPending]
    /\ disturbed' = disturbed \cup {u}
    /\ UNCHANGED <<claims, live, callVars>>

-----------------------------------------------------------------------------

Requests(c, u) ==
    \/ \E e \in Emails : EmailChangeRequest(c, u, e)
    \/ EmailChangeCancelRequest(c, u)
    \/ \E t \in Temps : EmailChangeConfirmationHook(c, u, t)
    \/ UpdateProfile(c, u)

CallStep(c) ==
    \/ Lookup(c) \/ Discard(c) \/ (\E t \in Temps : Create(c, t)) \/ Point(c)
    \/ Cancel(c) \/ Clear(c)
    \/ Verify(c) \/ Switch(c) \/ Drop(c)
    \/ WriteProfile(c)
    \/ CallFails(c)

Next ==
    \/ \E c \in Calls, u \in Users : Requests(c, u)
    \/ \E c \in Calls : CallStep(c)
    \/ \E u \in Users : DeleteAccount(u)

\* A handler that has started goes on to its end; nothing obliges a user to
\* make a request.
Fairness == \A c \in Calls : WF_vars(CallStep(c))

Spec == Init /\ [][Next]_vars
FairSpec == Spec /\ Fairness

-----------------------------------------------------------------------------
(* What the workflow promises.                                             *)

OwnTemps(u) == {t \in Created : claims[t].originalUserId = u}

TypeOK ==
    /\ email \in [Users -> Emails \cup {None}]
    /\ pending \in [Users -> [id : Temps \cup {None}, email : Emails \cup {None}]]
    /\ claims \in [Temps -> [email : Emails \cup {None},
                             originalUserId : Users \cup {None},
                             originalUserEmail : Emails \cup {None}]]
    /\ live \subseteq Temps
    /\ pc \in [Calls -> CallPC]
    /\ userId \in [Calls -> Users \cup {None}]
    /\ newEmail \in [Calls -> Emails \cup {None}]
    /\ tempUser \in [Calls -> Temps \cup {None}]
    /\ user \in [Calls -> [email : Emails \cup {None},
                           pending : [id : Temps \cup {None},
                                      email : Emails \cup {None}]]]
    /\ disturbed \subseteq Users

\* Whatever interleaves and fails, the address of a user changes only to one
\* that this user asked for, of a temporary user made for that request
\* (checkCustomClaims, before updateUser).
EmailComesFromOwnRequest ==
    [][\A u \in Users : email'[u] \notin {email[u], None} =>
          \E t \in OwnTemps(u) : claims[t].email = email'[u]]_vars

\* A deletion meant for a temporary user never reaches one of somebody else,
\* however stale the pointer it was read from: a handler deletes only
\* temporary users made for the user it serves.
DeletesOwnTempsOnly ==
    [][\A t \in live \ live' :
          \E c \in Calls : pc[c] \in {"discard", "cancel", "drop"}
                           /\ userId[c] = claims[t].originalUserId]_vars

\* A user whose own calls came one after the other, none of them failing
\* between the two writes it had to make, has at rest no temporary user but
\* the one the metadata point to, and its link still confirms; whatever other
\* users do with the same addresses at the same time.
PendingRequestIsCoherent ==
    \A u \in Users \ disturbed : CallsOf(u) = {} =>
        \A t \in OwnTemps(u) \cap live :
            /\ pending[u] = [id |-> t, email |-> claims[t].email]
            /\ claims[t].originalUserEmail = email[u]

\* The address of such a user changes only to that of the request pending at
\* that moment, while the temporary user is still there.
ChangeIsThePendingRequest ==
    [][\A u \in Users \ disturbed : email'[u] \notin {email[u], None} =>
          pending[u].id \in live /\ pending[u].email = email'[u]]_vars

\* Such a user is told that an address "is already registered" only when
\* somebody else holds it: its own earlier requests never stand in its way.
NoSelfLockout ==
    [][\A c \in Calls :
          pc[c] = "lookup" /\ pc'[c] = "rejected" /\ userId[c] \notin disturbed =>
              \E h \in Holders(newEmail[c]) :
                  h # userId[c] /\ h \notin OwnTemps(userId[c])]_vars

\* "Cancels the email change request.  Invalidates the confirmation email by
\* removing the passwordless user" (auth0-management.ts:184-185): an address
\* changes only while the temporary user that holds it exists.
CancelInvalidates ==
    [][\A u \in Users : email'[u] \notin {email[u], None} =>
          \E t \in live : claims[t].email = email'[u]]_vars
=============================================================================
