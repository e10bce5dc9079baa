--------------------------- MODULE LocationsProofs ----------------------------
(***************************************************************************)
(* Theorems about Locations, for any documents, handlers and requests.     *)
(*                                                                         *)
(* A version identifies an edit because an edit is counted before it is    *)
(* written: the invariant says that as long as the version is the one the  *)
(* client read, no handler stands between the two.  It needs versions to   *)
(* grow, hence that no update ever writes the version its client sent over *)
(* a later one.  An update that nobody overlaps carries this from the      *)
(* check of versions to its write.  Lists of members shrink as long as     *)
(* __v stays, so that an update of one is refused or finds what it loaded. *)
(* And where nobody overlaps, what the hooks have found of the members     *)
(* still holds at the write, and who makes a member private or removes it  *)
(* takes it off the lists.                                                 *)
(***************************************************************************)
EXTENDS Locations, TLAPS

\* What a client read lies in the past of the stored document.
ReadsArePast ==
    \A c \in Calls :
        /\ pc[c] = "idle" => base[c] = NoBase
        /\ base[c].rest => base[c].version # None
        /\ base[c].version # None =>
              /\ target[c] \in docs \cup removed
              /\ target[c] \notin removed =>
                    base[c].version <= version[target[c]]

\* So does the copy that an update loaded, and past the check of versions the
\* version sent, if any, is that of the copy.
LoadsArePast ==
    \A c \in Calls : pc[c] \in SavePC =>
        /\ target[c] \in Docs
        /\ sent[c] = base[c].version
        /\ ~loaded[c].isNew =>
              /\ target[c] \in docs \cup removed
              /\ target[c] \notin removed =>
                    /\ loaded[c].version <= version[target[c]]
                    /\ sent[c] # None => sent[c] <= loaded[c].version
                    /\ pc[c] \in {"refs", "inc", "write"} =>
                          sent[c] \in {None, loaded[c].version}

\* While the version is the one that the client read, the last edit is, and
\* no other is about to be written.
NothingCounted ==
    \A c \in Calls :
        /\ base[c].rest
        /\ target[c] \in docs \ removed
        /\ version[target[c]] = base[c].version
        => /\ edit[target[c]] = base[c].edit
           /\ \A e \in Calls :
                 pc[e] = "write" /\ target[e] = target[c] => ~IsModified(e)

\* While __v is the one that was loaded, the list of members is the one that
\* was loaded, or less.
ListsShrink ==
    \A c \in Calls :
        pc[c] \in SavePC /\ ~loaded[c].isNew /\ target[c] \in docs \ removed =>
            /\ loaded[c].arrayVersion <= arrayVersion[target[c]]
            /\ loaded[c].arrayVersion = arrayVersion[target[c]] =>
                  fields[target[c]].locations \subseteq loaded[c].fields.locations

\* Two handlers at work on a document disturb it.
OneAtWork ==
    \A c, e \in Calls :
        /\ c # e /\ target[c] = target[e]
        /\ pc[c] \notin Ended /\ pc[e] \notin Ended
        => target[c] \in disturbed

\* Past the check of versions an update has found the last edit to be the one
\* that its client read, and alone it stays so.
CheckedIsRead ==
    \A c \in Calls :
        /\ pc[c] \in {"refs", "inc", "write"}
        /\ base[c].rest
        /\ target[c] \notin disturbed \cup removed
        => edit[target[c]] = base[c].edit

-----------------------------------------------------------------------------
(* The type invariant in two parts, the documents and the handlers, and    *)
(* what it needs to be inductive: a handler under way has a document.      *)

PCs == Ended \cup SavePC \cup RemovePC
Bases == [version : Nat \cup {None}, edit : Calls \cup {None}, rest : BOOLEAN]

DocsOK ==
    /\ docs \subseteq Docs
    /\ fields \in [Docs -> Fields]
    /\ organization \in [Docs -> Orgs]
    /\ version \in [Docs -> Nat]
    /\ arrayVersion \in [Docs -> Nat]
    /\ edit \in [Docs -> Calls \cup {None}]
    /\ disturbed \subseteq Docs
    /\ removed \subseteq Docs

CallsOK ==
    /\ pc \in [Calls -> PCs]
    /\ target \in [Calls -> Docs \cup {None}]
    /\ change \in [Calls -> Changes \cup {NoChange}]
    /\ sent \in [Calls -> Nat \cup {None}]
    /\ loaded \in [Calls -> Copies \cup {NoDoc}]
    /\ base \in [Calls -> Bases]
    /\ \A c \in Calls : pc[c] \notin {"idle", "over"} => target[c] \in Docs

TypeInv == DocsOK /\ CallsOK

LEMMA TypeParts == TypeInv => TypeOK
BY DEF TypeInv, TypeOK, DocsOK, CallsOK, PCs, Bases

-----------------------------------------------------------------------------
(* Lemmas about the operators of the model.                                *)

LEMMA Constants ==
    /\ Draft \in Fields
    /\ NoDoc.fields = Draft /\ NoDoc.isNew = FALSE
    /\ NoBase \in Bases
    /\ \A o \in Orgs : [NoDoc EXCEPT !.isNew = TRUE, !.organization = o] \in Copies
    /\ \A r \in Copies : r.fields \in Fields /\ r.organization \in Orgs
BY DEF Draft, Fields, NoDoc, NoBase, Bases, Copies

\* Changing fields of a document gives a document.
LEMMA WithType ==
    ASSUME NEW r \in Fields, NEW chg \in Changes \cup {NoChange},
           NEW F \in SUBSET DOMAIN chg
    PROVE  With(r, chg, F) \in Fields
<1>1. CASE chg \in Changes
  BY <1>1, LocationsAssumption DEF With, Fields
<1>2. CASE chg = NoChange
  BY <1>2 DEF With, Fields, NoChange
<1>. QED  BY <1>1, <1>2

LEMMA SavedType ==
    ASSUME CallsOK, NEW c \in Calls
    PROVE  /\ Saved(c) \in Fields
           /\ Effective(c) \in SUBSET DOMAIN change[c]
           /\ \A r \in Fields : With(r, change[c], Effective(c)) \in Fields
<1>1. /\ loaded[c] \in Copies \cup {NoDoc}
      /\ change[c] \in Changes \cup {NoChange}
  BY DEF CallsOK
<1>2. loaded[c].fields \in Fields
  BY <1>1, Constants
<1>3. Effective(c) \in SUBSET DOMAIN change[c]
  BY DEF Effective
<1>4. Saved(c) \in Fields
  BY <1>1, <1>2, WithType DEF Saved
<1>. QED  BY <1>1, <1>3, <1>4, WithType

\* A step of a handler that goes on with its request, or forgets it.
LEMMA MovesType ==
    ASSUME CallsOK, NEW c \in Calls, NEW from \in SavePC \cup RemovePC,
           NEW to \in PCs, Moves(c, from, to)
    PROVE  CallsOK'
<1>1. pc' \in [Calls -> PCs]
  BY DEF Moves, CallsOK
<1>2. CASE to = "over"
  <2>1. /\ pc' = [pc EXCEPT ![c] = "over"]
        /\ target' = [target EXCEPT ![c] = None]
        /\ change' = [change EXCEPT ![c] = NoChange]
        /\ sent' = [sent EXCEPT ![c] = None]
        /\ loaded' = [loaded EXCEPT ![c] = NoDoc]
        /\ base' = [base EXCEPT ![c] = NoBase]
    BY <1>2 DEF Moves
  <2>2. NoBase \in Bases
    BY Constants
  <2>. QED  BY <1>1, <2>1, <2>2 DEF CallsOK
<1>3. CASE to # "over"
  <2>1. UNCHANGED <<target, change, sent, loaded, base>>
    BY <1>3 DEF Moves, callVars
  <2>2. target[c] \in Docs
    BY DEF Moves, CallsOK, SavePC, RemovePC
  <2>. QED  BY <1>1, <2>1, <2>2 DEF Moves, CallsOK
<1>. QED  BY <1>2, <1>3

\* A request that arrives.
LEMMA StartType ==
    ASSUME TypeInv, NEW c \in Calls, NEW d \in Docs, NEW to \in PCs,
           NEW chg \in Changes \cup {NoChange}, NEW v \in Nat \cup {None},
           NEW copy \in Copies, Start(c, d, to, chg, v, copy), UNCHANGED base
    PROVE  TypeInv'
<1>1. CallsOK'
  BY DEF TypeInv, CallsOK, Start
<1>2. disturbed' \subseteq Docs
  <2>1. Touched(d, chg) \subseteq Docs
    BY LocationsAssumption DEF Touched, NoChange
  <2>. QED  BY <2>1 DEF Start, TypeInv, DocsOK
<1>3. DocsOK'
  BY <1>2 DEF TypeInv, DocsOK, Start, dbVars
<1>. QED  BY <1>1, <1>3 DEF TypeInv

-----------------------------------------------------------------------------
(* Types.                                                                  *)

LEMMA TypeInit == Init => TypeInv
<1>. SUFFICES ASSUME Init  PROVE TypeInv
  OBVIOUS
<1>1. "idle" \in PCs
  BY DEF PCs, Ended
<1>2. CallsOK
  BY <1>1, Constants DEF Init, CallsOK
<1>3. DocsOK
  BY DEF Init, DocsOK
<1>. QED  BY <1>2, <1>3 DEF TypeInv

LEMMA TypeNext == TypeInv /\ [Next]_vars => TypeInv'
<1>. SUFFICES ASSUME TypeInv, [Next]_vars  PROVE TypeInv'
  OBVIOUS
<1>a. DocsOK /\ CallsOK
  BY DEF TypeInv
<1>b. /\ {"validate", "check", "refs", "inc", "write", "pull", "remove",
          "clean"} \subseteq SavePC \cup RemovePC
      /\ SavePC \cup RemovePC \cup {"read", "over"} \subseteq PCs
  BY DEF PCs, Ended, SavePC, RemovePC
<1>c. \A c \in Calls : pc[c] \in SavePC \cup RemovePC => target[c] \in Docs
  BY <1>a DEF CallsOK, SavePC, RemovePC
<1>d. \A d \in Docs : Copy(d) \in Copies
  BY <1>a DEF DocsOK, Copy, Copies
<1>1. ASSUME NEW c \in Calls, NEW d \in Docs, Read(c, d)
      PROVE  TypeInv'
  <2>1. [version |-> version[d], edit |-> edit[d], rest |-> AtRest(d)] \in Bases
    BY <1>a DEF DocsOK, Bases, AtRest
  <2>2. CallsOK'
    BY <1>1, <1>a, <1>b, <2>1 DEF Read, CallsOK
  <2>3. DocsOK'
    BY <1>1, <1>a DEF Read, DocsOK, dbVars
  <2>. QED  BY <2>2, <2>3 DEF TypeInv
<1>2. ASSUME NEW c \in Calls, NEW d \in Docs, NEW chg \in Changes,
             Update(c, d, chg)
      PROVE  TypeInv'
  <2>1. base[c].version \in Nat \cup {None}
    BY <1>a DEF CallsOK, Bases
  <2>2. /\ Start(c, d, "validate", chg, base[c].version, Copy(d))
        /\ UNCHANGED base
    BY <1>2 DEF Update
  <2>. QED  BY <1>b, <1>d, <2>1, <2>2, StartType
<1>3. ASSUME NEW c \in Calls, NEW d \in Docs, NEW chg \in Changes,
             NEW o \in Orgs, Save(c, d, o, chg)
      PROVE  TypeInv'
  <2>1. [NoDoc EXCEPT !.isNew = TRUE, !.organization = o] \in Copies
    BY Constants
  <2>2. /\ Start(c, d, "validate", chg, None,
                 [NoDoc EXCEPT !.isNew = TRUE, !.organization = o])
        /\ UNCHANGED base
    BY <1>3 DEF Save
  <2>. QED  BY <1>b, <2>1, <2>2, StartType
<1>4. ASSUME NEW c \in Calls, NEW d \in Docs, Remove(c, d)
      PROVE  TypeInv'
  <2>1. Start(c, d, "remove", NoChange, None, Copy(d)) /\ UNCHANGED base
    BY <1>4 DEF Remove
  <2>. QED  BY <1>b, <1>d, <2>1, StartType
<1>5. ASSUME NEW c \in Calls, Validate(c) \/ CheckVersion(c) \/ CheckRefs(c)
      PROVE  TypeInv'
  <2>1. PICK from \in SavePC \cup RemovePC, to \in PCs : Moves(c, from, to)
    <3>1. CASE Validate(c)
      BY <3>1, <1>b DEF Validate
    <3>2. CASE CheckVersion(c)
      BY <3>2, <1>b DEF CheckVersion
    <3>3. CASE CheckRefs(c)
      BY <3>3, <1>b DEF CheckRefs
    <3>. QED  BY <1>5, <3>1, <3>2, <3>3
  <2>2. CallsOK'
    BY <1>a, <2>1, MovesType
  <2>3. UNCHANGED <<dbVars, edit, disturbed, removed>>
    BY <1>5 DEF Validate, CheckVersion, CheckRefs
  <2>. QED  BY <1>a, <2>2, <2>3 DEF TypeInv, DocsOK, dbVars
<1>6. ASSUME NEW c \in Calls, IncVersion(c)
      PROVE  TypeInv'
  <2>1. CallsOK'
    BY <1>6, <1>a, <1>b, MovesType DEF IncVersion
  <2>2. DocsOK'
    BY <1>6, <1>a DEF IncVersion, DocsOK
  <2>. QED  BY <2>1, <2>2 DEF TypeInv
<1>7. ASSUME NEW c \in Calls, Insert(c)
      PROVE  TypeInv'
  <2>1. PICK to \in PCs : Moves(c, "write", to)
    BY <1>7, <1>b DEF Insert
  <2>2. CallsOK'
    BY <1>a, <1>b, <2>1, MovesType
  <2>3. Saved(c) \in Fields
    BY <1>a, SavedType
  <2>4. loaded[c].organization \in Orgs
    <3>1. loaded[c] \in Copies \cup {NoDoc} /\ loaded[c].isNew
      BY <1>7, <1>a DEF Insert, CallsOK
    <3>. QED  BY <3>1, Constants
  <2>5. target[c] \in Docs
    BY <1>b, <1>c, <2>1 DEF Moves
  <2>6. DocsOK'
    BY <1>7, <1>a, <2>3, <2>4, <2>5 DEF Insert, DocsOK, dbVars
  <2>. QED  BY <2>2, <2>6 DEF TypeInv
<1>8. ASSUME NEW c \in Calls, Write(c)
      PROVE  TypeInv'
  <2>1. PICK to \in PCs : Moves(c, "write", to)
    BY <1>8, <1>b DEF Write
  <2>2. CallsOK'
    BY <1>a, <1>b, <2>1, MovesType
  <2>3. target[c] \in Docs
    BY <1>b, <1>c, <2>1 DEF Moves
  <2>4. With(fields[target[c]], change[c], Effective(c)) \in Fields
    BY <1>a, <2>3, SavedType DEF DocsOK
  <2>5. sent[c] \in Nat \cup {None}
    BY <1>a DEF CallsOK
  <2>6. DocsOK'
    BY <1>8, <1>a, <2>3, <2>4, <2>5 DEF Write, DocsOK
  <2>. QED  BY <2>2, <2>6 DEF TypeInv
<1>9. ASSUME NEW c \in Calls, PullUpdated(c) \/ PullRemoved(c)
      PROVE  TypeInv'
  <2>1. PICK from \in SavePC \cup RemovePC : Moves(c, from, "over")
    BY <1>9, <1>b DEF PullUpdated, PullRemoved
  <2>2. CallsOK'
    BY <1>a, <1>b, <2>1, MovesType
  <2>3. \A r \in Fields : \A m : [r EXCEPT !.locations = @ \ {m}] \in Fields
    BY DEF Fields
  <2>4. fields' \in [Docs -> Fields]
    <3>1. CASE UNCHANGED fields
      BY <1>a, <3>1 DEF DocsOK
    <3>2. CASE Pull(target[c])
      <4>1. \A d \in Docs : fields[d] \in Fields
        BY <1>a DEF DocsOK
      <4>. QED  BY <2>3, <3>2, <4>1 DEF Pull
    <3>. QED  BY <1>9, <3>1, <3>2 DEF PullUpdated, PullRemoved
  <2>5. DocsOK'
    BY <1>9, <1>a, <2>4 DEF PullUpdated, PullRemoved, DocsOK
  <2>. QED  BY <2>2, <2>5 DEF TypeInv
<1>10. ASSUME NEW c \in Calls, RemoveDoc(c)
       PROVE  TypeInv'
  <2>1. CallsOK'
    BY <1>10, <1>a, <1>b, MovesType DEF RemoveDoc
  <2>2. target[c] \in Docs
    BY <1>10, <1>b, <1>c DEF RemoveDoc, Moves
  <2>3. DocsOK'
    BY <1>10, <1>a, <2>2, Constants DEF RemoveDoc, DocsOK
  <2>. QED  BY <2>1, <2>3 DEF TypeInv
<1>11. ASSUME NEW c \in Calls, CallFails(c)
       PROVE  TypeInv'
  <2>1. pc[c] \in SavePC \cup RemovePC
    BY <1>11, <1>a DEF CallFails, CallsOK, PCs
  <2>2. CallsOK'
    BY <1>11, <1>a, <1>b, <2>1, MovesType DEF CallFails
  <2>3. DocsOK'
    BY <1>11, <1>a, <1>c, <2>1 DEF CallFails, DocsOK, dbVars
  <2>. QED  BY <2>2, <2>3 DEF TypeInv
<1>12. CASE UNCHANGED vars
  BY <1>12 DEF vars, dbVars, callVars, TypeInv, DocsOK, CallsOK
<1>. QED
  BY <1>1, <1>2, <1>3, <1>4, <1>5, <1>6, <1>7, <1>8, <1>9, <1>10, <1>11, <1>12
  DEF Next, Requests, Steps

\* The variables keep their types.
THEOREM TypeCorrect == Spec => []TypeOK
<1>1. Init => TypeInv
  BY TypeInit
<1>2. TypeInv /\ [Next]_vars => TypeInv'
  BY TypeNext
<1>3. TypeInv => TypeOK
  BY TypeParts
<1>. QED  BY <1>1, <1>2, <1>3, PTL DEF Spec

-----------------------------------------------------------------------------
(* What a step does to the handlers, and to the versions.                  *)

\* Handler e keeps its request.
Keeps(e) ==
    /\ target'[e] = target[e]
    /\ change'[e] = change[e]
    /\ sent'[e] = sent[e]
    /\ loaded'[e] = loaded[e]
    /\ base'[e] = base[e]

LEMMA KeepsModified ==
    ASSUME NEW e, Keeps(e)
    PROVE  /\ Effective(e)' = Effective(e)
           /\ IsModified(e)' <=> IsModified(e)
BY DEF Keeps, IsModified, Effective

LEMMA MovesHandlers ==
    ASSUME TypeInv, NEW c \in Calls, NEW from, NEW to, Moves(c, from, to)
    PROVE  /\ pc[c] = from /\ pc'[c] = to
           /\ \A e \in Calls \ {c} : pc'[e] = pc[e] /\ Keeps(e)
           /\ to # "over" => Keeps(c)
           /\ to = "over" => base'[c] = NoBase
<1>1. pc[c] = from /\ pc' = [pc EXCEPT ![c] = to]
  BY DEF Moves
<1>2. CASE to = "over"
  BY <1>1, <1>2 DEF Moves, Keeps, TypeInv, CallsOK
<1>3. CASE to # "over"
  BY <1>1, <1>3 DEF Moves, Keeps, TypeInv, CallsOK, callVars
<1>. QED  BY <1>2, <1>3

LEMMA StartHandlers ==
    ASSUME TypeInv, NEW c \in Calls, NEW d, NEW to, NEW chg, NEW v, NEW copy,
           Start(c, d, to, chg, v, copy), UNCHANGED base
    PROVE  /\ pc'[c] = to /\ target'[c] = d /\ change'[c] = chg
           /\ sent'[c] = v /\ loaded'[c] = copy /\ base'[c] = base[c]
           /\ \A e \in Calls \ {c} : pc'[e] = pc[e] /\ Keeps(e)
           /\ UNCHANGED <<docs, fields, organization, version, arrayVersion,
                          edit, removed>>
BY DEF Start, Keeps, TypeInv, CallsOK, dbVars

\* Documents that ever were stay so, and the version of one that was never
\* removed does not go back.
Grows ==
    /\ docs \cup removed \subseteq docs' \cup removed'
    /\ removed \subseteq removed'
    /\ \A d \in docs \cup removed : d \notin removed' => version[d] <= version'[d]

LEMMA StepGrows ==
    ASSUME TypeInv, LoadsArePast, [Next]_vars
    PROVE  Grows
<1>a. DocsOK /\ CallsOK
  BY DEF TypeInv
<1>b. version \in [Docs -> Nat]
  BY <1>a DEF DocsOK
<1>1. ASSUME UNCHANGED <<docs, version, removed>>
      PROVE  Grows
  BY <1>1, <1>a, <1>b DEF Grows, DocsOK
<1>2. ASSUME NEW c \in Calls, NEW d \in Docs, Read(c, d) \/ Remove(c, d)
      PROVE  Grows
  BY <1>1, <1>2 DEF Read, Remove, Start, dbVars
<1>3. ASSUME NEW c \in Calls, NEW d \in Docs, NEW chg \in Changes,
             Update(c, d, chg) \/ \E o \in Orgs : Save(c, d, o, chg)
      PROVE  Grows
  BY <1>1, <1>3 DEF Update, Save, Start, dbVars
<1>4. ASSUME NEW c \in Calls,
             \/ Validate(c) \/ CheckVersion(c) \/ CheckRefs(c)
             \/ PullUpdated(c) \/ PullRemoved(c) \/ CallFails(c)
      PROVE  Grows
  BY <1>1, <1>4 DEF Validate, CheckVersion, CheckRefs, PullUpdated, PullRemoved,
                    CallFails, dbVars
<1>5. ASSUME NEW c \in Calls, IncVersion(c)
      PROVE  Grows
  BY <1>5, <1>a, <1>b DEF IncVersion, Grows, DocsOK
<1>6. ASSUME NEW c \in Calls, Insert(c)
      PROVE  Grows
  BY <1>6, <1>a, <1>b DEF Insert, Grows, DocsOK, dbVars
<1>7. ASSUME NEW c \in Calls, Write(c)
      PROVE  Grows
  <2>1. pc[c] = "write"
    BY <1>7 DEF Write, Moves
  <2>2. target[c] \notin removed => sent[c] \in {None, loaded[c].version}
    BY <1>7, <2>1 DEF Write, LoadsArePast, SavePC
  <2>3. UNCHANGED <<docs, removed>>
    BY <1>7 DEF Write
  <2>4. \A d \in Docs : d \notin removed => version'[d] = version[d]
    BY <1>7, <1>b, <2>2 DEF Write
  <2>. QED  BY <1>a, <1>b, <2>3, <2>4 DEF Grows, DocsOK
<1>8. ASSUME NEW c \in Calls, RemoveDoc(c)
      PROVE  Grows
  BY <1>8, <1>a, <1>b DEF RemoveDoc, Grows, DocsOK
<1>9. CASE UNCHANGED vars
  BY <1>1, <1>9 DEF vars, dbVars
<1>. QED
  BY <1>2, <1>3, <1>4, <1>5, <1>6, <1>7, <1>8, <1>9 DEF Next, Requests, Steps

-----------------------------------------------------------------------------
(* What clients read and handlers load lies in the past.                   *)

PastInv == TypeInv /\ ReadsArePast /\ LoadsArePast

LEMMA PastOfMove ==
    ASSUME PastInv, TypeInv', Grows, NEW c \in Calls, NEW from, NEW to \in PCs,
           Moves(c, from, to), to # "idle",
           to \in SavePC => from \in SavePC,
           to \in {"refs", "inc", "write"} /\ ~loaded[c].isNew
                   /\ target[c] \notin removed
               => sent[c] \in {None, loaded[c].version}
    PROVE  ReadsArePast' /\ LoadsArePast'
<1>. USE DEF PastInv
<1>a. /\ pc[c] = from /\ pc'[c] = to
      /\ \A e \in Calls \ {c} : pc'[e] = pc[e] /\ Keeps(e)
      /\ to # "over" => Keeps(c)
      /\ to = "over" => base'[c] = NoBase
  BY MovesHandlers
<1>b. \A e \in Calls : base[e].version \in Nat \cup {None}
  BY DEF TypeInv, CallsOK, Bases
<1>c. \A e \in Calls : loaded[e].version \in Nat /\ sent[e] \in Nat \cup {None}
  <2>1. \A r \in Copies \cup {NoDoc} : r.version \in Nat
    BY DEF Copies, NoDoc
  <2>. QED  BY <2>1 DEF TypeInv, CallsOK
<1>d. \A d \in docs \cup removed :
         d \notin removed' => /\ d \notin removed
                              /\ version[d] \in Nat /\ version'[d] \in Nat
                              /\ version[d] <= version'[d]
  <2>1. docs \cup removed \subseteq Docs
    BY DEF TypeInv, DocsOK
  <2>2. version \in [Docs -> Nat] /\ version' \in [Docs -> Nat]
    BY DEF TypeInv, DocsOK
  <2>. QED  BY <2>1, <2>2 DEF Grows
<1>1. ASSUME NEW e \in Calls, Keeps(e), base[e].version # None
      PROVE  /\ target[e] \in docs' \cup removed'
             /\ target[e] \notin removed' => base[e].version <= version'[target[e]]
  <2>1. /\ target[e] \in docs \cup removed
        /\ target[e] \notin removed => base[e].version <= version[target[e]]
    BY <1>1 DEF ReadsArePast
  <2>. QED  BY <1>1, <1>b, <1>d, <2>1, LocationsAssumption DEF Grows
<1>2. ReadsArePast'
  <2>. SUFFICES ASSUME NEW e \in Calls
                PROVE  /\ pc'[e] = "idle" => base'[e] = NoBase
                       /\ base'[e].rest => base'[e].version # None
                       /\ base'[e].version # None =>
                             /\ target'[e] \in docs' \cup removed'
                             /\ target'[e] \notin removed' =>
                                   base'[e].version <= version'[target'[e]]
    BY DEF ReadsArePast
  <2>1. CASE Keeps(e)
    BY <1>1, <1>a, <2>1 DEF Keeps, ReadsArePast
  <2>2. CASE base'[e] = NoBase
    BY <2>2 DEF NoBase
  <2>. QED  BY <1>a, <2>1, <2>2
<1>3. LoadsArePast'
  <2>. SUFFICES ASSUME NEW e \in Calls, pc'[e] \in SavePC
                PROVE  /\ target'[e] \in Docs
                       /\ sent'[e] = base'[e].version
                       /\ ~loaded'[e].isNew =>
                             /\ target'[e] \in docs' \cup removed'
                             /\ target'[e] \notin removed' =>
                                   /\ loaded'[e].version <= version'[target'[e]]
                                   /\ sent'[e] # None => sent'[e] <= loaded'[e].version
                                   /\ pc'[e] \in {"refs", "inc", "write"} =>
                                         sent'[e] \in {None, loaded'[e].version}
    BY DEF LoadsArePast
  <2>1. Keeps(e) /\ pc[e] \in SavePC
    BY <1>a DEF SavePC
  <2>2. /\ target[e] \in Docs
        /\ sent[e] = base[e].version
        /\ ~loaded[e].isNew =>
              /\ target[e] \in docs \cup removed
              /\ target[e] \notin removed =>
                    /\ loaded[e].version <= version[target[e]]
                    /\ sent[e] # None => sent[e] <= loaded[e].version
                    /\ pc[e] \in {"refs", "inc", "write"} =>
                          sent[e] \in {None, loaded[e].version}
    BY <2>1 DEF LoadsArePast
  <2>3. pc'[e] \in {"refs", "inc", "write"} /\ ~loaded[e].isNew
           /\ target[e] \notin removed
        => sent[e] \in {None, loaded[e].version}
    BY <1>a, <2>2
  <2>4. ~loaded[e].isNew =>
           /\ target[e] \in docs' \cup removed'
           /\ target[e] \notin removed' => loaded[e].version <= version'[target[e]]
    BY <1>c, <1>d, <2>2 DEF Grows
  <2>. QED  BY <1>d, <2>1, <2>2, <2>3, <2>4 DEF Keeps
<1>. QED  BY <1>2, <1>3

\* An update sends the version that its client read, and loads the document.
StartsOn(c, d, to, v, copy) ==
    /\ pc[c] = "idle" \/ (pc[c] = "read" /\ target[c] = d)
    /\ to = "validate" => /\ v = base[c].version
                          /\ copy.isNew \/ (d \in docs /\ copy = Copy(d))

LEMMA PastOfStart ==
    ASSUME PastInv, NEW c \in Calls, NEW d \in Docs, NEW to \in {"validate", "remove"},
           NEW chg \in Changes \cup {NoChange}, NEW v \in Nat \cup {None},
           NEW copy \in Copies, Start(c, d, to, chg, v, copy),
           UNCHANGED base, StartsOn(c, d, to, v, copy)
    PROVE  ReadsArePast' /\ LoadsArePast'
<1>. USE DEF PastInv, StartsOn
<1>a. /\ pc'[c] = to /\ target'[c] = d /\ change'[c] = chg
      /\ sent'[c] = v /\ loaded'[c] = copy /\ base'[c] = base[c]
      /\ \A e \in Calls \ {c} : pc'[e] = pc[e] /\ Keeps(e)
      /\ UNCHANGED <<docs, fields, organization, version, arrayVersion,
                     edit, removed>>
  BY StartHandlers
<1>b. base[c] = NoBase \/ target[c] = d
  BY DEF ReadsArePast
<1>c. base[c].version # None /\ d \notin removed => base[c].version <= version[d]
  BY <1>b DEF ReadsArePast, NoBase
<1>d. base[c].version # None => d \in docs \cup removed
  BY <1>b DEF ReadsArePast, NoBase
<1>1. ReadsArePast'
  <2>. SUFFICES ASSUME NEW e \in Calls
                PROVE  /\ pc'[e] = "idle" => base'[e] = NoBase
                       /\ base'[e].rest => base'[e].version # None
                       /\ base'[e].version # None =>
                             /\ target'[e] \in docs' \cup removed'
                             /\ target'[e] \notin removed' =>
                                   base'[e].version <= version'[target'[e]]
    BY DEF ReadsArePast
  <2>1. CASE e = c
    BY <1>a, <1>c, <1>d, <2>1 DEF ReadsArePast
  <2>2. CASE e # c
    BY <1>a, <2>2 DEF ReadsArePast, Keeps
  <2>. QED  BY <2>1, <2>2
<1>2. LoadsArePast'
  <2>. SUFFICES ASSUME NEW e \in Calls, pc'[e] \in SavePC
                PROVE  /\ target'[e] \in Docs
                       /\ sent'[e] = base'[e].version
                       /\ ~loaded'[e].isNew =>
                             /\ target'[e] \in docs' \cup removed'
                             /\ target'[e] \notin removed' =>
                                   /\ loaded'[e].version <= version'[target'[e]]
                                   /\ sent'[e] # None => sent'[e] <= loaded'[e].version
                                   /\ pc'[e] \in {"refs", "inc", "write"} =>
                                         sent'[e] \in {None, loaded'[e].version}
    BY DEF LoadsArePast
  <2>1. CASE e = c
    <3>1. to = "validate"
      BY <1>a, <2>1 DEF SavePC
    <3>2. CASE copy.isNew
      BY <1>a, <2>1, <3>1, <3>2
    <3>3. CASE d \in docs /\ copy = Copy(d)
      <4>1. copy.version = version[d] /\ version[d] \in Nat
        BY <3>3 DEF Copy, TypeInv, DocsOK
      <4>. QED  BY <1>a, <1>c, <2>1, <3>1, <3>3, <4>1
    <3>. QED  BY <3>1, <3>2, <3>3
  <2>2. CASE e # c
    <3>1. pc[e] \in SavePC /\ pc'[e] = pc[e] /\ Keeps(e)
      BY <1>a, <2>2
    <3>. QED  BY <1>a, <3>1 DEF LoadsArePast, Keeps
  <2>. QED  BY <2>1, <2>2
<1>. QED  BY <1>1, <1>2

LEMMA PastInit == Init => PastInv
BY TypeInit DEF Init, PastInv, ReadsArePast, LoadsArePast, NoBase, SavePC

LEMMA PastNext == PastInv /\ [Next]_vars => PastInv'
<1>. SUFFICES ASSUME PastInv, [Next]_vars  PROVE PastInv'
  OBVIOUS
<1>a. TypeInv /\ ReadsArePast /\ LoadsArePast
  BY DEF PastInv
<1>b. TypeInv' /\ Grows
  BY <1>a, TypeNext, StepGrows
<1>c. {"check", "refs", "inc", "write", "pull", "clean", "over"} \subseteq PCs
  BY DEF PCs, Ended, SavePC, RemovePC
<1>e. /\ "validate" \in {"validate", "remove"}
      /\ "remove" \in {"validate", "remove"} /\ "remove" # "validate"
  OBVIOUS
<1>f. /\ \A d \in Docs : Copy(d) \in Copies
      /\ \A c \in Calls : base[c].version \in Nat \cup {None}
  BY <1>a DEF TypeInv, DocsOK, CallsOK, Copy, Copies, Bases
<1>d. SUFFICES ReadsArePast' /\ LoadsArePast'
  BY <1>b DEF PastInv
<1>1. ASSUME NEW c \in Calls, NEW d \in Docs, Read(c, d)
      PROVE  ReadsArePast' /\ LoadsArePast'
  <2>1. /\ pc'[c] = "read" /\ target'[c] = d
        /\ base'[c] = [version |-> version[d], edit |-> edit[d], rest |-> AtRest(d)]
        /\ \A e \in Calls \ {c} : pc'[e] = pc[e] /\ Keeps(e)
        /\ UNCHANGED <<docs, removed, version>>
    BY <1>1, <1>a DEF Read, Keeps, TypeInv, CallsOK, dbVars
  <2>2. version[d] \in Nat /\ version[d] # None /\ d \in docs
    BY <1>1, <1>a, LocationsAssumption DEF Read, TypeInv, DocsOK
  <2>3. ReadsArePast'
    BY <1>a, <2>1, <2>2 DEF ReadsArePast, Keeps
  <2>4. LoadsArePast'
    BY <1>a, <2>1 DEF LoadsArePast, Keeps, SavePC
  <2>. QED  BY <2>3, <2>4
<1>2. ASSUME NEW c \in Calls, NEW d \in Docs, NEW chg \in Changes,
             Update(c, d, chg)
      PROVE  ReadsArePast' /\ LoadsArePast'
  <2>1. /\ Start(c, d, "validate", chg, base[c].version, Copy(d))
        /\ UNCHANGED base
        /\ StartsOn(c, d, "validate", base[c].version, Copy(d))
    BY <1>2, Zenon DEF Update, StartsOn
  <2>. QED  BY <1>e, <1>f, <2>1, PastOfStart
<1>3. ASSUME NEW c \in Calls, NEW d \in Docs, NEW chg \in Changes,
             NEW o \in Orgs, Save(c, d, o, chg)
      PROVE  ReadsArePast' /\ LoadsArePast'
  <2>1. [NoDoc EXCEPT !.isNew = TRUE, !.organization = o].isNew
    BY DEF NoDoc
  <2>2. base[c].version = None
    BY <1>3, <1>a DEF Save, ReadsArePast, NoBase
  <2>3. /\ Start(c, d, "validate", chg, None,
                 [NoDoc EXCEPT !.isNew = TRUE, !.organization = o])
        /\ UNCHANGED base
        /\ StartsOn(c, d, "validate", None,
                    [NoDoc EXCEPT !.isNew = TRUE, !.organization = o])
    BY <1>3, <2>1, <2>2 DEF Save, StartsOn
  <2>. QED  BY <1>e, <2>1, <2>2, <2>3, PastOfStart, Constants
<1>4. ASSUME NEW c \in Calls, NEW d \in Docs, Remove(c, d)
      PROVE  ReadsArePast' /\ LoadsArePast'
  <2>1. /\ Start(c, d, "remove", NoChange, None, Copy(d))
        /\ UNCHANGED base
        /\ StartsOn(c, d, "remove", None, Copy(d))
    BY <1>4 DEF Remove, StartsOn
  <2>. QED  BY <1>e, <1>f, <2>1, PastOfStart
<1>5. ASSUME NEW c \in Calls, Validate(c)
      PROVE  ReadsArePast' /\ LoadsArePast'
  <2>1. PICK to \in {"check", "over"} : Moves(c, "validate", to)
    BY <1>5 DEF Validate
  <2>. QED  BY <1>b, <1>c, <2>1, PastOfMove DEF SavePC
<1>6. ASSUME NEW c \in Calls, CheckVersion(c)
      PROVE  ReadsArePast' /\ LoadsArePast'
  <2>1. PICK to \in {"refs", "over"} :
           /\ Moves(c, "check", to)
           /\ to = "refs" => \/ target[c] \notin docs
                             \/ ClientVersion(c) = version[target[c]]
    BY <1>6 DEF CheckVersion
  <2>2. pc[c] = "check" /\ pc[c] \in SavePC
    BY <2>1 DEF Moves, SavePC
  <2>3. ASSUME to = "refs", ~loaded[c].isNew, target[c] \notin removed
        PROVE  sent[c] \in {None, loaded[c].version}
    <3>1. /\ target[c] \in docs
          /\ loaded[c].version <= version[target[c]]
          /\ sent[c] # None => sent[c] <= loaded[c].version
      BY <1>a, <2>2, <2>3 DEF LoadsArePast
    <3>2. loaded[c].version \in Nat
      <4>1. \A r \in Copies \cup {NoDoc} : r.version \in Nat
        BY DEF Copies, NoDoc
      <4>. QED  BY <1>a, <4>1 DEF TypeInv, CallsOK
    <3>3. version[target[c]] \in Nat
      BY <1>a, <3>1 DEF TypeInv, DocsOK
    <3>. QED  BY <2>1, <2>3, <3>1, <3>2, <3>3 DEF ClientVersion
  <2>. QED  BY <1>b, <1>c, <2>1, <2>3, PastOfMove DEF SavePC
<1>7. ASSUME NEW c \in Calls, CheckRefs(c) \/ IncVersion(c)
      PROVE  ReadsArePast' /\ LoadsArePast'
  <2>1. PICK from \in {"refs", "inc"}, to \in {"inc", "write", "over"} :
           Moves(c, from, to)
    BY <1>7 DEF CheckRefs, IncVersion
  <2>2. ~loaded[c].isNew /\ target[c] \notin removed
           => sent[c] \in {None, loaded[c].version}
    BY <1>a, <2>1 DEF Moves, LoadsArePast, SavePC
  <2>. QED  BY <1>b, <1>c, <2>1, <2>2, PastOfMove DEF SavePC
<1>8. ASSUME NEW c \in Calls, Insert(c) \/ Write(c)
      PROVE  ReadsArePast' /\ LoadsArePast'
  <2>1. PICK to \in {"pull", "over"} : Moves(c, "write", to)
    BY <1>8 DEF Insert, Write
  <2>. QED  BY <1>b, <1>c, <2>1, PastOfMove DEF SavePC
<1>9. ASSUME NEW c \in Calls,
             PullUpdated(c) \/ RemoveDoc(c) \/ PullRemoved(c) \/ CallFails(c)
      PROVE  ReadsArePast' /\ LoadsArePast'
  <2>1. PICK to \in {"clean", "over"} : Moves(c, pc[c], to)
    <3>1. CASE RemoveDoc(c)
      BY <3>1 DEF RemoveDoc, Moves
    <3>2. CASE PullUpdated(c) \/ PullRemoved(c) \/ CallFails(c)
      BY <3>2 DEF PullUpdated, PullRemoved, CallFails, Moves
    <3>. QED  BY <1>9, <3>1, <3>2
  <2>. QED  BY <1>b, <1>c, <2>1, PastOfMove DEF SavePC
<1>10. CASE UNCHANGED vars
  BY <1>10, <1>a DEF vars, dbVars, callVars, ReadsArePast, LoadsArePast
<1>. QED
  BY <1>1, <1>2, <1>3, <1>4, <1>5, <1>6, <1>7, <1>8, <1>9, <1>10
  DEF Next, Requests, Steps

-----------------------------------------------------------------------------
(* A version stands for one edit.                                          *)

\* A step of handler c that leaves alone the versions, what was last edited
\* and who is about to write.
LEMMA CountedKept ==
    ASSUME PastInv, NothingCounted, NEW c \in Calls,
           UNCHANGED <<version, edit>>, docs' \ removed' \subseteq docs \ removed,
           \A e \in Calls \ {c} : pc'[e] = pc[e] /\ Keeps(e),
           pc'[c] = "write" => Keeps(c) /\ ~IsModified(c),
           base'[c].rest => Keeps(c)
    PROVE  NothingCounted'
<1>. SUFFICES ASSUME NEW a \in Calls, base'[a].rest,
                     target'[a] \in docs' \ removed',
                     version'[target'[a]] = base'[a].version
              PROVE  /\ edit'[target'[a]] = base'[a].edit
                     /\ \A e \in Calls :
                           pc'[e] = "write" /\ target'[e] = target'[a]
                              => ~IsModified(e)'
  BY DEF NothingCounted
<1>1. Keeps(a)
  OBVIOUS
<1>2. /\ edit[target[a]] = base[a].edit
      /\ \A e \in Calls :
            pc[e] = "write" /\ target[e] = target[a] => ~IsModified(e)
  BY <1>1 DEF Keeps, NothingCounted
<1>3. edit'[target'[a]] = base'[a].edit
  BY <1>1, <1>2 DEF Keeps
<1>4. ASSUME NEW e \in Calls, pc'[e] = "write", target'[e] = target'[a]
      PROVE  ~IsModified(e)'
  <2>1. Keeps(e) /\ (pc[e] = "write" \/ ~IsModified(e))
    BY <1>4
  <2>2. target[e] = target[a]
    BY <1>1, <1>4, <2>1 DEF Keeps
  <2>. QED  BY <1>2, <2>1, <2>2, KeepsModified
<1>. QED  BY <1>3, <1>4

LEMMA CountedNext ==
    ASSUME PastInv, PastInv', NothingCounted, [Next]_vars
    PROVE  NothingCounted'
<1>a. TypeInv /\ ReadsArePast /\ LoadsArePast
  BY DEF PastInv
<1>b. /\ docs \subseteq Docs
      /\ version \in [Docs -> Nat]
  BY <1>a DEF TypeInv, DocsOK
<1>c. \A c \in Calls : base[c].rest /\ target[c] \in docs \ removed
         => base[c].version \in Nat /\ base[c].version <= version[target[c]]
  <2>1. \A c \in Calls : base[c].version \in Nat \cup {None}
    BY <1>a DEF TypeInv, CallsOK, Bases
  <2>. QED  BY <1>a, <2>1 DEF ReadsArePast
<1>1. ASSUME NEW c \in Calls, NEW d \in Docs, Read(c, d)
      PROVE  NothingCounted'
  <2>1. /\ pc'[c] = "read" /\ target'[c] = d
        /\ base'[c] = [version |-> version[d], edit |-> edit[d], rest |-> AtRest(d)]
        /\ \A e \in Calls \ {c} : pc'[e] = pc[e] /\ Keeps(e)
        /\ UNCHANGED <<docs, removed, version, edit, loaded, change, sent>>
    BY <1>1, <1>a DEF Read, Keeps, TypeInv, CallsOK, dbVars
  <2>2. \A e \in Calls : IsModified(e)' <=> IsModified(e)
    BY <2>1 DEF IsModified, Effective
  <2>. SUFFICES ASSUME NEW a \in Calls, base'[a].rest,
                       target'[a] \in docs' \ removed',
                       version'[target'[a]] = base'[a].version
                PROVE  /\ edit'[target'[a]] = base'[a].edit
                       /\ \A e \in Calls :
                             pc'[e] = "write" /\ target'[e] = target'[a]
                                => ~IsModified(e)'
    BY DEF NothingCounted
  <2>3. CASE a = c
    <3>1. AtRest(d) /\ edit'[d] = base'[c].edit
      BY <2>1, <2>3
    <3>. QED  BY <2>1, <2>3, <3>1 DEF AtRest, Keeps
  <2>4. CASE a # c
    BY <2>1, <2>2, <2>4 DEF NothingCounted, Keeps
  <2>. QED  BY <2>3, <2>4
<1>2. ASSUME NEW c \in Calls, NEW d \in Docs, NEW to, NEW chg, NEW v, NEW copy,
             Start(c, d, to, chg, v, copy), UNCHANGED base, to # "write",
             base[c] = NoBase \/ target[c] = d
      PROVE  NothingCounted'
  <2>1. /\ pc'[c] = to /\ target'[c] = d /\ change'[c] = chg
        /\ sent'[c] = v /\ loaded'[c] = copy /\ base'[c] = base[c]
        /\ \A e \in Calls \ {c} : pc'[e] = pc[e] /\ Keeps(e)
        /\ UNCHANGED <<docs, fields, organization, version, arrayVersion,
                       edit, removed>>
    BY <1>2, <1>a, StartHandlers
  <2>. SUFFICES ASSUME NEW a \in Calls, base'[a].rest,
                       target'[a] \in docs' \ removed',
                       version'[target'[a]] = base'[a].version
                PROVE  /\ edit'[target'[a]] = base'[a].edit
                       /\ \A e \in Calls :
                             pc'[e] = "write" /\ target'[e] = target'[a]
                                => ~IsModified(e)'
    BY DEF NothingCounted
  <2>2. base'[a] = base[a] /\ target'[a] = target[a]
    BY <1>2, <2>1 DEF Keeps, NoBase
  <2>3. \A e \in Calls : pc'[e] = "write" =>
           /\ pc[e] = "write" /\ target'[e] = target[e]
           /\ IsModified(e)' <=> IsModified(e)
    BY <1>2, <2>1, KeepsModified DEF Keeps
  <2>. QED  BY <2>1, <2>2, <2>3 DEF NothingCounted
<1>3. ASSUME NEW c \in Calls, NEW d \in Docs,
             \/ Remove(c, d)
             \/ \E chg \in Changes :
                   Update(c, d, chg) \/ \E o \in Orgs : Save(c, d, o, chg)
      PROVE  NothingCounted'
  <2>1. UNCHANGED base /\ (base[c] = NoBase \/ target[c] = d)
    BY <1>3, <1>a DEF Update, Remove, Save, ReadsArePast
  <2>2. CASE \E chg \in Changes : Update(c, d, chg)
    BY <1>2, <2>1, <2>2 DEF Update
  <2>3. CASE Remove(c, d)
    BY <1>2, <2>1, <2>3 DEF Remove
  <2>4. CASE \E chg \in Changes, o \in Orgs : Save(c, d, o, chg)
    BY <1>2, <2>1, <2>4 DEF Save
  <2>. QED  BY <1>3, <2>2, <2>3, <2>4
<1>4. ASSUME NEW c \in Calls, NEW from, NEW to \in PCs, Moves(c, from, to),
             to # "write" \/ ~IsModified(c),
             UNCHANGED <<version, edit>>, docs' \ removed' \subseteq docs \ removed
      PROVE  NothingCounted'
  <2>1. /\ \A e \in Calls \ {c} : pc'[e] = pc[e] /\ Keeps(e)
        /\ pc'[c] = to
        /\ to # "over" => Keeps(c)
        /\ to = "over" => base'[c] = NoBase
    BY <1>4, <1>a, MovesHandlers
  <2>2. base'[c].rest => Keeps(c)
    BY <2>1 DEF NoBase
  <2>. QED  BY <1>4, <2>1, <2>2, CountedKept
<1>5. ASSUME NEW c \in Calls,
             \/ Validate(c) \/ CheckVersion(c) \/ CheckRefs(c)
             \/ PullUpdated(c) \/ RemoveDoc(c) \/ PullRemoved(c) \/ CallFails(c)
      PROVE  NothingCounted'
  <2>1. PICK to \in {"check", "refs", "inc", "clean", "over"} : Moves(c, pc[c], to)
    <3>1. CASE Validate(c)
      BY <3>1 DEF Validate, Moves
    <3>2. CASE CheckVersion(c)
      BY <3>2 DEF CheckVersion, Moves
    <3>3. CASE CheckRefs(c)
      BY <3>3 DEF CheckRefs, Moves
    <3>4. CASE RemoveDoc(c)
      BY <3>4 DEF RemoveDoc, Moves
    <3>5. CASE PullUpdated(c) \/ PullRemoved(c) \/ CallFails(c)
      BY <3>5 DEF PullUpdated, PullRemoved, CallFails, Moves
    <3>. QED  BY <1>5, <3>1, <3>2, <3>3, <3>4, <3>5
  <2>2. UNCHANGED <<version, edit>> /\ docs' \ removed' \subseteq docs \ removed
    BY <1>5 DEF Validate, CheckVersion, CheckRefs, PullUpdated, RemoveDoc,
                PullRemoved, CallFails, dbVars
  <2>3. to \in PCs /\ to # "write"
    BY DEF PCs, Ended, SavePC, RemovePC
  <2>. QED  BY <1>4, <2>1, <2>2, <2>3
<1>6. ASSUME NEW c \in Calls, IncVersion(c)
      PROVE  NothingCounted'
  <2>1. /\ Moves(c, "inc", "write") /\ "write" \in PCs
        /\ UNCHANGED <<docs, edit, removed>>
    BY <1>6 DEF IncVersion, PCs, SavePC
  <2>2. /\ \A e \in Calls \ {c} : pc'[e] = pc[e] /\ Keeps(e)
        /\ Keeps(c)
    BY <1>a, <2>1, MovesHandlers
  <2>3. CASE ~IsModified(c)
    <3>1. UNCHANGED version
      BY <1>6, <2>3 DEF IncVersion
    <3>. QED  BY <1>4, <2>1, <2>3, <3>1
  <2>4. CASE IsModified(c) /\ target[c] \in docs
    <3>1. version' = [version EXCEPT ![target[c]] = @ + 1]
      BY <1>6, <2>4 DEF IncVersion
    <3>. SUFFICES ASSUME NEW a \in Calls, base'[a].rest,
                         target'[a] \in docs' \ removed',
                         version'[target'[a]] = base'[a].version
                  PROVE  /\ edit'[target'[a]] = base'[a].edit
                         /\ \A e \in Calls :
                               pc'[e] = "write" /\ target'[e] = target'[a]
                                  => ~IsModified(e)'
      BY DEF NothingCounted
    <3>2. base'[a] = base[a] /\ target'[a] = target[a]
      BY <2>2 DEF Keeps
    <3>3. target[a] # target[c]
      BY <1>b, <1>c, <2>1, <2>4, <3>1, <3>2
    <3>4. version[target[a]] = base[a].version
      BY <1>b, <2>1, <2>4, <3>1, <3>2, <3>3
    <3>5. /\ edit[target[a]] = base[a].edit
          /\ \A e \in Calls :
                pc[e] = "write" /\ target[e] = target[a] => ~IsModified(e)
      BY <2>1, <3>2, <3>4 DEF NothingCounted
    <3>. QED  BY <2>1, <2>2, <3>2, <3>3, <3>5, KeepsModified DEF Keeps
  <2>5. CASE target[c] \notin docs
    <3>1. UNCHANGED version
      BY <1>6, <2>5 DEF IncVersion
    <3>. QED  BY <2>1, <2>2, <2>5, <3>1, KeepsModified DEF NothingCounted, Keeps
  <2>. QED  BY <2>3, <2>4, <2>5
<1>7. ASSUME NEW c \in Calls, Insert(c)
      PROVE  NothingCounted'
  <2>1. PICK to \in {"pull", "over"} : Moves(c, "write", to)
    BY <1>7 DEF Insert
  <2>2. to \in PCs /\ to # "write"
    BY DEF PCs, Ended, SavePC
  <2>3. CASE target[c] \in docs
    <3>1. UNCHANGED <<version, edit, docs, removed>>
      BY <1>7, <2>3 DEF Insert, dbVars
    <3>. QED  BY <1>4, <2>1, <2>2, <3>1
  <2>4. CASE target[c] \notin docs
    <3>1. /\ docs' = docs \cup {target[c]}
          /\ version' = [version EXCEPT ![target[c]] = 0]
          /\ edit' = [edit EXCEPT ![target[c]] = c]
          /\ removed' = removed
      BY <1>7, <2>4 DEF Insert
    <3>2. /\ \A e \in Calls \ {c} : pc'[e] = pc[e] /\ Keeps(e)
          /\ pc'[c] = to
          /\ to # "over" => Keeps(c)
          /\ to = "over" => base'[c] = NoBase
      BY <1>a, <2>1, MovesHandlers
    <3>. SUFFICES ASSUME NEW a \in Calls, base'[a].rest,
                         target'[a] \in docs' \ removed',
                         version'[target'[a]] = base'[a].version
                  PROVE  /\ edit'[target'[a]] = base'[a].edit
                         /\ \A e \in Calls :
                               pc'[e] = "write" /\ target'[e] = target'[a]
                                  => ~IsModified(e)'
      BY DEF NothingCounted
    <3>3. Keeps(a)
      BY <3>2 DEF NoBase
    <3>4. target[a] \in docs \cup removed
      BY <1>a, <3>3 DEF ReadsArePast, Keeps
    <3>5. target[a] \in docs \ removed /\ target[a] # target[c]
      BY <2>4, <3>1, <3>3, <3>4 DEF Keeps
    <3>6. /\ version'[target[a]] = version[target[a]]
          /\ edit'[target[a]] = edit[target[a]]
      BY <1>a, <3>1, <3>5 DEF TypeInv, DocsOK
    <3>7. /\ edit[target[a]] = base[a].edit
          /\ \A e \in Calls :
                pc[e] = "write" /\ target[e] = target[a] => ~IsModified(e)
      BY <3>3, <3>5, <3>6 DEF NothingCounted, Keeps
    <3>. QED  BY <2>2, <3>2, <3>3, <3>6, <3>7, KeepsModified DEF Keeps
  <2>. QED  BY <2>3, <2>4
<1>8. ASSUME NEW c \in Calls, Write(c)
      PROVE  NothingCounted'
  <2>1. PICK to \in {"pull", "over"} : Moves(c, "write", to)
    BY <1>8 DEF Write
  <2>2. to \in PCs /\ to # "write"
    BY DEF PCs, Ended, SavePC
  <2>3. UNCHANGED <<docs, removed>>
    BY <1>8 DEF Write
  <2>4. CASE Refused(c)
    <3>1. UNCHANGED <<version, edit>>
      BY <1>8, <2>4 DEF Write
    <3>. QED  BY <1>4, <2>1, <2>2, <2>3, <3>1
  <2>5. CASE ~Refused(c)
    <3>1. pc[c] = "write" /\ ~loaded[c].isNew
      BY <1>8, <2>1 DEF Write, Moves
    <3>2. target[c] \notin removed => sent[c] \in {None, loaded[c].version}
      BY <1>a, <3>1 DEF LoadsArePast, SavePC
    <3>3. target[c] \notin removed => version' = version
      BY <1>8, <2>5, <3>2 DEF Write
    <3>4. \A d \in Docs : d # target[c] =>
             version'[d] = version[d] /\ edit'[d] = edit[d]
      BY <1>8, <1>a, <2>5 DEF Write, TypeInv, DocsOK
    <3>5. edit' = edit \/ IsModified(c)
      BY <1>8, <2>5 DEF Write, IsModified
    <3>6. /\ \A e \in Calls \ {c} : pc'[e] = pc[e] /\ Keeps(e)
          /\ pc'[c] = to
          /\ to # "over" => Keeps(c)
          /\ to = "over" => base'[c] = NoBase
      BY <1>a, <2>1, MovesHandlers
    <3>. SUFFICES ASSUME NEW a \in Calls, base'[a].rest,
                         target'[a] \in docs' \ removed',
                         version'[target'[a]] = base'[a].version
                  PROVE  /\ edit'[target'[a]] = base'[a].edit
                         /\ \A e \in Calls :
                               pc'[e] = "write" /\ target'[e] = target'[a]
                                  => ~IsModified(e)'
      BY DEF NothingCounted
    <3>7. Keeps(a)
      BY <3>6 DEF NoBase
    <3>8. target[a] \in docs \ removed /\ target[a] \in Docs
      BY <1>b, <2>3, <3>7 DEF Keeps
    <3>9. version[target[a]] = base[a].version
      BY <3>3, <3>4, <3>7, <3>8 DEF Keeps
    <3>10. /\ edit[target[a]] = base[a].edit
           /\ \A e \in Calls :
                 pc[e] = "write" /\ target[e] = target[a] => ~IsModified(e)
      BY <3>7, <3>8, <3>9 DEF NothingCounted, Keeps
    <3>11. edit'[target[a]] = edit[target[a]]
      BY <3>1, <3>4, <3>5, <3>8, <3>10
    <3>. QED  BY <2>2, <3>6, <3>7, <3>10, <3>11, KeepsModified DEF Keeps
  <2>. QED  BY <2>4, <2>5
<1>9. CASE UNCHANGED vars
  BY <1>9 DEF vars, dbVars, callVars, NothingCounted, IsModified, Effective
<1>. QED
  BY <1>1, <1>3, <1>5, <1>6, <1>7, <1>8, <1>9 DEF Next, Requests, Steps

\* A version stands for one state of the document, whatever interleaves and
\* fails.
THEOREM VersionsIdentifyEdits == Spec => []VersionIdentifiesEdit
<1>1. Init => PastInv /\ NothingCounted
  BY PastInit DEF Init, NothingCounted, NoBase
<1>2. PastInv /\ NothingCounted /\ [Next]_vars => PastInv' /\ NothingCounted'
  BY PastNext, CountedNext
<1>3. NothingCounted => VersionIdentifiesEdit
  BY DEF NothingCounted, VersionIdentifiesEdit
<1>. QED  BY <1>1, <1>2, <1>3, PTL DEF Spec

-----------------------------------------------------------------------------
(* A handler at work moves, or a request starts one: the two shapes of a   *)
(* step that the next two invariants need.                                 *)

\* Handler c takes a step of its request.
Works(c) ==
    /\ pc[c] \notin Ended
    /\ \A e \in Calls \ {c} : pc'[e] = pc[e] /\ Keeps(e)
    /\ pc'[c] = "over" \/ Keeps(c)
    /\ pc'[c] \in {"refs", "inc", "write"} => pc[c] \in {"check", "refs", "inc"}
    /\ pc'[c] \in SavePC => pc[c] \in SavePC
    /\ disturbed \subseteq disturbed'
    /\ removed \subseteq removed'

\* Handler c is given a request about document d.
Begins(c, d) ==
    /\ pc[c] \in {"idle", "read"}
    /\ pc'[c] \in {"read", "validate", "remove"} /\ target'[c] = d
    /\ \A e \in Calls \ {c} : pc'[e] = pc[e] /\ Keeps(e)
    /\ disturbed \subseteq disturbed'
    /\ pc'[c] # "read" /\ Busy(d) => d \in disturbed'
    /\ pc'[c] = "validate" =>
          loaded'[c].isNew \/ (d \in docs /\ loaded'[c] = Copy(d))
    /\ UNCHANGED <<dbVars, edit, removed>>

LEMMA StepsWork ==
    ASSUME TypeInv, NEW c \in Calls, Steps(c)
    PROVE  Works(c)
<1>1. ASSUME NEW from, NEW to, Moves(c, from, to), from \in SavePC \cup RemovePC,
             to \in {"refs", "inc", "write"} => from \in {"check", "refs", "inc"},
             to \in SavePC => from \in SavePC,
             disturbed \subseteq disturbed', removed \subseteq removed'
      PROVE  Works(c)
  BY <1>1, MovesHandlers DEF Works, SavePC, RemovePC, Ended
<1>2. CASE Validate(c)
  <2>1. PICK to \in {"check", "over"} : Moves(c, "validate", to)
    BY <1>2 DEF Validate
  <2>. QED  BY <1>1, <1>2, <2>1 DEF Validate, SavePC
<1>3. CASE CheckVersion(c)
  <2>1. PICK to \in {"refs", "over"} : Moves(c, "check", to)
    BY <1>3 DEF CheckVersion
  <2>. QED  BY <1>1, <1>3, <2>1 DEF CheckVersion, SavePC
<1>4. CASE CheckRefs(c)
  <2>1. PICK to \in {"inc", "over"} : Moves(c, "refs", to)
    BY <1>4 DEF CheckRefs
  <2>. QED  BY <1>1, <1>4, <2>1 DEF CheckRefs, SavePC
<1>5. CASE IncVersion(c)
  BY <1>1, <1>5 DEF IncVersion, SavePC
<1>6. CASE Insert(c)
  <2>1. PICK to \in {"pull", "over"} : Moves(c, "write", to)
    BY <1>6 DEF Insert
  <2>. QED  BY <1>1, <1>6, <2>1 DEF Insert, SavePC
<1>7. CASE Write(c)
  <2>1. PICK to \in {"pull", "over"} : Moves(c, "write", to)
    BY <1>7 DEF Write
  <2>. QED  BY <1>1, <1>7, <2>1 DEF Write, SavePC
<1>8. CASE PullUpdated(c) \/ PullRemoved(c)
  BY <1>1, <1>8 DEF PullUpdated, PullRemoved, SavePC, RemovePC
<1>9. CASE RemoveDoc(c)
  BY <1>1, <1>9 DEF RemoveDoc, SavePC, RemovePC
<1>10. CASE CallFails(c)
  <2>1. pc[c] \in SavePC \cup RemovePC
    BY <1>10 DEF CallFails, TypeInv, CallsOK, PCs
  <2>. QED  BY <1>1, <1>10, <2>1 DEF CallFails, SavePC
<1>. QED
  BY <1>2, <1>3, <1>4, <1>5, <1>6, <1>7, <1>8, <1>9, <1>10 DEF Steps

LEMMA RequestsBegin ==
    ASSUME TypeInv, NEW c \in Calls, Requests(c)
    PROVE  \E d \in Docs : Begins(c, d)
<1>1. ASSUME NEW d \in Docs, NEW to \in {"validate", "remove"}, NEW chg, NEW v,
             NEW copy, Start(c, d, to, chg, v, copy), UNCHANGED base,
             pc[c] \in {"idle", "read"},
             to = "validate" => copy.isNew \/ (d \in docs /\ copy = Copy(d))
      PROVE  Begins(c, d)
  <2>1. d \in Touched(d, chg)
    BY DEF Touched
  <2>2. disturbed \subseteq disturbed' /\ (Busy(d) => d \in disturbed')
    BY <1>1, <2>1 DEF Start
  <2>3. /\ pc'[c] = to /\ target'[c] = d /\ loaded'[c] = copy
        /\ \A e \in Calls \ {c} : pc'[e] = pc[e] /\ Keeps(e)
        /\ UNCHANGED <<dbVars, edit, removed>>
    BY <1>1 DEF Start, Keeps, TypeInv, CallsOK
  <2>4. pc'[c] = "validate" =>
           loaded'[c].isNew \/ (d \in docs /\ loaded'[c] = Copy(d))
    BY <1>1, <2>3
  <2>5. pc[c] \in {"idle", "read"} /\ pc'[c] \in {"read", "validate", "remove"}
    BY <1>1, <2>3
  <2>. QED  BY <2>2, <2>3, <2>4, <2>5 DEF Begins
<1>2. ASSUME NEW d \in Docs, Read(c, d)
      PROVE  Begins(c, d)
  BY <1>2 DEF Read, Begins, Keeps, TypeInv, CallsOK, dbVars
<1>3. ASSUME NEW d \in Docs, Remove(c, d)
      PROVE  Begins(c, d)
  <2>1. pc[c] \in {"idle", "read"}
    BY <1>3 DEF Remove
  <2>. QED  BY <1>1, <1>3, <2>1 DEF Remove
<1>4. ASSUME NEW d \in Docs, NEW chg \in Changes, Update(c, d, chg)
      PROVE  Begins(c, d)
  <2>1. pc[c] \in {"idle", "read"}
    BY <1>4 DEF Update
  <2>. QED  BY <1>1, <1>4, <2>1 DEF Update
<1>5. ASSUME NEW d \in Docs, NEW chg \in Changes, NEW o \in Orgs,
             Save(c, d, o, chg)
      PROVE  Begins(c, d)
  <2>1. [NoDoc EXCEPT !.isNew = TRUE, !.organization = o].isNew
    BY DEF NoDoc
  <2>2. pc[c] \in {"idle", "read"}
    BY <1>5 DEF Save
  <2>. QED  BY <1>1, <1>5, <2>1, <2>2 DEF Save
<1>. QED  BY <1>2, <1>3, <1>4, <1>5 DEF Requests

LEMMA OneAtWorkNext ==
    ASSUME TypeInv, OneAtWork, [Next]_vars
    PROVE  OneAtWork'
<1>1. ASSUME NEW c \in Calls, Works(c)
      PROVE  OneAtWork'
  <2>1. \A e \in Calls : pc'[e] \notin Ended =>
           pc[e] \notin Ended /\ target'[e] = target[e]
    BY <1>1 DEF Works, Keeps, Ended
  <2>. QED  BY <1>1, <2>1 DEF OneAtWork, Works
<1>2. ASSUME NEW c \in Calls, NEW d \in Docs, Begins(c, d)
      PROVE  OneAtWork'
  <2>1. \A e \in Calls \ {c} : pc'[e] = pc[e] /\ target'[e] = target[e]
    BY <1>2 DEF Begins, Keeps
  <2>2. \A e \in Calls \ {c} :
           pc[e] \notin Ended /\ target[e] = d => Busy(d)
    BY DEF Busy, Touched
  <2>3. target'[c] = d /\ disturbed \subseteq disturbed'
    BY <1>2 DEF Begins
  <2>4. pc'[c] \notin Ended /\ Busy(d) => d \in disturbed'
    BY <1>2 DEF Begins, Ended
  <2>. QED  BY <2>1, <2>2, <2>3, <2>4 DEF OneAtWork
<1>3. CASE UNCHANGED vars
  BY <1>3 DEF vars, callVars, OneAtWork
<1>. QED  BY <1>1, <1>2, <1>3, StepsWork, RequestsBegin DEF Next

\* Where a step edits a document, it is by the handler at work on it.
LEMMA EditsOfWriter ==
    ASSUME TypeInv, NEW c \in Calls, Steps(c)
    PROVE  \/ UNCHANGED edit
           \/ /\ pc[c] = "write" /\ target[c] \in Docs
              /\ \A d \in Docs : d # target[c] => edit'[d] = edit[d]
<1>1. CASE \/ Validate(c) \/ CheckVersion(c) \/ CheckRefs(c) \/ IncVersion(c)
           \/ PullUpdated(c) \/ RemoveDoc(c) \/ PullRemoved(c) \/ CallFails(c)
  BY <1>1 DEF Validate, CheckVersion, CheckRefs, IncVersion, PullUpdated,
              RemoveDoc, PullRemoved, CallFails
<1>2. CASE Insert(c) \/ Write(c)
  <2>1. pc[c] = "write"
    BY <1>2 DEF Insert, Write, Moves
  <2>2. target[c] \in Docs /\ edit \in [Docs -> Calls \cup {None}]
    BY <2>1 DEF TypeInv, CallsOK, DocsOK
  <2>. QED  BY <1>2, <2>1, <2>2 DEF Insert, Write
<1>. QED  BY <1>1, <1>2 DEF Steps

LEMMA CheckedNext ==
    ASSUME PastInv, NothingCounted, OneAtWork, CheckedIsRead, [Next]_vars
    PROVE  CheckedIsRead'
<1>a. TypeInv /\ ReadsArePast /\ LoadsArePast
  BY DEF PastInv
<1>1. ASSUME NEW c \in Calls, Steps(c)
      PROVE  CheckedIsRead'
  <2>1. Works(c)
    BY <1>1, <1>a, StepsWork
  <2>. SUFFICES ASSUME NEW a \in Calls,
                       pc'[a] \in {"refs", "inc", "write"}, base'[a].rest,
                       target'[a] \notin disturbed' \cup removed'
                PROVE  edit'[target'[a]] = base'[a].edit
    BY DEF CheckedIsRead
  <2>2. Keeps(a)
    BY <2>1 DEF Works
  <2>3. target[a] \notin disturbed \cup removed /\ base[a].rest
    BY <2>1, <2>2 DEF Works, Keeps
  <2>4. pc[a] \in {"check", "refs", "inc", "write"}
    BY <2>1 DEF Works
  <2>5. target[a] \in Docs
    BY <1>a, <2>4 DEF TypeInv, CallsOK
  <2>6. edit'[target[a]] = edit[target[a]]
    <3>1. CASE a = c
      <4>1. pc[c] # "write"
        BY <2>1, <3>1 DEF Works
      <4>. QED  BY <1>1, <1>a, <4>1, EditsOfWriter
    <3>2. CASE a # c
      <4>1. pc[a] \notin Ended
        BY <2>4 DEF Ended
      <4>2. target[c] # target[a]
        BY <2>1, <2>3, <3>2, <4>1 DEF OneAtWork, Works
      <4>. QED  BY <1>1, <1>a, <2>5, <4>2, EditsOfWriter
    <3>. QED  BY <3>1, <3>2
  <2>7. edit[target[a]] = base[a].edit
    <3>1. CASE pc[a] \in {"refs", "inc", "write"}
      BY <2>3, <3>1 DEF CheckedIsRead
    <3>2. CASE pc[a] = "check"
      <4>1. a = c
        BY <2>1, <3>2 DEF Works
      <4>2. pc'[c] = IF target[c] \notin docs \/ ClientVersion(c) = version[target[c]]
                     THEN "refs" ELSE "over"
        <5>1. pc[c] = "check" /\ c \in DOMAIN pc
          BY <1>a, <3>2, <4>1 DEF TypeInv, CallsOK
        <5>2. CASE CheckVersion(c)
          BY <5>1, <5>2 DEF CheckVersion, Moves
        <5>3. CASE CallFails(c)
          BY <4>1, <5>1, <5>3 DEF CallFails, Moves
        <5>. QED
          BY <1>1, <5>1, <5>2, <5>3
          DEF Steps, Moves, Validate, CheckRefs, IncVersion, Insert, Write,
              PullUpdated, RemoveDoc, PullRemoved
      <4>3. base[c].version # None /\ target[c] \in docs
        BY <1>a, <2>3, <4>1 DEF ReadsArePast
      <4>4. sent[c] = base[c].version
        BY <1>a, <3>2, <4>1 DEF LoadsArePast, SavePC
      <4>5. version[target[c]] = base[c].version
        BY <4>1, <4>2, <4>3, <4>4 DEF ClientVersion
      <4>. QED  BY <2>3, <4>1, <4>3, <4>5 DEF NothingCounted
    <3>. QED  BY <2>4, <3>1, <3>2
  <2>. QED  BY <2>2, <2>6, <2>7 DEF Keeps
<1>2. ASSUME NEW c \in Calls, Requests(c)
      PROVE  CheckedIsRead'
  <2>1. PICK d \in Docs : Begins(c, d)
    BY <1>2, <1>a, RequestsBegin
  <2>2. \A a \in Calls : pc'[a] \in {"refs", "inc", "write"} =>
           Keeps(a) /\ pc'[a] = pc[a]
    BY <2>1 DEF Begins
  <2>. QED  BY <2>1, <2>2 DEF CheckedIsRead, Keeps, Begins
<1>3. CASE UNCHANGED vars
  BY <1>3 DEF vars, callVars, CheckedIsRead
<1>. QED  BY <1>1, <1>2, <1>3 DEF Next

ReadInv == PastInv /\ NothingCounted /\ OneAtWork /\ CheckedIsRead

LEMMA ReadInvInit == Init => ReadInv
BY PastInit DEF Init, ReadInv, NothingCounted, OneAtWork, CheckedIsRead, NoBase, Ended

LEMMA ReadInvNext == ReadInv /\ [Next]_vars => ReadInv'
BY PastNext, CountedNext, OneAtWorkNext, CheckedNext DEF ReadInv, PastInv

\* Where handlers came one after the other, an update sent with the version
\* that its client read writes over nothing else.
THEOREM SerialUpdatesKeep == Spec => SerialUpdatesKeepEdits
<1>1. ReadInv => \A c \in Calls :
         /\ pc[c] = "write"
         /\ base[c].rest
         /\ target[c] \notin disturbed \cup removed
         => edit[target[c]] = base[c].edit
  BY DEF ReadInv, CheckedIsRead
<1>2. ReadInv /\ [Next]_vars => [\A c \in Calls :
         /\ pc[c] = "write" /\ pc'[c] = "pull"
         /\ base[c].rest
         /\ target[c] \notin disturbed \cup removed
         => edit[target[c]] = base[c].edit]_vars
  BY <1>1
<1>. QED  BY <1>2, ReadInvInit, ReadInvNext, PTL DEF Spec, SerialUpdatesKeepEdits

-----------------------------------------------------------------------------
(* __v stands for one list of members, less those taken off since.         *)

\* A step leaves the list of a document that stays, or takes members off, or
\* raises __v.
ListKept(d) ==
    \/ arrayVersion'[d] > arrayVersion[d]
    \/ /\ arrayVersion'[d] = arrayVersion[d]
       /\ fields'[d].locations \subseteq fields[d].locations

LEMMA StepsKeepLists ==
    ASSUME TypeInv, NEW c \in Calls, Steps(c), NEW d \in docs \cap docs'
    PROVE  ListKept(d)
<1>a. /\ fields \in [Docs -> Fields] /\ arrayVersion \in [Docs -> Nat]
      /\ d \in Docs
  BY DEF TypeInv, DocsOK
<1>1. ASSUME UNCHANGED arrayVersion, fields'[d] = fields[d]
      PROVE  ListKept(d)
  BY <1>1 DEF ListKept
<1>2. CASE \/ Validate(c) \/ CheckVersion(c) \/ CheckRefs(c) \/ IncVersion(c)
           \/ CallFails(c)
  BY <1>1, <1>2 DEF Validate, CheckVersion, CheckRefs, IncVersion, CallFails, dbVars
<1>3. CASE Insert(c)
  <2>1. CASE target[c] \in docs
    BY <1>1, <1>3, <2>1 DEF Insert, dbVars
  <2>2. CASE target[c] \notin docs
    BY <1>a, <1>3, <2>2 DEF Insert, ListKept
  <2>. QED  BY <2>1, <2>2
<1>4. CASE Write(c)
  <2>1. CASE Refused(c) \/ d # target[c]
    BY <1>a, <1>1, <1>4, <2>1 DEF Write, ListKept
  <2>2. CASE ~Refused(c) /\ d = target[c]
    <3>1. fields'[d] = With(fields[d], change[c], Effective(c))
      BY <1>a, <1>4, <2>2 DEF Write
    <3>2. "locations" \notin Effective(c) =>
             fields'[d].locations = fields[d].locations
      BY <3>1 DEF With
    <3>3. arrayVersion' = IF "locations" \in Effective(c)
                          THEN [arrayVersion EXCEPT ![target[c]] = @ + 1]
                          ELSE arrayVersion
      BY <1>4, <2>2 DEF Write
    <3>. QED  BY <1>a, <2>2, <3>2, <3>3 DEF ListKept
  <2>. QED  BY <2>1, <2>2
<1>5. CASE PullUpdated(c) \/ PullRemoved(c)
  <2>1. UNCHANGED arrayVersion
    BY <1>5 DEF PullUpdated, PullRemoved
  <2>2. UNCHANGED fields \/ Pull(target[c])
    BY <1>5 DEF PullUpdated, PullRemoved
  <2>3. fields'[d].locations \subseteq fields[d].locations
    BY <1>a, <2>2 DEF Pull, Fields
  <2>. QED  BY <2>1, <2>3 DEF ListKept
<1>6. CASE RemoveDoc(c)
  BY <1>a, <1>1, <1>6 DEF RemoveDoc
<1>. QED  BY <1>2, <1>3, <1>4, <1>5, <1>6 DEF Steps

LEMMA ListsInit == Init => ListsShrink
BY DEF Init, ListsShrink, SavePC

LEMMA ListsNext ==
    ASSUME PastInv, PastInv', ListsShrink, [Next]_vars
    PROVE  ListsShrink'
<1>a. TypeInv /\ LoadsArePast
  BY DEF PastInv
<1>b. /\ docs \subseteq Docs
      /\ arrayVersion \in [Docs -> Nat] /\ arrayVersion' \in [Docs -> Nat]
  BY DEF PastInv, TypeInv, DocsOK
<1>c. \A a \in Calls : loaded[a].arrayVersion \in Nat
  <2>1. \A r \in Copies \cup {NoDoc} : r.arrayVersion \in Nat
    BY DEF Copies, NoDoc
  <2>. QED  BY <1>a, <2>1 DEF TypeInv, CallsOK
<1>1. ASSUME NEW c \in Calls, Steps(c)
      PROVE  ListsShrink'
  <2>1. Works(c)
    BY <1>1, <1>a, StepsWork
  <2>. SUFFICES ASSUME NEW a \in Calls, pc'[a] \in SavePC, ~loaded'[a].isNew,
                       target'[a] \in docs' \ removed'
                PROVE  /\ loaded'[a].arrayVersion <= arrayVersion'[target'[a]]
                       /\ loaded'[a].arrayVersion = arrayVersion'[target'[a]] =>
                             fields'[target'[a]].locations
                                \subseteq loaded'[a].fields.locations
    BY DEF ListsShrink
  <2>2. Keeps(a) /\ pc[a] \in SavePC
    BY <2>1 DEF Works, SavePC
  <2>3. target[a] \in docs \ removed /\ target[a] \in docs'
    BY <1>a, <2>1, <2>2 DEF LoadsArePast, Keeps, Works
  <2>4. /\ loaded[a].arrayVersion <= arrayVersion[target[a]]
        /\ loaded[a].arrayVersion = arrayVersion[target[a]] =>
              fields[target[a]].locations \subseteq loaded[a].fields.locations
    BY <2>2, <2>3 DEF ListsShrink, Keeps
  <2>5. ListKept(target[a])
    BY <1>1, <1>a, <2>3, StepsKeepLists
  <2>6. /\ arrayVersion[target[a]] \in Nat /\ arrayVersion'[target[a]] \in Nat
        /\ loaded[a].arrayVersion \in Nat
    BY <1>b, <1>c, <2>3
  <2>7. /\ loaded[a].arrayVersion <= arrayVersion'[target[a]]
        /\ loaded[a].arrayVersion = arrayVersion'[target[a]] =>
              fields'[target[a]].locations \subseteq loaded[a].fields.locations
    BY <2>4, <2>5, <2>6 DEF ListKept
  <2>. QED  BY <2>2, <2>7 DEF Keeps
<1>2. ASSUME NEW c \in Calls, Requests(c)
      PROVE  ListsShrink'
  <2>1. PICK d \in Docs : Begins(c, d)
    BY <1>2, <1>a, RequestsBegin
  <2>. SUFFICES ASSUME NEW a \in Calls, pc'[a] \in SavePC, ~loaded'[a].isNew,
                       target'[a] \in docs' \ removed'
                PROVE  /\ loaded'[a].arrayVersion <= arrayVersion'[target'[a]]
                       /\ loaded'[a].arrayVersion = arrayVersion'[target'[a]] =>
                             fields'[target'[a]].locations
                                \subseteq loaded'[a].fields.locations
    BY DEF ListsShrink
  <2>2. UNCHANGED <<docs, fields, arrayVersion, removed>>
    BY <2>1 DEF Begins, dbVars
  <2>3. CASE a = c
    <3>1. target'[c] = d /\ loaded'[c] = Copy(d)
      BY <2>1, <2>3 DEF Begins, SavePC
    <3>2. Copy(d).arrayVersion = arrayVersion[d] /\ Copy(d).fields = fields[d]
      BY DEF Copy
    <3>3. arrayVersion[d] \in Nat
      BY <1>b
    <3>. QED  BY <2>2, <2>3, <3>1, <3>2, <3>3
  <2>4. CASE a # c
    <3>1. pc'[a] = pc[a] /\ Keeps(a)
      BY <2>1, <2>4 DEF Begins
    <3>. QED  BY <2>2, <3>1 DEF ListsShrink, Keeps
  <2>. QED  BY <2>3, <2>4
<1>3. CASE UNCHANGED vars
  BY <1>3 DEF vars, dbVars, callVars, ListsShrink
<1>. QED  BY <1>1, <1>2, <1>3 DEF Next

ListInv == PastInv /\ ListsShrink

\* Of two overlapping updates of a list of members one is refused.
THEOREM ListWritesDoConflict == Spec => ListWritesConflict
<1>1. Init => ListInv
  BY PastInit, ListsInit DEF ListInv
<1>2. ListInv /\ [Next]_vars => ListInv'
  BY PastNext, ListsNext DEF ListInv
<1>3. ListInv /\ [Next]_vars => [\A c \in Calls :
          /\ pc[c] = "write" /\ pc'[c] = "pull" /\ ~loaded[c].isNew
          /\ "locations" \in Effective(c)
          /\ target[c] \notin removed
          => fields[target[c]].locations \subseteq loaded[c].fields.locations]_vars
  <2>. SUFFICES ASSUME ListInv, Next, NEW c \in Calls,
                       pc[c] = "write", pc'[c] = "pull", ~loaded[c].isNew,
                       "locations" \in Effective(c), target[c] \notin removed
                PROVE  fields[target[c]].locations \subseteq loaded[c].fields.locations
    OBVIOUS
  <2>1. TypeInv /\ ListsShrink
    BY DEF ListInv, PastInv
  <2>2. Steps(c)
    <3>1. ASSUME NEW e \in Calls, Requests(e)
          PROVE  FALSE
      <4>1. PICK d \in Docs : Begins(e, d)
        BY <2>1, <3>1, RequestsBegin
      <4>. QED  BY <4>1 DEF Begins
    <3>2. ASSUME NEW e \in Calls, e # c
          PROVE  ~Steps(e)
      <4>1. Works(e) => pc'[c] = pc[c]
        BY <3>2 DEF Works
      <4>. QED  BY <2>1, <4>1, StepsWork
    <3>. QED  BY <3>1, <3>2 DEF Next
  <2>3. Write(c)
    <3>1. c \in DOMAIN pc
      BY <2>1 DEF TypeInv, CallsOK
    <3>2. ~CallFails(c)
      BY <3>1 DEF CallFails, Moves
    <3>. QED
      BY <2>2, <3>2 DEF Steps, Moves, Validate, CheckVersion, CheckRefs, IncVersion,
                        Insert, PullUpdated, RemoveDoc, PullRemoved
  <2>4. ~Refused(c)
    BY <2>1, <2>3 DEF Write, Moves, TypeInv, CallsOK
  <2>. QED  BY <2>1, <2>4 DEF Refused, ListsShrink, SavePC
<1>. QED  BY <1>1, <1>2, <1>3, PTL DEF Spec, ListWritesConflict

-----------------------------------------------------------------------------
(* Members.  The handlers that work on a document, as the one they save or *)
(* as a member of it, work alone on it or disturb it; so what the          *)
(* validation and the hooks have found still holds at the write, and a     *)
(* list may only hold a location whose own handler is about to take it off.*)

Members(c) ==
    IF "locations" \in DOMAIN change[c] THEN change[c]["locations"] ELSE {}
Holds(c) == {target[c]} \cup Members(c)

Apart ==
    \A c, e \in Calls :
        c # e /\ pc[c] \notin Ended /\ pc[e] \notin Ended =>
            Holds(c) \cap Holds(e) \subseteq disturbed

\* Handler c is about to take m off every list.
Leaves(c, m) ==
    /\ target[c] = m
    /\ \/ pc[c] = "clean"
       \/ pc[c] = "pull" /\ ~(Saved(c).published /\ Saved(c).publicResource)

SameFlags(r, s) ==
    r.published = s.published /\ r.publicResource = s.publicResource

\* The document that handler c saves: as it was loaded before the write, as it
\* was saved after it.
Saves(c) ==
    LET d == target[c] IN
    /\ loaded[c].isNew => loaded[c].fields.locations = {}
    /\ ~loaded[c].isNew => d \in docs /\ organization[d] = loaded[c].organization
    /\ ~loaded[c].isNew /\ pc[c] # "pull" => SameFlags(fields[d], loaded[c].fields)
    /\ pc[c] # "validate" => (Saved(c).publicResource => Saved(c).published)
    /\ pc[c] = "pull" => d \in docs /\ SameFlags(fields[d], Saved(c))

\* The members it is about to write: validated, and then of the workspace.
Validated(c) ==
    \A m \in Members(c) \ disturbed :
        /\ pc[c] \in {"check", "refs", "inc", "write"} => m \in docs
        /\ pc[c] \in {"inc", "write"} => MayRefer(loaded[c].organization, m)

Saving(c) ==
    pc[c] \in SavePC /\ target[c] \notin disturbed => Saves(c) /\ Validated(c)

Belongs(k, m) ==
    \/ m \in docs /\ MayRefer(organization[k], m)
    \/ \E c \in Calls : Leaves(c, m)

Whole(k) ==
    /\ fields[k].publicResource => fields[k].published
    /\ \A m \in fields[k].locations \ disturbed : Belongs(k, m)

MembersInv ==
    /\ Apart
    /\ \A c \in Calls : Saving(c)
    /\ \A k \in docs \ disturbed : Whole(k)

LEMMA HoldsTouched ==
    ASSUME NEW c \in Calls
    PROVE  Holds(c) = Touched(target[c], change[c])
BY DEF Holds, Members, Touched

LEMMA MembersType ==
    ASSUME TypeInv
    PROVE  /\ \A c \in Calls : Members(c) \subseteq Docs
           /\ \A c \in Calls : pc[c] \notin Ended => target[c] \in Docs
           /\ \A k \in Docs : fields[k].locations \subseteq Docs
<1>1. \A c \in Calls : change[c] \in Changes \cup {NoChange}
  BY DEF TypeInv, CallsOK
<1>2. \A c \in Calls : Members(c) \subseteq Docs
  BY <1>1, LocationsAssumption DEF Members, NoChange
<1>. QED  BY <1>2 DEF TypeInv, CallsOK, DocsOK, Ended, Fields

\* A handler that keeps its request keeps what follows from it.
LEMMA KeepsHeld ==
    ASSUME NEW e \in Calls, Keeps(e)
    PROVE  /\ Members(e)' = Members(e) /\ Holds(e)' = Holds(e)
           /\ Saved(e)' = Saved(e)
           /\ pc'[e] = pc[e] => \A m : Leaves(e, m)' <=> Leaves(e, m)
BY DEF Keeps, Members, Holds, Saved, Leaves

\* A request that arrives disturbs what others hold of its documents.
LEMMA RequestsDisturb ==
    ASSUME TypeInv, NEW c \in Calls, Requests(c)
    PROVE  /\ \A x \in Holds(c)' : pc'[c] \notin Ended /\ Busy(x) => x \in disturbed'
           /\ pc'[c] = "validate" /\ loaded'[c].isNew => loaded'[c].fields.locations = {}
<1>1. ASSUME NEW d \in Docs, NEW to, NEW chg, NEW v, NEW copy,
             Start(c, d, to, chg, v, copy), UNCHANGED base
      PROVE  \A x \in Holds(c)' : Busy(x) => x \in disturbed'
  <2>1. target'[c] = d /\ change'[c] = chg
    BY <1>1, StartHandlers
  <2>2. Holds(c)' = Touched(d, chg)
    BY <2>1 DEF Holds, Members, Touched
  <2>. QED  BY <1>1, <2>2 DEF Start
<1>2. ASSUME NEW d \in Docs, Read(c, d)
      PROVE  pc'[c] = "read"
  BY <1>2 DEF Read, TypeInv, CallsOK
<1>3. \A x \in Holds(c)' : pc'[c] \notin Ended /\ Busy(x) => x \in disturbed'
  <2>1. ASSUME NEW d \in Docs, Remove(c, d)
        PROVE  \A x \in Holds(c)' : Busy(x) => x \in disturbed'
    BY <1>1, <2>1 DEF Remove
  <2>2. ASSUME NEW d \in Docs, NEW chg \in Changes, Update(c, d, chg)
        PROVE  \A x \in Holds(c)' : Busy(x) => x \in disturbed'
    BY <1>1, <2>2 DEF Update
  <2>3. ASSUME NEW d \in Docs, NEW chg \in Changes, NEW o \in Orgs, Save(c, d, o, chg)
        PROVE  \A x \in Holds(c)' : Busy(x) => x \in disturbed'
    BY <1>1, <2>3 DEF Save
  <2>. QED  BY <1>2, <2>1, <2>2, <2>3 DEF Requests, Ended
<1>4. pc'[c] = "validate" /\ loaded'[c].isNew => loaded'[c].fields.locations = {}
  <2>1. ASSUME NEW d \in Docs, Remove(c, d)
        PROVE  pc'[c] = "remove"
    <3>1. Start(c, d, "remove", NoChange, None, Copy(d)) /\ UNCHANGED base
      BY <2>1 DEF Remove
    <3>. QED  BY <3>1, StartHandlers
  <2>2. ASSUME NEW d \in Docs, NEW chg \in Changes, Update(c, d, chg)
        PROVE  ~loaded'[c].isNew
    <3>1. Start(c, d, "validate", chg, base[c].version, Copy(d)) /\ UNCHANGED base
      BY <2>2 DEF Update
    <3>2. loaded'[c] = Copy(d)
      BY <3>1, StartHandlers
    <3>. QED  BY <3>2 DEF Copy
  <2>3. ASSUME NEW d \in Docs, NEW chg \in Changes, NEW o \in Orgs, Save(c, d, o, chg)
        PROVE  loaded'[c].fields.locations = {}
    <3>1. /\ Start(c, d, "validate", chg, None,
                   [NoDoc EXCEPT !.isNew = TRUE, !.organization = o])
          /\ UNCHANGED base
      BY <2>3 DEF Save
    <3>2. loaded'[c] = [NoDoc EXCEPT !.isNew = TRUE, !.organization = o]
      BY <3>1, StartHandlers
    <3>. QED  BY <3>2 DEF NoDoc, Draft
  <2>. QED  BY <1>2, <2>1, <2>2, <2>3 DEF Requests
<1>. QED  BY <1>3, <1>4

LEMMA ApartNext ==
    ASSUME TypeInv, Apart, [Next]_vars
    PROVE  Apart'
<1>1. ASSUME NEW c \in Calls, Steps(c)
      PROVE  Apart'
  <2>1. Works(c)
    BY <1>1, StepsWork
  <2>2. \A e \in Calls : pc'[e] \notin Ended =>
           pc[e] \notin Ended /\ Holds(e)' = Holds(e)
    BY <2>1, KeepsHeld DEF Works, Ended
  <2>3. disturbed \subseteq disturbed'
    BY <2>1 DEF Works
  <2>. QED  BY <2>2, <2>3 DEF Apart
<1>2. ASSUME NEW c \in Calls, Requests(c)
      PROVE  Apart'
  <2>1. PICK d \in Docs : Begins(c, d)
    BY <1>2, RequestsBegin
  <2>2. disturbed \subseteq disturbed'
    BY <2>1 DEF Begins
  <2>3. \A e \in Calls \ {c} : pc'[e] = pc[e] /\ Holds(e)' = Holds(e)
    BY <2>1, KeepsHeld DEF Begins
  <2>4. \A e \in Calls \ {c} : pc[e] \notin Ended => \A x \in Holds(e) : Busy(x)
    BY HoldsTouched DEF Busy
  <2>5. \A x \in Holds(c)' : pc'[c] \notin Ended /\ Busy(x) => x \in disturbed'
    BY <1>2, RequestsDisturb
  <2>6. ASSUME NEW a \in Calls, NEW e \in Calls, a # e,
               pc'[a] \notin Ended, pc'[e] \notin Ended
        PROVE  Holds(a)' \cap Holds(e)' \subseteq disturbed'
    <3>1. CASE a = c
      BY <2>3, <2>4, <2>5, <2>6, <3>1
    <3>2. CASE e = c
      BY <2>3, <2>4, <2>5, <2>6, <3>2
    <3>3. CASE a # c /\ e # c
      BY <2>2, <2>3, <2>6, <3>3 DEF Apart
    <3>. QED  BY <3>1, <3>2, <3>3
  <2>. QED  BY <2>6 DEF Apart
<1>3. CASE UNCHANGED vars
  BY <1>3 DEF vars, callVars, Apart, Holds, Members
<1>. QED  BY <1>1, <1>2, <1>3 DEF Next

\* A step changes no document but the one its handler works on, except that it
\* takes that one off the lists.
LEMMA StepsElsewhere ==
    ASSUME TypeInv, NEW c \in Calls, Steps(c)
    PROVE  /\ \A x : x # target[c] => (x \in docs' <=> x \in docs)
           /\ \A x \in Docs : x # target[c] =>
                 /\ organization'[x] = organization[x]
                 /\ SameFlags(fields'[x], fields[x])
                 /\ fields'[x].locations \subseteq fields[x].locations
<1>a. /\ fields \in [Docs -> Fields] /\ organization \in [Docs -> Orgs]
      /\ \A x \in Docs : SameFlags(fields[x], fields[x])
  BY DEF TypeInv, DocsOK, SameFlags
<1>1. CASE UNCHANGED <<docs, fields, organization>>
  BY <1>1, <1>a
<1>2. CASE \/ Validate(c) \/ CheckVersion(c) \/ CheckRefs(c) \/ IncVersion(c)
           \/ CallFails(c)
  BY <1>1, <1>2 DEF Validate, CheckVersion, CheckRefs, IncVersion, CallFails, dbVars
<1>3. CASE Insert(c)
  BY <1>3, <1>a DEF Insert, dbVars
<1>4. CASE Write(c)
  BY <1>4, <1>a DEF Write
<1>5. CASE PullUpdated(c) \/ PullRemoved(c)
  <2>1. UNCHANGED <<docs, organization>>
    BY <1>5 DEF PullUpdated, PullRemoved
  <2>2. CASE Pull(target[c])
    <3>1. \A x \in Docs : fields'[x] = [fields[x] EXCEPT !.locations = @ \ {target[c]}]
      BY <2>2 DEF Pull
    <3>2. \A x \in Docs : fields[x] \in Fields
      BY <1>a
    <3>3. ASSUME NEW x \in Docs
          PROVE  /\ SameFlags(fields'[x], fields[x])
                 /\ fields'[x].locations \subseteq fields[x].locations
      <4>1. fields[x] \in Fields
        BY <3>2
      <4>2. fields'[x] = [fields[x] EXCEPT !.locations = @ \ {target[c]}]
        BY <3>1
      <4>3. /\ fields'[x].published = fields[x].published
            /\ fields'[x].publicResource = fields[x].publicResource
            /\ fields'[x].locations = fields[x].locations \ {target[c]}
        BY <4>1, <4>2 DEF Fields
      <4>. QED  BY <4>3 DEF SameFlags
    <3>. QED  BY <2>1, <3>3
  <2>3. UNCHANGED fields \/ Pull(target[c])
    BY <1>5 DEF PullUpdated, PullRemoved
  <2>. QED  BY <1>1, <2>1, <2>2, <2>3
<1>6. CASE RemoveDoc(c)
  BY <1>6, <1>a DEF RemoveDoc
<1>. QED  BY <1>2, <1>3, <1>4, <1>5, <1>6 DEF Steps

\* The step of one handler leaves what another works on as it found it.
LEMMA SavingOfOthers ==
    ASSUME TypeInv, Apart, NEW c \in Calls, Steps(c),
           NEW e \in Calls \ {c}, Saving(e)
    PROVE  Saving(e)'
<1>. SUFFICES ASSUME pc'[e] \in SavePC, target'[e] \notin disturbed'
              PROVE  Saves(e)' /\ Validated(e)'
  BY DEF Saving
<1>1. Works(c) /\ pc'[e] = pc[e] /\ Keeps(e) /\ disturbed \subseteq disturbed'
  BY StepsWork DEF Works
<1>2. pc[e] \in SavePC /\ target[e] \notin disturbed /\ target'[e] = target[e]
  BY <1>1 DEF Keeps
<1>3. Saves(e) /\ Validated(e)
  BY <1>2 DEF Saving
<1>4. pc[c] \notin Ended /\ pc[e] \notin Ended
  BY <1>1, <1>2 DEF Works, Ended, SavePC
<1>5. \A x \in Holds(e) \ disturbed' : x # target[c]
  BY <1>1, <1>4 DEF Apart, Holds
<1>6. \A x \in Holds(e) : x \in Docs
  BY <1>4, MembersType DEF Holds
<1>7. \A x \in Holds(e) \ disturbed' :
         /\ x \in docs' <=> x \in docs
         /\ organization'[x] = organization[x]
         /\ SameFlags(fields'[x], fields[x])
  BY <1>5, <1>6, StepsElsewhere
<1>8. Saves(e)'
  <2>1. target[e] \in Holds(e) \ disturbed'
    BY <1>2 DEF Holds
  <2>2. /\ target[e] \in docs' <=> target[e] \in docs
        /\ organization'[target[e]] = organization[target[e]]
        /\ SameFlags(fields'[target[e]], fields[target[e]])
    BY <1>7, <2>1
  <2>3. Saved(e)' = Saved(e) /\ loaded'[e] = loaded[e]
    BY <1>1, KeepsHeld DEF Keeps
  <2>. QED  BY <1>1, <1>2, <1>3, <2>2, <2>3 DEF Saves, SameFlags
<1>9. Validated(e)'
  <2>1. Members(e)' = Members(e) /\ loaded'[e] = loaded[e]
    BY <1>1, KeepsHeld DEF Keeps
  <2>2. Members(e) \subseteq Holds(e)
    BY DEF Holds
  <2>3. ASSUME NEW m \in Members(e) \ disturbed',
               pc[e] \in {"inc", "write"}
        PROVE  (organization[m] = loaded[e].organization \/ fields[m].publicResource)'
    <3>1. MayRefer(loaded[e].organization, m)
      BY <1>1, <1>3, <2>3 DEF Validated
    <3>. QED  BY <1>7, <2>1, <2>2, <2>3, <3>1 DEF MayRefer, SameFlags
  <2>4. ASSUME NEW m \in Members(e) \ disturbed',
               pc[e] \in {"check", "refs", "inc", "write"}
        PROVE  m \in docs'
    BY <1>1, <1>3, <1>7, <2>2, <2>4 DEF Validated
  <2>. QED  BY <1>1, <2>1, <2>3, <2>4 DEF Validated, MayRefer
<1>. QED  BY <1>8, <1>9

\* The fields of the stored document after an update are those of the copy.
LEMMA WithFlags ==
    ASSUME TypeInv, NEW c \in Calls, NEW r \in Fields,
           SameFlags(r, loaded[c].fields)
    PROVE  /\ SameFlags(With(r, change[c], Effective(c)), Saved(c))
           /\ With(r, change[c], Effective(c)).locations =
                 IF "locations" \in Effective(c) THEN Members(c) ELSE r.locations
BY DEF SameFlags, With, Saved, Effective, Members

\* Each step finds what the next one relies on.
LEMMA SavingOfOwn ==
    ASSUME TypeInv, NEW c \in Calls, Steps(c), Saving(c)
    PROVE  Saving(c)'
<1>. SUFFICES ASSUME pc'[c] \in SavePC, target'[c] \notin disturbed'
              PROVE  Saves(c)' /\ Validated(c)'
  BY DEF Saving
<1>1. Works(c)
  BY StepsWork
<1>2. Keeps(c) /\ pc[c] \in SavePC /\ disturbed \subseteq disturbed'
  BY <1>1 DEF Works, SavePC
<1>3. /\ Saved(c)' = Saved(c) /\ Members(c)' = Members(c)
      /\ target'[c] = target[c] /\ loaded'[c] = loaded[c]
  BY <1>2, KeepsHeld DEF Keeps
<1>4. Saves(c) /\ Validated(c) /\ target[c] \in Docs
  BY <1>2, <1>3, MembersType DEF Saving, Ended, SavePC
<1>5. fields \in [Docs -> Fields] /\ c \in DOMAIN pc
  BY DEF TypeInv, DocsOK, CallsOK
<1>6. CASE Validate(c)
  <2>1. /\ pc[c] = "validate" /\ pc'[c] = "check"
        /\ Saved(c).publicResource => Saved(c).published
        /\ Saved(c).locations \subseteq docs
    BY <1>5, <1>6 DEF Validate, Moves, SavePC
  <2>2. UNCHANGED <<docs, fields, organization>>
    BY <1>6 DEF Validate, dbVars
  <2>3. Members(c) \subseteq docs
    BY <2>1 DEF Members, Saved, With
  <2>. QED  BY <1>2, <1>3, <1>4, <2>1, <2>2, <2>3 DEF Saves, Validated
<1>7. CASE CheckVersion(c)
  <2>1. pc[c] = "check" /\ pc'[c] = "refs"
    BY <1>5, <1>7 DEF CheckVersion, Moves, SavePC
  <2>2. UNCHANGED <<docs, fields, organization>>
    BY <1>7 DEF CheckVersion, dbVars
  <2>. QED  BY <1>2, <1>3, <1>4, <2>1, <2>2 DEF Saves, Validated
<1>8. CASE CheckRefs(c)
  <2>1. /\ pc[c] = "refs" /\ pc'[c] = "inc"
        /\ \A m \in Saved(c).locations \cap docs : MayRefer(loaded[c].organization, m)
    BY <1>5, <1>8 DEF CheckRefs, Moves, SavePC
  <2>2. UNCHANGED <<docs, fields, organization>>
    BY <1>8 DEF CheckRefs, dbVars
  <2>3. Members(c) \subseteq Saved(c).locations
    BY DEF Members, Saved, With
  <2>4. Saves(c)'
    BY <1>3, <1>4, <2>1, <2>2 DEF Saves
  <2>5. \A m \in Members(c) \ disturbed : m \in docs /\ MayRefer(loaded[c].organization, m)
    BY <1>4, <2>1, <2>3 DEF Validated
  <2>. QED  BY <1>2, <1>3, <2>1, <2>2, <2>4, <2>5 DEF Validated, MayRefer
<1>9. CASE IncVersion(c)
  <2>1. pc[c] = "inc" /\ pc'[c] = "write"
    BY <1>5, <1>9 DEF IncVersion, Moves
  <2>2. UNCHANGED <<docs, fields, organization>>
    BY <1>9 DEF IncVersion
  <2>3. Saves(c)'
    BY <1>3, <1>4, <2>1, <2>2 DEF Saves
  <2>. QED  BY <1>2, <1>3, <1>4, <2>1, <2>2, <2>3 DEF Validated, MayRefer
<1>10. CASE Insert(c)
  <2>1. loaded[c].isNew /\ pc[c] = "write" /\ pc'[c] = "pull" /\ target[c] \notin docs
    BY <1>5, <1>10 DEF Insert, Moves, SavePC
  <2>2. target[c] \in docs' /\ fields'[target[c]] = Saved(c)
    BY <1>4, <1>5, <1>10, <2>1 DEF Insert
  <2>. QED  BY <1>3, <1>4, <2>1, <2>2 DEF Saves, Validated, SameFlags
<1>11. CASE Write(c)
  <2>1. ~loaded[c].isNew /\ pc[c] = "write" /\ pc'[c] = "pull" /\ ~Refused(c)
    BY <1>5, <1>11 DEF Write, Moves, SavePC
  <2>2. /\ fields'[target[c]] = With(fields[target[c]], change[c], Effective(c))
        /\ UNCHANGED <<docs, organization>>
    BY <1>4, <1>5, <1>11, <2>1 DEF Write
  <2>3. SameFlags(fields[target[c]], loaded[c].fields)
    BY <1>4, <2>1 DEF Saves
  <2>4. SameFlags(fields'[target[c]], Saved(c))
    BY <1>4, <1>5, <2>2, <2>3, WithFlags
  <2>. QED  BY <1>3, <1>4, <2>1, <2>2, <2>4 DEF Saves, Validated
<1>12. CASE PullUpdated(c) \/ PullRemoved(c) \/ CallFails(c)
  BY <1>5, <1>12 DEF PullUpdated, PullRemoved, CallFails, Moves, SavePC
<1>13. CASE RemoveDoc(c)
  BY <1>5, <1>13 DEF RemoveDoc, Moves, SavePC
<1>. QED
  BY <1>6, <1>7, <1>8, <1>9, <1>10, <1>11, <1>12, <1>13 DEF Steps

\* A request starts from the document as it stands.
LEMMA SavingOfRequest ==
    ASSUME TypeInv, NEW c \in Calls, Requests(c), NEW e \in Calls, Saving(e)
    PROVE  Saving(e)'
<1>1. PICK d \in Docs : Begins(c, d)
  BY RequestsBegin
<1>2. UNCHANGED <<docs, fields, organization>> /\ disturbed \subseteq disturbed'
  BY <1>1 DEF Begins, dbVars
<1>3. CASE e # c
  <2>1. pc'[e] = pc[e] /\ Keeps(e)
    BY <1>1, <1>3 DEF Begins
  <2>2. /\ Saved(e)' = Saved(e) /\ Members(e)' = Members(e)
        /\ target'[e] = target[e] /\ loaded'[e] = loaded[e]
    BY <2>1, KeepsHeld DEF Keeps
  <2>3. Saves(e) => Saves(e)'
    BY <1>2, <2>1, <2>2 DEF Saves
  <2>4. Validated(e) => Validated(e)'
    BY <1>2, <2>1, <2>2 DEF Validated, MayRefer
  <2>. QED  BY <1>2, <2>1, <2>2, <2>3, <2>4 DEF Saving
<1>4. CASE e = c
  <2>. SUFFICES ASSUME pc'[c] \in SavePC
                PROVE  Saves(c)' /\ Validated(c)'
    BY <1>4 DEF Saving
  <2>1. pc'[c] = "validate" /\ target'[c] = d
    BY <1>1 DEF Begins, SavePC
  <2>2. loaded'[c].isNew => loaded'[c].fields.locations = {}
    BY <2>1, RequestsDisturb
  <2>3. loaded'[c].isNew \/ (d \in docs /\ loaded'[c] = Copy(d))
    BY <1>1, <2>1 DEF Begins
  <2>4. SameFlags(fields[d], Copy(d).fields) /\ organization[d] = Copy(d).organization
    BY DEF Copy, SameFlags
  <2>. QED  BY <1>2, <2>1, <2>2, <2>3, <2>4 DEF Saves, Validated, SameFlags
<1>. QED  BY <1>3, <1>4

\* A member other than the document of the step stays one.
LEMMA BelongsKept ==
    ASSUME TypeInv, NEW c \in Calls, Steps(c), NEW k \in Docs,
           organization'[k] = organization[k],
           NEW m \in Docs, m # target[c], Belongs(k, m)
    PROVE  Belongs(k, m)'
<1>1. Works(c)
  BY StepsWork
<1>2. CASE m \in docs /\ MayRefer(organization[k], m)
  <2>1. m \in docs' /\ organization'[m] = organization[m]
    BY <1>2, StepsElsewhere
  <2>2. fields'[m].publicResource = fields[m].publicResource
    BY StepsElsewhere DEF SameFlags
  <2>3. (organization[m] = organization[k] \/ fields[m].publicResource)'
    BY <1>2, <2>1, <2>2 DEF MayRefer
  <2>. QED  BY <2>1, <2>3 DEF Belongs, MayRefer
<1>3. ASSUME NEW e \in Calls, Leaves(e, m)
      PROVE  Belongs(k, m)'
  <2>1. e # c
    BY <1>3 DEF Leaves
  <2>2. Keeps(e) /\ pc'[e] = pc[e]
    BY <1>1, <2>1 DEF Works
  <2>3. Leaves(e, m)'
    BY <1>3, <2>2, KeepsHeld
  <2>. QED  BY <2>3 DEF Belongs
<1>. QED  BY <1>2, <1>3 DEF Belongs

\* The document of the step stays a member where it may, or its handler is
\* about to take it off.
LEMMA TargetBelongs ==
    ASSUME TypeInv, Apart, NEW c \in Calls, Steps(c), Saving(c)',
           NEW k \in Docs, organization'[k] = organization[k],
           NEW t, t = target[c], t # k, t \notin disturbed',
           t \in fields[k].locations => Belongs(k, t),
           t \in fields'[k].locations
    PROVE  Belongs(k, t)'
<1>1. Works(c)
  BY StepsWork
<1>2. t \in Docs /\ t \notin disturbed
  BY <1>1, MembersType DEF Works
<1>3. t \in fields[k].locations
  BY <1>2, StepsElsewhere
<1>4. Belongs(k, t)
  BY <1>3
<1>5. \A e \in Calls : Leaves(e, t) => e = c
  <2>1. ASSUME NEW e \in Calls, Leaves(e, t)
        PROVE  e = c
    <3>1. pc[e] \notin Ended /\ t \in Holds(e) \cap Holds(c)
      BY <2>1 DEF Leaves, Ended, Holds
    <3>. QED  BY <1>1, <1>2, <3>1 DEF Apart, Works
  <2>. QED  BY <2>1
<1>6. Leaves(c, t) \/ (t \in docs /\ MayRefer(organization[k], t))
  BY <1>4, <1>5 DEF Belongs
<1>7. c \in DOMAIN pc /\ fields \in [Docs -> Fields]
  BY DEF TypeInv, CallsOK, DocsOK
<1>8. CASE \/ Validate(c) \/ CheckVersion(c) \/ CheckRefs(c) \/ IncVersion(c)
           \/ CallFails(c) \/ (Insert(c) /\ t \in docs) \/ (Write(c) /\ Refused(c))
  <2>1. UNCHANGED <<docs, fields, organization>>
    BY <1>8 DEF Validate, CheckVersion, CheckRefs, IncVersion, CallFails,
                Insert, Write, dbVars
  <2>2. ~Leaves(c, t)
    <3>1. CASE CallFails(c)
      BY <1>2, <3>1 DEF CallFails, Leaves
    <3>2. CASE ~CallFails(c)
      BY <1>8, <3>2 DEF Validate, CheckVersion, CheckRefs, IncVersion, Insert,
                        Write, Moves, Leaves
    <3>. QED  BY <3>1, <3>2
  <2>. QED  BY <1>6, <2>1, <2>2 DEF Belongs, MayRefer
<1>9. CASE Insert(c) /\ t \notin docs
  BY <1>6, <1>9 DEF Insert, Moves, Leaves
<1>10. CASE Write(c) /\ ~Refused(c)
  <2>1. /\ pc[c] = "write" /\ pc'[c] = "pull" /\ Keeps(c)
        /\ UNCHANGED <<docs, organization>>
    BY <1>1, <1>7, <1>10 DEF Write, Moves, Works
  <2>2. t \in docs /\ MayRefer(organization[k], t)
    BY <1>6, <2>1 DEF Leaves
  <2>3. Saved(c)' = Saved(c) /\ target'[c] = t
    BY <2>1, KeepsHeld DEF Keeps
  <2>4. SameFlags(fields'[t], Saved(c))
    BY <2>1, <2>3 DEF Saving, Saves, SavePC
  <2>5. CASE Saved(c).published /\ Saved(c).publicResource
    <3>1. fields'[t].publicResource
      BY <2>4, <2>5 DEF SameFlags
    <3>. QED  BY <2>1, <2>2, <3>1 DEF Belongs, MayRefer
  <2>6. CASE ~(Saved(c).published /\ Saved(c).publicResource)
    <3>1. Leaves(c, t)'
      BY <2>1, <2>3, <2>6 DEF Leaves
    <3>. QED  BY <3>1 DEF Belongs
  <2>. QED  BY <2>5, <2>6
<1>11. CASE PullUpdated(c) \/ PullRemoved(c)
  <2>1. ~Pull(t)
    <3>1. SUFFICES ASSUME Pull(t)  PROVE FALSE
      OBVIOUS
    <3>2. fields'[k] = [fields[k] EXCEPT !.locations = @ \ {t}] /\ fields[k] \in Fields
      BY <1>7, <3>1 DEF Pull
    <3>3. fields'[k].locations = fields[k].locations \ {t}
      BY <3>2 DEF Fields
    <3>. QED  BY <3>3
  <2>2. /\ pc[c] = "pull" /\ Saved(c).published /\ Saved(c).publicResource
        /\ UNCHANGED <<docs, fields, organization>>
    BY <1>11, <2>1 DEF PullUpdated, PullRemoved, Moves
  <2>3. t \in docs /\ MayRefer(organization[k], t)
    BY <1>6, <2>2 DEF Leaves
  <2>. QED  BY <2>2, <2>3 DEF Belongs, MayRefer
<1>12. CASE RemoveDoc(c)
  <2>1. pc'[c] = "clean" /\ Keeps(c)
    BY <1>1, <1>7, <1>12 DEF RemoveDoc, Moves, Works
  <2>2. Leaves(c, t)'
    BY <2>1 DEF Leaves, Keeps
  <2>. QED  BY <2>2 DEF Belongs
<1>. QED
  BY <1>8, <1>9, <1>10, <1>11, <1>12 DEF Steps

\* What a step writes of its own document: what it was, but for members taken
\* off, or a document that was saved over nothing or over what was loaded.
Written(c) ==
    LET t == target[c] IN
    /\ SameFlags(fields'[t], Saved(c)) /\ (Saved(c).publicResource => Saved(c).published)
    /\ organization'[t] = loaded[c].organization
    /\ \A m \in fields'[t].locations \ disturbed' :
          \/ m \in docs /\ MayRefer(loaded[c].organization, m)
          \/ /\ m \in fields[t].locations /\ t \in docs
             /\ organization'[t] = organization[t]

LEMMA StepsWrite ==
    ASSUME TypeInv, NEW c \in Calls, Steps(c), Saving(c),
           target[c] \in docs' \ disturbed'
    PROVE  \/ Written(c)
           \/ /\ target[c] \in docs
              /\ organization'[target[c]] = organization[target[c]]
              /\ SameFlags(fields'[target[c]], fields[target[c]])
              /\ fields'[target[c]].locations \subseteq fields[target[c]].locations
<1>. DEFINE t == target[c]
<1>1. Works(c) /\ disturbed \subseteq disturbed'
  BY StepsWork DEF Works
<1>2. t \in Docs /\ t \notin disturbed
  BY <1>1, MembersType DEF Works
<1>3. fields \in [Docs -> Fields] /\ organization \in [Docs -> Orgs]
  BY DEF TypeInv, DocsOK
<1>4. CASE UNCHANGED <<docs, fields, organization>>
  BY <1>4 DEF SameFlags
<1>5. CASE \/ Validate(c) \/ CheckVersion(c) \/ CheckRefs(c) \/ IncVersion(c)
           \/ CallFails(c) \/ (Insert(c) /\ t \in docs) \/ (Write(c) /\ Refused(c))
  BY <1>4, <1>5 DEF Validate, CheckVersion, CheckRefs, IncVersion, CallFails,
                    Insert, Write, dbVars
<1>6. CASE Insert(c) /\ t \notin docs
  <2>1. /\ pc[c] = "write" /\ loaded[c].isNew
        /\ fields'[t] = Saved(c) /\ organization'[t] = loaded[c].organization
    BY <1>2, <1>3, <1>6 DEF Insert, Moves
  <2>2. Saves(c) /\ Validated(c)
    BY <1>2, <2>1 DEF Saving, SavePC
  <2>3. Saved(c).locations = Members(c)
    BY <2>1, <2>2 DEF Saves, Saved, With, Members
  <2>4. Saved(c).publicResource => Saved(c).published
    BY <2>1, <2>2 DEF Saves
  <2>5. \A m \in Members(c) \ disturbed : m \in docs /\ MayRefer(loaded[c].organization, m)
    BY <2>1, <2>2 DEF Validated
  <2>. QED  BY <1>1, <2>1, <2>3, <2>4, <2>5 DEF Written, SameFlags
<1>7. CASE Write(c) /\ ~Refused(c)
  <2>1. /\ pc[c] = "write" /\ ~loaded[c].isNew
        /\ fields'[t] = With(fields[t], change[c], Effective(c))
        /\ UNCHANGED <<docs, organization>>
    BY <1>2, <1>3, <1>7 DEF Write, Moves
  <2>2. Saves(c) /\ Validated(c)
    BY <1>2, <2>1 DEF Saving, SavePC
  <2>3. SameFlags(fields[t], loaded[c].fields) /\ fields[t] \in Fields
    BY <1>2, <1>3, <2>1, <2>2 DEF Saves
  <2>4. /\ SameFlags(fields'[t], Saved(c))
        /\ fields'[t].locations =
              IF "locations" \in Effective(c) THEN Members(c) ELSE fields[t].locations
    BY <2>1, <2>3, WithFlags
  <2>5. /\ Saved(c).publicResource => Saved(c).published
        /\ t \in docs /\ organization[t] = loaded[c].organization
    BY <2>1, <2>2 DEF Saves
  <2>6. \A m \in Members(c) \ disturbed : m \in docs /\ MayRefer(loaded[c].organization, m)
    BY <2>1, <2>2 DEF Validated
  <2>. QED  BY <1>1, <2>1, <2>4, <2>5, <2>6 DEF Written
<1>8. CASE PullUpdated(c) \/ PullRemoved(c)
  <2>1. UNCHANGED <<docs, organization>>
    BY <1>8 DEF PullUpdated, PullRemoved
  <2>2. CASE Pull(t)
    <3>1. fields'[t] = [fields[t] EXCEPT !.locations = @ \ {t}] /\ fields[t] \in Fields
      BY <1>2, <1>3, <2>2 DEF Pull
    <3>2. /\ fields'[t].published = fields[t].published
          /\ fields'[t].publicResource = fields[t].publicResource
          /\ fields'[t].locations = fields[t].locations \ {t}
      BY <3>1 DEF Fields
    <3>. QED  BY <2>1, <3>2 DEF SameFlags
  <2>3. UNCHANGED fields \/ Pull(t)
    BY <1>8 DEF PullUpdated, PullRemoved
  <2>. QED  BY <1>4, <2>1, <2>2, <2>3
<1>9. CASE RemoveDoc(c)
  BY <1>9 DEF RemoveDoc
<1>. QED
  BY <1>5, <1>6, <1>7, <1>8, <1>9 DEF Steps

LEMMA WholeSteps ==
    ASSUME TypeInv, MembersInv, NEW c \in Calls, Steps(c), Saving(c)',
           NEW k \in docs' \ disturbed'
    PROVE  Whole(k)'
<1>1. Works(c) /\ disturbed \subseteq disturbed'
  BY StepsWork DEF Works
<1>2. Apart /\ Saving(c) /\ (k \in docs => Whole(k))
  BY <1>1 DEF MembersInv
<1>3. target[c] \in Docs
  BY <1>1, MembersType DEF Works
<1>4. CASE k # target[c]
  <2>1. k \in docs /\ k \in Docs
    BY <1>4, StepsElsewhere DEF TypeInv, DocsOK
  <2>2. /\ organization'[k] = organization[k]
        /\ SameFlags(fields'[k], fields[k])
        /\ fields'[k].locations \subseteq fields[k].locations
    BY <1>4, <2>1, StepsElsewhere
  <2>3. ASSUME NEW m \in fields'[k].locations \ disturbed'
        PROVE  Belongs(k, m)'
    <3>1. m \in Docs /\ Belongs(k, m)
      BY <1>1, <1>2, <2>1, <2>2, <2>3, MembersType DEF Whole
    <3>2. CASE m # target[c]
      BY <2>1, <2>2, <3>1, <3>2, BelongsKept
    <3>3. CASE m = target[c]
      BY <1>2, <1>4, <2>1, <2>2, <2>3, <3>1, <3>3, TargetBelongs
    <3>. QED  BY <3>2, <3>3
  <2>. QED  BY <1>2, <2>1, <2>2, <2>3 DEF Whole, SameFlags
<1>5. CASE k = target[c]
  <2>1. \/ Written(c)
        \/ /\ k \in docs
           /\ organization'[k] = organization[k]
           /\ SameFlags(fields'[k], fields[k])
           /\ fields'[k].locations \subseteq fields[k].locations
    BY <1>2, <1>5, StepsWrite
  <2>2. fields'[k].publicResource => fields'[k].published
    BY <1>2, <1>5, <2>1 DEF Written, Whole, SameFlags
  <2>3. ASSUME NEW m \in fields'[k].locations \ disturbed'
        PROVE  Belongs(k, m)'
    <3>1. CASE m = k
      BY <3>1 DEF Belongs, MayRefer
    <3>2. ASSUME m # k, m \in fields[k].locations, k \in docs,
                 organization'[k] = organization[k]
          PROVE  Belongs(k, m)'
      <4>1. m \in Docs /\ Belongs(k, m)
        BY <1>1, <1>2, <1>3, <1>5, <2>3, <3>2, MembersType DEF Whole
      <4>. QED  BY <1>3, <1>5, <3>2, <4>1, BelongsKept
    <3>3. ASSUME m # k, m \in docs, MayRefer(organization'[k], m)
          PROVE  Belongs(k, m)'
      <4>1. m \in Docs
        BY <3>3 DEF TypeInv, DocsOK
      <4>2. /\ m \in docs' /\ organization'[m] = organization[m]
            /\ SameFlags(fields'[m], fields[m])
        BY <1>5, <3>3, <4>1, StepsElsewhere
      <4>3. (m \in docs /\ (organization[m] = organization[k] \/ fields[m].publicResource))'
        BY <3>3, <4>2 DEF MayRefer, SameFlags
      <4>. QED  BY <4>3 DEF Belongs, MayRefer
    <3>. QED  BY <1>5, <2>1, <2>3, <3>1, <3>2, <3>3 DEF Written
  <2>. QED  BY <2>2, <2>3 DEF Whole
<1>. QED  BY <1>4, <1>5

LEMMA WholeRequests ==
    ASSUME TypeInv, NEW c \in Calls, Requests(c), NEW k, Whole(k)
    PROVE  Whole(k)'
<1>1. PICK d \in Docs : Begins(c, d)
  BY RequestsBegin
<1>2. UNCHANGED <<docs, fields, organization>> /\ disturbed \subseteq disturbed'
  BY <1>1 DEF Begins, dbVars
<1>3. ASSUME NEW e \in Calls, NEW m, Leaves(e, m)
      PROVE  Leaves(e, m)'
  <2>1. e # c
    BY <1>1, <1>3 DEF Begins, Leaves
  <2>2. pc'[e] = pc[e] /\ Keeps(e)
    BY <1>1, <2>1 DEF Begins
  <2>. QED  BY <1>3, <2>2, KeepsHeld
<1>4. \A m : Belongs(k, m) => Belongs(k, m)'
  BY <1>2, <1>3 DEF Belongs, MayRefer
<1>. QED  BY <1>2, <1>4 DEF Whole

LEMMA MembersInit == Init => MembersInv
<1>. SUFFICES ASSUME Init  PROVE MembersInv
  OBVIOUS
<1>1. Apart /\ \A c \in Calls : Saving(c)
  BY DEF Init, Apart, Saving, Ended, SavePC
<1>2. \A k \in docs \ disturbed : Whole(k)
  BY DEF Init, Consistent, Whole, Belongs
<1>. QED  BY <1>1, <1>2 DEF MembersInv

LEMMA MembersNext ==
    ASSUME TypeInv, MembersInv, [Next]_vars
    PROVE  MembersInv'
<1>1. Apart'
  BY ApartNext DEF MembersInv
<1>2. ASSUME NEW c \in Calls, Steps(c)
      PROVE  MembersInv'
  <2>1. \A e \in Calls : Saving(e)'
    BY <1>2, SavingOfOthers, SavingOfOwn DEF MembersInv
  <2>2. \A k \in docs' \ disturbed' : Whole(k)'
    BY <1>2, <2>1, WholeSteps
  <2>. QED  BY <1>1, <2>1, <2>2 DEF MembersInv
<1>3. ASSUME NEW c \in Calls, Requests(c)
      PROVE  MembersInv'
  <2>1. \A e \in Calls : Saving(e)'
    BY <1>3, SavingOfRequest DEF MembersInv
  <2>2. docs' = docs /\ disturbed \subseteq disturbed'
    BY <1>3, RequestsBegin DEF Begins, dbVars
  <2>3. \A k \in docs' \ disturbed' : Whole(k)'
    BY <1>3, <2>2, WholeRequests DEF MembersInv
  <2>. QED  BY <1>1, <2>1, <2>3 DEF MembersInv
<1>4. CASE UNCHANGED vars
  <2>1. \A c \in Calls : Saving(c)'
    BY <1>4 DEF vars, dbVars, callVars, MembersInv, Saving, Saves, Validated,
                Saved, Members, MayRefer
  <2>2. \A k \in docs' \ disturbed' : Whole(k)'
    BY <1>4 DEF vars, dbVars, callVars, MembersInv, Whole, Belongs, Leaves,
                Saved, MayRefer
  <2>. QED  BY <1>1, <2>1, <2>2 DEF MembersInv
<1>. QED  BY <1>2, <1>3, <1>4 DEF Next

\* Where the handlers on a collection and on a member came one after the other
\* and have ended, the member exists, and is of the workspace of the collection
\* or public; and a public resource is published: what the validators and the
\* hooks checkRefLinksOnUpdateMw, removeRefLinksOnUpdateMw and
\* removeRefLinksOnDeleteMw establish between them.
THEOREM SerialConsistent == Spec => []SerialConsistency
<1>1. Init => TypeInv /\ MembersInv
  BY TypeInit, MembersInit
<1>2. TypeInv /\ MembersInv /\ [Next]_vars => TypeInv' /\ MembersInv'
  BY TypeNext, MembersNext
<1>3. MembersInv => SerialConsistency
  <2>. SUFFICES ASSUME MembersInv, NEW k \in docs \ disturbed
                PROVE  /\ fields[k].publicResource => fields[k].published
                       /\ \A m \in fields[k].locations \ disturbed : ~Busy(m) =>
                             m \in docs /\ MayRefer(organization[k], m)
    BY DEF SerialConsistency
  <2>1. Whole(k)
    BY DEF MembersInv
  <2>2. ASSUME NEW m, ~Busy(m)
        PROVE  \A c \in Calls : ~Leaves(c, m)
    BY <2>2 DEF Leaves, Busy, Touched, Ended
  <2>. QED  BY <2>1, <2>2 DEF Whole, Belongs
<1>. QED  BY <1>1, <1>2, <1>3, PTL DEF Spec
=============================================================================
