----------------------------- MODULE IdentityProofs -----------------------------
(***************************************************************************)
(* Proofs about the identity service, for any number of accounts, images   *)
(* and concurrent submissions, with or without crashes, and whatever the   *)
(* OCR and the face embedding answer.                                      *)
(*                                                                         *)
(* The invariant says what a submission knows at each await although other *)
(* submissions ran since it read: its account's first documents are still  *)
(* the first, the identity it inserted is still its own, and the faces it  *)
(* found when it began are still registered.                               *)
(***************************************************************************)
EXTENDS Identity, TLAPS

Checking == {"passport.check", "face.check", "identity.insert"}
Holding == {"user.link", "scores.update", "publish"}

\* A running submission has read an account and two of its images.
BusyOK ==
  \A r \in KycReqs : ~At(r, "idle") => /\ kycReqs[r].user \in Users
                                       /\ kycReqs[r].front \in Fronts
                                       /\ kycReqs[r].selfie \in Selfies

\* A submission acts for an account with all its documents, and presents the
\* images that account uploaded first.
Presents(r) ==
  LET u == kycReqs[r].user IN
  /\ Missing(u) = {}
  /\ kycReqs[r].front = Image(u, "passport_front")
  /\ kycReqs[r].selfie = Image(u, "selfie")

PresentsFirstImages == \A r \in KycReqs : ~At(r, "idle") => Presents(r)

\* The identity a submission has inserted is there, and of its passport.
HoldsItsIdentity ==
  \A r \in KycReqs : kycReqs[r].pc \in Holding =>
    /\ kycReqs[r].identity \in DOMAIN identities
    /\ identities[kycReqs[r].identity].passport = Passport(r)

\* No two submissions hold one identity.
HeldByOne ==
  \A r, s \in KycReqs :
    /\ kycReqs[r].pc \in Holding /\ kycReqs[s].pc \in Holding
    /\ kycReqs[r].identity = kycReqs[s].identity
    => r = s

\* Until its link an identity belongs to no account; then to the submission's.
LinkedByItsHolder ==
  \A r \in KycReqs : kycReqs[r].pc \in Holding =>
    IF At(r, "user.link")
      THEN \A u \in Users : users[u].identity # kycReqs[r].identity
      ELSE users[kycReqs[r].user].identity = kycReqs[r].identity

\* An account's identity is of the passport the account uploaded first.
IdentityOfFirstFront ==
  \A u \in Users : users[u].identity # NoValue =>
    /\ users[u].identity \in DOMAIN identities
    /\ Missing(u) = {}
    /\ identities[users[u].identity].passport
         = PassportOf[Image(u, "passport_front")]

\* The faces registered when a submission began are not the submission's.
FacesSeenDiffer ==
  \A r \in KycReqs :
    /\ kycReqs[r].pc \in Checking => kycReqs[r].known <= Len(identities)
    /\ At(r, "identity.insert") =>
         \A i \in DOMAIN identities :
           i <= kycReqs[r].known => identities[i].face # Face(r)

\* Scores are written before the event is published.
ScoredBeforePublish ==
  \A r \in KycReqs : At(r, "publish") =>
    documents[kycReqs[r].user]["selfie"][1].scored

\* An event names an account whose documents are complete, and an identity.
EventsWellFormed ==
  \A e \in published : /\ e.user \in Users
                       /\ e.identity # NoValue
                       /\ Missing(e.user) = {}

\* No identity is forgotten: it is linked, about to be, or lost.
IdentitiesAccountedFor ==
  \A i \in DOMAIN identities :
    \/ i \in lost
    \/ \E u \in Users : users[u].identity = i
    \/ \E r \in KycReqs : At(r, "user.link") /\ kycReqs[r].identity = i

KycInv ==
  /\ KycTypeOK
  /\ BusyOK
  /\ PresentsFirstImages
  /\ HoldsItsIdentity
  /\ HeldByOne
  /\ LinkedByItsHolder
  /\ IdentityOfFirstFront
  /\ FacesSeenDiffer
  /\ ScoredBeforePublish
  /\ EventsWellFormed
  /\ IdentitiesAccountedFor
  /\ PassportOnce
  /\ OneAccountPerIdentity
  /\ SharedFaceOnlyByRace
  /\ VerifiedIsLinked

-------------------------------------------------------------------------------
\* Slots.

\* What a submission read when it began.
SameReads(r) == /\ kycReqs'[r].user = kycReqs[r].user
                /\ kycReqs'[r].front = kycReqs[r].front
                /\ kycReqs'[r].selfie = kycReqs[r].selfie
                /\ kycReqs'[r].known = kycReqs[r].known

OtherSlotsSame(r) == \A s \in KycReqs \ {r} : kycReqs'[s] = kycReqs[s]

LEMMA GotoSlot ==
  ASSUME KycTypeOK, NEW r \in KycReqs, NEW pc \in KycPc, Goto(r, pc)
  PROVE  /\ kycReqs' \in [KycReqs -> KycRequest]
         /\ kycReqs'[r].pc = pc
         /\ SameReads(r) /\ kycReqs'[r].identity = kycReqs[r].identity
         /\ OtherSlotsSame(r)
<1>1. kycReqs[r] \in KycRequest /\ kycReqs \in [KycReqs -> KycRequest]
  BY DEF KycTypeOK
<1>2. kycReqs' = [kycReqs EXCEPT ![r] = [kycReqs[r] EXCEPT !.pc = pc]]
  BY <1>1 DEF Goto
<1>3. QED BY <1>1, <1>2 DEF KycRequest, SameReads, OtherSlotsSame

LEMMA EndSlot ==
  ASSUME KycTypeOK, NEW r \in KycReqs, End(r)
  PROVE  /\ kycReqs' \in [KycReqs -> KycRequest]
         /\ kycReqs'[r] = IdleKyc
         /\ OtherSlotsSame(r)
BY DEF KycTypeOK, End, IdleKyc, KycRequest, KycPc, OtherSlotsSame

LEMMA InsertSlot ==
  ASSUME KycTypeOK, NEW r \in KycReqs, InsertIdentity(r), Unique(Passport(r))
  PROVE  /\ kycReqs' \in [KycReqs -> KycRequest]
         /\ At(r, "user.link")' /\ SameReads(r)
         /\ kycReqs'[r].identity = Len(identities) + 1
         /\ OtherSlotsSame(r)
         /\ identities' = Append(identities, [passport |-> Passport(r),
                                              face     |-> Face(r),
                                              known    |-> kycReqs[r].known])
         /\ UNCHANGED <<users, documents, lost, published>>
<1> DEFINE new == [kycReqs[r] EXCEPT !.pc = "user.link", !.identity = Len(identities) + 1]
<1>1. /\ kycReqs[r] \in KycRequest /\ kycReqs \in [KycReqs -> KycRequest]
      /\ Len(identities) + 1 \in Nat
  BY DEF KycTypeOK
<1>2. /\ kycReqs' = [kycReqs EXCEPT ![r] = new]
      /\ identities' = Append(identities, [passport |-> Passport(r),
                                           face     |-> Face(r),
                                           known    |-> kycReqs[r].known])
      /\ UNCHANGED <<users, documents, lost, published>>
  BY DEF InsertIdentity
<1>3. QED BY <1>1, <1>2 DEF KycRequest, KycPc, SameReads, OtherSlotsSame, At

LEMMA VerifySlot ==
  ASSUME KycTypeOK, NEW r \in KycReqs, NEW u \in Users, Verify(r, u)
  PROVE  /\ kycReqs' \in [KycReqs -> KycRequest]
         /\ At(r, "passport.check")' /\ Missing(u) = {} /\ kycReqs'[r].user = u
         /\ kycReqs'[r].front = Image(u, "passport_front")
         /\ kycReqs'[r].selfie = Image(u, "selfie")
         /\ kycReqs'[r].front \in Fronts /\ kycReqs'[r].selfie \in Selfies
         /\ kycReqs'[r].known = Len(identities)
         /\ OtherSlotsSame(r)
         /\ UNCHANGED <<users, identities, documents, lost, published>>
<1>1. /\ documents[u]["passport_front"] # <<>> /\ documents[u]["selfie"] # <<>>
  BY DEF Verify, Missing, DocumentType
<1>2. 1 \in DOMAIN documents[u]["passport_front"] /\ 1 \in DOMAIN documents[u]["selfie"]
  BY <1>1 DEF KycTypeOK, DocumentsOK, DocumentType
<1>3. Image(u, "passport_front") \in Fronts /\ Image(u, "selfie") \in Selfies
  BY <1>2 DEF KycTypeOK, DocumentsOK, DocumentType, Image, Found, Images
<1>4. QED
  BY <1>3 DEF Verify, KycTypeOK, KycRequest, KycPc, OtherSlotsSame, At

-------------------------------------------------------------------------------
\* What every step of the service leaves as it was.

\* Documents are only added after the first one, and rows keep their image.
LEMMA FirstImageStays ==
  ASSUME KycTypeOK, [KycNext]_kycVars,
         NEW u \in Users, NEW type \in DocumentType, documents[u][type] # <<>>
  PROVE  documents'[u][type] # <<>> /\ Image(u, type)' = Image(u, type)
<1> DEFINE D == documents[u][type]
<1>0. /\ D \in Seq(DocumentRow) /\ Len(D) > 0
      /\ documents \in [Users -> [DocumentType -> Seq(DocumentRow)]]
  BY DEF KycTypeOK, DocumentsOK
<1>1. ASSUME NEW v \in Users, NEW t \in DocumentType, NEW image \in Images(t),
             UploadDocument(v, t, image)
      PROVE  documents'[u][type] # <<>> /\ Image(u, type)' = Image(u, type)
  <2>1. documents'[u][type]
          = IF u = v /\ type = t THEN Append(D, [image |-> image, scored |-> FALSE])
                                 ELSE D
    BY <1>0, <1>1 DEF UploadDocument
  <2> DEFINE row == [image |-> image, scored |-> FALSE]
  <2>2. /\ Append(D, row) # <<>>
        /\ Append(D, row)[1] = D[1]
    <3>1. row \in DocumentRow
      BY <1>1 DEF DocumentRow, Images, DocumentType
    <3> HIDE DEF row, D
    <3>2. QED BY <1>0, <3>1
  <2> HIDE DEF row
  <2>3. documents'[u][type] # <<>> /\ documents'[u][type][1] = D[1]
    BY <1>0, <2>1, <2>2
  <2>4. QED BY <2>3 DEF Image, Found
<1>2. ASSUME NEW r \in KycReqs, UpdateScores(r)
      PROVE  documents'[u][type] # <<>> /\ Image(u, type)' = Image(u, type)
  <2> DEFINE S == [D EXCEPT ![1].scored = TRUE]
  <2>1. documents'[u][type] \in {D, S}
    BY <1>0, <1>2 DEF UpdateScores, Found
  <2>2. S # <<>> /\ S[1].image = D[1].image
    <3>1. 1 \in DOMAIN D /\ D[1] \in DocumentRow
      BY <1>0
    <3>2. S[1] = [D[1] EXCEPT !.scored = TRUE] /\ DOMAIN S = DOMAIN D
      BY <3>1
    <3>3. [D[1] EXCEPT !.scored = TRUE].image = D[1].image
      BY <3>1 DEF DocumentRow
    <3> HIDE DEF S
    <3>4. QED BY <3>1, <3>2, <3>3
  <2> HIDE DEF S
  <2>3. QED BY <1>0, <2>1, <2>2 DEF Image, Found
<1>3. CASE UNCHANGED documents
  BY <1>0, <1>3 DEF Image, Found
<1>4. QED
  BY <1>1, <1>2, <1>3 DEF KycNext, KycStep, kycVars, Verify, CheckPassport,
     CheckFace, InsertIdentity, LinkUser, PublishVerified, CrashKyc, Refuse

\* Rows of the identities table are never changed.
LEMMA IdentitiesAppended ==
  ASSUME KycTypeOK, [KycNext]_kycVars, NEW i \in DOMAIN identities
  PROVE  i \in DOMAIN identities' /\ identities'[i] = identities[i]
<1>0. identities \in Seq(IdentityRow)
  BY DEF KycTypeOK
<1>1. ASSUME NEW r \in KycReqs, InsertIdentity(r)
      PROVE  i \in DOMAIN identities' /\ identities'[i] = identities[i]
  BY <1>0, <1>1 DEF InsertIdentity, Refuse
<1>2. CASE UNCHANGED identities
  BY <1>2
<1>3. QED
  BY <1>1, <1>2 DEF KycNext, KycStep, kycVars, Verify, CheckPassport, CheckFace,
     UploadDocument, LinkUser, UpdateScores, PublishVerified, CrashKyc, Refuse

-------------------------------------------------------------------------------
\* Type correctness.

LEMMA UploadType ==
  ASSUME KycTypeOK, NEW u \in Users, NEW type \in DocumentType,
         NEW image \in Images(type), UploadDocument(u, type, image)
  PROVE  KycTypeOK'
<1> DEFINE row == [image |-> image, scored |-> FALSE]
<1>1. row \in DocumentRow /\ row.image = image
  BY DEF DocumentRow, Images, DocumentType
<1> HIDE DEF row
<1>2. documents' = [documents EXCEPT ![u][type] = Append(@, row)]
  BY DEF UploadDocument, row
<1>3. documents' \in [Users -> [DocumentType -> Seq(DocumentRow)]]
  BY <1>1, <1>2 DEF KycTypeOK, DocumentsOK
<1>4. ASSUME NEW v \in Users, NEW t \in DocumentType, NEW i \in DOMAIN documents'[v][t]
      PROVE  documents'[v][t][i].image \in Images(t)
  <2>1. CASE v = u /\ t = type
    <3>1. /\ documents[u][type] \in Seq(DocumentRow)
          /\ documents'[u][type] = Append(documents[u][type], row)
      BY <1>2 DEF KycTypeOK, DocumentsOK
    <3>2. CASE i = Len(documents[u][type]) + 1
      BY <1>1, <2>1, <3>1, <3>2
    <3>3. CASE i # Len(documents[u][type]) + 1
      BY <1>1, <1>4, <2>1, <3>1, <3>3 DEF KycTypeOK, DocumentsOK
    <3>4. QED BY <3>2, <3>3
  <2>2. CASE v # u \/ t # type
    BY <1>2, <1>4, <2>2 DEF KycTypeOK, DocumentsOK
  <2>3. QED BY <2>1, <2>2
<1>5. UNCHANGED <<users, identities, kycReqs, lost>>
  BY DEF UploadDocument
<1>6. QED BY <1>3, <1>4, <1>5 DEF KycTypeOK, DocumentsOK

LEMMA ScoresType ==
  ASSUME KycTypeOK, BusyOK, NEW r \in KycReqs, UpdateScores(r)
  PROVE  KycTypeOK'
<1> DEFINE u == kycReqs[r].user
           D == documents[u]["selfie"]
           S == [D EXCEPT ![1].scored = TRUE]
<1>1. documents' = [documents EXCEPT ![u]["selfie"] = S]
  BY DEF UpdateScores, Found
<1>2. u \in Users
  BY DEF BusyOK, UpdateScores, At
<1>3. D \in Seq(DocumentRow)
  BY <1>2 DEF KycTypeOK, DocumentsOK, DocumentType
<1>4. S \in Seq(DocumentRow) /\ DOMAIN S = DOMAIN D
  <2>1. \A i \in DOMAIN D : S[i] \in DocumentRow
    <3>1. \A i \in DOMAIN D : D[i] \in DocumentRow
      BY <1>3
    <3>2. \A row \in DocumentRow : [row EXCEPT !.scored = TRUE] \in DocumentRow
      BY DEF DocumentRow
    <3>3. \A i \in DOMAIN D : S[i] = IF i = 1 THEN [D[1] EXCEPT !.scored = TRUE] ELSE D[i]
      OBVIOUS
    <3> HIDE DEF S
    <3>4. QED BY <3>1, <3>2, <3>3
  <2>2. DOMAIN S = 1 .. Len(D) /\ Len(D) \in Nat
    BY <1>3
  <2>3. S = [i \in 1 .. Len(D) |-> S[i]]
    BY <2>2
  <2> DEFINE n == Len(D)
  <2> HIDE DEF S, D
  <2>4. \A i \in 1 .. n : S[i] \in DocumentRow
    BY <2>1, <2>2
  <2>5. n \in Nat /\ DOMAIN D = 1 .. n
    BY <1>3, <2>2
  <2>6. S = [i \in 1 .. n |-> S[i]]
    BY <2>3
  <2>7. S \in Seq(DocumentRow)
    <3> HIDE DEF n
    <3>1. [i \in 1 .. n |-> S[i]] \in Seq(DocumentRow)
      BY <2>4, <2>5
    <3>2. QED BY <2>6, <3>1
  <2>8. QED BY <2>2, <2>5, <2>7
<1>5. \A i \in DOMAIN D : S[i].image = D[i].image
  BY <1>3 DEF DocumentRow
<1> HIDE DEF S
<1>6. documents' \in [Users -> [DocumentType -> Seq(DocumentRow)]]
  BY <1>1, <1>2, <1>4 DEF KycTypeOK, DocumentsOK, DocumentType
<1>7. ASSUME NEW v \in Users, NEW t \in DocumentType,
             NEW i \in DOMAIN documents'[v][t]
      PROVE  documents'[v][t][i].image \in Images(t)
  <2>1. documents'[v][t] = IF v = u /\ t = "selfie" THEN S ELSE documents[v][t]
    BY <1>1, <1>2 DEF KycTypeOK, DocumentsOK, DocumentType
  <2>2. QED BY <1>2, <1>4, <1>5, <1>7, <2>1 DEF KycTypeOK, DocumentsOK, DocumentType
<1>8. UNCHANGED <<users, identities, lost>> /\ kycReqs' \in [KycReqs -> KycRequest]
  <2>1. kycReqs[r] \in KycRequest /\ "publish" \in KycPc
    BY DEF KycTypeOK, KycPc
  <2>2. [kycReqs[r] EXCEPT !.pc = "publish"] \in KycRequest
    BY <2>1 DEF KycRequest
  <2>3. QED BY <2>2 DEF UpdateScores, Goto, KycTypeOK
<1>9. QED BY <1>6, <1>7, <1>8 DEF KycTypeOK, DocumentsOK

\* A slot that goes on keeps what it read; a slot that ends is idle.
LEMMA SlotMoves ==
  ASSUME KycTypeOK, [KycNext]_kycVars, NEW s \in KycReqs
  PROVE  \/ kycReqs'[s] = IdleKyc
         \/ kycReqs'[s] = kycReqs[s]
         \/ ~At(s, "idle") /\ SameReads(s)
         \/ \E u \in Users : Verify(s, u)
<1>1. CASE UNCHANGED kycReqs
  BY <1>1
<1>2. ASSUME NEW r \in KycReqs, NEW pc \in KycPc, ~At(r, "idle"), Goto(r, pc)
      PROVE  kycReqs'[s] = kycReqs[s] \/ (~At(s, "idle") /\ SameReads(s))
  BY <1>2, GotoSlot DEF OtherSlotsSame
<1>3. ASSUME NEW r \in KycReqs, End(r)
      PROVE  kycReqs'[s] = kycReqs[s] \/ kycReqs'[s] = IdleKyc
  BY <1>3, EndSlot DEF OtherSlotsSame
<1>4. ASSUME NEW r \in KycReqs, InsertIdentity(r), ~End(r)
      PROVE  kycReqs'[s] = kycReqs[s] \/ (~At(s, "idle") /\ SameReads(s))
  <2>1. Unique(Passport(r)) /\ ~At(r, "idle")
    BY <1>4 DEF InsertIdentity, Refuse, At
  <2>2. QED BY <1>4, <2>1, InsertSlot DEF OtherSlotsSame
<1>5. ASSUME NEW r \in KycReqs, NEW u \in Users, Verify(r, u)
      PROVE  kycReqs'[s] = kycReqs[s] \/ Verify(s, u)
  BY <1>5, VerifySlot DEF OtherSlotsSame
<1>6. ASSUME NEW r \in KycReqs, KycStep(r) \/ CrashKyc(r)
      PROVE  \/ End(r) \/ InsertIdentity(r)
             \/ ~At(r, "idle") /\ \E pc \in KycPc : Goto(r, pc)
  BY <1>6 DEF KycStep, CheckPassport, CheckFace, LinkUser, UpdateScores,
     PublishVerified, CrashKyc, Refuse, At, KycPc
<1>7. QED
  BY <1>1, <1>2, <1>3, <1>4, <1>5, <1>6 DEF KycNext, kycVars, UploadDocument

LEMMA BusyStep ==
  ASSUME KycTypeOK, BusyOK, [KycNext]_kycVars
  PROVE  BusyOK'
<1> SUFFICES ASSUME NEW s \in KycReqs, ~At(s, "idle")'
             PROVE  /\ kycReqs'[s].user \in Users
                    /\ kycReqs'[s].front \in Fronts
                    /\ kycReqs'[s].selfie \in Selfies
  BY DEF BusyOK
<1>1. kycReqs'[s] # IdleKyc
  BY DEF At, IdleKyc
<1>2. CASE \E u \in Users : Verify(s, u)
  BY <1>2, VerifySlot
<1>3. CASE kycReqs'[s] = kycReqs[s]
  BY <1>3 DEF BusyOK, At
<1>4. CASE ~At(s, "idle") /\ SameReads(s)
  BY <1>4 DEF BusyOK, SameReads
<1>5. QED BY <1>1, <1>2, <1>3, <1>4, SlotMoves

LEMMA DocumentsUnchanged ==
  ASSUME DocumentsOK, UNCHANGED documents
  PROVE  DocumentsOK'
BY DEF DocumentsOK

LEMMA KycTypeStep ==
  ASSUME KycTypeOK, BusyOK, [KycNext]_kycVars
  PROVE  KycTypeOK'
<1>1. CASE UNCHANGED kycVars
  BY <1>1, DocumentsUnchanged DEF KycTypeOK, kycVars
<1>2. ASSUME NEW u \in Users, NEW type \in DocumentType,
             NEW image \in Images(type), UploadDocument(u, type, image)
      PROVE  KycTypeOK'
  BY <1>2, UploadType
<1>3. ASSUME NEW r \in KycReqs, NEW u \in Users, Verify(r, u)
      PROVE  KycTypeOK'
  BY <1>3, VerifySlot, DocumentsUnchanged DEF KycTypeOK
<1>4. ASSUME NEW r \in KycReqs, Refuse(r)
      PROVE  KycTypeOK'
  BY <1>4, EndSlot, DocumentsUnchanged DEF Refuse, KycTypeOK
<1>5. ASSUME NEW r \in KycReqs, CheckPassport(r) \/ CheckFace(r)
      PROVE  KycTypeOK'
  BY <1>4, <1>5, GotoSlot, DocumentsUnchanged
     DEF CheckPassport, CheckFace, KycTypeOK, KycPc
<1>6. ASSUME NEW r \in KycReqs, InsertIdentity(r)
      PROVE  KycTypeOK'
  <2>1. Passport(r) \in Passports /\ Face(r) \in Faces /\ kycReqs[r].known \in Nat
    BY <1>6, IdentityAssumption
       DEF BusyOK, InsertIdentity, At, Passport, Face, KycTypeOK, KycRequest
  <2>2. CASE Unique(Passport(r))
    <3> DEFINE row == [passport |-> Passport(r), face |-> Face(r),
                       known |-> kycReqs[r].known]
    <3>1. identities' \in Seq(IdentityRow)
      <4>1. row \in IdentityRow
        BY <2>1 DEF IdentityRow
      <4>2. identities' = Append(identities, row)
        BY <1>6, <2>2, InsertSlot
      <4> HIDE DEF row
      <4>3. QED BY <4>1, <4>2 DEF KycTypeOK
    <3>2. QED
      BY <1>6, <2>2, <3>1, InsertSlot, DocumentsUnchanged DEF KycTypeOK
  <2>3. CASE ~Unique(Passport(r))
    BY <1>4, <1>6, <2>3 DEF InsertIdentity
  <2>4. QED BY <2>2, <2>3
<1>7. ASSUME NEW r \in KycReqs, LinkUser(r)
      PROVE  KycTypeOK'
  <2>1. kycReqs' \in [KycReqs -> KycRequest]
    BY <1>7, GotoSlot DEF LinkUser, KycPc
  <2>2. kycReqs[r].identity \in Nat \cup {NoValue} /\ kycReqs[r].user \in Users
    BY <1>7 DEF KycTypeOK, KycRequest, BusyOK, LinkUser, At
  <2>3. users' \in [Users -> UserRow]
    <3> DEFINE u == kycReqs[r].user
               row == [users[u] EXCEPT !.identity = kycReqs[r].identity,
                                       !.status = "active"]
    <3>1. users' = [users EXCEPT ![u] = row]
      BY <1>7 DEF LinkUser, LinkUserToIdentity
    <3>2. users[u] \in UserRow
      BY <2>2 DEF KycTypeOK
    <3>3. row \in UserRow
      BY <2>2, <3>2 DEF UserRow, UserStatus
    <3> HIDE DEF row
    <3>4. QED BY <3>1, <3>3 DEF KycTypeOK
  <2>4. UNCHANGED <<identities, documents, lost>>
    BY <1>7 DEF LinkUser
  <2>5. QED BY <2>1, <2>3, <2>4, DocumentsUnchanged DEF KycTypeOK
<1>8. ASSUME NEW r \in KycReqs, UpdateScores(r)
      PROVE  KycTypeOK'
  BY <1>8, ScoresType
<1>9. ASSUME NEW r \in KycReqs, PublishVerified(r)
      PROVE  KycTypeOK'
  BY <1>9, EndSlot, DocumentsUnchanged DEF PublishVerified, KycTypeOK
<1>10. ASSUME NEW r \in KycReqs, CrashKyc(r)
      PROVE  KycTypeOK'
  <2>1. lost' \subseteq Nat \cup {NoValue}
    BY <1>10 DEF CrashKyc, KycTypeOK, KycRequest
  <2>2. QED
    BY <1>10, <2>1, EndSlot, DocumentsUnchanged DEF CrashKyc, KycTypeOK
<1>11. QED
  BY <1>1, <1>2, <1>3, <1>5, <1>6, <1>7, <1>8, <1>9, <1>10 DEF KycNext, KycStep

-------------------------------------------------------------------------------
\* What one step may do to each part of the state.

\* How a submission comes to hold an identity, and what it then does.
HolderMove(s) ==
  \/ /\ kycReqs[s].pc \in Holding
     /\ SameReads(s) /\ kycReqs'[s].identity = kycReqs[s].identity
     /\ At(s, "user.link")' => kycReqs'[s] = kycReqs[s]
     /\ At(s, "user.link") /\ ~At(s, "user.link")' => LinkUser(s)
     /\ At(s, "publish")' /\ ~At(s, "publish") => UpdateScores(s)
  \/ InsertIdentity(s) /\ Unique(Passport(s)) /\ At(s, "user.link")'

LEMMA HolderMoves ==
  ASSUME KycTypeOK, [KycNext]_kycVars, NEW s \in KycReqs,
         kycReqs'[s].pc \in Holding
  PROVE  HolderMove(s)
<1> USE DEF Holding
<1>1. CASE kycReqs'[s] = kycReqs[s]
  BY <1>1 DEF HolderMove, SameReads, At
<1>2. ASSUME NEW r \in KycReqs, NEW u \in Users, Verify(r, u)
      PROVE  HolderMove(s)
  BY <1>1, <1>2, VerifySlot DEF OtherSlotsSame, At
<1>3. ASSUME NEW r \in KycReqs, End(r)
      PROVE  HolderMove(s)
  BY <1>1, <1>3, EndSlot DEF OtherSlotsSame, IdleKyc
<1>4. ASSUME NEW r \in KycReqs, CheckPassport(r) \/ CheckFace(r)
      PROVE  HolderMove(s)
  <2>1. End(r) \/ Goto(r, "face.check") \/ Goto(r, "identity.insert")
    BY <1>4 DEF CheckPassport, CheckFace, Refuse
  <2>2. QED BY <1>1, <1>3, <2>1, GotoSlot DEF OtherSlotsSame, KycPc
<1>5. ASSUME NEW r \in KycReqs, InsertIdentity(r)
      PROVE  HolderMove(s)
  <2>1. End(r) \/ Unique(Passport(r))
    BY <1>5 DEF InsertIdentity, Refuse
  <2>2. QED BY <1>1, <1>3, <1>5, <2>1, InsertSlot DEF OtherSlotsSame, HolderMove
<1>6. ASSUME NEW r \in KycReqs, LinkUser(r)
      PROVE  HolderMove(s)
  BY <1>1, <1>6, GotoSlot DEF LinkUser, KycPc, OtherSlotsSame, HolderMove, At
<1>7. ASSUME NEW r \in KycReqs, UpdateScores(r)
      PROVE  HolderMove(s)
  BY <1>1, <1>7, GotoSlot DEF UpdateScores, KycPc, OtherSlotsSame, HolderMove, At
<1>8. ASSUME NEW r \in KycReqs, PublishVerified(r) \/ CrashKyc(r)
      PROVE  HolderMove(s)
  BY <1>3, <1>8 DEF PublishVerified, CrashKyc
<1>9. QED
  BY <1>1, <1>2, <1>4, <1>5, <1>6, <1>7, <1>8
     DEF KycNext, KycStep, kycVars, UploadDocument

\* Only a successful INSERT changes the identities table, ...
LEMMA IdentitiesMove ==
  ASSUME KycTypeOK, [KycNext]_kycVars
  PROVE  \/ UNCHANGED identities
         \/ \E r \in KycReqs : InsertIdentity(r) /\ Unique(Passport(r))
BY DEF KycNext, KycStep, kycVars, Verify, CheckPassport, CheckFace, UploadDocument,
   InsertIdentity, LinkUser, UpdateScores, PublishVerified, CrashKyc, Refuse

\* ... only a link the users table, ...
LEMMA UsersMove ==
  ASSUME KycTypeOK, [KycNext]_kycVars
  PROVE  UNCHANGED users \/ \E r \in KycReqs : LinkUser(r)
BY DEF KycNext, KycStep, kycVars, Verify, CheckPassport, CheckFace, UploadDocument,
   InsertIdentity, UpdateScores, PublishVerified, CrashKyc, Refuse

\* ... and only a publication the published events.
LEMMA PublishedMove ==
  ASSUME KycTypeOK, [KycNext]_kycVars
  PROVE  UNCHANGED published \/ \E r \in KycReqs : PublishVerified(r)
BY DEF KycNext, KycStep, kycVars, Verify, CheckPassport, CheckFace, UploadDocument,
   InsertIdentity, LinkUser, UpdateScores, CrashKyc, Refuse

LEMMA LinkEffect ==
  ASSUME KycTypeOK, BusyOK, HoldsItsIdentity, NEW r \in KycReqs, LinkUser(r)
  PROVE  /\ kycReqs[r].user \in Users /\ At(r, "user.link")
         /\ kycReqs[r].identity \in DOMAIN identities
         /\ identities[kycReqs[r].identity].passport = Passport(r)
         /\ users'[kycReqs[r].user].identity = kycReqs[r].identity
         /\ \A v \in Users \ {kycReqs[r].user} : users'[v] = users[v]
         /\ UNCHANGED <<identities, documents, lost, published>>
<1>1. At(r, "user.link") /\ kycReqs[r].user \in Users
  BY DEF LinkUser, BusyOK, At
<1>2. /\ kycReqs[r].identity \in DOMAIN identities
      /\ identities[kycReqs[r].identity].passport = Passport(r)
  BY <1>1 DEF HoldsItsIdentity, Holding, At
<1>3. users[kycReqs[r].user] \in UserRow /\ users \in [Users -> UserRow]
  BY <1>1 DEF KycTypeOK
<1>4. users' = [users EXCEPT ![kycReqs[r].user] =
                  [users[kycReqs[r].user] EXCEPT !.identity = kycReqs[r].identity,
                                                 !.status = "active"]]
  BY DEF LinkUser, LinkUserToIdentity
<1>5. users'[kycReqs[r].user].identity = kycReqs[r].identity
  BY <1>1, <1>3, <1>4 DEF UserRow
<1>6. QED BY <1>1, <1>2, <1>3, <1>4, <1>5 DEF LinkUser

LEMMA MissingStays ==
  ASSUME KycTypeOK, [KycNext]_kycVars, NEW u \in Users, Missing(u) = {}
  PROVE  Missing(u)' = {}
BY FirstImageStays DEF Missing

\* The invariant the next lemmas start from.
KycInvStep == KycInv /\ [KycNext]_kycVars

LEMMA PresentsStep ==
  ASSUME KycInvStep
  PROVE  PresentsFirstImages'
<1> SUFFICES ASSUME NEW s \in KycReqs, ~At(s, "idle")'
             PROVE  Presents(s)'
  BY DEF PresentsFirstImages
<1> USE DEF KycInvStep, KycInv
<1>1. kycReqs'[s] # IdleKyc
  BY DEF At, IdleKyc
<1>2. ASSUME NEW u \in Users, Verify(s, u)
      PROVE  Presents(s)'
  BY <1>2, VerifySlot DEF Presents, Missing, Image, Found
<1>3. CASE ~At(s, "idle") /\ SameReads(s)
  <2>1. PICK u \in Users : u = kycReqs[s].user
    BY <1>3 DEF BusyOK
  <2>2. /\ kycReqs'[s].user = u
        /\ kycReqs'[s].front = Image(u, "passport_front")
        /\ kycReqs'[s].selfie = Image(u, "selfie")
        /\ Missing(u) = {}
    BY <1>3, <2>1 DEF SameReads, PresentsFirstImages, Presents
  <2>3. /\ documents[u]["passport_front"] # <<>> /\ documents[u]["selfie"] # <<>>
        /\ "passport_front" \in DocumentType /\ "selfie" \in DocumentType
    BY <2>2 DEF Missing, DocumentType
  <2>4. /\ Missing(u)' = {}
        /\ Image(u, "passport_front")' = Image(u, "passport_front")
        /\ Image(u, "selfie")' = Image(u, "selfie")
    BY <2>2, <2>3, FirstImageStays, MissingStays
  <2>5. QED BY <2>2, <2>4 DEF Presents, Missing, Image
<1>4. CASE kycReqs'[s] = kycReqs[s]
  BY <1>3, <1>4 DEF At, SameReads
<1>5. QED BY <1>1, <1>2, <1>3, <1>4, SlotMoves

LEMMA PassportStays ==
  ASSUME NEW s \in KycReqs, SameReads(s)
  PROVE  Passport(s)' = Passport(s) /\ Face(s)' = Face(s)
BY DEF SameReads, Passport, Face

LEMMA InsertEffect ==
  ASSUME KycTypeOK, NEW r \in KycReqs, InsertIdentity(r), Unique(Passport(r))
  PROVE  LET n == Len(identities) + 1 IN
         /\ n \notin DOMAIN identities /\ DOMAIN identities' = DOMAIN identities \cup {n}
         /\ identities'[n].passport = Passport(r)
         /\ identities'[n].face = Face(r)
         /\ identities'[n].known = kycReqs[r].known
         /\ \A i \in DOMAIN identities : identities'[i] = identities[i] /\ i < n
         /\ kycReqs'[r].identity = n
<1> DEFINE row == [passport |-> Passport(r), face |-> Face(r),
                   known |-> kycReqs[r].known]
<1>1. identities' = Append(identities, row) /\ kycReqs'[r].identity = Len(identities) + 1
  BY InsertSlot
<1>2. row.passport = Passport(r) /\ row.face = Face(r) /\ row.known = kycReqs[r].known
  OBVIOUS
<1> HIDE DEF row
<1>3. identities \in Seq(IdentityRow)
  BY DEF KycTypeOK
<1>4. /\ Len(identities) + 1 \notin DOMAIN identities
      /\ DOMAIN identities' = DOMAIN identities \cup {Len(identities) + 1}
      /\ identities'[Len(identities) + 1] = row
      /\ \A i \in DOMAIN identities : identities'[i] = identities[i] /\ i < Len(identities) + 1
  BY <1>1, <1>3
<1>5. QED BY <1>1, <1>2, <1>4

LEMMA HoldsStep ==
  ASSUME KycInvStep
  PROVE  HoldsItsIdentity'
<1> SUFFICES ASSUME NEW s \in KycReqs, kycReqs'[s].pc \in Holding
             PROVE  /\ kycReqs'[s].identity \in DOMAIN identities'
                    /\ identities'[kycReqs'[s].identity].passport = Passport(s)'
  BY DEF HoldsItsIdentity
<1> USE DEF KycInvStep, KycInv
<1>1. CASE InsertIdentity(s) /\ Unique(Passport(s))
  BY <1>1, InsertEffect, InsertSlot, PassportStays
<1>2. CASE kycReqs[s].pc \in Holding /\ SameReads(s)
           /\ kycReqs'[s].identity = kycReqs[s].identity
  <2>1. PICK i \in DOMAIN identities : i = kycReqs[s].identity
    BY <1>2 DEF HoldsItsIdentity
  <2>2. identities[i].passport = Passport(s)
    BY <1>2, <2>1 DEF HoldsItsIdentity
  <2>3. QED BY <1>2, <2>1, <2>2, IdentitiesAppended, PassportStays
<1>3. QED BY <1>1, <1>2, HolderMoves DEF HolderMove

LEMMA HeldStep ==
  ASSUME KycInvStep
  PROVE  HeldByOne'
<1> SUFFICES ASSUME NEW r \in KycReqs, NEW s \in KycReqs,
                    kycReqs'[r].pc \in Holding, kycReqs'[s].pc \in Holding,
                    kycReqs'[r].identity = kycReqs'[s].identity, r # s
             PROVE  FALSE
  BY DEF HeldByOne
<1> USE DEF KycInvStep, KycInv
<1>1. ASSUME NEW x \in KycReqs, NEW y \in KycReqs, x # y,
             InsertIdentity(x), Unique(Passport(x)), kycReqs'[y].pc \in Holding,
             kycReqs'[x].identity = kycReqs'[y].identity
      PROVE  FALSE
  <2>1. /\ kycReqs'[y] = kycReqs[y]
        /\ kycReqs'[x].identity \notin DOMAIN identities
    BY <1>1, InsertEffect, InsertSlot DEF OtherSlotsSame
  <2>2. kycReqs[y].identity \in DOMAIN identities
    BY <1>1, <2>1 DEF HoldsItsIdentity
  <2>3. QED BY <1>1, <2>1, <2>2
<1>2. CASE /\ kycReqs[r].pc \in Holding /\ kycReqs'[r].identity = kycReqs[r].identity
           /\ kycReqs[s].pc \in Holding /\ kycReqs'[s].identity = kycReqs[s].identity
  BY <1>2 DEF HeldByOne
<1>3. QED BY <1>1, <1>2, HolderMoves DEF HolderMove

\* The account of a linked identity presents the passport it is already
\* registered with, so it never reaches a second link.
LEMMA LinkedNeverLinks ==
  ASSUME KycInv, NEW r \in KycReqs, At(r, "user.link")
  PROVE  users[kycReqs[r].user].identity = NoValue
<1> USE DEF KycInv
<1>1. PICK u \in Users : u = kycReqs[r].user
  BY DEF BusyOK, At
<1>2. SUFFICES ASSUME users[u].identity # NoValue PROVE FALSE
  BY <1>1
<1>3. /\ users[u].identity \in DOMAIN identities
      /\ identities[users[u].identity].passport = PassportOf[Image(u, "passport_front")]
  BY <1>2 DEF IdentityOfFirstFront
<1>4. Passport(r) = PassportOf[Image(u, "passport_front")]
  BY <1>1 DEF PresentsFirstImages, Presents, Passport, At
<1>5. /\ kycReqs[r].identity \in DOMAIN identities
      /\ identities[kycReqs[r].identity].passport = Passport(r)
  BY DEF HoldsItsIdentity, Holding, At
<1>6. users[u].identity = kycReqs[r].identity
  BY <1>3, <1>4, <1>5 DEF PassportOnce
<1>7. QED BY <1>6 DEF LinkedByItsHolder, Holding, At

LEMMA IdentityStays ==
  ASSUME KycInvStep, NEW u \in Users, users[u].identity # NoValue
  PROVE  users'[u].identity = users[u].identity
<1> USE DEF KycInvStep
<1>1. ASSUME NEW r \in KycReqs, LinkUser(r)
      PROVE  users'[u].identity = users[u].identity
  <2>1. users[kycReqs[r].user].identity = NoValue
    BY <1>1, LinkedNeverLinks DEF LinkUser
  <2>2. QED BY <1>1, <2>1, LinkEffect DEF KycInv
<1>2. QED BY <1>1, UsersMove DEF KycInv

LEMMA LinkedStep ==
  ASSUME KycInvStep
  PROVE  LinkedByItsHolder'
<1> SUFFICES ASSUME NEW s \in KycReqs, kycReqs'[s].pc \in Holding
             PROVE  IF At(s, "user.link")'
                      THEN \A u \in Users : users'[u].identity # kycReqs'[s].identity
                      ELSE users'[kycReqs'[s].user].identity = kycReqs'[s].identity
  BY DEF LinkedByItsHolder, At
<1> USE DEF KycInvStep
<1>1. CASE InsertIdentity(s) /\ Unique(Passport(s)) /\ At(s, "user.link")'
  <2>1. UNCHANGED users /\ kycReqs'[s].identity = Len(identities) + 1
    BY <1>1, InsertSlot DEF KycInv
  <2>2. Len(identities) + 1 \in Nat /\ Len(identities) + 1 \notin DOMAIN identities
    BY DEF KycInv, KycTypeOK
  <2>3. \A u \in Users : users[u].identity # Len(identities) + 1
    BY <2>2, UserTableAssumption DEF KycInv, IdentityOfFirstFront
  <2>4. QED BY <1>1, <2>1, <2>3
<1>2. CASE /\ kycReqs[s].pc \in Holding /\ At(s, "user.link")'
           /\ kycReqs'[s] = kycReqs[s]
  <2>1. At(s, "user.link") /\ \A u \in Users : users[u].identity # kycReqs[s].identity
    BY <1>2 DEF KycInv, LinkedByItsHolder, At
  <2>2. ASSUME NEW r \in KycReqs, LinkUser(r)
        PROVE  \A u \in Users : users'[u].identity # kycReqs[s].identity
    <3>1. At(r, "user.link") /\ kycReqs'[r].pc = "scores.update"
      BY <2>2, GotoSlot DEF LinkUser, KycPc, KycInv
    <3>2. r # s
      BY <1>2, <3>1 DEF At
    <3>3. kycReqs[r].identity # kycReqs[s].identity
      BY <2>1, <3>1, <3>2 DEF KycInv, HeldByOne, Holding, At
    <3>4. QED BY <2>1, <2>2, <3>3, LinkEffect DEF KycInv
  <2>3. QED BY <1>2, <2>1, <2>2, UsersMove DEF KycInv
<1>3. CASE /\ At(s, "user.link") /\ ~At(s, "user.link")' /\ LinkUser(s)
           /\ SameReads(s) /\ kycReqs'[s].identity = kycReqs[s].identity
  BY <1>3, LinkEffect DEF KycInv, SameReads
<1>4. CASE /\ kycReqs[s].pc \in Holding /\ ~At(s, "user.link") /\ ~At(s, "user.link")'
           /\ SameReads(s) /\ kycReqs'[s].identity = kycReqs[s].identity
  <2>1. PICK u \in Users : u = kycReqs[s].user
    BY <1>4 DEF KycInv, BusyOK, Holding, At
  <2>2. users[u].identity = kycReqs[s].identity
    BY <1>4, <2>1 DEF KycInv, LinkedByItsHolder
  <2>3. users[u].identity # NoValue
    BY <1>4, <2>2, UserTableAssumption DEF KycInv, KycTypeOK, HoldsItsIdentity
  <2>4. QED BY <1>4, <2>1, <2>2, <2>3, IdentityStays DEF SameReads
<1>5. QED BY <1>1, <1>2, <1>3, <1>4, HolderMoves DEF HolderMove, KycInv, At

LEMMA FirstFrontStep ==
  ASSUME KycInvStep
  PROVE  IdentityOfFirstFront'
<1> SUFFICES ASSUME NEW u \in Users, users'[u].identity # NoValue
             PROVE  /\ users'[u].identity \in DOMAIN identities'
                    /\ Missing(u)' = {}
                    /\ identities'[users'[u].identity].passport
                         = PassportOf[Image(u, "passport_front")']
  BY DEF IdentityOfFirstFront
<1> USE DEF KycInvStep
<1>1. PICK i \in DOMAIN identities :
        /\ users'[u].identity = i /\ Missing(u) = {}
        /\ identities[i].passport = PassportOf[Image(u, "passport_front")]
  <2>1. CASE users[u].identity # NoValue
    BY <2>1, IdentityStays DEF KycInv, IdentityOfFirstFront
  <2>2. ASSUME NEW r \in KycReqs, LinkUser(r), u = kycReqs[r].user
        PROVE  \E i \in DOMAIN identities :
                 /\ users'[u].identity = i /\ Missing(u) = {}
                 /\ identities[i].passport = PassportOf[Image(u, "passport_front")]
    BY <2>2, LinkEffect
       DEF KycInv, PresentsFirstImages, Presents, Passport, LinkUser, At
  <2>3. CASE \A r \in KycReqs : LinkUser(r) => u # kycReqs[r].user
    BY <2>1, <2>3, UsersMove, LinkEffect DEF KycInv
  <2>4. QED BY <2>2, <2>3
<1>2. documents[u]["passport_front"] # <<>> /\ "passport_front" \in DocumentType
  BY <1>1 DEF Missing, DocumentType
<1>3. /\ Image(u, "passport_front")' = Image(u, "passport_front")
      /\ Missing(u)' = {}
  BY <1>1, <1>2, FirstImageStays, MissingStays DEF KycInv
<1>4. i \in DOMAIN identities' /\ identities'[i] = identities[i]
  BY IdentitiesAppended DEF KycInv
<1>5. QED BY <1>1, <1>3, <1>4

\* How a submission that has not inserted yet moves on.
LEMMA CheckerMoves ==
  ASSUME KycTypeOK, [KycNext]_kycVars, NEW s \in KycReqs,
         kycReqs'[s].pc \in Checking
  PROVE  \/ kycReqs'[s] = kycReqs[s]
         \/ kycReqs'[s].known = Len(identities) /\ ~At(s, "identity.insert")'
         \/ /\ kycReqs[s].pc \in Checking /\ SameReads(s) /\ UNCHANGED identities
            /\ At(s, "identity.insert")' => ~FaceKnown(Face(s))
<1> USE DEF Checking
<1>1. ASSUME NEW r \in KycReqs, NEW u \in Users, Verify(r, u)
      PROVE  \/ kycReqs'[s] = kycReqs[s]
             \/ kycReqs'[s].known = Len(identities) /\ ~At(s, "identity.insert")'
  BY <1>1, VerifySlot DEF OtherSlotsSame, At
<1>2. ASSUME NEW r \in KycReqs, End(r)
      PROVE  kycReqs'[s] = kycReqs[s]
  BY <1>2, EndSlot DEF OtherSlotsSame, IdleKyc
<1>3. ASSUME NEW r \in KycReqs, CheckPassport(r) \/ CheckFace(r)
      PROVE  \/ kycReqs'[s] = kycReqs[s]
             \/ /\ kycReqs[s].pc \in Checking /\ SameReads(s) /\ UNCHANGED identities
                /\ At(s, "identity.insert")' => ~FaceKnown(Face(s))
  <2>1. \/ End(r)
        \/ Goto(r, "face.check") /\ At(r, "passport.check") /\ UNCHANGED identities
        \/ /\ Goto(r, "identity.insert") /\ At(r, "face.check")
           /\ ~FaceKnown(Face(r)) /\ UNCHANGED identities
    BY <1>3 DEF CheckPassport, CheckFace, Refuse
  <2>2. QED BY <1>2, <2>1, GotoSlot DEF OtherSlotsSame, KycPc, At
<1>4. ASSUME NEW r \in KycReqs, InsertIdentity(r)
      PROVE  kycReqs'[s] = kycReqs[s]
  <2>1. End(r) \/ Unique(Passport(r))
    BY <1>4 DEF InsertIdentity, Refuse
  <2>2. QED BY <1>2, <1>4, <2>1, InsertSlot DEF OtherSlotsSame, At
<1>5. ASSUME NEW r \in KycReqs, NEW pc \in KycPc \ Checking, Goto(r, pc)
      PROVE  kycReqs'[s] = kycReqs[s]
  BY <1>5, GotoSlot DEF OtherSlotsSame
<1>6. ASSUME NEW r \in KycReqs, LinkUser(r) \/ UpdateScores(r)
      PROVE  kycReqs'[s] = kycReqs[s]
  BY <1>5, <1>6 DEF LinkUser, UpdateScores, KycPc
<1>7. ASSUME NEW r \in KycReqs, PublishVerified(r) \/ CrashKyc(r)
      PROVE  kycReqs'[s] = kycReqs[s]
  BY <1>2, <1>7 DEF PublishVerified, CrashKyc
<1>8. QED
  BY <1>1, <1>3, <1>4, <1>6, <1>7 DEF KycNext, KycStep, kycVars, UploadDocument

LEMMA FacesStep ==
  ASSUME KycInvStep
  PROVE  FacesSeenDiffer'
<1> SUFFICES ASSUME NEW s \in KycReqs
             PROVE  /\ kycReqs'[s].pc \in Checking
                         => kycReqs'[s].known <= Len(identities')
                    /\ At(s, "identity.insert")' =>
                         \A i \in DOMAIN identities' :
                           i <= kycReqs'[s].known => identities'[i].face # Face(s)'
  BY DEF FacesSeenDiffer
<1> USE DEF KycInvStep
<1>1. identities \in Seq(IdentityRow) /\ identities' \in Seq(IdentityRow)
      /\ kycReqs[s].known \in Nat
  BY KycTypeStep DEF KycInv, KycTypeOK, KycRequest
<1>2. \A i \in DOMAIN identities :
        i \in DOMAIN identities' /\ identities'[i] = identities[i]
  BY IdentitiesAppended DEF KycInv
<1>3. Len(identities) <= Len(identities')
  <2>1. CASE UNCHANGED identities
    BY <1>1, <2>1
  <2>2. ASSUME NEW r \in KycReqs, InsertIdentity(r), Unique(Passport(r))
        PROVE  Len(identities) <= Len(identities')
    BY <1>1, <2>2, InsertEffect DEF KycInv
  <2>3. QED BY <2>1, <2>2, IdentitiesMove DEF KycInv
<1>4. \A i \in DOMAIN identities' : i <= Len(identities) => i \in DOMAIN identities
  BY <1>1
<1>5. CASE kycReqs'[s] = kycReqs[s]
  <2>1. Face(s)' = Face(s)
    BY <1>5 DEF Face
  <2>2. /\ kycReqs[s].pc \in Checking => kycReqs[s].known <= Len(identities)
        /\ At(s, "identity.insert") =>
             \A i \in DOMAIN identities :
               i <= kycReqs[s].known => identities[i].face # Face(s)
    BY DEF KycInv, FacesSeenDiffer
  <2>3. At(s, "identity.insert")' => /\ At(s, "identity.insert")
                                    /\ kycReqs[s].pc \in Checking
    BY <1>5 DEF At, Checking
  <2>4. QED BY <1>1, <1>2, <1>3, <1>4, <1>5, <2>1, <2>2, <2>3
<1>6. CASE kycReqs'[s].known = Len(identities) /\ ~At(s, "identity.insert")'
  BY <1>3, <1>6
<1>7. CASE /\ kycReqs[s].pc \in Checking /\ SameReads(s) /\ UNCHANGED identities
           /\ At(s, "identity.insert")' => ~FaceKnown(Face(s))
  <2>1. kycReqs'[s].known = kycReqs[s].known /\ kycReqs[s].known <= Len(identities)
    BY <1>7 DEF SameReads, KycInv, FacesSeenDiffer
  <2>2. QED BY <1>7, <2>1, PassportStays DEF FaceKnown
<1>8. kycReqs'[s].pc \notin Checking => ~At(s, "identity.insert")'
  BY DEF Checking, At
<1>9. QED BY <1>5, <1>6, <1>7, <1>8, CheckerMoves DEF KycInv

LEMMA PassportOnceStep ==
  ASSUME KycInvStep
  PROVE  PassportOnce'
<1> USE DEF KycInvStep
<1>1. ASSUME NEW r \in KycReqs, InsertIdentity(r), Unique(Passport(r))
      PROVE  PassportOnce'
  BY <1>1, InsertEffect DEF KycInv, PassportOnce, Unique, PassportKnown
<1>2. CASE UNCHANGED identities
  BY <1>2 DEF KycInv, PassportOnce
<1>3. QED BY <1>1, <1>2, IdentitiesMove DEF KycInv

LEMMA OneAccountStep ==
  ASSUME KycInvStep
  PROVE  OneAccountPerIdentity'
<1> USE DEF KycInvStep
<1>1. ASSUME NEW r \in KycReqs, LinkUser(r)
      PROVE  OneAccountPerIdentity'
  <2>1. \A u \in Users : users[u].identity # kycReqs[r].identity
    BY <1>1, LinkEffect DEF KycInv, LinkedByItsHolder, Holding, At
  <2>2. QED BY <1>1, <2>1, LinkEffect DEF KycInv, OneAccountPerIdentity
<1>2. CASE UNCHANGED users
  BY <1>2 DEF KycInv, OneAccountPerIdentity
<1>3. QED BY <1>1, <1>2, UsersMove DEF KycInv

LEMMA SharedFaceStep ==
  ASSUME KycInvStep
  PROVE  SharedFaceOnlyByRace'
<1> USE DEF KycInvStep
<1>1. ASSUME NEW r \in KycReqs, InsertIdentity(r), Unique(Passport(r))
      PROVE  SharedFaceOnlyByRace'
  <2>1. \A i \in DOMAIN identities :
          i <= kycReqs[r].known => identities[i].face # Face(r)
    BY <1>1 DEF KycInv, FacesSeenDiffer, InsertIdentity
  <2>2. DOMAIN identities \subseteq Nat /\ kycReqs[r].known \in Nat
    BY DEF KycInv, KycTypeOK, KycRequest
  <2>3. QED
    BY <1>1, <2>1, <2>2, InsertEffect DEF KycInv, SharedFaceOnlyByRace
<1>2. CASE UNCHANGED identities
  BY <1>2 DEF KycInv, SharedFaceOnlyByRace
<1>3. QED BY <1>1, <1>2, IdentitiesMove DEF KycInv

\* A score, once written, stays.
LEMMA ScoreStays ==
  ASSUME KycTypeOK, [KycNext]_kycVars, NEW u \in Users,
         documents[u]["selfie"] # <<>>, documents[u]["selfie"][1].scored
  PROVE  documents'[u]["selfie"][1].scored
<1> DEFINE D == documents[u]["selfie"]
<1>0. /\ D \in Seq(DocumentRow) /\ 1 \in DOMAIN D /\ D[1] \in DocumentRow
      /\ documents \in [Users -> [DocumentType -> Seq(DocumentRow)]]
      /\ "selfie" \in DocumentType
  BY DEF KycTypeOK, DocumentsOK, DocumentType
<1>1. ASSUME NEW v \in Users, NEW t \in DocumentType, NEW image \in Images(t),
             UploadDocument(v, t, image)
      PROVE  documents'[u]["selfie"][1].scored
  <2> DEFINE row == [image |-> image, scored |-> FALSE]
  <2>1. documents'[u]["selfie"] \in {D, Append(D, row)}
    BY <1>0, <1>1 DEF UploadDocument
  <2>2. row \in DocumentRow
    BY <1>1 DEF DocumentRow, Images, DocumentType
  <2> HIDE DEF row, D
  <2>3. Append(D, row)[1] = D[1]
    BY <1>0, <2>2
  <2>4. QED BY <2>1, <2>3 DEF D
<1>2. ASSUME NEW r \in KycReqs, UpdateScores(r)
      PROVE  documents'[u]["selfie"][1].scored
  <2> DEFINE S == [D EXCEPT ![1].scored = TRUE]
  <2>1. documents'[u]["selfie"] \in {D, S}
    BY <1>0, <1>2 DEF UpdateScores, Found
  <2>2. S[1] = [D[1] EXCEPT !.scored = TRUE]
    BY <1>0
  <2>3. [D[1] EXCEPT !.scored = TRUE].scored
    BY <1>0 DEF DocumentRow
  <2> HIDE DEF S
  <2>4. QED BY <2>1, <2>2, <2>3
<1>3. CASE UNCHANGED documents
  BY <1>3
<1>4. QED
  BY <1>1, <1>2, <1>3 DEF KycNext, KycStep, kycVars, Verify, CheckPassport,
     CheckFace, InsertIdentity, LinkUser, PublishVerified, CrashKyc, Refuse

LEMMA ScoredStep ==
  ASSUME KycInvStep
  PROVE  ScoredBeforePublish'
<1> SUFFICES ASSUME NEW s \in KycReqs, At(s, "publish")'
             PROVE  documents'[kycReqs'[s].user]["selfie"][1].scored
  BY DEF ScoredBeforePublish
<1> USE DEF KycInvStep
<1>1. /\ kycReqs[s].pc \in Holding /\ SameReads(s)
      /\ ~At(s, "publish") => UpdateScores(s)
  BY HolderMoves DEF KycInv, HolderMove, Holding, At
<1>2. PICK u \in Users : u = kycReqs[s].user
  BY <1>1 DEF KycInv, BusyOK, Holding, At
<1>3. documents[u]["selfie"] # <<>>
  BY <1>1, <1>2
     DEF KycInv, PresentsFirstImages, Presents, Missing, DocumentType, Holding, At
<1>4. CASE At(s, "publish")
  <2>1. documents[u]["selfie"][1].scored
    BY <1>2, <1>4 DEF KycInv, ScoredBeforePublish
  <2>2. QED BY <1>1, <1>2, <1>3, <2>1, ScoreStays DEF KycInv, SameReads
<1>5. CASE UpdateScores(s)
  <2> DEFINE D == documents[u]["selfie"]
             S == [D EXCEPT ![1].scored = TRUE]
  <2>1. /\ D \in Seq(DocumentRow) /\ 1 \in DOMAIN D /\ D[1] \in DocumentRow
        /\ documents \in [Users -> [DocumentType -> Seq(DocumentRow)]]
        /\ "selfie" \in DocumentType
    BY <1>3 DEF KycInv, KycTypeOK, DocumentsOK, DocumentType
  <2>2. documents'[u]["selfie"] = S
    BY <1>2, <1>5, <2>1 DEF UpdateScores, Found
  <2>3. S[1] = [D[1] EXCEPT !.scored = TRUE]
    BY <2>1
  <2>4. [D[1] EXCEPT !.scored = TRUE].scored
    BY <2>1 DEF DocumentRow
  <2> HIDE DEF S
  <2>5. QED BY <1>1, <1>2, <2>2, <2>3, <2>4 DEF SameReads
<1>6. QED BY <1>1, <1>4, <1>5

LEMMA PublishedStep ==
  ASSUME KycInvStep
  PROVE  EventsWellFormed' /\ VerifiedIsLinked'
<1> SUFFICES ASSUME NEW e \in published'
             PROVE  /\ e.user \in Users /\ e.identity # NoValue
                    /\ Missing(e.user)'  = {}
                    /\ users'[e.user].identity = e.identity
                    /\ documents'[e.user]["selfie"][1].scored
  BY DEF EventsWellFormed, VerifiedIsLinked, Missing
<1> USE DEF KycInvStep
<1>1. /\ e.user \in Users /\ e.identity # NoValue
      /\ Missing(e.user) = {}
      /\ users[e.user].identity = e.identity
      /\ documents[e.user]["selfie"][1].scored
  <2>1. CASE e \in published
    BY <2>1 DEF KycInv, EventsWellFormed, VerifiedIsLinked
  <2>2. ASSUME NEW r \in KycReqs, PublishVerified(r), e \notin published
        PROVE  /\ e.user \in Users /\ e.identity # NoValue
               /\ Missing(e.user) = {}
               /\ users[e.user].identity = e.identity
               /\ documents[e.user]["selfie"][1].scored
    <3>1. e = [type |-> "identity.verified", user |-> kycReqs[r].user,
               identity |-> kycReqs[r].identity]
      BY <2>2 DEF PublishVerified, Publish
    <3>2. At(r, "publish") /\ e.user = kycReqs[r].user /\ e.identity = kycReqs[r].identity
      BY <2>2, <3>1 DEF PublishVerified
    <3>3. /\ kycReqs[r].user \in Users /\ Missing(kycReqs[r].user) = {}
          /\ documents[kycReqs[r].user]["selfie"][1].scored
      BY <3>2
         DEF KycInv, BusyOK, PresentsFirstImages, Presents, ScoredBeforePublish, At
    <3>4. /\ kycReqs[r].identity \in DOMAIN identities
          /\ users[kycReqs[r].user].identity = kycReqs[r].identity
      BY <3>2 DEF KycInv, HoldsItsIdentity, LinkedByItsHolder, Holding, At
    <3>5. kycReqs[r].identity # NoValue
      BY <3>4, UserTableAssumption DEF KycInv, KycTypeOK
    <3>6. QED BY <3>2, <3>3, <3>4, <3>5
  <2>3. QED BY <2>1, <2>2, PublishedMove DEF KycInv
<1>2. PICK u \in Users : u = e.user
  BY <1>1
<1>3. documents[u]["selfie"] # <<>>
  BY <1>1, <1>2 DEF Missing, DocumentType
<1>4. users'[u].identity = users[u].identity /\ Missing(u)' = {}
      /\ documents'[u]["selfie"][1].scored
  BY <1>1, <1>2, <1>3, IdentityStays, MissingStays, ScoreStays DEF KycInv
<1>5. QED BY <1>1, <1>2, <1>4 DEF Missing

LEMMA AccountedStep ==
  ASSUME KycInvStep
  PROVE  IdentitiesAccountedFor'
<1> USE DEF KycInvStep
<1> SUFFICES ASSUME NEW i \in DOMAIN identities'
             PROVE  \/ i \in lost'
                    \/ \E u \in Users : users'[u].identity = i
                    \/ \E r \in KycReqs : At(r, "user.link")' /\ kycReqs'[r].identity = i
  BY DEF IdentitiesAccountedFor, At
<1>1. CASE i \notin DOMAIN identities
  <2>1. PICK r \in KycReqs : InsertIdentity(r) /\ Unique(Passport(r))
    BY <1>1, IdentitiesMove DEF KycInv
  <2>2. kycReqs'[r].identity = i
    BY <1>1, <2>1, InsertEffect DEF KycInv
  <2>3. QED BY <2>1, <2>2, InsertSlot DEF KycInv
<1>2. CASE i \in lost
  BY <1>2 DEF KycNext, KycStep, kycVars, Verify, CheckPassport, CheckFace,
     UploadDocument, InsertIdentity, LinkUser, UpdateScores, PublishVerified,
     CrashKyc, Refuse
<1>3. ASSUME NEW u \in Users, users[u].identity = i, i \in DOMAIN identities
      PROVE  users'[u].identity = i
  <2>1. i # NoValue
    BY <1>3, UserTableAssumption DEF KycInv, KycTypeOK
  <2>2. QED BY <1>3, <2>1, IdentityStays
<1>4. ASSUME NEW s \in KycReqs, At(s, "user.link"), kycReqs[s].identity = i
      PROVE  \/ i \in lost'
             \/ \E u \in Users : users'[u].identity = i
             \/ \E r \in KycReqs : At(r, "user.link")' /\ kycReqs'[r].identity = i
  <2>1. CASE kycReqs'[s] = kycReqs[s]
    BY <1>4, <2>1 DEF At
  <2>2. ASSUME NEW r \in KycReqs, CrashKyc(r)
        PROVE  i \in lost' \/ kycReqs'[s] = kycReqs[s]
    BY <1>4, <2>2, EndSlot DEF CrashKyc, OtherSlotsSame, KycInv
  <2>3. ASSUME NEW r \in KycReqs, LinkUser(r)
        PROVE  (\E u \in Users : users'[u].identity = i) \/ kycReqs'[s] = kycReqs[s]
    BY <1>4, <2>3, LinkEffect, GotoSlot
       DEF LinkUser, KycPc, OtherSlotsSame, KycInv
  <2>4. ASSUME NEW r \in KycReqs, ~LinkUser(r), KycStep(r)
        PROVE  kycReqs'[s] = kycReqs[s]
    <3>1. ~At(r, "user.link")
      BY <2>4 DEF KycStep, CheckPassport, CheckFace, InsertIdentity, UpdateScores,
         PublishVerified, At
    <3>2. r # s
      BY <1>4, <3>1
    <3>3. \/ End(r) \/ \E pc \in KycPc : Goto(r, pc)
          \/ InsertIdentity(r) /\ Unique(Passport(r))
      BY <2>4 DEF KycStep, CheckPassport, CheckFace, InsertIdentity, UpdateScores,
         PublishVerified, Refuse, KycPc
    <3>4. QED
      BY <3>2, <3>3, EndSlot, GotoSlot, InsertSlot DEF OtherSlotsSame, KycInv
  <2>5. ASSUME NEW r \in KycReqs, NEW u \in Users, Verify(r, u)
        PROVE  kycReqs'[s] = kycReqs[s]
    BY <1>4, <2>5, VerifySlot DEF OtherSlotsSame, KycInv, Verify, At
  <2>6. QED
    BY <2>1, <2>2, <2>3, <2>4, <2>5 DEF KycNext, kycVars, UploadDocument
<1>5. QED BY <1>1, <1>2, <1>3, <1>4 DEF KycInv, IdentitiesAccountedFor

-------------------------------------------------------------------------------
LEMMA KycInvInit ==
  ASSUME KycInit
  PROVE  KycInv
<1>1. KycTypeOK
  BY DEF KycInit, KycTypeOK, DocumentsOK, IdleKyc, KycRequest, KycPc, UserRow,
     UserStatus
<1>2. \A r \in KycReqs : At(r, "idle") /\ kycReqs[r].pc \notin Holding
  BY DEF KycInit, IdleKyc, At, Holding
<1>3. identities = <<>> /\ published = {} /\ \A u \in Users : users[u].identity = NoValue
  BY DEF KycInit
<1>4. /\ BusyOK /\ PresentsFirstImages /\ HoldsItsIdentity /\ HeldByOne
      /\ LinkedByItsHolder /\ ScoredBeforePublish
  BY <1>2 DEF BusyOK, PresentsFirstImages, HoldsItsIdentity, HeldByOne,
     LinkedByItsHolder, ScoredBeforePublish, At
<1>5. FacesSeenDiffer
  BY <1>2 DEF FacesSeenDiffer, Checking, At
<1>6. /\ IdentityOfFirstFront /\ EventsWellFormed /\ IdentitiesAccountedFor
      /\ PassportOnce /\ OneAccountPerIdentity /\ SharedFaceOnlyByRace
      /\ VerifiedIsLinked
  BY <1>3 DEF IdentityOfFirstFront, EventsWellFormed, IdentitiesAccountedFor,
     PassportOnce, OneAccountPerIdentity, SharedFaceOnlyByRace, VerifiedIsLinked
<1>7. QED BY <1>1, <1>4, <1>5, <1>6 DEF KycInv

LEMMA KycInvNext ==
  ASSUME KycInv, [KycNext]_kycVars
  PROVE  KycInv'
<1>1. KycInvStep
  BY DEF KycInvStep
<1>2. KycTypeOK' /\ BusyOK'
  BY KycTypeStep, BusyStep DEF KycInv
<1>3. QED
  BY <1>1, <1>2, PresentsStep, HoldsStep, HeldStep, LinkedStep, FirstFrontStep,
     FacesStep, ScoredStep, PublishedStep, AccountedStep, PassportOnceStep,
     OneAccountStep, SharedFaceStep DEF KycInv

LEMMA KycInvariant == KycSpec => []KycInv
<1>1. KycInit => KycInv
  BY KycInvInit
<1>2. KycInv /\ [KycNext]_kycVars => KycInv'
  BY KycInvNext
<1>3. QED BY <1>1, <1>2, PTL DEF KycSpec

\* The identity service's rows and handler variables keep their types.
THEOREM KycTypeCorrect == KycSpec => []KycTypeOK
<1>1. KycInv => KycTypeOK
  BY DEF KycInv
<1>2. QED BY <1>1, KycInvariant, PTL

\* However many submissions race, one passport is registered once.
THEOREM PassportRegisteredOnce == KycSpec => []PassportOnce
<1>1. KycInv => PassportOnce
  BY DEF KycInv
<1>2. QED BY <1>1, KycInvariant, PTL

\* No two accounts are linked to one identity, although no constraint of the
\* users table says so.
THEOREM AccountsDoNotShareIdentity == KycSpec => []OneAccountPerIdentity
<1>1. KycInv => OneAccountPerIdentity
  BY DEF KycInv
<1>2. QED BY <1>1, KycInvariant, PTL

\* A second identity with a face was submitted before the first was inserted.
THEOREM FacesSharedOnlyByRace == KycSpec => []SharedFaceOnlyByRace
<1>1. KycInv => SharedFaceOnlyByRace
  BY DEF KycInv
<1>2. QED BY <1>1, KycInvariant, PTL

\* Who hears that an account is verified finds it linked and scored.
THEOREM VerifiedEventsTrue == KycSpec => []VerifiedIsLinked
<1>1. KycInv => VerifiedIsLinked
  BY DEF KycInv
<1>2. QED BY <1>1, KycInvariant, PTL

\* Only a crash makes a passport unusable for the person it belongs to.
THEOREM DuplicatesReal == KycSpec => []DuplicateIsReal
<1>1. KycInv => DuplicateIsReal
  <2> SUFFICES ASSUME KycInv, NEW u \in Users, CanVerify(u),
                      NEW i \in DOMAIN identities, i \notin lost,
                      NEW p, identities[i].passport = p, NoHandlerOnPassport(p)
               PROVE  \E v \in Users \ {u} : users[v].identity = i
    BY DEF DuplicateIsReal
  <2>1. ~ \E r \in KycReqs : At(r, "user.link") /\ kycReqs[r].identity = i
    BY DEF KycInv, HoldsItsIdentity, Holding, NoHandlerOnPassport, At
  <2>2. PICK v \in Users : users[v].identity = i
    BY <2>1 DEF KycInv, IdentitiesAccountedFor
  <2>3. v # u
    BY <2>2, UserTableAssumption DEF CanVerify, KycInv, KycTypeOK
  <2>4. QED BY <2>2, <2>3
<1>2. QED BY <1>1, KycInvariant, PTL

\* An account is linked to an identity at most once.
THEOREM IdentitiesNeverReplaced == KycSpec => IdentityNeverReplaced
<1>1. KycInv /\ [KycNext]_kycVars
        => [\A u \in Users : users[u].identity # NoValue
              => users'[u].identity = users[u].identity]_kycVars
  BY IdentityStays DEF KycInvStep
<1>2. QED BY <1>1, KycInvariant, PTL DEF KycSpec, IdentityNeverReplaced
=================================================================================
