-------------------------------- MODULE Identity --------------------------------
(***************************************************************************)
(* The identity service: KycVerificationService and IdentityService with   *)
(* the repository under them.  A submission is a slot r of KycReqs; its pc *)
(* names the next statement of KycVerificationService.verify.  Between the *)
(* statements other submissions run, of the same account or of another,    *)
(* so what the duplicate tests found may no longer hold when the identity  *)
(* is inserted.                                                            *)
(***************************************************************************)
EXTENDS UserTable, EventBus, Sequences

CONSTANTS Fronts, Backs, Selfies,   \* uploaded images, by their storage_url
          Passports, Faces,         \* hashes of passport numbers and of faces
          PassportOf,    \* the passport number the OCR reads off a front image
          FaceOf,        \* the embedding of a selfie
          MockProvider,  \* KYC_OCR_PROVIDER === 'mock'
          KycReqs,       \* bound: submissions the service runs at once
          MaxUploads,    \* bound: documents of one type a user uploads
          Crashes        \* may a handler die between two statements?

ASSUME IdentityAssumption ==
  /\ PassportOf \in [Fronts -> Passports]
  /\ FaceOf \in [Selfies -> Faces]
  /\ NoValue \notin Passports \cup Faces \cup Fronts \cup Backs \cup Selfies
  /\ MockProvider \in BOOLEAN /\ Crashes \in BOOLEAN
  
VARIABLES identities,    \* the identities table; an id is a position
          documents,     \* documents[u][type]: rows of that type by created_at
          kycReqs,       \* kycReqs[r]: the submission running in slot r
          lost           \* history: ids whose handler died before the link

kycVars == <<users, identities, documents, kycReqs, lost, published>>

\* The document types verify() asks for, and the images of each.
DocumentType == {"passport_front", "passport_back", "selfie"}
Images(type) == CASE type = "passport_front" -> Fronts
                  [] type = "passport_back"  -> Backs
                  [] type = "selfie"         -> Selfies
DocumentRow == [image : Fronts \cup Backs \cup Selfies, scored : BOOLEAN]

\* known is no column: how many identities there were when the submission
\* that inserted this row began.
IdentityRow == [passport : Passports, face : Faces, known : Nat]

KycPc == {"idle", "passport.check", "face.check", "identity.insert",
          "user.link", "scores.update", "publish"}

KycRequest == [pc       : KycPc,
               user     : Users \cup {NoValue},
               front    : Fronts \cup {NoValue},
               selfie   : Selfies \cup {NoValue},
               identity : Nat \cup {NoValue},
               known    : Nat]

IdleKyc == [pc |-> "idle", user |-> NoValue, front |-> NoValue,
            selfie |-> NoValue, identity |-> NoValue, known |-> 0]

\* Every user has logged in before he uploads anything.
KycInit ==
  /\ \E phone \in [Users -> Phones] :
       /\ \A u, v \in Users : phone[u] = phone[v] => u = v
       /\ users = [u \in Users |-> [status |-> "pending_kyc",
                                    phone  |-> phone[u], identity |-> NoValue]]
  /\ identities = <<>>
  /\ documents = [u \in Users |-> [type \in DocumentType |-> <<>>]]
  /\ kycReqs = [r \in KycReqs |-> IdleKyc]
  /\ lost = {}
  /\ published = {}

-------------------------------------------------------------------------------
\* Slots, as in RideService.

At(r, pc) == kycReqs[r].pc = pc
Goto(r, pc) == kycReqs' = [kycReqs EXCEPT ![r].pc = pc]
End(r) == kycReqs' = [kycReqs EXCEPT ![r] = IdleKyc]

\* The handler throws, and the client is told.
Refuse(r) == End(r) /\ UNCHANGED <<users, identities, documents, lost, published>>

-------------------------------------------------------------------------------
\* POST /identity/documents: one INSERT, whatever was uploaded before.
UploadDocument(u, type, image) ==
  /\ Len(documents[u][type]) < MaxUploads[type]
  /\ documents' = [documents EXCEPT ![u][type] =
                     Append(@, [image |-> image, scored |-> FALSE])]
  /\ UNCHANGED <<users, identities, kycReqs, lost, published>>

\* (faulty variant) the newest document of the type
FoundNewest(u, type) == Len(documents[u][type])

\* documents.find(d => d.type === type) on rows ordered by created_at: the
\* first one uploaded, for ever.
Found(u, type) == 1

Image(u, type) == documents[u][type][Found(u, type)].image

Missing(u) == {type \in DocumentType : documents[u][type] = <<>>}

\* GET /identity/status
CanVerify(u) == Missing(u) = {} /\ users[u].identity = NoValue

-------------------------------------------------------------------------------
\* POST /identity/verify

\* The documents are read and the passport number is read off the front image
\* (any provider but the mock one answers null, and the request is refused).
Verify(r, u) ==
  /\ At(r, "idle")
  /\ Missing(u) = {}
  /\ MockProvider
  /\ kycReqs' = [kycReqs EXCEPT ![r] =
       [pc       |-> "passport.check",
        user     |-> u,
        front    |-> Image(u, "passport_front"),
        selfie   |-> Image(u, "selfie"),
        identity |-> NoValue,
        known    |-> Len(identities)]]
  /\ UNCHANGED <<users, identities, documents, lost, published>>

Passport(r) == PassportOf[kycReqs[r].front]

\* (faulty variant) an embedding service that answers nothing
FaceMissing(r) == NoValue

Face(r) == FaceOf[kycReqs[r].selfie]

PassportKnown(passport) ==
  \E i \in DOMAIN identities : identities[i].passport = passport

\* (faulty variant) the duplicate face test left out
FaceKnownUnchecked(face) == FALSE

FaceKnown(face) == \E i \in DOMAIN identities : identities[i].face = face

\* findByPassportHash
CheckPassport(r) ==
  /\ At(r, "passport.check")
  /\ \/ /\ ~PassportKnown(Passport(r))
        /\ Goto(r, "face.check")
        /\ UNCHANGED <<users, identities, documents, lost, published>>
     \/ PassportKnown(Passport(r)) /\ Refuse(r)

\* The mock provider finds every selfie alive and every pair of faces alike,
\* so findByFaceHash is the next thing that can refuse.
CheckFace(r) ==
  /\ At(r, "face.check")
  /\ \/ /\ ~FaceKnown(Face(r))
        /\ Goto(r, "identity.insert")
        /\ UNCHANGED <<users, identities, documents, lost, published>>
     \/ FaceKnown(Face(r)) /\ Refuse(r)

\* (faulty variant) passport_number_hash without UNIQUE
UniqueUnchecked(passport) == TRUE

\* passport_number_hash VARCHAR(64) NOT NULL UNIQUE; the face has no constraint.
Unique(passport) == ~PassportKnown(passport)

\* (faulty variant) ON CONFLICT ... RETURNING: the row that is already there
InsertOrReuse(r) ==
  LET ids == {i \in DOMAIN identities : identities[i].passport = Passport(r)}
  IN
  /\ At(r, "identity.insert")
  /\ IF ids = {} THEN identities' = Append(identities, [passport |-> Passport(r),
                           face |-> Face(r), known |-> kycReqs[r].known])
                 ELSE UNCHANGED identities
  /\ kycReqs' = [kycReqs EXCEPT ![r] =
       [@ EXCEPT !.pc = "user.link",
                 !.identity = IF ids = {} THEN Len(identities) + 1
                                          ELSE CHOOSE i \in ids : TRUE]]
  /\ UNCHANGED <<users, documents, lost, published>>

\* createIdentity
InsertIdentity(r) ==
  LET q == kycReqs[r] IN
  /\ At(r, "identity.insert")
  /\ \/ /\ Unique(Passport(r))
        /\ identities' = Append(identities, [passport |-> Passport(r),
                                             face     |-> Face(r),
                                             known    |-> q.known])
        /\ kycReqs' = [kycReqs EXCEPT ![r] =
                         [@ EXCEPT !.pc = "user.link",
                                   !.identity = Len(identities) + 1]]
        /\ UNCHANGED <<users, documents, lost, published>>
     \/ ~Unique(Passport(r)) /\ Refuse(r)

\* (faulty variant) the event first, the link after it
PublishBeforeLink(r) ==
  LET q == kycReqs[r] IN
  /\ At(r, "user.link")
  /\ Publish("identity", [type |-> "identity.verified",
                          user |-> q.user, identity |-> q.identity])
  /\ UNCHANGED <<users, identities, documents, lost>>
  /\ Goto(r, "scores.update")

LinkUser(r) ==
  /\ At(r, "user.link")
  /\ LinkUserToIdentity(kycReqs[r].user, kycReqs[r].identity)
  /\ Goto(r, "scores.update")
  /\ UNCHANGED <<identities, documents, lost, published>>

\* updateDocumentScores, of the selfie that was read at the start
UpdateScores(r) ==
  LET u == kycReqs[r].user IN
  /\ At(r, "scores.update")
  /\ documents' = [documents EXCEPT ![u]["selfie"][Found(u, "selfie")].scored = TRUE]
  /\ Goto(r, "publish")
  /\ UNCHANGED <<users, identities, lost, published>>

PublishVerified(r) ==
  LET q == kycReqs[r] IN
  /\ At(r, "publish")
  /\ Publish("identity", [type |-> "identity.verified",
                          user |-> q.user, identity |-> q.identity])
  /\ End(r)
  /\ UNCHANGED <<users, identities, documents, lost>>

\* The process dies, or a query throws, at the handler's next statement.
CrashKyc(r) ==
  /\ Crashes
  /\ ~At(r, "idle")
  /\ lost' = IF At(r, "user.link") THEN lost \cup {kycReqs[r].identity} ELSE lost
  /\ End(r)
  /\ UNCHANGED <<users, identities, documents, published>>

-------------------------------------------------------------------------------
KycStep(r) == \/ CheckPassport(r) \/ CheckFace(r) \/ InsertIdentity(r)
              \/ LinkUser(r) \/ UpdateScores(r) \/ PublishVerified(r)

KycNext ==
  \/ \E u \in Users, type \in DocumentType : \E image \in Images(type) :
       UploadDocument(u, type, image)
  \/ \E r \in KycReqs : \/ \E u \in Users : Verify(r, u)
                        \/ KycStep(r)
                        \/ CrashKyc(r)

KycSpec == KycInit /\ [][KycNext]_kycVars

-------------------------------------------------------------------------------
(***************************************************************************)
(* Properties                                                              *)
(***************************************************************************)

\* The columns and the handlers' local variables keep their types.
DocumentsOK ==
  /\ documents \in [Users -> [DocumentType -> Seq(DocumentRow)]]
  /\ \A u \in Users, type \in DocumentType : \A i \in DOMAIN documents[u][type] :
       documents[u][type][i].image \in Images(type)

KycTypeOK ==
  /\ users \in [Users -> UserRow]
  /\ identities \in Seq(IdentityRow)
  /\ DocumentsOK
  /\ kycReqs \in [KycReqs -> KycRequest]
  /\ lost \subseteq Nat \cup {NoValue}

\* One passport, one identity, however many submissions passed the duplicate
\* test before any of them inserted (README.md, "One person = One account").
PassportOnce ==
  \A i, j \in DOMAIN identities :
    identities[i].passport = identities[j].passport => i = j

\* One identity, one account: users.identity_id carries no UNIQUE constraint,
\* so this rests on who may hold an identity between its INSERT and its link.
OneAccountPerIdentity ==
  \A u, v \in Users :
    users[u].identity = users[v].identity /\ users[u].identity # NoValue => u = v

\* An account never changes person: verify() can be submitted again, and the
\* link overwrites, but a second submission of the same account always
\* presents the same passport and is refused.
IdentityNeverReplaced ==
  [][\A u \in Users : users[u].identity # NoValue
                        => users'[u].identity = users[u].identity]_kycVars

\* Two identities share a face only when their submissions overlapped: the
\* face was not registered when the later one began.
SharedFaceOnlyByRace ==
  \A i, j \in DOMAIN identities :
    i < j /\ identities[i].face = identities[j].face => i > identities[j].known

\* An identity.verified event is published only when the account carries the
\* identity and the selfie its scores.
VerifiedIsLinked ==
  \A e \in published : /\ users[e.user].identity = e.identity
                       /\ documents[e.user]["selfie"][1].scored

\* A user whom GET /identity/status tells that he can verify, while nobody is
\* verifying that passport, is refused as a duplicate only if another account
\* has his passport, or a crash lost the link of the identity that holds it.
NoHandlerOnPassport(p) ==
  \A r \in KycReqs : At(r, "idle") \/ Passport(r) # p

DuplicateIsReal ==
  \A u \in Users : CanVerify(u) =>
    LET p == PassportOf[documents[u]["passport_front"][1].image] IN
    \A i \in DOMAIN identities :
      identities[i].passport = p /\ NoHandlerOnPassport(p) =>
        i \in lost \/ \E v \in Users \ {u} : users[v].identity = i
=================================================================================
