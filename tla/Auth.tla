--------------------------------- MODULE Auth ---------------------------------
(***************************************************************************)
(* The auth service: AuthService, OtpService and TokenService over the     *)
(* users and refresh_tokens tables and RedisService.  A request is a slot  *)
(* r of AuthReqs, as in RideService; its pc names the handler's next call. *)
(* A code is the number of the attempt that sent it, a refresh token its   *)
(* row in the table, and an access token the claims that row was issued    *)
(* with.                                                                   *)
(***************************************************************************)
EXTENDS UserTable, RedisService, EventBus, Gateway, FiniteSets

CONSTANTS AuthReqs,      \* bound: requests the service runs at once
          MaxAttempts,   \* attempts > MaxAttempts are refused (5 in the code)
          MaxSends,      \* bound: attempts to send a code
          MaxTokens,     \* bound: refresh tokens ever issued
          MaxRestarts,   \* bound: restarts of the process
          Crashes        \* may a handler die between two calls?

ASSUME AuthAssumption ==
  /\ MaxAttempts \in Nat \ {0} /\ MaxSends \in Nat /\ MaxTokens \in Nat
  /\ MaxRestarts \in Nat /\ Crashes \in BOOLEAN
  /\ Keys = {"rate", "otp"} \X Phones /\ Absent \notin Nat
  /\ IsFiniteSet(Users)

VARIABLES tokens,        \* the refresh_tokens table; a row is never reused
          authReqs,
          sends,         \* history: attempts to send a code so far
          accepted,      \* history: the codes that were accepted, in order
          cut,           \* history: a handler died
          restarts       \* history: restarts of the process so far

authVars == <<users, redis, memory, useMemory, failed, published,
              tokens, authReqs, sends, accepted, cut, restarts>>

\* phone, parent and known are no columns: the phone whose code was accepted,
\* the token that was exchanged for this one, and how many tokens had been
\* issued when that exchange began.  status and identity are the claims of the
\* access token that was issued with it.
Token == [user     : Users,
          live     : BOOLEAN,
          status   : UserStatus,
          identity : Nat \cup {NoValue},
          phone    : Phones,
          parent   : Nat,
          known    : Nat]

\* The code that was accepted, and how many had been when it was read.
Acceptance == [code : Nat, known : Nat]

AuthPc == {"idle", "otp.expire", "otp.set", "otp.del", "user.find",
           "user.insert", "user.publish", "user.read", "token.revoke",
           "token.insert"}

AuthRequest == [pc       : AuthPc,
                phone    : Phones \cup {NoValue},
                code     : Nat,
                user     : Users \cup {NoValue},
                status   : UserStatus \cup {"none"},
                identity : Nat \cup {NoValue},
                parent   : Nat,
                known    : Nat]

IdleAuth == [pc |-> "idle", phone |-> NoValue, code |-> 0, user |-> NoValue,
             status |-> "none", identity |-> NoValue, parent |-> 0, known |-> 0]

AuthInit == /\ users = [u \in Users |-> NoUser]
            /\ RedisInit
            /\ published = {}
            /\ tokens = <<>>
            /\ authReqs = [r \in AuthReqs |-> IdleAuth]
            /\ sends = 0 /\ accepted = <<>> /\ cut = FALSE /\ restarts = 0

-------------------------------------------------------------------------------
At(r, pc) == authReqs[r].pc = pc
Goto(r, pc) == authReqs' = [authReqs EXCEPT ![r].pc = pc]
End(r) == authReqs' = [authReqs EXCEPT ![r] = IdleAuth]

\* A bound on what is started, so that what is started can finish; a restart
\* takes the room of a token.
Room == Len(tokens) + restarts + Cardinality({r \in AuthReqs : ~At(r, "idle")})
          < MaxTokens

-------------------------------------------------------------------------------
\* POST /auth/otp/send

\* The attempt is counted; the first one of a window goes on to set its end.
SendOtp(r, phone) ==
  /\ At(r, "idle")
  /\ sends < MaxSends
  /\ sends' = sends + 1
  /\ \E n \in 1 .. MaxSends :
       /\ Incr(<<"rate", phone>>, n)
       /\ authReqs' =
            IF n > MaxAttempts THEN authReqs
            ELSE [authReqs EXCEPT ![r] =
                   [@ EXCEPT !.pc = IF n = 1 THEN "otp.expire" ELSE "otp.set",
                             !.phone = phone, !.code = sends']]
  /\ UNCHANGED <<users, published, tokens, accepted, cut, restarts>>

EndWindow(r) ==
  /\ At(r, "otp.expire")
  /\ Expire(<<"rate", authReqs[r].phone>>)
  /\ Goto(r, "otp.set")
  /\ UNCHANGED <<users, published, tokens, sends, accepted, cut, restarts>>

\* Whatever code was there is overwritten.
StoreCode(r) ==
  /\ At(r, "otp.set")
  /\ Set(<<"otp", authReqs[r].phone>>, authReqs[r].code)
  /\ End(r)
  /\ UNCHANGED <<users, published, tokens, sends, accepted, cut, restarts>>

-------------------------------------------------------------------------------
\* POST /auth/otp/verify

\* The stored code is read and compared; a wrong one is refused.
VerifyOtp(r, phone) ==
  /\ At(r, "idle")
  /\ \E stored \in 1 .. MaxSends \cup {Absent} :
       /\ Get(<<"otp", phone>>, stored)
       /\ \/ /\ stored # Absent /\ Room
             /\ authReqs' = [authReqs EXCEPT ![r] =
                              [@ EXCEPT !.pc = "otp.del", !.phone = phone,
                                        !.code = stored, !.known = Len(accepted)]]
          \/ UNCHANGED authReqs
  /\ UNCHANGED <<users, published, tokens, sends, accepted, cut, restarts>>

\* (faulty variant) the code stays until it expires
KeepCode(r) ==
  /\ At(r, "otp.del")
  /\ accepted' = Append(accepted, [code  |-> authReqs[r].code,
                                   known |-> authReqs[r].known])
  /\ authReqs' = [authReqs EXCEPT ![r] =
                   [@ EXCEPT !.pc = "user.find", !.code = 0, !.known = 0]]
  /\ UNCHANGED <<users, redisVars, published, tokens, sends, cut, restarts>>

\* Whatever code is there now is deleted, and the one that was read accepted.
DeleteCode(r) ==
  /\ At(r, "otp.del")
  /\ Del(<<"otp", authReqs[r].phone>>)
  /\ accepted' = Append(accepted, [code  |-> authReqs[r].code,
                                   known |-> authReqs[r].known])
  /\ authReqs' = [authReqs EXCEPT ![r] =
                   [@ EXCEPT !.pc = "user.find", !.code = 0, !.known = 0]]
  /\ UNCHANGED <<users, published, tokens, sends, cut, restarts>>

\* (faulty variant) the account's id in place of its identity's
CarryUser(r, pc, u, row) ==
  authReqs' = [authReqs EXCEPT ![r] =
                [@ EXCEPT !.pc = pc, !.user = u, !.status = row.status,
                          !.identity = u]]

\* The request goes on for the account u, whose row it has just read.
Carry(r, pc, u, row) ==
  authReqs' = [authReqs EXCEPT ![r] =
                [@ EXCEPT !.pc = pc, !.user = u, !.status = row.status,
                          !.identity = row.identity]]

FindByPhone(r) ==
  LET phone == authReqs[r].phone IN
  /\ At(r, "user.find")
  /\ \/ \E u \in Users : HasPhone(u, phone) /\ Carry(r, "token.insert", u, users[u])
     \/ (\A u \in Users : ~HasPhone(u, phone)) /\ Goto(r, "user.insert")
  /\ UNCHANGED <<users, redisVars, published, tokens, sends, accepted, cut, restarts>>

\* A first login; another request of the same phone may have got there first.
CreateUser(r) ==
  LET phone == authReqs[r].phone IN
  /\ At(r, "user.insert")
  /\ \/ \E u \in Users : /\ InsertUser(u, phone)
                         /\ Carry(r, "user.publish", u, users'[u])
     \/ ~PhoneFree(phone) /\ End(r) /\ UNCHANGED users
  /\ UNCHANGED <<redisVars, published, tokens, sends, accepted, cut, restarts>>

PublishRegistered(r) ==
  /\ At(r, "user.publish")
  /\ Publish("auth", [type |-> "user.registered", user |-> authReqs[r].user])
  /\ Goto(r, "token.insert")
  /\ UNCHANGED <<users, redisVars, tokens, sends, accepted, cut, restarts>>

\* generateTokenPair: the claims are those of the row as it was read.
InsertToken(r) ==
  LET q == authReqs[r] IN
  /\ At(r, "token.insert")
  /\ tokens' = Append(tokens, [user |-> q.user, live |-> TRUE,
                               status |-> q.status, identity |-> q.identity,
                               phone |-> q.phone, parent |-> q.parent,
                               known |-> q.known])
  /\ End(r)
  /\ UNCHANGED <<users, redisVars, published, sends, accepted, cut, restarts>>

-------------------------------------------------------------------------------
\* POST /auth/refresh

\* findRefreshToken
RefreshToken(r, t) ==
  /\ At(r, "idle") /\ Room
  /\ tokens[t].live
  /\ authReqs' = [authReqs EXCEPT ![r] =
                   [@ EXCEPT !.pc = "user.read", !.user = tokens[t].user,
                             !.phone = tokens[t].phone, !.parent = t,
                             !.known = Len(tokens)]]
  /\ UNCHANGED <<users, redisVars, published, tokens, sends, accepted, cut, restarts>>

\* findById
ReadUser(r) ==
  LET u == authReqs[r].user IN
  /\ At(r, "user.read")
  /\ Carry(r, "token.revoke", u, users[u])
  /\ UNCHANGED <<users, redisVars, published, tokens, sends, accepted, cut, restarts>>

\* (faulty variant) the exchanged token stays valid
RevokeNothing(r) ==
  /\ At(r, "token.revoke")
  /\ Goto(r, "token.insert")
  /\ UNCHANGED <<users, redisVars, published, tokens, sends, accepted, cut, restarts>>

\* DELETE FROM refresh_tokens, which may find that the row is gone.
RevokeToken(r) ==
  /\ At(r, "token.revoke")
  /\ tokens' = [tokens EXCEPT ![authReqs[r].parent].live = FALSE]
  /\ Goto(r, "token.insert")
  /\ UNCHANGED <<users, redisVars, published, sends, accepted, cut, restarts>>

\* POST /auth/logout, or seven days pass: the row is not found any more.
EndToken(t) ==
  /\ tokens[t].live
  /\ tokens' = [tokens EXCEPT ![t].live = FALSE]
  /\ UNCHANGED <<users, redisVars, published, authReqs, sends, accepted, cut,
                 restarts>>

-------------------------------------------------------------------------------
\* The identity service links the account (module Identity: once, and to an
\* identity that no other account has).
VerifyAccount(u) ==
  /\ HasRow(u) /\ users[u].identity = NoValue
  /\ LinkUserToIdentity(u, Cardinality({v \in Users : users[v].status = "active"}) + 1)
  /\ UNCHANGED <<redisVars, published, tokens, authReqs, sends, accepted, cut, restarts>>

Time(key) ==
  /\ KeyExpires(key)
  /\ UNCHANGED <<users, published, tokens, authReqs, sends, accepted, cut, restarts>>

\* A query throws at the handler's next call.
CrashAuth(r) ==
  /\ Crashes /\ ~At(r, "idle")
  /\ End(r) /\ cut' = TRUE
  /\ UNCHANGED <<users, redisVars, published, tokens, sends, accepted, restarts>>

\* The process dies and is started again.
RestartAuth ==
  /\ restarts < MaxRestarts /\ restarts' = restarts + 1
  /\ Reconnect
  /\ cut' = (cut \/ \E r \in AuthReqs : ~At(r, "idle"))
  /\ authReqs' = [r \in AuthReqs |-> IdleAuth]
  /\ UNCHANGED <<users, published, tokens, sends, accepted>>

-------------------------------------------------------------------------------
AuthStep(r) == \/ EndWindow(r) \/ StoreCode(r) \/ DeleteCode(r)
               \/ FindByPhone(r) \/ CreateUser(r) \/ PublishRegistered(r)
               \/ ReadUser(r) \/ RevokeToken(r) \/ InsertToken(r)

AuthNext ==
  \/ \E r \in AuthReqs :
       \/ \E phone \in Phones : SendOtp(r, phone) \/ VerifyOtp(r, phone)
       \/ \E t \in DOMAIN tokens : RefreshToken(r, t)
       \/ AuthStep(r)
       \/ CrashAuth(r)
  \/ \E t \in DOMAIN tokens : EndToken(t)
  \/ \E u \in Users : VerifyAccount(u)
  \/ \E key \in Keys : Time(key)
  \/ RestartAuth

AuthSpec == AuthInit /\ [][AuthNext]_authVars

-------------------------------------------------------------------------------
(***************************************************************************)
(* Properties                                                              *)
(***************************************************************************)

\* The rows, the keys and the handlers' local variables keep their types.
AuthTypeOK ==
  /\ users \in [Users -> UserRow]
  /\ \A store \in {redis, memory} : \A key \in Keys :
       store[key] \in [value : Nat \cup {Absent}, expires : BOOLEAN]
  /\ useMemory \in BOOLEAN
  /\ tokens \in Seq(Token)
  /\ authReqs \in [AuthReqs -> AuthRequest]
  /\ accepted \in Seq(Acceptance)

\* Whoever logs in with a phone, however many first logins of it race, gets
\* the one account of that phone.
LoginsShareAccount ==
  \A i \in DOMAIN tokens : \A u \in Users :
    HasPhone(u, tokens[i].phone) <=> u = tokens[i].user

\* A code logs in twice only if the second request read it before the first
\* one's DEL returned, or Redis failed (a code deleted from the process's own
\* store may still be in Redis when the next process starts).
CodeReusedOnlyByRace ==
  \A i, j \in DOMAIN accepted :
    i < j /\ accepted[i].code = accepted[j].code
      => i > accepted[j].known \/ failed

\* A counter that refuses a phone will be forgotten: it has a time to live, or
\* a running handler is about to give it one, unless a handler died or Redis
\* failed between the INCR and the EXPIRE.
CounterExpires ==
  \A phone \in Phones :
    redis[<<"rate", phone>>].value # Absent =>
      \/ redis[<<"rate", phone>>].expires
      \/ \E r \in AuthReqs : At(r, "otp.expire") /\ authReqs[r].phone = phone
      \/ cut \/ failed

\* One refresh token is exchanged for two only if the exchanges overlapped:
\* the second began before the first had issued its token (ARCHITECTURE.md,
\* "refresh token rotation").
ForkedOnlyByRace ==
  \A i, j \in DOMAIN tokens :
    /\ i < j /\ tokens[i].parent = tokens[j].parent /\ tokens[i].parent # 0
    => i > tokens[j].known

\* Whoever gets through the gateway and the guards to an endpoint that requires
\* a verified identity has an account that is linked, and still linked, to the
\* identity his token names; and without a token one gets to the public
\* endpoints and no others.
AccessIsVerified ==
  /\ \A t \in DOMAIN tokens :
       (\E e \in Admits[tokens[t].status] : e.kyc) =>
         /\ tokens[t].identity # NoValue
         /\ users[tokens[t].user].identity = tokens[t].identity
  /\ Admits[NoToken.status] = {e \in Endpoints : e.public}
===============================================================================
