------------------------------ MODULE AuthProofs ------------------------------
(***************************************************************************)
(* Proofs about the auth service, for any number of accounts, phones and   *)
(* concurrent requests, with or without crashes, restarts and failures of  *)
(* Redis.                                                                  *)
(*                                                                         *)
(* The invariant follows what a request read through its awaits: the       *)
(* account it found is still the one of its phone, the claims it read are  *)
(* still true, the token it exchanges has not been exchanged by an earlier *)
(* request, and a code is in one place between SET and DEL.                *)
(***************************************************************************)
EXTENDS Auth, FiniteSetTheorems, SequenceTheorems, TLAPS

Sending == {"otp.expire", "otp.set"}
Owning == {"user.publish", "user.read", "token.revoke", "token.insert"}
Claiming == Owning \ {"user.read"}
Exchanging == {"user.read", "token.revoke", "token.insert"}

Entry == [value : Nat \cup {Absent}, expires : BOOLEAN]

\* What the type invariant leaves out of RedisService, and the histories.
StoresOK == /\ redis \in [Keys -> Entry] /\ memory \in [Keys -> Entry]
            /\ useMemory \in BOOLEAN /\ failed \in BOOLEAN
            /\ useMemory => failed

HistoryOK == cut \in BOOLEAN /\ sends \in Nat

\* A slot without a request is clean; one with a request has its phone.
SlotsClean ==
  \A r \in AuthReqs : IF At(r, "idle") THEN authReqs[r] = IdleAuth
                                       ELSE authReqs[r].phone \in Phones

\* phone is UNIQUE, and an active account is linked.
UsersOK ==
  /\ \A u, v \in Users : \A phone \in Phones :
       HasPhone(u, phone) /\ HasPhone(v, phone) => u = v
  /\ \A u \in Users : users[u].status = "active" => users[u].identity # NoValue

\* k, a token or a request, names the account of the phone it is for.
Owns(k) == k.user \in Users /\ HasPhone(k.user, k.phone)

\* The claims of k were read from the account's row, which may have been linked
\* since but has not been unlinked or linked again.
Claims(k) ==
  /\ k.status \in UserStatus
  /\ k.status = "active" => k.identity # NoValue
  /\ k.identity # NoValue => users[k.user].identity = k.identity

RequestsOwn == \A r \in AuthReqs :
  /\ authReqs[r].pc \in Owning => Owns(authReqs[r])
  /\ authReqs[r].pc \in Claiming => Claims(authReqs[r])

TokensOwn == \A i \in DOMAIN tokens : Owns(tokens[i]) /\ Claims(tokens[i])

\* A token that was exchanged is not found any more.
ParentsSpent ==
  \A i \in DOMAIN tokens : tokens[i].parent # 0 =>
    tokens[i].parent \in DOMAIN tokens /\ ~tokens[tokens[i].parent].live

\* The request r exchanges a token that no earlier token came from.
Exchange(r) ==
  LET q == authReqs[r] IN
  /\ q.pc \in Exchanging
  /\ q.parent \in DOMAIN tokens /\ q.known <= Len(tokens)
  /\ q.pc = "token.insert" => ~tokens[q.parent].live
  /\ \A i \in DOMAIN tokens : tokens[i].parent = q.parent => i > q.known

ExchangesOK == \A r \in AuthReqs :
  /\ authReqs[r].parent # 0 => Exchange(r)
  /\ authReqs[r].pc \in {"user.read", "token.revoke"} => authReqs[r].parent # 0

\* Where the code c is: with the request that sends it, at a phone's key, or
\* read by a request that is about to accept it.
InFlight(r, c) == authReqs[r].pc \in Sending /\ authReqs[r].code = c
StoredAt(phone, c) == redis[<<"otp", phone>>].value = c
ReadBy(r, c) == At(r, "otp.del") /\ authReqs[r].code = c

Unread(c) == \A r \in AuthReqs : ~ReadBy(r, c)
Unstored(c) == \A phone \in Phones : ~StoredAt(phone, c)
Unaccepted(c) == \A i \in DOMAIN accepted : accepted[i].code # c

\* A code moves from the request that sends it to one key, and from there to
\* the requests that read it before one of them deletes it.
CodeOK(c) ==
  /\ c > sends => /\ \A r \in AuthReqs : ~InFlight(r, c)
                  /\ Unread(c) /\ Unstored(c) /\ Unaccepted(c)
  /\ \A r \in AuthReqs : InFlight(r, c) =>
       /\ \A s \in AuthReqs : InFlight(s, c) => s = r
       /\ Unread(c) /\ Unstored(c) /\ Unaccepted(c)
  /\ \A phone \in Phones : StoredAt(phone, c) =>
       /\ \A other \in Phones : StoredAt(other, c) => other = phone
       /\ \A r \in AuthReqs : ReadBy(r, c) => authReqs[r].phone = phone
       /\ Unaccepted(c)
  /\ \A r \in AuthReqs : ReadBy(r, c) =>
       /\ authReqs[r].known <= Len(accepted)
       /\ \A i \in DOMAIN accepted : accepted[i].code = c => i > authReqs[r].known

CodesOK == ~failed => \A c \in Nat : CodeOK(c)

AuthInv ==
  /\ AuthTypeOK
  /\ StoresOK
  /\ HistoryOK
  /\ SlotsClean
  /\ UsersOK
  /\ RequestsOwn
  /\ TokensOwn
  /\ ParentsSpent
  /\ ExchangesOK
  /\ CodesOK
  /\ CounterExpires
  /\ CodeReusedOnlyByRace
  /\ ForkedOnlyByRace

-------------------------------------------------------------------------------
\* RedisService.

\* Rates and codes have keys of their own.
LEMMA KeysApart ==
  ASSUME NEW p \in Phones
  PROVE  /\ <<"rate", p>> \in Keys /\ <<"otp", p>> \in Keys
         /\ \A q \in Phones : /\ <<"rate", p>> # <<"otp", q>>
                              /\ <<"rate", p>> = <<"rate", q>> => p = q
                              /\ <<"otp", p>> = <<"otp", q>> => p = q
BY AuthAssumption

\* A call leaves the stores well formed, and while Redis has not failed it is
\* Redis that executed it.
LEMMA CallEffect ==
  ASSUME StoresOK, NEW onRedis \in [Keys -> Entry], NEW onMemory \in [Keys -> Entry],
         Call(onRedis, onMemory)
  PROVE  /\ StoresOK'
         /\ failed => failed'
         /\ ~failed' => redis' = onRedis /\ ~useMemory'
<1>1. /\ redis' \in {redis, onRedis} /\ memory' \in {memory, onMemory}
      /\ \/ UNCHANGED <<useMemory, failed>>
         \/ useMemory' = TRUE /\ failed' = TRUE
  BY DEF Call
<1>2. redis' \in [Keys -> Entry] /\ memory' \in [Keys -> Entry]
  BY <1>1 DEF StoresOK
<1>3. useMemory' \in BOOLEAN /\ failed' \in BOOLEAN
  BY <1>1 DEF StoresOK
<1>4. (failed => failed') /\ (useMemory' => failed')
  BY <1>1 DEF StoresOK
<1>5. ~failed' => redis' = onRedis /\ ~useMemory'
  BY DEF Call, StoresOK
<1>6. QED BY <1>2, <1>3, <1>4, <1>5 DEF StoresOK

LEMMA SetEffect ==
  ASSUME StoresOK, NEW key \in Keys, NEW value \in Nat, Set(key, value)
  PROVE  /\ StoresOK'
         /\ failed => failed'
         /\ ~failed' =>
              redis' = [redis EXCEPT ![key] = [value |-> value, expires |-> TRUE]]
<1>1. [value |-> value, expires |-> TRUE] \in Entry
  BY DEF Entry
<1>2. With(redis, key, value, TRUE) \in [Keys -> Entry]
      /\ With(memory, key, value, TRUE) \in [Keys -> Entry]
  BY <1>1 DEF StoresOK, With
<1>3. QED BY <1>2, CallEffect DEF Set, With

LEMMA DelEffect ==
  ASSUME StoresOK, NEW key \in Keys, Del(key)
  PROVE  /\ StoresOK'
         /\ failed => failed'
         /\ ~failed' => redis' = [redis EXCEPT ![key] = NoEntry]
<1>1. NoEntry \in Entry
  BY DEF Entry, NoEntry
<1>2. [redis EXCEPT ![key] = NoEntry] \in [Keys -> Entry]
      /\ [memory EXCEPT ![key] = NoEntry] \in [Keys -> Entry]
  BY <1>1 DEF StoresOK
<1>3. QED BY <1>2, CallEffect DEF Del

LEMMA IncrEffect ==
  ASSUME StoresOK, NEW key \in Keys, NEW n \in Nat, Incr(key, n)
  PROVE  /\ StoresOK'
         /\ failed => failed'
         /\ ~failed' => /\ redis' = [redis EXCEPT ![key] =
                                      [value |-> n, expires |-> redis[key].expires]]
                        /\ redis[key].value = Absent => n = 1
                        /\ n = 1 \/ redis[key].value # Absent
<1>1. redis[key] \in Entry /\ memory[key] \in Entry
  BY DEF StoresOK
<1>2. Plus1(redis, key) \in Nat /\ Plus1(memory, key) \in Nat
  BY <1>1 DEF Plus1, Entry
<1>3. /\ [value |-> Plus1(redis, key), expires |-> redis[key].expires] \in Entry
      /\ [value |-> Plus1(memory, key), expires |-> TRUE] \in Entry
  BY <1>1, <1>2 DEF Entry
<1>4. With(redis, key, Plus1(redis, key), redis[key].expires) \in [Keys -> Entry]
      /\ With(memory, key, Plus1(memory, key), TRUE) \in [Keys -> Entry]
  BY <1>3 DEF StoresOK, With
<1>5. /\ StoresOK' /\ (failed => failed')
      /\ ~failed' => /\ redis' = With(redis, key, Plus1(redis, key), redis[key].expires)
                     /\ ~useMemory'
  BY <1>4, CallEffect DEF Incr
<1>6. ~failed' => n = Plus1(redis, key)
  BY <1>5 DEF Incr
<1>7. QED BY <1>5, <1>6 DEF With, Plus1

LEMMA ExpireEffect ==
  ASSUME StoresOK, NEW key \in Keys, Expire(key)
  PROVE  /\ StoresOK'
         /\ failed => failed'
         /\ ~failed' =>
              \/ redis[key].value = Absent /\ redis' = redis
              \/ redis' = [redis EXCEPT ![key] =
                            [value |-> redis[key].value, expires |-> TRUE]]
<1>1. redis[key] \in Entry /\ memory[key] \in Entry
  BY DEF StoresOK
<1>2. /\ [value |-> redis[key].value, expires |-> TRUE] \in Entry
      /\ [value |-> memory[key].value, expires |-> TRUE] \in Entry
  BY <1>1 DEF Entry
<1>3. Renewed(redis, key) \in [Keys -> Entry] /\ Renewed(memory, key) \in [Keys -> Entry]
  BY <1>2 DEF StoresOK, Renewed, With
<1>4. StoresOK' /\ (failed => failed') /\ (~failed' => redis' = Renewed(redis, key))
  BY <1>3, CallEffect DEF Expire
<1>5. QED BY <1>4 DEF Renewed, With

LEMMA GetEffect ==
  ASSUME StoresOK, NEW key \in Keys, NEW v, Get(key, v)
  PROVE  /\ StoresOK' /\ v \in Nat \cup {Absent}
         /\ failed => failed'
         /\ UNCHANGED <<redis, memory>>
         /\ ~failed' => v = redis[key].value
<1>1. redis[key].value \in Nat \cup {Absent} /\ memory[key].value \in Nat \cup {Absent}
  BY DEF StoresOK, Entry
<1>2. CASE /\ v = IF useMemory THEN memory[key].value ELSE redis[key].value
           /\ UNCHANGED redisVars
  BY <1>1, <1>2 DEF StoresOK, redisVars
<1>3. CASE /\ v = memory[key].value
           /\ useMemory' = TRUE /\ failed' = TRUE
           /\ UNCHANGED <<redis, memory>>
  BY <1>1, <1>3 DEF StoresOK
<1>4. QED BY <1>2, <1>3 DEF Get

LEMMA KeyExpiresEffect ==
  ASSUME StoresOK, NEW key \in Keys, KeyExpires(key)
  PROVE  /\ StoresOK'
         /\ UNCHANGED failed
         /\ redis' = redis \/ redis' = [redis EXCEPT ![key] = NoEntry]
<1>1. NoEntry \in Entry
  BY DEF Entry, NoEntry
<1>2. QED BY <1>1 DEF StoresOK, KeyExpires

LEMMA ReconnectEffect ==
  ASSUME StoresOK, Reconnect
  PROVE  /\ StoresOK'
         /\ failed => failed'
         /\ UNCHANGED redis
<1>1. Empty \in [Keys -> Entry]
  BY DEF Entry, Empty, NoEntry
<1>2. QED BY <1>1, RedisAssumption DEF StoresOK, Reconnect

-------------------------------------------------------------------------------
\* Slots.

OtherSlotsSame(r) == \A s \in AuthReqs \ {r} : authReqs'[s] = authReqs[s]

\* A slot goes on as q; the others stay as they are.
SlotBecomes(r, q) == /\ authReqs' \in [AuthReqs -> AuthRequest]
                     /\ authReqs'[r] = q
                     /\ OtherSlotsSame(r)

LEMMA SlotSet ==
  ASSUME AuthTypeOK, NEW r \in AuthReqs, NEW q \in AuthRequest,
         authReqs' = [authReqs EXCEPT ![r] = q]
  PROVE  SlotBecomes(r, q)
BY DEF AuthTypeOK, SlotBecomes, OtherSlotsSame

LEMMA EndSlot ==
  ASSUME AuthTypeOK, NEW r \in AuthReqs, End(r)
  PROVE  SlotBecomes(r, IdleAuth)
<1>1. IdleAuth \in AuthRequest
  BY DEF IdleAuth, AuthRequest, AuthPc
<1>2. QED BY <1>1, SlotSet DEF End

\* The fields a slot keeps when the handler goes on.
LEMMA GotoFields ==
  ASSUME AuthTypeOK, NEW r \in AuthReqs, NEW pc \in AuthPc, Goto(r, pc)
  PROVE  /\ authReqs' \in [AuthReqs -> AuthRequest] /\ OtherSlotsSame(r)
         /\ authReqs'[r].pc = pc
         /\ authReqs'[r].phone = authReqs[r].phone
         /\ authReqs'[r].code = authReqs[r].code
         /\ authReqs'[r].user = authReqs[r].user
         /\ authReqs'[r].status = authReqs[r].status
         /\ authReqs'[r].identity = authReqs[r].identity
         /\ authReqs'[r].parent = authReqs[r].parent
         /\ authReqs'[r].known = authReqs[r].known
<1> DEFINE q == [authReqs[r] EXCEPT !.pc = pc]
<1>1. authReqs[r] \in AuthRequest
  BY DEF AuthTypeOK
<1>2. q \in AuthRequest
  BY <1>1 DEF AuthRequest
<1>3. authReqs' = [authReqs EXCEPT ![r] = q]
  BY DEF Goto
<1>4. /\ q.pc = pc /\ q.phone = authReqs[r].phone /\ q.code = authReqs[r].code
      /\ q.user = authReqs[r].user /\ q.status = authReqs[r].status
      /\ q.identity = authReqs[r].identity
      /\ q.parent = authReqs[r].parent /\ q.known = authReqs[r].known
  BY <1>1 DEF AuthRequest
<1> HIDE DEF q
<1>5. QED BY <1>2, <1>3, <1>4, SlotSet DEF SlotBecomes

LEMMA CarryFields ==
  ASSUME AuthTypeOK, NEW r \in AuthReqs, NEW pc \in AuthPc, NEW u \in Users,
         NEW row \in UserRow, Carry(r, pc, u, row)
  PROVE  /\ authReqs' \in [AuthReqs -> AuthRequest] /\ OtherSlotsSame(r)
         /\ authReqs'[r].pc = pc
         /\ authReqs'[r].phone = authReqs[r].phone
         /\ authReqs'[r].code = authReqs[r].code
         /\ authReqs'[r].user = u
         /\ authReqs'[r].status = row.status
         /\ authReqs'[r].identity = row.identity
         /\ authReqs'[r].parent = authReqs[r].parent
         /\ authReqs'[r].known = authReqs[r].known
<1> DEFINE q == [authReqs[r] EXCEPT !.pc = pc, !.user = u, !.status = row.status,
                                    !.identity = row.identity]
<1>1. authReqs[r] \in AuthRequest
  BY DEF AuthTypeOK
<1>2. q \in AuthRequest
  BY <1>1 DEF AuthRequest, UserRow
<1>3. authReqs' = [authReqs EXCEPT ![r] = q]
  BY DEF Carry
<1>4. /\ q.pc = pc /\ q.phone = authReqs[r].phone /\ q.code = authReqs[r].code
      /\ q.user = u /\ q.status = row.status /\ q.identity = row.identity
      /\ q.parent = authReqs[r].parent /\ q.known = authReqs[r].known
  BY <1>1 DEF AuthRequest
<1> HIDE DEF q
<1>5. QED BY <1>2, <1>3, <1>4, SlotSet DEF SlotBecomes

LEMMA SendFields ==
  ASSUME AuthTypeOK, HistoryOK, NEW r \in AuthReqs, NEW phone \in Phones,
         SendOtp(r, phone)
  PROVE  \/ UNCHANGED authReqs
         \/ /\ authReqs' \in [AuthReqs -> AuthRequest] /\ OtherSlotsSame(r)
            /\ authReqs'[r].pc \in Sending
            /\ authReqs'[r].phone = phone
            /\ authReqs'[r].code = sends'
            /\ authReqs'[r].parent = authReqs[r].parent
<1>1. authReqs[r] \in AuthRequest /\ sends' \in Nat
  BY DEF AuthTypeOK, HistoryOK, SendOtp
<1>2. ASSUME NEW pc \in Sending,
             authReqs' = [authReqs EXCEPT ![r] =
                           [authReqs[r] EXCEPT !.pc = pc, !.phone = phone,
                                               !.code = sends']]
      PROVE  /\ authReqs' \in [AuthReqs -> AuthRequest] /\ OtherSlotsSame(r)
             /\ authReqs'[r].pc \in Sending
             /\ authReqs'[r].phone = phone
             /\ authReqs'[r].code = sends'
             /\ authReqs'[r].parent = authReqs[r].parent
  <2> DEFINE q == [authReqs[r] EXCEPT !.pc = pc, !.phone = phone, !.code = sends']
  <2>1. q \in AuthRequest
    BY <1>1, <1>2 DEF AuthRequest, AuthPc, Sending
  <2>2. q.pc = pc /\ q.phone = phone /\ q.code = sends' /\ q.parent = authReqs[r].parent
    BY <1>1 DEF AuthRequest
  <2>3. authReqs' = [authReqs EXCEPT ![r] = q]
    BY <1>2
  <2> HIDE DEF q
  <2>4. QED BY <2>1, <2>2, <2>3, SlotSet DEF SlotBecomes
<1>3. \/ UNCHANGED authReqs
      \/ \E pc \in Sending :
           authReqs' = [authReqs EXCEPT ![r] =
                         [authReqs[r] EXCEPT !.pc = pc, !.phone = phone, !.code = sends']]
  BY DEF SendOtp, Sending
<1>4. QED BY <1>2, <1>3

LEMMA VerifyFields ==
  ASSUME AuthTypeOK, StoresOK, NEW r \in AuthReqs, NEW phone \in Phones,
         VerifyOtp(r, phone)
  PROVE  \/ UNCHANGED authReqs
         \/ /\ authReqs' \in [AuthReqs -> AuthRequest] /\ OtherSlotsSame(r)
            /\ authReqs'[r].pc = "otp.del"
            /\ authReqs'[r].phone = phone
            /\ authReqs'[r].known = Len(accepted)
            /\ authReqs'[r].parent = authReqs[r].parent
            /\ ~failed' => authReqs'[r].code = redis[<<"otp", phone>>].value
<1>1. authReqs[r] \in AuthRequest /\ Len(accepted) \in Nat
  BY DEF AuthTypeOK
<1>2. PICK stored \in 1 .. MaxSends \cup {Absent} :
        /\ Get(<<"otp", phone>>, stored)
        /\ \/ /\ stored # Absent
              /\ authReqs' = [authReqs EXCEPT ![r] =
                               [authReqs[r] EXCEPT !.pc = "otp.del", !.phone = phone,
                                          !.code = stored, !.known = Len(accepted)]]
           \/ UNCHANGED authReqs
  BY DEF VerifyOtp
<1>3. ~failed' => stored = redis[<<"otp", phone>>].value
  BY <1>2, KeysApart, GetEffect
<1>4. ASSUME stored # Absent,
             authReqs' = [authReqs EXCEPT ![r] =
                           [authReqs[r] EXCEPT !.pc = "otp.del", !.phone = phone,
                                      !.code = stored, !.known = Len(accepted)]]
      PROVE  /\ authReqs' \in [AuthReqs -> AuthRequest] /\ OtherSlotsSame(r)
             /\ authReqs'[r].pc = "otp.del"
             /\ authReqs'[r].phone = phone
             /\ authReqs'[r].known = Len(accepted)
             /\ authReqs'[r].parent = authReqs[r].parent
             /\ authReqs'[r].code = stored
  <2> DEFINE q == [authReqs[r] EXCEPT !.pc = "otp.del", !.phone = phone,
                                      !.code = stored, !.known = Len(accepted)]
  <2>1. stored \in Nat
    BY <1>4, AuthAssumption
  <2>2. q \in AuthRequest
    BY <1>1, <2>1 DEF AuthRequest, AuthPc
  <2>3. /\ q.pc = "otp.del" /\ q.phone = phone /\ q.code = stored
        /\ q.known = Len(accepted) /\ q.parent = authReqs[r].parent
    BY <1>1 DEF AuthRequest
  <2>4. authReqs' = [authReqs EXCEPT ![r] = q]
    BY <1>4
  <2> HIDE DEF q
  <2>5. QED BY <2>2, <2>3, <2>4, SlotSet DEF SlotBecomes
<1>5. QED BY <1>2, <1>3, <1>4

LEMMA AcceptFields ==
  ASSUME AuthTypeOK, NEW r \in AuthReqs, DeleteCode(r)
  PROVE  /\ authReqs' \in [AuthReqs -> AuthRequest] /\ OtherSlotsSame(r)
         /\ authReqs'[r].pc = "user.find"
         /\ authReqs'[r].phone = authReqs[r].phone
         /\ authReqs'[r].parent = authReqs[r].parent
<1> DEFINE q == [authReqs[r] EXCEPT !.pc = "user.find", !.code = 0, !.known = 0]
<1>1. authReqs[r] \in AuthRequest
  BY DEF AuthTypeOK
<1>2. q \in AuthRequest
  BY <1>1 DEF AuthRequest, AuthPc
<1>3. q.pc = "user.find" /\ q.phone = authReqs[r].phone /\ q.parent = authReqs[r].parent
  BY <1>1 DEF AuthRequest
<1>4. authReqs' = [authReqs EXCEPT ![r] = q]
  BY DEF DeleteCode
<1> HIDE DEF q
<1>5. QED BY <1>2, <1>3, <1>4, SlotSet DEF SlotBecomes

LEMMA RefreshFields ==
  ASSUME AuthTypeOK, NEW r \in AuthReqs, NEW t \in DOMAIN tokens, RefreshToken(r, t)
  PROVE  /\ authReqs' \in [AuthReqs -> AuthRequest] /\ OtherSlotsSame(r)
         /\ authReqs'[r].pc = "user.read"
         /\ authReqs'[r].phone = tokens[t].phone
         /\ authReqs'[r].user = tokens[t].user
         /\ authReqs'[r].parent = t
         /\ authReqs'[r].known = Len(tokens)
<1> DEFINE q == [authReqs[r] EXCEPT !.pc = "user.read", !.user = tokens[t].user,
                                    !.phone = tokens[t].phone, !.parent = t,
                                    !.known = Len(tokens)]
<1>1. authReqs[r] \in AuthRequest /\ tokens[t] \in Token /\ t \in Nat /\ Len(tokens) \in Nat
  BY DEF AuthTypeOK
<1>2. tokens[t].user \in Users /\ tokens[t].phone \in Phones
  BY <1>1 DEF Token
<1>3. q \in AuthRequest
  BY <1>1, <1>2 DEF AuthRequest, AuthPc
<1>4. /\ q.pc = "user.read" /\ q.phone = tokens[t].phone /\ q.user = tokens[t].user
      /\ q.parent = t /\ q.known = Len(tokens)
  BY <1>1 DEF AuthRequest
<1>5. authReqs' = [authReqs EXCEPT ![r] = q]
  BY DEF RefreshToken
<1> HIDE DEF q
<1>6. QED BY <1>3, <1>4, <1>5, SlotSet DEF SlotBecomes

-------------------------------------------------------------------------------
\* What every step of the service keeps.

AuthInvStep == AuthInv /\ [AuthNext]_authVars

\* A request that is under way has a phone, and its account if it found one.
LEMMA BusyPhone ==
  ASSUME SlotsClean, NEW r \in AuthReqs, ~At(r, "idle")
  PROVE  authReqs[r].phone \in Phones
BY DEF SlotsClean

LEMMA StoresStep ==
  ASSUME AuthInvStep
  PROVE  StoresOK' /\ HistoryOK' /\ (failed => failed')
<1> USE DEF AuthInvStep
<1>1. CASE UNCHANGED <<redisVars, cut, sends>>
  BY <1>1 DEF AuthInv, StoresOK, HistoryOK, redisVars
<1>2. ASSUME NEW r \in AuthReqs, NEW phone \in Phones, SendOtp(r, phone)
      PROVE  StoresOK' /\ HistoryOK' /\ (failed => failed')
  <2>1. HistoryOK'
    BY <1>2 DEF SendOtp, AuthInv, HistoryOK
  <2>2. PICK n \in 1 .. MaxSends : Incr(<<"rate", phone>>, n)
    BY <1>2 DEF SendOtp
  <2>3. QED BY <2>1, <2>2, KeysApart, IncrEffect, AuthAssumption DEF AuthInv
<1>3. ASSUME NEW r \in AuthReqs, EndWindow(r) \/ StoreCode(r) \/ DeleteCode(r)
      PROVE  StoresOK' /\ HistoryOK' /\ (failed => failed')
  <2>1. authReqs[r].phone \in Phones /\ authReqs[r].code \in Nat
    BY <1>3, BusyPhone
       DEF EndWindow, StoreCode, DeleteCode, At, AuthInv, AuthTypeOK, AuthRequest
  <2>2. HistoryOK'
    BY <1>3 DEF EndWindow, StoreCode, DeleteCode, AuthInv, HistoryOK
  <2>3. CASE EndWindow(r)
    BY <2>1, <2>2, <2>3, KeysApart, ExpireEffect DEF EndWindow, AuthInv
  <2>4. CASE StoreCode(r)
    BY <2>1, <2>2, <2>4, KeysApart, SetEffect DEF StoreCode, AuthInv
  <2>5. CASE DeleteCode(r)
    BY <2>1, <2>2, <2>5, KeysApart, DelEffect DEF DeleteCode, AuthInv
  <2>6. QED BY <1>3, <2>3, <2>4, <2>5
<1>4. ASSUME NEW r \in AuthReqs, NEW phone \in Phones, VerifyOtp(r, phone)
      PROVE  StoresOK' /\ HistoryOK' /\ (failed => failed')
  <2>1. HistoryOK'
    BY <1>4 DEF VerifyOtp, AuthInv, HistoryOK
  <2>2. PICK v : Get(<<"otp", phone>>, v)
    BY <1>4 DEF VerifyOtp
  <2>3. QED BY <2>1, <2>2, KeysApart, GetEffect DEF AuthInv
<1>5. ASSUME NEW key \in Keys, Time(key)
      PROVE  StoresOK' /\ HistoryOK' /\ (failed => failed')
  <2>1. HistoryOK'
    BY <1>5 DEF Time, AuthInv, HistoryOK
  <2>2. QED BY <1>5, <2>1, KeyExpiresEffect DEF Time, AuthInv
<1>6. CASE RestartAuth
  <2>1. HistoryOK'
    BY <1>6 DEF RestartAuth, AuthInv, HistoryOK
  <2>2. QED BY <1>6, <2>1, ReconnectEffect DEF RestartAuth, AuthInv
<1>7. ASSUME NEW r \in AuthReqs, CrashAuth(r)
      PROVE  StoresOK' /\ HistoryOK' /\ (failed => failed')
  BY <1>7 DEF CrashAuth, AuthInv, StoresOK, HistoryOK, redisVars
<1>8. QED
  BY <1>1, <1>2, <1>3, <1>4, <1>5, <1>6, <1>7
     DEF AuthNext, AuthStep, authVars, FindByPhone, CreateUser, PublishRegistered,
     ReadUser, RevokeToken, InsertToken, RefreshToken, EndToken, VerifyAccount,
     redisVars

\* Rows are inserted whole, and linked to an identity.
LEMMA InsertUserEffect ==
  ASSUME AuthTypeOK, NEW u \in Users, NEW phone \in Phones, InsertUser(u, phone)
  PROVE  /\ users' \in [Users -> UserRow]
         /\ ~HasRow(u) /\ PhoneFree(phone)
         /\ users'[u].status = "pending_kyc" /\ users'[u].phone = phone
         /\ users'[u].identity = NoValue
         /\ \A v \in Users \ {u} : users'[v] = users[v]
<1> DEFINE row == [status |-> "pending_kyc", phone |-> phone, identity |-> NoValue]
<1>1. row \in UserRow /\ users' = [users EXCEPT ![u] = row]
  BY DEF InsertUser, UserRow, UserStatus
<1>2. row.status = "pending_kyc" /\ row.phone = phone /\ row.identity = NoValue
  OBVIOUS
<1> HIDE DEF row
<1>3. QED BY <1>1, <1>2 DEF AuthTypeOK, InsertUser

LEMMA VerifyAccountEffect ==
  ASSUME AuthTypeOK, NEW u \in Users, VerifyAccount(u)
  PROVE  /\ users' \in [Users -> UserRow]
         /\ HasRow(u) /\ users[u].identity = NoValue
         /\ users'[u].status = "active" /\ users'[u].phone = users[u].phone
         /\ users'[u].identity \in Nat
         /\ \A v \in Users \ {u} : users'[v] = users[v]
<1> DEFINE active == {v \in Users : users[v].status = "active"}
           i == Cardinality(active) + 1
           row == [users[u] EXCEPT !.identity = i, !.status = "active"]
<1>1. Cardinality(active) \in Nat
  <2>1. IsFiniteSet(active)
    BY AuthAssumption, FS_Subset
  <2>2. QED BY <2>1, FS_CardinalityType
<1>2. i \in Nat
  BY <1>1
<1>3. users' = [users EXCEPT ![u] = row]
  BY DEF VerifyAccount, LinkUserToIdentity
<1> HIDE DEF i
<1>4. users[u] \in UserRow
  BY DEF AuthTypeOK
<1>5. /\ row \in UserRow
      /\ row.status = "active" /\ row.phone = users[u].phone /\ row.identity = i
  BY <1>2, <1>4 DEF UserRow, UserStatus
<1> HIDE DEF row
<1>6. QED BY <1>2, <1>3, <1>5 DEF VerifyAccount, AuthTypeOK

LEMMA UsersMove ==
  ASSUME AuthInvStep
  PROVE  \/ UNCHANGED users
         \/ \E r \in AuthReqs : \E u \in Users :
              At(r, "user.insert") /\ InsertUser(u, authReqs[r].phone)
         \/ \E u \in Users : VerifyAccount(u)
BY DEF AuthInvStep, AuthNext, AuthStep, authVars, SendOtp, EndWindow, StoreCode,
   VerifyOtp, DeleteCode, FindByPhone, CreateUser, PublishRegistered, ReadUser,
   RevokeToken, InsertToken, RefreshToken, EndToken, Time, CrashAuth, RestartAuth

LEMMA UsersKept ==
  ASSUME AuthInvStep
  PROVE  /\ users' \in [Users -> UserRow]
         /\ \A u \in Users : HasRow(u) =>
              /\ users'[u].status # "none" /\ users'[u].phone = users[u].phone
              /\ users[u].identity # NoValue => users'[u].identity = users[u].identity
<1> USE DEF AuthInvStep
<1>1. CASE UNCHANGED users
  BY <1>1 DEF AuthInv, AuthTypeOK, HasRow
<1>2. ASSUME NEW r \in AuthReqs, NEW v \in Users, At(r, "user.insert"),
             InsertUser(v, authReqs[r].phone)
      PROVE  /\ users' \in [Users -> UserRow]
             /\ \A u \in Users : HasRow(u) => users'[u] = users[u]
  BY <1>2, BusyPhone, InsertUserEffect DEF AuthInv, At
<1>3. ASSUME NEW v \in Users, VerifyAccount(v)
      PROVE  /\ users' \in [Users -> UserRow]
             /\ \A u \in Users : HasRow(u) =>
              /\ users'[u].status # "none" /\ users'[u].phone = users[u].phone
              /\ users[u].identity # NoValue => users'[u].identity = users[u].identity
  BY <1>3, VerifyAccountEffect DEF AuthInv, HasRow
<1>4. QED BY <1>1, <1>2, <1>3, UsersMove DEF HasRow

LEMMA UsersStep ==
  ASSUME AuthInvStep
  PROVE  UsersOK'
<1> USE DEF AuthInvStep
<1>1. CASE UNCHANGED users
  BY <1>1 DEF AuthInv, UsersOK, HasPhone, HasRow
<1>2. ASSUME NEW r \in AuthReqs, NEW w \in Users, At(r, "user.insert"),
             InsertUser(w, authReqs[r].phone)
      PROVE  UsersOK'
  <2>1. PICK phone \in Phones : InsertUser(w, phone)
    BY <1>2, BusyPhone DEF AuthInv, At
  <2>2. \A v \in Users : HasPhone(v, phone)' => v = w
    BY <2>1, InsertUserEffect DEF AuthInv, PhoneFree, HasPhone, HasRow
  <2>3. \A p \in Phones : HasPhone(w, p)' => p = phone
    BY <2>1, InsertUserEffect DEF AuthInv, HasPhone
  <2>4. \A v \in Users \ {w} : \A p \in Phones : HasPhone(v, p)' => HasPhone(v, p)
    BY <2>1, InsertUserEffect DEF AuthInv, HasPhone, HasRow
  <2>5. \A u \in Users : users'[u].status = "active" => users'[u].identity # NoValue
    BY <2>1, InsertUserEffect DEF AuthInv, UsersOK
  <2>6. \A u, v \in Users : \A p \in Phones :
          HasPhone(u, p)' /\ HasPhone(v, p)' => u = v
    BY <2>2, <2>3, <2>4 DEF AuthInv, UsersOK
  <2>7. QED BY <2>5, <2>6 DEF UsersOK, HasPhone, HasRow
<1>3. ASSUME NEW w \in Users, VerifyAccount(w)
      PROVE  UsersOK'
  <2>1. \A v \in Users : \A p \in Phones : HasPhone(v, p)' => HasPhone(v, p)
    BY <1>3, VerifyAccountEffect DEF AuthInv, HasPhone, HasRow
  <2>2. \A u \in Users : users'[u].status = "active" => users'[u].identity # NoValue
    BY <1>3, VerifyAccountEffect, UserTableAssumption DEF AuthInv, UsersOK
  <2>3. QED BY <2>1, <2>2 DEF AuthInv, UsersOK, HasPhone, HasRow
<1>4. QED BY <1>1, <1>2, <1>3, UsersMove

-------------------------------------------------------------------------------
\* The refresh_tokens table.

SameToken(k, l) == /\ k.user = l.user /\ k.status = l.status
                   /\ k.identity = l.identity /\ k.phone = l.phone
                   /\ k.parent = l.parent /\ k.known = l.known

LEMMA TokenEnded ==
  ASSUME AuthTypeOK, NEW t \in DOMAIN tokens,
         tokens' = [tokens EXCEPT ![t].live = FALSE]
  PROVE  /\ tokens' \in Seq(Token) /\ Len(tokens') = Len(tokens)
         /\ DOMAIN tokens' = DOMAIN tokens
         /\ ~tokens'[t].live
         /\ \A i \in DOMAIN tokens : /\ SameToken(tokens'[i], tokens[i])
                                     /\ ~tokens[i].live => ~tokens'[i].live
<1> DEFINE n == Len(tokens)
           ended == [tokens[t] EXCEPT !.live = FALSE]
<1>1. /\ tokens \in Seq(Token) /\ n \in Nat /\ DOMAIN tokens = 1 .. n
      /\ tokens[t] \in Token
  BY DEF AuthTypeOK
<1>2. ended \in Token /\ ~ended.live /\ SameToken(ended, tokens[t])
  BY <1>1 DEF Token, SameToken
<1> HIDE DEF ended
<1>3. tokens' = [tokens EXCEPT ![t] = ended]
  BY DEF ended
<1>4. \A i \in 1 .. n : tokens'[i] = IF i = t THEN ended ELSE tokens[i]
  BY <1>1, <1>3
<1>5. \A i \in 1 .. n : tokens[i] \in Token
  BY <1>1
<1>6. \A i \in 1 .. n : tokens'[i] \in Token
  BY <1>2, <1>4, <1>5
<1>7. tokens' = [i \in 1 .. n |-> tokens'[i]]
  BY <1>1, <1>3
<1> HIDE DEF n
<1>8. tokens' \in Seq(Token) /\ Len(tokens') = n
  <2>1. [i \in 1 .. n |-> tokens'[i]] \in Seq(Token)
    <3> DEFINE T == tokens'
    <3>1. n \in Nat
      BY <1>1
    <3>2. \A i \in 1 .. n : T[i] \in Token
      BY <1>6
    <3> HIDE DEF T
    <3>3. [i \in 1 .. n |-> T[i]] \in Seq(Token)
      BY <3>1, <3>2
    <3>4. QED BY <3>3 DEF T
  <2>2. tokens' \in Seq(Token)
    BY <1>7, <2>1
  <2>3. DOMAIN tokens' = 1 .. n
    BY <1>7
  <2>4. QED BY <1>1, <2>2, <2>3
<1>9. \A i \in 1 .. n : SameToken(tokens'[i], tokens[i])
  BY <1>2, <1>4 DEF SameToken
<1>10. ~tokens'[t].live /\ \A i \in 1 .. n : ~tokens[i].live => ~tokens'[i].live
  BY <1>1, <1>2, <1>4
<1>11. DOMAIN tokens' = DOMAIN tokens
  BY <1>1, <1>7
<1>12. QED BY <1>1, <1>8, <1>9, <1>10, <1>11 DEF n

LEMMA TokenInserted ==
  ASSUME AuthInv, NEW r \in AuthReqs, InsertToken(r)
  PROVE  /\ tokens' \in Seq(Token) /\ Len(tokens') = Len(tokens) + 1
         /\ \A i \in DOMAIN tokens : i \in DOMAIN tokens' /\ tokens'[i] = tokens[i]
         /\ \A i \in DOMAIN tokens' : i = Len(tokens) + 1 \/ i \in DOMAIN tokens
         /\ tokens'[Len(tokens) + 1] \in Token
         /\ SameToken(tokens'[Len(tokens) + 1], authReqs[r])
<1> DEFINE q == authReqs[r]
           row == [user |-> q.user, live |-> TRUE, status |-> q.status,
                   identity |-> q.identity, phone |-> q.phone,
                   parent |-> q.parent, known |-> q.known]
<1>1. q.pc = "token.insert" /\ q \in AuthRequest
  BY DEF AuthInv, AuthTypeOK, InsertToken, At
<1>2. q.user \in Users /\ q.status \in UserStatus
  BY <1>1 DEF AuthInv, RequestsOwn, Owns, Claims, Owning, Claiming
<1>3. q.phone \in Phones
  BY <1>1, BusyPhone DEF AuthInv, At
<1>4. row \in Token /\ SameToken(row, q)
  BY <1>1, <1>2, <1>3 DEF Token, AuthRequest, SameToken
<1>5. tokens' = Append(tokens, row)
  BY DEF InsertToken
<1> HIDE DEF row
<1>6. tokens \in Seq(Token)
  BY DEF AuthInv, AuthTypeOK
<1>7. QED BY <1>4, <1>5, <1>6

LEMMA TokensMove ==
  ASSUME AuthInvStep
  PROVE  \/ UNCHANGED tokens
         \/ \E r \in AuthReqs : InsertToken(r)
         \/ \E t \in DOMAIN tokens : tokens' = [tokens EXCEPT ![t].live = FALSE]
<1> USE DEF AuthInvStep
<1>1. ASSUME NEW r \in AuthReqs, RevokeToken(r)
      PROVE  \E t \in DOMAIN tokens : tokens' = [tokens EXCEPT ![t].live = FALSE]
  <2>1. authReqs[r].pc = "token.revoke"
    BY <1>1 DEF RevokeToken, At
  <2>2. Exchange(r)
    BY <2>1 DEF AuthInv, ExchangesOK
  <2>3. QED BY <1>1, <2>2 DEF RevokeToken, Exchange
<1>2. QED
  BY <1>1 DEF AuthNext, AuthStep, authVars, SendOtp, EndWindow, StoreCode,
     VerifyOtp, DeleteCode, FindByPhone, CreateUser, PublishRegistered, ReadUser,
     RefreshToken, EndToken, VerifyAccount, Time, CrashAuth, RestartAuth

\* Rows are only added, and change only by being ended.
LEMMA TokensKept ==
  ASSUME AuthInvStep
  PROVE  /\ tokens' \in Seq(Token) /\ Len(tokens) <= Len(tokens')
         /\ \A i \in DOMAIN tokens : /\ i \in DOMAIN tokens'
                                     /\ SameToken(tokens'[i], tokens[i])
                                     /\ ~tokens[i].live => ~tokens'[i].live
<1> USE DEF AuthInvStep
<1>0. tokens \in Seq(Token) /\ Len(tokens) \in Nat
  BY DEF AuthInv, AuthTypeOK
<1>1. CASE UNCHANGED tokens
  BY <1>0, <1>1 DEF SameToken
<1>2. ASSUME NEW r \in AuthReqs, InsertToken(r)
      PROVE  /\ tokens' \in Seq(Token) /\ Len(tokens) <= Len(tokens')
             /\ \A i \in DOMAIN tokens : i \in DOMAIN tokens' /\ tokens'[i] = tokens[i]
  BY <1>0, <1>2, TokenInserted
<1>3. ASSUME NEW t \in DOMAIN tokens, tokens' = [tokens EXCEPT ![t].live = FALSE]
      PROVE  /\ tokens' \in Seq(Token) /\ Len(tokens) <= Len(tokens')
             /\ \A i \in DOMAIN tokens : /\ i \in DOMAIN tokens'
                                         /\ SameToken(tokens'[i], tokens[i])
                                         /\ ~tokens[i].live => ~tokens'[i].live
  <2>1. AuthTypeOK
    BY DEF AuthInv
  <2>2. /\ tokens' \in Seq(Token) /\ Len(tokens') = Len(tokens)
        /\ DOMAIN tokens' = DOMAIN tokens
        /\ \A i \in DOMAIN tokens : /\ SameToken(tokens'[i], tokens[i])
                                    /\ ~tokens[i].live => ~tokens'[i].live
    BY <1>3, <2>1, TokenEnded
  <2>3. QED BY <1>0, <2>2
<1>4. QED BY <1>1, <1>2, <1>3, TokensMove DEF SameToken

\* A row that was not there has been inserted by a request.
LEMMA NewToken ==
  ASSUME AuthInvStep, NEW i \in DOMAIN tokens', i \notin DOMAIN tokens
  PROVE  \E r \in AuthReqs : /\ InsertToken(r) /\ i = Len(tokens) + 1
                             /\ SameToken(tokens'[i], authReqs[r])
BY TokensMove, TokenInserted, TokenEnded DEF AuthInvStep, AuthInv

-------------------------------------------------------------------------------
\* The requests.

\* A slot stays as it is, ends, or goes on by a step of the handler.
LEMMA SlotMoves ==
  ASSUME AuthInvStep, NEW s \in AuthReqs
  PROVE  \/ authReqs'[s] = authReqs[s]
         \/ /\ authReqs'[s] = IdleAuth
            /\ StoreCode(s) \/ InsertToken(s) \/ At(s, "idle") \/ cut'
         \/ \E phone \in Phones : SendOtp(s, phone) \/ VerifyOtp(s, phone)
         \/ \E t \in DOMAIN tokens : RefreshToken(s, t)
         \/ EndWindow(s) \/ DeleteCode(s) \/ FindByPhone(s) \/ CreateUser(s)
         \/ PublishRegistered(s) \/ ReadUser(s) \/ RevokeToken(s)
<1> USE DEF AuthInvStep
<1>0. AuthTypeOK /\ StoresOK /\ HistoryOK
  BY DEF AuthInv
<1>1. CASE UNCHANGED authReqs
  BY <1>1
<1>2. ASSUME NEW r \in AuthReqs, StoreCode(r) \/ InsertToken(r) \/ CrashAuth(r)
      PROVE  \/ authReqs'[s] = authReqs[s]
             \/ /\ authReqs'[s] = IdleAuth
                /\ StoreCode(s) \/ InsertToken(s) \/ cut'
  <2>1. SlotBecomes(r, IdleAuth)
    BY <1>0, <1>2, EndSlot DEF StoreCode, InsertToken, CrashAuth
  <2>2. CrashAuth(r) => cut'
    BY DEF CrashAuth
  <2>3. QED BY <1>2, <2>1, <2>2 DEF SlotBecomes, OtherSlotsSame
<1>3. ASSUME NEW r \in AuthReqs \ {s}, NEW phone \in Phones,
             SendOtp(r, phone) \/ VerifyOtp(r, phone)
      PROVE  authReqs'[s] = authReqs[s]
  <2>1. CASE SendOtp(r, phone)
    BY <1>0, <2>1, SendFields DEF OtherSlotsSame
  <2>2. CASE VerifyOtp(r, phone)
    BY <1>0, <2>2, VerifyFields DEF OtherSlotsSame
  <2>3. QED BY <1>3, <2>1, <2>2
<1>4. ASSUME NEW r \in AuthReqs \ {s}, NEW t \in DOMAIN tokens, RefreshToken(r, t)
      PROVE  authReqs'[s] = authReqs[s]
  BY <1>0, <1>4, RefreshFields DEF OtherSlotsSame
<1>5. ASSUME NEW r \in AuthReqs \ {s},
             \/ EndWindow(r) \/ DeleteCode(r) \/ FindByPhone(r) \/ CreateUser(r)
             \/ PublishRegistered(r) \/ ReadUser(r) \/ RevokeToken(r)
      PROVE  authReqs'[s] = authReqs[s]
  BY <1>5 DEF EndWindow, DeleteCode, FindByPhone, CreateUser, PublishRegistered,
     ReadUser, RevokeToken, Goto, Carry, End, AuthInv, AuthTypeOK
<1>6. CASE RestartAuth
  <2>1. ~At(s, "idle") => cut'
    BY <1>6 DEF RestartAuth
  <2>2. QED BY <1>6, <2>1 DEF RestartAuth
<1>7. QED
  BY <1>1, <1>2, <1>3, <1>4, <1>5, <1>6 DEF AuthNext, AuthStep, authVars,
     EndToken, VerifyAccount, Time
LEMMA OwnedRow ==
  ASSUME AuthInv, NEW r \in AuthReqs, authReqs[r].pc \in Owning
  PROVE  /\ authReqs[r].user \in Users /\ users[authReqs[r].user] \in UserRow
         /\ HasPhone(authReqs[r].user, authReqs[r].phone)
BY DEF AuthInv, AuthTypeOK, RequestsOwn, Owns

LEMMA SlotsType ==
  ASSUME AuthInvStep
  PROVE  authReqs' \in [AuthReqs -> AuthRequest]
<1> USE DEF AuthInvStep
<1>0. AuthTypeOK /\ StoresOK /\ HistoryOK /\ SlotsClean
  BY DEF AuthInv
<1>1. CASE UNCHANGED authReqs
  BY <1>0, <1>1 DEF AuthTypeOK
<1>2. ASSUME NEW r \in AuthReqs, StoreCode(r) \/ InsertToken(r) \/ CrashAuth(r)
      PROVE  authReqs' \in [AuthReqs -> AuthRequest]
  BY <1>0, <1>2, EndSlot DEF StoreCode, InsertToken, CrashAuth, SlotBecomes
<1>3. ASSUME NEW r \in AuthReqs, NEW phone \in Phones,
             SendOtp(r, phone) \/ VerifyOtp(r, phone)
      PROVE  authReqs' \in [AuthReqs -> AuthRequest]
  BY <1>0, <1>1, <1>3, SendFields, VerifyFields
<1>4. ASSUME NEW r \in AuthReqs, NEW t \in DOMAIN tokens, RefreshToken(r, t)
      PROVE  authReqs' \in [AuthReqs -> AuthRequest]
  BY <1>0, <1>4, RefreshFields
<1>5. ASSUME NEW r \in AuthReqs,
             \/ EndWindow(r) \/ PublishRegistered(r) \/ RevokeToken(r) \/ DeleteCode(r)
      PROVE  authReqs' \in [AuthReqs -> AuthRequest]
  BY <1>0, <1>5, GotoFields, AcceptFields
     DEF EndWindow, PublishRegistered, RevokeToken, AuthPc
<1>6. ASSUME NEW r \in AuthReqs, FindByPhone(r)
      PROVE  authReqs' \in [AuthReqs -> AuthRequest]
  <2>1. \A u \in Users : users[u] \in UserRow
    BY <1>0 DEF AuthTypeOK
  <2>2. QED BY <1>0, <1>6, <2>1, GotoFields, CarryFields DEF FindByPhone, AuthPc
<1>7. ASSUME NEW r \in AuthReqs, CreateUser(r)
      PROVE  authReqs' \in [AuthReqs -> AuthRequest]
  <2>1. \A u \in Users : users'[u] \in UserRow
    BY UsersKept
  <2>2. QED
    BY <1>0, <1>7, <2>1, EndSlot, CarryFields DEF CreateUser, AuthPc, SlotBecomes
<1>8. ASSUME NEW r \in AuthReqs, ReadUser(r)
      PROVE  authReqs' \in [AuthReqs -> AuthRequest]
  BY <1>0, <1>8, OwnedRow, CarryFields DEF ReadUser, At, Owning, AuthPc
<1>9. CASE RestartAuth
  BY <1>9 DEF RestartAuth, IdleAuth, AuthRequest, AuthPc
<1>10. QED
  BY <1>1, <1>2, <1>3, <1>4, <1>5, <1>6, <1>7, <1>8, <1>9
     DEF AuthNext, AuthStep, authVars, EndToken, VerifyAccount, Time

LEMMA AcceptedMove ==
  ASSUME AuthInvStep
  PROVE  \/ UNCHANGED accepted
         \/ \E r \in AuthReqs : DeleteCode(r)
BY DEF AuthInvStep, AuthNext, AuthStep, authVars, SendOtp, EndWindow, StoreCode,
   VerifyOtp, FindByPhone, CreateUser, PublishRegistered, ReadUser, RevokeToken,
   InsertToken, RefreshToken, EndToken, VerifyAccount, Time, CrashAuth, RestartAuth

\* The code a request had read is accepted, after those accepted before it.
LEMMA AcceptEffect ==
  ASSUME AuthTypeOK, NEW r \in AuthReqs, DeleteCode(r)
  PROVE  /\ accepted' \in Seq(Acceptance) /\ Len(accepted') = Len(accepted) + 1
         /\ \A i \in DOMAIN accepted : i \in DOMAIN accepted' /\ accepted'[i] = accepted[i]
         /\ \A i \in DOMAIN accepted' : i = Len(accepted) + 1 \/ i \in DOMAIN accepted
         /\ accepted'[Len(accepted) + 1].code = authReqs[r].code
         /\ accepted'[Len(accepted) + 1].known = authReqs[r].known
<1> DEFINE row == [code |-> authReqs[r].code, known |-> authReqs[r].known]
<1>1. authReqs[r] \in AuthRequest /\ accepted \in Seq(Acceptance)
  BY DEF AuthTypeOK
<1>2. /\ row \in Acceptance
      /\ row.code = authReqs[r].code /\ row.known = authReqs[r].known
  BY <1>1 DEF AuthRequest, Acceptance
<1>3. accepted' = Append(accepted, row)
  BY DEF DeleteCode
<1> HIDE DEF row
<1>4. QED BY <1>1, <1>2, <1>3

LEMMA AuthTypeStep ==
  ASSUME AuthInvStep
  PROVE  AuthTypeOK'
<1>1. accepted' \in Seq(Acceptance)
  BY AcceptedMove, AcceptEffect DEF AuthInvStep, AuthInv, AuthTypeOK
<1>2. users' \in [Users -> UserRow]
  BY UsersKept
<1>3. tokens' \in Seq(Token)
  BY TokensKept
<1>4. /\ redis' \in [Keys -> Entry] /\ memory' \in [Keys -> Entry]
      /\ useMemory' \in BOOLEAN
  BY StoresStep DEF StoresOK
<1>5. \A key \in Keys : redis'[key] \in Entry /\ memory'[key] \in Entry
  BY <1>4
<1>6. \A store \in {redis', memory'} : \A key \in Keys : store[key] \in Entry
  BY <1>5
<1>7. QED BY <1>1, <1>2, <1>3, <1>4, <1>6, SlotsType DEF AuthTypeOK, Entry

LEMMA SlotsCleanStep ==
  ASSUME AuthInvStep
  PROVE  SlotsClean'
<1> USE DEF AuthInvStep
<1> SUFFICES ASSUME NEW s \in AuthReqs
             PROVE  IF At(s, "idle")' THEN authReqs'[s] = IdleAuth
                                      ELSE authReqs'[s].phone \in Phones
  BY DEF SlotsClean, At
<1>0. AuthTypeOK /\ StoresOK /\ HistoryOK /\ SlotsClean
  BY DEF AuthInv
<1>1. CASE authReqs'[s] = authReqs[s] \/ authReqs'[s] = IdleAuth
  BY <1>0, <1>1 DEF SlotsClean, At, IdleAuth
<1>2. ASSUME NEW phone \in Phones, SendOtp(s, phone) \/ VerifyOtp(s, phone),
             authReqs'[s] # authReqs[s]
      PROVE  authReqs'[s].pc # "idle" /\ authReqs'[s].phone \in Phones
  BY <1>0, <1>2, SendFields, VerifyFields DEF Sending
<1>3. ASSUME NEW t \in DOMAIN tokens, RefreshToken(s, t)
      PROVE  authReqs'[s].pc # "idle" /\ authReqs'[s].phone \in Phones
  <2>1. tokens[t].phone \in Phones
    <3>1. tokens[t] \in Token
      BY <1>0 DEF AuthTypeOK
    <3>2. QED BY <3>1 DEF Token
  <2>2. QED BY <1>0, <1>3, <2>1, RefreshFields
<1>4. ASSUME \/ EndWindow(s) \/ DeleteCode(s) \/ PublishRegistered(s) \/ RevokeToken(s)
      PROVE  authReqs'[s].pc # "idle" /\ authReqs'[s].phone \in Phones
  <2>1. authReqs[s].phone \in Phones
    BY <1>0, <1>4, BusyPhone
       DEF EndWindow, DeleteCode, PublishRegistered, RevokeToken, At
  <2>2. QED
    BY <1>0, <1>4, <2>1, GotoFields, AcceptFields
       DEF EndWindow, PublishRegistered, RevokeToken, AuthPc
<1>5. ASSUME FindByPhone(s) \/ CreateUser(s) \/ ReadUser(s), authReqs'[s] # IdleAuth
      PROVE  authReqs'[s].pc # "idle" /\ authReqs'[s].phone \in Phones
  <2>1. authReqs[s].phone \in Phones
    BY <1>0, <1>5, BusyPhone DEF FindByPhone, CreateUser, ReadUser, At
  <2>2. \A u \in Users : users[u] \in UserRow /\ users'[u] \in UserRow
    BY <1>0, UsersKept DEF AuthTypeOK
  <2>3. CASE FindByPhone(s)
    BY <1>0, <2>1, <2>2, <2>3, GotoFields, CarryFields DEF FindByPhone, AuthPc
  <2>4. CASE CreateUser(s)
    BY <1>0, <1>5, <2>1, <2>2, <2>4, EndSlot, CarryFields
       DEF CreateUser, AuthPc, SlotBecomes
  <2>5. CASE ReadUser(s)
    BY <1>0, <2>1, <2>5, OwnedRow, CarryFields DEF ReadUser, At, Owning, AuthPc
  <2>6. QED BY <1>5, <2>3, <2>4, <2>5
<1>6. QED
  BY <1>1, <1>2, <1>3, <1>4, <1>5, SlotMoves DEF At

-------------------------------------------------------------------------------
\* Whose account a token is for, and what it claims.

LEMMA OwnsKept ==
  ASSUME AuthInvStep, NEW k, NEW l, Owns(k), l.user = k.user, l.phone = k.phone
  PROVE  /\ l.user \in Users
         /\ users'[l.user].status # "none" /\ users'[l.user].phone = l.phone
BY UsersKept DEF Owns, HasPhone, HasRow

LEMMA ClaimsKept ==
  ASSUME AuthInvStep, NEW k, NEW l, Owns(k), Claims(k), l.user = k.user,
         l.status = k.status, l.identity = k.identity
  PROVE  /\ l.status \in UserStatus
         /\ l.status = "active" => l.identity # NoValue
         /\ l.identity # NoValue => users'[l.user].identity = l.identity
BY UsersKept DEF Owns, Claims, HasPhone

\* A row claims what is true of its account.
LEMMA RowClaims ==
  ASSUME AuthInv, NEW u \in Users, HasRow(u)
  PROVE  /\ users[u].status \in UserStatus
         /\ users[u].status = "active" => users[u].identity # NoValue
BY DEF AuthInv, AuthTypeOK, UserRow, HasRow, UsersOK

LEMMA RequestsOwnStep ==
  ASSUME AuthInvStep
  PROVE  RequestsOwn'
<1> USE DEF AuthInvStep
<1> DEFINE Own(q) == /\ q.user \in Users
                     /\ users'[q.user].status # "none"
                     /\ users'[q.user].phone = q.phone
           Claim(q) == /\ q.status \in UserStatus
                       /\ q.status = "active" => q.identity # NoValue
                       /\ q.identity # NoValue => users'[q.user].identity = q.identity
<1> SUFFICES ASSUME NEW s \in AuthReqs
             PROVE  /\ authReqs'[s].pc \in Owning => Own(authReqs'[s])
                    /\ authReqs'[s].pc \in Claiming => Claim(authReqs'[s])
  BY DEF RequestsOwn, Owns, Claims, HasPhone, HasRow
<1>0. AuthTypeOK /\ StoresOK /\ HistoryOK /\ SlotsClean /\ RequestsOwn
  BY DEF AuthInv
<1>1. CASE authReqs'[s] = authReqs[s]
  <2>1. authReqs[s].pc \in Owning => Own(authReqs'[s])
    BY <1>0, <1>1, OwnsKept DEF RequestsOwn
  <2>2. authReqs[s].pc \in Claiming => Claim(authReqs'[s])
    BY <1>0, <1>1, ClaimsKept DEF RequestsOwn, Claiming
  <2>3. QED BY <1>1, <2>1, <2>2
<1>2. CASE authReqs'[s] = IdleAuth
  BY <1>2 DEF IdleAuth, Owning, Claiming
<1>3. ASSUME NEW phone \in Phones, SendOtp(s, phone) \/ VerifyOtp(s, phone),
             authReqs'[s] # authReqs[s]
      PROVE  authReqs'[s].pc \notin Owning
  BY <1>0, <1>3, SendFields, VerifyFields DEF Owning, Sending
<1>4. ASSUME NEW t \in DOMAIN tokens, RefreshToken(s, t)
      PROVE  authReqs'[s].pc \notin Claiming /\ Own(authReqs'[s])
  <2>1. Owns(tokens[t])
    BY DEF AuthInv, TokensOwn
  <2>2. /\ authReqs'[s].pc = "user.read"
        /\ authReqs'[s].user = tokens[t].user /\ authReqs'[s].phone = tokens[t].phone
    BY <1>0, <1>4, RefreshFields
  <2>3. Own(authReqs'[s])
    BY <2>1, <2>2, OwnsKept
  <2>4. QED BY <2>2, <2>3 DEF Claiming
<1>5. ASSUME EndWindow(s) \/ DeleteCode(s)
      PROVE  authReqs'[s].pc \notin Owning
  BY <1>0, <1>5, GotoFields, AcceptFields DEF EndWindow, AuthPc, Owning
<1>6. ASSUME PublishRegistered(s) \/ RevokeToken(s)
      PROVE  Own(authReqs'[s]) /\ Claim(authReqs'[s])
  <2>1. authReqs[s].pc \in Owning /\ authReqs[s].pc \in Claiming
    BY <1>6 DEF PublishRegistered, RevokeToken, At, Owning, Claiming
  <2>2. Owns(authReqs[s]) /\ Claims(authReqs[s])
    BY <1>0, <2>1 DEF RequestsOwn
  <2>3. /\ authReqs'[s].user = authReqs[s].user
        /\ authReqs'[s].phone = authReqs[s].phone
        /\ authReqs'[s].status = authReqs[s].status
        /\ authReqs'[s].identity = authReqs[s].identity
    BY <1>0, <1>6, GotoFields DEF PublishRegistered, RevokeToken, AuthPc
  <2>4. Own(authReqs'[s])
    BY <2>2, <2>3, OwnsKept
  <2>5. Claim(authReqs'[s])
    BY <2>2, <2>3, ClaimsKept
  <2>6. QED BY <2>4, <2>5
<1>7. ASSUME NEW pc \in AuthPc, NEW u \in Users, HasPhone(u, authReqs[s].phone),
             Carry(s, pc, u, users[u]), UNCHANGED users
      PROVE  Own(authReqs'[s]) /\ Claim(authReqs'[s])
  <2>1. users[u] \in UserRow /\ HasRow(u)
    BY <1>0, <1>7 DEF AuthTypeOK, HasPhone
  <2>2. /\ authReqs'[s].user = u /\ authReqs'[s].phone = authReqs[s].phone
        /\ authReqs'[s].status = users[u].status
        /\ authReqs'[s].identity = users[u].identity
    BY <1>0, <1>7, <2>1, CarryFields
  <2>3. /\ users[u].status \in UserStatus
        /\ users[u].status = "active" => users[u].identity # NoValue
    BY <2>1, RowClaims
  <2>4. QED BY <1>7, <2>2, <2>3 DEF HasPhone, HasRow
<1>8. ASSUME FindByPhone(s) \/ ReadUser(s)
      PROVE  \/ authReqs'[s].pc \notin Owning
             \/ Own(authReqs'[s]) /\ Claim(authReqs'[s])
  <2>1. CASE FindByPhone(s)
    <3>1. UNCHANGED users
      BY <2>1 DEF FindByPhone
    <3>2. CASE Goto(s, "user.insert")
      BY <1>0, <3>2, GotoFields DEF AuthPc, Owning
    <3>3. QED BY <1>7, <2>1, <3>1, <3>2 DEF FindByPhone, AuthPc
  <2>2. CASE ReadUser(s)
    <3>1. authReqs[s].user \in Users /\ HasPhone(authReqs[s].user, authReqs[s].phone)
      BY <2>2, OwnedRow DEF ReadUser, At, Owning
    <3>2. QED BY <1>7, <2>2, <3>1 DEF ReadUser, AuthPc
  <2>3. QED BY <1>8, <2>1, <2>2
<1>9. ASSUME CreateUser(s), authReqs'[s] # IdleAuth
      PROVE  Own(authReqs'[s]) /\ Claim(authReqs'[s])
  <2>1. authReqs[s].phone \in Phones
    BY <1>0, <1>9, BusyPhone DEF CreateUser, At
  <2>2. PICK u \in Users : /\ InsertUser(u, authReqs[s].phone)
                           /\ Carry(s, "user.publish", u, users'[u])
    BY <1>0, <1>9, EndSlot DEF CreateUser, SlotBecomes
  <2>3. /\ users'[u] \in UserRow
        /\ users'[u].status = "pending_kyc" /\ users'[u].phone = authReqs[s].phone
        /\ users'[u].identity = NoValue
    BY <1>0, <2>1, <2>2, InsertUserEffect
  <2>4. /\ authReqs'[s].user = u /\ authReqs'[s].phone = authReqs[s].phone
        /\ authReqs'[s].status = users'[u].status
        /\ authReqs'[s].identity = users'[u].identity
    BY <1>0, <2>2, <2>3, CarryFields DEF AuthPc
  <2>5. QED BY <2>3, <2>4 DEF UserStatus
<1>10. QED
  BY <1>1, <1>2, <1>3, <1>4, <1>5, <1>6, <1>8, <1>9, SlotMoves DEF Claiming

LEMMA TokensOwnStep ==
  ASSUME AuthInvStep
  PROVE  TokensOwn'
<1> USE DEF AuthInvStep
<1> SUFFICES ASSUME NEW i \in DOMAIN tokens'
             PROVE  /\ tokens'[i].user \in Users
                    /\ users'[tokens'[i].user].status # "none"
                    /\ users'[tokens'[i].user].phone = tokens'[i].phone
                    /\ tokens'[i].status \in UserStatus
                    /\ tokens'[i].status = "active" => tokens'[i].identity # NoValue
                    /\ tokens'[i].identity # NoValue
                         => users'[tokens'[i].user].identity = tokens'[i].identity
  BY DEF TokensOwn, Owns, Claims, HasPhone, HasRow
<1>1. CASE i \in DOMAIN tokens
  <2>1. Owns(tokens[i]) /\ Claims(tokens[i]) /\ SameToken(tokens'[i], tokens[i])
    BY <1>1, TokensKept DEF AuthInv, TokensOwn
  <2>2. QED BY <2>1, OwnsKept, ClaimsKept DEF SameToken
<1>2. CASE i \notin DOMAIN tokens
  <2>1. PICK r \in AuthReqs : InsertToken(r) /\ SameToken(tokens'[i], authReqs[r])
    BY <1>2, NewToken
  <2>2. Owns(authReqs[r]) /\ Claims(authReqs[r])
    BY <2>1 DEF InsertToken, At, AuthInv, RequestsOwn, Owning, Claiming
  <2>3. QED BY <2>1, <2>2, OwnsKept, ClaimsKept DEF SameToken
<1>3. QED BY <1>1, <1>2

-------------------------------------------------------------------------------
\* The exchange of a token for another.

LEMMA ParentsStep ==
  ASSUME AuthInvStep
  PROVE  ParentsSpent'
<1> SUFFICES ASSUME NEW i \in DOMAIN tokens', tokens'[i].parent # 0
             PROVE  /\ tokens'[i].parent \in DOMAIN tokens'
                    /\ ~tokens'[tokens'[i].parent].live
  BY DEF ParentsSpent
<1>1. tokens'[i].parent \in DOMAIN tokens /\ ~tokens[tokens'[i].parent].live
  <2>1. CASE i \in DOMAIN tokens
    BY <2>1, TokensKept DEF SameToken, AuthInvStep, AuthInv, ParentsSpent
  <2>2. CASE i \notin DOMAIN tokens
    <3>1. PICK r \in AuthReqs : InsertToken(r) /\ SameToken(tokens'[i], authReqs[r])
      BY <2>2, NewToken
    <3>2. authReqs[r].pc = "token.insert" /\ authReqs[r].parent = tokens'[i].parent
      BY <3>1 DEF InsertToken, At, SameToken
    <3>3. Exchange(r)
      BY <3>2 DEF AuthInvStep, AuthInv, ExchangesOK
    <3>4. QED BY <3>2, <3>3 DEF Exchange
  <2>3. QED BY <2>1, <2>2
<1>2. QED BY <1>1, TokensKept

\* Tokens that are inserted while an exchange is under way do not disturb it.
LEMMA ExchangeKept ==
  ASSUME AuthInvStep, NEW r \in AuthReqs, Exchange(r),
         NEW q, q.parent = authReqs[r].parent, q.known = authReqs[r].known,
         q.pc \in Exchanging,
         q.pc = "token.insert" => ~tokens'[q.parent].live
  PROVE  /\ q.pc \in Exchanging
         /\ q.parent \in DOMAIN tokens' /\ q.known <= Len(tokens')
         /\ q.pc = "token.insert" => ~tokens'[q.parent].live
         /\ \A i \in DOMAIN tokens' : tokens'[i].parent = q.parent => i > q.known
<1>0. /\ authReqs[r].known \in Nat /\ tokens \in Seq(Token) /\ Len(tokens) \in Nat
      /\ Len(tokens') \in Nat
  <2>1. authReqs[r] \in AuthRequest /\ tokens \in Seq(Token) /\ tokens' \in Seq(Token)
    BY TokensKept DEF AuthInvStep, AuthInv, AuthTypeOK
  <2>2. QED BY <2>1 DEF AuthRequest
<1>1. q.parent \in DOMAIN tokens' /\ q.known <= Len(tokens')
  BY <1>0, TokensKept DEF Exchange
<1>2. ASSUME NEW i \in DOMAIN tokens', tokens'[i].parent = q.parent
      PROVE  i > q.known
  <2>1. CASE i \in DOMAIN tokens
    BY <1>2, <2>1, TokensKept DEF Exchange, SameToken
  <2>2. CASE i \notin DOMAIN tokens
    <3>1. i = Len(tokens) + 1
      BY <2>2, NewToken
    <3>2. QED BY <1>0, <3>1 DEF Exchange
  <2>3. QED BY <2>1, <2>2
<1>3. QED BY <1>1, <1>2

LEMMA ExchangesStep ==
  ASSUME AuthInvStep
  PROVE  ExchangesOK'
<1> DEFINE Ok(q) ==
      /\ q.pc \in Exchanging
      /\ q.parent \in DOMAIN tokens' /\ q.known <= Len(tokens')
      /\ q.pc = "token.insert" => ~tokens'[q.parent].live
      /\ \A i \in DOMAIN tokens' : tokens'[i].parent = q.parent => i > q.known
<1> SUFFICES ASSUME NEW s \in AuthReqs
             PROVE  /\ authReqs'[s].parent # 0 => Ok(authReqs'[s])
                    /\ authReqs'[s].pc \in {"user.read", "token.revoke"}
                         => authReqs'[s].parent # 0
  BY DEF ExchangesOK, Exchange
<1>0. /\ AuthTypeOK /\ StoresOK /\ HistoryOK /\ SlotsClean /\ ExchangesOK
      /\ ParentsSpent /\ AuthInv
  BY DEF AuthInvStep, AuthInv
<1>a. Exchange(s) => authReqs[s].parent \in DOMAIN tokens
  BY DEF Exchange
<1>b. 0 \notin DOMAIN tokens
  BY <1>0 DEF AuthTypeOK
<1>1. CASE authReqs'[s] = authReqs[s]
  <2>1. CASE authReqs[s].parent # 0
    <3>1. Exchange(s)
      BY <1>0, <2>1 DEF ExchangesOK
    <3>2. authReqs[s].pc = "token.insert" => ~tokens'[authReqs[s].parent].live
      BY <3>1, TokensKept DEF Exchange
    <3>3. Ok(authReqs[s])
      BY <3>1, <3>2, ExchangeKept DEF Exchange
    <3> HIDE DEF Ok
    <3>4. QED BY <1>1, <2>1, <3>3
  <2>2. CASE authReqs[s].parent = 0
    BY <1>0, <1>1, <2>2 DEF ExchangesOK
  <2>3. QED BY <2>1, <2>2
<1>2. CASE authReqs'[s] = IdleAuth
  BY <1>2 DEF IdleAuth
<1>3. ASSUME NEW phone \in Phones, SendOtp(s, phone) \/ VerifyOtp(s, phone),
             authReqs'[s] # authReqs[s]
      PROVE  /\ authReqs'[s].parent = 0
             /\ authReqs'[s].pc \notin {"user.read", "token.revoke"}
  <2>1. authReqs[s].parent = 0
    <3>1. At(s, "idle")
      BY <1>3 DEF SendOtp, VerifyOtp
    <3>2. QED BY <1>0, <3>1 DEF SlotsClean, IdleAuth
  <2>2. QED BY <1>0, <1>3, <2>1, SendFields, VerifyFields DEF Sending
<1>4. ASSUME NEW t \in DOMAIN tokens, RefreshToken(s, t)
      PROVE  authReqs'[s].parent # 0 /\ Ok(authReqs'[s])
  <2>1. /\ authReqs'[s].pc = "user.read" /\ authReqs'[s].parent = t
        /\ authReqs'[s].known = Len(tokens)
    BY <1>0, <1>4, RefreshFields
  <2>2. tokens[t].live /\ UNCHANGED tokens
    BY <1>4 DEF RefreshToken
  <2>3. \A i \in DOMAIN tokens : tokens[i].parent # t
    BY <1>0, <1>b, <2>2 DEF ParentsSpent
  <2>4. Len(tokens) \in Nat
    BY <1>0 DEF AuthTypeOK
  <2>5. QED BY <1>b, <2>1, <2>2, <2>3, <2>4 DEF Exchanging
<1>5. ASSUME \/ EndWindow(s) \/ DeleteCode(s) \/ FindByPhone(s) \/ CreateUser(s)
             \/ PublishRegistered(s)
      PROVE  /\ authReqs'[s].parent = 0
             /\ authReqs'[s].pc \notin {"user.read", "token.revoke"}
  <2>1. authReqs[s].pc \notin Exchanging
    BY <1>5 DEF EndWindow, DeleteCode, FindByPhone, CreateUser, PublishRegistered,
       At, Exchanging
  <2>2. authReqs[s].parent = 0
    BY <1>0, <2>1 DEF ExchangesOK, Exchange
  <2>3. CASE EndWindow(s) \/ DeleteCode(s) \/ PublishRegistered(s)
    BY <1>0, <2>2, <2>3, GotoFields, AcceptFields
       DEF EndWindow, PublishRegistered, AuthPc
  <2>4. \A u \in Users : users[u] \in UserRow /\ users'[u] \in UserRow
    BY <1>0, UsersKept DEF AuthTypeOK
  <2>5. CASE FindByPhone(s)
    BY <1>0, <2>2, <2>4, <2>5, GotoFields, CarryFields DEF FindByPhone, AuthPc
  <2>6. CASE CreateUser(s)
    BY <1>0, <2>2, <2>4, <2>6, EndSlot, CarryFields
       DEF CreateUser, AuthPc, SlotBecomes, IdleAuth
  <2>7. QED BY <1>5, <2>3, <2>5, <2>6
<1>6. ASSUME ReadUser(s) \/ RevokeToken(s)
      PROVE  authReqs'[s].parent # 0 /\ Ok(authReqs'[s])
  <2>1. authReqs[s].pc \in {"user.read", "token.revoke"}
    BY <1>6 DEF ReadUser, RevokeToken, At
  <2>2. authReqs[s].parent # 0 /\ Exchange(s)
    BY <1>0, <2>1 DEF ExchangesOK
  <2>3. /\ authReqs'[s].parent = authReqs[s].parent
        /\ authReqs'[s].known = authReqs[s].known
        /\ ReadUser(s) => authReqs'[s].pc = "token.revoke"
        /\ RevokeToken(s) => authReqs'[s].pc = "token.insert"
    <3>1. CASE ReadUser(s)
      BY <1>0, <3>1, OwnedRow, CarryFields
         DEF ReadUser, RevokeToken, At, Owning, AuthPc
    <3>2. CASE RevokeToken(s)
      BY <1>0, <3>2, GotoFields DEF ReadUser, RevokeToken, At, AuthPc
    <3>3. QED BY <1>6, <3>1, <3>2
  <2>4. RevokeToken(s) => ~tokens'[authReqs[s].parent].live
    BY <1>0, <1>a, <2>2, TokenEnded DEF RevokeToken
  <2>5. Ok(authReqs'[s])
    BY <1>6, <2>2, <2>3, <2>4, ExchangeKept DEF Exchanging
  <2> HIDE DEF Ok
  <2>6. QED BY <2>2, <2>3, <2>5
<1> HIDE DEF Ok
<1>7. QED
  BY <1>1, <1>2, <1>3, <1>4, <1>5, <1>6, SlotMoves DEF IdleAuth

LEMMA ForkedStep ==
  ASSUME AuthInvStep
  PROVE  ForkedOnlyByRace'
<1> SUFFICES ASSUME NEW i \in DOMAIN tokens', NEW j \in DOMAIN tokens',
                    i < j, tokens'[i].parent = tokens'[j].parent,
                    tokens'[i].parent # 0
             PROVE  i > tokens'[j].known
  BY DEF ForkedOnlyByRace
<1>1. tokens \in Seq(Token) /\ Len(tokens) \in Nat /\ tokens' \in Seq(Token)
  BY TokensKept DEF AuthInvStep, AuthInv, AuthTypeOK
<1>2. CASE j \in DOMAIN tokens
  <2>1. i \in DOMAIN tokens
    BY <1>1, <1>2
  <2>2. QED
    BY <1>2, <2>1, TokensKept DEF SameToken, AuthInvStep, AuthInv, ForkedOnlyByRace
<1>3. CASE j \notin DOMAIN tokens
  <2>1. PICK r \in AuthReqs : /\ InsertToken(r) /\ j = Len(tokens) + 1
                              /\ SameToken(tokens'[j], authReqs[r])
    BY <1>3, NewToken
  <2>2. i \in DOMAIN tokens
    BY <1>1, <2>1
  <2>3. authReqs[r].parent = tokens'[j].parent /\ authReqs[r].known = tokens'[j].known
    BY <2>1 DEF SameToken
  <2>4. Exchange(r)
    BY <2>3 DEF AuthInvStep, AuthInv, ExchangesOK
  <2>5. tokens[i].parent = authReqs[r].parent
    BY <2>2, <2>3, TokensKept DEF SameToken
  <2>6. QED BY <2>2, <2>3, <2>4, <2>5 DEF Exchange
<1>4. QED BY <1>2, <1>3

-------------------------------------------------------------------------------
\* The counter of a phone.

LEMMA RedisMove ==
  ASSUME AuthInvStep
  PROVE  \/ UNCHANGED redis
         \/ \E r \in AuthReqs : \/ \E phone \in Phones : SendOtp(r, phone)
                                \/ EndWindow(r) \/ StoreCode(r) \/ DeleteCode(r)
         \/ \E key \in Keys : Time(key)
<1> USE DEF AuthInvStep
<1>1. ASSUME NEW r \in AuthReqs, NEW phone \in Phones, VerifyOtp(r, phone)
      PROVE  UNCHANGED redis
  BY <1>1, KeysApart, GetEffect DEF VerifyOtp, AuthInv
<1>2. CASE RestartAuth
  BY <1>2 DEF RestartAuth, Reconnect
<1>3. QED
  BY <1>1, <1>2 DEF AuthNext, AuthStep, authVars, redisVars, FindByPhone,
     CreateUser, PublishRegistered, ReadUser, RevokeToken, InsertToken,
     RefreshToken, EndToken, VerifyAccount, CrashAuth

LEMMA CutStays ==
  ASSUME AuthInvStep, cut
  PROVE  cut'
BY DEF AuthInvStep, AuthNext, AuthStep, authVars, SendOtp, EndWindow, StoreCode,
   VerifyOtp, DeleteCode, FindByPhone, CreateUser, PublishRegistered, ReadUser,
   RevokeToken, InsertToken, RefreshToken, EndToken, VerifyAccount, Time,
   CrashAuth, RestartAuth

\* The request that will end the window goes on to do so, or is cut off.
LEMMA WindowPending ==
  ASSUME AuthInvStep, NEW s \in AuthReqs, At(s, "otp.expire")
  PROVE  authReqs'[s] = authReqs[s] \/ EndWindow(s) \/ cut'
BY SlotMoves DEF At, StoreCode, InsertToken, SendOtp, VerifyOtp, RefreshToken,
   DeleteCode, FindByPhone, CreateUser, PublishRegistered, ReadUser, RevokeToken

LEMMA CounterStep ==
  ASSUME AuthInvStep
  PROVE  CounterExpires'
<1> USE DEF AuthInvStep
<1> SUFFICES ASSUME NEW phone \in Phones,
                    redis'[<<"rate", phone>>].value # Absent,
                    ~redis'[<<"rate", phone>>].expires, ~cut', ~failed'
             PROVE  \E r \in AuthReqs : /\ authReqs'[r].pc = "otp.expire"
                                        /\ authReqs'[r].phone = phone
  BY DEF CounterExpires, At
<1> DEFINE key == <<"rate", phone>>
<1>0. /\ AuthTypeOK /\ StoresOK /\ HistoryOK /\ SlotsClean /\ CounterExpires
      /\ ~cut /\ ~failed
  BY StoresStep, CutStays DEF AuthInv
<1>a. key \in Keys /\ redis[key] \in Entry /\ DOMAIN redis = Keys
  BY <1>0, KeysApart DEF StoresOK
<1>1. ASSUME redis[key].value # Absent, ~redis[key].expires
      PROVE  \E r \in AuthReqs : /\ authReqs'[r].pc = "otp.expire"
                                 /\ authReqs'[r].phone = phone
  <2>1. PICK r \in AuthReqs : At(r, "otp.expire") /\ authReqs[r].phone = phone
    BY <1>0, <1>1 DEF CounterExpires
  <2>2. CASE EndWindow(r)
    <3>1. Expire(key)
      BY <2>1, <2>2 DEF EndWindow
    <3>2. redis' = [redis EXCEPT ![key] =
                     [value |-> redis[key].value, expires |-> TRUE]]
      BY <1>0, <1>1, <1>a, <3>1, ExpireEffect
    <3>3. redis'[key].expires
      BY <1>a, <3>2
    <3>4. QED BY <3>3
  <2>3. QED BY <2>1, <2>2, WindowPending DEF At
<1>2. CASE redis'[key] = redis[key]
  BY <1>1, <1>2
<1>3. ASSUME NEW r \in AuthReqs, SendOtp(r, phone)
      PROVE  \/ redis[key].value # Absent /\ ~redis[key].expires
             \/ authReqs'[r].pc = "otp.expire" /\ authReqs'[r].phone = phone
  <2>1. PICK n \in 1 .. MaxSends :
          /\ Incr(key, n)
          /\ authReqs' =
               IF n > MaxAttempts THEN authReqs
               ELSE [authReqs EXCEPT ![r] =
                      [authReqs[r] EXCEPT !.pc = IF n = 1 THEN "otp.expire" ELSE "otp.set",
                                          !.phone = phone, !.code = sends']]
    BY <1>3 DEF SendOtp
  <2>2. /\ redis' = [redis EXCEPT ![key] =
                      [value |-> n, expires |-> redis[key].expires]]
        /\ n = 1 \/ redis[key].value # Absent
    <3>1. n \in Nat /\ StoresOK /\ key \in Keys /\ Incr(key, n)
      BY <1>0, <1>a, <2>1, AuthAssumption
    <3> HIDE DEF key
    <3>2. QED BY <3>1, IncrEffect
  <2>3. redis'[key].expires = redis[key].expires
    BY <1>a, <2>2
  <2>4. CASE n = 1
    <3>1. authReqs' = [authReqs EXCEPT ![r] =
                        [authReqs[r] EXCEPT !.pc = "otp.expire", !.phone = phone,
                                            !.code = sends']]
      BY <2>1, <2>4, AuthAssumption
    <3>2. authReqs[r] \in AuthRequest /\ DOMAIN authReqs = AuthReqs
      BY <1>0 DEF AuthTypeOK
    <3> DEFINE q == [authReqs[r] EXCEPT !.pc = "otp.expire", !.phone = phone,
                                        !.code = sends']
    <3>3. q.pc = "otp.expire" /\ q.phone = phone
      BY <3>2 DEF AuthRequest
    <3>4. authReqs'[r] = q
      BY <3>1, <3>2
    <3> HIDE DEF q
    <3>5. QED BY <3>3, <3>4
  <2>5. CASE n # 1
    BY <2>2, <2>3, <2>5
  <2>6. QED BY <2>4, <2>5
<1>4. ASSUME NEW r \in AuthReqs, NEW other \in Phones \ {phone}, SendOtp(r, other)
      PROVE  redis'[key] = redis[key]
  <2>1. PICK n \in 1 .. MaxSends : Incr(<<"rate", other>>, n)
    BY <1>4 DEF SendOtp
  <2>2. PICK e : redis' = [redis EXCEPT ![<<"rate", other>>] = e]
    BY <1>0, <2>1, KeysApart, IncrEffect, AuthAssumption
  <2>3. key # <<"rate", other>>
    BY KeysApart
  <2>4. QED BY <1>a, <2>2, <2>3
<1>5. ASSUME NEW r \in AuthReqs, EndWindow(r), authReqs[r].phone # phone
      PROVE  redis'[key] = redis[key]
  <2>1. authReqs[r].phone \in Phones
    BY <1>0, <1>5, BusyPhone DEF EndWindow, At
  <2>2. PICK e : redis' = redis \/ redis' = [redis EXCEPT ![<<"rate", authReqs[r].phone>>] = e]
    BY <1>0, <1>5, <2>1, KeysApart, ExpireEffect DEF EndWindow
  <2>3. key # <<"rate", authReqs[r].phone>>
    BY <1>5, <2>1, KeysApart
  <2>4. QED BY <1>a, <2>2, <2>3
<1>6. ASSUME NEW r \in AuthReqs, EndWindow(r), authReqs[r].phone = phone
      PROVE  FALSE
  <2>1. \/ redis[key].value = Absent /\ redis' = redis
        \/ redis' = [redis EXCEPT ![key] = [value |-> redis[key].value, expires |-> TRUE]]
    BY <1>0, <1>6, <1>a, ExpireEffect DEF EndWindow
  <2>2. redis' = [redis EXCEPT ![key] = [value |-> redis[key].value, expires |-> TRUE]]
    BY <2>1
  <2>3. redis'[key].expires
    BY <1>a, <2>2
  <2>4. QED BY <2>3
<1>7. ASSUME NEW r \in AuthReqs, StoreCode(r) \/ DeleteCode(r)
      PROVE  redis'[key] = redis[key]
  <2>1. authReqs[r].phone \in Phones /\ authReqs[r].code \in Nat
    BY <1>0, <1>7, BusyPhone DEF StoreCode, DeleteCode, At, AuthTypeOK, AuthRequest
  <2>2. PICK e : redis' = [redis EXCEPT ![<<"otp", authReqs[r].phone>>] = e]
    BY <1>0, <1>7, <2>1, KeysApart, SetEffect, DelEffect DEF StoreCode, DeleteCode
  <2>3. key # <<"otp", authReqs[r].phone>>
    BY <2>1, KeysApart
  <2>4. QED BY <1>a, <2>2, <2>3
<1>8. ASSUME NEW k \in Keys, Time(k)
      PROVE  redis'[key] = redis[key]
  <2>1. redis' = redis \/ redis' = [redis EXCEPT ![k] = NoEntry]
    BY <1>0, <1>8, KeyExpiresEffect DEF Time
  <2>2. k # key \/ redis' = redis
    BY <1>a, <2>1 DEF NoEntry
  <2>3. QED BY <1>a, <2>1, <2>2
<1>9. QED
  BY <1>1, <1>2, <1>3, <1>4, <1>5, <1>6, <1>7, <1>8, RedisMove

-------------------------------------------------------------------------------
\* Where a code is.

\* The later steps of a login or an exchange, which hold no code.
LEMMA NoCodeLater ==
  ASSUME AuthInvStep, NEW s \in AuthReqs,
         \/ DeleteCode(s) \/ FindByPhone(s) \/ CreateUser(s)
         \/ PublishRegistered(s) \/ ReadUser(s) \/ RevokeToken(s)
         \/ \E t \in DOMAIN tokens : RefreshToken(s, t)
  PROVE  authReqs'[s].pc \notin Sending /\ authReqs'[s].pc # "otp.del"
<1>0. AuthTypeOK /\ \A u \in Users : users[u] \in UserRow /\ users'[u] \in UserRow
  BY UsersKept DEF AuthInvStep, AuthInv, AuthTypeOK
<1>1. CASE \/ DeleteCode(s) \/ PublishRegistered(s) \/ RevokeToken(s)
           \/ \E t \in DOMAIN tokens : RefreshToken(s, t)
  BY <1>0, <1>1, AcceptFields, GotoFields, RefreshFields
     DEF PublishRegistered, RevokeToken, AuthPc, Sending
<1>2. CASE FindByPhone(s)
  BY <1>0, <1>2, GotoFields, CarryFields DEF FindByPhone, AuthPc, Sending
<1>3. CASE CreateUser(s)
  BY <1>0, <1>3, EndSlot, CarryFields
     DEF CreateUser, AuthPc, Sending, SlotBecomes, IdleAuth
<1>4. CASE ReadUser(s)
  BY <1>0, <1>4, OwnedRow, CarryFields
     DEF ReadUser, At, Owning, AuthPc, Sending, AuthInvStep
<1>5. QED BY <1>1, <1>2, <1>3, <1>4

\* A code is new when its sending begins.
LEMMA InFlightMove ==
  ASSUME AuthInvStep, NEW s \in AuthReqs, NEW c \in Nat,
         authReqs'[s].pc \in Sending, authReqs'[s].code = c, ~InFlight(s, c)
  PROVE  c = sends + 1 /\ c = sends' /\ OtherSlotsSame(s)
<1> USE DEF AuthInvStep
<1>0. AuthTypeOK /\ StoresOK /\ HistoryOK
  BY DEF AuthInv
<1>1. authReqs'[s] # authReqs[s]
  BY DEF InFlight
<1>2. authReqs'[s] # IdleAuth
  BY DEF IdleAuth, Sending
<1>3. ASSUME NEW phone \in Phones, SendOtp(s, phone)
      PROVE  c = sends + 1 /\ c = sends' /\ OtherSlotsSame(s)
  <2>1. sends' = sends + 1
    BY <1>3 DEF SendOtp
  <2>2. QED BY <1>0, <1>1, <1>3, <2>1, SendFields
<1>4. ASSUME NEW phone \in Phones, VerifyOtp(s, phone)
      PROVE  FALSE
  BY <1>0, <1>1, <1>4, VerifyFields DEF Sending
<1>5. ASSUME EndWindow(s)
      PROVE  FALSE
  <2>1. At(s, "otp.expire") /\ Goto(s, "otp.set")
    BY <1>5 DEF EndWindow
  <2>2. authReqs'[s].code = authReqs[s].code
    BY <1>0, <2>1, GotoFields DEF AuthPc
  <2>3. QED BY <2>1, <2>2 DEF InFlight, At, Sending
<1>6. QED BY <1>1, <1>2, <1>3, <1>4, <1>5, NoCodeLater, SlotMoves

\* A code is read at the phone of the request that reads it.
LEMMA ReadMove ==
  ASSUME AuthInvStep, ~failed', NEW s \in AuthReqs, NEW c \in Nat,
         authReqs'[s].pc = "otp.del", authReqs'[s].code = c
  PROVE  \/ ReadBy(s, c) /\ authReqs'[s] = authReqs[s]
         \/ /\ authReqs'[s].phone \in Phones
            /\ StoredAt(authReqs'[s].phone, c)
            /\ authReqs'[s].known = Len(accepted)
<1> USE DEF AuthInvStep
<1>0. AuthTypeOK /\ StoresOK /\ HistoryOK
  BY DEF AuthInv
<1>1. CASE authReqs'[s] = authReqs[s]
  BY <1>1 DEF ReadBy, At
<1>2. authReqs'[s] # IdleAuth
  BY DEF IdleAuth
<1>3. ASSUME NEW phone \in Phones, SendOtp(s, phone), authReqs'[s] # authReqs[s]
      PROVE  FALSE
  BY <1>0, <1>3, SendFields DEF Sending
<1>4. ASSUME NEW phone \in Phones, VerifyOtp(s, phone), authReqs'[s] # authReqs[s]
      PROVE  /\ authReqs'[s].phone = phone
             /\ StoredAt(phone, c)
             /\ authReqs'[s].known = Len(accepted)
  BY <1>0, <1>4, VerifyFields DEF StoredAt
<1>5. ASSUME EndWindow(s)
      PROVE  FALSE
  BY <1>0, <1>5, GotoFields DEF EndWindow, AuthPc
<1>6. QED BY <1>1, <1>2, <1>3, <1>4, <1>5, NoCodeLater, SlotMoves

\* A code is stored once its sending ends, at the phone it was for.
LEMMA StoredMove ==
  ASSUME AuthInvStep, ~failed', NEW phone \in Phones, NEW c \in Nat,
         redis'[<<"otp", phone>>].value = c, ~StoredAt(phone, c)
  PROVE  \E r \in AuthReqs : /\ InFlight(r, c) /\ authReqs[r].phone = phone
                             /\ authReqs'[r] = IdleAuth
<1> USE DEF AuthInvStep
<1> DEFINE key == <<"otp", phone>>
<1>0. /\ AuthTypeOK /\ StoresOK /\ HistoryOK /\ SlotsClean
      /\ key \in Keys /\ DOMAIN redis = Keys
      /\ redis'[key] # redis[key]
  BY KeysApart DEF AuthInv, StoresOK, StoredAt
<1>1. ASSUME NEW r \in AuthReqs, NEW other \in Phones, SendOtp(r, other)
      PROVE  FALSE
  <2>1. PICK n \in 1 .. MaxSends : Incr(<<"rate", other>>, n)
    BY <1>1 DEF SendOtp
  <2>2. PICK e : redis' = [redis EXCEPT ![<<"rate", other>>] = e]
    BY <1>0, <2>1, KeysApart, IncrEffect, AuthAssumption
  <2>3. key # <<"rate", other>>
    BY KeysApart
  <2>4. QED BY <1>0, <2>2, <2>3
<1>2. ASSUME NEW r \in AuthReqs, EndWindow(r)
      PROVE  FALSE
  <2>1. authReqs[r].phone \in Phones
    BY <1>0, <1>2, BusyPhone DEF EndWindow, At
  <2>2. PICK e : redis' = redis \/ redis' = [redis EXCEPT ![<<"rate", authReqs[r].phone>>] = e]
    BY <1>0, <1>2, <2>1, KeysApart, ExpireEffect DEF EndWindow
  <2>3. key # <<"rate", authReqs[r].phone>>
    BY <2>1, KeysApart
  <2>4. QED BY <1>0, <2>2, <2>3
<1>3. ASSUME NEW r \in AuthReqs, StoreCode(r)
      PROVE  /\ InFlight(r, c) /\ authReqs[r].phone = phone
             /\ authReqs'[r] = IdleAuth
  <2>1. /\ authReqs[r].phone \in Phones /\ authReqs[r].code \in Nat
        /\ authReqs[r].pc = "otp.set"
    BY <1>0, <1>3, BusyPhone DEF StoreCode, At, AuthTypeOK, AuthRequest
  <2>2. redis' = [redis EXCEPT ![<<"otp", authReqs[r].phone>>] =
                   [value |-> authReqs[r].code, expires |-> TRUE]]
    BY <1>0, <1>3, <2>1, KeysApart, SetEffect DEF StoreCode
  <2>3. authReqs[r].phone = phone
    BY <1>0, <2>1, <2>2, KeysApart
  <2>4. redis'[key].value = authReqs[r].code
    BY <1>0, <2>2, <2>3
  <2>5. QED
    BY <1>0, <1>3, <2>1, <2>3, <2>4, EndSlot
       DEF StoreCode, SlotBecomes, InFlight, Sending
<1>4. ASSUME NEW r \in AuthReqs, DeleteCode(r)
      PROVE  FALSE
  <2>1. authReqs[r].phone \in Phones
    BY <1>0, <1>4, BusyPhone DEF DeleteCode, At
  <2>2. redis' = [redis EXCEPT ![<<"otp", authReqs[r].phone>>] = NoEntry]
    BY <1>0, <1>4, <2>1, KeysApart, DelEffect DEF DeleteCode
  <2>3. redis'[key].value = Absent
    BY <1>0, <2>2 DEF NoEntry
  <2>4. QED BY <2>3, AuthAssumption
<1>5. ASSUME NEW k \in Keys, Time(k)
      PROVE  FALSE
  <2>1. redis' = redis \/ redis' = [redis EXCEPT ![k] = NoEntry]
    BY <1>0, <1>5, KeyExpiresEffect DEF Time
  <2>2. redis'[key].value = Absent
    BY <1>0, <2>1 DEF NoEntry
  <2>3. QED BY <2>2, AuthAssumption
<1>6. redis' # redis
  BY <1>0
<1>7. QED BY <1>1, <1>2, <1>3, <1>4, <1>5, <1>6, RedisMove

\* A code is accepted by a request that read it, and then its key is gone.
LEMMA NewAcceptance ==
  ASSUME AuthInvStep, ~failed', NEW i \in DOMAIN accepted', i \notin DOMAIN accepted
  PROVE  \E r \in AuthReqs : /\ ReadBy(r, accepted'[i].code)
                             /\ authReqs[r].code \in Nat
                             /\ i = Len(accepted) + 1
                             /\ accepted'[i].known = authReqs[r].known
                             /\ redis'[<<"otp", authReqs[r].phone>>].value = Absent
<1> USE DEF AuthInvStep
<1>0. AuthTypeOK /\ StoresOK /\ SlotsClean
  BY DEF AuthInv
<1>1. PICK r \in AuthReqs : DeleteCode(r)
  BY AcceptedMove
<1>2. /\ authReqs[r].phone \in Phones /\ authReqs[r].code \in Nat /\ At(r, "otp.del")
  BY <1>0, <1>1, BusyPhone DEF DeleteCode, At, AuthTypeOK, AuthRequest
<1>3. redis' = [redis EXCEPT ![<<"otp", authReqs[r].phone>>] = NoEntry]
  BY <1>0, <1>1, <1>2, KeysApart, DelEffect DEF DeleteCode
<1>4. redis'[<<"otp", authReqs[r].phone>>].value = Absent
  BY <1>0, <1>2, <1>3, KeysApart DEF StoresOK, NoEntry
<1>5. /\ i = Len(accepted) + 1
      /\ accepted'[i].code = authReqs[r].code /\ accepted'[i].known = authReqs[r].known
  BY <1>0, <1>1, AcceptEffect
<1>6. QED BY <1>2, <1>4, <1>5 DEF ReadBy

LEMMA OldAcceptance ==
  ASSUME AuthInvStep
  PROVE  /\ Len(accepted) \in Nat /\ Len(accepted') \in Nat
         /\ Len(accepted) <= Len(accepted')
         /\ \A i \in DOMAIN accepted : i \in DOMAIN accepted' /\ accepted'[i] = accepted[i]
<1>0. AuthTypeOK /\ Len(accepted) \in Nat
  BY DEF AuthInvStep, AuthInv, AuthTypeOK
<1>1. CASE UNCHANGED accepted
  BY <1>0, <1>1
<1>2. ASSUME NEW r \in AuthReqs, DeleteCode(r)
      PROVE  /\ Len(accepted') = Len(accepted) + 1
             /\ \A i \in DOMAIN accepted : i \in DOMAIN accepted' /\ accepted'[i] = accepted[i]
  BY <1>0, <1>2, AcceptEffect
<1>3. QED BY <1>0, <1>1, <1>2, AcceptedMove
LEMMA SendsGrow ==
  ASSUME AuthInvStep
  PROVE  sends \in Nat /\ sends' \in Nat /\ sends <= sends'
<1>1. sends \in Nat
  BY DEF AuthInvStep, AuthInv, HistoryOK
<1>2. sends' = sends \/ sends' = sends + 1
  BY DEF AuthInvStep, AuthNext, AuthStep, authVars, SendOtp, EndWindow, StoreCode,
     VerifyOtp, DeleteCode, FindByPhone, CreateUser, PublishRegistered, ReadUser,
     RevokeToken, InsertToken, RefreshToken, EndToken, VerifyAccount, Time,
     CrashAuth, RestartAuth
<1>3. QED BY <1>1, <1>2

\* A code that no request, no key and no acceptance has gets there only in
\* order: it is sent, stored, read, accepted.
LEMMA CodeStays ==
  ASSUME AuthInvStep, ~failed', NEW c \in Nat
  PROVE  /\ Unread(c) /\ Unstored(c) => Unread(c)'
         /\ Unread(c) /\ Unaccepted(c) => Unaccepted(c)'
         /\ (\A r \in AuthReqs : ~InFlight(r, c)) /\ Unstored(c) => Unstored(c)'
<1>1. ASSUME Unread(c), Unstored(c)
      PROVE  Unread(c)'
  BY <1>1, ReadMove DEF Unread, Unstored, ReadBy, At
<1>2. ASSUME Unread(c), Unaccepted(c)
      PROVE  Unaccepted(c)'
  BY <1>2, NewAcceptance, OldAcceptance DEF Unread, Unaccepted
<1>3. ASSUME \A r \in AuthReqs : ~InFlight(r, c), Unstored(c)
      PROVE  Unstored(c)'
  BY <1>3, StoredMove DEF Unstored, StoredAt
<1>4. QED BY <1>1, <1>2, <1>3

LEMMA CodeStep ==
  ASSUME AuthInvStep, ~failed', NEW c \in Nat, CodeOK(c)
  PROVE  CodeOK(c)'
<1>1. ASSUME c > sends
      PROVE  Unread(c)' /\ Unstored(c)' /\ Unaccepted(c)'
  BY <1>1, CodeStays DEF CodeOK
<1>2. ASSUME c > sends', NEW s \in AuthReqs
      PROVE  ~InFlight(s, c)'
  <2>1. ~InFlight(s, c)
    BY <1>2, SendsGrow DEF CodeOK
  <2>2. QED BY <1>2, <2>1, SendsGrow, InFlightMove DEF InFlight
<1>3. ASSUME NEW s \in AuthReqs, InFlight(s, c)'
      PROVE  /\ \A r \in AuthReqs : InFlight(r, c)' => r = s
             /\ Unread(c)' /\ Unstored(c)' /\ Unaccepted(c)'
  <2>1. CASE InFlight(s, c)
    <3>1. c <= sends /\ Unread(c) /\ Unstored(c) /\ Unaccepted(c)
      BY <2>1, SendsGrow DEF CodeOK
    <3>2. Unread(c)' /\ Unaccepted(c)'
      BY <3>1, CodeStays
    <3>3. Unstored(c)'
      <4> SUFFICES ASSUME NEW phone \in Phones, StoredAt(phone, c)'
                   PROVE  FALSE
        BY DEF Unstored
      <4>1. PICK r \in AuthReqs : InFlight(r, c) /\ authReqs'[r] = IdleAuth
        BY <3>1, StoredMove DEF StoredAt, Unstored
      <4>2. r = s
        BY <2>1, <4>1 DEF CodeOK
      <4>3. QED BY <1>3, <4>1, <4>2 DEF InFlight, IdleAuth, Sending
    <3>4. \A r \in AuthReqs : InFlight(r, c)' => r = s
      <4> SUFFICES ASSUME NEW r \in AuthReqs, InFlight(r, c)'
                   PROVE  r = s
        OBVIOUS
      <4>1. CASE InFlight(r, c)
        BY <2>1, <4>1 DEF CodeOK
      <4>2. CASE ~InFlight(r, c)
        <5>1. c = sends + 1
          BY <4>2, InFlightMove DEF InFlight
        <5>2. QED BY <3>1, <5>1, SendsGrow
      <4>3. QED BY <4>1, <4>2
    <3>5. QED BY <3>2, <3>3, <3>4
  <2>2. CASE ~InFlight(s, c)
    <3>1. c = sends + 1 /\ OtherSlotsSame(s)
      BY <1>3, <2>2, InFlightMove DEF InFlight
    <3>2. c > sends
      BY <3>1, SendsGrow
    <3>3. \A r \in AuthReqs : ~InFlight(r, c)
      BY <3>2 DEF CodeOK
    <3>4. \A r \in AuthReqs : InFlight(r, c)' => r = s
      BY <3>1, <3>3 DEF InFlight, OtherSlotsSame
    <3>5. QED BY <1>1, <3>2, <3>4
  <2>3. QED BY <2>1, <2>2
<1>4. ASSUME NEW phone \in Phones, StoredAt(phone, c)'
      PROVE  /\ \A other \in Phones : StoredAt(other, c)' => other = phone
             /\ \A r \in AuthReqs : ReadBy(r, c)' => authReqs'[r].phone = phone
             /\ Unaccepted(c)'
  <2>1. CASE StoredAt(phone, c)
    <3>1. \A r \in AuthReqs : ~InFlight(r, c)
      BY <2>1 DEF CodeOK, Unstored
    <3>2. ASSUME NEW other \in Phones, StoredAt(other, c)'
          PROVE  other = phone
      <4>1. StoredAt(other, c)
        BY <3>1, <3>2, StoredMove DEF StoredAt
      <4>2. QED BY <2>1, <4>1 DEF CodeOK
    <3>3. ASSUME NEW r \in AuthReqs, ReadBy(r, c)'
          PROVE  authReqs'[r].phone = phone
      <4>1. \/ ReadBy(r, c) /\ authReqs'[r] = authReqs[r]
            \/ authReqs'[r].phone \in Phones /\ StoredAt(authReqs'[r].phone, c)
        BY <3>3, ReadMove DEF ReadBy, At
      <4>2. QED BY <2>1, <4>1 DEF CodeOK
    <3>4. Unaccepted(c)'
      <4> SUFFICES ASSUME NEW i \in DOMAIN accepted', accepted'[i].code = c
                   PROVE  FALSE
        BY DEF Unaccepted
      <4>1. Unaccepted(c)
        BY <2>1 DEF CodeOK
      <4>2. i \notin DOMAIN accepted
        BY <4>1, OldAcceptance DEF Unaccepted
      <4>3. PICK r \in AuthReqs :
              /\ ReadBy(r, c)
              /\ redis'[<<"otp", authReqs[r].phone>>].value = Absent
        BY <4>2, NewAcceptance
      <4>4. authReqs[r].phone = phone
        BY <2>1, <4>3 DEF CodeOK
      <4>5. QED BY <1>4, <4>3, <4>4, AuthAssumption DEF StoredAt
    <3>5. QED BY <3>2, <3>3, <3>4
  <2>2. CASE ~StoredAt(phone, c)
    <3>1. PICK s \in AuthReqs : InFlight(s, c) /\ authReqs[s].phone = phone
      BY <1>4, <2>2, StoredMove DEF StoredAt
    <3>2. /\ \A r \in AuthReqs : InFlight(r, c) => r = s
          /\ Unread(c) /\ Unstored(c) /\ Unaccepted(c)
      BY <3>1 DEF CodeOK
    <3>3. Unread(c)' /\ Unaccepted(c)'
      BY <3>2, CodeStays
    <3>4. ASSUME NEW other \in Phones, StoredAt(other, c)'
          PROVE  other = phone
      <4>1. PICK r \in AuthReqs : InFlight(r, c) /\ authReqs[r].phone = other
        BY <3>2, <3>4, StoredMove DEF StoredAt, Unstored
      <4>2. QED BY <3>1, <3>2, <4>1
    <3>5. QED BY <3>3, <3>4 DEF Unread
  <2>3. QED BY <2>1, <2>2
<1>5. ASSUME NEW s \in AuthReqs, ReadBy(s, c)'
      PROVE  /\ authReqs'[s].known <= Len(accepted')
             /\ \A i \in DOMAIN accepted' :
                  accepted'[i].code = c => i > authReqs'[s].known
  <2>0. authReqs'[s].known \in Nat
    <3>1. authReqs'[s] \in AuthRequest
      BY SlotsType
    <3>2. QED BY <3>1 DEF AuthRequest
  <2>1. CASE ReadBy(s, c) /\ authReqs'[s] = authReqs[s]
    <3>1. /\ authReqs[s].known <= Len(accepted)
          /\ \A i \in DOMAIN accepted : accepted[i].code = c => i > authReqs[s].known
      BY <2>1 DEF CodeOK
    <3>2. ASSUME NEW i \in DOMAIN accepted', accepted'[i].code = c
          PROVE  i > authReqs[s].known
      <4>1. CASE i \in DOMAIN accepted
        BY <3>1, <3>2, <4>1, OldAcceptance
      <4>2. CASE i \notin DOMAIN accepted
        <5>1. i = Len(accepted) + 1
          BY <4>2, NewAcceptance
        <5>2. QED BY <2>0, <2>1, <3>1, <5>1, OldAcceptance
      <4>3. QED BY <4>1, <4>2
    <3>3. QED BY <2>0, <2>1, <3>1, <3>2, OldAcceptance
  <2>2. CASE /\ authReqs'[s].phone \in Phones
             /\ StoredAt(authReqs'[s].phone, c)
             /\ authReqs'[s].known = Len(accepted)
    <3>1. Unaccepted(c)
      BY <2>2 DEF CodeOK
    <3>2. ASSUME NEW i \in DOMAIN accepted', accepted'[i].code = c
          PROVE  i > Len(accepted)
      <4>1. i \notin DOMAIN accepted
        BY <3>1, <3>2, OldAcceptance DEF Unaccepted
      <4>2. i = Len(accepted) + 1
        BY <4>1, NewAcceptance
      <4>3. QED BY <4>2, OldAcceptance
    <3>3. QED BY <2>2, <3>2, OldAcceptance
  <2>3. QED BY <1>5, <2>1, <2>2, ReadMove DEF ReadBy, At
<1>6. c > sends' => Unread(c)' /\ Unstored(c)' /\ Unaccepted(c)'
  BY <1>1, SendsGrow
<1>7. QED BY <1>2, <1>3, <1>4, <1>5, <1>6 DEF CodeOK

LEMMA CodesStep ==
  ASSUME AuthInvStep
  PROVE  CodesOK'
<1> SUFFICES ASSUME ~failed', NEW c \in Nat
             PROVE  CodeOK(c)'
  BY DEF CodesOK
<1>1. CodeOK(c)
  BY StoresStep DEF AuthInvStep, AuthInv, CodesOK
<1>2. QED BY <1>1, CodeStep

LEMMA ReusedStep ==
  ASSUME AuthInvStep
  PROVE  CodeReusedOnlyByRace'
<1> SUFFICES ASSUME ~failed', NEW i \in DOMAIN accepted', NEW j \in DOMAIN accepted',
                    i < j, accepted'[i].code = accepted'[j].code
             PROVE  i > accepted'[j].known
  BY DEF CodeReusedOnlyByRace
<1>0. /\ accepted \in Seq(Acceptance) /\ Len(accepted) \in Nat
      /\ DOMAIN accepted' = 1 .. Len(accepted')
      /\ ~failed
  BY AuthTypeStep, StoresStep DEF AuthInvStep, AuthInv, AuthTypeOK
<1>1. CASE j \in DOMAIN accepted
  <2>1. i \in DOMAIN accepted
    BY <1>0, <1>1, OldAcceptance
  <2>2. QED
    BY <1>0, <1>1, <2>1, OldAcceptance DEF AuthInvStep, AuthInv, CodeReusedOnlyByRace
<1>2. CASE j \notin DOMAIN accepted
  <2>1. PICK r \in AuthReqs : /\ ReadBy(r, accepted'[j].code)
                              /\ authReqs[r].code \in Nat
                              /\ j = Len(accepted) + 1
                              /\ accepted'[j].known = authReqs[r].known
    BY <1>2, NewAcceptance
  <2>2. i \in DOMAIN accepted /\ accepted[i].code = accepted'[j].code
    BY <1>0, <2>1, OldAcceptance
  <2>3. accepted'[j].code \in Nat
    BY <2>1 DEF ReadBy
  <2>4. CodeOK(accepted'[j].code)
    BY <1>0, <2>3 DEF AuthInvStep, AuthInv, CodesOK
  <2>5. QED BY <2>1, <2>2, <2>4 DEF CodeOK
<1>3. QED BY <1>1, <1>2

-------------------------------------------------------------------------------
\* The gateway and the guards.

\* The endpoints of a controller are those of its paths, and the public ones
\* those it names.
LEMMA ControllerEndpoint ==
  ASSUME NEW service, NEW base, NEW kyc, NEW roles, NEW paths, NEW public,
         NEW f \in Controller(service, base, kyc, roles, paths, public)
  PROVE  \E p \in paths \cup public : /\ f.service = service
                                      /\ f.path = base \o p
                                      /\ f.public <=> p \in public
<1>1. PICK p \in paths \cup public :
        f = [service |-> service, path |-> base \o p, kyc |-> kyc, roles |-> roles,
             public |-> p \in public]
  BY DEF Controller
<1> DEFINE path == base \o p
<1>2. f.service = service /\ f.path = path /\ f.public = (p \in public)
  <2> HIDE DEF path
  <2>1. f = [service |-> service, path |-> path, kyc |-> kyc, roles |-> roles,
             public |-> p \in public]
    BY <1>1 DEF path
  <2>2. QED BY <2>1
<1>3. QED BY <1>2

LEMMA NoneIsPublic ==
  ASSUME NEW service, NEW base, NEW kyc, NEW roles, NEW paths,
         NEW f \in Controller(service, base, kyc, roles, paths, {})
  PROVE  ~f.public
<1>1. PICK p : f.public <=> p \in {}
  BY ControllerEndpoint
<1>2. QED BY <1>1

\* An endpoint that requires a verified identity is not public.
LEMMA VerifiedNotPublic ==
  ASSUME NEW e \in Endpoints, e.kyc
  PROVE  ~e.public
<1>1. ASSUME NEW service, NEW base, NEW roles, NEW paths, NEW public,
             NEW f \in Controller(service, base, FALSE, roles, paths, public)
      PROVE  ~f.kyc
  BY DEF Controller
<1>2. ASSUME NEW service, NEW base, NEW roles, NEW paths,
             NEW f \in Controller(service, base, TRUE, roles, paths, {})
      PROVE  ~f.public
  BY <1>2, NoneIsPublic
<1>3. e \notin AuthEndpoints \cup IdentityEndpoints \cup WebhookEndpoints
              \cup NotificationEndpoints
  BY <1>1 DEF AuthEndpoints, IdentityEndpoints, WebhookEndpoints,
     NotificationEndpoints
<1>4. e \in RideEndpoints \cup DriverEndpoints \cup PaymentEndpoints => ~e.public
  BY <1>2 DEF RideEndpoints, DriverEndpoints, PaymentEndpoints
<1>5. e \in LocationEndpoints => ~e.public
  BY <1>2 DEF LocationEndpoints
<1>6. QED BY <1>3, <1>4, <1>5 DEF Endpoints

LEMMA VerifiedNeedsActive ==
  ASSUME NEW status \in UserStatus, NEW e \in Admits[status], e.kyc
  PROVE  status = "active"
<1>1. /\ e \in Endpoints
      /\ Reached(e, [status |-> status], {"passenger", "driver"})
  BY DEF Admits
<1>2. ~e.public
  BY <1>1, VerifiedNotPublic
<1>3. Guard([status |-> status], {"passenger", "driver"}, e.public, e.kyc, e.roles)
  BY <1>1 DEF Reached
<1>4. QED BY <1>2, <1>3 DEF Guard

\* The first segments of a path.
LEMMA OneSegment ==
  ASSUME NEW S, NEW a \in S, NEW p \in Seq(S), Len(p) > 0
  PROVE  Len(<<a>> \o p) > 1 /\ SubSeq(<<a>> \o p, 1, 1) = <<a>>
<1> DEFINE path == <<a>> \o p
           first == SubSeq(path, 1, 1)
<1>1. path \in Seq(S) /\ Len(path) > 1 /\ path[1] = a
  <2>1. <<a>> \in Seq(S) /\ Len(<<a>>) = 1
    OBVIOUS
  <2>2. QED BY <2>1, ConcatProperties
<1> HIDE DEF path
<1>2. first \in Seq(S) /\ Len(first) = 1 /\ first[1] = path[1]
  BY <1>1
<1> HIDE DEF first
<1>3. first = <<path[1]>>
  BY <1>2
<1>4. QED BY <1>1, <1>3 DEF path, first

LEMMA TwoSegments ==
  ASSUME NEW S, NEW a \in S, NEW b \in S, NEW p \in Seq(S), Len(p) > 0
  PROVE  /\ Len(<<a, b>> \o p) > 2
         /\ SubSeq(<<a, b>> \o p, 1, 2) = <<a, b>>
         /\ SubSeq(<<a, b>> \o p, 1, 1) = <<a>>
<1> DEFINE path == <<a, b>> \o p
           first == SubSeq(path, 1, 1)
           both == SubSeq(path, 1, 2)
<1>1. path \in Seq(S) /\ Len(path) > 2 /\ path[1] = a /\ path[2] = b
  <2>1. <<a, b>> \in Seq(S) /\ Len(<<a, b>>) = 2
    OBVIOUS
  <2>2. QED BY <2>1, ConcatProperties
<1> HIDE DEF path
<1>2. /\ first \in Seq(S) /\ Len(first) = 1 /\ first[1] = path[1]
      /\ both \in Seq(S) /\ Len(both) = 2 /\ both[1] = path[1] /\ both[2] = path[2]
  BY <1>1
<1> HIDE DEF first, both
<1>3. first = <<path[1]>> /\ both = <<path[1], path[2]>>
  BY <1>2
<1>4. QED BY <1>1, <1>3 DEF path, first, both

\* The first route that matches is taken.
LEMMA FirstMatch ==
  ASSUME NEW path, NEW i \in DOMAIN Routes, Matches(Routes[i], path),
         \A k \in 1 .. (i - 1) : ~Matches(Routes[k], path)
  PROVE  Routes[i] \in RouteOf(path)
BY Zenon DEF RouteOf

\* Who calls a public endpoint of the auth service is routed to it.
LEMMA AuthRouted ==
  ASSUME NEW path, Len(path) > 1, SubSeq(path, 1, 1) = <<"auth">>
  PROVE  \E route \in RouteOf(path) : route.public /\ route.service = "auth"
<1>1. /\ 1 \in DOMAIN Routes
      /\ Routes[1] = Route(<<"auth">>, TRUE, "auth", TRUE)
  BY DEF Routes
<1>2. Matches(Routes[1], path)
  BY <1>1 DEF Matches, Route
<1>3. \A k \in 1 .. (1 - 1) : ~Matches(Routes[k], path)
  OBVIOUS
<1>4. Routes[1] \in RouteOf(path)
  BY <1>1, <1>2, <1>3, FirstMatch
<1>5. Routes[1].public /\ Routes[1].service = "auth"
  BY <1>1 DEF Route
<1>6. QED BY <1>4, <1>5

LEMMA WebhookRouted ==
  ASSUME NEW path, Len(path) > 2, SubSeq(path, 1, 2) = <<"payments", "webhooks">>,
         SubSeq(path, 1, 1) = <<"payments">>
  PROVE  \E route \in RouteOf(path) : route.public /\ route.service = "payments"
<1>1. /\ 4 \in DOMAIN Routes
      /\ Routes[1] = Route(<<"auth">>, TRUE, "auth", TRUE)
      /\ Routes[2] = Route(<<"identity">>, TRUE, "identity", FALSE)
      /\ Routes[3] = Route(<<"rides">>, TRUE, "rides", FALSE)
      /\ Routes[4] = Route(<<"payments", "webhooks">>, TRUE, "payments", TRUE)
  BY DEF Routes
<1>2. Matches(Routes[4], path)
  BY <1>1 DEF Matches, Route
<1>3. /\ <<"payments">> # <<"auth">> /\ <<"payments">> # <<"identity">>
      /\ <<"payments">> # <<"rides">>
  OBVIOUS
<1>4. ~Matches(Routes[1], path) /\ ~Matches(Routes[2], path) /\ ~Matches(Routes[3], path)
  BY <1>1, <1>3 DEF Matches, Route
<1>5. \A k \in 1 .. (4 - 1) : ~Matches(Routes[k], path)
  BY <1>4
<1>6. Routes[4] \in RouteOf(path)
  BY <1>1, <1>2, <1>5, FirstMatch
<1>7. Routes[4].public /\ Routes[4].service = "payments"
  BY <1>1 DEF Route
<1>8. QED BY <1>6, <1>7

LEMMA ShortPaths ==
  ASSUME NEW S, NEW a \in S, NEW b \in S
  PROVE  /\ <<a>> \in Seq(S) /\ Len(<<a>>) > 0
         /\ <<a, b>> \in Seq(S) /\ Len(<<a, b>>) > 0
OBVIOUS

LEMMA PublicIsRouted ==
  ASSUME NEW e \in Endpoints, e.public
  PROVE  \E route \in RouteOf(e.path) : route.public /\ route.service = e.service
<1> DEFINE auths == {<<"otp", "send">>, <<"otp", "verify">>, <<"refresh">>}
           others == {<<"logout">>, <<"me">>}
           hooks == {<<"click">>, <<"payme">>}
           auth == <<"auth">>
           webhooks == <<"payments", "webhooks">>
           none == {}
           kyc == FALSE
           S == {"auth", "otp", "send", "verify", "refresh", "payments", "webhooks",
                 "click", "payme"}
<1>1. e \in AuthEndpoints \/ e \in WebhookEndpoints
  <2>1. e \notin IdentityEndpoints \cup RideEndpoints \cup DriverEndpoints
                \cup PaymentEndpoints \cup NotificationEndpoints
    BY NoneIsPublic DEF IdentityEndpoints, RideEndpoints, DriverEndpoints,
       PaymentEndpoints, NotificationEndpoints
  <2>2. e \notin LocationEndpoints
    BY NoneIsPublic DEF LocationEndpoints
  <2>3. QED BY <2>1, <2>2 DEF Endpoints
<1>2. /\ AuthEndpoints = Controller("auth", auth, kyc, none, others, auths)
      /\ WebhookEndpoints = Controller("payments", webhooks, kyc, none, none, hooks)
  BY Zenon DEF AuthEndpoints, WebhookEndpoints
<1>3. \A p \in auths \cup hooks : p \in Seq(S) /\ Len(p) > 0
  <2>1. /\ "otp" \in S /\ "send" \in S /\ "verify" \in S /\ "refresh" \in S
        /\ "click" \in S /\ "payme" \in S
    OBVIOUS
  <2> HIDE DEF S
  <2>2. /\ <<"otp", "send">> \in Seq(S) /\ Len(<<"otp", "send">>) > 0
        /\ <<"otp", "verify">> \in Seq(S) /\ Len(<<"otp", "verify">>) > 0
        /\ <<"refresh">> \in Seq(S) /\ Len(<<"refresh">>) > 0
        /\ <<"click">> \in Seq(S) /\ Len(<<"click">>) > 0
        /\ <<"payme">> \in Seq(S) /\ Len(<<"payme">>) > 0
    BY Zenon, <2>1, ShortPaths
  <2>3. QED BY Zenon, <2>2
<1>4. /\ \A p \in auths : Len(auth \o p) > 1 /\ SubSeq(auth \o p, 1, 1) = auth
      /\ \A p \in hooks : /\ Len(webhooks \o p) > 2
                          /\ SubSeq(webhooks \o p, 1, 2) = webhooks
                          /\ SubSeq(webhooks \o p, 1, 1) = <<"payments">>
  <2>1. "auth" \in S /\ "payments" \in S /\ "webhooks" \in S
    OBVIOUS
  <2> HIDE DEF S, auths, hooks
  <2>2. \A p \in auths : Len(auth \o p) > 1 /\ SubSeq(auth \o p, 1, 1) = auth
    BY Zenon, <1>3, <2>1, OneSegment
  <2>3. \A p \in hooks : /\ Len(webhooks \o p) > 2
                         /\ SubSeq(webhooks \o p, 1, 2) = webhooks
                         /\ SubSeq(webhooks \o p, 1, 1) = <<"payments">>
    BY Zenon, <1>3, <2>1, TwoSegments
  <2>4. QED BY <2>2, <2>3
<1> HIDE DEF auths, others, hooks, auth, webhooks, kyc, none, S
<1>5. CASE e \in AuthEndpoints
  <2>1. PICK p \in others \cup auths :
          /\ e.service = "auth" /\ e.path = auth \o p
          /\ e.public <=> p \in auths
    <3>1. e \in Controller("auth", auth, kyc, none, others, auths)
      BY <1>2, <1>5
    <3>2. QED BY <3>1, ControllerEndpoint
  <2>2. p \in auths
    BY <2>1
  <2>3. Len(e.path) > 1 /\ SubSeq(e.path, 1, 1) = auth
    BY <1>4, <2>1, <2>2
  <2>4. QED BY Zenon, <2>1, <2>3, AuthRouted DEF auth
<1>6. CASE e \in WebhookEndpoints
  <2>1. PICK p \in none \cup hooks : e.service = "payments" /\ e.path = webhooks \o p
    <3>1. e \in Controller("payments", webhooks, kyc, none, none, hooks)
      BY <1>2, <1>6
    <3>2. QED BY <3>1, ControllerEndpoint
  <2>2. /\ Len(e.path) > 2 /\ SubSeq(e.path, 1, 2) = webhooks
        /\ SubSeq(e.path, 1, 1) = <<"payments">>
    <3>1. p \in hooks
      BY <2>1 DEF none
    <3>2. QED BY Zenon, <1>4, <2>1, <3>1
  <2>3. QED BY Zenon, <2>1, <2>2, WebhookRouted DEF webhooks
<1>7. QED BY <1>1, <1>5, <1>6

\* Without a token one gets to the public endpoints and no others.
LEMMA NoTokenIsPublic == Admits[NoToken.status] = {e \in Endpoints : e.public}
<1>1. Admits[NoToken.status]
        = {e \in Endpoints : Reached(e, NoToken, {"passenger", "driver"})}
  BY DEF Admits, NoToken
<1>2. ASSUME NEW e \in Endpoints
      PROVE  Reached(e, NoToken, {"passenger", "driver"}) <=> e.public
  <2>1. ASSUME e.public
        PROVE  Reached(e, NoToken, {"passenger", "driver"})
    BY <2>1, PublicIsRouted DEF Reached, Guard
  <2>2. ASSUME Reached(e, NoToken, {"passenger", "driver"})
        PROVE  e.public
    BY <2>2 DEF Reached, Guard
  <2>3. QED BY <2>1, <2>2
<1>3. QED BY <1>1, <1>2

-------------------------------------------------------------------------------
LEMMA AuthInvInit ==
  ASSUME AuthInit
  PROVE  AuthInv
<1>0. \A r \in AuthReqs : authReqs[r] = IdleAuth
  BY DEF AuthInit
<1>1. tokens = <<>> /\ accepted = <<>> /\ sends = 0 /\ cut = FALSE
  BY DEF AuthInit
<1>2. \A u \in Users : users[u] = NoUser
  BY DEF AuthInit
<1>3. StoresOK
  <2>1. Empty \in [Keys -> Entry]
    BY DEF Empty, Entry, NoEntry
  <2>2. redis = Empty /\ memory = Empty /\ useMemory \in {FALSE, RedisFails}
        /\ failed = useMemory
    BY DEF AuthInit, RedisInit
  <2>3. useMemory \in BOOLEAN
    BY <2>2, RedisAssumption
  <2>4. QED BY <2>1, <2>2, <2>3 DEF StoresOK
<1>4. \A key \in Keys : redis[key].value = Absent
  BY DEF AuthInit, RedisInit, Empty, NoEntry
<1>5. AuthTypeOK
  <2>1. users \in [Users -> UserRow]
    BY DEF AuthInit, NoUser, UserRow, UserStatus
  <2>2. authReqs \in [AuthReqs -> AuthRequest]
    BY DEF AuthInit, IdleAuth, AuthRequest, AuthPc
  <2>3. \A key \in Keys : redis[key] \in Entry /\ memory[key] \in Entry
    BY <1>3 DEF StoresOK
  <2>4. \A store \in {redis, memory} : \A key \in Keys : store[key] \in Entry
    BY <2>3
  <2>5. tokens \in Seq(Token) /\ accepted \in Seq(Acceptance) /\ useMemory \in BOOLEAN
    BY <1>1, <1>3 DEF StoresOK
  <2>6. QED BY <2>1, <2>2, <2>4, <2>5 DEF AuthTypeOK, Entry
<1>6. HistoryOK
  BY <1>1 DEF HistoryOK
<1>7. SlotsClean /\ RequestsOwn /\ ExchangesOK
  <2>1. IdleAuth.pc = "idle" /\ IdleAuth.parent = 0
    BY DEF IdleAuth
  <2>2. \A r \in AuthReqs : authReqs[r].pc = "idle" /\ authReqs[r].parent = 0
    BY <1>0, <2>1
  <2>3. QED
    BY <1>0, <2>2 DEF SlotsClean, At, RequestsOwn, ExchangesOK, Owning, Claiming
<1>8. UsersOK
  BY <1>2 DEF UsersOK, HasPhone, HasRow, NoUser
<1>9. TokensOwn /\ ParentsSpent /\ CodeReusedOnlyByRace /\ ForkedOnlyByRace
  BY <1>1 DEF TokensOwn, ParentsSpent, CodeReusedOnlyByRace, ForkedOnlyByRace
<1>10. CounterExpires
  BY <1>4, KeysApart DEF CounterExpires
<1>11. CodesOK
  <2> SUFFICES ASSUME NEW c \in Nat
               PROVE  CodeOK(c)
    BY DEF CodesOK
  <2>1. \A r \in AuthReqs : ~InFlight(r, c) /\ ~ReadBy(r, c)
    BY <1>0 DEF InFlight, ReadBy, At, IdleAuth, Sending
  <2>2. \A phone \in Phones : ~StoredAt(phone, c)
    BY <1>4, KeysApart, AuthAssumption DEF StoredAt
  <2>3. QED BY <1>1, <2>1, <2>2 DEF CodeOK, Unread, Unstored, Unaccepted
<1>12. QED
  BY <1>3, <1>5, <1>6, <1>7, <1>8, <1>9, <1>10, <1>11 DEF AuthInv

LEMMA AuthInvNext ==
  ASSUME AuthInv, [AuthNext]_authVars
  PROVE  AuthInv'
<1>1. AuthInvStep
  BY DEF AuthInvStep
<1>2. QED
  BY <1>1, AuthTypeStep, StoresStep, SlotsCleanStep, UsersStep, RequestsOwnStep,
     TokensOwnStep, ParentsStep, ExchangesStep, CodesStep, CounterStep, ReusedStep,
     ForkedStep DEF AuthInv

LEMMA AuthInvariant == AuthSpec => []AuthInv
<1>1. AuthInit => AuthInv
  BY AuthInvInit
<1>2. AuthInv /\ [AuthNext]_authVars => AuthInv'
  BY AuthInvNext
<1>3. QED BY <1>1, <1>2, PTL DEF AuthSpec

\* The auth service's rows, keys and handler variables keep their types.
THEOREM AuthTypeCorrect == AuthSpec => []AuthTypeOK
<1>1. AuthInv => AuthTypeOK
  BY DEF AuthInv
<1>2. QED BY <1>1, AuthInvariant, PTL

\* Racing first logins of one phone end in one account.
THEOREM LoginsShareTheAccount == AuthSpec => []LoginsShareAccount
<1>1. AuthInv => LoginsShareAccount
  <2> SUFFICES ASSUME AuthInv, NEW i \in DOMAIN tokens, NEW u \in Users
               PROVE  HasPhone(u, tokens[i].phone) <=> u = tokens[i].user
    BY DEF LoginsShareAccount
  <2>1. tokens[i].user \in Users /\ HasPhone(tokens[i].user, tokens[i].phone)
    BY DEF AuthInv, TokensOwn, Owns
  <2>2. tokens[i].phone \in Phones
    <3>1. tokens[i] \in Token
      BY DEF AuthInv, AuthTypeOK
    <3>2. QED BY <3>1 DEF Token
  <2>3. QED BY <2>1, <2>2 DEF AuthInv, UsersOK
<1>2. QED BY <1>1, AuthInvariant, PTL

\* As long as Redis has not failed, a code is accepted twice only by requests
\* that overlapped.
THEOREM CodesReusedOnlyByRace == AuthSpec => []CodeReusedOnlyByRace
<1>1. AuthInv => CodeReusedOnlyByRace
  BY DEF AuthInv
<1>2. QED BY <1>1, AuthInvariant, PTL

\* A phone is refused for ever only after a handler died or Redis failed.
THEOREM CountersExpire == AuthSpec => []CounterExpires
<1>1. AuthInv => CounterExpires
  BY DEF AuthInv
<1>2. QED BY <1>1, AuthInvariant, PTL

\* Refresh tokens rotate, except under exchanges that overlap.
THEOREM TokensForkedOnlyByRace == AuthSpec => []ForkedOnlyByRace
<1>1. AuthInv => ForkedOnlyByRace
  BY DEF AuthInv
<1>2. QED BY <1>1, AuthInvariant, PTL

\* Who reaches an endpoint that requires a verified identity has one, and it
\* is the one his token names.
THEOREM AccessVerified == AuthSpec => []AccessIsVerified
<1>1. AuthInv => AccessIsVerified
  <2> SUFFICES ASSUME AuthInv, NEW t \in DOMAIN tokens,
                      NEW e \in Admits[tokens[t].status], e.kyc
               PROVE  /\ tokens[t].identity # NoValue
                      /\ users[tokens[t].user].identity = tokens[t].identity
    BY NoTokenIsPublic DEF AccessIsVerified
  <2>1. Claims(tokens[t])
    BY DEF AuthInv, TokensOwn
  <2>2. tokens[t].status = "active"
    BY <2>1, VerifiedNeedsActive DEF Claims
  <2>3. QED BY <2>1, <2>2 DEF Claims
<1>2. QED BY <1>1, AuthInvariant, PTL
===============================================================================
