------------------------------ MODULE RedisService ------------------------------
(***************************************************************************)
(* RedisService: keys with a value and, once they have been given one, a   *)
(* time to live, kept in Redis until a call fails and in the process from  *)
(* then on.  The process never goes back to Redis by itself, and Redis     *)
(* keeps what it had.  When the time to live ends is not modelled: a key   *)
(* that has one may disappear at any moment, one that has none never does. *)
(***************************************************************************)
EXTENDS Naturals

CONSTANTS Keys,
          Absent,        \* what get() answers for a key that is not there
          RedisFails     \* may a call to Redis fail (or the connection)?

ASSUME RedisAssumption == RedisFails \in BOOLEAN

VARIABLES redis,         \* redis[key], which outlives the process
          memory,        \* memory[key], which does not
          useMemory,
          failed         \* history: some call to Redis failed

redisVars == <<redis, memory, useMemory, failed>>

NoEntry == [value |-> Absent, expires |-> FALSE]
Empty == [key \in Keys |-> NoEntry]

RedisInit == /\ redis = Empty /\ memory = Empty
             /\ useMemory \in {FALSE, RedisFails} /\ failed = useMemory

\* A call goes to Redis, or to the process's own store, or it fails and is
\* repeated on the process's own store; Redis may have executed it all the same.
Call(onRedis, onMemory) ==
  \/ /\ ~useMemory
     /\ redis' = onRedis
     /\ UNCHANGED <<memory, useMemory, failed>>
  \/ /\ useMemory
     /\ memory' = onMemory
     /\ UNCHANGED <<redis, useMemory, failed>>
  \/ /\ ~useMemory /\ RedisFails
     /\ redis' \in {redis, onRedis}
     /\ memory' = onMemory
     /\ useMemory' = TRUE /\ failed' = TRUE

With(store, key, value, expires) ==
  [store EXCEPT ![key] = [value |-> value, expires |-> expires]]

Set(key, value) == Call(With(redis, key, value, TRUE),
                        With(memory, key, value, TRUE))

\* The value get() answers; v is bound by the caller.
Get(key, v) ==
  \/ /\ v = IF useMemory THEN memory[key].value ELSE redis[key].value
     /\ UNCHANGED redisVars
  \/ /\ ~useMemory /\ RedisFails
     /\ v = memory[key].value
     /\ useMemory' = TRUE /\ failed' = TRUE
     /\ UNCHANGED <<redis, memory>>

Del(key) == Call([redis EXCEPT ![key] = NoEntry],
                 [memory EXCEPT ![key] = NoEntry])

Plus1(store, key) ==
  IF store[key].value = Absent THEN 1 ELSE store[key].value + 1

\* INCR keeps the key's time to live; the process's own store renews it.
\* n, bound by the caller, is the answer.
Incr(key, n) ==
  /\ Call(With(redis, key, Plus1(redis, key), redis[key].expires),
          With(memory, key, Plus1(memory, key), TRUE))
  /\ n = IF useMemory' THEN Plus1(memory, key) ELSE Plus1(redis, key)

\* (faulty variant) an expiry that is never set
ExpireForgotten(key) == UNCHANGED redisVars

Renewed(store, key) ==
  IF store[key].value = Absent THEN store
                               ELSE With(store, key, store[key].value, TRUE)

Expire(key) == Call(Renewed(redis, key), Renewed(memory, key))

\* Time passes: Redis, or purgeExpired, drops a key that had a time to live.
KeyExpires(key) ==
  /\ \/ /\ redis[key].expires
        /\ redis' = [redis EXCEPT ![key] = NoEntry] /\ UNCHANGED memory
     \/ /\ memory[key].expires
        /\ memory' = [memory EXCEPT ![key] = NoEntry] /\ UNCHANGED redis
  /\ UNCHANGED <<useMemory, failed>>

\* A new process tries Redis again, with nothing in its own store.
Reconnect ==
  /\ memory' = Empty
  /\ useMemory' \in {FALSE, RedisFails}
  /\ failed' = (failed \/ useMemory')
  /\ UNCHANGED redis
=================================================================================
