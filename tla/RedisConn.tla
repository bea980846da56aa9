----------------------------- MODULE RedisConn -----------------------------
(***************************************************************************)
(* The connection object of src/src/redis/redisConn.cpp, used by the one   *)
(* program that creates it (src/src/redis/main.cpp; the redis pool never   *)
(* does, see RedisConnPool).  The results of the calls are not looked at,  *)
(* and a command on a context that is null or was freed has no defined     *)
(* outcome: the model goes to "undefined" and stays there.                 *)
(***************************************************************************)
EXTENDS Naturals

CONSTANTS
    Keys,
    Values,   \* strings that are not empty
    OK,       \* the status reply, a string too
    Empty     \* the empty string; a key without a value has it

VARIABLES
    r_redis,  \* the context: null, live, freed; or undefined
    failed,   \* history: connect or a command has failed
    store,    \* the database
    believed  \* history: what a key may have, as far as the results tell

vars == <<r_redis, failed, store, believed>>

Strings == Values \cup {Empty}

Init ==
    /\ r_redis = "null"
    /\ failed = FALSE
    /\ store \in [Keys -> Strings]
    /\ believed = [k \in Keys |-> Strings]

\* The one call of connect: a context; one with an error, which is freed and kept;
\* or none, for which connect returns true.
Connect ==
    /\ r_redis = "null" /\ ~failed
    /\ \/ r_redis' = "live" /\ UNCHANGED failed
       \/ r_redis' \in {"freed", "null"} /\ failed' = TRUE
    /\ UNCHANGED <<store, believed>>

\* redisCommand on a context that is not there.
CommandOnNothing ==
    /\ failed
    /\ r_redis # "undefined"
    /\ r_redis' = "undefined"
    /\ UNCHANGED <<failed, store, believed>>

\* The command that setCommand sends: without a value a SET becomes a DEL.
Sent(type, value) == IF value # Empty THEN "SET" ELSE IF type = "GET" THEN "GET" ELSE "DEL"

\* What the server does with a command, and the string in its reply, if any.
Stored(command, key, value) ==
    IF command = "GET" THEN store ELSE [store EXCEPT ![key] = value]

Reply(command, key) ==
    CASE command = "SET" -> OK
      [] command = "GET" -> store[key]
      [] command = "DEL" -> Empty

\* A reply to a command, that has no effect if it is an error.
Answer(command, key, value) ==
    /\ r_redis = "live"
    /\ store' = Stored(command, key, value)
    /\ UNCHANGED <<r_redis, failed>>

Refuse == r_redis = "live" /\ UNCHANGED <<r_redis, failed, store>>

\* No reply: redisFree, and the pointer stays.  The command may have been executed.
NoReply(command, key, value) ==
    /\ r_redis = "live"
    /\ r_redis' = "freed"
    /\ failed' = TRUE
    /\ store' \in {store, Stored(command, key, value)}

\* Faulty: takes the text of any reply for a result, an error's too.
Execute_AnyReply(type, key, value, res) ==
    LET command == Sent(type, value) IN
    \/ res = Reply(command, key) /\ Answer(command, key, value)
    \/ res = OK /\ Refuse
    \/ res = Empty /\ NoReply(command, key, value)

\* execute returns res.
Execute(type, key, value, res) ==
    LET command == Sent(type, value) IN
    \/ res = Reply(command, key) /\ Answer(command, key, value)
    \/ res = Empty /\ Refuse
    \/ res = Empty /\ NoReply(command, key, value)

Learn(key, values) == believed' = [believed EXCEPT ![key] = values]

\* set returns whether there was a result.
Set(key, value) ==
    \E res \in {OK, Empty} :
        /\ Execute("SET", key, value, res)
        /\ Learn(key, IF res # Empty THEN {value} ELSE Strings)

\* An empty result of get does not say whether there is no value or no answer.
Get(key) ==
    \E res \in Strings :
        /\ Execute("GET", key, Empty, res)
        /\ Learn(key, IF res # Empty THEN {res} ELSE believed[key])

\* del returns false whether the key was deleted or not.
Del(key) == Execute("DEL", key, Empty, Empty) /\ Learn(key, Strings)

\* update returns true for every reply, one that refuses the value included.
Update(key, value) ==
    /\ Answer("SET", key, value) \/ Refuse \/ NoReply("SET", key, value)
    /\ Learn(key, Strings)

Next ==
    \/ Connect \/ CommandOnNothing
    \/ \E k \in Keys : Get(k) \/ Del(k) \/ \E v \in Strings : Set(k, v) \/ Update(k, v)

Spec == Init /\ [][Next]_vars
-----------------------------------------------------------------------------
TypeOK ==
    /\ r_redis \in {"null", "live", "freed", "undefined"}
    /\ failed \in BOOLEAN
    /\ store \in [Keys -> Strings]
    /\ believed \in [Keys -> SUBSET Strings]

\* Who looks at the results only is not deceived by set and get: a key has the
\* value that the last set which returned true has given it, or that the last get
\* has shown, although set of an empty value deletes the key, commands may be
\* refused or lose their answer, and the results of del and update say nothing.
BelievedIsStored == \A k \in Keys : store[k] \in believed[k]
=============================================================================
