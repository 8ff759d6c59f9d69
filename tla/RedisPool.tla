------------------------------ MODULE RedisPool ------------------------------
(***************************************************************************)
(* The commands of common/redisutil/redisutil.go.  Each function takes a   *)
(* connection out of the pool, sends one command and gives the connection  *)
(* back.  The keys that share a prefix form a keyspace: a function from    *)
(* what follows the prefix to what is stored, Missing where there is no    *)
(* such key.  A command is the keyspace after it and the answer to the     *)
(* caller.                                                                 *)
(***************************************************************************)
EXTENDS Integers

CONSTANTS
  Missing,   \* no such key: ErrKeyNotFound
  Failed     \* every other error of a command

Reply(space, answer) == [space |-> space, answer |-> answer]

\* What can come of a command: the answer, or an error of the connection, which
\* leaves open whether the server ran the command before the connection broke.
Outcomes(space, done) ==
  {done, Reply(space, Failed), Reply(done.space, Failed)}

-----------------------------------------------------------------------------
(* Strings, with the seconds they have left; 0 is a key that never expires. *)

GetString(space, k) ==
  Reply(space, IF space[k] = Missing THEN Missing ELSE space[k].value)

SetEx(space, k, v, ttl) ==
  Reply([space EXCEPT ![k] = [value |-> v, ttl |-> ttl]], "OK")

Set(space, k, v) == SetEx(space, k, v, 0)

\* A value goes through JSON or protobuf and comes back as it was.
SetJSON(space, k, v, ttl) == SetEx(space, k, v, ttl)
GetJSON(space, k) == GetString(space, k)

\* A second passes: every key with a time to live has one second less.
Aged(space) ==
  [k \in DOMAIN space |->
     IF space[k] = Missing \/ space[k].ttl = 0 THEN space[k]
     ELSE IF space[k].ttl = 1 THEN Missing
     ELSE [space[k] EXCEPT !.ttl = @ - 1]]

-----------------------------------------------------------------------------
(* Counters.  INCR counts a missing key as 0. *)

Count(n) == IF n = Missing THEN 0 ELSE n

Incr(n) == Reply(Count(n) + 1, Count(n) + 1)

SetNX(n, v) == IF n = Missing THEN Reply(v, TRUE) ELSE Reply(n, FALSE)

-----------------------------------------------------------------------------
(* Hashes: functions from the fields that have been written. *)

HGetAll(space, k) == Reply(space, space[k])

Overlay(hash, fields) ==
  [f \in DOMAIN hash \cup DOMAIN fields |-> IF f \in DOMAIN fields THEN fields[f] ELSE hash[f]]

HMSet(space, k, fields) == Reply([space EXCEPT ![k] = Overlay(@, fields)], "OK")

\* strconv.ParseInt of a field, its error ignored: a missing field counts as 0.
NumberIn(hash, field) == IF field \in DOMAIN hash THEN hash[field] ELSE 0

-----------------------------------------------------------------------------
(* Sets, and sorted sets whose scores are points in time: such a set is kept as *)
(* the age of each member, Missing for what is no member.                       *)

SAdd(set, v) == Reply(set \cup {v}, "OK")

SMembers(set) == Reply(set, set)

ZAdd(ages, v) == Reply([ages EXCEPT ![v] = 0], "OK")

\* ZREMRANGEBYSCORE key 0 now-age
ZRemOlder(ages, age) ==
  Reply([v \in DOMAIN ages |-> IF ages[v] # Missing /\ ages[v] >= age THEN Missing
                               ELSE ages[v]], "OK")

\* ZRANGEBYSCORE key now-age now
ZRangeYounger(ages, age) ==
  Reply(ages, {v \in DOMAIN ages : ages[v] # Missing /\ ages[v] =< age})

=============================================================================
