-------------------------- MODULE ServiceDiscovery --------------------------
(***************************************************************************)
(* Service discovery: common/discovery/redis_discovery.go, and the battle  *)
(* servers that register and heartbeat (servers/battle/main.go).           *)
(*                                                                         *)
(* A server stores its address under a key that expires, adds its id to    *)
(* the set of its service and from then on only refreshes its heartbeat.   *)
(* A watcher asks for the living servers of the service every five         *)
(* seconds and sends a list that has changed to a channel.  Time passes in *)
(* steps of five seconds; each Redis command is an action.                 *)
(***************************************************************************)
EXTENDS RedisPool, Sequences, FiniteSets

CONSTANTS
  Instances,   \* instance ids: every start of a server draws a new one
  Watchers,    \* calls of Watch
  ChanSize,    \* 10
  MaxMishaps   \* bound: Redis commands that fail

ASSUME DiscoveryConstants == ChanSize \in Nat \ {0} /\ MaxMishaps \in Nat

VARIABLES
  keys,           \* Redis service:{name}:{id}
  members,        \* Redis service:{name}
  heartbeats,     \* Redis service_heartbeat: the age of each heartbeat
  server,         \* per instance what its process does next
  ticker,         \* per instance the time to its next heartbeat
  watch,          \* per watcher its goroutine
  ch,             \* per watcher its channel
  cancelled,      \* watchers whose context is done
  view,           \* per watcher the list its caller has last received
  mishaps,
  deadFor         \* per instance how long its process has been gone (history)

redisVars == <<keys, members, heartbeats>>
serverVars == <<server, ticker, deadFor>>
watchVars == <<watch, ch, cancelled, view>>
discoveryVars == <<redisVars, serverVars, watchVars, mishaps>>

\* In steps of five seconds.
FifteenSeconds == 3
HeartbeatExpireTooLong == 4       \* slip
HeartbeatExpire == 3
HeartbeatPeriod == 2

\* A missing key can be told from a stored value.
ASSUME MissingIsNoValue ==
  Missing \notin Instances \cup Nat \cup [value : Instances, ttl : 1..HeartbeatExpire]

Capped(n, most) == IF n < most THEN n + 1 ELSE most

NewWatch ==
  [at |-> "off", first |-> TRUE, ticked |-> FALSE, current |-> FALSE, ids |-> {},
   found |-> {}, last |-> {}, began |-> {}, gone |-> {}]

DiscoveryInit ==
  /\ keys = [i \in Instances |-> Missing]
  /\ members = {}
  /\ heartbeats = [i \in Instances |-> Missing]
  /\ server = [i \in Instances |-> "off"]
  /\ ticker = [i \in Instances |-> HeartbeatPeriod]
  /\ watch = [w \in Watchers |-> NewWatch]
  /\ ch = [w \in Watchers |-> <<>>]
  /\ cancelled = {}
  /\ view = [w \in Watchers |-> {}]
  /\ mishaps = 0
  /\ deadFor = [i \in Instances |-> 0]

Spend(answer) ==
  /\ mishaps' = IF answer = Failed THEN mishaps + 1 ELSE mishaps
  /\ mishaps' =< MaxMishaps

-----------------------------------------------------------------------------
(* A server *)

\* Register gives up at the first error, and the server exits.
Becomes(i, answer, next) ==
  server' = [server EXCEPT ![i] = IF answer = Failed THEN "dead" ELSE next]

RegisterSet(i) ==
  /\ server[i] = "off"
  /\ \E r \in Outcomes(keys, SetEx(keys, i, i, HeartbeatExpire)) :
        keys' = r.space /\ Becomes(i, r.answer, "add") /\ Spend(r.answer)
  /\ UNCHANGED <<members, heartbeats, ticker, deadFor, watchVars>>

RegisterAdd(i) ==
  /\ server[i] = "add"
  /\ \E r \in Outcomes(members, SAdd(members, i)) :
        members' = r.space /\ Becomes(i, r.answer, "beat") /\ Spend(r.answer)
  /\ UNCHANGED <<keys, heartbeats, ticker, deadFor, watchVars>>

RegisterBeat(i) ==
  /\ server[i] = "beat"
  /\ \E r \in Outcomes(heartbeats, ZAdd(heartbeats, i)) :
        heartbeats' = r.space /\ Becomes(i, r.answer, "up") /\ Spend(r.answer)
  /\ UNCHANGED <<keys, members, ticker, deadFor, watchVars>>

\* The ticker of ten seconds.  An error is logged.
Heartbeat(i) ==
  /\ server[i] = "up" /\ ticker[i] = 0
  /\ ticker' = [ticker EXCEPT ![i] = HeartbeatPeriod]
  /\ \E r \in Outcomes(heartbeats, ZAdd(heartbeats, i)) :
        heartbeats' = r.space /\ Spend(r.answer)
  /\ UNCHANGED <<keys, members, server, deadFor, watchVars>>

Crash(i) ==
  /\ server[i] \notin {"off", "dead"}
  /\ server' = [server EXCEPT ![i] = "dead"]
  /\ ticker' = [ticker EXCEPT ![i] = HeartbeatPeriod]
  /\ UNCHANGED <<redisVars, deadFor, watchVars, mishaps>>

-----------------------------------------------------------------------------
(* Discover, by the goroutine of a watcher *)

At(w, place) == watch[w].at = place
Sets(w, d) == watch' = [watch EXCEPT ![w] = d]

\* Discover returns: the initial list is sent even if it is an error's nil, later
\* ones when they differ.  instancesEqual compares the instances by their ids, which
\* determine the rest.
Returns(w, found, ok) ==
  LET sent == watch[w].first \/ (ok /\ found # watch[w].last) IN
  [watch[w] EXCEPT !.at = IF sent THEN "send" ELSE "select",
                   !.found = IF sent THEN found ELSE {},
                   !.ids = {}, !.began = {}, !.gone = {},
                   !.current = ok /\ ~watch[w].first]

\* The commands of Discover: an error ends it.
Asks(w, r, d) ==
  /\ Sets(w, IF r.answer = Failed THEN Returns(w, {}, FALSE) ELSE d)
  /\ Spend(r.answer)

GetMembers(w) ==
  /\ At(w, "members")
  /\ \E r \in Outcomes(members, SMembers(members)) :
       Asks(w, r, [watch[w] EXCEPT !.at = "clean", !.ids = r.answer, !.found = {},
                     !.began = {i \in Instances : server[i] = "up"},
                     !.gone = {i \in Instances : deadFor[i] >= FifteenSeconds}])
  /\ UNCHANGED <<redisVars, serverVars, ch, cancelled, view>>

CleanExpiredHeartbeats(w) ==
  /\ At(w, "clean")
  /\ \E r \in Outcomes(heartbeats, ZRemOlder(heartbeats, HeartbeatExpire)) :
       heartbeats' = r.space /\ Asks(w, r, [watch[w] EXCEPT !.at = "range"])
  /\ UNCHANGED <<keys, members, serverVars, ch, cancelled, view>>

GetLatelyBeating(w) ==    \* Slip: a heartbeat that is late once is too old.
  /\ At(w, "range")
  /\ \E r \in Outcomes(heartbeats, ZRangeYounger(heartbeats, HeartbeatExpire - HeartbeatPeriod)) :
       Asks(w, r, [watch[w] EXCEPT !.at = "get", !.ids = @ \cap r.answer])
  /\ UNCHANGED <<redisVars, serverVars, ch, cancelled, view>>

GetValidInstanceIDs(w) ==
  /\ At(w, "range")
  /\ \E r \in Outcomes(heartbeats, ZRangeYounger(heartbeats, HeartbeatExpire)) :
       Asks(w, r, [watch[w] EXCEPT !.at = "get", !.ids = @ \cap r.answer])
  /\ UNCHANGED <<redisVars, serverVars, ch, cancelled, view>>

\* The valid ids one after the other; one whose key has expired is skipped.
GetInstance(w, i) ==
  /\ At(w, "get") /\ i \in watch[w].ids
  /\ \E r \in Outcomes(keys, GetString(keys, i)) :
       Asks(w, r, [watch[w] EXCEPT !.ids = @ \ {i},
                     !.found = IF r.answer = Missing THEN @ ELSE @ \cup {i}])
  /\ UNCHANGED <<redisVars, serverVars, ch, cancelled, view>>

DiscoverReturns(w) ==
  /\ At(w, "get") /\ watch[w].ids = {}
  /\ Sets(w, Returns(w, watch[w].found, TRUE))
  /\ UNCHANGED <<redisVars, serverVars, ch, cancelled, view, mishaps>>

-----------------------------------------------------------------------------
(* Watch *)

WatchStarts(w) ==
  /\ At(w, "off")
  /\ Sets(w, [watch[w] EXCEPT !.at = "members"])
  /\ UNCHANGED <<redisVars, serverVars, ch, cancelled, view, mishaps>>

\* Slip: the channel takes any number of lists.
SendUnbounded(w) ==
  /\ At(w, "send")
  /\ ch' = [ch EXCEPT ![w] = Append(@, watch[w].found)]
  /\ Sets(w, [watch[w] EXCEPT !.at = "select", !.first = FALSE,
                              !.last = watch[w].found, !.found = {}])
  /\ UNCHANGED <<redisVars, serverVars, cancelled, view, mishaps>>

\* Slip: a list that finds no room is dropped.
SendOrDrop(w) ==
  /\ At(w, "send")
  /\ ch' = IF Len(ch[w]) < ChanSize THEN [ch EXCEPT ![w] = Append(@, watch[w].found)] ELSE ch
  /\ Sets(w, [watch[w] EXCEPT !.at = "select", !.first = FALSE,
                              !.last = watch[w].found, !.found = {}])
  /\ UNCHANGED <<redisVars, serverVars, cancelled, view, mishaps>>

\* The send waits for room whether the context is done or not.
Send(w) ==
  /\ At(w, "send")
  /\ Len(ch[w]) < ChanSize
  /\ ch' = [ch EXCEPT ![w] = Append(@, watch[w].found)]
  /\ Sets(w, [watch[w] EXCEPT !.at = "select", !.first = FALSE,
                              !.last = watch[w].found, !.found = {}])
  /\ UNCHANGED <<redisVars, serverVars, cancelled, view, mishaps>>

SelectTick(w) ==
  /\ At(w, "select") /\ watch[w].ticked
  /\ Sets(w, [watch[w] EXCEPT !.at = "members", !.ticked = FALSE])
  /\ UNCHANGED <<redisVars, serverVars, ch, cancelled, view, mishaps>>

SelectDone(w) ==
  /\ At(w, "select") /\ w \in cancelled
  /\ Sets(w, [watch[w] EXCEPT !.at = "closed"])
  /\ UNCHANGED <<redisVars, serverVars, ch, cancelled, view, mishaps>>

\* External: the caller of Watch.
Receive(w) ==
  /\ ch[w] # <<>>
  /\ view' = [view EXCEPT ![w] = Head(ch[w])]
  /\ ch' = [ch EXCEPT ![w] = Tail(@)]
  /\ UNCHANGED <<redisVars, serverVars, watch, cancelled, mishaps>>

Cancel(w) ==
  /\ ~At(w, "off") /\ w \notin cancelled
  /\ cancelled' = cancelled \cup {w}
  /\ UNCHANGED <<redisVars, serverVars, watch, ch, view, mishaps>>

-----------------------------------------------------------------------------
\* Five seconds: keys, heartbeats and tickers.  A heartbeat that is due comes first.
Tick ==
  /\ \A i \in Instances : ~(server[i] = "up" /\ ticker[i] = 0)
  /\ keys' = Aged(keys)
  /\ heartbeats' = [i \in Instances |-> IF heartbeats[i] = Missing THEN Missing
                                        ELSE Capped(heartbeats[i], HeartbeatExpire + 1)]
  /\ ticker' = [i \in Instances |-> IF server[i] = "up" THEN ticker[i] - 1 ELSE ticker[i]]
  /\ deadFor' = [i \in Instances |-> IF server[i] = "dead"
                                     THEN Capped(deadFor[i], FifteenSeconds) ELSE 0]
  /\ watch' = [w \in Watchers |-> [watch[w] EXCEPT !.ticked = ~watch[w].first]]
  /\ UNCHANGED <<members, server, ch, cancelled, view, mishaps>>

ServerNext(i) ==
  RegisterSet(i) \/ RegisterAdd(i) \/ RegisterBeat(i) \/ Heartbeat(i) \/ Crash(i)

WatchStep(w) ==
  \/ GetMembers(w) \/ CleanExpiredHeartbeats(w) \/ GetValidInstanceIDs(w)
  \/ \E i \in Instances : GetInstance(w, i)
  \/ DiscoverReturns(w) \/ Send(w) \/ SelectTick(w)

DiscoveryNext ==
  \/ \E i \in Instances : ServerNext(i)
  \/ \E w \in Watchers : WatchStarts(w) \/ WatchStep(w) \/ SelectDone(w) \/ Receive(w) \/ Cancel(w)
  \/ Tick

DiscoverySpec == DiscoveryInit /\ [][DiscoveryNext]_discoveryVars

-----------------------------------------------------------------------------
(* Properties *)

Watching ==
  [at : {"off", "members", "clean", "range", "get", "send", "select", "closed"},
   first : BOOLEAN, ticked : BOOLEAN, current : BOOLEAN,
   ids : SUBSET Instances, found : SUBSET Instances, last : SUBSET Instances,
   began : SUBSET Instances, gone : SUBSET Instances]

TypeOK ==
  /\ keys \in [Instances -> {Missing} \cup [value : Instances, ttl : 1..HeartbeatExpire]]
  /\ members \subseteq Instances
  /\ heartbeats \in [Instances -> {Missing} \cup 0 .. HeartbeatExpire + 1]
  /\ server \in [Instances -> {"off", "add", "beat", "up", "dead"}]
  /\ ticker \in [Instances -> 0..HeartbeatPeriod]
  /\ watch \in [Watchers -> Watching]
  /\ ch \in [Watchers -> Seq(SUBSET Instances)]
  /\ \A w \in Watchers : Len(ch[w]) =< ChanSize
  /\ cancelled \subseteq Watchers
  /\ view \in [Watchers -> SUBSET Instances]
  /\ mishaps \in 0..MaxMishaps
  /\ deadFor \in [Instances -> 0..FifteenSeconds]

Answered(w) == At(w, "get") /\ watch[w].ids = {}

\* No server is found that had been gone for the whole of the heartbeat timeout when
\* Discover began, whichever of its commands the expiry falls between.
DiscoveredWasAlive ==
  \A w \in Watchers : Answered(w) => watch[w].found \cap watch[w].gone = {}

\* A server that had registered when Discover began is found as long as its key has
\* not expired, whatever is cleaned and whoever registers meanwhile.
FreshIsDiscovered ==
  \A w \in Watchers, i \in Instances :
    Answered(w) /\ i \in watch[w].began /\ keys[i] # Missing => i \in watch[w].found

\* A server that goes on heartbeating is found: what "heartbeat timeout" says.  The
\* code does not keep this: a heartbeat does not refresh the key of the instance.
ServingIsDiscovered ==
  \A w \in Watchers, i \in Instances :
    Answered(w) /\ i \in watch[w].began /\ server[i] = "up" /\ mishaps = 0
      => i \in watch[w].found

\* Once a watcher has handled its ticks and its caller the lists, the caller does
\* not have a server that has been gone for fifteen seconds, unless the last Discover
\* failed: no change is lost on the way through the channel.
ViewIsCurrent ==
  \A w \in Watchers, i \in Instances :
    At(w, "select") /\ watch[w].current /\ ~watch[w].ticked /\ ch[w] = <<>> /\ i \in view[w]
      => deadFor[i] < FifteenSeconds

-----------------------------------------------------------------------------
(* The inductive invariant behind the three properties, conjunct by conjunct. *)

\* A heartbeat is as old as its process has been gone, at least.
DeadDoNotBeat ==
  \A i \in Instances :
    /\ deadFor[i] > 0 => server[i] = "dead"
    /\ server[i] = "dead" /\ heartbeats[i] # Missing => heartbeats[i] >= deadFor[i]

\* The key of a server that has registered expires before its last heartbeat does.
BeatOutlivesKey(i) ==
  keys[i] # Missing
    => heartbeats[i] # Missing /\ heartbeats[i] + keys[i].ttl =< HeartbeatExpire

ServersAreListed ==
  \A i \in Instances :
    /\ server[i] \in {"beat", "up"} => i \in members
    /\ server[i] = "up" => BeatOutlivesKey(i)

\* What a Discover that is on its way makes of the servers that were gone, and of
\* those that were serving, when it began.
GoneAreDropped(w) ==
  /\ watch[w].at \in {"clean", "range"} => watch[w].found = {}
  /\ watch[w].at \in {"clean", "range", "get"} =>
       \A i \in watch[w].gone :
         /\ server[i] = "dead" /\ deadFor[i] >= FifteenSeconds
         /\ watch[w].at # "clean" => heartbeats[i] = Missing
         /\ watch[w].at = "get" => i \notin watch[w].ids \cup watch[w].found

ServingAreKept(w) ==
  watch[w].at \in {"clean", "range", "get"} =>
    \A i \in watch[w].began :
      /\ server[i] \in {"up", "dead"} /\ BeatOutlivesKey(i)
      /\ \/ watch[w].at = "get" /\ keys[i] = Missing
         \/ i \in watch[w].ids \cup watch[w].found

\* The newest list is the one in view or the last in the channel.
LastIsOnItsWay(w) ==
  IF watch[w].first THEN ch[w] = <<>> /\ ~watch[w].current
  ELSE watch[w].last = IF ch[w] = <<>> THEN view[w] ELSE ch[w][Len(ch[w])]

\* As long as the five seconds are not over, nobody has become too old.
LongGone == {i \in Instances : deadFor[i] >= FifteenSeconds}

ListIsCurrent(w) ==
  ~watch[w].ticked =>
    /\ watch[w].at \in {"clean", "range", "get"} /\ ~watch[w].first
       => LongGone \subseteq watch[w].gone
    /\ watch[w].current /\ watch[w].at = "send" => watch[w].found \cap LongGone = {}
    /\ watch[w].current /\ watch[w].at = "select" => watch[w].last \cap LongGone = {}

DiscoveryInv ==
  /\ TypeOK
  /\ DeadDoNotBeat
  /\ ServersAreListed
  /\ \A w \in Watchers :
       GoneAreDropped(w) /\ ServingAreKept(w) /\ LastIsOnItsWay(w) /\ ListIsCurrent(w)

=============================================================================
