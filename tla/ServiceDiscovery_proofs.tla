---------------------- MODULE ServiceDiscovery_proofs ----------------------
(* For any number of servers and watchers and any channel: who is found by *)
(* a Discover, and what a watcher's caller has in view.                    *)
EXTENDS ServiceDiscovery, SequenceTheorems, TLAPS

(* What comes of a command is its answer, or an error after it was or was  *)
(* not run.                                                                *)
LEMMA OutcomeCases ==
  ASSUME NEW space, NEW done, NEW r \in Outcomes(space, done)
  PROVE  r = done \/ (r.answer = Failed /\ r.space \in {space, done.space})
BY DEF Outcomes, Reply

(* What Discover leaves behind when it gives up. *)
LEMMA FailedFields ==
  ASSUME TypeOK, NEW w \in Watchers, NEW d, d = Returns(w, {}, FALSE)
  PROVE  /\ d \in Watching
         /\ d.at \in {"send", "select"}
         /\ d.first = watch[w].first /\ d.ticked = watch[w].ticked
         /\ d.last = watch[w].last /\ ~d.current
         /\ d.at = "select" => ~watch[w].first
<1> DEFINE x == watch[w]
<1>1. x \in Watching
  BY DEF TypeOK
<1>2. d = [x EXCEPT !.at = IF x.first THEN "send" ELSE "select", !.found = {},
                    !.ids = {}, !.began = {}, !.gone = {}, !.current = FALSE]
  BY DEF Returns
<1> HIDE DEF x
<1> QED
  BY <1>1, <1>2 DEF Watching, x

(* A watcher gives up its Discover. *)
Quits(w) ==
  /\ watch'[w].at \in {"send", "select"}
  /\ watch'[w].first = watch[w].first /\ watch'[w].ticked = watch[w].ticked
  /\ watch'[w].last = watch[w].last /\ ~watch'[w].current
  /\ watch'[w].at = "select" => ~watch[w].first

Others(w) == \A v \in Watchers \ {w} : watch'[v] = watch[v]

(* The fields that a command of Discover does not touch. *)
Keeps(w) ==
  /\ watch'[w].first = watch[w].first /\ watch'[w].ticked = watch[w].ticked
  /\ watch'[w].last = watch[w].last /\ watch'[w].current = watch[w].current

LEMMA AsksFields ==
  ASSUME TypeOK, NEW w \in Watchers, NEW r, NEW d \in Watching, Asks(w, r, d)
  PROVE  /\ Others(w)
         /\ watch' \in [Watchers -> Watching]
         /\ mishaps' \in 0..MaxMishaps
         /\ \/ r.answer = Failed /\ Quits(w)
            \/ r.answer # Failed /\ watch'[w] = d
<1>1. mishaps' \in 0..MaxMishaps
  BY DiscoveryConstants DEF TypeOK, Asks, Spend
<1>2. PICK e : e = Returns(w, {}, FALSE)
  OBVIOUS
<1>3. /\ e \in Watching /\ e.at \in {"send", "select"}
      /\ e.first = watch[w].first /\ e.ticked = watch[w].ticked
      /\ e.last = watch[w].last /\ ~e.current
      /\ e.at = "select" => ~watch[w].first
  BY <1>2, FailedFields
<1>4. watch' = [watch EXCEPT ![w] = IF r.answer = Failed THEN e ELSE d]
  BY <1>2 DEF Asks, Sets
<1>5. watch \in [Watchers -> Watching]
  BY DEF TypeOK
<1>6. watch' \in [Watchers -> Watching] /\ Others(w)
  BY <1>3, <1>4, <1>5 DEF Others
<1>7. CASE r.answer = Failed
  <2>1. watch'[w] = e
    BY <1>4, <1>5, <1>7
  <2> QED
    BY <1>1, <1>3, <1>6, <1>7, <2>1 DEF Quits
<1>8. CASE r.answer # Failed
  <2>1. watch'[w] = d
    BY <1>4, <1>5, <1>8
  <2> QED
    BY <1>1, <1>6, <1>8, <2>1
<1> QED
  BY <1>7, <1>8

-----------------------------------------------------------------------------
(* The steps of a watcher, field by field. *)

SameSearch(w) ==
  /\ watch'[w].began = watch[w].began /\ watch'[w].gone = watch[w].gone
  /\ watch'[w].first = watch[w].first /\ watch'[w].ticked = watch[w].ticked
  /\ watch'[w].last = watch[w].last /\ watch'[w].current = watch[w].current

LEMMA MembersEffect ==
  ASSUME TypeOK, NEW w \in Watchers, GetMembers(w)
  PROVE  /\ Others(w) /\ watch' \in [Watchers -> Watching] /\ mishaps' \in 0..MaxMishaps
         /\ UNCHANGED <<redisVars, serverVars, ch, cancelled, view>>
         /\ \/ Quits(w)
            \/ /\ watch'[w].at = "clean" /\ Keeps(w)
               /\ watch'[w].ids = members /\ watch'[w].found = {}
               /\ watch'[w].began = {i \in Instances : server[i] = "up"}
               /\ watch'[w].gone = LongGone
<1>1. PICK r \in Outcomes(members, SMembers(members)) :
        Asks(w, r, [watch[w] EXCEPT !.at = "clean", !.ids = r.answer, !.found = {},
                      !.began = {i \in Instances : server[i] = "up"}, !.gone = LongGone])
  BY DEF GetMembers, LongGone
<1>2. UNCHANGED <<redisVars, serverVars, ch, cancelled, view>>
  BY DEF GetMembers
<1>3. PICK b : b = {i \in Instances : server[i] = "up"}
  OBVIOUS
<1>4. PICK g : g = LongGone
  OBVIOUS
<1>5. b \in SUBSET Instances /\ g \in SUBSET Instances /\ members \in SUBSET Instances
  BY <1>3, <1>4 DEF LongGone, TypeOK
<1>6. r.answer = Failed \/ r.answer = members
  BY <1>1, OutcomeCases DEF SMembers, Reply
<1>7. CASE r.answer = Failed
  <2>1. Asks(w, r, watch[w])
    BY <1>1, <1>7 DEF Asks
  <2>2. watch[w] \in Watching
    BY DEF TypeOK
  <2> QED
    BY <1>2, <1>7, <2>1, <2>2, AsksFields
<1>8. CASE r.answer # Failed
  <2>1. PICK d : d = [watch[w] EXCEPT !.at = "clean", !.ids = members, !.found = {},
                                      !.began = b, !.gone = g]
    OBVIOUS
  <2>2. watch[w] \in Watching
    BY DEF TypeOK
  <2>3. /\ d \in Watching /\ d.at = "clean" /\ d.ids = members /\ d.found = {}
        /\ d.began = b /\ d.gone = g /\ d.first = watch[w].first
        /\ d.ticked = watch[w].ticked /\ d.last = watch[w].last
        /\ d.current = watch[w].current
    BY <1>5, <2>1, <2>2 DEF Watching
  <2>4. Asks(w, r, d)
    BY <1>1, <1>3, <1>4, <1>6, <1>8, <2>1
  <2>5. /\ watch'[w] = d /\ Others(w) /\ watch' \in [Watchers -> Watching]
        /\ mishaps' \in 0..MaxMishaps
    BY <1>8, <2>3, <2>4, AsksFields
  <2> QED
    BY <1>2, <1>3, <1>4, <2>3, <2>5 DEF Keeps
<1> QED
  BY <1>7, <1>8

(* The heartbeats that CleanExpiredHeartbeats leaves. *)
Cleaned == [i \in Instances |->
              IF heartbeats[i] # Missing /\ heartbeats[i] >= HeartbeatExpire THEN Missing
              ELSE heartbeats[i]]

LEMMA CleanEffect ==
  ASSUME TypeOK, NEW w \in Watchers, CleanExpiredHeartbeats(w)
  PROVE  /\ watch[w].at = "clean"
         /\ Others(w) /\ watch' \in [Watchers -> Watching] /\ mishaps' \in 0..MaxMishaps
         /\ UNCHANGED <<keys, members, serverVars, ch, cancelled, view>>
         /\ \/ Quits(w) /\ heartbeats' \in {heartbeats, Cleaned}
            \/ /\ watch'[w].at = "range" /\ SameSearch(w) /\ heartbeats' = Cleaned
               /\ watch'[w].ids = watch[w].ids /\ watch'[w].found = watch[w].found
<1>1. PICK r \in Outcomes(heartbeats, ZRemOlder(heartbeats, HeartbeatExpire)) :
        /\ heartbeats' = r.space
        /\ Asks(w, r, [watch[w] EXCEPT !.at = "range"])
  BY DEF CleanExpiredHeartbeats
<1>2. /\ watch[w].at = "clean"
      /\ UNCHANGED <<keys, members, serverVars, ch, cancelled, view>>
  BY DEF CleanExpiredHeartbeats, At
<1>3. PICK h : h = Cleaned
  OBVIOUS
<1>4. ZRemOlder(heartbeats, HeartbeatExpire) = [space |-> h, answer |-> "OK"]
  <2>1. DOMAIN heartbeats = Instances
    BY DEF TypeOK
  <2> QED
    BY <1>3, <2>1 DEF ZRemOlder, Reply, Cleaned
<1>5. \/ r.answer = Failed /\ r.space \in {heartbeats, h}
      \/ r.space = h
  BY <1>1, <1>4, OutcomeCases
<1>6. r.answer # Failed => r.space = h
  BY <1>5
<1>7. PICK d : d = [watch[w] EXCEPT !.at = "range"]
  OBVIOUS
<1>8. /\ d \in Watching /\ d.at = "range" /\ d.ids = watch[w].ids
      /\ d.found = watch[w].found /\ d.began = watch[w].began /\ d.gone = watch[w].gone
      /\ d.first = watch[w].first /\ d.ticked = watch[w].ticked
      /\ d.last = watch[w].last /\ d.current = watch[w].current
  <2>1. watch[w] \in Watching
    BY DEF TypeOK
  <2> QED
    BY <1>7, <2>1 DEF Watching
<1>9. /\ Others(w) /\ watch' \in [Watchers -> Watching] /\ mishaps' \in 0..MaxMishaps
      /\ \/ r.answer = Failed /\ Quits(w)
         \/ r.answer # Failed /\ watch'[w] = d
  BY <1>1, <1>7, <1>8, AsksFields
<1> QED
  BY <1>1, <1>2, <1>3, <1>5, <1>6, <1>8, <1>9 DEF SameSearch

LEMMA RangeEffect ==
  ASSUME TypeOK, NEW w \in Watchers, GetValidInstanceIDs(w)
  PROVE  /\ watch[w].at = "range"
         /\ Others(w) /\ watch' \in [Watchers -> Watching] /\ mishaps' \in 0..MaxMishaps
         /\ UNCHANGED <<redisVars, serverVars, ch, cancelled, view>>
         /\ \/ Quits(w)
            \/ /\ watch'[w].at = "get" /\ SameSearch(w)
               /\ watch'[w].ids = {i \in watch[w].ids :
                      heartbeats[i] # Missing /\ heartbeats[i] =< HeartbeatExpire}
               /\ watch'[w].found = watch[w].found
<1>1. PICK r \in Outcomes(heartbeats, ZRangeYounger(heartbeats, HeartbeatExpire)) :
        Asks(w, r, [watch[w] EXCEPT !.at = "get", !.ids = @ \cap r.answer])
  BY DEF GetValidInstanceIDs
<1>2. /\ watch[w].at = "range"
      /\ UNCHANGED <<redisVars, serverVars, ch, cancelled, view>>
  BY DEF GetValidInstanceIDs, At
<1>3. watch[w] \in Watching /\ watch[w].ids \in SUBSET Instances
  BY DEF TypeOK, Watching
<1>4. PICK y : y = {i \in watch[w].ids :
                      heartbeats[i] # Missing /\ heartbeats[i] =< HeartbeatExpire}
  OBVIOUS
<1>5. y \in SUBSET Instances
  BY <1>3, <1>4
<1>6. r.answer # Failed => watch[w].ids \cap r.answer = y
  <2>1. DOMAIN heartbeats = Instances
    BY DEF TypeOK
  <2>2. r.answer # Failed => r = ZRangeYounger(heartbeats, HeartbeatExpire)
    BY <1>1, OutcomeCases
  <2> QED
    BY <1>3, <1>4, <2>1, <2>2 DEF ZRangeYounger, Reply
<1>7. CASE r.answer = Failed
  <2>1. Asks(w, r, watch[w])
    BY <1>1, <1>7 DEF Asks
  <2> QED
    BY <1>2, <1>3, <1>7, <2>1, AsksFields
<1>8. CASE r.answer # Failed
  <2>1. PICK d : d = [watch[w] EXCEPT !.at = "get", !.ids = y]
    OBVIOUS
  <2>2. /\ d \in Watching /\ d.at = "get" /\ d.ids = y /\ d.found = watch[w].found
        /\ d.began = watch[w].began /\ d.gone = watch[w].gone
        /\ d.first = watch[w].first /\ d.ticked = watch[w].ticked
        /\ d.last = watch[w].last /\ d.current = watch[w].current
    BY <1>3, <1>5, <2>1 DEF Watching
  <2>3. Asks(w, r, d)
    BY <1>1, <1>6, <1>8, <2>1
  <2>4. /\ watch'[w] = d /\ Others(w) /\ watch' \in [Watchers -> Watching]
        /\ mishaps' \in 0..MaxMishaps
    BY <1>8, <2>2, <2>3, AsksFields
  <2> QED
    BY <1>2, <1>4, <2>2, <2>4 DEF SameSearch
<1> QED
  BY <1>7, <1>8

LEMMA GetEffect ==
  ASSUME TypeOK, NEW w \in Watchers, NEW i \in Instances, GetInstance(w, i)
  PROVE  /\ watch[w].at = "get" /\ i \in watch[w].ids
         /\ Others(w) /\ watch' \in [Watchers -> Watching] /\ mishaps' \in 0..MaxMishaps
         /\ UNCHANGED <<redisVars, serverVars, ch, cancelled, view>>
         /\ \/ Quits(w)
            \/ /\ watch'[w].at = "get" /\ SameSearch(w)
               /\ watch'[w].ids = watch[w].ids \ {i}
               /\ watch'[w].found \in {watch[w].found, watch[w].found \cup {i}}
               /\ keys[i] # Missing => i \in watch'[w].found
<1>1. PICK r \in Outcomes(keys, GetString(keys, i)) :
        Asks(w, r, [watch[w] EXCEPT !.ids = @ \ {i},
                      !.found = IF r.answer = Missing THEN @ ELSE @ \cup {i}])
  BY DEF GetInstance
<1>2. /\ watch[w].at = "get" /\ i \in watch[w].ids
      /\ UNCHANGED <<redisVars, serverVars, ch, cancelled, view>>
  BY DEF GetInstance, At
<1>3. watch[w] \in Watching
  BY DEF TypeOK
<1>4. PICK y : y = IF r.answer = Missing THEN watch[w].found ELSE watch[w].found \cup {i}
  OBVIOUS
<1>5. y \in SUBSET Instances
  BY <1>3, <1>4 DEF Watching
<1>6. keys[i] # Missing /\ r.answer # Failed => i \in y
  <2>1. ASSUME keys[i] # Missing, r.answer # Failed
        PROVE  r.answer = keys[i].value
    BY <1>1, <2>1, OutcomeCases DEF GetString, Reply
  <2>2. keys[i] # Missing => keys[i].value \in Instances /\ keys[i].ttl \in 1..HeartbeatExpire
    BY DEF TypeOK
  <2>3. ASSUME keys[i] # Missing
        PROVE  keys[i].value # Missing
    BY <2>2, <2>3, MissingIsNoValue
  <2> QED
    BY <1>4, <2>1, <2>3
<1>7. PICK d : d = [watch[w] EXCEPT !.ids = @ \ {i}, !.found = y]
  OBVIOUS
<1>8. /\ d \in Watching /\ d.at = "get" /\ d.ids = watch[w].ids \ {i} /\ d.found = y
      /\ d.began = watch[w].began /\ d.gone = watch[w].gone
      /\ d.first = watch[w].first /\ d.ticked = watch[w].ticked
      /\ d.last = watch[w].last /\ d.current = watch[w].current
  BY <1>2, <1>3, <1>5, <1>7 DEF Watching
<1>9. Asks(w, r, d)
  BY <1>1, <1>4, <1>7
<1>10. /\ Others(w) /\ watch' \in [Watchers -> Watching] /\ mishaps' \in 0..MaxMishaps
       /\ \/ r.answer = Failed /\ Quits(w)
          \/ r.answer # Failed /\ watch'[w] = d
  BY <1>8, <1>9, AsksFields
<1> QED
  BY <1>2, <1>4, <1>6, <1>8, <1>10 DEF SameSearch

LEMMA DoneEffect ==
  ASSUME TypeOK, NEW w \in Watchers, DiscoverReturns(w)
  PROVE  /\ watch[w].at = "get" /\ watch[w].ids = {}
         /\ Others(w) /\ watch' \in [Watchers -> Watching]
         /\ UNCHANGED <<redisVars, serverVars, ch, cancelled, view, mishaps>>
         /\ watch'[w].at \in {"send", "select"}
         /\ watch'[w].first = watch[w].first /\ watch'[w].ticked = watch[w].ticked
         /\ watch'[w].last = watch[w].last /\ (watch'[w].current => ~watch[w].first)
         /\ watch'[w].at = "send" => watch'[w].found = watch[w].found
         /\ watch'[w].at = "select" => ~watch[w].first /\ watch[w].last = watch[w].found
<1>1. /\ watch[w].at = "get" /\ watch[w].ids = {}
      /\ UNCHANGED <<redisVars, serverVars, ch, cancelled, view, mishaps>>
  BY DEF DiscoverReturns, At
<1>2. watch \in [Watchers -> Watching] /\ watch[w].found \in SUBSET Instances
  BY DEF TypeOK, Watching
<1>3. PICK found, d : /\ found \in SUBSET Instances /\ found = watch[w].found
                      /\ d = Returns(w, watch[w].found, TRUE)
  BY <1>2
<1>4. watch' = [watch EXCEPT ![w] = d]
  BY <1>3 DEF DiscoverReturns, Sets
<1>5. watch'[w] = d /\ Others(w)
  BY <1>2, <1>4 DEF Others
<1>6. /\ d \in Watching /\ d.at \in {"send", "select"}
      /\ d.first = watch[w].first /\ d.ticked = watch[w].ticked
      /\ d.last = watch[w].last /\ (d.current => ~watch[w].first)
      /\ d.at = "send" => d.found = found
      /\ d.at = "select" => ~watch[w].first /\ watch[w].last = found
  <2> DEFINE x == watch[w]
             sent == x.first \/ found # x.last
  <2>1. x \in Watching /\ found \in SUBSET Instances
    BY <1>2, <1>3
  <2>2. d = [x EXCEPT !.at = IF sent THEN "send" ELSE "select",
                      !.found = IF sent THEN found ELSE {},
                      !.ids = {}, !.began = {}, !.gone = {}, !.current = ~x.first]
    BY <1>3 DEF Returns
  <2> HIDE DEF x
  <2>3. CASE sent
    BY <2>1, <2>2, <2>3 DEF Watching, x
  <2>4. CASE ~sent
    BY <2>1, <2>2, <2>4 DEF Watching, x
  <2> QED
    BY <2>3, <2>4
<1>7. watch' \in [Watchers -> Watching]
  BY <1>2, <1>4, <1>6
<1> QED
  BY <1>1, <1>3, <1>5, <1>6, <1>7

LEMMA SendEffect ==
  ASSUME TypeOK, NEW w \in Watchers, Send(w)
  PROVE  /\ watch[w].at = "send" /\ Len(ch[w]) < ChanSize
         /\ ch' = [ch EXCEPT ![w] = Append(@, watch[w].found)]
         /\ Others(w) /\ watch' \in [Watchers -> Watching]
         /\ UNCHANGED <<redisVars, serverVars, cancelled, view, mishaps>>
         /\ watch'[w].at = "select" /\ ~watch'[w].first
         /\ watch'[w].last = watch[w].found /\ watch[w].found \in SUBSET Instances
         /\ watch'[w].ticked = watch[w].ticked /\ watch'[w].current = watch[w].current
<1>1. /\ watch[w].at = "send" /\ Len(ch[w]) < ChanSize
      /\ ch' = [ch EXCEPT ![w] = Append(@, watch[w].found)]
      /\ UNCHANGED <<redisVars, serverVars, cancelled, view, mishaps>>
  BY DEF Send, At
<1>2. watch \in [Watchers -> Watching] /\ watch[w] \in Watching
  BY DEF TypeOK
<1>3. PICK d : d = [watch[w] EXCEPT !.at = "select", !.first = FALSE,
                                   !.last = watch[w].found, !.found = {}]
  OBVIOUS
<1>4. /\ d \in Watching /\ d.at = "select" /\ ~d.first /\ d.last = watch[w].found
      /\ d.ticked = watch[w].ticked /\ d.current = watch[w].current
      /\ watch[w].found \in SUBSET Instances
  BY <1>2, <1>3 DEF Watching
<1>5. watch' = [watch EXCEPT ![w] = d]
  BY <1>3 DEF Send, Sets
<1>6. watch'[w] = d /\ Others(w) /\ watch' \in [Watchers -> Watching]
  BY <1>2, <1>4, <1>5 DEF Others
<1> QED
  BY <1>1, <1>4, <1>6

(* The steps that only move a watcher between two Discovers. *)
Waits(w) == WatchStarts(w) \/ SelectTick(w) \/ SelectDone(w)

LEMMA WaitsEffect ==
  ASSUME TypeOK, NEW w \in Watchers, Waits(w)
  PROVE  /\ watch'[w].at \in {"members", "closed"}
         /\ Others(w) /\ watch' \in [Watchers -> Watching]
         /\ UNCHANGED <<redisVars, serverVars, ch, cancelled, view, mishaps>>
         /\ watch'[w].first = watch[w].first /\ watch'[w].last = watch[w].last
         /\ watch'[w].current = watch[w].current
<1>1. UNCHANGED <<redisVars, serverVars, ch, cancelled, view, mishaps>>
  BY DEF Waits, WatchStarts, SelectTick, SelectDone
<1>2. watch \in [Watchers -> Watching] /\ watch[w] \in Watching
  BY DEF TypeOK
<1>3. PICK at \in {"members", "closed"}, ticked \in BOOLEAN :
        watch' = [watch EXCEPT ![w] = [watch[w] EXCEPT !.at = at, !.ticked = ticked]]
  <2>1. watch[w].ticked \in BOOLEAN
    BY <1>2 DEF Watching
  <2>2. CASE WatchStarts(w)
    <3>1. [watch[w] EXCEPT !.at = "members"]
            = [watch[w] EXCEPT !.at = "members", !.ticked = watch[w].ticked]
      BY <1>2 DEF Watching
    <3> QED
      BY <2>1, <2>2, <3>1 DEF WatchStarts, Sets
  <2>3. CASE SelectTick(w)
    BY <2>3 DEF SelectTick, Sets
  <2>4. CASE SelectDone(w)
    <3>1. [watch[w] EXCEPT !.at = "closed"]
            = [watch[w] EXCEPT !.at = "closed", !.ticked = watch[w].ticked]
      BY <1>2 DEF Watching
    <3> QED
      BY <2>1, <2>4, <3>1 DEF SelectDone, Sets
  <2> QED
    BY <2>2, <2>3, <2>4 DEF Waits
<1>4. PICK d : d = [watch[w] EXCEPT !.at = at, !.ticked = ticked]
  OBVIOUS
<1>5. /\ d \in Watching /\ d.at = at /\ d.first = watch[w].first
      /\ d.last = watch[w].last /\ d.current = watch[w].current
  BY <1>2, <1>4 DEF Watching
<1>6. watch'[w] = d /\ Others(w) /\ watch' \in [Watchers -> Watching]
  BY <1>2, <1>3, <1>4, <1>5 DEF Others
<1> QED
  BY <1>1, <1>5, <1>6

-----------------------------------------------------------------------------
(* The steps of a server, with the errors its commands can have. *)

Beaten(i) == [heartbeats EXCEPT ![i] = 0]

LEMMA ServerEffect ==
  ASSUME TypeOK, NEW i \in Instances, ServerNext(i)
  PROVE  /\ UNCHANGED <<watchVars, deadFor>>
         /\ mishaps' \in 0..MaxMishaps /\ ticker' \in [Instances -> 0..HeartbeatPeriod]
         /\ \E s \in {"add", "beat", "up", "dead"} :
              /\ server' = [server EXCEPT ![i] = s]
              /\ \/ /\ server[i] = "off" /\ s \in {"add", "dead"}
                    /\ keys' \in {keys, [keys EXCEPT ![i] = [value |-> i, ttl |-> HeartbeatExpire]]}
                    /\ UNCHANGED <<members, heartbeats>>
                 \/ /\ server[i] = "add" /\ s \in {"beat", "dead"}
                    /\ members' \in {members, members \cup {i}}
                    /\ s = "beat" => i \in members'
                    /\ UNCHANGED <<keys, heartbeats>>
                 \/ /\ server[i] = "beat" /\ s \in {"up", "dead"}
                    /\ heartbeats' \in {heartbeats, Beaten(i)}
                    /\ s = "up" => heartbeats' = Beaten(i)
                    /\ UNCHANGED <<keys, members>>
                 \/ /\ server[i] = "up" /\ s = "up"
                    /\ heartbeats' \in {heartbeats, Beaten(i)}
                    /\ UNCHANGED <<keys, members>>
                 \/ /\ server[i] \notin {"off", "dead"} /\ s = "dead"
                    /\ UNCHANGED redisVars
<1> USE DiscoveryConstants
<1>0. /\ mishaps \in Nat /\ server \in [Instances -> {"off", "add", "beat", "up", "dead"}]
      /\ ticker \in [Instances -> 0..HeartbeatPeriod]
  BY DEF TypeOK
<1>1. CASE RegisterSet(i)
  <2>1. PICK k : k = [keys EXCEPT ![i] = [value |-> i, ttl |-> HeartbeatExpire]]
    OBVIOUS
  <2>2. PICK r \in Outcomes(keys, SetEx(keys, i, i, HeartbeatExpire)) :
          keys' = r.space /\ Becomes(i, r.answer, "add") /\ Spend(r.answer)
    BY <1>1 DEF RegisterSet
  <2>3. r.space \in {keys, k}
    BY <2>1, <2>2, OutcomeCases DEF SetEx, Reply
  <2>4. server[i] = "off" /\ UNCHANGED <<members, heartbeats, ticker, deadFor, watchVars>>
    BY <1>1 DEF RegisterSet
  <2>5. PICK s \in {"add", "dead"} : server' = [server EXCEPT ![i] = s]
    BY <2>2 DEF Becomes
  <2>6. mishaps' \in 0..MaxMishaps
    BY <1>0, <2>2 DEF Spend
  <2> QED
    BY <1>0, <2>1, <2>2, <2>3, <2>4, <2>5, <2>6
<1>2. CASE RegisterAdd(i)
  <2>1. PICK r \in Outcomes(members, SAdd(members, i)) :
          members' = r.space /\ Becomes(i, r.answer, "beat") /\ Spend(r.answer)
    BY <1>2 DEF RegisterAdd
  <2>2. r.space \in {members, members \cup {i}} /\ (r.answer # Failed => i \in r.space)
    BY <2>1, OutcomeCases DEF SAdd, Reply
  <2>3. server[i] = "add" /\ UNCHANGED <<keys, heartbeats, ticker, deadFor, watchVars>>
    BY <1>2 DEF RegisterAdd
  <2>4. PICK s \in {"beat", "dead"} :
          server' = [server EXCEPT ![i] = s] /\ (s = "beat" => r.answer # Failed)
    BY <2>1 DEF Becomes
  <2>5. mishaps' \in 0..MaxMishaps
    BY <1>0, <2>1 DEF Spend
  <2> QED
    BY <1>0, <2>1, <2>2, <2>3, <2>4, <2>5
<1>3. CASE RegisterBeat(i)
  <2>1. PICK r \in Outcomes(heartbeats, ZAdd(heartbeats, i)) :
          heartbeats' = r.space /\ Becomes(i, r.answer, "up") /\ Spend(r.answer)
    BY <1>3 DEF RegisterBeat
  <2>2. /\ r.space \in {heartbeats, Beaten(i)}
        /\ r.answer # Failed => r.space = Beaten(i)
    <3>1. ZAdd(heartbeats, i).space = Beaten(i)
      BY DEF ZAdd, Reply, Beaten
    <3> QED
      BY <2>1, <3>1, OutcomeCases
  <2>3. server[i] = "beat" /\ UNCHANGED <<keys, members, ticker, deadFor, watchVars>>
    BY <1>3 DEF RegisterBeat
  <2>4. PICK s \in {"up", "dead"} :
          server' = [server EXCEPT ![i] = s] /\ (s = "up" => r.answer # Failed)
    BY <2>1 DEF Becomes
  <2>5. mishaps' \in 0..MaxMishaps
    BY <1>0, <2>1 DEF Spend
  <2> QED
    BY <1>0, <2>1, <2>2, <2>3, <2>4, <2>5
<1>4. CASE Heartbeat(i)
  <2>1. PICK r \in Outcomes(heartbeats, ZAdd(heartbeats, i)) :
          heartbeats' = r.space /\ Spend(r.answer)
    BY <1>4 DEF Heartbeat
  <2>2. r.space \in {heartbeats, Beaten(i)}
    BY <2>1, OutcomeCases DEF ZAdd, Reply, Beaten
  <2>3. /\ server[i] = "up" /\ ticker' = [ticker EXCEPT ![i] = HeartbeatPeriod]
        /\ UNCHANGED <<keys, members, server, deadFor, watchVars>>
    BY <1>4 DEF Heartbeat
  <2>4. server = [server EXCEPT ![i] = "up"]
    BY <1>0, <2>3
  <2>5. mishaps' \in 0..MaxMishaps
    BY <1>0, <2>1 DEF Spend
  <2>6. ticker' \in [Instances -> 0..HeartbeatPeriod]
    BY <1>0, <2>3 DEF HeartbeatPeriod
  <2> QED
    BY <1>0, <2>1, <2>2, <2>3, <2>4, <2>5, <2>6
<1>5. CASE Crash(i)
  <2>1. /\ server[i] \notin {"off", "dead"} /\ server' = [server EXCEPT ![i] = "dead"]
        /\ UNCHANGED <<redisVars, deadFor, watchVars, mishaps>>
    BY <1>5 DEF Crash
  <2>2. mishaps' \in 0..MaxMishaps
    BY <2>1 DEF TypeOK
  <2>3. ticker' \in [Instances -> 0..HeartbeatPeriod]
    BY <1>0, <1>5 DEF Crash, HeartbeatPeriod
  <2> QED
    BY <2>1, <2>2, <2>3
<1> QED
  BY <1>1, <1>2, <1>3, <1>4, <1>5 DEF ServerNext

(* Five seconds later. *)
LEMMA TickEffect ==
  ASSUME TypeOK, Tick
  PROVE  /\ UNCHANGED <<members, server, ch, cancelled, view, mishaps>>
         /\ keys' \in [Instances -> {Missing} \cup [value : Instances, ttl : 1..HeartbeatExpire]]
         /\ ticker' \in [Instances -> 0..HeartbeatPeriod]
         /\ watch' \in [Watchers -> Watching]
         /\ \A i \in Instances :
              /\ keys'[i] # Missing => keys[i] # Missing /\ keys[i].ttl = keys'[i].ttl + 1
              /\ heartbeats'[i] = IF heartbeats[i] = Missing THEN Missing
                                  ELSE Capped(heartbeats[i], HeartbeatExpire + 1)
              /\ deadFor'[i] = IF server[i] = "dead" THEN Capped(deadFor[i], FifteenSeconds)
                               ELSE 0
         /\ heartbeats' \in [Instances -> {Missing} \cup 0 .. HeartbeatExpire + 1]
         /\ deadFor' \in [Instances -> 0..FifteenSeconds]
         /\ \A w \in Watchers :
              /\ watch'[w].ticked = ~watch[w].first
              /\ watch'[w].at = watch[w].at /\ watch'[w].first = watch[w].first
              /\ watch'[w].current = watch[w].current /\ watch'[w].ids = watch[w].ids
              /\ watch'[w].found = watch[w].found /\ watch'[w].last = watch[w].last
              /\ watch'[w].began = watch[w].began /\ watch'[w].gone = watch[w].gone
<1>1. UNCHANGED <<members, server, ch, cancelled, view, mishaps>>
  BY DEF Tick
<1>2. ASSUME NEW i \in Instances
      PROVE  /\ keys'[i] \in {Missing} \cup [value : Instances, ttl : 1..HeartbeatExpire]
             /\ keys'[i] # Missing => keys[i] # Missing /\ keys[i].ttl = keys'[i].ttl + 1
  <2>1. keys[i] \in {Missing} \cup [value : Instances, ttl : 1..HeartbeatExpire]
    BY DEF TypeOK
  <2>2. keys'[i] = IF keys[i] = Missing \/ keys[i].ttl = 0 THEN keys[i]
                   ELSE IF keys[i].ttl = 1 THEN Missing
                   ELSE [keys[i] EXCEPT !.ttl = keys[i].ttl - 1]
    BY DEF Tick, Aged, TypeOK
  <2>3. CASE keys[i] = Missing \/ keys[i].ttl = 1
    <3>1. keys'[i] = Missing
      BY <2>2, <2>3
    <3> QED
      BY <3>1
  <2>4. CASE keys[i] # Missing /\ keys[i].ttl # 1
    <3>1. keys[i] \in [value : Instances, ttl : 1..HeartbeatExpire]
      BY <2>1, <2>4
    <3>2. keys[i].ttl \in 2..HeartbeatExpire
      BY <3>1, <2>4 DEF HeartbeatExpire
    <3>3. keys'[i] = [keys[i] EXCEPT !.ttl = keys[i].ttl - 1]
      BY <2>2, <2>4, <3>2
    <3>4. keys'[i] = [value |-> keys[i].value, ttl |-> keys[i].ttl - 1]
      BY <3>1, <3>3
    <3> QED
      BY <2>4, <3>1, <3>2, <3>4 DEF HeartbeatExpire
  <2> QED
    BY <2>3, <2>4
<1>3. keys' \in [Instances -> {Missing} \cup [value : Instances, ttl : 1..HeartbeatExpire]]
  <2>1. \E F : keys' = [i \in Instances |-> F[i]]
    <3>1. keys' = [i \in Instances |-> Aged(keys)[i]]
      BY DEF Tick, Aged, TypeOK
    <3> QED
      BY <3>1
  <2> QED
    BY <1>2, <2>1
<1>4. ticker' \in [Instances -> 0..HeartbeatPeriod]
  <2>1. ASSUME NEW i \in Instances
        PROVE  (IF server[i] = "up" THEN ticker[i] - 1 ELSE ticker[i]) \in 0..HeartbeatPeriod
    BY DEF Tick, TypeOK, HeartbeatPeriod
  <2> QED
    BY <2>1 DEF Tick
<1>5. /\ heartbeats' \in [Instances -> {Missing} \cup 0 .. HeartbeatExpire + 1]
      /\ deadFor' \in [Instances -> 0..FifteenSeconds]
  <2>1. ASSUME NEW i \in Instances, heartbeats[i] # Missing
        PROVE  Capped(heartbeats[i], HeartbeatExpire + 1) \in 0 .. HeartbeatExpire + 1
    <3>1. heartbeats[i] \in 0 .. HeartbeatExpire + 1
      BY <2>1 DEF TypeOK
    <3> QED
      BY <3>1 DEF Capped, HeartbeatExpire
  <2>2. ASSUME NEW i \in Instances
        PROVE  Capped(deadFor[i], FifteenSeconds) \in 0..FifteenSeconds
    <3>1. deadFor[i] \in 0..FifteenSeconds
      BY DEF TypeOK
    <3> QED
      BY <3>1 DEF Capped, FifteenSeconds
  <2>3. 0 \in 0..FifteenSeconds
    BY DEF FifteenSeconds
  <2> QED
    BY <2>1, <2>2, <2>3 DEF Tick
<1>6. \A i \in Instances :
        /\ heartbeats'[i] = IF heartbeats[i] = Missing THEN Missing
                            ELSE Capped(heartbeats[i], HeartbeatExpire + 1)
        /\ deadFor'[i] = IF server[i] = "dead" THEN Capped(deadFor[i], FifteenSeconds) ELSE 0
  BY DEF Tick
<1>7. ASSUME NEW w \in Watchers
      PROVE  /\ watch'[w] \in Watching
             /\ watch'[w].ticked = ~watch[w].first
             /\ watch'[w].at = watch[w].at /\ watch'[w].first = watch[w].first
             /\ watch'[w].current = watch[w].current /\ watch'[w].ids = watch[w].ids
             /\ watch'[w].found = watch[w].found /\ watch'[w].last = watch[w].last
             /\ watch'[w].began = watch[w].began /\ watch'[w].gone = watch[w].gone
  <2>1. watch'[w] = [watch[w] EXCEPT !.ticked = ~watch[w].first] /\ watch[w] \in Watching
    BY DEF Tick, TypeOK
  <2> QED
    BY <2>1 DEF Watching
<1>8. watch' \in [Watchers -> Watching]
  <2>1. DOMAIN watch' = Watchers /\ watch' = [w \in Watchers |-> watch'[w]]
    BY DEF Tick
  <2> QED
    BY <1>7, <2>1
<1> QED
  BY <1>1, <1>2, <1>3, <1>4, <1>5, <1>6, <1>7, <1>8

-----------------------------------------------------------------------------
(* Type correctness. *)

WatchMoves(w) ==
  \/ GetMembers(w) \/ CleanExpiredHeartbeats(w) \/ GetValidInstanceIDs(w)
  \/ (\E i \in Instances : GetInstance(w, i))
  \/ DiscoverReturns(w) \/ Waits(w)

(* What the steps of a watcher but Send have in common. *)
LEMMA MovesEffect ==
  ASSUME TypeOK, NEW w \in Watchers, WatchMoves(w)
  PROVE  /\ Others(w) /\ watch' \in [Watchers -> Watching] /\ mishaps' \in 0..MaxMishaps
         /\ heartbeats' \in {heartbeats, Cleaned}
         /\ UNCHANGED <<keys, members, serverVars, ch, cancelled, view>>
<1>1. mishaps \in 0..MaxMishaps
  BY DEF TypeOK
<1>2. CASE GetMembers(w)
  BY <1>2, MembersEffect DEF redisVars
<1>3. CASE CleanExpiredHeartbeats(w)
  BY <1>3, CleanEffect
<1>4. CASE GetValidInstanceIDs(w)
  BY <1>4, RangeEffect DEF redisVars
<1>5. CASE \E i \in Instances : GetInstance(w, i)
  BY <1>5, GetEffect DEF redisVars
<1>6. CASE DiscoverReturns(w)
  BY <1>1, <1>6, DoneEffect DEF redisVars
<1>7. CASE Waits(w)
  BY <1>1, <1>7, WaitsEffect DEF redisVars
<1> QED
  BY <1>2, <1>3, <1>4, <1>5, <1>6, <1>7 DEF WatchMoves

(* The kinds of steps there are. *)
LEMMA StepCases ==
  ASSUME [DiscoveryNext]_discoveryVars
  PROVE  \/ \E i \in Instances : ServerNext(i)
         \/ \E w \in Watchers : WatchMoves(w) \/ Send(w) \/ Receive(w) \/ Cancel(w)
         \/ Tick
         \/ UNCHANGED discoveryVars
BY DEF DiscoveryNext, WatchStep, WatchMoves, Waits

LEMMA CleanedType ==
  ASSUME TypeOK
  PROVE  Cleaned \in [Instances -> {Missing} \cup 0 .. HeartbeatExpire + 1]
BY DEF TypeOK, Cleaned

LEMMA TypeStep ==
  ASSUME TypeOK, [DiscoveryNext]_discoveryVars
  PROVE  TypeOK'
<1>1. ASSUME NEW i \in Instances, ServerNext(i)
      PROVE  TypeOK'
  <2>1. PICK s \in {"add", "beat", "up", "dead"} :
          /\ server' = [server EXCEPT ![i] = s]
          /\ keys' \in {keys, [keys EXCEPT ![i] = [value |-> i, ttl |-> HeartbeatExpire]]}
          /\ members' \in {members, members \cup {i}}
          /\ heartbeats' \in {heartbeats, Beaten(i)}
          /\ mishaps' \in 0..MaxMishaps /\ ticker' \in [Instances -> 0..HeartbeatPeriod]
          /\ UNCHANGED <<watchVars, deadFor>>
    BY <1>1, ServerEffect DEF redisVars
  <2>2. /\ keys \in [Instances -> {Missing} \cup [value : Instances, ttl : 1..HeartbeatExpire]]
        /\ server \in [Instances -> {"off", "add", "beat", "up", "dead"}]
        /\ heartbeats \in [Instances -> {Missing} \cup 0 .. HeartbeatExpire + 1]
        /\ members \subseteq Instances
    BY DEF TypeOK
  <2>3. [value |-> i, ttl |-> HeartbeatExpire] \in [value : Instances, ttl : 1..HeartbeatExpire]
    BY DEF HeartbeatExpire
  <2>4. keys' \in [Instances -> {Missing} \cup [value : Instances, ttl : 1..HeartbeatExpire]]
    BY <2>1, <2>2, <2>3
  <2>5. 0 \in 0 .. HeartbeatExpire + 1
    BY DEF HeartbeatExpire
  <2>6. heartbeats' \in [Instances -> {Missing} \cup 0 .. HeartbeatExpire + 1]
    BY <2>1, <2>2, <2>5 DEF Beaten
  <2>7. server' \in [Instances -> {"off", "add", "beat", "up", "dead"}]
    BY <2>1, <2>2
  <2>8. members' \subseteq Instances
    BY <2>1, <2>2
  <2> QED
    BY <2>1, <2>4, <2>6, <2>7, <2>8 DEF TypeOK, watchVars
<1>2. ASSUME NEW w \in Watchers, WatchMoves(w)
      PROVE  TypeOK'
  BY <1>2, MovesEffect, CleanedType DEF TypeOK, serverVars
<1>3. ASSUME NEW w \in Watchers, Send(w)
      PROVE  TypeOK'
  <2>1. /\ watch' \in [Watchers -> Watching]
        /\ ch' = [ch EXCEPT ![w] = Append(@, watch[w].found)] /\ Len(ch[w]) < ChanSize
        /\ watch[w].found \in SUBSET Instances
        /\ UNCHANGED <<redisVars, serverVars, cancelled, view, mishaps>>
    BY <1>3, SendEffect
  <2>2. /\ ch \in [Watchers -> Seq(SUBSET Instances)]
        /\ \A v \in Watchers : Len(ch[v]) =< ChanSize
    BY DEF TypeOK
  <2>3. PICK q : q = Append(ch[w], watch[w].found)
    OBVIOUS
  <2>4. q \in Seq(SUBSET Instances) /\ Len(q) =< ChanSize
    BY <2>1, <2>2, <2>3, DiscoveryConstants
  <2>5. ch' = [ch EXCEPT ![w] = q]
    BY <2>1, <2>3
  <2>6. /\ ch' \in [Watchers -> Seq(SUBSET Instances)]
        /\ \A v \in Watchers : Len(ch'[v]) =< ChanSize
    BY <2>2, <2>4, <2>5
  <2> QED
    BY <2>1, <2>6 DEF TypeOK, redisVars, serverVars
<1>4. ASSUME NEW w \in Watchers, Receive(w)
      PROVE  TypeOK'
  <2>1. /\ ch[w] # <<>> /\ view' = [view EXCEPT ![w] = Head(ch[w])]
        /\ ch' = [ch EXCEPT ![w] = Tail(@)]
        /\ UNCHANGED <<redisVars, serverVars, watch, cancelled, mishaps>>
    BY <1>4 DEF Receive
  <2>2. /\ ch \in [Watchers -> Seq(SUBSET Instances)]
        /\ \A v \in Watchers : Len(ch[v]) =< ChanSize
        /\ view \in [Watchers -> SUBSET Instances]
    BY DEF TypeOK
  <2>3. PICK q, h : q = Tail(ch[w]) /\ h = Head(ch[w])
    OBVIOUS
  <2>4. q \in Seq(SUBSET Instances) /\ Len(q) =< ChanSize /\ h \in SUBSET Instances
    BY <2>1, <2>2, <2>3, DiscoveryConstants
  <2>5. ch' = [ch EXCEPT ![w] = q] /\ view' = [view EXCEPT ![w] = h]
    BY <2>1, <2>3
  <2>6. /\ ch' \in [Watchers -> Seq(SUBSET Instances)]
        /\ \A v \in Watchers : Len(ch'[v]) =< ChanSize
        /\ view' \in [Watchers -> SUBSET Instances]
    BY <2>2, <2>4, <2>5
  <2> QED
    BY <2>1, <2>6 DEF TypeOK, redisVars, serverVars
<1>5. ASSUME NEW w \in Watchers, Cancel(w)
      PROVE  TypeOK'
  BY <1>5 DEF Cancel, TypeOK, redisVars, serverVars
<1>6. CASE Tick
  BY <1>6, TickEffect DEF TypeOK
<1>7. CASE UNCHANGED discoveryVars
  BY <1>7 DEF TypeOK, discoveryVars, redisVars, serverVars, watchVars
<1> QED
  BY <1>1, <1>2, <1>3, <1>4, <1>5, <1>6, <1>7, StepCases

LEMMA TypeInit ==
  ASSUME DiscoveryInit
  PROVE  TypeOK
<1>1. NewWatch \in Watching
  BY DEF NewWatch, Watching
<1> QED
  BY <1>1, DiscoveryConstants
  DEF DiscoveryInit, TypeOK, HeartbeatPeriod, FifteenSeconds

(* A watch, its channel, the stored keys and heartbeats keep their types. *)
THEOREM TypeCorrect == DiscoverySpec => []TypeOK
BY TypeInit, TypeStep, PTL DEF DiscoverySpec

-----------------------------------------------------------------------------
(* The servers: heartbeats are as old as their processes are dead, and     *)
(* outlive the keys.                                                       *)

ServersInv == DeadDoNotBeat /\ ServersAreListed

(* The types that the arguments below use. *)
LEMMA Types ==
  ASSUME TypeOK, NEW i \in Instances
  PROVE  /\ keys[i] # Missing => keys[i].ttl \in 1..HeartbeatExpire
         /\ heartbeats[i] # Missing => heartbeats[i] \in 0 .. HeartbeatExpire + 1
         /\ server[i] \in {"off", "add", "beat", "up", "dead"}
         /\ deadFor[i] \in 0..FifteenSeconds
BY DEF TypeOK

(* CleanExpiredHeartbeats does not touch the heartbeat of a key that lives. *)
LEMMA CleanedOutlives ==
  ASSUME TypeOK, NEW i \in Instances, BeatOutlivesKey(i), keys'[i] = keys[i],
         heartbeats' \in {heartbeats, Cleaned}
  PROVE  BeatOutlivesKey(i)'
<1>1. ASSUME keys[i] # Missing
      PROVE  heartbeats'[i] = heartbeats[i]
  <2>1. /\ keys[i].ttl \in 1..HeartbeatExpire
        /\ heartbeats[i] \in 0 .. HeartbeatExpire + 1
        /\ heartbeats[i] + keys[i].ttl =< HeartbeatExpire
    BY <1>1, Types DEF BeatOutlivesKey
  <2>2. ~(heartbeats[i] >= HeartbeatExpire)
    BY <2>1 DEF HeartbeatExpire
  <2> QED
    BY <2>2 DEF Cleaned
<1> QED
  BY <1>1 DEF BeatOutlivesKey

(* The heartbeat of a server that is registered does not end the wait. *)
LEMMA BeatenOutlives ==
  ASSUME TypeOK, NEW i \in Instances, heartbeats' = Beaten(i), UNCHANGED keys
  PROVE  BeatOutlivesKey(i)'
<1>1. heartbeats'[i] = 0
  BY DEF TypeOK, Beaten
<1>2. 0 # Missing
  BY MissingIsNoValue
<1>3. ASSUME keys[i] # Missing
      PROVE  0 + keys[i].ttl =< HeartbeatExpire
  BY <1>3, Types DEF HeartbeatExpire
<1> QED
  BY <1>1, <1>2, <1>3 DEF BeatOutlivesKey

LEMMA AgedOutlives ==
  ASSUME TypeOK, TypeOK', Tick, NEW i \in Instances, BeatOutlivesKey(i)
  PROVE  BeatOutlivesKey(i)'
<1>1. ASSUME keys'[i] # Missing
      PROVE  heartbeats'[i] # Missing /\ heartbeats'[i] + keys'[i].ttl =< HeartbeatExpire
  <2>1. keys[i] # Missing /\ keys[i].ttl = keys'[i].ttl + 1
    BY <1>1, TickEffect
  <2>2. keys[i].ttl \in 1..HeartbeatExpire /\ keys'[i].ttl \in 1..HeartbeatExpire
    <3>1. keys'[i] \in [value : Instances, ttl : 1..HeartbeatExpire]
      BY <1>1 DEF TypeOK
    <3> QED
      BY <2>1, <3>1, Types
  <2>3. /\ heartbeats[i] # Missing /\ heartbeats[i] \in 0 .. HeartbeatExpire + 1
        /\ heartbeats[i] + keys[i].ttl =< HeartbeatExpire
    BY <2>1, Types DEF BeatOutlivesKey
  <2>4. heartbeats'[i] = Capped(heartbeats[i], HeartbeatExpire + 1)
    BY <2>3, TickEffect
  <2>5. heartbeats'[i] = heartbeats[i] + 1
    BY <2>2, <2>3, <2>4 DEF Capped, HeartbeatExpire
  <2>6. heartbeats'[i] \in Nat
    BY <2>3, <2>5 DEF HeartbeatExpire
  <2> QED
    BY <2>1, <2>2, <2>3, <2>5, <2>6, MissingIsNoValue DEF HeartbeatExpire
<1> QED
  BY <1>1 DEF BeatOutlivesKey

LEMMA ServersAtServerStep ==
  ASSUME TypeOK, TypeOK', ServersInv, NEW j \in Instances, ServerNext(j)
  PROVE  ServersInv'
<1>1. UNCHANGED <<watchVars, deadFor>>
  BY ServerEffect
<1>2. PICK s \in {"add", "beat", "up", "dead"} :
        /\ server' = [server EXCEPT ![j] = s]
        /\ \/ /\ server[j] = "off" /\ s \in {"add", "dead"}
              /\ keys' \in {keys, [keys EXCEPT ![j] = [value |-> j, ttl |-> HeartbeatExpire]]}
              /\ UNCHANGED <<members, heartbeats>>
           \/ /\ server[j] = "add" /\ s \in {"beat", "dead"}
              /\ members' \in {members, members \cup {j}}
              /\ s = "beat" => j \in members'
              /\ UNCHANGED <<keys, heartbeats>>
           \/ /\ server[j] = "beat" /\ s \in {"up", "dead"}
              /\ heartbeats' \in {heartbeats, Beaten(j)}
              /\ s = "up" => heartbeats' = Beaten(j)
              /\ UNCHANGED <<keys, members>>
           \/ /\ server[j] = "up" /\ s = "up"
              /\ heartbeats' \in {heartbeats, Beaten(j)}
              /\ UNCHANGED <<keys, members>>
           \/ /\ server[j] \notin {"off", "dead"} /\ s = "dead"
              /\ UNCHANGED redisVars
  BY ServerEffect
<1>3. server[j] # "dead"
  BY <1>2
<1>4. ASSUME NEW i \in Instances \ {j}
      PROVE  /\ server'[i] = server[i] /\ keys'[i] = keys[i] /\ heartbeats'[i] = heartbeats[i]
             /\ i \in members => i \in members'
  BY <1>2 DEF TypeOK, Beaten, redisVars
<1>5. server'[j] = s
  BY <1>2 DEF TypeOK
<1>6. DeadDoNotBeat'
  <2>1. deadFor[j] = 0
    BY <1>3, Types DEF ServersInv, DeadDoNotBeat, FifteenSeconds
  <2>2. heartbeats'[j] # Missing => heartbeats'[j] \in 0 .. HeartbeatExpire + 1
    BY DEF TypeOK
  <2>3. ASSUME NEW i \in Instances \ {j}
        PROVE  /\ deadFor'[i] > 0 => server'[i] = "dead"
               /\ server'[i] = "dead" /\ heartbeats'[i] # Missing
                    => heartbeats'[i] >= deadFor'[i]
    BY <1>1, <1>4 DEF ServersInv, DeadDoNotBeat
  <2>4. /\ ~(deadFor'[j] > 0)
        /\ heartbeats'[j] # Missing => heartbeats'[j] >= deadFor'[j]
    BY <1>1, <2>1, <2>2 DEF HeartbeatExpire
  <2> QED
    BY <2>3, <2>4 DEF DeadDoNotBeat
<1>7. ServersAreListed'
  <2>1. ASSUME NEW i \in Instances \ {j}
        PROVE  /\ server'[i] \in {"beat", "up"} => i \in members'
               /\ server'[i] = "up" => BeatOutlivesKey(i)'
    BY <1>4 DEF ServersInv, ServersAreListed, BeatOutlivesKey
  <2>2. s \in {"beat", "up"} => j \in members'
    BY <1>2 DEF ServersInv, ServersAreListed
  <2>3. s = "up" => BeatOutlivesKey(j)'
    <3>1. ASSUME s = "up", heartbeats' = Beaten(j)
          PROVE  BeatOutlivesKey(j)'
      BY <1>2, <3>1, BeatenOutlives
    <3>2. ASSUME s = "up", heartbeats' # Beaten(j)
          PROVE  server[j] = "up" /\ UNCHANGED <<keys, heartbeats>>
      BY <1>2, <3>2
    <3> QED
      BY <3>1, <3>2 DEF ServersInv, ServersAreListed, BeatOutlivesKey
  <2> QED
    BY <1>5, <2>1, <2>2, <2>3 DEF ServersAreListed
<1> QED
  BY <1>6, <1>7 DEF ServersInv

LEMMA ServersAtTick ==
  ASSUME TypeOK, TypeOK', ServersInv, Tick
  PROVE  ServersInv'
<1>1. UNCHANGED <<members, server>>
  BY TickEffect
<1>2. DeadDoNotBeat'
  <2> SUFFICES ASSUME NEW i \in Instances
               PROVE  /\ deadFor'[i] > 0 => server[i] = "dead"
                      /\ server[i] = "dead" /\ heartbeats'[i] # Missing
                           => heartbeats'[i] >= deadFor'[i]
    BY <1>1 DEF DeadDoNotBeat
  <2>1. deadFor'[i] = IF server[i] = "dead" THEN Capped(deadFor[i], FifteenSeconds) ELSE 0
    BY TickEffect
  <2>2. ASSUME server[i] = "dead", heartbeats'[i] # Missing
        PROVE  heartbeats'[i] >= deadFor'[i]
    <3>1. /\ heartbeats[i] # Missing
          /\ heartbeats'[i] = Capped(heartbeats[i], HeartbeatExpire + 1)
      BY <2>2, TickEffect
    <3>2. heartbeats[i] \in 0 .. HeartbeatExpire + 1 /\ deadFor[i] \in 0..FifteenSeconds
      BY <3>1, Types
    <3>3. heartbeats[i] >= deadFor[i]
      BY <2>2, <3>1 DEF ServersInv, DeadDoNotBeat
    <3> QED
      BY <2>1, <2>2, <3>1, <3>2, <3>3 DEF Capped, HeartbeatExpire, FifteenSeconds
  <2> QED
    BY <2>1, <2>2
<1>3. ServersAreListed'
  BY <1>1, AgedOutlives DEF ServersInv, ServersAreListed
<1> QED
  BY <1>2, <1>3 DEF ServersInv

LEMMA ServersAtWatchStep ==
  ASSUME TypeOK, ServersInv, UNCHANGED <<keys, members, serverVars>>,
         heartbeats' \in {heartbeats, Cleaned}
  PROVE  ServersInv'
<1>1. \A i \in Instances : heartbeats'[i] \in {Missing, heartbeats[i]}
  BY DEF Cleaned
<1>2. DeadDoNotBeat'
  BY <1>1 DEF ServersInv, DeadDoNotBeat, serverVars
<1>3. ServersAreListed'
  BY CleanedOutlives DEF ServersInv, ServersAreListed, serverVars
<1> QED
  BY <1>2, <1>3 DEF ServersInv

-----------------------------------------------------------------------------
(* The watchers. *)

WatcherInv(w) ==
  GoneAreDropped(w) /\ ServingAreKept(w) /\ LastIsOnItsWay(w) /\ ListIsCurrent(w)

(* Where a watch stands does not change: the watchers that do not move. *)
LEMMA OtherWatcher ==
  ASSUME TypeOK, NEW v \in Watchers, WatcherInv(v),
         watch'[v] = watch[v], ch'[v] = ch[v], view'[v] = view[v],
         UNCHANGED <<keys, members, serverVars>>, heartbeats' \in {heartbeats, Cleaned}
  PROVE  WatcherInv(v)'
<1>1. watch[v].gone \subseteq Instances /\ watch[v].began \subseteq Instances
  BY DEF TypeOK, Watching
<1>2. GoneAreDropped(v)'
  <2>1. \A i \in Instances : heartbeats[i] = Missing => heartbeats'[i] = Missing
    BY DEF Cleaned
  <2> QED
    BY <1>1, <2>1 DEF WatcherInv, GoneAreDropped, serverVars
<1>3. ServingAreKept(v)'
  BY <1>1, CleanedOutlives DEF WatcherInv, ServingAreKept, serverVars
<1>4. LastIsOnItsWay(v)'
  BY DEF WatcherInv, LastIsOnItsWay
<1>5. ListIsCurrent(v)'
  BY DEF WatcherInv, ListIsCurrent, LongGone, serverVars
<1> QED
  BY <1>2, <1>3, <1>4, <1>5 DEF WatcherInv

LEMMA WatcherAtServerStep ==
  ASSUME TypeOK, NEW v \in Watchers, WatcherInv(v), NEW j \in Instances, ServerNext(j)
  PROVE  WatcherInv(v)'
<1>1. UNCHANGED <<watchVars, deadFor>>
  BY ServerEffect
<1>2. PICK s \in {"add", "beat", "up", "dead"} :
        /\ server' = [server EXCEPT ![j] = s]
        /\ server[j] # "dead"
        /\ server[j] = "up" => s \in {"up", "dead"} /\ UNCHANGED keys
        /\ keys' \in {keys, [keys EXCEPT ![j] = [value |-> j, ttl |-> HeartbeatExpire]]}
        /\ heartbeats' \in {heartbeats, Beaten(j)}
  BY ServerEffect DEF redisVars
<1>3. ASSUME NEW i \in Instances \ {j}
      PROVE  /\ server'[i] = server[i] /\ keys'[i] = keys[i] /\ heartbeats'[i] = heartbeats[i]
  BY <1>2 DEF TypeOK, Beaten
<1>4. server'[j] = s
  BY <1>2 DEF TypeOK
<1>5. watch[v].gone \subseteq Instances /\ watch[v].began \subseteq Instances
  BY DEF TypeOK, Watching
<1>6. GoneAreDropped(v)'
  BY <1>1, <1>2, <1>3, <1>5 DEF WatcherInv, GoneAreDropped, watchVars
<1>7. ServingAreKept(v)'
  <2> SUFFICES ASSUME watch[v].at \in {"clean", "range", "get"}, NEW i \in watch[v].began
               PROVE  /\ server'[i] \in {"up", "dead"} /\ BeatOutlivesKey(i)'
                      /\ \/ watch[v].at = "get" /\ keys'[i] = Missing
                         \/ i \in watch[v].ids \cup watch[v].found
    BY <1>1 DEF ServingAreKept, watchVars
  <2>1. /\ i \in Instances /\ server[i] \in {"up", "dead"} /\ BeatOutlivesKey(i)
        /\ \/ watch[v].at = "get" /\ keys[i] = Missing
           \/ i \in watch[v].ids \cup watch[v].found
    BY <1>5 DEF WatcherInv, ServingAreKept
  <2>2. CASE i = j
    <3>1. s \in {"up", "dead"} /\ UNCHANGED keys
      BY <1>2, <2>1, <2>2
    <3>2. BeatOutlivesKey(i)'
      <4>1. CASE heartbeats' = Beaten(i)
        BY <2>1, <3>1, <4>1, BeatenOutlives
      <4>2. CASE heartbeats' = heartbeats
        BY <2>1, <3>1, <4>2 DEF BeatOutlivesKey
      <4> QED
        BY <1>2, <2>2, <4>1, <4>2
    <3> QED
      BY <1>4, <2>1, <2>2, <3>1, <3>2
  <2>3. CASE i # j
    BY <1>3, <2>1, <2>3 DEF BeatOutlivesKey
  <2> QED
    BY <2>2, <2>3
<1>8. LastIsOnItsWay(v)' /\ ListIsCurrent(v)'
  BY <1>1 DEF WatcherInv, LastIsOnItsWay, ListIsCurrent, LongGone, watchVars
<1> QED
  BY <1>6, <1>7, <1>8 DEF WatcherInv

LEMMA WatcherAtTick ==
  ASSUME TypeOK, TypeOK', NEW v \in Watchers, WatcherInv(v), Tick
  PROVE  WatcherInv(v)'
<1>1. /\ watch'[v].ticked = ~watch[v].first
      /\ watch'[v].at = watch[v].at /\ watch'[v].first = watch[v].first
      /\ watch'[v].current = watch[v].current /\ watch'[v].ids = watch[v].ids
      /\ watch'[v].found = watch[v].found /\ watch'[v].last = watch[v].last
      /\ watch'[v].began = watch[v].began /\ watch'[v].gone = watch[v].gone
      /\ UNCHANGED <<server, ch, view>>
  BY TickEffect
<1>2. watch[v].gone \subseteq Instances /\ watch[v].began \subseteq Instances
  BY DEF TypeOK, Watching
<1>3. ASSUME NEW i \in Instances
      PROVE  /\ heartbeats[i] = Missing => heartbeats'[i] = Missing
             /\ keys[i] = Missing => keys'[i] = Missing
             /\ server[i] = "dead" /\ deadFor[i] >= FifteenSeconds
                  => deadFor'[i] >= FifteenSeconds
  <2>1. /\ heartbeats[i] = Missing => heartbeats'[i] = Missing
        /\ keys[i] = Missing => keys'[i] = Missing
    BY TickEffect
  <2>2. ASSUME server[i] = "dead", deadFor[i] >= FifteenSeconds
        PROVE  deadFor'[i] >= FifteenSeconds
    <3>1. deadFor'[i] = Capped(deadFor[i], FifteenSeconds)
      BY <2>2, TickEffect
    <3> QED
      BY <2>2, <3>1, Types DEF Capped, FifteenSeconds
  <2> QED
    BY <2>1, <2>2
<1>4. GoneAreDropped(v)'
  BY <1>1, <1>2, <1>3 DEF WatcherInv, GoneAreDropped
<1>5. ServingAreKept(v)'
  BY <1>1, <1>2, <1>3, AgedOutlives DEF WatcherInv, ServingAreKept
<1>6. LastIsOnItsWay(v)'
  BY <1>1 DEF WatcherInv, LastIsOnItsWay
<1>7. ListIsCurrent(v)'
  BY <1>1 DEF WatcherInv, LastIsOnItsWay, ListIsCurrent
<1> QED
  BY <1>4, <1>5, <1>6, <1>7 DEF WatcherInv

(* The step of a watcher itself. *)

LEMMA WatcherQuits ==
  ASSUME NEW w \in Watchers, WatcherInv(w), Quits(w), UNCHANGED <<ch, view>>
  PROVE  WatcherInv(w)'
<1>1. GoneAreDropped(w)' /\ ServingAreKept(w)'
  BY DEF Quits, GoneAreDropped, ServingAreKept
<1>2. LastIsOnItsWay(w)'
  BY DEF WatcherInv, Quits, LastIsOnItsWay
<1>3. ListIsCurrent(w)'
  BY DEF Quits, ListIsCurrent
<1> QED
  BY <1>1, <1>2, <1>3 DEF WatcherInv

LEMMA WatcherAtMembers ==
  ASSUME TypeOK, ServersInv, NEW w \in Watchers, WatcherInv(w), GetMembers(w)
  PROVE  WatcherInv(w)'
<1>1. UNCHANGED <<redisVars, serverVars, ch, view>>
  BY MembersEffect
<1>2. CASE Quits(w)
  BY <1>1, <1>2, WatcherQuits
<1>3. CASE /\ watch'[w].at = "clean" /\ Keeps(w)
           /\ watch'[w].ids = members /\ watch'[w].found = {}
           /\ watch'[w].began = {i \in Instances : server[i] = "up"}
           /\ watch'[w].gone = LongGone
  <2>1. GoneAreDropped(w)'
    <3>1. ASSUME NEW i \in LongGone
          PROVE  server[i] = "dead" /\ deadFor[i] >= FifteenSeconds
      <4>1. i \in Instances /\ deadFor[i] >= FifteenSeconds
        BY <3>1 DEF LongGone
      <4>2. deadFor[i] > 0
        BY <4>1, Types DEF FifteenSeconds
      <4> QED
        BY <4>1, <4>2 DEF ServersInv, DeadDoNotBeat
    <3> QED
      BY <1>1, <1>3, <3>1 DEF GoneAreDropped, serverVars
  <2>2. ServingAreKept(w)'
    BY <1>1, <1>3 DEF ServersInv, ServersAreListed, ServingAreKept, BeatOutlivesKey,
                      serverVars, redisVars
  <2>3. LastIsOnItsWay(w)'
    BY <1>1, <1>3 DEF WatcherInv, LastIsOnItsWay, Keeps
  <2>4. ListIsCurrent(w)'
    BY <1>1, <1>3 DEF ListIsCurrent, LongGone, serverVars
  <2> QED
    BY <2>1, <2>2, <2>3, <2>4 DEF WatcherInv
<1> QED
  BY <1>2, <1>3, MembersEffect

LEMMA WatcherAtClean ==
  ASSUME TypeOK, ServersInv, NEW w \in Watchers, WatcherInv(w), CleanExpiredHeartbeats(w)
  PROVE  WatcherInv(w)'
<1>1. watch[w].at = "clean" /\ UNCHANGED <<keys, members, serverVars, ch, view>>
  BY CleanEffect
<1>2. CASE Quits(w)
  BY <1>1, <1>2, WatcherQuits
<1>3. CASE /\ watch'[w].at = "range" /\ SameSearch(w) /\ heartbeats' = Cleaned
           /\ watch'[w].ids = watch[w].ids /\ watch'[w].found = watch[w].found
  <2>1. watch[w].gone \subseteq Instances /\ watch[w].began \subseteq Instances
    BY DEF TypeOK, Watching
  <2>2. GoneAreDropped(w)'
    <3>1. ASSUME NEW i \in watch[w].gone
          PROVE  server[i] = "dead" /\ deadFor[i] >= FifteenSeconds /\ Cleaned[i] = Missing
      <4>1. i \in Instances /\ server[i] = "dead" /\ deadFor[i] >= FifteenSeconds
        BY <1>1, <2>1, <3>1 DEF WatcherInv, GoneAreDropped
      <4>2. heartbeats[i] # Missing => heartbeats[i] >= HeartbeatExpire
        <5>1. heartbeats[i] # Missing => heartbeats[i] >= deadFor[i]
          BY <4>1 DEF ServersInv, DeadDoNotBeat
        <5> QED
          BY <4>1, <5>1, Types DEF HeartbeatExpire, FifteenSeconds
      <4> QED
        BY <4>1, <4>2 DEF Cleaned
    <3>2. watch[w].found = {}
      BY <1>1 DEF WatcherInv, GoneAreDropped
    <3> QED
      BY <1>1, <1>3, <3>1, <3>2 DEF GoneAreDropped, SameSearch, serverVars
  <2>3. ServingAreKept(w)'
    BY <1>1, <1>3, <2>1, CleanedOutlives
    DEF WatcherInv, ServingAreKept, SameSearch, serverVars
  <2>4. LastIsOnItsWay(w)'
    BY <1>1, <1>3 DEF WatcherInv, LastIsOnItsWay, SameSearch
  <2>5. ListIsCurrent(w)'
    BY <1>1, <1>3 DEF WatcherInv, ListIsCurrent, LongGone, SameSearch, serverVars
  <2> QED
    BY <2>2, <2>3, <2>4, <2>5 DEF WatcherInv
<1> QED
  BY <1>2, <1>3, CleanEffect

LEMMA WatcherAtRange ==
  ASSUME TypeOK, NEW w \in Watchers, WatcherInv(w), GetValidInstanceIDs(w)
  PROVE  WatcherInv(w)'
<1>1. watch[w].at = "range" /\ UNCHANGED <<redisVars, serverVars, ch, view>>
  BY RangeEffect
<1>2. CASE Quits(w)
  BY <1>1, <1>2, WatcherQuits
<1>3. CASE /\ watch'[w].at = "get" /\ SameSearch(w)
           /\ watch'[w].ids = {i \in watch[w].ids :
                  heartbeats[i] # Missing /\ heartbeats[i] =< HeartbeatExpire}
           /\ watch'[w].found = watch[w].found
  <2>1. watch[w].gone \subseteq Instances /\ watch[w].began \subseteq Instances
    BY DEF TypeOK, Watching
  <2>2. watch[w].found = {}
    BY <1>1 DEF WatcherInv, GoneAreDropped
  <2>3. GoneAreDropped(w)'
    BY <1>1, <1>3, <2>2 DEF WatcherInv, GoneAreDropped, SameSearch, serverVars, redisVars
  <2>4. ServingAreKept(w)'
    <3>1. ASSUME NEW i \in watch[w].began
          PROVE  /\ server[i] \in {"up", "dead"} /\ BeatOutlivesKey(i)
                 /\ keys[i] = Missing \/ i \in watch'[w].ids
      <4>1. /\ i \in Instances /\ server[i] \in {"up", "dead"} /\ BeatOutlivesKey(i)
            /\ i \in watch[w].ids
        BY <1>1, <2>1, <2>2, <3>1 DEF WatcherInv, ServingAreKept
      <4>2. ASSUME keys[i] # Missing
            PROVE  heartbeats[i] # Missing /\ heartbeats[i] =< HeartbeatExpire
        BY <4>1, <4>2, Types DEF BeatOutlivesKey, HeartbeatExpire
      <4> QED
        BY <1>3, <4>1, <4>2
    <3> QED
      BY <1>1, <1>3, <3>1
      DEF ServingAreKept, BeatOutlivesKey, SameSearch, serverVars, redisVars
  <2>5. LastIsOnItsWay(w)'
    BY <1>1, <1>3 DEF WatcherInv, LastIsOnItsWay, SameSearch
  <2>6. ListIsCurrent(w)'
    BY <1>1, <1>3 DEF WatcherInv, ListIsCurrent, LongGone, SameSearch, serverVars
  <2> QED
    BY <2>3, <2>4, <2>5, <2>6 DEF WatcherInv
<1> QED
  BY <1>2, <1>3, RangeEffect

LEMMA WatcherAtGet ==
  ASSUME TypeOK, NEW w \in Watchers, WatcherInv(w), NEW j \in Instances, GetInstance(w, j)
  PROVE  WatcherInv(w)'
<1>1. /\ watch[w].at = "get" /\ j \in watch[w].ids
      /\ UNCHANGED <<redisVars, serverVars, ch, view>>
  BY GetEffect
<1>2. CASE Quits(w)
  BY <1>1, <1>2, WatcherQuits
<1>3. CASE /\ watch'[w].at = "get" /\ SameSearch(w)
           /\ watch'[w].ids = watch[w].ids \ {j}
           /\ watch'[w].found \in {watch[w].found, watch[w].found \cup {j}}
           /\ keys[j] # Missing => j \in watch'[w].found
  <2>1. GoneAreDropped(w)'
    BY <1>1, <1>3 DEF WatcherInv, GoneAreDropped, SameSearch, serverVars, redisVars
  <2>2. ServingAreKept(w)'
    <3>1. ASSUME NEW i \in watch[w].began
          PROVE  /\ server[i] \in {"up", "dead"} /\ BeatOutlivesKey(i)
                 /\ keys[i] = Missing \/ i \in watch'[w].ids \cup watch'[w].found
      <4>1. /\ server[i] \in {"up", "dead"} /\ BeatOutlivesKey(i)
            /\ keys[i] = Missing \/ i \in watch[w].ids \cup watch[w].found
        BY <1>1, <3>1 DEF WatcherInv, ServingAreKept
      <4>2. CASE i = j
        BY <1>3, <4>1, <4>2
      <4>3. CASE i # j
        BY <1>3, <4>1, <4>3
      <4> QED
        BY <4>2, <4>3
    <3> QED
      BY <1>1, <1>3, <3>1
      DEF ServingAreKept, BeatOutlivesKey, SameSearch, serverVars, redisVars
  <2>3. LastIsOnItsWay(w)'
    BY <1>1, <1>3 DEF WatcherInv, LastIsOnItsWay, SameSearch
  <2>4. ListIsCurrent(w)'
    BY <1>1, <1>3 DEF WatcherInv, ListIsCurrent, LongGone, SameSearch, serverVars
  <2> QED
    BY <2>1, <2>2, <2>3, <2>4 DEF WatcherInv
<1> QED
  BY <1>2, <1>3, GetEffect

LEMMA WatcherAtReturn ==
  ASSUME TypeOK, NEW w \in Watchers, WatcherInv(w), DiscoverReturns(w)
  PROVE  WatcherInv(w)'
<1>1. /\ watch[w].at = "get" /\ UNCHANGED <<redisVars, serverVars, ch, view>>
      /\ watch'[w].at \in {"send", "select"}
      /\ watch'[w].first = watch[w].first /\ watch'[w].ticked = watch[w].ticked
      /\ watch'[w].last = watch[w].last /\ (watch'[w].current => ~watch[w].first)
      /\ watch'[w].at = "send" => watch'[w].found = watch[w].found
      /\ watch'[w].at = "select" => ~watch[w].first /\ watch[w].last = watch[w].found
  BY DoneEffect
<1>2. GoneAreDropped(w)' /\ ServingAreKept(w)'
  BY <1>1 DEF GoneAreDropped, ServingAreKept
<1>3. LastIsOnItsWay(w)'
  BY <1>1 DEF WatcherInv, LastIsOnItsWay
<1>4. ListIsCurrent(w)'
  <2>1. ASSUME watch'[w].current, ~watch'[w].ticked
        PROVE  watch[w].found \cap LongGone = {}
    BY <1>1, <2>1 DEF WatcherInv, ListIsCurrent, GoneAreDropped
  <2> QED
    BY <1>1, <2>1 DEF ListIsCurrent, LongGone, serverVars
<1> QED
  BY <1>2, <1>3, <1>4 DEF WatcherInv

LEMMA WatcherAtSend ==
  ASSUME TypeOK, NEW w \in Watchers, WatcherInv(w), Send(w)
  PROVE  WatcherInv(w)'
<1>1. /\ watch[w].at = "send" /\ ch' = [ch EXCEPT ![w] = Append(@, watch[w].found)]
      /\ UNCHANGED <<redisVars, serverVars, view>>
      /\ watch'[w].at = "select" /\ ~watch'[w].first
      /\ watch'[w].last = watch[w].found /\ watch[w].found \in SUBSET Instances
      /\ watch'[w].ticked = watch[w].ticked /\ watch'[w].current = watch[w].current
  BY SendEffect
<1>2. GoneAreDropped(w)' /\ ServingAreKept(w)'
  BY <1>1 DEF GoneAreDropped, ServingAreKept
<1>3. LastIsOnItsWay(w)'
  <2>1. ch \in [Watchers -> Seq(SUBSET Instances)]
    BY DEF TypeOK
  <2>2. ch'[w] = Append(ch[w], watch[w].found)
    BY <1>1, <2>1
  <2>3. ch'[w] # <<>> /\ ch'[w][Len(ch'[w])] = watch[w].found
    BY <1>1, <2>1, <2>2
  <2> QED
    BY <1>1, <2>3 DEF LastIsOnItsWay
<1>4. ListIsCurrent(w)'
  BY <1>1 DEF WatcherInv, ListIsCurrent, LongGone, serverVars
<1> QED
  BY <1>2, <1>3, <1>4 DEF WatcherInv

LEMMA LastOfTail ==
  ASSUME NEW S, NEW q \in Seq(S), q # <<>>, Len(q) # 1
  PROVE  Tail(q) # <<>> /\ Tail(q)[Len(Tail(q))] = q[Len(q)]
<1>1. Len(q) \in Nat \ {0}
  BY EmptySeq
<1>2. /\ Tail(q) \in Seq(S) /\ Len(Tail(q)) = Len(q) - 1
      /\ \A n \in 1 .. Len(Tail(q)) : Tail(q)[n] = q[n + 1]
  BY HeadTailProperties
<1>3. Len(Tail(q)) \in 1 .. Len(Tail(q)) /\ Len(Tail(q)) + 1 = Len(q)
  BY <1>1, <1>2
<1>4. Len(<<>>) = 0
  OBVIOUS
<1> QED
  BY <1>2, <1>3, <1>4

LEMMA WatcherAtReceive ==
  ASSUME TypeOK, NEW w \in Watchers, WatcherInv(w), Receive(w)
  PROVE  WatcherInv(w)'
<1>1. /\ ch[w] # <<>> /\ view' = [view EXCEPT ![w] = Head(ch[w])]
      /\ ch' = [ch EXCEPT ![w] = Tail(@)]
      /\ UNCHANGED <<redisVars, serverVars, watch>>
  BY DEF Receive
<1>2. ch \in [Watchers -> Seq(SUBSET Instances)] /\ view \in [Watchers -> SUBSET Instances]
  BY DEF TypeOK
<1>3. GoneAreDropped(w)' /\ ServingAreKept(w)' /\ ListIsCurrent(w)'
  BY <1>1 DEF WatcherInv, GoneAreDropped, ServingAreKept, BeatOutlivesKey, ListIsCurrent,
              LongGone, serverVars, redisVars
<1>4. LastIsOnItsWay(w)'
  <2>1. /\ ~watch[w].first /\ watch[w].last = ch[w][Len(ch[w])]
    BY <1>1 DEF WatcherInv, LastIsOnItsWay
  <2>2. ch'[w] = Tail(ch[w]) /\ view'[w] = Head(ch[w])
    BY <1>1, <1>2
  <2>3. PICK q \in Seq(SUBSET Instances) : q = ch[w]
    BY <1>2
  <2>4. CASE Len(q) = 1
    BY <1>1, <2>1, <2>2, <2>3, <2>4 DEF LastIsOnItsWay
  <2>5. CASE Len(q) # 1
    <3>1. Tail(q) # <<>> /\ Tail(q)[Len(Tail(q))] = q[Len(q)]
      BY <1>1, <2>3, <2>5, LastOfTail
    <3> QED
      BY <1>1, <2>1, <2>2, <2>3, <3>1 DEF LastIsOnItsWay
  <2> QED
    BY <2>4, <2>5
<1> QED
  BY <1>3, <1>4 DEF WatcherInv

LEMMA WatcherWaits ==
  ASSUME TypeOK, NEW w \in Watchers, WatcherInv(w), Waits(w)
  PROVE  WatcherInv(w)'
<1>1. /\ watch'[w].at \in {"members", "closed"}
      /\ UNCHANGED <<redisVars, serverVars, ch, view>>
      /\ watch'[w].first = watch[w].first /\ watch'[w].last = watch[w].last
      /\ watch'[w].current = watch[w].current
  BY WaitsEffect
<1>2. GoneAreDropped(w)' /\ ServingAreKept(w)' /\ ListIsCurrent(w)'
  BY <1>1 DEF GoneAreDropped, ServingAreKept, ListIsCurrent
<1>3. LastIsOnItsWay(w)'
  BY <1>1 DEF WatcherInv, LastIsOnItsWay
<1> QED
  BY <1>2, <1>3 DEF WatcherInv

-----------------------------------------------------------------------------
(* All of it. *)

LEMMA DiscoveryParts ==
  DiscoveryInv <=> TypeOK /\ ServersInv /\ \A w \in Watchers : WatcherInv(w)
BY DEF DiscoveryInv, ServersInv, WatcherInv

LEMMA DiscoveryStep ==
  ASSUME DiscoveryInv, [DiscoveryNext]_discoveryVars
  PROVE  DiscoveryInv'
<1>1. TypeOK /\ ServersInv /\ \A v \in Watchers : WatcherInv(v)
  BY DiscoveryParts
<1>2. TypeOK'
  BY <1>1, TypeStep
<1> SUFFICES ServersInv' /\ \A v \in Watchers : WatcherInv(v)'
  BY <1>2, DiscoveryParts DEF DiscoveryInv, ServersInv, WatcherInv
<1>3. ASSUME NEW i \in Instances, ServerNext(i)
      PROVE  ServersInv' /\ \A v \in Watchers : WatcherInv(v)'
  BY <1>1, <1>2, <1>3, ServersAtServerStep, WatcherAtServerStep
<1>4. ASSUME NEW w \in Watchers, WatchMoves(w)
      PROVE  ServersInv' /\ \A v \in Watchers : WatcherInv(v)'
  <2>1. /\ Others(w) /\ heartbeats' \in {heartbeats, Cleaned}
        /\ UNCHANGED <<keys, members, serverVars, ch, view>>
    BY <1>1, <1>4, MovesEffect
  <2>2. ServersInv'
    BY <1>1, <2>1, ServersAtWatchStep
  <2>3. ASSUME NEW v \in Watchers \ {w}
        PROVE  WatcherInv(v)'
    BY <1>1, <2>1, OtherWatcher DEF Others
  <2>4. WatcherInv(w)'
    BY <1>1, <1>4, WatcherAtMembers, WatcherAtClean, WatcherAtRange, WatcherAtGet,
       WatcherAtReturn, WatcherWaits DEF WatchMoves
  <2> QED
    BY <2>2, <2>3, <2>4
<1>5. ASSUME NEW w \in Watchers, Send(w) \/ Receive(w) \/ Cancel(w)
      PROVE  ServersInv' /\ \A v \in Watchers : WatcherInv(v)'
  <2>1. /\ Others(w) /\ UNCHANGED <<redisVars, serverVars>>
        /\ \A v \in Watchers \ {w} : ch'[v] = ch[v] /\ view'[v] = view[v]
    <3>1. /\ ch \in [Watchers -> Seq(SUBSET Instances)]
          /\ view \in [Watchers -> SUBSET Instances]
      BY <1>1 DEF TypeOK
    <3>2. CASE Send(w)
      BY <1>1, <3>1, <3>2, SendEffect
    <3>3. CASE Receive(w)
      BY <3>1, <3>3 DEF Receive, Others
    <3>4. CASE Cancel(w)
      BY <3>4 DEF Cancel, Others
    <3> QED
      BY <1>5, <3>2, <3>3, <3>4
  <2>2. UNCHANGED <<keys, members, heartbeats, serverVars>>
    BY <2>1 DEF redisVars
  <2>3. ServersInv'
    BY <1>1, <2>2, ServersAtWatchStep
  <2>4. ASSUME NEW v \in Watchers \ {w}
        PROVE  WatcherInv(v)'
    BY <1>1, <2>1, <2>2, OtherWatcher DEF Others
  <2>5. WatcherInv(w)'
    <3>1. CASE Cancel(w)
      <4>1. watch'[w] = watch[w] /\ ch'[w] = ch[w] /\ view'[w] = view[w]
        BY <3>1 DEF Cancel
      <4> QED
        BY <1>1, <2>2, <4>1, OtherWatcher
    <3> QED
      BY <1>1, <1>5, <3>1, WatcherAtSend, WatcherAtReceive
  <2> QED
    BY <2>3, <2>4, <2>5
<1>6. CASE Tick
  BY <1>1, <1>2, <1>6, ServersAtTick, WatcherAtTick
<1>7. CASE UNCHANGED discoveryVars
  <2>1. /\ UNCHANGED <<keys, members, heartbeats, serverVars>>
        /\ UNCHANGED <<watch, ch, view>>
    BY <1>7 DEF discoveryVars, redisVars, watchVars
  <2> QED
    BY <1>1, <2>1, ServersAtWatchStep, OtherWatcher
<1> QED
  BY <1>3, <1>4, <1>5, <1>6, <1>7, StepCases

LEMMA DiscoveryStart ==
  ASSUME DiscoveryInit
  PROVE  DiscoveryInv
<1>1. TypeOK
  BY TypeInit
<1>2. DeadDoNotBeat /\ ServersAreListed
  BY DEF DiscoveryInit, DeadDoNotBeat, ServersAreListed
<1>3. ASSUME NEW w \in Watchers
      PROVE  WatcherInv(w)
  <2>1. watch[w] = NewWatch /\ ch[w] = <<>>
    BY DEF DiscoveryInit
  <2>2. watch[w].at = "off" /\ watch[w].first /\ ~watch[w].current
    BY <2>1 DEF NewWatch
  <2> QED
    BY <2>1, <2>2
    DEF WatcherInv, GoneAreDropped, ServingAreKept, LastIsOnItsWay, ListIsCurrent
<1> QED
  BY <1>1, <1>2, <1>3, DiscoveryParts DEF ServersInv

(* The invariant: dead processes do not beat, heartbeats outlive keys, and *)
(* every Discover and every list on its way is right about who is gone.    *)
THEOREM DiscoveryCorrect == DiscoverySpec => []DiscoveryInv
BY DiscoveryStart, DiscoveryStep, PTL DEF DiscoverySpec

(* No Discover finds a server whose process had been gone for the whole of *)
(* the heartbeat timeout when it began.                                    *)
THEOREM GoneAreNotFound == DiscoverySpec => []DiscoveredWasAlive
<1>1. DiscoveryInv => DiscoveredWasAlive
  <2> SUFFICES ASSUME DiscoveryInv, NEW w \in Watchers, Answered(w)
               PROVE  watch[w].found \cap watch[w].gone = {}
    BY DEF DiscoveredWasAlive
  <2> QED
    BY DEF DiscoveryInv, GoneAreDropped, Answered, At
<1> QED
  BY <1>1, DiscoveryCorrect, PTL

(* Every Discover finds the servers that had registered when it began and  *)
(* whose keys live.                                                        *)
THEOREM RegisteredAreFound == DiscoverySpec => []FreshIsDiscovered
<1>1. DiscoveryInv => FreshIsDiscovered
  <2> SUFFICES ASSUME DiscoveryInv, NEW w \in Watchers, NEW i \in Instances,
                      Answered(w), i \in watch[w].began, keys[i] # Missing
               PROVE  i \in watch[w].found
    BY DEF FreshIsDiscovered
  <2> QED
    BY DEF DiscoveryInv, ServingAreKept, Answered, At
<1> QED
  BY <1>1, DiscoveryCorrect, PTL

(* Once ticks and lists are handled, the caller of Watch does not have a   *)
(* server in view that has been gone for fifteen seconds.                  *)
THEOREM ViewsAreCurrent == DiscoverySpec => []ViewIsCurrent
<1>1. DiscoveryInv => ViewIsCurrent
  <2> SUFFICES ASSUME DiscoveryInv, NEW w \in Watchers, NEW i \in Instances,
                      watch[w].at = "select", watch[w].current, ~watch[w].ticked,
                      ch[w] = <<>>, i \in view[w]
               PROVE  deadFor[i] < FifteenSeconds
    BY DEF ViewIsCurrent, At
  <2>1. watch[w].last = view[w] /\ watch[w].last \cap LongGone = {}
    BY DEF DiscoveryInv, LastIsOnItsWay, ListIsCurrent
  <2>2. ~(deadFor[i] >= FifteenSeconds)
    BY <2>1 DEF LongGone
  <2> QED
    BY <2>2, Types DEF DiscoveryInv, FifteenSeconds
<1> QED
  BY <1>1, DiscoveryCorrect, PTL

=============================================================================
