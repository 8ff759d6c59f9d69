---------------------------- MODULE UserAccounts ----------------------------
(***************************************************************************)
(* Accounts: the login server stores a session under a fresh token, the    *)
(* game server turns the token of an AUTH_REQUEST into a user.             *)
(*                                                                         *)
(* servers/login/loginserver.go, servers/game/player.go (HandleAuthRequest *)
(* and what it calls), manager.go.  A connection is also the Player object *)
(* made for it; its requests are handled one after the other.  Each action *)
(* of a handler is one Redis command and the code up to the next one, so   *)
(* other connections, a failing command and a crash of the game server fit *)
(* between any two.                                                        *)
(***************************************************************************)
EXTENDS RedisPool, FiniteSets

CONSTANTS
  Conns,       \* connections of the game server
  OpenIds,     \* identities of people: from the platform, or made of a device id
  Guests,      \* the openids that begin with "guest_"
  Tokens,      \* session ids
  MaxUid,      \* bound: user ids handed out
  MaxRequests, \* bound: AUTH_REQUESTs handled
  MaxMishaps,  \* bound: Redis commands that fail and restarts of the game server
  Nil

ASSUME ConstantsAreSane ==
  /\ Guests \subseteq OpenIds
  /\ MaxUid \in Nat /\ MaxRequests \in Nat /\ MaxMishaps \in Nat

\* What comes back from a command can be told apart, as a Go value and an error can.
ASSUME AnswersDiffer ==
  /\ Missing # Failed /\ "OK" # Failed
  /\ {Missing, Failed} \cap (OpenIds \cup 1..MaxUid) = {}
  /\ Missing \notin [value : OpenIds \cup 1..MaxUid, ttl : {0, 1}]
  /\ Failed # <<>> /\ Failed \notin [gold : Nat, nickname : OpenIds]
  /\ Nil \notin OpenIds \cup Conns \cup [openid : OpenIds, uid : 1..MaxUid, gold : Nat]

VARIABLES
  sessions,      \* Redis session:{token}
  openidToUid,   \* Redis openid_to_uid:{openid}
  users,         \* Redis user:{uid}
  userUid,       \* Redis global:user_uid
  life,          \* per connection: absent, open, closing, closed
  players,       \* the manager's map of connections
  uin_player,    \* the manager's map of users, to connections
  player,        \* per connection its Player
  pc,            \* per connection what its handler does next
  req,           \* per connection the locals of HandleAuthRequest
  told,          \* per connection the last successful AuthResponse
  requests, mishaps,
  odd,           \* openids whose first login was disturbed (history)
  excused        \* connections that logged in as two users, or were closed between
                 \* the two steps of OnPlayerUinSet (history)

redisVars == <<sessions, openidToUid, users, userUid>>
managerVars == <<life, players, uin_player>>
connVars == <<player, pc, req, told>>
history == <<odd, excused>>
accountVars == <<redisVars, managerVars, connVars, requests, mishaps, history>>

Uids == 1..MaxUid
Day == 1                \* the 24 hours of a session, as one step
InitialGold == 100

\* Of exp, gold, diamond and nickname, which are written and read together, gold
\* stands for the numbers; the nickname is the openid's.
InitialUser(o) == [gold |-> InitialGold, nickname |-> o]

NoHash == <<>>
NewPlayer == [uid |-> 0, openid |-> Nil, gold |-> 0]
NoRequest == [openid |-> Nil, uid |-> 0]

AccountInit ==
  /\ sessions = [t \in Tokens |-> Missing]
  /\ openidToUid = [o \in OpenIds |-> Missing]
  /\ users = [u \in Uids |-> NoHash]
  /\ userUid = 0
  /\ life = [c \in Conns |-> "absent"]
  /\ players = {}
  /\ uin_player = [u \in Uids |-> Nil]
  /\ player = [c \in Conns |-> NewPlayer]
  /\ pc = [c \in Conns |-> "idle"]
  /\ req = [c \in Conns |-> NoRequest]
  /\ told = [c \in Conns |-> Nil]
  /\ requests = 0
  /\ mishaps = 0
  /\ odd = {}
  /\ excused = {}

\* A command that fails is counted against MaxMishaps.
Spend(answer) ==
  /\ mishaps' = IF answer = Failed THEN mishaps + 1 ELSE mishaps
  /\ mishaps' =< MaxMishaps

-----------------------------------------------------------------------------
(* The login server *)

\* The token is a new UUID, which a client gets only if SETEX session:{token} went
\* well: when it failed nobody ever asks for that token.  Once a session has
\* expired its name stands for another token.
StoreSession(o, t) ==
  /\ sessions[t] = Missing
  /\ sessions' = SetJSON(sessions, t, o, Day).space
  /\ UNCHANGED <<openidToUid, users, userUid, managerVars, connVars, requests, mishaps,
                 history>>

\* External: what the platform answers to a client's token; an openid it vouches
\* for is no guest's.
ValidatePlatformToken(o) == o \notin Guests

ProcessGuestLogin(o, t) == o \in Guests /\ StoreSession(o, t)
ProcessNormalLogin(o, t) == ValidatePlatformToken(o) /\ StoreSession(o, t)

\* The 24 hours of a session are over: Redis drops the key.
SessionExpires(t) ==
  /\ sessions[t] # Missing
  /\ sessions' = [sessions EXCEPT ![t] = Missing]
  /\ UNCHANGED <<requests, openidToUid, users, userUid, managerVars, connVars,
                 mishaps, history>>

-----------------------------------------------------------------------------
(* Connections *)

Accept(c) ==
  /\ life[c] = "absent"
  /\ life' = [life EXCEPT ![c] = "open"]
  /\ players' = players \cup {c}
  /\ UNCHANGED <<requests, redisVars, uin_player, connVars, mishaps, history>>

\* DeletePlayer, deferred by handleConnection: out of players, then out of
\* uin_player under the uid the Player has by then.  The handler may be at work.
DeletePlayer(c) ==
  /\ life[c] = "open"
  /\ life' = [life EXCEPT ![c] = "closing"]
  /\ players' = players \ {c}
  /\ excused' = IF pc[c] = "store" THEN excused \cup {c} ELSE excused
  /\ UNCHANGED <<requests, redisVars, uin_player, connVars, mishaps, odd>>

DeleteUin(c) ==
  /\ life[c] = "closing"
  /\ life' = [life EXCEPT ![c] = "closed"]
  /\ uin_player' = [u \in Uids |-> IF u = player[c].uid THEN Nil ELSE uin_player[u]]
  /\ UNCHANGED <<requests, redisVars, players, connVars, mishaps, history>>

-----------------------------------------------------------------------------
(* HandleAuthRequest *)

Respond(c) ==
  /\ pc' = [pc EXCEPT ![c] = "idle"]
  /\ req' = [req EXCEPT ![c] = NoRequest]

Proceed(c, to, r) ==
  /\ pc' = [pc EXCEPT ![c] = to]
  /\ req' = [req EXCEPT ![c] = r]

\* validateSession: GET session:{token}.  A session is dropped by Redis and by
\* the comparison with ExpiresAt at the same time.
HandleAuthRequest(c, t) ==
  /\ life[c] # "absent" /\ pc[c] = "idle"
  /\ requests < MaxRequests
  /\ requests' = requests + 1
  /\ \E r \in Outcomes(sessions, GetJSON(sessions, t)) :
        /\ IF r.answer \in {Missing, Failed} THEN Respond(c)
           ELSE Proceed(c, "find", [openid |-> r.answer, uid |-> 0])
        /\ Spend(r.answer)
  /\ UNCHANGED <<redisVars, managerVars, player, told, history>>

\* Slip: every login of a guest is his first.
FindUserOfMember(c) ==
  /\ pc[c] = "find"
  /\ IF req[c].openid \in Guests \/ openidToUid[req[c].openid] = Missing
     THEN Proceed(c, "uid", req[c])
     ELSE Proceed(c, "found", [req[c] EXCEPT !.uid = openidToUid[req[c].openid].value])
  /\ UNCHANGED <<requests, redisVars, managerVars, player, told, mishaps, history>>

\* A connection is on its way through the first login of an openid.
FirstLogin(c, o) == pc[c] \in {"uid", "map", "hash"} /\ req[c].openid = o

\* findOrCreateUserByOpenID: GET openid_to_uid.  Whatever goes wrong with the
\* command counts as a user that does not exist.
FindUser(c) ==
  LET o == req[c].openid IN
  /\ pc[c] = "find"
  /\ \E r \in Outcomes(openidToUid, GetString(openidToUid, o)) :
        /\ IF r.answer \in {Missing, Failed} THEN Proceed(c, "uid", req[c])
           ELSE Proceed(c, "found", [req[c] EXCEPT !.uid = r.answer])
        /\ odd' = IF r.answer = Failed \/ \E d \in Conns \ {c} : FirstLogin(d, o)
                  THEN odd \cup {o} ELSE odd
        /\ Spend(r.answer)
  /\ UNCHANGED <<requests, redisVars, managerVars, player, told, excused>>

\* Slip: the error of INCR is ignored and the uid is 0.
GenerateUidUnchecked(c) ==
  /\ pc[c] = "uid"
  /\ userUid < MaxUid
  /\ \E r \in Outcomes(userUid, Incr(userUid)) :
        /\ userUid' = r.space
        /\ Proceed(c, "map", [req[c] EXCEPT !.uid = IF r.answer = Failed THEN 0 ELSE r.answer])
        /\ Spend(r.answer)
  /\ UNCHANGED <<requests, sessions, openidToUid, users, managerVars, player, told, history>>

\* Slip: when INCR reports an error the server counts on by itself.
GenerateUidLocally(c) ==
  /\ pc[c] = "uid"
  /\ userUid < MaxUid
  /\ \E r \in Outcomes(userUid, Incr(userUid)) :
        /\ userUid' = r.space
        /\ Proceed(c, "map", [req[c] EXCEPT !.uid = userUid + 1])
        /\ Spend(r.answer)
  /\ UNCHANGED <<requests, sessions, openidToUid, users, managerVars, player, told, history>>

\* generateNewUserId: INCR global:user_uid.
GenerateNewUserId(c) ==
  /\ pc[c] = "uid"
  /\ userUid < MaxUid
  /\ \E r \in Outcomes(userUid, Incr(userUid)) :
        /\ userUid' = r.space
        /\ IF r.answer = Failed THEN Respond(c)
           ELSE Proceed(c, "map", [req[c] EXCEPT !.uid = r.answer])
        /\ Spend(r.answer)
  /\ UNCHANGED <<requests, sessions, openidToUid, users, managerVars, player, told,
                 history>>

\* SET openid_to_uid.
MapOpenid(c) ==
  LET o == req[c].openid IN
  /\ pc[c] = "map"
  /\ \E r \in Outcomes(openidToUid, Set(openidToUid, o, req[c].uid)) :
        /\ openidToUid' = r.space
        /\ IF r.answer = Failed THEN Respond(c) ELSE Proceed(c, "hash", req[c])
        /\ odd' = IF r.answer = Failed THEN odd \cup {o} ELSE odd
        /\ Spend(r.answer)
  /\ UNCHANGED <<requests, sessions, users, userUid, managerVars, player, told,
                 excused>>

\* What HandleAuthRequest sets once it has the user.
SetPlayer(c) ==
  /\ player' = [player EXCEPT ![c] = [@ EXCEPT !.uid = req[c].uid,
                                               !.openid = req[c].openid]]
  /\ excused' = IF player[c].uid \in {0, req[c].uid} THEN excused ELSE excused \cup {c}

\* Slip: the new user is returned without being saved.
SaveNothing(c) ==
  /\ pc[c] = "hash"
  /\ Proceed(c, "load", req[c])
  /\ SetPlayer(c)
  /\ UNCHANGED <<requests, redisVars, managerVars, told, mishaps, odd>>

\* saveUserDataToRedis: HMSET user:{uid}.
SaveUserData(c) ==
  LET o == req[c].openid  u == req[c].uid IN
  /\ pc[c] = "hash"
  /\ \E r \in Outcomes(users, HMSet(users, u, InitialUser(o))) :
        /\ users' = r.space
        /\ IF r.answer = Failed THEN Respond(c) /\ UNCHANGED <<player, excused>>
           ELSE Proceed(c, "load", req[c]) /\ SetPlayer(c)
        /\ odd' = IF r.answer = Failed THEN odd \cup {o} ELSE odd
        /\ Spend(r.answer)
  /\ UNCHANGED <<requests, sessions, openidToUid, userUid, managerVars, told>>

\* loadUserDataFromRedis of a user that exists, within findOrCreateUserByOpenID.
LoadFound(c) ==
  /\ pc[c] = "found"
  /\ \E r \in Outcomes(users, HGetAll(users, req[c].uid)) :
        /\ IF r.answer = Failed THEN Respond(c) /\ UNCHANGED <<player, excused>>
           ELSE Proceed(c, "load", req[c]) /\ SetPlayer(c)
        /\ Spend(r.answer)
  /\ UNCHANGED <<requests, redisVars, managerVars, told, odd>>

\* loadUserDataFromRedis again.  When it fails the Player stays authenticated.
LoadUserData(c) ==
  /\ pc[c] = "load"
  /\ \E r \in Outcomes(users, HGetAll(users, player[c].uid)) :
        /\ IF r.answer = Failed THEN Respond(c) /\ UNCHANGED player
           ELSE /\ Proceed(c, "lookup", req[c])
                /\ player' = [player EXCEPT ![c].gold = NumberIn(r.answer, "gold")]
        /\ Spend(r.answer)
  /\ UNCHANGED <<requests, redisVars, managerVars, told, history>>

\* sendAuthSuccessResponse
SendAuthSuccessResponse(c) ==
  /\ told' = [told EXCEPT ![c] = [openid |-> player[c].openid, uid |-> player[c].uid,
                                  gold |-> player[c].gold]]
  /\ Respond(c)

\* Slip: OnPlayerUinSet stores the Player of its caller.
LookUpNothing(c) ==
  /\ pc[c] = "lookup"
  /\ Proceed(c, "store", req[c])
  /\ UNCHANGED <<requests, redisVars, managerVars, player, told, mishaps, history>>

\* OnPlayerUinSet: a load from one map, a store in the other.
LookUpPlayer(c) ==
  /\ pc[c] = "lookup"
  /\ IF c \in players THEN Proceed(c, "store", req[c]) /\ UNCHANGED told
     ELSE SendAuthSuccessResponse(c)
  /\ UNCHANGED <<requests, redisVars, managerVars, player, mishaps, history>>

StorePlayer(c) ==
  /\ pc[c] = "store"
  /\ uin_player' = [uin_player EXCEPT ![player[c].uid] = c]
  /\ SendAuthSuccessResponse(c)
  /\ UNCHANGED <<requests, redisVars, life, players, player, mishaps, history>>

-----------------------------------------------------------------------------
\* The game server's process ends and is started again: memory is gone, Redis is
\* not, and the names of the connections stand for new ones.  A first login that had mapped its openid is left without a user.
Crash ==
  /\ mishaps < MaxMishaps
  /\ mishaps' = mishaps + 1
  /\ odd' = odd \cup {req[c].openid : c \in {d \in Conns : pc[d] = "hash"}}
  /\ excused' = {}
  /\ life' = [c \in Conns |-> "absent"]
  /\ players' = {}
  /\ uin_player' = [u \in Uids |-> Nil]
  /\ player' = [c \in Conns |-> NewPlayer]
  /\ pc' = [c \in Conns |-> "idle"]
  /\ req' = [c \in Conns |-> NoRequest]
  /\ told' = [c \in Conns |-> Nil]
  /\ UNCHANGED <<requests, redisVars>>

LoginNext ==
  \/ \E o \in OpenIds, t \in Tokens : ProcessGuestLogin(o, t) \/ ProcessNormalLogin(o, t)
  \/ \E t \in Tokens : SessionExpires(t)

HandlerNext(c) ==
  \/ \E t \in Tokens : HandleAuthRequest(c, t)
  \/ FindUser(c) \/ GenerateNewUserId(c) \/ MapOpenid(c) \/ SaveUserData(c)
  \/ LoadFound(c) \/ LoadUserData(c) \/ LookUpPlayer(c) \/ StorePlayer(c)

AccountNext ==
  \/ LoginNext
  \/ \E c \in Conns : \/ Accept(c) \/ DeletePlayer(c) \/ DeleteUin(c)
                      \/ HandlerNext(c)
  \/ Crash

AccountSpec == AccountInit /\ [][AccountNext]_accountVars

-----------------------------------------------------------------------------
(* Properties *)

TypeOK ==
  /\ sessions \in [Tokens -> {Missing} \cup [value : OpenIds, ttl : 0..Day]]
  /\ openidToUid \in [OpenIds -> {Missing} \cup [value : Uids, ttl : {0}]]
  /\ users \in [Uids -> {NoHash} \cup {InitialUser(o) : o \in OpenIds}]
  /\ userUid \in 0..MaxUid
  /\ life \in [Conns -> {"absent", "open", "closing", "closed"}]
  /\ players \subseteq Conns
  /\ uin_player \in [Uids -> Conns \cup {Nil}]
  /\ player \in [Conns -> [uid : 0..MaxUid, openid : OpenIds \cup {Nil},
                           gold : Nat]]
  /\ pc \in [Conns -> {"idle", "find", "uid", "map", "hash", "found", "load",
                       "lookup", "store"}]
  /\ req \in [Conns -> [openid : OpenIds \cup {Nil}, uid : 0..MaxUid]]
  /\ told \in [Conns -> {Nil} \cup [openid : OpenIds, uid : Uids, gold : Nat]]
  /\ requests \in 0..MaxRequests
  /\ mishaps \in 0..MaxMishaps
  /\ odd \subseteq OpenIds
  /\ excused \subseteq Conns

\* Two people never get the same user, whatever commands fail, however their first
\* logins interleave and whenever the server restarts: INCR hands every uid out once
\* and a uid is mapped by one login only.
NoSharedAccount ==
  \A o, q \in OpenIds :
    o # q /\ openidToUid[o] # Missing /\ openidToUid[q] # Missing
      => openidToUid[o].value # openidToUid[q].value

\* Whoever is told that a login succeeded is told the user his openid is mapped to,
\* with what that user was given, unless a first login of that openid met another
\* one, a failing command or a restart.
SameAccountEveryLogin ==
  \A c \in Conns :
    told[c] # Nil /\ told[c].openid \notin odd =>
      LET account == openidToUid[told[c].openid] IN
      /\ account # Missing
      /\ account.value = told[c].uid
      /\ told[c].gold = InitialGold

\* An entry of uin_player leads to a connection that is gone only if that
\* connection logged in as two users, or was closed between the two steps of
\* OnPlayerUinSet.
DeadEntryIsExcused ==
  \A u \in Uids, c \in Conns :
    uin_player[u] = c /\ life[c] = "closed" => c \in excused

\* What the accounts promise, whichever commands they are made of.
NoAccount == 0
Directory == INSTANCE AccountDirectory WITH
  people <- OpenIds,
  ids <- Uids,
  owner <- [o \in OpenIds |-> IF openidToUid[o] = Missing THEN NoAccount
                              ELSE openidToUid[o].value],
  fresh <- {u \in Uids : u > userUid} \cup {req[c].uid : c \in {d \in Conns : pc[d] = "map"}},
  disturbed <- odd

AccountsAreKept == Directory!Spec

=============================================================================
