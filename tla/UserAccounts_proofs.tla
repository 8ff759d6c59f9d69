------------------------- MODULE UserAccounts_proofs -------------------------
(* Nobody gets somebody else's user, everybody keeps his own, and the logins    *)
(* implement the account directory, for any number of connections, people,      *)
(* users, failing commands and restarts.                                        *)
EXTENDS UserAccounts, TLAPS

-----------------------------------------------------------------------------
(* What a command comes to. *)

LEMMA OutcomeCases ==
  ASSUME NEW space, NEW done, NEW r \in Outcomes(space, done)
  PROVE  \/ r = done
         \/ r.answer = Failed /\ r.space = space
         \/ r.answer = Failed /\ r.space = done.space
BY DEF Outcomes, Reply

(* HMSET writes a new user's hash as it is, whether there was one or not. *)
LEMMA OverlayIsInitialUser ==
  ASSUME NEW o \in OpenIds, NEW h \in {NoHash} \cup {InitialUser(q) : q \in OpenIds}
  PROVE  Overlay(h, InitialUser(o)) = InitialUser(o)
<1>1. DOMAIN h \cup DOMAIN InitialUser(o) = DOMAIN InitialUser(o)
  BY DEF NoHash, InitialUser
<1>2. Overlay(h, InitialUser(o)) = [f \in DOMAIN InitialUser(o) |-> InitialUser(o)[f]]
  BY <1>1 DEF Overlay
<1> QED
  BY <1>2 DEF InitialUser

(* A hash of Redis is never taken for an error. *)
LEMMA HashIsNoError ==
  ASSUME NEW h \in {NoHash} \cup {InitialUser(q) : q \in OpenIds}
  PROVE  h # Failed /\ NumberIn(h, "gold") \in Nat
BY AnswersDiffer DEF NoHash, InitialUser, InitialGold, NumberIn

-----------------------------------------------------------------------------
(* What each step of a login comes to, for typed variables. *)

AfterFind(c) ==
  LET o == req[c].openid IN
  \/ /\ openidToUid[o] # Missing
     /\ pc' = [pc EXCEPT ![c] = "found"]
     /\ req' = [req EXCEPT ![c] = [openid |-> o, uid |-> openidToUid[o].value]]
  \/ /\ openidToUid[o] # Missing => o \in odd'
     /\ pc' = [pc EXCEPT ![c] = "uid"]
     /\ req' = req

LEMMA FindEffect ==
  ASSUME TypeOK, NEW c \in Conns, req[c].openid \in OpenIds, FindUser(c)
  PROVE  /\ AfterFind(c)
         /\ odd' \in {odd, odd \cup {req[c].openid}}
         /\ (\E d \in Conns \ {c} : FirstLogin(d, req[c].openid)) => req[c].openid \in odd'
         /\ mishaps' \in 0..MaxMishaps
<1> DEFINE o == req[c].openid
<1>1. PICK r \in Outcomes(openidToUid, GetString(openidToUid, o)) :
        /\ IF r.answer \in {Missing, Failed} THEN Proceed(c, "uid", req[c])
           ELSE Proceed(c, "found", [req[c] EXCEPT !.uid = r.answer])
        /\ odd' = IF r.answer = Failed \/ \E d \in Conns \ {c} : FirstLogin(d, o)
                  THEN odd \cup {o} ELSE odd
        /\ Spend(r.answer)
  BY DEF FindUser
<1>2. \/ r.answer = Failed
      \/ r.answer = Missing /\ openidToUid[o] = Missing
      \/ r.answer = openidToUid[o].value /\ openidToUid[o] # Missing
         /\ openidToUid[o].value \in Uids
  BY <1>1, OutcomeCases DEF GetString, Reply, TypeOK
<1>3. mishaps' \in 0..MaxMishaps
  BY <1>1, ConstantsAreSane DEF Spend, TypeOK
<1>4. req = [req EXCEPT ![c] = req[c]]
  BY DEF TypeOK
<1>5. \A u : [req[c] EXCEPT !.uid = u] = [openid |-> o, uid |-> u]
  BY DEF TypeOK
<1>6. AfterFind(c)
  BY <1>5, <1>1, <1>2, <1>4, AnswersDiffer DEF AfterFind, Proceed, Uids, TypeOK
<1> QED
  BY <1>1, <1>3, <1>6

AfterGenerate(c) ==
  \/ /\ userUid' = userUid + 1
     /\ pc' = [pc EXCEPT ![c] = "map"]
     /\ req' = [req EXCEPT ![c] = [openid |-> req[c].openid, uid |-> userUid + 1]]
  \/ userUid' \in {userUid, userUid + 1} /\ Respond(c)

LEMMA GenerateEffect ==
  ASSUME TypeOK, NEW c \in Conns, GenerateNewUserId(c)
  PROVE  /\ AfterGenerate(c)
         /\ userUid \in 0..MaxUid /\ userUid + 1 \in 1..MaxUid
         /\ mishaps' \in 0..MaxMishaps
<1>1. PICK r \in Outcomes(userUid, Incr(userUid)) :
        /\ userUid' = r.space
        /\ IF r.answer = Failed THEN Respond(c)
           ELSE Proceed(c, "map", [req[c] EXCEPT !.uid = r.answer])
        /\ Spend(r.answer)
  BY DEF GenerateNewUserId
<1>2. userUid \in 0..MaxUid /\ userUid < MaxUid /\ MaxUid \in Nat
  BY ConstantsAreSane DEF GenerateNewUserId, TypeOK
<1>3. Count(userUid) = userUid
  BY <1>2, AnswersDiffer DEF Count
<1>4. \/ r.answer = Failed /\ r.space \in {userUid, userUid + 1}
      \/ r.answer = userUid + 1 /\ r.space = userUid + 1
  BY <1>1, <1>3, OutcomeCases DEF Incr, Reply
<1>5. mishaps' \in 0..MaxMishaps
  BY <1>1, ConstantsAreSane DEF Spend, TypeOK
<1>6. \A u : [req[c] EXCEPT !.uid = u] = [openid |-> req[c].openid, uid |-> u]
  BY DEF TypeOK
<1>7. AfterGenerate(c)
  BY <1>6, <1>1, <1>2, <1>4, AnswersDiffer DEF AfterGenerate, Proceed, TypeOK
<1> QED
  BY <1>2, <1>5, <1>7

MappedTo(o, u) == openidToUid' = [openidToUid EXCEPT ![o] = [value |-> u, ttl |-> 0]]

AfterMap(c) ==
  LET o == req[c].openid IN
  \/ /\ MappedTo(o, req[c].uid)
     /\ pc' = [pc EXCEPT ![c] = "hash"]
     /\ req' = req /\ odd' = odd
  \/ /\ openidToUid' = openidToUid \/ MappedTo(o, req[c].uid)
     /\ odd' = odd \cup {o}
     /\ Respond(c)

LEMMA MapEffect ==
  ASSUME TypeOK, NEW c \in Conns, MapOpenid(c)
  PROVE  AfterMap(c) /\ mishaps' \in 0..MaxMishaps
<1> DEFINE o == req[c].openid
<1>1. PICK r \in Outcomes(openidToUid, Set(openidToUid, o, req[c].uid)) :
        /\ openidToUid' = r.space
        /\ IF r.answer = Failed THEN Respond(c) ELSE Proceed(c, "hash", req[c])
        /\ odd' = IF r.answer = Failed THEN odd \cup {o} ELSE odd
        /\ Spend(r.answer)
  BY DEF MapOpenid
<1> DEFINE done == Set(openidToUid, o, req[c].uid)
<1>2. /\ done.space = [openidToUid EXCEPT ![o] = [value |-> req[c].uid, ttl |-> 0]]
      /\ done.answer = "OK"
  BY DEF Set, SetEx, Reply
<1>3. r = done \/ (r.answer = Failed /\ r.space \in {openidToUid, done.space})
  BY OutcomeCases
<1>4. \/ r.answer = Failed /\ (openidToUid' = openidToUid \/ MappedTo(o, req[c].uid))
      \/ r.answer = "OK" /\ MappedTo(o, req[c].uid)
  <2> HIDE DEF done
  <2> QED
    BY <1>1, <1>2, <1>3 DEF MappedTo
<1>5. mishaps' \in 0..MaxMishaps
  BY <1>1, ConstantsAreSane DEF Spend, TypeOK
<1>6. req = [req EXCEPT ![c] = req[c]]
  BY DEF TypeOK
<1> QED
  BY <1>1, <1>2, <1>4, <1>5, <1>6, AnswersDiffer DEF AfterMap, Proceed

UserWritten(c) == users' = [users EXCEPT ![req[c].uid] = InitialUser(req[c].openid)]

AfterSave(c) ==
  \/ /\ UserWritten(c)
     /\ pc' = [pc EXCEPT ![c] = "load"]
     /\ req' = req /\ odd' = odd
     /\ SetPlayer(c)
  \/ /\ users' = users \/ UserWritten(c)
     /\ odd' = odd \cup {req[c].openid}
     /\ Respond(c)
     /\ UNCHANGED <<player, excused>>

LEMMA SaveEffect ==
  ASSUME TypeOK, NEW c \in Conns, req[c].openid \in OpenIds, req[c].uid \in Uids,
         SaveUserData(c)
  PROVE  AfterSave(c) /\ mishaps' \in 0..MaxMishaps
<1> DEFINE o == req[c].openid
           u == req[c].uid
<1>1. PICK r \in Outcomes(users, HMSet(users, u, InitialUser(o))) :
        /\ users' = r.space
        /\ IF r.answer = Failed THEN Respond(c) /\ UNCHANGED <<player, excused>>
           ELSE Proceed(c, "load", req[c]) /\ SetPlayer(c)
        /\ odd' = IF r.answer = Failed THEN odd \cup {o} ELSE odd
        /\ Spend(r.answer)
  BY DEF SaveUserData
<1>2. users[u] \in {NoHash} \cup {InitialUser(q) : q \in OpenIds}
  BY DEF TypeOK
<1>3. HMSet(users, u, InitialUser(o)).space = [users EXCEPT ![u] = InitialUser(o)]
  BY <1>2, OverlayIsInitialUser DEF HMSet, Reply
<1>4. \/ r.answer = Failed /\ (r.space = users \/ r.space = [users EXCEPT ![u] = InitialUser(o)])
      \/ r.answer = "OK" /\ r.space = [users EXCEPT ![u] = InitialUser(o)]
  BY <1>1, <1>3, OutcomeCases DEF HMSet, Reply
<1>5. mishaps' \in 0..MaxMishaps
  BY <1>1, ConstantsAreSane DEF Spend, TypeOK
<1>6. req = [req EXCEPT ![c] = req[c]]
  BY DEF TypeOK
<1> QED
  BY <1>1, <1>4, <1>5, <1>6, AnswersDiffer DEF AfterSave, UserWritten, Proceed

AfterLoadFound(c) ==
  \/ /\ pc' = [pc EXCEPT ![c] = "load"]
     /\ req' = req
     /\ SetPlayer(c)
  \/ Respond(c) /\ UNCHANGED <<player, excused>>

LEMMA LoadFoundEffect ==
  ASSUME TypeOK, NEW c \in Conns, LoadFound(c)
  PROVE  AfterLoadFound(c) /\ mishaps' \in 0..MaxMishaps
<1>1. PICK r \in Outcomes(users, HGetAll(users, req[c].uid)) :
        /\ IF r.answer = Failed THEN Respond(c) /\ UNCHANGED <<player, excused>>
           ELSE Proceed(c, "load", req[c]) /\ SetPlayer(c)
        /\ Spend(r.answer)
  BY DEF LoadFound
<1>2. mishaps' \in 0..MaxMishaps
  BY <1>1, ConstantsAreSane DEF Spend, TypeOK
<1>3. req = [req EXCEPT ![c] = req[c]]
  BY DEF TypeOK
<1> QED
  BY <1>1, <1>2, <1>3 DEF AfterLoadFound, Proceed

AfterLoad(c) ==
  \/ /\ pc' = [pc EXCEPT ![c] = "lookup"]
     /\ req' = req
     /\ player' = [player EXCEPT ![c].gold = NumberIn(users[player[c].uid], "gold")]
  \/ Respond(c) /\ player' = player

LEMMA LoadEffect ==
  ASSUME TypeOK, NEW c \in Conns, LoadUserData(c)
  PROVE  AfterLoad(c) /\ mishaps' \in 0..MaxMishaps
<1>1. PICK r \in Outcomes(users, HGetAll(users, player[c].uid)) :
        /\ IF r.answer = Failed THEN Respond(c) /\ UNCHANGED player
           ELSE /\ Proceed(c, "lookup", req[c])
                /\ player' = [player EXCEPT ![c].gold = NumberIn(r.answer, "gold")]
        /\ Spend(r.answer)
  BY DEF LoadUserData
<1>2. r.answer = Failed \/ r.answer = users[player[c].uid]
  BY <1>1, OutcomeCases DEF HGetAll, Reply
<1>3. mishaps' \in 0..MaxMishaps
  BY <1>1, ConstantsAreSane DEF Spend, TypeOK
<1>4. req = [req EXCEPT ![c] = req[c]]
  BY DEF TypeOK
<1> QED
  BY <1>1, <1>2, <1>3, <1>4 DEF AfterLoad, Proceed

AfterAuth(c) ==
  \/ /\ pc' = [pc EXCEPT ![c] = "find"]
     /\ \E o \in OpenIds : req' = [req EXCEPT ![c] = [openid |-> o, uid |-> 0]]
  \/ Respond(c)

LEMMA AuthEffect ==
  ASSUME TypeOK, NEW c \in Conns, NEW t \in Tokens, HandleAuthRequest(c, t)
  PROVE  AfterAuth(c) /\ mishaps' \in 0..MaxMishaps /\ requests' \in 0..MaxRequests
<1>1. PICK r \in Outcomes(sessions, GetJSON(sessions, t)) :
        /\ IF r.answer \in {Missing, Failed} THEN Respond(c)
           ELSE Proceed(c, "find", [openid |-> r.answer, uid |-> 0])
        /\ Spend(r.answer)
  BY DEF HandleAuthRequest
<1>2. r.answer \in {Missing, Failed} \cup OpenIds
  BY <1>1, OutcomeCases DEF GetJSON, GetString, Reply, TypeOK
<1>3. mishaps' \in 0..MaxMishaps
  BY <1>1, ConstantsAreSane DEF Spend, TypeOK
<1>4. requests' \in 0..MaxRequests
  BY ConstantsAreSane DEF HandleAuthRequest, TypeOK
<1> QED
  BY <1>1, <1>2, <1>3, <1>4 DEF AfterAuth, Proceed

-----------------------------------------------------------------------------
(* Types.  A response takes its user from the Player, the Player from the request, *)
(* so that TypeOK needs what is known of a request at each step.                   *)

AtUser == {"map", "hash", "found", "load", "lookup", "store"}
AtPlayer == {"load", "lookup", "store"}

RequestsAreTyped ==
  /\ \A c \in Conns : pc[c] # "idle" => req[c].openid \in OpenIds
  /\ \A c \in Conns : pc[c] \in AtUser => req[c].uid \in Uids
  /\ \A c \in Conns : pc[c] \in AtPlayer
       => player[c].uid = req[c].uid /\ player[c].openid = req[c].openid

TypeInv == TypeOK /\ RequestsAreTyped

LEMMA TypeInvInit == AccountInit => TypeInv
BY ConstantsAreSane DEF AccountInit, TypeInv, TypeOK, RequestsAreTyped, AtUser, AtPlayer,
   NewPlayer, NoRequest, NoHash, Uids

PCs == [Conns -> {"idle", "find", "uid", "map", "hash", "found", "load", "lookup", "store"}]
Locals == [Conns -> [openid : OpenIds \cup {Nil}, uid : 0..MaxUid]]

LEMMA NoRequestTyped == NoRequest \in [openid : OpenIds \cup {Nil}, uid : 0..MaxUid]
BY ConstantsAreSane DEF NoRequest

LEMMA RespondTyped ==
  ASSUME TypeInv, NEW c \in Conns, Respond(c), player' = player
  PROVE  RequestsAreTyped' /\ pc' \in PCs /\ req' \in Locals
BY NoRequestTyped DEF PCs, Locals, TypeInv, TypeOK, RequestsAreTyped, Respond, AtUser, AtPlayer

LEMMA ProceedTyped ==
  ASSUME TypeInv, NEW c \in Conns, NEW at \in {"find", "uid", "map", "hash", "found"},
         NEW o \in OpenIds, NEW u \in 0..MaxUid,
         at \in AtUser => u \in Uids,
         pc' = [pc EXCEPT ![c] = at], req' = [req EXCEPT ![c] = [openid |-> o, uid |-> u]],
         player' = player
  PROVE  RequestsAreTyped' /\ pc' \in PCs /\ req' \in Locals
<1>1. [openid |-> o, uid |-> u] \in [openid : OpenIds \cup {Nil}, uid : 0..MaxUid]
  OBVIOUS
<1>2. pc' \in PCs /\ req' \in Locals
  BY <1>1 DEF PCs, Locals, TypeInv, TypeOK
<1>3. pc'[c] = at /\ req'[c] = [openid |-> o, uid |-> u]
  BY DEF TypeInv, TypeOK
<1>4. \A d \in Conns : d # c => pc'[d] = pc[d] /\ req'[d] = req[d]
  BY DEF TypeInv, TypeOK
<1> QED
  BY <1>2, <1>3, <1>4 DEF TypeInv, RequestsAreTyped, AtUser, AtPlayer

LEMMA SetPlayerTyped ==
  ASSUME TypeInv, NEW c \in Conns, SetPlayer(c), req[c].openid \in OpenIds, req[c].uid \in Uids,
         pc' = [pc EXCEPT ![c] = "load"], req' = req
  PROVE  /\ player' \in [Conns -> [uid : 0..MaxUid, openid : OpenIds \cup {Nil}, gold : Nat]]
         /\ excused' \subseteq Conns
         /\ pc' \in PCs
         /\ RequestsAreTyped'
<1> DEFINE new == [player[c] EXCEPT !.uid = req[c].uid, !.openid = req[c].openid]
<1>1. /\ new \in [uid : 0..MaxUid, openid : OpenIds \cup {Nil}, gold : Nat]
      /\ new.uid = req[c].uid /\ new.openid = req[c].openid
  <2>1. player[c] \in [uid : 0..MaxUid, openid : OpenIds \cup {Nil}, gold : Nat]
    BY DEF TypeInv, TypeOK
  <2>2. req[c].uid \in 0..MaxUid
    BY DEF TypeInv, TypeOK
  <2> QED
    BY <2>1, <2>2
<1>2. player' = [player EXCEPT ![c] = new]
  BY DEF SetPlayer
<1> HIDE DEF new
<1>3. player' \in [Conns -> [uid : 0..MaxUid, openid : OpenIds \cup {Nil}, gold : Nat]]
  BY <1>1, <1>2 DEF TypeInv, TypeOK
<1>4. pc' \in PCs /\ excused' \subseteq Conns
  BY DEF SetPlayer, PCs, TypeInv, TypeOK
<1>5. pc'[c] = "load" /\ player'[c] = new
  BY <1>2 DEF TypeInv, TypeOK
<1>6. \A d \in Conns : d # c => pc'[d] = pc[d] /\ player'[d] = player[d]
  BY <1>2 DEF TypeInv, TypeOK
<1> QED
  BY <1>1, <1>3, <1>4, <1>5, <1>6 DEF TypeInv, RequestsAreTyped, AtUser, AtPlayer

LEMMA SuccessTyped ==
  ASSUME TypeInv, NEW c \in Conns, pc[c] \in AtPlayer, SendAuthSuccessResponse(c)
  PROVE  told' \in [Conns -> {Nil} \cup [openid : OpenIds, uid : Uids, gold : Nat]]
<1>1. player[c].openid \in OpenIds /\ player[c].uid \in Uids /\ player[c].gold \in Nat
  BY DEF TypeInv, TypeOK, RequestsAreTyped, AtUser, AtPlayer
<1> QED
  BY <1>1 DEF TypeInv, TypeOK, SendAuthSuccessResponse

LEMMA TypeInvStep == TypeInv /\ [AccountNext]_accountVars => TypeInv'
<1> SUFFICES ASSUME TypeInv, [AccountNext]_accountVars
             PROVE  TypeInv'
  OBVIOUS
<1> USE DEF redisVars, managerVars, connVars, history
<1>1. ASSUME NEW o \in OpenIds, NEW t \in Tokens, StoreSession(o, t)
      PROVE  TypeInv'
  <2>1. sessions' = [sessions EXCEPT ![t] = [value |-> o, ttl |-> 1]]
    BY <1>1 DEF StoreSession, SetJSON, SetEx, Reply, Day
  <2> QED
    BY <1>1, <2>1 DEF StoreSession, Day, TypeInv, TypeOK, RequestsAreTyped
<1>2. ASSUME NEW t \in Tokens, SessionExpires(t)
      PROVE  TypeInv'
  BY <1>2 DEF SessionExpires, TypeInv, TypeOK, RequestsAreTyped
<1>3. ASSUME NEW c \in Conns, Accept(c) \/ DeletePlayer(c) \/ DeleteUin(c)
      PROVE  TypeInv'
  <2>1. UNCHANGED RequestsAreTyped
    BY <1>3 DEF Accept, DeletePlayer, DeleteUin, RequestsAreTyped
  <2>2. CASE Accept(c)
    BY <1>3, <2>1, <2>2 DEF Accept, TypeInv, TypeOK
  <2>3. CASE DeletePlayer(c)
    BY <1>3, <2>1, <2>3 DEF DeletePlayer, TypeInv, TypeOK
  <2>4. CASE DeleteUin(c)
    BY <1>3, <2>1, <2>4 DEF DeleteUin, TypeInv, TypeOK
  <2> QED
    BY <1>3, <2>2, <2>3, <2>4
<1>4. ASSUME NEW c \in Conns, NEW t \in Tokens, HandleAuthRequest(c, t)
      PROVE  TypeInv'
  <2>1. AfterAuth(c) /\ mishaps' \in 0..MaxMishaps /\ requests' \in 0..MaxRequests
    BY <1>4, AuthEffect DEF TypeInv
  <2>2. CASE Respond(c)
    <3>1. player' = player
      BY <1>4 DEF HandleAuthRequest
    <3>2. RequestsAreTyped' /\ pc' \in PCs /\ req' \in Locals
      BY <2>2, <3>1, RespondTyped
    <3> QED
      BY <1>4, <2>1, <3>1, <3>2 DEF HandleAuthRequest, PCs, Locals, TypeOK, TypeInv
  <2>3. CASE ~Respond(c)
    <3>1. PICK o \in OpenIds : /\ pc' = [pc EXCEPT ![c] = "find"]
                               /\ req' = [req EXCEPT ![c] = [openid |-> o, uid |-> 0]]
      BY <2>1, <2>3 DEF AfterAuth
    <3>2. 0 \in 0..MaxUid /\ "find" \notin AtUser /\ player' = player
      BY <1>4, ConstantsAreSane DEF HandleAuthRequest, AtUser
    <3>3. RequestsAreTyped' /\ pc' \in PCs /\ req' \in Locals
      BY <3>1, <3>2, ProceedTyped
    <3> QED
      BY <1>4, <2>1, <3>3 DEF HandleAuthRequest, PCs, Locals, TypeInv, TypeOK
  <2> QED
    BY <2>2, <2>3
<1>5. ASSUME NEW c \in Conns, FindUser(c)
      PROVE  TypeInv'
  <2>1. AfterFind(c) /\ odd' \in {odd, odd \cup {req[c].openid}} /\ mishaps' \in 0..MaxMishaps
        /\ req[c].openid \in OpenIds
    BY <1>5, FindEffect DEF TypeInv, RequestsAreTyped, FindUser
  <2>2. openidToUid[req[c].openid] # Missing => openidToUid[req[c].openid].value \in Uids
    BY <2>1 DEF TypeInv, TypeOK
  <2>3. PICK at \in {"uid", "found"}, u \in 0..MaxUid :
          /\ at \in AtUser => u \in Uids
          /\ pc' = [pc EXCEPT ![c] = at]
          /\ req' = [req EXCEPT ![c] = [openid |-> req[c].openid, uid |-> u]]
    <3>1. req = [req EXCEPT ![c] = [openid |-> req[c].openid, uid |-> req[c].uid]]
          /\ req[c].uid \in 0..MaxUid
      BY DEF TypeInv, TypeOK
    <3>2. CASE pc' = [pc EXCEPT ![c] = "uid"] /\ req' = req
      BY <3>1, <3>2 DEF AtUser
    <3>3. CASE ~(pc' = [pc EXCEPT ![c] = "uid"] /\ req' = req)
      BY <2>1, <2>2, <3>3 DEF AfterFind, AtUser, Uids
    <3> QED
      BY <3>2, <3>3
  <2>4. player' = player
    BY <1>5 DEF FindUser
  <2>5. RequestsAreTyped' /\ pc' \in PCs /\ req' \in Locals
    BY <2>1, <2>3, <2>4, ProceedTyped
  <2> QED
    BY <1>5, <2>1, <2>5 DEF FindUser, PCs, Locals, TypeInv, TypeOK
<1>6. ASSUME NEW c \in Conns, GenerateNewUserId(c)
      PROVE  TypeInv'
  <2>1. AfterGenerate(c) /\ userUid \in 0..MaxUid /\ userUid + 1 \in 1..MaxUid
        /\ mishaps' \in 0..MaxMishaps /\ req[c].openid \in OpenIds
    BY <1>6, GenerateEffect DEF TypeInv, RequestsAreTyped, GenerateNewUserId
  <2>2. userUid' \in 0..MaxUid
    BY <2>1, ConstantsAreSane DEF AfterGenerate
  <2>3. CASE Respond(c)
    <3>1. RequestsAreTyped' /\ pc' \in PCs /\ req' \in Locals
      BY <1>6, <2>3, RespondTyped DEF GenerateNewUserId
    <3> QED
      BY <1>6, <2>1, <2>2, <3>1 DEF GenerateNewUserId, PCs, Locals, TypeInv, TypeOK
  <2>4. CASE ~Respond(c)
    <3>1. player' = player /\ userUid + 1 \in 0..MaxUid /\ userUid + 1 \in Uids
      BY <1>6, <2>1 DEF GenerateNewUserId, Uids
    <3>2. RequestsAreTyped' /\ pc' \in PCs /\ req' \in Locals
      BY <2>1, <2>4, <3>1, ProceedTyped DEF AfterGenerate
    <3> QED
      BY <1>6, <2>1, <2>2, <3>2 DEF GenerateNewUserId, PCs, Locals, TypeInv, TypeOK
  <2> QED
    BY <2>3, <2>4
<1>7. ASSUME NEW c \in Conns, MapOpenid(c)
      PROVE  TypeInv'
  <2>1. AfterMap(c) /\ mishaps' \in 0..MaxMishaps /\ req[c].openid \in OpenIds /\ req[c].uid \in Uids
    BY <1>7, MapEffect DEF TypeInv, RequestsAreTyped, MapOpenid, AtUser
  <2>2. openidToUid' \in [OpenIds -> {Missing} \cup [value : Uids, ttl : {0}]]
    BY <2>1 DEF AfterMap, MappedTo, TypeInv, TypeOK
  <2>3. CASE Respond(c)
    <3>1. RequestsAreTyped' /\ pc' \in PCs /\ req' \in Locals
      BY <1>7, <2>3, RespondTyped DEF MapOpenid
    <3> QED
      BY <1>7, <2>1, <2>2, <3>1 DEF MapOpenid, AfterMap, PCs, Locals, TypeInv, TypeOK
  <2>4. CASE ~Respond(c)
    BY <1>7, <2>1, <2>2, <2>4 DEF MapOpenid, AfterMap, TypeInv, TypeOK, RequestsAreTyped, AtUser, AtPlayer
  <2> QED
    BY <2>3, <2>4
<1>8. ASSUME NEW c \in Conns, SaveUserData(c)
      PROVE  TypeInv'
  <2>1. req[c].openid \in OpenIds /\ req[c].uid \in Uids
    BY <1>8 DEF TypeInv, RequestsAreTyped, SaveUserData, AtUser
  <2>2. AfterSave(c) /\ mishaps' \in 0..MaxMishaps
    BY <1>8, <2>1, SaveEffect DEF TypeInv
  <2>3. users' \in [Uids -> {NoHash} \cup {InitialUser(o) : o \in OpenIds}]
    BY <2>1, <2>2 DEF AfterSave, UserWritten, TypeInv, TypeOK
  <2>4. CASE Respond(c) /\ player' = player
    <3>1. RequestsAreTyped' /\ pc' \in PCs /\ req' \in Locals
      BY <2>4, RespondTyped
    <3> QED
      BY <1>8, <2>1, <2>2, <2>3, <2>4, <3>1
         DEF SaveUserData, AfterSave, SetPlayer, PCs, Locals, TypeInv, TypeOK
  <2>5. CASE ~(Respond(c) /\ player' = player)
    <3>1. SetPlayer(c) /\ pc' = [pc EXCEPT ![c] = "load"] /\ req' = req
      BY <2>2, <2>5 DEF AfterSave
    <3>2. /\ player' \in [Conns -> [uid : 0..MaxUid, openid : OpenIds \cup {Nil}, gold : Nat]]
          /\ excused' \subseteq Conns /\ pc' \in PCs /\ RequestsAreTyped'
      BY <2>1, <3>1, SetPlayerTyped
    <3> QED
      BY <1>8, <2>1, <2>2, <2>3, <3>1, <3>2 DEF SaveUserData, AfterSave, PCs, TypeInv, TypeOK
  <2> QED
    BY <2>4, <2>5
<1>9. ASSUME NEW c \in Conns, LoadFound(c)
       PROVE  TypeInv'
  <2>1. req[c].openid \in OpenIds /\ req[c].uid \in Uids
    BY <1>9 DEF TypeInv, RequestsAreTyped, LoadFound, AtUser
  <2>2. AfterLoadFound(c) /\ mishaps' \in 0..MaxMishaps
    BY <1>9, LoadFoundEffect DEF TypeInv
  <2>3. CASE Respond(c) /\ player' = player
    <3>1. RequestsAreTyped' /\ pc' \in PCs /\ req' \in Locals
      BY <2>3, RespondTyped
    <3> QED
      BY <1>9, <2>1, <2>2, <2>3, <3>1
         DEF LoadFound, AfterLoadFound, SetPlayer, PCs, Locals, TypeInv, TypeOK
  <2>4. CASE ~(Respond(c) /\ player' = player)
    <3>1. SetPlayer(c) /\ pc' = [pc EXCEPT ![c] = "load"] /\ req' = req
      BY <2>2, <2>4 DEF AfterLoadFound
    <3>2. /\ player' \in [Conns -> [uid : 0..MaxUid, openid : OpenIds \cup {Nil}, gold : Nat]]
          /\ excused' \subseteq Conns /\ pc' \in PCs /\ RequestsAreTyped'
      BY <2>1, <3>1, SetPlayerTyped
    <3> QED
      BY <1>9, <2>1, <2>2, <3>1, <3>2 DEF LoadFound, PCs, TypeInv, TypeOK
  <2> QED
    BY <2>3, <2>4
<1>10. ASSUME NEW c \in Conns, LoadUserData(c)
       PROVE  TypeInv'
  <2>1. AfterLoad(c) /\ mishaps' \in 0..MaxMishaps
    BY <1>10, LoadEffect DEF TypeInv
  <2>2. player[c].uid \in Uids
    BY <1>10 DEF TypeInv, RequestsAreTyped, LoadUserData, AtUser, AtPlayer
  <2>3. NumberIn(users[player[c].uid], "gold") \in Nat
    BY <2>2, HashIsNoError DEF TypeInv, TypeOK
  <2>4. CASE Respond(c) /\ player' = player
    <3>1. RequestsAreTyped' /\ pc' \in PCs /\ req' \in Locals
      BY <2>4, RespondTyped
    <3> QED
      BY <1>10, <2>1, <2>4, <3>1 DEF LoadUserData, PCs, Locals, TypeInv, TypeOK
  <2>5. CASE ~(Respond(c) /\ player' = player)
    <3> DEFINE g == NumberIn(users[player[c].uid], "gold")
    <3>1. /\ pc' = [pc EXCEPT ![c] = "lookup"] /\ req' = req
          /\ player' = [player EXCEPT ![c].gold = g]
      BY <2>1, <2>5 DEF AfterLoad
    <3>2. g \in Nat
      BY <2>3
    <3> HIDE DEF g
    <3>3. /\ player' \in [Conns -> [uid : 0..MaxUid, openid : OpenIds \cup {Nil}, gold : Nat]]
          /\ \A d \in Conns : player'[d].uid = player[d].uid /\ player'[d].openid = player[d].openid
      BY <3>1, <3>2 DEF TypeInv, TypeOK
    <3>4. RequestsAreTyped'
      BY <1>10, <3>1, <3>3 DEF LoadUserData, TypeInv, TypeOK, RequestsAreTyped, AtUser, AtPlayer
    <3> QED
      BY <1>10, <2>1, <3>1, <3>3, <3>4 DEF LoadUserData, TypeInv, TypeOK
  <2> QED
    BY <2>4, <2>5
<1>11. ASSUME NEW c \in Conns, LookUpPlayer(c)
       PROVE  TypeInv'
  <2>1. CASE c \in players
    <3>1. req' = req /\ pc' = [pc EXCEPT ![c] = "store"] /\ UNCHANGED <<player, told>>
      BY <1>11, <2>1 DEF LookUpPlayer, Proceed, TypeInv, TypeOK
    <3>2. RequestsAreTyped'
      BY <1>11, <3>1 DEF LookUpPlayer, TypeInv, TypeOK, RequestsAreTyped, AtUser, AtPlayer
    <3> QED
      BY <1>11, <3>1, <3>2 DEF LookUpPlayer, TypeInv, TypeOK
  <2>2. CASE c \notin players
    <3>1. told' \in [Conns -> {Nil} \cup [openid : OpenIds, uid : Uids, gold : Nat]]
      BY <1>11, <2>2, SuccessTyped DEF LookUpPlayer, AtPlayer
    <3>2. RequestsAreTyped' /\ pc' \in PCs /\ req' \in Locals
      BY <1>11, <2>2, RespondTyped DEF LookUpPlayer, SendAuthSuccessResponse
    <3> QED
      BY <1>11, <3>1, <3>2 DEF LookUpPlayer, PCs, Locals, TypeInv, TypeOK
  <2> QED
    BY <2>1, <2>2
<1>12. ASSUME NEW c \in Conns, StorePlayer(c)
       PROVE  TypeInv'
  <2>1. told' \in [Conns -> {Nil} \cup [openid : OpenIds, uid : Uids, gold : Nat]]
    BY <1>12, SuccessTyped DEF StorePlayer, AtPlayer
  <2>2. RequestsAreTyped' /\ pc' \in PCs /\ req' \in Locals
    BY <1>12, RespondTyped DEF StorePlayer, SendAuthSuccessResponse
  <2> QED
    BY <1>12, <2>1, <2>2 DEF StorePlayer, PCs, Locals, TypeInv, TypeOK
<1>13. ASSUME Crash
       PROVE  TypeInv'
  <2>1. {req[c].openid : c \in {d \in Conns : pc[d] = "hash"}} \subseteq OpenIds
    BY DEF TypeInv, RequestsAreTyped
  <2>2. mishaps' \in 0..MaxMishaps
    BY <1>13, ConstantsAreSane DEF Crash, TypeInv, TypeOK
  <2> QED
    BY <1>13, <2>1, <2>2, NoRequestTyped, ConstantsAreSane
       DEF Crash, NewPlayer, TypeInv, TypeOK, RequestsAreTyped, AtUser, AtPlayer
<1>14. CASE UNCHANGED accountVars
  BY <1>14 DEF accountVars, TypeInv, TypeOK, RequestsAreTyped
<1> QED
  BY <1>1, <1>2, <1>3, <1>4, <1>5, <1>6, <1>7, <1>8, <1>9, <1>10, <1>11, <1>12, <1>13, <1>14
     DEF AccountNext, LoginNext, HandlerNext, ProcessGuestLogin, ProcessNormalLogin

(* Every variable keeps its type: an AuthResponse carries a user that exists, which *)
(* HandleAuthRequest has taken from its request by way of the Player.               *)
THEOREM TypeCorrect == AccountSpec => []TypeOK
<1>1. AccountSpec => []TypeInv
  BY TypeInvInit, TypeInvStep, PTL DEF AccountSpec
<1> QED
  BY <1>1, PTL DEF TypeInv

-----------------------------------------------------------------------------
(* The steps again, by what they do to accounts and logins. *)

Quiet == UNCHANGED <<openidToUid, users, userUid, player, pc, req, told, odd>>

AuthStep(c) ==
  /\ pc[c] = "idle" /\ AfterAuth(c)
  /\ UNCHANGED <<openidToUid, users, userUid, player, told, odd>>

FindStep(c) ==
  /\ pc[c] = "find" /\ AfterFind(c)
  /\ odd' \in {odd, odd \cup {req[c].openid}}
  /\ (\E d \in Conns \ {c} : FirstLogin(d, req[c].openid)) => req[c].openid \in odd'
  /\ UNCHANGED <<openidToUid, users, userUid, player, told>>

GenerateStep(c) ==
  /\ pc[c] = "uid" /\ AfterGenerate(c)
  /\ userUid + 1 \in 1..MaxUid
  /\ UNCHANGED <<openidToUid, users, player, told, odd>>

MapStep(c) ==
  /\ pc[c] = "map" /\ AfterMap(c)
  /\ UNCHANGED <<users, userUid, player, told>>

SaveStep(c) ==
  /\ pc[c] = "hash" /\ AfterSave(c)
  /\ UNCHANGED <<openidToUid, userUid, told>>

LoadFoundStep(c) ==
  /\ pc[c] = "found" /\ AfterLoadFound(c)
  /\ UNCHANGED <<openidToUid, users, userUid, told, odd>>

LoadStep(c) ==
  /\ pc[c] = "load" /\ AfterLoad(c)
  /\ UNCHANGED <<openidToUid, users, userUid, told, odd>>

EndStep(c) ==
  /\ pc[c] \in {"lookup", "store"}
  /\ \/ SendAuthSuccessResponse(c)
     \/ pc' = [pc EXCEPT ![c] = "store"] /\ req' = req /\ told' = told
  /\ UNCHANGED <<openidToUid, users, userUid, player, odd>>

LoginStep(c) ==
  \/ AuthStep(c) \/ FindStep(c) \/ GenerateStep(c) \/ MapStep(c) \/ SaveStep(c)
  \/ LoadFoundStep(c) \/ LoadStep(c) \/ EndStep(c)

LEMMA StepCases ==
  ASSUME TypeInv, [AccountNext]_accountVars
  PROVE  Quiet \/ Crash \/ \E c \in Conns : LoginStep(c)
<1> USE DEF redisVars, managerVars, connVars, history
<1>1. ASSUME NEW o \in OpenIds, NEW t \in Tokens, StoreSession(o, t)
      PROVE  Quiet
  BY <1>1 DEF StoreSession, Quiet
<1>2. ASSUME NEW t \in Tokens, SessionExpires(t)
      PROVE  Quiet
  BY <1>2 DEF SessionExpires, Quiet
<1>3. ASSUME NEW c \in Conns, Accept(c) \/ DeletePlayer(c) \/ DeleteUin(c)
      PROVE  Quiet
  BY <1>3 DEF Accept, DeletePlayer, DeleteUin, Quiet
<1>4. ASSUME NEW c \in Conns, HandlerNext(c)
      PROVE  LoginStep(c)
  <2>1. pc[c] # "idle" => req[c].openid \in OpenIds
    BY DEF TypeInv, RequestsAreTyped
  <2>2. pc[c] = "hash" => req[c].uid \in Uids
    BY DEF TypeInv, RequestsAreTyped, AtUser
  <2>3. ASSUME NEW t \in Tokens, HandleAuthRequest(c, t)
        PROVE  AuthStep(c)
    BY <2>3, AuthEffect DEF TypeInv, HandleAuthRequest, AuthStep
  <2>4. CASE FindUser(c)
    <3>1. pc[c] = "find" /\ UNCHANGED <<openidToUid, users, userUid, player, told>>
      BY <2>4 DEF FindUser
    <3> QED
      BY <2>1, <2>4, <3>1, FindEffect DEF TypeInv, FindStep, LoginStep
  <2>5. CASE GenerateNewUserId(c)
    BY <2>5, GenerateEffect DEF TypeInv, GenerateNewUserId, GenerateStep, LoginStep
  <2>6. CASE MapOpenid(c)
    BY <2>6, MapEffect DEF TypeInv, MapOpenid, MapStep, LoginStep
  <2>7. CASE SaveUserData(c)
    <3>1. pc[c] = "hash" /\ UNCHANGED <<openidToUid, userUid, told>>
      BY <2>7 DEF SaveUserData
    <3> QED
      BY <2>1, <2>2, <2>7, <3>1, SaveEffect DEF TypeInv, SaveStep, LoginStep
  <2>8. CASE LoadFound(c)
    BY <2>8, LoadFoundEffect DEF TypeInv, LoadFound, LoadFoundStep, LoginStep
  <2>9. CASE LoadUserData(c)
    BY <2>9, LoadEffect DEF TypeInv, LoadUserData, LoadStep, LoginStep
  <2>10. CASE LookUpPlayer(c)
    <3>1. req = [req EXCEPT ![c] = req[c]]
      BY DEF TypeInv, TypeOK
    <3> QED
      BY <2>10, <3>1 DEF LookUpPlayer, Proceed, EndStep, LoginStep
  <2>11. CASE StorePlayer(c)
    BY <2>11 DEF StorePlayer, EndStep, LoginStep
  <2> QED
    BY <1>4, <2>3, <2>4, <2>5, <2>6, <2>7, <2>8, <2>9, <2>10, <2>11 DEF HandlerNext, LoginStep
<1>5. CASE UNCHANGED accountVars
  BY <1>5 DEF accountVars, Quiet
<1> QED
  BY <1>1, <1>2, <1>3, <1>4, <1>5
     DEF AccountNext, LoginNext, ProcessGuestLogin, ProcessNormalLogin

-----------------------------------------------------------------------------
(* Uids *)

Mapped(o) == openidToUid[o] # Missing
UidOf(o) == openidToUid[o].value

\* A uid is above the counter, or about to be mapped by one login, or mapped to one
\* openid, and only one of these.
CounterIsAbove ==
  /\ \A o \in OpenIds : Mapped(o) => UidOf(o) \in 1..userUid
  /\ \A c \in Conns : pc[c] \in {"map", "hash"} => req[c].uid \in 1..userUid

PendingIsUnowned ==
  \A c \in Conns, o \in OpenIds : pc[c] = "map" /\ Mapped(o) => UidOf(o) # req[c].uid

PendingIsSingle ==
  \A c, d \in Conns :
    pc[c] = "map" /\ pc[d] \in {"map", "hash"} /\ c # d => req[c].uid # req[d].uid

WrittenIsOwn ==
  \A c \in Conns, o \in OpenIds :
    pc[c] = "hash" /\ Mapped(o) /\ o # req[c].openid => UidOf(o) # req[c].uid

UidsAreFresh ==
  CounterIsAbove /\ PendingIsUnowned /\ PendingIsSingle /\ WrittenIsOwn /\ NoSharedAccount

UidInv == TypeInv /\ UidsAreFresh

LEMMA UidInvInit == AccountInit => UidInv
BY TypeInvInit DEF AccountInit, UidInv, UidsAreFresh, CounterIsAbove, PendingIsUnowned,
   PendingIsSingle, WrittenIsOwn, NoSharedAccount, Mapped

(* A login that gets neither a uid nor an openid to itself leaves the uids alone. *)
LEMMA UidsUntouched ==
  ASSUME TypeInv, UidsAreFresh, openidToUid' = openidToUid, userUid' \in Nat, userUid' >= userUid,
         \A d \in Conns : pc'[d] \in {"map", "hash"}
            => pc'[d] = pc[d] /\ req'[d] = req[d]
  PROVE  UidsAreFresh'
<1>1. userUid \in Nat
  BY ConstantsAreSane DEF TypeInv, TypeOK
<1>2. CounterIsAbove'
  BY <1>1 DEF UidsAreFresh, CounterIsAbove, Mapped, UidOf
<1>3. PendingIsUnowned' /\ PendingIsSingle' /\ WrittenIsOwn' /\ NoSharedAccount'
  BY DEF UidsAreFresh, PendingIsUnowned, PendingIsSingle, WrittenIsOwn, NoSharedAccount, Mapped, UidOf
<1> QED
  BY <1>2, <1>3 DEF UidsAreFresh

LEMMA GenerateKeepsUids ==
  ASSUME UidInv, NEW c \in Conns, GenerateStep(c), ~Respond(c)
  PROVE  UidsAreFresh'
<1> DEFINE u == userUid + 1
<1>1. userUid \in Nat /\ userUid' = u /\ openidToUid' = openidToUid
  BY ConstantsAreSane DEF UidInv, TypeInv, TypeOK, GenerateStep, AfterGenerate
<1>2. pc'[c] = "map" /\ req'[c].uid = u
  BY DEF UidInv, TypeInv, TypeOK, GenerateStep, AfterGenerate
<1>3. \A d \in Conns \ {c} : pc'[d] = pc[d] /\ req'[d] = req[d]
  BY DEF UidInv, TypeInv, TypeOK, GenerateStep, AfterGenerate
<1>4. \A o \in OpenIds : Mapped(o) => UidOf(o) \in 1..userUid
  BY DEF UidInv, UidsAreFresh, CounterIsAbove
<1>5. \A d \in Conns : pc[d] \in {"map", "hash"} => req[d].uid \in 1..userUid
  BY DEF UidInv, UidsAreFresh, CounterIsAbove
<1>6. CounterIsAbove'
  BY <1>1, <1>2, <1>3, <1>4, <1>5 DEF CounterIsAbove, Mapped, UidOf
<1>7. PendingIsUnowned'
  BY <1>1, <1>2, <1>3, <1>4 DEF UidInv, UidsAreFresh, PendingIsUnowned, Mapped, UidOf
<1>8. PendingIsSingle'
  BY <1>1, <1>2, <1>3, <1>5 DEF UidInv, UidsAreFresh, PendingIsSingle
<1>9. WrittenIsOwn' /\ NoSharedAccount'
  BY <1>1, <1>2, <1>3 DEF UidInv, UidsAreFresh, WrittenIsOwn, NoSharedAccount, Mapped, UidOf
<1> QED
  BY <1>6, <1>7, <1>8, <1>9 DEF UidsAreFresh

LEMMA MapKeepsUids ==
  ASSUME UidInv, NEW c \in Conns, MapStep(c), MappedTo(req[c].openid, req[c].uid)
  PROVE  UidsAreFresh'
<1> DEFINE u == req[c].uid
<1>1. PICK o \in OpenIds : o = req[c].openid
  BY DEF UidInv, TypeInv, RequestsAreTyped, MapStep
<1>2. u \in 1..userUid /\ userUid' = userUid /\ userUid \in Nat /\ pc[c] = "map"
  BY ConstantsAreSane
     DEF UidInv, TypeInv, TypeOK, UidsAreFresh, CounterIsAbove, MapStep
<1>3. Mapped(o)' /\ UidOf(o)' = u
  <2>1. openidToUid'[o] = [value |-> u, ttl |-> 0] /\ u \in 1..MaxUid
    BY <1>1, <1>2 DEF UidInv, TypeInv, TypeOK, RequestsAreTyped, AtUser, Uids, MappedTo
  <2>2. [value |-> u, ttl |-> 0] \in [value : OpenIds \cup 1..MaxUid, ttl : {0, 1}]
    BY <2>1
  <2> QED
    BY <2>1, <2>2, AnswersDiffer DEF Mapped, UidOf
<1>4. \A q \in OpenIds \ {o} : openidToUid'[q] = openidToUid[q]
  BY <1>1 DEF UidInv, TypeInv, TypeOK, MappedTo
<1>5. pc'[c] \in {"hash", "idle"} /\ (pc'[c] = "hash" => req'[c] = req[c])
  BY DEF UidInv, TypeInv, TypeOK, MapStep, AfterMap, Respond
<1>6. \A d \in Conns \ {c} : pc'[d] = pc[d] /\ req'[d] = req[d]
  BY DEF UidInv, TypeInv, TypeOK, MapStep, AfterMap, Respond
<1>7. \A d \in Conns \ {c} : pc[d] \in {"map", "hash"} => req[d].uid # u
  BY <1>2 DEF UidInv, UidsAreFresh, PendingIsSingle
<1>8. \A q \in OpenIds : Mapped(q) => UidOf(q) # u
  BY <1>2 DEF UidInv, UidsAreFresh, PendingIsUnowned
<1>9. \A q \in OpenIds \ {o} : (Mapped(q)' <=> Mapped(q)) /\ UidOf(q)' = UidOf(q)
  BY <1>4 DEF Mapped, UidOf
<1>10. CounterIsAbove'
  <2>1. \A q \in OpenIds : Mapped(q)' => UidOf(q)' \in 1..userUid'
    BY <1>2, <1>3, <1>9 DEF UidInv, UidsAreFresh, CounterIsAbove
  <2>2. \A d \in Conns : pc'[d] \in {"map", "hash"} => req'[d].uid \in 1..userUid'
    BY <1>2, <1>5, <1>6 DEF UidInv, UidsAreFresh, CounterIsAbove
  <2> QED
    BY <2>1, <2>2 DEF CounterIsAbove
<1>11. PendingIsUnowned'
  <2> SUFFICES ASSUME NEW d \in Conns, NEW q \in OpenIds, pc'[d] = "map", Mapped(q)'
               PROVE  UidOf(q)' # req'[d].uid
    BY DEF PendingIsUnowned
  <2>1. d # c /\ pc[d] = "map" /\ req'[d] = req[d]
    BY <1>5, <1>6
  <2> QED
    BY <2>1, <1>3, <1>7, <1>9 DEF UidInv, UidsAreFresh, PendingIsUnowned
<1>12. PendingIsSingle'
  BY <1>2, <1>5, <1>6, <1>7 DEF UidInv, UidsAreFresh, PendingIsSingle
<1>13. WrittenIsOwn'
  <2> SUFFICES ASSUME NEW d \in Conns, NEW q \in OpenIds, pc'[d] = "hash", Mapped(q)',
                      q # req'[d].openid
               PROVE  UidOf(q)' # req'[d].uid
    BY DEF WrittenIsOwn
  <2>1. CASE d = c
    BY <2>1, <1>1, <1>5, <1>8, <1>9
  <2>2. CASE d # c /\ q = o
    BY <2>2, <1>3, <1>6, <1>7
  <2>3. CASE d # c /\ q # o
    BY <2>3, <1>6, <1>9 DEF UidInv, UidsAreFresh, WrittenIsOwn
  <2> QED
    BY <2>1, <2>2, <2>3
<1>14. NoSharedAccount'
  <2> SUFFICES ASSUME NEW q \in OpenIds, NEW s \in OpenIds, q # s, Mapped(q)', Mapped(s)'
               PROVE  UidOf(q)' # UidOf(s)'
    BY DEF NoSharedAccount, Mapped, UidOf
  <2>1. CASE q # o /\ s # o
    BY <2>1, <1>9 DEF UidInv, UidsAreFresh, NoSharedAccount, Mapped, UidOf
  <2>2. CASE q = o \/ s = o
    BY <2>2, <1>3, <1>8, <1>9
  <2> QED
    BY <2>1, <2>2
<1> QED
  BY <1>10, <1>11, <1>12, <1>13, <1>14 DEF UidsAreFresh

LEMMA UidInvStep == UidInv /\ [AccountNext]_accountVars => UidInv'
<1> SUFFICES ASSUME UidInv, [AccountNext]_accountVars
             PROVE  UidsAreFresh'
  BY TypeInvStep DEF UidInv
<1>1. userUid \in Nat
  BY ConstantsAreSane DEF UidInv, TypeInv, TypeOK
<1>2. CASE Quiet
  BY <1>1, <1>2, UidsUntouched DEF Quiet, UidInv
<1>3. CASE Crash
  <2>1. openidToUid' = openidToUid /\ userUid' = userUid /\ \A d \in Conns : pc'[d] = "idle"
    BY <1>3 DEF Crash, redisVars
  <2> QED
    BY <1>1, <2>1, UidsUntouched DEF UidInv
<1>4. ASSUME NEW c \in Conns, LoginStep(c)
      PROVE  UidsAreFresh'
  <2>1. CASE GenerateStep(c) /\ ~Respond(c)
    BY <2>1, GenerateKeepsUids
  <2>2. CASE GenerateStep(c) /\ Respond(c)
    <3>1. /\ openidToUid' = openidToUid /\ userUid' \in Nat /\ userUid' >= userUid
          /\ \A d \in Conns : pc'[d] = "idle" \/ (pc'[d] = pc[d] /\ req'[d] = req[d])
      BY <2>2, <1>1 DEF UidInv, TypeInv, TypeOK, GenerateStep, AfterGenerate, Respond
    <3> QED
      BY <3>1, UidsUntouched DEF UidInv
  <2>3. CASE MapStep(c) /\ MappedTo(req[c].openid, req[c].uid)
    BY <2>3, MapKeepsUids
  <2>4. CASE MapStep(c) /\ ~MappedTo(req[c].openid, req[c].uid)
    <3>1. /\ openidToUid' = openidToUid /\ userUid' = userUid
          /\ \A d \in Conns : pc'[d] = "idle" \/ (pc'[d] = pc[d] /\ req'[d] = req[d])
      BY <2>4 DEF UidInv, TypeInv, TypeOK, MapStep, AfterMap, Respond
    <3> QED
      BY <1>1, <3>1, UidsUntouched DEF UidInv
  <2>5. CASE ~GenerateStep(c) /\ ~MapStep(c)
    <3>1. /\ openidToUid' = openidToUid /\ userUid' = userUid
          /\ pc'[c] \notin {"map", "hash"}
          /\ \A d \in Conns \ {c} : pc'[d] = pc[d] /\ req'[d] = req[d]
      <4>1. CASE AuthStep(c)
        BY <4>1 DEF UidInv, TypeInv, TypeOK, AuthStep, AfterAuth, Respond
      <4>2. CASE FindStep(c)
        BY <4>2 DEF UidInv, TypeInv, TypeOK, FindStep, AfterFind
      <4>3. CASE SaveStep(c)
        BY <4>3 DEF UidInv, TypeInv, TypeOK, SaveStep, AfterSave, Respond
      <4>4. CASE LoadFoundStep(c)
        BY <4>4 DEF UidInv, TypeInv, TypeOK, LoadFoundStep, AfterLoadFound, Respond
      <4>5. CASE LoadStep(c)
        BY <4>5 DEF UidInv, TypeInv, TypeOK, LoadStep, AfterLoad, Respond
      <4>6. CASE EndStep(c)
        BY <4>6 DEF UidInv, TypeInv, TypeOK, EndStep, SendAuthSuccessResponse, Respond
      <4> QED
        BY <1>4, <2>5, <4>1, <4>2, <4>3, <4>4, <4>5, <4>6 DEF LoginStep
    <3> QED
      BY <1>1, <3>1, UidsUntouched DEF UidInv
  <2> QED
    BY <2>1, <2>2, <2>3, <2>4, <2>5
<1> QED
  BY <1>2, <1>3, <1>4, StepCases DEF UidInv

(* A uid that INCR has handed out belongs to one login at a time, and, once SET     *)
(* openid_to_uid has been run, to one openid for good.                              *)
THEOREM UidsCorrect == AccountSpec => []UidInv
BY UidInvInit, UidInvStep, PTL DEF AccountSpec

(* findOrCreateUserByOpenID never gives two people the same user, whatever commands *)
(* fail, however logins interleave and whenever the server restarts.                *)
THEOREM NobodySharesAnAccount == AccountSpec => []NoSharedAccount
<1>1. UidInv => NoSharedAccount
  BY DEF UidInv, UidsAreFresh
<1> QED
  BY <1>1, UidsCorrect, PTL

-----------------------------------------------------------------------------
(* First logins *)

\* A first login that nothing disturbed is the only one of its openid, and finds it
\* not mapped.
FirstLoginsAreAlone ==
  /\ \A c, d \in Conns :
       /\ pc[c] \in {"uid", "map", "hash"} /\ pc[d] \in {"uid", "map", "hash"}
       /\ c # d /\ req[c].openid = req[d].openid
       => req[c].openid \in odd
  /\ \A c \in Conns : pc[c] \in {"uid", "map"} /\ Mapped(req[c].openid) => req[c].openid \in odd

LoginInv == UidInv /\ FirstLoginsAreAlone

LEMMA LoginInvInit == AccountInit => LoginInv
BY UidInvInit DEF AccountInit, LoginInv, FirstLoginsAreAlone

(* What a step of a login leaves to the others: all but Redis. *)
LEMMA StepIsLocal ==
  ASSUME TypeInv, NEW c \in Conns, LoginStep(c)
  PROVE  /\ \A d \in Conns \ {c} : pc'[d] = pc[d] /\ req'[d] = req[d] /\ player'[d] = player[d]
                                   /\ told'[d] = told[d]
         /\ odd \subseteq odd'
<1> USE DEF TypeInv, TypeOK, Respond
<1>1. CASE AuthStep(c)
  BY <1>1 DEF AuthStep, AfterAuth
<1>2. CASE FindStep(c)
  BY <1>2 DEF FindStep, AfterFind
<1>3. CASE GenerateStep(c)
  BY <1>3 DEF GenerateStep, AfterGenerate
<1>4. CASE MapStep(c)
  BY <1>4 DEF MapStep, AfterMap
<1>5. CASE SaveStep(c)
  BY <1>5 DEF SaveStep, AfterSave, SetPlayer
<1>6. CASE LoadFoundStep(c)
  BY <1>6 DEF LoadFoundStep, AfterLoadFound, SetPlayer
<1>7. CASE LoadStep(c)
  BY <1>7 DEF LoadStep, AfterLoad
<1>8. CASE EndStep(c)
  BY <1>8 DEF EndStep, SendAuthSuccessResponse
<1> QED
  BY <1>1, <1>2, <1>3, <1>4, <1>5, <1>6, <1>7, <1>8 DEF LoginStep

(* The openid of a login on its way through a first login is the one it had. *)
LEMMA FirstLoginSteps ==
  ASSUME TypeInv, NEW c \in Conns, LoginStep(c), pc'[c] \in {"uid", "map", "hash"}
  PROVE  /\ req'[c].openid = req[c].openid /\ req[c].openid \in OpenIds
         /\ \/ pc[c] = "find" /\ FindStep(c) /\ pc'[c] = "uid" /\ openidToUid' = openidToUid
               /\ (Mapped(req[c].openid) => req[c].openid \in odd')
            \/ pc[c] = "uid" /\ pc'[c] = "map" /\ openidToUid' = openidToUid
            \/ pc[c] = "map" /\ pc'[c] = "hash" /\ MapStep(c)
               /\ MappedTo(req[c].openid, req[c].uid) /\ req'[c] = req[c]
<1>1. pc[c] # "idle" => req[c].openid \in OpenIds
  BY DEF TypeInv, RequestsAreTyped
<1> USE DEF TypeInv, TypeOK, Respond, Mapped
<1>2. CASE AuthStep(c)
  BY <1>2 DEF AuthStep, AfterAuth
<1>3. CASE FindStep(c)
  BY <1>1, <1>3 DEF FindStep, AfterFind
<1>4. CASE GenerateStep(c)
  BY <1>1, <1>4 DEF GenerateStep, AfterGenerate
<1>5. CASE MapStep(c)
  BY <1>1, <1>5 DEF MapStep, AfterMap
<1>6. CASE SaveStep(c)
  BY <1>6 DEF SaveStep, AfterSave
<1>7. CASE LoadFoundStep(c)
  BY <1>7 DEF LoadFoundStep, AfterLoadFound
<1>8. CASE LoadStep(c)
  BY <1>8 DEF LoadStep, AfterLoad
<1>9. CASE EndStep(c)
  BY <1>9 DEF EndStep, SendAuthSuccessResponse
<1> QED
  BY <1>2, <1>3, <1>4, <1>5, <1>6, <1>7, <1>8, <1>9 DEF LoginStep

(* Only MapOpenid maps an openid. *)
LEMMA OnlyMapMaps ==
  ASSUME TypeInv, NEW c \in Conns, LoginStep(c),
         ~(MapStep(c) /\ MappedTo(req[c].openid, req[c].uid))
  PROVE  openidToUid' = openidToUid
BY DEF LoginStep, AuthStep, FindStep, GenerateStep, MapStep, AfterMap, SaveStep, LoadFoundStep,
   LoadStep, EndStep

LEMMA MappedElsewhere ==
  ASSUME TypeInv, NEW c \in Conns, MappedTo(req[c].openid, req[c].uid),
         NEW q \in OpenIds, q # req[c].openid
  PROVE  openidToUid'[q] = openidToUid[q]
BY DEF TypeInv, TypeOK, MappedTo

LEMMA LoginInvStep == LoginInv /\ [AccountNext]_accountVars => LoginInv'
<1> SUFFICES ASSUME LoginInv, [AccountNext]_accountVars
             PROVE  FirstLoginsAreAlone'
  BY UidInvStep DEF LoginInv
<1> USE DEF LoginInv
<1>1. CASE Quiet
  BY <1>1 DEF Quiet, FirstLoginsAreAlone, Mapped
<1>2. CASE Crash
  BY <1>2 DEF Crash, FirstLoginsAreAlone
<1>3. ASSUME NEW c \in Conns, LoginStep(c)
      PROVE  FirstLoginsAreAlone'
  <2>1. /\ \A d \in Conns \ {c} : pc'[d] = pc[d] /\ req'[d] = req[d]
        /\ odd \subseteq odd'
    BY <1>3, StepIsLocal DEF UidInv
  <2>2. ASSUME NEW a \in Conns, NEW d \in Conns,
               pc'[a] \in {"uid", "map", "hash"}, pc'[d] \in {"uid", "map", "hash"},
               a # d, req'[a].openid = req'[d].openid
        PROVE  req'[a].openid \in odd'
    <3>1. ASSUME NEW e \in Conns \ {c}, pc[e] \in {"uid", "map", "hash"},
                 pc'[c] \in {"uid", "map", "hash"}, req'[c].openid = req[e].openid
          PROVE  req[e].openid \in odd'
      <4>1. req'[c].openid = req[c].openid
            /\ (pc[c] \in {"uid", "map", "hash"} \/ FindStep(c))
        BY <1>3, <3>1, FirstLoginSteps DEF UidInv
      <4>2. CASE pc[c] \in {"uid", "map", "hash"}
        BY <2>1, <3>1, <4>1, <4>2 DEF FirstLoginsAreAlone
      <4>3. CASE FindStep(c)
        <5>1. FirstLogin(e, req[c].openid)
          BY <3>1, <4>1 DEF FirstLogin
        <5> QED
          BY <3>1, <4>1, <4>3, <5>1 DEF FindStep
      <4> QED
        BY <4>1, <4>2, <4>3
    <3>2. CASE a # c /\ d # c
      BY <2>1, <2>2, <3>2 DEF FirstLoginsAreAlone
    <3>3. CASE a = c
      BY <2>1, <2>2, <3>1, <3>3
    <3>4. CASE d = c
      BY <2>1, <2>2, <3>1, <3>4
    <3> QED
      BY <3>2, <3>3, <3>4
  <2>3. ASSUME NEW a \in Conns, pc'[a] \in {"uid", "map"},
               openidToUid'[req'[a].openid] # Missing
        PROVE  req'[a].openid \in odd'
    <3>1. CASE a = c
      <4>1. req'[c].openid = req[c].openid /\ openidToUid' = openidToUid
            /\ (pc[c] = "uid" \/ (Mapped(req[c].openid) => req[c].openid \in odd'))
        BY <1>3, <2>3, <3>1, FirstLoginSteps DEF UidInv
      <4> QED
        BY <2>1, <2>3, <3>1, <4>1 DEF FirstLoginsAreAlone, Mapped
    <3>2. CASE a # c
      <4>1. pc[a] \in {"uid", "map"} /\ req'[a] = req[a] /\ req[a].openid \in OpenIds
        BY <2>1, <2>3, <3>2 DEF UidInv, TypeInv, RequestsAreTyped
      <4>2. CASE Mapped(req[a].openid)
        BY <2>1, <4>1, <4>2 DEF FirstLoginsAreAlone
      <4>3. CASE ~Mapped(req[a].openid)
        <5>1. openidToUid'[req[a].openid] # openidToUid[req[a].openid]
          BY <2>3, <4>1, <4>3 DEF Mapped
        <5>2. MapStep(c) /\ MappedTo(req[c].openid, req[c].uid)
          BY <1>3, <5>1, OnlyMapMaps DEF UidInv
        <5>4. req[a].openid = req[c].openid
          BY <4>1, <5>1, <5>2, MappedElsewhere DEF UidInv
        <5>3. pc[c] = "map"
          BY <5>2 DEF MapStep
        <5> QED
          BY <2>1, <3>2, <4>1, <5>2, <5>3, <5>4 DEF FirstLoginsAreAlone
      <4> QED
        BY <4>2, <4>3
    <3> QED
      BY <3>1, <3>2
  <2> QED
    BY <2>2, <2>3 DEF FirstLoginsAreAlone, Mapped
<1> QED
  BY <1>1, <1>2, <1>3, StepCases DEF UidInv

-----------------------------------------------------------------------------
(* Users *)

Written(o) == Mapped(o) /\ users[UidOf(o)] = InitialUser(o)

\* The user of an openid that nothing disturbed is written, or being written.
UsersAreWritten ==
  /\ \A o \in OpenIds :
       o \notin odd /\ Mapped(o)
         => Written(o) \/ \E c \in Conns : pc[c] = "hash" /\ req[c].openid = o
  /\ \A c \in Conns, o \in OpenIds :
       pc[c] = "hash" /\ req[c].openid = o /\ o \notin odd => Mapped(o) /\ UidOf(o) = req[c].uid

\* The user that a login has found, and told its client, is that of its openid.
LoginsFindTheUser ==
  \A c \in Conns, o \in OpenIds : o \notin odd =>
    /\ pc[c] \in {"found", "load", "lookup", "store"} /\ req[c].openid = o
         => /\ Written(o) /\ UidOf(o) = req[c].uid
            /\ pc[c] \in {"lookup", "store"} => player[c].gold = InitialGold
    /\ told[c] # Nil /\ told[c].openid = o
         => Written(o) /\ UidOf(o) = told[c].uid /\ told[c].gold = InitialGold

AccountInv == LoginInv /\ UsersAreWritten /\ LoginsFindTheUser

LEMMA AccountInvInit == AccountInit => AccountInv
BY LoginInvInit DEF AccountInit, AccountInv, UsersAreWritten, LoginsFindTheUser, Mapped

LEMMA NewGold == ASSUME NEW o \in OpenIds PROVE NumberIn(InitialUser(o), "gold") = InitialGold
BY DEF InitialUser, NumberIn

(* The user of an openid that nothing disturbed is written over by nobody. *)
LEMMA WrittenStays ==
  ASSUME AccountInv, [AccountNext]_accountVars, NEW o \in OpenIds, Written(o), o \notin odd'
  PROVE  Written(o)' /\ UidOf(o)' = UidOf(o)
<1> USE DEF AccountInv, LoginInv, UidInv
<1>1. CASE Quiet \/ Crash
  BY <1>1 DEF Quiet, Crash, redisVars, Written, Mapped, UidOf
<1>2. ASSUME NEW c \in Conns, LoginStep(c)
      PROVE  Written(o)' /\ UidOf(o)' = UidOf(o)
  <2>1. odd \subseteq odd'
    BY <1>2, StepIsLocal
  <2>2. CASE MapStep(c)
    <3>1. o # req[c].openid
      BY <2>1, <2>2 DEF MapStep, FirstLoginsAreAlone, Written
    <3>2. openidToUid'[o] = openidToUid[o]
      BY <1>2, <3>1, OnlyMapMaps, MappedElsewhere
    <3> QED
      BY <2>2, <3>2 DEF MapStep, Written, Mapped, UidOf
  <2>3. CASE SaveStep(c)
    <3>1. openidToUid' = openidToUid /\ pc[c] = "hash" /\ (users' = users \/ UserWritten(c))
      BY <2>3 DEF SaveStep, AfterSave
    <3>2. UidOf(o) \in Uids
      BY DEF Written, Mapped, UidOf, TypeInv, TypeOK
    <3>3. UserWritten(c) => users'[UidOf(o)] = users[UidOf(o)]
      <4>1. CASE o = req[c].openid
        BY <3>2, <4>1 DEF UserWritten, Written, TypeInv, TypeOK
      <4>2. CASE o # req[c].openid
        <5>1. UidOf(o) # req[c].uid
          BY <3>1, <4>2 DEF UidsAreFresh, WrittenIsOwn, Written
        <5> QED
          BY <3>2, <5>1 DEF UserWritten, TypeInv, TypeOK
      <4> QED
        BY <4>1, <4>2
    <3> QED
      BY <3>1, <3>3 DEF Written, Mapped, UidOf
  <2>4. CASE ~MapStep(c) /\ ~SaveStep(c)
    <3>1. openidToUid' = openidToUid /\ users' = users
      BY <1>2, <2>4 DEF LoginStep, AuthStep, FindStep, GenerateStep, LoadFoundStep, LoadStep, EndStep
    <3> QED
      BY <3>1 DEF Written, Mapped, UidOf
  <2> QED
    BY <2>2, <2>3, <2>4
<1> QED
  BY <1>1, <1>2, StepCases

LEMMA WritersArePlaced ==
  ASSUME AccountInv, NEW c \in Conns, LoginStep(c), AccountNext
  PROVE  UsersAreWritten'
<1> USE DEF AccountInv, LoginInv, UidInv
<1>1. /\ \A d \in Conns \ {c} : pc'[d] = pc[d] /\ req'[d] = req[d]
      /\ odd \subseteq odd'
  BY StepIsLocal
<1>2. ASSUME pc'[c] = "hash"
      PROVE  /\ MapStep(c) /\ MappedTo(req[c].openid, req[c].uid) /\ req'[c] = req[c]
             /\ req[c].openid \in OpenIds /\ req[c].uid \in Uids /\ pc[c] = "map"
  <2>1. MapStep(c) /\ MappedTo(req[c].openid, req[c].uid) /\ req'[c] = req[c]
        /\ req[c].openid \in OpenIds /\ pc[c] = "map"
    BY <1>2, FirstLoginSteps
  <2> QED
    BY <2>1 DEF TypeInv, RequestsAreTyped, AtUser
<1>3. ASSUME NEW o \in OpenIds, MapStep(c), MappedTo(req[c].openid, req[c].uid), o = req[c].openid
      PROVE  Mapped(o)' /\ UidOf(o)' = req[c].uid
  <2>1. req[c].uid \in Uids
    BY <1>3 DEF MapStep, TypeInv, RequestsAreTyped, AtUser
  <2>2. openidToUid'[o] = [value |-> req[c].uid, ttl |-> 0]
    BY <1>3 DEF MappedTo, TypeInv, TypeOK
  <2>3. [value |-> req[c].uid, ttl |-> 0] \in [value : OpenIds \cup 1..MaxUid, ttl : {0, 1}]
    BY <2>1 DEF Uids
  <2> QED
    BY <2>2, <2>3, AnswersDiffer DEF Mapped, UidOf
<1>4. ASSUME NEW o \in OpenIds, o \notin odd', Mapped(o)'
      PROVE  Written(o)' \/ \E d \in Conns : pc'[d] = "hash" /\ req'[d].openid = o
  <2>1. o \notin odd
    BY <1>1, <1>4
  <2>2. CASE Written(o)
    BY <1>4, <2>2, WrittenStays
  <2>3. CASE ~Mapped(o)
    <3>1. openidToUid'[o] # openidToUid[o]
      BY <1>4, <2>3 DEF Mapped
    <3>2. MapStep(c) /\ MappedTo(req[c].openid, req[c].uid)
      BY <3>1, OnlyMapMaps
    <3>3. o = req[c].openid
      BY <3>1, <3>2, MappedElsewhere
    <3>4. pc'[c] = "hash" /\ req'[c] = req[c]
      BY <1>4, <3>2, <3>3 DEF MapStep, AfterMap, TypeInv, TypeOK
    <3> QED
      BY <3>3, <3>4
  <2>4. CASE \E d \in Conns : pc[d] = "hash" /\ req[d].openid = o
    <3>1. PICK d \in Conns : pc[d] = "hash" /\ req[d].openid = o
      BY <2>4
    <3>2. CASE d # c
      BY <1>1, <3>1, <3>2
    <3>3. CASE d = c
      <4>1. SaveStep(c)
        BY <3>1, <3>3 DEF LoginStep, AuthStep, FindStep, GenerateStep, MapStep, LoadFoundStep,
                          LoadStep, EndStep
      <4>2. UserWritten(c) /\ openidToUid' = openidToUid
        BY <1>4, <3>1, <3>3, <4>1 DEF SaveStep, AfterSave
      <4>3. Mapped(o) /\ UidOf(o) = req[c].uid
        BY <2>1, <3>1, <3>3 DEF UsersAreWritten
      <4>4. UidOf(o) \in Uids
        BY <4>3 DEF Mapped, UidOf, TypeInv, TypeOK
      <4>5. users'[UidOf(o)] = InitialUser(o)
        BY <3>1, <3>3, <4>2, <4>3, <4>4 DEF UserWritten, TypeInv, TypeOK
      <4> QED
        BY <4>2, <4>3, <4>5 DEF Written, Mapped, UidOf
    <3> QED
      BY <3>2, <3>3
  <2> QED
    BY <2>1, <2>2, <2>3, <2>4 DEF UsersAreWritten
<1>5. ASSUME NEW d \in Conns, NEW o \in OpenIds, pc'[d] = "hash", req'[d].openid = o, o \notin odd'
      PROVE  Mapped(o)' /\ UidOf(o)' = req'[d].uid
  <2>1. CASE d = c
    BY <1>2, <1>3, <1>5, <2>1
  <2>2. CASE d # c
    <3>1. pc[d] = "hash" /\ req'[d] = req[d] /\ req[d].openid = o /\ o \notin odd
      BY <1>1, <1>5, <2>2
    <3>2. Mapped(o) /\ UidOf(o) = req[d].uid
      BY <3>1 DEF UsersAreWritten
    <3>3. ~(MapStep(c) /\ req[c].openid = o)
      BY <2>2, <3>1 DEF MapStep, FirstLoginsAreAlone
    <3>4. openidToUid'[o] = openidToUid[o]
      BY <3>3, OnlyMapMaps, MappedElsewhere
    <3> QED
      BY <3>1, <3>2, <3>4 DEF Mapped, UidOf
  <2> QED
    BY <2>1, <2>2
<1> QED
  BY <1>4, <1>5 DEF UsersAreWritten

(* A login finds the user of its openid, and keeps what it found. *)
LEMMA FindersArePlaced ==
  ASSUME AccountInv, NEW c \in Conns, LoginStep(c), AccountNext, NEW o \in OpenIds, o \notin odd',
         pc'[c] \in {"found", "load", "lookup", "store"}, req'[c].openid = o
  PROVE  /\ Written(o)' /\ UidOf(o)' = req'[c].uid
         /\ pc'[c] \in {"lookup", "store"} => player'[c].gold = InitialGold
<1> USE DEF AccountInv, LoginInv, UidInv
<1>1. o \notin odd
  BY StepIsLocal
<1>2. CASE FindStep(c)
  <2>1. /\ pc[c] = "find" /\ pc'[c] = "found" /\ req[c].openid = o /\ req'[c].uid = UidOf(o)
        /\ Mapped(o)
    BY <1>2 DEF FindStep, AfterFind, Mapped, UidOf, TypeInv, TypeOK
  <2>2. \A d \in Conns : ~(pc[d] = "hash" /\ req[d].openid = o)
    BY <1>2, <2>1 DEF FindStep, FirstLogin
  <2>3. Written(o)
    BY <1>1, <2>1, <2>2 DEF UsersAreWritten
  <2> QED
    BY <2>1, <2>3, WrittenStays
<1>3. CASE SaveStep(c)
  <2>1. /\ pc[c] = "hash" /\ pc'[c] = "load" /\ req'[c] = req[c] /\ req[c].openid = o
        /\ UserWritten(c) /\ openidToUid' = openidToUid
    BY <1>3 DEF SaveStep, AfterSave, Respond, TypeInv, TypeOK
  <2>2. Mapped(o) /\ UidOf(o) = req[c].uid
    BY <1>1, <2>1 DEF UsersAreWritten
  <2>3. UidOf(o) \in Uids
    BY <2>2 DEF Mapped, UidOf, TypeInv, TypeOK
  <2>4. users'[UidOf(o)] = InitialUser(o)
    BY <2>1, <2>2, <2>3 DEF UserWritten, TypeInv, TypeOK
  <2> QED
    BY <2>1, <2>2, <2>4 DEF Written, Mapped, UidOf
<1>4. CASE LoadFoundStep(c)
  <2>1. pc[c] = "found" /\ pc'[c] = "load" /\ req'[c] = req[c]
    BY <1>4 DEF LoadFoundStep, AfterLoadFound, Respond, TypeInv, TypeOK
  <2>2. Written(o) /\ UidOf(o) = req[c].uid
    BY <1>1, <2>1 DEF LoginsFindTheUser
  <2> QED
    BY <2>1, <2>2, WrittenStays
<1>5. CASE LoadStep(c)
  <2>1. /\ pc[c] = "load" /\ pc'[c] = "lookup" /\ req'[c] = req[c]
        /\ player'[c].gold = NumberIn(users[player[c].uid], "gold")
    BY <1>5 DEF LoadStep, AfterLoad, Respond, TypeInv, TypeOK
  <2>2. Written(o) /\ UidOf(o) = req[c].uid
    BY <1>1, <2>1 DEF LoginsFindTheUser
  <2>3. player[c].uid = req[c].uid
    BY <2>1 DEF TypeInv, RequestsAreTyped, AtPlayer
  <2>4. player'[c].gold = InitialGold
    BY <2>1, <2>2, <2>3, NewGold DEF Written
  <2> QED
    BY <2>1, <2>2, <2>4, WrittenStays
<1>6. CASE EndStep(c)
  <2>1. /\ pc[c] = "lookup" \/ pc[c] = "store"
        /\ pc'[c] = "store" /\ req'[c] = req[c] /\ player'[c] = player[c]
    BY <1>6 DEF EndStep, SendAuthSuccessResponse, Respond, TypeInv, TypeOK
  <2>2. Written(o) /\ UidOf(o) = req[c].uid /\ player[c].gold = InitialGold
    BY <1>1, <2>1 DEF LoginsFindTheUser
  <2> QED
    BY <2>1, <2>2, WrittenStays
<1>7. CASE AuthStep(c) \/ GenerateStep(c) \/ MapStep(c)
  BY <1>7 DEF AuthStep, AfterAuth, GenerateStep, AfterGenerate, MapStep, AfterMap, Respond,
              TypeInv, TypeOK
<1> QED
  BY <1>2, <1>3, <1>4, <1>5, <1>6, <1>7 DEF LoginStep

(* A client is told of the user that its login has found. *)
LEMMA ToldArePlaced ==
  ASSUME AccountInv, NEW c \in Conns, LoginStep(c), AccountNext, NEW o \in OpenIds, o \notin odd',
         told'[c] # Nil, told'[c].openid = o
  PROVE  Written(o)' /\ UidOf(o)' = told'[c].uid /\ told'[c].gold = InitialGold
<1> USE DEF AccountInv, LoginInv, UidInv
<1>1. o \notin odd
  BY StepIsLocal
<1>2. CASE told'[c] = told[c]
  <2>1. Written(o) /\ UidOf(o) = told[c].uid /\ told[c].gold = InitialGold
    BY <1>1, <1>2 DEF LoginsFindTheUser
  <2> QED
    BY <1>2, <2>1, WrittenStays
<1>3. CASE told'[c] # told[c]
  <2>1. EndStep(c) /\ SendAuthSuccessResponse(c)
    BY <1>3 DEF LoginStep, AuthStep, FindStep, GenerateStep, MapStep, SaveStep, LoadFoundStep,
                LoadStep, EndStep
  <2>2. told'[c] = [openid |-> player[c].openid, uid |-> player[c].uid, gold |-> player[c].gold]
    BY <2>1 DEF SendAuthSuccessResponse, TypeInv, TypeOK
  <2>3. /\ pc[c] \in {"lookup", "store"}
        /\ player[c].uid = req[c].uid /\ player[c].openid = req[c].openid /\ req[c].openid = o
    BY <2>1, <2>2 DEF EndStep, TypeInv, RequestsAreTyped, AtPlayer
  <2>4. Written(o) /\ UidOf(o) = req[c].uid /\ player[c].gold = InitialGold
    BY <1>1, <2>3 DEF LoginsFindTheUser
  <2> QED
    BY <2>2, <2>3, <2>4, WrittenStays
<1> QED
  BY <1>2, <1>3

LEMMA AccountInvStep == AccountInv /\ [AccountNext]_accountVars => AccountInv'
<1> SUFFICES ASSUME AccountInv, [AccountNext]_accountVars
             PROVE  UsersAreWritten' /\ LoginsFindTheUser'
  BY LoginInvStep DEF AccountInv
<1>1. CASE Quiet
  BY <1>1 DEF Quiet, AccountInv, UsersAreWritten, LoginsFindTheUser, Written, Mapped, UidOf
<1>2. CASE Crash
  <2>1. UNCHANGED <<openidToUid, users>> /\ \A d \in Conns : pc'[d] = "idle" /\ told'[d] = Nil
    BY <1>2 DEF Crash, redisVars
  <2>2. odd' = odd \cup {req[d].openid : d \in {e \in Conns : pc[e] = "hash"}}
    BY <1>2 DEF Crash
  <2>3. \A o \in OpenIds : o \notin odd' /\ Mapped(o) => Written(o)
    BY <2>2 DEF AccountInv, UsersAreWritten
  <2> QED
    BY <2>1, <2>3 DEF UsersAreWritten, LoginsFindTheUser, Written, Mapped, UidOf
<1>3. ASSUME NEW c \in Conns, LoginStep(c)
      PROVE  UsersAreWritten' /\ LoginsFindTheUser'
  <2>1. CASE UNCHANGED accountVars
    BY <2>1 DEF accountVars, redisVars, connVars, history, AccountInv, UsersAreWritten,
                LoginsFindTheUser, Written, Mapped, UidOf
  <2>2. CASE AccountNext
    <3>1. /\ \A d \in Conns \ {c} : pc'[d] = pc[d] /\ req'[d] = req[d] /\ player'[d] = player[d]
                                    /\ told'[d] = told[d]
          /\ odd \subseteq odd'
      BY <1>3, StepIsLocal DEF AccountInv, LoginInv, UidInv
    <3>2. ASSUME NEW d \in Conns, NEW o \in OpenIds, o \notin odd',
                 pc'[d] \in {"found", "load", "lookup", "store"}, req'[d].openid = o
          PROVE  /\ Written(o)' /\ UidOf(o)' = req'[d].uid
                 /\ pc'[d] \in {"lookup", "store"} => player'[d].gold = InitialGold
      <4>1. CASE d = c
        BY <1>3, <2>2, <3>2, <4>1, FindersArePlaced
      <4>2. CASE d # c
        <5>1. /\ Written(o) /\ UidOf(o) = req[d].uid
              /\ pc[d] \in {"lookup", "store"} => player[d].gold = InitialGold
          BY <3>1, <3>2, <4>2 DEF AccountInv, LoginsFindTheUser
        <5> QED
          BY <3>1, <3>2, <4>2, <5>1, WrittenStays
      <4> QED
        BY <4>1, <4>2
    <3>3. ASSUME NEW d \in Conns, NEW o \in OpenIds, o \notin odd', told'[d] # Nil,
                 told'[d].openid = o
          PROVE  Written(o)' /\ UidOf(o)' = told'[d].uid /\ told'[d].gold = InitialGold
      <4>1. CASE d = c
        BY <1>3, <2>2, <3>3, <4>1, ToldArePlaced
      <4>2. CASE d # c
        <5>1. Written(o) /\ UidOf(o) = told[d].uid /\ told[d].gold = InitialGold
          BY <3>1, <3>3, <4>2 DEF AccountInv, LoginsFindTheUser
        <5> QED
          BY <3>1, <3>3, <4>2, <5>1, WrittenStays
      <4> QED
        BY <4>1, <4>2
    <3> QED
      BY <1>3, <2>2, <3>2, <3>3, WritersArePlaced DEF LoginsFindTheUser
  <2> QED
    BY <2>1, <2>2
<1> QED
  BY <1>1, <1>2, <1>3, StepCases DEF AccountInv, LoginInv, UidInv

(* The hash of an openid whose first login nothing disturbed is written before       *)
(* any AuthResponse names its user, and is written over by nobody.                   *)
THEOREM AccountsCorrect == AccountSpec => []AccountInv
BY AccountInvInit, AccountInvStep, PTL DEF AccountSpec

(* HandleAuthRequest tells whoever logs in the user of his openid, with the gold     *)
(* that user was given, unless that openid's first login was disturbed.              *)
THEOREM EverybodyKeepsHisAccount == AccountSpec => []SameAccountEveryLogin
<1>1. AccountInv => SameAccountEveryLogin
  <2> SUFFICES ASSUME AccountInv, NEW c \in Conns, told[c] # Nil, told[c].openid \notin odd
               PROVE  /\ openidToUid[told[c].openid] # Missing
                      /\ openidToUid[told[c].openid].value = told[c].uid
                      /\ told[c].gold = InitialGold
    BY DEF SameAccountEveryLogin
  <2>1. told[c].openid \in OpenIds
    BY DEF AccountInv, LoginInv, UidInv, TypeInv, TypeOK
  <2> QED
    BY <2>1 DEF AccountInv, LoginsFindTheUser, Written, Mapped, UidOf
<1> QED
  BY <1>1, AccountsCorrect, PTL

-----------------------------------------------------------------------------
(* The manager's entries *)

\* The entry of a user leads to a connection whose Player is that user, so that its
\* clean-up removes it.
EntriesAreCleanedUp ==
  /\ \A c \in Conns : c \in players <=> life[c] = "open"
  /\ \A c \in Conns : pc[c] = "store" /\ life[c] # "open" => c \in excused
  /\ \A u \in Uids, c \in Conns : uin_player[u] = c => player[c].uid = u \/ c \in excused
  /\ DeadEntryIsExcused

EntryInv == TypeInv /\ EntriesAreCleanedUp

LEMMA EntryInvInit == AccountInit => EntryInv
BY TypeInvInit, AnswersDiffer
   DEF AccountInit, EntryInv, EntriesAreCleanedUp, DeadEntryIsExcused

(* SetPlayer gives an entry away only as a second user. *)
LEMMA EntriesWithNewPlayer ==
  ASSUME EntryInv, NEW c \in Conns, SetPlayer(c) \/ UNCHANGED <<player, excused>>,
         UNCHANGED <<life, players, uin_player>>,
         \A d \in Conns : pc'[d] = "store" => pc[d] = "store"
  PROVE  EntriesAreCleanedUp'
<1>1. excused \subseteq excused'
  BY DEF SetPlayer
<1>2. \A d \in Conns : player'[d].uid = player[d].uid \/ player[d].uid = 0 \/ d \in excused'
  <2>1. CASE SetPlayer(c)
    <3>1. player[c] \in [uid : 0..MaxUid, openid : OpenIds \cup {Nil}, gold : Nat]
      BY DEF EntryInv, TypeInv, TypeOK
    <3>2. player'[c].uid = req[c].uid /\ \A d \in Conns \ {c} : player'[d] = player[d]
      BY <2>1, <3>1 DEF SetPlayer, EntryInv, TypeInv, TypeOK
    <3>3. player[c].uid = 0 \/ player[c].uid = req[c].uid \/ c \in excused'
      BY <2>1 DEF SetPlayer
    <3> QED
      BY <3>2, <3>3
  <2> QED
    BY <2>1
<1>3. \A u \in Uids : u # 0
  BY DEF Uids
<1> QED
  BY <1>1, <1>2, <1>3 DEF EntryInv, EntriesAreCleanedUp, DeadEntryIsExcused

LEMMA EntriesUntouched ==
  ASSUME EntryInv, UNCHANGED <<excused, life, players, uin_player>>,
         \A d \in Conns : player'[d].uid = player[d].uid,
         \A d \in Conns : pc'[d] = "store" => pc[d] = "store" \/ d \in players
  PROVE  EntriesAreCleanedUp'
BY DEF EntryInv, EntriesAreCleanedUp, DeadEntryIsExcused

LEMMA EntryInvStep == EntryInv /\ [AccountNext]_accountVars => EntryInv'
<1> SUFFICES ASSUME EntryInv, [AccountNext]_accountVars
             PROVE  EntriesAreCleanedUp'
  BY TypeInvStep DEF EntryInv
<1> USE DEF redisVars, managerVars, connVars, history
<1>1. ASSUME NEW o \in OpenIds, NEW t \in Tokens, StoreSession(o, t)
      PROVE  EntriesAreCleanedUp'
  BY <1>1, EntriesUntouched DEF StoreSession
<1>2. ASSUME NEW t \in Tokens, SessionExpires(t)
      PROVE  EntriesAreCleanedUp'
  BY <1>2, EntriesUntouched DEF SessionExpires
<1>3. ASSUME NEW c \in Conns, Accept(c)
      PROVE  EntriesAreCleanedUp'
  BY <1>3 DEF Accept, EntryInv, TypeInv, TypeOK, EntriesAreCleanedUp, DeadEntryIsExcused
<1>4. ASSUME NEW c \in Conns, DeletePlayer(c)
      PROVE  EntriesAreCleanedUp'
  <2>1. /\ excused \subseteq excused' /\ pc' = pc /\ player' = player /\ uin_player' = uin_player
        /\ pc[c] = "store" => c \in excused'
    BY <1>4 DEF DeletePlayer
  <2>2. life'[c] = "closing" /\ c \notin players'
        /\ \A d \in Conns \ {c} : life'[d] = life[d] /\ (d \in players' <=> d \in players)
    BY <1>4 DEF DeletePlayer, EntryInv, TypeInv, TypeOK
  <2> QED
    BY <2>1, <2>2 DEF EntryInv, EntriesAreCleanedUp, DeadEntryIsExcused
<1>5. ASSUME NEW c \in Conns, DeleteUin(c)
      PROVE  EntriesAreCleanedUp'
  <2>1. /\ UNCHANGED <<excused, pc, player, players>>
        /\ life[c] = "closing" /\ life'[c] = "closed"
        /\ \A d \in Conns \ {c} : life'[d] = life[d]
    BY <1>5 DEF DeleteUin, EntryInv, TypeInv, TypeOK
  <2>2. \A u \in Uids : uin_player'[u] = IF u = player[c].uid THEN Nil ELSE uin_player[u]
    BY <1>5 DEF DeleteUin
  <2>3. \A d \in Conns : Nil # d
    BY AnswersDiffer
  <2>4. \A u \in Uids, d \in Conns : uin_player'[u] = d => uin_player[u] = d /\ u # player[c].uid
    BY <2>2, <2>3
  <2>5. \A u \in Uids, d \in Conns : uin_player'[u] = d => player'[d].uid = u \/ d \in excused'
    BY <2>1, <2>4 DEF EntryInv, EntriesAreCleanedUp
  <2>6. DeadEntryIsExcused'
    BY <2>1, <2>4, <2>5 DEF EntryInv, EntriesAreCleanedUp, DeadEntryIsExcused
  <2> QED
    BY <2>1, <2>5, <2>6 DEF EntryInv, EntriesAreCleanedUp
<1>6. ASSUME NEW c \in Conns, NEW t \in Tokens, HandleAuthRequest(c, t)
      PROVE  EntriesAreCleanedUp'
  <2>1. AfterAuth(c)
    BY <1>6, AuthEffect DEF EntryInv, TypeInv
  <2>2. \A d \in Conns : pc'[d] = "store" => pc[d] = "store"
    BY <2>1 DEF AfterAuth, Respond, EntryInv, TypeInv, TypeOK
  <2> QED
    BY <1>6, <2>2, EntriesUntouched DEF HandleAuthRequest
<1>7. ASSUME NEW c \in Conns, FindUser(c) \/ GenerateNewUserId(c) \/ MapOpenid(c)
      PROVE  EntriesAreCleanedUp'
  <2>1. req[c].openid \in OpenIds
    BY <1>7 DEF FindUser, GenerateNewUserId, MapOpenid, EntryInv, TypeInv, RequestsAreTyped
  <2>2. AfterFind(c) \/ AfterGenerate(c) \/ AfterMap(c)
    BY <1>7, <2>1, FindEffect, GenerateEffect, MapEffect DEF EntryInv, TypeInv
  <2>3. \A d \in Conns : pc'[d] = "store" => pc[d] = "store"
    BY <2>2 DEF AfterFind, AfterGenerate, AfterMap, Respond, EntryInv, TypeInv, TypeOK
  <2> QED
    BY <1>7, <2>3, EntriesUntouched DEF FindUser, GenerateNewUserId, MapOpenid
<1>8. ASSUME NEW c \in Conns, SaveUserData(c) \/ LoadFound(c)
      PROVE  EntriesAreCleanedUp'
  <2>1. req[c].openid \in OpenIds /\ req[c].uid \in Uids
    BY <1>8 DEF SaveUserData, LoadFound, EntryInv, TypeInv, RequestsAreTyped, AtUser
  <2>2. AfterSave(c) \/ AfterLoadFound(c)
    BY <1>8, <2>1, SaveEffect, LoadFoundEffect DEF EntryInv, TypeInv
  <2>3. /\ SetPlayer(c) \/ UNCHANGED <<player, excused>>
        /\ \A d \in Conns : pc'[d] = "store" => pc[d] = "store"
    BY <2>2 DEF AfterSave, AfterLoadFound, Respond, EntryInv, TypeInv, TypeOK
  <2>4. UNCHANGED <<life, players, uin_player>>
    BY <1>8 DEF SaveUserData, LoadFound
  <2> QED
    BY <2>3, <2>4, EntriesWithNewPlayer
<1>9. ASSUME NEW c \in Conns, LoadUserData(c)
      PROVE  EntriesAreCleanedUp'
  <2>1. AfterLoad(c)
    BY <1>9, LoadEffect DEF EntryInv, TypeInv
  <2>2. /\ \A d \in Conns : player'[d].uid = player[d].uid
        /\ \A d \in Conns : pc'[d] = "store" => pc[d] = "store"
    <3>1. PICK g : player' = player \/ player' = [player EXCEPT ![c].gold = g]
      BY <2>1 DEF AfterLoad
    <3>2. \A d \in Conns : player'[d].uid = player[d].uid
      BY <3>1 DEF EntryInv, TypeInv, TypeOK
    <3>3. \A d \in Conns : pc'[d] = "store" => pc[d] = "store"
      BY <2>1 DEF AfterLoad, Respond, EntryInv, TypeInv, TypeOK
    <3> QED
      BY <3>2, <3>3
  <2> QED
    BY <1>9, <2>2, EntriesUntouched DEF LoadUserData
<1>10. ASSUME NEW c \in Conns, LookUpPlayer(c)
       PROVE  EntriesAreCleanedUp'
  <2>1. \A d \in Conns : pc'[d] = "store" => pc[d] = "store" \/ d \in players
    BY <1>10 DEF LookUpPlayer, Proceed, SendAuthSuccessResponse, Respond, EntryInv, TypeInv, TypeOK
  <2> QED
    BY <1>10, <2>1, EntriesUntouched DEF LookUpPlayer
<1>11. ASSUME NEW c \in Conns, StorePlayer(c)
       PROVE  EntriesAreCleanedUp'
  <2>1. /\ UNCHANGED <<excused, life, players, player>> /\ pc[c] = "store"
        /\ uin_player' = [uin_player EXCEPT ![player[c].uid] = c]
    BY <1>11 DEF StorePlayer
  <2>2. \A d \in Conns : pc'[d] = "store" => pc[d] = "store"
    BY <1>11 DEF StorePlayer, SendAuthSuccessResponse, Respond, EntryInv, TypeInv, TypeOK
  <2>3. \A u \in Uids, d \in Conns :
          uin_player'[u] = d => uin_player[u] = d \/ (d = c /\ player[c].uid = u)
    BY <2>1 DEF EntryInv, TypeInv, TypeOK
  <2>4. life[c] = "closed" => c \in excused
    BY <2>1 DEF EntryInv, EntriesAreCleanedUp
  <2> QED
    BY <2>1, <2>2, <2>3, <2>4 DEF EntryInv, EntriesAreCleanedUp, DeadEntryIsExcused
<1>12. CASE Crash
  BY <1>12, AnswersDiffer DEF Crash, EntriesAreCleanedUp, DeadEntryIsExcused
<1>13. CASE UNCHANGED accountVars
  BY <1>13, EntriesUntouched DEF accountVars
<1> QED
  BY <1>1, <1>2, <1>3, <1>4, <1>5, <1>6, <1>7, <1>8, <1>9, <1>10, <1>11, <1>12, <1>13
     DEF AccountNext, LoginNext, HandlerNext, ProcessGuestLogin, ProcessNormalLogin

(* DeletePlayer leaves an entry of a connection that is gone only if that connection *)
(* logged in as two users, or ended between the two steps of OnPlayerUinSet.         *)
THEOREM DeadEntriesAreExcused == AccountSpec => []DeadEntryIsExcused
<1>1. AccountSpec => []EntryInv
  BY EntryInvInit, EntryInvStep, PTL DEF AccountSpec
<1>2. EntryInv => DeadEntryIsExcused
  BY DEF EntryInv, EntriesAreCleanedUp
<1> QED
  BY <1>1, <1>2, PTL

-----------------------------------------------------------------------------
(* The accounts implement the directory: a mapping is a gift, everything else    *)
(* leaves the owners alone.                                                      *)

Owner(o) == IF openidToUid[o] = Missing THEN NoAccount ELSE openidToUid[o].value
Fresh == {u \in Uids : u > userUid} \cup {req[c].uid : c \in {d \in Conns : pc[d] = "map"}}

LEMMA DirectoryInit == AccountInit => Directory!Init
BY DEF AccountInit, Directory!Init, Uids, NoAccount

LEMMA DisturbStep ==
  ASSUME LoginInv, openidToUid' = openidToUid, Fresh' \subseteq Fresh,
         odd \subseteq odd', odd' \subseteq OpenIds
  PROVE  Directory!Disturb
BY DEF Directory!Disturb, Fresh

LEMMA GiveStep ==
  ASSUME LoginInv, TypeOK', NEW c \in Conns, MapStep(c), MappedTo(req[c].openid, req[c].uid)
  PROVE  \E p \in OpenIds, a \in Uids : Directory!Give(p, a)
<1> USE DEF LoginInv, UidInv
<1>1. PICK o \in OpenIds, u \in Uids : o = req[c].openid /\ u = req[c].uid
  BY DEF MapStep, TypeInv, RequestsAreTyped, AtUser
<1>2. pc[c] = "map" /\ userUid' = userUid /\ odd' \in {odd, odd \cup {o}}
  BY <1>1 DEF MapStep, AfterMap
<1>3. openidToUid[o] = Missing \/ o \in odd
  BY <1>1, <1>2 DEF FirstLoginsAreAlone, Mapped
<1>4. u \in 1..userUid
  BY <1>1, <1>2 DEF UidsAreFresh, CounterIsAbove
<1>5. \A d \in Conns : pc[d] = "map" /\ d # c => req[d].uid # u
  BY <1>1, <1>2 DEF UidsAreFresh, PendingIsSingle
<1>6. \A d \in Conns : pc'[d] = "map" <=> pc[d] = "map" /\ d # c
  BY <1>2 DEF MapStep, AfterMap, Respond, TypeInv, TypeOK
<1>7. \A d \in Conns : d # c => req'[d] = req[d]
  BY DEF MapStep, AfterMap, Respond, TypeInv, TypeOK
<1>8. Fresh' = Fresh \ {u}
  <2>1. \A x \in Fresh' : x \in Fresh /\ x # u
    <3>1. userUid \in Nat /\ Uids \subseteq Nat
      BY DEF Uids, TypeInv, TypeOK
    <3> SUFFICES ASSUME NEW x \in Fresh'
                 PROVE  x \in Fresh /\ x # u
      OBVIOUS
    <3>2. CASE x \in Uids /\ x > userUid'
      BY <1>2, <1>4, <3>1, <3>2 DEF Fresh
    <3>3. CASE ~(x \in Uids /\ x > userUid')
      <4>1. PICK d \in Conns : pc'[d] = "map" /\ x = req'[d].uid
        BY <3>3 DEF Fresh
      <4> QED
        BY <1>5, <1>6, <1>7, <4>1 DEF Fresh
    <3> QED
      BY <3>2, <3>3
  <2>2. \A x \in Fresh : x # u => x \in Fresh'
    BY <1>1, <1>2, <1>6, <1>7 DEF Fresh
  <2> QED
    BY <2>1, <2>2
<1>9. u \in Fresh
  BY <1>1, <1>2 DEF Fresh
<1>10. [value |-> u, ttl |-> 0] # Missing
  <2>1. [value |-> u, ttl |-> 0] \in [value : OpenIds \cup 1..MaxUid, ttl : {0, 1}]
    BY DEF Uids
  <2> QED
    BY <2>1, AnswersDiffer
<1>11. [q \in OpenIds |-> Owner(q)]' = [[q \in OpenIds |-> Owner(q)] EXCEPT ![o] = u]
  BY <1>1, <1>10 DEF MappedTo, Owner, TypeInv, TypeOK
<1>12. Directory!Give(o, u)
  BY <1>2, <1>3, <1>8, <1>9, <1>11 DEF Directory!Give, Fresh, Owner, NoAccount
<1> QED
  BY <1>12

LEMMA DirectoryStep ==
  ASSUME LoginInv, LoginInv', [AccountNext]_accountVars
  PROVE  [Directory!Next]_(Directory!directory)
<1> USE DEF LoginInv, UidInv
<1>1. odd' \subseteq OpenIds /\ TypeOK'
  BY DEF TypeInv, TypeOK
<1>2. CASE Quiet
  BY <1>2 DEF Quiet, Directory!directory
<1>3. CASE Crash
  <2>1. openidToUid' = openidToUid /\ userUid' = userUid /\ odd \subseteq odd'
        /\ \A c \in Conns : pc'[c] = "idle"
    BY <1>3 DEF Crash, redisVars
  <2>2. Fresh' \subseteq Fresh
    BY <2>1 DEF Fresh
  <2> QED
    BY <1>1, <2>1, <2>2, DisturbStep DEF Directory!Next
<1>4. ASSUME NEW c \in Conns, LoginStep(c)
      PROVE  Directory!Next
  <2>1. CASE MapStep(c) /\ MappedTo(req[c].openid, req[c].uid)
    BY <1>1, <2>1, GiveStep DEF Directory!Next
  <2>2. CASE ~(MapStep(c) /\ MappedTo(req[c].openid, req[c].uid))
    <3>1. openidToUid' = openidToUid
      BY <1>4, <2>2, OnlyMapMaps
    <3>2. odd \subseteq odd' /\ \A d \in Conns \ {c} : pc'[d] = pc[d] /\ req'[d] = req[d]
      BY <1>4, StepIsLocal
    <3>3. pc'[c] = "map" => GenerateStep(c) /\ pc'[c] = "map"
      BY <1>4, FirstLoginSteps DEF LoginStep, AuthStep, FindStep, MapStep, SaveStep, LoadFoundStep,
                                   LoadStep, EndStep
    <3>4. userUid \in Nat /\ userUid' \in Nat /\ userUid' >= userUid
      BY <1>4, ConstantsAreSane DEF LoginStep, AuthStep, FindStep, GenerateStep, AfterGenerate,
            MapStep, SaveStep, LoadFoundStep, LoadStep, EndStep, TypeInv, TypeOK
    <3>5. pc'[c] = "map" => req'[c].uid = userUid + 1 /\ userUid + 1 \in Uids
      BY <3>3 DEF GenerateStep, AfterGenerate, Respond, Uids, TypeInv, TypeOK
    <3>6. Fresh' \subseteq Fresh
      <4> SUFFICES ASSUME NEW x \in Fresh'
                   PROVE  x \in Fresh
        OBVIOUS
      <4>1. Uids \subseteq Nat
        BY DEF Uids
      <4>2. CASE x \in Uids /\ x > userUid'
        BY <3>4, <4>1, <4>2 DEF Fresh
      <4>3. CASE ~(x \in Uids /\ x > userUid')
        <5>1. PICK d \in Conns : pc'[d] = "map" /\ x = req'[d].uid
          BY <4>3 DEF Fresh
        <5>2. CASE d = c
          BY <3>4, <3>5, <4>1, <5>1, <5>2 DEF Fresh
        <5>3. CASE d # c
          BY <3>2, <5>1, <5>3 DEF Fresh
        <5> QED
          BY <5>2, <5>3
      <4> QED
        BY <4>2, <4>3
    <3> QED
      BY <1>1, <3>1, <3>2, <3>6, DisturbStep DEF Directory!Next
  <2> QED
    BY <2>1, <2>2
<1> QED
  BY <1>2, <1>3, <1>4, StepCases

(* The logins implement the directory of accounts: SET openid_to_uid is the gift,    *)
(* every other command and the restart leave everybody the account he has.           *)
THEOREM LoginsImplementTheDirectory == AccountSpec => AccountsAreKept
<1>1. AccountSpec => []LoginInv
  BY LoginInvInit, LoginInvStep, PTL DEF AccountSpec
<1>2. LoginInv /\ LoginInv' /\ [AccountNext]_accountVars => [Directory!Next]_(Directory!directory)
  BY DirectoryStep
<1> QED
  BY <1>1, <1>2, DirectoryInit, PTL DEF AccountSpec, AccountsAreKept, Directory!Spec

=============================================================================
