----------------------------- MODULE LobbyLogin -----------------------------
(***************************************************************************)
(* The sessions of the gateway and the clients of the lobby                *)
(* (gateway/client_manager.cpp, lobby/client_manager.cpp): a connection    *)
(* logs in to an account in two steps, a login that comes from elsewhere   *)
(* replaces the connection before it, a connection that goes is told of.   *)
(* Everything the two processes know of each other is in messages that     *)
(* cross.  Both processes may die and start again, and Redis may go away.  *)
(*                                                                         *)
(* An account is an openid.  Left out: the rooms of the clients (an        *)
(* offline client may be evicted at any time, or never), what a client     *)
(* sends while he plays, and error replies of a Redis that is connected.   *)
(***************************************************************************)
EXTENDS Naturals, Sequences, SequencesExt

CONSTANTS
  Accounts,
  Conns,      \* the connection ids; each is given to one connection
  MaxLogins,  \* how many logins are tried: a bound of the model
  MaxCrashes, \* how often a process dies: a bound of the model
  None

ASSUME LoginAssumption ==
  /\ None \notin Accounts \union Conns
  /\ MaxLogins \in Nat /\ MaxCrashes \in Nat

VARIABLES
  session,  \* gateway, m_clients: the state of each connection
  cuidAt,   \* gateway: the account whose cuid the session has, or None
  dying,    \* gateway, m_dyingClients
  toLobby, toGateway, \* the messages under way, in order
  byOpenid, \* lobby, the index by account
  byCuid, byCcid, \* lobby, the other two, as sets of pairs
  client,   \* lobby: the Client object of each account in memory
  counter,  \* m_uniqueIdCounter, and what Redis has of it
  stored,   \* Redis: the cuid in the entry of each account, 0 without one
  redisUp,  \* the lobby's connection to Redis, which it never renews
  logins,   \* how many logins have been tried
  crashes,  \* how many processes have died
  orphans,  \* history: sessions that were lost with the gateway
  forgotten \* history: sessions that were lost by the lobby

gatewayVars == <<session, cuidAt, dying>>
indexVars   == <<byOpenid, byCuid, byCcid>>
lobbyVars   == <<indexVars, client>>
redisVars   == <<counter, stored, redisUp>>
historyVars == <<crashes, orphans, forgotten>>
vars == <<gatewayVars, toLobby, toGateway, lobbyVars, redisVars, logins, historyVars>>

NoClient == [ccid |-> None, cuid |-> 0, online |-> FALSE]

LoginQuest(c, a)    == [kind |-> "LoginQuest", ccid |-> c, openid |-> a]
Disconnected(c)     == [kind |-> "ClientDisconnected", ccid |-> c, openid |-> None]
BeReplaced(c)       == [kind |-> "ClientBeReplaced", ccid |-> c, openid |-> None]
RetLogin(c, a)      == [kind |-> "RetLoginQuest", ccid |-> c, openid |-> a]

Live(c) == session[c] \in {"logining", "playing"}

Init ==
  /\ session = [c \in Conns |-> "unused"]
  /\ cuidAt = [c \in Conns |-> None]
  /\ dying = {}
  /\ toLobby = <<>> /\ toGateway = <<>>
  /\ byOpenid = {} /\ byCuid = {} /\ byCcid = {}
  /\ client = [a \in Accounts |-> NoClient]
  /\ counter = 0
  /\ stored = [a \in Accounts |-> 0]
  /\ redisUp = TRUE
  /\ logins = 0
  /\ crashes = 0 /\ orphans = {} /\ forgotten = {}

-----------------------------------------------------------------------------
(*** The gateway ***)

\* A client whose connection cannot be added is erased, and the lobby is told.
ClientOnline(c) ==
  /\ session[c] = "unused"
  /\ \/ /\ session' = [session EXCEPT ![c] = "logining"]
        /\ UNCHANGED toLobby
     \/ /\ session' = [session EXCEPT ![c] = "gone"]
        /\ toLobby' = Append(toLobby, Disconnected(c))
  /\ UNCHANGED <<cuidAt, dying, toGateway, lobbyVars, redisVars, logins, historyVars>>

EraseLater(c) ==
  /\ dying' = dying \union {c}
  /\ UNCHANGED <<session, cuidAt>>

\* The connection goes (clientOffline, in the network thread), or the client
\* says goodbye (proto_C_LoginOut).
ClientOffline(c) ==
  /\ Live(c)
  /\ EraseLater(c)
  /\ UNCHANGED <<toLobby, toGateway, lobbyVars, redisVars, logins, historyVars>>

ProtoLogin_OfTheDead(c, a) ==
  /\ session[c] # "unused"
  /\ logins < MaxLogins /\ logins' = logins + 1
  /\ toLobby' = Append(toLobby, LoginQuest(c, a))
  /\ UNCHANGED <<gatewayVars, toGateway, lobbyVars, redisVars, historyVars>>

\* The login may be asked for by a session that has been logged in, or is about
\* to be erased.  The login service answers yes or no.
ProtoLogin(c, a) ==
  /\ Live(c)
  /\ logins < MaxLogins /\ logins' = logins + 1
  /\ \/ toLobby' = Append(toLobby, LoginQuest(c, a)) /\ UNCHANGED gatewayVars
     \/ EraseLater(c) /\ UNCHANGED toLobby
  /\ UNCHANGED <<toGateway, lobbyVars, redisVars, historyVars>>

\* Erases what is to be erased, and tells the lobby.
TimerExec ==
  /\ dying # {}
  /\ LET lost == {c \in dying : Live(c)} IN
       /\ session' = [c \in Conns |-> IF c \in lost THEN "gone" ELSE session[c]]
       /\ \E order \in SetToSeqs(lost) :
            toLobby' = toLobby \o [i \in 1..Len(order) |-> Disconnected(order[i])]
  /\ dying' = {}
  /\ UNCHANGED <<cuidAt, toGateway, lobbyVars, redisVars, logins, historyVars>>

\* A refused login makes a session "playing" too, with the cuid of nobody.
ProtoRetLoginQuest(m) ==
  /\ m.kind = "RetLoginQuest"
  /\ IF Live(m.ccid)
       THEN /\ session' = [session EXCEPT ![m.ccid] = "playing"]
            /\ cuidAt' = [cuidAt EXCEPT ![m.ccid] = m.openid]
            /\ UNCHANGED dying
       ELSE UNCHANGED gatewayVars

ProtoClientBeReplaced(m) ==
  /\ m.kind = "ClientBeReplaced"
  /\ IF Live(m.ccid) THEN EraseLater(m.ccid) ELSE UNCHANGED gatewayVars

GatewayReceives ==
  /\ toGateway # <<>>
  /\ ProtoRetLoginQuest(Head(toGateway)) \/ ProtoClientBeReplaced(Head(toGateway))
  /\ toGateway' = Tail(toGateway)
  /\ UNCHANGED <<toLobby, lobbyVars, redisVars, logins, historyVars>>

-----------------------------------------------------------------------------
(*** The lobby ***)

\* FastTravelUnorderedMap::insert refuses a key that is there.  The three
\* indexes, given as they are before, take a client all or not at all.
MayInsert(openids, cuids, ccids, a, cuid, c) ==
  /\ a \notin openids
  /\ \A pair \in cuids : pair[1] # cuid
  /\ \A pair \in ccids : pair[1] # c

Insert(openids, cuids, ccids, a, cuid, c) ==
  /\ byOpenid' = openids \union {a}
  /\ byCuid' = cuids \union {<<cuid, a>>}
  /\ byCcid' = ccids \union {<<c, a>>}

WithoutKey(index, key) == {pair \in index : pair[1] # key}

Erase_FromTwo(a, cuid, c) ==
  /\ byOpenid' = byOpenid \ {a}
  /\ byCuid' = WithoutKey(byCuid, cuid)
  /\ byCcid' = byCcid

\* erase: by the keys that the client has now
Erase(a, cuid, c) ==
  /\ byOpenid' = byOpenid \ {a}
  /\ byCuid' = WithoutKey(byCuid, cuid)
  /\ byCcid' = WithoutKey(byCcid, c)

LoggedIn(c, a, cuid) ==
  /\ client' = [client EXCEPT ![a] = [ccid |-> c, cuid |-> cuid, online |-> TRUE]]
  /\ stored' = [stored EXCEPT ![a] = cuid]
  /\ forgotten' = forgotten \ {c}

KnownToRedis(a) == redisUp /\ stored[a] # 0

\* An account that is not in memory is loaded, or new; an entry that cannot be
\* read looks like a new account, whose save then fails as well.
LoginFromRedis(c, a) ==
  LET known == KnownToRedis(a)
      cuid  == IF known THEN stored[a] ELSE counter + 1 IN
  /\ a \notin byOpenid
  /\ counter' = IF redisUp /\ ~known THEN counter + 1 ELSE counter
  /\ IF redisUp /\ MayInsert(byOpenid, byCuid, byCcid, a, cuid, c)
       THEN /\ Insert(byOpenid, byCuid, byCcid, a, cuid, c)
            /\ LoggedIn(c, a, cuid)
            /\ toGateway' = Append(toGateway, RetLogin(c, a))
       ELSE /\ toGateway' = Append(toGateway, RetLogin(c, None))
            /\ UNCHANGED <<lobbyVars, stored, forgotten>>

Replaced_TooLate(c, old) == BeReplaced(c)

\* whom proto_LoginQuest tells to go: it looks before the client gets his new id
Replaced(c, old) == BeReplaced(old.ccid)

\* An account in memory leaves the indexes under its old connection id, which is
\* told to go, and enters them under the new one.  If that is refused, or the
\* client cannot be saved, it is in memory no more.
LoginReplaces(c, a) ==
  LET old   == client[a]
      cuids == WithoutKey(byCuid, old.cuid)
      ccids == WithoutKey(byCcid, old.ccid) IN
  /\ a \in byOpenid
  /\ IF redisUp /\ MayInsert(byOpenid \ {a}, cuids, ccids, a, old.cuid, c)
       THEN /\ Insert(byOpenid \ {a}, cuids, ccids, a, old.cuid, c)
            /\ LoggedIn(c, a, old.cuid)
            /\ toGateway' = toGateway \o <<Replaced(c, old), RetLogin(c, a)>>
       ELSE /\ Erase(a, old.cuid, old.ccid)
            /\ client' = [client EXCEPT ![a] = NoClient]
            /\ toGateway' = toGateway \o <<Replaced(c, old), RetLogin(c, None)>>
            /\ UNCHANGED <<stored, forgotten>>
  /\ UNCHANGED counter

ProtoLoginQuest(m) ==
  /\ m.kind = "LoginQuest"
  /\ LoginFromRedis(m.ccid, m.openid) \/ LoginReplaces(m.ccid, m.openid)
  /\ UNCHANGED redisUp

\* The client stays in memory, with the time he left at.
ProtoClientDisconnected(m) ==
  /\ m.kind = "ClientDisconnected"
  /\ client' = [a \in Accounts |-> IF <<m.ccid, a>> \in byCcid
                                     THEN [client[a] EXCEPT !.online = FALSE]
                                     ELSE client[a]]
  /\ UNCHANGED <<toGateway, indexVars, redisVars, forgotten>>

LobbyReceives ==
  /\ toLobby # <<>>
  /\ ProtoLoginQuest(Head(toLobby)) \/ ProtoClientDisconnected(Head(toLobby))
  /\ toLobby' = Tail(toLobby)
  /\ UNCHANGED <<gatewayVars, logins, crashes, orphans>>

\* timerExecAll, of a client who is in no room
Evict(a) ==
  /\ a \in byOpenid /\ ~client[a].online
  /\ Erase(a, client[a].cuid, client[a].ccid)
  /\ client' = [client EXCEPT ![a] = NoClient]
  /\ UNCHANGED <<gatewayVars, toLobby, toGateway, redisVars, logins, historyVars>>

-----------------------------------------------------------------------------
(*** What goes wrong ***)

\* All the connections go with the gateway, and the lobby is not told.  Of what
\* it sent a part arrives; what the lobby sent meanwhile is for nobody.
GatewayDies ==
  /\ crashes < MaxCrashes /\ crashes' = crashes + 1
  /\ session' = [c \in Conns |-> IF Live(c) THEN "gone" ELSE session[c]]
  /\ dying' = {}
  /\ \E n \in 0..Len(toLobby) :
       /\ toLobby' = SubSeq(toLobby, 1, n)
       \* a disconnection that is lost leaves an orphan too
       /\ orphans' = orphans \union {c \in Conns : Live(c)}
                       \union {toLobby[i].ccid : i \in (n+1)..Len(toLobby)}
  /\ toGateway' = <<>>
  /\ UNCHANGED <<cuidAt, lobbyVars, redisVars, logins, forgotten>>

\* recoveryFromRedis reads the counter, and no clients.
CounterAtStart == counter

\* The router drops what it cannot deliver, so the new lobby receives the
\* latest messages only.
LobbyDies ==
  /\ crashes < MaxCrashes /\ crashes' = crashes + 1
  /\ byOpenid' = {} /\ byCuid' = {} /\ byCcid' = {}
  /\ client' = [a \in Accounts |-> NoClient]
  /\ \E n \in 0..Len(toLobby) : toLobby' = SubSeq(toLobby, n + 1, Len(toLobby))
  /\ \E n \in 0..Len(toGateway) : toGateway' = SubSeq(toGateway, 1, n)
  /\ redisUp' = TRUE
  /\ forgotten' = {c \in Conns : session[c] # "unused"}
  /\ counter' = CounterAtStart
  /\ UNCHANGED <<gatewayVars, stored, logins, orphans>>

\* The context of hiredis is not used again after an error.
RedisFails ==
  /\ redisUp
  /\ redisUp' = FALSE
  /\ UNCHANGED <<gatewayVars, toLobby, toGateway, lobbyVars, counter, stored, logins,
                 historyVars>>

Next ==
  \/ \E c \in Conns : ClientOnline(c) \/ ClientOffline(c)
  \/ \E c \in Conns, a \in Accounts : ProtoLogin(c, a)
  \/ TimerExec \/ GatewayReceives
  \/ LobbyReceives
  \/ \E a \in Accounts : Evict(a)
  \/ GatewayDies \/ LobbyDies \/ RedisFails

Spec == Init /\ [][Next]_vars

-----------------------------------------------------------------------------
(*** Safety ***)

\* The three indexes of the lobby hold the same clients, each under the keys he
\* has now, although a login changes a key of a client who is in them
\* (insert, erase, proto_LoginQuest).
IndexesAgree ==
  /\ byCuid = {<<client[a].cuid, a>> : a \in byOpenid}
  /\ byCcid = {<<client[a].ccid, a>> : a \in byOpenid}
  /\ \A a, b \in byOpenid : a # b => /\ client[a].ccid # client[b].ccid
                                     /\ client[a].cuid # client[b].cuid

UnderWay(queue, message) == \E i \in 1..Len(queue) : queue[i] = message

\* Whom the lobby takes to be online has his connection at the gateway, or the
\* lobby is about to be told, unless the gateway died (proto_C_Login and erase
\* of the gateway, proto_LoginQuest and proto_ClientDisconnected of the lobby).
OnlineIsConnected ==
  \A a \in byOpenid :
    client[a].online =>
      LET c == client[a].ccid IN
      Live(c) \/ UnderWay(toLobby, Disconnected(c)) \/ c \in orphans

\* A session that plays an account is the one the lobby has for it, or is about
\* to go, or to be told that it plays another one: the newest login wins
\* (ClientBeReplaced, proto_RetLoginQuest).
PlayingIsKnown ==
  \A c \in Conns :
    session[c] = "playing" /\ cuidAt[c] # None =>
      \/ cuidAt[c] \in byOpenid /\ client[cuidAt[c]].ccid = c /\ client[cuidAt[c]].online
      \/ c \in dying \/ UnderWay(toGateway, BeReplaced(c))
      \/ \E a \in Accounts \ {cuidAt[c]} : UnderWay(toGateway, RetLogin(c, a))
      \/ c \in forgotten

\* No two accounts have the same cuid, whatever has failed and started again
\* (getClientUniqueId writes the counter before it is used).
CuidsAreUnique ==
  /\ \A a, b \in Accounts : a # b /\ stored[a] # 0 => stored[a] # stored[b]
  /\ \A a \in byOpenid : stored[a] = client[a].cuid

=============================================================================
