-------------------------- MODULE LobbyLoginProofs --------------------------
(***************************************************************************)
(* The sessions of the gateway and the clients of the lobby stay in step,  *)
(* for any number of accounts, connections, logins and crashes.            *)
(***************************************************************************)
EXTENDS LobbyLogin, FiniteSetTheorems, SequenceTheorems, TLAPS

LobbyMessages ==
  {LoginQuest(c, a) : c \in Conns, a \in Accounts} \union {Disconnected(c) : c \in Conns}

GatewayMessages ==
  {RetLogin(c, a) : c \in Conns, a \in Accounts \union {None}}
    \union {BeReplaced(c) : c \in Conns}

Sessions == {"unused", "logining", "playing", "gone"}
ClientSet == [ccid : Conns \union {None}, cuid : Nat, online : BOOLEAN]

GatewayTypes ==
  /\ session \in [Conns -> Sessions]
  /\ cuidAt \in [Conns -> Accounts \union {None}]
  /\ dying \subseteq Conns /\ IsFiniteSet(dying)

QueueTypes ==
  /\ toLobby \in Seq(LobbyMessages)
  /\ toGateway \in Seq(GatewayMessages)

LobbyTypes ==
  /\ byOpenid \subseteq Accounts
  /\ client \in [Accounts -> ClientSet]
  /\ \A a \in byOpenid : client[a].ccid \in Conns
  /\ counter \in Nat
  /\ stored \in [Accounts -> Nat]

TypeInv == GatewayTypes /\ QueueTypes /\ LobbyTypes

-----------------------------------------------------------------------------
(*** Facts about the queues ***)

LEMMA MessageKinds ==
  /\ \A m \in LobbyMessages :
       \/ m.kind = "LoginQuest" /\ \E c \in Conns, a \in Accounts : m = LoginQuest(c, a)
       \/ m.kind = "ClientDisconnected" /\ \E c \in Conns : m = Disconnected(c)
  /\ \A m \in GatewayMessages :
       \/ /\ m.kind = "RetLoginQuest"
          /\ \E c \in Conns, a \in Accounts \union {None} : m = RetLogin(c, a)
       \/ m.kind = "ClientBeReplaced" /\ \E c \in Conns : m = BeReplaced(c)
BY DEF LobbyMessages, GatewayMessages, LoginQuest, Disconnected, RetLogin, BeReplaced

LEMMA TailOf ==
  ASSUME NEW S, NEW q \in Seq(S), q # <<>>
  PROVE  /\ Head(q) \in S /\ Head(q) = q[1]
         /\ Tail(q) \in Seq(S)
         /\ Len(q) \in Nat \ {0} /\ Len(Tail(q)) = Len(q) - 1
         /\ \A i \in 1 .. Len(Tail(q)) : Tail(q)[i] = q[i + 1]
BY HeadTailProperties, EmptySeq

\* What an order of a finite set has in it
LEMMA OrderHasAll ==
  ASSUME NEW S, IsFiniteSet(S), NEW order \in SetToSeqs(S)
  PROVE  /\ order \in Seq(S)
         /\ Len(order) \in Nat
         /\ \A x \in S : \E i \in 1 .. Len(order) : order[i] = x
<1> DEFINE D == 1 .. Cardinality(S)
<1>1. Cardinality(S) \in Nat
  BY FS_CardinalityType
<1>2. order \in [D -> S] /\ \A i, j \in D : i # j => order[i] # order[j]
  BY DEF SetToSeqs
<1>3. order \in Seq(S) /\ Len(order) = Cardinality(S)
  BY <1>1, <1>2
<1>4. order \in Injection(D, S)
  BY <1>2 DEF Injection, IsInjective
<1>5. IsFiniteSet(D) /\ Cardinality(D) = Cardinality(S)
  BY <1>1, FS_Interval
<1>6. order \in Surjection(D, S)
  BY <1>4, <1>5, FS_Injection
<1>7. \A x \in S : \E i \in D : order[i] = x
  BY <1>6 DEF Surjection
<1>8. QED
  BY <1>1, <1>3, <1>7

\* The timer of the gateway tells of all that it erases, and of nobody else.
LEMMA TimerTells ==
  ASSUME GatewayTypes, QueueTypes, TimerExec
  PROVE  /\ toLobby' \in Seq(LobbyMessages)
         /\ Len(toLobby) \in Nat /\ Len(toLobby') \in Nat /\ Len(toLobby') >= Len(toLobby)
         /\ \A i \in 1 .. Len(toLobby) : toLobby'[i] = toLobby[i]
         /\ \A c \in dying : Live(c) =>
              \E j \in (Len(toLobby) + 1) .. Len(toLobby') : toLobby'[j] = Disconnected(c)
         /\ \A j \in (Len(toLobby) + 1) .. Len(toLobby') :
              \E c \in dying : Live(c) /\ toLobby'[j] = Disconnected(c)
<1> DEFINE lost == {c \in dying : Live(c)}
<1>1. PICK order \in SetToSeqs(lost) :
        toLobby' = toLobby \o [i \in 1 .. Len(order) |-> Disconnected(order[i])]
  BY DEF TimerExec
<1>2. IsFiniteSet(lost)
  BY FS_Subset DEF GatewayTypes
<1>3. /\ order \in Seq(lost) /\ Len(order) \in Nat
      /\ \A c \in lost : \E i \in 1 .. Len(order) : order[i] = c
  <2> HIDE DEF lost
  <2>1. QED
    BY <1>1, <1>2, OrderHasAll
<1> DEFINE told == [i \in 1 .. Len(order) |-> Disconnected(order[i])]
<1>4. \A i \in 1 .. Len(order) : order[i] \in lost
  BY <1>3, ElementOfSeq
<1>5. \A i \in 1 .. Len(order) : Disconnected(order[i]) \in LobbyMessages
  BY <1>4 DEF LobbyMessages, GatewayTypes
<1>6. told \in Seq(LobbyMessages) /\ Len(told) = Len(order)
  BY <1>3, <1>5
<1>7. /\ toLobby' \in Seq(LobbyMessages)
      /\ Len(toLobby') = Len(toLobby) + Len(told)
      /\ \A i \in 1 .. Len(toLobby) + Len(told) :
           toLobby'[i] = IF i <= Len(toLobby) THEN toLobby[i] ELSE told[i - Len(toLobby)]
  <2> HIDE DEF told
  <2>1. toLobby \in Seq(LobbyMessages)
    BY DEF QueueTypes
  <2>2. toLobby' = toLobby \o told
    BY <1>1 DEF told
  <2>3. QED
    BY <1>6, <2>1, <2>2, ConcatProperties, ZenonT(60)
<1>8. Len(toLobby) \in Nat
  BY DEF QueueTypes
<1>9. \A i \in 1 .. Len(order) : told[i] = Disconnected(order[i])
  OBVIOUS
<1> HIDE DEF told
<1>10. ASSUME NEW c \in dying, Live(c)
      PROVE  \E j \in (Len(toLobby) + 1) .. Len(toLobby') : toLobby'[j] = Disconnected(c)
  <2>1. PICK i \in 1 .. Len(order) : order[i] = c
    BY <1>3, <1>10
  <2>2. told[i] = Disconnected(c)
    BY <1>9, <2>1
  <2>3. Len(toLobby) + i \in (Len(toLobby) + 1) .. Len(toLobby')
    BY <1>3, <1>6, <1>7, <1>8
  <2>4. toLobby'[Len(toLobby) + i] = Disconnected(c)
    <3>1. /\ Len(toLobby) + i \in 1 .. Len(toLobby) + Len(told)
          /\ ~(Len(toLobby) + i <= Len(toLobby))
          /\ (Len(toLobby) + i) - Len(toLobby) = i
      BY <1>3, <1>6, <1>8
    <3>2. QED
      BY <1>7, <2>2, <3>1
  <2>5. QED
    BY <2>3, <2>4
<1>11. ASSUME NEW j \in (Len(toLobby) + 1) .. Len(toLobby')
       PROVE  \E c \in dying : Live(c) /\ toLobby'[j] = Disconnected(c)
  <2>1. j - Len(toLobby) \in 1 .. Len(order)
    BY <1>3, <1>6, <1>7, <1>8
  <2>2. toLobby'[j] = told[j - Len(toLobby)]
    BY <1>6, <1>7, <1>8, <2>1
  <2>3. toLobby'[j] = Disconnected(order[j - Len(toLobby)])
    BY <1>9, <2>1, <2>2
  <2>4. QED
    BY <1>4, <2>1, <2>3
<1>12. QED
  BY <1>3, <1>6, <1>7, <1>8, <1>10, <1>11

LEMMA OneMore ==
  ASSUME NEW S, NEW q \in Seq(S), NEW m \in S
  PROVE  /\ Append(q, m) \in Seq(S)
         /\ Len(q) \in Nat /\ Len(Append(q, m)) = Len(q) + 1
         /\ \A i \in 1 .. Len(q) : Append(q, m)[i] = q[i]
         /\ Append(q, m)[Len(q) + 1] = m
OBVIOUS

LEMMA TwoMore ==
  ASSUME NEW S, NEW q \in Seq(S), NEW m \in S, NEW n \in S
  PROVE  /\ q \o <<m, n>> \in Seq(S)
         /\ Len(q) \in Nat /\ Len(q \o <<m, n>>) = Len(q) + 2
         /\ \A i \in 1 .. Len(q) : (q \o <<m, n>>)[i] = q[i]
         /\ (q \o <<m, n>>)[Len(q) + 1] = m
         /\ (q \o <<m, n>>)[Len(q) + 2] = n
OBVIOUS

\* A queue of which a part is lost, at its end or at its beginning
LEMMA PartOf ==
  ASSUME NEW S, NEW q \in Seq(S), NEW n \in 0 .. Len(q)
  PROVE  /\ Len(q) \in Nat
         /\ SubSeq(q, 1, n) \in Seq(S) /\ Len(SubSeq(q, 1, n)) = n
         /\ \A i \in 1 .. n : SubSeq(q, 1, n)[i] = q[i]
         /\ SubSeq(q, n + 1, Len(q)) \in Seq(S) /\ Len(SubSeq(q, n + 1, Len(q))) = Len(q) - n
         /\ \A i \in 1 .. Len(q) - n : SubSeq(q, n + 1, Len(q))[i] = q[i + n]
<1>1. Len(q) \in Nat /\ \A i \in 1 .. Len(q) : q[i] \in S
  BY ElementOfSeq
<1>2. QED
  BY <1>1

-----------------------------------------------------------------------------
(*** The handlers of the lobby ***)

\* What a login does: it is entered under its three keys, or refused.
LEMMA LoginTypes ==
  ASSUME TypeInv, NEW c \in Conns, NEW a \in Accounts,
         LoginFromRedis(c, a) \/ LoginReplaces(c, a)
  PROVE  LobbyTypes' /\ toGateway' \in Seq(GatewayMessages)
<1> USE DEF TypeInv, LobbyTypes, QueueTypes, ClientSet
<1>1. CASE LoginFromRedis(c, a)
  <2>1. RetLogin(c, a) \in GatewayMessages /\ RetLogin(c, None) \in GatewayMessages
    BY DEF GatewayMessages
  <2>2. PICK m \in GatewayMessages : toGateway' = Append(toGateway, m)
    BY <1>1, <2>1 DEF LoginFromRedis
  <2>3. toGateway' \in Seq(GatewayMessages)
    BY <2>2, OneMore
  <2>4. ASSUME UNCHANGED <<lobbyVars, stored>>
        PROVE  LobbyTypes'
    BY <1>1, <2>4 DEF LoginFromRedis, lobbyVars, indexVars
  <2>5. ASSUME NEW cuid \in Nat, byOpenid' = byOpenid \union {a}, LoggedIn(c, a, cuid)
        PROVE  LobbyTypes'
    BY <1>1, <2>5 DEF LoginFromRedis, LoggedIn
  <2>6. ASSUME LoggedIn(c, a, stored[a]) /\ byOpenid' = byOpenid \union {a}
        PROVE  LobbyTypes'
    BY <2>5, <2>6
  <2>7. ASSUME LoggedIn(c, a, counter + 1) /\ byOpenid' = byOpenid \union {a}
        PROVE  LobbyTypes'
    BY <2>5, <2>7
  <2>8. LobbyTypes'
    BY <1>1, <2>4, <2>6, <2>7 DEF LoginFromRedis, Insert
  <2>9. QED
    BY <2>3, <2>8
<1>2. CASE LoginReplaces(c, a)
  <2>1. /\ RetLogin(c, a) \in GatewayMessages /\ RetLogin(c, None) \in GatewayMessages
        /\ Replaced(c, client[a]) \in GatewayMessages
    BY <1>2 DEF GatewayMessages, Replaced, LoginReplaces
  <2>2. PICK m \in GatewayMessages, n \in GatewayMessages : toGateway' = toGateway \o <<m, n>>
    BY <1>2, <2>1 DEF LoginReplaces
  <2>3. toGateway' \in Seq(GatewayMessages)
    BY <2>2, TwoMore
  <2>4. ASSUME LoggedIn(c, a, client[a].cuid) /\ byOpenid' = (byOpenid \ {a}) \union {a}
        PROVE  LobbyTypes'
    BY <1>2, <2>4 DEF LoginReplaces, LoggedIn
  <2>5. ASSUME /\ byOpenid' = byOpenid \ {a} /\ client' = [client EXCEPT ![a] = NoClient]
             /\ UNCHANGED stored
        PROVE  LobbyTypes'
    BY <1>2, <2>5 DEF LoginReplaces, NoClient
  <2>6. LobbyTypes'
    BY <1>2, <2>4, <2>5 DEF LoginReplaces, Insert, Erase
  <2>7. QED
    BY <2>3, <2>6
<1>3. QED
  BY <1>1, <1>2

LEMMA TypeStep == TypeInv /\ [Next]_vars => TypeInv'
<1> SUFFICES ASSUME TypeInv, [Next]_vars PROVE TypeInv'
  OBVIOUS
<1> USE DEF TypeInv, GatewayTypes, QueueTypes, LobbyTypes, gatewayVars, lobbyVars,
            indexVars, redisVars, historyVars
<1>1. ASSUME NEW c \in Conns, ClientOnline(c)
      PROVE  TypeInv'
  <2>1. Disconnected(c) \in LobbyMessages
    BY DEF LobbyMessages
  <2>2. toLobby' = toLobby \/ toLobby' = Append(toLobby, Disconnected(c))
    BY <1>1 DEF ClientOnline
  <2>3. toLobby' \in Seq(LobbyMessages)
    BY <2>1, <2>2, OneMore, SMTT(30)
  <2>4. QED
    BY <1>1, <2>3 DEF ClientOnline, Sessions
<1>2. ASSUME NEW c \in Conns, ClientOffline(c)
      PROVE  TypeInv'
  <2>1. IsFiniteSet(dying')
    BY <1>2, FS_AddElement DEF ClientOffline, EraseLater
  <2>2. QED
    BY <1>2, <2>1 DEF ClientOffline, EraseLater
<1>3. ASSUME NEW c \in Conns, NEW a \in Accounts, ProtoLogin(c, a)
      PROVE  TypeInv'
  <2>1. LoginQuest(c, a) \in LobbyMessages
    BY DEF LobbyMessages
  <2>2. toLobby' \in Seq(LobbyMessages)
    <3>1. toLobby' = toLobby \/ toLobby' = Append(toLobby, LoginQuest(c, a))
      BY <1>3 DEF ProtoLogin
    <3>2. Append(toLobby, LoginQuest(c, a)) \in Seq(LobbyMessages)
      BY <2>1
    <3>3. QED
      BY <3>1, <3>2
  <2>3. dying' = dying \/ dying' = dying \union {c}
    BY <1>3 DEF ProtoLogin, EraseLater
  <2>4. IsFiniteSet(dying) /\ IsFiniteSet(dying \union {c})
    BY FS_AddElement
  <2>5. IsFiniteSet(dying')
    BY <2>3, <2>4
  <2>6. QED
    BY <1>3, <2>2, <2>3, <2>5 DEF ProtoLogin, EraseLater
<1>4. CASE TimerExec
  <2>1. toLobby' \in Seq(LobbyMessages)
    BY <1>4, TimerTells
  <2>2. QED
    BY <1>4, <2>1, FS_EmptySet DEF TimerExec, Sessions
<1>5. CASE GatewayReceives
  <2> DEFINE m == Head(toGateway)
  <2>1. m \in GatewayMessages /\ Tail(toGateway) \in Seq(GatewayMessages)
    BY <1>5, TailOf DEF GatewayReceives
  <2> HIDE DEF m
  <2>2. CASE ProtoRetLoginQuest(m)
    <3>1. PICK c \in Conns, a \in Accounts \union {None} : m = RetLogin(c, a)
      BY <2>1, <2>2, MessageKinds DEF ProtoRetLoginQuest
    <3>2. QED
      <4>1. m.kind = "RetLoginQuest" /\ m.ccid = c /\ m.openid = a
        BY <3>1 DEF RetLogin
      <4>2. GatewayTypes'
        BY <2>2, <4>1 DEF ProtoRetLoginQuest, Sessions
      <4>3. QED
        BY <1>5, <2>1, <4>2 DEF GatewayReceives
  <2>3. CASE ProtoClientBeReplaced(m)
    <3>1. PICK c \in Conns : m = BeReplaced(c)
      BY <2>1, <2>3, MessageKinds DEF ProtoClientBeReplaced
    <3>2. QED
      <4>1. dying' = dying \/ dying' = dying \union {c}
        BY <2>3, <3>1 DEF ProtoClientBeReplaced, BeReplaced, EraseLater
      <4>2. dying' \subseteq Conns
        BY <4>1
      <4>3. IsFiniteSet(dying) /\ IsFiniteSet(dying \union {c})
        BY FS_AddElement
      <4>4. IsFiniteSet(dying')
        BY <4>1, <4>3
      <4>5. UNCHANGED <<session, cuidAt>>
        BY <2>3 DEF ProtoClientBeReplaced, EraseLater
      <4>6. QED
        BY <1>5, <2>1, <4>2, <4>5, <4>4 DEF GatewayReceives
  <2>4. QED
    BY <1>5, <2>2, <2>3 DEF GatewayReceives, m
<1>6. CASE LobbyReceives
  <2>1. Head(toLobby) \in LobbyMessages /\ Tail(toLobby) \in Seq(LobbyMessages)
    BY <1>6, TailOf DEF LobbyReceives
  <2>2. CASE ProtoLoginQuest(Head(toLobby))
    <3>1. PICK c \in Conns, a \in Accounts : Head(toLobby) = LoginQuest(c, a)
      BY <2>1, <2>2, MessageKinds DEF ProtoLoginQuest
    <3>2. LobbyTypes' /\ toGateway' \in Seq(GatewayMessages)
      BY <2>2, <3>1, LoginTypes DEF ProtoLoginQuest, LoginQuest
    <3>3. QED
      BY <1>6, <2>1, <3>2 DEF LobbyReceives
  <2>3. CASE ProtoClientDisconnected(Head(toLobby))
    <3>1. /\ client' \in [Accounts -> ClientSet]
          /\ \A a \in Accounts : client'[a].ccid = client[a].ccid
      BY <2>3, ZenonT(60) DEF ProtoClientDisconnected, ClientSet
    <3>2. QED
      BY <1>6, <2>1, <2>3, <3>1 DEF LobbyReceives, ProtoClientDisconnected
  <2>4. QED
    BY <1>6, <2>2, <2>3 DEF LobbyReceives
<1>7. ASSUME NEW a \in Accounts, Evict(a)
      PROVE  TypeInv'
  BY <1>7 DEF Evict, Erase, NoClient, ClientSet
<1>8. CASE GatewayDies
  <2>1. toLobby' \in Seq(LobbyMessages) /\ toGateway' \in Seq(GatewayMessages)
    BY <1>8, PartOf DEF GatewayDies
  <2>2. QED
    BY <1>8, <2>1, FS_EmptySet DEF GatewayDies, Sessions
<1>9. CASE LobbyDies
  <2>1. toLobby' \in Seq(LobbyMessages) /\ toGateway' \in Seq(GatewayMessages)
    BY <1>9, PartOf DEF LobbyDies
  <2>2. QED
    BY <1>9, <2>1 DEF LobbyDies, NoClient, ClientSet, CounterAtStart
<1>10. CASE RedisFails
  BY <1>10 DEF RedisFails
<1>11. CASE UNCHANGED vars
  BY <1>11 DEF vars
<1>12. QED
  BY <1>1, <1>2, <1>3, <1>4, <1>5, <1>6, <1>7, <1>8, <1>9, <1>10, <1>11 DEF Next

-----------------------------------------------------------------------------
(*** The indexes of the lobby, and the cuids ***)

CuidInv ==
  /\ CuidsAreUnique
  /\ \A a \in Accounts : stored[a] <= counter
  /\ \A a \in byOpenid : client[a].cuid # 0

CuidPairs(S) == {<<client[x].cuid, x>> : x \in S}
CcidPairs(S) == {<<client[x].ccid, x>> : x \in S}

\* Without a client, the indexes are those of the others.
LEMMA IndexWithout ==
  ASSUME IndexesAgree, NEW a \in byOpenid
  PROVE  /\ WithoutKey(byCuid, client[a].cuid) = CuidPairs(byOpenid \ {a})
         /\ WithoutKey(byCcid, client[a].ccid) = CcidPairs(byOpenid \ {a})
BY DEF IndexesAgree, WithoutKey, CuidPairs, CcidPairs

\* An entry that is not refused keeps them in step.
LEMMA IndexWith ==
  ASSUME TypeInv, NEW S \in SUBSET byOpenid,
         \A x, y \in S : x # y => /\ client[x].ccid # client[y].ccid
                                  /\ client[x].cuid # client[y].cuid,
         NEW a \in Accounts, NEW cuid, NEW c,
         MayInsert(S, CuidPairs(S), CcidPairs(S), a, cuid, c),
         Insert(S, CuidPairs(S), CcidPairs(S), a, cuid, c),
         client' = [client EXCEPT ![a] = [ccid |-> c, cuid |-> cuid, online |-> TRUE]]
  PROVE  IndexesAgree'
<1>1. a \notin S /\ byOpenid' = S \union {a}
  BY DEF MayInsert, Insert
<1>2. /\ client'[a].cuid = cuid /\ client'[a].ccid = c
      /\ \A x \in S : client'[x] = client[x]
  BY <1>1 DEF TypeInv, LobbyTypes
<1>3. \A x \in S : client[x].cuid # cuid /\ client[x].ccid # c
  <2>1. \A x \in S : /\ <<client[x].cuid, x>> \in CuidPairs(S)
                     /\ <<client[x].ccid, x>> \in CcidPairs(S)
    BY DEF CuidPairs, CcidPairs
  <2>2. \A x \in S : <<client[x].cuid, x>>[1] # cuid /\ <<client[x].ccid, x>>[1] # c
    BY <2>1 DEF MayInsert
  <2>3. QED
    BY <2>2
<1>4. byCuid' = {<<client'[x].cuid, x>> : x \in byOpenid'}
  BY <1>1, <1>2 DEF Insert, CuidPairs
<1>5. byCcid' = {<<client'[x].ccid, x>> : x \in byOpenid'}
  BY <1>1, <1>2 DEF Insert, CcidPairs
<1>6. QED
  BY <1>1, <1>2, <1>3, <1>4, <1>5 DEF IndexesAgree

LEMMA LoginKeepsIndexes ==
  ASSUME TypeInv, IndexesAgree, NEW c \in Conns, NEW a \in Accounts,
         LoginFromRedis(c, a) \/ LoginReplaces(c, a)
  PROVE  IndexesAgree'
<1>1. CASE LoginFromRedis(c, a) /\ UNCHANGED lobbyVars
  BY <1>1 DEF IndexesAgree, lobbyVars, indexVars
<1>2. CASE LoginFromRedis(c, a) /\ ~UNCHANGED lobbyVars
  <2>1. PICK cuid \in Nat : /\ MayInsert(byOpenid, byCuid, byCcid, a, cuid, c)
                            /\ Insert(byOpenid, byCuid, byCcid, a, cuid, c)
                            /\ LoggedIn(c, a, cuid)
    BY <1>2 DEF LoginFromRedis, TypeInv, LobbyTypes
  <2>2. byCuid = CuidPairs(byOpenid) /\ byCcid = CcidPairs(byOpenid)
    BY DEF IndexesAgree, CuidPairs, CcidPairs
  <2>3. /\ \A x, y \in byOpenid : x # y => /\ client[x].ccid # client[y].ccid
                                         /\ client[x].cuid # client[y].cuid
        /\ client' = [client EXCEPT ![a] = [ccid |-> c, cuid |-> cuid, online |-> TRUE]]
    BY <2>1 DEF LoggedIn, IndexesAgree
  <2>4. /\ MayInsert(byOpenid, CuidPairs(byOpenid), CcidPairs(byOpenid), a, cuid, c)
        /\ Insert(byOpenid, CuidPairs(byOpenid), CcidPairs(byOpenid), a, cuid, c)
    BY <2>1, <2>2
  <2>5. QED
    BY <2>3, <2>4, IndexWith
<1>3. CASE LoginReplaces(c, a) /\ client' # [client EXCEPT ![a] = NoClient]
  <2> DEFINE S == byOpenid \ {a}
  <2>1. /\ a \in byOpenid
        /\ MayInsert(S, CuidPairs(S), CcidPairs(S), a, client[a].cuid, c)
        /\ Insert(S, CuidPairs(S), CcidPairs(S), a, client[a].cuid, c)
        /\ LoggedIn(c, a, client[a].cuid)
    BY <1>3, IndexWithout DEF LoginReplaces
  <2>2. QED
    BY <2>1, IndexWith DEF LoggedIn, IndexesAgree
<1>4. CASE LoginReplaces(c, a) /\ client' = [client EXCEPT ![a] = NoClient]
  <2> DEFINE S == byOpenid \ {a}
  <2>1. a \in byOpenid /\ (byOpenid' = S \/ LoggedIn(c, a, client[a].cuid))
    BY <1>4 DEF LoginReplaces, Erase
  <2>2. ~LoggedIn(c, a, client[a].cuid)
    BY <1>4, LoginAssumption DEF LoggedIn, NoClient, TypeInv, LobbyTypes
  <2>3. byCuid' = CuidPairs(S) /\ byCcid' = CcidPairs(S)
    BY <1>4, <2>1, <2>2, IndexWithout DEF LoginReplaces, Erase
  <2>4. \A x \in S : client'[x] = client[x]
    BY <1>4 DEF TypeInv, LobbyTypes
  <2>5. byCuid' = {<<client'[x].cuid, x>> : x \in S} /\ byCcid' = {<<client'[x].ccid, x>> : x \in S}
    BY <2>3, <2>4 DEF CuidPairs, CcidPairs
  <2>6. QED
    BY <2>1, <2>2, <2>4, <2>5 DEF IndexesAgree
<1>5. QED
  BY <1>1, <1>2, <1>3, <1>4

LEMMA LoginKeepsCuids ==
  ASSUME TypeInv, CuidInv, NEW c \in Conns, NEW a \in Accounts,
         LoginFromRedis(c, a) \/ LoginReplaces(c, a)
  PROVE  CuidInv'
<1> USE DEF TypeInv, LobbyTypes
<1>1. CASE LoginFromRedis(c, a) /\ UNCHANGED <<lobbyVars, stored>>
  <2>1. counter' = counter \/ counter' = counter + 1
    BY <1>1 DEF LoginFromRedis
  <2>2. QED
    BY <1>1, <2>1 DEF CuidInv, CuidsAreUnique, lobbyVars, indexVars
<1>2. ASSUME NEW cuid \in Nat, byOpenid' = byOpenid \union {a}, LoggedIn(c, a, cuid), cuid # 0,
             counter' \in Nat, cuid <= counter', counter <= counter',
             \A b \in Accounts \ {a} : stored[b] # cuid
      PROVE  CuidInv'
  <2>1. /\ stored'[a] = cuid /\ \A b \in Accounts \ {a} : stored'[b] = stored[b]
        /\ client'[a].cuid = cuid /\ \A b \in Accounts \ {a} : client'[b] = client[b]
    BY <1>2 DEF LoggedIn
  <2>2. \A b, d \in Accounts : b # d /\ stored'[b] # 0 => stored'[b] # stored'[d]
    BY <1>2, <2>1 DEF CuidInv, CuidsAreUnique
  <2>3. \A b \in byOpenid' : stored'[b] = client'[b].cuid /\ client'[b].cuid # 0
    BY <1>2, <2>1 DEF CuidInv, CuidsAreUnique
  <2>4. \A b \in Accounts : stored'[b] <= counter'
    BY <1>2, <2>1 DEF CuidInv
  <2>5. QED
    BY <2>2, <2>3, <2>4 DEF CuidInv, CuidsAreUnique
<1>3. CASE LoginFromRedis(c, a) /\ ~UNCHANGED <<lobbyVars, stored>>
  <2>1. CASE KnownToRedis(a)
    <3>1. LoggedIn(c, a, stored[a]) /\ byOpenid' = byOpenid \union {a} /\ counter' = counter
      BY <1>3, <2>1 DEF LoginFromRedis, Insert
    <3>2. QED
      BY <1>2, <2>1, <3>1 DEF KnownToRedis, CuidInv, CuidsAreUnique
  <2>2. CASE ~KnownToRedis(a)
    <3>1. LoggedIn(c, a, counter + 1) /\ byOpenid' = byOpenid \union {a} /\ counter' = counter + 1
      BY <1>3, <2>2 DEF LoginFromRedis, Insert
    <3>2. \A b \in Accounts : stored[b] # counter + 1
      BY DEF CuidInv
    <3>3. QED
      BY <1>2, <3>1, <3>2
  <2>3. QED
    BY <2>1, <2>2
<1>4. CASE LoginReplaces(c, a) /\ LoggedIn(c, a, client[a].cuid)
  <2>1. a \in byOpenid /\ counter' = counter
    BY <1>4 DEF LoginReplaces
  <2>2. byOpenid' = byOpenid \union {a}
    <3>1. CASE client' = [client EXCEPT ![a] = NoClient]
      BY <1>4, <3>1, LoginAssumption DEF LoggedIn, NoClient
    <3>2. CASE client' # [client EXCEPT ![a] = NoClient]
      BY <1>4, <2>1, <3>2 DEF LoginReplaces, Insert
    <3>3. QED
      BY <3>1, <3>2
  <2>3. client[a].cuid = stored[a] /\ client[a].cuid # 0
    BY <2>1 DEF CuidInv, CuidsAreUnique
  <2>4. /\ client[a].cuid \in Nat /\ client[a].cuid <= counter'
        /\ counter' \in Nat /\ counter <= counter'
    BY <2>1, <2>3 DEF CuidInv
  <2>5. \A b \in Accounts \ {a} : stored[b] # client[a].cuid
    BY <2>3 DEF CuidInv, CuidsAreUnique
  <2>6. QED
    BY <1>2, <1>4, <2>2, <2>3, <2>4, <2>5
<1>5. CASE LoginReplaces(c, a) /\ ~LoggedIn(c, a, client[a].cuid)
  <2>1. /\ byOpenid' = byOpenid \ {a} /\ client' = [client EXCEPT ![a] = NoClient]
        /\ UNCHANGED <<stored, counter>>
    BY <1>5 DEF LoginReplaces, Erase
  <2>2. \A b \in byOpenid' : client'[b] = client[b] /\ b \in byOpenid
    BY <2>1
  <2>3. QED
    BY <2>1, <2>2 DEF CuidInv, CuidsAreUnique
<1>6. QED
  BY <1>1, <1>3, <1>4, <1>5

LEMMA IndexStep ==
  ASSUME TypeInv, IndexesAgree, CuidInv, [Next]_vars
  PROVE  IndexesAgree' /\ CuidInv'
<1> USE DEF gatewayVars, lobbyVars, indexVars, redisVars, historyVars
<1>1. CASE UNCHANGED <<lobbyVars, counter, stored>>
  BY <1>1 DEF IndexesAgree, CuidInv, CuidsAreUnique
<1>2. CASE LobbyReceives
  <2>1. Head(toLobby) \in LobbyMessages
    BY <1>2, TailOf DEF LobbyReceives, TypeInv, QueueTypes
  <2>2. CASE ProtoLoginQuest(Head(toLobby))
    <3>1. PICK c \in Conns, a \in Accounts : Head(toLobby) = LoginQuest(c, a)
      BY <2>1, <2>2, MessageKinds DEF ProtoLoginQuest
    <3>2. LoginFromRedis(c, a) \/ LoginReplaces(c, a)
      BY <2>2, <3>1 DEF ProtoLoginQuest, LoginQuest
    <3>3. QED
      BY <3>2, LoginKeepsIndexes, LoginKeepsCuids
  <2>3. CASE ProtoClientDisconnected(Head(toLobby))
    <3>1. /\ \A a \in Accounts : /\ client'[a].ccid = client[a].ccid
                                 /\ client'[a].cuid = client[a].cuid
          /\ UNCHANGED <<indexVars, counter, stored>>
      BY <2>3 DEF ProtoClientDisconnected, TypeInv, LobbyTypes, ClientSet
    <3>2. byOpenid \subseteq Accounts
      BY DEF TypeInv, LobbyTypes
    <3>3. /\ byOpenid' = byOpenid /\ byCuid' = byCuid /\ byCcid' = byCcid
          /\ \A a \in byOpenid : /\ client'[a].ccid = client[a].ccid
                                /\ client'[a].cuid = client[a].cuid
      BY <3>1, <3>2
    <3>4. /\ {<<client'[a].cuid, a>> : a \in byOpenid} = {<<client[a].cuid, a>> : a \in byOpenid}
          /\ {<<client'[a].ccid, a>> : a \in byOpenid} = {<<client[a].ccid, a>> : a \in byOpenid}
      BY <3>3
    <3>5. /\ byCuid' = {<<client'[a].cuid, a>> : a \in byOpenid'}
          /\ byCcid' = {<<client'[a].ccid, a>> : a \in byOpenid'}
      BY <3>3, <3>4 DEF IndexesAgree
    <3>6. \A a, b \in byOpenid' : a # b => /\ client'[a].ccid # client'[b].ccid
                                           /\ client'[a].cuid # client'[b].cuid
      BY <3>3 DEF IndexesAgree
    <3>7. IndexesAgree'
      BY <3>5, <3>6 DEF IndexesAgree
    <3>8. CuidInv'
      BY <3>1, <3>2 DEF CuidInv, CuidsAreUnique
    <3>9. QED
      BY <3>7, <3>8
  <2>4. QED
    BY <1>2, <2>2, <2>3 DEF LobbyReceives
<1>3. ASSUME NEW a \in Accounts, Evict(a)
      PROVE  IndexesAgree' /\ CuidInv'
  <2> DEFINE S == byOpenid \ {a}
  <2>1. /\ a \in byOpenid /\ byOpenid' = S
        /\ byCuid' = CuidPairs(S) /\ byCcid' = CcidPairs(S)
        /\ UNCHANGED <<counter, stored>>
    BY <1>3, IndexWithout DEF Evict, Erase
  <2>2. \A x \in S : client'[x] = client[x]
    BY <1>3 DEF Evict, TypeInv, LobbyTypes
  <2>3. /\ byCuid' = {<<client'[x].cuid, x>> : x \in byOpenid'}
        /\ byCcid' = {<<client'[x].ccid, x>> : x \in byOpenid'}
    BY <2>1, <2>2 DEF CuidPairs, CcidPairs
  <2>4. \A x, y \in byOpenid' : x # y => /\ client'[x].ccid # client'[y].ccid
                                         /\ client'[x].cuid # client'[y].cuid
    BY <2>1, <2>2 DEF IndexesAgree
  <2>5. IndexesAgree'
    BY <2>3, <2>4 DEF IndexesAgree
  <2>6. CuidInv'
    BY <2>1, <2>2 DEF CuidInv, CuidsAreUnique
  <2>7. QED
    BY <2>5, <2>6
<1>4. CASE LobbyDies
  BY <1>4 DEF LobbyDies, IndexesAgree, CuidInv, CuidsAreUnique, CounterAtStart
<1>5. QED
  BY <1>1, <1>2, <1>3, <1>4
     DEF Next, vars, ClientOnline, ClientOffline, ProtoLogin, TimerExec, GatewayReceives,
         GatewayDies, RedisFails

\* What a login does to the clients in memory: the others stay, and the one that
\* it is about is known by the new connection, if at all.
LEMMA LoginClients ==
  ASSUME TypeInv, NEW c \in Conns, NEW a \in Accounts,
         LoginFromRedis(c, a) \/ LoginReplaces(c, a)
  PROVE  /\ \A b \in Accounts \ {a} : client'[b] = client[b] /\ (b \in byOpenid' <=> b \in byOpenid)
         /\ a \in byOpenid' => LoggedIn(c, a, client'[a].cuid)
<1> USE DEF TypeInv, LobbyTypes
<1>1. CASE LoginFromRedis(c, a)
  BY <1>1 DEF LoginFromRedis, LoggedIn, Insert, lobbyVars, indexVars
<1>2. CASE LoginReplaces(c, a)
  BY <1>2 DEF LoginReplaces, LoggedIn, Insert, Erase
<1>3. QED
  BY <1>1, <1>2

-----------------------------------------------------------------------------
(*** Whom the lobby takes to be online ***)

\* From a place in the queue on: the connection is there, or the lobby will be
\* told that it is not.
WillGo(i, c) ==
  \/ Live(c) \/ c \in orphans
  \/ \E j \in i .. Len(toLobby) : toLobby[j] = Disconnected(c)

OnlineInv ==
  /\ \A a \in byOpenid, c \in Conns :
       client[a].online /\ client[a].ccid = c => WillGo(1, c)
  /\ \A i \in 1 .. Len(toLobby) : \A c \in Conns, a \in Accounts :
       toLobby[i] = LoginQuest(c, a) => WillGo(i, c)

LEMMA OnlineStep ==
  ASSUME TypeInv, IndexesAgree, OnlineInv, [Next]_vars
  PROVE  OnlineInv'
<1> USE DEF gatewayVars, lobbyVars, indexVars, redisVars, historyVars
<1>1. Len(toLobby) \in Nat /\ toLobby \in Seq(LobbyMessages)
  BY DEF TypeInv, QueueTypes
\* The queue grows at its end, and nobody goes of whom it does not tell.
<1>2. ASSUME Len(toLobby') \in Nat, Len(toLobby') >= Len(toLobby),
             \A i \in 1 .. Len(toLobby) : toLobby'[i] = toLobby[i],
             \A j \in (Len(toLobby) + 1) .. Len(toLobby') : \A c \in Conns, a \in Accounts :
               toLobby'[j] = LoginQuest(c, a) => Live(c)',
             \A c \in Conns : Live(c) =>
               \/ Live(c)'
               \/ \E j \in (Len(toLobby) + 1) .. Len(toLobby') : toLobby'[j] = Disconnected(c),
             UNCHANGED <<byOpenid, client, orphans>>
      PROVE  OnlineInv'
  <2>1. ASSUME NEW i \in 1 .. (Len(toLobby) + 1), NEW c \in Conns, WillGo(i, c)
        PROVE  WillGo(i, c)'
    <3>1. CASE Live(c)
      BY <1>1, <1>2, <3>1 DEF WillGo
    <3>2. CASE c \in orphans
      BY <1>2, <3>2 DEF WillGo
    <3>3. ASSUME NEW j \in i .. Len(toLobby), toLobby[j] = Disconnected(c)
          PROVE  WillGo(i, c)'
      BY <1>1, <1>2, <3>3 DEF WillGo
    <3>4. QED
      BY <2>1, <3>1, <3>2, <3>3 DEF WillGo
  <2>2. \A a \in byOpenid', c \in Conns :
          client'[a].online /\ client'[a].ccid = c => WillGo(1, c)'
    BY <1>1, <1>2, <2>1 DEF OnlineInv
  <2>3. ASSUME NEW i \in 1 .. Len(toLobby'), NEW c \in Conns, NEW a \in Accounts,
               toLobby'[i] = LoginQuest(c, a)
        PROVE  WillGo(i, c)'
    <3>1. CASE i <= Len(toLobby)
      BY <1>1, <1>2, <2>1, <2>3, <3>1 DEF OnlineInv
    <3>2. CASE i > Len(toLobby)
      BY <1>1, <1>2, <2>3, <3>2 DEF WillGo
    <3>3. QED
      BY <1>1, <1>2, <3>1, <3>2
  <2>4. QED
    BY <2>2, <2>3 DEF OnlineInv
<1>3. ASSUME NEW c \in Conns, ClientOnline(c)
      PROVE  OnlineInv'
  <2>1. \A d \in Conns : Live(d) => Live(d)'
    BY <1>3 DEF ClientOnline, Live, TypeInv, GatewayTypes, Sessions
  <2>2. toLobby' = toLobby \/ toLobby' = Append(toLobby, Disconnected(c))
    BY <1>3 DEF ClientOnline
  <2>3. Disconnected(c) \in LobbyMessages
    BY DEF LobbyMessages
  <2>4. \A d \in Conns, a \in Accounts : Disconnected(c) # LoginQuest(d, a)
    BY DEF Disconnected, LoginQuest
  <2>5. /\ Len(toLobby') \in Nat /\ Len(toLobby') >= Len(toLobby)
        /\ \A i \in 1 .. Len(toLobby) : toLobby'[i] = toLobby[i]
        /\ \A j \in (Len(toLobby) + 1) .. Len(toLobby') : toLobby'[j] = Disconnected(c)
    BY <1>1, <2>2, <2>3, OneMore
  <2>6. QED
    BY <1>2, <1>3, <2>1, <2>4, <2>5 DEF ClientOnline
<1>4. ASSUME NEW c \in Conns, NEW a \in Accounts, ProtoLogin(c, a)
      PROVE  OnlineInv'
  <2>1. Live(c) /\ UNCHANGED session
    BY <1>4 DEF ProtoLogin, EraseLater
  <2>2. toLobby' = toLobby \/ toLobby' = Append(toLobby, LoginQuest(c, a))
    BY <1>4 DEF ProtoLogin
  <2>3. LoginQuest(c, a) \in LobbyMessages
    BY DEF LobbyMessages
  <2>4. \A d \in Conns, b \in Accounts : LoginQuest(c, a) = LoginQuest(d, b) => d = c
    BY DEF LoginQuest
  <2>5. /\ Len(toLobby') \in Nat /\ Len(toLobby') >= Len(toLobby)
        /\ \A i \in 1 .. Len(toLobby) : toLobby'[i] = toLobby[i]
        /\ \A j \in (Len(toLobby) + 1) .. Len(toLobby') : toLobby'[j] = LoginQuest(c, a)
    BY <1>1, <2>2, <2>3, OneMore
  <2>6. \A d \in Conns : Live(d)' <=> Live(d)
    BY <2>1 DEF Live
  <2>7. \A j \in (Len(toLobby) + 1) .. Len(toLobby') : \A d \in Conns, b \in Accounts :
          toLobby'[j] = LoginQuest(d, b) => Live(d)'
    BY <2>1, <2>4, <2>5, <2>6
  <2>8. QED
    BY <1>2, <1>4, <2>5, <2>6, <2>7 DEF ProtoLogin
<1>5. CASE TimerExec
  <2>1. /\ Len(toLobby') \in Nat /\ Len(toLobby') >= Len(toLobby)
        /\ \A i \in 1 .. Len(toLobby) : toLobby'[i] = toLobby[i]
        /\ \A c \in dying : Live(c) =>
             \E j \in (Len(toLobby) + 1) .. Len(toLobby') : toLobby'[j] = Disconnected(c)
        /\ \A j \in (Len(toLobby) + 1) .. Len(toLobby') :
             \E c \in dying : toLobby'[j] = Disconnected(c)
    BY <1>5, TimerTells DEF TypeInv
  <2>2. \A c \in Conns \ dying : Live(c) => Live(c)'
    BY <1>5 DEF TimerExec, Live
  <2>3. \A c \in dying, d \in Conns, a \in Accounts : Disconnected(c) # LoginQuest(d, a)
    BY DEF Disconnected, LoginQuest
  <2>4. \A j \in (Len(toLobby) + 1) .. Len(toLobby') : \A d \in Conns, b \in Accounts :
          toLobby'[j] # LoginQuest(d, b)
    BY <2>1, <2>3
  <2>5. QED
    BY <1>2, <1>5, <2>1, <2>2, <2>4 DEF TimerExec
<1>6. CASE /\ UNCHANGED <<toLobby, orphans>> /\ \A c \in Conns : Live(c) => Live(c)'
           /\ \A a \in byOpenid' : a \in byOpenid /\ client'[a] = client[a]
  <2>1. ASSUME NEW i \in 1 .. Len(toLobby), NEW c \in Conns, WillGo(i, c)
        PROVE  WillGo(i, c)'
    BY <1>6, <2>1 DEF WillGo
  <2>2. ASSUME NEW c \in Conns, WillGo(1, c)
        PROVE  WillGo(1, c)'
    BY <1>6, <2>2 DEF WillGo
  <2>3. QED
    BY <1>6, <2>1, <2>2 DEF OnlineInv, TypeInv, LobbyTypes
<1>7. CASE LobbyReceives
  <2> DEFINE m == Head(toLobby)
  <2>1. /\ m \in LobbyMessages /\ m = toLobby[1]
        /\ Len(toLobby) \in Nat \ {0} /\ Len(toLobby') = Len(toLobby) - 1
        /\ \A i \in 1 .. Len(toLobby') : toLobby'[i] = toLobby[i + 1]
        /\ UNCHANGED <<session, orphans>>
    BY <1>1, <1>7, TailOf DEF LobbyReceives
  <2> HIDE DEF m
  <2>2. ASSUME NEW i \in 1 .. Len(toLobby), NEW c \in Conns, WillGo(i + 1, c)
        PROVE  WillGo(i, c)'
    <3>1. CASE Live(c) \/ c \in orphans
      BY <2>1, <3>1 DEF WillGo, Live
    <3>2. ASSUME NEW j \in (i + 1) .. Len(toLobby), toLobby[j] = Disconnected(c)
          PROVE  WillGo(i, c)'
      <4>1. j - 1 \in i .. Len(toLobby') /\ j - 1 \in 1 .. Len(toLobby') /\ (j - 1) + 1 = j
        BY <2>1
      <4>2. toLobby'[j - 1] = Disconnected(c)
        BY <2>1, <3>2, <4>1
      <4>3. QED
        BY <4>1, <4>2 DEF WillGo
    <3>3. QED
      BY <2>2, <3>1, <3>2 DEF WillGo
  <2>3. ASSUME NEW c \in Conns, WillGo(1, c), m # Disconnected(c)
        PROVE  WillGo(2, c) /\ WillGo(1, c)'
    <3>1. WillGo(2, c)
      BY <2>1, <2>3 DEF WillGo
    <3>2. QED
      BY <2>1, <2>2, <3>1
  <2>4. ASSUME NEW i \in 1 .. Len(toLobby'), NEW c \in Conns, NEW a \in Accounts,
               toLobby'[i] = LoginQuest(c, a)
        PROVE  WillGo(i, c)'
    <3>1. i \in 1 .. Len(toLobby) /\ i + 1 \in 1 .. Len(toLobby)
      BY <2>1
    <3>2. WillGo(i + 1, c)
      BY <2>1, <2>4, <3>1 DEF OnlineInv
    <3>3. QED
      BY <2>2, <3>1, <3>2
  <2>5. ASSUME ProtoLoginQuest(m), NEW x \in byOpenid', NEW d \in Conns,
               client'[x].online, client'[x].ccid = d
        PROVE  WillGo(1, d)'
    <3>1. PICK c \in Conns, a \in Accounts : m = LoginQuest(c, a)
      BY <2>1, <2>5, MessageKinds DEF ProtoLoginQuest
    <3>2. LoginFromRedis(c, a) \/ LoginReplaces(c, a)
      BY <2>5, <3>1 DEF ProtoLoginQuest, LoginQuest
    <3>3. 1 \in 1 .. Len(toLobby) /\ toLobby[1] = LoginQuest(c, a)
      BY <2>1, <3>1
    <3>4. WillGo(1, c)
      BY <3>3 DEF OnlineInv
    <3>5. m # Disconnected(d)
      BY <3>1 DEF LoginQuest, Disconnected
    <3>6. x \in Accounts
      BY <3>2, LoginTypes DEF LobbyTypes
    <3>7. CASE x = a
      <4>1. client'[x].ccid = c
        BY <2>5, <3>2, <3>7, LoginClients DEF LoggedIn, TypeInv, LobbyTypes
      <4>2. QED
        BY <2>3, <2>5, <3>4, <3>5, <4>1
    <3>8. CASE x # a
      <4>1. x \in byOpenid /\ client'[x] = client[x]
        BY <2>5, <3>2, <3>6, <3>8, LoginClients
      <4>2. WillGo(1, d)
        BY <2>5, <4>1 DEF OnlineInv
      <4>3. QED
        BY <2>3, <3>5, <4>2
    <3>9. QED
      BY <3>7, <3>8
  <2>6. ASSUME ProtoClientDisconnected(m), NEW x \in byOpenid', NEW d \in Conns,
               client'[x].online, client'[x].ccid = d
        PROVE  WillGo(1, d)'
    <3>1. PICK c \in Conns : m = Disconnected(c)
      BY <2>1, <2>6, MessageKinds DEF ProtoClientDisconnected
    <3>2. x \in byOpenid /\ x \in Accounts
      BY <2>6 DEF ProtoClientDisconnected, TypeInv, LobbyTypes
    <3>3. <<client[x].ccid, x>> \in byCcid
      BY <3>2 DEF IndexesAgree
    <3>4. client[x].ccid # c /\ client'[x] = client[x]
      BY <2>6, <3>1, <3>2, <3>3
         DEF ProtoClientDisconnected, Disconnected, TypeInv, LobbyTypes, ClientSet
    <3>5. m # Disconnected(d)
      BY <2>6, <3>1, <3>4 DEF Disconnected
    <3>6. WillGo(1, d)
      BY <2>6, <3>2, <3>4 DEF OnlineInv
    <3>7. QED
      BY <2>3, <3>5, <3>6
  <2>7. QED
    BY <1>7, <2>4, <2>5, <2>6 DEF LobbyReceives, OnlineInv, m
<1>8. CASE GatewayDies
  <2>1. PICK n \in 0 .. Len(toLobby) :
          /\ toLobby' = SubSeq(toLobby, 1, n)
          /\ orphans' = orphans \union {c \in Conns : Live(c)}
                          \union {toLobby[i].ccid : i \in (n+1)..Len(toLobby)}
    BY <1>8 DEF GatewayDies
  <2>2. Len(toLobby') = n /\ \A i \in 1 .. n : toLobby'[i] = toLobby[i]
    BY <1>1, <2>1, PartOf
  <2>3. ASSUME NEW i \in Nat \ {0}, NEW c \in Conns, WillGo(i, c)
        PROVE  WillGo(i, c)'
    <3>1. CASE Live(c) \/ c \in orphans
      BY <2>1, <3>1 DEF WillGo
    <3>2. ASSUME NEW j \in i .. Len(toLobby), toLobby[j] = Disconnected(c)
          PROVE  WillGo(i, c)'
      <4>1. CASE j <= n
        BY <1>1, <2>2, <3>2, <4>1 DEF WillGo
      <4>2. CASE j > n
        <5>1. toLobby[j].ccid = c /\ j \in (n + 1) .. Len(toLobby)
          BY <1>1, <3>2, <4>2 DEF Disconnected
        <5>2. QED
          BY <2>1, <5>1 DEF WillGo
      <4>3. QED
        BY <1>1, <4>1, <4>2
    <3>3. QED
      BY <2>3, <3>1, <3>2 DEF WillGo
  <2>4. UNCHANGED <<byOpenid, client>>
    BY <1>8 DEF GatewayDies
  <2>5. \A a \in byOpenid', c \in Conns :
          client'[a].online /\ client'[a].ccid = c => WillGo(1, c)'
    BY <2>3, <2>4 DEF OnlineInv
  <2>6. ASSUME NEW i \in 1 .. Len(toLobby'), NEW c \in Conns, NEW a \in Accounts,
               toLobby'[i] = LoginQuest(c, a)
        PROVE  WillGo(i, c)'
    BY <1>1, <2>1, <2>2, <2>3, <2>6 DEF OnlineInv
  <2>7. QED
    BY <2>5, <2>6 DEF OnlineInv
<1>9. CASE LobbyDies
  <2>1. PICK n \in 0 .. Len(toLobby) : toLobby' = SubSeq(toLobby, n + 1, Len(toLobby))
    BY <1>9 DEF LobbyDies
  <2>2. /\ Len(toLobby') = Len(toLobby) - n
        /\ \A i \in 1 .. Len(toLobby) - n : toLobby'[i] = toLobby[i + n]
    BY <1>1, <2>1, PartOf
  <2>3. byOpenid' = {} /\ UNCHANGED <<session, orphans>>
    BY <1>9 DEF LobbyDies
  <2>4. ASSUME NEW i \in 1 .. Len(toLobby'), NEW c \in Conns, NEW a \in Accounts,
               toLobby'[i] = LoginQuest(c, a)
        PROVE  WillGo(i, c)'
    <3>1. i + n \in 1 .. Len(toLobby) /\ toLobby[i + n] = LoginQuest(c, a)
      BY <1>1, <2>2, <2>4
    <3>2. WillGo(i + n, c)
      BY <3>1 DEF OnlineInv
    <3>3. CASE Live(c) \/ c \in orphans
      BY <2>3, <3>3 DEF WillGo, Live
    <3>4. ASSUME NEW j \in (i + n) .. Len(toLobby), toLobby[j] = Disconnected(c)
          PROVE  WillGo(i, c)'
      <4>1. /\ j - n \in i .. Len(toLobby') /\ j - n \in 1 .. Len(toLobby) - n
            /\ (j - n) + n = j
        BY <1>1, <2>2
      <4>2. toLobby'[j - n] = Disconnected(c)
        BY <2>2, <3>4, <4>1
      <4>3. QED
        BY <4>1, <4>2 DEF WillGo
    <3>5. QED
      BY <3>2, <3>3, <3>4 DEF WillGo
  <2>5. QED
    BY <2>3, <2>4 DEF OnlineInv
<1>10. CASE GatewayReceives
  <2>1. \A c \in Conns : Live(c) => Live(c)'
    BY <1>10 DEF GatewayReceives, ProtoRetLoginQuest, ProtoClientBeReplaced, EraseLater, Live,
                TypeInv, GatewayTypes
  <2>2. QED
    BY <1>6, <1>10, <2>1 DEF GatewayReceives
<1>11. ASSUME NEW a \in Accounts, Evict(a)
       PROVE  OnlineInv'
  <2>1. \A b \in byOpenid' : b \in byOpenid /\ client'[b] = client[b]
    BY <1>11 DEF Evict, Erase, TypeInv, LobbyTypes
  <2>2. QED
    BY <1>6, <1>11, <2>1 DEF Evict, Live
<1>12. CASE RedisFails \/ UNCHANGED vars \/ \E c \in Conns : ClientOffline(c)
  BY <1>6, <1>12 DEF RedisFails, vars, ClientOffline, EraseLater, Live
<1>13. QED
  BY <1>3, <1>4, <1>5, <1>7, <1>8, <1>9, <1>10, <1>11, <1>12 DEF Next

-----------------------------------------------------------------------------
(*** Who plays ***)

\* The lobby hears of no connection before it is there, and is told that it is
\* gone only when it is.
SeenInv ==
  /\ \A i \in 1 .. Len(toLobby) : \A c \in Conns :
       /\ toLobby[i] = Disconnected(c) => session[c] = "gone"
       /\ \A a \in Accounts : toLobby[i] = LoginQuest(c, a) => session[c] # "unused"
  /\ \A i \in 1 .. Len(toGateway) : \A c \in Conns, a \in Accounts :
       toGateway[i] = RetLogin(c, a) => session[c] # "unused"

Fine(c, a) == a \in byOpenid /\ client[a].ccid = c /\ client[a].online

\* What stops a connection from playing an account that it has not, from a place
\* in the queue of replies on
Stopped(i, c, a) ==
  \E j \in i .. Len(toGateway) :
    \/ toGateway[j] = BeReplaced(c)
    \/ \E b \in Accounts \ {a} : toGateway[j] = RetLogin(c, b)

Known(i, c, a) == Fine(c, a) \/ c \in dying \/ c \in forgotten \/ Stopped(i, c, a)

PlayingInv ==
  /\ \A c \in Conns, a \in Accounts :
       session[c] = "playing" /\ cuidAt[c] = a => Known(1, c, a)
  /\ \A i \in 1 .. Len(toGateway) : \A c \in Conns, a \in Accounts :
       toGateway[i] = RetLogin(c, a) => Known(i, c, a) \/ ~Live(c)

LEMMA DifferentMessages ==
  /\ \A c, d, a : Disconnected(c) # LoginQuest(d, a) /\ BeReplaced(c) # RetLogin(d, a)
  /\ \A c, d : Disconnected(c) = Disconnected(d) => c = d
  /\ \A c, d : BeReplaced(c) = BeReplaced(d) => c = d
  /\ \A c, d, a, b : LoginQuest(c, a) = LoginQuest(d, b) => c = d /\ a = b
  /\ \A c, d, a, b : RetLogin(c, a) = RetLogin(d, b) => c = d /\ a = b
BY DEF Disconnected, LoginQuest, BeReplaced, RetLogin

\* The sessions only go on: whoever is gone stays so.
LEMMA SessionsGoOn ==
  ASSUME TypeInv, [Next]_vars
  PROVE  \A c \in Conns : /\ session[c] # "unused" => session'[c] # "unused"
                          /\ session[c] = "gone" => session'[c] = "gone"
<1> USE DEF TypeInv, GatewayTypes, gatewayVars, Live
<1>1. CASE \E c \in Conns : ClientOnline(c)
  BY <1>1 DEF ClientOnline
<1>2. CASE UNCHANGED session
  BY <1>2
<1>3. CASE TimerExec \/ GatewayDies
  BY <1>3 DEF TimerExec, GatewayDies
<1>4. CASE GatewayReceives
  BY <1>4 DEF GatewayReceives, ProtoRetLoginQuest, ProtoClientBeReplaced, EraseLater
<1>5. QED
  BY <1>1, <1>2, <1>3, <1>4
     DEF Next, vars, ClientOffline, EraseLater, ProtoLogin, LobbyReceives, Evict, LobbyDies,
         RedisFails

LEMMA SeenStep ==
  ASSUME TypeInv, SeenInv, [Next]_vars
  PROVE  SeenInv'
<1> USE DEF gatewayVars, lobbyVars, indexVars, redisVars, historyVars
<1>1. /\ Len(toLobby) \in Nat /\ toLobby \in Seq(LobbyMessages)
      /\ Len(toGateway) \in Nat /\ toGateway \in Seq(GatewayMessages)
      /\ session \in [Conns -> Sessions]
  BY DEF TypeInv, QueueTypes, GatewayTypes
<1> DEFINE Told(m, s) == \A c \in Conns :
                           /\ m = Disconnected(c) => s[c] = "gone"
                           /\ \A a \in Accounts : m = LoginQuest(c, a) => s[c] # "unused"
           Answered(m, s) == \A c \in Conns, a \in Accounts : m = RetLogin(c, a) => s[c] # "unused"
<1>2. ASSUME \A i \in 1 .. Len(toLobby') :
               \/ \E k \in 1 .. Len(toLobby) : toLobby'[i] = toLobby[k]
               \/ Told(toLobby'[i], session'),
             \A i \in 1 .. Len(toGateway') :
               \/ \E k \in 1 .. Len(toGateway) : toGateway'[i] = toGateway[k]
               \/ Answered(toGateway'[i], session')
      PROVE  SeenInv'
  <2>1. /\ \A k \in 1 .. Len(toLobby) : Told(toLobby[k], session)
        /\ \A k \in 1 .. Len(toGateway) : Answered(toGateway[k], session)
    BY DEF SeenInv
  <2>2. \A m : Told(m, session) => Told(m, session')
    BY SessionsGoOn
  <2>3. \A m : Answered(m, session) => Answered(m, session')
    BY SessionsGoOn
  <2>4. /\ \A i \in 1 .. Len(toLobby') : Told(toLobby'[i], session')
        /\ \A i \in 1 .. Len(toGateway') : Answered(toGateway'[i], session')
    <3> HIDE DEF Told, Answered
    <3>1. QED
      BY <1>2, <2>1, <2>2, <2>3
  <2>5. QED
    BY <2>4 DEF SeenInv
<1>3. CASE UNCHANGED <<toLobby, toGateway>>
  <2> HIDE DEF Told, Answered
  <2>1. QED
    BY <1>2, <1>3
<1>4. ASSUME NEW c \in Conns, ClientOnline(c)
      PROVE  SeenInv'
  <2>1. toLobby' = toLobby \/ (toLobby' = Append(toLobby, Disconnected(c)) /\ session'[c] = "gone")
    BY <1>1, <1>4 DEF ClientOnline
  <2>2. Disconnected(c) \in LobbyMessages
    BY DEF LobbyMessages
  <2>3. session'[c] = "gone" => Told(Disconnected(c), session')
    BY DifferentMessages
  <2>4. \A i \in 1 .. Len(toLobby') :
          (\E k \in 1 .. Len(toLobby) : toLobby'[i] = toLobby[k]) \/ Told(toLobby'[i], session')
    <3> HIDE DEF Told
    <3>1. QED
      BY <1>1, <2>1, <2>2, <2>3, OneMore
  <2>5. UNCHANGED toGateway
    BY <1>4 DEF ClientOnline
  <2> HIDE DEF Told, Answered
  <2>6. QED
    BY <1>2, <2>4, <2>5
<1>5. ASSUME NEW c \in Conns, NEW a \in Accounts, ProtoLogin(c, a)
      PROVE  SeenInv'
  <2>1. toLobby' = toLobby \/ toLobby' = Append(toLobby, LoginQuest(c, a))
    BY <1>5 DEF ProtoLogin
  <2>2. LoginQuest(c, a) \in LobbyMessages
    BY DEF LobbyMessages
  <2>3. Told(LoginQuest(c, a), session')
    <3>1. session'[c] # "unused"
      BY <1>5 DEF ProtoLogin, EraseLater, Live
    <3>2. QED
      BY <3>1, DifferentMessages
  <2>4. \A i \in 1 .. Len(toLobby') :
          (\E k \in 1 .. Len(toLobby) : toLobby'[i] = toLobby[k]) \/ Told(toLobby'[i], session')
    <3> HIDE DEF Told
    <3>1. QED
      BY <1>1, <2>1, <2>2, <2>3, OneMore
  <2>5. UNCHANGED toGateway
    BY <1>5 DEF ProtoLogin
  <2> HIDE DEF Told, Answered
  <2>6. QED
    BY <1>2, <2>4, <2>5
<1>6. CASE TimerExec
  <2>1. /\ Len(toLobby') \in Nat
        /\ \A i \in 1 .. Len(toLobby) : toLobby'[i] = toLobby[i]
        /\ \A j \in (Len(toLobby) + 1) .. Len(toLobby') :
             \E c \in dying : Live(c) /\ toLobby'[j] = Disconnected(c)
    BY <1>6, TimerTells DEF TypeInv
  <2>2. \A c \in dying : Live(c) => session'[c] = "gone"
    BY <1>6 DEF TimerExec, TypeInv, GatewayTypes
  <2>3. \A c \in dying : Live(c) => Told(Disconnected(c), session')
    BY <2>2, DifferentMessages
  <2>4. UNCHANGED toGateway
    BY <1>6 DEF TimerExec
  <2> HIDE DEF Told, Answered
  <2>5. ASSUME NEW i \in 1 .. Len(toLobby')
        PROVE  \/ \E k \in 1 .. Len(toLobby) : toLobby'[i] = toLobby[k]
               \/ Told(toLobby'[i], session')
    <3>1. CASE i <= Len(toLobby)
      BY <1>1, <2>1, <3>1
    <3>2. CASE i > Len(toLobby)
      BY <1>1, <2>1, <2>3, <3>2
    <3>3. QED
      BY <1>1, <2>1, <3>1, <3>2
  <2>6. QED
    BY <1>2, <2>4, <2>5
<1>7. CASE GatewayReceives
  <2>1. /\ Len(toGateway) \in Nat \ {0} /\ Len(toGateway') = Len(toGateway) - 1
        /\ \A i \in 1 .. Len(toGateway') : toGateway'[i] = toGateway[i + 1]
        /\ UNCHANGED toLobby
    BY <1>1, <1>7, TailOf DEF GatewayReceives
  <2>2. \A i \in 1 .. Len(toGateway') : i + 1 \in 1 .. Len(toGateway)
    BY <2>1
  <2> HIDE DEF Told, Answered
  <2>3. QED
    BY <1>2, <2>1, <2>2
<1>8. CASE LobbyReceives
  <2>1. /\ Len(toLobby) \in Nat \ {0} /\ Len(toLobby') = Len(toLobby) - 1
        /\ Head(toLobby) \in LobbyMessages /\ Head(toLobby) = toLobby[1]
        /\ \A i \in 1 .. Len(toLobby') : toLobby'[i] = toLobby[i + 1]
        /\ UNCHANGED session
    BY <1>1, <1>8, TailOf DEF LobbyReceives
  <2>2. \A i \in 1 .. Len(toLobby') : i + 1 \in 1 .. Len(toLobby)
    BY <2>1
  <2>3. CASE UNCHANGED toGateway
    <3> HIDE DEF Told, Answered
    <3>1. QED
      BY <1>2, <2>1, <2>2, <2>3
  <2>4. ASSUME NEW c \in Conns, NEW a \in Accounts, Head(toLobby) = LoginQuest(c, a),
               LoginFromRedis(c, a) \/ LoginReplaces(c, a)
        PROVE  SeenInv'
    <3>1. session'[c] # "unused"
      <4>1. 1 \in 1 .. Len(toLobby) /\ toLobby[1] = LoginQuest(c, a)
        BY <2>1, <2>4
      <4>2. QED
        BY <2>1, <4>1 DEF SeenInv
    <3>2. /\ RetLogin(c, a) \in GatewayMessages /\ RetLogin(c, None) \in GatewayMessages
          /\ Answered(RetLogin(c, a), session') /\ Answered(RetLogin(c, None), session')
      BY <3>1, DifferentMessages DEF GatewayMessages
    <3>3. a \in byOpenid => /\ Replaced(c, client[a]) \in GatewayMessages
                            /\ Answered(Replaced(c, client[a]), session')
      BY DifferentMessages DEF Replaced, GatewayMessages, TypeInv, LobbyTypes
    <3> HIDE DEF Told, Answered
    <3>4. ASSUME NEW m \in GatewayMessages, toGateway' = Append(toGateway, m), Answered(m, session')
          PROVE  \A i \in 1 .. Len(toGateway') :
                   \/ \E k \in 1 .. Len(toGateway) : toGateway'[i] = toGateway[k]
                   \/ Answered(toGateway'[i], session')
      BY <1>1, <3>4, OneMore
    <3>5. ASSUME NEW m \in GatewayMessages, NEW n \in GatewayMessages,
                 toGateway' = toGateway \o <<m, n>>, Answered(m, session'), Answered(n, session')
          PROVE  \A i \in 1 .. Len(toGateway') :
                   \/ \E k \in 1 .. Len(toGateway) : toGateway'[i] = toGateway[k]
                   \/ Answered(toGateway'[i], session')
      BY <1>1, <3>5, TwoMore
    <3>6. \A i \in 1 .. Len(toGateway') :
            \/ \E k \in 1 .. Len(toGateway) : toGateway'[i] = toGateway[k]
            \/ Answered(toGateway'[i], session')
      <4>1. CASE LoginFromRedis(c, a)
        BY <3>2, <3>4, <4>1 DEF LoginFromRedis
      <4>2. CASE LoginReplaces(c, a)
        BY <3>2, <3>3, <3>5, <4>2 DEF LoginReplaces
      <4>3. QED
        BY <2>4, <4>1, <4>2
    <3>7. QED
      BY <1>2, <2>1, <2>2, <3>6
  <2>5. CASE ProtoLoginQuest(Head(toLobby))
    <3>1. PICK c \in Conns, a \in Accounts : Head(toLobby) = LoginQuest(c, a)
      BY <2>1, <2>5, MessageKinds DEF ProtoLoginQuest
    <3>2. LoginFromRedis(c, a) \/ LoginReplaces(c, a)
      BY <2>5, <3>1 DEF ProtoLoginQuest, LoginQuest
    <3>3. QED
      BY <2>4, <3>1, <3>2
  <2>6. QED
    BY <1>8, <2>3, <2>5 DEF LobbyReceives, ProtoClientDisconnected
<1>9. CASE GatewayDies
  <2>1. PICK n \in 0 .. Len(toLobby) : toLobby' = SubSeq(toLobby, 1, n)
    BY <1>9 DEF GatewayDies
  <2>2. Len(toLobby') = n /\ \A i \in 1 .. n : toLobby'[i] = toLobby[i]
    BY <1>1, <2>1, PartOf
  <2>3. Len(toGateway') = 0
    BY <1>9 DEF GatewayDies
  <2> HIDE DEF Told, Answered
  <2>4. QED
    BY <1>1, <1>2, <2>2, <2>3
<1>10. CASE LobbyDies
  <2>1. PICK n \in 0 .. Len(toLobby) : toLobby' = SubSeq(toLobby, n + 1, Len(toLobby))
    BY <1>10 DEF LobbyDies
  <2>2. /\ Len(toLobby') = Len(toLobby) - n
        /\ \A i \in 1 .. Len(toLobby) - n : toLobby'[i] = toLobby[i + n]
    BY <1>1, <2>1, PartOf
  <2>3. \A i \in 1 .. Len(toLobby') : i + n \in 1 .. Len(toLobby)
    BY <1>1, <2>2
  <2>4. PICK k \in 0 .. Len(toGateway) : toGateway' = SubSeq(toGateway, 1, k)
    BY <1>10 DEF LobbyDies
  <2>5. Len(toGateway') = k /\ \A i \in 1 .. k : toGateway'[i] = toGateway[i]
    BY <1>1, <2>4, PartOf
  <2> HIDE DEF Told, Answered
  <2>6. QED
    BY <1>1, <1>2, <2>2, <2>3, <2>5
<1>11. QED
  BY <1>3, <1>4, <1>5, <1>6, <1>7, <1>8, <1>9, <1>10
     DEF Next, vars, ClientOffline, Evict, RedisFails

LEMMA PlayingStep ==
  ASSUME TypeInv, IndexesAgree, SeenInv, PlayingInv, [Next]_vars
  PROVE  PlayingInv'
<1> USE DEF gatewayVars, lobbyVars, indexVars, redisVars, historyVars
<1>1. /\ Len(toGateway) \in Nat /\ toGateway \in Seq(GatewayMessages)
      /\ toLobby \in Seq(LobbyMessages)
      /\ session \in [Conns -> Sessions] /\ cuidAt \in [Conns -> Accounts \union {None}]
  BY DEF TypeInv, QueueTypes, GatewayTypes
\* Nothing is said, nobody who is fine is less so, and whoever is not known to go
\* any more has gone.
<1>2. ASSUME UNCHANGED toGateway,
             \A c \in Conns, a \in Accounts : Fine(c, a) => Fine(c, a)' \/ ~Live(c)',
             \A c \in Conns : c \in dying \union forgotten =>
               c \in dying' \union forgotten' \/ ~Live(c)',
             \A c \in Conns : session'[c] = "playing" =>
               session[c] = "playing" /\ cuidAt'[c] = cuidAt[c],
             \A c \in Conns : Live(c)' => Live(c) \/ session[c] = "unused"
      PROVE  PlayingInv'
  <2>1. ASSUME NEW i \in Nat, NEW c \in Conns, NEW a \in Accounts, Known(i, c, a)
        PROVE  Known(i, c, a)' \/ ~Live(c)'
    BY <1>2, <2>1 DEF Known, Stopped
  <2>2. ASSUME NEW c \in Conns, NEW a \in Accounts, session'[c] = "playing", cuidAt'[c] = a
        PROVE  Known(1, c, a)'
    BY <1>2, <2>1, <2>2 DEF PlayingInv, Live
  <2>3. ASSUME NEW i \in 1 .. Len(toGateway'), NEW c \in Conns, NEW a \in Accounts,
               toGateway'[i] = RetLogin(c, a)
        PROVE  Known(i, c, a)' \/ ~Live(c)'
    <3>1. session[c] # "unused" /\ (Known(i, c, a) \/ ~Live(c))
      BY <1>2, <2>3 DEF SeenInv, PlayingInv
    <3>2. QED
      BY <1>1, <1>2, <2>1, <3>1
  <2>4. QED
    BY <2>2, <2>3 DEF PlayingInv
<1>3. ASSUME NEW c \in Conns, ClientOnline(c) \/ ClientOffline(c)
      PROVE  PlayingInv'
  BY <1>1, <1>2, <1>3 DEF ClientOnline, ClientOffline, EraseLater, Fine, Live
<1>4. ASSUME NEW c \in Conns, NEW a \in Accounts, ProtoLogin(c, a)
      PROVE  PlayingInv'
  BY <1>1, <1>2, <1>4 DEF ProtoLogin, EraseLater, Fine, Live
<1>5. CASE TimerExec
  <2>1. /\ UNCHANGED <<toGateway, byOpenid, client, forgotten, cuidAt>>
        /\ session' = [c \in Conns |-> IF c \in dying /\ Live(c) THEN "gone" ELSE session[c]]
    BY <1>5 DEF TimerExec
  <2>2. \A c \in Conns, a \in Accounts : Fine(c, a) => Fine(c, a)'
    BY <2>1 DEF Fine
  <2>3. \A c \in Conns : Live(c)' => Live(c) /\ c \notin dying
    BY <2>1 DEF Live
  <2>4. \A c \in Conns : session'[c] = "playing" => session[c] = "playing"
    BY <2>1
  <2>5. QED
    BY <1>2, <2>1, <2>2, <2>3, <2>4
<1>6. CASE GatewayReceives
  <2> DEFINE m == Head(toGateway)
  <2>1. /\ m \in GatewayMessages /\ m = toGateway[1]
        /\ Len(toGateway) \in Nat \ {0} /\ Len(toGateway') = Len(toGateway) - 1
        /\ \A i \in 1 .. Len(toGateway') : toGateway'[i] = toGateway[i + 1]
        /\ UNCHANGED <<byOpenid, client, forgotten>>
    BY <1>1, <1>6, TailOf DEF GatewayReceives
  <2> HIDE DEF m
  <2>2. dying \subseteq dying' /\ \A c \in Conns : Live(c)' <=> Live(c)
    BY <1>1, <1>6 DEF GatewayReceives, ProtoRetLoginQuest, ProtoClientBeReplaced, EraseLater, Live
  <2>3. ASSUME NEW i \in 1 .. Len(toGateway), NEW c \in Conns, NEW a \in Accounts,
               Known(i + 1, c, a)
        PROVE  Known(i, c, a)'
    <3>1. CASE Fine(c, a) \/ c \in dying \/ c \in forgotten
      BY <2>1, <2>2, <3>1 DEF Known, Fine
    <3>2. ASSUME NEW j \in (i + 1) .. Len(toGateway),
                 \/ toGateway[j] = BeReplaced(c)
                 \/ \E b \in Accounts \ {a} : toGateway[j] = RetLogin(c, b)
          PROVE  Known(i, c, a)'
      <4>1. /\ j - 1 \in i .. Len(toGateway') /\ j - 1 \in 1 .. Len(toGateway')
            /\ (j - 1) + 1 = j
        BY <2>1
      <4>2. toGateway'[j - 1] = toGateway[j]
        BY <2>1, <4>1
      <4>3. Stopped(i, c, a)'
        BY <3>2, <4>1, <4>2 DEF Stopped
      <4>4. QED
        BY <4>3 DEF Known
    <3>3. QED
      BY <2>3, <3>1, <3>2 DEF Known, Stopped
  <2>4. ASSUME NEW c \in Conns, NEW a \in Accounts, Known(1, c, a),
               m # BeReplaced(c), \A b \in Accounts \ {a} : m # RetLogin(c, b)
        PROVE  Known(1, c, a)'
    <3>1. Known(2, c, a)
      BY <2>1, <2>4 DEF Known, Stopped
    <3>2. QED
      BY <2>1, <2>3, <3>1
  <2>5. ASSUME NEW i \in 1 .. Len(toGateway'), NEW c \in Conns, NEW a \in Accounts,
               toGateway'[i] = RetLogin(c, a)
        PROVE  Known(i, c, a)' \/ ~Live(c)'
    <3>1. i \in 1 .. Len(toGateway) /\ i + 1 \in 1 .. Len(toGateway)
          /\ toGateway[i + 1] = RetLogin(c, a)
      BY <2>1, <2>5
    <3>2. Known(i + 1, c, a) \/ ~Live(c)
      BY <3>1 DEF PlayingInv
    <3>3. QED
      BY <2>2, <2>3, <3>1, <3>2
  <2>6. ASSUME NEW c \in Conns, NEW a \in Accounts, session'[c] = "playing", cuidAt'[c] = a
        PROVE  Known(1, c, a)'
    <3>1. ASSUME NEW d \in Conns, m = BeReplaced(d), ProtoClientBeReplaced(m)
          PROVE  Known(1, c, a)'
      <4>1. m.ccid = d /\ UNCHANGED <<session, cuidAt>>
        BY <3>1 DEF BeReplaced, ProtoClientBeReplaced, EraseLater
      <4>2. CASE d = c
        <5>1. Live(c)
          BY <2>6, <4>1 DEF Live
        <5>2. c \in dying'
          BY <3>1, <4>1, <4>2, <5>1 DEF ProtoClientBeReplaced, EraseLater
        <5>3. QED
          BY <5>2 DEF Known
      <4>3. CASE d # c
        <5>1. Known(1, c, a)
          BY <2>6, <4>1 DEF PlayingInv
        <5>2. m # BeReplaced(c) /\ \A b \in Accounts \ {a} : m # RetLogin(c, b)
          BY <3>1, <4>3, DifferentMessages
        <5>3. QED
          BY <2>4, <5>1, <5>2
      <4>4. QED
        BY <4>2, <4>3
    <3>2. ASSUME NEW d \in Conns, NEW b \in Accounts \union {None}, m = RetLogin(d, b),
                 ProtoRetLoginQuest(m)
          PROVE  Known(1, c, a)'
      <4>1. /\ m.ccid = d /\ m.openid = b
            /\ m # BeReplaced(c)
        BY <3>2, DifferentMessages DEF RetLogin
      <4>2. CASE d = c
        <5>1. Live(c)
          BY <2>2, <2>6 DEF Live
        <5>2. b = a
          BY <1>1, <2>6, <3>2, <4>1, <4>2, <5>1 DEF ProtoRetLoginQuest
        <5>3. 1 \in 1 .. Len(toGateway) /\ toGateway[1] = RetLogin(c, a)
          BY <2>1, <3>2, <4>2, <5>2
        <5>4. Known(1, c, a)
          BY <5>1, <5>3 DEF PlayingInv
        <5>5. \A e \in Accounts \ {a} : m # RetLogin(c, e)
          BY <3>2, <5>2, DifferentMessages
        <5>6. QED
          BY <2>4, <4>1, <5>4, <5>5
      <4>3. CASE d # c
        <5>1. session[c] = "playing" /\ cuidAt[c] = a
          BY <1>1, <2>6, <3>2, <4>1, <4>3 DEF ProtoRetLoginQuest
        <5>2. Known(1, c, a)
          BY <5>1 DEF PlayingInv
        <5>3. \A e \in Accounts \ {a} : m # RetLogin(c, e)
          BY <3>2, <4>3, DifferentMessages
        <5>4. QED
          BY <2>4, <4>1, <5>2, <5>3
      <4>4. QED
        BY <4>2, <4>3
    <3>3. QED
      BY <1>6, <2>1, <3>1, <3>2, MessageKinds
         DEF GatewayReceives, ProtoRetLoginQuest, ProtoClientBeReplaced, m
  <2>7. QED
    BY <2>5, <2>6 DEF PlayingInv
<1>7. CASE LobbyReceives
  <2> DEFINE m == Head(toLobby)
  <2>1. m \in LobbyMessages /\ m = toLobby[1] /\ 1 \in 1 .. Len(toLobby)
    BY <1>1, <1>7, TailOf DEF LobbyReceives
  <2>2. UNCHANGED <<session, cuidAt, dying>> /\ \A c \in Conns : Live(c)' <=> Live(c)
    BY <1>7 DEF LobbyReceives, Live
  <2>3. CASE ProtoClientDisconnected(m)
    <3> HIDE DEF m
    <3>1. PICK c \in Conns : m = Disconnected(c)
      BY <2>1, <2>3, MessageKinds DEF ProtoClientDisconnected
    <3>2. session[c] = "gone"
      BY <2>1, <3>1 DEF SeenInv
    <3>3. ASSUME NEW d \in Conns, NEW a \in Accounts, Fine(d, a), Live(d)
          PROVE  Fine(d, a)'
      <4>1. d # c
        BY <3>2, <3>3 DEF Live
      <4>2. <<c, a>> \notin byCcid
        BY <3>3, <4>1 DEF Fine, IndexesAgree
      <4>3. client'[a] = client[a]
        BY <2>3, <3>1, <4>2 DEF ProtoClientDisconnected, Disconnected
      <4>4. QED
        BY <2>3, <3>3, <4>3 DEF Fine, ProtoClientDisconnected
    <3>4. UNCHANGED <<toGateway, forgotten>>
      BY <2>3 DEF ProtoClientDisconnected
    <3>5. QED
      BY <1>2, <2>2, <3>3, <3>4
  <2>4. ASSUME NEW c \in Conns, NEW a \in Accounts, m = LoginQuest(c, a),
               LoginFromRedis(c, a) \/ LoginReplaces(c, a)
        PROVE  PlayingInv'
    <3> DEFINE L == Len(toGateway)
    <3> HIDE DEF m
    <3>1. /\ RetLogin(c, a) \in GatewayMessages /\ RetLogin(c, None) \in GatewayMessages
          /\ a \in byOpenid => Replaced(c, client[a]) \in GatewayMessages
      BY DEF GatewayMessages, Replaced, TypeInv, LobbyTypes
    \* What is said: to whom the account belonged, that he go, and the answer.
    <3>2. /\ Len(toGateway') \in Nat /\ Len(toGateway') > L
          /\ \A i \in 1 .. L : toGateway'[i] = toGateway[i]
          /\ \A i \in (L + 1) .. Len(toGateway') :
               toGateway'[i] \in {RetLogin(c, a), RetLogin(c, None)}
                 \union {BeReplaced(d) : d \in Conns}
          /\ a \in byOpenid => toGateway'[L + 1] = BeReplaced(client[a].ccid)
          /\ a \in byOpenid' => toGateway'[Len(toGateway')] = RetLogin(c, a)
          /\ a \notin byOpenid' => toGateway'[Len(toGateway')] = RetLogin(c, None)
          /\ \A i \in (L + 1) .. Len(toGateway') :
               toGateway'[i] = RetLogin(c, a) => a \in byOpenid'
      <4>1. ASSUME NEW x \in GatewayMessages, toGateway' = Append(toGateway, x)
            PROVE  /\ Len(toGateway') = L + 1 /\ toGateway'[L + 1] = x
                   /\ \A i \in 1 .. L : toGateway'[i] = toGateway[i]
        BY <1>1, <4>1, OneMore
      <4>2. ASSUME NEW x \in GatewayMessages, NEW y \in GatewayMessages,
                   toGateway' = toGateway \o <<x, y>>
            PROVE  /\ Len(toGateway') = L + 2 /\ toGateway'[L + 1] = x /\ toGateway'[L + 2] = y
                   /\ \A i \in 1 .. L : toGateway'[i] = toGateway[i]
        BY <1>1, <4>2, TwoMore
      <4>3. RetLogin(c, a) # RetLogin(c, None) /\ \A d : BeReplaced(d) # RetLogin(c, a)
        BY DifferentMessages, LoginAssumption
      <4>4. CASE LoginFromRedis(c, a)
        <5>1. a \notin byOpenid
          BY <4>4 DEF LoginFromRedis
        <5>2. \/ toGateway' = Append(toGateway, RetLogin(c, a)) /\ a \in byOpenid'
              \/ toGateway' = Append(toGateway, RetLogin(c, None)) /\ a \notin byOpenid'
          BY <4>4, <5>1 DEF LoginFromRedis, Insert
        <5>3. CASE toGateway' = Append(toGateway, RetLogin(c, a)) /\ a \in byOpenid'
          BY <1>1, <3>1, <4>1, <5>1, <5>3
        <5>4. CASE toGateway' = Append(toGateway, RetLogin(c, None)) /\ a \notin byOpenid'
          BY <1>1, <3>1, <4>1, <4>3, <5>1, <5>4
        <5>5. QED
          BY <5>2, <5>3, <5>4
      <4>5. CASE LoginReplaces(c, a)
        <5>1. a \in byOpenid /\ Replaced(c, client[a]) = BeReplaced(client[a].ccid)
          BY <4>5 DEF LoginReplaces, Replaced
        <5>2. \/ /\ toGateway' = toGateway \o <<Replaced(c, client[a]), RetLogin(c, a)>>
                 /\ a \in byOpenid'
              \/ /\ toGateway' = toGateway \o <<Replaced(c, client[a]), RetLogin(c, None)>>
                 /\ a \notin byOpenid'
          BY <4>5 DEF LoginReplaces, Insert, Erase
        <5>3. client[a].ccid \in Conns
          BY <5>1 DEF TypeInv, LobbyTypes
        <5>4. CASE /\ toGateway' = toGateway \o <<Replaced(c, client[a]), RetLogin(c, a)>>
                   /\ a \in byOpenid'
          <6>1. /\ Len(toGateway') = L + 2 /\ \A i \in 1 .. L : toGateway'[i] = toGateway[i]
                /\ toGateway'[L + 1] = BeReplaced(client[a].ccid)
                /\ toGateway'[L + 2] = RetLogin(c, a)
            BY <3>1, <4>2, <5>1, <5>4
          <6>2. \A i \in (L + 1) .. (L + 2) : i = L + 1 \/ i = L + 2
            BY <1>1, SMTT(30)
          <6>3. BeReplaced(client[a].ccid) \in {BeReplaced(d) : d \in Conns}
            BY <5>3
          <6>4. \A i \in (L + 1) .. Len(toGateway') :
                  toGateway'[i] \in {RetLogin(c, a), RetLogin(c, None)}
                    \union {BeReplaced(d) : d \in Conns}
            BY <6>1, <6>2, <6>3
          <6>5. L \in Nat /\ Len(toGateway') \in Nat /\ Len(toGateway') > L
            BY <1>1, <6>1
          <6>6. a \in byOpenid' /\ toGateway'[Len(toGateway')] = RetLogin(c, a)
            BY <5>4, <6>1
          <6>7. QED
            BY <5>1, <6>1, <6>4, <6>5, <6>6
        <5>5. CASE /\ toGateway' = toGateway \o <<Replaced(c, client[a]), RetLogin(c, None)>>
                   /\ a \notin byOpenid'
          <6>1. /\ Len(toGateway') = L + 2 /\ \A i \in 1 .. L : toGateway'[i] = toGateway[i]
                /\ toGateway'[L + 1] = BeReplaced(client[a].ccid)
                /\ toGateway'[L + 2] = RetLogin(c, None)
            BY <3>1, <4>2, <5>1, <5>5
          <6>2. \A i \in (L + 1) .. (L + 2) : i = L + 1 \/ i = L + 2
            BY <1>1, SMTT(30)
          <6>3. BeReplaced(client[a].ccid) \in {BeReplaced(d) : d \in Conns}
            BY <5>3
          <6>4. \A i \in (L + 1) .. Len(toGateway') :
                  /\ toGateway'[i] \in {RetLogin(c, a), RetLogin(c, None)}
                       \union {BeReplaced(d) : d \in Conns}
                  /\ toGateway'[i] # RetLogin(c, a)
            BY <4>3, <6>1, <6>2, <6>3
          <6>5. L \in Nat /\ Len(toGateway') \in Nat /\ Len(toGateway') > L
            BY <1>1, <6>1
          <6>6. a \notin byOpenid' /\ toGateway'[Len(toGateway')] = RetLogin(c, None)
            BY <5>5, <6>1
          <6>7. QED
            BY <5>1, <6>1, <6>4, <6>5, <6>6
        <5>6. QED
          BY <5>2, <5>4, <5>5
      <4>6. QED
        BY <2>4, <4>4, <4>5
    <3>3. a \in byOpenid' => Fine(c, a)'
      BY <2>4, LoginClients DEF LoggedIn, Fine, TypeInv, LobbyTypes
    <3>4. \A d \in Conns, b \in Accounts \ {a} : Fine(d, b) => Fine(d, b)'
      BY <2>4, LoginClients DEF Fine
    <3>5. \A d \in Conns : d \in forgotten => d \in forgotten' \/ (d = c /\ a \in byOpenid')
      BY <2>4 DEF LoginFromRedis, LoginReplaces, LoggedIn, Insert
    <3>6. ASSUME NEW i \in 1 .. (L + 1), NEW d \in Conns, NEW b \in Accounts, Known(i, d, b)
          PROVE  Known(i, d, b)'
      <4>1. CASE Fine(d, b) /\ b # a
        BY <3>4, <4>1 DEF Known
      <4>2. CASE Fine(d, b) /\ b = a
        <5>1. toGateway'[L + 1] = BeReplaced(d) /\ L + 1 \in i .. Len(toGateway')
          BY <1>1, <3>2, <4>2 DEF Fine
        <5>2. QED
          BY <5>1 DEF Known, Stopped
      <4>3. CASE d \in dying
        BY <2>2, <4>3 DEF Known
      <4>4. CASE d \in forgotten'
        BY <4>4 DEF Known
      <4>5. CASE d = c /\ a \in byOpenid'
        <5>1. CASE b = a
          BY <3>3, <4>5, <5>1 DEF Known
        <5>2. CASE b # a
          <6>1. /\ Len(toGateway') \in i .. Len(toGateway')
                /\ toGateway'[Len(toGateway')] = RetLogin(d, a) /\ a \in Accounts \ {b}
            BY <1>1, <3>2, <4>5, <5>2
          <6>2. QED
            BY <6>1 DEF Known, Stopped
        <5>3. QED
          BY <5>1, <5>2
      <4>6. CASE Stopped(i, d, b)
        <5>1. PICK j \in i .. L : \/ toGateway[j] = BeReplaced(d)
                                  \/ \E e \in Accounts \ {b} : toGateway[j] = RetLogin(d, e)
          BY <4>6 DEF Stopped
        <5>2. j \in i .. Len(toGateway') /\ toGateway'[j] = toGateway[j]
          BY <1>1, <3>2
        <5>3. QED
          BY <5>1, <5>2 DEF Known, Stopped
      <4>7. QED
        BY <3>5, <3>6, <4>1, <4>2, <4>3, <4>4, <4>5, <4>6 DEF Known
    <3>7. ASSUME NEW d \in Conns, NEW b \in Accounts, session'[d] = "playing", cuidAt'[d] = b
          PROVE  Known(1, d, b)'
      BY <1>1, <2>2, <3>6, <3>7 DEF PlayingInv
    <3>8. ASSUME NEW i \in 1 .. Len(toGateway'), NEW d \in Conns, NEW b \in Accounts,
                 toGateway'[i] = RetLogin(d, b)
          PROVE  Known(i, d, b)' \/ ~Live(d)'
      <4>1. CASE i <= L
        <5>1. i \in 1 .. L /\ toGateway[i] = RetLogin(d, b)
          BY <1>1, <3>2, <3>8, <4>1
        <5>2. Known(i, d, b) \/ ~Live(d)
          BY <5>1 DEF PlayingInv
        <5>3. QED
          BY <1>1, <2>2, <3>6, <5>1, <5>2
      <4>2. CASE i > L
        <5>1. i \in (L + 1) .. Len(toGateway')
          BY <1>1, <3>2, <4>2
        <5>2. d = c /\ b = a
          BY <3>2, <3>8, <5>1, DifferentMessages, LoginAssumption
        <5>3. a \in byOpenid'
          BY <3>2, <3>8, <5>1, <5>2
        <5>4. QED
          BY <3>3, <5>2, <5>3 DEF Known
      <4>3. QED
        BY <1>1, <3>2, <4>1, <4>2
    <3>9. QED
      BY <3>7, <3>8 DEF PlayingInv
  <2>5. CASE ProtoLoginQuest(m)
    <3> HIDE DEF m
    <3>1. PICK c \in Conns, a \in Accounts : m = LoginQuest(c, a)
      BY <2>1, <2>5, MessageKinds DEF ProtoLoginQuest
    <3>2. LoginFromRedis(c, a) \/ LoginReplaces(c, a)
      BY <2>5, <3>1 DEF ProtoLoginQuest, LoginQuest
    <3>3. QED
      BY <2>4, <3>1, <3>2
  <2>6. QED
    BY <1>7, <2>3, <2>5 DEF LobbyReceives
<1>8. ASSUME NEW a \in Accounts, Evict(a)
      PROVE  PlayingInv'
  <2>1. \A c \in Conns, b \in Accounts : Fine(c, b) => Fine(c, b)'
    BY <1>8 DEF Evict, Erase, Fine, TypeInv, LobbyTypes
  <2>2. UNCHANGED <<toGateway, session, cuidAt, dying, forgotten>>
    BY <1>8 DEF Evict
  <2>3. QED
    BY <1>2, <2>1, <2>2 DEF Live
<1>9. CASE GatewayDies
  <2>1. Len(toGateway') = 0 /\ \A c \in Conns : session'[c] # "playing"
    BY <1>9 DEF GatewayDies, Live
  <2>2. QED
    BY <2>1 DEF PlayingInv
<1>10. CASE LobbyDies
  <2>1. PICK n \in 0 .. Len(toGateway) : toGateway' = SubSeq(toGateway, 1, n)
    BY <1>10 DEF LobbyDies
  <2>2. Len(toGateway') = n /\ \A i \in 1 .. n : toGateway'[i] = toGateway[i]
    BY <1>1, <2>1, PartOf
  <2>3. \A c \in Conns : session[c] # "unused" => c \in forgotten'
    BY <1>10 DEF LobbyDies
  <2>4. UNCHANGED <<session, cuidAt>>
    BY <1>10 DEF LobbyDies
  <2>5. ASSUME NEW c \in Conns, NEW a \in Accounts, session'[c] = "playing"
        PROVE  Known(1, c, a)'
    BY <2>3, <2>4, <2>5 DEF Known
  <2>6. ASSUME NEW i \in 1 .. Len(toGateway'), NEW c \in Conns, NEW a \in Accounts,
               toGateway'[i] = RetLogin(c, a)
        PROVE  Known(i, c, a)'
    <3>1. session[c] # "unused"
      BY <1>1, <2>1, <2>2, <2>6, SMTT(30) DEF SeenInv
    <3>2. QED
      BY <2>3, <3>1 DEF Known
  <2>7. QED
    BY <2>5, <2>6 DEF PlayingInv
<1>11. CASE RedisFails \/ UNCHANGED vars
  BY <1>2, <1>11 DEF RedisFails, vars, Fine, Live
<1>12. QED
  BY <1>3, <1>4, <1>5, <1>6, <1>7, <1>8, <1>9, <1>10, <1>11 DEF Next

-----------------------------------------------------------------------------
(*** The theorems ***)

LoginInv ==
  TypeInv /\ IndexesAgree /\ CuidInv /\ OnlineInv /\ SeenInv /\ PlayingInv

LEMMA StartsRight == Init => LoginInv
<1> SUFFICES ASSUME Init PROVE LoginInv
  OBVIOUS
<1>1. toLobby = <<>> /\ toGateway = <<>> /\ Len(toLobby) = 0 /\ Len(toGateway) = 0
  BY DEF Init
<1>2. TypeInv
  BY <1>1, FS_EmptySet
     DEF Init, TypeInv, GatewayTypes, QueueTypes, LobbyTypes, Sessions, ClientSet, NoClient
<1>3. IndexesAgree /\ CuidInv
  BY DEF Init, IndexesAgree, CuidInv, CuidsAreUnique
<1>4. OnlineInv /\ SeenInv /\ PlayingInv
  BY <1>1 DEF Init, OnlineInv, SeenInv, PlayingInv
<1>5. QED
  BY <1>2, <1>3, <1>4 DEF LoginInv

\* The inductive invariant: what the two processes know of each other, with all
\* that is under way between them.
THEOREM LoginIsSound == Spec => []LoginInv
<1>1. LoginInv /\ [Next]_vars => LoginInv'
  BY TypeStep, IndexStep, OnlineStep, SeenStep, PlayingStep DEF LoginInv
<1>2. QED
  BY <1>1, StartsRight, PTL DEF Spec

\* The lobby's three indexes hold the same clients under the keys they have now,
\* after any logins, replacements, refusals and evictions.
THEOREM IndexesStayInStep == Spec => []IndexesAgree
<1>1. LoginInv => IndexesAgree
  BY DEF LoginInv
<1>2. QED
  BY <1>1, LoginIsSound, PTL

\* No cuid is given to two accounts, although the lobby dies and Redis goes away.
THEOREM CuidsStayUnique == Spec => []CuidsAreUnique
<1>1. LoginInv => CuidsAreUnique
  BY DEF LoginInv, CuidInv
<1>2. QED
  BY <1>1, LoginIsSound, PTL

\* Whom the lobby takes to be online is connected, or the lobby will be told.
THEOREM OnlineStaysConnected == Spec => []OnlineIsConnected
<1>1. LoginInv => OnlineIsConnected
  <2> SUFFICES ASSUME LoginInv, NEW a \in byOpenid, client[a].online
               PROVE  LET c == client[a].ccid IN
                      Live(c) \/ UnderWay(toLobby, Disconnected(c)) \/ c \in orphans
    BY DEF OnlineIsConnected
  <2>1. client[a].ccid \in Conns
    BY DEF LoginInv, TypeInv, LobbyTypes
  <2>2. WillGo(1, client[a].ccid)
    BY <2>1 DEF LoginInv, OnlineInv
  <2>3. QED
    BY <2>2 DEF WillGo, UnderWay
<1>2. QED
  BY <1>1, LoginIsSound, PTL

\* A session that plays an account is the one the lobby has for it, or a message
\* is on its way that ends this: the newest login wins.
THEOREM NewestLoginWins == Spec => []PlayingIsKnown
<1>1. LoginInv => PlayingIsKnown
  <2> SUFFICES ASSUME LoginInv, NEW c \in Conns, session[c] = "playing", cuidAt[c] # None
               PROVE  \/ cuidAt[c] \in byOpenid /\ client[cuidAt[c]].ccid = c
                           /\ client[cuidAt[c]].online
                      \/ c \in dying \/ UnderWay(toGateway, BeReplaced(c))
                      \/ \E a \in Accounts \ {cuidAt[c]} : UnderWay(toGateway, RetLogin(c, a))
                      \/ c \in forgotten
    BY DEF PlayingIsKnown
  <2>1. cuidAt[c] \in Accounts
    BY DEF LoginInv, TypeInv, GatewayTypes
  <2>2. Known(1, c, cuidAt[c])
    BY <2>1 DEF LoginInv, PlayingInv
  <2>3. QED
    BY <2>2 DEF Known, Stopped, Fine, UnderWay
<1>2. QED
  BY <1>1, LoginIsSound, PTL

=============================================================================
