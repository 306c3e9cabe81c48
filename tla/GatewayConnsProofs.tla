------------------------- MODULE GatewayConnsProofs -------------------------
(***************************************************************************)
(* What only one of the two managers of the gateway knows a thread has in  *)
(* hand, and the index by socket number is true, for any number of         *)
(* connections and of socket numbers.                                      *)
(***************************************************************************)
EXTENDS GatewayConns, TLAPS

\* The connections that have been registered once: the others are unused, or
\* the accepting thread has them.
Registered == {c \in Conns : sock[c] # "unused" /\ c # acceptor.conn}

\* Open sockets have numbers, each its own; but for what the accepting thread
\* is about to register, whatever a thread or a manager names was registered.
WhereaboutsInv ==
  /\ \A c \in Conns : sock[c] = "open" => fd[c] \in Fds
  /\ \A c, d \in Conns : sock[c] = "open" /\ sock[d] = "open" /\ fd[c] = fd[d] => c = d
  /\ acceptor.at = "idle" <=> acceptor.conn = None
  /\ net.at = "idle" <=> net.conn = None
  /\ acceptor.at # "idle" => sock[acceptor.conn] = "open"
  /\ clients \subseteq Registered \union {acceptor.conn}
  /\ publicConns \subseteq Registered /\ dying \subseteq Registered
  /\ net.conn # None => net.conn \in Registered
  /\ main.conn # None => main.conn \in Registered

\* The network thread closes only what it has erased, and while it holds a
\* connection nobody else closes it.
NetInv ==
  /\ net.at \in {"erase", "offline", "later", "close"} => sock[net.conn] = "open"
  /\ net.at \in {"offline", "later", "close", "forget"} => net.conn \notin publicConns

\* The timer holds the lock of the dying from its beginning to its end, and
\* whoever it has been through is no client any more.
TimerInv ==
  /\ main.at = "idle" <=> dyingLock = "free"
  /\ main.at = "idle" => main = Idle
  /\ main.at \in {"lookup", "erase", "offline", "later"} => main.conn # None
  /\ todo \subseteq dying
  /\ main.at # "idle" => (dying \ todo) \cap clients = {}
  /\ main.at \in {"lookup", "erase"} => main.conn \notin clients
  /\ acceptor.at = "add" => acceptor.conn \in clients

ConnsInv ==
  TypeOK /\ WhereaboutsInv /\ NumbersAreTrue /\ NetInv /\ TimerInv /\ ManagersAgree

-----------------------------------------------------------------------------
(*** The proof that ConnsInv is inductive, part by part ***)

LEMMA TypeNext ==
  ASSUME TypeOK, WhereaboutsInv, NetInv, TimerInv, [Next]_vars
  PROVE  TypeOK'
<1> USE DEF vars, sockVars, connVars, clientVars, threadVars, Idle, At
<1> USE ConnsAssumption
<1>1. ASSUME NEW c \in Conns, PeerGoes(c)
      PROVE  TypeOK'
  BY <1>1 DEF PeerGoes, TypeOK
<1>2. ASSUME NEW c \in Conns, Destroy(c)
      PROVE  TypeOK'
  BY <1>2 DEF Destroy, TypeOK
<1>3. ASSUME NEW c \in Conns, KickOutClient(c)
      PROVE  TypeOK'
  BY <1>3 DEF KickOutClient, TypeOK
<1>4. ASSUME NEW c \in Conns, EraseClient(c)
      PROVE  TypeOK'
  BY <1>4 DEF EraseClient, TypeOK, Place, MainPcs
<1>5. ASSUME NEW c \in Conns, NEW f \in Fds, Accept(c, f)
      PROVE  TypeOK'
  BY <1>5 DEF Accept, TypeOK, Place
<1>6. CASE ClientOnline
  BY <1>6 DEF ClientOnline, TypeOK, WhereaboutsInv, Place
<1>7. CASE AddPublicConnection
  BY <1>7 DEF AddPublicConnection, TypeOK, WhereaboutsInv, Place
<1>8. CASE EpollWait
  BY <1>8 DEF EpollWait, TypeOK
<1>9. ASSUME NEW f \in Fds, EpollerEvent(f)
      PROVE  TypeOK'
  BY <1>9 DEF EpollerEvent, TypeOK, Place, NetPcs
<1>10. CASE NetErase
  BY <1>10 DEF NetErase, EraseConnection, AfterErase, Found, TypeOK, Place, NetPcs
<1>11. CASE NetOffline
  BY <1>11 DEF NetOffline, TypeOK, Place, NetPcs
<1>12. CASE NetEraseLater
  BY <1>12 DEF NetEraseLater, TypeOK, WhereaboutsInv, Place, NetPcs
<1>13. CASE NetClose
  BY <1>13 DEF NetClose, TypeOK, Place, NetPcs
<1>14. CASE NetForget
  BY <1>14 DEF NetForget, TypeOK, Place, NetPcs
<1>15. CASE TimerExec
  BY <1>15 DEF TimerExec, TypeOK, Place, MainPcs
<1>16. CASE ErasePublicConnection
  BY <1>16 DEF ErasePublicConnection, TypeOK, Place, MainPcs
<1>17. CASE MainErase
  BY <1>17 DEF MainErase, EraseConnection, AfterErase, Found, TypeOK, Place, MainPcs
<1>18. CASE MainOffline
  BY <1>18 DEF MainOffline, TypeOK, Place, MainPcs
<1>19. CASE TimerDone
  BY <1>19 DEF TimerDone, TypeOK, Place, MainPcs
<1>20. CASE UNCHANGED vars
  BY <1>20 DEF TypeOK
<1>21. QED
  BY <1>1, <1>2, <1>3, <1>4, <1>5, <1>6, <1>7, <1>8, <1>9, <1>10, <1>11, <1>12, <1>13,
     <1>14, <1>15, <1>16, <1>17, <1>18, <1>19, <1>20 DEF Next

LEMMA WhereaboutsNext ==
  ASSUME TypeOK, WhereaboutsInv, NumbersAreTrue, NetInv, TimerInv, [Next]_vars
  PROVE  WhereaboutsInv'
<1> USE DEF vars, sockVars, connVars, clientVars, threadVars, Idle, At
<1> USE ConnsAssumption
<1>1. ASSUME NEW c \in Conns, PeerGoes(c)
      PROVE  WhereaboutsInv'
  BY <1>1 DEF PeerGoes, WhereaboutsInv, Registered
<1>2. ASSUME NEW c \in Conns, Destroy(c)
      PROVE  WhereaboutsInv'
  BY <1>2 DEF Destroy, TypeOK, WhereaboutsInv, Registered
<1>3. ASSUME NEW c \in Conns, KickOutClient(c)
      PROVE  WhereaboutsInv'
  BY <1>3 DEF KickOutClient, WhereaboutsInv, Registered
<1>4. ASSUME NEW c \in Conns, EraseClient(c)
      PROVE  WhereaboutsInv'
  BY <1>4 DEF EraseClient, WhereaboutsInv, TimerInv, Registered
<1>5. ASSUME NEW c \in Conns, NEW f \in Fds, Accept(c, f)
      PROVE  WhereaboutsInv'
  BY <1>5 DEF Accept, IsFree, TypeOK, WhereaboutsInv, Registered
<1>6. CASE ClientOnline
  BY <1>6 DEF ClientOnline, WhereaboutsInv, Registered
<1>7. CASE AddPublicConnection
  BY <1>7 DEF AddPublicConnection, TypeOK, WhereaboutsInv, TimerInv, Registered
<1>8. CASE EpollWait
  BY <1>8 DEF EpollWait, WhereaboutsInv, Registered
<1>9. ASSUME NEW f \in Fds, EpollerEvent(f)
      PROVE  WhereaboutsInv'
  BY <1>9 DEF EpollerEvent, WhereaboutsInv, NumbersAreTrue, Registered
<1>10. CASE NetErase
  BY <1>10 DEF NetErase, EraseConnection, AfterErase, Found, WhereaboutsInv,
     NumbersAreTrue, Registered
<1>11. CASE NetOffline
  BY <1>11 DEF NetOffline, WhereaboutsInv, Registered
<1>12. CASE NetEraseLater
  BY <1>12 DEF NetEraseLater, WhereaboutsInv, Registered
<1>13. CASE NetClose
  BY <1>13 DEF NetClose, WhereaboutsInv, Registered
<1>14. CASE NetForget
  BY <1>14 DEF NetForget, TypeOK, WhereaboutsInv, Registered
<1>15. CASE TimerExec
  BY <1>15 DEF TimerExec, WhereaboutsInv, Registered
<1>16. CASE ErasePublicConnection
  BY <1>16 DEF ErasePublicConnection, WhereaboutsInv, Registered
<1>17. CASE MainErase
  BY <1>17 DEF MainErase, EraseConnection, AfterErase, Found, WhereaboutsInv,
     NumbersAreTrue, Registered
<1>18. CASE MainOffline
  BY <1>18 DEF MainOffline, WhereaboutsInv, Registered
<1>19. CASE TimerDone
  BY <1>19 DEF TimerDone, WhereaboutsInv, Registered
<1>20. CASE UNCHANGED vars
  BY <1>20 DEF WhereaboutsInv, Registered
<1>21. QED
  BY <1>1, <1>2, <1>3, <1>4, <1>5, <1>6, <1>7, <1>8, <1>9, <1>10, <1>11, <1>12, <1>13,
     <1>14, <1>15, <1>16, <1>17, <1>18, <1>19, <1>20 DEF Next

LEMMA NumbersNext ==
  ASSUME TypeOK, WhereaboutsInv, NumbersAreTrue, NetInv, TimerInv, [Next]_vars
  PROVE  NumbersAreTrue'
<1> USE DEF vars, sockVars, connVars, clientVars, threadVars, Idle, At
<1> USE ConnsAssumption
<1>1. ASSUME NEW c \in Conns, PeerGoes(c)
      PROVE  NumbersAreTrue'
  BY <1>1 DEF PeerGoes, NumbersAreTrue
<1>2. ASSUME NEW c \in Conns, Destroy(c)
      PROVE  NumbersAreTrue'
  BY <1>2 DEF Destroy, NumbersAreTrue
<1>3. ASSUME NEW c \in Conns, KickOutClient(c)
      PROVE  NumbersAreTrue'
  BY <1>3 DEF KickOutClient, NumbersAreTrue
<1>4. ASSUME NEW c \in Conns, EraseClient(c)
      PROVE  NumbersAreTrue'
  BY <1>4 DEF EraseClient, NumbersAreTrue
<1>5. ASSUME NEW c \in Conns, NEW f \in Fds, Accept(c, f)
      PROVE  NumbersAreTrue'
  BY <1>5 DEF Accept, NumbersAreTrue
<1>6. CASE ClientOnline
  BY <1>6 DEF ClientOnline, NumbersAreTrue
<1>7. CASE AddPublicConnection
  BY <1>7 DEF AddPublicConnection, TypeOK, WhereaboutsInv, TimerInv, NumbersAreTrue
<1>8. CASE EpollWait
  BY <1>8 DEF EpollWait, NumbersAreTrue
<1>9. ASSUME NEW f \in Fds, EpollerEvent(f)
      PROVE  NumbersAreTrue'
  BY <1>9 DEF EpollerEvent, NumbersAreTrue
<1>10. CASE NetErase
  BY <1>10 DEF NetErase, EraseConnection, Found, TypeOK, NumbersAreTrue
<1>11. CASE NetOffline
  BY <1>11 DEF NetOffline, NumbersAreTrue
<1>12. CASE NetEraseLater
  BY <1>12 DEF NetEraseLater, NumbersAreTrue
<1>13. CASE NetClose
  BY <1>13 DEF NetClose, NetInv, NumbersAreTrue
<1>14. CASE NetForget
  BY <1>14 DEF NetForget, NetInv, NumbersAreTrue
<1>15. CASE TimerExec
  BY <1>15 DEF TimerExec, NumbersAreTrue
<1>16. CASE ErasePublicConnection
  BY <1>16 DEF ErasePublicConnection, NumbersAreTrue
<1>17. CASE MainErase
  BY <1>17 DEF MainErase, EraseConnection, Found, TypeOK, NumbersAreTrue
<1>18. CASE MainOffline
  BY <1>18 DEF MainOffline, NumbersAreTrue
<1>19. CASE TimerDone
  BY <1>19 DEF TimerDone, NumbersAreTrue
<1>20. CASE UNCHANGED vars
  BY <1>20 DEF NumbersAreTrue
<1>21. QED
  BY <1>1, <1>2, <1>3, <1>4, <1>5, <1>6, <1>7, <1>8, <1>9, <1>10, <1>11, <1>12, <1>13,
     <1>14, <1>15, <1>16, <1>17, <1>18, <1>19, <1>20 DEF Next

LEMMA NetNext ==
  ASSUME TypeOK, WhereaboutsInv, NumbersAreTrue, NetInv, TimerInv, [Next]_vars
  PROVE  NetInv'
<1> USE DEF vars, sockVars, connVars, clientVars, threadVars, Idle, At
<1> USE ConnsAssumption
<1>1. ASSUME NEW c \in Conns, PeerGoes(c)
      PROVE  NetInv'
  BY <1>1 DEF PeerGoes, NetInv
<1>2. ASSUME NEW c \in Conns, Destroy(c)
      PROVE  NetInv'
  BY <1>2 DEF Destroy, NetInv
<1>3. ASSUME NEW c \in Conns, KickOutClient(c)
      PROVE  NetInv'
  BY <1>3 DEF KickOutClient, NetInv
<1>4. ASSUME NEW c \in Conns, EraseClient(c)
      PROVE  NetInv'
  BY <1>4 DEF EraseClient, NetInv
<1>5. ASSUME NEW c \in Conns, NEW f \in Fds, Accept(c, f)
      PROVE  NetInv'
  BY <1>5 DEF Accept, NetInv
<1>6. CASE ClientOnline
  BY <1>6 DEF ClientOnline, NetInv
<1>7. CASE AddPublicConnection
  BY <1>7 DEF AddPublicConnection, WhereaboutsInv, NetInv, Registered
<1>8. CASE EpollWait
  BY <1>8 DEF EpollWait, NetInv
<1>9. ASSUME NEW f \in Fds, EpollerEvent(f)
      PROVE  NetInv'
  BY <1>9 DEF EpollerEvent, NetInv, NumbersAreTrue
<1>10. CASE NetErase
  BY <1>10 DEF NetErase, EraseConnection, AfterErase, Found, NetInv, NumbersAreTrue
<1>11. CASE NetOffline
  BY <1>11 DEF NetOffline, NetInv
<1>12. CASE NetEraseLater
  BY <1>12 DEF NetEraseLater, NetInv
<1>13. CASE NetClose
  BY <1>13 DEF NetClose, NetInv
<1>14. CASE NetForget
  BY <1>14 DEF NetForget, NetInv
<1>15. CASE TimerExec
  BY <1>15 DEF TimerExec, NetInv
<1>16. CASE ErasePublicConnection
  BY <1>16 DEF ErasePublicConnection, NetInv
<1>17. CASE MainErase
  BY <1>17 DEF MainErase, EraseConnection, NetInv
<1>18. CASE MainOffline
  BY <1>18 DEF MainOffline, NetInv
<1>19. CASE TimerDone
  BY <1>19 DEF TimerDone, NetInv
<1>20. CASE UNCHANGED vars
  BY <1>20 DEF NetInv
<1>21. QED
  BY <1>1, <1>2, <1>3, <1>4, <1>5, <1>6, <1>7, <1>8, <1>9, <1>10, <1>11, <1>12, <1>13,
     <1>14, <1>15, <1>16, <1>17, <1>18, <1>19, <1>20 DEF Next

LEMMA TimerNext ==
  ASSUME TypeOK, WhereaboutsInv, NumbersAreTrue, NetInv, TimerInv, [Next]_vars
  PROVE  TimerInv'
<1> USE DEF vars, sockVars, connVars, clientVars, threadVars, Idle, At
<1> USE ConnsAssumption
<1>1. ASSUME NEW c \in Conns, PeerGoes(c)
      PROVE  TimerInv'
  BY <1>1 DEF PeerGoes, TimerInv
<1>2. ASSUME NEW c \in Conns, Destroy(c)
      PROVE  TimerInv'
  BY <1>2 DEF Destroy, TimerInv
<1>3. ASSUME NEW c \in Conns, KickOutClient(c)
      PROVE  TimerInv'
  BY <1>3 DEF KickOutClient, TimerInv
<1>4. ASSUME NEW c \in Conns, EraseClient(c)
      PROVE  TimerInv'
  BY <1>4 DEF EraseClient, WhereaboutsInv, TimerInv, Registered
<1>5. ASSUME NEW c \in Conns, NEW f \in Fds, Accept(c, f)
      PROVE  TimerInv'
  BY <1>5 DEF Accept, TimerInv
<1>6. CASE ClientOnline
  BY <1>6 DEF ClientOnline, WhereaboutsInv, TimerInv, Registered
<1>7. CASE AddPublicConnection
  BY <1>7 DEF AddPublicConnection, TimerInv
<1>8. CASE EpollWait
  BY <1>8 DEF EpollWait, TimerInv
<1>9. ASSUME NEW f \in Fds, EpollerEvent(f)
      PROVE  TimerInv'
  BY <1>9 DEF EpollerEvent, TimerInv
<1>10. CASE NetErase
  BY <1>10 DEF NetErase, TimerInv
<1>11. CASE NetOffline
  BY <1>11 DEF NetOffline, TimerInv
<1>12. CASE NetEraseLater
  BY <1>12 DEF NetEraseLater, TimerInv
<1>13. CASE NetClose
  BY <1>13 DEF NetClose, TimerInv
<1>14. CASE NetForget
  BY <1>14 DEF NetForget, TimerInv
<1>15. CASE TimerExec
  BY <1>15 DEF TimerExec, TimerInv
<1>16. CASE ErasePublicConnection
  BY <1>16 DEF ErasePublicConnection, TimerInv
<1>17. CASE MainErase
  BY <1>17 DEF MainErase, AfterErase, TimerInv
<1>18. CASE MainOffline
  BY <1>18 DEF MainOffline, TimerInv
<1>19. CASE TimerDone
  BY <1>19 DEF TimerDone, TimerInv
<1>20. CASE UNCHANGED vars
  BY <1>20 DEF TimerInv
<1>21. QED
  BY <1>1, <1>2, <1>3, <1>4, <1>5, <1>6, <1>7, <1>8, <1>9, <1>10, <1>11, <1>12, <1>13,
     <1>14, <1>15, <1>16, <1>17, <1>18, <1>19, <1>20 DEF Next

LEMMA AgreeNext ==
  ASSUME TypeOK, WhereaboutsInv, NumbersAreTrue, NetInv, TimerInv, ManagersAgree, [Next]_vars
  PROVE  ManagersAgree'
<1> USE DEF vars, sockVars, connVars, clientVars, threadVars, Idle, At
<1> USE ConnsAssumption
<1>1. ASSUME NEW c \in Conns, PeerGoes(c)
      PROVE  ManagersAgree'
  BY <1>1 DEF PeerGoes, ManagersAgree, OnItsWay, HangsOn
<1>2. ASSUME NEW c \in Conns, Destroy(c)
      PROVE  ManagersAgree'
  BY <1>2 DEF Destroy, ManagersAgree, OnItsWay, HangsOn
<1>3. ASSUME NEW c \in Conns, KickOutClient(c)
      PROVE  ManagersAgree'
  BY <1>3 DEF KickOutClient, ManagersAgree, OnItsWay, HangsOn
<1>4. ASSUME NEW c \in Conns, EraseClient(c)
      PROVE  ManagersAgree'
  BY <1>4 DEF EraseClient, ManagersAgree, OnItsWay, HangsOn
<1>5. ASSUME NEW c \in Conns, NEW f \in Fds, Accept(c, f)
      PROVE  ManagersAgree'
  BY <1>5 DEF Accept, TypeOK, ManagersAgree, OnItsWay, HangsOn
<1>6. CASE ClientOnline
  BY <1>6 DEF ClientOnline, ManagersAgree, OnItsWay, HangsOn
<1>7. CASE AddPublicConnection
  BY <1>7 DEF AddPublicConnection, TimerInv, ManagersAgree, OnItsWay, HangsOn
<1>8. CASE EpollWait
  BY <1>8 DEF EpollWait, ManagersAgree, OnItsWay, HangsOn
<1>9. ASSUME NEW f \in Fds, EpollerEvent(f)
      PROVE  ManagersAgree'
  BY <1>9 DEF EpollerEvent, ManagersAgree, OnItsWay, HangsOn
<1>10. CASE NetErase
  BY <1>10 DEF NetErase, EraseConnection, AfterErase, TypeOK, ManagersAgree, OnItsWay, HangsOn
<1>11. CASE NetOffline
  BY <1>11 DEF NetOffline, ManagersAgree, OnItsWay, HangsOn
<1>12. CASE NetEraseLater
  BY <1>12 DEF NetEraseLater, ManagersAgree, OnItsWay, HangsOn
<1>13. CASE NetClose
  BY <1>13 DEF NetClose, ManagersAgree, OnItsWay, HangsOn
<1>14. CASE NetForget
  BY <1>14 DEF NetForget, ManagersAgree, OnItsWay, HangsOn
<1>15. CASE TimerExec
  BY <1>15 DEF TimerExec, ManagersAgree, OnItsWay, HangsOn
<1>16. CASE ErasePublicConnection
  BY <1>16 DEF ErasePublicConnection, ManagersAgree, OnItsWay, HangsOn
<1>17. CASE MainErase
  BY <1>17 DEF MainErase, EraseConnection, AfterErase, Found, NumbersAreTrue,
     ManagersAgree, OnItsWay, HangsOn
<1>18. CASE MainOffline
  BY <1>18 DEF MainOffline, ManagersAgree, OnItsWay, HangsOn
<1>19. CASE TimerDone
  BY <1>19 DEF TimerDone, TimerInv, ManagersAgree, OnItsWay, HangsOn
<1>20. CASE UNCHANGED vars
  BY <1>20 DEF ManagersAgree, OnItsWay, HangsOn
<1>21. QED
  BY <1>1, <1>2, <1>3, <1>4, <1>5, <1>6, <1>7, <1>8, <1>9, <1>10, <1>11, <1>12, <1>13,
     <1>14, <1>15, <1>16, <1>17, <1>18, <1>19, <1>20 DEF Next

-----------------------------------------------------------------------------
(*** The theorems ***)

LEMMA ConnsInit == Init => ConnsInv
BY ConnsAssumption DEF Init, ConnsInv, TypeOK, Place, NetPcs, MainPcs, Idle,
   WhereaboutsInv, NumbersAreTrue, NetInv, TimerInv, ManagersAgree, Registered, OnItsWay, HangsOn

LEMMA ConnsNext == ConnsInv /\ [Next]_vars => ConnsInv'
BY TypeNext, WhereaboutsNext, NumbersNext, NetNext, TimerNext, AgreeNext DEF ConnsInv

\* Whatever the three threads do in whatever order, every program counter, index
\* and set stays in its range.
THEOREM TypeCorrect == Spec => []TypeOK
<1>1. ConnsInv => TypeOK
  BY DEF ConnsInv
<1>2. QED
  BY <1>1, ConnsInit, ConnsNext, PTL DEF Spec

\* Whom only one of the two managers knows a thread has in hand, for any number
\* of connections, although two threads erase them and a third one adds them; it
\* may be the main thread that hangs with him (e_afterErasePublicConn,
\* e_afterEraseClient, ManagersAgree).
THEOREM ManagersStayInStep == Spec => []ManagersAgree
<1>1. ConnsInv => ManagersAgree
  BY DEF ConnsInv
<1>2. QED
  BY <1>1, ConnsInit, ConnsNext, PTL DEF Spec

\* The index by socket number names, under each number, the connection that the
\* kernel knows by it, although a number is used again at once
\* (addPublicConnection, eraseConnection, TcpSocket::close).
THEOREM NumbersStayTrue == Spec => []NumbersAreTrue
<1>1. ConnsInv => NumbersAreTrue
  BY DEF ConnsInv
<1>2. QED
  BY <1>1, ConnsInit, ConnsNext, PTL DEF Spec

=============================================================================
