---------------------------- MODULE GatewayConns ----------------------------
(***************************************************************************)
(* The clients of the gateway and their connections: two managers that     *)
(* tell each other of what they erase (Gateway::init), used by three       *)
(* threads.  The thread of the TcpServer accepts, the thread of the        *)
(* TcpConnectionManager sees peers go, the main thread erases clients in   *)
(* its timer.  The unit of interleaving is what a thread does under one    *)
(* lock; the numbers of the sockets are the kernel's, who gives a closed   *)
(* one to the next connection at once.                                     *)
(*                                                                         *)
(* Left out: packets, private connections, and a failing epoll_ctl.        *)
(***************************************************************************)
EXTENDS FiniteSets

CONSTANTS
  Conns,  \* connections; the connection id and the client go by the same name
  Fds,    \* numbers of sockets
  None

ASSUME ConnsAssumption == None \notin Conns \union Fds

VARIABLES
  sock,        \* the TcpSocket of each connection: closing has given the number
  fd,          \* back, and m_fd still says it
  gone,        \* whose peers are gone
  allConns,    \* m_allConns: by number
  publicConns, \* m_publicConns
  clients,     \* ClientManager::m_clients
  dying, dyingLock, \* m_dyingClients, and who holds its lock
  acceptor,    \* where the three threads are, with which connection
  net,
  batch,       \* the events that epoll_wait has returned to the network thread
  main,
  todo         \* the clients that the timer has yet to erase

sockVars    == <<sock, fd, gone>>
connVars    == <<allConns, publicConns>>
clientVars  == <<clients, dying, dyingLock>>
threadVars  == <<acceptor, net, batch, main, todo>>
vars == <<sockVars, connVars, clientVars, threadVars>>

NetPcs  == {"idle", "erase", "offline", "later", "close", "forget"}
MainPcs == {"idle", "next", "lookup", "erase", "offline", "later"}
Place(pcs) == [at : pcs, conn : Conns \union {None}]

TypeOK ==
  /\ sock \in [Conns -> {"unused", "open", "closing", "closed"}]
  /\ fd \in [Conns -> Fds \union {None}]
  /\ gone \subseteq Conns
  /\ allConns \in [Fds -> Conns \union {None}]
  /\ publicConns \subseteq Conns
  /\ clients \subseteq Conns /\ dying \subseteq Conns /\ todo \subseteq Conns
  /\ dyingLock \in {"free", "main"}
  /\ acceptor \in Place({"idle", "online", "add"})
  /\ net \in Place(NetPcs) /\ main \in Place(MainPcs)
  /\ batch \subseteq Fds

Idle     == [at |-> "idle", conn |-> None]
At(p, c) == [at |-> p, conn |-> c]

Init ==
  /\ sock = [c \in Conns |-> "unused"]
  /\ fd = [c \in Conns |-> None]
  /\ gone = {}
  /\ allConns = [f \in Fds |-> None] /\ publicConns = {}
  /\ clients = {} /\ dying = {} /\ dyingLock = "free"
  /\ acceptor = Idle /\ net = Idle /\ batch = {}
  /\ main = Idle /\ todo = {}

-----------------------------------------------------------------------------
(*** Sockets ***)

IsFree(f) == \A c \in Conns : ~(sock[c] = "open" /\ fd[c] = f)

PeerGoes(c) ==
  /\ sock[c] = "open" /\ c \notin gone
  /\ gone' = gone \union {c}
  /\ UNCHANGED <<sock, fd, connVars, clientVars, threadVars>>

\* The last reference to a connection is dropped, and its socket closed.
Destroy(c) ==
  /\ sock[c] = "open"
  /\ \A f \in Fds : allConns[f] # c
  /\ c \notin {acceptor.conn, net.conn, main.conn}
  /\ sock' = [sock EXCEPT ![c] = "closed"]
  /\ fd' = [fd EXCEPT ![c] = None]
  /\ UNCHANGED <<gone, connVars, clientVars, threadVars>>

-----------------------------------------------------------------------------
(*** The thread that accepts: newClientConnection ***)

Accept(c, f) ==
  /\ acceptor = Idle
  /\ sock[c] = "unused" /\ IsFree(f)
  /\ sock' = [sock EXCEPT ![c] = "open"]
  /\ fd' = [fd EXCEPT ![c] = f]
  /\ acceptor' = At("online", c)
  /\ UNCHANGED <<gone, connVars, clientVars, net, batch, main, todo>>

ClientOnline ==
  /\ acceptor.at = "online"
  /\ clients' = clients \union {acceptor.conn}
  /\ acceptor' = At("add", acceptor.conn)
  /\ UNCHANGED <<sockVars, connVars, dying, dyingLock, net, batch, main, todo>>

\* No connection has the number: whoever had it was erased before he was closed.
AddPublicConnection ==
  LET c == acceptor.conn IN
  /\ acceptor.at = "add"
  /\ allConns[fd[c]] = None
  /\ allConns' = [allConns EXCEPT ![fd[c]] = c]
  /\ publicConns' = publicConns \union {c}
  /\ acceptor' = Idle
  /\ UNCHANGED <<sockVars, clientVars, net, batch, main, todo>>

-----------------------------------------------------------------------------
(*** What the network thread and the main thread have in common ***)

\* eraseConnection looks for the number that the socket has now, and erases the
\* connection it finds there.
Found(c) == IF fd[c] \in Fds THEN allConns[fd[c]] ELSE None

EraseConnection_KeepsNumber(c) ==
  /\ publicConns' = publicConns \ {Found(c)}
  /\ UNCHANGED allConns

EraseConnection(c) ==
  /\ allConns' = IF Found(c) = None THEN allConns
                                    ELSE [allConns EXCEPT ![fd[c]] = None]
  /\ publicConns' = publicConns \ {Found(c)}

\* e_afterErasePublicConn calls clientOffline in the thread that has erased.
AfterErase_Silent(c, otherwise) == At(otherwise, c)

AfterErase(c, otherwise) ==
  IF Found(c) = None THEN At(otherwise, c) ELSE At("offline", Found(c))

-----------------------------------------------------------------------------
(*** The network thread ***)

EpollWait ==
  /\ net = Idle /\ batch = {}
  /\ batch' \in SUBSET {f \in Fds : allConns[f] \in gone}
  /\ batch' # {}
  /\ UNCHANGED <<sockVars, connVars, clientVars, acceptor, net, main, todo>>

\* The event was of the connection that had the number when epoll_wait returned.
\* A read finds out whether the peer is gone, an error is believed.
EpollerEvent(f) ==
  /\ net = Idle /\ f \in batch
  /\ batch' = batch \ {f}
  /\ \/ allConns[f] # None /\ net' = At("erase", allConns[f])
     \/ allConns[f] \notin gone /\ UNCHANGED net
  /\ UNCHANGED <<sockVars, connVars, clientVars, acceptor, main, todo>>

NetErase ==
  /\ net.at = "erase"
  /\ EraseConnection(net.conn)
  /\ net' = AfterErase(net.conn, "close")
  /\ UNCHANGED <<sockVars, clientVars, acceptor, batch, main, todo>>

NetOffline ==
  /\ net.at = "offline"
  /\ net' = At(IF net.conn \in clients THEN "later" ELSE "close", net.conn)
  /\ UNCHANGED <<sockVars, connVars, clientVars, acceptor, batch, main, todo>>

NetEraseLater ==
  /\ net.at = "later" /\ dyingLock = "free"
  /\ dying' = dying \union {net.conn}
  /\ net' = At("close", net.conn)
  /\ UNCHANGED <<sockVars, connVars, clients, dyingLock, acceptor, batch, main, todo>>

\* TcpSocket::close gives the number back first, and forgets it at the end.
NetClose ==
  /\ net.at = "close"
  /\ sock' = [sock EXCEPT ![net.conn] = "closing"]
  /\ net' = At("forget", net.conn)
  /\ UNCHANGED <<fd, gone, connVars, clientVars, acceptor, batch, main, todo>>

NetForget ==
  /\ net.at = "forget"
  /\ sock' = [sock EXCEPT ![net.conn] = "closed"]
  /\ fd' = [fd EXCEPT ![net.conn] = None]
  /\ net' = Idle
  /\ UNCHANGED <<gone, connVars, clientVars, acceptor, batch, main, todo>>

-----------------------------------------------------------------------------
(*** The main thread ***)

\* A client who logs out, is replaced, or cannot log in, by a message of his,
\* which takes a connection
KickOutClient(c) ==
  /\ main = Idle
  /\ c \in clients /\ c # acceptor.conn
  /\ dyingLock = "free"
  /\ dying' = dying \union {c}
  /\ UNCHANGED <<sockVars, connVars, clients, dyingLock, threadVars>>

\* timerExec keeps the lock until all are erased.
TimerExec ==
  /\ main = Idle
  /\ dying # {} /\ dyingLock = "free"
  /\ dyingLock' = "main"
  /\ todo' = dying
  /\ main' = At("next", None)
  /\ UNCHANGED <<sockVars, connVars, clients, dying, acceptor, net, batch>>

EraseClient(c) ==
  /\ main.at = "next" /\ c \in todo
  /\ todo' = todo \ {c}
  /\ clients' = clients \ {c}
  /\ main' = IF c \in clients THEN At("lookup", c) ELSE main
  /\ UNCHANGED <<sockVars, connVars, dying, dyingLock, acceptor, net, batch>>

\* The lock of the connections is free between the two halves of
\* erasePublicConnection.
ErasePublicConnection ==
  /\ main.at = "lookup"
  /\ main' = IF main.conn \in publicConns THEN At("erase", main.conn) ELSE At("next", None)
  /\ UNCHANGED <<sockVars, connVars, clientVars, acceptor, net, batch, todo>>

MainErase ==
  /\ main.at = "erase"
  /\ EraseConnection(main.conn)
  /\ main' = AfterErase(main.conn, "next")
  /\ UNCHANGED <<sockVars, clientVars, acceptor, net, batch, todo>>

\* clientOffline finds no client, and so does not ask for the lock that this
\* thread holds.  If it does find one it waits for itself.
MainOffline ==
  /\ main.at = "offline"
  /\ main' = IF main.conn \in clients THEN At("later", main.conn) ELSE At("next", None)
  /\ UNCHANGED <<sockVars, connVars, clientVars, acceptor, net, batch, todo>>

TimerDone ==
  /\ main.at = "next" /\ todo = {}
  /\ dying' = {} /\ dyingLock' = "free"
  /\ main' = Idle
  /\ UNCHANGED <<sockVars, connVars, clients, acceptor, net, batch, todo>>

Next ==
  \/ \E c \in Conns : PeerGoes(c) \/ Destroy(c) \/ KickOutClient(c) \/ EraseClient(c)
  \/ \E c \in Conns, f \in Fds : Accept(c, f)
  \/ ClientOnline \/ AddPublicConnection
  \/ EpollWait \/ \E f \in Fds : EpollerEvent(f)
  \/ NetErase \/ NetOffline \/ NetEraseLater \/ NetClose \/ NetForget
  \/ TimerExec \/ ErasePublicConnection \/ MainErase \/ MainOffline \/ TimerDone

Spec == Init /\ [][Next]_vars

-----------------------------------------------------------------------------
(*** Safety ***)

OnItsWay(c) ==
  \/ c \in dying
  \/ acceptor.conn = c
  \/ net.conn = c /\ net.at \in {"offline", "later"}
  \/ main.conn = c /\ main.at = "offline"

\* The main thread waits for the lock that it holds, and will for ever.
HangsOn(c) == main.conn = c /\ main.at = "later"

\* Whom only one of the two managers knows a thread has in hand: it is between
\* the two halves of his entry or his erasure, or the next round of the timer
\* takes him up, or it hangs there (e_afterErasePublicConn, e_afterEraseClient).
\* Nobody is half erased and forgotten; nothing is said of when the other half
\* follows, which is never where the main thread hangs.
ManagersAgree ==
  /\ \A c \in clients : c \in publicConns \/ OnItsWay(c) \/ HangsOn(c)
  /\ \A c \in publicConns : c \in clients \/ (main.conn = c /\ main.at \in {"lookup", "erase"})

\* Both indexes of the connections hold the same ones, under the numbers that
\* the kernel knows them by; a number that is given back has left the index, or
\* the next connection could not be added (eraseConnection before close).
NumbersAreTrue ==
  /\ publicConns = {allConns[f] : f \in Fds} \ {None}
  /\ \A f \in Fds : allConns[f] # None => sock[allConns[f]] = "open" /\ fd[allConns[f]] = f

=============================================================================
