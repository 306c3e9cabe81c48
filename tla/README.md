# Verification of the water13 card-game server

TLA+ models, TLC runs and TLAPS proofs for the game server under `src/server`:
a set of C++ processes (router, gateway, lobby, hall, http) that let players create
rooms, sit down, play a number of rounds of "thirteen water" (十三水) and settle, with
the players' money and the rooms kept in Redis.

## 1. The system

| part | state it keeps | operations | how it interacts |
|---|---|---|---|
| room card game (`lobby/water13.cpp`, `water13_card.cpp`) | phase, rounds, seats with status and vote, stakes, multiples, banker, settled rounds | create, join, give up, ready, bring out, vote, quick start, half enter, stakes and multiples, renew; one timer handler per phase | called by the lobby's message dispatch and timer; calls clients (money, room number, messages), saves itself in Redis |
| cards (`deck.cpp`, `calcRound`) | the hands, the cards kept for a second deal, the prizes | deal, rank three duns of a hand, score a round | called by a room when a round starts and ends |
| gold places (`water13_gold.cpp`) | rooms by kind of place | enter, change, quick start, ready, bring out, give up | like a card room, paid with gold |
| rooms (`room.cpp`) | the rooms by number, numbers to recycle | add, get, timerExecAll, destroyLater, recovery | the timer walks the rooms; a login asks for the room of the client |
| clients of the lobby (`client.cpp`, `client_manager.cpp`) | three indexes of clients; per client money, room number, offline time | login, disconnect, evict, exchange, chat, history | messages of the gateway, Redis |
| commands of the platform (`platform_handler.cpp`) | none | recharge, dismiss a room, reload | pops lists in Redis in a timer |
| gateway (`gateway/client_manager.cpp`, `anysdk_login_manager.cpp`) | client sessions by connection id, those to be erased, pending logins | login in two steps, log out, kick, replace, relay | TCP to the clients, packets to the lobby, HTTP to a login service by coroutines |
| router (`router.cpp`) | none | relay | what it cannot deliver it drops |
| process base (`base/`) | connections by descriptor and by id, two queues between the network thread and the main thread, timers | accept, receive, send, erase, reconnect | every process is one main thread, one network thread and one that accepts |
| containers, net, coroutine, Redis (`water/`) | rings, maps, buffers | | used by all |

The lobby runs each message handler and each timer handler to its end, so inside it the
unit of interleaving is a handler.  Hard are therefore not data races but long sequences:
messages of several players, phases that end by a deadline, disconnections, evictions and
logins in between, a settlement that charges one player after the other, and a restart
that finds what the last save left.  The data races are in `base/` and `water/`, between
the threads of a process; and between gateway and lobby everything one knows of the other
is in messages that cross.

What makes the parts correct:

* a card game: rounds are dealt and settled in turn; the price is taken once, from
  those who owe it; seats are frozen while rounds are played; a ballot ends a game
  only when all agree; every phase with a deadline ends;
* the cards: hands are ordered as the rules say, and the prizes are those of the rules;
* rooms and clients: seat and room number index each other; whoever is in a room
  is in memory; whoever is let go can enter another room;
* restart: what is recovered is a state the room was in, and no start of the lobby makes
  anybody pay twice or play for nothing;
* gateway and lobby: one session per account, the newest login wins; the indexes agree;
* connections: what one manager erases, the other erases too, in whichever thread;
* queues: nothing lost, duplicated or reordered.

`PROJECT.json` lists the components with what is modelled of each, and the hazards
at their lines with the properties that are about them.

## 2. What is modelled

| module | what it is |
|---|---|
| `Water13Card` | one card room with the clients that use it: an action per message handler and per phase of the timer, and the platform's commands |
| `GameSeries` | the abstract promise of a room: people enter while it waits, rounds are dealt and settled in turn, the end frees all |
| `Water13CardDb` | `Water13Card` with its entry in Redis: which handler saves what when, crashes between and inside handlers, the recovery |
| `Deck` | what a few cards are worth: brands with and without ghosts, the number that orders duns of a brand, the special brands of a hand |
| `Water13Round` | the cards of a room: the deal, the banker's second deal, the bringing out, `calcRound`; extends `Deck` |
| `GoldRooms` | the rooms of the gold places: matching, joining, leaving, one round after the other |
| `LobbyLogin` | the sessions of the gateway and the clients of the lobby, with the messages between them, Redis, and the deaths of both |
| `GatewayConns` | the gateway's clients and connections: two managers, three threads, the kernel's descriptor numbers |
| `SpscRing` | the lock-free ring between one producer and one consumer, a step per access to a cell's status |
| `BoundedFifo` | what such a queue promises: in order, each item once, never more than `Size` |
| `TcpRecv` | the way of a packet from a socket to the main thread; extends `SpscRing`, whose steps are steps of its two threads |
| `TcpSend` | the way of a packet from the main thread to a socket: the send buffer, the queue of a slow connection, the broadcast |
| `MC...` | what TLC needs of an instance: symmetry, lengths of packets, decks; `MCWater13Round` also draws duns and compares them with the rules (`RankedByTheRules`) |

The proofs are in modules of their own:

| module | about |
|---|---|
| `Lemmas` | data: induction over numbers and finite sets, sums over finite sets, the concatenation of sequences, cutting a sequence |
| `Water13CardProofs` | one card room: types, the order of the rounds, the two indexes of a seat; payment, ballots, frozen seats, the reserve of cards, what a phase waits for, when the process cannot die; `Water13Card` implements `GameSeries`; and with its entry in Redis, what holds across crashes and restarts |
| `Water13RoundProofs` | the cards of a room: every readable dun has a brand and a point, the prizes are those of the rules and add up to nothing, no card is lost, hands are in order, and duns beat each other as the rules say |
| `GoldRoomsProofs` | the rooms of the gold places: seats and numbers, what a room waits for, how many rooms there are |
| `LobbyLoginProofs` | the indexes, the cuids, and who is online or plays |
| `GatewayConnsProofs` | the two managers and the descriptor numbers |
| `TcpRecvProofs` | the ring implements `BoundedFifo`, without a data race; the receive queue behaves as `SpscRing` alone does; heads, streams and packets stay whole and in turn |
| `TcpSendProofs` | the bytes sent are those accepted, in order; what waits is watched |

### Water13Card and the code

* Phases: `status` is `m_status`, with `"none"` for a number under which no room
  is registered.  `rounds`, `owner`, `seat`, `st`, `vote`, `chipIn`, `multiple`,
  `banker`, `settled` are the members of the object; `result` keeps the cuids of
  the last settled round, which `settleAll` charges; `reserved` counts
  `remainBrands` in hands of five.
* Clients: `conn` is `"online"`, `"offline"` (the offline time is set) or
  `"absent"` (not in the manager's maps, so `getByCuid` finds nothing);
  `roomid` is this room's number, another one's, or none; `money` is the diamonds.
* `up` becomes FALSE where the code dereferences a null pointer; nothing happens
  afterwards.  A read past the end of `remainBrands` may go on or kill the process.
* `charged` is a history variable: what this game has taken from each client.
* Each message handler is one action with its guards, and includes every call that
  changes state: `ReadyFlag` includes `tryStartRound`, `BringOut` includes
  `trySettleGame`, `trySettleAll` and `settleAll`, the votes include
  `checkAllVotes` and the settlement.
* The timer: one action per phase of `timerExec`.  A deadline may have passed at any
  moment of its phase.  `EraseClosed` is the tick that finds the phase closed
  together with the loop of `Room::timerExecAll` that then drops the room.
* The platform: `DismissRoom` is `gmcmdHandler`, which aborts the room in whatever phase
  it is; `Recharge` is `rechargeHandler`, which pays a client who is in memory.
* Stakes and multiples are integers, of which `Points` are those that clients send: the
  handlers refuse what is above the limit, and nothing below it.
* Cards: which seats are the big winners is a choice of any non-empty set, the empty
  seats included, because `calcRound` scores them and they can win.  When no round
  has been settled all tie.
* `Elsewhere`: logins, disconnections, evictions, recharges, and other rooms.

Abstracted or left out of it: the cards and the scores (`Water13Round`); every message to a
client; names, pictures, chat; the saved copy and the restart (`Water13CardDb`); renewal; the
fixed decks of the test configuration; the effect of another room's abort on a client who
left a seat behind there (it may reset the room number of a client who is here by now).

### Water13CardDb and the code

A client is written to Redis by every change of his money or of his room number, so his copy
is the client himself.  The room is written by some message handlers as their last step, and
by the timer never.

* `saved` is the entry in `tb_room` (`NoCopy` without one); `junk` says that there is an
  entry under the number 0, which is what `giveUp` saves of a room that its owner has
  just dissolved.  `recoveryFromDB` stops at it, so that a room that comes after it in the
  traversal may not be found: `lost`.  A later start may find it all the same.
* `SavedMessage` and `UnsavedMessage` sort the handlers by what they write: `SaveAtEnd`,
  `BeforeSettling` (`bringOut` saves the cards and then settles), `Erase`.  `SaveAsItIs`
  is a handler that is ignored and saves the room all the same.
* `Crash` is between two handlers; `TornEnter`, `TornLeave`, `TornAbort`, `TornDeal` are
  inside one, after it has written some of the clients and before it writes the room.
* `Restart` starts the lobby with nobody in memory and either what `deserialize` reads or
  no room.  `StrayMessage` is the next message of a client whose room does not know him.
* The bill of a game (`charged`) is history and not in the object; it goes with a game that
  is lost and comes back with it.

Left out: a crash inside the settlement of a game that the winners pay.  A recharge that is
popped from its list and not yet applied is lost when the lobby dies; the list is not in
the model.

### Deck, Water13Round and the code

A card is its number in the protocol; more than 52 is a ghost, for any card.  `BrandInfo3`,
`BrandInfo5`, `GhostInfo3`, `GhostInfo5` and `G13SpecialBrand` are the functions of those
names, `Beats` is `cmpBrandInfo`.  The source tests for the brands from the best to the
worst and returns at the first, so a brand is the greatest that fits, and the points are
the same number in
base 14.  In `Water13Round` hands keep the code's indexes plus one; `Deal` is the part of
`tryStartRound` that deals, `DealTheRest` that of `checkAllSelectMultiple`, `BringOut` is
`bringOut` with the foul test and `trySettleGame`.  Prices pass through an unsigned word as
in the code, of 16 bits, more than any price needs.  A hand that nobody has written is any
of `Memory`; card 0 kills the process in `rank`, and a dun of five ghosts in `ghostInfo5`, which
then looks before the first of no cards (`Readable`).  `Sorted` is `std::sort`, by insertion:
what it returns does not depend on how it sorts, and this way it can be reasoned about.
`Balance` is the score by the ten rules in the comments of `calcRound` and in the protocol, and
takes nothing from its code; in particular a shot doubles by default (`ShotGain`), which
`calcRound` leaves out.

### GoldRooms and the code

`rooms` is `roomsArr` and the rooms in it, `roomid` the clients' numbers.  `MatchRoom` is
`matchRoom` with `createGame`; joining by number, quick start and its votes come from
`Water13_Card`, whose handlers take any room for theirs.  After a round the room is new
again, and players come and go.  `ChangeRoom` and the retry of the timer in `prepare` change
nothing, and have no action; the module's header says why.

### LobbyLogin and the code

* An account is an openid.  `session` is the state of a connection in the gateway's
  `m_clients`; `dying` its `m_dyingClients`, which `TimerExec` erases, telling the lobby.
* `ProtoLogin` is `proto_C_Login` up to the message to the lobby; the answer of the login
  service is a choice.  `ProtoLoginQuest` is the lobby's half: from memory
  (`LoginReplaces`), from Redis or as a new account (`LoginFromRedis`).
  `ProtoRetLoginQuest` and `ProtoClientBeReplaced` are what the gateway does with the
  answers.
* `byOpenid`, `byCuid`, `byCcid` are the three maps; `insert` takes a client into all or
  none, and `erase` looks for the keys that he has now.
* `toLobby` and `toGateway` are the connections over the router.  When a process dies, some
  of what is under way arrives and some does not; `orphans` and `forgotten` remember
  which sessions that concerns.  The connection to Redis, once lost, is not renewed.

### GatewayConns and the code

The accepting thread, the network thread and the main thread each have a place in their code
(`acceptor`, `net`, `main`); what is done under one lock is one step.  `EraseConnection` looks
up the number the socket has *now*, as `eraseConnection` does; `NetClose` and `NetForget` are
the two halves of `TcpSocket::close`, between which the kernel may give the number to a new
connection (`Accept`).  `EpollWait` returns a batch of numbers, which may mean other
connections when their turn comes.  `ManagersAgree` says of a client whose connection is gone,
and the other way round, that a thread has it in hand (`OnItsWay`) or that the main thread hangs
with it on its own lock (`HangsOn`), which the code can come to.

### SpscRing, TcpRecv, TcpSend and the code

* `SpscRing`: `full` and `cell` are the status and the item of each cell, `mBegin`
  and `mEnd` the two indexes.  A call of `push` or `pop` is a call step, up to two or
  three looks, and a mark; between its look and its mark a thread moves its index
  and the item, which nobody else can see but through the status (acquire and
  release).  The words that count are numbers, which is the same because `Size`
  is a power of two.
* `TcpRecv`: `netPc` is where the network thread is in
  `TcpConnectionManager::epollerEventHandler`.  `ReadEvent` is the event and the one
  test of `full()`, `TryRecv` is `BufferedConnection::tryRecv` with
  `ConnectionBuffer::writeable`, `Parse` is `TcpPacket::parse` with `commitRead`,
  `Pushing` the steps of the ring, `AfterPush` the new packet.  `GetPacket` is the loop
  of `dealTcpPackets`.  Sizes are added as the code adds them: without a limit in `complete`
  (`Wanted`), in 32 bits in `parse` (`CompleteSize`, `Deficiency`; `Wrap` is 2^32), so
  that a length just below 2^32 makes `ParseSize` take a part of a head, or nothing.  A byte carries the number of its packet and its place
  there, so that a lost, doubled or moved byte shows.
* `TcpSend`: the cases of `sendPacket` are actions: queued, refused, sent at once, sent
  in part, no room.  `SendSlowly` is the case in which the code commits the packet to
  the buffer a second time; the bytes that nobody has written are `Junk`.  `sendLock`
  is the first guard of `SendPacket`.  `content` is the `Packet` object, which a
  broadcast shares, so that `Packet::pop` shortens it for everybody.
* `got`, `dropped`, `owed`, `garbled` and `mishap` are history variables.

Left out: what the erasure of a connection does to a send, socket errors of a send, the race
on the bytes of a shared packet, http.

### Bounds

The number of clients, seats and rounds, the stakes, the purse and the price are constants of
each run.  Of the code itself little else is unbounded; what is, is capped by a named
constant: `MaxStarts`, `MaxLogins`, `MaxCrashes`, `MaxRooms`, `MaxPackets`, `MaxRounds`.  `Sendable` is a
bound too: nobody sends all 2^32 bytes of one packet.

* Card rooms: two rounds are the least number that has a "between two rounds"; three seats
  with two clients give quick starts with an empty seat, and with three full rooms as well.  A room
  can be erased and created again, with any owner.  The purse of `card_winner` is the price of all seats
  and one diamond more, of which an `Exchange` takes all but one, and so may spend what an entry has
  counted on.  Stakes and multiples
  (`MCPoints`) are -1, 0, the limit and one more.
* `room_db`: two players, two rounds and three starts of the lobby, so that a room can be
  lost behind an entry 0 at one start and found again at the next.
* `login`: two accounts and three connections, three logins and one death of a process: a
  login that replaces one that has replaced another, and each of them crossed by a
  disconnection.
* `conns`: four connections over two descriptor numbers, so that each number is given
  out twice.
* `gold`: four players for rooms of three seats, so that a room is full while another
  one is begun; three rooms, one of them dismissed.
* `cards`: every dun of five from twenty cards, two suits of ten ranks, is compared with a
  set of 25 duns at the borders between brands; a round has three seats, one of them empty,
  and decks and arrangements that are multiples of a number, which spreads the ranks and
  suits without being all of 54!.
* `tcp_recv`: two connections send three packets and one, in pieces of any size, through a buffer
  of three bytes and a ring of two cells.  Heads are two bytes and sizes count modulo four (for
  2^32); bodies are of no byte and of one, and the third packet tells a length that wraps its size
  to one byte, less than a head.  So heads and bodies are cut everywhere, the buffer fills up
  and is compacted, the ring is full, packets are refused, and a part of a head is read.
* `tcp_send`: three packets of two, five and one bytes meet a buffer of four bytes and a
  queue of one (for 512): a packet longer than the buffer, one that may be committed twice, a
  refusal, and a broadcast that finds one connection slow.

### Runs

| run | instance | shows |
|---|---|---|
| `card_banker` | 2 clients, 3 seats, 2 rounds, banker's game, owner pays, fairness of the timer | the price is taken once; the reserve of cards; no step is missed; every phase with a working deadline ends, everyone is freed |
| `card_winner` | 3 clients, 3 seats, 2 rounds, winners pay | order, indexes, ballots and phases; unanimity; frozen seats; the process cannot die while the room is full and its owner seated; a finished game costs its price at most once |
| `card_half` | 3 clients, 3 seats, 1 round, late players | `Water13Card` implements `GameSeries` |
| `room_db` | 2 clients, 2 seats, 2 rounds, 3 starts | order; nobody plays for nothing; one price per start; seats are in the entry |
| `login` | 2 accounts, 3 connections, 3 logins, 1 death | the three indexes; whoever is online is connected; the newest login wins |
| `conns` | 4 connections, 2 numbers, 3 threads | the managers agree; numbers lead to the connection that has them |
| `gold` | 4 clients, up to 3 rooms of 3 seats | seats and numbers agree; nothing is stuck; rooms are used again |
| `cards` | 20 cards; a table of 3 seats | duns are ordered as the rules order them, ghosts stand for the best; the prizes are those of the rules, but for shots under the default rule |
| `tcp_recv` | 2 connections, 4 packets, one with a size that wraps, fairness of both threads | between socket and ring the stream stays whole; packets come out in turn, and missing ones were refused; the ring is a FIFO; what has arrived is handled or refused |
| `tcp_send` | 2 connections, 3 packets, sent or broadcast | the socket takes the accepted bytes in order, but for the two mishaps; what waits is watched and is sent |
| `say_second_deal` | as `cards` | violated: the second deal of the banker's game overwrites cards of the first |
| `say_default_shot` | as `cards` | violated: under the default rule a shot does not double |

The largest are `room_db` with two million states and `card_winner` with 1.4 million; the longest,
`tcp_recv`, takes three and a half minutes, the others from a few seconds to two.

`CHECK_DEADLOCK FALSE` is in the runs whose system may really stop: the process may die for good
(`card_winner`, `room_db` after its last start, `cards`), and the inputs may be used up, with
nothing left to do (`tcp_recv`, `tcp_send`, `login`, `conns`, `cards`).  In `gold` the last
room may be dismissed when no more can be made.

### What the code does not keep

`say_second_deal` is a finding of a run: `checkAllSelectMultiple` puts the last five cards into
the places 8 to 12 of a hand that it sorts after each card, so that cards that were dealt are
overwritten and old ones stay (water13.cpp:2062).

`say_default_shot` is the other: the rule of shots `DQ_NORMAL` is 0, which doubles by water13.h:51,
client.proto:136 and the rule at water13.cpp:1714, and `calcRound` tests `daQiang &&`, so that with
the default no shot counts (water13.cpp:1717).  `ScoredButForShots` says that the score is right
otherwise.

More such disagreements are in the models, as in the code; each can be seen by checking the
statement as an invariant, and the properties of the runs are worded so that they hold
beside them:

* A ballot that is refused between two rounds puts the room back into play, with nobody left
  to play (water13_card.cpp:646; the comment at 634 takes a round for granted).  It stays so until
  somebody asks for another ballot or the platform dismisses it.  `NoMissedStep` excepts it.
* When the winners pay, a game that is voted to an end is charged twice
  (water13_card.cpp:662; the protocol, client.proto:138, names one price).  `WinnersPay`
  therefore speaks of games that are played to their end.
* An empty seat is dealt to and scored, and may be the big winner; charging it
  dereferences a null pointer (water13_card.cpp:592, "impossible" in the comment at 591).
  `FullRoomIsSafe` says when this cannot happen.
* The timeout of the multiples fills in one choice too many, and the phase never ends
  (water13.cpp:2051, against the log at 1382).  `PhasesEnd` leaves this phase out.  The multiples
  are not reset between rounds either, so that a later round enters the phase with the choices
  of the one before; `NoMissedStep` speaks of the first.
* A negative stake is accepted (water13.cpp:1866).  It is no stake to `checkAllChipInPoint`, and the
  timeout, which looks for 0, does not replace it (1369), so that the phase waits until its player
  sends another.  `PhasesEnd` excepts the room that holds one.
* A refused witness keeps his seat, and an approved one is dealt cards from beyond the
  reserve; this is why many theorems assume `HalfEnter = FALSE`.
* Nothing is taken in advance ("进房间要预扣款"): a purse may be spent between the entry and
  the deal and become negative.  A room whose creator cannot pay stays registered
  ("需要回退").
* The foul test compares the points of a dun of three with those of a dun of five, in
  different bases, so that a pair in front never fouls against a pair in the middle.
  `GhostInfo5` has its own defects: neighbouring ranks may break a straight, and two
  ghosts with {2, 4, 9} are one pair, against the comment at deck.cpp:520.  `cards` checks the
  ghosts of a dun of three only.
* A room that is dissolved by its owner is saved under the number 0, and hides rooms from
  the recovery (water13_card.cpp:39).
* A failed read of Redis looks like a new account (lobby `client_manager.cpp:219`); a refused login makes a session "playing" with the cuid of
  nobody; a death of the gateway leaves clients online (`orphans`), one of the lobby
  leaves sessions that it does not know (`forgotten`).
* `TcpSocket::close` gives a number back before it forgets it (socket.cpp:69).  Between the two
  halves of `erasePublicConnection` the main thread may therefore erase a new client's
  connection, and then wait for `m_dyingClientsLock`, which it holds itself.  In
  `GatewayConns` this is the state `main.at = "later"`, which has no way out.
* A length just below 2^32 wraps the size of its packet in `TcpPacket::parse` (tcp_packet.cpp:66): a
  part of the head is taken, and the case at line 73 ("应该不可能", this should be impossible) is
  reached.  The bytes stay in order even so.  When the size wraps to nothing, nothing is
  taken, and the connection makes no further progress; the runs do not cover this length.
* Packets that are read while the ring fills up are thrown away
  (tcp_connection_manager.cpp:238, against the comment at 227), and a packet that the socket
  takes in part is followed by bytes nobody sent (460, against the header at 49).

### Fairness

`card_banker` assumes only `WF_vars(Timer)`: the lobby registers `Room::timerExecAll`
with a period of one second (`register_timer_handler.cpp`), and each tick visits
every room, so a phase whose deadline has passed is served as long as the process
runs.  No fairness is assumed of any player: he may never answer.

`tcp_recv` assumes weak fairness of the network thread, which loops on `epoll_wait`, and
of the main thread, whose timer calls `dealTcpPackets` every three milliseconds;
nothing of the peers.  `tcp_send` assumes strong fairness of each connection's write
event, because `epoll_wait` reports every watched socket that can be written (and
the peers read), and weak fairness of the rest of the handler.

The other runs state safety only.

## 3. What is proved

For all constants that satisfy the named assumptions of the modules: any number of clients
(a finite one in `Water13Card` and `GoldRooms`, where payments and rooms are counted), seats (at
least two; in `Water13Round` one), of which any may be empty, any rules, shuffles, arrangements and
left-over contents of hands, rounds (at least one), connections, accounts, packets (each of at least one byte) and
sizes, any amounts, any integers for stakes and multiples, and for the bounds `MaxStarts`, `MaxLogins`, `MaxCrashes`, `MaxRooms` any number.

| theorem | states |
|---|---|
| `Water13CardProofs!TypeCorrect` | `Spec => []TypeOK` |
| `RoundsInOrder` | `Spec => []RoundOrder` |
| `HereIsSeated` | `Spec => []HereMeansSeated` |
| `SeatIndex` | without late players, `Spec => []SeatedMeansHere` |
| `Implements` | `Spec => Series`: the room implements `GameSeries` |
| `SeatsStayFrozen` | without late players, `Spec => SeatsFrozen` |
| `PaysOnce` | without late players, unless the winners pay, `Spec => []PaidOnce` |
| `TheWinnersPay` | `Spec => []WinnersPay` |
| `EndsAreUnanimous` | `Spec => UnanimousEnd` |
| `NoVoteIsLeft` | without late players, `Spec => []BallotsStartClean` |
| `ReserveSuffices` | without late players, `Spec => []EnoughReserved` |
| `FullRoomsLive` | without late players, `Spec => []FullRoomIsSafe` |
| `NothingWaitsInVain` | without late players, `Spec => []NoMissedStep` |
| `DbTypeCorrect` | `DbSpec => []DbTypeOK`: what a restart reads is a room |
| `SeatsStaySaved` | `DbSpec => []SeatsAreSaved` |
| `OrderSurvives` | `DbSpec => []OrderInv` |
| `DealsArePaid` | without late players, unless the winners pay, `DbSpec => []DealtIsPaid` |
| `OnePricePerStart` | unless the winners pay, `DbSpec => []ChargedOncePerStart` |
| `Water13RoundProofs!InvHolds`, `TypeCorrect` | `Spec => []IInv`, the inductive invariant, and `Spec => []TypeOK` |
| `CalcRoundCounts` | `calcRound` gives each seat the balance of the rules with the shots that the code counts (`CountedBalance`), for any cards that have a worth |
| `CalcRoundByTheRules` | where no shot is fired under the default rule, this is the balance of the rules |
| `ScoredAsRuled` | `Spec => []ScoredButForShots` |
| `ZeroSum` | `Spec => []PrizesAddUp`: the prizes of a settled round add up to nothing |
| `NormalHands` | `Spec => [](rules.playType # "banker" => HandsAreDealt)` |
| `NoCardLost` | `Spec => []CardsKept`: in the normal game each hand is a rearrangement of what was dealt |
| `HandsInOrder` | `Spec => []InOrderToArrange`: a hand still to be arranged is in order, as `bringOut` takes for granted |
| `MiddleAndBackByTheRules` | of any two duns of five without ghosts one beats the other (`Beats`) exactly when what decides by the rules is greater (`Decides5`) |
| `FrontByTheRules` | the same for duns of three (`Decides3`) |
| `GhostsInFrontAreTheBest` | what `ghostInfo3` gives a dun of three with ghosts is what some ranks in their place would be worth, and no ranks would be worth more |
| `GoldRoomsProofs!RoomsAreGood` | `Spec => []RoomsInv`, the inductive invariant |
| `SeatsCorrect`, `NothingEverSticks`, `RoomsReused` | `SeatsAgree`, `NothingIsStuck`, `RoomsAreReused` |
| `LobbyLoginProofs!LoginIsSound` | `Spec => []LoginInv`, the inductive invariant |
| `IndexesStayInStep`, `CuidsStayUnique`, `OnlineStaysConnected`, `NewestLoginWins` | `IndexesAgree`, `CuidsAreUnique`, `OnlineIsConnected`, `PlayingIsKnown` |
| `GatewayConnsProofs!TypeCorrect` | `Spec => []TypeOK` |
| `ManagersStayInStep`, `NumbersStayTrue` | `ManagersAgree`, `NumbersAreTrue` |
| `TcpRecvProofs!RingIsSound` | `Ring => [](RingTypeOK /\ RingInv)`, the inductive invariant |
| `RingImplementsFifo`, `NoDataRace` | `Ring => RingIsFifo`, `Ring => []NoRace` |
| `TypeCorrect` | `Spec => []TypeOK`: among the rest, no index leaves its buffer |
| `HeadsAreWhole` | `Spec => []HeadIsWhole` |
| `UsesTheRing` | `Spec => Ring`: what the two threads do with `m_recvQueue` is what `SpscRing` allows |
| `PacketsThroughFifo`, `NoRaceOnPackets` | `Spec => RingIsFifo` and `Spec => []NoRace`, from the theorems on the ring |
| `StreamsIntact` | `Spec => []StreamIntact` |
| `PacketsInTurn` | `Spec => DeliveredInTurn` |
| `TcpSendProofs!SendInvariant` | `Spec => []SendInv`, the inductive invariant |
| `SentAsAccepted`, `WaitingWatched` | `InOrder`, `WaitingIsWatched` |

The arguments:

* `TypeOK` of the card room is inductive by itself.  One lemma per operator that several
  handlers share says which types it leaves; the bills are the interesting part, because
  `charged \in Nat` says that nobody is ever charged a negative amount.
* `RoundOrder` is not inductive: a room may be in play, or in a ballot, after its
  round has been settled (that is what a refused ballot between two rounds leaves).
  `RoundInv` adds in which phases the round is still open, and that in this odd
  state no seat has cards to bring out (`Resting`), so it can never be settled again.
* `HereMeansSeated` is inductive together with `TypeOK`: most steps move nobody
  (`GameMovesNobody`); the others are the entries, the exits and the evictions.
* `SeatedMeansHere` needs `HereMeansSeated`, and that nobody watches (`NoWitness`); together
  they are `IndexInv`, which the theorems on a room without late players rest on.
  `BallotInv` adds that an empty seat has no vote, so that whoever takes it has none;
  `ResultInv` that whoever was in the last settled round is still in his seat; and
  `WaitInv` that a started room has players, that no stake outlives its phase and no multiple is
  chosen before the first banker is found, and that a ballot found one who has not
  brought out his cards.
* `TheWinnersPay`: until the last settlement nobody has a bill (`PurseInv`), since deals and
  ballots charge nobody when the winners pay.  `OrderInv` says that the last settlement comes
  once.  What it collects is a sum over the clients of what each owes for the seats he won,
  and must be turned into a sum over the seats (`SharesAddUp`): by induction over the set of
  winning seats, of which each adds a share to one client's bill.  `SharesFit` is about the
  division.  The purse needs the process to live, because the winner of an empty seat ends it.
* `Implements`: each step of the room maps to a step of `GameSeries` or a stutter.  The
  steps of the game are of five kinds (nothing visible, a deal, a settled round, the
  end, the death of the process), the others enter, leave or destroy.  What the map needs
  besides `TypeOK` and `OrderInv` is `EmptyInv`: a number without a room has no seats.
* The saved copy: each invariant is stated twice, of the room in memory while the process
  lives and of the entry in Redis (`CopyInv`, `CopyInOrder`, `CopyNoWitness`, `CopyPaid`, `CopyOwed`).
  Every step of the system is of a kind: it leaves the entry, writes it, erases it, brings
  back the room from it, or kills the process; so that the second half is
  proved once for each kind, and the lemmas on the handlers of `Water13Card` give the first.
  `OwedInv` counts: whoever never had two seats has paid at most a price for each start, and
  one price less as long as the first deal is still to come.
* `CalcRoundCounts`: `calcRound` compares each pair of seats once, makes entries in unsigned
  words and counts them to find who shot everybody; the rules look from each seat at each other.
  A dun's price is at most twenty and a pair's at most sixty, so that the way through 16 bits
  loses nothing (`SignedAgain`); between two seats at most one entry is made, whose sign is the
  winner's (`Fits`); a seat has shot all others when it has as many entries as there are others
  (`QuanLeiDa`).  Then a sum over entries is regrouped into a sum over pairs.  All this needs
  numbers to compare, which is the longest part: that each dun of a readable hand, with
  any ghosts, has one of the ten brands and an integer point (`BrandInfoType`).
* `IInv` of a round: the prizes of a settled round are those of the hands it was settled with, which
  are kept until the next deal (`ScoredSoFar`), and each player's five cards are still there for
  the second deal (`RemainEnough`).  `ZeroSum` adds the balances by pairs, each of which is
  taken from one seat and given to the other.
* `NoCardLost` and `HandsInOrder` rest on two facts about the sort: it returns a rearrangement of
  what it is given, and this in order.  Both are inductions over the recursive function in `Sorted`
  (`Lemmas`).  A hand that `bringOut` accepts is a rearrangement because each of `Orders` is a
  bijection, which is what the comparison with the own cards makes sure of.
* `MiddleAndBackByTheRules`: the point of a dun without three alike has seven digits in base 14, of
  which the two highest are for pairs (`First7`, `PointOfShape`); a digit is a rank and one, at most
  13, so that none runs over and numbers are ordered as their digits are (`SevenDigits`).  What
  decides by the rules is shorter, a list of ranks behind the number of pairs (`Standing`); the lists
  are ordered as the digits are, because the ranks of a dun's pairs are never 0 in their digits
  (`MorePairs`).  Straights have points of their own (`StraightsByHeight`), three or more alike that of
  the card in the middle; the brand comes first and is the highest that fits (`FiveBrand`).
  In duns of three a digit is a rank and *two*, so that an ace in the highest place is the base itself;
  they all start at two, so the places still decide in turn.
* `GhostsInFrontAreTheBest`: with no card or one rank left the ghosts make three alike, beside two
  ranks a ghost doubles the higher; each is the worth of a dun of three ranks that has the cards of the
  hand in it (`Completes`), and whatever other ranks would complete them is worth no more.
* The gold rooms: `RoomsInv` has each client in the seats of the room he is numbered
  with, once (`SeatedOnce`), and in each room what it waits for (`InPlay`, `InBallot`); that
  a room which plays or votes has two players and that no round is counted between two
  (`BetweenRounds`) is what the number of rooms rests on.  A lemma says for each handler what
  it makes of one room (`Kept`), and one what that does to all.  `RoomsReused`: a new room is
  made only when all others refuse the client; each of them holds two players of its own
  (`TwoInEach`, a count by induction over the rooms), and the client himself is in none.
* `LoginInv` says of each message under way what will be true when it arrives: a login
  that is queued will go on or be followed by its disconnection (`WillGo`), and the
  answers name sessions that the lobby knows, or that a later message corrects (`Known`).
  `IndexesAgree` is inductive with the types.
* `GatewayConns`: `ConnsInv` ties each thread's place to what it has already done
  (`WhereaboutsInv`, `NetInv`, `TimerInv`), so that a half-finished erasure is always in some
  thread's hands.
* `RingInv`: the full cells are those from `Oldest` to `Newest`, which are at most one
  turn of the ring apart; an item that is half in or half out lies just outside.  The
  cells are found by the remainder of a division, so the steps rest on lemmas about
  it: within a turn different positions have different cells (`WithinATurn`), and a
  turn ahead is the same cell (`ATurnAhead`).
* `RingImplementsFifo`: the mark of a push is `Put`, the mark of a pop is `Get`, every
  other step stutters; `NoDataRace` follows from `RingInv`, because two threads with
  the same cell would have the ring empty and full at once.
* `TcpRecv`: `RecvInv` says that everything on its way is made of bytes of packets, that
  what a buffer holds lies in it, and that a packet begun has its head, unless its size wraps, and
  nothing of the next packet; the last part is what makes `parse` stop at the right byte, and what
  `HeadIsWhole` follows from.  `UsesTheRing` needs it because what is pushed must be a
  packet; `TypeOK` takes the invariant of the ring for what comes out of it.

* `StreamsIntact`: the bytes of a connection that have not gone into the ring are the rest of
  the peer's stream from the end of a packet `i` on (`StreamFrom`); a read moves bytes from one
  part to the next, `parse` cuts the first packet off, and nothing else touches them.  The
  head of the rest is the head of packet `i + 1` (`RestGoesOn`), so that the packet that has
  begun is the one that is whole in the end (`PacketBegun`).
* `PacketsInTurn` needs to know where each packet up to that `i` is: got, in the ring, or dropped
  (`Deliver`).  The ring holds those of a connection in their order, and every one that is missing
  between two of them is among the dropped.  Push and the packet's end in the buffer are two
  steps of the network thread, between which the two accounts differ by one packet; `Settled`
  says at which place of the code.
* `TcpSend`: `InOrder` compares three sequences of bytes, the buffer, what waits and what is owed.
  A packet waits as a name, and its bytes are shared by all who broadcast it; so that the order
  holds only because no packet waits twice for a connection (`OnceOnly`), which holds because
  only packets that were sent wait (`SentOnly`), and the broadcast does not come back to
  whom it has reached (`StillLeft`).  `Filling` is the place where the network thread has looked
  at a queue and the main thread may have come between.
* `Lemmas`: the library's induction theorems take an operator, which the provers cannot
  instantiate.  `LeastSet` says of a *set* of finite sets that it has a member which no other is
  part of; induction over finite sets and over numbers is that there is no least
  counterexample.  On it rest the sums (`SumFunctionOnSet`) and the concatenations
  (`FlattenSeq`), which the community modules define by folds over a `CHOOSE`n function: first
  that the function exists and is unique, then what one more summand or sequence adds.

`CuidsAreUnique` is proved and no run checks it: `LoginInv` takes it in.

Only model-checked:

* the liveness properties `PhasesEnd`, `PlayersFreed`, `ArrivedIsHandled` and `WaitingIsSent`
  (the prover has no rules for fairness);
* `RankedByTheRules`, which compares the brand and the point of a dun with the best of the game's
  rules.  Its reference sorts ranks by `SetToSortSeq`, a `CHOOSE` over all orders, which TLC evaluates
  and the provers cannot.  The three theorems above say the same of all cards with another reference.

What ghosts in a dun of *five* are worth is proved only to be one of the ten brands and an integer
point (`BrandInfoType`), which is all that the theorems on a round need.  They are not always worth the
best cards they could stand for (see "What the code does not keep").

## 4. Not modelled

* The renewal of a room: the gateway does not relay `RenewRoom` and `RenewReply`
  (`register_client_msg_relay.cpp`), so that no client reaches the handlers.
* Several card rooms and the recycling of their numbers, which matters after a thousand.
* The AnySDK login: a chain of coroutine switches around two HTTP requests to a service
  outside the repository.  Its result, a yes or a no at some later time, is an input of
  `LobbyLogin`.  A switch of stacks has no model short of the machine's.
* Chat, history, names and pictures: they change nothing that the other parts read.
* The private connections between the processes and their reconnecting, http packets, the
  ring for many producers and consumers, which only an example uses, and the LRU cache.
* Generated protocol code, message tables, configuration, skeleton processes, test tools.
* The vendored code, which is the larger half of the lines under `src/server`: nlohmann's
  json, `http_parser.c`, TinyXML.  Of `lobby/deck.cpp` all lines after 955 are a comment;
  `tools/robot/` is a test client with cards of its own.

## 5. Plan

Done: the card game with its entry in Redis, its cards and its platform commands; the gold
rooms; the login; the connections; the ring; receiving and sending; and theorems for every safety
property of these but `RankedByTheRules`, most of which has theorems of its own.  Next:

1. Which duns of five with ghosts `ghostInfo5` gives the best worth they could have, and for
   which cards and numbers of ghosts it gives less.
2. `LobbyRooms`: several card rooms, their numbers and the recycling of numbers; clients who
   leave a seat behind.
3. The ring for many producers and consumers, as soon as a process uses it.
4. `AnySdkLogin`: the conversation, as a state machine of its yields.
