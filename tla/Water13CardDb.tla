---------------------------- MODULE Water13CardDb ----------------------------
(***************************************************************************)
(* A room-card game with its copy in Redis, and a lobby that dies and is   *)
(* started again (Water13::saveToDB and recoveryFromDB, Client::saveToDB,  *)
(* Room::eraseFromDB).                                                     *)
(*                                                                         *)
(* A client is written at once by every change of his money or of his room *)
(* number, so between two handlers the copy of a client is the client.     *)
(* The room is written by some of the handlers of the clients' messages,   *)
(* as their last step, and never by the timer.  A crash therefore loses    *)
(* what the timer did since the last message; and a crash in the middle of *)
(* a handler (the Torn actions) leaves the clients written and the room    *)
(* not.  Redis itself keeps everything.                                    *)
(*                                                                         *)
(* Left out: a crash inside the settlement of a game that the winners pay, *)
(* and the connections, which the gateway keeps when the lobby dies: to    *)
(* the new process every client is absent until he logs in.                *)
(***************************************************************************)
EXTENDS Water13Card

CONSTANTS
  MaxStarts  \* how often the lobby is started: a bound of the model

ASSUME StartsAssumption == MaxStarts \in Nat \ {0}

VARIABLES
  saved,   \* the entry of the room in tb_room, or NoCopy
  junk,    \* tb_room has an entry under the number 0
  lost,    \* history: the entry is of a game that the process does not know
  starts,  \* history: how often the lobby has been started
  excused, \* history: who had a seat, and was not in memory, at the first deal
  twice    \* history: who has ever had two seats

dbVars    == <<saved, junk, lost, starts>>
allDbVars == <<vars, dbVars, excused, twice>>

Snapshot_NoSettlements ==
  [status |-> status, rounds |-> rounds, owner |-> owner, seat |-> seat,
   st |-> st, vote |-> vote, chipIn |-> chipIn, multiple |-> multiple,
   banker |-> banker, reserved |-> reserved, settled |-> 0,
   result |-> Nobody, bill |-> NoBill]

\* serialize: all of the object.  The bill is no part of the entry: it goes with
\* the game when the lobby forgets it.
Snapshot ==
  [status |-> status, rounds |-> rounds, owner |-> owner, seat |-> seat,
   st |-> st, vote |-> vote, chipIn |-> chipIn, multiple |-> multiple,
   banker |-> banker, reserved |-> reserved, settled |-> settled,
   result |-> result, bill |-> NoBill]

NoCopy == [status |-> "none"]

DbInit ==
  /\ Init
  /\ saved = NoCopy /\ junk = FALSE /\ lost = FALSE
  /\ starts = 1
  /\ excused = {} /\ twice = {}

-----------------------------------------------------------------------------
(*** What a handler does to the entry ***)

Save(entry) ==
  /\ saved' = entry
  /\ lost' = FALSE
  /\ UNCHANGED <<junk, starts>>

\* saveToDB at the end of a handler, which a handler that dies does not reach
SaveAtEnd == IF up' THEN Save(Snapshot') ELSE UNCHANGED dbVars

\* destroyLater: the entry goes, and the room has the number 0 from now on
Erase(afterwards) ==
  /\ saved' = NoCopy
  /\ lost' = FALSE
  /\ junk' = afterwards
  /\ UNCHANGED starts

\* bringOut saves the cards before it tries to settle the round.
BeforeSettling(c) ==
  [Snapshot EXCEPT !.st = [i \in Seats |-> IF IsSeatOf(i, c) THEN "COMPARE" ELSE st[i]]]

-----------------------------------------------------------------------------
(*** The handlers, with what they write ***)

DbCreateGame(c) ==
  /\ CreateGame(c)
  /\ IF roomid'[c] = "here" THEN SaveAtEnd ELSE UNCHANGED dbVars

JoinGameUnsaved(c) == JoinGame(c) /\ UNCHANGED dbVars

DbJoinGame(c) == JoinGame(c) /\ SaveAtEnd

\* giveUp saves on every way out: the owner's leaving saves what is left of the
\* room, under the number 0.
DbGiveUp(c) ==
  \/ GiveUpWaiting(c) /\ IF status' = "closed" THEN Erase(TRUE) ELSE SaveAtEnd
  \/ GiveUpPlaying(c) /\ SaveAtEnd
  \/ GiveUpOver(c) /\ SaveAtEnd

\* A giveUp that is ignored saves the room all the same, and so does a JoinGame
\* of a player who is in it.
SaveAsItIs(c) ==
  /\ InRoom(c)
  /\ status # "closed"
  /\ Save(Snapshot)
  /\ UNCHANGED vars

DbBringOut(c) == BringOut(c) /\ Save(BeforeSettling(c))

DbVote(c) ==
  \/ \E v \in Votes : /\ VoteFoAbortGame(c, v)
                      /\ IF v = "NONE" THEN UNCHANGED dbVars ELSE SaveAtEnd
  \/ \E v \in Votes : /\ VoteForQuickStart(c, v)
                      /\ IF v = "NONE" THEN UNCHANGED dbVars ELSE SaveAtEnd

DbReadyFlag(c) == (\E ready \in BOOLEAN : ReadyFlag(c, ready)) /\ SaveAtEnd

SavedMessage(c) ==
  \/ DbCreateGame(c) \/ DbJoinGame(c) \/ DbGiveUp(c) \/ DbReadyFlag(c)
  \/ DbBringOut(c) \/ DbVote(c) \/ SaveAsItIs(c)

\* These handlers leave the entry as it is.
UnsavedMessage(c) ==
  /\ \/ QuickStart(c)
     \/ \E t \in Clients, reply \in BOOLEAN : ReplyHalfEnter(c, t, reply)
     \/ \E point \in Points : ChipInPoint(c, point) \/ SelectMultiple(c, point)
     \/ Exchange(c)
     \/ Elsewhere(c)
  /\ UNCHANGED dbVars

\* abortGame is what the timer and the platform have in common with giveUp.
DbTimer ==
  /\ Timer \/ DismissRoom
  /\ IF status' = "closed" THEN Erase(junk) ELSE UNCHANGED dbVars

\* Whoever is taken to be in a room that does not know him is let go by his
\* next message about it (afterLeaveRoom in giveUp, readyFlag, bringOut and the
\* votes).  Only a recovered lobby has such clients.
StrayMessage(c) ==
  /\ Online(c) /\ roomid[c] = "here"
  /\ status = "none" \/ ~Seated(c)
  /\ roomid' = [roomid EXCEPT ![c] = "none"]
  /\ UNCHANGED <<status, rounds, owner, seatVars, vote, bankVars, resultVars,
                 conn, purseVars, up, dbVars>>

-----------------------------------------------------------------------------
(*** Crashes ***)

Died == up' = FALSE /\ UNCHANGED dbVars

\* Between two handlers
Crash ==
  /\ up
  /\ UNCHANGED <<status, rounds, owner, seatVars, vote, bankVars, resultVars,
                 clientVars, purseVars>>
  /\ Died

\* enterRoom has written the client's room number.
TornEnter(c) ==
  /\ Online(c) /\ roomid[c] = "none"
  /\ \/ status = "none" /\ CanAfford(c, c)
     \/ /\ status \notin {"none", "closed"}
        /\ MayEnter /\ CanAfford(c, owner)
        /\ \E i \in Seats : IsEmptySeat(i)
  /\ roomid' = [roomid EXCEPT ![c] = "here"]
  /\ UNCHANGED <<status, rounds, owner, seatVars, vote, bankVars, resultVars,
                 conn, purseVars>>
  /\ Died

\* removePlayer has written the client: he is in no room.
TornLeave(c) ==
  /\ InRoom(c) /\ Seated(c)
  /\ status = "settleAll" \/ (status = "prepare" /\ rounds = 0 /\ c # owner)
  /\ roomid' = [roomid EXCEPT ![c] = "none"]
  /\ UNCHANGED <<status, rounds, owner, seatVars, vote, bankVars, resultVars,
                 conn, purseVars>>
  /\ Died

\* abortGame, which the platform may ask for at any time, has sent out the
\* players of the first n seats.
TornAbort(n) ==
  LET out == {c \in Clients : InMemory(c) /\ \E i \in 1..n : seat[i] = c} IN
  /\ up /\ status \notin {"none", "closed"}
  /\ roomid' = [c \in Clients |-> IF c \in out THEN "none" ELSE roomid[c]]
  /\ UNCHANGED <<status, rounds, owner, seatVars, vote, bankVars, resultVars,
                 conn, purseVars>>
  /\ Died

\* tryStartRound has taken the price from the players of the first n seats; in
\* the phase prepare the last of them may have become ready in this handler.
TornDeal(n) ==
  /\ up /\ rounds = 0 /\ status \in {"prepare", "quickStart"}
  /\ \E s \in {st} \union {[st EXCEPT ![i] = "READY"] :
                             i \in {j \in Seats : seat[j] \in Clients /\ InRoom(seat[j])}} :
       /\ CanStart(status, s)
       /\ Pay([c \in Clients |-> IF \E i \in 1..n : seat[i] = c
                                   THEN FirstDealBill(s)[c] ELSE 0])
  /\ UNCHANGED <<status, rounds, owner, seatVars, vote, bankVars, resultVars,
                 clientVars>>
  /\ Died

Torn ==
  \/ \E c \in Clients : TornEnter(c) \/ TornLeave(c)
  \/ \E n \in Seats : TornAbort(n) \/ TornDeal(n)

\* deserialize: the room as it was when it was saved
Recovered ==
  /\ saved # NoCopy
  /\ status' = saved.status /\ rounds' = saved.rounds /\ owner' = saved.owner
  /\ seat' = saved.seat /\ st' = saved.st /\ vote' = saved.vote
  /\ chipIn' = saved.chipIn /\ multiple' = saved.multiple
  /\ banker' = saved.banker /\ reserved' = saved.reserved
  /\ settled' = saved.settled /\ result' = saved.result
  /\ charged' = IF lost THEN saved.bill ELSE charged
  /\ lost' = FALSE
  /\ UNCHANGED saved

\* There is no entry, or the traversal has met the entry 0 before this one and
\* stopped there: an entry without players is unreadable.
NotRecovered ==
  /\ saved = NoCopy \/ junk
  /\ status' = "none" /\ rounds' = 0 /\ owner' = None
  /\ seat' = Nobody /\ st' = NoStatus /\ vote' = NoVotes
  /\ chipIn' = NoPoints /\ multiple' = NoPoints
  /\ banker' = None /\ reserved' = 0
  /\ settled' = 0 /\ result' = Nobody
  /\ charged' = NoBill
  /\ lost' = (saved # NoCopy)
  /\ saved' = IF saved = NoCopy \/ lost THEN saved
                                        ELSE [saved EXCEPT !.bill = charged]

Restart ==
  /\ ~up
  /\ starts < MaxStarts
  /\ starts' = starts + 1
  /\ up' = TRUE
  /\ conn' = [c \in Clients |-> "absent"]
  /\ Recovered \/ NotRecovered
  /\ UNCHANGED <<roomid, money, junk>>

-----------------------------------------------------------------------------
\* The players whom tryStartRound did not find when it was to charge them; they
\* are remembered as long as the game may come back.
Excused ==
  IF rounds = 0 /\ rounds' = 1
    THEN {c \in Clients : Seated(c) /\ ~InMemory(c)}
    ELSE IF rounds' = 0 /\ ~lost' THEN {} ELSE excused

\* Who leaves while the lobby dies keeps his seat in the entry, and may come in
\* again: enterRoom looks at his room number only.
WithTwoSeats == {c \in Clients : \E i, j \in Seats : i # j /\ seat[i] = c /\ seat[j] = c}

DbNext ==
  \/ /\ \/ \E c \in Clients : SavedMessage(c) \/ UnsavedMessage(c) \/ StrayMessage(c)
        \/ DbTimer
     /\ excused' = Excused
     /\ twice' = twice \union WithTwoSeats'
  \/ (Crash \/ Torn \/ Restart) /\ UNCHANGED <<excused, twice>>

DbSpec == DbInit /\ [][DbNext]_allDbVars

-----------------------------------------------------------------------------
(*** Safety, whatever has crashed when ***)

\* Nobody plays for nothing whom the lobby could charge: the price is written
\* before the room is, so a game that has been dealt, recovered or not, has been
\* paid for by all who were in memory at its first deal (tryStartRound,
\* addMoney, saveToDB).
DealtIsPaid ==
  up /\ rounds > 0 =>
    \A c \in Clients : Seated(c) /\ c \notin excused => charged[c] >= Due(c)

\* A first deal that was not saved is dealt, and charged, again; but each start
\* of the lobby costs a player who has one seat his price at most once.
ChargedOncePerStart ==
  \A c \in Clients \ twice : charged[c] <= Due(c) * starts

\* Whoever takes or leaves a seat is in the entry, or no longer in it, as soon
\* as the handler is over; a room that is closed has no entry.
SeatsAreSaved ==
  up /\ ~lost =>
    /\ status = "closed" => saved = NoCopy
    /\ status \notin {"none", "closed"} =>
         IF saved = NoCopy THEN seat = Nobody ELSE seat = saved.seat

=============================================================================
