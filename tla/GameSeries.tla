------------------------------ MODULE GameSeries ------------------------------
(***************************************************************************)
(* What a room promises its players: a series of at most Rounds rounds     *)
(* among the players who were there at the first deal.  The rounds are     *)
(* dealt and settled in turn; the series ends when the last round is       *)
(* settled, or earlier when the players call it off, and then the room is  *)
(* given up.  Late players may only take a seat when the room allows it.   *)
(*                                                                         *)
(* This is the specification that Water13Card implements: see Series there *)
(***************************************************************************)
EXTENDS Integers

CONSTANTS
  People,   \* who may play
  Rounds,   \* the length of a series
  Late      \* TRUE: players may come in during the series

VARIABLES
  phase,    \* "none", "waiting", "playing", "over", or "dead"
  round,    \* rounds dealt
  settled,  \* rounds settled
  players   \* those with a seat

sVars == <<phase, round, settled, players>>

Phases == {"none", "waiting", "playing", "over", "dead"}

NoSeries(ph) == phase = ph /\ round = 0 /\ settled = 0 /\ players = {}

SInit == NoSeries("none")

\* A room is opened; its creator takes a seat, unless he may not.
Open ==
  /\ phase = "none"
  /\ phase' = "waiting"
  /\ \E p \in People : players' \in {{}, {p}}
  /\ UNCHANGED <<round, settled>>

Enter ==
  /\ phase = "waiting" \/ (Late /\ phase \in {"playing", "over"})
  /\ \E p \in People : players' = players \union {p}
  /\ UNCHANGED <<phase, round, settled>>

Leave ==
  /\ phase \in {"waiting", "over"}
  /\ \E p \in People : players' = players \ {p}
  /\ UNCHANGED <<phase, round, settled>>

Deal ==
  /\ phase \in {"waiting", "playing"}
  /\ round = settled /\ round < Rounds
  /\ phase' = "playing"
  /\ round' = round + 1
  /\ UNCHANGED <<settled, players>>

Settle ==
  /\ phase = "playing"
  /\ settled < round
  /\ settled' = settled + 1
  /\ phase' = IF settled' = Rounds THEN "over" ELSE "playing"
  /\ UNCHANGED <<round, players>>

CallOff ==
  /\ phase = "playing"
  /\ phase' = "over"
  /\ UNCHANGED <<round, settled, players>>

\* The room is given up: before the first deal, in the course of the series
\* when the ballot times out, or at its end.
Close ==
  /\ phase \in {"waiting", "playing", "over"}
  /\ phase' = "none" /\ round' = 0 /\ settled' = 0 /\ players' = {}

\* The process dies of a null pointer.
Die ==
  /\ phase = "playing"
  /\ phase' = "dead" /\ round' = 0 /\ settled' = 0 /\ players' = {}

SNext == Open \/ Enter \/ Leave \/ Deal \/ Settle \/ CallOff \/ Close \/ Die

SSpec == SInit /\ [][SNext]_sVars

=============================================================================
