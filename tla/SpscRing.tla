------------------------------ MODULE SpscRing ------------------------------
(***************************************************************************)
(* LockFreeCircularQueueSPSC of src/server/water/componet: a ring of cells *)
(* between one producer thread and one consumer thread.  Each cell has an  *)
(* atomic status; the producer alone moves mEnd, the consumer alone        *)
(* mBegin.  A step is one access to a status together with the private     *)
(* work of its thread before it; the acquire loads and release stores make *)
(* the accesses to a cell's item ordered by the status.                    *)
(*                                                                         *)
(* The counters are unsigned words of the machine; they are numbers here,  *)
(* because Size is a power of two and divides the range they wrap at.      *)
(***************************************************************************)
EXTENDS Naturals, Sequences

CONSTANTS
  Size,     \* m_maxSize
  Items,    \* what can be pushed
  NoItem    \* T(): what a cell holds when nothing is in it

ASSUME RingAssumption == Size \in Nat \ {0} /\ NoItem \notin Items

VARIABLES
  mBegin, mEnd,    \* m_begin, m_end
  full,            \* m_data[pos].status: full or empty
  cell,            \* m_data[pos].t
  pushPc,          \* where the producer is in push: "out", "look", "mark"
  pushItem,        \* its argument
  pushed,          \* the result of the last push
  popPc,           \* where the consumer is in pop: "out", "look", "mark"
  popItem,         \* what it has read
  popped,          \* what the last successful pop returned
  pushLooks, popLooks   \* i: how often the call has looked in vain

pushVars == <<mEnd, pushPc, pushItem, pushed, pushLooks>>
popVars  == <<mBegin, popPc, popItem, popped, popLooks>>
ringVars == <<mBegin, mEnd, full, cell, pushPc, pushItem, pushed,
              popPc, popItem, popped, pushLooks, popLooks>>

Positions    == 0 .. Size - 1
RealPos(pos) == pos % Size
MaxPushLooks == 2    \* while(true) { if(++i == 3) return false; ...
MaxPopLooks  == 3    \* while(true) { if(i++ == 3) return false; ...

RingTypeOK ==
  /\ mBegin \in Nat /\ mEnd \in Nat
  /\ full \in [Positions -> BOOLEAN]
  /\ cell \in [Positions -> Items \union {NoItem}]
  /\ pushPc \in {"out", "look", "mark"}
  /\ pushItem \in Items \union {NoItem}
  /\ pushed \in BOOLEAN
  /\ popPc \in {"out", "look", "mark"}
  /\ popItem \in Items \union {NoItem}
  /\ popped \in Items \union {NoItem}
  /\ pushLooks \in Nat /\ popLooks \in Nat

RingInit ==
  /\ mBegin = 0 /\ mEnd = 0
  /\ full = [pos \in Positions |-> FALSE]
  /\ cell = [pos \in Positions |-> NoItem]
  /\ pushPc = "out" /\ pushItem = NoItem /\ pushed = FALSE
  /\ popPc = "out" /\ popItem = NoItem /\ popped = NoItem
  /\ pushLooks = 0 /\ popLooks = 0

(***************************************************************************)
(* The producer.                                                           *)
(***************************************************************************)
PushCall(x) ==
  /\ pushPc = "out"
  /\ pushPc' = "look"
  /\ pushItem' = x
  /\ pushLooks' = 0
  /\ UNCHANGED <<mEnd, pushed, full, cell>> /\ UNCHANGED popVars

CanPush_Always == TRUE
CanPush == ~full[RealPos(mEnd)]

\* The cell at the end is free: move the end and write the item.
PushFree ==
  /\ pushPc = "look"
  /\ CanPush
  /\ mEnd' = mEnd + 1
  /\ cell' = [cell EXCEPT ![RealPos(mEnd)] = pushItem]
  /\ pushPc' = "mark"
  /\ UNCHANGED <<pushItem, pushed, full, pushLooks>> /\ UNCHANGED popVars

\* It is not: look again, or give up.
PushFull ==
  /\ pushPc = "look"
  /\ full[RealPos(mEnd)]
  /\ pushLooks' = pushLooks + 1
  /\ IF pushLooks + 1 < MaxPushLooks
     THEN UNCHANGED <<pushPc, pushed>>
     ELSE pushPc' = "out" /\ pushed' = FALSE
  /\ UNCHANGED <<mEnd, pushItem, full, cell>> /\ UNCHANGED popVars

\* The release store; mEnd has moved on already.
PushMark ==
  /\ pushPc = "mark"
  /\ full' = [full EXCEPT ![RealPos(mEnd - 1)] = TRUE]
  /\ pushPc' = "out"
  /\ pushed' = TRUE
  /\ UNCHANGED <<mEnd, pushItem, cell, pushLooks>> /\ UNCHANGED popVars

(***************************************************************************)
(* The consumer.                                                           *)
(***************************************************************************)
PopCall ==
  /\ popPc = "out"
  /\ popPc' = "look"
  /\ popLooks' = 0
  /\ UNCHANGED <<mBegin, popItem, popped, full, cell>> /\ UNCHANGED pushVars

PopFull ==
  /\ popPc = "look"
  /\ full[RealPos(mBegin)]
  /\ mBegin' = mBegin + 1
  /\ popItem' = cell[RealPos(mBegin)]
  /\ cell' = [cell EXCEPT ![RealPos(mBegin)] = NoItem]
  /\ popPc' = "mark"
  /\ UNCHANGED <<popped, full, popLooks>> /\ UNCHANGED pushVars

PopEmpty ==
  /\ popPc = "look"
  /\ ~full[RealPos(mBegin)]
  /\ popLooks' = popLooks + 1
  /\ popPc' = IF popLooks + 1 < MaxPopLooks THEN "look" ELSE "out"
  /\ UNCHANGED <<mBegin, popItem, popped, full, cell>> /\ UNCHANGED pushVars

PopMark ==
  /\ popPc = "mark"
  /\ full' = [full EXCEPT ![RealPos(mBegin - 1)] = FALSE]
  /\ popPc' = "out"
  /\ popped' = popItem
  /\ UNCHANGED <<mBegin, popItem, cell, popLooks>> /\ UNCHANGED pushVars

Push == PushFree \/ PushFull \/ PushMark
Pop  == PopFull \/ PopEmpty \/ PopMark

RingNext == (\E x \in Items : PushCall(x)) \/ Push \/ PopCall \/ Pop

Ring == RingInit /\ [][RingNext]_ringVars

\* full() as the producer sees it
RingFull == full[RealPos(mEnd)]

(***************************************************************************)
(* The ring as a queue: an item is in it from the store that marks its     *)
(* cell full to the store that marks it empty.                             *)
(***************************************************************************)
Oldest == IF popPc = "mark" THEN mBegin - 1 ELSE mBegin
Newest  == IF pushPc = "mark" THEN mEnd - 1 ELSE mEnd

ItemAt(pos) ==
  IF popPc = "mark" /\ pos = mBegin - 1 THEN popItem ELSE cell[RealPos(pos)]

Contents == [i \in 1 .. Newest - Oldest |-> ItemAt(Oldest + i - 1)]

AsFifo == INSTANCE BoundedFifo WITH queue <- Contents, given <- popped

\* The ring is a bounded FIFO: whatever the two threads do at the same time,
\* items come out in the order they went in, each exactly once.
RingIsFifo == AsFifo!Fifo

\* Which cells are full: those from Oldest to Newest, at most one turn of the ring.
\* With RingTypeOK this is inductive.
InTurn ==
  /\ Oldest \in Nat /\ Newest \in Nat
  /\ Oldest <= Newest /\ Newest <= Oldest + Size
  /\ \A k \in Oldest .. Newest - 1 : full[RealPos(k)]
  /\ \A k \in Newest .. Oldest + Size - 1 : ~full[RealPos(k)]

Midway ==
  /\ popPc = "mark" => Oldest < Newest
  /\ pushPc = "mark" => Newest < Oldest + Size /\ cell[RealPos(Newest)] = pushItem
  /\ pushPc # "out" => pushItem \in Items
  /\ \A k \in Oldest .. Newest - 1 : ItemAt(k) \in Items

RingInv == InTurn /\ Midway

\* The two threads never touch the item of the same cell at the same time:
\* between its look and its mark a thread has the cell for itself.
NoRace ==
  ~(/\ pushPc = "mark"
    /\ popPc = "mark"
    /\ RealPos(mEnd - 1) = RealPos(mBegin - 1))

=============================================================================
