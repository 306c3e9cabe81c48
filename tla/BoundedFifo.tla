---------------------------- MODULE BoundedFifo ----------------------------
(***************************************************************************)
(* What a queue between one producer and one consumer promises: items come *)
(* out in the order they went in, each once, and never more than Size of   *)
(* them are inside.                                                        *)
(***************************************************************************)
EXTENDS Naturals, Sequences

CONSTANTS Items, Size

VARIABLES
  queue,   \* the items inside, the oldest first
  given    \* the item handed out last; Init leaves it open

fifoVars == <<queue, given>>

FifoInit == queue = <<>>

Put ==
  /\ Len(queue) < Size
  /\ \E x \in Items : queue' = Append(queue, x)
  /\ UNCHANGED given

Get ==
  /\ queue # <<>>
  /\ given' = Head(queue)
  /\ queue' = Tail(queue)

Fifo == FifoInit /\ [][Put \/ Get]_fifoVars

=============================================================================
