--------------------------- MODULE FifoRoundRobin ---------------------------
(***************************************************************************)
(* What the queue manager promises its callers, with no thread, mutex,     *)
(* ring buffer or clock: queues take turns, each turn takes the oldest     *)
(* packet of one queue, and one packet at a time is on its way out.        *)
(*                                                                         *)
(* The promise is the one the code keeps: a turn also empties the packet   *)
(* that comes next in the same queue (AfterPop), which is therefore never  *)
(* sent.  No packet is sent twice, out of order, or on another queue's     *)
(* turn.                                                                   *)
(***************************************************************************)
EXTENDS Integers, Sequences, FiniteSets

CONSTANTS
  Keys, Packets, Empty, Capacity, None

VARIABLES
  turns,     \* the queues, the one whose turn it is first
  backlog,   \* the packets of each queue, oldest first
  outgoing,  \* the packet on its way out and its queue, or None
  closed     \* no more turns are taken

frrvars == <<turns, backlog, outgoing, closed>>

Open == {turns[i] : i \in DOMAIN turns}

Blank(s) == IF s = <<>> THEN s ELSE [s EXCEPT ![1] = Empty]

FRRInit ==
  /\ turns = <<>>
  /\ backlog = [k \in Keys |-> <<>>]
  /\ outgoing = None
  /\ closed = FALSE

\* A packet joins the back of its queue, unless that is full; a new queue joins
\* the back of the rotation.
Offer(k, x) ==
  /\ ~closed
  /\ turns' = IF k \in Open THEN turns ELSE Append(turns, k)
  /\ backlog' = IF Len(backlog[k]) < Capacity
                THEN [backlog EXCEPT ![k] = Append(@, x)] ELSE backlog
  /\ UNCHANGED <<outgoing, closed>>

Discard(k) ==
  /\ backlog' = [backlog EXCEPT ![k] = <<>>]
  /\ UNCHANGED <<turns, outgoing, closed>>

TakeTurn ==
  LET k == Head(turns)
  IN  /\ ~closed
      /\ outgoing = None
      /\ turns # <<>>
      /\ backlog[k] # <<>>
      /\ outgoing' = [key |-> k, packet |-> Head(backlog[k])]
      /\ backlog' = [backlog EXCEPT ![k] = Blank(Tail(@))]
      /\ turns' = Append(Tail(turns), k)
      /\ UNCHANGED closed

\* A queue without packets leaves the rotation when its turn comes.
Retire ==
  /\ ~closed
  /\ outgoing = None
  /\ turns # <<>>
  /\ backlog[Head(turns)] = <<>>
  /\ turns' = Tail(turns)
  /\ UNCHANGED <<backlog, outgoing, closed>>

Release ==
  /\ outgoing' = None
  /\ UNCHANGED <<turns, backlog, closed>>

Close ==
  /\ closed' = TRUE
  /\ UNCHANGED <<turns, backlog, outgoing>>

Abandon ==
  /\ closed
  /\ outgoing = None
  /\ turns' = <<>>
  /\ backlog' = [k \in Keys |-> <<>>]
  /\ UNCHANGED <<outgoing, closed>>

FRRNext ==
  \/ \E k \in Keys, x \in Packets : Offer(k, x)
  \/ \E k \in Keys : Discard(k)
  \/ TakeTurn \/ Retire \/ Release \/ Close \/ Abandon

FRRSpec == FRRInit /\ [][FRRNext]_frrvars
=============================================================================
