--------------------------- MODULE ContractProofs ---------------------------
(***************************************************************************)
(* The contracts of the manager, for any keys, threads, packets and        *)
(* capacity: below it the erase and insert of an ordered map, which its    *)
(* rotation is; above it the turns and backlogs of FifoRoundRobin, which   *)
(* its threads and ring buffers implement; and beside it what its callers  *)
(* may rely on between two of their calls.                                 *)
(***************************************************************************)
EXTENDS CallerPromises, ManagerMap, UdpQueueImplements, UdpQueueProofs

-----------------------------------------------------------------------------
(* The rotation and the ordered map                                        *)

\* The first key of a sequence without duplicates is at position one, so that
\* erasing it leaves the tail, in which it no longer is.
LEMMA EraseHead ==
  ASSUME queues \in Seq(Keys), queues # <<>>,
         \A i, j \in DOMAIN queues : queues[i] = queues[j] => i = j
  PROVE  /\ Map!Erased(queues, Head(queues)) = Tail(queues)
         /\ Head(queues) \notin Map!Listed(Tail(queues))
<1>1. Head(queues) = queues[1] /\ 1 \in DOMAIN queues
  OBVIOUS
<1>2. Head(queues) \in Map!Listed(queues)
  BY <1>1 DEF Map!Listed
<1>3. Map!Position(queues, Head(queues)) = 1
  BY <1>1 DEF Map!Position
<1>4. Map!Erased(queues, Head(queues)) = SubSeq(queues, 1, 0) \o SubSeq(queues, 2, Len(queues))
  BY <1>2, <1>3 DEF Map!Erased, Map!RemoveAt
<1>5. SubSeq(queues, 1, 0) = <<>>
  OBVIOUS
<1>6. SubSeq(queues, 2, Len(queues)) = Tail(queues)
  OBVIOUS
<1>7. <<>> \o Tail(queues) = Tail(queues)
  OBVIOUS
<1>8. ASSUME NEW i \in DOMAIN Tail(queues), Tail(queues)[i] = Head(queues)
      PROVE  FALSE
  <2>1. i + 1 \in DOMAIN queues /\ Tail(queues)[i] = queues[i + 1] /\ i \in Nat /\ i >= 1
    OBVIOUS
  <2> QED
    BY <2>1, <1>1, <1>8
<1> QED
  BY <1>4, <1>5, <1>6, <1>7, <1>8 DEF Map!Listed

\* Wherever the manager turns, erases or extends its rotation, it does what the
\* ordered map does (process_next_locked and push_locked on manager->queues).
THEOREM RotatesByMap == Spec => []RotationIsEraseInsert
<1>1. TypeOK /\ RotationComplete => RotationIsEraseInsert
  <2> SUFFICES ASSUME TypeOK, RotationComplete
               PROVE  RotationIsEraseInsert
    OBVIOUS
  <2>1. /\ queues \in Seq(Keys)
        /\ \A i, j \in DOMAIN queues : queues[i] = queues[j] => i = j
        /\ Map!Listed(queues) = Mapped
    BY DEF TypeOK, RotationComplete, Map!Listed
  <2>2. ASSUME queues # <<>>
        PROVE  /\ Tail(queues) = Map!Erased(queues, Head(queues))
               /\ Rotated(queues)
                    = Map!Inserted(Map!Erased(queues, Head(queues)), Head(queues))
    BY <2>1, <2>2, EraseHead DEF Rotated, Map!Inserted
  <2>3. \A k \in Keys \ Mapped : Append(queues, k) = Map!Inserted(queues, k)
    BY <2>1 DEF Map!Inserted
  <2> QED
    BY <2>2, <2>3 DEF RotationIsEraseInsert
<1> QED
  BY <1>1, TypeCorrect, RotationIsComplete, PTL

-----------------------------------------------------------------------------
(* The packet on its way out                                               *)

\* While a thread is inside the loop and the process lives, no other thread
\* carries a packet.
LEMMA OthersCarryNothing ==
  ASSUME IInv, NEW p \in Processors, pc[p] \notin {"out", "waiting", "crashed"}
  PROVE  \A q \in Processors \ {p} : unsent[q] = None
<1>1. \A q \in Processors : pc[q] # "crashed"
  BY DEF IInv, ControlInv, Destroying, Crashed, Threads
<1>2. \A q \in Processors \ {p} : pc[q] \notin {"popped", "unsent"}
  BY DEF IInv, ControlInv, Exclusion
<1> QED
  BY <1>1, <1>2 DEF IInv, TableInv, Carrying

\* What is on its way out is what the one carrying thread carries.
LEMMA OutgoingIs ==
  /\ (\A p \in Processors : unsent[p] = None) => Outgoing = None
  /\ \A p \in Processors :
       unsent[p] # None /\ (\A q \in Processors \ {p} : unsent[q] = None) =>
         Outgoing = [key |-> unsent[p].key, packet |-> unsent[p].packet]
<1>1. ASSUME NEW p \in Processors, unsent[p] # None,
             \A q \in Processors \ {p} : unsent[q] = None
      PROVE  Outgoing = [key |-> unsent[p].key, packet |-> unsent[p].packet]
  <2>1. (CHOOSE q \in Processors : unsent[q] # None) = p
    BY <1>1
  <2>2. \E q \in Processors : unsent[q] # None
    BY <1>1
  <2> QED
    BY <2>1, <2>2 DEF Outgoing
<1> QED
  BY <1>1 DEF Outgoing

-----------------------------------------------------------------------------
(* The backlogs                                                            *)

\* The packets of a queue as a sequence, and nothing for a key without queue.
LEMMA BacklogAt ==
  ASSUME IInv, NEW k \in Keys
  PROVE  /\ k \in Mapped => /\ items[k].buffer \in Buffer
                            /\ Backlog[k] = Contents(items[k].buffer)
                            /\ Len(Backlog[k]) = items[k].buffer.size
         /\ k \notin Mapped => Backlog[k] = <<>>
<1>1. k \in Mapped => items[k].buffer \in Buffer
  BY DEF IInv, TableInv, TableType, Mapped, Item
<1> QED
  BY <1>1, ContentsType DEF Backlog

SameBuffer(k) ==
  /\ items[k] = None <=> items'[k] = None
  /\ items[k] # None => items'[k].buffer = items[k].buffer

\* A step on one queue changes one backlog.
LEMMA BacklogUpdate ==
  ASSUME NEW k \in Keys, \A l \in Keys \ {k} : SameBuffer(l)
  PROVE  Backlog' = [Backlog EXCEPT
                       ![k] = IF items'[k] # None THEN Contents(items'[k].buffer) ELSE <<>>]
<1>1. k \in Mapped' <=> items'[k] # None
  BY DEF Mapped
<1>2. \A l \in Keys \ {k} : /\ l \in Mapped' <=> l \in Mapped
                            /\ l \in Mapped => items'[l].buffer = items[l].buffer
  BY DEF Mapped, SameBuffer
<1> QED
  BY <1>1, <1>2 DEF Backlog

\* A step that leaves the buffers alone changes none.
LEMMA BacklogSame ==
  ASSUME \A l \in Keys : SameBuffer(l)
  PROVE  Backlog' = Backlog
<1>1. \A l \in Keys : /\ l \in Mapped' <=> l \in Mapped
                      /\ l \in Mapped => items'[l].buffer = items[l].buffer
  BY DEF Mapped, SameBuffer
<1> QED
  BY <1>1 DEF Backlog

-----------------------------------------------------------------------------
(* The steps                                                               *)

\* Once destroy has released lock, shutting_down is set.
Closed == \A c \in Clients : pc[c] \in {"joining", "joined", "deleted"} => shutting_down

\* The flag is set before anybody can see destroy wait, and it is never cleared.
LEMMA ClosedStep == ControlInv /\ Closed /\ [Next]_vars => Closed'
<1> SUFFICES ASSUME ControlInv, Closed, [Next]_vars, NEW c \in Clients,
                    pc'[c] \in {"joining", "joined", "deleted"}
             PROVE  shutting_down'
  BY DEF Closed
<1>0. c \in Threads /\ pc \in [Threads -> ClientStates \cup ProcessorStates \cup {"crashed"}]
  BY DEF ControlInv, ControlType, Threads
<1>1. ASSUME pc[c] \in {"joining", "joined", "deleted"} PROVE shutting_down'
  <2>1. shutting_down
    BY <1>1 DEF Closed
  <2> QED
    BY <2>1 DEF Next, Enter, ClientStep, PushExisting, PushNew, Remove,
       GetRemainingCapacity, Return, DestroyLock, DestroyStep, DestroySignal, DestroyJoin,
       DestroyFree, AwaitProcess, EnterProcess, LockManager, ProcessorStep, Stop,
       LeaveProcess, Idle, Reap, HoldBack, NothingToSend, Serve, Reschedule, Dispatch,
       Crash, Loop, Sleep, Wake, Tick, ClockStep, vars
<1>2. ASSUME pc[c] \notin {"joining", "joined", "deleted"} PROVE shutting_down'
  <2>1. ASSUME NEW t \in Threads, NEW from, NEW to, Move(t, from, to),
               to \notin {"joining", "joined", "deleted"}
        PROVE  FALSE
    BY <1>0, <1>2, <2>1 DEF Move
  <2>2. ASSUME NEW d \in Clients, DestroyStep(d) PROVE shutting_down'
    <3>1. CASE DestroySignal(d)
      BY <3>1 DEF DestroySignal
    <3>2. CASE DestroyJoin(d) \/ DestroyFree(d)
      BY <1>0, <1>2, <3>2 DEF DestroyJoin, DestroyFree, Move, Threads
    <3> QED
      BY <2>2, <3>1, <3>2 DEF DestroyStep
  <2>3. ASSUME NEW d \in Clients, Enter(d) \/ ClientStep(d) \/ DestroyLock(d) PROVE FALSE
    BY <2>1, <2>3 DEF Enter, ClientStep, PushExisting, PushNew, Remove,
       GetRemainingCapacity, Return, DestroyLock, Threads
  <2>4. ASSUME NEW p \in Processors,
               AwaitProcess(p) \/ EnterProcess(p) \/ LockManager(p) \/ ProcessorStep(p)
        PROVE  FALSE
    <3>1. ~Crash(p)
      BY <1>0 DEF Crash
    <3>2. p \in Threads
      BY DEF Threads
    <3>3. CASE Reschedule(p)
      BY <2>1, <3>2, <3>3 DEF Reschedule
    <3>4. CASE ~Reschedule(p)
      BY <2>1, <2>4, <3>1, <3>2, <3>4 DEF AwaitProcess, EnterProcess, LockManager,
         ProcessorStep, Stop, LeaveProcess, Idle, Reap, HoldBack, NothingToSend, Serve,
         Dispatch, Loop, Sleep, Wake
    <3> QED
      BY <3>3, <3>4
  <2>5. ~Tick /\ ~ \E d \in ClockSteps : ClockStep(d)
    BY <1>2 DEF Tick, ClockStep
  <2>6. ~UNCHANGED vars
    BY <1>2 DEF vars
  <2> QED
    BY <2>2, <2>3, <2>4, <2>5, <2>6 DEF Next
<1> QED
  BY <1>1, <1>2

\* push is an Offer: an accepted packet goes to the back of its backlog.
LEMMA PushOffers ==
  ASSUME IInv, NEW c \in Clients, NEW k \in Keys, NEW x \in Packets,
         PushExisting(c, k, x) \/ PushNew(c, k, x)
  PROVE  Abstract!Offer(k, x)
<1>1. ~shutting_down /\ UNCHANGED <<unsent, shutting_down>>
  BY NameAssumption DEF PushExisting, PushNew, Return, Move, rounds, IInv, ControlInv,
     Destroying, Threads, Crashed
<1>2. Outgoing' = Outgoing
  BY <1>1 DEF Outgoing
<1>3. TableType /\ Abstract!Open = Mapped /\ x \in Contained
  BY DEF IInv, TableInv, Lists, Abstract!Open, Contained
<1>4. ASSUME NEW i \in Item, i.buffer.size = Len(Backlog[k]),
             Contents(i.buffer) = Backlog[k], items' = [items EXCEPT ![k] = Pushed(i, x)]
      PROVE  Backlog' = IF Len(Backlog[k]) < Capacity
                        THEN [Backlog EXCEPT ![k] = Append(Backlog[k], x)] ELSE Backlog
  <2>1. /\ items'[k] = Pushed(i, x) /\ items'[k] # None
        /\ \A l \in Keys \ {k} : SameBuffer(l)
    BY <1>3, <1>4, PushedType, NoneIsNoItem DEF TableType, SameBuffer
  <2>2. Backlog' = [Backlog EXCEPT ![k] = Contents(items'[k].buffer)]
    BY <2>1, BacklogUpdate
  <2>3. i.buffer \in Buffer /\ i.buffer.size \in Nat
    BY CapacityAssumption DEF Item, Buffer
  <2>4. CASE IsFull(i.buffer)
    <3>1. ~(Len(Backlog[k]) < Capacity)
      BY <1>4, <2>3, <2>4, CapacityAssumption DEF IsFull
    <3>2. Contents(items'[k].buffer) = Backlog[k]
      BY <1>4, <2>1, <2>4 DEF Pushed
    <3>3. [Backlog EXCEPT ![k] = Backlog[k]] = Backlog
      BY DEF Backlog
    <3> QED
      BY <2>2, <3>1, <3>2, <3>3
  <2>5. CASE ~IsFull(i.buffer)
    <3>1. Len(Backlog[k]) < Capacity
      BY <1>4, <2>3, <2>5, CapacityAssumption DEF IsFull
    <3>2. items'[k].buffer = Put(i.buffer, x)
      BY <2>1, <2>5 DEF Pushed, Item
    <3>3. Contents(items'[k].buffer) = Append(Backlog[k], x)
      BY <1>3, <1>4, <2>3, <2>5, <3>2, PutAppends
    <3> QED
      BY <2>2, <3>1, <3>3
  <2> QED
    BY <2>4, <2>5
<1>5. CASE PushExisting(c, k, x)
  <2>1. k \in Mapped /\ items[k] \in Item /\ queues' = queues
        /\ items' = [items EXCEPT ![k] = Pushed(items[k], x)]
    BY <1>3, <1>5 DEF PushExisting, Mapped, TableType
  <2>2. Contents(items[k].buffer) = Backlog[k] /\ items[k].buffer.size = Len(Backlog[k])
    BY <2>1, BacklogAt
  <2> QED
    BY <1>1, <1>2, <1>3, <1>4, <2>1, <2>2 DEF Abstract!Offer
<1>6. CASE PushNew(c, k, x)
  <2>1. PICK a \in Resolved : items' = [items EXCEPT ![k] = Pushed(NewItem(a), x)]
    BY <1>6 DEF PushNew
  <2>2. k \notin Mapped /\ NewItem(a) \in Item /\ queues' = Append(queues, k)
    BY <1>6, NewItemType DEF PushNew, Resolved
  <2>3. NewItem(a).buffer = NewBuffer /\ NewBuffer.size = 0
    BY DEF NewItem, NewBuffer
  <2>4. Backlog[k] = <<>> /\ Contents(NewBuffer) = <<>>
    BY <2>2, <2>3, BacklogAt, ContentsType, NewBufferType, EmptySeq
  <2> QED
    BY <1>1, <1>2, <1>3, <1>4, <2>1, <2>2, <2>3, <2>4 DEF Abstract!Offer
<1> QED
  BY <1>5, <1>6

\* remove discards a backlog, and nothing when the key has no queue.
LEMMA RemoveDiscards ==
  ASSUME IInv, NEW c \in Clients, NEW k \in Keys, Remove(c, k)
  PROVE  Abstract!Discard(k)
<1>1. UNCHANGED <<unsent, queues, shutting_down>>
  BY DEF Remove, Return, rounds
<1>2. Outgoing' = Outgoing /\ items \in [Keys -> Item \cup {None}]
  BY <1>1 DEF Outgoing, IInv, TableInv, TableType
<1>3. CASE k \in Mapped
  <2>1. items[k] \in Item /\ items[k].buffer \in Buffer /\ items[k] # None
    BY <1>2, <1>3 DEF Mapped, Item
  <2> DEFINE i == [items[k] EXCEPT !.buffer = Drain(items[k].buffer)]
  <2>2. items' = [items EXCEPT ![k] = i]
    BY <1>3 DEF Remove
  <2>3. i.buffer = Drain(items[k].buffer) /\ i \in Item /\ i # None
    BY <2>1, DrainType, NoneIsNoItem DEF Item
  <2> HIDE DEF i
  <2>4. items'[k] = i /\ \A l \in Keys \ {k} : SameBuffer(l)
    BY <1>2, <2>2 DEF SameBuffer
  <2>5. Contents(i.buffer) = <<>>
    BY <2>1, <2>3, DrainType, ContentsType, EmptySeq
  <2>6. Backlog' = [Backlog EXCEPT ![k] = <<>>]
    BY <2>3, <2>4, <2>5, BacklogUpdate
  <2> QED
    BY <1>1, <1>2, <2>6 DEF Abstract!Discard
<1>4. CASE k \notin Mapped
  <2>1. items' = items /\ Backlog[k] = <<>>
    BY <1>4, BacklogAt DEF Remove
  <2>2. Backlog' = Backlog
    BY <2>1 DEF Backlog, Mapped
  <2>3. [Backlog EXCEPT ![k] = <<>>] = Backlog
    BY <2>1 DEF Backlog
  <2> QED
    BY <1>1, <1>2, <2>2, <2>3 DEF Abstract!Discard
<1> QED
  BY <1>3, <1>4

\* A packet that is popped is the oldest of the front queue, which goes to the
\* back; the packet behind it loses its bytes.
LEMMA ServeTakesTurn ==
  ASSUME IInv, NEW p \in Processors, Serve(p)
  PROVE  Abstract!TakeTurn
<1> DEFINE k == Head(queues)
           b == items[k].buffer
           u == [key |-> k, packet |-> Front(b), address |-> items[k].address]
<1>1. /\ ~shutting_down /\ UNCHANGED shutting_down /\ queues # <<>> /\ b.size > 0
      /\ queues' = Append(Tail(queues), k) /\ pc[p] = "locked"
      /\ items' = [items EXCEPT ![k] = Served(items[k])]
      /\ unsent' = [unsent EXCEPT ![p] = u]
  BY DEF Serve, KeepRunning, Rotated, Move
<1>2. k \in Keys /\ k \in Mapped /\ items[k] \in Item /\ b \in Buffer
  BY <1>1, FrontItem DEF Item
<1>3. unsent \in [Processors -> Unsent \cup {None}] /\ items \in [Keys -> Item \cup {None}]
  BY DEF IInv, TableInv, RoundType, TableType
<1>4. Backlog[k] = Contents(b) /\ Len(Backlog[k]) = b.size /\ b.size \in Nat
      /\ Contents(b) \in Seq(Contained)
  BY <1>2, BacklogAt, ContentsType, CapacityAssumption DEF Buffer
<1>5. Outgoing = None
  <2>1. unsent[p] = None
    BY <1>1 DEF IInv, TableInv, Carrying
  <2>2. \A q \in Processors \ {p} : unsent[q] = None
    BY <1>1, OthersCarryNothing
  <2> QED
    BY <2>1, <2>2, OutgoingIs
<1>6. Front(b) = Head(Backlog[k]) /\ Backlog[k] # <<>>
  <2>1. Capacity > 0 /\ b.index \in 0 .. Capacity - 1
    BY <1>1, <1>2, CapacityAssumption DEF Buffer, Slots
  <2>2. At(b, 0) = b.index
    BY <1>2, <2>1, CapacityAssumption, AtWraps
  <2>3. 1 \in 1 .. b.size /\ 1 - 1 = 0
    BY <1>1, <1>4
  <2>4. Contents(b)[1] = b.slot[At(b, 0)]
    BY <1>2, <2>3, ContentsType
  <2>5. Contents(b) # <<>> /\ Head(Contents(b)) = Contents(b)[1]
    BY <1>1, <1>4, EmptySeq, HeadTailProperties
  <2> QED
    BY <1>4, <2>2, <2>4, <2>5 DEF Front
<1>7. u \in Unsent /\ u # None /\ u.key = k /\ u.packet = Front(b)
  <2>1. Front(b) \in Contained
    BY <1>4, <1>6, HeadTailProperties
  <2> QED
    BY <1>2, <2>1, NoneIsNoItem DEF Unsent, Item
<1> HIDE DEF u, b, k
<1>8. Outgoing' = [key |-> k, packet |-> Head(Backlog[k])]
  <2>1. unsent'[p] = u /\ \A q \in Processors \ {p} : unsent'[q] = None
    BY <1>1, <1>3, OthersCarryNothing
  <2>2. (CHOOSE q \in Processors : unsent'[q] # None) = p
    BY <1>7, <2>1
  <2>3. \E q \in Processors : unsent'[q] # None
    BY <1>7, <2>1
  <2>4. Outgoing' = [key |-> unsent'[p].key, packet |-> unsent'[p].packet]
    BY <2>2, <2>3 DEF Outgoing
  <2> QED
    BY <1>6, <1>7, <2>1, <2>4
<1>9. Backlog' = [Backlog EXCEPT ![k] = Abstract!Blank(Tail(Backlog[k]))]
  <2>1. Served(items[k]).buffer = Pop(b) /\ Served(items[k]) # None
    BY <1>1, <1>2, ServedType, NoneIsNoItem DEF Served, b
  <2>2. items'[k] = Served(items[k]) /\ \A l \in Keys \ {k} : SameBuffer(l)
    BY <1>1, <1>2, <1>3 DEF SameBuffer
  <2>3. Contents(Pop(b)) = Abstract!Blank(Tail(Backlog[k]))
    BY <1>1, <1>2, <1>4, PopEmptiesNext DEF AfterPop, Blank, Abstract!Blank
  <2> QED
    BY <1>2, <2>1, <2>2, <2>3, BacklogUpdate
<1> QED
  BY <1>1, <1>5, <1>6, <1>8, <1>9 DEF Abstract!TakeTurn, k

\* An empty front queue is retired.
LEMMA ReapRetires ==
  ASSUME IInv, NEW p \in Processors, Reap(p)
  PROVE  Abstract!Retire
<1> DEFINE k == Head(queues)
<1>1. /\ ~shutting_down /\ UNCHANGED <<shutting_down, unsent>> /\ queues # <<>>
      /\ items[k].buffer.size = 0 /\ queues' = Tail(queues) /\ pc[p] = "locked"
      /\ items' = [items EXCEPT ![k] = None]
  BY DEF Reap, NothingToSend, KeepRunning, Move
<1>2. k \in Keys /\ k \in Mapped /\ items \in [Keys -> Item \cup {None}]
  BY <1>1, FrontItem DEF IInv, TableInv, TableType
<1>3. Backlog[k] = <<>>
  <2>1. Len(Backlog[k]) = 0 /\ Backlog[k] = Contents(items[k].buffer)
        /\ items[k].buffer \in Buffer
    BY <1>1, <1>2, BacklogAt
  <2> QED
    BY <2>1, ContentsType, EmptySeq
<1>4. Backlog' = Backlog
  <2>1. items'[k] = None /\ \A l \in Keys \ {k} : SameBuffer(l)
    BY <1>1, <1>2 DEF SameBuffer
  <2>2. Backlog' = [Backlog EXCEPT ![k] = <<>>]
    BY <1>2, <2>1, BacklogUpdate
  <2> QED
    BY <1>3, <2>2 DEF Backlog
<1>5. Outgoing = None /\ Outgoing' = Outgoing
  <2>1. unsent[p] = None
    BY <1>1 DEF IInv, TableInv, Carrying
  <2>2. \A q \in Processors \ {p} : unsent[q] = None
    BY <1>1, OthersCarryNothing
  <2> QED
    BY <1>1, <2>1, <2>2, OutgoingIs DEF Outgoing
<1> QED
  BY <1>1, <1>3, <1>4, <1>5 DEF Abstract!Retire

\* The second clock read and the dispatch release the packet that is carried, or
\* change nothing that FifoRoundRobin sees.
LEMMA SendingReleases ==
  ASSUME IInv, NEW p \in Processors, Reschedule(p) \/ Dispatch(p)
  PROVE  Abstract!Release \/ UNCHANGED Abstract!frrvars
<1>1. /\ UNCHANGED <<queues, shutting_down>> /\ pc[p] \in {"popped", "unsent"}
      /\ unsent' = unsent \/ unsent' = [unsent EXCEPT ![p] = None]
  BY DEF Reschedule, Dispatch, Move, table
<1>2. TableType /\ RoundType
  BY DEF IInv, TableInv
<1>3. Backlog' = Backlog
  <2>1. CASE Dispatch(p)
    BY <2>1 DEF Dispatch, table, Backlog, Mapped
  <2>2. CASE Reschedule(p)
    <3> DEFINE k == unsent[p].key
               i == [items[k] EXCEPT !.due = Rescheduled(items[k].due)]
    <3>1. items' = [items EXCEPT ![k] = i]
      BY <2>2 DEF Reschedule
    <3>2. /\ k \in Keys /\ items[k] \in Item /\ items[k] # None
          /\ items[k].due \in Int
      BY <1>2, <2>2 DEF Reschedule, Move, IInv, TableInv, Carrying, Mapped, TableType
    <3>3. i \in Item /\ i.buffer = items[k].buffer /\ i # None
      BY <3>2, TimeTypes, NoneIsNoItem DEF Item
    <3> HIDE DEF i, k
    <3>4. \A l \in Keys : SameBuffer(l)
      BY <1>2, <3>1, <3>2, <3>3 DEF SameBuffer, TableType
    <3> QED
      BY <3>4, BacklogSame
  <2> QED
    BY <2>1, <2>2
<1>4. CASE unsent' = unsent
  <2>1. Outgoing' = Outgoing
    BY <1>4 DEF Outgoing
  <2> QED
    BY <1>1, <1>3, <2>1 DEF Abstract!frrvars
<1>5. CASE unsent' = [unsent EXCEPT ![p] = None]
  <2>1. \A q \in Processors : unsent'[q] = None
    BY <1>1, <1>2, <1>5, OthersCarryNothing DEF RoundType
  <2>2. Outgoing' = None
    BY <2>1 DEF Outgoing
  <2> QED
    BY <1>1, <1>3, <2>2 DEF Abstract!Release
<1> QED
  BY <1>1, <1>4, <1>5

\* destroy closes the manager and later abandons what is left, when nothing is
\* on its way out.
LEMMA DestroyAbandons ==
  ASSUME IInv, Closed, NEW c \in Clients, DestroyStep(c)
  PROVE  Abstract!Close \/ Abstract!Abandon \/ UNCHANGED Abstract!frrvars
<1>1. Outgoing' = Outgoing
  BY DEF DestroyStep, DestroySignal, DestroyJoin, DestroyFree, rounds, Outgoing
<1>2. CASE DestroySignal(c) \/ DestroyJoin(c)
  <2>1. UNCHANGED <<queues, items>>
    BY <1>2 DEF DestroySignal, DestroyJoin, table
  <2>2. Backlog' = Backlog
    BY <2>1 DEF Backlog, Mapped
  <2> QED
    BY <1>1, <1>2, <2>1, <2>2 DEF DestroySignal, DestroyJoin, Abstract!Close, Abstract!frrvars
<1>3. CASE DestroyFree(c)
  <2>1. /\ pc[c] = "joined" /\ queues' = <<>> /\ items' = [k \in Keys |-> None]
        /\ UNCHANGED shutting_down
    BY <1>3 DEF DestroyFree, Move
  <2>2. shutting_down
    BY <2>1 DEF Closed
  <2>3. \A p \in Processors : unsent[p] = None
    <3>1. \A p \in Processors : pc[p] \notin {"popped", "unsent", "crashed"}
      BY <2>1, NameAssumption DEF IInv, ControlInv, Exclusion, Destroying, Crashed, Threads
    <3> QED
      BY <3>1 DEF IInv, TableInv, Carrying
  <2>4. Outgoing = None
    BY <2>3, OutgoingIs
  <2>5. Backlog' = [k \in Keys |-> <<>>]
    BY <2>1 DEF Backlog, Mapped
  <2> QED
    BY <1>1, <2>1, <2>2, <2>4, <2>5 DEF Abstract!Abandon
<1> QED
  BY <1>2, <1>3 DEF DestroyStep

\* Time changes due times, waits and lags.
LEMMA TimeIsUnseen ==
  ASSUME IInv, Tick \/ \E d \in ClockSteps : ClockStep(d)
  PROVE  UNCHANGED Abstract!frrvars
<1>1. UNCHANGED <<queues, unsent, shutting_down>>
  BY DEF Tick, ClockStep
<1>2. \A k \in Keys : \/ items'[k] = items[k]
                      \/ /\ items[k] # None
                         /\ \E t \in Int : items'[k] = [items[k] EXCEPT !.due = t]
  <2>1. ASSUME NEW k \in Keys, items[k] # None, items[k].due # Unset
        PROVE  items[k].due \in Int
    BY <2>1 DEF IInv, TableInv, TableType, Item
  <2>2. CASE Tick
    BY <2>1, <2>2, TimeTypes DEF Tick
  <2>3. ASSUME NEW d \in ClockSteps, ClockStep(d)
        PROVE  \A k \in Keys : \/ items'[k] = items[k]
                               \/ /\ items[k] # None
                                  /\ \E t \in Int : items'[k] = [items[k] EXCEPT !.due = t]
    <3>1. d \in Int
      BY TimeAssumption
    <3>2. \A k \in Keys : items'[k] = IF items[k] = None \/ items[k].due = Unset
                                      THEN items[k]
                                      ELSE [items[k] EXCEPT !.due = Shift(items[k].due, d)]
      BY <2>3 DEF ClockStep
    <3>3. \A k \in Keys : items[k] # None /\ items[k].due # Unset => Shift(items[k].due, d) \in Int
      BY <2>1, <3>1, TimeTypes
    <3> QED
      BY <3>2, <3>3
  <2> QED
    BY <2>2, <2>3
<1>3. \A k \in Keys : SameBuffer(k)
  <2> SUFFICES ASSUME NEW k \in Keys, items[k] # None,
                      NEW t \in Int, items'[k] = [items[k] EXCEPT !.due = t]
               PROVE  items'[k] # None /\ items'[k].buffer = items[k].buffer
    BY <1>2 DEF SameBuffer
  <2>1. items[k] \in Item
    BY DEF IInv, TableInv, TableType
  <2>2. [items[k] EXCEPT !.due = t] \in Item
        /\ [items[k] EXCEPT !.due = t].buffer = items[k].buffer
    BY <2>1 DEF Item
  <2> QED
    BY <2>2, NoneIsNoItem
<1>4. Backlog' = Backlog
  BY <1>3, BacklogSame
<1> QED
  BY <1>1, <1>4 DEF Outgoing, Abstract!frrvars

\* So that every step is one of FifoRoundRobin, or one it does not see.
LEMMA StepRefines ==
  ASSUME IInv, Closed, [Next]_vars
  PROVE  [Abstract!FRRNext]_(Abstract!frrvars)
<1>1. ASSUME UNCHANGED <<queues, items, unsent, shutting_down>>
      PROVE  UNCHANGED Abstract!frrvars
  BY <1>1 DEF Backlog, Mapped, Outgoing, Abstract!frrvars
<1>2. ASSUME NEW c \in Clients, ClientStep(c)
      PROVE  Abstract!FRRNext \/ UNCHANGED Abstract!frrvars
  <2>1. ASSUME NEW k \in Keys, GetRemainingCapacity(c, k)
        PROVE  UNCHANGED Abstract!frrvars
    BY <1>1, <2>1 DEF GetRemainingCapacity, Return, table, rounds
  <2> QED
    BY <1>2, <2>1, PushOffers, RemoveDiscards DEF ClientStep, Abstract!FRRNext
<1>3. ASSUME NEW c \in Clients, Enter(c) \/ DestroyLock(c)
      PROVE  UNCHANGED Abstract!frrvars
  BY <1>1, <1>3 DEF Enter, DestroyLock, table, rounds
<1>4. ASSUME NEW c \in Clients, DestroyStep(c)
      PROVE  Abstract!FRRNext \/ UNCHANGED Abstract!frrvars
  BY <1>4, DestroyAbandons DEF Abstract!FRRNext
<1>5. ASSUME NEW p \in Processors, AwaitProcess(p) \/ EnterProcess(p) \/ LockManager(p)
      PROVE  UNCHANGED Abstract!frrvars
  BY <1>1, <1>5 DEF AwaitProcess, EnterProcess, LockManager, table, rounds
<1>6. ASSUME NEW p \in Processors, ProcessorStep(p)
      PROVE  Abstract!FRRNext \/ UNCHANGED Abstract!frrvars
  <2>1. CASE Serve(p) \/ Reap(p)
    BY <2>1, ServeTakesTurn, ReapRetires DEF Abstract!FRRNext
  <2>2. CASE Reschedule(p) \/ Dispatch(p)
    BY <2>2, SendingReleases DEF Abstract!FRRNext
  <2>3. CASE \/ Stop(p) \/ LeaveProcess(p) \/ Idle(p) \/ HoldBack(p)
             \/ Crash(p) \/ Loop(p) \/ Sleep(p) \/ Wake(p)
    BY <1>1, <2>3 DEF Stop, LeaveProcess, Idle, HoldBack, NothingToSend, Crash, Loop,
       Sleep, Wake, table, rounds
  <2> QED
    BY <1>6, <2>1, <2>2, <2>3 DEF ProcessorStep
<1>7. CASE Tick \/ \E d \in ClockSteps : ClockStep(d)
  BY <1>7, TimeIsUnseen
<1>8. CASE UNCHANGED vars
  BY <1>1, <1>8 DEF vars
<1> QED
  BY <1>2, <1>3, <1>4, <1>5, <1>6, <1>7, <1>8 DEF Next

\* The queue manager implements the round robin of first-in first-out backlogs,
\* for any number of queues, clients and processing threads and any capacity.
THEOREM QueueImplementsFifo == Spec => ImplementsFifo
<1>1. Init => Abstract!FRRInit
  <2> SUFFICES ASSUME Init PROVE Abstract!FRRInit
    OBVIOUS
  <2>1. Mapped = {} /\ \A p \in Processors : unsent[p] = None
    BY DEF Init, Mapped
  <2>2. Outgoing = None /\ Backlog = [k \in Keys |-> <<>>]
    BY <2>1, OutgoingIs DEF Backlog
  <2> QED
    BY <2>2 DEF Init, Abstract!FRRInit
<1>2. Init => Closed
  BY DEF Init, Closed, Threads
<1>3. IInv => ControlInv
  BY DEF IInv
<1>4. IInv /\ Closed /\ [Next]_vars => [Abstract!FRRNext]_(Abstract!frrvars)
  BY StepRefines
<1>5. Spec => []Closed
  BY <1>2, <1>3, ClosedStep, SpecIInv, PTL DEF Spec
<1> QED
  BY <1>1, <1>4, <1>5, SpecIInv, PTL DEF Spec, ImplementsFifo, Abstract!FRRSpec

-----------------------------------------------------------------------------
(* The calls with their histories                                          *)

\* The history variables take nothing away: a step is a step of the manager.
LEMMA PromiseStepIsStep == [PNext]_pvars => [Next]_vars
<1> SUFFICES ASSUME PNext PROVE Next
  BY DEF pvars, vars
<1>1. ASSUME NEW c \in Clients, NEW k \in Keys,
             Ask(c, k) \/ \E x \in Packets : Queue(c, k, x)
      PROVE  ClientStep(c)
  BY <1>1 DEF Ask, Queue, ClientStep
<1>2. ASSUME NEW p \in Processors, TakeTurn(p) \/ LeaveRotation(p)
      PROVE  ProcessorStep(p)
  BY <1>2 DEF TakeTurn, LeaveRotation, ProcessorStep
<1>3. Other => Next
  BY DEF Other, Next, ClientStep, ProcessorStep
<1> QED
  BY <1>1, <1>2, <1>3 DEF PNext, Next

\* So that the manager's invariant holds.
LEMMA PromiseIInv == PSpec => []IInv
<1>1. PInit => Init
  BY DEF PInit
<1> QED
  BY <1>1, PromiseStepIsStep, SpecIInv, PTL DEF PSpec, Spec

\* What each thread may do to the history and, with it, to the queues.
LEMMA PromiseCases ==
  ASSUME PNext
  PROVE  \/ \E c \in Clients, k \in Keys : Ask(c, k)
         \/ \E c \in Clients, k \in Keys, x \in Packets : Queue(c, k, x)
         \/ \E p \in Processors : TakeTurn(p)
         \/ \E p \in Processors : LeaveRotation(p)
         \/ UNCHANGED <<promised, passed>> /\
              \/ \E c \in Clients, k \in Keys : Remove(c, k)
              \/ \E c \in Clients : DestroyFree(c)
              \/ \E p \in Processors : Reschedule(p)
              \/ Tick
              \/ \E d \in ClockSteps : ClockStep(d)
              \/ UNCHANGED <<queues, items>>
BY DEF PNext, Other, Enter, DestroyLock, DestroyStep, DestroySignal, DestroyJoin,
   AwaitProcess, EnterProcess, LockManager, Stop, LeaveProcess, Idle, HoldBack,
   NothingToSend, Dispatch, Crash, Loop, Sleep, Wake, table

-----------------------------------------------------------------------------
(* Reported capacities                                                     *)

PromiseInv == promised \in [Keys -> Nat] /\ PromiseKept

\* No queue gets a packet.
Shrinks ==
  \A k \in Keys :
    \/ items'[k] = None
    \/ /\ items[k] # None
       /\ items'[k].buffer.size \in 0 .. items[k].buffer.size

\* A queue has room for what it lacks.
LEMMA SizeType ==
  ASSUME TypeOK, NEW k \in Mapped
  PROVE  items[k].buffer \in Buffer /\ items[k].buffer.size \in 0 .. Capacity
BY MappedItem, CapacityAssumption DEF Item, Buffer

\* As long as no queue gets a packet, what was promised remains.
LEMMA ShrinkKeeps ==
  ASSUME PromiseInv, TypeOK, TypeOK', Shrinks, promised' = promised
  PROVE  PromiseInv'
<1> SUFFICES ASSUME NEW k \in Keys, promised[k] > 0
             PROVE  IF k \in Mapped' THEN /\ ~(items'[k].buffer.size >= Capacity)
                                          /\ items'[k].buffer.size + promised[k] <= Capacity
                    ELSE promised[k] <= Capacity
  BY DEF PromiseInv, PromiseKept, IsFull
<1>1. promised[k] \in Nat /\ Capacity \in Nat
  BY CapacityAssumption DEF PromiseInv
<1>2. CASE k \in Mapped
  <2>1. /\ items[k].buffer.size \in 0 .. Capacity
        /\ items[k].buffer.size + promised[k] <= Capacity
    BY <1>2, SizeType DEF PromiseInv, PromiseKept
  <2>2. k \in Mapped' => items'[k].buffer.size \in 0 .. items[k].buffer.size
    BY DEF Shrinks, Mapped
  <2> QED
    BY <1>1, <2>1, <2>2
<1>3. CASE k \notin Mapped
  <2>1. promised[k] <= Capacity /\ k \notin Mapped'
    BY <1>3 DEF PromiseInv, PromiseKept, Shrinks, Mapped
  <2> QED
    BY <2>1
<1> QED
  BY <1>2, <1>3

\* remove, pop, the clock reads, reaping and deletion put no packet in.
LEMMA ShrinkSteps ==
  ASSUME IInv,
         \/ \E c \in Clients, k \in Keys : Remove(c, k)
         \/ \E c \in Clients : DestroyFree(c)
         \/ \E p \in Processors : Reschedule(p) \/ Serve(p) \/ Reap(p)
         \/ Tick
         \/ \E d \in ClockSteps : ClockStep(d)
         \/ UNCHANGED <<queues, items>>
  PROVE  Shrinks
<1>1. TypeOK /\ items \in [Keys -> Item \cup {None}]
  BY IInvMeaning DEF TypeOK
<1>2. \A k \in Keys : items[k] # None =>
        items[k] \in Item /\ items[k].buffer \in Buffer /\ items[k].buffer.size \in Nat
  BY <1>1, SizeType, MappedItem DEF Mapped
<1>3. ASSUME \A k \in Keys : \/ items'[k] = None
                             \/ items'[k] = items[k]
                             \/ items[k] # None /\ items'[k].buffer = items[k].buffer
      PROVE  Shrinks
  BY <1>2, <1>3 DEF Shrinks
<1>4. ASSUME NEW c \in Clients, NEW k \in Keys, Remove(c, k) PROVE Shrinks
  <2>1. CASE k \notin Mapped
    BY <1>3, <1>4, <2>1 DEF Remove
  <2>2. CASE k \in Mapped
    <3>1. /\ items' = [items EXCEPT ![k].buffer = Drain(items[k].buffer)]
          /\ items[k] \in Item /\ items[k] # None /\ items[k].buffer.size \in Nat
      BY <1>2, <1>4, <2>2 DEF Remove, Mapped
    <3>2. items'[k].buffer = Drain(items[k].buffer)
      BY <1>1, <3>1 DEF Item
    <3>3. items'[k].buffer.size = 0
      BY <3>1, <3>2, DrainType DEF Item
    <3>4. \A l \in Keys \ {k} : items'[l] = items[l]
      BY <1>1, <3>1
    <3> QED
      BY <1>2, <3>1, <3>3, <3>4 DEF Shrinks
  <2> QED
    BY <2>1, <2>2
<1>5. ASSUME NEW c \in Clients, DestroyFree(c) PROVE Shrinks
  BY <1>5 DEF DestroyFree, Shrinks
<1>6. ASSUME NEW p \in Processors, Reschedule(p) PROVE Shrinks
  <2> DEFINE k == unsent[p].key
  <2>1. /\ items' = [items EXCEPT ![k].due = Rescheduled(items[k].due)]
        /\ k \in Keys /\ items[k] \in Item /\ items[k] # None
    BY <1>2, <1>6 DEF Reschedule, Move, IInv, TableInv, Carrying, Mapped
  <2>2. items'[k].buffer = items[k].buffer /\ \A l \in Keys \ {k} : items'[l] = items[l]
    BY <1>1, <2>1 DEF Item
  <2> QED
    BY <1>3, <2>1, <2>2
<1>7. ASSUME NEW p \in Processors, Serve(p) PROVE Shrinks
  <2> DEFINE k == Head(queues)
  <2>1. /\ k \in Keys /\ items[k] \in Item /\ items[k] # None
        /\ items[k].buffer.size > 0 /\ items' = [items EXCEPT ![k] = Served(items[k])]
    BY <1>7, FrontItem DEF Serve, Mapped
  <2>2. Pop(items[k].buffer).size = items[k].buffer.size - 1
    BY <2>1, PopType DEF Item
  <2>3. items'[k].buffer.size = items[k].buffer.size - 1
    BY <1>1, <2>1, <2>2 DEF Served
  <2>4. \A l \in Keys \ {k} : items'[l] = items[l]
    BY <1>1, <2>1
  <2>5. items[k].buffer.size \in Nat
    BY <1>2, <2>1
  <2> HIDE DEF k
  <2>6. items'[k].buffer.size \in 0 .. items[k].buffer.size
    BY <2>1, <2>3, <2>5
  <2> QED
    BY <1>2, <2>1, <2>4, <2>6 DEF Shrinks
<1>8. ASSUME NEW p \in Processors, Reap(p) PROVE Shrinks
  BY <1>1, <1>3, <1>8 DEF Reap
<1>9. CASE Tick
  <2>1. \A k \in Keys : items'[k] = items[k] \/ /\ items[k] # None
                                                /\ items'[k] = [items[k] EXCEPT !.due = Later(@)]
    BY <1>9 DEF Tick
  <2>2. \A k \in Keys : \A t : items[k] # None => [items[k] EXCEPT !.due = t].buffer = items[k].buffer
    BY <1>2 DEF Item
  <2> QED
    BY <1>3, <2>1, <2>2
<1>10. ASSUME NEW d \in ClockSteps, ClockStep(d) PROVE Shrinks
  <2>1. \A k \in Keys : items'[k] = items[k] \/ /\ items[k] # None
                                                /\ items'[k] = [items[k] EXCEPT !.due = Shift(@, d)]
    BY <1>10 DEF ClockStep
  <2>2. \A k \in Keys : \A t : items[k] # None => [items[k] EXCEPT !.due = t].buffer = items[k].buffer
    BY <1>2 DEF Item
  <2> QED
    BY <1>3, <2>1, <2>2
<1>11. CASE UNCHANGED <<queues, items>>
  BY <1>3, <1>11
<1> QED
  BY <1>4, <1>5, <1>6, <1>7, <1>8, <1>9, <1>10, <1>11

\* An answer promises what is there.
LEMMA AskKeeps ==
  ASSUME PromiseInv, TypeOK, NEW c \in Clients, NEW k \in Keys, Ask(c, k)
  PROVE  PromiseInv'
<1>1. promised' = [promised EXCEPT ![k] = Remaining(k)] /\ items' = items
  BY DEF Ask, GetRemainingCapacity, table
<1>2. /\ k \in Mapped => Remaining(k) = Capacity - items[k].buffer.size
      /\ k \notin Mapped => Remaining(k) = Capacity
      /\ Capacity \in Nat /\ Mapped' = Mapped
  BY <1>1, CapacityAssumption DEF Remaining, Mapped
<1>3. k \in Mapped => items[k].buffer.size \in 0 .. Capacity
  BY SizeType
<1>4. Remaining(k) \in Nat
  BY <1>2, <1>3
<1>5. promised' \in [Keys -> Nat] /\ promised'[k] = Remaining(k)
      /\ \A l \in Keys \ {k} : promised'[l] = promised[l]
  BY <1>1, <1>4 DEF PromiseInv
<1>6. ASSUME NEW l \in Keys, promised'[l] > 0
      PROVE  IF l \in Mapped THEN /\ ~(items[l].buffer.size >= Capacity)
                                  /\ items[l].buffer.size + promised'[l] <= Capacity
             ELSE promised'[l] <= Capacity
  <2>1. CASE l = k
    BY <1>2, <1>3, <1>5, <1>6, <2>1
  <2>2. CASE l # k
    BY <1>5, <1>6, <2>2 DEF PromiseInv, PromiseKept, IsFull
  <2> QED
    BY <2>1, <2>2
<1> QED
  BY <1>1, <1>2, <1>5, <1>6 DEF PromiseInv, PromiseKept, IsFull

\* A packet takes one place of what was promised for its key, if it is accepted.
LEMMA QueueKeeps ==
  ASSUME PromiseInv, IInv, TypeOK',
         NEW c \in Clients, NEW k \in Keys, NEW x \in Packets, Queue(c, k, x)
  PROVE  PromiseInv'
<1> DEFINE old == IF k \in Mapped THEN items[k].buffer.size ELSE 0
           new == items'[k].buffer.size
<1>1. /\ Capacity \in Nat /\ promised \in [Keys -> Nat] /\ old \in 0 .. Capacity
      /\ items \in [Keys -> Item \cup {None}] /\ TypeOK
  BY IInvMeaning, SizeType, CapacityAssumption DEF PromiseInv, TypeOK
<1>2. /\ Remaining(k) = Capacity - old
      /\ k \in Mapped' /\ Mapped' = Mapped \cup {k}
      /\ new = IF old < Capacity THEN old + 1 ELSE old
      /\ \A l \in Keys \ {k} : items'[l] = items[l]
  <2>1. ASSUME NEW i \in Item, i.buffer.size = old, items' = [items EXCEPT ![k] = Pushed(i, x)]
        PROVE  /\ k \in Mapped' /\ Mapped' = Mapped \cup {k}
               /\ new = IF old < Capacity THEN old + 1 ELSE old
               /\ \A l \in Keys \ {k} : items'[l] = items[l]
    <3>1. items'[k] = Pushed(i, x) /\ \A l \in Keys \ {k} : items'[l] = items[l]
      BY <1>1, <2>1
    <3>2. Pushed(i, x) \in Item
      BY PushedType
    <3>3. k \in Mapped' /\ Mapped' = Mapped \cup {k}
      BY <3>1, <3>2, NoneIsNoItem DEF Mapped
    <3>4. i.buffer \in Buffer
      BY DEF Item
    <3>5. CASE old < Capacity
      <4>1. Pushed(i, x).buffer = Put(i.buffer, x)
        BY <1>1, <2>1, <3>5 DEF Pushed, IsFull, Item
      <4>2. Put(i.buffer, x).size = old + 1
        BY <2>1, <3>4 DEF Put, Buffer
      <4> QED
        BY <3>1, <3>3, <3>5, <4>1, <4>2
    <3>6. CASE ~(old < Capacity)
      BY <1>1, <2>1, <3>1, <3>3, <3>6 DEF Pushed, IsFull
    <3> QED
      BY <3>5, <3>6
  <2>2. CASE PushExisting(c, k, x)
    <3>1. k \in Mapped /\ items' = [items EXCEPT ![k] = Pushed(items[k], x)]
      BY <2>2 DEF PushExisting
    <3> QED
      BY <1>1, <2>1, <3>1, MappedItem DEF Remaining
  <2>3. CASE PushNew(c, k, x)
    <3>1. PICK a \in Resolved : items' = [items EXCEPT ![k] = Pushed(NewItem(a), x)]
      BY <2>3 DEF PushNew
    <3>2. k \notin Mapped /\ NewItem(a) \in Item /\ NewItem(a).buffer.size = 0
      BY <2>3, NewItemType DEF PushNew, Resolved, NewItem, NewBuffer
    <3>3. Remaining(k) = Capacity - old
      BY <1>1, <3>2 DEF Remaining
    <3> QED
      BY <2>1, <3>1, <3>2, <3>3
  <2> QED
    BY <2>2, <2>3 DEF Queue
<1>3. promised' = IF Capacity - old > 0 /\ promised[k] > 0
                  THEN [promised EXCEPT ![k] = @ - 1] ELSE promised
  BY <1>2 DEF Queue
<1>4. promised[k] > 0 => old + promised[k] <= Capacity
  BY <1>1 DEF PromiseInv, PromiseKept
<1> HIDE DEF old, new
<1>5. /\ promised' \in [Keys -> Nat] /\ \A l \in Keys \ {k} : promised'[l] = promised[l]
      /\ promised'[k] > 0 => new + promised'[k] <= Capacity
  BY <1>1, <1>2, <1>3, <1>4
<1>6. ASSUME NEW l \in Keys, promised'[l] > 0
      PROVE  IF l \in Mapped' THEN /\ ~(items'[l].buffer.size >= Capacity)
                                   /\ items'[l].buffer.size + promised'[l] <= Capacity
             ELSE promised'[l] <= Capacity
  <2>1. CASE l = k
    <3>1. new \in Nat /\ promised'[k] \in Nat
      BY <1>1, <1>2, <1>5
    <3> QED
      BY <1>1, <1>2, <1>5, <1>6, <2>1, <3>1 DEF new
  <2>2. CASE l # k
    BY <1>2, <1>5, <1>6, <2>2 DEF PromiseInv, PromiseKept, IsFull
  <2> QED
    BY <2>1, <2>2
<1> QED
  BY <1>5, <1>6 DEF PromiseInv, PromiseKept, IsFull

\* A capacity that get_remaining_capacity has reported is there until as many
\* packets were accepted, whatever is served, removed, reaped and created again
\* in between.
THEOREM PromisesAreKept == PSpec => []PromiseKept
<1>1. PInit => PromiseInv
  BY DEF PInit, PromiseInv, PromiseKept
<1>2. IInv /\ IInv' /\ PromiseInv /\ [PNext]_pvars => PromiseInv'
  <2> SUFFICES ASSUME IInv, IInv', PromiseInv, [PNext]_pvars PROVE PromiseInv'
    OBVIOUS
  <2>1. TypeOK /\ TypeOK'
    BY IInvMeaning, PTL
  <2>2. ASSUME NEW c \in Clients, NEW k \in Keys, Ask(c, k) PROVE PromiseInv'
    BY <2>1, <2>2, AskKeeps
  <2>3. ASSUME NEW c \in Clients, NEW k \in Keys, NEW x \in Packets, Queue(c, k, x)
        PROVE  PromiseInv'
    BY <2>1, <2>3, QueueKeeps
  <2>4. ASSUME NEW p \in Processors, TakeTurn(p) \/ LeaveRotation(p) PROVE PromiseInv'
    BY <2>1, <2>4, ShrinkSteps, ShrinkKeeps DEF TakeTurn, LeaveRotation
  <2>5. CASE UNCHANGED pvars
    BY <2>1, <2>5, ShrinkSteps, ShrinkKeeps DEF pvars, vars
  <2>6. ASSUME UNCHANGED <<promised, passed>>,
               \/ \E c \in Clients, k \in Keys : Remove(c, k)
               \/ \E c \in Clients : DestroyFree(c)
               \/ \E p \in Processors : Reschedule(p)
               \/ Tick
               \/ \E d \in ClockSteps : ClockStep(d)
               \/ UNCHANGED <<queues, items>>
        PROVE  PromiseInv'
    <3>1. Shrinks
      BY <2>6, ShrinkSteps
    <3> QED
      BY <2>1, <2>6, <3>1, ShrinkKeeps
  <2>7. CASE PNext
    BY <2>2, <2>3, <2>4, <2>6, <2>7, PromiseCases
  <2> QED
    BY <2>5, <2>7
<1>3. PromiseInv => PromiseKept
  BY DEF PromiseInv
<1> QED
  BY <1>1, <1>2, <1>3, PromiseIInv, PTL DEF PSpec

-----------------------------------------------------------------------------
(* Turns                                                                   *)

\* Whoever was served while a key waited is behind it in the rotation, and a
\* key that is not in the rotation starts anew.
PassInv ==
  /\ passed \in [Keys -> SUBSET Keys]
  /\ \A k \in Keys \ Mapped : passed[k] = {} \/ Deleted
  /\ \A i, j \in DOMAIN queues : queues[j] \in passed[queues[i]] => i < j

\* The keys in the rotation are the mapped ones, so that a step that leaves the
\* rotation alone maps and unmaps no key.
LEMMA SameRotation ==
  ASSUME IInv, IInv', queues' = queues
  PROVE  Mapped' = Mapped
BY DEF IInv, TableInv, Lists

\* A step that neither serves nor reaps nor adds a queue changes no order.
LEMMA PassKept ==
  ASSUME PassInv, IInv, IInv', [Next]_vars, UNCHANGED <<queues, passed>>
  PROVE  PassInv'
<1>1. Mapped' = Mapped
  BY SameRotation
<1>2. Deleted => Deleted'
  BY DeletedStays DEF IInv
<1> QED
  BY <1>1, <1>2 DEF PassInv

\* The queue that is served is the front one, and nobody behind it has passed it
\* more than the others: it goes behind all of them (erase, insert).
LEMMA TurnPasses ==
  ASSUME PassInv, IInv, IInv', [Next]_vars, NEW p \in Processors, TakeTurn(p)
  PROVE  PassInv'
<1> DEFINE h == Head(queues)
           n == Len(queues)
<1>1. /\ queues # <<>> /\ queues \in Seq(Keys) /\ queues' = Append(Tail(queues), h)
      /\ passed' = [k \in Keys |-> IF k = h \/ k \notin Mapped THEN {}
                                   ELSE passed[k] \cup {h}]
      /\ h \in Keys /\ h \in Mapped /\ Lists(queues, Mapped)
  BY FrontItem DEF TakeTurn, Serve, Rotated, IInv, TableInv, TableType
<1>2. /\ n \in Nat \ {0} /\ h = queues[1] /\ DOMAIN queues = 1 .. n
      /\ DOMAIN queues' = 1 .. n /\ queues'[n] = h
      /\ \A i \in 1 .. n - 1 : queues'[i] = queues[i + 1]
  <2>1. n \in Nat \ {0} /\ h = queues[1] /\ DOMAIN queues = 1 .. n
    BY <1>1, EmptySeq, LenProperties, HeadTailProperties
  <2>2. /\ Tail(queues) \in Seq(Keys) /\ Len(Tail(queues)) = n - 1
        /\ \A i \in 1 .. n - 1 : Tail(queues)[i] = queues[i + 1]
    BY <1>1, HeadTailProperties
  <2> QED
    BY <1>1, <2>1, <2>2, AppendProperties, LenProperties
<1>3. Mapped' = Mapped
  <2>1. Lists(queues', Mapped)
    BY <1>1, ListsRotate
  <2> QED
    BY <2>1 DEF IInv, TableInv, Lists
<1> HIDE DEF h, n
<1>4. \A i \in 1 .. n : queues[i] \in Keys /\ queues[i] \in Mapped /\ (queues[i] = h => i = 1)
  BY <1>1, <1>2 DEF Lists
<1>5. ASSUME NEW i \in 1 .. n, NEW j \in 1 .. n, queues'[j] \in passed'[queues'[i]]
      PROVE  i < j
  <2>1. i # n
    BY <1>1, <1>2, <1>5
  <2>2. /\ i + 1 \in 1 .. n /\ queues'[i] = queues[i + 1]
        /\ queues'[j] \in passed[queues[i + 1]] \cup {h}
    BY <1>1, <1>2, <1>4, <1>5, <2>1
  <2>3. CASE j = n
    BY <1>2, <2>1, <2>3
  <2>4. CASE j # n
    <3>1. j + 1 \in 1 .. n /\ queues'[j] = queues[j + 1] /\ queues[j + 1] # h
      BY <1>2, <1>4, <2>4
    <3>2. queues[j + 1] \in passed[queues[i + 1]]
      BY <2>2, <3>1
    <3>3. i + 1 < j + 1
      BY <1>2, <2>2, <3>1, <3>2 DEF PassInv
    <3> QED
      BY <1>2, <3>3
  <2> QED
    BY <2>3, <2>4
<1>6. passed' \in [Keys -> SUBSET Keys] /\ \A k \in Keys \ Mapped' : passed'[k] = {}
  BY <1>1, <1>3 DEF PassInv
<1> QED
  BY <1>2, <1>5, <1>6 DEF PassInv

\* A queue that is reaped leaves the order of the others.
LEMMA LeavingPasses ==
  ASSUME PassInv, IInv, IInv', [Next]_vars, NEW p \in Processors, LeaveRotation(p)
  PROVE  PassInv'
<1> DEFINE h == Head(queues)
<1>1. /\ queues # <<>> /\ queues \in Seq(Keys) /\ queues' = Tail(queues)
      /\ passed' = [passed EXCEPT ![h] = {}]
      /\ h \in Keys /\ Lists(queues, Mapped)
  BY FrontItem DEF LeaveRotation, Reap, IInv, TableInv, TableType
<1>2. Mapped' = Mapped \ {h}
  <2>1. Lists(queues', Mapped \ {h})
    BY <1>1, ListsTail
  <2> QED
    BY <2>1 DEF IInv, TableInv, Lists
<1>3. \A i \in DOMAIN queues' : i \in Nat /\ i + 1 \in DOMAIN queues
                                /\ queues'[i] = queues[i + 1]
  <2>1. /\ Tail(queues) \in Seq(Keys) /\ Len(Tail(queues)) = Len(queues) - 1
        /\ \A i \in 1 .. Len(queues) - 1 : Tail(queues)[i] = queues[i + 1]
    BY <1>1, HeadTailProperties
  <2> QED
    BY <1>1, <2>1, LenProperties
<1>4. \A i \in DOMAIN queues : i \in Int /\ queues[i] \in Keys
  BY <1>1, LenProperties
<1>5. Deleted => Deleted'
  BY DeletedStays DEF IInv
<1> HIDE DEF h
<1>6. /\ passed' \in [Keys -> SUBSET Keys] /\ passed'[h] = {}
      /\ \A k \in Keys \ {h} : passed'[k] = passed[k]
  BY <1>1 DEF PassInv
<1>7. ASSUME NEW i \in DOMAIN queues', NEW j \in DOMAIN queues',
             queues'[j] \in passed'[queues'[i]]
      PROVE  i < j
  <2>1. queues[j + 1] \in passed[queues[i + 1]]
    BY <1>3, <1>4, <1>6, <1>7
  <2>2. i + 1 < j + 1
    BY <1>3, <2>1 DEF PassInv
  <2> QED
    BY <1>3, <2>2
<1>8. \A k \in Keys \ Mapped' : passed'[k] = {} \/ Deleted'
  BY <1>2, <1>5, <1>6 DEF PassInv
<1> QED
  BY <1>6, <1>7, <1>8 DEF PassInv

\* A queue that push_locked adds is behind all others and has waited for none.
LEMMA QueuePasses ==
  ASSUME PassInv, IInv, IInv', [Next]_vars,
         NEW c \in Clients, NEW k \in Keys, NEW x \in Packets, Queue(c, k, x)
  PROVE  PassInv'
<1>1. CASE PushExisting(c, k, x)
  BY <1>1, PassKept DEF Queue, PushExisting
<1>2. CASE PushNew(c, k, x)
  <2>1. /\ queues' = Append(queues, k) /\ passed' = passed /\ k \notin Mapped
        /\ queues \in Seq(Keys) /\ Lists(queues, Mapped) /\ pc[c] = "in"
    BY <1>2 DEF PushNew, Queue, Return, Move, IInv, TableInv, TableType
  <2>2. Mapped' = Mapped \cup {k}
    <3>1. Lists(queues', Mapped \cup {k})
      BY <2>1, ListsAppend
    <3> QED
      BY <3>1 DEF IInv, TableInv, Lists
  <2>3. /\ Len(queues) \in Nat /\ DOMAIN queues = 1 .. Len(queues)
        /\ DOMAIN queues' = 1 .. Len(queues) + 1 /\ queues'[Len(queues) + 1] = k
        /\ \A i \in 1 .. Len(queues) : queues'[i] = queues[i]
    BY <2>1, AppendProperties, LenProperties
  <2>4. passed[k] = {}
    BY <2>1 DEF PassInv, Deleted, IInv, ControlInv, Destroying
  <2>5. ASSUME NEW i \in DOMAIN queues', NEW j \in DOMAIN queues',
               queues'[j] \in passed[queues'[i]]
        PROVE  i < j
    <3>1. i # Len(queues) + 1
      BY <2>3, <2>4, <2>5
    <3>2. i \in DOMAIN queues /\ queues'[i] = queues[i]
      BY <2>3, <3>1
    <3>3. CASE j = Len(queues) + 1
      BY <2>3, <3>2, <3>3
    <3>4. CASE j # Len(queues) + 1
      BY <2>3, <2>5, <3>2, <3>4 DEF PassInv
    <3> QED
      BY <3>3, <3>4
  <2>6. Deleted => Deleted'
    BY DeletedStays DEF IInv
  <2> QED
    BY <2>1, <2>2, <2>5, <2>6 DEF PassInv
<1> QED
  BY <1>1, <1>2 DEF Queue

\* The order of turns is kept by every step.
LEMMA PassStep == PassInv /\ IInv /\ IInv' /\ [PNext]_pvars => PassInv'
<1> SUFFICES ASSUME PassInv, IInv, IInv', [PNext]_pvars PROVE PassInv'
  OBVIOUS
<1>1. [Next]_vars
  BY PromiseStepIsStep
<1>2. ASSUME NEW c \in Clients, NEW k \in Keys, Ask(c, k) PROVE PassInv'
  BY <1>1, <1>2, PassKept DEF Ask, GetRemainingCapacity, table
<1>3. ASSUME NEW c \in Clients, NEW k \in Keys, NEW x \in Packets, Queue(c, k, x)
      PROVE  PassInv'
  BY <1>1, <1>3, QueuePasses
<1>4. ASSUME NEW p \in Processors, TakeTurn(p) \/ LeaveRotation(p) PROVE PassInv'
  BY <1>1, <1>4, TurnPasses, LeavingPasses
<1>5. ASSUME NEW c \in Clients, DestroyFree(c), UNCHANGED passed PROVE PassInv'
  <2>1. queues' = <<>> /\ pc'[c] = "deleted"
    BY <1>5 DEF DestroyFree, Move, IInv, ControlInv, ControlType, Threads
  <2> QED
    BY <1>5, <2>1 DEF PassInv, Deleted
<1>6. ASSUME UNCHANGED passed,
             \/ \E c \in Clients, k \in Keys : Remove(c, k)
             \/ \E p \in Processors : Reschedule(p)
             \/ Tick
             \/ \E d \in ClockSteps : ClockStep(d)
             \/ UNCHANGED <<queues, items>>
      PROVE  PassInv'
  <2>1. UNCHANGED queues
    BY <1>6 DEF Remove, Reschedule, Tick, ClockStep
  <2> QED
    BY <1>1, <1>6, <2>1, PassKept
<1>7. CASE PNext
  BY <1>2, <1>3, <1>4, <1>5, <1>6, <1>7, PromiseCases
<1>8. CASE UNCHANGED pvars
  BY <1>1, <1>8, PassKept DEF pvars, vars
<1> QED
  BY <1>7, <1>8

\* Only a turn takes a packet, and it takes one of the front queue.
LEMMA OnlyTurnsTake ==
  ASSUME IInv, PNext, NEW p \in Processors, unsent[p] = None, unsent'[p] # None
  PROVE  queues # <<>> /\ unsent'[p].key = Head(queues)
<1>0. unsent \in [Processors -> Unsent \cup {None}]
  BY DEF IInv, TableInv, RoundType
<1>1. ASSUME NEW q \in Processors, TakeTurn(q)
      PROVE  queues # <<>> /\ unsent'[p].key = Head(queues)
  <2>1. queues # <<>> /\ unsent' = [unsent EXCEPT ![q] = [key     |-> Head(queues),
                                         packet  |-> Front(items[Head(queues)].buffer),
                                         address |-> items[Head(queues)].address]]
    BY <1>1 DEF TakeTurn, Serve
  <2>2. p = q
    BY <1>0, <2>1
  <2> QED
    BY <1>0, <2>1, <2>2
<1>2. ASSUME ~ \E q \in Processors : TakeTurn(q)
      PROVE  unsent' = unsent \/ \E q \in Processors : unsent' = [unsent EXCEPT ![q] = None]
  BY <1>2 DEF PNext, Ask, GetRemainingCapacity, Queue, PushExisting, PushNew, Return,
     LeaveRotation, Reap, NothingToSend, Other, Enter, DestroyLock, DestroyStep,
     DestroySignal, DestroyJoin, DestroyFree, Remove, AwaitProcess, EnterProcess,
     LockManager, Stop, LeaveProcess, Idle, HoldBack, Reschedule, Dispatch, Crash, Loop,
     Sleep, Wake, Tick, ClockStep, rounds
<1> QED
  BY <1>0, <1>1, <1>2

\* No key is served twice while another one waits (the rotation of
\* process_next_locked, with the queues that are reaped and created again).
THEOREM NobodyOvertakesTwice == PSpec => OvertakenOnce
<1> DEFINE Once == \A p \in Processors, k \in Keys :
                     unsent[p] = None /\ unsent'[p] # None /\ k \in Mapped =>
                       unsent'[p].key = k \/ unsent'[p].key \notin passed[k]
<1>1. PInit => PassInv
  <2> SUFFICES ASSUME PInit PROVE PassInv
    OBVIOUS
  <2>1. queues = <<>> /\ passed = [k \in Keys |-> {}]
    BY DEF PInit, Init
  <2> QED
    BY <2>1 DEF PassInv
<1>2. IInv /\ PassInv /\ [PNext]_pvars => [Once]_pvars
  <2> SUFFICES ASSUME IInv, PassInv, PNext, NEW p \in Processors, NEW k \in Keys,
                      unsent[p] = None, unsent'[p] # None, k \in Mapped,
                      unsent'[p].key \in passed[k]
               PROVE  FALSE
    OBVIOUS
  <2>1. queues # <<>> /\ unsent'[p].key = Head(queues) /\ queues \in Seq(Keys)
        /\ Lists(queues, Mapped)
    BY OnlyTurnsTake DEF IInv, TableInv, TableType
  <2>2. PICK i \in DOMAIN queues : queues[i] = k
    BY <2>1 DEF Lists
  <2>3. 1 \in DOMAIN queues /\ Head(queues) = queues[1] /\ i \in Nat \ {0}
    BY <2>1, EmptySeq, LenProperties, HeadTailProperties
  <2>4. i < 1
    BY <2>1, <2>2, <2>3 DEF PassInv
  <2> QED
    BY <2>3, <2>4
<1> QED
  BY <1>1, <1>2, PassStep, PromiseIInv, PTL DEF PSpec, OvertakenOnce
=============================================================================
