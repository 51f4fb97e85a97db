------------------------------ MODULE UdpQueue ------------------------------
(***************************************************************************)
(* The queue manager of udpqueue.cpp and queue/Queue.h: client threads     *)
(* queue and delete packets, processing threads send them one interval     *)
(* apart, round robin over the queues, and one client thread destroys the  *)
(* manager at the end.                                                     *)
(*                                                                         *)
(* Threads meet at two mutexes.  lock protects the queues; process_lock is *)
(* held by a processing thread for the whole of its loop.  A step of a     *)
(* thread ends where it takes or releases a mutex, reads the clock a       *)
(* second time, sends a packet, or sleeps.                                 *)
(*                                                                         *)
(* Times are relative to now: a due time is the time that is left, and     *)
(* Tick lets time pass by decreasing it.                                   *)
(***************************************************************************)
EXTENDS PacketBuffer

CONSTANTS
  Keys,           \* queue keys
  Clients,        \* Java threads that queue and delete packets
  Processors,     \* Java threads inside process / processWithSocket
  Handles,        \* the addrinfo pointers getaddrinfo can return
  NULL,           \* the null addrinfo pointer
  ResolveMayFail, \* whether getaddrinfo may leave the pointer null
  Interval,       \* manager->packet_interval, in ticks
  Slack,          \* the 1.5 ms below which nothing waits, in ticks
  Unset,          \* next_due_time = 0, the due time of a new queue
  None,           \* no thread, no queue, no packet
  MaxLate,        \* bound: lateness beyond it is not told apart
  MaxLag,         \* bound: ticks between the two clock reads of one round
  ClockSteps,     \* bound: adjustments of the system clock, in ticks
  MaxDue          \* bound: how far an adjustment may push a due time

ASSUME TimeAssumption ==
  /\ Interval \in Nat \ {0}
  /\ Slack \in Nat \ {0}
  /\ MaxLate \in Nat /\ MaxLate >= 2 * Interval
  /\ MaxLag \in 0 .. MaxLate
  /\ ClockSteps \subseteq Int
  /\ MaxDue \in Nat
  /\ Unset \notin Int

ASSUME NameAssumption ==
  /\ ResolveMayFail \in BOOLEAN
  /\ NULL \notin Handles
  /\ Clients \cap Processors = {}
  /\ None \notin Clients \cup Processors

VARIABLES
  queues,         \* manager->queues: the keys, in insertion order
  items,          \* manager->queues: the item of each key, None when absent
  addrinfos,      \* addrinfo structures that are allocated
  lock,           \* owner of manager->lock
  process_lock,   \* owner of manager->process_lock
  shutting_down,  \* manager->shutting_down
  pc,             \* where each thread is
  unsent,         \* packet_to_send of each processing thread
  wait,           \* target_time - current_time of each processing thread
  lag             \* ticks since the first clock read of the round

locks   == <<lock, process_lock>>
table   == <<queues, items, addrinfos>>
rounds  == <<unsent, wait, lag>>
vars    == <<queues, items, addrinfos, lock, process_lock, shutting_down, pc,
             unsent, wait, lag>>

Threads == Clients \cup Processors

-----------------------------------------------------------------------------
(* Times and items                                                         *)

\* Being late by two intervals or by more makes no difference to the code, so
\* that nothing is lost by not counting further than MaxLate.
Past == -MaxLate

Later(t) == IF t - 1 < Past THEN Past ELSE t - 1

Shift(t, d) == IF t - d < Past THEN Past ELSE t - d

Item == [due : Int \cup {Unset}, buffer : Buffer, address : Handles \cup {NULL}]

Unsent == [key : Keys, packet : Contained, address : Handles \cup {NULL}]

ASSUME NoneAssumption == None \notin Item \cup Unsent

\* std::make_unique<queue::Item>() as push_locked fills it in.
NewItem(a) == [due |-> Unset, buffer |-> NewBuffer, address |-> a]

Mapped == {k \in Keys : items[k] # None}

\* Mutation of Freed: a structure that is not freed.
FreedNever(a) == addrinfos \cup {a}

\* addrinfo_free
Freed(a) == addrinfos \ {a}

\* Mutation of Resolved: one structure for several queues.
ResolvedShared == Handles

\* What resolve_address can return: a fresh structure, or null.
Resolved == (Handles \ addrinfos) \cup (IF ResolveMayFail THEN {NULL} ELSE {})

\* push_locked, once the queue exists: a full buffer refuses the packet.
Pushed(item, x) ==
  IF IsFull(item.buffer) THEN item ELSE [item EXCEPT !.buffer = Put(@, x)]

\* What a turn does to the item: a due time that is unset becomes now, and pop.
Served(item) ==
  [due     |-> IF item.due = Unset THEN 0 ELSE item.due,
   buffer  |-> Pop(item.buffer),
   address |-> item.address]

\* Mutation of Target: the time of the front queue's last turn, not of its next.
TargetOfLastTurn(q, i) ==
  IF q = <<>> THEN Interval
  ELSE IF i[Head(q)].due = Unset THEN Past ELSE i[Head(q)].due - Interval

\* get_target_time: an unset due time is a target of zero, long past.
Target(q, i) ==
  IF q = <<>> THEN Interval
  ELSE IF i[Head(q)].due = Unset THEN Past ELSE i[Head(q)].due

\* Mutations of Rescheduled: no reset when late, the lateness added.
RescheduledAlways(due) == due + Interval
RescheduledLater(due) == IF -due >= 2 * Interval THEN Interval - due ELSE due + Interval

\* The due time a served queue gets at the second clock read.
Rescheduled(due) == IF -due >= 2 * Interval THEN Interval ELSE due + Interval

\* Mutations of Rotated: no insert, and no erase (the insert then does nothing).
RotatedAway(q) == Tail(q)
NotRotated(q) == q

\* erase(key), insert({key, item}): the front queue moves to the back.
Rotated(q) == Append(Tail(q), Head(q))

\* The check that holds a queue back.
NotDue(due) == due # Unset /\ due >= Slack

-----------------------------------------------------------------------------
(* Threads                                                                 *)

ClientStates    == {"out", "in", "closing", "joining", "joined", "deleted"}
ProcessorStates == {"out", "waiting", "top", "locked", "popped", "unsent",
                    "timed", "asleep", "leaving"}

Move(t, from, to) == pc[t] = from /\ pc' = [pc EXCEPT ![t] = to]

\* Some client has begun manager::destroy.
Released ==
  \E c \in Clients : pc[c] \in {"closing", "joining", "joined", "deleted"}

Deleted == \E c \in Clients : pc[c] = "deleted"

\* Past mutex_lock(manager->process_lock).
InLoop(p) == pc[p] \notin {"out", "waiting"}

Crashed == \E t \in Threads : pc[t] = "crashed"

Init ==
  /\ queues = <<>>
  /\ items = [k \in Keys |-> None]
  /\ addrinfos = {}
  /\ lock = None
  /\ process_lock = None
  /\ shutting_down = FALSE
  /\ pc = [t \in Threads |-> "out"]
  /\ unsent = [p \in Processors |-> None]
  /\ wait = [p \in Processors |-> 0]
  /\ lag = [p \in Processors |-> 0]

-----------------------------------------------------------------------------
(* Client calls: take lock, do the work, release lock.                     *)

\* mutex_lock(manager->lock) at the start of a call.  The caller starts no
\* call once it has begun to destroy the manager.
Enter(c) ==
  /\ ~Released
  /\ lock = None
  /\ lock' = c
  /\ Move(c, "out", "in")
  /\ UNCHANGED <<queues, items, addrinfos, process_lock, shutting_down, rounds>>

Return(c) ==
  /\ Move(c, "in", "out")
  /\ lock' = None
  /\ UNCHANGED <<process_lock, shutting_down, rounds>>

\* queue::push on a key that has a queue: address and socket are ignored.
PushExisting(c, k, x) ==
  /\ Return(c)
  /\ k \in Mapped
  /\ items' = [items EXCEPT ![k] = Pushed(@, x)]
  /\ UNCHANGED <<queues, addrinfos>>

\* queue::push on a key that has none: resolve the address, add the queue at
\* the back, then push.  With capacity zero the queue stays and the push fails.
PushNew(c, k, x) ==
  /\ Return(c)
  /\ k \notin Mapped
  /\ \E a \in Resolved :
       /\ items' = [items EXCEPT ![k] = Pushed(NewItem(a), x)]
       /\ addrinfos' = addrinfos \cup ({a} \ {NULL})
  /\ queues' = Append(queues, k)

\* Mutation of Remove: deleteQueue erases the queue and frees the address.
RemoveAtOnce(c, k) ==
  /\ Return(c)
  /\ queues' = SelectSeq(queues, LAMBDA l : l # k)
  /\ items' = [items EXCEPT ![k] = None]
  /\ addrinfos' = IF k \in Mapped THEN Freed(items[k].address) ELSE addrinfos

\* queue::remove: the packets go, the queue itself is left to the processor.
Remove(c, k) ==
  /\ Return(c)
  /\ items' = IF k \in Mapped
              THEN [items EXCEPT ![k].buffer = Drain(@)]
              ELSE items
  /\ UNCHANGED <<queues, addrinfos>>

\* Mutation of Remaining: the packets in the queue are not counted.
RemainingNominal(k) == Capacity

\* What get_remaining_capacity answers.
Remaining(k) ==
  IF k \in Mapped THEN Capacity - items[k].buffer.size ELSE Capacity

GetRemainingCapacity(c, k) ==
  /\ Return(c)
  /\ UNCHANGED table

ClientStep(c) ==
  \/ \E k \in Keys, x \in Packets : PushExisting(c, k, x) \/ PushNew(c, k, x)
  \/ \E k \in Keys : Remove(c, k) \/ GetRemainingCapacity(c, k)

-----------------------------------------------------------------------------
(* manager::destroy                                                        *)

\* The caller's side of the contract: no other call is in progress, except that
\* a processing thread may be inside the loop.  None may wait for process_lock
\* still, as destroy waits for the thread that holds it only, and would take the
\* mutex down under the others.  Then mutex_lock(lock).
DestroyLock(c) ==
  /\ ~Released
  /\ \A d \in Clients : pc[d] = "out"
  /\ \A p \in Processors : pc[p] # "waiting"
  /\ lock = None
  /\ lock' = c
  /\ Move(c, "out", "closing")
  /\ UNCHANGED <<table, process_lock, shutting_down, rounds>>

DestroySignal(c) ==
  /\ Move(c, "closing", "joining")
  /\ shutting_down' = TRUE
  /\ lock' = None
  /\ UNCHANGED <<table, process_lock, rounds>>

\* Mutation of DestroyJoin: process_lock is not waited for.
DestroyJoinAtOnce(c) ==
  /\ Move(c, "joining", "joined")
  /\ process_lock' = c
  /\ UNCHANGED <<table, lock, shutting_down, rounds>>

\* mutex_lock(manager->process_lock) waits until the loop has ended.
DestroyJoin(c) ==
  /\ Move(c, "joining", "joined")
  /\ process_lock = None
  /\ process_lock' = c
  /\ UNCHANGED <<table, lock, shutting_down, rounds>>

\* Release process_lock, destroy the mutexes, delete the manager.  The items go
\* with it; their addrinfo structures are not freed.
DestroyFree(c) ==
  /\ Move(c, "joined", "deleted")
  /\ process_lock' = None
  /\ queues' = <<>>
  /\ items' = [k \in Keys |-> None]
  /\ UNCHANGED <<addrinfos, lock, shutting_down, rounds>>

DestroyStep(c) ==
  DestroySignal(c) \/ DestroyJoin(c) \/ DestroyFree(c)

-----------------------------------------------------------------------------
(* manager::process_with_socket                                            *)

\* Mutation of KeepRunning: the flag is not looked at.
KeepRunningAnyway == TRUE

\* Mutation of EnterProcess: the loop is entered without process_lock.
EnterUnlocked(p) ==
  /\ process_lock' = p
  /\ Move(p, "waiting", "top")
  /\ UNCHANGED <<table, lock, shutting_down, rounds>>

\* What the loop looks at under lock, at the top of every round.
KeepRunning == ~shutting_down

\* The call of process, as far as mutex_lock(manager->process_lock).
AwaitProcess(p) ==
  /\ ~Released
  /\ Move(p, "out", "waiting")
  /\ UNCHANGED <<table, lock, process_lock, shutting_down, rounds>>

\* process_lock is granted to one of those that wait for it.
EnterProcess(p) ==
  /\ process_lock = None
  /\ process_lock' = p
  /\ Move(p, "waiting", "top")
  /\ UNCHANGED <<table, lock, shutting_down, rounds>>

LockManager(p) ==
  /\ lock = None
  /\ lock' = p
  /\ Move(p, "top", "locked")
  /\ UNCHANGED <<table, process_lock, shutting_down, rounds>>

Stop(p) ==
  /\ Move(p, "locked", "leaving")
  /\ shutting_down
  /\ lock' = None
  /\ UNCHANGED <<table, process_lock, shutting_down, rounds>>

LeaveProcess(p) ==
  /\ Move(p, "leaving", "out")
  /\ process_lock' = None
  /\ UNCHANGED <<table, lock, shutting_down, rounds>>

\* A round that takes no packet: release lock with a target time and the
\* current_time read at the start of the round.
NothingToSend(p, target) ==
  /\ Move(p, "locked", "timed")
  /\ KeepRunning
  /\ lock' = None
  /\ wait' = [wait EXCEPT ![p] = target]
  /\ UNCHANGED <<process_lock, shutting_down, unsent, lag>>

\* No queue at all.
Idle(p) ==
  /\ queues = <<>>
  /\ NothingToSend(p, Interval)
  /\ UNCHANGED table

\* Mutation of Reap: an empty queue takes its turn and stays.
ReapByRotating(p) ==
  /\ queues # <<>>
  /\ items[Head(queues)].buffer.size = 0
  /\ queues' = Rotated(queues)
  /\ NothingToSend(p, Target(queues', items))
  /\ UNCHANGED <<items, addrinfos>>

\* The front queue is empty: erase it and free its address.
Reap(p) ==
  /\ queues # <<>>
  /\ items[Head(queues)].buffer.size = 0
  /\ queues' = Tail(queues)
  /\ items' = [items EXCEPT ![Head(queues)] = None]
  /\ addrinfos' = Freed(items[Head(queues)].address)
  /\ NothingToSend(p, Target(queues', items'))

\* The front queue is not due yet.
HoldBack(p) ==
  /\ queues # <<>>
  /\ items[Head(queues)].buffer.size > 0
  /\ NotDue(items[Head(queues)].due)
  /\ NothingToSend(p, items[Head(queues)].due)
  /\ UNCHANGED table

\* Take the front packet of the front queue and move that queue to the back.
Serve(p) ==
  LET k == Head(queues)
  IN  /\ Move(p, "locked", "popped")
      /\ KeepRunning
      /\ queues # <<>>
      /\ items[k].buffer.size > 0
      /\ ~NotDue(items[k].due)
      /\ unsent' = [unsent EXCEPT ![p] = [key     |-> k,
                                         packet  |-> Front(items[k].buffer),
                                         address |-> items[k].address]]
      /\ items' = [items EXCEPT ![k] = Served(items[k])]
      /\ queues' = Rotated(queues)
      /\ lag' = [lag EXCEPT ![p] = 0]
      /\ UNCHANGED <<addrinfos, lock, process_lock, shutting_down, wait>>

\* The second clock read: give the served queue its next due time and release
\* lock.  A packet without bytes is not sent, and the wait is then measured
\* from the first clock read.
Reschedule(p) ==
  LET k     == unsent[p].key
      empty == unsent[p].packet = Empty
  IN  /\ Move(p, "popped", IF empty THEN "timed" ELSE "unsent")
      /\ lock' = None
      /\ items' = [items EXCEPT ![k].due = Rescheduled(@)]
      /\ wait' = [wait EXCEPT ![p] = Target(queues, items')
                                      + (IF empty THEN lag[p] ELSE 0)]
      /\ lag' = [lag EXCEPT ![p] = 0]
      /\ unsent' = IF empty THEN [unsent EXCEPT ![p] = None] ELSE unsent
      /\ UNCHANGED <<queues, addrinfos, process_lock, shutting_down>>

\* dispatch_packet, then the clock read that ends the countdown of wait.
Dispatch(p) ==
  /\ Move(p, "unsent", "timed")
  /\ unsent[p].address # NULL
  /\ unsent' = [unsent EXCEPT ![p] = None]
  /\ UNCHANGED <<table, locks, shutting_down, wait, lag>>

\* unsent_packet.address->ai_family on an address that was never resolved.
Crash(p) ==
  /\ pc[p] = "unsent"
  /\ unsent[p].address = NULL
  /\ pc' = [t \in Threads |-> "crashed"]
  /\ UNCHANGED <<table, locks, shutting_down, rounds>>

Loop(p) ==
  /\ Move(p, "timed", "top")
  /\ wait[p] < Slack
  /\ wait' = [wait EXCEPT ![p] = 0]
  /\ UNCHANGED <<table, locks, shutting_down, unsent, lag>>

Sleep(p) ==
  /\ Move(p, "timed", "asleep")
  /\ wait[p] >= Slack
  /\ UNCHANGED <<table, locks, shutting_down, rounds>>

Wake(p) ==
  /\ Move(p, "asleep", "top")
  /\ wait[p] <= 0
  /\ wait' = [wait EXCEPT ![p] = 0]
  /\ UNCHANGED <<table, locks, shutting_down, unsent, lag>>

\* The steps a processing thread takes without waiting for a mutex.
ProcessorStep(p) ==
  \/ Stop(p) \/ LeaveProcess(p)
  \/ Idle(p) \/ Reap(p) \/ HoldBack(p) \/ Serve(p) \/ Reschedule(p)
  \/ Dispatch(p) \/ Crash(p) \/ Loop(p) \/ Sleep(p) \/ Wake(p)

-----------------------------------------------------------------------------
(* The clock                                                               *)

\* Whether the wait of p is still to be measured: the clock read that ends it
\* comes after the packet is sent.
Measured(p) == pc[p] = "unsent"

\* One tick passes.  MaxLag bounds how long a thread stays between the two
\* clock reads of a round, where it holds lock and waits for nobody.
Tick ==
  /\ \A p \in Processors : pc[p] = "popped" => lag[p] < MaxLag
  /\ items' = [k \in Keys |->
                 IF items[k] = None \/ items[k].due = Unset THEN items[k]
                 ELSE [items[k] EXCEPT !.due = Later(@)]]
  /\ wait' = [p \in Processors |->
                IF Measured(p) \/ pc[p] = "asleep" THEN Later(wait[p]) ELSE wait[p]]
  /\ lag' = [p \in Processors |->
               IF pc[p] = "popped" THEN lag[p] + 1 ELSE lag[p]]
  /\ UNCHANGED <<queues, addrinfos, locks, shutting_down, pc, unsent>>

\* std::chrono::system_clock is set forward (d > 0) or back (d < 0): due times
\* move, a sleep that has begun does not.  Bounds: the clock is set back only
\* while no due time or target has been rounded to Past, and no due time goes
\* beyond MaxDue.
ClockStep(d) ==
  /\ \A k \in Mapped : items[k].due # Unset =>
        /\ d < 0 => items[k].due > Past
        /\ items[k].due - d <= MaxDue
  /\ \A p \in Processors :
        /\ Measured(p) /\ d < 0 => wait[p] > Past
        /\ pc[p] = "popped" => lag[p] + d \in -MaxLag .. MaxLag
  /\ items' = [k \in Keys |->
                 IF items[k] = None \/ items[k].due = Unset THEN items[k]
                 ELSE [items[k] EXCEPT !.due = Shift(@, d)]]
  /\ wait' = [p \in Processors |->
                IF Measured(p) THEN Shift(wait[p], d) ELSE wait[p]]
  /\ lag' = [p \in Processors |->
               IF pc[p] = "popped" THEN lag[p] + d ELSE lag[p]]
  /\ UNCHANGED <<queues, addrinfos, locks, shutting_down, pc, unsent>>

-----------------------------------------------------------------------------
Next ==
  \/ \E c \in Clients : Enter(c) \/ ClientStep(c) \/ DestroyLock(c) \/ DestroyStep(c)
  \/ \E p \in Processors :
       AwaitProcess(p) \/ EnterProcess(p) \/ LockManager(p) \/ ProcessorStep(p)
  \/ Tick
  \/ \E d \in ClockSteps : ClockStep(d)

Spec == Init /\ [][Next]_vars

\* What the scheduler owes: threads that run go on, time passes, and a thread
\* that contends for a mutex is not passed over for ever.
Fairness ==
  /\ WF_vars(Tick)
  /\ \A c \in Clients : /\ WF_vars(ClientStep(c))
                        /\ WF_vars(DestroySignal(c))
                        /\ SF_vars(DestroyJoin(c))
                        /\ WF_vars(DestroyFree(c))
  /\ \A p \in Processors : /\ WF_vars(AwaitProcess(p))
                           /\ WF_vars(EnterProcess(p))
                           /\ SF_vars(LockManager(p))
                           /\ WF_vars(ProcessorStep(p))

FairSpec == Spec /\ Fairness

-----------------------------------------------------------------------------
(* Safety                                                                  *)

\* Every variable has its type.
TypeOK ==
  /\ queues \in Seq(Keys)
  /\ items \in [Keys -> Item \cup {None}]
  /\ addrinfos \subseteq Handles
  /\ lock \in Threads \cup {None}
  /\ process_lock \in Threads \cup {None}
  /\ shutting_down \in BOOLEAN
  /\ pc \in [Threads -> ClientStates \cup ProcessorStates \cup {"crashed"}]
  /\ \A c \in Clients : pc[c] \in ClientStates \cup {"crashed"}
  /\ \A p \in Processors : pc[p] \in ProcessorStates \cup {"crashed"}
  /\ unsent \in [Processors -> Unsent \cup {None}]
  /\ wait \in [Processors -> Int]
  /\ lag \in [Processors -> Int]

\* The ordered map lists every queue exactly once: a queue that is reaped,
\* created again, or moved to the back is neither lost from the rotation nor
\* in it twice (erase and insert of process_next_locked, insert of push_locked).
RotationComplete ==
  /\ \A i, j \in DOMAIN queues : queues[i] = queues[j] => i = j
  /\ {queues[i] : i \in DOMAIN queues} = Mapped

\* Until the manager is deleted the addrinfo structures that are allocated are
\* those of the queues, and no two queues share one: none is leaked when a queue
\* is reaped, and none is freed twice.
AddressesOwned ==
  ~Deleted =>
    /\ addrinfos = {items[k].address : k \in Mapped} \ {NULL}
    /\ \A k, l \in Mapped :
         items[k].address = items[l].address => k = l \/ items[k].address = NULL

\* The address a processing thread reads after it has released lock is still
\* allocated, and it is the one of the queue the packet was queued on, whatever
\* the clients have done to that queue in between.
DispatchAddressLive ==
  \A p \in Processors :
    pc[p] = "unsent" /\ unsent[p].address # NULL =>
      /\ unsent[p].address \in addrinfos
      /\ unsent[p].key \in Mapped
      /\ items[unsent[p].key].address = unsent[p].address

\* When destroy frees the manager no thread is inside a call or inside the
\* processing loop, and no processing thread waits for either of the mutexes.
NoUseAfterDelete ==
  \A c \in Clients :
    pc[c] = "deleted" => \A t \in Threads \ {c} : pc[t] = "out"

\* At most one thread is inside the processing loop, and it alone carries a
\* packet; destroy gets past its wait only when there is none.
OneProcessor ==
  \A p, q \in Processors :
    InLoop(p) /\ (unsent[q] # None \/ InLoop(q)) => p = q \/ Crashed

\* Without clock adjustments a wait always covers the front queue's due time: a
\* thread that has slept never finds that queue too early, so that a round is
\* never wasted and no packet goes out more than Slack ahead of its due time.
NeverEarly ==
  \A p \in Processors :
    pc[p] \in {"top", "locked"} /\ ~shutting_down /\ queues # <<>> =>
      ~NotDue(items[Head(queues)].due)

\* Without clock adjustments catching up never books a queue further ahead than
\* an interval and the slack, and no sleep is longer than that by more than the
\* time between the two clock reads.
BookedAhead ==
  /\ \A k \in Mapped : items[k].due # Unset => items[k].due < Interval + Slack
  /\ \A p \in Processors : wait[p] < Interval + Slack + MaxLag

\* Once shutting_down is set the loop takes no further packet, and it neither
\* rotates nor reaps a queue: all that may still happen is the sending of the
\* packet the thread already carries.
QuietShutdown ==
  [][shutting_down /\ ~Deleted' =>
       /\ queues' = queues
       /\ addrinfos' = addrinfos
       /\ \A p \in Processors : unsent'[p] \in {unsent[p], None}]_vars

\* What the comment in queue::push says (Queue.h:98-100): the bytes of a packet
\* are given up only when the push is refused.  An accepted packet would then
\* reach its turn with its bytes.  It does not: see the run udpqueue_loss.
AcceptedPacketsKept ==
  Empty \notin Packets =>
    \A p \in Processors : unsent[p] # None => unsent[p].packet # Empty

-----------------------------------------------------------------------------
(* Liveness, under FairSpec                                                *)

Waiting(k) == k \in Mapped /\ items[k].buffer.size > 0

Taken(k) == \E p \in Processors : unsent[p] # None /\ unsent[p].key = k

\* The system clock is not set back again and again for ever, which would make
\* every queue wait for ever.
ClockSettles == <>[][\A d \in ClockSteps : d < 0 => ~ClockStep(d)]_vars

\* A queue that holds packets is served in its turn, however often the other
\* queues are filled and the clock is set forward, unless a client deletes it or
\* the manager is destroyed, or the process crashes on an address.
EventuallyServed ==
  ClockSettles =>
    \A k \in Keys :
      Waiting(k) ~> Taken(k) \/ ~Waiting(k) \/ shutting_down \/ Crashed

\* A queue left without packets does not stay in the map for ever: it is reaped,
\* or it gets packets again.
EventuallyReaped ==
  ClockSettles =>
    \A k \in Keys :
      k \in Mapped /\ ~Waiting(k) ~>
        k \notin Mapped \/ Waiting(k) \/ shutting_down \/ Crashed

\* A destroy that has begun comes to its end: the loop sees shutting_down, however
\* long its sleep and whatever happens to the clock, and releases process_lock.
DestroyCompletes == Released ~> Deleted \/ Crashed
=============================================================================
