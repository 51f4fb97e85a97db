--------------------------- MODULE UdpQueueProofs ---------------------------
(***************************************************************************)
(* Invariants of UdpQueue for every set of keys, clients and processing    *)
(* threads, every capacity and every interval.                             *)
(***************************************************************************)
EXTENDS UdpQueue, PacketBufferProofs

-----------------------------------------------------------------------------
(* Items and times                                                         *)

\* None, the content of an absent key, is neither a queue nor a packet.
LEMMA NoneIsNoItem == /\ \A i \in Item : i # None
                      /\ \A u \in Unsent : u # None
BY NoneAssumption

\* A queue that push_locked has just made is well formed.
LEMMA NewItemType ==
  ASSUME NEW a \in Handles \cup {NULL}
  PROVE  NewItem(a) \in Item /\ NewItem(a).address = a
BY NewBufferType DEF NewItem, Item

\* A push, accepted or not, leaves an item with the same address (push_locked).
LEMMA PushedType ==
  ASSUME NEW i \in Item, NEW x \in Packets
  PROVE  /\ Pushed(i, x) \in Item
         /\ Pushed(i, x).address = i.address
         /\ Pushed(i, x).due = i.due
<1>1. i.buffer \in Buffer /\ x \in Contained
  BY DEF Item, Contained
<1>2. CASE IsFull(i.buffer)
  BY <1>2 DEF Pushed
<1>3. CASE ~IsFull(i.buffer)
  <2>1. Put(i.buffer, x) \in Buffer
    BY <1>1, <1>3, PutType
  <2> QED
    BY <1>3, <2>1 DEF Pushed, Item
<1> QED
  BY <1>2, <1>3

\* What the clock and the rescheduling of process_next_locked yield are times.
LEMMA TimeTypes ==
  /\ Past \in Int
  /\ \A t \in Int : Later(t) \in Int
  /\ \A t \in Int, d \in Int : Shift(t, d) \in Int
  /\ \A t \in Int : Rescheduled(t) \in Int
BY TimeAssumption DEF Past, Later, Shift, Rescheduled

\* The front of a rotation that is not empty is a key.
LEMMA HeadType == ASSUME TypeOK, queues # <<>> PROVE Head(queues) \in Keys
BY HeadTailProperties DEF TypeOK

-----------------------------------------------------------------------------
(* Type correctness                                                        *)

\* create leaves every variable with its type.
LEMMA InitType == Init => TypeOK
<1> SUFFICES ASSUME Init PROVE TypeOK
  OBVIOUS
<1>1. queues \in Seq(Keys)
  BY EmptySeq DEF Init
<1>2. items \in [Keys -> Item \cup {None}] /\ addrinfos \subseteq Handles
  BY DEF Init
<1>3. /\ lock \in Threads \cup {None} /\ process_lock \in Threads \cup {None}
      /\ shutting_down \in BOOLEAN
  BY DEF Init
<1>4. /\ pc \in [Threads -> ClientStates \cup ProcessorStates \cup {"crashed"}]
      /\ \A c \in Clients : pc[c] \in ClientStates \cup {"crashed"}
      /\ \A p \in Processors : pc[p] \in ProcessorStates \cup {"crashed"}
  BY DEF Init, Threads, ClientStates, ProcessorStates
<1>5. /\ unsent \in [Processors -> Unsent \cup {None}]
      /\ wait \in [Processors -> Int] /\ lag \in [Processors -> Int]
  BY DEF Init
<1> QED
  BY <1>1, <1>2, <1>3, <1>4, <1>5 DEF TypeOK

\* Taking a packet off a queue that has one keeps its address (pop).
LEMMA ServedType ==
  ASSUME NEW i \in Item, i.buffer.size > 0
  PROVE  Served(i) \in Item /\ Served(i).address = i.address
<1>1. Pop(i.buffer) \in Buffer
  BY PopType DEF Item
<1> QED
  BY <1>1 DEF Served, Item

\* A due time may be set to any time.
LEMMA DueType ==
  ASSUME NEW i \in Item, NEW t \in Int
  PROVE  /\ [i EXCEPT !.due = t] \in Item
         /\ [i EXCEPT !.due = t].address = i.address
BY DEF Item

\* A queue in the rotation has an item as soon as the front is one that does.
LEMMA MappedItem == ASSUME TypeOK, NEW k \in Mapped PROVE k \in Keys /\ items[k] \in Item
BY DEF TypeOK, Mapped

-----------------------------------------------------------------------------
(* Who is where: the part of the invariant that does not look at the queues *)

ControlType ==
  /\ lock \in Threads \cup {None}
  /\ process_lock \in Threads \cup {None}
  /\ shutting_down \in BOOLEAN
  /\ pc \in [Threads -> ClientStates \cup ProcessorStates \cup {"crashed"}]
  /\ \A c \in Clients : pc[c] \in ClientStates \cup {"crashed"}
  /\ \A p \in Processors : pc[p] \in ProcessorStates \cup {"crashed"}

\* A thread that is inside a critical section owns its mutex.
Exclusion ==
  /\ \A t \in Threads : pc[t] \in {"in", "closing", "locked", "popped"} => lock = t
  /\ \A p \in Processors : pc[p] \notin {"out", "waiting", "crashed"} => process_lock = p
  /\ \A c \in Clients : pc[c] = "joined" => process_lock = c

\* While one client destroys the manager the others are out and no processing
\* thread waits to enter, once it has freed it the processing threads are out too,
\* and shutting_down tells them to leave.  A crash takes every thread with it.
Destroying ==
  /\ \A c, d \in Clients :
       pc[c] \in {"closing", "joining", "joined", "deleted"} /\ d # c => pc[d] = "out"
  /\ Released => \A p \in Processors : pc[p] # "waiting"
  /\ \A c \in Clients :
       pc[c] = "deleted" => \A p \in Processors : pc[p] = "out"
  /\ shutting_down => Crashed \/ \E c \in Clients :
                                  pc[c] \in {"joining", "joined", "deleted"}
  /\ Crashed => \A t \in Threads : pc[t] = "crashed"

ControlInv == ControlType /\ Exclusion /\ Destroying

\* Before the first call nobody is inside the manager and both mutexes are free.
LEMMA ControlInit == Init => ControlInv
<1> SUFFICES ASSUME Init PROVE ControlInv
  OBVIOUS
<1>1. \A t \in Threads : pc[t] = "out"
  BY DEF Init
<1>2. ControlType
  BY <1>1 DEF Init, ControlType, Threads, ClientStates, ProcessorStates
<1>3. Exclusion /\ Destroying
  BY <1>1 DEF Init, Exclusion, Destroying, Threads, Released, Crashed
<1> QED
  BY <1>2, <1>3 DEF ControlInv

\* A step of one thread from one place to another, where it takes and releases
\* what the invariant asks for, keeps the invariant.
LEMMA ControlStep == ControlInv /\ [Next]_vars => ControlInv'
<1> SUFFICES ASSUME ControlInv, [Next]_vars PROVE ControlInv'
  OBVIOUS
<1> USE NameAssumption DEF ControlInv, ControlType, Exclusion, Destroying, Threads,
        ClientStates, ProcessorStates, Released, Crashed
<1>1. ASSUME NEW c \in Clients, Enter(c) PROVE ControlInv'
  BY <1>1 DEF Enter, Move
<1>2. ASSUME NEW c \in Clients, ClientStep(c) PROVE ControlInv'
  <2>1. Return(c)
    BY <1>2 DEF ClientStep, PushExisting, PushNew, Remove, GetRemainingCapacity
  <2> QED
    BY <2>1 DEF Return, Move
<1>3. ASSUME NEW c \in Clients, DestroyLock(c) PROVE ControlInv'
  BY <1>3 DEF DestroyLock, Move
<1>4. ASSUME NEW c \in Clients, DestroyStep(c) PROVE ControlInv'
  <2>1. CASE DestroySignal(c)
    BY <2>1 DEF DestroySignal, Move
  <2>2. CASE DestroyJoin(c)
    BY <2>2 DEF DestroyJoin, Move
  <2>3. CASE DestroyFree(c)
    BY <2>3 DEF DestroyFree, Move
  <2> QED
    BY <1>4, <2>1, <2>2, <2>3 DEF DestroyStep
<1>5. ASSUME NEW p \in Processors, AwaitProcess(p) \/ EnterProcess(p) \/ LockManager(p)
      PROVE  ControlInv'
  <2>0. CASE AwaitProcess(p)
    BY <2>0 DEF AwaitProcess, Move
  <2>1. CASE EnterProcess(p)
    BY <2>1 DEF EnterProcess, Move
  <2>2. CASE LockManager(p)
    BY <2>2 DEF LockManager, Move
  <2> QED
    BY <1>5, <2>0, <2>1, <2>2
<1>6. ASSUME NEW p \in Processors, ProcessorStep(p) PROVE ControlInv'
  <2>1. CASE Stop(p)
    BY <2>1 DEF Stop, Move
  <2>2. CASE LeaveProcess(p)
    BY <2>2 DEF LeaveProcess, Move
  <2>3. CASE Idle(p) \/ Reap(p) \/ HoldBack(p)
    BY <2>3 DEF Idle, Reap, HoldBack, NothingToSend, Move
  <2>4. CASE Serve(p)
    BY <2>4 DEF Serve, Move
  <2>5. CASE Reschedule(p)
    BY <2>5 DEF Reschedule, Move
  <2>6. CASE Dispatch(p) \/ Loop(p) \/ Sleep(p) \/ Wake(p)
    BY <2>6 DEF Dispatch, Loop, Sleep, Wake, Move, locks
  <2>7. CASE Crash(p)
    BY <2>7 DEF Crash, locks
  <2> QED
    BY <1>6, <2>1, <2>2, <2>3, <2>4, <2>5, <2>6, <2>7 DEF ProcessorStep
<1>7. CASE Tick
  BY <1>7 DEF Tick, locks
<1>8. ASSUME NEW d \in ClockSteps, ClockStep(d) PROVE ControlInv'
  BY <1>8 DEF ClockStep, locks
<1>9. CASE UNCHANGED vars
  BY <1>9 DEF vars
<1> QED
  BY <1>1, <1>2, <1>3, <1>4, <1>5, <1>6, <1>7, <1>8, <1>9 DEF Next

-----------------------------------------------------------------------------
(* Sequences that list the members of a set, each of them once             *)

Lists(q, S) ==
  /\ \A i, j \in DOMAIN q : q[i] = q[j] => i = j
  /\ {q[i] : i \in DOMAIN q} = S

\* insert: a key that is not in the ordered map goes to the back.
LEMMA ListsAppend ==
  ASSUME NEW K, NEW q \in Seq(K), NEW S, Lists(q, S), NEW k \in K, k \notin S
  PROVE  Append(q, k) \in Seq(K) /\ Lists(Append(q, k), S \cup {k})
<1> DEFINE r == Append(q, k)
<1>1. /\ r \in Seq(K) /\ Len(r) = Len(q) + 1 /\ Len(q) \in Nat
      /\ \A i \in 1 .. Len(q) : r[i] = q[i]
      /\ r[Len(q) + 1] = k
      /\ DOMAIN r = 1 .. Len(r) /\ DOMAIN q = 1 .. Len(q)
  BY AppendProperties, LenProperties
<1> HIDE DEF r
<1>2. \A i \in 1 .. Len(q) : q[i] # k
  BY <1>1 DEF Lists
<1>3. \A i, j \in DOMAIN r : r[i] = r[j] => i = j
  <2> SUFFICES ASSUME NEW i \in DOMAIN r, NEW j \in DOMAIN r, r[i] = r[j]
               PROVE  i = j
    OBVIOUS
  <2>1. (i \in 1 .. Len(q) \/ i = Len(q) + 1) /\ (j \in 1 .. Len(q) \/ j = Len(q) + 1)
    BY <1>1
  <2> QED
    BY <1>1, <1>2, <2>1 DEF Lists
<1>4. {r[i] : i \in DOMAIN r} = S \cup {k}
  <2>1. \A i \in DOMAIN r : i \in DOMAIN q \/ i = Len(q) + 1
    BY <1>1
  <2>2. \A i \in DOMAIN q : i \in DOMAIN r /\ r[i] = q[i]
    BY <1>1
  <2>3. Len(q) + 1 \in DOMAIN r
    BY <1>1
  <2> QED
    BY <1>1, <2>1, <2>2, <2>3 DEF Lists
<1> QED
  BY <1>1, <1>3, <1>4 DEF Lists, r

\* erase: the front of the ordered map.
LEMMA ListsTail ==
  ASSUME NEW K, NEW q \in Seq(K), NEW S, Lists(q, S), q # <<>>
  PROVE  /\ Head(q) \in S /\ Head(q) \in K
         /\ Tail(q) \in Seq(K)
         /\ Lists(Tail(q), S \ {Head(q)})
<1> DEFINE r == Tail(q)
           h == Head(q)
<1>1. /\ r \in Seq(K) /\ Len(r) = Len(q) - 1
      /\ \A i \in 1 .. Len(r) : r[i] = q[i + 1]
      /\ h \in K
  BY HeadTailProperties
<1>2. /\ DOMAIN r = 1 .. Len(r) /\ DOMAIN q = 1 .. Len(q)
      /\ Len(q) \in Nat \ {0} /\ h = q[1]
  BY <1>1, EmptySeq, LenProperties
<1> HIDE DEF r, h
<1>3. h \in S
  BY <1>2 DEF Lists
<1>4. \A i \in DOMAIN r : i + 1 \in DOMAIN q /\ i + 1 # 1 /\ r[i] = q[i + 1]
  BY <1>1, <1>2
<1>5. \A i, j \in DOMAIN r : r[i] = r[j] => i = j
  <2> SUFFICES ASSUME NEW i \in DOMAIN r, NEW j \in DOMAIN r, r[i] = r[j]
               PROVE  i = j
    OBVIOUS
  <2>1. i + 1 = j + 1
    BY <1>4 DEF Lists
  <2> QED
    BY <1>1, <1>2, <2>1
<1>6. {r[i] : i \in DOMAIN r} = S \ {h}
  <2>1. ASSUME NEW i \in DOMAIN r PROVE r[i] \in S \ {h}
    BY <1>2, <1>4 DEF Lists
  <2>2. ASSUME NEW x \in S, x # h PROVE \E i \in DOMAIN r : x = r[i]
    <3>1. PICK j \in DOMAIN q : x = q[j]
      BY DEF Lists
    <3>2. j # 1 /\ j - 1 \in DOMAIN r /\ (j - 1) + 1 = j
      BY <1>1, <1>2, <2>2, <3>1
    <3> QED
      BY <1>4, <3>1, <3>2
  <2> QED
    BY <2>1, <2>2
<1> QED
  BY <1>1, <1>3, <1>5, <1>6 DEF Lists, r, h

\* erase and insert of process_next_locked: the front goes to the back.
LEMMA ListsRotate ==
  ASSUME NEW K, NEW q \in Seq(K), NEW S, Lists(q, S), q # <<>>
  PROVE  /\ Append(Tail(q), Head(q)) \in Seq(K)
         /\ Lists(Append(Tail(q), Head(q)), S)
<1>1. /\ Head(q) \in S /\ Head(q) \in K /\ Tail(q) \in Seq(K)
      /\ Lists(Tail(q), S \ {Head(q)})
  BY ListsTail
<1>2. /\ Append(Tail(q), Head(q)) \in Seq(K)
      /\ Lists(Append(Tail(q), Head(q)), (S \ {Head(q)}) \cup {Head(q)})
  BY <1>1, ListsAppend
<1>3. (S \ {Head(q)}) \cup {Head(q)} = S
  BY <1>1
<1> QED
  BY <1>2, <1>3

-----------------------------------------------------------------------------
(* The queues, their addresses and the packets on their way                *)

TableType ==
  /\ queues \in Seq(Keys)
  /\ items \in [Keys -> Item \cup {None}]
  /\ addrinfos \subseteq Handles

RoundType ==
  /\ unsent \in [Processors -> Unsent \cup {None}]
  /\ wait \in [Processors -> Int]
  /\ lag \in [Processors -> Int]

\* A thread carries a packet only between the pop and the dispatch; the queue it
\* took it from is still there, with the same address and, until the second
\* clock read, with a due time to count from.
Carrying ==
  \A p \in Processors :
    /\ unsent[p] # None => pc[p] \in {"popped", "unsent", "crashed"}
    /\ pc[p] \in {"popped", "unsent"} =>
         /\ unsent[p] \in Unsent
         /\ unsent[p].key \in Mapped
         /\ items[unsent[p].key].address = unsent[p].address
    /\ pc[p] = "popped" => items[unsent[p].key].due \in Int

TableInv == TableType /\ RoundType /\ Lists(queues, Mapped) /\ AddressesOwned /\ Carrying

IInv == ControlInv /\ TableInv

\* What the inductive invariant says of the queues and their addresses.
LEMMA IInvMeaning == IInv => /\ TypeOK
                             /\ RotationComplete
                             /\ AddressesOwned
BY DEF IInv, ControlInv, TableInv, TypeOK, ControlType, TableType, RoundType,
   RotationComplete, Lists, AddressesOwned

\* create leaves no queue, no address and no packet behind.
LEMMA TableInit == Init => TableInv
<1> SUFFICES ASSUME Init PROVE TableInv
  OBVIOUS
<1>1. TableType /\ RoundType
  BY InitType DEF TypeOK, TableType, RoundType
<1>2. Mapped = {}
  BY DEF Init, Mapped
<1>3. Lists(queues, Mapped)
  BY <1>2 DEF Init, Lists
<1>4. AddressesOwned
  BY <1>2 DEF Init, AddressesOwned
<1>5. Carrying
  BY DEF Init, Carrying, Threads
<1> QED
  BY <1>1, <1>3, <1>4, <1>5 DEF TableInv

\* A deleted manager stays deleted.
LEMMA DeletedStays == ControlInv /\ [Next]_vars /\ Deleted => Deleted'
<1> SUFFICES ASSUME ControlInv, [Next]_vars, NEW e \in Clients, pc[e] = "deleted"
             PROVE  pc'[e] = "deleted"
  BY DEF Deleted
<1>1. \A p \in Processors : pc[p] = "out"
  BY DEF ControlInv, Destroying
<1>2. ASSUME NEW t \in Threads, NEW from, NEW to, Move(t, from, to), from # "deleted"
      PROVE  pc'[e] = "deleted"
  BY <1>2 DEF Move, ControlInv, ControlType, Threads
<1>3. ASSUME NEW c \in Clients, Enter(c) \/ ClientStep(c) PROVE pc'[e] = "deleted"
  BY <1>2, <1>3 DEF Enter, ClientStep, PushExisting, PushNew, Remove,
     GetRemainingCapacity, Return, Threads
<1>4. ASSUME NEW c \in Clients, DestroyLock(c) \/ DestroyStep(c) PROVE pc'[e] = "deleted"
  BY <1>2, <1>4 DEF DestroyLock, DestroyStep, DestroySignal, DestroyJoin, DestroyFree,
     Threads
<1>5. ASSUME NEW p \in Processors, AwaitProcess(p) \/ EnterProcess(p) \/ LockManager(p)
      PROVE  pc'[e] = "deleted"
  BY <1>2, <1>5 DEF AwaitProcess, EnterProcess, LockManager, Threads
<1>6. ASSUME NEW p \in Processors, ProcessorStep(p) PROVE pc'[e] = "deleted"
  BY <1>1, <1>6 DEF ProcessorStep, Stop, LeaveProcess, Idle, Reap, HoldBack,
     NothingToSend, Serve, Reschedule, Dispatch, Crash, Loop, Sleep, Wake, Move
<1>7. CASE Tick
  BY <1>7 DEF Tick
<1>8. ASSUME NEW d \in ClockSteps, ClockStep(d) PROVE pc'[e] = "deleted"
  BY <1>8 DEF ClockStep
<1>9. CASE UNCHANGED vars
  BY <1>9 DEF vars
<1> QED
  BY <1>3, <1>4, <1>5, <1>6, <1>7, <1>8, <1>9 DEF Next

\* What most steps do to the items: none comes or goes, none gets another
\* address, and no due time is unset again.
KeepsItems ==
  /\ items' \in [Keys -> Item \cup {None}]
  /\ addrinfos' = addrinfos
  /\ \A k \in Keys :
       /\ items[k] = None <=> items'[k] = None
       /\ items[k] # None => items'[k].address = items[k].address
       /\ items[k] # None /\ items[k].due \in Int => items'[k].due \in Int

\* A step that neither maps, unmaps nor re-addresses a queue keeps the tables.
LEMMA KeptTable ==
  ASSUME TableInv, KeepsItems, Deleted => Deleted',
         queues' \in Seq(Keys), Lists(queues', Mapped)
  PROVE  TableType' /\ Lists(queues, Mapped)' /\ AddressesOwned' /\ Mapped' = Mapped
<1>1. Mapped' = Mapped /\ \A k \in Mapped : k \in Keys
  BY DEF KeepsItems, Mapped
<1>2. TableType'
  BY DEF KeepsItems, TableInv, TableType
<1>3. Lists(queues, Mapped)'
  BY <1>1 DEF Lists
<1>4. \A k \in Mapped : items'[k].address = items[k].address
  BY DEF KeepsItems, Mapped
<1>5. AddressesOwned'
  BY <1>1, <1>4 DEF AddressesOwned, TableInv, KeepsItems
<1> QED
  BY <1>1, <1>2, <1>3, <1>5

\* A step that moves no packet keeps what is carried.
LEMMA KeptPackets ==
  ASSUME TableInv, KeepsItems, unsent' = unsent,
         \A p \in Processors : \/ pc'[p] = pc[p]
                               \/ /\ pc[p] \notin {"popped", "unsent", "crashed"}
                                  /\ pc'[p] \notin {"popped", "unsent"}
                               \/ pc'[p] = "crashed"
                               \/ pc[p] = "popped" /\ pc'[p] = "unsent"
  PROVE  Carrying'
<1> SUFFICES ASSUME NEW p \in Processors
             PROVE  /\ unsent'[p] # None => pc'[p] \in {"popped", "unsent", "crashed"}
                    /\ pc'[p] \in {"popped", "unsent"} =>
                         /\ unsent'[p] \in Unsent
                         /\ unsent'[p].key \in Mapped'
                         /\ items'[unsent'[p].key].address = unsent'[p].address
                    /\ pc'[p] = "popped" => items'[unsent'[p].key].due \in Int
  BY DEF Carrying
<1>1. /\ unsent[p] # None => pc[p] \in {"popped", "unsent", "crashed"}
      /\ pc[p] \in {"popped", "unsent"} =>
           /\ unsent[p] \in Unsent
           /\ unsent[p].key \in Mapped
           /\ items[unsent[p].key].address = unsent[p].address
      /\ pc[p] = "popped" => items[unsent[p].key].due \in Int
  BY DEF TableInv, Carrying
<1>2. \A k \in Mapped : /\ k \in Mapped'
                        /\ items'[k].address = items[k].address
                        /\ items[k].due \in Int => items'[k].due \in Int
  BY DEF KeepsItems, Mapped
<1> QED
  BY <1>1, <1>2

\* The steps that leave the queues alone, or change due times and packets only.
LEMMA QuietStep ==
  ASSUME IInv, [Next]_vars, KeepsItems, queues' = queues, unsent' = unsent, RoundType',
         \A p \in Processors : \/ pc'[p] = pc[p]
                               \/ /\ pc[p] \notin {"popped", "unsent", "crashed"}
                                  /\ pc'[p] \notin {"popped", "unsent"}
                               \/ pc'[p] = "crashed"
                               \/ pc[p] = "popped" /\ pc'[p] = "unsent"
  PROVE  TableInv'
<1>1. Deleted => Deleted'
  BY DeletedStays DEF IInv
<1>2. queues' \in Seq(Keys) /\ Lists(queues', Mapped)
  BY DEF IInv, TableInv, TableType
<1>3. TableType' /\ Lists(queues, Mapped)' /\ AddressesOwned'
  BY <1>1, <1>2, KeptTable DEF IInv
<1>4. Carrying'
  BY KeptPackets DEF IInv
<1> QED
  BY <1>3, <1>4 DEF TableInv

\* A step that leaves the items and the addresses alone keeps the items.
LEMMA SameTable ==
  ASSUME IInv, UNCHANGED <<items, addrinfos>>
  PROVE  KeepsItems
BY DEF IInv, TableInv, TableType, KeepsItems

\* The front queue has an item.
LEMMA FrontItem ==
  ASSUME IInv, queues # <<>>
  PROVE  Head(queues) \in Keys /\ Head(queues) \in Mapped /\ items[Head(queues)] \in Item
<1>1. Head(queues) \in Mapped
  BY ListsTail DEF IInv, TableInv, TableType
<1> QED
  BY <1>1 DEF IInv, TableInv, TableType, Mapped

\* get_target_time yields a time.
LEMMA TargetType ==
  ASSUME NEW q \in Seq(Keys), NEW i \in [Keys -> Item \cup {None}],
         q # <<>> => i[Head(q)] \in Item
  PROVE  Target(q, i) \in Int
<1>1. Interval \in Int /\ Past \in Int
  BY TimeTypes, TimeAssumption
<1>2. q # <<>> => i[Head(q)].due \in Int \cup {Unset}
  BY DEF Item
<1> QED
  BY <1>1, <1>2 DEF Target

\* What push, remove and get_remaining_capacity do under lock keeps the tables.
LEMMA ClientTableStep ==
  ASSUME IInv, [Next]_vars, NEW c \in Clients, ClientStep(c)
  PROVE  TableInv'
<1>1. /\ \A p \in Processors : pc'[p] = pc[p]
      /\ UNCHANGED <<unsent, wait, lag>>
      /\ pc[c] = "in"
  BY NameAssumption DEF ClientStep, PushExisting, PushNew, Remove,
     GetRemainingCapacity, Return, Move, rounds, IInv, ControlInv, ControlType, Threads
<1>2. RoundType'
  BY <1>1 DEF IInv, TableInv, RoundType
<1>3. TableType /\ Lists(queues, Mapped) /\ AddressesOwned /\ Carrying
  BY DEF IInv, TableInv
<1>4. ASSUME NEW k \in Keys, NEW x \in Packets, PushExisting(c, k, x)
      PROVE  TableInv'
  <2>1. items[k] \in Item /\ items[k] # None
    BY <1>3, <1>4 DEF PushExisting, TableType, Mapped
  <2>2. /\ Pushed(items[k], x) \in Item
        /\ Pushed(items[k], x).address = items[k].address
        /\ Pushed(items[k], x).due = items[k].due
        /\ Pushed(items[k], x) # None
    BY <2>1, PushedType, NoneIsNoItem
  <2>3. items' = [items EXCEPT ![k] = Pushed(items[k], x)] /\ UNCHANGED <<queues, addrinfos>>
    BY <1>4 DEF PushExisting
  <2>4. KeepsItems
    BY <1>3, <2>1, <2>2, <2>3 DEF KeepsItems, TableType
  <2> QED
    BY <1>1, <1>2, <2>3, <2>4, QuietStep
<1>5. ASSUME NEW k \in Keys, Remove(c, k)
      PROVE  TableInv'
  <2>1. CASE k \in Mapped
    <3>1. items[k] \in Item /\ items[k] # None
      BY <1>3, <2>1 DEF TableType, Mapped
    <3> DEFINE i == [items[k] EXCEPT !.buffer = Drain(items[k].buffer)]
    <3>2. Drain(items[k].buffer) \in Buffer
      BY <3>1, DrainType DEF Item
    <3>3. i \in Item /\ i.address = items[k].address /\ i.due = items[k].due
      BY <3>1, <3>2 DEF Item
    <3>4. items' = [items EXCEPT ![k] = i] /\ UNCHANGED <<queues, addrinfos>>
      BY <1>5, <2>1 DEF Remove
    <3>5. i # None
      BY <3>3, NoneIsNoItem
    <3> HIDE DEF i
    <3>6. KeepsItems
      BY <1>3, <3>1, <3>3, <3>4, <3>5 DEF KeepsItems, TableType
    <3> QED
      BY <1>1, <1>2, <3>4, <3>6, QuietStep
  <2>2. CASE k \notin Mapped
    <3>1. UNCHANGED <<queues, items, addrinfos>>
      BY <1>5, <2>2 DEF Remove
    <3> QED
      BY <1>1, <1>2, <3>1, SameTable, QuietStep
  <2> QED
    BY <2>1, <2>2
<1>6. ASSUME NEW k \in Keys, GetRemainingCapacity(c, k)
      PROVE  TableInv'
  <2>1. UNCHANGED <<queues, items, addrinfos>>
    BY <1>6 DEF GetRemainingCapacity, table
  <2> QED
    BY <1>1, <1>2, <2>1, SameTable, QuietStep
<1>7. ASSUME NEW k \in Keys, NEW x \in Packets, PushNew(c, k, x)
      PROVE  TableInv'
  <2>1. PICK a \in Resolved :
          /\ items' = [items EXCEPT ![k] = Pushed(NewItem(a), x)]
          /\ addrinfos' = addrinfos \cup ({a} \ {NULL})
    BY <1>7 DEF PushNew
  <2>2. a \in Handles \cup {NULL} /\ (a # NULL => a \notin addrinfos)
    BY <1>3 DEF Resolved, TableType
  <2> DEFINE i == Pushed(NewItem(a), x)
  <2>3. i \in Item /\ i.address = a /\ i # None
    BY <2>2, NewItemType, PushedType, NoneIsNoItem
  <2> HIDE DEF i
  <2>4. k \notin Mapped /\ queues' = Append(queues, k) /\ items' = [items EXCEPT ![k] = i]
    BY <1>7, <2>1 DEF PushNew, i
  <2>5. Mapped' = Mapped \cup {k} /\ items'[k] = i
        /\ \A l \in Mapped : l \in Keys /\ items'[l] = items[l] /\ l # k
    BY <1>3, <2>3, <2>4 DEF Mapped, TableType
  <2>6. TableType'
    BY <1>3, <2>1, <2>2, <2>3, <2>4, ListsAppend DEF TableType
  <2>7. Lists(queues, Mapped)'
    <3>1. Lists(Append(queues, k), Mapped \cup {k})
      BY <1>3, <2>4, ListsAppend DEF TableType
    <3> QED
      BY <2>4, <2>5, <3>1 DEF Lists
  <2>8. ~Deleted
    BY <1>1 DEF Deleted, IInv, ControlInv, Destroying
  <2>9. AddressesOwned'
    <3>1. /\ addrinfos = {items[l].address : l \in Mapped} \ {NULL}
          /\ \A l, m \in Mapped :
               items[l].address = items[m].address => l = m \/ items[l].address = NULL
      BY <1>3, <2>8 DEF AddressesOwned
    <3>2. {items'[l].address : l \in Mapped'} = {items[l].address : l \in Mapped} \cup {a}
      BY <2>3, <2>5
    <3>3. addrinfos' = {items'[l].address : l \in Mapped'} \ {NULL}
      BY <2>1, <3>1, <3>2
    <3>4. \A l \in Mapped : items[l].address = a => a = NULL
      BY <2>2, <3>1
    <3>5. \A l, m \in Mapped' :
            items'[l].address = items'[m].address => l = m \/ items'[l].address = NULL
      BY <2>3, <2>5, <3>1, <3>4
    <3> QED
      BY <3>3, <3>5 DEF AddressesOwned
  <2>10. Carrying'
    BY <1>1, <1>3, <2>5 DEF Carrying
  <2> QED
    BY <1>2, <2>6, <2>7, <2>9, <2>10 DEF TableInv
<1> QED
  BY <1>4, <1>5, <1>6, <1>7 DEF ClientStep

\* Entering a call and every step of destroy keep the tables.
LEMMA DestroyTableStep ==
  ASSUME IInv, [Next]_vars, NEW c \in Clients,
         Enter(c) \/ DestroyLock(c) \/ DestroyStep(c)
  PROVE  TableInv'
<1>1. \A p \in Processors : pc'[p] = pc[p]
  BY NameAssumption DEF Enter, DestroyLock, DestroyStep, DestroySignal, DestroyJoin,
     DestroyFree, Move, IInv, ControlInv, ControlType, Threads
<1>2. UNCHANGED <<unsent, wait, lag>>
  BY DEF Enter, DestroyLock, DestroyStep, DestroySignal, DestroyJoin, DestroyFree, rounds
<1>3. RoundType'
  BY <1>2 DEF IInv, TableInv, RoundType
<1>4. CASE ~DestroyFree(c)
  <2>1. UNCHANGED <<queues, items, addrinfos>>
    BY <1>4 DEF Enter, DestroyLock, DestroyStep, DestroySignal, DestroyJoin, table
  <2> QED
    BY <1>1, <1>2, <1>3, <2>1, SameTable, QuietStep
<1>5. CASE DestroyFree(c)
  <2>1. /\ queues' = <<>> /\ items' = [k \in Keys |-> None] /\ addrinfos' = addrinfos
        /\ pc[c] = "joined" /\ pc'[c] = "deleted"
    BY <1>5 DEF DestroyFree, Move, IInv, ControlInv, ControlType, Threads
  <2>2. Mapped' = {}
    BY <2>1 DEF Mapped
  <2>3. TableType'
    BY <2>1, EmptySeq DEF IInv, TableInv, TableType
  <2>4. Lists(queues, Mapped)'
    BY <2>1, <2>2 DEF Lists
  <2>5. AddressesOwned'
    BY <2>1 DEF AddressesOwned, Deleted
  <2>6. \A p \in Processors : pc[p] = "out"
    BY <2>1, NameAssumption DEF IInv, ControlInv, Exclusion, Destroying, Released,
       Crashed, Threads
  <2>7. Carrying'
    BY <1>1, <1>2, <2>6 DEF IInv, TableInv, Carrying
  <2> QED
    BY <1>3, <2>3, <2>4, <2>5, <2>7 DEF TableInv
<1> QED
  BY <1>4, <1>5

\* The steps of a round that only look at the queues.
LEMMA LoopTableStep ==
  ASSUME IInv, [Next]_vars, NEW p \in Processors,
         \/ AwaitProcess(p) \/ EnterProcess(p) \/ LockManager(p) \/ Stop(p)
         \/ LeaveProcess(p) \/ Idle(p) \/ HoldBack(p) \/ Crash(p) \/ Loop(p)
         \/ Sleep(p) \/ Wake(p)
  PROVE  TableInv'
<1>1. UNCHANGED <<queues, items, addrinfos, unsent, lag>>
  BY DEF AwaitProcess, EnterProcess, LockManager, Stop, LeaveProcess, Idle, HoldBack,
     NothingToSend, Crash, Loop, Sleep, Wake, rounds, table
<1>2. \A q \in Processors : \/ pc'[q] = pc[q]
                            \/ /\ pc[q] \notin {"popped", "unsent", "crashed"}
                               /\ pc'[q] \notin {"popped", "unsent"}
                            \/ pc'[q] = "crashed"
  BY DEF AwaitProcess, EnterProcess, LockManager, Stop, LeaveProcess, Idle, HoldBack,
     NothingToSend, Crash, Loop, Sleep, Wake, Move, Threads, IInv, ControlInv, ControlType
<1>3. wait' \in [Processors -> Int]
  <2>1. wait \in [Processors -> Int]
    BY DEF IInv, TableInv, RoundType
  <2>2. CASE Idle(p)
    BY <2>1, <2>2, TimeAssumption DEF Idle, NothingToSend
  <2>3. CASE HoldBack(p)
    <3>1. items[Head(queues)] \in Item /\ NotDue(items[Head(queues)].due)
      BY <2>3, FrontItem DEF HoldBack
    <3>2. items[Head(queues)].due \in Int
      BY <3>1 DEF Item, NotDue
    <3> QED
      BY <2>1, <2>3, <3>2 DEF HoldBack, NothingToSend
  <2>4. CASE \/ AwaitProcess(p) \/ EnterProcess(p) \/ LockManager(p) \/ Stop(p)
             \/ LeaveProcess(p) \/ Crash(p) \/ Loop(p) \/ Sleep(p) \/ Wake(p)
    BY <2>1, <2>4 DEF AwaitProcess, EnterProcess, LockManager, Stop, LeaveProcess, Crash,
       Loop, Sleep, Wake, rounds
  <2> QED
    BY <2>2, <2>3, <2>4
<1>4. RoundType'
  BY <1>1, <1>3 DEF IInv, TableInv, RoundType
<1> QED
  BY <1>1, <1>2, <1>4, SameTable, QuietStep

\* Erasing an empty queue frees its address and no other: no packet of that queue
\* is being carried, as the carrier is in the loop (process_next_locked).
LEMMA ReapTableStep ==
  ASSUME IInv, [Next]_vars, NEW p \in Processors, Reap(p)
  PROVE  TableInv'
<1> DEFINE k == Head(queues)
<1>1. /\ queues # <<>> /\ queues' = Tail(queues)
      /\ items' = [items EXCEPT ![k] = None]
      /\ addrinfos' = addrinfos \ {items[k].address}
      /\ NothingToSend(p, Target(queues', items'))
  BY DEF Reap, Freed
<1>2. k \in Keys /\ k \in Mapped /\ items[k] \in Item
  BY <1>1, FrontItem
<1>3. TableType /\ RoundType /\ Lists(queues, Mapped) /\ AddressesOwned /\ Carrying
  BY DEF IInv, TableInv
<1>4. Tail(queues) \in Seq(Keys) /\ Lists(Tail(queues), Mapped \ {k})
  BY <1>1, <1>3, ListsTail DEF TableType
<1> HIDE DEF k
<1>5. /\ Mapped' = Mapped \ {k}
      /\ \A l \in Mapped \ {k} : items'[l] = items[l] /\ l \in Keys
  BY <1>1, <1>2, <1>3 DEF Mapped, TableType
<1>6. TableType'
  BY <1>1, <1>3, <1>4 DEF TableType
<1>7. Lists(queues, Mapped)'
  BY <1>1, <1>4, <1>5 DEF Lists
<1>8. /\ pc[p] = "locked" /\ pc'[p] = "timed" /\ unsent' = unsent /\ lag' = lag
      /\ \A t \in Threads \ {p} : pc'[t] = pc[t]
      /\ wait' = [wait EXCEPT ![p] = Target(queues', items')]
  BY <1>1 DEF NothingToSend, Move, IInv, ControlInv, ControlType, Threads
<1>9. ~Deleted
  BY <1>8 DEF Deleted, IInv, ControlInv, Destroying
<1>10. AddressesOwned'
  <2>1. /\ addrinfos = {items[l].address : l \in Mapped} \ {NULL}
        /\ \A l, m \in Mapped :
             items[l].address = items[m].address => l = m \/ items[l].address = NULL
    BY <1>3, <1>9 DEF AddressesOwned
  <2>2. addrinfos' = {items'[l].address : l \in Mapped'} \ {NULL}
    BY <1>1, <1>2, <1>5, <2>1
  <2>3. \A l, m \in Mapped' :
          items'[l].address = items'[m].address => l = m \/ items'[l].address = NULL
    BY <1>5, <2>1
  <2> QED
    BY <2>2, <2>3 DEF AddressesOwned
<1>11. Carrying'
  <2>1. \A q \in Processors \ {p} : pc[q] \notin {"popped", "unsent"}
    BY <1>8 DEF IInv, ControlInv, Exclusion
  <2> QED
    BY <1>3, <1>8, <2>1 DEF Carrying, Threads
<1>12. Target(queues', items') \in Int
  <2>1. queues' # <<>> => Head(queues') \in Mapped'
    BY <1>6, <1>7, ListsTail DEF TableType
  <2>2. queues' # <<>> => items'[Head(queues')] \in Item
    BY <1>6, <2>1 DEF Mapped, TableType
  <2> QED
    BY <1>6, <2>2, TargetType DEF TableType
<1>13. RoundType'
  BY <1>3, <1>8, <1>12 DEF RoundType
<1> QED
  BY <1>6, <1>7, <1>10, <1>11, <1>13 DEF TableInv

\* Taking a packet copies an address its queue still owns (process_next_locked).
LEMMA ServeTableStep ==
  ASSUME IInv, [Next]_vars, NEW p \in Processors, Serve(p)
  PROVE  TableInv'
<1> DEFINE k == Head(queues)
           u == [key     |-> k,
                 packet  |-> Front(items[k].buffer),
                 address |-> items[k].address]
<1>1. /\ queues # <<>> /\ items[k].buffer.size > 0
      /\ queues' = Append(Tail(queues), k)
      /\ items' = [items EXCEPT ![k] = Served(items[k])]
      /\ unsent' = [unsent EXCEPT ![p] = u]
      /\ lag' = [lag EXCEPT ![p] = 0]
      /\ UNCHANGED <<addrinfos, wait>>
      /\ Move(p, "locked", "popped")
  BY DEF Serve, Rotated
<1>2. k \in Keys /\ k \in Mapped /\ items[k] \in Item
  BY <1>1, FrontItem
<1>3. TableType /\ RoundType /\ Lists(queues, Mapped) /\ AddressesOwned /\ Carrying
  BY DEF IInv, TableInv
<1>4. queues' \in Seq(Keys) /\ Lists(queues', Mapped)
  BY <1>1, <1>3, ListsRotate DEF TableType
<1>5. u \in Unsent /\ u # None
  <2>1. items[k].buffer \in Buffer /\ items[k].address \in Handles \cup {NULL}
    BY <1>2 DEF Item
  <2>2. items[k].buffer.index \in Slots
    BY <1>1, <2>1, CapacityAssumption DEF Buffer
  <2>3. Front(items[k].buffer) \in Contained
    BY <2>1, <2>2 DEF Front, Buffer
  <2> QED
    BY <1>2, <2>1, <2>3, NoneIsNoItem DEF Unsent
<1>6. u.key = k /\ u.address = items[k].address
  OBVIOUS
<1> HIDE DEF k, u
<1>7. /\ Served(items[k]) \in Item /\ Served(items[k]) # None
      /\ Served(items[k]).address = items[k].address
      /\ Served(items[k]).due \in Int
  <2>1. Served(items[k]).due \in Int
    BY <1>2 DEF Served, Item
  <2> QED
    BY <1>1, <1>2, <2>1, ServedType, NoneIsNoItem
<1>8. KeepsItems
  BY <1>1, <1>2, <1>3, <1>7, NoneIsNoItem DEF KeepsItems, TableType
<1>9. Deleted => Deleted'
  BY DeletedStays DEF IInv
<1>10. TableType' /\ Lists(queues, Mapped)' /\ AddressesOwned' /\ Mapped' = Mapped
  BY <1>4, <1>8, <1>9, KeptTable DEF IInv
<1>11. RoundType'
  BY <1>1, <1>3, <1>5 DEF RoundType
<1>12. /\ pc[p] = "locked" /\ pc'[p] = "popped"
       /\ \A t \in Threads \ {p} : pc'[t] = pc[t]
  BY <1>1 DEF Move, IInv, ControlInv, ControlType, Threads
<1>13. Carrying'
  <2>1. ASSUME NEW q \in Processors, q # p
        PROVE  pc'[q] \notin {"popped", "unsent"} /\ unsent'[q] = unsent[q] /\ pc'[q] = pc[q]
    BY <1>1, <1>3, <1>12, <2>1 DEF RoundType, Threads, IInv, ControlInv, Exclusion
  <2>2. /\ unsent'[p] = u /\ items'[k] = Served(items[k])
    BY <1>1, <1>2, <1>3 DEF RoundType, TableType
  <2> QED
    BY <1>2, <1>3, <1>5, <1>6, <1>7, <1>10, <1>12, <2>1, <2>2 DEF Carrying
<1> QED
  BY <1>10, <1>11, <1>13 DEF TableInv

\* Setting the due time of the served queue keeps its address.
LEMMA RescheduleTableStep ==
  ASSUME IInv, [Next]_vars, NEW p \in Processors, Reschedule(p)
  PROVE  TableInv'
<1> DEFINE k == unsent[p].key
           empty == unsent[p].packet = Empty
           i == [items[k] EXCEPT !.due = Rescheduled(items[k].due)]
<1>1. /\ Move(p, "popped", IF empty THEN "timed" ELSE "unsent")
      /\ items' = [items EXCEPT ![k] = i]
      /\ wait' = [wait EXCEPT ![p] = Target(queues, items') + (IF empty THEN lag[p] ELSE 0)]
      /\ lag' = [lag EXCEPT ![p] = 0]
      /\ unsent' = IF empty THEN [unsent EXCEPT ![p] = None] ELSE unsent
      /\ UNCHANGED <<queues, addrinfos>>
  BY DEF Reschedule
<1>2. TableType /\ RoundType /\ Lists(queues, Mapped) /\ AddressesOwned /\ Carrying
  BY DEF IInv, TableInv
<1>3. /\ pc[p] = "popped" /\ pc'[p] = IF empty THEN "timed" ELSE "unsent"
      /\ \A t \in Threads \ {p} : pc'[t] = pc[t]
  BY <1>1 DEF Move, IInv, ControlInv, ControlType, Threads
<1>4. k \in Keys /\ k \in Mapped /\ items[k] \in Item /\ items[k].due \in Int
  BY <1>2, <1>3 DEF Carrying, Mapped, TableType
<1>5. i \in Item /\ i.address = items[k].address /\ i.due \in Int
  <2>1. Rescheduled(items[k].due) \in Int
    BY <1>4, TimeTypes
  <2> QED
    BY <1>4, <2>1 DEF Item
<1>6. i # None
  BY <1>5, NoneIsNoItem
<1> HIDE DEF i, k, empty
<1>7. KeepsItems
  BY <1>1, <1>2, <1>4, <1>5, <1>6, NoneIsNoItem DEF KeepsItems, TableType
<1>8. Deleted => Deleted'
  BY DeletedStays DEF IInv
<1>9. TableType' /\ Lists(queues, Mapped)' /\ AddressesOwned' /\ Mapped' = Mapped
  BY <1>1, <1>2, <1>7, <1>8, KeptTable DEF IInv, TableType
<1>10. RoundType'
  <2>1. Target(queues, items') \in Int
    <3>1. queues # <<>> => items'[Head(queues)] \in Item
      BY <1>1, <1>4, <1>5, FrontItem, <1>2 DEF TableType
    <3> QED
      BY <1>1, <1>9, <3>1, TargetType DEF TableType
  <2>2. lag[p] \in Int
    BY <1>2 DEF RoundType
  <2>3. wait' \in [Processors -> Int]
    BY <1>1, <1>2, <2>1, <2>2 DEF RoundType
  <2> QED
    BY <1>1, <1>2, <2>3 DEF RoundType
<1>11. Carrying'
  <2>1. ASSUME NEW q \in Processors, q # p
        PROVE  /\ pc[q] \notin {"popped", "unsent"} /\ pc'[q] = pc[q]
               /\ unsent'[q] = unsent[q]
    BY <1>1, <1>2, <1>3, <2>1 DEF RoundType, Threads, IInv, ControlInv, Exclusion
  <2>2. ASSUME empty
        PROVE  unsent'[p] = None /\ pc'[p] = "timed"
    BY <1>1, <1>2, <1>3, <2>2 DEF RoundType
  <2>3. ASSUME ~empty
        PROVE  /\ unsent'[p] = unsent[p] /\ pc'[p] = "unsent"
               /\ unsent[p] \in Unsent /\ k \in Mapped'
               /\ items'[k].address = unsent[p].address
    BY <1>1, <1>2, <1>3, <1>4, <1>5, <1>9, <2>3 DEF Carrying, TableType, k
  <2> QED
    BY <1>2, <2>1, <2>2, <2>3 DEF Carrying, k
<1> QED
  BY <1>9, <1>10, <1>11 DEF TableInv

\* Sending the packet that is carried ends the use of its address.
LEMMA DispatchTableStep ==
  ASSUME IInv, [Next]_vars, NEW p \in Processors, Dispatch(p)
  PROVE  TableInv'
<1>1. /\ UNCHANGED <<queues, items, addrinfos, wait, lag>>
      /\ unsent' = [unsent EXCEPT ![p] = None]
  BY DEF Dispatch, table
<1>2. pc'[p] = "timed" /\ \A t \in Threads \ {p} : pc'[t] = pc[t]
  BY DEF Dispatch, Move, IInv, ControlInv, ControlType, Threads
<1>3. TableType /\ RoundType /\ Lists(queues, Mapped) /\ AddressesOwned /\ Carrying
  BY DEF IInv, TableInv
<1>4. KeepsItems /\ (Deleted => Deleted')
  BY <1>1, SameTable, DeletedStays DEF IInv
<1>5. TableType' /\ Lists(queues, Mapped)' /\ AddressesOwned' /\ Mapped' = Mapped
  BY <1>1, <1>3, <1>4, KeptTable DEF IInv, TableType
<1>6. RoundType'
  BY <1>1, <1>3 DEF RoundType
<1>7. Carrying'
  BY <1>1, <1>2, <1>3, <1>5 DEF Carrying, RoundType, Threads
<1> QED
  BY <1>5, <1>6, <1>7 DEF TableInv

\* A change of every due time that is set.
LEMMA ClockTableStep ==
  ASSUME IInv, [Next]_vars,
         items' = [k \in Keys |-> items'[k]],
         \A k \in Keys : \/ items'[k] = items[k]
                         \/ /\ items[k] # None /\ items[k].due # Unset
                            /\ \E t \in Int : items'[k] = [items[k] EXCEPT !.due = t],
         UNCHANGED <<queues, addrinfos, pc, unsent>>, RoundType'
  PROVE  TableInv'
<1>1. TableType
  BY DEF IInv, TableInv
<1>2. ASSUME NEW k \in Keys
      PROVE  /\ items'[k] \in Item \cup {None}
             /\ items[k] = None <=> items'[k] = None
             /\ items[k] # None => items'[k].address = items[k].address
             /\ items[k] # None /\ items[k].due \in Int => items'[k].due \in Int
  <2>1. CASE items'[k] = items[k]
    BY <1>1, <2>1 DEF TableType
  <2>2. CASE items[k] # None /\ \E t \in Int : items'[k] = [items[k] EXCEPT !.due = t]
    <3>1. PICK t \in Int : items'[k] = [items[k] EXCEPT !.due = t]
      BY <2>2
    <3>2. items[k] \in Item
      BY <1>1, <2>2 DEF TableType
    <3>3. /\ items'[k] \in Item /\ items'[k].address = items[k].address
          /\ items'[k].due \in Int
      BY <3>1, <3>2 DEF Item
    <3> QED
      BY <2>2, <3>3, NoneIsNoItem
  <2> QED
    BY <2>1, <2>2
<1>3. KeepsItems
  BY <1>2 DEF KeepsItems
<1> QED
  BY <1>3, QuietStep

\* The passing of time touches due times only.
LEMMA TickTableStep ==
  ASSUME IInv, [Next]_vars, Tick
  PROVE  TableInv'
<1>1. TableType /\ RoundType
  BY DEF IInv, TableInv
<1>2. UNCHANGED <<queues, addrinfos, pc, unsent>>
  BY DEF Tick
<1>3. items' = [k \in Keys |->
                 IF items[k] = None \/ items[k].due = Unset THEN items[k]
                 ELSE [items[k] EXCEPT !.due = Later(items[k].due)]]
  BY DEF Tick
<1>4. RoundType'
  BY <1>1, TimeTypes DEF Tick, RoundType
<1>5. ASSUME NEW k \in Keys, items[k] # None, items[k].due # Unset
      PROVE  \E t \in Int : items'[k] = [items[k] EXCEPT !.due = t]
  <2>1. Later(items[k].due) \in Int
    BY <1>1, <1>5, TimeTypes DEF TableType, Item
  <2>2. items'[k] = [items[k] EXCEPT !.due = Later(items[k].due)]
    BY <1>3, <1>5
  <2> QED
    BY <2>1, <2>2
<1>6. items' = [k \in Keys |-> items'[k]]
  BY <1>3
<1>7. \A k \in Keys : items[k] = None \/ items[k].due = Unset => items'[k] = items[k]
  BY <1>3
<1> QED
  BY <1>2, <1>4, <1>5, <1>6, <1>7, ClockTableStep

\* An adjustment of the system clock touches due times only.
LEMMA ClockStepTableStep ==
  ASSUME IInv, [Next]_vars, NEW d \in ClockSteps, ClockStep(d)
  PROVE  TableInv'
<1>1. TableType /\ RoundType /\ d \in Int
  BY TimeAssumption DEF IInv, TableInv
<1>2. UNCHANGED <<queues, addrinfos, pc, unsent>>
  BY DEF ClockStep
<1>3. items' = [k \in Keys |->
                 IF items[k] = None \/ items[k].due = Unset THEN items[k]
                 ELSE [items[k] EXCEPT !.due = Shift(items[k].due, d)]]
  BY DEF ClockStep
<1>4. RoundType'
  BY <1>1, TimeTypes DEF ClockStep, RoundType
<1>5. ASSUME NEW k \in Keys, items[k] # None, items[k].due # Unset
      PROVE  \E t \in Int : items'[k] = [items[k] EXCEPT !.due = t]
  <2>1. Shift(items[k].due, d) \in Int
    BY <1>1, <1>5, TimeTypes DEF TableType, Item
  <2>2. items'[k] = [items[k] EXCEPT !.due = Shift(items[k].due, d)]
    BY <1>3, <1>5
  <2> QED
    BY <2>1, <2>2
<1>6. items' = [k \in Keys |-> items'[k]]
  BY <1>3
<1>7. \A k \in Keys : items[k] = None \/ items[k].due = Unset => items'[k] = items[k]
  BY <1>3
<1> QED
  BY <1>2, <1>4, <1>5, <1>6, <1>7, ClockTableStep

\* Every step keeps the inductive invariant.
LEMMA InvStep == IInv /\ [Next]_vars => IInv'
<1> SUFFICES ASSUME IInv, [Next]_vars PROVE TableInv'
  BY ControlStep DEF IInv
<1>1. ASSUME NEW c \in Clients,
             Enter(c) \/ ClientStep(c) \/ DestroyLock(c) \/ DestroyStep(c)
      PROVE  TableInv'
  BY <1>1, ClientTableStep, DestroyTableStep
<1>2. ASSUME NEW p \in Processors,
             AwaitProcess(p) \/ EnterProcess(p) \/ LockManager(p) \/ ProcessorStep(p)
      PROVE  TableInv'
  BY <1>2, LoopTableStep, ReapTableStep, ServeTableStep, RescheduleTableStep,
     DispatchTableStep DEF ProcessorStep
<1>3. CASE Tick
  BY <1>3, TickTableStep
<1>4. ASSUME NEW d \in ClockSteps, ClockStep(d) PROVE TableInv'
  BY <1>4, ClockStepTableStep
<1>5. CASE UNCHANGED vars
  <2>1. UNCHANGED <<queues, items, addrinfos, pc, unsent, wait, lag>>
    BY <1>5 DEF vars
  <2>2. RoundType'
    BY <2>1 DEF IInv, TableInv, RoundType
  <2> QED
    BY <2>1, <2>2, SameTable, QuietStep
<1> QED
  BY <1>1, <1>2, <1>3, <1>4, <1>5 DEF Next

-----------------------------------------------------------------------------
(* The theorems                                                            *)

\* The inductive invariant holds throughout.
LEMMA SpecIInv == Spec => []IInv
<1>1. Init => IInv
  BY ControlInit, TableInit DEF IInv
<1> QED
  BY <1>1, InvStep, PTL DEF Spec

\* Every variable keeps its type: indexes stay within the ring, due times stay
\* times, mutexes have one owner or none.
THEOREM TypeCorrect == Spec => []TypeOK
BY SpecIInv, IInvMeaning, PTL

\* Every queue is in the rotation exactly once (erase and insert in
\* process_next_locked, insert in push_locked).
THEOREM RotationIsComplete == Spec => []RotationComplete
BY SpecIInv, IInvMeaning, PTL

\* No addrinfo structure leaks while the manager lives, none is freed twice
\* (resolve_address in push_locked, addrinfo_free in process_next_locked).
THEOREM AddressesAreOwned == Spec => []AddressesOwned
BY SpecIInv, IInvMeaning, PTL

\* The address that is read after lock was released, in process_with_socket and
\* dispatch_packet, is allocated and still the one of its queue.
THEOREM DispatchIsLive == Spec => []DispatchAddressLive
<1>1. IInv => DispatchAddressLive
  <2> SUFFICES ASSUME IInv, NEW p \in Processors,
                      pc[p] = "unsent", unsent[p].address # NULL
               PROVE  /\ unsent[p].address \in addrinfos
                      /\ unsent[p].key \in Mapped
                      /\ items[unsent[p].key].address = unsent[p].address
    BY DEF DispatchAddressLive
  <2>1. /\ unsent[p].key \in Mapped
        /\ items[unsent[p].key].address = unsent[p].address
    BY DEF IInv, TableInv, Carrying
  <2>2. ~Deleted
    BY DEF IInv, ControlInv, Destroying, Deleted
  <2> QED
    BY <2>1, <2>2 DEF IInv, TableInv, AddressesOwned
<1> QED
  BY <1>1, SpecIInv, PTL

\* Nobody is inside the manager when destroy frees it, given the caller's side
\* of the contract that DestroyLock states.
THEOREM DeleteIsAlone == Spec => []NoUseAfterDelete
<1>1. IInv => NoUseAfterDelete
  BY DEF IInv, ControlInv, Destroying, NoUseAfterDelete, Threads
<1> QED
  BY <1>1, SpecIInv, PTL

\* One thread at a time is inside the loop of process_with_socket, and only it
\* carries a packet.
THEOREM ProcessorIsAlone == Spec => []OneProcessor
<1>1. IInv => OneProcessor
  <2> SUFFICES ASSUME IInv, ~Crashed, NEW p \in Processors, NEW q \in Processors,
                      InLoop(p), unsent[q] # None \/ InLoop(q)
               PROVE  p = q
    BY DEF OneProcessor
  <2>1. pc[p] # "crashed" /\ pc[q] # "crashed"
    BY DEF Crashed, Threads
  <2>2. InLoop(q)
    BY <2>1 DEF IInv, TableInv, Carrying, InLoop
  <2> QED
    BY <2>1, <2>2 DEF IInv, ControlInv, Exclusion, InLoop
<1> QED
  BY <1>1, SpecIInv, PTL

\* After shutting_down is set no packet is taken and no queue is rotated, added
\* or reaped, until the manager is deleted (process_with_socket, destroy).
THEOREM ShutdownIsQuiet == Spec => QuietShutdown
<1> DEFINE Quiet == shutting_down /\ ~Deleted' =>
                      /\ queues' = queues
                      /\ addrinfos' = addrinfos
                      /\ \A p \in Processors : unsent'[p] \in {unsent[p], None}
<1>1. IInv /\ [Next]_vars => Quiet
  <2> SUFFICES ASSUME IInv, [Next]_vars, shutting_down, ~Deleted'
               PROVE  /\ queues' = queues /\ addrinfos' = addrinfos
                      /\ \A p \in Processors : unsent'[p] \in {unsent[p], None}
    OBVIOUS
  <2>1. \A c \in Clients : pc[c] # "in"
    BY DEF IInv, ControlInv, Destroying, Threads
  <2>2. ASSUME NEW c \in Clients, ClientStep(c) PROVE FALSE
    BY <2>1, <2>2 DEF ClientStep, PushExisting, PushNew, Remove, GetRemainingCapacity,
       Return, Move
  <2>3. ASSUME NEW c \in Clients, Enter(c) \/ DestroyLock(c) \/ DestroyStep(c)
        PROVE  UNCHANGED <<queues, addrinfos, unsent>>
    <3>1. ~DestroyFree(c)
      BY DEF DestroyFree, Move, Deleted, IInv, ControlInv, ControlType, Threads
    <3> QED
      BY <2>3, <3>1 DEF Enter, DestroyLock, DestroyStep, DestroySignal, DestroyJoin,
         table, rounds
  <2>4. ASSUME NEW p \in Processors, AwaitProcess(p) \/ EnterProcess(p) \/ LockManager(p)
        PROVE  UNCHANGED <<queues, addrinfos, unsent>>
    BY <2>4 DEF AwaitProcess, EnterProcess, LockManager, table, rounds
  <2>5. ASSUME NEW p \in Processors, ProcessorStep(p)
        PROVE  /\ UNCHANGED <<queues, addrinfos>>
               /\ unsent' = unsent \/ unsent' = [unsent EXCEPT ![p] = None]
    BY <2>5 DEF ProcessorStep, Stop, LeaveProcess, Idle, Reap, HoldBack, NothingToSend,
       Serve, KeepRunning, Reschedule, Dispatch, Crash, Loop, Sleep, Wake, table, rounds
  <2>6. ASSUME NEW p \in Processors, ProcessorStep(p)
        PROVE  \A q \in Processors : unsent'[q] \in {unsent[q], None}
    BY <2>5, <2>6 DEF IInv, TableInv, RoundType
  <2>7. CASE Tick
    BY <2>7 DEF Tick
  <2>8. ASSUME NEW d \in ClockSteps, ClockStep(d)
        PROVE  UNCHANGED <<queues, addrinfos, unsent>>
    BY <2>8 DEF ClockStep
  <2>9. CASE UNCHANGED vars
    BY <2>9 DEF vars
  <2> QED
    BY <2>2, <2>3, <2>4, <2>5, <2>6, <2>7, <2>8, <2>9 DEF Next
<1>2. IInv /\ [Next]_vars => [Quiet]_vars
  BY <1>1
<1> QED
  BY <1>2, SpecIInv, PTL DEF Spec, QuietShutdown
=============================================================================
