---------------------------- MODULE PacingProofs ----------------------------
(***************************************************************************)
(* Due times, waits and the rate of service, for any interval, slack, lag  *)
(* and lateness, and any keys and threads: as long as the system clock is  *)
(* not set back, no queue waits too long or is served too early, and       *)
(* catching up bursts no further than three intervals and the slack.       *)
(***************************************************************************)
EXTENDS Pacing, UdpQueueProofs

NotSetBack == \A d \in ClockSteps : d < 0 => ~ClockStep(d)

\* The system clock is set forward at most.
NeverSetBack == [][NotSetBack]_vars

Forward ==
  \/ \E c \in Clients : Enter(c) \/ ClientStep(c) \/ DestroyLock(c) \/ DestroyStep(c)
  \/ \E p \in Processors :
       AwaitProcess(p) \/ EnterProcess(p) \/ LockManager(p) \/ ProcessorStep(p)
  \/ Tick
  \/ \E d \in ClockSteps : d >= 0 /\ ClockStep(d)

-----------------------------------------------------------------------------
(* The inductive invariant                                                 *)

\* A due time that is set is at most one turn ahead.
Dues ==
  \A k \in Mapped :
    items[k].due = Unset \/ (items[k].due >= Past /\ items[k].due < Interval + Slack)

Lags == \A p \in Processors : lag[p] \in 0 .. MaxLag

Waits == \A p \in Processors : wait[p] < Interval + Slack + MaxLag

\* The front queue is due in w ticks at the latest.
FrontBy(w) ==
  queues # <<>> => items[Head(queues)].due = Unset \/ items[Head(queues)].due <= w

\* A thread that is to wait waits for the front queue at least, so that none is
\* held back when it looks again; it took its packet from a queue that was due.
Awaited ==
  \A p \in Processors :
    /\ pc[p] \in {"unsent", "timed", "asleep"} => FrontBy(wait[p])
    /\ pc[p] \in {"top", "locked"} => FrontBy(Slack - 1)
    /\ pc[p] = "popped" => items[unsent[p].key].due < Slack

\* Before the first thread enters the loop, no due time is set; a thread leaves
\* it for the end of the manager only.
Fresh ==
  /\ process_lock = None => shutting_down \/ \A k \in Mapped : items[k].due = Unset
  /\ \A p \in Processors : pc[p] = "leaving" => shutting_down

TimeInv == Dues /\ Lags /\ Waits /\ Awaited /\ Fresh

\* The bounds of the model are numbers, and the past lies before now.
LEMMA Bounds ==
  /\ Interval \in Nat \ {0} /\ Slack \in Nat \ {0} /\ MaxLag \in Nat
  /\ Past \in Int /\ Past <= -(2 * Interval) /\ Unset \notin Int
BY TimeAssumption DEF Past

\* The front queue is in the map, with a due time or without.
LEMMA FrontDue ==
  ASSUME IInv, queues # <<>>
  PROVE  /\ Head(queues) \in Mapped /\ Head(queues) \in Keys
         /\ items[Head(queues)].due \in Int \cup {Unset}
BY FrontItem DEF Item

\* While a thread is inside the loop, no other is.
LEMMA LoopAlone ==
  ASSUME IInv, NEW p \in Processors, pc[p] \notin {"out", "waiting", "crashed"}
  PROVE  \A q \in Processors \ {p} : pc[q] \in {"out", "waiting"}
BY DEF IInv, ControlInv, Exclusion, Destroying, Crashed, Threads

\* A step of a thread changes the place of that thread.
LEMMA Moved ==
  ASSUME IInv, NEW t \in Threads, NEW from, NEW to, Move(t, from, to)
  PROVE  pc[t] = from /\ pc'[t] = to /\ \A u \in Threads \ {t} : pc'[u] = pc[u]
BY DEF Move, IInv, ControlInv, ControlType

-----------------------------------------------------------------------------
(* Its steps                                                               *)

\* What a client does leaves every due time that is set as it is, and the front
\* queue in front.
LEMMA ClientKeepsTimes ==
  ASSUME TimeInv, IInv, IInv',
         UNCHANGED <<wait, lag, unsent>>,
         \A p \in Processors : pc'[p] = pc[p],
         shutting_down => shutting_down',
         process_lock' = None => process_lock = None,
         \A k \in Mapped' : \/ items'[k].due = Unset
                            \/ k \in Mapped /\ items'[k].due = items[k].due,
         \A k \in Mapped : k \in Mapped' /\ items'[k].due = items[k].due,
         \/ queues' = queues
         \/ \E k \in Keys \ Mapped : queues' = Append(queues, k)
  PROVE  TimeInv'
<1>1. Dues' /\ Lags' /\ Waits'
  BY DEF TimeInv, Dues, Lags, Waits
<1>2. ASSUME NEW w, FrontBy(w)
      PROVE  queues' # <<>> =>
               items'[Head(queues')].due = Unset \/ items'[Head(queues')].due <= w
  <2>1. CASE queues' = queues
    BY <1>2, <2>1, FrontDue DEF FrontBy
  <2>2. ASSUME NEW k \in Keys \ Mapped, queues' = Append(queues, k), queues # <<>>
        PROVE  Head(queues') = Head(queues)
    BY <2>2 DEF IInv, TableInv, TableType
  <2>3. ASSUME NEW k \in Keys \ Mapped, queues' = Append(queues, k), queues = <<>>
        PROVE  Head(queues') = k /\ queues' # <<>>
    BY <2>3
  <2>4. CASE queues # <<>>
    BY <1>2, <2>1, <2>2, <2>4, FrontDue DEF FrontBy
  <2>5. ASSUME NEW k \in Keys \ Mapped, queues' = Append(queues, k), queues = <<>>
        PROVE  items'[Head(queues')].due = Unset
    <3>1. k \in Mapped'
      <4>1. queues' # <<>> => Head(queues') \in Mapped'
        BY ListsTail DEF IInv, TableInv, TableType
      <4> QED
        BY <2>3, <2>5, <4>1
    <3> QED
      BY <2>3, <2>5, <3>1
  <2> QED
    BY <2>1, <2>4, <2>5
<1>3. Awaited'
  <2> SUFFICES ASSUME NEW p \in Processors
               PROVE  /\ pc'[p] \in {"unsent", "timed", "asleep"} => FrontBy(wait[p])'
                      /\ pc'[p] \in {"top", "locked"} => FrontBy(Slack - 1)'
                      /\ pc'[p] = "popped" => items'[unsent'[p].key].due < Slack
    BY DEF Awaited
  <2>1. /\ pc[p] \in {"unsent", "timed", "asleep"} => FrontBy(wait[p])
        /\ pc[p] \in {"top", "locked"} => FrontBy(Slack - 1)
        /\ pc[p] = "popped" => items[unsent[p].key].due < Slack
    BY DEF TimeInv, Awaited
  <2>2. pc[p] = "popped" => unsent[p].key \in Mapped
    BY DEF IInv, TableInv, Carrying
  <2> QED
    BY <1>2, <2>1, <2>2 DEF FrontBy
<1>4. Fresh'
  BY DEF TimeInv, Fresh
<1> QED
  BY <1>1, <1>3, <1>4 DEF TimeInv

\* push, remove, get_remaining_capacity and destroy are such steps.
LEMMA ClientTimes ==
  ASSUME TimeInv, IInv, IInv', NEW c \in Clients,
         Enter(c) \/ ClientStep(c) \/ DestroyLock(c) \/ DestroyStep(c)
  PROVE  TimeInv'
<1>1. /\ \A p \in Processors : pc'[p] = pc[p]
      /\ UNCHANGED <<wait, lag, unsent>>
      /\ shutting_down => shutting_down'
  BY NameAssumption DEF Enter, ClientStep, PushExisting, PushNew, Remove,
     GetRemainingCapacity, Return, DestroyLock, DestroyStep, DestroySignal, DestroyJoin,
     DestroyFree, Move, rounds, IInv, ControlInv, ControlType, Threads
<1>2. items \in [Keys -> Item \cup {None}]
  BY DEF IInv, TableInv, TableType
<1>3. CASE UNCHANGED <<queues, items>> /\ (process_lock' = None => process_lock = None)
  <2>1. Mapped' = Mapped
    BY <1>3 DEF Mapped
  <2> QED
    BY <1>1, <1>3, <2>1, ClientKeepsTimes
<1>4. CASE Enter(c) \/ DestroyLock(c) \/ DestroySignal(c) \/ DestroyJoin(c)
  BY <1>3, <1>4, NameAssumption DEF Enter, DestroyLock, DestroySignal, DestroyJoin, table
<1>5. ASSUME NEW k \in Keys, NEW x \in Packets, PushExisting(c, k, x) PROVE TimeInv'
  <2>1. /\ items' = [items EXCEPT ![k] = Pushed(items[k], x)] /\ k \in Mapped
        /\ UNCHANGED <<queues, process_lock>> /\ items[k] \in Item
    BY <1>2, <1>5 DEF PushExisting, Return, Mapped
  <2>2. Pushed(items[k], x) \in Item /\ Pushed(items[k], x).due = items[k].due
    BY <2>1, PushedType
  <2>3. Mapped' = Mapped /\ \A l \in Mapped : items'[l].due = items[l].due
    BY <1>2, <2>1, <2>2, NoneIsNoItem DEF Mapped
  <2> QED
    BY <1>1, <2>1, <2>3, ClientKeepsTimes
<1>6. ASSUME NEW k \in Keys, NEW x \in Packets, PushNew(c, k, x) PROVE TimeInv'
  <2>1. PICK a \in Resolved : items' = [items EXCEPT ![k] = Pushed(NewItem(a), x)]
    BY <1>6 DEF PushNew
  <2>2. k \notin Mapped /\ queues' = Append(queues, k) /\ UNCHANGED process_lock
    BY <1>6 DEF PushNew, Return
  <2>3. NewItem(a) \in Item /\ NewItem(a).due = Unset
    BY NewItemType DEF Resolved, NewItem
  <2>4. Pushed(NewItem(a), x) \in Item /\ Pushed(NewItem(a), x).due = Unset
    BY <2>3, PushedType
  <2>5. /\ Mapped' = Mapped \cup {k} /\ items'[k].due = Unset
        /\ \A l \in Mapped : items'[l].due = items[l].due
    BY <1>2, <2>1, <2>2, <2>4, NoneIsNoItem DEF Mapped
  <2> QED
    BY <1>1, <2>2, <2>5, ClientKeepsTimes
<1>7. ASSUME NEW k \in Keys, Remove(c, k) PROVE TimeInv'
  <2>1. CASE k \notin Mapped
    BY <1>3, <1>7, <2>1 DEF Remove, Return
  <2>2. CASE k \in Mapped
    <3> DEFINE i == [items[k] EXCEPT !.buffer = Drain(items[k].buffer)]
    <3>1. /\ items' = [items EXCEPT ![k] = i] /\ items[k] \in Item
          /\ UNCHANGED <<queues, process_lock>>
      BY <1>2, <1>7, <2>2 DEF Remove, Return, Mapped
    <3>2. i \in Item /\ i.due = items[k].due
      BY <3>1, DrainType DEF Item
    <3> HIDE DEF i
    <3>3. Mapped' = Mapped /\ \A l \in Mapped : items'[l].due = items[l].due
      BY <1>2, <2>2, <3>1, <3>2, NoneIsNoItem DEF Mapped
    <3> QED
      BY <1>1, <3>1, <3>3, ClientKeepsTimes
  <2> QED
    BY <2>1, <2>2
<1>8. ASSUME NEW k \in Keys, GetRemainingCapacity(c, k) PROVE TimeInv'
  BY <1>3, <1>8 DEF GetRemainingCapacity, Return, table
<1>9. CASE DestroyFree(c)
  <2>1. pc[c] = "joined" /\ queues' = <<>> /\ items' = [k \in Keys |-> None]
    BY <1>9 DEF DestroyFree, Move
  <2>2. Mapped' = {}
    BY <2>1 DEF Mapped
  <2>3. \A p \in Processors : pc[p] = "out"
    BY <2>1, NameAssumption DEF IInv, ControlInv, Exclusion, Destroying, Released,
       Crashed, Threads
  <2> QED
    BY <1>1, <2>1, <2>2, <2>3 DEF TimeInv, Dues, Lags, Waits, Awaited, FrontBy, Fresh
<1> QED
  BY <1>4, <1>5, <1>6, <1>7, <1>8, <1>9 DEF ClientStep, DestroyStep

\* A thread that enters the loop, that finds nothing to send, or that has slept
\* as long as it should.
LEMMA LoopTimes ==
  ASSUME TimeInv, IInv, IInv', NEW p \in Processors,
         \/ AwaitProcess(p) \/ EnterProcess(p) \/ LockManager(p) \/ Stop(p)
         \/ LeaveProcess(p) \/ Idle(p) \/ HoldBack(p) \/ Dispatch(p) \/ Crash(p)
         \/ Loop(p) \/ Sleep(p) \/ Wake(p)
  PROVE  TimeInv'
<1>0. /\ Interval \in Nat \ {0} /\ Slack \in Nat \ {0} /\ MaxLag \in Nat
      /\ wait \in [Processors -> Int] /\ p \in Threads /\ Processors \subseteq Threads
      /\ unsent \in [Processors -> Unsent \cup {None}]
  BY Bounds DEF IInv, TableInv, RoundType, Threads
<1>1. UNCHANGED <<queues, items, lag, shutting_down>>
  BY DEF AwaitProcess, EnterProcess, LockManager, Stop, LeaveProcess, Idle, HoldBack,
     NothingToSend, Dispatch, Crash, Loop, Sleep, Wake, table, rounds
<1>2. Mapped' = Mapped /\ \A w : FrontBy(w)' <=> FrontBy(w)
  BY <1>1 DEF Mapped, FrontBy
<1>3. Dues' /\ Lags'
  BY <1>1, <1>2 DEF TimeInv, Dues, Lags
<1>4. ASSUME pc'[p] # "popped", pc'[p] = "leaving" => shutting_down,
             \A q \in Processors \ {p} : pc'[q] = pc[q] /\ wait'[q] = wait[q]
                                         /\ unsent'[q] = unsent[q],
             wait'[p] < Interval + Slack + MaxLag,
             pc'[p] \in {"unsent", "timed", "asleep"} => FrontBy(wait'[p]),
             pc'[p] \in {"top", "locked"} => FrontBy(Slack - 1),
             process_lock' = None => process_lock = None \/ shutting_down
      PROVE  TimeInv'
  <2>1. Waits'
    BY <1>4 DEF TimeInv, Waits
  <2>2. Fresh'
    BY <1>1, <1>2, <1>4 DEF TimeInv, Fresh
  <2>3. Awaited'
    <3> SUFFICES ASSUME NEW q \in Processors
                 PROVE  /\ pc'[q] \in {"unsent", "timed", "asleep"} => FrontBy(wait'[q])
                        /\ pc'[q] \in {"top", "locked"} => FrontBy(Slack - 1)
                        /\ pc'[q] = "popped" => items[unsent'[q].key].due < Slack
      BY <1>1 DEF Awaited, FrontBy
    <3> QED
      BY <1>4 DEF TimeInv, Awaited
  <2> QED
    BY <1>3, <2>1, <2>2, <2>3 DEF TimeInv
<1>5. wait[p] < Interval + Slack + MaxLag
      /\ \A q \in Processors : wait[q] < Interval + Slack + MaxLag
  BY DEF TimeInv, Waits
<1>6. CASE EnterProcess(p)
  <2>1. /\ pc'[p] = "top" /\ \A q \in Threads \ {p} : pc'[q] = pc[q]
        /\ UNCHANGED <<wait, unsent>> /\ process_lock' = p /\ process_lock = None
        /\ pc[p] = "waiting"
    BY <1>0, <1>6, Moved DEF EnterProcess, rounds
  <2>2. ~shutting_down
    BY <1>0, <2>1 DEF IInv, ControlInv, Destroying, Released, Crashed
  <2>3. FrontBy(Slack - 1)
    BY <2>1, <2>2, FrontDue DEF TimeInv, Fresh, FrontBy
  <2> QED
    BY <1>0, <1>4, <1>5, <2>1, <2>3, NameAssumption DEF Threads
<1>7. CASE LockManager(p) \/ Stop(p)
  <2>1. /\ \A q \in Threads \ {p} : pc'[q] = pc[q]
        /\ UNCHANGED <<wait, unsent, process_lock>>
        /\ \/ pc[p] = "top" /\ pc'[p] = "locked"
           \/ pc'[p] = "leaving" /\ shutting_down
    BY <1>0, <1>7, Moved DEF LockManager, Stop, rounds
  <2>2. pc[p] = "top" => FrontBy(Slack - 1)
    BY DEF TimeInv, Awaited
  <2> QED
    BY <1>0, <1>4, <1>5, <2>1, <2>2
<1>8. CASE LeaveProcess(p)
  <2>1. /\ pc[p] = "leaving" /\ pc'[p] = "out" /\ \A q \in Threads \ {p} : pc'[q] = pc[q]
        /\ UNCHANGED <<wait, unsent>>
    BY <1>0, <1>8, Moved DEF LeaveProcess, rounds
  <2>2. shutting_down
    BY <2>1 DEF TimeInv, Fresh
  <2> QED
    BY <1>0, <1>4, <1>5, <2>1, <2>2
<1>9. CASE Idle(p)
  <2>1. /\ pc'[p] = "timed" /\ \A q \in Threads \ {p} : pc'[q] = pc[q]
        /\ wait' = [wait EXCEPT ![p] = Interval] /\ UNCHANGED <<unsent, process_lock>>
        /\ queues = <<>>
    BY <1>0, <1>9, Moved DEF Idle, NothingToSend
  <2>2. wait'[p] = Interval /\ \A q \in Processors \ {p} : wait'[q] = wait[q]
    BY <1>0, <2>1
  <2>3. FrontBy(wait'[p])
    BY <2>1 DEF FrontBy
  <2>4. wait'[p] < Interval + Slack + MaxLag
    BY <1>0, <2>2
  <2> QED
    BY <1>0, <1>4, <2>1, <2>2, <2>3, <2>4
<1>10. CASE HoldBack(p)
  <2> DEFINE d == items[Head(queues)].due
  <2>1. /\ pc'[p] = "timed" /\ \A q \in Threads \ {p} : pc'[q] = pc[q]
        /\ wait' = [wait EXCEPT ![p] = d] /\ UNCHANGED <<unsent, process_lock>>
        /\ queues # <<>> /\ d # Unset
    BY <1>0, <1>10, Moved DEF HoldBack, NothingToSend, NotDue
  <2>2. d \in Int /\ d < Interval + Slack
    BY <2>1, FrontDue DEF TimeInv, Dues
  <2> HIDE DEF d
  <2>3. wait'[p] = d /\ \A q \in Processors \ {p} : wait'[q] = wait[q]
    BY <1>0, <2>1
  <2>4. d <= d /\ d < Interval + Slack + MaxLag
    BY <1>0, <2>2
  <2>5. FrontBy(wait'[p])
    BY <2>3, <2>4 DEF FrontBy, d
  <2> QED
    BY <1>0, <1>4, <2>1, <2>3, <2>4, <2>5
<1>11. CASE Dispatch(p) \/ Sleep(p)
  <2>1. /\ pc[p] \in {"unsent", "timed"} /\ pc'[p] \in {"timed", "asleep"}
        /\ \A q \in Threads \ {p} : pc'[q] = pc[q]
        /\ UNCHANGED <<wait, process_lock>>
        /\ unsent' = unsent \/ unsent' = [unsent EXCEPT ![p] = None]
    BY <1>0, <1>11, Moved DEF Dispatch, Sleep, locks, rounds
  <2>2. \A q \in Processors \ {p} : unsent'[q] = unsent[q]
    BY <1>0, <2>1
  <2>3. FrontBy(wait[p])
    BY <2>1 DEF TimeInv, Awaited
  <2> QED
    BY <1>0, <1>4, <1>5, <2>1, <2>2, <2>3
<1>12. CASE Loop(p) \/ Wake(p)
  <2>1. /\ pc[p] \in {"timed", "asleep"} /\ pc'[p] = "top"
        /\ \A q \in Threads \ {p} : pc'[q] = pc[q]
        /\ wait' = [wait EXCEPT ![p] = 0] /\ UNCHANGED <<unsent, process_lock>>
        /\ wait[p] < Slack \/ wait[p] <= 0
    BY <1>0, <1>12, Moved DEF Loop, Wake, locks
  <2>2. FrontBy(wait[p]) /\ wait[p] \in Int
    BY <1>0, <2>1 DEF TimeInv, Awaited
  <2>3. FrontBy(Slack - 1)
    <3>1. queues # <<>> => items[Head(queues)].due \in Int \cup {Unset}
      BY FrontDue
    <3>2. wait[p] <= Slack - 1
      BY <1>0, <2>1, <2>2
    <3> QED
      BY <1>0, <2>2, <3>1, <3>2 DEF FrontBy
  <2>4. wait'[p] = 0 /\ \A q \in Processors \ {p} : wait'[q] = wait[q]
    BY <1>0, <2>1
  <2>5. wait'[p] < Interval + Slack + MaxLag
    BY <1>0, <2>4
  <2> QED
    BY <1>0, <1>4, <2>1, <2>3, <2>4, <2>5
<1>13. CASE Crash(p)
  <2>1. \A q \in Processors : pc'[q] = "crashed"
    BY <1>0, <1>13 DEF Crash
  <2>2. UNCHANGED <<wait, process_lock>>
    BY <1>13 DEF Crash, locks, rounds
  <2> QED
    BY <1>1, <1>2, <1>3, <2>1, <2>2 DEF TimeInv, Waits, Awaited, Fresh
<1>14. CASE AwaitProcess(p)
  <2>1. /\ pc'[p] = "waiting" /\ \A q \in Threads \ {p} : pc'[q] = pc[q]
        /\ UNCHANGED <<wait, unsent, process_lock>>
    BY <1>0, <1>14, Moved DEF AwaitProcess, rounds
  <2> QED
    BY <1>0, <1>4, <1>5, <2>1
<1> QED
  BY <1>6, <1>7, <1>8, <1>9, <1>10, <1>11, <1>12, <1>13, <1>14

\* get_target_time covers the due time of the front queue, and no more.
LEMMA TargetCovers ==
  ASSUME NEW q, NEW i,
         q # <<>> => \/ i[Head(q)].due = Unset
                     \/ /\ i[Head(q)].due \in Int
                        /\ i[Head(q)].due < Interval + Slack
  PROVE  /\ Target(q, i) \in Int
         /\ Target(q, i) < Interval + Slack
         /\ q # <<>> => i[Head(q)].due = Unset \/ i[Head(q)].due <= Target(q, i)
<1>1. CASE q = <<>>
  BY <1>1, Bounds DEF Target
<1>2. CASE q # <<>> /\ i[Head(q)].due = Unset
  BY <1>2, Bounds DEF Target
<1>3. CASE q # <<>> /\ i[Head(q)].due # Unset
  BY <1>3, Bounds DEF Target
<1> QED
  BY <1>1, <1>2, <1>3

\* A reaped queue leaves the next one in front, and its due time is the target.
LEMMA ReapTimes ==
  ASSUME TimeInv, IInv, IInv', NEW p \in Processors, Reap(p)
  PROVE  TimeInv'
<1>0. /\ Interval \in Nat \ {0} /\ Slack \in Nat \ {0} /\ MaxLag \in Nat
      /\ wait \in [Processors -> Int] /\ p \in Threads /\ Processors \subseteq Threads
      /\ items \in [Keys -> Item \cup {None}]
  BY Bounds DEF IInv, TableInv, TableType, RoundType, Threads
<1>1. /\ pc[p] = "locked" /\ pc'[p] = "timed" /\ \A q \in Threads \ {p} : pc'[q] = pc[q]
      /\ items' = [items EXCEPT ![Head(queues)] = None]
      /\ wait' = [wait EXCEPT ![p] = Target(queues', items')]
      /\ UNCHANGED <<lag, process_lock, shutting_down>>
  BY <1>0, Moved DEF Reap, NothingToSend
<1>2. \A k \in Mapped' : k \in Mapped /\ items'[k] = items[k]
  BY <1>0, <1>1 DEF Mapped
<1>3. Dues' /\ Lags' /\ Fresh'
  <2>1. \A q \in Processors : pc'[q] = "leaving" => pc[q] = "leaving"
    BY <1>0, <1>1
  <2> QED
    BY <1>1, <1>2, <2>1 DEF TimeInv, Dues, Lags, Fresh
<1>4. queues' # <<>> => \/ items'[Head(queues')].due = Unset
                        \/ /\ items'[Head(queues')].due \in Int
                           /\ items'[Head(queues')].due < Interval + Slack
  <2>1. queues' # <<>> => Head(queues') \in Mapped'
    BY ListsTail DEF IInv, TableInv, TableType
  <2>2. \A k \in Mapped' : items'[k].due \in Int \cup {Unset}
    BY <1>2, MappedItem, IInvMeaning DEF Item
  <2> QED
    BY <1>3, <2>1, <2>2 DEF Dues
<1>5. /\ wait'[p] = Target(queues', items')
      /\ \A q \in Processors \ {p} : wait'[q] = wait[q] /\ pc'[q] \in {"out", "waiting"}
  <2>1. \A q \in Processors \ {p} : pc[q] \in {"out", "waiting"}
    BY <1>1, LoopAlone
  <2> QED
    BY <1>0, <1>1, <2>1
<1>6. /\ wait'[p] \in Int /\ wait'[p] < Interval + Slack
      /\ queues' # <<>> => \/ items'[Head(queues')].due = Unset
                           \/ items'[Head(queues')].due <= wait'[p]
  BY <1>4, <1>5, TargetCovers
<1>7. Waits'
  BY <1>0, <1>5, <1>6 DEF TimeInv, Waits
<1>8. Awaited'
  BY <1>1, <1>5, <1>6 DEF Awaited, FrontBy
<1> QED
  BY <1>3, <1>7, <1>8 DEF TimeInv

\* A queue that is served is due, or becomes so now.
LEMMA ServeTimes ==
  ASSUME TimeInv, IInv, IInv', NEW p \in Processors, Serve(p)
  PROVE  TimeInv'
<1> DEFINE k == Head(queues)
<1>0. /\ Interval \in Nat \ {0} /\ Slack \in Nat \ {0} /\ MaxLag \in Nat
      /\ Past \in Int /\ Past <= 0
      /\ lag \in [Processors -> Int] /\ p \in Threads /\ Processors \subseteq Threads
      /\ items \in [Keys -> Item \cup {None}]
      /\ unsent \in [Processors -> Unsent \cup {None}]
  BY Bounds DEF IInv, TableInv, TableType, RoundType, Threads
<1>1. /\ pc[p] = "locked" /\ pc'[p] = "popped" /\ \A q \in Threads \ {p} : pc'[q] = pc[q]
      /\ items' = [items EXCEPT ![k] = Served(items[k])] /\ queues # <<>>
      /\ lag' = [lag EXCEPT ![p] = 0] /\ ~NotDue(items[k].due) /\ items[k].buffer.size > 0
      /\ UNCHANGED <<wait, process_lock, shutting_down>>
      /\ unsent'[p].key = k
  BY <1>0, Moved DEF Serve
<1>2. k \in Keys /\ k \in Mapped /\ items[k].due \in Int \cup {Unset} /\ items[k] \in Item
  BY <1>1, FrontDue, FrontItem
<1>3. Served(items[k]).due = IF items[k].due = Unset THEN 0 ELSE items[k].due
  BY DEF Served
<1>4. Served(items[k]) # None
  BY <1>1, <1>2, ServedType, NoneIsNoItem
<1> HIDE DEF k
<1>5. /\ Mapped' = Mapped /\ items'[k].due = Served(items[k]).due
      /\ \A l \in Mapped \ {k} : items'[l] = items[l]
  BY <1>0, <1>1, <1>2, <1>4 DEF Mapped
<1>6. /\ items'[k].due >= Past /\ items'[k].due < Slack /\ items'[k].due < Interval + Slack
  <2>1. items[k].due # Unset => items[k].due >= Past /\ items[k].due < Slack
    BY <1>0, <1>1, <1>2 DEF TimeInv, Dues, NotDue
  <2>2. CASE items[k].due = Unset
    <3>1. items'[k].due = 0
      BY <1>3, <1>5, <2>2
    <3> QED
      BY <1>0, <3>1
  <2>3. CASE items[k].due # Unset
    <3>1. items'[k].due = items[k].due /\ items[k].due \in Int
      BY <1>2, <1>3, <1>5, <2>3
    <3> QED
      BY <1>0, <2>1, <2>3, <3>1
  <2> QED
    BY <2>2, <2>3
<1>7. Dues'
  BY <1>5, <1>6 DEF TimeInv, Dues
<1>8. Lags' /\ Waits'
  BY <1>0, <1>1 DEF TimeInv, Lags, Waits
<1>9. \A q \in Processors \ {p} : pc'[q] \in {"out", "waiting"}
  BY <1>0, <1>1, LoopAlone
<1>10. Awaited'
  BY <1>1, <1>6, <1>9 DEF Awaited
<1>11. Fresh'
  <2>1. process_lock' # None
    BY <1>1, NameAssumption DEF IInv, ControlInv, Exclusion
  <2> QED
    BY <1>1, <1>9, <2>1 DEF Fresh
<1> QED
  BY <1>7, <1>8, <1>10, <1>11 DEF TimeInv

\* The served queue is booked one interval ahead, from its due time or from now.
LEMMA RescheduleTimes ==
  ASSUME TimeInv, IInv, IInv', NEW p \in Processors, Reschedule(p)
  PROVE  TimeInv'
<1> DEFINE k == unsent[p].key
           i == [items[k] EXCEPT !.due = Rescheduled(items[k].due)]
           late == IF unsent[p].packet = Empty THEN lag[p] ELSE 0
<1>0. /\ Interval \in Nat \ {0} /\ Slack \in Nat \ {0} /\ MaxLag \in Nat
      /\ Past \in Int /\ Past <= 0
      /\ lag \in [Processors -> Int] /\ p \in Threads /\ Processors \subseteq Threads
      /\ wait \in [Processors -> Int]
      /\ items \in [Keys -> Item \cup {None}]
  BY Bounds DEF IInv, TableInv, TableType, RoundType, Threads
<1>1. /\ pc[p] = "popped" /\ pc'[p] \in {"timed", "unsent"}
      /\ \A q \in Threads \ {p} : pc'[q] = pc[q]
  BY <1>0, Moved DEF Reschedule
<1>2. /\ items' = [items EXCEPT ![k] = i]
      /\ wait' = [wait EXCEPT ![p] = Target(queues, items') + late]
      /\ lag' = [lag EXCEPT ![p] = 0]
      /\ UNCHANGED <<queues, process_lock, shutting_down>>
  BY DEF Reschedule
<1>3. /\ k \in Mapped /\ k \in Keys /\ items[k] \in Item /\ items[k].due \in Int
      /\ items[k].due < Slack /\ items[k].due >= Past
  <2>1. /\ k \in Mapped /\ k \in Keys /\ items[k] \in Item /\ items[k].due \in Int
        /\ items[k].due < Slack
    BY <1>0, <1>1 DEF IInv, TableInv, Carrying, Mapped, TimeInv, Awaited
  <2> QED
    BY <2>1, Bounds DEF TimeInv, Dues
<1>4. i.due = Rescheduled(items[k].due) /\ i # None
  <2>1. Rescheduled(items[k].due) \in Int
    BY <1>3, TimeTypes
  <2> QED
    BY <1>3, <2>1, NoneIsNoItem DEF Item
<1>5. /\ Rescheduled(items[k].due) \in Int
      /\ Rescheduled(items[k].due) >= Past
      /\ Rescheduled(items[k].due) < Interval + Slack
  BY <1>0, <1>3 DEF Rescheduled
<1>6. late \in 0 .. MaxLag
  BY <1>0 DEF TimeInv, Lags
<1> HIDE DEF k, i, late
<1>7. /\ Mapped' = Mapped /\ items'[k] = i
      /\ \A l \in Mapped \ {k} : items'[l] = items[l]
  BY <1>0, <1>2, <1>3, <1>4 DEF Mapped
<1>8. Dues'
  BY <1>4, <1>5, <1>7 DEF TimeInv, Dues
<1>9. queues' # <<>> => \/ items'[Head(queues')].due = Unset
                        \/ /\ items'[Head(queues')].due \in Int
                           /\ items'[Head(queues')].due < Interval + Slack
  <2>1. queues' # <<>> => Head(queues') \in Mapped'
    BY ListsTail DEF IInv, TableInv, TableType
  <2>2. \A l \in Mapped' : items'[l].due \in Int \cup {Unset}
    BY <1>4, <1>5, <1>7, MappedItem, IInvMeaning DEF Item
  <2> QED
    BY <1>8, <2>1, <2>2 DEF Dues
<1>10. /\ Target(queues', items') \in Int
       /\ Target(queues', items') < Interval + Slack
       /\ queues' # <<>> => \/ items'[Head(queues')].due = Unset
                            \/ items'[Head(queues')].due <= Target(queues', items')
  BY <1>9, TargetCovers
<1>11. wait'[p] = Target(queues', items') + late
       /\ \A q \in Processors \ {p} : wait'[q] = wait[q] /\ pc'[q] \in {"out", "waiting"}
  <2>1. \A q \in Processors \ {p} : pc[q] \in {"out", "waiting"}
    BY <1>1, LoopAlone
  <2> QED
    BY <1>0, <1>1, <1>2, <2>1
<1>12. wait'[p] < Interval + Slack + MaxLag /\ wait'[p] >= Target(queues', items')
  BY <1>0, <1>6, <1>10, <1>11
<1>13. Waits'
  BY <1>11, <1>12 DEF TimeInv, Waits
<1>14. Awaited'
  <2>1. FrontBy(wait[p])'
    <3>1. wait'[p] \in Int
      BY <1>6, <1>10, <1>11
    <3> QED
      BY <1>9, <1>10, <1>12, <3>1 DEF FrontBy
  <2> QED
    BY <1>1, <1>11, <2>1 DEF Awaited
<1>15. Lags'
  BY <1>0, <1>2 DEF TimeInv, Lags
<1>16. Fresh'
  <2>1. process_lock' # None
    BY <1>1, <1>2, NameAssumption DEF IInv, ControlInv, Exclusion
  <2> QED
    BY <1>1, <1>11, <2>1 DEF Fresh
<1> QED
  BY <1>8, <1>13, <1>14, <1>15, <1>16 DEF TimeInv

\* When time passes or the clock is set forward, due times come nearer, and no
\* wait ends before the due time it is for.
LEMMA TimePasses ==
  ASSUME TimeInv, IInv,
         UNCHANGED <<queues, pc, unsent, process_lock, shutting_down>>,
         Mapped' = Mapped,
         \A k \in Mapped : /\ items[k].due = Unset => items'[k].due = Unset
                           /\ items[k].due # Unset => /\ items'[k].due \in Int
                                                      /\ items'[k].due <= items[k].due
                                                      /\ items'[k].due >= Past,
         Lags', Waits',
         \A p \in Processors, k \in Mapped :
           /\ pc[p] \in {"unsent", "timed", "asleep"}
           /\ items[k].due # Unset /\ items[k].due <= wait[p]
           => items'[k].due <= wait'[p]
  PROVE  TimeInv'
<1>1. \A k \in Mapped : items[k].due \in Int \cup {Unset}
  BY MappedItem, IInvMeaning DEF Item
<1>2. Interval \in Nat /\ Slack \in Nat /\ Past \in Int
  BY Bounds
<1>3. Dues'
  BY <1>1, <1>2 DEF TimeInv, Dues
<1>4. Fresh'
  BY DEF TimeInv, Fresh
<1>5. Awaited'
  <2> SUFFICES ASSUME NEW p \in Processors
               PROVE  /\ pc[p] \in {"unsent", "timed", "asleep"} => FrontBy(wait[p])'
                      /\ pc[p] \in {"top", "locked"} => FrontBy(Slack - 1)'
                      /\ pc[p] = "popped" => items'[unsent[p].key].due < Slack
    BY DEF Awaited
  <2>1. ASSUME pc[p] \in {"unsent", "timed", "asleep"} PROVE FrontBy(wait[p])'
    BY <1>1, <2>1, FrontDue DEF TimeInv, Awaited, FrontBy
  <2>2. ASSUME pc[p] \in {"top", "locked"} PROVE FrontBy(Slack - 1)'
    <3>1. FrontBy(Slack - 1)
      BY <2>2 DEF TimeInv, Awaited
    <3>2. queues # <<>> => Head(queues) \in Mapped
      BY FrontDue
    <3> QED
      BY <1>1, <1>2, <3>1, <3>2 DEF FrontBy
  <2>3. ASSUME pc[p] = "popped" PROVE items'[unsent[p].key].due < Slack
    <3>1. unsent[p].key \in Mapped /\ items[unsent[p].key].due \in Int
          /\ items[unsent[p].key].due < Slack
      BY <2>3 DEF IInv, TableInv, Carrying, TimeInv, Awaited
    <3> QED
      BY <1>2, <3>1, Bounds
  <2> QED
    BY <2>1, <2>2, <2>3
<1> QED
  BY <1>3, <1>4, <1>5 DEF TimeInv

\* How far the clock moves a due time or a target.
LEMMA LaterMoves ==
  /\ \A t \in Int : /\ Later(t) \in Int /\ Later(t) >= Past
                    /\ t >= Past => Later(t) <= t
                    /\ \A u \in Int : t <= u => Later(t) <= Later(u)
                    /\ t < Interval + Slack + MaxLag => Later(t) < Interval + Slack + MaxLag
  /\ \A t \in Int, d \in Nat :
       /\ Shift(t, d) \in Int /\ Shift(t, d) >= Past
       /\ t >= Past => Shift(t, d) <= t
       /\ \A u \in Int : t <= u => Shift(t, d) <= Shift(u, d)
       /\ t < Interval + Slack + MaxLag => Shift(t, d) < Interval + Slack + MaxLag
BY Bounds DEF Later, Shift

\* A tick.
LEMMA TickTimes ==
  ASSUME TimeInv, IInv, Tick
  PROVE  TimeInv'
<1>0. /\ items \in [Keys -> Item \cup {None}] /\ MaxLag \in Nat
      /\ wait \in [Processors -> Int] /\ lag \in [Processors -> Int]
  BY Bounds DEF IInv, TableInv, TableType, RoundType
<1>1. \A k \in Keys : items'[k] = IF items[k] = None \/ items[k].due = Unset
                                  THEN items[k]
                                  ELSE [items[k] EXCEPT !.due = Later(items[k].due)]
  BY DEF Tick
<1>2. \A k \in Mapped : items[k] \in Item /\ items[k] # None
  BY <1>0 DEF Mapped
<1>3. ASSUME NEW k \in Mapped, items[k].due # Unset
      PROVE  items[k].due \in Int /\ items'[k].due = Later(items[k].due) /\ items'[k] # None
  <2>1. items[k] \in Item /\ items[k].due \in Int /\ k \in Keys
    BY <1>2, <1>3 DEF Item, Mapped
  <2>2. Later(items[k].due) \in Int
    BY <2>1, TimeTypes
  <2>3. items'[k] = [items[k] EXCEPT !.due = Later(items[k].due)]
    BY <1>1, <1>2, <1>3, <2>1
  <2> QED
    BY <2>1, <2>2, <2>3, NoneIsNoItem DEF Item
<1>4. Mapped' = Mapped
  BY <1>1, <1>2, <1>3 DEF Mapped
<1>5. ASSUME NEW k \in Mapped
      PROVE  /\ items[k].due = Unset => items'[k].due = Unset
             /\ items[k].due # Unset => /\ items'[k].due \in Int
                                        /\ items'[k].due <= items[k].due
                                        /\ items'[k].due >= Past
  <2>1. items[k].due = Unset => items'[k].due = Unset
    BY <1>1 DEF Mapped
  <2>2. items[k].due # Unset => items[k].due \in Int /\ items[k].due >= Past
    BY <1>3 DEF TimeInv, Dues
  <2> QED
    BY <1>3, <2>1, <2>2, LaterMoves
<1>6. Lags'
  <2> SUFFICES ASSUME NEW p \in Processors PROVE lag'[p] \in 0 .. MaxLag
    BY DEF Lags
  <2>1. lag'[p] = IF pc[p] = "popped" THEN lag[p] + 1 ELSE lag[p]
    BY DEF Tick
  <2>2. pc[p] = "popped" => lag[p] < MaxLag
    BY DEF Tick
  <2> QED
    BY <1>0, <2>1, <2>2 DEF TimeInv, Lags
<1>7. \A p \in Processors : wait'[p] = IF Measured(p) \/ pc[p] = "asleep"
                                       THEN Later(wait[p]) ELSE wait[p]
  BY DEF Tick
<1>8. Waits'
  BY <1>0, <1>7, LaterMoves DEF TimeInv, Waits
<1>9. ASSUME NEW p \in Processors, NEW k \in Mapped,
             items[k].due # Unset, items[k].due <= wait[p]
      PROVE  items'[k].due <= wait'[p]
  <2>1. /\ items[k].due \in Int /\ items'[k].due = Later(items[k].due)
        /\ wait[p] \in Int /\ items[k].due >= Past
    BY <1>0, <1>3, <1>9 DEF TimeInv, Dues
  <2>2. Later(items[k].due) <= items[k].due /\ Later(items[k].due) <= Later(wait[p])
        /\ Later(items[k].due) \in Int
    BY <1>9, <2>1, LaterMoves
  <2> QED
    BY <1>7, <1>9, <2>1, <2>2
<1> QED
  BY <1>4, <1>5, <1>6, <1>8, <1>9, TimePasses DEF Tick, locks

\* A clock that is set forward.
LEMMA ForwardTimes ==
  ASSUME TimeInv, IInv, NEW d \in ClockSteps, d >= 0, ClockStep(d)
  PROVE  TimeInv'
<1>0. /\ items \in [Keys -> Item \cup {None}] /\ MaxLag \in Nat /\ d \in Nat
      /\ wait \in [Processors -> Int] /\ lag \in [Processors -> Int]
  <2>1. d \in Int
    BY TimeAssumption
  <2> QED
    BY <2>1, Bounds DEF IInv, TableInv, TableType, RoundType
<1>1. \A k \in Keys : items'[k] = IF items[k] = None \/ items[k].due = Unset
                                  THEN items[k]
                                  ELSE [items[k] EXCEPT !.due = Shift(items[k].due, d)]
  BY DEF ClockStep
<1>2. \A k \in Mapped : items[k] \in Item /\ items[k] # None
  BY <1>0 DEF Mapped
<1>3. ASSUME NEW k \in Mapped, items[k].due # Unset
      PROVE  items[k].due \in Int /\ items'[k].due = Shift(items[k].due, d) /\ items'[k] # None
  <2>1. items[k] \in Item /\ items[k].due \in Int /\ k \in Keys
    BY <1>2, <1>3 DEF Item, Mapped
  <2>2. Shift(items[k].due, d) \in Int
    BY <1>0, <2>1, LaterMoves
  <2>3. items'[k] = [items[k] EXCEPT !.due = Shift(items[k].due, d)]
    BY <1>1, <1>2, <1>3, <2>1
  <2> QED
    BY <2>1, <2>2, <2>3, NoneIsNoItem DEF Item
<1>4. Mapped' = Mapped
  BY <1>1, <1>2, <1>3 DEF Mapped
<1>5. ASSUME NEW k \in Mapped
      PROVE  /\ items[k].due = Unset => items'[k].due = Unset
             /\ items[k].due # Unset => /\ items'[k].due \in Int
                                        /\ items'[k].due <= items[k].due
                                        /\ items'[k].due >= Past
  <2>1. items[k].due = Unset => items'[k].due = Unset
    BY <1>1 DEF Mapped
  <2>2. items[k].due # Unset => items[k].due \in Int /\ items[k].due >= Past
    BY <1>3 DEF TimeInv, Dues
  <2> QED
    BY <1>0, <1>3, <2>1, <2>2, LaterMoves
<1>6. Lags'
  <2> SUFFICES ASSUME NEW p \in Processors PROVE lag'[p] \in 0 .. MaxLag
    BY DEF Lags
  <2>1. lag'[p] = IF pc[p] = "popped" THEN lag[p] + d ELSE lag[p]
    BY DEF ClockStep
  <2>2. pc[p] = "popped" => lag[p] + d \in -MaxLag .. MaxLag
    BY DEF ClockStep
  <2> QED
    BY <1>0, <2>1, <2>2 DEF TimeInv, Lags
<1>7. \A p \in Processors : wait'[p] = IF Measured(p) THEN Shift(wait[p], d) ELSE wait[p]
  BY DEF ClockStep
<1>8. Waits'
  BY <1>0, <1>7, LaterMoves DEF TimeInv, Waits
<1>9. ASSUME NEW p \in Processors, NEW k \in Mapped,
             items[k].due # Unset, items[k].due <= wait[p]
      PROVE  items'[k].due <= wait'[p]
  <2>1. /\ items[k].due \in Int /\ items'[k].due = Shift(items[k].due, d)
        /\ wait[p] \in Int /\ items[k].due >= Past
    BY <1>0, <1>3, <1>9 DEF TimeInv, Dues
  <2>2. /\ Shift(items[k].due, d) <= items[k].due
        /\ Shift(items[k].due, d) <= Shift(wait[p], d)
        /\ Shift(items[k].due, d) \in Int
    BY <1>0, <1>9, <2>1, LaterMoves
  <2> QED
    BY <1>7, <1>9, <2>1, <2>2
<1> QED
  BY <1>4, <1>5, <1>6, <1>8, <1>9, TimePasses DEF ClockStep, locks

\* Every step, as long as the clock is not set back, keeps the invariant.
LEMMA TimeStep == TimeInv /\ IInv /\ IInv' /\ [Forward]_vars => TimeInv'
<1> SUFFICES ASSUME TimeInv, IInv, IInv', [Forward]_vars PROVE TimeInv'
  OBVIOUS
<1>1. ASSUME NEW c \in Clients,
             Enter(c) \/ ClientStep(c) \/ DestroyLock(c) \/ DestroyStep(c)
      PROVE  TimeInv'
  BY <1>1, ClientTimes
<1>2. ASSUME NEW p \in Processors,
             AwaitProcess(p) \/ EnterProcess(p) \/ LockManager(p) \/ ProcessorStep(p)
      PROVE  TimeInv'
  BY <1>2, LoopTimes, ReapTimes, ServeTimes, RescheduleTimes DEF ProcessorStep
<1>3. CASE Tick
  BY <1>3, TickTimes
<1>4. ASSUME NEW d \in ClockSteps, d >= 0, ClockStep(d) PROVE TimeInv'
  BY <1>4, ForwardTimes
<1>5. CASE UNCHANGED vars
  BY <1>5 DEF vars, TimeInv, Dues, Lags, Waits, Awaited, FrontBy, Fresh, Mapped
<1> QED
  BY <1>1, <1>2, <1>3, <1>4, <1>5 DEF Forward

\* No queue, no wait and no thread in the loop at first.
LEMMA TimeInit == Init => TimeInv
<1> SUFFICES ASSUME Init PROVE TimeInv
  OBVIOUS
<1>1. Mapped = {} /\ \A p \in Processors : pc[p] = "out"
  BY DEF Init, Mapped, Threads
<1>2. Lags /\ Waits
  BY Bounds DEF Init, Lags, Waits
<1> QED
  BY <1>1, <1>2 DEF TimeInv, Dues, Awaited, Fresh

\* A step that does not set the clock back is one of Forward.
LEMMA ForwardSteps == Next /\ NotSetBack => Forward
<1>1. ClockSteps \subseteq Int
  BY TimeAssumption
<1> QED
  BY <1>1 DEF Next, Forward, NotSetBack

\* So that the invariant holds throughout.
LEMMA ForwardTimeInv == Spec /\ NeverSetBack => []TimeInv
<1>1. [Next]_vars /\ [NotSetBack]_vars => [Forward]_vars
  BY ForwardSteps
<1> QED
  BY <1>1, TimeInit, TimeStep, SpecIInv, PTL DEF Spec, NeverSetBack

\* What it says of a thread that looks at the queues, and of the due times.
LEMMA TimeInvMeaning == IInv /\ TimeInv => NeverEarly /\ BookedAhead
<1> SUFFICES ASSUME IInv, TimeInv PROVE NeverEarly /\ BookedAhead
  OBVIOUS
<1>1. BookedAhead
  BY DEF TimeInv, Dues, Waits, BookedAhead
<1>2. NeverEarly
  <2> SUFFICES ASSUME NEW p \in Processors, pc[p] \in {"top", "locked"}, queues # <<>>,
                      items[Head(queues)].due # Unset
               PROVE  ~(items[Head(queues)].due >= Slack)
    BY DEF NeverEarly, NotDue
  <2>1. items[Head(queues)].due \in Int /\ items[Head(queues)].due <= Slack - 1
    BY FrontDue DEF TimeInv, Awaited, FrontBy
  <2> QED
    BY <2>1, Bounds
<1> QED
  BY <1>1, <1>2

\* A thread that has slept is never too early for the front queue, so that it
\* never holds it back again (get_target_time, the sleep and the comparison with
\* the slack in process_with_socket), unless the clock is set back.
THEOREM SleepIsLongEnough == Spec /\ NeverSetBack => []NeverEarly
BY ForwardTimeInv, SpecIInv, TimeInvMeaning, PTL

\* Catching up books no queue further ahead than an interval and the slack, and
\* no sleep is longer than that and the lag, unless the clock is set back.
THEOREM SleepIsShortEnough == Spec /\ NeverSetBack => []BookedAhead
BY ForwardTimeInv, SpecIInv, TimeInvMeaning, PTL

-----------------------------------------------------------------------------
(* The bucket of each queue                                                *)

\* The history takes nothing away, and the clock of Pacing is never adjusted.
LEMMA PaceIsForward == [PaceNext]_pacevars => [Forward]_vars
<1>1. PaceNext => Forward
  BY DEF PaceNext, Fill, Reset, Leak, Keep, Forward, ProcessorStep
<1> QED
  BY <1>1 DEF pacevars

\* Every step along which the clock goes on is a step of the manager.
LEMMA ForwardIsNext == [Forward]_vars => [Next]_vars
BY DEF Forward, Next

\* So that both invariants hold under Pacing.
LEMMA PaceTimeInv == PaceSpec => [](IInv /\ TimeInv)
<1>1. PaceInit => Init
  BY DEF PaceInit
<1> QED
  BY <1>1, PaceIsForward, ForwardIsNext, TimeInit, TimeStep, SpecIInv, PTL
  DEF PaceSpec, Spec

\* Where the clock is the one that is never set back, the loop neither serves a
\* queue early nor books it further ahead than its interval, without a further
\* hypothesis (process_next_locked and process_with_socket, with the buckets).
THEOREM PacedInTime == PaceSpec => [](NeverEarly /\ BookedAhead)
<1>1. IInv /\ TimeInv => NeverEarly /\ BookedAhead
  BY TimeInvMeaning
<1> QED
  BY <1>1, PaceTimeInv, PTL

\* A queue that is not there has nothing in its bucket, so that a queue that is
\* created again starts anew; a full bucket shows in the due time.
LevelInv ==
  /\ level \in [Keys -> Nat]
  /\ \A k \in Keys \ Mapped : level[k] = 0 \/ Deleted
  /\ LevelFollowsDue
  /\ BurstBounded

\* Between the pop of a packet of k and the second clock read.
Popped(k) == \E p \in Processors : pc[p] = "popped" /\ unsent[p].key = k

\* A due time as a number and the allowance that it gives.
LEMMA AllowanceIs ==
  ASSUME IInv, NEW k \in Mapped, items[k].due # Unset
  PROVE  /\ items[k].due \in Int
         /\ Popped(k) /\ -items[k].due >= 2 * Interval => Allowance(k) = Interval
         /\ Popped(k) /\ ~(-items[k].due >= 2 * Interval) =>
              Allowance(k) = items[k].due + 3 * Interval
         /\ ~Popped(k) => Allowance(k) = items[k].due + 2 * Interval
<1>1. items[k].due \in Int
  BY MappedItem, IInvMeaning DEF Item
<1> QED
  BY <1>1 DEF Allowance, Popped

\* A step that fills no bucket and changes no due time, but for new queues.
LEMMA LevelKept ==
  ASSUME LevelInv, IInv, IInv', Deleted => Deleted',
         level' \in [Keys -> Nat],
         \A k \in Keys : level'[k] = level[k] \/ level'[k] = 0,
         \A k \in Mapped' : \/ k \in Mapped /\ items'[k].due = items[k].due
                            \/ level'[k] = 0,
         \A k \in Mapped \ Mapped' : level'[k] = 0 \/ Deleted',
         \A k \in Mapped' : Popped(k)' <=> Popped(k)
  PROVE  LevelInv'
<1>1. \A k \in Keys \ Mapped' : level'[k] = 0 \/ Deleted'
  BY DEF LevelInv
<1>2. BurstBounded'
  BY Bounds DEF LevelInv, BurstBounded
<1>3. ASSUME NEW k \in Mapped', level'[k] > 0
      PROVE  items'[k].due # Unset /\ level'[k] <= Allowance(k)'
  <2>1. /\ k \in Mapped /\ items'[k].due = items[k].due /\ level'[k] = level[k]
        /\ k \in Keys
    BY <1>3 DEF LevelInv, Mapped
  <2>2. items[k].due # Unset /\ level[k] <= Allowance(k)
    BY <1>3, <2>1 DEF LevelInv, LevelFollowsDue
  <2>3. Allowance(k)' = Allowance(k)
    <3>1. Popped(k)' <=> Popped(k)
      OBVIOUS
    <3> QED
      BY <2>1, <3>1 DEF Allowance, Popped
  <2> QED
    BY <2>1, <2>2, <2>3
<1> QED
  BY <1>1, <1>2, <1>3 DEF LevelInv, LevelFollowsDue

\* The steps of Keep: calls, and the parts of a round that take no packet.
LEMMA KeepLevels ==
  ASSUME LevelInv, TimeInv, IInv, IInv', [Next]_vars, level' = level,
         \/ \E c \in Clients : Enter(c) \/ ClientStep(c) \/ DestroyLock(c) \/ DestroyStep(c)
         \/ \E p \in Processors :
              \/ AwaitProcess(p) \/ EnterProcess(p) \/ LockManager(p) \/ Stop(p)
              \/ LeaveProcess(p) \/ Idle(p) \/ HoldBack(p) \/ Dispatch(p) \/ Crash(p)
              \/ Loop(p) \/ Sleep(p) \/ Wake(p)
  PROVE  LevelInv'
<1>1. level \in [Keys -> Nat] /\ items \in [Keys -> Item \cup {None}]
      /\ unsent \in [Processors -> Unsent \cup {None}] /\ (Deleted => Deleted')
  BY DeletedStays DEF LevelInv, IInv, TableInv, TableType, RoundType
<1>2. ASSUME NEW c \in Clients,
             Enter(c) \/ ClientStep(c) \/ DestroyLock(c) \/ DestroyStep(c)
      PROVE  LevelInv'
  <2>1. \A p \in Processors : pc'[p] = pc[p] /\ unsent' = unsent
    BY <1>2, NameAssumption DEF Enter, ClientStep, PushExisting, PushNew, Remove,
       GetRemainingCapacity, Return, DestroyLock, DestroyStep, DestroySignal, DestroyJoin,
       DestroyFree, Move, rounds, IInv, ControlInv, ControlType, Threads
  <2>2. \A k : Popped(k)' <=> Popped(k)
    BY <2>1 DEF Popped
  <2>3. CASE UNCHANGED items
    <3>1. Mapped' = Mapped
      BY <2>3 DEF Mapped
    <3> QED
      BY <1>1, <2>2, <2>3, <3>1, LevelKept
  <2>4. ASSUME NEW k \in Keys, NEW x \in Packets, PushExisting(c, k, x) PROVE LevelInv'
    <3>1. /\ items' = [items EXCEPT ![k] = Pushed(items[k], x)] /\ k \in Mapped
          /\ items[k] \in Item
      BY <1>1, <2>4 DEF PushExisting, Mapped
    <3>2. Pushed(items[k], x) \in Item /\ Pushed(items[k], x).due = items[k].due
      BY <3>1, PushedType
    <3>3. Mapped' = Mapped /\ \A l \in Mapped : items'[l].due = items[l].due
      BY <1>1, <3>1, <3>2, NoneIsNoItem DEF Mapped
    <3> QED
      BY <1>1, <2>2, <3>3, LevelKept
  <2>5. ASSUME NEW k \in Keys, NEW x \in Packets, PushNew(c, k, x) PROVE LevelInv'
    <3>1. PICK a \in Resolved : items' = [items EXCEPT ![k] = Pushed(NewItem(a), x)]
      BY <2>5 DEF PushNew
    <3>2. k \notin Mapped /\ pc[c] = "in"
      BY <2>5 DEF PushNew, Return, Move
    <3>3. level[k] = 0
      BY <3>2 DEF LevelInv, Deleted, IInv, ControlInv, Destroying
    <3>4. NewItem(a) \in Item
      BY NewItemType DEF Resolved
    <3>5. Pushed(NewItem(a), x) \in Item
      BY <3>4, PushedType
    <3>6. Mapped' = Mapped \cup {k} /\ \A l \in Mapped : items'[l].due = items[l].due
      BY <1>1, <3>1, <3>2, <3>5, NoneIsNoItem DEF Mapped
    <3> QED
      BY <1>1, <2>2, <3>3, <3>6, LevelKept
  <2>6. ASSUME NEW k \in Keys, Remove(c, k), k \in Mapped PROVE LevelInv'
    <3> DEFINE i == [items[k] EXCEPT !.buffer = Drain(items[k].buffer)]
    <3>1. items' = [items EXCEPT ![k] = i] /\ items[k] \in Item
      BY <1>1, <2>6 DEF Remove, Mapped
    <3>2. i \in Item /\ i.due = items[k].due
      BY <3>1, DrainType DEF Item
    <3> HIDE DEF i
    <3>3. Mapped' = Mapped /\ \A l \in Mapped : items'[l].due = items[l].due
      BY <1>1, <2>6, <3>1, <3>2, NoneIsNoItem DEF Mapped
    <3> QED
      BY <1>1, <2>2, <3>3, LevelKept
  <2>7. CASE DestroyFree(c)
    <3>1. Mapped' = {} /\ pc'[c] = "deleted"
      BY <2>7 DEF DestroyFree, Move, Mapped, IInv, ControlInv, ControlType, Threads
    <3>2. Deleted'
      BY <3>1 DEF Deleted
    <3> QED
      BY <1>1, <3>1, <3>2, LevelKept
  <2> QED
    BY <1>2, <2>3, <2>4, <2>5, <2>6, <2>7 DEF Enter, ClientStep, Remove,
       GetRemainingCapacity, DestroyLock, DestroyStep, DestroySignal, DestroyJoin, table
<1>3. ASSUME NEW p \in Processors,
             \/ AwaitProcess(p) \/ EnterProcess(p) \/ LockManager(p) \/ Stop(p)
             \/ LeaveProcess(p) \/ Idle(p) \/ HoldBack(p) \/ Dispatch(p) \/ Crash(p)
             \/ Loop(p) \/ Sleep(p) \/ Wake(p)
      PROVE  LevelInv'
  <2>1. UNCHANGED items
    BY <1>3 DEF AwaitProcess, EnterProcess, LockManager, Stop, LeaveProcess, Idle,
       HoldBack, Dispatch, Crash, Loop, Sleep, Wake, table
  <2>2. Mapped' = Mapped
    BY <2>1 DEF Mapped
  <2>3. ASSUME NEW k PROVE Popped(k)' <=> Popped(k)
    <3>1. CASE Crash(p)
      <4>1. \A q \in Processors : pc[q] # "popped"
        BY <3>1 DEF Crash, IInv, ControlInv, Exclusion, Threads
      <4>2. \A q \in Processors : pc'[q] # "popped"
        BY <3>1 DEF Crash, Threads
      <4> QED
        BY <4>1, <4>2 DEF Popped
    <3>2. CASE ~Crash(p)
      <4>1. /\ pc[p] # "popped" /\ pc'[p] # "popped"
            /\ \A q \in Processors \ {p} : pc'[q] = pc[q] /\ unsent'[q] = unsent[q]
        BY <1>1, <1>3, <3>2 DEF AwaitProcess, EnterProcess, LockManager, Stop,
           LeaveProcess, Idle, HoldBack, NothingToSend, Dispatch, Loop, Sleep, Wake, Move, rounds, Threads,
           IInv, ControlInv, ControlType
      <4> QED
        BY <4>1 DEF Popped
    <3> QED
      BY <3>1, <3>2
  <2> QED
    BY <1>1, <2>1, <2>2, <2>3, LevelKept
<1> QED
  BY <1>2, <1>3

\* A reaped queue takes its bucket with it.
LEMMA ResetLevels ==
  ASSUME LevelInv, IInv, IInv', [Next]_vars, NEW p \in Processors, Reset(p)
  PROVE  LevelInv'
<1> DEFINE h == Head(queues)
<1>1. level \in [Keys -> Nat] /\ items \in [Keys -> Item \cup {None}]
      /\ unsent' = unsent /\ (Deleted => Deleted') /\ p \in Threads
      /\ Processors \subseteq Threads
  BY DeletedStays DEF LevelInv, IInv, TableInv, TableType, RoundType, Reset, Reap,
     NothingToSend, Threads
<1>2. /\ queues # <<>> /\ items' = [items EXCEPT ![h] = None]
      /\ level' = [level EXCEPT ![h] = 0]
      /\ pc[p] = "locked" /\ pc'[p] = "timed" /\ \A q \in Threads \ {p} : pc'[q] = pc[q]
  BY <1>1, Moved DEF Reset, Reap, NothingToSend
<1>3. h \in Keys
  BY <1>2, FrontDue
<1> HIDE DEF h
<1>4. /\ Mapped' = Mapped \ {h} /\ level' \in [Keys -> Nat] /\ level'[h] = 0
      /\ \A k \in Mapped' : items'[k] = items[k]
      /\ \A k \in Keys \ {h} : level'[k] = level[k]
  BY <1>1, <1>2, <1>3 DEF Mapped
<1>5. \A k : Popped(k)' <=> Popped(k)
  BY <1>1, <1>2 DEF Popped
<1> QED
  BY <1>1, <1>4, <1>5, LevelKept

\* A packet is taken from a queue whose bucket has room for it: what was in it
\* has leaked since, but for two intervals and what the due time is ahead.
LEMMA FillLevels ==
  ASSUME LevelInv, TimeInv, IInv, IInv', [Next]_vars, NEW p \in Processors, Fill(p)
  PROVE  LevelInv'
<1>k. PICK k : k = Head(queues)
  OBVIOUS
<1>0. /\ Interval \in Nat \ {0} /\ Slack \in Nat \ {0} /\ Unset \notin Int
      /\ level \in [Keys -> Nat] /\ items \in [Keys -> Item \cup {None}]
      /\ p \in Threads /\ Processors \subseteq Threads /\ (Deleted => Deleted')
  BY Bounds, DeletedStays DEF LevelInv, IInv, TableInv, TableType, Threads
<1>1. /\ pc[p] = "locked" /\ pc'[p] = "popped" /\ \A q \in Threads \ {p} : pc'[q] = pc[q]
      /\ items' = [items EXCEPT ![k] = Served(items[k])] /\ queues # <<>>
      /\ ~NotDue(items[k].due) /\ items[k].buffer.size > 0
      /\ unsent'[p].key = k /\ level' = [level EXCEPT ![k] = level[k] + Interval]
  <2>1. unsent \in [Processors -> Unsent \cup {None}]
    BY DEF IInv, TableInv, RoundType
  <2> QED
    BY <1>k, <1>0, <2>1, Moved DEF Fill, Serve
<1>2. k \in Keys /\ k \in Mapped /\ items[k].due \in Int \cup {Unset} /\ items[k] \in Item
  BY <1>k, <1>1, FrontDue, FrontItem
<1>3. Served(items[k]).due = (IF items[k].due = Unset THEN 0 ELSE items[k].due)
      /\ Served(items[k]) # None
  BY <1>1, <1>2, ServedType, NoneIsNoItem DEF Served
<1>4. /\ Mapped' = Mapped /\ items'[k].due = Served(items[k]).due
      /\ \A l \in Mapped \ {k} : items'[l] = items[l]
  BY <1>0, <1>1, <1>2, <1>3 DEF Mapped
<1>5. /\ \A q \in Processors : pc[q] # "popped"
      /\ \A q \in Processors \ {p} : pc'[q] # "popped"
  BY <1>0, <1>1, LoopAlone
<1>6. /\ \A l : ~Popped(l)
      /\ Popped(k)' /\ \A l : l # k => ~Popped(l)'
  <2>1. \A l : ~Popped(l)
    BY <1>5 DEF Popped
  <2>2. Popped(k)'
    BY <1>1 DEF Popped
  <2>3. ASSUME NEW l, l # k, NEW q \in Processors, pc'[q] = "popped"
        PROVE  unsent'[q].key # l
    BY <1>1, <1>5, <2>3
  <2>4. ASSUME NEW l, l # k PROVE ~Popped(l)'
    BY <2>3, <2>4 DEF Popped
  <2> QED
    BY <2>1, <2>2, <2>4
<1>7. /\ level' \in [Keys -> Nat] /\ level'[k] = level[k] + Interval
      /\ \A l \in Keys \ {k} : level'[l] = level[l]
  BY <1>0, <1>1, <1>2
<1>8. ASSUME NEW l \in Mapped, l # k, level'[l] > 0
      PROVE  items'[l].due # Unset /\ level'[l] <= Allowance(l)'
  <2>1. /\ level'[l] = level[l] /\ items'[l] = items[l]
        /\ items[l].due # Unset /\ level[l] <= Allowance(l)
    BY <1>4, <1>7, <1>8 DEF LevelInv, LevelFollowsDue, Mapped
  <2>2. Allowance(l)' = Allowance(l)
    BY <1>6, <1>8, <2>1 DEF Allowance, Popped
  <2> QED
    BY <2>1, <2>2
<1>9. /\ items'[k].due \in Int /\ items'[k].due < Slack
      /\ items[k].due = Unset => level[k] = 0 /\ items'[k].due = 0
      /\ items[k].due # Unset => items'[k].due = items[k].due
  <2>1. items[k].due = Unset => level[k] = 0
    BY <1>0, <1>2 DEF LevelInv, LevelFollowsDue
  <2> QED
    BY <1>0, <1>1, <1>2, <1>3, <1>4, <2>1 DEF NotDue
<1>10. level[k] = 0 \/ (items[k].due # Unset /\ level[k] <= items'[k].due + 2 * Interval)
  <2> SUFFICES ASSUME level[k] # 0
               PROVE  items[k].due # Unset /\ level[k] <= items'[k].due + 2 * Interval
    OBVIOUS
  <2>1. level[k] > 0
    BY <1>0, <1>2
  <2>2. items[k].due # Unset /\ level[k] <= Allowance(k)
    BY <1>2, <2>1 DEF LevelInv, LevelFollowsDue
  <2>3. Allowance(k) = items[k].due + 2 * Interval
    BY <1>2, <1>6, <2>2, AllowanceIs
  <2> QED
    BY <1>9, <2>2, <2>3
<1>11. level[k] \in Nat
  BY <1>0, <1>2
<1>12. /\ -items'[k].due >= 2 * Interval => level'[k] <= Interval
       /\ ~(-items'[k].due >= 2 * Interval) => level'[k] <= items'[k].due + 3 * Interval
  BY <1>0, <1>7, <1>9, <1>10, <1>11
<1>13. Allowance(k)' = IF -items'[k].due >= 2 * Interval THEN Interval
                       ELSE items'[k].due + 3 * Interval
  BY <1>6 DEF Allowance, Popped
<1>14. LevelFollowsDue'
  <2>1. items'[k].due # Unset /\ level'[k] <= Allowance(k)'
    BY <1>0, <1>9, <1>12, <1>13
  <2>2. ASSUME NEW l \in Mapped', level'[l] > 0
        PROVE  items'[l].due # Unset /\ level'[l] <= Allowance(l)'
    <3>1. CASE l = k
      BY <2>1, <3>1
    <3>2. CASE l # k
      BY <1>4, <1>8, <2>2, <3>2
    <3> QED
      BY <3>1, <3>2
  <2> QED
    BY <2>2 DEF LevelFollowsDue
<1>15. BurstBounded'
  <2>1. level'[k] < 3 * Interval + Slack
    BY <1>0, <1>7, <1>9, <1>11, <1>12
  <2> QED
    BY <1>7, <2>1 DEF LevelInv, BurstBounded
<1> QED
  BY <1>0, <1>2, <1>4, <1>7, <1>14, <1>15 DEF LevelInv

\* The second clock read adds the interval to the due time that is in the bucket.
LEMMA RescheduleLevels ==
  ASSUME LevelInv, IInv, IInv', [Next]_vars, level' = level,
         NEW p \in Processors, Reschedule(p)
  PROVE  LevelInv'
<1> DEFINE k == unsent[p].key
           i == [items[k] EXCEPT !.due = Rescheduled(items[k].due)]
<1>0. /\ Interval \in Nat \ {0} /\ Unset \notin Int
      /\ level \in [Keys -> Nat] /\ items \in [Keys -> Item \cup {None}]
      /\ p \in Threads /\ Processors \subseteq Threads /\ (Deleted => Deleted')
  BY Bounds, DeletedStays DEF LevelInv, IInv, TableInv, TableType, Threads
<1>1. /\ pc[p] = "popped" /\ pc'[p] \in {"timed", "unsent"}
      /\ \A q \in Threads \ {p} : pc'[q] = pc[q]
  BY <1>0, Moved DEF Reschedule
<1>2. items' = [items EXCEPT ![k] = i]
  BY DEF Reschedule
<1>3. k \in Mapped /\ k \in Keys /\ items[k] \in Item /\ items[k].due \in Int
  BY <1>0, <1>1 DEF IInv, TableInv, Carrying, Mapped
<1>4. Rescheduled(items[k].due) \in Int
  BY <1>3, TimeTypes
<1>5. i.due = Rescheduled(items[k].due) /\ i # None
  BY <1>3, <1>4, NoneIsNoItem DEF Item
<1>6. Popped(k)
  BY <1>1 DEF Popped
<1> HIDE DEF i
<1>7. \A l : l # k => ~Popped(l)
  BY <1>0, <1>1, LoopAlone DEF Popped
<1> HIDE DEF k
<1>8. \A l : ~Popped(l)'
  BY <1>0, <1>1, LoopAlone DEF Popped
<1>9. /\ Mapped' = Mapped /\ items'[k] = i
      /\ \A l \in Mapped \ {k} : items'[l] = items[l]
  BY <1>0, <1>2, <1>3, <1>5 DEF Mapped
<1>10. ASSUME NEW l \in Mapped, level[l] > 0
       PROVE  items'[l].due # Unset /\ level[l] <= Allowance(l)'
  <2>1. items[l].due # Unset /\ level[l] <= Allowance(l)
    BY <1>10 DEF LevelInv, LevelFollowsDue
  <2>2. CASE l # k
    <3>1. Allowance(l)' = Allowance(l)
      BY <1>7, <1>8, <1>9, <2>2 DEF Allowance, Popped
    <3> QED
      BY <1>9, <2>1, <2>2, <3>1
  <2>3. CASE l = k
    <3>1. Allowance(l)' = Rescheduled(items[k].due) + 2 * Interval
      <4>1. items'[l].due = Rescheduled(items[k].due)
        BY <1>5, <1>9, <2>3
      <4>2. ~Popped(l)'
        BY <1>8
      <4> QED
        BY <4>1, <4>2 DEF Allowance, Popped
    <3>2. Allowance(k) = IF -items[k].due >= 2 * Interval THEN Interval
                         ELSE items[k].due + 3 * Interval
      BY <1>6 DEF Allowance, Popped
    <3>3. level[k] \in Nat
      BY <1>0, <1>3
    <3>4. level[k] <= Rescheduled(items[k].due) + 2 * Interval
      BY <1>0, <1>3, <2>1, <2>3, <3>2, <3>3 DEF Rescheduled
    <3>5. items'[l].due # Unset
      BY <1>0, <1>4, <1>5, <1>9, <2>3
    <3> QED
      BY <2>3, <3>1, <3>4, <3>5
  <2> QED
    BY <2>2, <2>3
<1> QED
  BY <1>0, <1>9, <1>10 DEF LevelInv, LevelFollowsDue, BurstBounded

\* A tick takes one out of every bucket and brings every due time nearer by one,
\* but for the due times that are long past.
LEMMA LeakLevels ==
  ASSUME LevelInv, TimeInv, IInv, IInv', [Next]_vars, Leak
  PROVE  LevelInv'
<1>0. /\ Interval \in Nat \ {0} /\ Unset \notin Int /\ Past \in Int
      /\ Past <= -(2 * Interval)
      /\ level \in [Keys -> Nat] /\ items \in [Keys -> Item \cup {None}]
      /\ (Deleted => Deleted')
  BY Bounds, DeletedStays DEF LevelInv, IInv, TableInv, TableType
<1>1. UNCHANGED <<pc, unsent>>
  BY DEF Leak, Tick
<1>2. \A k : Popped(k)' <=> Popped(k)
  BY <1>1 DEF Popped
<1>3. \A k \in Keys : level'[k] = IF level[k] > 0 THEN level[k] - 1 ELSE 0
  BY DEF Leak
<1>4. level' \in [Keys -> Nat]
  <2>1. \A k \in Keys : (IF level[k] > 0 THEN level[k] - 1 ELSE 0) \in Nat
    BY <1>0
  <2> QED
    BY <2>1 DEF Leak
<1>5. \A k \in Keys : items'[k] = IF items[k] = None \/ items[k].due = Unset
                                  THEN items[k]
                                  ELSE [items[k] EXCEPT !.due = Later(items[k].due)]
  BY DEF Leak, Tick
<1>6. ASSUME NEW k \in Mapped, items[k].due # Unset
      PROVE  items[k].due \in Int /\ items'[k].due = Later(items[k].due) /\ items'[k] # None
  <2>1. items[k] \in Item /\ items[k].due \in Int /\ k \in Keys /\ items[k] # None
    BY <1>0, <1>6 DEF Item, Mapped
  <2>2. Later(items[k].due) \in Int
    BY <2>1, TimeTypes
  <2>3. items'[k] = [items[k] EXCEPT !.due = Later(items[k].due)]
    BY <1>5, <1>6, <2>1
  <2> QED
    BY <2>1, <2>2, <2>3, NoneIsNoItem DEF Item
<1>7. Mapped' = Mapped
  BY <1>5, <1>6 DEF Mapped
<1>8. ASSUME NEW k \in Mapped, level'[k] > 0
      PROVE  items'[k].due # Unset /\ level'[k] <= Allowance(k)'
  <2>1. k \in Keys /\ level[k] \in Nat
    BY <1>0 DEF Mapped
  <2>2. level[k] > 0 /\ level'[k] = level[k] - 1
    BY <1>3, <1>8, <2>1
  <2>3. items[k].due # Unset /\ level[k] <= Allowance(k)
    BY <2>2 DEF LevelInv, LevelFollowsDue
  <2>4. /\ items[k].due \in Int /\ items'[k].due = Later(items[k].due)
        /\ Later(items[k].due) \in Int
    BY <1>6, <2>3, TimeTypes
  <2>5. Later(items[k].due) >= items[k].due - 1
        /\ (items[k].due - 1 >= Past => Later(items[k].due) = items[k].due - 1)
        /\ (items[k].due - 1 < Past => Later(items[k].due) = Past)
    BY <1>0, <2>4 DEF Later
  <2>6. CASE ~Popped(k)
    <3>1. Allowance(k) = items[k].due + 2 * Interval
      BY <2>6 DEF Allowance, Popped
    <3>2. Allowance(k)' = Later(items[k].due) + 2 * Interval
      BY <1>2, <2>4, <2>6 DEF Allowance, Popped
    <3> QED
      BY <1>0, <2>1, <2>2, <2>3, <2>4, <2>5, <3>1, <3>2
  <2>7. CASE Popped(k)
    <3>1. Allowance(k) = IF -items[k].due >= 2 * Interval THEN Interval
                         ELSE items[k].due + 3 * Interval
      BY <2>7 DEF Allowance, Popped
    <3>2. Allowance(k)' = IF -Later(items[k].due) >= 2 * Interval THEN Interval
                          ELSE Later(items[k].due) + 3 * Interval
      BY <1>2, <2>4, <2>7 DEF Allowance, Popped
    <3>3. level[k] - 1 <= Allowance(k)'
      BY <1>0, <2>1, <2>3, <2>4, <2>5, <3>1, <3>2
    <3> QED
      BY <1>0, <2>2, <2>4, <3>3
  <2> QED
    BY <2>6, <2>7
<1>9. BurstBounded'
  <2>1. \A k \in Keys : level'[k] <= level[k]
    BY <1>0, <1>3
  <2> QED
    BY <1>0, <1>4, <2>1, Bounds DEF LevelInv, BurstBounded
<1>10. \A k \in Keys \ Mapped' : level'[k] = 0 \/ Deleted'
  BY <1>0, <1>3, <1>7 DEF LevelInv
<1> QED
  BY <1>4, <1>7, <1>8, <1>9, <1>10 DEF LevelInv, LevelFollowsDue

\* Every step keeps the buckets as full as the due times say.
LEMMA LevelStep ==
  LevelInv /\ IInv /\ TimeInv /\ IInv' /\ [PaceNext]_pacevars => LevelInv'
<1> SUFFICES ASSUME LevelInv, IInv, TimeInv, IInv', [PaceNext]_pacevars PROVE LevelInv'
  OBVIOUS
<1>1. [Next]_vars
  BY PaceIsForward, ForwardIsNext
<1>2. ASSUME NEW p \in Processors, Fill(p) \/ Reset(p) PROVE LevelInv'
  BY <1>1, <1>2, FillLevels, ResetLevels
<1>3. CASE Leak
  BY <1>1, <1>3, LeakLevels
<1>4. CASE Keep
  BY <1>1, <1>4, KeepLevels, RescheduleLevels DEF Keep
<1>5. CASE UNCHANGED pacevars
  <2>1. UNCHANGED <<level, items, pc, unsent>>
    BY <1>5 DEF pacevars, vars
  <2>2. Mapped' = Mapped /\ \A k : Allowance(k)' = Allowance(k)
    BY <2>1 DEF Mapped, Allowance
  <2> QED
    BY <2>1, <2>2 DEF LevelInv, LevelFollowsDue, BurstBounded, Deleted
<1> QED
  BY <1>2, <1>3, <1>4, <1>5 DEF PaceNext

\* The buckets stay as full as the due times say in every state a paced run reaches.
LEMMA PaceLevelInv == PaceSpec => []LevelInv
<1>1. PaceInit => LevelInv
  <2> SUFFICES ASSUME PaceInit PROVE LevelInv
    OBVIOUS
  <2>1. level = [k \in Keys |-> 0] /\ Mapped = {}
    BY DEF PaceInit, Init, Mapped
  <2> QED
    BY <2>1, Bounds DEF LevelInv, LevelFollowsDue, BurstBounded
<1> QED
  BY <1>1, LevelStep, PaceTimeInv, PTL DEF PaceSpec

\* The packets that were taken from a queue show in its due time, but for two
\* intervals (next_due_time of process_next_locked and process_with_socket).
THEOREM LevelsFollowDues == PaceSpec => []LevelFollowsDue
<1>1. LevelInv => LevelFollowsDue
  BY DEF LevelInv
<1> QED
  BY <1>1, PaceLevelInv, PTL

\* However late the loop runs, it catches up with a burst of three intervals and
\* the slack at most, for any interval and slack.
THEOREM BurstsAreBounded == PaceSpec => []BurstBounded
<1>1. LevelInv => BurstBounded
  BY DEF LevelInv
<1> QED
  BY <1>1, PaceLevelInv, PTL
=============================================================================
