--------------------------- MODULE CallerPromises ---------------------------
(***************************************************************************)
(* What a caller of the manager may rely on between two of its calls, with *)
(* the history that is needed to say it: the capacity it was told, and the *)
(* queues that were served since it last had its turn.                     *)
(***************************************************************************)
EXTENDS UdpQueue

VARIABLES
  promised,  \* the capacity last reported, less the packets accepted since
  passed     \* the keys served since a key was served or joined the rotation

pvars == <<vars, promised, passed>>

PInit ==
  /\ Init
  /\ promised = [k \in Keys |-> 0]
  /\ passed = [k \in Keys |-> {}]

Ask(c, k) ==
  /\ GetRemainingCapacity(c, k)
  /\ promised' = [promised EXCEPT ![k] = Remaining(k)]
  /\ UNCHANGED passed

\* An accepted packet uses up one place of the promise.
Queue(c, k, x) ==
  /\ PushExisting(c, k, x) \/ PushNew(c, k, x)
  /\ promised' = IF Remaining(k) > 0 /\ promised[k] > 0
                 THEN [promised EXCEPT ![k] = @ - 1] ELSE promised
  /\ UNCHANGED passed

TakeTurn(p) ==
  /\ Serve(p)
  /\ passed' = [k \in Keys |->
                  IF k = Head(queues) \/ k \notin Mapped THEN {}
                  ELSE passed[k] \cup {Head(queues)}]
  /\ UNCHANGED promised

LeaveRotation(p) ==
  /\ Reap(p)
  /\ passed' = [passed EXCEPT ![Head(queues)] = {}]
  /\ UNCHANGED promised

\* The calls and steps that neither make nor use a promise.
Other ==
  /\ \/ \E c \in Clients : \/ Enter(c) \/ DestroyLock(c) \/ DestroyStep(c)
                           \/ \E k \in Keys : Remove(c, k)
     \/ \E p \in Processors :
          \/ AwaitProcess(p) \/ EnterProcess(p) \/ LockManager(p)
          \/ Stop(p) \/ LeaveProcess(p) \/ Idle(p) \/ HoldBack(p) \/ Reschedule(p)
          \/ Dispatch(p) \/ Crash(p) \/ Loop(p) \/ Sleep(p) \/ Wake(p)
     \/ Tick
     \/ \E d \in ClockSteps : ClockStep(d)
  /\ UNCHANGED <<promised, passed>>

PNext ==
  \/ \E c \in Clients, k \in Keys :
       Ask(c, k) \/ (\E x \in Packets : Queue(c, k, x))
  \/ \E p \in Processors : TakeTurn(p) \/ LeaveRotation(p)
  \/ Other

PSpec == PInit /\ [][PNext]_pvars

-----------------------------------------------------------------------------
\* A capacity that getRemainingCapacity has reported is never revoked: until as
\* many packets were accepted for the key, by whatever client, the next one is
\* accepted as well, though the queue may be served, deleted, reaped and created
\* again in between.
PromiseKept ==
  \A k \in Keys :
    promised[k] > 0 =>
      IF k \in Mapped THEN ~IsFull(items[k].buffer) /\
                           items[k].buffer.size + promised[k] <= Capacity
      ELSE promised[k] <= Capacity

\* No queue is served twice while another one waits for its turn, whatever late
\* packets, reaped queues and queues created again do to the rotation.
OvertakenOnce ==
  [][\A p \in Processors, k \in Keys :
       unsent[p] = None /\ unsent'[p] # None /\ k \in Mapped =>
         unsent'[p].key = k \/ unsent'[p].key \notin passed[k]]_pvars
=============================================================================
