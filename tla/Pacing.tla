------------------------------- MODULE Pacing -------------------------------
(***************************************************************************)
(* The rate at which one queue is served.  process_next_locked lets a      *)
(* queue that is served late catch up: it keeps adding one interval to the *)
(* due time, unless the queue is two intervals late or more.  The history  *)
(* variable is a leaky bucket: an interval goes in with every packet       *)
(* taken, one tick leaks out with every tick.                              *)
(***************************************************************************)
EXTENDS UdpQueue

VARIABLE level  \* what is in the bucket of each queue

pacevars == <<vars, level>>

PaceInit == Init /\ level = [k \in Keys |-> 0]

Fill(p) ==
  /\ Serve(p)
  /\ level' = [level EXCEPT ![Head(queues)] = @ + Interval]

Leak ==
  /\ Tick
  /\ level' = [k \in Keys |-> IF level[k] > 0 THEN level[k] - 1 ELSE 0]

\* A queue that is created again has no past: its due time is unset.
Reset(p) ==
  /\ Reap(p)
  /\ level' = [level EXCEPT ![Head(queues)] = 0]

\* The deleted manager has no queues, and no bucket is looked at any more.
Keep ==
  /\ \/ \E c \in Clients : Enter(c) \/ ClientStep(c) \/ DestroyLock(c) \/ DestroyStep(c)
     \/ \E p \in Processors :
          \/ AwaitProcess(p) \/ EnterProcess(p) \/ LockManager(p)
          \/ Stop(p) \/ LeaveProcess(p) \/ Idle(p) \/ HoldBack(p) \/ Reschedule(p)
          \/ Dispatch(p) \/ Crash(p) \/ Loop(p) \/ Sleep(p) \/ Wake(p)
  /\ UNCHANGED level

PaceNext == (\E p \in Processors : Fill(p) \/ Reset(p)) \/ Leak \/ Keep

PaceSpec == PaceInit /\ [][PaceNext]_pacevars

-----------------------------------------------------------------------------
\* However late the thread has been, however it catches up, and however clients
\* fill the queue, the packets taken from a queue in any stretch of T ticks fit
\* in T + 3 * Interval + Slack ticks at one packet an interval: the catch-up
\* never bursts further.
BurstBounded == \A k \in Keys : level[k] < 3 * Interval + Slack

\* The bound in terms of the due time: what is in the bucket is at most two
\* intervals above the time that is left.  Between the pop and the second clock
\* read the packet just taken is in the bucket, but not in the due time yet.
Allowance(k) ==
  IF \E p \in Processors : pc[p] = "popped" /\ unsent[p].key = k
  THEN IF -items[k].due >= 2 * Interval THEN Interval
       ELSE items[k].due + 3 * Interval
  ELSE items[k].due + 2 * Interval

LevelFollowsDue ==
  \A k \in Mapped :
    level[k] > 0 => items[k].due # Unset /\ level[k] <= Allowance(k)
=============================================================================
