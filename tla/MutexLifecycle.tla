--------------------------- MODULE MutexLifecycle ---------------------------
(***************************************************************************)
(* The two mutexes of every manager as the platforms have them: blocks of  *)
(* heap memory that mutex_create allocates and initialises, or fails to    *)
(* allocate, that threads lock, and that mutex_destroy takes down at the   *)
(* end.  UdpQueue has one manager and mutexes that are always there; here  *)
(* managers come and go, mutexes may be null, and what the calls do        *)
(* between lock and unlock is left out.                                    *)
(***************************************************************************)
EXTENDS Integers, FiniteSets

CONSTANTS
  Managers,   \* the managers that may exist
  Threads,    \* Java threads
  Blocks,     \* heap blocks that malloc can return
  NULL,       \* the null mutex
  None,       \* no thread, no manager
  Platforms   \* bound: those that are checked, of "pthread" and "windows"

\* queue::Manager, of which what the queues need is left out.
Manager == [lock : Blocks \cup {NULL}, process_lock : Blocks \cup {NULL},
            shutting_down : BOOLEAN, live : BOOLEAN]

ASSUME MutexAssumption ==
  /\ NULL \notin Blocks
  /\ None \notin Threads \cup Managers \cup Manager
  /\ Platforms \subseteq {"pthread", "windows"}

VARIABLES
  platform,  \* what the library was built for
  heap,      \* blocks that are allocated
  ready,     \* blocks that are initialised mutexes
  owner,     \* the thread that has locked each block
  manager,   \* what each manager holds, and whether it is there; None before
  pc,        \* where each thread is
  at         \* the manager that each thread is in

mutexvars == <<platform, heap, ready, owner, manager, pc, at>>

Made == {m \in Managers : manager[m] # None}

Live == {m \in Made : manager[m].live}

Inside(m) == {t \in Threads : at[t] = m}

\* Where a thread is inside the processing loop, or inside destroy.
Looping    == {"top", "round", "leaving"}
Destroying == {"signalling", "joining", "joined", "freeing", "deleting"}

Mutexes(m) == {manager[m].lock, manager[m].process_lock} \ {NULL}

\* Those that destroy has not taken down yet.
Held(m) ==
  IF \E t \in Inside(m) : pc[t] = "deleting" THEN {manager[m].process_lock} \ {NULL}
  ELSE Mutexes(m)

HasBoth(m) == manager[m].lock # NULL /\ manager[m].process_lock # NULL

MutexInit ==
  /\ platform \in Platforms
  /\ heap = {}
  /\ ready = {}
  /\ owner = [b \in Blocks |-> None]
  /\ manager = [m \in Managers |-> None]
  /\ pc = [t \in Threads |-> "out"]
  /\ at = [t \in Threads |-> None]

Goes(t, from, to) == pc[t] = from /\ pc' = [pc EXCEPT ![t] = to]

-----------------------------------------------------------------------------
(* mutex.c                                                                 *)

\* mutex_create: a block of the heap, initialised, or null.
Created == (Blocks \ heap) \cup {NULL}

\* Mutation of Lock: null is passed over.
LockOrNothing(t, b) ==
  \/ b = NULL /\ UNCHANGED owner
  \/ b # NULL /\ owner[b] = None /\ owner' = [owner EXCEPT ![b] = t]

\* mutex_lock(b), which waits until b is free.
Lock(t, b) ==
  /\ b # NULL
  /\ owner[b] = None
  /\ owner' = [owner EXCEPT ![b] = t]

Unlock(b) == owner' = [owner EXCEPT ![b] = None]

\* mutex_lock, and on pthreads mutex_destroy, of null: the process ends.
Crash ==
  /\ pc' = [t \in Threads |-> "crashed"]
  /\ UNCHANGED <<platform, heap, ready, owner, manager, at>>

\* Mutation of DestroyMutex: Windows frees no block either.
DestroyMutexOnly(b) ==
  /\ b = NULL => platform = "windows"
  /\ ready' = ready \ {b}
  /\ UNCHANGED heap

\* Mutation of DestroyMutex: Windows frees the block without
\* DeleteCriticalSection.
FreeMutexOnly(b) ==
  /\ b = NULL => platform = "windows"
  /\ heap' = IF platform = "windows" THEN heap \ {b} ELSE heap
  /\ UNCHANGED ready

\* mutex_destroy(b): on Windows the block is freed, elsewhere it is not.
DestroyMutex(b) ==
  /\ b = NULL => platform = "windows"
  /\ ready' = ready \ {b}
  /\ heap' = IF platform = "windows" THEN heap \ {b} ELSE heap

-----------------------------------------------------------------------------
(* manager::create                                                         *)

Create(t, m) ==
  /\ pc[t] = "out" /\ m \notin Made
  /\ \E a, b \in Created :
       /\ a = b => a = NULL
       /\ manager' = [manager EXCEPT ![m] =
                        [lock |-> a, process_lock |-> b, shutting_down |-> FALSE,
                         live |-> TRUE]]
       /\ heap' = heap \cup ({a, b} \ {NULL})
       /\ ready' = ready \cup ({a, b} \ {NULL})
       /\ owner' = [x \in Blocks |-> IF x \in {a, b} THEN None ELSE owner[x]]
  /\ UNCHANGED <<platform, pc, at>>

-----------------------------------------------------------------------------
(* Calls                                                                   *)

\* The caller starts no call on a manager that is being destroyed.
MayCall(t, m) ==
  /\ pc[t] = "out" /\ m \in Live
  /\ \A d \in Inside(m) : pc[d] \notin Destroying

\* push, remove and get_remaining_capacity, from lock to unlock.
Enter(t, m) ==
  /\ MayCall(t, m)
  /\ Lock(t, manager[m].lock)
  /\ Goes(t, "out", "in")
  /\ at' = [at EXCEPT ![t] = m]
  /\ UNCHANGED <<platform, heap, ready, manager>>

Return(t) ==
  /\ Goes(t, "in", "out")
  /\ Unlock(manager[at[t]].lock)
  /\ at' = [at EXCEPT ![t] = None]
  /\ UNCHANGED <<platform, heap, ready, manager>>

\* process, as far as mutex_lock(manager->process_lock).
AwaitProcess(t, m) ==
  /\ MayCall(t, m)
  /\ manager[m].process_lock # NULL
  /\ Goes(t, "out", "waiting")
  /\ at' = [at EXCEPT ![t] = m]
  /\ UNCHANGED <<platform, heap, ready, owner, manager>>

EnterProcess(t) ==
  /\ Goes(t, "waiting", "top")
  /\ Lock(t, manager[at[t]].process_lock)
  /\ UNCHANGED <<platform, heap, ready, manager, at>>

\* A call that begins with a mutex that could not be created.
EnterNull(t, m) ==
  /\ MayCall(t, m)
  /\ ~HasBoth(m)
  /\ Crash

BeginRound(t) ==
  /\ Goes(t, "top", "round")
  /\ Lock(t, manager[at[t]].lock)
  /\ UNCHANGED <<platform, heap, ready, manager, at>>

BeginRoundNull(t) ==
  /\ pc[t] = "top"
  /\ manager[at[t]].lock = NULL
  /\ Crash

EndRound(t) ==
  /\ Goes(t, "round", IF manager[at[t]].shutting_down THEN "leaving" ELSE "top")
  /\ Unlock(manager[at[t]].lock)
  /\ UNCHANGED <<platform, heap, ready, manager, at>>

LeaveProcess(t) ==
  /\ Goes(t, "leaving", "out")
  /\ Unlock(manager[at[t]].process_lock)
  /\ at' = [at EXCEPT ![t] = None]
  /\ UNCHANGED <<platform, heap, ready, manager>>

-----------------------------------------------------------------------------
(* manager::destroy                                                        *)

\* What the caller owes: no other call, but for threads inside the loop.  None
\* may wait for process_lock, see DestroyLock of UdpQueue.
MayDestroy(t, m) ==
  /\ pc[t] = "out" /\ m \in Live
  /\ \A d \in Inside(m) : pc[d] \in Looping

DestroyLock(t, m) ==
  /\ MayDestroy(t, m)
  /\ HasBoth(m)
  /\ Lock(t, manager[m].lock)
  /\ Goes(t, "out", "signalling")
  /\ at' = [at EXCEPT ![t] = m]
  /\ UNCHANGED <<platform, heap, ready, manager>>

\* Mutation of DestroyAtOnce: the handshake is always left out.
DestroyAlwaysAtOnce(t, m) ==
  /\ MayDestroy(t, m)
  /\ Goes(t, "out", "freeing")
  /\ at' = [at EXCEPT ![t] = m]
  /\ UNCHANGED <<platform, heap, ready, owner, manager>>

\* Without one of the mutexes nothing is signalled and nobody is waited for.
DestroyAtOnce(t, m) ==
  /\ MayDestroy(t, m)
  /\ ~HasBoth(m)
  /\ Goes(t, "out", "freeing")
  /\ at' = [at EXCEPT ![t] = m]
  /\ UNCHANGED <<platform, heap, ready, owner, manager>>

DestroySignal(t) ==
  /\ Goes(t, "signalling", "joining")
  /\ manager' = [manager EXCEPT ![at[t]].shutting_down = TRUE]
  /\ Unlock(manager[at[t]].lock)
  /\ UNCHANGED <<platform, heap, ready, at>>

\* Mutation of DestroyJoin: process_lock is not waited for.
DestroyJoinAtOnce(t) ==
  /\ Goes(t, "joining", "joined")
  /\ owner' = [owner EXCEPT ![manager[at[t]].process_lock] = t]
  /\ UNCHANGED <<platform, heap, ready, manager, at>>

DestroyJoin(t) ==
  /\ Goes(t, "joining", "joined")
  /\ Lock(t, manager[at[t]].process_lock)
  /\ UNCHANGED <<platform, heap, ready, manager, at>>

DestroyJoined(t) ==
  /\ Goes(t, "joined", "freeing")
  /\ Unlock(manager[at[t]].process_lock)
  /\ UNCHANGED <<platform, heap, ready, manager, at>>

DestroyFree(t) ==
  /\ Goes(t, "freeing", "deleting")
  /\ DestroyMutex(manager[at[t]].lock)
  /\ UNCHANGED <<platform, owner, manager, at>>

DestroyDelete(t) ==
  /\ Goes(t, "deleting", "out")
  /\ DestroyMutex(manager[at[t]].process_lock)
  /\ manager' = [manager EXCEPT ![at[t]].live = FALSE]
  /\ at' = [at EXCEPT ![t] = None]
  /\ UNCHANGED <<platform, owner>>

\* pthread_mutex_destroy(NULL)
DestroyNull(t) ==
  /\ platform = "pthread"
  /\ \/ pc[t] = "freeing" /\ manager[at[t]].lock = NULL
     \/ pc[t] = "deleting" /\ manager[at[t]].process_lock = NULL
  /\ Crash

-----------------------------------------------------------------------------
MutexNext ==
  \E t \in Threads :
    \/ \E m \in Managers :
         \/ Create(t, m)
         \/ Enter(t, m) \/ AwaitProcess(t, m) \/ EnterNull(t, m)
         \/ DestroyLock(t, m) \/ DestroyAtOnce(t, m)
    \/ Return(t) \/ EnterProcess(t)
    \/ BeginRound(t) \/ BeginRoundNull(t) \/ EndRound(t) \/ LeaveProcess(t)
    \/ DestroySignal(t) \/ DestroyJoin(t) \/ DestroyJoined(t)
    \/ DestroyFree(t) \/ DestroyDelete(t) \/ DestroyNull(t)

MutexSpec == MutexInit /\ [][MutexNext]_mutexvars

-----------------------------------------------------------------------------
\* Every variable has its type: above all, no block goes back to the heap while
\* it is an initialised mutex (mutex_destroy), and a thread is in a manager that
\* was created for as long as its call lasts.
MutexTypeOK ==
  /\ platform \in {"pthread", "windows"}
  /\ heap \subseteq Blocks /\ ready \subseteq heap
  /\ owner \in [Blocks -> Threads \cup {None}]
  /\ manager \in [Managers -> Manager \cup {None}]
  /\ pc \in [Threads -> {"out", "in", "waiting", "crashed"} \cup Looping \cup Destroying]
  /\ at \in [Threads -> Made \cup {None}]
  /\ \A t \in Threads : pc[t] # "crashed" => (pc[t] = "out" <=> at[t] = None)

\* Whoever is inside a manager that has both its mutexes finds them initialised:
\* destroy takes them down when nobody else is inside, no thread waits to enter
\* the loop or to begin a round, and the blocks were not given to another manager
\* in between.
UsedWhileReady ==
  \A t \in Threads :
    LET m == at[t]
    IN  pc[t] \notin {"out", "crashed", "freeing", "deleting"} /\ HasBoth(m) =>
          m \in Live /\ Mutexes(m) \subseteq ready

\* destroy without the handshake is harmless, as a manager that lacks a mutex
\* never gets anywhere: no thread is past the first mutex_lock of a round.
NullStopsProcessing ==
  \A m \in Made : ~HasBoth(m) =>
    \A t \in Inside(m) :
      \/ pc[t] \in {"in", "waiting", "freeing", "deleting", "crashed"}
      \/ pc[t] = "top" /\ manager[m].lock = NULL

\* Until a null mutex ends the process, the mutexes of two live managers are
\* different blocks, and these blocks are what is allocated: on Windows when the
\* manager goes its blocks go, on pthreads they stay, two for every manager that
\* was destroyed.
HeapAccounted ==
  (\A t \in Threads : pc[t] # "crashed") =>
    /\ \A m, n \in Live : m # n => Held(m) \cap Held(n) = {}
    /\ ready = UNION {Held(m) : m \in Live}
    /\ platform = "windows" => heap = ready
    /\ platform = "pthread" => heap = UNION {Mutexes(m) : m \in Made}

\* pthread_mutex_destroy and DeleteCriticalSection ask for a mutex that nobody
\* has locked: destroy keeps to it for every manager that has both its mutexes.
DestroyedUnlocked ==
  [][\A b \in ready \ ready' :
       owner[b] = None \/ \E m \in Live : b \in Mutexes(m) /\ ~HasBoth(m)]_mutexvars
=============================================================================
