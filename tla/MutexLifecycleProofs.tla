------------------------ MODULE MutexLifecycleProofs ------------------------
(***************************************************************************)
(* Invariants of MutexLifecycle for any managers, threads and blocks.      *)
(***************************************************************************)
EXTENDS MutexLifecycle, TLAPS

-----------------------------------------------------------------------------
(* Type correctness                                                        *)

\* A manager that exists has its fields.
LEMMA MadeType ==
  ASSUME MutexTypeOK, NEW m \in Made
  PROVE  m \in Managers /\ manager[m] \in Manager
BY MutexAssumption DEF MutexTypeOK, Made

\* Whoever is in a call is in a manager that exists.
LEMMA PlaceType ==
  ASSUME MutexTypeOK, NEW t \in Threads, pc[t] \notin {"out", "crashed"}
  PROVE  at[t] \in Made
BY DEF MutexTypeOK

\* The initial state has its types.
LEMMA InitTypes == MutexInit => MutexTypeOK
BY MutexAssumption DEF MutexInit, MutexTypeOK, Made, Looping, Destroying

\* Every call and every step keeps the types.
LEMMA StepTypes == MutexTypeOK /\ [MutexNext]_mutexvars => MutexTypeOK'
<1> SUFFICES ASSUME MutexTypeOK, [MutexNext]_mutexvars PROVE MutexTypeOK'
  OBVIOUS
<1> USE MutexAssumption DEF Looping, Destroying
<1>1. ASSUME NEW t \in Threads, NEW m \in Managers, Create(t, m) PROVE MutexTypeOK'
  <2>1. PICK a, b \in Created :
          /\ manager' = [manager EXCEPT ![m] =
                           [lock |-> a, process_lock |-> b, shutting_down |-> FALSE,
                            live |-> TRUE]]
          /\ heap' = heap \cup ({a, b} \ {NULL})
          /\ ready' = ready \cup ({a, b} \ {NULL})
          /\ owner' = [x \in Blocks |-> IF x \in {a, b} THEN None ELSE owner[x]]
    BY <1>1 DEF Create
  <2>2. a \in Blocks \cup {NULL} /\ b \in Blocks \cup {NULL}
    BY DEF Created
  <2>3. [lock |-> a, process_lock |-> b, shutting_down |-> FALSE, live |-> TRUE] \in Manager
    BY <2>2 DEF Manager
  <2>4. manager' \in [Managers -> Manager \cup {None}] /\ Made \subseteq Made'
    BY <2>1, <2>3 DEF MutexTypeOK, Made
  <2>5. heap' \subseteq Blocks /\ ready' \subseteq heap' /\ owner' \in [Blocks -> Threads \cup {None}]
    BY <2>1, <2>2 DEF MutexTypeOK
  <2> QED
    BY <1>1, <2>4, <2>5 DEF Create, MutexTypeOK
<1>2. ASSUME Crash PROVE MutexTypeOK'
  BY <1>2 DEF Crash, MutexTypeOK, Made
<1>3. ASSUME NEW t \in Threads, NEW m \in Managers,
             Enter(t, m) \/ AwaitProcess(t, m) \/ DestroyLock(t, m) \/ DestroyAtOnce(t, m)
      PROVE  MutexTypeOK'
  BY <1>3 DEF Enter, AwaitProcess, DestroyLock, DestroyAtOnce, MayCall, MayDestroy, Lock,
     Goes, MutexTypeOK, Made, Live
<1>4. ASSUME NEW t \in Threads, Return(t) \/ LeaveProcess(t) PROVE MutexTypeOK'
  BY <1>4 DEF Return, LeaveProcess, Unlock, Goes, MutexTypeOK, Made
<1>5. ASSUME NEW t \in Threads,
             \/ EnterProcess(t) \/ BeginRound(t) \/ EndRound(t)
             \/ DestroyJoin(t) \/ DestroyJoined(t)
      PROVE  MutexTypeOK'
  BY <1>5 DEF EnterProcess, BeginRound, EndRound, DestroyJoin, DestroyJoined, Lock, Unlock,
     Goes, MutexTypeOK, Made
<1>6. ASSUME NEW t \in Threads, DestroySignal(t) PROVE MutexTypeOK'
  <2>1. at[t] \in Managers /\ manager[at[t]] \in Manager
    BY <1>6, PlaceType, MadeType DEF DestroySignal, Goes
  <2>2. [manager[at[t]] EXCEPT !.shutting_down = TRUE] \in Manager
    BY <2>1 DEF Manager
  <2>3. manager' = [manager EXCEPT ![at[t]] = [manager[at[t]] EXCEPT !.shutting_down = TRUE]]
    BY <1>6 DEF DestroySignal
  <2>4. manager' \in [Managers -> Manager \cup {None}]
    BY <2>1, <2>2, <2>3 DEF MutexTypeOK
  <2>5. Made' = Made
    <3>1. \A x \in Managers : manager'[x] = None <=> manager[x] = None
      BY <2>1, <2>2, <2>3 DEF MutexTypeOK
    <3> QED
      BY <3>1 DEF Made
  <2> QED
    BY <1>6, <2>4, <2>5 DEF DestroySignal, Unlock, Goes, MutexTypeOK
<1>7. ASSUME NEW t \in Threads, DestroyFree(t) PROVE MutexTypeOK'
  BY <1>7 DEF DestroyFree, DestroyMutex, Goes, MutexTypeOK, Made
<1>8. ASSUME NEW t \in Threads, DestroyDelete(t) PROVE MutexTypeOK'
  <2>1. at[t] \in Managers /\ manager[at[t]] \in Manager
    BY <1>8, PlaceType, MadeType DEF DestroyDelete, Goes
  <2>2. [manager[at[t]] EXCEPT !.live = FALSE] \in Manager
    BY <2>1 DEF Manager
  <2>3. manager' = [manager EXCEPT ![at[t]] = [manager[at[t]] EXCEPT !.live = FALSE]]
    BY <1>8 DEF DestroyDelete
  <2>4. manager' \in [Managers -> Manager \cup {None}]
    BY <2>1, <2>2, <2>3 DEF MutexTypeOK
  <2>5. Made' = Made
    <3>1. \A x \in Managers : manager'[x] = None <=> manager[x] = None
      BY <2>1, <2>2, <2>3 DEF MutexTypeOK
    <3> QED
      BY <3>1 DEF Made
  <2> QED
    BY <1>8, <2>4, <2>5 DEF DestroyDelete, DestroyMutex, Goes, MutexTypeOK
<1>9. CASE UNCHANGED mutexvars
  BY <1>9 DEF mutexvars, MutexTypeOK, Made
<1> QED
  BY <1>1, <1>2, <1>3, <1>4, <1>5, <1>6, <1>7, <1>8, <1>9
     DEF MutexNext, EnterNull, BeginRoundNull, DestroyNull

\* Every variable keeps its type, whatever managers come and go.
THEOREM MutexTypeCorrect == MutexSpec => []MutexTypeOK
BY InitTypes, StepTypes, PTL DEF MutexSpec

-----------------------------------------------------------------------------
(* The inductive invariant                                                 *)

L(m) == manager[m].lock
P(m) == manager[m].process_lock

HoldsLock    == {"in", "round", "signalling"}
HoldsProcess == Looping \cup {"joined"}

Alive == \A t \in Threads : pc[t] # "crashed"

\* A null mutex takes every thread with it.
Fate == Alive \/ \A t \in Threads : pc[t] = "crashed"

\* How far a thread gets tells which mutexes its manager has, and a manager that
\* has both is there while anyone is inside.
Places ==
  \A t \in Threads :
    /\ pc[t] = "in" => at[t] \in Live /\ L(at[t]) # NULL
    /\ pc[t] = "waiting" => at[t] \in Live /\ P(at[t]) # NULL
    /\ pc[t] \in Looping => P(at[t]) # NULL /\ (L(at[t]) # NULL => at[t] \in Live)
    /\ pc[t] \in {"round", "leaving"} => L(at[t]) # NULL
    /\ pc[t] \in Destroying => at[t] \in Live
    /\ pc[t] \in {"signalling", "joining", "joined"} => HasBoth(at[t])

\* Beside the thread that destroys there are only threads in the loop, and, once
\* it has passed process_lock, none unless there is no lock.
Alone ==
  \A t, d \in Threads :
    t # d /\ at[d] = at[t] /\ pc[t] \in Destroying =>
      /\ pc[d] \in Looping
      /\ pc[t] \in {"joined", "freeing", "deleting"} => L(at[t]) = NULL

\* Who is between lock and unlock owns the mutex ...
Owners ==
  \A t \in Threads :
    /\ pc[t] \in HoldsLock => owner[L(at[t])] = t
    /\ pc[t] \in HoldsProcess /\ L(at[t]) # NULL => owner[P(at[t])] = t

\* ... and nobody else does.
Owned ==
  \A m \in Live : HasBoth(m) =>
    /\ \A t \in Threads : L(m) \in Held(m) /\ owner[L(m)] = t =>
         at[t] = m /\ pc[t] \in HoldsLock
    /\ \A t \in Threads : owner[P(m)] = t => at[t] = m /\ pc[t] \in HoldsProcess

\* The mutexes of live managers are different blocks, and all that is initialised.
Apart ==
  /\ \A m \in Made : L(m) = P(m) => L(m) = NULL
  /\ \A m, n \in Live : m # n => Held(m) \cap Held(n) = {}
  /\ ready = UNION {Held(m) : m \in Live}
  /\ platform = "windows" => heap = ready
  /\ platform = "pthread" => heap = UNION {Mutexes(m) : m \in Made}

Order == Places /\ Alone /\ Owners /\ Owned /\ Apart

MutexInv == MutexTypeOK /\ Fate /\ (Alive => Order)

\* Before the first manager there is nothing to keep apart.
LEMMA MutexInvInit == MutexInit => MutexInv
<1> SUFFICES ASSUME MutexInit PROVE MutexInv
  OBVIOUS
<1>1. MutexTypeOK
  BY InitTypes
<1>2. Made = {} /\ Live = {}
  BY DEF MutexInit, Made, Live
<1>3. Alive /\ Places /\ Alone /\ Owners
  BY DEF MutexInit, Alive, Places, Alone, Owners, Looping, Destroying, HoldsLock, HoldsProcess
<1>4. Owned /\ Apart
  BY <1>2 DEF MutexInit, Owned, Apart
<1> QED
  BY <1>1, <1>3, <1>4 DEF MutexInv, Fate, Order

-----------------------------------------------------------------------------
(* Who holds which block                                                   *)

\* Destroy has not begun to take down a manager that has a lock while anyone else
\* is inside it, nor one that is in an earlier stage.
LEMMA HeldWhole ==
  ASSUME Alone, NEW t \in Threads, at[t] # None,
         pc[t] # "deleting", pc[t] \in Looping => L(at[t]) # NULL
  PROVE  Held(at[t]) = Mutexes(at[t])
<1>1. ASSUME NEW d \in Inside(at[t]), pc[d] = "deleting" PROVE FALSE
  BY <1>1 DEF Alone, Inside, Destroying
<1> QED
  BY <1>1 DEF Held

\* Nor one that a call may begin on.
LEMMA HeldAtCall ==
  ASSUME NEW t \in Threads, NEW m \in Managers, MayCall(t, m) \/ MayDestroy(t, m)
  PROVE  Held(m) = Mutexes(m)
BY DEF MayCall, MayDestroy, Held, Destroying, Looping

\* A mutex that somebody has locked is a block.
LEMMA LockedBlocks ==
  ASSUME MutexTypeOK, Places, NEW d \in Threads
  PROVE  /\ pc[d] \in HoldsLock => L(at[d]) \in Blocks
         /\ pc[d] \in HoldsProcess /\ L(at[d]) # NULL => P(at[d]) \in Blocks
<1>1. CASE pc[d] \in HoldsLock \cup HoldsProcess
  <2>1. manager[at[d]] \in Manager
    BY <1>1, PlaceType, MadeType DEF HoldsLock, HoldsProcess, Looping
  <2> QED
    BY <2>1 DEF Places, HoldsLock, HoldsProcess, Looping, HasBoth, L, P, Manager
<1> QED
  BY <1>1

\* A step in which no manager, block or stage of deletion changes.
Calm ==
  /\ Made' = Made /\ Live' = Live
  /\ \A m \in Managers : L(m)' = L(m) /\ P(m)' = P(m)
  /\ UNCHANGED <<platform, heap, ready>>
  /\ \A d \in Threads :
       /\ pc'[d] = "deleting" <=> pc[d] = "deleting"
       /\ pc[d] = "deleting" => at'[d] = at[d]

\* It leaves everybody's blocks where they are.
LEMMA CalmKeeps ==
  ASSUME Calm
  PROVE  /\ Made' = Made /\ Live' = Live
         /\ \A m \in Managers : Held(m)' = Held(m) /\ Mutexes(m)' = Mutexes(m)
         /\ Apart => Apart'
<1>1. Made' = Made /\ Live' = Live
  BY DEF Calm
<1>2. \A m \in Managers : L(m)' = L(m) /\ P(m)' = P(m)
  BY DEF Calm
<1>3. \A m \in Managers : Mutexes(m)' = Mutexes(m)
  BY <1>2 DEF Mutexes, L, P
<1>4. \A m \in Managers :
        (\E d \in Inside(m) : pc[d] = "deleting")' <=> (\E d \in Inside(m) : pc[d] = "deleting")
  BY DEF Calm, Inside
<1>5. \A m \in Managers : Held(m)' = Held(m)
  BY <1>2, <1>3, <1>4 DEF Held, P
<1>6. Made \subseteq Managers /\ Live \subseteq Managers
  BY DEF Made, Live
<1>7. ASSUME Apart PROVE Apart'
  <2>1. (UNION {Held(m) : m \in Live})' = UNION {Held(m) : m \in Live}
    BY <1>1, <1>5, <1>6
  <2>2. (UNION {Mutexes(m) : m \in Made})' = UNION {Mutexes(m) : m \in Made}
    BY <1>1, <1>3, <1>6
  <2> QED
    BY <1>1, <1>2, <1>5, <1>6, <1>7, <2>1, <2>2 DEF Apart, Calm
<1> QED
  BY <1>1, <1>3, <1>5, <1>7

-----------------------------------------------------------------------------
(* Every step keeps the invariant                                          *)

\* The start of a call and of destroy.
LEMMA CallSteps ==
  ASSUME MutexTypeOK, Alive, Order, NEW t \in Threads, NEW m \in Managers,
         Enter(t, m) \/ AwaitProcess(t, m) \/ DestroyLock(t, m) \/ DestroyAtOnce(t, m)
  PROVE  Order'
<1> USE DEF Looping, Destroying, HoldsLock, HoldsProcess
<1>1. Calm
  BY DEF Enter, AwaitProcess, DestroyLock, DestroyAtOnce, Goes, Calm, Made, Live, L, P,
     MutexTypeOK
<1>2. /\ m \in Live /\ pc[t] = "out" /\ at[t] = None /\ at' = [at EXCEPT ![t] = m]
      /\ \A d \in Inside(m) : pc[d] \notin Destroying
      /\ Held(m) = Mutexes(m) /\ manager' = manager
      /\ m # None
  BY HeldAtCall, MutexAssumption DEF Enter, AwaitProcess, DestroyLock, DestroyAtOnce,
     MayCall, MayDestroy, MutexTypeOK
<1>3. /\ \A x \in Managers : L(x)' = L(x) /\ P(x)' = P(x) /\ Held(x)' = Held(x)
      /\ Made' = Made /\ Live' = Live /\ Apart'
      /\ Live \subseteq Managers
  BY <1>1, CalmKeeps DEF Calm, Order, Live, Made
<1>4. /\ \A d \in Threads \ {t} : pc'[d] = pc[d] /\ at'[d] = at[d]
      /\ at'[t] = m /\ None \notin Threads
      /\ L(m) \in Blocks \cup {NULL} /\ P(m) \in Blocks \cup {NULL}
  BY <1>2, MadeType, MutexAssumption DEF Enter, AwaitProcess, DestroyLock, DestroyAtOnce,
     Goes, MutexTypeOK, Live, L, P, Manager
<1>5. \/ pc'[t] = "freeing" /\ owner' = owner /\ ~HasBoth(m) /\ MayDestroy(t, m)
      \/ pc'[t] = "waiting" /\ owner' = owner /\ P(m) # NULL
      \/ \E b \in Blocks :
           /\ owner[b] = None /\ owner' = [owner EXCEPT ![b] = t]
           /\ \/ pc'[t] = "in" /\ b = L(m)
              \/ pc'[t] = "signalling" /\ b = L(m) /\ HasBoth(m) /\ MayDestroy(t, m)
  BY <1>4 DEF Enter, AwaitProcess, DestroyLock, DestroyAtOnce, Goes, Lock, MutexTypeOK, L, P
<1>6. \A x : manager'[x] = manager[x]
  BY <1>2
<1>7. Places'
  <2>1. ASSUME NEW d \in Threads, d # t
        PROVE  Places!(d)'
    BY <1>2, <1>3, <1>4, <2>1 DEF Places, Order, HasBoth, L, P
  <2>2. Places!(t)'
    BY <1>2, <1>3, <1>4, <1>5, MutexAssumption DEF HasBoth, L, P
  <2> QED
    BY <2>1, <2>2 DEF Places
<1>8. Alone'
  <2>1. ASSUME NEW e \in Threads, NEW d \in Threads, e # d, at'[d] = at'[e],
               pc'[e] \in Destroying
        PROVE  /\ pc'[d] \in Looping
               /\ pc'[e] \in {"joined", "freeing", "deleting"} => L(at[e])' = NULL
    <3>1. CASE e = t
      <4>1. d \in Inside(m) /\ pc'[d] = pc[d] /\ pc[d] \in Looping
        BY <1>4, <1>5, <2>1, <3>1 DEF Inside, MayDestroy
      <4>2. P(m) # NULL
        BY <4>1 DEF Order, Places, Inside
      <4> QED
        BY <1>2, <1>4, <1>5, <3>1, <4>1, <4>2 DEF HasBoth, L, P
    <3>2. CASE d = t
      BY <1>2, <1>4, <2>1, <3>2 DEF Inside
    <3>3. CASE e # t /\ d # t
      BY <1>2, <1>4, <2>1, <3>3 DEF Order, Alone, L
    <3> QED
      BY <3>1, <3>2, <3>3
  <2> QED
    BY <2>1 DEF Alone, L
<1>9. Owners'
  <2>1. ASSUME NEW d \in Threads
        PROVE  /\ pc'[d] \in HoldsLock => owner'[L(at[d])'] = d
               /\ pc'[d] \in HoldsProcess /\ L(at[d])' # NULL => owner'[P(at[d])'] = d
    <3>1. CASE d # t
      BY <1>2, <1>4, <1>5, <2>1, <3>1, LockedBlocks DEF Owners, Order, MutexTypeOK, L, P
    <3>2. CASE d = t
      BY <1>2, <1>4, <1>5, <3>2 DEF MutexTypeOK, L, P
    <3> QED
      BY <3>1, <3>2
  <2> QED
    BY <2>1 DEF Owners, L, P
<1>10. Owned'
  <2> SUFFICES ASSUME NEW n \in Live, HasBoth(n)
               PROVE  /\ \A d \in Threads : L(n) \in Held(n) /\ owner'[L(n)] = d =>
                           at'[d] = n /\ pc'[d] \in HoldsLock
                      /\ \A d \in Threads : owner'[P(n)] = d =>
                           at'[d] = n /\ pc'[d] \in HoldsProcess
    BY <1>3, <1>6 DEF Owned, HasBoth, L, P
  <2>1. L(n) \in Blocks /\ P(n) \in Blocks /\ P(n) \in Held(n) /\ n \in Made
    BY MadeType DEF Live, HasBoth, Held, Mutexes, L, P, Manager
  <2>2. ASSUME NEW x \in {L(n), P(n)}, x \in Held(n), NEW d \in Threads, owner'[x] = d
        PROVE  /\ at'[d] = n
               /\ x = L(n) => pc'[d] \in HoldsLock
               /\ x = P(n) => pc'[d] \in HoldsProcess
    <3>1. CASE owner[x] = d
      <4>1. /\ at[d] = n
            /\ x = L(n) => pc[d] \in HoldsLock
            /\ x = P(n) => pc[d] \in HoldsProcess
        BY <2>2, <3>1 DEF Order, Owned
      <4> QED
        BY <1>2, <1>4, <2>2, <4>1
    <3>2. CASE owner[x] # d
      <4>1. d = t /\ pc'[t] # "freeing" /\ x \in {L(m), P(m)}
        BY <1>4, <1>5, <2>1, <2>2, <3>2 DEF MutexTypeOK
      <4>2. x \in Held(m) /\ n = m
        BY <1>2, <2>1, <2>2, <4>1, MutexAssumption DEF Mutexes, L, P, Order, Apart
      <4>3. L(m) # P(m)
        BY <2>1, <4>2 DEF Order, Apart, HasBoth, L
      <4> QED
        BY <1>4, <1>5, <2>1, <2>2, <3>2, <4>1, <4>2, <4>3 DEF MutexTypeOK
    <3> QED
      BY <3>1, <3>2
  <2> QED
    BY <2>1, <2>2
<1> QED
  BY <1>3, <1>7, <1>8, <1>9, <1>10 DEF Order

\* The steps inside a call, inside the loop, and inside destroy until it frees.
LEMMA LoopSteps ==
  ASSUME MutexTypeOK, Alive, Order, NEW t \in Threads,
         \/ Return(t) \/ EnterProcess(t) \/ BeginRound(t) \/ EndRound(t)
         \/ LeaveProcess(t) \/ DestroySignal(t) \/ DestroyJoin(t) \/ DestroyJoined(t)
  PROVE  Order'
<1> DEFINE m == at[t]
<1> USE DEF Looping, Destroying, HoldsLock, HoldsProcess
<1>1. /\ m \in Made /\ m \in Managers /\ manager[m] \in Manager /\ None \notin Threads
      /\ pc[t] \in {"in", "waiting", "top", "round", "leaving", "signalling", "joining",
                   "joined"}
  BY PlaceType, MadeType, MutexAssumption DEF Return, EnterProcess, BeginRound, EndRound,
     LeaveProcess, DestroySignal, DestroyJoin, DestroyJoined, Goes
<1>2. /\ \A d \in Threads \ {t} : pc'[d] = pc[d] /\ at'[d] = at[d]
      /\ at'[t] = IF pc'[t] = "out" THEN None ELSE m
  BY DEF Return, EnterProcess, BeginRound, EndRound, LeaveProcess, DestroySignal,
     DestroyJoin, DestroyJoined, Goes, MutexTypeOK
<1>3. \/ /\ \/ pc[t] = "top" /\ pc'[t] = "round" /\ owner' = [owner EXCEPT ![L(m)] = t]
               /\ L(m) # NULL /\ owner[L(m)] = None
            \/ /\ \/ pc[t] = "joining" /\ pc'[t] = "joined"
                  \/ pc[t] = "waiting" /\ pc'[t] = "top"
               /\ owner' = [owner EXCEPT ![P(m)] = t]
               /\ P(m) # NULL /\ owner[P(m)] = None
      \/ /\ \/ pc[t] = "in" /\ pc'[t] = "out"
            \/ pc[t] = "round" /\ pc'[t] \in {"top", "leaving"}
            \/ pc[t] = "signalling" /\ pc'[t] = "joining"
         /\ owner' = [owner EXCEPT ![L(m)] = None]
      \/ /\ \/ pc[t] = "leaving" /\ pc'[t] = "out"
            \/ pc[t] = "joined" /\ pc'[t] = "freeing"
         /\ owner' = [owner EXCEPT ![P(m)] = None]
  BY DEF Return, EnterProcess, BeginRound, EndRound, LeaveProcess, DestroySignal,
     DestroyJoin, DestroyJoined, Goes, Lock, Unlock, MutexTypeOK, L, P
<1>4. \A x \in Managers : /\ L(x)' = L(x) /\ P(x)' = P(x)
                          /\ manager'[x] = None <=> manager[x] = None
                          /\ manager'[x].live = manager[x].live
  <2>1. CASE DestroySignal(t)
    <3>1. manager' = [manager EXCEPT ![m] = [manager[m] EXCEPT !.shutting_down = TRUE]]
      BY <2>1 DEF DestroySignal
    <3>2. [manager[m] EXCEPT !.shutting_down = TRUE] \in Manager
      BY <1>1 DEF Manager
    <3> QED
      BY <1>1, <3>1, <3>2, MutexAssumption DEF MutexTypeOK, Manager, L, P
  <2>2. CASE manager' = manager
    BY <2>2 DEF L, P
  <2> QED
    BY <2>1, <2>2 DEF Return, EnterProcess, BeginRound, EndRound, LeaveProcess,
       DestroyJoin, DestroyJoined
<1>5. Calm
  <2>1. Made' = Made /\ Live' = Live
    BY <1>4 DEF Made, Live
  <2>2. UNCHANGED <<platform, heap, ready>>
    BY DEF Return, EnterProcess, BeginRound, EndRound, LeaveProcess, DestroySignal,
       DestroyJoin, DestroyJoined
  <2> QED
    BY <1>2, <1>3, <1>4, <2>1, <2>2 DEF Calm
<1>6. /\ \A x \in Managers : Held(x)' = Held(x)
      /\ Made' = Made /\ Live' = Live /\ Apart'
      /\ Live \subseteq Managers
  BY <1>5, CalmKeeps DEF Order, Live, Made
<1>7. /\ pc[t] \in HoldsLock => owner[L(m)] = t /\ L(m) \in Blocks
      /\ pc[t] \in HoldsProcess /\ L(m) # NULL => owner[P(m)] = t /\ P(m) \in Blocks
      /\ L(m) \in Blocks \cup {NULL} /\ P(m) \in Blocks \cup {NULL}
      /\ pc[t] \in {"in", "round", "leaving", "signalling", "joining", "joined"} =>
           L(m) # NULL /\ m \in Live
      /\ pc[t] \in {"waiting", "top", "round", "leaving", "signalling", "joining", "joined"} =>
           P(m) # NULL
      /\ pc[t] = "top" /\ L(m) # NULL => m \in Live
      /\ pc[t] = "waiting" => m \in Live
      /\ L(m) # NULL => L(m) # P(m)
  BY <1>1, LockedBlocks DEF Order, Owners, Places, Apart, HasBoth, L, P, Manager
<1>8. \A d \in Threads : pc[d] \notin {"out", "crashed"} => at[d] \in Managers /\ at[d] # None
  BY PlaceType, MadeType, MutexAssumption DEF Made
<1>9. \A d \in Threads : pc'[d] # "out" /\ pc'[d] # "crashed" =>
        at'[d] = at[d] /\ L(at[d])' = L(at[d]) /\ P(at[d])' = P(at[d]) /\ at[d] \in Managers
  BY <1>1, <1>2, <1>4, <1>8 DEF L, P
<1>10. Places'
  <2>1. ASSUME NEW d \in Threads, d # t
        PROVE  Places!(d)'
    BY <1>2, <1>6, <1>9, <2>1 DEF Places, Order, HasBoth, L, P
  <2>2. Places!(t)'
    BY <1>2, <1>3, <1>6, <1>7, <1>9 DEF HasBoth, L, P
  <2> QED
    BY <2>1, <2>2 DEF Places
<1>11. Alone'
  <2>1. ASSUME NEW e \in Threads, NEW d \in Threads, e # d, at'[d] = at'[e],
               pc'[e] \in Destroying
        PROVE  /\ pc'[d] \in Looping
               /\ pc'[e] \in {"joined", "freeing", "deleting"} => L(at[e])' = NULL
    <3>1. pc[e] \in Destroying /\ at'[e] = at[e] /\ L(at[e])' = L(at[e]) /\ at[e] # None
      BY <1>2, <1>3, <1>8, <1>9, <2>1
    <3>2. pc'[d] # "out" /\ at[d] = at[e]
      BY <1>2, <1>3, <2>1, <3>1 DEF MutexTypeOK, Alive
    <3>3. /\ pc[d] \in Looping
          /\ pc[e] \in {"joined", "freeing", "deleting"} => L(at[e]) = NULL
      BY <2>1, <3>1, <3>2 DEF Order, Alone
    <3>4. pc'[d] \in Looping
      BY <1>2, <1>3, <3>2, <3>3
    <3>5. ASSUME pc'[e] \in {"joined", "freeing", "deleting"} PROVE L(at[e]) = NULL
      <4>1. CASE pc[e] = "joining"
        <5>1. e = t /\ owner[P(m)] = None
          BY <1>2, <1>3, <3>5, <4>1
        <5>2. owner[P(m)] = d \/ L(m) = NULL
          BY <3>2, <3>3, <5>1 DEF Order, Owners
        <5> QED
          BY <1>1, <5>1, <5>2
      <4>2. CASE pc[e] # "joining"
        BY <1>2, <1>3, <3>1, <3>3, <3>5, <4>2
      <4> QED
        BY <4>1, <4>2
    <3> QED
      BY <3>1, <3>4, <3>5
  <2> QED
    BY <2>1 DEF Alone, L
<1>12. Owners'
  <2>1. ASSUME NEW d \in Threads
        PROVE  /\ pc'[d] \in HoldsLock => owner'[L(at[d])'] = d
               /\ pc'[d] \in HoldsProcess /\ L(at[d])' # NULL => owner'[P(at[d])'] = d
    <3>1. CASE d # t
      BY <1>1, <1>2, <1>3, <1>7, <1>9, <2>1, <3>1, LockedBlocks
         DEF Owners, Order, MutexTypeOK
    <3>2. CASE d = t
      BY <1>1, <1>2, <1>3, <1>7, <1>9, <3>2 DEF MutexTypeOK
    <3> QED
      BY <3>1, <3>2
  <2> QED
    BY <2>1 DEF Owners, L, P
<1>13. Owned'
  <2> SUFFICES ASSUME NEW n \in Live, HasBoth(n)
               PROVE  /\ \A d \in Threads : L(n) \in Held(n) /\ owner'[L(n)] = d =>
                           at'[d] = n /\ pc'[d] \in HoldsLock
                      /\ \A d \in Threads : owner'[P(n)] = d =>
                           at'[d] = n /\ pc'[d] \in HoldsProcess
    BY <1>4, <1>6 DEF Owned, HasBoth, L, P
  <2>1. L(n) \in Blocks /\ P(n) \in Blocks /\ P(n) \in Held(n) /\ n \in Made /\ L(n) # P(n)
    BY MadeType DEF Live, HasBoth, Held, Mutexes, L, P, Manager, Order, Apart
  <2>2. ASSUME NEW x \in {L(n), P(n)}, x \in Held(n), NEW d \in Threads, owner'[x] = d
        PROVE  /\ at'[d] = n
               /\ x = L(n) => pc'[d] \in HoldsLock
               /\ x = P(n) => pc'[d] \in HoldsProcess
    <3>1. CASE owner[x] = d
      <4>1. /\ at[d] = n
            /\ x = L(n) => pc[d] \in HoldsLock
            /\ x = P(n) => pc[d] \in HoldsProcess
        BY <2>2, <3>1 DEF Order, Owned
      <4>2. CASE d # t
        BY <1>2, <4>1, <4>2
      <4>3. CASE d = t
        BY <1>1, <1>2, <1>3, <1>7, <2>1, <2>2, <3>1, <4>1, <4>3 DEF MutexTypeOK
      <4> QED
        BY <4>2, <4>3
    <3>2. CASE owner[x] # d
      <4>1. /\ d = t
            /\ \/ x = L(m) /\ pc[t] = "top" /\ pc'[t] = "round"
               \/ x = P(m) /\ pc[t] = "joining" /\ pc'[t] = "joined"
               \/ x = P(m) /\ pc[t] = "waiting" /\ pc'[t] = "top"
            /\ P(m) # NULL /\ (pc[t] = "top" => L(m) # NULL)
        BY <1>1, <1>2, <1>3, <1>7, <2>1, <2>2, <3>2 DEF MutexTypeOK
      <4>2. Held(m) = Mutexes(m) /\ m \in Live
        BY <1>1, <1>7, <1>8, <4>1, HeldWhole DEF Order
      <4>3. n = m
        BY <2>2, <4>1, <4>2 DEF Mutexes, L, P, Order, Apart
      <4> QED
        BY <1>2, <2>1, <4>1, <4>3
    <3> QED
      BY <3>1, <3>2
  <2> QED
    BY <2>1, <2>2
<1> QED
  BY <1>6, <1>10, <1>11, <1>12, <1>13 DEF Order

\* The first mutex is taken down: no thread has it, and no other manager.
LEMMA FreeStep ==
  ASSUME MutexTypeOK, Alive, Order, NEW t \in Threads, DestroyFree(t)
  PROVE  Order'
<1> DEFINE m == at[t]
<1> USE DEF Looping, Destroying, HoldsLock, HoldsProcess
<1>1. /\ m \in Live /\ m \in Made /\ m \in Managers /\ None \notin Threads /\ m # None
      /\ pc[t] = "freeing" /\ pc' = [pc EXCEPT ![t] = "deleting"] /\ at' = at
      /\ manager' = manager /\ owner' = owner /\ platform' = platform
      /\ ready' = ready \ {L(m)}
      /\ L(m) = NULL => platform = "windows"
      /\ heap' = IF platform = "windows" THEN heap \ {L(m)} ELSE heap
  BY PlaceType, MadeType, MutexAssumption
     DEF DestroyFree, DestroyMutex, Goes, Order, Places, L, Made
<1>2. /\ Made' = Made /\ Live' = Live /\ Live \subseteq Made /\ Made \subseteq Managers
      /\ \A x : L(x)' = L(x) /\ P(x)' = P(x) /\ Mutexes(x)' = Mutexes(x)
  BY <1>1 DEF Made, Live, Mutexes, L, P
<1>3. Held(m) = Mutexes(m)
  BY <1>1, HeldWhole DEF Order
<1>4. ASSUME NEW x \in Live, x = m PROVE Held(x)' = {P(x)} \ {NULL}
  <2>1. (\E d \in Inside(x) : pc[d] = "deleting")'
    BY <1>1, <1>4 DEF Inside, MutexTypeOK
  <2> QED
    BY <1>1, <2>1 DEF Held, P
<1>5. \A x \in Live : x # m => Held(x)' = Held(x)
  <2>1. ASSUME NEW x \in Live, x # m PROVE Held(x)' = Held(x)
    <3>1. (\E d \in Inside(x) : pc[d] = "deleting")' <=> (\E d \in Inside(x) : pc[d] = "deleting")
      BY <1>1, <2>1 DEF Inside, MutexTypeOK
    <3> QED
      BY <1>1, <1>2, <3>1 DEF Held, P
  <2> QED
    BY <2>1
<1>6. L(m) # NULL => L(m) # P(m)
  BY <1>1 DEF Order, Apart
<1>7. \A x \in Live : x = m => Held(x)' = Held(x) \ {L(m)}
  BY <1>3, <1>4, <1>6 DEF Mutexes, L, P
<1>8. \A x \in Live : x # m => L(m) \notin Held(x)
  <2>1. \A x \in Live : NULL \notin Held(x)
    BY DEF Held, Mutexes
  <2>2. L(m) = NULL \/ L(m) \in Held(m)
    BY <1>3 DEF Mutexes, L
  <2> QED
    BY <1>1, <2>1, <2>2 DEF Order, Apart
<1>9. Apart'
  <2>1. \A x \in Live : Held(x)' = Held(x) \ {L(m)}
    BY <1>5, <1>7, <1>8
  <2>2. ready' = (UNION {Held(x) : x \in Live})'
    <3>1. ready = UNION {Held(x) : x \in Live}
      BY DEF Order, Apart
    <3>2. (UNION {Held(x) : x \in Live})' = (UNION {Held(x) : x \in Live}) \ {L(m)}
      BY <1>2, <2>1
    <3> QED
      BY <1>1, <3>1, <3>2
  <2>3. (UNION {Mutexes(x) : x \in Made})' = UNION {Mutexes(x) : x \in Made}
    BY <1>2
  <2>4. \A x, y \in Live' : x # y => Held(x)' \cap Held(y)' = {}
    BY <1>2, <2>1 DEF Order, Apart
  <2>5. /\ platform' = "windows" => heap' = ready'
        /\ platform' = "pthread" => heap' = UNION {Mutexes(x) : x \in Made}
    BY <1>1 DEF Order, Apart
  <2> QED
    BY <1>2, <2>2, <2>3, <2>4, <2>5 DEF Order, Apart
<1>10. Places' /\ Alone' /\ Owners'
  <2>1. \A d \in Threads : d # t => pc'[d] = pc[d]
    BY <1>1
  <2>2. pc'[t] = "deleting"
    BY <1>1 DEF MutexTypeOK
  <2>3. Places'
    BY <1>1, <1>2, <2>1, <2>2 DEF Order, Places, HasBoth, L, P
  <2>4. Alone'
    BY <1>1, <1>2, <2>1, <2>2 DEF Order, Alone, L
  <2>5. Owners'
    BY <1>1, <1>2, <2>1, <2>2 DEF Order, Owners, L, P
  <2> QED
    BY <2>3, <2>4, <2>5
<1>11. Owned'
  <2>1. \A x \in Live : HasBoth(x)' <=> HasBoth(x)
    BY <1>1 DEF HasBoth
  <2>2. \A x \in Live : L(x) \in Held(x)' => L(x) \in Held(x)
    BY <1>5, <1>7
  <2>3. \A d \in Threads : pc[d] \in HoldsLock \cup HoldsProcess => pc'[d] = pc[d]
    BY <1>1
  <2> QED
    BY <1>1, <1>2, <2>1, <2>2, <2>3 DEF Order, Owned
<1> QED
  BY <1>9, <1>10, <1>11 DEF Order

\* The second mutex and the manager go: nobody is inside who will look at them.
LEMMA DeleteStep ==
  ASSUME MutexTypeOK, Alive, Order, NEW t \in Threads, DestroyDelete(t)
  PROVE  Order'
<1> DEFINE m == at[t]
<1> USE DEF Looping, Destroying, HoldsLock, HoldsProcess
<1>1. /\ m \in Live /\ m \in Made /\ m \in Managers /\ None \notin Threads /\ m # None
      /\ manager[m] \in Manager /\ None \notin Managers
      /\ pc[t] = "deleting" /\ pc' = [pc EXCEPT ![t] = "out"]
      /\ at' = [at EXCEPT ![t] = None]
      /\ manager' = [manager EXCEPT ![m] = [manager[m] EXCEPT !.live = FALSE]]
      /\ owner' = owner /\ platform' = platform
      /\ ready' = ready \ {P(m)}
      /\ P(m) = NULL => platform = "windows"
      /\ heap' = IF platform = "windows" THEN heap \ {P(m)} ELSE heap
  BY PlaceType, MadeType, MutexAssumption
     DEF DestroyDelete, DestroyMutex, Goes, Order, Places, P, Made
<1>2. /\ [manager[m] EXCEPT !.live = FALSE] \in Manager
      /\ [manager[m] EXCEPT !.live = FALSE].live = FALSE
      /\ [manager[m] EXCEPT !.live = FALSE].lock = L(m)
      /\ [manager[m] EXCEPT !.live = FALSE].process_lock = P(m)
  BY <1>1 DEF Manager, L, P
<1>3. \A x \in Managers : /\ L(x)' = L(x) /\ P(x)' = P(x)
                          /\ manager'[x] = None <=> manager[x] = None
                          /\ manager'[x].live = IF x = m THEN FALSE ELSE manager[x].live
  BY <1>1, <1>2, MutexAssumption DEF MutexTypeOK, L, P
<1>4. /\ Made' = Made /\ Live' = Live \ {m} /\ Live \subseteq Made /\ Made \subseteq Managers
      /\ \A x \in Managers : Mutexes(x)' = Mutexes(x) /\ (HasBoth(x)' <=> HasBoth(x))
  BY <1>3 DEF Made, Live, Mutexes, HasBoth, L, P
<1>5. Held(m) = {P(m)} \ {NULL}
  BY <1>1 DEF Held, Inside, P
<1>6. \A x \in Live : x # m => Held(x)' = Held(x)
  <2>1. ASSUME NEW x \in Live, x # m PROVE Held(x)' = Held(x)
    <3>1. (\E d \in Inside(x) : pc[d] = "deleting")' <=> (\E d \in Inside(x) : pc[d] = "deleting")
      BY <1>1, <1>4, <2>1 DEF Inside, MutexTypeOK
    <3> QED
      BY <1>3, <1>4, <3>1 DEF Held, P
  <2> QED
    BY <2>1
<1>7. \A x \in Live : x # m => P(m) \notin Held(x)
  <2>1. \A x \in Live : NULL \notin Held(x)
    BY DEF Held, Mutexes
  <2> QED
    BY <1>1, <1>5, <2>1 DEF Order, Apart
<1>8. Apart'
  <2>1. ready' = (UNION {Held(x) : x \in Live})'
    <3>1. ready = UNION {Held(x) : x \in Live}
      BY DEF Order, Apart
    <3>2. (UNION {Held(x) : x \in Live})' = UNION {Held(x) : x \in Live \ {m}}
      BY <1>4, <1>6
    <3>3. UNION {Held(x) : x \in Live \ {m}} = (UNION {Held(x) : x \in Live}) \ {P(m)}
      BY <1>5, <1>7
    <3> QED
      BY <1>1, <3>1, <3>2, <3>3
  <2>2. (UNION {Mutexes(x) : x \in Made})' = UNION {Mutexes(x) : x \in Made}
    BY <1>4
  <2>3. \A x, y \in Live' : x # y => Held(x)' \cap Held(y)' = {}
    BY <1>4, <1>6 DEF Order, Apart
  <2>4. /\ platform' = "windows" => heap' = ready'
        /\ platform' = "pthread" => heap' = UNION {Mutexes(x) : x \in Made}
    BY <1>1 DEF Order, Apart
  <2>5. \A x \in Made' : L(x)' = P(x)' => L(x)' = NULL
    <3>1. \A x \in Made : L(x) = P(x) => L(x) = NULL
      BY DEF Order, Apart
    <3>2. \A x \in Managers : L(x)' = L(x) /\ P(x)' = P(x)
      BY <1>3
    <3>3. Made' = Made /\ Made \subseteq Managers
      BY <1>4
    <3> QED
      BY <3>1, <3>2, <3>3
  <2> QED
    BY <2>1, <2>2, <2>3, <2>4, <2>5 DEF Apart
<1>9. /\ \A d \in Threads : d # t => pc'[d] = pc[d] /\ at'[d] = at[d]
      /\ pc'[t] = "out" /\ at'[t] = None
  BY <1>1 DEF MutexTypeOK
<1>10. \A d \in Threads : pc'[d] # "out" =>
         /\ d # t /\ at[d] \in Managers /\ at[d] # None
         /\ L(at[d])' = L(at[d]) /\ P(at[d])' = P(at[d])
         /\ at[d] = m => pc[d] \in Looping /\ L(m) = NULL
  <2>1. ASSUME NEW d \in Threads, pc'[d] # "out" PROVE d # t /\ at[d] \in Managers /\ at[d] # None
    BY <1>4, <1>9, <2>1, PlaceType, MutexAssumption DEF Alive, Made
  <2>2. ASSUME NEW d \in Threads, d # t, at[d] = m PROVE pc[d] \in Looping /\ L(m) = NULL
    BY <1>1, <2>2 DEF Order, Alone
  <2> QED
    BY <1>3, <1>9, <2>1, <2>2 DEF L, P
<1>11. Places'
  <2>1. ASSUME NEW d \in Threads, d # t PROVE Places!(d)'
    BY <1>4, <1>9, <1>10, <2>1 DEF Order, Places, HasBoth, L, P
  <2>2. Places!(t)'
    BY <1>9
  <2> QED
    BY <2>1, <2>2 DEF Places
<1>12. Alone'
  BY <1>9, <1>10 DEF Order, Alone, L
<1>13. Owners'
  BY <1>1, <1>9, <1>10 DEF Order, Owners, L, P
<1>14. Owned'
  <2> SUFFICES ASSUME NEW n \in Live \ {m}, HasBoth(n)
               PROVE  /\ \A d \in Threads : L(n) \in Held(n) /\ owner[L(n)] = d =>
                           at'[d] = n /\ pc'[d] \in HoldsLock
                      /\ \A d \in Threads : owner[P(n)] = d =>
                           at'[d] = n /\ pc'[d] \in HoldsProcess
    BY <1>1, <1>3, <1>4, <1>6 DEF Owned, L, P
  <2> QED
    BY <1>9 DEF Order, Owned
<1> QED
  BY <1>8, <1>11, <1>12, <1>13, <1>14 DEF Order

\* A new manager gets blocks that nobody has.
LEMMA CreateStep ==
  ASSUME MutexTypeOK, Alive, Order, NEW t \in Threads, NEW m \in Managers, Create(t, m)
  PROVE  Order'
<1> USE DEF Looping, Destroying, HoldsLock, HoldsProcess
<1>1. PICK a, b \in Created :
        /\ a = b => a = NULL
        /\ manager' = [manager EXCEPT ![m] =
                         [lock |-> a, process_lock |-> b, shutting_down |-> FALSE,
                          live |-> TRUE]]
        /\ heap' = heap \cup ({a, b} \ {NULL})
        /\ ready' = ready \cup ({a, b} \ {NULL})
        /\ owner' = [x \in Blocks |-> IF x \in {a, b} THEN None ELSE owner[x]]
  BY DEF Create
<1>2. /\ m \notin Made /\ pc' = pc /\ at' = at /\ platform' = platform
      /\ None \notin Threads /\ None \notin Managers /\ NULL \notin Blocks
      /\ a \in (Blocks \ heap) \cup {NULL} /\ b \in (Blocks \ heap) \cup {NULL}
      /\ Live \subseteq Made /\ Made \subseteq Managers
  BY MutexAssumption DEF Create, Created, Live, Made
<1>3. /\ L(m)' = a /\ P(m)' = b /\ manager'[m].live = TRUE /\ manager'[m] # None
      /\ \A x \in Managers : x # m => /\ manager'[x] = manager[x]
                                      /\ L(x)' = L(x) /\ P(x)' = P(x)
                                      /\ Mutexes(x)' = Mutexes(x)
                                      /\ (HasBoth(x)' <=> HasBoth(x))
  <2>1. [lock |-> a, process_lock |-> b, shutting_down |-> FALSE, live |-> TRUE] \in Manager
    BY <1>2 DEF Manager
  <2> QED
    BY <1>1, <2>1, MutexAssumption DEF MutexTypeOK, L, P, Mutexes, HasBoth
<1>4. Made' = Made \cup {m} /\ Live' = Live \cup {m} /\ m \notin Live
  BY <1>2, <1>3 DEF Made, Live
<1>5. \A d \in Threads : pc[d] # "out" => at[d] \in Made /\ at[d] # m
  BY <1>2, PlaceType DEF Alive
<1>6. /\ Mutexes(m)' = {a, b} \ {NULL} /\ Held(m)' = {a, b} \ {NULL}
      /\ \A x \in Made : Held(x)' = Held(x)
  <2>1. Mutexes(m)' = {a, b} \ {NULL}
    BY <1>3 DEF Mutexes, L, P
  <2>2. ~(\E d \in Inside(m) : pc[d] = "deleting")'
    BY <1>2, <1>5 DEF Inside
  <2>3. ASSUME NEW x \in Made PROVE Held(x)' = Held(x)
    <3>1. (\E d \in Inside(x) : pc[d] = "deleting")' <=> (\E d \in Inside(x) : pc[d] = "deleting")
      BY <1>2 DEF Inside
    <3> QED
      BY <1>2, <1>3, <3>1 DEF Held, P
  <2> QED
    BY <2>1, <2>2, <2>3 DEF Held
<1>7. \A x \in Live : Held(x) \subseteq ready /\ ready \subseteq heap
  BY DEF Order, Apart, MutexTypeOK
<1>8. Apart'
  <2>1. \A x \in Made' : L(x)' = P(x)' => L(x)' = NULL
    <3>1. \A x \in Made : L(x) = P(x) => L(x) = NULL
      BY DEF Order, Apart
    <3> QED
      BY <1>1, <1>2, <1>3, <1>4, <3>1
  <2>2. \A x, y \in Live' : x # y => Held(x)' \cap Held(y)' = {}
    <3>1. \A x, y \in Live : x # y => Held(x) \cap Held(y) = {}
      BY DEF Order, Apart
    <3>2. \A x \in Live : Held(x)' \cap ({a, b} \ {NULL}) = {}
      BY <1>2, <1>6, <1>7
    <3> QED
      BY <1>2, <1>4, <1>6, <3>1, <3>2
  <2>3. ready' = (UNION {Held(x) : x \in Live})'
    <3>1. ready = UNION {Held(x) : x \in Live}
      BY DEF Order, Apart
    <3>2. (UNION {Held(x) : x \in Live})' = (UNION {Held(x) : x \in Live}) \cup ({a, b} \ {NULL})
      BY <1>2, <1>4, <1>6
    <3> QED
      BY <1>1, <3>1, <3>2
  <2>4. (UNION {Mutexes(x) : x \in Made})'
          = (UNION {Mutexes(x) : x \in Made}) \cup ({a, b} \ {NULL})
    BY <1>2, <1>3, <1>4, <1>6
  <2>5. /\ platform' = "windows" => heap' = ready'
        /\ platform' = "pthread" => heap' = (UNION {Mutexes(x) : x \in Made})'
    BY <1>1, <1>2, <2>4 DEF Order, Apart
  <2> QED
    BY <2>1, <2>2, <2>3, <2>5 DEF Apart
<1>9. \A d \in Threads : pc[d] # "out" =>
        /\ at[d] \in Managers /\ at[d] # m
        /\ L(at[d])' = L(at[d]) /\ P(at[d])' = P(at[d]) /\ (HasBoth(at[d])' <=> HasBoth(at[d]))
  BY <1>2, <1>3, <1>5 DEF L, P, HasBoth
<1>10. Places'
  BY <1>2, <1>4, <1>9 DEF Order, Places
<1>11. Alone'
  BY <1>2, <1>9 DEF Order, Alone
<1>12. \A x \in ready : owner'[x] = owner[x]
  BY <1>1, <1>2, <1>7 DEF MutexTypeOK
<1>13. Owners'
  <2>1. ASSUME NEW d \in Threads
        PROVE  /\ pc[d] \in HoldsLock => L(at[d]) \in ready
               /\ pc[d] \in HoldsProcess /\ L(at[d]) # NULL => P(at[d]) \in ready
    <3>1. CASE pc[d] \in HoldsLock \/ (pc[d] \in HoldsProcess /\ L(at[d]) # NULL)
      <4>1. at[d] \in Live /\ L(at[d]) # NULL /\ at[d] # None
        BY <1>2, <1>5, <3>1 DEF Order, Places, HasBoth, L
      <4>2. Held(at[d]) = Mutexes(at[d])
        BY <3>1, <4>1, HeldWhole DEF Order
      <4>3. pc[d] \in HoldsProcess => P(at[d]) # NULL
        BY DEF Order, Places, HasBoth, P
      <4> QED
        BY <1>7, <4>1, <4>2, <4>3 DEF Mutexes, L, P
    <3> QED
      BY <3>1
  <2> QED
    BY <1>2, <1>9, <1>12, <2>1 DEF Order, Owners
<1>14. Owned'
  <2>1. ASSUME NEW x \in Live, HasBoth(x)
        PROVE  /\ \A d \in Threads : L(x) \in Held(x) /\ owner'[L(x)] = d =>
                    at[d] = x /\ pc[d] \in HoldsLock
               /\ \A d \in Threads : owner'[P(x)] = d => at[d] = x /\ pc[d] \in HoldsProcess
    <3>1. P(x) \in Held(x)
      BY <2>1 DEF Held, Mutexes, HasBoth, P
    <3> QED
      BY <1>7, <1>12, <2>1, <3>1 DEF Order, Owned
  <2>2. ASSUME a # NULL, b # NULL, NEW d \in Threads PROVE owner'[a] # d /\ owner'[b] # d
    BY <1>1, <1>2, <2>2
  <2>3. HasBoth(m)' => a # NULL /\ b # NULL
    BY <1>3 DEF HasBoth, L, P
  <2>4. \A x \in Live : x # m /\ L(x)' = L(x) /\ P(x)' = P(x) /\ Held(x)' = Held(x)
                        /\ (HasBoth(x)' <=> HasBoth(x))
    BY <1>2, <1>3, <1>4, <1>6
  <2> QED
    BY <1>2, <1>3, <1>4, <2>1, <2>2, <2>3, <2>4 DEF Owned
<1> QED
  BY <1>8, <1>10, <1>11, <1>13, <1>14 DEF Order

\* What every thread does but for the crash is done by one that is alive, and so
\* are they all, before and after.
LEMMA AliveSteps ==
  ASSUME MutexTypeOK, Fate, NEW t \in Threads,
         \/ \E m \in Managers : \/ Create(t, m) \/ Enter(t, m) \/ AwaitProcess(t, m)
                                \/ DestroyLock(t, m) \/ DestroyAtOnce(t, m)
         \/ Return(t) \/ EnterProcess(t) \/ BeginRound(t) \/ EndRound(t)
         \/ LeaveProcess(t) \/ DestroySignal(t) \/ DestroyJoin(t) \/ DestroyJoined(t)
         \/ DestroyFree(t) \/ DestroyDelete(t)
  PROVE  Alive /\ Alive'
<1>1. pc[t] # "crashed" /\ \E to : to # "crashed" /\ pc' = [pc EXCEPT ![t] = to]
  <2>1. CASE \E m \in Managers : Create(t, m)
    BY <2>1 DEF Create, MutexTypeOK
  <2>2. CASE \E m \in Managers : \/ Enter(t, m) \/ AwaitProcess(t, m)
                                 \/ DestroyLock(t, m) \/ DestroyAtOnce(t, m)
    BY <2>2 DEF Enter, AwaitProcess, DestroyLock, DestroyAtOnce, Goes
  <2>3. CASE EndRound(t)
    <3>1. pc[t] = "round" /\ \E to \in {"leaving", "top"} : pc' = [pc EXCEPT ![t] = to]
      BY <2>3 DEF EndRound, Goes
    <3> QED
      BY <3>1
  <2>4. CASE \/ Return(t) \/ EnterProcess(t) \/ BeginRound(t) \/ LeaveProcess(t)
             \/ DestroySignal(t) \/ DestroyJoin(t) \/ DestroyJoined(t)
             \/ DestroyFree(t) \/ DestroyDelete(t)
    BY <2>4 DEF Return, EnterProcess, BeginRound, LeaveProcess, DestroySignal, DestroyJoin,
       DestroyJoined, DestroyFree, DestroyDelete, Goes
  <2> QED
    BY <2>1, <2>2, <2>3, <2>4
<1>2. Alive
  BY <1>1 DEF Fate
<1> QED
  BY <1>1, <1>2 DEF Alive, MutexTypeOK

\* Every step keeps the invariant.
LEMMA MutexInvStep == MutexInv /\ [MutexNext]_mutexvars => MutexInv'
<1> SUFFICES ASSUME MutexInv, [MutexNext]_mutexvars PROVE Fate' /\ (Alive' => Order')
  BY StepTypes DEF MutexInv
<1>1. CASE Crash /\ \E t \in Threads : TRUE
  BY <1>1 DEF Crash, Fate, Alive
<1>2. CASE UNCHANGED mutexvars
  <2>1. Calm
    BY <1>2 DEF mutexvars, Calm, Made, Live, L, P
  <2>2. /\ Made' = Made /\ Live' = Live /\ Live \subseteq Managers
        /\ \A x \in Managers : Held(x)' = Held(x)
        /\ Apart => Apart'
    BY <2>1, CalmKeeps DEF Live, Made
  <2>3. pc' = pc /\ at' = at /\ owner' = owner /\ manager' = manager
    BY <1>2 DEF mutexvars
  <2>4. (Alive' <=> Alive) /\ Fate'
    BY <2>3 DEF MutexInv, Fate, Alive
  <2>5. Places => Places'
    BY <2>2, <2>3 DEF Places, HasBoth, L, P
  <2>6. Alone => Alone'
    BY <2>3 DEF Alone, L
  <2>7. Owners => Owners'
    BY <2>3 DEF Owners, L, P
  <2>8. Owned => Owned'
    BY <2>2, <2>3 DEF Owned, HasBoth, L, P
  <2> QED
    BY <2>2, <2>4, <2>5, <2>6, <2>7, <2>8 DEF MutexInv, Order
<1>3. ASSUME NEW t \in Threads, NEW m \in Managers, Create(t, m)
      PROVE  Alive' /\ Order'
  BY <1>3, AliveSteps, CreateStep DEF MutexInv
<1>4. ASSUME NEW t \in Threads, NEW m \in Managers,
             Enter(t, m) \/ AwaitProcess(t, m) \/ DestroyLock(t, m) \/ DestroyAtOnce(t, m)
      PROVE  Alive' /\ Order'
  BY <1>4, AliveSteps, CallSteps DEF MutexInv
<1>5. ASSUME NEW t \in Threads,
             \/ Return(t) \/ EnterProcess(t) \/ BeginRound(t) \/ EndRound(t)
             \/ LeaveProcess(t) \/ DestroySignal(t) \/ DestroyJoin(t) \/ DestroyJoined(t)
      PROVE  Alive' /\ Order'
  BY <1>5, AliveSteps, LoopSteps DEF MutexInv
<1>6. ASSUME NEW t \in Threads, DestroyFree(t) PROVE Alive' /\ Order'
  BY <1>6, AliveSteps, FreeStep DEF MutexInv
<1>7. ASSUME NEW t \in Threads, DestroyDelete(t) PROVE Alive' /\ Order'
  BY <1>7, AliveSteps, DeleteStep DEF MutexInv
<1>8. MutexNext => \/ Crash /\ \E t \in Threads : TRUE
                   \/ \E t \in Threads : \E m \in Managers : Create(t, m)
                   \/ \E t \in Threads : \E m \in Managers :
                        \/ Enter(t, m) \/ AwaitProcess(t, m)
                        \/ DestroyLock(t, m) \/ DestroyAtOnce(t, m)
                   \/ \E t \in Threads :
                        \/ Return(t) \/ EnterProcess(t) \/ BeginRound(t) \/ EndRound(t)
                        \/ LeaveProcess(t) \/ DestroySignal(t) \/ DestroyJoin(t)
                        \/ DestroyJoined(t)
                   \/ \E t \in Threads : DestroyFree(t)
                   \/ \E t \in Threads : DestroyDelete(t)
  BY DEF MutexNext, EnterNull, BeginRoundNull, DestroyNull
<1> QED
  BY <1>1, <1>2, <1>3, <1>4, <1>5, <1>6, <1>7, <1>8 DEF Fate

\* The invariant holds, whatever managers come and go.
LEMMA MutexInvAlways == MutexSpec => []MutexInv
BY MutexInvInit, MutexInvStep, PTL DEF MutexSpec

-----------------------------------------------------------------------------
(* What follows                                                            *)

\* Whoever is inside a manager with both its mutexes finds them initialised:
\* destroy waits until nobody else is inside, and no block is handed out twice.
THEOREM MutexesAreReady == MutexSpec => []UsedWhileReady
<1>1. MutexInv => UsedWhileReady
  <2> SUFFICES ASSUME MutexInv, NEW t \in Threads,
                      pc[t] \notin {"out", "crashed", "freeing", "deleting"}, HasBoth(at[t])
               PROVE  at[t] \in Live /\ Mutexes(at[t]) \subseteq ready
    BY DEF UsedWhileReady
  <2>1. Order
    BY DEF MutexInv, Fate
  <2>2. at[t] \in Made /\ at[t] # None
    BY PlaceType, MadeType, MutexAssumption DEF MutexInv
  <2>3. at[t] \in Live
    BY <2>1 DEF MutexInv, MutexTypeOK, Order, Places, Looping, Destroying, HasBoth, L
  <2>4. Held(at[t]) = Mutexes(at[t])
    BY <2>1, <2>2, HeldWhole DEF Order, HasBoth, L
  <2> QED
    BY <2>1, <2>3, <2>4 DEF Order, Apart
<1> QED
  BY <1>1, MutexInvAlways, PTL

\* A manager that lacks a mutex runs no loop, so that destroy may leave out the
\* handshake for it.
THEOREM NullStops == MutexSpec => []NullStopsProcessing
<1>1. MutexInv => NullStopsProcessing
  <2> SUFFICES ASSUME MutexInv, NEW m \in Made, ~HasBoth(m), NEW t \in Inside(m)
               PROVE  \/ pc[t] \in {"in", "waiting", "freeing", "deleting", "crashed"}
                      \/ pc[t] = "top" /\ manager[m].lock = NULL
    BY DEF NullStopsProcessing
  <2>1. at[t] = m /\ t \in Threads /\ m # None
    BY MadeType, MutexAssumption DEF Inside, MutexInv
  <2>2. CASE pc[t] = "crashed"
    BY <2>2
  <2>3. CASE pc[t] # "crashed"
    <3>1. Order
      BY <2>1, <2>3 DEF MutexInv, Fate
    <3> QED
      BY <2>1, <2>3, <3>1 DEF MutexInv, MutexTypeOK, Order, Places, Looping, Destroying,
         HasBoth, L, P
  <2> QED
    BY <2>2, <2>3
<1> QED
  BY <1>1, MutexInvAlways, PTL

\* What is allocated is what live managers hold, and on pthreads what every
\* manager ever held: mutex_destroy frees a block exactly once, or never.
THEOREM HeapIsAccounted == MutexSpec => []HeapAccounted
<1>1. MutexInv => HeapAccounted
  BY DEF MutexInv, Alive, Order, Apart, HeapAccounted
<1> QED
  BY <1>1, MutexInvAlways, PTL

\* No mutex of a manager that has both is destroyed while anyone has locked it.
THEOREM DestroysUnlocked == MutexSpec => DestroyedUnlocked
<1> DEFINE A == \A b \in ready \ ready' :
                  owner[b] = None \/ \E m \in Live : b \in Mutexes(m) /\ ~HasBoth(m)
<1>1. MutexInv /\ [MutexNext]_mutexvars => [A]_mutexvars
  <2> SUFFICES ASSUME MutexInv, MutexNext, NEW b \in ready, b \notin ready',
                      NEW o \in Threads, owner[b] = o
               PROVE  \E m \in Live : b \in Mutexes(m) /\ ~HasBoth(m)
    BY DEF MutexInv, MutexTypeOK
  <2>1. PICK t \in Threads : DestroyFree(t) \/ DestroyDelete(t)
    BY DEF MutexNext, Create, Enter, AwaitProcess, EnterNull, DestroyLock, DestroyAtOnce,
       Return, EnterProcess, BeginRound, BeginRoundNull, EndRound, LeaveProcess, DestroySignal,
       DestroyJoin, DestroyJoined, DestroyNull, Crash
  <2>2. \/ pc[t] = "freeing" /\ b = L(at[t])
        \/ pc[t] = "deleting" /\ b = P(at[t])
    <3>1. CASE DestroyFree(t)
      <4>1. pc[t] = "freeing" /\ ready' = ready \ {L(at[t])}
        BY <3>1 DEF DestroyFree, DestroyMutex, Goes, L
      <4> QED
        BY <4>1
    <3>2. CASE DestroyDelete(t)
      <4>1. pc[t] = "deleting" /\ ready' = ready \ {P(at[t])}
        BY <3>2 DEF DestroyDelete, DestroyMutex, Goes, P
      <4> QED
        BY <4>1
    <3> QED
      BY <2>1, <3>1, <3>2
  <2> b # NULL
    BY MutexAssumption DEF MutexInv, MutexTypeOK
  <2>3. Order
    BY <2>1, AliveSteps DEF MutexInv
  <2>4. at[t] \in Live /\ at[t] # None /\ b \in Mutexes(at[t])
    BY <2>2, <2>3, PlaceType, MadeType, MutexAssumption
       DEF Order, Places, Destroying, Mutexes, L, P, MutexInv
  <2>5. ASSUME HasBoth(at[t]) PROVE FALSE
    <3>1. CASE pc[t] = "freeing"
      <4>1. b \in Held(at[t])
        BY <2>3, <2>4, <3>1, HeldWhole DEF Order, Looping
      <4>2. at[o] = at[t] /\ pc[o] \in HoldsLock
        BY <2>2, <2>3, <2>4, <2>5, <3>1, <4>1 DEF Order, Owned
      <4> QED
        BY <2>3, <2>5, <3>1, <4>2 DEF Order, Alone, Destroying, HoldsLock, HasBoth, L
    <3>2. CASE pc[t] = "deleting"
      <4>1. at[o] = at[t] /\ pc[o] \in HoldsProcess
        BY <2>2, <2>3, <2>4, <2>5, <3>2 DEF Order, Owned
      <4> QED
        BY <2>3, <2>5, <3>2, <4>1 DEF Order, Alone, Destroying, Looping, HoldsProcess, HasBoth, L
    <3> QED
      BY <2>2, <3>1, <3>2
  <2> QED
    BY <2>4, <2>5
<1> QED
  BY <1>1, MutexInvAlways, PTL DEF MutexSpec, DestroyedUnlocked
=============================================================================
