# Verification of udpqueue

`src/udpqueue` is a native library behind a Java API: Java threads queue UDP packets under numeric
keys, and one Java thread, parked inside `process` or `processWithSocket`, sends them, one packet per
key every `packet_interval`, round robin over the keys. This directory holds TLA+ models of it, the
TLC runs that check them on small instances, and theorems about them that TLAPS has checked.

## 1. The system

| Part | Source | State | Operations |
|---|---|---|---|
| Processing loop | `udpqueue.cpp:49-194`, `queue/Manager.h`, `packet/Unsent.h` | the ordered map `queues`, `lock`, `process_lock`, `shutting_down`; per thread the packet it carries and its wait | `create`, `destroy`, `get_remaining_capacity`, `process_next_locked`, `dispatch_packet`, `process_with_socket` |
| Queue API | `queue/Queue.h` | the item of each key: due time, ring, address, socket | `push`, `push_locked`, `remove`, `pop`, `resolve_address`, `addrinfo_free` |
| Packet ring | `queue/Buffer.h`, `queue/Item.h`, `packet/Queued.h`, `queue/Queue.h` | `index`, `size`, `capacity`, the map from slots to packets | the slot write of `push_locked`, `pop`, the loop of `remove` |
| Mutexes | `mutex.h`, `{linux,darwin,win}/mutex.c` | a heap block, perhaps none, and an owner | create, destroy, lock, unlock |
| Clock | `timing.h` | the system clock | `timing_get_nanos`, `timing_sleep` |
| JNI entry points | `udpqueue.cpp:197-272` | none | one call of the above each, with conversions |
| `pauseDemo` | `udpqueue.cpp:274-305` | none | a heap walk that sleeps |
| Ordered map | `tsl/ordered_hash.h`, `tsl/ordered_map.h` (vendored) | a vector of values in insertion order, a robin hood table of indexes into it | insert (one, a range), erase, find, clear, reserve, rehash, load factor, move, serialize |
| Byte vector | `lni/vector.hpp` (vendored) | an array, its capacity `rsrv_sz`, the size `vec_sz` | construct, assign, resize, reserve, insert, erase, compare |
| Ordered set | `tsl/ordered_set.h` (vendored) | - | nothing includes it |

How the parts interact:

- Every Java call on the queues (`queuePacket`, `queuePacketWithSocket`, `deleteQueue`,
  `getRemainingCapacity`) takes `lock`, works on `queues` and one item, and releases `lock`.
- A processing thread takes `process_lock` for the whole of its loop. In each round it takes `lock`,
  looks at `shutting_down`, reads the clock, lets `process_next_locked` take at most one packet off
  the front queue, and releases `lock`. Then, without `lock`, it sends the packet, through an
  `addrinfo` pointer it copied from the item, and sleeps until the front queue is due.
- `destroy` sets `shutting_down` under `lock`, passes once through `process_lock`, and deletes the
  manager.

What is hard here: the pointer and the target time that are used after `lock` has been released;
the shutdown handshake between a sleeping thread and `destroy`; a rotation made of erase and insert in
a hash map while other threads insert; the catching up of queues that are served late; a ring whose
slots live in a map; two reads of a clock that may be set back. `PROJECT.json` lists each of these
hazards at its line, with the properties that would catch it going wrong, and a note on what they leave out.

What makes each part correct:

- *ring*: it holds what was pushed and not popped, in order, whatever wraps;
- *queue API*: a capacity that was reported is there; deleting takes all packets of one key and
  nothing else; an address is owned by one queue;
- *processing loop*: queues take turns; a full queue starves no other; no queue is lost; the rate of a
  queue is bounded; nothing is used after it was freed; destroy ends and leaves nobody inside;
- *mutexes*: none is used before it is initialised or after it is destroyed, or destroyed while locked;
- *ordered map*: the table and the vector agree after every operation, and every lookup ends;
- *byte vector*: it holds what `std::vector` would, and never writes outside its array.

## 2. Modules

| Module | What it is |
|---|---|
| `PacketBuffer` | the ring as values and operators: `Put`, `Front`, `Pop`, `Drain`, `Contents` |
| `PacketRing` | one ring as a state machine beside the sequence it stands for |
| `ByteVector` | `lni::vector<uint8_t>` as values and operators, one per operation of the class |
| `VectorContents`, `MCVectorContents` | vectors as a state machine beside the sequences that `std::vector` would hold |
| `PacketBytes`, `MCPacketBytes` | `PacketRing` composed with `ByteVector`: the map of slots, each with a vector and a length |
| `UdpQueue`, `MCUdpQueue` | **the core**: client threads, processing threads, the two mutexes, the items, the clock |
| `FifoRoundRobin` | the abstract specification: queues that take turns, with no thread, mutex, ring or clock |
| `UdpQueueImplements` | the refinement mapping from `UdpQueue` to `FifoRoundRobin` |
| `CallerPromises` | `UdpQueue` with history variables for what callers may rely on between calls |
| `ManagerMap` | `UdpQueue` beside `OrderedMap`: its rotation is an erase and an insert |
| `MCCallerPromises` | instances of the last three together |
| `Pacing`, `MCPacing` | `UdpQueue` with a leaky bucket per queue as history variable |
| `MutexLifecycle`, `MCMutexLifecycle` | managers that come and go, with their mutexes as blocks of the heap, on both platforms |
| `OrderedMap` | the abstract specification of `tsl::ordered_map`: a list of keys without duplicates |
| `OrderedHash`, `MCOrderedHash` | the robin hood table and value vector that implement it, one action per operation |
| `PacketBufferProofs`, `PacketRingProofs`, `ByteVectorProofs` | theorems on the ring, the vectors and the bytes |
| `UdpQueueProofs`, `ContractProofs`, `PacingProofs` | theorems on the core, its histories, and what it implements and is implemented by |
| `OrderedHashProofs` | theorems on the table, its lookups, and that it implements `OrderedMap` |
| `MutexLifecycleProofs` | theorems on the mutexes |

Definitions whose comment starts with *Mutation of* are not part of the models: each is a plausible
bug in the definition below it, and shows that the property it is paired with in `PROJECT.json` can fail.

### How `UdpQueue` corresponds to the code

A step of a thread ends where it takes or releases a mutex, reads the clock a second time, sends, or
sleeps: between two such points no other thread can see the manager's state. `pc` says where a thread is.

| `pc` | Thread | Where in the code |
|---|---|---|
| `out` | both | outside every call |
| `in` | client | `lock` is held in `push`, `remove` or `get_remaining_capacity` |
| `closing`, `joining`, `joined`, `deleted` | client | `destroy` after lines 51, 53, 55 and 62 |
| `waiting` | processing | `process` has been called, before `mutex_lock(process_lock)` has returned (149) |
| `top` | processing | before `mutex_lock(lock)` (`udpqueue.cpp:152`) |
| `locked` | processing | after it |
| `popped` | processing | after `pop` and the rotation, before the clock is read again (129) |
| `unsent` | processing | `lock` is released and a packet is carried (165) |
| `timed` | processing | before the wait is looked at (176) |
| `asleep` | processing | in `timing_sleep` (179) |
| `leaving` | processing | after the `break` (156), before `process_lock` is released |

- `queues` is the insertion order of the ordered map and `items` its content, `None` for an absent key.
- `addrinfos` are the `addrinfo` structures that are allocated. `getaddrinfo` returns a fresh one, or,
  where `ResolveMayFail`, leaves the pointer null.
- Times are relative: `due` is `next_due_time` minus now, `wait` is `target_time` minus now, and
  `Tick` decreases them. A new queue's `next_due_time = 0` is `Unset`. The code compares times
  only by their difference from now, so nothing is lost.
- `lag` counts the ticks between the two clock reads of a round. It matters once: for a packet without bytes
  the second clock read of `process_with_socket` (173) does not happen, and the wait is measured from
  the first.
- The packet a thread carries, with the address it copied, is `unsent`.
- `Crash` is the null dereference of `udpqueue.cpp:142,167` for an address that did not resolve:
  the process ends, and so do all threads.
- Reading `explicit_socket` instead of choosing by address family changes no state; sockets are left out.

### The ring, and what `pop` really does

`pop` moves `index` on and *then* erases `packet_buffer[index]`. It erases the packet behind the one it
hands out, and keeps the bytes of the one it does hand out (`std::move` of an `lni::vector` in an
assignment copies). A later `packet_buffer[index]` finds a missing slot, makes an empty packet, and
`process_with_socket` sends nothing for it, at the price of one turn. `Pop` is modelled that way, and so
the abstract `FifoRoundRobin` promises no more: a turn blanks the next packet (`Blank`). The finding
in `PROJECT.json` and the run `udpqueue_loss` show it: of two packets that wait in one queue the second
is lost. `LossIsTheNextPacket` (proved) states its exact extent.

### The bytes of a packet

A packet is copied three times: from the Java buffer into the vector that `push` constructs, from there into the
`packet::Queued` of its slot (`push_locked`), and from the slot into the `packet::Unsent` that is sent. Each "move" is the
move assignment of `lni::vector`, which copies into the array the target already has, or a larger one. A slot
keeps its array and its `length` until `pop` erases it, so that `PacketBytes` has to show what is not
obvious from any one of these: that no byte and no length of an earlier packet goes out with a later one (`SlotsHoldPackets`,
`SentAsTaken`). `Drain` is here the loop of `remove`, slot by slot.

### The byte vector

In `ByteVector` a vector is its array (`cell`), `rsrv` and `size`; an operation that writes, or that was left to write, outside the
array yields `Broken`. `VectorContents` calls the operations in every order and says of each call, in `sound`, whether the
vector still holds what the standard says. It does, but for these calls, which the model states; the run shows that no other does:

- `push_back` and `insert` of one byte at capacity 0: the capacity grows by four times itself (`vector.hpp:438, 498`);
- sizes beyond `LNI_VECTOR_MAX_SZ`, which nothing checks, and whose capacity wraps in 32 bits;
- `push_back(v[i])` and `insert(p, v[i])` on `v` itself that reallocate, or move the byte that is referred to;
- `resize(n)` to a larger size, which leaves the new bytes unwritten where `std::vector` has zeros;
- `assign` from a list of another length, which does not set the size (`vector.hpp:245-255`).

The program constructs vectors from a length and an array, copies and moves them, and asks for `data`, `size` and
`empty`: it meets none of these.

### The mutexes

In `UdpQueue` a mutex is the variable that holds its owner, and there is one manager. `MutexLifecycle` has what that leaves out:
`mutex_create` takes a block of the heap or fails; on Windows `mutex_destroy` gives it back, on pthreads it does
not, so that two blocks are lost with every manager (`HeapAccounted` says exactly that); a block may serve a later manager; and
`create` returns the manager even if a mutex is null. `destroy` leaves the handshake out for such a manager, and
`NullStopsProcessing` says why that is harmless: no thread gets past the first `mutex_lock` of a round. It may be about to
crash there. Waiting for `process_lock` is a place of its own here too. The queues are left out, and a round is one action from lock to unlock. `MutexTypeOK` has
the order inside `win/mutex.c`: a block that goes back to the heap is no initialised mutex any more; its mutation frees one without
`DeleteCriticalSection`.

### The ordered map

`manager->queues` is a `tsl::ordered_map`. `OrderedHash` models it as the code has it: `m_values` is the vector,
`m_buckets` the table of indexes into it, with the truncated hash of each. `Probe` is the loop of `find_key` and of the
insertions, `Settle` that of `insert_index`, `BackwardShift` and `ShiftIndexes` those of the erasures, `Rehashed` that of
`rehash_impl`. Keys stand for values, which move with them. Besides the operations the manager uses there are insertion and
assignment of ranges, `unordered_erase`, `rehash`, `reserve`, the setter of `max_load_factor`, what a move leaves of its source, and
`deserialize` in both forms, called on the table that was serialized. Load factors are in twentieths, so that the products and quotients that the code computes
in `float` are exact here; the default 0.75 is 15. Each loop is a recursive function of the number of rounds it has
gone (`SettleOnce`, `ShiftOnce`, `Corrected`, `SweepOnce` are one round), with as many rounds as it can have at most; a round after the
end changes nothing. That it has really ended by then is part of what is proved. `ImplementsMap` (checked and proved) says that `OrderedHash` implements
`OrderedMap`, and `RotationIsEraseInsert` (checked and proved) that what `UdpQueue` writes as `Rotated`, `Tail` and
`Append` is what `OrderedMap` makes of the calls in `process_next_locked` and `push_locked`.

Two operations that the manager does not use are left out of `HashSpec` and have specifications of their own, as they
break lookups; both findings in `PROJECT.json` were reproduced by compiling the header:

- `insert_at_position` (`PositionSpec`) stores the new entry before it corrects the indexes of the values behind it, and looks
  for those by an index that the new entry has as well;
- `erase(first, last)` (`RangeSpec`) corrects each index once, in bucket order, but its `backward_shift` may carry an entry
  from bucket 0, already corrected, into the last bucket, not yet visited.

A third is about an assertion: `insert(first, last)` asserts that the values are within the load threshold (`ordered_hash.h:670`). A
table of one bucket has the threshold 0, so that the assertion fails for a map of one element when it is compiled with
`TSL_DEBUG` (reproduced too); without it the difference before it wraps, nothing is reserved, and the map stays
consistent, which `ordered_hash` checks (`InsertedAll`).

### What callers must do

Nothing in the library stops a call on a deleted manager. `UdpQueue` assumes the least under which
`destroy` can work: it is called once, no client is inside another call, no processing thread is `waiting`,
and nobody calls afterwards (`DestroyLock`, `Released`). A thread inside the loop is welcome, as `destroy` waits for it. One that still waits for `process_lock`
is not: `destroy` passes through that mutex once, and if it gets there first, or second of three, it deletes the
manager while the waiter is about to enter the loop. Nothing in the code can know of such a thread, so that this is a guard of `DestroyLock` (in
`MutexLifecycle` of `MayDestroy`) and what `NoUseAfterDelete` and `UsedWhileReady` are proved under. At any other time a second processing thread may
wait; `NoUseAfterDelete` counts it as one that uses the manager.

## 3. Runs

| Run | Instance | Shows |
|---|---|---|
| `udpqueue_safety` | 2 clients, 2 processing threads, 2 keys, 2 packets, capacity 2 | rotation and addresses consistent; one thread in the loop; destroy meets nobody; quiet shutdown; a reported capacity is kept; implements `FifoRoundRobin` |
| `udpqueue_faults` | 3 keys, capacity 1, unresolved addresses, empty packets, clock set forward and back | addresses neither leak, dangle nor are freed twice; no queue is served twice while another waits; the rotation is erase and insert of the ordered map |
| `udpqueue_liveness` | 1 + 1 threads, 2 keys, fair; unresolved addresses, empty packets, clock set forward and back | once the clock is no longer set back, queues are served in turn and reaped when empty; destroy ends in any case |
| `pacing` | 1 + 1 threads, 2 keys, interval 3, slack 2, lateness counted to 9 | waits cover the front's due time; no queue is booked far ahead; bursts are bounded |
| `packet_bytes` | capacity 4, packets of 1, 2 and 5 bytes | the ring is its backlog; `Drain` is the loop of `remove`; what is lost; what is sent is what was queued, byte by byte |
| `byte_vector` | 2 vectors, 2 byte values, lengths to 5 | contents and comparisons as the standard says |
| `mutex_lifecycle` | 3 managers, 3 threads, 4 blocks, both platforms | used and destroyed only while initialised and unlocked; null mutexes; what is freed |
| `ordered_hash` | 6 keys, up to 16 buckets and 5 values | table and vector agree; lookups are exact; robin hood order; never full; implements `OrderedMap` |
| `udpqueue_loss` | 2 keys, capacity 2 | *violation*: an accepted packet loses its bytes |
| `hash_position` | 6 keys, up to 8 buckets | *violation*: lookups after `insert_at_position` |
| `hash_range` | 6 keys, up to 8 buckets | *violation*: lookups after `erase(first, last)` |
| `hash_threshold` | 6 keys, up to 8 buckets | *violation*: the assertion of `insert(first, last)` |

`mutex_lifecycle` and `packet_bytes` are exhaustive in seconds; the two large `UdpQueue` instances have 1.8 and 1.4 million states, and
one more thread, key or packet in either is beyond a few minutes.

Bounds, and why they are enough:

- `MaxLate`: due times and waits that lie further in the past are not told apart. The code tells apart only
  "two intervals late or more" (131), so that any `MaxLate >= 2 * Interval` is exact; `Pacing` takes
  `3 * Interval`, so that a missing reset has room to show.
- `MaxLag`: ticks between the two clock reads of a round, during which the thread holds `lock` and waits
  for nobody. `pacing` and `udpqueue_liveness`, whose properties depend on it, take 2 and 1; the others take 0.
- `ClockSteps`, `MaxDue`: the adjustments of the system clock (one tick forward or back, any number of times), and how far they may push a due time. The clock
  is set back only while no due time has been rounded to `-MaxLate`, as what was rounded cannot be taken back.
- `Interval` and `Slack` in ticks: with `Interval = Slack = 1` all orders of due times and slack that the
  control depends on occur; the pacing run uses 3 and 2, so that due times fall on both sides of the slack.
- Two keys have a front and a back; overtaking needs a third, in `udpqueue_faults`. Two packets in a ring of two slots wrap.
- `Hash` gives six keys the hashes 3, 7, 31, 0, 15 and 14: four share the last bucket of a table of four, and three that of a
  table of eight, so that runs of probes wrap; `TruncMod` (16) gives 15 and 31 one truncated hash. `MaxBuckets` (16) stops
  growth and `MaxValues` (5) stands for the limit of 2^32 - 1 values, at which insertions throw. `Probes`, after which an insertion
  asks for a larger table, is 1 in place of 128, so that six keys can reach it. `LoadFactors` are 0.5 and 0.95 beside the default.
  `Ranges` are three lists, one with a duplicate.
- `MaxSize` (3), `Modulus` (16) and `Limit` (5) of `byte_vector`: every size to `max_size()` and two beyond, where capacities
  wrap to 0 and to less than the size; all positions and all own elements. Two byte values tell every position apart, as all contents occur.
- Packets of 1, 2 and 5 bytes, against the 4 cells of a new vector: they fit, or make the array grow, before and after each other.
- Three managers on four blocks: some lack a mutex, and on Windows a block comes back.
- Symmetry is used in runs of safety properties only, over names the specification never compares by order.

`Tick` is always enabled as long as a processing thread is not at its `MaxLag`, so that TLC's deadlock
check says little here; that nobody waits on everybody is what `DestroyCompletes` and
`EventuallyServed` check.

Fairness (`Fairness` in `UdpQueue`): a thread that runs goes on (weak fairness of its steps), time
passes, and whoever waits for a mutex again and again free gets it at last (strong fairness of
`LockManager` and `DestroyJoin`): the mutexes are the platform's, whose waiters are not passed over for ever
in practice, though POSIX does not promise it. Weak fairness of `EnterProcess` stands for the Java side, which keeps a
thread inside `process`. A clock that is set back for ever makes every queue wait for ever (TLC finds the behaviour: wake,
nothing due, sleep), so that `EventuallyServed` and `EventuallyReaped` assume `ClockSettles`; it may be set forward for ever, and `DestroyCompletes`
needs neither, as a sleep that has begun does not follow the clock. Clients owe nothing: no fairness on `Enter`, so they may stop calling at any time.

## 4. Proofs

`PacketBufferProofs` has the lemmas about the operators: `Put` appends to `Contents`, `Pop` takes its head and
blanks the next, `Drain` empties it, and all keep the type. They rest on `CapacityAssumption` only.

`PacketRingProofs` proves for every capacity that the ring is its backlog (`RingRefinesSequence`), that
exactly the next packet is lost (`LossIsExact`), that the ring is well formed (`RingIsWellFormed`), and that `Drain` is as many
pops as there are packets (`RemovePopsAll`). `Pops` is a function that calls itself: `PopsExist` shows that there is such a
function and `PopsDrain` what it computes, both by induction over the number of packets. The library's
induction theorem takes a predicate and cannot be used here; `SetInduction` states induction as a fact about sets (a set
of numbers that has 0 and each successor has them all), from the well-foundedness of `<` (`WFMin`).

`ByteVectorProofs` proves, for any byte values, capacities, limits and names, every property of `byte_vector` and the rest of `packet_bytes`. A vector that holds
the bytes `s` in an array of `r` cells is one value, `Vector(r, s)`; there is a lemma per operation of the class, which says
which `Vector` it makes of which.

- `VectorsAreVectors`, `VectorsHoldContents` and `VectorsCompare` follow call by call with the invariant `VectorInv`: a vector that every call
  was sound on holds its sequence. `VectorsCompare` needs more, as the loop of the comparison stops at the first byte that differs
  and the standard's order asks for some prefix that agrees: `FirstIs` (the least position of a set of numbers) joins the two.
- `SlotsStandForPackets` and `PacketsAreSentWhole` have the invariant `BytesInv`: the ring of packets is its backlog (`RingInv`), each slot of bytes
  holds the packet in the same slot of the ring, and what was sent is what was taken. The two need each other: what is sent
  was in a slot, and the slot was written over a vector about which only `IsVector` is known. The loop of
  `remove` is once more a recursive function (`LoopExists`, `LoopHolds`), by `SetInduction`.

`Broken` and `Missing`, what a vector written outside its array and a slot not in the map are, are records of their own in
`ByteVector` and `PacketBytes` rather than constants, so that no vector and no packet can be equal to them.

`UdpQueueProofs` proves, for any sets of keys, threads, packets and handles, any capacity and any times that satisfy
the assumptions: `TypeCorrect`, `RotationIsComplete`, `AddressesAreOwned`, `DispatchIsLive`, `DeleteIsAlone`,
`ProcessorIsAlone` and `ShutdownIsQuiet`. None of these is inductive by itself. The invariant is
`IInv == ControlInv /\ TableInv`:

- `ControlInv` ties `pc` to the owners of the two mutexes: whoever is between lock and unlock owns the mutex; a processing
  thread inside the loop owns `process_lock` unless all crashed; who destroys is alone, once `destroy` has begun nobody is
  `waiting`, and once one client is `joined` every other thread is `out`. `OneProcessor` and `NoUseAfterDelete` follow.
- `TableInv` ties `queues`, `items`, `addrinfos` and `unsent`: the rotation is complete, addresses are owned,
  and the queue a carried packet came from is still mapped with the address it had. That last part needs
  `ControlInv`: only the thread that carries the packet could reap that queue, and it is not in `locked`.

`ContractProofs` adds the histories of `CallerPromises` to that invariant:

- `PromisesAreKept`: `PromiseKept` with the type of `promised` is inductive on top of `IInv`. What has to be shown is that only
  `push` fills a queue, that it uses up one promise of the key, and that everything else shrinks queues or drops them.
- `NobodyOvertakesTwice`: the action property rests on `PassInv`: whoever was served while a key waited stands behind
  that key in the rotation. It needs `RotationComplete`, as a rotation with a key twice would have no "behind".

`PacingProofs` proves the timing properties, for any interval, slack, lag and lateness:

- `SleepIsLongEnough` and `SleepIsShortEnough` are theorems of `Spec` under the hypothesis `NeverSetBack`: no step sets the clock
  back (it may be set forward at any time). That hypothesis is necessary: due times lie on the system clock, and a sleep that has
  begun does not follow it, so that after a clock set back during a sleep the thread wakes before the front queue is due. TLC takes the same
  condition from `ClockSteps = {}`. `PacedInTime` is the same of `PaceSpec`, where nothing sets the clock at all, without a hypothesis.
- They rest on `TimeInv`. `Dues`, `Lags` and `Waits` bound the three kinds of time. `Awaited` says why a sleep is long enough, step by step: while the packet is
  sent and the thread sleeps, the front queue is due within the wait; when it looks again, within the slack. A client
  can only append a queue, with an unset due time, and the loop itself takes the front away only while no thread waits; both are
  facts about the rotation and the mutexes that `IInv` has. `Fresh` covers the first round, which no sleep came before.
- `LevelsFollowDues` and `BurstsAreBounded` rest on `LevelInv`, on top of both: a bucket is at most two intervals fuller than its due time says, an unmapped key has an empty bucket, and
  a bucket stays below the bound of the burst.

`ContractProofs` also has what `UdpQueue` stands between:

- above it `QueueImplementsFifo`: the manager implements `FifoRoundRobin`, with the refinement mapping of `UdpQueueImplements`. There is a step for
  each action: `Put`, `Pop` and `Drain` map to what the lemmas of `PacketBufferProofs` say of `Contents`, and every
  action that only moves a thread to a stutter. It needs one fact more than `IInv`, `Closed`: a client that is past the first
  part of `destroy` has set `shutting_down`, so that what the manager still holds is abandoned only after it was closed;
- below it `RotatesByMap`, for every set of keys, from `TypeCorrect` and `RotationIsComplete`: the front key
  of a list without duplicates is at its first position, so that erasing it leaves the tail.

`MutexLifecycleProofs` proves, for any sets of managers, threads and blocks and on both platforms, `MutexTypeCorrect`, `MutexesAreReady`,
`NullStops`, `HeapIsAccounted` and `DestroysUnlocked`, every property that `mutex_lifecycle` checks. They rest on `MutexAssumption`
only. The invariant is `MutexInv == MutexTypeOK /\ Fate /\ (Alive => Order)`: either all threads live, or a null mutex has ended the
process and with it all of them; and while they live the parts of `Order` need each other:

- `Places`: how far a thread got, waiting for `process_lock` included, tells that its manager is live and which mutexes it has, and so that one that lacks a mutex never gets into a round;
- `Alone`: beside a thread in `destroy` there are only threads in the loop, and once it has passed `process_lock` none, unless
  there is no `lock`. This is the handshake, and needs `Owners` and `Owned` to know that nobody is behind that mutex;
- `Owners`, `Owned`: who is between lock and unlock owns the mutex, and nobody else does. Both need the blocks to be different;
- `Apart`: no block serves two live managers, or one twice, and the blocks that are initialised are those of live managers. A block
  is handed out again only after `heap` has lost it, which needs `Alone` for nobody to be left on it.

`OrderedHashProofs` proves every property of `ordered_hash`, for any keys, hash function, load factors within the clamp, limits on the values, and
bounds on the probes and the buckets: `HashTypeCorrect`, `TableIsOfValues`, `LookupIsExact`, `RobinHoodOrder`, `RoomIsLeft` and
`HashImplementsMap`. The invariant is `HashInv`, of which the main part is `Healthy`: the table is `Sound`, it has a power of two of buckets, the values are
within their limit, and from four buckets on one bucket is vacant. `Sound(N, b, v)` joins what the properties say one by one, as none of
them survives an operation without the others:

- no key is twice in the vector (`NoneTwice`), and no index twice in the table (`Distinct`);
- the entries of the table are those of the values (`Held(b) = Listing(v)`), with index and truncated hash;
- the table is `Ordered`: an entry that is not in its ideal bucket stands behind one that is at most one probe nearer to its own.

A table is a circle, and most of the arithmetic is about it: `Steps` and `Away` count the buckets from one to another, `NoneAcross` says
that no entry of an ordered table was carried across a vacant bucket. The loops then follow one by one, each with an invariant between two of its rounds:

- `SettleLoop` (`insert_index`): with a bucket `w` vacant and ahead, the table is in order without the entry that is carried, which
  fits where the loop is (`Carrying`), and no vacant bucket is passed, so that it ends in `w` at the latest;
- `ShiftLoop` (`backward_shift`): the order is broken behind the hole only, and by one probe only (`Hollow`);
- `FoundProbe`, `LostProbe`: a search halts at the key's own entry if there is one (`ProbeStops`, with `Chain`: along the buckets before
  an entry, everyone is at least as far from its ideal bucket as the search is), and at no other's even where truncated hashes are equal;
- `CorrectedIs`, `ShiftLowers`: `shift_indexes_in_buckets` finds each bucket by its old index. The first that it lowers gets the index of
  the entry that goes, which is still in the table; all later searches are for greater indexes, so that each finds one bucket only;
- `RehashKeeps`, `PlacedKeeps`, `InsertedEachKeeps`, `EraseKeeps`, `SwapKeeps`, `EmptiedKeeps`: every operation is made of these.

`RoomOrGrowth` is the numeric part: whatever load factors were set, the threshold is 0 or what the present factor makes of the
table, so that an insertion into a table without room to spare has grown it first. The order goes by truncated hashes and searches start from whole ones;
that both lead to the same bucket is `TruncatedIdeal`, which needs powers of two that divide each other (`PowersDivide`) and `TruncationAssumption`. Each loop, as a
recursive function, is first shown to exist and to satisfy its equation (`SettleRounds`, `ShiftRounds`, ...), by `SetInduction`.

For `HashImplementsMap` each operation maps to one of `OrderedMap` on `m_values`: growth, rehashing, reloading and new load factors to a stutter; the insertion of a
range to that of the part of it that had room (`InsertionsOn`), as the code throws at the limit and keeps what it has.

The assumptions are `HashAssumption`, `VacantAssumption` (the mark of a vacant bucket is no entry), `TruncationAssumption` and `FactorAssumption`. The last is the
callers': outside of the clamp `RoomLeft` does not hold. The theorems are about `HashSpec`, without the two operations of `hash_position` and `hash_range`, which
TLC shows to break `LookupExact`.

Only model-checked: liveness (`EventuallyServed`, `EventuallyReaped`, `DestroyCompletes`), which is out of the prover's reach together with ENABLED.
Every other property of a passing run is stated by a theorem.

## 5. Not modelled

- sockets, `sendto` and its errors (ignored by the code), the conversions of the JNI entry points;
- allocations that fail, but for the mutexes of a manager (the others throw, or are not checked);
- `pauseDemo`, which touches no state of the manager. It makes the JVM stop its threads; to the manager that is a client that
  starts no call, which is allowed at any time: there is no fairness on `Enter`;
- `ordered_set`: no file includes it, and each of its operations is one call of the `ordered_hash` that `OrderedHash` models;
- 64-bit overflow of times: nanoseconds since 1970 overflow in 2262;
- of the ordered map: load factors outside 0.1 to 0.95, which the setter stores although it computes a clamped one; tables of more than 2^32
  buckets (`TruncationAssumption`); a `std::vector` whose `reserve` allocates more than it is asked for, as the mask of a table that is
  deserialized is its capacity less one (`ordered_hash.h:1540`, `ReloadCompatible`); `swap`, which only exchanges two tables; iterators, comparisons, `shrink_to_fit`;
- of the byte vector: `operator=` from a list, which has no `return` and so no defined behaviour; the checks of `at`; allocation
  that fails; byte values beyond the two that the runs take;
- packets of a length near 2^30, whose vector would wrap (a UDP datagram is shorter);
- pacing across incarnations: a queue that is reaped and created again starts with an unset due time and may send at once,
  so that `Pacing` empties its bucket.

## 6. Plan

Done, in this order: `PacketBuffer`, `UdpQueue`, `PacketRing`, `FifoRoundRobin` and the refinement, `CallerPromises`, `Pacing`,
the proofs of safety, `OrderedHash` against `OrderedMap`, `ManagerMap` and its proof, `ByteVector` and `VectorContents`,
`PacketBytes`, `MutexLifecycle` and its proofs, the remaining operations of `OrderedHash`,
then the proofs of the promises, the pacing, the refinement, the vectors and the bytes, and `OrderedHash` with its loops as recursive functions,
proved to implement `OrderedMap`.

Left: iterators and comparisons of the map, and the operations of the map under a load factor outside of the clamp, for which a table may be full
and a search need not end.
