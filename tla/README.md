# DailyStudy in TLA+

This directory holds TLA+ models of the programs of the repository, the TLC
configurations that check them on small instances, and TLAPS proofs of what
matters most for every value of the constants.

DailyStudy is a collection of small C++ programs, each with a `main` of its own
and no code shared between them. Most are sequential examples of a language
feature. The programs with a logic of their own are the concurrent ones: five
ring buffers in shared memory and a mapped file (`2024/src/IpcMmap_And_semaphore`),
a ping-pong of two threads, lazily created singletons, `call_once`, a POSIX message
queue, a timer, a locked queue and threads in a vector; and one sequential program
whose key type has to satisfy two kinds of map. These are what the project models.
Paths below are relative to `src/`.

## 1. The system

| Component | State | Operations | Interaction | What is hard | What makes it correct | Module |
|---|---|---|---|---|---|---|
| ring with condition variables, `mmap4_cv.cc` | `memory_[100]`, two atomic counters, mutex, two condition variables | `Write`, `Read`, 3 writer loops and 1 reader loop | threads of one process | lost and spurious wakeups, a predicate tested before it is acted on, a full ring, counters past INT_MAX | it is a bounded FIFO queue; no notification is lost; every value is read; every sleeping writer is woken | `CvRing` |
| ring with unnamed semaphores, `mmap4_sem.cc` | the same, with `sem_write_`, `sem_read_` instead of the mutex | `Write`, `Read`, 3 writers, 1 reader | threads of one process | several threads inside `Write` at once; a token does not say which slot is stored | tokens and threads in flight account for every slot; every slot is read; with one writer and one reader it is a FIFO queue | `SemRing` |
| ring with named semaphores, `mmap5_*` | shared memory object, two named semaphores, one counter per process | two constructors, `Write`, `Read` | two processes through objects that outlive them | start order, a process killed at any step and started again | no token is made; only kills lose tokens; a reader maps memory of full size; until a process is killed the two counters are apart by what is unclaimed, and the reader's points to unread values | `NamedSemRing` |
| ring with semaphores in the shared memory, `mmap6_*` | shared memory object that holds the semaphores, one counter per process | two constructors, `Write`, `Read`, the writer's end, restarts of both | two processes | every start of the writer runs `sem_init` again, whoever uses the semaphores; kills between wait and post | tokens stay bounded by the starts; the processes mean the same slots in the first life; every life ends while a reader is served | `ShmSemRing` |
| covering ring, `mmap7_*` | data, both counters, `sem_read`, `rw_status` in shared memory | `Write`, `Read`, end flag 999, two constructors, two destructors | two processes, no lock | loops that test two atomics without a lock, a spin on `rw_status`; a reader that comes during the constructor; kills that leave `rw_status` set; the reader removes the name | the reader never overtakes the writers; a set status has an owner; both programs end; only kills orphan the status, and no later life suffers from it | `CoverRing`, `CoverLives` |
| ping-pong, `2023/src/Thread/ThreadAndSafe.cpp` | `flag`, mutex, condition variable | `fun` in two threads | turn handed over by `flag` and `notify_one` | a wakeup missed at the hand-over or at the end | strict alternation; both calls return | `PingPong` |
| lazy singletons, `2023/src/Instance/Instance*.cpp`, and `2024/src/call_once` | the pointer, a mutex or a static local variable | `GetInstance`, `deleteInstance` | up to 50 threads | creation raced by several threads; `new (std::nothrow)` that fails; deletion without a lock | one instance, handed out alive, no leak | `LazyInstance` |
| message queue, `2023/src/MessageQueue/Mq1.cpp` | the name `/q_hello`, its queue, a child process | `CreateMQ`, `SendMsg`, `GetMsg`, `~MyQueue` | parent and child; programs started at the same time share the name | unlink and re-create without `O_EXCL`; `~MyQueue` unlinks whatever has the name; one of parent and child is killed; a failed call is counted like any other | a queue is empty when all who use it have ended, no old queue is used, the name is freed, everything ends, parent and child survive each other | `MessageQueue` |
| threads in a vector, `2023/src/Thread/ThreadWithVector.cpp` | `i`, `tmp`, the threads | the loop of `main`, `T1`, `T2` | `T2` gets a reference to a variable of main's stack | the variable dies with its iteration, before the join | `T2` should print the number of its own iteration, and may not | `ThreadRefs` |
| timer, `2024/src/CV/CVUse1.cpp` | `testCompleted`, `timedOut`, mutex, condition variable | `TimerThread` | a thread that sets the flag (not in the repository) | timeout and completion race; a notification before the sleep is lost | no false alarm; the timer ends | `TimerThread` |
| locked queue, `2023/src/Instance/InstanceqQueue.cpp` | `queue`, `mtx` | `enqueue`, `dequeue`, `size` | callers share the singleton | `front` and `pop` are two steps | acts as a queue | `QueueSingleton` |
| keys of maps, `2023/src/Map/UnorderedMap1.cpp` | a `std::map`, a `std::unordered_map` | `operator==`, `operator<`, `KeyHash`, assignments | | order, equality and hash must agree although they read different parts of the array | each map holds what it was told last for each key | `MapKeys` |
| mapped file, `mmap3_w.cc` | a file, its page | `open`, `lseek`, `mmap`, stores | processes started with the same file | a later start truncates the file under the mapping; records beyond the end | the last to empty the file leaves what it stored | `MappedFile` |
| the other examples | none beyond a sequential `main`, or none at all | | | undefined behaviour, if anything | | not modelled, section 7 |

`PROJECT.json` lists every component with its files, and every hazard at its line.

## 2. Modules and how they correspond to the code

Each module is one program (or the two programs of one ring). Its variables have
the names of the source's fields; its actions have the names of the functions,
one action per step between two accesses that another thread can see. `PROJECT.json`
maps each definition to its lines. Control points (`pc`) stand for the position
of a thread in its method.

- `CppInt`: `int` with `IntMax + 1` negative values, the silent wrap of an atomic
  `fetch_add`, and C++'s truncating `%`.
- `CvRing` (`mmap4_cv.cc`): `Lock` is the constructor of `unique_lock` and the relock in
  `cv.wait`; `WriteWait`/`ReadWait` evaluate the predicate and go on or sleep; `WriteClaim`,
  `WriteStore`, `WriteFinish` (with `notify_one`, the end of the lock and the loop) follow.
  `Spurious` ends a wait without a notification. The payload is `<<writer, call>>`.
- `SemRing` (`mmap4_sem.cc`): `sem_wait`, `fetch_add`, the store or load, and `sem_post` are
  separate steps of any number of threads. `MCSemRing` adds the symmetry used by one run.
- `NamedSemRing` (`mmap5_*`): each system call of the constructors is a step; `KillWriter` and
  `KillReader` end a process anywhere and keep what lies in the system. Counters are
  kept modulo `NUM_SLOTS`; of the memory, which slots hold a value that has been stored and not loaded (`unread`).
- `ShmSemRing` (`mmap6_*`): the same ring whose semaphores lie in the memory. `WriterSemWrite`
  and `WriterSemRead` are the two calls of `sem_init`, which each start performs since the test before
  them reads a counter that has just been stored as 0. `sem_init` of a semaphore on which the
  reader sleeps is undefined: the reader stays asleep, or is "forgotten" by later posts. A
  reader that maps an object without size faults in `sem_wait`. `KillWriter` and `KillReader` end a
  process anywhere. Stored values are left out.
- `CoverRing` (`mmap7_*`): the two loads of the loop's condition, the compare-exchange, the
  claim, the store, the post and the store of IDLE are steps. C++ leaves open which of the two loads comes first; the model
  has them from left to right. `Main` is the writer
  process's main thread, which writes the end flag after the joins.
- `CoverLives` extends `CoverRing` by what happens before and after: the writer's constructor is a step
  per store or system call, with a reader that may already be there; the reader's destructor
  removes the name; both processes may be killed and started again. `forgotten` says that `sem_init`
  ran while the reader slept on the semaphore, after which no post need wake it.
- `PingPong` (`ThreadAndSafe.cpp`): `fun` with its lock, wait, lines, flip and notify.
- `LazyInstance`: three programs in one module, told apart by `program`; `EnterUnlocked`,
  `EnterLocked` and `EnterStatic` are what differs. `new (std::nothrow)` may return NULL, on which `PrintHello` calls `Print`
  without a test: the thread goes on (`Finish`) or the process ends (`Crash`). `call_once` guards its initialization as
  a static local variable does.
- `MessageQueue` (`Mq1.cpp`): several programs on one name; a queue is named after its creator,
  `Old` is one left behind. `KillParent` and `KillChild` end a process of the programs in `Killable`; `OpenFails`,
  `ForkFails`, `SendFails` and `GetFails` are the failing calls of the programs in `Failing`: `main` returns, goes on without a child,
  or counts the call as any other.
- `ThreadRefs` (`ThreadWithVector.cpp`): `main` declares `tmp` and starts `T2` with a reference to it; the place
  of `tmp` on the stack is one variable, which each iteration uses again and which holds anything of `Reused` while no `tmp` is alive
  (`Reuse`), small numbers among it.
- `TimerThread` (`CVUse1.cpp`): `wait_for` with its predicate. The thread that completes the test is not in the
  repository; it is assumed to store `testCompleted` and then to notify, once or never, without the mutex.
- `QueueSingleton` (`InstanceqQueue.cpp`): the calls of `main`, made by several callers; each method is `Lock`
  followed by its body, and `dequeue` is `front` and `pop`.
- `MapKeys` (`UnorderedMap1.cpp`): `KeyLess`, `KeyEqual` and `KeyHash` over all keys of a small size, and
  assignments to either map by the rule by which the container finds a key. `std::strncmp` is modelled by what
  it returns.
- `MappedFile` (`mmap3_w.cc`): several processes with one file; the part of the page beyond the file's size does not reach it.
- `MCPrograms` puts `PingPong`, `LazyInstance`, the five modules above and `CvRing` with a small INT_MAX into one specification
  that chooses one of them at the start, so that one run checks them all. They do not interact. Its `Lazy`, `Map`, `Ring` and
  so on are instances; `ProgramsProofs` proves the properties of each of them as part of this specification.

Abstract specifications: `BoundedFifo` (a queue of at most `Capacity` values, with the
identity of each), implemented by `CvRing` for all threads and by `SemRing` for one writer and
one reader; `Alternation` (two speakers take turns, nobody is interrupted),
implemented by `PingPong`. The refinement mappings are the `INSTANCE ... WITH` of these modules:
the queue is the sequence of slots `First .. End - 1` whose values are stored and not yet loaded.

Operators marked "Defect" are plausible mistakes in the code. They are used by no
specification; each property has one that breaks it.

## 3. The runs

| Run | Instance | Checks |
|---|---|---|
| `cv_program` | the program's 3 writers, 2 readers where it starts one, 2 slots, 5 writes | `NoLostWakeup`, `StillReady`, `IsFifo` (refinement), `NobodyStarves` |
| `sem_program` | 3 writers, 1 reader, 3 slots, INT_MAX = 3, 6 writes | `Tokens`, `NoOverrun`, `EverySlotRead`, `FaultOnlyAfterWrap`, no deadlock, also past the wrap |
| `sem_early` | 3 writers, 1 reader | **violated**: `DataIsStored` |
| `named_restart` | 3 writers, 1 reader, 3 slots, 2 kills | `ReaderMapsMemory`, `InStep`, `UnreadIsFound`, `TokensKept`, `Flow` |
| `shm_restart` | 3 writers with 2 calls each, 1 reader, 2 slots, 3 starts, 2 kills | `TokensBounded`, `InStep`, `LivesEnd` |
| `shm_once` | 1 writer, 2 starts | **violated**: `InitOnce` |
| `cover_program` | 2 writers with 2 calls each, the end flag, 2 slots | `ReadsFollowWrites`, `StatusHasOwner`, `Terminates`, no deadlock |
| `cover_lives` | 2 writers with 1 call each, the end flag, 2 slots, 2 starts, 2 kills | `NeverAhead`, `OrphanedByKill`, `LivesEnd`, `ReaderEnds` |
| `cover_race` | 3 writers with 1 call each | **violated**: `NoRace` |
| `queue_programs` | 3 programs with 2 messages each, queues of 3, one program may be killed, a call of another may fail | `NameIsFreed`, `NoOldMessages`, `EmptyWhenClosed`, `Terminates` |
| `refs_own` | 3 iterations | **violated**: `OwnNumber` |
| `small_programs` | ping-pong with its own 10, 100 and 50; 3 iterations; a timer; 2 callers; keys of 2 characters and a string; 3 processes with one file; 4 threads of each singleton program; `CvRing` with 2 writers, 2 readers, 3 slots, INT_MAX = 3, 7 writes | `NoLostWakeup` and `Alternates` (refinement) of the ping-pong, `NoFalseAlarm`, `ActsAsQueue`, `HoldsWhatWasTold`, `LastOneStands`, `OneInstance`, `AnswersAreAlive`, `NothingLeaks`, `FaultOnlyAfterWrap`, `ProgramEnds` |

A type invariant that a theorem states is not repeated in a run.

What the violated runs show:

- `sem_early`: a writer that claims slot 1, stores and posts lets the reader through to slot 0,
  which another writer has claimed and not stored. The comments at `mmap4_sem.cc:53` and
  `:58` say the post tells the reader that there is data. The program's three writers suffice.
- `shm_once`: `mmap6_ipc_unamed_sem_w.cc:48` says that the semaphores are initialized once, by the process that
  creates the memory; line 46 makes the test at line 49 true in every process.
- `cover_race`: `rw_status` is taken only when the counters are equal modulo `NUM_SLOTS`, and every
  call stores IDLE, so a writer stores into the slot that the reader loads, which the comment at
  `mmap7_ipc_unamed_sem_r.cc:14` sets out to prevent.
- `refs_own`: `ThreadWithVector.cpp:22-26` gives `tmp` as what keeps a `T2` from printing another number than its own. A `T2` that runs
  after its iteration prints a later number, or what `tmp`'s place is used for by then: `tmp` dies with its iteration, and the
  joins come after the loop.

What the kills show: a reader's or writer's token dies with it (`TokensKept`, `TokensBounded`), and enough kills
stop a life of `mmap5_*` or `mmap6_*`; that is why `Flow` and `LivesEnd` speak of what is left. In `mmap7_*` a kill may leave
`rw_status` set; the writer that is started next stores IDLE, so its life ends whatever the dead have left (`LivesEnd`),
and without kills nothing is ever left (`OrphanedByKill`). A reader that came so early that it
slept when `sem_init` ran may be forgotten; `ReaderEnds` is about the others. A parent of `Mq1.cpp`
whose child is killed still ends, and a child whose parent is killed gets what was sent and then waits for the rest. What a killed
program or a failed call leaves in a queue is lost with it; otherwise a queue is empty when the last program on it has ended (`EmptyWhenClosed`).

### Bounds

- `NUM_SLOTS` (100 in the code) is 2 or 3: the ring is full and empty in every run and goes round
  at least twice. `MaxWrites`, `Calls` bound the endless or 100- to 300-fold loops; both exceed
  `NUM_SLOTS`, so slots are reused. Threads are as many as the programs start, except `CvRing` (a second reader, which competes
  for notifications with the first), `CoverRing` (two of three writers, so that each can call twice) and the singletons (4 of 5 or 50: one creates,
  one waits, one comes late, one repeats).
- `IntMax` is 3 where the wrap is the subject and 100, that is out of reach, elsewhere.
- `MaxKills` = 2: one kill of each process, or one process killed twice. `MaxStarts` = 3 in `shm_restart`: a first
  life, a restart beside a running reader, and a restart after one; 2 in `cover_lives`, where the second
  life meets everything that the first can leave behind.
- `Killable` and `Failing` hold one each of three programs that are alike, and `MaxFailed` = 1: a kill beside a failed call of another program.
- `Reused` is the number of an iteration and a value that is none.
- `MapKeys` has arrays of 2 of 2 characters and 2 strings: 3 texts, since what follows a NUL is NUL, so 6 keys, among them
  pairs that differ in the array only and in the string only.
- `MappedFile`: 3 processes, so that a third comes between two; 3 records of which 2 lie in the file.
- `QueueSingleton`: 2 callers with the six calls of `main` each.
- `Count` = 2 messages in queues of 3 for three programs: programs that come to share a queue fill it.
- `NamedSemRing` and `ShmSemRing` keep counters modulo `NUM_SLOTS`, all that the code uses of them below the
  wrap. `memset` is one step. `CoverRing` begins when the writer's constructor is done; `CoverLives` does not.

### Fairness

Weak fairness of each thread's steps: the operating system's scheduler runs every
thread that can run. In `CvRing` and `PingPong`, `Lock` has weak fairness of its own per thread, and the liveness
properties are those that hold without a fair mutex. Spurious wakeups may happen finitely often
(`<>[][~Spurious]`): a thread woken for ever without cause need not progress. No strong fairness is assumed.
Nobody has to start or to kill a process, and nothing makes the other thread complete the timer's test. In `small_programs`
fairness is that of the chosen program only.

`CHECK_DEADLOCK FALSE` stands where the system may stop: in `NamedSemRing_restart` (kills may take every token, and
processes need not be restarted), `ShmSemRing_restart` (the starts are bounded, and a forgotten reader leaves the writers
waiting), `ShmSemRing_once` (the same), `CoverLives_kills` (the starts are bounded), `MessageQueue_programs` (the programs end, or
a killed one's partner waits) and `MCPrograms_small` (the programs end, and a fault kills the ring's process). In `CvRing`, `Spurious`
is always possible while a thread sleeps, so TLC's deadlock check says little there; `NoLostWakeup` and
`NobodyStarves` say it instead.

## 4. What is proved

Every state invariant and every safety property of steps that a passing run checks is also a theorem: it holds for every
set of threads or processes (finite where they are counted), every number of slots and every bound on calls, failures, kills,
starts or turns, where the run shows it for a few. Only `UnreadIsFound` is proved for the one reader that the program starts.

| Module | Theorems (the property of a run that each states) |
|---|---|
| `CvRingProofs` | `TypeCorrect`, `WaitThenClaim` (`StillReady`), `ImplementsFifo` (`IsFifo`), `WakeupsArrive` (`NoLostWakeup`); for any number of calls: `SafeUntilWrap` (`FaultOnlyAfterWrap`), `FifoUntilWrap`, `RightUntilWrap` |
| `SemRingProofs` | `TypeCorrect`, `TokensConserved` (`Tokens`), `NeverOverrun` (`NoOverrun`), `SafeUntilWrap` (`FaultOnlyAfterWrap`); `PairImplementsFifo` (`IsFifo` for one writer and one reader), `PairFifoUntilWrap` |
| `NamedSemRingProofs` | `TypeCorrect`, `ReaderMapsItsMemory` (`ReaderMapsMemory`), `OnlyKillsLoseTokens` (`TokensKept`), `TokensStayBounded`, `CountersAgree` (`InStep`); with one reader: `ReaderFindsUnread` (`UnreadIsFound`) |
| `ShmSemRingProofs` | `TypeCorrect`, `TokensStayBounded` (`TokensBounded`), `CountersAgree` (`InStep`) |
| `CoverRingProofs` | of `CoverRing`: `TypeCorrect`, `ReadsFollow` (`ReadsFollowWrites`), `StatusIsOwned` (`StatusHasOwner`); of `CoverLives`: `ReaderNeverAhead` (`NeverAhead`), `OnlyKillsOrphan` (`OrphanedByKill`) |
| `MessageQueueProofs` | `TypeCorrect`, `OldIsNeverUsed` (`NoOldMessages`), `QueuesCloseEmpty` (`EmptyWhenClosed`), `LastOneUnlinks` (`NameIsFreed`) |
| `ProgramsProofs` | of `PingPong`: `TypeCorrect`, `ImplementsAlternation` (`Alternates`), `WakeupsArrive` (`NoLostWakeup`); of `MCPrograms`: `TimerRaisesNoFalseAlarm` (`NoFalseAlarm`), `LastOneStandsInTheFile` (`LastOneStands`), `LockedQueueActsAsQueue` (`ActsAsQueue`), `MapsHoldWhatTheyWereTold` (`HoldsWhatWasTold`), `OperatorsAgree`, `OnlyOne` (`OneInstance`), `HandsOutTheLiving` (`AnswersAreAlive`), `LeavesNothing` (`NothingLeaks`), `RingSafeUntilWrap` (`FaultOnlyAfterWrap`) |
| `RingLemmas` | lemmas only: division and remainders, slots of neighbouring calls, cardinalities when one thread moves |

Assumptions: the `ASSUME`s of the modules. The first four theorems of `CvRingProofs` and `PairImplementsFifo` are implications from
`NoWrap` (`MaxWrites <= IntMax`): no counter passes INT_MAX. They need it: beyond the wrap a ring is accessed outside
its memory, which `small_programs` and `sem_program` reach with a small INT_MAX. The other theorems of these modules speak
of any `IntMax` and of any number of calls; `SafeUntilWrap` says where the danger begins, and the other theorems named
`...UntilWrap` that what `NoWrap` gives for ever holds of the endless loops of the programs up to that point.

The arguments:

- `CvRing`: `IndInv` adds to `TypeOK` that the thread past its lock owns the mutex (`LockInv`), that the
  counters enclose at most `NUM_SLOTS` values (`CountInv`) and that a local slot is the one of the last
  `fetch_add` (`SlotInv`). `StillReady` alone is not inductive: it needs that nobody else moves a counter while the
  mutex is held. For `IsFifo` a store is a `Put`, a load is a `Get` and every other step stutters;
  that a store keeps the rest of the queue rests on `DistinctSlots` in `RingLemmas` (two calls
  fewer than N apart use different slots). `NoLostWakeup` follows from `WakeInv`, which says for
  every step, mutex held or not, who will attend to a free slot or an unread value.
- `CvRing` beyond the wrap: every step that preserves `IndInv` does so with the bound on the calls replaced by
  `next_write_slot_ <= IntMax` (`Early`). The call that takes INT_MAX itself still gets a slot of the ring, but leaves a
  counter that is negative, which no invariant of the ring survives. `WrapInv` therefore is `IndInv` up to that call and the little that is left
  right after it (`AtWrap`: slots in the ring, nobody dead), until the next `fetch_add`. The counter
  of the model counts on, and what the code sees of it is `AsInt`. `Early` says of a state that it is before the wrap and, as the
  counters only grow (`CountsOn`), so are the states before it: `FifoUntilWrap` is about steps from such states, the one that takes INT_MAX included, and
  `RightUntilWrap` carries `WakeInv` along with `WrapInv`.
- `SemRing`: `Tokens` and `NoOverrun` count threads at control points; each step moves one thread, so each cardinality changes by
  one or not at all (`CardinalityMove`). A fault ends the program and is part of the invariant (`Roles`), which is why these
  hold for any width of an `int`. With one writer and one reader the counts are 0 or 1, and `PairInv` says that a
  local slot is the one of the last `fetch_add`; the rest is the argument of `CvRing`.
- `NamedSemRing`: what a constructor has passed stays in the system (`Created`), and a process has threads exactly
  while it runs (`Running`); tokens are then counted as in `SemRing`. `InStep` becomes inductive with what holds while
  a process does not run for the first time: it has counted nothing (`AgreeInv`). `UnreadIsFound` speaks of moments when no writer is inside `Write`; `FoundInv` says of
  every moment that each slot between the two counters is unread or about to be stored into. That the one reader does not take the value out of a slot that is
  still counted on rests on `TokensBounded`: its own token leaves at most `NUM_SLOTS - 1` slots between the counters (`LoadingLeavesOne`), and the slot it loads is
  the one before them (`SlotBefore`). With several readers the property would fail as `DataIsStored` does in `sem_early`, with the roles exchanged.
- `ShmSemRing`: `TokensBounded` is not inductive, as `sem_init` adds a ring of tokens to those that are there. `BoundInv`
  charges a start only when it initializes the first semaphore: until then there are the tokens of the earlier
  starts at most. `sem_init` of the second one, faults and kills only take tokens away. `StepInv` is `InStep` with what holds
  before the threads run for the first time: nothing is claimed, so that an early reader joins in at slot 0.
- `CoverRing`: `ReadsFollowWrites` is inductive with `TypeOK`. For `StatusHasOwner`, the thread that sets the status
  is past its exchange, and no other thread can set it until IDLE is stored. `CoverLives` runs the same steps in a writer that starts
  again: `LivesInv` adds that a process has threads exactly while it runs (`Running`) and that nothing is counted before the first
  life's threads are there (`FirstLife`), so that each step of a life is one of `CoverRing` or resets the counters.
- `MessageQueue`: a queue is named after its creator, so a name that is created cannot be anybody's before; `Opened` says what a program has
  before it opens one, and `OldInv` that nobody is between unlink and reopen while the name still stands for the old queue. `EmptyWhenClosed` rests on what
  the loops have reached when a process ends (`Counted`) and on the balance of a queue of which no call has failed (`Conserved`): it holds the pairs of a
  program and a message number that were sent, less those that were received, whichever programs share it. `NameIsFreed` is inductive with
  `TypeOK`: whatever parent ends last, its `~MyQueue` unlinks the name, and one that is killed has not ended.
- `PingPong`: `flag` tells which thread is ahead in turns (`FlagInv`), the owner of the mutex is the one inside the loop (`LockInv`).
- `MCPrograms`: a step of the whole is a step of one program and leaves the variables of the others alone (`StepOfOne`), so that an
  invariant of a program is one of the whole.
  - `TimerThread`, `MappedFile`: the property, strengthened by what each control point has reached.
  - `QueueSingleton`: the owner of the lock is the caller inside a method (`LockInv`), and the queue is as long as what callers have
    put in less what they have taken (`Balance`), so `front` of an empty queue never happens.
  - `LazyInstance`: a thread past the test, or initializing the static variable, holds the lock (`LockInv`), so the only instance is
    the one that is pointed to or the one that this thread has just made (`OneInv`). While main waits,
    whatever is pointed to or was returned is alive (`AliveInv`), main waits for all (`EndInv`), and under the lock a thread leaves the pointer NULL only if its own
    `new` failed (`LockInv`): `AnswersAreAlive`. Of the program without a lock only `ProgramEnds` is checked, on the assumption that its racing loads and stores take effect in one order.
  - `MapKeys`: `operator<` is a strict total order of the keys whatever the size of the array (`KeyLessIsOrder`, `KeyLessTransitive`): two texts
    that differ agree up to a first character, which is no NUL in one of them (`FirstDifference`), and here it matters that an array is filled up with
    zeros. `KeyHash` with `operator==` tells the same keys apart (`KeyEqualIsEquality`); `OperatorsAgree` puts these together as what the containers ask of them. The entries of a `std::map` are in this order
    (`Sorted`), so the search by `operator<` finds the key's entry or the place where it belongs.
  - `CvRing`: the theorem of `CvRingProofs`, taken over by an instance of that module.

Induction over numbers is not available to the provers; where it is needed (the first difference of two texts, the first entry that
is not less than a key), `LeastNatural` takes its place: a set of natural numbers that is not empty has a least one, which follows
from the library's theorem that `<` is well-founded.

Only model-checked: liveness under fairness (`NobodyStarves`, `EverySlotRead`, `Flow`, `LivesEnd`, `ReaderEnds`, `ProgramEnds`, `Terminates`),
which TLAPS cannot prove. The violated properties (`DataIsStored`, `InitOnce`, `NoRace`, `OwnNumber`) are false, and TLC's behaviours show it.

## 5. Plan

Done, in this order: `CppInt`, `BoundedFifo`, `CvRing` and its proofs; `SemRing`; `PingPong` with `Alternation`; `NamedSemRing`;
`CoverRing`; `LazyInstance`; `MessageQueue`; `ShmSemRing`; `CoverLives`; kills in `ShmSemRing` and `MessageQueue`; `ThreadRefs`, `TimerThread`, `QueueSingleton`,
`MapKeys`, `MappedFile` with `MCPrograms`; proofs of `ShmSemRing` and `LazyInstance`; the proofs of all safety properties that were
only model-checked until then, and of both rings without `NoWrap`.

To come: an abstract channel that `MessageQueue` implements; the token
accounts of `NamedSemRing` and `ShmSemRing` as one refinement.

## 6. Reading the results

`tlc -config X.cfg M` with the pairs in `PROJECT.json` repeats a run, each in three minutes or less; `tlapm M.tla` repeats the proofs of a module.

## 7. Not modelled

- Failing system calls of the rings (`shm_open`, `mmap`, `ftruncate`, `sem_open`, interrupted `sem_wait`): the programs exit or ignore the
  result. The absence of an object at start and `EEXIST` are modelled, as they steer the protocol.
- Weak memory: `fetch_add` is `relaxed` but atomic; stores to slots and loads are separate steps in program order. The same holds of the
  pointer of `InstanceButThreadUnSafe.cpp`, which no lock and no atomic orders.
- Destructors that no run reaches, since the loops of `mmap4_*`, `mmap5_*` and the reader of `mmap6_*` never end.
- Sleeps between calls, printing and elapsed times.
- What a text looks like: the text of the messages of `Mq1.cpp`, received into a buffer that was not initialized and without
  a terminating NUL, and the names in the file of `mmap3_w.cc`. Collisions of `std::hash`, which only cost time.
- The sequential examples: arrays, constructors, `MapUse1-5`, alignment, polymorphism (`Many3` does not compile: it
  applies `dynamic_pointer_cast` to a type without virtual functions), friend classes, casts, const, strings, memory
  copies, `mmap1.cc` and `mmap2.cc` (one process, one or two stores), `draft.cpp`; `PROJECT.json` gives the reason for each.
  Directories with notes only (`CallBack`, `Memory`, `memo`, `AiLearing`) hold no program.
