# A TLA+ verification of rust-async-bench

The repository compares a hand-written event loop with several minimal async
executors, on a fake network server over fake I/O. It is small, but it writes
by hand what async programs usually take from a runtime: an intrusive list, a
task slab with raw pointers into it, three executors, embedded and
reference-counted wakers, a reactor and its futures. This project models all
of these in TLA+, checks them with TLC and proves all their safety properties
with TLAPS; liveness is model-checked only. Source paths are relative to the
repository (`src/executor.rs` is `src/src/executor.rs` in `PROJECT.json`, whose
paths start one level above).

## 1. Inventory

| Component | State | Operations | Hard part |
|---|---|---|---|
| `list.rs` | `head`, `tail`; `prev`, `next` in nodes the caller owns | `insert`, `remove`, `pop_front`, `push_back`, `concat`, `is_empty` | links are shared by several lists and updated one by one |
| `executor.rs` `arg`, `bx`, `boxrc` | task slab, `awake` flags, run queue `next` | `add`, `wake`, `process_next`, `run` | user code runs inside `process_next` and calls back in; pointers kept across polls; slots are reused |
| `executor.rs` spawners | raw pointer to the executor | `set_spawner`, `spawn`, `Drop` | the pointer outlives moves and replacements |
| `waker.rs` `EmbedWaker` | `refs` in the task | clone, wake, wake_by_ref, drop | a hand-made reference count for memory that is reused |
| `waker.rs` Rc / checked Rc / Arc | strong count | the same four | a `Waker` is `Send`, an `Rc` is not |
| `future.rs` | registration slab (`ready`, `waker`) | `register`, `bind_waker`, `unbind_waker`, `set_ready`, `poll`, the futures and their drops | lost wake-ups; keys of two slabs reused |
| `fakeio.rs` | `Poll::items`, `poll_index`, `calls` | `register`, `unregister`, `poll`, `read`, `write`, `accept` | an index kept in the object and a key kept in the item |
| `run.rs` async servers | the futures' states | `listen*`, `connection*`, `run_*` | capacity for the last connection; repeated runs |
| `run.rs` `RunManual` | slab of connections, `needs_process`, `can_accept`, `accept_left` | `run`, `Connection::process` | three key spaces; a list threaded through the slab |
| `run.rs` `Stats` | six counters, a pipe | `new`, `inc` with its system call, `Drop` | the call is asserted inside every I/O operation |
| drop order of `run_*` | locals stats, reactor, spawner, executor | return, unwinding | futures own parts of the reactor, the reactor holds wakers into the executor |
| benches, `main.rs`, `compare.py` | - | timing, printing | - |

How they interact: a run spawns the *listen* task and calls `run(park)`.
`run` alternates `process_next`, which polls woken tasks until the queue is
empty, with `park`, which is `FakeReactor::poll`. A poll of a task polls an
I/O future, which binds a clone of the task's waker in the reactor and tries
the fake call; when that would block the task sleeps. The reactor's poll makes
all registrations ready and wakes the wakers bound there; `wake` appends the
task to the run queue. Everything is on one thread, so that the hard
interleavings are callbacks: what user code may do while the executor or the
reactor is in the middle of an operation. Only the wakers may meet several
threads.

What makes each part correct, and what could go wrong at which line, is the
`hazards` list of `PROJECT.json`; sections 3 and 4 say which property covers
which part.

## 2. Modules

| Module | Models | Uses |
|---|---|---|
| `List` | the operations of `list.rs` as pure operators on (nodes, list) | |
| `Queues` | abstract: what `list.rs` promises, lists as sequences | |
| `IntrusiveLists` | several lists over one node collection, any sequence of calls | `List`, refines `Queues` |
| `Scheduler` | abstract: what an executor promises | |
| `Executor` | all three executors and `EmbedWaker`, with arbitrary futures and waker holders | refines `Scheduler` |
| `Reentry` | `run()` called inside `run()`, to any depth | `Executor` |
| `QueueOrder` | order in a queue | |
| `Spawners` | `ArgSpawner`, `BoxSpawner` and the life of their executors, with arbitrary clients | |
| `FakeIO` | `fakeio.rs` as operators: the alternating calls, `Poll` | |
| `Reactor` | `future.rs` over `fakeio::Poll`, with arbitrary clients | `FakeIO` |
| `Wakers` | the counts of Rc, checked Rc and Arc wakers, several threads | |
| `Stats` | the call counters and `EXPECTED_STATS` | |
| `Server` | abstract: accept, receive and respond for every connection | |
| `AsyncServer` | the async servers: executor, reactor and futures composed | `Executor`, `Reactor`, `FakeIO`, `Stats`; refines `Server` |
| `MCAsyncServer` | the symmetry set for the safety run of `AsyncServer` | `AsyncServer` |
| `Teardown` | return and unwinding of the `run_*` functions of the async servers | `AsyncServer` |
| `ManualServer` | `RunManual` and `Connection` | `FakeIO`, `Stats`; refines `Server` |
| `DataLemmas` | lemmas on queues (remove, append, insert), slabs, counts of finite sets and call statistics | `QueueOrder`, `FakeIO`, `Stats` |
| `IntrusiveListsProofs`, `SpawnersProofs`, `ReactorProofs`, `WakersProofs`, `ManualServerProofs` | theorems on the module each is named after | that module, `DataLemmas` |
| `ExecutorProofs` | theorems on `Executor` and `Reentry` | `Reentry`, `DataLemmas` |
| `AsyncServerProofs` | theorems on `AsyncServer` and `Teardown` | `Teardown`, `DataLemmas`, and instances of `ExecutorProofs` and `ReactorProofs` |

Definitions named `Mut...` are variants of the definition that follows them
with one plausible mistake put in. No specification uses them: each shows that
a property would notice that mistake.

### Lists

`nodes` and `lists` are the links as the code keeps them; the operators of
`List` follow the assignments of `list.rs` one for one. `queue` is a history
variable, the sequence each list should be. Callers respect the contract of an
intrusive list: a key is inserted only while it is in no list and removed only
from the list it is in, or from any list while it is in none. The executors
and `RunManual` keep `next` and `needs_process` as sequences; their invariants
`QueueIsAwake` and `NeedsAreConns` establish that contract, so that this step
of abstraction is justified by `ImplementsQueues`.

### Executor

The three executors share one control structure, so there is one module; the
variable `flavor` is chosen initially and selects the differences: where the
count of a waker lives and starts (`VacantRefs`), and that `ArgExecutor` drops
a finished future while it holds `data.borrow_mut()` (`Borrowed`,
`DestructorReenters`). `tasks`, `awake`, `next` are `data.nodes`, the flags
and `data.next`; `refs` is `EmbedWaker::refs` or the strong count; `clones`
counts what the environment holds; `cur` is `nkey`; `pc` is the place of the
thread in `run`/`process_next`. `Add`, `CloneWaker`, `DropWaker`, `WakeByRef`
and `Wake` may happen whenever user code runs: in a poll, in a destructor, in
`park()` or outside `run`. `Pick`, `PollPending`/`PollReady` and `TaskDone`
are the three parts of an iteration of `process_next` between which user code
runs. Assertions, indexing of vacant slots, double borrows and `unwrap` set
`panic`; after a panic nothing happens.

One thing user code could do is left out of this module: call `run()` again.
`run(&self)` does not prevent it, and a future that owns an `Rc` of its
executor, as `listen_rc` does (`run.rs:384`), or a `park` closure with a
reference to it, is able to. No code of the repository does.

### Run inside run

`Reentry` adds exactly that. The variables of `Executor` belong to the
innermost call; `frames` is the stack of the calls in suspense, with the task
each is at (`nkey`, and `task_ptr` into its slot) and whether it is in a poll,
in a destructor or in `park()`. `Enter` pushes, `Resume` pops, `PickAny` is
`Pick` where the task may be in suspense further out, and `WakeOuter` wakes
through the `Context` of a suspended poll. `again` is history: the tasks an
inner call picked while they were in suspense. `lost` is undefined behaviour:
a pointer was used whose task is gone, or a future polled whose destructor is
running; nothing is said of what follows.

### Spawners

An executor is at an address (`addr`) until it is dropped; `ctx` is the raw
pointer in a spawner, `spawner` what the executor remembers. Lifetimes make
spawners outlive executors, so there is no drop of a spawner; everything else
the types allow the clients do: call `set_spawner` again with another spawner,
give one spawner to two executors, move the executor (which `set_spawner(&self)`
does not prevent), drop it with tasks left, and reuse its address. A spawn
through an address where no executor is sets `wild`, and nothing is said of
what follows. `home`, `forsaken` and `shared` are history: who took the
spawner last, whether that executor moved or took another one since, whether
another executor also remembered it.

### Reactor and fake I/O

`regs` and `items` are the two slabs, `handles` the open I/O objects with the
keys they remember, `futures` the I/O futures. A stream is borrowed mutably and
has one future at a time; `accept(&self)` lets a listener have several. A poll
of a future is `BindWaker`, then `NotReady`, `WouldBlock` or `Complete`;
`FakeReactor::poll` is `PollBegin`, one `PollEvent` per event and `PollEnd`,
because binding and waking call into the executor. Futures may be dropped in
any state and polled with another task's waker. Which vacant key a slab hands
out is left open everywhere, which includes what `slab` does. Events keep the
index of their item instead of a running number; their order is the same.

Futures of one listener share its waker slot: a poll replaces the waker of the
other one and a drop empties the slot. The history field `last` says which
future was polled last without such a drop since; that is the one
`PendingIsArmedOrWoken` promises a wake-up, while for streams it promises one
to every future. The servers have one accept future at a time, for which both
are the same.

### Wakers

`holder` says which thread owns each clone; `Clone` names the clones that can
exist at a time, a bound. An `Rc` changes its count by a load and a store, an
`Arc` in one step. Which thread may call what is not translated from code but
an assumption on the clients, `Permitted`: an unchecked Rc stays on its thread
(`README.md:35`; the comment at `executor.rs:514` promises it), an Arc waker
may be cloned and dropped elsewhere but not woken, since waking upgrades a
`Weak` of the executor's tasks, and `CheckedOps` says what other threads do
with a checked one. A check that fails kills the thread; `wake` and `drop_waker`
own the `Rc` when that happens, so that unwinding decrements the count.

### Servers

`AsyncServer` joins actions of `Executor` and `Reactor` by conjunction: `Bind`
is the reactor's `BindWaker` together with the executor's `CloneWaker`,
`ParkEvent` is `PollEvent` with `Wake`, and so on; every action that changes
executor state is an action of `Executor`, and likewise for `Reactor`.
`fut` is the state machine the compiler makes of `listen` and `connection`.
The streams deliver the whole request and take the whole response, and block
on every odd call, as `FakeStream` does; `SMALL_BUFSIZE` and `LARGE_BUFSIZE`
make no difference then. `ManualServer` has one action per branch of
`RunManual::run` and `Connection::process`. Both count calls in `stats`.
The refinement mapping to `Server` counts the connections in each phase.

### Teardown

`Teardown` extends `AsyncServer` by what happens behind the last run. With
syscalls every counted call (`Stats::inc`) begins with the assertion in
`do_call`; `Fault` makes it fail once, at any of these calls, and undoes
nothing that the interrupted operation has already done: `register` has filled
the registration slab and not yet `Poll`, `unregister` has touched nothing
although the object's fields are dropped. Dropping a waker asserts `refs > 1`
(`waker.rs:82`); where that fails while a panic unwinds, the process aborts.
`Unwind` drops what the polled future owns, then `DropExecutor`, `DropReactor` and `DropStats` follow the locals of
`run_*` in reverse order, as they do after `Return`. The three executors differ
in `DropExecutor`: `ArgExecutor` forgets the futures that are left (they are
`MaybeUninit`), `BoxExecutor` drops them, `BoxRcExecutor` does unless the
listen task, which holds an `Rc` of the executor, is among them. What
forgotten futures still own decides whether the reactor and the stats go.

## 3. Runs

| Run | Instance | Shows |
|---|---|---|
| `lists` | 4 nodes, 2 lists | after any legal calls the links represent the sequences, nodes outside lists are clean, answers are right |
| `executor` | 3 slots, 2 clones each, all executors | queue = flags, exact counts, no waker without its task, no use of a vacant slot, the polled slot keeps its task, never parks with work, polled in wake order |
| `executor_live` | 3 slots, 1 clone | a woken task is polled, also among tasks that always wake themselves; only waking or spawning in polls keeps `run` from parking; `Scheduler` with its fairness is implemented |
| `reentry` | 2 slots, 1 clone, one call of `run()` in suspense | **violated**, see below |
| `spawners` | 3 executors, 2 spawners, 3 addresses, capacity 1 | a spawner leads to the executor that took it last unless that one moved or took another; it is unset next to a living executor only if it was shared; stray calls go through forsaken spawners only |
| `reactor` | 3 objects, 2 registrations, 2 futures, 2 wakers | slabs and handles in step, no lost wake-up, no waker without a future, a poll wakes all |
| `async` | 3 connections, 2 runs, symmetric slots | no panic, sleepers are armed, clones = bound wakers, one owner per object, exact call counts and empty slabs behind every run |
| `async_live` | 2 connections, 2 runs | every run ends; `Server` is implemented |
| `teardown` | 2 connections, 2 runs, a fault in any counted call | no waker is used behind its memory but with `ArgExecutor` after a panic; a return leaves nothing; unwinding keeps the counts and no drop of a waker finds its count exhausted; which panics leak futures, reactor and pipe, by the call that failed and the calls made so far; when `Poll::drop` fails |
| `manual` | 4 connections, 2 runs | needs_process, Poll and slab agree; exact counts; termination; `Server` is implemented |
| `wakers` | 3 threads, up to 4 clones | counts stay exact for Rc, Arc, and for checked wakers that other threads only clone or wake by reference |
| `wakers_checked` | 2 threads, 2 clones | **violated**, see below |

Why the bounds are enough. Three slots give a task being polled and two in the
queue behind it, the least at which order matters; two clones let one outlive
another. Four nodes give two inner nodes and concatenations of longer lists.
Two registrations for three objects force reuse of keys while another object is
open, two futures meet on a listener. Three executors let one take the address of
another while a third holds its spawner. With three or four connections the first can end while later ones are
accepted, and the second run starts on used slabs. The full program has 256
connections, and a connection meets only the listener and the slabs.
`MaxClones`, `Clone`, `Runs` and `MaxDepth` are the only bounds that the code
does not have; the first two disable a clone beyond them, `Runs` the next call
of the closure, `MaxDepth` a further call of `run()` inside `run()`. The theorems of section 4 hold for every value of them.
In `AsyncServer` the bound is `Conns + 1`, which no task comes near.

`TypeOK` is among the checked invariants of `executor` and `reactor`, and that
of the async servers is part of `TearTypeOK`; in the other modules `TypeOK`
documents the variables and the runs spend their time on other invariants.

Symmetry is used only in `async`, which checks invariants only, for task and
registration slots; poll indices, whose order decides the order of events, are
numbers.

Deadlock is checked everywhere but in `wakers*`, where clients may simply stop.
The servers stutter explicitly when all runs are done.

Fairness. `Executor` assumes weak fairness of each step of the thread inside
`run`: polls, destructors and `park` return, and `run` is called when it is not
running (`run.rs` calls it right behind the first spawn). Nothing is assumed of
the environment's wakes, clones and spawns. The servers assume weak fairness of
their next-state relation: one thread that never blocks.

### The findings

**A task removed under `task_ptr`.** `process_next` keeps a raw pointer to the
task it polls. The SAFETY comment (`executor.rs:679`, also 114 and 356) says
that the "task won't move/drop while this pointer is in use", since "the only
place we remove the pointed-to item is at the end of this function". That end
can also be reached by another call of the same function: in `reentry` a task
wakes itself and calls `run()`; the inner call polls it again, finds it ready
and removes it, and the outer poll returns into a vacant slot. It is no corner
of that case: an inner `run()` returns only when the slab is empty, so that one
called from a poll can only return to a task that is gone (or never, if that
task is not woken and nothing else ends). What does hold is
`LostOnlyIfPolledAgain` of section 4: a task is lost in no other way. The
futures and `park` closures of the benchmarks do not call `run()` and are not
affected; a flag that makes `run()` refuse to be entered twice would make the
comment true.

**A checked waker dropped elsewhere.** `README.md:36` says of `box+chkrc` that the waker is "safe" and "panics if it
is used from another thread", against `README.md:35`, by which the unchecked
one "would cause undefined behavior". `clone_waker` and `wake_by_ref` look at
the `Rc` through a `ManuallyDrop`, check, and only then touch the count. `wake`
(`waker.rs:200`) and `drop_waker` (`waker.rs:218`) own the `Rc` before the
check: on another thread it panics as promised, but unwinding drops the `Rc`
there, a plain load and store on a count the owner may be changing. In
`wakers_checked` an update is lost and `CountIsExact` fails. The benchmarks do
not use threads and are not affected.

## 4. Proofs

Every theorem holds for all values of the constants under the assumptions named
in the modules: slots, keys, handles and clones are finite sets where a slab or
a count needs it, `None` is none of them, bounds are natural numbers. In
`AsyncServer` the capacities are those of the code (`CapacityAssumption`: task
slab and registration slab have `CONNS_MAX + 1` slots), and `SlotAssumption`
says that the slots are finitely many and differ from `None`; in `ManualServer`
`NoneAssumption` says the same of `None` and the keys of the connection slab.
Each component has one inductive invariant `Inv`, one lemma per action that
preserves it, and the theorems follow from `InvHolds`. On top of it the servers
have a second one, `Acc`, for the call counts, and the teardown has `TearInv`.

| Module | Theorem | States |
|---|---|---|
| `IntrusiveListsProofs` | `LinksFaithful` | `LinksRepresentQueues` |
| | `RefinesQueues` | `ImplementsQueues`: `list.rs` implements sequences |
| `ExecutorProofs` | `TypeCorrect` | `TypeOK` |
| | `QueueConsistent` | `QueueIsAwake` |
| | `RefCountExact` | `RefsCountClones` |
| | `WakersSafe` | `WakersHaveTasks` |
| | `NeverDangles` | `NoDanglingUse` |
| | `PolledTaskValid` | also with `run()` inside `run()`: `PolledTaskStays` of the innermost call until something is lost, and `LostOnlyIfPolledAgain`, how far the SAFETY comments in `process_next` hold |
| | `ReInvHolds` | the invariant of `Executor` holds at every depth until something is lost |
| | `ParksOnlyIdle` | `NeverParksWithWork` |
| | `FirstWokenFirstPolled` | `PolledInWakeOrder` |
| | `RefinesScheduler` | the safety part of `Scheduler` |
| `SpawnersProofs` | `LeadsHome` | `SetMeansHome` |
| | `RefusesOnlyShared` | `UnsetMeansHomeless` |
| | `StraysOnlyForsaken` | `WildMeansForsaken` |
| `ReactorProofs` | `TypeCorrect` | `TypeOK` |
| | `SlabsInStep` | `SlabsMatchHandles` |
| | `NoLostWakeUp` | `PendingIsArmedOrWoken` |
| | `NoStrayWaker` | `NoWakerWithoutFuture` |
| | `PollReachesEverybody` | `PollWakesAll` |
| `WakersProofs` | `CountsStayExact` | `CountIsExact`, provided other threads only clone a checked waker and wake it by reference |
| `ManualServerProofs` | `NeedsValid` | `NeedsAreConns` |
| | `PollInStep` | `ItemsMatchConns` |
| | `RunsExact` | `RunsAreClean`: every run makes exactly the calls of `EXPECTED_STATS` |
| | `ServesLikeServer` | the safety part of `Server` |
| `AsyncServerProofs` | `TypeCorrect` | `TypeOK` |
| | `NeverPanics` | `NoPanic` |
| | `SleepersArmed` | `SleepersAreArmed` |
| | `ClonesBound` | `ClonesAreBound` |
| | `ObjectsOwned` | `ObjectsAreOwned` |
| | `ImplementsExecutor`, `ImplementsReactor` | every behaviour of the servers is one of `Executor` and one of `Reactor` |
| | `RunsExact` | `RunsAreClean`, the calls of `EXPECTED_STATS` for the async servers |
| | `ServesLikeServer` | the safety part of `Server` |
| | `TearTyped` | `TearTypeOK` |
| | `UseAfterFreeOnlyInArg` | `NoUseAfterFree` |
| | `ReturnsClean` | `ReturnIsClean` |
| | `CountsStayRight` | `CountsSurvive` |
| | `LeaksExactly` | `LeaksUntilAllAccepted` |
| | `AssertionFailsRarely` | `AssertionFailsOnlyAfter` |

**Executor.** No invariant is inductive alone. `WakersHaveTasks` survives
`TaskDone` because the assertion compares the count with one and
`RefsCountClones` turns that into "no clone is left". `RefsCountClones`
survives the drop of a clone because a clone implies a live task
(`WakersHaveTasks`), whose count is then at least two; the same facts exclude
the panics of `NoDanglingUse`. `QueueIsAwake` needs that a waker in reach
belongs to a live task, which for the waker of the poll in progress is
`PolledTaskStays`, and it in turn needs `QueueIsAwake` when a task is picked.
`NeverParksWithWork` needs `QueueDrained`: `run` goes on behind `process_next`
only with an empty queue.

**Run inside run.** `ReInv` says that the innermost call finds everything as a
single call would (`Inv`) until something is lost. A step of `Executor` keeps
`Inv` by the lemmas above; an inner call starts with no task picked, which `Inv`
allows, and returns with the slab empty: then the outer call has lost its task
or was in `park()`. Which tasks can be lost needs `PolledTwiceIsAgain`: the only
task the innermost call removes is the one it polls, and if an outer call is at
it too, it was picked a second time. `MaxDepth` is any value there.

**Lists.** `LinksRepresentQueues` describes the links of each queue; that an
operation on one list leaves the links of the others alone needs `OnePlace`: no
key is in two lists or twice in one, which the callers' contract maintains.
`InsertLinks` and its companions say what an operation does to each single
link; `InsertAtElements`, `RemoveAtElements` and so on (`DataLemmas`) say the
same of the sequences, and the two are matched position by position. `concat`
joins two queues at one pair of links. The refinement follows action by action.

**Spawners.** `SetMeansHome` breaks at the drop of an executor unless that
executor still remembers the spawner it must reset (`HomeRemembers`); who else
remembers it has shared it (`OthersShare`). A spawner's home has been created
(`NothingUnborn`), so that a new executor is nobody's home.

**Reactor.** `PendingIsArmedOrWoken` speaks of the future polled last. For a
stream that must be the only one (`StreamsBorrowedOnce`, `StreamsLastPolled`),
since the properties promise every future of a stream its wake-up; between
`bind_waker` and the attempt the bound waker is that of the poll
(`PolledIsBound`), and the history field points to a live future
(`LastIsLive`). `PollWakesAll` needs `PollReachesAll`: at each moment of
`FakeReactor::poll`, an object is done or its event is still to come, under the
key it has now.

**Wakers.** Only the owner has an update in progress, and what it loaded is
still the count; the count including that update is one plus the clones. Where
another thread consumes a checked waker the first of these fails, which is the
finding above: the hypothesis of `CountsStayExact` is needed.

**Manual server.** `ItemsMatchConns` is an equality of sets of pairs and a
cardinality; it is proved as three facts about single items (`ConnItems`,
`ListenerItem`, `ItemsHaveOwners`) and the count (`ItemsCounted`), together
with what `pc` says of the locals of `run`.

**Async servers.** The modules `ExecutorProofs` and `ReactorProofs` are
instantiated, and their invariants are conjuncts of `Inv`: `StepsOfExecutor`
and `StepsOfReactor` show that each action of a server is an action of either
module or leaves it alone. What has to be added is how the two hang together
(`OwnInv`): there is one future per task, and what it owns and awaits at each
point (`FutsInShape`); each object has one owner (`OneOwner`); a registration
holds its owner's waker or none (`WakersInPlace`), and this is the only clone
(`CloneIsBound`), which makes the count one when a task ends; a task that is
not polled is queued or armed (`OthersWait`). For the capacities, `RoomForAll`
counts: next to the listen task there are at most as many connections as it has
spawned, so a slot is left while it has one to spawn; and when a listener or a
stream is made every future owns at most one object, so that the registration
slab has room as well (`RoomForObject`, by an injection of objects into tasks).
`PollStep` proves what all steps of a polled future share.

**The call counts.** `RunsAreClean` says of a run that is over what its six
counters are; the invariant that carries it there, `Acc`, says it of a run in
progress. The calls since the last whole run (`CallsSince` of `DataLemmas`) are
counted by how far each connection is: registrations from the connections
accepted, reads and writes from those in each phase and from those blocked
there, `unregister` from those that are gone. One sum cannot be taken from the
connections alone: the polls, since one poll serves everyone. For that, every
connection is dated: `Birth` is the number of polls made when it was accepted,
that is all polls so far but the one between its two reads and the one between
its two writes. One connection is accepted behind each poll, so the last one is
born with number `Conns`, and two polls later it is gone. This is only true
because nobody sleeps through a poll: in the manual server a connection whose
call has not blocked is in `needs_process`, and a blocked one has an event to
come (`NobodyForgotten`); in the async servers `run` parks when every task is
asleep and armed (`ParksAsleep`, `OthersWait`), and what a poll has made ready
is called again before the next one (`Due`). The lemmas on how one step moves
one connection from a phase to the next (`MovedElement`, `JoinOrLeave`) keep
the counts.

**The abstract server.** A connection is accepted when it gets its slot in
`conns` (manual) or its task is spawned (async), its request received when
`read` is done, its response given when `write` is done; a new run is
`Restart`. Accepted,
received and responded are cardinalities of the phases, so the same lemmas give
each step; that `Restart` finds everyone served is part of `Acc`, and for the
async servers also needs that `run` is entered only behind the spawn of the
listen task (`IdleListens`).

**Teardown.** `TearInv` is the servers' invariant while the stage is `live`. A
fault breaks that invariant for good: a registration without a handle is left
by an interrupted `register`, an item without one by `unregister`. What survives
is `OwnersOnly`: every handle has one owner and its own key and index, the
half-made registration has no waker, and there is no stray item unless
`unregister` was interrupted. From it `DropFuturesKeeps` shows that dropping
any set of futures keeps the rest in order, and `DropWakersCounts` that each
count falls by exactly the number of wakers dropped (`CountsAgree`), in
particular that the assertion of `EmbedWaker::drop` holds at each of them: a
bound waker is a clone, so the count is above the number of those dropped.
`StageFits` says which futures can be left at each
stage: with `BoxExecutor` none, with `BoxRcExecutor` none unless the listen
task is alive. Without a future there is no handle, hence no waker, so that
nothing dangles when the reactor goes. `ReturnsClean` starts from
`RunsAreClean`: a function that returns finds the slabs empty.
`LeaksUntilAllAccepted` says nothing of tasks: only which call failed and how
many calls of `accept` were made. It takes the servers' accounting (`Acc`) to
turn that into whether the listen task is asleep (`ListenBehindFault`): its
calls are `register` and `accept`, and `unregister` of the listener behind the
last accept; a fault in any other call is in a connection or in `park`, and
there the listen task is left exactly if not all of the run's accepts, two per
connection, are done. `ListenLeft` carries it through the
unwinding to the forgotten futures, and these to the pipe.

Only model-checked: liveness (`WokenIsPolled`, `ParksUnlessWoken`,
`Termination`, and the fairness in `ImplementsScheduler` and `ImplementsServer`,
whose safety halves are theorems), which the proof system does not handle.

## 5. Not modelled

- `run()` called again inside `run()` is not a behaviour of `Executor`, hence
  not of the theorems on `Safety` of that module nor of the runs `executor` and
  `executor_live`: user code there may spawn, clone, wake and drop, not run. It
  is one of `Reentry`, where `PolledTaskValid` and `ReInvHolds` say what is left
  of these properties; liveness with nested calls is not considered. The
  servers never do it.
- Continuing to use an executor, a reactor or a server behind a caught panic,
  in particular a task of `ArgExecutor` whose spawn callback panicked.
- A second fault while the first one unwinds; faults in `RunManual`, which owns
  no destructor but that of `Poll`.
- A spawn callback of `ArgExecutor` that itself spawns or wakes (it runs under
  `data.borrow_mut()`); no callback in the repository does.
- Bytes, buffers and partial reads or writes: the fake streams have none.
- The benchmark harness, `main.rs`, `compare.py`, printing: no state of their own.

## 6. Plan

The modules, runs and proofs planned for this development are done: every
invariant and action property that a run checks is a theorem, as is the safety
part of every refinement. What could come next is outside the present code: a
waker that keeps `ArgExecutor`'s tasks alive or a teardown that drops them would
turn `NoUseAfterFree` into an unconditional property, and a second fault during
unwinding is a further stage of `Teardown`.
