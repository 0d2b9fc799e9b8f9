# Verification of osc_data_process

`src/osc_data_process/` is a data source (the *factory*) that produces numbered
data a thousand times a second on a thread of its own, and *hosts* that observe
it from other threads. It is built on a vendored copy of Chromium's `base`
library (`src/base/`), whose threads, message loops, task runners, weak pointers,
locks and observer lists carry the whole protocol. This directory holds TLA+
models of the program and of the concurrent parts of `base`, TLC configurations
that check them on small instances, and TLAPS proofs of theorems about them.

Line numbers below are those of the files under `src/`. `PROJECT.json` lists
every run, the definition each property and theorem is, and for every
definition of the models the source lines it stands for.

## 1. The system

The program:

| component | state | operations |
|---|---|---|
| **Factory** (`factory.{h,cc}`) | `g_factory`, `start_`, the static `id`, `data_`, `observer_list_`, `weak_factory_`; its `Schedule` tasks in the delayed queue of its thread | the constructor, `Start`, `Stop`, `Schedule`, `Produce`, `Destroy`, `AddObserver`, `RemoveObserver`, `GetLastData` |
| **ObserverCrossThread** (`observer_cross_thread.{h,cc}`) | `stub_`, `init_`, `destroy_`, the raw pointers `task_thread_` and `host_thread_`, its reference count | `Init`, `PostInit`, `ReplyInit`, `Destroy`, `PostDestroy`, `ReplyDestroy`, `Stub::Destroy`, the destructor |
| **FactoryHost, FactoryStub** (`factory_host.{h,cc}`) | `data_` and three counters; the stub's `factory_` and `observer_` | `CreateStub`, the stub's `OnDataProduced` and `OnFactoryDestroy`, the host's `OnDataProduced`, `OnFactoryDestory`, `OnDestroy` |
| **FreqFactoryHost** (`freq_factory_host.{h,cc}`) | `freq_`, `last_notify_time_` | a stub that lets data pass at `freq_` Hz |
| **main, unit test** (`main.cc`, `factory_host_unittest.cc`) | the client's `scoped_refptr`, two message loops | create, start, stop and destroy the factory; create, destroy and release hosts; quit and delete the loops |

The library below it (`src/base/`):

| component | state | operations |
|---|---|---|
| **MessageLoop, RunLoop, MessagePumpDefault, MessageLoopProxy** | four queues, the pump's flag, event and time, the stack of run loops, the proxy's pointer and lock, the lease of the high-resolution timer | post, run, nest, quit, sleep, wake up, delete |
| **MessagePumpForUI** (Windows) | `have_work_`, one kMsgHaveWork in the system's queue of messages | schedule, run, nest, serve a modal loop |
| **Thread** | `started_`, `stopping_`, `message_loop_`, the startup event, the loop on the new thread's stack | `Start`, `StopSoon`, `Stop`, restart |
| **PostTaskAndReplyRelay** | two closures, the origin's task runner | call, run, reply, self-destruct, leak |
| **SequencedWorkerPool** | pending tasks, sequences in use, workers, three condition variables, counters for the shutdown | post, flush, shut down, work, release |
| **WorkerPool** (POSIX) | pending tasks, idle threads | post, wait with a timeout, terminate |
| **Timer** | `desired_run_time_`, `scheduled_run_time_`, the scheduled task that points back | start, stop, reset, delete, fire |
| **ObserverList, ObserverListThreadSafe** | slots, depth and iterators; a context per loop | add, remove, notify from within callbacks and across threads |
| **WeakPtr, CancelableCallback** | a flag with its thread, references to it | get, copy, drop, invalidate, cancel, reset |
| **Condition variable** (Windows XP), **WaitableEvent** and its **Watcher** (POSIX) | events waiting and recycled; waiters per event; flag, kernel and callback task | wait, time out, signal, broadcast; wait for many; watch, stop |
| **AtExitManager, LazyInstance, Singleton** | an atomic pointer per instance, the stack of callbacks | get, publish, register, run at exit |
| **Watchdog** | its state and start time, globals that excuse a stopped debugger | arm, disarm, alarm, clean up, delete |
| **ThreadLocalStorage**, **TimeTicks** (Windows) | a native key, tables of slots; the last tick seen and the roll overs | initialize, set, free, exit of a thread; now |
| the rest of `base` | | section 7 |

**How they interact.** Everything of the factory happens in tasks on one thread.
`Schedule` posts itself back as a delayed task bound to a weak pointer and then
calls `Produce`, which calls every stub in the observer list. A host lives on a
thread of its own. `Init` sends `PostInit` to the factory's thread through a
`PostTaskAndReply` relay; `PostInit` makes the stub, which writes the last data
into the host (across threads, without a lock) and joins the observer list; the
relay then sends `ReplyInit` back. From then on the stub forwards what it is told
as tasks to the host's thread. There are two ways to end: the client's `Destroy`
(relay, `PostDestroy`, `ReplyDestroy`) and `Factory::Destroy`, whose notification
makes each stub leave the list, post `OnFactoryDestory`, delete itself by a direct
call of `PostDestroy` and post `ReplyDestroy`. References held by the client, by the
stub, by bound closures and by leaked relays decide when a host is deleted, on
whichever thread drops the last one.

In `base`, threads meet in four ways: tasks through a loop's incoming queue (a
lock, then a signal of the pump outside it); condition variables and events;
atomic words (`have_work_`, the instance of a singleton, the native key); and
objects of one thread that another may only copy or release (weak pointers,
reference counts, contexts of observer lists).

**What is hard.** Nothing in `osc_data_process` takes a lock: it is correct only
if the FIFO order of two queues, and which task runs on which thread, make it so.
Three routes lead to a host (stub, relay, `Stub::Destroy`), two endings may cross,
the factory may come and go between a call and the task that serves it, either
loop may quit or be deleted with tasks in its queue, the `Schedule` chain survives
`Stop`, and the limiter reads a clock that can be set. Below that the library has
the classical hazards: lost wakeups, wakeups handed on from one waiter to the
next, time-outs that race a late signal, posts that race with deletion, shutdown
that races with the creation of threads, nested loops that share one flag, lists
that change under an iterator, addresses that are used again, and counters that
wrap around.

**What makes each component correct.**
- Factory: while started it always has a `Schedule` task to come; after `Stop` and
  after `Destroy` the tasks drain without producing and without touching the
  deleted object; it keeps its rate.
- Hosts: callbacks only between `OnInit` and `OnDestroy`; data in order, none lost;
  stubs and observer list agree; the unlocked write of `data_` meets nobody; every
  `Init` and `Destroy` is answered, once; every host is freed.
- Limiter: neither more nor fewer data than `freq_` allows; never silent for long.
- Message loop: it behaves as a FIFO queue of tasks; no wakeup is lost; no post
  reaches a deleted loop; non-nestable tasks run alone; a run loop that was
  told to quit starts nothing more. UI pump: it does not sleep on work unless the
  system's queue was full, a modal loop began without its message, or a handler of a
  sent message runs while that message is being replaced.
- Relay: closures are deleted on the thread that made them; replies come in the
  order of the calls, and come.
- Pools: tasks of a sequence run one at a time and in order; each shutdown behavior is
  kept; no more threads than allowed; everything that waits is woken.
- Lists: a notification calls exactly the observers it owes a call, once,
  whatever its callbacks, or other threads, do to the list.
- Timer: it fires when it should, once, and never after it was stopped or deleted.
- Events: a signal of an auto-reset event is taken by exactly one waiter or stays.
- Instances: made once, used after what they use, destroyed once.

`PROJECT.json` lists the hazards, each with its line and the properties aimed at it.

## 2. The modules

| module | what it models |
|---|---|
| `Factory` | the factory alone. The delayed queue is two counters, `pending` (`Schedule` tasks with a valid weak pointer) and `stale` (invalidated); any of them may run next, so every timing of `Start`, `Stop` and `Destroy` is covered. A notification is an enter and a leave step. |
| `FactoryTimed` | the same with due times, a loop that runs late and a `Produce` that takes time. It **implements** `Factory` (`pending <- Len(due)`, `stale <- Len(stale)`). |
| `FreqFactoryHost` | EXTENDS `FactoryTimed`: the limiter, its wall clock and the adjustments of it. |
| `FactoryHosts` | EXTENDS `Factory`: hosts, stubs, clients, one FIFO queue per thread, loops that quit and are deleted. One action per task and callback; a notification calls the observers one by one in any order (`todo`). |
| `TaskQueue`, `MessageLoop` | the abstract FIFO queue; the loop, pump, run loops and proxy, whose immediate nestable tasks **implement** it. |
| `TimerLease` | the expiration of the high-resolution timer that a loop's posts set and clear, partly without a common lock. |
| `WinMessagePump` | `have_work_` and kMsgHaveWork between posting threads, `DoRunLoop`, nested run loops and modal loops of the system, with `os_modal_loop` or without; posted messages, and sent ones, which PeekMessage dispatches before it returns; the frames of the loop's thread are a stack. |
| `BaseThread` | `Thread`: the owner's calls and the new thread's `ThreadMain`. |
| `PostTaskAndReply` | relays between loops that may be deleted at any time. |
| `SequencedTasks`, `SequencedWorkerPool` | what the header promises of sequences and shutdown behaviors; the pool with its lock, workers, condition variables and references, which **implements** it. |
| `PosixDynamicThreadPool` | the worker pool of POSIX. |
| `Timer` | a timer, its scheduled tasks and a task runner that may end. |
| `Selection` | the elements of a sequence that are not holes, in their order, defined by cardinalities so that the prover can reason about them. |
| `ObserverSet`, `ObserverList` | the abstract set with its owed calls; the list with its empty slots, nested iterators and compaction, which **implements** it. |
| `ObserverListThreadSafe` | the list of lists: contexts, queued notifications, addresses that are used again. |
| `WeakPtr` | the flag behind weak pointers, and the cancelable callback built on it. |
| `WinXPCondVar`, `WaitableEvent`, `WaitableEventWatcher` | the condition variable with its recycled events; events with waiters and locks; the watcher over them. |
| `AtExit`, `Watchdog`, `WinThreadLocal`, `WinTicks` | as their names say. |
| `MCFactory`, `MCFactoryHosts`, `MCSequencedWorkerPool`, `MCWinMessagePump` | small instances of one module. |
| `MCClocks`, `MCLibrary`, `MCThreads`, `MCWaiting` | small instances of several modules at once: the initial state picks a `part`, which alone takes steps; so a run over ten modules is ten runs that share their question. |
| `FactoryHostsProofs`, `HostOrderProofs`, `FactoryClockProofs`, `MessageLoopProofs`, `LibraryProofs`, `ObserverListProofs`, `WindowsProofs`, `SequencedWorkerPoolProofs` | theorems (section 5). |

`FactoryHosts` uses the layers below by what their own modules show: the queue
of a thread is `TaskQueue`'s sequence, `todo` is the innermost owed set of
`ObserverSet`, a relay is a pair of tasks tagged in `RelayOps`, because
`PostTaskAndReply` shows that those are leaked where others are deleted, and a
`Schedule` task is valid or stale, which is what `WeakPtr` promises.
`todo` is simpler than `ObserverSet` as no callback of the program adds an
observer or starts a nested notification.

**Conventions.** Names follow the source. A definition introduced as *"the bug of …"*
is a plausible defect of the definition below it; it is used by no specification and
serves to show that a property can fail. DCHECKs are modelled as in a release build,
where a failing one changes nothing: `FactoryHosts` collects the failures in
`dcheck`, and a debug build runs the prefix up to the first. Undefined behaviour ends a
behaviour (`crashed`). A critical section that calls nothing outside itself is one step.
History variables are named as such. A cap on a counter is a
guard with a constant named `Max…`.

### Correspondence of state

- `Factory`: `factory` is `g_factory` together with where its thread is (`none`,
  `idle` between tasks, `notify` and `destroy` inside the two notification loops);
  `start_`, `id`, `data_` as in the source, `data_` being the data's id.
- `FactoryHosts`: `queue[t]` and `loop[t]` are thread `t`'s message loop; `observers`
  is `Factory::observer_list_`; `stub_`, `init_`, `destroy_` are the members;
  `handle` is the client's `scoped_refptr`; `alive` is the object's existence,
  recomputed from `Held` at the end of each step that may drop a reference
  (`ReleaseRefs`, which is also where the destructor's DCHECK is evaluated);
  `receive_`, `destroyTime`, `factoryDestroy`, `hostData` are `FactoryHost`'s members.
  `Init` and `Destroy` are called at most once and only while their DCHECKs
  (`observer_cross_thread.cc:22`, `42`) hold, which is what the messages ask of a client.
- `MessageLoop`: the four queues hold indexes into `tasks`, the history of posts;
  `poster[p]` is where another thread is between the push (under the queue's lock)
  and the signal of the pump; `run_loops` is the stack of `RunLoop` objects, each
  with the program counter of its pump's `Run` (`work`, `delayed`, `idle`, `wait`,
  `task`). A call that locks the proxy excludes the others and the destructor.
- `WinMessagePump`: the frames of `stack` are calls, innermost last. A `DoRunLoop` is at
  `peek` before `GetQueueStatus`, `peeking` in PeekMessage, `peeked` once PeekMessage has dispatched a
  sent message, `work` in `DoWork`, `wait` in `WaitForWork`.
  `ProcessPumpReplacementMessage` is at `replace` and `replaced` in its PeekMessage, before and after
  a sent message, then at `reset` and `dispatch`; `HandleWorkMessage` at `handle` and `ran`. `modal`,
  `window` and `task` are a loop of the system, a handler of a message and a task.
- `PostTaskAndReply`: each relay serves one call; `running[th]` is the
  relay in whose `Run` or `RunReplyAndSelfDestruct` a thread is; `task_gone` and
  `reply_gone` record the thread on which a closure was deleted.
- `SequencedWorkerPool`: the tasks are indexes into the history `tasks`; `worker[w]` is where
  `ThreadLoop` is, its task and its `delete_these_outside_lock`; `duty` is what a thread
  still owes after it left the lock (a signal, a thread to start). A worker in `look` or
  `drop` holds `lock_` from step to step; every other critical section is one step.
- `ObserverList`: `observers_` is a sequence with `NULL` for an emptied slot;
  the iterators on the stack have their index and `max_index_`.
- The others keep the source's members by name; program counters are records with a field `at`.

## 3. The runs

| run | bounds | question |
|---|---|---|
| `hosts` | a FactoryHost on the main thread, a FreqFactoryHost on the factory's own; 2 data, 1 chain; both loops may quit | the protocol against every schedule, with factories destroyed and created again; what a shutdown frees and leaks |
| `hosts_live` | 1 host, no loop quits, fair | `Init` and `Destroy` are answered, the host is freed, the DCHECKs that scheduling must not break hold |
| `clocks` | loop: 2 posters, 3 tasks, 3 run loops, 1 tick of delay. host: period 2, delta 3, loop late by 1, `Produce` up to 2, 2 chains, 4 data, 1 adjustment of the clock each way, 7 ticks | the loop's safety and that it implements `TaskQueue`; the due times implement `Factory`, no period is missed; the limiter's promises |
| `library` | pool: 2 workers, 3 tasks (2 while both clients have the pool), 1 token, 2 clients; 3 relays; 2 watchers of 2 events, 3 watches; 2 list threads, 2 observers, 2 addresses; list: 3 observers, 5 slots, 3 nested notifications; UI queue of 2, 2 tasks, 2 messages, posted or sent, 4 frames; 3 flags; roll over at 3, 3 threads; 5 ticks of lease; 3 slots, 2 iterations, 3 values | the safety of ten parts of `base` |
| `threads` | pool: 2 workers, 2 tasks, 1 token; 2 relays; 3 instances, 2 threads; 5 pool tasks; 3 thread tasks; 3 `Schedule` tasks, 4 data; 2 watchdogs; fair | in seven parts, does what threads wait for come? |
| `waiting` | loop: 2 posters, 2 tasks, 1 tick of delay; timer: delays 0 to 2, 3 tasks; 2 consumers, 2 producers, 2 items; 2 waiting threads, 1 signalling, 2 events of which one is manual; fair | in four parts, is no wakeup lost, though waits time out? |
| `factory_chains` | 2 chains | **violated**: `Stop`, `Start` leaves two chains |
| `hosts_cross`, `hosts_no_factory`, `hosts_dtor` | 1 host | **violated**: three DCHECKs |
| `pool_drop` | 2 workers, 2 tasks, destructors that post | **violated**: a task deleted under the pool's lock |
| `modal_loop` | 1 poster, 2 tasks, 2 messages, 4 frames | **violated**: a modal loop without tasks |

Section 6 explains the six violated properties.

**Parts.** The modules of `clocks`, `library`, `threads` and `waiting` share no
variable. The initial state picks a part; `Next` lets that one take steps and leaves the
variables of the others at their initial values. So the behaviours of the run are
those of each part alone, side by side and not multiplied, and every property is
checked over all behaviours of the part it speaks of (and, trivially, over the
others, where its variables stand still).

**Why the bounds are enough.** *Program.* Two chains of `Schedule` tasks suffice for every
effect of more than one, and three let a stale one of a former factory stand beside
them. Two data tell "lost", "repeated" and "out of order" apart. A host's protocol
touches another host only through the queues and the observer list, so two hosts show
every interaction; one on the factory's own thread makes relays, replies and data share
a queue, one on another thread makes them race; the theorems about `FactoryHosts` hold
for any number of hosts anywhere. With one chain a `Schedule` task is never double
there: the chains are the business of `threads` and `clocks`. `Delta = 3` against
`Period = 2` is the case of a limiter whose period is no multiple of the factory's, and
`Produce` may take a whole period. *Loops.* The pump's event, the first-post rule and the
reload need two posts under way and one that is late: two posters and three tasks; the
third run loop is needed for a quit that has to reach over a nested loop. Three relays
give two in the same direction and one against it, a call of a thread to itself
included. A UI queue of two messages is full while a have-work message or two others are
in it; four frames hold a run loop, the replacement it calls, a handler called there and a
loop that the handler opens, which is the shortest stack that sleeps on tasks. *Lists.* Three nested notifications have an outer, a middle and an inner iterator, and
five slots leave room for removed observers that come back. Two addresses are the fewest
that can be free in turn and used again. *Pools.* Two workers are a bound that three tasks
reach; two tasks of a token and one without make a worker skip, drop and hand on; five
tasks of the dynamic pool leave more tasks than threads that were woken. *Events.* Two waiters
and two events let two `WaitMany` lock in either order, an event fire a waiter that
another fires too, and a timeout race with both; a third waiter would only queue. Two
consumers let a recycled event be another thread's next one. *Counters.* A roll over at 3 with
three threads has a reader that sleeps through a whole one.

`CHECK_DEADLOCK FALSE` is set throughout: factories stop, loops, pools and lists are
deleted, clocks and counters reach their bounds, and the program really may have
nothing left to do. That nothing is stuck where it should not be is said by the
liveness properties instead.

**Fairness.** It is stated per module, in the definition `…Fairness`.
- `FactoryFairness`: weak, of the factory's own tasks, as a loop keeps running what is due.
- `FactoryHosts!FairSpec`: strong, of each host's tasks on each side. The queue is
  FIFO, so a task may wait behind others (its action is disabled while another is at the
  head) but not for ever; weak fairness would not express that, as client tasks and
  timers disable it again and again. Clients, quitting and clock adjustments have none.
- `LoopFairness`: weak, of the pump's step, of the end of a task, of a post under
  way and of the clock; its strongest assumption is that tasks return.
- `RelayFairness`: weak, of each loop that has something to run; none of deletion.
- `PoolFairness`: weak for what a thread does once it runs, strong for taking the
  pool's lock, which another thread may hold now and again but never keeps. Posting,
  flushing and shutting down are free.
- `CondFairness`, `EventFairness`: strong for taking a lock, weak for waking up after a
  signal or timeout; nobody has to signal.
- `DynamicFairness`: weak for threads that wait or were woken; **tasks need not
  return**, which is why every one must find a thread.
- `TimerFairness`, `ThreadFairness`, `ExitFairness`, `WatchdogFairness`: weak, of the
  task runner, the new thread, each thread that makes an instance, and the watchdog's
  thread; the clock goes on. The owners' calls are free.

Nothing that is fair in one part is enabled in the initial state of the others.

## 4. What the properties say

Several questions about one component are one property, a conjunction of named
parts. Each property has a mutant in `PROJECT.json`: a plausible bug of the code under
which it fails.

*Factory.* `FactorySafe`: a started factory has a valid `Schedule` task pending (`NeverStalls`),
and none survives the factory (`NoScheduleAfterDelete`). `FactoryLive`: it produces again and
again (`KeepsProducing`); a stopped one goes quiet (`StopDrains`). `KeepsPeriod`: however long
`Produce` takes, within `ProduceTime <= Period + Late`, a started factory produces in every
period plus delay. `SpeedLimit`: at
most one data per chain and period.

*Hosts.* `StubsMatchFactory`: the observer list is exactly the set of live stubs, so neither a
stub's `factory_` nor an entry of the list dangles. `InitTouchesHostAlone`: the comment
at `factory_host.cc:48` ("so cross thread set data may fine") is right: as long as
`PostInit` is to come, no other task of this host exists anywhere.
`CallbacksWhileInitialised`, `DataInOrder`, `NoLostData`: what the host sees. `HostsEndWell`:
`OnDestroy` once unless the two endings cross; after a shutdown in main's order, what is left is
exactly what relays leaked, and that is only hosts whose call was unanswered.
`HostsAnswered`: `Init` and `Destroy` complete and the host is freed, also when the two endings
cross, and all DCHECKs but the three of section 6 hold for clients that keep the rules.

*Limiter.* `KeepsRate`: not too many data, not too few, not too late, each with the exact
allowance for a wall clock that was set forward or back.

*Message loop.* `LoopSafe`: a sleeping pump has been or is being signalled for whatever is in
the incoming queue and will time out for its first delayed task (`NeverOversleeps`), and the lock of the
proxy is held long enough (`PostsReachLiveLoop`). `StartsRight`: non-nestable tasks run alone, and
tasks start in order. `QuitEndsWork`, `ImplementsTaskQueue`, `PostedTasksStart`: a loop
that was told to quit starts no more; immediate nestable tasks are a FIFO queue; posted
tasks start. `LeaseIsPaired`: the timer's high resolution is given back once, as long as no
two posts of the loop overlap (section 6).

*UI pump.* `PumpSound`: `have_work_` stands for a message in the queue, one about to be there or
one being replaced, and a pump that sleeps has no task, unless a post failed or, until it
returns, a handler of a sent message runs inside the peek for the replacement (`Replacing`). The
second exception is needed: without it TLC finds a nested run loop that sleeps on tasks
(section 6). `SubPumpServesTasks` is the header's own statement about modal loops, which the
code violates.

*Relay.* `DeletedAtOrigin`, `RelaySound` (order, leaks), `CallsAreAnswered`.

*Pools.* `PoolSafe`: every counter is what it counts, tasks of a sequence are deleted in
turn, and nobody is inside a pool that is deleted. `ImplementsSequencedTasks`: the header's
promises about order and shutdown. `PoolLive`: tasks settle, `Shutdown` and
`FlushForTesting` return, the pool is deleted. `EveryTaskBegins`: the dynamic pool
finds a thread for each task though no task returns.

*Lists.* `ImplementsObserverSet`: a notification makes the calls it owes. `SharedListSound`: contexts are
owned by one thread, and every observer is where the next `Notify` reaches it.

*Timer, thread.* `TimerSound`: never early, never after `Stop`, and once started it comes; exactly the scheduled
task points back. `ThreadSound`: the owner's unlocked use of `message_loop_` is safe, `Stop`
runs every task posted before it, `Start` and `Stop` return.

*Events.* `CondVarSound`: no event of the lists is leaked or shared, no consumer sleeps with an item for it.
`EventsSound`: signals are conserved, every call returns. `WatchesSound`: a
delegate is called once, for a watch that was not stopped.

*Pointers, instances, the rest.* `PtrSound`: a valid pointer points to a live object, flags
are invalidated on their thread, a forwarder calls what it was made for. `InstancesSound`:
instances are made before what uses them, destroyed once, and every `get` returns.
`WatchdogSound`: one alarm per `Arm`, a due one is raised, the destructor returns.
`TlsSound`: one native key, values destroyed once and none left. `TicksSound`: the ticks never go back.

## 5. What is proved

The proofs assume only the named assumptions on constants (natural bounds, a
positive period, hosts placed on threads, `ProduceTime <= Period + Late`, instances that
use instances). They hold for every value of the constants, the bounds included. Every
safety invariant the passing runs check is a theorem; so are most of
their action properties and refinements, and the safety half of the properties that
join safety and liveness. Each proof has the same shape: an inductive invariant,
checked by TLC before it was proved, one lemma or step per action, and the
property from the invariant. What follows says what each invariant adds, and why.

**The program.**

- **`Factory`** (`FactoryHostsProofs`): `FactoryTyped`, `FactoryNeverStalls`,
  `FactoryNoScheduleAfterDelete`, joined by `FactoryIsSafe`. Each is inductive once the
  types and the phase of the factory are known: a `Stop` leaves the chain, a `Start` adds one,
  and only a `Schedule` that is stopped ends one.
- **`FactoryHosts`, structure** (`FactoryHostsProofs`): `Typed`. `StubsMatch`, with `StubInv`:
  nobody is left to call outside a notification, and `NotifyDestroy` has exactly the
  observers left to call that are still in the list. `InitAlone`:
  `InitTouchesHostAlone` is not inductive, since it must be known *why* no other task can
  appear; `AloneInv` adds that a host whose client has not called `Init` occurs in no queue and has
  no stub, that `PostInit` occurs once, and that a host with `PostInit` queued has neither
  stub nor flags.
- **`FactoryHosts`, order** (`HostOrderProofs`). What a host sees follows from the order of the
  tasks for it in *one* queue, so the central invariant `OrderInv` says what the host's tasks
  look like from head to tail: `ReplyInit` before any callback, callbacks before the answer
  of a `Destroy`, data with rising ids, none beyond what its stub has been offered. It needs
  `PlacedInv` (which task may be in which queue), `CalledInv` (an answer has a
  call), `FreshInv` (a host that has no stub yet has no history) and `DeletedInv`. From
  it `CallbacksInTime` and `DataArrivesInOrder`; with `LossInv`, which counts data
  sent, queued and received, `NoDataIsLost`; with `OnceInv`, `LeakInv`, `AliveInv` (an object lives
  exactly as long as somebody holds it) and `AnsweredInv`, `ProtocolEndsWell` and `DchecksHold`.
- **`FactoryTimed`** (`FactoryClockProofs`): `TimedTyped`; `TimedImplements`, every timed step is a
  step of `Factory` or a stutter under the refinement mapping; `TimedKeepsPeriod`, by
  `PeriodInv`: while started there is a due time no later than `produced + Period`, and the clock
  cannot pass a due time by more than `Late`; `TimedSpeedLimit`, by `SpeedInv`: the data made are
  at most one per chain and period begun, and the tasks not yet due leave room for themselves.
- **`FreqFactoryHost`** (`FactoryClockProofs`): `HostRateLimited`, `HostKeepsFreq`,
  `HostNeverSilent`, joined by `HostKeepsRate`, all from `LimiterInv`: `last_notify_time_` is
  `first + (count - 1) * Delta`, and the wall clock differs from the ticks by the adjustments alone.

**The library.**

- **`MessageLoop`** (`MessageLoopProofs`). `LoopStaysSafe` and `QuitEndsAllWork` by
  `RunInv`: which run loops run a task (`TasksInv`), who may still push to a loop that is
  being deleted (`ProxyInv`), what the pump has seen of its queues in each phase before it sleeps and
  which event or poster makes up for the rest (`WakeInv`), where a loop can be that was told to
  quit (`QuitInv`). `StartsAreRight` by `LoopInv`, which adds `OrderInv`, the queues
  rise and each holds only tasks posted after those of the one before it, and `KeptInv`,
  no task is lost between them.
- **`Timer`, `BaseThread`** (`MessageLoopProofs`): `TimerIsSafe`, by `NotTooSoon`: the scheduled
  task is due no earlier than what was promised, or the timer's desired time is later than the scheduled one.
  `ThreadIsSafe`, by `PhaseInv`, which of the owner's waits go with which step of
  `ThreadMain`, and `TasksInTurn`, `ThreadQuitHelper` is the last task of a loop told to stop.
- **`WinMessagePump`** (`WindowsProofs`): `PumpIsSound`, by `PumpInv`: which frame of the stack
  calls which, and that one frame at most replaces the have-work message (`StackInv`); the one such
  message there is when `have_work_` is set is queued, about to be posted or given up, or peeked
  (`FlagInv`); at each place where the thread may sleep, work is announced or its loss
  recorded (`WorkInv`). A thread asleep with `have_work_` set and an empty queue therefore
  has a frame that replaces the message, and of these only `replaced` calls a handler.
- **`PostTaskAndReply`** (`LibraryProofs`): `RelayDeletedAtOrigin` by `HomeInv`: wherever a relay
  is, the thread concerned is the target or the origin as that stage requires.
  `RelayIsSound` by `WayInv`, the calls that go out, run and come back between two loops are
  in order *across* the two queues, and `KeptInv`, a relay with two live loops is somewhere.
- **`WeakPtr`** (`LibraryProofs`): `PtrIsSound`, by `PtrInv`, which adds that the flag that `GetRef` is about to
  hand out exists and is its thread's.
- **`PosixDynamicThreadPool`** (`LibraryProofs`): `DynamicPoolIsSafe`, by `ThreadsCounted`:
  `num_idle_threads_` counts the threads that wait or were woken, so a post that finds enough of
  them need not start one.
- **`AtExit`** (`LibraryProofs`): `InstancesAreSafe`, by `ExitInv`: one call makes an instance
  (`OneMaker`); what a constructor has got is made, or is what the call above it is getting
  (`GotOrGetting`); an instance is on the stack of callbacks or a call is about to
  register it (`StackInv`).
- **`SequencedWorkerPool`** (`SequencedWorkerPoolProofs`): `PoolIsSafe` and `PoolImplements`, by
  `PoolInv`: who starts the one thread that is being created (`CreationInv`); one worker at a time
  looks for work (`LockInv`); the counters are cardinalities of sets of workers and tasks
  (`CountInv`); a task is in one place and a sequence has one running (`SequenceInv`); what is dropped
  at shutdown precedes in its sequence what runs and what is pending (`DoomedInv`); and
  only `Main` shuts down (`ClientInv`). Under the refinement mapping `PostTask` is a `Post`,
  `GetWork` a `Proceed` that drops what the shutdown drops and starts the first task it
  found, `Break` a `Proceed` that starts none, `TaskDone` an `End`, and
  `Shutdown` and `WaitForShutdown` are `Close`, `Return` or a stutter.
- **`ObserverList`** (`ObserverListProofs`): `ListImplementsSet`, every step is one of `ObserverSet` or
  a stutter, by `ListInv`: no observer is in two slots, holes exist only during a notification
  (`SlotsKept`), and the slots do not move under an iterator, whose limit is what the type of the list
  makes it (`ItersKept`). It rests on lemmas about `Selection`: the k-th element exists, the order
  is kept, an appended element comes last, compaction does not change the selection.
- **`ObserverListThreadSafe`** (`ObserverListProofs`): `SharedListIsSound`, by `SharedInv`: a context
  exists as long as one thread, and no other, has it (`OneOwner`); a list is not empty, and has holes
  only while it is iterated over (`ListsKept`); a removal under way will leave something on the list,
  or has taken the context out of the map with its only observer (`RemovalsKept`); a context that is
  only iterated over has nothing but holes (`OrphansEmpty`); an observer that was added and not removed
  has one place, in a context of the thread that added it (`PlacesKept`).
- **Windows** (`WindowsProofs`): `TicksAreSound`, by `TicksInv`: the ticks are whole roll overs and the
  last reading, and a reading taken under the lock is less than a roll over ahead.
  `LeaseStaysPaired`, by `LeaseInv`, which accounts each activation to the lease or to a post under
  way. `TlsIsSound`, by `TlsInv`: who holds which native key (`KeysInv`), which slot numbers
  were given out (`NumbersInv`), what a thread's last scan has passed (`ScanInv`), and that a value is in
  one place (`ValuesInv`).

**Found by proving.** In `Timer` the value for "never" was 100, so a user's delay of 100
would have been no promise: now it is no time at all. `AtExit` has to assume that what an
instance uses is an instance. In `WinMessagePump` the proof needs a bound on who replaces the
have-work message, and that is where the exception `Replacing` is: with sent messages in the
model, a pump can sleep with `have_work_` set.

**Only model-checked.**
- Liveness, which is out of the prover's reach: the properties of `hosts_live`, the
  halves of `ThreadSound`, `TimerSound`, `EveryTaskBegins`, `InstancesSound`, `FactoryLive`,
  `PoolLive`, `CallsAreAnswered`, `PostedTasksStart` that say `<>`.
- What is built on `SelectSeq` and `SetToSortSeq`, of which the prover knows nothing and
  which the library defines by recursion: `ImplementsTaskQueue`, `WatchesSound`, `EventsSound`.
- The safety of `WinXPCondVar` and `Watchdog`, not proved yet.

## 6. Disagreements with the source's own statements

1. `factory_chains`: `Stop` leaves its `Schedule` task pending; a `Start` before that
   task fires makes two chains and twice the speed (`factory.cc:33`, against the
   comment at `factory.cc:83`).
2. `hosts_cross`: client's `Destroy` and `Factory::Destroy` cross; `PostDestroy` finds no stub
   (`observer_cross_thread.cc:50`) and `OnDestroy` is called twice.
3. `hosts_no_factory`: the factory is destroyed between `Init` and `PostInit`; `CreateStub`
   dereferences NULL (`factory_host.cc:12`).
4. `hosts_dtor`: the host's loop quits before `ReplyDestroy` reaches it; the destructor's
   DCHECK fails (`observer_cross_thread.cc:62`).
5. `pool_drop`: `GetWork` keeps the tasks dropped at shutdown to delete them outside the
   lock (`sequenced_worker_pool.cc:734-736`); when it finds nothing to run, they die with
   the lock held (line 603), and a destructor that posts to the pool deadlocks.
6. `modal_loop`: a have-work message is said to be posted after every task
   (`message_pump_win.h:103`); `DoRunLoop` does not (`message_pump_win.cc:212`), so a modal loop
   that a task or message opens there may serve no tasks.

Also met, without a run: `Factory::set_speed` is declared (`factory.h:37`) and never
defined; `main.cc` names static functions of `Factory` that no longer exist, so its
calls are read as the ones of the unit test; `freq_factory_host.cc` is in no target of
the gyp file. In `base`, each in the models and allowed for, by name, in the property
beside it:
- a non-nestable task that a nested loop deferred is overtaken by one posted later
  (`message_loop.cc:481`; `sequenced_task_runner.h:68` says FIFO; `StartInOrder`);
- a task that quits its run loop and then runs a nested one ends the nested one too
  (`message_pump_default.cc:62`; `run_loop.h:55`; `QuitEndsWork`);
- a target loop that is deleted with a relay in its queue leaks the relay although its
  origin is alive (`post_task_and_reply_impl.cc:78`; `LeaksOnlyWithDeadLoop`);
- a pump is said to restart when tasks are queued; but `ProcessPumpReplacementMessage` has taken
  kMsgHaveWork and not yet reset `have_work_` when its PeekMessage dispatches a sent message. A handler
  that runs a nested loop there sleeps on the tasks that are posted, as `ScheduleWork` posts no message
  (`message_pump_win.cc:419-429`; `message_pump_win.h:109-111`; `PumpSound`, by `Replacing`);
- posts of a loop to itself and through its proxy overlap in the lease of the high-resolution timer, which
  may stay active or be given back twice (`message_loop.cc:547`; `time.h:316`;
  `LeaseIsPaired`);
- an instance published but not yet registered may be used by one that is registered
  first; at exit its destructor's user makes it again and deadlocks
  (`at_exit.cc:68`; `InstancesSound`);
- `FlushForTesting` of several clients: one signal wakes one of them
  (`sequenced_worker_pool.cc:648`; `CallsReturn`).

## 7. What is not modelled

- *Without state of their own*: `FactoryData` (an id), `Bind` and callbacks (task
  records), the `TaskRunner` interfaces (their promises are the properties above).
- *By contract*: `RefCounted` and `scoped_ptr` (the last release deletes), `Lock` and the
  system's condition variables and events, atomic words as sequentially consistent ones.
- *Left out of a modelled component*: dispatchers, task observers, tasks that post
  while a loop deletes them, delays of the pumps but the
  default one; of the UI pump WM_TIMER, WM_QUIT, painting
  (`PumpOutPendingPaintMessages`), message filters and the workaround for mouse input in
  `WaitForWork` (`message_pump_win.cc:292-310`); a `timeBeginPeriod` that fails
  (`time_win.cc:175-181`), the reading of the hardware clocks and the drift of `Time::Now`, a
  watch started on a loop that is dying, the arguments bound in a
  `CancelableCallback`, a table of thread-local slots that is full (`Initialize` then counts past its end).
- *Beyond a bound*: the overflow of `int` counters (2^31 data or tasks), the hundred rounds after
  which `~MessageLoop` gives up, a `freq_` above 1e6.
- *Outside the callers' rules*: loops deleted in another order than main's (raw
  pointers: undefined behaviour), a client that calls `Init` or `Destroy` twice, a
  second factory beside the first.
- *Not used by the program*: the IO pump and the pumps of other systems, logging, metrics,
  tracing, debug, strings, files, paths, JSON, values, i18n, processes: sequential conversions and
  wrappers of system calls, by far the larger share of the lines under `src/base/`; and gtest,
  gmock and other third-party code.

## 8. Plan

Done, in this order: `Factory` → `FactoryHosts` → proofs → `FactoryTimed` and
`FreqFactoryHost` → `ObserverList` → `MessageLoop` → `PostTaskAndReply` →
`SequencedWorkerPool` → condition variables, events and watchers →
`ObserverListThreadSafe`, `Timer` → `BaseThread`, `PosixDynamicThreadPool` → `AtExit`,
`Watchdog` → `WinMessagePump`, `TimerLease` → `WeakPtr`, `WinTicks`, `WinThreadLocal`.

Proved, in this order: `Factory` and the structure of `FactoryHosts`, `FactoryTimed` and the
limiter, `HostOrderProofs`, `MessageLoop`, `PostTaskAndReply`, `WeakPtr`, the Windows
modules, `SequencedWorkerPool`, the safety of `Timer`, `BaseThread`,
`PosixDynamicThreadPool` and `AtExit`, `ObserverList` and `ObserverListThreadSafe`, and
`WinMessagePump` again with sent messages.

Proofs worth adding next:
1. `WinXPCondVar`: no event of the lists is leaked or shared.
2. `ImplementsTaskQueue`, from the `OrderInv` of `MessageLoop`, with `Selection` for the queue of
   immediate nestable tasks.
3. `WatchesSound` and the safety half of `EventsSound`, with `Selection` for the lists of waiters.
4. `Watchdog`.

Models worth adding: the WM_TIMER of the UI pump; `FactoryHosts` with the notification of
`ObserverSet` in place of `todo`.
