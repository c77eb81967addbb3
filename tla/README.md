# MuditaOS: TLA+ models of the system core

MuditaOS is the C++ operating system of two devices, the Pure phone and the Bell
alarm clock (`products/PurePhone`, `products/BellHybrid`). It runs on FreeRTOS: every
*service* is a thread with a mailbox, services talk over a message bus, and a service
may own timers and a worker task. This directory holds models of that core and of the
services that depend on it most (display, sound, CPU frequency, applications), the TLC
configurations that check them on small instances, and TLAPS proofs about all of them.
`PROJECT.json` maps every definition to the lines it models and lists components,
runs, findings, hazards and theorems.

## 1. Inventory

| Part | State | Operations | Interacts through | What is hard | What makes it correct |
|---|---|---|---|---|---|
| Bus and service loop (`module-sys/Service`: Bus, BusProxy, Service, Message, Mailbox) | registered services, mailboxes, message counters, per-service ready flag | unicast, multicast, broadcast, blocking unicast with timeout, respond, close | mailboxes; a response carries the uniID of its request | a caller pops its own mailbox while it waits; late answers; circular calls; services that close | a call returns its own answer, every call returns, nothing is lost |
| SystemManager (`module-sys/SystemManager`, products' `sys/`) | state, list of services, services still to close, close reason, two timers | close, restore, low battery, ready-to-close, Exit, kill, power-off | bus messages, timers, battery store | services that answer late, twice or never; list edited while it is walked; charger events while waiting | the system always closes; only whitelisted services remain; newest go first |
| Worker (`module-sys/Service/Worker.cpp`) | state, queues and queue set, join semaphore, task | init, run, send, stop, join, kill, deinit | FreeRTOS queues, interrupts | the owner frees what the task uses; join can time out; creation can fail | nothing is freed under the task; close returns; commands before a stop are handled |
| Timers (`SystemTimer`, `TimerHandle`, `ctimer.cpp`) | active flag, FreeRTOS timer, daemon queue | start, restart, stop, destroy, callback | commands to the timer daemon, TimerMessage to the service | the daemon lags behind; messages in flight; addresses reused; queue full | flag and timer agree; a started timer fires |
| Display (`service-gui`, its worker, `service-eink`) | context pool, draw queue, cache, two state machines | draw, colour scheme, render, send, notify, refresh, cancel, release timer | bus, an overwriting signal queue, shared contexts | three threads, cancel against refresh, early release | the last frame is shown; no frame is shown half rendered; the service can close |
| Mailbox and condition variable (`module-os/RTOSWrapper`) | queue, wait list | push, pop with timeout, notify | critical sections | a waiter that timed out stays in the wait list | no lost wake-up |
| CPU governor, sentinels, power manager, logger's sentinel | minimum frequency and WFI per sentinel, algorithm counters, the logger's mutex | hold, release, block WFI, tick, change frequency, ask for a dump | bus, task notification, mutex | a notification after the 100 ms wait; services that end and come again; the logger against a falling frequency | requests reach the governor and are kept to; an idle CPU comes down |
| Dependency graph of services | graph | topological sort | start of the system | cycles | dependencies start first |
| System watchdog | timestamp of the last refresh | refresh, check | bus processing, hardware watchdog | tick wrap-around | a stuck bus resets the device, a live one never does |
| Phone modes | mode, tethering, observers | change, notify | bus | observers that answer late | observers agree with the subject |
| Application manager | stack, state, actions registry, state of each application | action, start, switch, switch back, close, focus | bus, confirmations; a state both threads write | popups during a switch, applications that close late, confirmations that do not say what they confirm | one application in front, no request left over |
| Audio service and streams | ring buffer with peeks, operation state, worker's flag, DMA queue | start, pause, resume, stop, change of profile, push, peek, consume | interrupts, stream events, commands to the worker | the decoder, the interrupt and the service work on one buffer; events at the limit of their queue | data in order, none overwritten while it is sent, playback goes on, calls return |
| Event manager | keys, battery state | forwarding | interrupts, bus | ordering of battery events | the last state is forwarded |
| Cellular, Bluetooth, antenna | state machines around a modem or BTstack | commands, URCs | bus, serial channels | hardware that is outside the repository | |
| Database, settings, desktop, time, file indexer | tables, endpoints, alarms | queries, endpoints | bus, USB, SQLite | mostly sequential | |
| Applications and GUI toolkit | windows and widgets | presentation | bus | sequential | |
| File system, board support, third-party code | | | | vendored or hardware | |

## 2. Modules and how they correspond to the code

| Module | Models | Actions |
|---|---|---|
| `ServiceBus` | Bus.cpp, Service.cpp, Message.cpp, Mailbox.hpp | one per kind of send, one per pop of a blocking call, its timeout, the restoring of what it put aside, one per kind of message handled, start and close of a service |
| `ServiceBusProofs` | theorems about `ServiceBus` | |
| `SystemManager` | SystemManagerCommon.cpp and both products' SystemManager.cpp | one per handler, `DestroyServices` one step per service and answer, `handleShutdown`, the two timers, and what services, charger and keyboard do |
| `SystemManagerProofs` | theorems about `SystemManager` | |
| `Worker` | Worker.cpp | one per call of the owner, one per step of the task, interrupts |
| `WorkerProofs` | theorems about `Worker` | |
| `SystemTimer` | SystemTimer.cpp, TimerHandle.cpp, ctimer.cpp | start, restart, stop, destroy, create, timeout; three steps of the daemon (external, FreeRTOS) |
| `Display` | ServiceGUI.cpp, ContextPool, DrawCommandsQueue, RenderCache, WorkerGUI, ServiceEink.cpp | one per message handled by each service, three steps of the worker, release timer, requests |
| `DisplayProofs` | theorems about `Display` | |
| `Mailbox` | Mailbox.hpp, ccondition_variable.cpp, cthread.cpp (`Wait`) | one per critical section of `push` and `pop` |
| `AbstractMailbox` | what `ServiceBus` takes a mailbox to be | push, start of a pop, return with and without a message |
| `TimerAndMailboxProofs` | theorems about `SystemTimer` and `Mailbox` | |
| `AudioStream` | Stream.cpp | operators on the stream: push, peek, consume, reset, and the events they cause |
| `BlockQueue` | the FIFO AbstractStream.hpp promises | write, read the next, reset |
| `AudioPlayback` | PlaybackOperation.cpp, Endpoint.cpp, DecoderWorker.cpp, StreamQueuedEventsListener.cpp, SAIAudioDevice.cpp | one per call of the service and per wait in it, one per item the worker takes and per push, the end of a transfer |
| `AudioPlaybackProofs` | theorems about `AudioPlayback` | |
| `CpuGovernor` | CpuSentinel.cpp, CpuGovernor.cpp, GovernorSentinelOperations.cpp, PowerManager.cpp, the algorithms in `cpu/`, LogSentinel.cpp, RT1051LPMCommon.cpp, WfiController.cpp | one per call of a sentinel and of the logger, one per message of the manager, one per step of a change of the frequency, the tick, WFI |
| `CpuGovernorProofs` | theorems about `CpuGovernor` | |
| `AppManager` | ApplicationManagerCommon.cpp with the products' variants, ApplicationStack, ActionsRegistry, ApplicationHandle, ApplicationCommon.cpp | one per message of the manager and of an application, one per action the registry looks at, the requests |
| `AppManagerProofs` | theorems about `AppManager` | |
| `MC*` | | the instances TLC checks |

Conventions. A variable has the name of the member it stands for. A thread that waits
in the middle of a handler has a `pc`; a handler that does not wait is one step.
Definitions named `X_Y` with the comment *Planted defect* are wrong variants of `X` used
only to see that a property notices them; they are not part of `Next`.

**ServiceBus.** `mailbox`, `servicesRegistered`, `currentlyProcessing`, `tempMsg` are
those of the code. `req` of a message, `pending`, `call` and `result` are history: they
say which request a message belongs to, what was pushed and not yet consumed, and what
the last blocking call was and returned. `IsAnswer`, by which the bus recognises the
answer, looks at the uniID only, as the code does. A handler may answer with a response
of its own, with the default response, or with nullptr. Pushes and pops of a mailbox are
single steps; the condition variable below is not part of this module.

**SystemManager.** `Created` is the order of creation. `destroy` is the position of the
loop in `DestroyServices`; `inbox`, `thread` and `replied` are the services, which may
answer the close reason and Exit, or not. The manager takes the messages of its
mailbox in order; that a blocking call may put back in another order what it set aside
is the subject of `ServiceBus`.

**Worker.** The mutex around the state is held for one assignment, so `getState` and
`setState` are single steps. Assertions are compiled out of release builds
(`CMakeLists.txt`), therefore a failing one is recorded in `faults` and execution goes
on. What an owner does with a worker whose `init` failed is not followed.

**SystemTimer.** `epoch` numbers the starts of a timer and is history, as is `dropped`,
the timers that lost a command to a full queue. `Restart` sends two starting commands,
since `xTimerChangePeriod` starts a timer as well. The daemon has priority 0, the lowest:
reading the id of a timer and calling its `Run` are two steps.

**Display.** A frame is a value and a context that is being rendered holds `Torn`.
`memory` is what the display controller holds, `screen` what is visible. Every release
timer is a new object, so a stale message of an old one is recognised. The borrowing of
a context by the worker waits in a loop around its predicate, hence one step.

**Mailbox.** `queue_`, `mutex_`, `WaitList`, `ThreadWaitSem` are those of the code. Only the
thread of the service pops, and it pushes to its own mailbox between two pops only (the
bus restores what a blocking call has put aside). A wait that ran out leaves its entry in
`WaitList`; the semaphore it may get later is the spurious wake-up of a later pop.
`AbstractMailbox` has one step for a push and one for the return of a pop. The refinement
mapping takes the queue as it is and forgets where in `pop` the service is, so a message
is in the abstract queue from `push_back` to `pop_front`. `Init`, `Next` and `Spec` are
called `MailboxInit` and so on, so that one module can prove things about timers too.

**AudioStream, BlockQueue, AudioPlayback.** A block is the number of the read from the
file that produced it. `stream` is the ring buffer with `blocksUsed`, `peekCount` and the
positions of writer, reader and peeker, and `Silence` is the content of a block that is
not written yet. The interrupt (`onDataSend`) gives back the block that was sent and
peeks the next, in one step, since it runs in an interrupt that no thread preempts. `dma`
holds for each transfer the position it reads and the block that was there when it was
queued. `items` is the queue set of the worker in order of arrival. The mapping to
`BlockQueue` reads the used blocks from the ring in order.

**CpuGovernor.** The manager's thread handles one message at a time; the change of the
frequency in the course of a handler is a step of its own (`pc`), because the logger's
thread can take the mutex in between. `sentinels` is the governor's list, whose entries are
weak pointers to objects that may be gone (`generation`). `tainted` is history: the task did
not get an answer within 100 ms, so that the answer may come during a later call.

**AppManager.** `object[a].state` is the state of the application, which the manager and the
application itself write. `RunService` and `RequestServiceClose` are blocking calls: the
manager is in `wait` until the application has answered. The registry visits its actions one
by one (`it`), and an action handler may change the registry it is called from. Requests of
every kind come at any time. Most of them wait for one another in the mailbox or in the
registry, but a switch, a step back or a skipped custom action may begin a switch while
another one is under way (`SwitchUnderWay`: somebody has still to do his part of it). The
history variable `crossings` counts these; no handler reads it, and properties that the
code keeps only without them say so in their formulas. `fault` records where the code looks
into an object without a test that there is one, or makes a second one, and the model ends there.

## 3. Runs

All bounds are CONSTANTS named `Max...` or lengths. Every configuration allows the
system to come to rest (`CHECK_DEADLOCK FALSE`), since requests are bounded.

| Run | Checks | Instance |
|---|---|---|
| `bus` | `TypeOK`, `SyncMatches`, `Routing`, `NothingLost`, `SyncReturns`, `Quiescence` | manager and two services, 2 requests, 1 group send, 1 start |
| `mailbox` | `NoLostWakeup`, `StaleOnlyFromTimeouts`, `ImplementsQueue`, `PopReturns` | the service and two other threads, 3 messages, 3 waits that run out |
| `sysmgr_pure` | `NonWhitelistedGone`, `DestroyOrder`, `CloseCompletes`, `ShutdownCompletes` | Pure, 4 services, a close, and a restore, a key or the charger |
| `sysmgr_bell` | `NonWhitelistedGone` | Bell, 3 services, 4 reasons, low battery |
| `sysmgr_twice` | `CloseCompletes` (violated) | Pure, two close requests |
| `worker_life` | `ResourcesOutliveTask`, `SetMatchesQueues`, `StopAfterCommands`, `CloseReturns` | queues of 2, 4 and 1, 4 commands, 3 interrupts, creation may fail |
| `timer_life` | `FlagMatchesTimer`, `StartedFires` | single-shot and periodic timer, queue of 3, 2 starts and 1 stop each |
| `display` | `PoolConsistent`, `NoTornFrame`, `LatestShown`, `CloseAnswered` | 2 contexts, 2 frames, 3 events (draws, at most one each of colour change, display error and close), 3 release timers |
| `playback` | `NoTornBlock`, `IsFifo`, `KeepsPlaying`, `CallsReturn` | ring of 4 blocks, 7 blocks of data, room for 4 events, 4 calls of the service |
| `cpu` | `RequestsReach`, `RequestsHonoured`, `SentinelsInformed`, `MutexMatchesPermission`, `HandlesValid`, `AnsweredMeansDone`, `DropsToMinimum` | 2 sentinels, one of an application, 3 requests, 2 events (lost answers, ends, dumps, frequencies held) |
| `appmgr` | `ActionAnswered`, `HandlesExist`, `FocusSettles`, `Settles` | Pure, home and two applications, one with callbacks to await, one that takes actions in the background; 3 requests of any kind at any time, one crossing of switches |
| `appmgr_cross` | `OneHasFocus` (violated) | the same, 2 requests |

Why these bounds. A late answer needs two calls of one service, a circle of calls two
services, a group send besides a call one more message. The order of destruction needs
two services that survive a restore and one that does not. A queue in the worker and in
the daemon fills up, and a queue that wraps is not part of the code. Restart puts three
commands into the daemon's queue; with length 3 it fits when the queue is empty and is
cut otherwise (the device has 48). With two contexts, which is what the code has, three
draws give one frame on display, one cached and one that replaces it, and each of them may
need its release timer; a close comes with one frame on display and one cached. Three messages and three timeouts let
a stale entry be signaled, the signal be consumed by the next wait, and a real message
come during that wait. Seven blocks wrap the ring of four, and four calls allow start,
pause, resume and stop. The device has room for 1024 stream events; with four the worker
can lock itself out, which the properties then except. Two sentinels are one that
holds the frequency while the other releases it, or ends and comes again; the counters of
the algorithm have small thresholds, which are parameters in the code too. Three requests
reach an application, leave it and come back to it, or overtake one another. The first switch
that crosses another one takes the place of a request; at a second one the model stops (a
step that would be the second is not enabled), which concerns `ActionAnswered` only, since
the other properties except what comes after the first.

What the properties say:

- `SyncMatches`: a successful blocking call returns a message of the called service that
  belongs to this very request. `Routing` is why: the uniID of a call in progress is only
  at the two services of the call.
- `NothingLost`: what was pushed to a mailbox and not executed or returned is there
  exactly once, in the mailbox or among what a blocking call put aside.
- `SyncReturns`, `Quiescence`: blocking calls return; answers are not answered for ever.
- `NonWhitelistedGone`, `DestroyOrder`: the loop that erases from the list it walks
  reaches every service, newest first, also after a restore.
- `CloseCompletes`: once services were asked, the manager leaves Running, even if no
  service ever answers. `ShutdownCompletes`: an uncharged Pure powers off although it
  waits in a blocking pop for the event manager to tell.
- `ResourcesOutliveTask`: deinit deletes nothing the task still uses.
  `SetMatchesQueues`: the queue set names every item once. `StopAfterCommands`: a stop
  overtakes no command. `CloseReturns`: close returns, after deinit, although the task hangs,
  provided that `run` created one; without a task `kill` deletes the thread that calls it,
  and close does not return.
- `FlagMatchesTimer`, `StartedFires`: see the inventory; timers that lost a command are
  excepted in the formula.
- `PoolConsistent`, `NoTornFrame`: a context is free or locked exactly once, always; it
  is used by one thread only, and never displayed half rendered, until the release timer
  has struck. After that both can fail: the timer returns a context the E Ink service has
  still to read, and a late notification returns it again when the worker renders into it.
- `LatestShown`: no frame drawn last is lost. `CloseAnswered`: the GUI service says
  ReadyToClose, also if the E Ink service is silent. Both except behaviours with a change of
  the colour scheme, which may swallow the signal to render, and `LatestShown` those with an
  error of the display.
- `NoLostWakeup`: a service waiting on a mailbox that is not empty has been signaled, or a
  push is about to signal it and will find an entry. `StaleOnlyFromTimeouts` bounds the wait
  list. `ImplementsQueue` and `PopReturns` are the safety and the fairness of
  `AbstractMailbox` under the mapping.
- `NoTornBlock`: a block the DMA is sending keeps its content, as long as there is one chain
  of transfers. `IsFifo` is the refinement to `BlockQueue`. `KeepsPlaying`: an empty stream is
  filled again while playback is on. `CallsReturn`: the service's calls, which wait for the
  worker without a time limit, return unless the worker has locked itself out.
- `RequestsReach`: what a sentinel believes it holds is what the governor has or what the
  messages under way will make of it, also for a new object with an old name.
  `RequestsHonoured`: the CPU is never slower than a known request. `SentinelsInformed`: every
  registered sentinel knows the frequency. `AnsweredMeansDone`: a blocking request is done
  when it returns, unless an answer was late before. `HandlesValid`: the manager notifies no
  task that has ended, with the same exception. `MutexMatchesPermission`: the manager gives
  back the logger's mutex exactly if it has it. `DropsToMinimum`: idle, it comes down.
- `ActionAnswered`: the handler of an application's answer looks into the action in progress
  without a test; it is always there, whatever requests come and whatever switches cross one
  another. The other three are about behaviours in which no switch was begun in the middle of
  another one (`crossings = 0`), with requests of every kind at any time. `HandlesExist`: the
  object of an application is there where it is looked into without a test, and is made only
  when there is none. `FocusSettles`: at rest, the application on top of the stack and no other
  has the focus, and no action is left. `Settles`: rest is reached. `OneHasFocus` has no such
  exception, and the code breaks it.

### Runs that show a disagreement

- `sysmgr_twice`: two close requests. The first service is asked twice and answers twice;
  the second answer stops the close timer and finds nobody to remove, so nobody is asked
  again. The system stays in Running although all services do their work.
- `appmgr_cross`: an application is switched to, and while it is activating a step back comes.
  No application has the focus at this moment, so `handleSwitchBack` sends the previous one,
  which is in the background, a switch at once; it does not ask whether an application is
  starting already, as `handleSwitchApplication` does. Both confirm, and at rest two
  applications are ACTIVE_FORGROUND.

### Observed while modelling, with no run of its own

System core:

- `Worker::join` asserts Running or Stopped. After `stop` the task passes through Stopping,
  so the documented sequence can fail the assertion (fault `join`).
- `SystemTimer::stop` promises that a queued callback is not called. After a new start it
  is: the message names only the timer, which is active again.
- Draw requests and colour changes share a signal queue of length one that is overwritten.
  A colour change right after a draw request swallows it until the next request.
- The bus puts back what a blocking call set aside behind what has arrived meanwhile, so
  two messages of one sender can be handled in reverse order. Nothing promises an order.
- A pop whose time runs out returns nullptr without a look at the queue, though a
  message may just have come; a spurious wake-up starts the full time limit again; and the
  wait list keeps an entry for every wait that ran out, until a later push removes it.
- `Worker::deinit` sets the state through the mutex it has just deleted (fault `mutex`);
  `send` and `stop` assert Running, which the task sets only when it is first scheduled
  (fault `start`); if `run` could not create the task, the time limit of `join` runs out and
  `kill` with its null handle deletes the caller (owner `deleted`), so that close neither
  returns nor frees anything.
- The daemon can be preempted between reading the id of a timer and calling `Run`, and
  the timer can be destroyed in between (`DaemonRun`).
- A service that is killed is erased while its thread may still run (`ExitTimeout`).
- `trySendNextFrame` discards the cached deep refresh when the worker has taken the
  cached context first.

Sound:

- `Stream::reserve` on a full stream resets `blocksUsed` but not `peekCount`, and returns the
  block behind the one that `commit` will publish. Only recording reserves.
- On Bell `Start` of the codec and `enableOutput` each begin a chain of transfers, and on Pure
  `Resume` does so when the last transfer has not ended. Then a block can be overwritten
  while it is sent (`overtaken`, which `NoTornBlock` excepts).
- The worker waits for ever if its own push causes an event when its queue of events is
  full, since nobody else empties it; Pause and Stop then hang (`stuck`).
- Pause drops the blocks that are buffered. Stop frees the stream before the device has
  ended its transfer.

CPU frequency:

- An answer that comes after the 100 ms ends the wait of the next call, which then returns
  before its own request was handled (`tainted`); the manager may notify a task that has
  ended since.
- `stepDown` goes from Level_2 to the minimal level, so a request for Level_1 would be
  undercut; no service makes one.
- If the logger does not get its mutex within its time limit, it goes on all the same, and its
  release gives the mutex that the manager holds (`stolen`).
- The manager's own `HoldMinimumFrequency` in `CloseSystemHandler` waits 100 ms for an answer
  that only itself can give. After `ResetPermanentFrequency` nothing changes until the
  next tick.

Applications (switches begun in the middle of another one, `crossings # 0`):

- A step back closes an application, and a switch to the same application is handled before
  it has confirmed: it is run again, and there is a second object (fault `object`).
- Two switches in a row ask the same application to close twice. Its second confirmation
  comes when its object is gone (fault `handle`).
- An application is launched, and a switch to the home screen is handled after that has given
  up the focus and before the manager knows. The confirmation of the lost focus is then taken
  for one of a gained focus, and the launch stays in progress with later actions behind it.
- A custom action that is skipped for a popup is processed again when the popup is done, and
  begins its switch anew. Two custom actions for different applications each switch away
  from the other one's, again and again.
- On the Bell, an application that delays its close is followed twice: `FinalizingClose`
  starts the next one, and so does the confirmation, which `ApplicationManager.cpp:32`
  takes without the test of the Pure that the application is starting already. Then there is a
  second object. No application of the Bell delays its close (`StartsOnce`, section 5).

## 4. Fairness

- Bus: weak fairness of every service's thread and of the timeout of a blocking call. All
  threads are scheduled by FreeRTOS and the wait is bounded by a tick count.
- Mailbox: weak fairness of every thread inside `push` or `pop`. The mutex is held for a few
  statements; nobody has to call `push` or `pop`.
- SystemManager: `FairSpec` has the manager's thread, its two timers, and the event
  manager forwarding battery changes, and nothing of the other services.
  `FairServicesSpec` adds them; it is used for `sysmgr_twice`, so that the
  counterexample does not blame a silent service.
- Worker: the owner's closing steps only. The task may hang in a handler.
- SystemTimer: strong fairness of carrying out commands and of expiry of a timer, since
  the daemon alternates between its timers and its queue and a busy period of one must
  not exclude the other; weak fairness of `Run` and of the service's loop.
- Display: the GUI service, its worker and the release timer. The E Ink service waits for
  hardware, so nothing is assumed of it; `LatestShown` has its fairness as a premise.
- AudioPlayback: weak fairness of the worker, of the service's thread inside a call, and of
  the DMA engine, which ends a transfer it has been given. The service need not call.
- CpuGovernor: weak fairness of the manager inside a handler, strong fairness of its taking
  the next message and of the tick. Both come through one first-in first-out mailbox, so
  neither can be passed over for ever; nothing is assumed of sentinels or the logger.
- AppManager: of the manager and the applications, one that can do something does it (weak
  fairness of all of them together). They are services with threads of their own, and an
  application that has callbacks to await does not await them for ever.

## 5. Proofs

`ServiceBusProofs` (assumption `ServiceBusAssumption`: the manager is a service, `NoMsg` is
no message, bounds are natural numbers; the set of services is arbitrary):

- `TypeCorrect`: `Spec => []TypeOK`. `TypeOK` is strengthened to `TypeInv` with
  `unicastMsgId <= sentRequests`, which keeps new uniIDs in range.
- `SyncCallsMatch` and `CallsAreRouted`: `Spec => []SyncMatches`, `Spec => []Routing`. The
  inductive invariant `IInv` is `TypeInv /\ Routing /\ SyncMatches`. `SyncMatches` alone is
  not inductive: a message with the right uniID might belong to another request or come
  from another service. `Routing` rules this out. It is kept because a step only adds
  messages that are `Admissible`: already there, with a fresh uniID, with no uniID, or an
  answer to a message at hand, which has the same uniID and request and goes back to
  the sender. A new call has a uniID that no message carries yet.
- `NoMessageLost`: `Spec => []NothingLost`. `NothingLost` counts, so it is kept only if nothing is
  pushed that is there already. `Account` says why that cannot be: of a request and the
  answers to it, between two services, one message exists at a time (`OneMessage`), since
  `processBus` has taken a message before it answers it, and the next request has an
  unused number (`Fresh`). `Aside` says that nothing is put aside outside a blocking call,
  so that the next one may begin with an empty list.

`WorkerProofs` (assumption `WorkerAssumption`: lengths and bounds are natural numbers):

- `ResourcesSafe`: `Spec => []ResourcesOutliveTask`. The invariant `Phase` divides the
  owner's positions: before `run` there is no task; from `run` to `join` everything exists;
  `deinit` is reached only from `join` after the task is deleted, or from `kill`.
- `SetSafe`: `Spec => []SetMatchesQueues`, and `StopIsLast`: `Spec => []StopAfterCommands`.
  `WorkerInv` adds `Counts` (for every queue, as many entries of the set as items, so that
  what the task selects is there), `Consecutive` (the commands handled and those in the queue
  are numbered without a gap) and `StopLast` (no command is behind a stop, and after one the
  owner sends no more), which `StopAfterCommands` needs to be inductive.

`TimerAndMailboxProofs`, mailbox (assumption `MailboxAssumption`: the thread of the service is none of the
others, bounds are natural numbers; the set of threads is arbitrary):

- `NoWakeupIsLost`: `MailboxSpec => []NoLostWakeup`, and `WaitListBounded`:
  `MailboxSpec => []StaleOnlyFromTimeouts`. The invariant `MailboxInv` has the types with the
  ownership of the mutex, `Calls` (a thread is inside one call, and only a pop with a time
  limit runs out), `NoLostWakeup`, which is inductive given these, and `EntriesCounted`,
  which counts a given semaphore like an entry of the list: `StaleOnlyFromTimeouts` alone
  is not kept when a wait ends by a semaphore that was given for an earlier one.
- `MailboxIsQueue`: `MailboxSpec => ImplementsQueue`. Each step of `push` and `pop` is a step of
  `AbstractMailbox` or leaves its variables alone. `Calls` is needed for the pop that
  returns nothing, which the abstract mailbox allows only with a time limit.

`SystemManagerProofs` (assumption `SystemManagerAssumption`: no service is created twice, the
event manager and the requesters are services, bounds are natural numbers; the services, their
order and both whitelists are arbitrary):

- `AllDestroyed`: `Spec => []NonWhitelistedGone`, and `OrderKept`: `Spec => DestroyOrder`. The
  invariant `ManagerInv` has `List` (the list is in the order of creation until it is
  reversed, and in the opposite order ever after), `Waiting` (an active close timer means that
  it was reversed) and `Passed` (what is before the position of `DestroyServices` is on its
  whitelist; a pass that leads out of Running has the whitelist for closing, or nothing else
  is left). `Waiting` carries the reversal from `CloseSystemHandler` to the pass, which a
  timer or an answer starts much later; without `Passed` an erased element could let the
  loop skip its successor.

`TimerAndMailboxProofs`, timers (assumption `SystemTimerAssumption`: periodic timers are timers, lengths and
bounds are numbers; the set of timers is arbitrary):

- `FlagSafe`: `Spec => []FlagMatchesTimer`, which speaks of timers whose commands have all been
  carried out. `Flags` is about the others as well: the last command on its way says what
  the flag says, and for a destroyed timer it is the deletion, so that a new timer at the
  same address begins like the first.

`DisplayProofs` (assumption `DisplayAssumption`: there is a context, `Torn` and `Blank` are no
frames, bounds are natural numbers; any number of contexts, any frames):

- `PoolSafe`: `Spec => []PoolConsistent`. `Pool` says that free and locked contexts are all
  contexts, each once, and is kept also by a second return.
- `NeverTorn`: `Spec => []NoTornFrame`. `Owners` says, until the release timer strikes, who owns
  a locked context: the worker, the message that it is rendered, or the one thing that stands
  for the frame on its way to the display and back. A context is torn only while the worker
  is at it, and what the E Ink service reads has another owner.

`AudioPlaybackProofs` (assumptions `AudioStreamAssumption`: there is a block and the counters hold
twice the number of blocks; `AudioPlaybackAssumption`: the queue of events has a length):

- `StreamIsFifo`: `Spec => IsFifo`, the refinement of `BlockQueue`. `Ring` says that the
  positions follow from the first one and the counts modulo the size, and that the reader is
  one block ahead at most; then a push, a consume and a reset are the abstract steps.
- `BlocksIntact`: `Spec => []NoTornBlock`. The block being sent is the first in use, or the
  decoder writes nothing (`Transfer`). That it writes nothing while a stopped stream is
  reset needs `Handshake`: the semaphore the service waits for stands for the command it
  sent and for no other.

`CpuGovernorProofs` (assumption `CpuGovernorAssumption`: the levels that are asked for are 2 to 6,
the minimum is 0 or 1, thresholds are positive; any finite set of sentinels):

- `RequestsArrive`: `Spec => []RequestsReach`, `FrequencySafe`: `Spec => []RequestsHonoured`,
  `SentinelsKnow`: `Spec => []SentinelsInformed`, `MutexSafe`:
  `Spec => []MutexMatchesPermission`, `HandlesSafe`: `Spec => []HandlesValid`, and
  `AnswersAreTrue`: `Spec => AnsweredMeansDone`. They share the invariant `CpuInv`.
  `Registration` says of each sentinel that it is registered and all messages of earlier
  objects of its name are handled, or that its registration is under way, with the messages
  of earlier objects before it and its own behind it. `Reaches` says that the newest message
  of a sentinel, or else the governor's entry, has its value. `Calls` says that a task that
  never missed an answer waits for one thing only: its message, the answer in the making, or
  the notification it has not seen. `Honoured`, `Informed` and `MutexInv` say what has been
  done at each step of a change of the frequency. `RequestsReach` takes the last of several
  messages; that there is one follows from the library's theorem on well-founded relations.

`AppManagerProofs` (assumption `AppManagerAssumption`: the home screen is an application and
cannot be closed, what can delay its close can be closed, bounds are natural numbers. The
applications, and which of them can be closed, delay it or take actions in the background, are
arbitrary):

- `AnswersFindTheirAction`: `Spec => []ActionAnswered`, and `TypeCorrect`: `Spec => []TypeOK`, on
  both products and whatever switches cross one another. The invariant `Answerable` says that
  of the actions sent to applications and of their answers at most one is on its way, and that
  then an action other than a launch is in progress. It needs no knowledge of the switches: most
  steps send no action and give no answer (`Follows`), the registry sends one only when none is
  in progress, and `onLaunchFinished` ends only launches.
- `ObjectsExist`: `Spec => []HandlesExist`, and `FocusIsOnTop`: `Spec => []FocusSettles`, from the
  further assumption `StartsOnce`: the product is the Pure, or no application delays its close.
  On the Bell none does: the only tasks with `WaitForResponseToClose` are in the messages
  application of the Pure, `NewMessage.cpp:368` and `392`. The confirmations do not say what they
  confirm, so both need to know which of them can be under way. The invariant `InPhase` says
  that as long as no switch has crossed another one there is a *phase* (`IInv`): the application t
  on top of the stack opens, in one of eight stages (`Openings`), while f makes room for it by
  giving up the focus or closing (`Closings`), and g carries out the action in progress
  (`Errands`). `Shape` says which stages go together, `Stage` what the manager's state, stack and
  wait are then, and `People` the state and the inbox of every application. `Mail` says that each
  reply the phase calls for is in the mailbox exactly once, and no other, with requests anywhere
  in between, and that an announced close is ahead of its confirmation. `Registry` ties the
  action in progress and the position of the loop to the phase.
- Each action of `Next` leads from a phase to a phase, or counts a crossing: a step that
  begins a switch does so at rest, or it finds somebody who has still to do his part. At
  rest no message is left, so the phase is the last one (`quiet`, nobody makes room), and then t,
  and no other, is in front.

Only model-checked are the liveness properties, which are out of the prover's reach:
`SyncReturns`, `Quiescence`, `PopReturns`, `CloseCompletes`, `ShutdownCompletes`,
`CloseReturns`, `StartedFires`, `LatestShown`, `CloseAnswered`, `KeepsPlaying`, `CallsReturn`,
`DropsToMinimum`, `Settles`.

Some helpers are defined in the form the provers can work with: `LastAsked` and the two
`Without` by a position of the sequence, `Held` and `QueuedEvents` by the number of positions.

## 6. What is not modelled

Payloads, logs and statistics; the geometry of frames, the choice of waveform, power-off
of the display and the E Ink service's suspension; the start order of services. Of the
audio part: recording, routing, Bluetooth devices, looped playback, a start after the end
of a file without a stop, the service's multiplexer and volumes; of `SwitchProfile` the
returns for an unknown or the present profile, which change nothing, and the failures after the
old device is gone (no new device, format not supported), which leave a playback that counts
as active without a device. Of the timers: a `Run` whose unicast fails and loses the expiry; it
needs a service that is not registered, whose timers `CloseHandler` has stopped. Of the CPU part: the
manager's own sentinel, `TimedCpuSentinel` and `SentinelRemovalMessage`, which no service uses,
clocks and voltages. Of the application manager: `FinishRequest`, `ShutdownRequest`, starts in
the background, languages, phone modes and locks.
Windows and widgets of applications. Everything listed as `not_modelled` in
`PROJECT.json`, with the reason there: the larger part of the repository is vendored
(SQLite, BTstack, FreeRTOS, board headers and drivers), presentation, or input and output
whose behaviour is that of hardware or a library. FreeRTOS is external: its queues,
semaphores and its timer daemon are modelled from how the code uses them.

## 7. Plan

1. `TopologicalSort`: the algorithm as functions, against the definition of an order that
   respects the edges, over all graphs of four nodes.
2. `PhoneModes`, and `SystemWatchdog` with tick arithmetic modulo 2^32.
3. Recording with `reserve` and `commit` in `AudioStream`.
4. A blocking call as an abstract specification, request and response or timeout,
   implemented by `ServiceBus`.
