# WiiCompiled in TLA+: guest operating system, save files, network waits, installer

WiiCompiled translates a Wii game to native code ahead of time and runs it on a
runtime (`src/runtime`) that reimplements the console's operating system. The
game's threads become host fibers of one host thread; the scheduler, mutexes,
message queues, sleep timers and alarms are rewritten in C++ over structures
that stay in guest memory, where translated SDK code also reads and writes them.
That reimplementation is where interleavings, lost wake-ups and half-finished
terminations can hide, so it is what this project models first, with the pump that
delivers alarms and completions and the network calls that block a guest thread
until a host worker answers. The other part modelled is what must survive a crash:
the save files of the NAND, written through scratch copies, and the installer's
journaled transaction (`src/Launcher`).

## Inventory

| Component | Source | State | Operations | Hard behaviour | What makes it correct |
|---|---|---|---|---|---|
| Guest scheduler | `hle/os/os_scheduler.cpp` | 32 run queues, pending mask, reschedule flag, disable count, running and current context | `SelectThread`, wake-ups, the idle loop | a handler is switched away in its middle and continues after other threads ran | mask and queues agree; nobody lost or linked twice; no request to run a more urgent thread is forgotten |
| Mutexes | `os_scheduler.cpp`, `os_thread.cpp` | owner, count, wait queue, owned-mutex lists | lock, unlock, promotion and propagation of priorities | owner chains, deadlocked cycles, suspended owners and waiters | owners inherit, lent priority returns, calls terminate |
| Guest threads | `os_thread.cpp` | state, attributes, suspend count, priorities, queue pointer, thread list | create, exit, cancel, join, detach, suspend, resume | termination in several steps that may switch away | the list is exact; joiners wake; the dead own nothing |
| Sleep | `os_sleep.cpp` | armed timers, outstanding parks | `OSSleepThread`, `OSSleepTicks`, `ProcessSleepTimers` | timer against manual resume, cancel and reuse of a thread structure | a timer wakes only the sleeper that armed it |
| Host fibers | `fiber_manager.cpp` | one fiber per guest thread, the scheduler fiber, terminated flags | create, switch, `FiberProc` return path | the return path bypasses the run queues | control goes to a thread that may run |
| Message queues | `os_message.cpp` | message array, first index, used count, two thread queues | init, send, jam, receive | blocked callers retry; indices wrap | a bounded deque; no lost wake-up |
| Alarms | `os_alarm.cpp` | alarm list, recursion guard | set, dispatch, reschedule afterwards, deferred pumps that do not | handlers run with the scheduler disabled on an interrupted thread; fibers switch inside the pump | what a handler wakes stays requested until it is dispatched; no guard is held for a waiting thread |
| NAND storage | `hle/storage/nand_*.cpp` | descriptors, scratch files, callback queue | plain, safe and IOS open/write/close, async calls, drain | crash or failure between flush and rename; two openers; nested drains | acknowledged or previous contents survive |
| Network | `hle/net/*.cpp` | pending lookups, polls, connects, results, sockets | start, probe, deliver, take result | host workers against waiting guest threads; cancelled threads, reused stacks and sockets | each request answered once, to its asker, about its socket |
| Installer | `src/Launcher` | journal, backups, prepared trees | publish, commit, roll back, recover | crash between any two renames | every entry of an update old or every one new, never a mixture |
| Audio, video, graphics, input, memory, settings, voice chat | `src/runtime/src` | | | signal and image processing, device polling | not about interleavings |
| Translator | `src/translator` | | | a compiler | semantic preservation |
| aurora, third-party code | `src/aurora-main`, `src/runtime/third_party` | | | vendored | |

The components interact through guest memory and through calls: message queues
and mutexes block through `OSSleepThread` and wake through `OSWakeupThread`;
every one of these ends in `SelectThread`, which processes due sleep timers,
chooses a thread and switches fibers; its idle loop pumps audio, video retrace,
alarms and I/O completions, each of which may wake threads. `PROJECT.json` lists
the components with their status and the hazards at their source lines.

## Plan

Done, in this order:

1. **GuestScheduler**: scheduler, threads, mutexes, sleep and fibers in one module,
   because they share every queue and call each other.
2. **MessageQueue** over **BoundedDeque**, with proofs.
3. **InstallTransaction** over **AtomicInstall**, with proofs.
4. **NandSafeFile**, with proofs: one save file, its scratch copy, failures, crashes
   and power loss.
5. **NetworkDeferred**, with proofs: deferred lookups, polls and connects.
6. **AlarmPump**, with proofs: the alarm list, the callback drain and the guards
   shared by all fibers.

Every safety property of the passing runs is now stated by a theorem (see *Proofs*).
Next: `RequestsOutliveRefusals` for guests that lock, then NANDMove and the directory operations beside
NandSafeFile.

## Modules

### GuestScheduler

Guest threads are cooperative: between two calls of `SelectThread` nothing
interleaves, and interrupts are off in every handler. What interleaves is the
rest of a handler with whatever ran while its fiber was switched away. The host
call stack of every fiber is therefore state: `stack[t]` is the sequence of
handler remainders ("frames") thread `t` still has to execute, innermost first.
Only `exec`, the fiber that holds the host thread, takes steps, and while it has
a frame, that frame is all it can execute. A handler is cut into frames only
where the code calls something that may switch (or loops), so one call of the
code is the action that starts it followed by its frames in order.

| Model | Code |
|---|---|
| `state`, `suspend`, `prio`, `queue`, `waitMutex`, `detached` | fields of the guest `OSThread` |
| `owned`, `owner`, `count` | the owned-mutex list and the fields of `OSMutex` |
| `q` | run queues, join queues, mutex queues and plain thread queues; links abstracted to sequences |
| `pending`, `resched`, `disable`, `running`, `current` | scheduler globals in low guest memory |
| `exec`, `stack`, `terminated` | `GuestFiberManager` and the host stacks |
| `timers`, `parks` | `gSleepTimers`, `gOutstandingParks` |
| `SelectRefuses`, `SelectPreempts`, `SelectSwitches`, `SelectIdles`, `IdleDispatches`, `IdleEvent` | `SelectThread` |
| `WakeOne`, `WakeDone` | `WakeupThreadQueue`, and `WakeGuestThreadsOnQueueNoSwitch` as the `wakeReturn` variant |
| `Sleep`, `Slept` | `OSSleepThread` before and after its `SelectThread` |
| `Promote`, `Propagate` | the two walks of priority inheritance, one owner per step |
| `OSLockMutex`, `LockRound`, `OSUnlockMutex` | the mutex calls |
| `OSCreateThread` ... `OSDetachThread`, `Terminate`, `UnlockAll`, `WakeThreadJoiners`, `ExitTail` | thread life cycle |
| `EntryReturns`, `FiberEnd` | the end of `FiberProc` |
| `OSSleepTicks`, `TicksDone`, `TimerFires` | timed parks |
| `HandlerBegins`, `HandlerEnds` | an alarm handler with its disable count and `RunDeferredReschedule` |
| `HandlerBegins`, `DeferredEnds` | the deferred pumps `OS_HLE_ProcessAlarmsDeferred`, `VI_HLE_ProcessRetracesDeferred` and `Audio_HLE_PollDeferred`, which lower the disable count without rescheduling |

`Ops` selects the OS calls an instance makes, so that each run explores one
family of calls completely. The guest is assumed to keep the SDK's rules: it
creates a thread only in a structure that holds none, does not suspend or resume
a dead thread, unlocks only what it owns, and does not exit, lock or join inside
an alarm handler. The main thread never ends. A handler that a deferred pump calls
does not leave the interrupted thread suspended (see *Seen while modelling*).

Left out, with the reason:
- branches for a terminated thread at the head of a queue, or for a pending bit
  over an empty queue: `LinkedOnce` and `PendingMask` show them unreachable in
  the runs that check those; the caps of 256 wake-ups and 64 timers per call;
- the stranded-sleeper reconciler of `ProcessSleepTimers`: it acts on a park
  without a timer, and `ParksHaveTimers` shows there is none;
- the fiber manager's copy of the thread state, which no modelled decision
  reads; register files, exit values, logging; the switch callback;
- the video retrace as a call of its own: a wake-up inside it leaves the request behind
  without a switch (`RunDeferredReschedule` and `WakeupThreadQueue` decline), and so do a
  deferred pump and, in the idle loop, `IdleEvent`, which reach the same states;
- the path without fibers;
- `__OSUnlockAllMutex` and `OSYieldThread` are translated SDK code outside the
  repository, modelled from how the runtime calls them.

After a thread has been linked twice the code corrupts its lists, and sequences
no longer describe them. Combinations of calls that get there (a returning thread
with `OSSleepThread`) appear only in runs that stop at the first violation.

### MessageQueue and BoundedDeque

`MessageQueue` is the ring of `os_message.cpp` with its callers. A round of
`MsgQueueOp` (test, apply, wake the other side; or sleep; or give up) is one
step. Which ready caller runs next is left open, so every schedule the scheduler
could produce is included. The two thread queues are sets, since `OSWakeupThread`
empties the whole queue. `BoundedDeque` states what callers rely on: one sequence
of at most `Capacity` messages. A queue of capacity zero never counts as full and
drops what it is sent; that is what the code does and both modules say so.
Indices are 32-bit in the code; `first + used` stays below twice the capacity, so
they wrap only for capacities above 2^31, which guest memory cannot hold.

### AlarmPump

`ProcessAlarmQueue` dispatches due alarms, commits network completions and drains the
queue of completion callbacks. Handlers and callbacks are guest code that may wake
threads, set alarms, start asynchronous calls and call the pump again, and a switch
made inside the pump leaves its C++ frames on the fiber switched away from. The two
recursion guards, however, are variables of the host thread that all fibers share.
`al[f]` and `dr[f]` are the alarm loop and the drain fiber `f` has on its stack,
`scopes[f]` its calls with switches deferred; `alarmDepth`, `drainDepth` and `disable`
are the code's counters, kept separately so that they can disagree.

| Model | Code |
|---|---|
| `ProcessAlarmQueue`, `DispatchAlarm`, `HandlerReturns`, `AlarmsDone` | `ProcessAlarmQueue`, cut where guest code runs |
| `PumpReturns` | the end of `OS_HLE_ProcessAlarmsDeferred` |
| `InvokeNandCallback`, `DrainNext`, `CallbackReturns`, `DrainDone` | the callback queue of `nand_async.cpp` |
| `OSSetAlarm`, `InsertAlarm` | `OSSetAlarm`, `OSSetPeriodicAlarm`; the next fire time of a periodic alarm is one tick away |
| `SelectThread`, `OSWakeupThread`, `OSSleepThread`, `IdleSelect` | the scheduler as far as the pump sees it; GuestScheduler has the whole of it |

Network completions inside a pass are any set of waiting threads woken and at most one
callback queued. `ReportUnparkableSleep` tells guest callbacks not to block, and here
they do not; nobody cancels or suspends a fiber that is inside the pump (it would leave
its guard raised for good); alarms have handlers and are not set while in the list.
Left out: the guard of a video retrace, the repair of a self-linked list, faults while
reading the list.

### NandSafeFile

One save file in a directory. `file` and `temp` are what the file's name and the name
of its scratch copy refer to, `content` the data of an inode as the process sees it,
`synced` the inodes whose data is on the medium, and `platter` the inodes the name may
refer to after a power failure. Each `NANDFileInfo` block has a `handle` (its entry in
`g_fileHandles`, if any) and a `flag`, the word the guest sees.

| Model | Code |
|---|---|
| `NANDOpen`, `NANDSafeOpen`, `NAND_IOS_Open` | the three opens, with the scratch copy, its fallbacks and errors |
| `NANDWrite`, `NANDDelete`, `NANDCreate`, `ISFS_CreateFile` | the calls of the same names and their IOS forms |
| `CommitAndCloseFd` | `NANDClose`, `NANDSafeClose` up to and including the flush; `CommitRename`, `CommitDone` are `AtomicReplaceHostFile` |
| `CloseMissing`, `NAND_IOS_Close` | a close that finds no descriptor; `IOS_Close` |
| `Crash`, `PowerLoss` | the process or the machine dies |

Host calls are atomic; any in `Faults` may fail, and a failed copy leaves garbage under
the scratch name when removing it fails too. `promise` is the specification: the set of
contents a crash may leave. It is the acknowledged contents, grows by the new contents
when the directory could not be synced, and is empty (nothing is promised) after a
write in place, a deletion, a truncation or a safe open that took a live scratch file
from its writer (`contended`). Sequences of bytes are a function from blocks to the
number of the write.

Left out: Windows (`MoveFileEx` instead of `rename`), `NANDMove` and its IOS form
`ISFS_IOCTL_RENAME`, directories, the
check of `rksys.dat` and the seeding of Mii resources when a file is missing.

### NetworkDeferred

A call that may block becomes a piece of work with a route: a wait queue in the
caller's stack frame, or a callback. `stage[r]` says which list of the store work `r`
is in; `todo` is what the running pass of `Network_HLE_ProcessCompletions` has yet to
visit. Guest and pump share a host thread, so guest actions need `todo = {}`; only the
lookup threads (`RunWorker`) run beside them. A thread that is cancelled and created
again has the same stack, hence the same queue address and the same stale `cookie`.
A socket is a `gen` (generation, 0 when closed) and the generation whose connect gave
it its `peer`.

| Model | Code |
|---|---|
| `StartSync`, `StartFails`, `StartAsync` | `TryDeferredNetworkIosSync`, `StartDeferred`, `LaunchDeferredDns` |
| `RunWorker`, `Expire` | the lookup thread; the clock passing a deadline |
| `ProcessCompletions`, `DropWork`, `KeepWork`, `SettleWork` | one pass, one piece of work per step |
| `DeferredNetworkWaiterIsValid`, `Probe*`, `Settled`, `DeliverDeferredNetworkResult` | the functions of the same names |
| `FinishDeferredIosWait` | the resumed caller redeems its token |
| `NewWiiSocket`, `DeleteWiiSocket`, `CleanupAllWiiSockets`, `Shutdown`, `ReconnectWiiSocket` | the life of a socket |

`StartSync` also takes the path on which the thread cannot be parked: it gets an error
while its work is in flight. Polls have one descriptor; calls that do not block, SSL
and the wrap of the 64-bit token are left out, and a worker is assumed able to publish
its result.

### InstallTransaction and AtomicInstall

`InstallTransaction` is one installation on disk and the process that holds its
operation lock. The disk is `live`, `backup`, `prep` (the destination, backup and
prepared path of each entry), `config` (`Config.toml`) and `journal`; `mem`,
`shot`, `todo`, `origin` and `pc` are the process and vanish in `Crash`. Contents
are the number of the operation that prepared them. Each rename, each delete and
each atomic journal or configuration write is an action, and each may fail
instead:

| Model | Code |
|---|---|
| `Acquire`, `Recover`, `RecoverScratch`, `Release` | `InstallOperationLock.Acquire`, `InstallTransaction.Recover`, `InstallScratchSpace` |
| `Prepare`, `Begin` | the callers' staging, `Begin` with `NormalizeEntries` |
| `MoveAside`, `MoveIn`, `PublishDone`, `PublishFails` | `Publish`, entry by entry, with its catch |
| `RecordRuntimeConfigurationMutation`, `SetDvdRoot`, `SetRetroRewindRoot`, `Commit` | the calls of `InstallerEngine.Publish` and `ProductRepairService.PublishProducts` |
| `Dispose`, `DeletePublished`, `MoveBack`, `InPlace`, `RestoreConfig`, `MarkRolledBack`, `RollBackFails` | `Dispose`, `RollBack`, `RollBackEntry` |
| `CleanBackup`, `CleanDone`, `CleanFails` | `TryCleanCommitted` and the end of `RollBack` |

A recursive delete of a directory can stop half way (`Part`); a file goes at
once. A failed publish rolls back twice, in its catch and in `Dispose`, the second
time only if the first did not finish. One locked operation may run several
transactions; when the cleanup of a committed one failed, its journal makes the
next `Begin` of the same operation throw, which the model shows (`Release` from
`"begin"`): the comment on `Commit` calls the failure non-fatal, and it is, for
that transaction.

`AtomicInstall` remembers the update under way (`staged`: which paths, which release).
`Stage` fixes it, and then either `Update` replaces exactly those paths, all of them and
in one step, or `Abandon` forgets it; nothing else changes a path. So an installation
with one entry of an update new and another old is no state it allows. Which of the two
settings an update changes is left to `Update`, because the callers differ in it and
choose after publishing. The refinement mapping is what recovery would make of the disk
(`RecoveredFiles`, `RecoveredConfig`) and `Staged`: what is prepared while the process
is at `"begin"`, and what the journal names from then until it says committed or rolled
back, whichever process finishes it. `Prepare` stages; the write of the committed journal
is the update, that of the rolled-back one, or giving up before `Begin`, abandons; and
everything else stutters, `Begin` too, which must journal exactly what was prepared.

Left out: a journal that cannot be read or validated (`JsonState.Write` replaces
it atomically, though without a flush, so a power failure may leave it empty: only
the death of the process is modelled); the empty work directory that a crash
inside `Begin` leaves; parent directories created by `Move`; its retries on a
transient lock, which are part of one move; the game writing its own settings while
an update runs, which the running-product guard and the lock exclude.

## Runs

All scheduler runs use three threads (the main thread between a more and a less
urgent worker) and three priorities: the smallest instance in which a thread is
preempted, one is lent a priority past a third, and chains of two owners exist.
`MaxSuspend`, `MaxCount` and `MaxNest` bound the suspend count, the recursion
count and how deep due timers nest calls on one host stack.

| Run | Calls | Shows |
|---|---|---|
| `sched_threads` | create, resume, suspend, sleep, wake, yield, handler, exit, cancel, join, detach | queues, mask and joiners stay consistent; a more urgent ready thread is requested until dispatched |
| `sched_ticks` | create, resume, suspend (nested), timed sleep, cancel, return | every park has its timer; a timer starts only a sleeper; no thread is linked twice |
| `sched_mutex` | create, resume, suspend, lock (recursive), unlock, sleep; two mutexes, one wait queue | inheritance through chains, lent priority returned, wait order kept; every call returns or idles, also around a cycle of owners |
| `sched_exit` | create, resume, suspend, timed sleep, cancel, exit, lock, unlock; one mutex | terminating owners leave no mutex owned |
| `msg_queue` | three callers, two messages, two slots, blocking and polling | type, no lost wake-up, implements `BoundedDeque`, blocked callers make progress |
| `pump_guards` | three fibers of three priorities, two alarms, two callbacks, three instants | the guards match the frames on all host stacks, a holder can go on, handlers are not switched away from, the list stays sorted |
| `nand_safe` | two blocks, two writes, three opens, every fault, crash and power loss | acknowledged contents survive; a scratch file has one owner |
| `net_waits` | two threads, one callback, one descriptor, two operations, two sockets in its lifetime | each call answered once, to its asker, about its socket, and every wait that can end ends |
| `install_crash` | three entries (two of them directories), two transactions, unlimited crashes and failures | implements `AtomicInstall` (no update is torn between its entries), recovery never gives up, the lock holder sees a whole installation, no lost backup |

With three callers two can sleep on the same side while the third works; larger rings
are the subject of the proof. In `sched_mutex` a thread asleep on the wait queue can be
woken after the two others have deadlocked and lend its priority into their cycle.
In `nand_safe` a third inode lets the old, the new and a stale scratch file exist at
once, and three opens let two writers overlap and a file be opened again after a crash;
the two blocks are interchangeable (`Interchangeable`), and the view `NoLeftovers`
ignores data in inodes nothing refers to. In `net_waits` one descriptor forces every
new socket to reuse the number, and two operations let one outlive the thread or the
socket that the other replaces. In `pump_guards` three priorities let a handler's
switch be preempted again. Three entries give
a transaction an entry before, at and after the one it dies at, and leave paths it
does not touch; two transactions let one begin after another was rolled back or
committed. `MaxOps` bounds the transactions.

Deadlock checking is off in the scheduler, message, pump and network runs because the
guest program may really stop: all threads may be suspended, asleep or in a mutex
deadlock with no event to come, and the bounds on operations end the others.

Fairness. `sched_mutex` assumes weak fairness of `HandlerStep`: a C++ handler,
once entered, keeps executing on the only host thread. Nothing is assumed of
guest calls, timers or events. `msg_queue` assumes weak fairness of
"some caller runs": the scheduler does not idle while a caller is ready. It does
not assume that a particular caller runs, so its liveness properties are about calls
that block: a caller that polls in a loop may keep the others out. `net_waits` assumes
that the host resolver returns (`RunWorker`), that the pump, called by every idle loop
and retrace, keeps making passes and finishes them, and that the clock passes a
deadline: strongly fair, because the code reads the clock once per pass and a deadline
can only pass between two of them.

### Disagreements between the code and its comments

Each is a run that TLC must refute.

- `exit_strands_joiner`: `TerminateThreadCommon` releases mutexes before it wakes
  joiners; releasing wakes a waiter and reschedules away from the dead fiber,
  which nothing resumes. The joiner sleeps for ever. An exit holding two
  contended mutexes leaves the second one owned by the dead thread in the same
  way, which is why `sched_exit` has one mutex.
- `stale_timer`: terminating a thread does not disarm its sleep timer, so the
  timer can start the next thread created in the same structure.
- `close_retry`: `NANDSafeClose` leaves a block open after a failure so that the guest
  can retry, but the descriptor was erased before the failure.

Seen while modelling and not made a run:
- `FiberProc` ends with a switch to the scheduler fiber, which is the main thread's,
  wherever that thread stopped; it may come back inside `OSSleepThread` without having
  been woken, against the comment there. `SleepEndsRunning` fails with `"return"` and
  `"sleep"` among the calls.
- The return path of `FiberProc` does not release mutexes, unlike `OSExitThread`:
  `DeadOwnNothing` fails with `"return"` and `"lock"`.
- A mutex can outlive its owner: the terminated fiber is switched away from while it
  wakes the waiters of another mutex, or an entry function returns while it owns one.
  The dead owner stays recorded and no loan reaches it, so `OwnerInherits` fails; and
  when `OSCreateThread` is given the same structure, the new thread takes loans for a
  mutex that is not on its list and never gives them back, so `PriorityReturned` fails.
  TLC finds both with each of `"exit"`, `"cancel"` and `"return"`, with detached threads
  and calls on mutexes, of suspension and of sleep; the two properties are checked and
  proved without them.
- Guest code goes on below a more urgent ready thread, with the scheduler enabled, after
  every deferred pump whose handlers woke one: a pump returns to the interrupted call,
  as the comments there say. What the code keeps is the request, and
  `RequestKept` is about that.
- A handler of a deferred pump that suspends the interrupted thread leaves it running
  although it is marked ready and suspended; when it is resumed and then sleeps, it is
  linked in a run queue and a wait queue at once, and `LinkedOnce` fails. `DeferredEnds`
  excludes it.
- `OSUnlockMutex` lowers the priority of the caller a step before its wake-up sets the
  reschedule flag. No guest code runs in between, so `RequestKept` asks for the request
  in guest code and where a handler decides by the flag.
- `RunDeferredReschedule` after an alarm handler runs with the alarm guard raised, so a
  thread the handler woke cannot pump until the interrupted one runs again; the comment
  at the head of `ProcessAlarmQueue` avoids exactly that for completions.
  `HoldersRunnable` bounds the damage: the interrupted thread is ready.
- A result published to a thread that is cancelled before it runs stays in the table of
  results.

## Proofs

`MessageQueueProofs` proves, for every capacity (zero included), every set of
callers and every set of messages, from the assumptions `CountOK`, `FlagsOK` and
`ZeroNotSent` only:

- `TypeCorrect`: the type invariant; the indices stay inside the array. It is
  inductive as it stands.
- `WakeupsKept`: `NoLostWakeup`. Inductive together with `TypeOK`: enqueueing
  empties the receive queue, dequeueing empties the send queue, and a caller joins
  a queue only in the state the invariant demands.
- `RingImplementsDeque`: the ring implements `BoundedDeque` under the mapping
  `Contents`, the slots read from `first`. The lemmas `EnqueueAppends`,
  `JamPrepends` and `DequeueTakesHead` show, slot by slot and modulo the capacity,
  what each ring operation does to that sequence; `SlotOf` is the modular
  arithmetic they share.

The scheduler's theorems hold for any threads, mutexes, wait queues, priorities and
bounds, from `ConstantsOK` and `NoneNotAQueue`, and for any set `Ops` of guest calls
that satisfies the hypotheses named below. `SequenceLemmas` holds what they need of
lists and host stacks: what `RemoveAt` and `InsertAt` leave, when a list stays sorted,
and the relations `Over` and `On` between a frame and the frames above it.

`GuestSchedulerProofs` proves `ParksAreTimed`, that every outstanding park has its
timer, which is inductive as it stands, and from one inductive invariant `Inv`:

- `Types`, `MaskAgrees` (`PendingMask`), `Linked` (`LinkedOnce`), `OneRuns`
  (`OneRunning`) and `SleepsEnd` (`SleepEndsRunning`).

None of the last five is inductive alone. To unlink a thread safely the queue pointer must be
right, to trust the mask the queues must be, and which thread is in which queue depends
on its state (`Consistent`). That in turn needs to know who executes what:
a handler that goes on after a switch must find its thread as it left it. `Host` and
`ExecOK` say it: the running thread is the one on the host unless `SelectThread` idles;
a handler frame is at the bottom of its stack, exactly while the scheduler is disabled;
and a thread that stopped running while its own handler goes on (it suspended itself,
slept, ended) has only frames on top of it that lead to `SelectThread`. `Held` says an
owned mutex has a count.

All of this assumes `"return" \notin Ops`. When an entry function returns into
`FiberProc`, no context is running and the main fiber goes on where it stopped;
`OSSleepThread` then adopts the default thread, which may be linked already, and
`LinkedOnce` fails. TLC finds this, so the hypothesis is needed.

`GuestSchedulerOrderProofs` builds on `Inv`:

- `WaitersStaySorted` (`WaitersSorted`), with the invariant `Order`: every path that
  changes the priority of a waiter links it again.
- `ExitReleases` (`DeadOwnNothing`), with `Releases`: a dead owner is being released by
  the top frame of the host. It assumes at most one mutex, because with two the wake-up
  of the first switches away from the terminated fiber, which never goes on.
- `JoinersWake` (`JoinersWoken`), without locks for the same reason
  (`exit_strands_joiner` shows the failure). `Stacks` says which frames may be under
  another one, `Joiners` that only mutex releases come before the wake-up that is owed.
- `NothingLost` (`NotLost`), with `Found`. It assumes that the guest does not both lock
  and join: a joiner stranded as above is dropped from its queue when the structure it
  waits for is used again.
- `RequestsOutliveRefusals` (`RequestKept`), without locks. The invariant `Requested` is
  stronger: in every state, in the middle of handlers too, the reschedule flag is set
  while a ready thread is more urgent than the running one. Only a dispatch clears the
  flag, and `BestSelected` shows that it leaves nobody more urgent behind, for which the
  mask and the run queues must agree (`PendingMask`, `Consistent`).
- `TimersKnowSleepers` (`TimersWakeSleepers`), with `Parked`: the timer of a live thread
  belongs to a suspended thread inside `OSSleepTicks`. It assumes `Fresh`, that no
  structure is used again while its timer is armed: `stale_timer` refutes the
  property without that. `SleepersOwnTimers` proves the property from
  `"cancel" \notin Ops` instead, since then a thread with an armed timer lives (`Alive`).
- `LoansReturn` (`PriorityReturned`) and `OwnersInherit` (`OwnerInherits`), for guests in
  which no thread ends; the second also assumes that nobody joins, which then would be
  for ever. That no thread ends is needed: see *Seen while modelling*.
  `Lending` says that a step of `PromoteThreadPriority` is never interrupted and lends to
  a live owner, `Owners` that the owner of a mutex and the lists of owned mutexes agree.
  From these `Lent` is kept: a thread is at least as urgent as its base priority, unless
  it is parked as a suspended waiter, and more urgent only while it owns a mutex.
  `OwnerInherits` speaks of guest code only; what every step keeps is `Inherits`: an
  unsuspended owner is as urgent as each waiter of its mutexes, or the walk over the
  owners is about to reach it (`Walks`). Five facts carry it: the queues are in order
  (`Order`), so that a computed priority is that of the best waiter; who is about to
  sleep on a mutex has lent its owner enough (`Blocks`); who waits in the queue of a mutex
  is recorded to wait for it and does not own it (`Waiters`); a mutex without owner has
  waiters only while they are being woken, so that `OSLockMutex` takes none with a
  waiter left (`Released`); and no waiter falls off its queue (`Found`). The walk itself is
  the lemma `LendsWalk`: a step that changes the priority of a thread which waits for a
  mutex goes on to that mutex's owner, so the debt moves along the chain. TLC
  checked these invariants on the instance of `sched_mutex`, with more calls, before the
  proof.

`AlarmPumpProofs` proves, for any fibers, priorities, alarms and callbacks, from
`PriorityOK` and `IdleOK`:

- `GuardsAreExact` (`GuardsMatchFrames`), `NotPreempted` (`HandlersNotPreempted`),
  `HoldersCanGoOn` (`HoldersRunnable`), `AlarmsStaySorted` (`AlarmsSorted`) and `Types`
  (`TypeOK`).

The first three are not inductive alone. `Inv` adds that at most one fiber has an alarm loop and at
most one a drain, which the shared guards enforce (`OneLoop`, `OneDrain`); that a
deferring scope or a handler is open only on the executing fiber and the disable count
is their number (`Deferring`, `ScopesHeld`), so that no switch happens under them; and
that a running thread is the one on the host or nobody runs (`Sched`).

`AlarmsStaySorted` and `Types` rest on `List`, that the alarms in the list are distinct
and in the order of their due times, and `Calls`, that the
queued callbacks bear the numbers given out so far.

`NandSafeFileProofs` proves, for any number of blocks, inodes, writes and opens and any
set of faults, `TypeCorrect`, `AcknowledgedSurvives` (`Durable`) and `ScratchIsOwned`
(`ScratchOwned`), from the assumptions on the bounds. `Durable` needs `ScratchOwned`,
because a rename publishes whatever the scratch name refers to, and `Bookkeeping`: a
close under way owns the scratch file and has flushed it, and nobody can write to it
between the flush and the rename.

`NetworkDeferredProofs` proves, for any threads, callbacks, descriptors and operations,
`TypeCorrect`, `WaitersAreServed`, `PeersAreOwn`, `CalledBackOnce` and the two action
properties `AskerIsAnswered` and `SuccessMeansConnected`. The invariant `Tokens` says
that tokens and cookies are below the next token, so a new operation is told from every
old one; `Routed` that live work is on exactly one route; `Calls` that a callback in
flight has not been called.

`InstallTransactionProofs` proves, for every number of entries, whichever of them
are directories, and every number of transactions, from `NumEntriesOK` and
`MaxOpsOK`:

- `TransactionIsAtomic`: the transaction implements `AtomicInstall`;
- `RecoveryProceeds`, `HolderSeesWhole`, `OriginalsNamed`, `TypeCorrect`: the
  invariants of `install_crash`.

They rest on one inductive invariant `IInv`. `DiskInv` speaks of the disk alone,
because a crash can leave the disk as any step left it: an original is in place or
in a backup the journal names, and a partial tree is one that rolling back deletes.
`ForwardInv`, `PublishInv` and `ConfigInv` say how far the process has come between
`Begin` and `Commit`, and `RollBackInv` that the copy of the journal a rollback uses
is never behind the file. `OnlyCommit` shows that no step but `Commit` changes what
recovery would restore, `OnlyStagesOrAbandons` that these steps leave the staged update
alone, stage one or abandon it, and `CommitUpdates` that `Commit` gives every staged
entry, and no other, its new contents.

Only model-checked: everything under fairness (`HandlersReturn`, `BlockedCallsProceed`,
`EveryWaitEnds`), which is out of the prover's reach.

## Not modelled

Most of the repository is not about states and their order. The bulk of its lines is
aurora (a vendored graphics layer), display-list decoding, shaders and textures, audio
mixing, the settings overlay, input mapping, instruction semantics
(`include/isa`) and a compiler (`src/translator`): transformations of data, whose
correctness is about values rather than interleavings, and user interface. Of the
parts with state, these are left out:

- DVD and Riivolution: host reads complete inside the call; what remains is path lookup;
- voice chat: an optional add-on around a codec and host sockets;
- video retrace: its timing and its guard. Its wake-ups are in the scheduler models, and
  that they leave only a request behind is in GuestScheduler (`DeferredEnds`);
- SSL and non-blocking socket calls: they pass through to the host;
- the installer's extraction and build steps, which prepare the data the transaction
  publishes.

The models therefore map a small share of all lines, and most of the lines that
schedule, block, persist or recover.

## Reproducing

`tlc -config <run>.cfg <module>` with the module `PROJECT.json` names for the run;
`tlapm <module>.tla` for the modules that end in `Proofs`.
Definitions named `X_Y` are `X` with a plausible slip `Y`; `PROJECT.json` pairs each
checked property with one that makes it fail.
