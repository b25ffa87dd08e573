--------------------------- MODULE GuestScheduler ---------------------------
(***************************************************************************)
(* The guest OS scheduler of the runtime: SelectThread, the run queues and  *)
(* their pending mask, OSThread life cycle, suspend/resume, wait queues,    *)
(* OSMutex with priority inheritance, OSSleepTicks parking, and the host    *)
(* fibers everything runs on.                                               *)
(*                                                                          *)
(* Guest threads are cooperative host fibers of ONE host thread, so between *)
(* two calls of SelectThread nothing interleaves.  What does interleave is  *)
(* the rest of a handler with whatever ran while its fiber was switched     *)
(* away.  A fiber's host call stack is therefore part of the state:         *)
(* stack[t] is the sequence of handler remainders t still has to execute,   *)
(* innermost first, and only `exec', the fiber that holds the host thread,  *)
(* takes steps.  While stack[exec] is not empty its first frame is the only *)
(* thing that can run, so a handler cut into frames is still one handler.   *)
(* An empty stack, or a "handler" frame on top, means guest code runs and   *)
(* may call the OS.                                                         *)
(*                                                                          *)
(* A definition named X_Y, just before X, is X with the slip Y: the checks  *)
(* are run against it to see that they notice.                              *)
(***************************************************************************)
EXTENDS Integers, SequencesExt

CONSTANTS
  Threads,        \* OSThread structures the guest uses
  Main,           \* the default thread; it owns the scheduler fiber
  Mutexes,        \* OSMutex structures
  WaitQueues,     \* plain OSThreadQueues the guest sleeps on
  NumPriorities,  \* number of run queues; 32 in the code
  BasePriority,   \* the priority each thread is created with
  Ops,            \* the OS calls the guest program makes in this instance
  MaxSuspend,     \* bound on a thread's suspend count
  MaxCount,       \* bound on a mutex's recursion count
  MaxNest,        \* bound on how deep due timers nest scheduler calls
  Attrs,          \* detached attributes threads are created with
  None,           \* the null guest pointer
  Idle            \* the idle context SelectThread installs

Prios == 0 .. NumPriorities - 1

SuspendedWaitPriority == NumPriorities

ASSUME ConstantsOK ==
  /\ Main \in Threads
  /\ NumPriorities \in Nat \ {0}
  /\ BasePriority \in [Threads -> Prios]
  /\ MaxSuspend \in Nat /\ MaxCount \in Nat /\ MaxNest \in Nat
  /\ Attrs \subseteq BOOLEAN
  /\ None \notin Threads /\ None \notin Mutexes
  /\ Idle \notin Threads /\ Idle # None

RunQ(p)   == <<"run", p>>
JoinQ(t)  == <<"join", t>>
MutexQ(m) == <<"mutex", m>>
WaitQ(w)  == <<"wait", w>>

RunQueues   == {RunQ(p) : p \in Prios}
BlockQueues == {JoinQ(t) : t \in Threads} \cup {MutexQ(m) : m \in Mutexes}
                 \cup {WaitQ(w) : w \in WaitQueues}
Queues      == RunQueues \cup BlockQueues

ASSUME NoneNotAQueue == None \notin Queues

VARIABLES
  state,       \* guest thread state: none 0, ready 1, running 2, waiting 4, moribund 8
  detached,    \* attribute bit 0
  suspend,     \* suspend count
  prio,        \* effective priority
  queue,       \* the queue pointer of each thread (may be stale)
  waitMutex,   \* the mutex a thread is blocked on
  owned,       \* the mutexes on each thread's owned-mutex list
  terminated,  \* the fiber manager's terminated flag
  threadList,  \* the OS list of existing threads
  owner, count,\* owner and recursion count of each mutex
  q,           \* contents of every run queue and wait queue, head first
  pending,     \* priorities whose bit is set in the pending mask
  resched,     \* the reschedule request flag
  disable,     \* scheduler-disable nesting count
  running,     \* OSRunningContext
  current,     \* OSCurrentContext
  exec,        \* the fiber that holds the host thread
  stack,       \* handler remainders of every fiber
  timers,      \* threads with an armed sleep timer (gSleepTimers)
  parks        \* threads with an outstanding park (gOutstandingParks)

threadVars == <<state, detached, suspend, prio, queue, waitMutex, terminated, threadList>>
mutexVars  == <<owned, owner, count>>
schedVars  == <<q, pending, resched, disable, running, current>>
parkVars   == <<timers, parks>>
hostVars   == <<exec, stack>>
vars       == <<threadVars, mutexVars, schedVars, parkVars, hostVars>>

States == {"none", "ready", "running", "waiting", "moribund"}

\* A frame names the handler remainder and its one live local variable.
Frame(op, arg) == [op |-> op, arg |-> arg]

Frames == [op : {"select", "yield", "idle", "resched", "exitTail", "ticks",
                 "handler", "fiberEnd"}, arg : {None}]
     \cup [op : {"wake", "wakeMore", "wakeQuiet", "wakeReturn", "block", "slept"},
           arg : BlockQueues]
     \cup [op : {"lock"}, arg : Mutexes]
     \cup [op : {"promote", "propagate", "join", "joiners", "unlockAll"}, arg : Threads]

Dead(t) == state[t] \in {"none", "moribund"}

-----------------------------------------------------------------------------
(* Queue helpers.                                                          *)

\* UnlinkGuestListNode on a queue whose links are abstracted to a sequence.
Unlink(s, t) ==
  IF \E i \in 1 .. Len(s) : s[i] = t
  THEN RemoveAt(s, CHOOSE i \in 1 .. Len(s) : s[i] = t)
  ELSE s

RemoveThreadFromQueue_StaysLinked(t) == q

\* RemoveThreadFromQueue: the queues, and the pending mask, once t is unlinked
\* from the queue its queue pointer names.
RemoveThreadFromQueue(t) ==
  IF queue[t] = None THEN q ELSE [q EXCEPT ![queue[t]] = Unlink(@, t)]

UpdatePendingMask_KeepsBit(t) == pending

UpdatePendingMask(t) ==
  {p \in pending : queue[t] = RunQ(p) => RemoveThreadFromQueue(t)[RunQ(p)] # <<>>}

InsertPosition_AtTail(s, p) == Len(s) + 1

\* The place of a thread of priority p in queue s: before the first lower one.
InsertPosition(s, p) ==
  CHOOSE i \in 1 .. Len(s) + 1 :
    /\ \A j \in 1 .. i - 1 : prio[s[j]] <= p
    /\ i <= Len(s) => prio[s[i]] > p

InsertByPriority(qq, x, t, p) ==
  [qq EXCEPT ![x] = InsertAt(@, InsertPosition(@, p), t)]

EffectivePriority_KeepsLent(t, qq, ms) == prio[t]

\* ComputeThreadEffectivePriority, on queues qq and owned-mutex list ms: the
\* best of the base priority and the first waiter of each owned mutex.
EffectivePriority(t, qq, ms) ==
  LET heads == {prio[Head(qq[MutexQ(m)])] : m \in {n \in ms : qq[MutexQ(n)] # <<>>}}
      best  == heads \cup {BasePriority[t]}
  IN CHOOSE p \in best : \A r \in best : p <= r

-----------------------------------------------------------------------------
(* The host stack.                                                         *)

At(op)     == stack[exec] # <<>> /\ Head(stack[exec]).op = op
Arg        == Head(stack[exec]).arg
Call(fs)   == stack' = [stack EXCEPT ![exec] = fs \o @]
Become(fs) == stack' = [stack EXCEPT ![exec] = fs \o Tail(@)]
Return     == Become(<<>>)

Select     == Frame("select", None)

\* Guest code is executing, in a thread or in a callback the runtime invoked.
InThread  == stack[exec] = <<>>
InHandler == At("handler")
InGuest   == InThread \/ InHandler
Calls(op) == op \in Ops /\ InGuest

-----------------------------------------------------------------------------
Init ==
  /\ state      = [t \in Threads |-> IF t = Main THEN "running" ELSE "none"]
  /\ detached   = [t \in Threads |-> FALSE]
  /\ suspend    = [t \in Threads |-> 0]
  /\ prio       = BasePriority
  /\ queue      = [t \in Threads |-> None]
  /\ waitMutex  = [t \in Threads |-> None]
  /\ owned      = [t \in Threads |-> {}]
  /\ terminated = [t \in Threads |-> FALSE]
  /\ threadList = <<Main>>
  /\ owner      = [m \in Mutexes |-> None]
  /\ count      = [m \in Mutexes |-> 0]
  /\ q          = [x \in Queues |-> <<>>]
  /\ pending    = {}
  /\ resched    = FALSE
  /\ disable    = 0
  /\ running    = Main
  /\ current    = Main
  /\ exec       = Main
  /\ stack      = [t \in Threads |-> <<>>]
  /\ timers     = {}
  /\ parks      = {}

-----------------------------------------------------------------------------
(* SelectThread.  A "yield" frame is SelectThread(1), "select" is           *)
(* SelectThread(0).                                                         *)

AtSelect == At("select") \/ At("yield")

Refused == disable >= 1 \/ current # running \/ running = None

KeepsRunning_IgnoresState ==
  At("select") /\ running # None /\ \A p \in pending : prio[running] <= p

KeepsRunning ==
  /\ At("select") /\ running # None /\ state[running] = "running"
  /\ \A p \in pending : prio[running] <= p

SelectRefuses_DropsRequest ==
  /\ AtSelect /\ (Refused \/ KeepsRunning)
  /\ resched' = FALSE
  /\ Return
  /\ UNCHANGED <<threadVars, mutexVars, q, pending, disable, running, current,
                 parkVars, exec>>

\* SelectThread returns without switching.
SelectRefuses ==
  /\ AtSelect /\ (Refused \/ KeepsRunning)
  /\ Return
  /\ UNCHANGED <<threadVars, mutexVars, schedVars, parkVars, exec>>

\* The fiber manager does not switch to a terminated fiber.
SwitchToThread(t) == exec' = IF terminated[t] THEN exec ELSE t

\* Take the first thread of the best pending run queue and switch to its fiber.
Dispatch(st, qu, qq, pp) ==
  LET p    == CHOOSE r \in pp : \A s \in pp : r <= s
      next == Head(qq[RunQ(p)])
      rest == Tail(qq[RunQ(p)])
  IN /\ q'       = [qq EXCEPT ![RunQ(p)] = rest]
     /\ pending' = IF rest = <<>> THEN pp \ {p} ELSE pp
     /\ state'   = [st EXCEPT ![next] = "running"]
     /\ queue'   = [qu EXCEPT ![next] = None]
     /\ resched' = FALSE
     /\ running' = next
     /\ current' = next
     /\ SwitchToThread(next)
     /\ Return
     /\ UNCHANGED <<detached, suspend, prio, waitMutex, terminated, threadList,
                    mutexVars, disable, parkVars>>

\* A running thread goes to the tail of its run queue before the choice.
SelectPreempts ==
  /\ AtSelect /\ ~Refused /\ ~KeepsRunning
  /\ state[running] = "running"
  /\ Dispatch([state EXCEPT ![running] = "ready"],
              [queue EXCEPT ![running] = RunQ(prio[running])],
              [q EXCEPT ![RunQ(prio[running])] = Append(@, running)],
              pending \cup {prio[running]})

\* A thread that blocked, suspended itself or ended just leaves.
SelectSwitches ==
  /\ AtSelect /\ ~Refused
  /\ state[running] # "running" /\ pending # {}
  /\ Dispatch(state, queue, q, pending)

\* No runnable thread: idle on the calling fiber.
SelectIdles ==
  /\ AtSelect /\ ~Refused
  /\ state[running] # "running" /\ pending = {}
  /\ running' = None
  /\ current' = Idle
  /\ Become(<<Frame("idle", None)>>)
  /\ UNCHANGED <<threadVars, mutexVars, q, pending, resched, disable, parkVars, exec>>

IdleDispatches ==
  /\ At("idle") /\ pending # {}
  /\ Dispatch(state, queue, q, pending)

\* Audio, VI retrace, alarm handlers and I/O completions pumped by the idle
\* loop wake threads; SelectThread refuses there because no thread runs.
IdleEvent(w) ==
  /\ At("idle") /\ q[WaitQ(w)] # <<>>
  /\ Call(<<Frame("wakeQuiet", WaitQ(w))>>)
  /\ UNCHANGED <<threadVars, mutexVars, schedVars, parkVars, exec>>

-----------------------------------------------------------------------------
(* Wait queues.                                                            *)

Wakeable_IgnoresSuspend(t) == TRUE

Wakeable_OffByOne(t) == suspend[t] < 0

\* A woken thread goes to a run queue unless it is suspended.
Wakeable(t) == suspend[t] < 1

\* One iteration of WakeupThreadQueue's loop ("wake": no thread linked yet,
\* "wakeMore": at least one, "wakeQuiet": the caller forbids rescheduling;
\* "wakeReturn": WakeGuestThreadsOnQueueNoSwitch of the fiber manager).  A
\* suspended waiter becomes ready unlinked; only the last variant clears its
\* queue pointer.
WakeOne ==
  LET t == Head(q[Arg])
      p == IF prio[t] \in Prios THEN prio[t] ELSE NumPriorities - 1
      popped == [q EXCEPT ![Arg] = Tail(@)]
      linked == Wakeable(t)
  IN /\ At("wake") \/ At("wakeMore") \/ At("wakeQuiet") \/ At("wakeReturn")
     /\ q[Arg] # <<>>
     /\ state'   = [state EXCEPT ![t] = "ready"]
     /\ q'       = IF linked THEN [popped EXCEPT ![RunQ(p)] = Append(@, t)] ELSE popped
     /\ queue'   = [queue EXCEPT ![t] = IF linked THEN RunQ(p)
                                        ELSE IF At("wakeReturn") THEN None ELSE @]
     /\ pending' = IF linked THEN pending \cup {p} ELSE pending
     /\ resched' = (resched \/ linked)
     /\ IF linked /\ At("wake") THEN Become(<<Frame("wakeMore", Arg)>>)
                                ELSE UNCHANGED stack
     /\ UNCHANGED <<detached, suspend, prio, waitMutex, terminated, threadList,
                    mutexVars, disable, running, current, parkVars, exec>>

WakeDone ==
  /\ At("wake") \/ At("wakeMore") \/ At("wakeQuiet") \/ At("wakeReturn")
  /\ q[Arg] = <<>>
  /\ Become(IF At("wakeMore") THEN <<Select>> ELSE <<>>)
  /\ UNCHANGED <<threadVars, mutexVars, schedVars, parkVars, exec>>

OSWakeupThread(w) ==
  /\ Calls("wakeup")
  /\ Call(<<Frame("wake", WaitQ(w))>>)
  /\ UNCHANGED <<threadVars, mutexVars, schedVars, parkVars, exec>>

\* The body of OSSleepThread on queue x, followed by frames `rest'.  With no
\* running context the default thread is adopted; with the scheduler disabled
\* the call returns without parking.
Sleep(x, rest) ==
  LET t == IF running = None THEN Main ELSE running IN
  /\ running' = t
  /\ current' = IF running = None THEN Main ELSE current
  /\ IF disable = 0
     THEN /\ state'   = [state EXCEPT ![t] = "waiting"]
          /\ queue'   = [queue EXCEPT ![t] = x]
          /\ q'       = InsertByPriority(q, x, t, prio[t])
          /\ resched' = TRUE
          /\ stack'   = [stack EXCEPT ![exec] = <<Select, Frame("slept", x)>> \o rest]
     ELSE /\ stack'   = [stack EXCEPT ![exec] = rest]
          /\ UNCHANGED <<state, queue, q, resched>>
  /\ UNCHANGED <<detached, suspend, prio, waitMutex, terminated, threadList,
                 mutexVars, pending, disable, parkVars, exec>>

OSSleepThread(w) ==
  /\ Calls("sleep")
  /\ Sleep(WaitQ(w), stack[exec])

\* A blocking call made by another handler (OSLockMutex, OSJoinThread).
Block ==
  /\ At("block")
  /\ Sleep(Arg, Tail(stack[exec]))

\* OSSleepThread after SelectThread returned: undo a park that never happened.
Slept ==
  /\ At("slept")
  /\ IF state[exec] = "waiting" /\ queue[exec] = Arg
     THEN /\ q'     = [q EXCEPT ![Arg] = Unlink(@, exec)]
          /\ queue' = [queue EXCEPT ![exec] = None]
          /\ state' = [state EXCEPT ![exec] = "running"]
     ELSE UNCHANGED <<q, queue, state>>
  /\ Return
  /\ UNCHANGED <<detached, suspend, prio, waitMutex, terminated, threadList,
                 mutexVars, pending, resched, disable, running, current, parkVars, exec>>

-----------------------------------------------------------------------------
(* Suspend and resume.                                                     *)

\* SetThreadEffectivePriority(u, p); the frame walks on to the owner of the
\* mutex u is blocked on.
SetThreadEffectivePriority(u, p) ==
  LET x == IF state[u] = "ready" THEN RunQ(p) ELSE queue[u]
      moved == state[u] = "ready" \/ (state[u] = "waiting" /\ x # None)
      next  == IF state[u] = "waiting" /\ waitMutex[u] # None
               THEN owner[waitMutex[u]] ELSE None
  IN /\ prio'    = IF Dead(u) THEN prio ELSE [prio EXCEPT ![u] = p]
     /\ q'       = IF moved THEN InsertByPriority(RemoveThreadFromQueue(u), x, u, p) ELSE q
     /\ queue'   = IF moved THEN [queue EXCEPT ![u] = x] ELSE queue
     /\ pending' = IF state[u] = "ready" THEN UpdatePendingMask(u) \cup {p} ELSE pending
     /\ resched' = (resched \/ state[u] \in {"ready", "running"})
     /\ Become(IF next = None THEN <<>> ELSE <<Frame(Head(stack[exec]).op, next)>>)

PromoteStops_Below(u) == suspend[u] > 0 \/ prio[u] < prio[exec]

PromoteStops(u) == suspend[u] > 0 \/ prio[u] <= prio[exec]

\* One step of PromoteThreadPriority: the blocking thread lends its priority.
Promote ==
  LET u == Arg IN
  /\ At("promote")
  /\ IF PromoteStops(u)
     THEN Return /\ UNCHANGED <<prio, q, queue, pending, resched>>
     ELSE SetThreadEffectivePriority(u, prio[exec])
  /\ UNCHANGED <<state, detached, suspend, waitMutex, terminated, threadList,
                 mutexVars, disable, running, current, parkVars, exec>>

\* One step of PropagateMutexOwnerPriority: recompute what the waiters lend.
Propagate ==
  LET u == Arg
      p == EffectivePriority(u, q, owned[u])
  IN /\ At("propagate")
     /\ IF suspend[u] >= 1 \/ prio[u] = p
        THEN Return /\ UNCHANGED <<prio, q, queue, pending, resched>>
        ELSE SetThreadEffectivePriority(u, p)
     /\ UNCHANGED <<state, detached, suspend, waitMutex, terminated, threadList,
                    mutexVars, disable, running, current, parkVars, exec>>

PropagateFrom_Nowhere(u) == <<>>

\* The frame that starts a propagation from the mutex u is blocked on.
PropagateFrom(u) ==
  IF waitMutex[u] # None /\ owner[waitMutex[u]] # None
  THEN <<Frame("propagate", owner[waitMutex[u]])>>
  ELSE <<>>

\* "if (resched) SelectThread(0)", the tail of suspend, resume and cancel.
Resched ==
  /\ At("resched")
  /\ Become(IF resched THEN <<Select>> ELSE <<>>)
  /\ UNCHANGED <<threadVars, mutexVars, schedVars, parkVars, exec>>

\* The body of OSSuspendThread(u), followed by frames `rest'.
Suspend(u, rest) ==
  LET x == queue[u]
      pushed(fs) == stack' = [stack EXCEPT ![exec] = fs \o <<Frame("resched", None)>> \o rest]
  IN /\ suspend[u] < MaxSuspend
     /\ suspend' = [suspend EXCEPT ![u] = @ + 1]
     /\ \/ /\ suspend[u] > 0
           /\ stack' = [stack EXCEPT ![exec] = rest]
           /\ UNCHANGED <<state, prio, queue, q, pending, resched>>
        \/ /\ suspend[u] = 0 /\ state[u] = "ready"
           /\ q'       = RemoveThreadFromQueue(u)
           /\ pending' = UpdatePendingMask(u)
           /\ queue'   = [queue EXCEPT ![u] = None]
           /\ pushed(<<>>)
           /\ UNCHANGED <<state, prio, resched>>
        \/ /\ suspend[u] = 0 /\ state[u] = "running"
           /\ state'   = [state EXCEPT ![u] = "ready"]
           /\ resched' = TRUE
           /\ pushed(<<>>)
           /\ UNCHANGED <<prio, queue, q, pending>>
        \/ /\ suspend[u] = 0 /\ state[u] = "waiting"
           /\ prio' = [prio EXCEPT ![u] = SuspendedWaitPriority]
           /\ q'    = InsertByPriority(RemoveThreadFromQueue(u), x, u, SuspendedWaitPriority)
           /\ pushed(PropagateFrom(u))
           /\ UNCHANGED <<state, queue, pending, resched>>

OSSuspendThread(u) ==
  /\ Calls("suspend") /\ ~Dead(u)
  /\ Suspend(u, stack[exec])
  /\ UNCHANGED <<detached, waitMutex, terminated, threadList, mutexVars, disable,
                 running, current, parkVars, exec>>

\* The body of OSResumeThread(u): peel one suspension; the last one makes the
\* thread runnable, or restores its place among the waiters of its queue.
Resume(u) ==
  LET free == RemoveThreadFromQueue(u)
      p    == EffectivePriority(u, IF state[u] = "waiting" THEN free ELSE q, owned[u])
  IN /\ suspend' = [suspend EXCEPT ![u] = IF @ = 0 THEN 0 ELSE @ - 1]
     /\ \/ /\ suspend[u] # 1
           /\ UNCHANGED <<state, prio, queue, q, pending, resched, stack>>
        \/ /\ suspend[u] = 1 /\ state[u] = "waiting"
           /\ prio' = [prio EXCEPT ![u] = p]
           /\ q'    = InsertByPriority(free, queue[u], u, p)
           /\ Call(PropagateFrom(u) \o <<Frame("resched", None)>>)
           /\ UNCHANGED <<state, queue, pending, resched>>
        \/ /\ suspend[u] = 1 /\ state[u] \in {"ready", "running"}
           /\ state'   = [state EXCEPT ![u] = "ready"]
           /\ prio'    = [prio EXCEPT ![u] = p]
           /\ q'       = InsertByPriority(q, RunQ(p), u, p)
           /\ queue'   = [queue EXCEPT ![u] = RunQ(p)]
           /\ pending' = pending \cup {p}
           /\ resched' = TRUE
           /\ Call(<<Frame("resched", None)>>)
     /\ UNCHANGED <<detached, waitMutex, terminated, threadList, mutexVars, disable,
                    running, current, exec>>

OSResumeThread_KeepsPark(u) ==
  /\ Calls("resume") /\ ~Dead(u)
  /\ Resume(u)
  /\ timers' = IF suspend[u] = 1 THEN timers \ {u} ELSE timers
  /\ UNCHANGED parks

OSResumeThread_KeepsTimer(u) ==
  /\ Calls("resume") /\ ~Dead(u)
  /\ Resume(u)
  /\ UNCHANGED parkVars

\* The last suspension also disarms the sleep timer.
OSResumeThread(u) ==
  /\ Calls("resume") /\ ~Dead(u)
  /\ Resume(u)
  /\ timers' = IF suspend[u] = 1 THEN timers \ {u} ELSE timers
  /\ parks'  = IF suspend[u] = 1 THEN parks \ {u} ELSE parks

-----------------------------------------------------------------------------
(* OSSleepTicks and its timers.                                            *)

OSSleepTicks ==
  /\ Calls("ticks") /\ running # None
  /\ disable = 0 /\ current \in {None, running}
  /\ timers' = timers \cup {running}
  /\ parks'  = parks \cup {running}
  /\ Suspend(running, <<Frame("ticks", None)>> \o stack[exec])
  /\ UNCHANGED <<detached, waitMutex, terminated, threadList, mutexVars, disable,
                 running, current, exec>>

\* OSSleepTicks after the park: revert a suspension nobody consumed.
TicksDone ==
  /\ At("ticks")
  /\ IF suspend[exec] > 0
     THEN /\ timers'  = timers \ {exec}
          /\ parks'   = parks \ {exec}
          /\ suspend' = [suspend EXCEPT ![exec] = @ - 1]
          /\ state'   = IF suspend[exec] = 1 /\ state[exec] = "ready" /\ queue[exec] = None
                        THEN [state EXCEPT ![exec] = "running"] ELSE state
     ELSE UNCHANGED <<timers, parks, suspend, state>>
  /\ Return
  /\ UNCHANGED <<detached, prio, queue, waitMutex, terminated, threadList, mutexVars,
                 schedVars, exec>>

\* ProcessSleepTimers pops one due timer at the start of SelectThread or in the
\* idle loop: a parked thread is resumed, a stale timer is dropped.  The timer
\* of a running thread is put back, which changes nothing.
TimerFires(u) ==
  /\ AtSelect \/ At("idle")
  /\ u \in timers /\ Len(stack[exec]) < MaxNest
  /\ timers' = timers \ {u}
  /\ parks'  = parks \ {u}
  /\ \/ /\ state[u] = "ready" /\ suspend[u] >= 1
        /\ Resume(u)
     \/ /\ state[u] # "running"
        /\ state[u] # "ready" \/ suspend[u] < 1
        /\ UNCHANGED <<threadVars, mutexVars, schedVars, hostVars>>

-----------------------------------------------------------------------------
(* OSMutex.                                                                *)

OSLockMutex(m) ==
  /\ "lock" \in Ops /\ InThread
  /\ running # None
  /\ owner[m] = running => count[m] < MaxCount
  /\ Call(<<Frame("lock", m)>>)
  /\ UNCHANGED <<threadVars, mutexVars, schedVars, parkVars, exec>>

\* One round of OSLockMutex's loop: take the mutex, nest, or lend the owner
\* our priority, sleep on the mutex and try again.
LockRound ==
  LET m == Arg IN
  /\ At("lock")
  /\ \/ /\ owner[m] = None
        /\ owner'     = [owner EXCEPT ![m] = exec]
        /\ count'     = [count EXCEPT ![m] = @ + 1]
        /\ owned'     = [owned EXCEPT ![exec] = @ \cup {m}]
        /\ waitMutex' = [waitMutex EXCEPT ![exec] = None]
        /\ Return
     \/ /\ owner[m] = exec
        /\ count'     = [count EXCEPT ![m] = @ + 1]
        /\ waitMutex' = [waitMutex EXCEPT ![exec] = None]
        /\ Return
        /\ UNCHANGED <<owner, owned>>
     \/ /\ owner[m] \notin {None, exec}
        /\ waitMutex' = [waitMutex EXCEPT ![exec] = m]
        /\ Call(<<Frame("promote", owner[m]), Frame("block", MutexQ(m))>>)
        /\ UNCHANGED mutexVars
  /\ UNCHANGED <<state, detached, suspend, prio, queue, terminated, threadList,
                 schedVars, parkVars, exec>>

LastUnlock(m) == count[m] = 1

\* Only the owner unlocks; the last unlock drops a lent priority and wakes
\* every waiter.
OSUnlockMutex(m) ==
  LET rest == owned[running] \ {m} IN
  /\ "unlock" \in Ops /\ InThread
  /\ running # None /\ owner[m] = running
  /\ count' = [count EXCEPT ![m] = @ - 1]
  /\ IF LastUnlock(m)
     THEN /\ owned' = [owned EXCEPT ![running] = rest]
          /\ owner' = [owner EXCEPT ![m] = None]
          /\ prio'  = IF prio[running] < BasePriority[running]
                      THEN [prio EXCEPT ![running] = EffectivePriority(running, q, rest)]
                      ELSE prio
          /\ Call(<<Frame("wake", MutexQ(m))>>)
     ELSE UNCHANGED <<owned, owner, prio, stack>>
  /\ UNCHANGED <<state, detached, suspend, queue, waitMutex, terminated, threadList,
                 schedVars, parkVars, exec>>

-----------------------------------------------------------------------------
(* Thread life cycle.                                                      *)

\* A thread is created suspended; the queue links of the structure are not reset.
OSCreateThread(u, d) ==
  /\ "create" \in Ops /\ InThread
  /\ state[u] = "none" /\ u # Main
  /\ state'      = [state EXCEPT ![u] = "ready"]
  /\ detached'   = [detached EXCEPT ![u] = d]
  /\ suspend'    = [suspend EXCEPT ![u] = 1]
  /\ prio'       = [prio EXCEPT ![u] = BasePriority[u]]
  /\ waitMutex'  = [waitMutex EXCEPT ![u] = None]
  /\ owned'      = [owned EXCEPT ![u] = {}]
  /\ terminated' = [terminated EXCEPT ![u] = FALSE]
  /\ threadList' = Append(threadList, u)
  /\ q'          = [q EXCEPT ![JoinQ(u)] = <<>>]
  /\ stack'      = [stack EXCEPT ![u] = <<>>]
  /\ UNCHANGED <<queue, owner, count, pending, resched, disable, running, current,
                 parkVars, exec>>

\* TerminateThreadCommon up to its first call that may switch fibers.
Terminate(u) ==
  /\ state'      = [state EXCEPT ![u] = IF detached[u] THEN "none" ELSE "moribund"]
  /\ terminated' = [terminated EXCEPT ![u] = TRUE]
  /\ threadList' = IF detached[u] THEN Unlink(threadList, u) ELSE threadList

OSExitThread_KeepsMutexes ==
  /\ "exit" \in Ops /\ InThread
  /\ running = exec /\ exec # Main
  /\ Terminate(exec)
  /\ Call(<<Frame("joiners", exec), Frame("exitTail", None)>>)
  /\ UNCHANGED <<detached, suspend, prio, queue, waitMutex, mutexVars, schedVars,
                 parkVars, exec>>

OSExitThread ==
  /\ "exit" \in Ops /\ InThread
  /\ running = exec /\ exec # Main
  /\ Terminate(exec)
  /\ Call(<<Frame("unlockAll", exec), Frame("joiners", exec), Frame("exitTail", None)>>)
  /\ UNCHANGED <<detached, suspend, prio, queue, waitMutex, mutexVars, schedVars,
                 parkVars, exec>>

ExitTail ==
  /\ At("exitTail")
  /\ resched' = TRUE
  /\ Become(<<Select>>)
  /\ UNCHANGED <<threadVars, mutexVars, q, pending, disable, running, current,
                 parkVars, exec>>

CancelUnlinks_OnlyReady(u) == state[u] = "ready" /\ suspend[u] < 1

\* A thread that is linked in some queue is unlinked before it is cancelled.
CancelUnlinks(u) == state[u] = "waiting" \/ (state[u] = "ready" /\ suspend[u] < 1)

\* Cancelling another thread destroys its fiber, and with it its host stack.
OSCancelThread(u) ==
  LET linked == CancelUnlinks(u)
      tail   == <<Frame("unlockAll", u), Frame("joiners", u), Frame("resched", None)>>
  IN /\ "cancel" \in Ops /\ InThread
     /\ ~Dead(u) /\ u # Main
     /\ q'       = IF linked THEN RemoveThreadFromQueue(u) ELSE q
     /\ pending' = IF linked THEN UpdatePendingMask(u) ELSE pending
     /\ queue'   = IF linked THEN [queue EXCEPT ![u] = None] ELSE queue
     /\ resched' = (resched \/ state[u] = "running")
     /\ Terminate(u)
     /\ stack' = IF u = exec THEN [stack EXCEPT ![exec] = tail]
                 ELSE [stack EXCEPT ![exec] = tail, ![u] = <<>>]
     /\ UNCHANGED <<detached, suspend, prio, waitMutex, mutexVars, disable, running,
                    current, parkVars, exec>>

\* __OSUnlockAllMutex: release each owned mutex and wake its waiters.
UnlockAll ==
  LET u == Arg IN
  /\ At("unlockAll")
  /\ \/ owned[u] = {} /\ Return /\ UNCHANGED mutexVars
     \/ \E m \in owned[u] :
          /\ owned' = [owned EXCEPT ![u] = @ \ {m}]
          /\ owner' = [owner EXCEPT ![m] = None]
          /\ count' = [count EXCEPT ![m] = 0]
          /\ Call(<<Frame("wake", MutexQ(m))>>)
  /\ UNCHANGED <<threadVars, schedVars, parkVars, exec>>

WakeThreadJoiners_Skipped ==
  /\ At("joiners")
  /\ Return
  /\ UNCHANGED <<threadVars, mutexVars, schedVars, parkVars, exec>>

WakeThreadJoiners ==
  /\ At("joiners")
  /\ Become(<<Frame("wake", JoinQ(Arg))>>)
  /\ UNCHANGED <<threadVars, mutexVars, schedVars, parkVars, exec>>

\* Wait for a joinable thread to end unless somebody else already waits for it.
OSJoinThread(u) ==
  /\ "join" \in Ops /\ InThread
  /\ u # exec /\ state[u] # "none"
  /\ Call(IF ~detached[u] /\ state[u] # "moribund" /\ q[JoinQ(u)] = <<>>
          THEN <<Frame("block", JoinQ(u)), Frame("join", u)>>
          ELSE <<Frame("join", u)>>)
  /\ UNCHANGED <<threadVars, mutexVars, schedVars, parkVars, exec>>

\* The end of OSJoinThread: reap a moribund thread.
JoinDone ==
  LET u == Arg IN
  /\ At("join")
  /\ IF state[u] = "moribund"
     THEN /\ threadList' = Unlink(threadList, u)
          /\ state'      = [state EXCEPT ![u] = "none"]
     ELSE UNCHANGED <<threadList, state>>
  /\ Return
  /\ UNCHANGED <<detached, suspend, prio, queue, waitMutex, terminated, mutexVars,
                 schedVars, parkVars, exec>>

OSDetachThread(u) ==
  /\ "detach" \in Ops /\ InThread
  /\ state[u] # "none" /\ ~detached[u]
  /\ detached' = [detached EXCEPT ![u] = TRUE]
  /\ IF state[u] = "moribund"
     THEN /\ threadList' = Unlink(threadList, u)
          /\ state'      = [state EXCEPT ![u] = "none"]
          /\ terminated' = [terminated EXCEPT ![u] = TRUE]
     ELSE UNCHANGED <<threadList, state, terminated>>
  /\ Call(<<Frame("joiners", u)>>)
  /\ UNCHANGED <<suspend, prio, queue, waitMutex, mutexVars, schedVars, parkVars, exec>>

EntryReturns_StaysRunning ==
  /\ "return" \in Ops /\ InThread
  /\ running = exec /\ exec # Main
  /\ Call(<<Frame("wakeReturn", JoinQ(exec)), Frame("fiberEnd", None)>>)
  /\ UNCHANGED <<threadVars, mutexVars, schedVars, parkVars, exec>>

\* A thread's entry function returns into FiberProc.
EntryReturns ==
  /\ "return" \in Ops /\ InThread
  /\ running = exec /\ exec # Main
  /\ state'      = [state EXCEPT ![exec] = IF detached[exec] THEN "none" ELSE "moribund"]
  /\ Call(<<Frame("wakeReturn", JoinQ(exec)), Frame("fiberEnd", None)>>)
  /\ UNCHANGED <<detached, suspend, prio, queue, waitMutex, terminated, threadList,
                 mutexVars, schedVars, parkVars, exec>>

\* The end of FiberProc: no context is running, and the scheduler fiber, which
\* is the main thread's, continues wherever it last switched away.
FiberEnd ==
  /\ At("fiberEnd")
  /\ terminated' = [terminated EXCEPT ![exec] = TRUE]
  /\ running'    = IF running = exec THEN None ELSE running
  /\ current'    = IF current = exec THEN None ELSE current
  /\ resched'    = TRUE
  /\ exec'       = Main
  /\ Return
  /\ UNCHANGED <<state, detached, suspend, prio, queue, waitMutex, threadList,
                 mutexVars, q, pending, disable, parkVars>>

-----------------------------------------------------------------------------
(* A guest handler runs on the current fiber with the scheduler disabled.   *)
(* After one that ProcessAlarmQueue calls, RunDeferredReschedule makes up   *)
(* for what it requested.  A deferred pump (OS_HLE_ProcessAlarmsDeferred,   *)
(* VI_HLE_ProcessRetracesDeferred, Audio_HLE_PollDeferred) lowers the       *)
(* disable count and returns to the interrupted code: the request stays     *)
(* for a later scheduler point.                                             *)

HandlerBegins ==
  /\ "handler" \in Ops /\ InThread
  /\ disable' = disable + 1
  /\ Call(<<Frame("handler", None)>>)
  /\ UNCHANGED <<threadVars, mutexVars, q, pending, resched, running, current,
                 parkVars, exec>>

HandlerEnds_Twice ==
  /\ At("handler")
  /\ disable' = disable - 2
  /\ Become(<<Frame("resched", None)>>)
  /\ UNCHANGED <<threadVars, mutexVars, q, pending, resched, running, current,
                 parkVars, exec>>

HandlerEnds ==
  /\ At("handler")
  /\ disable' = disable - 1
  /\ Become(<<Frame("resched", None)>>)
  /\ UNCHANGED <<threadVars, mutexVars, q, pending, resched, running, current,
                 parkVars, exec>>

\* The end of a deferred pump, or of an alarm handler inside a video retrace,
\* where RunDeferredReschedule declines.  Its handlers are taken not to suspend
\* the thread they interrupt.
DeferredEnds ==
  /\ At("handler") /\ state[exec] = "running"
  /\ disable' = disable - 1
  /\ Return
  /\ UNCHANGED <<threadVars, mutexVars, q, pending, resched, running, current,
                 parkVars, exec>>

\* OSYieldThread asks for SelectThread(1).
OSYieldThread ==
  /\ "yield" \in Ops /\ InThread
  /\ Call(<<Frame("yield", None)>>)
  /\ UNCHANGED <<threadVars, mutexVars, schedVars, parkVars, exec>>

-----------------------------------------------------------------------------
\* What the guest program may do next.
GuestCall ==
  \/ \E u \in Threads :
       \/ OSSuspendThread(u)
       \/ OSResumeThread(u)
       \/ OSCancelThread(u)
       \/ OSJoinThread(u)
       \/ OSDetachThread(u)
       \/ \E d \in Attrs : OSCreateThread(u, d)
  \/ \E w \in WaitQueues : OSSleepThread(w) \/ OSWakeupThread(w)
  \/ \E m \in Mutexes : OSLockMutex(m) \/ OSUnlockMutex(m)
  \/ OSSleepTicks
  \/ OSYieldThread
  \/ OSExitThread
  \/ EntryReturns
  \/ HandlerBegins
  \/ HandlerEnds
  \/ DeferredEnds

\* What the runtime does on its own once called.
HandlerStep ==
  \/ SelectRefuses
  \/ SelectPreempts
  \/ SelectSwitches
  \/ SelectIdles
  \/ WakeOne
  \/ WakeDone
  \/ Block
  \/ Slept
  \/ Promote
  \/ Propagate
  \/ Resched
  \/ TicksDone
  \/ LockRound
  \/ ExitTail
  \/ UnlockAll
  \/ WakeThreadJoiners
  \/ JoinDone
  \/ FiberEnd

\* Timers and the idle loop.
HostEvent ==
  \/ IdleDispatches
  \/ \E w \in WaitQueues : IdleEvent(w)
  \/ \E u \in Threads : TimerFires(u)

Next == GuestCall \/ HandlerStep \/ HostEvent

Spec == Init /\ [][Next]_vars

\* A handler, once called, runs to its end: nothing else holds the host thread.
FairSpec == Spec /\ WF_vars(HandlerStep)

-----------------------------------------------------------------------------
(* Properties.                                                             *)

\* Every guest structure and host table holds values the code can store there.
TypeOK ==
  /\ state      \in [Threads -> States]
  /\ detached   \in [Threads -> BOOLEAN]
  /\ suspend    \in [Threads -> Nat]
  /\ prio       \in [Threads -> 0 .. NumPriorities]
  /\ queue      \in [Threads -> Queues \cup {None}]
  /\ waitMutex  \in [Threads -> Mutexes \cup {None}]
  /\ owned      \in [Threads -> SUBSET Mutexes]
  /\ terminated \in [Threads -> BOOLEAN]
  /\ threadList \in Seq(Threads)
  /\ owner      \in [Mutexes -> Threads \cup {None}]
  /\ count      \in [Mutexes -> Nat]
  /\ q          \in [Queues -> Seq(Threads)]
  /\ pending    \in SUBSET Prios
  /\ resched    \in BOOLEAN
  /\ disable    \in Nat
  /\ running    \in Threads \cup {None}
  /\ current    \in Threads \cup {None, Idle}
  /\ exec       \in Threads
  /\ stack      \in [Threads -> Seq(Frames)]
  /\ timers     \in SUBSET Threads
  /\ parks      \in SUBSET Threads

\* SelectThread trusts the pending mask: a bit is set exactly when its run
\* queue has a thread, so no "pending bit set but no thread in queue" and no
\* runnable thread hidden from the scheduler.
PendingMask == pending = {p \in Prios : q[RunQ(p)] # <<>>}

\* A thread is linked at most once over all queues, its queue pointer names
\* that queue, a run queue holds ready unsuspended threads of its priority and
\* a wait queue holds waiting threads.
LinkedOnce ==
  /\ \A x \in Queues : \A i \in 1 .. Len(q[x]) :
       /\ queue[q[x][i]] = x
       /\ x \in BlockQueues => state[q[x][i]] = "waiting"
       /\ x \in RunQueues => /\ state[q[x][i]] = "ready"
                             /\ suspend[q[x][i]] = 0
                             /\ x = RunQ(prio[q[x][i]])
  /\ \A x \in Queues : \A i, j \in 1 .. Len(q[x]) : q[x][i] = q[x][j] => i = j

\* No runnable or waiting thread falls off the queues: a ready thread that is
\* not suspended is on a run queue and a waiting thread on the queue it waits
\* on, so every unlink the handlers do unlinks a linked node.
NotLost ==
  \A t \in Threads :
    (state[t] = "waiting" \/ (state[t] = "ready" /\ suspend[t] = 0)) =>
      queue[t] # None /\ \E i \in 1 .. Len(q[queue[t]]) : q[queue[t]][i] = t

\* Wait queues stay sorted by effective priority whatever suspend, resume and
\* priority inheritance do to the waiters, so the first waiter is the best one.
WaitersSorted ==
  \A x \in BlockQueues : IsSorted(q[x], LAMBDA t, u : prio[t] <= prio[u])

\* Only the fiber that holds the host thread is marked running, and a thread
\* that is suspended is never the one running.
OneRunning ==
  \A t \in Threads : state[t] = "running" => t = exec /\ suspend[t] = 0

\* No ready thread is overlooked: while one is more urgent than the running
\* thread, which a deferred pump or a disabled scheduler may leave on the host,
\* the reschedule request is recorded whenever guest code runs and wherever
\* RunDeferredReschedule or the tail of suspend, resume and cancel, which look
\* at that flag alone, decide whether to call SelectThread.
RequestKept ==
  /\ InGuest \/ At("resched")
  /\ running = exec /\ state[exec] = "running"
  /\ \E p \in pending : p < prio[exec]
  => resched

\* Priority inheritance: while guest code runs, an unsuspended owner is at
\* least as urgent as the first waiter of every mutex it owns, through chains
\* of owners that wait themselves.
OwnerInherits ==
  InThread => \A m \in Mutexes :
    (owner[m] # None /\ q[MutexQ(m)] # <<>> /\ suspend[owner[m]] = 0) =>
      prio[owner[m]] <= prio[Head(q[MutexQ(m)])]

\* A lent priority is given back: a live thread that owns no mutex has its base
\* priority again, or the parked priority of a suspended waiter.
PriorityReturned ==
  \A t \in Threads : (~Dead(t) /\ owned[t] = {}) =>
    \/ prio[t] = BasePriority[t]
    \/ prio[t] = SuspendedWaitPriority /\ suspend[t] > 0

\* A thread that ended leaves no mutex behind: it owns none unless a fiber that
\* can still run is releasing them.
DeadOwnNothing ==
  \A t \in Threads : (Dead(t) /\ owned[t] # {}) =>
    \E u \in Threads : (u = exec \/ ~terminated[u]) /\
      \E i \in 1 .. Len(stack[u]) : stack[u][i] = Frame("unlockAll", t)

\* Every outstanding park has an armed timer and every timer belongs to a park,
\* so the stranded-sleeper reconciler never has a thread to heal.
ParksHaveTimers == parks = timers

\* Whoever waits to join a thread that has ended will be woken: the termination
\* that ended it still has the wake-up on the host stack of a live fiber.
JoinersWoken ==
  \A u \in Threads : (Dead(u) /\ q[JoinQ(u)] # <<>>) =>
    \E t \in Threads : (t = exec \/ ~terminated[t]) /\
      \E i \in 1 .. Len(stack[t]) :
        stack[t][i] \in {Frame("joiners", u), Frame("wake", JoinQ(u)),
                         Frame("wakeMore", JoinQ(u)), Frame("wakeReturn", JoinQ(u))}

\* OSSleepThread comes back only after a real wake-up: the thread is running
\* again and its queue pointer is cleared, so the code that takes back a park
\* finds nothing to take back.
SleepEndsRunning ==
  At("slept") => state[exec] = "running" /\ queue[exec] = None

\* A sleep timer only ever peels the suspension of a thread that is inside
\* OSSleepTicks; no other suspended thread is started by one.
TimersWakeSleepers ==
  [][\A u \in Threads :
       (~InGuest /\ suspend'[u] < suspend[u]) =>
         \E i \in 1 .. Len(stack[u]) : stack[u][i].op = "ticks"]_vars

\* Every OS call gives the host thread back to guest code or idles: no chain of
\* priority inheritance, not even around a deadlocked cycle of mutex owners, and
\* no lock retry keeps the runtime in its own loops forever.
HandlersReturn == []<>(InGuest \/ At("idle"))
=============================================================================
