------------------------------ MODULE AlarmPump ------------------------------
(***************************************************************************)
(* The pump of the guest's asynchronous world (os_alarm.cpp and the         *)
(* callback queue of nand_async.cpp).                                      *)
(*                                                                         *)
(* ProcessAlarmQueue dispatches due alarms, commits network completions    *)
(* and drains the queue of completion callbacks.  Handlers and callbacks   *)
(* are guest code: they set alarms, start asynchronous calls, wake threads *)
(* and may call the pump again.  Guest threads are fibers of one host      *)
(* thread, so a switch made from inside the pump leaves its C++ frames,    *)
(* and the recursion guards they hold, on the fiber switched away from.    *)
(*                                                                         *)
(* The frames a fiber has of the pump are kept in two places: `al`, the    *)
(* alarm loop, and `dr`, the callback drain.  A fiber with both is in an   *)
(* alarm loop called from a callback: the pump called from an alarm        *)
(* handler returns at once.                                                *)
(***************************************************************************)
EXTENDS Integers, FiniteSets, Sequences, SequencesExt

CONSTANTS
    Fibers,        \* guest threads
    Priority,      \* fiber -> its priority, a lower number is more urgent
    Alarms,        \* alarm structures of the guest
    MaxTime,       \* bound: ticks of the guest clock
    MaxCallbacks,  \* bound: completion callbacks queued
    Idle           \* no thread is running

ASSUME PriorityOK == Priority \in [Fibers -> Int]
ASSUME MaxTimeOK == MaxTime \in Nat
ASSUME MaxCallbacksOK == MaxCallbacks \in Nat
ASSUME IdleOK == Idle \notin Fibers

VARIABLES
    status,      \* fiber -> "running", "ready", "waiting"
    running,     \* the running thread, or Idle
    host,        \* the fiber whose host stack is executing
    disable,     \* scheduler disable count
    resched,     \* the reschedule counter is not zero
    al,          \* fiber -> its alarm loop: "none", "loop" (nothing dispatched
                 \* yet), "more" (something was), "handler"
    dr,          \* fiber -> its drain: "none", "drain", "callback"
    scopes,      \* fiber -> its calls of the pump that keep switches deferred
    alarmDepth,  \* g_alarmProcessDepth
    drainDepth,  \* g_nandCallbackDrainDepth
    queue,       \* the alarm list, soonest first
    fire,        \* alarm -> fire time
    periodic,    \* alarms with a period
    now,         \* system time
    pending,     \* g_pendingNandCallbacks, as numbers in the order queued
    queued       \* callbacks ever queued

sched == <<status, running, host, resched>>
frames == <<al, dr, scopes, alarmDepth, drainDepth>>
list == <<queue, fire, periodic>>
calls == <<pending, queued>>
vars == <<status, running, host, disable, resched, al, dr, scopes, alarmDepth,
          drainDepth, queue, fire, periodic, now, pending, queued>>

Ready == {f \in Fibers : status[f] = "ready"}

\* The calls of the pump a fiber may have open: one from plain guest code and
\* one more from inside a completion callback.
Levels == {"outer", "inner"}
Level(f) == IF dr[f] = "none" THEN "outer" ELSE "inner"

(***************************************************************************)
(* The scheduler, as far as the pump sees it (see GuestScheduler)          *)
(***************************************************************************)

SwitchTo(g, st) ==
    /\ status' = [st EXCEPT ![g] = "running"]
    /\ running' = g
    /\ host' = g
    /\ resched' = FALSE

\* The most urgent of a set; the order of equals is left open.
Most(s) == {g \in s : \A h \in s : Priority[g] <= Priority[h]}

\* SelectThread(0), as called after a wakeup: only from a running thread with
\* switches allowed, and only to a more urgent one.  `count` is the disable
\* count and `st` the thread states at the call.
SelectThread(count, st, wanted) ==
    LET better == {g \in Fibers : st[g] = "ready" /\ Priority[g] < Priority[running]}
    IN  IF count = 0 /\ running # Idle /\ better # {}
        THEN \E g \in Most(better) : SwitchTo(g, [st EXCEPT ![running] = "ready"])
        ELSE status' = st /\ resched' = wanted /\ UNCHANGED <<running, host>>

\* Does nothing unless a wakeup asked for it.
RunDeferredReschedule(count) ==
    IF resched THEN SelectThread(count, status, TRUE) ELSE UNCHANGED sched

\* Guest code runs on the host stack: as a thread, a handler or a callback.
InGuestCode ==
    IF al[host] # "none" THEN al[host] = "handler"
    ELSE IF dr[host] # "none" THEN dr[host] = "callback"
    ELSE running = host

\* Wakes a waiting thread.  The switch is immediate unless it is disabled.
OSWakeupThread(g) ==
    /\ InGuestCode
    /\ status[g] = "waiting"
    /\ SelectThread(disable, [status EXCEPT ![g] = "ready"], TRUE)
    /\ UNCHANGED <<disable, frames, list, now, calls>>

\* A thread put to sleep where the scheduler may not switch away from it.
OSSleepThread_Unchecked ==
    /\ InGuestCode /\ running = host /\ dr[host] = "none"
    /\ IF Ready # {}
       THEN \E g \in Most(Ready) : SwitchTo(g, [status EXCEPT ![host] = "waiting"])
       ELSE /\ status' = [status EXCEPT ![host] = "waiting"]
            /\ running' = Idle
            /\ UNCHANGED <<host, resched>>
    /\ UNCHANGED <<disable, frames, list, now, calls>>

\* A thread blocks, unless the scheduler may not switch away from it.  With
\* nobody ready its host stack enters the idle loop.  A completion callback
\* does not block: it is interrupt code of the guest ("the guest callback that
\* is blocking here must not block", os_sleep.cpp).
OSSleepThread ==
    /\ InGuestCode /\ running = host /\ dr[host] = "none"
    /\ disable = 0
    /\ IF Ready # {}
       THEN \E g \in Most(Ready) : SwitchTo(g, [status EXCEPT ![host] = "waiting"])
       ELSE /\ status' = [status EXCEPT ![host] = "waiting"]
            /\ running' = Idle
            /\ UNCHANGED <<host, resched>>
    /\ UNCHANGED <<disable, frames, list, now, calls>>

\* The idle loop leaves when somebody has become ready.
IdleSelect ==
    /\ running = Idle
    /\ al[host] = "none" /\ dr[host] = "none"
    /\ Ready # {}
    /\ \E g \in Most(Ready) : SwitchTo(g, status)
    /\ UNCHANGED <<disable, frames, list, now, calls>>

(***************************************************************************)
(* Alarms                                                                  *)
(***************************************************************************)

\* An alarm placed one too far to the front.
InsertAlarm_OneEarly(q, a, at) ==
    LET k == Cardinality({i \in DOMAIN q : fire[q[i]] < at - 1}) IN InsertAt(q, k + 1, a)

\* The list is kept by fire time; an alarm goes after those that are no later.
InsertAlarm(q, a, at) ==
    LET k == Cardinality({i \in DOMAIN q : fire[q[i]] <= at}) IN InsertAt(q, k + 1, a)

\* OSSetAlarm, or OSSetPeriodicAlarm, which inserts with the translated
\* InsertAlarm.  The guest does not set an alarm that is in the list.
OSSetAlarm(a, delay, period) ==
    /\ InGuestCode
    /\ a \notin Range(queue)
    /\ now + delay <= MaxTime
    /\ queue' = InsertAlarm(queue, a, now + delay)
    /\ fire' = [fire EXCEPT ![a] = now + delay]
    /\ periodic' = IF period THEN periodic \cup {a} ELSE periodic \ {a}
    /\ UNCHANGED <<sched, disable, frames, now, calls>>

Tick ==
    /\ now < MaxTime
    /\ now' = now + 1
    /\ UNCHANGED <<sched, disable, frames, list, calls>>

(***************************************************************************)
(* The pump                                                                *)
(***************************************************************************)

\* From guest code (PPCMtdec, with switches allowed; the renderer's waits, with
\* switches deferred) or from the idle loop.  A pump called while any fiber is
\* in its alarm loop returns at once, which is no step.
ProcessAlarmQueue(deferred) ==
    /\ InGuestCode \/ (running = Idle /\ al[host] = "none" /\ dr[host] = "none" /\ ~deferred)
    /\ alarmDepth = 0
    /\ alarmDepth' = alarmDepth + 1
    /\ al' = [al EXCEPT ![host] = "loop"]
    /\ scopes' = [scopes EXCEPT ![host] = IF deferred THEN @ \cup {Level(host)} ELSE @]
    /\ disable' = IF deferred THEN disable + 1 ELSE disable
    /\ UNCHANGED <<sched, dr, drainDepth, list, now, calls>>

HeadIsDue == queue # <<>> /\ fire[Head(queue)] <= now

\* A handler entered without keeping switches out.
EnterHandler_NoDisable == al' = [al EXCEPT ![host] = "handler"] /\ UNCHANGED disable

EnterHandler == al' = [al EXCEPT ![host] = "handler"] /\ disable' = disable + 1

\* The head alarm is due: it is unlinked, put back when it is periodic, and
\* its handler is entered with switches disabled.
DispatchAlarm ==
    /\ al[host] \in {"loop", "more"}
    /\ HeadIsDue
    /\ LET a == Head(queue) IN
        \/ /\ a \notin periodic
           /\ queue' = Tail(queue)
           /\ UNCHANGED fire
        \/ /\ a \in periodic
           /\ now < MaxTime
           /\ queue' = InsertAlarm(Tail(queue), a, now + 1)
           /\ fire' = [fire EXCEPT ![a] = now + 1]
    /\ EnterHandler
    /\ UNCHANGED <<sched, dr, scopes, alarmDepth, drainDepth, periodic, now, calls>>

\* The handler returns and a thread it woke may take over, with the alarm
\* guard still raised.
HandlerReturns ==
    /\ al[host] = "handler"
    /\ disable' = disable - 1
    /\ al' = [al EXCEPT ![host] = "more"]
    /\ RunDeferredReschedule(disable - 1)
    /\ UNCHANGED <<dr, scopes, alarmDepth, drainDepth, list, now, calls>>

\* Switches allowed again by a pump that never deferred them.
PumpReturns_Always(level) ==
    /\ disable' = disable - 1
    /\ scopes' = [scopes EXCEPT ![host] = @ \ {level}]

\* A call of the pump returns, and with it the scope around a deferred one.
PumpReturns(level) ==
    /\ disable' = IF level \in scopes[host] THEN disable - 1 ELSE disable
    /\ scopes' = [scopes EXCEPT ![host] = @ \ {level}]

\* A drain may start while another fiber is inside one.
DrainRefused_Never == FALSE

\* A drain is refused while any fiber is inside one.
DrainRefused == drainDepth # 0

\* The alarm loop ends: nothing is due, or something was dispatched and its
\* limit is reached.  The network completions committed next wake threads and
\* queue callbacks (see NetworkDeferred); then the drain is entered.
AlarmsDone ==
    /\ al[host] = "more" \/ (al[host] = "loop" /\ ~HeadIsDue)
    /\ alarmDepth' = alarmDepth - 1
    /\ al' = [al EXCEPT ![host] = "none"]
    /\ \E woken \in SUBSET {f \in Fibers : status[f] = "waiting"}, n \in 0 .. 1 :
        LET st == [f \in Fibers |-> IF f \in woken THEN "ready" ELSE status[f]] IN
        /\ queued + n <= MaxCallbacks
        /\ queued' = queued + n
        /\ pending' = IF n = 1 THEN Append(pending, queued + 1) ELSE pending
        /\ IF ~DrainRefused
           THEN /\ drainDepth' = drainDepth + 1
                /\ dr' = [dr EXCEPT ![host] = "drain"]
                /\ status' = st
                /\ resched' = (resched \/ woken # {})
                /\ UNCHANGED <<running, host, disable, scopes>>
           ELSE /\ IF woken # {} \/ (n = 1 /\ resched)
                   THEN SelectThread(disable, st, TRUE)
                   ELSE UNCHANGED sched
                /\ PumpReturns(Level(host))
                /\ UNCHANGED <<dr, drainDepth>>
    /\ UNCHANGED <<list, now>>

\* An asynchronous call of the guest queues its completion callback.
InvokeNandCallback ==
    /\ InGuestCode
    /\ queued < MaxCallbacks
    /\ queued' = queued + 1
    /\ pending' = Append(pending, queued + 1)
    /\ UNCHANGED <<sched, disable, frames, list, now>>

DrainNext ==
    /\ al[host] = "none" /\ dr[host] = "drain"
    /\ pending # <<>>
    /\ pending' = Tail(pending)
    /\ dr' = [dr EXCEPT ![host] = "callback"]
    /\ UNCHANGED <<sched, disable, al, scopes, alarmDepth, drainDepth, list, now, queued>>

CallbackReturns ==
    /\ al[host] = "none" /\ dr[host] = "callback"
    /\ dr' = [dr EXCEPT ![host] = "drain"]
    /\ UNCHANGED <<sched, disable, al, scopes, alarmDepth, drainDepth, list, now, calls>>

\* The drain ends, its queue empty or its limit reached, and a thread woken by
\* the completions or the callbacks may take over.  Without any completion or
\* callback the reschedule is skipped.
DrainDone ==
    /\ al[host] = "none" /\ dr[host] = "drain"
    /\ drainDepth' = drainDepth - 1
    /\ dr' = [dr EXCEPT ![host] = "none"]
    /\ RunDeferredReschedule(disable) \/ UNCHANGED sched
    /\ PumpReturns("outer")
    /\ UNCHANGED <<al, alarmDepth, list, now, calls>>

Init ==
    /\ \E f \in Fibers :
        /\ status = [g \in Fibers |-> IF g = f THEN "running" ELSE "waiting"]
        /\ running = f
        /\ host = f
    /\ disable = 0
    /\ resched = FALSE
    /\ al = [f \in Fibers |-> "none"]
    /\ dr = [f \in Fibers |-> "none"]
    /\ scopes = [f \in Fibers |-> {}]
    /\ alarmDepth = 0
    /\ drainDepth = 0
    /\ queue = <<>>
    /\ fire = [a \in Alarms |-> 0]
    /\ periodic = {}
    /\ now = 0
    /\ pending = <<>>
    /\ queued = 0

Next ==
    \/ \E f \in Fibers : OSWakeupThread(f)
    \/ OSSleepThread
    \/ IdleSelect
    \/ \E a \in Alarms, delay \in 0 .. MaxTime, period \in BOOLEAN : OSSetAlarm(a, delay, period)
    \/ Tick
    \/ \E deferred \in BOOLEAN : ProcessAlarmQueue(deferred)
    \/ DispatchAlarm
    \/ HandlerReturns
    \/ AlarmsDone
    \/ InvokeNandCallback
    \/ DrainNext
    \/ CallbackReturns
    \/ DrainDone

Spec == Init /\ [][Next]_vars

(***************************************************************************)
(* Properties                                                              *)
(***************************************************************************)

\* Type correctness of the scheduler's state, the frames, the guards and the
\* two queues.
TypeOK ==
    /\ status \in [Fibers -> {"running", "ready", "waiting"}]
    /\ running \in Fibers \cup {Idle}
    /\ host \in Fibers
    /\ disable \in Nat
    /\ resched \in BOOLEAN
    /\ al \in [Fibers -> {"none", "loop", "more", "handler"}]
    /\ dr \in [Fibers -> {"none", "drain", "callback"}]
    /\ scopes \in [Fibers -> SUBSET Levels]
    /\ alarmDepth \in Nat
    /\ drainDepth \in Nat
    /\ queue \in Seq(Alarms)
    /\ fire \in [Alarms -> 0 .. MaxTime]
    /\ periodic \subseteq Alarms
    /\ now \in 0 .. MaxTime
    /\ pending \in Seq(1 .. MaxCallbacks)
    /\ queued \in 0 .. MaxCallbacks

\* The recursion guards are shared by all fibers, and each counts exactly the
\* frames that raised it: over all host stacks there is never more than one
\* alarm loop and one drain, however the fibers switch inside them, so
\* callbacks are dispatched flat (nand_async.cpp:59) and neither guard is left
\* raised by a pump that has returned.
GuardsMatchFrames ==
    /\ alarmDepth = Cardinality({f \in Fibers : al[f] # "none"}) /\ alarmDepth <= 1
    /\ drainDepth = Cardinality({f \in Fibers : dr[f] # "none"}) /\ drainDepth <= 1

\* An alarm handler, and a pump called with switches deferred, are never
\* switched away from: only the fiber executing on the host has one open, and
\* the scheduler's disable count is exactly the number it has open.
HandlersNotPreempted ==
    /\ \A f \in Fibers : al[f] = "handler" \/ scopes[f] # {} => f = host
    /\ disable = Cardinality(scopes[host]) + (IF al[host] = "handler" THEN 1 ELSE 0)

\* A fiber that holds a guard can always go on: it executes, or it is READY, so
\* a refused pump is refused on behalf of a thread the scheduler will resume,
\* never of one that waits for what the pump would deliver.
HoldersRunnable ==
    \A f \in Fibers : al[f] # "none" \/ dr[f] # "none" => f = host \/ status[f] = "ready"

\* The alarm list stays in order of fire time and holds no alarm twice, also
\* when a periodic alarm is put back in front of its own handler and handlers
\* set further alarms.
AlarmsSorted ==
    /\ \A i, j \in DOMAIN queue : i < j => fire[queue[i]] <= fire[queue[j]]
    /\ IsInjective(queue)
==============================================================================
