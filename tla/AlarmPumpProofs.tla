--------------------------- MODULE AlarmPumpProofs ---------------------------
(***************************************************************************)
(* Proofs about AlarmPump, for any set of fibers, alarms and callbacks and  *)
(* any priorities.                                                         *)
(*                                                                         *)
(* None of the three properties of the guards is inductive alone.  That a  *)
(* handler is not preempted needs the disable count to be what the         *)
(* executing fiber has open, which needs every open scope to sit on a      *)
(* frame of the pump, and that in turn needs the guards to match the       *)
(* frames.  The alarm list is sorted on its own; the types rest on both.   *)
(***************************************************************************)
EXTENDS AlarmPump, SequenceLemmas, FiniteSetTheorems

\* What a fiber's thread may be doing.
States == {"running", "ready", "waiting"}

\* The running thread is the one whose host stack executes.
Sched ==
    /\ status \in [Fibers -> States]
    /\ running \in Fibers \cup {Idle}
    /\ host \in Fibers
    /\ running # Idle => running = host /\ status[host] = "running"
    /\ \A f \in Fibers : status[f] = "running" => f = running

\* What a fiber may have open: an alarm loop, a drain, deferring scopes.
Frames ==
    /\ al \in [Fibers -> {"none", "loop", "more", "handler"}]
    /\ dr \in [Fibers -> {"none", "drain", "callback"}]
    /\ scopes \in [Fibers -> SUBSET Levels]

\* The guards, without counting.
OneLoop ==
    /\ \A f, g \in Fibers : al[f] # "none" /\ al[g] # "none" => f = g
    /\ alarmDepth = IF \E f \in Fibers : al[f] # "none" THEN 1 ELSE 0

\* Callbacks are drained by at most one fiber, and the guard says whether by one.
OneDrain ==
    /\ \A f, g \in Fibers : dr[f] # "none" /\ dr[g] # "none" => f = g
    /\ drainDepth = IF \E f \in Fibers : dr[f] # "none" THEN 1 ELSE 0

\* An open scope sits on a frame of the pump.
ScopesHeld ==
    \A f \in Fibers :
        /\ "outer" \in scopes[f] => al[f] # "none" \/ dr[f] # "none"
        /\ "inner" \in scopes[f] => al[f] # "none" /\ dr[f] # "none"

\* What fiber f has open that keeps switches out.
Open(f) ==
    (IF "outer" \in scopes[f] THEN 1 ELSE 0) + (IF "inner" \in scopes[f] THEN 1 ELSE 0)
        + (IF al[f] = "handler" THEN 1 ELSE 0)

\* Only the executing fiber keeps switches out.
Deferring ==
    /\ \A f \in Fibers : al[f] = "handler" \/ scopes[f] # {} => f = host
    /\ disable = Open(host)

\* The inductive invariant of the guards.
Inv == Sched /\ Frames /\ OneLoop /\ OneDrain /\ ScopesHeld /\ Deferring /\ HoldersRunnable

\* Nothing moves, or a switch from the running thread to a ready one.
Moves(count, st) ==
    \/ status' = st /\ UNCHANGED <<running, host>>
    \/ /\ count = 0 /\ running # Idle
       /\ \E g \in Fibers :
            /\ st[g] = "ready"
            /\ status' = [[st EXCEPT ![running] = "ready"] EXCEPT ![g] = "running"]
            /\ running' = g /\ host' = g

USE IdleOK, PriorityOK

\* SelectThread and RunDeferredReschedule only ever make such a move.
LEMMA SelectMoves ==
    ASSUME NEW count, NEW st, NEW wanted
    PROVE  /\ SelectThread(count, st, wanted) => Moves(count, st)
           /\ RunDeferredReschedule(count) => Moves(count, status)
<1>1. ASSUME NEW s, NEW w, SelectThread(count, s, w)
      PROVE  Moves(count, s)
    BY <1>1 DEF SelectThread, SwitchTo, Most, Moves
<1>2. ASSUME RunDeferredReschedule(count)
      PROVE  Moves(count, status)
    <2>1. CASE resched
        BY <1>1, <1>2, <2>1 DEF RunDeferredReschedule
    <2>2. CASE ~resched
        BY <1>2, <2>2 DEF RunDeferredReschedule, sched, Moves
    <2> QED BY <2>1, <2>2
<1> QED BY <1>1, <1>2

\* A move keeps the scheduler consistent and whoever could go on can still go on;
\* if it changes the executing fiber, switches were allowed.
LEMMA Moved ==
    ASSUME Sched, NEW count, NEW st \in [Fibers -> States],
           \A f \in Fibers : st[f] = status[f] \/ (status[f] = "waiting" /\ st[f] = "ready"),
           Moves(count, st)
    PROVE  /\ Sched'
           /\ \A f \in Fibers : f = host \/ status[f] = "ready" =>
                                f = host' \/ status'[f] = "ready"
           /\ host' # host => count = 0
<1>1. CASE status' = st /\ UNCHANGED <<running, host>>
    BY <1>1 DEF Sched, States
<1>2. ASSUME count = 0, running # Idle, NEW g \in Fibers, st[g] = "ready",
             status' = [[st EXCEPT ![running] = "ready"] EXCEPT ![g] = "running"],
             running' = g, host' = g
      PROVE  /\ Sched'
             /\ \A f \in Fibers : f = host \/ status[f] = "ready" =>
                                  f = host' \/ status'[f] = "ready"
    <2>1. running = host /\ running \in Fibers
        BY <1>2 DEF Sched
    <2>2. \A f \in Fibers : status'[f] = IF f = g THEN "running"
                                        ELSE IF f = running THEN "ready" ELSE st[f]
        BY <1>2, <2>1
    <2>3. status' \in [Fibers -> States]
        BY <1>2, <2>1 DEF States
    <2>4. \A f \in Fibers : status'[f] = "running" => f = g
        BY <2>2 DEF Sched
    <2> QED BY <1>2, <2>1, <2>2, <2>3, <2>4 DEF Sched
<1> QED BY <1>1, <1>2 DEF Moves

\* The initial states satisfy the invariant.
LEMMA InitInv == Init => Inv
<1> SUFFICES ASSUME Init PROVE Inv
    OBVIOUS
<1>1. Sched
    BY DEF Init, Sched, States
<1>2. Frames /\ OneLoop /\ OneDrain /\ ScopesHeld /\ HoldersRunnable
    BY DEF Init, Frames, OneLoop, OneDrain, ScopesHeld, HoldersRunnable
<1>3. Deferring
    BY <1>1 DEF Init, Deferring, Open, Sched
<1> QED BY <1>1, <1>2, <1>3 DEF Inv

\* A step that leaves the frames and the disable count alone, and that moves to
\* another fiber only with switches allowed, preserves the invariant.
LEMMA SchedulerStep ==
    ASSUME Inv, NEW st \in [Fibers -> States],
           \A f \in Fibers : st[f] = status[f] \/ (status[f] = "waiting" /\ st[f] = "ready"),
           Moves(disable, st), UNCHANGED <<disable, frames>>
    PROVE  Inv'
<1> USE DEF Inv
<1>1. /\ Sched'
      /\ \A f \in Fibers : f = host \/ status[f] = "ready" => f = host' \/ status'[f] = "ready"
      /\ host' # host => disable = 0
    BY Moved
<1>2. UNCHANGED <<disable, al, dr, scopes, alarmDepth, drainDepth>>
    BY DEF frames
<1>3. (Frames /\ OneLoop /\ OneDrain /\ ScopesHeld)'
    BY <1>2 DEF Frames, OneLoop, OneDrain, ScopesHeld
<1>4. HoldersRunnable'
    BY <1>1, <1>2 DEF HoldersRunnable
<1>5. Deferring'
    <2>1. CASE host' = host
        BY <1>2, <2>1 DEF Deferring, Open
    <2>2. CASE host' # host
        <3>1. disable = 0 /\ host' \in Fibers
            BY <1>1, <2>2 DEF Sched
        <3>2. al[host] # "handler" /\ scopes[host] = {}
            BY <3>1 DEF Deferring, Open, Frames, Levels, Sched
        <3>3. \A f \in Fibers : al[f] # "handler" /\ scopes[f] = {}
            BY <3>2 DEF Deferring
        <3> QED BY <1>2, <3>1, <3>3 DEF Deferring, Open
    <2> QED BY <2>1, <2>2
<1> QED BY <1>1, <1>3, <1>4, <1>5
\* With switches allowed the executing fiber is in no handler and in no scope,
\* and neither is any other.
LEMMA NothingOpen ==
    ASSUME Inv, disable = 0
    PROVE  \A f \in Fibers : al[f] # "handler" /\ scopes[f] = {}
<1>1. al[host] # "handler" /\ scopes[host] = {}
    BY DEF Inv, Deferring, Open, Frames, Levels, Sched
<1> QED BY <1>1 DEF Inv, Deferring

\* A thread blocking, with somebody ready or not, preserves the invariant: it
\* holds no guard.
LEMMA SleepStep ==
    ASSUME Inv, OSSleepThread
    PROVE  Inv'
<1> USE DEF Inv
<1>1. UNCHANGED <<disable, al, dr, scopes, alarmDepth, drainDepth>>
    BY DEF OSSleepThread, frames
<1>2. disable = 0 /\ running = host /\ dr[host] = "none"
    BY DEF OSSleepThread
<1>3. \A f \in Fibers : al[f] # "handler" /\ scopes[f] = {}
    BY <1>2, NothingOpen
<1>4. al[host] = "none" /\ host \in Fibers
    BY <1>3 DEF OSSleepThread, InGuestCode, Sched
<1>5. (Frames /\ OneLoop /\ OneDrain /\ ScopesHeld)'
    BY <1>1 DEF Frames, OneLoop, OneDrain, ScopesHeld
<1>6. \A f \in Fibers : al[f] # "none" \/ dr[f] # "none" => status[f] = "ready" /\ f # host
    BY <1>2, <1>4 DEF HoldersRunnable
<1>7. CASE Ready # {}
    <2>1. PICK g \in Ready :
            /\ status' = [[status EXCEPT ![host] = "waiting"] EXCEPT ![g] = "running"]
            /\ running' = g /\ host' = g
        BY <1>7 DEF OSSleepThread, SwitchTo, Most
    <2>2. g \in Fibers /\ status[g] = "ready" /\ g # host
        BY <1>2 DEF Ready, Sched
    <2>3. \A f \in Fibers : status'[f] = IF f = g THEN "running"
                                        ELSE IF f = host THEN "waiting" ELSE status[f]
        BY <2>1, <2>2 DEF Sched
    <2>4. status' \in [Fibers -> States]
        BY <2>1 DEF Sched, States
    <2>5. Sched'
        BY <1>2, <2>1, <2>2, <2>3, <2>4 DEF Sched
    <2>6. HoldersRunnable'
        BY <1>1, <1>6, <2>1, <2>3 DEF HoldersRunnable
    <2>7. Deferring'
        BY <1>1, <1>2, <1>3, <2>1, <2>2 DEF Deferring, Open
    <2> QED BY <1>5, <2>5, <2>6, <2>7
<1>8. CASE Ready = {}
    <2>1. /\ status' = [status EXCEPT ![host] = "waiting"]
          /\ running' = Idle /\ host' = host
        BY <1>8 DEF OSSleepThread
    <2>2. \A f \in Fibers : status'[f] = IF f = host THEN "waiting" ELSE status[f]
        BY <2>1 DEF Sched
    <2>3. Sched'
        BY <1>2, <2>1, <2>2 DEF Sched, States
    <2>4. HoldersRunnable'
        BY <1>1, <1>6, <2>1, <2>2 DEF HoldersRunnable
    <2>5. Deferring'
        BY <1>1, <2>1 DEF Deferring, Open
    <2> QED BY <1>5, <2>3, <2>4, <2>5
<1> QED BY <1>7, <1>8

\* Leaving the idle loop preserves the invariant: its pump has returned.
LEMMA IdleStep ==
    ASSUME Inv, IdleSelect
    PROVE  Inv'
<1> USE DEF Inv
<1>1. UNCHANGED <<disable, al, dr, scopes, alarmDepth, drainDepth>>
    BY DEF IdleSelect, frames
<1>2. running = Idle /\ al[host] = "none" /\ dr[host] = "none" /\ host \in Fibers
    BY DEF IdleSelect, Sched
<1>3. PICK g \in Ready :
        /\ status' = [status EXCEPT ![g] = "running"]
        /\ running' = g /\ host' = g
    BY DEF IdleSelect, SwitchTo, Most
<1>4. g \in Fibers /\ status[g] = "ready"
    BY DEF Ready
<1>5. scopes[host] = {}
    BY <1>2 DEF ScopesHeld, Frames, Levels
<1>6. \A f \in Fibers : al[f] # "handler" /\ scopes[f] = {}
    BY <1>2, <1>5 DEF Deferring
<1>7. disable = 0
    BY <1>2, <1>5 DEF Deferring, Open
<1>8. (Frames /\ OneLoop /\ OneDrain /\ ScopesHeld)'
    BY <1>1 DEF Frames, OneLoop, OneDrain, ScopesHeld
<1>9. Sched'
    BY <1>2, <1>3, <1>4 DEF Sched, States
<1>10. HoldersRunnable'
    BY <1>1, <1>2, <1>3, <1>4 DEF HoldersRunnable, Sched
<1>11. Deferring'
    BY <1>1, <1>3, <1>4, <1>6, <1>7 DEF Deferring, Open
<1> QED BY <1>8, <1>9, <1>10, <1>11

\* Calling the pump preserves the invariant: no loop is open, and a scope of
\* the same level cannot be either.
LEMMA PumpCallStep ==
    ASSUME Inv, NEW deferred \in BOOLEAN, ProcessAlarmQueue(deferred)
    PROVE  Inv'
<1> USE DEF Inv
<1> DEFINE lev == Level(host)
<1>1. UNCHANGED <<status, running, host, dr, drainDepth>>
    BY DEF ProcessAlarmQueue, sched
<1>2. host \in Fibers
    BY DEF Sched
<1>3. \A f \in Fibers : al[f] = "none"
    BY DEF ProcessAlarmQueue, OneLoop
<1>4. al' = [al EXCEPT ![host] = "loop"] /\ alarmDepth' = 1
    BY <1>3 DEF ProcessAlarmQueue
<1>5. lev \in Levels /\ lev \notin scopes[host]
    BY <1>2, <1>3 DEF Level, Levels, ScopesHeld
<1>6. scopes' = [scopes EXCEPT ![host] = IF deferred THEN scopes[host] \cup {lev}
                                         ELSE scopes[host]]
      /\ disable' = IF deferred THEN disable + 1 ELSE disable
    BY DEF ProcessAlarmQueue
<1>7. Frames'
    BY <1>1, <1>2, <1>4, <1>5, <1>6 DEF Frames
<1>8. OneLoop'
    BY <1>2, <1>3, <1>4 DEF OneLoop, Frames
<1>9. OneDrain' /\ Sched'
    BY <1>1 DEF OneDrain, Sched
<1>10. \A f \in Fibers : f # host => al'[f] = al[f] /\ scopes'[f] = scopes[f]
    BY <1>4, <1>6 DEF Frames
<1>11. al'[host] = "loop" /\ scopes'[host] = IF deferred THEN scopes[host] \cup {lev}
                                             ELSE scopes[host]
    BY <1>2, <1>4, <1>6 DEF Frames
<1>12. ScopesHeld'
    BY <1>1, <1>2, <1>10, <1>11 DEF ScopesHeld, Level
<1>13. Deferring'
    <2>1. Open(host)' = disable'
        <3>1. CASE deferred
            BY <1>1, <1>3, <1>5, <1>6, <1>11, <1>2, <3>1 DEF Deferring, Open, Levels
        <3>2. CASE ~deferred
            BY <1>1, <1>3, <1>6, <1>11, <1>2, <3>2 DEF Deferring, Open
        <3> QED BY <3>1, <3>2
    <2> QED BY <1>1, <1>10, <2>1 DEF Deferring
<1>14. HoldersRunnable'
    BY <1>1, <1>10 DEF HoldersRunnable
<1> QED BY <1>7, <1>8, <1>9, <1>12, <1>13, <1>14

\* Entering an alarm handler preserves the invariant.
LEMMA DispatchStep ==
    ASSUME Inv, DispatchAlarm
    PROVE  Inv'
<1> USE DEF Inv
<1>1. UNCHANGED <<status, running, host, dr, scopes, alarmDepth, drainDepth>>
    BY DEF DispatchAlarm, sched
<1>2. host \in Fibers
    BY DEF Sched
<1>3. /\ al[host] # "none" /\ al[host] # "handler"
      /\ al' = [al EXCEPT ![host] = "handler"] /\ disable' = disable + 1
    BY DEF DispatchAlarm, EnterHandler
<1>4. \A f \in Fibers : al'[f] = IF f = host THEN "handler" ELSE al[f]
    BY <1>3 DEF Frames
<1>5. Frames' /\ Sched' /\ OneDrain'
    BY <1>1, <1>3 DEF Frames, Sched, OneDrain
<1>6. OneLoop'
    BY <1>1, <1>2, <1>3, <1>4 DEF OneLoop
<1>7. ScopesHeld' /\ HoldersRunnable'
    BY <1>1, <1>3, <1>4 DEF ScopesHeld, HoldersRunnable
<1>8. Deferring'
    BY <1>1, <1>2, <1>3, <1>4 DEF Deferring, Open
<1> QED BY <1>5, <1>6, <1>7, <1>8

\* The return of a handler, with the switch that may follow, preserves the
\* invariant.
LEMMA HandlerStep ==
    ASSUME Inv, HandlerReturns
    PROVE  Inv'
<1> USE DEF Inv
<1>1. UNCHANGED <<dr, scopes, alarmDepth, drainDepth>> /\ host \in Fibers
    BY DEF HandlerReturns, Sched
<1>2. /\ al[host] = "handler" /\ disable' = disable - 1
      /\ al' = [al EXCEPT ![host] = "more"]
    BY DEF HandlerReturns
<1>3. \A f \in Fibers : al'[f] = IF f = host THEN "more" ELSE al[f]
    BY <1>2 DEF Frames
<1>4. /\ Sched'
      /\ \A f \in Fibers : f = host \/ status[f] = "ready" => f = host' \/ status'[f] = "ready"
      /\ host' # host => disable - 1 = 0
    <2>1. Moves(disable - 1, status)
        BY SelectMoves DEF HandlerReturns
    <2> QED BY <2>1, Moved DEF Sched
<1>5. Frames' /\ OneDrain'
    BY <1>1, <1>2 DEF Frames, OneDrain
<1>6. OneLoop'
    BY <1>1, <1>2, <1>3 DEF OneLoop
<1>7. ScopesHeld' /\ HoldersRunnable'
    BY <1>1, <1>2, <1>3, <1>4 DEF ScopesHeld, HoldersRunnable
<1>8. Deferring'
    <2> DEFINE n == (IF "outer" \in scopes[host] THEN 1 ELSE 0)
                        + (IF "inner" \in scopes[host] THEN 1 ELSE 0)
    <2>1. disable' = n
        BY <1>2 DEF Deferring, Open
    <2>2. \A f \in Fibers : al'[f] # "handler"
        BY <1>1, <1>2, <1>3 DEF Deferring
    <2>3. CASE host' = host
        BY <1>1, <1>3, <2>1, <2>2, <2>3 DEF Deferring, Open
    <2>4. CASE host' # host
        <3>1. n = 0
            BY <1>2, <1>4, <2>1, <2>4
        <3>2. \A f \in Fibers : scopes[f] = {}
            BY <1>1, <3>1 DEF Deferring, Frames, Levels
        <3>3. host' \in Fibers
            BY <1>4 DEF Sched
        <3> QED BY <1>1, <2>1, <2>2, <3>1, <3>2, <3>3 DEF Deferring, Open
    <2> QED BY <2>3, <2>4
<1> QED BY <1>4, <1>5, <1>6, <1>7, <1>8
\* A pump that returns closes the scope it was called with, if any.
LEMMA Returned ==
    ASSUME Inv, al[host] # "handler", NEW level \in Levels, PumpReturns(level)
    PROVE  /\ scopes' \in [Fibers -> SUBSET Levels]
           /\ \A f \in Fibers : scopes'[f] = IF f = host THEN scopes[f] \ {level} ELSE scopes[f]
           /\ disable' = (IF "outer" \in scopes'[host] THEN 1 ELSE 0)
                            + (IF "inner" \in scopes'[host] THEN 1 ELSE 0)
<1>1. /\ scopes' = [scopes EXCEPT ![host] = scopes[host] \ {level}]
      /\ disable' = IF level \in scopes[host] THEN disable - 1 ELSE disable
    BY DEF PumpReturns
<1>2. host \in Fibers /\ scopes \in [Fibers -> SUBSET Levels]
    BY DEF Inv, Sched, Frames
<1>3. disable = (IF "outer" \in scopes[host] THEN 1 ELSE 0)
                    + (IF "inner" \in scopes[host] THEN 1 ELSE 0)
    BY DEF Inv, Deferring, Open
<1>4. scopes'[host] = scopes[host] \ {level}
    BY <1>1, <1>2
<1>5. CASE level = "outer"
    BY <1>1, <1>2, <1>3, <1>4, <1>5
<1>6. CASE level = "inner"
    BY <1>1, <1>2, <1>3, <1>4, <1>6
<1> QED BY <1>1, <1>2, <1>5, <1>6 DEF Levels

\* The end of the alarm loop, with the network completions it commits,
\* preserves the invariant whether the drain is entered or refused.
LEMMA AlarmsDoneStep ==
    ASSUME Inv, AlarmsDone
    PROVE  Inv'
<1> USE DEF Inv
<1>1. host \in Fibers /\ al[host] # "none" /\ al[host] # "handler"
    BY DEF AlarmsDone, Sched
<1>2. al' = [al EXCEPT ![host] = "none"] /\ alarmDepth' = alarmDepth - 1
    BY DEF AlarmsDone
<1>3. \A f \in Fibers : al'[f] = "none"
    BY <1>1, <1>2 DEF OneLoop, Frames
<1>4. OneLoop'
    BY <1>1, <1>2, <1>3 DEF OneLoop
<1>5. al' \in [Fibers -> {"none", "loop", "more", "handler"}]
    BY <1>2 DEF Frames
<1>6. PICK woken \in SUBSET {f \in Fibers : status[f] = "waiting"}, n \in 0 .. 1 :
        LET st == [f \in Fibers |-> IF f \in woken THEN "ready" ELSE status[f]] IN
        IF ~DrainRefused
        THEN /\ drainDepth' = drainDepth + 1
             /\ dr' = [dr EXCEPT ![host] = "drain"]
             /\ status' = st
             /\ UNCHANGED <<running, host, disable, scopes>>
        ELSE /\ IF woken # {} \/ (n = 1 /\ resched)
                THEN SelectThread(disable, st, TRUE)
                ELSE UNCHANGED sched
             /\ PumpReturns(Level(host))
             /\ UNCHANGED <<dr, drainDepth>>
    BY DEF AlarmsDone
<1> DEFINE st == [f \in Fibers |-> IF f \in woken THEN "ready" ELSE status[f]]
<1>7. /\ st \in [Fibers -> States]
      /\ \A f \in Fibers : st[f] = status[f] \/ (status[f] = "waiting" /\ st[f] = "ready")
    BY DEF Sched, States
<1>8. CASE ~DrainRefused
    <2>1. /\ drainDepth' = drainDepth + 1
          /\ dr' = [dr EXCEPT ![host] = "drain"]
          /\ status' = st
          /\ UNCHANGED <<running, host, disable, scopes>>
        BY <1>6, <1>8
    <2>2. \A f \in Fibers : dr[f] = "none"
        BY <1>8 DEF DrainRefused, OneDrain
    <2>3. Moves(disable, st)
        BY <2>1 DEF Moves
    <2>4. /\ Sched'
          /\ \A f \in Fibers : f = host \/ status[f] = "ready" => f = host' \/ status'[f] = "ready"
        BY <1>7, <2>3, Moved
    <2>5. \A f \in Fibers : dr'[f] = IF f = host THEN "drain" ELSE "none"
        BY <2>1, <2>2 DEF Frames
    <2>6. OneDrain'
        BY <1>1, <2>1, <2>2, <2>5 DEF OneDrain
    <2>7. Frames'
        BY <1>5, <2>1 DEF Frames
    <2>8. ScopesHeld'
        <3>1. \A f \in Fibers : "inner" \notin scopes[f]
            BY <2>2 DEF ScopesHeld
        <3>2. \A f \in Fibers : scopes[f] # {} => f = host
            BY DEF Deferring
        <3> QED BY <2>1, <2>5, <3>1, <3>2 DEF ScopesHeld
    <2>9. HoldersRunnable'
        BY <1>3, <2>1, <2>5 DEF HoldersRunnable
    <2>10. Deferring'
        BY <1>1, <1>3, <2>1 DEF Deferring, Open
    <2> QED BY <1>4, <2>4, <2>6, <2>7, <2>8, <2>9, <2>10
<1>9. CASE DrainRefused
    <2>1. /\ IF woken # {} \/ (n = 1 /\ resched)
             THEN SelectThread(disable, st, TRUE)
             ELSE UNCHANGED sched
          /\ PumpReturns(Level(host))
          /\ UNCHANGED <<dr, drainDepth>>
        BY <1>6, <1>9
    <2>2. Level(host) \in Levels
        BY DEF Level, Levels
    <2>3. /\ scopes' \in [Fibers -> SUBSET Levels]
          /\ \A f \in Fibers : scopes'[f] = IF f = host THEN scopes[f] \ {Level(host)}
                                           ELSE scopes[f]
          /\ disable' = (IF "outer" \in scopes'[host] THEN 1 ELSE 0)
                            + (IF "inner" \in scopes'[host] THEN 1 ELSE 0)
        BY <1>1, <2>1, <2>2, Returned
    <2>4. /\ Sched'
          /\ \A f \in Fibers : f = host \/ status[f] = "ready" => f = host' \/ status'[f] = "ready"
          /\ host' # host => disable = 0
        <3>1. CASE SelectThread(disable, st, TRUE)
            BY <1>7, <3>1, SelectMoves, Moved
        <3>2. CASE UNCHANGED sched
            BY <3>2 DEF sched, Sched
        <3> QED BY <2>1, <3>1, <3>2
    <2>5. Frames' /\ OneDrain'
        BY <1>5, <2>1, <2>3 DEF Frames, OneDrain
    <2>6. ScopesHeld'
        BY <1>3, <2>1, <2>3 DEF ScopesHeld, Level, Deferring
    <2>7. HoldersRunnable'
        BY <1>3, <2>1, <2>4 DEF HoldersRunnable
    <2>8. Deferring'
        <3>1. CASE host' = host
            BY <1>1, <1>3, <2>3, <3>1 DEF Deferring, Open
        <3>2. CASE host' # host
            <4>1. \A f \in Fibers : scopes[f] = {}
                BY <2>4, <3>2, NothingOpen
            <4>2. \A f \in Fibers : scopes'[f] = {}
                BY <2>3, <4>1
            <4>3. host' \in Fibers
                BY <2>4 DEF Sched
            <4>4. disable' = 0
                BY <1>1, <2>3, <4>2
            <4> QED BY <1>3, <4>2, <4>3, <4>4 DEF Deferring, Open
        <3> QED BY <3>1, <3>2
    <2> QED BY <1>4, <2>4, <2>5, <2>6, <2>7, <2>8
<1> QED BY <1>8, <1>9

\* Entering and leaving a completion callback preserves the invariant.
LEMMA CallbackStep ==
    ASSUME Inv, DrainNext \/ CallbackReturns
    PROVE  Inv'
<1> USE DEF Inv
<1>1. UNCHANGED <<status, running, host, disable, al, scopes, alarmDepth, drainDepth>>
    BY DEF DrainNext, CallbackReturns, sched
<1>2. PICK v \in {"drain", "callback"} : dr' = [dr EXCEPT ![host] = v]
    BY DEF DrainNext, CallbackReturns
<1>3. dr[host] # "none" /\ host \in Fibers
    BY DEF DrainNext, CallbackReturns, Sched
<1>4. \A f \in Fibers : dr'[f] # "none" <=> dr[f] # "none"
    BY <1>2, <1>3 DEF Frames
<1>5. Frames' /\ Sched' /\ OneLoop'
    BY <1>1, <1>2 DEF Frames, Sched, OneLoop
<1>6. OneDrain' /\ ScopesHeld' /\ HoldersRunnable'
    BY <1>1, <1>4 DEF OneDrain, ScopesHeld, HoldersRunnable
<1>7. Deferring'
    BY <1>1 DEF Deferring, Open
<1> QED BY <1>5, <1>6, <1>7

\* The end of the drain, with the switch that may follow, preserves the
\* invariant.
LEMMA DrainDoneStep ==
    ASSUME Inv, DrainDone
    PROVE  Inv'
<1> USE DEF Inv
<1>1. host \in Fibers /\ al[host] = "none" /\ dr[host] = "drain"
    BY DEF DrainDone, Sched
<1>2. /\ dr' = [dr EXCEPT ![host] = "none"] /\ drainDepth' = drainDepth - 1
      /\ UNCHANGED <<al, alarmDepth>>
    BY DEF DrainDone
<1>3. \A f \in Fibers : dr'[f] = "none"
    BY <1>1, <1>2 DEF OneDrain, Frames
<1>4. OneDrain'
    BY <1>1, <1>2, <1>3 DEF OneDrain
<1>5. /\ scopes' \in [Fibers -> SUBSET Levels]
      /\ \A f \in Fibers : scopes'[f] = IF f = host THEN scopes[f] \ {"outer"} ELSE scopes[f]
      /\ disable' = (IF "outer" \in scopes'[host] THEN 1 ELSE 0)
                        + (IF "inner" \in scopes'[host] THEN 1 ELSE 0)
    <2>1. PumpReturns("outer") /\ "outer" \in Levels
        BY DEF DrainDone, Levels
    <2> QED BY <1>1, <2>1, Returned
<1>6. \A f \in Fibers : scopes'[f] = {}
    <2>1. "inner" \notin scopes[host]
        BY <1>1 DEF ScopesHeld
    <2>2. \A f \in Fibers : f # host => scopes[f] = {}
        BY DEF Deferring
    <2>3. scopes[host] \subseteq Levels
        BY <1>1 DEF Frames
    <2> QED BY <1>5, <2>1, <2>2, <2>3 DEF Levels
<1>7. /\ Sched'
      /\ \A f \in Fibers : f = host \/ status[f] = "ready" => f = host' \/ status'[f] = "ready"
      /\ host' # host => disable = 0
    <2>1. Moves(disable, status)
        BY SelectMoves DEF DrainDone, sched, Moves
    <2> QED BY <2>1, Moved DEF Sched
<1>8. Frames' /\ OneLoop'
    BY <1>2, <1>5 DEF Frames, OneLoop
<1>9. ScopesHeld'
    BY <1>6 DEF ScopesHeld
<1>10. HoldersRunnable'
    BY <1>2, <1>3, <1>7 DEF HoldersRunnable
<1>11. Deferring'
    <2>1. disable' = 0
        BY <1>1, <1>5, <1>6
    <2>2. \A f \in Fibers : al[f] # "handler"
        BY <1>1 DEF Deferring
    <2>3. host' \in Fibers
        BY <1>7 DEF Sched
    <2> QED BY <1>2, <1>6, <2>1, <2>2, <2>3 DEF Deferring, Open
<1> QED BY <1>4, <1>7, <1>8, <1>9, <1>10, <1>11

\* Every step of the specification preserves the invariant.
LEMMA NextInv == Inv /\ [Next]_vars => Inv'
<1> SUFFICES ASSUME Inv, [Next]_vars PROVE Inv'
    OBVIOUS
<1>1. ASSUME UNCHANGED <<sched, disable, frames>>
      PROVE  Inv'
    <2>1. UNCHANGED <<status, running, host, disable, al, dr, scopes, alarmDepth, drainDepth>>
        BY <1>1 DEF sched, frames
    <2>2. (Sched /\ Frames /\ HoldersRunnable)'
        BY <2>1 DEF Inv, Sched, Frames, HoldersRunnable
    <2>3. (OneLoop /\ OneDrain /\ ScopesHeld)'
        BY <2>1 DEF Inv, OneLoop, OneDrain, ScopesHeld
    <2>4. Deferring'
        BY <2>1 DEF Inv, Deferring, Open
    <2> QED BY <2>2, <2>3, <2>4 DEF Inv
<1>2. CASE UNCHANGED vars
    BY <1>1, <1>2 DEF vars, sched, frames
<1>3. ASSUME NEW a \in Alarms, NEW delay \in 0 .. MaxTime, NEW period \in BOOLEAN,
             OSSetAlarm(a, delay, period)
      PROVE  Inv'
    BY <1>1, <1>3 DEF OSSetAlarm
<1>4. CASE Tick
    BY <1>1, <1>4 DEF Tick
<1>5. CASE InvokeNandCallback
    BY <1>1, <1>5 DEF InvokeNandCallback
<1>6. ASSUME NEW f \in Fibers, OSWakeupThread(f)
      PROVE  Inv'
    <2> DEFINE st == [status EXCEPT ![f] = "ready"]
    <2>1. /\ st \in [Fibers -> States]
          /\ \A g \in Fibers : st[g] = status[g] \/ (status[g] = "waiting" /\ st[g] = "ready")
        BY <1>6 DEF OSWakeupThread, Inv, Sched, States
    <2>2. Moves(disable, st) /\ UNCHANGED <<disable, frames>>
        BY <1>6, SelectMoves DEF OSWakeupThread
    <2> QED BY <2>1, <2>2, SchedulerStep
<1> QED BY <1>2, <1>3, <1>4, <1>5, <1>6, SleepStep, IdleStep, PumpCallStep, DispatchStep,
        HandlerStep, AlarmsDoneStep, CallbackStep, DrainDoneStep DEF Next

\* The inductive invariant holds in every reachable state.
THEOREM Invariance == Spec => []Inv
BY InitInv, NextInv, PTL DEF Spec

\* A set with at most one element has the cardinality its emptiness says.
LEMMA AtMostOne ==
    ASSUME NEW S, \A x, y \in S : x = y
    PROVE  Cardinality(S) = IF S # {} THEN 1 ELSE 0
<1>1. CASE S = {}
    BY <1>1, FS_EmptySet
<1>2. ASSUME NEW x \in S
      PROVE  Cardinality(S) = 1
    <2>1. S = {x}
        BY <1>2
    <2> QED BY <2>1, FS_Singleton
<1> QED BY <1>1, <1>2

\* The recursion guards count exactly the frames that raised them, and over all
\* fibers there is at most one alarm loop and one drain.
THEOREM GuardsAreExact == Spec => []GuardsMatchFrames
<1>1. Inv => GuardsMatchFrames
    <2> SUFFICES ASSUME Inv PROVE GuardsMatchFrames
        OBVIOUS
    <2> DEFINE L == {f \in Fibers : al[f] # "none"}
               D == {f \in Fibers : dr[f] # "none"}
    <2>1. Cardinality(L) = IF L # {} THEN 1 ELSE 0
        BY AtMostOne DEF Inv, OneLoop
    <2>2. Cardinality(D) = IF D # {} THEN 1 ELSE 0
        BY AtMostOne DEF Inv, OneDrain
    <2> QED BY <2>1, <2>2 DEF Inv, OneLoop, OneDrain, GuardsMatchFrames
<1> QED BY <1>1, Invariance, PTL

\* A set of two different elements has cardinality two.
LEMMA TwoElements ==
    ASSUME NEW x, NEW y, x # y
    PROVE  Cardinality({x} \cup {y}) = 2
<1>1. IsFiniteSet({x}) /\ Cardinality({x}) = 1
    BY FS_Singleton
<1>2. Cardinality({x} \cup {y}) = IF y \in {x} THEN Cardinality({x}) ELSE Cardinality({x}) + 1
    BY <1>1, FS_AddElement
<1>3. y \notin {x}
    OBVIOUS
<1> QED BY <1>1, <1>2, <1>3

\* No handler and no deferred pump is ever switched away from.
THEOREM NotPreempted == Spec => []HandlersNotPreempted
<1>1. Inv => HandlersNotPreempted
    <2> SUFFICES ASSUME Inv PROVE HandlersNotPreempted
        OBVIOUS
    <2> DEFINE S == scopes[host]
    <2>1. S \subseteq {"outer", "inner"}
        BY DEF Inv, Sched, Frames, Levels
    <2>2. Cardinality(S) = (IF "outer" \in S THEN 1 ELSE 0) + (IF "inner" \in S THEN 1 ELSE 0)
        <3>1. CASE "outer" \in S /\ "inner" \in S
            <4>1. S = {"outer"} \cup {"inner"}
                BY <2>1, <3>1
            <4>2. Cardinality({"outer"} \cup {"inner"}) = 2
                BY TwoElements
            <4> QED BY <3>1, <4>1, <4>2
        <3>2. CASE ~("outer" \in S /\ "inner" \in S)
            <4>1. \A x, y \in S : x = y
                BY <2>1, <3>2
            <4> QED BY <2>1, <3>2, <4>1, AtMostOne
        <3> QED BY <3>1, <3>2
    <2> QED BY <2>2 DEF Inv, Deferring, Open, HandlersNotPreempted
<1> QED BY <1>1, Invariance, PTL

\* A fiber that holds a recursion guard can always go on.
THEOREM HoldersCanGoOn == Spec => []HoldersRunnable
<1>1. Inv => HoldersRunnable
    BY DEF Inv
<1> QED BY <1>1, Invariance, PTL

(***************************************************************************)
(* The alarm list.                                                         *)
(***************************************************************************)

\* The delays an alarm can be set with.
Delays == 0 .. MaxTime

\* The alarm list holds each alarm once, soonest first.
List ==
    /\ queue \in Seq(Alarms) /\ Distinct(queue) /\ Sorted(fire, queue)
    /\ fire \in [Alarms -> Delays]
    /\ periodic \subseteq Alarms
    /\ now \in Delays

\* The number of alarms that are no later is the place after the last of them.
LEMMA AlarmPlace ==
    ASSUME fire \in [Alarms -> Delays], NEW s \in Seq(Alarms), Sorted(fire, s),
           NEW at \in Int
    PROVE  LET k == Cardinality({i \in DOMAIN s : fire[s[i]] <= at})
           IN  /\ k + 1 \in 1 .. Len(s) + 1
               /\ \A j \in 1 .. (k + 1) - 1 : fire[s[j]] <= at
               /\ k + 1 <= Len(s) => fire[s[k + 1]] >= at
<1> DEFINE S == {i \in DOMAIN s : fire[s[i]] <= at}
           B == {i \in 1 .. Len(s) + 1 : i = Len(s) + 1 \/ ~(fire[s[i]] <= at)}
<1>1. \A i \in 1 .. Len(s) : fire[s[i]] \in Int
    BY DEF Delays
<1>2. DOMAIN s = 1 .. Len(s) /\ Len(s) \in Nat
    OBVIOUS
<1>3. B \in SUBSET Nat /\ Len(s) + 1 \in B
    BY <1>2
<1>4. PICK m \in B : \A n \in B : m <= n
    BY <1>3, LeastNat
<1>5. m \in 1 .. Len(s) + 1 /\ (m <= Len(s) => ~(fire[s[m]] <= at))
    BY <1>2, <1>4
<1>6. ASSUME NEW i \in S PROVE i \in 1 .. m - 1
    <2>1. i \in 1 .. Len(s) /\ fire[s[i]] <= at
        BY <1>2
    <2>2. CASE m <= i
        <3>1. m \in 1 .. Len(s) /\ ~(fire[s[m]] <= at)
            BY <1>5, <2>1, <2>2
        <3>2. fire[s[m]] <= fire[s[i]]
            BY <1>1, <2>1, <2>2, <3>1 DEF Sorted
        <3> QED BY <1>1, <2>1, <3>1, <3>2
    <2> QED BY <1>5, <2>1, <2>2
<1>7. ASSUME NEW i \in 1 .. m - 1 PROVE i \in S
    <2>1. i \in 1 .. Len(s) /\ i \in 1 .. Len(s) + 1 /\ ~(m <= i)
        BY <1>2, <1>5
    <2>2. i \notin B
        BY <1>4, <2>1
    <2> QED BY <1>2, <2>1, <2>2
<1>8. S = 1 .. m - 1
    BY <1>6, <1>7
<1>9. Cardinality(S) = m - 1
    <2>1. Cardinality(1 .. m - 1) = IF 1 > m - 1 THEN 0 ELSE (m - 1) - 1 + 1
        BY <1>5, FS_Interval
    <2>2. Cardinality(1 .. m - 1) = m - 1
        BY <1>5, <2>1
    <2> HIDE DEF S
    <2> QED BY <1>8, <2>2
<1>10. Cardinality(S) + 1 = m
    BY <1>5, <1>9
<1>11. \A j \in 1 .. m - 1 : fire[s[j]] <= at
    BY <1>7
<1>12. m <= Len(s) => fire[s[m]] >= at
    BY <1>1, <1>5
<1> HIDE DEF S
<1> QED BY <1>5, <1>10, <1>11, <1>12 DEF S

\* InsertAlarm keeps the list in order, with the new alarm in it once.
LEMMA AlarmInserted ==
    ASSUME fire \in [Alarms -> Delays], NEW s \in Seq(Alarms), Sorted(fire, s), Distinct(s),
           NEW a \in Alarms, a \notin Elems(s), NEW at \in Delays
    PROVE  /\ InsertAlarm(s, a, at) \in Seq(Alarms) /\ Distinct(InsertAlarm(s, a, at))
           /\ Sorted([fire EXCEPT ![a] = at], InsertAlarm(s, a, at))
<1> DEFINE k == Cardinality({i \in DOMAIN s : fire[s[i]] <= at}) + 1
           fr == [fire EXCEPT ![a] = at]
<1>1. at \in Int /\ \A b \in Elems(s) : b \in Alarms /\ fire[b] \in Int
    BY EmptyElems DEF Delays
<1>2. /\ k \in 1 .. Len(s) + 1 /\ \A j \in 1 .. k - 1 : fire[s[j]] <= at
      /\ k <= Len(s) => fire[s[k]] >= at
    BY <1>1, AlarmPlace
<1>3. fr[a] = at /\ \A b \in Elems(s) : fr[b] = fire[b]
    BY <1>1
<1>4. InsertAlarm(s, a, at) = InsertAt(s, k, a)
    BY DEF InsertAlarm
<1> HIDE DEF k, fr
<1>5. InsertAt(s, k, a) \in Seq(Alarms) /\ Distinct(InsertAt(s, k, a))
    BY <1>2, InsertElems
<1>6. Sorted(fr, InsertAt(s, k, a))
    BY <1>1, <1>2, <1>3, SortedInsert
<1> QED BY <1>4, <1>5, <1>6 DEF fr

\* OSSetAlarm, of a one-shot or a periodic alarm, keeps the list.
LEMMA SetAlarmList ==
    ASSUME List, NEW a \in Alarms, NEW delay \in Delays, NEW period \in BOOLEAN,
           OSSetAlarm(a, delay, period)
    PROVE  List'
<1> USE DEF List
<1>1. now + delay \in Delays
    BY MaxTimeOK DEF OSSetAlarm, Delays
<1>2. a \notin Elems(queue)
    BY DEF OSSetAlarm, Range, Elems
<1> DEFINE at == now + delay
<1>3. queue' = InsertAlarm(queue, a, at) /\ fire' = [fire EXCEPT ![a] = at]
    BY DEF OSSetAlarm
<1>4. periodic' \subseteq Alarms /\ now' = now
    BY DEF OSSetAlarm
<1> HIDE DEF at
<1>5. at \in Delays
    BY <1>1 DEF at
<1>6. fire' \in [Alarms -> Delays]
    BY <1>3, <1>5
<1>7. queue' \in Seq(Alarms) /\ Distinct(queue') /\ Sorted(fire', queue')
    BY <1>2, <1>3, <1>5, AlarmInserted
<1> QED BY <1>4, <1>6, <1>7

\* Dispatching the head alarm keeps the list, also when the alarm is periodic
\* and goes back in.
LEMMA DispatchList ==
    ASSUME List, DispatchAlarm
    PROVE  List'
<1> USE DEF List
<1> DEFINE rest == Tail(queue)
           a == Head(queue)
           at == now + 1
<1>1. queue # <<>> /\ UNCHANGED <<periodic, now>>
    BY DEF DispatchAlarm, HeadIsDue
<1>2. /\ rest \in Seq(Alarms) /\ Distinct(rest) /\ a \in Elems(queue)
      /\ Elems(rest) = Elems(queue) \ {a}
    BY <1>1, TailElems
<1>3. Sorted(fire, rest)
    BY <1>1, SortedTail
<1>4. a \in Alarms
    BY <1>2, EmptyElems
<1>5. \/ queue' = rest /\ fire' = fire
      \/ now < MaxTime /\ queue' = InsertAlarm(rest, a, at) /\ fire' = [fire EXCEPT ![a] = at]
    BY DEF DispatchAlarm
<1>6. CASE queue' = rest /\ fire' = fire
    BY <1>1, <1>2, <1>3, <1>6
<1>7. CASE now < MaxTime /\ queue' = InsertAlarm(rest, a, at) /\ fire' = [fire EXCEPT ![a] = at]
    <2>1. at \in Delays /\ a \notin Elems(rest)
        BY <1>2, <1>7, MaxTimeOK DEF Delays
    <2> HIDE DEF rest, a, at
    <2>2. fire' \in [Alarms -> Delays]
        BY <1>7, <2>1
    <2>3. queue' \in Seq(Alarms) /\ Distinct(queue') /\ Sorted(fire', queue')
        BY <1>2, <1>3, <1>4, <1>7, <2>1, AlarmInserted
    <2> QED BY <1>1, <2>2, <2>3
<1> QED BY <1>5, <1>6, <1>7

\* Every other step leaves the list alone, or lets time pass.
LEMMA ListStep ==
    ASSUME List, [Next]_vars
    PROVE  List'
<1>1. CASE UNCHANGED list /\ now' \in Delays
    BY <1>1 DEF List, list
<1>2. ASSUME NEW a \in Alarms, NEW delay \in 0 .. MaxTime, NEW period \in BOOLEAN,
             OSSetAlarm(a, delay, period)
      PROVE  List'
    BY <1>2, SetAlarmList DEF Delays
<1>3. CASE DispatchAlarm
    BY <1>3, DispatchList
<1>4. CASE Tick
    <2>1. now' \in Delays
        BY <1>4, MaxTimeOK DEF Tick, List, Delays
    <2> QED BY <1>1, <1>4, <2>1 DEF Tick
<1>5. CASE UNCHANGED <<list, now>>
    BY <1>5 DEF List, list
<1>6. \/ \E a \in Alarms, delay \in 0 .. MaxTime, period \in BOOLEAN : OSSetAlarm(a, delay, period)
      \/ DispatchAlarm \/ Tick \/ UNCHANGED <<list, now>>
    <2>1. CASE UNCHANGED vars
        BY <2>1 DEF vars, list
    <2>2. CASE Next
        BY <2>2, Zenon DEF Next, OSWakeupThread, OSSleepThread, IdleSelect, ProcessAlarmQueue,
           HandlerReturns, AlarmsDone, InvokeNandCallback, DrainNext, CallbackReturns, DrainDone
    <2> QED BY <2>1, <2>2
<1> QED BY <1>2, <1>3, <1>4, <1>5, <1>6

\* The list holds each alarm once, soonest first, in every reachable state.
LEMMA ListHolds == Spec => []List
<1>1. Init => List
    BY MaxTimeOK DEF Init, List, Distinct, Sorted, Delays
<1>2. List /\ [Next]_vars => List'
    BY ListStep
<1> QED BY <1>1, <1>2, PTL DEF Spec

\* The alarm list stays in order of fire time and holds no alarm twice, also
\* when OSSetAlarm is called by a handler whose own periodic alarm is already
\* back in the list.
THEOREM AlarmsStaySorted == Spec => []AlarmsSorted
<1>1. ASSUME List PROVE AlarmsSorted
    <2>1. DOMAIN queue = 1 .. Len(queue)
        BY <1>1 DEF List
    <2> QED BY <1>1, <2>1 DEF List, Distinct, Sorted, AlarmsSorted, IsInjective
<1> QED BY <1>1, ListHolds, PTL

\* The numbers of the callbacks queued are those given out so far, and the
\* reschedule flag is a flag.
Calls ==
    /\ resched \in BOOLEAN
    /\ pending \in Seq(1 .. MaxCallbacks)
    /\ queued \in 0 .. MaxCallbacks

\* Every step keeps the callback queue and the reschedule flag well formed.
LEMMA CallsStep ==
    ASSUME Calls, [Next]_vars
    PROVE  Calls'
<1> USE DEF Calls
<1>1. resched' \in BOOLEAN
    <2>1. ASSUME NEW count, NEW st, NEW wanted \in BOOLEAN, SelectThread(count, st, wanted)
          PROVE  resched' \in BOOLEAN
        BY <2>1 DEF SelectThread, SwitchTo
    <2>2. ASSUME NEW count, RunDeferredReschedule(count)
          PROVE  resched' \in BOOLEAN
        BY <2>1, <2>2 DEF RunDeferredReschedule, sched
    <2>3. ASSUME NEW f \in Fibers, OSWakeupThread(f) PROVE resched' \in BOOLEAN
        BY <2>1, <2>3 DEF OSWakeupThread
    <2>4. CASE OSSleepThread
        BY <2>4 DEF OSSleepThread, SwitchTo
    <2>5. CASE IdleSelect
        BY <2>5 DEF IdleSelect, SwitchTo
    <2>6. CASE HandlerReturns
        BY <2>2, <2>6 DEF HandlerReturns
    <2>7. CASE AlarmsDone
        <3>1. PICK woken \in SUBSET {f \in Fibers : status[f] = "waiting"}, n \in 0 .. 1 :
                LET st == [f \in Fibers |-> IF f \in woken THEN "ready" ELSE status[f]] IN
                IF ~DrainRefused
                THEN resched' = (resched \/ woken # {})
                ELSE IF woken # {} \/ (n = 1 /\ resched)
                     THEN SelectThread(disable, st, TRUE)
                     ELSE UNCHANGED sched
            BY <2>7 DEF AlarmsDone
        <3> QED BY <2>1, <3>1 DEF sched
    <2>8. CASE DrainDone
        BY <2>2, <2>8 DEF DrainDone, sched
    <2>9. CASE UNCHANGED resched
        BY <2>9
    <2>10. \/ \E f \in Fibers : OSWakeupThread(f)
           \/ OSSleepThread \/ IdleSelect \/ HandlerReturns \/ AlarmsDone \/ DrainDone
           \/ UNCHANGED resched
        <3>1. CASE UNCHANGED vars
            BY <3>1 DEF vars
        <3>2. CASE Next
            BY <3>2, Zenon DEF Next, OSSetAlarm, Tick, ProcessAlarmQueue, DispatchAlarm,
               InvokeNandCallback, DrainNext, CallbackReturns, sched
        <3> QED BY <3>1, <3>2
    <2> QED BY <2>3, <2>4, <2>5, <2>6, <2>7, <2>8, <2>9, <2>10
<1>2. pending' \in Seq(1 .. MaxCallbacks) /\ queued' \in 0 .. MaxCallbacks
    <2>1. CASE UNCHANGED calls
        BY <2>1 DEF calls
    <2>2. CASE DrainNext
        BY <2>2 DEF DrainNext
    <2>3. CASE InvokeNandCallback
        BY <2>3, MaxCallbacksOK DEF InvokeNandCallback
    <2>4. CASE AlarmsDone
        <3>1. PICK n \in 0 .. 1 : /\ queued + n <= MaxCallbacks
                                  /\ queued' = queued + n
                                  /\ pending' = IF n = 1 THEN Append(pending, queued + 1) ELSE pending
            BY <2>4 DEF AlarmsDone
        <3>2. queued' \in 0 .. MaxCallbacks /\ (n = 1 => queued + 1 \in 1 .. MaxCallbacks)
            BY <3>1, MaxCallbacksOK
        <3>3. CASE n = 1
            <4>1. Append(pending, queued + 1) \in Seq(1 .. MaxCallbacks)
                BY <3>2, <3>3
            <4> QED BY <3>1, <3>2, <3>3, <4>1
        <3>4. CASE n # 1
            BY <3>1, <3>2, <3>4
        <3> QED BY <3>3, <3>4
    <2>5. UNCHANGED calls \/ DrainNext \/ InvokeNandCallback \/ AlarmsDone
        <3>1. CASE UNCHANGED vars
            BY <3>1 DEF vars, calls
        <3>2. CASE Next
            BY <3>2, Zenon DEF Next, OSWakeupThread, OSSleepThread, IdleSelect, OSSetAlarm, Tick,
               ProcessAlarmQueue, DispatchAlarm, HandlerReturns, CallbackReturns, DrainDone
        <3> QED BY <3>1, <3>2
    <2> QED BY <2>1, <2>2, <2>3, <2>4, <2>5
<1> QED BY <1>1, <1>2

\* The scheduler's state, the frames, the guards, the alarm list and the
\* callback queue hold values the code can store there.
THEOREM Types == Spec => []TypeOK
<1>1. ASSUME Init PROVE Calls
    <2>1. pending = <<>> /\ queued = 0 /\ resched = FALSE
        BY <1>1 DEF Init
    <2>2. <<>> \in Seq(1 .. MaxCallbacks) /\ 0 \in 0 .. MaxCallbacks
        BY MaxCallbacksOK
    <2> QED BY <2>1, <2>2 DEF Calls
<1>2. Calls /\ [Next]_vars => Calls'
    BY CallsStep
<1>3. ASSUME Inv, List, Calls PROVE TypeOK
    <2>1. /\ alarmDepth \in Nat /\ drainDepth \in Nat /\ disable \in Nat
        BY <1>3 DEF Inv, OneLoop, OneDrain, Deferring, Open
    <2> QED BY <1>3, <2>1 DEF Inv, Sched, States, Frames, List, Delays, Calls, TypeOK
<1> QED BY <1>1, <1>2, <1>3, Invariance, ListHolds, PTL DEF Spec
==============================================================================
