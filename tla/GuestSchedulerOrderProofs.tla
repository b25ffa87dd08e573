--------------------- MODULE GuestSchedulerOrderProofs ---------------------
(***************************************************************************)
(* What the invariant of GuestSchedulerProofs does not decide: the order of *)
(* the wait queues, what the scheduler still owes (a place in a queue, a    *)
(* mutex to release, joiners to wake, a timer to disarm, a reschedule for a *)
(* more urgent thread), and the priorities that mutexes lend.               *)
(*                                                                          *)
(* What is owed is owed by a frame of the fiber on the host.  A frame that  *)
(* is under another one, or on the fiber of a thread that ended, may never  *)
(* run, so each proof needs to know which frames may lie under which: with  *)
(* mutexes, __OSUnlockAllMutex may switch away from a fiber that is         *)
(* terminated already, and what it owed is lost.  The theorems name the     *)
(* calls for which that cannot happen.                                      *)
(***************************************************************************)
EXTENDS GuestSchedulerProofs

\* Every queue a thread can wait in is in priority order.
Order == \A x \in BlockQueues : Sorted(prio, q[x])

\* Every thread that waits or may run is linked in the queue its pointer names.
Located(st, su, qu, qq) ==
  \A t \in Threads :
    (st[t] = "waiting" \/ (st[t] = "ready" /\ su[t] = 0)) =>
      qu[t] \in Queues /\ t \in Elems(qq[qu[t]])

\* RemoveThreadFromQueue leaves the others of its queue in order.
LEMMA SortedUnlink ==
  ASSUME NEW T, NEW s \in Seq(T), NEW pr, Sorted(pr, s), NEW t
  PROVE  Sorted(pr, Unlink(s, t))
<1>1. CASE ~\E i \in 1 .. Len(s) : s[i] = t
  BY <1>1 DEF Unlink
<1>2. CASE \E i \in 1 .. Len(s) : s[i] = t
  <2> DEFINE k == CHOOSE i \in 1 .. Len(s) : s[i] = t
             r == RemoveAt(s, k)
  <2>1. k \in 1 .. Len(s)
    BY <1>2
  <2>2. Unlink(s, t) = r
    BY <1>2 DEF Unlink
  <2> HIDE DEF k
  <2>3. /\ Len(r) = Len(s) - 1 /\ Len(s) \in Nat
        /\ \A i \in 1 .. Len(s) - 1 : r[i] = IF i < k THEN s[i] ELSE s[i + 1]
    BY <2>1, RemoveAtShape
  <2> HIDE DEF r
  <2>4. ASSUME NEW i \in 1 .. Len(r), NEW j \in 1 .. Len(r), i < j
        PROVE  pr[r[i]] <= pr[r[j]]
    <3> DEFINE m(n) == IF n < k THEN n ELSE n + 1
    <3>1. /\ m(i) \in 1 .. Len(s) /\ m(j) \in 1 .. Len(s) /\ m(i) < m(j)
          /\ r[i] = s[m(i)] /\ r[j] = s[m(j)]
      BY <2>1, <2>3, <2>4
    <3> QED BY <3>1 DEF Sorted
  <2> QED BY <2>2, <2>4 DEF Sorted
<1> QED BY <1>1, <1>2

\* Linking a thread before the first less urgent one keeps the queue sorted.
LEMMA InsertSorted ==
  ASSUME prio \in [Threads -> 0 .. NumPriorities], NEW s \in Seq(Threads), Sorted(prio, s),
         NEW t \in Threads, NEW p \in 0 .. NumPriorities,
         NEW pr, pr[t] = p, \A u \in Elems(s) : pr[u] = prio[u]
  PROVE  Sorted(pr, InsertAt(s, InsertPosition(s, p), t))
<1> DEFINE k == InsertPosition(s, p)
<1>1. /\ k \in 1 .. Len(s) + 1 /\ \A j \in 1 .. k - 1 : prio[s[j]] <= p
      /\ k <= Len(s) => prio[s[k]] > p
  BY InsertPlace
<1>2. \A u \in Elems(s) : u \in Threads /\ prio[u] \in Int
  BY EmptyElems
<1>3. k <= Len(s) => prio[s[k]] >= p
  <2> SUFFICES ASSUME k <= Len(s) PROVE prio[s[k]] >= p
    OBVIOUS
  <2>1. s[k] \in Elems(s)
    BY <1>1 DEF Elems
  <2> QED BY <1>1, <1>2, <2>1
<1>4. p \in Int
  OBVIOUS
<1> HIDE DEF k
<1>5. Sorted(pr, InsertAt(s, k, t))
  BY <1>1, <1>2, <1>3, <1>4, SortedInsert
<1> QED BY <1>5 DEF k

\* Steps that link nobody in a wait queue.
LEMMA OrderKept ==
  ASSUME Inv, Order,
         \A x \in BlockQueues :
           \/ q'[x] = q[x]
           \/ q'[x] = <<>>
           \/ q[x] # <<>> /\ q'[x] = Tail(q[x])
           \/ \E t \in Threads : q'[x] = Unlink(q[x], t),
         \A x \in BlockQueues : \A u \in Elems(q[x]) : prio'[u] = prio[u]
  PROVE  Order'
<1> SUFFICES ASSUME NEW x \in BlockQueues PROVE Sorted(prio', q'[x])
  BY DEF Order
<1>1. q[x] \in Seq(Threads) /\ Distinct(q[x]) /\ Sorted(prio, q[x])
  BY QueueNames DEF Inv, Consistent, Order
<1>2. Sorted(prio', q[x])
  BY <1>1, SortedSame
<1>3. CASE q'[x] = q[x]
  BY <1>2, <1>3
<1>4. CASE q'[x] = <<>>
  BY <1>4 DEF Sorted
<1>5. CASE q[x] # <<>> /\ q'[x] = Tail(q[x])
  BY <1>1, <1>2, <1>5, SortedTail
<1>6. ASSUME NEW t \in Threads, q'[x] = Unlink(q[x], t) PROVE Sorted(prio', q'[x])
  BY <1>1, <1>2, <1>6, SortedUnlink
<1> QED BY <1>3, <1>4, <1>5, <1>6

\* RemoveThreadFromQueue touches no queue but the one the thread is in.
LEMMA RemoveShape ==
  ASSUME q \in [Queues -> Seq(Threads)], queue \in [Threads -> Queues \cup {None}],
         NEW t \in Threads, NEW x \in Queues
  PROVE  RemoveThreadFromQueue(t)[x] = q[x] \/ RemoveThreadFromQueue(t)[x] = Unlink(q[x], t)
BY DEF RemoveThreadFromQueue

\* Steps that take a thread out of its queue and link it by its new priority.
LEMMA OrderPut ==
  ASSUME Inv, Order, NEW u \in Threads, NEW x \in Queues, NEW p \in 0 .. NumPriorities,
         q' = InsertByPriority(RemoveThreadFromQueue(u), x, u, p),
         prio' = [prio EXCEPT ![u] = p]
  PROVE  Order'
<1> DEFINE free == RemoveThreadFromQueue(u)
<1> SUFFICES ASSUME NEW y \in BlockQueues PROVE Sorted(prio', q'[y])
  BY DEF Order
<1>1. /\ q \in [Queues -> Seq(Threads)] /\ queue \in [Threads -> Queues \cup {None}]
      /\ prio \in [Threads -> 0 .. NumPriorities] /\ Consistent(state, suspend, prio, queue, q)
      /\ y \in Queues /\ q[y] \in Seq(Threads) /\ Sorted(prio, q[y])
  BY QueueNames DEF Inv, TypeOK, Order
<1>2. free \in [Queues -> Seq(Threads)] /\ free[y] \in Seq(Threads)
      /\ Elems(free[y]) = Elems(q[y]) \ {u}
  BY <1>1, RemoveEffect
<1>3. Sorted(prio, free[y])
  BY <1>1, RemoveShape, SortedUnlink
<1>4. Elems(free[y]) \subseteq Threads
  BY <1>2, EmptyElems
<1>5. prio'[u] = p /\ \A t \in Elems(free[y]) : prio'[t] = prio[t]
  BY <1>1, <1>2, <1>4
<1> HIDE DEF free
<1>6. q' = [free EXCEPT ![x] = InsertAt(free[x], InsertPosition(free[x], p), u)]
  BY DEF InsertByPriority, free
<1>7. CASE y = x
  <2>1. q'[y] = InsertAt(free[y], InsertPosition(free[y], p), u)
    BY <1>1, <1>2, <1>6, <1>7
  <2>2. Sorted(prio', InsertAt(free[y], InsertPosition(free[y], p), u))
    BY <1>1, <1>2, <1>3, <1>5, InsertSorted
  <2> QED BY <2>1, <2>2
<1>8. CASE y # x
  <2>1. q'[y] = free[y]
    BY <1>1, <1>2, <1>6, <1>8
  <2> QED BY <1>2, <1>3, <1>5, <2>1, SortedSame
<1> QED BY <1>7, <1>8

\* A step that touches one thread leaves the others where they are linked.
LEMMA LocatedStep ==
  ASSUME NEW st, NEW su, NEW qu, NEW qq, Located(st, su, qu, qq),
         NEW st2, NEW su2, NEW qu2, NEW qq2, NEW t,
         \A u \in Threads \ {t} : st2[u] = st[u] /\ su2[u] = su[u] /\ qu2[u] = qu[u],
         \A x \in Queues : Elems(qq[x]) \ {t} \subseteq Elems(qq2[x]),
         (st2[t] = "waiting" \/ (st2[t] = "ready" /\ su2[t] = 0)) =>
           qu2[t] \in Queues /\ t \in Elems(qq2[qu2[t]])
  PROVE  Located(st2, su2, qu2, qq2)
BY DEF Located
\* A dispatch touches only a run queue.
LEMMA OrderDispatch ==
  ASSUME Inv, Order, NEW st, NEW qu, NEW qq \in [Queues -> Seq(Threads)],
         NEW pp \in SUBSET Prios, pp # {}, Dispatch(st, qu, qq, pp),
         \A x \in BlockQueues : qq[x] = q[x]
  PROVE  Order'
<1> DEFINE p == CHOOSE r \in pp : \A s \in pp : r <= s
<1>1. p \in Prios
  BY LeastPriority
<1>2. q' = [qq EXCEPT ![RunQ(p)] = Tail(qq[RunQ(p)])] /\ prio' = prio
  BY DEF Dispatch
<1> HIDE DEF p
<1>3. \A x \in BlockQueues : q'[x] = q[x]
  BY <1>1, <1>2, QueueNames
<1> QED BY <1>2, <1>3, OrderKept

\* OSSleepThread links the running thread, which is in no queue, by its priority.
LEMMA OrderSleep ==
  ASSUME Inv, Order, NEW x \in BlockQueues, NEW rest, running = exec, Sleep(x, rest),
         disable = 0 => state[exec] = "running"
  PROVE  Order'
<1>1. /\ prio \in [Threads -> 0 .. NumPriorities] /\ q \in [Queues -> Seq(Threads)]
      /\ exec \in Threads /\ exec # None /\ Consistent(state, suspend, prio, queue, q)
      /\ x \in Queues /\ prio[exec] \in 0 .. NumPriorities
  BY Now, QueueNames DEF Inv, TypeOK
<1>2. CASE disable # 0
  BY <1>2 DEF Sleep, Order
<1>3. CASE disable = 0
  <2>1. q' = [q EXCEPT ![x] = InsertAt(q[x], InsertPosition(q[x], prio[exec]), exec)] /\ prio' = prio
    BY <1>1, <1>3 DEF Sleep, InsertByPriority
  <2> SUFFICES ASSUME NEW y \in BlockQueues PROVE Sorted(prio', q'[y])
    BY DEF Order
  <2>2. y \in Queues /\ q[y] \in Seq(Threads) /\ Sorted(prio, q[y])
    BY <1>1, QueueNames DEF Order
  <2>3. CASE y = x
    <3>1. q'[y] = InsertAt(q[y], InsertPosition(q[y], prio[exec]), exec)
      BY <1>1, <2>1, <2>3
    <3>2. Sorted(prio, InsertAt(q[y], InsertPosition(q[y], prio[exec]), exec))
      BY <1>1, <2>2, InsertSorted
    <3> QED BY <2>1, <3>1, <3>2
  <2>4. CASE y # x
    BY <1>1, <2>1, <2>2, <2>4
  <2> QED BY <2>3, <2>4
<1> QED BY <1>2, <1>3

\* A priority that changes while its thread is in no wait queue.
LEMMA OrderPrio ==
  ASSUME Inv, Order, NEW u \in Threads, state[u] # "waiting",
         \A t \in Threads \ {u} : prio'[t] = prio[t],
         \A x \in BlockQueues : \/ q'[x] = q[x] \/ q'[x] = <<>>
                                \/ q'[x] = Unlink(q[x], u)
  PROVE  Order'
<1>1. ASSUME NEW x \in BlockQueues, NEW t \in Elems(q[x]) PROVE prio'[t] = prio[t]
  <2>1. state[t] = "waiting" /\ t \in Threads
    BY QueueNames, EmptyElems DEF Inv, Consistent
  <2> QED BY <2>1
<1> QED BY <1>1, OrderKept

\* SetThreadEffectivePriority takes a waiter out and links it by its new priority.
LEMMA OrderPriority ==
  ASSUME Inv, Order, NEW u \in Threads, NEW p \in Prios, suspend[u] = 0,
         SetThreadEffectivePriority(u, p)
  PROVE  Order'
<1>1. /\ queue \in [Threads -> Queues \cup {None}] /\ prio \in [Threads -> 0 .. NumPriorities]
      /\ p \in 0 .. NumPriorities /\ Consistent(state, suspend, prio, queue, q)
      /\ RunQ(p) \in Queues
  <2>1. /\ queue \in [Threads -> Queues \cup {None}] /\ prio \in [Threads -> 0 .. NumPriorities]
        /\ Consistent(state, suspend, prio, queue, q)
    BY DEF Inv, TypeOK
  <2>2. p \in 0 .. NumPriorities
    BY ConstantsOK DEF Prios
  <2> QED BY <2>1, <2>2, QueueNames
<1>2. CASE state[u] = "ready"
  <2>1. q' = InsertByPriority(RemoveThreadFromQueue(u), RunQ(p), u, p)
        /\ prio' = [prio EXCEPT ![u] = p]
    BY <1>2 DEF SetThreadEffectivePriority, Dead
  <2> QED BY <1>1, <2>1, OrderPut
<1>3. CASE state[u] = "waiting"
  <2>1. queue[u] \in Queues /\ queue[u] # None
    BY <1>1, <1>3, QueueNames DEF Consistent
  <2>2. q' = InsertByPriority(RemoveThreadFromQueue(u), queue[u], u, p)
        /\ prio' = [prio EXCEPT ![u] = p]
    BY <1>3, <2>1 DEF SetThreadEffectivePriority, Dead
  <2> QED BY <1>1, <2>1, <2>2, OrderPut
<1>4. CASE state[u] \notin {"ready", "waiting"}
  <2>1. q' = q /\ \A t \in Threads \ {u} : prio'[t] = prio[t]
    BY <1>1, <1>4 DEF SetThreadEffectivePriority
  <2> QED BY <1>4, <2>1, OrderPrio
<1> QED BY <1>2, <1>3, <1>4

\* OSSuspendThread gives a waiter the lowest priority and links it again.
LEMMA OrderSuspend ==
  ASSUME Inv, Order, NEW u \in Threads, NEW rest, Suspend(u, rest)
  PROVE  Order'
<1>1. /\ queue \in [Threads -> Queues \cup {None}] /\ prio \in [Threads -> 0 .. NumPriorities]
      /\ q \in [Queues -> Seq(Threads)]
      /\ Consistent(state, suspend, prio, queue, q) /\ SuspendedWaitPriority \in 0 .. NumPriorities
  BY ConstantsOK DEF Inv, TypeOK, SuspendedWaitPriority
<1>2. CASE UNCHANGED <<q, prio>>
  BY <1>2 DEF Order
<1>3. CASE q' = RemoveThreadFromQueue(u) /\ prio' = prio
  <2>1. \A x \in BlockQueues : q'[x] = q[x] \/ q'[x] = Unlink(q[x], u)
    BY <1>1, <1>3, RemoveShape, QueueNames
  <2> QED BY <1>3, <2>1, OrderKept
<1>4. CASE /\ state[u] = "waiting" /\ prio' = [prio EXCEPT ![u] = SuspendedWaitPriority]
           /\ q' = InsertByPriority(RemoveThreadFromQueue(u), queue[u], u, SuspendedWaitPriority)
  <2>1. queue[u] \in Queues
    BY <1>1, <1>4, QueueNames DEF Consistent
  <2> QED BY <1>1, <1>4, <2>1, OrderPut
<1>5. \/ UNCHANGED <<q, prio>>
      \/ q' = RemoveThreadFromQueue(u) /\ prio' = prio
      \/ /\ state[u] = "waiting" /\ prio' = [prio EXCEPT ![u] = SuspendedWaitPriority]
         /\ q' = InsertByPriority(RemoveThreadFromQueue(u), queue[u], u, SuspendedWaitPriority)
  BY Zenon DEF Suspend
<1> QED BY <1>2, <1>3, <1>4, <1>5

\* OSResumeThread links a waiter again by its priority, or a ready thread to run.
LEMMA OrderResume ==
  ASSUME Inv, Order, NEW u \in Threads, Resume(u)
  PROVE  Order'
<1>1. /\ queue \in [Threads -> Queues \cup {None}] /\ prio \in [Threads -> 0 .. NumPriorities]
      /\ q \in [Queues -> Seq(Threads)] /\ owned[u] \in SUBSET Mutexes
      /\ Consistent(state, suspend, prio, queue, q)
  BY DEF Inv, TypeOK
<1> DEFINE free == RemoveThreadFromQueue(u)
           pw == EffectivePriority(u, free, owned[u])
           pr == EffectivePriority(u, q, owned[u])
<1>2. pw \in Prios /\ pr \in Prios /\ pw \in 0 .. NumPriorities
  <2>1. free \in [Queues -> Seq(Threads)]
    BY <1>1, RemoveEffect
  <2>2. pw \in Prios /\ pr \in Prios
    BY <1>1, <2>1, EffectiveIsPriority
  <2> QED BY <2>2, ConstantsOK DEF Prios
<1>3. CASE UNCHANGED <<q, prio>>
  BY <1>3 DEF Order
<1>4. CASE /\ state[u] = "waiting" /\ prio' = [prio EXCEPT ![u] = pw]
           /\ q' = InsertByPriority(free, queue[u], u, pw)
  <2>1. queue[u] \in Queues
    BY <1>1, <1>4, QueueNames DEF Consistent
  <2> QED BY <1>1, <1>2, <1>4, <2>1, OrderPut
<1>5. CASE /\ state[u] \in {"ready", "running"} /\ prio' = [prio EXCEPT ![u] = pr]
           /\ q' = InsertByPriority(q, RunQ(pr), u, pr)
  <2>1. \A x \in BlockQueues : q'[x] = q[x]
    BY <1>1, <1>2, <1>5, QueueNames DEF InsertByPriority
  <2>2. \A t \in Threads \ {u} : prio'[t] = prio[t]
    BY <1>1, <1>5
  <2> QED BY <1>5, <2>1, <2>2, OrderPrio
<1>6. \/ UNCHANGED <<q, prio>>
      \/ /\ state[u] = "waiting" /\ prio' = [prio EXCEPT ![u] = pw]
         /\ q' = InsertByPriority(free, queue[u], u, pw)
      \/ /\ state[u] \in {"ready", "running"} /\ prio' = [prio EXCEPT ![u] = pr]
         /\ q' = InsertByPriority(q, RunQ(pr), u, pr)
  BY DEF Resume
<1> QED BY <1>3, <1>4, <1>5, <1>6

\* WakeupThreadQueue takes the head of the queue.
LEMMA OrderWakeOne ==
  ASSUME Inv, Order, WakeOne
  PROVE  Order'
<1> DEFINE t == Head(q[Arg])
           p == IF prio[t] \in Prios THEN prio[t] ELSE NumPriorities - 1
           popped == [q EXCEPT ![Arg] = Tail(@)]
<1>1. q[Arg] # <<>> /\ prio' = prio
      /\ q' = IF Wakeable(t) THEN [popped EXCEPT ![RunQ(p)] = Append(@, t)] ELSE popped
  BY DEF WakeOne
<1>2. p \in Prios /\ q \in [Queues -> Seq(Threads)]
  <2>1. NumPriorities - 1 \in Prios
    BY ConstantsOK DEF Prios
  <2>2. q \in [Queues -> Seq(Threads)]
    BY DEF Inv, TypeOK
  <2> QED BY <2>1, <2>2
<1>3. ASSUME NEW x \in BlockQueues
      PROVE  q'[x] = q[x] \/ (q[x] # <<>> /\ q'[x] = Tail(q[x]))
  <2>1. x \in Queues /\ x # RunQ(p) /\ popped \in [Queues -> {popped[y] : y \in Queues}]
    BY <1>2, QueueNames
  <2>2. q'[x] = popped[x]
    <3> HIDE DEF popped, p, t
    <3> QED BY <1>1, <2>1
  <2>3. popped[x] = IF x = Arg THEN Tail(q[x]) ELSE q[x]
    BY <1>2, <2>1
  <2> QED BY <1>1, <2>2, <2>3
<1> QED BY <1>1, <1>3, OrderKept

\* OSLockMutex and OSJoinThread block as OSSleepThread does.
LEMMA OrderBlock ==
  ASSUME Inv, Order, Block
  PROVE  Order'
<1>1. At("block") /\ Sleep(Arg, Tail(stack[exec]))
  BY DEF Block
<1>2. running = exec /\ state[exec] = "running"
  BY <1>1, RunsItself
<1>3. Arg \in BlockQueues
  BY <1>1, Now, FrameArgs DEF Arg
<1> QED BY <1>1, <1>2, <1>3, OrderSleep

\* The return from OSSleepThread disarms and links nobody.
LEMMA OrderSlept ==
  ASSUME Inv, Order, Slept
  PROVE  Order'
<1>1. state[exec] = "running"
  BY RunsItself DEF Slept
<1> QED BY <1>1 DEF Slept, Order

\* Lending a priority along the owners moves at most one waiter.
LEMMA OrderPromote ==
  ASSUME Inv, Order, Promote
  PROVE  Order'
<1>1. Arg \in Threads /\ prio[exec] \in Prios /\ suspend \in [Threads -> Nat]
  <2>1. At("promote")
    BY DEF Promote
  <2>2. state[exec] = "running" /\ exec \in Threads
    BY <2>1, RunsItself
  <2>3. Arg \in Threads
    BY <2>1, Now, FrameArgs DEF Arg
  <2> QED BY <2>2, <2>3 DEF Inv, TypeOK, Consistent, DeadStates
<1>2. CASE UNCHANGED <<prio, q>>
  BY <1>2 DEF Order
<1>3. CASE ~PromoteStops(Arg) /\ SetThreadEffectivePriority(Arg, prio[exec])
  <2>1. suspend[Arg] = 0
    BY <1>1, <1>3 DEF PromoteStops
  <2> QED BY <1>1, <1>3, <2>1, OrderPriority
<1> QED BY <1>2, <1>3, Zenon DEF Promote

\* Giving priorities back along the owners moves at most one waiter.
LEMMA OrderPropagate ==
  ASSUME Inv, Order, Propagate
  PROVE  Order'
<1> DEFINE p == EffectivePriority(Arg, q, owned[Arg])
<1>1. Arg \in Threads /\ p \in Prios /\ suspend \in [Threads -> Nat]
  <2>1. Arg \in Threads
    BY Now, FrameArgs DEF Arg, Propagate
  <2>2. /\ prio \in [Threads -> 0 .. NumPriorities] /\ q \in [Queues -> Seq(Threads)]
        /\ owned \in [Threads -> SUBSET Mutexes] /\ suspend \in [Threads -> Nat]
    BY DEF Inv, TypeOK
  <2> QED BY <2>1, <2>2, EffectiveIsPriority
<1>2. \/ UNCHANGED <<prio, q>>
      \/ ~(suspend[Arg] >= 1) /\ SetThreadEffectivePriority(Arg, p)
  BY DEF Propagate
<1>3. CASE UNCHANGED <<prio, q>>
  BY <1>3 DEF Order
<1>4. CASE ~(suspend[Arg] >= 1) /\ SetThreadEffectivePriority(Arg, p)
  <2>1. suspend[Arg] = 0
    BY <1>1, <1>4
  <2> QED BY <1>1, <1>4, <2>1, OrderPriority
<1> QED BY <1>2, <1>3, <1>4

\* OSUnlockMutex changes the priority of a running thread, which waits nowhere.
LEMMA OrderUnlock ==
  ASSUME Inv, Order, NEW m \in Mutexes, OSUnlockMutex(m)
  PROVE  Order'
<1>1. running = exec /\ exec \in Threads /\ state[exec] = "running"
  BY Now DEF OSUnlockMutex
<1>2. q' = q /\ prio \in [Threads -> 0 .. NumPriorities]
  BY DEF OSUnlockMutex, schedVars, Inv, TypeOK
<1>3. \A t \in Threads \ {exec} : prio'[t] = prio[t]
  BY <1>1, <1>2 DEF OSUnlockMutex
<1> QED BY <1>1, <1>2, <1>3, OrderPrio

\* OSCreateThread clears the join queue of the structure it initializes.
LEMMA OrderCreate ==
  ASSUME Inv, Order, NEW u \in Threads, NEW d, OSCreateThread(u, d)
  PROVE  Order'
<1>1. /\ state[u] = "none" /\ prio' = [prio EXCEPT ![u] = BasePriority[u]]
      /\ q' = [q EXCEPT ![JoinQ(u)] = <<>>]
  BY DEF OSCreateThread
<1>2. q \in [Queues -> Seq(Threads)] /\ prio \in [Threads -> 0 .. NumPriorities]
  BY DEF Inv, TypeOK
<1>3. \A x \in BlockQueues : q'[x] = q[x] \/ q'[x] = <<>>
  BY <1>1, <1>2, QueueNames
<1>4. \A t \in Threads \ {u} : prio'[t] = prio[t]
  BY <1>1, <1>2
<1> QED BY <1>1, <1>3, <1>4, OrderPrio

\* OSCancelThread takes a waiter out of its queue.
LEMMA OrderCancel ==
  ASSUME Inv, Order, NEW u \in Threads, OSCancelThread(u)
  PROVE  Order'
<1>1. prio' = prio /\ (q' = q \/ q' = RemoveThreadFromQueue(u))
  BY DEF OSCancelThread
<1>2. q \in [Queues -> Seq(Threads)] /\ queue \in [Threads -> Queues \cup {None}]
  BY DEF Inv, TypeOK
<1>3. \A x \in BlockQueues : q'[x] = q[x] \/ q'[x] = Unlink(q[x], u)
  BY <1>1, <1>2, RemoveShape, QueueNames
<1> QED BY <1>1, <1>3, OrderKept

\* SelectThread links only in run queues.
LEMMA OrderSelects ==
  ASSUME Inv, Order, SelectPreempts \/ SelectSwitches \/ IdleDispatches
  PROVE  Order'
<1>1. /\ q \in [Queues -> Seq(Threads)] /\ pending \in SUBSET Prios
      /\ running \in {exec, None} /\ prio \in [Threads -> 0 .. NumPriorities]
      /\ exec \in Threads /\ Consistent(state, suspend, prio, queue, q)
  BY DEF Inv, TypeOK, Host
<1>2. CASE SelectSwitches \/ IdleDispatches
  <2>1. pending # {} /\ Dispatch(state, queue, q, pending)
    BY <1>2 DEF SelectSwitches, IdleDispatches
  <2> QED BY <1>1, <2>1, OrderDispatch
<1>3. CASE SelectPreempts
  <2> DEFINE qq == [q EXCEPT ![RunQ(prio[running])] = Append(@, running)]
             pp == pending \cup {prio[running]}
  <2>1. /\ Dispatch([state EXCEPT ![running] = "ready"],
                    [queue EXCEPT ![running] = RunQ(prio[running])], qq, pp)
        /\ running # None /\ state[running] = "running"
    BY <1>3 DEF SelectPreempts, Refused
  <2>2. running = exec /\ prio[running] \in Prios
    BY <1>1, <2>1 DEF Consistent, DeadStates
  <2>3. qq \in [Queues -> Seq(Threads)] /\ pp \in SUBSET Prios /\ pp # {}
        /\ \A x \in BlockQueues : qq[x] = q[x]
    BY <1>1, <2>2, QueueNames
  <2> HIDE DEF qq, pp
  <2> QED BY <2>1, <2>3, OrderDispatch
<1> QED BY <1>2, <1>3

\* The calls and handlers that leave queues and priorities alone.
LEMMA OrderSame ==
  ASSUME Order, UNCHANGED <<q, prio>>
  PROVE  Order'
BY DEF Order

\* Every step keeps the wait queues in order.
LEMMA OrderStep ==
  ASSUME Inv, Order, Next, "return" \notin Ops
  PROVE  Order'
<1>1. CASE GuestCall
  <2>1. ASSUME NEW u \in Threads, OSSuspendThread(u) PROVE Order'
    BY <2>1, OrderSuspend DEF OSSuspendThread
  <2>2. ASSUME NEW u \in Threads, OSResumeThread(u) PROVE Order'
    BY <2>2, OrderResume DEF OSResumeThread
  <2>3. ASSUME NEW u \in Threads, OSCancelThread(u) PROVE Order'
    BY <2>3, OrderCancel
  <2>4. ASSUME NEW u \in Threads, NEW d \in Attrs, OSCreateThread(u, d) PROVE Order'
    BY <2>4, OrderCreate
  <2>5. ASSUME NEW w \in WaitQueues, OSSleepThread(w) PROVE Order'
    <3>1. InGuest /\ Sleep(WaitQ(w), stack[exec]) /\ WaitQ(w) \in BlockQueues
      BY <2>5, QueueNames DEF OSSleepThread, Calls
    <3>2. running = exec /\ (disable = 0 => state[exec] = "running")
      BY <3>1, Now DEF InGuest
    <3> QED BY <3>1, <3>2, OrderSleep
  <2>6. ASSUME NEW m \in Mutexes, OSUnlockMutex(m) PROVE Order'
    BY <2>6, OrderUnlock
  <2>7. CASE OSSleepTicks
    <3>1. running = exec /\ exec \in Threads
      BY <2>7, Now DEF OSSleepTicks, Calls, InGuest
    <3> QED BY <2>7, <3>1, OrderSuspend DEF OSSleepTicks
  <2>8. CASE UNCHANGED <<q, prio>>
    BY <2>8, OrderSame
  <2>9. \/ \E u \in Threads : \/ OSSuspendThread(u) \/ OSResumeThread(u) \/ OSCancelThread(u)
                              \/ \E d \in Attrs : OSCreateThread(u, d)
        \/ \E w \in WaitQueues : OSSleepThread(w)
        \/ \E m \in Mutexes : OSUnlockMutex(m)
        \/ OSSleepTicks
        \/ UNCHANGED <<q, prio>>
    BY <1>1, NoReturn, Zenon DEF GuestCall, OSJoinThread, OSDetachThread, OSWakeupThread, OSLockMutex,
       OSYieldThread, OSExitThread, HandlerBegins, HandlerEnds, DeferredEnds, threadVars, schedVars
  <2> QED BY <2>1, <2>2, <2>3, <2>4, <2>5, <2>6, <2>7, <2>8, <2>9
<1>2. CASE HandlerStep
  <2>1. CASE SelectPreempts \/ SelectSwitches
    BY <2>1, OrderSelects
  <2>2. CASE WakeOne
    BY <2>2, OrderWakeOne
  <2>3. CASE Block
    BY <2>3, OrderBlock
  <2>4. CASE Slept
    BY <2>4, OrderSlept
  <2>5. CASE Promote
    BY <2>5, OrderPromote
  <2>6. CASE Propagate
    BY <2>6, OrderPropagate
  <2>7. CASE UNCHANGED <<q, prio>>
    BY <2>7, OrderSame
  <2>8. \/ SelectPreempts \/ SelectSwitches
        \/ WakeOne \/ Block \/ Slept \/ Promote \/ Propagate
        \/ UNCHANGED <<q, prio>>
    BY <1>2, NoReturn, Zenon DEF HandlerStep, SelectRefuses, SelectIdles, WakeDone, Resched, TicksDone,
       LockRound, ExitTail, UnlockAll, WakeThreadJoiners, JoinDone, threadVars, schedVars
  <2> QED BY <2>1, <2>2, <2>3, <2>4, <2>5, <2>6, <2>7, <2>8
<1>3. CASE HostEvent
  <2>1. CASE IdleDispatches
    BY <2>1, OrderSelects
  <2>2. ASSUME NEW w \in WaitQueues, IdleEvent(w) PROVE Order'
    BY <2>2, OrderSame DEF IdleEvent, threadVars, schedVars
  <2>3. ASSUME NEW u \in Threads, TimerFires(u) PROVE Order'
    <3>1. Resume(u) \/ UNCHANGED <<q, prio>>
      BY <2>3 DEF TimerFires, threadVars, schedVars
    <3> QED BY <3>1, OrderResume, OrderSame
  <2> QED BY <1>3, <2>1, <2>2, <2>3 DEF HostEvent
<1> QED BY <1>1, <1>2, <1>3 DEF Next

\* A mutex, a join queue or a thread queue wakes its most urgent waiter first:
\* OSSleepThread links by priority, and whatever changes the priority of a
\* waiter (a loan, its return, suspend and resume) links it again.
THEOREM WaitersStaySorted ==
  ASSUME "return" \notin Ops
  PROVE  Spec => []WaitersSorted
<1>1. Init => Inv /\ Order
  <2> SUFFICES ASSUME Init PROVE Inv /\ Order
    OBVIOUS
  <2>1. \A x \in BlockQueues : q[x] = <<>>
    BY QueueNames DEF Init
  <2>2. \A x \in BlockQueues : Len(q[x]) = 0
    BY <2>1
  <2> QED BY <2>2, InitInv DEF Order, Sorted
<1>2. Inv /\ Order /\ [Next]_vars => (Inv /\ Order)'
  <2>1. CASE UNCHANGED vars
    <3>1. UNCHANGED <<q, prio>>
      BY <2>1 DEF vars, threadVars, schedVars
    <3> QED BY <2>1, <3>1, StutterInv, OrderSame
  <2>2. CASE Next
    BY <2>2, NextInv, OrderStep
  <2> QED BY <2>1, <2>2
<1>3. Order => WaitersSorted
  BY DEF Order, Sorted, WaitersSorted, IsSorted
<1> QED BY <1>1, <1>2, <1>3, PTL DEF Spec
-----------------------------------------------------------------------------
(* Threads that ended. *)

\* SelectThread makes the chosen thread the running one; nobody ends.
LEMMA DeadDispatch ==
  ASSUME NEW st \in [Threads -> States], NEW qu, NEW qq, NEW pp, Dispatch(st, qu, qq, pp),
         NEW t \in Threads, state'[t] \in DeadStates
  PROVE  st[t] \in DeadStates
BY DEF Dispatch, DeadStates

\* Whoever is ended after a step was ended before, unless the step ended it.
LEMMA DeadStays ==
  ASSUME Inv, Next, "return" \notin Ops, ~OSExitThread, \A u \in Threads : ~OSCancelThread(u),
         NEW t \in Threads, Dead(t)'
  PROVE  Dead(t)
<1>1. state \in [Threads -> States] /\ state'[t] \in DeadStates
  BY DEF Inv, TypeOK, Dead, DeadStates
<1>2. CASE UNCHANGED state
  BY <1>2 DEF Dead
<1>3. ASSUME NEW u \in Threads, NEW rest, Suspend(u, rest) PROVE Dead(t)
  BY <1>1, <1>3 DEF Suspend, Dead, DeadStates
<1>4. ASSUME NEW u \in Threads, Resume(u) PROVE Dead(t)
  BY <1>1, <1>4 DEF Resume, Dead, DeadStates
<1>5. ASSUME NEW u \in Threads, NEW d, OSCreateThread(u, d) PROVE Dead(t)
  BY <1>1, <1>5 DEF OSCreateThread, Dead, DeadStates
<1>6. ASSUME NEW x, NEW rest, Sleep(x, rest) PROVE Dead(t)
  BY <1>1, <1>6 DEF Sleep, Dead, DeadStates
<1>7. CASE SelectPreempts \/ SelectSwitches \/ IdleDispatches
  <2>1. CASE SelectPreempts
    <3>1. [state EXCEPT ![running] = "ready"] \in [Threads -> States]
      BY <1>1 DEF States
    <3>2. [state EXCEPT ![running] = "ready"][t] \in DeadStates
      BY <1>1, <2>1, <3>1, DeadDispatch DEF SelectPreempts
    <3> QED BY <1>1, <3>2 DEF Dead, DeadStates
  <2>2. CASE SelectSwitches \/ IdleDispatches
    BY <1>1, <2>2, DeadDispatch DEF SelectSwitches, IdleDispatches, Dead, DeadStates
  <2> QED BY <1>7, <2>1, <2>2
<1>8. CASE WakeOne \/ Slept \/ TicksDone
  BY <1>1, <1>8 DEF WakeOne, Slept, TicksDone, Dead, DeadStates
<1>9. ASSUME NEW u \in Threads, OSDetachThread(u) PROVE Dead(t)
  BY <1>1, <1>9 DEF OSDetachThread, Dead, DeadStates
<1>10. CASE JoinDone
  BY <1>1, <1>10 DEF JoinDone, Dead, DeadStates
<1>11. CASE GuestCall
  <2>1. \/ UNCHANGED state
        \/ \E u \in Threads : \/ \E rest : Suspend(u, rest)
                              \/ Resume(u)
                              \/ OSDetachThread(u)
                              \/ \E d \in Attrs : OSCreateThread(u, d)
        \/ \E x, rest : Sleep(x, rest)
    <3>1. OSSleepTicks => \E u \in Threads : \E rest : Suspend(u, rest)
      BY Now DEF OSSleepTicks, Calls, InGuest
    <3> QED BY <1>11, <3>1, NoReturn, Zenon DEF GuestCall, OSSuspendThread, OSResumeThread,
       OSJoinThread, OSSleepThread, OSWakeupThread, OSLockMutex, OSUnlockMutex, OSYieldThread,
       HandlerBegins, HandlerEnds, DeferredEnds, threadVars
  <2> QED BY <1>2, <1>3, <1>4, <1>5, <1>6, <1>9, <2>1
<1>12. CASE HandlerStep
  <2>1. \/ UNCHANGED state \/ SelectPreempts \/ SelectSwitches \/ WakeOne \/ Slept \/ TicksDone
        \/ JoinDone \/ \E x, rest : Sleep(x, rest)
    BY <1>12, NoReturn, Zenon DEF HandlerStep, SelectRefuses, SelectIdles, WakeDone, Block, Promote,
       Propagate, Resched, LockRound, ExitTail, UnlockAll, WakeThreadJoiners, threadVars
  <2> QED BY <1>2, <1>6, <1>7, <1>8, <1>10, <2>1
<1>13. CASE HostEvent
  <2>1. \/ UNCHANGED state \/ IdleDispatches \/ \E u \in Threads : Resume(u)
    BY <1>13, Zenon DEF HostEvent, IdleEvent, TimerFires, threadVars
  <2> QED BY <1>2, <1>4, <1>7, <2>1
<1> QED BY <1>11, <1>12, <1>13 DEF Next

\* The fiber on the host is releasing the mutexes of an ended thread.
Releasing(t) == stack[exec] # <<>> /\ Head(stack[exec]) = Frame("unlockAll", t)

\* Whenever an ended thread owns a mutex, the fiber on the host is releasing it.
Releases == \A t \in Threads : Dead(t) /\ owned[t] # {} => Releasing(t)

\* An ended thread does not come to own a mutex.
LEMMA OwnedStays ==
  ASSUME Inv, Next, "return" \notin Ops, NEW t \in Threads, state[t] # "running"
  PROVE  owned'[t] \subseteq owned[t]
<1>1. owned \in [Threads -> SUBSET Mutexes]
  BY DEF Inv, TypeOK
<1>2. CASE UNCHANGED owned
  BY <1>2
<1>3. ASSUME NEW m \in Mutexes, OSUnlockMutex(m) PROVE owned'[t] \subseteq owned[t]
  BY <1>1, <1>3 DEF OSUnlockMutex
<1>4. CASE LockRound
  <2>1. state[exec] = "running"
    BY <1>4, RunsItself DEF LockRound
  <2>2. UNCHANGED owned \/ owned' = [owned EXCEPT ![exec] = @ \cup {Arg}]
    BY <1>4 DEF LockRound, mutexVars
  <2> QED BY <1>1, <2>1, <2>2
<1>5. CASE UnlockAll
  BY <1>1, <1>5 DEF UnlockAll, mutexVars
<1>6. ASSUME NEW u \in Threads, NEW d, OSCreateThread(u, d) PROVE owned'[t] \subseteq owned[t]
  BY <1>1, <1>6 DEF OSCreateThread
<1>7. CASE GuestCall
  <2>1. \/ UNCHANGED owned
        \/ \E u \in Threads, d \in Attrs : OSCreateThread(u, d)
        \/ \E m \in Mutexes : OSUnlockMutex(m)
    BY <1>7, NoReturn, Zenon DEF GuestCall, OSSuspendThread, OSResumeThread, Resume, OSCancelThread,
       OSJoinThread, OSDetachThread, OSSleepThread, Sleep, OSWakeupThread, OSLockMutex, OSSleepTicks,
       OSYieldThread, OSExitThread, HandlerBegins, HandlerEnds, DeferredEnds, mutexVars
  <2> QED BY <1>2, <1>3, <1>6, <2>1
<1>8. CASE HandlerStep
  <2>1. UNCHANGED owned \/ LockRound \/ UnlockAll
    BY <1>8, NoReturn, Zenon DEF HandlerStep, SelectRefuses, SelectPreempts, SelectSwitches, Dispatch,
       SelectIdles, WakeOne, WakeDone, Block, Sleep, Slept, Promote, Propagate, Resched, TicksDone,
       ExitTail, WakeThreadJoiners, JoinDone, mutexVars
  <2> QED BY <1>2, <1>4, <1>5, <2>1
<1>9. CASE HostEvent
  <2>1. UNCHANGED owned
    BY <1>9, Zenon DEF HostEvent, IdleDispatches, Dispatch, IdleEvent, TimerFires, Resume, mutexVars
  <2> QED BY <1>2, <2>1
<1> QED BY <1>7, <1>8, <1>9 DEF Next

\* With one mutex, the only step of __OSUnlockAllMutex leaves its thread none.
LEMMA ReleasesStep ==
  ASSUME Inv, Releases, Next, "return" \notin Ops, \A m, n \in Mutexes : m = n
  PROVE  Releases'
<1>1. /\ state \in [Threads -> States] /\ owned \in [Threads -> SUBSET Mutexes]
      /\ stack \in [Threads -> Seq(Frames)] /\ exec \in Threads
  BY DEF Inv, TypeOK
<1>2. CASE UnlockAll
  <2>1. At("unlockAll") /\ Arg \in Threads /\ state' = state /\ exec' = exec
    BY <1>2, Now, FrameArgs DEF UnlockAll, Arg, threadVars
  <2>2. \A t \in Threads : t # Arg => ~Releasing(t)
    BY <2>1 DEF Releasing, Arg, Frame
  <2>3. owned[Arg] = {} \/ \E m \in owned[Arg] : owned' = [owned EXCEPT ![Arg] = @ \ {m}]
    BY <1>2 DEF UnlockAll
  <2>4. \A t \in Threads : owned'[t] \subseteq owned[t]
    BY <1>1, <1>2, <2>3 DEF UnlockAll, mutexVars
  <2>5. owned'[Arg] = {}
    <3>1. CASE owned[Arg] = {}
      BY <2>1, <2>4, <3>1
    <3>2. ASSUME NEW m \in owned[Arg], owned' = [owned EXCEPT ![Arg] = @ \ {m}]
          PROVE  owned'[Arg] = {}
      <4>1. owned[Arg] \subseteq {m}
        BY <1>1, <2>1, <3>2
      <4> QED BY <1>1, <2>1, <3>2, <4>1
    <3> QED BY <2>3, <3>1, <3>2
  <2>6. \A t \in Threads : Dead(t)' => Dead(t)
    BY <2>1 DEF Dead
  <2> QED BY <2>2, <2>4, <2>5, <2>6 DEF Releases
<1>3. ASSUME NEW u \in Threads, OSCancelThread(u) \/ (OSExitThread /\ u = exec)
      PROVE  Releases'
  <2>1. InThread /\ Terminate(u) /\ exec' = exec /\ owned' = owned
    BY <1>3 DEF OSCancelThread, OSExitThread, mutexVars
  <2>2. \A t \in Threads : ~Releasing(t)
    BY <2>1 DEF InThread, Releasing
  <2>3. \A t \in Threads \ {u} : Dead(t)' => Dead(t)
    BY <1>1, <2>1 DEF Terminate, Dead
  <2>4. Releasing(u)'
    <3> DEFINE s == <<Frame("unlockAll", u), Frame("joiners", u), Frame("resched", None)>>
               z == <<Frame("unlockAll", u), Frame("joiners", u), Frame("exitTail", None)>>
    <3>1. s # <<>> /\ Head(s) = Frame("unlockAll", u) /\ z # <<>> /\ Head(z) = Frame("unlockAll", u)
      OBVIOUS
    <3>2. CASE OSCancelThread(u)
      <4>1. \/ stack' = [stack EXCEPT ![exec] = s]
            \/ u # exec /\ stack' = [stack EXCEPT ![exec] = s, ![u] = <<>>]
        BY <3>2, Zenon DEF OSCancelThread
      <4> HIDE DEF s
      <4>2. stack'[exec] = s
        BY <1>1, <4>1
      <4> QED BY <2>1, <3>1, <4>2 DEF Releasing
    <3>3. CASE OSExitThread /\ u = exec
      <4>1. stack' = [stack EXCEPT ![exec] = z \o stack[exec]] /\ stack[exec] = <<>>
        BY <3>3 DEF OSExitThread, Call, InThread
      <4>2. z \in Seq({Frame("unlockAll", u), Frame("joiners", u), Frame("exitTail", None)})
        OBVIOUS
      <4> HIDE DEF z
      <4>3. stack'[exec] = z
        BY <1>1, <4>1, <4>2, ConcatEmptySeq
      <4> QED BY <2>1, <3>1, <4>3 DEF Releasing
    <3> QED BY <1>3, <3>2, <3>3
  <2> QED BY <2>1, <2>2, <2>3, <2>4 DEF Releases
<1>4. CASE ~UnlockAll /\ ~OSExitThread /\ \A u \in Threads : ~OSCancelThread(u)
  <2>1. \A t \in Threads : ~Releasing(t)
    <3>1. At("unlockAll") => FALSE
      <4> SUFFICES ASSUME At("unlockAll") PROVE FALSE
        OBVIOUS
      <4>1. \A op : At(op) => op = "unlockAll"
        BY DEF At
      <4>2. ~InThread /\ ~InHandler /\ ~InGuest
        BY <4>1 DEF InThread, InHandler, InGuest, At
      <4>3. ~GuestCall
        BY <4>1, <4>2, NoReturn, Zenon DEF GuestCall, OSSuspendThread, OSResumeThread, OSCancelThread,
           OSJoinThread, OSDetachThread, OSCreateThread, OSSleepThread, OSWakeupThread, OSLockMutex,
           OSUnlockMutex, OSSleepTicks, OSYieldThread, OSExitThread, HandlerBegins, HandlerEnds, DeferredEnds, Calls
      <4>4. ~HandlerStep
        BY <1>4, <4>1, NoReturn, Zenon DEF HandlerStep, SelectRefuses, SelectPreempts, SelectSwitches,
           SelectIdles, AtSelect, WakeOne, WakeDone, Block, Slept, Promote, Propagate, Resched, TicksDone,
           LockRound, ExitTail, WakeThreadJoiners, JoinDone
      <4>5. ~HostEvent
        BY <4>1, Zenon DEF HostEvent, IdleDispatches, IdleEvent, TimerFires, AtSelect
      <4> QED BY <4>3, <4>4, <4>5 DEF Next
    <3> QED BY <3>1 DEF At, Releasing, Frame
  <2>2. \A t \in Threads : Dead(t)' => Dead(t)
    BY <1>4, DeadStays
  <2>3. \A t \in Threads : Dead(t) => owned'[t] \subseteq owned[t]
    BY OwnedStays DEF Dead
  <2> QED BY <2>1, <2>2, <2>3 DEF Releases
<1> QED BY <1>1, <1>2, <1>3, <1>4

\* OSExitThread and OSCancelThread leave no mutex behind: while a dead thread
\* still owns the mutex, the fiber on the host has __OSUnlockAllMutex of that
\* thread to run next.  With a second mutex this fails: the first wake-up
\* switches away from the exiting fiber, which is terminated and never resumes.
THEOREM ExitReleases ==
  ASSUME "return" \notin Ops, \A m, n \in Mutexes : m = n
  PROVE  Spec => []DeadOwnNothing
<1>1. Init => Inv /\ Releases
  BY InitInv DEF Init, Releases
<1>2. Inv /\ Releases /\ [Next]_vars => (Inv /\ Releases)'
  <2>1. ASSUME Releases, UNCHANGED vars PROVE Releases'
    BY <2>1 DEF Releases, Releasing, Dead, vars, threadVars, mutexVars, hostVars
  <2> QED BY <2>1, NextInv, StutterInv, ReleasesStep
<1>3. ASSUME Inv, Releases PROVE DeadOwnNothing
  <2> SUFFICES ASSUME NEW t \in Threads, Dead(t), owned[t] # {}
               PROVE  \E u \in Threads : /\ u = exec \/ ~terminated[u]
                                         /\ \E i \in 1 .. Len(stack[u]) : stack[u][i] = Frame("unlockAll", t)
    BY DEF DeadOwnNothing
  <2>1. exec \in Threads /\ stack[exec] \in Seq(Frames) /\ stack[exec] # <<>>
        /\ Head(stack[exec]) = Frame("unlockAll", t)
    BY <1>3, Now DEF Releases, Releasing
  <2>2. 1 \in 1 .. Len(stack[exec]) /\ stack[exec][1] = Frame("unlockAll", t)
    BY <2>1
  <2> QED BY <2>1, <2>2
<1> QED BY <1>1, <1>2, <1>3, PTL DEF Spec
-----------------------------------------------------------------------------
(* No thread falls off the queues. *)

\* No thread that waits or may run is off the queues.
Found == Located(state, suspend, queue, q)

\* A step that unlinks nobody and moves nobody.
LEMMA FoundSame ==
  ASSUME Found, UNCHANGED <<state, suspend, queue, q>>
  PROVE  Found'
BY DEF Found

\* The thread a dispatch takes out of its run queue is running.
LEMMA FoundDispatch ==
  ASSUME NEW st \in [Threads -> States], NEW qu \in [Threads -> Queues \cup {None}],
         NEW qq \in [Queues -> Seq(Threads)], NEW pp \in SUBSET Prios,
         Dispatch(st, qu, qq, pp), Located(st, suspend, qu, qq), pp # {},
         pp = {p \in Prios : qq[RunQ(p)] # <<>>},
         \A x \in Queues : Distinct(qq[x])
  PROVE  Found'
<1> DEFINE p    == CHOOSE r \in pp : \A s \in pp : r <= s
           next == Head(qq[RunQ(p)])
           rest == Tail(qq[RunQ(p)])
<1>1. p \in pp /\ p \in Prios /\ RunQ(p) \in Queues
  BY LeastPriority, QueueNames
<1>2. /\ q'       = [qq EXCEPT ![RunQ(p)] = rest]
      /\ state'   = [st EXCEPT ![next] = "running"]
      /\ queue'   = [qu EXCEPT ![next] = None]
      /\ suspend' = suspend
  BY DEF Dispatch
<1> HIDE DEF p
<1>3. /\ qq[RunQ(p)] \in Seq(Threads) /\ qq[RunQ(p)] # <<>> /\ Distinct(qq[RunQ(p)])
  BY <1>1
<1>4. Elems(rest) = Elems(qq[RunQ(p)]) \ {next} /\ next \in Threads
  BY <1>3, TailElems, EmptyElems
<1> HIDE DEF next, rest
<1>5. \A u \in Threads \ {next} : state'[u] = st[u] /\ suspend'[u] = suspend[u] /\ queue'[u] = qu[u]
  BY <1>2
<1>6. \A x \in Queues : Elems(qq[x]) \ {next} \subseteq Elems(q'[x])
  <2>1. \A x \in Queues : q'[x] = IF x = RunQ(p) THEN rest ELSE qq[x]
    BY <1>1, <1>2
  <2> QED BY <1>4, <2>1
<1>7. state'[next] = "running"
  BY <1>2, <1>4
<1>8. (state'[next] = "waiting" \/ (state'[next] = "ready" /\ suspend'[next] = 0)) =>
        queue'[next] \in Queues /\ next \in Elems(q'[queue'[next]])
  BY <1>7
<1>9. Located(state', suspend', queue', q')
  BY <1>5, <1>6, <1>8 DEF Located
<1> QED BY <1>9 DEF Found

\* SelectThread links the thread it preempts and takes out the one it runs.
LEMMA FoundSelects ==
  ASSUME Inv, Found, SelectPreempts \/ SelectSwitches \/ IdleDispatches
  PROVE  Found'
<1>1. /\ state \in [Threads -> States] /\ queue \in [Threads -> Queues \cup {None}]
      /\ q \in [Queues -> Seq(Threads)] /\ pending \in SUBSET Prios
      /\ running \in {exec, None} /\ prio \in [Threads -> 0 .. NumPriorities]
      /\ exec \in Threads /\ Consistent(state, suspend, prio, queue, q) /\ PendingMask
      /\ \A x \in Queues : Distinct(q[x])
  BY DEF Inv, TypeOK, Host, Consistent
<1>2. CASE SelectSwitches \/ IdleDispatches
  <2>1. pending # {} /\ Dispatch(state, queue, q, pending)
    BY <1>2 DEF SelectSwitches, IdleDispatches
  <2> QED BY <1>1, <2>1, FoundDispatch DEF Found, PendingMask
<1>3. CASE SelectPreempts
  <2> DEFINE t  == running
             x  == RunQ(prio[running])
             st == [state EXCEPT ![running] = "ready"]
             qu == [queue EXCEPT ![running] = x]
             qq == [q EXCEPT ![x] = Append(@, running)]
             pp == pending \cup {prio[running]}
  <2>1. Dispatch(st, qu, qq, pp) /\ running # None /\ state[running] = "running"
    BY <1>3 DEF SelectPreempts, Refused
  <2>2. t = exec /\ t \in Threads /\ prio[t] \in Prios /\ x \in Queues
    BY <1>1, <2>1, QueueNames DEF Consistent, DeadStates
  <2>3. \A y \in Queues : t \notin Elems(q[y])
    BY <1>1, <2>1, <2>2, Unlinked
  <2>4. /\ Append(q[x], t) \in Seq(Threads) /\ Distinct(Append(q[x], t))
        /\ Elems(Append(q[x], t)) = Elems(q[x]) \cup {t}
    BY <1>1, <2>2, <2>3, AppendElems
  <2>5. \A y \in Queues : qq[y] = IF y = x THEN Append(q[x], t) ELSE q[y]
    BY <1>1, <2>2
  <2>6. /\ st \in [Threads -> States] /\ qu \in [Threads -> Queues \cup {None}]
        /\ qq \in [Queues -> Seq(Threads)] /\ pp \in SUBSET Prios /\ pp # {}
    BY <1>1, <2>2, <2>4 DEF States
  <2>7. pp = {p \in Prios : qq[RunQ(p)] # <<>>}
    <3>1. \A p \in Prios : p # prio[t] => qq[RunQ(p)] = q[RunQ(p)]
      BY <2>2, <2>5, QueueNames
    <3>2. qq[RunQ(prio[t])] # <<>>
      <4>1. Append(q[x], t) # <<>>
        BY <2>2, <2>4, EmptyElems
      <4> QED BY <2>2, <2>5, <4>1
    <3> HIDE DEF qq
    <3> QED BY <1>1, <2>2, <3>1, <3>2 DEF PendingMask
  <2>8. \A u \in Threads \ {t} : st[u] = state[u] /\ suspend[u] = suspend[u] /\ qu[u] = queue[u]
    BY <1>1
  <2>9. st[t] = "ready" /\ qu[t] = x
    BY <1>1, <2>2
  <2> HIDE DEF st, qu, qq, pp
  <2>10. \A y \in Queues : /\ Elems(q[y]) \ {t} \subseteq Elems(qq[y])
                           /\ y = x => t \in Elems(qq[y])
                           /\ Distinct(qq[y])
    <3> TAKE y \in Queues
    <3>1. CASE y = x
      BY <2>4, <2>5, <3>1
    <3>2. CASE y # x
      BY <1>1, <2>5, <3>2
    <3> QED BY <3>1, <3>2
  <2>11. Located(st, suspend, qu, qq)
    <3>1. qu[t] \in Queues /\ t \in Elems(qq[qu[t]])
      BY <2>2, <2>9, <2>10
    <3>2. Located(state, suspend, queue, q)
      BY DEF Found
    <3> HIDE DEF t, x
    <3> QED BY <2>8, <2>10, <3>1, <3>2, LocatedStep
  <2> QED BY <2>1, <2>6, <2>7, <2>10, <2>11, FoundDispatch
<1> QED BY <1>2, <1>3

\* WakeupThreadQueue links the waiter it takes out in its run queue.
LEMMA FoundWake ==
  ASSUME Inv, Found, WakeOne
  PROVE  Found'
<1> DEFINE a == Arg
           t == Head(q[a])
           p == IF prio[t] \in Prios THEN prio[t] ELSE NumPriorities - 1
           popped == [q EXCEPT ![a] = Tail(@)]
<1>1. a \in BlockQueues /\ a \in Queues /\ p \in Prios /\ RunQ(p) \in Queues /\ RunQ(p) # a
  <2>1. At("wake") \/ At("wakeMore") \/ At("wakeQuiet") \/ At("wakeReturn")
    BY DEF WakeOne
  <2>2. ~At("wakeReturn")
    BY Now DEF Quiet, IdleFrame, HandlerFrame, Frame
  <2>3. a \in BlockQueues
    BY <2>1, <2>2, Now, FrameArgs DEF Arg
  <2>4. p \in Prios
    BY ConstantsOK DEF Prios
  <2> QED BY <2>3, <2>4, QueueNames
<1>2. /\ state \in [Threads -> States] /\ queue \in [Threads -> Queues \cup {None}]
      /\ q \in [Queues -> Seq(Threads)] /\ suspend \in [Threads -> Nat]
      /\ q[a] \in Seq(Threads) /\ Distinct(q[a]) /\ q[a] # <<>>
      /\ q[RunQ(p)] \in Seq(Threads) /\ Distinct(q[RunQ(p)])
  BY <1>1 DEF Inv, TypeOK, Consistent, WakeOne
<1>3. Elems(Tail(q[a])) = Elems(q[a]) \ {t} /\ t \in Threads /\ t \in Elems(q[a])
  BY <1>2, TailElems, EmptyElems
<1>4. /\ state' = [state EXCEPT ![t] = "ready"] /\ suspend' = suspend
      /\ q' = IF Wakeable(t) THEN [popped EXCEPT ![RunQ(p)] = Append(@, t)] ELSE popped
      /\ \A u \in Threads \ {t} : queue'[u] = queue[u]
      /\ Wakeable(t) => queue'[t] = RunQ(p)
  BY <1>2, <1>3 DEF WakeOne
<1> HIDE DEF p, t, a
<1>5. Elems(Append(q[RunQ(p)], t)) = Elems(q[RunQ(p)]) \cup {t}
  <2>1. t \notin Elems(q[RunQ(p)])
    BY <1>1, <1>3 DEF Inv, Consistent
  <2> QED BY <1>2, <1>3, <2>1, AppendElems
<1>6. \A x \in Queues : popped[x] = IF x = a THEN Tail(q[a]) ELSE q[x]
  BY <1>2
<1>7. popped \in [Queues -> {popped[y] : y \in Queues}]
  BY <1>2
<1> HIDE DEF popped
<1>8. \A x \in Queues : q'[x] = IF Wakeable(t) /\ x = RunQ(p) THEN Append(q[RunQ(p)], t)
                                ELSE IF x = a THEN Tail(q[a]) ELSE q[x]
  BY <1>1, <1>4, <1>6, <1>7
<1>9. \A x \in Queues : Elems(q[x]) \ {t} \subseteq Elems(q'[x])
  BY <1>1, <1>3, <1>5, <1>8
<1>10. suspend'[t] = 0 => queue'[t] \in Queues /\ t \in Elems(q'[queue'[t]])
  BY <1>1, <1>3, <1>4, <1>5, <1>8 DEF Wakeable
<1>11. state'[t] = "ready" /\ \A u \in Threads \ {t} : state'[u] = state[u]
  BY <1>2, <1>3, <1>4
<1>12. suspend' = suspend /\ \A u \in Threads \ {t} : queue'[u] = queue[u]
  BY <1>4
<1> QED BY <1>9, <1>10, <1>11, <1>12 DEF Found, Located

\* OSSleepThread links its caller, or refuses and changes nothing.
LEMMA FoundSleep ==
  ASSUME Inv, Found, NEW x \in BlockQueues, NEW rest, running = exec, Sleep(x, rest),
         disable = 0 => state[exec] = "running"
  PROVE  Found'
<1>1. /\ prio \in [Threads -> 0 .. NumPriorities] /\ q \in [Queues -> Seq(Threads)]
      /\ exec \in Threads /\ exec # None /\ Consistent(state, suspend, prio, queue, q)
      /\ x \in Queues /\ prio[exec] \in 0 .. NumPriorities
      /\ state \in [Threads -> States] /\ queue \in [Threads -> Queues \cup {None}]
  BY Now, QueueNames DEF Inv, TypeOK
<1>2. CASE disable # 0
  BY <1>2, FoundSame DEF Sleep
<1>3. CASE disable = 0
  <2>1. /\ q' = InsertByPriority(q, x, exec, prio[exec]) /\ suspend' = suspend
        /\ state' = [state EXCEPT ![exec] = "waiting"] /\ queue' = [queue EXCEPT ![exec] = x]
    BY <1>1, <1>3 DEF Sleep
  <2>2. exec \notin Elems(q[x]) /\ Distinct(q[x])
    BY <1>1, <1>3, Unlinked DEF Consistent
  <2>3. /\ \A y \in Queues \ {x} : q'[y] = q[y]
        /\ Elems(q'[x]) = Elems(q[x]) \cup {exec}
    <3>1. \A y \in Queues \ {x} : q'[y] = q[y]
      BY <1>1, <2>1 DEF InsertByPriority
    <3>2. InsertPosition(q[x], prio[exec]) \in 1 .. Len(q[x]) + 1
      BY <1>1, InsertPlace
    <3>3. q'[x] = InsertAt(q[x], InsertPosition(q[x], prio[exec]), exec) /\ q[x] \in Seq(Threads)
      BY <1>1, <2>1 DEF InsertByPriority
    <3> QED BY <1>1, <2>2, <3>1, <3>2, <3>3, InsertElems
  <2>4. state'[exec] = "waiting" /\ queue'[exec] = x
        /\ \A u \in Threads \ {exec} : state'[u] = state[u] /\ queue'[u] = queue[u]
    BY <1>1, <2>1
  <2>5. \A y \in Queues : Elems(q[y]) \subseteq Elems(q'[y])
    BY <2>3
  <2> QED BY <1>1, <2>1, <2>3, <2>4, <2>5 DEF Found, Located
<1> QED BY <1>2, <1>3

\* A thread taken out of its queue and put into another, or the same, is there.
LEMMA FoundPut ==
  ASSUME Inv, Found, NEW u \in Threads, NEW x \in Queues, NEW p \in 0 .. NumPriorities,
         q' = InsertByPriority(RemoveThreadFromQueue(u), x, u, p),
         state' = state, queue'[u] = x,
         \A t \in Threads \ {u} : suspend'[t] = suspend[t] /\ queue'[t] = queue[t]
  PROVE  Found'
<1>1. Placed(q, q', u, x)
  BY Reinserted
<1>2. \A y \in Queues : Elems(q[y]) \ {u} \subseteq Elems(q'[y])
  BY <1>1 DEF Placed
<1>3. u \in Elems(q'[x])
  BY <1>1 DEF Placed
<1> QED BY <1>2, <1>3 DEF Found, Located

\* SetThreadEffectivePriority links the thread again where it took it out.
LEMMA FoundPriority ==
  ASSUME Inv, Found, NEW u \in Threads, NEW p \in Prios, SetThreadEffectivePriority(u, p),
         UNCHANGED <<state, suspend>>
  PROVE  Found'
<1>1. /\ queue \in [Threads -> Queues \cup {None}] /\ p \in 0 .. NumPriorities
      /\ Consistent(state, suspend, prio, queue, q) /\ RunQ(p) \in Queues
  <2>1. queue \in [Threads -> Queues \cup {None}] /\ Consistent(state, suspend, prio, queue, q)
    BY DEF Inv, TypeOK
  <2>2. p \in 0 .. NumPriorities
    BY ConstantsOK DEF Prios
  <2> QED BY <2>1, <2>2, QueueNames
<1> DEFINE x == IF state[u] = "ready" THEN RunQ(p) ELSE queue[u]
<1>2. CASE state[u] \in {"ready", "waiting"}
  <2>1. x \in Queues /\ x # None
    BY <1>1, <1>2, QueueNames DEF Consistent
  <2>2. q' = InsertByPriority(RemoveThreadFromQueue(u), x, u, p)
        /\ queue' = [queue EXCEPT ![u] = x]
    BY <1>2, <2>1 DEF SetThreadEffectivePriority
  <2> HIDE DEF x
  <2>3. queue'[u] = x /\ \A t \in Threads \ {u} : queue'[t] = queue[t]
    BY <1>1, <2>2
  <2> QED BY <1>1, <2>1, <2>2, <2>3, FoundPut
<1>3. CASE state[u] \notin {"ready", "waiting"}
  BY <1>3, FoundSame DEF SetThreadEffectivePriority
<1> QED BY <1>2, <1>3

\* OSSuspendThread links a waiter again; a ready thread it takes out may not run.
LEMMA FoundSuspend ==
  ASSUME Inv, Found, NEW u \in Threads, NEW rest, Suspend(u, rest)
  PROVE  Found'
<1>1. /\ queue \in [Threads -> Queues \cup {None}] /\ state \in [Threads -> States]
      /\ suspend \in [Threads -> Nat] /\ Consistent(state, suspend, prio, queue, q)
      /\ q \in [Queues -> Seq(Threads)] /\ SuspendedWaitPriority \in 0 .. NumPriorities
  <2>1. SuspendedWaitPriority \in 0 .. NumPriorities
    BY ConstantsOK DEF SuspendedWaitPriority
  <2> QED BY <2>1 DEF Inv, TypeOK
<1>2. /\ suspend'[u] = suspend[u] + 1 /\ suspend'[u] # 0
      /\ \A t \in Threads \ {u} : suspend'[t] = suspend[t]
  BY <1>1 DEF Suspend
<1>3. CASE suspend[u] > 0 /\ UNCHANGED <<state, queue, q>>
  BY <1>1, <1>2, <1>3 DEF Found, Located
<1>4. CASE /\ state[u] = "ready" /\ state' = state /\ q' = RemoveThreadFromQueue(u)
           /\ queue' = [queue EXCEPT ![u] = None]
  <2>1. \A y \in Queues : Elems(q[y]) \ {u} \subseteq Elems(q'[y])
    BY <1>1, <1>4, RemoveEffect
  <2>2. \A t \in Threads \ {u} : queue'[t] = queue[t]
    BY <1>1, <1>4
  <2> QED BY <1>1, <1>2, <1>4, <2>1, <2>2 DEF Found, Located
<1>5. CASE state' = [state EXCEPT ![u] = "ready"] /\ UNCHANGED <<queue, q>>
  BY <1>1, <1>2, <1>5 DEF Found, Located
<1>6. CASE /\ state[u] = "waiting" /\ UNCHANGED <<state, queue>>
           /\ q' = InsertByPriority(RemoveThreadFromQueue(u), queue[u], u, SuspendedWaitPriority)
  <2>1. queue[u] \in Queues
    BY <1>1, <1>6, QueueNames DEF Consistent
  <2> QED BY <1>1, <1>2, <1>6, <2>1, FoundPut
<1>7. \/ suspend[u] > 0 /\ UNCHANGED <<state, queue, q>>
      \/ /\ state[u] = "ready" /\ state' = state /\ q' = RemoveThreadFromQueue(u)
         /\ queue' = [queue EXCEPT ![u] = None]
      \/ state' = [state EXCEPT ![u] = "ready"] /\ UNCHANGED <<queue, q>>
      \/ /\ state[u] = "waiting" /\ UNCHANGED <<state, queue>>
         /\ q' = InsertByPriority(RemoveThreadFromQueue(u), queue[u], u, SuspendedWaitPriority)
  BY Zenon DEF Suspend
<1> QED BY <1>3, <1>4, <1>5, <1>6, <1>7

\* OSResumeThread links a ready thread when its last suspension ends.
LEMMA FoundResume ==
  ASSUME Inv, Found, NEW u \in Threads, Resume(u)
  PROVE  Found'
<1>1. /\ queue \in [Threads -> Queues \cup {None}] /\ state \in [Threads -> States]
      /\ suspend \in [Threads -> Nat] /\ prio \in [Threads -> 0 .. NumPriorities]
      /\ q \in [Queues -> Seq(Threads)] /\ owned[u] \in SUBSET Mutexes
      /\ Consistent(state, suspend, prio, queue, q)
  BY DEF Inv, TypeOK
<1> DEFINE free == RemoveThreadFromQueue(u)
           pw == EffectivePriority(u, free, owned[u])
           pr == EffectivePriority(u, q, owned[u])
<1>2. pw \in Prios /\ pr \in Prios /\ pw \in 0 .. NumPriorities
  <2>1. free \in [Queues -> Seq(Threads)]
    BY <1>1, RemoveEffect
  <2>2. pw \in Prios /\ pr \in Prios
    BY <1>1, <2>1, EffectiveIsPriority
  <2> QED BY <2>2, ConstantsOK DEF Prios
<1>3. \A t \in Threads \ {u} : suspend'[t] = suspend[t]
  BY <1>1 DEF Resume
<1>4. CASE suspend[u] # 1 /\ UNCHANGED <<state, queue, q>>
  <2>1. suspend'[u] = 0 <=> suspend[u] = 0
    BY <1>1, <1>4 DEF Resume
  <2> QED BY <1>3, <1>4, <2>1 DEF Found, Located
<1>5. CASE /\ state[u] = "waiting" /\ UNCHANGED <<state, queue>>
           /\ q' = InsertByPriority(free, queue[u], u, pw)
  <2>1. queue[u] \in Queues
    BY <1>1, <1>5, QueueNames DEF Consistent
  <2> QED BY <1>1, <1>2, <1>3, <1>5, <2>1, FoundPut
<1>6. CASE /\ suspend[u] = 1 /\ state[u] \in {"ready", "running"}
           /\ state' = [state EXCEPT ![u] = "ready"]
           /\ queue' = [queue EXCEPT ![u] = RunQ(pr)]
           /\ q' = InsertByPriority(q, RunQ(pr), u, pr)
  <2> HIDE DEF pr
  <2>1. RunQ(pr) \in Queues /\ u \notin Elems(q[RunQ(pr)]) /\ Distinct(q[RunQ(pr)])
        /\ q[RunQ(pr)] \in Seq(Threads) /\ pr \in 0 .. NumPriorities
    <3>1. RunQ(pr) \in Queues /\ pr \in 0 .. NumPriorities
      BY <1>2, QueueNames, ConstantsOK DEF Prios
    <3>2. \A x \in Queues : u \notin Elems(q[x])
      <4>1. state[u] # "waiting" /\ (state[u] # "ready" \/ suspend[u] # 0)
        BY <1>6
      <4> QED BY <1>1, <4>1, Unlinked
    <3>3. Distinct(q[RunQ(pr)]) /\ q[RunQ(pr)] \in Seq(Threads)
      BY <1>1, <3>1 DEF Consistent
    <3> QED BY <3>1, <3>2, <3>3
  <2>2. \A y \in Queues \ {RunQ(pr)} : q'[y] = q[y]
    BY <1>1, <1>6, <2>1 DEF InsertByPriority
  <2>3. Elems(q'[RunQ(pr)]) = Elems(q[RunQ(pr)]) \cup {u}
    <3>1. InsertPosition(q[RunQ(pr)], pr) \in 1 .. Len(q[RunQ(pr)]) + 1
      BY <1>1, <2>1, InsertPlace
    <3>2. q'[RunQ(pr)] = InsertAt(q[RunQ(pr)], InsertPosition(q[RunQ(pr)], pr), u)
      BY <1>1, <1>6, <2>1 DEF InsertByPriority
    <3> QED BY <2>1, <3>1, <3>2, InsertElems
  <2>4. queue'[u] = RunQ(pr) /\ \A t \in Threads \ {u} : queue'[t] = queue[t] /\ state'[t] = state[t]
    BY <1>1, <1>6
  <2>5. \A y \in Queues : Elems(q[y]) \subseteq Elems(q'[y])
    BY <2>2, <2>3
  <2> QED BY <1>3, <2>1, <2>3, <2>4, <2>5 DEF Found, Located
<1>7. \/ suspend[u] # 1 /\ UNCHANGED <<state, queue, q>>
      \/ /\ state[u] = "waiting" /\ UNCHANGED <<state, queue>>
         /\ q' = InsertByPriority(free, queue[u], u, pw)
      \/ /\ suspend[u] = 1 /\ state[u] \in {"ready", "running"}
         /\ state' = [state EXCEPT ![u] = "ready"]
         /\ queue' = [queue EXCEPT ![u] = RunQ(pr)]
         /\ q' = InsertByPriority(q, RunQ(pr), u, pr)
  BY DEF Resume
<1> QED BY <1>4, <1>5, <1>6, <1>7

\* A structure may be used again once nobody waits to join its last thread.
LEMMA FoundCreate ==
  ASSUME Inv, Found, NEW u \in Threads, NEW d, OSCreateThread(u, d), q[JoinQ(u)] = <<>>
  PROVE  Found'
<1>1. /\ state \in [Threads -> States] /\ suspend \in [Threads -> Nat]
      /\ q \in [Queues -> Seq(Threads)] /\ JoinQ(u) \in Queues
  BY QueueNames DEF Inv, TypeOK
<1>2. /\ state' = [state EXCEPT ![u] = "ready"] /\ suspend' = [suspend EXCEPT ![u] = 1]
      /\ q' = [q EXCEPT ![JoinQ(u)] = <<>>] /\ queue' = queue
  BY DEF OSCreateThread
<1>3. q' = q
  BY <1>1, <1>2
<1>4. state'[u] = "ready" /\ suspend'[u] = 1
      /\ \A t \in Threads \ {u} : state'[t] = state[t] /\ suspend'[t] = suspend[t]
  BY <1>1, <1>2
<1> QED BY <1>2, <1>3, <1>4 DEF Found, Located

\* A thread that ends needs no queue any more.
LEMMA FoundEnd ==
  ASSUME Inv, Found, NEW u \in Threads, Terminate(u), suspend' = suspend,
         \A t \in Threads \ {u} : queue'[t] = queue[t],
         q' = q \/ q' = RemoveThreadFromQueue(u)
  PROVE  Found'
<1>1. /\ state \in [Threads -> States] /\ queue \in [Threads -> Queues \cup {None}]
      /\ q \in [Queues -> Seq(Threads)] /\ Consistent(state, suspend, prio, queue, q)
  BY DEF Inv, TypeOK
<1>2. \A y \in Queues : Elems(q[y]) \ {u} \subseteq Elems(q'[y])
  BY <1>1, RemoveEffect
<1>3. state'[u] \in {"none", "moribund"} /\ \A t \in Threads \ {u} : state'[t] = state[t]
  BY <1>1 DEF Terminate
<1> QED BY <1>2, <1>3 DEF Found, Located

\* OSJoinThread retires an ended thread, which is in no queue.
LEMMA FoundReap ==
  ASSUME Inv, Found, NEW u \in Threads,
         IF state[u] = "moribund" THEN state' = [state EXCEPT ![u] = "none"] ELSE state' = state,
         UNCHANGED <<suspend, queue, q>>
  PROVE  Found'
BY DEF Found, Located, Inv, TypeOK
\* While guest code runs, nobody waits to join a thread that does not exist.
NoneJoined == InThread => \A u \in Threads : state[u] = "none" => q[JoinQ(u)] = <<>>

\* Every step keeps the threads found, if no structure is used again under a joiner.
LEMMA FoundStep ==
  ASSUME Inv, Found, Next, "return" \notin Ops, NoneJoined
  PROVE  Found'
<1>1. CASE GuestCall
  <2>1. ASSUME NEW u \in Threads, OSSuspendThread(u) PROVE Found'
    BY <2>1, FoundSuspend DEF OSSuspendThread
  <2>2. ASSUME NEW u \in Threads, OSResumeThread(u) PROVE Found'
    BY <2>2, FoundResume DEF OSResumeThread
  <2>3. ASSUME NEW u \in Threads, OSCancelThread(u) PROVE Found'
    <3>1. \A t \in Threads \ {u} : queue'[t] = queue[t]
      BY <2>3 DEF OSCancelThread, Inv, TypeOK
    <3>2. Terminate(u) /\ suspend' = suspend /\ (q' = q \/ q' = RemoveThreadFromQueue(u))
      BY <2>3 DEF OSCancelThread
    <3> QED BY <3>1, <3>2, FoundEnd
  <2>4. ASSUME NEW u \in Threads, NEW d \in Attrs, OSCreateThread(u, d) PROVE Found'
    <3>1. q[JoinQ(u)] = <<>>
      BY <2>4 DEF OSCreateThread, NoneJoined
    <3> QED BY <2>4, <3>1, FoundCreate
  <2>5. ASSUME NEW w \in WaitQueues, OSSleepThread(w) PROVE Found'
    <3>1. InGuest /\ Sleep(WaitQ(w), stack[exec]) /\ WaitQ(w) \in BlockQueues
      BY <2>5, QueueNames DEF OSSleepThread, Calls
    <3>2. running = exec /\ (disable = 0 => state[exec] = "running")
      BY <3>1, Now DEF InGuest
    <3> QED BY <3>1, <3>2, FoundSleep
  <2>6. CASE OSSleepTicks
    <3>1. running = exec /\ exec \in Threads
      BY <2>6, Now DEF OSSleepTicks, Calls, InGuest
    <3> QED BY <2>6, <3>1, FoundSuspend DEF OSSleepTicks
  <2>7. CASE OSExitThread
    <3>1. Terminate(exec) /\ exec \in Threads /\ UNCHANGED <<suspend, queue, q>>
      BY <2>7, Now DEF OSExitThread, schedVars
    <3> QED BY <3>1, FoundEnd
  <2>8. ASSUME NEW u \in Threads, OSDetachThread(u) PROVE Found'
    <3>1. /\ IF state[u] = "moribund" THEN state' = [state EXCEPT ![u] = "none"] ELSE state' = state
          /\ UNCHANGED <<suspend, queue, q>>
      BY <2>8 DEF OSDetachThread, schedVars
    <3> QED BY <3>1, FoundReap
  <2>9. CASE UNCHANGED <<state, suspend, queue, q>>
    BY <2>9, FoundSame
  <2>10. \/ \E u \in Threads : \/ OSSuspendThread(u) \/ OSResumeThread(u) \/ OSCancelThread(u)
                               \/ OSDetachThread(u)
                               \/ \E d \in Attrs : OSCreateThread(u, d)
         \/ \E w \in WaitQueues : OSSleepThread(w)
         \/ OSSleepTicks \/ OSExitThread
         \/ UNCHANGED <<state, suspend, queue, q>>
    BY <1>1, NoReturn, Zenon DEF GuestCall, OSJoinThread, OSWakeupThread, OSLockMutex, OSUnlockMutex,
       OSYieldThread, HandlerBegins, HandlerEnds, DeferredEnds, threadVars, schedVars
  <2> QED BY <2>1, <2>2, <2>3, <2>4, <2>5, <2>6, <2>7, <2>8, <2>9, <2>10
<1>2. CASE HandlerStep
  <2>1. CASE SelectPreempts \/ SelectSwitches
    BY <2>1, FoundSelects
  <2>2. CASE WakeOne
    BY <2>2, FoundWake
  <2>3. CASE Block
    <3>1. At("block") /\ Sleep(Arg, Tail(stack[exec]))
      BY <2>3 DEF Block
    <3>2. running = exec /\ state[exec] = "running"
      BY <3>1, RunsItself
    <3>3. Arg \in BlockQueues
      BY <3>1, Now, FrameArgs DEF Arg
    <3> QED BY <3>1, <3>2, <3>3, FoundSleep
  <2>4. CASE Slept
    <3>1. state[exec] = "running"
      BY <2>4, RunsItself DEF Slept
    <3>2. UNCHANGED <<state, suspend, queue, q>>
      BY <2>4, <3>1 DEF Slept
    <3> QED BY <3>2, FoundSame
  <2>5. CASE TicksDone
    <3>1. state[exec] = "running" /\ exec \in Threads
      BY <2>5, RunsItself DEF TicksDone
    <3>2. suspend[exec] = 0
      BY <3>1 DEF Inv, Consistent
    <3>3. UNCHANGED <<state, suspend, queue, q>>
      BY <2>5, <3>2 DEF TicksDone, schedVars
    <3> QED BY <3>3, FoundSame
  <2>6. CASE Promote
    <3>1. Arg \in Threads /\ prio[exec] \in Prios
      <4>1. At("promote")
        BY <2>6 DEF Promote
      <4>2. state[exec] = "running" /\ exec \in Threads
        BY <4>1, RunsItself
      <4>3. Arg \in Threads
        BY <4>1, Now, FrameArgs DEF Arg
      <4> QED BY <4>2, <4>3 DEF Inv, TypeOK, Consistent, DeadStates
    <3>2. UNCHANGED <<queue, q>> \/ SetThreadEffectivePriority(Arg, prio[exec])
      BY <2>6, Zenon DEF Promote
    <3>3. UNCHANGED <<state, suspend>>
      BY <2>6 DEF Promote
    <3> QED BY <3>1, <3>2, <3>3, FoundPriority, FoundSame
  <2>7. CASE Propagate
    <3> DEFINE p == EffectivePriority(Arg, q, owned[Arg])
    <3>1. Arg \in Threads /\ p \in Prios
      <4>1. Arg \in Threads
        BY <2>7, Now, FrameArgs DEF Arg, Propagate
      <4>2. /\ prio \in [Threads -> 0 .. NumPriorities] /\ q \in [Queues -> Seq(Threads)]
            /\ owned \in [Threads -> SUBSET Mutexes]
        BY DEF Inv, TypeOK
      <4> QED BY <4>1, <4>2, EffectiveIsPriority
    <3>2. /\ UNCHANGED <<queue, q>> \/ SetThreadEffectivePriority(Arg, p)
          /\ UNCHANGED <<state, suspend>>
      BY <2>7 DEF Propagate
    <3> QED BY <3>1, <3>2, FoundPriority, FoundSame
  <2>8. CASE JoinDone
    <3>1. /\ Arg \in Threads
          /\ IF state[Arg] = "moribund" THEN state' = [state EXCEPT ![Arg] = "none"] ELSE state' = state
          /\ UNCHANGED <<suspend, queue, q>>
      BY <2>8, Now, FrameArgs DEF JoinDone, Arg, schedVars
    <3> QED BY <3>1, FoundReap
  <2>9. CASE UNCHANGED <<state, suspend, queue, q>>
    BY <2>9, FoundSame
  <2>10. \/ SelectPreempts \/ SelectSwitches
         \/ WakeOne \/ Block \/ Slept \/ TicksDone \/ Promote \/ Propagate \/ JoinDone
         \/ UNCHANGED <<state, suspend, queue, q>>
    BY <1>2, NoReturn, Zenon DEF HandlerStep, SelectRefuses, SelectIdles, WakeDone, Resched,
       LockRound, ExitTail, UnlockAll, WakeThreadJoiners, threadVars, schedVars
  <2> QED BY <2>1, <2>2, <2>3, <2>4, <2>5, <2>6, <2>7, <2>8, <2>9, <2>10
<1>3. CASE HostEvent
  <2>1. CASE IdleDispatches
    BY <2>1, FoundSelects
  <2>2. ASSUME NEW w \in WaitQueues, IdleEvent(w) PROVE Found'
    BY <2>2, FoundSame DEF IdleEvent, threadVars, schedVars
  <2>3. ASSUME NEW u \in Threads, TimerFires(u) PROVE Found'
    <3>1. Resume(u) \/ UNCHANGED <<state, suspend, queue, q>>
      BY <2>3 DEF TimerFires, threadVars, schedVars
    <3> QED BY <3>1, FoundResume, FoundSame
  <2> QED BY <1>3, <2>1, <2>2, <2>3 DEF HostEvent
<1> QED BY <1>1, <1>2, <1>3 DEF Next
-----------------------------------------------------------------------------
(* What the calls and handlers leave on the host stacks. *)

\* Every host stack is made of frames of F.
AllIn(F) == \A t \in Threads : stack[t] \in Seq(F)

\* All frames but the one that runs.
UnderIn(F) ==
  /\ \A t \in Threads \ {exec} : stack[t] \in Seq(F)
  /\ stack[exec] # <<>> => Tail(stack[exec]) \in Seq(F)

\* The frames of everything but joins, mutexes and the quiet wake-ups of the
\* idle loop.
Common ==
  {Frame(op, None) : op \in {"select", "yield", "idle", "resched", "exitTail", "ticks", "handler"}}
    \cup {Frame(op, x) : op \in {"wake", "wakeMore", "slept"}, x \in BlockQueues}
    \cup {Frame(op, t) : op \in {"joiners", "join"}, t \in Threads}

\* The frames in which a thread that ended releases its mutexes.
Endings == {Frame("unlockAll", t) : t \in Threads}
MayEnd  == "exit" \in Ops \/ "cancel" \in Ops

\* The common frames, one kind at a time.
LEMMA CommonFrames ==
  ASSUME NEW F, Common \subseteq F
  PROVE  /\ Frame("select", None) \in F /\ Frame("yield", None) \in F /\ Frame("idle", None) \in F
         /\ Frame("resched", None) \in F /\ Frame("exitTail", None) \in F
         /\ Frame("ticks", None) \in F /\ Frame("handler", None) \in F
         /\ \A x \in BlockQueues : Frame("wake", x) \in F /\ Frame("wakeMore", x) \in F
                                   /\ Frame("slept", x) \in F
         /\ \A t \in Threads : Frame("joiners", t) \in F /\ Frame("join", t) \in F
BY DEF Common

\* What the handlers push is a sequence of at most three frames.
LEMMA FrameSeqs ==
  ASSUME NEW F
  PROVE  /\ <<>> \in Seq(F)
         /\ \A f \in F : <<f>> \in Seq(F)
         /\ \A f, g \in F : <<f, g>> \in Seq(F)
         /\ \A f, g, h \in F : <<f, g, h>> \in Seq(F)
OBVIOUS

\* The frames under the executing one are among all frames.
LEMMA AllUnder ==
  ASSUME NEW F, AllIn(F), exec \in Threads
  PROVE  UnderIn(F)
<1>1. \A s : s \in Seq(F) /\ s # <<>> => Tail(s) \in Seq(F)
  OBVIOUS
<1> QED BY <1>1 DEF AllIn, UnderIn

\* A step that rewrites the stack of the executing fiber.
LEMMA FramesPut ==
  ASSUME Inv, NEW F, UnderIn(F), NEW s \in Seq(F), stack' = [stack EXCEPT ![exec] = s]
  PROVE  AllIn(F)'
BY DEF Inv, TypeOK, UnderIn, AllIn

\* The executing frame is replaced by the rest of its handler.
LEMMA FramesBecome ==
  ASSUME Inv, NEW F, UnderIn(F), stack[exec] # <<>>, NEW fs \in Seq(F), Become(fs)
  PROVE  AllIn(F)'
<1>1. fs \o Tail(stack[exec]) \in Seq(F)
  BY ConcatProperties DEF UnderIn
<1> QED BY <1>1, FramesPut DEF Become

\* A handler is called on top of the executing frame.
LEMMA FramesCall ==
  ASSUME Inv, NEW F, AllIn(F), NEW fs \in Seq(F), Call(fs)
  PROVE  AllIn(F)'
<1>1. exec \in Threads /\ stack[exec] \in Seq(F)
  BY Now DEF AllIn
<1> DEFINE s == fs \o stack[exec]
<1>2. s \in Seq(F)
  BY <1>1, ConcatProperties
<1>3. stack' = [stack EXCEPT ![exec] = s]
  BY DEF Call
<1> HIDE DEF s
<1> QED BY <1>1, <1>2, <1>3, AllUnder, FramesPut

\* The frame that runs is a common one too.
LEMMA TopCommon ==
  ASSUME Inv, NEW F, UnderIn(F), Common \subseteq F,
         \/ InGuest
         \/ \E op \in {"select", "yield", "idle", "wake", "wakeMore"} : At(op)
  PROVE  AllIn(F)
<1>1. exec \in Threads /\ stack[exec] \in Seq(Frames)
  BY Now
<1>2. CASE InThread
  <2>1. stack[exec] \in Seq(F)
    BY <1>2, FrameSeqs DEF InThread
  <2> QED BY <2>1 DEF UnderIn, AllIn
<1>3. ASSUME NEW op \in {"select", "yield", "idle", "wake", "wakeMore", "handler"}, At(op)
      PROVE  AllIn(F)
  <2> DEFINE h == Head(stack[exec])
             r == Tail(stack[exec])
  <2>1. stack[exec] # <<>> /\ h \in Frames /\ h.op = op /\ r \in Seq(F)
    BY <1>3, Now DEF UnderIn
  <2>2. h \in Common
    BY <2>1 DEF Frames, Frame, Common
  <2>3. stack[exec] = <<h>> \o r
    BY <1>1, <2>1
  <2> HIDE DEF h, r
  <2>4. stack[exec] \in Seq(F)
    BY <2>1, <2>2, <2>3
  <2> QED BY <1>1, <2>4 DEF UnderIn, AllIn
<1> QED BY <1>2, <1>3 DEF InGuest, InHandler

\* What OSSleepThread leaves on the stack.
LEMMA FramesPark ==
  ASSUME Inv, NEW F, UnderIn(F), Common \subseteq F, NEW x \in BlockQueues, NEW rest \in Seq(F),
         Sleep(x, rest)
  PROVE  AllIn(F)'
<1>1. <<Select, Frame("slept", x)>> \in Seq(F)
  BY CommonFrames, FrameSeqs DEF Select
<1> DEFINE s == <<Select, Frame("slept", x)>> \o rest
<1>2. s \in Seq(F)
  BY <1>1, ConcatProperties
<1>3. stack' = [stack EXCEPT ![exec] = s] \/ stack' = [stack EXCEPT ![exec] = rest]
  BY DEF Sleep
<1> HIDE DEF s
<1> QED BY <1>2, <1>3, FramesPut

\* What OSSuspendThread leaves on the stack.
LEMMA FramesSuspend ==
  ASSUME Inv, NEW F, UnderIn(F), Common \subseteq F, NEW u \in Threads, NEW rest \in Seq(F),
         PropagateFrom(u) \in Seq(F), Suspend(u, rest)
  PROVE  AllIn(F)'
<1> DEFINE r == <<Frame("resched", None)>>
           a == <<>> \o r \o rest
           b == PropagateFrom(u) \o r \o rest
<1>1. r \in Seq(F)
  BY CommonFrames, FrameSeqs
<1>2. \/ stack' = [stack EXCEPT ![exec] = rest]
      \/ stack' = [stack EXCEPT ![exec] = a]
      \/ stack' = [stack EXCEPT ![exec] = b]
  BY Zenon DEF Suspend
<1> HIDE DEF r
<1>3. a \in Seq(F) /\ b \in Seq(F)
  <2>1. <<>> \o r \in Seq(F) /\ PropagateFrom(u) \o r \in Seq(F)
    BY <1>1, FrameSeqs, ConcatProperties
  <2> QED BY <2>1, ConcatProperties
<1> HIDE DEF a, b
<1> QED BY <1>2, <1>3, FramesPut

\* What OSResumeThread leaves on the stack.
LEMMA FramesResume ==
  ASSUME Inv, NEW F, AllIn(F), Common \subseteq F, NEW u \in Threads,
         PropagateFrom(u) \in Seq(F), Resume(u)
  PROVE  AllIn(F)'
<1> DEFINE r == <<Frame("resched", None)>>
           b == PropagateFrom(u) \o r
<1>1. r \in Seq(F)
  BY CommonFrames, FrameSeqs
<1>2. UNCHANGED stack \/ Call(r) \/ Call(b)
  BY Zenon DEF Resume
<1> HIDE DEF r
<1>3. b \in Seq(F)
  BY <1>1, ConcatProperties
<1> HIDE DEF b
<1>4. CASE UNCHANGED stack
  BY <1>4 DEF AllIn
<1> QED BY <1>1, <1>2, <1>3, <1>4, FramesCall

\* What OSCancelThread leaves on the stack.
LEMMA FramesCancel ==
  ASSUME Inv, NEW F, UnderIn(F), Common \subseteq F, Endings \subseteq F, NEW u \in Threads,
         OSCancelThread(u)
  PROVE  AllIn(F)'
<1> DEFINE tail == <<Frame("unlockAll", u), Frame("joiners", u), Frame("resched", None)>>
<1>1. tail \in Seq(F) /\ <<>> \in Seq(F)
  BY CommonFrames, FrameSeqs DEF Endings
<1>2. stack' = IF u = exec THEN [stack EXCEPT ![exec] = tail]
               ELSE [stack EXCEPT ![exec] = tail, ![u] = <<>>]
  BY DEF OSCancelThread
<1> HIDE DEF tail
<1> QED BY <1>1, <1>2 DEF Inv, TypeOK, UnderIn, AllIn

\* OSCreateThread gives the new thread an empty host stack.
LEMMA FramesCreate ==
  ASSUME Inv, NEW F, AllIn(F), NEW u \in Threads, NEW d, OSCreateThread(u, d)
  PROVE  AllIn(F)'
<1>1. stack' = [stack EXCEPT ![u] = <<>>] /\ <<>> \in Seq(F)
  BY FrameSeqs DEF OSCreateThread
<1> QED BY <1>1 DEF Inv, TypeOK, AllIn

\* OS calls of the guest other than those that join and lock.
LEMMA FramesGuest ==
  ASSUME Inv, NEW F, UnderIn(F), Common \subseteq F, MayEnd => Endings \subseteq F,
         GuestCall, "return" \notin Ops,
         \A u \in Threads : PropagateFrom(u) \in Seq(F),
         \A u \in Threads : ~OSJoinThread(u), \A m \in Mutexes : ~OSLockMutex(m)
  PROVE  AllIn(F)'
<1>1. InGuest
  BY NoReturn, Zenon DEF GuestCall, OSSuspendThread, OSResumeThread, OSCancelThread, OSDetachThread,
     OSCreateThread, OSSleepThread, OSWakeupThread, OSUnlockMutex, OSSleepTicks, OSYieldThread,
     OSExitThread, HandlerBegins, HandlerEnds, DeferredEnds, Calls, InGuest, InHandler
<1>2. AllIn(F) /\ exec \in Threads /\ stack[exec] \in Seq(F)
  BY <1>1, Now, TopCommon DEF AllIn
<1>3. ASSUME NEW f \in F, Call(<<f>>) PROVE AllIn(F)'
  BY <1>2, <1>3, FrameSeqs, FramesCall
<1>4. ASSUME NEW u \in Threads, OSSuspendThread(u) PROVE AllIn(F)'
  BY <1>2, <1>4, FramesSuspend DEF OSSuspendThread
<1>5. ASSUME NEW u \in Threads, OSResumeThread(u) PROVE AllIn(F)'
  BY <1>2, <1>5, FramesResume DEF OSResumeThread
<1>6. ASSUME NEW u \in Threads, OSCancelThread(u) PROVE AllIn(F)'
  BY <1>6, FramesCancel DEF OSCancelThread, MayEnd
<1>7. ASSUME NEW u \in Threads, OSDetachThread(u) PROVE AllIn(F)'
  BY <1>3, <1>7, CommonFrames DEF OSDetachThread
<1>8. ASSUME NEW u \in Threads, NEW d \in Attrs, OSCreateThread(u, d) PROVE AllIn(F)'
  BY <1>2, <1>8, FramesCreate
<1>9. ASSUME NEW w \in WaitQueues, OSSleepThread(w) \/ OSWakeupThread(w) PROVE AllIn(F)'
  <2>1. WaitQ(w) \in BlockQueues
    BY QueueNames
  <2>2. CASE OSSleepThread(w)
    BY <1>2, <2>1, <2>2, FramesPark DEF OSSleepThread
  <2>3. CASE OSWakeupThread(w)
    BY <1>3, <2>1, <2>3, CommonFrames DEF OSWakeupThread
  <2> QED BY <1>9, <2>2, <2>3
<1>10. ASSUME NEW m \in Mutexes, OSUnlockMutex(m) PROVE AllIn(F)'
  <2>1. Frame("wake", MutexQ(m)) \in F
    BY QueueNames, CommonFrames
  <2>2. CASE UNCHANGED stack
    BY <1>2, <2>2 DEF AllIn
  <2>3. UNCHANGED stack \/ Call(<<Frame("wake", MutexQ(m))>>)
    BY <1>10 DEF OSUnlockMutex
  <2> QED BY <1>3, <2>1, <2>2, <2>3
<1>11. CASE OSSleepTicks
  <2> DEFINE rest == <<Frame("ticks", None)>> \o stack[exec]
  <2>1. Suspend(running, rest) /\ running = exec
    BY <1>1, <1>11, Now DEF OSSleepTicks, InGuest
  <2>2. rest \in Seq(F)
    <3>1. <<Frame("ticks", None)>> \in Seq(F)
      BY CommonFrames, FrameSeqs
    <3> QED BY <1>2, <3>1, ConcatProperties
  <2> HIDE DEF rest
  <2> QED BY <1>2, <2>1, <2>2, FramesSuspend
<1>12. CASE OSYieldThread \/ HandlerBegins
  BY <1>3, <1>12, CommonFrames DEF OSYieldThread, HandlerBegins
<1>13. CASE OSExitThread
  <2> DEFINE fs == <<Frame("unlockAll", exec), Frame("joiners", exec), Frame("exitTail", None)>>
  <2>1. fs \in Seq(F)
    <3>1. Frame("unlockAll", exec) \in F
      BY <1>2, <1>13 DEF OSExitThread, MayEnd, Endings
    <3> QED BY <1>2, <3>1, CommonFrames, FrameSeqs
  <2>2. Call(fs)
    BY <1>13 DEF OSExitThread
  <2> HIDE DEF fs
  <2> QED BY <1>2, <2>1, <2>2, FramesCall
<1>14. CASE HandlerEnds
  <2>1. stack[exec] # <<>> /\ Become(<<Frame("resched", None)>>) /\ <<Frame("resched", None)>> \in Seq(F)
    BY <1>14, CommonFrames, FrameSeqs DEF HandlerEnds, At
  <2> QED BY <2>1, FramesBecome
<1>15. CASE DeferredEnds
  <2>1. stack[exec] # <<>> /\ Become(<<>>) /\ <<>> \in Seq(F)
    BY <1>15, FrameSeqs DEF DeferredEnds, Return, At
  <2> QED BY <2>1, FramesBecome
<1> QED BY NoReturn, <1>4, <1>5, <1>6, <1>7, <1>8, <1>9, <1>10, <1>11, <1>12, <1>13, <1>14,
           <1>15 DEF GuestCall

\* Handlers other than those of mutexes and the wake-ups.
LEMMA FramesHandler ==
  ASSUME Inv, NEW F, UnderIn(F), Common \subseteq F, UnlockAll => Endings \subseteq F,
         HandlerStep, "return" \notin Ops,
         ~Promote, ~Propagate, ~LockRound, ~WakeOne
  PROVE  AllIn(F)'
<1>1. ASSUME NEW f \in F, stack[exec] # <<>>, Become(<<f>>) PROVE AllIn(F)'
  BY <1>1, FrameSeqs, FramesBecome
<1>2. ASSUME stack[exec] # <<>>, Return PROVE AllIn(F)'
  BY <1>2, FrameSeqs, FramesBecome DEF Return
<1>3. Select \in F
  BY CommonFrames DEF Select
<1>4. CASE SelectRefuses \/ SelectPreempts \/ SelectSwitches
  <2>1. stack[exec] # <<>>
    BY <1>4 DEF SelectRefuses, SelectPreempts, SelectSwitches, AtSelect, At
  <2>2. Return
    BY <1>4, Zenon DEF SelectRefuses, SelectPreempts, SelectSwitches, Dispatch
  <2> QED BY <1>2, <2>1, <2>2
<1>5. CASE SelectIdles
  <2>1. stack[exec] # <<>> /\ Become(<<Frame("idle", None)>>)
    BY <1>5 DEF SelectIdles, AtSelect, At
  <2> QED BY <1>1, <2>1, CommonFrames
<1>6. CASE WakeDone
  <2>1. stack[exec] # <<>> /\ (Return \/ Become(<<Select>>))
    BY <1>6 DEF WakeDone, At, Return
  <2> QED BY <1>1, <1>2, <1>3, <2>1
<1>7. CASE Block
  <2>1. At("block") /\ Sleep(Arg, Tail(stack[exec]))
    BY <1>7 DEF Block
  <2>2. Arg \in BlockQueues
    BY <2>1, Now, FrameArgs DEF Arg
  <2>3. Tail(stack[exec]) \in Seq(F)
    BY <2>1 DEF At, UnderIn
  <2> QED BY <2>1, <2>2, <2>3, FramesPark
<1>8. CASE Slept \/ TicksDone \/ JoinDone
  <2>1. stack[exec] # <<>> /\ Return
    BY <1>8 DEF Slept, TicksDone, JoinDone, At
  <2> QED BY <1>2, <2>1
<1>9. CASE Resched
  <2>1. stack[exec] # <<>> /\ (Return \/ Become(<<Select>>))
    BY <1>9 DEF Resched, At, Return
  <2> QED BY <1>1, <1>2, <1>3, <2>1
<1>10. CASE ExitTail
  <2>1. stack[exec] # <<>> /\ Become(<<Select>>)
    BY <1>10 DEF ExitTail, At
  <2> QED BY <1>1, <1>3, <2>1
<1>11. CASE UnlockAll
  <2>1. stack[exec] # <<>> /\ AllIn(F) /\ Arg \in Threads /\ owned[Arg] \in SUBSET Mutexes
    <3>1. At("unlockAll") /\ stack[exec] # <<>>
      BY <1>11 DEF UnlockAll, At
    <3>2. Arg \in Threads
      BY <3>1, Now, FrameArgs DEF Arg
    <3> DEFINE h == Head(stack[exec])
               r == Tail(stack[exec])
    <3>3. exec \in Threads /\ stack[exec] \in Seq(Frames) /\ h \in Frames /\ h.op = "unlockAll"
          /\ r \in Seq(F)
      BY <3>1, Now DEF At, UnderIn
    <3>4. h \in F
      <4>1. h \in Endings
        BY <3>3 DEF Frames, Frame, Endings
      <4> QED BY <1>11, <4>1
    <3>5. stack[exec] = <<h>> \o r
      BY <3>1, <3>3
    <3> HIDE DEF h, r
    <3>6. stack[exec] \in Seq(F)
      BY <3>3, <3>4, <3>5
    <3>7. AllIn(F)
      BY <3>6 DEF AllIn, UnderIn
    <3> QED BY <3>1, <3>2, <3>7 DEF Inv, TypeOK
  <2>2. Return \/ \E m \in owned[Arg] : Call(<<Frame("wake", MutexQ(m))>>)
    BY <1>11 DEF UnlockAll
  <2>3. \A m \in Mutexes : <<Frame("wake", MutexQ(m))>> \in Seq(F)
    BY QueueNames, CommonFrames, FrameSeqs
  <2> QED BY <1>2, <2>1, <2>2, <2>3, FramesCall
<1>12. CASE WakeThreadJoiners
  <2>1. stack[exec] # <<>> /\ Become(<<Frame("wake", JoinQ(Arg))>>) /\ At("joiners")
    BY <1>12 DEF WakeThreadJoiners, At
  <2>2. JoinQ(Arg) \in BlockQueues
    BY <2>1, Now, FrameArgs, QueueNames DEF Arg
  <2> QED BY <1>1, <2>1, <2>2, CommonFrames
<1> QED BY NoReturn, <1>4, <1>5, <1>6, <1>7, <1>8, <1>9, <1>10, <1>11, <1>12 DEF HandlerStep

\* The idle loop but for its wake-ups, and the timers.
LEMMA FramesHost ==
  ASSUME Inv, NEW F, UnderIn(F), Common \subseteq F, HostEvent,
         \A u \in Threads : PropagateFrom(u) \in Seq(F), \A w \in WaitQueues : ~IdleEvent(w)
  PROVE  AllIn(F)'
<1>1. CASE IdleDispatches
  <2>1. stack[exec] # <<>> /\ Become(<<>>) /\ <<>> \in Seq(F)
    BY <1>1, FrameSeqs DEF IdleDispatches, Dispatch, Return, At
  <2> QED BY <2>1, FramesBecome
<1>2. ASSUME NEW u \in Threads, TimerFires(u) PROVE AllIn(F)'
  <2>1. At("select") \/ At("yield") \/ At("idle")
    BY <1>2 DEF TimerFires, AtSelect
  <2>2. AllIn(F)
    BY <2>1, TopCommon
  <2>3. Resume(u) \/ UNCHANGED stack
    BY <1>2, Zenon DEF TimerFires, hostVars
  <2>4. CASE UNCHANGED stack
    BY <2>2, <2>4 DEF AllIn
  <2> QED BY <2>2, <2>3, <2>4, FramesResume
<1> QED BY <1>1, <1>2 DEF HostEvent

\* What WakeupThreadQueue leaves on the stack.
LEMMA FramesWake ==
  ASSUME Inv, NEW F, AllIn(F), Common \subseteq F, WakeOne
  PROVE  AllIn(F)'
<1>1. UNCHANGED stack \/ (At("wake") /\ Become(<<Frame("wakeMore", Arg)>>))
  BY DEF WakeOne
<1>2. CASE UNCHANGED stack
  BY <1>2 DEF AllIn
<1>3. CASE At("wake") /\ Become(<<Frame("wakeMore", Arg)>>)
  <2>1. Arg \in BlockQueues /\ stack[exec] # <<>> /\ exec \in Threads
    BY <1>3, Now, FrameArgs DEF Arg
  <2>2. <<Frame("wakeMore", Arg)>> \in Seq(F)
    BY <2>1, CommonFrames, FrameSeqs
  <2> QED BY <1>3, <2>1, <2>2, AllUnder, FramesBecome
<1> QED BY <1>1, <1>2, <1>3
-----------------------------------------------------------------------------
(* Who waits in an empty join queue. *)

\* Only a sleep makes a thread wait.
LEMMA StillWaits ==
  ASSUME Inv, Next, "return" \notin Ops, NEW t \in Threads, state'[t] = "waiting",
         ~Block, \A w \in WaitQueues : ~OSSleepThread(w)
  PROVE  state[t] = "waiting" /\ queue'[t] = queue[t]
<1>1. state \in [Threads -> States] /\ queue \in [Threads -> Queues \cup {None}]
  BY DEF Inv, TypeOK
<1>2. CASE UNCHANGED <<state, queue>>
  BY <1>2
<1>3. ASSUME NEW r, NEW v, v # "waiting", state' = [state EXCEPT ![r] = v],
             t # r => queue'[t] = queue[t]
      PROVE  state[t] = "waiting" /\ queue'[t] = queue[t]
  BY <1>1, <1>3
<1>4. ASSUME NEW st \in [Threads -> States], NEW qu \in [Threads -> Queues \cup {None}],
             NEW qq, NEW pp, Dispatch(st, qu, qq, pp),
             st[t] = "waiting" => state[t] = "waiting" /\ qu[t] = queue[t]
      PROVE  state[t] = "waiting" /\ queue'[t] = queue[t]
  <2> DEFINE next == Head(qq[RunQ(CHOOSE r \in pp : \A s \in pp : r <= s)])
  <2>1. state' = [st EXCEPT ![next] = "running"] /\ queue' = [qu EXCEPT ![next] = None]
    BY <1>4 DEF Dispatch
  <2> HIDE DEF next
  <2> QED BY <1>4, <2>1
<1>5. ASSUME NEW u \in Threads, NEW p, SetThreadEffectivePriority(u, p), state' = state
      PROVE  state[t] = "waiting" /\ queue'[t] = queue[t]
  <2>1. state[u] = "waiting" => queue' = queue \/ queue' = [queue EXCEPT ![u] = queue[u]]
    BY <1>5 DEF SetThreadEffectivePriority
  <2>2. t # u => queue'[t] = queue[t]
    BY <1>1, <1>5 DEF SetThreadEffectivePriority
  <2> QED BY <1>1, <1>5, <2>1, <2>2
<1>6. ASSUME NEW u \in Threads, NEW rest, Suspend(u, rest)
      PROVE  state[t] = "waiting" /\ queue'[t] = queue[t]
  <2>1. \/ UNCHANGED <<state, queue>>
        \/ /\ state[u] = "ready" /\ state' = state /\ queue' = [queue EXCEPT ![u] = None]
        \/ /\ state' = [state EXCEPT ![u] = "ready"] /\ queue' = queue
    BY <1>6, Zenon DEF Suspend
  <2> QED BY <1>1, <2>1
<1>7. ASSUME NEW u \in Threads, Resume(u)
      PROVE  state[t] = "waiting" /\ queue'[t] = queue[t]
  <2>1. \/ UNCHANGED <<state, queue>>
        \/ /\ state' = [state EXCEPT ![u] = "ready"] /\ (t # u => queue'[t] = queue[t])
    BY <1>1, <1>7 DEF Resume
  <2> QED BY <1>1, <2>1
<1>8. CASE GuestCall
  <2>1. ASSUME NEW u \in Threads, OSCancelThread(u) PROVE state[t] = "waiting" /\ queue'[t] = queue[t]
    <3>1. t # u => queue'[t] = queue[t]
      BY <1>1, <2>1 DEF OSCancelThread
    <3>2. PICK v \in {"none", "moribund"} : state' = [state EXCEPT ![u] = v]
      BY <2>1 DEF OSCancelThread, Terminate
    <3> QED BY <1>3, <3>1, <3>2
  <2>2. CASE OSExitThread
    <3>1. queue' = queue
      BY <2>2 DEF OSExitThread
    <3>2. PICK v \in {"none", "moribund"} : state' = [state EXCEPT ![exec] = v]
      BY <2>2 DEF OSExitThread, Terminate
    <3> QED BY <1>3, <3>1, <3>2
  <2>3. ASSUME NEW u \in Threads, OSDetachThread(u) PROVE state[t] = "waiting" /\ queue'[t] = queue[t]
    BY <1>1, <2>3 DEF OSDetachThread
  <2>4. ASSUME NEW u \in Threads, NEW d \in Attrs, OSCreateThread(u, d)
        PROVE  state[t] = "waiting" /\ queue'[t] = queue[t]
    BY <1>1, <2>4 DEF OSCreateThread
  <2>5. CASE OSSleepTicks
    <3>1. running \in Threads
      BY <2>5 DEF OSSleepTicks, Inv, TypeOK
    <3> QED BY <1>6, <2>5, <3>1 DEF OSSleepTicks
  <2>6. \/ \E u \in Threads : \/ OSSuspendThread(u) \/ OSResumeThread(u) \/ OSCancelThread(u)
                              \/ OSDetachThread(u)
                              \/ \E d \in Attrs : OSCreateThread(u, d)
        \/ OSSleepTicks \/ OSExitThread
        \/ UNCHANGED <<state, queue>>
    BY <1>8, NoReturn, Zenon DEF GuestCall, OSJoinThread, OSWakeupThread, OSLockMutex, OSUnlockMutex,
       OSYieldThread, HandlerBegins, HandlerEnds, DeferredEnds, threadVars
  <2>7. ASSUME NEW u \in Threads, OSSuspendThread(u) PROVE state[t] = "waiting" /\ queue'[t] = queue[t]
    BY <1>6, <2>7 DEF OSSuspendThread
  <2>8. ASSUME NEW u \in Threads, OSResumeThread(u) PROVE state[t] = "waiting" /\ queue'[t] = queue[t]
    BY <1>7, <2>8 DEF OSResumeThread
  <2> QED BY <1>2, <2>1, <2>2, <2>3, <2>4, <2>5, <2>6, <2>7, <2>8
<1>9. CASE HandlerStep
  <2>1. CASE SelectPreempts
    <3> DEFINE st == [state EXCEPT ![running] = "ready"]
               qu == [queue EXCEPT ![running] = RunQ(prio[running])]
               qq == [q EXCEPT ![RunQ(prio[running])] = Append(@, running)]
               pp == pending \cup {prio[running]}
    <3>1. Dispatch(st, qu, qq, pp) /\ state[running] = "running" /\ running \in Threads
      BY <2>1 DEF SelectPreempts, Refused, Inv, TypeOK
    <3>2. prio[running] \in Prios
      BY <3>1 DEF Inv, Consistent, DeadStates
    <3>3. st \in [Threads -> States] /\ qu \in [Threads -> Queues \cup {None}]
      BY <1>1, <3>2, QueueNames DEF States
    <3>4. st[t] = "waiting" => state[t] = "waiting" /\ qu[t] = queue[t]
      BY <1>1, <3>1
    <3> HIDE DEF st, qu, qq, pp
    <3> QED BY <1>4, <3>1, <3>3, <3>4
  <2>2. CASE SelectSwitches
    BY <1>1, <1>4, <2>2 DEF SelectSwitches
  <2>3. CASE WakeOne
    <3> DEFINE r == Head(q[Arg])
    <3>1. state' = [state EXCEPT ![r] = "ready"] /\ (t # r => queue'[t] = queue[t])
      BY <1>1, <2>3 DEF WakeOne
    <3> HIDE DEF r
    <3> QED BY <1>3, <3>1
  <2>4. CASE Slept \/ TicksDone
    <3>1. state[exec] = "running" /\ exec \in Threads
      BY <2>4, RunsItself DEF Slept, TicksDone
    <3>2. suspend[exec] = 0
      BY <3>1 DEF Inv, Consistent
    <3>3. UNCHANGED <<state, queue>>
      BY <2>4, <3>1, <3>2 DEF Slept, TicksDone
    <3> QED BY <1>2, <3>3
  <2>5. CASE Promote \/ Propagate
    <3>1. Arg \in Threads
      BY <2>5, Now, FrameArgs DEF Arg, Promote, Propagate
    <3>2. UNCHANGED <<state, queue>> \/ (state' = state /\ \E p : SetThreadEffectivePriority(Arg, p))
      BY <2>5, Zenon DEF Promote, Propagate
    <3> QED BY <1>2, <1>5, <3>1, <3>2
  <2>6. CASE JoinDone
    BY <1>1, <2>6 DEF JoinDone
  <2>7. \/ SelectPreempts \/ SelectSwitches \/ WakeOne \/ Slept \/ TicksDone \/ Promote \/ Propagate
        \/ JoinDone \/ UNCHANGED <<state, queue>>
    BY <1>9, NoReturn, Zenon DEF HandlerStep, SelectRefuses, SelectIdles, WakeDone, Resched,
       LockRound, ExitTail, UnlockAll, WakeThreadJoiners, threadVars
  <2> QED BY <1>2, <2>1, <2>2, <2>3, <2>4, <2>5, <2>6, <2>7
<1>10. CASE HostEvent
  <2>1. CASE IdleDispatches
    BY <1>1, <1>4, <2>1 DEF IdleDispatches
  <2>2. ASSUME NEW u \in Threads, TimerFires(u) PROVE state[t] = "waiting" /\ queue'[t] = queue[t]
    BY <1>2, <1>7, <2>2 DEF TimerFires, threadVars
  <2>3. IdleDispatches \/ (\E u \in Threads : TimerFires(u)) \/ UNCHANGED <<state, queue>>
    BY <1>10, Zenon DEF HostEvent, IdleEvent, threadVars
  <2> QED BY <1>2, <2>1, <2>2, <2>3
<1> QED BY <1>8, <1>9, <1>10 DEF Next

\* A join queue fills only when OSJoinThread puts its caller to sleep.
LEMMA JoinQueueFills ==
  ASSUME Inv, Inv', Found, Next, "return" \notin Ops, NEW u \in Threads,
         q[JoinQ(u)] = <<>>, q'[JoinQ(u)] # <<>>
  PROVE  Block /\ Arg = JoinQ(u)
<1>1. JoinQ(u) \in BlockQueues /\ JoinQ(u) \in Queues /\ q \in [Queues -> Seq(Threads)]
      /\ q'[JoinQ(u)] \in Seq(Threads)
  BY QueueNames DEF Inv, TypeOK
<1>2. PICK t \in Threads : t \in Elems(q'[JoinQ(u)])
  <2>1. Elems(q'[JoinQ(u)]) # {} /\ Elems(q'[JoinQ(u)]) \subseteq Threads
    <3> DEFINE s == q'[JoinQ(u)]
    <3>1. s \in Seq(Threads) /\ s # <<>>
      BY <1>1
    <3> HIDE DEF s
    <3>2. Elems(s) # {} /\ Elems(s) \subseteq Threads
      BY <3>1, EmptyElems
    <3> QED BY <3>2 DEF s
  <2> QED BY <2>1
<1>3. state'[t] = "waiting" /\ queue'[t] = JoinQ(u)
  BY <1>1, <1>2 DEF Inv, Consistent
<1>4. t \notin Elems(q[JoinQ(u)])
  BY <1>1, EmptyElems
<1>5. CASE ~Block /\ \A w \in WaitQueues : ~OSSleepThread(w)
  <2>1. state[t] = "waiting" /\ queue[t] = JoinQ(u)
    BY <1>3, <1>5, StillWaits
  <2> QED BY <1>4, <2>1 DEF Found, Located
<1>6. ASSUME NEW x, NEW rest, Sleep(x, rest), x # JoinQ(u) PROVE FALSE
  BY <1>1, <1>6 DEF Sleep, InsertByPriority
<1>7. ASSUME NEW w \in WaitQueues, OSSleepThread(w) PROVE FALSE
  BY <1>6, <1>7 DEF OSSleepThread, WaitQ, JoinQ
<1>8. CASE Block
  BY <1>6, <1>8 DEF Block
<1> QED BY <1>5, <1>7, <1>8

\* Frames of guests that do not join.
Joinless == {f \in Frames : f.op = "block" => \E m \in Mutexes : f.arg = MutexQ(m)}

\* Guests that never call OSJoinThread leave every join queue empty.
NobodyJoins == AllIn(Joinless) /\ \A u \in Threads : q[JoinQ(u)] = <<>>

\* The frames of mutexes, of the idle loop and the common ones join nobody.
LEMMA JoinlessFrames ==
  /\ Common \subseteq Joinless /\ Endings \subseteq Joinless
  /\ \A t \in Threads : Frame("promote", t) \in Joinless /\ Frame("propagate", t) \in Joinless
  /\ \A m \in Mutexes : Frame("lock", m) \in Joinless /\ Frame("block", MutexQ(m)) \in Joinless
  /\ \A w \in WaitQueues : Frame("wakeQuiet", WaitQ(w)) \in Joinless
<1>1. Common \subseteq Joinless /\ Endings \subseteq Joinless
  BY DEF Common, Endings, Frame, Frames, Joinless
<1>2. \A t \in Threads : Frame("promote", t) \in Joinless /\ Frame("propagate", t) \in Joinless
  BY DEF Frame, Frames, Joinless
<1>3. \A m \in Mutexes : Frame("lock", m) \in Joinless /\ Frame("block", MutexQ(m)) \in Joinless
  BY QueueNames DEF Frame, Frames, Joinless
<1>4. \A w \in WaitQueues : Frame("wakeQuiet", WaitQ(w)) \in Joinless
  BY QueueNames DEF Frame, Frames, Joinless
<1> QED BY <1>1, <1>2, <1>3, <1>4

\* The handlers of mutexes block on mutexes only.
LEMMA JoinlessMutex ==
  ASSUME Inv, AllIn(Joinless), LockRound \/ Promote \/ Propagate
  PROVE  AllIn(Joinless)'
<1>1. stack[exec] # <<>> /\ exec \in Threads /\ UnderIn(Joinless)
      /\ owner \in [Mutexes -> Threads \cup {None}] /\ waitMutex \in [Threads -> Mutexes \cup {None}]
  BY Now, AllUnder DEF LockRound, Promote, Propagate, At, Inv, TypeOK
<1>2. CASE Return
  BY <1>1, <1>2, FrameSeqs, FramesBecome DEF Return
<1>3. CASE LockRound
  <2>1. Arg \in Mutexes
    BY <1>3, Now, FrameArgs DEF LockRound, Arg
  <2>2. \/ Return
        \/ owner[Arg] \in Threads /\ Call(<<Frame("promote", owner[Arg]), Frame("block", MutexQ(Arg))>>)
    BY <1>1, <1>3, <2>1 DEF LockRound
  <2>3. owner[Arg] \in Threads =>
          <<Frame("promote", owner[Arg]), Frame("block", MutexQ(Arg))>> \in Seq(Joinless)
    BY <2>1, JoinlessFrames, FrameSeqs
  <2> QED BY <1>2, <2>2, <2>3, FramesCall
<1>4. ASSUME NEW u \in Threads, NEW p, SetThreadEffectivePriority(u, p),
             Head(stack[exec]).op \in {"promote", "propagate"}
      PROVE  AllIn(Joinless)'
  <2> DEFINE next == IF state[u] = "waiting" /\ waitMutex[u] # None THEN owner[waitMutex[u]] ELSE None
             f == Frame(Head(stack[exec]).op, next)
  <2>1. next \in Threads \cup {None}
    BY <1>1
  <2>2. Become(IF next = None THEN <<>> ELSE <<f>>)
    BY <1>4, Zenon DEF SetThreadEffectivePriority
  <2> HIDE DEF next
  <2>3. next # None => f \in Joinless
    BY <1>4, <2>1, JoinlessFrames
  <2> HIDE DEF f
  <2>4. (IF next = None THEN <<>> ELSE <<f>>) \in Seq(Joinless)
    BY <2>3, FrameSeqs
  <2> QED BY <1>1, <2>2, <2>4, FramesBecome
<1>5. CASE Promote
  <2>1. Arg \in Threads /\ Head(stack[exec]).op = "promote"
    BY <1>5, Now, FrameArgs DEF Promote, Arg
  <2>2. Return \/ SetThreadEffectivePriority(Arg, prio[exec])
    BY <1>5, Zenon DEF Promote
  <2> QED BY <1>2, <1>4, <2>1, <2>2
<1>6. CASE Propagate
  <2>1. Arg \in Threads /\ Head(stack[exec]).op = "propagate"
    BY <1>6, Now, FrameArgs DEF Propagate, Arg
  <2>2. Return \/ \E p : SetThreadEffectivePriority(Arg, p)
    BY <1>6, Zenon DEF Propagate
  <2> QED BY <1>2, <1>4, <2>1, <2>2
<1> QED BY <1>3, <1>5, <1>6

\* Every step leaves the join queues empty, unless a thread joins.
LEMMA NobodyJoinsStep ==
  ASSUME Inv, Inv', Found, NobodyJoins, Next, "return" \notin Ops, "join" \notin Ops
  PROVE  NobodyJoins'
<1>1. /\ AllIn(Joinless) /\ UnderIn(Joinless) /\ exec \in Threads
      /\ Common \subseteq Joinless /\ Endings \subseteq Joinless
  BY Now, AllUnder, JoinlessFrames DEF NobodyJoins
<1>2. \A u \in Threads : PropagateFrom(u) \in Seq(Joinless)
  BY JoinlessFrames, FrameSeqs DEF PropagateFrom, Inv, TypeOK
<1>3. \A u \in Threads : ~OSJoinThread(u)
  BY DEF OSJoinThread
<1>4. ASSUME NEW f \in Joinless, Call(<<f>>) PROVE AllIn(Joinless)'
  BY <1>1, <1>4, FrameSeqs, FramesCall
<1>5. AllIn(Joinless)'
  <2>1. ASSUME NEW m \in Mutexes, OSLockMutex(m) PROVE AllIn(Joinless)'
    BY <1>4, <2>1, JoinlessFrames DEF OSLockMutex
  <2>2. ASSUME NEW w \in WaitQueues, IdleEvent(w) PROVE AllIn(Joinless)'
    BY <1>4, <2>2, JoinlessFrames DEF IdleEvent
  <2>3. CASE LockRound \/ Promote \/ Propagate
    BY <1>1, <2>3, JoinlessMutex
  <2>4. CASE WakeOne
    BY <1>1, <2>4, FramesWake
  <2>5. CASE GuestCall /\ \A m \in Mutexes : ~OSLockMutex(m)
    BY <1>1, <1>2, <1>3, <2>5, FramesGuest
  <2>6. CASE HandlerStep /\ ~LockRound /\ ~Promote /\ ~Propagate /\ ~WakeOne
    BY <1>1, <2>6, FramesHandler
  <2>7. CASE HostEvent /\ \A w \in WaitQueues : ~IdleEvent(w)
    BY <1>1, <1>2, <2>7, FramesHost
  <2> QED BY <2>1, <2>2, <2>3, <2>4, <2>5, <2>6, <2>7 DEF Next
<1>6. ~Block \/ \A u \in Threads : Arg # JoinQ(u)
  <2> SUFFICES ASSUME Block, NEW u \in Threads, Arg = JoinQ(u) PROVE FALSE
    OBVIOUS
  <2>1. stack[exec] \in Seq(Joinless) /\ stack[exec] # <<>> /\ Head(stack[exec]).op = "block"
    BY <1>1 DEF AllIn, Block, At
  <2>2. Head(stack[exec]) \in Joinless
    BY <2>1
  <2>3. PICK m \in Mutexes : Arg = MutexQ(m)
    BY <2>1, <2>2 DEF Joinless, Arg
  <2> QED BY <2>3 DEF JoinQ, MutexQ
<1>7. \A u \in Threads : q'[JoinQ(u)] = <<>>
  BY <1>6, JoinQueueFills DEF NobodyJoins
<1> QED BY <1>5, <1>7 DEF NobodyJoins
-----------------------------------------------------------------------------
(* Guests that lock no mutex. *)

\* Frames that may stay on a stack while something else runs.
Calm == {f \in Frames : f.op \notin {"block", "wakeQuiet", "lock", "promote", "propagate"}}

\* A thread that is about to block joins a thread that has not ended, and quiet
\* wake-ups are made by the idle loop.
OnTop(f) ==
  \/ f \in Calm
  \/ \E u \in Threads : ~Dead(u) /\ f = Frame("block", JoinQ(u))
  \/ f \in Frames /\ f.op = "wakeQuiet" /\ running = None

\* The frames under the executing one are calm; the executing one may be about to block.
Stacks == UnderIn(Calm) /\ (stack[exec] # <<>> => OnTop(Head(stack[exec])))

\* Nobody owns a mutex or waits for one.
Unowned ==
  /\ \A m \in Mutexes : owner[m] = None
  /\ \A t \in Threads : owned[t] = {} /\ waitMutex[t] = None

\* The invariant of guests that lock no mutex.
Lockless == Inv /\ Unowned /\ Stacks

\* The common frames are calm.
LEMMA CommonCalm == Common \subseteq Calm /\ Endings \subseteq Calm
BY DEF Common, Endings, Frame, Frames, Calm

\* A step after which every frame is calm.
LEMMA CalmStacks ==
  ASSUME AllIn(Calm)', exec' \in Threads
  PROVE  Stacks'
<1>1. \A s : s \in Seq(Calm) /\ s # <<>> => Head(s) \in Calm /\ Tail(s) \in Seq(Calm)
  OBVIOUS
<1> QED BY <1>1 DEF AllIn, UnderIn, Stacks, OnTop, Calm

\* Nobody locks, so no handler deals with an owner.
LEMMA NoMutexWork ==
  ASSUME Lockless, "lock" \notin Ops
  PROVE  /\ ~LockRound /\ ~Promote /\ ~Propagate
         /\ \A m \in Mutexes : ~OSLockMutex(m) /\ ~OSUnlockMutex(m)
         /\ \A u \in Threads : PropagateFrom(u) = <<>>
         /\ UnlockAll => Return /\ UNCHANGED mutexVars
<1>1. ASSUME NEW op \in {"lock", "promote", "propagate"}, At(op) PROVE FALSE
  <2>1. stack[exec] # <<>> /\ Head(stack[exec]).op = op /\ OnTop(Head(stack[exec]))
    BY <1>1 DEF At, Lockless, Stacks
  <2>2. CASE Head(stack[exec]) \in Calm
    BY <2>1, <2>2 DEF Calm
  <2>3. CASE Head(stack[exec]).op = "wakeQuiet"
    BY <2>1, <2>3
  <2>4. ASSUME NEW u \in Threads, Head(stack[exec]) = Frame("block", JoinQ(u)) PROVE FALSE
    BY <2>1, <2>4 DEF Frame
  <2> QED BY <2>1, <2>2, <2>3, <2>4 DEF OnTop
<1>2. ~LockRound /\ ~Promote /\ ~Propagate
  BY <1>1 DEF LockRound, Promote, Propagate
<1>3. \A m \in Mutexes : ~OSLockMutex(m) /\ ~OSUnlockMutex(m)
  BY DEF OSLockMutex, OSUnlockMutex, Lockless, Unowned
<1>4. \A u \in Threads : PropagateFrom(u) = <<>>
  BY DEF PropagateFrom, Lockless, Unowned
<1>5. UnlockAll => Return /\ UNCHANGED mutexVars
  <2>1. At("unlockAll") => Arg \in Threads
    BY Now, FrameArgs DEF Lockless, Arg
  <2> QED BY <2>1 DEF UnlockAll, Lockless, Unowned
<1> QED BY <1>2, <1>3, <1>4, <1>5

\* Every step leaves the mutexes without owners, unless a thread locks.
LEMMA UnownedStep ==
  ASSUME Lockless, Next, "lock" \notin Ops, "return" \notin Ops
  PROVE  Unowned'
<1>1. /\ owned \in [Threads -> SUBSET Mutexes] /\ waitMutex \in [Threads -> Mutexes \cup {None}]
      /\ Inv
  BY DEF Lockless, Inv, TypeOK
<1>2. CASE UNCHANGED <<mutexVars, waitMutex>>
  BY <1>2 DEF Lockless, Unowned, mutexVars
<1>3. ASSUME NEW u \in Threads, NEW d, OSCreateThread(u, d) PROVE Unowned'
  BY <1>1, <1>3 DEF OSCreateThread, Lockless, Unowned
<1>4. CASE GuestCall
  <2>1. \/ UNCHANGED <<mutexVars, waitMutex>>
        \/ \E u \in Threads, d \in Attrs : OSCreateThread(u, d)
    BY <1>1, <1>4, NoReturn, NoMutexWork, Zenon DEF GuestCall, OSSuspendThread, OSResumeThread, Resume,
       OSCancelThread, OSJoinThread, OSDetachThread, OSSleepThread, Sleep, OSWakeupThread, OSSleepTicks,
       OSYieldThread, OSExitThread, HandlerBegins, HandlerEnds, DeferredEnds, threadVars
  <2> QED BY <1>2, <1>3, <2>1
<1>5. CASE HandlerStep
  <2>1. UNCHANGED <<mutexVars, waitMutex>>
    BY <1>1, <1>5, NoReturn, NoMutexWork, Zenon DEF HandlerStep, SelectRefuses, SelectPreempts,
       SelectSwitches, Dispatch, SelectIdles, WakeOne, WakeDone, Block, Sleep, Slept, Resched, TicksDone,
       ExitTail, UnlockAll, WakeThreadJoiners, JoinDone, threadVars
  <2> QED BY <1>2, <2>1
<1>6. CASE HostEvent
  <2>1. UNCHANGED <<mutexVars, waitMutex>>
    BY <1>6, Zenon DEF HostEvent, IdleDispatches, Dispatch, IdleEvent, TimerFires, Resume, threadVars
  <2> QED BY <1>2, <2>1
<1> QED BY <1>4, <1>5, <1>6 DEF Next

\* A frame pushed on top of calm ones.
LEMMA StacksPush ==
  ASSUME Inv, AllIn(Calm), NEW f \in Frames, stack' = [stack EXCEPT ![exec] = Pushed(f, stack[exec])],
         exec' = exec, OnTop(f)'
  PROVE  Stacks'
<1> DEFINE s == stack[exec]
<1>1. exec \in Threads /\ s \in Seq(Calm) /\ stack'[exec] = Pushed(f, s)
      /\ \A t \in Threads \ {exec} : stack'[t] = stack[t]
  BY DEF AllIn, Inv, TypeOK
<1> HIDE DEF s
<1>2. Head(Pushed(f, s)) = f /\ Tail(Pushed(f, s)) = s /\ Pushed(f, s) # <<>>
  <2>1. s \in Seq(Frames)
    BY <1>1 DEF Calm
  <2> QED BY <2>1 DEF Pushed
<1> DEFINE r == Pushed(f, s)
<1> HIDE DEF r
<1>3. stack'[exec'] = r /\ Head(r) = f /\ Tail(r) = s
  BY <1>1, <1>2 DEF r
<1>4. \A t \in Threads \ {exec'} : stack'[t] \in Seq(Calm)
  BY <1>1 DEF AllIn
<1> QED BY <1>1, <1>3, <1>4 DEF Stacks, UnderIn, Calm

\* Every step keeps the frames under the executing one calm, unless a thread locks.
LEMMA StacksStep ==
  ASSUME Lockless, Inv', Next, "lock" \notin Ops, "return" \notin Ops
  PROVE  Stacks'
<1>1. /\ Inv /\ Stacks /\ UnderIn(Calm) /\ exec \in Threads /\ exec' \in Threads
      /\ Common \subseteq Calm /\ Endings \subseteq Calm
  BY CommonCalm DEF Lockless, Stacks, Inv, TypeOK
<1>2. \A u \in Threads : PropagateFrom(u) \in Seq(Calm)
  BY NoMutexWork, FrameSeqs
<1>3. ASSUME NEW u \in Threads, OSJoinThread(u) PROVE Stacks'
  <2>1. InGuest /\ exec' = exec /\ state' = state /\ state[u] # "none"
    BY <1>3 DEF OSJoinThread, InGuest, threadVars
  <2>2. AllIn(Calm)
    BY <1>1, <2>1, TopCommon
  <2>3. \/ state[u] # "moribund" /\ Call(<<Frame("block", JoinQ(u)), Frame("join", u)>>)
        \/ Call(<<Frame("join", u)>>)
    BY <1>3 DEF OSJoinThread
  <2>4. CASE Call(<<Frame("join", u)>>)
    <3>1. <<Frame("join", u)>> \in Seq(Calm)
      BY <1>1, CommonFrames, FrameSeqs
    <3> QED BY <1>1, <2>2, <2>4, <3>1, FramesCall, CalmStacks
  <2>5. CASE state[u] # "moribund" /\ Call(<<Frame("block", JoinQ(u)), Frame("join", u)>>)
    <3> DEFINE f == Frame("block", JoinQ(u))
               g == Frame("join", u)
               s == stack[exec]
    <3>1. f \in Frames /\ g \in Calm /\ g \in Frames /\ s \in Seq(Calm) /\ s \in Seq(Frames)
      BY <1>1, <2>2, Now, QueueNames, CommonFrames, FrameKinds DEF AllIn, Quiet, Plain
    <3>2. stack' = [stack EXCEPT ![exec] = TwoOver(f, g, s)]
      BY <2>5 DEF Call, TwoOver
    <3>3. ~Dead(u)'
      BY <2>1, <2>5 DEF Dead
    <3>4. OnTop(f)'
      BY <3>3 DEF OnTop
    <3> HIDE DEF f, g, s
    <3>5. TwoOver(f, g, s) = Pushed(f, Pushed(g, s))
      BY <3>1, TwoFrames
    <3> DEFINE r == Pushed(g, s)
    <3>6. r \in Seq(Calm) /\ r \in Seq(Frames)
      BY <3>1 DEF Pushed
    <3> HIDE DEF r
    <3>7. Head(Pushed(f, r)) = f /\ Tail(Pushed(f, r)) = r
      BY <3>1, <3>6 DEF Pushed
    <3>8. stack'[exec'] = Pushed(f, r) /\ \A t \in Threads \ {exec'} : stack'[t] = stack[t]
      BY <1>1, <2>1, <3>2, <3>5 DEF r, Inv, TypeOK
    <3> QED BY <2>1, <2>2, <3>4, <3>6, <3>7, <3>8 DEF Stacks, UnderIn, AllIn, Calm
  <2> QED BY <2>3, <2>4, <2>5
<1>4. ASSUME NEW w \in WaitQueues, IdleEvent(w) PROVE Stacks'
  <2> DEFINE f == Frame("wakeQuiet", WaitQ(w))
  <2>1. At("idle") /\ exec' = exec /\ running' = running /\ Call(<<f>>)
    BY <1>4 DEF IdleEvent, schedVars
  <2>2. running = None
    <3>1. running # exec
      BY <1>1, <2>1, Now, Tops
    <3> QED BY <1>1, <3>1 DEF Inv, Host
  <2>3. f \in Frames /\ f.op = "wakeQuiet"
    BY QueueNames, FrameKinds DEF Frame, Plain
  <2>4. OnTop(f)'
    BY <2>1, <2>2, <2>3 DEF OnTop
  <2>5. AllIn(Calm)
    BY <1>1, <2>1, TopCommon
  <2>6. stack' = [stack EXCEPT ![exec] = Pushed(f, stack[exec])]
    BY <2>1 DEF Call, Pushed
  <2> HIDE DEF f
  <2> QED BY <1>1, <2>1, <2>3, <2>4, <2>5, <2>6, StacksPush
<1>5. CASE WakeOne
  <2>1. At("wake") \/ At("wakeMore") \/ At("wakeQuiet")
    <3>1. ~At("wakeReturn")
      BY <1>1, Now DEF Quiet, IdleFrame, HandlerFrame, Frame
    <3> QED BY <1>5, <3>1 DEF WakeOne
  <2>2. CASE At("wake") \/ At("wakeMore")
    BY <1>1, <1>5, <2>2, TopCommon, FramesWake, CalmStacks
  <2>3. CASE At("wakeQuiet") /\ ~At("wake")
    <3>1. exec' = exec /\ running' = running /\ stack' = stack
      BY <1>5, <2>3 DEF WakeOne
    <3>2. /\ stack[exec] # <<>> /\ Head(stack[exec]) \in Frames
          /\ Head(stack[exec]).op = "wakeQuiet" /\ running = None
      <4> DEFINE h == Head(stack[exec])
      <4>1. stack[exec] # <<>> /\ h \in Frames /\ h.op = "wakeQuiet" /\ OnTop(h)
        BY <1>1, <2>3, Now DEF Stacks, At
      <4> HIDE DEF h
      <4>2. h \notin Calm /\ \A u \in Threads : h # Frame("block", JoinQ(u))
        BY <4>1 DEF Calm, Frame
      <4> QED BY <4>1, <4>2 DEF OnTop, h
    <3>3. OnTop(Head(stack[exec]))'
      BY <3>1, <3>2 DEF OnTop
    <3> QED BY <1>1, <3>1, <3>3 DEF Stacks, UnderIn, Calm
  <2> QED BY <2>1, <2>2, <2>3
<1>6. CASE GuestCall /\ \A u \in Threads : ~OSJoinThread(u)
  BY <1>1, <1>2, <1>6, NoMutexWork, FramesGuest, CalmStacks
<1>7. CASE HandlerStep /\ ~WakeOne
  BY <1>1, <1>7, NoMutexWork, FramesHandler, CalmStacks
<1>8. CASE HostEvent /\ \A w \in WaitQueues : ~IdleEvent(w)
  BY <1>1, <1>2, <1>8, FramesHost, CalmStacks
<1> QED BY <1>3, <1>4, <1>5, <1>6, <1>7, <1>8 DEF Next

\* The wake-up of the joiners of u, and what a termination does before it.
Waking(u)  == {Frame("joiners", u), Frame("wake", JoinQ(u)), Frame("wakeMore", JoinQ(u))}
\* The step of a termination before its wake-up: releasing the mutexes.
Unlocking  == {f \in Frames : f.op = "unlockAll"}
\* A stack whose next frames, but for the release of mutexes, wake the joiners of u.
Owed(s, u) == Over(s, Unlocking, Waking(u), Frames)

\* While an ended thread has joiners, the fiber on the host owes them the wake-up.
Joiners == \A u \in Threads : Dead(u) /\ q[JoinQ(u)] # <<>> => Owed(stack[exec], u)

\* What a fiber that owes a wake-up does next.
LEMMA OwedTop ==
  ASSUME Inv, NEW u \in Threads, Owed(stack[exec], u)
  PROVE  /\ stack[exec] # <<>>
         /\ Head(stack[exec]).op \in {"unlockAll", "joiners", "wake", "wakeMore"}
         /\ At("unlockAll") => Owed(Tail(stack[exec]), u)
         /\ At("joiners") => Arg = u /\ Tail(stack[exec]) \in Seq(Frames)
         /\ At("wake") \/ At("wakeMore") => Arg = JoinQ(u) /\ Tail(stack[exec]) \in Seq(Frames)
<1> DEFINE s == stack[exec]
           h == Head(s)
<1>1. s \in Seq(Frames) /\ Over(s, Unlocking, Waking(u), Frames)
  BY Now DEF Owed
<1> HIDE DEF s
<1>2. /\ s # <<>>
      /\ h \notin Waking(u) => h \in Unlocking /\ Over(Tail(s), Unlocking, Waking(u), Frames)
      /\ h \notin Unlocking => h \in Waking(u) /\ Tail(s) \in Seq(Frames)
  BY <1>1, OverPop
<1>3. h \in Unlocking => h.op = "unlockAll"
  BY DEF Unlocking
<1>4. h \in Waking(u) => \/ h.op = "joiners" /\ h.arg = u
                         \/ h.op \in {"wake", "wakeMore"} /\ h.arg = JoinQ(u)
  BY DEF Waking, Frame
<1> HIDE DEF h
<1>5. h.op \in {"unlockAll", "joiners", "wake", "wakeMore"}
  BY <1>2, <1>3, <1>4
<1>6. h.op = "unlockAll" => Over(Tail(s), Unlocking, Waking(u), Frames)
  BY <1>2, <1>4
<1>7. h.op = "joiners" => h.arg = u /\ Tail(s) \in Seq(Frames)
  BY <1>2, <1>3, <1>4
<1>8. h.op \in {"wake", "wakeMore"} => h.arg = JoinQ(u) /\ Tail(s) \in Seq(Frames)
  BY <1>2, <1>3, <1>4
<1> QED BY <1>2, <1>5, <1>6, <1>7, <1>8 DEF s, h, At, Arg, Owed

\* Nobody joins an ended thread: its join queue does not fill.
LEMMA EndedUnjoined ==
  ASSUME Lockless, Inv', Found, Next, "return" \notin Ops, NEW u \in Threads, Dead(u),
         q[JoinQ(u)] = <<>>
  PROVE  q'[JoinQ(u)] = <<>>
<1> SUFFICES ASSUME q'[JoinQ(u)] # <<>> PROVE FALSE
  OBVIOUS
<1>1. Block /\ Arg = JoinQ(u)
  BY JoinQueueFills DEF Lockless
<1> DEFINE h == Head(stack[exec])
<1>2. h.op = "block" /\ h.arg = JoinQ(u) /\ OnTop(h)
  BY <1>1 DEF Block, At, Arg, Lockless, Stacks
<1> HIDE DEF h
<1>3. h \notin Calm /\ h.op # "wakeQuiet"
  BY <1>2 DEF Calm
<1>4. PICK v \in Threads : ~Dead(v) /\ h = Frame("block", JoinQ(v))
  BY <1>2, <1>3 DEF OnTop
<1>5. JoinQ(v) = JoinQ(u)
  BY <1>2, <1>4 DEF Frame
<1>6. v = u
  BY <1>5 DEF JoinQ
<1> QED BY <1>4, <1>6

\* A termination owes the wake-up from its first step.
LEMMA OwedFromStart ==
  ASSUME NEW u \in Threads, NEW f \in {Frame("exitTail", None), Frame("resched", None)}
  PROVE  Owed(<<Frame("unlockAll", u), Frame("joiners", u), f>>, u)
<1> DEFINE a == Frame("unlockAll", u)
           b == Frame("joiners", u)
           s == <<a, b, f>>
<1>1. a \in Unlocking /\ b \in Waking(u) /\ f \in Frames
  <2>1. a \in Frames /\ a.op = "unlockAll" /\ f \in Frames
    BY FrameKinds DEF Frame, Plain, Quiet
  <2> QED BY <2>1 DEF Unlocking, Waking
<1> HIDE DEF a, b
<1>2. Len(s) = 3 /\ s[1] = a /\ s[2] = b /\ s[3] = f
  OBVIOUS
<1> HIDE DEF s
<1>3. Over(s, Unlocking, Waking(u), Frames)
  <2>1. 2 \in 1 .. Len(s) /\ s[2] \in Waking(u)
    BY <1>1, <1>2
  <2>2. \A j \in 1 .. 2 - 1 : s[j] \in Unlocking
    BY <1>1, <1>2
  <2>3. \A j \in 2 + 1 .. Len(s) : s[j] \in Frames
    BY <1>1, <1>2
  <2> QED BY <2>1, <2>2, <2>3 DEF Over
<1> QED BY <1>3 DEF s, a, b, Owed

\* Every step keeps the wake-up owed until the joiners are woken.
LEMMA JoinersStep ==
  ASSUME Lockless, Inv', Found, Joiners, Next, "return" \notin Ops, "lock" \notin Ops
  PROVE  Joiners'
<1> SUFFICES ASSUME NEW u \in Threads, Dead(u)', q'[JoinQ(u)] # <<>>
             PROVE  Owed(stack'[exec'], u)
  BY DEF Joiners
<1>1. Inv /\ exec \in Threads /\ stack \in [Threads -> Seq(Frames)]
  BY DEF Lockless, Inv, TypeOK
<1>2. CASE ~Dead(u)
  <2>1. PICK v \in Threads : OSCancelThread(v) \/ (v = exec /\ OSExitThread)
    BY <1>1, <1>2, DeadStays
  <2>2. \A w \in Threads : w # v => state'[w] = state[w]
    BY <1>1, <2>1 DEF OSCancelThread, OSExitThread, Terminate, Inv, TypeOK
  <2>3. v = u
    BY <1>2, <2>2 DEF Dead
  <2>4. CASE OSCancelThread(u)
    <3> DEFINE s == <<Frame("unlockAll", u), Frame("joiners", u), Frame("resched", None)>>
    <3>1. exec' = exec /\ stack' = IF u = exec THEN [stack EXCEPT ![exec] = s]
                                  ELSE [stack EXCEPT ![exec] = s, ![u] = <<>>]
      BY <2>4 DEF OSCancelThread
    <3>2. Owed(s, u)
      BY OwedFromStart
    <3> HIDE DEF s
    <3> QED BY <1>1, <3>1, <3>2
  <2>5. CASE u = exec /\ OSExitThread
    <3> DEFINE s == <<Frame("unlockAll", exec), Frame("joiners", exec), Frame("exitTail", None)>>
    <3>1. exec' = exec /\ stack' = [stack EXCEPT ![exec] = s \o stack[exec]] /\ stack[exec] = <<>>
      BY <2>5 DEF OSExitThread, Call, InThread
    <3>2. Owed(s, u)
      BY <2>5, OwedFromStart
    <3>3. s \in Seq(Frames)
      <4>1. Common \subseteq Frames /\ Frame("unlockAll", exec) \in Frames
        BY <1>1, CommonCalm DEF Calm, Endings
      <4> QED BY <1>1, <4>1, CommonFrames, FrameSeqs
    <3> HIDE DEF s
    <3>4. s \o <<>> = s
      BY <3>3, ConcatEmptySeq
    <3> QED BY <1>1, <2>5, <3>1, <3>2, <3>4
  <2> QED BY <2>1, <2>3, <2>4, <2>5
<1>3. CASE Dead(u)
  <2>1. q[JoinQ(u)] # <<>>
    BY <1>3, EndedUnjoined
  <2>2. Owed(stack[exec], u)
    BY <1>3, <2>1 DEF Joiners
  <2>3. /\ stack[exec] # <<>> /\ \A op : At(op) => op \in {"unlockAll", "joiners", "wake", "wakeMore"}
        /\ At("unlockAll") => Owed(Tail(stack[exec]), u)
        /\ At("joiners") => Arg = u /\ Tail(stack[exec]) \in Seq(Frames)
        /\ At("wake") \/ At("wakeMore") => Arg = JoinQ(u) /\ Tail(stack[exec]) \in Seq(Frames)
    BY <1>1, <2>2, OwedTop DEF At
  <2>4. UnlockAll \/ WakeThreadJoiners \/ WakeOne \/ WakeDone
    <3>1. ~InThread /\ ~At("handler") /\ ~InGuest
      BY <2>3 DEF InThread, InHandler, InGuest
    <3>2. ~GuestCall
      BY <1>1, <3>1, NoReturn, Zenon DEF GuestCall, OSSuspendThread, OSResumeThread, OSCancelThread,
         OSJoinThread, OSDetachThread, OSCreateThread, OSSleepThread, OSWakeupThread, OSLockMutex,
         OSUnlockMutex, OSSleepTicks, OSYieldThread, OSExitThread, HandlerBegins, HandlerEnds, DeferredEnds, Calls
    <3>3. /\ ~At("select") /\ ~At("yield") /\ ~At("idle") /\ ~At("block") /\ ~At("slept")
          /\ ~At("promote") /\ ~At("propagate") /\ ~At("resched") /\ ~At("ticks") /\ ~At("lock")
          /\ ~At("exitTail") /\ ~At("join")
      BY <2>3
    <3>4. ~HostEvent
      BY <3>3, Zenon DEF HostEvent, IdleDispatches, IdleEvent, TimerFires, AtSelect
    <3>5. HandlerStep => UnlockAll \/ WakeThreadJoiners \/ WakeOne \/ WakeDone
      BY <1>1, <3>3, NoReturn, Zenon DEF HandlerStep, SelectRefuses, SelectPreempts, SelectSwitches,
         SelectIdles, AtSelect, Block, Slept, Promote, Propagate, Resched, TicksDone,
         LockRound, ExitTail, JoinDone
    <3> QED BY <3>2, <3>4, <3>5 DEF Next
  <2>5. exec' = exec
    BY <2>4, Zenon DEF UnlockAll, WakeThreadJoiners, WakeOne, WakeDone
  <2>6. ASSUME NEW f \in Waking(u), Become(<<f>>), Tail(stack[exec]) \in Seq(Frames)
        PROVE  Owed(stack'[exec'], u)
    <3>1. Over(<<f>> \o Tail(stack[exec]), Unlocking, Waking(u), Frames)
      BY <2>6, OverTop
    <3>2. stack'[exec'] = <<f>> \o Tail(stack[exec])
      BY <1>1, <2>5, <2>6 DEF Become
    <3> QED BY <3>1, <3>2 DEF Owed
  <2>7. CASE UnlockAll
    <3>1. Return /\ At("unlockAll")
      BY <2>7, NoMutexWork DEF UnlockAll
    <3>2. stack'[exec'] = Tail(stack[exec])
      <4>1. Tail(stack[exec]) \in Seq(Frames)
        BY <1>1, <2>3
      <4> QED BY <1>1, <2>5, <3>1, <4>1, ConcatEmptySeq DEF Return, Become
    <3> QED BY <2>3, <3>1, <3>2
  <2>8. CASE WakeThreadJoiners
    <3>1. Become(<<Frame("wake", JoinQ(u))>>) /\ Tail(stack[exec]) \in Seq(Frames)
      BY <2>3, <2>8 DEF WakeThreadJoiners
    <3> QED BY <2>6, <3>1 DEF Waking
  <2>9. CASE WakeOne
    <3>1. At("wake") \/ At("wakeMore")
      BY <2>3, <2>9 DEF WakeOne
    <3>2. Become(<<Frame("wakeMore", JoinQ(u))>>) \/ UNCHANGED stack
      BY <2>3, <2>9, <3>1 DEF WakeOne
    <3> QED BY <2>2, <2>3, <2>5, <2>6, <3>1, <3>2 DEF Waking
  <2>10. CASE WakeDone
    <3>1. At("wake") \/ At("wakeMore")
      BY <2>3, <2>10 DEF WakeDone
    <3> QED BY <2>1, <2>3, <2>10, <3>1 DEF WakeDone
  <2> QED BY <2>4, <2>7, <2>8, <2>9, <2>10
<1> QED BY <1>2, <1>3

\* What holds of guests that lock no mutex.
LEMMA LockFree ==
  ASSUME "return" \notin Ops, "lock" \notin Ops
  PROVE  Spec => [](Lockless /\ Found /\ Joiners)
<1>1. Init => Lockless /\ Found /\ Joiners
  <2> SUFFICES ASSUME Init PROVE Lockless /\ Found /\ Joiners
    OBVIOUS
  <2>1. Inv /\ Unowned /\ (\A u \in Threads : q[JoinQ(u)] = <<>>)
    BY InitInv, QueueNames DEF Init, Unowned
  <2>2. \A t \in Threads : state[t] \in {"none", "running"}
    BY DEF Init
  <2>3. Found
    BY <2>2 DEF Found, Located
  <2>4. AllIn(Calm) /\ exec \in Threads
    BY <2>1, FrameSeqs DEF Init, AllIn, Inv, TypeOK
  <2>5. Stacks
    BY <2>4, AllUnder DEF Stacks, Init
  <2> QED BY <2>1, <2>3, <2>5 DEF Lockless, Joiners
<1>2. Lockless /\ Found /\ Joiners /\ [Next]_vars => (Lockless /\ Found /\ Joiners)'
  <2> SUFFICES ASSUME Lockless, Found, Joiners, [Next]_vars PROVE (Lockless /\ Found /\ Joiners)'
    OBVIOUS
  <2>1. CASE Next
    <3>1. Inv /\ Inv'
      BY <2>1, NextInv DEF Lockless
    <3>2. NoneJoined
      BY <3>1, OwedTop DEF NoneJoined, Joiners, InThread, Dead
    <3> QED BY <2>1, <3>1, <3>2, FoundStep, UnownedStep, StacksStep, JoinersStep DEF Lockless
  <2>2. CASE UNCHANGED vars
    <3>1. Inv' /\ Found' /\ Unowned'
      BY <2>2, StutterInv, FoundSame DEF Lockless, Unowned, vars, threadVars, mutexVars, schedVars
    <3>2. UNCHANGED <<state, q, running, exec, stack>>
      BY <2>2 DEF vars, threadVars, schedVars, hostVars
    <3>3. Stacks'
      BY <3>2 DEF Lockless, Stacks, UnderIn, OnTop, Calm, Dead
    <3>4. Joiners'
      BY <3>2 DEF Joiners, Dead
    <3> QED BY <3>1, <3>3, <3>4 DEF Lockless
  <2> QED BY <2>1, <2>2
<1> QED BY <1>1, <1>2, PTL DEF Spec

\* What holds of guests that join nobody.
LEMMA JoinFree ==
  ASSUME "return" \notin Ops, "join" \notin Ops
  PROVE  Spec => [](Inv /\ Found /\ NobodyJoins)
<1>1. Init => Inv /\ Found /\ NobodyJoins
  <2> SUFFICES ASSUME Init PROVE Inv /\ Found /\ NobodyJoins
    OBVIOUS
  <2>1. Inv /\ \A u \in Threads : q[JoinQ(u)] = <<>>
    BY InitInv, QueueNames DEF Init
  <2>2. \A t \in Threads : state[t] \in {"none", "running"}
    BY DEF Init
  <2>3. Found
    BY <2>2 DEF Found, Located
  <2>4. AllIn(Joinless)
    BY FrameSeqs DEF Init, AllIn
  <2> QED BY <2>1, <2>3, <2>4 DEF NobodyJoins
<1>2. Inv /\ Found /\ NobodyJoins /\ [Next]_vars => (Inv /\ Found /\ NobodyJoins)'
  <2> SUFFICES ASSUME Inv, Found, NobodyJoins, [Next]_vars PROVE (Inv /\ Found /\ NobodyJoins)'
    OBVIOUS
  <2>1. CASE Next
    <3>1. Inv'
      BY <2>1, NextInv
    <3>2. NoneJoined
      BY DEF NoneJoined, NobodyJoins
    <3> QED BY <2>1, <3>1, <3>2, FoundStep, NobodyJoinsStep
  <2>2. CASE UNCHANGED vars
    <3>1. Inv' /\ Found' /\ NobodyJoins'
      BY <2>2, StutterInv, FoundSame
         DEF NobodyJoins, AllIn, Joinless, vars, threadVars, schedVars, hostVars
    <3> QED BY <3>1
  <2> QED BY <2>1, <2>2
<1> QED BY <1>1, <1>2, PTL DEF Spec

\* No thread falls off the queues.  A guest that both locks and joins can lose
\* one: OSExitThread wakes the waiters of its mutexes first, its fiber does not
\* come back to wake whoever joins it, and OSCreateThread on the same structure
\* clears the join queue with the joiner in it.
THEOREM NothingLost ==
  ASSUME "return" \notin Ops, "lock" \notin Ops \/ "join" \notin Ops
  PROVE  Spec => []NotLost
<1>1. Inv /\ Found => NotLost
  <2> SUFFICES ASSUME Inv, Found, NEW t \in Threads,
                      state[t] = "waiting" \/ (state[t] = "ready" /\ suspend[t] = 0)
               PROVE  queue[t] # None /\ \E i \in 1 .. Len(q[queue[t]]) : q[queue[t]][i] = t
    BY DEF NotLost
  <2>1. queue[t] \in Queues /\ t \in Elems(q[queue[t]])
    BY DEF Found, Located
  <2> QED BY <2>1, QueueNames DEF Elems
<1>2. CASE "lock" \notin Ops
  <2>1. Lockless /\ Found /\ Joiners => NotLost
    BY <1>1 DEF Lockless
  <2>2. Spec => [](Lockless /\ Found /\ Joiners)
    BY <1>2, LockFree
  <2> QED BY <2>1, <2>2, PTL
<1>3. CASE "join" \notin Ops
  <2>1. Inv /\ Found /\ NobodyJoins => NotLost
    BY <1>1
  <2>2. Spec => [](Inv /\ Found /\ NobodyJoins)
    BY <1>3, JoinFree
  <2> QED BY <2>1, <2>2, PTL
<1> QED BY <1>2, <1>3

\* OSExitThread, OSCancelThread and OSDetachThread leave nobody joining a thread
\* that ended: the wake-up is always next on the host, after the mutexes.
THEOREM JoinersWake ==
  ASSUME "return" \notin Ops, "lock" \notin Ops
  PROVE  Spec => []JoinersWoken
<1>1. ASSUME Lockless, Joiners PROVE JoinersWoken
  <2> SUFFICES ASSUME NEW u \in Threads, Dead(u), q[JoinQ(u)] # <<>>
               PROVE  \E t \in Threads : (t = exec \/ ~terminated[t]) /\
                        \E i \in 1 .. Len(stack[t]) :
                          stack[t][i] \in {Frame("joiners", u), Frame("wake", JoinQ(u)),
                                           Frame("wakeMore", JoinQ(u)), Frame("wakeReturn", JoinQ(u))}
    BY DEF JoinersWoken
  <2>1. exec \in Threads /\ Over(stack[exec], Unlocking, Waking(u), Frames)
    BY <1>1 DEF Joiners, Owed, Lockless, Inv, TypeOK
  <2>2. \E i \in 1 .. Len(stack[exec]) : stack[exec][i] \in Waking(u)
    BY <2>1 DEF Over
  <2> QED BY <2>1, <2>2 DEF Waking
<1>2. Lockless /\ Found /\ Joiners => JoinersWoken
  BY <1>1
<1>3. Spec => [](Lockless /\ Found /\ Joiners)
  BY LockFree
<1> QED BY <1>2, <1>3, PTL
-----------------------------------------------------------------------------
(* Frames that stay on a stack until they run. *)

\* A step calls handlers on top of the executing frame or goes on with it.
Shape ==
  \/ UNCHANGED stack
  \/ \E fs \in Seq(Frames) : Call(fs)
  \/ stack[exec] # <<>> /\ \E fs \in Seq(Frames) : Become(fs)

\* What OSSuspendThread pushes on the frames rest that it is given.
LEMMA ShapeSuspend ==
  ASSUME Inv, NEW u \in Threads, NEW rest \in Seq(Frames), Suspend(u, rest)
  PROVE  \E fs \in Seq(Frames) : stack' = [stack EXCEPT ![exec] = fs \o rest]
<1> DEFINE r == <<Frame("resched", None)>>
           p == PropagateFrom(u)
<1>1. r \in Seq(Frames) /\ p \in Seq(Frames) /\ <<>> \in Seq(Frames)
  <2>1. Frame("resched", None) \in Frames
    BY FrameKinds
  <2>2. p = <<>> \/ \E v \in Threads : p = <<Frame("propagate", v)>>
    BY DEF PropagateFrom, Inv, TypeOK
  <2>3. \A v \in Threads : Frame("propagate", v) \in Frames
    BY FrameKinds
  <2> QED BY <2>1, <2>2, <2>3, FrameSeqs
<1>2. \/ stack' = [stack EXCEPT ![exec] = rest]
      \/ stack' = [stack EXCEPT ![exec] = <<>> \o r \o rest]
      \/ stack' = [stack EXCEPT ![exec] = p \o r \o rest]
  BY Zenon DEF Suspend
<1> HIDE DEF r, p
<1>3. p \o r \in Seq(Frames) /\ <<>> \o r \in Seq(Frames)
  BY <1>1, ConcatProperties
<1>4. <<>> \o rest = rest
  BY ConcatEmptySeq
<1> QED BY <1>1, <1>2, <1>3, <1>4, Zenon

\* What OSResumeThread pushes.
LEMMA ShapeResume ==
  ASSUME Inv, NEW u \in Threads, Resume(u)
  PROVE  Shape
<1> DEFINE r == <<Frame("resched", None)>>
           p == PropagateFrom(u)
<1>1. r \in Seq(Frames) /\ p \in Seq(Frames)
  <2>1. Frame("resched", None) \in Frames
    BY FrameKinds
  <2>2. p = <<>> \/ \E v \in Threads : p = <<Frame("propagate", v)>>
    BY DEF PropagateFrom, Inv, TypeOK
  <2>3. \A v \in Threads : Frame("propagate", v) \in Frames
    BY FrameKinds
  <2> QED BY <2>1, <2>2, <2>3, FrameSeqs
<1>2. UNCHANGED stack \/ Call(r) \/ Call(p \o r)
  BY Zenon DEF Resume
<1> HIDE DEF r, p
<1>3. p \o r \in Seq(Frames)
  BY <1>1, ConcatProperties
<1> QED BY <1>1, <1>2, <1>3, Zenon DEF Shape

\* What OSSleepThread pushes on the frames rest that it is given.
LEMMA ShapeSleep ==
  ASSUME NEW x \in BlockQueues, NEW rest \in Seq(Frames), Sleep(x, rest)
  PROVE  \E fs \in Seq(Frames) : stack' = [stack EXCEPT ![exec] = fs \o rest]
<1> DEFINE s == <<Select, Frame("slept", x)>>
<1>1. s \in Seq(Frames) /\ <<>> \in Seq(Frames)
  <2>1. Select \in Frames /\ Frame("slept", x) \in Frames
    BY FrameKinds DEF Select
  <2> QED BY <2>1, FrameSeqs
<1>2. stack' = [stack EXCEPT ![exec] = s \o rest] \/ stack' = [stack EXCEPT ![exec] = rest]
  BY DEF Sleep
<1> HIDE DEF s
<1>3. <<>> \o rest = rest
  BY ConcatEmptySeq
<1> QED BY <1>1, <1>2, <1>3, Zenon

\* What OSSleepTicks pushes: its own frame, and on it what OSSuspendThread does.
LEMMA ShapeOver ==
  ASSUME Inv, NEW u \in Threads, NEW t \in Seq(Frames), Suspend(u, t \o stack[exec])
  PROVE  \E fs \in Seq(Frames) : stack' = [stack EXCEPT ![exec] = fs \o stack[exec]]
<1> DEFINE rest == t \o stack[exec]
<1>1. stack[exec] \in Seq(Frames) /\ rest \in Seq(Frames)
  BY Now, ConcatProperties
<1>2. \E fs \in Seq(Frames) : stack' = [stack EXCEPT ![exec] = fs \o rest]
  <2> HIDE DEF rest
  <2>1. Suspend(u, rest)
    BY DEF rest
  <2> QED BY <1>1, <2>1, ShapeSuspend
<1>3. ASSUME NEW fs \in Seq(Frames), stack' = [stack EXCEPT ![exec] = fs \o rest]
      PROVE  \E gs \in Seq(Frames) : stack' = [stack EXCEPT ![exec] = gs \o stack[exec]]
  <2>1. (fs \o t) \o stack[exec] = fs \o rest
    <3>1. \A c \in Seq(Frames) : (fs \o t) \o c = fs \o (t \o c)
      <4> TAKE c \in Seq(Frames)
      <4> QED BY ConcatAssociative
    <3> QED BY <1>1, <3>1, Zenon
  <2>2. fs \o t \in Seq(Frames)
    BY ConcatProperties
  <2>3. stack' = [stack EXCEPT ![exec] = (fs \o t) \o stack[exec]]
    BY <1>3, <2>1
  <2> DEFINE gs == fs \o t
  <2>4. gs \in Seq(Frames) /\ stack' = [stack EXCEPT ![exec] = gs \o stack[exec]]
    BY <2>2, <2>3
  <2> HIDE DEF gs
  <2> QED BY <2>4
<1> QED BY <1>2, <1>3

\* No step but the termination of another thread and the reuse of a structure
\* touches frames below the executing one.
LEMMA StackShape ==
  ASSUME Inv, Next, "return" \notin Ops, \A u \in Threads : ~OSCancelThread(u),
         \A u \in Threads : \A d \in Attrs : ~OSCreateThread(u, d)
  PROVE  Shape
<1>1. exec \in Threads /\ stack[exec] \in Seq(Frames) /\ <<>> \in Seq(Frames)
  BY Now, FrameSeqs
<1>2. ASSUME NEW f \in Frames, Call(<<f>>) PROVE Shape
  BY <1>2, FrameSeqs DEF Shape
<1>3. ASSUME NEW f \in Frames, Become(<<f>>), stack[exec] # <<>> PROVE Shape
  BY <1>3, FrameSeqs DEF Shape
<1>4. ASSUME Return, stack[exec] # <<>> PROVE Shape
  BY <1>1, <1>4 DEF Shape, Return
<1>5. ASSUME NEW fs \in Seq(Frames), stack' = [stack EXCEPT ![exec] = fs \o stack[exec]] PROVE Shape
  BY <1>5, Zenon DEF Shape, Call
<1>6. ASSUME NEW f \in Frames, NEW g \in Frames, Call(<<f, g>>) PROVE Shape
  <2>1. <<f, g>> \in Seq(Frames)
    BY FrameSeqs
  <2> DEFINE fs == <<f, g>>
  <2> HIDE DEF fs
  <2>2. fs \in Seq(Frames) /\ Call(fs)
    BY <1>6, <2>1, Zenon DEF fs
  <2> QED BY <2>2 DEF Shape
<1>7. CASE GuestCall
  <2>1. ASSUME NEW u \in Threads, OSSuspendThread(u) PROVE Shape
    BY <1>1, <1>5, <2>1, ShapeSuspend DEF OSSuspendThread
  <2>2. ASSUME NEW u \in Threads, OSResumeThread(u) PROVE Shape
    BY <2>2, ShapeResume DEF OSResumeThread
  <2>3. ASSUME NEW u \in Threads, OSJoinThread(u) PROVE Shape
    <3>1. JoinQ(u) \in BlockQueues
      BY QueueNames
    <3>2. Frame("block", JoinQ(u)) \in Frames /\ Frame("join", u) \in Frames
      BY <3>1, FrameKinds
    <3>3. Call(<<Frame("block", JoinQ(u)), Frame("join", u)>>) \/ Call(<<Frame("join", u)>>)
      BY <2>3 DEF OSJoinThread
    <3> QED BY <1>2, <1>6, <3>2, <3>3
  <2>4. ASSUME NEW u \in Threads, OSDetachThread(u) PROVE Shape
    BY <1>2, <2>4, FrameKinds DEF OSDetachThread
  <2>5. ASSUME NEW w \in WaitQueues, OSSleepThread(w) \/ OSWakeupThread(w) PROVE Shape
    <3>1. WaitQ(w) \in BlockQueues
      BY QueueNames
    <3>2. CASE OSSleepThread(w)
      BY <1>1, <1>5, <3>1, <3>2, ShapeSleep DEF OSSleepThread
    <3>3. CASE OSWakeupThread(w)
      BY <1>2, <3>1, <3>3, FrameKinds DEF OSWakeupThread
    <3> QED BY <2>5, <3>2, <3>3
  <2>6. ASSUME NEW m \in Mutexes, OSLockMutex(m) \/ OSUnlockMutex(m) PROVE Shape
    <3>1. Frame("lock", m) \in Frames /\ Frame("wake", MutexQ(m)) \in Frames
      BY QueueNames, FrameKinds
    <3>2. UNCHANGED stack \/ Call(<<Frame("lock", m)>>) \/ Call(<<Frame("wake", MutexQ(m))>>)
      BY <2>6 DEF OSLockMutex, OSUnlockMutex
    <3> QED BY <1>2, <3>1, <3>2 DEF Shape
  <2>7. CASE OSSleepTicks
    <3> DEFINE t == <<Frame("ticks", None)>>
    <3>1. t \in Seq(Frames)
      BY FrameKinds, FrameSeqs
    <3>2. running \in Threads /\ Suspend(running, t \o stack[exec])
      BY <2>7 DEF OSSleepTicks, Inv, TypeOK
    <3> HIDE DEF t
    <3> QED BY <1>5, <3>1, <3>2, ShapeOver
  <2>8. CASE OSYieldThread \/ HandlerBegins
    BY <1>2, <2>8, FrameKinds DEF OSYieldThread, HandlerBegins, HandlerFrame
  <2>9. CASE OSExitThread
    <3> DEFINE fs == <<Frame("unlockAll", exec), Frame("joiners", exec), Frame("exitTail", None)>>
    <3>1. fs \in Seq(Frames)
      BY <1>1, FrameKinds, FrameSeqs
    <3>2. Call(fs)
      BY <2>9 DEF OSExitThread
    <3> HIDE DEF fs
    <3> QED BY <3>1, <3>2 DEF Shape
  <2>10. CASE HandlerEnds
    <3>1. stack[exec] # <<>> /\ Become(<<Frame("resched", None)>>)
      BY <2>10 DEF HandlerEnds, At
    <3> QED BY <1>3, <3>1, FrameKinds
  <2>11. CASE DeferredEnds
    <3>1. stack[exec] # <<>> /\ Return
      BY <2>11 DEF DeferredEnds, At
    <3> QED BY <1>4, <3>1
  <2> QED BY <1>7, NoReturn, <2>1, <2>2, <2>3, <2>4, <2>5, <2>6, <2>7, <2>8, <2>9, <2>10, <2>11
          DEF GuestCall
<1>8. CASE HandlerStep
  <2>1. CASE SelectRefuses \/ SelectPreempts \/ SelectSwitches
    <3>1. stack[exec] # <<>>
      BY <2>1 DEF SelectRefuses, SelectPreempts, SelectSwitches, AtSelect, At
    <3>2. Return
      BY <2>1, Zenon DEF SelectRefuses, SelectPreempts, SelectSwitches, Dispatch
    <3> QED BY <1>4, <3>1, <3>2
  <2>2. CASE SelectIdles
    <3>1. stack[exec] # <<>> /\ Become(<<Frame("idle", None)>>)
      BY <2>2 DEF SelectIdles, AtSelect, At
    <3> QED BY <1>3, <3>1, FrameKinds DEF IdleFrame
  <2>3. CASE WakeOne \/ WakeDone
    <3>1. stack[exec] # <<>>
      BY <2>3 DEF WakeOne, WakeDone, At
    <3>2. UNCHANGED stack \/ Return \/ Become(<<Select>>) \/ (At("wake") /\ Become(<<Frame("wakeMore", Arg)>>))
      BY <2>3 DEF WakeOne, WakeDone, Return
    <3>3. At("wake") => Frame("wakeMore", Arg) \in Frames
      <4>1. At("wake") => Arg \in BlockQueues
        BY Now, FrameArgs DEF Arg
      <4> QED BY <4>1, FrameKinds
    <3>4. Select \in Frames
      BY FrameKinds DEF Select
    <3> QED BY <1>3, <1>4, <3>1, <3>2, <3>3, <3>4 DEF Shape
  <2>4. CASE Block
    <3>1. At("block") /\ Sleep(Arg, Tail(stack[exec]))
      BY <2>4 DEF Block
    <3>2. Arg \in BlockQueues /\ Tail(stack[exec]) \in Seq(Frames) /\ stack[exec] # <<>>
      BY <3>1, Now, FrameArgs DEF Arg
    <3>3. PICK fs \in Seq(Frames) : stack' = [stack EXCEPT ![exec] = fs \o Tail(stack[exec])]
      BY <3>1, <3>2, ShapeSleep
    <3> QED BY <3>2, <3>3, Zenon DEF Shape, Become
  <2>5. CASE Slept \/ TicksDone \/ JoinDone
    <3>1. stack[exec] # <<>> /\ Return
      BY <2>5 DEF Slept, TicksDone, JoinDone, At
    <3> QED BY <1>4, <3>1
  <2>6. CASE Promote \/ Propagate
    <3>1. stack[exec] # <<>> /\ Head(stack[exec]).op \in {"promote", "propagate"} /\ Arg \in Threads
      BY <2>6, Now, FrameArgs DEF Promote, Propagate, At, Arg
    <3>2. Return \/ \E p : SetThreadEffectivePriority(Arg, p)
      BY <2>6 DEF Promote, Propagate
    <3>3. ASSUME NEW p, SetThreadEffectivePriority(Arg, p) PROVE Shape
      <4>1. PICK next \in Threads \cup {None} :
              Become(IF next = None THEN <<>> ELSE <<Frame(Head(stack[exec]).op, next)>>)
        BY <3>1, <3>3 DEF SetThreadEffectivePriority, Inv, TypeOK
      <4>2. \A t \in Threads : Frame(Head(stack[exec]).op, t) \in Frames
        BY <3>1, FrameKinds
      <4> QED BY <1>3, <1>4, <3>1, <4>1, <4>2 DEF Return
    <3> QED BY <1>4, <3>1, <3>2, <3>3
  <2>7. CASE Resched \/ ExitTail
    <3>1. stack[exec] # <<>> /\ (Return \/ Become(<<Select>>))
      BY <2>7 DEF Resched, ExitTail, At, Return
    <3> QED BY <1>3, <1>4, <3>1, FrameKinds DEF Select
  <2>8. CASE LockRound
    <3>1. At("lock") /\ Arg \in Mutexes /\ stack[exec] # <<>>
      BY <2>8, Now, FrameArgs DEF LockRound, Arg
    <3>2. \/ Return
          \/ owner[Arg] \in Threads /\ Call(<<Frame("promote", owner[Arg]), Frame("block", MutexQ(Arg))>>)
      BY <2>8, <3>1 DEF LockRound, Inv, TypeOK
    <3>3. Frame("block", MutexQ(Arg)) \in Frames
      BY <3>1, QueueNames, FrameKinds
    <3>4. \A t \in Threads : Frame("promote", t) \in Frames
      BY FrameKinds
    <3> QED BY <1>4, <1>6, <3>1, <3>2, <3>3, <3>4
  <2>9. CASE UnlockAll
    <3>1. At("unlockAll") /\ stack[exec] # <<>> /\ Arg \in Threads
      BY <2>9, Now, FrameArgs DEF UnlockAll, Arg
    <3>2. owned[Arg] \subseteq Mutexes
      BY <3>1 DEF Inv, TypeOK
    <3>3. Return \/ \E m \in owned[Arg] : Call(<<Frame("wake", MutexQ(m))>>)
      BY <2>9 DEF UnlockAll
    <3>4. \A m \in Mutexes : Frame("wake", MutexQ(m)) \in Frames
      BY QueueNames, FrameKinds
    <3> QED BY <1>2, <1>4, <3>1, <3>2, <3>3, <3>4
  <2>10. CASE WakeThreadJoiners
    <3>1. At("joiners") /\ stack[exec] # <<>> /\ Arg \in Threads /\ Become(<<Frame("wake", JoinQ(Arg))>>)
      BY <2>10, Now, FrameArgs DEF WakeThreadJoiners, Arg
    <3>2. Frame("wake", JoinQ(Arg)) \in Frames
      BY <3>1, QueueNames, FrameKinds
    <3> QED BY <1>3, <3>1, <3>2
  <2> QED BY <1>8, NoReturn, <2>1, <2>2, <2>3, <2>4, <2>5, <2>6, <2>7, <2>8, <2>9, <2>10
          DEF HandlerStep
<1>9. CASE HostEvent
  <2>1. CASE IdleDispatches
    <3>1. stack[exec] # <<>> /\ Return
      BY <2>1 DEF IdleDispatches, Dispatch, At
    <3> QED BY <1>4, <3>1
  <2>2. ASSUME NEW w \in WaitQueues, IdleEvent(w) PROVE Shape
    <3>1. Frame("wakeQuiet", WaitQ(w)) \in Frames
      BY QueueNames, FrameKinds
    <3> QED BY <1>2, <2>2, <3>1 DEF IdleEvent
  <2>3. ASSUME NEW u \in Threads, TimerFires(u) PROVE Shape
    <3>1. Resume(u) \/ UNCHANGED stack
      BY <2>3 DEF TimerFires, hostVars
    <3> QED BY <3>1, ShapeResume DEF Shape
  <2> QED BY <1>9, <2>1, <2>2, <2>3 DEF HostEvent
<1> QED BY <1>7, <1>8, <1>9 DEF Next

\* A frame stays on its stack until it is the one that runs.
LEMMA Stays ==
  ASSUME Inv, Shape, NEW F, NEW t \in Threads, On(stack[t], F),
         t = exec => Head(stack[exec]) \notin F
  PROVE  On(stack'[t], F)
<1>1. exec \in Threads /\ stack[exec] \in Seq(Frames)
  BY Now
<1>2. CASE t # exec \/ UNCHANGED stack
  BY <1>1, <1>2 DEF Shape, Call, Become, Inv, TypeOK
<1>3. CASE t = exec /\ \E fs \in Seq(Frames) : Call(fs)
  <2>1. PICK fs \in Seq(Frames) : Call(fs)
    BY <1>3
  <2> DEFINE w == fs \o stack[exec]
  <2>2. On(w, F)
    <3> HIDE DEF w
    <3>1. On(fs \o stack[exec], F)
      BY <1>1, <1>3, OnUnder
    <3> QED BY <3>1 DEF w
  <2>3. stack' = [stack EXCEPT ![exec] = w]
    BY <2>1 DEF Call
  <2> HIDE DEF w
  <2> QED BY <1>1, <1>3, <2>2, <2>3 DEF Inv, TypeOK
<1>4. CASE t = exec /\ stack[exec] # <<>> /\ \E fs \in Seq(Frames) : Become(fs)
  <2>1. PICK fs \in Seq(Frames) : Become(fs)
    BY <1>4
  <2> DEFINE r == Tail(stack[exec])
             w == fs \o r
  <2>2. r \in Seq(Frames) /\ On(r, F)
    BY <1>1, <1>4, OnTail
  <2>3. stack' = [stack EXCEPT ![exec] = w]
    BY <2>1 DEF Become
  <2> HIDE DEF r
  <2>4. On(w, F)
    BY <2>2, OnUnder
  <2> HIDE DEF w
  <2> QED BY <1>1, <1>4, <2>3, <2>4 DEF Inv, TypeOK
<1> QED BY <1>2, <1>3, <1>4 DEF Shape
-----------------------------------------------------------------------------
(* Timers and the sleepers that armed them. *)

Ticking == {f \in Frames : f.op = "ticks"}

\* An armed timer belongs to a suspended thread inside OSSleepTicks, or to one
\* that ended.
Parked == \A u \in timers : Dead(u) \/ (suspend[u] > 0 /\ On(stack[u], Ticking))

\* A suspension ends by a timer or by OSResumeThread, never by the revert of
\* OSSleepTicks: whoever runs after it was resumed.
LEMMA SuspendFalls ==
  ASSUME Inv, Next, "return" \notin Ops, NEW u \in Threads, suspend'[u] < suspend[u],
         \A d \in Attrs : ~OSCreateThread(u, d)
  PROVE  TimerFires(u) \/ OSResumeThread(u)
<1>1. suspend \in [Threads -> Nat]
  BY DEF Inv, TypeOK
<1>2. ASSUME NEW v \in Threads, NEW rest, Suspend(v, rest) PROVE FALSE
  <2>1. suspend' = [suspend EXCEPT ![v] = @ + 1]
    BY <1>2 DEF Suspend
  <2> QED BY <1>1, <2>1
<1>3. ASSUME NEW v \in Threads, Resume(v) PROVE v = u
  <2>1. suspend' = [suspend EXCEPT ![v] = IF @ = 0 THEN 0 ELSE @ - 1]
    BY <1>3 DEF Resume
  <2> QED BY <1>1, <2>1
<1>4. suspend' # suspend
  BY <1>1
<1>5. CASE GuestCall
  <2>1. ASSUME NEW v \in Threads, OSSuspendThread(v) PROVE FALSE
    BY <1>2, <2>1 DEF OSSuspendThread
  <2>2. ASSUME NEW v \in Threads, OSResumeThread(v) PROVE OSResumeThread(u)
    BY <1>3, <2>2 DEF OSResumeThread
  <2>3. CASE OSSleepTicks
    BY <1>2, <2>3 DEF OSSleepTicks, Inv, TypeOK
  <2>4. ASSUME NEW v \in Threads, NEW d \in Attrs, OSCreateThread(v, d) PROVE FALSE
    <3>1. suspend' = [suspend EXCEPT ![v] = 1] /\ v # u
      BY <2>4 DEF OSCreateThread
    <3> QED BY <1>1, <3>1
  <2>5. \/ \E v \in Threads : \/ OSSuspendThread(v) \/ OSResumeThread(v)
                              \/ \E d \in Attrs : OSCreateThread(v, d)
        \/ OSSleepTicks
        \/ UNCHANGED suspend
    BY <1>5, NoReturn, Zenon DEF GuestCall, OSCancelThread, OSJoinThread, OSDetachThread, OSSleepThread,
       Sleep, OSWakeupThread, OSLockMutex, OSUnlockMutex, OSYieldThread, OSExitThread, HandlerBegins,
       HandlerEnds, DeferredEnds, threadVars
  <2> QED BY <1>4, <2>1, <2>2, <2>3, <2>4, <2>5
<1>6. CASE HandlerStep
  <2>1. CASE TicksDone
    <3>1. state[exec] = "running" /\ exec \in Threads
      BY <2>1, RunsItself DEF TicksDone
    <3>2. suspend[exec] = 0
      BY <3>1 DEF Inv, Consistent
    <3>3. UNCHANGED suspend
      BY <2>1, <3>2 DEF TicksDone
    <3> QED BY <1>4, <3>3
  <2>2. TicksDone \/ UNCHANGED suspend
    BY <1>6, NoReturn, Zenon DEF HandlerStep, SelectRefuses, SelectPreempts, SelectSwitches, Dispatch,
       SelectIdles, WakeOne, WakeDone, Block, Sleep, Slept, Promote, Propagate, Resched, LockRound,
       ExitTail, UnlockAll, WakeThreadJoiners, JoinDone, threadVars
  <2> QED BY <1>4, <2>1, <2>2
<1>7. CASE HostEvent
  <2>1. ASSUME NEW v \in Threads, TimerFires(v) PROVE TimerFires(u)
    <3>1. Resume(v) \/ UNCHANGED suspend
      BY <2>1 DEF TimerFires, threadVars
    <3> QED BY <1>3, <1>4, <2>1, <3>1
  <2>2. (\E v \in Threads : TimerFires(v)) \/ UNCHANGED suspend
    BY <1>7, Zenon DEF HostEvent, IdleDispatches, IdleEvent, Dispatch, threadVars
  <2> QED BY <1>4, <2>1, <2>2
<1> QED BY <1>5, <1>6, <1>7 DEF Next

\* Only OSSleepTicks arms a timer, that of the thread that calls it.
LEMMA TimersGrow ==
  ASSUME Inv, Next, "return" \notin Ops, NEW u \in timers', u \notin timers
  PROVE  OSSleepTicks /\ u = exec
<1>1. CASE OSSleepTicks
  BY <1>1, Now DEF OSSleepTicks, Calls, InGuest
<1>2. CASE GuestCall /\ ~OSSleepTicks
  <2>1. (\E v \in Threads : OSResumeThread(v)) \/ UNCHANGED timers
    BY <1>2, NoReturn, Zenon DEF GuestCall, OSSuspendThread, OSCancelThread, OSJoinThread, OSDetachThread,
       OSCreateThread, OSSleepThread, Sleep, OSWakeupThread, OSLockMutex, OSUnlockMutex, OSYieldThread,
       OSExitThread, HandlerBegins, HandlerEnds, DeferredEnds, parkVars
  <2> QED BY <2>1 DEF OSResumeThread
<1>3. CASE HandlerStep
  <2>1. TicksDone \/ UNCHANGED timers
    BY <1>3, NoReturn, Zenon DEF HandlerStep, SelectRefuses, SelectPreempts, SelectSwitches, Dispatch,
       SelectIdles, WakeOne, WakeDone, Block, Sleep, Slept, Promote, Propagate, Resched, LockRound,
       ExitTail, UnlockAll, WakeThreadJoiners, JoinDone, parkVars
  <2> QED BY <2>1 DEF TicksDone
<1>4. CASE HostEvent
  <2>1. (\E v \in Threads : TimerFires(v)) \/ UNCHANGED timers
    BY <1>4, Zenon DEF HostEvent, IdleDispatches, IdleEvent, Dispatch, parkVars
  <2> QED BY <2>1 DEF TimerFires
<1> QED BY <1>1, <1>2, <1>3, <1>4 DEF Next

\* A thread that ended is not started again before OSCreateThread.
LEMMA DeadForGood ==
  ASSUME Inv, Next, "return" \notin Ops, NEW u \in Threads, Dead(u),
         \A d \in Attrs : ~OSCreateThread(u, d)
  PROVE  Dead(u)'
<1>1. state \in [Threads -> States]
  BY DEF Inv, TypeOK
<1>2. CASE state'[u] = state[u]
  BY <1>2 DEF Dead
<1>3. ASSUME NEW st \in [Threads -> States], NEW qu, NEW qq, NEW pp \in SUBSET Prios, pp # {},
             Dispatch(st, qu, qq, pp), st[u] = state[u],
             \A p \in pp : qq[RunQ(p)] \in Seq(Threads) /\ qq[RunQ(p)] # <<>>
                           /\ (\A t \in Elems(qq[RunQ(p)]) : st[t] = "ready")
      PROVE  state'[u] = state[u]
  <2> DEFINE p == CHOOSE r \in pp : \A s \in pp : r <= s
             next == Head(qq[RunQ(p)])
  <2>1. state' = [st EXCEPT ![next] = "running"]
    BY <1>3 DEF Dispatch
  <2>2. p \in pp
    BY <1>3, LeastPriority
  <2> HIDE DEF p
  <2>3. next \in Elems(qq[RunQ(p)])
    BY <1>3, <2>2 DEF Elems
  <2>4. st[next] = "ready"
    BY <1>3, <2>2, <2>3
  <2> HIDE DEF next
  <2> QED BY <1>3, <2>1, <2>4 DEF Dead
<1>4. ASSUME NEW v \in Threads, Resume(v), v = u => suspend[u] # 1 \/ state[u] = "ready"
      PROVE  state'[u] = state[u]
  <2>1. UNCHANGED state \/ (suspend[v] = 1 /\ state' = [state EXCEPT ![v] = "ready"])
    BY <1>4, Zenon DEF Resume
  <2> QED BY <1>1, <1>4, <2>1 DEF Dead
<1>5. ASSUME NEW v \in Threads, NEW rest, Suspend(v, rest) PROVE state'[u] = state[u]
  <2>1. UNCHANGED state \/ (state[v] = "running" /\ state' = [state EXCEPT ![v] = "ready"])
    BY <1>5, Zenon DEF Suspend
  <2> QED BY <1>1, <2>1 DEF Dead
<1>6. CASE GuestCall
  <2>1. ASSUME NEW v \in Threads, OSCancelThread(v) \/ OSDetachThread(v) PROVE Dead(u)'
    BY <1>1, <2>1 DEF OSCancelThread, OSDetachThread, Terminate, Dead
  <2>2. CASE OSExitThread
    BY <1>1, <2>2 DEF OSExitThread, Terminate, Dead
  <2>3. ASSUME NEW v \in Threads, NEW d \in Attrs, OSCreateThread(v, d) PROVE state'[u] = state[u]
    BY <1>1, <2>3 DEF OSCreateThread
  <2>4. ASSUME NEW v \in Threads, OSSuspendThread(v) \/ OSResumeThread(v) PROVE state'[u] = state[u]
    BY <1>4, <1>5, <2>4 DEF OSSuspendThread, OSResumeThread
  <2>5. CASE OSSleepTicks
    <3>1. running \in Threads /\ Suspend(running, <<Frame("ticks", None)>> \o stack[exec])
      BY <2>5 DEF OSSleepTicks, Inv, TypeOK
    <3> QED BY <1>2, <1>5, <3>1
  <2>6. ASSUME NEW w \in WaitQueues, OSSleepThread(w) PROVE state'[u] = state[u]
    <3>1. running = exec /\ running # None /\ (disable = 0 => state[exec] = "running")
      <4>1. InThread \/ InHandler
        BY <2>6 DEF OSSleepThread, Calls, InGuest
      <4> QED BY <4>1, Now
    <3>2. UNCHANGED state \/ (disable = 0 /\ state' = [state EXCEPT ![running] = "waiting"])
      BY <2>6, <3>1, Zenon DEF OSSleepThread, Sleep
    <3> QED BY <1>1, <3>1, <3>2 DEF Dead
  <2>7. \/ \E v \in Threads : \/ OSCancelThread(v) \/ OSDetachThread(v) \/ OSSuspendThread(v)
                              \/ OSResumeThread(v) \/ \E d \in Attrs : OSCreateThread(v, d)
        \/ \E w \in WaitQueues : OSSleepThread(w)
        \/ OSExitThread \/ OSSleepTicks
        \/ UNCHANGED state
    BY <1>6, NoReturn, Zenon DEF GuestCall, OSJoinThread, OSWakeupThread, OSLockMutex, OSUnlockMutex,
       OSYieldThread, HandlerBegins, HandlerEnds, DeferredEnds, threadVars
  <2> QED BY <1>2, <2>1, <2>2, <2>3, <2>4, <2>5, <2>6, <2>7
<1>7. CASE HandlerStep
  <2>1. CASE SelectPreempts
    <3> DEFINE st == [state EXCEPT ![running] = "ready"]
               qu == [queue EXCEPT ![running] = RunQ(prio[running])]
               qq == [q EXCEPT ![RunQ(prio[running])] = Append(@, running)]
               pp == pending \cup {prio[running]}
    <3>1. Dispatch(st, qu, qq, pp) /\ state[running] = "running" /\ running \in Threads
      BY <2>1 DEF SelectPreempts, Refused, Inv, TypeOK
    <3>2. prio[running] \in Prios /\ RunQ(prio[running]) \in Queues
      <4>1. prio[running] \in Prios
        BY <3>1 DEF Inv, Consistent, DeadStates
      <4> QED BY <4>1, QueueNames
    <3>3. st \in [Threads -> States] /\ st[u] = state[u] /\ pp \in SUBSET Prios /\ pp # {}
      BY <1>1, <3>1, <3>2 DEF States, Dead, Inv, TypeOK
    <3>4. ASSUME NEW p \in pp
          PROVE  qq[RunQ(p)] \in Seq(Threads) /\ qq[RunQ(p)] # <<>>
                 /\ (\A t \in Elems(qq[RunQ(p)]) : st[t] = "ready")
      <4>1. p \in Prios /\ RunQ(p) \in Queues
        BY <3>3, QueueNames
      <4>2. q[RunQ(p)] \in Seq(Threads) /\ (\A t \in Elems(q[RunQ(p)]) : t \in Threads /\ state[t] = "ready")
        BY <4>1, EmptyElems DEF Inv, Consistent
      <4>3. \A t \in Elems(q[RunQ(p)]) : st[t] = "ready"
        BY <1>1, <3>1, <4>2
      <4>4. st[running] = "ready"
        BY <1>1, <3>1
      <4>5. CASE RunQ(p) = RunQ(prio[running])
        <5>1. qq[RunQ(p)] = Append(q[RunQ(p)], running)
          BY <3>2, <4>5 DEF Inv, TypeOK
        <5>2. running \notin Elems(q[RunQ(p)])
          BY <3>1, <4>2
        <5>3. Distinct(q[RunQ(p)])
          BY <4>1 DEF Inv, Consistent
        <5>4. /\ Append(q[RunQ(p)], running) \in Seq(Threads)
              /\ Elems(Append(q[RunQ(p)], running)) = Elems(q[RunQ(p)]) \cup {running}
          BY <3>1, <4>2, <5>2, <5>3, AppendElems
        <5>5. Append(q[RunQ(p)], running) # <<>>
          BY <5>4, EmptyElems
        <5> QED BY <4>3, <4>4, <5>1, <5>4, <5>5
      <4>6. CASE RunQ(p) # RunQ(prio[running])
        <5>1. qq[RunQ(p)] = q[RunQ(p)] /\ p \in pending
          BY <4>1, <4>6 DEF Inv, TypeOK
        <5>2. q[RunQ(p)] # <<>>
          BY <5>1 DEF Inv, PendingMask
        <5> QED BY <4>2, <4>3, <5>1, <5>2
      <4> QED BY <4>5, <4>6
    <3> HIDE DEF st, qu, qq, pp
    <3> QED BY <1>2, <1>3, <3>1, <3>3, <3>4
  <2>2. CASE SelectSwitches
    <3>1. \A p \in pending : p \in Prios /\ RunQ(p) \in Queues /\ q[RunQ(p)] # <<>>
      BY QueueNames DEF Inv, PendingMask
    <3>2. \A p \in pending : q[RunQ(p)] \in Seq(Threads) /\ q[RunQ(p)] # <<>>
                             /\ (\A t \in Elems(q[RunQ(p)]) : state[t] = "ready")
      BY <3>1 DEF Inv, Consistent
    <3>3. Dispatch(state, queue, q, pending) /\ pending # {} /\ pending \in SUBSET Prios
      BY <2>2 DEF SelectSwitches, Inv, TypeOK
    <3> QED BY <1>1, <1>2, <1>3, <3>2, <3>3
  <2>3. CASE WakeOne
    <3> DEFINE r == Head(q[Arg])
    <3>1. state' = [state EXCEPT ![r] = "ready"]
      BY <2>3 DEF WakeOne
    <3>2. Arg \in BlockQueues /\ Arg \in Queues /\ q[Arg] # <<>>
      <4>1. At("wake") \/ At("wakeMore") \/ At("wakeQuiet") \/ At("wakeReturn")
        BY <2>3 DEF WakeOne
      <4>2. ~At("wakeReturn")
        BY Now DEF Quiet, IdleFrame, HandlerFrame, Frame
      <4>3. Arg \in BlockQueues
        BY <4>1, <4>2, Now, FrameArgs DEF Arg
      <4> QED BY <2>3, <4>3, QueueNames DEF WakeOne
    <3>3. r \in Elems(q[Arg])
      <4>1. q[Arg] \in Seq(Threads)
        BY <3>2 DEF Inv, Consistent
      <4> QED BY <3>2, <4>1 DEF Elems
    <3>4. state[r] = "waiting"
      BY <3>2, <3>3 DEF Inv, Consistent
    <3> HIDE DEF r
    <3> QED BY <1>1, <1>2, <3>1, <3>4 DEF Dead
  <2>4. CASE Slept \/ TicksDone
    <3>1. state[exec] = "running" /\ exec \in Threads
      BY <2>4, RunsItself DEF Slept, TicksDone
    <3>2. suspend[exec] = 0
      BY <3>1 DEF Inv, Consistent
    <3>3. UNCHANGED state
      BY <2>4, <3>1, <3>2 DEF Slept, TicksDone
    <3> QED BY <1>2, <3>3
  <2>5. CASE Block
    <3>1. running = exec /\ exec \in Threads /\ state[exec] = "running" /\ exec # None
      BY <2>5, RunsItself, Now DEF Block
    <3>2. UNCHANGED state \/ state' = [state EXCEPT ![exec] = "waiting"]
      BY <2>5, <3>1 DEF Block, Sleep
    <3> QED BY <1>1, <1>2, <3>1, <3>2 DEF Dead
  <2>6. CASE JoinDone
    BY <1>1, <2>6 DEF JoinDone, Dead
  <2>7. \/ SelectPreempts \/ SelectSwitches \/ WakeOne \/ Slept \/ TicksDone \/ Block \/ JoinDone
        \/ UNCHANGED state
    BY <1>7, NoReturn, Zenon DEF HandlerStep, SelectRefuses, SelectIdles, WakeDone, Promote, Propagate,
       Resched, LockRound, ExitTail, UnlockAll, WakeThreadJoiners, threadVars
  <2> QED BY <1>2, <2>1, <2>2, <2>3, <2>4, <2>5, <2>6, <2>7
<1>8. CASE HostEvent
  <2>1. CASE IdleDispatches
    <3>1. \A p \in pending : p \in Prios /\ RunQ(p) \in Queues /\ q[RunQ(p)] # <<>>
      BY QueueNames DEF Inv, PendingMask
    <3>2. \A p \in pending : q[RunQ(p)] \in Seq(Threads) /\ q[RunQ(p)] # <<>>
                             /\ (\A t \in Elems(q[RunQ(p)]) : state[t] = "ready")
      BY <3>1 DEF Inv, Consistent
    <3>3. Dispatch(state, queue, q, pending) /\ pending # {} /\ pending \in SUBSET Prios
      BY <2>1 DEF IdleDispatches, Inv, TypeOK
    <3> QED BY <1>1, <1>2, <1>3, <3>2, <3>3
  <2>2. ASSUME NEW v \in Threads, TimerFires(v) PROVE state'[u] = state[u]
    BY <1>4, <2>2 DEF TimerFires, threadVars
  <2>3. IdleDispatches \/ (\E v \in Threads : TimerFires(v)) \/ UNCHANGED state
    BY <1>8, Zenon DEF HostEvent, IdleEvent, threadVars
  <2> QED BY <1>2, <2>1, <2>2, <2>3
<1> QED BY <1>6, <1>7, <1>8 DEF Next

\* A structure is initialized only when no timer is armed for it.
FreshStep == \A u \in Threads : \A d \in Attrs : OSCreateThread(u, d) => u \notin timers

Fresh == [][FreshStep]_vars

\* Every step keeps the timers with their sleepers, unless a structure whose
\* timer is armed is used again.
LEMMA ParkedStep ==
  ASSUME Inv, Inv', Parked, Next, "return" \notin Ops, FreshStep
  PROVE  Parked'
<1> SUFFICES ASSUME NEW u \in timers', ~Dead(u)'
             PROVE  suspend'[u] > 0 /\ On(stack'[u], Ticking)
  BY DEF Parked
<1>1. u \in Threads /\ exec \in Threads /\ stack[exec] \in Seq(Frames)
      /\ suspend \in [Threads -> Nat] /\ suspend' \in [Threads -> Nat] /\ stack \in [Threads -> Seq(Frames)]
  BY Now DEF Inv, TypeOK
<1>2. CASE u \notin timers
  <2> DEFINE t == <<Frame("ticks", None)>>
             rest == t \o stack[exec]
  <2>1. OSSleepTicks /\ u = exec /\ running = exec
    BY <1>2, TimersGrow, Now DEF OSSleepTicks, Calls, InGuest
  <2>2. Suspend(exec, rest)
    BY <2>1 DEF OSSleepTicks
  <2>3. t \in Seq(Frames) /\ t \o <<>> = t
    BY FrameKinds, FrameSeqs, ConcatEmptySeq
  <2>4. rest \in Seq(Frames)
    <3> HIDE DEF t
    <3> QED BY <1>1, <2>3, ConcatProperties
  <2>5. On(rest, Ticking)
    <3>1. Frame("ticks", None) \in Ticking
      BY FrameKinds DEF Ticking, Frame
    <3>2. Len(t) = 1 /\ t[1] = Frame("ticks", None)
      OBVIOUS
    <3>3. 1 \in 1 .. Len(rest) /\ rest[1] = t[1]
      <4> HIDE DEF t
      <4>1. Len(t \o stack[exec]) = Len(t) + Len(stack[exec]) /\ Len(stack[exec]) \in Nat
            /\ \A i \in 1 .. Len(t) + Len(stack[exec]) :
                 (t \o stack[exec])[i] = IF i <= Len(t) THEN t[i] ELSE stack[exec][i - Len(t)]
        BY <1>1, <2>3, ConcatProperties, LenProperties
      <4> QED BY <3>2, <4>1
    <3> HIDE DEF rest
    <3> QED BY <3>1, <3>2, <3>3 DEF On
  <2> HIDE DEF rest
  <2>6. PICK fs \in Seq(Frames) : stack' = [stack EXCEPT ![exec] = fs \o rest]
    BY <1>1, <2>2, <2>4, ShapeSuspend
  <2>7. On(fs \o rest, Ticking)
    BY <2>4, <2>5, <2>6, OnUnder
  <2>8. stack'[exec] = fs \o rest
    BY <1>1, <2>6
  <2>9. suspend'[exec] = suspend[exec] + 1
    BY <1>1, <2>2 DEF Suspend
  <2> QED BY <1>1, <2>1, <2>7, <2>8, <2>9
<1>3. CASE u \in timers
  <2>1. \A d \in Attrs : ~OSCreateThread(u, d)
    BY <1>1, <1>3 DEF FreshStep
  <2>2. ~Dead(u)
    BY <1>1, <2>1, DeadForGood
  <2>3. suspend[u] > 0 /\ On(stack[u], Ticking)
    BY <1>3, <2>2 DEF Parked
  <2>4. suspend'[u] > 0
    <3>1. CASE suspend'[u] < suspend[u]
      <4>1. ~TimerFires(u)
        BY DEF TimerFires
      <4>2. OSResumeThread(u)
        BY <1>1, <2>1, <3>1, <4>1, SuspendFalls
      <4>3. suspend[u] # 1 /\ suspend' = [suspend EXCEPT ![u] = IF @ = 0 THEN 0 ELSE @ - 1]
        BY <4>2 DEF OSResumeThread, Resume
      <4> QED BY <1>1, <2>3, <4>3
    <3> QED BY <1>1, <2>3, <3>1
  <2>5. On(stack'[u], Ticking)
    <3>1. ASSUME NEW v \in Threads, OSCancelThread(v) PROVE On(stack'[u], Ticking)
      <4>1. v # u
        BY <1>1, <3>1 DEF OSCancelThread, Terminate, Dead, Inv, TypeOK
      <4>2. u # exec
        BY <2>3, <3>1 DEF OSCancelThread, InThread, On
      <4>3. stack'[u] = stack[u]
        BY <1>1, <3>1, <4>1, <4>2 DEF OSCancelThread
      <4> QED BY <2>3, <4>3
    <3>2. ASSUME NEW v \in Threads, NEW d \in Attrs, OSCreateThread(v, d) PROVE On(stack'[u], Ticking)
      <4>1. stack'[u] = stack[u]
        BY <1>1, <2>1, <3>2 DEF OSCreateThread
      <4> QED BY <2>3, <4>1
    <3>3. CASE Shape
      <4>1. u = exec => Head(stack[exec]) \notin Ticking
        <5>1. CASE At("ticks")
          <6>1. state[exec] = "running"
            BY <5>1, RunsItself
          <6>2. suspend[exec] = 0
            BY <1>1, <6>1 DEF Inv, Consistent
          <6> QED BY <2>3, <6>2
        <5>2. u = exec => stack[exec] # <<>>
          BY <2>3 DEF On
        <5> QED BY <5>1, <5>2 DEF At, Ticking
      <4> QED BY <1>1, <2>3, <3>3, <4>1, Stays
    <3> QED BY <3>1, <3>2, <3>3, StackShape
  <2> QED BY <2>4, <2>5
<1> QED BY <1>2, <1>3

\* A timer that fires peels the suspension of a thread that sleeps.
LEMMA TimersWake ==
  ASSUME Inv, Parked, Next, "return" \notin Ops, NEW u \in Threads,
         ~InGuest, suspend'[u] < suspend[u]
  PROVE  \E i \in 1 .. Len(stack[u]) : stack[u][i].op = "ticks"
<1>1. \A d \in Attrs : ~OSCreateThread(u, d)
  BY DEF OSCreateThread, InGuest
<1>2. ~OSResumeThread(u)
  BY DEF OSResumeThread, Calls
<1>3. TimerFires(u)
  BY <1>1, <1>2, SuspendFalls
<1>4. suspend' # suspend
  <2>1. suspend[u] \in Nat
    BY DEF Inv, TypeOK
  <2> QED BY <2>1
<1>5. u \in timers /\ state[u] = "ready"
  BY <1>3, <1>4 DEF TimerFires, threadVars
<1>6. On(stack[u], Ticking)
  BY <1>5 DEF Parked, Dead
<1> QED BY <1>6 DEF On, Ticking

\* A sleep timer starts only the thread that sleeps in OSSleepTicks, as long as
\* OSCreateThread is not given a structure whose timer is armed: cancelling a
\* sleeper leaves its timer armed, and nothing else does.
THEOREM TimersKnowSleepers ==
  ASSUME "return" \notin Ops
  PROVE  Spec /\ Fresh => TimersWakeSleepers
<1>1. Init => Parked
  BY DEF Init, Parked
<1>2. Inv /\ Inv' /\ Parked /\ [Next]_vars /\ [FreshStep]_vars => Parked'
  <2>1. CASE UNCHANGED vars
    BY <2>1 DEF Parked, Dead, vars, threadVars, parkVars, hostVars
  <2> QED BY <2>1, ParkedStep
<1>3. Inv /\ Parked /\ [Next]_vars =>
        [\A u \in Threads :
           (~InGuest /\ suspend'[u] < suspend[u]) =>
             \E i \in 1 .. Len(stack[u]) : stack[u][i].op = "ticks"]_vars
  BY TimersWake
<1> QED BY <1>1, <1>2, <1>3, InvHolds, PTL DEF Spec, Fresh, TimersWakeSleepers

\* While no thread is cancelled, an armed timer belongs to a thread that has not ended.
Alive == \A u \in timers : ~Dead(u)

\* Every step keeps the owners of armed timers alive, unless a thread cancels.
LEMMA AliveStep ==
  ASSUME Inv, Inv', Parked, Alive, Next, "return" \notin Ops, "cancel" \notin Ops
  PROVE  Alive'
<1> SUFFICES ASSUME NEW u \in timers', Dead(u)' PROVE FALSE
  BY DEF Alive
<1>1. u \in Threads /\ exec \in Threads /\ state \in [Threads -> States]
  BY DEF Inv, TypeOK
<1>2. CASE OSExitThread
  <2>1. /\ state[exec] = "running" /\ u \in timers
        /\ state' = [state EXCEPT ![exec] = IF detached[exec] THEN "none" ELSE "moribund"]
    BY <1>2, Now DEF OSExitThread, Terminate, parkVars
  <2>2. suspend[exec] = 0 /\ ~Dead(u) /\ suspend[u] > 0
    BY <1>1, <2>1 DEF Inv, Consistent, Parked, Alive
  <2>3. u # exec
    BY <2>2
  <2> QED BY <1>1, <2>1, <2>2, <2>3 DEF Dead
<1>3. CASE ~OSExitThread
  <2>1. \A v \in Threads : ~OSCancelThread(v)
    BY DEF OSCancelThread
  <2>2. Dead(u)
    BY <1>1, <1>3, <2>1, DeadStays
  <2>3. u \notin timers
    BY <2>2 DEF Alive
  <2>4. OSSleepTicks /\ u = exec
    BY <2>3, TimersGrow
  <2>5. InThread
    BY <2>4, Now DEF OSSleepTicks, Calls, InGuest
  <2> QED BY <2>2, <2>4, <2>5, Now DEF Dead
<1> QED BY <1>2, <1>3

\* Without OSCancelThread no structure with an armed timer is ever free, so
\* nothing is needed of the guest.
THEOREM SleepersOwnTimers ==
  ASSUME "return" \notin Ops, "cancel" \notin Ops
  PROVE  Spec => TimersWakeSleepers
<1>1. Init => Parked /\ Alive
  BY DEF Init, Parked, Alive
<1>2. Inv /\ Parked /\ Alive => FreshStep
  BY DEF Alive, FreshStep, OSCreateThread, Dead
<1>3. Inv /\ Inv' /\ (Parked /\ Alive) /\ [Next]_vars => (Parked /\ Alive)'
  <2>1. CASE UNCHANGED vars
    BY <2>1 DEF Parked, Alive, Dead, vars, threadVars, parkVars, hostVars
  <2>2. CASE Next
    BY <1>2, <2>2, ParkedStep, AliveStep
  <2> QED BY <2>1, <2>2
<1>4. Inv /\ Parked /\ [Next]_vars =>
        [\A u \in Threads :
           (~InGuest /\ suspend'[u] < suspend[u]) =>
             \E i \in 1 .. Len(stack[u]) : stack[u][i].op = "ticks"]_vars
  BY TimersWake
<1> QED BY <1>1, <1>3, <1>4, InvHolds, PTL DEF Spec, TimersWakeSleepers
-----------------------------------------------------------------------------
(* The scheduler's memory of whom it still has to run. *)

\* A ready thread is more urgent than the one that runs.
Better == running = exec /\ state[exec] = "running" /\ \E p \in pending : p < prio[exec]

\* Then a reschedule is requested, in the middle of a handler too.
Requested == Better => resched

\* A step that leaves the request alone and makes nobody more urgent.
LEMMA RequestedKept ==
  ASSUME Requested, resched' = resched, Better' => Better
  PROVE  Requested'
BY DEF Requested

\* A step after which the running thread is the most urgent, or that requests.
LEMMA RequestedAnew ==
  ASSUME ~Better' \/ resched'
  PROVE  Requested'
BY DEF Requested

\* Dispatch runs a thread of the best pending priority.
LEMMA BestDispatched ==
  ASSUME Inv, NEW st, NEW qu, NEW qq \in [Queues -> Seq(Threads)], NEW pp \in SUBSET Prios,
         Dispatch(st, qu, qq, pp), pp # {}, \A r \in pp : qq[RunQ(r)] # <<>>,
         \A r \in pp : \A t \in Elems(qq[RunQ(r)]) : prio[t] = r
  PROVE  ~Better'
<1> DEFINE p    == CHOOSE r \in pp : \A s \in pp : r <= s
           next == Head(qq[RunQ(p)])
           rest == Tail(qq[RunQ(p)])
<1>1. p \in pp /\ p \in Prios /\ RunQ(p) \in Queues /\ RunQ(p) \in RunQueues /\ \A s \in pp : p <= s
  BY LeastPriority, QueueNames DEF RunQueues
<1>2. /\ pending' = IF rest = <<>> THEN pp \ {p} ELSE pp
      /\ running' = next /\ prio' = prio
  BY DEF Dispatch
<1> HIDE DEF p
<1>3. qq[RunQ(p)] \in Seq(Threads) /\ qq[RunQ(p)] # <<>>
  BY <1>1
<1>4. next \in Elems(qq[RunQ(p)]) /\ next \in Threads
  BY <1>3 DEF Elems
<1>5. prio[next] = p
  BY <1>1, <1>4
<1> HIDE DEF next, rest
<1>6. \A s \in pending' : p <= s /\ s \in Int /\ p \in Int
  BY <1>1, <1>2 DEF Prios
<1> QED BY <1>2, <1>5, <1>6 DEF Better

\* SelectThread dispatches the most urgent thread, itself included.
LEMMA BestSelected ==
  ASSUME Inv, SelectPreempts \/ SelectSwitches \/ IdleDispatches
  PROVE  ~Better'
<1>1. /\ q \in [Queues -> Seq(Threads)] /\ pending \in SUBSET Prios /\ running \in {exec, None}
      /\ exec \in Threads /\ Consistent(state, suspend, prio, queue, q)
      /\ \A r \in pending : q[RunQ(r)] # <<>>
  BY DEF Inv, TypeOK, Host, PendingMask
<1>2. CASE SelectSwitches \/ IdleDispatches
  <2>1. pending # {} /\ Dispatch(state, queue, q, pending)
    BY <1>2 DEF SelectSwitches, IdleDispatches
  <2>2. \A r \in pending : \A t \in Elems(q[RunQ(r)]) : prio[t] = r
    BY <1>1 DEF Consistent
  <2> QED BY <1>1, <2>1, <2>2, BestDispatched
<1>3. CASE SelectPreempts
  <2> DEFINE x  == RunQ(prio[running])
             qq == [q EXCEPT ![x] = Append(@, running)]
             pp == pending \cup {prio[running]}
  <2>1. /\ Dispatch([state EXCEPT ![running] = "ready"], [queue EXCEPT ![running] = x], qq, pp)
        /\ running # None /\ state[running] = "running"
    BY <1>3 DEF SelectPreempts, Refused
  <2>2. running = exec /\ prio[running] \in Prios /\ x \in Queues
    BY <1>1, <2>1, QueueNames DEF Consistent, DeadStates
  <2>3. /\ Append(q[x], running) \in Seq(Threads) /\ Append(q[x], running) # <<>>
        /\ Elems(Append(q[x], running)) = Elems(q[x]) \cup {running}
    <3>1. /\ q[x] \in Seq(Threads) /\ Distinct(q[x]) /\ running \in Threads
          /\ running \notin Elems(q[x])
      BY <1>1, <2>1, <2>2, Unlinked DEF Consistent, Inv, TypeOK
    <3>2. Elems(Append(q[x], running)) = Elems(q[x]) \cup {running}
      BY <3>1, AppendElems
    <3> QED BY <3>1, <3>2
  <2>4. /\ \A r \in Prios : r # prio[running] => qq[RunQ(r)] = q[RunQ(r)]
        /\ qq[RunQ(prio[running])] = Append(q[x], running)
        /\ qq \in [Queues -> Seq(Threads)] /\ pp \in SUBSET Prios /\ pp # {}
    BY <1>1, <2>2, <2>3, QueueNames
  <2>5. \A r \in Prios : \A t \in Elems(q[RunQ(r)]) : prio[t] = r
    BY <1>1 DEF Consistent
  <2>6. \A r \in pp : qq[RunQ(r)] # <<>> /\ \A t \in Elems(qq[RunQ(r)]) : prio[t] = r
    <3> TAKE r \in pp
    <3>1. CASE r = prio[running]
      BY <2>2, <2>3, <2>4, <2>5, <3>1
    <3>2. CASE r # prio[running]
      BY <1>1, <2>4, <2>5, <3>2
    <3> QED BY <3>1, <3>2
  <2> HIDE DEF qq, pp
  <2> QED BY <2>1, <2>4, <2>6, BestDispatched
<1> QED BY <1>2, <1>3

\* OSSleepThread requests a reschedule, or does nothing.
LEMMA RequestedSleep ==
  ASSUME Inv, Requested, NEW x, NEW rest, Sleep(x, rest)
  PROVE  Requested'
<1>1. CASE disable = 0
  BY <1>1, RequestedAnew DEF Sleep
<1>2. CASE disable # 0
  <2>1. running = exec /\ running # None
    BY <1>2, Now DEF ExecOK
  <2>2. UNCHANGED <<state, prio, pending, resched, exec>>
    BY <1>2 DEF Sleep
  <2>3. running' = running
    BY <2>1 DEF Sleep
  <2> QED BY <2>2, <2>3, RequestedKept DEF Better
<1> QED BY <1>1, <1>2

\* Waking a thread requests a reschedule, unless the thread is suspended and
\* stays off the run queues.
LEMMA RequestedWakeOne ==
  ASSUME Inv, Requested, WakeOne
  PROVE  Requested'
<1>1. /\ exec \in Threads /\ state \in [Threads -> States] /\ stack[exec] # <<>>
      /\ Arg \in BlockQueues /\ Head(stack[exec]) \in Frames
  <2>1. At("wake") \/ At("wakeMore") \/ At("wakeQuiet")
    BY Now DEF WakeOne, Quiet, IdleFrame, HandlerFrame, Frame
  <2>2. Arg \in BlockQueues
    BY <2>1, Now, FrameArgs DEF Arg
  <2> QED BY <2>1, <2>2, Now DEF Inv, TypeOK
<1> DEFINE t == Head(q[Arg])
<1>2. t \in Threads /\ state[t] = "waiting"
  <2>1. q[Arg] \in Seq(Threads) /\ q[Arg] # <<>> /\ Arg \in Queues
    BY <1>1 DEF WakeOne, Inv, TypeOK, Queues
  <2>2. t \in Elems(q[Arg]) /\ t \in Threads
    BY <2>1 DEF Elems
  <2> QED BY <1>1, <2>2 DEF Inv, Consistent
<1>3. /\ UNCHANGED <<running, exec, prio>> /\ state' = [state EXCEPT ![t] = "ready"]
      /\ resched' = (resched \/ Wakeable(t))
      /\ ~Wakeable(t) => pending' = pending
  BY DEF WakeOne
<1> HIDE DEF t
<1>4. CASE Wakeable(t)
  BY <1>3, <1>4, RequestedAnew
<1>5. CASE ~Wakeable(t)
  <2>1. Better' => Better
    BY <1>1, <1>2, <1>3, <1>5 DEF Better
  <2>2. Requested' = (Better' => (resched \/ Wakeable(t)))
    BY <1>3 DEF Requested
  <2> QED BY <1>5, <2>1, <2>2 DEF Requested
<1> QED BY <1>4, <1>5

\* OSSuspendThread requests a reschedule for the running thread; another thread
\* only leaves its queue.
LEMMA RequestedSuspend ==
  ASSUME Inv, Requested, NEW u \in Threads, NEW rest, Suspend(u, rest),
         UNCHANGED <<exec, running>>
  PROVE  Requested'
<1>1. /\ exec \in Threads /\ state \in [Threads -> States] /\ prio \in [Threads -> 0 .. NumPriorities]
  BY DEF Inv, TypeOK
<1>2. /\ pending' = pending \/ pending' = UpdatePendingMask(u)
      /\ state' = state \/ state' = [state EXCEPT ![u] = "ready"]
      /\ prio' = prio \/ (state[u] = "waiting" /\ prio' = [prio EXCEPT ![u] = SuspendedWaitPriority])
      /\ resched' = resched \/ resched'
  BY Zenon DEF Suspend
<1>3. pending' \subseteq pending
  BY <1>2 DEF UpdatePendingMask
<1>4. state'[exec] = "running" => state[exec] = "running" /\ prio'[exec] = prio[exec]
  BY <1>1, <1>2
<1>5. Better' => Better
  BY <1>3, <1>4 DEF Better
<1> QED BY <1>2, <1>5, RequestedKept, RequestedAnew

\* OSResumeThread requests one when a thread becomes runnable.
LEMMA RequestedResume ==
  ASSUME Inv, Requested, NEW u \in Threads, Resume(u)
  PROVE  Requested'
<1>1. /\ exec \in Threads /\ state \in [Threads -> States] /\ prio \in [Threads -> 0 .. NumPriorities]
      /\ UNCHANGED <<running, exec>>
  BY DEF Inv, TypeOK, Resume
<1>2. CASE suspend[u] # 1
  <2>1. UNCHANGED <<state, prio, pending, resched>>
    BY <1>2 DEF Resume
  <2> QED BY <1>1, <2>1, RequestedKept DEF Better
<1>3. CASE suspend[u] = 1 /\ state[u] = "waiting"
  <2>1. PICK p : prio' = [prio EXCEPT ![u] = p]
    BY <1>3 DEF Resume
  <2>2. UNCHANGED <<state, pending, resched>>
    BY <1>3 DEF Resume
  <2>3. Better' => Better
    BY <1>1, <1>3, <2>1, <2>2 DEF Better
  <2> QED BY <2>2, <2>3, RequestedKept
<1>4. CASE suspend[u] = 1 /\ state[u] # "waiting"
  BY <1>4, RequestedAnew DEF Resume
<1> QED BY <1>2, <1>3, <1>4

\* Cancelling a thread takes it off its queue; a thread just created is not
\* running and not ready.
LEMMA RequestedLife ==
  ASSUME Inv, Requested, NEW u \in Threads,
         OSCancelThread(u) \/ \E d \in Attrs : OSCreateThread(u, d)
  PROVE  Requested'
<1>1. /\ exec \in Threads /\ state \in [Threads -> States] /\ prio \in [Threads -> 0 .. NumPriorities]
  BY DEF Inv, TypeOK
<1>2. CASE OSCancelThread(u)
  <2>1. /\ UNCHANGED <<running, exec, prio>>
        /\ pending' = pending \/ pending' = UpdatePendingMask(u)
        /\ state' = [state EXCEPT ![u] = IF detached[u] THEN "none" ELSE "moribund"]
        /\ resched' = (resched \/ state[u] = "running")
    BY <1>2 DEF OSCancelThread, Terminate
  <2>2. pending' \subseteq pending
    BY <2>1 DEF UpdatePendingMask
  <2>3. Better' => Better
    BY <1>1, <2>1, <2>2 DEF Better
  <2> QED BY <2>1, <2>3 DEF Requested
<1>3. CASE \E d \in Attrs : OSCreateThread(u, d)
  <2>1. /\ UNCHANGED <<running, exec, pending, resched>> /\ state[u] = "none"
        /\ prio' = [prio EXCEPT ![u] = BasePriority[u]]
        /\ \E s \in States \ {"running"} : state' = [state EXCEPT ![u] = s]
    BY <1>3 DEF OSCreateThread, States
  <2>2. Better' => Better
    BY <1>1, <2>1 DEF Better
  <2> QED BY <2>1, <2>2, RequestedKept
<1> QED BY <1>2, <1>3

\* Steps that leave queues, priorities and the request alone and start nobody.
Mild ==
  /\ UNCHANGED <<running, exec, prio, pending, resched>>
  /\ state'[exec] = "running" => state[exec] = "running"

\* Such a step keeps the request.
LEMMA RequestedMild == ASSUME Requested, Mild PROVE Requested'
<1>1. Better' => Better
  BY DEF Mild, Better
<1> QED BY <1>1, RequestedKept DEF Mild

\* The handlers that are mild.
LEMMA MildHandlers ==
  ASSUME Inv,
         SelectRefuses \/ WakeDone \/ Slept \/ TicksDone \/ Resched \/ WakeThreadJoiners
           \/ JoinDone \/ (UnlockAll /\ UNCHANGED mutexVars)
           \/ \E w \in WaitQueues : IdleEvent(w)
  PROVE  Mild
<1>1. /\ exec \in Threads /\ state \in [Threads -> States] /\ stack[exec] \in Seq(Frames)
      /\ ExecOK(stack[exec], running, exec, disable, state[exec], resched)
  BY Now DEF Inv, TypeOK
<1>2. At("slept") \/ At("ticks") => state[exec] = "running"
  <2> SUFFICES ASSUME At("slept") \/ At("ticks") PROVE state[exec] = "running"
    OBVIOUS
  <2>1. stack[exec] # <<>> /\ Head(stack[exec]) \notin Plain \cup {IdleFrame, HandlerFrame} \cup Leaves(resched)
    BY DEF At, Plain, PlainOps, IdleFrame, HandlerFrame, Frame, Leaves
  <2>2. running = exec
    BY <1>1, <2>1, Tops
  <2> QED BY <1>1, <2>1, <2>2, Tops
<1>3. CASE Slept
  BY <1>2, <1>3 DEF Slept, Mild
<1>4. CASE TicksDone
  BY <1>2, <1>4 DEF TicksDone, Mild, schedVars
<1>5. CASE JoinDone
  <2>1. UNCHANGED <<running, exec, prio, pending, resched>>
        /\ (state' = state \/ state' = [state EXCEPT ![Arg] = "none"])
    BY <1>5 DEF JoinDone, schedVars
  <2> QED BY <1>1, <2>1 DEF Mild
<1>6. CASE SelectRefuses \/ WakeDone \/ Resched \/ WakeThreadJoiners
  BY <1>6 DEF SelectRefuses, WakeDone, Resched, WakeThreadJoiners, Mild, threadVars, schedVars
<1>7. CASE UnlockAll \/ \E w \in WaitQueues : IdleEvent(w)
  BY <1>7 DEF UnlockAll, IdleEvent, Mild, threadVars, schedVars
<1> QED BY <1>3, <1>4, <1>5, <1>6, <1>7

\* The guest's calls that are mild; a deferred pump's return is one.
LEMMA MildCalls ==
  ASSUME Inv,
         OSYieldThread \/ OSExitThread \/ HandlerBegins \/ HandlerEnds \/ DeferredEnds
           \/ (\E u \in Threads : OSJoinThread(u) \/ OSDetachThread(u))
           \/ \E w \in WaitQueues : OSWakeupThread(w)
  PROVE  Mild
<1>1. exec \in Threads /\ state \in [Threads -> States]
  BY DEF Inv, TypeOK
<1>2. CASE OSYieldThread \/ \E w \in WaitQueues : OSWakeupThread(w)
  BY <1>2 DEF OSYieldThread, OSWakeupThread, Mild, threadVars, schedVars
<1>3. CASE HandlerBegins \/ HandlerEnds \/ DeferredEnds
  BY <1>3 DEF HandlerBegins, HandlerEnds, DeferredEnds, Mild, threadVars
<1>4. CASE OSExitThread
  <2>1. state' = [state EXCEPT ![exec] = IF detached[exec] THEN "none" ELSE "moribund"]
    BY <1>4 DEF OSExitThread, Terminate
  <2> QED BY <1>1, <1>4, <2>1 DEF OSExitThread, Mild, schedVars
<1>5. ASSUME NEW u \in Threads, OSJoinThread(u) PROVE Mild
  BY <1>5 DEF OSJoinThread, Mild, threadVars, schedVars
<1>6. ASSUME NEW u \in Threads, OSDetachThread(u) PROVE Mild
  <2>1. state' = state \/ state' = [state EXCEPT ![u] = "none"]
    BY <1>6 DEF OSDetachThread
  <2> QED BY <1>1, <1>6, <2>1 DEF OSDetachThread, Mild, schedVars
<1> QED BY <1>2, <1>3, <1>4, <1>5, <1>6

\* Every step keeps the request, unless a thread locks.
LEMMA RequestedStep ==
  ASSUME Lockless, Requested, Next, "lock" \notin Ops, "return" \notin Ops
  PROVE  Requested'
<1>1. Inv /\ exec \in Threads
  BY Now DEF Lockless
<1>2. CASE GuestCall
  <2>1. ASSUME NEW u \in Threads, OSSuspendThread(u) PROVE Requested'
    BY <1>1, <2>1, RequestedSuspend DEF OSSuspendThread
  <2>2. ASSUME NEW u \in Threads, OSResumeThread(u) PROVE Requested'
    BY <1>1, <2>2, RequestedResume DEF OSResumeThread
  <2>3. ASSUME NEW u \in Threads, OSCancelThread(u) \/ \E d \in Attrs : OSCreateThread(u, d)
        PROVE  Requested'
    BY <1>1, <2>3, RequestedLife
  <2>4. ASSUME NEW w \in WaitQueues, OSSleepThread(w) PROVE Requested'
    BY <1>1, <2>4, RequestedSleep DEF OSSleepThread
  <2>5. CASE OSSleepTicks
    <3>1. running \in Threads /\ Suspend(running, <<Frame("ticks", None)>> \o stack[exec])
          /\ UNCHANGED <<exec, running>>
      BY <1>1, <2>5 DEF OSSleepTicks, Inv, TypeOK
    <3> QED BY <1>1, <3>1, RequestedSuspend
  <2>6. ASSUME Mild \/ \E m \in Mutexes : OSLockMutex(m) \/ OSUnlockMutex(m) PROVE Requested'
    BY <2>6, RequestedMild, NoMutexWork
  <2> QED BY <1>1, <1>2, <2>1, <2>2, <2>3, <2>4, <2>5, <2>6, MildCalls, NoReturn, Zenon
          DEF GuestCall
<1>3. CASE HandlerStep
  <2>1. CASE SelectPreempts \/ SelectSwitches
    BY <1>1, <2>1, BestSelected, RequestedAnew
  <2>2. CASE SelectIdles
    BY <1>1, <2>2, Now, RequestedAnew DEF SelectIdles, Better
  <2>3. CASE WakeOne
    BY <1>1, <2>3, RequestedWakeOne
  <2>4. CASE ExitTail
    BY <2>4, RequestedAnew DEF ExitTail
  <2>5. CASE Block
    BY <1>1, <2>5, RequestedSleep DEF Block
  <2>6. CASE UnlockAll
    <3>1. UNCHANGED mutexVars
      BY <2>6, NoMutexWork
    <3> QED BY <1>1, <2>6, <3>1, MildHandlers, RequestedMild
  <2>7. ASSUME Mild \/ LockRound \/ Promote \/ Propagate PROVE Requested'
    BY <2>7, RequestedMild, NoMutexWork
  <2> QED BY <1>1, <1>3, <2>1, <2>2, <2>3, <2>4, <2>5, <2>6, <2>7, MildHandlers, NoReturn, Zenon
          DEF HandlerStep
<1>4. CASE HostEvent
  <2>1. CASE IdleDispatches
    BY <1>1, <2>1, BestSelected, RequestedAnew
  <2>2. CASE \E w \in WaitQueues : IdleEvent(w)
    BY <1>1, <2>2, MildHandlers, RequestedMild
  <2>3. ASSUME NEW u \in Threads, TimerFires(u) PROVE Requested'
    <3>1. CASE Resume(u)
      BY <1>1, <3>1, RequestedResume
    <3>2. CASE UNCHANGED <<threadVars, mutexVars, schedVars, hostVars>>
      BY <3>2, RequestedMild DEF Mild, threadVars, schedVars, hostVars
    <3> QED BY <2>3, <3>1, <3>2 DEF TimerFires
  <2> QED BY <1>4, <2>1, <2>2, <2>3 DEF HostEvent
<1> QED BY <1>2, <1>3, <1>4 DEF Next

\* Whatever makes a thread ready that is more urgent than the running one
\* requests a reschedule, and the request outlives every refusal of SelectThread,
\* every handler and every deferred pump until a dispatch has honoured it.
THEOREM RequestsOutliveRefusals ==
  ASSUME "return" \notin Ops, "lock" \notin Ops
  PROVE  Spec => []RequestKept
<1>1. Init => Requested
  BY DEF Init, Requested, Better
<1>2. Lockless /\ Requested /\ [Next]_vars => Requested'
  <2>1. CASE UNCHANGED vars
    <3>1. UNCHANGED <<exec, running, state, prio, pending, resched>>
      BY <2>1 DEF vars, threadVars, schedVars, hostVars
    <3> QED BY <3>1 DEF Requested, Better
  <2> QED BY <2>1, RequestedStep
<1>3. Requested => RequestKept
  BY DEF Requested, Better, RequestKept
<1>4. Spec => [](Lockless /\ Found /\ Joiners)
  BY LockFree
<1> QED BY <1>1, <1>2, <1>3, <1>4, PTL DEF Spec
-----------------------------------------------------------------------------
(* Priorities lent and given back, while no thread ends. *)

\* Frames that may wait under the executing one: a loan is never interrupted.
Settled == {f \in Frames : f.op \notin {"promote", "unlockAll"}}

\* A loan walks from owner to owner of a mutex, and nobody ends.
Lending ==
  /\ UnderIn(Settled) /\ ~At("unlockAll")
  /\ At("promote") => owned[Arg] # {}

\* Owner pointers and lists of owned mutexes agree; unused structures own nothing.
Owners ==
  /\ \A m \in Mutexes, t \in Threads : owner[m] = t <=> m \in owned[t]
  /\ \A t \in Threads : Dead(t) => owned[t] = {}

\* A priority p of thread t that nobody lends is the base priority or the one of
\* a suspended waiter; what is lent is more urgent.  s is the suspend count of t
\* and ms are the mutexes it owns.
Loan(p, s, ms, t) ==
  /\ p <= BasePriority[t] \/ (p = SuspendedWaitPriority /\ s > 0)
  /\ ms = {} => p >= BasePriority[t]

Lent == \A t \in Threads : Loan(prio[t], suspend[t], owned[t], t)

\* Unless a loan executes, every frame is settled.
LEMMA SettledTop ==
  ASSUME Inv, Lending, ~At("promote")
  PROVE  AllIn(Settled)
<1>1. exec \in Threads /\ stack[exec] \in Seq(Frames) /\ <<>> \in Seq(Settled)
  BY Now, FrameSeqs
<1>2. CASE stack[exec] = <<>>
  BY <1>1, <1>2 DEF Lending, UnderIn, AllIn
<1>3. CASE stack[exec] # <<>>
  <2> DEFINE h == Head(stack[exec])
             r == Tail(stack[exec])
  <2>1. h \in Frames /\ r \in Seq(Settled) /\ stack[exec] = <<h>> \o r
    BY <1>1, <1>3 DEF Lending, UnderIn
  <2>2. h.op # "promote" /\ h.op # "unlockAll"
    BY <1>3 DEF At, Lending
  <2> HIDE DEF h, r
  <2>3. h \in Settled
    BY <2>1, <2>2 DEF Settled
  <2>4. stack[exec] \in Seq(Settled)
    BY <2>1, <2>3
  <2> QED BY <2>4 DEF Lending, UnderIn, AllIn
<1> QED BY <1>2, <1>3

\* A step after which every frame is settled.
LEMMA SettledStacks ==
  ASSUME AllIn(Settled)', exec' \in Threads
  PROVE  Lending'
<1>1. \A s : s \in Seq(Settled) /\ s # <<>> => Head(s) \in Settled /\ Tail(s) \in Seq(Settled)
  OBVIOUS
<1> QED BY <1>1 DEF AllIn, UnderIn, Lending, At, Settled

\* The frames of the idle loop, of joins and of mutexes but a loan are settled.
LEMMA SettledFrames ==
  /\ Common \subseteq Settled
  /\ \A t \in Threads : Frame("propagate", t) \in Settled
  /\ \A m \in Mutexes : Frame("lock", m) \in Settled
  /\ \A x \in BlockQueues : Frame("block", x) \in Settled /\ Frame("wakeQuiet", x) \in Settled
<1>1. Common \subseteq Settled
  BY DEF Common, Frame, Frames, Settled
<1>2. \A t \in Threads : Frame("propagate", t) \in Settled
  BY DEF Frame, Frames, Settled
<1>3. \A m \in Mutexes : Frame("lock", m) \in Settled
  BY DEF Frame, Frames, Settled
<1>4. \A x \in BlockQueues : Frame("block", x) \in Settled /\ Frame("wakeQuiet", x) \in Settled
  BY DEF Frame, Frames, Settled
<1> QED BY <1>1, <1>2, <1>3, <1>4

\* A loan on top of settled frames.
LEMMA LoanOnTop ==
  ASSUME Inv, exec' = exec, NEW u \in Threads, owned'[u] # {},
         NEW r \in Seq(Settled), stack' = [stack EXCEPT ![exec] = Pushed(Frame("promote", u), r)],
         \A t \in Threads \ {exec} : stack[t] \in Seq(Settled)
  PROVE  Lending'
<1> DEFINE f == Frame("promote", u)
           s == Pushed(f, r)
<1>1. f \in Frames /\ f.op = "promote" /\ f.arg = u /\ exec \in Threads /\ r \in Seq(Frames)
  <2>1. f \in Frames
    BY FrameKinds
  <2>2. f.op = "promote" /\ f.arg = u
    BY DEF Frame
  <2>3. Settled \subseteq Frames
    BY DEF Settled
  <2> QED BY <2>1, <2>2, <2>3, Now
<1> HIDE DEF f
<1>2. s # <<>> /\ Head(s) = f /\ Tail(s) = r
  BY <1>1 DEF Pushed
<1>3. stack' = [stack EXCEPT ![exec] = s]
  BY DEF f
<1> HIDE DEF s
<1>4. stack'[exec'] = s /\ \A t \in Threads \ {exec'} : stack'[t] \in Seq(Settled)
  BY <1>1, <1>3 DEF Inv, TypeOK
<1> QED BY <1>1, <1>2, <1>4 DEF Lending, UnderIn, At, Arg

\* A thread that waits for a mutex somebody owns.
Blocked(u) == state[u] = "waiting" /\ waitMutex[u] # None /\ owner[waitMutex[u]] # None

\* SetThreadEffectivePriority walks on to the owner of the mutex the thread waits for.
LEMMA Walk ==
  ASSUME Inv, NEW u \in Threads, NEW p, SetThreadEffectivePriority(u, p)
  PROVE  \/ ~Blocked(u) /\ Return
         \/ /\ Blocked(u) /\ owner[waitMutex[u]] \in Threads
            /\ Become(<<Frame(Head(stack[exec]).op, owner[waitMutex[u]])>>)
<1> DEFINE next == IF state[u] = "waiting" /\ waitMutex[u] # None THEN owner[waitMutex[u]] ELSE None
<1>1. Become(IF next = None THEN <<>> ELSE <<Frame(Head(stack[exec]).op, next)>>)
  BY Zenon DEF SetThreadEffectivePriority
<1>2. next \in Threads \cup {None}
  BY DEF Inv, TypeOK
<1>3. CASE next = None
  <2>1. Return
    BY <1>1, <1>3 DEF Return
  <2> QED BY <1>3, <2>1 DEF Blocked
<1>4. CASE next # None
  <2>1. Blocked(u) /\ next = owner[waitMutex[u]]
    BY <1>4 DEF Blocked
  <2> HIDE DEF next
  <2> QED BY <1>1, <1>2, <1>4, <2>1
<1> QED BY <1>3, <1>4

\* Every step keeps the loans in order: who lends lends to the owner of a mutex.
LEMMA LendingStep ==
  ASSUME Inv, Inv', Lending, Owners, Next, "return" \notin Ops, ~MayEnd
  PROVE  Lending'
<1>1. /\ UnderIn(Settled) /\ exec \in Threads /\ exec' \in Threads /\ Common \subseteq Settled
      /\ owner \in [Mutexes -> Threads \cup {None}] /\ waitMutex \in [Threads -> Mutexes \cup {None}]
      /\ owned \in [Threads -> SUBSET Mutexes] /\ stack \in [Threads -> Seq(Frames)]
  BY SettledFrames DEF Lending, Inv, TypeOK
<1>2. \A u \in Threads : PropagateFrom(u) \in Seq(Settled)
  BY <1>1, SettledFrames, FrameSeqs DEF PropagateFrom
<1>3. ~At("promote") => AllIn(Settled)
  BY SettledTop
<1>4. ASSUME NEW f \in Settled, ~At("promote"), Call(<<f>>) PROVE Lending'
  BY <1>1, <1>3, <1>4, FrameSeqs, FramesCall, SettledStacks
<1>5. ASSUME stack[exec] # <<>>, Return PROVE Lending'
  BY <1>1, <1>5, FrameSeqs, FramesBecome, SettledStacks DEF Return
<1>6. ASSUME NEW u \in Threads, OSJoinThread(u) PROVE Lending'
  <2>1. ~At("promote")
    BY <1>6 DEF OSJoinThread, InThread, At
  <2>2. JoinQ(u) \in BlockQueues
    BY QueueNames
  <2>3. Frame("join", u) \in Settled /\ Frame("block", JoinQ(u)) \in Settled
    BY <1>1, <2>2, CommonFrames, SettledFrames
  <2>4. <<Frame("block", JoinQ(u)), Frame("join", u)>> \in Seq(Settled)
    BY <2>3, FrameSeqs
  <2>5. \/ Call(<<Frame("block", JoinQ(u)), Frame("join", u)>>)
        \/ Call(<<Frame("join", u)>>)
    BY <1>6, Zenon DEF OSJoinThread
  <2> QED BY <1>1, <1>3, <1>4, <2>1, <2>3, <2>4, <2>5, FramesCall, SettledStacks
<1>7. ASSUME NEW m \in Mutexes, OSLockMutex(m) PROVE Lending'
  <2>1. ~At("promote")
    BY <1>7 DEF OSLockMutex, InThread, At
  <2> QED BY <1>4, <1>7, <2>1, SettledFrames DEF OSLockMutex
<1>8. ASSUME NEW w \in WaitQueues, IdleEvent(w) PROVE Lending'
  <2>1. ~At("promote") /\ Call(<<Frame("wakeQuiet", WaitQ(w))>>)
    BY <1>8 DEF IdleEvent, At
  <2> QED BY <1>4, <2>1, QueueNames, SettledFrames
<1>9. CASE LockRound
  <2> DEFINE m == Arg
             f == Frame("promote", owner[m])
             g == Frame("block", MutexQ(m))
             s == stack[exec]
  <2>1. At("lock") /\ m \in Mutexes /\ exec' = exec /\ ~At("promote") /\ stack[exec] # <<>>
    BY <1>9, Now, FrameArgs DEF LockRound, Arg, At
  <2>2. \/ Return
        \/ /\ owner[m] \notin {None, exec} /\ owned' = owned
           /\ Call(<<Frame("promote", owner[m]), Frame("block", MutexQ(m))>>)
    BY <1>9 DEF LockRound, mutexVars
  <2>3. CASE Return
    BY <1>5, <2>1, <2>3
  <2>4. CASE /\ owner[m] \notin {None, exec} /\ owned' = owned
             /\ Call(<<Frame("promote", owner[m]), Frame("block", MutexQ(m))>>)
    <3>1. owner[m] \in Threads /\ owned'[owner[m]] # {}
      BY <1>1, <2>1, <2>4 DEF Owners
    <3>2. s \in Seq(Settled) /\ g \in Settled /\ f \in Frames /\ g \in Frames /\ s \in Seq(Frames)
      <4>1. s \in Seq(Settled) /\ s \in Seq(Frames)
        BY <1>1, <1>3, <2>1 DEF AllIn
      <4>2. g \in Settled /\ g \in Frames
        BY <2>1, QueueNames, SettledFrames DEF Settled
      <4>3. f \in Frames
        BY <3>1, FrameKinds
      <4> QED BY <4>1, <4>2, <4>3
    <3>3. stack' = [stack EXCEPT ![exec] = TwoOver(f, g, s)]
      BY <2>4 DEF Call, TwoOver
    <3> HIDE DEF f, g, s
    <3>4. TwoOver(f, g, s) = Pushed(f, Pushed(g, s))
      BY <3>2, TwoFrames
    <3> DEFINE r == Pushed(g, s)
    <3>5. r \in Seq(Settled)
      BY <3>2 DEF Pushed
    <3> HIDE DEF r
    <3>6. stack' = [stack EXCEPT ![exec] = Pushed(f, r)]
      BY <3>3, <3>4 DEF r
    <3>7. stack' = [stack EXCEPT ![exec] = Pushed(Frame("promote", owner[m]), r)]
      BY <3>6 DEF f
    <3>8. \A t \in Threads \ {exec} : stack[t] \in Seq(Settled)
      BY DEF Lending, UnderIn
    <3> HIDE DEF m
    <3> QED BY <2>1, <3>1, <3>5, <3>7, <3>8, LoanOnTop
  <2> QED BY <2>2, <2>3, <2>4
<1>10. ASSUME NEW u \in Threads, NEW p, SetThreadEffectivePriority(u, p)
       PROVE  \/ Return
              \/ /\ waitMutex[u] # None /\ owner[waitMutex[u]] \in Threads
                 /\ Become(<<Frame(Head(stack[exec]).op, owner[waitMutex[u]])>>)
  BY <1>10, Walk DEF Blocked
<1>11. CASE Promote
  <2>1. At("promote") /\ Arg \in Threads /\ stack[exec] # <<>> /\ exec' = exec /\ owned' = owned
        /\ Head(stack[exec]).op = "promote"
    BY <1>11, Now, FrameArgs DEF Promote, Arg, mutexVars
  <2>2. Return \/ SetThreadEffectivePriority(Arg, prio[exec])
    BY <1>11, Zenon DEF Promote
  <2>3. CASE Return
    BY <1>5, <2>1, <2>3
  <2>4. ASSUME NEW v \in Threads, NEW n \in Mutexes, owner[n] = v, Become(<<Frame("promote", v)>>)
        PROVE  Lending'
    <3> DEFINE r == Tail(stack[exec])
    <3>1. r \in Seq(Settled) /\ stack' = [stack EXCEPT ![exec] = Pushed(Frame("promote", v), r)]
      BY <2>1, <2>4 DEF Become, Pushed, Lending, UnderIn
    <3> HIDE DEF r
    <3>2. owned'[v] # {}
      BY <2>1, <2>4 DEF Owners
    <3>3. \A t \in Threads \ {exec} : stack[t] \in Seq(Settled)
      BY DEF Lending, UnderIn
    <3> QED BY <2>1, <3>1, <3>2, <3>3, LoanOnTop
  <2>5. CASE /\ waitMutex[Arg] # None /\ owner[waitMutex[Arg]] \in Threads
             /\ Become(<<Frame("promote", owner[waitMutex[Arg]])>>)
    <3>1. waitMutex[Arg] \in Mutexes
      BY <1>1, <2>1, <2>5
    <3> QED BY <2>4, <2>5, <3>1
  <2> QED BY <1>10, <2>1, <2>2, <2>3, <2>5
<1>12. CASE Propagate
  <2>1. At("propagate") /\ Arg \in Threads /\ stack[exec] # <<>> /\ exec' = exec
        /\ Head(stack[exec]).op = "propagate"
    BY <1>12, Now, FrameArgs DEF Propagate, Arg
  <2>2. Return \/ \E p : SetThreadEffectivePriority(Arg, p)
    BY <1>12, Zenon DEF Propagate
  <2>3. ASSUME NEW v \in Threads, Become(<<Frame("propagate", v)>>) PROVE Lending'
    BY <1>1, <2>1, <2>3, SettledFrames, FrameSeqs, FramesBecome, SettledStacks
  <2> QED BY <1>5, <1>10, <2>1, <2>2, <2>3
<1>13. CASE WakeOne
  <2>1. ~At("promote")
    BY <1>13 DEF WakeOne, At
  <2> QED BY <1>1, <1>3, <1>13, <2>1, FramesWake, SettledStacks
<1>14. CASE GuestCall /\ (\A u \in Threads : ~OSJoinThread(u)) /\ \A m \in Mutexes : ~OSLockMutex(m)
  BY <1>1, <1>2, <1>14, FramesGuest, SettledStacks
<1>15. CASE HandlerStep /\ ~LockRound /\ ~Promote /\ ~Propagate /\ ~WakeOne
  <2>1. ~UnlockAll
    BY DEF UnlockAll, Lending
  <2> QED BY <1>1, <1>15, <2>1, FramesHandler, SettledStacks
<1>16. CASE HostEvent /\ \A w \in WaitQueues : ~IdleEvent(w)
  BY <1>1, <1>2, <1>16, FramesHost, SettledStacks
<1> QED BY <1>6, <1>7, <1>8, <1>9, <1>11, <1>12, <1>13, <1>14, <1>15, <1>16 DEF Next

\* Every step keeps owner pointers and owned lists in agreement, while no thread ends.
LEMMA OwnersStep ==
  ASSUME Inv, Lending, Owners, Next, "return" \notin Ops, ~MayEnd
  PROVE  Owners'
<1>1. /\ owner \in [Mutexes -> Threads \cup {None}] /\ owned \in [Threads -> SUBSET Mutexes]
      /\ exec \in Threads /\ exec # None
  BY Now DEF Inv, TypeOK
<1> DEFINE Agree(o, l) == \A m \in Mutexes, t \in Threads : o[m] = t <=> m \in l[t]
<1>2. Agree(owner, owned)
  BY DEF Owners
<1>3. \A t \in Threads : Dead(t)' => owned'[t] = {}
  <2> TAKE t \in Threads
  <2>1. Dead(t)' => Dead(t)
    BY DeadStays DEF MayEnd, OSExitThread, OSCancelThread
  <2>2. Dead(t) => owned'[t] \subseteq owned[t]
    BY OwnedStays DEF Dead
  <2> QED BY <2>1, <2>2 DEF Owners
<1>4. CASE UNCHANGED mutexVars
  BY <1>2, <1>3, <1>4 DEF Owners, mutexVars
<1>5. ASSUME NEW m \in Mutexes, OSUnlockMutex(m) PROVE Agree(owner', owned')
  <2>1. /\ running = exec /\ owner[m] = exec
        /\ \/ UNCHANGED <<owner, owned>>
           \/ /\ owner' = [owner EXCEPT ![m] = None]
              /\ owned' = [owned EXCEPT ![exec] = owned[exec] \ {m}]
    BY <1>5, Now DEF OSUnlockMutex
  <2> QED BY <1>1, <1>2, <2>1, ConstantsOK
<1>6. CASE LockRound
  <2>1. Arg \in Mutexes
    BY <1>6, Now, FrameArgs DEF LockRound, Arg
  <2>2. \/ UNCHANGED <<owner, owned>>
        \/ /\ owner[Arg] = None /\ owner' = [owner EXCEPT ![Arg] = exec]
           /\ owned' = [owned EXCEPT ![exec] = @ \cup {Arg}]
    BY <1>6 DEF LockRound, mutexVars
  <2>3. UNCHANGED <<owner, owned>> => Agree(owner', owned')
    BY <1>2
  <2>4. ASSUME NEW m \in Mutexes, owner[m] = None, owner' = [owner EXCEPT ![m] = exec],
               owned' = [owned EXCEPT ![exec] = @ \cup {m}]
        PROVE  Agree(owner', owned')
    <3>1. ASSUME NEW n \in Mutexes, NEW t \in Threads PROVE owner'[n] = t <=> n \in owned'[t]
      <4>1. owner[n] = t <=> n \in owned[t]
        BY <1>2
      <4>2. owner'[n] = IF n = m THEN exec ELSE owner[n]
        BY <1>1, <2>4
      <4>3. owned'[t] = IF t = exec THEN owned[t] \cup {m} ELSE owned[t]
        BY <1>1, <2>4
      <4>4. owner[m] # t
        BY <2>4, ConstantsOK
      <4> QED BY <4>1, <4>2, <4>3, <4>4
    <3> QED BY <3>1
  <2>5. Agree(owner', owned')
    BY <2>1, <2>2, <2>3, <2>4
  <2> QED BY <1>3, <2>5 DEF Owners
<1>7. ASSUME NEW u \in Threads, NEW d, OSCreateThread(u, d) PROVE Agree(owner', owned')
  <2>1. state[u] = "none" /\ owner' = owner /\ owned' = [owned EXCEPT ![u] = {}]
    BY <1>7 DEF OSCreateThread
  <2>2. owned[u] = {}
    BY <2>1 DEF Owners, Dead
  <2> QED BY <1>1, <1>2, <2>1, <2>2
<1>8. ~UnlockAll
  BY DEF UnlockAll, Lending
<1>9. CASE GuestCall
  <2>1. \/ UNCHANGED mutexVars
        \/ \E u \in Threads, d \in Attrs : OSCreateThread(u, d)
        \/ \E m \in Mutexes : OSUnlockMutex(m)
    BY <1>9, NoReturn, Zenon DEF GuestCall, OSSuspendThread, OSResumeThread, Resume, OSCancelThread,
       OSJoinThread, OSDetachThread, OSSleepThread, Sleep, OSWakeupThread, OSLockMutex, OSSleepTicks,
       OSYieldThread, OSExitThread, HandlerBegins, HandlerEnds, DeferredEnds
  <2> QED BY <1>3, <1>4, <1>5, <1>7, <2>1 DEF Owners
<1>10. CASE HandlerStep
  <2>1. UNCHANGED mutexVars \/ LockRound
    BY <1>8, <1>10, NoReturn, Zenon DEF HandlerStep, SelectRefuses, SelectPreempts, SelectSwitches,
       Dispatch, SelectIdles, WakeOne, WakeDone, Block, Sleep, Slept, Promote, Propagate, Resched,
       TicksDone, ExitTail, WakeThreadJoiners, JoinDone
  <2> QED BY <1>3, <1>4, <1>6, <2>1 DEF Owners
<1>11. CASE HostEvent
  <2>1. UNCHANGED mutexVars
    BY <1>11, Zenon DEF HostEvent, IdleDispatches, Dispatch, IdleEvent, TimerFires, Resume
  <2> QED BY <1>4, <2>1
<1> QED BY <1>9, <1>10, <1>11 DEF Next

\* A step that touches the loan of one thread only.
LEMMA LentOne ==
  ASSUME Lent, NEW u, \A t \in Threads \ {u} : prio'[t] = prio[t] /\ suspend'[t] = suspend[t] /\ owned'[t] = owned[t],
         u \in Threads => Loan(prio'[u], suspend'[u], owned'[u], u)
  PROVE  Lent'
BY DEF Lent, Loan

\* A computed priority is lent by the waiters of the mutexes ms.
LEMMA LoanComputed ==
  ASSUME Inv, NEW u \in Threads, NEW qq \in [Queues -> Seq(Threads)], NEW ms \in SUBSET Mutexes, NEW s
  PROVE  Loan(EffectivePriority(u, qq, ms), s, ms, u)
<1>1. /\ EffectivePriority(u, qq, ms) \in Prios
      /\ EffectivePriority(u, qq, ms) <= BasePriority[u]
      /\ ms = {} => EffectivePriority(u, qq, ms) = BasePriority[u]
  BY EffectiveIsBest DEF Inv, TypeOK
<1> QED BY <1>1, ConstantsOK DEF Loan, Prios

\* SetThreadEffectivePriority changes the priority of a thread in use.
LEMMA LentPriority ==
  ASSUME Inv, Lent, NEW u \in Threads, NEW p, SetThreadEffectivePriority(u, p),
         UNCHANGED <<suspend, mutexVars>>, Loan(p, suspend[u], owned[u], u)
  PROVE  Lent'
<1>1. prio' = prio \/ prio' = [prio EXCEPT ![u] = p]
  BY Zenon DEF SetThreadEffectivePriority
<1>2. prio \in [Threads -> 0 .. NumPriorities] /\ suspend' = suspend /\ owned' = owned
  BY DEF Inv, TypeOK, mutexVars
<1> QED BY <1>1, <1>2 DEF Lent, Loan

\* Base priorities are numbers.
LEMMA BaseIsInt == \A t \in Threads : BasePriority[t] \in Int
BY ConstantsOK DEF Prios

\* OSSuspendThread parks the priority of a waiter and counts the suspension.
LEMMA LentSuspend ==
  ASSUME Inv, Lent, NEW u \in Threads, NEW rest, Suspend(u, rest), UNCHANGED mutexVars
  PROVE  Lent'
<1>1. /\ prio \in [Threads -> 0 .. NumPriorities] /\ suspend \in [Threads -> Nat] /\ owned' = owned
      /\ Loan(prio[u], suspend[u], owned[u], u)
  BY DEF Inv, TypeOK, mutexVars, Lent
<1>2. /\ suspend' = [suspend EXCEPT ![u] = @ + 1]
      /\ prio' = prio \/ prio' = [prio EXCEPT ![u] = SuspendedWaitPriority]
  BY Zenon DEF Suspend
<1>3. SuspendedWaitPriority >= BasePriority[u]
  BY ConstantsOK DEF SuspendedWaitPriority, Prios
<1>4. Loan(prio'[u], suspend'[u], owned'[u], u)
  BY <1>1, <1>2, <1>3 DEF Loan
<1>5. \A t \in Threads \ {u} : prio'[t] = prio[t] /\ suspend'[t] = suspend[t] /\ owned'[t] = owned[t]
  BY <1>1, <1>2
<1> QED BY <1>4, <1>5, LentOne

\* OSResumeThread computes the priority when it peels the last suspension.
LEMMA LentResume ==
  ASSUME Inv, Lent, NEW u \in Threads, Resume(u), UNCHANGED mutexVars
  PROVE  Lent'
<1> DEFINE free == RemoveThreadFromQueue(u)
           qq   == IF state[u] = "waiting" THEN free ELSE q
           p    == EffectivePriority(u, qq, owned[u])
<1>1. /\ prio \in [Threads -> 0 .. NumPriorities] /\ suspend \in [Threads -> Nat] /\ owned' = owned
      /\ Loan(prio[u], suspend[u], owned[u], u) /\ owned[u] \in SUBSET Mutexes
      /\ q \in [Queues -> Seq(Threads)] /\ queue \in [Threads -> Queues \cup {None}]
      /\ Consistent(state, suspend, prio, queue, q)
  BY DEF Inv, TypeOK, mutexVars, Lent
<1>2. /\ suspend' = [suspend EXCEPT ![u] = IF @ = 0 THEN 0 ELSE @ - 1]
      /\ \/ suspend[u] # 1 /\ prio' = prio
         \/ prio' = [prio EXCEPT ![u] = p]
  BY DEF Resume
<1>3. qq \in [Queues -> Seq(Threads)]
  BY <1>1, RemoveEffect
<1> HIDE DEF qq
<1>4. \A s : Loan(p, s, owned[u], u)
  BY <1>1, <1>3, LoanComputed
<1> HIDE DEF p
<1>5. Loan(prio'[u], suspend'[u], owned'[u], u)
  <2>1. suspend'[u] = IF suspend[u] = 0 THEN 0 ELSE suspend[u] - 1
    BY <1>1, <1>2
  <2>2. CASE suspend[u] # 1 /\ prio' = prio
    <3>1. suspend[u] > 0 => suspend'[u] > 0
      BY <1>1, <2>1, <2>2
    <3> QED BY <1>1, <2>2, <3>1 DEF Loan
  <2>3. CASE prio' = [prio EXCEPT ![u] = p]
    BY <1>1, <1>4, <2>3
  <2> QED BY <1>2, <2>2, <2>3
<1>6. \A t \in Threads \ {u} : prio'[t] = prio[t] /\ suspend'[t] = suspend[t] /\ owned'[t] = owned[t]
  BY <1>1, <1>2
<1> QED BY <1>5, <1>6, LentOne

\* OSUnlockMutex keeps a loan only for the mutexes it leaves.
LEMMA LentUnlock ==
  ASSUME Inv, Lent, NEW m \in Mutexes, OSUnlockMutex(m)
  PROVE  Lent'
<1> DEFINE rest == owned[exec] \ {m}
           p    == EffectivePriority(exec, q, rest)
<1>1. /\ running = exec /\ exec \in Threads /\ state[exec] = "running"
      /\ prio \in [Threads -> 0 .. NumPriorities] /\ owned \in [Threads -> SUBSET Mutexes]
      /\ q \in [Queues -> Seq(Threads)] /\ suspend' = suspend /\ suspend[exec] = 0
      /\ Loan(prio[exec], suspend[exec], owned[exec], exec)
  BY Now DEF OSUnlockMutex, Inv, TypeOK, Consistent, Lent
<1>2. \/ UNCHANGED <<owned, prio>>
      \/ /\ owned' = [owned EXCEPT ![exec] = rest]
         /\ prio' = IF prio[exec] < BasePriority[exec] THEN [prio EXCEPT ![exec] = p] ELSE prio
  BY <1>1 DEF OSUnlockMutex
<1>3. Loan(p, suspend[exec], rest, exec)
  BY <1>1, LoanComputed
<1>4. prio[exec] \in Int /\ BasePriority[exec] \in Int
  BY <1>1, ConstantsOK DEF Prios
<1>5. ~(prio[exec] < BasePriority[exec]) => Loan(prio[exec], suspend[exec], rest, exec)
  BY <1>1, <1>4 DEF Loan
<1> HIDE DEF rest, p
<1>6. Loan(prio'[exec], suspend'[exec], owned'[exec], exec)
  <2>1. CASE UNCHANGED <<owned, prio>>
    BY <1>1, <2>1
  <2>2. CASE /\ owned' = [owned EXCEPT ![exec] = rest]
             /\ prio' = IF prio[exec] < BasePriority[exec] THEN [prio EXCEPT ![exec] = p] ELSE prio
    <3>1. owned'[exec] = rest /\ prio'[exec] = IF prio[exec] < BasePriority[exec] THEN p ELSE prio[exec]
      BY <1>1, <2>2
    <3> QED BY <1>1, <1>3, <1>5, <3>1
  <2> QED BY <1>2, <2>1, <2>2
<1>7. \A t \in Threads \ {exec} : prio'[t] = prio[t] /\ suspend'[t] = suspend[t] /\ owned'[t] = owned[t]
  BY <1>1, <1>2
<1> QED BY <1>6, <1>7, LentOne

\* PromoteThreadPriority lends to a thread that owns a mutex what is more urgent.
LEMMA LentPromote ==
  ASSUME Inv, Lending, Lent, Promote
  PROVE  Lent'
<1>1. At("promote") /\ Arg \in Threads /\ owned[Arg] # {} /\ exec \in Threads
      /\ suspend' = suspend /\ mutexVars' = mutexVars
  BY Now, FrameArgs DEF Promote, Arg, Lending
<1>2. /\ prio \in [Threads -> 0 .. NumPriorities] /\ suspend \in [Threads -> Nat]
      /\ BasePriority[Arg] \in Int
  BY <1>1, BaseIsInt DEF Inv, TypeOK
<1>3. \/ prio' = prio
      \/ ~PromoteStops(Arg) /\ SetThreadEffectivePriority(Arg, prio[exec])
  BY Zenon DEF Promote
<1>4. CASE prio' = prio
  BY <1>1, <1>4 DEF Lent, mutexVars
<1>5. CASE ~PromoteStops(Arg) /\ SetThreadEffectivePriority(Arg, prio[exec])
  <2> DEFINE u == Arg
  <2>1. u \in Threads /\ owned[u] # {} /\ SetThreadEffectivePriority(u, prio[exec])
        /\ ~(suspend[u] > 0) /\ ~(prio[u] <= prio[exec]) /\ BasePriority[u] \in Int
    BY <1>1, <1>2, <1>5 DEF PromoteStops
  <2> HIDE DEF u
  <2>2. prio[u] <= BasePriority[u]
    BY <2>1 DEF Lent, Loan
  <2>3. Loan(prio[exec], suspend[u], owned[u], u)
    BY <1>1, <1>2, <2>1, <2>2 DEF Loan
  <2> QED BY <1>1, <2>1, <2>3, LentPriority
<1> QED BY <1>3, <1>4, <1>5

\* PropagateMutexOwnerPriority computes what the waiters lend.
LEMMA LentPropagate ==
  ASSUME Inv, Lent, Propagate
  PROVE  Lent'
<1> DEFINE p == EffectivePriority(Arg, q, owned[Arg])
<1>1. At("propagate") /\ Arg \in Threads /\ suspend' = suspend /\ mutexVars' = mutexVars
  BY Now, FrameArgs DEF Propagate, Arg
<1>2. q \in [Queues -> Seq(Threads)] /\ owned[Arg] \in SUBSET Mutexes
  BY <1>1 DEF Inv, TypeOK
<1>3. Loan(p, suspend[Arg], owned[Arg], Arg)
  BY <1>1, <1>2, LoanComputed
<1>4. prio' = prio \/ SetThreadEffectivePriority(Arg, p)
  BY Zenon DEF Propagate
<1> HIDE DEF p
<1>5. CASE prio' = prio
  BY <1>1, <1>5 DEF Lent, mutexVars
<1> QED BY <1>1, <1>3, <1>4, <1>5, LentPriority

\* Every step keeps what is lent owed to the waiters of an owned mutex.
LEMMA LentStep ==
  ASSUME Inv, Lending, Lent, Next, "return" \notin Ops
  PROVE  Lent'
<1>1. /\ prio \in [Threads -> 0 .. NumPriorities] /\ owned \in [Threads -> SUBSET Mutexes]
      /\ exec \in Threads
  BY DEF Inv, TypeOK
<1>2. CASE UNCHANGED <<prio, suspend, owned>>
  BY <1>2 DEF Lent
<1>3. ASSUME NEW u \in Threads, OSResumeThread(u) \/ (TimerFires(u) /\ Resume(u)) PROVE Lent'
  BY <1>3, LentResume DEF OSResumeThread, TimerFires, Resume
<1>4. ASSUME NEW u \in Threads, OSSuspendThread(u) PROVE Lent'
  BY <1>4, LentSuspend DEF OSSuspendThread
<1>5. ASSUME NEW u \in Threads, NEW d, OSCreateThread(u, d) PROVE Lent'
  <2>1. /\ suspend' = [suspend EXCEPT ![u] = 1] /\ prio' = [prio EXCEPT ![u] = BasePriority[u]]
        /\ owned' = [owned EXCEPT ![u] = {}]
    BY <1>5 DEF OSCreateThread
  <2>2. prio'[u] = BasePriority[u] /\ BasePriority[u] \in Int
    BY <1>1, <2>1, BaseIsInt
  <2>3. Loan(prio'[u], suspend'[u], owned'[u], u)
    BY <2>2 DEF Loan
  <2>4. \A t \in Threads \ {u} : prio'[t] = prio[t] /\ suspend'[t] = suspend[t] /\ owned'[t] = owned[t]
    BY <1>1, <2>1 DEF Inv, TypeOK
  <2> QED BY <2>3, <2>4, LentOne
<1>6. CASE OSSleepTicks
  <2>1. running \in Threads
    BY <1>6 DEF OSSleepTicks, Inv, TypeOK
  <2> QED BY <1>6, <2>1, LentSuspend DEF OSSleepTicks
<1>7. CASE TicksDone
  <2>1. suspend[exec] = 0
    BY <1>7, RunsItself DEF TicksDone, Inv, Consistent
  <2> QED BY <1>2, <1>7, <2>1 DEF TicksDone, mutexVars
<1>8. CASE LockRound
  <2>1. prio' = prio /\ suspend' = suspend
        /\ (owned' = owned \/ owned' = [owned EXCEPT ![exec] = @ \cup {Arg}])
    BY <1>8 DEF LockRound, mutexVars
  <2>2. \A t \in Threads : owned[t] \subseteq owned'[t]
    BY <1>1, <2>1
  <2> QED BY <2>1, <2>2 DEF Lent, Loan
<1>9. CASE GuestCall
  <2>1. \/ UNCHANGED <<prio, suspend, owned>>
        \/ \E u \in Threads : \/ OSSuspendThread(u)
                              \/ OSResumeThread(u)
                              \/ \E d \in Attrs : OSCreateThread(u, d)
        \/ \E m \in Mutexes : OSUnlockMutex(m)
        \/ OSSleepTicks
    BY <1>9, NoReturn, Zenon DEF GuestCall, OSCancelThread, OSJoinThread, OSDetachThread, OSSleepThread,
       Sleep, OSWakeupThread, OSLockMutex, OSYieldThread, OSExitThread, HandlerBegins, HandlerEnds, DeferredEnds,
       threadVars, mutexVars
  <2> QED BY <1>2, <1>3, <1>4, <1>5, <1>6, <2>1, LentUnlock
<1>10. CASE HandlerStep
  <2>1. ~UnlockAll
    BY DEF UnlockAll, Lending
  <2>2. UNCHANGED <<prio, suspend, owned>> \/ Promote \/ Propagate \/ TicksDone \/ LockRound
    BY <1>10, <2>1, NoReturn, Zenon DEF HandlerStep, SelectRefuses, SelectPreempts, SelectSwitches,
       Dispatch, SelectIdles, WakeOne, WakeDone, Block, Sleep, Slept, Resched, ExitTail,
       WakeThreadJoiners, JoinDone, threadVars, mutexVars
  <2> QED BY <1>2, <1>7, <1>8, <2>2, LentPromote, LentPropagate
<1>11. CASE HostEvent
  <2>1. UNCHANGED <<prio, suspend, owned>> \/ \E u \in Threads : TimerFires(u) /\ Resume(u)
    BY <1>11, Zenon DEF HostEvent, IdleDispatches, Dispatch, IdleEvent, TimerFires, threadVars, mutexVars
  <2> QED BY <1>2, <1>3, <2>1
<1> QED BY <1>9, <1>10, <1>11 DEF Next

\* What holds of mutexes while no thread ends.
LEMMA LoansHold ==
  ASSUME "return" \notin Ops, ~MayEnd
  PROVE  Spec => [](Inv /\ Lending /\ Owners /\ Lent)
<1>1. Init => Inv /\ Lending /\ Owners /\ Lent
  <2> SUFFICES ASSUME Init PROVE Inv /\ Lending /\ Owners /\ Lent
    OBVIOUS
  <2>1. Inv /\ exec \in Threads /\ AllIn(Settled)
    BY InitInv, FrameSeqs, ConstantsOK DEF Init, AllIn
  <2>2. Lending
    BY <2>1, AllUnder DEF Lending, At, Init
  <2>3. Owners
    BY ConstantsOK DEF Owners, Init
  <2>4. \A t \in Threads : prio[t] = BasePriority[t]
    BY DEF Init
  <2>5. Lent
    BY <2>4, BaseIsInt DEF Lent, Loan
  <2> QED BY <2>1, <2>2, <2>3, <2>5
<1>2. Inv /\ Lending /\ Owners /\ Lent /\ [Next]_vars => (Inv /\ Lending /\ Owners /\ Lent)'
  <2> SUFFICES ASSUME Inv, Lending, Owners, Lent, [Next]_vars
               PROVE  (Inv /\ Lending /\ Owners /\ Lent)'
    OBVIOUS
  <2>1. CASE Next
    <3>1. Inv'
      BY <2>1, NextInv
    <3> QED BY <2>1, <3>1, LendingStep, OwnersStep, LentStep
  <2>2. CASE UNCHANGED vars
    <3>1. Inv' /\ UNCHANGED <<state, suspend, prio, owned, owner, exec, stack>>
      BY <2>2, StutterInv DEF vars, threadVars, mutexVars, hostVars
    <3>2. Lending' /\ Owners' /\ Lent'
      BY <3>1 DEF Lending, UnderIn, Settled, At, Arg, Owners, Dead, Lent
    <3> QED BY <3>1, <3>2
  <2> QED BY <2>1, <2>2
<1> QED BY <1>1, <1>2, PTL DEF Spec

\* A thread that owns no mutex has its base priority, or is a suspended waiter:
\* OSUnlockMutex returns what PromoteThreadPriority lent, however loans chained.
\* With a thread that ends this fails: a mutex that outlives its owner keeps it,
\* and the structure, created again, takes loans for a mutex it does not own.
THEOREM LoansReturn ==
  ASSUME "return" \notin Ops, "exit" \notin Ops, "cancel" \notin Ops
  PROVE  Spec => []PriorityReturned
<1>1. Lent /\ Inv => PriorityReturned
  <2> SUFFICES ASSUME Lent, Inv, NEW t \in Threads, owned[t] = {}
               PROVE  \/ prio[t] = BasePriority[t]
                      \/ prio[t] = SuspendedWaitPriority /\ suspend[t] > 0
    BY DEF PriorityReturned
  <2>1. prio[t] \in Int /\ BasePriority[t] \in Int
    BY BaseIsInt DEF Inv, TypeOK
  <2> QED BY <2>1 DEF Lent, Loan
<1>2. Inv /\ Lending /\ Owners /\ Lent => PriorityReturned
  BY <1>1
<1>3. Spec => [](Inv /\ Lending /\ Owners /\ Lent)
  BY LoansHold DEF MayEnd
<1> QED BY <1>2, <1>3, PTL
-----------------------------------------------------------------------------
(* Priorities inherited through chains of owners, while no thread ends or joins. *)

\* Frames that may lie under a loan, which in turn lies on the sleep it precedes.
Bare == {f \in Frames : f.op \notin {"promote", "unlockAll", "block"}}

\* A stack whose thread is about to sleep on mutex m, maybe lending first.
BlocksOn(s, m) ==
  \E r \in Seq(Bare) :
    \/ s = Pushed(Frame("block", MutexQ(m)), r)
    \/ \E u \in Threads : s = Pushed(Frame("promote", u), Pushed(Frame("block", MutexQ(m)), r))

\* Mutex m has another owner, at least as urgent as the thread that wants it,
\* unless the owner is suspended or the loan is about to reach it.
Wanted(m) ==
  /\ waitMutex[exec] = m /\ owner[m] \notin {None, exec}
  /\ \/ suspend[owner[m]] > 0
     \/ prio[owner[m]] <= prio[exec]
     \/ At("promote") /\ Arg = owner[m]

Blocks ==
  /\ \A t \in Threads \ {exec} : stack[t] \in Seq(Bare)
  /\ stack[exec] \in Seq(Bare) \/ \E m \in Mutexes : Wanted(m) /\ BlocksOn(stack[exec], m)

\* Who waits in the queue of a mutex is recorded to wait for it and does not own it.
Waiters ==
  \A m \in Mutexes : \A u \in Elems(q[MutexQ(m)]) : waitMutex[u] = m /\ owner[m] # u

\* A mutex without owner keeps waiters only while they are woken.
Released ==
  \A m \in Mutexes : owner[m] = None /\ q[MutexQ(m)] # <<>> =>
    stack[exec] # <<>> /\ Head(stack[exec]) \in {Frame("wake", MutexQ(m)), Frame("wakeMore", MutexQ(m))}

\* A walk over the owners is about to give v the priority of its waiter u.
Walks(v, u) ==
  \/ At("propagate") /\ Arg = v
  \/ At("promote") /\ Arg = v /\ prio[exec] <= prio[u]

\* The owner of mutex m, if not suspended, is as urgent as each of its waiters,
\* or is about to become so.
Lends(m) ==
  owner[m] # None /\ suspend[owner[m]] = 0 =>
    \A u \in Elems(q[MutexQ(m)]) : prio[owner[m]] <= prio[u] \/ Walks(owner[m], u)

Inherits == \A m \in Mutexes : Lends(m)

\* A frame called on top of a stack.
LEMMA PushedTop ==
  ASSUME NEW T, NEW f \in T, NEW s \in Seq(T)
  PROVE  /\ Pushed(f, s) \in Seq(T) /\ Pushed(f, s) # <<>>
         /\ Head(Pushed(f, s)) = f /\ Tail(Pushed(f, s)) = s
BY DEF Pushed

\* Nothing but the sleep, the loan or the wake-up on top of the stack can run.
LEMMA OnlyTop ==
  ASSUME Inv, Next, "return" \notin Ops,
         NEW op \in {"block", "lock", "promote", "propagate", "wake", "wakeMore"}, At(op)
  PROVE  /\ op = "block" => Block
         /\ op = "lock" => LockRound
         /\ op = "promote" => Promote
         /\ op = "propagate" => Propagate
         /\ op \in {"wake", "wakeMore"} => WakeOne \/ WakeDone
<1>1. \A o : At(o) => o = op
  BY DEF At
<1>2. ~InThread /\ ~InHandler /\ ~InGuest
  <2>1. op # "handler"
    OBVIOUS
  <2> QED BY <1>1, <2>1 DEF InThread, InHandler, InGuest, At
<1>3. ~GuestCall
  <2>1. ~At("handler")
    BY <1>1
  <2> QED BY <1>2, <2>1, NoReturn, Zenon DEF GuestCall, OSSuspendThread, OSResumeThread, OSCancelThread,
       OSJoinThread, OSDetachThread, OSCreateThread, OSSleepThread, OSWakeupThread, OSLockMutex,
       OSUnlockMutex, OSSleepTicks, OSYieldThread, OSExitThread, HandlerBegins, HandlerEnds, DeferredEnds, Calls
<1>4. ~At("select") /\ ~At("yield") /\ ~At("idle") /\ ~At("slept") /\ ~At("resched") /\ ~At("ticks")
      /\ ~At("exitTail") /\ ~At("unlockAll") /\ ~At("joiners") /\ ~At("join")
  BY <1>1
<1>5. HandlerStep => Block \/ LockRound \/ Promote \/ Propagate \/ WakeOne \/ WakeDone
  BY <1>4, NoReturn, Zenon DEF HandlerStep, SelectRefuses, SelectPreempts, SelectSwitches,
     SelectIdles, AtSelect, Slept, Resched, TicksDone, ExitTail,
     UnlockAll, WakeThreadJoiners, JoinDone
<1>6. ~HostEvent
  BY <1>4, Zenon DEF HostEvent, IdleDispatches, IdleEvent, TimerFires, AtSelect
<1>7. Block \/ LockRound \/ Promote \/ Propagate \/ WakeOne \/ WakeDone
  BY <1>3, <1>5, <1>6 DEF Next
<1>8. WakeOne \/ WakeDone => op \notin {"block", "lock", "promote", "propagate"}
  <2>1. WakeOne \/ WakeDone => At("wake") \/ At("wakeMore") \/ At("wakeQuiet") \/ At("wakeReturn")
    BY Zenon DEF WakeOne, WakeDone
  <2> QED BY <1>1, <2>1
<1>9. /\ Block => op = "block"
      /\ LockRound => op = "lock"
      /\ Promote => op = "promote"
      /\ Propagate => op = "propagate"
  BY <1>1 DEF Block, LockRound, Promote, Propagate
<1> QED BY <1>7, <1>8, <1>9

\* A step after which nobody lends or is about to block.
LEMMA BareStacks ==
  ASSUME AllIn(Bare)', exec' \in Threads
  PROVE  Blocks'
BY DEF AllIn, Blocks

\* The frames of guests that join nobody are bare but for the sleep on a mutex.
LEMMA BareFrames ==
  /\ Common \subseteq Bare /\ Bare \subseteq Frames
  /\ \A t \in Threads : Frame("propagate", t) \in Bare
  /\ \A m \in Mutexes : Frame("lock", m) \in Bare
  /\ \A x \in BlockQueues : Frame("wakeQuiet", x) \in Bare
<1>1. Common \subseteq Bare /\ Bare \subseteq Frames
  BY DEF Common, Frame, Frames, Bare
<1>2. \A t \in Threads : Frame("propagate", t) \in Bare
  BY DEF Frame, Frames, Bare
<1>3. \A m \in Mutexes : Frame("lock", m) \in Bare
  BY DEF Frame, Frames, Bare
<1>4. \A x \in BlockQueues : Frame("wakeQuiet", x) \in Bare
  BY DEF Frame, Frames, Bare
<1> QED BY <1>1, <1>2, <1>3, <1>4

\* While nobody lends or is about to block, only OSLockMutex ends that.
LEMMA BareStep ==
  ASSUME Inv, AllIn(Bare), Next, "return" \notin Ops, "join" \notin Ops, ~MayEnd, ~LockRound
  PROVE  AllIn(Bare)'
<1>1. /\ UnderIn(Bare) /\ exec \in Threads /\ Common \subseteq Bare
      /\ owner \in [Mutexes -> Threads \cup {None}] /\ waitMutex \in [Threads -> Mutexes \cup {None}]
  BY Now, AllUnder, BareFrames DEF Inv, TypeOK
<1>2. \A u \in Threads : PropagateFrom(u) \in Seq(Bare)
  BY <1>1, BareFrames, FrameSeqs DEF PropagateFrom
<1>3. ~At("promote") /\ ~At("block") /\ ~At("unlockAll")
  <2>1. stack[exec] \in Seq(Bare)
    BY <1>1 DEF AllIn
  <2>2. stack[exec] # <<>> => Head(stack[exec]) \in Bare
    BY <2>1
  <2> QED BY <2>2 DEF At, Bare
<1>4. ASSUME NEW f \in Bare, Call(<<f>>) PROVE AllIn(Bare)'
  BY <1>4, FrameSeqs, FramesCall
<1>5. \A u \in Threads : ~OSJoinThread(u)
  BY DEF OSJoinThread
<1>6. ASSUME NEW m \in Mutexes, OSLockMutex(m) PROVE AllIn(Bare)'
  BY <1>4, <1>6, BareFrames DEF OSLockMutex
<1>7. ASSUME NEW w \in WaitQueues, IdleEvent(w) PROVE AllIn(Bare)'
  <2>1. Frame("wakeQuiet", WaitQ(w)) \in Bare
    BY QueueNames, BareFrames
  <2> QED BY <1>4, <1>7, <2>1 DEF IdleEvent
<1>8. CASE WakeOne
  BY <1>1, <1>8, FramesWake
<1>9. CASE Propagate
  <2>1. At("propagate") /\ Arg \in Threads /\ stack[exec] # <<>> /\ Head(stack[exec]).op = "propagate"
    BY <1>9, Now, FrameArgs DEF Propagate, Arg
  <2>2. Return \/ \E p : SetThreadEffectivePriority(Arg, p)
    BY <1>9, Zenon DEF Propagate
  <2>3. Return \/ \E v \in Threads : Become(<<Frame("propagate", v)>>)
    BY <2>1, <2>2, Walk
  <2>4. ASSUME NEW v \in Threads, Become(<<Frame("propagate", v)>>) PROVE AllIn(Bare)'
    BY <1>1, <2>1, <2>4, BareFrames, FrameSeqs, FramesBecome
  <2>5. CASE Return
    BY <1>1, <2>1, <2>5, FrameSeqs, FramesBecome DEF Return
  <2> QED BY <2>3, <2>4, <2>5
<1>10. CASE GuestCall /\ \A m \in Mutexes : ~OSLockMutex(m)
  BY <1>1, <1>2, <1>5, <1>10, FramesGuest
<1>11. CASE HandlerStep /\ ~Propagate /\ ~WakeOne
  <2>1. ~Promote /\ ~UnlockAll
    BY <1>3 DEF Promote, UnlockAll
  <2> QED BY <1>1, <1>11, <2>1, FramesHandler
<1>12. CASE HostEvent /\ \A w \in WaitQueues : ~IdleEvent(w)
  BY <1>1, <1>2, <1>12, FramesHost
<1> QED BY <1>6, <1>7, <1>8, <1>9, <1>10, <1>11, <1>12 DEF Next

\* A thread that waits for mutex m is about to sleep, maybe after a loan.
LEMMA BlocksSoon ==
  ASSUME Inv, NEW m \in Mutexes, NEW r \in Seq(Bare), exec' = exec, Wanted(m)',
         NEW s, stack' = [stack EXCEPT ![exec] = s],
         \/ s = Pushed(Frame("block", MutexQ(m)), r)
         \/ \E u \in Threads : s = Pushed(Frame("promote", u), Pushed(Frame("block", MutexQ(m)), r)),
         \A t \in Threads \ {exec} : stack[t] \in Seq(Bare)
  PROVE  Blocks'
<1>1. exec \in Threads /\ stack \in [Threads -> Seq(Frames)]
  BY DEF Inv, TypeOK
<1>2. stack'[exec'] = s /\ \A t \in Threads \ {exec'} : stack'[t] \in Seq(Bare)
  BY <1>1
<1>3. BlocksOn(stack'[exec'], m)
  BY <1>2 DEF BlocksOn
<1>4. BlocksOn(stack[exec], m)'
  BY <1>3 DEF BlocksOn
<1> QED BY <1>2, <1>4 DEF Blocks

\* OSLockMutex that finds another owner is about to lend and to sleep.
LEMMA LockBlocks ==
  ASSUME Inv, AllIn(Bare), LockRound
  PROVE  Blocks'
<1>1. /\ Arg \in Mutexes /\ exec \in Threads /\ exec' = exec /\ stack[exec] # <<>> /\ UnderIn(Bare)
      /\ owner \in [Mutexes -> Threads \cup {None}] /\ waitMutex \in [Threads -> Mutexes \cup {None}]
      /\ stack[exec] \in Seq(Bare)
  BY Now, AllUnder, FrameArgs DEF LockRound, Arg, At, Inv, TypeOK, AllIn
<1>2. CASE Return
  BY <1>1, <1>2, FrameSeqs, FramesBecome, BareStacks DEF Return
<1>3. ASSUME NEW m \in Mutexes, NEW v \in Threads, NEW s \in Seq(Bare), v # exec, owner[m] = v,
             owner' = owner, waitMutex' = [waitMutex EXCEPT ![exec] = m],
             stack' = [stack EXCEPT ![exec] = TwoOver(Frame("promote", v), Frame("block", MutexQ(m)), s)]
      PROVE  Blocks'
  <2> DEFINE f == Frame("promote", v)
             g == Frame("block", MutexQ(m))
             r == Pushed(g, s)
             s2 == Pushed(f, r)
  <2>1. s \in Seq(Frames) /\ f \in Frames /\ g \in Frames
    <3>1. s \in Seq(Frames)
      BY BareFrames
    <3>2. f \in Frames /\ g \in Frames
      BY QueueNames, FrameKinds
    <3> QED BY <3>1, <3>2
  <2>2. f.op = "promote" /\ f.arg = v
    BY DEF Frame
  <2>3. \E u \in Threads : s2 = Pushed(Frame("promote", u), Pushed(Frame("block", MutexQ(m)), s))
    OBVIOUS
  <2>4. stack' = [stack EXCEPT ![exec] = TwoOver(f, g, s)]
    BY <1>3
  <2> HIDE DEF f, g
  <2>5. TwoOver(f, g, s) = s2
    BY <2>1, TwoFrames
  <2>6. r \in Seq(Frames)
    BY <2>1, PushedTop
  <2> HIDE DEF r
  <2>7. s2 # <<>> /\ Head(s2) = f
    BY <2>1, <2>6, PushedTop
  <2> HIDE DEF s2
  <2>8. stack' = [stack EXCEPT ![exec] = s2]
    BY <2>4, <2>5
  <2>9. stack'[exec'] = s2
    BY <1>1, <2>8 DEF Inv, TypeOK
  <2>10. At("promote")' /\ Arg' = v
    BY <2>2, <2>7, <2>9 DEF At, Arg
  <2>11. waitMutex'[exec'] = m /\ owner'[m] = v /\ v \notin {None, exec'}
    BY <1>1, <1>3, ConstantsOK
  <2>12. Wanted(m)'
    BY <2>10, <2>11 DEF Wanted
  <2>13. \A t \in Threads \ {exec} : stack[t] \in Seq(Bare)
    BY DEF AllIn
  <2> QED BY <1>1, <2>3, <2>8, <2>12, <2>13, BlocksSoon
<1>4. \/ Return
      \/ /\ owner[Arg] \notin {None, exec} /\ owner' = owner
         /\ waitMutex' = [waitMutex EXCEPT ![exec] = Arg]
         /\ stack' = [stack EXCEPT ![exec] =
                        TwoOver(Frame("promote", owner[Arg]), Frame("block", MutexQ(Arg)), stack[exec])]
  BY DEF LockRound, mutexVars, Call, TwoOver
<1>5. owner[Arg] \in Threads \cup {None}
  BY <1>1
<1> QED BY <1>1, <1>2, <1>3, <1>4, <1>5

\* The frame on top of s returns, or becomes frame g.
LEMMA PoppedTop ==
  ASSUME NEW f \in Frames, NEW s \in Seq(Frames), stack[exec] = Pushed(f, s)
  PROVE  /\ Return => stack' = [stack EXCEPT ![exec] = s]
         /\ \A g : Become(<<g>>) => stack' = [stack EXCEPT ![exec] = Pushed(g, s)]
<1>1. Tail(stack[exec]) = s
  BY PushedTop
<1>2. <<>> \o s = s
  OBVIOUS
<1> QED BY <1>1, <1>2 DEF Return, Become, Pushed

\* What one step of PromoteThreadPriority does.
LEMMA PromoteEffect ==
  ASSUME Inv, Lending, Owners, Promote
  PROVE  /\ At("promote") /\ Arg \in Threads /\ exec \in Threads /\ Head(stack[exec]).op = "promote"
         /\ prio \in [Threads -> 0 .. NumPriorities] /\ suspend \in [Threads -> Nat]
         /\ UNCHANGED <<suspend, waitMutex, owner, owned, exec>>
         /\ \/ PromoteStops(Arg) /\ prio' = prio /\ Return
            \/ /\ ~PromoteStops(Arg) /\ prio' = [prio EXCEPT ![Arg] = prio[exec]]
               /\ \/ ~Blocked(Arg) /\ Return
                  \/ /\ Blocked(Arg) /\ owner[waitMutex[Arg]] \in Threads
                     /\ Become(<<Frame("promote", owner[waitMutex[Arg]])>>)
<1>1. /\ At("promote") /\ Arg \in Threads /\ exec \in Threads /\ Head(stack[exec]).op = "promote"
      /\ UNCHANGED <<suspend, waitMutex, owner, owned, exec>>
  BY Now, FrameArgs DEF Promote, Arg, At, mutexVars
<1>2. prio \in [Threads -> 0 .. NumPriorities] /\ suspend \in [Threads -> Nat]
  BY DEF Inv, TypeOK
<1>3. \/ PromoteStops(Arg) /\ prio' = prio /\ Return
      \/ ~PromoteStops(Arg) /\ SetThreadEffectivePriority(Arg, prio[exec])
  BY Zenon DEF Promote
<1>4. ~Dead(Arg)
  BY <1>1 DEF Lending, Owners
<1>5. SetThreadEffectivePriority(Arg, prio[exec]) => prio' = [prio EXCEPT ![Arg] = prio[exec]]
  BY <1>4 DEF SetThreadEffectivePriority
<1>6. CASE ~PromoteStops(Arg) /\ SetThreadEffectivePriority(Arg, prio[exec])
  <2>1. \/ ~Blocked(Arg) /\ Return
        \/ /\ Blocked(Arg) /\ owner[waitMutex[Arg]] \in Threads
           /\ Become(<<Frame("promote", owner[waitMutex[Arg]])>>)
    BY <1>1, <1>6, Walk
  <2> QED BY <1>1, <1>2, <1>5, <1>6, <2>1
<1> QED BY <1>1, <1>2, <1>3, <1>6

\* Who is about to sleep on a mutex has lent its owner enough when the loan ends.
LEMMA PromoteBlocks ==
  ASSUME Inv, Lending, Owners, Promote, NEW m \in Mutexes, Wanted(m), NEW u \in Threads,
         NEW r \in Seq(Bare), stack[exec] = Pushed(Frame("promote", u), Pushed(Frame("block", MutexQ(m)), r)),
         \A t \in Threads \ {exec} : stack[t] \in Seq(Bare)
  PROVE  Blocks'
<1> DEFINE f == Frame("promote", u)
           g == Frame("block", MutexQ(m))
           s == Pushed(g, r)
<1>1. /\ At("promote") /\ Arg \in Threads /\ exec \in Threads /\ Head(stack[exec]).op = "promote"
      /\ prio \in [Threads -> 0 .. NumPriorities] /\ suspend \in [Threads -> Nat]
      /\ UNCHANGED <<suspend, waitMutex, owner, owned, exec>>
  BY PromoteEffect
<1>2. r \in Seq(Frames) /\ f \in Frames /\ g \in Frames
  <2>1. r \in Seq(Frames)
    BY BareFrames
  <2>2. f \in Frames /\ g \in Frames
    BY QueueNames, FrameKinds
  <2> QED BY <2>1, <2>2
<1>3. Frame("block", MutexQ(m)) = g /\ Pushed(Frame("block", MutexQ(m)), r) = s
  OBVIOUS
<1>4. stack[exec] = Pushed(f, s)
  OBVIOUS
<1>5. s \in Seq(Frames)
  <2> HIDE DEF g
  <2> QED BY <1>2, PushedTop
<1> HIDE DEF s
<1>6. Return => stack' = [stack EXCEPT ![exec] = s]
  <2> HIDE DEF f
  <2> QED BY <1>2, <1>4, <1>5, PoppedTop
<1>7. \A v : Become(<<Frame("promote", v)>>) => stack' = [stack EXCEPT ![exec] = Pushed(Frame("promote", v), s)]
  <2> HIDE DEF f
  <2> QED BY <1>2, <1>4, <1>5, PoppedTop
<1>8. owner[m] \in Threads /\ owner[m] # exec
  BY DEF Wanted, Inv, TypeOK
<1>9. CASE PromoteStops(Arg) /\ prio' = prio /\ Return
  <2>1. suspend[owner[m]] > 0 \/ prio[owner[m]] <= prio[exec]
    BY <1>9 DEF Wanted, PromoteStops
  <2>2. Wanted(m)'
    BY <1>1, <1>9, <2>1 DEF Wanted
  <2>3. stack' = [stack EXCEPT ![exec] = s] /\ s = Pushed(Frame("block", MutexQ(m)), r)
    BY <1>3, <1>6, <1>9
  <2> HIDE DEF g
  <2> QED BY <1>1, <2>2, <2>3, BlocksSoon
<1>10. CASE /\ ~PromoteStops(Arg) /\ prio' = [prio EXCEPT ![Arg] = prio[exec]]
            /\ \/ ~Blocked(Arg) /\ Return
               \/ /\ Blocked(Arg) /\ owner[waitMutex[Arg]] \in Threads
                  /\ Become(<<Frame("promote", owner[waitMutex[Arg]])>>)
  <2>1. prio'[exec] = prio[exec] /\ Arg # exec
    BY <1>1, <1>10 DEF PromoteStops
  <2>2. suspend[owner[m]] > 0 \/ prio'[owner[m]] <= prio[exec]
    <3>1. CASE owner[m] = Arg
      BY <1>1, <1>10, <3>1
    <3>2. CASE owner[m] # Arg
      BY <1>1, <1>8, <1>10, <3>2 DEF Wanted
    <3> QED BY <3>1, <3>2
  <2>3. Wanted(m)'
    BY <1>1, <2>1, <2>2 DEF Wanted
  <2>4. CASE Return
    <3>1. stack' = [stack EXCEPT ![exec] = s] /\ s = Pushed(Frame("block", MutexQ(m)), r)
      BY <1>3, <1>6, <2>4
    <3> HIDE DEF g
    <3> QED BY <1>1, <2>3, <3>1, BlocksSoon
  <2>5. ASSUME NEW v \in Threads, Become(<<Frame("promote", v)>>) PROVE Blocks'
    <3> DEFINE s2 == Pushed(Frame("promote", v), s)
    <3>1. stack' = [stack EXCEPT ![exec] = s2]
      BY <1>7, <2>5
    <3>2. \E w \in Threads : s2 = Pushed(Frame("promote", w), Pushed(Frame("block", MutexQ(m)), r))
      BY <1>3
    <3> HIDE DEF s2, g
    <3> QED BY <1>1, <2>3, <3>1, <3>2, BlocksSoon
  <2> QED BY <1>10, <2>4, <2>5
<1> QED BY <1>9, <1>10, PromoteEffect

\* Every step keeps who is about to sleep on a mutex on its way there.
LEMMA BlocksStep ==
  ASSUME Inv, Inv', Lending, Owners, Blocks, Next, "return" \notin Ops, "join" \notin Ops, ~MayEnd
  PROVE  Blocks'
<1>1. exec \in Threads /\ exec' \in Threads /\ (\A t \in Threads \ {exec} : stack[t] \in Seq(Bare))
      /\ Common \subseteq Bare
  BY BareFrames DEF Blocks, Inv, TypeOK
<1>2. CASE stack[exec] \in Seq(Bare)
  <2>1. AllIn(Bare)
    BY <1>1, <1>2 DEF AllIn
  <2>2. CASE LockRound
    BY <2>1, <2>2, LockBlocks
  <2>3. CASE ~LockRound
    BY <1>1, <2>1, <2>3, BareStep, BareStacks
  <2> QED BY <2>2, <2>3
<1>3. ASSUME NEW m \in Mutexes, Wanted(m), NEW r \in Seq(Bare),
             stack[exec] = Pushed(Frame("block", MutexQ(m)), r)
      PROVE  Blocks'
  <2> DEFINE g == Frame("block", MutexQ(m))
  <2>1. g \in Frames /\ g.op = "block" /\ g.arg = MutexQ(m) /\ MutexQ(m) \in BlockQueues /\ r \in Seq(Frames)
    <3>1. g \in Frames /\ MutexQ(m) \in BlockQueues
      BY QueueNames, FrameKinds
    <3>2. g.op = "block" /\ g.arg = MutexQ(m)
      BY DEF Frame
    <3>3. r \in Seq(Frames)
      BY BareFrames
    <3> HIDE DEF g
    <3> QED BY <3>1, <3>2, <3>3
  <2>2. stack[exec] = Pushed(g, r)
    BY <1>3
  <2> HIDE DEF g
  <2>3. stack[exec] # <<>> /\ Head(stack[exec]) = g /\ Tail(stack[exec]) = r
    BY <2>1, <2>2, PushedTop
  <2>4. At("block") /\ Arg = MutexQ(m)
    BY <2>1, <2>3 DEF At, Arg
  <2>5. Sleep(MutexQ(m), r)
    BY <2>3, <2>4, OnlyTop DEF Block
  <2>6. UnderIn(Bare)
    BY <1>1, <2>3 DEF UnderIn
  <2>7. AllIn(Bare)'
    BY <1>1, <2>1, <2>5, <2>6, FramesPark
  <2> QED BY <1>1, <2>7, BareStacks
<1>4. ASSUME NEW m \in Mutexes, Wanted(m), NEW r \in Seq(Bare), NEW u \in Threads,
             stack[exec] = Pushed(Frame("promote", u), Pushed(Frame("block", MutexQ(m)), r))
      PROVE  Blocks'
  <2> DEFINE f == Frame("promote", u)
             g == Frame("block", MutexQ(m))
             s == Pushed(g, r)
  <2>1. f \in Frames /\ f.op = "promote" /\ g \in Frames /\ r \in Seq(Frames)
    <3>1. f \in Frames /\ g \in Frames
      BY QueueNames, FrameKinds
    <3>2. f.op = "promote"
      BY DEF Frame
    <3>3. r \in Seq(Frames)
      BY BareFrames
    <3> HIDE DEF f, g
    <3> QED BY <3>1, <3>2, <3>3
  <2>2. stack[exec] = Pushed(f, s)
    BY <1>4
  <2> HIDE DEF f, g
  <2>3. s \in Seq(Frames)
    BY <2>1, PushedTop
  <2> HIDE DEF s
  <2>4. At("promote")
    BY <2>1, <2>2, <2>3, PushedTop DEF At
  <2>5. Promote
    BY <2>4, OnlyTop
  <2> QED BY <1>1, <1>4, <2>5, PromoteBlocks
<1> QED BY <1>2, <1>3, <1>4 DEF Blocks, BlocksOn
-----------------------------------------------------------------------------
(* Who waits for mutexes. *)

\* Nothing but the sleep of OSLockMutex adds to the queue of a mutex.
LEMMA WaitersStay ==
  ASSUME Inv, Inv', Found, Next, "return" \notin Ops, ~Block, NEW m \in Mutexes
  PROVE  Elems(q'[MutexQ(m)]) \subseteq Elems(q[MutexQ(m)])
<1>1. MutexQ(m) \in Queues /\ MutexQ(m) \in BlockQueues /\ q'[MutexQ(m)] \in Seq(Threads)
  BY QueueNames DEF Inv, TypeOK
<1>2. CASE \A w \in WaitQueues : ~OSSleepThread(w)
  <2> SUFFICES ASSUME NEW t \in Elems(q'[MutexQ(m)]) PROVE t \in Elems(q[MutexQ(m)])
    OBVIOUS
  <2>1. t \in Threads
    BY <1>1, EmptyElems
  <2>2. state'[t] = "waiting" /\ queue'[t] = MutexQ(m)
    BY <1>1 DEF Inv, Consistent
  <2>3. state[t] = "waiting" /\ queue[t] = MutexQ(m)
    BY <1>2, <2>1, <2>2, StillWaits
  <2> QED BY <2>1, <2>3 DEF Found, Located
<1>3. ASSUME NEW w \in WaitQueues, OSSleepThread(w)
      PROVE  Elems(q'[MutexQ(m)]) \subseteq Elems(q[MutexQ(m)])
  <2>1. MutexQ(m) # WaitQ(w)
    BY DEF MutexQ, WaitQ
  <2>2. q'[MutexQ(m)] = q[MutexQ(m)]
    <3>1. q \in [Queues -> Seq(Threads)]
      BY DEF Inv, TypeOK
    <3> QED BY <1>1, <1>3, <2>1, <3>1 DEF OSSleepThread, Sleep, InsertByPriority
  <2> QED BY <2>2
<1> QED BY <1>2, <1>3

\* OSLockMutex puts its caller to sleep on a mutex that has another owner.
LEMMA BlockEffect ==
  ASSUME Inv, Blocks, Block
  PROVE  \E m \in Mutexes :
           /\ waitMutex[exec] = m /\ owner[m] \notin {None, exec}
           /\ suspend[owner[m]] > 0 \/ prio[owner[m]] <= prio[exec]
           /\ Elems(q'[MutexQ(m)]) \subseteq Elems(q[MutexQ(m)]) \cup {exec}
           /\ \A n \in Mutexes \ {m} : q'[MutexQ(n)] = q[MutexQ(n)]
           /\ UNCHANGED <<suspend, prio, waitMutex, owner, owned, exec>>
<1>1. /\ At("block") /\ Sleep(Arg, Tail(stack[exec])) /\ exec \in Threads /\ running = exec
      /\ state[exec] = "running" /\ stack[exec] # <<>>
  BY RunsItself DEF Block
<1>2. stack[exec] \notin Seq(Bare)
  <2>1. Head(stack[exec]) \notin Bare
    BY <1>1 DEF At, Bare
  <2> QED BY <1>1, <2>1
<1>3. PICK m \in Mutexes : Wanted(m) /\ BlocksOn(stack[exec], m)
  BY <1>2 DEF Blocks
<1>4. Arg = MutexQ(m)
  <2> DEFINE g == Frame("block", MutexQ(m))
  <2>1. g \in Frames /\ g.arg = MutexQ(m)
    <3>1. g \in Frames
      BY QueueNames, FrameKinds
    <3>2. g.arg = MutexQ(m)
      BY DEF Frame
    <3> HIDE DEF g
    <3> QED BY <3>1, <3>2
  <2>2. PICK r \in Seq(Bare) :
          \/ stack[exec] = Pushed(g, r)
          \/ \E u \in Threads : stack[exec] = Pushed(Frame("promote", u), Pushed(g, r))
    BY <1>3 DEF BlocksOn
  <2>3. r \in Seq(Frames)
    BY BareFrames
  <2> HIDE DEF g
  <2>4. ASSUME NEW u \in Threads, stack[exec] = Pushed(Frame("promote", u), Pushed(g, r)) PROVE FALSE
    <3> DEFINE s == Pushed(g, r)
               f == Frame("promote", u)
    <3>1. s \in Seq(Frames)
      BY <2>1, <2>3, PushedTop
    <3>2. f \in Frames /\ f.op = "promote"
      <4>1. f \in Frames
        BY FrameKinds
      <4>2. f.op = "promote"
        BY DEF Frame
      <4> QED BY <4>1, <4>2
    <3>3. stack[exec] = Pushed(f, s)
      BY <2>4
    <3> HIDE DEF s, f
    <3>4. Head(stack[exec]) = f
      BY <3>1, <3>2, <3>3, PushedTop
    <3> QED BY <1>1, <3>2, <3>4 DEF At
  <2>5. stack[exec] = Pushed(g, r)
    BY <2>2, <2>4
  <2>6. Head(stack[exec]) = g
    BY <2>1, <2>3, <2>5, PushedTop
  <2> QED BY <2>1, <2>6 DEF Arg
<1>5. /\ waitMutex[exec] = m /\ owner[m] \notin {None, exec}
      /\ suspend[owner[m]] > 0 \/ prio[owner[m]] <= prio[exec]
  BY <1>1, <1>3 DEF Wanted, At
<1>6. UNCHANGED <<suspend, prio, waitMutex, owner, owned, exec>>
  BY <1>1 DEF Sleep, mutexVars
<1>7. /\ prio \in [Threads -> 0 .. NumPriorities] /\ q \in [Queues -> Seq(Threads)]
      /\ Consistent(state, suspend, prio, queue, q) /\ MutexQ(m) \in Queues
      /\ \A n \in Mutexes : MutexQ(n) \in Queues
  BY QueueNames DEF Inv, TypeOK
<1>8. exec \notin Elems(q[MutexQ(m)]) /\ Distinct(q[MutexQ(m)]) /\ prio[exec] \in 0 .. NumPriorities
  BY <1>1, <1>7, QueueNames DEF Consistent
<1>9. q' = q \/ q' = InsertByPriority(q, MutexQ(m), exec, prio[exec])
  <2>1. exec # None
    BY Now
  <2> QED BY <1>1, <1>4, <2>1, Zenon DEF Sleep
<1>10. \A n \in Mutexes \ {m} : MutexQ(n) # MutexQ(m)
  BY DEF MutexQ
<1>11. /\ Elems(q'[MutexQ(m)]) \subseteq Elems(q[MutexQ(m)]) \cup {exec}
       /\ \A n \in Mutexes \ {m} : q'[MutexQ(n)] = q[MutexQ(n)]
  <2>1. CASE q' = q
    BY <2>1
  <2>2. CASE q' = InsertByPriority(q, MutexQ(m), exec, prio[exec])
    <3> DEFINE x == MutexQ(m)
               p == prio[exec]
               q2 == InsertByPriority(q, x, exec, p)
    <3>1. /\ x \in Queues /\ exec \notin Elems(q[x]) /\ Distinct(q[x]) /\ p \in 0 .. NumPriorities
          /\ prio \in [Threads -> 0 .. NumPriorities] /\ q \in [Queues -> Seq(Threads)] /\ exec \in Threads
      BY <1>1, <1>7, <1>8
    <3> HIDE DEF x, p
    <3>2. /\ \A y \in Queues \ {x} : q2[y] = q[y]
          /\ Elems(q2[x]) = Elems(q[x]) \cup {exec}
      <4>1. q[x] \in Seq(Threads) /\ InsertPosition(q[x], p) \in 1 .. Len(q[x]) + 1
        BY <3>1, InsertPlace
      <4>2. /\ q2[x] = InsertAt(q[x], InsertPosition(q[x], p), exec)
            /\ \A y \in Queues \ {x} : q2[y] = q[y]
        BY <3>1 DEF InsertByPriority
      <4> HIDE DEF q2
      <4>3. Elems(InsertAt(q[x], InsertPosition(q[x], p), exec)) = Elems(q[x]) \cup {exec}
        BY <3>1, <4>1, InsertElems
      <4> QED BY <4>2, <4>3
    <3>3. q' = q2
      BY <2>2 DEF x, p
    <3> HIDE DEF q2
    <3>4. Elems(q'[x]) = Elems(q[x]) \cup {exec} /\ \A y \in Queues \ {x} : q'[y] = q[y]
      BY <3>2, <3>3
    <3> QED BY <1>7, <1>10, <3>4 DEF x
  <2> QED BY <1>9, <2>1, <2>2
<1> QED BY <1>5, <1>6, <1>11

\* The mutex a waiting thread waits for is recorded until it runs again.
LEMMA WaitMutexStays ==
  ASSUME Inv, Next, "return" \notin Ops, NEW t \in Threads, state[t] = "waiting"
  PROVE  waitMutex'[t] = waitMutex[t]
<1>1. waitMutex \in [Threads -> Mutexes \cup {None}]
  BY DEF Inv, TypeOK
<1>2. CASE UNCHANGED waitMutex
  BY <1>2
<1>3. ASSUME NEW u \in Threads, NEW d, OSCreateThread(u, d) PROVE waitMutex'[t] = waitMutex[t]
  BY <1>1, <1>3 DEF OSCreateThread
<1>4. CASE LockRound
  <2>1. state[exec] = "running"
    BY <1>4, RunsItself DEF LockRound
  <2> QED BY <1>1, <1>4, <2>1 DEF LockRound
<1>5. CASE GuestCall
  <2>1. UNCHANGED waitMutex \/ \E u \in Threads, d \in Attrs : OSCreateThread(u, d)
    BY <1>5, NoReturn, Zenon DEF GuestCall, OSSuspendThread, OSResumeThread, Resume, OSCancelThread,
       OSJoinThread, OSDetachThread, OSSleepThread, Sleep, OSWakeupThread, OSLockMutex, OSUnlockMutex,
       OSSleepTicks, OSYieldThread, OSExitThread, HandlerBegins, HandlerEnds, DeferredEnds, threadVars
  <2> QED BY <1>2, <1>3, <2>1
<1>6. CASE HandlerStep
  <2>1. UNCHANGED waitMutex \/ LockRound
    BY <1>6, NoReturn, Zenon DEF HandlerStep, SelectRefuses, SelectPreempts, SelectSwitches,
       Dispatch, SelectIdles, WakeOne, WakeDone, Block, Sleep, Slept, Promote, Propagate, Resched,
       TicksDone, ExitTail, UnlockAll, WakeThreadJoiners, JoinDone, threadVars
  <2> QED BY <1>2, <1>4, <2>1
<1>7. CASE HostEvent
  <2>1. UNCHANGED waitMutex
    BY <1>7, Zenon DEF HostEvent, IdleDispatches, Dispatch, IdleEvent, TimerFires, Resume, threadVars
  <2> QED BY <1>2, <2>1
<1> QED BY <1>5, <1>6, <1>7 DEF Next

\* Mutexes are taken when they are free and given back by OSUnlockMutex.
LEMMA OwnerMoves ==
  ASSUME Inv, Lending, Next, "return" \notin Ops, NEW m \in Mutexes
  PROVE  \/ owner'[m] = owner[m]
         \/ OSUnlockMutex(m) /\ owner[m] # None /\ owner'[m] = None
         \/ LockRound /\ Arg = m /\ owner[m] = None /\ owner'[m] = exec
<1>1. owner \in [Mutexes -> Threads \cup {None}]
  BY DEF Inv, TypeOK
<1>2. ASSUME NEW n \in Mutexes, OSUnlockMutex(n)
      PROVE  owner'[m] = owner[m] \/ (n = m /\ owner[m] # None /\ owner'[m] = None)
  BY <1>1, <1>2 DEF OSUnlockMutex
<1>3. CASE LockRound
  <2>1. owner' = owner \/ (owner[Arg] = None /\ owner' = [owner EXCEPT ![Arg] = exec])
    BY <1>3 DEF LockRound, mutexVars
  <2> QED BY <1>1, <1>3, <2>1
<1>4. ~UnlockAll
  BY DEF UnlockAll, Lending
<1>5. CASE GuestCall
  <2>1. UNCHANGED owner \/ \E n \in Mutexes : OSUnlockMutex(n)
    BY <1>5, NoReturn, Zenon DEF GuestCall, OSSuspendThread, OSResumeThread, Resume, OSCancelThread,
       OSJoinThread, OSDetachThread, OSSleepThread, Sleep, OSWakeupThread, OSLockMutex, OSCreateThread,
       OSSleepTicks, OSYieldThread, OSExitThread, HandlerBegins, HandlerEnds, DeferredEnds, mutexVars
  <2> QED BY <1>2, <2>1
<1>6. CASE HandlerStep
  <2>1. UNCHANGED owner \/ LockRound
    BY <1>4, <1>6, NoReturn, Zenon DEF HandlerStep, SelectRefuses, SelectPreempts, SelectSwitches,
       Dispatch, SelectIdles, WakeOne, WakeDone, Block, Sleep, Slept, Promote, Propagate, Resched,
       TicksDone, ExitTail, WakeThreadJoiners, JoinDone, mutexVars
  <2> QED BY <1>3, <2>1
<1>7. CASE HostEvent
  <2>1. UNCHANGED owner
    BY <1>7, Zenon DEF HostEvent, IdleDispatches, Dispatch, IdleEvent, TimerFires, Resume, mutexVars
  <2> QED BY <2>1
<1> QED BY <1>5, <1>6, <1>7 DEF Next

\* Every step keeps waiters recorded as such.
LEMMA WaitersStep ==
  ASSUME Inv, Inv', Found, Lending, Blocks, Waiters, Next, "return" \notin Ops
  PROVE  Waiters'
<1>1. CASE Block
  <2>1. PICK n \in Mutexes :
          /\ waitMutex[exec] = n /\ owner[n] \notin {None, exec}
          /\ Elems(q'[MutexQ(n)]) \subseteq Elems(q[MutexQ(n)]) \cup {exec}
          /\ \A k \in Mutexes \ {n} : q'[MutexQ(k)] = q[MutexQ(k)]
          /\ UNCHANGED <<waitMutex, owner>>
    BY <1>1, BlockEffect
  <2> SUFFICES ASSUME NEW m \in Mutexes, NEW u \in Elems(q'[MutexQ(m)])
               PROVE  waitMutex'[u] = m /\ owner'[m] # u
    BY DEF Waiters
  <2>2. CASE u \in Elems(q[MutexQ(m)])
    BY <2>1, <2>2 DEF Waiters
  <2>3. CASE u \notin Elems(q[MutexQ(m)])
    <3>1. m = n /\ u = exec
      BY <2>1, <2>3
    <3> QED BY <2>1, <3>1
  <2> QED BY <2>2, <2>3
<1>2. CASE ~Block
  <2> SUFFICES ASSUME NEW m \in Mutexes, NEW u \in Elems(q'[MutexQ(m)])
               PROVE  waitMutex'[u] = m /\ owner'[m] # u
    BY DEF Waiters
  <2>1. u \in Elems(q[MutexQ(m)])
    BY <1>2, WaitersStay
  <2>2. waitMutex[u] = m /\ owner[m] # u
    BY <2>1 DEF Waiters
  <2>3. u \in Threads /\ state[u] = "waiting"
    BY <2>1, QueueNames, EmptyElems DEF Inv, Consistent
  <2>4. waitMutex'[u] = m
    BY <2>2, <2>3, WaitMutexStays
  <2>5. owner'[m] # u
    <3>1. LockRound => state[exec] = "running"
      BY RunsItself DEF LockRound
    <3>2. owner'[m] = owner[m] \/ owner'[m] = None \/ (LockRound /\ owner'[m] = exec)
      BY OwnerMoves
    <3> QED BY <2>2, <2>3, <3>1, <3>2, ConstantsOK
  <2> QED BY <2>4, <2>5
<1> QED BY <1>1, <1>2

\* Every step keeps the waiters of a mutex without owner on their way.
LEMMA ReleasedStep ==
  ASSUME Inv, Inv', Found, Lending, Blocks, Released, Next, "return" \notin Ops
  PROVE  Released'
<1> SUFFICES ASSUME NEW m \in Mutexes, owner'[m] = None, q'[MutexQ(m)] # <<>>
             PROVE  /\ stack'[exec'] # <<>>
                    /\ Head(stack'[exec']) \in {Frame("wake", MutexQ(m)), Frame("wakeMore", MutexQ(m))}
  BY DEF Released
<1> DEFINE x == MutexQ(m)
           w == Frame("wake", x)
           more == Frame("wakeMore", x)
<1>1. /\ x \in Queues /\ x \in BlockQueues /\ q[x] \in Seq(Threads) /\ q'[x] \in Seq(Threads)
      /\ exec \in Threads /\ stack \in [Threads -> Seq(Frames)] /\ exec # None
      /\ w \in Frames /\ more \in Frames /\ more.arg = x
  <2>1. x \in Queues /\ x \in BlockQueues /\ w \in Frames /\ more \in Frames
    BY QueueNames, FrameKinds
  <2>2. more.arg = x
    BY DEF Frame
  <2> HIDE DEF x, w, more
  <2> QED BY <2>1, <2>2, Now DEF Inv, TypeOK
<1>2. CASE OSUnlockMutex(m) /\ owner[m] # None
  <2>1. Call(<<w>>) /\ exec' = exec
    BY <1>2, ConstantsOK DEF OSUnlockMutex
  <2>2. stack' = [stack EXCEPT ![exec] = Pushed(w, stack[exec])]
    BY <2>1 DEF Call, Pushed
  <2> DEFINE s == Pushed(w, stack[exec])
  <2>3. s # <<>> /\ Head(s) = w
    <3>1. stack[exec] \in Seq(Frames)
      BY <1>1
    <3> HIDE DEF w
    <3> QED BY <1>1, <3>1, PushedTop
  <2> HIDE DEF s
  <2>4. stack'[exec'] = s
    BY <1>1, <2>1, <2>2 DEF s
  <2> QED BY <2>3, <2>4
<1>3. CASE owner[m] = None
  <2>1. q[x] # <<>>
    <3>1. Elems(q'[x]) # {}
      BY <1>1, EmptyElems
    <3>2. CASE ~Block
      <4>1. Elems(q'[x]) \subseteq Elems(q[x])
        BY <3>2, WaitersStay
      <4> QED BY <1>1, <3>1, <4>1, EmptyElems
    <3>3. CASE Block
      <4>1. PICK n \in Mutexes : owner[n] # None /\ \A k \in Mutexes \ {n} : q'[MutexQ(k)] = q[MutexQ(k)]
        BY <3>3, BlockEffect
      <4>2. m # n
        BY <1>3, <4>1
      <4> QED BY <4>1, <4>2
    <3> QED BY <3>2, <3>3
  <2>2. stack[exec] # <<>> /\ Head(stack[exec]) \in {w, more}
    BY <1>3, <2>1 DEF Released
  <2>3. Arg = x /\ (At("wake") \/ At("wakeMore"))
    BY <2>2 DEF Arg, At, Frame
  <2>4. WakeOne \/ WakeDone
    BY <2>3, OnlyTop
  <2>5. WakeOne
    BY <2>1, <2>3, <2>4 DEF WakeDone
  <2>6. exec' = exec /\ (UNCHANGED stack \/ Become(<<Frame("wakeMore", Arg)>>))
    BY <2>5 DEF WakeOne
  <2>7. CASE UNCHANGED stack
    BY <2>2, <2>6, <2>7
  <2>8. CASE Become(<<Frame("wakeMore", Arg)>>)
    <3> DEFINE r == Tail(stack[exec])
               s == Pushed(more, r)
    <3>1. r \in Seq(Frames)
      BY <1>1, <2>2
    <3>2. stack' = [stack EXCEPT ![exec] = s]
      BY <2>3, <2>8 DEF Become, Pushed
    <3> HIDE DEF r, more
    <3>3. s # <<>> /\ Head(s) = more
      BY <1>1, <3>1, PushedTop
    <3> HIDE DEF s
    <3>4. stack'[exec'] = s
      BY <1>1, <2>6, <3>2
    <3> QED BY <3>3, <3>4 DEF more
  <2> QED BY <2>6, <2>7, <2>8
<1>4. owner'[m] = owner[m] \/ (OSUnlockMutex(m) /\ owner[m] # None)
  BY <1>1, OwnerMoves
<1> QED BY <1>2, <1>3, <1>4
-----------------------------------------------------------------------------
(* Owners as urgent as their waiters. *)

\* The first of a sorted queue is the most urgent.
LEMMA HeadIsBest ==
  ASSUME prio \in [Threads -> 0 .. NumPriorities], NEW s \in Seq(Threads), Sorted(prio, s),
         NEW w \in Elems(s)
  PROVE  /\ s # <<>> /\ Head(s) \in Threads /\ w \in Threads
         /\ prio[Head(s)] <= prio[w] /\ prio[Head(s)] \in Int /\ prio[w] \in Int
<1>1. PICK i \in 1 .. Len(s) : w = s[i]
  BY DEF Elems
<1>2. s # <<>> /\ Head(s) = s[1] /\ s[1] \in Threads /\ w \in Threads /\ 1 \in 1 .. Len(s)
  BY <1>1
<1>3. prio[s[1]] \in Int /\ prio[w] \in Int
  BY <1>2
<1>4. prio[s[1]] <= prio[w]
  <2>1. CASE i = 1
    BY <1>1, <1>3, <2>1
  <2>2. CASE i # 1
    BY <1>1, <1>2, <2>2 DEF Sorted
  <2> QED BY <2>1, <2>2
<1> QED BY <1>2, <1>3, <1>4

\* A computed priority is at least as urgent as every waiter of the mutexes ms.
LEMMA OwnerComputes ==
  ASSUME Inv, NEW u \in Threads, NEW qq \in [Queues -> Seq(Threads)], NEW ms \in SUBSET Mutexes,
         NEW m \in ms, Sorted(prio, qq[MutexQ(m)]), NEW w \in Elems(qq[MutexQ(m)])
  PROVE  EffectivePriority(u, qq, ms) <= prio[w]
<1> DEFINE s == qq[MutexQ(m)]
           p == EffectivePriority(u, qq, ms)
<1>1. s \in Seq(Threads) /\ prio \in [Threads -> 0 .. NumPriorities]
  BY QueueNames DEF Inv, TypeOK
<1>2. p \in Prios /\ (s # <<>> => p <= prio[Head(s)])
  BY <1>1, EffectiveIsBest
<1>3. p \in Int
  BY <1>2 DEF Prios
<1> HIDE DEF s, p
<1>4. s # <<>> /\ prio[Head(s)] <= prio[w] /\ prio[Head(s)] \in Int /\ prio[w] \in Int
  <2>1. Sorted(prio, s) /\ w \in Elems(s)
    BY DEF s
  <2> QED BY <1>1, <2>1, HeadIsBest
<1>5. p <= prio[w]
  BY <1>2, <1>3, <1>4
<1> QED BY <1>5 DEF p

\* No handler of OSLockMutex and no walk over owners executes.
Unlent == ~At("block") /\ ~At("lock") /\ ~At("promote") /\ ~At("propagate")

\* Guest code, the scheduler and the idle loop are none of them.
LEMMA UnlentTop ==
  ASSUME InGuest \/ AtSelect \/ At("idle")
  PROVE  Unlent
BY DEF InGuest, InThread, InHandler, AtSelect, At, Unlent

\* A step that changes the priority or the suspension of thread u only: u is as
\* urgent as the waiters of its mutexes, and if it waits and got more urgent,
\* the owner it waits for is about to learn.
LEMMA LendsStep ==
  ASSUME Inv, Inv', Found, Lending, Waiters, Next, "return" \notin Ops, Unlent,
         NEW u \in Threads, NEW m \in Mutexes, Lends(m),
         \A t \in Threads \ {u} : prio'[t] = prio[t] /\ suspend'[t] = suspend[t],
         owner[m] = u /\ suspend'[u] = 0 =>
           \/ prio'[u] = prio[u] /\ suspend[u] = 0
           \/ \A w \in Elems(q[MutexQ(m)]) : prio'[u] <= prio[w],
         owner[m] # None /\ u \in Elems(q[MutexQ(m)]) =>
           prio'[u] >= prio[u] \/ Walks(owner[m], u)'
  PROVE  Lends(m)'
<1> SUFFICES ASSUME owner'[m] # None, suspend'[owner'[m]] = 0, NEW w \in Elems(q'[MutexQ(m)])
             PROVE  prio'[owner'[m]] <= prio'[w] \/ Walks(owner[m], w)'
  BY DEF Lends, Walks
<1> DEFINE v == owner[m]
<1>1. owner'[m] = v
  <2>1. ~LockRound
    BY DEF LockRound, Unlent
  <2> QED BY <2>1, OwnerMoves
<1>2. w \in Elems(q[MutexQ(m)])
  <2>1. ~Block
    BY DEF Block, Unlent
  <2> QED BY <2>1, WaitersStay
<1>3. v # w /\ ~Walks(v, w)
  BY <1>2 DEF Waiters, Walks, Unlent
<1>4. prio \in [Threads -> 0 .. NumPriorities] /\ prio' \in [Threads -> 0 .. NumPriorities]
      /\ v \in Threads /\ w \in Threads /\ v # None
  <2>1. prio \in [Threads -> 0 .. NumPriorities] /\ prio' \in [Threads -> 0 .. NumPriorities]
        /\ owner \in [Mutexes -> Threads \cup {None}]
    BY DEF Inv, TypeOK
  <2>2. w \in Threads
    BY <1>2, QueueNames, EmptyElems DEF Inv, Consistent
  <2> QED BY <1>1, <2>1, <2>2
<1>5. prio[w] \in Int /\ prio'[w] \in Int /\ prio[v] \in Int /\ prio'[v] \in Int
  BY <1>4
<1>6. suspend[v] = 0 => prio[v] <= prio[w]
  BY <1>2, <1>3, <1>4 DEF Lends
<1>7. v = owner[m]
  OBVIOUS
<1> HIDE DEF v
<1>8. CASE v = u
  <2>1. prio'[w] = prio[w]
    BY <1>3, <1>4, <1>8
  <2>2. prio'[v] <= prio[w]
    BY <1>1, <1>2, <1>6, <1>7, <1>8
  <2> QED BY <1>1, <2>1, <2>2
<1>9. CASE v # u
  <2>1. prio'[v] = prio[v] /\ prio[v] <= prio[w]
    BY <1>1, <1>4, <1>6, <1>9
  <2>2. CASE w = u
    <3>1. prio'[w] >= prio[w] \/ Walks(owner[m], w)'
      BY <1>2, <1>4, <1>7, <2>2
    <3> QED BY <1>1, <1>5, <2>1, <3>1
  <2>3. CASE w # u
    BY <1>1, <1>4, <2>1, <2>3
  <2> QED BY <2>2, <2>3
<1> QED BY <1>8, <1>9

\* Steps that change no priority and no suspension.
LEMMA LendsSame ==
  ASSUME Inv, Inv', Found, Lending, Waiters, Inherits, Next, "return" \notin Ops, Unlent,
         UNCHANGED <<prio, suspend>>
  PROVE  Inherits'
<1>1. exec \in Threads /\ prio[exec] \in Int
  BY DEF Inv, TypeOK
<1> SUFFICES ASSUME NEW m \in Mutexes PROVE Lends(m)'
  BY DEF Inherits
<1> QED BY <1>1, LendsStep DEF Inherits

\* OSSuspendThread makes no waiter more urgent.
LEMMA LendsSuspend ==
  ASSUME Inv, Inv', Found, Lending, Waiters, Inherits, Next, "return" \notin Ops, Unlent,
         NEW u \in Threads, NEW rest, Suspend(u, rest)
  PROVE  Inherits'
<1>1. /\ prio \in [Threads -> 0 .. NumPriorities] /\ suspend \in [Threads -> Nat]
      /\ suspend' = [suspend EXCEPT ![u] = @ + 1]
      /\ prio' = prio \/ prio' = [prio EXCEPT ![u] = SuspendedWaitPriority]
  BY Zenon DEF Suspend, Inv, TypeOK
<1>2. \A t \in Threads \ {u} : prio'[t] = prio[t] /\ suspend'[t] = suspend[t]
  BY <1>1
<1>3. suspend'[u] # 0 /\ prio'[u] >= prio[u]
  <2>1. NumPriorities \in Nat
    BY ConstantsOK
  <2> QED BY <1>1, <2>1 DEF SuspendedWaitPriority
<1> SUFFICES ASSUME NEW m \in Mutexes PROVE Lends(m)'
  BY DEF Inherits
<1> QED BY <1>2, <1>3, LendsStep DEF Inherits

\* The queue of a mutex without thread u is in order too.
LEMMA FreedQueue ==
  ASSUME Inv, Order, NEW u \in Threads, NEW m \in Mutexes
  PROVE  /\ RemoveThreadFromQueue(u) \in [Queues -> Seq(Threads)]
         /\ Sorted(prio, RemoveThreadFromQueue(u)[MutexQ(m)])
         /\ Elems(RemoveThreadFromQueue(u)[MutexQ(m)]) = Elems(q[MutexQ(m)]) \ {u}
<1> DEFINE x == MutexQ(m)
<1>1. /\ x \in Queues /\ q \in [Queues -> Seq(Threads)] /\ queue \in [Threads -> Queues \cup {None}]
      /\ Consistent(state, suspend, prio, queue, q) /\ Sorted(prio, q[x]) /\ q[x] \in Seq(Threads)
  BY QueueNames DEF Inv, TypeOK, Order
<1> HIDE DEF x
<1>2. /\ RemoveThreadFromQueue(u) \in [Queues -> Seq(Threads)]
      /\ Elems(RemoveThreadFromQueue(u)[x]) = Elems(q[x]) \ {u}
  BY <1>1, RemoveEffect
<1>3. RemoveThreadFromQueue(u)[x] = q[x] \/ RemoveThreadFromQueue(u)[x] = Unlink(q[x], u)
  BY <1>1, RemoveShape
<1>4. Sorted(prio, RemoveThreadFromQueue(u)[x])
  BY <1>1, <1>3, SortedUnlink
<1> QED BY <1>2, <1>4 DEF x

\* OSResumeThread computes what the waiters lend, and tells the owner it waits for.
LEMMA LendsResume ==
  ASSUME Inv, Inv', Found, Order, Lending, Owners, Waiters, Inherits, Next, "return" \notin Ops,
         Unlent, NEW u \in Threads, Resume(u)
  PROVE  Inherits'
<1> DEFINE free == RemoveThreadFromQueue(u)
           qq   == IF state[u] = "waiting" THEN free ELSE q
           p    == EffectivePriority(u, qq, owned[u])
<1>1. /\ prio \in [Threads -> 0 .. NumPriorities] /\ suspend \in [Threads -> Nat]
      /\ owned[u] \in SUBSET Mutexes /\ q \in [Queues -> Seq(Threads)]
      /\ exec \in Threads /\ stack[exec] \in Seq(Frames) /\ stack \in [Threads -> Seq(Frames)]
  BY DEF Inv, TypeOK
<1>2. /\ suspend' = [suspend EXCEPT ![u] = IF @ = 0 THEN 0 ELSE @ - 1] /\ exec' = exec /\ owner' = owner
      /\ \/ suspend[u] # 1 /\ prio' = prio
         \/ /\ prio' = [prio EXCEPT ![u] = p]
            /\ state[u] = "waiting" => Call(PropagateFrom(u) \o <<Frame("resched", None)>>)
  BY DEF Resume, mutexVars
<1>3. \A t \in Threads \ {u} : prio'[t] = prio[t] /\ suspend'[t] = suspend[t]
  BY <1>1, <1>2
<1> SUFFICES ASSUME NEW m \in Mutexes PROVE Lends(m)'
  BY DEF Inherits
<1>4. qq \in [Queues -> Seq(Threads)] /\ Sorted(prio, qq[MutexQ(m)])
      /\ Elems(q[MutexQ(m)]) \ {u} \subseteq Elems(qq[MutexQ(m)])
  <2>1. Sorted(prio, q[MutexQ(m)])
    BY QueueNames DEF Order
  <2> QED BY <1>1, <2>1, FreedQueue
<1>5. CASE suspend[u] # 1 /\ prio' = prio
  <2>1. suspend'[u] = 0 => suspend[u] = 0
    BY <1>1, <1>2, <1>5
  <2>2. prio[u] \in Int /\ prio'[u] = prio[u]
    BY <1>1, <1>5
  <2> QED BY <1>3, <2>1, <2>2, LendsStep DEF Inherits
<1>6. CASE /\ prio' = [prio EXCEPT ![u] = p]
           /\ state[u] = "waiting" => Call(PropagateFrom(u) \o <<Frame("resched", None)>>)
  <2>1. ASSUME owner[m] = u, NEW w \in Elems(q[MutexQ(m)]) PROVE prio'[u] <= prio[w]
    <3>1. m \in owned[u]
      BY <2>1 DEF Owners
    <3>2. w # u
      BY <2>1 DEF Waiters
    <3>3. w \in Elems(qq[MutexQ(m)])
      BY <1>4, <2>1, <3>2
    <3> HIDE DEF qq
    <3>4. p <= prio[w]
      BY <1>1, <1>4, <3>1, <3>3, OwnerComputes
    <3> HIDE DEF p
    <3> QED BY <1>1, <1>6, <3>4
  <2>2. ASSUME owner[m] # None, u \in Elems(q[MutexQ(m)]) PROVE Walks(owner[m], u)'
    <3>1. waitMutex[u] = m /\ state[u] = "waiting" /\ m # None
      BY <2>2, QueueNames, ConstantsOK DEF Waiters, Inv, Consistent
    <3>2. PropagateFrom(u) = <<Frame("propagate", owner[m])>>
      BY <2>2, <3>1 DEF PropagateFrom
    <3>3. owner[m] \in Threads
      BY <2>2 DEF Inv, TypeOK
    <3> DEFINE f == Frame("propagate", owner[m])
               g == Frame("resched", None)
               s == stack[exec]
    <3>4. f \in Frames /\ g \in Frames /\ s \in Seq(Frames) /\ f.op = "propagate" /\ f.arg = owner[m]
      <4>1. f \in Frames /\ g \in Frames
        BY <3>3, FrameKinds
      <4>2. f.op = "propagate" /\ f.arg = owner[m]
        BY DEF Frame
      <4> HIDE DEF f, g
      <4> QED BY <1>1, <4>1, <4>2
    <3>5. stack' = [stack EXCEPT ![exec] = PairOver(f, g, s)]
      BY <1>6, <3>1, <3>2 DEF Call, PairOver
    <3> DEFINE r == Pushed(g, s)
    <3> HIDE DEF f, g, s
    <3>6. PairOver(f, g, s) = Pushed(f, r)
      BY <3>4, TwoFrames
    <3>7. r \in Seq(Frames)
      BY <3>4, PushedTop
    <3> HIDE DEF r
    <3>8. Pushed(f, r) # <<>> /\ Head(Pushed(f, r)) = f
      BY <3>4, <3>7, PushedTop
    <3>9. stack'[exec'] = Pushed(f, r)
      BY <1>1, <1>2, <3>5, <3>6
    <3>10. At("propagate")' /\ Arg' = owner'[m]
      BY <1>2, <3>4, <3>8, <3>9 DEF At, Arg
    <3> QED BY <3>10 DEF Walks
  <2> QED BY <1>3, <2>1, <2>2, LendsStep DEF Inherits
<1> QED BY <1>2, <1>5, <1>6

\* A structure that is created owns nothing and nobody waits with it.
LEMMA LendsCreate ==
  ASSUME Inv, Inv', Found, Lending, Owners, Waiters, Inherits, Next, "return" \notin Ops,
         NEW u \in Threads, NEW d, OSCreateThread(u, d)
  PROVE  Inherits'
<1>1. /\ InGuest /\ state[u] = "none"
      /\ suspend' = [suspend EXCEPT ![u] = 1] /\ prio' = [prio EXCEPT ![u] = BasePriority[u]]
  BY DEF OSCreateThread, InGuest
<1>2. \A t \in Threads \ {u} : prio'[t] = prio[t] /\ suspend'[t] = suspend[t]
  BY <1>1 DEF Inv, TypeOK
<1> SUFFICES ASSUME NEW m \in Mutexes PROVE Lends(m)'
  BY DEF Inherits
<1>3. owner[m] # u
  BY <1>1 DEF Owners, Dead
<1>4. u \notin Elems(q[MutexQ(m)])
  BY <1>1, QueueNames DEF Inv, Consistent
<1> QED BY <1>1, <1>2, <1>3, <1>4, UnlentTop, LendsStep DEF Inherits

\* OSUnlockMutex keeps what the waiters of the other mutexes lend.
LEMMA LendsUnlock ==
  ASSUME Inv, Inv', Found, Order, Lending, Owners, Waiters, Inherits, Next, "return" \notin Ops,
         NEW n \in Mutexes, OSUnlockMutex(n)
  PROVE  Inherits'
<1> DEFINE rest == owned[exec] \ {n}
           p    == EffectivePriority(exec, q, rest)
<1>1. /\ InGuest /\ running = exec /\ exec \in Threads /\ state[exec] = "running"
  BY Now DEF OSUnlockMutex, InGuest
<1>2. /\ prio \in [Threads -> 0 .. NumPriorities] /\ owned \in [Threads -> SUBSET Mutexes]
      /\ q \in [Queues -> Seq(Threads)] /\ suspend[exec] = 0
  BY <1>1 DEF Inv, TypeOK, Consistent
<1>3. /\ UNCHANGED <<suspend, q>>
      /\ \/ prio' = prio
         \/ owner'[n] = None /\ prio' = [prio EXCEPT ![exec] = p]
  <2>1. owner \in [Mutexes -> Threads \cup {None}]
    BY DEF Inv, TypeOK
  <2> QED BY <1>1, <2>1 DEF OSUnlockMutex, schedVars
<1>4. CASE prio' = prio
  BY <1>1, <1>3, <1>4, UnlentTop, LendsSame
<1>5. CASE owner'[n] = None /\ prio' = [prio EXCEPT ![exec] = p]
  <2>1. \A t \in Threads \ {exec} : prio'[t] = prio[t] /\ suspend'[t] = suspend[t]
    BY <1>2, <1>3, <1>5
  <2> SUFFICES ASSUME NEW m \in Mutexes PROVE Lends(m)'
    BY DEF Inherits
  <2>2. CASE m = n
    BY <1>5, <2>2 DEF Lends
  <2>3. CASE m # n
    <3>1. ASSUME owner[m] = exec, NEW w \in Elems(q[MutexQ(m)]) PROVE prio'[exec] <= prio[w]
      <4>1. m \in rest /\ rest \in SUBSET Mutexes
        BY <1>1, <1>2, <2>3, <3>1 DEF Owners
      <4>2. Sorted(prio, q[MutexQ(m)])
        BY QueueNames DEF Order
      <4> HIDE DEF rest
      <4>3. p <= prio[w]
        BY <1>1, <1>2, <3>1, <4>1, <4>2, OwnerComputes
      <4> HIDE DEF p
      <4> QED BY <1>1, <1>2, <1>5, <4>3
    <3>2. exec \notin Elems(q[MutexQ(m)])
      BY <1>1, QueueNames DEF Inv, Consistent
    <3> QED BY <1>1, <2>1, <3>1, <3>2, UnlentTop, LendsStep DEF Inherits
  <2> QED BY <2>2, <2>3
<1> QED BY <1>3, <1>4, <1>5

\* OSLockMutex takes only mutexes nobody waits for.
LEMMA LendsLock ==
  ASSUME Inv, Inv', Found, Lending, Released, Inherits, Next, "return" \notin Ops, LockRound
  PROVE  Inherits'
<1>1. At("lock") /\ UNCHANGED <<prio, suspend, q>> /\ stack[exec] # <<>> /\ ~OSUnlockMutex(Arg)
  BY DEF LockRound, schedVars, At, OSUnlockMutex, InThread
<1> SUFFICES ASSUME NEW m \in Mutexes PROVE Lends(m)'
  BY DEF Inherits
<1>2. \A w, v : ~Walks(v, w)
  BY <1>1 DEF Walks, At
<1>3. CASE owner'[m] = owner[m] \/ owner'[m] = None
  <2>1. Lends(m)
    BY DEF Inherits
  <2> QED BY <1>1, <1>2, <1>3, <2>1 DEF Lends
<1>4. CASE owner[m] = None /\ owner'[m] = exec
  <2>1. q[MutexQ(m)] = <<>>
    BY <1>1, <1>4 DEF Released, At, Frame
  <2>2. Elems(q'[MutexQ(m)]) = {}
    BY <1>1, <2>1 DEF Elems
  <2> QED BY <2>2 DEF Lends
<1> QED BY <1>3, <1>4, OwnerMoves

\* The thread that goes to sleep has lent its priority to the owner.
LEMMA LendsBlock ==
  ASSUME Inv, Blocks, Inherits, Block
  PROVE  Inherits'
<1>1. PICK n \in Mutexes :
        /\ owner[n] \notin {None, exec}
        /\ suspend[owner[n]] > 0 \/ prio[owner[n]] <= prio[exec]
        /\ Elems(q'[MutexQ(n)]) \subseteq Elems(q[MutexQ(n)]) \cup {exec}
        /\ \A k \in Mutexes \ {n} : q'[MutexQ(k)] = q[MutexQ(k)]
        /\ UNCHANGED <<suspend, prio, owner>>
  BY BlockEffect
<1>2. \A w, v : ~Walks(v, w)
  BY DEF Walks, At, Block
<1> SUFFICES ASSUME NEW m \in Mutexes, owner[m] # None, suspend[owner[m]] = 0,
                    NEW w \in Elems(q'[MutexQ(m)])
             PROVE  prio[owner[m]] <= prio[w]
  BY <1>1 DEF Inherits, Lends
<1>3. CASE w \in Elems(q[MutexQ(m)])
  BY <1>2, <1>3 DEF Inherits, Lends
<1>4. CASE w \notin Elems(q[MutexQ(m)])
  <2>1. m = n /\ w = exec
    BY <1>1, <1>4
  <2> QED BY <1>1, <2>1
<1> QED BY <1>3, <1>4

\* A step of a walk over owners gives u, if its waiters are more urgent, a
\* priority no worse than theirs, and goes on to the owner u waits for.
LEMMA LendsWalk ==
  ASSUME Inv, Inv', Found, Waiters, Inherits, Next, "return" \notin Ops, ~Block,
         NEW u \in Threads, UNCHANGED <<suspend, owner>>,
         \A v, w : Walks(v, w) => v = u,
         \A t \in Threads \ {u} : prio'[t] = prio[t],
         \A m \in Mutexes : \A w \in Elems(q[MutexQ(m)]) :
           owner[m] = u /\ suspend[u] = 0 => prio'[u] <= prio[w],
         prio'[u] = prio[u] \/ \A v : Blocked(u) /\ v = owner[waitMutex[u]] => Walks(v, u)'
  PROVE  Inherits'
<1> SUFFICES ASSUME NEW m \in Mutexes, owner[m] # None, suspend[owner[m]] = 0,
                    NEW w \in Elems(q'[MutexQ(m)])
             PROVE  prio'[owner[m]] <= prio'[w] \/ Walks(owner[m], w)'
  BY DEF Inherits, Lends, Walks
<1> DEFINE v == owner[m]
<1>1. w \in Elems(q[MutexQ(m)])
  BY WaitersStay
<1>2. v # w /\ waitMutex[w] = m
  BY <1>1 DEF Waiters
<1>3. v \in Threads /\ w \in Threads /\ state[w] = "waiting"
  <2>1. owner \in [Mutexes -> Threads \cup {None}]
    BY DEF Inv, TypeOK
  <2>2. w \in Threads /\ state[w] = "waiting"
    BY <1>1, QueueNames, EmptyElems DEF Inv, Consistent
  <2> QED BY <2>1, <2>2
<1>4. CASE v = u
  <2>1. prio'[u] <= prio[w] /\ prio'[w] = prio[w]
    BY <1>1, <1>2, <1>3, <1>4
  <2> QED BY <1>4, <2>1
<1>5. CASE v # u
  <2>1. prio[v] <= prio[w] /\ prio'[v] = prio[v]
    BY <1>1, <1>3, <1>5 DEF Inherits, Lends
  <2>2. CASE prio'[w] = prio[w]
    BY <2>1, <2>2
  <2>3. CASE prio'[w] # prio[w]
    <3>1. w = u
      BY <1>3, <2>3
    <3>2. Blocked(u) /\ v = owner[waitMutex[u]]
      BY <1>2, <1>3, <3>1, ConstantsOK DEF Blocked
    <3>3. Walks(v, u)'
      BY <2>3, <3>1, <3>2
    <3> QED BY <3>1, <3>3
  <2> QED BY <2>2, <2>3
<1> QED BY <1>4, <1>5

\* A frame that another one becomes is on top.
LEMMA BecomesTop ==
  ASSUME Inv, Inv', stack[exec] # <<>>, exec' = exec, NEW f \in Frames, Become(<<f>>)
  PROVE  stack'[exec'] # <<>> /\ Head(stack'[exec']) = f
<1> DEFINE r == Tail(stack[exec])
<1>1. exec \in Threads /\ stack \in [Threads -> Seq(Frames)] /\ r \in Seq(Frames)
  BY DEF Inv, TypeOK
<1>2. stack' = [stack EXCEPT ![exec] = Pushed(f, r)]
  BY DEF Become, Pushed
<1> HIDE DEF r
<1>3. Pushed(f, r) # <<>> /\ Head(Pushed(f, r)) = f
  BY <1>1, PushedTop
<1>4. stack'[exec'] = Pushed(f, r)
  BY <1>1, <1>2
<1> QED BY <1>3, <1>4

\* PromoteThreadPriority lends only what makes the owner more urgent.
LEMMA LendsPromote ==
  ASSUME Inv, Inv', Found, Lending, Owners, Waiters, Inherits, Next, "return" \notin Ops, Promote
  PROVE  Inherits'
<1>0. PICK u \in Threads : u = Arg
  BY PromoteEffect
<1>1. /\ At("promote") /\ u \in Threads /\ exec \in Threads /\ Head(stack[exec]).op = "promote"
      /\ prio \in [Threads -> 0 .. NumPriorities] /\ suspend \in [Threads -> Nat]
      /\ UNCHANGED <<suspend, waitMutex, owner, owned, exec>>
      /\ \/ PromoteStops(u) /\ prio' = prio /\ Return
         \/ /\ ~PromoteStops(u) /\ prio' = [prio EXCEPT ![u] = prio[exec]]
            /\ \/ ~Blocked(u) /\ Return
               \/ /\ Blocked(u) /\ owner[waitMutex[u]] \in Threads
                  /\ Become(<<Frame("promote", owner[waitMutex[u]])>>)
  BY <1>0, PromoteEffect
<1>2. ~Block /\ stack[exec] # <<>>
  BY <1>1 DEF Block, At
<1>3. \A v, w : Walks(v, w) => v = u /\ prio[exec] <= prio[w]
  BY <1>0, <1>1 DEF Walks, At
<1>4. /\ prio[u] \in Int /\ prio[exec] \in Int
      /\ \A t \in Threads \ {u} : prio'[t] = prio[t]
      /\ prio'[u] = prio[u] \/ (prio'[u] = prio[exec] /\ prio[exec] < prio[u])
      /\ suspend[u] = 0 => prio'[u] <= prio[exec]
  <2>1. prio[u] \in Int /\ prio[exec] \in Int
    BY <1>1
  <2>2. CASE PromoteStops(u) /\ prio' = prio
    <3>1. suspend[u] = 0 => prio[u] <= prio[exec]
      BY <1>1, <2>2 DEF PromoteStops
    <3> QED BY <2>1, <2>2, <3>1
  <2>3. CASE ~PromoteStops(u) /\ prio' = [prio EXCEPT ![u] = prio[exec]]
    <3>1. prio[exec] < prio[u]
      BY <2>1, <2>3 DEF PromoteStops
    <3> QED BY <1>1, <2>1, <2>3, <3>1
  <2> QED BY <1>1, <2>2, <2>3
<1>5. ASSUME NEW m \in Mutexes, NEW w \in Elems(q[MutexQ(m)]), owner[m] = u, suspend[u] = 0
      PROVE  prio'[u] <= prio[w]
  <2>1. w \in Threads
    BY <1>5, QueueNames, EmptyElems DEF Inv, Consistent
  <2>2. prio[w] \in Int
    BY <1>1, <2>1
  <2>3. u # None
    BY <1>1, ConstantsOK
  <2>4. prio[u] <= prio[w] \/ prio[exec] <= prio[w]
    BY <1>3, <1>5, <2>3 DEF Inherits, Lends
  <2> QED BY <1>4, <1>5, <2>2, <2>4
<1>6. ASSUME prio'[u] # prio[u], NEW v, Blocked(u), v = owner[waitMutex[u]] PROVE Walks(v, u)'
  <2>1. /\ prio' = [prio EXCEPT ![u] = prio[exec]] /\ v \in Threads
        /\ Become(<<Frame("promote", v)>>)
    <3>1. ~(prio' = prio)
      BY <1>6
    <3>2. ~(~Blocked(u) /\ Return)
      BY <1>6
    <3> QED BY <1>1, <1>6, <3>1, <3>2
  <2> DEFINE f == Frame("promote", v)
  <2>2. f \in Frames /\ f.op = "promote" /\ f.arg = v
    <3>1. f \in Frames
      BY <2>1, FrameKinds
    <3> QED BY <3>1 DEF Frame
  <2> HIDE DEF f
  <2>3. Become(<<f>>)
    BY <2>1 DEF f
  <2>4. stack'[exec'] # <<>> /\ Head(stack'[exec']) = f
    BY <1>1, <1>2, <2>2, <2>3, BecomesTop
  <2>5. At("promote")' /\ Arg' = v
    BY <2>2, <2>4 DEF At, Arg
  <2>6. prio'[exec'] <= prio'[u]
    <3>1. exec # u /\ prio'[u] = prio[exec]
      BY <1>1, <1>4, <1>6
    <3> QED BY <1>1, <1>4, <3>1
  <2> QED BY <2>5, <2>6 DEF Walks
<1>7. prio'[u] = prio[u] \/ \A v : Blocked(u) /\ v = owner[waitMutex[u]] => Walks(v, u)'
  BY <1>6
<1> QED BY <1>1, <1>2, <1>3, <1>4, <1>5, <1>7, LendsWalk

\* PropagateMutexOwnerPriority computes what the waiters of a thread lend it.
LEMMA LendsPropagate ==
  ASSUME Inv, Inv', Found, Order, Owners, Waiters, Inherits, Next, "return" \notin Ops, Propagate
  PROVE  Inherits'
<1>0. PICK u \in Threads : u = Arg
  BY Now, FrameArgs DEF Propagate, Arg
<1> DEFINE p == EffectivePriority(u, q, owned[u])
<1>1. /\ At("propagate") /\ u \in Threads /\ exec \in Threads /\ Head(stack[exec]).op = "propagate"
      /\ UNCHANGED <<suspend, waitMutex, owner, owned, exec>>
  BY <1>0, Now DEF Propagate, At, mutexVars
<1>2. \/ (suspend[u] >= 1 \/ prio[u] = p) /\ prio' = prio
      \/ SetThreadEffectivePriority(u, p)
  BY <1>0, Zenon DEF Propagate
<1>3. ~Block /\ stack[exec] # <<>>
  BY <1>1 DEF Block, At
<1>4. \A v, w : Walks(v, w) => v = u
  BY <1>0, <1>1 DEF Walks, At
<1>5. /\ prio \in [Threads -> 0 .. NumPriorities] /\ suspend \in [Threads -> Nat]
      /\ q \in [Queues -> Seq(Threads)] /\ owned[u] \in SUBSET Mutexes
  BY <1>1 DEF Inv, TypeOK
<1>6. p = EffectivePriority(u, q, owned[u])
  OBVIOUS
<1> HIDE DEF p
<1>7. ASSUME SetThreadEffectivePriority(u, p) PROVE prio' = [prio EXCEPT ![u] = p] \/ (Dead(u) /\ prio' = prio)
  BY <1>7 DEF SetThreadEffectivePriority
<1>8. \A t \in Threads \ {u} : prio'[t] = prio[t]
  BY <1>2, <1>5, <1>7
<1>9. ASSUME NEW m \in Mutexes, NEW w \in Elems(q[MutexQ(m)]), owner[m] = u, suspend[u] = 0
      PROVE  prio'[u] <= prio[w]
  <2>1. m \in owned[u] /\ ~Dead(u)
    BY <1>1, <1>9 DEF Owners
  <2>2. Sorted(prio, q[MutexQ(m)])
    BY QueueNames DEF Order
  <2>3. p <= prio[w]
    BY <1>1, <1>5, <1>6, <1>9, <2>1, <2>2, OwnerComputes
  <2>4. prio'[u] = p
    <3>1. CASE (suspend[u] >= 1 \/ prio[u] = p) /\ prio' = prio
      BY <1>9, <3>1
    <3>2. CASE SetThreadEffectivePriority(u, p)
      BY <1>1, <1>5, <1>7, <2>1, <3>2
    <3> QED BY <1>2, <3>1, <3>2
  <2> QED BY <2>3, <2>4
<1>10. ASSUME prio'[u] # prio[u], NEW v, Blocked(u), v = owner[waitMutex[u]] PROVE Walks(v, u)'
  <2>1. SetThreadEffectivePriority(u, p)
    BY <1>2, <1>10
  <2>2. v \in Threads /\ Become(<<Frame("propagate", v)>>)
    BY <1>1, <1>10, <2>1, Walk
  <2> DEFINE f == Frame("propagate", v)
  <2>3. f \in Frames /\ f.op = "propagate" /\ f.arg = v
    <3>1. f \in Frames
      BY <2>2, FrameKinds
    <3> QED BY <3>1 DEF Frame
  <2> HIDE DEF f
  <2>4. Become(<<f>>)
    BY <2>2 DEF f
  <2>5. stack'[exec'] # <<>> /\ Head(stack'[exec']) = f
    BY <1>1, <1>3, <2>3, <2>4, BecomesTop
  <2>6. At("propagate")' /\ Arg' = v
    BY <2>3, <2>5 DEF At, Arg
  <2> QED BY <2>6 DEF Walks
<1>11. prio'[u] = prio[u] \/ \A v : Blocked(u) /\ v = owner[waitMutex[u]] => Walks(v, u)'
  BY <1>10
<1> QED BY <1>1, <1>3, <1>4, <1>8, <1>9, <1>11, LendsWalk

\* Every step keeps unsuspended owners as urgent as their waiters, or under way to it.
LEMMA InheritsStep ==
  ASSUME Inv, Inv', Found, Order, Lending, Owners, Blocks, Waiters, Released, Inherits,
         Next, "return" \notin Ops, "exit" \notin Ops, "cancel" \notin Ops
  PROVE  Inherits'
<1>1. CASE At("block")
  BY <1>1, OnlyTop, LendsBlock
<1>2. CASE At("lock")
  BY <1>2, OnlyTop, LendsLock
<1>3. CASE At("promote")
  BY <1>3, OnlyTop, LendsPromote
<1>4. CASE At("propagate")
  BY <1>4, OnlyTop, LendsPropagate
<1>5. CASE Unlent
  <2>1. CASE UNCHANGED <<prio, suspend>>
    BY <1>5, <2>1, LendsSame
  <2>2. ASSUME NEW u \in Threads, OSResumeThread(u) \/ (TimerFires(u) /\ Resume(u)) PROVE Inherits'
    <3>1. Resume(u)
      BY <2>2, Zenon DEF OSResumeThread
    <3> QED BY <1>5, <3>1, LendsResume
  <2>3. ASSUME NEW u \in Threads, OSSuspendThread(u) PROVE Inherits'
    <3>1. Suspend(u, stack[exec])
      BY <2>3, Zenon DEF OSSuspendThread
    <3> QED BY <1>5, <3>1, LendsSuspend
  <2>4. CASE OSSleepTicks
    <3>1. running \in Threads
      BY <2>4 DEF OSSleepTicks, Inv, TypeOK
    <3>2. PICK rest : Suspend(running, rest)
      BY <2>4, Zenon DEF OSSleepTicks
    <3> QED BY <1>5, <3>1, <3>2, LendsSuspend
  <2>5. CASE TicksDone
    <3>1. suspend[exec] = 0
      BY <2>5, RunsItself DEF TicksDone, Inv, Consistent
    <3>2. UNCHANGED <<prio, suspend>>
      BY <2>5, <3>1 DEF TicksDone
    <3> QED BY <2>1, <3>2
  <2>6. CASE GuestCall
    <3>1. \/ UNCHANGED <<prio, suspend>>
          \/ \E u \in Threads : \/ OSSuspendThread(u)
                                \/ OSResumeThread(u)
                                \/ \E d \in Attrs : OSCreateThread(u, d)
          \/ \E m \in Mutexes : OSUnlockMutex(m)
          \/ OSSleepTicks
      BY <2>6, NoReturn, Zenon DEF GuestCall, OSCancelThread, OSJoinThread, OSDetachThread, OSSleepThread,
         Sleep, OSWakeupThread, OSLockMutex, OSYieldThread, OSExitThread, HandlerBegins, HandlerEnds, DeferredEnds,
         threadVars, mutexVars
    <3> QED BY <2>1, <2>2, <2>3, <2>4, <3>1, LendsCreate, LendsUnlock
  <2>7. CASE HandlerStep
    <3>1. ~Promote /\ ~Propagate
      BY <1>5 DEF Promote, Propagate, Unlent
    <3>2. UNCHANGED <<prio, suspend>> \/ Promote \/ Propagate \/ TicksDone
      BY <2>7, NoReturn, Zenon DEF HandlerStep, SelectRefuses, SelectPreempts, SelectSwitches,
         Dispatch, SelectIdles, WakeOne, WakeDone, Block, Sleep, Slept, Resched, LockRound, ExitTail,
         UnlockAll, WakeThreadJoiners, JoinDone, threadVars, mutexVars
    <3> QED BY <2>1, <2>5, <3>1, <3>2
  <2>8. CASE HostEvent
    <3>1. UNCHANGED <<prio, suspend>> \/ \E u \in Threads : TimerFires(u) /\ Resume(u)
      BY <2>8, Zenon DEF HostEvent, IdleDispatches, Dispatch, IdleEvent, TimerFires, threadVars, mutexVars
    <3> QED BY <2>1, <2>2, <3>1
  <2> QED BY <2>6, <2>7, <2>8 DEF Next
<1> QED BY <1>1, <1>2, <1>3, <1>4, <1>5 DEF Unlent

\* What the inheritance of priorities stands on: queues in order, and what the
\* threads that lend, wait for a mutex or are woken from one are recorded as.
Inheriting == Order /\ Blocks /\ Waiters /\ Released /\ Inherits

\* What the inheritance of priorities stands on holds while no thread ends.
LEMMA InheritingHolds ==
  ASSUME "return" \notin Ops, "exit" \notin Ops, "cancel" \notin Ops, "join" \notin Ops
  PROVE  Spec => []Inheriting
<1> DEFINE Base == Inv /\ Found /\ NobodyJoins /\ Lending /\ Owners
<1>1. Init => Inheriting
  <2> SUFFICES ASSUME Init PROVE Inheriting
    OBVIOUS
  <2>1. exec \in Threads /\ AllIn(Bare)
    BY FrameSeqs, ConstantsOK DEF Init, AllIn
  <2>2. Blocks
    BY <2>1 DEF AllIn, Blocks
  <2>3. \A x \in Queues : q[x] = <<>>
    BY DEF Init
  <2>4. Order
    <3>1. \A x \in BlockQueues : Len(q[x]) = 0
      BY <2>3, QueueNames
    <3> QED BY <3>1 DEF Order, Sorted
  <2>5. \A m \in Mutexes : q[MutexQ(m)] = <<>> /\ Elems(q[MutexQ(m)]) = {}
    <3>1. Elems(<<>>) = {}
      BY DEF Elems
    <3> QED BY <2>3, <3>1, QueueNames
  <2>6. Waiters /\ Released /\ Inherits
    BY <2>5 DEF Waiters, Released, Inherits, Lends
  <2> QED BY <2>2, <2>4, <2>6 DEF Inheriting
<1>2. Base /\ Base' /\ Inheriting /\ [Next]_vars => Inheriting'
  <2> SUFFICES ASSUME Base, Base', Inheriting, [Next]_vars PROVE Inheriting'
    OBVIOUS
  <2>1. CASE Next
    <3>1. Order'
      BY <2>1, OrderStep DEF Inheriting
    <3>2. Blocks'
      BY <2>1, BlocksStep DEF Inheriting, MayEnd
    <3>3. Waiters' /\ Released'
      BY <2>1, WaitersStep, ReleasedStep DEF Inheriting
    <3>4. Inherits'
      BY <2>1, InheritsStep DEF Inheriting
    <3> QED BY <3>1, <3>2, <3>3, <3>4 DEF Inheriting
  <2>2. CASE UNCHANGED vars
    <3>1. UNCHANGED <<q, prio, suspend, waitMutex, owner, exec, stack>>
      BY <2>2 DEF vars, threadVars, mutexVars, schedVars, hostVars
    <3>2. Order'
      BY <3>1 DEF Order, Inheriting
    <3>3. Blocks'
      BY <3>1 DEF Blocks, Wanted, At, Arg, Inheriting
    <3>4. Waiters' /\ Released'
      BY <3>1 DEF Waiters, Released, Inheriting
    <3>5. Inherits'
      BY <3>1 DEF Inherits, Lends, Walks, At, Arg, Inheriting
    <3> QED BY <3>2, <3>3, <3>4, <3>5 DEF Inheriting
  <2> QED BY <2>1, <2>2
<1>3. Spec => [](Inv /\ Lending /\ Owners /\ Lent)
  BY LoansHold DEF MayEnd
<1>4. Spec => [](Inv /\ Found /\ NobodyJoins)
  BY JoinFree
<1> QED BY <1>1, <1>2, <1>3, <1>4, PTL DEF Spec

\* While guest code runs, an unsuspended owner is at least as urgent as the
\* first waiter of each of its mutexes, however long the chain of owners that
\* wait themselves: what PromoteThreadPriority lends before the sleep of
\* OSLockMutex, PropagateMutexOwnerPriority computes again when a waiter is
\* suspended or resumed, and OSUnlockMutex gives back only what nobody lends.
\* With a thread that ends this fails: switched away from while it wakes the
\* waiters of one mutex, it leaves the others to an owner no loan can reach.
\* Where no thread ends, no call of OSJoinThread has anything to return to.
THEOREM OwnersInherit ==
  ASSUME "return" \notin Ops, "exit" \notin Ops, "cancel" \notin Ops, "join" \notin Ops
  PROVE  Spec => []OwnerInherits
<1>1. Inheriting /\ Inv => OwnerInherits
  <2> SUFFICES ASSUME Inheriting, Inv, InThread, NEW m \in Mutexes,
                      owner[m] # None, q[MutexQ(m)] # <<>>, suspend[owner[m]] = 0
               PROVE  prio[owner[m]] <= prio[Head(q[MutexQ(m)])]
    BY DEF OwnerInherits
  <2> DEFINE s == q[MutexQ(m)]
  <2>1. s \in Seq(Threads)
    BY QueueNames DEF Inv, TypeOK
  <2>2. s # <<>> /\ s = q[MutexQ(m)]
    OBVIOUS
  <2> HIDE DEF s
  <2>3. Head(s) = s[1] /\ 1 \in 1 .. Len(s)
    BY <2>1, <2>2
  <2>4. Head(s) \in Elems(s)
    BY <2>3 DEF Elems
  <2>5. \A v, w : ~Walks(v, w)
    BY DEF Walks, At, InThread
  <2> QED BY <2>2, <2>4, <2>5 DEF Inheriting, Inherits, Lends
<1>2. Spec => []Inheriting
  BY InheritingHolds
<1>3. Spec => []Inv
  BY InvHolds
<1> QED BY <1>1, <1>2, <1>3, PTL
=============================================================================
