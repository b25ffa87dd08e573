------------------------ MODULE GuestSchedulerProofs ------------------------
(***************************************************************************)
(* Theorems about GuestScheduler for any threads, mutexes, wait queues and  *)
(* priorities.                                                              *)
(*                                                                          *)
(* None of the queue properties is inductive alone.  That a thread is in    *)
(* one queue needs every handler that links a thread to find it unlinked:   *)
(* a thread that sleeps or is put back on its run queue must be running,    *)
(* and what runs is decided by the host stacks.  Inv therefore says which   *)
(* frames the executing fiber may have when it runs as its thread, when     *)
(* that thread has stopped and only has to switch away, when it idles, and  *)
(* when an alarm handler interrupted it (ExecOK); what the other fibers     *)
(* kept on their stacks (Quiet); and how states, suspend counts,            *)
(* priorities, queue pointers and queues agree (Consistent).                *)
(*                                                                          *)
(* The theorems that need Inv assume that no entry function returns: after  *)
(* FiberProc's return path the ended thread leaves no running context, a    *)
(* later OSSleepThread adopts the default thread whatever its state is, and *)
(* the agreement is lost.                                                   *)
(***************************************************************************)
EXTENDS GuestScheduler, SequenceLemmas

(* Queues. *)

\* Taking a thread out of a queue leaves the others, once each.
LEMMA UnlinkElems ==
  ASSUME NEW T, NEW s \in Seq(T), NEW t, Distinct(s)
  PROVE  /\ Unlink(s, t) \in Seq(T) /\ Distinct(Unlink(s, t))
         /\ Elems(Unlink(s, t)) = Elems(s) \ {t}
<1>1. CASE ~\E i \in 1 .. Len(s) : s[i] = t
  BY <1>1 DEF Unlink, Elems
<1>2. CASE \E i \in 1 .. Len(s) : s[i] = t
  <2> DEFINE k == CHOOSE i \in 1 .. Len(s) : s[i] = t
             r == RemoveAt(s, k)
  <2>1. k \in 1 .. Len(s) /\ s[k] = t
    BY <1>2
  <2>2. Unlink(s, t) = r
    BY <1>2 DEF Unlink
  <2> HIDE DEF k
  <2>3. /\ r \in Seq(T) /\ Len(r) = Len(s) - 1
        /\ \A i \in 1 .. Len(s) - 1 : r[i] = IF i < k THEN s[i] ELSE s[i + 1]
    BY <2>1, RemoveAtShape
  <2> HIDE DEF r
  <2>4. Distinct(r)
    BY <2>1, <2>3 DEF Distinct
  <2>5. ASSUME NEW e \in Elems(r) PROVE e \in Elems(s) \ {t}
    <3>1. PICK i \in 1 .. Len(s) - 1 : e = r[i]
      BY <2>3 DEF Elems
    <3>2. CASE i < k
      BY <2>1, <2>3, <3>1, <3>2 DEF Elems, Distinct
    <3>3. CASE ~(i < k)
      <4>1. e = s[i + 1] /\ i + 1 \in 1 .. Len(s) /\ i + 1 # k
        BY <2>1, <2>3, <3>1, <3>3
      <4> QED BY <2>1, <4>1 DEF Elems, Distinct
    <3> QED BY <3>2, <3>3
  <2>6. ASSUME NEW e \in Elems(s) \ {t} PROVE e \in Elems(r)
    <3>1. PICK i \in 1 .. Len(s) : e = s[i]
      BY DEF Elems
    <3>2. i # k
      BY <2>1, <3>1
    <3>3. CASE i < k
      <4>1. i \in 1 .. Len(r) /\ r[i] = e
        BY <2>1, <2>3, <3>1, <3>3
      <4> QED BY <4>1 DEF Elems
    <3>4. CASE i > k
      <4>1. i - 1 \in 1 .. Len(r) /\ r[i - 1] = e
        BY <2>1, <2>3, <3>1, <3>4
      <4> QED BY <4>1 DEF Elems
    <3> QED BY <2>1, <3>2, <3>3, <3>4
  <2> QED BY <2>2, <2>3, <2>4, <2>5, <2>6
<1> QED BY <1>1, <1>2

\* Unlinking from any list of threads leaves a list of threads.
LEMMA UnlinkSeq ==
  ASSUME NEW T, NEW s \in Seq(T), NEW t
  PROVE  Unlink(s, t) \in Seq(T)
<1> DEFINE k == CHOOSE i \in 1 .. Len(s) : s[i] = t
<1>1. CASE \E i \in 1 .. Len(s) : s[i] = t
  <2>1. k \in 1 .. Len(s)
    BY <1>1
  <2>2. Unlink(s, t) = RemoveAt(s, k)
    BY <1>1 DEF Unlink
  <2> QED BY <2>1, <2>2, RemoveAtShape
<1>2. CASE ~\E i \in 1 .. Len(s) : s[i] = t
  BY <1>2 DEF Unlink
<1> QED BY <1>1, <1>2

(* Choices of the scheduler. *)

USE ConstantsOK

\* Dispatch takes the most urgent pending priority: there is one.
LEMMA LeastPriority ==
  ASSUME NEW pp \in SUBSET Prios, pp # {}
  PROVE  LET p == CHOOSE r \in pp : \A s \in pp : r <= s
         IN p \in pp /\ \A s \in pp : p <= s
<1>1. pp \in SUBSET Nat
  BY DEF Prios
<1>2. \E r \in pp : \A s \in pp : r <= s
  BY <1>1, LeastNat
<1> QED BY <1>2

\* A thread always has a place in a queue, before the first less urgent one.
LEMMA InsertPlace ==
  ASSUME prio \in [Threads -> 0 .. NumPriorities], NEW s \in Seq(Threads), NEW p \in 0 .. NumPriorities
  PROVE  /\ InsertPosition(s, p) \in 1 .. Len(s) + 1
         /\ \A j \in 1 .. InsertPosition(s, p) - 1 : prio[s[j]] <= p
         /\ InsertPosition(s, p) <= Len(s) => prio[s[InsertPosition(s, p)]] > p
<1> DEFINE S == {i \in 1 .. Len(s) + 1 : i <= Len(s) => prio[s[i]] > p}
           Fits(i) == /\ \A j \in 1 .. i - 1 : prio[s[j]] <= p
                      /\ i <= Len(s) => prio[s[i]] > p
<1>1. S \in SUBSET Nat /\ Len(s) + 1 \in S
  OBVIOUS
<1>2. PICK m \in S : \A n \in S : m <= n
  BY <1>1, LeastNat
<1>3. \A j \in 1 .. m - 1 : prio[s[j]] <= p
  <2> TAKE j \in 1 .. m - 1
  <2>1. j \notin S /\ j \in 1 .. Len(s)
    BY <1>2
  <2>2. s[j] \in Threads /\ prio[s[j]] \in 0 .. NumPriorities
    BY <2>1
  <2> QED BY <2>1, <2>2
<1>4. m \in 1 .. Len(s) + 1 /\ Fits(m)
  BY <1>2, <1>3
<1>5. InsertPosition(s, p) = CHOOSE i \in 1 .. Len(s) + 1 : Fits(i)
  BY DEF InsertPosition
<1> HIDE DEF Fits
<1>6. InsertPosition(s, p) \in 1 .. Len(s) + 1 /\ Fits(InsertPosition(s, p))
  BY <1>4, <1>5
<1> QED BY <1>6 DEF Fits

\* A computed priority is the best of the base priority and of the first waiters.
LEMMA EffectiveIsBest ==
  ASSUME prio \in [Threads -> 0 .. NumPriorities], NEW t \in Threads,
         NEW qq \in [Queues -> Seq(Threads)], NEW ms \in SUBSET Mutexes
  PROVE  /\ EffectivePriority(t, qq, ms) \in Prios
         /\ EffectivePriority(t, qq, ms) <= BasePriority[t]
         /\ ms = {} => EffectivePriority(t, qq, ms) = BasePriority[t]
         /\ \A m \in ms : qq[MutexQ(m)] # <<>> =>
              EffectivePriority(t, qq, ms) <= prio[Head(qq[MutexQ(m)])]
<1> DEFINE heads == {prio[Head(qq[MutexQ(m)])] : m \in {n \in ms : qq[MutexQ(n)] # <<>>}}
           best  == heads \cup {BasePriority[t]}
<1>1. BasePriority[t] \in Prios /\ BasePriority[t] \in Nat
  BY DEF Prios
<1>2. ASSUME NEW m \in ms, qq[MutexQ(m)] # <<>>
      PROVE  prio[Head(qq[MutexQ(m)])] \in Nat
  <2>1. MutexQ(m) \in Queues
    BY DEF Queues, BlockQueues
  <2>2. Head(qq[MutexQ(m)]) \in Threads
    BY <1>2, <2>1
  <2> QED BY <2>2
<1>3. /\ best \in SUBSET Nat /\ best # {} /\ BasePriority[t] \in best
      /\ ms = {} => best = {BasePriority[t]}
      /\ \A m \in ms : qq[MutexQ(m)] # <<>> => prio[Head(qq[MutexQ(m)])] \in best
  BY <1>1, <1>2
<1> HIDE DEF best
<1>4. \E p \in best : \A r \in best : p <= r
  BY <1>3, LeastNat
<1> DEFINE c == CHOOSE p \in best : \A r \in best : p <= r
<1>5. c \in best /\ \A r \in best : c <= r
  BY <1>4
<1>6. c \in Nat /\ c <= BasePriority[t]
  BY <1>3, <1>5
<1>7. EffectivePriority(t, qq, ms) = c
  BY DEF EffectivePriority, best
<1> HIDE DEF c
<1>8. c \in Prios
  BY <1>1, <1>6 DEF Prios
<1>9. ms = {} => c = BasePriority[t]
  BY <1>3, <1>5
<1>10. \A m \in ms : qq[MutexQ(m)] # <<>> => c <= prio[Head(qq[MutexQ(m)])]
  BY <1>3, <1>5
<1> QED BY <1>6, <1>7, <1>8, <1>9, <1>10

\* A computed priority is a priority of the run queues.
LEMMA EffectiveIsPriority ==
  ASSUME prio \in [Threads -> 0 .. NumPriorities], NEW t \in Threads,
         NEW qq \in [Queues -> Seq(Threads)], NEW ms \in SUBSET Mutexes
  PROVE  EffectivePriority(t, qq, ms) \in Prios
BY EffectiveIsBest

-----------------------------------------------------------------------------
(* Names of queues. *)

\* The queues have different names, and none of them is the null pointer.
LEMMA QueueNames ==
  /\ \A p, r \in Prios : RunQ(p) = RunQ(r) => p = r
  /\ \A p \in Prios : RunQ(p) \in Queues /\ RunQ(p) \notin BlockQueues
  /\ \A x \in Queues : x \in BlockQueues \/ \E p \in Prios : x = RunQ(p)
  /\ \A x \in Queues : x # None
  /\ BlockQueues \subseteq Queues
  /\ \A t \in Threads : JoinQ(t) \in BlockQueues
  /\ \A m \in Mutexes : MutexQ(m) \in BlockQueues
  /\ \A w \in WaitQueues : WaitQ(w) \in BlockQueues
<1>1. \A p, r \in Prios : RunQ(p) = RunQ(r) => p = r
  BY DEF RunQ
<1>2. \A p \in Prios : RunQ(p) \notin BlockQueues
  BY DEF RunQ, BlockQueues, JoinQ, MutexQ, WaitQ
<1>3. \A x \in Queues : x # None
  BY NoneNotAQueue
<1>4. \A p \in Prios : RunQ(p) \in Queues
  BY DEF Queues, RunQueues
<1>5. \A x \in Queues : x \in BlockQueues \/ \E p \in Prios : x = RunQ(p)
  BY DEF Queues, RunQueues
<1>6. BlockQueues \subseteq Queues
  BY DEF Queues
<1>7. \A t \in Threads : JoinQ(t) \in BlockQueues
  BY DEF BlockQueues
<1>8. \A m \in Mutexes : MutexQ(m) \in BlockQueues
  BY DEF BlockQueues
<1>9. \A w \in WaitQueues : WaitQ(w) \in BlockQueues
  BY DEF BlockQueues
<1> QED BY <1>1, <1>2, <1>3, <1>4, <1>5, <1>6, <1>7, <1>8, <1>9

-----------------------------------------------------------------------------
(* Queues, states and queue pointers that agree. *)

\* What OSExitThread and OSCancelThread leave behind, or a structure not in use.
DeadStates == {"none", "moribund"}

\* st, su, pr and qu are the states, suspend counts, priorities and queue
\* pointers of the threads, qq the queues.
Consistent(st, su, pr, qu, qq) ==
  /\ \A x \in Queues : qq[x] \in Seq(Threads) /\ Distinct(qq[x])
  /\ \A x \in Queues : \A t \in Elems(qq[x]) : qu[t] = x
  /\ \A x \in BlockQueues : \A t \in Elems(qq[x]) : st[t] = "waiting"
  /\ \A p \in Prios : \A t \in Elems(qq[RunQ(p)]) : st[t] = "ready" /\ su[t] = 0 /\ pr[t] = p
  /\ \A t \in Threads : st[t] = "waiting" => qu[t] \in BlockQueues
  /\ \A t \in Threads : st[t] = "running" => qu[t] = None /\ su[t] = 0
  /\ \A t \in Threads : st[t] \notin DeadStates /\ su[t] = 0 => pr[t] \in Prios

\* A thread that neither waits nor is runnable is in no queue.
LEMMA Unlinked ==
  ASSUME NEW st, NEW su, NEW pr, NEW qu, NEW qq, Consistent(st, su, pr, qu, qq),
         NEW t, st[t] # "waiting", st[t] # "ready" \/ su[t] # 0,
         NEW x \in Queues
  PROVE  t \notin Elems(qq[x])
BY QueueNames DEF Consistent

\* Queues qq2 are queues qq with thread t linked in y and nowhere else.
Placed(qq, qq2, t, y) ==
  \A x \in Queues : /\ qq2[x] \in Seq(Threads) /\ Distinct(qq2[x])
                     /\ Elems(qq2[x]) = (Elems(qq[x]) \ {t}) \cup (IF x = y THEN {t} ELSE {})

\* Thread t moves to queue y, or out of all queues, and gets what its new place
\* demands; nothing happens to the others.
Moves(st, su, pr, qu, qq, st2, su2, pr2, qu2, qq2, t, y) ==
  /\ t \in Threads /\ y \in Queues \cup {None}
  /\ \A u \in Threads \ {t} : st2[u] = st[u] /\ su2[u] = su[u] /\ pr2[u] = pr[u] /\ qu2[u] = qu[u]
  /\ Placed(qq, qq2, t, y)
  /\ y # None => qu2[t] = y
  /\ y \in BlockQueues => st2[t] = "waiting"
  /\ \A p \in Prios : y = RunQ(p) => st2[t] = "ready" /\ su2[t] = 0 /\ pr2[t] = p
  /\ st2[t] = "waiting" => qu2[t] \in BlockQueues
  /\ st2[t] = "running" => qu2[t] = None /\ su2[t] = 0
  /\ st2[t] \notin DeadStates /\ su2[t] = 0 => pr2[t] \in Prios

\* A move keeps everything in agreement.
LEMMA Relinked ==
  ASSUME NEW st, NEW su, NEW pr, NEW qu, NEW qq, Consistent(st, su, pr, qu, qq),
         NEW st2, NEW su2, NEW pr2, NEW qu2, NEW qq2, NEW t, NEW y,
         Moves(st, su, pr, qu, qq, st2, su2, pr2, qu2, qq2, t, y)
  PROVE  Consistent(st2, su2, pr2, qu2, qq2)
<1> USE DEF Moves, Placed
<1>1. \A x \in Queues : Elems(qq2[x]) \subseteq Threads
  BY EmptyElems
<1>2. ASSUME NEW x \in Queues, NEW u \in Elems(qq2[x])
      PROVE  \/ u = t /\ x = y
             \/ u \in Threads \ {t} /\ u \in Elems(qq[x])
  BY <1>1, <1>2
<1>3. \A x \in Queues : \A u \in Elems(qq2[x]) : qu2[u] = x
  BY <1>2, QueueNames DEF Consistent
<1>4. \A x \in BlockQueues : \A u \in Elems(qq2[x]) : st2[u] = "waiting"
  <2> TAKE x \in BlockQueues
  <2> TAKE u \in Elems(qq2[x])
  <2>1. x \in Queues
    BY QueueNames
  <2>2. CASE u = t /\ x = y
    BY <2>2
  <2>3. CASE u \in Threads \ {t} /\ u \in Elems(qq[x])
    BY <2>3 DEF Consistent
  <2> QED BY <1>2, <2>1, <2>2, <2>3
<1>5. \A p \in Prios : \A u \in Elems(qq2[RunQ(p)]) : st2[u] = "ready" /\ su2[u] = 0 /\ pr2[u] = p
  <2> TAKE p \in Prios
  <2> TAKE u \in Elems(qq2[RunQ(p)])
  <2>1. RunQ(p) \in Queues
    BY QueueNames
  <2>2. CASE u = t /\ RunQ(p) = y
    BY <2>2
  <2>3. CASE u \in Threads \ {t} /\ u \in Elems(qq[RunQ(p)])
    BY <2>3 DEF Consistent
  <2> QED BY <1>2, <2>1, <2>2, <2>3
<1>6. \A u \in Threads : st2[u] = "waiting" => qu2[u] \in BlockQueues
  BY DEF Consistent
<1>7. \A u \in Threads : st2[u] = "running" => qu2[u] = None /\ su2[u] = 0
  BY DEF Consistent
<1>8. \A u \in Threads : st2[u] \notin DeadStates /\ su2[u] = 0 => pr2[u] \in Prios
  BY DEF Consistent
<1>9. \A x \in Queues : qq2[x] \in Seq(Threads) /\ Distinct(qq2[x])
  OBVIOUS
<1> QED BY <1>3, <1>4, <1>5, <1>6, <1>7, <1>8, <1>9 DEF Consistent

\* A thread that is in no queue may change freely.
LEMMA Apart ==
  ASSUME NEW st, NEW su, NEW pr, NEW qu, NEW qq, Consistent(st, su, pr, qu, qq),
         NEW st2, NEW su2, NEW pr2, NEW qu2, NEW t \in Threads,
         \A x \in Queues : t \notin Elems(qq[x]),
         \A u \in Threads \ {t} : st2[u] = st[u] /\ su2[u] = su[u] /\ pr2[u] = pr[u] /\ qu2[u] = qu[u],
         st2[t] = "waiting" => qu2[t] \in BlockQueues,
         st2[t] = "running" => qu2[t] = None /\ su2[t] = 0,
         st2[t] \notin DeadStates /\ su2[t] = 0 => pr2[t] \in Prios
  PROVE  Consistent(st2, su2, pr2, qu2, qq)
<1>1. \A x \in Queues : \A u \in Elems(qq[x]) : u \in Threads \ {t}
  BY EmptyElems DEF Consistent
<1>2. \A p \in Prios : RunQ(p) \in Queues
  BY QueueNames
<1>3. BlockQueues \subseteq Queues
  BY QueueNames
<1> QED BY <1>1, <1>2, <1>3 DEF Consistent

\* RemoveThreadFromQueue takes t out of the one queue it may be in.
LEMMA RemoveEffect ==
  ASSUME q \in [Queues -> Seq(Threads)], queue \in [Threads -> Queues \cup {None}],
         NEW st, NEW su, NEW pr, Consistent(st, su, pr, queue, q), NEW t \in Threads
  PROVE  /\ RemoveThreadFromQueue(t) \in [Queues -> Seq(Threads)]
         /\ \A x \in Queues : /\ Distinct(RemoveThreadFromQueue(t)[x])
                              /\ Elems(RemoveThreadFromQueue(t)[x]) = Elems(q[x]) \ {t}
<1> DEFINE r == RemoveThreadFromQueue(t)
<1>1. CASE queue[t] = None
  <2>1. r = q
    BY <1>1 DEF RemoveThreadFromQueue
  <2>2. \A x \in Queues : t \notin Elems(q[x])
    BY <1>1, QueueNames DEF Consistent
  <2> QED BY <2>1, <2>2 DEF Consistent
<1>2. CASE queue[t] # None
  <2>1. queue[t] \in Queues
    BY <1>2
  <2>2. r = [q EXCEPT ![queue[t]] = Unlink(q[queue[t]], t)]
    BY <1>2 DEF RemoveThreadFromQueue
  <2>3. /\ Unlink(q[queue[t]], t) \in Seq(Threads) /\ Distinct(Unlink(q[queue[t]], t))
        /\ Elems(Unlink(q[queue[t]], t)) = Elems(q[queue[t]]) \ {t}
    BY <2>1, UnlinkElems DEF Consistent
  <2>4. \A x \in Queues : x # queue[t] => t \notin Elems(q[x])
    BY DEF Consistent
  <2>5. \A x \in Queues : r[x] = IF x = queue[t] THEN Unlink(q[queue[t]], t) ELSE q[x]
    BY <2>2
  <2>6. r \in [Queues -> Seq(Threads)]
    BY <2>2, <2>3
  <2> HIDE DEF r
  <2>7. \A x \in Queues : Distinct(r[x]) /\ Elems(r[x]) = Elems(q[x]) \ {t}
    BY <2>3, <2>4, <2>5 DEF Consistent
  <2> QED BY <2>6, <2>7 DEF r
<1> QED BY <1>1, <1>2

\* Linking t by priority in queue x, where it is not, adds it there.
LEMMA InsertEffect ==
  ASSUME prio \in [Threads -> 0 .. NumPriorities],
         NEW qq \in [Queues -> Seq(Threads)], NEW x \in Queues, NEW t \in Threads,
         NEW p \in 0 .. NumPriorities, t \notin Elems(qq[x]), Distinct(qq[x])
  PROVE  /\ InsertByPriority(qq, x, t, p) \in [Queues -> Seq(Threads)]
         /\ \A y \in Queues \ {x} : InsertByPriority(qq, x, t, p)[y] = qq[y]
         /\ Distinct(InsertByPriority(qq, x, t, p)[x])
         /\ Elems(InsertByPriority(qq, x, t, p)[x]) = Elems(qq[x]) \cup {t}
<1> DEFINE s == InsertAt(qq[x], InsertPosition(qq[x], p), t)
<1>1. InsertPosition(qq[x], p) \in 1 .. Len(qq[x]) + 1
  BY InsertPlace
<1>2. s \in Seq(Threads) /\ Distinct(s) /\ Elems(s) = Elems(qq[x]) \cup {t}
  BY <1>1, InsertElems
<1>3. InsertByPriority(qq, x, t, p) = [qq EXCEPT ![x] = s]
  BY DEF InsertByPriority
<1> QED BY <1>2, <1>3

\* UpdatePendingMask clears the bit of a run queue that became empty, no other.
LEMMA MaskEffect ==
  ASSUME q \in [Queues -> Seq(Threads)], queue \in [Threads -> Queues \cup {None}],
         NEW st, NEW su, NEW pr, Consistent(st, su, pr, queue, q), PendingMask,
         NEW t \in Threads
  PROVE  UpdatePendingMask(t) = {p \in Prios : RemoveThreadFromQueue(t)[RunQ(p)] # <<>>}
<1> DEFINE r == RemoveThreadFromQueue(t)
<1>1. \A p \in Prios : queue[t] # RunQ(p) => r[RunQ(p)] = q[RunQ(p)]
  BY QueueNames DEF RemoveThreadFromQueue
<1>2. \A p \in Prios : r[RunQ(p)] # <<>> => q[RunQ(p)] # <<>>
  <2> TAKE p \in Prios
  <2>1. RunQ(p) \in Queues
    BY QueueNames
  <2>2. Elems(r[RunQ(p)]) \subseteq Elems(q[RunQ(p)]) /\ r[RunQ(p)] \in Seq(Threads)
    BY <2>1, RemoveEffect
  <2> QED BY <2>1, <2>2, EmptyElems
<1> HIDE DEF r
<1>3. UpdatePendingMask(t) = {p \in pending : queue[t] = RunQ(p) => r[RunQ(p)] # <<>>}
  BY DEF UpdatePendingMask, r
<1> QED BY <1>1, <1>2, <1>3 DEF PendingMask, r
-----------------------------------------------------------------------------
(* The inductive invariant. *)

\* The idle loop of SelectThread, and the interrupted code under an alarm handler.
IdleFrame    == Frame("idle", None)
HandlerFrame == Frame("handler", None)

\* Frames of calls that a thread makes as itself, on any stack.
Quiet == {f \in Frames : f.op \notin {"idle", "handler", "wakeReturn", "fiberEnd"}}

\* Frames that may execute although the thread on the host is leaving it.
PlainOps == {"select", "resched", "propagate", "wake", "wakeMore", "wakeQuiet",
             "unlockAll", "joiners"}
Plain    == {f \in Frames : f.op \in PlainOps}

\* Frames that reach a switch if the thread is not running any more; r is the
\* reschedule flag.
Leaves(r) == {f \in Quiet : f.op \in {"select", "yield", "exitTail"} \/ (f.op = "resched" /\ r)}

\* What the executing fiber ex may have on its stack s, when run is the running
\* context, dis the disable count, st the state of ex and r the flag.
ExecOK(s, run, ex, dis, st, r) ==
  /\ run # ex => dis = 0 /\ st # "running" /\ Over(s, Plain, {IdleFrame}, Quiet)
  /\ run = ex /\ dis = 0 =>
       /\ s \in Seq(Quiet)
       /\ st # "running" => Over(s, Plain, Leaves(r), Quiet)
  /\ dis # 0 =>
       /\ dis = 1 /\ run = ex
       /\ Over(s, Quiet, {HandlerFrame}, {})
       /\ st # "running" => r /\ Over(s, Plain, {HandlerFrame}, {})

\* The host: the running thread is the one that executes, unless SelectThread idles.
Host ==
  /\ running \in {exec, None}
  /\ running = exec => current = exec
  /\ \A t \in Threads : state[t] = "running" => t = exec /\ running = exec
  /\ \A t \in Threads \ {exec} : stack[t] \in Seq(Quiet)
  /\ \A t \in Threads : terminated[t] => state[t] \in DeadStates
  /\ ExecOK(stack[exec], running, exec, disable, state[exec], resched)

\* An owned mutex is held at least once.
Held == \A m \in Mutexes : owner[m] # None => count[m] > 0

\* The inductive invariant.
Inv == TypeOK /\ Consistent(state, suspend, prio, queue, q) /\ PendingMask /\ Host /\ Held

\* Which handler remainders are plain and which are quiet.
LEMMA FrameKinds ==
  /\ Frame("select", None) \in Plain /\ Frame("resched", None) \in Plain
  /\ \A x \in BlockQueues : /\ Frame("wake", x) \in Plain /\ Frame("wakeMore", x) \in Plain
                            /\ Frame("wakeQuiet", x) \in Plain
                            /\ Frame("block", x) \in Quiet /\ Frame("slept", x) \in Quiet
  /\ \A t \in Threads : /\ Frame("propagate", t) \in Plain /\ Frame("unlockAll", t) \in Plain
                        /\ Frame("joiners", t) \in Plain
                        /\ Frame("promote", t) \in Quiet /\ Frame("join", t) \in Quiet
  /\ \A m \in Mutexes : Frame("lock", m) \in Quiet
  /\ Frame("yield", None) \in Quiet /\ Frame("ticks", None) \in Quiet
  /\ Frame("exitTail", None) \in Quiet
  /\ Plain \subseteq Quiet /\ Quiet \subseteq Frames
  /\ IdleFrame \in Frames /\ HandlerFrame \in Frames
<1>1. /\ Frame("select", None) \in Plain /\ Frame("resched", None) \in Plain
  BY DEF Frame, Frames, Plain, PlainOps
<1>2. ASSUME NEW x \in BlockQueues
      PROVE  /\ Frame("wake", x) \in Plain /\ Frame("wakeMore", x) \in Plain
             /\ Frame("wakeQuiet", x) \in Plain
             /\ Frame("block", x) \in Quiet /\ Frame("slept", x) \in Quiet
  BY DEF Frame, Frames, Plain, PlainOps, Quiet
<1>3. ASSUME NEW t \in Threads
      PROVE  /\ Frame("propagate", t) \in Plain /\ Frame("unlockAll", t) \in Plain
             /\ Frame("joiners", t) \in Plain
             /\ Frame("promote", t) \in Quiet /\ Frame("join", t) \in Quiet
  BY DEF Frame, Frames, Plain, PlainOps, Quiet
<1>4. \A m \in Mutexes : Frame("lock", m) \in Quiet
  BY DEF Frame, Frames, Quiet
<1>5. /\ Frame("yield", None) \in Quiet /\ Frame("ticks", None) \in Quiet
      /\ Frame("exitTail", None) \in Quiet
  BY DEF Frame, Frames, Quiet
<1>6. Plain \subseteq Quiet /\ Quiet \subseteq Frames
  BY DEF Plain, PlainOps, Quiet
<1>7. IdleFrame \in Frames /\ HandlerFrame \in Frames
  BY DEF IdleFrame, HandlerFrame, Frame, Frames
<1> QED BY <1>1, <1>2, <1>3, <1>4, <1>5, <1>6, <1>7

\* The live variable of a handler remainder has the type its handler reads.
LEMMA FrameArgs ==
  ASSUME NEW f \in Frames
  PROVE  /\ f.op \in {"wake", "wakeMore", "wakeQuiet", "block", "slept"} => f.arg \in BlockQueues
         /\ f.op = "lock" => f.arg \in Mutexes
         /\ f.op \in {"promote", "propagate", "join", "joiners", "unlockAll"} => f.arg \in Threads
BY DEF Frames

\* A plain frame may return unless the thread relies on it to leave its CPU.
LEMMA PopPlain ==
  ASSUME NEW s \in Seq(Frames), NEW run, NEW ex, NEW dis, NEW st, NEW r,
         ExecOK(s, run, ex, dis, st, r), s # <<>>, Head(s) \in Plain,
         st = "running" \/ run # ex \/ dis # 0 \/ Head(s) \notin Leaves(r)
  PROVE  ExecOK(Tail(s), run, ex, dis, st, r)
<1>1. Head(s) # IdleFrame /\ Head(s) # HandlerFrame /\ Head(s) \in Quiet
  BY DEF Plain, PlainOps, IdleFrame, HandlerFrame, Frame, Quiet
<1>2. CASE run # ex
  <2>1. Over(Tail(s), Plain, {IdleFrame}, Quiet)
    BY <1>1, <1>2, OverPop DEF ExecOK
  <2> QED BY <1>2, <2>1 DEF ExecOK
<1>3. CASE run = ex /\ dis = 0
  <2>1. Tail(s) \in Seq(Quiet)
    BY <1>3 DEF ExecOK
  <2>2. st # "running" => Over(Tail(s), Plain, Leaves(r), Quiet)
    BY <1>3, OverPop DEF ExecOK
  <2> QED BY <1>3, <2>1, <2>2 DEF ExecOK
<1>4. CASE run = ex /\ dis # 0
  <2>1. Over(Tail(s), Quiet, {HandlerFrame}, {})
    BY <1>1, <1>4, OverPop DEF ExecOK
  <2>2. st # "running" => Over(Tail(s), Plain, {HandlerFrame}, {})
    BY <1>1, <1>4, OverPop DEF ExecOK
  <2> QED BY <1>4, <2>1, <2>2 DEF ExecOK
<1> QED BY <1>2, <1>3, <1>4

\* Any fiber may call a handler of the plain kind.
LEMMA PushPlain ==
  ASSUME NEW s \in Seq(Frames), NEW run, NEW ex, NEW dis, NEW st, NEW r,
         ExecOK(s, run, ex, dis, st, r), NEW f \in Plain
  PROVE  ExecOK(<<f>> \o s, run, ex, dis, st, r) /\ <<f>> \o s \in Seq(Frames)
<1>1. f \in Quiet /\ f \in Frames /\ Plain \in SUBSET Frames /\ Quiet \in SUBSET Frames
  BY FrameKinds
<1>2. CASE run # ex
  <2>1. Over(<<f>> \o s, Plain, {IdleFrame}, Quiet)
    BY <1>1, <1>2, OverPush DEF ExecOK
  <2> QED BY <1>1, <1>2, <2>1 DEF ExecOK
<1>3. CASE run = ex /\ dis = 0
  <2>1. <<f>> \o s \in Seq(Quiet)
    BY <1>1, <1>3 DEF ExecOK
  <2>2. st # "running" => Over(<<f>> \o s, Plain, Leaves(r), Quiet)
    BY <1>1, <1>3, OverPush DEF ExecOK
  <2> QED BY <1>1, <1>3, <2>1, <2>2 DEF ExecOK
<1>4. CASE run = ex /\ dis # 0
  <2>1. Over(<<f>> \o s, Quiet, {HandlerFrame}, {})
    BY <1>1, <1>4, OverPush DEF ExecOK
  <2>2. st # "running" => Over(<<f>> \o s, Plain, {HandlerFrame}, {})
    BY <1>1, <1>4, OverPush DEF ExecOK
  <2> QED BY <1>1, <1>4, <2>1, <2>2 DEF ExecOK
<1> QED BY <1>2, <1>3, <1>4

\* On the running thread every quiet frame may return.
LEMMA PopLive ==
  ASSUME NEW s \in Seq(Frames), NEW run, NEW ex, NEW dis, NEW r,
         ExecOK(s, run, ex, dis, "running", r), s # <<>>, Head(s) \in Quiet
  PROVE  ExecOK(Tail(s), run, ex, dis, "running", r)
<1>1. Head(s) # HandlerFrame /\ run = ex
  BY DEF HandlerFrame, Frame, Quiet, ExecOK
<1>2. CASE dis = 0
  <2>1. Tail(s) \in Seq(Quiet)
    BY <1>1, <1>2 DEF ExecOK
  <2> QED BY <1>1, <1>2, <2>1 DEF ExecOK
<1>3. CASE dis # 0
  <2>1. Over(Tail(s), Quiet, {HandlerFrame}, {})
    BY <1>1, <1>3, OverPop DEF ExecOK
  <2> QED BY <1>1, <1>3, <2>1 DEF ExecOK
<1> QED BY <1>2, <1>3

\* The running thread may call every quiet handler.
LEMMA PushLive ==
  ASSUME NEW s \in Seq(Frames), NEW run, NEW ex, NEW dis, NEW r,
         ExecOK(s, run, ex, dis, "running", r), NEW f \in Quiet
  PROVE  ExecOK(<<f>> \o s, run, ex, dis, "running", r) /\ <<f>> \o s \in Seq(Frames)
<1>1. f \in Frames /\ Quiet \in SUBSET Frames /\ run = ex
  BY FrameKinds DEF ExecOK
<1>2. CASE dis = 0
  <2>1. <<f>> \o s \in Seq(Quiet)
    BY <1>1, <1>2 DEF ExecOK
  <2> QED BY <1>1, <1>2, <2>1 DEF ExecOK
<1>3. CASE dis # 0
  <2>1. Over(<<f>> \o s, Quiet, {HandlerFrame}, {})
    BY <1>1, <1>3, OverPush DEF ExecOK
  <2> QED BY <1>1, <1>3, <2>1 DEF ExecOK
<1> QED BY <1>2, <1>3

\* What is on top tells who runs.
LEMMA Tops ==
  ASSUME NEW s \in Seq(Frames), NEW run, NEW ex, NEW dis, NEW st, NEW r,
         ExecOK(s, run, ex, dis, st, r)
  PROVE  /\ s = <<>> => run = ex /\ dis = 0 /\ st = "running"
         /\ s # <<>> /\ Head(s) \notin Plain \cup {IdleFrame} => run = ex
         /\ s # <<>> /\ Head(s) \notin Plain \cup {HandlerFrame} \cup Leaves(r) => run # ex \/ st = "running"
         /\ s # <<>> /\ Head(s) = IdleFrame => run # ex /\ Tail(s) \in Seq(Quiet)
         /\ s # <<>> /\ Head(s) = HandlerFrame => dis = 1 /\ Tail(s) \in Seq({})
<1>1. \A F, G, B : Over(<<>>, F, G, B) = FALSE
  BY DEF Over
<1>2. IdleFrame # HandlerFrame /\ IdleFrame \notin Quiet /\ HandlerFrame \notin Quiet
      /\ IdleFrame \notin Plain /\ HandlerFrame \notin Plain
  BY DEF IdleFrame, HandlerFrame, Frame, Quiet, Plain, PlainOps
<1>3. s = <<>> => run = ex /\ dis = 0 /\ st = "running"
  BY <1>1 DEF ExecOK
<1>4. s # <<>> /\ Head(s) \notin Plain \cup {IdleFrame} => run = ex
  BY OverPop DEF ExecOK
<1>5. s # <<>> /\ Head(s) \notin Plain \cup {HandlerFrame} \cup Leaves(r) => run # ex \/ st = "running"
  BY OverPop DEF ExecOK
<1>6. ASSUME s # <<>>, Head(s) = IdleFrame PROVE run # ex /\ Tail(s) \in Seq(Quiet)
  <2>1. run = ex /\ dis = 0 => Head(s) \in Quiet
    BY <1>6 DEF ExecOK
  <2>2. dis # 0 => Head(s) \in Quiet \cup {HandlerFrame}
    BY <1>6, OverPop DEF ExecOK
  <2>3. run # ex
    BY <1>2, <1>6, <2>1, <2>2
  <2>4. Tail(s) \in Seq(Quiet)
    BY <1>2, <1>6, <2>3, OverPop DEF ExecOK
  <2> QED BY <2>3, <2>4
<1>7. ASSUME s # <<>>, Head(s) = HandlerFrame PROVE dis = 1 /\ Tail(s) \in Seq({})
  <2>1. run = ex /\ dis = 0 => Head(s) \in Quiet
    BY <1>7 DEF ExecOK
  <2>2. run # ex => Head(s) \in Plain \cup {IdleFrame}
    BY <1>7, OverPop DEF ExecOK
  <2>3. dis # 0
    BY <1>2, <1>7, <2>1, <2>2
  <2>4. Tail(s) \in Seq({})
    BY <1>2, <1>7, <2>3, OverPop DEF ExecOK
  <2> QED BY <2>3, <2>4 DEF ExecOK
<1> QED BY <1>3, <1>4, <1>5, <1>6, <1>7

\* No other kind of frame can be on top of the executing fiber.
LEMMA TopKinds ==
  ASSUME NEW s \in Seq(Frames), NEW run, NEW ex, NEW dis, NEW st, NEW r,
         ExecOK(s, run, ex, dis, st, r), s # <<>>
  PROVE  Head(s) \in Quiet \cup {IdleFrame, HandlerFrame}
<1>1. Plain \subseteq Quiet
  BY FrameKinds
<1>2. run # ex => Head(s) \in Plain \cup {IdleFrame}
  BY OverPop DEF ExecOK
<1>3. dis # 0 => Head(s) \in Quiet \cup {HandlerFrame}
  BY OverPop DEF ExecOK
<1>4. run = ex /\ dis = 0 => Head(s) \in Quiet
  BY DEF ExecOK
<1> QED BY <1>1, <1>2, <1>3, <1>4

\* Setting the reschedule flag only adds frames that switch.
LEMMA Raise ==
  ASSUME NEW s, NEW run, NEW ex, NEW dis, NEW st, NEW r \in BOOLEAN, NEW r2 \in BOOLEAN,
         ExecOK(s, run, ex, dis, st, r), r => r2, NEW st2,
         st = "running" \/ st2 # "running" , st2 # "running" => st # "running"
  PROVE  ExecOK(s, run, ex, dis, st2, r2)
<1>1. Leaves(r) \subseteq Leaves(r2)
  BY DEF Leaves
<1>2. Over(s, Plain, Leaves(r), Quiet) => Over(s, Plain, Leaves(r2), Quiet)
  BY <1>1, OverMore
<1> QED BY <1>2, Zenon DEF ExecOK

\* A handler may go on with another of its frames.
LEMMA Replace ==
  ASSUME NEW s \in Seq(Frames), NEW run, NEW ex, NEW dis, NEW st, NEW r,
         ExecOK(s, run, ex, dis, st, r), s # <<>>, Head(s) \in Plain, NEW f \in Plain,
         Head(s) \in Leaves(r) => f \in Leaves(r)
  PROVE  ExecOK(<<f>> \o Tail(s), run, ex, dis, st, r) /\ <<f>> \o Tail(s) \in Seq(Frames)
<1>1. Tail(s) \in Seq(Frames) /\ f \in Frames /\ f \in Quiet
  BY FrameKinds
<1>2. CASE st = "running" \/ run # ex \/ dis # 0 \/ Head(s) \notin Leaves(r)
  <2>1. ExecOK(Tail(s), run, ex, dis, st, r)
    BY <1>2, PopPlain
  <2> QED BY <1>1, <2>1, PushPlain
<1>3. CASE run = ex /\ dis = 0 /\ st # "running" /\ Head(s) \in Leaves(r)
  <2>1. Tail(s) \in Seq(Quiet) /\ f \in Leaves(r)
    BY <1>3 DEF ExecOK
  <2>2. Over(<<f>> \o Tail(s), Plain, Leaves(r), Quiet)
    BY <2>1, OverTop
  <2>3. <<f>> \o Tail(s) \in Seq(Quiet)
    BY <1>1, <2>1
  <2> QED BY <1>1, <1>3, <2>2, <2>3 DEF ExecOK
<1> QED BY <1>2, <1>3

\* A thread that stopped running is left by the switching frame on top of its
\* stack.
LEMMA LeaveTop ==
  ASSUME NEW s \in Seq(Quiet), NEW ex, NEW st, NEW r, NEW f \in Leaves(r)
  PROVE  ExecOK(<<f>> \o s, ex, ex, 0, st, r) /\ <<f>> \o s \in Seq(Frames)
<1>1. f \in Quiet /\ Quiet \subseteq Frames
  BY FrameKinds DEF Leaves
<1>2. <<f>> \o s \in Seq(Quiet)
  BY <1>1
<1>3. Over(<<f>> \o s, Plain, Leaves(r), Quiet)
  BY OverTop
<1>4. <<f>> \o s \in Seq(Frames)
  BY <1>1, <1>2
<1> QED BY <1>2, <1>3, <1>4 DEF ExecOK

\* Stacks with one or two frames called on top of s.
Pushed(f, s)      == <<f>> \o s
TwoOver(f, g, s)  == <<f, g>> \o s
PairOver(f, g, s) == (<<f>> \o <<g>>) \o s

\* A call that pushes two frames is two calls that push one each.
LEMMA TwoFrames ==
  ASSUME NEW T, NEW s \in Seq(T), NEW f \in T, NEW g \in T
  PROVE  /\ TwoOver(f, g, s) = Pushed(f, Pushed(g, s))
         /\ PairOver(f, g, s) = Pushed(f, Pushed(g, s))
<1>1. <<f>> \in Seq(T) /\ <<g>> \in Seq(T) /\ <<>> \in Seq(T)
  OBVIOUS
<1>2. (<<f>> \o <<g>>) \o s = <<f>> \o (<<g>> \o s)
  BY <1>1, ConcatAssociative
<1>3. <<f, g>> = <<f>> \o <<g>>
  <2> DEFINE r == <<f>> \o <<g>>
  <2>1. r \in Seq(T) /\ Len(r) = 2 /\ r[1] = f /\ r[2] = g
    BY <1>1, ConcatProperties
  <2>2. <<f, g>> \in Seq(T) /\ Len(<<f, g>>) = 2
    OBVIOUS
  <2> HIDE DEF r
  <2>3. \A i \in 1 .. 2 : r[i] = <<f, g>>[i]
    BY <2>1
  <2>4. r = <<f, g>>
    BY <2>1, <2>2, <2>3, SeqEqual
  <2> QED BY <2>4 DEF r
<1> QED BY <1>2, <1>3, Zenon DEF Pushed, TwoOver, PairOver

\* A step that changes only the executing stack keeps the host consistent if the
\* new stack suits the thread.
LEMMA HostStep ==
  ASSUME Inv, NEW s \in Seq(Frames), stack' = [stack EXCEPT ![exec] = s],
         UNCHANGED <<exec, running, current, disable>>,
         \A t \in Threads : state'[t] = "running" => state[t] = "running",
         \A t \in Threads : terminated'[t] => state'[t] \in DeadStates,
         ExecOK(s, running, exec, disable, state'[exec], resched')
  PROVE  Host' /\ stack' \in [Threads -> Seq(Frames)]
<1>1. exec \in Threads /\ stack \in [Threads -> Seq(Frames)]
  BY DEF Inv, TypeOK
<1>2. stack'[exec] = s /\ \A t \in Threads \ {exec} : stack'[t] = stack[t]
  BY <1>1
<1>3. Host
  BY DEF Inv
<1>4. running' \in {exec', None} /\ (running' = exec' => current' = exec')
  BY <1>3 DEF Host
<1>5. \A t \in Threads : state'[t] = "running" => t = exec' /\ running' = exec'
  BY <1>3 DEF Host
<1>6. \A t \in Threads \ {exec'} : stack'[t] \in Seq(Quiet)
  BY <1>2, <1>3 DEF Host
<1>7. ExecOK(stack'[exec'], running', exec', disable', state'[exec'], resched')
  BY <1>2
<1>8. stack' \in [Threads -> Seq(Frames)]
  BY <1>1
<1> QED BY <1>4, <1>5, <1>6, <1>7, <1>8 DEF Host

\* A step that moves no thread keeps the invariant if the new stack suits the
\* thread.
LEMMA StackStep ==
  ASSUME Inv, NEW s \in Seq(Frames), stack' = [stack EXCEPT ![exec] = s],
         ExecOK(s, running, exec, disable, state[exec], resched'),
         UNCHANGED <<state, suspend, prio, queue, terminated, threadList, q,
                     pending, disable, running, current, exec>>,
         resched'   \in BOOLEAN,
         detached'  \in [Threads -> BOOLEAN],
         waitMutex' \in [Threads -> Mutexes \cup {None}],
         owned'  \in [Threads -> SUBSET Mutexes],
         owner'  \in [Mutexes -> Threads \cup {None}],
         count'  \in [Mutexes -> Nat],
         timers' \in SUBSET Threads, parks' \in SUBSET Threads,
         Held'
  PROVE  Inv'
<1>1. Host' /\ stack' \in [Threads -> Seq(Frames)]
  <2>1. \A t \in Threads : terminated'[t] => state'[t] \in DeadStates
    BY DEF Inv, Host
  <2>2. ExecOK(s, running, exec, disable, state'[exec], resched')
    OBVIOUS
  <2>3. \A t \in Threads : state'[t] = "running" => state[t] = "running"
    OBVIOUS
  <2> QED BY <2>1, <2>2, <2>3, HostStep, Zenon
<1>2. TypeOK'
  BY <1>1 DEF Inv, TypeOK
<1>3. Consistent(state, suspend, prio, queue, q)' /\ PendingMask'
  BY DEF Inv, PendingMask
<1> QED BY <1>1, <1>2, <1>3 DEF Inv

\* A stack with nothing under its top is that one frame.
LEMMA SingleFrame ==
  ASSUME NEW T, NEW s \in Seq(T), s # <<>>, Tail(s) \in Seq({})
  PROVE  s = <<Head(s)>>
<1>1. Head(s) \in T /\ Len(Tail(s)) = Len(s) - 1 /\ Len(s) \in Nat
  BY HeadTailProperties, LenProperties
<1>2. Len(s) = 1 /\ s[1] = Head(s)
  BY <1>1
<1>3. <<Head(s)>> \in Seq(T) /\ Len(<<Head(s)>>) = 1 /\ <<Head(s)>>[1] = Head(s)
  BY <1>1
<1> QED BY <1>2, <1>3, SeqEqual

-----------------------------------------------------------------------------
\* What the invariant says of the fiber that executes.
LEMMA Now ==
  ASSUME Inv
  PROVE  /\ exec \in Threads /\ stack[exec] \in Seq(Frames)
         /\ ExecOK(stack[exec], running, exec, disable, state[exec], resched)
         /\ InThread => running = exec /\ disable = 0 /\ state[exec] = "running"
                          /\ stack[exec] \in Seq(Quiet)
         /\ InHandler => running = exec /\ disable = 1 /\ stack[exec] = <<HandlerFrame>>
         /\ exec # None
         /\ \A op : At(op) => /\ stack[exec] # <<>> /\ Head(stack[exec]) \in Frames
                              /\ Tail(stack[exec]) \in Seq(Frames)
                              /\ Head(stack[exec]).op = op
                              /\ Head(stack[exec]) \in Quiet \cup {IdleFrame, HandlerFrame}
         /\ At("idle") => Head(stack[exec]) = IdleFrame
<1>1. /\ exec \in Threads /\ stack[exec] \in Seq(Frames)
      /\ ExecOK(stack[exec], running, exec, disable, state[exec], resched)
  BY DEF Inv, TypeOK, Host
<1>2. exec # None
  BY <1>1
<1>3. \A op : At(op) => /\ stack[exec] # <<>> /\ Head(stack[exec]) \in Frames
                        /\ Tail(stack[exec]) \in Seq(Frames)
                        /\ Head(stack[exec]).op = op
                        /\ Head(stack[exec]) \in Quiet \cup {IdleFrame, HandlerFrame}
  BY <1>1, TopKinds DEF At
<1>4. InThread => running = exec /\ disable = 0 /\ state[exec] = "running"
                    /\ stack[exec] \in Seq(Quiet)
  <2>1. stack[exec] = <<>> => running = exec /\ disable = 0 /\ state[exec] = "running"
    BY <1>1, Tops
  <2>2. <<>> \in Seq(Quiet)
    OBVIOUS
  <2> QED BY <2>1, <2>2, Zenon DEF InThread
<1>5. ASSUME InHandler PROVE running = exec /\ disable = 1 /\ stack[exec] = <<HandlerFrame>>
  <2>1. Head(stack[exec]) = HandlerFrame
    BY <1>3, <1>5 DEF InHandler, Quiet, IdleFrame, HandlerFrame, Frame
  <2>2. disable = 1 /\ Tail(stack[exec]) \in Seq({}) /\ stack[exec] # <<>>
    BY <1>1, <1>3, <1>5, <2>1, Tops DEF InHandler
  <2>3. running = exec
    BY <1>1, <2>2 DEF ExecOK
  <2>4. stack[exec] = <<HandlerFrame>>
    BY <1>1, <2>1, <2>2, SingleFrame
  <2> QED BY <2>2, <2>3, <2>4
<1>6. At("idle") => Head(stack[exec]) = IdleFrame
  BY <1>3 DEF Quiet, IdleFrame, HandlerFrame, Frame
<1> QED BY <1>1, <1>2, <1>3, <1>4, <1>5, <1>6, Zenon

\* A call made by guest code may push a frame that any call leaves.
LEMMA PushCall ==
  ASSUME Inv, InGuest, NEW f \in Plain
  PROVE  /\ ExecOK(<<f>> \o stack[exec], running, exec, disable, state[exec], resched)
         /\ <<f>> \o stack[exec] \in Seq(Frames)
BY Now, PushPlain

\* A step that changes nothing but the executing stack.
LEMMA StackOnly ==
  ASSUME Inv, NEW s \in Seq(Frames), stack' = [stack EXCEPT ![exec] = s],
         ExecOK(s, running, exec, disable, state[exec], resched),
         UNCHANGED <<threadVars, mutexVars, schedVars, parkVars, exec>>
  PROVE  Inv'
BY StackStep DEF Inv, TypeOK, Held, threadVars, mutexVars, schedVars, parkVars

\* SelectThread that returns without switching keeps the invariant.
LEMMA SelectRefusesStep ==
  ASSUME Inv, SelectRefuses
  PROVE  Inv'
<1> DEFINE f == Head(stack[exec])
<1>1. /\ stack[exec] # <<>> /\ f \in Frames /\ f.op \in {"select", "yield"}
      /\ stack[exec] \in Seq(Frames) /\ Tail(stack[exec]) \in Seq(Frames) /\ f \in Quiet
      /\ ExecOK(stack[exec], running, exec, disable, state[exec], resched)
  BY Now DEF SelectRefuses, AtSelect, Quiet, IdleFrame, HandlerFrame, Frame
<1>2. f.op = "select" => f \in Plain
  BY <1>1 DEF Plain, PlainOps
<1>3. f.op = "yield" => f \notin Plain /\ f # IdleFrame /\ f # HandlerFrame
  BY DEF Plain, PlainOps, IdleFrame, HandlerFrame, Frame
<1>4. state[exec] = "running" \/ running # exec \/ disable # 0
  BY DEF SelectRefuses, Refused, KeepsRunning, Inv, TypeOK, Host
<1>5. f.op = "yield" => state[exec] = "running"
  <2> SUFFICES ASSUME f.op = "yield" PROVE state[exec] = "running"
    OBVIOUS
  <2>1. running = exec
    BY <1>1, <1>3, Tops
  <2>2. disable # 0 => Over(stack[exec], Plain, {HandlerFrame}, {}) \/ state[exec] = "running"
    BY <1>1 DEF ExecOK
  <2> QED BY <1>1, <1>3, <1>4, <2>1, <2>2, OverPop
<1>6. ExecOK(Tail(stack[exec]), running, exec, disable, state[exec], resched)
  <2>1. CASE state[exec] = "running"
    BY <1>1, <2>1, PopLive
  <2>2. CASE state[exec] # "running"
    <3>1. f \in Plain
      BY <1>1, <1>2, <1>5, <2>2
    <3> QED BY <1>1, <1>4, <2>2, <3>1, PopPlain
  <2> QED BY <2>1, <2>2
<1>7. stack' = [stack EXCEPT ![exec] = Tail(stack[exec])]
  BY <1>1, ConcatEmptySeq DEF SelectRefuses, Return, Become
<1>8. /\ UNCHANGED <<threadVars, mutexVars, schedVars, parkVars, exec>>
  BY DEF SelectRefuses
<1> QED BY <1>1, <1>6, <1>7, <1>8, StackOnly

\* A wake-up from the idle loop keeps the invariant.
LEMMA IdleEventStep ==
  ASSUME Inv, NEW w \in WaitQueues, IdleEvent(w)
  PROVE  Inv'
<1>1. Frame("wakeQuiet", WaitQ(w)) \in Plain
  BY FrameKinds, QueueNames
<1>2. /\ ExecOK(<<Frame("wakeQuiet", WaitQ(w))>> \o stack[exec], running, exec, disable,
                state[exec], resched)
      /\ <<Frame("wakeQuiet", WaitQ(w))>> \o stack[exec] \in Seq(Frames)
  BY <1>1, Now, PushPlain
<1> QED BY <1>2, StackOnly DEF IdleEvent, Call

\* The end of a wake-up loop keeps the invariant.
LEMMA WakeDoneStep ==
  ASSUME Inv, WakeDone
  PROVE  Inv'
<1> DEFINE f == Head(stack[exec])
<1>1. /\ stack[exec] # <<>> /\ f \in Quiet /\ f.op \in {"wake", "wakeMore", "wakeQuiet"}
      /\ stack[exec] \in Seq(Frames) /\ Tail(stack[exec]) \in Seq(Frames)
      /\ ExecOK(stack[exec], running, exec, disable, state[exec], resched)
  BY Now DEF WakeDone, Quiet, IdleFrame, HandlerFrame, Frame
<1>2. f \in Plain /\ f \notin Leaves(resched)
  BY <1>1 DEF Plain, PlainOps, Quiet, Leaves
<1>3. ExecOK(Tail(stack[exec]), running, exec, disable, state[exec], resched)
  BY <1>1, <1>2, PopPlain
<1>4. Select \in Plain
  BY FrameKinds DEF Select
<1>5. /\ ExecOK(<<Select>> \o Tail(stack[exec]), running, exec, disable, state[exec], resched)
      /\ <<Select>> \o Tail(stack[exec]) \in Seq(Frames)
  BY <1>1, <1>3, <1>4, PushPlain
<1>6. UNCHANGED <<threadVars, mutexVars, schedVars, parkVars, exec>>
  BY DEF WakeDone
<1>7. CASE At("wakeMore")
  <2>1. stack' = [stack EXCEPT ![exec] = <<Select>> \o Tail(stack[exec])]
    BY <1>7 DEF WakeDone, Become
  <2> QED BY <1>5, <1>6, <2>1, StackOnly
<1>8. CASE ~At("wakeMore")
  <2>1. stack' = [stack EXCEPT ![exec] = Tail(stack[exec])]
    BY <1>1, <1>8, ConcatEmptySeq DEF WakeDone, Become
  <2> QED BY <1>1, <1>3, <1>6, <2>1, StackOnly
<1> QED BY <1>7, <1>8

\* OSWakeupThread keeps the invariant.
LEMMA OSWakeupThreadStep ==
  ASSUME Inv, NEW w \in WaitQueues, OSWakeupThread(w)
  PROVE  Inv'
<1>1. Frame("wake", WaitQ(w)) \in Plain
  BY FrameKinds, QueueNames
<1> QED BY <1>1, PushCall, StackOnly DEF OSWakeupThread, Calls, Call

\* The reschedule at the end of suspend, resume and cancel keeps the invariant.
LEMMA ReschedStep ==
  ASSUME Inv, Resched
  PROVE  Inv'
<1> DEFINE f == Head(stack[exec])
<1>1. /\ stack[exec] # <<>> /\ f \in Quiet /\ f.op = "resched"
      /\ stack[exec] \in Seq(Frames) /\ Tail(stack[exec]) \in Seq(Frames)
      /\ ExecOK(stack[exec], running, exec, disable, state[exec], resched)
  BY Now DEF Resched, Quiet, IdleFrame, HandlerFrame, Frame
<1>2. f \in Plain
  BY <1>1 DEF Plain, PlainOps, Quiet
<1>3. Select \in Plain /\ Select \in Leaves(resched)
  BY FrameKinds DEF Select, Leaves, Frame
<1>4. UNCHANGED <<threadVars, mutexVars, schedVars, parkVars, exec>>
  BY DEF Resched
<1>5. CASE resched
  <2>1. /\ ExecOK(<<Select>> \o Tail(stack[exec]), running, exec, disable, state[exec], resched)
        /\ <<Select>> \o Tail(stack[exec]) \in Seq(Frames)
    BY <1>1, <1>2, <1>3, Replace
  <2>2. stack' = [stack EXCEPT ![exec] = <<Select>> \o Tail(stack[exec])]
    BY <1>5 DEF Resched, Become
  <2> QED BY <1>4, <2>1, <2>2, StackOnly
<1>6. CASE ~resched
  <2>1. f \notin Leaves(resched)
    BY <1>1, <1>6 DEF Leaves
  <2>2. ExecOK(Tail(stack[exec]), running, exec, disable, state[exec], resched)
    BY <1>1, <1>2, <2>1, PopPlain
  <2>3. stack' = [stack EXCEPT ![exec] = Tail(stack[exec])]
    BY <1>1, <1>6, ConcatEmptySeq DEF Resched, Become
  <2> QED BY <1>1, <1>4, <2>2, <2>3, StackOnly
<1> QED BY <1>5, <1>6

\* Waking the joiners of an ended thread keeps the invariant.
LEMMA WakeThreadJoinersStep ==
  ASSUME Inv, WakeThreadJoiners
  PROVE  Inv'
<1> DEFINE f == Head(stack[exec])
           g == Frame("wake", JoinQ(Arg))
<1>1. /\ stack[exec] # <<>> /\ f \in Quiet /\ f.op = "joiners" /\ Arg \in Threads
      /\ stack[exec] \in Seq(Frames) /\ Tail(stack[exec]) \in Seq(Frames)
      /\ ExecOK(stack[exec], running, exec, disable, state[exec], resched)
  BY Now, FrameArgs DEF WakeThreadJoiners, Quiet, IdleFrame, HandlerFrame, Frame, Arg
<1>2. f \in Plain /\ f \notin Leaves(resched)
  BY <1>1 DEF Plain, PlainOps, Quiet, Leaves
<1>3. g \in Plain
  BY <1>1, FrameKinds, QueueNames
<1> HIDE DEF g
<1>4. /\ ExecOK(<<g>> \o Tail(stack[exec]), running, exec, disable, state[exec], resched)
      /\ <<g>> \o Tail(stack[exec]) \in Seq(Frames)
  BY <1>1, <1>2, <1>3, Replace
<1>5. stack' = [stack EXCEPT ![exec] = <<g>> \o Tail(stack[exec])]
  BY DEF WakeThreadJoiners, Become, g
<1> QED BY <1>4, <1>5, StackOnly DEF WakeThreadJoiners

\* OSYieldThread keeps the invariant.
LEMMA OSYieldThreadStep ==
  ASSUME Inv, OSYieldThread
  PROVE  Inv'
<1>1. /\ ExecOK(<<Frame("yield", None)>> \o stack[exec], running, exec, disable, state[exec], resched)
      /\ <<Frame("yield", None)>> \o stack[exec] \in Seq(Frames)
  BY Now, PushLive, FrameKinds DEF OSYieldThread
<1> QED BY <1>1, StackOnly DEF OSYieldThread, Call

\* The entry of OSLockMutex keeps the invariant.
LEMMA OSLockMutexStep ==
  ASSUME Inv, NEW m \in Mutexes, OSLockMutex(m)
  PROVE  Inv'
<1>1. /\ ExecOK(<<Frame("lock", m)>> \o stack[exec], running, exec, disable, state[exec], resched)
      /\ <<Frame("lock", m)>> \o stack[exec] \in Seq(Frames)
  BY Now, PushLive, FrameKinds DEF OSLockMutex
<1> QED BY <1>1, StackOnly DEF OSLockMutex, Call

\* The entry of OSJoinThread keeps the invariant.
LEMMA OSJoinThreadStep ==
  ASSUME Inv, NEW u \in Threads, OSJoinThread(u)
  PROVE  Inv'
<1> DEFINE f == Frame("block", JoinQ(u))
           g == Frame("join", u)
           s == Pushed(g, stack[exec])
           r == Pushed(f, s)
<1>1. f \in Quiet /\ g \in Quiet /\ f \in Frames /\ g \in Frames
  BY FrameKinds, QueueNames
<1>2. stack[exec] \in Seq(Frames) /\ state[exec] = "running"
      /\ ExecOK(stack[exec], running, exec, disable, state[exec], resched)
  BY Now DEF OSJoinThread
<1>3. \/ stack' = [stack EXCEPT ![exec] = <<g>> \o stack[exec]]
      \/ stack' = [stack EXCEPT ![exec] = <<f, g>> \o stack[exec]]
  BY DEF OSJoinThread, Call
<1> HIDE DEF f, g
<1>4. ExecOK(s, running, exec, disable, state[exec], resched) /\ s \in Seq(Frames)
  BY <1>1, <1>2, PushLive DEF Pushed
<1>5. TwoOver(f, g, stack[exec]) = r
  BY <1>1, <1>2, TwoFrames
<1>6. \/ stack' = [stack EXCEPT ![exec] = s]
      \/ stack' = [stack EXCEPT ![exec] = r]
  BY <1>3, <1>5, Zenon DEF Pushed, TwoOver
<1> HIDE DEF s
<1>7. ExecOK(r, running, exec, disable, state[exec], resched) /\ r \in Seq(Frames)
  BY <1>1, <1>2, <1>4, PushLive DEF Pushed
<1> HIDE DEF r
<1>8. UNCHANGED <<threadVars, mutexVars, schedVars, parkVars, exec>>
  BY DEF OSJoinThread
<1> QED BY <1>4, <1>6, <1>7, <1>8, StackOnly

\* A round of the OSLockMutex loop keeps the invariant: the owner has the mutex
\* at least once.
LEMMA LockRoundStep ==
  ASSUME Inv, LockRound
  PROVE  Inv'
<1> DEFINE h == Head(stack[exec])
           m == Arg
           f == Frame("promote", owner[m])
           g == Frame("block", MutexQ(m))
           s == Pushed(g, stack[exec])
           r == Pushed(f, s)
<1>1. /\ stack[exec] # <<>> /\ h \in Quiet /\ h.op = "lock" /\ m \in Mutexes
      /\ stack[exec] \in Seq(Frames) /\ Tail(stack[exec]) \in Seq(Frames) /\ exec \in Threads
      /\ ExecOK(stack[exec], running, exec, disable, state[exec], resched)
  BY Now, FrameArgs DEF LockRound, Quiet, IdleFrame, HandlerFrame, Frame, Arg
<1>2. state[exec] = "running"
  <2>1. h \notin Plain \cup {IdleFrame, HandlerFrame} \cup Leaves(resched)
    BY <1>1 DEF Plain, PlainOps, Leaves, IdleFrame, HandlerFrame, Frame
  <2> QED BY <1>1, <2>1, Tops
<1>3. ExecOK(Tail(stack[exec]), running, exec, disable, state[exec], resched)
  BY <1>1, <1>2, PopLive
<1>4. /\ owned \in [Threads -> SUBSET Mutexes] /\ owner \in [Mutexes -> Threads \cup {None}]
      /\ count \in [Mutexes -> Nat] /\ waitMutex \in [Threads -> Mutexes \cup {None}]
      /\ timers \in SUBSET Threads /\ parks \in SUBSET Threads /\ Held /\ resched \in BOOLEAN
      /\ detached \in [Threads -> BOOLEAN]
  BY DEF Inv, TypeOK
<1>5. /\ UNCHANGED <<state, detached, suspend, prio, queue, terminated, threadList,
                     schedVars, parkVars, exec>>
  BY DEF LockRound
<1>6. \/ /\ owner' = [owner EXCEPT ![m] = exec] /\ owner[m] = None
         /\ count' = [count EXCEPT ![m] = @ + 1]
         /\ owned' = [owned EXCEPT ![exec] = @ \cup {m}]
         /\ waitMutex' = [waitMutex EXCEPT ![exec] = None]
         /\ stack' = [stack EXCEPT ![exec] = Tail(stack[exec])]
      \/ /\ count'     = [count EXCEPT ![m] = @ + 1]
         /\ waitMutex' = [waitMutex EXCEPT ![exec] = None]
         /\ stack' = [stack EXCEPT ![exec] = Tail(stack[exec])]
         /\ UNCHANGED <<owner, owned>>
      \/ /\ owner[m] \notin {None, exec}
         /\ waitMutex' = [waitMutex EXCEPT ![exec] = m]
         /\ stack' = [stack EXCEPT ![exec] = <<f, g>> \o stack[exec]]
         /\ UNCHANGED mutexVars
  BY <1>1, ConcatEmptySeq DEF LockRound, Return, Become, Call
<1>7. ASSUME count' = [count EXCEPT ![m] = @ + 1],
             waitMutex' = [waitMutex EXCEPT ![exec] = None],
             stack' = [stack EXCEPT ![exec] = Tail(stack[exec])],
             \/ owner' = [owner EXCEPT ![m] = exec] /\ owned' = [owned EXCEPT ![exec] = @ \cup {m}]
             \/ UNCHANGED <<owner, owned>>
      PROVE  Inv'
  <2> HIDE DEF m
  <2>1. \A n \in Mutexes : count'[n] = IF n = m THEN count[n] + 1 ELSE count[n]
    BY <1>1, <1>4, <1>7
  <2>2. count' \in [Mutexes -> Nat]
    BY <1>1, <1>4, <1>7, <2>1
  <2>3. /\ owned' \in [Threads -> SUBSET Mutexes] /\ owner' \in [Mutexes -> Threads \cup {None}]
        /\ waitMutex' \in [Threads -> Mutexes \cup {None}]
    <3>1. waitMutex' \in [Threads -> Mutexes \cup {None}]
      BY <1>4, <1>7
    <3>2. [owner EXCEPT ![m] = exec] \in [Mutexes -> Threads \cup {None}]
      BY <1>1, <1>4
    <3>3. [owned EXCEPT ![exec] = @ \cup {m}] \in [Threads -> SUBSET Mutexes]
      BY <1>1, <1>4
    <3> QED BY <1>4, <1>7, <3>1, <3>2, <3>3, Zenon
  <2>4. \A n \in Mutexes \ {m} : owner'[n] = owner[n]
    BY <1>1, <1>4, <1>7
  <2>5. Held'
    BY <1>1, <1>4, <2>1, <2>4 DEF Held
  <2> QED BY <1>1, <1>3, <1>4, <1>5, <1>7, <2>2, <2>3, <2>5, StackStep DEF schedVars, parkVars
<1>8. CASE /\ owner[m] \notin {None, exec}
           /\ waitMutex' = [waitMutex EXCEPT ![exec] = m]
           /\ stack' = [stack EXCEPT ![exec] = <<f, g>> \o stack[exec]]
           /\ UNCHANGED mutexVars
  <2>1. owner[m] \in Threads
    BY <1>1, <1>4, <1>8
  <2>2. f \in Quiet /\ g \in Quiet /\ f \in Frames /\ g \in Frames
    BY <1>1, <2>1, FrameKinds, QueueNames
  <2> HIDE DEF m, f, g
  <2>3. ExecOK(s, running, exec, disable, state[exec], resched) /\ s \in Seq(Frames)
    BY <1>1, <1>2, <2>2, PushLive DEF Pushed
  <2>4. TwoOver(f, g, stack[exec]) = r
    BY <1>1, <2>2, TwoFrames
  <2>5. stack' = [stack EXCEPT ![exec] = r]
    BY <1>8, <2>4, Zenon DEF TwoOver
  <2> HIDE DEF s
  <2>6. ExecOK(r, running, exec, disable, state[exec], resched) /\ r \in Seq(Frames)
    BY <1>1, <1>2, <2>2, <2>3, PushLive DEF Pushed
  <2> HIDE DEF r
  <2>7. waitMutex' \in [Threads -> Mutexes \cup {None}]
    BY <1>1, <1>4, <1>8
  <2>8. /\ owned' \in [Threads -> SUBSET Mutexes] /\ owner' \in [Mutexes -> Threads \cup {None}]
        /\ count' \in [Mutexes -> Nat] /\ Held'
    BY <1>4, <1>8 DEF mutexVars, Held
  <2> QED BY <1>4, <1>5, <2>5, <2>6, <2>7, <2>8, StackStep DEF schedVars, parkVars
<1> QED BY <1>6, <1>7, <1>8

\* Releasing the mutexes of an ended thread keeps the invariant.
LEMMA UnlockAllStep ==
  ASSUME Inv, UnlockAll
  PROVE  Inv'
<1> DEFINE h == Head(stack[exec])
           u == Arg
<1>1. /\ stack[exec] # <<>> /\ h \in Quiet /\ h.op = "unlockAll" /\ u \in Threads
      /\ stack[exec] \in Seq(Frames) /\ Tail(stack[exec]) \in Seq(Frames)
      /\ ExecOK(stack[exec], running, exec, disable, state[exec], resched)
  BY Now, FrameArgs DEF UnlockAll, Quiet, IdleFrame, HandlerFrame, Frame, Arg
<1>2. h \in Plain /\ h \notin Leaves(resched)
  BY <1>1 DEF Plain, PlainOps, Quiet, Leaves
<1>3. /\ owned \in [Threads -> SUBSET Mutexes] /\ owner \in [Mutexes -> Threads \cup {None}]
      /\ count \in [Mutexes -> Nat] /\ waitMutex \in [Threads -> Mutexes \cup {None}]
      /\ timers \in SUBSET Threads /\ parks \in SUBSET Threads /\ Held /\ resched \in BOOLEAN
      /\ detached \in [Threads -> BOOLEAN]
  BY DEF Inv, TypeOK
<1>4. UNCHANGED <<threadVars, schedVars, parkVars, exec>>
  BY DEF UnlockAll
<1>5. CASE Return /\ UNCHANGED mutexVars
  <2>1. stack' = [stack EXCEPT ![exec] = Tail(stack[exec])]
    BY <1>1, <1>5, ConcatEmptySeq DEF Return, Become
  <2>2. ExecOK(Tail(stack[exec]), running, exec, disable, state[exec], resched)
    BY <1>1, <1>2, PopPlain
  <2> QED BY <1>1, <1>4, <1>5, <2>1, <2>2, StackOnly
<1>6. ASSUME NEW m \in owned[u],
             owned' = [owned EXCEPT ![u] = @ \ {m}],
             owner' = [owner EXCEPT ![m] = None],
             count' = [count EXCEPT ![m] = 0],
             Call(<<Frame("wake", MutexQ(m))>>)
      PROVE  Inv'
  <2>1. m \in Mutexes
    BY <1>1, <1>3
  <2>2. Frame("wake", MutexQ(m)) \in Plain
    BY <2>1, FrameKinds, QueueNames
  <2>3. /\ ExecOK(<<Frame("wake", MutexQ(m))>> \o stack[exec], running, exec, disable, state[exec], resched)
        /\ <<Frame("wake", MutexQ(m))>> \o stack[exec] \in Seq(Frames)
    BY <1>1, <2>2, PushPlain
  <2>4. stack' = [stack EXCEPT ![exec] = <<Frame("wake", MutexQ(m))>> \o stack[exec]]
    BY <1>6 DEF Call
  <2> HIDE DEF u
  <2>5. /\ owned' \in [Threads -> SUBSET Mutexes] /\ owner' \in [Mutexes -> Threads \cup {None}]
        /\ count' \in [Mutexes -> Nat]
    BY <1>1, <1>3, <1>6, <2>1
  <2>6. Held'
    BY <1>3, <1>6, <2>1 DEF Held
  <2> QED BY <1>3, <1>4, <2>3, <2>4, <2>5, <2>6, StackStep DEF threadVars, schedVars, parkVars
<1> QED BY <1>5, <1>6 DEF UnlockAll

\* A thread structure that becomes unused was moribund, in no queue.
LEMMA ReapStep ==
  ASSUME Inv, NEW u \in Threads, state[u] = "moribund",
         state' = [state EXCEPT ![u] = "none"],
         detached' \in [Threads -> BOOLEAN], terminated' \in [Threads -> BOOLEAN],
         \A t \in Threads \ {u} : terminated'[t] = terminated[t],
         threadList' = Unlink(threadList, u),
         NEW s \in Seq(Frames), stack' = [stack EXCEPT ![exec] = s],
         ExecOK(s, running, exec, disable, state[exec], resched),
         UNCHANGED <<suspend, prio, queue, waitMutex, mutexVars, schedVars, parkVars, exec>>
  PROVE  Inv'
<1>1. /\ state \in [Threads -> States] /\ threadList \in Seq(Threads) /\ exec \in Threads
      /\ q \in [Queues -> Seq(Threads)] /\ resched \in BOOLEAN
      /\ Consistent(state, suspend, prio, queue, q) /\ Host
  BY DEF Inv, TypeOK
<1>2. state' \in [Threads -> States] /\ \A t \in Threads : state'[t] = IF t = u THEN "none" ELSE state[t]
  BY <1>1 DEF States
<1>3. ExecOK(s, running, exec, disable, state'[exec], resched')
  BY <1>1, <1>2, Raise DEF schedVars
<1>4. Host' /\ stack' \in [Threads -> Seq(Frames)]
  <2>1. \A t \in Threads : terminated'[t] => state'[t] \in DeadStates
    BY <1>1, <1>2 DEF Host, DeadStates
  <2>2. \A t \in Threads : state'[t] = "running" => state[t] = "running"
    BY <1>2
  <2>3. UNCHANGED <<exec, running, current, disable>>
    BY DEF schedVars
  <2> QED BY <1>3, <2>1, <2>2, <2>3, HostStep, Zenon
<1>5. threadList' \in Seq(Threads)
  BY <1>1, UnlinkSeq
<1>6. TypeOK'
  BY <1>2, <1>4, <1>5 DEF Inv, TypeOK, mutexVars, schedVars, parkVars
<1>7. Consistent(state, suspend, prio, queue, q)'
  <2>1. \A x \in Queues : u \notin Elems(q[x])
    BY <1>1, Unlinked
  <2>2. Consistent(state', suspend, prio, queue, q)
    BY <1>1, <1>2, <2>1, Apart DEF DeadStates
  <2> QED BY <2>2 DEF schedVars
<1>8. PendingMask' /\ Held'
  BY DEF Inv, PendingMask, Held, schedVars, mutexVars
<1> QED BY <1>4, <1>6, <1>7, <1>8 DEF Inv

\* Reaping a joined thread keeps the invariant.
LEMMA JoinDoneStep ==
  ASSUME Inv, JoinDone
  PROVE  Inv'
<1> DEFINE h == Head(stack[exec])
           u == Arg
<1>1. /\ stack[exec] # <<>> /\ h \in Quiet /\ h.op = "join" /\ u \in Threads
      /\ stack[exec] \in Seq(Frames) /\ Tail(stack[exec]) \in Seq(Frames)
      /\ ExecOK(stack[exec], running, exec, disable, state[exec], resched)
  BY Now, FrameArgs DEF JoinDone, Quiet, IdleFrame, HandlerFrame, Frame, Arg
<1>2. state[exec] = "running"
  <2>1. h \notin Plain \cup {IdleFrame, HandlerFrame} \cup Leaves(resched)
    BY <1>1 DEF Plain, PlainOps, Leaves, IdleFrame, HandlerFrame, Frame
  <2> QED BY <1>1, <2>1, Tops
<1>3. ExecOK(Tail(stack[exec]), running, exec, disable, state[exec], resched)
  BY <1>1, <1>2, PopLive
<1>4. stack' = [stack EXCEPT ![exec] = Tail(stack[exec])]
  BY <1>1, ConcatEmptySeq DEF JoinDone, Return, Become
<1>5. UNCHANGED <<detached, suspend, prio, queue, waitMutex, terminated, mutexVars,
                  schedVars, parkVars, exec>>
  BY DEF JoinDone
<1>6. CASE state[u] = "moribund"
  <2>1. state' = [state EXCEPT ![u] = "none"] /\ threadList' = Unlink(threadList, u)
    BY <1>6 DEF JoinDone
  <2>2. detached \in [Threads -> BOOLEAN] /\ terminated \in [Threads -> BOOLEAN]
    BY DEF Inv, TypeOK
  <2> HIDE DEF u
  <2> QED BY <1>1, <1>3, <1>4, <1>5, <1>6, <2>1, <2>2, ReapStep
<1>7. CASE state[u] # "moribund"
  <2>1. UNCHANGED <<threadVars, mutexVars, schedVars, parkVars, exec>>
    BY <1>5, <1>7 DEF JoinDone, threadVars
  <2> QED BY <1>1, <1>3, <1>4, <2>1, StackOnly
<1> QED BY <1>6, <1>7

\* OSDetachThread keeps the invariant.
LEMMA OSDetachThreadStep ==
  ASSUME Inv, NEW u \in Threads, OSDetachThread(u)
  PROVE  Inv'
<1> DEFINE s == <<Frame("joiners", u)>> \o stack[exec]
<1>1. Frame("joiners", u) \in Plain
  BY FrameKinds
<1>2. s \in Seq(Frames) /\ ExecOK(s, running, exec, disable, state[exec], resched)
  BY <1>1, PushCall DEF OSDetachThread, InGuest
<1>3. stack' = [stack EXCEPT ![exec] = s]
  BY DEF OSDetachThread, Call
<1>4. /\ detached \in [Threads -> BOOLEAN] /\ terminated \in [Threads -> BOOLEAN]
      /\ waitMutex \in [Threads -> Mutexes \cup {None}]
      /\ owned  \in [Threads -> SUBSET Mutexes]
      /\ owner  \in [Mutexes -> Threads \cup {None}]
      /\ count  \in [Mutexes -> Nat]
      /\ timers \in SUBSET Threads /\ parks \in SUBSET Threads /\ Held /\ resched \in BOOLEAN
  BY DEF Inv, TypeOK
<1>5. /\ detached' = [detached EXCEPT ![u] = TRUE]
      /\ UNCHANGED <<suspend, prio, queue, waitMutex, mutexVars, schedVars, parkVars, exec>>
  BY DEF OSDetachThread
<1>6. detached' \in [Threads -> BOOLEAN]
  BY <1>4, <1>5
<1> HIDE DEF s
<1>7. CASE state[u] = "moribund"
  <2>1. /\ state' = [state EXCEPT ![u] = "none"] /\ threadList' = Unlink(threadList, u)
        /\ terminated' = [terminated EXCEPT ![u] = TRUE]
    BY <1>7 DEF OSDetachThread
  <2>2. terminated' \in [Threads -> BOOLEAN] /\ \A t \in Threads \ {u} : terminated'[t] = terminated[t]
    BY <1>4, <2>1
  <2> QED BY <1>2, <1>3, <1>5, <1>6, <1>7, <2>1, <2>2, ReapStep
<1>8. CASE state[u] # "moribund"
  <2>1. UNCHANGED <<state, terminated, threadList>>
    BY <1>8 DEF OSDetachThread
  <2>2. Held'
    BY <1>4, <1>5 DEF Held, mutexVars
  <2> QED BY <1>2, <1>3, <1>4, <1>5, <1>6, <2>1, <2>2, StackStep DEF mutexVars, schedVars, parkVars
<1> QED BY <1>7, <1>8

\* The return of OSSleepThread keeps the invariant.
LEMMA SleptStep ==
  ASSUME Inv, Slept
  PROVE  Inv'
<1> DEFINE h == Head(stack[exec])
<1>1. /\ stack[exec] # <<>> /\ h \in Quiet /\ h.op = "slept"
      /\ stack[exec] \in Seq(Frames) /\ Tail(stack[exec]) \in Seq(Frames)
      /\ ExecOK(stack[exec], running, exec, disable, state[exec], resched)
  BY Now DEF Slept, Quiet, IdleFrame, HandlerFrame, Frame
<1>2. state[exec] = "running"
  <2>1. h \notin Plain \cup {IdleFrame, HandlerFrame} \cup Leaves(resched)
    BY <1>1 DEF Plain, PlainOps, Leaves, IdleFrame, HandlerFrame, Frame
  <2> QED BY <1>1, <2>1, Tops
<1>3. ExecOK(Tail(stack[exec]), running, exec, disable, state[exec], resched)
  BY <1>1, <1>2, PopLive
<1>4. stack' = [stack EXCEPT ![exec] = Tail(stack[exec])]
  BY <1>1, ConcatEmptySeq DEF Slept, Return, Become
<1>5. UNCHANGED <<threadVars, mutexVars, schedVars, parkVars, exec>>
  BY <1>2 DEF Slept, threadVars, schedVars
<1> QED BY <1>1, <1>3, <1>4, <1>5, StackOnly

\* The return of OSSleepTicks keeps the invariant.
LEMMA TicksDoneStep ==
  ASSUME Inv, TicksDone
  PROVE  Inv'
<1> DEFINE h == Head(stack[exec])
<1>1. /\ stack[exec] # <<>> /\ h \in Quiet /\ h.op = "ticks" /\ exec \in Threads
      /\ stack[exec] \in Seq(Frames) /\ Tail(stack[exec]) \in Seq(Frames)
      /\ ExecOK(stack[exec], running, exec, disable, state[exec], resched)
  BY Now DEF TicksDone, Quiet, IdleFrame, HandlerFrame, Frame
<1>2. state[exec] = "running"
  <2>1. h \notin Plain \cup {IdleFrame, HandlerFrame} \cup Leaves(resched)
    BY <1>1 DEF Plain, PlainOps, Leaves, IdleFrame, HandlerFrame, Frame
  <2> QED BY <1>1, <2>1, Tops
<1>3. ExecOK(Tail(stack[exec]), running, exec, disable, state[exec], resched)
  BY <1>1, <1>2, PopLive
<1>4. stack' = [stack EXCEPT ![exec] = Tail(stack[exec])]
  BY <1>1, ConcatEmptySeq DEF TicksDone, Return, Become
<1>5. suspend[exec] = 0
  BY <1>1, <1>2 DEF Inv, Consistent
<1>6. UNCHANGED <<threadVars, mutexVars, schedVars, parkVars, exec>>
  BY <1>5 DEF TicksDone, threadVars, parkVars
<1> QED BY <1>1, <1>3, <1>4, <1>6, StackOnly

\* Handlers that only the running thread executes.
LEMMA RunsItself ==
  ASSUME Inv, NEW op \in {"block", "slept", "ticks", "lock", "promote", "join"}, At(op)
  PROVE  /\ running = exec /\ state[exec] = "running" /\ exec \in Threads
         /\ stack[exec] \in Seq(Frames) /\ stack[exec] # <<>>
         /\ Head(stack[exec]) \in Quiet /\ Head(stack[exec]).op = op
         /\ Tail(stack[exec]) \in Seq(Frames)
         /\ ExecOK(Tail(stack[exec]), running, exec, disable, state[exec], resched)
<1> DEFINE h == Head(stack[exec])
<1>1. /\ stack[exec] # <<>> /\ h \in Quiet /\ h.op = op /\ exec \in Threads
      /\ stack[exec] \in Seq(Frames) /\ Tail(stack[exec]) \in Seq(Frames)
      /\ ExecOK(stack[exec], running, exec, disable, state[exec], resched)
  BY Now DEF Quiet, IdleFrame, HandlerFrame, Frame
<1>2. h \notin Plain \cup {IdleFrame, HandlerFrame} \cup Leaves(resched)
  BY <1>1 DEF Plain, PlainOps, Leaves, IdleFrame, HandlerFrame, Frame
<1>3. running = exec /\ state[exec] = "running"
  BY <1>1, <1>2, Tops
<1>4. ExecOK(Tail(stack[exec]), running, exec, disable, state[exec], resched)
  BY <1>1, <1>3, PopLive
<1> QED BY <1>1, <1>3, <1>4

\* The last call of OSExitThread keeps the invariant: it sets the flag and must
\* switch.
LEMMA ExitTailStep ==
  ASSUME Inv, ExitTail
  PROVE  Inv'
<1> DEFINE h == Head(stack[exec])
           s == <<Select>> \o Tail(stack[exec])
<1>1. /\ stack[exec] # <<>> /\ h \in Quiet /\ h.op = "exitTail" /\ exec \in Threads
      /\ stack[exec] \in Seq(Frames) /\ Tail(stack[exec]) \in Seq(Frames) /\ resched \in BOOLEAN
      /\ ExecOK(stack[exec], running, exec, disable, state[exec], resched)
  BY Now DEF ExitTail, Quiet, IdleFrame, HandlerFrame, Frame, Inv, TypeOK
<1>2. h \notin Plain \cup {IdleFrame, HandlerFrame}
  BY <1>1 DEF Plain, PlainOps, IdleFrame, HandlerFrame, Frame
<1>3. running = exec
  BY <1>1, <1>2, Tops
<1>4. Select \in Plain /\ Select \in Quiet /\ Select \in Frames /\ Select \in Leaves(TRUE)
  BY FrameKinds DEF Select, Leaves, Frame
<1>5. ExecOK(s, running, exec, disable, state[exec], TRUE) /\ s \in Seq(Frames)
  <2>1. CASE disable = 0
    <3>1. Tail(stack[exec]) \in Seq(Quiet)
      BY <1>1, <1>3, <2>1 DEF ExecOK
    <3> HIDE DEF Select
    <3> QED BY <1>3, <1>4, <2>1, <3>1, LeaveTop
  <2>2. CASE disable # 0
    <3>1. state[exec] = "running"
      BY <1>1, <1>2, <2>2, OverPop DEF ExecOK
    <3>2. ExecOK(Tail(stack[exec]), running, exec, disable, "running", resched)
      BY <1>1, <3>1, PopLive
    <3>3. ExecOK(s, running, exec, disable, "running", resched) /\ s \in Seq(Frames)
      BY <1>1, <1>4, <3>2, PushLive
    <3> HIDE DEF s
    <3> QED BY <1>1, <3>1, <3>3, Raise
  <2> QED BY <2>1, <2>2
<1>6. stack' = [stack EXCEPT ![exec] = s]
  BY DEF ExitTail, Become
<1> HIDE DEF s
<1>7. /\ UNCHANGED <<threadVars, mutexVars, q, pending, disable, running, current, parkVars, exec>>
      /\ resched' = TRUE
  BY DEF ExitTail
<1> QED BY <1>5, <1>6, <1>7, StackStep DEF Inv, TypeOK, Held, threadVars, mutexVars, parkVars

\* The start of an alarm handler keeps the invariant.
LEMMA HandlerBeginsStep ==
  ASSUME Inv, HandlerBegins
  PROVE  Inv'
<1> DEFINE s == <<HandlerFrame>> \o stack[exec]
<1>1. /\ running = exec /\ disable = 0 /\ state[exec] = "running" /\ exec \in Threads
      /\ stack[exec] \in Seq({})
  <2>1. stack[exec] = <<>>
    BY DEF HandlerBegins, InThread
  <2> QED BY <2>1, Now, EmptySeq DEF HandlerBegins
<1>2. stack[exec] \in Seq(Frames) /\ s \in Seq(Frames)
  BY Now, FrameKinds
<1>3. Over(s, Quiet, {HandlerFrame}, {})
  BY <1>1, OverTop
<1>4. ExecOK(s, running, exec, 1, state[exec], resched)
  BY <1>1, <1>3 DEF ExecOK
<1>5. /\ stack' = [stack EXCEPT ![exec] = s] /\ disable' = 1
      /\ UNCHANGED <<threadVars, mutexVars, q, pending, resched, running, current, parkVars, exec>>
  BY <1>1 DEF HandlerBegins, Call, HandlerFrame
<1> HIDE DEF s
<1>6. stack' \in [Threads -> Seq(Frames)] /\ stack'[exec] = s
      /\ \A t \in Threads \ {exec} : stack'[t] = stack[t]
  BY <1>1, <1>2, <1>5 DEF Inv, TypeOK
<1>7. Host'
  BY <1>4, <1>5, <1>6 DEF Inv, Host, threadVars
<1>8. TypeOK'
  BY <1>5, <1>6 DEF Inv, TypeOK, threadVars, mutexVars, parkVars
<1> QED BY <1>5, <1>7, <1>8 DEF Inv, PendingMask, Held, threadVars, mutexVars

\* The end of an alarm handler keeps the invariant: what it stopped is left by
\* the deferred reschedule.
LEMMA HandlerEndsStep ==
  ASSUME Inv, HandlerEnds
  PROVE  Inv'
<1> DEFINE f == Frame("resched", None)
           s == <<f>> \o Tail(stack[exec])
<1>1. /\ running = exec /\ disable = 1 /\ exec \in Threads /\ stack[exec] = <<HandlerFrame>>
      /\ ExecOK(stack[exec], running, exec, disable, state[exec], resched)
  BY Now DEF HandlerEnds, InHandler
<1>2. Tail(stack[exec]) = <<>>
  BY <1>1
<1>3. state[exec] # "running" => resched
  BY <1>1 DEF ExecOK
<1>4. f \in Quiet /\ Quiet \subseteq Frames /\ (resched => f \in Leaves(resched))
  BY FrameKinds DEF Leaves, Frame
<1> HIDE DEF f
<1>5. s \in Seq(Quiet) /\ Tail(stack[exec]) \in Seq(Quiet) /\ s \in Seq(Frames)
  <2>1. Tail(stack[exec]) \in Seq(Quiet)
    BY <1>2, EmptySeq, Zenon
  <2>2. s \in Seq(Quiet)
    BY <1>4, <2>1
  <2>3. s \in Seq(Frames)
    BY <1>4, <2>2
  <2> QED BY <2>1, <2>2, <2>3
<1>6. ExecOK(s, running, exec, 0, state[exec], resched)
  <2>1. CASE resched
    <3>1. f \in Leaves(resched)
      BY <1>4, <2>1
    <3> QED BY <1>1, <1>5, <3>1, LeaveTop
  <2>2. CASE ~resched
    BY <1>1, <1>3, <1>5, <2>2 DEF ExecOK
  <2> QED BY <2>1, <2>2
<1>7. /\ stack' = [stack EXCEPT ![exec] = s] /\ disable' = 0
      /\ UNCHANGED <<threadVars, mutexVars, q, pending, resched, running, current, parkVars, exec>>
  BY <1>1 DEF HandlerEnds, Become, f
<1> HIDE DEF s
<1>8. stack' \in [Threads -> Seq(Frames)] /\ stack'[exec] = s
      /\ \A t \in Threads \ {exec} : stack'[t] = stack[t]
  BY <1>1, <1>5, <1>7 DEF Inv, TypeOK
<1>9. Host'
  BY <1>6, <1>7, <1>8 DEF Inv, Host, threadVars
<1>10. TypeOK'
  BY <1>7, <1>8 DEF Inv, TypeOK, threadVars, mutexVars, parkVars
<1> QED BY <1>7, <1>9, <1>10 DEF Inv, PendingMask, Held, threadVars, mutexVars
-----------------------------------------------------------------------------
\* Whatever the scheduler put in the queues beforehand, a dispatch leaves the
\* chosen thread running alone, on its own fiber.
LEMMA DispatchStep ==
  ASSUME Inv, NEW st \in [Threads -> States], NEW qu \in [Threads -> Queues \cup {None}],
         NEW qq \in [Queues -> Seq(Threads)], NEW pp \in SUBSET Prios,
         Dispatch(st, qu, qq, pp), Consistent(st, suspend, prio, qu, qq), pp # {},
         pp = {p \in Prios : qq[RunQ(p)] # <<>>},
         \A t \in Threads : st[t] # "running" /\ (terminated[t] => st[t] \in DeadStates),
         disable = 0, stack[exec] # <<>>, Tail(stack[exec]) \in Seq(Quiet)
  PROVE  Inv'
<1> DEFINE p    == CHOOSE r \in pp : \A s \in pp : r <= s
           next == Head(qq[RunQ(p)])
           rest == Tail(qq[RunQ(p)])
<1>1. p \in pp /\ p \in Prios /\ RunQ(p) \in Queues
  BY LeastPriority, QueueNames
<1>2. /\ q'       = [qq EXCEPT ![RunQ(p)] = rest]
      /\ pending' = IF rest = <<>> THEN pp \ {p} ELSE pp
      /\ state'   = [st EXCEPT ![next] = "running"]
      /\ queue'   = [qu EXCEPT ![next] = None]
      /\ resched' = FALSE /\ running' = next /\ current' = next
      /\ exec' = IF terminated[next] THEN exec ELSE next
      /\ stack' = [stack EXCEPT ![exec] = <<>> \o Tail(@)]
      /\ UNCHANGED <<detached, suspend, prio, waitMutex, terminated, threadList,
                     mutexVars, disable, parkVars>>
  BY DEF Dispatch, SwitchToThread, Return, Become
<1> HIDE DEF p
<1>3. /\ qq[RunQ(p)] \in Seq(Threads) /\ qq[RunQ(p)] # <<>> /\ Distinct(qq[RunQ(p)])
  BY <1>1 DEF Consistent
<1>4. /\ rest \in Seq(Threads) /\ Distinct(rest) /\ next \in Elems(qq[RunQ(p)])
      /\ Elems(rest) = Elems(qq[RunQ(p)]) \ {next} /\ next \in Threads
  BY <1>3, TailElems, EmptyElems
<1> HIDE DEF next, rest
<1>5. st[next] = "ready" /\ suspend[next] = 0 /\ qu[next] = RunQ(p)
  BY <1>1, <1>4 DEF Consistent
<1>6. ~terminated[next] /\ exec' = next
  BY <1>2, <1>4, <1>5 DEF DeadStates
<1>7. \A x \in Queues : q'[x] = IF x = RunQ(p) THEN rest ELSE qq[x]
  BY <1>1, <1>2
<1>8. \A x \in Queues : x # RunQ(p) => next \notin Elems(qq[x])
  BY <1>5 DEF Consistent
<1>9. \A x \in Queues : /\ q'[x] \in Seq(Threads) /\ Distinct(q'[x])
                        /\ Elems(q'[x]) = Elems(qq[x]) \ {next}
  BY <1>4, <1>7, <1>8 DEF Consistent
<1>10. \A t \in Threads : /\ state'[t] = IF t = next THEN "running" ELSE st[t]
                          /\ queue'[t] = IF t = next THEN None ELSE qu[t]
  BY <1>2, <1>4
<1>11. Consistent(state', suspend', prio', queue', q')
  <2>1. Consistent(st, suspend', prio', qu, qq)
    BY <1>2
  <2>2. st[next] \notin DeadStates /\ prio'[next] \in Prios /\ suspend'[next] = 0
    BY <1>2, <1>4, <1>5 DEF Consistent, DeadStates
  <2>3. Moves(st, suspend', prio', qu, qq, state', suspend', prio', queue', q', next, None)
    BY <1>4, <1>9, <1>10, <2>2, QueueNames DEF Moves, Placed, DeadStates
  <2> QED BY <2>1, <2>3, Relinked
<1>12. PendingMask'
  <2>1. \A r \in Prios : r # p => q'[RunQ(r)] = qq[RunQ(r)]
    BY <1>1, <1>7, QueueNames
  <2>2. q'[RunQ(p)] = rest
    BY <1>1, <1>7
  <2> QED BY <1>1, <1>2, <2>1, <2>2 DEF PendingMask
<1>13. \A t \in Threads : stack'[t] \in Seq(Quiet)
  <2>1. stack' = [stack EXCEPT ![exec] = Tail(stack[exec])]
    BY <1>2, ConcatEmptySeq
  <2> QED BY <2>1 DEF Inv, TypeOK, Host
<1>14. Host'
  <2>1. ExecOK(stack'[exec'], running', exec', disable', state'[exec'], resched')
    BY <1>2, <1>4, <1>6, <1>10, <1>13 DEF ExecOK
  <2>2. \A t \in Threads : state'[t] = "running" => t = exec'
    BY <1>6, <1>10
  <2>3. \A t \in Threads : terminated'[t] => state'[t] \in DeadStates
    BY <1>2, <1>6, <1>10
  <2>4. running' = exec' /\ current' = exec'
    BY <1>2, <1>6
  <2> QED BY <1>13, <2>1, <2>2, <2>3, <2>4 DEF Host
<1>15. TypeOK'
  <2>1. state' \in [Threads -> States]
    BY <1>2, <1>4 DEF States
  <2>2. queue' \in [Threads -> Queues \cup {None}]
    BY <1>2, <1>4
  <2>3. q' \in [Queues -> Seq(Threads)] /\ pending' \in SUBSET Prios
    BY <1>2, <1>4
  <2>4. stack' \in [Threads -> Seq(Frames)]
    <3>1. Tail(stack[exec]) \in Seq(Frames)
      BY FrameKinds
    <3>2. stack' = [stack EXCEPT ![exec] = Tail(stack[exec])]
      BY <1>2, ConcatEmptySeq
    <3> QED BY <3>1, <3>2 DEF Inv, TypeOK
  <2> QED BY <1>2, <1>4, <1>6, <2>1, <2>2, <2>3, <2>4 DEF Inv, TypeOK, mutexVars, parkVars
<1> QED BY <1>2, <1>11, <1>12, <1>14, <1>15 DEF Inv, Held, mutexVars

\* So does the end of a deferred pump, which leaves no call behind.
LEMMA DeferredEndsStep ==
  ASSUME Inv, DeferredEnds
  PROVE  Inv'
<1>1. /\ running = exec /\ disable = 1 /\ exec \in Threads /\ stack[exec] = <<HandlerFrame>>
      /\ state[exec] = "running"
  BY Now DEF DeferredEnds, InHandler
<1>2. Tail(stack[exec]) = <<>>
  BY <1>1
<1>3. /\ stack' = [stack EXCEPT ![exec] = <<>>] /\ disable' = 0
      /\ UNCHANGED <<threadVars, mutexVars, q, pending, resched, running, current, parkVars, exec>>
  BY <1>1, <1>2 DEF DeferredEnds, Return, Become
<1>4. <<>> \in Seq(Quiet) /\ <<>> \in Seq(Frames)
  BY EmptySeq, Zenon
<1>5. ExecOK(<<>>, running, exec, 0, state[exec], resched)
  BY <1>1, <1>4 DEF ExecOK
<1>6. stack' \in [Threads -> Seq(Frames)] /\ stack'[exec] = <<>>
      /\ \A t \in Threads \ {exec} : stack'[t] = stack[t]
  BY <1>1, <1>3, <1>4 DEF Inv, TypeOK
<1>7. Host'
  BY <1>3, <1>5, <1>6 DEF Inv, Host, threadVars
<1>8. TypeOK'
  BY <1>3, <1>6 DEF Inv, TypeOK, threadVars, mutexVars, parkVars
<1> QED BY <1>3, <1>7, <1>8 DEF Inv, PendingMask, Held, threadVars, mutexVars

\* A preemption keeps the invariant: the running thread is queued before the
\* choice.
LEMMA SelectPreemptsStep ==
  ASSUME Inv, SelectPreempts
  PROVE  Inv'
<1> DEFINE t  == running
           x  == RunQ(prio[running])
           st == [state EXCEPT ![running] = "ready"]
           qu == [queue EXCEPT ![running] = x]
           qq == [q EXCEPT ![x] = Append(@, running)]
           pp == pending \cup {prio[running]}
<1>1. /\ running = exec /\ disable = 0 /\ running \in Threads /\ state[running] = "running"
      /\ stack[exec] # <<>> /\ stack[exec] \in Seq(Quiet)
  <2>1. disable = 0 /\ running # None /\ state[running] = "running" /\ stack[exec] # <<>>
    BY DEF SelectPreempts, Refused, AtSelect, At, Inv, TypeOK
  <2>2. running = exec /\ exec \in Threads
    BY <2>1 DEF Inv, Host, TypeOK
  <2> QED BY <2>1, <2>2, Now DEF ExecOK
<1>2. /\ state \in [Threads -> States] /\ queue \in [Threads -> Queues \cup {None}]
      /\ q \in [Queues -> Seq(Threads)] /\ pending \in SUBSET Prios
      /\ Consistent(state, suspend, prio, queue, q) /\ PendingMask
  BY DEF Inv, TypeOK
<1>3. suspend[t] = 0 /\ prio[t] \in Prios /\ x \in Queues
  BY <1>1, <1>2, QueueNames DEF Consistent, DeadStates
<1>4. \A y \in Queues : t \notin Elems(q[y])
  BY <1>1, <1>2, Unlinked
<1>5. \A y \in Queues : qq[y] = IF y = x THEN Append(q[x], t) ELSE q[y]
  BY <1>2, <1>3
<1>6. /\ Append(q[x], t) \in Seq(Threads) /\ Distinct(Append(q[x], t))
      /\ Elems(Append(q[x], t)) = Elems(q[x]) \cup {t}
  BY <1>1, <1>2, <1>3, <1>4, AppendElems DEF Consistent
<1>7. /\ st \in [Threads -> States] /\ qu \in [Threads -> Queues \cup {None}]
      /\ qq \in [Queues -> Seq(Threads)] /\ pp \in SUBSET Prios
  BY <1>1, <1>2, <1>3, <1>6 DEF States
<1>8. \A u \in Threads : /\ st[u] = IF u = t THEN "ready" ELSE state[u]
                         /\ qu[u] = IF u = t THEN x ELSE queue[u]
  BY <1>1, <1>2
<1>9. pp = {p \in Prios : qq[RunQ(p)] # <<>>}
  <2>1. \A p \in Prios : p # prio[t] => qq[RunQ(p)] = q[RunQ(p)]
    BY <1>3, <1>5, QueueNames
  <2>2. qq[RunQ(prio[t])] = Append(q[x], t) /\ Append(q[x], t) # <<>>
    <3>1. qq[x] = Append(q[x], t)
      BY <1>3, <1>5
    <3>2. Append(q[x], t) # <<>>
      BY <1>1, <1>6, EmptyElems
    <3> QED BY <3>1, <3>2
  <2> HIDE DEF qq
  <2> QED BY <1>2, <1>3, <2>1, <2>2 DEF PendingMask
<1>10. Dispatch(st, qu, qq, pp)
  BY DEF SelectPreempts
<1> HIDE DEF st, qu, qq, pp
<1>11. \A y \in Queues : /\ qq[y] \in Seq(Threads) /\ Distinct(qq[y])
                         /\ y # x => Elems(qq[y]) = Elems(q[y])
                         /\ Elems(qq[x]) = Elems(q[x]) \cup {t}
  BY <1>2, <1>3, <1>5, <1>6 DEF Consistent
<1>12. Consistent(st, suspend, prio, qu, qq)
  <2>1. x \notin BlockQueues /\ \A p \in Prios : x = RunQ(p) => prio[t] = p
    BY <1>3, QueueNames
  <2>2. \A u \in Threads \ {t} : st[u] = state[u] /\ qu[u] = queue[u]
    BY <1>8
  <2>3. st[t] = "ready" /\ qu[t] = x
    BY <1>1, <1>8
  <2>4. Moves(state, suspend, prio, queue, q, st, suspend, prio, qu, qq, t, x)
    <3> HIDE DEF x
    <3> QED BY <1>1, <1>3, <1>4, <1>11, <2>1, <2>2, <2>3 DEF Moves, Placed, DeadStates
  <2> QED BY <1>2, <2>4, Relinked
<1>13. \A u \in Threads : st[u] # "running" /\ (terminated[u] => st[u] \in DeadStates)
  BY <1>1, <1>8 DEF Inv, Host, DeadStates
<1>14. Tail(stack[exec]) \in Seq(Quiet) /\ pp # {}
  BY <1>1 DEF pp
<1> QED BY <1>1, <1>7, <1>9, <1>10, <1>12, <1>13, <1>14, DispatchStep

\* Switching away from a thread that stopped keeps the invariant.
LEMMA SelectSwitchesStep ==
  ASSUME Inv, SelectSwitches
  PROVE  Inv'
<1>1. /\ running = exec /\ disable = 0 /\ state[exec] # "running"
      /\ stack[exec] # <<>> /\ stack[exec] \in Seq(Quiet)
  <2>1. disable = 0 /\ running # None /\ state[running] # "running" /\ stack[exec] # <<>>
    BY DEF SelectSwitches, Refused, AtSelect, At, Inv, TypeOK
  <2>2. running = exec /\ exec \in Threads
    BY <2>1 DEF Inv, Host, TypeOK
  <2> QED BY <2>1, <2>2, Now DEF ExecOK
<1>2. \A t \in Threads : state[t] # "running" /\ (terminated[t] => state[t] \in DeadStates)
  BY <1>1 DEF Inv, Host
<1>3. Tail(stack[exec]) \in Seq(Quiet)
  BY <1>1
<1>4. Dispatch(state, queue, q, pending) /\ pending # {}
  BY DEF SelectSwitches
<1> QED BY <1>1, <1>2, <1>3, <1>4, DispatchStep DEF Inv, TypeOK, PendingMask

\* The dispatch of the idle loop keeps the invariant.
LEMMA IdleDispatchesStep ==
  ASSUME Inv, IdleDispatches
  PROVE  Inv'
<1>1. stack[exec] # <<>> /\ Head(stack[exec]) = IdleFrame /\ exec \in Threads
  BY Now DEF IdleDispatches
<1>2. running # exec /\ Tail(stack[exec]) \in Seq(Quiet)
  BY <1>1, Now, Tops
<1>3. disable = 0 /\ state[exec] # "running"
  BY <1>2, Now DEF ExecOK
<1>4. \A t \in Threads : state[t] # "running" /\ (terminated[t] => state[t] \in DeadStates)
  BY <1>3 DEF Inv, Host
<1>5. Dispatch(state, queue, q, pending) /\ pending # {}
  BY DEF IdleDispatches
<1> QED BY <1>1, <1>2, <1>3, <1>4, <1>5, DispatchStep DEF Inv, TypeOK, PendingMask

\* Entering the idle loop keeps the invariant.
LEMMA SelectIdlesStep ==
  ASSUME Inv, SelectIdles
  PROVE  Inv'
<1> DEFINE s == <<IdleFrame>> \o Tail(stack[exec])
<1>1. /\ running = exec /\ disable = 0 /\ state[exec] # "running" /\ exec \in Threads
      /\ stack[exec] # <<>> /\ stack[exec] \in Seq(Quiet)
  <2>1. disable = 0 /\ running # None /\ state[running] # "running" /\ stack[exec] # <<>>
    BY DEF SelectIdles, Refused, AtSelect, At, Inv, TypeOK
  <2>2. running = exec /\ exec \in Threads
    BY <2>1 DEF Inv, Host, TypeOK
  <2> QED BY <2>1, <2>2, Now DEF ExecOK
<1>2. Tail(stack[exec]) \in Seq(Quiet) /\ Tail(stack[exec]) \in Seq(Frames) /\ s \in Seq(Frames)
  <2>1. Tail(stack[exec]) \in Seq(Quiet)
    BY <1>1
  <2>2. Tail(stack[exec]) \in Seq(Frames)
    BY <2>1, FrameKinds
  <2> QED BY <2>1, <2>2, FrameKinds
<1>3. Over(s, Plain, {IdleFrame}, Quiet)
  BY <1>2, OverTop
<1>4. None # exec
  BY <1>1
<1>5. ExecOK(s, None, exec, 0, state[exec], resched)
  BY <1>1, <1>3, <1>4 DEF ExecOK
<1>6. /\ running' = None /\ current' = Idle /\ stack' = [stack EXCEPT ![exec] = s]
      /\ UNCHANGED <<threadVars, mutexVars, q, pending, resched, disable, parkVars, exec>>
  BY DEF SelectIdles, Become, IdleFrame
<1> HIDE DEF s
<1>7. stack' \in [Threads -> Seq(Frames)] /\ stack'[exec] = s
      /\ \A t \in Threads \ {exec} : stack'[t] = stack[t]
  BY <1>1, <1>2, <1>6 DEF Inv, TypeOK
<1>8. Host'
  <2>1. \A t \in Threads : state[t] # "running"
    BY <1>1 DEF Inv, Host
  <2>2. ExecOK(stack'[exec'], running', exec', disable', state'[exec'], resched')
    BY <1>1, <1>5, <1>6, <1>7 DEF threadVars
  <2> QED BY <1>4, <1>6, <1>7, <2>1, <2>2 DEF Inv, Host, threadVars
<1>9. TypeOK'
  BY <1>6, <1>7 DEF Inv, TypeOK, threadVars, mutexVars, parkVars
<1> QED BY <1>6, <1>8, <1>9 DEF Inv, PendingMask, Held, threadVars, mutexVars
-----------------------------------------------------------------------------
\* Steps that move threads between queues but leave the host where it is.
LEMMA MoveStep ==
  ASSUME Inv, NEW s \in Seq(Frames), stack' = [stack EXCEPT ![exec] = s],
         ExecOK(s, running, exec, disable, state'[exec], resched'),
         UNCHANGED <<detached, waitMutex, terminated, threadList, disable, running,
                     current, exec>>,
         \/ UNCHANGED mutexVars
         \/ /\ owned' \in [Threads -> SUBSET Mutexes] /\ count' \in [Mutexes -> Nat]
            /\ owner' \in [Mutexes -> Threads \cup {None}] /\ Held',
         state' \in [Threads -> States], suspend' \in [Threads -> Nat],
         prio' \in [Threads -> 0 .. NumPriorities], queue' \in [Threads -> Queues \cup {None}],
         q' \in [Queues -> Seq(Threads)], pending' \in SUBSET Prios, resched' \in BOOLEAN,
         timers' \in SUBSET Threads, parks' \in SUBSET Threads,
         \A t \in Threads : state'[t] = "running" => state[t] = "running",
         \A t \in Threads : state[t] \in DeadStates => state'[t] \in DeadStates,
         Consistent(state, suspend, prio, queue, q)', PendingMask'
  PROVE  Inv'
<1>1. Host' /\ stack' \in [Threads -> Seq(Frames)]
  <2>1. \A t \in Threads : terminated'[t] => state'[t] \in DeadStates
    BY DEF Inv, Host
  <2> QED BY <2>1, HostStep, Zenon
<1>2. TypeOK' /\ Held'
  BY <1>1 DEF Inv, TypeOK, mutexVars, Held
<1> QED BY <1>1, <1>2 DEF Inv

\* A thread taken out of its queue and linked in queue x is there and only there.
LEMMA Reinserted ==
  ASSUME Inv, NEW t \in Threads, NEW x \in Queues, NEW p \in 0 .. NumPriorities, NEW qq,
         qq = InsertByPriority(RemoveThreadFromQueue(t), x, t, p)
  PROVE  /\ qq \in [Queues -> Seq(Threads)]
         /\ Placed(q, qq, t, x)
         /\ \A y \in Queues \ {x} : qq[y] = RemoveThreadFromQueue(t)[y]
<1> DEFINE free == RemoveThreadFromQueue(t)
<1>1. /\ free \in [Queues -> Seq(Threads)]
      /\ \A y \in Queues : Distinct(free[y]) /\ Elems(free[y]) = Elems(q[y]) \ {t}
  BY RemoveEffect DEF Inv, TypeOK
<1>2. prio \in [Threads -> 0 .. NumPriorities]
  BY DEF Inv, TypeOK
<1> HIDE DEF free
<1>3. t \notin Elems(free[x]) /\ Distinct(free[x])
  BY <1>1
<1>4. /\ qq \in [Queues -> Seq(Threads)]
      /\ \A y \in Queues \ {x} : qq[y] = free[y]
      /\ Distinct(qq[x]) /\ Elems(qq[x]) = Elems(free[x]) \cup {t}
  <2>1. free \in [Queues -> Seq(Threads)] /\ t \notin Elems(free[x]) /\ Distinct(free[x])
    BY <1>1, <1>3
  <2>2. free \in [Queues -> Seq(Threads)] /\ x \in Queues /\ t \in Threads /\ p \in 0 .. NumPriorities
    BY <2>1
  <2>3. InsertByPriority(free, x, t, p) \in [Queues -> Seq(Threads)]
    BY <1>2, <2>1, <2>2, InsertEffect
  <2>4. \A y \in Queues \ {x} : InsertByPriority(free, x, t, p)[y] = free[y]
    BY <2>2 DEF InsertByPriority
  <2>5. Distinct(InsertByPriority(free, x, t, p)[x])
    BY <1>2, <2>1, <2>2, InsertEffect
  <2>6. Elems(InsertByPriority(free, x, t, p)[x]) = Elems(free[x]) \cup {t}
    <3>1. InsertPosition(free[x], p) \in 1 .. Len(free[x]) + 1
      BY <1>2, <2>2, InsertPlace
    <3>2. InsertByPriority(free, x, t, p)[x] = InsertAt(free[x], InsertPosition(free[x], p), t)
      BY <2>2 DEF InsertByPriority
    <3>3. free[x] \in Seq(Threads)
      BY <2>2
    <3> QED BY <2>1, <3>1, <3>2, <3>3, InsertElems
  <2>7. qq = InsertByPriority(free, x, t, p)
    BY DEF free
  <2> QED BY <2>3, <2>4, <2>5, <2>6, <2>7
<1>5. \A y \in Queues : /\ Distinct(qq[y])
                        /\ Elems(qq[y]) = (Elems(q[y]) \ {t}) \cup (IF y = x THEN {t} ELSE {})
                        /\ y # x => qq[y] = free[y]
  <2> TAKE y \in Queues
  <2>1. CASE y = x
    BY <1>1, <1>4, <2>1
  <2>2. CASE y # x
    BY <1>1, <1>4, <2>2
  <2> QED BY <2>1, <2>2
<1>6. Placed(q, qq, t, x)
  BY <1>4, <1>5 DEF Placed
<1> QED BY <1>4, <1>6 DEF free

\* Moving a waiter within its wait queue, or out of it, leaves the run queues.
LEMMA WaiterMoves ==
  ASSUME Inv, NEW t \in Threads, state[t] = "waiting", NEW p \in Prios
  PROVE  /\ queue[t] \in BlockQueues /\ queue[t] \in Queues /\ queue[t] # None /\ queue[t] # RunQ(p)
         /\ RunQ(p) \in Queues /\ RemoveThreadFromQueue(t)[RunQ(p)] = q[RunQ(p)]
<1>1. queue[t] \in BlockQueues /\ queue[t] \in Queues /\ queue[t] # None
  BY QueueNames DEF Inv, Consistent
<1>2. queue[t] # RunQ(p) /\ RunQ(p) \in Queues
  BY <1>1, QueueNames
<1> QED BY <1>1, <1>2 DEF RemoveThreadFromQueue, Inv, TypeOK

\* Waking one waiter keeps the invariant, suspended or not.
LEMMA WakeOneStep ==
  ASSUME Inv, WakeOne
  PROVE  Inv'
<1> DEFINE h == Head(stack[exec])
           a == Arg
           t == Head(q[a])
           p == IF prio[t] \in Prios THEN prio[t] ELSE NumPriorities - 1
           rest == Tail(q[a])
<1>1. /\ stack[exec] # <<>> /\ h \in Quiet /\ h.op \in {"wake", "wakeMore", "wakeQuiet"}
      /\ stack[exec] \in Seq(Frames) /\ Tail(stack[exec]) \in Seq(Frames) /\ a \in BlockQueues
      /\ ExecOK(stack[exec], running, exec, disable, state[exec], resched) /\ exec \in Threads
  <2>1. At("wake") \/ At("wakeMore") \/ At("wakeQuiet") \/ At("wakeReturn")
    BY DEF WakeOne
  <2>2. /\ stack[exec] # <<>> /\ h \in Frames /\ h \in Quiet \cup {IdleFrame, HandlerFrame}
        /\ h.op \in {"wake", "wakeMore", "wakeQuiet", "wakeReturn"}
        /\ Tail(stack[exec]) \in Seq(Frames)
    BY <2>1, Now
  <2>3. h \in Quiet /\ h.op \in {"wake", "wakeMore", "wakeQuiet"}
    BY <2>2 DEF Quiet, IdleFrame, HandlerFrame, Frame
  <2> QED BY <2>2, <2>3, Now, FrameArgs DEF Arg
<1>2. /\ state \in [Threads -> States] /\ queue \in [Threads -> Queues \cup {None}]
      /\ q \in [Queues -> Seq(Threads)] /\ pending \in SUBSET Prios /\ resched \in BOOLEAN
      /\ suspend \in [Threads -> Nat] /\ prio \in [Threads -> 0 .. NumPriorities]
      /\ timers \in SUBSET Threads /\ parks \in SUBSET Threads
      /\ Consistent(state, suspend, prio, queue, q) /\ PendingMask
  BY DEF Inv, TypeOK
<1>3. a \in Queues /\ q[a] # <<>> /\ q[a] \in Seq(Threads) /\ Distinct(q[a])
  BY <1>1, <1>2, QueueNames DEF WakeOne, Consistent
<1>4. /\ rest \in Seq(Threads) /\ Distinct(rest) /\ t \in Elems(q[a])
      /\ Elems(rest) = Elems(q[a]) \ {t} /\ t \in Threads
  BY <1>3, TailElems, EmptyElems
<1>5. state[t] = "waiting" /\ queue[t] = a
  BY <1>1, <1>2, <1>3, <1>4 DEF Consistent
<1>6. \A x \in Queues : x # a => t \notin Elems(q[x])
  BY <1>2, <1>5 DEF Consistent
<1>7. /\ state' = [state EXCEPT ![t] = "ready"]
      /\ UNCHANGED <<detached, suspend, prio, waitMutex, terminated, threadList,
                     mutexVars, disable, running, current, parkVars, exec>>
      /\ resched' = (resched \/ Wakeable(t))
  BY DEF WakeOne
<1>8. CASE Wakeable(t)
  <2>1. suspend[t] = 0
    BY <1>2, <1>4, <1>8 DEF Wakeable
  <2>2. p = prio[t] /\ p \in Prios /\ RunQ(p) \in Queues /\ RunQ(p) # a
    BY <1>1, <1>2, <1>4, <1>5, <2>1, QueueNames DEF Consistent, DeadStates
  <2>3. /\ q' = [[q EXCEPT ![a] = rest] EXCEPT ![RunQ(p)] = Append(@, t)]
        /\ queue' = [queue EXCEPT ![t] = RunQ(p)] /\ pending' = pending \cup {p} /\ resched' = TRUE
        /\ stack' = IF h.op = "wake" THEN [stack EXCEPT ![exec] = <<Frame("wakeMore", a)>> \o Tail(@)]
                    ELSE stack
    BY <1>1, <1>8 DEF WakeOne, Become, At
  <2> HIDE DEF a, t, p, rest
  <2>4. \A x \in Queues : q'[x] = IF x = a THEN rest ELSE IF x = RunQ(p) THEN Append(q[x], t) ELSE q[x]
    BY <1>2, <1>3, <2>2, <2>3
  <2>5. /\ Append(q[RunQ(p)], t) \in Seq(Threads) /\ Distinct(Append(q[RunQ(p)], t))
        /\ Elems(Append(q[RunQ(p)], t)) = Elems(q[RunQ(p)]) \cup {t}
    BY <1>2, <1>4, <1>6, <2>2, AppendElems DEF Consistent
  <2>6. \A x \in Queues : /\ q'[x] \in Seq(Threads) /\ Distinct(q'[x])
                          /\ Elems(q'[x]) = (Elems(q[x]) \ {t}) \cup (IF x = RunQ(p) THEN {t} ELSE {})
    <3> TAKE x \in Queues
    <3>1. CASE x = a
      BY <1>4, <2>2, <2>4, <3>1
    <3>2. CASE x = RunQ(p)
      BY <1>6, <2>2, <2>4, <2>5, <3>2
    <3>3. CASE x # a /\ x # RunQ(p)
      BY <1>2, <1>6, <2>4, <3>3 DEF Consistent
    <3> QED BY <3>1, <3>2, <3>3
  <2>7. Consistent(state', suspend', prio', queue', q')
    <3>1. state'[t] = "ready" /\ queue'[t] = RunQ(p)
          /\ \A u \in Threads \ {t} : state'[u] = state[u] /\ queue'[u] = queue[u]
      BY <1>2, <1>4, <1>7, <2>3
    <3>2. \A r \in Prios : RunQ(p) = RunQ(r) => prio[t] = r
      BY <2>2, QueueNames
    <3>3. RunQ(p) \notin BlockQueues
      BY <2>2, QueueNames
    <3>4. Moves(state, suspend, prio, queue, q, state', suspend', prio', queue', q', t, RunQ(p))
      BY <1>4, <1>7, <2>1, <2>2, <2>6, <3>1, <3>2, <3>3 DEF Moves, Placed, DeadStates
    <3> QED BY <1>2, <3>4, Relinked
  <2>8. PendingMask'
    <3>1. \A r \in Prios : r # p => q'[RunQ(r)] = q[RunQ(r)]
      BY <1>1, <2>2, <2>4, QueueNames
    <3>2. q'[RunQ(p)] # <<>>
      BY <2>2, <2>6, EmptyElems
    <3> QED BY <1>2, <2>2, <2>3, <3>1, <3>2 DEF PendingMask
  <2>9. q' \in [Queues -> Seq(Threads)] /\ queue' \in [Threads -> Queues \cup {None}]
        /\ pending' \in SUBSET Prios /\ state' \in [Threads -> States]
    BY <1>2, <1>4, <1>7, <2>2, <2>3, <2>5 DEF States
  <2>10. PICK s \in Seq(Frames) : /\ stack' = [stack EXCEPT ![exec] = s]
                                  /\ ExecOK(s, running, exec, disable, state[exec], resched)
    <3>1. stack \in [Threads -> Seq(Frames)]
      BY DEF Inv, TypeOK
    <3>2. CASE h.op = "wake"
      <4> DEFINE f == Frame("wakeMore", a)
      <4>1. h \in Plain /\ h \notin Leaves(resched) /\ f \in Plain
        BY <1>1, <3>2, FrameKinds DEF Plain, PlainOps, Leaves, Quiet
      <4> HIDE DEF f
      <4>2. /\ ExecOK(<<f>> \o Tail(stack[exec]), running, exec, disable, state[exec], resched)
            /\ <<f>> \o Tail(stack[exec]) \in Seq(Frames)
        BY <1>1, <4>1, Replace
      <4>3. stack' = [stack EXCEPT ![exec] = <<f>> \o Tail(stack[exec])]
        BY <2>3, <3>2 DEF f
      <4> QED BY <4>2, <4>3
    <3>3. CASE h.op # "wake"
      BY <1>1, <2>3, <3>1, <3>3
    <3> QED BY <3>2, <3>3
  <2>11. ExecOK(s, running, exec, disable, state'[exec], resched')
    <3>1. (state'[exec] # "running" /\ state[exec] # "running") \/ state'[exec] = state[exec]
      BY <1>1, <1>2, <1>4, <1>5, <1>7
    <3>2. resched' = TRUE /\ resched \in BOOLEAN
      BY <1>2, <2>3
    <3> QED BY <2>10, <3>1, <3>2, Raise
  <2>12. /\ \A u \in Threads : state'[u] = "running" => state[u] = "running"
         /\ \A u \in Threads : state[u] \in DeadStates => state'[u] \in DeadStates
    BY <1>2, <1>4, <1>5, <1>7 DEF DeadStates
  <2> QED BY <1>2, <1>7, <2>3, <2>7, <2>8, <2>9, <2>10, <2>11, <2>12, MoveStep DEF parkVars
<1>9. CASE ~Wakeable(t)
  <2>1. suspend[t] # 0
    BY <1>2, <1>4, <1>9 DEF Wakeable
  <2>2. /\ q' = [q EXCEPT ![a] = rest] /\ queue' = queue /\ pending' = pending
        /\ stack' = stack /\ resched' = resched
    BY <1>1, <1>2, <1>9 DEF WakeOne, At
  <2> HIDE DEF a, t, p, rest
  <2>3. \A x \in Queues : q'[x] = IF x = a THEN rest ELSE q[x]
    BY <1>2, <1>3, <2>2
  <2>4. \A x \in Queues : /\ q'[x] \in Seq(Threads) /\ Distinct(q'[x])
                          /\ Elems(q'[x]) = (Elems(q[x]) \ {t}) \cup (IF x = None THEN {t} ELSE {})
    <3> TAKE x \in Queues
    <3>1. x # None /\ q[x] \in Seq(Threads) /\ Distinct(q[x])
      BY <1>2, QueueNames DEF Consistent
    <3>2. CASE x = a
      BY <1>4, <2>3, <3>1, <3>2
    <3>3. CASE x # a
      BY <1>6, <2>3, <3>1, <3>3
    <3> QED BY <3>2, <3>3
  <2>5. Consistent(state', suspend', prio', queue', q')
    <3>1. state'[t] = "ready" /\ \A u \in Threads \ {t} : state'[u] = state[u]
      BY <1>2, <1>4, <1>7
    <3>2. Moves(state, suspend, prio, queue, q, state', suspend', prio', queue', q', t, None)
      BY <1>4, <1>7, <2>1, <2>2, <2>4, <3>1, QueueNames DEF Moves, Placed
    <3> QED BY <1>2, <3>2, Relinked
  <2>6. PendingMask'
    <3>1. \A r \in Prios : q'[RunQ(r)] = q[RunQ(r)]
      BY <1>1, <2>3, QueueNames
    <3> QED BY <1>2, <2>2, <3>1 DEF PendingMask
  <2>7. q' \in [Queues -> Seq(Threads)] /\ state' \in [Threads -> States]
    BY <1>2, <1>4, <1>7, <2>2 DEF States
  <2>8. ExecOK(stack[exec], running, exec, disable, state'[exec], resched')
    <3>1. (state'[exec] # "running" /\ state[exec] # "running") \/ state'[exec] = state[exec]
      BY <1>1, <1>2, <1>4, <1>5, <1>7
    <3> QED BY <1>1, <1>2, <2>2, <3>1, Raise
  <2>9. stack' = [stack EXCEPT ![exec] = stack[exec]]
    BY <2>2 DEF Inv, TypeOK
  <2>10. /\ \A u \in Threads : state'[u] = "running" => state[u] = "running"
         /\ \A u \in Threads : state[u] \in DeadStates => state'[u] \in DeadStates
    BY <1>2, <1>4, <1>5, <1>7 DEF DeadStates
  <2> QED BY <1>1, <1>2, <1>7, <2>2, <2>5, <2>6, <2>7, <2>8, <2>9, <2>10, MoveStep DEF parkVars
<1> QED BY <1>8, <1>9

\* The running thread leaves its CPU by way of the frames it was called from.
LEMMA LeaveTwo ==
  ASSUME NEW s \in Seq(Quiet), NEW ex, NEW st, NEW r, NEW f \in Leaves(r), NEW g \in Quiet
  PROVE  /\ ExecOK(TwoOver(f, g, s), ex, ex, 0, st, r)
         /\ TwoOver(f, g, s) \in Seq(Frames)
<1>1. f \in Quiet
  BY DEF Leaves
<1>2. TwoOver(f, g, s) = Pushed(f, Pushed(g, s))
  BY <1>1, TwoFrames
<1>3. Pushed(g, s) \in Seq(Quiet)
  BY DEF Pushed
<1> DEFINE z == Pushed(g, s)
<1>4. z \in Seq(Quiet) /\ TwoOver(f, g, s) = <<f>> \o z
  BY <1>2, <1>3 DEF Pushed
<1> HIDE DEF z
<1>5. ExecOK(<<f>> \o z, ex, ex, 0, st, r) /\ <<f>> \o z \in Seq(Frames)
  BY <1>4, LeaveTop
<1> QED BY <1>4, <1>5, Zenon

\* The body of OSSleepThread keeps the invariant, with the scheduler enabled or
\* disabled.
LEMMA SleepStep ==
  ASSUME Inv, NEW x \in BlockQueues, NEW rest \in Seq(Frames), running = exec, Sleep(x, rest),
         disable = 0 => state[exec] = "running" /\ rest \in Seq(Quiet),
         disable # 0 => ExecOK(rest, running, exec, disable, state[exec], resched)
  PROVE  Inv'
<1> DEFINE t == exec
           s == TwoOver(Select, Frame("slept", x), rest)
<1>1. /\ state \in [Threads -> States] /\ queue \in [Threads -> Queues \cup {None}]
      /\ q \in [Queues -> Seq(Threads)] /\ pending \in SUBSET Prios /\ resched \in BOOLEAN
      /\ suspend \in [Threads -> Nat] /\ prio \in [Threads -> 0 .. NumPriorities]
      /\ timers \in SUBSET Threads /\ parks \in SUBSET Threads
      /\ Consistent(state, suspend, prio, queue, q) /\ PendingMask
      /\ t \in Threads /\ t # None /\ x \in Queues
  BY Now, QueueNames DEF Inv, TypeOK
<1>2. /\ running' = running /\ current' = current
      /\ UNCHANGED <<detached, suspend, prio, waitMutex, terminated, threadList,
                     mutexVars, pending, disable, parkVars, exec>>
  BY <1>1 DEF Sleep
<1>3. CASE disable = 0
  <2>1. /\ state' = [state EXCEPT ![t] = "waiting"] /\ queue' = [queue EXCEPT ![t] = x]
        /\ q' = InsertByPriority(q, x, t, prio[t]) /\ resched' = TRUE
        /\ stack' = [stack EXCEPT ![exec] = s]
    BY <1>1, <1>3 DEF Sleep, TwoOver
  <2>2. \A y \in Queues : t \notin Elems(q[y])
    BY <1>1, <1>3, Unlinked
  <2>3. prio[t] \in 0 .. NumPriorities /\ prio[t] \in Prios /\ suspend[t] = 0
    BY <1>1, <1>3 DEF Consistent, DeadStates
  <2>4. /\ q' \in [Queues -> Seq(Threads)]
        /\ \A y \in Queues \ {x} : q'[y] = q[y]
        /\ Distinct(q'[x]) /\ Elems(q'[x]) = Elems(q[x]) \cup {t}
    <3>1. q[x] \in Seq(Threads) /\ Distinct(q[x]) /\ t \notin Elems(q[x])
      BY <1>1, <2>2 DEF Consistent
    <3>2. InsertPosition(q[x], prio[t]) \in 1 .. Len(q[x]) + 1
      BY <1>1, <2>3, <3>1, InsertPlace
    <3>3. q' = [q EXCEPT ![x] = InsertAt(q[x], InsertPosition(q[x], prio[t]), t)]
      BY <2>1 DEF InsertByPriority
    <3>4. /\ InsertAt(q[x], InsertPosition(q[x], prio[t]), t) \in Seq(Threads)
          /\ Distinct(InsertAt(q[x], InsertPosition(q[x], prio[t]), t))
          /\ Elems(InsertAt(q[x], InsertPosition(q[x], prio[t]), t)) = Elems(q[x]) \cup {t}
      BY <1>1, <3>1, <3>2, InsertElems
    <3> QED BY <1>1, <3>3, <3>4
  <2>5. state'[t] = "waiting" /\ queue'[t] = x
        /\ \A u \in Threads \ {t} : state'[u] = state[u] /\ queue'[u] = queue[u]
    BY <1>1, <2>1
  <2>6. \A y \in Queues : /\ q'[y] \in Seq(Threads) /\ Distinct(q'[y])
                          /\ Elems(q'[y]) = (Elems(q[y]) \ {t}) \cup (IF y = x THEN {t} ELSE {})
    <3> TAKE y \in Queues
    <3>1. CASE y = x
      BY <1>1, <2>2, <2>4, <3>1
    <3>2. CASE y # x
      BY <1>1, <2>2, <2>4, <3>2 DEF Consistent
    <3> QED BY <3>1, <3>2
  <2>7. Consistent(state, suspend, prio, queue, q)'
    <3>1. \A p \in Prios : x # RunQ(p)
      BY QueueNames
    <3>2. Moves(state, suspend, prio, queue, q, state', suspend', prio', queue', q', t, x)
      BY <1>1, <1>2, <2>3, <2>5, <2>6, <3>1 DEF Moves, Placed, DeadStates
    <3> QED BY <1>1, <3>2, Relinked
  <2>8. PendingMask'
    <3>1. \A p \in Prios : q'[RunQ(p)] = q[RunQ(p)]
      BY <2>4, QueueNames
    <3> QED BY <1>1, <1>2, <3>1 DEF PendingMask
  <2>9. state' \in [Threads -> States] /\ queue' \in [Threads -> Queues \cup {None}]
    BY <1>1, <2>1 DEF States
  <2>10. ExecOK(s, running, exec, disable, state'[exec], resched') /\ s \in Seq(Frames)
    <3>1. Select \in Leaves(TRUE) /\ Frame("slept", x) \in Quiet
      BY FrameKinds DEF Select, Leaves, Frame
    <3>2. rest \in Seq(Quiet)
      BY <1>3
    <3>3. ExecOK(s, exec, exec, 0, state'[exec], TRUE) /\ s \in Seq(Frames)
      BY <3>1, <3>2, LeaveTwo
    <3> HIDE DEF s
    <3> QED BY <1>3, <2>1, <3>3
  <2>11. /\ \A u \in Threads : state'[u] = "running" => state[u] = "running"
         /\ \A u \in Threads : state[u] \in DeadStates => state'[u] \in DeadStates
    BY <1>3, <2>5 DEF DeadStates
  <2> HIDE DEF s, t
  <2> QED BY <1>1, <1>2, <2>1, <2>4, <2>7, <2>8, <2>9, <2>10, <2>11, MoveStep DEF parkVars
<1>4. CASE disable # 0
  <2>1. stack' = [stack EXCEPT ![exec] = rest] /\ UNCHANGED <<state, queue, q, resched>>
    BY <1>4 DEF Sleep
  <2>2. UNCHANGED <<threadVars, mutexVars, schedVars, parkVars, exec>>
    BY <1>2, <2>1 DEF threadVars, schedVars
  <2> QED BY <1>4, <2>1, <2>2, StackOnly
<1> QED BY <1>3, <1>4

\* OSSleepThread keeps the invariant.
LEMMA OSSleepThreadStep ==
  ASSUME Inv, NEW w \in WaitQueues, OSSleepThread(w)
  PROVE  Inv'
<1>1. Sleep(WaitQ(w), stack[exec]) /\ InGuest
  BY DEF OSSleepThread, Calls
<1>2. /\ running = exec /\ stack[exec] \in Seq(Frames)
      /\ disable = 0 => state[exec] = "running" /\ stack[exec] \in Seq(Quiet)
      /\ ExecOK(stack[exec], running, exec, disable, state[exec], resched)
  BY <1>1, Now DEF InGuest
<1> QED BY <1>1, <1>2, QueueNames, SleepStep

\* The sleep of OSLockMutex and OSJoinThread keeps the invariant.
LEMMA BlockStep ==
  ASSUME Inv, Block
  PROVE  Inv'
<1>1. /\ running = exec /\ state[exec] = "running" /\ Tail(stack[exec]) \in Seq(Frames)
      /\ Head(stack[exec]) \in Frames /\ Head(stack[exec]).op = "block"
      /\ ExecOK(Tail(stack[exec]), running, exec, disable, state[exec], resched)
  BY RunsItself, FrameKinds DEF Block
<1>2. Arg \in BlockQueues
  BY <1>1, FrameArgs DEF Arg
<1>3. disable = 0 => Tail(stack[exec]) \in Seq(Quiet)
  BY <1>1 DEF ExecOK
<1> QED BY <1>1, <1>2, <1>3, SleepStep DEF Block

\* OSUnlockMutex keeps the invariant.
LEMMA OSUnlockMutexStep ==
  ASSUME Inv, NEW m \in Mutexes, OSUnlockMutex(m)
  PROVE  Inv'
<1> DEFINE t == exec
           f == Frame("wake", MutexQ(m))
           rest == owned[t] \ {m}
<1>1. /\ state \in [Threads -> States] /\ queue \in [Threads -> Queues \cup {None}]
      /\ q \in [Queues -> Seq(Threads)] /\ pending \in SUBSET Prios /\ resched \in BOOLEAN
      /\ suspend \in [Threads -> Nat] /\ prio \in [Threads -> 0 .. NumPriorities]
      /\ timers \in SUBSET Threads /\ parks \in SUBSET Threads
      /\ Consistent(state, suspend, prio, queue, q) /\ PendingMask
      /\ owned \in [Threads -> SUBSET Mutexes] /\ owner \in [Mutexes -> Threads \cup {None}]
      /\ count \in [Mutexes -> Nat] /\ Held /\ t \in Threads /\ t # None
      /\ stack \in [Threads -> Seq(Frames)]
  BY Now DEF Inv, TypeOK
<1>2. running = exec /\ state[t] = "running" /\ InGuest
  BY Now DEF OSUnlockMutex, InGuest
<1>3. /\ owner[m] = t /\ count' = [count EXCEPT ![m] = @ - 1]
      /\ UNCHANGED <<state, detached, suspend, queue, waitMutex, terminated, threadList,
                     schedVars, parkVars, exec>>
  BY <1>2 DEF OSUnlockMutex
<1>4. count[m] > 0
  BY <1>1, <1>3 DEF Held
<1>5. count' \in [Mutexes -> Nat] /\ \A n \in Mutexes \ {m} : count'[n] = count[n]
  BY <1>1, <1>3, <1>4
<1>6. CASE LastUnlock(m)
  <2>1. /\ owned' = [owned EXCEPT ![t] = rest] /\ owner' = [owner EXCEPT ![m] = None]
        /\ \/ prio' = [prio EXCEPT ![t] = EffectivePriority(t, q, rest)]
           \/ prio' = prio
        /\ stack' = [stack EXCEPT ![exec] = <<f>> \o stack[exec]]
    BY <1>2, <1>6 DEF OSUnlockMutex, Call
  <2>2. EffectivePriority(t, q, rest) \in Prios
    BY <1>1, EffectiveIsPriority
  <2>3. prio[t] \in Prios
    BY <1>1, <1>2 DEF Consistent, DeadStates
  <2> HIDE DEF rest
  <2>4. prio' \in [Threads -> 0 .. NumPriorities] /\ prio'[t] \in Prios
        /\ \A u \in Threads \ {t} : prio'[u] = prio[u]
    <3>1. EffectivePriority(t, q, rest) \in 0 .. NumPriorities
      BY <2>2 DEF Prios
    <3>2. CASE prio' = [prio EXCEPT ![t] = EffectivePriority(t, q, rest)]
      BY <1>1, <2>2, <3>1, <3>2
    <3>3. CASE prio' = prio
      BY <1>1, <2>3, <3>3
    <3> QED BY <2>1, <3>2, <3>3
  <2>5. Consistent(state, suspend, prio, queue, q)'
    <3>1. \A y \in Queues : t \notin Elems(q[y])
      BY <1>1, <1>2, Unlinked
    <3>2. Consistent(state, suspend, prio', queue, q)
      <4>1. queue[t] = None /\ suspend[t] = 0 /\ state[t] # "waiting"
        BY <1>1, <1>2 DEF Consistent
      <4>2. \A y \in Queues : /\ q[y] \in Seq(Threads) /\ Distinct(q[y])
                              /\ Elems(q[y]) = (Elems(q[y]) \ {t}) \cup (IF y = None THEN {t} ELSE {})
        BY <1>1, <3>1, QueueNames DEF Consistent
      <4>3. Moves(state, suspend, prio, queue, q, state, suspend, prio', queue, q, t, None)
        BY <1>1, <2>4, <4>1, <4>2, QueueNames DEF Moves, Placed
      <4> QED BY <1>1, <4>3, Relinked
    <3> QED BY <1>3, <3>2 DEF schedVars
  <2>6. /\ owned' \in [Threads -> SUBSET Mutexes] /\ owner' \in [Mutexes -> Threads \cup {None}]
        /\ Held'
    <3>1. owned' \in [Threads -> SUBSET Mutexes]
      BY <1>1, <2>1 DEF rest
    <3>2. owner' \in [Mutexes -> Threads \cup {None}]
      BY <1>1, <2>1
    <3>3. Held'
      BY <1>1, <1>5, <2>1 DEF Held
    <3> QED BY <3>1, <3>2, <3>3
  <2>7. f \in Plain
    BY FrameKinds, QueueNames
  <2> HIDE DEF f
  <2>8. /\ ExecOK(<<f>> \o stack[exec], running, exec, disable, state[exec], resched)
        /\ <<f>> \o stack[exec] \in Seq(Frames)
    BY <1>2, <2>7, PushCall
  <2>9. /\ \A u \in Threads : state'[u] = "running" => state[u] = "running"
        /\ \A u \in Threads : state[u] \in DeadStates => state'[u] \in DeadStates
    BY <1>3
  <2>10. PendingMask'
    BY <1>1, <1>3 DEF PendingMask, schedVars
  <2> QED BY <1>1, <1>3, <1>5, <2>1, <2>4, <2>5, <2>6, <2>8, <2>9, <2>10, MoveStep
          DEF schedVars, parkVars
<1>7. CASE ~LastUnlock(m)
  <2>1. UNCHANGED <<owned, owner, prio, stack>>
    BY <1>7 DEF OSUnlockMutex
  <2>2. count'[m] > 0
    BY <1>1, <1>3, <1>4, <1>7 DEF LastUnlock
  <2>3. Held'
    BY <1>1, <1>5, <2>1, <2>2 DEF Held
  <2>4. stack' = [stack EXCEPT ![exec] = stack[exec]]
    BY <1>1, <2>1
  <2>5. ExecOK(stack[exec], running, exec, disable, state[exec], resched)
    BY Now
  <2> QED BY <1>1, <1>3, <1>5, <2>1, <2>3, <2>4, <2>5, StackStep DEF schedVars, parkVars, Inv, TypeOK
<1> QED BY <1>6, <1>7
-----------------------------------------------------------------------------
\* The tail of a suspension or a resumption of a waiting thread: the priority
\* of the owners it waits for is recomputed, then the scheduler may be called.
LEMMA PropagateTail ==
  ASSUME Inv, NEW u \in Threads, NEW s \in Seq(Frames), NEW st, NEW r,
         ExecOK(s, running, exec, disable, st, r)
  PROVE  \E z \in Seq(Frames) :
           /\ z = PropagateFrom(u) \o <<Frame("resched", None)>> \o s
           /\ ExecOK(z, running, exec, disable, st, r)
<1> DEFINE g == Frame("resched", None)
           f == Frame("propagate", owner[waitMutex[u]])
<1>1. g \in Plain /\ g \in Frames
  BY FrameKinds
<1> DEFINE z == <<g>> \o s
<1>2. ExecOK(z, running, exec, disable, st, r) /\ z \in Seq(Frames)
  <2> HIDE DEF g
  <2> QED BY <1>1, PushPlain
<1>3. CASE waitMutex[u] # None /\ owner[waitMutex[u]] # None
  <2>1. owner[waitMutex[u]] \in Threads
    BY <1>3 DEF Inv, TypeOK
  <2>2. f \in Plain /\ f \in Frames
    BY <2>1, FrameKinds
  <2>3. PropagateFrom(u) \o <<g>> \o s = PairOver(f, g, s)
    BY <1>3, Zenon DEF PropagateFrom, PairOver
  <2> HIDE DEF f, g
  <2>4. PairOver(f, g, s) = Pushed(f, Pushed(g, s))
    BY <1>1, <2>2, TwoFrames
  <2>5. PairOver(f, g, s) = <<f>> \o z
    BY <2>4, Zenon DEF Pushed
  <2> HIDE DEF z
  <2>6. ExecOK(<<f>> \o z, running, exec, disable, st, r) /\ <<f>> \o z \in Seq(Frames)
    BY <1>2, <2>2, PushPlain
  <2>7. PropagateFrom(u) \o <<g>> \o s = <<f>> \o z
    BY <2>3, <2>5, Zenon
  <2> DEFINE w == <<f>> \o z
  <2> HIDE DEF w
  <2>8. /\ w \in Seq(Frames) /\ w = PropagateFrom(u) \o <<g>> \o s
        /\ ExecOK(w, running, exec, disable, st, r)
    BY <2>6, <2>7, Zenon DEF w
  <2> QED BY <2>8, Zenon DEF g
<1>4. CASE ~(waitMutex[u] # None /\ owner[waitMutex[u]] # None)
  <2>1. PropagateFrom(u) = <<>>
    BY <1>4 DEF PropagateFrom
  <2>2. <<>> \o <<g>> = <<g>>
    <3>1. <<g>> \in Seq(Frames)
      BY <1>1
    <3> QED BY <3>1, ConcatEmptySeq
  <2>3. PropagateFrom(u) \o <<g>> \o s = z
    BY <2>1, <2>2, Zenon
  <2> HIDE DEF z
  <2> QED BY <1>2, <2>3, Zenon DEF g
<1> QED BY <1>3, <1>4

\* The body of OSSuspendThread keeps the invariant for ready, running and waiting
\* threads.
LEMMA SuspendStep ==
  ASSUME Inv, NEW u \in Threads, ~Dead(u), NEW rest \in Seq(Frames), Suspend(u, rest),
         UNCHANGED <<detached, waitMutex, terminated, threadList, mutexVars, disable, running,
                     current, exec>>,
         timers' \in SUBSET Threads, parks' \in SUBSET Threads,
         ExecOK(rest, running, exec, disable, state[exec], resched),
         disable # 0 => rest = stack[exec] /\ InHandler
  PROVE  Inv'
<1> DEFINE f == Frame("resched", None)
<1>1. /\ state \in [Threads -> States] /\ queue \in [Threads -> Queues \cup {None}]
      /\ q \in [Queues -> Seq(Threads)] /\ pending \in SUBSET Prios /\ resched \in BOOLEAN
      /\ suspend \in [Threads -> Nat] /\ prio \in [Threads -> 0 .. NumPriorities]
      /\ Consistent(state, suspend, prio, queue, q) /\ PendingMask /\ exec \in Threads
  BY DEF Inv, TypeOK
<1>2. /\ suspend' = [suspend EXCEPT ![u] = @ + 1]
      /\ suspend' \in [Threads -> Nat] /\ suspend'[u] > 0
      /\ \A t \in Threads \ {u} : suspend'[t] = suspend[t]
  <2>1. suspend' = [suspend EXCEPT ![u] = @ + 1]
    BY DEF Suspend
  <2> QED BY <1>1, <2>1
<1>3. f \in Plain /\ f \in Frames /\ f \in Quiet /\ f \in Leaves(TRUE)
  BY FrameKinds DEF Leaves, Frame
<1>4. CASE suspend[u] > 0
  <2>1. stack' = [stack EXCEPT ![exec] = rest] /\ UNCHANGED <<state, prio, queue, q, pending, resched>>
    BY <1>1, <1>4 DEF Suspend
  <2>2. Consistent(state, suspend, prio, queue, q)'
    <3>1. \A t \in Threads : suspend'[t] = 0 <=> suspend[t] = 0
      BY <1>1, <1>2, <1>4
    <3>2. \A x \in Queues : \A t \in Elems(q[x]) : t \in Threads
      BY <1>1, EmptyElems
    <3>3. \A p \in Prios : RunQ(p) \in Queues
      BY QueueNames
    <3>4. Consistent(state, suspend', prio, queue, q)
      BY <1>1, <3>1, <3>2, <3>3 DEF Consistent
    <3> QED BY <2>1, <3>4
  <2>3. PendingMask'
    BY <1>1, <2>1 DEF PendingMask
  <2> QED BY <1>1, <1>2, <2>1, <2>2, <2>3, MoveStep
<1>5. CASE suspend[u] = 0 /\ state[u] = "ready"
  <2>1. /\ q' = RemoveThreadFromQueue(u) /\ pending' = UpdatePendingMask(u)
        /\ queue' = [queue EXCEPT ![u] = None] /\ UNCHANGED <<state, prio, resched>>
        /\ stack' = [stack EXCEPT ![exec] = <<>> \o <<f>> \o rest]
    BY <1>1, <1>5 DEF Suspend
  <2>2. /\ q' \in [Queues -> Seq(Threads)]
        /\ \A x \in Queues : Distinct(q'[x]) /\ Elems(q'[x]) = Elems(q[x]) \ {u}
    BY <1>1, <2>1, RemoveEffect
  <2>3. pending' = {p \in Prios : q'[RunQ(p)] # <<>>}
    BY <1>1, <2>1, MaskEffect
  <2>4. \A t \in Threads : queue'[t] = IF t = u THEN None ELSE queue[t]
    BY <1>1, <2>1
  <2>5. Consistent(state, suspend, prio, queue, q)'
    <3>1. \A x \in Queues : /\ q'[x] \in Seq(Threads)
                            /\ Elems(q'[x]) = (Elems(q[x]) \ {u}) \cup (IF x = None THEN {u} ELSE {})
      BY <2>2, QueueNames
    <3>2. Moves(state, suspend, prio, queue, q, state', suspend', prio', queue', q', u, None)
      <4>1. suspend'[u] # 0 /\ state'[u] = "ready" /\ None \notin BlockQueues
            /\ \A p \in Prios : None # RunQ(p)
        BY <1>2, <1>5, <2>1, QueueNames
      <4> QED BY <1>2, <2>1, <2>2, <2>4, <3>1, <4>1 DEF Moves, Placed
    <3> QED BY <1>1, <3>2, Relinked
  <2>6. PendingMask' /\ pending' \in SUBSET Prios
    BY <2>3 DEF PendingMask
  <2>7. queue' \in [Threads -> Queues \cup {None}]
    BY <1>1, <2>1
  <2> HIDE DEF f
  <2>8. ExecOK(<<f>> \o rest, running, exec, disable, state[exec], resched) /\ <<f>> \o rest \in Seq(Frames)
    BY <1>3, PushPlain
  <2>9. stack' = [stack EXCEPT ![exec] = <<f>> \o rest]
    <3>1. <<f>> \in Seq(Frames)
      BY <1>3
    <3>2. <<>> \o <<f>> = <<f>>
      BY <3>1, ConcatEmptySeq
    <3> QED BY <2>1, <3>2, Zenon
  <2> QED BY <1>1, <1>2, <2>1, <2>2, <2>5, <2>6, <2>7, <2>8, <2>9, MoveStep
<1>6. CASE suspend[u] = 0 /\ state[u] = "running"
  <2>1. /\ state' = [state EXCEPT ![u] = "ready"] /\ resched' = TRUE
        /\ UNCHANGED <<prio, queue, q, pending>>
        /\ stack' = [stack EXCEPT ![exec] = <<>> \o <<f>> \o rest]
    BY <1>1, <1>6 DEF Suspend
  <2>2. u = exec /\ running = exec
    BY <1>6 DEF Inv, Host
  <2>3. \A x \in Queues : u \notin Elems(q[x])
    BY <1>1, <1>6, Unlinked
  <2>4. \A t \in Threads : state'[t] = IF t = u THEN "ready" ELSE state[t]
    BY <1>1, <2>1
  <2>5. Consistent(state, suspend, prio, queue, q)'
    <3>1. \A x \in Queues : /\ q[x] \in Seq(Threads) /\ Distinct(q[x])
                            /\ Elems(q[x]) = (Elems(q[x]) \ {u}) \cup (IF x = None THEN {u} ELSE {})
      BY <1>1, <2>3, QueueNames DEF Consistent
    <3>2. Moves(state, suspend, prio, queue, q, state', suspend', prio', queue', q', u, None)
      BY <1>1, <1>2, <2>1, <2>4, <3>1, QueueNames DEF Moves, Placed
    <3> QED BY <1>1, <3>2, Relinked
  <2>6. PendingMask'
    BY <1>1, <2>1 DEF PendingMask
  <2>7. state' \in [Threads -> States]
    BY <1>1, <2>1 DEF States
  <2> HIDE DEF f
  <2>8. ExecOK(<<f>> \o rest, running, exec, disable, state'[exec], resched') /\ <<f>> \o rest \in Seq(Frames)
    <3>1. CASE disable = 0
      <4>1. rest \in Seq(Quiet)
        BY <2>2, <3>1 DEF ExecOK
      <4>2. ExecOK(<<f>> \o rest, exec, exec, 0, state'[exec], TRUE) /\ <<f>> \o rest \in Seq(Frames)
        BY <1>3, <4>1, LeaveTop
      <4> QED BY <2>1, <2>2, <3>1, <4>2
    <3>2. CASE disable # 0
      <4>1. rest = <<HandlerFrame>> /\ disable = 1
        BY <3>2, Now
      <4>2. Over(rest, Plain, {HandlerFrame}, {}) /\ Over(rest, Quiet, {HandlerFrame}, {})
        BY <4>1 DEF Over
      <4>3. ExecOK(rest, running, exec, disable, state'[exec], TRUE)
        BY <2>2, <4>1, <4>2 DEF ExecOK
      <4>4. ExecOK(<<f>> \o rest, running, exec, disable, state'[exec], TRUE) /\ <<f>> \o rest \in Seq(Frames)
        BY <1>3, <4>3, PushPlain
      <4> QED BY <2>1, <4>4
    <3> QED BY <3>1, <3>2
  <2>9. stack' = [stack EXCEPT ![exec] = <<f>> \o rest]
    <3>1. <<f>> \in Seq(Frames)
      BY <1>3
    <3>2. <<>> \o <<f>> = <<f>>
      BY <3>1, ConcatEmptySeq
    <3> QED BY <2>1, <3>2, Zenon
  <2>10. /\ \A t \in Threads : state'[t] = "running" => state[t] = "running"
         /\ \A t \in Threads : state[t] \in DeadStates => state'[t] \in DeadStates
    BY <1>6, <2>4 DEF DeadStates
  <2> QED BY <1>1, <1>2, <2>1, <2>5, <2>6, <2>7, <2>8, <2>9, <2>10, MoveStep
<1>7. CASE suspend[u] = 0 /\ state[u] = "waiting"
  <2> DEFINE x == queue[u]
  <2>1. /\ prio' = [prio EXCEPT ![u] = NumPriorities]
        /\ q' = InsertByPriority(RemoveThreadFromQueue(u), x, u, NumPriorities)
        /\ UNCHANGED <<state, queue, pending, resched>>
        /\ stack' = [stack EXCEPT ![exec] = PropagateFrom(u) \o <<f>> \o rest]
    BY <1>1, <1>7 DEF Suspend, SuspendedWaitPriority
  <2>2. x \in BlockQueues /\ x \in Queues /\ x # None
    BY <1>1, <1>7, QueueNames DEF Consistent
  <2>3. NumPriorities \in 0 .. NumPriorities
    OBVIOUS
  <2>4. /\ q' \in [Queues -> Seq(Threads)] /\ Placed(q, q', u, x)
        /\ \A y \in Queues \ {x} : q'[y] = RemoveThreadFromQueue(u)[y]
    <3> HIDE DEF x
    <3>1. q' = InsertByPriority(RemoveThreadFromQueue(u), x, u, NumPriorities)
      BY <2>1
    <3> QED BY <2>2, <2>3, <3>1, Reinserted
  <2>5. Consistent(state, suspend, prio, queue, q)'
    <3>1. prio' \in [Threads -> 0 .. NumPriorities] /\ \A t \in Threads \ {u} : prio'[t] = prio[t]
      BY <1>1, <2>1, <2>3
    <3>2. \A p \in Prios : x # RunQ(p)
      BY <2>2, QueueNames
    <3>3. Moves(state, suspend, prio, queue, q, state', suspend', prio', queue', q', u, x)
      BY <1>1, <1>2, <1>7, <2>1, <2>2, <2>4, <3>1, <3>2 DEF Moves
    <3> QED BY <1>1, <3>3, Relinked
  <2>6. PendingMask'
    <3>1. \A p \in Prios : q'[RunQ(p)] = q[RunQ(p)]
      BY <1>7, <2>4, WaiterMoves
    <3> QED BY <1>1, <2>1, <3>1 DEF PendingMask
  <2>7. prio' \in [Threads -> 0 .. NumPriorities]
    BY <1>1, <2>1, <2>3
  <2>8. PICK z \in Seq(Frames) : /\ z = PropagateFrom(u) \o <<f>> \o rest
                                 /\ ExecOK(z, running, exec, disable, state[exec], resched)
    BY PropagateTail
  <2> HIDE DEF f, x
  <2> QED BY <1>1, <1>2, <2>1, <2>4, <2>5, <2>6, <2>7, <2>8, MoveStep
<1> QED
  <2>1. \/ suspend[u] > 0
        \/ suspend[u] = 0 /\ state[u] = "ready"
        \/ suspend[u] = 0 /\ state[u] = "running"
        \/ suspend[u] = 0 /\ state[u] = "waiting"
    <3>1. suspend[u] \in Nat /\ state[u] \in States /\ state[u] \notin {"none", "moribund"}
      BY <1>1 DEF Dead
    <3>2. state[u] = "ready" \/ state[u] = "running" \/ state[u] = "waiting"
      BY <3>1 DEF States
    <3>3. suspend[u] > 0 \/ suspend[u] = 0
      BY <3>1
    <3> QED BY <3>2, <3>3, Zenon
  <2> QED BY <1>4, <1>5, <1>6, <1>7, <2>1, Zenon

\* OSSuspendThread keeps the invariant.
LEMMA OSSuspendThreadStep ==
  ASSUME Inv, NEW u \in Threads, OSSuspendThread(u)
  PROVE  Inv'
<1>1. /\ InGuest /\ ~Dead(u) /\ Suspend(u, stack[exec])
      /\ UNCHANGED <<detached, waitMutex, terminated, threadList, mutexVars, disable, running,
                     current, exec>>
      /\ timers' \in SUBSET Threads /\ parks' \in SUBSET Threads
  BY DEF OSSuspendThread, Calls, Inv, TypeOK, parkVars
<1>2. /\ stack[exec] \in Seq(Frames)
      /\ ExecOK(stack[exec], running, exec, disable, state[exec], resched)
      /\ disable # 0 => InHandler
  BY <1>1, Now DEF InGuest
<1> QED BY <1>1, <1>2, SuspendStep

\* OSSleepTicks, a suspension of the running thread, keeps the invariant.
LEMMA OSSleepTicksStep ==
  ASSUME Inv, OSSleepTicks
  PROVE  Inv'
<1> DEFINE f == Frame("ticks", None)
<1>1. /\ InThread /\ disable = 0 /\ running = exec /\ exec \in Threads
      /\ state[exec] = "running" /\ stack[exec] \in Seq(Frames)
      /\ ExecOK(stack[exec], running, exec, disable, state[exec], resched)
  BY Now DEF OSSleepTicks, Calls, InGuest
<1>2. /\ Suspend(exec, <<f>> \o stack[exec]) /\ ~Dead(exec)
      /\ UNCHANGED <<detached, waitMutex, terminated, threadList, mutexVars, disable, running,
                     current, exec>>
      /\ timers' \in SUBSET Threads /\ parks' \in SUBSET Threads
  BY <1>1 DEF OSSleepTicks, Inv, TypeOK, Dead
<1>3. f \in Quiet
  BY FrameKinds
<1> HIDE DEF f
<1>4. /\ <<f>> \o stack[exec] \in Seq(Frames)
      /\ ExecOK(<<f>> \o stack[exec], running, exec, disable, state[exec], resched)
  BY <1>1, <1>3, PushLive
<1> QED BY <1>1, <1>2, <1>4, SuspendStep

\* Setting the reschedule flag suits every stack.
LEMMA Raised ==
  ASSUME NEW s, NEW run, NEW ex, NEW dis, NEW st, NEW r \in BOOLEAN,
         ExecOK(s, run, ex, dis, st, r)
  PROVE  ExecOK(s, run, ex, dis, st, TRUE)
BY Raise

\* The body of OSResumeThread keeps the invariant for ready and waiting threads.
LEMMA ResumeStep ==
  ASSUME Inv, NEW u \in Threads, ~Dead(u), Resume(u),
         timers' \in SUBSET Threads, parks' \in SUBSET Threads
  PROVE  Inv'
<1> DEFINE f    == Frame("resched", None)
           free == RemoveThreadFromQueue(u)
           p    == EffectivePriority(u, IF state[u] = "waiting" THEN free ELSE q, owned[u])
<1>1. /\ state \in [Threads -> States] /\ queue \in [Threads -> Queues \cup {None}]
      /\ q \in [Queues -> Seq(Threads)] /\ pending \in SUBSET Prios /\ resched \in BOOLEAN
      /\ suspend \in [Threads -> Nat] /\ prio \in [Threads -> 0 .. NumPriorities]
      /\ owned \in [Threads -> SUBSET Mutexes]
      /\ Consistent(state, suspend, prio, queue, q) /\ PendingMask /\ exec \in Threads
      /\ stack[exec] \in Seq(Frames) /\ stack \in [Threads -> Seq(Frames)]
      /\ ExecOK(stack[exec], running, exec, disable, state[exec], resched)
  BY Now DEF Inv, TypeOK
<1>2. /\ suspend' = [suspend EXCEPT ![u] = IF @ = 0 THEN 0 ELSE @ - 1]
      /\ UNCHANGED <<detached, waitMutex, terminated, threadList, mutexVars, disable,
                     running, current, exec>>
  BY DEF Resume
<1>3. suspend' \in [Threads -> Nat] /\ \A t \in Threads \ {u} : suspend'[t] = suspend[t]
  <2>1. (IF suspend[u] = 0 THEN 0 ELSE suspend[u] - 1) \in Nat
    BY <1>1
  <2> QED BY <1>1, <1>2, <2>1
<1>4. f \in Plain /\ f \in Frames
  BY FrameKinds
<1>5. CASE suspend[u] # 1
  <2>1. UNCHANGED <<state, prio, queue, q, pending, resched, stack>>
    BY <1>1, <1>5 DEF Resume
  <2>2. Consistent(state, suspend, prio, queue, q)'
    <3>1. \A t \in Threads : suspend'[t] = 0 <=> suspend[t] = 0
      BY <1>1, <1>2, <1>3, <1>5
    <3>2. \A x \in Queues : \A t \in Elems(q[x]) : t \in Threads
      BY <1>1, EmptyElems
    <3>3. \A r \in Prios : RunQ(r) \in Queues
      BY QueueNames
    <3>4. Consistent(state, suspend', prio, queue, q)
      BY <1>1, <3>1, <3>2, <3>3 DEF Consistent
    <3> QED BY <2>1, <3>4
  <2>3. PendingMask'
    BY <1>1, <2>1 DEF PendingMask
  <2>4. stack' = [stack EXCEPT ![exec] = stack[exec]]
    BY <1>1, <2>1
  <2> QED BY <1>1, <1>2, <1>3, <2>1, <2>2, <2>3, <2>4, MoveStep
<1>6. ASSUME suspend[u] = 1 PROVE suspend'[u] = 0
  BY <1>1, <1>2, <1>6
<1>7. p \in Prios /\ p \in 0 .. NumPriorities
  <2>1. free \in [Queues -> Seq(Threads)]
    BY <1>1, RemoveEffect
  <2> HIDE DEF free
  <2>2. p \in Prios
    BY <1>1, <2>1, EffectiveIsPriority
  <2> QED BY <2>2 DEF Prios
<1>8. CASE suspend[u] = 1 /\ state[u] = "waiting"
  <2> DEFINE x == queue[u]
  <2>1. /\ prio' = [prio EXCEPT ![u] = p] /\ q' = InsertByPriority(free, x, u, p)
        /\ UNCHANGED <<state, queue, pending, resched>>
        /\ stack' = [stack EXCEPT ![exec] = PropagateFrom(u) \o <<f>> \o stack[exec]]
    BY <1>1, <1>8 DEF Resume, Call
  <2>2. x \in BlockQueues /\ x \in Queues /\ x # None
    BY <1>1, <1>8, QueueNames DEF Consistent
  <2> HIDE DEF p
  <2>3. /\ q' \in [Queues -> Seq(Threads)] /\ Placed(q, q', u, x)
        /\ \A y \in Queues \ {x} : q'[y] = RemoveThreadFromQueue(u)[y]
    <3> HIDE DEF x
    <3>1. q' = InsertByPriority(RemoveThreadFromQueue(u), x, u, p)
      BY <2>1
    <3> QED BY <1>7, <2>2, <3>1, Reinserted
  <2>4. prio' \in [Threads -> 0 .. NumPriorities] /\ prio'[u] = p /\ \A t \in Threads \ {u} : prio'[t] = prio[t]
    BY <1>1, <1>7, <2>1
  <2>5. Consistent(state, suspend, prio, queue, q)'
    <3>1. \A r \in Prios : x # RunQ(r)
      BY <2>2, QueueNames
    <3>2. Moves(state, suspend, prio, queue, q, state', suspend', prio', queue', q', u, x)
      BY <1>1, <1>3, <1>7, <1>8, <2>1, <2>2, <2>3, <2>4, <3>1 DEF Moves
    <3> QED BY <1>1, <3>2, Relinked
  <2>6. PendingMask'
    <3>1. \A r \in Prios : q'[RunQ(r)] = q[RunQ(r)]
      BY <1>8, <2>3, WaiterMoves
    <3> QED BY <1>1, <2>1, <3>1 DEF PendingMask
  <2>7. PICK z \in Seq(Frames) : /\ z = PropagateFrom(u) \o <<f>> \o stack[exec]
                                 /\ ExecOK(z, running, exec, disable, state[exec], resched)
    BY <1>1, PropagateTail
  <2> HIDE DEF f, x
  <2> QED BY <1>1, <1>2, <1>3, <2>1, <2>3, <2>4, <2>5, <2>6, <2>7, MoveStep
<1>9. CASE suspend[u] = 1 /\ state[u] # "waiting"
  <2> DEFINE x == RunQ(p)
  <2>1. state[u] = "ready"
    <3>1. state[u] \in States /\ state[u] \notin {"none", "moribund"}
      BY <1>1 DEF Dead
    <3>2. state[u] # "running"
      BY <1>1, <1>9 DEF Consistent
    <3> QED BY <1>9, <3>1, <3>2 DEF States
  <2>2. /\ prio' = [prio EXCEPT ![u] = p] /\ state' = [state EXCEPT ![u] = "ready"]
        /\ q' = InsertByPriority(q, x, u, p) /\ queue' = [queue EXCEPT ![u] = x]
        /\ pending' = pending \cup {p} /\ resched' = TRUE
        /\ stack' = [stack EXCEPT ![exec] = <<f>> \o stack[exec]]
    BY <1>1, <1>9, <2>1 DEF Resume, Call
  <2> HIDE DEF p
  <2>3. x \in Queues /\ x \notin BlockQueues /\ x # None /\ \A r \in Prios : x = RunQ(r) => r = p
    BY <1>7, QueueNames
  <2>4. \A y \in Queues : u \notin Elems(q[y])
    <3>1. state[u] # "waiting" /\ (state[u] # "ready" \/ suspend[u] # 0)
      BY <1>9
    <3> QED BY <1>1, <3>1, Unlinked
  <2> HIDE DEF x
  <2>5. /\ q' \in [Queues -> Seq(Threads)] /\ \A y \in Queues \ {x} : q'[y] = q[y]
        /\ Distinct(q'[x]) /\ Elems(q'[x]) = Elems(q[x]) \cup {u}
    <3>1. q[x] \in Seq(Threads) /\ Distinct(q[x]) /\ u \notin Elems(q[x])
      BY <1>1, <2>3, <2>4 DEF Consistent
    <3>2. InsertPosition(q[x], p) \in 1 .. Len(q[x]) + 1
      BY <1>1, <1>7, <3>1, InsertPlace
    <3>3. q' = [q EXCEPT ![x] = InsertAt(q[x], InsertPosition(q[x], p), u)]
      BY <2>2 DEF InsertByPriority
    <3>4. /\ InsertAt(q[x], InsertPosition(q[x], p), u) \in Seq(Threads)
          /\ Distinct(InsertAt(q[x], InsertPosition(q[x], p), u))
          /\ Elems(InsertAt(q[x], InsertPosition(q[x], p), u)) = Elems(q[x]) \cup {u}
      <4> DEFINE k == InsertPosition(q[x], p)
                 c == q[x]
      <4>1. c \in Seq(Threads) /\ Distinct(c) /\ u \notin Elems(c) /\ k \in 1 .. Len(c) + 1
        BY <3>1, <3>2
      <4> HIDE DEF c, k
      <4>2. /\ InsertAt(c, k, u) \in Seq(Threads) /\ Distinct(InsertAt(c, k, u))
            /\ Elems(InsertAt(c, k, u)) = Elems(c) \cup {u}
        BY <4>1, InsertElems
      <4> QED BY <4>2 DEF c, k
    <3> QED BY <1>1, <2>3, <3>3, <3>4
  <2>6. Placed(q, q', u, x)
    <3> SUFFICES ASSUME NEW y \in Queues
                 PROVE  /\ q'[y] \in Seq(Threads) /\ Distinct(q'[y])
                        /\ Elems(q'[y]) = (Elems(q[y]) \ {u}) \cup (IF y = x THEN {u} ELSE {})
      BY DEF Placed
    <3>1. CASE y = x
      BY <2>4, <2>5, <3>1
    <3>2. CASE y # x
      BY <1>1, <2>4, <2>5, <3>2 DEF Consistent
    <3> QED BY <3>1, <3>2
  <2>7. /\ prio' \in [Threads -> 0 .. NumPriorities] /\ prio'[u] = p
        /\ \A t \in Threads \ {u} : prio'[t] = prio[t]
    BY <1>1, <1>7, <2>2
  <2>8. /\ queue' \in [Threads -> Queues \cup {None}] /\ queue'[u] = x
        /\ \A t \in Threads \ {u} : queue'[t] = queue[t]
    BY <1>1, <2>2, <2>3
  <2>9. state' = state
    BY <1>1, <2>1, <2>2
  <2>10. Consistent(state, suspend, prio, queue, q)'
    <3>1. Moves(state, suspend, prio, queue, q, state', suspend', prio', queue', q', u, x)
      BY <1>3, <1>6, <1>7, <1>9, <2>1, <2>3, <2>6, <2>7, <2>8, <2>9 DEF Moves
    <3> QED BY <1>1, <3>1, Relinked
  <2>11. PendingMask' /\ pending' \in SUBSET Prios
    <3>1. \A r \in Prios : r # p => q'[RunQ(r)] = q[RunQ(r)]
      BY <2>3, <2>5, QueueNames
    <3>2. q'[RunQ(p)] # <<>>
      <4>1. u \in Elems(q'[x]) /\ q'[x] \in Seq(Threads)
        BY <2>3, <2>5
      <4> QED BY <4>1, EmptyElems DEF x
    <3>3. pending = {r \in Prios : q[RunQ(r)] # <<>>} /\ pending' = pending \cup {p} /\ p \in Prios
      BY <1>1, <1>7, <2>2 DEF PendingMask
    <3>4. pending' = {r \in Prios : q'[RunQ(r)] # <<>>}
      BY <3>1, <3>2, <3>3
    <3> QED BY <3>3, <3>4 DEF PendingMask
  <2> HIDE DEF f
  <2>12. /\ ExecOK(<<f>> \o stack[exec], running, exec, disable, state'[exec], resched')
         /\ <<f>> \o stack[exec] \in Seq(Frames)
    <3>1. ExecOK(stack[exec], running, exec, disable, state[exec], TRUE)
      BY <1>1, Raised
    <3>2. /\ ExecOK(<<f>> \o stack[exec], running, exec, disable, state[exec], TRUE)
          /\ <<f>> \o stack[exec] \in Seq(Frames)
      BY <1>1, <1>4, <3>1, PushPlain
    <3> QED BY <2>2, <2>9, <3>2
  <2>13. /\ state' \in [Threads -> States]
         /\ \A t \in Threads : state'[t] = "running" => state[t] = "running"
         /\ \A t \in Threads : state[t] \in DeadStates => state'[t] \in DeadStates
    BY <1>1, <2>9
  <2>14. /\ stack' = [stack EXCEPT ![exec] = <<f>> \o stack[exec]] /\ resched' \in BOOLEAN
         /\ UNCHANGED mutexVars
    BY <1>2, <2>2
  <2> DEFINE z == <<f>> \o stack[exec]
  <2>15. /\ z \in Seq(Frames) /\ stack' = [stack EXCEPT ![exec] = z]
         /\ ExecOK(z, running, exec, disable, state'[exec], resched')
    BY <2>12, <2>14
  <2> HIDE DEF z
  <2> QED BY <1>2, <1>3, <2>5, <2>7, <2>8, <2>10, <2>11, <2>13, <2>14, <2>15, MoveStep
<1> QED BY <1>5, <1>8, <1>9

\* OSResumeThread keeps the invariant.
LEMMA OSResumeThreadStep ==
  ASSUME Inv, NEW u \in Threads, OSResumeThread(u)
  PROVE  Inv'
<1>1. timers' \in SUBSET Threads /\ parks' \in SUBSET Threads
  BY DEF OSResumeThread, Inv, TypeOK
<1>2. ~Dead(u) /\ Resume(u)
  BY DEF OSResumeThread
<1> QED BY <1>1, <1>2, ResumeStep

\* A sleep timer that fires keeps the invariant.
LEMMA TimerFiresStep ==
  ASSUME Inv, NEW u \in Threads, TimerFires(u)
  PROVE  Inv'
<1>1. timers' \in SUBSET Threads /\ parks' \in SUBSET Threads
  BY DEF TimerFires, Inv, TypeOK
<1>2. CASE state[u] = "ready" /\ Resume(u)
  BY <1>1, <1>2, ResumeStep DEF Dead
<1>3. CASE UNCHANGED <<threadVars, mutexVars, schedVars, hostVars>>
  <2>1. TypeOK'
    BY <1>1, <1>3 DEF Inv, TypeOK, threadVars, mutexVars, schedVars, hostVars
  <2> QED BY <1>3, <2>1 DEF Inv, PendingMask, Host, Held, threadVars, mutexVars, schedVars, hostVars
<1> QED BY <1>2, <1>3 DEF TimerFires

\* A thread whose effective priority changes keeps its place in order.
LEMMA PriorityStep ==
  ASSUME Inv, NEW u \in Threads, NEW p \in Prios, suspend[u] = 0,
         SetThreadEffectivePriority(u, p),
         UNCHANGED <<state, detached, suspend, waitMutex, terminated, threadList, mutexVars,
                     disable, running, current, parkVars, exec>>,
         NEW s \in Seq(Frames), stack' = [stack EXCEPT ![exec] = s],
         ExecOK(s, running, exec, disable, state[exec], resched)
  PROVE  Inv'
<1> DEFINE x == IF state[u] = "ready" THEN RunQ(p) ELSE queue[u]
           free == RemoveThreadFromQueue(u)
<1>1. /\ state \in [Threads -> States] /\ queue \in [Threads -> Queues \cup {None}]
      /\ q \in [Queues -> Seq(Threads)] /\ pending \in SUBSET Prios /\ resched \in BOOLEAN
      /\ suspend \in [Threads -> Nat] /\ prio \in [Threads -> 0 .. NumPriorities]
      /\ timers \in SUBSET Threads /\ parks \in SUBSET Threads
      /\ Consistent(state, suspend, prio, queue, q) /\ PendingMask /\ exec \in Threads
  BY DEF Inv, TypeOK
<1>2. resched' \in BOOLEAN /\ ExecOK(s, running, exec, disable, state'[exec], resched')
  <2>1. resched' = (resched \/ state[u] \in {"ready", "running"})
    BY DEF SetThreadEffectivePriority
  <2>2. resched' = resched \/ resched' = TRUE
    BY <1>1, <2>1
  <2>3. ExecOK(s, running, exec, disable, state[exec], TRUE)
    BY <1>1, Raised
  <2>4. ExecOK(s, running, exec, disable, state[exec], resched')
    BY <2>2, <2>3
  <2> QED BY <1>1, <2>2, <2>4
<1>3. p \in 0 .. NumPriorities
  BY DEF Prios
<1>4. CASE Dead(u)
  <2>0. state[u] # "ready" /\ state[u] # "waiting" /\ state[u] # "running"
    BY <1>4 DEF Dead
  <2>1. UNCHANGED <<prio, q, queue, pending, resched>>
    BY <1>1, <1>4, <2>0 DEF SetThreadEffectivePriority
  <2> QED BY <1>1, <2>1, StackOnly DEF threadVars, schedVars
<1>5. CASE ~Dead(u)
  <2>1. prio' = [prio EXCEPT ![u] = p]
    BY <1>5 DEF SetThreadEffectivePriority
  <2>2. /\ prio' \in [Threads -> 0 .. NumPriorities] /\ prio'[u] = p
        /\ \A t \in Threads \ {u} : prio'[t] = prio[t]
    BY <1>1, <1>3, <2>1
  <2>3. CASE state[u] = "running"
    <3>1. UNCHANGED <<q, queue, pending>>
      BY <2>3 DEF SetThreadEffectivePriority
    <3>2. Placed(q, q', u, None)
      <4>1. \A y \in Queues : u \notin Elems(q[y]) /\ y # None
        BY <1>1, <2>3, Unlinked, QueueNames
      <4> QED BY <1>1, <3>1, <4>1 DEF Placed, Consistent
    <3>3. queue[u] = None /\ None \notin BlockQueues /\ \A r \in Prios : None # RunQ(r)
      BY <1>1, <2>3, QueueNames DEF Consistent
    <3>4. Moves(state, suspend, prio, queue, q, state', suspend', prio', queue', q', u, None)
      BY <2>2, <2>3, <3>1, <3>2, <3>3 DEF Moves
    <3>5. Consistent(state, suspend, prio, queue, q)'
      BY <1>1, <3>4, Relinked
    <3>6. PendingMask'
      BY <1>1, <3>1 DEF PendingMask
    <3> QED BY <1>1, <1>2, <2>2, <3>1, <3>5, <3>6, MoveStep DEF parkVars
  <2>4. CASE state[u] = "waiting"
    <3>1. x = queue[u] /\ x \in BlockQueues /\ x \in Queues /\ x # None
      BY <1>1, <2>4, QueueNames DEF Consistent
    <3>2. q' = InsertByPriority(free, x, u, p) /\ queue' = queue /\ pending' = pending
      BY <1>1, <2>4, <3>1 DEF SetThreadEffectivePriority
    <3> HIDE DEF x
    <3>3. /\ q' \in [Queues -> Seq(Threads)] /\ Placed(q, q', u, x)
          /\ \A y \in Queues \ {x} : q'[y] = free[y]
      BY <1>3, <3>1, <3>2, Reinserted
    <3>4. \A r \in Prios : x # RunQ(r)
      BY <3>1, QueueNames
    <3>5. Moves(state, suspend, prio, queue, q, state', suspend', prio', queue', q', u, x)
      BY <2>2, <2>4, <3>1, <3>2, <3>3, <3>4 DEF Moves
    <3>6. Consistent(state, suspend, prio, queue, q)'
      BY <1>1, <3>5, Relinked
    <3>7. PendingMask'
      <4>1. \A r \in Prios : q'[RunQ(r)] = q[RunQ(r)]
        BY <2>4, <3>1, <3>3, WaiterMoves
      <4> QED BY <1>1, <3>2, <4>1 DEF PendingMask
    <3> QED BY <1>1, <1>2, <2>2, <3>2, <3>3, <3>6, <3>7, MoveStep DEF parkVars
  <2>5. CASE state[u] = "ready"
    <3>1. x = RunQ(p) /\ x \in Queues /\ x \notin BlockQueues /\ x # None
          /\ \A r \in Prios : x = RunQ(r) => r = p
      BY <2>5, QueueNames
    <3>2. /\ q' = InsertByPriority(free, x, u, p) /\ queue' = [queue EXCEPT ![u] = x]
          /\ pending' = UpdatePendingMask(u) \cup {p}
      BY <1>1, <2>5, <3>1 DEF SetThreadEffectivePriority
    <3> HIDE DEF x
    <3>3. /\ q' \in [Queues -> Seq(Threads)] /\ Placed(q, q', u, x)
          /\ \A y \in Queues \ {x} : q'[y] = free[y]
      BY <1>3, <3>1, <3>2, Reinserted
    <3>4. /\ queue' \in [Threads -> Queues \cup {None}] /\ queue'[u] = x
          /\ \A t \in Threads \ {u} : queue'[t] = queue[t]
      BY <1>1, <3>1, <3>2
    <3>5. Moves(state, suspend, prio, queue, q, state', suspend', prio', queue', q', u, x)
      BY <2>2, <2>5, <3>1, <3>3, <3>4 DEF Moves, DeadStates
    <3>6. Consistent(state, suspend, prio, queue, q)'
      BY <1>1, <3>5, Relinked
    <3>7. PendingMask' /\ pending' \in SUBSET Prios
      <4>1. UpdatePendingMask(u) = {r \in Prios : free[RunQ(r)] # <<>>}
        BY <1>1, MaskEffect
      <4>2. \A r \in Prios : r # p => q'[RunQ(r)] = free[RunQ(r)]
        BY <3>1, <3>3, QueueNames
      <4>3. q'[RunQ(p)] # <<>>
        <5>1. u \in Elems(q'[x]) /\ q'[x] \in Seq(Threads)
          BY <3>1, <3>3 DEF Placed
        <5>2. q'[x] # <<>>
          BY <5>1, EmptyElems
        <5> QED BY <3>1, <5>2
      <4> QED BY <3>2, <4>1, <4>2, <4>3 DEF PendingMask
    <3> QED BY <1>1, <1>2, <2>2, <3>3, <3>4, <3>6, <3>7, MoveStep DEF parkVars
  <2> QED BY <1>1, <1>5, <2>3, <2>4, <2>5 DEF Dead, States
<1> QED BY <1>4, <1>5

\* A step of PropagateMutexOwnerPriority keeps the invariant.
LEMMA PropagateStep ==
  ASSUME Inv, Propagate
  PROVE  Inv'
<1> DEFINE h == Head(stack[exec])
           u == Arg
           p == EffectivePriority(u, q, owned[u])
           next == IF state[u] = "waiting" /\ waitMutex[u] # None
                   THEN owner[waitMutex[u]] ELSE None
           f == Frame(h.op, next)
           s == Tail(stack[exec])
<1>1. /\ stack[exec] # <<>> /\ h \in Quiet /\ h.op = "propagate" /\ u \in Threads
      /\ stack[exec] \in Seq(Frames) /\ s \in Seq(Frames)
      /\ ExecOK(stack[exec], running, exec, disable, state[exec], resched)
  BY Now, FrameArgs DEF Propagate, Quiet, IdleFrame, HandlerFrame, Frame, Arg
<1>2. h \in Plain /\ h \notin Leaves(resched)
  BY <1>1 DEF Plain, PlainOps, Quiet, Leaves
<1>3. ExecOK(s, running, exec, disable, state[exec], resched)
  BY <1>1, <1>2, PopPlain
<1>4. UNCHANGED <<state, detached, suspend, waitMutex, terminated, threadList,
                  mutexVars, disable, running, current, parkVars, exec>>
  BY DEF Propagate
<1>5. CASE Return /\ UNCHANGED <<prio, q, queue, pending, resched>>
  <2>1. stack' = [stack EXCEPT ![exec] = s]
    BY <1>1, <1>5, ConcatEmptySeq DEF Return, Become
  <2>2. UNCHANGED <<threadVars, mutexVars, schedVars, parkVars, exec>>
    BY <1>4, <1>5 DEF threadVars, schedVars
  <2> QED BY <1>1, <1>3, <2>1, <2>2, StackOnly
<1>6. CASE ~(suspend[u] >= 1 \/ prio[u] = p) /\ SetThreadEffectivePriority(u, p)
  <2>1. suspend[u] = 0 /\ p \in Prios
    <3>1. /\ suspend \in [Threads -> Nat] /\ prio \in [Threads -> 0 .. NumPriorities]
          /\ q \in [Queues -> Seq(Threads)] /\ owned \in [Threads -> SUBSET Mutexes]
      BY DEF Inv, TypeOK
    <3>2. p \in Prios
      <4> HIDE DEF u
      <4>1. owned[u] \in SUBSET Mutexes
        BY <1>1, <3>1
      <4> QED BY <1>1, <3>1, <4>1, EffectiveIsPriority
    <3> QED BY <1>1, <1>6, <3>1, <3>2
  <2>2. stack' = [stack EXCEPT ![exec] = (IF next = None THEN <<>> ELSE <<f>>) \o s]
    BY <1>6 DEF SetThreadEffectivePriority, Become
  <2> HIDE DEF p, u
  <2>3. CASE next = None
    <3>1. stack' = [stack EXCEPT ![exec] = s]
      BY <1>1, <2>2, <2>3, ConcatEmptySeq
    <3> HIDE DEF s
    <3> QED BY <1>1, <1>3, <1>4, <1>6, <2>1, <3>1, PriorityStep
  <2>4. CASE next # None
    <3>1. next \in Threads
      BY <1>1, <2>4 DEF Inv, TypeOK
    <3>2. f \in Plain
      BY <1>1, <3>1, FrameKinds
    <3> DEFINE z == <<f>> \o s
    <3>3. stack' = [stack EXCEPT ![exec] = z]
      BY <2>2, <2>4
    <3> HIDE DEF f, s
    <3>4. z \in Seq(Frames) /\ ExecOK(z, running, exec, disable, state[exec], resched)
      BY <1>1, <1>3, <3>2, PushPlain
    <3> HIDE DEF z
    <3> QED BY <1>1, <1>4, <1>6, <2>1, <3>3, <3>4, PriorityStep
  <2> QED BY <2>3, <2>4
<1> QED BY <1>5, <1>6 DEF Propagate

\* A step of PromoteThreadPriority keeps the invariant.
LEMMA PromoteStep ==
  ASSUME Inv, Promote
  PROVE  Inv'
<1> DEFINE h == Head(stack[exec])
           u == Arg
           p == prio[exec]
           next == IF state[u] = "waiting" /\ waitMutex[u] # None
                   THEN owner[waitMutex[u]] ELSE None
           f == Frame(h.op, next)
           s == Tail(stack[exec])
<1>1. /\ stack[exec] # <<>> /\ h \in Quiet /\ h.op = "promote" /\ exec \in Threads
      /\ state[exec] = "running" /\ s \in Seq(Frames)
      /\ ExecOK(s, running, exec, disable, state[exec], resched)
  BY RunsItself DEF Promote
<1>2. u \in Threads
  BY <1>1, FrameKinds, FrameArgs DEF Arg
<1>4. UNCHANGED <<state, detached, suspend, waitMutex, terminated, threadList,
                  mutexVars, disable, running, current, parkVars, exec>>
  BY DEF Promote
<1>5. CASE Return /\ UNCHANGED <<prio, q, queue, pending, resched>>
  <2>1. stack' = [stack EXCEPT ![exec] = s]
    BY <1>1, <1>5, ConcatEmptySeq DEF Return, Become
  <2>2. UNCHANGED <<threadVars, mutexVars, schedVars, parkVars, exec>>
    BY <1>4, <1>5 DEF threadVars, schedVars
  <2> QED BY <1>1, <2>1, <2>2, StackOnly
<1>6. CASE ~PromoteStops(u) /\ SetThreadEffectivePriority(u, p)
  <2>1. suspend[u] = 0 /\ p \in Prios
    <3>1. suspend \in [Threads -> Nat] /\ Consistent(state, suspend, prio, queue, q)
      BY DEF Inv, TypeOK
    <3>2. p \in Prios
      BY <1>1, <3>1 DEF Consistent, DeadStates
    <3> QED BY <1>2, <1>6, <3>1, <3>2 DEF PromoteStops
  <2>2. stack' = [stack EXCEPT ![exec] = (IF next = None THEN <<>> ELSE <<f>>) \o s]
    BY <1>6 DEF SetThreadEffectivePriority, Become
  <2> HIDE DEF p, u
  <2>3. CASE next = None
    <3>1. stack' = [stack EXCEPT ![exec] = s]
      BY <1>1, <2>2, <2>3, ConcatEmptySeq
    <3> HIDE DEF s
    <3> QED BY <1>1, <1>2, <1>4, <1>6, <2>1, <3>1, PriorityStep
  <2>4. CASE next # None
    <3>1. next \in Threads
      BY <1>2, <2>4 DEF Inv, TypeOK
    <3>2. f \in Quiet
      BY <1>1, <3>1, FrameKinds
    <3> DEFINE z == <<f>> \o s
    <3>3. stack' = [stack EXCEPT ![exec] = z]
      BY <2>2, <2>4
    <3> HIDE DEF f, s
    <3>4. z \in Seq(Frames) /\ ExecOK(z, running, exec, disable, state[exec], resched)
      BY <1>1, <3>2, PushLive
    <3> HIDE DEF z
    <3> QED BY <1>2, <1>4, <1>6, <2>1, <3>3, <3>4, PriorityStep
  <2> QED BY <2>3, <2>4
<1> QED BY <1>5, <1>6 DEF Promote

\* OSCreateThread keeps the invariant: the reused structure was in no queue.
LEMMA OSCreateThreadStep ==
  ASSUME Inv, NEW u \in Threads, NEW d \in Attrs, OSCreateThread(u, d)
  PROVE  Inv'
<1>1. /\ state \in [Threads -> States] /\ queue \in [Threads -> Queues \cup {None}]
      /\ q \in [Queues -> Seq(Threads)] /\ pending \in SUBSET Prios /\ resched \in BOOLEAN
      /\ suspend \in [Threads -> Nat] /\ prio \in [Threads -> 0 .. NumPriorities]
      /\ terminated \in [Threads -> BOOLEAN]
      /\ stack \in [Threads -> Seq(Frames)] /\ exec \in Threads
      /\ Consistent(state, suspend, prio, queue, q) /\ PendingMask /\ Host /\ Held
  BY DEF Inv, TypeOK
<1>2. /\ running = exec /\ state[exec] = "running" /\ u # exec /\ state[u] = "none"
      /\ BasePriority[u] \in Prios /\ BasePriority[u] \in 0 .. NumPriorities
  BY Now DEF OSCreateThread, Prios
<1>3. /\ state'   = [state EXCEPT ![u] = "ready"]
      /\ suspend' = [suspend EXCEPT ![u] = 1]
      /\ prio'    = [prio EXCEPT ![u] = BasePriority[u]]
      /\ terminated' = [terminated EXCEPT ![u] = FALSE]
      /\ q'     = [q EXCEPT ![JoinQ(u)] = <<>>]
      /\ stack' = [stack EXCEPT ![u] = <<>>]
      /\ UNCHANGED <<queue, owner, count, pending, resched, disable, running, current,
                     parkVars, exec>>
  BY DEF OSCreateThread
<1>4. /\ JoinQ(u) \in Queues /\ JoinQ(u) \in BlockQueues
  BY QueueNames
<1>5. <<>> \in Seq(Threads) /\ <<>> \in Seq(Frames) /\ <<>> \in Seq(Quiet)
      /\ Distinct(<<>>) /\ Elems(<<>>) = {}
  BY DEF Distinct, Elems
<1>6. \A x \in Queues : q'[x] = IF x = JoinQ(u) THEN <<>> ELSE q[x]
  BY <1>1, <1>3, <1>4
<1>7. /\ q' \in [Queues -> Seq(Threads)]
      /\ state' \in [Threads -> States] /\ suspend' \in [Threads -> Nat]
      /\ prio' \in [Threads -> 0 .. NumPriorities] /\ stack' \in [Threads -> Seq(Frames)]
  <2>1. q' \in [Queues -> Seq(Threads)]
    BY <1>1, <1>3, <1>5
  <2>2. state' \in [Threads -> States]
    BY <1>1, <1>3 DEF States
  <2>3. suspend' \in [Threads -> Nat] /\ prio' \in [Threads -> 0 .. NumPriorities]
    BY <1>1, <1>2, <1>3
  <2>4. stack' \in [Threads -> Seq(Frames)]
    BY <1>1, <1>3, <1>5
  <2> QED BY <2>1, <2>2, <2>3, <2>4
<1>8. TypeOK'
  <2>1. /\ detached' \in [Threads -> BOOLEAN] /\ waitMutex' \in [Threads -> Mutexes \cup {None}]
    BY DEF OSCreateThread, Inv, TypeOK
  <2>2. owned' \in [Threads -> SUBSET Mutexes] /\ terminated' \in [Threads -> BOOLEAN]
    BY DEF OSCreateThread, Inv, TypeOK
  <2>3. threadList' \in Seq(Threads)
    BY DEF OSCreateThread, Inv, TypeOK
  <2> QED BY <1>3, <1>7, <2>1, <2>2, <2>3 DEF Inv, TypeOK, parkVars
<1>9. Consistent(state, suspend, prio, queue, q)'
  <2>1. Consistent(state, suspend, prio, queue, q')
    <3>1. \A x \in Queues : q'[x] \in Seq(Threads) /\ Distinct(q'[x]) /\ Elems(q'[x]) \subseteq Elems(q[x])
      <4> TAKE x \in Queues
      <4>1. CASE x = JoinQ(u)
        BY <1>5, <1>6, <4>1
      <4>2. CASE x # JoinQ(u)
        BY <1>1, <1>6, <4>2 DEF Consistent
      <4> QED BY <4>1, <4>2
    <3> QED BY <1>1, <3>1, QueueNames DEF Consistent
  <2>2. \A x \in Queues : u \notin Elems(q'[x])
    <3>1. state[u] # "waiting" /\ (state[u] # "ready" \/ suspend[u] # 0)
      BY <1>2
    <3> QED BY <2>1, <3>1, Unlinked
  <2>3. /\ state'[u] = "ready" /\ suspend'[u] = 1
        /\ \A t \in Threads \ {u} : state'[t] = state[t] /\ suspend'[t] = suspend[t]
                                    /\ prio'[t] = prio[t] /\ queue'[t] = queue[t]
    BY <1>1, <1>3
  <2>4. /\ state'[u] = "waiting" => queue'[u] \in BlockQueues
        /\ state'[u] = "running" => queue'[u] = None /\ suspend'[u] = 0
        /\ state'[u] \notin DeadStates /\ suspend'[u] = 0 => prio'[u] \in Prios
    BY <2>3
  <2>5. Placed(q', q', u, None)
    BY <2>1, <2>2, QueueNames DEF Placed, Consistent
  <2>6. None \notin BlockQueues /\ \A p \in Prios : None # RunQ(p)
    BY QueueNames
  <2>7. Moves(state, suspend, prio, queue, q', state', suspend', prio', queue', q', u, None)
    BY <2>3, <2>4, <2>5, <2>6 DEF Moves
  <2>8. Consistent(state', suspend', prio', queue', q')
    BY <2>1, <2>7, Relinked
  <2> QED BY <2>8
<1>10. PendingMask'
  <2>1. \A p \in Prios : q'[RunQ(p)] = q[RunQ(p)]
    BY <1>4, <1>6, QueueNames
  <2> QED BY <1>1, <1>3, <2>1 DEF PendingMask
<1>11. Host'
  <2>1. stack'[u] = <<>> /\ \A t \in Threads \ {u} : stack'[t] = stack[t]
    BY <1>1, <1>3
  <2>2. state'[u] = "ready" /\ \A t \in Threads \ {u} : state'[t] = state[t]
    BY <1>1, <1>3
  <2>3. terminated'[u] = FALSE /\ \A t \in Threads \ {u} : terminated'[t] = terminated[t]
    BY <1>1, <1>3
  <2>4. \A t \in Threads : state'[t] = "running" => t = exec' /\ running' = exec'
    BY <1>1, <1>3, <2>2 DEF Host
  <2>5. \A t \in Threads \ {exec'} : stack'[t] \in Seq(Quiet)
    BY <1>1, <1>3, <1>5, <2>1 DEF Host
  <2>6. \A t \in Threads : terminated'[t] => state'[t] \in DeadStates
    BY <1>1, <2>2, <2>3 DEF Host
  <2>7. ExecOK(stack'[exec'], running', exec', disable', state'[exec'], resched')
    <3>1. stack'[exec] = stack[exec] /\ state'[exec] = state[exec]
      BY <1>1, <1>2, <2>1, <2>2
    <3> QED BY <1>1, <1>3, <3>1 DEF Host
  <2> QED BY <1>1, <1>3, <2>4, <2>5, <2>6, <2>7 DEF Host
<1>12. Held'
  BY <1>1, <1>3 DEF Held
<1> QED BY <1>8, <1>9, <1>10, <1>11, <1>12 DEF Inv

\* The stack a terminating call leaves: two frames that any fiber may run, then one of G.
LEMMA EndFrames ==
  ASSUME NEW f \in Plain, NEW g \in Plain, NEW h \in Quiet
  PROVE  /\ <<f, g, h>> \in Seq(Quiet) /\ <<f, g, h>> \in Seq(Frames)
         /\ \A r : h \in Leaves(r) => Over(<<f, g, h>>, Plain, Leaves(r), Quiet)
<1> DEFINE s == <<f, g, h>>
<1>1. f \in Quiet /\ g \in Quiet /\ Quiet \subseteq Frames
  BY FrameKinds
<1>2. s \in Seq(Quiet) /\ s \in Seq(Frames)
  BY <1>1
<1>3. Len(s) = 3 /\ s[1] = f /\ s[2] = g /\ s[3] = h
  OBVIOUS
<1> HIDE DEF s
<1>4. ASSUME NEW r, h \in Leaves(r) PROVE Over(s, Plain, Leaves(r), Quiet)
  <2>1. 3 \in 1 .. Len(s) /\ s[3] \in Leaves(r)
    BY <1>3, <1>4
  <2>2. \A j \in 1 .. 3 - 1 : s[j] \in Plain
    BY <1>3
  <2>3. \A j \in 3 + 1 .. Len(s) : s[j] \in Quiet
    BY <1>3
  <2> QED BY <2>1, <2>2, <2>3 DEF Over
<1> QED BY <1>2, <1>4 DEF s

\* A thread that ends, itself or another, leaves every queue.
LEMMA EndStep ==
  ASSUME Inv, InThread, NEW u \in Threads, Terminate(u), NEW s \in Seq(Quiet), s \in Seq(Frames),
         \/ stack' = [stack EXCEPT ![exec] = s]
         \/ u # exec /\ stack' = [stack EXCEPT ![exec] = s, ![u] = <<>>],
         UNCHANGED <<detached, suspend, prio, waitMutex, mutexVars, disable, running,
                     current, parkVars, exec>>,
         resched' \in BOOLEAN,
         u = exec => Over(s, Plain, Leaves(resched'), Quiet),
         \/ /\ q' = RemoveThreadFromQueue(u) /\ pending' = UpdatePendingMask(u)
            /\ queue' = [queue EXCEPT ![u] = None]
         \/ /\ state[u] # "waiting" /\ (state[u] # "ready" \/ suspend[u] # 0)
            /\ UNCHANGED <<q, pending, queue>>
  PROVE  Inv'
<1>1. /\ state \in [Threads -> States] /\ queue \in [Threads -> Queues \cup {None}]
      /\ q \in [Queues -> Seq(Threads)] /\ pending \in SUBSET Prios
      /\ suspend \in [Threads -> Nat] /\ prio \in [Threads -> 0 .. NumPriorities]
      /\ terminated \in [Threads -> BOOLEAN] /\ threadList \in Seq(Threads)
      /\ stack \in [Threads -> Seq(Frames)] /\ exec \in Threads
      /\ Consistent(state, suspend, prio, queue, q) /\ PendingMask /\ Host /\ Held
  BY DEF Inv, TypeOK
<1>2. /\ running = exec /\ state[exec] = "running" /\ disable = 0
  BY Now
<1>3. /\ state'[u] \in DeadStates /\ \A t \in Threads \ {u} : state'[t] = state[t]
      /\ state' \in [Threads -> States]
  BY <1>1 DEF Terminate, DeadStates, States
<1>4. /\ terminated' \in [Threads -> BOOLEAN] /\ threadList' \in Seq(Threads)
      /\ \A t \in Threads \ {u} : terminated'[t] = terminated[t]
  BY <1>1, UnlinkSeq DEF Terminate
<1>5. /\ q' \in [Queues -> Seq(Threads)]
      /\ Placed(q, q', u, None) /\ \A t \in Threads \ {u} : queue'[t] = queue[t]
      /\ queue' \in [Threads -> Queues \cup {None}]
  <2>1. CASE /\ q' = RemoveThreadFromQueue(u) /\ queue' = [queue EXCEPT ![u] = None]
    <3>1. /\ q' \in [Queues -> Seq(Threads)]
          /\ \A x \in Queues : Distinct(q'[x]) /\ Elems(q'[x]) = Elems(q[x]) \ {u}
      BY <1>1, <2>1, RemoveEffect
    <3>2. \A x \in Queues : x # None
      BY QueueNames
    <3> QED BY <1>1, <2>1, <3>1, <3>2 DEF Placed
  <2>2. CASE /\ state[u] # "waiting" /\ (state[u] # "ready" \/ suspend[u] # 0)
             /\ UNCHANGED <<q, pending, queue>>
    <3>1. \A x \in Queues : u \notin Elems(q[x]) /\ x # None
      BY <1>1, <2>2, Unlinked, QueueNames
    <3> QED BY <1>1, <2>2, <3>1 DEF Placed, Consistent
  <2> QED BY <2>1, <2>2
<1>6. pending' \in SUBSET Prios /\ PendingMask'
  <2>1. CASE q' = RemoveThreadFromQueue(u) /\ pending' = UpdatePendingMask(u)
    <3>1. UpdatePendingMask(u) = {p \in Prios : RemoveThreadFromQueue(u)[RunQ(p)] # <<>>}
      BY <1>1, MaskEffect
    <3> QED BY <2>1, <3>1 DEF PendingMask
  <2>2. CASE UNCHANGED <<q, pending, queue>>
    BY <1>1, <2>2 DEF PendingMask
  <2> QED BY <2>1, <2>2
<1>7. Consistent(state, suspend, prio, queue, q)'
  <2>1. state'[u] # "waiting" /\ state'[u] # "running" /\ None \notin BlockQueues
        /\ \A p \in Prios : None # RunQ(p)
    BY <1>3, QueueNames DEF DeadStates
  <2>2. Moves(state, suspend, prio, queue, q, state', suspend', prio', queue', q', u, None)
    BY <1>3, <1>5, <2>1 DEF Moves
  <2> QED BY <1>1, <2>2, Relinked
<1>8. /\ stack' \in [Threads -> Seq(Frames)] /\ stack'[exec] = s
      /\ \A t \in Threads \ {exec} : stack'[t] \in Seq(Quiet)
  <2>1. <<>> \in Seq(Frames) /\ <<>> \in Seq(Quiet)
    OBVIOUS
  <2>2. CASE stack' = [stack EXCEPT ![exec] = s]
    BY <1>1, <2>2 DEF Host
  <2>3. CASE u # exec /\ stack' = [stack EXCEPT ![exec] = s, ![u] = <<>>]
    <3>1. stack' \in [Threads -> Seq(Frames)]
      BY <1>1, <2>1, <2>3
    <3>2. stack'[exec] = s /\ stack'[u] = <<>> /\ \A t \in Threads \ {exec, u} : stack'[t] = stack[t]
      BY <1>1, <2>3
    <3> QED BY <1>1, <2>1, <3>1, <3>2 DEF Host
  <2> QED BY <2>2, <2>3
<1>9. Host'
  <2>1. \A t \in Threads : state'[t] = "running" => t = exec' /\ running' = exec'
    BY <1>1, <1>3 DEF Host, DeadStates
  <2>2. \A t \in Threads : terminated'[t] => state'[t] \in DeadStates
    BY <1>1, <1>3, <1>4 DEF Host
  <2>3. state'[exec] # "running" => u = exec
    BY <1>1, <1>2, <1>3
  <2>4. ExecOK(stack'[exec'], running', exec', disable', state'[exec'], resched')
    BY <1>2, <1>8, <2>3 DEF ExecOK
  <2> QED BY <1>1, <1>2, <1>8, <2>1, <2>2, <2>4 DEF Host
<1>10. TypeOK'
  BY <1>3, <1>4, <1>5, <1>6, <1>8 DEF Inv, TypeOK, mutexVars, parkVars
<1>11. Held'
  BY <1>1 DEF Held, mutexVars
<1> QED BY <1>6, <1>7, <1>9, <1>10, <1>11 DEF Inv

\* OSExitThread keeps the invariant.
LEMMA OSExitThreadStep ==
  ASSUME Inv, OSExitThread
  PROVE  Inv'
<1> DEFINE f == Frame("unlockAll", exec)
           g == Frame("joiners", exec)
           h == Frame("exitTail", None)
           s == <<f, g, h>>
<1>1. /\ InThread /\ exec \in Threads /\ resched \in BOOLEAN /\ state[exec] = "running"
  BY Now DEF OSExitThread, Inv, TypeOK
<1>2. f \in Plain /\ g \in Plain /\ h \in Quiet /\ h \in Leaves(resched)
  BY <1>1, FrameKinds DEF Leaves, Frame
<1>3. stack' = [stack EXCEPT ![exec] = s \o stack[exec]] /\ stack[exec] = <<>>
  BY DEF OSExitThread, Call, InThread
<1> HIDE DEF f, g, h
<1>4. s \in Seq(Quiet) /\ s \in Seq(Frames) /\ Over(s, Plain, Leaves(resched), Quiet)
  BY <1>2, EndFrames
<1> HIDE DEF s
<1>5. stack' = [stack EXCEPT ![exec] = s]
  BY <1>3, <1>4, ConcatEmptySeq
<1>6. /\ Terminate(exec)
      /\ UNCHANGED <<detached, suspend, prio, queue, waitMutex, mutexVars, schedVars,
                     parkVars, exec>>
  BY DEF OSExitThread
<1> QED BY <1>1, <1>4, <1>5, <1>6, EndStep DEF schedVars

\* OSCancelThread keeps the invariant, of the caller as of another thread.
LEMMA OSCancelThreadStep ==
  ASSUME Inv, NEW u \in Threads, OSCancelThread(u)
  PROVE  Inv'
<1> DEFINE f == Frame("unlockAll", u)
           g == Frame("joiners", u)
           h == Frame("resched", None)
           s == <<f, g, h>>
<1>1. /\ InThread /\ exec \in Threads /\ resched \in BOOLEAN /\ state[exec] = "running"
      /\ suspend \in [Threads -> Nat]
  BY Now DEF OSCancelThread, Inv, TypeOK
<1>2. f \in Plain /\ g \in Plain /\ h \in Quiet /\ h \in Leaves(TRUE)
  BY <1>1, FrameKinds DEF Leaves, Frame
<1>3. \/ stack' = [stack EXCEPT ![exec] = s]
      \/ u # exec /\ stack' = [stack EXCEPT ![exec] = s, ![u] = <<>>]
  BY DEF OSCancelThread
<1> HIDE DEF f, g, h
<1>4. s \in Seq(Quiet) /\ s \in Seq(Frames) /\ Over(s, Plain, Leaves(TRUE), Quiet)
  BY <1>2, EndFrames
<1> HIDE DEF s
<1>5. /\ Terminate(u)
      /\ UNCHANGED <<detached, suspend, prio, waitMutex, mutexVars, disable, running,
                     current, parkVars, exec>>
      /\ resched' = (resched \/ state[u] = "running")
  BY DEF OSCancelThread
<1>6. resched' \in BOOLEAN /\ (u = exec => resched' = TRUE)
  BY <1>1, <1>5
<1>7. \/ /\ q' = RemoveThreadFromQueue(u) /\ pending' = UpdatePendingMask(u)
         /\ queue' = [queue EXCEPT ![u] = None]
      \/ /\ state[u] # "waiting" /\ (state[u] # "ready" \/ suspend[u] # 0)
         /\ UNCHANGED <<q, pending, queue>>
  <2>1. CASE CancelUnlinks(u)
    BY <2>1 DEF OSCancelThread
  <2>2. CASE ~CancelUnlinks(u)
    <3>1. state[u] # "waiting" /\ (state[u] # "ready" \/ suspend[u] # 0)
      BY <1>1, <2>2 DEF CancelUnlinks
    <3> QED BY <2>2, <3>1 DEF OSCancelThread
  <2> QED BY <2>1, <2>2
<1>8. u = exec => Over(s, Plain, Leaves(resched'), Quiet)
  BY <1>4, <1>6
<1> QED BY <1>1, <1>3, <1>4, <1>5, <1>6, <1>7, <1>8, EndStep
-----------------------------------------------------------------------------

\* The invariant holds when the runtime starts.
LEMMA InitInv ==
  ASSUME Init
  PROVE  Inv
<1> USE DEF Init
<1>1. BasePriority \in [Threads -> 0 .. NumPriorities] /\ \A t \in Threads : BasePriority[t] \in Prios
  BY DEF Prios
<1>2. <<>> \in Seq(Threads) /\ <<>> \in Seq(Frames) /\ <<>> \in Seq(Quiet)
      /\ Distinct(<<>>) /\ Elems(<<>>) = {}
  BY DEF Distinct, Elems
<1>3. q \in [Queues -> Seq(Threads)] /\ stack \in [Threads -> Seq(Frames)]
      /\ threadList \in Seq(Threads)
  BY <1>2
<1>4. state \in [Threads -> States] /\ pending \in SUBSET Prios /\ resched \in BOOLEAN
  BY DEF States
<1>5. TypeOK
  BY <1>1, <1>3, <1>4 DEF TypeOK
<1>6. \A x \in Queues : q[x] = <<>>
  OBVIOUS
<1>7. \A p \in Prios : RunQ(p) \in Queues
  BY QueueNames
<1>8. Consistent(state, suspend, prio, queue, q)
  <2>1. \A t \in Threads : state[t] # "waiting" /\ suspend[t] = 0 /\ queue[t] = None /\ prio[t] \in Prios
    BY <1>1
  <2> QED BY <1>2, <1>6, <1>7, <2>1, QueueNames DEF Consistent
<1>9. PendingMask
  BY <1>6, <1>7 DEF PendingMask
<1>10. ExecOK(<<>>, Main, Main, 0, "running", FALSE)
  BY <1>2 DEF ExecOK
<1>11. Host
  BY <1>2, <1>10 DEF Host
<1>12. Held
  BY DEF Held
<1> QED BY <1>5, <1>8, <1>9, <1>11, <1>12 DEF Inv

\* A step that changes nothing keeps the invariant.
LEMMA StutterInv ==
  ASSUME Inv, UNCHANGED vars
  PROVE  Inv'
<1>1. TypeOK'
  BY DEF Inv, TypeOK, vars, threadVars, mutexVars, schedVars, parkVars, hostVars
<1> QED BY <1>1 DEF Inv, PendingMask, Host, Held, vars, threadVars, mutexVars, schedVars,
                    parkVars, hostVars

\* A wake-up without a switch, and the end of a fiber, happen only after an
\* entry function returned.
LEMMA NoReturn ==
  ASSUME Inv, "return" \notin Ops
  PROVE  ~EntryReturns /\ ~FiberEnd
<1>1. ~At("fiberEnd")
  BY Now DEF Quiet, IdleFrame, HandlerFrame, Frame
<1> QED BY <1>1 DEF EntryReturns, FiberEnd

\* Every step of the runtime keeps the invariant.
LEMMA NextInv ==
  ASSUME Inv, Next, "return" \notin Ops
  PROVE  Inv'
<1>1. CASE GuestCall
  <2>1. ASSUME NEW u \in Threads, OSSuspendThread(u) PROVE Inv'
    BY <2>1, OSSuspendThreadStep
  <2>2. ASSUME NEW u \in Threads, OSResumeThread(u) PROVE Inv'
    BY <2>2, OSResumeThreadStep
  <2>3. ASSUME NEW u \in Threads, OSCancelThread(u) PROVE Inv'
    BY <2>3, OSCancelThreadStep
  <2>4. ASSUME NEW u \in Threads, OSJoinThread(u) PROVE Inv'
    BY <2>4, OSJoinThreadStep
  <2>5. ASSUME NEW u \in Threads, OSDetachThread(u) PROVE Inv'
    BY <2>5, OSDetachThreadStep
  <2>6. ASSUME NEW u \in Threads, NEW d \in Attrs, OSCreateThread(u, d) PROVE Inv'
    BY <2>6, OSCreateThreadStep
  <2>7. ASSUME NEW w \in WaitQueues, OSSleepThread(w) PROVE Inv'
    BY <2>7, OSSleepThreadStep
  <2>8. ASSUME NEW w \in WaitQueues, OSWakeupThread(w) PROVE Inv'
    BY <2>8, OSWakeupThreadStep
  <2>9. ASSUME NEW m \in Mutexes, OSLockMutex(m) PROVE Inv'
    BY <2>9, OSLockMutexStep
  <2>10. ASSUME NEW m \in Mutexes, OSUnlockMutex(m) PROVE Inv'
    BY <2>10, OSUnlockMutexStep
  <2>11. CASE OSSleepTicks
    BY <2>11, OSSleepTicksStep
  <2>12. CASE OSYieldThread
    BY <2>12, OSYieldThreadStep
  <2>13. CASE OSExitThread
    BY <2>13, OSExitThreadStep
  <2>14. CASE HandlerBegins
    BY <2>14, HandlerBeginsStep
  <2>15. CASE HandlerEnds
    BY <2>15, HandlerEndsStep
  <2>16. CASE DeferredEnds
    BY <2>16, DeferredEndsStep
  <2> QED BY <1>1, <2>1, <2>2, <2>3, <2>4, <2>5, <2>6, <2>7, <2>8, <2>9, <2>10, <2>11,
             <2>12, <2>13, <2>14, <2>15, <2>16, NoReturn DEF GuestCall
<1>2. CASE HandlerStep
  <2>1. CASE SelectRefuses
    BY <2>1, SelectRefusesStep
  <2>2. CASE SelectPreempts
    BY <2>2, SelectPreemptsStep
  <2>3. CASE SelectSwitches
    BY <2>3, SelectSwitchesStep
  <2>4. CASE SelectIdles
    BY <2>4, SelectIdlesStep
  <2>5. CASE WakeOne
    BY <2>5, WakeOneStep
  <2>6. CASE WakeDone
    BY <2>6, WakeDoneStep
  <2>7. CASE Block
    BY <2>7, BlockStep
  <2>8. CASE Slept
    BY <2>8, SleptStep
  <2>9. CASE Promote
    BY <2>9, PromoteStep
  <2>10. CASE Propagate
    BY <2>10, PropagateStep
  <2>11. CASE Resched
    BY <2>11, ReschedStep
  <2>12. CASE TicksDone
    BY <2>12, TicksDoneStep
  <2>13. CASE LockRound
    BY <2>13, LockRoundStep
  <2>14. CASE ExitTail
    BY <2>14, ExitTailStep
  <2>15. CASE UnlockAll
    BY <2>15, UnlockAllStep
  <2>16. CASE WakeThreadJoiners
    BY <2>16, WakeThreadJoinersStep
  <2>17. CASE JoinDone
    BY <2>17, JoinDoneStep
  <2> QED BY <1>2, <2>1, <2>2, <2>3, <2>4, <2>5, <2>6, <2>7, <2>8, <2>9, <2>10, <2>11,
             <2>12, <2>13, <2>14, <2>15, <2>16, <2>17, NoReturn DEF HandlerStep
<1>3. CASE HostEvent
  <2>1. CASE IdleDispatches
    BY <2>1, IdleDispatchesStep
  <2>2. ASSUME NEW w \in WaitQueues, IdleEvent(w) PROVE Inv'
    BY <2>2, IdleEventStep
  <2>3. ASSUME NEW u \in Threads, TimerFires(u) PROVE Inv'
    BY <2>3, TimerFiresStep
  <2> QED BY <1>3, <2>1, <2>2, <2>3 DEF HostEvent
<1> QED BY <1>1, <1>2, <1>3 DEF Next

\* The inductive invariant holds in every state, for any threads, mutexes,
\* queues, priorities and calls, as long as no entry function returns into FiberProc.
THEOREM InvHolds ==
  ASSUME "return" \notin Ops
  PROVE  Spec => []Inv
<1>1. Init => Inv
  BY InitInv
<1>2. Inv /\ [Next]_vars => Inv'
  BY NextInv, StutterInv
<1> QED BY <1>1, <1>2, PTL DEF Spec

\* Every guest structure and host table holds values the code can store there.
THEOREM Types ==
  ASSUME "return" \notin Ops
  PROVE  Spec => []TypeOK
<1>1. Inv => TypeOK
  BY DEF Inv
<1> QED BY <1>1, InvHolds, PTL

\* The pending mask has exactly the bits of the nonempty run queues, so
\* SelectThread neither dequeues from an empty queue nor overlooks a ready
\* thread.
THEOREM MaskAgrees ==
  ASSUME "return" \notin Ops
  PROVE  Spec => []PendingMask
<1>1. Inv => PendingMask
  BY DEF Inv
<1> QED BY <1>1, InvHolds, PTL

\* Whatever handlers interleave, a thread is linked at most once over all run
\* queues and wait queues, its queue pointer names that queue, and the queue
\* suits its state and priority.
THEOREM Linked ==
  ASSUME "return" \notin Ops
  PROVE  Spec => []LinkedOnce
<1>1. ASSUME Inv PROVE LinkedOnce
  <2>1. Consistent(state, suspend, prio, queue, q)
    BY <1>1 DEF Inv
  <2>2. ASSUME NEW x \in Queues, NEW i \in 1 .. Len(q[x])
        PROVE  /\ queue[q[x][i]] = x
               /\ x \in BlockQueues => state[q[x][i]] = "waiting"
               /\ x \in RunQueues => /\ state[q[x][i]] = "ready"
                                     /\ suspend[q[x][i]] = 0
                                     /\ x = RunQ(prio[q[x][i]])
    <3>1. q[x][i] \in Elems(q[x])
      BY DEF Elems
    <3>2. x \in RunQueues => \E p \in Prios : x = RunQ(p)
      BY DEF RunQueues
    <3> QED BY <2>1, <3>1, <3>2 DEF Consistent
  <2>3. \A x \in Queues : \A i, j \in 1 .. Len(q[x]) : q[x][i] = q[x][j] => i = j
    BY <2>1 DEF Consistent, Distinct
  <2> QED BY <2>2, <2>3 DEF LinkedOnce
<1> QED BY <1>1, InvHolds, PTL

\* Only the fiber that holds the host thread is marked running, and it is not
\* suspended.
THEOREM OneRuns ==
  ASSUME "return" \notin Ops
  PROVE  Spec => []OneRunning
<1>1. Inv => OneRunning
  BY DEF Inv, Host, Consistent, OneRunning
<1> QED BY <1>1, InvHolds, PTL

\* OSSleepThread returns only to a thread that was really woken: the code that
\* takes back a park after SelectThread has nothing to take back.
THEOREM SleepsEnd ==
  ASSUME "return" \notin Ops
  PROVE  Spec => []SleepEndsRunning
<1>1. ASSUME Inv PROVE SleepEndsRunning
  <2> SUFFICES ASSUME At("slept") PROVE state[exec] = "running" /\ queue[exec] = None
    BY DEF SleepEndsRunning
  <2>1. state[exec] = "running" /\ exec \in Threads
    BY <1>1, RunsItself
  <2> QED BY <1>1, <2>1 DEF Inv, Consistent
<1> QED BY <1>1, InvHolds, PTL
-----------------------------------------------------------------------------
\* OSSleepTicks enters a park and its timer together, and whoever takes one of
\* them out (OSResumeThread, the timer itself, the revert in OSSleepTicks)
\* takes out the other, so the reconciler of ProcessSleepTimers never meets a
\* park without a timer.
THEOREM ParksAreTimed == Spec => []ParksHaveTimers
<1>1. Init => ParksHaveTimers
  BY DEF Init, ParksHaveTimers
<1>2. ParksHaveTimers /\ [Next]_vars => ParksHaveTimers'
  <2> SUFFICES ASSUME ParksHaveTimers, [Next]_vars
               PROVE  ParksHaveTimers'
    OBVIOUS
  <2>1. CASE UNCHANGED parkVars
    BY <2>1 DEF ParksHaveTimers, parkVars
  <2>2. ASSUME NEW u \in Threads, OSResumeThread(u)
        PROVE  ParksHaveTimers'
    BY <2>2 DEF OSResumeThread, ParksHaveTimers
  <2>3. CASE OSSleepTicks
    BY <2>3 DEF OSSleepTicks, ParksHaveTimers
  <2>4. CASE TicksDone
    BY <2>4 DEF TicksDone, ParksHaveTimers
  <2>5. ASSUME NEW u \in Threads, TimerFires(u)
        PROVE  ParksHaveTimers'
    BY <2>5 DEF TimerFires, ParksHaveTimers
  <2>6. CASE GuestCall
    <3>1. \/ UNCHANGED parkVars
          \/ \E u \in Threads : OSResumeThread(u)
          \/ OSSleepTicks
      BY <2>6, Zenon DEF GuestCall, OSSuspendThread, OSCancelThread, OSJoinThread,
         OSDetachThread, OSCreateThread, OSSleepThread, Sleep, OSWakeupThread,
         OSLockMutex, OSUnlockMutex, OSYieldThread, OSExitThread, EntryReturns,
         HandlerBegins, HandlerEnds, DeferredEnds
    <3> QED BY <3>1, <2>1, <2>2, <2>3
  <2>7. CASE HandlerStep
    <3>1. UNCHANGED parkVars \/ TicksDone
      BY <2>7, Zenon DEF HandlerStep, SelectRefuses, SelectPreempts, SelectSwitches,
         SelectIdles, Dispatch, WakeOne, WakeDone, Block, Sleep, Slept, Promote,
         Propagate, Resched, LockRound, ExitTail, UnlockAll, WakeThreadJoiners,
         JoinDone, FiberEnd
    <3> QED BY <3>1, <2>1, <2>4
  <2>8. CASE HostEvent
    <3>1. UNCHANGED parkVars \/ \E u \in Threads : TimerFires(u)
      BY <2>8, Zenon DEF HostEvent, IdleDispatches, Dispatch, IdleEvent
    <3> QED BY <3>1, <2>1, <2>5
  <2>9. CASE UNCHANGED vars
    BY <2>9, <2>1 DEF vars
  <2> QED BY <2>6, <2>7, <2>8, <2>9 DEF Next
<1> QED BY <1>1, <1>2, PTL DEF Spec
=============================================================================
