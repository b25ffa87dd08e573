--------------------------- MODULE NetworkDeferred ---------------------------
(***************************************************************************)
(* Blocking network calls of the guest (runtime/src/hle/net).              *)
(*                                                                         *)
(* A guest call that may block (a name lookup, a poll with a timeout, a    *)
(* connect on a blocking socket) is turned into a piece of work.  The      *)
(* caller parks on a wait queue in its own stack frame (synchronous route) *)
(* or goes on and is called back (asynchronous route).  A lookup is        *)
(* resolved by a detached host thread, everything else is probed by the    *)
(* pump, Network_HLE_ProcessCompletions, which also hands out the answers. *)
(* Guest code and the pump share one host thread: nothing of the guest     *)
(* runs while the pump is in the middle of a pass.  Only the lookup        *)
(* threads run beside it.                                                  *)
(*                                                                         *)
(* A wait queue is named by the thread whose stack holds it.  Cancelling a *)
(* thread and creating another on the same memory gives the new thread the *)
(* same queue address, which is why the code writes a token next to the    *)
(* queue (the cookie).  Operations are numbered by the token they take;    *)
(* an asynchronous one takes a number too, which the code never looks at.  *)
(***************************************************************************)
EXTENDS Integers, FiniteSets

CONSTANTS
    Threads,        \* guest threads, each with one stack frame to wait in
    Callbacks,      \* callback arguments of asynchronous calls, used once each
    NumFds,         \* kWiiSocketMax
    MaxOps,         \* bound: deferred operations started
    MaxGenerations, \* bound: sockets ever opened
    Nobody          \* no thread (asynchronous route) or no callback

ASSUME NumFdsOK == NumFds \in Nat \ {0}
ASSUME MaxOpsOK == MaxOps \in Nat
ASSUME MaxGenerationsOK == MaxGenerations \in Nat
ASSUME NobodyOK == Nobody \notin Threads \cup Callbacks

VARIABLES
    state,       \* thread -> "idle", "waiting", "woken" (READY), "dead"
    token,       \* thread -> the token its host frame will redeem (0: none)
    cookie,      \* thread -> the token word beside its wait queue
    nextToken,   \* store.nextToken
    work,        \* operation -> what was asked and by whom
    stage,       \* operation -> where it is
    syncResults, \* token -> the result published and not yet redeemed
    asked,       \* callbacks an asynchronous call was made with
    called,      \* callback -> how often it was queued
    sockets,     \* g_sockets: generation (0: closed) and peer per descriptor
    generation,  \* the last generation given out
    todo         \* what the running pass of the pump has yet to visit

vars == <<state, token, cookie, nextToken, work, stage, syncResults, asked,
          called, sockets, generation, todo>>

None == "none"
Results == {"ok", "error", "timeout", "nval", "EBADF", "ENOTCONN", "ENETUNREACH"}
Ops == 1 .. MaxOps
Fds == 0 .. NumFds - 1

\* thread/callback: the route; fd, gen: the copied socket identity (a lookup
\* has none); finite: it has a deadline; expired: the deadline has passed;
\* initial: initialResult of a connect, the resolver's result of a lookup.
Work == [op : {"dns", "poll", "connect"}, thread : Threads \cup {Nobody},
         callback : Callbacks \cup {Nobody}, fd : Fds, gen : 0 .. MaxGenerations,
         finite : BOOLEAN, expired : BOOLEAN, initial : Results \cup {None}]

NoWork == [op |-> "dns", thread |-> Nobody, callback |-> Nobody, fd |-> 0,
           gen |-> 0, finite |-> FALSE, expired |-> FALSE, initial |-> None]

\* "resolving": with a lookup thread; "completed": in store.completed;
\* "pending": in pendingPolls or pendingConnects; "done": erased.
Stages == {"unused", "resolving", "completed", "pending", "done"}
Live == {"resolving", "completed", "pending"}

(***************************************************************************)
(* Sockets                                                                 *)
(***************************************************************************)

Open(fd) == sockets[fd].gen # 0

\* CopyPollDescriptors records generation 0 for a descriptor that is not open.
SocketIdentityIsCurrent(w) == w.gen # 0 /\ sockets[w.fd].gen = w.gen

\* The guest runs only between two passes of the pump.
GuestRuns == todo = {}

Aborted(fds, res) ==
    [r \in Ops |->
        IF /\ stage[r] = "pending" /\ work[r].op = "connect"
           /\ work[r].fd \in fds /\ work[r].initial = None
        THEN [op |-> "connect", thread |-> work[r].thread,
              callback |-> work[r].callback, fd |-> work[r].fd, gen |-> work[r].gen,
              finite |-> work[r].finite, expired |-> work[r].expired, initial |-> res]
        ELSE work[r]]

AbortPendingDeferredConnects(fds, res) == work' = Aborted(fds, res)

Closed == [gen |-> 0, peer |-> 0]

NewWiiSocket ==
    /\ GuestRuns
    /\ generation < MaxGenerations
    /\ \E fd \in Fds :
        /\ ~Open(fd)
        /\ \A lower \in Fds : lower < fd => Open(lower)
        /\ generation' = generation + 1
        /\ sockets' = [sockets EXCEPT ![fd] = [gen |-> generation + 1, peer |-> 0]]
    /\ UNCHANGED <<state, token, cookie, nextToken, work, stage, syncResults,
                   asked, called, todo>>

\* SOClose of one socket; SOCleanup and the KD cleanup request of all.
DeleteWiiSockets(fds) ==
    /\ GuestRuns
    /\ sockets' = [fd \in Fds |-> IF fd \in fds THEN Closed ELSE sockets[fd]]
    /\ AbortPendingDeferredConnects(fds, "ENOTCONN")
    /\ UNCHANGED <<state, token, cookie, nextToken, stage, syncResults, asked,
                   called, generation, todo>>

DeleteWiiSocket(fd) == Open(fd) /\ DeleteWiiSockets({fd})

CleanupAllWiiSockets ==
    /\ \E fd \in Fds : Open(fd)
    /\ DeleteWiiSockets({fd \in Fds : Open(fd)})

\* Shutting down the write half of a stream socket.
Shutdown(fd) ==
    /\ GuestRuns
    /\ Open(fd)
    /\ AbortPendingDeferredConnects({fd}, "ENETUNREACH")
    /\ UNCHANGED <<state, token, cookie, nextToken, stage, syncResults, asked,
                   called, sockets, generation, todo>>

\* The SSL layer replaces the host socket under the same descriptor.
ReconnectWiiSocket(fd) ==
    /\ GuestRuns
    /\ generation < MaxGenerations
    /\ sockets[fd].peer # 0
    /\ generation' = generation + 1
    /\ sockets' = [sockets EXCEPT ![fd] = [gen |-> generation + 1,
                                           peer |-> generation + 1]]
    /\ UNCHANGED <<state, token, cookie, nextToken, work, stage, syncResults,
                   asked, called, todo>>

(***************************************************************************)
(* Starting an operation                                                   *)
(***************************************************************************)

\* A lookup; host thread creation may fail, see StartFails.
DnsWork(t, c) == [NoWork EXCEPT !.thread = t, !.callback = c]

\* A poll of one descriptor, open or not, with or without a deadline.
PollWork(t, c, fd, finite) ==
    [op |-> "poll", thread |-> t, callback |-> c, fd |-> fd, gen |-> sockets[fd].gen,
     finite |-> finite, expired |-> FALSE, initial |-> None]

\* The host connect() is issued at once; EISCONN counts as success.
ConnectWork(t, c, fd, initial) ==
    [op |-> "connect", thread |-> t, callback |-> c, fd |-> fd,
     gen |-> sockets[fd].gen, finite |-> TRUE, expired |-> FALSE, initial |-> initial]

Started(t, c) ==
    {DnsWork(t, c)}
        \cup {PollWork(t, c, fd, finite) : fd \in Fds, finite \in BOOLEAN}
        \cup {ConnectWork(t, c, fd, initial) :
                fd \in {f \in Fds : Open(f)}, initial \in {None, "ok", "error"}}

Install(w) ==
    /\ work' = [work EXCEPT ![nextToken] = w]
    /\ stage' = [stage EXCEPT ![nextToken] =
                    IF w.op = "dns" THEN "resolving" ELSE "pending"]

\* TryDeferredNetworkIosSync up to the thread switch: take a token, write the
\* cookie, install the work and sleep.  When the scheduler may not switch away
\* OSSleepThread returns at once, the caller finds no result and goes on with
\* an error while the work is still in flight.
StartSync(t) ==
    /\ GuestRuns
    /\ nextToken <= MaxOps
    /\ state[t] = "idle"
    /\ \E w \in Started(t, Nobody) : Install(w)
    /\ nextToken' = nextToken + 1
    /\ cookie' = [cookie EXCEPT ![t] = nextToken]
    /\ \E parks \in BOOLEAN :
        /\ state' = [state EXCEPT ![t] = IF parks THEN "waiting" ELSE "idle"]
        /\ token' = [token EXCEPT ![t] = IF parks THEN nextToken ELSE 0]
    /\ UNCHANGED <<syncResults, asked, called, sockets, generation, todo>>

\* A lookup whose host thread cannot be created: the token is spent and the
\* cookie written, and the caller gets the failure at once.
StartFails(t) ==
    /\ GuestRuns
    /\ nextToken <= MaxOps
    /\ state[t] = "idle"
    /\ nextToken' = nextToken + 1
    /\ cookie' = [cookie EXCEPT ![t] = nextToken]
    /\ UNCHANGED <<state, token, work, stage, syncResults, asked, called,
                   sockets, generation, todo>>

StartAsync(c) ==
    /\ GuestRuns
    /\ nextToken <= MaxOps
    /\ c \notin asked
    /\ asked' = asked \cup {c}
    /\ \E w \in Started(Nobody, c) : Install(w)
    /\ nextToken' = nextToken + 1
    /\ UNCHANGED <<state, token, cookie, syncResults, called, sockets, generation,
                   todo>>

(***************************************************************************)
(* The host beside the guest                                               *)
(***************************************************************************)

\* The lookup thread publishes its result, whatever the guest is doing.
RunWorker(r) ==
    /\ stage[r] = "resolving"
    /\ stage' = [stage EXCEPT ![r] = "completed"]
    /\ \E res \in {"ok", "error"} :
        work' = [work EXCEPT ![r] = [work[r] EXCEPT !.initial = res]]
    /\ UNCHANGED <<state, token, cookie, nextToken, syncResults, asked, called,
                   sockets, generation, todo>>

\* A deadline passes; the pump reads the clock once per pass.  On a connect
\* that is already resolved the deadline has no effect any more.
Expire(r) ==
    /\ todo = {}
    /\ stage[r] = "pending" /\ work[r].finite /\ ~work[r].expired
    /\ work[r].initial = None
    /\ work' = [work EXCEPT ![r] = [work[r] EXCEPT !.expired = TRUE]]
    /\ UNCHANGED <<state, token, cookie, nextToken, stage, syncResults, asked,
                   called, sockets, generation, todo>>

(***************************************************************************)
(* The pump                                                                *)
(***************************************************************************)

\* The completed lookups are swapped out under the lock: one published later
\* waits for the next pass.  Polls and connects only change between passes.
ProcessCompletions ==
    /\ todo = {}
    /\ todo' = {r \in Ops : stage[r] \in {"completed", "pending"}}
    /\ todo' # {}
    /\ UNCHANGED <<state, token, cookie, nextToken, work, stage, syncResults,
                   asked, called, sockets, generation>>

\* The waiter's checks without the word that tells a reused queue apart.
DeferredNetworkWaiterIsValid_NoCookie(r) == state[work[r].thread] = "waiting"

\* The thread is parked, alone on its queue, and parked for this operation.
DeferredNetworkWaiterIsValid(r) ==
    /\ state[work[r].thread] = "waiting"
    /\ cookie[work[r].thread] = r

\* A closed descriptor silently skipped, as the comment on ProbeNow warns.
ProbeNow_SkipsDead(w) == IF SocketIdentityIsCurrent(w) THEN {"ok", "error", None} ELSE {None}

\* A closed descriptor is reported at once; for a live one the host answers, or
\* has nothing to report yet.
ProbeNow(w) == IF SocketIdentityIsCurrent(w) THEN {"ok", "error", None} ELSE {"nval"}

\* The probe's answer, or the deadline.  Writing it to guest memory may fault.
ProbeDeferredPoll(w) ==
    {"error"} \cup (ProbeNow(w) \ {None})
        \cup {e \in {"timeout", None} :
                /\ None \in ProbeNow(w)
                /\ e = "timeout" <=> (w.finite /\ w.expired)}

\* A result fixed earlier wins, then a stale socket, then the host's answer,
\* then the deadline.
ProbeDeferredConnect(w) ==
    IF w.initial # None THEN {w.initial}
    ELSE IF ~SocketIdentityIsCurrent(w) THEN {"EBADF"}
    ELSE {"ok", "error"} \cup (IF w.expired THEN {"ENETUNREACH"} ELSE {None})

\* A lookup's failure handed to the guest as the host's own error code.
ApplyDeferredDnsCompletion_Raw(w) == IF w.initial = "ok" THEN {"ok"} ELSE {"EAI_NONAME"}

\* Writing a lookup's output to guest memory may fault.
ApplyDeferredDnsCompletion(w) == IF w.initial = "ok" THEN {"ok", "error"} ELSE {w.initial}

Probe(w) ==
    CASE w.op = "dns" -> ApplyDeferredDnsCompletion(w)
      [] w.op = "poll" -> ProbeDeferredPoll(w)
      [] w.op = "connect" -> ProbeDeferredConnect(w)

\* A connect that succeeded is recorded on its socket without looking again.
Settled_NoRecheck(w, res) == res

\* A connect counts only if the socket it was made on is still there.
Settled(w, res) ==
    IF w.op = "connect" /\ res = "ok" /\ ~SocketIdentityIsCurrent(w) THEN "EBADF" ELSE res

\* The guest is told of the success and the socket is not.
RecordPeer_Forgets(w, res) == UNCHANGED sockets

RecordPeer(w, res) ==
    sockets' = IF w.op = "connect" /\ res = "ok"
               THEN [sockets EXCEPT ![w.fd] = [gen |-> sockets[w.fd].gen, peer |-> w.gen]]
               ELSE sockets

\* The work is erased from its list.
Erase(r) ==
    /\ stage' = [stage EXCEPT ![r] = "done"]
    /\ work' = [work EXCEPT ![r] = NoWork]

DeliverDeferredNetworkResult(r, res) ==
    IF work[r].thread # Nobody
    THEN /\ syncResults' = [syncResults EXCEPT ![r] = res]
         /\ state' = [state EXCEPT ![work[r].thread] = "woken"]
         /\ UNCHANGED called
    ELSE /\ called' = [called EXCEPT ![work[r].callback] = @ + 1]
         /\ UNCHANGED <<syncResults, state>>

\* Lookups first, in the order they were published, which may be any; then
\* polls and then connects, each in the order they were started.
Rank(r) == CASE work[r].op = "dns" -> 0 [] work[r].op = "poll" -> r [] OTHER -> MaxOps + r

Visits(r) ==
    /\ r \in todo
    /\ \A q \in todo : Rank(r) <= Rank(q)
    /\ todo' = todo \ {r}
    /\ UNCHANGED <<token, cookie, nextToken, asked, generation>>

\* Every work whose waiter is not found is erased, callbacks included.
Orphaned_AnyRoute(r) == work[r].thread = Nobody \/ ~DeferredNetworkWaiterIsValid(r)

\* Nobody waits for it any more.
Orphaned(r) == work[r].thread # Nobody /\ ~DeferredNetworkWaiterIsValid(r)

\* An orphaned work is answered all the same, into the table.
DropWork_Publishes(r) ==
    /\ Visits(r)
    /\ Orphaned(r)
    /\ Erase(r)
    /\ syncResults' = [syncResults EXCEPT ![r] = "error"]
    /\ UNCHANGED <<state, called, sockets>>

\* An orphaned work is erased without an answer and without output.
DropWork(r) ==
    /\ Visits(r)
    /\ Orphaned(r)
    /\ Erase(r)
    /\ UNCHANGED <<state, syncResults, called, sockets>>

KeepWork(r) ==
    /\ Visits(r)
    /\ ~Orphaned(r)
    /\ None \in Probe(work[r])
    /\ UNCHANGED <<state, work, stage, syncResults, called, sockets>>

SettleWork(r) ==
    /\ Visits(r)
    /\ ~Orphaned(r)
    /\ \E probed \in Probe(work[r]) \ {None} :
        LET res == Settled(work[r], probed) IN
            /\ RecordPeer(work[r], res)
            /\ DeliverDeferredNetworkResult(r, res)
            /\ Erase(r)

PumpStep == \E r \in Ops : DropWork(r) \/ KeepWork(r) \/ SettleWork(r)

(***************************************************************************)
(* The waiter, and the end of threads                                      *)
(***************************************************************************)

\* A redeemed token is taken out of the table.
FinishDeferredIosWait(t) ==
    /\ GuestRuns
    /\ state[t] = "woken"
    /\ syncResults' = [syncResults EXCEPT ![token[t]] = None]
    /\ state' = [state EXCEPT ![t] = "idle"]
    /\ token' = [token EXCEPT ![t] = 0]
    /\ UNCHANGED <<cookie, nextToken, work, stage, asked, called, sockets,
                   generation, todo>>

\* OSCancelThread takes the thread off its queue; its memory stays as it is.
CancelThread(t) ==
    /\ GuestRuns
    /\ state[t] # "dead"
    /\ state' = [state EXCEPT ![t] = "dead"]
    /\ token' = [token EXCEPT ![t] = 0]
    /\ UNCHANGED <<cookie, nextToken, work, stage, syncResults, asked, called,
                   sockets, generation, todo>>

\* OSCreateThread on the memory of a dead thread: same addresses, same cookie.
CreateThread(t) ==
    /\ GuestRuns
    /\ state[t] = "dead"
    /\ state' = [state EXCEPT ![t] = "idle"]
    /\ UNCHANGED <<token, cookie, nextToken, work, stage, syncResults, asked,
                   called, sockets, generation, todo>>

Init ==
    /\ state = [t \in Threads |-> "idle"]
    /\ token = [t \in Threads |-> 0]
    /\ cookie = [t \in Threads |-> 0]
    /\ nextToken = 1
    /\ work = [r \in Ops |-> NoWork]
    /\ stage = [r \in Ops |-> "unused"]
    /\ syncResults = [r \in Ops |-> None]
    /\ asked = {}
    /\ called = [c \in Callbacks |-> 0]
    /\ sockets = [fd \in Fds |-> Closed]
    /\ generation = 0
    /\ todo = {}

Next ==
    \/ \E t \in Threads :
        \/ StartSync(t) \/ StartFails(t) \/ FinishDeferredIosWait(t)
        \/ CancelThread(t) \/ CreateThread(t)
    \/ \E c \in Callbacks : StartAsync(c)
    \/ \E fd \in Fds : DeleteWiiSocket(fd) \/ Shutdown(fd) \/ ReconnectWiiSocket(fd)
    \/ NewWiiSocket
    \/ CleanupAllWiiSockets
    \/ \E r \in Ops : RunWorker(r) \/ Expire(r)
    \/ ProcessCompletions
    \/ PumpStep

Spec == Init /\ [][Next]_vars

\* The host resolver returns, and the alarm pump, called from every idle loop
\* and retrace, keeps making passes and finishes each.  The clock moves on
\* between passes, never during one, hence strong fairness of a deadline.
Fairness ==
    /\ \A r \in Ops : WF_vars(RunWorker(r)) /\ SF_vars(Expire(r))
    /\ WF_vars(ProcessCompletions)
    /\ WF_vars(PumpStep)

FairSpec == Spec /\ Fairness

(***************************************************************************)
(* Properties                                                              *)
(***************************************************************************)

\* Type correctness of the deferred-network store (DeferredNetworkStore), the
\* socket table and the waiting threads.
TypeOK ==
    /\ state \in [Threads -> {"idle", "waiting", "woken", "dead"}]
    /\ token \in [Threads -> 0 .. MaxOps]
    /\ cookie \in [Threads -> 0 .. MaxOps]
    /\ nextToken \in 1 .. MaxOps + 1
    /\ work \in [Ops -> Work]
    /\ stage \in [Ops -> Stages]
    /\ syncResults \in [Ops -> Results \cup {None}]
    /\ asked \subseteq Callbacks
    /\ called \in [Callbacks -> Nat]
    /\ sockets \in [Fds -> [gen : 0 .. MaxGenerations, peer : 0 .. MaxGenerations]]
    /\ generation \in 0 .. MaxGenerations
    /\ todo \subseteq Ops

\* A parked caller is never forgotten and a woken one never empty-handed.
\* While a thread sleeps on its frame, the operation it asked for is still in
\* flight, routed to it and carries the cookie beside its queue, so no pass of
\* the pump can erase it as orphaned (network_deferred.cpp:974, :998, :1032).
\* Once it is READY its own result is in the table, so FinishDeferredIosWait
\* never reports "resumed without result" to a caller that slept.
WaiterServed ==
    \A t \in Threads :
        /\ state[t] = "waiting" =>
            /\ token[t] \in Ops
            /\ cookie[t] = token[t]
            /\ work[token[t]].thread = t
            /\ stage[token[t]] \in Live
            /\ syncResults[token[t]] = None
        /\ state[t] = "woken" =>
            /\ token[t] \in Ops
            /\ syncResults[token[t]] # None

\* The step puts the result of operation r into the table.
Published(r) == syncResults[r] = None /\ syncResults'[r] # None

\* A result is published only for a thread that is parked for exactly that
\* operation, and that thread is made READY in the same step: a late answer
\* never reaches a thread that took over the memory of a cancelled one
\* (the ABA cookie of InitializeDeferredSyncRoute).
AnswersItsAsker ==
    [][\A r \in Ops : Published(r) =>
        \E t \in Threads :
            state[t] = "waiting" /\ token[t] = r /\ state'[t] = "woken"]_vars

\* A peer recorded on a socket was reached by a connect made on that socket,
\* never by one made on an earlier socket under the same descriptor
\* (the second identity check of the pump, network_deferred.cpp:1044).
PeerIsOwn == \A fd \in Fds : sockets[fd].peer \in {0, sockets[fd].gen}

\* A caller is told that its connect succeeded only when the socket is still
\* open and has the peer recorded at that moment, even if the host reported
\* success at submission and the guest closed the descriptor before the pump
\* ran.
SuccessIsConnected ==
    [][\A r \in Ops :
        Published(r) /\ work[r].op = "connect" /\ syncResults'[r] = "ok" =>
            /\ sockets'[work[r].fd].gen = work[r].gen
            /\ sockets'[work[r].fd].peer = work[r].gen]_vars

\* An asynchronous call is never dropped and never called back twice: it is
\* either in flight once or has been called back once.
CallbackOnce ==
    \A c \in Callbacks :
        LET inFlight == {r \in Ops : stage[r] \in Live /\ work[r].callback = c} IN
            Cardinality(inFlight) + called[c] = IF c \in asked THEN 1 ELSE 0

\* A poll without deadline on an open socket may wait for ever; nothing else may.
MayWaitForever(r) ==
    work[r].op = "poll" /\ ~work[r].finite /\ SocketIdentityIsCurrent(work[r])

\* Every operation that is bound to end is answered or its waiter is gone: a
\* lookup, a connect, a poll with a deadline, and a poll without one as soon
\* as its socket has been closed (POLLNVAL rather than a stranded thread,
\* network_poll_contract.h:118).
EveryWaitEnds ==
    \A r \in Ops : (stage[r] \in Live /\ ~MayWaitForever(r)) ~> (stage[r] \notin Live)

==============================================================================
