------------------------ MODULE NetworkDeferredProofs ------------------------
(***************************************************************************)
(* Proofs about NetworkDeferred, for any number of threads, callbacks,     *)
(* sockets, operations and generations.                                    *)
(*                                                                         *)
(* WaiterServed is not inductive alone: a new token must differ from every *)
(* token and cookie in use, and two woken threads must not share a token,  *)
(* or redeeming one result would take the other's.                         *)
(***************************************************************************)
EXTENDS NetworkDeferred, FiniteSetTheorems, TLAPS

\* Tokens in use lie below the counter and belong to one thread each, numbers
\* not yet given out are unused, and a pass only visits what is in a list.
Tokens ==
    /\ \A t \in Threads : token[t] < nextToken /\ cookie[t] < nextToken
    /\ \A t, u \in Threads : token[t] = token[u] /\ token[t] # 0 => t = u
    /\ \A r \in Ops : r >= nextToken => stage[r] = "unused" /\ syncResults[r] = None
    /\ \A r \in todo : stage[r] \in {"completed", "pending"}

\* A live operation has a thread or a callback and never both.
Routed ==
    \A r \in Ops : stage[r] \in Live =>
        \/ work[r].thread \in Threads /\ work[r].callback = Nobody
        \/ work[r].thread = Nobody /\ work[r].callback \in Callbacks

\* Operation r is in flight for callback c.
InFlight(r, c) == stage[r] \in Live /\ work[r].callback = c

\* The three states of an asynchronous call, without counting.
Calls ==
    \A c \in Callbacks :
        \/ c \notin asked /\ called[c] = 0 /\ \A r \in Ops : ~InFlight(r, c)
        \/ c \in asked /\ called[c] = 1 /\ \A r \in Ops : ~InFlight(r, c)
        \/ /\ c \in asked /\ called[c] = 0
           /\ \E r \in Ops : InFlight(r, c) /\ \A q \in Ops : InFlight(q, c) => q = r

Inv == TypeOK /\ Tokens /\ Routed /\ WaiterServed /\ PeerIsOwn /\ Calls

USE NumFdsOK, MaxOpsOK, MaxGenerationsOK, NobodyOK

\* Work put together by the three constructors is well typed and has the route
\* it was given.
LEMMA StartedOK ==
    ASSUME TypeOK, NEW t \in Threads \cup {Nobody}, NEW c \in Callbacks \cup {Nobody},
           NEW w \in Started(t, c)
    PROVE  w \in Work /\ w.thread = t /\ w.callback = c
<1>1. CASE w = DnsWork(t, c)
    <2>1. w = [op |-> "dns", thread |-> t, callback |-> c, fd |-> 0, gen |-> 0,
               finite |-> FALSE, expired |-> FALSE, initial |-> None]
        BY <1>1 DEF DnsWork, NoWork
    <2> QED BY <2>1 DEF Work, Fds
<1>2. ASSUME NEW fd \in Fds, NEW finite \in BOOLEAN, w = PollWork(t, c, fd, finite)
      PROVE  w \in Work /\ w.thread = t /\ w.callback = c
    BY <1>2 DEF PollWork, Work, TypeOK
<1>3. ASSUME NEW fd \in Fds, NEW initial \in {None, "ok", "error"},
             w = ConnectWork(t, c, fd, initial)
      PROVE  w \in Work /\ w.thread = t /\ w.callback = c
    BY <1>3 DEF ConnectWork, Work, TypeOK, Results
<1> QED BY <1>1, <1>2, <1>3 DEF Started

\* Aborting connects changes nothing of an operation but its fixed result.
LEMMA AbortedOK ==
    ASSUME TypeOK, NEW fds, NEW res \in Results
    PROVE  /\ Aborted(fds, res) \in [Ops -> Work]
           /\ \A r \in Ops : /\ Aborted(fds, res)[r].thread = work[r].thread
                             /\ Aborted(fds, res)[r].callback = work[r].callback
<1> SUFFICES ASSUME NEW r \in Ops
             PROVE  /\ Aborted(fds, res)[r] \in Work
                    /\ Aborted(fds, res)[r].thread = work[r].thread
                    /\ Aborted(fds, res)[r].callback = work[r].callback
    BY DEF Aborted
<1> DEFINE w == work[r]
           v == [op |-> "connect", thread |-> w.thread, callback |-> w.callback,
                 fd |-> w.fd, gen |-> w.gen, finite |-> w.finite,
                 expired |-> w.expired, initial |-> res]
<1>1. w \in Work
    BY DEF TypeOK
<1>2. v \in Work
    BY <1>1 DEF Work
<1>3. Aborted(fds, res)[r] \in {w, v}
    BY DEF Aborted
<1> QED BY <1>1, <1>2, <1>3

\* What a probe finds, settled, is a result of the guest's interface.
LEMMA ProbeOK ==
    ASSUME TypeOK, NEW r \in Ops, NEW probed \in Probe(work[r]) \ {None}
    PROVE  Settled(work[r], probed) \in Results
<1> DEFINE w == work[r]
<1>1. w \in Work /\ w.op \in {"dns", "poll", "connect"} /\ w.initial \in Results \cup {None}
    BY DEF TypeOK, Work
<1>2. probed \in Results
    <2>1. CASE w.op = "dns"
        BY <1>1, <2>1 DEF Probe, ApplyDeferredDnsCompletion, Results
    <2>2. CASE w.op = "poll"
        BY <1>1, <2>2 DEF Probe, ProbeDeferredPoll, ProbeNow, Results, None
    <2>3. CASE w.op = "connect"
        BY <1>1, <2>3 DEF Probe, ProbeDeferredConnect, Results, None
    <2> QED BY <1>1, <2>1, <2>2, <2>3
<1> QED BY <1>2 DEF Settled, Results

\* The initial state satisfies the invariant.
LEMMA InitInv == Init => Inv
<1> SUFFICES ASSUME Init PROVE Inv
    OBVIOUS
<1>1. TypeOK
    <2>1. work \in [Ops -> Work]
        BY DEF Init, NoWork, Work, Fds
    <2>2. sockets \in [Fds -> [gen : 0 .. MaxGenerations, peer : 0 .. MaxGenerations]]
        BY DEF Init, Closed
    <2>3. /\ state \in [Threads -> {"idle", "waiting", "woken", "dead"}]
          /\ token \in [Threads -> 0 .. MaxOps]
          /\ cookie \in [Threads -> 0 .. MaxOps]
          /\ nextToken \in 1 .. MaxOps + 1
        BY DEF Init
    <2>4. /\ stage \in [Ops -> Stages]
          /\ syncResults \in [Ops -> Results \cup {None}]
          /\ asked \subseteq Callbacks
          /\ called \in [Callbacks -> Nat]
          /\ generation \in 0 .. MaxGenerations
          /\ todo \subseteq Ops
        BY DEF Init, Stages
    <2> QED BY <2>1, <2>2, <2>3, <2>4 DEF TypeOK
<1>2. Tokens
    BY DEF Init, Tokens, Ops
<1>3. Routed /\ Calls
    BY DEF Init, Routed, Calls, InFlight, Live
<1>4. WaiterServed
    BY DEF Init, WaiterServed
<1>5. PeerIsOwn
    BY DEF Init, PeerIsOwn, Closed
<1> QED BY <1>1, <1>2, <1>3, <1>4, <1>5 DEF Inv

\* Opening, closing, shutting down and reconnecting sockets preserves the
\* invariant: no operation changes its route or its stage.
LEMMA SocketStep ==
    ASSUME Inv,
           \/ NewWiiSocket
           \/ \E fd \in Fds : DeleteWiiSocket(fd) \/ Shutdown(fd) \/ ReconnectWiiSocket(fd)
           \/ CleanupAllWiiSockets
    PROVE  Inv'
<1> DEFINE Sockets == [Fds -> [gen : 0 .. MaxGenerations, peer : 0 .. MaxGenerations]]
           Rest == UNCHANGED <<state, token, cookie, nextToken, stage, syncResults,
                               asked, called, todo>>
           SameRoutes == /\ work' \in [Ops -> Work]
                         /\ \A r \in Ops : /\ work'[r].thread = work[r].thread
                                           /\ work'[r].callback = work[r].callback
<1> USE DEF Inv
<1>1. SUFFICES /\ sockets' \in Sockets
               /\ generation' \in 0 .. MaxGenerations
               /\ \A fd \in Fds : sockets'[fd].peer \in {0, sockets'[fd].gen}
               /\ SameRoutes
               /\ Rest
    <2>1. TypeOK'
        BY <1>1 DEF TypeOK
    <2>2. Tokens'
        BY <1>1 DEF Tokens
    <2>3. Routed' /\ Calls'
        BY <1>1 DEF Routed, Calls, InFlight
    <2>4. WaiterServed'
        BY <1>1 DEF WaiterServed
    <2>5. PeerIsOwn'
        BY <1>1 DEF PeerIsOwn
    <2> QED BY <2>1, <2>2, <2>3, <2>4, <2>5
<1>2. sockets \in Sockets /\ generation \in 0 .. MaxGenerations /\ work \in [Ops -> Work]
    BY DEF TypeOK
<1>3. CASE NewWiiSocket
    <2> PICK fd \in Fds :
            /\ generation' = generation + 1
            /\ sockets' = [sockets EXCEPT ![fd] = [gen |-> generation + 1, peer |-> 0]]
        BY <1>3 DEF NewWiiSocket
    <2>1. generation + 1 \in 0 .. MaxGenerations
        BY <1>2, <1>3 DEF NewWiiSocket
    <2>2. sockets' \in Sockets
        BY <1>2, <2>1
    <2> QED BY <1>2, <1>3, <2>1, <2>2 DEF NewWiiSocket, PeerIsOwn
<1>4. ASSUME NEW fd \in Fds, ReconnectWiiSocket(fd)
      PROVE  sockets' \in Sockets /\ generation' \in 0 .. MaxGenerations
             /\ (\A f \in Fds : sockets'[f].peer \in {0, sockets'[f].gen})
             /\ SameRoutes /\ Rest
    <2>1. generation + 1 \in 0 .. MaxGenerations
        BY <1>2, <1>4 DEF ReconnectWiiSocket
    <2>2. sockets' \in Sockets
        BY <1>2, <1>4, <2>1 DEF ReconnectWiiSocket
    <2> QED BY <1>2, <1>4, <2>1, <2>2 DEF ReconnectWiiSocket, PeerIsOwn
<1>5. ASSUME NEW fd \in Fds, Shutdown(fd)
      PROVE  UNCHANGED <<sockets, generation>> /\ SameRoutes /\ Rest
    <2>1. SameRoutes
        BY <1>5, AbortedOK DEF Shutdown, AbortPendingDeferredConnects, Results
    <2> QED BY <1>5, <2>1 DEF Shutdown
<1>6. ASSUME NEW fds, DeleteWiiSockets(fds)
      PROVE  sockets' \in Sockets /\ generation' \in 0 .. MaxGenerations
             /\ (\A f \in Fds : sockets'[f].peer \in {0, sockets'[f].gen})
             /\ SameRoutes /\ Rest
    <2>1. SameRoutes
        BY <1>6, AbortedOK DEF DeleteWiiSockets, AbortPendingDeferredConnects, Results
    <2>2. sockets' \in Sockets
        BY <1>2, <1>6 DEF DeleteWiiSockets, Closed
    <2>3. \A f \in Fds : sockets'[f].peer \in {0, sockets'[f].gen}
        BY <1>6 DEF DeleteWiiSockets, Closed, PeerIsOwn
    <2> QED BY <1>2, <1>6, <2>1, <2>2, <2>3 DEF DeleteWiiSockets
<1>7. CASE \E fd \in Fds : ReconnectWiiSocket(fd)
    BY <1>4, <1>7
<1>8. CASE \E fd \in Fds : Shutdown(fd)
    BY <1>2, <1>5, <1>8 DEF PeerIsOwn
<1>9. CASE \/ CleanupAllWiiSockets
           \/ \E fd \in Fds : DeleteWiiSocket(fd)
    BY <1>6, <1>9 DEF CleanupAllWiiSockets, DeleteWiiSocket
<1> QED BY <1>3, <1>7, <1>8, <1>9

\* Starting an operation preserves the invariant: its token is new.
LEMMA StartStep ==
    ASSUME Inv,
           \/ \E t \in Threads : StartSync(t) \/ StartFails(t)
           \/ \E c \in Callbacks : StartAsync(c)
    PROVE  Inv'
<1> USE DEF Inv
<1>1. nextToken \in Ops /\ nextToken' = nextToken + 1
    BY DEF TypeOK, Ops, StartSync, StartFails, StartAsync
<1>2. stage[nextToken] = "unused" /\ syncResults[nextToken] = None
    BY <1>1 DEF Tokens, TypeOK, Ops
<1>3. ASSUME NEW t \in Threads, StartSync(t)
      PROVE  Inv'
    <2>1. PICK w \in Started(t, Nobody) : Install(w)
        BY <1>3 DEF StartSync
    <2>2. w \in Work /\ w.thread = t /\ w.callback = Nobody
        BY <2>1, StartedOK
    <2>3. work' = [work EXCEPT ![nextToken] = w]
        BY <2>1 DEF Install
    <2>4. PICK s \in {"resolving", "pending"} : stage' = [stage EXCEPT ![nextToken] = s]
        BY <2>1 DEF Install
    <2>5. cookie' = [cookie EXCEPT ![t] = nextToken]
        BY <1>3 DEF StartSync
    <2>6. PICK parks \in BOOLEAN :
            /\ state' = [state EXCEPT ![t] = IF parks THEN "waiting" ELSE "idle"]
            /\ token' = [token EXCEPT ![t] = IF parks THEN nextToken ELSE 0]
        BY <1>3 DEF StartSync
    <2>7. UNCHANGED <<syncResults, asked, called, sockets, generation, todo>>
        BY <1>3 DEF StartSync
    <2>8. TypeOK'
        <3>1. work' \in [Ops -> Work]
            BY <1>1, <2>2, <2>3 DEF TypeOK
        <3>2. stage' \in [Ops -> Stages]
            BY <1>1, <2>4 DEF TypeOK, Stages
        <3>3. /\ state' \in [Threads -> {"idle", "waiting", "woken", "dead"}]
              /\ token' \in [Threads -> 0 .. MaxOps]
              /\ cookie' \in [Threads -> 0 .. MaxOps]
              /\ nextToken' \in 1 .. MaxOps + 1
            BY <1>1, <2>5, <2>6 DEF TypeOK, Ops
        <3> QED BY <2>7, <3>1, <3>2, <3>3 DEF TypeOK
    <2>9. Tokens'
        <3>1. \A u \in Threads : token'[u] < nextToken' /\ cookie'[u] < nextToken'
            BY <1>1, <2>5, <2>6 DEF Tokens, TypeOK, Ops
        <3>2. \A u, v \in Threads : token'[u] = token'[v] /\ token'[u] # 0 => u = v
            BY <2>6 DEF Tokens, TypeOK
        <3>3. \A r \in Ops : r >= nextToken' => stage'[r] = "unused" /\ syncResults'[r] = None
            BY <1>1, <2>4, <2>7 DEF Tokens, TypeOK, Ops
        <3>4. \A r \in todo' : stage'[r] \in {"completed", "pending"}
            BY <1>2, <2>4, <2>7 DEF Tokens, TypeOK
        <3> QED BY <3>1, <3>2, <3>3, <3>4 DEF Tokens
    <2>10. Routed'
        BY <2>2, <2>3, <2>4 DEF Routed, TypeOK
    <2>11. WaiterServed'
        <3> SUFFICES ASSUME NEW u \in Threads
                     PROVE  /\ state'[u] = "waiting" =>
                                /\ token'[u] \in Ops
                                /\ cookie'[u] = token'[u]
                                /\ work'[token'[u]].thread = u
                                /\ stage'[token'[u]] \in Live
                                /\ syncResults'[token'[u]] = None
                            /\ state'[u] = "woken" =>
                                /\ token'[u] \in Ops
                                /\ syncResults'[token'[u]] # None
            BY DEF WaiterServed
        <3>1. CASE u = t
            BY <1>1, <1>2, <2>2, <2>3, <2>4, <2>5, <2>6, <2>7, <3>1 DEF TypeOK, Live
        <3>2. CASE u # t
            <4>1. token[u] # nextToken
                BY DEF Tokens, TypeOK
            <4> QED BY <2>3, <2>4, <2>5, <2>6, <2>7, <3>2, <4>1 DEF WaiterServed, TypeOK
        <3> QED BY <3>1, <3>2
    <2>12. PeerIsOwn'
        BY <2>7 DEF PeerIsOwn
    <2>13. Calls'
        <3>1. \A r \in Ops, c \in Callbacks : InFlight(r, c)' <=> InFlight(r, c)
            BY <1>2, <2>2, <2>3, <2>4 DEF InFlight, Live, TypeOK
        <3> QED BY <2>7, <3>1 DEF Calls
    <2> QED BY <2>8, <2>9, <2>10, <2>11, <2>12, <2>13
<1>4. ASSUME NEW t \in Threads, StartFails(t)
      PROVE  Inv'
    <2>1. /\ cookie' = [cookie EXCEPT ![t] = nextToken]
          /\ state[t] = "idle"
          /\ UNCHANGED <<state, token, work, stage, syncResults, asked, called,
                         sockets, generation, todo>>
        BY <1>4 DEF StartFails
    <2>2. TypeOK'
        BY <1>1, <2>1 DEF TypeOK, Ops
    <2>3. Tokens'
        BY <1>1, <2>1 DEF Tokens, TypeOK, Ops
    <2>4. Routed' /\ Calls' /\ PeerIsOwn'
        BY <2>1 DEF Routed, Calls, InFlight, PeerIsOwn
    <2>5. WaiterServed'
        BY <2>1 DEF WaiterServed, TypeOK
    <2> QED BY <2>2, <2>3, <2>4, <2>5
<1>5. ASSUME NEW c \in Callbacks, StartAsync(c)
      PROVE  Inv'
    <2>1. PICK w \in Started(Nobody, c) : Install(w)
        BY <1>5 DEF StartAsync
    <2>2. w \in Work /\ w.thread = Nobody /\ w.callback = c
        BY <2>1, StartedOK
    <2>3. work' = [work EXCEPT ![nextToken] = w]
        BY <2>1 DEF Install
    <2>4. PICK s \in {"resolving", "pending"} : stage' = [stage EXCEPT ![nextToken] = s]
        BY <2>1 DEF Install
    <2>5. /\ c \notin asked
          /\ asked' = asked \cup {c}
          /\ UNCHANGED <<state, token, cookie, syncResults, called, sockets,
                         generation, todo>>
        BY <1>5 DEF StartAsync
    <2>6. TypeOK'
        <3>1. work' \in [Ops -> Work]
            BY <1>1, <2>2, <2>3 DEF TypeOK
        <3>2. stage' \in [Ops -> Stages]
            BY <1>1, <2>4 DEF TypeOK, Stages
        <3> QED BY <1>1, <2>5, <3>1, <3>2 DEF TypeOK, Ops
    <2>7. Tokens'
        <3>1. \A r \in Ops : r >= nextToken' => stage'[r] = "unused" /\ syncResults'[r] = None
            BY <1>1, <2>4, <2>5 DEF Tokens, TypeOK, Ops
        <3>2. \A r \in todo' : stage'[r] \in {"completed", "pending"}
            BY <1>2, <2>4, <2>5 DEF Tokens, TypeOK
        <3> QED BY <1>1, <2>5, <3>1, <3>2 DEF Tokens, TypeOK, Ops
    <2>8. Routed'
        BY <2>2, <2>3, <2>4 DEF Routed, TypeOK
    <2>9. WaiterServed'
        <3>1. \A u \in Threads : token[u] # nextToken
            BY DEF Tokens, TypeOK
        <3> QED BY <2>3, <2>4, <2>5, <3>1 DEF WaiterServed, TypeOK
    <2>10. PeerIsOwn'
        BY <2>5 DEF PeerIsOwn
    <2>11. Calls'
        <3>1. \A r \in Ops, d \in Callbacks :
                InFlight(r, d)' <=> (InFlight(r, d) \/ (r = nextToken /\ d = c))
            BY <1>2, <2>2, <2>3, <2>4 DEF InFlight, Live, TypeOK
        <3>2. \A r \in Ops : ~InFlight(r, c)
            BY <2>5 DEF Calls
        <3>3. called[c] = 0
            BY <2>5 DEF Calls
        <3> SUFFICES ASSUME NEW d \in Callbacks
            PROVE \/ d \notin asked' /\ called'[d] = 0 /\ \A r \in Ops : ~InFlight(r, d)'
                  \/ d \in asked' /\ called'[d] = 1 /\ \A r \in Ops : ~InFlight(r, d)'
                  \/ /\ d \in asked' /\ called'[d] = 0
                     /\ \E r \in Ops : InFlight(r, d)' /\ \A q \in Ops : InFlight(q, d)' => q = r
            BY DEF Calls
        <3>4. CASE d = c
            BY <1>1, <2>5, <3>1, <3>2, <3>3, <3>4
        <3>5. CASE d # c
            BY <2>5, <3>1, <3>5 DEF Calls
        <3> QED BY <3>4, <3>5
    <2> QED BY <2>6, <2>7, <2>8, <2>9, <2>10, <2>11
<1> QED BY <1>3, <1>4, <1>5

\* A lookup thread publishing, a deadline passing and the start of a pass
\* preserve the invariant: no route changes and nothing leaves the live stages.
LEMMA HostStep ==
    ASSUME Inv,
           \/ \E r \in Ops : RunWorker(r) \/ Expire(r)
           \/ ProcessCompletions
    PROVE  Inv'
<1> USE DEF Inv
<1> DEFINE Rest == UNCHANGED <<state, token, cookie, nextToken, syncResults, asked,
                               called, sockets, generation>>
           SameRoutes == /\ work' \in [Ops -> Work]
                         /\ \A q \in Ops : /\ work'[q].thread = work[q].thread
                                           /\ work'[q].callback = work[q].callback
           SameLive == /\ stage' \in [Ops -> Stages]
                       /\ \A q \in Ops : stage'[q] \in Live <=> stage[q] \in Live
                       /\ \A q \in Ops : stage[q] = "unused" => stage'[q] = "unused"
           Listed == todo' \subseteq Ops
                        /\ \A q \in todo' : stage'[q] \in {"completed", "pending"}
<1>1. SUFFICES Rest /\ SameRoutes /\ SameLive /\ Listed
    <2>1. TypeOK'
        BY <1>1 DEF TypeOK
    <2>2. Tokens'
        BY <1>1 DEF Tokens
    <2>3. Routed' /\ Calls'
        BY <1>1 DEF Routed, Calls, InFlight
    <2>4. WaiterServed'
        BY <1>1 DEF WaiterServed
    <2>5. PeerIsOwn'
        BY <1>1 DEF PeerIsOwn
    <2> QED BY <2>1, <2>2, <2>3, <2>4, <2>5
<1>2. ASSUME NEW r \in Ops, RunWorker(r)
      PROVE  Rest /\ SameRoutes /\ SameLive /\ Listed
    <2>1. PICK res \in {"ok", "error"} :
            work' = [work EXCEPT ![r] = [work[r] EXCEPT !.initial = res]]
        BY <1>2 DEF RunWorker
    <2>2. [work[r] EXCEPT !.initial = res] \in Work
        <3>1. work[r] \in Work /\ res \in Results \cup {None}
            BY DEF TypeOK, Results
        <3> QED BY <3>1 DEF Work
    <2>3. SameRoutes
        BY <2>1, <2>2 DEF TypeOK, Work
    <2>4. stage' = [stage EXCEPT ![r] = "completed"] /\ stage[r] = "resolving"
        BY <1>2 DEF RunWorker
    <2>5. SameLive /\ Listed
        BY <1>2, <2>4 DEF RunWorker, TypeOK, Stages, Live, Tokens
    <2> QED BY <1>2, <2>3, <2>5 DEF RunWorker
<1>3. ASSUME NEW r \in Ops, Expire(r)
      PROVE  Rest /\ SameRoutes /\ SameLive /\ Listed
    <2>1. work' = [work EXCEPT ![r] = [work[r] EXCEPT !.expired = TRUE]]
        BY <1>3 DEF Expire
    <2>2. [work[r] EXCEPT !.expired = TRUE] \in Work
        <3>1. work[r] \in Work
            BY DEF TypeOK
        <3> QED BY <3>1 DEF Work
    <2>3. SameRoutes
        BY <2>1, <2>2 DEF TypeOK, Work
    <2> QED BY <1>3, <2>3 DEF Expire, TypeOK, Tokens
<1>4. ASSUME ProcessCompletions
      PROVE  Rest /\ SameRoutes /\ SameLive /\ Listed
    BY <1>4 DEF ProcessCompletions, TypeOK
<1> QED BY <1>2, <1>3, <1>4

\* A valid waiter of an operation is the one thread parked for it.
LEMMA ValidWaiter ==
    ASSUME Inv, NEW r \in Ops, r \in todo, work[r].thread # Nobody
    PROVE  /\ work[r].thread \in Threads
           /\ ~Orphaned(r) => state[work[r].thread] = "waiting" /\ token[work[r].thread] = r
           /\ \A t \in Threads : state[t] = "waiting" /\ token[t] = r =>
                t = work[r].thread /\ ~Orphaned(r)
<1>1. work[r].thread \in Threads
    BY DEF Inv, Tokens, Routed, Live
<1>2. ~Orphaned(r) => state[work[r].thread] = "waiting" /\ token[work[r].thread] = r
    BY <1>1 DEF Inv, WaiterServed, Orphaned, DeferredNetworkWaiterIsValid
<1>3. ASSUME NEW t \in Threads, state[t] = "waiting", token[t] = r
      PROVE  t = work[r].thread /\ ~Orphaned(r)
    BY <1>3 DEF Inv, WaiterServed, Orphaned, DeferredNetworkWaiterIsValid
<1> QED BY <1>1, <1>2, <1>3

\* What erasing an operation does to the store.
LEMMA EraseOK ==
    ASSUME Inv, NEW r \in Ops, Visits(r), Erase(r)
    PROVE  /\ work' \in [Ops -> Work] /\ stage' \in [Ops -> Stages]
           /\ todo' \subseteq Ops
           /\ Routed'
           /\ \A q \in Ops : q >= nextToken' => stage'[q] = "unused"
           /\ \A q \in todo' : stage'[q] \in {"completed", "pending"}
           /\ stage[r] \in Live
           /\ \A q \in Ops, c \in Callbacks : InFlight(q, c)' <=> (InFlight(q, c) /\ q # r)
<1> USE DEF Inv
<1>1. work' = [work EXCEPT ![r] = NoWork] /\ stage' = [stage EXCEPT ![r] = "done"]
    BY DEF Erase
<1>2. todo' = todo \ {r} /\ r \in todo /\ nextToken' = nextToken
    BY DEF Visits
<1>3. NoWork \in Work
    BY DEF NoWork, Work, Fds
<1>4. work' \in [Ops -> Work] /\ stage' \in [Ops -> Stages]
    BY <1>1, <1>3 DEF TypeOK, Stages
<1>5. Routed'
    BY <1>1 DEF Routed, TypeOK, Live
<1>6. stage[r] \in Live
    BY <1>2 DEF Tokens, Live
<1>7. \A q \in Ops : q >= nextToken' => stage'[q] = "unused"
    BY <1>1, <1>2, <1>6 DEF Tokens, TypeOK, Live
<1>8. \A q \in Ops, c \in Callbacks : InFlight(q, c)' <=> (InFlight(q, c) /\ q # r)
    BY <1>1 DEF InFlight, TypeOK, Live
<1> QED BY <1>1, <1>2, <1>4, <1>5, <1>6, <1>7, <1>8 DEF Tokens, TypeOK

\* One visit of the pump preserves the invariant.
LEMMA PumpStepInv ==
    ASSUME Inv, NEW r \in Ops, DropWork(r) \/ KeepWork(r) \/ SettleWork(r)
    PROVE  Inv'
<1> USE DEF Inv
<1>1. Visits(r) /\ r \in todo /\ todo' = todo \ {r}
      /\ UNCHANGED <<token, cookie, nextToken, asked, generation>>
    BY DEF DropWork, KeepWork, SettleWork, Visits
<1>2. CASE KeepWork(r)
    <2>1. UNCHANGED <<state, work, stage, syncResults, called, sockets>>
        BY <1>2 DEF KeepWork
    <2>2. TypeOK'
        BY <1>1, <2>1 DEF TypeOK
    <2>3. Tokens'
        BY <1>1, <2>1 DEF Tokens
    <2>4. Routed' /\ Calls' /\ PeerIsOwn'
        BY <1>1, <2>1 DEF Routed, Calls, InFlight, PeerIsOwn
    <2>5. WaiterServed'
        BY <1>1, <2>1 DEF WaiterServed
    <2> QED BY <2>2, <2>3, <2>4, <2>5
<1>3. CASE DropWork(r)
    <2>1. Orphaned(r) /\ Erase(r) /\ UNCHANGED <<state, syncResults, called, sockets>>
        BY <1>3 DEF DropWork
    <2>2. work[r].thread # Nobody
        BY <2>1 DEF Orphaned
    <2>3. TypeOK'
        BY <1>1, <2>1, EraseOK DEF TypeOK
    <2>4. Tokens'
        BY <1>1, <2>1, EraseOK DEF Tokens
    <2>5. Routed' /\ PeerIsOwn'
        BY <1>1, <2>1, EraseOK DEF PeerIsOwn
    <2>6. \A t \in Threads : state[t] = "waiting" => token[t] # r
        BY <1>1, <2>1, <2>2, ValidWaiter
    <2>7. WaiterServed'
        BY <1>1, <2>1, <2>6 DEF WaiterServed, Erase, TypeOK
    <2>8. work[r].callback = Nobody
        BY <1>1, <2>2, EraseOK, <2>1 DEF Routed
    <2>9. \A q \in Ops, c \in Callbacks : InFlight(q, c)' <=> InFlight(q, c)
        BY <1>1, <2>1, <2>8, EraseOK DEF InFlight
    <2>10. Calls'
        BY <1>1, <2>1, <2>9 DEF Calls
    <2> QED BY <2>3, <2>4, <2>5, <2>7, <2>10
<1>4. CASE SettleWork(r)
    <2>1. PICK probed \in Probe(work[r]) \ {None} :
            /\ RecordPeer(work[r], Settled(work[r], probed))
            /\ DeliverDeferredNetworkResult(r, Settled(work[r], probed))
            /\ Erase(r)
        BY <1>4 DEF SettleWork
    <2> DEFINE res == Settled(work[r], probed)
               w == work[r]
    <2>2. res \in Results /\ res # None
        <3>1. res \in Results
            BY ProbeOK
        <3> QED BY <3>1 DEF Results, None
    <2>3. ~Orphaned(r)
        BY <1>4 DEF SettleWork
    <2>4. w \in Work
        BY DEF TypeOK
    <2>5. /\ sockets' \in [Fds -> [gen : 0 .. MaxGenerations, peer : 0 .. MaxGenerations]]
          /\ PeerIsOwn'
        <3>1. CASE w.op = "connect" /\ res = "ok"
            <4>1. SocketIdentityIsCurrent(w)
                BY <3>1 DEF Settled
            <4>2. sockets' = [sockets EXCEPT ![w.fd] =
                                [gen |-> sockets[w.fd].gen, peer |-> w.gen]]
                BY <2>1, <3>1 DEF RecordPeer
            <4>3. w.fd \in Fds /\ w.gen \in 0 .. MaxGenerations
                BY <2>4 DEF Work
            <4> QED BY <4>1, <4>2, <4>3 DEF SocketIdentityIsCurrent, PeerIsOwn, TypeOK
        <3>2. CASE ~(w.op = "connect" /\ res = "ok")
            BY <2>1, <3>2 DEF RecordPeer, PeerIsOwn, TypeOK
        <3> QED BY <3>1, <3>2
    <2>6. CASE w.thread # Nobody
        <3>1. /\ syncResults' = [syncResults EXCEPT ![r] = res]
              /\ state' = [state EXCEPT ![w.thread] = "woken"]
              /\ called' = called
            BY <2>1, <2>6 DEF DeliverDeferredNetworkResult
        <3>2. /\ w.thread \in Threads
              /\ state[w.thread] = "waiting" /\ token[w.thread] = r
              /\ \A t \in Threads : state[t] = "waiting" /\ token[t] = r => t = w.thread
            BY <1>1, <2>3, <2>6, ValidWaiter
        <3>3. TypeOK'
            BY <1>1, <2>1, <2>2, <2>5, <3>1, EraseOK DEF TypeOK
        <3>4. Tokens'
            <4>1. \A q \in Ops : q >= nextToken' => syncResults'[q] = None
                BY <1>1, <2>1, <3>1, EraseOK DEF Tokens, TypeOK, Live
            <4> QED BY <1>1, <2>1, <4>1, EraseOK DEF Tokens
        <3>5. Routed'
            BY <1>1, <2>1, EraseOK
        <3>6. WaiterServed'
            <4> SUFFICES ASSUME NEW u \in Threads
                         PROVE  /\ state'[u] = "waiting" =>
                                    /\ token'[u] \in Ops
                                    /\ cookie'[u] = token'[u]
                                    /\ work'[token'[u]].thread = u
                                    /\ stage'[token'[u]] \in Live
                                    /\ syncResults'[token'[u]] = None
                                /\ state'[u] = "woken" =>
                                    /\ token'[u] \in Ops
                                    /\ syncResults'[token'[u]] # None
                BY DEF WaiterServed
            <4>1. CASE u = w.thread
                BY <1>1, <2>2, <3>1, <3>2, <4>1 DEF TypeOK
            <4>2. CASE u # w.thread
                <5>1. token[u] # r
                    BY <3>2, <4>2 DEF Tokens, Ops
                <5>2. state'[u] = state[u] /\ token'[u] = token[u] /\ cookie'[u] = cookie[u]
                    BY <1>1, <3>1, <4>2 DEF TypeOK
                <5>3. token[u] \in Ops => /\ work'[token[u]] = work[token[u]]
                                          /\ stage'[token[u]] = stage[token[u]]
                                          /\ syncResults'[token[u]] = syncResults[token[u]]
                    BY <2>1, <3>1, <5>1 DEF Erase, TypeOK
                <5> QED BY <5>2, <5>3 DEF WaiterServed
            <4> QED BY <4>1, <4>2
        <3>7. w.callback = Nobody
            BY <1>1, <2>1, <2>6, EraseOK DEF Routed
        <3>8. \A q \in Ops, c \in Callbacks : InFlight(q, c)' <=> InFlight(q, c)
            BY <1>1, <2>1, <3>7, EraseOK DEF InFlight
        <3>9. Calls'
            BY <1>1, <3>1, <3>8 DEF Calls
        <3> QED BY <2>5, <3>3, <3>4, <3>5, <3>6, <3>9
    <2>7. CASE w.thread = Nobody
        <3>1. /\ called' = [called EXCEPT ![w.callback] = @ + 1]
              /\ UNCHANGED <<syncResults, state>>
            BY <2>1, <2>7 DEF DeliverDeferredNetworkResult
        <3>2. w.callback \in Callbacks /\ InFlight(r, w.callback)
            BY <1>1, <2>1, <2>7, EraseOK DEF Routed, InFlight
        <3>3. TypeOK'
            <4>1. called' \in [Callbacks -> Nat]
                BY <3>1, <3>2 DEF TypeOK
            <4> QED BY <1>1, <2>1, <2>5, <3>1, <4>1, EraseOK DEF TypeOK
        <3>4. Tokens'
            BY <1>1, <2>1, <3>1, EraseOK DEF Tokens
        <3>5. Routed'
            BY <1>1, <2>1, EraseOK
        <3>6. WaiterServed'
            <4>1. \A t \in Threads : state[t] = "waiting" => token[t] # r
                BY <2>7 DEF WaiterServed
            <4> QED BY <1>1, <2>1, <3>1, <4>1 DEF WaiterServed, Erase, TypeOK
        <3>7. \A q \in Ops, c \in Callbacks : InFlight(q, c)' <=> (InFlight(q, c) /\ q # r)
            BY <1>1, <2>1, EraseOK
        <3>8. Calls'
            <4> SUFFICES ASSUME NEW d \in Callbacks
                PROVE \/ d \notin asked' /\ called'[d] = 0 /\ \A q \in Ops : ~InFlight(q, d)'
                      \/ d \in asked' /\ called'[d] = 1 /\ \A q \in Ops : ~InFlight(q, d)'
                      \/ /\ d \in asked' /\ called'[d] = 0
                         /\ \E q \in Ops : InFlight(q, d)'
                                /\ \A p \in Ops : InFlight(p, d)' => p = q
                BY DEF Calls
            <4>1. CASE d = w.callback
                <5>1. /\ d \in asked /\ called[d] = 0
                      /\ \A q \in Ops : InFlight(q, d) => q = r
                    BY <3>2, <4>1 DEF Calls
                <5> QED BY <1>1, <3>1, <3>7, <4>1, <5>1 DEF TypeOK
            <4>2. CASE d # w.callback
                <5>1. called'[d] = called[d]
                    BY <3>1, <4>2 DEF TypeOK
                <5>2. \A q \in Ops : InFlight(q, d)' <=> InFlight(q, d)
                    BY <3>7, <4>2 DEF InFlight
                <5> QED BY <1>1, <5>1, <5>2 DEF Calls
            <4> QED BY <4>1, <4>2
        <3> QED BY <2>5, <3>3, <3>4, <3>5, <3>6, <3>8
    <2> QED BY <2>6, <2>7
<1> QED BY <1>2, <1>3, <1>4

\* A waiter taking its result, a cancelled and a recreated thread preserve the
\* invariant: no other thread holds the token that goes away.
LEMMA ThreadStep ==
    ASSUME Inv, NEW t \in Threads,
           FinishDeferredIosWait(t) \/ CancelThread(t) \/ CreateThread(t)
    PROVE  Inv'
<1> USE DEF Inv
<1>1. /\ UNCHANGED <<cookie, nextToken, work, stage, asked, called, sockets, generation, todo>>
      /\ state' = [state EXCEPT ![t] = "idle"] \/ state' = [state EXCEPT ![t] = "dead"]
      /\ token' = [token EXCEPT ![t] = 0] \/ token' = token
    BY DEF FinishDeferredIosWait, CancelThread, CreateThread
<1>2. CASE UNCHANGED syncResults
    <2>1. TypeOK'
        BY <1>1, <1>2 DEF TypeOK
    <2>2. Tokens'
        <3>1. 0 < nextToken
            BY DEF TypeOK
        <3>2. \A u \in Threads : token'[u] = token[u] \/ token'[u] = 0
            BY <1>1 DEF TypeOK
        <3> QED BY <1>1, <1>2, <3>1, <3>2 DEF Tokens
    <2>3. Routed' /\ Calls' /\ PeerIsOwn'
        BY <1>1 DEF Routed, Calls, InFlight, PeerIsOwn
    <2>4. WaiterServed'
        BY <1>1, <1>2 DEF WaiterServed, TypeOK
    <2> QED BY <2>1, <2>2, <2>3, <2>4
<1>3. CASE FinishDeferredIosWait(t)
    <2>1. /\ state[t] = "woken"
          /\ syncResults' = [syncResults EXCEPT ![token[t]] = None]
          /\ state' = [state EXCEPT ![t] = "idle"]
          /\ token' = [token EXCEPT ![t] = 0]
        BY <1>3 DEF FinishDeferredIosWait
    <2>2. token[t] \in Ops
        BY <2>1 DEF WaiterServed
    <2>3. TypeOK'
        BY <1>1, <2>1, <2>2 DEF TypeOK
    <2>4. Tokens'
        BY <1>1, <2>1, <2>2 DEF Tokens, TypeOK, Ops
    <2>5. Routed' /\ Calls' /\ PeerIsOwn'
        BY <1>1 DEF Routed, Calls, InFlight, PeerIsOwn
    <2>6. WaiterServed'
        <3>1. \A u \in Threads : u # t => token[u] # token[t]
            BY <2>2 DEF Tokens, Ops
        <3> QED BY <1>1, <2>1, <2>2, <3>1 DEF WaiterServed, TypeOK
    <2> QED BY <2>3, <2>4, <2>5, <2>6
<1> QED BY <1>2, <1>3 DEF CancelThread, CreateThread

\* Every step of the specification preserves the invariant.
LEMMA NextInv == Inv /\ [Next]_vars => Inv'
<1> SUFFICES ASSUME Inv, [Next]_vars PROVE Inv'
    OBVIOUS
<1>1. CASE UNCHANGED vars
    <2>1. TypeOK'
        BY <1>1 DEF Inv, TypeOK, vars
    <2>2. Tokens' /\ Routed' /\ WaiterServed'
        BY <1>1 DEF Inv, Tokens, Routed, WaiterServed, vars
    <2>3. PeerIsOwn' /\ Calls'
        BY <1>1 DEF Inv, PeerIsOwn, Calls, InFlight, vars
    <2> QED BY <2>1, <2>2, <2>3 DEF Inv
<1>2. CASE PumpStep
    BY <1>2, PumpStepInv DEF PumpStep
<1> QED BY <1>1, <1>2, SocketStep, StartStep, HostStep, ThreadStep DEF Next

\* The inductive invariant holds in every reachable state.
THEOREM Invariance == Spec => []Inv
BY InitInv, NextInv, PTL DEF Spec

\* Type correctness of the deferred-network store and the socket table.
THEOREM TypeCorrect == Spec => []TypeOK
<1>1. Inv => TypeOK
    BY DEF Inv
<1> QED BY <1>1, Invariance, PTL

\* No parked caller is forgotten by the pump and no woken one finds the table
\* without its result, whatever is cancelled, closed or reused meanwhile.
THEOREM WaitersAreServed == Spec => []WaiterServed
<1>1. Inv => WaiterServed
    BY DEF Inv
<1> QED BY <1>1, Invariance, PTL

\* A recorded peer belongs to the socket it is recorded on.
THEOREM PeersAreOwn == Spec => []PeerIsOwn
<1>1. Inv => PeerIsOwn
    BY DEF Inv
<1> QED BY <1>1, Invariance, PTL

\* An asynchronous call is in flight once or called back once, never both.
THEOREM CalledBackOnce == Spec => []CallbackOnce
<1>1. Inv => CallbackOnce
    <2> SUFFICES ASSUME Inv, NEW c \in Callbacks
                 PROVE  Cardinality({r \in Ops : stage[r] \in Live /\ work[r].callback = c})
                            + called[c] = IF c \in asked THEN 1 ELSE 0
        BY DEF CallbackOnce
    <2> DEFINE F == {r \in Ops : stage[r] \in Live /\ work[r].callback = c}
    <2>1. CASE \A r \in Ops : ~InFlight(r, c)
        <3>1. F = {}
            BY <2>1 DEF InFlight
        <3>2. Cardinality(F) = 0
            BY <3>1, FS_EmptySet
        <3>3. called[c] = IF c \in asked THEN 1 ELSE 0
            BY <2>1 DEF Inv, Calls
        <3> QED BY <3>2, <3>3
    <2>2. ASSUME NEW r \in Ops, InFlight(r, c)
          PROVE  Cardinality(F) + called[c] = IF c \in asked THEN 1 ELSE 0
        <3>1. c \in asked /\ called[c] = 0 /\ \A q \in Ops : InFlight(q, c) => q = r
            BY <2>2 DEF Inv, Calls
        <3>2. F = {r}
            BY <2>2, <3>1 DEF InFlight
        <3>3. Cardinality(F) = 1
            BY <3>2, FS_Singleton
        <3> QED BY <3>1, <3>3
    <2> QED BY <2>1, <2>2
<1> QED BY <1>1, Invariance, PTL

\* Only a delivery of the pump publishes a result.
LEMMA PublishedBySettle ==
    ASSUME Inv, [Next]_vars, NEW r \in Ops, Published(r)
    PROVE  /\ SettleWork(r)
           /\ work[r].thread # Nobody
<1>1. ASSUME NEW q \in Ops, SettleWork(q)
      PROVE  q = r /\ work[r].thread # Nobody
    <2>1. PICK probed \in Probe(work[q]) \ {None} :
            DeliverDeferredNetworkResult(q, Settled(work[q], probed))
        BY <1>1 DEF SettleWork
    <2> QED BY <2>1 DEF DeliverDeferredNetworkResult, Published, Inv, TypeOK
<1>2. ASSUME NEW t \in Threads, FinishDeferredIosWait(t)
      PROVE  FALSE
    BY <1>2 DEF FinishDeferredIosWait, Published, Inv, TypeOK
<1>3. \E q \in Ops : SettleWork(q)
    BY <1>2 DEF Next, vars, Published, StartSync, StartFails, CancelThread, CreateThread,
        StartAsync, DeleteWiiSocket, DeleteWiiSockets, Shutdown, ReconnectWiiSocket,
        NewWiiSocket, CleanupAllWiiSockets, RunWorker, Expire, ProcessCompletions,
        PumpStep, DropWork, KeepWork
<1> QED BY <1>1, <1>3

\* A result is published only for the thread parked for that very operation.
THEOREM AskerIsAnswered == Spec => AnswersItsAsker
<1>1. ASSUME Inv, [Next]_vars, NEW r \in Ops, Published(r)
      PROVE  \E t \in Threads :
                state[t] = "waiting" /\ token[t] = r /\ state'[t] = "woken"
    <2>1. SettleWork(r) /\ work[r].thread # Nobody
        BY <1>1, PublishedBySettle
    <2>2. r \in todo /\ ~Orphaned(r)
        BY <2>1 DEF SettleWork, Visits
    <2>3. state' = [state EXCEPT ![work[r].thread] = "woken"]
        BY <2>1 DEF SettleWork, DeliverDeferredNetworkResult
    <2>4. /\ work[r].thread \in Threads
          /\ state[work[r].thread] = "waiting" /\ token[work[r].thread] = r
        BY <1>1, <2>1, <2>2, ValidWaiter
    <2>5. state'[work[r].thread] = "woken"
        BY <1>1, <2>3, <2>4 DEF Inv, TypeOK
    <2> QED BY <2>4, <2>5
<1>2. Inv /\ [Next]_vars =>
        [\A r \in Ops : Published(r) =>
            \E t \in Threads :
                state[t] = "waiting" /\ token[t] = r /\ state'[t] = "woken"]_vars
    BY <1>1
<1> QED BY <1>2, Invariance, PTL DEF Spec, AnswersItsAsker

\* A connect is reported as successful only with its own socket open and the
\* peer recorded on it.
THEOREM SuccessMeansConnected == Spec => SuccessIsConnected
<1>1. ASSUME Inv, [Next]_vars, NEW r \in Ops, Published(r), work[r].op = "connect",
             syncResults'[r] = "ok"
      PROVE  /\ sockets'[work[r].fd].gen = work[r].gen
             /\ sockets'[work[r].fd].peer = work[r].gen
    <2> DEFINE w == work[r]
    <2>1. SettleWork(r) /\ w.thread # Nobody
        BY <1>1, PublishedBySettle
    <2>2. PICK probed \in Probe(w) \ {None} :
            /\ RecordPeer(w, Settled(w, probed))
            /\ DeliverDeferredNetworkResult(r, Settled(w, probed))
        BY <2>1 DEF SettleWork
    <2>3. Settled(w, probed) = "ok"
        BY <1>1, <2>1, <2>2 DEF DeliverDeferredNetworkResult, Inv, TypeOK
    <2>4. SocketIdentityIsCurrent(w)
        BY <1>1, <2>3 DEF Settled
    <2>5. sockets' = [sockets EXCEPT ![w.fd] = [gen |-> sockets[w.fd].gen, peer |-> w.gen]]
        BY <1>1, <2>2, <2>3 DEF RecordPeer
    <2>6. w.fd \in Fds
        BY <1>1 DEF Inv, TypeOK, Work
    <2> QED BY <1>1, <2>4, <2>5, <2>6 DEF SocketIdentityIsCurrent, Inv, TypeOK
<1>2. Inv /\ [Next]_vars =>
        [\A r \in Ops :
            Published(r) /\ work[r].op = "connect" /\ syncResults'[r] = "ok" =>
                /\ sockets'[work[r].fd].gen = work[r].gen
                /\ sockets'[work[r].fd].peer = work[r].gen]_vars
    BY <1>1
<1> QED BY <1>2, Invariance, PTL DEF Spec, SuccessIsConnected
==============================================================================
