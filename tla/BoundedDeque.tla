---------------------------- MODULE BoundedDeque ----------------------------
(***************************************************************************)
(* What an OSMessageQueue promises its callers: one sequence of at most      *)
(* Capacity messages, Send appends, Jam prepends, Receive takes the first,   *)
(* and a call that cannot proceed has no effect on it.  How the messages are *)
(* stored and how callers wait is of no concern here.                        *)
(***************************************************************************)
EXTENDS Integers, Sequences

CONSTANTS Callers, Messages, Capacity

VARIABLES
  deque,    \* the queued messages, oldest first
  result    \* what each caller's last call returned, "none" while it is in one

dequeVars == <<deque, result>>

\* A zero-capacity queue never counts as full and swallows what it is sent.
HasRoom == Capacity = 0 \/ Len(deque) < Capacity

Returns(t, r) == result' = [result EXCEPT ![t] = r]

Init ==
  /\ deque  = <<>>
  /\ result = [t \in Callers |-> "none"]

\* A call begins; the caller has let go of what the one before returned.
Begin(t) ==
  /\ Returns(t, "none")
  /\ UNCHANGED deque

Send(t, m) ==
  /\ HasRoom
  /\ deque' = IF Capacity = 0 THEN deque ELSE Append(deque, m)
  /\ Returns(t, "sent")

Jam(t, m) ==
  /\ HasRoom
  /\ deque' = IF Capacity = 0 THEN deque ELSE <<m>> \o deque
  /\ Returns(t, "sent")

Receive(t) ==
  /\ deque # <<>>
  /\ deque' = Tail(deque)
  /\ Returns(t, Head(deque))

\* A call that does not block gives up.
RefuseSend(t) ==
  /\ ~HasRoom
  /\ Returns(t, "full")
  /\ UNCHANGED deque

RefuseReceive(t) ==
  /\ deque = <<>>
  /\ Returns(t, "empty")
  /\ UNCHANGED deque

Reset ==
  /\ deque' = <<>>
  /\ UNCHANGED result

Next ==
  \/ \E t \in Callers : \/ \E m \in Messages : Send(t, m) \/ Jam(t, m)
                        \/ Begin(t)
                        \/ Receive(t)
                        \/ RefuseSend(t)
                        \/ RefuseReceive(t)
  \/ Reset

Spec == Init /\ [][Next]_dequeVars
=============================================================================
