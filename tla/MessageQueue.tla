---------------------------- MODULE MessageQueue ----------------------------
(***************************************************************************)
(* OSMessageQueue: a ring of Count slots in guest memory, the index of the   *)
(* first message, the number used, and two thread queues.  Interrupts are    *)
(* off and threads are cooperative, so one round of MsgQueueOp's loop (test, *)
(* apply, wake the other side; or go to sleep) is one step.  Which ready     *)
(* thread runs next is the scheduler's choice (GuestScheduler) and is left   *)
(* open.  The thread queues are sets: OSWakeupThread empties the whole       *)
(* queue, so the order inside it decides nothing here.                       *)
(*                                                                           *)
(* A definition named X_Y, just before X, is X with the slip Y: the checks   *)
(* are run against it to see that they notice.                               *)
(***************************************************************************)
EXTENDS Integers, Sequences

CONSTANTS
  Callers,    \* the guest threads that use the queue
  Messages,   \* message words
  Count,      \* capacity passed to OSInitMessageQueue
  Flags,      \* blocking flags the callers pass
  Zero        \* the content of a slot never written

ASSUME CountOK == Count \in Nat
ASSUME FlagsOK == Flags \subseteq BOOLEAN

Results == {"none", "sent", "full", "empty"} \cup Messages \cup {Zero}

ASSUME ZeroNotSent == Zero \notin Messages

VARIABLES
  slots,   \* the message array
  first,   \* index of the first message
  used,    \* number of messages
  sendQ,   \* threads asleep on the send queue
  recvQ,   \* threads asleep on the receive queue
  call,    \* the call each thread is inside
  result   \* what its last call returned, "none" while it is in one

ring == <<slots, first, used>>
vars == <<ring, sendQ, recvQ, call, result>>

Indices == 0 .. Count - 1

NoCall  == [op |-> "none", msg |-> Zero, block |-> FALSE]
CallSet == [op : {"send", "jam"}, msg : Messages, block : Flags]
      \cup [op : {"receive"}, msg : {Zero}, block : Flags]

MsgQueueIsFull_OffByOne == Count # 0 /\ used > Count

MsgQueueIsFull  == Count # 0 /\ used >= Count
MsgQueueIsEmpty == used = 0

Init ==
  /\ slots  = [i \in Indices |-> Zero]
  /\ first  = 0
  /\ used   = 0
  /\ sendQ  = {}
  /\ recvQ  = {}
  /\ call   = [t \in Callers |-> NoCall]
  /\ result = [t \in Callers |-> "none"]

-----------------------------------------------------------------------------
MsgQueueEnqueue(m) ==
  IF Count = 0 THEN UNCHANGED ring
  ELSE /\ slots' = [slots EXCEPT ![(first + used) % Count] = m]
       /\ used'  = used + 1
       /\ UNCHANGED first

MsgQueueJam_Clamps(m) ==
  IF Count = 0 THEN UNCHANGED ring
  ELSE LET f == IF first = 0 THEN 0 ELSE first - 1
       IN /\ slots' = [slots EXCEPT ![f] = m]
          /\ first' = f
          /\ used'  = used + 1

MsgQueueJam(m) ==
  IF Count = 0 THEN UNCHANGED ring
  ELSE LET f == IF first = 0 THEN Count - 1 ELSE first - 1
       IN /\ slots' = [slots EXCEPT ![f] = m]
          /\ first' = f
          /\ used'  = used + 1

MsgQueueDequeue ==
  IF Count = 0 \/ used = 0 THEN UNCHANGED ring
  ELSE /\ first' = (first + 1) % Count
       /\ used'  = used - 1
       /\ UNCHANGED slots

\* The message MsgQueueDequeue returns.
Dequeued == IF Count = 0 \/ used = 0 THEN Zero ELSE slots[first]

-----------------------------------------------------------------------------
Asleep(t) == t \in sendQ \cup recvQ
Inside(t) == call[t].op # "none"
Sends(t)  == call[t].op \in {"send", "jam"}

\* A thread enters OSSendMessage, OSJamMessage or OSReceiveMessage.
Enter(t, c) ==
  /\ ~Inside(t)
  /\ call'   = [call EXCEPT ![t] = c]
  /\ result' = [result EXCEPT ![t] = "none"]
  /\ UNCHANGED <<ring, sendQ, recvQ>>

Leave(t, r) ==
  /\ call'   = [call EXCEPT ![t] = NoCall]
  /\ result' = [result EXCEPT ![t] = r]

\* The queue has room: append or prepend, wake every receiver, return 1.
SendMessage(t) ==
  /\ call[t].op = "send" /\ ~Asleep(t) /\ ~MsgQueueIsFull
  /\ MsgQueueEnqueue(call[t].msg)
  /\ recvQ' = {}
  /\ Leave(t, "sent")
  /\ UNCHANGED sendQ

JamMessage(t) ==
  /\ call[t].op = "jam" /\ ~Asleep(t) /\ ~MsgQueueIsFull
  /\ MsgQueueJam(call[t].msg)
  /\ recvQ' = {}
  /\ Leave(t, "sent")
  /\ UNCHANGED sendQ

ReceiveMessage_WakesReceivers(t) ==
  /\ call[t].op = "receive" /\ ~Asleep(t) /\ ~MsgQueueIsEmpty
  /\ MsgQueueDequeue
  /\ recvQ' = {}
  /\ Leave(t, Dequeued)
  /\ UNCHANGED sendQ

\* The queue has a message: take it, wake every sender, return it.
ReceiveMessage(t) ==
  /\ call[t].op = "receive" /\ ~Asleep(t) /\ ~MsgQueueIsEmpty
  /\ MsgQueueDequeue
  /\ sendQ' = {}
  /\ Leave(t, Dequeued)
  /\ UNCHANGED recvQ

\* The queue is not in the shape the call needs.
NotReady(t) == IF Sends(t) THEN MsgQueueIsFull ELSE MsgQueueIsEmpty

RefuseCall_IgnoresFlag(t) ==
  /\ Inside(t) /\ ~Asleep(t) /\ NotReady(t)
  /\ Leave(t, IF Sends(t) THEN "full" ELSE "empty")
  /\ UNCHANGED <<ring, sendQ, recvQ>>

RefuseCall(t) ==
  /\ Inside(t) /\ ~Asleep(t) /\ NotReady(t) /\ ~call[t].block
  /\ Leave(t, IF Sends(t) THEN "full" ELSE "empty")
  /\ UNCHANGED <<ring, sendQ, recvQ>>

BlockCaller(t) ==
  /\ Inside(t) /\ ~Asleep(t) /\ NotReady(t) /\ call[t].block
  /\ sendQ' = IF Sends(t) THEN sendQ \cup {t} ELSE sendQ
  /\ recvQ' = IF Sends(t) THEN recvQ ELSE recvQ \cup {t}
  /\ UNCHANGED <<ring, call, result>>

\* OSInitMessageQueue, called again on a queue no thread uses.
InitMessageQueue ==
  /\ \A t \in Callers : ~Inside(t)
  /\ first' = 0
  /\ used'  = 0
  /\ sendQ' = {}
  /\ recvQ' = {}
  /\ UNCHANGED <<slots, call, result>>

\* One round of MsgQueueOp's loop on thread t.
MsgQueueOp(t) ==
  \/ SendMessage(t)
  \/ JamMessage(t)
  \/ ReceiveMessage(t)
  \/ RefuseCall(t)
  \/ BlockCaller(t)

Next ==
  \/ \E t \in Callers : \/ \E c \in CallSet : Enter(t, c)
                        \/ MsgQueueOp(t)
  \/ InitMessageQueue

Spec == Init /\ [][Next]_vars

\* The scheduler never idles while a caller is ready to run.
SomeCallerRuns == \E t \in Callers : MsgQueueOp(t)
FairSpec == Spec /\ WF_vars(SomeCallerRuns)

-----------------------------------------------------------------------------
\* Every field holds a value the code can store there; the indices stay inside
\* the message array.
TypeOK ==
  /\ slots  \in [Indices -> Messages \cup {Zero}]
  /\ first  \in IF Count = 0 THEN {0} ELSE Indices
  /\ used   \in 0 .. Count
  /\ sendQ  \in SUBSET Callers
  /\ recvQ  \in SUBSET Callers
  /\ call   \in [Callers -> CallSet \cup {NoCall}]
  /\ result \in [Callers -> Results]

\* No lost wake-up: whoever sleeps on the receive queue finds the ring empty
\* and whoever sleeps on the send queue finds it full, so nobody sleeps while
\* the call it sleeps in could proceed, and nobody sleeps on both.
NoLostWakeup ==
  /\ recvQ # {} => used = 0
  /\ sendQ # {} => used = Count /\ Count # 0
  /\ \A t \in recvQ : call[t].op = "receive" /\ call[t].block
  /\ \A t \in sendQ : Sends(t) /\ call[t].block

\* The ring read from the first index: the messages in the order they leave.
Contents == [i \in 1 .. used |-> slots[(first + (i - 1)) % Count]]

Deque == INSTANCE BoundedDeque WITH Capacity <- Count, deque <- Contents

\* The ring with its blocking calls implements the bounded deque: no message is
\* lost, duplicated or reordered by wrap-around, jamming below index 0 or by
\* callers that sleep and retry.
RefinesDeque == Deque!Spec

\* No caller polls: every call under way may sleep.
AllBlock == \A t \in Callers : Inside(t) => call[t].block

\* Once nobody polls any more, blocked callers do not keep each other asleep: a
\* full ring with a receiver inside its call gets room, and an empty one with a
\* sender inside its call gets a message, through any number of sleeps and retries.
BlockedCallsProceed ==
  <>[]AllBlock =>
    /\ (used = Count /\ \E t \in Callers : call[t].op = "receive") ~> (used < Count)
    /\ (used = 0 /\ \E t \in Callers : Sends(t)) ~> (used > 0)
=============================================================================
