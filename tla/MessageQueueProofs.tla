------------------------- MODULE MessageQueueProofs -------------------------
(***************************************************************************)
(* Proofs about MessageQueue, for every capacity, thread set and message set.*)
(***************************************************************************)
EXTENDS MessageQueue, SequenceTheorems, TLAPS

-----------------------------------------------------------------------------
\* The ring indices stay inside the message array and no count leaves its
\* range, whatever calls the threads make and however they sleep and retry.
THEOREM TypeCorrect == Spec => []TypeOK
<1> USE CountOK, FlagsOK
<1>1. Init => TypeOK
  BY DEF Init, TypeOK, Indices, NoCall, Results
<1>2. TypeOK /\ [Next]_vars => TypeOK'
  <2> SUFFICES ASSUME TypeOK, [Next]_vars PROVE TypeOK'
    OBVIOUS
  <2> USE DEF TypeOK, ring
  <2>0. /\ first \in Nat /\ used \in Nat /\ used <= Count
        /\ Count # 0 => first < Count
    BY DEF Indices
  <2>1. CASE UNCHANGED vars
    BY <2>1 DEF vars
  <2>2. ASSUME NEW t \in Callers, NEW c \in CallSet, Enter(t, c) PROVE TypeOK'
    <3>1. call' \in [Callers -> CallSet \cup {NoCall}]
      BY <2>2 DEF Enter
    <3>2. result' \in [Callers -> Results]
      BY <2>2 DEF Enter, Results
    <3> QED BY <2>2, <3>1, <3>2 DEF Enter
  <2>3. ASSUME NEW t \in Callers, SendMessage(t) PROVE TypeOK'
    <3>1. call[t] \in CallSet /\ call[t].msg \in Messages
      BY <2>3 DEF SendMessage, CallSet, NoCall
    <3>2. Count # 0 => (first + used) % Count \in Indices
      BY <2>0, Z3 DEF Indices
    <3>3. slots' \in [Indices -> Messages \cup {Zero}]
      BY <2>3, <3>1, <3>2 DEF SendMessage, MsgQueueEnqueue
    <3>4. first' = first /\ used' \in 0 .. Count
      BY <2>3, <2>0 DEF SendMessage, MsgQueueEnqueue, MsgQueueIsFull
    <3>5. call' \in [Callers -> CallSet \cup {NoCall}] /\ result' \in [Callers -> Results]
      BY <2>3 DEF SendMessage, Leave, Results
    <3> QED BY <2>3, <3>3, <3>4, <3>5 DEF SendMessage
  <2>4. ASSUME NEW t \in Callers, JamMessage(t) PROVE TypeOK'
    <3>1. call[t] \in CallSet /\ call[t].msg \in Messages
      BY <2>4 DEF JamMessage, CallSet, NoCall
    <3>2. /\ first' \in IF Count = 0 THEN {0} ELSE Indices
          /\ used' \in 0 .. Count
      BY <2>4, <2>0 DEF JamMessage, MsgQueueJam, MsgQueueIsFull, Indices
    <3>3. slots' \in [Indices -> Messages \cup {Zero}]
      BY <2>4, <3>1, <3>2, <2>0 DEF JamMessage, MsgQueueJam
    <3>5. call' \in [Callers -> CallSet \cup {NoCall}] /\ result' \in [Callers -> Results]
      BY <2>4 DEF JamMessage, Leave, Results
    <3> QED BY <2>4, <3>2, <3>3, <3>5 DEF JamMessage
  <2>5. ASSUME NEW t \in Callers, ReceiveMessage(t) PROVE TypeOK'
    <3>1. Dequeued \in Results
      BY <2>0 DEF Dequeued, Results, Indices
    <3>2. Count # 0 => (first + 1) % Count \in Indices
      BY <2>0, Z3 DEF Indices
    <3>3. /\ first' \in IF Count = 0 THEN {0} ELSE Indices
          /\ used' \in 0 .. Count
          /\ slots' = slots
      BY <2>5, <2>0, <3>2 DEF ReceiveMessage, MsgQueueDequeue
    <3>5. call' \in [Callers -> CallSet \cup {NoCall}] /\ result' \in [Callers -> Results]
      BY <2>5, <3>1 DEF ReceiveMessage, Leave
    <3> QED BY <2>5, <3>3, <3>5 DEF ReceiveMessage
  <2>6. ASSUME NEW t \in Callers, RefuseCall(t) PROVE TypeOK'
    BY <2>6 DEF RefuseCall, Leave, Results
  <2>7. ASSUME NEW t \in Callers, BlockCaller(t) PROVE TypeOK'
    BY <2>7 DEF BlockCaller
  <2>8. CASE InitMessageQueue
    BY <2>8 DEF InitMessageQueue, Indices
  <2> QED
    BY <2>1, <2>2, <2>3, <2>4, <2>5, <2>6, <2>7, <2>8 DEF Next, MsgQueueOp
<1> QED BY <1>1, <1>2, PTL DEF Spec

-----------------------------------------------------------------------------
\* Nobody sleeps while the call it sleeps in could proceed: the rounds of
\* MsgQueueOp's loop lose no wake-up.
THEOREM WakeupsKept == Spec => []NoLostWakeup
<1> USE CountOK, FlagsOK
<1>1. Init => NoLostWakeup
  BY DEF Init, NoLostWakeup
<1>2. TypeOK /\ NoLostWakeup /\ [Next]_vars => NoLostWakeup'
  <2> SUFFICES ASSUME TypeOK, NoLostWakeup, [Next]_vars PROVE NoLostWakeup'
    OBVIOUS
  <2> USE DEF NoLostWakeup, ring, Sends, Inside, Asleep
  <2>0. /\ used \in Nat /\ used <= Count
        /\ call \in [Callers -> CallSet \cup {NoCall}]
        /\ sendQ \subseteq Callers /\ recvQ \subseteq Callers
    BY DEF TypeOK
  <2>1. CASE UNCHANGED vars
    BY <2>1 DEF vars
  <2>2. ASSUME NEW t \in Callers, NEW c \in CallSet, Enter(t, c) PROVE NoLostWakeup'
    <3>1. t \notin sendQ /\ t \notin recvQ
      BY <2>2 DEF Enter
    <3> QED BY <2>0, <2>2, <3>1 DEF Enter
  <2>3. ASSUME NEW t \in Callers, SendMessage(t) PROVE NoLostWakeup'
    <3>1. sendQ' = {}
      BY <2>0, <2>3 DEF SendMessage, MsgQueueIsFull
    <3> QED BY <2>3, <3>1 DEF SendMessage
  <2>4. ASSUME NEW t \in Callers, JamMessage(t) PROVE NoLostWakeup'
    <3>1. sendQ' = {}
      BY <2>0, <2>4 DEF JamMessage, MsgQueueIsFull
    <3> QED BY <2>4, <3>1 DEF JamMessage
  <2>5. ASSUME NEW t \in Callers, ReceiveMessage(t) PROVE NoLostWakeup'
    <3>1. recvQ' = {}
      BY <2>0, <2>5 DEF ReceiveMessage, MsgQueueIsEmpty
    <3> QED BY <2>5, <3>1 DEF ReceiveMessage
  <2>6. ASSUME NEW t \in Callers, RefuseCall(t) PROVE NoLostWakeup'
    BY <2>0, <2>6 DEF RefuseCall, Leave
  <2>7. ASSUME NEW t \in Callers, BlockCaller(t) PROVE NoLostWakeup'
    <3> USE <2>0, <2>7 DEF BlockCaller, NotReady
    <3>1. call[t].op \in {"send", "jam", "receive"}
      BY DEF CallSet, NoCall
    <3>2. CASE Sends(t)
      BY <3>2 DEF MsgQueueIsFull
    <3>3. CASE ~Sends(t)
      BY <3>1, <3>3 DEF MsgQueueIsEmpty
    <3> QED BY <3>2, <3>3
  <2>8. CASE InitMessageQueue
    BY <2>8 DEF InitMessageQueue
  <2> QED
    BY <2>1, <2>2, <2>3, <2>4, <2>5, <2>6, <2>7, <2>8 DEF Next, MsgQueueOp
<1> QED BY <1>1, <1>2, TypeCorrect, PTL DEF Spec

-----------------------------------------------------------------------------
(* The refinement.                                                          *)

\* The slot k places after slot f, as the code computes it.
LEMMA SlotOf ==
  ASSUME Count # 0, NEW f \in Indices, NEW k \in 0 .. Count - 1
  PROVE  /\ (f + k) % Count \in Indices
         /\ (f + k) % Count = IF f + k < Count THEN f + k ELSE f + k - Count
<1> USE CountOK
<1>1. f \in Nat /\ k \in Nat /\ f + k < 2 * Count
  BY DEF Indices
<1>2. Count \in Nat \ {0}
  OBVIOUS
<1>3. (f + k) % Count = IF f + k < Count THEN f + k ELSE f + k - Count
  <2>1. CASE f + k < Count    BY <1>1, <1>2, <2>1, Z3
  <2>2. CASE ~(f + k < Count) BY <1>1, <1>2, <2>2, Z3
  <2> QED BY <2>1, <2>2
<1>4. (f + k) % Count \in Indices
  BY <1>1, <1>3 DEF Indices
<1> QED BY <1>3, <1>4

\* The abstract deque has as many messages as the ring counts, before a step.
LEMMA ContentsIsSeq ==
  ASSUME TypeOK
  PROVE  /\ Contents \in Seq(Messages \cup {Zero})
         /\ Len(Contents) = used
         /\ Contents = <<>> <=> used = 0
<1> USE CountOK DEF TypeOK
<1>1. \A i \in 1 .. used : slots[(first + (i - 1)) % Count] \in Messages \cup {Zero}
  <2> TAKE i \in 1 .. used
  <2>1. Count # 0 /\ first \in Indices /\ i - 1 \in 0 .. Count - 1
    OBVIOUS
  <2> QED BY <2>1, SlotOf
<1> QED BY <1>1 DEF Contents

\* The abstract deque has as many messages as the ring counts, and after it.
LEMMA ContentsIsSeqNext ==
  ASSUME TypeOK'
  PROVE  /\ Contents' \in Seq(Messages \cup {Zero})
         /\ Len(Contents') = used'
         /\ Contents' = <<>> <=> used' = 0
<1> USE CountOK DEF TypeOK
<1>1. \A i \in 1 .. used' : slots'[(first' + (i - 1)) % Count] \in Messages \cup {Zero}
  <2> TAKE i \in 1 .. used'
  <2>1. Count # 0 /\ first' \in Indices /\ i - 1 \in 0 .. Count - 1
    OBVIOUS
  <2> QED BY <2>1, SlotOf
<1>2. used' \in Nat /\ Contents' = [i \in 1 .. used' |-> slots'[(first' + (i - 1)) % Count]]
  BY DEF Contents
<1> HIDE DEF TypeOK
<1> QED BY <1>1, <1>2

\* Enqueue appends to the deque.
LEMMA EnqueueAppends ==
  ASSUME TypeOK, TypeOK', Count # 0, used < Count, NEW m \in Messages, MsgQueueEnqueue(m)
  PROVE  Contents' = Append(Contents, m)
<1> DEFINE S == Messages \cup {Zero}
<1> USE CountOK
<1>1. first' = first /\ used' = used + 1 /\ slots' = [slots EXCEPT ![(first + used) % Count] = m]
  BY DEF MsgQueueEnqueue
<1>2. first \in Indices /\ used \in 0 .. Count - 1 /\ slots \in [Indices -> S]
  BY DEF TypeOK
<1>3. /\ (first + used) % Count \in Indices
      /\ (first + used) % Count = IF first + used < Count THEN first + used ELSE first + used - Count
  BY <1>2, SlotOf
<1>4. ASSUME NEW i \in 1 .. used
      PROVE  slots'[(first + (i - 1)) % Count] = slots[(first + (i - 1)) % Count]
  <2>1. i - 1 \in 0 .. Count - 1
    BY <1>2
  <2>2. /\ (first + (i - 1)) % Count \in Indices
        /\ (first + (i - 1)) % Count
              = IF first + (i - 1) < Count THEN first + (i - 1) ELSE first + (i - 1) - Count
    BY <1>2, <2>1, SlotOf
  <2>3. (first + (i - 1)) % Count # (first + used) % Count
    BY <1>2, <1>3, <2>2 DEF Indices
  <2> QED BY <1>1, <1>2, <1>3, <2>2, <2>3
<1>5. slots'[(first + used) % Count] = m
  BY <1>1, <1>2, <1>3
<1>6. /\ Contents \in Seq(S) /\ Len(Contents) = used
      /\ Contents' \in Seq(S) /\ Len(Contents') = used + 1
  BY <1>1, ContentsIsSeq, ContentsIsSeqNext
<1>7. /\ \A i \in 1 .. used : Contents'[i] = Contents[i]
      /\ Contents'[used + 1] = m
  <2>1. used + 1 \in 1 .. used + 1 /\ (used + 1) - 1 = used /\ \A i \in 1 .. used : i \in 1 .. used + 1
    BY <1>2
  <2> QED BY <1>1, <1>4, <1>5, <2>1 DEF Contents
<1>8. /\ Append(Contents, m) \in Seq(S) /\ Len(Append(Contents, m)) = used + 1
      /\ \A i \in 1 .. used : Append(Contents, m)[i] = Contents[i]
      /\ Append(Contents, m)[used + 1] = m
  BY <1>6, AppendProperties
<1>9. \A i \in 1 .. used + 1 : Contents'[i] = Append(Contents, m)[i]
  BY <1>2, <1>7, <1>8
<1> HIDE DEF S
<1> QED BY <1>6, <1>8, <1>9, SeqEqual

\* Jam prepends to the deque, below index 0 too.
LEMMA JamPrepends ==
  ASSUME TypeOK, TypeOK', Count # 0, used < Count, NEW m \in Messages, MsgQueueJam(m)
  PROVE  Contents' = <<m>> \o Contents
<1> DEFINE S == Messages \cup {Zero}
<1> DEFINE f == IF first = 0 THEN Count - 1 ELSE first - 1
<1> USE CountOK
<1>1. first' = f /\ used' = used + 1 /\ slots' = [slots EXCEPT ![f] = m]
  BY DEF MsgQueueJam
<1>2. /\ first \in Indices /\ used \in 0 .. Count - 1 /\ slots \in [Indices -> S]
      /\ f \in Indices
  BY DEF TypeOK, Indices
<1>3. ASSUME NEW i \in 1 .. used
      PROVE  slots'[(f + i) % Count] = slots[(first + (i - 1)) % Count]
  <2>1. i - 1 \in 0 .. Count - 1 /\ i \in 0 .. Count - 1
    BY <1>2
  <2>2. /\ (first + (i - 1)) % Count \in Indices
        /\ (first + (i - 1)) % Count
              = IF first + (i - 1) < Count THEN first + (i - 1) ELSE first + (i - 1) - Count
    BY <1>2, <2>1, SlotOf
  <2>3. (f + i) % Count = IF f + i < Count THEN f + i ELSE f + i - Count
    <3> HIDE DEF f
    <3> QED BY <1>2, <2>1, SlotOf
  <2>4. (f + i) % Count = (first + (i - 1)) % Count /\ (f + i) % Count # f
    BY <1>2, <2>1, <2>2, <2>3 DEF Indices
  <2> QED BY <1>1, <1>2, <2>2, <2>4
<1> HIDE DEF f
<1>4. slots'[(f + 0) % Count] = m
  <2>1. (f + 0) % Count = IF f + 0 < Count THEN f + 0 ELSE f + 0 - Count
    <3>1. 0 \in 0 .. Count - 1
      BY <1>2
    <3> QED BY <1>2, <3>1, SlotOf
  <2>2. (f + 0) % Count = f
    BY <1>2, <2>1 DEF Indices
  <2> QED BY <1>1, <1>2, <2>2
<1>5. /\ Contents \in Seq(S) /\ Len(Contents) = used
      /\ Contents' \in Seq(S) /\ Len(Contents') = used + 1
  BY <1>1, ContentsIsSeq, ContentsIsSeqNext
<1>6. /\ \A i \in 1 .. used : Contents'[i + 1] = Contents[i]
      /\ Contents'[1] = m
  <2>1. \A i \in 1 .. used : i + 1 \in 1 .. used + 1 /\ (i + 1) - 1 = i
    BY <1>2
  <2>2. 1 \in 1 .. used + 1 /\ 1 - 1 = 0
    BY <1>2
  <2> QED BY <1>1, <1>3, <1>4, <2>1, <2>2 DEF Contents
<1>7. <<m>> \in Seq(S) /\ Len(<<m>>) = 1 /\ <<m>>[1] = m
  OBVIOUS
<1>8. /\ <<m>> \o Contents \in Seq(S)
      /\ Len(<<m>> \o Contents) = 1 + used
      /\ \A i \in 1 .. 1 + used :
            (<<m>> \o Contents)[i] = IF i <= 1 THEN <<m>>[i] ELSE Contents[i - 1]
  BY <1>5, <1>7, ConcatProperties
<1>9. ASSUME NEW i \in 1 .. used + 1 PROVE Contents'[i] = (<<m>> \o Contents)[i]
  <2>1. CASE i = 1
    BY <1>2, <1>6, <1>7, <1>8, <2>1
  <2>2. CASE i # 1
    <3>1. i - 1 \in 1 .. used /\ (i - 1) + 1 = i /\ ~(i <= 1) /\ i \in 1 .. 1 + used
      BY <1>2, <2>2
    <3>2. Contents'[i] = Contents[i - 1]
      BY <1>6, <3>1
    <3> QED BY <1>8, <3>1, <3>2
  <2> QED BY <2>1, <2>2
<1> HIDE DEF S
<1>10. Len(<<m>> \o Contents) = used + 1
  BY <1>2, <1>8
<1> QED BY <1>5, <1>8, <1>9, <1>10, SeqEqual

\* Dequeue takes the first message of the deque.
LEMMA DequeueTakesHead ==
  ASSUME TypeOK, TypeOK', used # 0, MsgQueueDequeue
  PROVE  /\ Contents # <<>>
         /\ Contents' = Tail(Contents)
         /\ Dequeued = Head(Contents)
<1> DEFINE S == Messages \cup {Zero}
<1> USE CountOK
<1>1. Count # 0 /\ first \in Indices /\ used \in 1 .. Count
  BY DEF TypeOK
<1>2. first' = (first + 1) % Count /\ used' = used - 1 /\ slots' = slots
  BY <1>1 DEF MsgQueueDequeue
<1>3. first' = IF first + 1 < Count THEN first + 1 ELSE first + 1 - Count
  <2>1. CASE Count = 1
    <3>1. first = 0
      BY <1>1, <2>1 DEF Indices
    <3>2. 1 % 1 = 0
      OBVIOUS
    <3> QED BY <1>2, <2>1, <3>1, <3>2
  <2>2. CASE Count # 1
    <3>1. 1 \in 0 .. Count - 1
      BY <1>1, <2>2
    <3> QED BY <1>1, <1>2, <3>1, SlotOf
  <2> QED BY <2>1, <2>2
<1>4. first' \in Indices
  BY <1>1, <1>3 DEF Indices
<1>5. ASSUME NEW i \in 1 .. used - 1
      PROVE  (first' + (i - 1)) % Count = (first + i) % Count
  <2>1. i - 1 \in 0 .. Count - 1 /\ i \in 0 .. Count - 1
    BY <1>1
  <2>2. (first' + (i - 1)) % Count
          = IF first' + (i - 1) < Count THEN first' + (i - 1) ELSE first' + (i - 1) - Count
    BY <1>1, <1>4, <2>1, SlotOf
  <2>3. (first + i) % Count = IF first + i < Count THEN first + i ELSE first + i - Count
    BY <1>1, <2>1, SlotOf
  <2> QED BY <1>1, <1>3, <2>1, <2>2, <2>3 DEF Indices
<1>6. /\ Contents \in Seq(S) /\ Len(Contents) = used /\ Contents # <<>>
      /\ Contents' \in Seq(S) /\ Len(Contents') = used - 1
  BY <1>1, <1>2, ContentsIsSeq, ContentsIsSeqNext
<1>7. /\ Tail(Contents) \in Seq(S) /\ Len(Tail(Contents)) = used - 1
      /\ \A i \in 1 .. used - 1 : Tail(Contents)[i] = Contents[i + 1]
  BY <1>6, HeadTailProperties
<1>8. ASSUME NEW i \in 1 .. used - 1 PROVE Contents'[i] = Tail(Contents)[i]
  <2>1. i + 1 \in 1 .. used /\ (i + 1) - 1 = i
    BY <1>1
  <2>2. Contents'[i] = slots[(first' + (i - 1)) % Count]
    BY <1>2 DEF Contents
  <2>3. Contents[i + 1] = slots[(first + i) % Count]
    BY <2>1 DEF Contents
  <2> QED BY <1>5, <1>7, <2>2, <2>3
<1>9. Dequeued = Head(Contents)
  <2>1. (first + 0) % Count = first
    <3>1. 0 \in 0 .. Count - 1
      BY <1>1
    <3>2. (first + 0) % Count = IF first + 0 < Count THEN first + 0 ELSE first + 0 - Count
      BY <1>1, <3>1, SlotOf
    <3> QED BY <1>1, <3>2 DEF Indices
  <2>2. 1 \in 1 .. used /\ 1 - 1 = 0
    BY <1>1
  <2>3. Contents[1] = slots[first]
    BY <2>1, <2>2 DEF Contents
  <2> QED BY <1>1, <1>6, <2>3 DEF Dequeued
<1> HIDE DEF S
<1> QED BY <1>6, <1>7, <1>8, <1>9, SeqEqual

\* OSMessageQueue implements the bounded deque, for every capacity (zero too),
\* thread set and message set: wrap-around, jamming below index 0 and callers
\* that sleep and retry lose, duplicate and reorder nothing.
THEOREM RingImplementsDeque == Spec => RefinesDeque
<1> USE CountOK, FlagsOK
<1>1. Init => Deque!Init
  BY DEF Init, Deque!Init, Contents
<1>2. TypeOK /\ TypeOK' /\ [Next]_vars => [Deque!Next]_(Deque!dequeVars)
  <2> SUFFICES ASSUME TypeOK, TypeOK', [Next]_vars
               PROVE  Deque!Next \/ UNCHANGED <<Contents, result>>
    BY DEF Deque!dequeVars
  <2> USE DEF ring
  <2>0. /\ used \in Nat /\ used <= Count
        /\ Len(Contents) = used /\ (Contents = <<>> <=> used = 0)
    BY ContentsIsSeq DEF TypeOK
  <2>1. CASE UNCHANGED vars
    BY <2>1 DEF vars, Contents
  <2>2. ASSUME NEW t \in Callers, NEW c \in CallSet, Enter(t, c)
        PROVE  Deque!Begin(t)
    BY <2>2 DEF Enter, Contents, Deque!Begin, Deque!Returns
  <2>3. ASSUME NEW t \in Callers, SendMessage(t)
        PROVE  \E m \in Messages : Deque!Send(t, m)
    <3>1. call[t].msg \in Messages
      BY <2>3 DEF TypeOK, SendMessage, CallSet, NoCall
    <3>2. CASE Count = 0
      BY <2>3, <3>1, <3>2
      DEF SendMessage, MsgQueueEnqueue, Leave, Contents, Deque!Send, Deque!HasRoom, Deque!Returns
    <3>3. CASE Count # 0
      <4>1. used < Count /\ MsgQueueEnqueue(call[t].msg)
        BY <2>0, <2>3, <3>3 DEF SendMessage, MsgQueueIsFull
      <4>2. Contents' = Append(Contents, call[t].msg)
        BY <3>1, <3>3, <4>1, EnqueueAppends
      <4> QED BY <2>0, <2>3, <3>1, <3>3, <4>1, <4>2
          DEF SendMessage, Leave, Deque!Send, Deque!HasRoom, Deque!Returns
    <3> QED BY <3>2, <3>3
  <2>4. ASSUME NEW t \in Callers, JamMessage(t)
        PROVE  \E m \in Messages : Deque!Jam(t, m)
    <3>1. call[t].msg \in Messages
      BY <2>4 DEF TypeOK, JamMessage, CallSet, NoCall
    <3>2. CASE Count = 0
      BY <2>4, <3>1, <3>2
      DEF JamMessage, MsgQueueJam, Leave, Contents, Deque!Jam, Deque!HasRoom, Deque!Returns
    <3>3. CASE Count # 0
      <4>1. used < Count /\ MsgQueueJam(call[t].msg)
        BY <2>0, <2>4, <3>3 DEF JamMessage, MsgQueueIsFull
      <4>2. Contents' = <<call[t].msg>> \o Contents
        BY <3>1, <3>3, <4>1, JamPrepends
      <4> QED BY <2>0, <2>4, <3>1, <3>3, <4>1, <4>2
          DEF JamMessage, Leave, Deque!Jam, Deque!HasRoom, Deque!Returns
    <3> QED BY <3>2, <3>3
  <2>5. ASSUME NEW t \in Callers, ReceiveMessage(t) PROVE Deque!Receive(t)
    <3>1. used # 0 /\ MsgQueueDequeue
      BY <2>5 DEF ReceiveMessage, MsgQueueIsEmpty
    <3>2. /\ Contents # <<>>
          /\ Contents' = Tail(Contents)
          /\ Dequeued = Head(Contents)
      BY <3>1, DequeueTakesHead
    <3> QED BY <2>5, <3>2 DEF ReceiveMessage, Leave, Deque!Receive, Deque!Returns
  <2>6. ASSUME NEW t \in Callers, RefuseCall(t)
        PROVE  Deque!RefuseSend(t) \/ Deque!RefuseReceive(t)
    <3>1. Contents' = Contents
      BY <2>6 DEF RefuseCall, Contents
    <3>2. CASE Sends(t)
      <4>1. Count # 0 /\ used >= Count
        BY <2>6, <3>2 DEF RefuseCall, NotReady, MsgQueueIsFull
      <4> QED BY <2>0, <2>6, <3>1, <3>2, <4>1
          DEF RefuseCall, Leave, Deque!RefuseSend, Deque!HasRoom, Deque!Returns
    <3>3. CASE ~Sends(t)
      BY <2>0, <2>6, <3>1, <3>3
      DEF RefuseCall, NotReady, MsgQueueIsEmpty, Leave, Deque!RefuseReceive, Deque!Returns
    <3> QED BY <3>2, <3>3
  <2>7. ASSUME NEW t \in Callers, BlockCaller(t) PROVE UNCHANGED <<Contents, result>>
    BY <2>7 DEF BlockCaller, Contents
  <2>8. CASE InitMessageQueue
    <3>1. Contents' = <<>>
      BY <2>8, ContentsIsSeqNext DEF InitMessageQueue
    <3> QED BY <2>8, <3>1 DEF InitMessageQueue, Deque!Next, Deque!Reset
  <2> QED
    BY <2>1, <2>2, <2>3, <2>4, <2>5, <2>6, <2>7, <2>8 DEF Next, MsgQueueOp, Deque!Next
<1> QED BY <1>1, <1>2, TypeCorrect, PTL DEF Spec, RefinesDeque, Deque!Spec
=============================================================================
