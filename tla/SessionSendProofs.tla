------------------------- MODULE SessionSendProofs -------------------------
(***************************************************************************)
(* Proofs about SessionSend for any number of threads and messages: the    *)
(* one SendEvent has one user at a time, with or without serial senders;   *)
(* what was queued reaches the socket in order; and, when the senders are  *)
(* serial, nothing is stranded and _sendQueue is never used by two threads *)
(* at once, although RegisterSend does not take the lock.                  *)
(***************************************************************************)
EXTENDS SessionSend, SequenceTheorems, FiniteSetTheorems, TLAPS

\* A thread that has the right to use the SendEvent.
Sends(t) == pc[t] \in {"register", "draining", "wsasend", "fail", "completed"}

\* A thread in Send, before and after it gets the lock.
Pushes(t) == pc[t] \in {"lock", "pushing"}

\* What Owners says, without cardinalities: one sender, or the kernel, and the flag set.
OneSender ==
    /\ \A t, u \in Threads : Sends(t) /\ Sends(u) => t = u
    /\ \A t \in Threads : Sends(t) => ~pending /\ registered
    /\ pending => registered

\* A Send has its argument until it is pushed; a failure is remembered.
SendShape ==
    \A t \in Threads :
        /\ Pushes(t) => message[t] \in Messages
        /\ pc[t] = "fail" => failed

SendInv == TypeOK /\ OneSender /\ SendShape /\ StreamExact

\* Every step keeps the types, and the arguments of Send where they are needed.
LEMMA SendTypes ==
    ASSUME TypeOK, SendShape, [Next]_sendVars
    PROVE  TypeOK' /\ SendShape'
<1> USE DEF TypeOK, SendShape, Pushes, threadVars, historyVars, Goto, Return
<1>0. <<>> \in Seq(Messages)
  OBVIOUS
<1>1. CASE UNCHANGED sendVars
  BY <1>1 DEF sendVars
<1>2. ASSUME NEW t \in Senders, NEW m \in Messages, Send(t, m)
      PROVE  TypeOK' /\ SendShape'
  BY <1>2 DEF Send, Threads
<1>3. ASSUME NEW t \in Threads, LockToPush(t)
      PROVE  TypeOK' /\ SendShape'
  BY <1>3 DEF LockToPush
<1>4. ASSUME NEW t \in Threads, Push(t)
      PROVE  TypeOK' /\ SendShape'
  <2>1. message[t] \in Messages
    BY <1>4 DEF Push
  <2>2. sendQueue' \in Seq(Messages) /\ pushed' \in Seq(Messages)
    BY <1>4, <2>1 DEF Push
  <2>3. pc' \in [Threads -> {"idle", "lock", "pushing", "register", "draining",
                             "wsasend", "fail", "completed"}]
    BY <1>4 DEF Push
  <2>4. lock' = NoThread /\ registered' = TRUE /\ UNCHANGED <<connected, event, pending, wire, failed>>
    BY <1>4 DEF Push
  <2>5. message' \in [Threads -> Messages \cup {NoMessage}]
    BY <1>4 DEF Push
  <2>6. TypeOK'
    BY <2>2, <2>3, <2>4, <2>5
  <2>7. SendShape'
    BY <1>4 DEF Push
  <2> QED
    BY <2>6, <2>7
<1>5. ASSUME NEW t \in Threads, RegisterSend(t)
      PROVE  TypeOK' /\ SendShape'
  BY <1>5 DEF RegisterSend
<1>6. ASSUME NEW t \in Threads, Drain(t)
      PROVE  TypeOK' /\ SendShape'
  BY <1>6 DEF Drain
<1>7. ASSUME NEW t \in Threads, EndDrain(t)
      PROVE  TypeOK' /\ SendShape'
  BY <1>7 DEF EndDrain
<1>8. ASSUME NEW t \in Threads, WSASend(t) \/ FailCleanup(t)
      PROVE  TypeOK' /\ SendShape'
  <2>1. CASE WSASend(t)
    BY <2>1 DEF WSASend
  <2>2. CASE FailCleanup(t)
    BY <1>0, <2>2 DEF FailCleanup
  <2> QED
    BY <1>8, <2>1, <2>2
<1>9. ASSUME NEW t \in Threads, WSASendFails(t)
      PROVE  TypeOK' /\ SendShape'
  BY <1>9 DEF WSASendFails
<1>10. ASSUME NEW t \in Threads, LockToFinish(t)
       PROVE  TypeOK' /\ SendShape'
  BY <1>10 DEF LockToFinish
<1>11. ASSUME NEW t \in Workers, ProcessSend(t) \/ ProcessSend0(t)
       PROVE  TypeOK' /\ SendShape'
  <2>1. CASE ProcessSend(t)
    <3>1. wire \o event \in Seq(Messages)
      BY ConcatProperties
    <3> QED
      BY <1>0, <2>1, <3>1 DEF ProcessSend, Threads
  <2>2. CASE ProcessSend0(t)
    BY <1>0, <2>2 DEF ProcessSend0, Threads
  <2> QED
    BY <1>11, <2>1, <2>2
<1>12. CASE Disconnect
  BY <1>12 DEF Disconnect
<1> QED
  BY <1>1, <1>2, <1>3, <1>4, <1>5, <1>6, <1>7, <1>8, <1>9, <1>10, <1>11, <1>12
  DEF Next, ThreadStep

-----------------------------------------------------------------------------
(* One send at a time *)

\* Whoever gets the right to send got it from nobody (Push, by the exchange), from the
\* kernel (ProcessSend) or keeps it.
LEMMA SenderStep ==
    ASSUME TypeOK, OneSender, [Next]_sendVars
    PROVE  OneSender'
<1> USE DEF OneSender, Sends, TypeOK, threadVars, historyVars, Goto, Return
<1>1. CASE UNCHANGED sendVars
  BY <1>1 DEF sendVars
<1>2. ASSUME NEW t \in Senders, NEW m \in Messages, Send(t, m)
      PROVE  OneSender'
  BY <1>2 DEF Send, Threads
<1>3. ASSUME NEW t \in Threads, LockToPush(t)
      PROVE  OneSender'
  BY <1>3 DEF LockToPush
<1>4. ASSUME NEW t \in Threads, Push(t)
      PROVE  OneSender'
  BY <1>4 DEF Push
<1>5. ASSUME NEW t \in Threads, RegisterSend(t)
      PROVE  OneSender'
  BY <1>5 DEF RegisterSend
<1>6. ASSUME NEW t \in Threads, Drain(t) \/ EndDrain(t)
      PROVE  OneSender'
  BY <1>6 DEF Drain, EndDrain
<1>7. ASSUME NEW t \in Threads, WSASend(t)
      PROVE  OneSender'
  BY <1>7 DEF WSASend
<1>8. ASSUME NEW t \in Threads, WSASendFails(t) \/ FailCleanup(t)
      PROVE  OneSender'
  <2>1. CASE WSASendFails(t)
    BY <2>1 DEF WSASendFails
  <2>2. CASE FailCleanup(t)
    BY <2>2 DEF FailCleanup
  <2> QED
    BY <1>8, <2>1, <2>2
<1>9. ASSUME NEW t \in Threads, LockToFinish(t)
      PROVE  OneSender'
  <2>1. CASE sendQueue = <<>>
    BY <1>9, <2>1 DEF LockToFinish
  <2>2. CASE sendQueue # <<>>
    BY <1>9, <2>2 DEF LockToFinish
  <2> QED
    BY <2>1, <2>2
<1>10. ASSUME NEW t \in Workers, ProcessSend(t)
       PROVE  OneSender'
  BY <1>10 DEF ProcessSend, Threads
<1>11. ASSUME NEW t \in Workers, ProcessSend0(t)
       PROVE  OneSender'
  BY <1>11 DEF ProcessSend0, Threads
<1>12. CASE Disconnect
  BY <1>12 DEF Disconnect
<1> QED
  BY <1>1, <1>2, <1>3, <1>4, <1>5, <1>6, <1>7, <1>8, <1>9, <1>10, <1>11, <1>12
  DEF Next, ThreadStep

-----------------------------------------------------------------------------
(* The stream *)

\* Moving the head of a queue behind another sequence changes nothing of the whole.
LEMMA MoveHead ==
    ASSUME NEW w \in Seq(Messages), NEW e \in Seq(Messages), NEW q \in Seq(Messages), q # <<>>
    PROVE  w \o e \o q = w \o Append(e, Head(q)) \o Tail(q)
<1>1. Head(q) \in Messages /\ Tail(q) \in Seq(Messages) /\ <<Head(q)>> \in Seq(Messages)
  BY HeadTailProperties
<1>2. q = <<Head(q)>> \o Tail(q)
  <2>1. <<Head(q)>> \o Tail(q) \in Seq(Messages) /\ Len(<<Head(q)>> \o Tail(q)) = Len(q)
    BY <1>1
  <2>2. ASSUME NEW i \in 1..Len(q) PROVE q[i] = (<<Head(q)>> \o Tail(q))[i]
    BY <1>1
  <2> QED
    BY <2>1, <2>2, SeqEqual
<1>3. Append(e, Head(q)) = e \o <<Head(q)>>
  BY <1>1, AppendIsConcat
<1>4. w \o e \in Seq(Messages) /\ e \o <<Head(q)>> \in Seq(Messages)
  BY <1>1, ConcatProperties
<1>5. (w \o e) \o (<<Head(q)>> \o Tail(q)) = ((w \o e) \o <<Head(q)>>) \o Tail(q)
  BY <1>1, <1>4, ConcatAssociative
<1>6. (w \o e) \o <<Head(q)>> = w \o (e \o <<Head(q)>>)
  BY <1>1, ConcatAssociative
<1> QED
  BY <1>2, <1>3, <1>5, <1>6

\* Appending to the last of them appends to the whole.
LEMMA AppendLast ==
    ASSUME NEW w \in Seq(Messages), NEW e \in Seq(Messages), NEW q \in Seq(Messages),
           NEW m \in Messages
    PROVE  Append(w \o e \o q, m) = w \o e \o Append(q, m)
<1>1. <<m>> \in Seq(Messages) /\ w \o e \in Seq(Messages) /\ w \o e \o q \in Seq(Messages)
  BY ConcatProperties
<1>2. Append(w \o e \o q, m) = ((w \o e) \o q) \o <<m>>
  BY <1>1, AppendIsConcat
<1>3. ((w \o e) \o q) \o <<m>> = (w \o e) \o (q \o <<m>>)
  BY <1>1, ConcatAssociative
<1> QED
  BY <1>2, <1>3, AppendIsConcat

\* Every step keeps the order of the stream.
LEMMA StreamStep ==
    ASSUME SendInv, [Next]_sendVars
    PROVE  StreamExact'
<1> USE DEF StreamExact, threadVars, historyVars
<1> SUFFICES ASSUME ~failed' PROVE pushed' = wire' \o event' \o sendQueue'
  OBVIOUS
<1>1. CASE UNCHANGED <<wire, pushed, event, sendQueue, failed>>
  BY <1>1 DEF SendInv
<1>2. ASSUME NEW t \in Threads, Push(t)
      PROVE  pushed' = wire' \o event' \o sendQueue'
  <2>1. message[t] \in Messages
    BY <1>2 DEF Push, SendInv, SendShape, Pushes
  <2>2. wire \in Seq(Messages) /\ event \in Seq(Messages) /\ sendQueue \in Seq(Messages)
    BY DEF SendInv, TypeOK
  <2>3. Append(wire \o event \o sendQueue, message[t]) = wire \o event \o Append(sendQueue, message[t])
    BY <2>1, <2>2, AppendLast
  <2> QED
    BY <1>2, <2>3 DEF Push, SendInv
<1>3. ASSUME NEW t \in Threads, Drain(t)
      PROVE  pushed' = wire' \o event' \o sendQueue'
  <2>1. wire \in Seq(Messages) /\ event \in Seq(Messages) /\ sendQueue \in Seq(Messages)
    BY DEF SendInv, TypeOK
  <2>2. sendQueue # <<>>
    BY <1>3 DEF Drain
  <2>3. wire \o event \o sendQueue = wire \o Append(event, Head(sendQueue)) \o Tail(sendQueue)
    BY <2>1, <2>2, MoveHead
  <2> QED
    BY <1>3, <2>3 DEF Drain, SendInv
<1>4. ASSUME NEW t \in Workers, ProcessSend(t)
      PROVE  pushed' = wire' \o event' \o sendQueue'
  <2>1. pushed = wire \o event \o sendQueue /\ wire \o event \in Seq(Messages)
    BY <1>4, ConcatProperties DEF ProcessSend, SendInv, TypeOK
  <2>2. (wire \o event) \o <<>> = wire \o event
    BY <2>1, ConcatEmptySeq
  <2> QED
    BY <1>4, <2>1, <2>2 DEF ProcessSend
<1>5. ASSUME NEW t \in Threads, FailCleanup(t)
      PROVE  FALSE
  BY <1>5 DEF FailCleanup, SendInv, SendShape
<1>6. ASSUME NEW t \in Threads, WSASendFails(t)
      PROVE  FALSE
  BY <1>6 DEF WSASendFails
<1>7. ASSUME NEW t \in Workers, ProcessSend0(t)
      PROVE  FALSE
  BY <1>7 DEF ProcessSend0
<1>8. CASE UNCHANGED sendVars
  BY <1>1, <1>8 DEF sendVars
<1>9. CASE Disconnect
  BY <1>1, <1>9 DEF Disconnect
<1>10. ASSUME NEW t \in Senders, NEW m \in Messages, Send(t, m)
       PROVE  pushed' = wire' \o event' \o sendQueue'
  BY <1>1, <1>10 DEF Send
<1>11. ASSUME NEW t \in Threads,
              LockToPush(t) \/ RegisterSend(t) \/ EndDrain(t) \/ WSASend(t) \/ LockToFinish(t)
       PROVE  pushed' = wire' \o event' \o sendQueue'
  BY <1>1, <1>11 DEF LockToPush, RegisterSend, EndDrain, WSASend, LockToFinish
<1> QED
  BY <1>2, <1>3, <1>4, <1>5, <1>6, <1>7, <1>8, <1>9, <1>10, <1>11 DEF Next, ThreadStep

-----------------------------------------------------------------------------
\* A new session has sent nothing.
LEMMA SendInitially == Init => SendInv
<1>1. <<>> \in Seq(Messages) /\ <<>> \o <<>> \o <<>> = <<>>
  OBVIOUS
<1> QED
  BY <1>1 DEF Init, SendInv, TypeOK, OneSender, SendShape, StreamExact, Sends, Pushes

\* Every step keeps the invariant.
LEMMA SendStep == SendInv /\ [Next]_sendVars => SendInv'
BY SendTypes, SenderStep, StreamStep DEF SendInv

\* The invariant holds in every reachable state, for serial senders or not.
THEOREM SendInvariance == Spec => []SendInv
BY SendInitially, SendStep, PTL DEF Spec

\* Types of the send path.
THEOREM SendTypeCorrectness == Spec => []TypeOK
<1>1. SendInv => TypeOK
  BY DEF SendInv
<1> QED
  BY <1>1, SendInvariance, PTL

\* The one SendEvent is used for one send at a time, on the server and in DummyClient.
THEOREM OneSendOutstanding == Spec => []OneSendAtATime
<1>1. SendInv => OneSendAtATime
  <2> SUFFICES ASSUME SendInv PROVE OneSendAtATime
    OBVIOUS
  <2> USE DEF SendInv, OneSender, Sends
  <2>1. Owners # {} => registered
    BY DEF Owners
  <2>2. Owners = {} \/ \E x \in Owners : Owners = {x}
    <3>1. ASSUME NEW x \in Owners, NEW y \in Owners PROVE x = y
      BY <3>1, ThreadsAssumption DEF Owners, Threads
    <3> QED
      BY <3>1
  <2>3. Cardinality(Owners) <= 1
    <3>1. CASE Owners = {}
      BY <3>1, FS_EmptySet
    <3>2. ASSUME NEW x, Owners = {x} PROVE Cardinality(Owners) = 1
      BY <3>2, FS_Singleton
    <3> QED
      BY <2>2, <3>1, <3>2
  <2> QED
    BY <2>1, <2>3 DEF OneSendAtATime
<1> QED
  BY <1>1, SendInvariance, PTL

\* Nothing that was queued is lost, repeated or reordered, as long as no send failed.
THEOREM StreamIsExact == Spec => []StreamExact
<1>1. SendInv => StreamExact
  BY DEF SendInv
<1> QED
  BY <1>1, SendInvariance, PTL

-----------------------------------------------------------------------------
(* Serial senders: the server *)

\* A thread inside RegisterSend.
Registers(t) == pc[t] \in {"register", "draining", "wsasend", "fail"}

\* Why no lock is needed in RegisterSend: whoever is in it holds the lock (ProcessSend),
\* or is the only thread that may call Send (Send).
Alone ==
    /\ \A t \in Threads : Pushes(t) => t \in Senders
    /\ \A t, u \in Threads : Pushes(t) /\ Pushes(u) => t = u
    /\ \A t \in Threads : pc[t] = "pushing" => lock = t
    /\ \A t \in Threads :
        Registers(t) => lock = t \/ (t \in Senders /\ \A u \in Threads : ~Pushes(u))

\* A flag that is set has an owner, and what is queued has the flag set.
Answered ==
    /\ connected /\ registered => pending \/ \E t \in Threads : Sends(t)
    /\ connected /\ sendQueue # <<>> => registered
    /\ \A t \in Threads : pc[t] \in {"wsasend", "fail"} => sendQueue = <<>>

SerialInv == SendInv /\ Alone /\ Answered

\* Only one thread is in Send, and it stays out while another is in RegisterSend
\* without the lock.
LEMMA AloneStep ==
    ASSUME Serial, SendInv, Alone, [Next]_sendVars
    PROVE  Alone'
<1> USE DEF Alone, Pushes, Registers, SendInv, TypeOK, threadVars, historyVars, Goto, Return
<1>1. CASE UNCHANGED sendVars
  BY <1>1 DEF sendVars
<1>2. ASSUME NEW t \in Senders, NEW m \in Messages, Send(t, m)
      PROVE  Alone'
  BY <1>2 DEF Send, Threads
<1>3. ASSUME NEW t \in Threads, LockToPush(t)
      PROVE  Alone'
  <2>1. NoThread \notin Threads
    BY ThreadsAssumption DEF Threads
  <2> QED
    BY <1>3, <2>1 DEF LockToPush
<1>4. ASSUME NEW t \in Threads, Push(t)
      PROVE  Alone'
  <2>1. \A u \in Threads : ~Registers(u) \/ u = t
    BY <1>4 DEF Push
  <2>2. t \in Senders /\ \A u \in Threads : u # t => ~Pushes(u)
    BY <1>4 DEF Push
  <2> QED
    BY <1>4, <2>1, <2>2 DEF Push
<1>5. ASSUME NEW t \in Threads, RegisterSend(t)
      PROVE  Alone'
  BY <1>5 DEF RegisterSend, OneSender, Sends
<1>6. ASSUME NEW t \in Threads, Drain(t)
      PROVE  Alone'
  BY <1>6 DEF Drain
<1>7. ASSUME NEW t \in Threads, EndDrain(t)
      PROVE  Alone'
  BY <1>7 DEF EndDrain
<1>8. ASSUME NEW t \in Threads, WSASend(t)
      PROVE  Alone'
  BY <1>8 DEF WSASend, OneSender, Sends
<1>9. ASSUME NEW t \in Threads, WSASendFails(t)
      PROVE  Alone'
  BY <1>9 DEF WSASendFails
<1>10. ASSUME NEW t \in Threads, FailCleanup(t)
       PROVE  Alone'
  BY <1>10 DEF FailCleanup, OneSender, Sends
<1>11. ASSUME NEW t \in Threads, LockToFinish(t)
       PROVE  Alone'
  <2>1. \A u \in Threads : ~Registers(u)
    BY <1>11 DEF LockToFinish, OneSender, Sends
  <2>2. \A u \in Threads : pc[u] # "pushing"
    BY <1>11, ThreadsAssumption DEF LockToFinish, Threads
  <2>3. CASE sendQueue = <<>>
    BY <1>11, <2>1, <2>2, <2>3 DEF LockToFinish
  <2>4. CASE sendQueue # <<>>
    BY <1>11, <2>1, <2>2, <2>4 DEF LockToFinish
  <2> QED
    BY <2>3, <2>4
<1>12. ASSUME NEW t \in Workers, ProcessSend(t)
       PROVE  Alone'
  BY <1>12 DEF ProcessSend, Threads
<1>13. ASSUME NEW t \in Workers, ProcessSend0(t)
       PROVE  Alone'
  BY <1>13 DEF ProcessSend0
<1>14. CASE Disconnect
  BY <1>14 DEF Disconnect
<1> QED
  BY <1>1, <1>2, <1>3, <1>4, <1>5, <1>6, <1>7, <1>8, <1>9, <1>10, <1>11, <1>12, <1>13, <1>14
  DEF Next, ThreadStep

\* The flag is never given back while something is queued.
LEMMA AnsweredStep ==
    ASSUME Serial, SerialInv, [Next]_sendVars
    PROVE  Answered'
<1> USE DEF SerialInv, Answered, Sends, SendInv, TypeOK, threadVars, historyVars, Goto, Return
<1>1. CASE UNCHANGED sendVars
  BY <1>1 DEF sendVars
<1>2. ASSUME NEW t \in Senders, NEW m \in Messages, Send(t, m)
      PROVE  Answered'
  BY <1>2 DEF Send, Threads
<1>3. ASSUME NEW t \in Threads, LockToPush(t)
      PROVE  Answered'
  BY <1>3 DEF LockToPush
<1>4. ASSUME NEW t \in Threads, Push(t)
      PROVE  Answered'
  <2>1. \A u \in Threads : u # t => pc[u] \notin {"wsasend", "fail"}
    BY <1>4 DEF Push, Alone, Registers, Pushes
  <2>2. CASE registered
    BY <1>4, <2>1, <2>2 DEF Push
  <2>3. CASE ~registered
    BY <1>4, <2>1, <2>3 DEF Push
  <2> QED
    BY <2>2, <2>3
<1>5. ASSUME NEW t \in Threads, RegisterSend(t)
      PROVE  Answered'
  BY <1>5 DEF RegisterSend
<1>6. ASSUME NEW t \in Threads, Drain(t)
      PROVE  Answered'
  BY <1>6 DEF Drain, OneSender
<1>7. ASSUME NEW t \in Threads, EndDrain(t)
      PROVE  Answered'
  BY <1>7 DEF EndDrain
<1>8. ASSUME NEW t \in Threads, WSASend(t)
      PROVE  Answered'
  BY <1>8 DEF WSASend
<1>9. ASSUME NEW t \in Threads, WSASendFails(t)
      PROVE  Answered'
  BY <1>9 DEF WSASendFails
<1>10. ASSUME NEW t \in Threads, FailCleanup(t)
       PROVE  Answered'
  BY <1>10 DEF FailCleanup
<1>11. ASSUME NEW t \in Threads, LockToFinish(t)
       PROVE  Answered'
  <2>1. CASE sendQueue = <<>>
    BY <1>11, <2>1 DEF LockToFinish
  <2>2. CASE sendQueue # <<>>
    BY <1>11, <2>2 DEF LockToFinish, OneSender
  <2> QED
    BY <2>1, <2>2
<1>12. ASSUME NEW t \in Workers, ProcessSend(t)
       PROVE  Answered'
  BY <1>12 DEF ProcessSend, Threads
<1>13. ASSUME NEW t \in Workers, ProcessSend0(t)
       PROVE  Answered'
  BY <1>13 DEF ProcessSend0
<1>14. CASE Disconnect
  BY <1>14 DEF Disconnect
<1> QED
  BY <1>1, <1>2, <1>3, <1>4, <1>5, <1>6, <1>7, <1>8, <1>9, <1>10, <1>11, <1>12, <1>13, <1>14
  DEF Next, ThreadStep

\* With serial senders nobody uses _sendQueue beside a drain, and what is queued is sent
\* by somebody.
THEOREM SerialInvariance ==
    ASSUME Serial
    PROVE  Spec => []SerialInv
<1>1. Init => SerialInv
  <2>1. Init => SendInv
    BY SendInitially
  <2> QED
    BY <2>1 DEF Init, SerialInv, Alone, Answered, Pushes, Registers, Sends
<1>2. SerialInv /\ [Next]_sendVars => SerialInv'
  BY SendStep, AloneStep, AnsweredStep DEF SerialInv
<1> QED
  BY <1>1, <1>2, PTL DEF Spec

\* The emptiness test of ProcessSend and its store(false) lose no Send on the server.
THEOREM NothingIsStranded ==
    ASSUME Serial
    PROVE  Spec => []NothingStranded
<1>1. SerialInv => NothingStranded
  BY DEF SerialInv, Answered, NothingStranded, Owners, Sends
<1> QED
  BY <1>1, SerialInvariance, PTL

\* On the server a push and a drain never meet, although the drain takes no lock.
THEOREM QueueIsGuarded ==
    ASSUME Serial
    PROVE  Spec => []QueueGuarded
<1>1. SerialInv => QueueGuarded
  BY DEF SerialInv, Alone, Registers, Pushes, QueueGuarded
<1> QED
  BY <1>1, SerialInvariance, PTL
=============================================================================
