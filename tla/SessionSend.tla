---------------------------- MODULE SessionSend -----------------------------
(***************************************************************************)
(* The send path of one connected session: Send, RegisterSend, the         *)
(* completion of WSASend and ProcessSend.  A session owns one SendEvent,   *)
(* so one send may be outstanding; the atomic _sendRegistered decides who  *)
(* may start it and the session's mutex guards _sendQueue.                 *)
(*                                                                         *)
(* RegisterSend reads and pops _sendQueue with its WRITE_LOCK commented    *)
(* out, so the critical sections and the drain are intervals here, with a  *)
(* step that opens each and steps that close it.                           *)
(***************************************************************************)
EXTENDS Integers, Sequences, FiniteSets

CONSTANTS
    Senders,    \* the threads that call Send
    Workers,    \* the threads that dispatch completions
    Messages,   \* the SendBuffers, each sent once
    NoThread, NoMessage,
    Serial      \* TRUE: one Send at a time, as the jobs of the Room are on the server;
                \* FALSE: DummyClient, whose main thread and IOCP thread both send

ASSUME SerialAssumption == Serial \in BOOLEAN
ASSUME ThreadsAssumption == NoThread \notin Senders \cup Workers

Threads == Senders \cup Workers

VARIABLES
    connected,  \* Session::_connected
    lock,       \* the holder of the session's mutex
    sendQueue,  \* Session::_sendQueue
    registered, \* Session::_sendRegistered
    event,      \* _sendEvent.sendBuffers
    pending,    \* whether a WSASend is outstanding (_sendEvent.owner is set)
    pc, message, \* per thread: where it is in the send path; Send's argument
    wire,       \* what the kernel took, in order
    pushed,     \* history: what entered _sendQueue, in order
    failed      \* history: a WSASend failed or completed with no bytes

threadVars == <<pc, message>>
historyVars == <<wire, pushed, failed>>
sendVars == <<connected, lock, sendQueue, registered, event, pending,
              pc, message, wire, pushed, failed>>

Init ==
    /\ connected = TRUE
    /\ lock = NoThread
    /\ sendQueue = <<>>
    /\ registered = FALSE
    /\ event = <<>>
    /\ pending = FALSE
    /\ pc = [t \in Threads |-> "idle"]
    /\ message = [t \in Threads |-> NoMessage]
    /\ wire = <<>>
    /\ pushed = <<>>
    /\ failed = FALSE

Goto(t, l) == pc' = [pc EXCEPT ![t] = l]

\* The end of RegisterSend: ProcessSend's lock_guard is released, Send's was before.
Return(t) ==
    /\ Goto(t, "idle")
    /\ lock' = IF lock = t THEN NoThread ELSE lock

-----------------------------------------------------------------------------
(* Session::Send *)

Sent == {message[t] : t \in Threads} \cup {pushed[i] : i \in DOMAIN pushed}

\* IsConnected() is read before the lock is taken.
Send(t, m) ==
    /\ pc[t] = "idle"
    /\ connected
    /\ m \notin Sent
    /\ Serial => \A u \in Senders : pc[u] = "idle"
    /\ message' = [message EXCEPT ![t] = m]
    /\ Goto(t, "lock")
    /\ UNCHANGED <<connected, lock, sendQueue, registered, event, pending, historyVars>>

\* Mutant: the SendBuffer is moved out of the argument before it is pushed.
LockToPush_Moved(t) ==
    /\ pc[t] = "lock"
    /\ lock = NoThread
    /\ lock' = t
    /\ message' = [message EXCEPT ![t] = NoMessage]
    /\ Goto(t, "pushing")
    /\ UNCHANGED <<connected, sendQueue, registered, event, pending, historyVars>>

\* The WRITE_LOCK of Send.
LockToPush(t) ==
    /\ pc[t] = "lock"
    /\ lock = NoThread
    /\ lock' = t
    /\ Goto(t, "pushing")
    /\ UNCHANGED <<connected, sendQueue, registered, event, pending, message, historyVars>>

\* Mutant: who registers is decided by the emptiness of the queue.
Push_EmptyTest(t) ==
    /\ pc[t] = "pushing"
    /\ sendQueue' = Append(sendQueue, message[t])
    /\ pushed' = Append(pushed, message[t])
    /\ message' = [message EXCEPT ![t] = NoMessage]
    /\ registered' = TRUE
    /\ Goto(t, IF sendQueue # <<>> THEN "idle" ELSE "register")
    /\ lock' = NoThread
    /\ UNCHANGED <<connected, event, pending, wire, failed>>

\* _sendQueue.push, _sendRegistered.exchange(true), and the lock is released.
Push(t) ==
    /\ pc[t] = "pushing"
    /\ sendQueue' = Append(sendQueue, message[t])
    /\ pushed' = Append(pushed, message[t])
    /\ message' = [message EXCEPT ![t] = NoMessage]
    /\ registered' = TRUE
    /\ Goto(t, IF registered THEN "idle" ELSE "register")
    /\ lock' = NoThread
    /\ UNCHANGED <<connected, event, pending, wire, failed>>

-----------------------------------------------------------------------------
(* Session::RegisterSend *)

\* A session that is not connected any more keeps _sendRegistered set.
RegisterSend(t) ==
    /\ pc[t] = "register"
    /\ IF connected THEN Goto(t, "draining") /\ UNCHANGED lock ELSE Return(t)
    /\ UNCHANGED <<connected, sendQueue, registered, event, pending, message, historyVars>>

\* One turn of the loop that moves _sendQueue to the SendEvent.
Drain(t) ==
    /\ pc[t] = "draining"
    /\ sendQueue # <<>>
    /\ event' = Append(event, Head(sendQueue))
    /\ sendQueue' = Tail(sendQueue)
    /\ UNCHANGED <<connected, lock, registered, pending, threadVars, historyVars>>

EndDrain(t) ==
    /\ pc[t] = "draining"
    /\ sendQueue = <<>>
    /\ Goto(t, "wsasend")
    /\ UNCHANGED <<connected, lock, sendQueue, registered, event, pending, message, historyVars>>

\* WSASend succeeds or is pending: a completion will be queued either way.
WSASend(t) ==
    /\ pc[t] = "wsasend"
    /\ pending' = TRUE
    /\ Return(t)
    /\ UNCHANGED <<connected, sendQueue, registered, event, message, historyVars>>

\* WSASend fails: HandleError disconnects on the two reset errors, only logs others.
WSASendFails(t) ==
    /\ pc[t] = "wsasend"
    /\ connected' \in {connected, FALSE}
    /\ failed' = TRUE
    /\ Goto(t, "fail")
    /\ UNCHANGED <<lock, sendQueue, registered, event, pending, message, wire, pushed>>

\* owner = nullptr, sendBuffers.clear(), _sendRegistered.store(false).
FailCleanup(t) ==
    /\ pc[t] = "fail"
    /\ event' = <<>>
    /\ registered' = FALSE
    /\ Return(t)
    /\ UNCHANGED <<connected, sendQueue, pending, message, historyVars>>

-----------------------------------------------------------------------------
(* The completion and Session::ProcessSend *)

\* Mutant: sendBuffers.clear() is missing.
ProcessSend_Keep(t) ==
    /\ pc[t] = "idle"
    /\ pending
    /\ pending' = FALSE
    /\ wire' = wire \o event
    /\ Goto(t, "completed")
    /\ UNCHANGED <<connected, lock, sendQueue, registered, event, message, pushed, failed>>

\* Dispatch hands the completion to a worker: owner = nullptr, sendBuffers.clear().
ProcessSend(t) ==
    /\ pc[t] = "idle"
    /\ pending
    /\ pending' = FALSE
    /\ wire' = wire \o event
    /\ event' = <<>>
    /\ Goto(t, "completed")
    /\ UNCHANGED <<connected, lock, sendQueue, registered, message, pushed, failed>>

\* The completion carries no bytes: Disconnect, and the session sends no more.
ProcessSend0(t) ==
    /\ pc[t] = "idle"
    /\ pending
    /\ pending' = FALSE
    /\ event' = <<>>
    /\ connected' = FALSE
    /\ failed' = TRUE
    /\ UNCHANGED <<lock, sendQueue, registered, threadVars, wire, pushed>>

\* Mutant: the right to send is given back without a look at the queue.
LockToFinish_GiveBack(t) ==
    /\ pc[t] = "completed"
    /\ lock = NoThread
    /\ registered' = FALSE
    /\ Goto(t, "idle")
    /\ UNCHANGED <<connected, lock, sendQueue, event, pending, message, historyVars>>

\* Mutant: the lock is released before RegisterSend is called.
LockToFinish_Unlock(t) ==
    /\ pc[t] = "completed"
    /\ lock = NoThread
    /\ IF sendQueue = <<>>
       THEN registered' = FALSE /\ Goto(t, "idle")
       ELSE Goto(t, "register") /\ UNCHANGED registered
    /\ UNCHANGED <<connected, lock, sendQueue, event, pending, message, historyVars>>

\* Mutant: nobody calls RegisterSend for what was queued meanwhile.
LockToFinish_Forget(t) ==
    /\ pc[t] = "completed"
    /\ lock = NoThread
    /\ registered' = (sendQueue # <<>>)
    /\ Goto(t, "idle")
    /\ UNCHANGED <<connected, lock, sendQueue, event, pending, message, historyVars>>

\* WRITE_LOCK, then the queue is empty and the right to send is given back, or it
\* is not and RegisterSend is called with the lock held.
LockToFinish(t) ==
    /\ pc[t] = "completed"
    /\ lock = NoThread
    /\ IF sendQueue = <<>>
       THEN /\ registered' = FALSE
            /\ Goto(t, "idle")
            /\ UNCHANGED lock
       ELSE /\ lock' = t
            /\ Goto(t, "register")
            /\ UNCHANGED registered
    /\ UNCHANGED <<connected, sendQueue, event, pending, message, historyVars>>

\* Disconnect from elsewhere: the receive path, or the peer.
Disconnect ==
    /\ connected
    /\ connected' = FALSE
    /\ UNCHANGED <<lock, sendQueue, registered, event, pending, threadVars, historyVars>>

-----------------------------------------------------------------------------
ThreadStep(t) ==
    \/ LockToPush(t) \/ Push(t)
    \/ RegisterSend(t) \/ Drain(t) \/ EndDrain(t)
    \/ WSASend(t) \/ WSASendFails(t) \/ FailCleanup(t)
    \/ LockToFinish(t)

Next ==
    \/ \E t \in Senders, m \in Messages : Send(t, m)
    \/ \E t \in Threads : ThreadStep(t)
    \/ \E t \in Workers : ProcessSend(t) \/ ProcessSend0(t)
    \/ Disconnect

\* Threads keep running, a mutex released again and again is obtained at last, and
\* the kernel completes what it was given.
Spec ==
    /\ Init
    /\ [][Next]_sendVars
    /\ \A t \in Threads :
        /\ WF_sendVars(ThreadStep(t))
        /\ SF_sendVars(LockToPush(t))
        /\ SF_sendVars(LockToFinish(t))
    /\ WF_sendVars(\E t \in Workers : ProcessSend(t) \/ ProcessSend0(t))

-----------------------------------------------------------------------------
TypeOK ==
    /\ connected \in BOOLEAN
    /\ lock \in Threads \cup {NoThread}
    /\ sendQueue \in Seq(Messages)
    /\ registered \in BOOLEAN
    /\ event \in Seq(Messages)
    /\ pending \in BOOLEAN
    /\ pc \in [Threads -> {"idle", "lock", "pushing", "register", "draining",
                           "wsasend", "fail", "completed"}]
    /\ message \in [Threads -> Messages \cup {NoMessage}]
    /\ wire \in Seq(Messages)
    /\ pushed \in Seq(Messages)
    /\ failed \in BOOLEAN

\* The threads that have the right to use the SendEvent, and the kernel, which has it
\* while a WSASend is outstanding.
Owners ==
    {t \in Threads : pc[t] \in {"register", "draining", "wsasend", "fail", "completed"}}
        \cup (IF pending THEN {NoThread} ELSE {})

\* The session's one OVERLAPPED is never used for two sends at once, and whoever uses
\* it has _sendRegistered set so that no Send can start another.
OneSendAtATime ==
    /\ Cardinality(Owners) <= 1
    /\ Owners # {} => registered

\* While a live session has something in its queue somebody is bound to send it: no
\* Send slipped in between ProcessSend's emptiness test and its store(false).
NothingStranded == connected /\ sendQueue # <<>> => Owners # {}

\* As long as no send failed, nothing is lost, repeated or reordered on its way from
\* the queue through the SendEvent to the socket.
StreamExact == ~failed => pushed = wire \o event \o sendQueue

\* "_sendQueue may be accessed from several threads at once" (Session.cpp:292), so the
\* lock is there to keep a push and the pops of a drain apart.
QueueGuarded ==
    \A t, u \in Threads : ~(t # u /\ pc[t] = "pushing" /\ pc[u] = "draining")

\* Everything pushed reaches the socket, unless the connection or a send fails.
EverySendReachesTheWire ==
    \A m \in Messages :
        (\E i \in DOMAIN pushed : pushed[i] = m)
            ~> (\/ \E i \in DOMAIN wire : wire[i] = m
                \/ ~connected
                \/ failed)
=============================================================================
