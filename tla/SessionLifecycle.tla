-------------------------- MODULE SessionLifecycle --------------------------
(***************************************************************************)
(* The calls that threads make into Listener, Session, Service and the     *)
(* Room, nested as they are in the code, with the locks that they hold on  *)
(* to.  A completion may start a call; a send that fails disconnects the   *)
(* session from within Send or ProcessSend; a disconnection posts a job,   *)
(* and a post may run the whole queue of the Room, which sends again.      *)
(*                                                                         *)
(* stack[t] is thread t's stack of calls, the innermost first.  The locks  *)
(* of the job queue and of GSessionManager are never held across a call,   *)
(* so they are left out, and the queue of the Room is the serial actor of  *)
(* SerialQueues with its executor made visible.                            *)
(***************************************************************************)
EXTENDS Integers, Sequences, FiniteSets

CONSTANTS
    Sessions,   \* bound: the session objects that are ever made
    MaxJobs,    \* bound: no packet is received while as many jobs wait in the Room
    Workers,    \* the threads that dispatch completions
    Main,       \* the client's main thread
    Server,     \* TRUE for GameServer, FALSE for DummyClient
    NoThread, NoSession

ASSUME NoneAssumption ==
    /\ Server \in BOOLEAN /\ MaxJobs \in Nat
    /\ Main \notin Workers
    /\ {NoThread, "global"} \cap (Workers \cup {Main}) = {}
    /\ NoThread # "global"
    /\ {NoSession, "service"} \cap Sessions = {}

VARIABLES
    created,        \* the sessions that CreateSession has made
    established,    \* the sessions whose socket was connected to a peer
    connected,      \* Session::_connected
    registry,       \* Service::_sessions
    pending,        \* per session: how often each of its OVERLAPPEDs is with the kernel
    accepting,      \* acceptEvent->session
    listening,      \* acceptEvent is with the kernel
    queued,         \* the sessions whose _sendQueue holds something
    registered,     \* the sessions whose _sendRegistered is set
    lock,           \* per lock (a session's or the service's): who holds it
    stack,          \* per thread: its calls
    chosen,         \* the sessions that have a player
    jobs,           \* the jobs of the Room
    executor,       \* the thread that executes the Room, or "global", or NoThread
    room,           \* Room::_players
    audience,       \* whom the Broadcast in progress has still to tell
    crashed         \* an assertion failed

socketVars == <<created, established, pending, accepting, listening>>
sendVars == <<queued, registered>>
roomVars == <<chosen, jobs, executor, room, audience>>
lifeVars == <<socketVars, connected, registry, sendVars, lock, stack, roomVars, crashed>>

Threads == IF Server THEN Workers ELSE Workers \cup {Main}
Service == "service"
Locks == Sessions \cup {Service}
Kinds == {"connect", "recv", "send", "disconnect"}

Frame(call, s, at) == [call |-> call, s |-> s, at |-> at]

\* The server has posted its one AcceptEx (StartAccept), the client its ConnectEx calls
\* (ClientService::Start), before any completion is dispatched.
Init ==
    /\ IF Server THEN \E s \in Sessions : accepting = s /\ created = {s}
                 ELSE accepting = NoSession /\ created = Sessions
    /\ listening = Server
    /\ established = {}
    /\ connected = [s \in Sessions |-> FALSE]
    /\ registry = {}
    /\ pending = [s \in Sessions |->
                    [k \in Kinds |-> IF k = "connect" /\ ~Server THEN 1 ELSE 0]]
    /\ queued = {}
    /\ registered = {}
    /\ lock = [l \in Locks |-> NoThread]
    /\ stack = [t \in Threads |-> <<>>]
    /\ chosen = {}
    /\ jobs = <<>>
    /\ executor = NoThread
    /\ room = {}
    /\ audience = {}
    /\ crashed = FALSE

-----------------------------------------------------------------------------
(* The stack of a thread *)

Idle(t) == t \in Workers /\ stack[t] = <<>>
At(t, call, at) == stack[t] # <<>> /\ Head(stack[t]).call = call /\ Head(stack[t]).at = at
Of(t) == Head(stack[t]).s

Start(t, calls) == stack' = [stack EXCEPT ![t] = calls]
Return(t) == stack' = [stack EXCEPT ![t] = Tail(@)]
Goto(t, at) == stack' = [stack EXCEPT ![t] = <<[Head(@) EXCEPT !.at = at]>> \o Tail(@)]
GotoAndCall(t, at, f) ==
    stack' = [stack EXCEPT ![t] = <<f, [Head(@) EXCEPT !.at = at]>> \o Tail(@)]
ReturnAndCall(t, f) == stack' = [stack EXCEPT ![t] = <<f>> \o Tail(@)]

Hand(s, k, n) == pending' = [pending EXCEPT ![s][k] = @ + n]

DisconnectCall(s) == Frame("Disconnect", s, "exchange")
SendCall(s) == Frame("Send", s, "check")

\* The shared_ptrs to a session: Service::_sessions, the owner of an outstanding event,
\* acceptEvent->session, the calls that run on it.
Alive(s) ==
    \/ s \in registry
    \/ \E k \in Kinds : pending[s][k] > 0
    \/ accepting = s
    \/ \E t \in Threads : \E i \in DOMAIN stack[t] : stack[t][i].s = s

-----------------------------------------------------------------------------
(* IocpCore::Dispatch: an idle worker takes a completion *)

\* Mutant: ProcessConnect also after a failed accept.
TakeAccept_Careless(t) ==
    /\ Idle(t)
    /\ listening
    /\ created # Sessions
    /\ listening' = FALSE
    /\ established' \in {established, established \cup {accepting}}
    /\ Start(t, <<Frame("ProcessConnect", accepting, "store"),
                  Frame("RegisterAccept", NoSession, "create")>>)
    /\ UNCHANGED <<created, pending, accepting, connected, registry, sendVars, lock,
                   roomVars, crashed>>

\* A connection was accepted, or AcceptEx failed and SetSockOpt or getpeername tells.
\* ProcessAccept goes on to ProcessConnect, and in any case to RegisterAccept.
TakeAccept(t) ==
    /\ Idle(t)
    /\ listening
    /\ created # Sessions      \* bound: a session is left for the next AcceptEx
    /\ listening' = FALSE
    /\ LET again == Frame("RegisterAccept", NoSession, "create")
       IN  \/ /\ established' = established \cup {accepting}
              /\ Start(t, <<Frame("ProcessConnect", accepting, "store"), again>>)
           \/ /\ Start(t, <<again>>)
              /\ UNCHANGED established
    /\ UNCHANGED <<created, pending, accepting, connected, registry, sendVars, lock,
                   roomVars, crashed>>

\* A ConnectEx is over; a failed one is dispatched like a good one.
TakeConnect(t, s) ==
    /\ Idle(t)
    /\ pending[s]["connect"] > 0
    /\ Hand(s, "connect", -1)
    /\ established' \in {established, established \cup {s}}
    /\ Start(t, <<Frame("ProcessConnect", s, "store")>>)
    /\ UNCHANGED <<created, accepting, listening, connected, registry, sendVars, lock,
                   roomVars, crashed>>

\* ProcessRecv: no bytes, or a packet and RegisterRecv.  DummyClient's handlers are empty.
TakeRecv(t, s) ==
    /\ Idle(t)
    /\ pending[s]["recv"] > 0
    /\ Hand(s, "recv", -1)
    /\ LET receive == Frame("RegisterRecv", s, "check")
       IN  \/ Start(t, <<DisconnectCall(s)>>)
           \/ Server /\ Len(jobs) < MaxJobs /\ Start(t, <<Frame("HandlePacket", s, "handle"), receive>>)
           \/ ~Server /\ Start(t, <<receive>>)
    /\ UNCHANGED <<created, established, accepting, listening, connected, registry,
                   sendVars, lock, roomVars, crashed>>

\* ProcessSend: no bytes, or the lock is next.
TakeSend(t, s) ==
    /\ Idle(t)
    /\ pending[s]["send"] > 0
    /\ Hand(s, "send", -1)
    /\ \/ Start(t, <<DisconnectCall(s)>>)
       \/ Start(t, <<Frame("ProcessSend", s, "lock")>>)
    /\ UNCHANGED <<created, established, accepting, listening, connected, registry,
                   sendVars, lock, roomVars, crashed>>

\* ProcessDisconnect releases the owner reference, that is all.
TakeDisconnect(t, s) ==
    /\ Idle(t)
    /\ pending[s]["disconnect"] > 0
    /\ Hand(s, "disconnect", -1)
    /\ UNCHANGED <<created, established, accepting, listening, connected, registry,
                   sendVars, lock, stack, roomVars, crashed>>

\* DoGlobalQueueWork finds the Room.
TakeGlobal(t) ==
    /\ Idle(t)
    /\ executor = "global"
    /\ executor' = t
    /\ Start(t, <<Frame("Execute", NoSession, "loop")>>)
    /\ UNCHANGED <<socketVars, connected, registry, sendVars, lock, chosen, jobs, room,
                   audience, crashed>>

-----------------------------------------------------------------------------
(* Listener::RegisterAccept, Session::ProcessConnect, Session::RegisterRecv *)

\* Mutant: the failed AcceptEx is not tried again.
RegisterAccept_Once(t) ==
    /\ At(t, "RegisterAccept", "create")
    /\ \E s \in Sessions \ created :
        /\ created' = created \cup {s}
        /\ accepting' = s
        /\ listening' \in BOOLEAN
        /\ Return(t)
    /\ UNCHANGED <<established, pending, connected, registry, sendVars, lock, roomVars, crashed>>

\* CreateSession, and AcceptEx, which may fail at once: then all over again.
RegisterAccept(t) ==
    /\ At(t, "RegisterAccept", "create")
    /\ \E s \in Sessions \ created :
        /\ created' = created \cup {s}
        /\ accepting' = s
        /\ \/ listening' = TRUE /\ Return(t)
           \/ created' # Sessions /\ UNCHANGED <<listening, stack>>   \* bound
    /\ UNCHANGED <<established, pending, connected, registry, sendVars, lock, roomVars, crashed>>

\* Mutant: OnConnected and RegisterRecv come before AddSession.
Connected_First(t) ==
    /\ At(t, "ProcessConnect", "store")
    /\ connected' = [connected EXCEPT ![Of(t)] = TRUE]
    /\ stack' = [stack EXCEPT ![t] = <<SendCall(Of(t)), Frame("RegisterRecv", Of(t), "check"),
                                       Frame("ProcessConnect", Of(t), "add")>> \o Tail(@)]
    /\ UNCHANGED <<socketVars, registry, sendVars, lock, roomVars, crashed>>

Connected(t) ==
    /\ At(t, "ProcessConnect", "store")
    /\ connected' = [connected EXCEPT ![Of(t)] = TRUE]
    /\ Goto(t, "add")
    /\ UNCHANGED <<socketVars, registry, sendVars, lock, roomVars, crashed>>

\* Service::AddSession.
AddSession(t) ==
    /\ At(t, "ProcessConnect", "add")
    /\ lock[Service] = NoThread
    /\ registry' = registry \cup {Of(t)}
    /\ Goto(t, "hello")
    /\ UNCHANGED <<socketVars, connected, sendVars, lock, roomVars, crashed>>

\* OnConnected sends the first packet, RegisterRecv comes after it.
OnConnected(t) ==
    /\ At(t, "ProcessConnect", "hello")
    /\ stack' = [stack EXCEPT ![t] =
            <<SendCall(Of(t)), Frame("RegisterRecv", Of(t), "check")>> \o Tail(@)]
    /\ UNCHANGED <<socketVars, connected, registry, sendVars, lock, roomVars, crashed>>

CheckRecv(t) ==
    /\ At(t, "RegisterRecv", "check")
    /\ IF connected[Of(t)] THEN Goto(t, "issue") ELSE Return(t)
    /\ UNCHANGED <<socketVars, connected, registry, sendVars, lock, roomVars, crashed>>

\* WSARecv; a reset disconnects, another error is logged only.
WSARecv(t) ==
    /\ At(t, "RegisterRecv", "issue")
    /\ \/ Hand(Of(t), "recv", 1) /\ Return(t)
       \/ ReturnAndCall(t, DisconnectCall(Of(t))) /\ UNCHANGED pending
       \/ Return(t) /\ UNCHANGED pending
    /\ UNCHANGED <<created, established, accepting, listening, connected, registry,
                   sendVars, lock, roomVars, crashed>>

-----------------------------------------------------------------------------
(* Session::Send, RegisterSend, ProcessSend *)

CheckSend(t) ==
    /\ At(t, "Send", "check")
    /\ IF connected[Of(t)] THEN Goto(t, "lock") ELSE Return(t)
    /\ UNCHANGED <<socketVars, connected, registry, sendVars, lock, roomVars, crashed>>

\* Mutant: RegisterSend is called whoever set _sendRegistered.
PushSend_Always(t) ==
    /\ At(t, "Send", "lock")
    /\ lock[Of(t)] = NoThread
    /\ queued' = queued \cup {Of(t)}
    /\ registered' = registered \cup {Of(t)}
    /\ ReturnAndCall(t, Frame("RegisterSend", Of(t), "check"))
    /\ UNCHANGED <<socketVars, connected, registry, lock, roomVars, crashed>>

\* push and exchange under the lock; RegisterSend after it.
PushSend(t) ==
    /\ At(t, "Send", "lock")
    /\ lock[Of(t)] = NoThread
    /\ queued' = queued \cup {Of(t)}
    /\ registered' = registered \cup {Of(t)}
    /\ IF Of(t) \in registered THEN Return(t)
       ELSE ReturnAndCall(t, Frame("RegisterSend", Of(t), "check"))
    /\ UNCHANGED <<socketVars, connected, registry, lock, roomVars, crashed>>

\* The return without a connection, or the drain of the queue.
DrainSend(t) ==
    /\ At(t, "RegisterSend", "check")
    /\ IF connected[Of(t)] THEN queued' = queued \ {Of(t)} /\ Goto(t, "issue")
                           ELSE Return(t) /\ UNCHANGED queued
    /\ UNCHANGED <<socketVars, connected, registry, registered, lock, roomVars, crashed>>

\* WSASend; a reset disconnects before the event and the flag are cleared.
WSASend(t) ==
    /\ At(t, "RegisterSend", "issue")
    /\ \/ Hand(Of(t), "send", 1) /\ Return(t)
       \/ GotoAndCall(t, "clear", DisconnectCall(Of(t))) /\ UNCHANGED pending
       \/ Goto(t, "clear") /\ UNCHANGED pending
    /\ UNCHANGED <<created, established, accepting, listening, connected, registry,
                   sendVars, lock, roomVars, crashed>>

ClearSend(t) ==
    /\ At(t, "RegisterSend", "clear")
    /\ registered' = registered \ {Of(t)}
    /\ Return(t)
    /\ UNCHANGED <<socketVars, connected, registry, queued, lock, roomVars, crashed>>

\* ProcessSend: the flag is given back, or RegisterSend is called with the lock held.
FinishSend(t) ==
    /\ At(t, "ProcessSend", "lock")
    /\ lock[Of(t)] = NoThread
    /\ IF Of(t) \in queued
       THEN /\ lock' = [lock EXCEPT ![Of(t)] = t]
            /\ GotoAndCall(t, "unlock", Frame("RegisterSend", Of(t), "check"))
            /\ UNCHANGED registered
       ELSE /\ registered' = registered \ {Of(t)}
            /\ Return(t)
            /\ UNCHANGED lock
    /\ UNCHANGED <<socketVars, connected, registry, queued, roomVars, crashed>>

UnlockSend(t) ==
    /\ At(t, "ProcessSend", "unlock")
    /\ lock' = [lock EXCEPT ![Of(t)] = NoThread]
    /\ Return(t)
    /\ UNCHANGED <<socketVars, connected, registry, sendVars, roomVars, crashed>>

-----------------------------------------------------------------------------
(* Session::Disconnect *)

\* Mutant: _connected is tested and not exchanged.
Exchange_Test(t) ==
    /\ At(t, "Disconnect", "exchange")
    /\ IF connected[Of(t)] THEN Goto(t, "callback") ELSE Return(t)
    /\ UNCHANGED <<socketVars, connected, registry, sendVars, lock, roomVars, crashed>>

Exchange(t) ==
    /\ At(t, "Disconnect", "exchange")
    /\ connected' = [connected EXCEPT ![Of(t)] = FALSE]
    /\ IF connected[Of(t)] THEN Goto(t, "callback") ELSE Return(t)
    /\ UNCHANGED <<socketVars, registry, sendVars, lock, roomVars, crashed>>

\* DoAsync on the Room: the thread that posts to an idle queue executes it, and then
\* goes on with the calls of rest.
Post(t, j, rest) ==
    /\ jobs' = Append(jobs, j)
    /\ IF executor = NoThread
       THEN executor' = t /\ Start(t, <<Frame("Execute", NoSession, "loop")>> \o rest)
       ELSE Start(t, rest) /\ UNCHANGED executor

\* Mutant: the early return without a player leaves Disconnect.
OnDisconnected_Return(t) ==
    /\ At(t, "Disconnect", "callback")
    /\ IF Of(t) \in chosen
       THEN Post(t, [kind |-> "leave", s |-> Of(t)],
                 <<Frame("Disconnect", Of(t), "release")>> \o Tail(stack[t]))
       ELSE Return(t) /\ UNCHANGED <<jobs, executor>>
    /\ UNCHANGED <<socketVars, connected, registry, sendVars, lock, chosen, room,
                   audience, crashed>>

\* GameSession::OnDisconnected posts HandleLeavePlayer if there is a player.
OnDisconnected(t) ==
    /\ At(t, "Disconnect", "callback")
    /\ IF Of(t) \in chosen
       THEN Post(t, [kind |-> "leave", s |-> Of(t)],
                 <<Frame("Disconnect", Of(t), "release")>> \o Tail(stack[t]))
       ELSE Goto(t, "release") /\ UNCHANGED <<jobs, executor>>
    /\ UNCHANGED <<socketVars, connected, registry, sendVars, lock, chosen, room,
                   audience, crashed>>

\* Service::ReleaseSession with its assertion, then RegisterDisconnect.
ReleaseSession(t) ==
    /\ At(t, "Disconnect", "release")
    /\ lock[Service] = NoThread
    /\ crashed' = (Of(t) \notin registry)
    /\ registry' = registry \ {Of(t)}
    /\ \E n \in 0..1 : Hand(Of(t), "disconnect", n)
    /\ Return(t)
    /\ UNCHANGED <<created, established, accepting, listening, connected, sendVars, lock,
                   roomVars>>

-----------------------------------------------------------------------------
(* Packets and the Room *)

\* Mutant: the session does not keep the player that it made.
HandlePacket_Anonymous(t) ==
    /\ At(t, "HandlePacket", "handle")
    /\ Of(t) \notin chosen
    /\ Post(t, [kind |-> "enter", s |-> Of(t)], Tail(stack[t]))
    /\ UNCHANGED <<socketVars, connected, registry, sendVars, lock, chosen, room, audience,
                   crashed>>

\* A class choice makes a player and posts its entry; a later packet of a player in the
\* room posts a job that tells everybody.  (A client that chooses again, and players apart
\* from sessions, are the matter of GameRoom; here a session chooses once.)
HandlePacket(t) ==
    /\ At(t, "HandlePacket", "handle")
    /\ IF Of(t) \notin chosen
       THEN /\ chosen' = chosen \cup {Of(t)}
            /\ Post(t, [kind |-> "enter", s |-> Of(t)], Tail(stack[t]))
       ELSE /\ Of(t) \in room
            /\ Post(t, [kind |-> "move", s |-> Of(t)], Tail(stack[t]))
            /\ UNCHANGED chosen
    /\ UNCHANGED <<socketVars, connected, registry, sendVars, lock, room, audience, crashed>>

\* Without a room the packet is dropped.
DropPacket(t) ==
    /\ At(t, "HandlePacket", "handle")
    /\ Of(t) \in chosen \ room
    /\ Return(t)
    /\ UNCHANGED <<socketVars, connected, registry, sendVars, lock, roomVars, crashed>>

\* The next job: everybody in the room is told, and who enters or leaves.
ExecuteJob(t) ==
    /\ At(t, "Execute", "loop")
    /\ audience = {}
    /\ jobs # <<>>
    /\ LET j == Head(jobs)
           inside == CASE j.kind = "enter" -> room \cup {j.s}
                       [] j.kind = "leave" -> room \ {j.s}
                       [] OTHER -> room
       IN  /\ room' = inside
           /\ audience' = IF j.kind = "move" THEN inside ELSE inside \cup {j.s}
    /\ jobs' = Tail(jobs)
    /\ Goto(t, "tell")
    /\ UNCHANGED <<socketVars, connected, registry, sendVars, lock, chosen, executor, crashed>>

\* session.lock() and Send to one of them.
Tell(t) ==
    /\ At(t, "Execute", "tell")
    /\ \E s \in audience :
        /\ audience' = audience \ {s}
        /\ IF Alive(s) THEN GotoAndCall(t, "tell", SendCall(s)) ELSE UNCHANGED stack
    /\ UNCHANGED <<socketVars, connected, registry, sendVars, lock, chosen, jobs, executor,
                   room, crashed>>

\* Everybody was told: the next job, or the deadline has passed and another worker goes on.
EndJob(t) ==
    /\ At(t, "Execute", "tell")
    /\ audience = {}
    /\ \/ Goto(t, "loop") /\ UNCHANGED executor
       \/ jobs # <<>> /\ executor' = "global" /\ Return(t)
    /\ UNCHANGED <<socketVars, connected, registry, sendVars, lock, chosen, jobs, room,
                   audience, crashed>>

\* No job is left.
EndExecute(t) ==
    /\ At(t, "Execute", "loop")
    /\ jobs = <<>>
    /\ executor' = NoThread
    /\ Return(t)
    /\ UNCHANGED <<socketVars, connected, registry, sendVars, lock, chosen, jobs, room,
                   audience, crashed>>

-----------------------------------------------------------------------------
(* The client's main loop: Service::Broadcast *)

BeginBroadcast ==
    /\ ~Server
    /\ stack[Main] = <<>>
    /\ lock[Service] = NoThread
    /\ lock' = [lock EXCEPT ![Service] = Main]
    /\ audience' = registry
    /\ Start(Main, <<Frame("Broadcast", NoSession, "send")>>)
    /\ UNCHANGED <<socketVars, connected, registry, sendVars, chosen, jobs, executor, room,
                   crashed>>

BroadcastSend ==
    /\ ~Server
    /\ At(Main, "Broadcast", "send")
    /\ \E s \in audience :
        /\ audience' = audience \ {s}
        /\ GotoAndCall(Main, "send", SendCall(s))
    /\ UNCHANGED <<socketVars, connected, registry, sendVars, lock, chosen, jobs, executor,
                   room, crashed>>

EndBroadcast ==
    /\ ~Server
    /\ At(Main, "Broadcast", "send")
    /\ audience = {}
    /\ lock' = [lock EXCEPT ![Service] = NoThread]
    /\ Return(Main)
    /\ UNCHANGED <<socketVars, connected, registry, sendVars, roomVars, crashed>>

-----------------------------------------------------------------------------
Take(t) ==
    \/ TakeAccept(t)
    \/ TakeGlobal(t)
    \/ \E s \in Sessions :
        TakeConnect(t, s) \/ TakeRecv(t, s) \/ TakeSend(t, s) \/ TakeDisconnect(t, s)

Run(t) ==
    \/ RegisterAccept(t)
    \/ Connected(t) \/ AddSession(t) \/ OnConnected(t) \/ CheckRecv(t) \/ WSARecv(t)
    \/ CheckSend(t) \/ PushSend(t) \/ DrainSend(t) \/ WSASend(t) \/ ClearSend(t)
    \/ FinishSend(t) \/ UnlockSend(t)
    \/ Exchange(t) \/ OnDisconnected(t) \/ ReleaseSession(t)
    \/ HandlePacket(t) \/ DropPacket(t)
    \/ ExecuteJob(t) \/ Tell(t) \/ EndJob(t) \/ EndExecute(t)

Next ==
    /\ ~crashed
    /\ \/ \E t \in Threads : Take(t) \/ Run(t)
       \/ BeginBroadcast \/ BroadcastSend \/ EndBroadcast

Spec == Init /\ [][Next]_lifeVars

-----------------------------------------------------------------------------
Calls == {"RegisterAccept", "ProcessConnect", "RegisterRecv", "Send", "RegisterSend",
          "ProcessSend", "Disconnect", "HandlePacket", "Execute", "Broadcast"}
Places == {"create", "store", "add", "hello", "check", "issue", "lock", "clear", "unlock",
           "exchange", "callback", "release", "handle", "loop", "tell", "send"}
Frames == [call : Calls, s : Sessions \cup {NoSession}, at : Places]

LifeTypeOK ==
    /\ established \subseteq created /\ created \subseteq Sessions
    /\ connected \in [Sessions -> BOOLEAN]
    /\ registry \subseteq Sessions
    /\ pending \in [Sessions -> [Kinds -> Nat]]
    /\ accepting \in created \cup {NoSession} /\ listening \in BOOLEAN
    /\ queued \subseteq Sessions /\ registered \subseteq Sessions
    /\ lock \in [Locks -> Threads \cup {NoThread}]
    /\ stack \in [Threads -> Seq(Frames)]
    /\ chosen \subseteq Sessions /\ room \subseteq chosen /\ audience \subseteq Sessions
    /\ jobs \in Seq([kind : {"enter", "leave", "move"}, s : chosen])
    /\ executor \in Threads \cup {"global", NoThread}
    /\ crashed \in BOOLEAN

Within(t, call, s) == \E i \in DOMAIN stack[t] : stack[t][i].call = call /\ stack[t][i].s = s

WaitsFor(t, l) ==
    \/ At(t, "Send", "lock") /\ l = Of(t)
    \/ At(t, "ProcessSend", "lock") /\ l = Of(t)
    \/ At(t, "ProcessConnect", "add") /\ l = Service
    \/ At(t, "Disconnect", "release") /\ l = Service

\* No workers wait for one another's locks, none for its own, although a lock is held
\* across foreign calls: ProcessSend calls RegisterSend under the session's lock, and
\* from there a failed WSASend disconnects, posts to the Room and may run its whole
\* queue, which sends to every session.  (In the client, whoever waits in a circle waits for
\* the main thread, whose Broadcast sends with the registry's lock held.)
NoWaitCycle ==
    \A S \in (SUBSET Workers) \ {{}} :
        \E t \in S : \A u \in S, l \in Locks : ~(WaitsFor(t, l) /\ lock[l] = u)

\* ASSERT_CRASH in ReleaseSession never fires: a session is added before any thread can
\* disconnect it, although _connected is set first, and no two threads release it.
ReleaseFindsSession == ~crashed

\* The kernel never holds the same OVERLAPPED (_recvEvent, _sendEvent, ...) twice, which
\* would overwrite its owner and buffers: receiving is one chain of calls, the sender is
\* whoever set _sendRegistered, and one thread only wins the exchange of Disconnect.
OneOperationPerEvent == \A s \in Sessions, k \in Kinds : pending[s][k] <= 1

\* The one AcceptEx is outstanding, or one thread is about to call it again: the server
\* does not stop accepting, whatever failed.  Its session is nobody else's.
OneAccept ==
    Server =>
        LET again == {t \in Threads : Within(t, "RegisterAccept", NoSession)}
        IN  /\ IF listening THEN again = {} ELSE \E t \in Threads : again = {t}
            /\ listening => accepting \notin established

\* The server's registry holds sessions that a peer was connected to.  The client's need
\* not: a ConnectEx that failed is dispatched too.
RegisteredIsConnected == Server => registry \subseteq established

\* The threads whose Disconnect of a session won the exchange and has not released it yet.
Releasers(s) ==
    {t \in Threads : \E i \in DOMAIN stack[t] :
        /\ stack[t][i].call = "Disconnect" /\ stack[t][i].s = s
        /\ stack[t][i].at # "exchange"}

\* _connected and the registry tell the same, but for one thread: a session is registered
\* and not connected exactly while one Disconnect owes its release, whatever that call does
\* on the way.  It says nothing of how long that takes: on the client ReleaseSession may wait
\* for ever (see NoWaitCycle).
RegistryFollows ==
    \A s \in Sessions :
        IF s \in registry /\ ~connected[s]
        THEN \E t \in Threads : Releasers(s) = {t}
        ELSE Releasers(s) = {}

-----------------------------------------------------------------------------
(* What the proofs need beside the properties *)

\* What a call returns to: the call below it, or the loop of the thread.
Ground == Frame("none", NoSession, "none")
Below(t, i) == IF i < Len(stack[t]) THEN stack[t][i + 1] ELSE Ground

\* Which calls are made from which.
Rests(f, g) ==
    LET first == g = Ground \/ g.call = "RegisterAccept"
        told == g.call \in {"Execute", "Broadcast", "RegisterRecv"}
    IN  CASE f.call \in {"RegisterAccept", "ProcessSend", "Broadcast"} -> g = Ground
          [] f.call \in {"ProcessConnect", "RegisterRecv"} -> first
          [] f.call = "HandlePacket" -> g.call = "RegisterRecv"
          [] f.call = "Send" -> told
          [] f.call = "RegisterSend" ->
                told \/ (g.call = "ProcessSend" /\ g.at = "unlock" /\ g.s = f.s)
          [] f.call = "Disconnect" -> first \/ (g.call = "RegisterSend" /\ g.s = f.s)
          [] f.call = "Execute" ->
                \/ g = Ground
                \/ g.call = "RegisterRecv"
                \/ g.call = "Disconnect" /\ g.at = "release"
          [] OTHER -> FALSE

Shape ==
    \A t \in Threads : \A i \in DOMAIN stack[t] :
        /\ Rests(stack[t][i], Below(t, i))
        /\ (stack[t][i].s = NoSession) <=>
                (stack[t][i].call \in {"RegisterAccept", "Execute", "Broadcast"})

\* What a call has of its session or of the service: the right to receive, to send or to
\* release, its way into the registry, OnConnected, the accept loop, the Room, the lock; or
\* just a use, by ProcessConnect or by a guest that comes after it.
Holds(f, k) ==
    \/ k = "recv" /\ f.call \in {"ProcessConnect", "RegisterRecv"}
    \/ k = "send" /\ (f.call = "RegisterSend" \/ (f.call = "ProcessSend" /\ f.at = "lock"))
    \/ k = "disconnect" /\ f.call = "Disconnect" /\ f.at # "exchange"
    \/ k = "birth" /\ f.call = "ProcessConnect" /\ f.at # "hello"
    \/ k = "add" /\ f.call = "ProcessConnect" /\ f.at = "add"
    \/ k = "hello" /\ f.call = "ProcessConnect" /\ f.at = "hello"
    \/ k = "accept" /\ f.call = "RegisterAccept"
    \/ k = "execute" /\ f.call = "Execute"
    \/ k = "unlock" /\ f.call = "ProcessSend" /\ f.at = "unlock"
    \/ k = "use" /\ ~(f.call = "ProcessConnect" /\ f.at # "hello")
    \/ k = "guest" /\ f.call # "ProcessConnect"

Sits(t, k, s) == \E i \in DOMAIN stack[t] : stack[t][i].s = s /\ Holds(stack[t][i], k)
Held(k, s) == \E t \in Threads : Sits(t, k, s)

\* One call at most has each right.
Rights == {"recv", "send", "disconnect", "birth", "add", "hello", "accept", "execute"}
Sole ==
    \A k \in Rights, t, u \in Threads : \A i \in DOMAIN stack[t], j \in DOMAIN stack[u] :
        Holds(stack[t][i], k) /\ Holds(stack[u][j], k) /\ stack[t][i].s = stack[u][j].s
            => t = u /\ i = j

\* The kernel has an OVERLAPPED once, and then no call has the right to use it.
Kernel ==
    \A s \in Sessions : \A k \in Kinds :
        /\ pending[s][k] \in 0..1
        /\ k # "connect" /\ pending[s][k] = 1 => ~Held(k, s)

\* A session that is past its way into the registry (or was never to get there).
Joined(s) ==
    /\ s \in created /\ ~(listening /\ accepting = s)
    /\ pending[s]["connect"] = 0 /\ ~Held("birth", s)

\* Nothing else happens to a session before that.
Births ==
    /\ \A s \in Sessions :
        /\ (\/ s \in registry \cup chosen \cup audience \cup registered
            \/ Held("use", s)
            \/ \E k \in Kinds \ {"connect"} : pending[s][k] > 0)
           => Joined(s)
        /\ Held("birth", s) =>
            /\ s \in created /\ ~(listening /\ accepting = s)
            /\ pending[s]["connect"] = 0
            /\ Server => s \in established
        /\ Server \/ s \notin created => pending[s]["connect"] = 0
    /\ listening => Server /\ accepting \in created \ established
    /\ Server => registry \subseteq established

\* The atomics and the registry against the calls.
Flags ==
    \A s \in Sessions :
        /\ Held("send", s) \/ pending[s]["send"] = 1 => s \in registered
        /\ Held("disconnect", s) => s \in registry /\ ~connected[s]
        /\ pending[s]["disconnect"] = 1 => ~connected[s]
        /\ Held("add", s) => connected[s]
        /\ connected[s] => s \in registry \/ Held("add", s)
        /\ s \in registry => connected[s] \/ Held("disconnect", s)

\* The accept loop, the executor of the Room and the locks against the calls.
Loops ==
    /\ Held("accept", NoSession) <=> (Server /\ ~listening)
    /\ \A t \in Threads : Sits(t, "execute", NoSession) => executor = t
    /\ \A t \in Threads, s \in Sessions : lock[s] = t => Sits(t, "unlock", s)
    /\ lock[Service] \in {NoThread, Main}

\* A thread that is about to lock a session in Send is not disconnecting the same session
\* further down: _connected was false since.
NoReentry ==
    \A t \in Threads :
        At(t, "Send", "lock") => ~Sits(t, "disconnect", Of(t))

LifeInv ==
    /\ LifeTypeOK /\ Shape /\ Sole /\ Kernel /\ Births /\ Flags /\ Loops /\ NoReentry
    /\ ~crashed

-----------------------------------------------------------------------------
(* The promise *)

Phase(s) ==
    CASE s \notin created -> "none"
      [] s \in registry -> IF connected[s] THEN "open" ELSE "closing"
      [] s \in created \ registry -> IF Joined(s) THEN "gone" ELSE "new"

\* OnConnected was called; not of a session whose accept failed.
Welcomed(s) ==
    /\ IF Server THEN s \in established ELSE pending[s]["connect"] = 0
    /\ ~Held("birth", s) /\ ~Held("hello", s)

Receiving(s) == pending[s]["recv"] = 1 \/ (Held("recv", s) /\ ~Held("birth", s))

Life == INSTANCE SessionLife WITH
    Orderly <- Server,
    phase <- [s \in Sessions |-> Phase(s)],
    welcomed <- {s \in Sessions : Welcomed(s)},
    receiving <- {s \in Sessions : Receiving(s)}

\* The calls of all threads, however nested, are the life of a session as SessionLife tells
\* it: registered, told of, disconnected and released once each and in that order, with one
\* chain of receives.  On the client Broadcast may disconnect a session before its
\* OnConnected, which comes after AddSession.
LifeSpec == Life!Spec
=============================================================================
