------------------------------ MODULE GameRoom ------------------------------
(***************************************************************************)
(* The game: the packet handlers and session callbacks that run on worker  *)
(* threads, the jobs they post to the Room, and the Room, whose players    *)
(* and monsters only its jobs touch.  The Room's JobQueue is the serial    *)
(* actor of SerialQueues: a FIFO of jobs, each of them one step.           *)
(*                                                                         *)
(* A session has one receive outstanding, so one thread runs its packet    *)
(* handlers, while Disconnect may come from any thread (a failed send, a   *)
(* completion without bytes).  Every class choice makes another player of  *)
(* the session: a player is a session and the number of the choice, and    *)
(* GameSession::player is the last one that was made.                      *)
(***************************************************************************)
EXTENDS Integers, Sequences, FiniteSets

CONSTANTS
    Sessions,       \* the GameSession objects
    MonsterCount,   \* MonsterInit's count, 5
    MaxHp,          \* the hp of a new monster, 50
    Damages,        \* the damage of one C_HitMonster
    Positions,      \* where a C_PlayerMove puts a player
    Start,          \* where a new player is
    MaxMonsterId,   \* bound: how many monsters are ever spawned
    MaxActions,     \* bound: how many packets a client sends, its class choices included
    MaxPlayers      \* bound: how many players are ever made, over all clients

ASSUME CountAssumption ==
    /\ MonsterCount \in Nat /\ MaxMonsterId \in Nat /\ MonsterCount <= MaxMonsterId
    /\ MaxHp \in Nat \ {0}
    /\ MaxActions \in Nat /\ MaxPlayers \in Nat
ASSUME DamageAssumption == Damages \subseteq Nat

VARIABLES
    connected,  \* Session::_connected
    events,     \* the session's outstanding IocpEvents, each an owner reference
    inService,  \* Service::_sessions
    inManager,  \* GSessionManager::_sessions
    made,       \* per session: how many players were made; 0 while GameSession::player is null
    handler,    \* per session: where its receiving thread is
    held,       \* per session: the job a packet handler is about to post
    actions,    \* per session: how many packets the client has sent
    closing,    \* per session: where Disconnect is
    leaver,     \* per session: which of its players OnDisconnected loaded, 0 if none
    queue,      \* the jobs posted to the Room
    spawns,     \* pending DoTimer(1000, MonsterSpawn)
    players,    \* Room::_players
    position,   \* per player: playerInfo->positionx
    roomOf,     \* the players whose Player::room is the Room
    monsters,   \* Room::_monsters, each with its hp
    nextId,     \* the id generator
    view,       \* per session: the world the packets sent to the client describe
    crashed     \* the process ended: a null pointer, an assertion, an exception

sessionVars == <<connected, events, inService, inManager, made>>
handlerVars == <<handler, held, actions>>
closingVars == <<closing, leaver>>
worldVars == <<players, position, roomOf, monsters, nextId>>
roomVars == <<connected, events, inService, inManager, made, handler, held,
              actions, closing, leaver, queue, spawns, players, position, roomOf,
              monsters, nextId, view, crashed>>

\* A player, and its session: Player::session.
Players == Sessions \X (1..MaxActions)
Owner(p) == p[1]
Player(s, n) == <<s, n>>

Ids == 1..MaxMonsterId
Places == Positions \cup {Start}
Job ==
    [kind : {"enter", "leave"}, who : Players]
    \cup [kind : {"move"}, who : Players, to : Positions]
    \cup [kind : {"hit"}, who : Players, monster : Ids, damage : Damages]
    \cup [kind : {"spawn"}]
World == [players : SUBSET [who : Players, at : Places],
          monsters : SUBSET [id : Ids, hp : 1..MaxHp]]

\* Where a session's receiving thread can be.
Labels == {"new", "idle", "add", "create", "post", "register", "unhandled"}

NoJob == [kind |-> "none"]
Nothing == [players |-> {}, monsters |-> {}]

\* The Room is made with its monsters before any client is accepted.
Init ==
    /\ connected = [s \in Sessions |-> FALSE]
    /\ events = [s \in Sessions |-> {}]
    /\ inService = {}
    /\ inManager = {}
    /\ made = [s \in Sessions |-> 0]
    /\ handler = [s \in Sessions |-> "new"]
    /\ held = [s \in Sessions |-> NoJob]
    /\ actions = [s \in Sessions |-> 0]
    /\ closing = [s \in Sessions |-> "no"]
    /\ leaver = [s \in Sessions |-> 0]
    /\ queue = <<>>
    /\ spawns = 0
    /\ players = {}
    /\ position = [p \in Players |-> Start]
    /\ roomOf = {}
    /\ monsters = {[id |-> i, hp |-> MaxHp] : i \in 1..MonsterCount}
    /\ nextId = MonsterCount + 1
    /\ view = [s \in Sessions |-> Nothing]
    /\ crashed = FALSE

\* The shared_ptrs to a session: the two registries, its outstanding events and the
\* calls that run on it.  Player::session is a weak_ptr.
Alive(s) ==
    \/ s \in inService \/ s \in inManager \/ events[s] # {}
    \/ handler[s] \notin {"new", "idle"}
    \/ closing[s] \notin {"no", "done"}

\* The players made so far, and whether a session's class choice is about to make one.
Made == {p \in Players : p[2] <= made[Owner(p)]}
Choosing(s) == handler[s] \in {"add", "create"}

Post(j) == queue' = Append(queue, j)
At(s, l) == handler' = [handler EXCEPT ![s] = l]

-----------------------------------------------------------------------------
(* Receiving: ProcessConnect, ProcessRecv, the packet handlers *)

\* ProcessAccept calls ProcessConnect: AddSession and OnConnected; RegisterRecv is next,
\* and the first Send may already have failed by then.
ProcessConnect(s) ==
    /\ handler[s] = "new"
    /\ connected' = [connected EXCEPT ![s] = TRUE]
    /\ inService' = inService \cup {s}
    /\ At(s, "register")
    /\ UNCHANGED <<events, inManager, made, held, actions, closingVars, queue, spawns,
                   worldVars, view, crashed>>

\* A packet is taken from the receive that completed.  _connected is not looked at.
Receive(s, l) ==
    /\ handler[s] = "idle" /\ actions[s] < MaxActions
    /\ "recv" \in events[s]
    /\ events' = [events EXCEPT ![s] = @ \ {"recv"}]
    /\ actions' = [actions EXCEPT ![s] = @ + 1]
    /\ At(s, l)
    /\ UNCHANGED <<connected, inService, inManager, made, closingVars, queue, spawns,
                   worldVars, view>>

\* Handle_C_CLASS_CHOICE: GSessionManager.Add, CreatePlayer, DoAsync(HandleEnterPlayer).
\* Nothing asks whether the session has a player already.
ClassChoice(s) ==
    /\ Cardinality(Made) + Cardinality({r \in Sessions : Choosing(r)}) < MaxPlayers
    /\ Receive(s, "add")
    /\ UNCHANGED <<held, crashed>>

\* HandlePacket of an id for which Init set no handler: the call of an empty function throws.
UnknownPacket(s) == Receive(s, "unhandled") /\ crashed' = TRUE /\ UNCHANGED held

AddToManager(s) ==
    /\ handler[s] = "add"
    /\ inManager' = inManager \cup {s}
    /\ At(s, "create")
    /\ UNCHANGED <<connected, events, inService, made, held, actions, closingVars,
                   queue, spawns, worldVars, view, crashed>>

CreatePlayer(s) ==
    /\ handler[s] = "create"
    /\ made' = [made EXCEPT ![s] = @ + 1]
    /\ held' = [held EXCEPT ![s] = [kind |-> "enter", who |-> Player(s, made[s] + 1)]]
    /\ At(s, "post")
    /\ UNCHANGED <<connected, events, inService, inManager, actions, closingVars, queue,
                   spawns, worldVars, view, crashed>>

\* Handle_C_PLAYER_MOVE and Handle_C_HIT_MONSTER up to DoAsync:
\* without a player, or with one that is in no room, the packet is dropped.
Action(s, j) ==
    /\ IF made[s] # 0 /\ Player(s, made[s]) \in roomOf
       THEN Receive(s, "post") /\ held' = [held EXCEPT ![s] = j]
       ELSE Receive(s, "register") /\ UNCHANGED held
    /\ UNCHANGED crashed

Move(s) == \E x \in Positions :
    Action(s, [kind |-> "move", who |-> Player(s, made[s]), to |-> x])

\* A client hits a monster it can see.
Hit(s) == \E m \in view[s].monsters, d \in Damages :
    Action(s, [kind |-> "hit", who |-> Player(s, made[s]), monster |-> m.id, damage |-> d])

\* DoAsync of what the handler holds.
PostHeld(s) ==
    /\ handler[s] = "post"
    /\ Post(held[s])
    /\ held' = [held EXCEPT ![s] = NoJob]
    /\ At(s, "register")
    /\ UNCHANGED <<sessionVars, actions, closingVars, spawns, worldVars, view, crashed>>

\* RegisterRecv at the end of ProcessConnect and ProcessRecv: the next receive; none if the
\* session was disconnected, or if WSARecv fails with an error that is only logged; and
\* Disconnect if the connection was reset.
RegisterRecv(s) ==
    /\ handler[s] = "register"
    /\ At(s, "idle")
    /\ \/ /\ connected[s]
          /\ events' = [events EXCEPT ![s] = @ \cup {"recv"}]
          /\ UNCHANGED <<connected, closing>>
       \/ UNCHANGED <<events, connected, closing>>
       \/ /\ connected[s]
          /\ connected' = [connected EXCEPT ![s] = FALSE]
          /\ closing' = [closing EXCEPT ![s] = "load"]
          /\ UNCHANGED events
    /\ UNCHANGED <<inService, inManager, made, held, actions, leaver, queue, spawns,
                   worldVars, view, crashed>>

-----------------------------------------------------------------------------
(* Session::Disconnect and GameSession::OnDisconnected *)

\* The exchange lets one caller through, here one that failed to send.
Disconnect(s) ==
    /\ connected[s]
    /\ connected' = [connected EXCEPT ![s] = FALSE]
    /\ closing' = [closing EXCEPT ![s] = "load"]
    /\ UNCHANGED <<events, inService, inManager, made, handlerVars, leaver, queue,
                   spawns, worldVars, view, crashed>>

\* Mutant: the exchange's old value is not tested.
Recv0_Twice(s) ==
    /\ handler[s] = "idle"
    /\ "recv" \in events[s]
    /\ events' = [events EXCEPT ![s] = @ \ {"recv"}]
    /\ connected' = [connected EXCEPT ![s] = FALSE]
    /\ closing' = [closing EXCEPT ![s] = "load"]
    /\ UNCHANGED <<inService, inManager, made, handlerVars, leaver, queue, spawns,
                   worldVars, view, crashed>>

\* A receive completes with no bytes: Disconnect from ProcessRecv.
Recv0(s) ==
    /\ handler[s] = "idle"
    /\ "recv" \in events[s]
    /\ events' = [events EXCEPT ![s] = @ \ {"recv"}]
    /\ connected' = [connected EXCEPT ![s] = FALSE]
    /\ closing' = [closing EXCEPT ![s] = IF connected[s] THEN "load" ELSE @]
    /\ UNCHANGED <<inService, inManager, made, handlerVars, leaver, queue, spawns,
                   worldVars, view, crashed>>

\* Mutant: only a player that is already in the room is told to leave it.
LoadPlayer_InRoom(s) ==
    /\ closing[s] = "load"
    /\ leaver' = [leaver EXCEPT ![s] = made[s]]
    /\ closing' = [closing EXCEPT ![s] =
                     IF Player(s, made[s]) \in roomOf THEN "leave" ELSE "release"]
    /\ UNCHANGED <<sessionVars, handlerVars, queue, spawns, worldVars, view, crashed>>

\* OnDisconnected returns at once when the session has no player.
LoadPlayer(s) ==
    /\ closing[s] = "load"
    /\ leaver' = [leaver EXCEPT ![s] = made[s]]
    /\ closing' = [closing EXCEPT ![s] = IF made[s] # 0 THEN "leave" ELSE "release"]
    /\ UNCHANGED <<sessionVars, handlerVars, queue, spawns, worldVars, view, crashed>>

PostLeave(s) ==
    /\ closing[s] = "leave"
    /\ Post([kind |-> "leave", who |-> Player(s, leaver[s])])
    /\ closing' = [closing EXCEPT ![s] = "remove"]
    /\ UNCHANGED <<sessionVars, handlerVars, leaver, spawns, worldVars, view, crashed>>

RemoveFromManager(s) ==
    /\ closing[s] = "remove"
    /\ inManager' = inManager \ {s}
    /\ closing' = [closing EXCEPT ![s] = "release"]
    /\ UNCHANGED <<connected, events, inService, made, handlerVars, leaver, queue,
                   spawns, worldVars, view, crashed>>

\* ReleaseSession asserts that the session was registered; then RegisterDisconnect,
\* whose DisconnectEx may fail at once.
ReleaseSession(s) ==
    /\ closing[s] = "release"
    /\ crashed' = (s \notin inService)
    /\ inService' = inService \ {s}
    /\ \E e \in {{}, {"disconnect"}} : events' = [events EXCEPT ![s] = @ \cup e]
    /\ closing' = [closing EXCEPT ![s] = "done"]
    /\ UNCHANGED <<connected, inManager, made, handlerVars, leaver, queue, spawns,
                   worldVars, view>>

ProcessDisconnect(s) ==
    /\ "disconnect" \in events[s]
    /\ events' = [events EXCEPT ![s] = @ \ {"disconnect"}]
    /\ UNCHANGED <<connected, inService, inManager, made, handlerVars, closingVars,
                   queue, spawns, worldVars, view, crashed>>

-----------------------------------------------------------------------------
(* The jobs of the Room *)

\* Send reaches the client while the session lives and is connected.
Hears(s) == Alive(s) /\ connected[s]

\* Room::Broadcast to ps of a packet after which each client's world is as in told.
Reaches(ps, s) == Hears(s) /\ \E p \in ps : Owner(p) = s
Broadcast(ps, told) ==
    view' = [s \in Sessions |-> IF Reaches(ps, s) THEN told[s] ELSE view[s]]

Info(p) == [who |-> p, at |-> position[p]]
WithPlayer(v, i) == [v EXCEPT !.players = {x \in @ : x.who # i.who} \cup {i}]
WithMonster(v, m) == [v EXCEPT !.monsters = {x \in @ : x.id # m.id} \cup {m}]

Running(kind) == queue # <<>> /\ Head(queue).kind = kind /\ queue' = Tail(queue)

\* What EnterRoom tells a new player: itself, the others and the monsters.
Entrance(p) == [players |-> {Info(q) : q \in players \cup {p}}, monsters |-> monsters]

\* Mutant: nobody is told of the new player.
RunEnter_Silent ==
    /\ Running("enter")
    /\ LET p == Head(queue).who
       IN  /\ players' = players \cup {p}
           /\ roomOf' = roomOf \cup {p}
           /\ view' = [view EXCEPT ![Owner(p)] = IF Hears(Owner(p)) THEN Entrance(p) ELSE @]
    /\ UNCHANGED <<sessionVars, handlerVars, closingVars, spawns, position, monsters,
                   nextId, crashed>>

\* EnterRoom: AddObject; S_EnterGame to the new player, S_PlayerSpawn to the others,
\* then the others and the monsters to the new player.
RunEnter ==
    /\ Running("enter")
    /\ LET p == Head(queue).who
       IN  /\ players' = players \cup {p}
           /\ roomOf' = roomOf \cup {p}
           /\ view' = [s \in Sessions |->
                        CASE s = Owner(p) /\ Hears(s) -> Entrance(p)
                          [] s # Owner(p) /\ Reaches(players, s) -> WithPlayer(view[s], Info(p))
                          [] OTHER -> view[s]]
    /\ UNCHANGED <<sessionVars, handlerVars, closingVars, spawns, position, monsters,
                   nextId, crashed>>

\* LeaveRoom: RemoveObject, then S_PlayerDespawn to those who stay.
RunLeave ==
    /\ Running("leave")
    /\ LET p == Head(queue).who
           without == [s \in Sessions |->
                        [view[s] EXCEPT !.players = {x \in @ : x.who # p}]]
       IN  /\ players' = players \ {p}
           /\ roomOf' = IF p \in players THEN roomOf \ {p} ELSE roomOf
           /\ Broadcast(players \ {p}, without)
    /\ UNCHANGED <<sessionVars, handlerVars, closingVars, spawns, position, monsters,
                   nextId, crashed>>

\* HandleMove: a player that is not in the room any more is ignored; otherwise
\* S_PlayerMove goes to everybody, the mover included.
RunMove ==
    /\ Running("move")
    /\ LET p == Head(queue).who
           i == [who |-> p, at |-> Head(queue).to]
           moved == [s \in Sessions |->
                        IF \E x \in view[s].players : x.who = p
                        THEN WithPlayer(view[s], i) ELSE view[s]]
       IN  IF p \in players
           THEN /\ position' = [position EXCEPT ![p] = i.at]
                /\ Broadcast(players, moved)
           ELSE UNCHANGED <<position, view>>
    /\ UNCHANGED <<sessionVars, handlerVars, closingVars, spawns, players, roomOf,
                   monsters, nextId, crashed>>

\* Mutant: a monster with no hp left survives.
RunHit_Zero ==
    /\ Running("hit")
    /\ \E m \in monsters :
        LET hurt == [m EXCEPT !.hp = @ - Head(queue).damage]
            told == [t \in Sessions |-> WithMonster(view[t], hurt)]
        IN  /\ m.id = Head(queue).monster
            /\ hurt.hp >= 0
            /\ monsters' = (monsters \ {m}) \cup {hurt}
            /\ Broadcast(players, told)
    /\ UNCHANGED <<sessionVars, handlerVars, closingVars, spawns, players, position,
                   roomOf, nextId, crashed>>

\* MonsterHitAndSetTarget and TakeDamage on a monster that survives.
RunHit ==
    /\ Running("hit")
    /\ \E m \in monsters :
        LET hurt == [m EXCEPT !.hp = @ - Head(queue).damage]
            told == [t \in Sessions |-> WithMonster(view[t], hurt)]
        IN  /\ m.id = Head(queue).monster
            /\ hurt.hp > 0
            /\ monsters' = (monsters \ {m}) \cup {hurt}
            /\ Broadcast(players, told)
    /\ UNCHANGED <<sessionVars, handlerVars, closingVars, spawns, players, position,
                   roomOf, nextId, crashed>>

\* TakeDamage on one that dies: the killer, looked up in _players and then through
\* its weak session, gets S_GetExp, everybody S_MonsterDespawn, and another monster is
\* due later.  A killer that is gone is a null pointer.
RunKill ==
    /\ Running("hit")
    /\ \E m \in monsters :
        LET p == Head(queue).who
            without == [t \in Sessions |->
                            [view[t] EXCEPT !.monsters = {x \in @ : x.id # m.id}]]
        IN  /\ m.id = Head(queue).monster
            /\ m.hp - Head(queue).damage <= 0
            /\ IF p \in players /\ Alive(Owner(p))
               THEN /\ monsters' = monsters \ {m}
                    /\ Broadcast(players, without)
                    /\ spawns' = spawns + 1
                    /\ UNCHANGED crashed
               ELSE /\ crashed' = TRUE
                    /\ UNCHANGED <<monsters, view, spawns>>
    /\ UNCHANGED <<sessionVars, handlerVars, closingVars, players, position, roomOf,
                   nextId>>

\* Mutant: a hit on a dead monster reserves another successor.
RunMiss_Respawn ==
    /\ Running("hit")
    /\ \A m \in monsters : m.id # Head(queue).monster
    /\ spawns' = spawns + 1
    /\ UNCHANGED <<sessionVars, handlerVars, closingVars, worldVars, view, crashed>>

\* The monster is not there: the message of Room.cpp:327.
RunMiss ==
    /\ Running("hit")
    /\ \A m \in monsters : m.id # Head(queue).monster
    /\ UNCHANGED <<sessionVars, handlerVars, closingVars, spawns, worldVars, view, crashed>>

\* MonsterSpawn: a new monster, told to everybody.
RunSpawn ==
    /\ Running("spawn")
    /\ LET m == [id |-> nextId, hp |-> MaxHp]
           told == [t \in Sessions |-> WithMonster(view[t], m)]
       IN  /\ monsters' = monsters \cup {m}
           /\ Broadcast(players, told)
    /\ nextId' = nextId + 1
    /\ UNCHANGED <<sessionVars, handlerVars, closingVars, spawns, players, position,
                   roomOf, crashed>>

\* JobTimer::Distribute pushes a job that is due.
SpawnDue ==
    /\ spawns > 0
    /\ nextId + Cardinality({i \in DOMAIN queue : queue[i].kind = "spawn"}) <= MaxMonsterId
    /\ spawns' = spawns - 1
    /\ Post([kind |-> "spawn"])
    /\ UNCHANGED <<sessionVars, handlerVars, closingVars, worldVars, view, crashed>>

-----------------------------------------------------------------------------
RunJob == \/ RunEnter \/ RunLeave \/ RunMove \/ RunHit \/ RunKill \/ RunMiss \/ RunSpawn

HandlerStep(s) == AddToManager(s) \/ CreatePlayer(s) \/ PostHeld(s) \/ RegisterRecv(s)
ClosingStep(s) == LoadPlayer(s) \/ PostLeave(s) \/ RemoveFromManager(s) \/ ReleaseSession(s)
Packet(s) == ClassChoice(s) \/ Move(s) \/ Hit(s) \/ UnknownPacket(s)

\* A process that ended does nothing any more.
Step(A) == ~crashed /\ A

Next ==
    \/ Step(RunJob)
    \/ Step(SpawnDue)
    \/ \E s \in Sessions :
        \/ Step(ProcessConnect(s))
        \/ Step(Packet(s))
        \/ Step(HandlerStep(s))
        \/ Step(Disconnect(s))
        \/ Step(Recv0(s))
        \/ Step(ClosingStep(s))
        \/ Step(ProcessDisconnect(s))

\* The worker threads run on, and the Room's jobs are run (what JobQueue shows).
Spec ==
    /\ Init
    /\ [][Next]_roomVars
    /\ WF_roomVars(Step(RunJob))
    /\ \A s \in Sessions :
        /\ WF_roomVars(Step(HandlerStep(s)))
        /\ WF_roomVars(Step(ClosingStep(s)))

-----------------------------------------------------------------------------
TypeOK ==
    /\ connected \in [Sessions -> BOOLEAN]
    /\ events \in [Sessions -> SUBSET {"recv", "disconnect"}]
    /\ inService \subseteq Sessions
    /\ inManager \subseteq Sessions
    /\ made \in [Sessions -> 0..MaxActions]
    /\ handler \in [Sessions -> Labels]
    /\ held \in [Sessions -> Job \cup {NoJob}]
    /\ actions \in [Sessions -> 0..MaxActions]
    /\ closing \in [Sessions -> {"no", "load", "leave", "remove", "release", "done"}]
    /\ leaver \in [Sessions -> 0..MaxActions]
    /\ queue \in Seq(Job)
    /\ spawns \in Nat
    /\ players \subseteq Players
    /\ position \in [Players -> Places]
    /\ roomOf \subseteq Players
    /\ monsters \subseteq [id : Ids, hp : 1..MaxHp]
    /\ nextId \in 1..(MaxMonsterId + 1)
    /\ view \in [Sessions -> World]
    /\ crashed \in BOOLEAN

\* What the packets sent to a client describe is the Room: the same players in the same
\* places, the same monsters with the same hp.  No spawn, despawn, move or hit is missed
\* by a player that enters while others act.
ViewsAgree ==
    \A p \in players : connected[Owner(p)] =>
        /\ view[Owner(p)].players = {Info(q) : q \in players}
        /\ view[Owner(p)].monsters = monsters

Count(kind) == Cardinality({i \in DOMAIN queue : queue[i].kind = kind})

\* "N monsters are kept" (Room.cpp:245): a monster is in the room or its successor is
\* on the way, however many players hit it at once.
MonstersKept ==
    ~crashed => Cardinality(monsters) + spawns + Count("spawn") = MonsterCount

\* ReleaseSession's ASSERT_CRASH never fires: whoever gets through Disconnect's
\* exchange finds the session registered, and nobody else releases it.
ReleasedOnce == \A s \in Sessions : closing[s] # "no" /\ closing[s] # "done" => s \in inService

\* Two things end the process: a packet whose id has no handler (ServerPacketHandler.h:77),
\* and the killer that TakeDamage looks up when a hit runs (Monster.cpp:223), which is null
\* only if that client's session is not connected any more.  However often clients choose
\* their class, and whoever disconnects them, no assertion and no other null pointer does.
CrashCauses ==
    [][~crashed /\ crashed' =>
          \/ \E s \in Sessions : UnknownPacket(s)
          \/ /\ queue # <<>> /\ Head(queue).kind = "hit"
             /\ ~connected[Owner(Head(queue).who)]]_roomVars

\* What the proofs need beside the properties.  A session that is connected has not begun
\* to close and is registered.
Registered == \A s \in Sessions : connected[s] => closing[s] = "no" /\ s \in inService

\* A handler holds a job between making and posting it only, and an entry is that of the
\* player it made last.
Handlers ==
    \A s \in Sessions :
        /\ held[s] \in Job <=> handler[s] = "post"
        /\ held[s].kind = "enter" => held[s].who = Player(s, made[s])
        /\ held[s].kind # "spawn"

\* Every player comes of a class choice of its own, and one is there to leave.
Choices ==
    \A s \in Sessions :
        /\ made[s] <= actions[s]
        /\ Choosing(s) => made[s] < actions[s]
        /\ closing[s] = "leave" => leaver[s] # 0

\* A session that was not accepted yet has no player, and only players that were made are
\* in the Room or on their way to it.
Newcomers ==
    /\ \A s \in Sessions : handler[s] = "new" => /\ closing[s] = "no" /\ ~connected[s]
                                                 /\ made[s] = 0
    /\ players \subseteq Made
    /\ \A i \in DOMAIN queue : queue[i].kind = "enter" => queue[i].who \in Made

\* Monsters differ in their ids, and those to come get others.
MonsterIds ==
    /\ IsFiniteSet(monsters)
    /\ \A m, n \in monsters : m.id = n.id => m = n
    /\ \A m \in monsters : m.id < nextId
    /\ nextId + Count("spawn") <= MaxMonsterId + 1

GameInv ==
    /\ TypeOK /\ Registered /\ Handlers /\ Choices /\ Newcomers /\ ReleasedOnce
    /\ MonsterIds /\ MonstersKept /\ ViewsAgree

\* A session whose Disconnect is over and which no thread or event uses any more.
Gone(s) == closing[s] = "done" /\ handler[s] = "idle" /\ events[s] = {}

\* "Check that the destructor is called when a client goes (= the ref count is well
\* managed)" (Session.cpp:19): a session that is gone is in no registry.
GoneIsReleased == \A s \in Sessions : Gone(s) => ~Alive(s)

\* The player is in the room or its HandleEnterPlayer is on the way.
Entering(p) == p \in players \/ \E i \in DOMAIN queue : queue[i] = [kind |-> "enter", who |-> p]

\* A player whose entry was posted before its session began to disconnect leaves the
\* room: HandleLeavePlayer is posted whatever the Room has done by then.  It is the
\* session's last player that leaves: a class choice that replaces it before OnDisconnected
\* loads it makes another one leave.
EnteredPlayerLeaves ==
    \A p \in Players :
        (Entering(p) /\ closing[Owner(p)] = "load" /\ made[Owner(p)] = p[2])
            ~> (~Entering(p) \/ crashed \/ leaver[Owner(p)] \notin {0, p[2]})

\* The session has a player, and no class choice is under way: the last entry was posted.
Settled(s) ==
    /\ made[s] # 0
    /\ ~Choosing(s)
    /\ held[s].kind # "enter"

\* HandleLeavePlayer waits behind the player's entry, or has run and will not be undone.
LeaveIsLast(p) ==
    \/ \E k \in DOMAIN queue :
        /\ queue[k] = [kind |-> "leave", who |-> p]
        /\ \A i \in DOMAIN queue : queue[i] = [kind |-> "enter", who |-> p] => i < k
    \/ ~Entering(p)

\* Where the disconnection of a session with this player stands: what it has to have done.
Departed(s, p) ==
    \/ closing[s] = "leave"
    \/ closing[s] = "remove" /\ LeaveIsLast(p)
    \/ closing[s] = "release" /\ LeaveIsLast(p) /\ s \notin inManager
    \/ closing[s] = "done" /\ LeaveIsLast(p) /\ s \notin inManager \cup inService

\* A disconnection on its way to where the session is in no registry and its player in no
\* room.
Departing(s) ==
    /\ Settled(s)
    /\ \/ closing[s] = "load"
       \/ leaver[s] = made[s] /\ Departed(s, Player(s, made[s]))

\* A class choice comes out of the session's receive buffer.
Chooses(s) == handler[s] = "idle" /\ handler'[s] = "add"

\* A disconnection that no class choice overtakes takes away the session and its player,
\* however it interleaves with the handlers, which go on with packets that came before it,
\* and with the Room.  What stays is what a class choice makes after the disconnection
\* began (GoneIsReleased), and the players that the last one replaced.
OrderlyDeparture ==
    [][\A s \in Sessions : Departing(s) => Departing(s)' \/ Chooses(s)]_roomVars
=============================================================================
