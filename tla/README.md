# A TLA+ verification project for CPPGameServer25

CPPGameServer25 is a Windows IOCP game server in C++: a small core library
(`ServerCore`: completion port, sessions, buffers, job queues, timers), a game
on top of it (`GameServer`: one room with players and monsters) and a load
client (`DummyClient`). This directory holds TLA+ models of all of its own
logic that keeps state, the TLC runs that check them on small instances, and
TLAPS proofs of their safety properties for every number of threads, sessions,
queues, jobs, players and monsters. Paths below are relative to the repository.

## 1. Inventory

| Part | Code | State | Operations | Modelled by |
|---|---|---|---|---|
| JobQueue, LockQueue, Job | `ServerCore/JobQueue.*`, `LockQueue.h`, `Job.h` | atomic `_jobCount`, locked FIFO `_jobs`, thread-local `LCurrentJobQueue` | `Push` (DoAsync), `Execute` | `JobQueue`, promise: `SerialQueues` |
| GlobalQueue, worker loop | `GlobalQueue.cpp`, `ThreadManager.cpp`, `GameServer.cpp` | locked FIFO of queues, thread-local `LEndTickCount` | `Launch`, `DoWorkerJob`, `DoGlobalQueueWork` | `JobQueue` |
| JobTimer | `JobTimer.*` | locked heap `_items`, atomic `_distributing` | `Reserve` (DoTimer), `Distribute` | `JobTimer` |
| RecvBuffer, framing | `RecvBuffer.*`, `Session.cpp` (`ProcessRecv`, `OnRecv`) | one allocation, two cursors | `OnWrite`, `OnRead`, `Clean`, packet loop | `PacketRecv` |
| Session, sending | `Session.cpp` | `_sendQueue`, atomic `_sendRegistered`, one `SendEvent`, mutex | `Send`, `RegisterSend`, `ProcessSend` | `SessionSend` |
| Session, lifecycle | `Session.cpp` | atomic `_connected`, events with owner references, mutex | connect, receive, send, disconnect, nested in one another | `SessionLifecycle`, promise: `SessionLife`; owners also in `GameRoom` |
| Service | `Service.*` | set of sessions under one lock | `AddSession`, `ReleaseSession`, `Broadcast`, `Start` | `SessionLifecycle` |
| Listener | `Listener.*` | one `AcceptEvent` | `StartAccept`, `RegisterAccept`, `ProcessAccept` | `SessionLifecycle` |
| IocpCore, IocpEvent | `IocpCore.*` | the kernel's `OVERLAPPED`s and their owners | `Dispatch` | `SessionLifecycle` |
| Handlers, GameSession, manager | `GameServer/*Session*.cpp`, `ServerPacketHandler.cpp`, `ObjectUtils.cpp` | atomic `player`, set of sessions, id generator | class choice (any number of times), move, hit, unknown packet, disconnect | `GameRoom` |
| Room | `Room.*`, `Player.h`, `Object.h` | `_players`, `_monsters`, weak room links | enter, leave, move, hit, spawn, broadcast, `UpdateTick` | `GameRoom`; `UpdateTick` in `Monster` |
| Monster | `Monster.*` | state, hp, target, position, stun and think clocks | `Update`, `Think`, `TakeDamage`, `SetTarget` | `Monster`, hp also in `GameRoom` |
| DummyClient | `DummyClient.cpp` | none of its own | connects, two sending threads, `Broadcast` | `SessionLifecycle` (`Server = FALSE`), `SessionSend` (`SendRace`) |
| Rest | sockets, addresses, `SendBuffer`, readers, generated protobuf, vendored libraries | none that changes, or third-party | | not modelled |

How they interact. Five threads run `DoWorkerJob`: take one completion from the
port (at most 10 ms), distribute due timers, execute queues from the global
queue until 64 ms have passed. A completion runs a session callback or packet
handler, which posts a job to the room (`DoAsync`). The thread whose post makes
the counter leave zero executes the room's queue at once, unless it is already
inside a queue, in which case it publishes the queue. Room jobs read and write
players and monsters without locks, send packets through sessions, and reserve
later jobs with the timer, whose distributor posts them back. A send that fails
disconnects from within `Send`, and a disconnection posts a job: one call may
lead through all of them.

What is hard about it: the counter and the FIFO are updated in two steps;
ownership of a queue passes between threads in four ways; a timer's distributor
executes jobs while its flag keeps the others out; one reused `OVERLAPPED` per
direction; a lock held while foreign code runs; a session is disconnected from
any thread while its handlers run; a job acts on players and monsters that were
there when it was posted; two copies of a monster's position are told to clients.

What makes each part correct:
* job queue: one executor at a time, nothing stranded, FIFO, every job run;
* timer: one distributor, every reserved job posted once, in tick order, run;
* receiving: the unread bytes stay intact and contiguous, room for a whole
  block, no overlap in `memcpy`, packets whole and in order, none held back;
* sending: one outstanding send, nothing stranded, lost or reordered;
* lifecycle: registered, told of, disconnected and released once each and in
  that order; one operation per `OVERLAPPED`, one call that owes the release of
  a session disconnected but registered, accepting never stops, no workers wait
  for locks in a circle;
* game: what each client was told is the room; monsters plus respawns stay
  constant; a session is released once; an orderly disconnection leaves it in no
  registry and its last player in no room; nothing ends the process but a packet
  whose id has no handler and the hit of a client that is disconnected by then;
* monsters: all clients see the same ones, in the map; a monster comes closer to
  its target, gets there and stays with it; a stun lasts.

## 2. The modules

`SerialQueues` is the abstract promise of a job queue: per queue a sequence of
pending jobs; post appends, complete takes the head; every job completes.

`JobQueue` is the detailed model. A worker has a `stage` (the call of
`DoWorkerJob` it is in) and a `pc` (the next access to shared state inside Push
or Execute). One action per access: `BeginPush` is `fetch_add`, `Enqueue` is
`_jobs.Push` with the decision that follows it, `Publish` the global push,
`PopAll`, `RunJob`, `Subtract` (`fetch_sub`), `ReadClock` (the deadline test),
`GlobalPop`. `LaunchWorkers`, `EndNetwork`, `EndTimer` and `EndRound` are main and the loop.
The tick count is abstracted to before, at or after the worker's deadline,
which only grows until the next round; `Execute` tests `>=` and
`DoGlobalQueueWork` tests `>`, hence three values. Time passes while something
is pushed or run: the other steps are short beside the 64 ms of a round, of which `Dispatch`
can take at most 10. Main posts before its first round, with a deadline of 0.

`JobTimer` EXTENDS `JobQueue` and adds the timer: `BeginReserve`/`EndReserve`
(the tick is read outside the lock), `ReadNow`, `Enter`/`Skip` (the exchange),
`PopDue`, `PushDue` (a `BeginPush` of the underlying model, so a distributor may
execute a whole queue), `Leave`. Equal ticks come out in any order.

`PacketRecv` is the receive path of a session. A byte is its offset in the
stream, `buffer` says which byte is in which place, and the cursors move as in
`RecvBuffer.cpp`. A header is read from the bytes under the cursor; when these
are not the bytes of a header its value is arbitrary. The peer sends well-formed
packets (this is a correctness model; the size field is 16 bits, `MaxPacket`).
At the end of `ProcessRecv`, `RegisterRecv` has every outcome of the code: the
next receive is posted, or another thread has disconnected the session, or the
connection was reset, or `WSARecv` failed otherwise and the session is deaf.

`SessionSend` is the send path, with the critical sections as intervals because
`RegisterSend` pops `_sendQueue` with its lock commented out. `Serial` selects
the environment: the server's sends of one session are jobs of the one Room or
precede its first receive, so they come one after another; `DummyClient` sends
from two threads.

`SessionLifecycle` composes Listener, Session, Service, the completion port and
the Room at the level of calls. `stack[t]` is the stack of calls of thread `t`,
each frame a function, a session and the place in the function that comes next;
an idle worker takes a completion (`Take`), after which the thread's innermost
call goes on (`Run`): it steps (`Goto`), returns, or calls. So a failed
`WSASend` under the lock of `ProcessSend` may be five calls deep, `Disconnect`,
the post of the leave job, the execution of the whole Room and its `Send`s. The
locks that are held across calls (`Session`'s in `ProcessSend`, the registry's
in the client's `Broadcast`) are state; the Room is the serial actor of
`SerialQueues` with its executor visible. Every kernel operation may succeed,
fail with a reset or fail otherwise, on issue and on completion. `Server`
selects GameServer or DummyClient. Messages are one bit per session (something
is queued), a job is an entry, a leave or a packet that tells everybody.
`MCSessionLifecycle` adds the symmetry of sessions and workers.

`SessionLife` is the abstract promise of Listener, Session and Service to the
code above them: per session a phase (none, new, open, closing, gone), whether
`OnConnected` was called, and whether it still receives. `SessionLifecycle`
implements it by a refinement mapping (`Phase`, `Welcomed`, `Receiving`): the
phase is read off the registry and `_connected`, a session was welcomed when no
`ProcessConnect` before its `RegisterRecv` is on any stack, and receives while the
kernel has its receive or a call is about to post it. `Orderly` is true of the
server: there nobody but the connecting thread can disconnect a session before
`OnConnected`; in the client `Broadcast` can, since `AddSession` comes first.

`GameRoom` is the game with the room's job queue taken as the serial actor that
`JobQueue` implements. Per session: the registries and outstanding events that
own it, where its receiving thread is (`handler`), where its `Disconnect` is
(`closing`). Every class choice makes a player, since the handler asks for
nothing: a player is a session and the number of the choice, `made[s]` of them
exist, `GameSession::player` is the last, and `leaver[s]` is the one that
`OnDisconnected` loaded. Jobs are records in `queue`; each `Run...` action is a whole job
with all it broadcasts. `view[s]` is the world the packets sent to `s` describe.
A null dereference, a failed assertion and the call of an empty packet handler
(`UnknownPacket`) set `crashed`, after which nothing happens. `RegisterRecv` may
leave a session deaf or disconnect it. `UpdateTick` and
what monsters do over time are in `Monster`, an outstanding send among the
owners of a session is in `SessionLifecycle`. `MCGameRoom` adds symmetry and a
specification without fairness.

`Monster` is the room over time: `UpdateTick` runs `Update` on every monster,
other jobs let players enter, move, leave and hit. `Update` is the composition
of the functions it calls (`UpdateThink`, `UpdateMove`, `UpdateInfo`,
`BroadcastMove`), each an operator on the monster's record. Time passes in units
of a `Second`; the clocks of a monster count units since they were set and stop
at the last value that a test tells apart. The first `_thinkInterval` is what
was in memory: reached already, or never reached. The stun is compared as in the
code, in nanoseconds. The vertical coordinate is constant and left out.

`JobQueueProofs`, `JobTimerProofs`, `SerialQueuesProofs`, `PacketRecvProofs`,
`SessionSendProofs`, `SessionLifecycleProofs`, `GameRoomProofs` and
`MonsterProofs` hold the theorems, one module beside each model.

## 3. Runs

| Run | Bounds | Shows |
|---|---|---|
| `JobQueue` | 2 workers, 2 queues, 3 jobs, any callers | `SingleHolder`, `NoLostWakeup`, `CountExact`, implements `SerialQueues` with its liveness |
| `JobTimer` | 2 workers, 1 queue, 3 jobs, delays 0 and 1, last tick 1 | one distributor, posted once, tick order, every timer fires |
| `PacketRecv` | header 2, packets of 2 to 4 bytes, 5 packets, block 4, 3 blocks | window exact, room, no self-made disconnection, packets in order and none held back, copies disjoint, all delivered but to a session that is disconnected from outside or deaf (0.25 million states) |
| `SessionSend` | 2 senders, 2 completion workers, 3 messages | one send at a time, nothing stranded, exact stream, lock respected, all sent |
| `SendRace` (violation) | main and IOCP thread of the client, 2 messages | push and drain of the same `std::queue` overlap |
| `MCSessionLifecycle` | server, 3 sessions, 2 workers, 1 job waiting (0.5 million states) | no circular wait, the assertion of `ReleaseSession` holds, one operation per `OVERLAPPED`, one accept, implements `SessionLife` (so only connected peers are registered) |
| `ClientLifecycle` | client, 2 sessions, 2 workers and main, 1 job (0.6 million states) | `_connected` and the registry agree, but for a session whose release exactly one `Disconnect` under way still owes; not that it gets there, since main may wait for itself |
| `MCGameRoom` | 2 sessions, 2 packets each (class choices included), 2 players in all, 1 position besides the first, 1 monster of 2 hp, damages 1 and 2, 1 respawn (1.7 million states) | views agree, monsters kept, two causes of a crash and no third |
| `GameRoomLive` | 1 session, 4 packets, up to 3 class choices, same monster | an orderly disconnection stays one, and the last player that entered leaves after it |
| `GhostSession` (violation) | as `MCGameRoom` | a session that is gone stays in `GSessionManager` |
| `Monster` | 2 players, 1 monster of 3 hp, map 0..4, players at 2 or 7, speed 1, second of 1 unit | one world for all, every update brings a monster closer to its target and keeps it there, it gets there |
| `MonsterStun` (violation) | as `Monster` | a stun of two seconds ends at the next update |

Why the bounds are enough. Two workers give every pair of roles (pusher and
executor, executor and global popper, distributor and late distributor); two
queues give nesting and publication from inside a queue; with three jobs one
runs, one is queued and one is being pushed. `PacketRecv` scales the buffer so
that every branch of `Clean` occurs, with partial headers and bodies at every
offset; the ratio of block to packet size is the code's (a packet never exceeds
a block). In `SessionLifecycle` the last session is kept for the next `AcceptEx`
(the kernel would otherwise have none to accept with), so three sessions give two that
are connected: one that fails while the other is sent to. A thread receives no packet
while `MaxJobs` jobs wait; what another thread has received already and the leave
jobs of `Disconnect` come on top of that. In the game two sessions give an actor and a witness,
or two actors on one monster; two players are one of each session or both of one
session, whose second class choice replaces the first player (with four, both at
once, the run takes 4.3 million states and more than five minutes, and passes
too); `GameRoomLive` has one session, since a disconnection is
about its own class choices, and so has room for three of them; the second monster that can be spawned shows the
respawn. In `Monster` one position is inside the map and one beyond its border,
so that a monster turns, overshoots and is clamped; monsters do not look at one
another, so one is enough. What TLC shows on these instances the theorems of
section 5 show for all, but for liveness.
Deadlock is checked where the system never stops (`JobQueue`, `JobTimer`). The
other models end when their bounded inputs are used up or the process crashed;
in `SessionLifecycle` a circular wait is a property of its own, `NoWaitCycle`.

Fairness. Workers keep running (`WF` on each worker's own steps): operating
system threads in an endless loop. Nothing is asked of callers of `Push`. In
`SessionSend` the mutex acquisitions are strongly fair, since each lock is held
for a few instructions again and again, and outstanding sends complete because
the kernel completes them. In `PacketRecv` bytes that were sent are received at
last. `SessionLifecycle` states no fairness: that its threads do not wait for one
another is the invariant `NoWaitCycle`. In `GameRoom` the room's jobs run (what `SerialSpec`
shows of `JobQueue`), and handlers and disconnections go on. In `Monster` time
passes and `UpdateTick` runs again and again (what `EveryTimerFires` shows).

Every property of a passing run has a mutant in `PROJECT.json`: a definition
named `<Action>_<Flaw>` next to the action, a plausible mistake in that piece of
code that makes the property fail under the same configuration.

## 4. Findings

1. `Session.cpp:166`: the drain of `_sendQueue` is not under the lock that
   `Session.cpp:292` says it needs. Harmless on the server (the run `SessionSend`
   and the theorem `QueueIsGuarded` show that there push and drain never meet), a
   data race in `DummyClient`. Taking the lock there is no repair: `ProcessSend`
   holds it already.
2. `GameSession.cpp:23`: a disconnection during the class choice leaves the
   session in `GSessionManager` and its player in the room for ever, against
   `Session.cpp:19` and `:39`. A second class choice that is under way while the
   session is disconnected does the same. The theorem `NoOtherGhosts` shows what
   there is besides: nothing for the session, since a disconnection that finds the
   class choices done, and is not overtaken by another, takes it out of every
   registry; and for players only those that a later choice replaced (see below).
3. `Monster.cpp:60`: the end of a stun is tested in nanoseconds against a
   duration of 2.0f, which the comment at `:59` and the conversion of the other
   clock at `:54` mean in seconds: every stun ends at the next update.

Four more things that no sentence of the repository contradicts, so no run
claims them:

* the client's `Broadcast` sends with the registry's lock held, and a send that
  fails there wants it again (the main thread then waits for itself or in a
  circle; `NoWaitCycle` is about worker threads, who never do without it);
* a hit that kills, run after its player left, dereferences a null pointer
  (`Monster.cpp:223`, `crashed` in `RunKill`), which needs a client that is
  disconnected when its hit runs;
* a packet whose id has no handler ends the process: `HandlePacket` calls an empty
  `std::function`, whose exception nobody catches (`ServerPacketHandler.h:77`,
  `UnknownPacket`; the TODO at `GameSession.cpp:38` is this check). `CrashCauses`,
  checked and proved, says that these two are all that ends the process in the
  model of the game;
* a second class choice replaces `GameSession::player` (`ObjectUtils.cpp:19`): the
  first player stays in `_players` and in what all clients see for ever, although
  the disconnection is orderly, because only the last one is told to leave.

## 5. Proofs

Every theorem is proved from the named assumptions on constants only, for any
sets and numbers. In each module an inductive invariant strengthens the
properties; there is one lemma per action.

`JobQueueProofs`: `IInv == TypeOK /\ Shape /\ SingleHolder /\ HeldIffCounted /\
CountExact`. `SingleHolder` alone is not inductive: a pusher takes a queue
because it counted from zero, so one must know that nobody holds a queue whose
counter is zero (`HeldIffCounted`). That in turn survives `Subtract` only if the
counter is exact: when it equals the batch size nothing is queued or in flight,
and when it does not, something is (`CountExact`). `CountExact` refers to the
batch of the executor, which must be zero outside a batch (`Shape`), and needs a
single executor: the four go together. `NoLostWakeup` follows: a queued job is
counted, and what is counted is held.

`SerialQueuesProofs`: the safety half of the refinement, `QueuesAreSerial`. The
pending jobs of a queue are the rest of its executor's batch followed by
`_jobs`. That a step which is not an `Enqueue` or a `RunJob` stutters needs that
a batch is left only when it is used up (`BatchShape`), and that a post is new
needs that a job is in one place (`FreshJobs`).

`JobTimerProofs`: `TimerSpec => Spec` (`TimerImplementsQueues`), so all that is
proved of job queues holds with timers, the refinement too (`TimersAreSerial`); `TimerInv` says that the flag belongs to
one distributor, that a reserved job is in the heap, in the distributor's
vector or pushed, and that what a distributor left in the heap is later than
what it took (`Behind`).

`PacketRecvProofs`: `RecvInv` says where the next packet begins, at the read
cursor plus what `OnRecv` has processed (`AtBoundary`), and that a whole block is
free whenever `WSARecv` is called; needs at least three blocks and no packet
longer than a block (the code has ten, and 16-bit sizes below 64 KiB). `NothingHeldBack`, the
safety core of `EveryPacketDelivered`, is inductive beside it: when the loop of
`OnRecv` breaks, the header it looked at is that of the next packet
(`HeaderExact`), so this packet has not all arrived, nor has any behind it. It holds
too where no further receive is posted. `BufferNeverDisconnects` says that the
bookkeeping of the buffer is no reason for a disconnection: what closes a session
is the peer, the network or another thread (`Outside`).

`SessionSendProofs`: `SendInv` (one thread, or the kernel, has the right to
send; what was pushed is what is on the wire, drained and queued) holds with
concurrent senders and the disabled lock too. `SerialInv` adds, for serial
senders, that a sender is alone with the queue (`Alone`) and that a message that
waits has somebody who will look (`Answered`): `NothingIsStranded`,
`QueueIsGuarded`.

`SessionLifecycleProofs`: for server and client alike. `Shape` says which call
is made from which (`Rests`), whatever the depth of a stack. `Holds` gives each
call the rights it has: to use the receive, send or disconnect event of its
session, to take it into the registry, to accept, to execute the Room. `Sole`:
one call of one thread at most has each right. `Kernel`: what the kernel has, no
call has. `Flags`: `_sendRegistered`, `_connected` and the registry say the
same as the calls. `Births`: before a session is in the registry nothing happens
to it. `Loops`: the accept loop, the executor and the locks belong to calls on
the stack. `NoReentry`: a thread about to lock a session in `Send` is not
disconnecting that session further down, since `_connected` was false by then.
A step replaces the innermost call by others (a turn of the stack), and a few
lemmas say how rights move in a turn; then every action is one turn.
`NoWaiting` follows without induction, for the workers of either side: who holds
a session's lock has `ProcessSend` at the bottom of its stack; if it waits in
`Send` it must be executing the Room, so there is one such thread only, waiting
for itself; its stack is `Send`, `Execute`, `Disconnect`, `RegisterSend`,
`ProcessSend`, all of one session, against `NoReentry`. Nobody but the client's
main thread holds the registry's lock while it waits for another, so it is in
every circle there is.

`SessionsLive` is the refinement, `Spec => LifeSpec`, for server and client. The
mapping reads the phase of a session off the registry and the stacks of all
threads, so the proof is about how rights move: `OneLives` reduces a step to the
one session it is about and says that all others stutter; `HeldMove` and its kin
say which rights are held after a turn of a stack; then there is one lemma per
action. `LifeInv` is not enough, and what it lacks is about the server alone.
`Fresh`: while the accept of a session is on its way from the registry to
`OnConnected`, the session is registered, connected and established, nothing of
it is with the kernel, no player and no broadcast has it and no other call about
it is on any stack; so nobody can disconnect it before its `OnConnected`.
`Peers`: who receives, or has a receive pending, is established, so what is
received belongs to a session some peer was connected to. On the client none of
the two holds, and `SessionLife` promises less there (`Orderly`).

`GameRoomProofs`: `GameInv` says besides `ViewsAgree`, `MonstersKept` and
`ReleasedOnce` which jobs may wait for whom: a player's entry comes before its
other jobs (`Newcomers`), a session in the registry is not yet released by a
`Disconnect` (`Registered`, `Handlers`), and a monster's id is used once
(`MonsterIds`), so that what a client knows of it cannot be of another.
`CrashesHaveTwoCauses` needs that, until a session is disconnected, whatever of
it moves or hits is inside the room (`Actors`): held by a handler, queued behind
its player's entry, or let through since `Player::room` was set. It holds of all
players of a session, the replaced ones included. `DeparturesAreOrderly` follows a
disconnection (`Departing`) from the first line of `OnDisconnected` to the release:
the leave job stays behind the entry of the last player in the queue until both
have run (`LeaveIsLast`), and no handler that goes on with a packet from before
adds the session to the manager or posts an entry again, unless that packet is
another class choice (`Chooses`), which the property excepts because the code does
not refuse it. `NoOtherGhosts` concludes with nested boxes: from the moment at which
a disconnection finds the class choices done, and if no other begins, always, a
session that is gone is released, and once the Room is idle whatever player is left
of it is one that a later choice replaced (`p[2] < made[s]`); none, for a client that
chose once.

`MonsterProofs`: `SameWorld` alone is not inductive, since nobody is told
anything while the room is empty; `Informed` says that `monsterInfo` then still
follows the monster. `HunterClosesIn` is the safety core of `Hunts`: `Lead`, the
distance plus the cost of turning round, is a natural number that every update
of a hunter makes smaller until it has arrived. It rests on one arithmetic lemma
about `UpdateMove` (`StepTowards`: step, turn, clamp), which needs that a step is
no longer than the distance at which a monster turns (`Speed <= Near`), and on an
invariant that a monster with a target never idles (`Awake`).

Only model-checked: liveness in every module (`SerialSpec`'s fairness half,
`EveryTimerFires`, `EveryPacketDelivered`, `EverySendReachesTheWire`,
`EnteredPlayerLeaves`, `Hunts`):
liveness under fairness is outside the prover's reach. The deterministic half of
most of them is proved instead: `NoLostWakeup`, `ReservedOnce`, `NothingHeldBack`,
`NothingStranded`, `OrderlyDeparture` and `ClosesIn` say that what must happen is
never forgotten or set back, and the runs that it happens. Every invariant, every
action property and the safety refinement of a passing run is also a theorem.

## 6. Not modelled, and assumptions

* Memory order: the atomics are sequentially consistent (the code uses the
  default), mutexes are mutexes; unsynchronised access is modelled only for
  `_sendQueue`, as the overlap of a push and a drain.
* 16-bit truncation of packet sizes in `MakeSendBuffer`, protobuf encoding.
* Allocation failure, process exit (main never returns). `CreateSession` may
  return a null pointer when allocation fails, and an `AcceptEx` that always
  fails at once makes `RegisterAccept` call itself without end
  (`Listener.cpp:108`); the model retries as often as it has sessions.
* A session whose `WSARecv` failed with an error other than a reset stays
  connected and deaf (`Session.cpp:148`): a state of `PacketRecv`, `GameRoom` and
  `SessionLifecycle` that no property forbids, since the code marks it with a TODO.
  `EveryPacketDelivered` excepts it by name, as it excepts a disconnection from
  outside.
* Peers send packets whose size is at least the header's and is their length
  (`PacketRecv`); a size below the header's (`Session.cpp:326`) is outside the models.
* `GameRoom` has any number of class choices; `SessionLifecycle` has one for each
  session and no players apart from sessions. What a second choice would add there is
  a job that tells everybody, as a move does, and after the leave job sends to a
  session that is not connected any more, which `Send` refuses.
* `ViewsAgree` speaks of the packets handed to `Send` for a connected session. That
  they reach the wire is `SessionSend`'s subject, where a failed `WSASend` drops what
  it had drained; `NothingStranded` is about serial senders, so what a failing send
  of DummyClient leaves in the queue for another thread is covered by no property.
* `RegistryFollows` compares the registry with `_connected`, not with the
  connection: a `ConnectEx` of DummyClient that failed is registered and connected
  in this sense (`IocpCore.cpp:69`). It is an invariant and says nothing of how long a
  release takes; the client's main thread may wait for ever in `Broadcast`
  (`Service.cpp:31`) with the release still owed.
* `NoWaitCycle` is about worker threads. `Hunts` begins with a target that stays: that
  an idle monster thinks at last (`Monster.h:66`), and that one whose target left
  wanders again, is not claimed.
* Damage is not negative (the client sends the number; a negative one would
  heal).
* `SendBuffer`, `BufferReader`, `BufferWriter`, `Socket`, `SocketUtils`,
  `NetAddress`, `CoreGlobal`: containers, wrappers and start-up without state
  that changes. `ClearJobs`, `JobTimer::Clear`, `GameSessionManager::Broadcast`,
  `UpdateTarget`, `UpdateSkill`: no caller, or an empty body.
* The generated protobuf code and the vendored libraries, which are more than
  99% of the repository's lines: not this program's logic. The hand-written
  part is some four thousand lines, comments and
  headers included, and all of it that changes state is mapped.

## 7. What is left

Nothing of the hand-written logic waits to be modelled. Worth adding if the code
grows: liveness of `SessionLifecycle` (that a disconnected session is released,
under fairness of its threads and the deadline of `Execute`), a composition of `GameRoom` and `SessionLifecycle` in one module (the
owners of a session and the nesting of calls are checked apart, and meet in
what `Send` and `Disconnect` do), a second Room, and reuse of disconnected
sockets, for which `RegisterDisconnect` is prepared and no code exists.
