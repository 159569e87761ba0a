--------------------------- MODULE GameRoomProofs ---------------------------
(***************************************************************************)
(* Proofs about GameRoom for any number of clients, monsters and packets:  *)
(* what each client was told is the Room, monsters and successors balance, *)
(* a session is released once and leaves nothing behind but what a class   *)
(* choice makes after its disconnection or replaced before it, and what    *)
(* may end the process.                                                    *)
(***************************************************************************)
EXTENDS GameRoom, FiniteSetTheorems, SequenceTheorems, TLAPS

\* What a job carries.
LEMMA JobFields ==
    ASSUME NEW j \in Job
    PROVE  /\ j # NoJob
           /\ j.kind \in {"enter", "leave", "move", "hit", "spawn"}
           /\ j.kind # "spawn" => j.who \in Players
           /\ j.kind = "move" => j.to \in Positions
           /\ j.kind = "hit" => j.monster \in Ids /\ j.damage \in Damages
BY DEF Job, NoJob

\* A player is its session and its number.
LEMMA PlayerFacts ==
    /\ \A p \in Players : /\ Owner(p) \in Sessions /\ p[2] \in 1..MaxActions
                         /\ p = Player(Owner(p), p[2])
    /\ \A s, n : Owner(Player(s, n)) = s /\ Player(s, n)[2] = n
    /\ \A s \in Sessions, n \in 1..MaxActions : Player(s, n) \in Players
BY DEF Players, Owner, Player

\* The queue when its oldest job runs.
LEMMA Oldest ==
    ASSUME TypeOK, queue # <<>>
    PROVE  /\ Head(queue) \in Job /\ Head(queue) = queue[1] /\ 1 \in DOMAIN queue
           /\ Tail(queue) \in Seq(Job)
           /\ \A i \in DOMAIN Tail(queue) : /\ i + 1 \in DOMAIN queue
                                            /\ Tail(queue)[i] = queue[i + 1]
<1>1. queue \in Seq(Job) /\ Len(queue) \in Nat /\ Len(queue) # 0
  BY DEF TypeOK
<1> QED
  BY <1>1

\* A job of the Room is posted at the end of its queue.
LEMMA Posted ==
    ASSUME TypeOK, NEW j \in Job, Post(j)
    PROVE  /\ queue' \in Seq(Job)
           /\ \A i \in DOMAIN queue' : \/ i \in DOMAIN queue /\ queue'[i] = queue[i]
                                       \/ queue'[i] = j
<1>1. queue \in Seq(Job) /\ queue' = Append(queue, j)
  BY DEF TypeOK, Post
<1> QED
  BY <1>1

-----------------------------------------------------------------------------
\* The jobs of the queue that spawn a monster.
Spawns(q) == {i \in DOMAIN q : q[i].kind = "spawn"}

\* There are finitely many.
LEMMA SpawnsFinite ==
    ASSUME NEW q \in Seq(Job)
    PROVE  IsFiniteSet(Spawns(q)) /\ Cardinality(Spawns(q)) \in Nat
<1>1. DOMAIN q = 1..Len(q) /\ Len(q) \in Nat
  OBVIOUS
<1>2. IsFiniteSet(1..Len(q))
  BY <1>1, FS_Interval
<1>3. Spawns(q) \subseteq 1..Len(q)
  BY <1>1 DEF Spawns
<1> QED
  BY <1>2, <1>3, FS_Subset, FS_CardinalityType

\* Posting a job adds one when it spawns a monster.
LEMMA SpawnsAppend ==
    ASSUME NEW q \in Seq(Job), NEW j \in Job
    PROVE  Cardinality(Spawns(Append(q, j))) =
                Cardinality(Spawns(q)) + (IF j.kind = "spawn" THEN 1 ELSE 0)
<1> DEFINE n == Len(q) + 1
<1>1. /\ DOMAIN q = 1..Len(q) /\ Len(q) \in Nat
      /\ DOMAIN Append(q, j) = 1..n
      /\ \A i \in 1..Len(q) : Append(q, j)[i] = q[i]
      /\ Append(q, j)[n] = j
  OBVIOUS
<1>2. \A i : i \in 1..n <=> i \in 1..Len(q) \/ i = n
  BY <1>1
<1>3. n \notin Spawns(q)
  BY <1>1 DEF Spawns
<1>4. CASE j.kind = "spawn"
  <2>1. Spawns(Append(q, j)) = Spawns(q) \cup {n}
    BY <1>1, <1>2, <1>4 DEF Spawns
  <2> HIDE DEF n
  <2> QED
    BY <1>3, <1>4, <2>1, SpawnsFinite, FS_AddElement
<1>5. CASE j.kind # "spawn"
  <2>1. Spawns(Append(q, j)) = Spawns(q)
    BY <1>1, <1>2, <1>5 DEF Spawns
  <2> QED
    BY <1>5, <2>1, SpawnsFinite
<1> QED
  BY <1>4, <1>5

\* Running the oldest job takes one away when it spawns a monster.
LEMMA SpawnsTail ==
    ASSUME NEW q \in Seq(Job), q # <<>>
    PROVE  Cardinality(Spawns(Tail(q))) =
                Cardinality(Spawns(q)) - (IF Head(q).kind = "spawn" THEN 1 ELSE 0)
<1>1. /\ Len(q) \in Nat /\ Len(q) # 0
      /\ DOMAIN q = 1..Len(q) /\ DOMAIN Tail(q) = 1..(Len(q) - 1)
      /\ \A i \in 1..(Len(q) - 1) : Tail(q)[i] = q[i + 1]
      /\ Head(q) = q[1] /\ Tail(q) \in Seq(Job)
  <2>1. Len(q) \in Nat /\ Len(q) # 0
    OBVIOUS
  <2> QED
    BY <2>1
<1> DEFINE S == Spawns(q) \ {1}
           T == Spawns(Tail(q))
           f == [i \in T |-> i + 1]
<1>2. \A i \in T : i \in Int /\ i + 1 \in S
  BY <1>1 DEF Spawns
<1>3. \A k \in S : k \in Int /\ k - 1 \in T
  <2> SUFFICES ASSUME NEW k \in S PROVE k \in Int /\ k - 1 \in T
    OBVIOUS
  <2>1. k \in 1..Len(q) /\ k # 1 /\ q[k].kind = "spawn"
    BY <1>1 DEF Spawns
  <2>2. k - 1 \in 1..(Len(q) - 1) /\ (k - 1) + 1 = k
    BY <1>1, <2>1
  <2>3. Tail(q)[k - 1] = q[k]
    BY <1>1, <2>2
  <2> QED
    BY <1>1, <2>1, <2>2, <2>3 DEF Spawns
<1>4. f \in Bijection(T, S)
  <2>1. f \in [T -> S]
    BY <1>2
  <2>2. \A a, b \in T : f[a] = f[b] => a = b
    BY <1>2
  <2>3. \A k \in S : \E i \in T : f[i] = k
    <3> SUFFICES ASSUME NEW k \in S PROVE \E i \in T : f[i] = k
      OBVIOUS
    <3>1. k - 1 \in T /\ (k - 1) + 1 = k
      BY <1>3
    <3>2. f[k - 1] = k
      BY <3>1
    <3> QED
      BY <3>1, <3>2
  <2> HIDE DEF S, T, f
  <2> QED
    BY <2>1, <2>2, <2>3 DEF Bijection, Injection, Surjection, IsInjective
<1>5. IsFiniteSet(T) /\ IsFiniteSet(Spawns(q)) /\ Cardinality(Spawns(q)) \in Nat
  BY <1>1, SpawnsFinite
<1>6. Cardinality(S) = Cardinality(T)
  <2> HIDE DEF S, T, f
  <2>1. ExistsBijection(T, S)
    BY <1>4 DEF ExistsBijection
  <2> QED
    BY <1>5, <2>1, FS_Bijection
<1>7. 1 \in Spawns(q) <=> Head(q).kind = "spawn"
  BY <1>1 DEF Spawns
<1>8. Cardinality(S) = IF 1 \in Spawns(q) THEN Cardinality(Spawns(q)) - 1
                       ELSE Cardinality(Spawns(q))
  BY <1>5, FS_RemoveElement
<1> HIDE DEF f
<1> QED
  BY <1>5, <1>6, <1>7, <1>8

-----------------------------------------------------------------------------
(* Which steps touch what *)

\* What the steps of a session's threads leave alone: the game, but for the queue.
LEMMA SessionSteps ==
    ASSUME NEW s \in Sessions,
           \/ ProcessConnect(s) \/ Packet(s) \/ HandlerStep(s) \/ Disconnect(s)
           \/ Recv0(s) \/ ClosingStep(s) \/ ProcessDisconnect(s)
    PROVE  UNCHANGED <<worldVars, spawns, view>>
BY DEF ProcessConnect, Packet, ClassChoice, UnknownPacket, Move, Hit, Action, Receive, HandlerStep,
       AddToManager, CreatePlayer, PostHeld, RegisterRecv, Disconnect, Recv0, ClosingStep,
       LoadPlayer, PostLeave, RemoveFromManager, ReleaseSession, ProcessDisconnect

\* What the jobs of the Room leave alone: the sessions and their threads.
LEMMA RoomSteps ==
    ASSUME RunJob \/ SpawnDue
    PROVE  UNCHANGED <<sessionVars, handlerVars, closingVars>>
BY DEF RunJob, RunEnter, RunLeave, RunMove, RunHit, RunKill, RunMiss, RunSpawn, SpawnDue

\* Every step is one of these.
LEMMA NextCases ==
    ASSUME [Next]_roomVars
    PROVE  \/ ~crashed /\ (RunJob \/ SpawnDue)
           \/ \E s \in Sessions :
                ~crashed /\ ( \/ ProcessConnect(s) \/ Packet(s) \/ HandlerStep(s)
                              \/ Disconnect(s) \/ Recv0(s) \/ ClosingStep(s)
                              \/ ProcessDisconnect(s) )
           \/ UNCHANGED roomVars
BY DEF Next, Step

-----------------------------------------------------------------------------
(* Types *)

\* A client's world with another player or monster in it.
LEMMA Worlds ==
    ASSUME NEW v \in World
    PROVE  /\ v.players \subseteq [who : Players, at : Places]
           /\ v.monsters \subseteq [id : Ids, hp : 1..MaxHp]
           /\ \A i \in [who : Players, at : Places] : WithPlayer(v, i) \in World
           /\ \A m \in [id : Ids, hp : 1..MaxHp] : WithMonster(v, m) \in World
BY DEF World, WithPlayer, WithMonster

\* A move or a hit is dropped, or becomes a job of the session's last player, which the
\* handler found in the room.
Drops(s) == Receive(s, "register") /\ UNCHANGED <<held, crashed>>
Holds(s, j) ==
    /\ Receive(s, "post") /\ held' = [held EXCEPT ![s] = j] /\ UNCHANGED crashed
    /\ made[s] # 0 /\ Player(s, made[s]) \in roomOf
    /\ j.who = Player(s, made[s]) /\ j.kind \in {"move", "hit"}

\* What a packet can be.
LEMMA PacketCases ==
    ASSUME TypeOK, NEW s \in Sessions, Packet(s)
    PROVE  \/ ClassChoice(s) \/ UnknownPacket(s) \/ Drops(s)
           \/ \E j \in Job : Holds(s, j)
<1>1. ASSUME Move(s) \/ Hit(s), ~Drops(s)
      PROVE  \E j \in Job : Holds(s, j)
  <2>1. made[s] # 0 /\ Player(s, made[s]) \in roomOf /\ Player(s, made[s]) \in Players
    BY <1>1 DEF Move, Hit, Action, Drops, TypeOK
  <2>2. CASE Move(s)
    <3>1. PICK x \in Positions :
            Action(s, [kind |-> "move", who |-> Player(s, made[s]), to |-> x])
      BY <2>2 DEF Move
    <3> DEFINE j == [kind |-> "move", who |-> Player(s, made[s]), to |-> x]
    <3>2. j \in Job /\ j.who = Player(s, made[s]) /\ j.kind = "move"
      BY <2>1 DEF Job
    <3> QED
      BY <2>1, <3>1, <3>2 DEF Action, Holds
  <2>3. CASE Hit(s)
    <3>1. PICK m \in view[s].monsters, d \in Damages :
            Action(s, [kind |-> "hit", who |-> Player(s, made[s]), monster |-> m.id, damage |-> d])
      BY <2>3 DEF Hit
    <3> DEFINE j == [kind |-> "hit", who |-> Player(s, made[s]), monster |-> m.id, damage |-> d]
    <3>2. m \in [id : Ids, hp : 1..MaxHp]
      BY Worlds DEF TypeOK
    <3>3. j \in Job /\ j.who = Player(s, made[s]) /\ j.kind = "hit"
      BY <2>1, <3>2 DEF Job
    <3> QED
      BY <2>1, <3>1, <3>3 DEF Action, Holds
  <2> QED
    BY <1>1, <2>2, <2>3
<1> QED
  BY <1>1 DEF Packet

\* The threads of a session keep the types.
LEMMA SessionTypeStep ==
    ASSUME TypeOK, Handlers, Choices, NEW s \in Sessions,
           \/ ProcessConnect(s) \/ Packet(s) \/ HandlerStep(s) \/ Disconnect(s)
           \/ Recv0(s) \/ ClosingStep(s) \/ ProcessDisconnect(s)
    PROVE  TypeOK'
<1>1. UNCHANGED <<worldVars, spawns, view>>
  BY SessionSteps
<1>2. /\ players' \subseteq Players /\ position' \in [Players -> Places]
      /\ roomOf' \subseteq Players
      /\ monsters' \subseteq [id : Ids, hp : 1..MaxHp]
      /\ nextId' \in 1..(MaxMonsterId + 1) /\ spawns' \in Nat
      /\ view' \in [Sessions -> World]
  BY <1>1 DEF TypeOK, worldVars
<1>3. ASSUME Packet(s)
      PROVE  TypeOK'
  <2>1. ASSUME NEW l \in {"add", "post", "register", "unhandled"}, Receive(s, l)
        PROVE  /\ connected' \in [Sessions -> BOOLEAN]
               /\ events' \in [Sessions -> SUBSET {"recv", "disconnect"}]
               /\ inService' \subseteq Sessions /\ inManager' \subseteq Sessions
               /\ made' \in [Sessions -> 0..MaxActions]
               /\ handler' \in [Sessions -> Labels]
               /\ actions' \in [Sessions -> 0..MaxActions]
               /\ closing' \in [Sessions -> {"no", "load", "leave", "remove", "release", "done"}]
               /\ leaver' \in [Sessions -> 0..MaxActions]
               /\ queue' \in Seq(Job)
    <3>1. actions[s] + 1 \in 0..MaxActions
      <4>1. actions[s] \in 0..MaxActions /\ actions[s] < MaxActions
        BY <2>1 DEF Receive, TypeOK
      <4> QED
        BY <4>1, CountAssumption
    <3>2. actions' \in [Sessions -> 0..MaxActions]
      BY <2>1, <3>1 DEF Receive, TypeOK
    <3>3. handler' \in [Sessions -> Labels]
      BY <2>1 DEF Receive, At, TypeOK, Labels
    <3> QED
      BY <2>1, <3>2, <3>3 DEF Receive, TypeOK, closingVars
  <2>2. CASE ClassChoice(s)
    BY <1>2, <2>1, <2>2 DEF ClassChoice, TypeOK
  <2>3. CASE UnknownPacket(s)
    BY <1>2, <2>1, <2>3 DEF UnknownPacket, TypeOK
  <2>4. CASE Drops(s)
    BY <1>2, <2>1, <2>4 DEF Drops, TypeOK
  <2>5. ASSUME NEW j \in Job, Holds(s, j)
        PROVE  TypeOK'
    <3>1. held' \in [Sessions -> Job \cup {NoJob}]
      BY <2>5 DEF Holds, TypeOK
    <3> QED
      BY <1>2, <2>1, <2>5, <3>1 DEF Holds, TypeOK
  <2> QED
    BY <1>3, <2>2, <2>3, <2>4, <2>5, PacketCases
<1>4. ASSUME HandlerStep(s)
      PROVE  TypeOK'
  <2>0. \A l \in Labels : [handler EXCEPT ![s] = l] \in [Sessions -> Labels]
    BY DEF TypeOK
  <2>1. CASE AddToManager(s)
    BY <1>2, <2>0, <2>1 DEF AddToManager, At, closingVars, Labels, TypeOK
  <2>2. CASE CreatePlayer(s)
    <3>1. made[s] + 1 \in 1..MaxActions
      <4>1. /\ made[s] \in 0..MaxActions /\ actions[s] \in 0..MaxActions
            /\ made[s] < actions[s]
        BY <2>2 DEF CreatePlayer, Choices, Choosing, TypeOK
      <4> QED
        BY <4>1, CountAssumption
    <3>2. [kind |-> "enter", who |-> Player(s, made[s] + 1)] \in Job
      BY <3>1, PlayerFacts DEF Job
    <3>3. made' \in [Sessions -> 0..MaxActions] /\ held' \in [Sessions -> Job \cup {NoJob}]
      BY <2>2, <3>1, <3>2 DEF CreatePlayer, TypeOK
    <3> QED
      BY <1>2, <2>0, <2>2, <3>3 DEF CreatePlayer, At, closingVars, Labels, TypeOK
  <2>3. CASE PostHeld(s)
    <3>1. held[s] \in Job
      BY <2>3 DEF PostHeld, Handlers
    <3>2. queue' \in Seq(Job)
      BY <2>3, <3>1, Posted DEF PostHeld
    <3> QED
      BY <1>2, <2>0, <2>3, <3>2 DEF PostHeld, At, sessionVars, closingVars, Labels, TypeOK
  <2>4. CASE RegisterRecv(s)
    <3>1. events' \in [Sessions -> SUBSET {"recv", "disconnect"}]
      BY <2>4 DEF RegisterRecv, TypeOK
    <3>2. /\ connected' \in [Sessions -> BOOLEAN]
          /\ closing' \in [Sessions -> {"no", "load", "leave", "remove", "release", "done"}]
      BY <2>4 DEF RegisterRecv, TypeOK
    <3> QED
      BY <1>2, <2>0, <2>4, <3>1, <3>2 DEF RegisterRecv, At, Labels, TypeOK
  <2> QED
    BY <1>4, <2>1, <2>2, <2>3, <2>4 DEF HandlerStep
<1>5. ASSUME ClosingStep(s)
      PROVE  TypeOK'
  <2>1. CASE LoadPlayer(s)
    <3>1. /\ leaver' \in [Sessions -> 0..MaxActions]
          /\ closing' \in [Sessions -> {"no", "load", "leave", "remove", "release", "done"}]
      BY <2>1 DEF LoadPlayer, TypeOK
    <3> QED
      BY <1>2, <2>1, <3>1 DEF LoadPlayer, sessionVars, handlerVars, TypeOK
  <2>2. CASE PostLeave(s)
    <3>1. Player(s, leaver[s]) \in Players
      <4>1. leaver[s] \in 0..MaxActions /\ leaver[s] # 0
        BY <2>2 DEF PostLeave, Choices, TypeOK
      <4>2. leaver[s] \in 1..MaxActions
        BY <4>1, CountAssumption
      <4> QED
        BY <4>2, PlayerFacts
    <3>2. [kind |-> "leave", who |-> Player(s, leaver[s])] \in Job
      BY <3>1 DEF Job
    <3>3. queue' \in Seq(Job)
      BY <2>2, <3>2, Posted DEF PostLeave
    <3> QED
      BY <1>2, <2>2, <3>3 DEF PostLeave, sessionVars, handlerVars, TypeOK
  <2>3. CASE RemoveFromManager(s)
    BY <1>2, <2>3 DEF RemoveFromManager, handlerVars, TypeOK
  <2>4. CASE ReleaseSession(s)
    <3>1. events' \in [Sessions -> SUBSET {"recv", "disconnect"}]
      BY <2>4 DEF ReleaseSession, TypeOK
    <3> QED
      BY <1>2, <2>4, <3>1 DEF ReleaseSession, handlerVars, TypeOK
  <2> QED
    BY <1>5, <2>1, <2>2, <2>3, <2>4 DEF ClosingStep
<1>6. ASSUME ProcessConnect(s)
      PROVE  TypeOK'
  BY <1>2, <1>6 DEF ProcessConnect, At, closingVars, Labels, TypeOK
<1>7. ASSUME Disconnect(s) \/ Recv0(s)
      PROVE  TypeOK'
  <2>1. connected' \in [Sessions -> BOOLEAN]
    BY <1>7 DEF Disconnect, Recv0, TypeOK
  <2>2. events' \in [Sessions -> SUBSET {"recv", "disconnect"}]
    <3>1. CASE UNCHANGED events
      BY <3>1 DEF TypeOK
    <3>2. CASE events' = [events EXCEPT ![s] = @ \ {"recv"}]
      BY <3>2 DEF TypeOK
    <3> QED
      BY <1>7, <3>1, <3>2 DEF Disconnect, Recv0
  <2>3. closing' \in [Sessions -> {"no", "load", "leave", "remove", "release", "done"}]
    BY <1>7 DEF Disconnect, Recv0, TypeOK
  <2> QED
    BY <1>2, <1>7, <2>1, <2>2, <2>3 DEF Disconnect, Recv0, handlerVars, closingVars, TypeOK
<1>8. ASSUME ProcessDisconnect(s)
      PROVE  TypeOK'
  BY <1>2, <1>8 DEF ProcessDisconnect, handlerVars, closingVars, TypeOK
<1> QED
  BY <1>3, <1>4, <1>5, <1>6, <1>7, <1>8

\* A broadcast of well-formed worlds.
LEMMA BroadcastTypes ==
    ASSUME NEW ps, NEW told \in [Sessions -> World], view \in [Sessions -> World],
           Broadcast(ps, told)
    PROVE  view' \in [Sessions -> World]
BY DEF Broadcast

\* A queue with a job that spawns a monster leaves an id for it.
LEMMA RoomForASpawn ==
    ASSUME TypeOK, MonsterIds, Running("spawn")
    PROVE  nextId \in Ids /\ nextId + 1 \in 1..(MaxMonsterId + 1)
<1>1. queue \in Seq(Job) /\ queue # <<>> /\ Head(queue).kind = "spawn" /\ 1 \in DOMAIN queue
      /\ Head(queue) = queue[1]
  BY Oldest DEF TypeOK, Running
<1>2. 1 \in Spawns(queue)
  BY <1>1 DEF Spawns
<1>3. IsFiniteSet(Spawns(queue)) /\ Cardinality(Spawns(queue)) \in Nat
  BY <1>1, SpawnsFinite
<1>4. Cardinality(Spawns(queue)) # 0
  BY <1>2, <1>3, FS_EmptySet
<1>5. Count("spawn") = Cardinality(Spawns(queue))
  BY DEF Count, Spawns
<1>6. nextId \in 1..(MaxMonsterId + 1) /\ nextId + Count("spawn") <= MaxMonsterId + 1
  BY DEF TypeOK, MonsterIds
<1> HIDE DEF Count
<1> QED
  BY <1>3, <1>4, <1>5, <1>6, CountAssumption DEF Ids

\* The jobs of the Room keep the types.
LEMMA RoomTypeStep ==
    ASSUME TypeOK, MonsterIds, RunJob \/ SpawnDue
    PROVE  TypeOK'
<1>1. /\ connected' \in [Sessions -> BOOLEAN]
      /\ events' \in [Sessions -> SUBSET {"recv", "disconnect"}]
      /\ inService' \subseteq Sessions /\ inManager' \subseteq Sessions
      /\ made' \in [Sessions -> 0..MaxActions]
      /\ handler' \in [Sessions -> Labels]
      /\ held' \in [Sessions -> Job \cup {NoJob}]
      /\ actions' \in [Sessions -> 0..MaxActions]
      /\ closing' \in [Sessions -> {"no", "load", "leave", "remove", "release", "done"}]
      /\ leaver' \in [Sessions -> 0..MaxActions]
      /\ crashed' \in BOOLEAN
  <2>1. crashed' \in BOOLEAN
    BY DEF TypeOK, RunJob, RunEnter, RunLeave, RunMove, RunHit, RunKill, RunMiss, RunSpawn, SpawnDue
  <2> QED
    BY <2>1, RoomSteps DEF TypeOK, sessionVars, handlerVars, closingVars
<1>2. ASSUME queue # <<>>, queue' = Tail(queue)
      PROVE  queue' \in Seq(Job) /\ Head(queue) \in Job
  BY <1>2, Oldest
<1>3. /\ view \in [Sessions -> World] /\ spawns \in Nat /\ players \subseteq Players
      /\ position \in [Players -> Places] /\ roomOf \subseteq Players
      /\ monsters \subseteq [id : Ids, hp : 1..MaxHp] /\ nextId \in 1..(MaxMonsterId + 1)
  BY DEF TypeOK
<1>4. CASE RunEnter
  <2> DEFINE p == Head(queue).who
  <2>1. queue' \in Seq(Job) /\ p \in Players
    BY <1>2, <1>4, JobFields DEF RunEnter, Running
  <2>2. \A q \in Players : Info(q) \in [who : Players, at : Places]
    BY <1>3 DEF Info
  <2>3. Entrance(p) \in World
    BY <1>3, <2>1, <2>2 DEF World, Entrance
  <2>4. \A s \in Sessions : WithPlayer(view[s], Info(p)) \in World
    BY <1>3, <2>1, <2>2, Worlds
  <2>5. view' = [s \in Sessions |->
                    CASE s = Owner(p) /\ Hears(s) -> Entrance(p)
                      [] s # Owner(p) /\ Reaches(players, s) -> WithPlayer(view[s], Info(p))
                      [] OTHER -> view[s]]
    BY <1>4 DEF RunEnter
  <2> HIDE DEF p
  <2>6. view' \in [Sessions -> World]
    BY <1>3, <2>3, <2>4, <2>5
  <2>7. players' \subseteq Players /\ roomOf' \subseteq Players
        /\ UNCHANGED <<spawns, position, monsters, nextId>>
    BY <1>3, <1>4, <2>1 DEF RunEnter, p
  <2> QED
    BY <1>1, <1>3, <2>1, <2>6, <2>7 DEF TypeOK
<1>5. CASE RunLeave
  <2> DEFINE p == Head(queue).who
             without == [s \in Sessions |->
                            [view[s] EXCEPT !.players = {x \in @ : x.who # p}]]
  <2>1. queue' \in Seq(Job)
    BY <1>2, <1>5 DEF RunLeave, Running
  <2>2. without \in [Sessions -> World]
    BY <1>3 DEF World
  <2>3. Broadcast(players \ {p}, without)
    BY <1>5 DEF RunLeave
  <2>4. view' \in [Sessions -> World]
    <3> HIDE DEF without
    <3> QED
      BY <1>3, <2>2, <2>3, BroadcastTypes
  <2>5. players' \subseteq Players /\ roomOf' \subseteq Players
        /\ UNCHANGED <<spawns, position, monsters, nextId>>
    BY <1>3, <1>5 DEF RunLeave
  <2> QED
    BY <1>1, <1>3, <2>1, <2>4, <2>5 DEF TypeOK
<1>6. CASE RunMove
  <2> DEFINE p == Head(queue).who
             i == [who |-> p, at |-> Head(queue).to]
             moved == [s \in Sessions |->
                            IF \E x \in view[s].players : x.who = p
                            THEN WithPlayer(view[s], i) ELSE view[s]]
  <2>1. queue' \in Seq(Job) /\ p \in Players /\ i.at \in Places
    BY <1>2, <1>6, JobFields DEF RunMove, Running, Places
  <2>2. i \in [who : Players, at : Places]
    BY <2>1
  <2>3. \A s \in Sessions : view[s] \in World /\ WithPlayer(view[s], i) \in World
    BY <1>3, <2>2, Worlds
  <2>4. moved \in [Sessions -> World]
    <3> HIDE DEF i, p
    <3> QED
      BY <2>3
  <2>5. IF p \in players
        THEN /\ position' = [position EXCEPT ![p] = i.at]
             /\ Broadcast(players, moved)
        ELSE UNCHANGED <<position, view>>
    BY <1>6 DEF RunMove
  <2>6. view' \in [Sessions -> World] /\ position' \in [Players -> Places]
    <3> HIDE DEF moved, i, p
    <3> QED
      BY <1>3, <2>1, <2>4, <2>5, BroadcastTypes
  <2>7. UNCHANGED <<spawns, players, roomOf, monsters, nextId>>
    BY <1>6 DEF RunMove
  <2> QED
    BY <1>1, <1>3, <2>1, <2>6, <2>7 DEF TypeOK
<1>7. CASE RunHit
  <2>1. queue' \in Seq(Job) /\ Head(queue) \in Job /\ Head(queue).damage \in Nat
    BY <1>2, <1>7, JobFields, DamageAssumption DEF RunHit, Running
  <2>2. PICK m \in monsters :
          LET hurt == [m EXCEPT !.hp = @ - Head(queue).damage]
              told == [t \in Sessions |-> WithMonster(view[t], hurt)]
          IN  /\ hurt.hp > 0
              /\ monsters' = (monsters \ {m}) \cup {hurt}
              /\ Broadcast(players, told)
    BY <1>7 DEF RunHit
  <2> DEFINE hurt == [m EXCEPT !.hp = @ - Head(queue).damage]
             told == [t \in Sessions |-> WithMonster(view[t], hurt)]
  <2>3. m \in [id : Ids, hp : 1..MaxHp] /\ hurt.hp > 0
    BY <1>3, <2>2
  <2>4. hurt \in [id : Ids, hp : 1..MaxHp]
    <3>1. m.hp \in 1..MaxHp /\ hurt.hp = m.hp - Head(queue).damage
      BY <2>3
    <3>2. hurt.hp \in 1..MaxHp
      BY <2>1, <2>3, <3>1, CountAssumption
    <3> QED
      BY <2>3, <3>2
  <2>5. monsters' \subseteq [id : Ids, hp : 1..MaxHp]
    BY <1>3, <2>2, <2>4
  <2>6. told \in [Sessions -> World] /\ Broadcast(players, told)
    <3>1. Broadcast(players, told)
      BY <2>2
    <3>2. \A t \in Sessions : WithMonster(view[t], hurt) \in World
      BY <1>3, <2>4, Worlds
    <3> QED
      BY <3>1, <3>2
  <2>7. view' \in [Sessions -> World]
    <3> HIDE DEF told
    <3> QED
      BY <1>3, <2>6, BroadcastTypes
  <2>8. UNCHANGED <<spawns, players, position, roomOf, nextId>>
    BY <1>7 DEF RunHit
  <2> QED
    BY <1>1, <1>3, <2>1, <2>5, <2>7, <2>8 DEF TypeOK
<1>8. CASE RunKill
  <2>1. queue' \in Seq(Job)
    BY <1>2, <1>8 DEF RunKill, Running
  <2>2. UNCHANGED <<players, position, roomOf, nextId>>
    BY <1>8 DEF RunKill
  <2>3. PICK m \in monsters :
          LET without == [t \in Sessions |->
                            [view[t] EXCEPT !.monsters = {x \in @ : x.id # m.id}]]
          IN  \/ /\ monsters' = monsters \ {m}
                 /\ Broadcast(players, without)
                 /\ spawns' = spawns + 1
              \/ UNCHANGED <<monsters, view, spawns>>
    BY <1>8 DEF RunKill
  <2> DEFINE without == [t \in Sessions |->
                            [view[t] EXCEPT !.monsters = {x \in @ : x.id # m.id}]]
  <2>4. without \in [Sessions -> World]
    BY <1>3 DEF World
  <2>5. \/ /\ monsters' = monsters \ {m} /\ spawns' = spawns + 1
           /\ Broadcast(players, without)
        \/ UNCHANGED <<monsters, view, spawns>>
    BY <2>3
  <2>6. monsters' \subseteq [id : Ids, hp : 1..MaxHp] /\ spawns' \in Nat
    BY <1>3, <2>5
  <2>7. view' \in [Sessions -> World]
    <3> HIDE DEF without
    <3> QED
      BY <1>3, <2>4, <2>5, BroadcastTypes
  <2> QED
    BY <1>1, <1>3, <2>1, <2>2, <2>6, <2>7 DEF TypeOK
<1>9. CASE RunMiss
  BY <1>1, <1>2, <1>3, <1>9 DEF RunMiss, Running, worldVars, TypeOK
<1>10. CASE RunSpawn
  <2> DEFINE m == [id |-> nextId, hp |-> MaxHp]
             told == [t \in Sessions |-> WithMonster(view[t], m)]
  <2>1. queue' \in Seq(Job)
    BY <1>2, <1>10 DEF RunSpawn, Running
  <2>2. nextId \in Ids /\ nextId + 1 \in 1..(MaxMonsterId + 1)
    BY <1>10, RoomForASpawn DEF RunSpawn
  <2>3. m \in [id : Ids, hp : 1..MaxHp]
    BY <2>2, CountAssumption
  <2>4. told \in [Sessions -> World]
    BY <1>3, <2>3, Worlds
  <2>5. /\ monsters' = monsters \cup {m} /\ Broadcast(players, told)
        /\ nextId' = nextId + 1 /\ UNCHANGED <<spawns, players, position, roomOf>>
    BY <1>10 DEF RunSpawn
  <2>6. view' \in [Sessions -> World]
    <3> HIDE DEF told
    <3> QED
      BY <1>3, <2>4, <2>5, BroadcastTypes
  <2>7. monsters' \subseteq [id : Ids, hp : 1..MaxHp]
    BY <1>3, <2>3, <2>5
  <2> QED
    BY <1>1, <1>3, <2>1, <2>2, <2>5, <2>6, <2>7 DEF TypeOK
<1>11. CASE SpawnDue
  <2>1. [kind |-> "spawn"] \in Job
    BY DEF Job
  <2>2. queue' \in Seq(Job)
    BY <1>11, <2>1, Posted DEF SpawnDue
  <2>3. spawns' \in Nat /\ UNCHANGED <<worldVars, view>>
    BY <1>3, <1>11 DEF SpawnDue
  <2> QED
    BY <1>1, <1>3, <2>2, <2>3 DEF worldVars, TypeOK
<1> QED
  BY <1>4, <1>5, <1>6, <1>7, <1>8, <1>9, <1>10, <1>11 DEF RunJob

-----------------------------------------------------------------------------
(* The life of a session *)

\* The exchange in Disconnect makes every closing start from a registered session, and
\* nothing but its end releases it.
LEMMA LifeStep ==
    ASSUME TypeOK, Registered, ReleasedOnce,
           \A s \in Sessions : handler[s] = "new" => closing[s] = "no",
           [Next]_roomVars
    PROVE  Registered' /\ ReleasedOnce'
<1>0. connected \in [Sessions -> BOOLEAN]
      /\ closing \in [Sessions -> {"no", "load", "leave", "remove", "release", "done"}]
  BY DEF TypeOK
<1>1. ASSUME UNCHANGED <<connected, closing, inService>>
      PROVE  Registered' /\ ReleasedOnce'
  BY <1>1 DEF Registered, ReleasedOnce
<1>2. ASSUME NEW s \in Sessions, ProcessConnect(s)
      PROVE  Registered' /\ ReleasedOnce'
  <2>1. /\ UNCHANGED closing /\ closing[s] = "no" /\ inService' = inService \cup {s}
        /\ \A t \in Sessions \ {s} : connected'[t] = connected[t]
    BY <1>0, <1>2 DEF ProcessConnect, closingVars
  <2> QED
    BY <2>1 DEF Registered, ReleasedOnce
<1>3. ASSUME NEW s \in Sessions, Disconnect(s) \/ Recv0(s) \/ RegisterRecv(s)
      PROVE  Registered' /\ ReleasedOnce'
  <2>1. /\ UNCHANGED inService
        /\ \A t \in Sessions \ {s} : connected'[t] = connected[t] /\ closing'[t] = closing[t]
    BY <1>0, <1>3 DEF Disconnect, Recv0, RegisterRecv
  <2>2. \/ connected'[s] = connected[s] /\ closing'[s] = closing[s]
        \/ ~connected'[s] /\ (closing'[s] = closing[s] \/ connected[s])
    BY <1>0, <1>3 DEF Disconnect, Recv0, RegisterRecv
  <2> QED
    BY <2>1, <2>2 DEF Registered, ReleasedOnce
<1>4. ASSUME NEW s \in Sessions, LoadPlayer(s) \/ PostLeave(s) \/ RemoveFromManager(s)
      PROVE  Registered' /\ ReleasedOnce'
  <2>1. UNCHANGED <<connected, inService>> /\ closing[s] \in {"load", "leave", "remove"}
    BY <1>4 DEF LoadPlayer, PostLeave, RemoveFromManager, sessionVars
  <2>2. \A t \in Sessions \ {s} : closing'[t] = closing[t]
    BY <1>0, <1>4 DEF LoadPlayer, PostLeave, RemoveFromManager
  <2> QED
    BY <2>1, <2>2 DEF Registered, ReleasedOnce
<1>5. ASSUME NEW s \in Sessions, ReleaseSession(s)
      PROVE  Registered' /\ ReleasedOnce'
  <2>1. /\ UNCHANGED connected /\ closing[s] = "release" /\ closing'[s] = "done"
        /\ inService' = inService \ {s}
        /\ \A t \in Sessions \ {s} : closing'[t] = closing[t]
    BY <1>0, <1>5 DEF ReleaseSession
  <2> QED
    BY <2>1 DEF Registered, ReleasedOnce
<1>6. ASSUME NEW s \in Sessions,
             \/ Packet(s) \/ AddToManager(s) \/ CreatePlayer(s) \/ PostHeld(s)
             \/ ProcessDisconnect(s)
      PROVE  Registered' /\ ReleasedOnce'
  BY <1>1, <1>6
  DEF Packet, ClassChoice, UnknownPacket, Move, Hit, Action, Receive, AddToManager,
      CreatePlayer, PostHeld, ProcessDisconnect, sessionVars, closingVars
<1>7. ASSUME RunJob \/ SpawnDue
      PROVE  Registered' /\ ReleasedOnce'
  BY <1>1, <1>7, RoomSteps DEF sessionVars, closingVars
<1>8. CASE UNCHANGED roomVars
  BY <1>1, <1>8 DEF roomVars
<1> QED
  BY <1>2, <1>3, <1>4, <1>5, <1>6, <1>7, <1>8, NextCases DEF ClosingStep, HandlerStep

\* A job is held from the handler's making it to its posting it.
LEMMA HandlersStep ==
    ASSUME TypeOK, Handlers, Choices, [Next]_roomVars
    PROVE  Handlers'
<1>0. /\ handler \in [Sessions -> Labels]
      /\ held \in [Sessions -> Job \cup {NoJob}]
      /\ made \in [Sessions -> 0..MaxActions]
  BY DEF TypeOK
<1>1. ASSUME UNCHANGED <<handler, held, made>>
      PROVE  Handlers'
  BY <1>1 DEF Handlers
<1>2. ASSUME NEW s \in Sessions, NEW l \in Labels, l # "post",
             handler[s] # "post", handler' = [handler EXCEPT ![s] = l], UNCHANGED <<held, made>>
      PROVE  Handlers'
  BY <1>0, <1>2 DEF Handlers
<1>3. ASSUME NEW s \in Sessions, NEW j \in Job, j.kind # "spawn",
             j.kind = "enter" => j.who = Player(s, made'[s]),
             \A t \in Sessions \ {s} : made'[t] = made[t],
             handler' = [handler EXCEPT ![s] = "post"], held' = [held EXCEPT ![s] = j]
      PROVE  Handlers'
  BY <1>0, <1>3 DEF Handlers
<1>4. ASSUME NEW s \in Sessions, PostHeld(s)
      PROVE  Handlers'
  <2>1. /\ handler' = [handler EXCEPT ![s] = "register"] /\ held' = [held EXCEPT ![s] = NoJob]
        /\ UNCHANGED made
    BY <1>4 DEF PostHeld, At, sessionVars
  <2>2. NoJob \notin Job /\ NoJob.kind \notin {"enter", "spawn"}
    BY JobFields DEF NoJob
  <2> QED
    BY <1>0, <2>1, <2>2 DEF Handlers
<1>5. ASSUME NEW s \in Sessions, Packet(s)
      PROVE  Handlers'
  <2>1. CASE ClassChoice(s) \/ UnknownPacket(s) \/ Drops(s)
    BY <1>2, <2>1 DEF ClassChoice, UnknownPacket, Drops, Receive, At, Labels
  <2>2. ASSUME NEW j \in Job, Holds(s, j)
        PROVE  Handlers'
    <3>1. /\ handler' = [handler EXCEPT ![s] = "post"] /\ held' = [held EXCEPT ![s] = j]
          /\ UNCHANGED made /\ j.kind \in {"move", "hit"}
      BY <2>2 DEF Holds, Receive, At
    <3> QED
      BY <1>3, <3>1
  <2> QED
    BY <1>5, <2>1, <2>2, PacketCases
<1>6. ASSUME NEW s \in Sessions, CreatePlayer(s)
      PROVE  Handlers'
  <2> DEFINE j == held'[s]
  <2>1. /\ handler' = [handler EXCEPT ![s] = "post"] /\ held' = [held EXCEPT ![s] = j]
        /\ made' = [made EXCEPT ![s] = @ + 1]
        /\ j = [kind |-> "enter", who |-> Player(s, made'[s])]
    BY <1>0, <1>6 DEF CreatePlayer, At
  <2>2. j.kind = "enter" /\ j.who = Player(s, made'[s])
    BY <2>1
  <2>3. made'[s] \in 1..MaxActions
    BY <1>0, <1>6, <2>1, CountAssumption DEF CreatePlayer, Choices, Choosing, TypeOK
  <2>4. j \in Job
    BY <2>1, <2>3, PlayerFacts DEF Job
  <2> HIDE DEF j
  <2> QED
    BY <1>0, <1>3, <2>1, <2>2, <2>4
<1>7. ASSUME NEW s \in Sessions, ProcessConnect(s) \/ AddToManager(s) \/ RegisterRecv(s)
      PROVE  Handlers'
  BY <1>2, <1>7 DEF ProcessConnect, AddToManager, RegisterRecv, At, Labels
<1>8. ASSUME NEW s \in Sessions,
             Disconnect(s) \/ Recv0(s) \/ ClosingStep(s) \/ ProcessDisconnect(s)
      PROVE  Handlers'
  BY <1>1, <1>8 DEF Disconnect, Recv0, ClosingStep, LoadPlayer, PostLeave,
                    RemoveFromManager, ReleaseSession, ProcessDisconnect, handlerVars, sessionVars
<1>9. ASSUME RunJob \/ SpawnDue
      PROVE  Handlers'
  BY <1>1, <1>9, RoomSteps DEF handlerVars, sessionVars
<1>10. CASE UNCHANGED roomVars
  BY <1>1, <1>10 DEF roomVars
<1> QED
  BY <1>4, <1>5, <1>6, <1>7, <1>8, <1>9, <1>10, NextCases DEF HandlerStep

\* Players and packets are counted together.
LEMMA ChoicesStep ==
    ASSUME TypeOK, Choices, [Next]_roomVars
    PROVE  Choices'
<1>0. /\ made \in [Sessions -> 0..MaxActions] /\ actions \in [Sessions -> 0..MaxActions]
      /\ leaver \in [Sessions -> 0..MaxActions] /\ handler \in [Sessions -> Labels]
      /\ closing \in [Sessions -> {"no", "load", "leave", "remove", "release", "done"}]
      /\ 0..MaxActions \subseteq Nat
  BY CountAssumption DEF TypeOK
<1>1. ASSUME UNCHANGED <<made, actions>>,
             \A t \in Sessions : Choosing(t)' => Choosing(t),
             \A t \in Sessions : closing'[t] = "leave" =>
                                    closing[t] = "leave" /\ leaver'[t] = leaver[t]
      PROVE  Choices'
  BY <1>1 DEF Choices
<1>2. ASSUME NEW s \in Sessions, Packet(s)
      PROVE  Choices'
  <2>1. /\ actions' = [actions EXCEPT ![s] = @ + 1] /\ UNCHANGED <<made, closing, leaver>>
        /\ \E l \in Labels : handler' = [handler EXCEPT ![s] = l]
    BY <1>2 DEF Packet, ClassChoice, UnknownPacket, Move, Hit, Action, Receive, At, closingVars, Labels
  <2> QED
    BY <1>0, <2>1 DEF Choices, Choosing
<1>3. ASSUME NEW s \in Sessions, CreatePlayer(s)
      PROVE  Choices'
  <2>1. /\ made' = [made EXCEPT ![s] = @ + 1] /\ UNCHANGED <<actions, closing, leaver>>
        /\ handler' = [handler EXCEPT ![s] = "post"] /\ made[s] < actions[s]
    BY <1>3 DEF CreatePlayer, At, closingVars, Choices, Choosing
  <2> QED
    BY <1>0, <2>1 DEF Choices, Choosing
<1>4. ASSUME NEW s \in Sessions,
             ProcessConnect(s) \/ AddToManager(s) \/ PostHeld(s) \/ RegisterRecv(s)
      PROVE  Choices'
  <2>1. UNCHANGED <<made, actions>>
    BY <1>4 DEF ProcessConnect, AddToManager, PostHeld, RegisterRecv, sessionVars
  <2>2. \A t \in Sessions : Choosing(t)' => Choosing(t)
    BY <1>0, <1>4 DEF ProcessConnect, AddToManager, PostHeld, RegisterRecv, At, Choosing
  <2>3. \A t \in Sessions : closing'[t] = "leave" =>
                                closing[t] = "leave" /\ leaver'[t] = leaver[t]
    BY <1>0, <1>4 DEF ProcessConnect, AddToManager, PostHeld, RegisterRecv, closingVars
  <2> QED
    BY <1>1, <2>1, <2>2, <2>3
<1>5. ASSUME NEW s \in Sessions, LoadPlayer(s)
      PROVE  Choices'
  <2>1. /\ leaver' = [leaver EXCEPT ![s] = made[s]]
        /\ closing' = [closing EXCEPT ![s] = IF made[s] # 0 THEN "leave" ELSE "release"]
        /\ UNCHANGED <<made, actions, handler>>
    BY <1>5 DEF LoadPlayer, sessionVars, handlerVars
  <2> QED
    BY <1>0, <2>1 DEF Choices, Choosing
<1>6. ASSUME NEW s \in Sessions,
             \/ Disconnect(s) \/ Recv0(s) \/ PostLeave(s) \/ RemoveFromManager(s)
             \/ ReleaseSession(s) \/ ProcessDisconnect(s)
      PROVE  Choices'
  <2>1. UNCHANGED <<made, actions, handler, leaver>>
    BY <1>6 DEF Disconnect, Recv0, PostLeave, RemoveFromManager, ReleaseSession,
                ProcessDisconnect, sessionVars, handlerVars, closingVars
  <2>2. \A t \in Sessions : closing'[t] = "leave" => closing[t] = "leave"
    BY <1>0, <1>6 DEF Disconnect, Recv0, PostLeave, RemoveFromManager, ReleaseSession,
                      ProcessDisconnect, closingVars
  <2> QED
    BY <1>1, <2>1, <2>2 DEF Choosing
<1>7. ASSUME RunJob \/ SpawnDue
      PROVE  Choices'
  BY <1>1, <1>7, RoomSteps DEF handlerVars, sessionVars, closingVars, Choosing
<1>8. CASE UNCHANGED roomVars
  BY <1>1, <1>8 DEF roomVars, Choosing
<1> QED
  BY <1>2, <1>3, <1>4, <1>5, <1>6, <1>7, <1>8, NextCases DEF HandlerStep, ClosingStep

\* A session enters the game by a class choice, after it was accepted.
LEMMA NewcomersStep ==
    ASSUME TypeOK, Handlers, Newcomers, [Next]_roomVars
    PROVE  Newcomers'
<1>0. /\ handler \in [Sessions -> Labels]
      /\ connected \in [Sessions -> BOOLEAN] /\ queue \in Seq(Job)
      /\ made \in [Sessions -> 0..MaxActions] /\ 0..MaxActions \subseteq Nat
      /\ closing \in [Sessions -> {"no", "load", "leave", "remove", "release", "done"}]
  BY CountAssumption DEF TypeOK
<1>1. ASSUME \A s \in Sessions : handler'[s] = "new" => /\ handler[s] = "new"
                                                       /\ closing'[s] = closing[s]
                                                       /\ connected'[s] = connected[s]
                                                       /\ made'[s] = made[s],
             Made \subseteq Made',
             players' \subseteq Made,
             \A i \in DOMAIN queue' : queue'[i].kind = "enter" => queue'[i].who \in Made
      PROVE  Newcomers'
  BY <1>1 DEF Newcomers
<1>2. /\ players \subseteq Made
      /\ \A i \in DOMAIN queue : queue[i].kind = "enter" => queue[i].who \in Made
  BY DEF Newcomers
<1>3. ASSUME NEW s \in Sessions,
             \/ ProcessConnect(s) \/ Packet(s) \/ HandlerStep(s) \/ Disconnect(s)
             \/ Recv0(s) \/ ClosingStep(s) \/ ProcessDisconnect(s)
      PROVE  Newcomers'
  <2>1. UNCHANGED players
    BY <1>3, SessionSteps DEF worldVars
  <2>2. ASSUME NEW l \in Labels, l # "new", handler' = [handler EXCEPT ![s] = l],
               \A t \in Sessions \ {s} : /\ closing'[t] = closing[t]
                                         /\ connected'[t] = connected[t],
               UNCHANGED <<queue, made>>
        PROVE  Newcomers'
    BY <1>0, <1>1, <1>2, <2>1, <2>2 DEF Made
  <2>3. CASE ProcessConnect(s)
    BY <1>0, <2>2, <2>3 DEF ProcessConnect, At, closingVars, Labels
  <2>4. CASE Packet(s)
    BY <2>2, <2>4 DEF Packet, ClassChoice, UnknownPacket, Move, Hit, Action, Receive, At,
                      closingVars, Labels
  <2>5. CASE AddToManager(s) \/ RegisterRecv(s)
    <3>1. \A t \in Sessions \ {s} : closing'[t] = closing[t] /\ connected'[t] = connected[t]
      BY <1>0, <2>5 DEF AddToManager, RegisterRecv, closingVars
    <3> QED
      BY <2>2, <2>5, <3>1 DEF AddToManager, RegisterRecv, At, Labels
  <2>6. CASE CreatePlayer(s)
    <3>1. /\ handler' = [handler EXCEPT ![s] = "post"] /\ made' = [made EXCEPT ![s] = @ + 1]
          /\ UNCHANGED <<queue, closing, connected>>
      BY <2>6 DEF CreatePlayer, At, closingVars
    <3>2. \A t \in Sessions : made[t] \in Nat /\ made'[t] \in Nat /\ made[t] <= made'[t]
      BY <1>0, <3>1
    <3>3. ASSUME NEW q \in Made
          PROVE  q \in Made'
      <4>1. q \in Players /\ q[2] \in Nat /\ Owner(q) \in Sessions /\ q[2] <= made[Owner(q)]
        BY PlayerFacts, CountAssumption DEF Made
      <4>2. q[2] <= made'[Owner(q)]
        BY <3>2, <4>1
      <4> QED
        BY <4>1, <4>2 DEF Made
    <3>4. \A t \in Sessions : handler'[t] = "new" => handler[t] = "new" /\ t # s
      BY <1>0, <3>1
    <3> QED
      BY <1>0, <1>1, <1>2, <2>1, <3>1, <3>3, <3>4
  <2>7. CASE PostHeld(s)
    <3>1. /\ handler[s] = "post" /\ handler' = [handler EXCEPT ![s] = "register"]
          /\ UNCHANGED <<closing, connected, made>> /\ Post(held[s])
      BY <2>7 DEF PostHeld, At, sessionVars, closingVars
    <3>2. held[s] \in Job /\ (held[s].kind = "enter" => held[s].who = Player(s, made[s]))
      BY <3>1 DEF Handlers
    <3>3. held[s].kind = "enter" => held[s].who \in Made
      <4>1. ASSUME held[s].kind = "enter"
            PROVE  held[s].who \in Made
        <5>1. held[s].who \in Players /\ held[s].who = Player(s, made[s])
          BY <3>2, <4>1, JobFields
        <5>2. Owner(held[s].who) = s /\ held[s].who[2] = made[s]
          BY <5>1, PlayerFacts
        <5> QED
          BY <1>0, <5>1, <5>2 DEF Made
      <4> QED
        BY <4>1
    <3>4. \A i \in DOMAIN queue' : \/ i \in DOMAIN queue /\ queue'[i] = queue[i]
                                   \/ queue'[i] = held[s]
      BY <3>1, <3>2, Posted
    <3>5. \A i \in DOMAIN queue' : queue'[i].kind = "enter" => queue'[i].who \in Made
      BY <1>2, <3>3, <3>4
    <3>6. \A t \in Sessions : handler'[t] = "new" => handler[t] = "new"
      BY <1>0, <3>1
    <3> QED
      BY <1>1, <1>2, <2>1, <3>1, <3>5, <3>6 DEF Made
  <2>8. CASE Disconnect(s) \/ Recv0(s)
    <3>1. handler[s] # "new" /\ UNCHANGED <<handler, queue, made>>
      BY <2>8 DEF Disconnect, Recv0, Newcomers, handlerVars
    <3>2. \A t \in Sessions \ {s} : closing'[t] = closing[t] /\ connected'[t] = connected[t]
      BY <1>0, <2>8 DEF Disconnect, Recv0
    <3> QED
      BY <1>1, <1>2, <2>1, <3>1, <3>2 DEF Made
  <2>9. CASE LoadPlayer(s) \/ RemoveFromManager(s) \/ ReleaseSession(s)
    <3>1. handler[s] # "new"
      BY <2>9 DEF LoadPlayer, RemoveFromManager, ReleaseSession, Newcomers
    <3>2. UNCHANGED <<handler, queue, connected, made>>
      BY <2>9 DEF LoadPlayer, RemoveFromManager, ReleaseSession, handlerVars, sessionVars
    <3>3. \A t \in Sessions \ {s} : closing'[t] = closing[t]
      BY <1>0, <2>9 DEF LoadPlayer, RemoveFromManager, ReleaseSession
    <3> QED
      BY <1>1, <1>2, <2>1, <3>1, <3>2, <3>3 DEF Made
  <2>10. CASE PostLeave(s)
    <3> DEFINE j == [kind |-> "leave", who |-> Player(s, leaver[s])]
    <3>1. handler[s] # "new" /\ UNCHANGED <<handler, connected, made>> /\ queue' = Append(queue, j)
      BY <2>10 DEF PostLeave, Post, Newcomers, handlerVars, sessionVars
    <3>2. j.kind # "enter"
      OBVIOUS
    <3> HIDE DEF j
    <3>3. \A i \in DOMAIN queue' : \/ i \in DOMAIN queue /\ queue'[i] = queue[i]
                                   \/ queue'[i] = j
      BY <1>0, <3>1
    <3>4. \A i \in DOMAIN queue' : queue'[i].kind = "enter" => queue'[i].who \in Made
      BY <1>2, <3>2, <3>3
    <3>5. \A t \in Sessions \ {s} : closing'[t] = closing[t]
      BY <1>0, <2>10 DEF PostLeave
    <3> QED
      BY <1>1, <1>2, <2>1, <3>1, <3>4, <3>5 DEF Made
  <2>11. CASE ProcessDisconnect(s)
    BY <1>1, <1>2, <2>1, <2>11 DEF ProcessDisconnect, handlerVars, closingVars, Made
  <2> QED
    BY <1>3, <2>3, <2>4, <2>5, <2>6, <2>7, <2>8, <2>9, <2>10, <2>11 DEF HandlerStep, ClosingStep
<1>4. ASSUME RunJob
      PROVE  Newcomers'
  <2>1. UNCHANGED <<connected, handler, closing, made>>
    BY <1>4, RoomSteps DEF sessionVars, handlerVars, closingVars
  <2>2. queue # <<>> /\ queue' = Tail(queue)
    BY <1>4 DEF RunJob, RunEnter, RunLeave, RunMove, RunHit, RunKill, RunMiss, RunSpawn, Running
  <2>3. \A i \in DOMAIN queue' : i + 1 \in DOMAIN queue /\ queue'[i] = queue[i + 1]
    BY <2>2, Oldest
  <2>4. \A i \in DOMAIN queue' : queue'[i].kind = "enter" => queue'[i].who \in Made
    BY <1>2, <2>3
  <2>5. players' \subseteq Made
    <3>1. CASE RunEnter
      <4>1. players' = players \cup {Head(queue).who} /\ Head(queue).kind = "enter"
        BY <3>1 DEF RunEnter, Running
      <4>2. Head(queue) = queue[1] /\ 1 \in DOMAIN queue
        BY <2>2, Oldest
      <4> QED
        BY <1>2, <4>1, <4>2
    <3>2. CASE ~RunEnter
      BY <1>2, <1>4, <3>2
      DEF RunJob, RunLeave, RunMove, RunHit, RunKill, RunMiss, RunSpawn, worldVars
    <3> QED
      BY <3>1, <3>2
  <2> QED
    BY <1>1, <2>1, <2>4, <2>5 DEF Made
<1>5. ASSUME SpawnDue
      PROVE  Newcomers'
  <2> DEFINE j == [kind |-> "spawn"]
  <2>1. UNCHANGED <<connected, handler, closing, players, made>> /\ Post(j)
    BY <1>5, RoomSteps DEF SpawnDue, sessionVars, handlerVars, closingVars, worldVars
  <2>2. j \in Job /\ j.kind # "enter"
    BY DEF Job
  <2> HIDE DEF j
  <2>3. \A i \in DOMAIN queue' : \/ i \in DOMAIN queue /\ queue'[i] = queue[i]
                                 \/ queue'[i] = j
    BY <2>1, <2>2, Posted
  <2>4. \A i \in DOMAIN queue' : queue'[i].kind = "enter" => queue'[i].who \in Made
    BY <1>2, <2>2, <2>3
  <2> QED
    BY <1>1, <1>2, <2>1, <2>4 DEF Made
<1>6. CASE UNCHANGED roomVars
  BY <1>1, <1>2, <1>6 DEF roomVars, Made
<1> QED
  BY <1>3, <1>4, <1>5, <1>6, NextCases

-----------------------------------------------------------------------------
(* Monsters *)

\* A monster dies and its successor is due, or is due and its job posted, or spawned: the
\* sum stays.
LEMMA MonsterStep ==
    ASSUME TypeOK, Handlers, Choices, MonsterIds, MonstersKept, [Next]_roomVars
    PROVE  MonsterIds' /\ MonstersKept'
<1> DEFINE n == Cardinality(Spawns(queue))
           c == Cardinality(monsters)
<1>0. /\ queue \in Seq(Job) /\ spawns \in Nat /\ nextId \in Nat
      /\ monsters \subseteq [id : Ids, hp : 1..MaxHp]
      /\ held \in [Sessions -> Job \cup {NoJob}]
  BY CountAssumption DEF TypeOK
<1>1. n \in Nat /\ c \in Nat /\ IsFiniteSet(monsters)
  BY <1>0, SpawnsFinite, FS_CardinalityType DEF MonsterIds
<1>2. /\ \A m, k \in monsters : m.id = k.id => m = k
      /\ \A m \in monsters : m.id < nextId
      /\ nextId + n <= MaxMonsterId + 1
      /\ ~crashed => c + spawns + n = MonsterCount
  BY DEF MonsterIds, MonstersKept, Count, Spawns
<1>3. ASSUME /\ IsFiniteSet(monsters')
             /\ \A m, k \in monsters' : m.id = k.id => m = k
             /\ \A m \in monsters' : m.id < nextId'
             /\ nextId' + Cardinality(Spawns(queue')) <= MaxMonsterId + 1
             /\ ~crashed' => Cardinality(monsters') + spawns' + Cardinality(Spawns(queue'))
                                = MonsterCount
      PROVE  MonsterIds' /\ MonstersKept'
  BY <1>3 DEF MonsterIds, MonstersKept, Count, Spawns
<1>4. ASSUME UNCHANGED <<monsters, nextId, spawns>>,
             Cardinality(Spawns(queue')) = n,
             ~crashed' => ~crashed
      PROVE  MonsterIds' /\ MonstersKept'
  BY <1>1, <1>2, <1>3, <1>4
<1>5. ASSUME NEW j \in Job, Post(j), j.kind # "spawn"
      PROVE  Cardinality(Spawns(queue')) = n
  <2>1. Cardinality(Spawns(Append(queue, j))) = n + 0
    BY <1>0, <1>5, SpawnsAppend
  <2> QED
    BY <1>1, <1>5, <2>1 DEF Post
<1>6. ASSUME NEW s \in Sessions, ~crashed,
             \/ ProcessConnect(s) \/ Packet(s) \/ HandlerStep(s) \/ Disconnect(s)
             \/ Recv0(s) \/ ClosingStep(s) \/ ProcessDisconnect(s)
      PROVE  MonsterIds' /\ MonstersKept'
  <2>1. UNCHANGED <<monsters, nextId, spawns>>
    BY <1>6, SessionSteps DEF worldVars
  <2>2. Cardinality(Spawns(queue')) = n
    <3>1. CASE PostHeld(s)
      <4>1. held[s] \in Job /\ held[s].kind # "spawn" /\ Post(held[s])
        BY <3>1 DEF PostHeld, Handlers
      <4> QED
        BY <1>5, <4>1
    <3>2. CASE PostLeave(s)
      <4> DEFINE j == [kind |-> "leave", who |-> Player(s, leaver[s])]
      <4>1. leaver[s] \in 1..MaxActions
        BY <3>2, CountAssumption DEF PostLeave, Choices, TypeOK
      <4>2. j \in Job /\ j.kind # "spawn" /\ Post(j)
        BY <3>2, <4>1, PlayerFacts DEF PostLeave, Job
      <4> HIDE DEF j
      <4> QED
        BY <1>5, <4>2
    <3>3. CASE ~PostHeld(s) /\ ~PostLeave(s)
      <4>1. UNCHANGED queue
        BY <1>6, <3>3
        DEF ProcessConnect, Packet, ClassChoice, UnknownPacket, Move, Hit, Action, Receive, HandlerStep,
            AddToManager, CreatePlayer, RegisterRecv, Disconnect, Recv0, ClosingStep,
            LoadPlayer, RemoveFromManager, ReleaseSession, ProcessDisconnect
      <4> QED
        BY <4>1
    <3> QED
      BY <3>1, <3>2, <3>3
  <2> QED
    BY <1>4, <1>6, <2>1, <2>2
<1>7. ASSUME Running("spawn")
      PROVE  Cardinality(Spawns(queue')) = n - 1
  BY <1>0, <1>7, SpawnsTail DEF Running
<1>8. ASSUME NEW kind, kind # "spawn", Running(kind)
      PROVE  Cardinality(Spawns(queue')) = n
  <2>1. Cardinality(Spawns(Tail(queue))) = n - 0
    BY <1>0, <1>8, SpawnsTail DEF Running
  <2> QED
    BY <1>1, <1>8, <2>1 DEF Running
<1>9. CASE ~crashed /\ (RunEnter \/ RunLeave \/ RunMove \/ RunMiss)
  <2>1. UNCHANGED <<monsters, nextId, spawns>>
    BY <1>9 DEF RunEnter, RunLeave, RunMove, RunMiss, worldVars
  <2>2. \E kind \in {"enter", "leave", "move", "hit"} : Running(kind)
    BY <1>9 DEF RunEnter, RunLeave, RunMove, RunMiss
  <2> QED
    BY <1>4, <1>8, <1>9, <2>1, <2>2
<1>10. CASE ~crashed /\ RunHit
  <2>1. PICK m \in monsters :
            /\ [m EXCEPT !.hp = @ - Head(queue).damage].hp > 0
            /\ monsters' = (monsters \ {m}) \cup {[m EXCEPT !.hp = @ - Head(queue).damage]}
    BY <1>10 DEF RunHit
  <2> DEFINE hurt == [m EXCEPT !.hp = @ - Head(queue).damage]
  <2>2. hurt.id = m.id
    BY <1>0, <2>1
  <2>3. monsters' = (monsters \ {m}) \cup {hurt}
    BY <2>1
  <2> HIDE DEF hurt
  <2>4. /\ \A a, b \in monsters' : a.id = b.id => a = b
        /\ \A a \in monsters' : a.id < nextId
    BY <1>2, <2>2, <2>3
  <2>5. hurt \notin monsters \ {m}
    BY <1>2, <2>2
  <2>6. IsFiniteSet(monsters \ {m}) /\ Cardinality(monsters \ {m}) = c - 1
    BY <1>1, FS_RemoveElement
  <2>7. IsFiniteSet(monsters') /\ Cardinality(monsters') = (c - 1) + 1
    BY <2>3, <2>5, <2>6, FS_AddElement
  <2>8. UNCHANGED <<nextId, spawns>> /\ Cardinality(Spawns(queue')) = n
    BY <1>8, <1>10 DEF RunHit
  <2> HIDE DEF n, c
  <2> QED
    BY <1>1, <1>2, <1>3, <1>10, <2>4, <2>7, <2>8
<1>11. CASE ~crashed /\ RunKill
  <2>1. PICK m \in monsters :
            \/ monsters' = monsters \ {m} /\ spawns' = spawns + 1 /\ UNCHANGED crashed
            \/ crashed' /\ UNCHANGED <<monsters, spawns>>
    BY <1>11 DEF RunKill
  <2>2. UNCHANGED nextId /\ Cardinality(Spawns(queue')) = n
    BY <1>8, <1>11 DEF RunKill
  <2>3. CASE crashed' /\ UNCHANGED <<monsters, spawns>>
    BY <1>1, <1>2, <1>3, <2>2, <2>3
  <2>4. CASE monsters' = monsters \ {m} /\ spawns' = spawns + 1 /\ UNCHANGED crashed
    <3>1. IsFiniteSet(monsters') /\ Cardinality(monsters') = c - 1
      BY <1>1, <2>4, FS_RemoveElement
    <3>2. /\ \A a, b \in monsters' : a.id = b.id => a = b
          /\ \A a \in monsters' : a.id < nextId'
      BY <1>2, <2>2, <2>4
    <3> HIDE DEF n, c
    <3>3. Cardinality(monsters') + spawns' + n = MonsterCount
      BY <1>0, <1>1, <1>2, <1>11, <2>4, <3>1
    <3> QED
      BY <1>2, <1>3, <2>2, <3>1, <3>2, <3>3
  <2> QED
    BY <2>1, <2>3, <2>4
<1>12. CASE ~crashed /\ RunSpawn
  <2> DEFINE m == [id |-> nextId, hp |-> MaxHp]
  <2>1. monsters' = monsters \cup {m} /\ nextId' = nextId + 1 /\ UNCHANGED spawns
    BY <1>12 DEF RunSpawn
  <2>2. Cardinality(Spawns(queue')) = n - 1
    BY <1>7, <1>12 DEF RunSpawn
  <2>3. m.id = nextId
    OBVIOUS
  <2> HIDE DEF m, n, c
  <2>4. \A a \in monsters : a.id \in Nat /\ a.id # nextId
    BY <1>0, <1>2, CountAssumption DEF Ids
  <2>5. /\ \A a, b \in monsters' : a.id = b.id => a = b
        /\ \A a \in monsters' : a.id < nextId'
    BY <1>0, <1>2, <2>1, <2>3, <2>4
  <2>6. IsFiniteSet(monsters') /\ Cardinality(monsters') = c + 1
    BY <1>1, <2>1, <2>3, <2>4, FS_AddElement DEF c
  <2>7. /\ nextId' + Cardinality(Spawns(queue')) <= MaxMonsterId + 1
        /\ Cardinality(monsters') + spawns' + Cardinality(Spawns(queue')) = MonsterCount
    BY <1>0, <1>1, <1>2, <1>12, <2>1, <2>2, <2>6, CountAssumption
  <2> QED
    BY <1>3, <2>5, <2>6, <2>7
<1>13. CASE ~crashed /\ SpawnDue
  <2>1. /\ UNCHANGED <<monsters, nextId>> /\ spawns' = spawns - 1
        /\ nextId + n <= MaxMonsterId
        /\ Post([kind |-> "spawn"])
    BY <1>13 DEF SpawnDue, worldVars, Spawns
  <2>2. [kind |-> "spawn"] \in Job
    BY DEF Job
  <2>3. Cardinality(Spawns(queue')) = n + 1
    BY <1>0, <2>1, <2>2, SpawnsAppend DEF Post
  <2> HIDE DEF n, c
  <2>4. /\ nextId + (n + 1) <= MaxMonsterId + 1
        /\ c + (spawns - 1) + (n + 1) = MonsterCount
    BY <1>0, <1>1, <1>2, <1>13, <2>1, CountAssumption
  <2> QED
    BY <1>1, <1>2, <1>3, <2>1, <2>3, <2>4 DEF c
<1>14. CASE UNCHANGED roomVars
  BY <1>4, <1>14 DEF roomVars
<1> QED
  BY <1>6, <1>9, <1>10, <1>11, <1>12, <1>13, <1>14, NextCases DEF RunJob

-----------------------------------------------------------------------------
(* What the clients were told *)

\* A connected session is alive, so that what is sent to it arrives.
LEMMA Heard ==
    ASSUME Registered, NEW s \in Sessions, connected[s]
    PROVE  Hears(s)
BY DEF Registered, Hears, Alive

\* Every job tells those who stay, and those who enter, what it changed.
LEMMA ViewStep ==
    ASSUME TypeOK, Registered, Newcomers, MonsterIds, ViewsAgree, [Next]_roomVars
    PROVE  ViewsAgree'
<1>0. /\ players \subseteq Players /\ view \in [Sessions -> World]
      /\ monsters \subseteq [id : Ids, hp : 1..MaxHp]
      /\ position \in [Players -> Places] /\ connected \in [Sessions -> BOOLEAN]
      /\ nextId \in Nat
      /\ \A p \in Players : Owner(p) \in Sessions
  BY CountAssumption, PlayerFacts DEF TypeOK
<1>1. ASSUME UNCHANGED <<players, position, monsters, view>>,
             \A p \in players : connected'[Owner(p)] => connected[Owner(p)]
      PROVE  ViewsAgree'
  BY <1>1 DEF ViewsAgree, Info
<1>2. ASSUME NEW p \in players, connected[Owner(p)]
      PROVE  /\ view[Owner(p)].players = {Info(q) : q \in players}
             /\ view[Owner(p)].monsters = monsters
             /\ Hears(Owner(p)) /\ Owner(p) \in Sessions
             /\ \A ps : p \in ps => Reaches(ps, Owner(p))
  <2>1. Owner(p) \in Sessions /\ Hears(Owner(p))
    BY <1>0, <1>2, Heard
  <2> QED
    BY <1>2, <2>1 DEF ViewsAgree, Reaches
<1>3. ASSUME NEW s \in Sessions,
             \/ ProcessConnect(s) \/ Packet(s) \/ HandlerStep(s) \/ Disconnect(s)
             \/ Recv0(s) \/ ClosingStep(s) \/ ProcessDisconnect(s)
      PROVE  ViewsAgree'
  <2>1. UNCHANGED <<players, position, monsters, view>>
    BY <1>3, SessionSteps DEF worldVars
  <2>2. ASSUME NEW p \in players, connected'[Owner(p)]
        PROVE  connected[Owner(p)]
    <3>1. CASE ProcessConnect(s)
      <4>1. Owner(p) # s
        <5>1. p \in Players /\ p[2] <= made[Owner(p)] /\ p[2] \in 1..MaxActions
          BY PlayerFacts DEF Newcomers, Made
        <5>2. made[s] = 0
          BY <3>1 DEF ProcessConnect, Newcomers
        <5> QED
          BY <5>1, <5>2, CountAssumption
      <4> QED
        BY <1>0, <2>2, <3>1, <4>1 DEF ProcessConnect
    <3>2. CASE Disconnect(s) \/ Recv0(s) \/ RegisterRecv(s)
      BY <1>0, <2>2, <3>2 DEF Disconnect, Recv0, RegisterRecv
    <3>3. CASE \/ Packet(s) \/ AddToManager(s) \/ CreatePlayer(s) \/ PostHeld(s)
               \/ ClosingStep(s) \/ ProcessDisconnect(s)
      <4>1. UNCHANGED connected
        BY <3>3
        DEF Packet, ClassChoice, UnknownPacket, Move, Hit, Action, Receive, AddToManager,
            CreatePlayer, PostHeld, ClosingStep, LoadPlayer, PostLeave,
            RemoveFromManager, ReleaseSession, ProcessDisconnect, sessionVars
      <4> QED
        BY <2>2, <4>1
    <3> QED
      BY <1>3, <3>1, <3>2, <3>3 DEF HandlerStep
  <2> QED
    BY <1>1, <2>1, <2>2
<1>4. ASSUME UNCHANGED connected,
             \A p \in players' : connected[Owner(p)] =>
                /\ view'[Owner(p)].players = {[who |-> q, at |-> position'[q]] : q \in players'}
                /\ view'[Owner(p)].monsters = monsters'
      PROVE  ViewsAgree'
  BY <1>4 DEF ViewsAgree, Info
<1>5. ASSUME RunJob \/ SpawnDue
      PROVE  UNCHANGED connected
  BY <1>5, RoomSteps DEF sessionVars
<1>6. CASE RunEnter
  <2> DEFINE e == Head(queue).who
             world == Entrance(e)
  <2>1. /\ players' = players \cup {e} /\ UNCHANGED <<position, monsters>>
        /\ view' = [s \in Sessions |->
                      CASE s = Owner(e) /\ Hears(s) -> world
                        [] s # Owner(e) /\ Reaches(players, s) -> WithPlayer(view[s], Info(e))
                        [] OTHER -> view[s]]
    BY <1>6 DEF RunEnter
  <2>2. e \in Players
    BY <1>6, Oldest, JobFields DEF RunEnter, Running
  <2>3. world.players = {Info(q) : q \in players \cup {e}} /\ world.monsters = monsters
    BY DEF Entrance
  <2> HIDE DEF e, world
  <2> SUFFICES ASSUME NEW p \in players', connected[Owner(p)]
               PROVE  /\ view'[Owner(p)].players =
                            {[who |-> q, at |-> position'[q]] : q \in players'}
                      /\ view'[Owner(p)].monsters = monsters'
    BY <1>4, <1>5, <1>6 DEF RunJob
  <2> DEFINE s == Owner(p)
  <2>4. s \in Sessions /\ Hears(s)
    BY <1>0, <2>1, <2>2, Heard
  <2>5. CASE s = Owner(e)
    <3>1. view'[s] = world
      <4> HIDE DEF s
      <4> QED
        BY <2>1, <2>4, <2>5
    <3> QED
      BY <2>1, <2>3, <3>1 DEF Info
  <2>6. CASE s # Owner(e)
    <3>1. p \in players /\ p # e
      BY <2>1, <2>6
    <3>2. view'[s] = WithPlayer(view[s], Info(e))
      BY <1>2, <2>1, <2>4, <2>6, <3>1
    <3>3. /\ view'[s].players = {x \in view[s].players : x.who # Info(e).who} \cup {Info(e)}
          /\ view'[s].monsters = view[s].monsters
      BY <1>0, <2>4, <3>2 DEF WithPlayer, World
    <3>4. view[s].players = {Info(q) : q \in players} /\ view[s].monsters = monsters
      BY <1>2, <3>1
    <3>5. {x \in {Info(q) : q \in players} : x.who # Info(e).who} \cup {Info(e)} =
                {Info(q) : q \in players \cup {e}}
      BY DEF Info
    <3> HIDE DEF s
    <3> QED
      BY <2>1, <3>3, <3>4, <3>5 DEF Info, s
  <2> QED
    BY <2>5, <2>6
<1>7. CASE RunLeave
  <2> DEFINE e == Head(queue).who
  <2>1. /\ players' = players \ {e} /\ UNCHANGED <<position, monsters>>
        /\ view' = [s \in Sessions |->
                      IF Reaches(players \ {e}, s)
                      THEN [view[s] EXCEPT !.players = {x \in @ : x.who # e}] ELSE view[s]]
    BY <1>7 DEF RunLeave, Broadcast
  <2> HIDE DEF e
  <2> SUFFICES ASSUME NEW p \in players', connected[Owner(p)]
               PROVE  /\ view'[Owner(p)].players =
                            {[who |-> q, at |-> position'[q]] : q \in players'}
                      /\ view'[Owner(p)].monsters = monsters'
    BY <1>4, <1>5, <1>7 DEF RunJob
  <2> DEFINE s == Owner(p)
  <2>2. p \in players /\ s \in Sessions /\ Reaches(players \ {e}, s)
    BY <1>2, <2>1
  <2>3. view[s].players = {Info(q) : q \in players} /\ view[s].monsters = monsters
    BY <1>2, <2>2
  <2> HIDE DEF s
  <2>4. /\ view'[s].players = {x \in view[s].players : x.who # e}
        /\ view'[s].monsters = view[s].monsters
    BY <1>0, <2>1, <2>2 DEF World
  <2>5. {x \in {Info(q) : q \in players} : x.who # e} = {Info(q) : q \in players'}
    BY <2>1 DEF Info
  <2>6. view'[s].players = {Info(q) : q \in players'} /\ view'[s].monsters = monsters
    BY <2>3, <2>4, <2>5
  <2> QED
    BY <2>1, <2>6 DEF Info, s
<1>8. CASE RunMove
  <2> DEFINE e == Head(queue).who
             x == Head(queue).to
             i == [who |-> e, at |-> x]
  <2>1. UNCHANGED <<players, monsters>>
    BY <1>8 DEF RunMove
  <2>2. CASE e \notin players
    <3>1. UNCHANGED <<position, view>>
      BY <1>8, <2>2 DEF RunMove
    <3> QED
      BY <1>1, <1>5, <1>8, <2>1, <3>1 DEF RunJob
  <2>3. CASE e \in players
    <3>1. /\ position' = [position EXCEPT ![e] = x]
          /\ view' = [s \in Sessions |->
                        IF Reaches(players, s)
                        THEN IF \E y \in view[s].players : y.who = e
                             THEN WithPlayer(view[s], i) ELSE view[s]
                        ELSE view[s]]
      BY <1>8, <2>3 DEF RunMove, Broadcast
    <3>2. i.who = e /\ i.at = x
      OBVIOUS
    <3> SUFFICES ASSUME NEW p \in players', connected[Owner(p)]
                 PROVE  /\ view'[Owner(p)].players =
                              {[who |-> q, at |-> position'[q]] : q \in players'}
                        /\ view'[Owner(p)].monsters = monsters'
      BY <1>4, <1>5, <1>8 DEF RunJob
    <3> DEFINE s == Owner(p)
    <3>3. s \in Sessions /\ Reaches(players, s)
      BY <1>2, <2>1
    <3>4. view[s].players = {[who |-> q, at |-> position[q]] : q \in players}
          /\ view[s].monsters = monsters
      BY <1>2, <2>1 DEF Info
    <3>5. \A q \in Players : position'[q] = IF q = e THEN x ELSE position[q]
      BY <1>0, <3>1
    <3> HIDE DEF s
    <3>6. \E y \in view[s].players : y.who = e
      <4>1. [who |-> e, at |-> position[e]] \in view[s].players
        BY <2>3, <3>4
      <4> QED
        BY <4>1
    <3> HIDE DEF i, x, e
    <3>7. view'[s] = WithPlayer(view[s], i)
      BY <3>1, <3>3, <3>6
    <3>8. /\ view'[s].players = {y \in view[s].players : y.who # e} \cup {i}
          /\ view'[s].monsters = view[s].monsters
      BY <1>0, <3>2, <3>3, <3>7 DEF WithPlayer, World
    <3>9. {y \in view[s].players : y.who # e} =
              {[who |-> q, at |-> position[q]] : q \in players \ {e}}
      BY <3>4
    <3>10. {[who |-> q, at |-> position[q]] : q \in players \ {e}} =
              {[who |-> q, at |-> position'[q]] : q \in players \ {e}}
      BY <1>0, <3>5
    <3>11. i = [who |-> e, at |-> position'[e]]
      BY <1>0, <2>3, <3>5 DEF i
    <3>12. {[who |-> q, at |-> position'[q]] : q \in players \ {e}} \cup {i} =
              {[who |-> q, at |-> position'[q]] : q \in players'}
      BY <2>1, <2>3, <3>11
    <3> QED
      BY <2>1, <3>4, <3>8, <3>9, <3>10, <3>12 DEF s
  <2> QED
    BY <2>2, <2>3
<1>9. ASSUME RunJob, UNCHANGED <<players, position>>, NEW told,
             view' = [s \in Sessions |->
                        IF Reaches(players, s) THEN told[s] ELSE view[s]],
             \A s \in Sessions : view[s].monsters = monsters =>
                /\ told[s].players = view[s].players
                /\ told[s].monsters = monsters'
      PROVE  ViewsAgree'
  <2> SUFFICES ASSUME NEW p \in players', connected[Owner(p)]
               PROVE  /\ view'[Owner(p)].players =
                            {[who |-> q, at |-> position'[q]] : q \in players'}
                      /\ view'[Owner(p)].monsters = monsters'
    BY <1>4, <1>5, <1>9
  <2>1. view'[Owner(p)] = told[Owner(p)] /\ Owner(p) \in Sessions
    BY <1>2, <1>9
  <2> QED
    BY <1>2, <1>9, <2>1 DEF Info
<1>10. \A m, k \in monsters : m.id = k.id => m = k
  BY DEF MonsterIds
<1>11. CASE RunHit
  <2>1. PICK m \in monsters :
            /\ monsters' = (monsters \ {m}) \cup {[m EXCEPT !.hp = @ - Head(queue).damage]}
            /\ Broadcast(players, [t \in Sessions |->
                    WithMonster(view[t], [m EXCEPT !.hp = @ - Head(queue).damage])])
    BY <1>11 DEF RunHit
  <2> DEFINE hurt == [m EXCEPT !.hp = @ - Head(queue).damage]
             told == [t \in Sessions |-> WithMonster(view[t], hurt)]
  <2>2. hurt.id = m.id
    BY <1>0, <2>1
  <2>3. monsters' = (monsters \ {m}) \cup {hurt}
    BY <2>1
  <2>4. view' = [s \in Sessions |->
                    IF Reaches(players, s) THEN told[s] ELSE view[s]]
    BY <2>1 DEF Broadcast
  <2> HIDE DEF hurt
  <2>5. ASSUME NEW s \in Sessions, view[s].monsters = monsters
        PROVE  told[s].players = view[s].players /\ told[s].monsters = monsters'
    <3>1. told[s] = [view[s] EXCEPT !.monsters = {x \in @ : x.id # hurt.id} \cup {hurt}]
      BY <1>0 DEF WithMonster
    <3>2. /\ told[s].players = view[s].players
          /\ told[s].monsters = {x \in view[s].monsters : x.id # hurt.id} \cup {hurt}
      BY <1>0, <3>1 DEF World
    <3>3. {x \in monsters : x.id # hurt.id} = monsters \ {m}
      BY <1>10, <2>2
    <3> QED
      BY <2>3, <2>5, <3>2, <3>3
  <2> HIDE DEF told
  <2> QED
    BY <1>9, <1>11, <2>4, <2>5 DEF RunHit, RunJob
<1>12. CASE RunKill
  <2>1. PICK m \in monsters :
            \/ /\ monsters' = monsters \ {m}
               /\ Broadcast(players, [t \in Sessions |->
                        [view[t] EXCEPT !.monsters = {x \in @ : x.id # m.id}]])
            \/ UNCHANGED <<monsters, view>>
    BY <1>12 DEF RunKill
  <2>2. UNCHANGED <<players, position>>
    BY <1>12 DEF RunKill
  <2>3. CASE UNCHANGED <<monsters, view>>
    BY <1>1, <1>5, <1>12, <2>2, <2>3 DEF RunJob
  <2>4. CASE /\ monsters' = monsters \ {m}
             /\ Broadcast(players, [t \in Sessions |->
                    [view[t] EXCEPT !.monsters = {x \in @ : x.id # m.id}]])
    <3> DEFINE told == [t \in Sessions |->
                            [view[t] EXCEPT !.monsters = {x \in @ : x.id # m.id}]]
    <3>1. view' = [s \in Sessions |->
                      IF Reaches(players, s) THEN told[s] ELSE view[s]]
      BY <2>4 DEF Broadcast
    <3>2. ASSUME NEW s \in Sessions, view[s].monsters = monsters
          PROVE  told[s].players = view[s].players /\ told[s].monsters = monsters'
      <4>1. told[s] = [view[s] EXCEPT !.monsters = {x \in @ : x.id # m.id}]
        BY <1>0
      <4>2. /\ told[s].players = view[s].players
            /\ told[s].monsters = {x \in view[s].monsters : x.id # m.id}
        BY <1>0, <4>1 DEF World
      <4>3. {x \in monsters : x.id # m.id} = monsters \ {m}
        BY <1>10
      <4> QED
        BY <2>4, <3>2, <4>2, <4>3
    <3> HIDE DEF told
    <3> QED
      BY <1>9, <1>12, <2>2, <3>1, <3>2 DEF RunJob
  <2> QED
    BY <2>1, <2>3, <2>4
<1>13. CASE RunSpawn
  <2> DEFINE m == [id |-> nextId, hp |-> MaxHp]
             told == [t \in Sessions |-> WithMonster(view[t], m)]
  <2>1. /\ monsters' = monsters \cup {m} /\ UNCHANGED <<players, position>>
        /\ view' = [s \in Sessions |->
                      IF Reaches(players, s) THEN told[s] ELSE view[s]]
    BY <1>13 DEF RunSpawn, Broadcast
  <2>2. m.id = nextId
    OBVIOUS
  <2> HIDE DEF m
  <2>3. \A a \in monsters : a.id # nextId
    <3>1. \A a \in monsters : a.id \in Nat /\ a.id < nextId
      BY <1>0, CountAssumption DEF Ids, MonsterIds
    <3> QED
      BY <1>0, <3>1
  <2>4. ASSUME NEW s \in Sessions, view[s].monsters = monsters
        PROVE  told[s].players = view[s].players /\ told[s].monsters = monsters'
    <3>1. told[s] = [view[s] EXCEPT !.monsters = {x \in @ : x.id # m.id} \cup {m}]
      BY <1>0 DEF WithMonster
    <3>2. /\ told[s].players = view[s].players
          /\ told[s].monsters = {x \in view[s].monsters : x.id # m.id} \cup {m}
      BY <1>0, <3>1 DEF World
    <3>3. {x \in monsters : x.id # m.id} = monsters
      BY <2>2, <2>3
    <3> QED
      BY <2>1, <2>4, <3>2, <3>3
  <2> HIDE DEF told
  <2> QED
    BY <1>9, <1>13, <2>1, <2>4 DEF RunJob
<1>14. CASE RunMiss \/ SpawnDue
  <2>1. UNCHANGED <<players, position, monsters, view, connected>>
    BY <1>14 DEF RunMiss, SpawnDue, worldVars, sessionVars
  <2> QED
    BY <1>1, <2>1
<1>15. CASE UNCHANGED roomVars
  BY <1>1, <1>15 DEF roomVars
<1> QED
  BY <1>3, <1>6, <1>7, <1>8, <1>11, <1>12, <1>13, <1>14, <1>15, NextCases DEF RunJob

-----------------------------------------------------------------------------
(* The invariant *)

\* MonsterInit makes count monsters with different ids.
LEMMA FirstMonsters ==
    ASSUME Init
    PROVE  /\ IsFiniteSet(monsters) /\ Cardinality(monsters) = MonsterCount
           /\ \A m, k \in monsters : m.id = k.id => m = k
           /\ \A m \in monsters : m.id < nextId
<1> DEFINE T == 1..MonsterCount
           f == [i \in T |-> [id |-> i, hp |-> MaxHp]]
<1>1. monsters = {[id |-> i, hp |-> MaxHp] : i \in T} /\ nextId = MonsterCount + 1
  BY DEF Init
<1>2. IsFiniteSet(T) /\ Cardinality(T) = MonsterCount
  <2>1. MonsterCount \in Nat
    BY CountAssumption
  <2> QED
    BY <2>1, FS_Interval
<1>3. f \in Bijection(T, monsters)
  <2>1. f \in [T -> monsters]
    BY <1>1
  <2>2. \A a, b \in T : f[a] = f[b] => a = b
    <3>1. \A a \in T : f[a].id = a
      OBVIOUS
    <3> QED
      BY <3>1
  <2>3. \A m \in monsters : \E i \in T : f[i] = m
    BY <1>1
  <2> HIDE DEF T, f
  <2> QED
    BY <2>1, <2>2, <2>3 DEF Bijection, Injection, Surjection, IsInjective
<1>4. \A i \in T : i < nextId
  BY <1>1, CountAssumption
<1>5. ExistsBijection(T, monsters)
  BY <1>3 DEF ExistsBijection
<1>6. IsFiniteSet(monsters) /\ Cardinality(monsters) = MonsterCount
  <2> HIDE DEF T, f
  <2> QED
    BY <1>2, <1>5, FS_Bijection
<1> HIDE DEF T, f
<1> QED
  BY <1>1, <1>4, <1>6

\* The invariant holds when the server has made its room and accepted nobody.
LEMMA GameInit ==
    ASSUME Init
    PROVE  GameInv
<1>1. TypeOK
  <2>1. monsters \subseteq [id : Ids, hp : 1..MaxHp]
    <3>1. monsters = {[id |-> i, hp |-> MaxHp] : i \in 1..MonsterCount}
      BY DEF Init
    <3>2. MaxHp \in 1..MaxHp /\ 1..MonsterCount \subseteq Ids
      BY CountAssumption DEF Ids
    <3> QED
      BY <3>1, <3>2
  <2>2. nextId \in 1..(MaxMonsterId + 1) /\ 0 \in 0..MaxActions
    BY CountAssumption DEF Init
  <2>3. Nothing \in World
    BY DEF Nothing, World
  <2>4. queue \in Seq(Job)
    BY DEF Init
  <2> QED
    BY <2>1, <2>2, <2>3, <2>4 DEF Init, TypeOK, Labels, Places
<1>2. Registered /\ ReleasedOnce /\ ViewsAgree
  BY DEF Init, Registered, ReleasedOnce, ViewsAgree
<1>3. Handlers
  <2>1. NoJob \notin Job /\ NoJob.kind \notin {"enter", "spawn"}
    BY JobFields DEF NoJob
  <2> QED
    BY <2>1 DEF Init, Handlers
<1>4. DOMAIN queue = {} /\ spawns = 0
  BY DEF Init
<1>5. Newcomers /\ Choices
  BY <1>4 DEF Init, Newcomers, Choices, Choosing
<1>6. Count("spawn") = 0
  <2>1. {i \in DOMAIN queue : queue[i].kind = "spawn"} = {}
    BY <1>4
  <2> QED
    BY <2>1, FS_EmptySet DEF Count
<1>7. nextId + Count("spawn") <= MaxMonsterId + 1
  BY <1>6, CountAssumption DEF Init
<1> HIDE DEF Count
<1>8. MonsterIds
  BY <1>7, FirstMonsters DEF MonsterIds
<1>9. MonstersKept
  BY <1>4, <1>6, FirstMonsters, CountAssumption DEF MonstersKept
<1> QED
  BY <1>1, <1>2, <1>3, <1>5, <1>8, <1>9 DEF GameInv

\* Every step of a session or of the Room keeps it.
LEMMA GameStep ==
    ASSUME GameInv, [Next]_roomVars
    PROVE  GameInv'
<1>1. /\ TypeOK /\ Registered /\ Handlers /\ Choices /\ Newcomers /\ ReleasedOnce
      /\ MonsterIds /\ MonstersKept /\ ViewsAgree
  BY DEF GameInv
<1>2. TypeOK'
  <2>1. CASE UNCHANGED roomVars
    BY <1>1, <2>1 DEF TypeOK, roomVars
  <2> QED
    BY <1>1, <2>1, NextCases, SessionTypeStep, RoomTypeStep
<1>3. \A s \in Sessions : handler[s] = "new" => closing[s] = "no"
  BY <1>1 DEF Newcomers
<1>4. Registered' /\ ReleasedOnce'
  BY <1>1, <1>3, LifeStep
<1>5. Handlers' /\ Choices' /\ Newcomers'
  BY <1>1, HandlersStep, ChoicesStep, NewcomersStep
<1>6. MonsterIds' /\ MonstersKept'
  BY <1>1, MonsterStep
<1>7. ViewsAgree'
  BY <1>1, ViewStep
<1> QED
  BY <1>2, <1>4, <1>5, <1>6, <1>7 DEF GameInv

\* Whatever the clients, the worker threads and the timer do, in any order, the invariant
\* holds: what the jobs rely on is true when they run.
THEOREM GameInvariance == Spec => []GameInv
<1>1. Init => GameInv
  BY GameInit
<1>2. GameInv /\ [Next]_roomVars => GameInv'
  BY GameStep
<1> QED
  BY <1>1, <1>2, PTL DEF Spec

\* Every variable of the game keeps its type: no monster of the room is without hp.
THEOREM GameTypes == Spec => []TypeOK
<1>1. GameInv => TypeOK
  BY DEF GameInv
<1> QED
  BY <1>1, GameInvariance, PTL

\* The packets a client was sent describe the Room (ViewsAgree), for any number of
\* players who enter, move, hit and leave at once.
THEOREM ViewsAreTrue == Spec => []ViewsAgree
<1>1. GameInv => ViewsAgree
  BY DEF GameInv
<1> QED
  BY <1>1, GameInvariance, PTL

\* As many monsters as MonsterInit made are in the room or due (MonstersKept), however
\* many hits reach a monster that is dead already.
THEOREM MonstersAreKept == Spec => []MonstersKept
<1>1. GameInv => MonstersKept
  BY DEF GameInv
<1> QED
  BY <1>1, GameInvariance, PTL

\* ReleaseSession's assertion holds (ReleasedOnce), whichever thread disconnects first.
THEOREM SessionsAreReleasedOnce == Spec => []ReleasedOnce
<1>1. GameInv => ReleasedOnce
  BY DEF GameInv
<1> QED
  BY <1>1, GameInvariance, PTL
-----------------------------------------------------------------------------
(* What is behind CrashCauses *)

\* Until a session is disconnected, whatever moves or hits with a player of it does so
\* inside the room: held by a handler, queued behind the player's entry, or let through
\* because Player::room was set.
Acts(j, p) == j.kind \in {"move", "hit"} /\ j.who = p
Inside(p) ==
    /\ p \in roomOf => p \in players
    /\ Acts(held[Owner(p)], p) => p \in players
    /\ \A i \in DOMAIN queue : /\ Acts(queue[i], p) => p \in players
                               /\ ~(queue[i].kind = "leave" /\ queue[i].who = p)
Actors ==
    /\ \A s \in Sessions : handler[s] = "post" =>
            Owner(held[s].who) = s /\ held[s].kind # "leave"
    /\ \A p \in Players : closing[Owner(p)] = "no" => Inside(p)

\* The steps of a session's threads that post nothing keep it.
LEMMA ActorsHeld ==
    ASSUME TypeOK, Actors, UNCHANGED <<queue, players, roomOf>>,
           \A t \in Sessions : closing'[t] = "no" => closing[t] = "no",
           \A t \in Sessions :
              \/ held'[t] = held[t] /\ (handler'[t] = "post" => handler[t] = "post")
              \/ /\ Owner(held'[t].who) = t /\ held'[t].kind # "leave"
                 /\ held'[t].kind \in {"move", "hit"} => held'[t].who \in roomOf
    PROVE  Actors'
<1>1. ASSUME NEW t \in Sessions, handler'[t] = "post"
      PROVE  Owner(held'[t].who) = t /\ held'[t].kind # "leave"
  BY <1>1 DEF Actors
<1>2. ASSUME NEW p \in Players, closing'[Owner(p)] = "no"
      PROVE  Inside(p)'
  <2>1. Inside(p) /\ Owner(p) \in Sessions
    BY <1>2, PlayerFacts DEF Actors
  <2>2. Acts(held'[Owner(p)], p) => p \in players
    BY <2>1 DEF Inside, Acts
  <2> QED
    BY <2>1, <2>2 DEF Inside, Acts
<1> QED
  BY <1>1, <1>2 DEF Actors

\* A handler posts what it holds, and Disconnect posts a player's leaving.
LEMMA ActorsPosted ==
    ASSUME TypeOK, Handlers, Choices, Actors, NEW s \in Sessions, PostHeld(s) \/ PostLeave(s)
    PROVE  Actors'
<1>0. /\ handler \in [Sessions -> Labels]
      /\ held \in [Sessions -> Job \cup {NoJob}]
      /\ closing \in [Sessions -> {"no", "load", "leave", "remove", "release", "done"}]
  BY DEF TypeOK
<1>1. CASE PostHeld(s)
  <2>1. /\ handler[s] = "post" /\ held[s] \in Job /\ Post(held[s])
        /\ held' = [held EXCEPT ![s] = NoJob]
        /\ handler' = [handler EXCEPT ![s] = "register"]
        /\ UNCHANGED <<closing, players, roomOf>>
    BY <1>1 DEF PostHeld, At, Handlers, closingVars, worldVars
  <2>2. \A i \in DOMAIN queue' : \/ i \in DOMAIN queue /\ queue'[i] = queue[i]
                                 \/ queue'[i] = held[s]
    BY <2>1, Posted
  <2>3. Owner(held[s].who) = s /\ held[s].kind # "leave"
    BY <2>1 DEF Actors
  <2>4. ASSUME NEW t \in Sessions, handler'[t] = "post"
        PROVE  Owner(held'[t].who) = t /\ held'[t].kind # "leave"
    BY <1>0, <2>1, <2>4 DEF Actors
  <2>5. ASSUME NEW p \in Players, closing'[Owner(p)] = "no"
        PROVE  Inside(p)'
    <3>1. Inside(p) /\ Owner(p) \in Sessions
      BY <2>1, <2>5, PlayerFacts DEF Actors
    <3>2. Acts(held'[Owner(p)], p) => p \in players
      BY <1>0, <2>1, <3>1 DEF Inside, Acts, NoJob
    <3>3. Acts(held[s], p) => p \in players
      BY <2>3, <3>1 DEF Inside, Acts
    <3> QED
      BY <2>1, <2>2, <2>3, <3>1, <3>2, <3>3 DEF Inside, Acts
  <2> QED
    BY <2>4, <2>5 DEF Actors
<1>2. CASE PostLeave(s)
  <2> DEFINE j == [kind |-> "leave", who |-> Player(s, leaver[s])]
  <2>0. leaver[s] \in 1..MaxActions
    BY <1>2, CountAssumption DEF PostLeave, Choices, TypeOK
  <2>1. /\ closing' = [closing EXCEPT ![s] = "remove"] /\ Post(j) /\ j \in Job
        /\ j.kind = "leave" /\ Owner(j.who) = s
        /\ UNCHANGED <<handler, held, players, roomOf>>
    BY <1>2, <2>0, PlayerFacts DEF PostLeave, Job, handlerVars, worldVars
  <2> HIDE DEF j
  <2>2. \A i \in DOMAIN queue' : \/ i \in DOMAIN queue /\ queue'[i] = queue[i]
                                 \/ queue'[i] = j
    BY <2>1, Posted
  <2>3. ASSUME NEW p \in Players, closing'[Owner(p)] = "no"
        PROVE  Inside(p)'
    <3>1. Owner(p) # s /\ Inside(p)
      BY <1>0, <2>1, <2>3, PlayerFacts DEF Actors
    <3> QED
      BY <2>1, <2>2, <3>1 DEF Inside, Acts
  <2> QED
    BY <2>1, <2>3 DEF Actors
<1> QED
  BY <1>1, <1>2

\* The jobs of the Room keep it: one that enters is inside, and none leaves before its
\* session is disconnected.
LEMMA ActorsRoom ==
    ASSUME TypeOK, Actors, RunJob \/ SpawnDue
    PROVE  Actors'
<1>0. UNCHANGED <<handler, held, closing>>
  BY RoomSteps DEF handlerVars, closingVars
<1>1. SUFFICES ASSUME NEW p \in Players, closing[Owner(p)] = "no"
               PROVE  Inside(p)'
  BY <1>0 DEF Actors
<1>2. Inside(p)
  BY <1>1 DEF Actors
<1>3. CASE SpawnDue
  <2>1. [kind |-> "spawn"] \in Job
    BY DEF Job
  <2>2. Post([kind |-> "spawn"]) /\ UNCHANGED <<players, roomOf>>
    BY <1>3 DEF SpawnDue, worldVars
  <2>3. \A i \in DOMAIN queue' : \/ i \in DOMAIN queue /\ queue'[i] = queue[i]
                                 \/ queue'[i] = [kind |-> "spawn"]
    BY <2>1, <2>2, Posted
  <2> QED
    BY <1>0, <1>2, <2>2, <2>3 DEF Inside, Acts
<1>4. ASSUME RunJob
      PROVE  /\ queue # <<>> /\ queue' = Tail(queue)
             /\ Head(queue) = queue[1] /\ 1 \in DOMAIN queue
             /\ \A i \in DOMAIN queue' : i + 1 \in DOMAIN queue /\ queue'[i] = queue[i + 1]
  <2>1. queue # <<>> /\ queue' = Tail(queue)
    BY <1>4 DEF RunJob, RunEnter, RunLeave, RunMove, RunHit, RunKill, RunMiss, RunSpawn, Running
  <2> QED
    BY <2>1, Oldest
<1>5. CASE RunEnter
  <2>1. /\ players' = players \cup {Head(queue).who}
        /\ roomOf' = roomOf \cup {Head(queue).who}
    BY <1>5 DEF RunEnter
  <2>2. RunJob
    BY <1>5 DEF RunJob
  <2> QED
    BY <1>0, <1>2, <1>4, <2>1, <2>2 DEF Inside, Acts
<1>6. CASE RunLeave
  <2>1. /\ players' = players \ {Head(queue).who}
        /\ roomOf' = roomOf \/ roomOf' = roomOf \ {Head(queue).who}
        /\ Head(queue).kind = "leave"
    BY <1>6 DEF RunLeave, Running
  <2>2. RunJob
    BY <1>6 DEF RunJob
  <2>3. Head(queue).who # p
    BY <1>2, <1>4, <2>1, <2>2 DEF Inside
  <2> QED
    BY <1>0, <1>2, <1>4, <2>1, <2>2, <2>3 DEF Inside, Acts
<1>7. CASE RunMove \/ RunHit \/ RunKill \/ RunMiss \/ RunSpawn
  <2>1. UNCHANGED <<players, roomOf>>
    BY <1>7 DEF RunMove, RunHit, RunKill, RunMiss, RunSpawn, worldVars
  <2>2. RunJob
    BY <1>7 DEF RunJob
  <2> QED
    BY <1>0, <1>2, <1>4, <2>1, <2>2 DEF Inside, Acts
<1> QED
  BY <1>3, <1>5, <1>6, <1>7 DEF RunJob

\* Every step keeps it.
LEMMA ActorsStep ==
    ASSUME GameInv, Actors, [Next]_roomVars
    PROVE  Actors'
<1>0. /\ TypeOK /\ Handlers /\ Choices
      /\ handler \in [Sessions -> Labels]
      /\ held \in [Sessions -> Job \cup {NoJob}]
      /\ closing \in [Sessions -> {"no", "load", "leave", "remove", "release", "done"}]
  BY DEF GameInv, TypeOK
<1>1. ASSUME NEW s \in Sessions, NEW j \in Job, Holds(s, j)
      PROVE  Actors'
  <2>1. /\ UNCHANGED <<queue, players, roomOf, closing>>
        /\ handler' = [handler EXCEPT ![s] = "post"] /\ held' = [held EXCEPT ![s] = j]
        /\ j.who \in roomOf /\ j.kind \in {"move", "hit"} /\ Owner(j.who) = s
    BY <1>1, PlayerFacts DEF Holds, Receive, At, closingVars, worldVars
  <2>2. ASSUME NEW t \in Sessions
        PROVE  \/ held'[t] = held[t] /\ (handler'[t] = "post" => handler[t] = "post")
               \/ Owner(held'[t].who) = t /\ held'[t] = j
    BY <1>0, <2>1
  <2> QED
    BY <1>0, <2>1, <2>2, ActorsHeld
<1>2. ASSUME NEW s \in Sessions,
             \/ ClassChoice(s) \/ UnknownPacket(s) \/ Drops(s) \/ ProcessConnect(s)
             \/ AddToManager(s)
      PROVE  Actors'
  <2>1. UNCHANGED <<queue, players, roomOf, closing, held>>
    BY <1>2 DEF ClassChoice, UnknownPacket, Drops, ProcessConnect, AddToManager, Receive,
                closingVars, worldVars
  <2>2. \E l \in {"add", "create", "register", "unhandled"} :
            handler' = [handler EXCEPT ![s] = l]
    BY <1>2 DEF ClassChoice, UnknownPacket, Drops, ProcessConnect, AddToManager, Receive, At
  <2> QED
    BY <1>0, <2>1, <2>2, ActorsHeld
<1>3. ASSUME NEW s \in Sessions, CreatePlayer(s)
      PROVE  Actors'
  <2> DEFINE j == [kind |-> "enter", who |-> Player(s, made[s] + 1)]
  <2>1. /\ held' = [held EXCEPT ![s] = j]
        /\ handler' = [handler EXCEPT ![s] = "post"]
        /\ UNCHANGED <<queue, players, roomOf, closing>>
    BY <1>3 DEF CreatePlayer, At, closingVars, worldVars
  <2>2. j.kind = "enter" /\ Owner(j.who) = s
    BY PlayerFacts
  <2> HIDE DEF j
  <2>3. ASSUME NEW t \in Sessions
        PROVE  \/ held'[t] = held[t] /\ (handler'[t] = "post" => handler[t] = "post")
               \/ Owner(held'[t].who) = t /\ held'[t] = j
    BY <1>0, <2>1, <2>2
  <2> QED
    BY <1>0, <2>1, <2>2, <2>3, ActorsHeld
<1>4. ASSUME NEW s \in Sessions,
             \/ RegisterRecv(s) \/ Disconnect(s) \/ Recv0(s) \/ LoadPlayer(s)
             \/ RemoveFromManager(s) \/ ReleaseSession(s) \/ ProcessDisconnect(s)
      PROVE  Actors'
  <2>1. UNCHANGED <<queue, players, roomOf, held>>
    BY <1>4 DEF RegisterRecv, Disconnect, Recv0, LoadPlayer, RemoveFromManager,
                ReleaseSession, ProcessDisconnect, handlerVars, worldVars
  <2>2. \A t \in Sessions : closing'[t] = "no" => closing[t] = "no"
    BY <1>0, <1>4 DEF RegisterRecv, Disconnect, Recv0, LoadPlayer, RemoveFromManager,
                      ReleaseSession, ProcessDisconnect, closingVars
  <2>3. \A t \in Sessions : handler'[t] = "post" => handler[t] = "post"
    BY <1>0, <1>4 DEF RegisterRecv, Disconnect, Recv0, LoadPlayer, RemoveFromManager,
                      ReleaseSession, ProcessDisconnect, handlerVars, At
  <2> QED
    BY <1>0, <2>1, <2>2, <2>3, ActorsHeld
<1>5. ASSUME NEW s \in Sessions, PostHeld(s) \/ PostLeave(s)
      PROVE  Actors'
  BY <1>0, <1>5, ActorsPosted
<1>6. ASSUME RunJob \/ SpawnDue
      PROVE  Actors'
  BY <1>0, <1>6, ActorsRoom
<1>7. CASE UNCHANGED roomVars
  BY <1>0, <1>7, ActorsHeld DEF roomVars
<1>8. ASSUME NEW s \in Sessions, Packet(s)
      PROVE  Actors'
  BY <1>0, <1>1, <1>2, <1>8, PacketCases
<1> QED
  BY <1>2, <1>3, <1>4, <1>5, <1>6, <1>7, <1>8, NextCases DEF HandlerStep, ClosingStep

\* The server ends by a packet without a handler, or by the hit of a client that is not
\* connected any more (CrashCauses): the hit of one that is finds its player in the room,
\* whatever else was posted and whichever players it made, and ReleaseSession its session.
THEOREM CrashesHaveTwoCauses == Spec => CrashCauses
<1>1. Init => Actors
  BY JobFields, PlayerFacts DEF Init, Actors, Inside, Acts, NoJob
<1>2. GameInv /\ Actors /\ [Next]_roomVars => Actors'
  BY ActorsStep
<1>3. ASSUME GameInv, Actors, Next, ~crashed, crashed', ~\E s \in Sessions : UnknownPacket(s)
      PROVE  queue # <<>> /\ Head(queue).kind = "hit" /\ ~connected[Owner(Head(queue).who)]
  <2>0. TypeOK /\ Registered /\ ReleasedOnce /\ ~crashed
    BY <1>3 DEF Next, Step, GameInv
  <2>1. ~\E s \in Sessions :
            \/ ProcessConnect(s) \/ Packet(s) \/ HandlerStep(s) \/ Disconnect(s)
            \/ Recv0(s) \/ ProcessDisconnect(s)
    BY <1>3 DEF ProcessConnect, Packet, ClassChoice, Move, Hit, Action, Receive, HandlerStep,
                AddToManager, CreatePlayer, PostHeld, RegisterRecv, Disconnect, Recv0,
                ProcessDisconnect
  <2>2. ~\E s \in Sessions : LoadPlayer(s) \/ PostLeave(s) \/ RemoveFromManager(s)
    BY <1>3 DEF LoadPlayer, PostLeave, RemoveFromManager
  <2>3. ~\E s \in Sessions : ReleaseSession(s)
    BY <1>3, <2>0 DEF ReleaseSession, ReleasedOnce
  <2>4. ~(RunEnter \/ RunLeave \/ RunMove \/ RunHit \/ RunMiss \/ RunSpawn \/ SpawnDue)
    BY <1>3 DEF RunEnter, RunLeave, RunMove, RunHit, RunMiss, RunSpawn, SpawnDue
  <2>5. RunKill
    BY <1>3, <2>0, <2>1, <2>2, <2>3, <2>4 DEF Next, Step, RunJob, ClosingStep
  <2>6. queue # <<>> /\ Head(queue).kind = "hit"
    BY <2>5 DEF RunKill, Running
  <2> DEFINE p == Head(queue).who
  <2>7. ~(p \in players /\ Alive(Owner(p)))
    BY <1>3, <2>5 DEF RunKill
  <2>8. Head(queue) = queue[1] /\ 1 \in DOMAIN queue /\ p \in Players /\ Owner(p) \in Sessions
    BY <2>0, <2>6, Oldest, JobFields, PlayerFacts
  <2>9. ASSUME connected[Owner(p)]
        PROVE  FALSE
    <3>1. closing[Owner(p)] = "no" /\ Owner(p) \in inService
      BY <2>0, <2>8, <2>9 DEF Registered
    <3>2. p \in players
      BY <1>3, <2>6, <2>8, <3>1 DEF Actors, Inside, Acts
    <3> QED
      BY <2>7, <3>1, <3>2 DEF Alive
  <2> QED
    BY <2>6, <2>9
<1>4. GameInv /\ Actors /\ [Next]_roomVars =>
        [~crashed /\ crashed' =>
            \/ \E s \in Sessions : UnknownPacket(s)
            \/ /\ queue # <<>> /\ Head(queue).kind = "hit"
               /\ ~connected[Owner(Head(queue).who)]]_roomVars
  BY <1>3
<1> QED
  BY <1>1, <1>2, <1>4, GameInvariance, PTL DEF Spec, CrashCauses

-----------------------------------------------------------------------------
(* What is behind OrderlyDeparture *)

\* A job posted behind the player's leaving does not undo it, unless it is the entry.
LEMMA LeaveIsLastPosted ==
    ASSUME TypeOK, NEW p \in Players, LeaveIsLast(p), UNCHANGED players,
           NEW j \in Job, Post(j), j # [kind |-> "enter", who |-> p]
    PROVE  LeaveIsLast(p)'
<1> DEFINE enter == [kind |-> "enter", who |-> p]
           leave == [kind |-> "leave", who |-> p]
<1>1. \A i \in DOMAIN queue : i \in DOMAIN queue' /\ queue'[i] = queue[i]
  <2>1. queue \in Seq(Job) /\ queue' = Append(queue, j)
    BY DEF TypeOK, Post
  <2> QED
    BY <2>1
<1>2. \A i \in DOMAIN queue' : i \in DOMAIN queue \/ queue'[i] = j
  BY Posted
<1>3. ASSUME NEW i \in DOMAIN queue', queue'[i] = enter
      PROVE  i \in DOMAIN queue /\ queue[i] = enter
  BY <1>1, <1>2, <1>3
<1> HIDE DEF enter, leave
<1>4. ASSUME NEW k \in DOMAIN queue, queue[k] = leave,
             \A i \in DOMAIN queue : queue[i] = enter => i < k
      PROVE  LeaveIsLast(p)'
  BY <1>1, <1>3, <1>4 DEF LeaveIsLast, enter, leave
<1>5. CASE ~Entering(p)
  BY <1>3, <1>5 DEF LeaveIsLast, Entering, enter
<1> QED
  BY <1>4, <1>5 DEF LeaveIsLast, enter, leave

\* OnDisconnected posts the player's leaving behind whatever waits.
LEMMA LeaveIsLastMade ==
    ASSUME TypeOK, NEW s \in Sessions, NEW p \in Players, p = Player(s, leaver[s]), PostLeave(s)
    PROVE  LeaveIsLast(p)'
<1> DEFINE leave == [kind |-> "leave", who |-> p]
           k == Len(queue) + 1
<1>1. queue' = Append(queue, leave) /\ queue \in Seq(Job) /\ leave \in Job
  BY DEF PostLeave, Post, TypeOK, Job
<1>2. k \in DOMAIN queue' /\ queue'[k] = leave
  BY <1>1
<1>3. DOMAIN queue' = 1..k /\ k \in Nat
  BY <1>1
<1>4. leave # [kind |-> "enter", who |-> p]
  OBVIOUS
<1> HIDE DEF k
<1>5. ASSUME NEW i \in DOMAIN queue', queue'[i] = [kind |-> "enter", who |-> p] PROVE i < k
  BY <1>2, <1>3, <1>4, <1>5
<1> QED
  BY <1>2, <1>5 DEF LeaveIsLast

\* The Room runs the oldest job: the entry, the leaving behind it, or another's.
LEMMA LeaveIsLastRun ==
    ASSUME TypeOK, NEW p \in Players, LeaveIsLast(p), RunJob
    PROVE  LeaveIsLast(p)'
<1> DEFINE enter == [kind |-> "enter", who |-> p]
           leave == [kind |-> "leave", who |-> p]
<1>1. queue # <<>> /\ queue' = Tail(queue) /\ queue \in Seq(Job)
  BY DEF RunJob, RunEnter, RunLeave, RunMove, RunHit, RunKill, RunMiss, RunSpawn, Running, TypeOK
<1>2. /\ Head(queue) \in Job /\ Head(queue) = queue[1]
      /\ \A i \in DOMAIN queue' : i + 1 \in DOMAIN queue /\ queue'[i] = queue[i + 1]
  BY <1>1, Oldest
<1>3. DOMAIN queue = 1..Len(queue) /\ DOMAIN queue' = 1..(Len(queue) - 1) /\ Len(queue) \in Nat
  BY <1>1
<1>4. /\ Head(queue).kind = "enter" => players' \subseteq players \cup {Head(queue).who}
      /\ Head(queue).kind = "leave" => players' \subseteq players \ {Head(queue).who}
      /\ Head(queue).kind \notin {"enter", "leave"} => players' \subseteq players
  BY DEF RunJob, RunEnter, RunLeave, RunMove, RunHit, RunKill, RunMiss, RunSpawn, Running, worldVars
<1>5. Head(queue).kind = "enter" => Head(queue) = [kind |-> "enter", who |-> Head(queue).who]
  BY <1>2 DEF Job
<1>6. leave.kind = "leave" /\ leave.who = p
  OBVIOUS
<1>7. Head(queue).kind = "enter" /\ Head(queue).who = p => queue[1] = enter
  BY <1>2, <1>5
<1> HIDE DEF enter, leave
<1>8. ASSUME NEW k \in DOMAIN queue, queue[k] = leave,
             \A i \in DOMAIN queue : queue[i] = enter => i < k
      PROVE  LeaveIsLast(p)'
  <2>1. CASE k = 1
    <3>1. p \notin players'
      BY <1>2, <1>4, <1>6, <1>8, <2>1
    <3>2. \A i \in DOMAIN queue' : queue'[i] # enter
      BY <1>2, <1>3, <1>8, <2>1
    <3> QED
      BY <3>1, <3>2 DEF LeaveIsLast, Entering, enter
  <2>2. CASE k # 1
    <3>1. k - 1 \in DOMAIN queue' /\ (k - 1) + 1 = k
      BY <1>3, <2>2
    <3>2. queue'[k - 1] = leave
      BY <1>2, <1>8, <3>1
    <3>3. \A i \in DOMAIN queue' : queue'[i] = enter => i < k - 1
      BY <1>2, <1>3, <1>8
    <3> QED
      BY <3>1, <3>2, <3>3 DEF LeaveIsLast, enter, leave
  <2> QED
    BY <2>1, <2>2
<1>9. CASE ~Entering(p)
  <2>1. p \notin players /\ \A i \in DOMAIN queue : queue[i] # enter
    BY <1>9 DEF Entering, enter
  <2>2. 1 \in DOMAIN queue
    BY <1>1, <1>3
  <2>3. p \notin players'
    BY <1>2, <1>4, <1>7, <2>1, <2>2
  <2>4. \A i \in DOMAIN queue' : queue'[i] # enter
    BY <1>2, <2>1
  <2> QED
    BY <2>3, <2>4 DEF LeaveIsLast, Entering, enter
<1> QED
  BY <1>8, <1>9 DEF LeaveIsLast, enter, leave

\* A step that leaves the session's disconnection where it is.
LEMMA DepartingGoesOn ==
    ASSUME NEW s \in Sessions, Departing(s), NEW p \in Players, p = Player(s, made[s]),
           made'[s] = made[s], leaver'[s] = leaver[s],
           handler'[s] \notin {"add", "create"}, held'[s].kind # "enter",
           closing'[s] = closing[s],
           s \in inManager' => s \in inManager,
           s \in inService' => s \in inService,
           LeaveIsLast(p) => LeaveIsLast(p)'
    PROVE  Departing(s)'
<1>1. Settled(s)'
  BY DEF Departing, Settled, Choosing
<1>2. CASE closing[s] = "load"
  BY <1>1, <1>2 DEF Departing
<1>3. CASE leaver[s] = made[s] /\ Departed(s, p)
  <2>1. leaver'[s] = made'[s] /\ Departed(s, p)' /\ p = Player(s, made'[s])
    BY <1>3 DEF Departed
  <2> QED
    BY <1>1, <2>1 DEF Departing, Departed
<1> QED
  BY <1>2, <1>3 DEF Departing

\* What does not touch the Room does not touch the place of the leaving.
LEMMA LeaveIsLastStays ==
    ASSUME NEW p \in Players, LeaveIsLast(p), UNCHANGED <<queue, players>>
    PROVE  LeaveIsLast(p)'
BY DEF LeaveIsLast, Entering

\* Every step keeps an orderly departure, or takes it on its way, but for a class choice.
LEMMA DepartingStep ==
    ASSUME GameInv, [Next]_roomVars, NEW s \in Sessions, Departing(s)
    PROVE  Departing(s)' \/ Chooses(s)
<1>0. /\ TypeOK /\ Handlers /\ Choices
      /\ handler \in [Sessions -> Labels]
      /\ held \in [Sessions -> Job \cup {NoJob}]
      /\ made \in [Sessions -> 0..MaxActions] /\ leaver \in [Sessions -> 0..MaxActions]
      /\ closing \in [Sessions -> {"no", "load", "leave", "remove", "release", "done"}]
  BY DEF GameInv, TypeOK
<1>1. /\ made[s] # 0 /\ handler[s] \notin {"new", "add", "create"}
      /\ held[s].kind # "enter" /\ ~connected[s] /\ closing[s] # "no"
  BY DEF Departing, Departed, Settled, Choosing, GameInv, Registered, Newcomers
<1> PICK p \in Players : p = Player(s, made[s])
  BY <1>0, <1>1, PlayerFacts, CountAssumption
<1>2. ASSUME NEW t \in Sessions, NEW j \in Job, Holds(t, j)
      PROVE  Departing(s)'
  <2>1. /\ UNCHANGED <<queue, players, made, inManager, inService, closing, leaver>>
        /\ handler' = [handler EXCEPT ![t] = "post"] /\ held' = [held EXCEPT ![t] = j]
        /\ j.kind # "enter"
    BY <1>2 DEF Holds, Receive, At, closingVars, worldVars
  <2> QED
    BY <1>0, <1>1, <2>1, DepartingGoesOn, LeaveIsLastStays
<1>3. ASSUME NEW t \in Sessions, UnknownPacket(t) \/ Drops(t)
      PROVE  Departing(s)'
  <2>1. UNCHANGED <<queue, players, made, inManager, inService, closing, leaver, held>>
    BY <1>3 DEF UnknownPacket, Drops, Receive, closingVars, worldVars
  <2>2. handler'[s] \in {handler[s], "register", "unhandled"}
    BY <1>0, <1>3 DEF UnknownPacket, Drops, Receive, At
  <2> QED
    BY <1>1, <2>1, <2>2, DepartingGoesOn, LeaveIsLastStays
<1>4. ASSUME NEW t \in Sessions,
             ClassChoice(t) \/ ProcessConnect(t) \/ AddToManager(t) \/ CreatePlayer(t)
      PROVE  Departing(s)' \/ Chooses(s)
  <2>1. CASE t = s
    <3>1. ClassChoice(s)
      BY <1>1, <1>4, <2>1 DEF ProcessConnect, AddToManager, CreatePlayer
    <3> QED
      BY <1>0, <3>1 DEF ClassChoice, Receive, At, Chooses
  <2>2. CASE t # s
    <3>1. UNCHANGED <<queue, players, closing, leaver>>
      BY <1>4 DEF ClassChoice, Receive, ProcessConnect, AddToManager, CreatePlayer,
                  closingVars, worldVars
    <3>2. handler'[s] = handler[s] /\ held'[s] = held[s] /\ made'[s] = made[s]
      BY <1>0, <1>4, <2>2 DEF ClassChoice, Receive, ProcessConnect, AddToManager, CreatePlayer, At
    <3>3. (s \in inManager' => s \in inManager) /\ (s \in inService' => s \in inService)
      BY <1>4, <2>2 DEF ClassChoice, Receive, ProcessConnect, AddToManager, CreatePlayer
    <3> QED
      BY <1>1, <3>1, <3>2, <3>3, DepartingGoesOn, LeaveIsLastStays
  <2> QED
    BY <2>1, <2>2
<1>5. ASSUME NEW t \in Sessions,
             RegisterRecv(t) \/ Disconnect(t) \/ Recv0(t) \/ ProcessDisconnect(t)
      PROVE  Departing(s)'
  <2>1. UNCHANGED <<queue, players, made, inManager, inService, held, leaver>>
    BY <1>5 DEF RegisterRecv, Disconnect, Recv0, ProcessDisconnect, handlerVars, closingVars, worldVars
  <2>2. handler'[s] \in {handler[s], "idle"}
    BY <1>0, <1>5 DEF RegisterRecv, Disconnect, Recv0, ProcessDisconnect, handlerVars, At
  <2>3. closing'[s] = closing[s]
    BY <1>0, <1>1, <1>5 DEF RegisterRecv, Disconnect, Recv0, ProcessDisconnect, closingVars
  <2> QED
    BY <1>1, <2>1, <2>2, <2>3, DepartingGoesOn, LeaveIsLastStays
<1>6. ASSUME NEW t \in Sessions, PostHeld(t)
      PROVE  Departing(s)'
  <2>1. /\ handler[t] = "post" /\ held[t] \in Job /\ Post(held[t])
        /\ held' = [held EXCEPT ![t] = NoJob]
        /\ handler' = [handler EXCEPT ![t] = "register"]
        /\ UNCHANGED <<closing, leaver, players, made, inManager, inService>>
    BY <1>0, <1>6 DEF PostHeld, At, Handlers, sessionVars, closingVars, worldVars
  <2>2. held[t] # [kind |-> "enter", who |-> p]
    <3> SUFFICES ASSUME held[t] = [kind |-> "enter", who |-> p] PROVE FALSE
      OBVIOUS
    <3>1. held[t].kind = "enter" /\ held[t].who = p
      OBVIOUS
    <3>2. p = Player(t, made[t])
      BY <1>0, <3>1 DEF Handlers
    <3>3. t = s
      <4>1. Owner(Player(t, made[t])) = t /\ Owner(Player(s, made[s])) = s
        BY PlayerFacts
      <4> QED
        BY <3>2, <4>1
    <3> QED
      BY <1>1, <3>1, <3>3
  <2>3. LeaveIsLast(p) => LeaveIsLast(p)'
    BY <1>0, <2>1, <2>2, LeaveIsLastPosted
  <2>4. handler'[s] \notin {"add", "create"} /\ held'[s].kind # "enter"
    BY <1>0, <1>1, <2>1 DEF NoJob
  <2> QED
    BY <1>1, <2>1, <2>3, <2>4, DepartingGoesOn
<1>7. ASSUME NEW t \in Sessions, ClosingStep(t), t # s
      PROVE  Departing(s)'
  <2>1. /\ UNCHANGED <<players, made, handler, held>>
        /\ closing'[s] = closing[s] /\ leaver'[s] = leaver[s]
    BY <1>0, <1>7 DEF ClosingStep, LoadPlayer, PostLeave, RemoveFromManager, ReleaseSession,
                      sessionVars, handlerVars, worldVars
  <2>2. (s \in inManager' => s \in inManager) /\ (s \in inService' => s \in inService)
    BY <1>7 DEF ClosingStep, LoadPlayer, PostLeave, RemoveFromManager, ReleaseSession, sessionVars
  <2>3. LeaveIsLast(p) => LeaveIsLast(p)'
    <3>1. CASE PostLeave(t)
      <4> DEFINE j == [kind |-> "leave", who |-> Player(t, leaver[t])]
      <4>1. leaver[t] \in 1..MaxActions
        BY <1>0, <3>1, CountAssumption DEF PostLeave, Choices
      <4>2. Post(j) /\ j \in Job /\ j # [kind |-> "enter", who |-> p]
        BY <3>1, <4>1, PlayerFacts DEF PostLeave, Job
      <4> HIDE DEF j
      <4> QED
        BY <1>0, <2>1, <4>2, LeaveIsLastPosted
    <3>2. CASE LoadPlayer(t) \/ RemoveFromManager(t) \/ ReleaseSession(t)
      <4>1. UNCHANGED queue
        BY <3>2 DEF LoadPlayer, RemoveFromManager, ReleaseSession
      <4> QED
        BY <2>1, <4>1, LeaveIsLastStays
    <3> QED
      BY <1>7, <3>1, <3>2 DEF ClosingStep
  <2> QED
    BY <1>1, <2>1, <2>2, <2>3, DepartingGoesOn
<1>8. CASE ClosingStep(s)
  <2>1. UNCHANGED <<players, made, handler, held>>
    BY <1>8 DEF ClosingStep, LoadPlayer, PostLeave, RemoveFromManager, ReleaseSession,
                sessionVars, handlerVars, worldVars
  <2>2. Settled(s)' /\ p = Player(s, made'[s])
    BY <1>1, <2>1 DEF Settled, Choosing, Departing
  <2>3. CASE LoadPlayer(s)
    <3>1. closing'[s] = "leave" /\ leaver'[s] = made'[s]
      BY <1>0, <1>1, <2>1, <2>3 DEF LoadPlayer
    <3> QED
      BY <2>2, <3>1 DEF Departing, Departed
  <2>4. closing[s] # "load" => leaver[s] = made[s] /\ Departed(s, p)
    BY DEF Departing
  <2>5. ASSUME ~LoadPlayer(s), Departed(s, p)'
        PROVE  Departing(s)'
    <3>1. closing[s] # "load" /\ UNCHANGED leaver
      BY <1>8, <2>5 DEF ClosingStep, LoadPlayer, PostLeave, RemoveFromManager,
                        ReleaseSession, closingVars
    <3>2. leaver'[s] = made'[s]
      BY <2>1, <2>4, <3>1
    <3>3. Departed(s, Player(s, made[s]))'
      BY <2>2, <2>5 DEF Departed
    <3> QED
      BY <2>2, <3>2, <3>3 DEF Departing
  <2>6. CASE PostLeave(s)
    <3>1. closing[s] = "leave" /\ closing'[s] = "remove"
      BY <1>0, <2>6 DEF PostLeave
    <3>2. LeaveIsLast(p)'
      BY <1>0, <2>4, <2>6, <3>1, LeaveIsLastMade
    <3> QED
      BY <2>5, <3>1, <3>2 DEF Departed, LoadPlayer
  <2>7. CASE RemoveFromManager(s)
    <3>1. /\ closing[s] = "remove" /\ closing'[s] = "release"
          /\ s \notin inManager' /\ UNCHANGED queue
      BY <1>0, <2>7 DEF RemoveFromManager
    <3>2. LeaveIsLast(p)'
      BY <2>1, <2>4, <3>1, LeaveIsLastStays DEF Departed
    <3> QED
      BY <2>5, <3>1, <3>2 DEF Departed, LoadPlayer
  <2>8. CASE ReleaseSession(s)
    <3>1. /\ closing[s] = "release" /\ closing'[s] = "done"
          /\ inManager' = inManager /\ s \notin inService' /\ UNCHANGED queue
      BY <1>0, <2>8 DEF ReleaseSession
    <3>2. LeaveIsLast(p)' /\ s \notin inManager
      BY <2>1, <2>4, <3>1, LeaveIsLastStays DEF Departed
    <3> QED
      BY <2>5, <3>1, <3>2 DEF Departed, LoadPlayer
  <2> QED
    BY <1>8, <2>3, <2>6, <2>7, <2>8 DEF ClosingStep
<1>9. CASE RunJob \/ SpawnDue
  <2>1. UNCHANGED <<made, inManager, inService, handler, held, closing, leaver>>
    BY <1>9, RoomSteps DEF sessionVars, handlerVars, closingVars
  <2>2. LeaveIsLast(p) => LeaveIsLast(p)'
    <3>1. CASE RunJob
      BY <1>0, <3>1, LeaveIsLastRun
    <3>2. CASE SpawnDue
      <4>1. Post([kind |-> "spawn"]) /\ [kind |-> "spawn"] \in Job /\ UNCHANGED players
        BY <3>2 DEF SpawnDue, Job, worldVars
      <4>2. [kind |-> "spawn"] # [kind |-> "enter", who |-> p]
        <5>1. [kind |-> "spawn"].kind # [kind |-> "enter", who |-> p].kind
          OBVIOUS
        <5> QED
          BY <5>1
      <4> QED
        BY <1>0, <4>1, <4>2, LeaveIsLastPosted
    <3> QED
      BY <1>9, <3>1, <3>2
  <2> QED
    BY <1>1, <2>1, <2>2, DepartingGoesOn
<1>10. CASE UNCHANGED roomVars
  BY <1>1, <1>10, DepartingGoesOn, LeaveIsLastStays DEF roomVars
<1>11. ASSUME NEW t \in Sessions, Packet(t)
      PROVE  Departing(s)' \/ Chooses(s)
  BY <1>0, <1>2, <1>3, <1>4, <1>11, PacketCases
<1> QED
  BY <1>4, <1>5, <1>6, <1>7, <1>8, <1>9, <1>10, <1>11, NextCases DEF HandlerStep

\* A disconnection of a session whose class choice is behind it takes its player out of the
\* Room and the session out of both registries unless a class choice comes after it
\* (OrderlyDeparture), for any number of clients, of class choices and whatever they do.
THEOREM DeparturesAreOrderly == Spec => OrderlyDeparture
<1>1. GameInv /\ [Next]_roomVars =>
        [\A s \in Sessions : Departing(s) => Departing(s)' \/ Chooses(s)]_roomVars
  BY DepartingStep
<1> QED
  BY <1>1, GameInvariance, PTL DEF Spec, OrderlyDeparture

\* So whoever disconnects a session after its class choices, when nothing uses the session
\* any more it is in no registry, and when the Room has done its jobs, only players that a
\* later class choice had replaced are left in the room; none if the client chose once.
\* Ghosts have no other source than a class choice that overtakes the disconnection (the
\* run GhostSession) and one that replaces a player.
THEOREM NoOtherGhosts ==
    ASSUME NEW s \in Sessions
    PROVE  Spec => [](closing[s] = "load" /\ Settled(s) /\ [][~Chooses(s)]_roomVars =>
                        [](/\ Gone(s) => ~Alive(s)
                           /\ closing[s] = "done" /\ queue = <<>> =>
                                \A p \in players : Owner(p) = s => p[2] < made[s]))
<1>1. closing[s] = "load" /\ Settled(s) => Departing(s)
  BY DEF Departing
<1>2. GameInv /\ [Next]_roomVars /\ Departing(s) /\ [~Chooses(s)]_roomVars => Departing(s)'
  <2>1. UNCHANGED roomVars => ~Chooses(s)
    BY DEF roomVars, Chooses
  <2> QED
    BY <2>1, DepartingStep
<1>3. ASSUME GameInv, Departing(s)
      PROVE  /\ Gone(s) => ~Alive(s)
             /\ closing[s] = "done" /\ queue = <<>> =>
                    \A p \in players : Owner(p) = s => p[2] < made[s]
  <2>1. Gone(s) => ~Alive(s)
    BY <1>3 DEF Departing, Departed, Gone, Alive
  <2>2. ASSUME closing[s] = "done", queue = <<>>, NEW p \in players, Owner(p) = s
        PROVE  p[2] < made[s]
    <3>1. Player(s, made[s]) \notin players
      BY <1>3, <2>2 DEF Departing, Departed, LeaveIsLast, Entering
    <3>2. /\ p \in Players /\ p[2] <= made[s] /\ p = Player(s, p[2])
          /\ p[2] \in Nat /\ made[s] \in Nat
      BY <1>3, <2>2, PlayerFacts, CountAssumption DEF GameInv, Newcomers, Made, TypeOK
    <3> QED
      BY <3>1, <3>2
  <2> QED
    BY <2>1, <2>2
<1> QED
  BY <1>1, <1>2, <1>3, GameInvariance, PTL DEF Spec
=============================================================================
