------------------------------ MODULE Monster ------------------------------
(***************************************************************************)
(* What a monster does over time: the Room's UpdateTick calls Update on    *)
(* every monster ten times a second, and each decides from its clocks, its *)
(* state and its target whether it idles, moves or is stunned, while other *)
(* jobs of the Room hit it and let players enter, move and leave.  The     *)
(* jobs run one after another (JobQueue), each is one step.                *)
(*                                                                         *)
(* Time passes in units, the clocks of a monster count the units since     *)
(* they were set and stop where no test tells them apart any more.  The    *)
(* name of a dead monster is that of its successor (MonsterSpawn).         *)
(* MonsterState::Skill is not here: nothing sets it (Monster.cpp:162).     *)
(***************************************************************************)
EXTENDS Integers

CONSTANTS
    Players,        \* the Player objects
    Monsters,       \* the names of the monsters that are kept
    NoPlayer,       \* a weak_ptr that is empty or expired
    Positions,      \* where players may be, on the x axis
    Start,          \* where a new player is
    Home,           \* where a new monster is
    MinX, MaxX,     \* _minX and _maxX, where monsters may be
    Speed,          \* how far a monster moves in one Update
    Near,           \* 1.0f in UpdateMove: the distance at which it turns
    MaxHp,          \* the hp of a new monster
    Damages,        \* the damage of one C_HitMonster
    Second          \* how many units of time are a second

ASSUME SpaceAssumption ==
    /\ Positions \subseteq Int /\ Start \in Positions
    /\ MinX \in Int /\ MaxX \in Int /\ Home \in MinX..MaxX
    /\ Near \in Nat /\ Speed \in 1..Near
ASSUME LifeAssumption == MaxHp \in Nat \ {0} /\ Damages \subseteq Nat \ {0}
ASSUME TimeAssumption == Second \in Nat \ {0} /\ NoPlayer \notin Players

VARIABLES
    players,    \* Room::_players
    existing,   \* the Player objects that exist
    position,   \* playerInfo->positionx
    present,    \* Room::_monsters
    monster,    \* per monster: its fields
    view,       \* per player: what it was told of each monster in the room
    due,        \* the UpdateTick that DoTimer(100) reserved may run
    crashed     \* a null pointer was dereferenced

monsterVars == <<players, existing, position, present, monster, view, due, crashed>>

StunDuration == 2                           \* _stunDuration
ThinkIntervals == {3 * Second, 5 * Second}  \* uniform_real_distribution{3.0f, 5.0f}
Longest == 5 * Second                       \* where the clock of Think stops
Stunned == StunDuration * Second            \* where the clock of a stun stops
Never == Longest + 1

\* _thinkInterval is not initialised: what it holds is reached already, since
\* _lastThinkTime is the epoch of the clock, or (a large number, a NaN) is never reached.
FirstIntervals == {0, Never}

\* The time since a clock was set, in the unit of steady_clock, whose reading differs
\* (by 100 ns at least) from one job to the next.
Nanoseconds(age) == age * (1000000000 \div Second) + 100

Info(b) == [x |-> b.x, state |-> b.state]
Unseen == [x |-> Home, state |-> "none"]

\* A monster as CreateMonster and MonsterSpawn make it; a packet without
\* creaturestate says Idle.
NewMonster(interval) ==
    [state |-> "Idle", hp |-> MaxHp, x |-> Home, right |-> FALSE, target |-> NoPlayer,
     think |-> Longest, interval |-> interval, stun |-> Stunned,
     info |-> [x |-> Home, state |-> "Idle"]]

MonsterInit ==
    /\ players = {}
    /\ existing = {}
    /\ position = [p \in Players |-> Start]
    /\ present = Monsters
    /\ monster \in [Monsters -> {NewMonster(i) : i \in FirstIntervals}]
    /\ view = [p \in Players |-> [m \in Monsters |-> Unseen]]
    /\ due = TRUE
    /\ crashed = FALSE

-----------------------------------------------------------------------------
(* Monster::Update *)

\* Mutant: expired() is tested the other way round.
Choices_Expired(b) ==
    IF b.target # NoPlayer THEN {"Idle", "Move"} \X BOOLEAN ELSE {<<"Move", b.right>>}

\* What Think may choose: state and direction.
Choices(b) ==
    IF b.target = NoPlayer THEN {"Idle", "Move"} \X BOOLEAN ELSE {<<"Move", b.right>>}

\* A choice, and the new interval that follows every call of Think.  The clock of a stun
\* means nothing once it is over.
Thought(b, choice, interval) ==
    [b EXCEPT !.state = choice[1], !.right = choice[2], !.think = 0, !.interval = interval,
              !.stun = Stunned]

Think(b) == {Thought(b, c, i) : c \in Choices(b), i \in ThinkIntervals}

\* A stunned monster thinks when _stunDuration is over, counted in nanoseconds.
UpdateThink(b) ==
    IF \/ b.state = "Stun" /\ Nanoseconds(b.stun) >= StunDuration
       \/ b.state # "Stun" /\ b.think >= b.interval
    THEN Think(b) ELSE {b}

Distance(x, y) == IF x < y THEN y - x ELSE x - y
Clamp(x) == IF x < MinX THEN MinX ELSE IF x > MaxX THEN MaxX ELSE x

\* Mutant: the final clamp is missing.
UpdateMove_Free(b) ==
    LET x == IF b.right THEN b.x + Speed ELSE b.x - Speed
        turns == b.target # NoPlayer /\ Distance(x, position[b.target]) >= Near
    IN  [b EXCEPT !.x = x, !.right = IF turns THEN position[b.target] > x ELSE @]

\* Mutant: the distance is taken without abs.
UpdateMove_Signed(b) ==
    LET x == IF b.right THEN b.x + Speed ELSE b.x - Speed
        turns == b.target # NoPlayer /\ position[b.target] - x >= Near
    IN  [b EXCEPT !.x = Clamp(x), !.right = IF turns THEN position[b.target] > x ELSE @]

\* It moves the way it faces and turns to a target that is not near, before it is clamped.
UpdateMove(b) ==
    LET x == IF b.right THEN b.x + Speed ELSE b.x - Speed
        turns == b.target # NoPlayer /\ Distance(x, position[b.target]) >= Near
    IN  [b EXCEPT !.x = Clamp(x), !.right = IF turns THEN position[b.target] > x ELSE @]

\* Mutant: UpdateInfo is missing.
Update_Uninformed(b) == {IF a.state = "Move" THEN UpdateMove(a) ELSE a : a \in UpdateThink(b)}

\* UpdateThink, the state's own update, UpdateInfo.
Update(b) ==
    {[a EXCEPT !.info = Info(a)] :
        a \in {IF a.state = "Move" THEN UpdateMove(a) ELSE a : a \in UpdateThink(b)}}

Updated(m) == IF m \in present THEN Update(monster[m]) ELSE {monster[m]}

\* UpdateTick: it reserves the next one 100 ms from now, then MonsterUpdate, which ends
\* with each monster's BroadcastMove to the players in the room.
UpdateTick ==
    /\ due
    /\ due' = FALSE
    /\ \E f \in [Monsters -> UNION {Updated(m) : m \in Monsters}] :
            (\A m \in Monsters : f[m] \in Updated(m)) /\ monster' = f
    /\ view' = [p \in Players |-> [m \in Monsters |->
                    IF p \in players /\ m \in present THEN Info(monster'[m]) ELSE view[p][m]]]
    /\ UNCHANGED <<players, existing, position, present, crashed>>

-----------------------------------------------------------------------------
(* The other jobs of the Room *)

\* EnterRoom of a new player: it is told of all monsters.
EnterRoom(p) ==
    /\ p \notin existing
    /\ players' = players \cup {p}
    /\ existing' = existing \cup {p}
    /\ position' = [position EXCEPT ![p] = Start]
    /\ view' = [view EXCEPT ![p] = [m \in Monsters |->
                    IF m \in present THEN monster[m].info ELSE Unseen]]
    /\ UNCHANGED <<present, monster, due, crashed>>

\* LeaveRoom: monsters keep their target.
LeaveRoom(p) ==
    /\ p \in players
    /\ players' = players \ {p}
    /\ view' = [view EXCEPT ![p] = [m \in Monsters |-> Unseen]]
    /\ UNCHANGED <<existing, position, present, monster, due, crashed>>

\* The session of a player that left is destroyed, and the Player with it: _target expires.
DestroyPlayer(p) ==
    /\ p \in existing \ players
    /\ existing' = existing \ {p}
    /\ monster' = [m \in Monsters |->
            [monster[m] EXCEPT !.target = IF @ = p THEN NoPlayer ELSE @]]
    /\ UNCHANGED <<players, position, present, view, due, crashed>>

HandleMove(p, x) ==
    /\ p \in players
    /\ position' = [position EXCEPT ![p] = x]
    /\ UNCHANGED <<players, existing, present, monster, view, due, crashed>>

\* SetTarget, the damage, and UpdateStun, which starts the clock of a monster that is not
\* stunned yet.
Hit(b, p, d) ==
    [b EXCEPT !.hp = @ - d, !.target = p, !.state = "Stun",
              !.stun = IF b.state = "Stun" THEN @ ELSE 0]

\* MonsterHitAndSetTarget of a monster that survives.  The player may have left.
TakeDamage(p, m, d) ==
    /\ p \in existing
    /\ m \in present
    /\ monster[m].hp > d
    /\ monster' = [monster EXCEPT ![m] = Hit(monster[m], p, d)]
    /\ UNCHANGED <<players, existing, position, present, view, due, crashed>>

\* MonsterHitAndSetTarget of one that dies: S_GetExp to the killer, which must be in the
\* room, S_MonsterDespawn to everybody, RemoveMonster.
Die(p, m, d) ==
    /\ p \in existing
    /\ m \in present
    /\ monster[m].hp <= d
    /\ IF p \in players
       THEN /\ present' = present \ {m}
            /\ monster' = [monster EXCEPT ![m] = NewMonster(Never)]
            /\ view' = [q \in Players |-> [view[q] EXCEPT ![m] = Unseen]]
            /\ UNCHANGED crashed
       ELSE crashed' = TRUE /\ UNCHANGED <<present, monster, view>>
    /\ UNCHANGED <<players, existing, position, due>>

\* MonsterSpawn, reserved by the death of another.
MonsterSpawn(m) ==
    /\ m \notin present
    /\ present' = present \cup {m}
    /\ \E i \in FirstIntervals : monster' = [monster EXCEPT ![m] = NewMonster(i)]
    /\ view' = [p \in Players |->
            [view[p] EXCEPT ![m] = IF p \in players THEN monster'[m].info ELSE @]]
    /\ UNCHANGED <<players, existing, position, due, crashed>>

\* A unit of time passes, after which the next UpdateTick may run.
Older(age, stop) == IF age < stop THEN age + 1 ELSE age

Pass ==
    /\ due' = TRUE
    /\ monster' = [m \in Monsters |->
            [monster[m] EXCEPT !.think = Older(@, Longest), !.stun = Older(@, Stunned)]]
    /\ UNCHANGED <<players, existing, position, present, view, crashed>>

PlayerJob(p) ==
    \/ EnterRoom(p)
    \/ LeaveRoom(p)
    \/ DestroyPlayer(p)
    \/ \E x \in Positions : HandleMove(p, x)
    \/ \E m \in Monsters, d \in Damages : TakeDamage(p, m, d) \/ Die(p, m, d)

MonsterNext ==
    /\ ~crashed
    /\ \/ UpdateTick
       \/ Pass
       \/ \E p \in Players : PlayerJob(p)
       \/ \E m \in Monsters : MonsterSpawn(m)

\* Time passes, and the timer and the Room's queue run what is due.
MonsterSpec ==
    /\ MonsterInit
    /\ [][MonsterNext]_monsterVars
    /\ WF_monsterVars(~crashed /\ UpdateTick)
    /\ WF_monsterVars(~crashed /\ Pass)

-----------------------------------------------------------------------------
Moods == {"Idle", "Move", "Stun"}

Beasts ==
    [state : Moods, hp : 1..MaxHp, x : MinX..MaxX, right : BOOLEAN,
     target : Players \cup {NoPlayer}, think : 0..Longest,
     interval : ThinkIntervals \cup FirstIntervals, stun : 0..Stunned,
     info : [x : MinX..MaxX, state : Moods]]

Sights == [x : MinX..MaxX, state : Moods \cup {"none"}]

MonsterTypeOK ==
    /\ players \subseteq existing /\ existing \subseteq Players
    /\ position \in [Players -> Positions]
    /\ present \subseteq Monsters
    /\ monster \in [Monsters -> Beasts]
    /\ \A m \in Monsters : monster[m].target \in existing \cup {NoPlayer}
    /\ view \in [Players -> [Monsters -> Sights]]
    /\ due \in BOOLEAN /\ crashed \in BOOLEAN

\* All players in the room were told the same of every monster, whenever they entered:
\* the place where it is and the state of its last Update.  EnterRoom tells it from
\* monsterInfo, BroadcastMove from the monster's own fields.
SameWorld ==
    \A p \in players, m \in Monsters :
        IF m \in present
        THEN view[p][m] = monster[m].info /\ view[p][m].x = monster[m].x
        ELSE view[p][m] = Unseen

Faces(b) == b.right <=> position[b.target] > b.x

\* A monster at the heels of its target: near, or one step away and turned to it.
AtHeel(b) ==
    LET d == Distance(b.x, position[b.target])
    IN  /\ b.target # NoPlayer
        /\ d < Near \/ (d < Near + Speed /\ Faces(b))

\* It has got as far as the map allows.
Arrived(b) ==
    \/ AtHeel(b)
    \/ b.target # NoPlayer /\ b.x = Clamp(position[b.target]) /\ Faces(b)

\* How far it has to go; turning round costs the step that leads away.
Lead(b) == Distance(b.x, position[b.target]) + IF Faces(b) THEN 0 ELSE Speed + 1

\* While a target stays in its place, every Update of its hunter that is not stunned, and
\* has not got there, brings it closer or turns it round, and no hit, thought or other job
\* sets it back; when it has caught up it stays at its heels, or at the border before it.
\* UpdateMove turns only after a step that led too far away, and is clamped after that.
ClosesIn ==
    [][\A m \in present \cap present' :
        monster[m].target # NoPlayer /\ UNCHANGED <<position, monster[m].target>> =>
            /\ AtHeel(monster[m]) => AtHeel(monster'[m])
            /\ Arrived(monster[m]) => Arrived(monster'[m])
            /\ Arrived(monster'[m]) \/ Lead(monster'[m]) <= Lead(monster[m])
            /\ due /\ ~due' /\ monster[m].state # "Stun" =>
                    Arrived(monster'[m]) \/ Lead(monster'[m]) < Lead(monster[m])]_monsterVars

\* A monster whose target stays where it is, and which is hit no more, gets there in the
\* end, or to its border: it thinks at last, though _thinkInterval starts as garbage
\* (the hit stuns it, and the end of a stun sets the interval).
Hunts ==
    \A m \in Monsters, p \in Players, x \in Positions :
        <>[](/\ m \in present
             /\ monster[m].target = p
             /\ monster[m].state # "Stun"
             /\ position[p] = x
             /\ ~crashed)
            => <>[](AtHeel(monster[m]) \/ monster[m].x = Clamp(x))

\* "Check whether the duration of the stun has passed" (Monster.cpp:61), _stunDuration being
\* 2.0f: a stun ends two seconds after it began, or with the monster.
StunLasts ==
    [][\A m \in present \cap present' :
        monster[m].state = "Stun" /\ monster'[m].state # "Stun"
            => monster[m].stun = Stunned]_monsterVars
=============================================================================
