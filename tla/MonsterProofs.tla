--------------------------- MODULE MonsterProofs ---------------------------
(***************************************************************************)
(* Proofs about Monster for any number of players and monsters, any extent *)
(* of the map and any speed: types, that all players are told the same,    *)
(* and that a monster comes closer to its target with every update until   *)
(* it has caught up with it.                                               *)
(***************************************************************************)
EXTENDS Monster, TLAPS

\* Where a player is is a number.
LEMMA PlacesAreNumbers ==
    ASSUME MonsterTypeOK, NEW p \in Players
    PROVE  position[p] \in Int
BY SpaceAssumption DEF MonsterTypeOK

\* A new monster is well typed, and its monsterInfo tells where and how it is.
LEMMA NewMonsterType ==
    ASSUME NEW i \in FirstIntervals
    PROVE  NewMonster(i) \in Beasts /\ NewMonster(i).info = Info(NewMonster(i))
<1>1. Longest \in 0..Longest /\ Stunned \in 0..Stunned /\ 1 \in 1..MaxHp /\ MaxHp \in 1..MaxHp
  BY TimeAssumption, LifeAssumption DEF Longest, Stunned, StunDuration
<1> QED
  BY <1>1, SpaceAssumption DEF NewMonster, Beasts, Moods, Info

\* Thinking changes neither where a monster is nor whom it hunts, and a hunter keeps
\* its direction.
LEMMA ThinkResult ==
    ASSUME NEW b \in Beasts, NEW a \in UpdateThink(b)
    PROVE  /\ a \in Beasts
           /\ a.x = b.x /\ a.target = b.target
           /\ b.target # NoPlayer => a.right = b.right
<1>1. CASE a = b
  BY <1>1
<1>2. CASE a \in Think(b)
  <2>1. 0 \in 0..Longest /\ Stunned \in 0..Stunned
    BY TimeAssumption DEF Longest, Stunned, StunDuration
  <2>2. PICK c \in Choices(b), i \in ThinkIntervals : a = Thought(b, c, i)
    BY <1>2 DEF Think
  <2>3. c[1] \in Moods /\ c[2] \in BOOLEAN /\ (b.target # NoPlayer => c[2] = b.right)
    BY <2>2 DEF Choices, Beasts, Moods
  <2>4. PICK q \in Moods, r \in BOOLEAN : q = c[1] /\ r = c[2]
    BY <2>3
  <2> QED
    BY <2>1, <2>2, <2>3, <2>4 DEF Thought, Beasts
<1> QED
  BY <1>1, <1>2 DEF UpdateThink

\* A step of UpdateMove stays on the map.
LEMMA MoveResult ==
    ASSUME MonsterTypeOK, NEW b \in Beasts
    PROVE  /\ UpdateMove(b) \in Beasts
           /\ UpdateMove(b).target = b.target
<1> DEFINE x == IF b.right THEN b.x + Speed ELSE b.x - Speed
<1>1. x \in Int
  BY SpaceAssumption DEF Beasts
<1>2. Clamp(x) \in MinX..MaxX
  BY <1>1, SpaceAssumption DEF Clamp
<1>3. b.target # NoPlayer => position[b.target] \in Int
  BY PlacesAreNumbers DEF Beasts
<1> DEFINE turns == b.target # NoPlayer /\ Distance(x, position[b.target]) >= Near
           r == IF turns THEN position[b.target] > x ELSE b.right
<1>4. r \in BOOLEAN
  <2>1. CASE turns
    BY <2>1, <1>1, <1>3
  <2>2. CASE ~turns
    BY <2>2 DEF Beasts
  <2> QED
    BY <2>1, <2>2
<1>5. UpdateMove(b) = [b EXCEPT !.x = Clamp(x), !.right = r]
  BY DEF UpdateMove
<1>6. \E q \in BOOLEAN : UpdateMove(b) = [b EXCEPT !.x = Clamp(x), !.right = q]
  BY <1>4, <1>5
<1> HIDE DEF x
<1> QED
  BY <1>2, <1>6 DEF Beasts

\* What Update leaves behind: monsterInfo is what BroadcastMove tells.
LEMMA UpdateResult ==
    ASSUME MonsterTypeOK, NEW b \in Beasts, NEW a \in Update(b)
    PROVE  /\ a \in Beasts
           /\ a.info = Info(a)
           /\ a.target = b.target
<1>1. PICK t \in UpdateThink(b) :
        a = LET u == IF t.state = "Move" THEN UpdateMove(t) ELSE t
            IN  [u EXCEPT !.info = Info(u)]
  BY DEF Update
<1> DEFINE u == IF t.state = "Move" THEN UpdateMove(t) ELSE t
<1>2. u \in Beasts /\ u.target = b.target
  BY ThinkResult, MoveResult
<1>3. a = [u EXCEPT !.info = Info(u)]
  BY <1>1
<1> HIDE DEF u
<1>4. Info(u) \in [x : MinX..MaxX, state : Moods]
  BY <1>2 DEF Info, Beasts
<1> QED
  BY <1>2, <1>3, <1>4 DEF Beasts, Info

-----------------------------------------------------------------------------
(* Types and SameWorld *)

\* monsterInfo says where the monster is, whether or not somebody is there to see it.
Informed == \A m \in present : monster[m].info.x = monster[m].x

MInv == MonsterTypeOK /\ Informed /\ SameWorld

\* Where the clocks stop.
LEMMA ClockRanges == Longest \in Nat /\ Stunned \in Nat
BY TimeAssumption DEF Longest, Stunned, StunDuration

\* The stopped clocks stay in their ranges.
LEMMA OlderType ==
    ASSUME NEW n \in Nat, NEW age \in 0..n
    PROVE  Older(age, n) \in 0..n
BY DEF Older

\* A sight of a monster, or of none.
LEMMA SightTypes ==
    ASSUME NEW b \in Beasts
    PROVE  /\ Info(b) \in Sights
           /\ b.info \in Sights
           /\ Unseen \in Sights
BY SpaceAssumption DEF Info, Beasts, Sights, Unseen

\* The invariant holds when the game starts.
LEMMA InitMInv == MonsterInit => MInv
<1> SUFFICES ASSUME MonsterInit PROVE MInv
  OBVIOUS
<1>1. monster \in [Monsters -> Beasts]
  BY NewMonsterType DEF MonsterInit
<1>2. \A m \in Monsters : monster[m].target = NoPlayer
  BY DEF MonsterInit, NewMonster
<1>3. Unseen \in Sights
  BY SpaceAssumption DEF Sights, Unseen
<1>4. MonsterTypeOK
  BY <1>1, <1>2, <1>3, SpaceAssumption DEF MonsterInit, MonsterTypeOK
<1>5. Informed
  BY DEF MonsterInit, Informed, NewMonster
<1>6. SameWorld
  BY DEF MonsterInit, SameWorld
<1> QED
  BY <1>4, <1>5, <1>6 DEF MInv

\* UpdateTick keeps it: each monster that is present is updated and its new info is told to all.
LEMMA TickStep ==
    ASSUME MInv, UpdateTick
    PROVE  MInv'
<1> USE DEF MInv
<1>1. \A m \in Monsters : monster'[m] \in Updated(m)
  BY DEF UpdateTick
<1>2. ASSUME NEW m \in Monsters
      PROVE  /\ monster'[m] \in Beasts
             /\ monster'[m].target = monster[m].target
             /\ m \in present => monster'[m].info = Info(monster'[m])
  <2>1. monster[m] \in Beasts
    BY DEF MonsterTypeOK
  <2> QED
    BY <1>1, <2>1, UpdateResult DEF Updated
<1>3. monster' \in [Monsters -> Beasts]
  <2>1. monster' = [m \in Monsters |-> monster'[m]]
    BY DEF UpdateTick
  <2> QED
    BY <1>2, <2>1
<1>4. view' \in [Players -> [Monsters -> Sights]]
  BY <1>2, SightTypes DEF UpdateTick, MonsterTypeOK
<1>5. MonsterTypeOK'
  BY <1>2, <1>3, <1>4 DEF UpdateTick, MonsterTypeOK
<1>6. Informed'
  <2> SUFFICES ASSUME NEW m \in present'
               PROVE  monster'[m].info.x = monster'[m].x
    BY DEF Informed
  <2>1. m \in present /\ m \in Monsters
    BY DEF UpdateTick, MonsterTypeOK
  <2>2. monster'[m].info = Info(monster'[m])
    BY <1>2, <2>1
  <2> QED
    BY <2>2 DEF Info
<1>7. SameWorld'
  <2> SUFFICES ASSUME NEW p \in players', NEW m \in Monsters
               PROVE  IF m \in present'
                      THEN view'[p][m] = monster'[m].info /\ view'[p][m].x = monster'[m].x
                      ELSE view'[p][m] = Unseen
    BY DEF SameWorld
  <2>1. p \in players /\ p \in Players
    BY DEF UpdateTick, MonsterTypeOK
  <2>2. CASE m \in present
    BY <1>2, <2>1, <2>2 DEF UpdateTick, Info
  <2>3. CASE m \notin present
    BY <2>1, <2>3 DEF UpdateTick, SameWorld
  <2> QED
    BY <2>2, <2>3 DEF UpdateTick
<1> QED
  BY <1>5, <1>6, <1>7

\* EnterRoom keeps it: monsterInfo, which the new player is told, is what the others know.
LEMMA EnterStep ==
    ASSUME MInv, NEW p \in Players, EnterRoom(p)
    PROVE  MInv'
<1> USE DEF MInv, EnterRoom
<1>1. \A m \in Monsters : monster[m].info \in Sights /\ Unseen \in Sights
  BY SightTypes DEF MonsterTypeOK
<1>2. MonsterTypeOK'
  BY <1>1, SpaceAssumption DEF MonsterTypeOK
<1>3. Informed'
  BY DEF Informed
<1>4. SameWorld'
  <2>1. p \notin players
    BY DEF MonsterTypeOK
  <2> QED
    BY <2>1 DEF SameWorld, MonsterTypeOK, Informed
<1> QED
  BY <1>2, <1>3, <1>4

\* LeaveRoom keeps it: only the one who left forgets the monsters.
LEMMA LeaveStep ==
    ASSUME MInv, NEW p \in Players, LeaveRoom(p)
    PROVE  MInv'
<1> USE DEF MInv, LeaveRoom
<1>1. Unseen \in Sights
  BY SpaceAssumption DEF Unseen, Sights
<1>2. MonsterTypeOK'
  BY <1>1 DEF MonsterTypeOK
<1>3. Informed'
  BY DEF Informed
<1>4. SameWorld'
  BY DEF SameWorld, MonsterTypeOK
<1> QED
  BY <1>2, <1>3, <1>4

\* An expired _target keeps it: nothing else of the monster changes.
LEMMA DestroyStep ==
    ASSUME MInv, NEW p \in Players, DestroyPlayer(p)
    PROVE  MInv'
<1> USE DEF MInv, DestroyPlayer
<1>1. ASSUME NEW m \in Monsters
      PROVE  /\ monster'[m] \in Beasts
             /\ monster'[m].target \in existing' \cup {NoPlayer}
             /\ monster'[m].x = monster[m].x /\ monster'[m].info = monster[m].info
  BY DEF MonsterTypeOK, Beasts
<1>2. monster' \in [Monsters -> Beasts]
  BY <1>1
<1>3. MonsterTypeOK'
  BY <1>1, <1>2 DEF MonsterTypeOK
<1>4. Informed'
  BY <1>1 DEF Informed, MonsterTypeOK
<1>5. SameWorld'
  BY <1>1 DEF SameWorld
<1> QED
  BY <1>3, <1>4, <1>5

\* A hit stuns, and leaves the monster where it is.
LEMMA HitResult ==
    ASSUME NEW b \in Beasts, NEW p \in Players, NEW d \in Damages, b.hp > d
    PROVE  /\ Hit(b, p, d) \in Beasts
           /\ Hit(b, p, d).target = p
           /\ Hit(b, p, d).x = b.x /\ Hit(b, p, d).right = b.right
           /\ Hit(b, p, d).info = b.info
<1>1. b.hp - d \in 1..MaxHp
  BY LifeAssumption DEF Beasts
<1> DEFINE s == IF b.state = "Stun" THEN b.stun ELSE 0
<1>2. s \in 0..Stunned
  BY ClockRanges DEF Beasts
<1>3. Hit(b, p, d) = [b EXCEPT !.hp = b.hp - d, !.target = p, !.state = "Stun", !.stun = s]
  BY DEF Hit, Beasts
<1>4. PICK n \in 1..MaxHp, q \in 0..Stunned :
        Hit(b, p, d) = [b EXCEPT !.hp = n, !.target = p, !.state = "Stun", !.stun = q]
  BY <1>1, <1>2, <1>3
<1>5. Hit(b, p, d) \in Beasts
  BY <1>4 DEF Beasts, Moods
<1>6. Hit(b, p, d).target = p /\ Hit(b, p, d).x = b.x /\ Hit(b, p, d).info = b.info
  BY <1>4 DEF Beasts
<1>7. Hit(b, p, d).right = b.right
  BY <1>4 DEF Beasts
<1> QED
  BY <1>5, <1>6, <1>7

\* A hit keeps it: the monster stays where it is, and its monsterInfo as it was told.
LEMMA DamageStep ==
    ASSUME MInv, NEW p \in Players, NEW m \in Monsters, NEW d \in Damages, TakeDamage(p, m, d)
    PROVE  MInv'
<1> USE DEF MInv, TakeDamage
<1>1. /\ monster'[m] = Hit(monster[m], p, d)
      /\ monster'[m] \in Beasts
      /\ monster'[m].target = p
      /\ monster'[m].x = monster[m].x /\ monster'[m].info = monster[m].info
  BY HitResult DEF MonsterTypeOK
<1>2. \A n \in Monsters \ {m} : monster'[n] = monster[n]
  BY DEF MonsterTypeOK
<1>3. monster' \in [Monsters -> Beasts]
  BY <1>1 DEF MonsterTypeOK
<1>4. MonsterTypeOK'
  BY <1>1, <1>2, <1>3 DEF MonsterTypeOK
<1>5. Informed'
  BY <1>1, <1>2 DEF Informed, MonsterTypeOK
<1>6. SameWorld'
  BY <1>1, <1>2 DEF SameWorld
<1> QED
  BY <1>4, <1>5, <1>6

\* A death keeps it: everybody is told of the despawn.
LEMMA DieStep ==
    ASSUME MInv, NEW p \in Players, NEW m \in Monsters, NEW d \in Damages, Die(p, m, d)
    PROVE  MInv'
<1> USE DEF MInv, Die
<1>1. CASE p \notin players
  BY <1>1 DEF MonsterTypeOK, Informed, SameWorld
<1>2. CASE p \in players
  <2>1. NewMonster(Never) \in Beasts /\ NewMonster(Never).target = NoPlayer
    BY NewMonsterType DEF FirstIntervals, NewMonster
  <2>2. Unseen \in Sights
    BY SpaceAssumption DEF Unseen, Sights
  <2>3. MonsterTypeOK'
    <3>1. /\ monster' \in [Monsters -> Beasts]
          /\ \A n \in Monsters : monster'[n].target \in existing \cup {NoPlayer}
      BY <1>2, <2>1 DEF MonsterTypeOK
    <3>2. view' \in [Players -> [Monsters -> Sights]]
      BY <1>2, <2>2 DEF MonsterTypeOK
    <3>3. crashed' = crashed /\ present' \subseteq Monsters
      BY <1>2 DEF MonsterTypeOK
    <3> HIDE DEF Die
    <3>4. UNCHANGED <<players, existing, position, due>>
      BY DEF Die
    <3> QED
      BY <3>1, <3>2, <3>3, <3>4 DEF MonsterTypeOK
  <2>4. Informed'
    BY <1>2 DEF Informed, MonsterTypeOK
  <2>5. SameWorld'
    BY <1>2 DEF SameWorld, MonsterTypeOK
  <2> QED
    BY <2>3, <2>4, <2>5
<1> QED
  BY <1>1, <1>2

\* A spawn keeps it: everybody in the room is told of the new monster.
LEMMA SpawnStep ==
    ASSUME MInv, NEW m \in Monsters, MonsterSpawn(m)
    PROVE  MInv'
<1> USE DEF MInv, MonsterSpawn
<1>1. PICK i \in FirstIntervals : monster' = [monster EXCEPT ![m] = NewMonster(i)]
  OBVIOUS
<1>2. /\ NewMonster(i) \in Beasts /\ NewMonster(i).target = NoPlayer
      /\ NewMonster(i).info \in Sights /\ NewMonster(i).info.x = NewMonster(i).x
  BY NewMonsterType, SightTypes DEF NewMonster
<1>3. /\ monster'[m] = NewMonster(i)
      /\ \A n \in Monsters \ {m} : monster'[n] = monster[n]
  BY <1>1 DEF MonsterTypeOK
<1>4. MonsterTypeOK'
  <2>1. monster' \in [Monsters -> Beasts]
    BY <1>1, <1>2 DEF MonsterTypeOK
  <2>2. view' \in [Players -> [Monsters -> Sights]]
    BY <1>2, <1>3 DEF MonsterTypeOK
  <2> QED
    BY <1>2, <1>3, <2>1, <2>2 DEF MonsterTypeOK
<1>5. Informed'
  BY <1>2, <1>3 DEF Informed, MonsterTypeOK
<1>6. SameWorld'
  <2>1. \A p \in players : view'[p][m] = NewMonster(i).info
    BY <1>3 DEF MonsterTypeOK
  <2>2. \A p \in players, n \in Monsters \ {m} : view'[p][n] = view[p][n]
    BY DEF MonsterTypeOK
  <2> QED
    BY <1>2, <1>3, <2>1, <2>2 DEF SameWorld
<1> QED
  BY <1>4, <1>5, <1>6

\* The passing of time keeps it: clocks stay in their ranges.
LEMMA PassStep ==
    ASSUME MInv, Pass
    PROVE  MInv'
<1> USE DEF MInv, Pass
<1>2. ASSUME NEW m \in Monsters
      PROVE  /\ monster'[m] \in Beasts
             /\ monster'[m].target = monster[m].target
             /\ monster'[m].x = monster[m].x /\ monster'[m].info = monster[m].info
  <2>1. /\ Older(monster[m].think, Longest) \in 0..Longest
        /\ Older(monster[m].stun, Stunned) \in 0..Stunned
    BY ClockRanges, OlderType DEF MonsterTypeOK, Beasts
  <2> QED
    BY <2>1 DEF MonsterTypeOK, Beasts
<1>3. monster' \in [Monsters -> Beasts]
  BY <1>2
<1>4. MonsterTypeOK'
  BY <1>2, <1>3 DEF MonsterTypeOK
<1>5. Informed'
  BY <1>2 DEF Informed, MonsterTypeOK
<1>6. SameWorld'
  BY <1>2 DEF SameWorld
<1> QED
  BY <1>4, <1>5, <1>6

\* The move of a player keeps it.
LEMMA MoveStep ==
    ASSUME MInv, NEW p \in Players, NEW x \in Positions, HandleMove(p, x)
    PROVE  MInv'
BY DEF MInv, HandleMove, MonsterTypeOK, Informed, SameWorld

\* Every step keeps the invariant.
LEMMA StepMInv == MInv /\ [MonsterNext]_monsterVars => MInv'
<1> SUFFICES ASSUME MInv, [MonsterNext]_monsterVars PROVE MInv'
  OBVIOUS
<1>1. CASE UpdateTick
  BY <1>1, TickStep
<1>2. CASE Pass
  BY <1>2, PassStep
<1>3. ASSUME NEW p \in Players, PlayerJob(p) PROVE MInv'
  BY <1>3, EnterStep, LeaveStep, DestroyStep, MoveStep, DamageStep, DieStep DEF PlayerJob
<1>4. ASSUME NEW m \in Monsters, MonsterSpawn(m) PROVE MInv'
  BY <1>4, SpawnStep
<1>5. CASE UNCHANGED monsterVars
  BY <1>5 DEF monsterVars, MInv, MonsterTypeOK, Informed, SameWorld
<1> QED
  BY <1>1, <1>2, <1>3, <1>4, <1>5 DEF MonsterNext

\* In every reachable state the variables are well typed, the copies of a monster's place
\* agree, and the players in the room have been told the same.
THEOREM MonsterInvariance == MonsterSpec => []MInv
<1>1. MonsterInit => MInv
  BY InitMInv
<1>2. MInv /\ [MonsterNext]_monsterVars => MInv'
  BY StepMInv
<1> QED
  BY <1>1, <1>2, PTL DEF MonsterSpec

\* Types: no Update, hit, death or spawn leaves a monster off the map, with hp it cannot
\* have, or with a target that does not exist.
THEOREM MonsterTypes == MonsterSpec => []MonsterTypeOK
<1>1. MInv => MonsterTypeOK
  BY DEF MInv
<1> QED
  BY <1>1, MonsterInvariance, PTL

\* EnterRoom and BroadcastMove tell all players the same of every monster.
THEOREM WorldIsShared == MonsterSpec => []SameWorld
<1>1. MInv => SameWorld
  BY DEF MInv
<1> QED
  BY <1>1, MonsterInvariance, PTL

-----------------------------------------------------------------------------
(* ClosesIn *)

\* As numbers: at the heels of p when at a and facing `right`, or as near as the map allows,
\* and how far there is to go.
Close(a, p, right) ==
    \/ Distance(a, p) < Near
    \/ Distance(a, p) < Near + Speed /\ (right <=> p > a)
Beside(a, p, right) == Close(a, p, right) \/ (a = Clamp(p) /\ (right <=> p > a))
Left(a, p, right) == Distance(a, p) + IF right <=> p > a THEN 0 ELSE Speed + 1

\* The step of UpdateMove, before (x) and after it is clamped, to a target at p.
LEMMA StepTowards ==
    ASSUME NEW a \in MinX..MaxX, NEW p \in Int, NEW right \in BOOLEAN,
           NEW x \in Int, x = IF right THEN a + Speed ELSE a - Speed,
           NEW r \in BOOLEAN,
           Distance(x, p) >= Near => (r <=> p > x),
           Distance(x, p) < Near => (r <=> right)
    PROVE  /\ Close(a, p, right) => Close(Clamp(x), p, r)
           /\ Beside(a, p, right) => Beside(Clamp(x), p, r)
           /\ Beside(Clamp(x), p, r) \/ Left(Clamp(x), p, r) < Left(a, p, right)
BY SpaceAssumption DEF Close, Beside, Left, Distance, Clamp

\* What is said of a monster is said of these numbers.
LEMMA HunterNumbers ==
    ASSUME MonsterTypeOK, NEW b \in Beasts, b.target # NoPlayer
    PROVE  /\ position[b.target] \in Int
           /\ AtHeel(b) <=> Close(b.x, position[b.target], b.right)
           /\ Arrived(b) <=> Beside(b.x, position[b.target], b.right)
           /\ Lead(b) = Left(b.x, position[b.target], b.right)
           /\ Lead(b) \in Nat
<1>1. b.target \in Players /\ b.x \in Int /\ b.right \in BOOLEAN
  BY SpaceAssumption DEF Beasts
<1>2. position[b.target] \in Int
  BY <1>1, PlacesAreNumbers
<1>3. AtHeel(b) <=> Close(b.x, position[b.target], b.right)
  BY DEF AtHeel, Close, Faces
<1>4. Arrived(b) <=> Beside(b.x, position[b.target], b.right)
  BY <1>3 DEF Arrived, Beside, Faces
<1>5. Lead(b) = Left(b.x, position[b.target], b.right)
  BY DEF Lead, Left, Faces
<1>6. Lead(b) \in Nat
  BY <1>1, <1>2, SpaceAssumption DEF Lead, Faces, Distance
<1> QED
  BY <1>2, <1>3, <1>4, <1>5, <1>6

\* UpdateMove keeps a monster with its target, or brings it closer.
LEMMA MoveClosesIn ==
    ASSUME MonsterTypeOK, NEW b \in Beasts, b.target # NoPlayer
    PROVE  /\ AtHeel(b) => AtHeel(UpdateMove(b))
           /\ Arrived(b) => Arrived(UpdateMove(b))
           /\ Arrived(UpdateMove(b)) \/ Lead(UpdateMove(b)) < Lead(b)
<1> DEFINE x == IF b.right THEN b.x + Speed ELSE b.x - Speed
           p == position[b.target]
           c == UpdateMove(b)
<1>1. c \in Beasts /\ c.target = b.target
  BY MoveResult
<1>2. p \in Int /\ x \in Int /\ b.x \in MinX..MaxX /\ b.right \in BOOLEAN
  BY HunterNumbers, SpaceAssumption DEF Beasts
<1>3. c.x = Clamp(x)
  BY DEF UpdateMove, Beasts
<1>4. c.right = IF Distance(x, p) >= Near THEN p > x ELSE b.right
  BY DEF UpdateMove, Beasts
<1>5. c.right \in BOOLEAN
  BY <1>1 DEF Beasts
<1>6. Distance(x, p) >= Near \/ Distance(x, p) < Near
  BY <1>2, SpaceAssumption DEF Distance
<1>7. /\ AtHeel(b) <=> Close(b.x, p, b.right)
      /\ Arrived(b) <=> Beside(b.x, p, b.right)
      /\ Lead(b) = Left(b.x, p, b.right)
  BY HunterNumbers
<1>8. /\ AtHeel(c) <=> Close(c.x, p, c.right)
      /\ Arrived(c) <=> Beside(c.x, p, c.right)
      /\ Lead(c) = Left(c.x, p, c.right)
  BY <1>1, HunterNumbers
<1>9. x = IF b.right THEN b.x + Speed ELSE b.x - Speed
  OBVIOUS
<1> HIDE DEF x, p, c
<1>10. /\ Distance(x, p) >= Near => (c.right <=> p > x)
       /\ Distance(x, p) < Near => (c.right <=> b.right)
  <2>1. CASE Distance(x, p) >= Near
    <3>1. ~(Distance(x, p) < Near)
      BY <1>2, <2>1, SpaceAssumption DEF Distance
    <3> QED
      BY <1>4, <2>1, <3>1
  <2>2. CASE ~(Distance(x, p) >= Near)
    BY <1>4, <2>2
  <2> QED
    BY <2>1, <2>2
<1>11. /\ Close(b.x, p, b.right) => Close(Clamp(x), p, c.right)
       /\ Beside(b.x, p, b.right) => Beside(Clamp(x), p, c.right)
       /\ Beside(Clamp(x), p, c.right) \/ Left(Clamp(x), p, c.right) < Left(b.x, p, b.right)
  BY <1>2, <1>5, <1>9, <1>10, StepTowards
<1> QED
  BY <1>3, <1>7, <1>8, <1>11 DEF c

\* A monster that is where another is, facing the same way after the same target.
LEMMA SamePlace ==
    ASSUME NEW a, NEW b, a.x = b.x, a.right = b.right, a.target = b.target
    PROVE  (AtHeel(a) <=> AtHeel(b)) /\ (Arrived(a) <=> Arrived(b)) /\ Lead(a) = Lead(b)
BY DEF AtHeel, Arrived, Lead, Faces

\* A hunter does not idle: it is stunned from the hit that gives it a target until it
\* thinks, and Think makes a monster with a target move.
Awake == \A m \in Monsters : monster[m].target # NoPlayer => monster[m].state # "Idle"

\* After thinking, a hunter is as awake as before, and moves unless it is still stunned.
LEMMA ThinkAwake ==
    ASSUME NEW b \in Beasts, b.target # NoPlayer, b.state # "Idle", NEW a \in UpdateThink(b)
    PROVE  /\ a.state # "Idle"
           /\ b.state # "Stun" => a.state = "Move"
<1>1. CASE a = b
  BY <1>1 DEF Beasts, Moods
<1>2. CASE a \in Think(b)
  <2>1. PICK c \in Choices(b), i \in ThinkIntervals : a = Thought(b, c, i)
    BY <1>2 DEF Think
  <2>2. c[1] = "Move"
    BY <2>1 DEF Choices
  <2> QED
    BY <2>1, <2>2 DEF Thought, Beasts
<1> QED
  BY <1>1, <1>2 DEF UpdateThink

\* Update brings a hunter closer that is not stunned, and takes none away.
LEMMA UpdateClosesIn ==
    ASSUME MonsterTypeOK, NEW b \in Beasts, NEW a \in Update(b),
           b.target # NoPlayer, b.state # "Idle"
    PROVE  /\ a.state # "Idle"
           /\ AtHeel(b) => AtHeel(a)
           /\ Arrived(b) => Arrived(a)
           /\ Arrived(a) \/ Lead(a) <= Lead(b)
           /\ b.state # "Stun" => Arrived(a) \/ Lead(a) < Lead(b)
<1>1. PICK t \in UpdateThink(b) :
        a = LET u == IF t.state = "Move" THEN UpdateMove(t) ELSE t
            IN  [u EXCEPT !.info = Info(u)]
  BY DEF Update
<1> DEFINE u == IF t.state = "Move" THEN UpdateMove(t) ELSE t
<1>2. t \in Beasts /\ t.x = b.x /\ t.target = b.target /\ t.right = b.right
  BY ThinkResult
<1>3. t.state # "Idle" /\ (b.state # "Stun" => t.state = "Move")
  BY ThinkAwake
<1>4. (AtHeel(t) <=> AtHeel(b)) /\ (Arrived(t) <=> Arrived(b)) /\ Lead(t) = Lead(b)
  BY <1>2, SamePlace
<1>5. u \in Beasts /\ u.state = t.state
  BY <1>2, MoveResult DEF UpdateMove, Beasts
<1>6. Lead(t) \in Nat /\ t.target # NoPlayer
  BY <1>2, HunterNumbers
<1>7. /\ AtHeel(t) => AtHeel(u)
      /\ Arrived(t) => Arrived(u)
      /\ Arrived(u) \/ Lead(u) <= Lead(t)
      /\ t.state = "Move" => Arrived(u) \/ Lead(u) < Lead(t)
  <2>1. CASE t.state = "Move"
    <3>1. u = UpdateMove(t)
      BY <2>1
    <3>2. Lead(u) \in Nat
      BY <1>2, <1>5, <1>6, <3>1, MoveResult, HunterNumbers
    <3>3. /\ AtHeel(t) => AtHeel(u)
          /\ Arrived(t) => Arrived(u)
          /\ Arrived(u) \/ Lead(u) < Lead(t)
      BY <1>2, <1>6, <3>1, MoveClosesIn
    <3> HIDE DEF u
    <3> QED
      BY <1>6, <3>2, <3>3
  <2>2. CASE t.state # "Move"
    <3>1. u = t
      BY <2>2
    <3> HIDE DEF u
    <3> QED
      BY <1>6, <2>2, <3>1
  <2> QED
    BY <2>1, <2>2
<1>8. a = [u EXCEPT !.info = Info(u)]
  BY <1>1
<1> HIDE DEF u
<1>9. a.x = u.x /\ a.target = u.target /\ a.right = u.right /\ a.state = u.state
  BY <1>5, <1>8 DEF Beasts
<1>10. (AtHeel(a) <=> AtHeel(u)) /\ (Arrived(a) <=> Arrived(u)) /\ Lead(a) = Lead(u)
  BY <1>9, SamePlace
<1> QED
  BY <1>3, <1>4, <1>5, <1>7, <1>9, <1>10

\* Nobody has a target yet when the game starts.
LEMMA InitAwake == MonsterInit => Awake
<1> SUFFICES ASSUME MonsterInit, NEW m \in Monsters PROVE monster[m].target = NoPlayer
  BY DEF Awake
<1> QED
  BY DEF MonsterInit, NewMonster

\* Jobs other than UpdateTick: a hit stuns, the expiry of a target takes it away, and a
\* monster that is made anew has none.
LEMMA AwakeKept ==
    ASSUME MInv, Awake, [MonsterNext]_monsterVars
    PROVE  Awake'
<1> SUFFICES ASSUME NEW m \in Monsters, monster'[m].target # NoPlayer
             PROVE  monster'[m].state # "Idle"
  BY DEF Awake
<1>1. monster[m] \in Beasts /\ MonsterTypeOK
  BY DEF MInv, MonsterTypeOK
<1>2. ASSUME monster'[m].target = monster[m].target, monster'[m].state = monster[m].state
      PROVE  monster'[m].state # "Idle"
  BY <1>2 DEF Awake
<1>3. ASSUME monster'[m] = monster[m] PROVE monster'[m].state # "Idle"
  BY <1>2, <1>3
<1>4. CASE UpdateTick
  <2>1. monster'[m] \in Updated(m)
    BY <1>4 DEF UpdateTick
  <2>2. CASE m \in present
    <3>1. monster'[m] \in Update(monster[m])
      BY <2>1, <2>2 DEF Updated
    <3>2. monster'[m].target = monster[m].target
      BY <1>1, <3>1, UpdateResult
    <3> QED
      BY <1>1, <3>1, <3>2, UpdateClosesIn DEF Awake
  <2>3. CASE m \notin present
    BY <1>3, <2>1, <2>3 DEF Updated
  <2> QED
    BY <2>2, <2>3
<1>5. CASE Pass
  BY <1>1, <1>2, <1>5 DEF Pass, Beasts
<1>6. ASSUME NEW p \in Players, PlayerJob(p) PROVE monster'[m].state # "Idle"
  <2>1. CASE EnterRoom(p) \/ LeaveRoom(p) \/ \E x \in Positions : HandleMove(p, x)
    BY <1>3, <2>1 DEF EnterRoom, LeaveRoom, HandleMove
  <2>2. CASE DestroyPlayer(p)
    <3>1. monster'[m] = [monster[m] EXCEPT !.target = IF @ = p THEN NoPlayer ELSE @]
      BY <2>2 DEF DestroyPlayer
    <3>2. monster'[m].target = monster[m].target /\ monster'[m].state = monster[m].state
      BY <1>1, <3>1 DEF Beasts
    <3> QED
      BY <1>2, <3>2
  <2>3. ASSUME NEW n \in Monsters, NEW d \in Damages, TakeDamage(p, n, d)
        PROVE  monster'[m].state # "Idle"
    <3>1. CASE n = m
      BY <1>1, <2>3, <3>1 DEF TakeDamage, Hit, Beasts, MonsterTypeOK
    <3>2. CASE n # m
      BY <1>1, <1>3, <2>3, <3>2 DEF TakeDamage, MonsterTypeOK
    <3> QED
      BY <3>1, <3>2
  <2>4. ASSUME NEW n \in Monsters, NEW d \in Damages, Die(p, n, d)
        PROVE  monster'[m].state # "Idle"
    <3>1. monster'[m] = monster[m] \/ monster'[m] = NewMonster(Never)
      BY <1>1, <2>4 DEF Die, MonsterTypeOK
    <3> QED
      BY <1>3, <3>1 DEF NewMonster
  <2> QED
    BY <1>6, <2>1, <2>2, <2>3, <2>4 DEF PlayerJob
<1>7. ASSUME NEW n \in Monsters, MonsterSpawn(n) PROVE monster'[m].state # "Idle"
  <2>1. PICK i \in FirstIntervals : monster' = [monster EXCEPT ![n] = NewMonster(i)]
    BY <1>7 DEF MonsterSpawn
  <2>2. monster'[m] = monster[m] \/ monster'[m] = NewMonster(i)
    BY <1>1, <2>1 DEF MonsterTypeOK
  <2> QED
    BY <1>3, <2>2 DEF NewMonster
<1>8. CASE UNCHANGED monsterVars
  BY <1>3, <1>8 DEF monsterVars
<1> QED
  BY <1>4, <1>5, <1>6, <1>7, <1>8 DEF MonsterNext

\* Only UpdateTick moves a monster that stays in the room, and only it makes due false.
LEMMA OthersStay ==
    ASSUME MInv, [MonsterNext]_monsterVars, ~UpdateTick, NEW m \in present, m \in present'
    PROVE  /\ monster'[m].x = monster[m].x
           /\ monster'[m].right = monster[m].right
           /\ ~(due /\ ~due')
<1>1. m \in Monsters /\ monster[m] \in Beasts /\ MonsterTypeOK
  BY DEF MInv, MonsterTypeOK
<1> DEFINE Goal == /\ monster'[m].x = monster[m].x
                   /\ monster'[m].right = monster[m].right
                   /\ ~(due /\ ~due')
<1>2. ASSUME monster'[m] = monster[m], UNCHANGED due PROVE Goal
  BY <1>2
<1>3. CASE Pass
  BY <1>1, <1>3 DEF Pass, Beasts
<1>4. ASSUME NEW p \in Players, PlayerJob(p) PROVE Goal
  <2>1. CASE EnterRoom(p) \/ LeaveRoom(p) \/ \E x \in Positions : HandleMove(p, x)
    BY <1>2, <2>1 DEF EnterRoom, LeaveRoom, HandleMove
  <2>2. CASE DestroyPlayer(p)
    BY <1>1, <2>2 DEF DestroyPlayer, Beasts
  <2>3. ASSUME NEW n \in Monsters, NEW d \in Damages, TakeDamage(p, n, d)
        PROVE  Goal
    <3>1. CASE n = m
      <4>1. monster'[m] = Hit(monster[m], p, d) /\ monster[m].hp > d /\ UNCHANGED due
        BY <1>1, <2>3, <3>1 DEF TakeDamage, MonsterTypeOK
      <4> QED
        BY <1>1, <4>1, HitResult
    <3>2. CASE n # m
      BY <1>1, <1>2, <2>3, <3>2 DEF TakeDamage, MonsterTypeOK
    <3> QED
      BY <3>1, <3>2
  <2>4. ASSUME NEW n \in Monsters, NEW d \in Damages, Die(p, n, d)
        PROVE  Goal
    <3>1. monster'[m] = monster[m] /\ UNCHANGED due
      BY <1>1, <2>4 DEF Die, MonsterTypeOK
    <3> QED
      BY <1>2, <3>1
  <2> HIDE DEF Goal
  <2> QED
    BY <1>4, <2>1, <2>2, <2>3, <2>4 DEF PlayerJob
<1>5. ASSUME NEW n \in Monsters, MonsterSpawn(n) PROVE Goal
  <2>1. monster'[m] = monster[m] /\ UNCHANGED due
    BY <1>1, <1>5 DEF MonsterSpawn, MonsterTypeOK
  <2> QED
    BY <1>2, <2>1
<1>6. CASE UNCHANGED monsterVars
  BY <1>2, <1>6 DEF monsterVars
<1> QED
  BY <1>3, <1>4, <1>5, <1>6 DEF MonsterNext

\* Every step is what ClosesIn says: UpdateTick by UpdateClosesIn, and the others leave the
\* hunter where it is.
LEMMA HunterStep ==
    ASSUME MInv, Awake, [MonsterNext]_monsterVars, UNCHANGED position,
           NEW m \in present, m \in present',
           monster[m].target # NoPlayer, monster'[m].target = monster[m].target
    PROVE  /\ AtHeel(monster[m]) => AtHeel(monster'[m])
           /\ Arrived(monster[m]) => Arrived(monster'[m])
           /\ Arrived(monster'[m]) \/ Lead(monster'[m]) <= Lead(monster[m])
           /\ due /\ ~due' /\ monster[m].state # "Stun" =>
                    Arrived(monster'[m]) \/ Lead(monster'[m]) < Lead(monster[m])
<1>1. m \in Monsters /\ monster[m] \in Beasts /\ MonsterTypeOK
  BY DEF MInv, MonsterTypeOK
<1>2. CASE UpdateTick
  <2>1. monster'[m] \in Update(monster[m])
    BY <1>1, <1>2 DEF UpdateTick, Updated
  <2> QED
    BY <1>1, <2>1, UpdateClosesIn DEF Awake
<1>3. CASE ~UpdateTick
  <2>1. /\ monster'[m].x = monster[m].x
        /\ monster'[m].right = monster[m].right
        /\ ~(due /\ ~due')
    BY <1>3, OthersStay
  <2>2. /\ AtHeel(monster'[m]) <=> AtHeel(monster[m])
        /\ Arrived(monster'[m]) <=> Arrived(monster[m])
        /\ Lead(monster'[m]) = Lead(monster[m])
    BY <2>1, SamePlace
  <2>3. Lead(monster[m]) \in Nat
    BY <1>1, HunterNumbers
  <2> QED
    BY <2>1, <2>2, <2>3
<1> QED
  BY <1>2, <1>3

\* UpdateMove brings a monster to a target that stays in its place and keeps it there, for
\* any map, any places of players (beyond the border too), and any speed up to the distance
\* at which it turns: Lead is a number that every Update of a hunter makes smaller.
THEOREM HunterClosesIn == MonsterSpec => ClosesIn
<1> DEFINE Step ==
        \A m \in present \cap present' :
            monster[m].target # NoPlayer /\ UNCHANGED <<position, monster[m].target>> =>
                /\ AtHeel(monster[m]) => AtHeel(monster'[m])
                /\ Arrived(monster[m]) => Arrived(monster'[m])
                /\ Arrived(monster'[m]) \/ Lead(monster'[m]) <= Lead(monster[m])
                /\ due /\ ~due' /\ monster[m].state # "Stun" =>
                        Arrived(monster'[m]) \/ Lead(monster'[m]) < Lead(monster[m])
<1>1. MInv /\ Awake /\ [MonsterNext]_monsterVars => Step
  BY HunterStep
<1>2. MInv /\ Awake /\ [MonsterNext]_monsterVars => [Step]_monsterVars
  BY <1>1
<1>3. MonsterInit => Awake
  BY InitAwake
<1>4. MInv /\ Awake /\ [MonsterNext]_monsterVars => Awake'
  BY AwakeKept
<1> QED
  BY <1>2, <1>3, <1>4, MonsterInvariance, PTL DEF MonsterSpec, ClosesIn
=============================================================================
