--------------------------- MODULE JobTimerProofs ---------------------------
(***************************************************************************)
(* Proofs about JobTimer for any number of workers, queues, jobs and ticks.*)
(* A step of the timer is a step of JobQueue or leaves it alone, so what   *)
(* JobQueueProofs shows holds with the timer too; TimerInv adds where the  *)
(* reserved jobs are and in which order they are pushed.                   *)
(***************************************************************************)
EXTENDS JobTimer, SerialQueuesProofs

\* What a step that is none of the timer's leaves alone, but for the jobs it makes.
LEMMA OtherSteps ==
    ASSUME \/ LaunchWorkers /\ UNCHANGED timerVars
           \/ \E w \in Workers : (QueueStep(w) \/ EndNetwork(w)) /\ UNCHANGED timerVars
    PROVE  UNCHANGED <<timerVars, made>>
BY DEF LaunchWorkers, QueueStep, EndNetwork, Enqueue, Publish, PopAll, RunJob, Subtract,
       ReadClock, GlobalPop, EndRound

\* The item on top of a distributor's vector.
LEMMA TopItem ==
    ASSUME TimerTypeOK, NEW w \in Workers, items[w] # <<>>
    PROVE  /\ items[w] \in Seq(Item) /\ Head(items[w]) = items[w][1]
           /\ 1 \in DOMAIN items[w]
           /\ items[w][1] \in Item
           /\ Tail(items[w]) \in Seq(Item)
           /\ DOMAIN Tail(items[w]) = 1..(Len(items[w]) - 1)
           /\ \A i \in DOMAIN Tail(items[w]) :
                i + 1 \in DOMAIN items[w] /\ Tail(items[w])[i] = items[w][i + 1]
<1>1. items[w] \in Seq(Item)
  BY DEF TimerTypeOK
<1>2. Len(items[w]) \in Nat /\ Len(items[w]) # 0
  BY <1>1
<1>3. DOMAIN items[w] = 1..Len(items[w])
  BY <1>1
<1> QED
  BY <1>1, <1>2, <1>3

\* A step of the timer is one of the job system, or leaves it alone.
LEMMA TimerStepsAreQueueSteps ==
    ASSUME TimerTypeOK, [TimerNext]_allVars
    PROVE  [Next]_vars
<1>1. ASSUME NEW w \in Workers, PushDue(w)
      PROVE  Next
  <2>1. Head(items[w]).queue \in Queues /\ Head(items[w]).job \in Jobs
    BY <1>1, TopItem DEF PushDue, Item
  <2> QED
    BY <1>1, <2>1 DEF PushDue, Next
<1>2. ASSUME NEW w \in Workers, NEW q \in Queues, NEW j \in Jobs, DoAsync(w, q, j)
      PROVE  Next
  BY <1>2 DEF DoAsync, Next
<1>3. ASSUME NEW w \in Workers, TimerWorkerStep(w), ~PushDue(w)
      PROVE  [Next]_vars
  BY <1>3 DEF TimerWorkerStep, Next, WorkerStep, EndReserve, ReadNow, Enter, Skip, PopDue, Leave
<1>4. ASSUME NEW w \in Workers, NEW j \in Jobs, NEW d \in Delays, BeginReserve(w, j, d)
      PROVE  UNCHANGED vars
  BY <1>4 DEF BeginReserve, vars
<1> QED
  BY <1>1, <1>2, <1>3, <1>4 DEF TimerNext, Next, Tick, allVars

\* Every action keeps the timer's variables in their types.  A job reserves for the queue
\* that its thread executes, which is not null while a job runs.
LEMMA TimerTypeStep ==
    ASSUME TimerTypeOK, Finite, TypeOK, Shape, [TimerNext]_allVars
    PROVE  TimerTypeOK' /\ Finite'
<1>0. now \in 0..MaxTick /\ MaxTick \in Nat /\ Delays \subseteq Nat
  BY DelaysAssumption DEF TimerTypeOK
<1>1. ASSUME UNCHANGED timerVars
      PROVE  TimerTypeOK' /\ Finite'
  BY <1>1 DEF TimerTypeOK, timerVars, Finite
<1>2. CASE Tick
  <2>1. now' \in 0..MaxTick
    BY <1>0, <1>2 DEF Tick
  <2> QED
    BY <1>2, <2>1 DEF Tick, TimerTypeOK, Finite
<1>3. ASSUME NEW w \in Workers, NEW j \in Jobs, NEW d \in Delays, BeginReserve(w, j, d)
      PROVE  TimerTypeOK' /\ Finite'
  <2>1. current[w] \in Queues
    BY <1>3 DEF BeginReserve, Shape
  <2>2. now + d \in Nat
    BY <1>0
  <2>3. [at |-> now + d, queue |-> current[w], job |-> j, late |-> FALSE] \in Item
    BY <2>1, <2>2 DEF Item
  <2>4. reserving' \in [Workers -> SUBSET Item]
    BY <1>3, <2>3 DEF BeginReserve, TimerTypeOK
  <2> QED
    BY <1>3, <2>4 DEF BeginReserve, TimerTypeOK, Finite
<1>5. ASSUME NEW w \in Workers, ReadNow(w) \/ Enter(w) \/ Skip(w) \/ Leave(w)
      PROVE  TimerTypeOK' /\ Finite'
  <2>1. 0 \in 0..MaxTick
    BY <1>0
  <2>2. seen' \in [Workers -> 0..MaxTick]
    BY <1>0, <1>5, <2>1 DEF ReadNow, Enter, Skip, Leave, TimerTypeOK
  <2>3. timerPc' \in [Workers -> TimerPcs]
    BY <1>5 DEF ReadNow, Enter, Skip, Leave, TimerTypeOK, TimerPcs
  <2> QED
    BY <1>5, <2>2, <2>3 DEF ReadNow, Enter, Skip, Leave, TimerTypeOK, Finite
<1>6. ASSUME NEW w \in Workers, PopDue(w)
      PROVE  TimerTypeOK' /\ Finite'
  <2> DEFINE due == {x \in timers : x.at <= seen[w]}
  <2>1. IsFiniteSet(due) /\ IsFiniteSet(timers \ due)
    BY FS_Subset DEF Finite
  <2>2. Cardinality(due) \in Nat
    BY <2>1, FS_CardinalityType
  <2>3. PICK s \in [1..Cardinality(due) -> due] : items' = [items EXCEPT ![w] = s]
    BY <1>6 DEF PopDue
  <2>4. due \subseteq Item
    BY DEF TimerTypeOK
  <2>5. s \in Seq(Item)
    <3> HIDE DEF due
    <3> QED
      BY <2>2, <2>3, <2>4, SeqDef
  <2>6. items' \in [Workers -> Seq(Item)]
    BY <2>3, <2>5 DEF TimerTypeOK
  <2>7. timers' \subseteq Item /\ IsFiniteSet(timers')
    BY <1>6, <2>1 DEF PopDue, TimerTypeOK
  <2> QED
    BY <1>6, <2>6, <2>7 DEF PopDue, TimerTypeOK, TimerPcs, Finite
<1>7. ASSUME NEW w \in Workers, PushDue(w)
      PROVE  TimerTypeOK' /\ Finite'
  <2>1. Tail(items[w]) \in Seq(Item)
    BY <1>7, TopItem DEF PushDue
  <2>2. items' \in [Workers -> Seq(Item)]
    BY <1>7, <2>1 DEF PushDue, TimerTypeOK
  <2> QED
    BY <1>7, <2>2 DEF PushDue, TimerTypeOK, Finite
<1>8. ASSUME NEW w \in Workers, EndReserve(w)
      PROVE  TimerTypeOK' /\ Finite'
  <2> DEFINE Entered(x) == [x EXCEPT !.late = now > x.at]
             new == {Entered(x) : x \in reserving[w]}
  <2>1. new \subseteq Item
    <3> SUFFICES ASSUME NEW x \in reserving[w] PROVE Entered(x) \in Item
      OBVIOUS
    <3>1. x \in Item
      BY DEF TimerTypeOK
    <3>2. (now > x.at) \in BOOLEAN
      OBVIOUS
    <3> QED
      BY <3>1, <3>2 DEF Item
  <2>2. IsFiniteSet(new)
    <3>1. PICK x \in reserving[w] : reserving[w] = {x}
      BY <1>8 DEF EndReserve, Finite
    <3>2. new = {Entered(x)}
      BY <3>1
    <3> QED
      BY <3>2, FS_Singleton
  <2>3. timers' = timers \cup new
    BY <1>8 DEF EndReserve
  <2>4. IsFiniteSet(timers')
    BY <2>2, <2>3, FS_Union DEF Finite
  <2>5. timers' \subseteq Item
    BY <2>1, <2>3 DEF TimerTypeOK
  <2>6. reserving' = [reserving EXCEPT ![w] = {}]
    BY <1>8 DEF EndReserve
  <2>7. /\ reserving' \in [Workers -> SUBSET Item]
        /\ \A v \in Workers : reserving'[v] # {} => \E x \in reserving'[v] : reserving'[v] = {x}
    BY <2>6 DEF TimerTypeOK, Finite
  <2> QED
    BY <1>8, <2>4, <2>5, <2>7 DEF EndReserve, TimerTypeOK, Finite
<1> QED
  BY <1>1, <1>2, <1>3, <1>5, <1>6, <1>7, <1>8, OtherSteps
  DEF TimerNext, TimerWorkerStep, DoAsync, allVars

-----------------------------------------------------------------------------
\* exchange(true) lets one thread in when nobody distributes, and store(false) comes from
\* that thread only.
LEMMA OneDistributorStep ==
    ASSUME TimerTypeOK, OneDistributor, [TimerNext]_allVars
    PROVE  OneDistributor'
<1>0. timerPc \in [Workers -> TimerPcs] /\ distributing \in BOOLEAN
  BY DEF TimerTypeOK
<1>1. ASSUME UNCHANGED <<timerPc, distributing>>
      PROVE  OneDistributor'
  BY <1>1 DEF OneDistributor, Distributing
<1>2. ASSUME NEW w \in Workers, ReadNow(w) \/ Skip(w)
      PROVE  OneDistributor'
  <2>1. \A v \in Workers : Distributing(v)' <=> Distributing(v)
    BY <1>0, <1>2 DEF ReadNow, Skip, Distributing
  <2>2. UNCHANGED distributing
    BY <1>2 DEF ReadNow, Skip
  <2> QED
    BY <2>1, <2>2 DEF OneDistributor
<1>3. ASSUME NEW w \in Workers, Enter(w)
      PROVE  OneDistributor'
  <2>1. \A v \in Workers : Distributing(v)' <=> v = w
    BY <1>0, <1>3 DEF Enter, Distributing, OneDistributor
  <2> QED
    BY <1>3, <2>1 DEF Enter, OneDistributor
<1>4. ASSUME NEW w \in Workers, PopDue(w)
      PROVE  OneDistributor'
  <2>1. \A v \in Workers : Distributing(v)' <=> Distributing(v)
    BY <1>0, <1>4 DEF PopDue, Distributing
  <2> QED
    BY <1>4, <2>1 DEF PopDue, OneDistributor
<1>5. ASSUME NEW w \in Workers, Leave(w)
      PROVE  OneDistributor'
  <2>1. \A v \in Workers : ~Distributing(v)'
    BY <1>0, <1>5 DEF Leave, Distributing, OneDistributor
  <2> QED
    BY <1>5, <2>1 DEF Leave, OneDistributor
<1> QED
  BY <1>1, <1>2, <1>3, <1>4, <1>5, OtherSteps
  DEF TimerNext, TimerWorkerStep, Tick, BeginReserve, DoAsync, EndReserve, PushDue,
      allVars, timerVars

-----------------------------------------------------------------------------
\* A job that is made elsewhere leaves the reserved ones where they are.
LEMMA ReservedQuiet ==
    ASSUME ReservedOnce, UNCHANGED <<timers, reserving, items>>,
           \A j \in made' \ made : \A x \in Reserved : x.job # j
    PROVE  ReservedOnce'
<1>1. Reserved' = Reserved /\ \A w \in Workers : ItemsOf(w)' = ItemsOf(w)
  BY DEF Reserved, Distributed, ItemsOf
<1> QED
  BY <1>1 DEF ReservedOnce

\* Reserve starts with a job that is reserved nowhere.
LEMMA ReservedBegins ==
    ASSUME TimerTypeOK, ReservedOnce,
           NEW w \in Workers, NEW j \in Jobs, NEW d \in Delays, BeginReserve(w, j, d)
    PROVE  ReservedOnce'
<1> DEFINE new == [at |-> now + d, queue |-> current[w], job |-> j, late |-> FALSE]
<1>1. UNCHANGED <<timers, items, made>>
  BY DEF BeginReserve, vars
<1>2. /\ reserving[w] = {} /\ reserving'[w] = {new}
      /\ \A v \in Workers \ {w} : reserving'[v] = reserving[v]
  BY DEF BeginReserve, TimerTypeOK
<1>3. new.job = j
  OBVIOUS
<1>4. j \notin made /\ \A x \in Reserved : x.job # j
  BY DEF BeginReserve
<1> HIDE DEF new
<1>5. \A v \in Workers : ItemsOf(v)' = ItemsOf(v) /\ ItemsOf(v) \subseteq Reserved
                         /\ reserving[v] \subseteq Reserved
  BY <1>1 DEF ItemsOf, Reserved, Distributed
<1>6. Reserved' = Reserved \cup {new}
  BY <1>1, <1>2, <1>5 DEF Reserved, Distributed
<1>7. new \notin Reserved /\ timers \subseteq Reserved
  BY <1>3, <1>4 DEF Reserved
<1>8. (\A x, y \in Reserved : x.job = y.job => x = y)'
  BY <1>3, <1>4, <1>6 DEF ReservedOnce
<1>9. (\A x \in Reserved : x.job \notin made)'
  BY <1>1, <1>3, <1>4, <1>6 DEF ReservedOnce
<1>10. ASSUME NEW u \in Workers, NEW v \in Workers
       PROVE  /\ timers' \cap (reserving'[v] \cup ItemsOf(v)') = {}
              /\ reserving'[u] \cap ItemsOf(v)' = {}
              /\ u # v => /\ reserving'[u] \cap reserving'[v] = {}
                          /\ ItemsOf(u)' \cap ItemsOf(v)' = {}
  <2>1. /\ timers \cap (reserving[v] \cup ItemsOf(v)) = {}
        /\ reserving[u] \cap ItemsOf(v) = {}
        /\ u # v => /\ reserving[u] \cap reserving[v] = {}
                    /\ ItemsOf(u) \cap ItemsOf(v) = {}
    BY DEF ReservedOnce
  <2> QED
    BY <1>1, <1>2, <1>5, <1>7, <2>1
<1> QED
  BY <1>1, <1>8, <1>9, <1>10 DEF ReservedOnce

\* Reserve ends: the item is in the heap, and not in Reserve any more.
LEMMA ReservedEnds ==
    ASSUME TimerTypeOK, Finite, ReservedOnce, NEW w \in Workers, EndReserve(w)
    PROVE  ReservedOnce'
<1>1. PICK x \in reserving[w] : reserving[w] = {x}
  BY DEF EndReserve, Finite
<1> DEFINE y == [x EXCEPT !.late = now > x.at]
<1>2. UNCHANGED <<items, made>>
  BY DEF EndReserve, vars
<1>3. /\ timers' = timers \cup {y}
      /\ reserving'[w] = {}
      /\ \A v \in Workers \ {w} : reserving'[v] = reserving[v]
  BY <1>1 DEF EndReserve, TimerTypeOK
<1>4. x \in Item /\ y.job = x.job
  BY <1>1 DEF TimerTypeOK, Item
<1> HIDE DEF y
<1>5. \A v \in Workers : ItemsOf(v)' = ItemsOf(v) /\ ItemsOf(v) \subseteq Reserved
                         /\ reserving[v] \subseteq Reserved
  BY <1>2 DEF ItemsOf, Reserved, Distributed
<1>6. x \in Reserved /\ timers \subseteq Reserved
  BY <1>5 DEF Reserved
<1>7. /\ x \notin timers
      /\ \A v \in Workers : x \notin ItemsOf(v) /\ (v # w => x \notin reserving[v])
  BY <1>1 DEF ReservedOnce
<1>8. \A z \in Reserved : z.job = x.job => z = x
  BY <1>6 DEF ReservedOnce
<1>9. /\ y \notin timers
      /\ \A v \in Workers : y \notin ItemsOf(v) /\ (v # w => y \notin reserving[v])
  BY <1>4, <1>5, <1>6, <1>7, <1>8
<1>10. \A z \in Reserved' : z = y \/ (z \in Reserved /\ z # x)
  BY <1>1, <1>3, <1>5, <1>7 DEF Reserved, Distributed
<1>11. (\A a, b \in Reserved : a.job = b.job => a = b)'
  BY <1>4, <1>8, <1>10 DEF ReservedOnce
<1>12. (\A a \in Reserved : a.job \notin made)'
  BY <1>2, <1>4, <1>6, <1>10 DEF ReservedOnce
<1>13. ASSUME NEW u \in Workers, NEW v \in Workers
       PROVE  /\ timers' \cap (reserving'[v] \cup ItemsOf(v)') = {}
              /\ reserving'[u] \cap ItemsOf(v)' = {}
              /\ u # v => /\ reserving'[u] \cap reserving'[v] = {}
                          /\ ItemsOf(u)' \cap ItemsOf(v)' = {}
  <2>1. /\ timers \cap (reserving[v] \cup ItemsOf(v)) = {}
        /\ reserving[u] \cap ItemsOf(v) = {}
        /\ u # v => /\ reserving[u] \cap reserving[v] = {}
                    /\ ItemsOf(u) \cap ItemsOf(v) = {}
    BY DEF ReservedOnce
  <2>2. reserving'[v] \subseteq reserving[v] /\ reserving'[u] \subseteq reserving[u]
    BY <1>3
  <2>3. y \notin reserving'[v]
    BY <1>3, <1>9
  <2> QED
    BY <1>3, <1>5, <1>9, <2>1, <2>2, <2>3
<1> QED
  BY <1>2, <1>11, <1>12, <1>13 DEF ReservedOnce

\* The due items pass from the heap to the distributor's vector, each once.
LEMMA ReservedPops ==
    ASSUME TimerTypeOK, Finite, ReservedOnce, NEW w \in Workers, PopDue(w)
    PROVE  ReservedOnce'
<1> DEFINE due == {x \in timers : x.at <= seen[w]}
<1>1. PICK s \in [1..Cardinality(due) -> due] :
        /\ items' = [items EXCEPT ![w] = s]
        /\ \A i, k \in DOMAIN s : i < k => s[i] # s[k]
  BY DEF PopDue
<1>2. timers' = timers \ due /\ UNCHANGED <<reserving, made>>
  BY DEF PopDue, vars
<1>3. due \subseteq timers
  OBVIOUS
<1>4. Cardinality(due) \in Nat
  BY FS_Subset, FS_CardinalityType DEF Finite
<1> HIDE DEF due
<1>5. /\ items'[w] = s /\ \A v \in Workers \ {w} : items'[v] = items[v]
  BY <1>1 DEF TimerTypeOK
<1>6. \A i \in DOMAIN s : s[i] \in due
  BY <1>1
<1>7. ItemsOf(w)' \subseteq due /\ \A v \in Workers \ {w} : ItemsOf(v)' = ItemsOf(v)
  BY <1>5, <1>6 DEF ItemsOf
<1>8. \A i, k \in DOMAIN s : s[i] = s[k] => i = k
  <2> SUFFICES ASSUME NEW i \in DOMAIN s, NEW k \in DOMAIN s, i # k
               PROVE  s[i] # s[k]
    OBVIOUS
  <2>1. i \in Int /\ k \in Int
    BY <1>1, <1>4
  <2>2. i < k \/ k < i
    BY <2>1
  <2> QED
    BY <1>1, <2>2
<1>9. Reserved' \subseteq Reserved
  BY <1>2, <1>3, <1>7 DEF Reserved, Distributed
<1>10. ASSUME NEW u \in Workers, NEW v \in Workers
       PROVE  /\ timers' \cap (reserving'[v] \cup ItemsOf(v)') = {}
              /\ reserving'[u] \cap ItemsOf(v)' = {}
              /\ u # v => /\ reserving'[u] \cap reserving'[v] = {}
                          /\ ItemsOf(u)' \cap ItemsOf(v)' = {}
  <2>1. /\ timers \cap (reserving[u] \cup ItemsOf(u)) = {}
        /\ timers \cap (reserving[v] \cup ItemsOf(v)) = {}
        /\ reserving[u] \cap ItemsOf(v) = {}
        /\ u # v => /\ reserving[u] \cap reserving[v] = {}
                    /\ ItemsOf(u) \cap ItemsOf(v) = {}
    BY DEF ReservedOnce
  <2>2. CASE v = w
    BY <1>2, <1>3, <1>7, <2>1, <2>2
  <2>3. CASE v # w
    BY <1>2, <1>3, <1>7, <2>1, <2>3
  <2> QED
    BY <2>2, <2>3
<1>11. \A v \in Workers : \A i, k \in DOMAIN items'[v] : items'[v][i] = items'[v][k] => i = k
  BY <1>5, <1>8 DEF ReservedOnce
<1>12. /\ \A x, y \in Reserved' : x.job = y.job => x = y
       /\ \A x \in Reserved' : x.job \notin made'
  BY <1>2, <1>9 DEF ReservedOnce
<1> QED
  BY <1>10, <1>11, <1>12 DEF ReservedOnce

\* The item on top of the vector is pushed: its job is made now, and reserved no more.
LEMMA ReservedPushed ==
    ASSUME TimerTypeOK, ReservedOnce, NEW w \in Workers, PushDue(w)
    PROVE  ReservedOnce'
<1> DEFINE x == items[w][1]
<1>1. /\ items[w] # <<>> /\ UNCHANGED <<timers, reserving>>
      /\ items' = [items EXCEPT ![w] = Tail(items[w])]
      /\ made' = made \cup {Head(items[w]).job}
  BY DEF PushDue, BeginPush
<1>2. /\ items'[w] = Tail(items[w]) /\ \A v \in Workers \ {w} : items'[v] = items[v]
  BY <1>1 DEF TimerTypeOK
<1>3. /\ Head(items[w]) = x /\ 1 \in DOMAIN items[w]
      /\ \A i \in DOMAIN Tail(items[w]) : /\ i \in Nat /\ i + 1 # 1
                                          /\ i + 1 \in DOMAIN items[w]
                                          /\ Tail(items[w])[i] = items[w][i + 1]
  BY <1>1, TopItem
<1>4. x \in ItemsOf(w) /\ ItemsOf(w) \subseteq Reserved
  BY <1>3 DEF ItemsOf, Reserved, Distributed
<1>5. x \notin ItemsOf(w)'
  BY <1>2, <1>3 DEF ItemsOf, ReservedOnce
<1>6. ItemsOf(w)' \subseteq ItemsOf(w) /\ \A v \in Workers \ {w} : ItemsOf(v)' = ItemsOf(v)
  BY <1>2, <1>3 DEF ItemsOf
<1> HIDE DEF x
<1>7. /\ x \notin timers
      /\ \A v \in Workers : x \notin reserving[v] /\ (v # w => x \notin ItemsOf(v))
  BY <1>4 DEF ReservedOnce
<1>8. Reserved' \subseteq Reserved \ {x}
  BY <1>1, <1>5, <1>6, <1>7 DEF Reserved, Distributed
<1>9. \A y \in Reserved' : y.job # x.job
  BY <1>4, <1>8 DEF ReservedOnce
<1>10. /\ \A y, z \in Reserved' : y.job = z.job => y = z
       /\ \A y \in Reserved' : y.job \notin made'
  BY <1>1, <1>3, <1>8, <1>9 DEF ReservedOnce
<1>11. ASSUME NEW u \in Workers, NEW v \in Workers
       PROVE  /\ timers' \cap (reserving'[v] \cup ItemsOf(v)') = {}
              /\ reserving'[u] \cap ItemsOf(v)' = {}
              /\ u # v => /\ reserving'[u] \cap reserving'[v] = {}
                          /\ ItemsOf(u)' \cap ItemsOf(v)' = {}
  <2>1. /\ timers \cap (reserving[v] \cup ItemsOf(v)) = {}
        /\ reserving[u] \cap ItemsOf(v) = {}
        /\ u # v => /\ reserving[u] \cap reserving[v] = {}
                    /\ ItemsOf(u) \cap ItemsOf(v) = {}
    BY DEF ReservedOnce
  <2>2. ItemsOf(u)' \subseteq ItemsOf(u) /\ ItemsOf(v)' \subseteq ItemsOf(v)
    BY <1>6
  <2> QED
    BY <1>1, <2>1, <2>2
<1>12. ASSUME NEW v \in Workers, NEW i \in DOMAIN items'[v], NEW k \in DOMAIN items'[v],
              items'[v][i] = items'[v][k]
       PROVE  i = k
  <2>1. CASE v = w
    <3>1. /\ i \in Nat /\ k \in Nat
          /\ i + 1 \in DOMAIN items[w] /\ k + 1 \in DOMAIN items[w]
          /\ items[w][i + 1] = items[w][k + 1]
      BY <1>2, <1>3, <1>12, <2>1
    <3>2. i + 1 = k + 1
      BY <3>1 DEF ReservedOnce
    <3> QED
      BY <3>1, <3>2
  <2>2. CASE v # w
    BY <1>2, <1>12, <2>2 DEF ReservedOnce
  <2> QED
    BY <2>1, <2>2
<1> QED
  BY <1>10, <1>11, <1>12 DEF ReservedOnce

\* Every step keeps each reserved job in one place.
LEMMA ReservedStep ==
    ASSUME TimerTypeOK, Finite, ReservedOnce, [TimerNext]_allVars
    PROVE  ReservedOnce'
<1>1. ASSUME UNCHANGED <<timerVars, made>>
      PROVE  ReservedOnce'
  BY <1>1, ReservedQuiet DEF timerVars
<1>2. ASSUME NEW w \in Workers, NEW q \in Queues, NEW j \in Jobs, DoAsync(w, q, j)
      PROVE  ReservedOnce'
  <2>1. UNCHANGED timerVars /\ made' = made \cup {j} /\ \A x \in Reserved : x.job # j
    BY <1>2 DEF DoAsync, BeginPush
  <2> QED
    BY <2>1, ReservedQuiet DEF timerVars
<1>3. ASSUME NEW w \in Workers, ReadNow(w) \/ Enter(w) \/ Skip(w) \/ Leave(w)
      PROVE  ReservedOnce'
  BY <1>3, ReservedQuiet DEF ReadNow, Enter, Skip, Leave, EndTimer, vars
<1>4. ASSUME Tick
      PROVE  ReservedOnce'
  BY <1>4, ReservedQuiet DEF Tick, vars
<1>5. ASSUME NEW w \in Workers, NEW j \in Jobs, NEW d \in Delays, BeginReserve(w, j, d)
      PROVE  ReservedOnce'
  BY <1>5, ReservedBegins
<1>6. ASSUME NEW w \in Workers, EndReserve(w) \/ PopDue(w) \/ PushDue(w)
      PROVE  ReservedOnce'
  BY <1>6, ReservedEnds, ReservedPops, ReservedPushed
<1> QED
  BY <1>1, <1>2, <1>3, <1>4, <1>5, <1>6, OtherSteps
  DEF TimerNext, TimerWorkerStep, allVars, vars

-----------------------------------------------------------------------------
\* The order of the ticks.  The hard step is EndReserve: an item that is due by now but not
\* late is not before anything that a distributor has taken, for that looked at the clock
\* earlier.
LEMMA BehindStep ==
    ASSUME TimerTypeOK, Finite, Behind, [TimerNext]_allVars
    PROVE  Behind'
<1>0. /\ now \in Int /\ timers \subseteq Item
      /\ seen \in [Workers -> 0..MaxTick] /\ items \in [Workers -> Seq(Item)]
      /\ timerPc \in [Workers -> TimerPcs]
  BY DelaysAssumption DEF TimerTypeOK
<1>1. ASSUME UNCHANGED <<timers, timerPc, seen, items>>, now' \in Int, now <= now'
      PROVE  Behind'
  <2>1. \A w \in Workers : seen[w] <= now'
    BY <1>0, <1>1, DelaysAssumption DEF Behind
  <2> QED
    BY <1>1, <2>1 DEF Behind
<1>2. ASSUME NEW w \in Workers, ReadNow(w) \/ Enter(w) \/ Skip(w) \/ Leave(w)
      PROVE  Behind'
  <2>1. UNCHANGED <<now, timers, items>> /\ timerPc'[w] # "push" /\ items[w] = <<>>
    BY <1>0, <1>2 DEF ReadNow, Enter, Skip, Leave, Behind
  <2>2. \A v \in Workers \ {w} : timerPc'[v] = timerPc[v] /\ seen'[v] = seen[v]
    BY <1>0, <1>2 DEF ReadNow, Enter, Skip, Leave
  <2>3. seen'[w] <= now
    BY <1>0, <1>2, DelaysAssumption DEF ReadNow, Enter, Skip, Leave, Behind, TimerTypeOK
  <2> QED
    BY <2>1, <2>2, <2>3 DEF Behind
<1>3. ASSUME NEW w \in Workers, PopDue(w)
      PROVE  Behind'
  <2> DEFINE due == {x \in timers : x.at <= seen[w]}
  <2>1. PICK s \in [1..Cardinality(due) -> due] :
          /\ items' = [items EXCEPT ![w] = s]
          /\ \A i, k \in DOMAIN s : i < k => s[i].at <= s[k].at
    BY <1>3 DEF PopDue
  <2>2. timers' = timers \ due /\ UNCHANGED <<now, seen>>
        /\ timerPc' = [timerPc EXCEPT ![w] = "push"]
    BY <1>3 DEF PopDue
  <2>3. \A x \in timers' : x.at >= seen[w]
    <3> SUFFICES ASSUME NEW x \in timers, ~(x.at <= seen[w]) PROVE x.at >= seen[w]
      BY <2>2
    <3>1. x.at \in Int /\ seen[w] \in Int
      BY <1>0, DelaysAssumption DEF Item
    <3> QED
      BY <3>1
  <2>4. \A i \in DOMAIN s : s[i].at <= seen[w]
    BY <2>1
  <2>5. \A v \in Workers : v # w => items'[v] = items[v] /\ timerPc'[v] = timerPc[v]
    BY <1>0, <2>1, <2>2
  <2>6. items'[w] = s /\ timerPc'[w] = "push"
    BY <1>0, <2>1, <2>2
  <2> HIDE DEF due
  <2>7. timers' \subseteq timers
    BY <2>2
  <2> QED
    BY <2>1, <2>2, <2>3, <2>4, <2>5, <2>6, <2>7 DEF Behind
<1>4. ASSUME NEW w \in Workers, PushDue(w)
      PROVE  Behind'
  <2>1. UNCHANGED <<now, timers, timerPc, seen>> /\ timerPc[w] = "push" /\ items[w] # <<>>
        /\ items' = [items EXCEPT ![w] = Tail(items[w])]
    BY <1>4 DEF PushDue
  <2>2. items'[w] = Tail(items[w]) /\ \A v \in Workers \ {w} : items'[v] = items[v]
    BY <1>0, <2>1
  <2>3. \A i \in DOMAIN items'[w] :
          i \in Int /\ i + 1 \in DOMAIN items[w] /\ items'[w][i] = items[w][i + 1]
    <3>1. \A i \in DOMAIN Tail(items[w]) :
            i \in Int /\ i + 1 \in DOMAIN items[w] /\ Tail(items[w])[i] = items[w][i + 1]
      BY <2>1, TopItem
    <3> QED
      BY <2>2, <3>1
  <2>4. ASSUME NEW i \in DOMAIN items'[w], NEW k \in DOMAIN items'[w], i < k
        PROVE  items'[w][i].at <= items'[w][k].at
    <3>1. i + 1 < k + 1
      BY <2>3, <2>4
    <3> QED
      BY <2>3, <3>1 DEF Behind
  <2>5. \A i \in DOMAIN items'[w] : items'[w][i].at <= seen[w]
    BY <2>3 DEF Behind
  <2> QED
    BY <2>1, <2>2, <2>4, <2>5 DEF Behind
<1>5. ASSUME NEW w \in Workers, EndReserve(w)
      PROVE  Behind'
  <2>1. UNCHANGED <<now, timerPc, seen, items>>
    BY <1>5 DEF EndReserve
  <2>2. \A y \in timers' : y \in timers \/ \E x \in reserving[w] : y = [x EXCEPT !.late = now > x.at]
    BY <1>5 DEF EndReserve
  <2>3. ASSUME NEW v \in Workers, NEW y \in timers', timerPc[v] = "push"
        PROVE  y.late \/ y.at >= seen[v]
    <3>1. CASE y \in timers
      BY <2>3, <3>1 DEF Behind
    <3>2. ASSUME NEW x \in reserving[w], y = [x EXCEPT !.late = now > x.at]
          PROVE  y.late \/ y.at >= seen[v]
      <4>1. x \in Item
        BY DEF TimerTypeOK
      <4>2. y.at = x.at /\ y.late = (now > x.at) /\ x.at \in Int
        BY <3>2, <4>1 DEF Item
      <4>3. seen[v] <= now /\ seen[v] \in Int
        BY <1>0, DelaysAssumption DEF Behind
      <4>4. CASE now > x.at
        BY <4>2, <4>4, Zenon
      <4>5. CASE ~(now > x.at)
        <5>1. x.at >= seen[v]
          BY <1>0, <4>2, <4>3, <4>5
        <5> QED
          BY <4>2, <5>1
      <4> QED
        BY <4>4, <4>5
    <3> QED
      BY <2>2, <3>1, <3>2
  <2> QED
    BY <2>1, <2>3 DEF Behind
<1> QED
  <2>1. CASE UNCHANGED timerVars
    BY <1>0, <1>1, <2>1 DEF timerVars
  <2>2. CASE Tick
    BY <1>0, <1>1, <2>2 DEF Tick
  <2>3. ASSUME NEW w \in Workers, NEW j \in Jobs, NEW d \in Delays, BeginReserve(w, j, d)
        PROVE  Behind'
    BY <1>0, <1>1, <2>3 DEF BeginReserve
  <2> QED
    BY <1>2, <1>3, <1>4, <1>5, <2>1, <2>2, <2>3, OtherSteps
    DEF TimerNext, TimerWorkerStep, DoAsync, allVars

-----------------------------------------------------------------------------
\* Both inductive invariants hold in every reachable state, for any number of workers,
\* queues, jobs, delays and ticks.
THEOREM TimerInvariance == TimerSpec => [](IInv /\ TimerInv)
<1>1. TimerInit => IInv /\ TimerInv
  <2> SUFFICES ASSUME TimerInit PROVE IInv /\ TimerInv
    OBVIOUS
  <2>1. IInv
    BY InitInv DEF TimerInit
  <2>2. Finite
    BY FS_EmptySet DEF TimerInit, Finite
  <2>3. TimerTypeOK
    <3>1. <<>> \in Seq(Item) /\ 0 \in 0..MaxTick
      BY DelaysAssumption
    <3> QED
      BY <3>1 DEF TimerInit, TimerTypeOK, TimerPcs
  <2>4. OneDistributor
    BY DEF TimerInit, OneDistributor, Distributing
  <2>5. \A w \in Workers : DOMAIN items[w] = {} /\ items[w] = <<>>
    BY DEF TimerInit
  <2>6. Reserved = {} /\ \A w \in Workers : ItemsOf(w) = {}
    BY <2>5 DEF TimerInit, Reserved, Distributed, ItemsOf
  <2>7. ReservedOnce
    BY <2>5, <2>6 DEF TimerInit, ReservedOnce
  <2>8. Behind
    BY <2>5 DEF TimerInit, Behind
  <2> QED
    BY <2>1, <2>2, <2>3, <2>4, <2>7, <2>8 DEF TimerInv
<1>2. IInv /\ TimerInv /\ [TimerNext]_allVars => (IInv /\ TimerInv)'
  <2> SUFFICES ASSUME IInv, TimerInv, [TimerNext]_allVars PROVE IInv' /\ TimerInv'
    OBVIOUS
  <2>1. TimerTypeOK /\ Finite /\ OneDistributor /\ ReservedOnce /\ Behind
    BY DEF TimerInv
  <2>2. [Next]_vars
    BY <2>1, TimerStepsAreQueueSteps
  <2>3. IInv'
    BY <2>2, NextInv
  <2>4. TypeOK /\ Shape
    BY DEF IInv
  <2>5. TimerTypeOK' /\ Finite'
    BY <2>1, <2>4, TimerTypeStep
  <2>6. OneDistributor' /\ ReservedOnce' /\ Behind'
    BY <2>1, OneDistributorStep, ReservedStep, BehindStep
  <2> QED
    BY <2>3, <2>5, <2>6 DEF TimerInv
<1> QED
  BY <1>1, <1>2, PTL DEF TimerSpec

\* JobTimer composed with JobQueue is JobQueue: Reserve and Distribute do nothing to the job
\* system that DoAsync and the worker loop could not have done.
THEOREM TimerImplementsQueues == TimerSpec => Spec
<1>1. TimerInit => Init
  BY DEF TimerInit
<1>2. TimerInv /\ [TimerNext]_allVars => [Next]_vars
  BY TimerStepsAreQueueSteps DEF TimerInv
<1> QED
  BY <1>1, <1>2, TimerInvariance, PTL DEF TimerSpec, Spec

\* Queues stay serial actors when the timer posts to them too, from any thread and while
\* that thread may be running another queue inside Distribute.
THEOREM TimersAreSerial == TimerSpec => Serial!ASafeSpec
BY TimerImplementsQueues, QueuesAreSerial

\* Every variable of JobTimer keeps its type; no item is reserved for a null queue.
THEOREM TimerTypeCorrectness == TimerSpec => []TimerTypeOK
<1>1. TimerInv => TimerTypeOK
  BY DEF TimerInv
<1> QED
  BY <1>1, TimerInvariance, PTL

\* _distributing is set exactly while one thread is in Distribute, though that thread may
\* run whole queues meanwhile (JobTimer::Distribute, exchange and store).
THEOREM OneDistributes == TimerSpec => []OneDistributor
<1>1. TimerInv => OneDistributor
  BY DEF TimerInv
<1> QED
  BY <1>1, TimerInvariance, PTL

\* A reserved job is in one place until it is pushed, and in none after: it is pushed once.
THEOREM ReservedJobsArePushedOnce == TimerSpec => []ReservedOnce
<1>1. TimerInv => ReservedOnce
  BY DEF TimerInv
<1> QED
  BY <1>1, TimerInvariance, PTL

\* Reserved jobs are pushed in the order of their ticks, but for those that entered the heap
\* after their own tick.
THEOREM TicksComeInOrder == TimerSpec => []TickOrder
<1>1. TimerInv => TickOrder
  <2> SUFFICES ASSUME TimerInv, NEW w \in Workers, items[w] # <<>>,
                      NEW x \in timers \cup Distributed, x.at < Head(items[w]).at
               PROVE  x.late
    BY DEF TickOrder
  <2>1. TimerTypeOK /\ OneDistributor /\ Behind
    BY DEF TimerInv
  <2>2. /\ Head(items[w]) = items[w][1] /\ 1 \in DOMAIN items[w]
        /\ DOMAIN items[w] \subseteq Nat \ {0}
    BY <2>1, TopItem DEF TimerTypeOK
  <2>3. items[w][1].at \in Int /\ seen[w] \in Int /\ items[w][1].at <= seen[w]
    <3>1. items[w][1] \in Item
      BY <2>1, TopItem
    <3>2. items[w][1].at \in Int
      BY <3>1 DEF Item
    <3>3. seen[w] \in Int
      BY <2>1, DelaysAssumption DEF TimerTypeOK
    <3> QED
      BY <2>1, <2>2, <3>2, <3>3 DEF Behind
  <2>4. CASE x \in timers
    <3>1. x.at \in Int
      BY <2>1, <2>4 DEF TimerTypeOK, Item
    <3>2. x.late \/ x.at >= seen[w]
      BY <2>1, <2>4 DEF Behind
    <3> QED
      BY <2>2, <2>3, <3>1, <3>2
  <2>5. CASE x \in Distributed
    <3>1. PICK v \in Workers : \E i \in DOMAIN items[v] : x = items[v][i]
      BY <2>5 DEF Distributed, ItemsOf
    <3>2. items[v] # <<>>
      BY <3>1
    <3>3. v = w
      BY <2>1, <3>2 DEF Behind, OneDistributor, Distributing
    <3>4. PICK i \in DOMAIN items[w] : x = items[w][i]
      BY <3>1, <3>3
    <3>5. i = 1 \/ 1 < i
      BY <2>2, <3>4
    <3>6. items[w][i] \in Item
      BY <2>1 DEF TimerTypeOK
    <3>7. x.at \in Int /\ items[w][1].at <= x.at
      BY <2>1, <2>2, <2>3, <3>4, <3>5, <3>6 DEF Behind, Item
    <3> QED
      BY <2>2, <2>3, <3>7
  <2> QED
    BY <2>4, <2>5
<1> QED
  BY <1>1, TimerInvariance, PTL
=============================================================================
