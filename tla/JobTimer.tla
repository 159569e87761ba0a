------------------------------ MODULE JobTimer ------------------------------
(***************************************************************************)
(* JobTimer composed with JobQueue: a job run by a queue reserves another  *)
(* job of that queue for a later tick, and the workers, each once per      *)
(* round of DoWorkerJob, distribute the reserved jobs that are due.  A     *)
(* distributor pushes with LCurrentJobQueue == nullptr, so it may run a    *)
(* whole queue while it holds _distributing.                               *)
(***************************************************************************)
EXTENDS JobQueue

CONSTANTS
    Delays,     \* the tickAfter values of DoTimer
    MaxTick     \* bound: the last tick of a run

ASSUME DelaysAssumption == Delays \subseteq Nat /\ MaxTick \in Nat

VARIABLES
    now,            \* GetTickCount64()
    timers,         \* JobTimer::_items, a priority queue by executeTick
    distributing,   \* JobTimer::_distributing
    reserving,      \* per worker: the item of a Reserve before its WRITE_LOCK, {} or one
    timerPc,        \* per worker: where it is in Distribute
    seen,           \* per worker: the argument of Distribute
    items           \* per worker: Distribute's vector, what is left to push

timerVars == <<now, timers, distributing, reserving, timerPc, seen, items>>
allVars == <<vars, timerVars>>

\* late is a history bit: the item entered the heap after its own tick.
Item == [at : Nat, queue : Queues, job : Jobs, late : BOOLEAN]

TimerPcs == {"out", "exchange", "pop", "push"}

TimerInit ==
    /\ Init
    /\ now = 0
    /\ timers = {}
    /\ distributing = FALSE
    /\ reserving = [w \in Workers |-> {}]
    /\ timerPc = [w \in Workers |-> "out"]
    /\ seen = [w \in Workers |-> 0]
    /\ items = [w \in Workers |-> <<>>]

ItemsOf(w) == {items[w][i] : i \in DOMAIN items[w]}
Distributed == UNION {ItemsOf(w) : w \in Workers}
Reserved == timers \cup Distributed \cup UNION {reserving[w] : w \in Workers}

-----------------------------------------------------------------------------
(* JobTimer::Reserve, called by DoTimer from a job that is running *)

\* Mutant: the owner is taken from the Push in progress, of which there is none.
BeginReserve_Owner(w, j, d) ==
    /\ pc[w] = "run"
    /\ batch[w] # <<>>
    /\ reserving[w] = {}
    /\ j \notin made
    /\ \A x \in Reserved : x.job # j
    /\ now + d <= MaxTick
    /\ reserving' = [reserving EXCEPT ![w] =
            {[at |-> now + d, queue |-> target[w], job |-> j, late |-> FALSE]}]
    /\ UNCHANGED <<vars, now, timers, distributing, timerPc, seen, items>>

\* executeTick = GetTickCount64() + tickAfter, read before the lock is taken.
BeginReserve(w, j, d) ==
    /\ pc[w] = "run"
    /\ batch[w] # <<>>
    /\ reserving[w] = {}
    /\ j \notin made
    /\ \A x \in Reserved : x.job # j
    /\ now + d <= MaxTick
    /\ reserving' = [reserving EXCEPT ![w] =
            {[at |-> now + d, queue |-> current[w], job |-> j, late |-> FALSE]}]
    /\ UNCHANGED <<vars, now, timers, distributing, timerPc, seen, items>>

EndReserve(w) ==
    /\ reserving[w] # {}
    /\ timers' = timers \cup {[x EXCEPT !.late = now > x.at] : x \in reserving[w]}
    /\ reserving' = [reserving EXCEPT ![w] = {}]
    /\ UNCHANGED <<vars, now, distributing, timerPc, seen, items>>

-----------------------------------------------------------------------------
(* ThreadManager::DistributeReservedJobs and JobTimer::Distribute *)

ReadNow(w) ==
    /\ stage[w] = "timer"
    /\ timerPc[w] = "out"
    /\ seen' = [seen EXCEPT ![w] = now]
    /\ timerPc' = [timerPc EXCEPT ![w] = "exchange"]
    /\ UNCHANGED <<vars, now, timers, distributing, reserving, items>>

\* Mutant: an early return for an empty heap leaves _distributing set.
Enter_Locked(w) ==
    /\ timerPc[w] = "exchange"
    /\ ~distributing
    /\ distributing' = TRUE
    /\ IF timers = {}
       THEN /\ timerPc' = [timerPc EXCEPT ![w] = "out"]
            /\ seen' = [seen EXCEPT ![w] = 0]
            /\ EndTimer(w)
       ELSE /\ timerPc' = [timerPc EXCEPT ![w] = "pop"]
            /\ UNCHANGED <<vars, seen>>
    /\ UNCHANGED <<now, timers, reserving, items>>

\* _distributing.exchange(true) returned false.
Enter(w) ==
    /\ timerPc[w] = "exchange"
    /\ ~distributing
    /\ distributing' = TRUE
    /\ timerPc' = [timerPc EXCEPT ![w] = "pop"]
    /\ UNCHANGED <<vars, now, timers, reserving, seen, items>>

\* Mutant: a guard object clears _distributing on the early return too.
Skip_Clear(w) ==
    /\ timerPc[w] = "exchange"
    /\ distributing
    /\ distributing' = FALSE
    /\ timerPc' = [timerPc EXCEPT ![w] = "out"]
    /\ seen' = [seen EXCEPT ![w] = 0]
    /\ EndTimer(w)
    /\ UNCHANGED <<now, timers, reserving, items>>

\* It returned true: another worker distributes, this one goes on.
Skip(w) ==
    /\ timerPc[w] = "exchange"
    /\ distributing
    /\ timerPc' = [timerPc EXCEPT ![w] = "out"]
    /\ seen' = [seen EXCEPT ![w] = 0]
    /\ EndTimer(w)
    /\ UNCHANGED <<now, timers, distributing, reserving, items>>

\* Mutant: _items.pop() is missing.
PopDue_Keep(w) ==
    LET due == {x \in timers : x.at <= seen[w]}
        Orders == {s \in [1..Cardinality(due) -> due] :
                    \A i, k \in DOMAIN s : i < k => s[i] # s[k] /\ s[i].at <= s[k].at}
    IN  /\ timerPc[w] = "pop"
        /\ \E s \in Orders : items' = [items EXCEPT ![w] = s]
        /\ timerPc' = [timerPc EXCEPT ![w] = "push"]
        /\ UNCHANGED <<vars, now, timers, distributing, reserving, seen>>

\* Mutant: TimerItem's operator< is the other way round, the latest tick is on top.
PopDue_Reversed(w) ==
    LET due == {x \in timers : \A y \in timers : y.at >= x.at => y.at <= seen[w]}
        Orders == {s \in [1..Cardinality(due) -> due] :
                    \A i, k \in DOMAIN s : i < k => s[i] # s[k] /\ s[i].at >= s[k].at}
    IN  /\ timerPc[w] = "pop"
        /\ timers' = timers \ due
        /\ \E s \in Orders : items' = [items EXCEPT ![w] = s]
        /\ timerPc' = [timerPc EXCEPT ![w] = "push"]
        /\ UNCHANGED <<vars, now, distributing, reserving, seen>>

\* The due items leave the heap in the order of their ticks; equal ticks come out in
\* any order, a priority_queue is not stable.
PopDue(w) ==
    LET due == {x \in timers : x.at <= seen[w]}
        Orders == {s \in [1..Cardinality(due) -> due] :
                    \A i, k \in DOMAIN s : i < k => s[i] # s[k] /\ s[i].at <= s[k].at}
    IN  /\ timerPc[w] = "pop"
        /\ timers' = timers \ due
        /\ \E s \in Orders : items' = [items EXCEPT ![w] = s]
        /\ timerPc' = [timerPc EXCEPT ![w] = "push"]
        /\ UNCHANGED <<vars, now, distributing, reserving, seen>>

\* owner->Push(item.jobData->job); the owner is the Room, which is never destroyed.
PushDue(w) ==
    /\ timerPc[w] = "push"
    /\ pc[w] = "idle"
    /\ items[w] # <<>>
    /\ BeginPush(w, Head(items[w]).queue, Head(items[w]).job)
    /\ items' = [items EXCEPT ![w] = Tail(@)]
    /\ UNCHANGED <<now, timers, distributing, reserving, timerPc, seen>>

\* _distributing.store(false).
Leave(w) ==
    /\ timerPc[w] = "push"
    /\ pc[w] = "idle"
    /\ items[w] = <<>>
    /\ distributing' = FALSE
    /\ timerPc' = [timerPc EXCEPT ![w] = "out"]
    /\ seen' = [seen EXCEPT ![w] = 0]
    /\ EndTimer(w)
    /\ UNCHANGED <<now, timers, reserving, items>>

-----------------------------------------------------------------------------
Tick ==
    /\ now < MaxTick
    /\ now' = now + 1
    /\ UNCHANGED <<vars, timers, distributing, reserving, timerPc, seen, items>>

\* A DoAsync of main(), of a packet handler or of a running job.
DoAsync(w, q, j) ==
    /\ reserving[w] = {}
    /\ stage[w] = "timer" => pc[w] = "run"
    /\ \A x \in Reserved : x.job # j
    /\ BeginPush(w, q, j)
    /\ UNCHANGED timerVars

TimerWorkerStep(w) ==
    \/ reserving[w] = {} /\ (QueueStep(w) \/ EndNetwork(w)) /\ UNCHANGED timerVars
    \/ EndReserve(w)
    \/ ReadNow(w) \/ Enter(w) \/ Skip(w) \/ PopDue(w) \/ PushDue(w) \/ Leave(w)

TimerNext ==
    \/ LaunchWorkers /\ UNCHANGED timerVars
    \/ Tick
    \/ \E w \in Workers :
        \/ TimerWorkerStep(w)
        \/ \E j \in Jobs : \/ \E d \in Delays : BeginReserve(w, j, d)
                           \/ \E q \in Queues : DoAsync(w, q, j)

TimerSpec ==
    /\ TimerInit
    /\ [][TimerNext]_allVars
    /\ WF_allVars(LaunchWorkers /\ UNCHANGED timerVars)
    /\ WF_allVars(Tick)
    /\ \A w \in Workers : WF_allVars(TimerWorkerStep(w))

-----------------------------------------------------------------------------
TimerTypeOK ==
    /\ now \in 0..MaxTick
    /\ timers \subseteq Item
    /\ distributing \in BOOLEAN
    /\ reserving \in [Workers -> SUBSET Item]
    /\ timerPc \in [Workers -> TimerPcs]
    /\ seen \in [Workers -> 0..MaxTick]
    /\ items \in [Workers -> Seq(Item)]

Distributing(w) == timerPc[w] \in {"pop", "push"}

\* _distributing lets one thread through at a time, and is never left set by a thread
\* that went away: set exactly while somebody distributes, its own Execute included.
OneDistributor ==
    /\ distributing <=> \E w \in Workers : Distributing(w)
    /\ \A v, w \in Workers : Distributing(v) /\ Distributing(w) => v = w

\* A reserved job is in one place: in Reserve, in the heap, or once in the vector of one
\* distributor, and once pushed in none of them, so it is pushed once.
ReservedOnce ==
    /\ \A x, y \in Reserved : x.job = y.job => x = y
    /\ \A x \in Reserved : x.job \notin made
    /\ \A v, w \in Workers :
        /\ timers \cap (reserving[w] \cup ItemsOf(w)) = {}
        /\ reserving[v] \cap ItemsOf(w) = {}
        /\ v # w => /\ reserving[v] \cap reserving[w] = {}
                    /\ ItemsOf(v) \cap ItemsOf(w) = {}
    /\ \A w \in Workers : \A i, k \in DOMAIN items[w] : items[w][i] = items[w][k] => i = k

\* Reserved jobs are pushed in the order of their ticks: the next one to be pushed is
\* overtaking nothing, but an item that entered the heap after its own tick (Reserve
\* reads the clock before it takes the lock).
TickOrder ==
    \A w \in Workers : items[w] # <<>> =>
        \A x \in timers \cup Distributed : x.at < Head(items[w]).at => x.late

\* What TickOrder rests on: a vector is sorted and due, only its distributor has one, and
\* what is left in the heap meanwhile is not yet due then, or entered it late.
Behind ==
    \A w \in Workers :
        /\ seen[w] <= now
        /\ items[w] # <<>> => timerPc[w] = "push"
        /\ \A i \in DOMAIN items[w] : items[w][i].at <= seen[w]
        /\ \A i, k \in DOMAIN items[w] : i < k => items[w][i].at <= items[w][k].at
        /\ timerPc[w] = "push" => \A x \in timers : x.late \/ x.at >= seen[w]

\* The inductive invariant of the proofs, beside JobQueue's.
Finite ==
    /\ IsFiniteSet(timers)
    /\ \A w \in Workers : reserving[w] # {} => \E x \in reserving[w] : reserving[w] = {x}
TimerInv == TimerTypeOK /\ Finite /\ OneDistributor /\ ReservedOnce /\ Behind

\* A worker that runs a queue on behalf of the timer keeps every other worker out of
\* Distribute; still, every reserved job is run at last.
EveryTimerFires ==
    \A j \in Jobs : (\E x \in Reserved : x.job = j) ~> j \in done
=============================================================================
