--------------------------- MODULE JobQueueProofs ---------------------------
(***************************************************************************)
(* Proofs about JobQueue for any number of workers, queues and jobs.  The  *)
(* invariant IInv says how the counter, the queue and the holders of every *)
(* JobQueue belong together; one lemma per action shows that it is kept.   *)
(***************************************************************************)
EXTENDS JobQueue, FiniteSetTheorems, TLAPS

\* Every action keeps every variable in its type.
LEMMA TypeStep ==
    ASSUME TypeOK, Shape, [Next]_vars
    PROVE  TypeOK'
<1> USE MainAssumption, NullAssumption DEF TypeOK, queueVars, pushVars, execVars
<1>1. CASE UNCHANGED vars
  BY <1>1 DEF vars
<1>2. CASE LaunchWorkers
  BY <1>2 DEF LaunchWorkers, Stages, Clocks
<1>3. ASSUME NEW w \in Workers, NEW q \in Queues, NEW j \in Jobs, BeginPush(w, q, j)
      PROVE  TypeOK'
  BY <1>3 DEF BeginPush, PcValues
<1>4. ASSUME NEW w \in Workers, Enqueue(w)
      PROVE  TypeOK'
  <2>1. target[w] \in Queues /\ job[w] \in Jobs
    BY <1>4 DEF Enqueue, Shape
  <2>2. Later(clock[w]) \subseteq Clocks
    BY DEF Later, Clocks
  <2>3. jobs' \in [Queues -> Seq(Jobs)]
    BY <1>4, <2>1 DEF Enqueue
  <2>4. clock' \in [Workers -> Clocks]
    BY <1>4, <2>2 DEF Enqueue
  <2>5. pc' \in [Workers -> PcValues]
    BY <1>4 DEF Enqueue, PcValues, Resumed
  <2> QED
    BY <1>4, <2>1, <2>3, <2>4, <2>5 DEF Enqueue
<1>5. ASSUME NEW w \in Workers, Publish(w)
      PROVE  TypeOK'
  <2>1. target[w] \in Queues
    BY <1>5 DEF Publish, Shape
  <2> QED
    BY <1>5, <2>1 DEF Publish, PcValues, Resumed
<1>6. ASSUME NEW w \in Workers, PopAll(w)
      PROVE  TypeOK'
  <2>1. current[w] \in Queues
    BY <1>6 DEF PopAll, Shape
  <2> QED
    BY <1>6, <2>1 DEF PopAll, PcValues
<1>7. ASSUME NEW w \in Workers, RunJob(w)
      PROVE  TypeOK'
  <2>1. Later(clock[w]) \subseteq Clocks
    BY DEF Later, Clocks
  <2>2. clock' \in [Workers -> Clocks]
    BY <1>7, <2>1 DEF RunJob
  <2> QED
    BY <1>7, <2>2 DEF RunJob
<1>8. ASSUME NEW w \in Workers, Subtract(w)
      PROVE  TypeOK'
  <2>1. current[w] \in Queues
    BY <1>8 DEF Subtract, Shape
  <2>2. jobCount' \in [Queues -> Int]
    BY <1>8, <2>1 DEF Subtract
  <2>3. current' \in [Workers -> Queues \cup {NoQueue}]
    BY <1>8, <2>1 DEF Subtract
  <2>4. pc' \in [Workers -> PcValues]
    BY <1>8 DEF Subtract, PcValues
  <2> QED
    BY <1>8, <2>2, <2>3, <2>4 DEF Subtract
<1>9. ASSUME NEW w \in Workers, ReadClock(w)
      PROVE  TypeOK'
  <2>1. Later(clock[w]) \subseteq Clocks
    BY DEF Later, Clocks
  <2> QED
    BY <1>9, <2>1 DEF ReadClock, PcValues
<1>10. ASSUME NEW w \in Workers, EndNetwork(w) \/ EndTimer(w) \/ EndRound(w)
       PROVE  TypeOK'
  BY <1>10 DEF EndNetwork, EndTimer, EndRound, Stages, Clocks
<1>11. ASSUME NEW w \in Workers, GlobalPop(w)
       PROVE  TypeOK'
  BY <1>11 DEF GlobalPop, PcValues
<1> QED
  BY <1>1, <1>2, <1>3, <1>4, <1>5, <1>6, <1>7, <1>8, <1>9, <1>10, <1>11
  DEF Next, WorkerStep, QueueStep

\* The part of the state that Shape, SingleHolder, HeldIffCounted and CountExact read.
heldVars == <<jobCount, jobs, global, pc, target, job, first, current, batchSize>>

\* Steps that touch none of it keep all four.
LEMMA QuietStep ==
    ASSUME IInv, UNCHANGED heldVars
    PROVE  (Shape /\ SingleHolder /\ HeldIffCounted /\ CountExact)'
BY DEF IInv, heldVars, Shape, SingleHolder, HeldIffCounted, CountExact, Held,
       Executes, Takes, Waits, InFlight, Queued

-----------------------------------------------------------------------------
\* The pushers of a queue can be counted.
LEMMA InFlightCount ==
    \A q \in Queues : IsFiniteSet(InFlight(q)) /\ Cardinality(InFlight(q)) \in Nat
<1> SUFFICES ASSUME NEW q \in Queues
             PROVE  IsFiniteSet(InFlight(q)) /\ Cardinality(InFlight(q)) \in Nat
  OBVIOUS
<1>1. InFlight(q) \in SUBSET Workers
  BY DEF InFlight
<1>2. IsFiniteSet(InFlight(q))
  BY <1>1, FS_Subset, WorkersAssumption
<1> QED
  BY <1>2, FS_CardinalityType

\* What is queued is a number, and not zero while there is a job in _jobs.
LEMMA QueuedNat ==
    ASSUME TypeOK, NEW q \in Queues
    PROVE  /\ Queued(q) \in Nat
           /\ jobs[q] # <<>> => Queued(q) # 0
<1>1. Len(jobs[q]) \in Nat /\ (jobs[q] # <<>> => Len(jobs[q]) # 0)
  BY DEF TypeOK
<1>2. Cardinality(InFlight(q)) \in Nat
  BY InFlightCount
<1> QED
  BY <1>1, <1>2 DEF Queued

\* The counter is never negative, and not zero while there is a job in the queue.
LEMMA CountPositive ==
    ASSUME IInv, NEW q \in Queues
    PROVE  jobCount[q] \in Nat /\ (jobs[q] # <<>> => jobCount[q] # 0)
<1>1. Queued(q) \in Nat /\ (jobs[q] # <<>> => Queued(q) # 0)
  BY QueuedNat DEF IInv
<1>2. CASE \E w \in Workers : Executes(w, q)
  <2>1. PICK w \in Workers : Executes(w, q)
    BY <1>2
  <2>2. jobCount[q] = Queued(q) + batchSize[w]
    BY <2>1 DEF IInv, CountExact
  <2>3. batchSize[w] \in Nat
    BY DEF IInv, TypeOK
  <2> QED
    BY <1>1, <2>2, <2>3
<1>3. CASE \A w \in Workers : ~Executes(w, q)
  <2>1. jobCount[q] = Queued(q)
    BY <1>3 DEF IInv, CountExact
  <2> QED
    BY <1>1, <2>1
<1> QED
  BY <1>2, <1>3

-----------------------------------------------------------------------------
\* fetch_add: the thread that counts from zero takes a queue nobody held.
LEMMA BeginPushStep ==
    ASSUME IInv, NEW w \in Workers, NEW q \in Queues, NEW j \in Jobs, BeginPush(w, q, j)
    PROVE  (Shape /\ SingleHolder /\ HeldIffCounted /\ CountExact)'
<1>0. /\ jobCount \in [Queues -> Int] /\ pc \in [Workers -> PcValues]
      /\ target \in [Workers -> Queues \cup {NoQueue}]
      /\ job \in [Workers -> Jobs \cup {NoJob}]
      /\ first \in [Workers -> BOOLEAN]
      /\ batchSize \in [Workers -> Nat] /\ jobs \in [Queues -> Seq(Jobs)]
  BY DEF IInv, TypeOK
<1>1. pc[w] \in {"idle", "run"} /\ pc'[w] = "enqueue" /\ target'[w] = q /\ job'[w] = j
      /\ (first'[w] <=> jobCount[q] = 0)
  BY <1>0 DEF BeginPush, MayPush
<1>2. \A v \in Workers \ {w} : pc'[v] = pc[v] /\ target'[v] = target[v]
                               /\ first'[v] = first[v] /\ job'[v] = job[v]
  BY <1>0 DEF BeginPush
<1>3. UNCHANGED <<jobs, global, current, batchSize>>
  BY DEF BeginPush, execVars
<1>4. Shape'
  BY <1>1, <1>2, <1>3 DEF Shape, IInv
<1>5. \A v \in Workers, r \in Queues :
        /\ Executes(v, r)' <=> Executes(v, r)
        /\ Takes(v, r)' <=> Takes(v, r) \/ (v = w /\ r = q /\ jobCount[q] = 0)
  BY <1>1, <1>2, <1>3 DEF Executes, Takes
<1>6. \A i, r : Waits(i, r)' <=> Waits(i, r)
  BY <1>3 DEF Waits
<1>7. jobCount[q] = 0 => ~Held(q)
  BY DEF IInv, HeldIffCounted
<1>8. SingleHolder'
  <2>1. SingleHolder
    BY DEF IInv
  <2>2. CASE jobCount[q] = 0
    BY <1>3, <1>5, <1>6, <1>7, <2>1, <2>2 DEF SingleHolder, Held, Waits
  <2>3. CASE jobCount[q] # 0
    BY <1>3, <1>5, <1>6, <2>1, <2>3 DEF SingleHolder
  <2> QED
    BY <2>2, <2>3
<1>9. HeldIffCounted'
  <2> SUFFICES ASSUME NEW r \in Queues
               PROVE  jobCount'[r] # 0 <=> Held(r)'
    BY DEF HeldIffCounted
  <2>1. jobCount[r] # 0 <=> Held(r)
    BY DEF IInv, HeldIffCounted
  <2>2. CASE r = q
    <3>1. jobCount'[q] # 0
      BY <1>0, CountPositive DEF BeginPush
    <3>2. Held(q)'
      BY <1>3, <1>5, <1>6, <2>1, <2>2 DEF Held
    <3> QED
      BY <2>2, <3>1, <3>2
  <2>3. CASE r # q
    <3>1. jobCount'[r] = jobCount[r]
      BY <1>0, <2>3 DEF BeginPush
    <3>2. Held(r)' <=> Held(r)
      BY <1>3, <1>5, <1>6, <2>3 DEF Held
    <3> QED
      BY <2>1, <3>1, <3>2
  <2> QED
    BY <2>2, <2>3
<1>10. CountExact'
  <2> SUFFICES ASSUME NEW r \in Queues
               PROVE  /\ \A v \in Workers :
                            Executes(v, r)' => jobCount'[r] = Queued(r)' + batchSize'[v]
                      /\ (\A v \in Workers : ~Executes(v, r)') => jobCount'[r] = Queued(r)'
    BY DEF CountExact
  <2>1. Queued(q)' = Queued(q) + 1
    <3>1. InFlight(q)' = InFlight(q) \cup {w} /\ w \notin InFlight(q)
      BY <1>1, <1>2 DEF InFlight
    <3>2. Cardinality(InFlight(q)') = Cardinality(InFlight(q)) + 1
      BY <3>1, FS_AddElement, InFlightCount
    <3>3. Len(jobs'[q]) = Len(jobs[q]) /\ Len(jobs[q]) \in Nat
      BY <1>0, <1>3
    <3>4. Cardinality(InFlight(q)) \in Nat
      BY InFlightCount
    <3> QED
      BY <3>2, <3>3, <3>4 DEF Queued
  <2>2. CASE r = q
    <3>1. jobCount'[q] = jobCount[q] + 1
      BY <1>0 DEF BeginPush
    <3>2. Queued(q) \in Nat /\ jobCount[q] \in Int
      BY <1>0, QueuedNat DEF IInv
    <3>3. \A v \in Workers : batchSize'[v] = batchSize[v] /\ batchSize[v] \in Nat
      BY <1>0, <1>3
    <3>4. /\ \A v \in Workers : Executes(v, q) => jobCount[q] = Queued(q) + batchSize[v]
          /\ (\A v \in Workers : ~Executes(v, q)) => jobCount[q] = Queued(q)
      BY DEF IInv, CountExact
    <3> QED
      BY <1>5, <2>1, <2>2, <3>1, <3>2, <3>3, <3>4
  <2>3. CASE r # q
    <3>1. Queued(r)' = Queued(r)
      BY <1>1, <1>2, <1>3, <2>3 DEF InFlight, Queued
    <3>2. jobCount'[r] = jobCount[r]
      BY <1>0, <2>3 DEF BeginPush
    <3> QED
      BY <1>3, <1>5, <3>1, <3>2 DEF IInv, CountExact
  <2> QED
    BY <2>2, <2>3
<1> QED
  BY <1>4, <1>8, <1>9, <1>10

\* _jobs.Push: the job moves from its pusher to the queue, so what is queued stays the
\* same; the pusher that took the queue executes it now or goes on to publish it.
LEMMA EnqueueStep ==
    ASSUME IInv, NEW w \in Workers, Enqueue(w)
    PROVE  (Shape /\ SingleHolder /\ HeldIffCounted /\ CountExact)'
<1>0. /\ jobCount \in [Queues -> Int] /\ pc \in [Workers -> PcValues]
      /\ target \in [Workers -> Queues \cup {NoQueue}]
      /\ job \in [Workers -> Jobs \cup {NoJob}]
      /\ first \in [Workers -> BOOLEAN]
      /\ current \in [Workers -> Queues \cup {NoQueue}]
      /\ batchSize \in [Workers -> Nat] /\ jobs \in [Queues -> Seq(Jobs)]
  BY DEF IInv, TypeOK
<1>q. PICK q \in Queues : q = target[w]
  BY DEF Enqueue, IInv, Shape
<1>1. pc[w] = "enqueue" /\ target[w] = q /\ job[w] \in Jobs
  BY <1>q DEF Enqueue, IInv, Shape
<1>2. \A v \in Workers \ {w} : /\ pc'[v] = pc[v] /\ target'[v] = target[v]
                               /\ first'[v] = first[v] /\ job'[v] = job[v]
                               /\ current'[v] = current[v]
  BY <1>0 DEF Enqueue
<1>3. UNCHANGED <<jobCount, global, batchSize>>
  BY DEF Enqueue
<1>4. \A r \in Queues : Queued(r)' = Queued(r)
  <2> SUFFICES ASSUME NEW r \in Queues PROVE Queued(r)' = Queued(r)
    OBVIOUS
  <2>1. pc'[w] # "enqueue"
    BY <1>0, <1>1 DEF Enqueue, Resumed
  <2>2. CASE r = q
    <3>1. InFlight(q)' = InFlight(q) \ {w} /\ w \in InFlight(q)
      BY <1>1, <1>2, <2>1 DEF InFlight
    <3>2. Cardinality(InFlight(q)') = Cardinality(InFlight(q)) - 1
      BY <1>1, <3>1, FS_RemoveElement, InFlightCount
    <3>3. Len(jobs'[q]) = Len(jobs[q]) + 1 /\ Len(jobs[q]) \in Nat
      BY <1>0, <1>1 DEF Enqueue
    <3>4. Cardinality(InFlight(q)) \in Nat
      BY <1>1, InFlightCount
    <3> QED
      BY <2>2, <3>2, <3>3, <3>4 DEF Queued
  <2>3. CASE r # q
    <3>1. InFlight(r)' = InFlight(r)
      BY <1>1, <1>2, <2>1, <2>3 DEF InFlight
    <3>2. jobs'[r] = jobs[r]
      BY <1>0, <1>1, <2>3 DEF Enqueue
    <3> QED
      BY <3>1, <3>2 DEF Queued
  <2> QED
    BY <2>2, <2>3
<1>5. \A i, r : Waits(i, r)' <=> Waits(i, r)
  BY <1>3 DEF Waits
<1>6. CASE first[w] /\ current[w] = NoQueue
  <2>1. pc'[w] = "popall" /\ target'[w] = NoQueue /\ current'[w] = q
    BY <1>0, <1>1, <1>6 DEF Enqueue
  <2>2. batchSize[w] = 0
    BY <1>6 DEF IInv, Shape
  <2>3. Shape'
    BY <1>1, <1>2, <1>3, <2>1, <2>2 DEF Shape, IInv
  <2>4. Takes(w, q)
    BY <1>1, <1>6 DEF Takes
  <2>5. \A v \in Workers, r \in Queues :
          /\ Executes(v, r)' <=> Executes(v, r) \/ (v = w /\ r = q)
          /\ Takes(v, r)' <=> Takes(v, r) /\ ~(v = w)
    BY <1>1, <1>2, <1>6, <2>1, NullAssumption DEF Executes, Takes
  <2>6. \A r \in Queues : ~Executes(w, r)
    BY <1>6, NullAssumption DEF Executes
  <2>7. \A r \in Queues : Takes(w, r) => r = q
    BY <1>1 DEF Takes
  <2>8. \A v \in Workers : ~Executes(v, q)
    BY <1>1, <2>4 DEF IInv, SingleHolder
  <2>9. SingleHolder'
    BY <1>1, <1>3, <1>5, <2>4, <2>5, <2>6 DEF IInv, SingleHolder
  <2>10. HeldIffCounted'
    <3>1. \A r \in Queues : Held(r)' <=> Held(r)
      BY <1>3, <1>5, <2>4, <2>5, <2>7 DEF Held
    <3> QED
      BY <1>3, <3>1 DEF IInv, HeldIffCounted
  <2>11. CountExact'
    <3> SUFFICES ASSUME NEW r \in Queues
                 PROVE  /\ \A v \in Workers :
                              Executes(v, r)' => jobCount'[r] = Queued(r)' + batchSize'[v]
                        /\ (\A v \in Workers : ~Executes(v, r)') => jobCount'[r] = Queued(r)'
      BY DEF CountExact
    <3>1. CASE r = q
      <4>1. jobCount[q] = Queued(q) /\ Queued(q) \in Nat
        BY <1>1, <2>8, QueuedNat DEF IInv, CountExact
      <4> QED
        BY <1>3, <1>4, <2>2, <2>5, <2>8, <3>1, <4>1
    <3>2. CASE r # q
      BY <1>3, <1>4, <2>5, <3>2 DEF IInv, CountExact
    <3> QED
      BY <3>1, <3>2
  <2> QED
    BY <2>3, <2>9, <2>10, <2>11
<1>7. CASE ~(first[w] /\ current[w] = NoQueue)
  <2>1. /\ current'[w] = current[w] /\ ~first'[w]
        /\ first[w] => pc'[w] = "publish" /\ target'[w] = q
        /\ ~first[w] => pc'[w] = Resumed(w)
    BY <1>0, <1>1, <1>7 DEF Enqueue
  <2>2. Shape'
    BY <1>0, <1>1, <1>2, <1>3, <1>7, <2>1 DEF Shape, IInv, Resumed
  <2>3. \A v \in Workers, r \in Queues :
          /\ Executes(v, r)' <=> Executes(v, r)
          /\ Takes(v, r)' <=> Takes(v, r)
    BY <1>1, <1>2, <2>1 DEF Executes, Takes, Resumed
  <2>4. SingleHolder'
    BY <1>3, <1>5, <2>3 DEF IInv, SingleHolder
  <2>5. HeldIffCounted'
    BY <1>3, <1>5, <2>3 DEF IInv, HeldIffCounted, Held
  <2>6. CountExact'
    BY <1>3, <1>4, <2>3 DEF IInv, CountExact
  <2> QED
    BY <2>2, <2>4, <2>5, <2>6
<1> QED
  BY <1>6, <1>7

\* GGlobalQueue->Push: the queue passes from the worker to the end of the global queue.
LEMMA PublishStep ==
    ASSUME IInv, NEW w \in Workers, Publish(w)
    PROVE  (Shape /\ SingleHolder /\ HeldIffCounted /\ CountExact)'
<1>0. /\ pc \in [Workers -> PcValues] /\ global \in Seq(Queues)
      /\ target \in [Workers -> Queues \cup {NoQueue}]
      /\ current \in [Workers -> Queues \cup {NoQueue}]
  BY DEF IInv, TypeOK
<1>q. PICK q \in Queues : q = target[w]
  BY DEF Publish, IInv, Shape
<1>n. PICK n \in Nat : n = Len(global) + 1
  BY <1>0
<1>1. pc[w] = "publish" /\ target[w] = q /\ pc'[w] = Resumed(w) /\ target'[w] = NoQueue
  BY <1>0, <1>q DEF Publish, IInv, Shape
<1>2. \A v \in Workers \ {w} : pc'[v] = pc[v] /\ target'[v] = target[v]
  BY <1>0 DEF Publish
<1>3. UNCHANGED <<jobCount, jobs, job, first, current, batchSize>>
  BY DEF Publish, execVars
<1>4. Shape'
  BY <1>0, <1>1, <1>2, <1>3 DEF Shape, IInv, Resumed
<1>5. Takes(w, q)
  BY <1>1 DEF Takes
<1>6. \A v \in Workers, r \in Queues :
        /\ Executes(v, r)' <=> Executes(v, r)
        /\ Takes(v, r)' <=> Takes(v, r) /\ ~(v = w)
  BY <1>1, <1>2, <1>3, NullAssumption DEF Executes, Takes
<1>7. /\ \A i, r : Waits(i, r)' <=> Waits(i, r) \/ (i = n /\ r = q)
      /\ \A i \in DOMAIN global' : i \in DOMAIN global \/ i = n
      /\ n \in DOMAIN global' /\ \A i \in DOMAIN global : i \in DOMAIN global' /\ i # n
  <2>1. global' = Append(global, q)
    BY <1>1 DEF Publish
  <2>2. DOMAIN global' = 1..n /\ DOMAIN global = 1..Len(global) /\ Len(global) \in Nat
    BY <1>0, <1>n, <2>1
  <2>3. global'[n] = q /\ \A i \in DOMAIN global : global'[i] = global[i]
    BY <1>0, <1>n, <2>1
  <2> QED
    BY <1>n, <2>2, <2>3 DEF Waits
<1>8. SingleHolder'
  <2>1. SingleHolder
    BY DEF IInv
  <2>2. \A v \in Workers : ~Executes(v, q) /\ (Takes(v, q) => v = w)
    BY <1>1, <1>5, <2>1 DEF SingleHolder
  <2>3. \A i : ~Waits(i, q)
    BY <1>1, <1>5, <2>1 DEF SingleHolder, Waits
  <2> SUFFICES ASSUME NEW r \in Queues
               PROVE  /\ \A u, v \in Workers :
                            /\ Executes(u, r)' /\ Executes(v, r)' => u = v
                            /\ Takes(u, r)' /\ Takes(v, r)' => u = v
                            /\ ~(Executes(u, r)' /\ Takes(v, r)')
                      /\ \A i, k \in DOMAIN global' : Waits(i, r)' /\ Waits(k, r)' => i = k
                      /\ \A v \in Workers : \A i \in DOMAIN global' :
                            ~(Waits(i, r)' /\ (Executes(v, r)' \/ Takes(v, r)'))
    BY DEF SingleHolder
  <2>4. CASE r = q
    BY <1>6, <1>7, <2>2, <2>3, <2>4
  <2>5. CASE r # q
    BY <1>6, <1>7, <2>1, <2>5 DEF SingleHolder, Waits
  <2> QED
    BY <2>4, <2>5
<1>9. HeldIffCounted'
  <2>1. \A r \in Queues : Takes(w, r) => r = q
    BY <1>1 DEF Takes
  <2>2. \A r \in Queues : Held(r)' <=> Held(r)
    <3> SUFFICES ASSUME NEW r \in Queues PROVE Held(r)' <=> Held(r)
      OBVIOUS
    <3>1. CASE r = q
      BY <1>5, <1>7, <3>1 DEF Held
    <3>2. CASE r # q
      BY <1>6, <1>7, <2>1, <3>2 DEF Held, Waits
    <3> QED
      BY <3>1, <3>2
  <2> QED
    BY <1>3, <2>2 DEF IInv, HeldIffCounted
<1>10. CountExact'
  <2>1. \A r \in Queues : Queued(r)' = Queued(r)
    BY <1>1, <1>2, <1>3 DEF Queued, InFlight, Resumed
  <2> QED
    BY <1>3, <1>6, <2>1 DEF IInv, CountExact
<1> QED
  BY <1>4, <1>8, <1>9, <1>10

\* PopAll: the jobs of the queue become the batch of the worker that executes it.
LEMMA PopAllStep ==
    ASSUME IInv, NEW w \in Workers, PopAll(w)
    PROVE  (Shape /\ SingleHolder /\ HeldIffCounted /\ CountExact)'
<1>0. /\ pc \in [Workers -> PcValues] /\ jobs \in [Queues -> Seq(Jobs)]
      /\ batchSize \in [Workers -> Nat]
  BY DEF IInv, TypeOK
<1>q. PICK q \in Queues : q = current[w]
  BY DEF PopAll, IInv, Shape
<1>1. pc[w] = "popall" /\ current[w] = q /\ pc'[w] = "run" /\ batchSize[w] = 0
      /\ batchSize'[w] = Len(jobs[q]) /\ jobs'[q] = <<>>
  BY <1>0, <1>q DEF PopAll, IInv, Shape
<1>2. /\ \A v \in Workers \ {w} : pc'[v] = pc[v] /\ batchSize'[v] = batchSize[v]
      /\ \A r \in Queues \ {q} : jobs'[r] = jobs[r]
  BY <1>0, <1>1 DEF PopAll
<1>3. UNCHANGED <<jobCount, global, target, job, first, current>>
  BY DEF PopAll, pushVars
<1>4. Shape'
  BY <1>1, <1>2, <1>3, NullAssumption DEF Shape, IInv
<1>5. \A v \in Workers, r \in Queues :
        /\ Executes(v, r)' <=> Executes(v, r)
        /\ Takes(v, r)' <=> Takes(v, r)
  BY <1>1, <1>2, <1>3 DEF Executes, Takes
<1>6. \A i, r : Waits(i, r)' <=> Waits(i, r)
  BY <1>3 DEF Waits
<1>7. SingleHolder'
  BY <1>3, <1>5, <1>6 DEF IInv, SingleHolder
<1>8. HeldIffCounted'
  BY <1>3, <1>5, <1>6 DEF IInv, HeldIffCounted, Held
<1>9. CountExact'
  <2> SUFFICES ASSUME NEW r \in Queues
               PROVE  /\ \A v \in Workers :
                            Executes(v, r)' => jobCount'[r] = Queued(r)' + batchSize'[v]
                      /\ (\A v \in Workers : ~Executes(v, r)') => jobCount'[r] = Queued(r)'
    BY DEF CountExact
  <2>1. InFlight(r)' = InFlight(r)
    BY <1>1, <1>2, <1>3 DEF InFlight
  <2>2. CASE r = q
    <3>1. Executes(w, q) /\ \A v \in Workers : Executes(v, q) => v = w
      BY <1>1 DEF IInv, SingleHolder, Executes
    <3>2. jobCount[q] = Queued(q) + batchSize[w]
      BY <1>1, <3>1 DEF IInv, CountExact
    <3>3. Cardinality(InFlight(q)) \in Nat /\ Len(jobs[q]) \in Nat /\ Len(jobs'[q]) = 0
      BY <1>0, <1>1, InFlightCount
    <3>4. jobCount[q] = Queued(q)' + batchSize'[w]
      BY <1>1, <2>1, <2>2, <3>2, <3>3 DEF Queued
    <3> QED
      BY <1>3, <1>5, <2>2, <3>1, <3>4
  <2>3. CASE r # q
    <3>1. Queued(r)' = Queued(r)
      BY <1>2, <2>1, <2>3 DEF Queued
    <3>2. ~Executes(w, r)
      BY <1>1, <2>3 DEF Executes
    <3> QED
      BY <1>2, <1>3, <1>5, <3>1, <3>2 DEF IInv, CountExact
  <2> QED
    BY <2>2, <2>3
<1> QED
  BY <1>4, <1>7, <1>8, <1>9

\* fetch_sub: when the batch was all that was counted, nothing is queued and the queue
\* is let go; otherwise something is queued and the worker keeps it.
LEMMA SubtractStep ==
    ASSUME IInv, NEW w \in Workers, Subtract(w)
    PROVE  (Shape /\ SingleHolder /\ HeldIffCounted /\ CountExact)'
<1>0. /\ jobCount \in [Queues -> Int] /\ pc \in [Workers -> PcValues]
      /\ current \in [Workers -> Queues \cup {NoQueue}]
      /\ batchSize \in [Workers -> Nat] /\ jobs \in [Queues -> Seq(Jobs)]
  BY DEF IInv, TypeOK
<1>q. PICK q \in Queues : q = current[w]
  BY DEF Subtract, IInv, Shape
<1>1. pc[w] = "run" /\ current[w] = q /\ batchSize'[w] = 0
      /\ jobCount'[q] = jobCount[q] - batchSize[w]
  BY <1>0, <1>q DEF Subtract
<1>2. /\ \A v \in Workers \ {w} : /\ pc'[v] = pc[v] /\ batchSize'[v] = batchSize[v]
                                  /\ current'[v] = current[v]
      /\ \A r \in Queues \ {q} : jobCount'[r] = jobCount[r]
  BY <1>0, <1>1 DEF Subtract
<1>3. UNCHANGED <<jobs, global, target, job, first>>
  BY DEF Subtract, pushVars
<1>4. Executes(w, q) /\ \A v \in Workers : Executes(v, q) => v = w
  BY <1>1 DEF IInv, SingleHolder, Executes
<1>5. jobCount'[q] = Queued(q) /\ Queued(q) \in Nat
  <2>1. jobCount[q] = Queued(q) + batchSize[w]
    BY <1>1, <1>4 DEF IInv, CountExact
  <2>2. Queued(q) \in Nat /\ batchSize[w] \in Nat
    BY <1>0, QueuedNat DEF IInv
  <2> QED
    BY <1>1, <2>1, <2>2
<1>6. \A i, r : Waits(i, r)' <=> Waits(i, r)
  BY <1>3 DEF Waits
<1>7. pc'[w] # "enqueue" /\ pc'[w] # "publish"
  BY <1>0 DEF Subtract
<1>8. \A r \in Queues : Queued(r)' = Queued(r)
  BY <1>1, <1>2, <1>3, <1>7 DEF Queued, InFlight
<1>9. \A v \in Workers, r \in Queues : Takes(v, r)' <=> Takes(v, r)
  BY <1>1, <1>2, <1>3, <1>7 DEF Takes
<1>10. CASE jobCount[q] = batchSize[w]
  <2>1. jobCount'[q] = 0 /\ current'[w] = NoQueue /\ pc'[w] = "idle"
    BY <1>0, <1>1, <1>10 DEF Subtract
  <2>2. Shape'
    BY <1>1, <1>2, <1>3, <2>1 DEF Shape, IInv
  <2>3. \A v \in Workers, r \in Queues : Executes(v, r)' <=> Executes(v, r) /\ ~(v = w)
    BY <1>1, <1>2, <2>1, NullAssumption DEF Executes
  <2>4. SingleHolder'
    BY <1>3, <1>6, <1>9, <2>3 DEF IInv, SingleHolder
  <2>5. HeldIffCounted'
    <3> SUFFICES ASSUME NEW r \in Queues
                 PROVE  jobCount'[r] # 0 <=> Held(r)'
      BY DEF HeldIffCounted
    <3>1. CASE r = q
      <4>1. \A v \in Workers : ~Takes(v, q)
        BY <1>4 DEF IInv, SingleHolder
      <4>2. \A i \in DOMAIN global : ~Waits(i, q)
        BY <1>4 DEF IInv, SingleHolder
      <4>3. ~Held(q)'
        BY <1>3, <1>4, <1>6, <1>9, <2>3, <4>1, <4>2 DEF Held
      <4> QED
        BY <2>1, <3>1, <4>3
    <3>2. CASE r # q
      <4>1. ~Executes(w, r)
        BY <1>1, <3>2 DEF Executes
      <4>2. Held(r)' <=> Held(r)
        BY <1>3, <1>6, <1>9, <2>3, <4>1 DEF Held
      <4> QED
        BY <1>2, <3>2, <4>2 DEF IInv, HeldIffCounted
    <3> QED
      BY <3>1, <3>2
  <2>6. CountExact'
    <3> SUFFICES ASSUME NEW r \in Queues
                 PROVE  /\ \A v \in Workers :
                              Executes(v, r)' => jobCount'[r] = Queued(r)' + batchSize'[v]
                        /\ (\A v \in Workers : ~Executes(v, r)') => jobCount'[r] = Queued(r)'
      BY DEF CountExact
    <3>1. CASE r = q
      BY <1>4, <1>5, <1>8, <2>3, <3>1
    <3>2. CASE r # q
      <4>1. ~Executes(w, r)
        BY <1>1, <3>2 DEF Executes
      <4> QED
        BY <1>2, <1>8, <2>3, <3>2, <4>1 DEF IInv, CountExact
    <3> QED
      BY <3>1, <3>2
  <2> QED
    BY <2>2, <2>4, <2>5, <2>6
<1>11. CASE jobCount[q] # batchSize[w]
  <2>1. current'[w] = q /\ pc'[w] = "clock"
    BY <1>0, <1>1, <1>11 DEF Subtract
  <2>2. Shape'
    BY <1>1, <1>2, <1>3, <2>1, NullAssumption DEF Shape, IInv
  <2>3. \A v \in Workers, r \in Queues : Executes(v, r)' <=> Executes(v, r)
    BY <1>1, <1>2, <2>1 DEF Executes
  <2>4. SingleHolder'
    BY <1>3, <1>6, <1>9, <2>3 DEF IInv, SingleHolder
  <2>5. HeldIffCounted'
    <3>1. \A r \in Queues : Held(r)' <=> Held(r)
      BY <1>3, <1>6, <1>9, <2>3 DEF Held
    <3>2. jobCount'[q] # 0 /\ jobCount[q] # 0
      <4>1. jobCount[q] \in Int /\ batchSize[w] \in Nat
        BY <1>0
      <4>2. jobCount[q] # 0
        BY <1>4 DEF IInv, HeldIffCounted, Held
      <4> QED
        BY <1>1, <1>11, <4>1, <4>2
    <3> QED
      BY <1>2, <3>1, <3>2 DEF IInv, HeldIffCounted
  <2>6. CountExact'
    <3> SUFFICES ASSUME NEW r \in Queues
                 PROVE  /\ \A v \in Workers :
                              Executes(v, r)' => jobCount'[r] = Queued(r)' + batchSize'[v]
                        /\ (\A v \in Workers : ~Executes(v, r)') => jobCount'[r] = Queued(r)'
      BY DEF CountExact
    <3>1. CASE r = q
      BY <1>1, <1>4, <1>5, <1>8, <2>3, <3>1
    <3>2. CASE r # q
      <4>1. ~Executes(w, r)
        BY <1>1, <3>2 DEF Executes
      <4> QED
        BY <1>2, <1>8, <2>3, <3>2, <4>1 DEF IInv, CountExact
    <3> QED
      BY <3>1, <3>2
  <2> QED
    BY <2>2, <2>4, <2>5, <2>6
<1> QED
  BY <1>10, <1>11

\* The deadline: a late worker stops executing the queue and goes on to publish it, and
\* it is the same worker's all along.
LEMMA ReadClockStep ==
    ASSUME IInv, NEW w \in Workers, ReadClock(w)
    PROVE  (Shape /\ SingleHolder /\ HeldIffCounted /\ CountExact)'
<1>0. /\ pc \in [Workers -> PcValues]
      /\ target \in [Workers -> Queues \cup {NoQueue}]
      /\ current \in [Workers -> Queues \cup {NoQueue}]
      /\ batchSize \in [Workers -> Nat] /\ jobCount \in [Queues -> Int]
  BY DEF IInv, TypeOK
<1>q. PICK q \in Queues : q = current[w]
  BY DEF ReadClock, IInv, Shape
<1>1. pc[w] = "clock" /\ current[w] = q /\ batchSize[w] = 0
  BY <1>q DEF ReadClock, IInv, Shape
<1>2. /\ \A v \in Workers \ {w} : /\ pc'[v] = pc[v] /\ target'[v] = target[v]
                                  /\ current'[v] = current[v]
      /\ \/ pc'[w] = "publish" /\ target'[w] = q /\ current'[w] = NoQueue
         \/ pc'[w] = "popall" /\ target'[w] = NoQueue /\ current'[w] = q
  BY <1>0, <1>1 DEF ReadClock
<1>3. UNCHANGED <<jobCount, jobs, global, job, first, batchSize>>
  BY DEF ReadClock, queueVars
<1>4. Shape'
  BY <1>1, <1>2, <1>3 DEF Shape, IInv
<1>5. Executes(w, q) /\ \A v \in Workers : Executes(v, q) => v = w
  BY <1>1 DEF IInv, SingleHolder, Executes
<1>6. \A i, r : Waits(i, r)' <=> Waits(i, r)
  BY <1>3 DEF Waits
<1>7. \A r \in Queues : Queued(r)' = Queued(r)
  BY <1>1, <1>2, <1>3 DEF Queued, InFlight
<1>8. CASE pc'[w] = "publish"
  <2>1. \A v \in Workers, r \in Queues :
          /\ Executes(v, r)' <=> Executes(v, r) /\ ~(v = w)
          /\ Takes(v, r)' <=> Takes(v, r) \/ (v = w /\ r = q)
    BY <1>1, <1>2, <1>3, <1>8, NullAssumption DEF Executes, Takes
  <2>2. \A r \in Queues : ~Takes(w, r) /\ (Executes(w, r) => r = q)
    BY <1>1 DEF Takes, Executes
  <2>3. SingleHolder'
    BY <1>3, <1>5, <1>6, <2>1, <2>2 DEF IInv, SingleHolder
  <2>4. HeldIffCounted'
    <3>1. \A r \in Queues : Held(r)' <=> Held(r)
      BY <1>3, <1>5, <1>6, <2>1, <2>2 DEF Held
    <3> QED
      BY <1>3, <3>1 DEF IInv, HeldIffCounted
  <2>5. CountExact'
    <3> SUFFICES ASSUME NEW r \in Queues
                 PROVE  /\ \A v \in Workers :
                              Executes(v, r)' => jobCount'[r] = Queued(r)' + batchSize'[v]
                        /\ (\A v \in Workers : ~Executes(v, r)') => jobCount'[r] = Queued(r)'
      BY DEF CountExact
    <3>1. CASE r = q
      <4>1. jobCount[q] = Queued(q) + batchSize[w] /\ Queued(q) \in Nat
        BY <1>5, QueuedNat DEF IInv, CountExact
      <4> QED
        BY <1>1, <1>3, <1>5, <1>7, <2>1, <3>1, <4>1
    <3>2. CASE r # q
      BY <1>3, <1>7, <2>1, <2>2, <3>2 DEF IInv, CountExact
    <3> QED
      BY <3>1, <3>2
  <2> QED
    BY <1>4, <2>3, <2>4, <2>5
<1>9. CASE pc'[w] = "popall"
  <2>1. \A v \in Workers, r \in Queues :
          /\ Executes(v, r)' <=> Executes(v, r)
          /\ Takes(v, r)' <=> Takes(v, r)
    BY <1>1, <1>2, <1>3, <1>9 DEF Executes, Takes
  <2>2. SingleHolder'
    BY <1>3, <1>6, <2>1 DEF IInv, SingleHolder
  <2>3. HeldIffCounted'
    BY <1>3, <1>6, <2>1 DEF IInv, HeldIffCounted, Held
  <2>4. CountExact'
    BY <1>3, <1>7, <2>1 DEF IInv, CountExact
  <2> QED
    BY <1>4, <2>2, <2>3, <2>4
<1> QED
  BY <1>2, <1>8, <1>9

\* GGlobalQueue->Pop: the oldest waiting queue passes to the worker that executes it.
LEMMA GlobalPopStep ==
    ASSUME IInv, NEW w \in Workers, GlobalPop(w)
    PROVE  (Shape /\ SingleHolder /\ HeldIffCounted /\ CountExact)'
<1>0. /\ pc \in [Workers -> PcValues] /\ global \in Seq(Queues)
      /\ current \in [Workers -> Queues \cup {NoQueue}]
      /\ batchSize \in [Workers -> Nat] /\ jobCount \in [Queues -> Int]
  BY DEF IInv, TypeOK
<1>q. PICK q \in Queues : q = Head(global)
  BY <1>0 DEF GlobalPop
<1>1. pc[w] = "idle" /\ current[w] = NoQueue /\ batchSize[w] = 0
      /\ pc'[w] = "popall" /\ current'[w] = q
  BY <1>0, <1>q DEF GlobalPop, IInv, Shape
<1>2. \A v \in Workers \ {w} : pc'[v] = pc[v] /\ current'[v] = current[v]
  BY <1>0 DEF GlobalPop
<1>3. UNCHANGED <<jobCount, jobs, target, job, first, batchSize>>
  BY DEF GlobalPop, pushVars
<1>4. Shape'
  BY <1>1, <1>2, <1>3, NullAssumption DEF Shape, IInv
<1>5. \A v \in Workers, r \in Queues :
        /\ Executes(v, r)' <=> Executes(v, r) \/ (v = w /\ r = q)
        /\ Takes(v, r)' <=> Takes(v, r)
        /\ ~Executes(w, r)
  BY <1>1, <1>2, <1>3, NullAssumption DEF Executes, Takes
<1>6. /\ Waits(1, q) /\ 1 \in DOMAIN global
      /\ \A i \in DOMAIN global' : i + 1 \in DOMAIN global /\ i + 1 # 1
      /\ \A i \in DOMAIN global' : \A r : Waits(i, r)' <=> Waits(i + 1, r)
      /\ \A k \in DOMAIN global : k = 1 \/ (k - 1 \in DOMAIN global' /\ k = (k - 1) + 1)
      /\ \A i, k \in DOMAIN global' : i + 1 = k + 1 => i = k
  <2>1. global' = Tail(global) /\ global # <<>>
    BY DEF GlobalPop
  <2>2. DOMAIN global = 1..Len(global) /\ Len(global) \in Nat /\ Len(global) # 0
        /\ DOMAIN global' = 1..(Len(global) - 1)
    BY <1>0, <2>1
  <2>3. global[1] = q /\ \A i \in DOMAIN global' : global'[i] = global[i + 1]
    BY <1>0, <1>q, <2>1
  <2> QED
    BY <2>2, <2>3 DEF Waits
<1>7. \A k \in DOMAIN global : Waits(k, q) => k = 1
  BY <1>6 DEF IInv, SingleHolder
<1>8. \A v \in Workers : ~Executes(v, q) /\ ~Takes(v, q)
  BY <1>6 DEF IInv, SingleHolder
<1>9. \A r \in Queues : Waits(1, r) => r = q
  BY <1>6 DEF Waits
<1>10. SingleHolder'
  <2> SUFFICES ASSUME NEW r \in Queues
               PROVE  /\ \A u, v \in Workers :
                            /\ Executes(u, r)' /\ Executes(v, r)' => u = v
                            /\ Takes(u, r)' /\ Takes(v, r)' => u = v
                            /\ ~(Executes(u, r)' /\ Takes(v, r)')
                      /\ \A i, k \in DOMAIN global' : Waits(i, r)' /\ Waits(k, r)' => i = k
                      /\ \A v \in Workers : \A i \in DOMAIN global' :
                            ~(Waits(i, r)' /\ (Executes(v, r)' \/ Takes(v, r)'))
    BY DEF SingleHolder
  <2>1. CASE r = q
    BY <1>5, <1>6, <1>7, <1>8, <2>1
  <2>2. CASE r # q
    BY <1>5, <1>6, <2>2 DEF IInv, SingleHolder
  <2> QED
    BY <2>1, <2>2
<1>11. HeldIffCounted'
  <2>1. \A r \in Queues : Held(r)' <=> Held(r)
    <3> SUFFICES ASSUME NEW r \in Queues PROVE Held(r)' <=> Held(r)
      OBVIOUS
    <3>1. CASE r = q
      BY <1>5, <1>6, <3>1 DEF Held
    <3>2. CASE r # q
      BY <1>5, <1>6, <1>9, <3>2 DEF Held
    <3> QED
      BY <3>1, <3>2
  <2> QED
    BY <1>3, <2>1 DEF IInv, HeldIffCounted
<1>12. CountExact'
  <2>1. \A r \in Queues : Queued(r)' = Queued(r)
    BY <1>1, <1>2, <1>3 DEF Queued, InFlight
  <2> SUFFICES ASSUME NEW r \in Queues
               PROVE  /\ \A v \in Workers :
                            Executes(v, r)' => jobCount'[r] = Queued(r)' + batchSize'[v]
                      /\ (\A v \in Workers : ~Executes(v, r)') => jobCount'[r] = Queued(r)'
    BY DEF CountExact
  <2>2. CASE r = q
    <3>1. jobCount[q] = Queued(q) /\ Queued(q) \in Nat
      BY <1>8, QueuedNat DEF IInv, CountExact
    <3> QED
      BY <1>1, <1>3, <1>5, <1>8, <2>1, <2>2, <3>1
  <2>3. CASE r # q
    BY <1>3, <1>5, <2>1, <2>3 DEF IInv, CountExact
  <2> QED
    BY <2>2, <2>3
<1> QED
  BY <1>4, <1>10, <1>11, <1>12

-----------------------------------------------------------------------------
\* The empty queues of the start.
LEMMA InitInv == Init => IInv
<1> SUFFICES ASSUME Init PROVE IInv
  OBVIOUS
<1> USE MainAssumption, NullAssumption
<1>1. TypeOK
  BY DEF Init, TypeOK, Stages, PcValues, Clocks
<1>2. Shape
  BY DEF Init, Shape
<1>3. \A w \in Workers, q \in Queues : ~Executes(w, q) /\ ~Takes(w, q)
  BY DEF Init, Executes, Takes
<1>4. DOMAIN global = {}
  BY DEF Init
<1>5. SingleHolder
  BY <1>3, <1>4 DEF SingleHolder
<1>6. \A q \in Queues : jobCount[q] = 0 /\ Queued(q) = 0
  <2> SUFFICES ASSUME NEW q \in Queues PROVE jobCount[q] = 0 /\ Queued(q) = 0
    OBVIOUS
  <2>1. jobCount[q] = 0 /\ Len(jobs[q]) = 0
    BY DEF Init
  <2>2. InFlight(q) = {}
    BY DEF Init, InFlight
  <2> QED
    BY <2>1, <2>2, FS_EmptySet DEF Queued
<1>7. HeldIffCounted
  BY <1>3, <1>4, <1>6 DEF HeldIffCounted, Held
<1>8. CountExact
  BY <1>3, <1>6 DEF CountExact
<1> QED
  BY <1>1, <1>2, <1>5, <1>7, <1>8 DEF IInv

\* Every step keeps the invariant.
LEMMA NextInv == IInv /\ [Next]_vars => IInv'
<1> SUFFICES ASSUME IInv, [Next]_vars PROVE IInv'
  OBVIOUS
<1>1. TypeOK'
  BY TypeStep DEF IInv
<1>2. (Shape /\ SingleHolder /\ HeldIffCounted /\ CountExact)'
  <2>1. CASE UNCHANGED vars
    BY <2>1, QuietStep DEF vars, heldVars
  <2>2. CASE LaunchWorkers
    BY <2>2, QuietStep DEF LaunchWorkers, heldVars, queueVars, pushVars, execVars
  <2>3. ASSUME NEW w \in Workers, NEW q \in Queues, NEW j \in Jobs, BeginPush(w, q, j)
        PROVE  (Shape /\ SingleHolder /\ HeldIffCounted /\ CountExact)'
    BY <2>3, BeginPushStep
  <2>4. ASSUME NEW w \in Workers, Enqueue(w)
        PROVE  (Shape /\ SingleHolder /\ HeldIffCounted /\ CountExact)'
    BY <2>4, EnqueueStep
  <2>5. ASSUME NEW w \in Workers, Publish(w)
        PROVE  (Shape /\ SingleHolder /\ HeldIffCounted /\ CountExact)'
    BY <2>5, PublishStep
  <2>6. ASSUME NEW w \in Workers, PopAll(w)
        PROVE  (Shape /\ SingleHolder /\ HeldIffCounted /\ CountExact)'
    BY <2>6, PopAllStep
  <2>7. ASSUME NEW w \in Workers, RunJob(w)
        PROVE  (Shape /\ SingleHolder /\ HeldIffCounted /\ CountExact)'
    BY <2>7, QuietStep DEF RunJob, heldVars, queueVars, pushVars
  <2>8. ASSUME NEW w \in Workers, Subtract(w)
        PROVE  (Shape /\ SingleHolder /\ HeldIffCounted /\ CountExact)'
    BY <2>8, SubtractStep
  <2>9. ASSUME NEW w \in Workers, ReadClock(w)
        PROVE  (Shape /\ SingleHolder /\ HeldIffCounted /\ CountExact)'
    BY <2>9, ReadClockStep
  <2>10. ASSUME NEW w \in Workers, GlobalPop(w)
         PROVE  (Shape /\ SingleHolder /\ HeldIffCounted /\ CountExact)'
    BY <2>10, GlobalPopStep
  <2>11. ASSUME NEW w \in Workers, EndNetwork(w) \/ EndTimer(w) \/ EndRound(w)
         PROVE  (Shape /\ SingleHolder /\ HeldIffCounted /\ CountExact)'
    BY <2>11, QuietStep
    DEF EndNetwork, EndTimer, EndRound, heldVars, queueVars, pushVars, execVars
  <2> QED
    BY <2>1, <2>2, <2>3, <2>4, <2>5, <2>6, <2>7, <2>8, <2>9, <2>10, <2>11
    DEF Next, WorkerStep, QueueStep
<1> QED
  BY <1>1, <1>2 DEF IInv

\* The inductive invariant holds in every reachable state, for any number of workers,
\* queues and jobs and whatever the clock says at the deadline.
THEOREM InductiveInvariance == Spec => []IInv
<1>1. Init => IInv
  BY InitInv
<1>2. IInv /\ [Next]_vars => IInv'
  BY NextInv
<1> QED
  BY <1>1, <1>2, PTL DEF Spec

\* Every variable of the job system keeps its type: the counters and sizes stay numbers,
\* the queues and batches hold jobs only, no thread dereferences a null queue or job.
THEOREM TypeCorrectness == Spec => []TypeOK
<1>1. IInv => TypeOK
  BY DEF IInv
<1> QED
  BY <1>1, InductiveInvariance, PTL

\* A JobQueue is never in the hands of two parties at once (Push, Execute and the global
\* queue): mutual exclusion of the jobs of a queue without a lock around them.
THEOREM MutualExclusion == Spec => []SingleHolder
<1>1. IInv => SingleHolder
  BY DEF IInv
<1> QED
  BY <1>1, InductiveInvariance, PTL

\* _jobCount counts the jobs queued, in the hands of a pusher or popped and not subtracted.
THEOREM CounterExactness == Spec => []CountExact
<1>1. IInv => CountExact
  BY DEF IInv
<1> QED
  BY <1>1, InductiveInvariance, PTL

\* A queue with a job in it is always somebody's to run.
THEOREM NoWakeupIsLost == Spec => []NoLostWakeup
<1>1. IInv => NoLostWakeup
  <2> SUFFICES ASSUME IInv, NEW q \in Queues, jobs[q] # <<>>
               PROVE  Held(q)
    BY DEF NoLostWakeup
  <2>1. jobCount[q] # 0
    BY CountPositive
  <2> QED
    BY <2>1 DEF IInv, HeldIffCounted
<1> QED
  BY <1>1, InductiveInvariance, PTL
=============================================================================
