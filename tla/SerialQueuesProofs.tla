------------------------- MODULE SerialQueuesProofs -------------------------
(***************************************************************************)
(* JobQueue implements SerialQueues, for any number of workers, queues and *)
(* jobs: the jobs of a queue complete one at a time, each once, in the     *)
(* order in which they entered _jobs, whichever threads run them.  (That   *)
(* they all complete is liveness, and left to TLC.)                        *)
(***************************************************************************)
EXTENDS JobQueueProofs, SequenceTheorems

-----------------------------------------------------------------------------
\* Facts about sequences of jobs: Execute's batch before what is still queued.
LEMMA EmptyBatch ==
    ASSUME NEW s \in Seq(Jobs)
    PROVE  <<>> \o s = s /\ s \o <<>> = s
BY ConcatEmptySeq

\* A job that enters _jobs behind a batch enters the whole at its end.
LEMMA AppendBehind ==
    ASSUME NEW b \in Seq(Jobs), NEW s \in Seq(Jobs), NEW j \in Jobs
    PROVE  b \o Append(s, j) = Append(b \o s, j)
<1>1. <<j>> \in Seq(Jobs)
  OBVIOUS
<1>2. b \o s \in Seq(Jobs) /\ Append(s, j) = s \o <<j>>
  BY AppendIsConcat
<1>3. Append(b \o s, j) = (b \o s) \o <<j>>
  BY <1>2, AppendIsConcat
<1> QED
  BY <1>1, <1>2, <1>3, ConcatAssociative

\* The head of a batch is the head of the whole.
LEMMA HeadOfWhole ==
    ASSUME NEW b \in Seq(Jobs), NEW s \in Seq(Jobs), b # <<>>
    PROVE  /\ b \o s # <<>>
           /\ Head(b \o s) = Head(b)
           /\ Tail(b \o s) = Tail(b) \o s
<1>1. Len(b) \in Nat /\ Len(b) # 0 /\ Len(s) \in Nat
  OBVIOUS
<1>2. b \o s \in Seq(Jobs) /\ Len(b \o s) = Len(b) + Len(s)
  OBVIOUS
<1>3. b \o s # <<>> /\ Head(b \o s) = (b \o s)[1] /\ (b \o s)[1] = b[1] /\ Head(b) = b[1]
  BY <1>1, <1>2
<1>4. Tail(b) \in Seq(Jobs) /\ Len(Tail(b)) = Len(b) - 1
      /\ \A i \in 1..Len(Tail(b)) : Tail(b)[i] = b[i + 1]
  BY HeadTailProperties
<1>5. Tail(b \o s) \in Seq(Jobs) /\ Len(Tail(b \o s)) = Len(b) + Len(s) - 1
      /\ \A i \in 1..Len(Tail(b \o s)) : Tail(b \o s)[i] = (b \o s)[i + 1]
  BY <1>2, <1>3, HeadTailProperties
<1>6. Tail(b) \o s \in Seq(Jobs) /\ Len(Tail(b) \o s) = Len(b) + Len(s) - 1
  BY <1>1, <1>4
<1>7. ASSUME NEW i \in 1..(Len(b) + Len(s) - 1)
      PROVE  Tail(b \o s)[i] = (Tail(b) \o s)[i]
  <2>1. Tail(b \o s)[i] = (b \o s)[i + 1]
    BY <1>5
  <2>2. CASE i <= Len(b) - 1
    <3>1. (b \o s)[i + 1] = b[i + 1]
      BY <1>1, <2>2
    <3>2. (Tail(b) \o s)[i] = Tail(b)[i]
      BY <1>1, <1>4, <2>2
    <3> QED
      BY <1>1, <1>4, <2>1, <2>2, <3>1, <3>2
  <2>3. CASE i > Len(b) - 1
    <3>1. (b \o s)[i + 1] = s[i + 1 - Len(b)]
      BY <1>1, <2>3
    <3>2. (Tail(b) \o s)[i] = s[i - (Len(b) - 1)]
      BY <1>1, <1>4, <2>3
    <3>3. i + 1 - Len(b) = i - (Len(b) - 1)
      BY <1>1
    <3> QED
      BY <2>1, <3>1, <3>2, <3>3
  <2> QED
    BY <1>1, <2>2, <2>3
<1>8. Tail(b \o s) = Tail(b) \o s
  BY <1>5, <1>6, <1>7, SeqEqual
<1> QED
  BY <1>3, <1>8

-----------------------------------------------------------------------------
(* What a queue has still to do, where its executor is known *)

\* An executed queue: what its worker popped, then what is in _jobs.
LEMMA PendingExecuted ==
    ASSUME SingleHolder, NEW w \in Workers, NEW q \in Queues, Executes(w, q)
    PROVE  Pending(q) = batch[w] \o jobs[q]
<1>1. \A v \in Workers : Executes(v, q) => v = w
  BY DEF SingleHolder
<1>2. (CHOOSE v \in Workers : Executes(v, q)) = w
  BY <1>1
<1> QED
  BY <1>2 DEF Pending

\* The same of the next state.
LEMMA PendingExecutedNext ==
    ASSUME SingleHolder', NEW w \in Workers, NEW q \in Queues, Executes(w, q)'
    PROVE  Pending(q)' = batch'[w] \o jobs'[q]
<1>1. \A v \in Workers : Executes(v, q)' => v = w
  BY DEF SingleHolder
<1>2. (CHOOSE v \in Workers : Executes(v, q)') = w
  BY <1>1
<1> QED
  BY <1>2 DEF Pending

\* A queue that nobody executes.
LEMMA PendingFree ==
    ASSUME NEW q \in Queues
    PROVE  /\ (\A w \in Workers : ~Executes(w, q)) => Pending(q) = jobs[q]
           /\ (\A w \in Workers : ~Executes(w, q)') => Pending(q)' = jobs'[q]
BY DEF Pending

\* A queue whose executor, batch and jobs stay has the same to do.
LEMMA PendingSame ==
    ASSUME SingleHolder, SingleHolder', NEW q \in Queues, jobs'[q] = jobs[q],
           \A v \in Workers : /\ Executes(v, q)' <=> Executes(v, q)
                              /\ Executes(v, q) => batch'[v] = batch[v]
    PROVE  Pending(q)' = Pending(q)
<1>1. CASE \E w \in Workers : Executes(w, q)
  <2>1. PICK w \in Workers : Executes(w, q)
    BY <1>1
  <2>2. Pending(q) = batch[w] \o jobs[q] /\ Pending(q)' = batch'[w] \o jobs'[q]
    BY <2>1, PendingExecuted, PendingExecutedNext
  <2> QED
    BY <2>1, <2>2
<1>2. CASE \A w \in Workers : ~Executes(w, q)
  BY <1>2, PendingFree
<1> QED
  BY <1>1, <1>2

\* It is a sequence of jobs, each of them in the queue or in the batch of its executor.
LEMMA PendingJobs ==
    ASSUME TypeOK, SingleHolder, NEW q \in Queues
    PROVE  /\ Pending(q) \in Seq(Jobs)
           /\ \A i \in DOMAIN Pending(q) : Placed(Pending(q)[i])
<1>0. jobs[q] \in Seq(Jobs) /\ \A w \in Workers : batch[w] \in Seq(Jobs)
  BY DEF TypeOK
<1>1. CASE \E w \in Workers : Executes(w, q)
  <2>1. PICK w \in Workers : Executes(w, q)
    BY <1>1
  <2>2. Pending(q) = batch[w] \o jobs[q]
    BY <2>1, PendingExecuted
  <2>3. batch[w] \o jobs[q] \in Seq(Jobs)
    BY <1>0
  <2>4. ASSUME NEW i \in DOMAIN (batch[w] \o jobs[q])
        PROVE  \/ \E k \in DOMAIN batch[w] : batch[w][k] = (batch[w] \o jobs[q])[i]
               \/ \E k \in DOMAIN jobs[q] : jobs[q][k] = (batch[w] \o jobs[q])[i]
    <3> DEFINE b == batch[w]
               s == jobs[q]
    <3>1. b \in Seq(Jobs) /\ s \in Seq(Jobs)
      BY <1>0
    <3> HIDE DEF b, s
    <3>2. /\ Len(b) \in Nat /\ Len(s) \in Nat
          /\ DOMAIN b = 1..Len(b) /\ DOMAIN s = 1..Len(s)
          /\ DOMAIN (b \o s) = 1..(Len(b) + Len(s))
      BY <3>1
    <3>3. i \in 1..(Len(b) + Len(s))
      BY <2>4, <3>2 DEF b, s
    <3>4. CASE i <= Len(b)
      <4>1. (b \o s)[i] = b[i] /\ i \in DOMAIN b
        BY <3>1, <3>2, <3>3, <3>4
      <4> QED
        BY <4>1 DEF b, s
    <3>5. CASE i > Len(b)
      <4>1. (b \o s)[i] = s[i - Len(b)] /\ i - Len(b) \in DOMAIN s
        BY <3>1, <3>2, <3>3, <3>5
      <4> QED
        BY <4>1 DEF b, s
    <3> QED
      BY <3>2, <3>3, <3>4, <3>5
  <2> QED
    BY <2>2, <2>3, <2>4 DEF Placed
<1>2. CASE \A w \in Workers : ~Executes(w, q)
  <2>1. Pending(q) = jobs[q]
    BY <1>2, PendingFree
  <2> QED
    BY <1>0, <2>1 DEF Placed
<1> QED
  BY <1>1, <1>2

-----------------------------------------------------------------------------
(* The invariant of the refinement *)

\* A worker lets go of a queue, or looks at the clock, only with its batch done.
LEMMA BatchShapeStep ==
    ASSUME TypeOK, Shape, BatchShape, [Next]_vars
    PROVE  BatchShape'
<1>0. /\ pc \in [Workers -> PcValues] /\ batch \in [Workers -> Seq(Jobs)]
      /\ current \in [Workers -> Queues \cup {NoQueue}]
  BY DEF TypeOK
<1>1. ASSUME UNCHANGED <<pc, current, batch>>
      PROVE  BatchShape'
  BY <1>1 DEF BatchShape
<1>2. ASSUME NEW w \in Workers,
             UNCHANGED <<current, batch>>,
             pc'[w] \notin {"popall", "clock"},
             \A v \in Workers \ {w} : pc'[v] = pc[v]
      PROVE  BatchShape'
  BY <1>2 DEF BatchShape
<1>3. ASSUME NEW w \in Workers, NEW q \in Queues, NEW j \in Jobs, BeginPush(w, q, j)
      PROVE  BatchShape'
  BY <1>0, <1>2, <1>3 DEF BeginPush, execVars
<1>4. ASSUME NEW w \in Workers, Enqueue(w)
      PROVE  BatchShape'
  <2>1. UNCHANGED batch /\ \A v \in Workers \ {w} : pc'[v] = pc[v] /\ current'[v] = current[v]
    BY <1>0, <1>4 DEF Enqueue
  <2>2. \/ current[w] = NoQueue
        \/ current'[w] = current[w] /\ pc'[w] \notin {"popall", "clock"}
    BY <1>0, <1>4 DEF Enqueue, Resumed
  <2> QED
    BY <2>1, <2>2 DEF BatchShape
<1>5. ASSUME NEW w \in Workers, Publish(w)
      PROVE  BatchShape'
  BY <1>0, <1>2, <1>5 DEF Publish, Resumed, execVars
<1>6. ASSUME NEW w \in Workers, PopAll(w) \/ RunJob(w)
      PROVE  BatchShape'
  <2>1. UNCHANGED current /\ pc'[w] = "run" /\ current[w] \in Queues
    BY <1>0, <1>6 DEF PopAll, RunJob, Shape
  <2>2. \A v \in Workers \ {w} : pc'[v] = pc[v] /\ batch'[v] = batch[v]
    BY <1>0, <1>6 DEF PopAll, RunJob
  <2> QED
    BY <2>1, <2>2, NullAssumption DEF BatchShape
<1>7. ASSUME NEW w \in Workers, Subtract(w) \/ ReadClock(w) \/ GlobalPop(w)
      PROVE  BatchShape'
  <2>1. UNCHANGED batch /\ \A v \in Workers \ {w} : pc'[v] = pc[v] /\ current'[v] = current[v]
    BY <1>0, <1>7 DEF Subtract, ReadClock, GlobalPop
  <2>2. batch[w] = <<>>
    BY <1>7 DEF Subtract, ReadClock, GlobalPop, BatchShape, Shape
  <2> QED
    BY <2>1, <2>2 DEF BatchShape
<1> QED
  BY <1>1, <1>3, <1>4, <1>5, <1>6, <1>7
  DEF Next, WorkerStep, QueueStep, LaunchWorkers, EndNetwork, EndTimer, EndRound, vars,
      pushVars, execVars

\* A job is posted once (made), and once it is in a queue it is in no Push any more.
LEMMA FreshJobsStep ==
    ASSUME TypeOK, Shape, FreshJobs, [Next]_vars
    PROVE  FreshJobs'
<1>0. /\ pc \in [Workers -> PcValues] /\ job \in [Workers -> Jobs \cup {NoJob}]
      /\ batch \in [Workers -> Seq(Jobs)] /\ jobs \in [Queues -> Seq(Jobs)]
  BY DEF TypeOK
<1>1. ASSUME \A j \in Jobs : /\ Placed(j)' => Placed(j)
                             /\ \A v \in Workers : Pushing(v, j)' => Pushing(v, j),
             UNCHANGED made
      PROVE  FreshJobs'
  BY <1>1 DEF FreshJobs
<1>2. ASSUME UNCHANGED <<jobs, batch, done, made, job>>,
             \A v \in Workers : pc'[v] = "enqueue" => pc[v] = "enqueue"
      PROVE  FreshJobs'
  BY <1>1, <1>2 DEF Placed, Pushing
<1>3. ASSUME NEW w \in Workers, NEW q \in Queues, NEW k \in Jobs, BeginPush(w, q, k)
      PROVE  FreshJobs'
  <2>1. /\ UNCHANGED <<jobs, batch, done>> /\ k \notin made /\ made' = made \cup {k}
        /\ pc'[w] = "enqueue" /\ job'[w] = k
        /\ \A v \in Workers \ {w} : pc'[v] = pc[v] /\ job'[v] = job[v]
    BY <1>0, <1>3 DEF BeginPush, execVars
  <2>2. \A j \in Jobs : /\ Placed(j)' <=> Placed(j)
                        /\ Pushing(w, j)' <=> j = k
                        /\ \A v \in Workers \ {w} : Pushing(v, j)' <=> Pushing(v, j)
    BY <2>1 DEF Placed, Pushing
  <2>3. ~Placed(k) /\ \A v \in Workers : ~Pushing(v, k)
    BY <2>1 DEF FreshJobs
  <2> QED
    BY <2>1, <2>2, <2>3 DEF FreshJobs
<1>4. ASSUME NEW w \in Workers, Enqueue(w)
      PROVE  FreshJobs'
  <2>1. PICK q \in Queues, k \in Jobs : q = target[w] /\ k = job[w]
    BY <1>4 DEF Enqueue, Shape
  <2>2. /\ UNCHANGED <<batch, done, made>> /\ pc[w] = "enqueue"
        /\ jobs' = [jobs EXCEPT ![q] = Append(jobs[q], k)]
    BY <1>4, <2>1 DEF Enqueue
  <2>3. /\ pc'[w] # "enqueue" /\ \A v \in Workers \ {w} : pc'[v] = pc[v] /\ job'[v] = job[v]
    BY <1>0, <1>4 DEF Enqueue, Resumed
  <2>4. \A i \in DOMAIN Append(jobs[q], k) :
          \/ i \in DOMAIN jobs[q] /\ Append(jobs[q], k)[i] = jobs[q][i]
          \/ Append(jobs[q], k)[i] = k
    BY <1>0
  <2>5. \A j \in Jobs : Placed(j)' => Placed(j) \/ j = k
    BY <1>0, <2>2, <2>4 DEF Placed
  <2>6. \A j \in Jobs : \A v \in Workers : Pushing(v, j)' <=> Pushing(v, j) /\ v # w
    BY <2>3 DEF Pushing
  <2>7. Pushing(w, k)
    BY <2>1, <2>2 DEF Pushing
  <2>8. k \in made /\ \A v \in Workers \ {w} : ~Pushing(v, k)
    BY <2>7 DEF FreshJobs
  <2> QED
    BY <2>2, <2>5, <2>6, <2>8 DEF FreshJobs
<1>5. ASSUME NEW w \in Workers, PopAll(w)
      PROVE  FreshJobs'
  <2>1. PICK q \in Queues : q = current[w]
    BY <1>5 DEF PopAll, Shape
  <2>2. /\ UNCHANGED <<done, made, job>> /\ pc' = [pc EXCEPT ![w] = "run"]
        /\ jobs' = [jobs EXCEPT ![q] = <<>>] /\ batch' = [batch EXCEPT ![w] = jobs[q]]
    BY <1>5, <2>1 DEF PopAll, pushVars
  <2>3. \A j \in Jobs : Placed(j)' => Placed(j)
    BY <1>0, <2>2 DEF Placed
  <2>4. \A j \in Jobs : \A v \in Workers : Pushing(v, j)' => Pushing(v, j)
    BY <1>0, <2>2 DEF Pushing
  <2> QED
    BY <1>1, <2>2, <2>3, <2>4
<1>6. ASSUME NEW w \in Workers, RunJob(w)
      PROVE  FreshJobs'
  <2>1. /\ UNCHANGED <<jobs, made, pc, job>> /\ batch[w] # <<>>
        /\ batch' = [batch EXCEPT ![w] = Tail(batch[w])]
        /\ done' = done \cup {Head(batch[w])}
    BY <1>6 DEF RunJob, queueVars, pushVars
  <2>2. /\ 1 \in DOMAIN batch[w] /\ Head(batch[w]) = batch[w][1]
        /\ \A i \in DOMAIN Tail(batch[w]) : i + 1 \in DOMAIN batch[w]
                                            /\ Tail(batch[w])[i] = batch[w][i + 1]
    <3>1. batch[w] \in Seq(Jobs) /\ Len(batch[w]) \in Nat /\ Len(batch[w]) # 0
      BY <1>0, <2>1
    <3> QED
      BY <3>1
  <2>3. \A j \in Jobs : Placed(j)' => Placed(j)
    BY <1>0, <2>1, <2>2 DEF Placed
  <2> QED
    BY <1>1, <2>1, <2>3 DEF Pushing
<1>7. ASSUME NEW w \in Workers,
             Publish(w) \/ Subtract(w) \/ ReadClock(w) \/ GlobalPop(w)
      PROVE  FreshJobs'
  BY <1>0, <1>2, <1>7
  DEF Publish, Subtract, ReadClock, GlobalPop, Resumed, queueVars, pushVars, execVars
<1>8. ASSUME UNCHANGED <<jobs, batch, done, made, job, pc>>
      PROVE  FreshJobs'
  BY <1>2, <1>8
<1> QED
  BY <1>3, <1>4, <1>5, <1>6, <1>7, <1>8
  DEF Next, WorkerStep, QueueStep, LaunchWorkers, EndNetwork, EndTimer, EndRound, vars,
      queueVars, pushVars, execVars

\* The invariant of the refinement holds beside JobQueue's.
THEOREM RefinementInvariance == Spec => [](IInv /\ RefInv)
<1>1. Init => IInv /\ RefInv
  <2> SUFFICES ASSUME Init PROVE RefInv
    BY InitInv
  <2>1. BatchShape
    BY DEF Init, BatchShape
  <2>2. /\ done = {} /\ \A q \in Queues : DOMAIN jobs[q] = {}
        /\ \A w \in Workers : DOMAIN batch[w] = {} /\ pc[w] = "idle"
    BY DEF Init
  <2>3. \A j \in Jobs : ~Placed(j) /\ \A w \in Workers : ~Pushing(w, j)
    BY <2>2 DEF Placed, Pushing
  <2> QED
    BY <2>1, <2>3 DEF RefInv, FreshJobs
<1>2. IInv /\ RefInv /\ [Next]_vars => (IInv /\ RefInv)'
  BY NextInv, BatchShapeStep, FreshJobsStep DEF IInv, RefInv
<1> QED
  BY <1>1, <1>2, PTL DEF Spec

-----------------------------------------------------------------------------
(* Every step is a step of SerialQueues or changes nothing there *)

\* Nothing completes and every queue has the same to do.
LEMMA Stutters ==
    ASSUME UNCHANGED done, \A q \in Queues : Pending(q)' = Pending(q)
    PROVE  UNCHANGED Serial!avars
BY DEF Serial!avars

\* _jobs.Push appends a job to what the queue has to do, executed or not.
LEMMA EnqueuePosts ==
    ASSUME IInv, IInv', RefInv, NEW w \in Workers, Enqueue(w)
    PROVE  Serial!ANext
<1>0. TypeOK /\ Shape /\ SingleHolder /\ SingleHolder' /\ BatchShape /\ FreshJobs
  BY DEF IInv, RefInv
<1>1. PICK q \in Queues, j \in Jobs : q = target[w] /\ j = job[w]
  BY <1>0 DEF Enqueue, Shape
<1>2. /\ pc[w] = "enqueue" /\ UNCHANGED <<batch, done>>
      /\ jobs' = [jobs EXCEPT ![q] = Append(jobs[q], j)]
      /\ current' = [current EXCEPT ![w] = IF first[w] /\ current[w] = NoQueue
                                           THEN q ELSE current[w]]
  BY <1>1 DEF Enqueue
<1>3. current \in [Workers -> Queues \cup {NoQueue}] /\ jobs \in [Queues -> Seq(Jobs)]
      /\ batch \in [Workers -> Seq(Jobs)]
  BY <1>0 DEF TypeOK
<1>4. \A r \in Queues \ {q} : Pending(r)' = Pending(r)
  <2> SUFFICES ASSUME NEW r \in Queues, r # q PROVE Pending(r)' = Pending(r)
    OBVIOUS
  <2>1. jobs'[r] = jobs[r] /\ \A v \in Workers : Executes(v, r)' <=> Executes(v, r)
    BY <1>2, <1>3, NullAssumption DEF Executes
  <2> QED
    BY <1>0, <1>2, <2>1, PendingSame
<1>5. jobs'[q] = Append(jobs[q], j)
  BY <1>2, <1>3
<1>6. Pending(q)' = Append(Pending(q), j)
  <2>1. CASE first[w] /\ current[w] = NoQueue
    <3>1. Takes(w, q)
      BY <1>1, <1>2, <2>1 DEF Takes
    <3>2. \A v \in Workers : ~Executes(v, q)
      BY <1>0, <3>1 DEF SingleHolder
    <3>3. Executes(w, q)' /\ batch'[w] = <<>>
      BY <1>0, <1>2, <1>3, <2>1 DEF Executes, BatchShape
    <3>4. Pending(q) = jobs[q] /\ Pending(q)' = <<>> \o Append(jobs[q], j)
      BY <1>0, <1>5, <3>2, <3>3, PendingFree, PendingExecutedNext
    <3>5. Append(jobs[q], j) \in Seq(Jobs)
      BY <1>3
    <3> QED
      BY <3>4, <3>5, EmptyBatch
  <2>2. CASE ~(first[w] /\ current[w] = NoQueue)
    <3>1. \A v \in Workers : Executes(v, q)' <=> Executes(v, q)
      BY <1>2, <1>3, <2>2 DEF Executes
    <3>2. CASE \E v \in Workers : Executes(v, q)
      <4>1. PICK v \in Workers : Executes(v, q)
        BY <3>2
      <4>2. Pending(q) = batch[v] \o jobs[q] /\ Pending(q)' = batch[v] \o Append(jobs[q], j)
        BY <1>0, <1>2, <1>5, <3>1, <4>1, PendingExecuted, PendingExecutedNext
      <4> QED
        BY <1>3, <4>2, AppendBehind
    <3>3. CASE \A v \in Workers : ~Executes(v, q)
      BY <1>5, <3>1, <3>3, PendingFree
    <3> QED
      BY <3>2, <3>3
  <2> QED
    BY <2>1, <2>2
<1>7. j \notin Serial!APosted
  <2>1. Pushing(w, j)
    BY <1>1, <1>2 DEF Pushing
  <2>2. ~Placed(j)
    BY <1>0, <2>1 DEF FreshJobs
  <2>3. j \notin done
    BY <2>2 DEF Placed
  <2>4. \A r \in Queues : \A i \in DOMAIN Pending(r) : Pending(r)[i] # j
    BY <1>0, <2>2, PendingJobs
  <2> QED
    BY <2>3, <2>4 DEF Serial!APosted
<1>8. Serial!APost(q, j)
  BY <1>2, <1>4, <1>6, <1>7 DEF Serial!APost
<1> QED
  BY <1>8 DEF Serial!ANext

\* The job that returns is the oldest of its queue.
LEMMA RunJobCompletes ==
    ASSUME IInv, IInv', RefInv, NEW w \in Workers, RunJob(w)
    PROVE  Serial!ANext
<1>0. TypeOK /\ Shape /\ SingleHolder /\ SingleHolder'
  BY DEF IInv
<1>1. PICK q \in Queues : q = current[w]
  BY <1>0 DEF RunJob, Shape
<1>2. /\ batch[w] # <<>> /\ UNCHANGED <<jobs, current>>
      /\ batch' = [batch EXCEPT ![w] = Tail(batch[w])]
      /\ done' = done \cup {Head(batch[w])}
  BY DEF RunJob, queueVars
<1>3. jobs[q] \in Seq(Jobs) /\ batch[w] \in Seq(Jobs) /\ batch'[w] = Tail(batch[w])
      /\ \A v \in Workers \ {w} : batch'[v] = batch[v]
  BY <1>0, <1>2 DEF TypeOK
<1>4. \A v \in Workers, r \in Queues : Executes(v, r)' <=> Executes(v, r)
  BY <1>2 DEF Executes
<1>5. Executes(w, q) /\ \A r \in Queues \ {q} : ~Executes(w, r)
  BY <1>1 DEF Executes
<1>6. \A r \in Queues \ {q} : Pending(r)' = Pending(r)
  <2> SUFFICES ASSUME NEW r \in Queues, r # q PROVE Pending(r)' = Pending(r)
    OBVIOUS
  <2>1. \A v \in Workers : Executes(v, r) => batch'[v] = batch[v]
    BY <1>3, <1>5
  <2> QED
    BY <1>0, <1>2, <1>4, <2>1, PendingSame
<1>7. Pending(q) = batch[w] \o jobs[q] /\ Pending(q)' = Tail(batch[w]) \o jobs[q]
  BY <1>0, <1>2, <1>3, <1>4, <1>5, PendingExecuted, PendingExecutedNext
<1>8. /\ Pending(q) # <<>> /\ Pending(q)' = Tail(Pending(q))
      /\ Head(Pending(q)) = Head(batch[w])
  <2>1. /\ batch[w] \o jobs[q] # <<>> /\ Head(batch[w] \o jobs[q]) = Head(batch[w])
        /\ Tail(batch[w] \o jobs[q]) = Tail(batch[w]) \o jobs[q]
    BY <1>2, <1>3, HeadOfWhole
  <2> QED
    BY <1>7, <2>1
<1>9. Serial!AComplete(q)
  BY <1>2, <1>6, <1>8 DEF Serial!AComplete
<1> QED
  BY <1>9 DEF Serial!ANext

\* What Execute pops, lets go of, publishes or takes over stays to do, in the same order.
LEMMA HandOver ==
    ASSUME IInv, IInv', RefInv, NEW w \in Workers,
           PopAll(w) \/ Subtract(w) \/ ReadClock(w) \/ GlobalPop(w)
    PROVE  UNCHANGED Serial!avars
<1>0. /\ TypeOK /\ Shape /\ SingleHolder /\ SingleHolder' /\ BatchShape
      /\ current \in [Workers -> Queues \cup {NoQueue}] /\ jobs \in [Queues -> Seq(Jobs)]
      /\ batch \in [Workers -> Seq(Jobs)] /\ global \in Seq(Queues)
  BY DEF IInv, RefInv, TypeOK
<1>1. batch[w] = <<>> /\ UNCHANGED done
  BY <1>0 DEF PopAll, Subtract, ReadClock, GlobalPop, BatchShape, Shape
<1>2. CASE PopAll(w)
  <2>1. PICK q \in Queues : q = current[w]
    BY <1>0, <1>2 DEF PopAll, Shape
  <2>2. /\ UNCHANGED current /\ jobs' = [jobs EXCEPT ![q] = <<>>]
        /\ batch' = [batch EXCEPT ![w] = jobs[q]]
    BY <1>2, <2>1 DEF PopAll
  <2>3. Executes(w, q) /\ \A v \in Workers, r \in Queues : Executes(v, r)' <=> Executes(v, r)
    BY <2>1, <2>2 DEF Executes
  <2>4. jobs'[q] = <<>> /\ batch'[w] = jobs[q]
    BY <1>0, <2>2
  <2>5. Pending(q) = <<>> \o jobs[q] /\ Pending(q)' = jobs[q] \o <<>>
    BY <1>0, <1>1, <2>3, <2>4, PendingExecuted, PendingExecutedNext
  <2>6. Pending(q)' = Pending(q)
    BY <1>0, <2>5, EmptyBatch
  <2>7. ASSUME NEW r \in Queues, r # q
        PROVE  Pending(r)' = Pending(r)
    <3>1. jobs'[r] = jobs[r]
      BY <1>0, <2>2, <2>7
    <3>2. \A v \in Workers : Executes(v, r) => batch'[v] = batch[v]
      BY <1>0, <2>1, <2>2, <2>7 DEF Executes
    <3> QED
      BY <1>0, <2>3, <3>1, <3>2, PendingSame
  <2> QED
    BY <1>1, <2>6, <2>7, Stutters
<1>3. ASSUME NEW q \in Queues, UNCHANGED <<jobs, batch>>,
             \A v \in Workers \ {w} : current'[v] = current[v],
             \/ current[w] = q /\ current'[w] = NoQueue
             \/ current[w] = NoQueue /\ current'[w] = q
      PROVE  UNCHANGED Serial!avars
  <2>1. \A r \in Queues : r # q => \A v \in Workers : Executes(v, r)' <=> Executes(v, r)
    BY <1>3, NullAssumption DEF Executes
  <2>2. \A r \in Queues : r # q => Pending(r)' = Pending(r)
    BY <1>0, <1>3, <2>1, PendingSame
  <2>3. <<>> \o jobs[q] = jobs[q]
    BY <1>0, EmptyBatch
  <2>4. Pending(q)' = Pending(q)
    <3>1. CASE current[w] = q /\ current'[w] = NoQueue
      <4>1. Executes(w, q)
        BY <3>1 DEF Executes
      <4>2. \A v \in Workers : ~Executes(v, q)'
        BY <1>0, <1>3, <3>1, <4>1, NullAssumption DEF Executes, SingleHolder
      <4>3. Pending(q) = batch[w] \o jobs[q] /\ Pending(q)' = jobs'[q]
        BY <1>0, <4>1, <4>2, PendingExecuted, PendingFree
      <4> QED
        BY <1>1, <1>3, <2>3, <4>3
    <3>2. CASE current[w] = NoQueue /\ current'[w] = q
      <4>1. Executes(w, q)'
        BY <3>2 DEF Executes
      <4>2. \A v \in Workers : ~Executes(v, q)
        BY <1>0, <1>3, <3>2, <4>1, NullAssumption DEF Executes, SingleHolder
      <4>3. Pending(q)' = batch'[w] \o jobs'[q] /\ Pending(q) = jobs[q]
        BY <1>0, <4>1, <4>2, PendingExecutedNext, PendingFree
      <4> QED
        BY <1>1, <1>3, <2>3, <4>3
    <3> QED
      BY <1>3, <3>1, <3>2
  <2> QED
    BY <1>1, <2>2, <2>4, Stutters
<1>4. ASSUME UNCHANGED <<jobs, batch, current>>
      PROVE  UNCHANGED Serial!avars
  <2>1. \A v \in Workers, r \in Queues : Executes(v, r)' <=> Executes(v, r)
    BY <1>4 DEF Executes
  <2>2. \A r \in Queues : Pending(r)' = Pending(r)
    BY <1>0, <1>4, <2>1, PendingSame
  <2> QED
    BY <1>1, <2>2, Stutters
<1>5. CASE Subtract(w) \/ ReadClock(w)
  <2>1. PICK q \in Queues : q = current[w]
    BY <1>0, <1>5 DEF Subtract, ReadClock, Shape
  <2>2. /\ UNCHANGED <<jobs, batch>>
        /\ \A v \in Workers \ {w} : current'[v] = current[v]
        /\ current'[w] \in {q, NoQueue}
    BY <1>0, <1>5, <2>1 DEF Subtract, ReadClock, queueVars
  <2>3. current' \in [Workers -> Queues \cup {NoQueue}]
    BY DEF IInv, TypeOK
  <2>4. CASE current'[w] = q
    <3>1. UNCHANGED current
      BY <1>0, <2>1, <2>2, <2>3, <2>4
    <3> QED
      BY <1>4, <2>2, <3>1
  <2>5. CASE current'[w] = NoQueue
    BY <1>3, <2>1, <2>2, <2>5
  <2>6. current'[w] = q \/ current'[w] = NoQueue
    BY <2>2
  <2> QED
    BY <2>4, <2>5, <2>6
<1>6. CASE GlobalPop(w)
  <2>1. PICK q \in Queues : q = Head(global)
    BY <1>0, <1>6 DEF GlobalPop
  <2>2. UNCHANGED <<jobs, batch>> /\ \A v \in Workers \ {w} : current'[v] = current[v]
    BY <1>0, <1>6, <2>1 DEF GlobalPop
  <2>3. current[w] = NoQueue /\ current'[w] = q
    BY <1>0, <1>6, <2>1 DEF GlobalPop, Shape
  <2> QED
    BY <1>3, <2>2, <2>3
<1> QED
  BY <1>2, <1>5, <1>6

\* The step of the refinement.
LEMMA SerialStep ==
    ASSUME IInv, IInv', RefInv, [Next]_vars
    PROVE  [Serial!ANext]_(Serial!avars)
<1>1. ASSUME UNCHANGED <<jobs, batch, current, done>>
      PROVE  UNCHANGED Serial!avars
  <2>1. \A v \in Workers, r \in Queues : Executes(v, r)' <=> Executes(v, r)
    BY <1>1 DEF Executes
  <2>2. \A r \in Queues : Pending(r)' = Pending(r)
    BY <1>1, <2>1, PendingSame DEF IInv
  <2> QED
    BY <1>1, <2>2, Stutters
<1>2. ASSUME NEW w \in Workers, NEW q \in Queues, NEW j \in Jobs, BeginPush(w, q, j)
      PROVE  UNCHANGED Serial!avars
  BY <1>1, <1>2 DEF BeginPush, execVars
<1>3. ASSUME NEW w \in Workers, Publish(w) \/ EndNetwork(w) \/ EndTimer(w) \/ EndRound(w)
      PROVE  UNCHANGED Serial!avars
  BY <1>1, <1>3 DEF Publish, EndNetwork, EndTimer, EndRound, queueVars, execVars
<1>4. CASE LaunchWorkers
  BY <1>1, <1>4 DEF LaunchWorkers, queueVars, execVars
<1>5. CASE UNCHANGED vars
  BY <1>1, <1>5 DEF vars
<1>6. ASSUME NEW w \in Workers, Enqueue(w)
      PROVE  Serial!ANext
  BY <1>6, EnqueuePosts
<1>7. ASSUME NEW w \in Workers, RunJob(w)
      PROVE  Serial!ANext
  BY <1>7, RunJobCompletes
<1>8. ASSUME NEW w \in Workers, PopAll(w) \/ Subtract(w) \/ ReadClock(w) \/ GlobalPop(w)
      PROVE  UNCHANGED Serial!avars
  BY <1>8, HandOver
<1> QED
  BY <1>2, <1>3, <1>4, <1>5, <1>6, <1>7, <1>8 DEF Next, WorkerStep, QueueStep

\* Every queue is a serial actor: its jobs complete in the order in which they entered
\* _jobs, each once, across batches, deadlines and hand-overs between threads.
THEOREM QueuesAreSerial == Spec => Serial!ASafeSpec
<1>1. Init => Serial!AInit
  <2> SUFFICES ASSUME Init PROVE Serial!AInit
    OBVIOUS
  <2>1. \A q \in Queues : Pending(q) = <<>>
    BY NullAssumption DEF Init, Pending, Executes
  <2> QED
    BY <2>1 DEF Init, Serial!AInit
<1>2. IInv /\ IInv' /\ RefInv /\ [Next]_vars => [Serial!ANext]_(Serial!avars)
  BY SerialStep
<1> QED
  BY <1>1, <1>2, RefinementInvariance, PTL DEF Spec, Serial!ASafeSpec
=============================================================================
