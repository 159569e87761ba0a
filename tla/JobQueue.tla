------------------------------ MODULE JobQueue ------------------------------
(***************************************************************************)
(* The execution core of the server: JobQueue (an atomic counter beside a  *)
(* locked FIFO of jobs), the GlobalQueue that hands queues between worker  *)
(* threads, and the worker loop that drives both.  A step of a worker is   *)
(* one access to state that other threads see: fetch_add, a locked push or *)
(* pop, fetch_sub.  Thread-local work is merged into the step before it.   *)
(***************************************************************************)
EXTENDS Integers, Sequences, FiniteSets

CONSTANTS
    Workers,    \* the threads that run DoWorkerJob
    Main,       \* the one that also runs main()
    Queues,     \* the JobQueue objects (the server makes one: the Room)
    Jobs,       \* the jobs that may be posted, each one an object of its own
    NoQueue,    \* nullptr in LCurrentJobQueue
    NoJob

ASSUME MainAssumption == Main \in Workers
ASSUME WorkersAssumption == IsFiniteSet(Workers)
ASSUME NullAssumption == NoQueue \notin Queues /\ NoJob \notin Jobs

VARIABLES
    jobCount,   \* JobQueue::_jobCount
    jobs,       \* JobQueue::_jobs, oldest first
    global,     \* GlobalQueue::_jobQueues, oldest first
    stage,      \* the call of DoWorkerJob a worker is in
    pc,         \* the next shared step of its Push or Execute, "idle" outside of both
    target,     \* the queue of the Push (or of the hand-over) in progress
    job,        \* the job of the Push in progress
    first,      \* whether the fetch_add of that Push returned 0
    current,    \* LCurrentJobQueue
    batch,      \* the jobs Execute popped and has not run yet; the head is running
    batchSize,  \* Execute's jobCount
    clock,      \* GetTickCount64() against LEndTickCount
    made,       \* history: the jobs handed to Push
    done        \* history: the jobs that ran

queueVars  == <<jobCount, jobs, global>>
pushVars   == <<target, job, first>>
execVars   == <<current, batch, batchSize>>
vars == <<jobCount, jobs, global, stage, pc, target, job, first,
          current, batch, batchSize, clock, made, done>>

Stages == {"off", "main", "network", "timer", "global"}
PcValues == {"idle", "enqueue", "publish", "popall", "run", "clock"}

\* A tick count read later is never smaller: `before', `at' or `after' the deadline.
Clocks == {"before", "at", "after"}
Later(c) == CASE c = "before" -> Clocks
              [] c = "at"     -> {"at", "after"}
              [] c = "after"  -> {"after"}

\* Only the main thread runs at first, and its LEndTickCount is still 0.
Init ==
    /\ jobCount = [q \in Queues |-> 0]
    /\ jobs = [q \in Queues |-> <<>>]
    /\ global = <<>>
    /\ stage = [w \in Workers |-> IF w = Main THEN "main" ELSE "off"]
    /\ pc = [w \in Workers |-> "idle"]
    /\ target = [w \in Workers |-> NoQueue]
    /\ job = [w \in Workers |-> NoJob]
    /\ first = [w \in Workers |-> FALSE]
    /\ current = [w \in Workers |-> NoQueue]
    /\ batch = [w \in Workers |-> <<>>]
    /\ batchSize = [w \in Workers |-> 0]
    /\ clock = [w \in Workers |-> "after"]
    /\ made = {}
    /\ done = {}

-----------------------------------------------------------------------------
(* JobQueue::Push *)

\* Where a worker goes when its Push returns: the job that called it, or its stage.
Resumed(w) == IF current[w] = NoQueue THEN "idle" ELSE "run"

\* Code that may call DoAsync: main(), a packet handler or a session callback in
\* Dispatch, a timer in Distribute, and the job that is running.
MayPush(w) ==
    \/ pc[w] = "idle" /\ stage[w] \in {"main", "network", "timer"}
    \/ pc[w] = "run" /\ batch[w] # <<>>

\* Mutant: `first' is decided by the emptiness of _jobs instead of by the counter.
BeginPush_EmptyTest(w, q, j) ==
    /\ MayPush(w)
    /\ j \notin made
    /\ jobCount' = [jobCount EXCEPT ![q] = @ + 1]
    /\ first' = [first EXCEPT ![w] = jobs[q] = <<>>]
    /\ target' = [target EXCEPT ![w] = q]
    /\ job' = [job EXCEPT ![w] = j]
    /\ pc' = [pc EXCEPT ![w] = "enqueue"]
    /\ made' = made \cup {j}
    /\ UNCHANGED <<jobs, global, stage, execVars, clock, done>>

\* prevCount = _jobCount.fetch_add(1): the job is counted before it is in _jobs.
BeginPush(w, q, j) ==
    /\ MayPush(w)
    /\ j \notin made
    /\ jobCount' = [jobCount EXCEPT ![q] = @ + 1]
    /\ first' = [first EXCEPT ![w] = jobCount[q] = 0]
    /\ target' = [target EXCEPT ![w] = q]
    /\ job' = [job EXCEPT ![w] = j]
    /\ pc' = [pc EXCEPT ![w] = "enqueue"]
    /\ made' = made \cup {j}
    /\ UNCHANGED <<jobs, global, stage, execVars, clock, done>>

\* _jobs.Push(job), then the thread that counted from 0 takes the queue: it
\* executes it at once, or publishes it when it is already executing a queue.
Enqueue(w) ==
    LET q == target[w]
        execute == first[w] /\ current[w] = NoQueue
        publish == first[w] /\ current[w] # NoQueue
    IN  /\ pc[w] = "enqueue"
        /\ jobs' = [jobs EXCEPT ![q] = Append(@, job[w])]
        /\ job' = [job EXCEPT ![w] = NoJob]
        /\ first' = [first EXCEPT ![w] = FALSE]
        /\ target' = [target EXCEPT ![w] = IF publish THEN q ELSE NoQueue]
        /\ current' = [current EXCEPT ![w] = IF execute THEN q ELSE @]
        /\ pc' = [pc EXCEPT ![w] = IF execute THEN "popall"
                                   ELSE IF publish THEN "publish"
                                   ELSE Resumed(w)]
        /\ \E c \in Later(clock[w]) : clock' = [clock EXCEPT ![w] = c]
        /\ UNCHANGED <<jobCount, global, stage, batch, batchSize, made, done>>

\* GGlobalQueue->Push(shared_from_this()), from Push or from Execute.
Publish(w) ==
    /\ pc[w] = "publish"
    /\ global' = Append(global, target[w])
    /\ target' = [target EXCEPT ![w] = NoQueue]
    /\ pc' = [pc EXCEPT ![w] = Resumed(w)]
    /\ UNCHANGED <<jobCount, jobs, stage, job, first, execVars, clock, made, done>>

-----------------------------------------------------------------------------
(* JobQueue::Execute *)

PopAll(w) ==
    /\ pc[w] = "popall"
    /\ batch' = [batch EXCEPT ![w] = jobs[current[w]]]
    /\ batchSize' = [batchSize EXCEPT ![w] = Len(jobs[current[w]])]
    /\ jobs' = [jobs EXCEPT ![current[w]] = <<>>]
    /\ pc' = [pc EXCEPT ![w] = "run"]
    /\ UNCHANGED <<jobCount, global, stage, pushVars, current, clock, made, done>>

\* The job at the head of the batch returns; it took some time.
RunJob(w) ==
    /\ pc[w] = "run"
    /\ batch[w] # <<>>
    /\ batch' = [batch EXCEPT ![w] = Tail(@)]
    /\ done' = done \cup {Head(batch[w])}
    /\ \E c \in Later(clock[w]) : clock' = [clock EXCEPT ![w] = c]
    /\ UNCHANGED <<queueVars, stage, pc, pushVars, current, batchSize, made>>

\* Mutant: the counter is stored 0 when nothing is in _jobs, and the queue let go.
Subtract_Reset(w) ==
    LET q == current[w]
        release == jobs[q] = <<>>
    IN  /\ pc[w] = "run"
        /\ batch[w] = <<>>
        /\ jobCount' = [jobCount EXCEPT ![q] = IF release THEN 0 ELSE @ - batchSize[w]]
        /\ batchSize' = [batchSize EXCEPT ![w] = 0]
        /\ current' = [current EXCEPT ![w] = IF release THEN NoQueue ELSE q]
        /\ pc' = [pc EXCEPT ![w] = IF release THEN "idle" ELSE "clock"]
        /\ UNCHANGED <<jobs, global, stage, pushVars, batch, clock, made, done>>

\* Mutant: one is subtracted for the batch instead of the number of its jobs.
Subtract_One(w) ==
    LET q == current[w]
        release == jobCount[q] = 1
    IN  /\ pc[w] = "run"
        /\ batch[w] = <<>>
        /\ jobCount' = [jobCount EXCEPT ![q] = @ - 1]
        /\ batchSize' = [batchSize EXCEPT ![w] = 0]
        /\ current' = [current EXCEPT ![w] = IF release THEN NoQueue ELSE q]
        /\ pc' = [pc EXCEPT ![w] = IF release THEN "idle" ELSE "clock"]
        /\ UNCHANGED <<jobs, global, stage, pushVars, batch, clock, made, done>>

\* _jobCount.fetch_sub(jobCount): the queue is released when nothing was pushed
\* since; otherwise it is still this worker's.
Subtract(w) ==
    LET q == current[w]
        release == jobCount[q] = batchSize[w]
    IN  /\ pc[w] = "run"
        /\ batch[w] = <<>>
        /\ jobCount' = [jobCount EXCEPT ![q] = @ - batchSize[w]]
        /\ batchSize' = [batchSize EXCEPT ![w] = 0]
        /\ current' = [current EXCEPT ![w] = IF release THEN NoQueue ELSE q]
        /\ pc' = [pc EXCEPT ![w] = IF release THEN "idle" ELSE "clock"]
        /\ UNCHANGED <<jobs, global, stage, pushVars, batch, clock, made, done>>

\* Mutant: the queue is read from LCurrentJobQueue after that was cleared.
ReadClock_ClearFirst(w) ==
    /\ pc[w] = "clock"
    /\ \E c \in Later(clock[w]) :
        LET late == c # "before"
        IN  /\ clock' = [clock EXCEPT ![w] = c]
            /\ pc' = [pc EXCEPT ![w] = IF late THEN "publish" ELSE "popall"]
            /\ target' = [target EXCEPT ![w] = NoQueue]
            /\ current' = [current EXCEPT ![w] = IF late THEN NoQueue ELSE @]
    /\ UNCHANGED <<queueVars, stage, job, first, batch, batchSize, made, done>>

\* Mutant: a late worker lets go of the queue without publishing it.
ReadClock_Drop(w) ==
    /\ pc[w] = "clock"
    /\ \E c \in Later(clock[w]) :
        LET late == c # "before"
        IN  /\ clock' = [clock EXCEPT ![w] = c]
            /\ pc' = [pc EXCEPT ![w] = IF late THEN "idle" ELSE "popall"]
            /\ current' = [current EXCEPT ![w] = IF late THEN NoQueue ELSE @]
    /\ UNCHANGED <<queueVars, stage, pushVars, batch, batchSize, made, done>>

\* now >= LEndTickCount: the queue is handed to the global queue, else it goes on.
ReadClock(w) ==
    /\ pc[w] = "clock"
    /\ \E c \in Later(clock[w]) :
        LET late == c # "before"
        IN  /\ clock' = [clock EXCEPT ![w] = c]
            /\ pc' = [pc EXCEPT ![w] = IF late THEN "publish" ELSE "popall"]
            /\ target' = [target EXCEPT ![w] = IF late THEN current[w] ELSE NoQueue]
            /\ current' = [current EXCEPT ![w] = IF late THEN NoQueue ELSE @]
    /\ UNCHANGED <<queueVars, stage, job, first, batch, batchSize, made, done>>

-----------------------------------------------------------------------------
(* main() and DoWorkerJob *)

\* main() launches the workers and enters the loop itself.
LaunchWorkers ==
    /\ stage[Main] = "main"
    /\ pc[Main] = "idle"
    /\ stage' = [w \in Workers |-> "network"]
    /\ clock' = [w \in Workers |-> "before"]
    /\ UNCHANGED <<queueVars, pc, pushVars, execVars, made, done>>

\* Dispatch(10) returns.
EndNetwork(w) ==
    /\ stage[w] = "network"
    /\ pc[w] = "idle"
    /\ stage' = [stage EXCEPT ![w] = "timer"]
    /\ UNCHANGED <<queueVars, pc, pushVars, execVars, clock, made, done>>

\* DistributeReservedJobs returns.
EndTimer(w) ==
    /\ stage[w] = "timer"
    /\ pc[w] = "idle"
    /\ stage' = [stage EXCEPT ![w] = "global"]
    /\ UNCHANGED <<queueVars, pc, pushVars, execVars, clock, made, done>>

\* GGlobalQueue->Pop() returns a queue and the worker executes it.
GlobalPop(w) ==
    /\ stage[w] = "global"
    /\ pc[w] = "idle"
    /\ clock[w] # "after"
    /\ global # <<>>
    /\ current' = [current EXCEPT ![w] = Head(global)]
    /\ global' = Tail(global)
    /\ pc' = [pc EXCEPT ![w] = "popall"]
    /\ UNCHANGED <<jobCount, jobs, stage, pushVars, batch, batchSize, clock, made, done>>

\* DoGlobalQueueWork breaks and the loop starts over with a new deadline.
EndRound(w) ==
    /\ stage[w] = "global"
    /\ pc[w] = "idle"
    /\ clock[w] = "after" \/ global = <<>>
    /\ stage' = [stage EXCEPT ![w] = "network"]
    /\ clock' = [clock EXCEPT ![w] = "before"]
    /\ UNCHANGED <<queueVars, pc, pushVars, execVars, made, done>>

-----------------------------------------------------------------------------
\* What a worker does by itself, once a Push or a stage has begun.
QueueStep(w) ==
    \/ Enqueue(w) \/ Publish(w)
    \/ PopAll(w) \/ RunJob(w) \/ Subtract(w) \/ ReadClock(w)
    \/ GlobalPop(w) \/ EndRound(w)

WorkerStep(w) == QueueStep(w) \/ EndNetwork(w) \/ EndTimer(w)

Next ==
    \/ LaunchWorkers
    \/ \E w \in Workers :
        \/ WorkerStep(w)
        \/ \E q \in Queues, j \in Jobs : BeginPush(w, q, j)

Spec == Init /\ [][Next]_vars

\* Every thread keeps running.  No fairness is asked of the code that calls Push.
Fairness == WF_vars(LaunchWorkers) /\ \A w \in Workers : WF_vars(WorkerStep(w))

FairSpec == Spec /\ Fairness

-----------------------------------------------------------------------------
TypeOK ==
    /\ jobCount \in [Queues -> Int]
    /\ jobs \in [Queues -> Seq(Jobs)]
    /\ global \in Seq(Queues)
    /\ stage \in [Workers -> Stages]
    /\ pc \in [Workers -> PcValues]
    /\ target \in [Workers -> Queues \cup {NoQueue}]
    /\ job \in [Workers -> Jobs \cup {NoJob}]
    /\ first \in [Workers -> BOOLEAN]
    /\ current \in [Workers -> Queues \cup {NoQueue}]
    /\ batch \in [Workers -> Seq(Jobs)]
    /\ batchSize \in [Workers -> Nat]
    /\ clock \in [Workers -> Clocks]
    /\ made \subseteq Jobs
    /\ done \subseteq Jobs

\* The three ways in which a queue is somebody's to run: a worker executes it, a
\* worker is about to execute or publish it, or it waits in the global queue.
Executes(w, q) == current[w] = q
Takes(w, q) ==
    /\ target[w] = q
    /\ pc[w] = "publish" \/ (pc[w] = "enqueue" /\ first[w])
Waits(i, q) == i \in DOMAIN global /\ global[i] = q

Held(q) ==
    \/ \E w \in Workers : Executes(w, q) \/ Takes(w, q)
    \/ \E i \in DOMAIN global : Waits(i, q)

\* A queue is never in the hands of two parties at once: two workers never run its jobs
\* at the same time (so Room's state, touched by jobs only, needs no lock), it is not
\* published twice, nor while a worker runs it, nor taken by a pusher while it waits.
SingleHolder ==
    \A q \in Queues :
        /\ \A v, w \in Workers :
            /\ Executes(v, q) /\ Executes(w, q) => v = w
            /\ Takes(v, q) /\ Takes(w, q) => v = w
            /\ ~(Executes(v, q) /\ Takes(w, q))
        /\ \A i, k \in DOMAIN global : Waits(i, q) /\ Waits(k, q) => i = k
        /\ \A w \in Workers : \A i \in DOMAIN global :
            ~(Waits(i, q) /\ (Executes(w, q) \/ Takes(w, q)))

\* No wakeup is lost: a queue with a job in it is always somebody's to run, though
\* the pusher that finds a nonzero counter walks away (JobQueue.cpp:15).
NoLostWakeup == \A q \in Queues : jobs[q] # <<>> => Held(q)

\* The workers between fetch_add and _jobs.Push on q.
InFlight(q) == {w \in Workers : pc[w] = "enqueue" /\ target[w] = q}

\* The jobs that are in the queue or will be without anybody's counting them again.
Queued(q) == Len(jobs[q]) + Cardinality(InFlight(q))

\* The counter is the number of jobs queued, being pushed, and popped but not yet
\* subtracted, so it is zero exactly when the queue can be let go.
CountExact ==
    \A q \in Queues :
        /\ \A w \in Workers : Executes(w, q) => jobCount[q] = Queued(q) + batchSize[w]
        /\ (\A w \in Workers : ~Executes(w, q)) => jobCount[q] = Queued(q)

\* Nobody holds a queue whose counter is zero, and somebody holds every other one.
HeldIffCounted == \A q \in Queues : jobCount[q] # 0 <=> Held(q)

\* What pc says of the thread-local state: the arguments of a Push are there while it
\* needs them, and a batch is only counted while its queue executes it.
Shape ==
    \A w \in Workers :
        /\ pc[w] \in {"enqueue", "publish"} => target[w] \in Queues
        /\ pc[w] = "enqueue" => job[w] \in Jobs
        /\ pc[w] \in {"popall", "run", "clock"} => current[w] \in Queues
        /\ pc[w] = "idle" => current[w] = NoQueue
        /\ current[w] = NoQueue \/ pc[w] \in {"popall", "clock"} => batchSize[w] = 0

\* The inductive invariant of the proofs.
IInv == TypeOK /\ Shape /\ SingleHolder /\ HeldIffCounted /\ CountExact

-----------------------------------------------------------------------------
\* Every queue, with its threads, is the serial actor SerialQueues describes: what its
\* executor popped comes before what is still in _jobs.
Pending(q) ==
    IF \E w \in Workers : Executes(w, q)
    THEN batch[CHOOSE w \in Workers : Executes(w, q)] \o jobs[q]
    ELSE jobs[q]

Serial == INSTANCE SerialQueues WITH
    pending <- [q \in Queues |-> Pending(q)],
    completed <- done

\* The jobs of a queue are completed in the order they entered _jobs, each once, and
\* every one of them is completed whatever the other threads do (the deadline that
\* makes Execute give the queue away included).
SerialSpec == Serial!ASpec

\* What the refinement rests on: a worker has popped jobs only while it executes a queue,
\* and a job that is on its way into a queue is nowhere else yet.
BatchShape ==
    \A w \in Workers :
        current[w] = NoQueue \/ pc[w] \in {"popall", "clock"} => batch[w] = <<>>

Placed(j) ==
    \/ j \in done
    \/ \E q \in Queues : \E i \in DOMAIN jobs[q] : jobs[q][i] = j
    \/ \E w \in Workers : \E i \in DOMAIN batch[w] : batch[w][i] = j

Pushing(w, j) == pc[w] = "enqueue" /\ job[w] = j

FreshJobs ==
    \A j \in Jobs :
        /\ Placed(j) => j \in made
        /\ \A w \in Workers : Pushing(w, j) => j \in made /\ ~Placed(j)
        /\ \A v, w \in Workers : Pushing(v, j) /\ Pushing(w, j) => v = w

RefInv == BatchShape /\ FreshJobs
=============================================================================
