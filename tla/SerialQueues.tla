---------------------------- MODULE SerialQueues ----------------------------
(***************************************************************************)
(* What a JobQueue promises to the code that posts work to it: each queue  *)
(* is a serial actor.  A posted job is appended to its queue, the jobs of  *)
(* one queue are completed one at a time in the order in which they were   *)
(* appended, each exactly once, and every posted job is completed.         *)
(* Nothing is said of threads, of the counter, or of the global queue.     *)
(***************************************************************************)
EXTENDS Sequences

CONSTANTS Queues,   \* the JobQueue objects
          Jobs      \* the jobs that may be posted, each at most once

VARIABLES pending,  \* pending[q]: the jobs of q posted and not completed, oldest first
          completed \* the jobs that have completed

avars == <<pending, completed>>

APosted == completed \cup {j \in Jobs : \E q \in Queues : \E i \in DOMAIN pending[q] : pending[q][i] = j}

AInit ==
    /\ pending = [q \in Queues |-> <<>>]
    /\ completed = {}

\* A job is posted to a queue.
APost(q, j) ==
    /\ j \notin APosted
    /\ pending' = [pending EXCEPT ![q] = Append(@, j)]
    /\ UNCHANGED completed

\* The oldest job of a queue completes.
AComplete(q) ==
    /\ pending[q] # <<>>
    /\ pending' = [pending EXCEPT ![q] = Tail(@)]
    /\ completed' = completed \cup {Head(pending[q])}

ANext == \E q \in Queues : AComplete(q) \/ \E j \in Jobs : APost(q, j)

ASafeSpec == AInit /\ [][ANext]_avars

ASpec == ASafeSpec /\ \A q \in Queues : WF_avars(AComplete(q))
=============================================================================
