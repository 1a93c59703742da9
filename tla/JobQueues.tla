----------------------------- MODULE JobQueues -----------------------------
(***************************************************************************)
(* What firmware/worker.h promises the sequencer, without rings, counters  *)
(* or event latches: per queue, a bounded FIFO of jobs; one job at a time  *)
(* is taken from the front of one queue, and leaves the queue when it has  *)
(* run.  A job that is running is still the first of its queue, as         *)
(* `tail' counts completed jobs.                                           *)
(***************************************************************************)
EXTENDS Naturals, Sequences

CONSTANTS
  Queues,     \* W1_HI and W1_LO
  Jobs,       \* what distinguishes one outstanding job from another
  Depth,      \* W1_SLOTS
  Nobody      \* core 1 is between jobs

VARIABLES
  queue,      \* per queue, the jobs posted and not yet retired, oldest first
  running     \* <<q, job>>, or Nobody

absvars == <<queue, running>>

AbsInit ==
  /\ queue = [q \in Queues |-> <<>>]
  /\ running = Nobody

Post(q, j) ==
  /\ Len(queue[q]) < Depth
  /\ queue' = [queue EXCEPT ![q] = Append(@, j)]
  /\ UNCHANGED running

Begin(q) ==
  /\ running = Nobody
  /\ queue[q] # <<>>
  /\ running' = <<q, Head(queue[q])>>
  /\ UNCHANGED queue

Retire(q) ==
  /\ queue[q] # <<>>
  /\ running = <<q, Head(queue[q])>>
  /\ queue' = [queue EXCEPT ![q] = Tail(@)]
  /\ running' = Nobody

AbsNext ==
  \E q \in Queues : (\E j \in Jobs : Post(q, j)) \/ Begin(q) \/ Retire(q)

AbsSpec == AbsInit /\ [][AbsNext]_absvars

=============================================================================
