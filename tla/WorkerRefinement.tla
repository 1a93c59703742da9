-------------------------- MODULE WorkerRefinement --------------------------
(***************************************************************************)
(* How worker.c's rings are read as the queues of JobQueues.               *)
(***************************************************************************)
EXTENDS Worker, Sequences

\* The jobs of a ring from the oldest to the newest, read out of the slots.
Outstanding(q) ==
  [i \in 1 .. Sub(head[q], tail[q]) |-> slot[q][Index(tail[q] + (i - 1))]]

Rings   == [q \in Queues |-> Outstanding(q)]
Running == IF pc1 = "run" THEN <<q1, job>> ELSE None

Abstract == INSTANCE JobQueues WITH
  Jobs    <- Count,
  Depth   <- Slots,
  Nobody  <- None,
  queue   <- Rings,
  running <- Running

\* The rings, counters and latches of worker.c implement two bounded FIFOs whose
\* jobs run one at a time, each once, in the order posted.
IsTwoFifos == Abstract!AbsSpec

=============================================================================
