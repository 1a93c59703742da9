------------------------------- MODULE Worker -------------------------------
(***************************************************************************)
(* firmware/worker.c: two rings of jobs, filled by core 0 and run by       *)
(* core 1, with no locks.  One action is one access to memory both cores   *)
(* see, or one WFE or SEV: between any two of them the other core may do   *)
(* anything.  The __dmb() pairs of the code make program order the order   *)
(* the other core sees, so they are the order of the actions here.         *)
(*                                                                         *)
(* A job's payload is abstracted to the ticket w1_post() returns for it:   *)
(* the function and argument are only ever copied in and called.  Writing  *)
(* a slot takes two steps, between which it is Torn.                       *)
(*                                                                         *)
(* The caller (the sequencer on core 0) is any sequence of posts, waits on *)
(* a ticket it still holds, and drains, after w1_start().  It holds one    *)
(* ticket per queue, for at most Horizon further posts to that queue; the  *)
(* frame loop holds one for two blocks.  A core's locals go back to their  *)
(* first values when the call that used them returns.                      *)
(***************************************************************************)
EXTENDS Integers

CONSTANTS
  Slots,      \* W1_SLOTS, a power of two
  Wrap,       \* the counters' modulus, 2^32 in the code
  Horizon,    \* how many posts old a ticket the caller waits on may be
  Torn,       \* a slot being written
  None        \* no ticket; no job

HI == "hi"
LO == "lo"
Queues == {HI, LO}

ASSUME WorkerAssumption ==
  /\ Slots \in Nat \ {0} /\ Wrap \in Nat /\ Horizon \in Nat
  /\ Wrap % 2 = 0 /\ Wrap % Slots = 0
  /\ 2 * Slots <= Wrap /\ 1 <= Horizon /\ 2 * Horizon + 2 <= Wrap
  /\ Torn \notin Nat /\ None \notin Nat /\ Torn # None

VARIABLES
  head,       \* per queue, jobs posted; only core 0 writes it
  tail,       \* per queue, jobs completed; only core 1 writes it
  slot,       \* per queue, the ring
  started,    \* w1_start() has run
  ev,         \* per core, the event latch WFE consumes and SEV sets
  pc0, q0, t0,  \* core 0: where it is, in which queue, for which ticket
  held,       \* per queue, the ticket the caller may wait on
  unretired,  \* history: per queue, the held job has not finished
  pc1, q1, job, \* core 1: where it is, in which queue, running what
  passed      \* history: W1_LO jobs retired while a W1_HI job was waiting

shared == <<head, tail, slot, started>>
core0  == <<pc0, q0, t0, held>>
core1  == <<pc1, q1, job>>
ghosts == <<unretired, passed>>
vars   == <<head, tail, slot, started, ev, pc0, q0, t0, held, unretired,
            pc1, q1, job, passed>>

Count == 0 .. (Wrap - 1)

\* Unsigned arithmetic on the free-running counters.
Inc(n)    == IF n + 1 = Wrap THEN 0 ELSE n + 1
Sub(m, n) == IF m >= n THEN m - n ELSE (m + Wrap) - n

Index(n)  == n % Slots
Ready(q)  == head[q] # tail[q]
\* Mutant: one job too many fits.
Full_OneMore(q) == Sub(head[q], tail[q]) > Slots

Full(q)   == Sub(head[q], tail[q]) >= Slots

\* Mutant: the difference is taken unsigned.
done_Unsigned(q, t) == Sub(tail[q], t) > 0

\* (int32_t)(tail - ticket) > 0
done(q, t) == /\ Sub(tail[q], t) > 0
              /\ 2 * Sub(tail[q], t) < Wrap

Idle0(pc) == pc \in {"idle", "waited", "drained"}

Init ==
  /\ head = [q \in Queues |-> 0] /\ tail = [q \in Queues |-> 0]
  /\ slot = [q \in Queues |-> [i \in 0 .. (Slots - 1) |-> None]]
  /\ started = FALSE
  /\ ev = [c \in {0, 1} |-> FALSE]
  /\ pc0 = "idle" /\ q0 = HI /\ t0 = 0
  /\ held = [q \in Queues |-> None]
  /\ unretired = [q \in Queues |-> FALSE]
  /\ pc1 = "off" /\ q1 = HI /\ job = None
  /\ passed = 0

-----------------------------------------------------------------------------
\* Core 0.

\* w1_start(): zero the counters and launch core 1; a second call does nothing.
Start ==
  /\ Idle0(pc0) /\ ~started
  /\ started' = TRUE
  /\ head' = [q \in Queues |-> 0] /\ tail' = [q \in Queues |-> 0]
  /\ pc1' = "scan_hi"
  /\ UNCHANGED <<slot, ev, pc0, q0, t0, held, unretired, q1, job, passed>>

\* w1_post(): h = head[q] is stable, as only core 0 writes it.
Post(q) ==
  /\ Idle0(pc0) /\ started
  /\ pc0' = "post" /\ q0' = q /\ t0' = head[q]
  /\ UNCHANGED <<shared, ev, held, core1, ghosts>>

PostCheck ==
  /\ pc0 = "post"
  /\ pc0' = IF Full(q0) THEN "post_wfe" ELSE "fill"
  /\ UNCHANGED <<shared, ev, q0, t0, held, core1, ghosts>>

FillBegin ==
  /\ pc0 = "fill"
  /\ slot' = [slot EXCEPT ![q0][Index(t0)] = Torn]
  /\ pc0' = "fill2"
  /\ UNCHANGED <<head, tail, started, ev, q0, t0, held, core1, ghosts>>

FillEnd ==
  /\ pc0 = "fill2"
  /\ slot' = [slot EXCEPT ![q0][Index(t0)] = t0]
  /\ pc0' = "publish"
  /\ UNCHANGED <<head, tail, started, ev, q0, t0, held, core1, ghosts>>

\* head[q] = h + 1.  The ticket is returned; the caller keeps it, or the one it
\* had while that is not older than Horizon, or neither.
Publish ==
  LET h    == Inc(t0)
      keep == held[q0] # None /\ Sub(h, held[q0]) <= Horizon
  IN /\ pc0 = "publish"
     /\ head' = [head EXCEPT ![q0] = h]
     /\ \/ /\ held' = [held EXCEPT ![q0] = t0]
           /\ unretired' = [unretired EXCEPT ![q0] = TRUE]
        \/ /\ keep
           /\ UNCHANGED <<held, unretired>>
        \/ /\ held' = [held EXCEPT ![q0] = None]
           /\ unretired' = [unretired EXCEPT ![q0] = FALSE]
     /\ passed' = IF q0 = HI /\ ~Ready(HI) THEN 0 ELSE passed
     /\ pc0' = "post_sev"
     /\ UNCHANGED <<tail, slot, started, ev, q0, t0, core1>>

\* Mutant: the post forgets its SEV.
PostSev_Silent ==
  /\ pc0 = "post_sev"
  /\ pc0' = "idle" /\ q0' = HI /\ t0' = 0
  /\ UNCHANGED <<shared, ev, held, core1, ghosts>>

PostSev ==
  /\ pc0 = "post_sev"
  /\ ev' = [c \in {0, 1} |-> TRUE]
  /\ pc0' = "idle" /\ q0' = HI /\ t0' = 0
  /\ UNCHANGED <<shared, held, core1, ghosts>>

\* w1_wait()
Wait(q) ==
  /\ Idle0(pc0) /\ held[q] # None
  /\ pc0' = "wait" /\ q0' = q /\ t0' = held[q]
  /\ UNCHANGED <<shared, ev, held, core1, ghosts>>

WaitCheck ==
  /\ pc0 = "wait"
  /\ pc0' = IF done(q0, t0) THEN "waited" ELSE "wait_wfe"
  /\ UNCHANGED <<shared, ev, q0, t0, held, core1, ghosts>>

\* w1_drain(): empty() reads the two tails one after the other.
Drain ==
  /\ Idle0(pc0) /\ started
  /\ pc0' = "drain_hi" /\ q0' = HI /\ t0' = 0
  /\ UNCHANGED <<shared, ev, held, core1, ghosts>>

\* Mutant: empty() looks at one ring.
DrainHi_Only ==
  /\ pc0 = "drain_hi"
  /\ pc0' = IF Ready(HI) THEN "drain_wfe" ELSE "drained"
  /\ UNCHANGED <<shared, ev, q0, t0, held, core1, ghosts>>

DrainHi ==
  /\ pc0 = "drain_hi"
  /\ pc0' = IF Ready(HI) THEN "drain_wfe" ELSE "drain_lo"
  /\ UNCHANGED <<shared, ev, q0, t0, held, core1, ghosts>>

DrainLo ==
  /\ pc0 = "drain_lo"
  /\ pc0' = IF Ready(LO) THEN "drain_wfe" ELSE "drained"
  /\ UNCHANGED <<shared, ev, q0, t0, held, core1, ghosts>>

\* __wfe() on core 0: sleeps until the latch is set, clears it, looks again.
Wfe0 ==
  /\ pc0 \in {"post_wfe", "wait_wfe", "drain_wfe"}
  /\ ev[0]
  /\ ev' = [ev EXCEPT ![0] = FALSE]
  /\ pc0' = CASE pc0 = "post_wfe"  -> "post"
              [] pc0 = "wait_wfe"  -> "wait"
              [] pc0 = "drain_wfe" -> "drain_hi"
  /\ UNCHANGED <<shared, q0, t0, held, core1, ghosts>>

Core0Step ==
  \/ PostCheck \/ FillBegin \/ FillEnd \/ Publish \/ PostSev
  \/ WaitCheck \/ DrainHi \/ DrainLo \/ Wfe0

Caller == Start \/ Drain \/ \E q \in Queues : Post(q) \/ Wait(q)

-----------------------------------------------------------------------------
\* Core 1: w1_main().

ScanHi ==
  /\ pc1 = "scan_hi"
  /\ IF Ready(HI) THEN pc1' = "take" /\ q1' = HI
                  ELSE pc1' = "scan_lo" /\ UNCHANGED q1
  /\ UNCHANGED <<shared, ev, core0, job, ghosts>>

ScanLo ==
  /\ pc1 = "scan_lo"
  /\ IF Ready(LO) THEN pc1' = "take" /\ q1' = LO
                  ELSE pc1' = "wfe" /\ UNCHANGED q1
  /\ UNCHANGED <<shared, ev, core0, job, ghosts>>

Wfe1 ==
  /\ pc1 = "wfe" /\ ev[1]
  /\ ev' = [ev EXCEPT ![1] = FALSE]
  /\ pc1' = "scan_hi"
  /\ UNCHANGED <<shared, core0, q1, job, ghosts>>

\* s = &slot[q][tail[q] & 7]; s->fn(s->arg) begins.
Take ==
  /\ pc1 = "take"
  /\ job' = slot[q1][Index(tail[q1])]
  /\ pc1' = "run"
  /\ UNCHANGED <<shared, ev, core0, q1, ghosts>>

\* Mutant: everything posted so far counts as completed.
Retire_All ==
  /\ pc1 = "run"
  /\ tail' = [tail EXCEPT ![q1] = head[q1]]
  /\ job' = None
  /\ pc1' = "sev"
  /\ UNCHANGED <<head, slot, started, ev, core0, q1, ghosts>>

\* The job returns and tail[q]++ retires its ticket.
Retire ==
  /\ pc1 = "run"
  /\ tail' = [tail EXCEPT ![q1] = Inc(@)]
  /\ job' = None
  /\ unretired' = [unretired EXCEPT ![q1] = @ /\ held[q1] # tail[q1]]
  /\ passed' = IF q1 = HI THEN 0
               ELSE IF Ready(HI) THEN passed + 1 ELSE passed
  /\ pc1' = "sev"
  /\ UNCHANGED <<head, slot, started, ev, core0, q1>>

\* Mutant: after a W1_LO job the next W1_LO job is looked for first.
Sev1_SameQueue ==
  /\ pc1 = "sev"
  /\ ev' = [c \in {0, 1} |-> TRUE]
  /\ pc1' = (IF q1 = LO THEN "scan_lo" ELSE "scan_hi") /\ q1' = HI
  /\ UNCHANGED <<shared, core0, job, ghosts>>

Sev1 ==
  /\ pc1 = "sev"
  /\ ev' = [c \in {0, 1} |-> TRUE]
  /\ pc1' = "scan_hi" /\ q1' = HI
  /\ UNCHANGED <<shared, core0, job, ghosts>>

Core1Step == ScanHi \/ ScanLo \/ Wfe1 \/ Take \/ Retire \/ Sev1

Next == Caller \/ Core0Step \/ Core1Step

Spec == Init /\ [][Next]_vars

\* Each core runs: nothing suspends one between two instructions for ever, and a
\* job returns.  Nothing is assumed of the caller.
FairSpec == Spec /\ WF_vars(Core0Step) /\ WF_vars(Core1Step)

-----------------------------------------------------------------------------
TypeOK ==
  /\ head \in [Queues -> Count] /\ tail \in [Queues -> Count]
  /\ slot \in [Queues -> [0 .. (Slots - 1) -> Count \cup {Torn, None}]]
  /\ started \in BOOLEAN
  /\ ev \in [{0, 1} -> BOOLEAN]
  /\ pc0 \in {"idle", "post", "post_wfe", "fill", "fill2", "publish", "post_sev",
              "wait", "wait_wfe", "waited",
              "drain_hi", "drain_lo", "drain_wfe", "drained"}
  /\ q0 \in Queues /\ t0 \in Count
  /\ held \in [Queues -> Count \cup {None}]
  /\ unretired \in [Queues -> BOOLEAN]
  /\ pc1 \in {"off", "scan_hi", "scan_lo", "wfe", "take", "run", "sev"}
  /\ q1 \in Queues /\ job \in Count \cup {Torn, None}
  /\ passed \in Nat

\* A job core 1 runs is the one its ticket names, whole: never a slot core 0 is
\* writing, a slot not yet written, or one already reused (w1_post, w1_main).
RunsTheJobPosted == pc1 = "run" => job = tail[q1]

\* w1_wait() returns only when the job of the ticket has finished, for every
\* ticket the caller may hold and across the wrap of the counters.
WaitMeansDone == pc0 = "waited" => ~unretired[q0]

\* w1_drain() returns only when both rings are empty and core 1 is in no job,
\* though empty() reads the two tails at different times.
DrainMeansIdle == pc0 = "drained" => /\ \A q \in Queues : ~Ready(q)
                                     /\ pc1 \notin {"take", "run"}

\* worker.h's bound: while a W1_HI job waits at the front of its queue at most one
\* W1_LO job runs, even when core 1 had looked at W1_HI just before the post.
HiWaitsForOneLo == passed <= 1

\* Each blocking call returns: no wake-up is lost between a check and the WFE
\* after it, on either core, and the two never sleep on each other.
CallsReturn == ~Idle0(pc0) ~> Idle0(pc0)

-----------------------------------------------------------------------------
(***************************************************************************)
(* The inductive invariant behind the four invariants above.               *)
(***************************************************************************)
Length(q) == Sub(head[q], tail[q])
IsOutstanding(q, t) == Sub(t, tail[q]) < Length(q)

RingsBounded ==
  /\ \A q \in Queues : Length(q) <= Slots
  /\ pc0 \in {"post", "post_wfe", "fill", "fill2", "publish"} => t0 = head[q0]
  /\ pc0 \in {"fill", "fill2", "publish"} => Length(q0) < Slots

Launched ==
  /\ started <=> pc1 # "off"
  /\ ~started => /\ Idle0(pc0)
                 /\ \A q \in Queues : /\ head[q] = 0 /\ tail[q] = 0
                                      /\ held[q] = None

\* Every job not yet retired is whole in its slot, and core 1 runs the oldest.
SlotsHoldJobs ==
  /\ \A q \in Queues : \A t \in Count :
       IsOutstanding(q, t) => slot[q][Index(t)] = t
  /\ pc0 = "publish" => slot[q0][Index(t0)] = t0
  /\ pc1 \in {"take", "run"} => Ready(q1)
  /\ RunsTheJobPosted

\* A ticket held is recent, and not retired only while it is outstanding.
TicketsRecent ==
  /\ \A q \in Queues :
       /\ held[q] # None => Sub(head[q], held[q]) \in 1 .. Horizon
       /\ unretired[q] => held[q] # None /\ IsOutstanding(q, held[q])
  /\ pc0 \in {"wait", "wait_wfe", "waited"} => held[q0] # None /\ t0 = held[q0]
  /\ WaitMeansDone

DrainSees ==
  /\ pc0 = "drain_lo" => ~Ready(HI)
  /\ DrainMeansIdle

OvertakenOnce ==
  passed # 0 => /\ passed = 1 /\ Ready(HI)
                /\ pc1 \in {"scan_hi", "take", "run", "sev"}
                /\ pc1 \in {"take", "run"} => q1 = HI

IInv == /\ TypeOK /\ RingsBounded /\ Launched /\ SlotsHoldJobs
        /\ TicketsRecent /\ DrainSees /\ OvertakenOnce

=============================================================================
