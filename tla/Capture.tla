------------------------------- MODULE Capture -------------------------------
(***************************************************************************)
(* firmware/frame.c's camera (M8b, issues #10 and #14) over cam.c's        *)
(* trigger and collect: the sensor exposes the next frame underneath the   *)
(* encode of this one, and the trigger goes out as late as the last        *)
(* frame's layer times say it may.  m9.c's loop drives it, a key at most   *)
(* per good frame.                                                         *)
(*                                                                         *)
(* An exposure is the number of its trigger, modulo Tags, and the source   *)
(* it was taken from: the sensor, or the test pattern of key 'M'.  Time is *)
(* in ticks: what a layer takes, and what an exposure has left.  A stalled *)
(* bus fails the trigger, the collect or the register write it happens in. *)
(***************************************************************************)
EXTENDS Integers, FiniteSetsExt, Functions

CONSTANTS
  Layers,                     \* ft_nconv()
  Paces,                      \* what the layers, and then the head, may take
  Rooms,                      \* how long an exposure may take
  LeadStart, LeadMin, LeadMax, LeadStep,  \* FT_LEAD_*_US
  LeadCalm,                   \* FT_LEAD_CALM
  Early, Late,                \* the waits below and above which the lead moves
  MaxFaults,                  \* bound: stalls, bad frames and failed encodes
  MaxPresses,                 \* bound: keys, and changes of room and pace
  None

Tags == 4

ASSUME CaptureAssumption ==
  /\ Layers \in Nat \ {0} /\ Paces \subseteq [0 .. Layers -> Nat] /\ Rooms \subseteq Nat
  /\ {LeadMin, LeadMax, LeadStep, LeadCalm, Early, Late, MaxFaults, MaxPresses} \subseteq Nat
  /\ LeadStart \in LeadMin .. LeadMax /\ Early <= Late
  /\ None \notin 0 .. Tags - 1 /\ None \notin [tag : 0 .. Tags - 1, synth : BOOLEAN]

VARIABLES
  pc,        \* "boot", "capture", "encode" or "console"
  layer,     \* layers done
  pipeline, armed, eager,  \* cap_pipeline, cap_armed, cap_eager
  sched,     \* cap_sched
  tail,      \* cap_tail_us
  us,        \* st_[k].us
  lead, calm,
  trig_at,   \* cap_trig_at
  wait,      \* cap_wait_us
  arena,     \* history: the exposure the frame in hand is, if it is good
  cam,       \* the driver and the camera behind it
  synth, announce,         \* cam_synth, cam_synth_announce
  pace, room,              \* the world's
  faults, presses          \* the bounds' counters

mode == <<pipeline, eager, synth>>
plan == <<sched, tail, us>>
loop == <<lead, calm, trig_at, arena, wait>>
world == <<pace, room, presses>>
vars == <<pc, layer, mode, announce, armed, plan, loop, cam, world, faults>>

\* What is left from each layer on in a frame whose parts took t.
Suffix(t) == [k \in 0 .. Layers |-> SumFunctionOnSet(t, k .. Layers)]

\* trig is trig_us, last is last_trig_us, stuck is bus_fault; fifo is the exposure the
\* camera is taking or holds, left what it has still to take, source register 0x06's bit.
Init ==
  /\ pc = "boot" /\ layer = 0
  /\ pipeline = FALSE /\ armed = FALSE /\ eager = FALSE
  /\ sched = FALSE /\ tail = [k \in 0 .. Layers |-> 0] /\ us = [k \in 0 .. Layers - 1 |-> 0]
  /\ lead = LeadStart /\ calm = 0
  /\ trig_at = None /\ arena = None /\ wait = 0
  /\ cam = [trig |-> None, last |-> None, fifo |-> None, left |-> 0, next |-> 0,
            source |-> FALSE, stuck |-> FALSE]
  /\ synth = FALSE /\ announce = 0
  /\ pace \in Paces /\ room \in Rooms
  /\ faults = 0 /\ presses = 0

-----------------------------------------------------------------------------
(***************************************************************************)
(* cam_trigger(): the driver afterwards, whether it armed anything, and    *)
(* what it costs in faults.  It alone clears bus_fault.  A stall comes     *)
(* before or after the FIFO was cleared.                                   *)
(***************************************************************************)
Triggered(c) ==
  [c EXCEPT !.trig = c.next, !.last = c.next, !.next = (c.next + 1) % Tags, !.left = room,
            !.fifo = [tag |-> c.next, synth |-> c.source], !.stuck = FALSE]

\* Mutant: the trigger is stamped before the bus is asked whether it went out.
Stalls_Stamped(c) ==
  {[c EXCEPT !.stuck = TRUE, !.trig = c.next, !.last = c.next]}

Stalls(c) ==
  {[c EXCEPT !.stuck = TRUE], [c EXCEPT !.stuck = TRUE, !.fifo = None, !.left = 0]}

Trigger(c) ==
  {<<Triggered(c), TRUE, 0>>} \cup {<<d, FALSE, 1>> : d \in Stalls(c)}

\* cap_arm()
Arm(c, isArmed, when) ==
  IF pipeline /\ ~isArmed /\ when THEN Trigger(c) ELSE {<<c, isArmed, 0>>}

\* cap_maybe_arm(), with so many layers done.
Due(done) == sched /\ tail[done] <= lead

Elapsed(c, t) == [c EXCEPT !.left = Max({0, @ - t})]

\* m9.c sleeps before it retries, for longer than the exposure or not.
Slept(c) == {c, [c EXCEPT !.left = 0]}

Blame(cost) == /\ faults + cost <= MaxFaults
               /\ faults' = faults + cost

-----------------------------------------------------------------------------
\* The lead and the calm after a capture that waited w: raised on one wait, lowered
\* on a run without.
Corrected(w) ==
  CASE ~pipeline \/ w \in Early .. Late  -> <<lead, calm>>
    [] pipeline /\ w > Late              -> <<Min({lead + w + LeadStep, LeadMax}), 0>>
    [] pipeline /\ w < Early             ->
         IF calm + 1 < LeadCalm THEN <<lead, calm + 1>>
         ELSE <<Max({lead - LeadStep, LeadMin}), 0>>

\* Mutant: cam_last_trig_us() is asked after the eager trigger has gone out.
TrigAt_AfterArm(c, next) == next.last

\* What cap_trig_at becomes, of the driver before and after the eager arm.
TrigAt(c, next) == c.last

\* The end of ft_capture(), when the driver is c and has waited w.
Deliver(c, w, good, cost) ==
  \E next \in Arm(c, FALSE, eager) :
    /\ trig_at' = TrigAt(c, next[1])
    /\ cam' \in IF good THEN {next[1]} ELSE Slept(next[1])
    /\ armed' = next[2]
    /\ Blame(cost + next[3])
    /\ wait' = w
    /\ lead' = Corrected(w)[1] /\ calm' = Corrected(w)[2]
    /\ arena' = IF good THEN c.fifo ELSE None
    /\ pc' = IF good THEN "encode" ELSE "capture"

\* cam_collect(): a whole frame; a constant fill or a short one; and a frame given up
\* before the wait is known, which is all a bus already stuck has to give.
Collect(c) ==
  LET d == [c EXCEPT !.trig = None, !.left = 0]
  IN \/ ~c.stuck /\ Deliver(d, c.left, TRUE, 0)
     \/ ~c.stuck /\ Deliver(d, c.left, FALSE, 1)
     \/ ~c.stuck /\ \E s \in BOOLEAN : Deliver([d EXCEPT !.stuck = s], 0, FALSE, 1)
     \/ c.stuck /\ Deliver(d, 0, FALSE, 0)

\* ft_capture() and m9.c's retry: what was armed is collected, otherwise a frame is
\* triggered and waited for.
Capture ==
  /\ pc = "capture"
  /\ \/ armed /\ Collect(cam)
     \/ ~armed /\ Collect(Triggered(cam))
     \/ ~armed /\ \E c \in Stalls(cam) : Deliver(c, 0, FALSE, 1)
  /\ layer' = 0
  /\ UNCHANGED <<mode, announce, plan, world>>

\* ft_layer() to its end, where the trigger may go out even if the link has failed and
\* cut the layer short.
Layer ==
  /\ pc = "encode" /\ layer < Layers
  /\ \E link \in {0, 1}, t \in {0, pace[layer]} :
       /\ link = 0 => t = pace[layer]
       /\ us' = [us EXCEPT ![layer] = t]
       /\ \E next \in Arm(Elapsed(cam, t), armed, Due(layer + 1)) :
            /\ armed' = next[2]
            /\ Blame(next[3] + link)
            /\ \/ link = 0 /\ cam' = next[1] /\ pc' = pc
               \/ link = 1 /\ cam' \in Slept(next[1]) /\ pc' = "capture"
  /\ layer' = layer + 1
  /\ UNCHANGED <<mode, announce, sched, tail, loop, world>>

\* ft_layer() refusing: nothing is timed and nothing armed.  m9.c drops the frame.
LayerFault ==
  /\ pc = "encode" /\ layer < Layers
  /\ Blame(1)
  /\ cam' \in Slept(cam)
  /\ pc' = "capture"
  /\ UNCHANGED <<layer, mode, announce, armed, plan, loop, world>>

\* ft_pool_head() and cap_close_frame(), the backstop and then the next frame's
\* schedule; then report(), where the announcement counts down once there are queries.
CloseFrame ==
  /\ pc = "encode" /\ layer = Layers
  /\ \E next \in Arm(Elapsed(cam, pace[Layers]), armed, TRUE) :
       cam' = next[1] /\ armed' = next[2] /\ Blame(next[3])
  /\ tail' = Suffix([k \in 0 .. Layers |-> IF k = Layers THEN pace[k] ELSE us[k]])
  /\ sched' = TRUE
  /\ announce' \in {announce, Max({0, announce - 1})}
  /\ pc' = "console"
  /\ UNCHANGED <<layer, mode, us, loop, world>>

\* probe() has put the flash vector through a whole encode before the loop starts.
Boot ==
  /\ pc = "boot"
  /\ us' = [k \in 0 .. Layers - 1 |-> pace[k]] /\ tail' = Suffix(pace) /\ sched' = TRUE
  /\ pipeline' = TRUE
  /\ pc' = "capture"
  /\ UNCHANGED <<layer, eager, synth, announce, armed, loop, cam, world, faults>>

-----------------------------------------------------------------------------
Press ==
  /\ pc = "console" /\ presses < MaxPresses
  /\ presses' = presses + 1
  /\ pc' = "capture"
  /\ UNCHANGED <<layer, armed, plan, loop, pace, room>>

\* 'O', ft_pipeline(): what is in flight stays in flight.
PressO ==
  /\ Press
  /\ pipeline' = ~pipeline
  /\ UNCHANGED <<eager, synth, announce, cam, faults>>

\* 'D', ft_cap_eager()
PressD ==
  /\ Press
  /\ eager' = ~eager
  /\ UNCHANGED <<pipeline, synth, announce, cam, faults>>

\* cam_frame_source_synth(): a bus already stuck drops the write; one that stalls now
\* has done it or not.
SetSource(on) ==
  \/ ~cam.stuck /\ Blame(0) /\ cam' = [cam EXCEPT !.source = on]
  \/ ~cam.stuck /\ Blame(1)
     /\ \E s \in {cam.source, on} : cam' = [cam EXCEPT !.source = s, !.stuck = TRUE]
  \/ cam.stuck /\ Blame(0) /\ UNCHANGED cam

\* Mutant: the frame in flight under the overlap is forgotten.
Passing_One == 1

\* The frames to let pass before one is off the new source.
Passing == IF pipeline THEN 2 ELSE 1

\* 'M'
PressM ==
  /\ Press
  /\ synth' = ~synth
  /\ SetSource(~synth)
  /\ announce' = IF synth THEN 0 ELSE Passing
  /\ UNCHANGED <<pipeline, eager>>

\* No key: the next frame.
Continue ==
  /\ pc = "console" /\ pc' = "capture"
  /\ UNCHANGED <<layer, mode, announce, armed, plan, loop, cam, world, faults>>

\* The room darkens or clears, or the frame takes longer or shorter.
Change ==
  /\ pc = "capture" /\ presses < MaxPresses
  /\ presses' = presses + 1
  /\ pace' \in Paces /\ room' \in Rooms
  /\ <<pace', room'>> # <<pace, room>>
  /\ UNCHANGED <<pc, layer, mode, announce, armed, plan, loop, cam, faults>>

Next ==
  \/ Boot \/ Capture \/ Layer \/ LayerFault \/ CloseFrame
  \/ PressO \/ PressD \/ PressM \/ Continue \/ Change

Spec == Init /\ [][Next]_vars

-----------------------------------------------------------------------------
TypeOK ==
  /\ pc \in {"boot", "capture", "encode", "console"} /\ layer \in 0 .. Layers
  /\ {pipeline, armed, eager, sched, synth} \subseteq BOOLEAN /\ announce \in 0 .. 2
  /\ lead \in LeadMin .. LeadMax /\ calm \in 0 .. LeadCalm - 1
  /\ tail \in [0 .. Layers -> Nat] /\ us \in [0 .. Layers - 1 -> Nat]
  /\ pace \in Paces /\ room \in Rooms /\ wait \in Nat
  /\ trig_at \in (0 .. Tags - 1) \cup {None}
  /\ cam.left \in Nat /\ cam.trig \in (0 .. Tags - 1) \cup {None}

\* The age that is printed is the age of the pixels that were scored: from the collect
\* to the key, cap_trig_at is the trigger that exposed the frame in hand, whatever was
\* armed, failed to arm or was thrown away in between.
AgeIsOfThisFrame ==
  pc \in {"encode", "console"} /\ arena # None => trig_at = arena.tag

\* cap_armed and the driver's trig_us agree between any two steps, and the camera then
\* holds, or is taking, that exposure and no other: ft_capture() never collects a frame
\* nobody triggered, and never restarts one that is in flight.
ArmedIsInFlight ==
  /\ armed <=> cam.trig # None
  /\ armed => cam.fifo # None /\ cam.fifo.tag = cam.trig

\* The schedule a frame is timed by is the whole of one earlier frame: never the front
\* of one and the back of another, although frames are dropped half way.
ScheduleIsOneFrame ==
  sched => \E p \in Paces : tail = Suffix(p)

\* A frame that is counted as one of 'M''s was taken from the source the camera is on,
\* however the overlap, the eager trigger and the retries place the exposures.
CountedIsOffTheSource ==
  pc = "console" /\ synth /\ announce = 0 => arena.synth = cam.source

=============================================================================
