------------------------------- MODULE Acquire -------------------------------
(***************************************************************************)
(* firmware/frame.c's ft_acquire() over cam.c: the camera is begun, its    *)
(* exposure is let settle, and one frame is kept, with a doubt or without. *)
(*                                                                         *)
(* A sensor that has been reset writes no frame until it has been left     *)
(* alone for as long as the room needs, and one triggered sooner stays     *)
(* blank until the next reset: the search for that quiet is issue #27.     *)
(* What comes back while it is blank is a constant fill.  A stall of the   *)
(* bus is sticky: until the next trigger every register access is lost.    *)
(* Time is in seconds, shorter delays rounded up or left out.              *)
(***************************************************************************)
EXTENDS Integers, Sequences, SequencesExt, FiniteSetsExt

CONSTANTS
  QuietMin, QuietMax,        \* FT_QUIET_MIN_MS, FT_QUIET_MAX_MS
  Budget,                    \* FT_RAMP_BUDGET_US
  RampFrames,                \* FT_RAMP_FRAMES
  Win, Floor, Moved, Drift,  \* SETTLE_WIN, FLOOR, MOVED, DRIFT
  WdLimit,                   \* FGX_WD_MS
  IdleLimit, DoneLimit,      \* how long cam_wait_idle() and cam_collect() poll
  Take,                      \* what a capture takes
  FillLuma,                  \* the luma of the constant fill
  Levels,                    \* the lumas of the frames a sensor writes
  Needs,                     \* the quiet a room may need
  MaxFaults,                 \* bound: faults an acquire meets
  None

ASSUME AcquireAssumption ==
  /\ {QuietMin, Budget, RampFrames, IdleLimit, DoneLimit, Take, FillLuma, MaxFaults} \subseteq Nat
  /\ {Floor, Moved, Drift, WdLimit} \subseteq Nat
  /\ QuietMax \in Nat /\ QuietMin <= QuietMax /\ Take <= DoneLimit
  /\ Win \in Nat \ {0} /\ Win % 2 = 0
  /\ Levels \subseteq Nat /\ Levels # {} /\ Needs \subseteq Nat
  /\ None \notin Nat /\ None \notin {"small", "bottom", "never moved", "still moving"}

\* What the comment on FT_QUIET_MAX_MS asks: one settle stays inside the watchdog, here with
\* the capture that contains it.
ASSUME TimesFit == QuietMax + DoneLimit < WdLimit

VARIABLES
  at,      \* where ft_acquire() is: "off", "begin", "rouse", "shoot", "judge", "keeper", "frame" or "none"
  cam,     \* the driver and the camera behind it
  need,    \* the quiet this room needs
  ramp,    \* ft_acquire()'s locals
  got,     \* the capture in the arena
  doubt,   \* acq_doubt
  now,     \* since the ramp began
  fed,     \* since the watchdog was fed
  faults,  \* the bound's counter
  shown,   \* history: the ramp's last Win captures
  reals    \* history: the lumas of its frames that were not constant

acquireVars == <<at, cam, need, ramp, got, doubt, now, fed, faults, shown, reals>>

\* What a sensor shows before anything has looked.
Unseen == CHOOSE l \in Levels : TRUE

\* last is last_fmt and last_mode, fault bus_fault.  Of the sensor: busy is a sensor that
\* never reports idle again, loops its automatic control, synth the test pattern of
\* register 0x06, fresh that it has not been triggered since its reset, awake that it
\* writes frames, small that the resolution is not its default VGA.
PowerOn ==
  [last |-> None, fault |-> FALSE, busy |-> FALSE, loops |-> FALSE, synth |-> FALSE,
   fresh |-> TRUE, awake |-> FALSE, small |-> FALSE, level |-> Unseen]

RampStart ==
  [warm |-> 0, first |-> None, hist |-> <<>>, rose |-> FALSE, converged |-> FALSE,
   recover |-> FALSE, quiet |-> QuietMin]

Nothing == [whole |-> FALSE, constant |-> FALSE, luma |-> 0]

-----------------------------------------------------------------------------
(***************************************************************************)
(* cam.c.  Each call gives the outcomes it may have: the driver and camera *)
(* after it, the time it took, and what it costs in faults.                *)
(***************************************************************************)
Done(c) == [cam |-> c, took |-> 0, cost |-> 0]
Stalled(c) == [cam |-> [c EXCEPT !.fault = TRUE], took |-> 0, cost |-> 1]

\* A wait on a sensor that is never idle runs out.
Waited(c, waits) == [cam |-> c, took |-> waits * IdleLimit, cost |-> 0]

SensorReset(c) ==
  {[c EXCEPT !.loops = FALSE, !.fresh = TRUE, !.awake = FALSE, !.small = FALSE, !.level = l] :
     l \in Levels}

\* Mutant: cam_begin() leaves the frame source as the last run left it.
Begun_SourceKept(c) == [c EXCEPT !.last = None]

\* What cam_begin() leaves when every write went out.
Begun(c) == [c EXCEPT !.synth = FALSE, !.last = None]

\* cam_begin(): the sensor reset, the identification, the frame source put back.
Begin(c) ==
  IF c.busy THEN {Waited([c EXCEPT !.last = None], 7)}
  ELSE IF c.fault THEN {Done([c EXCEPT !.last = None])}
  ELSE {Done(Begun(d)) : d \in SensorReset(c)}
         \cup {Stalled([d EXCEPT !.last = None]) : d \in {c} \cup SensorReset(c)}

\* cam_image_auto_mask(CAM_AUTO_ALL): the writes take, do not take (issue #33), or stall.
AutoAll(c) ==
  IF c.busy THEN {Waited(c, 3)}
  ELSE IF c.fault THEN {Done(c)}
  ELSE {Done([c EXCEPT !.loops = TRUE]), [Done(c) EXCEPT !.cost = 1], Stalled(c),
        Stalled([c EXCEPT !.loops = TRUE])}

\* cam_image_defaults(): the loops, then the white balance mode.
Defaults(c) ==
  IF c.busy THEN {Waited(c, 4)}
  ELSE AutoAll(c) \cup {Stalled(o.cam) : o \in {p \in AutoAll(c) : p.cost = 0}}

\* The FORMAT and CAPTURE_RESOLUTION writes of cam_trigger(), skipped when they are known.
Known(c, rewrite) == ~rewrite /\ c.last # None

\* The sensor when the FIFO is cleared and started after so long a settle.
Exposed(c, settle) ==
  LET writes == c.awake \/ (c.fresh /\ settle >= need)
  IN  {[c EXCEPT !.fresh = FALSE, !.awake = writes, !.level = l] :
         l \in IF writes /\ c.loops /\ ~c.synth THEN Levels ELSE {c.level}}

\* cam_trigger(): whether it armed anything, and what it leaves.
Trigger(c, rewrite, settle) ==
  LET clear == [c EXCEPT !.fault = FALSE]
      ready == IF Known(c, rewrite) THEN clear ELSE [clear EXCEPT !.last = "small", !.small = TRUE]
  IN  IF c.busy /\ ~Known(c, rewrite) THEN {[armed |-> FALSE, out |-> Waited(clear, 1)]}
      ELSE {[armed |-> TRUE, out |-> [Done(d) EXCEPT !.took = settle]] : d \in Exposed(ready, settle)}
             \cup {[armed |-> FALSE, out |-> [Stalled(d) EXCEPT !.took = settle]] : d \in {clear, ready}}

\* The pixels a capture reads out: a sensor that writes no frame leaves the fill.
Picture(c) ==
  [whole |-> c.small, constant |-> ~c.awake /\ ~c.synth,
   luma |-> IF c.awake \/ c.synth THEN c.level ELSE FillLuma]

\* cam_collect() of an armed capture: the frame; a fill, when the sensor has stopped
\* writing; nothing, when CAP_DONE is never asserted or the burst stalls.
Collect(o) ==
  LET c == o.cam
      blank == [c EXCEPT !.awake = FALSE]
      fail(d) == [got |-> Nothing, cam |-> d, took |-> o.took + DoneLimit, cost |-> o.cost + 1]
  IN  IF c.busy THEN {[fail(c) EXCEPT !.cost = o.cost]}
      ELSE {[got |-> Picture(c), cam |-> c, took |-> o.took + Take, cost |-> o.cost],
            [got |-> Picture(blank), cam |-> blank, took |-> o.took + Take, cost |-> o.cost + 1],
            fail(c), fail([c EXCEPT !.fault = TRUE])}

\* cam_capture()
Captures(c, rewrite, settle) ==
  UNION {IF t.armed THEN Collect(t.out)
         ELSE {[got |-> Nothing, cam |-> t.out.cam, took |-> t.out.took, cost |-> t.out.cost]} :
           t \in Trigger(c, rewrite, settle)}

-----------------------------------------------------------------------------
(***************************************************************************)
(* The judgement of one capture.                                           *)
(***************************************************************************)
Total(s) == FoldSeq(LAMBDA x, y : x + y, 0, s)
Apart(x, y) == Max({x - y, y - x})
Halves(s) == <<Total(SubSeq(s, 1, Win \div 2)), Total(SubSeq(s, Win \div 2 + 1, Win))>>
Steady(s) == Len(s) = Win /\ Apart(Halves(s)[1], Halves(s)[2]) <= Drift

\* The last Win of a sequence and one more.
Slide(s, x) == Append(IF Len(s) = Win THEN Tail(s) ELSE s, x)

\* Mutant: a blank frame leaves the window as it was.
Window_Kept(hist, g) == IF g.constant THEN hist ELSE Slide(hist, g.luma)

\* The window of the last lumas, reset by any blank frame.
Window(hist, g) == IF g.constant THEN <<>> ELSE Slide(hist, g.luma)

\* Mutant: the doubled quiet is not capped.
NextQuiet_Uncapped(r, g) == IF g.constant THEN 2 * r.quiet ELSE QuietMin

\* Doubled while the sensor writes nothing, the floor the moment it does.
NextQuiet(r, g) == IF g.constant THEN Min({2 * r.quiet, QuietMax}) ELSE QuietMin

\* The ramp's locals once g has been measured and before the re-issue of the loops.
Measured(r, g) ==
  LET first == IF ~g.constant /\ r.first = None THEN g.luma ELSE r.first
      rose == r.rose \/ (first # None /\ Apart(g.luma, first) > Moved)
      hist == Window(r.hist, g)
  IN  [r EXCEPT !.first = first, !.rose = rose, !.hist = hist,
                !.converged = Steady(hist) /\ g.luma >= Floor /\ rose]

\* Six real frames and the exposure has not moved: the loops are off (issue #33).
Unmoved(r, g) == ~g.constant /\ Len(r.hist) = Win /\ ~r.rose

\* Mutant: the budget is asked before the quiet it has to cover.
Spent_Late(t, quiet) == t > Budget

\* The budget covers the delay that is about to be taken.
Spent(t, quiet) == t + quiet > Budget

-----------------------------------------------------------------------------
(***************************************************************************)
(* ft_acquire().                                                           *)
(***************************************************************************)
Pay(o) ==
  /\ faults + o.cost <= MaxFaults
  /\ faults' = faults + o.cost
  /\ now' = now + o.took /\ fed' = fed + o.took

\* Called in a room of some darkness and light; the sensor's id is implausible, or it is begun.
AcquireStart ==
  /\ at = "off"
  /\ need' \in Needs /\ doubt' = None /\ now' = 0
  /\ cam' \in {[cam EXCEPT !.level = l] : l \in Levels}
  /\ \/ at' = "begin" /\ faults' = 0
     \/ at' = "none" /\ faults' = 1
  /\ UNCHANGED <<ramp, got, fed, shown, reals>>

\* cam_begin() and cam_image_defaults(), before the ramp's clock starts.
AcquireBegin ==
  /\ at = "begin"
  /\ \E b \in Begin(cam), d \in UNION {Defaults(o.cam) : o \in Begin(cam)} :
       /\ d \in Defaults(b.cam)
       /\ faults + b.cost + d.cost <= MaxFaults
       /\ cam' = d.cam /\ faults' = faults + b.cost + d.cost
       /\ fed' = fed + b.took + d.took
  /\ at' = "shoot"
  /\ UNCHANGED <<need, ramp, got, doubt, now, shown, reals>>

\* The recovery from a blank frame: reset, and the defaults the reset discards.
Rouse ==
  /\ at = "rouse"
  /\ \E b \in Begin(cam), d \in UNION {Defaults(o.cam) : o \in Begin(cam)} :
       /\ d \in Defaults(b.cam)
       /\ Pay([took |-> b.took + d.took, cost |-> b.cost + d.cost])
       /\ cam' = d.cam
  /\ at' = "shoot"
  /\ UNCHANGED <<need, ramp, got, doubt, shown, reals>>

\* Mutant: the settle is a sleep before the capture, not inside the trigger.
Settle_Outside(r) == 0

\* What ramp.settle_ms asks of a recovery.
Settle(r) == IF r.recover THEN r.quiet ELSE 0

\* One capture; anything but a whole frame ends the ramp.
Shoot ==
  /\ at = "shoot"
  /\ \E o \in Captures(cam, ramp.recover, Settle(ramp)) :
       /\ Pay(o) /\ cam' = o.cam /\ got' = o.got
       /\ at' = IF o.got.whole THEN "judge" ELSE "none"
  /\ UNCHANGED <<need, ramp, doubt, shown, reals>>

\* A ramp that has stopped keeps a frame at 16 MHz unless the last one was constant.
Stop == at' = IF got.constant THEN "none" ELSE "keeper"

\* The rest of the loop's body: the watchdog is fed, the frame is measured, and the ramp
\* converges, runs out, or goes on after the loops are re-issued where it must.
Judge ==
  LET measured == Measured(ramp, got)
      lit == Unmoved(measured, got)
      next == [measured EXCEPT !.hist = IF lit THEN <<>> ELSE @, !.first = IF lit THEN None ELSE @,
                               !.recover = got.constant, !.quiet = NextQuiet(ramp, got),
                               !.warm = @ + 1]
  IN  /\ at = "judge"
      /\ shown' = Slide(shown, IF got.constant THEN None ELSE got.luma)
      /\ reals' = IF got.constant THEN reals ELSE reals \cup {got.luma}
      /\ IF measured.converged
         THEN /\ ramp' = measured /\ fed' = 0 /\ at' = "keeper"
              /\ UNCHANGED <<cam, now, faults>>
         ELSE \E o \in IF lit THEN AutoAll(cam) ELSE {Done(cam)} :
                LET t == now + o.took
                    ends == Spent(t, next.quiet) \/ next.warm = RampFrames
                    slept == IF Spent(t, next.quiet) \/ next.recover THEN 0 ELSE next.quiet
                IN  /\ faults + o.cost <= MaxFaults
                    /\ ramp' = next /\ cam' = o.cam /\ faults' = faults + o.cost
                    /\ now' = t + slept /\ fed' = o.took + slept
                    /\ IF ends THEN Stop ELSE at' = IF next.recover THEN "rouse" ELSE "shoot"
      /\ UNCHANGED <<need, got, doubt>>

\* Why the frame kept is doubted, most specific first.
Doubt(r, g) ==
  IF g.luma < Floor THEN "bottom" ELSE IF ~r.rose THEN "never moved"
  ELSE IF ~r.converged THEN "still moving" ELSE None

\* ft_capture() at 16 MHz, which writes no registers.
Keep ==
  /\ at = "keeper"
  /\ \E o \in Captures(cam, FALSE, 0) :
       /\ Pay(o) /\ cam' = o.cam /\ got' = o.got
       /\ IF o.got.whole /\ ~o.got.constant
          THEN at' = "frame" /\ doubt' = Doubt(ramp, o.got)
          ELSE at' = "none" /\ UNCHANGED doubt
  /\ UNCHANGED <<need, ramp, shown, reals>>

AcquireNext == AcquireBegin \/ Rouse \/ Shoot \/ Judge \/ Keep

-----------------------------------------------------------------------------
Confident == at = "frame" /\ doubt = None

(***************************************************************************)
(* A frame returned without a doubt follows a window of frames in a row,   *)
(* none of them constant and none before a recovery, whose two halves      *)
(* agree and whose last is off the sensor's floor.                         *)
(***************************************************************************)
ConfidentIsSettled ==
  Confident =>
    /\ None \notin ToSet(shown) /\ Steady(shown) /\ Last(shown) >= Floor
    /\ got.luma >= Floor

(***************************************************************************)
(* A camera nothing went wrong with is acquired whatever state the last    *)
(* run left it in and however dark the room, short of one that needs a     *)
(* longer quiet than the search tries, and the frame is the sensor's own   *)
(* with its loops on (issues #27, #29 and the frame source).               *)
(***************************************************************************)
WorkingCameraIsAcquired ==
  faults = 0 /\ ~cam.busy /\ need <= QuietMax =>
    /\ at # "none"
    /\ at = "frame" => cam.loops /\ ~cam.synth

(***************************************************************************)
(* ft_acquire() keeps its time: the search for a quiet and the ramp never  *)
(* let the watchdog run out, only a sensor that stops reporting idle does, *)
(* and the ramp is over one capture after its budget.                      *)
(***************************************************************************)
KeepsItsTime ==
  at # "off" /\ ~cam.busy =>
    /\ fed < WdLimit
    /\ now <= Budget + Take + DoneLimit

(***************************************************************************)
(* What acq_doubt's absence says by its comment: the exposure moved from   *)
(* its first real reading.                                                 *)
(***************************************************************************)
ConfidentMeansMoved ==
  Confident => \E x, y \in reals : Apart(x, y) > Moved
=============================================================================
