----------------------------- MODULE BootProofs -----------------------------
(***************************************************************************)
(* Theorems about Boot, for every time limit, room, rate and rail.  The    *)
(* four arguments are independent of each other: the hunt's register is    *)
(* the last four bytes heard, the rail is raised before the clock and      *)
(* lowered after it, what ft_acquire() keeps of its captures is the end of *)
(* what it was shown, and a search that finds no quiet has tried every     *)
(* rung of the ladder of them.                                             *)
(***************************************************************************)
EXTENDS Boot, SequenceTheorems, TLAPS

-----------------------------------------------------------------------------
(***************************************************************************)
(* cam.c and ft_acquire(): what each call may leave and how long it may    *)
(* take, the limits of the search for a quiet, and what the window of      *)
(* lumas is.                                                               *)
(***************************************************************************)

\* The driver and the camera, and a capture.
Camera ==
  [last : {None, "small"}, fault : BOOLEAN, busy : BOOLEAN, loops : BOOLEAN, synth : BOOLEAN,
   fresh : BOOLEAN, awake : BOOLEAN, small : BOOLEAN, level : Levels]

Capture == [whole : BOOLEAN, constant : BOOLEAN, luma : Nat]

\* A call on the registers of c: it wedges nothing, and without a wedged sensor its time is
\* rounded to none.
Writes(c) ==
  {o \in [cam : Camera, took : Nat, cost : Nat] :
     o.cam.busy = c.busy /\ (~c.busy => o.took = 0)}

\* A capture that settles for so long.
Shots(c, settle) ==
  {o \in [got : Capture, cam : Camera, took : Nat, cost : Nat] :
     /\ o.cam.busy = c.busy
     /\ ~c.busy => /\ o.took <= settle + DoneLimit
                   /\ o.got.whole => o.took = settle + Take}

\* The constants as members.
LEMMA Constants_ ==
  /\ QuietMin \in Nat /\ QuietMax \in Nat /\ Budget \in Nat /\ RampFrames \in Nat
  /\ IdleLimit \in Nat /\ DoneLimit \in Nat /\ Take \in Nat /\ FillLuma \in Nat
  /\ MaxFaults \in Nat /\ Floor \in Nat /\ Moved \in Nat /\ Drift \in Nat /\ WdLimit \in Nat
  /\ QuietMin <= QuietMax /\ Take <= DoneLimit /\ Win \in Nat /\ Win > 0
  /\ Levels \subseteq Nat /\ QuietMax + DoneLimit < WdLimit
<1>1. /\ QuietMin \in Nat /\ QuietMax \in Nat /\ Budget \in Nat /\ RampFrames \in Nat
      /\ IdleLimit \in Nat /\ DoneLimit \in Nat /\ Take \in Nat /\ FillLuma \in Nat
  BY AcquireAssumption, Zenon
<1>2. MaxFaults \in Nat /\ Floor \in Nat /\ Moved \in Nat /\ Drift \in Nat /\ WdLimit \in Nat
  BY AcquireAssumption, Zenon
<1>3. QuietMin <= QuietMax /\ Take <= DoneLimit /\ Levels \subseteq Nat
  BY AcquireAssumption, Zenon
<1>4. Win \in Nat /\ Win # 0
  BY AcquireAssumption, Zenon
<1>5. QuietMax + DoneLimit < WdLimit
  BY TimesFit
<1> QED
  BY <1>1, <1>2, <1>3, <1>4, <1>5

\* The camera out of the plug.
LEMMA PowerOnIsCamera == PowerOn \in Camera
<1>1. Unseen \in Levels
  BY AcquireAssumption DEF Unseen
<1> QED
  BY <1>1 DEF PowerOn, Camera

\* A call that went out, and one that stalled.
LEMMA OneWrite ==
  ASSUME NEW c \in Camera, NEW d \in Camera, d.busy = c.busy
  PROVE  Done(d) \in Writes(c) /\ Stalled(d) \in Writes(c)
BY DEF Done, Stalled, Writes, Camera

\* A wait that runs out.
LEMMA OneWait ==
  ASSUME NEW c \in Camera, c.busy, NEW d \in Camera, d.busy = c.busy, NEW n \in Nat
  PROVE  Waited(d, n) \in Writes(c)
<1>1. n * IdleLimit \in Nat
  BY Constants_
<1> QED
  BY <1>1 DEF Waited, Writes, Camera

\* The reset of the sensor.
LEMMA ResetIsCamera ==
  ASSUME NEW c \in Camera
  PROVE  \A d \in SensorReset(c) : d \in Camera /\ d.busy = c.busy
<1> DEFINE after(l) ==
  [c EXCEPT !.loops = FALSE, !.fresh = TRUE, !.awake = FALSE, !.small = FALSE, !.level = l]
<1>1. \A l \in Levels : after(l) \in Camera /\ after(l).busy = c.busy
  BY DEF Camera
<1>2. SensorReset(c) = {after(l) : l \in Levels}
  BY DEF SensorReset
<1> HIDE DEF after
<1> QED
  BY <1>1, <1>2

\* cam_begin()
LEMMA BeginWrites ==
  ASSUME NEW c \in Camera
  PROVE  Begin(c) \subseteq Writes(c)
<1>1. \A d \in {c} \cup SensorReset(c) :
        /\ [d EXCEPT !.last = None] \in Camera /\ [d EXCEPT !.last = None].busy = c.busy
        /\ Begun(d) \in Camera /\ Begun(d).busy = c.busy
  BY ResetIsCamera DEF Camera, Begun
<1>2. CASE c.busy
  BY <1>1, <1>2, OneWait DEF Begin
<1>3. CASE ~c.busy
  BY <1>1, <1>3, OneWrite DEF Begin
<1> QED
  BY <1>2, <1>3

\* cam_image_auto_mask()
LEMMA AutoAllWrites ==
  ASSUME NEW c \in Camera
  PROVE  AutoAll(c) \subseteq Writes(c)
<1>1. [c EXCEPT !.loops = TRUE] \in Camera /\ [c EXCEPT !.loops = TRUE].busy = c.busy
  BY DEF Camera
<1>2. Done(c) \in Writes(c) /\ [Done(c) EXCEPT !.cost = 1] \in Writes(c)
  BY OneWrite DEF Writes, Done, Camera
<1>3. CASE c.busy
  BY <1>3, OneWait DEF AutoAll
<1>4. CASE ~c.busy
  BY <1>1, <1>2, <1>4, OneWrite DEF AutoAll
<1> QED
  BY <1>3, <1>4

\* cam_image_defaults()
LEMMA DefaultsWrites ==
  ASSUME NEW c \in Camera
  PROVE  Defaults(c) \subseteq Writes(c)
<1>1. CASE c.busy
  BY <1>1, OneWait DEF Defaults
<1>2. CASE ~c.busy
  <2>1. \A o \in AutoAll(c) : o.cam \in Camera /\ o.cam.busy = c.busy
    BY AutoAllWrites DEF Writes
  <2>2. \A o \in AutoAll(c) : Stalled(o.cam) \in Writes(c)
    BY <2>1, OneWrite
  <2> QED
    BY <1>2, <2>2, AutoAllWrites DEF Defaults
<1> QED
  BY <1>1, <1>2

\* cam_trigger()
LEMMA TriggerWrites ==
  ASSUME NEW c \in Camera, NEW rewrite \in BOOLEAN, NEW settle \in Nat,
         NEW t \in Trigger(c, rewrite, settle)
  PROVE  /\ t.armed \in BOOLEAN /\ t.out \in [cam : Camera, took : Nat, cost : Nat]
         /\ t.out.cam.busy = c.busy
         /\ ~c.busy => t.out.took = settle
<1> DEFINE clear == [c EXCEPT !.fault = FALSE]
           ready == IF Known(c, rewrite) THEN clear
                    ELSE [clear EXCEPT !.last = "small", !.small = TRUE]
<1>1. clear \in Camera /\ clear.busy = c.busy /\ ready \in Camera /\ ready.busy = c.busy
  BY DEF Camera
<1>2. \A d \in Exposed(ready, settle) : d \in Camera /\ d.busy = c.busy
  <2> HIDE DEF ready
  <2>1. ready.level \in Levels
    BY <1>1 DEF Camera
  <2>2. \A b \in BOOLEAN, l \in Levels :
          LET d == [ready EXCEPT !.fresh = FALSE, !.awake = b, !.level = l]
          IN  d \in Camera /\ d.busy = c.busy
    BY <1>1 DEF Camera
  <2>3. (ready.awake \/ (ready.fresh /\ settle >= need)) \in BOOLEAN
    OBVIOUS
  <2> QED
    BY <2>1, <2>2, <2>3 DEF Exposed
<1>3. Trigger(c, rewrite, settle) =
        IF c.busy /\ ~Known(c, rewrite) THEN {[armed |-> FALSE, out |-> Waited(clear, 1)]}
        ELSE {[armed |-> TRUE, out |-> [Done(d) EXCEPT !.took = settle]] : d \in Exposed(ready, settle)}
               \cup {[armed |-> FALSE, out |-> [Stalled(d) EXCEPT !.took = settle]] : d \in {clear, ready}}
  BY DEF Trigger
<1> HIDE DEF clear, ready
<1>4. CASE c.busy /\ ~Known(c, rewrite)
  <2>1. t.armed = FALSE /\ t.out = Waited(clear, 1)
    BY <1>3, <1>4
  <2>2. Waited(clear, 1) \in Writes(c)
    BY <1>1, <1>4, OneWait
  <2> QED
    BY <1>4, <2>1, <2>2 DEF Writes
<1>5. CASE ~(c.busy /\ ~Known(c, rewrite))
  <2>1. \E d \in Exposed(ready, settle) \cup {clear, ready} :
          \/ t = [armed |-> TRUE, out |-> [Done(d) EXCEPT !.took = settle]]
          \/ t = [armed |-> FALSE, out |-> [Stalled(d) EXCEPT !.took = settle]]
    BY <1>3, <1>5
  <2>2. PICK d \in Camera :
          /\ d.busy = c.busy
          /\ \/ t = [armed |-> TRUE, out |-> [Done(d) EXCEPT !.took = settle]]
             \/ t = [armed |-> FALSE, out |-> [Stalled(d) EXCEPT !.took = settle]]
    BY <1>1, <1>2, <2>1
  <2>3. /\ [d EXCEPT !.fault = TRUE] \in Camera
        /\ [d EXCEPT !.fault = TRUE].busy = c.busy
    BY <2>2 DEF Camera
  <2>4. CASE t = [armed |-> TRUE, out |-> [Done(d) EXCEPT !.took = settle]]
    <3>1. t.armed = TRUE /\ t.out = [cam |-> d, took |-> settle, cost |-> 0]
      BY <2>4 DEF Done
    <3>2. t.armed \in BOOLEAN
      BY <3>1, Zenon
    <3>3. t.out \in [cam : Camera, took : Nat, cost : Nat] /\ t.out.cam = d /\ t.out.took = settle
      BY <3>1
    <3> QED
      BY <2>2, <3>2, <3>3, Zenon
  <2>5. CASE t = [armed |-> FALSE, out |-> [Stalled(d) EXCEPT !.took = settle]]
    <3>1. t.armed = FALSE /\ t.out = [cam |-> [d EXCEPT !.fault = TRUE], took |-> settle, cost |-> 1]
      BY <2>5 DEF Stalled
    <3>2. t.armed \in BOOLEAN
      BY <3>1, Zenon
    <3>3. /\ t.out \in [cam : Camera, took : Nat, cost : Nat]
          /\ t.out.cam.busy = c.busy /\ t.out.took = settle
      <4> DEFINE stuck == [d EXCEPT !.fault = TRUE]
      <4>1. stuck \in Camera /\ stuck.busy = c.busy
        BY <2>3
      <4>2. t.out = [cam |-> stuck, took |-> settle, cost |-> 1]
        BY <3>1
      <4> HIDE DEF stuck
      <4> QED
        BY <4>1, <4>2
    <3> QED
      BY <3>2, <3>3, Zenon
  <2> QED
    BY <2>2, <2>4, <2>5
<1> QED
  BY <1>4, <1>5

\* cam_capture()
LEMMA CapturesShots ==
  ASSUME NEW c \in Camera, NEW rewrite \in BOOLEAN, NEW settle \in Nat
  PROVE  Captures(c, rewrite, settle) \subseteq Shots(c, settle)
<1>1. Nothing \in Capture /\ ~Nothing.whole
  BY DEF Nothing, Capture
<1>2. \A d \in Camera : Picture(d) \in Capture
  BY Constants_ DEF Picture, Capture, Camera
<1>3. ASSUME NEW o \in [cam : Camera, took : Nat, cost : Nat], o.cam.busy = c.busy,
             ~c.busy => o.took = settle
      PROVE  Collect(o) \subseteq Shots(c, settle)
  <2> DEFINE blank == [o.cam EXCEPT !.awake = FALSE]
             stuck == [o.cam EXCEPT !.fault = TRUE]
             fail(d) == [got |-> Nothing, cam |-> d, took |-> o.took + DoneLimit, cost |-> o.cost + 1]
             seen(d, n) == [got |-> Picture(d), cam |-> d, took |-> o.took + Take, cost |-> n]
  <2>1. \A d \in {o.cam, blank, stuck} : d \in Camera /\ d.busy = c.busy
    BY <1>3 DEF Camera
  <2>2. \A d \in {o.cam, blank, stuck} :
          /\ fail(d) \in Shots(c, settle) /\ [fail(d) EXCEPT !.cost = o.cost] \in Shots(c, settle)
          /\ \A n \in Nat : seen(d, n) \in Shots(c, settle)
    <3> SUFFICES ASSUME NEW d \in Camera, d.busy = c.busy
                 PROVE  /\ fail(d) \in Shots(c, settle)
                        /\ [fail(d) EXCEPT !.cost = o.cost] \in Shots(c, settle)
                        /\ \A n \in Nat : seen(d, n) \in Shots(c, settle)
      BY <2>1
    <3>1. o.took \in Nat /\ o.cost \in Nat /\ o.took + DoneLimit \in Nat /\ o.cost + 1 \in Nat
          /\ o.took + Take \in Nat /\ o.took + Take <= o.took + DoneLimit
      BY Constants_
    <3>2. Picture(d) \in Capture
      BY <1>2
    <3>3. fail(d) \in Shots(c, settle)
      BY <1>1, <1>3, <3>1 DEF Shots
    <3>4. [fail(d) EXCEPT !.cost = o.cost] \in Shots(c, settle)
      BY <1>1, <1>3, <3>1 DEF Shots
    <3>5. \A n \in Nat : seen(d, n) \in Shots(c, settle)
      BY <1>3, <3>1, <3>2 DEF Shots
    <3> QED
      BY <3>3, <3>4, <3>5
  <2>3. Collect(o) \subseteq {[fail(o.cam) EXCEPT !.cost = o.cost], seen(o.cam, o.cost),
                              seen(blank, o.cost + 1), fail(o.cam), fail(stuck)}
    BY DEF Collect
  <2>4. o.cost \in Nat /\ o.cost + 1 \in Nat
    OBVIOUS
  <2> HIDE DEF fail, seen, blank, stuck
  <2> QED
    BY <2>2, <2>3, <2>4
<1>4. ASSUME NEW t \in Trigger(c, rewrite, settle), ~t.armed
      PROVE  [got |-> Nothing, cam |-> t.out.cam, took |-> t.out.took, cost |-> t.out.cost]
               \in Shots(c, settle)
  BY <1>1, <1>4, TriggerWrites, Constants_ DEF Shots
<1> QED
  BY <1>3, <1>4, TriggerWrites DEF Captures

-----------------------------------------------------------------------------
\* h is the end of s.
Ends(h, s) ==
  /\ Len(h) <= Len(s)
  /\ \A i \in 1 .. Len(h) : h[i] = s[Len(s) - Len(h) + i]

\* t is the last Win of s and x.
Slid(t, s, x) ==
  /\ Len(t) = (IF Len(s) = Win THEN Win ELSE Len(s) + 1)
  /\ t[Len(t)] = x
  /\ \A i \in 1 .. Len(t) - 1 : t[i] = IF Len(s) = Win THEN s[i + 1] ELSE s[i]

\* What Slide makes.
LEMMA SlideLength ==
  ASSUME NEW S, NEW s \in Seq(S), Len(s) <= Win, NEW x \in S
  PROVE  Slide(s, x) \in Seq(S) /\ Len(Slide(s, x)) <= Win /\ Slid(Slide(s, x), s, x)
<1> DEFINE t == IF Len(s) = Win THEN Tail(s) ELSE s
<1>1. Win \in Nat /\ Win > 0
  BY Constants_
<1>2. /\ t \in Seq(S) /\ Len(t) = (IF Len(s) = Win THEN Win - 1 ELSE Len(s))
      /\ \A i \in 1 .. Len(t) : t[i] = IF Len(s) = Win THEN s[i + 1] ELSE s[i]
  BY <1>1
<1>3. Slide(s, x) = Append(t, x)
  BY DEF Slide
<1> HIDE DEF t
<1>4. /\ Append(t, x) \in Seq(S) /\ Len(Append(t, x)) = Len(t) + 1
      /\ \A i \in 1 .. Len(t) : Append(t, x)[i] = t[i]
      /\ Append(t, x)[Len(t) + 1] = x
  BY <1>2, AppendProperties
<1> QED
  BY <1>1, <1>2, <1>3, <1>4 DEF Slid

\* The elements of a and b, slid from h and s, agree from the end where those of h and s do.
LEMMA SlidAgree ==
  ASSUME NEW n \in Nat, NEW m \in Nat, m <= Win,
         NEW h, n = Len(h), NEW s, m = Len(s), Ends(h, s),
         NEW x, NEW a, Slid(a, h, x), NEW b, Slid(b, s, x)
  PROVE  Ends(a, b)
<1>0. n <= m /\ \A i \in 1 .. n : h[i] = s[m - n + i]
  BY DEF Ends
<1>1. Win \in Nat /\ Win > 0
  BY Constants_
<1>2. CASE n = Win
  <2>1. m = Win /\ Len(a) = Win /\ Len(b) = Win
    BY <1>0, <1>1, <1>2 DEF Slid
  <2>2. ASSUME NEW i \in 1 .. Win PROVE a[i] = b[i]
    <3>1. CASE i = Win
      BY <2>1, <3>1 DEF Slid
    <3>2. CASE i # Win
      <4>1. i \in 1 .. Win - 1 /\ i + 1 \in 1 .. n /\ m - n + (i + 1) = i + 1
        BY <1>0, <1>1, <1>2, <2>1, <3>2
      <4>2. a[i] = h[i + 1] /\ b[i] = s[i + 1]
        BY <1>2, <2>1, <4>1 DEF Slid
      <4>3. h[i + 1] = s[m - n + (i + 1)]
        BY <1>0, <4>1
      <4> QED
        BY <4>1, <4>2, <4>3
    <3> QED
      BY <3>1, <3>2
  <2> QED
    BY <1>1, <2>1, <2>2 DEF Ends
<1>3. CASE n # Win /\ m = Win
  <2>1. Len(a) = n + 1 /\ Len(b) = Win /\ n + 1 <= Win
    BY <1>0, <1>1, <1>3 DEF Slid
  <2>2. ASSUME NEW i \in 1 .. n + 1 PROVE a[i] = b[Win - (n + 1) + i]
    <3>1. CASE i = n + 1
      <4>1. Win - (n + 1) + i = Win
        BY <1>1, <3>1
      <4> QED
        BY <2>1, <3>1, <4>1 DEF Slid
    <3>2. CASE i # n + 1
      <4>1. /\ i \in 1 .. n /\ Win - (n + 1) + i \in 1 .. Win - 1
            /\ (Win - (n + 1) + i) + 1 = m - n + i
        BY <1>0, <1>1, <1>3, <2>1, <3>2
      <4>2. a[i] = h[i] /\ b[Win - (n + 1) + i] = s[(Win - (n + 1) + i) + 1]
        BY <1>3, <2>1, <4>1 DEF Slid
      <4> QED
        BY <1>0, <4>1, <4>2
    <3> QED
      BY <3>1, <3>2
  <2> QED
    BY <1>0, <1>1, <2>1, <2>2 DEF Ends
<1>4. CASE m # Win
  <2>1. Len(a) = n + 1 /\ Len(b) = m + 1 /\ n # Win
    BY <1>0, <1>1, <1>4 DEF Slid
  <2>2. ASSUME NEW i \in 1 .. n + 1 PROVE a[i] = b[(m + 1) - (n + 1) + i]
    <3>1. CASE i = n + 1
      <4>1. (m + 1) - (n + 1) + i = m + 1
        BY <3>1
      <4> QED
        BY <2>1, <3>1, <4>1 DEF Slid
    <3>2. CASE i # n + 1
      <4>1. i \in 1 .. n /\ (m + 1) - (n + 1) + i = m - n + i /\ m - n + i \in 1 .. m
        BY <1>0, <3>2
      <4>2. a[i] = h[i] /\ b[m - n + i] = s[m - n + i]
        BY <1>4, <2>1, <4>1 DEF Slid
      <4> QED
        BY <1>0, <4>1, <4>2
    <3> QED
      BY <3>1, <3>2
  <2> QED
    BY <1>0, <1>1, <2>1, <2>2 DEF Ends
<1> QED
  BY <1>2, <1>3, <1>4

\* A window and a history that slide by the same luma stay so.
LEMMA SlideEnds ==
  ASSUME NEW h \in Seq(Nat), NEW s \in Seq(Nat \cup {None}), Len(s) <= Win, Ends(h, s), NEW x \in Nat
  PROVE  Ends(Slide(h, x), Slide(s, x))
<1>1. /\ Len(h) \in Nat /\ Len(s) \in Nat /\ Len(h) <= Len(s) /\ Len(h) <= Win
      /\ \A i \in 1 .. Len(h) : h[i] = s[Len(s) - Len(h) + i]
  BY Constants_ DEF Ends
<1>2. x \in Nat \cup {None}
  OBVIOUS
<1>3. Slid(Slide(h, x), h, x)
  BY <1>1, SlideLength, Zenon
<1>4. Slid(Slide(s, x), s, x)
  BY <1>2, SlideLength, Zenon
<1> QED
  BY <1>1, <1>3, <1>4, SlidAgree, Zenon

\* A whole window is all of the history.
LEMMA WholeWindow ==
  ASSUME NEW h \in Seq(Nat), NEW s \in Seq(Nat \cup {None}), Len(s) <= Win, Ends(h, s), Len(h) = Win
  PROVE  s = h
<1>1. h \in Seq(Nat \cup {None})
  OBVIOUS
<1>2. Len(s) = Len(h) /\ \A i \in 1 .. Len(s) : s[i] = h[i]
  BY Constants_ DEF Ends
<1> QED
  BY <1>1, <1>2, SeqEqual

-----------------------------------------------------------------------------
\* A window of lumas, and ft_acquire()'s locals.
Windows == {h \in Seq(Nat) : Len(h) <= Win}

Ramp ==
  [warm : Nat, first : Nat \cup {None}, hist : Windows, rose : BOOLEAN, converged : BOOLEAN,
   recover : BOOLEAN, quiet : QuietMin .. QuietMax]

\* Types, and the length of the history.
AcqType ==
  /\ cam \in Camera /\ ramp \in Ramp /\ got \in Capture /\ now \in Nat /\ fed \in Nat
  /\ shown \in Seq(Nat \cup {None}) /\ Len(shown) <= Win
  /\ at \in {"off", "begin", "rouse", "shoot", "judge", "keeper", "frame", "none"}
  /\ at \in {"off", "begin"} => ramp = RampStart

\* What is left of the budget and of the watchdog at each step of the ramp, unless the
\* sensor has wedged.
TimeInv ==
  ~cam.busy =>
    /\ at = "begin" => now = 0 /\ fed = 0
    /\ at = "rouse" => fed = 0 /\ now + ramp.quiet <= Budget
    /\ at = "shoot" => now + Settle(ramp) <= Budget /\ fed + Settle(ramp) <= QuietMax
    /\ at = "judge" => now <= Budget + Take /\ fed <= QuietMax + Take
    /\ at = "keeper" => now <= Budget + Take /\ fed <= QuietMax
    /\ at \in {"frame", "none"} => now <= Budget + Take + DoneLimit /\ fed <= QuietMax + DoneLimit

\* The window is the end of what was shown; the ramp that converged is over, its window
\* steady and off the floor; and a frame without a doubt is one of such a ramp.
SettleInv ==
  /\ Ends(ramp.hist, shown)
  /\ ramp.converged =>
       /\ at \in {"keeper", "frame", "none"}
       /\ Steady(ramp.hist) /\ ramp.hist[Len(ramp.hist)] >= Floor
  /\ Confident => ramp.converged /\ got.luma >= Floor

AcqInv == AcqType /\ TimeInv /\ SettleInv

\* The smaller and the larger of two numbers.
LEMMA MinOfTwo ==
  ASSUME NEW a \in Nat, NEW b \in Nat
  PROVE  Min({a, b}) = IF a <= b THEN a ELSE b
BY DEF Min

LEMMA MaxOfTwo ==
  ASSUME NEW a \in Nat, NEW b \in Nat
  PROVE  Max({a, b}) = IF a >= b THEN a ELSE b
BY DEF Max

\* No search asks for less than the floor or more than the limit.
LEMMA QuietInRange ==
  ASSUME NEW r \in Ramp, NEW g \in Capture
  PROVE  NextQuiet(r, g) \in QuietMin .. QuietMax
<1>1. r.quiet \in QuietMin .. QuietMax
  BY DEF Ramp
<1>2. QuietMin \in Nat /\ QuietMax \in Nat /\ QuietMin <= QuietMax
  BY Constants_
<1>3. r.quiet \in Nat /\ 2 * r.quiet \in Nat /\ 2 * r.quiet >= QuietMin
  BY <1>1, <1>2
<1>4. Min({2 * r.quiet, QuietMax}) = IF 2 * r.quiet <= QuietMax THEN 2 * r.quiet ELSE QuietMax
  BY <1>2, <1>3, MinOfTwo
<1> QED
  BY <1>2, <1>3, <1>4 DEF NextQuiet

\* The window after one more capture.
LEMMA WindowIsWindow ==
  ASSUME NEW h \in Windows, NEW g \in Capture
  PROVE  Window(h, g) \in Windows
<1>1. g.luma \in Nat /\ h \in Seq(Nat) /\ Len(h) <= Win
  BY DEF Capture, Windows
<1>2. Slide(h, g.luma) \in Seq(Nat) /\ Len(Slide(h, g.luma)) <= Win
  BY <1>1, SlideLength
<1>3. <<>> \in Seq(Nat) /\ Len(<<>>) <= Win
  BY Constants_
<1> QED
  BY <1>2, <1>3 DEF Window, Windows

\* The locals after one more capture.
LEMMA MeasuredRamp ==
  ASSUME NEW r \in Ramp, NEW g \in Capture
  PROVE  /\ Measured(r, g) \in Ramp
         /\ Measured(r, g).hist = Window(r.hist, g)
         /\ Measured(r, g).converged =>
              /\ Steady(Window(r.hist, g)) /\ g.luma >= Floor
              /\ ~g.constant
              /\ Window(r.hist, g)[Len(Window(r.hist, g))] = g.luma
<1> DEFINE first == IF ~g.constant /\ r.first = None THEN g.luma ELSE r.first
           rose == r.rose \/ (first # None /\ Apart(g.luma, first) > Moved)
           hist == Window(r.hist, g)
           settled == Steady(hist) /\ g.luma >= Floor /\ rose
<1>1. r.hist \in Windows /\ r.rose \in BOOLEAN /\ r.first \in Nat \cup {None}
  BY DEF Ramp
<1>2. g.luma \in Nat /\ g.constant \in BOOLEAN
  BY DEF Capture
<1>3. first \in Nat \cup {None} /\ hist \in Windows
  BY <1>1, <1>2, WindowIsWindow
<1>4. rose \in BOOLEAN /\ settled \in BOOLEAN
  <2> HIDE DEF first, hist
  <2>1. rose \in BOOLEAN
    BY <1>1, Zenon
  <2>2. Steady(hist) \in BOOLEAN
    BY Zenon DEF Steady
  <2> HIDE DEF rose
  <2> QED
    BY <2>1, <2>2, Zenon
<1>5. Measured(r, g) =
        [r EXCEPT !.first = first, !.rose = rose, !.hist = hist, !.converged = settled]
  BY DEF Measured
<1> HIDE DEF first, rose, settled
<1>6. settled => Steady(hist) /\ g.luma >= Floor
  BY DEF settled
<1>7. Steady(hist) => ~g.constant /\ hist[Len(hist)] = g.luma
  <2> SUFFICES ASSUME Steady(hist) PROVE ~g.constant /\ hist[Len(hist)] = g.luma
    OBVIOUS
  <2>1. Len(hist) = Win /\ Win > 0
    BY Constants_ DEF Steady
  <2>2. ~g.constant
    BY <2>1 DEF Window
  <2>3. hist = Slide(r.hist, g.luma)
    BY <2>2 DEF Window
  <2>4. r.hist \in Seq(Nat) /\ Len(r.hist) <= Win
    BY <1>1 DEF Windows
  <2>5. Slid(Slide(r.hist, g.luma), r.hist, g.luma)
    BY <1>2, <2>4, SlideLength
  <2> HIDE DEF hist
  <2> QED
    BY <2>2, <2>3, <2>5 DEF Slid
<1> HIDE DEF hist
<1>8. Measured(r, g) \in Ramp /\ Measured(r, g).hist = hist /\ Measured(r, g).converged = settled
  BY <1>3, <1>4, <1>5 DEF Ramp
<1> QED
  BY <1>6, <1>7, <1>8 DEF hist

-----------------------------------------------------------------------------
\* What the start of the ramp is.
LEMMA RampStarts ==
  /\ RampStart \in Ramp /\ ~RampStart.converged /\ RampStart.hist = <<>> /\ Settle(RampStart) = 0
<1>1. <<>> \in Windows
  BY Constants_ DEF Windows
<1>2. QuietMin \in QuietMin .. QuietMax
  BY Constants_
<1> QED
  BY <1>1, <1>2 DEF RampStart, Ramp, Settle

\* What a settle is.
LEMMA SettleIsTime ==
  ASSUME NEW r \in Ramp
  PROVE  /\ Settle(r) \in Nat /\ Settle(r) <= r.quiet
         /\ r.quiet \in Nat /\ r.quiet <= QuietMax /\ r.recover \in BOOLEAN
BY Constants_ DEF Ramp, Settle

LEMMA StartKeeps == AcqInv /\ at = "off" /\ fed = 0 /\ AcquireStart => AcqInv'
<1> SUFFICES ASSUME AcqInv, at = "off", fed = 0, AcquireStart PROVE AcqInv'
  OBVIOUS
<1>1. /\ at' \in {"begin", "none"} /\ now' = 0 /\ doubt' = None
      /\ UNCHANGED <<ramp, got, fed, shown>>
  BY DEF AcquireStart
<1>2. ramp = RampStart
  BY DEF AcqInv, AcqType
<1>3. cam' \in Camera
  <2>1. PICK l \in Levels : cam' = [cam EXCEPT !.level = l]
    BY DEF AcquireStart
  <2> QED
    BY <2>1 DEF AcqInv, AcqType, Camera
<1>4. AcqType'
  BY <1>1, <1>2, <1>3 DEF AcqInv, AcqType
<1>5. TimeInv'
  BY <1>1, Constants_ DEF TimeInv
<1>6. SettleInv'
  BY <1>1, <1>2, RampStarts DEF AcqInv, SettleInv, Confident
<1> QED
  BY <1>4, <1>5, <1>6 DEF AcqInv

\* Anything that leaves the ramp and the capture alone and is not the end.
LEMMA SettleKept ==
  ASSUME SettleInv, UNCHANGED <<ramp, shown>>, ~ramp.converged, at' # "frame"
  PROVE  SettleInv'
BY DEF SettleInv, Confident

\* cam_begin() and cam_image_defaults(), one after the other.
LEMMA BeginThenDefaults ==
  ASSUME NEW c \in Camera, NEW b \in Begin(c), NEW d \in Defaults(b.cam)
  PROVE  /\ d.cam \in Camera /\ d.cam.busy = c.busy
         /\ b.took + d.took \in Nat
         /\ ~c.busy => b.took + d.took = 0
<1>1. b \in Writes(c)
  BY BeginWrites
<1>2. b.cam \in Camera /\ b.cam.busy = c.busy /\ b.took \in Nat /\ (~c.busy => b.took = 0)
  BY <1>1 DEF Writes
<1>3. d \in Writes(b.cam)
  BY <1>2, DefaultsWrites
<1>4. d.cam \in Camera /\ d.cam.busy = b.cam.busy /\ d.took \in Nat /\ (~b.cam.busy => d.took = 0)
  BY <1>3 DEF Writes
<1> QED
  BY <1>2, <1>4

LEMMA BeginKeeps == AcqInv /\ AcquireBegin => AcqInv'
<1> SUFFICES ASSUME AcqInv, AcquireBegin PROVE AcqInv'
  OBVIOUS
<1>1. at = "begin" /\ at' = "shoot" /\ UNCHANGED <<ramp, got, doubt, now, shown>>
  BY DEF AcquireBegin
<1>2. /\ cam \in Camera /\ fed \in Nat /\ now \in Nat /\ ramp = RampStart
      /\ ~cam.busy => now = 0 /\ fed = 0
  BY <1>1 DEF AcqInv, AcqType, TimeInv
<1>3. PICK b \in Begin(cam) : \E d \in Defaults(b.cam) : cam' = d.cam /\ fed' = fed + b.took + d.took
  BY DEF AcquireBegin
<1>4. PICK d \in Defaults(b.cam) : cam' = d.cam /\ fed' = fed + b.took + d.took
  BY <1>3
<1>5. b.took \in Nat /\ d.took \in Nat
  <2>1. b.cam \in Camera
    BY <1>2, BeginWrites DEF Writes
  <2> QED
    BY <1>2, <2>1, BeginWrites, DefaultsWrites DEF Writes
<1>6. /\ cam' \in Camera /\ cam'.busy = cam.busy /\ fed' \in Nat
      /\ ~cam.busy => fed' = 0
  BY <1>2, <1>4, <1>5, BeginThenDefaults
<1>7. AcqType'
  BY <1>1, <1>6 DEF AcqInv, AcqType
<1>8. TimeInv'
  <2>1. ramp' = RampStart /\ Settle(RampStart) = 0 /\ Budget \in Nat /\ QuietMax \in Nat
    BY <1>1, <1>2, RampStarts, Constants_
  <2>2. ~cam'.busy => now' = 0 /\ fed' = 0
    BY <1>1, <1>2, <1>6
  <2>3. Settle(ramp)' = 0
    BY <2>1, Zenon
  <2> QED
    BY <1>1, <2>1, <2>2, <2>3 DEF TimeInv
<1>9. SettleInv'
  BY <1>1, <1>2, RampStarts, SettleKept DEF AcqInv
<1> QED
  BY <1>7, <1>8, <1>9 DEF AcqInv

LEMMA RouseKeeps == AcqInv /\ Rouse => AcqInv'
<1> SUFFICES ASSUME AcqInv, Rouse PROVE AcqInv'
  OBVIOUS
<1>1. at = "rouse" /\ at' = "shoot" /\ UNCHANGED <<ramp, got, doubt, shown>>
  BY DEF Rouse
<1>2. /\ cam \in Camera /\ fed \in Nat /\ now \in Nat /\ ramp \in Ramp
      /\ ~cam.busy => fed = 0 /\ now + ramp.quiet <= Budget
      /\ ~ramp.converged
  BY <1>1 DEF AcqInv, AcqType, TimeInv, SettleInv
<1>3. PICK b \in Begin(cam) : \E d \in Defaults(b.cam) :
        /\ cam' = d.cam /\ now' = now + (b.took + d.took) /\ fed' = fed + (b.took + d.took)
  BY DEF Rouse, Pay
<1>4. PICK d \in Defaults(b.cam) :
        /\ cam' = d.cam /\ now' = now + (b.took + d.took) /\ fed' = fed + (b.took + d.took)
  BY <1>3
<1>5. /\ cam' \in Camera /\ cam'.busy = cam.busy /\ fed' \in Nat /\ now' \in Nat
      /\ ~cam.busy => now' = now /\ fed' = 0
  BY <1>2, <1>4, BeginThenDefaults
<1>6. AcqType'
  BY <1>1, <1>5 DEF AcqInv, AcqType
<1>7. TimeInv'
  BY <1>1, <1>2, <1>5, SettleIsTime, Constants_ DEF TimeInv
<1>8. SettleInv'
  BY <1>1, <1>2, SettleKept DEF AcqInv
<1> QED
  BY <1>6, <1>7, <1>8 DEF AcqInv

LEMMA ShootKeeps == AcqInv /\ Shoot => AcqInv'
<1> SUFFICES ASSUME AcqInv, Shoot PROVE AcqInv'
  OBVIOUS
<1>1. at = "shoot" /\ at' \in {"judge", "none"} /\ UNCHANGED <<ramp, doubt, shown>>
  BY DEF Shoot
<1>2. /\ cam \in Camera /\ fed \in Nat /\ now \in Nat /\ ramp \in Ramp
      /\ ~cam.busy => now + Settle(ramp) <= Budget /\ fed + Settle(ramp) <= QuietMax
      /\ ~ramp.converged
  BY <1>1 DEF AcqInv, AcqType, TimeInv, SettleInv
<1>3. PICK o \in Captures(cam, ramp.recover, Settle(ramp)) :
        /\ now' = now + o.took /\ fed' = fed + o.took /\ cam' = o.cam /\ got' = o.got
        /\ at' = IF o.got.whole THEN "judge" ELSE "none"
  BY DEF Shoot, Pay
<1>4. Settle(ramp) \in Nat /\ ramp.recover \in BOOLEAN
  BY <1>2, SettleIsTime
<1>5. o \in Shots(cam, Settle(ramp))
  BY <1>2, <1>3, <1>4, CapturesShots
<1>6. /\ o.cam \in Camera /\ o.cam.busy = cam.busy /\ o.took \in Nat /\ o.got \in Capture
      /\ ~cam.busy => /\ o.took <= Settle(ramp) + DoneLimit
                      /\ o.got.whole => o.took = Settle(ramp) + Take
  BY <1>5 DEF Shots
<1>7. AcqType'
  BY <1>1, <1>2, <1>3, <1>6 DEF AcqInv, AcqType
<1>8. TimeInv'
  BY <1>1, <1>2, <1>3, <1>4, <1>6, Constants_ DEF TimeInv
<1>9. SettleInv'
  BY <1>1, <1>2, SettleKept DEF AcqInv
<1> QED
  BY <1>7, <1>8, <1>9 DEF AcqInv

LEMMA KeepKeeps == AcqInv /\ Keep => AcqInv'
<1> SUFFICES ASSUME AcqInv, Keep PROVE AcqInv'
  OBVIOUS
<1>1. at = "keeper" /\ at' \in {"frame", "none"} /\ UNCHANGED <<ramp, shown>>
  BY DEF Keep
<1>2. /\ cam \in Camera /\ fed \in Nat /\ now \in Nat
      /\ ~cam.busy => now <= Budget + Take /\ fed <= QuietMax
  BY <1>1 DEF AcqInv, AcqType, TimeInv
<1>3. PICK o \in Captures(cam, FALSE, 0) :
        /\ now' = now + o.took /\ fed' = fed + o.took /\ cam' = o.cam /\ got' = o.got
        /\ at' = "frame" => doubt' = Doubt(ramp, o.got)
  BY DEF Keep, Pay
<1>4. o \in Shots(cam, 0)
  BY <1>2, <1>3, CapturesShots
<1>5. /\ o.cam \in Camera /\ o.cam.busy = cam.busy /\ o.took \in Nat /\ o.got \in Capture
      /\ ~cam.busy => o.took <= DoneLimit
  BY <1>4, Constants_ DEF Shots
<1>6. AcqType'
  BY <1>1, <1>2, <1>3, <1>5 DEF AcqInv, AcqType
<1>7. TimeInv'
  BY <1>1, <1>2, <1>3, <1>5, Constants_ DEF TimeInv
<1>8. SettleInv'
  <2>1. /\ Ends(ramp.hist, shown)
        /\ ramp.converged => Steady(ramp.hist) /\ ramp.hist[Len(ramp.hist)] >= Floor
    BY DEF AcqInv, SettleInv
  <2>2. Confident' => ramp.converged /\ o.got.luma >= Floor
    <3>1. o.got.luma \in Nat /\ Floor \in Nat
      BY <1>5, Constants_ DEF Capture
    <3>2. Doubt(ramp, o.got) = None => ramp.converged /\ o.got.luma >= Floor
      <4>1. None # "bottom" /\ None # "never moved" /\ None # "still moving"
        BY AcquireAssumption, Zenon
      <4>2. Doubt(ramp, o.got) = None => ramp.converged /\ ~(o.got.luma < Floor)
        BY <4>1, Zenon DEF Doubt
      <4> QED
        BY <3>1, <4>2
    <3> QED
      BY <1>3, <3>2 DEF Confident
  <2> QED
    BY <1>1, <1>3, <2>1, <2>2 DEF SettleInv
<1> QED
  BY <1>6, <1>7, <1>8 DEF AcqInv

\* The window and the history after one more capture.
LEMMA WindowEnds ==
  ASSUME NEW h \in Windows, NEW s \in Seq(Nat \cup {None}), Len(s) <= Win, Ends(h, s),
         NEW g \in Capture, NEW t, t = Slide(s, IF g.constant THEN None ELSE g.luma)
  PROVE  /\ t \in Seq(Nat \cup {None}) /\ Len(t) <= Win
         /\ Ends(Window(h, g), t) /\ Ends(<<>>, t)
<1>1. g.luma \in Nat /\ g.constant \in BOOLEAN /\ h \in Seq(Nat)
  BY DEF Capture, Windows
<1>2. (IF g.constant THEN None ELSE g.luma) \in Nat \cup {None}
  BY <1>1
<1>3. t \in Seq(Nat \cup {None}) /\ Len(t) <= Win
  BY <1>2, SlideLength
<1>4. Ends(<<>>, t)
  BY <1>3 DEF Ends
<1>5. CASE g.constant
  BY <1>3, <1>4, <1>5 DEF Window
<1>6. CASE ~g.constant
  <2>1. t = Slide(s, g.luma) /\ Window(h, g) = Slide(h, g.luma)
    BY <1>6 DEF Window
  <2>2. Ends(Slide(h, g.luma), Slide(s, g.luma))
    BY <1>1, SlideEnds
  <2> QED
    BY <1>3, <1>4, <2>1, <2>2
<1> QED
  BY <1>5, <1>6

\* The locals once the loops have been re-issued where they must and the next capture
\* chosen, from those measured.
Onward(m, lit, recover, quiet) ==
  [m EXCEPT !.hist = IF lit THEN <<>> ELSE @, !.first = IF lit THEN None ELSE @,
            !.recover = recover, !.quiet = quiet, !.warm = @ + 1]

LEMMA OnwardRamp ==
  ASSUME NEW m \in Ramp, NEW lit \in BOOLEAN, NEW recover \in BOOLEAN,
         NEW quiet \in QuietMin .. QuietMax
  PROVE  LET r == Onward(m, lit, recover, quiet)
         IN  /\ r \in Ramp /\ r.hist \in {m.hist, <<>>} /\ r.converged = m.converged
             /\ r.recover = recover /\ r.quiet = quiet
<1> DEFINE h == IF lit THEN <<>> ELSE m.hist
           f == IF lit THEN None ELSE m.first
<1>1. <<>> \in Windows
  BY Constants_ DEF Windows
<1>2. h \in Windows /\ h \in {m.hist, <<>>} /\ f \in Nat \cup {None} /\ m.warm + 1 \in Nat
  BY <1>1 DEF Ramp
<1>3. Onward(m, lit, recover, quiet) =
        [m EXCEPT !.hist = h, !.first = f, !.recover = recover, !.quiet = quiet, !.warm = m.warm + 1]
  BY DEF Onward, Ramp
<1> HIDE DEF h, f
<1> QED
  BY <1>2, <1>3 DEF Ramp

\* A ramp that converged on this capture.
LEMMA ConvergedKeeps ==
  ASSUME AcqInv, at = "judge", Measured(ramp, got).converged, ramp' = Measured(ramp, got),
         fed' = 0, at' = "keeper", UNCHANGED <<cam, now, got, doubt>>,
         shown' = Slide(shown, IF got.constant THEN None ELSE got.luma)
  PROVE  AcqInv'
<1>1. /\ cam \in Camera /\ ramp \in Ramp /\ got \in Capture /\ now \in Nat
      /\ shown \in Seq(Nat \cup {None}) /\ Len(shown) <= Win /\ Ends(ramp.hist, shown)
      /\ ~cam.busy => now <= Budget + Take
  BY DEF AcqInv, AcqType, TimeInv, SettleInv
<1>2. /\ ramp' \in Ramp /\ ramp'.hist = Window(ramp.hist, got)
      /\ Steady(Window(ramp.hist, got)) /\ got.luma >= Floor
      /\ Window(ramp.hist, got)[Len(Window(ramp.hist, got))] = got.luma
  BY <1>1, MeasuredRamp
<1>3. ramp.hist \in Windows
  BY <1>1 DEF Ramp
<1>4. /\ shown' \in Seq(Nat \cup {None}) /\ Len(shown') <= Win
      /\ Ends(Window(ramp.hist, got), shown')
  BY <1>1, <1>3, WindowEnds
<1>5. AcqType'
  BY <1>1, <1>2, <1>4 DEF AcqType
<1>6. TimeInv'
  BY <1>1, Constants_ DEF TimeInv
<1>7. SettleInv'
  BY <1>2, <1>4 DEF SettleInv, Confident
<1> QED
  BY <1>5, <1>6, <1>7 DEF AcqInv

\* A ramp that goes on, or runs out, after this capture.
LEMMA OnwardKeeps ==
  ASSUME AcqInv, at = "judge", ~Measured(ramp, got).converged,
         NEW lit \in BOOLEAN, ramp' = Onward(Measured(ramp, got), lit, got.constant, NextQuiet(ramp, got)),
         NEW took \in Nat, cam' \in Camera, cam'.busy = cam.busy, ~cam.busy => took = 0,
         NEW slept, slept = IF Spent(now + took, ramp'.quiet) \/ ramp'.recover THEN 0 ELSE ramp'.quiet,
         now' = now + took + slept, fed' = took + slept,
         at' \in {"keeper", "none", "rouse", "shoot"},
         at' \in {"rouse", "shoot"} => /\ ~Spent(now + took, ramp'.quiet)
                                       /\ at' = IF ramp'.recover THEN "rouse" ELSE "shoot",
         UNCHANGED <<got, doubt>>,
         shown' = Slide(shown, IF got.constant THEN None ELSE got.luma)
  PROVE  AcqInv'
<1>1. /\ cam \in Camera /\ ramp \in Ramp /\ got \in Capture /\ now \in Nat
      /\ shown \in Seq(Nat \cup {None}) /\ Len(shown) <= Win /\ Ends(ramp.hist, shown)
      /\ ~cam.busy => now <= Budget + Take
  BY DEF AcqInv, AcqType, TimeInv, SettleInv
<1>2. /\ Measured(ramp, got) \in Ramp /\ Measured(ramp, got).hist = Window(ramp.hist, got)
      /\ got.constant \in BOOLEAN /\ NextQuiet(ramp, got) \in QuietMin .. QuietMax
  BY <1>1, MeasuredRamp, QuietInRange DEF Capture
<1>3. /\ ramp' \in Ramp /\ ramp'.hist \in {Window(ramp.hist, got), <<>>} /\ ~ramp'.converged
      /\ ramp'.recover = got.constant /\ ramp'.quiet = NextQuiet(ramp, got)
  BY <1>2, OnwardRamp
<1>4. ramp.hist \in Windows
  BY <1>1 DEF Ramp
<1>5. /\ shown' \in Seq(Nat \cup {None}) /\ Len(shown') <= Win
      /\ Ends(Window(ramp.hist, got), shown') /\ Ends(<<>>, shown')
  BY <1>1, <1>4, WindowEnds
<1>6. /\ ramp'.quiet \in Nat /\ ramp'.quiet <= QuietMax /\ ramp'.recover \in BOOLEAN
      /\ ramp'.recover \/ Settle(ramp') = 0
      /\ slept \in Nat /\ slept <= QuietMax
  <2>1. ramp'.quiet \in Nat /\ ramp'.quiet <= QuietMax /\ ramp'.recover \in BOOLEAN
    BY <1>2, <1>3, Constants_
  <2>2. ramp'.recover \/ Settle(ramp') = 0
    BY DEF Settle
  <2> QED
    BY <2>1, <2>2, Constants_
<1>7. now' \in Nat /\ fed' \in Nat
  BY <1>1, <1>6
<1>8. AcqType'
  BY <1>1, <1>3, <1>5, <1>7 DEF AcqType
<1>9. TimeInv'
  <2> SUFFICES ASSUME ~cam.busy
               PROVE  /\ at' = "rouse" => fed' = 0 /\ now' + ramp'.quiet <= Budget
                      /\ at' = "shoot" => /\ now' + Settle(ramp') <= Budget
                                          /\ fed' + Settle(ramp') <= QuietMax
                      /\ now' <= Budget + Take /\ fed' <= QuietMax
    BY Constants_ DEF TimeInv
  <2>1. took = 0 /\ now <= Budget + Take
    BY <1>1
  <2>2. Budget \in Nat /\ Take \in Nat /\ QuietMax \in Nat
    BY Constants_
  <2>3. CASE Spent(now + took, ramp'.quiet)
    BY <1>1, <2>1, <2>2, <2>3
  <2>4. CASE ~Spent(now + took, ramp'.quiet)
    <3>1. now + ramp'.quiet <= Budget
      BY <1>1, <1>6, <2>1, <2>2, <2>4 DEF Spent
    <3>2. CASE ramp'.recover
      BY <1>1, <1>6, <2>1, <2>2, <2>4, <3>1, <3>2
    <3>3. CASE ~ramp'.recover
      BY <1>1, <1>6, <2>1, <2>2, <2>4, <3>1, <3>3
    <3> QED
      BY <3>2, <3>3
  <2> QED
    BY <2>3, <2>4
<1>10. SettleInv'
  BY <1>3, <1>5 DEF SettleInv, Confident
<1> QED
  BY <1>8, <1>9, <1>10 DEF AcqInv

LEMMA JudgeKeeps == AcqInv /\ Judge => AcqInv'
<1> SUFFICES ASSUME AcqInv, Judge PROVE AcqInv'
  OBVIOUS
<1> DEFINE measured == Measured(ramp, got)
           lit == Unmoved(measured, got)
           next == Onward(measured, lit, got.constant, NextQuiet(ramp, got))
<1>1. /\ at = "judge" /\ UNCHANGED <<got, doubt>>
      /\ shown' = Slide(shown, IF got.constant THEN None ELSE got.luma)
  BY DEF Judge
<1>2. CASE measured.converged
  <2>1. ramp' = measured /\ fed' = 0 /\ at' = "keeper" /\ UNCHANGED <<cam, now>>
    BY <1>2 DEF Judge
  <2> QED
    BY <1>1, <1>2, <2>1, ConvergedKeeps
<1>3. CASE ~measured.converged
  <2>1. PICK o \in IF lit THEN AutoAll(cam) ELSE {Done(cam)} :
          LET t == now + o.took
              ends == Spent(t, next.quiet) \/ next.warm = RampFrames
              slept == IF Spent(t, next.quiet) \/ next.recover THEN 0 ELSE next.quiet
          IN  /\ ramp' = next /\ cam' = o.cam
              /\ now' = t + slept /\ fed' = o.took + slept
              /\ IF ends THEN Stop ELSE at' = IF next.recover THEN "rouse" ELSE "shoot"
    BY <1>3 DEF Judge, Onward
  <2>2. lit \in BOOLEAN
    BY Zenon DEF Unmoved
  <2>3. cam \in Camera
    BY DEF AcqInv, AcqType
  <2>4. o \in Writes(cam)
    BY <2>1, <2>3, AutoAllWrites, OneWrite
  <2>5. o.took \in Nat /\ o.cam \in Camera /\ o.cam.busy = cam.busy /\ (~cam.busy => o.took = 0)
    BY <2>4 DEF Writes
  <2> HIDE DEF lit, measured
  <2>6. ramp' = next /\ cam' = o.cam
    BY <2>1
  <2>7. /\ at' \in {"keeper", "none", "rouse", "shoot"}
        /\ at' \in {"rouse", "shoot"} => /\ ~Spent(now + o.took, ramp'.quiet)
                                         /\ at' = IF ramp'.recover THEN "rouse" ELSE "shoot"
    BY <2>1, <2>6 DEF Stop
  <2>8. \E slept : /\ slept = IF Spent(now + o.took, ramp'.quiet) \/ ramp'.recover THEN 0 ELSE ramp'.quiet
                   /\ now' = now + o.took + slept /\ fed' = o.took + slept
    BY <2>1, <2>6
  <2> QED
    BY <1>1, <1>3, <2>2, <2>5, <2>6, <2>7, <2>8, OnwardKeeps DEF measured
<1> QED
  BY <1>2, <1>3

\* Every step of ft_acquire() keeps its invariant.
LEMMA AcquireKeeps ==
  AcqInv /\ (AcquireNext \/ (at = "off" /\ fed = 0 /\ AcquireStart)) => AcqInv'
BY StartKeeps, BeginKeeps, RouseKeeps, ShootKeeps, JudgeKeeps, KeepKeeps DEF AcquireNext

\* The invariant is what the two properties ask.
LEMMA AcqInvIsEnough ==
  ASSUME AcqInv
  PROVE  /\ ConfidentIsSettled
         /\ at \in {"begin", "rouse", "shoot", "judge", "keeper", "frame", "none"} /\ ~cam.busy =>
              /\ fed < WdLimit
              /\ now <= Budget + Take + DoneLimit
<1>1. /\ ramp \in Ramp /\ now \in Nat /\ fed \in Nat
      /\ shown \in Seq(Nat \cup {None}) /\ Len(shown) <= Win
  BY DEF AcqInv, AcqType
<1>2. ConfidentIsSettled
  <2> SUFFICES ASSUME Confident
               PROVE  /\ None \notin ToSet(shown) /\ Steady(shown) /\ Last(shown) >= Floor
                      /\ got.luma >= Floor
    BY DEF ConfidentIsSettled
  <2>1. /\ Ends(ramp.hist, shown) /\ Steady(ramp.hist)
        /\ ramp.hist[Len(ramp.hist)] >= Floor /\ got.luma >= Floor
    BY DEF AcqInv, SettleInv
  <2>2. ramp.hist \in Seq(Nat) /\ Len(ramp.hist) = Win
    BY <1>1, <2>1 DEF Ramp, Windows, Steady
  <2>3. shown = ramp.hist
    BY <1>1, <2>1, <2>2, WholeWindow
  <2>4. None \notin ToSet(ramp.hist)
    <3>1. \A i \in DOMAIN ramp.hist : ramp.hist[i] \in Nat
      BY <2>2
    <3> QED
      BY <3>1, AcquireAssumption, Zenon DEF ToSet
  <2> QED
    BY <2>1, <2>3, <2>4 DEF Last
<1>3. ASSUME at \in {"begin", "rouse", "shoot", "judge", "keeper", "frame", "none"}, ~cam.busy
      PROVE  fed < WdLimit /\ now <= Budget + Take + DoneLimit
  <2>1. /\ ramp.quiet \in Nat /\ ramp.quiet <= QuietMax /\ Settle(ramp) \in Nat
    BY <1>1, SettleIsTime
  <2> QED
    BY <1>1, <1>3, <2>1, Constants_ DEF AcqInv, TimeInv
<1> QED
  BY <1>2, <1>3

-----------------------------------------------------------------------------
(***************************************************************************)
(* main(): the hunt for the magic, the rail and the clock, and theorems.   *)
(***************************************************************************)

\* The bytes of the magic, and none.
Heard == Bytes \cup {None}

\* While the hunt is on its register is what was heard, which is not the magic; a
\* hotkey was not the magic's end; anywhere else the history has been cleared.
HuntInv ==
  /\ heard \in Seq(Heard) /\ Len(heard) = 4
  /\ pc \in {"hunt", "bootsel"} => heard # Magic
  /\ pc = "hunt" => w = heard
  /\ pc \in {"reset", "rail", "clock", "refused", "slow"} => heard = Silence /\ w = Silence
  /\ pc \notin {"hunt", "bootsel", "payload"} => heard = Silence

\* Nothing has been heard when nothing was said.
LEMMA SilenceIsNoMagic == Silence \in Seq(Heard) /\ Len(Silence) = 4 /\ Silence # Magic
BY DEF Silence, Magic, Heard

\* A sequence and one more element.
LEMMA Appended ==
  ASSUME NEW S, NEW t \in Seq(S), NEW c \in S
  PROVE  /\ \A i \in 1 .. Len(t) : Append(t, c)[i] = t[i]
         /\ Append(t, c)[Len(t) + 1] = c
BY AppendProperties

\* What three bytes and one more say of each.
LEMMA FourBytes ==
  ASSUME NEW t \in Seq(Heard), Len(t) = 3, NEW c \in Bytes, Append(t, c) = Magic
  PROVE  c = "B" /\ t = <<"F", "G", "X">>
<1>1. c \in Heard
  BY DEF Heard
<1>2. /\ Append(t, c)[4] = c /\ Append(t, c)[1] = t[1]
      /\ Append(t, c)[2] = t[2] /\ Append(t, c)[3] = t[3]
  <2>1. /\ \A i \in 1 .. Len(t) : Append(t, c)[i] = t[i]
        /\ Append(t, c)[Len(t) + 1] = c
    BY <1>1, Appended
  <2>2. 1 \in 1 .. Len(t) /\ 2 \in 1 .. Len(t) /\ 3 \in 1 .. Len(t) /\ Len(t) + 1 = 4
    OBVIOUS
  <2> QED
    BY <2>1, <2>2
<1>3. Magic[1] = "F" /\ Magic[2] = "G" /\ Magic[3] = "X" /\ Magic[4] = "B"
  BY DEF Magic
<1>4. c = "B" /\ t[1] = "F" /\ t[2] = "G" /\ t[3] = "X"
  BY <1>2, <1>3
<1>5. t = <<"F", "G", "X">>
  BY <1>4, SMTT(30)
<1> QED
  BY <1>4, <1>5

\* A byte shifted in is the last of four.
LEMMA Shifted ==
  ASSUME NEW s \in Seq(Heard), Len(s) = 4, NEW c \in Bytes
  PROVE  /\ Shift(s, c) \in Seq(Heard) /\ Len(Shift(s, c)) = 4
         /\ Shift(s, c) = Magic => c = "B" /\ Tail(s) = <<"F", "G", "X">>
<1>1. Tail(s) \in Seq(Heard) /\ Len(Tail(s)) = 3
  OBVIOUS
<1>2. c \in Heard
  BY DEF Heard
<1>3. Shift(s, c) \in Seq(Heard) /\ Len(Shift(s, c)) = 4
  BY <1>1, <1>2 DEF Shift
<1>4. Shift(s, c) = Magic => c = "B" /\ Tail(s) = <<"F", "G", "X">>
  BY <1>1, FourBytes DEF Shift
<1> QED
  BY <1>3, <1>4

\* The hunt's invariant is kept by every step.
LEMMA HuntStep == HuntInv /\ [Next]_vars => HuntInv'
<1> SUFFICES ASSUME HuntInv, [Next]_vars PROVE HuntInv'
  OBVIOUS
<1> USE DEF HuntInv
<1>1. CASE HuntByte
  <2>1. PICK c \in Bytes, alone \in BOOLEAN :
          /\ heard' = Shift(heard, c)
          /\ IF Hotkey(c, alone) THEN pc' = "bootsel" /\ UNCHANGED w
             ELSE w' = Shift(w, c) /\ pc' = IF Shift(w, c) = Magic THEN "payload" ELSE "hunt"
    BY <1>1 DEF HuntByte
  <2>2. pc = "hunt" /\ w = heard
    BY <1>1 DEF HuntByte
  <2>3. /\ heard' \in Seq(Heard) /\ Len(heard') = 4
        /\ heard' = Magic => c = "B" /\ Tail(heard) = <<"F", "G", "X">>
    BY <2>1, Shifted
  <2>4. CASE Hotkey(c, alone)
    <3>1. heard' # Magic
      BY <2>2, <2>3, <2>4 DEF Hotkey
    <3> QED
      BY <2>1, <2>3, <2>4, <3>1
  <2>5. CASE ~Hotkey(c, alone)
    BY <2>1, <2>2, <2>3, <2>5
  <2> QED
    BY <2>4, <2>5
<1>2. CASE \/ Bite \/ Reboot \/ PowerCycle
  <2>1. pc' = "reset" /\ heard' = Silence /\ w' = Silence
    BY <1>2 DEF Bite, Reboot, PowerCycle, Restart
  <2> QED
    BY <2>1, SilenceIsNoMagic
<1>3. CASE Enumerate \/ RailUp \/ ClockUp \/ ClockDown \/ RailDown
  <2>1. UNCHANGED <<heard, w>> /\ heard = Silence /\ w = Silence
    BY <1>3 DEF Enumerate, RailUp, ClockUp, ClockDown, RailDown
  <2>2. pc' \in {"rail", "clock", "refused", "slow", "hunt"}
    BY <1>3 DEF Enumerate, RailUp, ClockUp, ClockDown, RailDown
  <2> QED
    BY <2>1, <2>2, SilenceIsNoMagic
<1>4. CASE Payload
  <2>1. heard' = Silence /\ pc' \in {"park", "pins"}
    BY <1>4 DEF Payload
  <2> QED
    BY <2>1, SilenceIsNoMagic
<1>5. CASE PinsInit \/ Claim \/ Load \/ Release \/ HostInit \/ ProbeWide \/ ProbeNarrow \/ ProbeEnds
           \/ CameraEnds \/ Queries
  <2>1. UNCHANGED heard /\ heard = Silence
    BY <1>5 DEF PinsInit, Claim, Load, Release, HostInit, ProbeWide, ProbeNarrow, ProbeEnds,
                CameraEnds, Queries
  <2>2. pc' \in {"claim", "load", "release", "park", "host", "model", "wide", "camera", "narrow",
                 "queries", "loop"}
    BY <1>5 DEF PinsInit, Claim, Load, Release, HostInit, ProbeWide, ProbeNarrow, ProbeEnds,
                CameraEnds, Queries, Stage
  <2> QED
    BY <2>1, <2>2
<1>6. CASE Bootsel
  <2>1. UNCHANGED heard /\ heard = Silence /\ pc' = "bootsel"
    BY <1>6 DEF Bootsel
  <2> QED
    BY <2>1, SilenceIsNoMagic
<1>7. CASE UNCHANGED <<pc, w, heard>>
  BY <1>7
<1>8. Acquiring \/ HuntTimeout \/ LoopKey \/ Wedge \/ UNCHANGED vars => UNCHANGED <<pc, w, heard>>
  BY DEF Acquiring, HuntTimeout, LoopKey, Wedge, vars, bootVars
<1> QED
  BY <1>1, <1>2, <1>3, <1>4, <1>5, <1>6, <1>7, <1>8 DEF Next, BootNext

\* The hunt's invariant holds for ever.
LEMMA HuntInductive == Spec => []HuntInv
<1>1. Init => HuntInv
  BY SilenceIsNoMagic DEF Init, HuntInv
<1> QED
  BY <1>1, HuntStep, PTL DEF Spec

\* The four bytes of the magic, in a row, end ft_recv_bitstream()'s hunt whatever was
\* heard before them and however they were spaced.
THEOREM TheMagicIsHeard == Spec => []MagicIsHeard
<1>1. HuntInv => MagicIsHeard
  BY DEF HuntInv, MagicIsHeard
<1> QED
  BY <1>1, HuntInductive, PTL

-----------------------------------------------------------------------------
\* Without a pin on the rail: it is never below what sys_rail says, nor that below the
\* default, and where the clock is not the stock one both cover it.  Before the rail is
\* up, and once the clock has been put back, the clock is the stock one.
PowerInv ==
  /\ rail \in Nat /\ sys_rail \in Nat /\ clk \in {Stock, WantKhz}
  /\ rail >= sys_rail /\ sys_rail >= RailDefault
  /\ sys_rail >= RailFor(clk)
  /\ pc \in {"reset", "rail", "clock", "slow"} => clk = Stock
  /\ pc = "clock" => sys_rail >= WantRail

\* The power is brought up and down in the order sys_clock_bring_up() keeps.
LEMMA PowerStep ==
  ASSUME PinnedRail = None, PowerInv, [Next]_vars
  PROVE  PowerInv'
<1> USE DEF PowerInv
<1>0. /\ WantKhz \in Nat /\ WantRail = RailFor(WantKhz)
      /\ RailDefault = 110 /\ RailFor(Stock) = 110 /\ RailFor(WantKhz) \in {110, 120, 125}
  BY BootAssumption DEF WantRail, RailFor, RailDefault, Stock
<1>1. CASE \/ Bite \/ Reboot \/ PowerCycle
  <2>1. /\ pc' = "reset" /\ clk' = Stock /\ sys_rail' = RailDefault
        /\ rail' \in {rail, RailDefault}
    BY <1>1 DEF Bite, Reboot, PowerCycle, Restart
  <2>2. RailFor(clk') = 110
    BY <2>1, <1>0
  <2> QED
    BY <2>1, <2>2, <1>0
<1>2. CASE RailUp
  BY <1>0, <1>2 DEF RailUp
<1>3. CASE ClockUp
  <2>1. clk' \in {clk, WantKhz} /\ pc' \in {"hunt", "refused"}
    BY <1>3 DEF ClockUp
  <2>2. UNCHANGED <<rail, sys_rail>> /\ sys_rail >= WantRail
    BY <1>3 DEF ClockUp
  <2> QED
    BY <1>0, <2>1, <2>2
<1>4. CASE ClockDown
  <2>1. pc' = "slow" /\ clk' = Stock /\ UNCHANGED <<rail, sys_rail>>
    BY <1>4 DEF ClockDown
  <2>2. RailFor(clk') = 110
    BY <2>1, <1>0
  <2> QED
    BY <2>1, <2>2, <1>0
<1>5. CASE RailDown
  <2>1. clk = Stock /\ clk' = Stock /\ pc' = "hunt"
    BY <1>5 DEF RailDown
  <2>2. \/ rail' = RailDefault /\ sys_rail' = RailDefault
        \/ UNCHANGED <<rail, sys_rail>>
    BY <1>5 DEF RailDown
  <2>3. RailFor(clk') = 110
    BY <2>1, <1>0
  <2> QED
    BY <2>1, <2>2, <2>3, <1>0
<1>6. CASE Enumerate
  BY <1>6 DEF Enumerate
<1>7. CASE /\ UNCHANGED <<clk, rail, sys_rail>>
           /\ pc' = pc \/ pc' \notin {"reset", "rail", "clock", "slow"}
  BY <1>7
<1>8. ASSUME HuntTimeout \/ HuntByte \/ Payload \/ PinsInit \/ Claim \/ Load \/ Release \/ HostInit
             \/ ProbeWide \/ ProbeNarrow \/ ProbeEnds \/ CameraEnds \/ Queries \/ LoopKey
             \/ Acquiring \/ Bootsel \/ Wedge \/ UNCHANGED vars
      PROVE  /\ UNCHANGED <<clk, rail, sys_rail>>
             /\ pc' = pc \/ pc' \notin {"reset", "rail", "clock", "slow"}
  BY <1>8 DEF HuntTimeout, HuntByte, Payload, PinsInit, Claim, Load, Release, HostInit, ProbeWide,
              ProbeNarrow, ProbeEnds, CameraEnds, Queries, LoopKey, Acquiring, Bootsel, Wedge,
              Stage, vars, bootVars
<1> QED
  BY <1>1, <1>2, <1>3, <1>4, <1>5, <1>6, <1>7, <1>8 DEF Next, BootNext

\* NSTATUS is never an output.  The FPGA is off while it is configured, and afterwards
\* runs the image that was sent; CS is driven against configuration A only while probe()
\* tries three lines on it.
PinsInv ==
  /\ "NSTATUS" \notin pins
  /\ pc \in {"claim", "load"} => fpga = "off"
  /\ fpga = "A" /\ "CS" \in pins => pc = "wide"
  /\ pc \in {"release", "host", "model", "wide", "narrow"} => fpga = image

\* The pins keep to one driver through every step.
LEMMA PinsStep == PinsInv /\ [Next]_vars => PinsInv'
<1> SUFFICES ASSUME PinsInv, [Next]_vars PROVE PinsInv'
  OBVIOUS
<1> USE DEF PinsInv
<1>1. CASE \/ Bite \/ Reboot \/ PowerCycle
  BY <1>1 DEF Bite, Reboot, PowerCycle, Restart
<1>2. CASE Enumerate
  BY <1>2 DEF Enumerate
<1>3. CASE PinsInit
  BY <1>3 DEF PinsInit, Stage
<1>4. CASE Claim
  BY <1>4 DEF Claim, Stage
<1>5. CASE Load
  BY <1>5 DEF Load, Stage, PinsOnceConfigured
<1>6. CASE Release
  BY <1>6 DEF Release, Stage
<1>7. CASE HostInit
  BY <1>7 DEF HostInit, Stage, LinkPins
<1>8. CASE ProbeWide
  BY <1>8 DEF ProbeWide, Stage, LinkPins
<1>9. CASE ProbeNarrow
  BY <1>9 DEF ProbeNarrow, Stage, LinkPins
<1>10. CASE ProbeEnds
  BY <1>10 DEF ProbeEnds, Stage
<1>11. CASE /\ UNCHANGED <<pins, fpga>>
            /\ pc # "wide"
            /\ \/ UNCHANGED <<pc, image>>
               \/ pc' \notin {"claim", "load", "release", "host", "model", "wide", "narrow"}
  BY <1>11
<1>12. CASE UNCHANGED <<pc, pins, fpga, image>>
  BY <1>12
<1>13. ASSUME RailUp \/ ClockUp \/ ClockDown \/ RailDown \/ HuntByte \/ Payload \/ CameraEnds
              \/ Queries \/ Bootsel
       PROVE  /\ UNCHANGED <<pins, fpga>>
              /\ pc # "wide"
              /\ \/ UNCHANGED <<pc, image>>
                 \/ pc' \notin {"claim", "load", "release", "host", "model", "wide", "narrow"}
  BY <1>13 DEF RailUp, ClockUp, ClockDown, RailDown, HuntByte, Payload, CameraEnds, Queries, Bootsel
<1>14. ASSUME HuntTimeout \/ LoopKey \/ Acquiring \/ Wedge \/ UNCHANGED vars
       PROVE  UNCHANGED <<pc, pins, fpga, image>>
  BY <1>14 DEF HuntTimeout, LoopKey, Acquiring, Wedge, vars, bootVars
<1> QED
  BY <1>1, <1>2, <1>3, <1>4, <1>5, <1>6, <1>7, <1>8, <1>9, <1>10, <1>11, <1>12, <1>13, <1>14
     DEF Next, BootNext

\* No clock without its rail, and no pin driven from both ends but by probe() on a
\* configuration-A image, for any rate asked for.
THEOREM NothingIsEverOverdriven == Spec => []NothingIsOverdriven
<1> DEFINE Power == PinnedRail = None => PowerInv
<1>1. Init => Power /\ PinsInv
  BY BootAssumption DEF Init, PowerInv, PinsInv, RailDefault, RailFor, Stock
<1>2. Power /\ PinsInv /\ [Next]_vars => Power' /\ PinsInv'
  BY PowerStep, PinsStep
<1>3. ASSUME Power, PinsInv PROVE NothingIsOverdriven
  <2>1. PinnedRail = None => rail >= RailFor(clk)
    <3> SUFFICES ASSUME PinnedRail = None PROVE rail >= RailFor(clk)
      OBVIOUS
    <3>1. RailFor(clk) \in Nat
      BY DEF RailFor
    <3> QED
      BY <1>3, <3>1 DEF PowerInv
  <2>2. OneDriver \/ (pc = "wide" /\ fpga = "A")
    BY <1>3 DEF PinsInv, OneDriver, FpgaDrives
  <2> QED
    BY <2>1, <2>2 DEF NothingIsOverdriven
<1> QED
  BY <1>1, <1>2, <1>3, PTL DEF Spec

-----------------------------------------------------------------------------
\* ft_acquire() is entered with the watchdog just fed, and is nowhere when main() is
\* elsewhere.
AcquiringInv ==
  /\ AcqInv
  /\ pc # "camera" => at = "off"
  /\ pc = "camera" /\ at = "off" => fed = 0

\* The invariant of ft_acquire() with nothing of it in scope.
LEMMA LeftIsInv ==
  ASSUME Left, cam' \in Camera
  PROVE  AcqInv' /\ at' = "off" /\ fed' = 0
<1>1. /\ at' = "off" /\ ramp' = RampStart /\ got' = Nothing /\ now' = 0 /\ fed' = 0
      /\ shown' = <<>> /\ doubt' = None
  BY DEF Left
<1>2. Nothing \in Capture
  BY DEF Nothing, Capture
<1>3. AcqType'
  BY <1>1, <1>2, RampStarts, Constants_ DEF AcqType
<1>4. TimeInv'
  BY <1>1 DEF TimeInv
<1>5. SettleInv'
  <2>1. Ends(<<>>, <<>>)
    BY DEF Ends
  <2> QED
    BY <1>1, <2>1, RampStarts DEF SettleInv, Confident
<1> QED
  BY <1>1, <1>3, <1>4, <1>5 DEF AcqInv

\* The watchdog's time passes and nothing else of ft_acquire() is touched.
LEMMA OffIsInv ==
  ASSUME AcqInv, at = "off", fed' \in Nat, UNCHANGED <<at, ramp, got, now, shown, doubt, cam>>
  PROVE  AcqInv'
<1>1. AcqType'
  BY DEF AcqInv, AcqType
<1>2. TimeInv'
  BY DEF TimeInv
<1>3. SettleInv'
  BY DEF AcqInv, SettleInv, Confident
<1> QED
  BY <1>1, <1>2, <1>3 DEF AcqInv

LEMMA AcquiringStep == AcquiringInv /\ [Next]_vars => AcquiringInv'
<1> SUFFICES ASSUME AcquiringInv, [Next]_vars PROVE AcquiringInv'
  OBVIOUS
<1> USE DEF AcquiringInv
<1>0. cam \in Camera /\ fed \in Nat /\ WdLimit \in Nat
  BY Constants_ DEF AcqInv, AcqType
<1>1. CASE Bite \/ Reboot \/ PowerCycle
  <2>1. PICK c \in Camera : Restart(c)
    BY <1>0, <1>1, PowerOnIsCamera DEF Bite, Reboot, PowerCycle
  <2>2. cam' \in Camera
    <3>1. Unseen \in Levels
      BY AcquireAssumption DEF Unseen
    <3> QED
      BY <2>1, <3>1 DEF Restart, Camera
  <2>3. Left /\ pc' = "reset"
    BY <2>1 DEF Restart
  <2> QED
    BY <2>2, <2>3, LeftIsInv
<1>2. CASE CameraEnds
  <2>1. Left /\ cam' = cam /\ pc' # "camera"
    BY <1>2 DEF CameraEnds
  <2> QED
    BY <1>0, <2>1, LeftIsInv
<1>3. CASE Acquiring
  <2>1. pc = "camera" /\ UNCHANGED pc /\ (AcquireStart \/ AcquireNext)
    BY <1>3 DEF Acquiring, bootVars
  <2>2. AcquireStart => at = "off"
    BY DEF AcquireStart
  <2>3. AcqInv'
    BY <2>1, <2>2, AcquireKeeps
  <2>4. at' # "off"
    <3>1. AcquireStart \/ AcquireBegin \/ Rouse \/ Shoot \/ Keep => at' # "off"
      BY DEF AcquireStart, AcquireBegin, Rouse, Shoot, Keep
    <3>2. Judge => at' # "off"
      BY Zenon DEF Judge, Stop
    <3> QED
      BY <2>1, <3>1, <3>2 DEF AcquireNext
  <2> QED
    BY <2>1, <2>3, <2>4
<1>4. CASE Wedge \/ LoopKey
  <2>1. /\ UNCHANGED <<pc, at, ramp, got, doubt, now, fed, shown>>
        /\ cam' \in Camera
        /\ cam'.busy \/ at = "off"
    BY <1>0, <1>4 DEF Wedge, LoopKey, bootVars, Camera
  <2>2. AcqType'
    BY <2>1 DEF AcqInv, AcqType
  <2>3. TimeInv'
    BY <2>1 DEF TimeInv
  <2>4. SettleInv'
    BY <2>1 DEF AcqInv, SettleInv, Confident
  <2> QED
    BY <2>1, <2>2, <2>3, <2>4 DEF AcqInv
<1>5. CASE /\ pc # "camera" /\ fed' \in Nat /\ UNCHANGED <<at, ramp, got, now, shown, doubt, cam>>
           /\ pc' = "camera" => fed' = 0
  BY <1>5, OffIsInv
<1>6. ASSUME Enumerate \/ RailUp \/ ClockUp \/ ClockDown \/ RailDown \/ Queries \/ Bootsel
      PROVE  /\ pc # "camera" /\ fed' \in Nat /\ UNCHANGED <<at, ramp, got, now, shown, doubt, cam>>
             /\ pc' = "camera" => fed' = 0
  BY <1>0, <1>6 DEF Enumerate, RailUp, ClockUp, ClockDown, RailDown, Queries, Bootsel, acquireVars
<1>7. ASSUME PinsInit \/ Claim \/ Load \/ Release \/ HostInit \/ ProbeWide \/ ProbeNarrow \/ ProbeEnds
      PROVE  /\ pc # "camera" /\ fed' \in Nat /\ UNCHANGED <<at, ramp, got, now, shown, doubt, cam>>
             /\ pc' = "camera" => fed' = 0
  BY <1>0, <1>7 DEF PinsInit, Claim, Load, Release, HostInit, ProbeWide, ProbeNarrow, ProbeEnds,
                    Stage, acquireVars
<1>8. ASSUME HuntTimeout \/ HuntByte \/ Payload
      PROVE  /\ pc # "camera" /\ fed' \in Nat /\ UNCHANGED <<at, ramp, got, now, shown, doubt, cam>>
             /\ pc' = "camera" => fed' = 0
  <2>1. Max({fed, 1}) \in Nat
    BY <1>0, MaxOfTwo
  <2>2. CASE HuntTimeout
    BY <2>2 DEF HuntTimeout, bootVars
  <2>3. CASE HuntByte
    BY <1>0, <2>1, <2>3 DEF HuntByte
  <2>4. CASE Payload
    BY <1>0, <2>4 DEF Payload
  <2> QED
    BY <1>8, <2>2, <2>3, <2>4
<1>9. CASE UNCHANGED vars
  BY <1>9 DEF vars, bootVars, acquireVars, AcqInv, AcqType, TimeInv, SettleInv, Confident
<1> QED
  BY <1>1, <1>2, <1>3, <1>4, <1>5, <1>6, <1>7, <1>8, <1>9 DEF Next, BootNext

LEMMA AcquiringInductive == Spec => []AcquiringInv
<1>1. Init => AcquiringInv
  <2> SUFFICES ASSUME Init PROVE AcquiringInv
    OBVIOUS
  <2>1. /\ at = "off" /\ ramp = RampStart /\ got = Nothing /\ now = 0 /\ fed = 0
        /\ shown = <<>> /\ doubt = None /\ cam = PowerOn
    BY DEF Init
  <2>2. AcqType
    BY <2>1, RampStarts, PowerOnIsCamera, Constants_ DEF AcqType, Nothing, Capture
  <2>3. TimeInv
    BY <2>1 DEF TimeInv
  <2>4. SettleInv
    <3>1. Ends(<<>>, <<>>)
      BY DEF Ends
    <3> QED
      BY <2>1, <3>1, RampStarts DEF SettleInv, Confident
  <2> QED
    BY <2>1, <2>2, <2>3, <2>4 DEF AcquiringInv, AcqInv
<1> QED
  BY <1>1, AcquiringStep, PTL DEF Spec

\* Whatever quiet the room needs, ft_acquire()'s search for it ends within one capture of
\* its budget and never lets the watchdog bite, for limits that pass the inequality the
\* comment on FT_QUIET_MAX_MS states.
THEOREM TheSearchKeepsItsTime == Spec => []KeepsItsTime
<1>1. AcquiringInv => KeepsItsTime
  <2> SUFFICES ASSUME AcqInv PROVE KeepsItsTime
    BY DEF AcquiringInv
  <2>1. at \in {"off", "begin", "rouse", "shoot", "judge", "keeper", "frame", "none"}
    BY DEF AcqInv, AcqType
  <2> QED
    BY <2>1, AcqInvIsEnough DEF KeepsItsTime
<1> QED
  BY <1>1, AcquiringInductive, PTL

\* A frame ft_acquire() returns without a doubt follows a steady window off the floor, with
\* no constant frame and no recovery inside it, for every length of the window.
THEOREM ConfidenceIsSettled == Spec => []ConfidentIsSettled
<1>1. AcquiringInv => ConfidentIsSettled
  BY AcqInvIsEnough DEF AcquiringInv
<1> QED
  BY <1>1, AcquiringInductive, PTL

-----------------------------------------------------------------------------
(***************************************************************************)
(* A camera nothing goes wrong with: what a call leaves that cost no       *)
(* fault, and the quiet being searched for.                                *)
(***************************************************************************)

\* What a room's quiet is searched with: L is the quiets of NextQuiet() in order, from the
\* floor to the limit, the ramp has that many captures, and the budget covers them: twice the
\* last quiet that was not enough, the longest one, and the captures.
Ladder(L) ==
  /\ Len(L) >= 2 /\ Len(L) <= RampFrames
  /\ L[1] = QuietMin /\ L[Len(L)] = QuietMax
  /\ \A i \in 1 .. Len(L) - 1 : L[i + 1] = Min({2 * L[i], QuietMax})
  /\ 3 * QuietMax + Len(L) * Take <= Budget

\* No fault has been met, and the room's quiet is among those tried.
Faultless == faults = 0 /\ ~cam.busy /\ need <= QuietMax

\* A camera that has been begun: its loops on, its frames its own, its format known only
\* when it has been written.
Sound(c) == ~c.fault /\ ~c.synth /\ c.loops /\ (c.last # None => c.small)

\* While every frame has been blank the k-th quiet is the next to try, or has been tried and
\* was not the last; either the longest is next, or no more time has gone than it is long.
Climbing(L) ==
  \E k \in 1 .. Len(L) :
    /\ ramp.quiet = L[k] /\ ramp.warm = k - 1 /\ (ramp.recover <=> k > 1)
    /\ at = "rouse" => k > 1
    /\ at \in {"rouse", "shoot"} =>
         /\ k = 1 => now = 0
         /\ L[k] = QuietMax \/ now <= L[k] + (k - 1) * Take
    /\ at = "judge" => k < Len(L) /\ now <= 2 * L[k] + k * Take

\* The camera is begun, is left alone for longer and longer until it writes, and then goes on
\* writing.
WorkingInv(L) ==
  /\ faults \in Nat /\ need \in Nat
  /\ Faultless =>
       /\ at # "none"
       /\ at = "begin" => ~cam.fault
       /\ at \in {"rouse", "shoot", "judge", "keeper", "frame"} => Sound(cam)
       /\ at \in {"rouse", "shoot", "judge"} /\ ~cam.awake => Climbing(L)
       /\ at = "shoot" => cam.awake \/ cam.fresh
       /\ at = "judge" => got.constant = ~cam.awake
       /\ at = "rouse" => ~cam.awake
       /\ at = "keeper" => cam.awake

\* The fault of one run does not outlive the reset that begins the next.
ClearInv == pc \notin {"camera", "queries", "loop", "park", "bootsel"} \/ (pc = "camera" /\ at = "off") => ~cam.fault

\* cam_begin() of a bus without a fault, when no write is lost.
LEMMA BeginClears ==
  ASSUME NEW c \in Camera, ~c.busy, ~c.fault, NEW b \in Begin(c), b.cost = 0
  PROVE  /\ b.cam \in Camera /\ ~b.cam.busy /\ ~b.cam.fault /\ ~b.cam.synth
         /\ b.cam.fresh /\ ~b.cam.awake /\ b.cam.last = None
<1>1. \A d \in SensorReset(c) :
        d \in Camera /\ ~d.busy /\ ~d.fault /\ d.fresh /\ ~d.awake
  <2> DEFINE after(l) ==
    [c EXCEPT !.loops = FALSE, !.fresh = TRUE, !.awake = FALSE, !.small = FALSE, !.level = l]
  <2>1. \A l \in Levels : after(l) \in Camera /\ ~after(l).busy /\ ~after(l).fault
                          /\ after(l).fresh /\ ~after(l).awake
    BY DEF Camera
  <2>2. SensorReset(c) = {after(l) : l \in Levels}
    BY DEF SensorReset
  <2> HIDE DEF after
  <2> QED
    BY <2>1, <2>2
<1>2. Begin(c) = {Done(Begun(d)) : d \in SensorReset(c)}
                   \cup {Stalled([d EXCEPT !.last = None]) : d \in {c} \cup SensorReset(c)}
  BY DEF Begin
<1>3. \A d : Stalled(d).cost = 1 /\ Done(d).cam = d
  BY DEF Stalled, Done
<1>4. PICK d \in SensorReset(c) : b = Done(Begun(d))
  <2>1. ASSUME NEW d, b = Stalled([d EXCEPT !.last = None]) PROVE FALSE
    BY <1>3, <2>1
  <2>2. b \in {Done(Begun(d)) : d \in SensorReset(c)}
          \/ \E d \in {c} \cup SensorReset(c) : b = Stalled([d EXCEPT !.last = None])
    BY <1>2
  <2> QED
    BY <2>1, <2>2
<1>5. b.cam = Begun(d) /\ d \in Camera /\ ~d.busy /\ ~d.fault /\ d.fresh /\ ~d.awake
  BY <1>1, <1>3, <1>4
<1> QED
  BY <1>5 DEF Begun, Camera

\* The writes of the loops that took.
LEMMA AutoAllLoops ==
  ASSUME NEW c \in Camera, ~c.busy, ~c.fault, NEW o \in AutoAll(c), o.cost = 0
  PROVE  o.cam = [c EXCEPT !.loops = TRUE] /\ o.took = 0
<1> DEFINE on == [c EXCEPT !.loops = TRUE]
<1>1. AutoAll(c) = {Done(on), [Done(c) EXCEPT !.cost = 1], Stalled(c), Stalled(on)}
  BY DEF AutoAll
<1> HIDE DEF on
<1>2. [Done(c) EXCEPT !.cost = 1].cost = 1 /\ Stalled(c).cost = 1 /\ Stalled(on).cost = 1
  BY DEF Done, Stalled
<1>3. o = Done(on)
  <2>1. \/ o = Done(on) \/ o = [Done(c) EXCEPT !.cost = 1] \/ o = Stalled(c) \/ o = Stalled(on)
    BY <1>1, Zenon
  <2>2. /\ o # [Done(c) EXCEPT !.cost = 1] /\ o # Stalled(c) /\ o # Stalled(on)
    <3>1. 0 # 1
      OBVIOUS
    <3> QED
      BY <1>2, <3>1, Zenon
  <2> QED
    BY <2>1, <2>2, Zenon
<1> QED
  BY <1>3 DEF Done, on

LEMMA DefaultsLoops ==
  ASSUME NEW c \in Camera, ~c.busy, ~c.fault, NEW o \in Defaults(c), o.cost = 0
  PROVE  o.cam = [c EXCEPT !.loops = TRUE]
<1>1. o \in AutoAll(c)
  <2>1. \A d : Stalled(d).cost = 1
    BY DEF Stalled
  <2>2. Defaults(c) = AutoAll(c) \cup {Stalled(p.cam) : p \in {q \in AutoAll(c) : q.cost = 0}}
    BY DEF Defaults
  <2> QED
    BY <2>1, <2>2
<1> QED
  BY <1>1, AutoAllLoops

\* cam_begin() and cam_image_defaults() with nothing lost leave a sound camera, fresh and
\* still blank.
LEMMA BegunIsSound ==
  ASSUME NEW c \in Camera, ~c.busy, ~c.fault, NEW b \in Begin(c), NEW d \in Defaults(b.cam),
         b.cost = 0, d.cost = 0
  PROVE  Sound(d.cam) /\ d.cam.fresh /\ ~d.cam.awake
<1>1. /\ b.cam \in Camera /\ ~b.cam.busy /\ ~b.cam.fault /\ ~b.cam.synth
      /\ b.cam.fresh /\ ~b.cam.awake /\ b.cam.last = None
  BY BeginClears
<1>2. d.cam = [b.cam EXCEPT !.loops = TRUE]
  BY <1>1, DefaultsLoops
<1> QED
  BY <1>1, <1>2 DEF Sound, Camera

\* What faults a call costs.
LEMMA CostsAreCounts ==
  ASSUME NEW c \in Camera
  PROVE  /\ \A b \in Begin(c) : /\ b.cam \in Camera /\ b.cost \in Nat
                                /\ \A d \in Defaults(b.cam) : d.cost \in Nat
         /\ \A o \in AutoAll(c) : o.cost \in Nat
         /\ \A rewrite \in BOOLEAN, settle \in Nat :
              \A o \in Captures(c, rewrite, settle) : o.cost \in Nat
<1>1. \A b \in Begin(c) : b.cam \in Camera /\ b.cost \in Nat
  BY BeginWrites DEF Writes
<1>2. \A b \in Begin(c) : \A d \in Defaults(b.cam) : d.cost \in Nat
  BY <1>1, DefaultsWrites DEF Writes
<1>3. \A o \in AutoAll(c) : o.cost \in Nat
  BY AutoAllWrites DEF Writes
<1>4. \A rewrite \in BOOLEAN, settle \in Nat :
        \A o \in Captures(c, rewrite, settle) : o.cost \in Nat
  BY CapturesShots DEF Shots
<1> QED
  BY <1>1, <1>2, <1>3, <1>4

\* A capture of a sound camera with nothing lost is whole; it is a frame exactly when the
\* sensor writes, which it does when it did before or has been left alone long enough.
LEMMA CaptureOfSound ==
  ASSUME NEW c \in Camera, ~c.busy, Sound(c), NEW rewrite \in BOOLEAN, NEW settle \in Nat,
         NEW o \in Captures(c, rewrite, settle), o.cost = 0
  PROVE  /\ Sound(o.cam) /\ o.got.whole /\ o.got.constant = ~o.cam.awake
         /\ o.cam.awake = (c.awake \/ (c.fresh /\ settle >= need))
         /\ o.took = settle + Take
<1> DEFINE clear == [c EXCEPT !.fault = FALSE]
           ready == IF Known(c, rewrite) THEN clear
                    ELSE [clear EXCEPT !.last = "small", !.small = TRUE]
           writes == c.awake \/ (c.fresh /\ settle >= need)
<1>1. /\ ready \in Camera /\ ~ready.busy /\ ~ready.fault /\ ~ready.synth /\ ready.loops
      /\ ready.small /\ ready.awake = c.awake /\ ready.fresh = c.fresh
  BY DEF Sound, Camera, Known
<1>2. Trigger(c, rewrite, settle) =
        {[armed |-> TRUE, out |-> [Done(d) EXCEPT !.took = settle]] : d \in Exposed(ready, settle)}
          \cup {[armed |-> FALSE, out |-> [Stalled(d) EXCEPT !.took = settle]] : d \in {clear, ready}}
  BY DEF Trigger
<1>3. \A d \in Exposed(ready, settle) :
        /\ d \in Camera /\ Sound(d) /\ ~d.busy /\ d.small /\ d.awake = writes
  <2> HIDE DEF ready
  <2>1. writes = (ready.awake \/ (ready.fresh /\ settle >= need)) /\ writes \in BOOLEAN
    BY <1>1
  <2> HIDE DEF writes
  <2> DEFINE after(l) == [ready EXCEPT !.fresh = FALSE, !.awake = writes, !.level = l]
  <2>2. \A l \in Levels : after(l) \in Camera /\ Sound(after(l)) /\ ~after(l).busy
                          /\ after(l).small /\ after(l).awake = writes
    BY <1>1, <2>1 DEF Camera, Sound
  <2>3. ready.level \in Levels
    BY <1>1 DEF Camera
  <2>4. \A d \in Exposed(ready, settle) : \E l \in Levels : d = after(l)
    <3>1. Exposed(ready, settle) =
            {after(l) : l \in IF writes /\ ready.loops /\ ~ready.synth THEN Levels ELSE {ready.level}}
      BY <2>1, Zenon DEF Exposed
    <3> HIDE DEF after
    <3> QED
      BY <2>3, <3>1
  <2> HIDE DEF after
  <2> QED
    BY <2>2, <2>4
<1> HIDE DEF clear, ready, writes
<1>4. PICK t \in Trigger(c, rewrite, settle) :
        o \in IF t.armed THEN Collect(t.out)
              ELSE {[got |-> Nothing, cam |-> t.out.cam, took |-> t.out.took, cost |-> t.out.cost]}
  BY DEF Captures
<1>5. PICK d \in Exposed(ready, settle) : t.armed /\ t.out = [cam |-> d, took |-> settle, cost |-> 0]
  <2>1. CASE \E d \in Exposed(ready, settle) : t = [armed |-> TRUE, out |-> [Done(d) EXCEPT !.took = settle]]
    BY <2>1 DEF Done
  <2>2. CASE \E d \in {clear, ready} : t = [armed |-> FALSE, out |-> [Stalled(d) EXCEPT !.took = settle]]
    <3>1. ~t.armed /\ t.out.cost = 1
      BY <2>2 DEF Stalled
    <3> QED
      BY <1>4, <3>1
  <2> QED
    BY <1>2, <2>1, <2>2
<1>6. /\ d \in Camera /\ Sound(d) /\ ~d.busy /\ d.small /\ d.awake = writes
  BY <1>3
<1>7. o = [got |-> Picture(d), cam |-> d, took |-> settle + Take, cost |-> 0]
  <2>1. o \in Collect([cam |-> d, took |-> settle, cost |-> 0])
    BY <1>4, <1>5
  <2> QED
    BY <1>6, <2>1 DEF Collect
<1>8. Picture(d).whole /\ Picture(d).constant = ~d.awake
  BY <1>6 DEF Picture, Sound, Camera
<1> QED
  BY <1>6, <1>7, <1>8 DEF writes

-----------------------------------------------------------------------------
\* The start: any room, and a camera without a fault.
LEMMA StartWorks ==
  ASSUME NEW L, AcqInv, at = "off", ~cam.fault, AcquireStart
  PROVE  WorkingInv(L)'
<1>1. /\ need' \in Nat /\ faults' \in {0, 1} /\ at' \in {"begin", "none"}
      /\ at' = "none" => faults' = 1
  <2>1. Needs \subseteq Nat
    BY AcquireAssumption, Zenon
  <2> QED
    BY <2>1 DEF AcquireStart
<1>2. cam'.fault = cam.fault
  BY DEF AcquireStart, AcqInv, AcqType, Camera
<1> QED
  BY <1>1, <1>2 DEF WorkingInv, Faultless

LEMMA BeginWorks ==
  ASSUME NEW L \in Seq(Nat), Ladder(L), AcqInv, WorkingInv(L), AcquireBegin
  PROVE  WorkingInv(L)'
<1>1. at = "begin" /\ at' = "shoot" /\ UNCHANGED <<need, ramp, now>>
  BY DEF AcquireBegin
<1>2. cam \in Camera /\ ramp = RampStart /\ (~cam.busy => now = 0) /\ faults \in Nat /\ need \in Nat
  BY <1>1 DEF AcqInv, AcqType, TimeInv, WorkingInv
<1>3. PICK b \in Begin(cam) : \E d \in Defaults(b.cam) :
        cam' = d.cam /\ faults' = faults + b.cost + d.cost
  BY DEF AcquireBegin
<1>4. PICK d \in Defaults(b.cam) : cam' = d.cam /\ faults' = faults + b.cost + d.cost
  BY <1>3
<1>5. b.cost \in Nat /\ d.cost \in Nat
  BY <1>2, CostsAreCounts
<1>6. cam'.busy = cam.busy
  BY <1>2, <1>4, BeginThenDefaults
<1>7. SUFFICES ASSUME Faultless'
      PROVE  Sound(cam') /\ cam'.fresh /\ (~cam'.awake => Climbing(L)')
  BY <1>1, <1>2, <1>4, <1>5 DEF WorkingInv
<1>8. Faultless /\ b.cost = 0 /\ d.cost = 0
  BY <1>1, <1>2, <1>4, <1>5, <1>6, <1>7 DEF Faultless
<1>9. ~cam.fault /\ ~cam.busy
  BY <1>1, <1>8 DEF WorkingInv, Faultless
<1>10. Sound(cam') /\ cam'.fresh
  BY <1>2, <1>4, <1>8, <1>9, BegunIsSound
<1>11. Climbing(L)'
  <2>1. now' = 0 /\ ramp' = RampStart
    BY <1>1, <1>2, <1>9
  <2>2. RampStart.quiet = QuietMin /\ RampStart.warm = 0 /\ RampStart.recover = FALSE
    BY DEF RampStart
  <2>3. Len(L) >= 2 /\ L[1] = QuietMin /\ Len(L) \in Nat /\ QuietMin \in Nat /\ Take \in Nat
    BY Constants_ DEF Ladder
  <2>4. now' <= L[1] + (1 - 1) * Take /\ 1 \in 1 .. Len(L)
    BY <2>1, <2>3
  <2>5. /\ ramp'.quiet = L[1] /\ ramp'.warm = 1 - 1 /\ (ramp'.recover <=> 1 > 1)
        /\ at' # "rouse" /\ at' # "judge"
    BY <1>1, <2>1, <2>2, <2>3
  <2> QED
    BY <2>1, <2>4, <2>5 DEF Climbing
<1> QED
  BY <1>10, <1>11

LEMMA RouseWorks ==
  ASSUME NEW L \in Seq(Nat), Ladder(L), AcqInv, WorkingInv(L), Rouse
  PROVE  WorkingInv(L)'
<1>1. at = "rouse" /\ at' = "shoot" /\ UNCHANGED <<need, ramp>>
  BY DEF Rouse
<1>2. cam \in Camera /\ faults \in Nat /\ need \in Nat /\ now \in Nat
  BY DEF AcqInv, AcqType, WorkingInv
<1>3. PICK b \in Begin(cam) : \E d \in Defaults(b.cam) :
        /\ cam' = d.cam /\ faults' = faults + (b.cost + d.cost) /\ now' = now + (b.took + d.took)
  BY DEF Rouse, Pay
<1>4. PICK d \in Defaults(b.cam) :
        cam' = d.cam /\ faults' = faults + (b.cost + d.cost) /\ now' = now + (b.took + d.took)
  BY <1>3
<1>5. b.cost \in Nat /\ d.cost \in Nat
  BY <1>2, CostsAreCounts
<1>6. cam'.busy = cam.busy /\ (~cam.busy => now' = now)
  BY <1>2, <1>4, BeginThenDefaults
<1>60. faults' \in Nat /\ need' \in Nat
  <2>1. faults' = faults + (b.cost + d.cost)
    BY <1>4
  <2>2. b.cost + d.cost \in Nat
    BY <1>5
  <2> QED
    BY <1>1, <1>2, <2>1, <2>2
<1>7. SUFFICES ASSUME Faultless'
      PROVE  Sound(cam') /\ cam'.fresh /\ (~cam'.awake => Climbing(L)')
  BY <1>1, <1>60 DEF WorkingInv
<1>8. Faultless /\ b.cost = 0 /\ d.cost = 0
  BY <1>1, <1>2, <1>4, <1>5, <1>6, <1>7 DEF Faultless
<1>9. ~cam.fault /\ ~cam.busy /\ Climbing(L)
  BY <1>1, <1>8 DEF WorkingInv, Faultless, Sound
<1>10. Sound(cam') /\ cam'.fresh
  BY <1>2, <1>4, <1>8, <1>9, BegunIsSound
<1>11. Climbing(L)'
  BY <1>1, <1>6, <1>9 DEF Climbing
<1> QED
  BY <1>10, <1>11

\* Sums of the times.
LEMMA SleptTwice ==
  ASSUME NEW n \in Nat, NEW q \in Nat, NEW s \in Nat, NEW t \in Nat, n <= q + s
  PROVE  n + (q + t) <= 2 * q + (s + t)
OBVIOUS

LEMMA NextFits ==
  ASSUME NEW n \in Nat, NEW q \in Nat, NEW m \in Nat, NEW s \in Nat, NEW all \in Nat,
         NEW r \in Nat, r = (IF 2 * q <= m THEN 2 * q ELSE m), NEW budget \in Nat,
         q <= m, n <= 2 * q + s, s <= all, 3 * m + all <= budget
  PROVE  ~(n + r > budget) /\ (r = m \/ n <= r + s)
OBVIOUS

\* What a ladder says of one of its rungs.
LEMMA RungOf ==
  ASSUME NEW L \in Seq(Nat), Ladder(L), NEW k \in 1 .. Len(L)
  PROVE  /\ Len(L) \in Nat /\ k \in Nat /\ k >= 1 /\ k <= Len(L) /\ L[k] \in Nat
         /\ Len(L) >= 2 /\ Len(L) <= RampFrames /\ L[Len(L)] = QuietMax
         /\ 3 * QuietMax + Len(L) * Take <= Budget
         /\ k < Len(L) => /\ k + 1 \in 1 .. Len(L) /\ L[k + 1] \in Nat
                          /\ L[k + 1] = Min({2 * L[k], QuietMax})
<1>1. Len(L) \in Nat
  BY LenProperties
<1>2. k \in Nat /\ k >= 1 /\ k <= Len(L)
  BY <1>1
<1>3. \A i \in 1 .. Len(L) : L[i] \in Nat
  BY ElementOfSeq
<1>4. k < Len(L) => k + 1 \in 1 .. Len(L) /\ k \in 1 .. Len(L) - 1
  BY <1>1, <1>2
<1>5. /\ Len(L) >= 2 /\ Len(L) <= RampFrames /\ L[Len(L)] = QuietMax
      /\ 3 * QuietMax + Len(L) * Take <= Budget
      /\ \A i \in 1 .. Len(L) - 1 : L[i + 1] = Min({2 * L[i], QuietMax})
  BY DEF Ladder
<1> QED
  BY <1>1, <1>2, <1>3, <1>4, <1>5

\* Blank again after the k-th quiet: the room needs a longer one, so that the limit has not
\* been tried and twice this quiet covers what has been slept.
LEMMA ShootWorks ==
  ASSUME NEW L \in Seq(Nat), Ladder(L), AcqInv, WorkingInv(L), Shoot
  PROVE  WorkingInv(L)'
<1>1. at = "shoot" /\ at' \in {"judge", "none"} /\ UNCHANGED <<need, ramp>>
  BY DEF Shoot
<1>2. cam \in Camera /\ faults \in Nat /\ need \in Nat /\ now \in Nat /\ ramp \in Ramp
  BY DEF AcqInv, AcqType, WorkingInv
<1>3. Settle(ramp) \in Nat /\ ramp.recover \in BOOLEAN
  BY <1>2, SettleIsTime
<1>4. PICK o \in Captures(cam, ramp.recover, Settle(ramp)) :
        /\ faults' = faults + o.cost /\ now' = now + o.took /\ cam' = o.cam /\ got' = o.got
        /\ at' = IF o.got.whole THEN "judge" ELSE "none"
  BY DEF Shoot, Pay
<1>5. o.cost \in Nat /\ o.cam.busy = cam.busy
  BY <1>2, <1>3, CostsAreCounts, CapturesShots DEF Shots
<1>6. faults' \in Nat /\ need' \in Nat
  BY <1>1, <1>2, <1>4, <1>5
<1>7. SUFFICES ASSUME Faultless'
      PROVE  /\ at' = "judge" /\ Sound(cam') /\ got'.constant = ~cam'.awake
             /\ ~cam'.awake => Climbing(L)'
  BY <1>6 DEF WorkingInv
<1>8. Faultless /\ o.cost = 0
  BY <1>1, <1>2, <1>4, <1>5, <1>7 DEF Faultless
<1>9. /\ Sound(cam) /\ ~cam.busy /\ (cam.awake \/ cam.fresh) /\ need <= QuietMax
      /\ ~cam.awake => Climbing(L)
  BY <1>1, <1>8 DEF WorkingInv, Faultless
<1>10. /\ Sound(o.cam) /\ o.got.whole /\ o.got.constant = ~o.cam.awake
       /\ o.cam.awake = (cam.awake \/ (cam.fresh /\ Settle(ramp) >= need))
       /\ o.took = Settle(ramp) + Take
  BY <1>2, <1>3, <1>8, <1>9, CaptureOfSound
<1>11. at' = "judge" /\ Sound(cam') /\ got'.constant = ~cam'.awake
  BY <1>4, <1>10
<1>12. ASSUME ~cam'.awake PROVE Climbing(L)'
  <2>1. Climbing(L) /\ Settle(ramp) < need
    <3>1. ~cam.awake /\ cam.fresh /\ ~(Settle(ramp) >= need)
      BY <1>4, <1>9, <1>10, <1>12
    <3> QED
      BY <1>2, <1>3, <1>9, <3>1
  <2>2. PICK k \in 1 .. Len(L) :
          /\ ramp.quiet = L[k] /\ ramp.warm = k - 1 /\ (ramp.recover <=> k > 1)
          /\ k = 1 => now = 0
          /\ L[k] = QuietMax \/ now <= L[k] + (k - 1) * Take
    BY <1>1, <2>1 DEF Climbing
  <2>3. /\ k \in Nat /\ Len(L) \in Nat /\ Len(L) >= 2 /\ L[Len(L)] = QuietMax /\ L[k] \in Nat
        /\ Take \in Nat /\ QuietMax \in Nat
    BY Constants_, RungOf
  <2>4. Settle(ramp) = IF k > 1 THEN L[k] ELSE 0
    BY <2>2 DEF Settle
  <2>5. k > 1 => L[k] # QuietMax
    BY <1>2, <1>9, <2>1, <2>3, <2>4
  <2>6. k < Len(L)
    BY <2>3, <2>5
  <2>7. k * Take = (k - 1) * Take + Take /\ (k - 1) * Take \in Nat
    BY <2>3
  <2>8. now' <= 2 * L[k] + k * Take
    <3>1. now' = now + (Settle(ramp) + Take)
      BY <1>4, <1>10
    <3>2. CASE k = 1
      BY <1>2, <2>2, <2>3, <2>4, <2>7, <3>1, <3>2
    <3>3. CASE k > 1
      <4>1. now <= L[k] + (k - 1) * Take /\ Settle(ramp) = L[k]
        BY <2>2, <2>4, <2>5, <3>3
      <4> DEFINE spent == (k - 1) * Take
      <4>2. spent \in Nat /\ now <= L[k] + spent /\ k * Take = spent + Take
        BY <2>7, <4>1
      <4>3. now' = now + (L[k] + Take)
        BY <3>1, <4>1
      <4> HIDE DEF spent
      <4>4. now' <= 2 * L[k] + (spent + Take)
        BY <1>2, <2>3, <4>2, <4>3, SleptTwice
      <4> QED
        BY <4>2, <4>4
    <3> QED
      BY <2>3, <3>2, <3>3
  <2>9. ramp' = ramp /\ at' = "judge"
    BY <1>1, <1>11
  <2> QED
    BY <2>2, <2>6, <2>8, <2>9 DEF Climbing
<1> QED
  BY <1>11, <1>12

LEMMA KeepWorks ==
  ASSUME NEW L \in Seq(Nat), Ladder(L), AcqInv, WorkingInv(L), Keep
  PROVE  WorkingInv(L)'
<1>1. at = "keeper" /\ UNCHANGED <<need, ramp>>
  BY DEF Keep
<1>2. cam \in Camera /\ faults \in Nat /\ need \in Nat
  BY DEF AcqInv, AcqType, WorkingInv
<1>3. PICK o \in Captures(cam, FALSE, 0) :
        /\ faults' = faults + o.cost /\ cam' = o.cam
        /\ at' = IF o.got.whole /\ ~o.got.constant THEN "frame" ELSE "none"
  BY DEF Keep, Pay
<1>4. o.cost \in Nat /\ o.cam.busy = cam.busy
  BY <1>2, CostsAreCounts, CapturesShots DEF Shots
<1>5. faults' \in Nat /\ need' \in Nat
  BY <1>1, <1>2, <1>3, <1>4
<1>6. SUFFICES ASSUME Faultless' PROVE at' = "frame" /\ Sound(cam')
  BY <1>5 DEF WorkingInv
<1>7. Faultless /\ o.cost = 0
  BY <1>1, <1>2, <1>3, <1>4, <1>6 DEF Faultless
<1>8. Sound(cam) /\ ~cam.busy /\ cam.awake
  BY <1>1, <1>7 DEF WorkingInv, Faultless
<1>9. /\ Sound(o.cam) /\ o.got.whole /\ o.got.constant = ~o.cam.awake
      /\ o.cam.awake = (cam.awake \/ (cam.fresh /\ 0 >= need))
  <2>1. FALSE \in BOOLEAN /\ 0 \in Nat
    OBVIOUS
  <2> QED
    BY <1>2, <1>3, <1>7, <1>8, <2>1, CaptureOfSound
<1> QED
  BY <1>3, <1>8, <1>9

\* A blank frame: the next rung, which the budget and the count of captures still cover.
LEMMA BlankGoesOn ==
  ASSUME NEW L \in Seq(Nat), Ladder(L), AcqInv, at = "judge", Climbing(L), got.constant, ~cam.busy,
         NEW next, next = Onward(Measured(ramp, got), FALSE, TRUE, NextQuiet(ramp, got))
  PROVE  /\ ~Spent(now, next.quiet) /\ next.warm # RampFrames
         /\ at' = "rouse" /\ ramp' = next /\ now' = now => Climbing(L)'
<1>1. ramp \in Ramp /\ got \in Capture /\ now \in Nat /\ got.constant
  BY DEF AcqInv, AcqType
<1>2. PICK k \in 1 .. Len(L) :
        /\ ramp.quiet = L[k] /\ ramp.warm = k - 1
        /\ k < Len(L) /\ now <= 2 * L[k] + k * Take
  BY DEF Climbing
<1>3. /\ Len(L) \in Nat /\ Len(L) <= RampFrames /\ L[k + 1] = Min({2 * L[k], QuietMax})
      /\ 3 * QuietMax + Len(L) * Take <= Budget
      /\ k \in Nat /\ k >= 1 /\ L[k] \in Nat /\ k + 1 \in 1 .. Len(L) /\ L[k + 1] \in Nat
  BY <1>2, RungOf
<1>4. Take \in Nat /\ QuietMax \in Nat /\ Budget \in Nat /\ RampFrames \in Nat /\ L[k] <= QuietMax
  BY <1>1, <1>2, Constants_ DEF Ramp
<1>5. L[k + 1] = IF 2 * L[k] <= QuietMax THEN 2 * L[k] ELSE QuietMax
  BY <1>3, <1>4, MinOfTwo
<1>6. Measured(ramp, got) \in Ramp /\ Measured(ramp, got).warm = ramp.warm
  <2>1. Measured(ramp, got) \in Ramp
    BY <1>1, MeasuredRamp
  <2>2. Measured(ramp, got).warm = ramp.warm
    BY <1>1 DEF Measured, Ramp
  <2> QED
    BY <2>1, <2>2
<1>7. NextQuiet(ramp, got) = L[k + 1] /\ L[k + 1] \in Nat
  BY <1>1, <1>2, <1>3, <1>4, <1>5 DEF NextQuiet
<1>8. next.quiet = L[k + 1] /\ next.warm = k /\ next.recover = TRUE
  <2>1. next.quiet = NextQuiet(ramp, got) /\ next.warm = Measured(ramp, got).warm + 1
        /\ next.recover = TRUE
    BY <1>6 DEF Onward, Ramp
  <2>2. next.warm = (k - 1) + 1
    BY <1>2, <1>6, <2>1
  <2>3. (k - 1) + 1 = k
    BY <1>3
  <2> QED
    BY <1>7, <2>1, <2>2, <2>3, Zenon
<1>9. k * Take \in Nat /\ k * Take <= Len(L) * Take
  <2>1. Len(L) * Take = k * Take + (Len(L) - k) * Take /\ Len(L) - k \in Nat
    BY <1>2, <1>3, <1>4
  <2>2. \A m, n \in Nat : m * n \in Nat
    OBVIOUS
  <2>3. k * Take \in Nat /\ (Len(L) - k) * Take \in Nat
    BY <1>3, <1>4, <2>1, <2>2
  <2> QED
    BY <2>1, <2>3
<1> DEFINE shots == k * Take
           all == Len(L) * Take
<1>10. /\ shots \in Nat /\ shots <= all /\ now <= 2 * L[k] + shots /\ 3 * QuietMax + all <= Budget
       /\ all \in Nat
  <2>1. Len(L) * Take \in Nat
    BY <1>3, <1>4
  <2> QED
    BY <1>2, <1>3, <1>9, <2>1
<1>11. ((k + 1) - 1) * Take = shots
  BY <1>3
<1> HIDE DEF shots, all
<1>12. ~(now + L[k + 1] > Budget) /\ (L[k + 1] = QuietMax \/ now <= L[k + 1] + shots)
  BY <1>1, <1>3, <1>4, <1>5, <1>10, NextFits
<1>13. ~Spent(now, next.quiet)
  BY <1>8, <1>12, Zenon DEF Spent
<1>14. next.warm # RampFrames
  <2>1. k # RampFrames
    BY <1>2, <1>3, <1>4
  <2> QED
    BY <1>8, <2>1, Zenon
<1>15. ASSUME at' = "rouse", ramp' = next, now' = now PROVE Climbing(L)'
  <2>1. (k + 1) - 1 = k /\ k + 1 # 1 /\ k + 1 > 1
    BY <1>3
  <2>2. L[k + 1] = QuietMax \/ now' <= L[k + 1] + ((k + 1) - 1) * Take
    BY <1>11, <1>12, <1>15
  <2>3. /\ ramp'.quiet = L[k + 1] /\ ramp'.warm = (k + 1) - 1 /\ (ramp'.recover <=> k + 1 > 1)
        /\ at' # "shoot" /\ at' # "judge"
    BY <1>8, <1>15, <2>1
  <2> QED
    BY <1>3, <2>1, <2>2, <2>3 DEF Climbing
<1> QED
  BY <1>13, <1>14, <1>15

LEMMA JudgeWorks ==
  ASSUME NEW L \in Seq(Nat), Ladder(L), AcqInv, WorkingInv(L), Judge
  PROVE  WorkingInv(L)'
<1> DEFINE measured == Measured(ramp, got)
           lit == Unmoved(measured, got)
           next == Onward(measured, lit, got.constant, NextQuiet(ramp, got))
<1>1. at = "judge" /\ UNCHANGED <<need, got>>
  BY DEF Judge
<1>2. /\ cam \in Camera /\ faults \in Nat /\ need \in Nat /\ now \in Nat
      /\ ramp \in Ramp /\ got \in Capture
  BY DEF AcqInv, AcqType, WorkingInv
<1>3. got.constant \in BOOLEAN
  BY <1>2 DEF Capture
<1>4. /\ got.constant => ~measured.converged
      /\ got.constant => lit = FALSE
  <2>1. got.constant => ~measured.converged
    BY <1>2, MeasuredRamp
  <2>2. got.constant => lit = FALSE
    BY Zenon DEF Unmoved
  <2> QED
    BY <2>1, <2>2
<1>5. CASE measured.converged
  <2>1. at' = "keeper" /\ UNCHANGED <<cam, faults>>
    BY <1>5 DEF Judge
  <2>2. ~got.constant
    BY <1>4, <1>5
  <2> QED
    BY <1>1, <1>2, <1>3, <2>1, <2>2 DEF WorkingInv, Faultless
<1>6. CASE ~measured.converged
  <2>1. PICK o \in IF lit THEN AutoAll(cam) ELSE {Done(cam)} :
          LET t == now + o.took
              ends == Spent(t, next.quiet) \/ next.warm = RampFrames
              slept == IF Spent(t, next.quiet) \/ next.recover THEN 0 ELSE next.quiet
          IN  /\ faults' = faults + o.cost /\ ramp' = next /\ cam' = o.cam /\ now' = t + slept
              /\ IF ends THEN Stop ELSE at' = IF next.recover THEN "rouse" ELSE "shoot"
    BY <1>6 DEF Judge, Onward
  <2>2. o \in Writes(cam) /\ o.cost \in Nat
    <3>1. o \in Writes(cam)
      BY <1>2, <2>1, AutoAllWrites, OneWrite
    <3> QED
      BY <3>1 DEF Writes
  <2>3. o.cam.busy = cam.busy
    BY <2>2 DEF Writes
  <2> HIDE DEF lit, measured, next
  <2>4. faults' \in Nat /\ need' \in Nat
    BY <1>1, <1>2, <2>1, <2>2
  <2>5. next.recover = got.constant
    <3>1. measured \in Ramp
      BY <1>2, MeasuredRamp DEF measured
    <3> QED
      BY <3>1 DEF next, Onward, Ramp
  <2>6. at' \in {"keeper", "none", "rouse", "shoot"}
    BY <2>1 DEF Stop
  <2>7. SUFFICES ASSUME Faultless'
        PROVE  /\ at' # "none" /\ Sound(cam')
               /\ at' \in {"rouse", "shoot"} /\ ~cam'.awake => at' = "rouse" /\ Climbing(L)'
               /\ at' = "keeper" => cam'.awake
               /\ at' = "rouse" => ~cam'.awake
    BY <2>4, <2>6 DEF WorkingInv
  <2>8. Faultless /\ o.cost = 0
    BY <1>1, <1>2, <2>1, <2>2, <2>3, <2>7 DEF Faultless
  <2>9. /\ Sound(cam) /\ ~cam.busy /\ got.constant = ~cam.awake
        /\ ~cam.awake => Climbing(L)
    BY <1>1, <2>8 DEF WorkingInv, Faultless
  <2>10. o.cam = cam \/ (o.cam = [cam EXCEPT !.loops = TRUE])
    <3>1. CASE lit
      BY <1>2, <2>1, <2>8, <2>9, <3>1, AutoAllLoops DEF Sound
    <3>2. CASE ~lit
      BY <2>1, <3>2 DEF Done
    <3> QED
      BY <3>1, <3>2
  <2>11. Sound(cam') /\ cam'.awake = cam.awake
    BY <1>2, <2>1, <2>9, <2>10 DEF Sound, Camera
  <2>12. CASE got.constant
    <3>1. ~cam.awake /\ Climbing(L) /\ lit = FALSE /\ next.recover = TRUE
      BY <1>3, <1>4, <2>5, <2>9, <2>12
    <3>2. o = Done(cam) /\ o.took = 0
      BY <2>1, <3>1 DEF Done
    <3>3. next = Onward(Measured(ramp, got), FALSE, TRUE, NextQuiet(ramp, got))
      BY <2>12, <1>3, <3>1, Zenon DEF next, measured
    <3>4. /\ ~Spent(now, next.quiet) /\ next.warm # RampFrames
          /\ at' = "rouse" /\ ramp' = next /\ now' = now => Climbing(L)'
      BY <1>1, <2>9, <2>12, <3>1, <3>3, BlankGoesOn
    <3>5. at' = "rouse" /\ ramp' = next /\ now' = now
      BY <1>2, <2>1, <3>1, <3>2, <3>4
    <3> QED
      BY <2>11, <3>1, <3>4, <3>5
  <2>13. CASE ~got.constant
    <3>1. cam'.awake
      BY <1>2, <2>9, <2>11, <2>13 DEF Camera
    <3>2. at' # "none" /\ at' # "rouse"
      BY <2>1, <2>5, <2>13 DEF Stop
    <3> QED
      BY <2>11, <3>1, <3>2
  <2> QED
    BY <1>3, <2>12, <2>13
<1> QED
  BY <1>5, <1>6

\* Every step of ft_acquire() keeps it.
LEMMA AcquireWorks ==
  ASSUME NEW L \in Seq(Nat), Ladder(L), AcqInv, WorkingInv(L), AcquireNext
  PROVE  WorkingInv(L)'
BY BeginWorks, RouseWorks, ShootWorks, JudgeWorks, KeepWorks DEF AcquireNext

\* Nowhere in ft_acquire().
LEMMA OffWorks ==
  ASSUME NEW L, at' = "off", faults' \in Nat, need' \in Nat
  PROVE  WorkingInv(L)'
BY DEF WorkingInv

LEMMA WorkingStep ==
  ASSUME NEW L \in Seq(Nat), Ladder(L)
  PROVE  AcquiringInv /\ ClearInv /\ WorkingInv(L) /\ [Next]_vars => (ClearInv /\ WorkingInv(L))'
<1> SUFFICES ASSUME AcquiringInv, ClearInv, WorkingInv(L), [Next]_vars
             PROVE  ClearInv' /\ WorkingInv(L)'
  OBVIOUS
<1> DEFINE Early == pc \notin {"camera", "queries", "loop", "park", "bootsel"}
<1>0. /\ cam \in Camera /\ (pc # "camera" => at = "off") /\ AcqInv
      /\ faults \in Nat /\ need \in Nat
  BY DEF AcquiringInv, AcqInv, AcqType, WorkingInv
<1>1. CASE Bite \/ Reboot \/ PowerCycle
  <2>1. PICK c \in Camera : Restart(c)
    BY <1>0, <1>1, PowerOnIsCamera DEF Bite, Reboot, PowerCycle
  <2>2. ~cam'.fault /\ at' = "off" /\ faults' = 0 /\ need' = 0
    BY <2>1 DEF Restart, Left, Camera
  <2> QED
    BY <2>2, OffWorks DEF ClearInv
<1>2. CASE CameraEnds
  <2>1. at' = "off" /\ faults' = 0 /\ need' = 0 /\ pc' \in {"queries", "park"}
    BY <1>2 DEF CameraEnds, Left
  <2> QED
    BY <2>1, OffWorks DEF ClearInv
<1>3. CASE Acquiring
  <2>1. pc = "camera" /\ UNCHANGED pc /\ (AcquireStart \/ AcquireNext)
    BY <1>3 DEF Acquiring, bootVars
  <2>2. at' # "off"
    <3>1. AcquireStart \/ AcquireBegin \/ Rouse \/ Shoot \/ Keep => at' # "off"
      BY DEF AcquireStart, AcquireBegin, Rouse, Shoot, Keep
    <3>2. Judge => at' # "off"
      BY Zenon DEF Judge, Stop
    <3> QED
      BY <2>1, <3>1, <3>2 DEF AcquireNext
  <2>3. CASE AcquireStart
    <3>1. at = "off" /\ ~cam.fault
      BY <2>1, <2>3 DEF AcquireStart, ClearInv
    <3> QED
      BY <1>0, <2>1, <2>2, <2>3, <3>1, StartWorks DEF ClearInv
  <2>4. CASE AcquireNext
    BY <1>0, <2>1, <2>2, <2>4, AcquireWorks DEF ClearInv
  <2> QED
    BY <2>1, <2>3, <2>4
<1>4. CASE Wedge
  <2>1. /\ UNCHANGED <<pc, at, faults, need>> /\ cam'.busy /\ cam'.fault = cam.fault
    BY <1>0, <1>4 DEF Wedge, bootVars, Camera
  <2>2. WorkingInv(L)'
    BY <1>0, <2>1 DEF WorkingInv, Faultless
  <2>3. ClearInv'
    BY <2>1 DEF ClearInv
  <2> QED
    BY <2>2, <2>3
<1>5. CASE LoopKey
  <2>1. pc' = "loop" /\ at' = "off" /\ UNCHANGED <<faults, need>>
    BY <1>0, <1>5 DEF LoopKey, bootVars
  <2> QED
    BY <1>0, <2>1, OffWorks DEF ClearInv
<1>6. CASE /\ pc # "camera" /\ UNCHANGED <<at, cam, faults, need>>
           /\ Early \/ pc' \in {"loop", "bootsel"}
  <2>1. at' = "off" /\ faults' \in Nat /\ need' \in Nat
    BY <1>0, <1>6
  <2>2. ClearInv'
    BY <1>6 DEF ClearInv
  <2> QED
    BY <2>1, <2>2, OffWorks
<1>7. ASSUME Enumerate \/ RailUp \/ ClockUp \/ ClockDown \/ RailDown \/ Queries \/ Bootsel
      PROVE  /\ pc # "camera" /\ UNCHANGED <<at, cam, faults, need>>
             /\ Early \/ pc' \in {"loop", "bootsel"}
  BY <1>7 DEF Enumerate, RailUp, ClockUp, ClockDown, RailDown, Queries, Bootsel, acquireVars
<1>8. ASSUME PinsInit \/ Claim \/ Load \/ Release \/ HostInit \/ ProbeWide \/ ProbeNarrow \/ ProbeEnds
      PROVE  pc # "camera" /\ UNCHANGED <<at, cam, faults, need>> /\ Early
  BY <1>8 DEF PinsInit, Claim, Load, Release, HostInit, ProbeWide, ProbeNarrow, ProbeEnds,
              Stage, acquireVars
<1>9. ASSUME HuntTimeout \/ HuntByte \/ Payload
      PROVE  pc # "camera" /\ UNCHANGED <<at, cam, faults, need>> /\ Early
  BY <1>9 DEF HuntTimeout, HuntByte, Payload
<1>10. CASE UNCHANGED vars
  <2>1. UNCHANGED <<pc, at, cam, faults, need, ramp, got, now>>
    BY <1>10 DEF vars, bootVars, acquireVars
  <2> QED
    BY <2>1 DEF ClearInv, WorkingInv, Faultless, Climbing
<1> QED
  BY <1>1, <1>2, <1>3, <1>4, <1>5, <1>6, <1>7, <1>8, <1>9, <1>10 DEF Next, BootNext

\* A camera nothing goes wrong with is acquired, whatever the last run left in it and
\* whatever quiet up to FT_QUIET_MAX_MS the room needs, for every set of limits whose budget
\* covers the quiets that ft_acquire() tries (with 50 ms, 4 s and 25 s they are the eight of
\* 50, 100, 200 .. 4000 ms, and a capture may take as long as 1.6 s).
THEOREM WorkingCamerasAreAcquired ==
  ASSUME NEW L \in Seq(Nat), Ladder(L)
  PROVE  Spec => []WorkingCameraIsAcquired
<1>1. Init => ClearInv /\ WorkingInv(L)
  <2> SUFFICES ASSUME Init PROVE ClearInv /\ WorkingInv(L)
    OBVIOUS
  <2>1. at = "off" /\ faults = 0 /\ need = 0 /\ cam = PowerOn
    BY DEF Init
  <2> QED
    BY <2>1 DEF ClearInv, WorkingInv, PowerOn
<1>2. WorkingInv(L) => WorkingCameraIsAcquired
  BY DEF WorkingInv, WorkingCameraIsAcquired, Faultless, Sound
<1> QED
  BY <1>1, <1>2, WorkingStep, AcquiringInductive, PTL DEF Spec
=============================================================================
