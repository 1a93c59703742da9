---------------------------- MODULE CaptureProofs ----------------------------
(***************************************************************************)
(* Theorems about Capture for every number of layers, every pace, room and *)
(* lead, and any number of faults and presses; and about Witness, the      *)
(* demo's record of what the camera's loops did, for every order of its    *)
(* loops, every pattern of steps and every burst.                          *)
(***************************************************************************)
EXTENDS Capture, Witness, SequenceTheorems, WellFoundedInduction, TLAPS

Tag  == 0 .. Tags - 1
Shot == [tag : Tag, synth : BOOLEAN]

Camera == [trig : Tag \cup {None}, last : Tag \cup {None}, fifo : Shot \cup {None},
           left : Int, next : Tag, source : BOOLEAN, stuck : BOOLEAN]

CapType ==
  /\ pc \in {"boot", "capture", "encode", "console"} /\ layer \in 0 .. Layers
  /\ pipeline \in BOOLEAN /\ armed \in BOOLEAN /\ eager \in BOOLEAN
  /\ sched \in BOOLEAN /\ synth \in BOOLEAN /\ announce \in 0 .. 2
  /\ us \in [0 .. Layers - 1 -> Nat] /\ pace \in Paces /\ room \in Rooms
  /\ cam \in Camera

\* What an armed driver holds: the trigger, its time and its exposure are one.
InFlight(c, isArmed) ==
  /\ isArmed <=> c.trig # None
  /\ isArmed => c.fifo \in Shot /\ c.fifo.tag = c.trig /\ c.last = c.trig

\* A frame in hand is the one its time says, and what is armed behind it was
\* triggered from the source the camera is on.
InHand ==
  /\ arena \in Shot /\ trig_at = arena.tag
  /\ armed => pipeline /\ cam.fifo.synth = cam.source

\* The layers done so far were timed at one pace.
Timed == \A k \in 0 .. Layers - 1 : k < layer => us[k] = pace[k]

\* A frame that is not off the camera's source has its announcements still to come.
Announced ==
  synth => /\ pc = "capture" /\ armed /\ cam.fifo.synth # cam.source => announce = 2
           /\ pc = "encode" /\ arena.synth # cam.source => announce = 2
           /\ pc = "console" /\ arena.synth # cam.source => announce # 0

CapInv ==
  /\ CapType
  /\ InFlight(cam, armed)
  /\ pc = "boot" => ~armed
  /\ pc \in {"encode", "console"} => InHand
  /\ pc = "encode" => Timed
  /\ ScheduleIsOneFrame
  /\ Announced

-----------------------------------------------------------------------------
\* What the constants are.
LEMMA Constants ==
  /\ Layers \in Nat \ {0} /\ Rooms \subseteq Nat /\ Tags = 4
  /\ \A p \in Paces : p \in [0 .. Layers -> Nat]
  /\ None \notin Tag /\ None \notin Shot
BY CaptureAssumption DEF Tags, Tag, Shot

\* The larger of two integers.
LEMMA MaxOfTwo ==
  ASSUME NEW u \in Int, NEW b \in Int
  PROVE  Max({u, b}) = IF u >= b THEN u ELSE b
<1> DEFINE P(x) == x \in {u, b} /\ \A y \in {u, b} : x >= y
           m == IF u >= b THEN u ELSE b
<1>1. Max({u, b}) = CHOOSE x \in {u, b} : \A y \in {u, b} : x >= y
  BY DEF Max
<1>2. P(m)
  OBVIOUS
<1>3. \A x : P(x) => x = m
  OBVIOUS
<1> QED
  BY <1>1, <1>2, <1>3

\* A driver whose trigger has been collected, field by field.
LEMMA CollectedIs ==
  ASSUME NEW c \in Camera, NEW d, d = [c EXCEPT !.trig = None, !.left = 0]
  PROVE  d = [trig |-> None, last |-> c.last, fifo |-> c.fifo, left |-> 0, next |-> c.next,
              source |-> c.source, stuck |-> c.stuck]
BY DEF Camera

\* And one that has just been triggered.
Written(c, d, x, y, z, f) ==
  d = [c EXCEPT !.trig = x, !.last = x, !.next = y, !.left = z, !.fifo = f, !.stuck = FALSE]

WrittenOut(c, d, x, y, z, f) ==
  d = [trig |-> x, last |-> x, fifo |-> f, left |-> z, next |-> y, source |-> c.source,
       stuck |-> FALSE]

LEMMA WrittenIs ==
  ASSUME NEW c \in Camera, NEW d, NEW x, NEW y, NEW z, NEW f, Written(c, d, x, y, z, f)
  PROVE  WrittenOut(c, d, x, y, z, f)
BY DEF Written, WrittenOut, Camera

\* What a driver keeps while nothing is triggered.
Keeps(c, d) ==
  /\ d \in Camera /\ d.trig = c.trig /\ d.last = c.last /\ d.fifo = c.fifo
  /\ d.source = c.source

LEMMA ElapsedKeeps ==
  ASSUME NEW c \in Camera, NEW t \in Nat
  PROVE  Keeps(c, Elapsed(c, t))
<1>1. Max({0, c.left - t}) \in Int
  BY MaxOfTwo DEF Camera
<1>2. Elapsed(c, t) = [c EXCEPT !.left = Max({0, c.left - t})]
  BY DEF Elapsed
<1> HIDE DEF Elapsed
<1> QED
  BY <1>1, <1>2 DEF Camera, Keeps

LEMMA SleptKeeps ==
  ASSUME NEW c \in Camera, NEW d \in Slept(c)
  PROVE  Keeps(c, d)
BY DEF Slept, Camera, Keeps

\* What cam_trigger() leaves when it goes out.
LEMMA TriggeredIs ==
  ASSUME NEW c \in Camera, room \in Rooms
  PROVE  /\ Triggered(c) \in Camera /\ Triggered(c).trig \in Tag
         /\ Triggered(c).last = Triggered(c).trig
         /\ Triggered(c).fifo \in Shot /\ Triggered(c).fifo.tag = Triggered(c).trig
         /\ Triggered(c).fifo.synth = c.source /\ Triggered(c).source = c.source
<1>1. c.next \in Tag /\ c.source \in BOOLEAN /\ (c.next + 1) % Tags \in Tag
  BY Constants DEF Camera, Tag
<1>2. [tag |-> c.next, synth |-> c.source] \in Shot
  BY <1>1 DEF Shot
<1>3. Triggered(c) =
        [trig |-> c.next, last |-> c.next, fifo |-> [tag |-> c.next, synth |-> c.source],
         left |-> room, next |-> (c.next + 1) % Tags, source |-> c.source, stuck |-> FALSE]
  <2> DEFINE t == Triggered(c)
             f == [tag |-> c.next, synth |-> c.source]
             y == (c.next + 1) % Tags
             x == c.next
  <2>1. Written(c, t, x, y, room, f)
    BY Zenon DEF Triggered, Written
  <2> HIDE DEF t, f, x, y
  <2>2. WrittenOut(c, t, x, y, room, f)
    BY <2>1, WrittenIs, Zenon
  <2> QED
    BY <2>2, Zenon DEF WrittenOut, t, f, x, y
<1>4. room \in Int
  BY Constants
<1>5. Triggered(c) \in Camera
  BY <1>1, <1>2, <1>3, <1>4 DEF Camera
<1> QED
  BY <1>1, <1>2, <1>3, <1>5

\* And when the bus stalls.
LEMMA StallsAre ==
  ASSUME NEW c \in Camera, NEW d \in Stalls(c)
  PROVE  d \in Camera /\ d.trig = c.trig /\ d.last = c.last /\ d.source = c.source
<1>1. CASE d = [c EXCEPT !.stuck = TRUE]
  BY <1>1 DEF Camera
<1>2. CASE d = [c EXCEPT !.stuck = TRUE, !.fifo = None, !.left = 0]
  <2>1. d = [trig |-> c.trig, last |-> c.last, fifo |-> None, left |-> 0, next |-> c.next,
             source |-> c.source, stuck |-> TRUE]
    BY <1>2 DEF Camera
  <2>2. d \in Camera
    BY <2>1 DEF Camera
  <2> QED
    BY <2>1, <2>2
<1> QED
  BY <1>1, <1>2 DEF Stalls

\* Arming keeps a trigger in flight as it was, and puts out only one off the source.
LEMMA ArmKeeps ==
  ASSUME CapType, NEW c \in Camera, NEW held \in BOOLEAN, NEW when \in BOOLEAN, InFlight(c, held),
         NEW next \in Arm(c, held, when)
  PROVE  /\ next[1] \in Camera /\ next[2] \in BOOLEAN /\ next[1].source = c.source
         /\ InFlight(next[1], next[2])
         /\ held => next[2] /\ next[1] = c
         /\ ~held /\ next[2] => pipeline /\ next[1].fifo.synth = c.source
<1>1. CASE ~(pipeline /\ ~held /\ when)
  <2>1. next = <<c, held, 0>>
    BY <1>1 DEF Arm
  <2> QED
    BY <2>1
<1>2. CASE pipeline /\ ~held /\ when
  <2>1. next \in Trigger(c) /\ room \in Rooms
    BY <1>2 DEF Arm, CapType
  <2>2. CASE next = <<Triggered(c), TRUE, 0>>
    BY <1>2, <2>1, <2>2, TriggeredIs, Constants DEF InFlight
  <2>3. CASE \E d \in Stalls(c) : next = <<d, FALSE, 1>>
    BY <1>2, <2>3, StallsAre DEF InFlight
  <2> QED
    BY <2>1, <2>2, <2>3 DEF Trigger
<1> QED
  BY <1>1, <1>2

-----------------------------------------------------------------------------
\* The end of ft_capture(), of a driver with nothing in flight: what it delivers is the
\* exposure it names, and what it arms is off the source.
LEMMA DeliverKeeps ==
  ASSUME CapInv, pc = "capture", layer' = 0, UNCHANGED <<mode, announce, plan, world>>,
         NEW c \in Camera, c.trig = None, c.source = cam.source,
         NEW w, NEW good \in BOOLEAN, NEW cost,
         good => /\ c.fifo \in Shot /\ c.last = c.fifo.tag
                 /\ synth /\ c.fifo.synth # c.source => announce = 2,
         Deliver(c, w, good, cost)
  PROVE  CapInv'
<1>1. CapType /\ eager \in BOOLEAN /\ InFlight(c, FALSE)
  BY DEF CapInv, CapType, InFlight
<1>2. PICK next \in Arm(c, FALSE, eager) :
        /\ trig_at' = c.last
        /\ cam' \in IF good THEN {next[1]} ELSE Slept(next[1])
        /\ armed' = next[2]
        /\ arena' = IF good THEN c.fifo ELSE None
        /\ pc' = IF good THEN "encode" ELSE "capture"
  BY DEF Deliver, TrigAt
<1>3. /\ next[1] \in Camera /\ next[2] \in BOOLEAN /\ next[1].source = c.source
      /\ InFlight(next[1], next[2])
      /\ next[2] => pipeline /\ next[1].fifo.synth = c.source
  BY <1>1, <1>2, ArmKeeps
<1>4. Keeps(next[1], cam')
  <2>1. CASE good
    BY <1>2, <1>3, <2>1 DEF Keeps
  <2>2. CASE ~good
    BY <1>2, <1>3, <2>2, SleptKeeps
  <2> QED
    BY <2>1, <2>2
<1>5. InFlight(cam', armed') /\ (armed' => pipeline /\ cam'.fifo.synth = cam'.source)
  BY <1>2, <1>3, <1>4 DEF InFlight, Keeps
<1>6. UNCHANGED <<pipeline, eager, synth, announce, sched, tail, us, pace, room>>
  BY DEF mode, plan, world
<1>7. CapType'
  BY <1>1, <1>2, <1>3, <1>4, <1>6, Constants DEF CapType, Keeps
<1>8. pc' \in {"encode", "console"} => InHand'
  BY <1>2, <1>5, <1>6 DEF InHand
<1>9. pc' = "encode" => Timed'
  BY Constants DEF Timed
<1>10. ScheduleIsOneFrame'
  BY <1>6 DEF CapInv, ScheduleIsOneFrame
<1>11. Announced'
  BY <1>2, <1>3, <1>4, <1>5, <1>6 DEF Announced, Keeps
<1> QED
  BY <1>2, <1>5, <1>7, <1>8, <1>9, <1>10, <1>11 DEF CapInv

\* cam_collect(), of a trigger that is in flight.
LEMMA CollectKeeps ==
  ASSUME CapInv, pc = "capture", layer' = 0, UNCHANGED <<mode, announce, plan, world>>,
         NEW c \in Camera, c.fifo \in Shot, c.last = c.fifo.tag, c.source = cam.source,
         synth /\ c.fifo.synth # c.source => announce = 2,
         Collect(c)
  PROVE  CapInv'
<1> DEFINE d == [c EXCEPT !.trig = None, !.left = 0]
           e(s) == [d EXCEPT !.stuck = s]
<1>1. d \in Camera /\ d.trig = None /\ d.fifo = c.fifo /\ d.last = c.last /\ d.source = c.source
  <2>1. d = [trig |-> None, last |-> c.last, fifo |-> c.fifo, left |-> 0, next |-> c.next,
             source |-> c.source, stuck |-> c.stuck]
    BY CollectedIs, Zenon
  <2>2. d \in Camera
    BY <2>1 DEF Camera
  <2> QED
    BY <2>1, <2>2
<1>2. \A s \in BOOLEAN : e(s) \in Camera /\ e(s).trig = None /\ e(s).source = c.source
  <2> HIDE DEF d
  <2> QED
    BY <1>1 DEF Camera
<1>3. \/ \E good \in BOOLEAN, cost \in {0, 1} : Deliver(d, c.left, good, cost)
      \/ \E s \in BOOLEAN : Deliver(e(s), 0, FALSE, 1)
      \/ Deliver(d, 0, FALSE, 0)
  BY DEF Collect
<1> HIDE DEF d, e
<1>4. CASE \E good \in BOOLEAN, cost \in {0, 1} : Deliver(d, c.left, good, cost)
  BY <1>1, <1>4, DeliverKeeps
<1>5. CASE \E s \in BOOLEAN : Deliver(e(s), 0, FALSE, 1)
  BY <1>2, <1>5, DeliverKeeps
<1>6. CASE Deliver(d, 0, FALSE, 0)
  BY <1>1, <1>6, DeliverKeeps
<1> QED
  BY <1>3, <1>4, <1>5, <1>6

\* ft_capture() collects what is in flight or what it has triggered itself.
LEMMA CaptureStep == CapInv /\ Capture => CapInv'
<1>0. SUFFICES ASSUME CapInv, Capture PROVE CapInv'
  OBVIOUS
<1>1. /\ pc = "capture" /\ layer' = 0 /\ UNCHANGED <<mode, announce, plan, world>>
      /\ CapType /\ cam \in Camera /\ armed \in BOOLEAN /\ room \in Rooms /\ InFlight(cam, armed)
  BY <1>0 DEF Capture, CapInv, CapType
<1>2. CASE armed /\ Collect(cam)
  <2>1. cam.fifo \in Shot /\ cam.last = cam.fifo.tag
    BY <1>1, <1>2 DEF InFlight
  <2>2. synth /\ cam.fifo.synth # cam.source => announce = 2
    BY <1>0, <1>1, <1>2 DEF CapInv, Announced
  <2> QED
    BY <1>0, <1>1, <1>2, <2>1, <2>2, CollectKeeps
<1>3. CASE ~armed /\ Collect(Triggered(cam))
  BY <1>0, <1>1, <1>3, TriggeredIs, CollectKeeps
<1>4. CASE ~armed /\ \E c \in Stalls(cam) : Deliver(c, 0, FALSE, 1)
  <2>1. PICK c \in Stalls(cam) : Deliver(c, 0, FALSE, 1)
    BY <1>4
  <2>2. c \in Camera /\ c.trig = None /\ c.source = cam.source
    BY <1>1, <1>4, StallsAre DEF InFlight
  <2> QED
    BY <1>0, <1>1, <2>1, <2>2, DeliverKeeps
<1> QED
  BY <1>0, <1>2, <1>3, <1>4 DEF Capture

-----------------------------------------------------------------------------
\* What a driver is after time has passed, a trigger has gone out or not, and the loop
\* has slept or not.
Passed(d, held) ==
  /\ d \in Camera /\ held \in BOOLEAN /\ InFlight(d, held) /\ d.source = cam.source
  /\ armed => held /\ d.fifo = cam.fifo
  /\ ~armed /\ held => pipeline /\ d.fifo.synth = d.source

LEMMA ArmPasses ==
  ASSUME CapInv, NEW t \in Nat, NEW when \in BOOLEAN,
         NEW next \in Arm(Elapsed(cam, t), armed, when), NEW d \in {next[1]} \cup Slept(next[1])
  PROVE  Passed(d, next[2])
<1>1. CapType /\ cam \in Camera /\ armed \in BOOLEAN /\ InFlight(cam, armed)
  BY DEF CapInv, CapType
<1> DEFINE c == Elapsed(cam, t)
<1>2. Keeps(cam, c)
  BY <1>1, ElapsedKeeps
<1>3. InFlight(c, armed) /\ c \in Camera
  BY <1>1, <1>2 DEF InFlight, Keeps
<1>4. next \in Arm(c, armed, when)
  OBVIOUS
<1> HIDE DEF c
<1>5. /\ next[1] \in Camera /\ next[2] \in BOOLEAN /\ next[1].source = c.source
      /\ InFlight(next[1], next[2])
      /\ armed => next[2] /\ next[1] = c
      /\ ~armed /\ next[2] => pipeline /\ next[1].fifo.synth = c.source
  BY <1>1, <1>3, <1>4, ArmKeeps
<1>6. Keeps(next[1], d)
  <2>1. CASE d = next[1]
    BY <1>5, <2>1 DEF Keeps
  <2>2. CASE d \in Slept(next[1])
    BY <1>5, <2>2, SleptKeeps
  <2> QED
    BY <2>1, <2>2
<1>7. InFlight(d, next[2])
  BY <1>5, <1>6 DEF InFlight, Keeps
<1> QED
  BY <1>2, <1>5, <1>6, <1>7 DEF Passed, Keeps

\* Passing keeps a frame in hand in hand, and what is announced announced.
LEMMA PassedKeeps ==
  ASSUME CapInv, pc = "encode", Passed(cam', armed'), pc' \in {"encode", "console", "capture"},
         UNCHANGED <<mode, arena, trig_at>>,
         pc' = "console" => announce' = announce \/ announce' = Max({0, announce - 1}),
         pc' # "console" => announce' = announce
  PROVE  /\ InFlight(cam', armed') /\ cam' \in Camera /\ armed' \in BOOLEAN
         /\ InHand' /\ Announced' /\ announce' \in 0 .. 2
<1>1. /\ InHand /\ Announced /\ announce \in 0 .. 2 /\ armed \in BOOLEAN
      /\ UNCHANGED <<pipeline, eager, synth>>
  BY DEF CapInv, CapType, mode
<1>2. InHand' /\ (armed' => cam'.fifo.synth = cam'.source) /\ cam'.source = cam.source
  BY <1>1 DEF InHand, Passed
<1>3. announce - 1 \in Int /\ (Max({0, announce - 1}) = IF 0 >= announce - 1 THEN 0 ELSE announce - 1)
  BY <1>1, MaxOfTwo
<1>4. announce' \in 0 .. 2 /\ (announce = 2 => announce' # 0)
  BY <1>1, <1>3
<1>5. Announced'
  BY <1>1, <1>2, <1>4 DEF Announced
<1> QED
  BY <1>2, <1>4, <1>5 DEF Passed

LEMMA LayerStep == CapInv /\ Layer => CapInv'
<1>0. SUFFICES ASSUME CapInv, Layer PROVE CapInv'
  OBVIOUS
<1>1. /\ pc = "encode" /\ layer \in Nat /\ layer < Layers /\ layer' = layer + 1
      /\ UNCHANGED <<mode, announce, sched, tail, pace, room, arena, trig_at>>
      /\ CapType /\ armed \in BOOLEAN /\ pace \in [0 .. Layers -> Nat]
      /\ us \in [0 .. Layers - 1 -> Nat]
  <2>1. CapType /\ pc = "encode" /\ layer < Layers /\ layer' = layer + 1
    BY <1>0 DEF Layer, CapInv
  <2>2. layer \in Nat /\ armed \in BOOLEAN /\ us \in [0 .. Layers - 1 -> Nat] /\ pace \in Paces
    BY <2>1, Constants DEF CapType
  <2>3. UNCHANGED <<mode, announce, sched, tail, pace, room, arena, trig_at>>
    BY <1>0 DEF Layer, loop, world
  <2> QED
    BY <2>1, <2>2, <2>3, Constants
<1>2. PICK link \in {0, 1}, t \in {0, pace[layer]} :
        /\ link = 0 => t = pace[layer]
        /\ us' = [us EXCEPT ![layer] = t]
        /\ \E next \in Arm(Elapsed(cam, t), armed, Due(layer + 1)) :
             /\ armed' = next[2]
             /\ \/ link = 0 /\ cam' = next[1] /\ pc' = pc
                \/ link = 1 /\ cam' \in Slept(next[1]) /\ pc' = "capture"
  BY <1>0 DEF Layer
<1>3. PICK next \in Arm(Elapsed(cam, t), armed, Due(layer + 1)) :
        /\ armed' = next[2]
        /\ \/ link = 0 /\ cam' = next[1] /\ pc' = pc
           \/ link = 1 /\ cam' \in Slept(next[1]) /\ pc' = "capture"
  BY <1>2
<1>4. t \in Nat /\ Due(layer + 1) \in BOOLEAN
  <2>1. pace[layer] \in Nat
    BY <1>1, Constants
  <2>2. Due(layer + 1) \in BOOLEAN
    BY Zenon DEF Due
  <2> QED
    BY <1>2, <2>1, <2>2
<1>5. cam' \in {next[1]} \cup Slept(next[1])
  BY <1>3
<1>6. Passed(cam', armed')
  BY <1>0, <1>3, <1>4, <1>5, ArmPasses
<1>7. /\ InFlight(cam', armed') /\ cam' \in Camera /\ armed' \in BOOLEAN
      /\ InHand' /\ Announced' /\ announce' \in 0 .. 2
  <2>1. pc' \in {"encode", "capture"}
    BY <1>1, <1>3
  <2>2. announce' = announce /\ UNCHANGED <<mode, arena, trig_at>>
    BY <1>1
  <2> QED
    BY <1>0, <1>1, <1>6, <2>1, <2>2, PassedKeeps
<1>8. us' \in [0 .. Layers - 1 -> Nat]
  BY <1>1, <1>2, <1>4
<1>9. CapType'
  BY <1>1, <1>3, <1>7, <1>8, Constants DEF CapType, mode
<1>10. pc' = "encode" => Timed'
  <2>1. SUFFICES ASSUME pc' = "encode" PROVE Timed'
    OBVIOUS
  <2>2. us' = [us EXCEPT ![layer] = pace[layer]] /\ Timed
    BY <1>0, <1>1, <1>2, <1>3, <2>1 DEF CapInv
  <2> QED
    BY <1>1, <2>2, Constants DEF Timed
<1>11. ScheduleIsOneFrame'
  BY <1>0, <1>1 DEF CapInv, ScheduleIsOneFrame
<1> QED
  BY <1>1, <1>3, <1>7, <1>9, <1>10, <1>11 DEF CapInv

LEMMA LayerFaultStep == CapInv /\ LayerFault => CapInv'
<1>0. SUFFICES ASSUME CapInv, LayerFault PROVE CapInv'
  OBVIOUS
<1>1. /\ pc = "encode" /\ pc' = "capture" /\ CapType /\ cam \in Camera /\ InFlight(cam, armed)
      /\ InHand /\ cam' \in Slept(cam)
      /\ UNCHANGED <<layer, mode, announce, armed, plan, arena, trig_at, world>>
  BY <1>0 DEF LayerFault, CapInv, CapType, loop
<1>2. Keeps(cam, cam')
  BY <1>1, SleptKeeps
<1>3. CapType'
  BY <1>1, <1>2 DEF CapType, Keeps, mode, plan, world
<1>4. InFlight(cam', armed')
  BY <1>1, <1>2 DEF InFlight, Keeps
<1>5. Announced'
  BY <1>1, <1>2 DEF Announced, InHand, Keeps
<1>6. ScheduleIsOneFrame'
  BY <1>0, <1>1 DEF CapInv, ScheduleIsOneFrame, plan
<1> QED
  BY <1>1, <1>3, <1>4, <1>5, <1>6 DEF CapInv

LEMMA CloseFrameStep == CapInv /\ CloseFrame => CapInv'
<1>0. SUFFICES ASSUME CapInv, CloseFrame PROVE CapInv'
  OBVIOUS
<1>1. /\ pc = "encode" /\ pc' = "console" /\ layer = Layers /\ sched' = TRUE
      /\ UNCHANGED <<layer, mode, us, pace, room, arena, trig_at>>
      /\ announce' = announce \/ announce' = Max({0, announce - 1})
      /\ CapType /\ pace \in [0 .. Layers -> Nat] /\ pace \in Paces
      /\ us \in [0 .. Layers - 1 -> Nat] /\ Timed
  BY <1>0, Constants DEF CloseFrame, CapInv, CapType, loop, world
<1>2. PICK next \in Arm(Elapsed(cam, pace[Layers]), armed, TRUE) :
        cam' = next[1] /\ armed' = next[2]
  BY <1>0 DEF CloseFrame
<1>3. pace[Layers] \in Nat /\ cam' \in {next[1]} \cup Slept(next[1])
  BY <1>1, <1>2, Constants
<1>4. Passed(cam', armed')
  BY <1>0, <1>2, <1>3, ArmPasses
<1>5. /\ InFlight(cam', armed') /\ cam' \in Camera /\ armed' \in BOOLEAN
      /\ InHand' /\ Announced' /\ announce' \in 0 .. 2
  <2>1. pc' \in {"encode", "console", "capture"} /\ UNCHANGED <<mode, arena, trig_at>>
    BY <1>1
  <2> QED
    BY <1>0, <1>1, <1>4, <2>1, PassedKeeps
<1>6. CapType'
  BY <1>1, <1>5 DEF CapType, mode
<1>7. [k \in 0 .. Layers |-> IF k = Layers THEN pace[k] ELSE us[k]] = pace
  BY <1>1, Constants DEF Timed
<1>8. ScheduleIsOneFrame'
  BY <1>0, <1>1, <1>7 DEF CloseFrame, ScheduleIsOneFrame
<1> QED
  BY <1>1, <1>5, <1>6, <1>8 DEF CapInv

\* probe() has timed a whole encode, and nothing is in flight.
LEMMA BootStep == CapInv /\ Boot => CapInv'
<1>0. SUFFICES ASSUME CapInv, Boot PROVE CapInv'
  OBVIOUS
<1>1. /\ pc' = "capture" /\ pipeline' = TRUE /\ sched' = TRUE /\ tail' = Suffix(pace)
      /\ us' = [k \in 0 .. Layers - 1 |-> pace[k]]
      /\ UNCHANGED <<layer, eager, synth, announce, armed, cam, pace, room>>
      /\ CapType /\ InFlight(cam, armed) /\ ~armed
      /\ pace \in Paces /\ pace \in [0 .. Layers -> Nat]
  BY <1>0, Constants DEF Boot, CapInv, CapType, loop, world
<1>2. us' \in [0 .. Layers - 1 -> Nat]
  BY <1>1, Constants
<1>3. CapType'
  BY <1>1, <1>2 DEF CapType
<1>4. ScheduleIsOneFrame'
  BY <1>1 DEF ScheduleIsOneFrame
<1> QED
  BY <1>1, <1>3, <1>4 DEF CapInv, InFlight, Announced

-----------------------------------------------------------------------------
\* A key that leaves the camera and the source alone.
LEMMA QuietPress ==
  ASSUME CapInv, Press, UNCHANGED <<synth, announce, cam>>,
         pipeline' \in BOOLEAN, eager' \in BOOLEAN
  PROVE  CapInv'
<1>1. /\ pc = "console" /\ pc' = "capture" /\ CapType /\ InHand /\ InFlight(cam, armed)
      /\ UNCHANGED <<layer, armed, sched, tail, us, pace, room>>
  BY DEF CapInv, Press, plan
<1>2. CapType'
  BY <1>1 DEF CapType
<1>3. ScheduleIsOneFrame'
  BY <1>1 DEF CapInv, ScheduleIsOneFrame
<1> QED
  BY <1>1, <1>2, <1>3 DEF CapInv, InFlight, InHand, Announced

\* 'M' may put the camera on another source than what is in flight, and then it
\* announces two frames.
LEMMA PressMStep == CapInv /\ PressM => CapInv'
<1>0. SUFFICES ASSUME CapInv, PressM PROVE CapInv'
  OBVIOUS
<1>1. /\ pc = "console" /\ pc' = "capture" /\ CapType /\ InHand /\ InFlight(cam, armed)
      /\ UNCHANGED <<layer, armed, sched, tail, us, pace, room, pipeline, eager>>
      /\ cam \in Camera /\ pipeline \in BOOLEAN /\ synth \in BOOLEAN
      /\ synth' = ~synth /\ announce' = IF synth THEN 0 ELSE Passing
  BY <1>0 DEF CapInv, CapType, PressM, Press, plan
<1>2. /\ cam' \in Camera /\ cam'.trig = cam.trig /\ cam'.last = cam.last /\ cam'.fifo = cam.fifo
  <2>1. CASE cam' = [cam EXCEPT !.source = ~synth]
    BY <1>1, <2>1 DEF Camera
  <2>2. CASE \E s \in {cam.source, ~synth} : cam' = [cam EXCEPT !.source = s, !.stuck = TRUE]
    <3>1. PICK s \in {cam.source, ~synth} : cam' = [cam EXCEPT !.source = s, !.stuck = TRUE]
      BY <2>2
    <3>2. s \in BOOLEAN
      BY <1>1 DEF Camera
    <3> QED
      BY <1>1, <3>1, <3>2 DEF Camera
  <2>3. CASE cam' = cam
    BY <1>1, <2>3
  <2> QED
    BY <1>0, <2>1, <2>2, <2>3 DEF PressM, SetSource
<1>3. InFlight(cam', armed')
  BY <1>1, <1>2 DEF InFlight
<1>4. synth' /\ armed' => announce' = 2
  BY <1>1 DEF InHand, Passing
<1>5. announce' \in 0 .. 2
  BY <1>1 DEF Passing
<1>6. CapType'
  BY <1>1, <1>2, <1>5 DEF CapType
<1>7. ScheduleIsOneFrame'
  BY <1>0, <1>1 DEF CapInv, ScheduleIsOneFrame
<1>8. Announced'
  BY <1>1, <1>4 DEF Announced
<1> QED
  BY <1>1, <1>3, <1>6, <1>7, <1>8 DEF CapInv

\* The next frame, and what the world does before it.
LEMMA GoOnStep == CapInv /\ (Continue \/ Change \/ UNCHANGED vars) => CapInv'
<1>0. SUFFICES ASSUME CapInv, Continue \/ Change \/ UNCHANGED vars PROVE CapInv'
  OBVIOUS
<1>1. /\ UNCHANGED <<layer, mode, announce, armed, sched, tail, us, cam, arena, trig_at>>
      /\ pace' \in Paces /\ room' \in Rooms /\ CapType
      /\ \/ pc = "console" /\ pc' = "capture"
         \/ pc = "capture" /\ pc' = "capture"
         \/ pc' = pc /\ pace' = pace
  BY <1>0 DEF Continue, Change, CapInv, CapType, plan, loop, world, vars
<1>2. CapType'
  BY <1>1 DEF CapType, mode
<1>3. ScheduleIsOneFrame'
  BY <1>0, <1>1 DEF CapInv, ScheduleIsOneFrame
<1>4. InFlight(cam', armed') /\ UNCHANGED <<pipeline, synth>>
  BY <1>0, <1>1 DEF CapInv, InFlight, mode
<1>5. pc' \in {"encode", "console"} => InHand'
  BY <1>0, <1>1, <1>4 DEF CapInv, InHand
<1>6. pc' = "encode" => Timed'
  BY <1>0, <1>1 DEF CapInv, Timed
<1>7. Announced'
  BY <1>0, <1>1, <1>4 DEF CapInv, InHand, Announced
<1> QED
  BY <1>0, <1>1, <1>2, <1>3, <1>4, <1>5, <1>6, <1>7 DEF CapInv

-----------------------------------------------------------------------------
LEMMA InitCapInv == Init => CapInv
<1>0. SUFFICES ASSUME Init PROVE CapInv
  OBVIOUS
<1>1. CapType
  <2>1. cam \in Camera
    BY <1>0, Constants DEF Init, Camera, Tag
  <2>2. us \in [0 .. Layers - 1 -> Nat]
    BY <1>0 DEF Init
  <2>3. layer \in 0 .. Layers /\ announce \in 0 .. 2
    BY <1>0, Constants DEF Init
  <2> QED
    BY <1>0, <2>1, <2>2, <2>3 DEF Init, CapType
<1> QED
  BY <1>0, <1>1 DEF Init, CapInv, InFlight, ScheduleIsOneFrame, Announced

LEMMA StepCapInv == CapInv /\ [Next]_vars => CapInv'
<1>0. SUFFICES ASSUME CapInv, [Next]_vars PROVE CapInv'
  OBVIOUS
<1>1. CASE Boot
  BY <1>0, <1>1, BootStep
<1>2. CASE Capture
  BY <1>0, <1>2, CaptureStep
<1>3. CASE Layer
  BY <1>0, <1>3, LayerStep
<1>4. CASE LayerFault
  BY <1>0, <1>4, LayerFaultStep
<1>5. CASE CloseFrame
  BY <1>0, <1>5, CloseFrameStep
<1>6. CASE PressO
  BY <1>0, <1>6, QuietPress DEF PressO, CapInv, CapType
<1>7. CASE PressD
  BY <1>0, <1>7, QuietPress DEF PressD, CapInv, CapType
<1>8. CASE PressM
  BY <1>0, <1>8, PressMStep
<1>9. CASE Continue \/ Change \/ UNCHANGED vars
  BY <1>0, <1>9, GoOnStep
<1> QED
  BY <1>0, <1>1, <1>2, <1>3, <1>4, <1>5, <1>6, <1>7, <1>8, <1>9 DEF Next

\* CapInv holds whatever the paces, the rooms and the lead, however often the bus stalls
\* and whatever is pressed (ft_capture, cap_arm, cap_close_frame, m9.c's loop).
THEOREM CaptureInductive == Spec => []CapInv
<1>1. Init => CapInv
  BY InitCapInv
<1>2. CapInv /\ [Next]_vars => CapInv'
  BY StepCapInv
<1> QED
  BY <1>1, <1>2, PTL DEF Spec

\* The age printed is that of the frame that was scored (cap_trig_at).
THEOREM AgeIsRight == Spec => []AgeIsOfThisFrame
<1>1. CapInv => AgeIsOfThisFrame
  BY DEF CapInv, InHand, AgeIsOfThisFrame
<1> QED
  BY <1>1, CaptureInductive, PTL

\* cap_armed and trig_us agree, and the camera holds that exposure.
THEOREM ArmedIsHeld == Spec => []ArmedIsInFlight
<1>1. CapInv => ArmedIsInFlight
  BY Constants DEF CapInv, InFlight, ArmedIsInFlight
<1> QED
  BY <1>1, CaptureInductive, PTL

\* A schedule is one whole frame's (cap_close_frame, cap_tail_us).
THEOREM ScheduleIsWhole == Spec => []ScheduleIsOneFrame
<1>1. CapInv => ScheduleIsOneFrame
  BY DEF CapInv
<1> QED
  BY <1>1, CaptureInductive, PTL

\* A frame 'M' counts is off the source the camera is on (m9.c's announcement).
THEOREM CountedIsRight == Spec => []CountedIsOffTheSource
<1>1. CapInv => CountedIsOffTheSource
  BY DEF CapInv, Announced, CountedIsOffTheSource
<1> QED
  BY <1>1, CaptureInductive, PTL

-----------------------------------------------------------------------------
\* The keys that ask for a dump, the frame numbers, and what a sensor is.
Dumps  == {"P", "V"}
Number == 0 .. Frames - 1
Sensor == [mask : SUBSET Loops, running : SUBSET Loops, stuck : BOOLEAN,
           die : [Loops -> Values]]

\* The values of the variables the two invariants speak of.
WitnessType ==
  /\ at \in {"capture", "encode", "report", "console"} /\ n \in Number
  /\ sensor \in Sensor /\ inbox \in Seq({"L", "K", "P", "V"})
  /\ want_pic \in BOOLEAN /\ want_emb \in BOOLEAN
  /\ step \in 1 .. Len(Steps) /\ lost \in BOOLEAN
  /\ witness \in [phase : 0 .. 2, left : Int, tracking : SUBSET Loops, from_k : BOOLEAN,
                  on_write : SUBSET Loops]
  /\ pair \in [pic : Number \cup {Nothing}, emb : Number \cup {Nothing}, dropped : BOOLEAN]

\* Behind a frame, a loop that runs has put its own value where a check may have
\* put one.
Revised ==
  at \in {"encode", "report"} => \A l \in sensor.running : sensor.die[l] \in Lit[l]

\* A loop that does not run stands where the first sample saw it, unless that saw
\* the zero of a stalled bus.
StandsStill ==
  witness.phase = 2 /\ a.ok =>
    \A l \in Loops \ sensor.running : a.die[l] \in {0, sensor.die[l]}

\* The witness of a check has the check's value to compare with.
CheckedAgainst == witness.from_k => wrote = Try[2]

\* What is inductive of the lines printed.
LinesInv ==
  WitnessType /\ Revised /\ StandsStill /\ CheckedAgainst /\ LinesHaveGrounds

\* The dumps of s stand together.
Together(s) ==
  \A i, j, k \in 1 .. Len(s) :
    i < k /\ k < j /\ {s[i], s[j]} \subseteq Dumps => s[k] \in Dumps

\* What is asked for of a burst is asked for at once, so that nothing of it is
\* still to come when one of the two has been dumped; and the vector is only late
\* behind the picture of the frame that is being encoded.
PairInv ==
  /\ WitnessType /\ PairUnlessDropped /\ Together(inbox)
  /\ want_pic \/ want_emb \/ {pair.pic, pair.emb} # {Nothing} =>
       \A i \in 1 .. Len(inbox) : inbox[i] \notin Dumps
  /\ pair.pic # Nothing /\ want_emb /\ ~pair.dropped => at = "encode" /\ pair.pic = n
  /\ pair.emb # Nothing \/ at = "encode" => ~want_pic

-----------------------------------------------------------------------------
\* What the constants are.
LEMMA WitnessConstants ==
  /\ AE \in Loops /\ Order \in Seq(Loops) /\ \A l \in Loops : Index(l) \in 1 .. Len(Order)
  /\ Len(Order) \in Nat \ {0}
  /\ Steps \in Seq(SUBSET Loops) /\ Steps[1] = Loops /\ Len(Steps) \in Nat \ {0}
  /\ Frames \in Nat \ {0} /\ {Settle, Spacing} \subseteq Nat
  /\ Len(Try) = 2 /\ {Try[1], Try[2]} \subseteq ToSet(Try) /\ Try[1] # Try[2]
  /\ Try[1] # 0 /\ Try[2] # 0
  /\ \A l \in Loops : Lit[l] \subseteq Values
  /\ ToSet(Try) \subseteq Values
  /\ Bursts \subseteq Seq({"L", "K", "P", "V"})
  /\ Nothing \notin Number
<1>1. /\ Order \in Seq(Loops) /\ ToSet(Order) = Loops /\ Order # <<>> /\ Order[1] = AE
      /\ {Settle, Spacing, Frames} \subseteq Nat \ {0}
      /\ Len(Try) = 2 /\ Try[1] # Try[2] /\ Bursts \subseteq Seq({"L", "K", "P", "V"})
      /\ 0 \notin ToSet(Try) /\ Nothing \notin Nat
  BY WitnessAssumption
<1>2. \A l \in Loops : Index(l) \in 1 .. Len(Order)
  <2> TAKE l \in Loops
  <2>1. \E i \in 1 .. Len(Order) : Order[i] = l
    BY <1>1 DEF ToSet
  <2> QED
    BY <2>1 DEF Index
<1>3. Len(Order) \in Nat \ {0} /\ AE \in Loops
  BY <1>1
<1>4. Steps \in Seq(SUBSET Loops) /\ Steps[1] = Loops /\ Len(Steps) \in Nat \ {0}
  <2>1. Steps \in Seq(SUBSET Loops) /\ Steps # <<>> /\ Steps[1] = Loops
    BY WitnessAssumption
  <2> QED
    BY <2>1
<1>5. Try[1] \in ToSet(Try) /\ Try[2] \in ToSet(Try)
  BY <1>1 DEF ToSet
<1>6. \A l \in Loops : Lit[l] \subseteq Values
  BY DEF Values
<1>7. ToSet(Try) \subseteq Values /\ Nothing \notin Number
  BY <1>1 DEF Values, Number
<1> QED
  BY <1>1, <1>2, <1>3, <1>4, <1>5, <1>6, <1>7

\* Everything of a sensor but its values and its bus.
SameSetting(c, d) == d \in Sensor /\ d.mask = c.mask /\ d.running = c.running

\* And its values.
Holds(c, d) == SameSetting(c, d) /\ d.die = c.die

\* A stall, or a trigger that clears it, moves nothing but the bus.
LEMMA BusOnly ==
  ASSUME NEW c \in Sensor, NEW b \in BOOLEAN
  PROVE  Holds(c, [c EXCEPT !.stuck = b]) /\ [c EXCEPT !.stuck = b].stuck = b
BY DEF Sensor, SameSetting, Holds

\* A frame clocked out lets the loops that run revise their values, no other.
LEMMA ClockedIs ==
  ASSUME NEW c \in Sensor, NEW d \in Clocked(c)
  PROVE  /\ SameSetting(c, d) /\ d.stuck = c.stuck
         /\ \A l \in c.running : d.die[l] \in Lit[l]
         /\ \A l \in Loops \ c.running : d.die[l] = c.die[l]
<1>1. PICK v \in Dies(c) : d = [c EXCEPT !.die = v]
  BY DEF Clocked
<1>2. /\ v \in [Loops -> Values]
      /\ \A l \in Loops : IF l \in c.running THEN v[l] \in Lit[l] ELSE v[l] = c.die[l]
  BY <1>1 DEF Dies, Values
<1>3. d \in Sensor /\ d.mask = c.mask /\ d.running = c.running /\ d.stuck = c.stuck /\ d.die = v
  BY <1>1, <1>2 DEF Sensor
<1>4. c.running \subseteq Loops
  BY DEF Sensor
<1> QED
  BY <1>2, <1>3, <1>4 DEF SameSetting

\* A mask that is written, as far as it got, is all that may move.
LEMMA MaskWrittenIs ==
  ASSUME NEW c \in Sensor, NEW asked \in SUBSET Loops, NEW k \in 0 .. Len(Order),
         NEW d \in MaskWritten(c, asked, k)
  PROVE  /\ d \in Sensor /\ d.stuck = c.stuck /\ d.die = c.die
         /\ k = Len(Order) => d.mask = asked
<1> DEFINE these == {l \in Loops : Index(l) <= k}
           mask  == (c.mask \ these) \cup (asked \cap these)
<1>1. PICK r \in SUBSET Loops : d = [c EXCEPT !.mask = mask, !.running = r]
  BY DEF MaskWritten
<1>2. mask \subseteq Loops /\ c.mask \subseteq Loops
  BY DEF Sensor
<1>3. k = Len(Order) => these = Loops
  BY WitnessConstants
<1>4. k = Len(Order) => mask = asked
  BY <1>2, <1>3
<1> HIDE DEF mask
<1> QED
  BY <1>1, <1>2, <1>4 DEF Sensor

\* A mask is the one asked for, or the bus has stalled; no value moves.
LEMMA AutoMaskIs ==
  ASSUME NEW c \in Sensor, NEW asked \in SUBSET Loops, NEW d \in AutoMask(c, asked)
  PROVE  d \in Sensor /\ (~d.stuck => ~c.stuck /\ d.mask = asked)
<1>1. CASE c.stuck
  BY <1>1 DEF AutoMask
<1>2. CASE ~c.stuck /\ d \in MaskWritten(c, asked, Len(Order))
  BY <1>2, MaskWrittenIs, WitnessConstants
<1>3. CASE \E k \in 0 .. (Len(Order) - 1) : \E e \in MaskWritten(c, asked, k) :
             d = [e EXCEPT !.stuck = TRUE]
  <2>1. PICK k \in 0 .. (Len(Order) - 1) : \E e \in MaskWritten(c, asked, k) :
               d = [e EXCEPT !.stuck = TRUE]
    BY <1>3
  <2>2. PICK e \in MaskWritten(c, asked, k) : d = [e EXCEPT !.stuck = TRUE]
    BY <2>1
  <2>3. k \in 0 .. Len(Order)
    BY WitnessConstants
  <2>4. e \in Sensor
    BY <2>3, MaskWrittenIs
  <2> QED
    BY <2>2, <2>4, BusOnly DEF Holds, SameSetting
<1> QED
  BY <1>1, <1>2, <1>3 DEF AutoMask

\* A read that agrees is the exposure of the die or, of a bus that has stalled, zero.
LEMMA Read16Is ==
  ASSUME NEW c \in Sensor, NEW r \in Read16(c)
  PROVE  /\ Holds(c, r.sensor) /\ (c.stuck => r.sensor.stuck)
         /\ r.ok /\ ~r.sensor.stuck => r.got = c.die[AE]
         /\ r.ok => r.got \in {0, c.die[AE]}
         /\ c.stuck => r.got = 0
<1>1. Holds(c, c)
  BY DEF Holds, SameSetting
<1>2. Holds(c, [c EXCEPT !.stuck = TRUE]) /\ [c EXCEPT !.stuck = TRUE].stuck
  BY BusOnly
<1>3. CASE r = [sensor |-> c, got |-> 0, ok |-> TRUE] /\ c.stuck
  BY <1>1, <1>3
<1>4. CASE r = [sensor |-> c, got |-> c.die[AE], ok |-> TRUE] /\ ~c.stuck
  BY <1>1, <1>4
<1>5. CASE ~c.stuck /\ \E v \in Exposures : r = [sensor |-> c, got |-> v, ok |-> FALSE]
  BY <1>1, <1>5
<1>6. CASE ~c.stuck /\ \E v \in {0} \cup ({c.die[AE]} \cap LowZero), b \in BOOLEAN :
             r = [sensor |-> [c EXCEPT !.stuck = TRUE], got |-> v, ok |-> b]
  <2>1. PICK v \in {0, c.die[AE]}, b \in BOOLEAN :
          r = [sensor |-> [c EXCEPT !.stuck = TRUE], got |-> v, ok |-> b]
    BY <1>6
  <2> DEFINE d == [c EXCEPT !.stuck = TRUE]
  <2>2. Holds(c, d) /\ d.stuck
    BY <1>2
  <2> HIDE DEF d
  <2>3. r = [sensor |-> d, got |-> v, ok |-> b]
    BY <2>1 DEF d
  <2>4. r.sensor = d /\ r.got = v
    BY <2>3
  <2> QED
    BY <1>6, <2>2, <2>4
<1> QED
  BY <1>3, <1>4, <1>5, <1>6 DEF Read16

\* A sample that is not torn is what the die held, or zeros.
Seen(c, s) == Holds(c, s.sensor) /\ (s.ok => \A l \in Loops : s.die[l] \in {0, c.die[l]})

\* A sample moves nothing but the bus, and reads what Seen says.
LEMMA SampleIs ==
  ASSUME NEW c \in Sensor, NEW s \in Sample(c)
  PROVE  Seen(c, s)
<1> DEFINE Bytes(r, k) ==
             [sensor |-> [r.sensor EXCEPT !.stuck = @ \/ k < Len(Order)],
              die |-> [l \in Loops |-> IF l = AE THEN r.got
                                       ELSE IF Index(l) <= k THEN c.die[l] ELSE 0],
              ok |-> r.ok]
           Torn(r) == [sensor |-> r.sensor, die |-> [l \in Loops |-> 0], ok |-> FALSE]
<1>1. PICK r \in Read16(c) :
        s = Torn(r) \/ (r.ok /\ \E k \in 1 .. Len(Order) : s = Bytes(r, k))
  <2>1. PICK r \in Read16(c) :
          s \in (IF ~r.ok THEN {Torn(r)}
                 ELSE IF r.sensor.stuck THEN {Bytes(r, 1)}
                 ELSE {Bytes(r, Len(Order))}
                        \cup (IF CanStall THEN {Bytes(r, k) : k \in 1 .. (Len(Order) - 1)}
                              ELSE {}))
    BY DEF Sample
  <2> HIDE DEF Bytes, Torn
  <2>2. 1 \in 1 .. Len(Order) /\ Len(Order) \in 1 .. Len(Order)
        /\ 1 .. (Len(Order) - 1) \subseteq 1 .. Len(Order)
    BY WitnessConstants
  <2> QED
    BY <2>1, <2>2
<1>2. /\ Holds(c, r.sensor) /\ r.sensor \in Sensor
      /\ r.ok => r.got \in {0, c.die[AE]}
  BY Read16Is DEF Holds, SameSetting
<1>3. CASE s = Torn(r)
  BY <1>2, <1>3 DEF Seen
<1>4. CASE r.ok /\ \E k \in 1 .. Len(Order) : s = Bytes(r, k)
  <2>1. PICK k \in 1 .. Len(Order) : s = Bytes(r, k)
    BY <1>4
  <2> DEFINE stuck == r.sensor.stuck \/ k < Len(Order)
             e == [r.sensor EXCEPT !.stuck = stuck]
             f == [l \in Loops |-> IF l = AE THEN r.got
                                   ELSE IF Index(l) <= k THEN c.die[l] ELSE 0]
  <2>2. r.sensor.stuck \in BOOLEAN /\ stuck \in BOOLEAN
    BY <1>2 DEF Sensor
  <2>3. Holds(r.sensor, e)
    BY <1>2, <2>2, BusOnly
  <2>4. Holds(c, e)
    BY <1>2, <2>3 DEF Holds, SameSetting
  <2>5. \A l \in Loops : IF l = AE THEN f[l] = r.got ELSE f[l] \in {0, c.die[l]}
    OBVIOUS
  <2> HIDE DEF e, f
  <2>6. s = [sensor |-> e, die |-> f, ok |-> r.ok]
    BY <2>1, Zenon DEF e, f
  <2>7. s.sensor = e /\ s.die = f /\ s.ok = r.ok
    BY <2>6
  <2> QED
    BY <1>2, <2>4, <2>5, <2>7 DEF Seen
<1> QED
  BY <1>1, <1>3, <1>4

\* An exposure that is written reaches the die, or the bus stalls.
LEMMA WriteExposureIs ==
  ASSUME NEW c \in Sensor, NEW v \in ToSet(Try), NEW d \in WriteExposure(c, v)
  PROVE  d \in Sensor /\ (~d.stuck => ~c.stuck /\ d.die[AE] = v)
<1>1. /\ v \in Values /\ AE \in Loops /\ Exposures \subseteq Values
  BY WitnessConstants DEF Exposures
<1>2. \A w \in Values : \A b \in BOOLEAN :
        LET e == [c EXCEPT !.die[AE] = w, !.stuck = b]
        IN e \in Sensor /\ e.die[AE] = w /\ e.stuck = b
  BY <1>1 DEF Sensor
<1>3. \A w \in Values :
        LET e == [c EXCEPT !.die[AE] = w]
        IN e \in Sensor /\ e.die[AE] = w /\ e.stuck = c.stuck
  BY <1>1 DEF Sensor
<1>4. CASE c.stuck
  BY <1>4 DEF WriteExposure
<1>5. CASE ~c.stuck /\ d = [c EXCEPT !.die[AE] = v]
  BY <1>1, <1>3, <1>5
<1>6. CASE \E w \in Exposures : d = [c EXCEPT !.die[AE] = w, !.stuck = TRUE]
  BY <1>1, <1>2, <1>6
<1> QED
  BY <1>4, <1>5, <1>6 DEF WriteExposure

\* A value that nothing overwrote is read back, or the read is torn, or it is the
\* zero of a stalled bus.
LEMMA TryOneIs ==
  ASSUME NEW c \in Sensor, NEW v \in ToSet(Try), NEW o \in TryOne(c, v)
  PROVE  /\ o.sensor \in Sensor /\ (c.stuck => o.sensor.stuck /\ o.got = 0)
         /\ o.kept /\ o.ok => o.got = v \/ (o.got = 0 /\ o.sensor.stuck)
<1>1. PICK d \in WriteExposure(c, v) : \E e \in {d} \cup Clocked(d) : \E r \in Read16(e) :
        o = [sensor |-> r.sensor, got |-> r.got, ok |-> r.ok, kept |-> e.die[AE] = d.die[AE]]
  BY DEF TryOne
<1>2. PICK e \in {d} \cup Clocked(d) : \E r \in Read16(e) :
        o = [sensor |-> r.sensor, got |-> r.got, ok |-> r.ok, kept |-> e.die[AE] = d.die[AE]]
  BY <1>1
<1>3. PICK r \in Read16(e) :
        o = [sensor |-> r.sensor, got |-> r.got, ok |-> r.ok, kept |-> e.die[AE] = d.die[AE]]
  BY <1>2
<1>4. d \in Sensor /\ (~d.stuck => ~c.stuck /\ d.die[AE] = v)
  BY WriteExposureIs
<1>5. e \in Sensor /\ e.stuck = d.stuck
  BY <1>4, ClockedIs DEF SameSetting
<1>6. /\ r.sensor \in Sensor /\ (e.stuck => r.sensor.stuck /\ r.got = 0)
      /\ r.ok => r.got = e.die[AE] \/ (r.got = 0 /\ r.sensor.stuck)
  BY <1>5, Read16Is DEF Holds, SameSetting
<1>7. o.sensor = r.sensor /\ o.got = r.got /\ o.ok = r.ok /\ o.kept = (e.die[AE] = d.die[AE])
  BY <1>3
<1> QED
  BY <1>4, <1>5, <1>6, <1>7

\* A trigger goes out, or the bus stalls under it.
LEMMA ArmingsAre ==
  ASSUME NEW c \in Sensor, NEW o \in Armings(c)
  PROVE  Holds(c, o[1])
<1>1. Holds(c, c) /\ Holds(c, [c EXCEPT !.stuck = TRUE])
  BY BusOnly DEF Holds, SameSetting
<1>2. CASE o = <<c, TRUE>>
  BY <1>1, <1>2
<1>3. CASE o = <<[c EXCEPT !.stuck = TRUE], FALSE>>
  <2> DEFINE d == [c EXCEPT !.stuck = TRUE]
  <2>1. Holds(c, d)
    BY <1>1
  <2> HIDE DEF d
  <2>2. o = <<d, FALSE>>
    BY <1>3 DEF d
  <2> QED
    BY <2>1, <2>2
<1> QED
  BY <1>2, <1>3 DEF Armings

-----------------------------------------------------------------------------
\* The console's keys.

\* A set of numbers that is not empty has a least one.
LEMMA LeastOf ==
  ASSUME NEW T, T \subseteq Nat, T # {}
  PROVE  \E i \in T : \A j \in T : i <= j
<1> DEFINE R == {ss \in Nat \X Nat : ss[1] < ss[2]}
<1>1. IsWellFoundedOn(R, Nat)
  BY NatLessThanWellFounded DEF OpToRel
<1>2. \A x \in Nat, y \in Nat : y < x => <<y, x>> \in R
  OBVIOUS
<1> HIDE DEF R
<1>3. PICK i \in T : \A j \in T : ~(<<j, i>> \in R)
  BY <1>1, WFMin
<1>4. \A j \in T : ~(j < i)
  BY <1>2, <1>3
<1> QED BY <1>4

\* Every key before the one that is handled is a dump, and that one is not.
LEMMA DrainedIs ==
  ASSUME WitnessType
  PROVE  /\ Drained \in 0 .. Len(inbox)
         /\ \A i \in 1 .. Drained : inbox[i] \in Dumps
         /\ Drained < Len(inbox) => inbox[Drained + 1] \notin Dumps
<1> DEFINE S == {k \in 0 .. Len(inbox) : \A i \in 1 .. k : inbox[i] \in {"P", "V"}}
           T == {k \in 0 .. Len(inbox) : k = Len(inbox) \/ inbox[k + 1] \notin Dumps}
<1>1. Len(inbox) \in Nat
  BY DEF WitnessType
<1>2. PICK m \in T : \A k \in T : m <= k
  <2>1. Len(inbox) \in T /\ T \subseteq Nat
    BY <1>1
  <2> HIDE DEF T
  <2> QED
    BY <2>1, LeastOf
<1>3. \A i \in 1 .. m : inbox[i] \in Dumps
  <2> SUFFICES ASSUME NEW i \in 1 .. m, inbox[i] \notin Dumps PROVE FALSE
    OBVIOUS
  <2>1. i - 1 \in 0 .. Len(inbox) /\ (i - 1) + 1 = i /\ i - 1 < m
    BY <1>1
  <2> QED
    BY <2>1, <1>2
<1>4. m \in S /\ \A k \in S : m >= k
  <2>1. m \in S
    BY <1>3 DEF Dumps
  <2>2. ASSUME NEW k \in S, k > m
        PROVE  FALSE
    <3>1. m + 1 \in 1 .. k /\ m # Len(inbox)
      BY <1>1, <2>2
    <3> QED
      BY <3>1, <2>2 DEF Dumps
  <2> QED
    BY <1>1, <2>1, <2>2
<1>5. Drained = m
  <2>1. Drained = CHOOSE x \in S : \A y \in S : x >= y
    BY DEF Drained, Max
  <2>2. S \subseteq Nat
    BY <1>1
  <2> HIDE DEF S, T
  <2>3. \A x \in S : (\A y \in S : x >= y) => x = m
    <3> SUFFICES ASSUME NEW x \in S, \A y \in S : x >= y PROVE x = m
      OBVIOUS
    <3>1. x >= m /\ m >= x /\ x \in Nat /\ m \in Nat
      BY <1>4, <2>2
    <3> QED
      BY <3>1
  <2> QED
    BY <1>4, <2>1, <2>3
<1> QED
  BY <1>2, <1>3, <1>5

\* What is left is the rest of the burst, one key further if one is handled.
LEMMA DrainIs ==
  ASSUME WitnessType, Drain
  PROVE  /\ inbox' \in Seq({"L", "K", "P", "V"})
         /\ \E m \in Drained .. Len(inbox) :
              /\ Len(inbox') = Len(inbox) - m
              /\ \A i \in 1 .. Len(inbox') : inbox'[i] = inbox[m + i]
         /\ want_pic' \in BOOLEAN /\ want_emb' \in BOOLEAN
<1> DEFINE none == Key = ""
           m == IF none THEN Drained ELSE Drained + 1
<1>1. Drained \in 0 .. Len(inbox) /\ Len(inbox) \in Nat
  BY DrainedIs DEF WitnessType
<1>2. ~none => Drained < Len(inbox)
  BY DEF Key
<1>3. inbox' = SubSeq(inbox, Drained + (IF none THEN 1 ELSE 2), Len(inbox))
  BY DEF Drain
<1> HIDE DEF none
<1>4. m \in Drained .. Len(inbox) /\ m \in Nat /\ Drained + (IF none THEN 1 ELSE 2) = m + 1
  BY <1>1, <1>2
<1>5. inbox' = SubSeq(inbox, m + 1, Len(inbox))
  BY <1>3, <1>4
<1> HIDE DEF m
<1>6. \A i \in (m + 1) .. Len(inbox) : inbox[i] \in {"L", "K", "P", "V"}
  BY <1>1, <1>4 DEF WitnessType
<1>7. /\ SubSeq(inbox, m + 1, Len(inbox)) \in Seq({"L", "K", "P", "V"})
      /\ Len(SubSeq(inbox, m + 1, Len(inbox))) =
           IF m + 1 <= Len(inbox) THEN Len(inbox) - (m + 1) + 1 ELSE 0
      /\ \A i \in 1 .. (Len(inbox) - (m + 1) + 1) :
           SubSeq(inbox, m + 1, Len(inbox))[i] = inbox[m + 1 + i - 1]
  <2>1. m + 1 \in Int /\ Len(inbox) \in Int
    BY <1>1, <1>4
  <2> QED
    BY <2>1, <1>6, SubSeqProperties
<1>8. Len(inbox') = Len(inbox) - m /\ inbox' \in Seq({"L", "K", "P", "V"})
  BY <1>1, <1>4, <1>5, <1>7
<1>9. \A i \in 1 .. Len(inbox') : inbox'[i] = inbox[m + i]
  <2> TAKE i \in 1 .. Len(inbox')
  <2>1. i \in 1 .. (Len(inbox) - (m + 1) + 1) /\ m + 1 + i - 1 = m + i
    BY <1>1, <1>4, <1>8
  <2> QED
    BY <2>1, <1>5, <1>7
<1>10. want_pic' \in BOOLEAN /\ want_emb' \in BOOLEAN
  BY DEF Drain, WitnessType
<1> QED
  BY <1>4, <1>8, <1>9, <1>10

-----------------------------------------------------------------------------
\* What a step does to the sensor.

\* A loop that does not run keeps its value.
Passes(c, d) == SameSetting(c, d) /\ \A l \in Loops \ c.running : d.die[l] = c.die[l]

\* What a capture leaves of the sensor, whether a frame came of it or not.
LEMMA CaptureIs ==
  ASSUME WitnessType, CaptureFails \/ CaptureGood
  PROVE  /\ Passes(sensor, sensor')
         /\ \A l \in sensor'.running : sensor'.die[l] \in Lit[l]
<1>1. PICK c \in Clocked(sensor) :
        \/ sensor' = c
        \/ sensor' = [c EXCEPT !.stuck = TRUE]
        \/ sensor' = [c EXCEPT !.stuck = FALSE]
  BY DEF CaptureFails, CaptureGood
<1>2. /\ SameSetting(sensor, c) /\ c \in Sensor
      /\ \A l \in sensor.running : c.die[l] \in Lit[l]
      /\ \A l \in Loops \ sensor.running : c.die[l] = sensor.die[l]
  BY ClockedIs DEF WitnessType, SameSetting
<1>3. Holds(c, c) /\ Holds(c, [c EXCEPT !.stuck = TRUE]) /\ Holds(c, [c EXCEPT !.stuck = FALSE])
  BY <1>2, BusOnly DEF Holds, SameSetting
<1>4. Holds(c, sensor')
  BY <1>1, <1>3
<1> QED
  BY <1>2, <1>4 DEF Holds, SameSetting, Passes

\* What an encode leaves of it: the trigger of the next capture at most.
LEMMA EncodeIs ==
  ASSUME WitnessType, EncodeFails \/ EncodeGood
  PROVE  Holds(sensor, sensor')
<1>1. PICK o \in Armings(sensor) \cup {<<sensor, FALSE>>} : sensor' = o[1]
  BY DEF EncodeFails, EncodeGood
<1>2. CASE o \in Armings(sensor)
  BY <1>1, <1>2, ArmingsAre DEF WitnessType
<1>3. CASE o = <<sensor, FALSE>>
  BY <1>1, <1>3 DEF WitnessType, Holds, SameSetting
<1> QED
  BY <1>2, <1>3

\* What report() leaves of it: the samples at most.
LEMMA ReportIs ==
  ASSUME WitnessType, Quiet \/ FirstSample \/ SecondSample
  PROVE  Holds(sensor, sensor')
<1>1. sensor \in Sensor /\ Holds(sensor, sensor)
  BY DEF WitnessType, Holds, SameSetting
<1>2. CASE Quiet
  BY <1>1, <1>2 DEF Quiet
<1>3. CASE FirstSample \/ SecondSample
  <2>1. PICK s \in Sample(sensor) : sensor' = s.sensor
    BY <1>3, Zenon DEF FirstSample, SecondSample
  <2> QED
    BY <1>1, <2>1, SampleIs DEF Seen
<1> QED
  BY <1>2, <1>3

\* What key L leaves: the mask of the step, or a stalled bus.
LEMMA LockIs ==
  ASSUME WitnessType, LockKey
  PROVE  /\ sensor' \in Sensor /\ step' \in 1 .. Len(Steps) /\ Steps[step'] \in SUBSET Loops
         /\ lost' = sensor'.stuck /\ (~lost' => sensor'.mask = Steps[step'])
<1>1. step' \in 1 .. Len(Steps) /\ Steps[step'] \in SUBSET Loops
  <2>1. step' = (step % Len(Steps)) + 1 /\ step \in 1 .. Len(Steps)
    BY DEF LockKey, WitnessType
  <2>2. Len(Steps) \in Nat \ {0} /\ Steps \in Seq(SUBSET Loops)
    BY WitnessConstants
  <2>3. step' \in 1 .. Len(Steps)
    BY <2>1, <2>2
  <2> QED
    BY <2>2, <2>3
<1>2. sensor' \in AutoMask(sensor, Steps[step'])
  BY DEF LockKey
<1>3. sensor' \in Sensor /\ (~sensor'.stuck => sensor'.mask = Steps[step'])
  BY <1>1, <1>2, AutoMaskIs DEF WitnessType
<1>4. lost' = sensor'.stuck
  BY DEF LockKey
<1> QED
  BY <1>1, <1>3, <1>4

\* What key K leaves: every loop freed or a stalled bus, and a line that is true.
LEMMA CheckIs ==
  ASSUME WitnessType, CheckKey
  PROVE  /\ sensor' \in Sensor /\ step' = 1
         /\ lost' = sensor'.stuck /\ (~lost' => sensor'.mask = Steps[step'])
         /\ wrote' = Try[2]
         /\ said'.line = "check"
         /\ said'.state = "dragged" => ~said'.kept \/ said'.read = 0
<1>1. PICK c1 \in AutoMask(sensor, {}) : \E one \in TryOne(c1, Try[1]) :
        \E two \in TryOne(one.sensor, Try[2]) : \E c2 \in AutoMask(two.sensor, Loops) :
          /\ sensor' = c2 /\ wrote' = Try[2]
          /\ said' = [line |-> "check", state |-> Verdict(one, two),
                      kept |-> one.kept /\ two.kept, read |-> two.got]
  BY Zenon DEF CheckKey, LockWrote
<1>2. PICK one \in TryOne(c1, Try[1]) :
        \E two \in TryOne(one.sensor, Try[2]) : \E c2 \in AutoMask(two.sensor, Loops) :
          /\ sensor' = c2 /\ wrote' = Try[2]
          /\ said' = [line |-> "check", state |-> Verdict(one, two),
                      kept |-> one.kept /\ two.kept, read |-> two.got]
  BY <1>1, Zenon
<1>3. PICK two \in TryOne(one.sensor, Try[2]) :
        \E c2 \in AutoMask(two.sensor, Loops) :
          /\ sensor' = c2 /\ wrote' = Try[2]
          /\ said' = [line |-> "check", state |-> Verdict(one, two),
                      kept |-> one.kept /\ two.kept, read |-> two.got]
  BY <1>2, Zenon
<1>4. Try[1] \in ToSet(Try) /\ Try[2] \in ToSet(Try)
  BY WitnessConstants
<1>5. c1 \in Sensor
  BY AutoMaskIs DEF WitnessType
<1>6. /\ one.sensor \in Sensor
      /\ one.kept /\ one.ok => one.got = Try[1] \/ one.sensor.stuck
  BY <1>4, <1>5, TryOneIs
<1>7. /\ two.sensor \in Sensor /\ (one.sensor.stuck => two.got = 0)
      /\ two.kept /\ two.ok => two.got \in {0, Try[2]}
  BY <1>4, <1>6, TryOneIs
<1>8. sensor' \in Sensor /\ (~sensor'.stuck => sensor'.mask = Loops)
  BY <1>3, <1>7, AutoMaskIs
<1>9. step' = 1 /\ lost' = sensor'.stuck
  BY DEF CheckKey, StepAfterCheck
<1>10. /\ said'.line = "check" /\ said'.state = Verdict(one, two)
      /\ said'.kept = (one.kept /\ two.kept) /\ said'.read = two.got
  BY <1>3
<1>11. Verdict(one, two) = "dragged" =>
         one.ok /\ two.ok /\ (one.got # Try[1] \/ two.got # Try[2])
  BY DEF Verdict
<1> QED
  BY <1>3, <1>6, <1>7, <1>8, <1>9, <1>10, <1>11, WitnessConstants

-----------------------------------------------------------------------------
\* The types.

\* A frame number is followed by one.
LEMMA NumberNext == WitnessType => (n + 1) % Frames \in Number
BY WitnessConstants DEF WitnessType, Number

\* A witness that is armed, and one that takes a sample.
LEMMA WatchedIs ==
  ASSUME NEW P, NEW I, NEW S, NEW B,
         NEW w, w \in [phase : P, left : I, tracking : S, from_k : B, on_write : S],
         NEW p \in P, NEW i \in I, NEW s \in S, NEW b \in B
  PROVE  /\ [w EXCEPT !.phase = p, !.left = i, !.tracking = s, !.from_k = b]
              \in [phase : P, left : I, tracking : S, from_k : B, on_write : S]
         /\ [w EXCEPT !.phase = p, !.left = i, !.on_write = s]
              \in [phase : P, left : I, tracking : S, from_k : B, on_write : S]
OBVIOUS

\* Every step keeps the types.
LEMMA WitnessTypeNext == WitnessType /\ WitnessNext => WitnessType'
<1> SUFFICES ASSUME WitnessType, WitnessNext PROVE WitnessType'
  OBVIOUS
<1>1. (n + 1) % Frames \in Number
  BY NumberNext
<1>2. Settle \in Int /\ Spacing \in Int /\ Frames \in Nat \ {0}
  BY WitnessConstants
<1>3. CASE CaptureFails
  <2>1. sensor' \in Sensor
    BY <1>3, CaptureIs DEF Passes, SameSetting
  <2> QED
    BY <1>1, <1>3, <2>1 DEF CaptureFails, Drop, dumps, keys, watch, WitnessType
<1>4. CASE CaptureGood
  <2>1. sensor' \in Sensor
    BY <1>4, CaptureIs DEF Passes, SameSetting
  <2>2. pair' \in [pic : Number \cup {Nothing}, emb : Number \cup {Nothing}, dropped : BOOLEAN]
    BY <1>4 DEF CaptureGood, WitnessType
  <2> QED
    BY <1>4, <2>1, <2>2 DEF CaptureGood, keys, watch, WitnessType
<1>5. CASE EncodeFails
  <2>1. sensor' \in Sensor
    BY <1>5, EncodeIs DEF Holds, SameSetting
  <2>2. pair' \in [pic : Number \cup {Nothing}, emb : Number \cup {Nothing}, dropped : BOOLEAN]
    BY <1>5 DEF EncodeFails, WitnessType
  <2>3. at' = "capture" /\ n' \in Number /\ UNCHANGED <<inbox, want_pic, want_emb, keys, watch>>
    BY <1>1, <1>5 DEF EncodeFails, Drop
  <2> QED
    BY <2>1, <2>2, <2>3 DEF keys, watch, WitnessType
<1>6. CASE EncodeGood
  <2>1. sensor' \in Sensor
    BY <1>6, EncodeIs DEF Holds, SameSetting
  <2>2. pair' \in [pic : Number \cup {Nothing}, emb : Number \cup {Nothing}, dropped : BOOLEAN]
    BY <1>6 DEF EncodeGood, WitnessType
  <2>3. /\ at' = "report" /\ want_emb' = FALSE
        /\ UNCHANGED <<n, inbox, want_pic, keys, watch>>
    BY <1>6 DEF EncodeGood
  <2> QED
    BY <2>1, <2>2, <2>3 DEF keys, watch, WitnessType
<1>7. CASE Quiet \/ FirstSample \/ SecondSample
  <2>1. sensor' \in Sensor
    BY <1>7, ReportIs DEF Holds, SameSetting
  <2>2. at' = "console" /\ n' \in Number /\ UNCHANGED <<dumps, keys>>
    BY <1>1, <1>7, Zenon DEF Quiet, FirstSample, SecondSample, Reported
  <2>3. witness \in [phase : 0 .. 2, left : Int, tracking : SUBSET Loops, from_k : BOOLEAN,
                      on_write : SUBSET Loops]
    BY DEF WitnessType
  <2>4. witness' \in [phase : 0 .. 2, left : Int, tracking : SUBSET Loops, from_k : BOOLEAN,
                      on_write : SUBSET Loops]
    <3>1. CASE Quiet
      <4>1. witness' = witness \/ witness' = [witness EXCEPT !.left = witness.left - 1]
        BY <3>1 DEF Quiet
      <4>2. witness.left - 1 \in Int
        BY DEF WitnessType
      <4> QED
        BY <2>3, <4>1, <4>2
    <3>2. CASE FirstSample
      <4>1. PICK w : witness' = [witness EXCEPT !.phase = 2, !.left = Spacing, !.on_write = w]
                     /\ w = (IF prev = Nothing THEN {} ELSE Live(prev, a') \ prev.live)
        BY <3>2, Zenon DEF FirstSample
      <4>2. w \in SUBSET Loops
        BY <4>1 DEF Live
      <4>3. 2 \in 0 .. 2
        OBVIOUS
      <4> QED
        BY <1>2, <2>3, <4>1, <4>2, <4>3, WatchedIs, Zenon
    <3>3. CASE SecondSample
      <4>1. witness' = [witness EXCEPT !.phase = 0, !.left = 0, !.on_write = {}]
        BY <3>3 DEF SecondSample
      <4>2. 0 \in 0 .. 2 /\ 0 \in Int /\ {} \in SUBSET Loops
        OBVIOUS
      <4> QED
        BY <2>3, <4>1, <4>2, WatchedIs, Zenon
    <3> QED
      BY <1>7, <3>1, <3>2, <3>3
  <2> QED
    BY <2>1, <2>2, <2>4 DEF dumps, keys, WitnessType
<1>8. CASE Sends
  <2>1. inbox' \in Seq({"L", "K", "P", "V"})
    BY <1>8, WitnessConstants DEF Sends
  <2>2. pair' \in [pic : Number \cup {Nothing}, emb : Number \cup {Nothing}, dropped : BOOLEAN]
    BY <1>8 DEF Sends
  <2>3. UNCHANGED <<at, n, sensor, want_pic, want_emb, keys, watch>>
    BY <1>8 DEF Sends
  <2> QED
    BY <2>1, <2>2, <2>3 DEF keys, watch, WitnessType
<1>9. CASE NoKey
  <2>1. /\ inbox' \in Seq({"L", "K", "P", "V"})
        /\ want_pic' \in BOOLEAN /\ want_emb' \in BOOLEAN /\ pair' = pair
    BY <1>9, DrainIs DEF NoKey, Drain
  <2>2. at' = "capture" /\ UNCHANGED <<n, sensor, keys, watch>>
    BY <1>9 DEF NoKey
  <2> QED
    BY <2>1, <2>2 DEF keys, watch, WitnessType
<1>10. CASE LockKey \/ CheckKey
  <2>1. /\ inbox' \in Seq({"L", "K", "P", "V"})
        /\ want_pic' \in BOOLEAN /\ want_emb' \in BOOLEAN /\ pair' = pair
    BY <1>10, DrainIs DEF LockKey, CheckKey, Drain
  <2>2. /\ sensor' \in Sensor /\ step' \in 1 .. Len(Steps) /\ lost' \in BOOLEAN
        /\ at' = "capture" /\ n' = n
    <3>1. 1 \in 1 .. Len(Steps)
      BY WitnessConstants
    <3>2. sensor' \in Sensor /\ step' \in 1 .. Len(Steps) /\ lost' = sensor'.stuck
      BY <1>10, <3>1, LockIs, CheckIs
    <3>3. at' = "capture" /\ n' = n
      BY <1>10 DEF LockKey, CheckKey
    <3> QED
      BY <3>2, <3>3 DEF Sensor
  <2>3. \E these \in SUBSET Loops, k \in BOOLEAN : Watch(these, k)
    <3>1. CASE LockKey
      BY <3>1, LockIs DEF LockKey
    <3>2. CASE CheckKey
      BY <3>2 DEF CheckKey
    <3> QED
      BY <1>10, <3>1, <3>2
  <2>4. witness' \in [phase : 0 .. 2, left : Int, tracking : SUBSET Loops, from_k : BOOLEAN,
                      on_write : SUBSET Loops]
    <3>1. PICK these \in SUBSET Loops, k \in BOOLEAN : Watch(these, k)
      BY <2>3
    <3>2. witness' = [witness EXCEPT !.phase = 1, !.left = Settle, !.tracking = these,
                                     !.from_k = k]
      BY <3>1 DEF Watch
    <3>3. /\ witness \in [phase : 0 .. 2, left : Int, tracking : SUBSET Loops, from_k : BOOLEAN,
                          on_write : SUBSET Loops]
          /\ 1 \in 0 .. 2
      BY DEF WitnessType
    <3> QED
      BY <1>2, <3>2, <3>3, WatchedIs, Zenon
  <2> QED
    BY <2>1, <2>2, <2>4 DEF WitnessType
<1> QED
  BY <1>3, <1>4, <1>5, <1>6, <1>7, <1>8, <1>9, <1>10 DEF WitnessNext

-----------------------------------------------------------------------------
\* The lines.

\* Nothing is claimed of a line that is not printed.
LEMMA SilenceIsTrue ==
  ASSUME said' = Nothing
  PROVE  MovedOrReadZero' /\ StuckIsOnTheDie' /\ DraggedOrReadZero'
BY DEF MovedOrReadZero, StuckIsOnTheDie, DraggedOrReadZero, Says

\* Every step keeps what the lines rest on, and a line printed is true.
LEMMA LinesNext == LinesInv /\ WitnessNext => LinesInv'
<1> SUFFICES ASSUME LinesInv, WitnessNext PROVE LinesInv'
  OBVIOUS
<1>1. WitnessType /\ WitnessType'
  BY WitnessTypeNext DEF LinesInv
<1>2. Revised /\ StandsStill /\ CheckedAgainst /\ LinesHaveGrounds /\ StepNamesTheMask
  BY DEF LinesInv, LinesHaveGrounds
<1>3. CASE CaptureFails \/ CaptureGood
  <2>1. Passes(sensor, sensor') /\ \A l \in sensor'.running : sensor'.die[l] \in Lit[l]
    BY <1>1, <1>3, CaptureIs
  <2>2. UNCHANGED <<keys, watch>> /\ said' = Nothing
    BY <1>3 DEF CaptureFails, CaptureGood
  <2>3. Revised' /\ StandsStill' /\ CheckedAgainst' /\ StepNamesTheMask'
    BY <1>2, <2>1, <2>2
       DEF Revised, StandsStill, CheckedAgainst, StepNamesTheMask, keys, watch, Passes, SameSetting
  <2> QED
    BY <1>1, <2>2, <2>3, SilenceIsTrue DEF LinesInv, LinesHaveGrounds
<1>4. CASE EncodeFails \/ EncodeGood
  <2>1. Holds(sensor, sensor')
    BY <1>1, <1>4, EncodeIs
  <2>2. UNCHANGED <<keys, watch>> /\ said' = Nothing /\ at = "encode"
    BY <1>4, Zenon DEF EncodeFails, EncodeGood
  <2>3. Revised' /\ StandsStill' /\ CheckedAgainst' /\ StepNamesTheMask'
    BY <1>2, <2>1, <2>2
       DEF Revised, StandsStill, CheckedAgainst, StepNamesTheMask, keys, watch, Holds, SameSetting
  <2> QED
    BY <1>1, <2>2, <2>3, SilenceIsTrue DEF LinesInv, LinesHaveGrounds
<1>5. CASE Quiet
  <2>1. /\ at' = "console" /\ UNCHANGED <<sensor, keys, a>> /\ said' = Nothing
        /\ witness'.phase = witness.phase /\ witness'.from_k = witness.from_k
    BY <1>1, <1>5 DEF Quiet, Reported, WitnessType
  <2>2. Revised' /\ StandsStill' /\ CheckedAgainst' /\ StepNamesTheMask'
    BY <1>2, <2>1 DEF Revised, StandsStill, CheckedAgainst, StepNamesTheMask, keys
  <2> QED
    BY <1>1, <2>1, <2>2, SilenceIsTrue DEF LinesInv, LinesHaveGrounds
<1>6. CASE FirstSample
  <2>1. PICK s \in Sample(sensor) :
          sensor' = s.sensor /\ a' = [die |-> s.die, ok |-> s.ok]
    BY <1>6, Zenon DEF FirstSample
  <2>2. Seen(sensor, s)
    BY <1>1, SampleIs DEF WitnessType
  <2>3. at' = "console" /\ UNCHANGED keys /\ said' = Nothing /\ witness'.from_k = witness.from_k
    BY <1>1, <1>6 DEF FirstSample, Reported, WitnessType
  <2>4. a'.die = s.die /\ a'.ok = s.ok
    BY <2>1
  <2>5. Revised' /\ StandsStill' /\ CheckedAgainst' /\ StepNamesTheMask'
    BY <1>2, <2>1, <2>2, <2>3, <2>4
       DEF Revised, StandsStill, CheckedAgainst, StepNamesTheMask, keys, Seen, Holds, SameSetting
  <2> QED
    BY <1>1, <2>3, <2>5, SilenceIsTrue DEF LinesInv, LinesHaveGrounds
<1>7. CASE SecondSample
  <2> DEFINE Line(r, live) ==
               [line |-> "witness",
                bad |-> live \ witness.tracking, back |-> live \cap witness.tracking,
                written |-> witness.on_write, stuck |-> witness.from_k /\ r.die[AE] = wrote,
                first |-> a.die, second |-> r.die,
                last |-> prev # Nothing /\ prev.press = press - 1]
  <2>1. PICK r \in Sample(sensor) :
          /\ sensor' = r.sensor
          /\ \/ said' = Nothing
             \/ a.ok /\ r.ok
                /\ said' = Line(r, Live(a, [die |-> r.die, ok |-> r.ok]))
    BY <1>7 DEF SecondSample, Stuck
  <2>2. Seen(sensor, r)
    BY <1>1, SampleIs DEF WitnessType
  <2>3. /\ at = "report" /\ at' = "console" /\ UNCHANGED keys /\ witness.phase = 2
        /\ witness'.from_k = witness.from_k /\ witness'.phase = 0
    BY <1>1, <1>7 DEF SecondSample, Reported, WitnessType
  <2>4. Revised' /\ StandsStill' /\ CheckedAgainst' /\ StepNamesTheMask'
    BY <1>2, <2>1, <2>2, <2>3
       DEF Revised, StandsStill, CheckedAgainst, StepNamesTheMask, keys, Seen, Holds, SameSetting
  <2>5. CASE said' = Nothing
    BY <1>1, <2>4, <2>5, SilenceIsTrue DEF LinesInv, LinesHaveGrounds
  <2>6. CASE a.ok /\ r.ok
             /\ said' = Line(r, Live(a, [die |-> r.die, ok |-> r.ok]))
    <3> DEFINE live == Live(a, [die |-> r.die, ok |-> r.ok])
    <3>1. live \subseteq {l \in Loops : a.die[l] # r.die[l]}
      BY DEF Live
    <3>2. /\ said'.line = "witness" /\ said'.bad \cup said'.back = live
          /\ said'.stuck = (witness.from_k /\ r.die[AE] = wrote)
          /\ said'.first = a.die /\ said'.second = r.die
      <4> HIDE DEF live
      <4> QED
        BY <2>6 DEF live
    <3> HIDE DEF live
    <3>3. sensor'.running = sensor.running /\ sensor.running \subseteq Loops
      BY <1>1, <2>1, <2>2 DEF Seen, Holds, SameSetting, Sensor, WitnessType
    <3>4. \A l \in live : l \in sensor.running \/ 0 \in {a.die[l], r.die[l]}
      <4> SUFFICES ASSUME NEW l \in live, l \notin sensor.running PROVE 0 \in {a.die[l], r.die[l]}
        OBVIOUS
      <4>1. l \in Loops /\ a.die[l] # r.die[l]
        BY <3>1
      <4>2. r.die[l] \in {0, sensor.die[l]}
        BY <2>2, <2>6, <4>1 DEF Seen
      <4>3. a.die[l] \in {0, sensor.die[l]}
        BY <1>2, <2>3, <2>6, <4>1 DEF StandsStill
      <4> QED
        BY <4>1, <4>2, <4>3
    <3>5. said'.stuck =>
            sensor'.die[AE] = wrote' /\ (AE \in sensor'.running => wrote' \in Lit[AE])
      <4> SUFFICES ASSUME witness.from_k, r.die[AE] = wrote
                   PROVE  sensor'.die[AE] = wrote /\ (AE \in sensor.running => wrote \in Lit[AE])
        BY <2>3, <3>2, <3>3 DEF keys
      <4>1. wrote # 0 /\ AE \in Loops
        BY <1>2, WitnessConstants DEF CheckedAgainst
      <4>2. sensor.die[AE] = wrote
        BY <2>2, <2>6, <4>1 DEF Seen
      <4>3. AE \in sensor.running => sensor.die[AE] \in Lit[AE]
        BY <1>2, <2>3 DEF Revised
      <4> QED
        BY <2>1, <2>2, <4>2, <4>3 DEF Seen, Holds
    <3>6. MovedOrReadZero' /\ StuckIsOnTheDie' /\ DraggedOrReadZero'
      BY <3>2, <3>3, <3>4, <3>5 DEF MovedOrReadZero, StuckIsOnTheDie, DraggedOrReadZero, Says
    <3> QED
      BY <1>1, <2>4, <3>6 DEF LinesInv, LinesHaveGrounds
  <2> QED
    BY <2>1, <2>5, <2>6
<1>8. CASE Sends \/ NoKey
  <2>1. /\ at' \notin {"encode", "report"} /\ UNCHANGED <<sensor, keys, watch>>
        /\ said' = Nothing
    BY <1>8 DEF Sends, NoKey
  <2>2. Revised' /\ StandsStill' /\ CheckedAgainst' /\ StepNamesTheMask'
    BY <1>2, <2>1 DEF Revised, StandsStill, CheckedAgainst, StepNamesTheMask, keys, watch
  <2> QED
    BY <1>1, <2>1, <2>2, SilenceIsTrue DEF LinesInv, LinesHaveGrounds
<1>9. CASE LockKey
  <2>1. lost' = sensor'.stuck /\ (~lost' => sensor'.mask = Steps[step'])
    BY <1>1, <1>9, LockIs
  <2>2. at' = "capture" /\ said' = Nothing /\ witness'.phase = 1 /\ witness'.from_k = FALSE
    BY <1>1, <1>9 DEF LockKey, Watch, WitnessType
  <2>3. Revised' /\ StandsStill' /\ CheckedAgainst' /\ StepNamesTheMask'
    BY <2>1, <2>2 DEF Revised, StandsStill, CheckedAgainst, StepNamesTheMask
  <2> QED
    BY <1>1, <2>2, <2>3, SilenceIsTrue DEF LinesInv, LinesHaveGrounds
<1>10. CASE CheckKey
  <2>1. /\ lost' = sensor'.stuck /\ (~lost' => sensor'.mask = Steps[step'])
        /\ wrote' = Try[2] /\ said'.line = "check"
        /\ said'.state = "dragged" => ~said'.kept \/ said'.read = 0
    BY <1>1, <1>10, CheckIs
  <2>2. at' = "capture" /\ witness'.phase = 1
    BY <1>1, <1>10 DEF CheckKey, Watch, WitnessType
  <2>3. Revised' /\ StandsStill' /\ CheckedAgainst' /\ StepNamesTheMask'
    BY <2>1, <2>2 DEF Revised, StandsStill, CheckedAgainst, StepNamesTheMask
  <2>4. MovedOrReadZero' /\ StuckIsOnTheDie' /\ DraggedOrReadZero'
    BY <2>1 DEF MovedOrReadZero, StuckIsOnTheDie, DraggedOrReadZero, Says
  <2> QED
    BY <1>1, <2>3, <2>4 DEF LinesInv, LinesHaveGrounds
<1> QED
  BY <1>3, <1>4, <1>5, <1>6, <1>7, <1>8, <1>9, <1>10 DEF WitnessNext

-----------------------------------------------------------------------------
\* The pair.

\* A console that has emptied the dumps has emptied all of the burst's.
LEMMA DrainKeepsPair ==
  ASSUME PairInv, Drain, at = "console", at' = "capture"
  PROVE  /\ Together(inbox') /\ pair' = pair
         /\ want_pic' \/ want_emb' \/ {pair'.pic, pair'.emb} # {Nothing} =>
              \A i \in 1 .. Len(inbox') : inbox'[i] \notin Dumps
         /\ ~(pair'.pic # Nothing /\ want_emb' /\ ~pair'.dropped)
         /\ pair'.emb # Nothing => ~want_pic'
<1>1. WitnessType /\ Len(inbox) \in Nat
  BY DEF PairInv, WitnessType
<1>2. PICK m \in Drained .. Len(inbox) :
        /\ Len(inbox') = Len(inbox) - m
        /\ \A i \in 1 .. Len(inbox') : inbox'[i] = inbox[m + i]
  BY <1>1, DrainIs
<1>3. /\ Drained \in 0 .. Len(inbox)
      /\ \A i \in 1 .. Drained : inbox[i] \in Dumps
      /\ Drained < Len(inbox) => inbox[Drained + 1] \notin Dumps
  BY <1>1, DrainedIs
<1>4. /\ want_pic' = (want_pic \/ "P" \in {inbox[i] : i \in 1 .. Drained})
      /\ want_emb' = (want_emb \/ "V" \in {inbox[i] : i \in 1 .. Drained})
      /\ pair' = pair
  BY DEF Drain
<1>5. \A i \in 1 .. Len(inbox') : m + i \in 1 .. Len(inbox) /\ m + i > Drained
  BY <1>1, <1>2, <1>3
<1>6. Together(inbox')
  <2> SUFFICES ASSUME NEW i \in 1 .. Len(inbox'), NEW j \in 1 .. Len(inbox'),
                      NEW k \in 1 .. Len(inbox'), i < k, k < j,
                      {inbox'[i], inbox'[j]} \subseteq Dumps
               PROVE  inbox'[k] \in Dumps
    BY DEF Together
  <2>1. m + i < m + k /\ m + k < m + j
    BY <1>1, <1>2, <1>3
  <2> QED
    BY <1>2, <1>5, <2>1 DEF PairInv, Together
<1>7. ASSUME Drained > 0
      PROVE  \A i \in 1 .. Len(inbox') : inbox'[i] \notin Dumps
  <2> SUFFICES ASSUME NEW i \in 1 .. Len(inbox'), inbox[m + i] \in Dumps PROVE FALSE
    BY <1>2
  <2>1. /\ 1 \in 1 .. Drained /\ 1 \in 1 .. Len(inbox)
        /\ Drained + 1 \in 1 .. Len(inbox) /\ m + i \in 1 .. Len(inbox)
        /\ 1 < Drained + 1 /\ Drained + 1 <= m + i /\ Drained < Len(inbox)
    BY <1>1, <1>3, <1>5, <1>7
  <2>2. inbox[Drained + 1] \notin Dumps /\ inbox[1] \in Dumps
    BY <1>3, <2>1
  <2>3. Drained + 1 < m + i
    BY <1>1, <1>2, <1>3, <2>1, <2>2
  <2> QED
    BY <2>1, <2>2, <2>3 DEF PairInv, Together
<1>8. ASSUME ~(Drained > 0)
      PROVE  want_pic' = want_pic /\ want_emb' = want_emb
  BY <1>3, <1>4, <1>8, <1>1 DEF WitnessType
<1>9. ASSUME \A i \in 1 .. Len(inbox) : inbox[i] \notin Dumps
      PROVE  /\ want_pic' = want_pic /\ want_emb' = want_emb
             /\ \A i \in 1 .. Len(inbox') : inbox'[i] \notin Dumps
  <2>1. ~(Drained > 0)
    BY <1>1, <1>3, <1>9
  <2> QED
    BY <1>2, <1>5, <1>8, <1>9, <2>1
<1>10. want_pic' \/ want_emb' \/ {pair'.pic, pair'.emb} # {Nothing} =>
         \A i \in 1 .. Len(inbox') : inbox'[i] \notin Dumps
  BY <1>4, <1>7, <1>8, <1>9 DEF PairInv
<1>11. ~(pair'.pic # Nothing /\ want_emb' /\ ~pair'.dropped)
  <2> SUFFICES ASSUME pair.pic # Nothing, want_emb', ~pair.dropped PROVE FALSE
    BY <1>4
  <2>1. want_emb' = want_emb
    BY <1>9 DEF PairInv
  <2> QED
    BY <2>1 DEF PairInv
<1>12. pair'.emb # Nothing => ~want_pic'
  BY <1>4, <1>9 DEF PairInv
<1> QED
  BY <1>4, <1>6, <1>10, <1>11, <1>12

\* Every step keeps the picture and the vector of a burst together.
LEMMA PairNext == DumpsStandTogether /\ PairInv /\ WitnessNext => PairInv'
<1> SUFFICES ASSUME DumpsStandTogether, PairInv, WitnessNext PROVE PairInv'
  OBVIOUS
<1>1. WitnessType /\ WitnessType'
  BY WitnessTypeNext DEF PairInv
<1>2. n # Nothing /\ n' # Nothing
  BY <1>1, WitnessConstants DEF WitnessType
<1>3. CASE CaptureFails
  <2>1. at' = "capture" /\ UNCHANGED <<inbox, want_pic, want_emb, pair>> /\ at = "capture"
    BY <1>3 DEF CaptureFails, Drop, dumps
  <2> QED
    BY <1>1, <2>1 DEF PairInv, PairUnlessDropped, Together
<1>4. CASE CaptureGood
  <2>1. /\ at = "capture" /\ at' = "encode" /\ want_pic' = FALSE
        /\ UNCHANGED <<n, inbox, want_emb>>
    BY <1>4 DEF CaptureGood
  <2>2. CASE want_pic
    <3>1. pair'.pic = n /\ pair'.emb = pair.emb /\ pair'.dropped = pair.dropped
      BY <1>1, <1>4, <2>2 DEF CaptureGood, WitnessType
    <3>2. pair.emb = Nothing
      BY <2>2 DEF PairInv
    <3> QED
      BY <1>1, <1>2, <2>1, <2>2, <3>1, <3>2 DEF PairInv, PairUnlessDropped, Together
  <2>3. CASE ~want_pic
    <3>1. pair' = pair
      BY <1>4, <2>3 DEF CaptureGood
    <3> QED
      BY <1>1, <2>1, <2>3, <3>1 DEF PairInv, PairUnlessDropped, Together
  <2> QED
    BY <2>2, <2>3
<1>5. CASE EncodeFails
  <2>1. /\ at = "encode" /\ at' = "capture"
        /\ UNCHANGED <<inbox, want_pic, want_emb>>
    BY <1>5 DEF EncodeFails, Drop
  <2>2. pair'.pic = pair.pic /\ pair'.emb = pair.emb /\ pair'.dropped = TRUE
    BY <1>1, <1>5 DEF EncodeFails, WitnessType
  <2> QED
    BY <1>1, <2>1, <2>2 DEF PairInv, PairUnlessDropped, Together
<1>6. CASE EncodeGood
  <2>1. /\ at = "encode" /\ at' = "report" /\ want_emb' = FALSE
        /\ UNCHANGED <<n, inbox, want_pic>>
    BY <1>6 DEF EncodeGood
  <2>2. CASE want_emb
    <3>1. pair'.emb = n /\ pair'.pic = pair.pic /\ pair'.dropped = pair.dropped
      BY <1>1, <1>6, <2>2 DEF EncodeGood, WitnessType
    <3> QED
      BY <1>1, <1>2, <2>1, <2>2, <3>1 DEF PairInv, PairUnlessDropped, Together
  <2>3. CASE ~want_emb
    <3>1. pair' = pair
      BY <1>6, <2>3 DEF EncodeGood
    <3> QED
      BY <1>1, <2>1, <2>3, <3>1 DEF PairInv, PairUnlessDropped, Together
  <2> QED
    BY <2>2, <2>3
<1>7. CASE Quiet \/ FirstSample \/ SecondSample
  <2>1. at = "report" /\ at' = "console" /\ UNCHANGED <<inbox, want_pic, want_emb, pair>>
    BY <1>7, Zenon DEF Quiet, FirstSample, SecondSample, Reported, dumps
  <2> QED
    BY <1>1, <2>1 DEF PairInv, PairUnlessDropped, Together
<1>8. CASE Sends
  <2>1. /\ inbox' \in Bursts /\ want_pic' = FALSE /\ want_emb' = FALSE
        /\ pair'.pic = Nothing /\ pair'.emb = Nothing /\ at' = "console"
    BY <1>8 DEF Sends
  <2>2. Together(inbox')
    <3>1. DOMAIN inbox' = 1 .. Len(inbox')
      BY <1>1 DEF WitnessType
    <3> QED
      BY <2>1, <3>1 DEF DumpsStandTogether, Together, Dumps
  <2> QED
    BY <1>1, <2>1, <2>2 DEF PairInv, PairUnlessDropped
<1>9. CASE NoKey \/ LockKey \/ CheckKey
  <2>1. at = "console" /\ at' = "capture" /\ Drain
    BY <1>9, Zenon DEF NoKey, LockKey, CheckKey
  <2> QED
    BY <1>1, <2>1, DrainKeepsPair DEF PairInv, PairUnlessDropped
<1> QED
  BY <1>3, <1>4, <1>5, <1>6, <1>7, <1>8, <1>9 DEF WitnessNext

-----------------------------------------------------------------------------
\* The theorems.

\* Both invariants hold at the start.
LEMMA WitnessStarts ==
  ASSUME WitnessInit
  PROVE  LinesInv /\ PairInv
<1>1. sensor \in Sensor /\ sensor.mask = Loops
  <2>1. \A d \in [Loops -> UNION {Lit[l] : l \in Loops}] : d \in [Loops -> Values]
    BY DEF Values
  <2> QED
    BY <2>1 DEF WitnessInit, Sensor
<1>2. WitnessType
  <2>1. step \in 1 .. Len(Steps) /\ n \in Number
    BY WitnessConstants DEF WitnessInit, Number
  <2>2. witness \in [phase : 0 .. 2, left : Int, tracking : SUBSET Loops, from_k : BOOLEAN,
                     on_write : SUBSET Loops]
    BY DEF WitnessInit
  <2>3. pair \in [pic : Number \cup {Nothing}, emb : Number \cup {Nothing}, dropped : BOOLEAN]
    BY DEF WitnessInit
  <2>4. /\ at \in {"capture", "encode", "report", "console"}
        /\ want_pic \in BOOLEAN /\ want_emb \in BOOLEAN /\ lost \in BOOLEAN
    BY DEF WitnessInit
  <2>5. inbox \in Seq({"L", "K", "P", "V"})
    <3>1. inbox = <<>> /\ \A S : <<>> \in Seq(S)
      BY DEF WitnessInit
    <3> QED
      BY <3>1, Zenon
  <2> QED
    BY <1>1, <2>1, <2>2, <2>3, <2>4, <2>5, Zenon DEF WitnessType
<1>3. Revised /\ StandsStill /\ CheckedAgainst
  BY DEF WitnessInit, Revised, StandsStill, CheckedAgainst
<1>4. LinesHaveGrounds
  BY <1>1, WitnessConstants DEF WitnessInit, LinesHaveGrounds, MovedOrReadZero, StuckIsOnTheDie,
     DraggedOrReadZero, StepNamesTheMask, Says
<1>5. PairInv
  BY <1>2 DEF WitnessInit, PairInv, PairUnlessDropped, Together
<1> QED
  BY <1>2, <1>3, <1>4, <1>5 DEF LinesInv

\* Nothing moves under a stutter.
LEMMA WitnessStutters ==
  /\ LinesInv /\ UNCHANGED witnessVars => LinesInv'
  /\ PairInv /\ UNCHANGED witnessVars => PairInv'
<1>1. UNCHANGED witnessVars => UNCHANGED <<at, n, sensor, inbox, want_pic, want_emb, step, lost,
        witness, pair, a, wrote, said>>
  BY DEF witnessVars, dumps, keys, watch
<1>2. LinesInv /\ UNCHANGED witnessVars => LinesInv'
  BY <1>1 DEF LinesInv, WitnessType, Revised, StandsStill, CheckedAgainst, LinesHaveGrounds,
     MovedOrReadZero, StuckIsOnTheDie, DraggedOrReadZero, StepNamesTheMask, Says
<1>3. PairInv /\ UNCHANGED witnessVars => PairInv'
  BY <1>1 DEF PairInv, WitnessType, PairUnlessDropped, Together
<1> QED
  BY <1>2, <1>3

\* What the console says of the sensor has its ground in it when it is printed,
\* whatever keys are pressed under a witness, wherever the bus stalls and whatever the
\* room asks for: a loop named as moved runs or is shown with a zero, the die is where
\* "still" puts it, "dragged" is a value overwritten or a zero; and the step is the
\* mask that was sent, unless the bus stalled under the last key.
THEOREM LinesAreSound == WitnessSpec => []LinesHaveGrounds
<1>1. WitnessInit => LinesInv
  BY WitnessStarts
<1>2. LinesInv /\ [WitnessNext]_witnessVars => LinesInv'
  BY LinesNext, WitnessStutters
<1>3. LinesInv => LinesHaveGrounds
  BY DEF LinesInv
<1> QED
  BY <1>1, <1>2, <1>3, PTL DEF WitnessSpec

\* Where the dumps of a burst stand together, the picture and the vector are of one
\* frame, unless the encode failed between them.
THEOREM PairIsSound ==
  ASSUME DumpsStandTogether
  PROVE  WitnessSpec => []PairUnlessDropped
<1>1. WitnessInit => PairInv
  BY WitnessStarts
<1>2. PairInv /\ [WitnessNext]_witnessVars => PairInv'
  BY PairNext, WitnessStutters
<1>3. PairInv => PairUnlessDropped
  BY DEF PairInv
<1> QED
  BY <1>1, <1>2, <1>3, PTL DEF WitnessSpec

=============================================================================
