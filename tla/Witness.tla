------------------------------- MODULE Witness -------------------------------
(***************************************************************************)
(* What m9.c's operator is told about the camera's loops and about a       *)
(* frame: keys 'L' and 'K' (#33) over cam.c's mask, lock check and die     *)
(* samples, the witness that report() takes frames later, and the pictures *)
(* and vectors of 'P' and 'V'.                                             *)
(*                                                                         *)
(* The die is one value to a loop.  The mask written and the loops that    *)
(* run are two things: the sensor may ignore a write, either way.  A frame *)
(* clocked lets each running loop revise its value; the exposure loop goes *)
(* to what the room asks for, which may be what the check has written.  A  *)
(* stalled bus drops every write and answers every byte read with zero     *)
(* until the next cam_trigger(), and nothing on these lines says so.       *)
(***************************************************************************)
EXTENDS Integers, SequencesExt

CONSTANTS
  Loops, Order,      \* CAM_AUTO_*, and the order the mask is written in
  AE,                \* the exposure's
  Steps,             \* CAM_LOCK_STEPS: the loops left tracking
  Settle, Spacing,   \* CAM_WITNESS_SETTLE, CAM_WITNESS_SPACING
  Try,               \* the two exposures of cam_exposure_lock_check()
  Lit,               \* what a running loop may set its value to
  LowZero,           \* the exposures whose low byte is zero
  Bursts,            \* what the host may send in one breath
  Frames,            \* frame numbers are modulo this
  MaxBursts, MaxStalls, MaxDrops,   \* bounds
  Nothing

ASSUME WitnessAssumption ==
  /\ Order \in Seq(Loops) /\ ToSet(Order) = Loops /\ IsInjective(Order)
  /\ Order # <<>> /\ Order[1] = AE
  /\ Steps \in Seq(SUBSET Loops) /\ Steps # <<>> /\ Steps[1] = Loops
  /\ {Settle, Spacing, Frames} \subseteq Nat \ {0}
  /\ Len(Try) = 2 /\ Try[1] # Try[2]
  /\ Bursts \subseteq Seq({"L", "K", "P", "V"})
  /\ 0 \notin ToSet(Try)
  /\ {MaxBursts, MaxStalls, MaxDrops} \subseteq Nat
  /\ Nothing \notin Nat

VARIABLES
  at, n,                         \* main()'s loop
  sensor,                        \* mask, running and die of the sensor; bus_fault
  cap_armed,                     \* with the captures overlapped
  inbox, want_pic, want_emb,
  step,                          \* cam_lock_step
  witness,                       \* cam_witness_phase, _left, _tracking, _from_k, _on_write
  a,                             \* cam_witness_a
  prev,                          \* cam_witness_prev, its _live; Nothing without _have_prev
  wrote,                         \* cam_exposure_lock_wrote
  said,                          \* history: what has just been printed, and of what
  pair,                          \* history: the frames of one burst's two dumps
  lost,                          \* history: the last key met a stalled bus
  press, bursts, stalls, drops   \* history and the bounds' counters

dumps  == <<inbox, want_pic, want_emb, pair>>
watch  == <<witness, a, prev>>
keys   == <<step, wrote, lost, press>>
witnessVars ==
  <<at, n, sensor, cap_armed, dumps, keys, watch, said, bursts, stalls, drops>>

Index(l) == CHOOSE i \in 1 .. Len(Order) : Order[i] = l
Exposures == Lit[AE] \cup ToSet(Try)
Values   == (UNION {Lit[l] : l \in Loops}) \cup ToSet(Try)
Dies(c)  == {d \in [Loops -> Values] :
               \A l \in Loops : IF l \in c.running THEN d[l] \in Lit[l] ELSE d[l] = c.die[l]}

-----------------------------------------------------------------------------
\* The bus.  An operator below is the set of what a call may leave.

\* A stall, while the bound has one left.
CanStall == stalls < MaxStalls
Paid(c)  == stalls' = IF c.stuck /\ ~sensor.stuck THEN stalls + 1 ELSE stalls

\* A frame has been clocked out.
Clocked(c) == {[c EXCEPT !.die = d] : d \in Dies(c)}

\* cam_image_auto_mask(): a register write to a loop, of which the sensor may
\* take none; a stall leaves the rest unwritten.
MaskWritten(c, asked, k) ==
  LET these == {l \in Loops : Index(l) <= k}
      mask  == (c.mask \ these) \cup (asked \cap these)
      same  == {l \in Loops : (l \in mask) = (l \in c.running)} \cup (Loops \ these)
  IN {[c EXCEPT !.mask = mask, !.running = r] :
        r \in {q \in SUBSET Loops : \A l \in same : (l \in q) = (l \in c.running)}}

AutoMask(c, asked) ==
  IF c.stuck THEN {c}
  ELSE MaskWritten(c, asked, Len(Order))
         \cup (IF CanStall THEN {[d EXCEPT !.stuck = TRUE] :
                                   d \in UNION {MaskWritten(c, asked, k) : k \in 0 .. (Len(Order) - 1)}}
               ELSE {})

\* cam_sensor_read16() of the exposure, by outcome: a pair that agrees, eight that
\* do not, or the zeros of a stalled bus, which agree as well - and, with a high
\* byte read before it stalled, agree with the exposure itself where LowZero has it.
Read16(c) ==
  IF c.stuck THEN {[sensor |-> c, got |-> 0, ok |-> TRUE]}
  ELSE {[sensor |-> c, got |-> c.die[AE], ok |-> TRUE]}
         \cup {[sensor |-> c, got |-> v, ok |-> FALSE] : v \in Exposures}
         \cup (IF CanStall
               THEN {[sensor |-> [c EXCEPT !.stuck = TRUE], got |-> v, ok |-> b] :
                       v \in {0} \cup ({c.die[AE]} \cap LowZero), b \in BOOLEAN}
               ELSE {})

\* cam_die_sample(): the exposure, then a byte each, zero from where the bus has
\* stalled; of a torn one nobody looks at the bytes.
Sample(c) ==
  LET Bytes(r, k) ==
        [sensor |-> [r.sensor EXCEPT !.stuck = @ \/ k < Len(Order)],
         die |-> [l \in Loops |-> IF l = AE THEN r.got
                                  ELSE IF Index(l) <= k THEN c.die[l] ELSE 0],
         ok |-> r.ok]
      Torn(r) == [sensor |-> r.sensor, die |-> [l \in Loops |-> 0], ok |-> FALSE]
  IN UNION {IF ~r.ok THEN {Torn(r)}
            ELSE IF r.sensor.stuck THEN {Bytes(r, 1)}
            ELSE {Bytes(r, Len(Order))}
                   \cup (IF CanStall THEN {Bytes(r, k) : k \in 1 .. (Len(Order) - 1)} ELSE {}) :
            r \in Read16(c)}

\* cam_die_live()
Live(x, y) == IF x.ok /\ y.ok THEN {l \in Loops : x.die[l] # y.die[l]} ELSE {}

\* write_manual_exposure(), 60 ms, and the read.  kept says that nothing has
\* overwritten the value.
WriteExposure(c, v) ==
  IF c.stuck THEN {c}
  ELSE {[c EXCEPT !.die[AE] = v]}
         \cup (IF CanStall THEN {[c EXCEPT !.die[AE] = w, !.stuck = TRUE] : w \in Exposures} ELSE {})

TryOne(c, v) ==
  UNION {UNION {{[sensor |-> r.sensor, got |-> r.got, ok |-> r.ok, kept |-> e.die[AE] = d.die[AE]] :
                   r \in Read16(e)} :
                e \in {d} \cup Clocked(d)} :
         d \in WriteExposure(c, v)}

-----------------------------------------------------------------------------
WitnessInit ==
  /\ at = "capture" /\ n = 0 /\ cap_armed = FALSE
  /\ sensor \in [mask : {Loops}, running : SUBSET Loops, stuck : {FALSE},
                 die : {d \in [Loops -> UNION {Lit[l] : l \in Loops}] : \A l \in Loops : d[l] \in Lit[l]}]
  /\ inbox = <<>> /\ want_pic = FALSE /\ want_emb = FALSE
  /\ step = 1
  /\ witness = [phase |-> 0, left |-> 0, tracking |-> Loops, from_k |-> FALSE, on_write |-> {}]
  /\ a = Nothing /\ prev = Nothing
  /\ wrote = 0
  /\ said = Nothing /\ pair = [pic |-> Nothing, emb |-> Nothing, dropped |-> FALSE]
  /\ lost = FALSE /\ press = 0 /\ bursts = 0 /\ stalls = 0 /\ drops = 0

\* The loop's two early ends: a frame number is spent, and no key is read.
Drop == at' = "capture" /\ n' = (n + 1) % Frames

\* ft_capture(): what is in flight is collected, which a bus that has stalled since
\* cannot be; otherwise cam_trigger() clears the fault first.
CaptureFails ==
  /\ at = "capture" /\ Drop
  /\ \E c \in Clocked(sensor) :
       \/ cap_armed /\ c.stuck /\ sensor' = c /\ UNCHANGED drops
       \/ /\ cap_armed => ~c.stuck
          /\ CanStall /\ sensor' = [c EXCEPT !.stuck = TRUE] /\ UNCHANGED drops
       \/ /\ cap_armed => ~c.stuck
          /\ drops < MaxDrops /\ drops' = drops + 1
          /\ sensor' = [c EXCEPT !.stuck = FALSE]
  /\ Paid(sensor')
  /\ cap_armed' = FALSE /\ said' = Nothing
  /\ UNCHANGED <<dumps, keys, watch, bursts>>

\* A frame, and the picture that was asked for.
CaptureGood ==
  /\ at = "capture" /\ (cap_armed => ~sensor.stuck)
  /\ \E c \in Clocked(sensor) : sensor' = [c EXCEPT !.stuck = FALSE]
  /\ cap_armed' = FALSE
  /\ want_pic' = FALSE
  /\ pair' = IF want_pic THEN [pair EXCEPT !.pic = n] ELSE pair
  /\ at' = "encode" /\ said' = Nothing
  /\ UNCHANGED <<n, inbox, want_emb, keys, watch, bursts, stalls, drops>>

\* encode() arms the next capture on its way: the trigger goes out or stalls.
Armings(c) == {<<c, TRUE>>} \cup (IF CanStall THEN {<<[c EXCEPT !.stuck = TRUE], FALSE>>} ELSE {})

EncodeFails ==
  /\ at = "encode" /\ Drop
  /\ drops < MaxDrops /\ drops' = drops + 1
  /\ \E o \in Armings(sensor) \cup {<<sensor, FALSE>>} : sensor' = o[1] /\ cap_armed' = o[2]
  /\ Paid(sensor')
  /\ pair' = [pair EXCEPT !.dropped = TRUE] /\ said' = Nothing
  /\ UNCHANGED <<inbox, want_pic, want_emb, keys, watch, bursts>>

\* An embedding, and the vector that was asked for.
EncodeGood ==
  /\ at = "encode"
  /\ \E o \in Armings(sensor) : sensor' = o[1] /\ cap_armed' = o[2]
  /\ Paid(sensor')
  /\ want_emb' = FALSE
  /\ pair' = IF want_emb THEN [pair EXCEPT !.emb = n] ELSE pair
  /\ at' = "report" /\ said' = Nothing
  /\ UNCHANGED <<n, inbox, want_pic, keys, watch, bursts, drops>>

-----------------------------------------------------------------------------
\* report(), and the end of a good frame.
Reported == at' = "console" /\ n' = (n + 1) % Frames

Quiet ==
  /\ at = "report" /\ Reported
  /\ witness.phase = 0 \/ witness.left > 1
  /\ witness' = IF witness.phase = 0 THEN witness ELSE [witness EXCEPT !.left = @ - 1]
  /\ said' = Nothing
  /\ UNCHANGED <<sensor, cap_armed, dumps, keys, a, prev, bursts, stalls, drops>>

\* What has changed across the write, of the loops that stood still when the
\* last witness ended.
FirstSample ==
  /\ at = "report" /\ Reported
  /\ witness.phase = 1 /\ witness.left = 1
  /\ \E s \in Sample(sensor) :
       /\ sensor' = s.sensor /\ Paid(s.sensor)
       /\ a' = [die |-> s.die, ok |-> s.ok]
       /\ witness' = [witness EXCEPT
            !.phase = 2, !.left = Spacing,
            !.on_write = IF prev = Nothing THEN {} ELSE Live(prev, a') \ prev.live]
  /\ said' = Nothing
  /\ UNCHANGED <<cap_armed, dumps, keys, prev, bursts, drops>>

\* The die is where the check has left it.
Stuck(s) == witness.from_k /\ s.die[AE] = wrote

\* The verdict, under the two samples it prints; a and on_write are not read again.
\* last says that prev was taken under the mask before this one.
SecondSample ==
  /\ at = "report" /\ Reported
  /\ witness.phase = 2 /\ witness.left = 1
  /\ witness' = [witness EXCEPT !.phase = 0, !.left = 0, !.on_write = {}] /\ a' = Nothing
  /\ \E r \in Sample(sensor) :
       LET s == [die |-> r.die, ok |-> r.ok]
           live == Live(a, s)
       IN /\ sensor' = r.sensor /\ Paid(r.sensor)
          /\ IF a.ok /\ s.ok
             THEN /\ said' = [line |-> "witness",
                              bad |-> live \ witness.tracking, back |-> live \cap witness.tracking,
                              written |-> witness.on_write, stuck |-> Stuck(s),
                              first |-> a.die, second |-> s.die,
                              last |-> prev # Nothing /\ prev.press = press - 1]
                  /\ prev' = [die |-> s.die, ok |-> TRUE, live |-> live, press |-> press]
             ELSE said' = Nothing /\ UNCHANGED prev
  /\ UNCHANGED <<cap_armed, dumps, keys, bursts, drops>>

-----------------------------------------------------------------------------
\* The console.

Sends ==
  /\ at = "console" /\ inbox = <<>> /\ ~want_pic /\ ~want_emb /\ bursts < MaxBursts
  /\ inbox' \in Bursts
  /\ bursts' = bursts + 1
  /\ pair' = [pic |-> Nothing, emb |-> Nothing, dropped |-> FALSE]
  /\ said' = Nothing
  /\ UNCHANGED <<at, n, sensor, cap_armed, want_pic, want_emb, keys, watch, stalls, drops>>

\* Mutant: a key a frame.
Drained_One == IF inbox # <<>> /\ inbox[1] \in {"P", "V"} THEN 1 ELSE 0

\* How many keys go before the one that is handled: 'P' and 'V' are drained.
Drained == Max({k \in 0 .. Len(inbox) : \A i \in 1 .. k : inbox[i] \in {"P", "V"}})

\* The key that is left to handle; "" is none.
Key == IF Drained < Len(inbox) /\ inbox[Drained + 1] \in {"L", "K"}
       THEN inbox[Drained + 1] ELSE ""

Drain ==
  LET gone == {inbox[i] : i \in 1 .. Drained}
  IN /\ want_pic' = (want_pic \/ "P" \in gone)
     /\ want_emb' = (want_emb \/ "V" \in gone)
     /\ inbox' = SubSeq(inbox, Drained + (IF Key = "" THEN 1 ELSE 2), Len(inbox))
     /\ UNCHANGED pair

NoKey ==
  /\ at = "console" /\ Key = "" /\ Drain
  /\ at' = "capture" /\ said' = Nothing
  /\ UNCHANGED <<n, sensor, cap_armed, keys, watch, bursts, stalls, drops>>

\* Mutant: a witness under way goes on, with the new mask.
Watch_On(tracking, from_k) ==
  witness' = [witness EXCEPT
    !.phase = IF @ = 0 THEN 1 ELSE @, !.left = IF witness.phase = 0 THEN Settle ELSE @,
    !.tracking = tracking, !.from_k = from_k]

\* A press arms the witness; one under way is replaced.
Watch(tracking, from_k) ==
  witness' = [witness EXCEPT !.phase = 1, !.left = Settle,
                             !.tracking = tracking, !.from_k = from_k]

LockKey ==
  /\ at = "console" /\ Key = "L" /\ Drain
  /\ step' = (step % Len(Steps)) + 1
  /\ \E c \in AutoMask(sensor, Steps[step']) : sensor' = c /\ Paid(c)
  /\ Watch(Steps[step'], FALSE)
  /\ lost' = sensor'.stuck /\ press' = press + 1
  /\ at' = "capture" /\ said' = Nothing
  /\ UNCHANGED <<n, cap_armed, a, prev, wrote, bursts, drops>>

\* cam_exposure_lock_check(); "untested" is for before the first frame.
Verdict(one, two) ==
  IF ~one.ok \/ ~two.ok THEN "unreadable"
  ELSE IF one.got = Try[1] /\ two.got = Try[2] THEN "held" ELSE "dragged"

\* The last of the two.
LockWrote(two) == Try[2]

\* The check has masked everything, cam_image_defaults() frees everything.
StepAfterCheck == 1

CheckKey ==
  /\ at = "console" /\ Key = "K" /\ Drain
  /\ \E c1 \in AutoMask(sensor, {}) : \E one \in TryOne(c1, Try[1]) :
     \E two \in TryOne(one.sensor, Try[2]) : \E c2 \in AutoMask(two.sensor, Loops) :
       /\ sensor' = c2 /\ Paid(c2)
       /\ wrote' = LockWrote(two)
       /\ said' = [line |-> "check", state |-> Verdict(one, two),
                   kept |-> one.kept /\ two.kept, read |-> two.got]
  /\ step' = StepAfterCheck
  /\ Watch(Loops, TRUE)
  /\ lost' = sensor'.stuck /\ press' = press + 1
  /\ at' = "capture"
  /\ UNCHANGED <<n, cap_armed, a, prev, bursts, drops>>

WitnessNext == \/ CaptureFails \/ CaptureGood \/ EncodeFails \/ EncodeGood
               \/ Quiet \/ FirstSample \/ SecondSample
               \/ Sends \/ NoKey \/ LockKey \/ CheckKey

WitnessSpec == WitnessInit /\ [][WitnessNext]_witnessVars

-----------------------------------------------------------------------------
Says(line) == said # Nothing /\ said.line = line

\* A loop the witness names as moved is running now, under the mask the line names,
\* however often it was armed again and whatever the check wrote in between; or the
\* line shows a zero for it, which is how a stalled bus reads.
MovedOrReadZero ==
  Says("witness") =>
    \A l \in said.bad \cup said.back : l \in sensor.running \/ 0 \in {said.first[l], said.second[l]}

\* The die "still on the check's own exposure" is, stalled bus or not; and a loop
\* that runs under that line is one that the room has on the same exposure.
StuckIsOnTheDie ==
  Says("witness") /\ said.stuck =>
    sensor.die[AE] = wrote /\ (AE \in sensor.running => wrote \in Lit[AE])

\* "Dragged" is said where the die has overwritten one of the two values, or where
\* the value printed is a stalled bus' zero.
DraggedOrReadZero == Says("check") /\ said.state = "dragged" => ~said.kept \/ said.read = 0

\* Between keys the step is the mask the sensor was sent, after any mixture of 'L'
\* and 'K'.  A bus that stalls under the last of them drops its writes, the step goes
\* on, and nothing writes the mask again: no more can be said of that.
StepNamesTheMask == ~lost => sensor.mask = Steps[step]

\* A conclusive line of the witness or of the check has its ground in the sensor as
\* it is when the line is printed, or shows the zero that says it has none; and the
\* step the console names is the one the sensor was sent.
LinesHaveGrounds ==
  MovedOrReadZero /\ StuckIsOnTheDie /\ DraggedOrReadZero /\ StepNamesTheMask

\* cam.h: "a witness that MOVED says that loop is still revising, which is
\* conclusive".  One sample of a stalled bus is zeros, and differs.
MovedIsConclusive == Says("witness") => said.bad \cup said.back \subseteq sensor.running

\* m9.c: on the check's exposure "the AE loop is not running: a live loop would have
\* moved off it".  One that the room has on that exposure stays.
StuckMeansStopped == Says("witness") /\ said.stuck => AE \notin sensor.running

\* No other key stands between the two.
DumpsStandTogether ==
  \A b \in Bursts : \A i, j, k \in DOMAIN b :
    i < k /\ k < j /\ {b[i], b[j]} \subseteq {"P", "V"} => b[k] \in {"P", "V"}

\* Of one burst, the picture and the vector are of the same frame, unless the
\* encode failed between them.
PairUnlessDropped ==
  Nothing \notin {pair.pic, pair.emb} /\ ~pair.dropped => pair.pic = pair.emb

\* m9.c on 'P' and 'V': "press both and the image and the vector describe the same
\* frame n".  The encode fails after the picture and the vector is of a later frame.
PairIsOfOneFrame == Nothing \notin {pair.pic, pair.emb} => pair.pic = pair.emb

\* cam.c on its check: "`dragged` is proof: the die overwrote a value it was
\* handed".  A bus that stalls under the check reads two pairs of zeros.
DraggedIsProof == Says("check") /\ said.state = "dragged" => ~said.kept

\* What the witness prints of loops that "changed across the mask write, after
\* standing still under the previous one": its samples are of these two masks.
StillUnderThePrevious == Says("witness") /\ said.written # {} => said.last
=============================================================================
