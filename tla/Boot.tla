--------------------------------- MODULE Boot ---------------------------------
(***************************************************************************)
(* firmware/m9.c's main() from reset to the frame loop: the PSRAM parked,  *)
(* the clock and its rail, the bitstream off the wire (ft_recv_bitstream), *)
(* the FPGA configured over pins that become the link, the width of that   *)
(* link probed, the camera acquired, the first query set awaited; and the  *)
(* ways back: park(), 'B', 'R', the watchdog and the plug.                 *)
(*                                                                         *)
(* The bytes told apart are those of the magic; Other is any else.  A gap  *)
(* before a byte is shorter than a second, or it is a time-out.            *)
(***************************************************************************)
EXTENDS Acquire

CONSTANTS
  WantKhz,     \* FGX_SYS_KHZ, in MHz
  PinnedRail,  \* FGX_CORE_MV, or None
  Other

ASSUME BootAssumption == WantKhz \in Nat /\ PinnedRail \in Nat \cup {None}

VARIABLES
  pc,        \* where main() is
  clk, rail, \* clk_sys and the core's rail
  sys_rail,
  w,         \* the hunt's shift register
  heard,     \* history: the last four bytes received
  pins,      \* the pins the microcontroller drives
  fpga,      \* what the FPGA runs: "off", "A" or "C"
  image      \* the bitstream received: "A", "C", "bad" or None

bootVars == <<pc, clk, rail, sys_rail, w, heard, pins, fpga, image>>
vars == <<bootVars, acquireVars>>

Magic == <<"F", "G", "X", "B">>
Silence == <<None, None, None, None>>
Bytes == {"F", "G", "X", "B", Other}

Stock == 150
RailFor(khz) == IF khz > 220 THEN 125 ELSE IF khz > 150 THEN 120 ELSE 110
RailDefault == RailFor(Stock)
WantRail == IF PinnedRail = None THEN RailFor(WantKhz) ELSE PinnedRail

Init ==
  /\ pc = "reset" /\ clk = Stock /\ rail = RailDefault /\ sys_rail = RailDefault
  /\ w = Silence /\ heard = Silence /\ pins = {} /\ fpga = "off" /\ image = None
  /\ at = "off" /\ cam = PowerOn /\ need = 0 /\ ramp = RampStart
  /\ got = Nothing /\ doubt = None /\ now = 0 /\ fed = 0 /\ faults = 0
  /\ shown = <<>> /\ reals = {}

\* ft_acquire()'s locals and the histories, out of scope.
Left ==
  /\ at' = "off" /\ need' = 0 /\ ramp' = RampStart /\ got' = Nothing /\ doubt' = None
  /\ now' = 0 /\ fed' = 0 /\ faults' = 0 /\ shown' = <<>> /\ reals' = {}

-----------------------------------------------------------------------------
(***************************************************************************)
(* The processor starts again, the camera c behind it.  The rail may       *)
(* outlive it; the FPGA's configuration does not, with the pull-down on    *)
(* its reset (docs/pinmap.md).                                             *)
(***************************************************************************)
Restart(c) ==
  /\ pc' = "reset" /\ clk' = Stock /\ sys_rail' = RailDefault
  /\ w' = Silence /\ heard' = Silence /\ pins' = {} /\ fpga' = "off" /\ image' = None
  /\ cam' = [c EXCEPT !.last = None, !.fault = FALSE, !.level = Unseen]
  /\ Left

Unarmed == {"reset", "rail", "clock", "refused", "slow", "bootsel"}

\* The watchdog, left unfed for so long.
Bite == pc \notin Unarmed /\ fed >= WdLimit /\ Restart(cam) /\ rail' \in {rail, RailDefault}

\* 'R' at a prompt or in the loop, the watchdog park() arms, and a reflash.
Reboot ==
  /\ pc \in {"queries", "loop", "park", "bootsel"}
  /\ Restart(cam) /\ rail' \in {rail, RailDefault}

\* 'B' while parked or at the query prompt.
Bootsel ==
  /\ pc \in {"queries", "park"} /\ pc' = "bootsel"
  /\ UNCHANGED <<clk, rail, sys_rail, w, heard, pins, fpga, image, acquireVars>>

\* The plug: the camera and the rail start again too.
PowerCycle == Restart(PowerOn) /\ rail' = RailDefault

-----------------------------------------------------------------------------
\* fgx_qspi_park(), and USB up with a host on it.
Enumerate ==
  /\ pc = "reset" /\ pc' = "rail" /\ pins' = pins \cup {"PSRAM_CS"}
  /\ UNCHANGED <<clk, rail, sys_rail, w, heard, fpga, image, acquireVars>>

\* sys_clock_bring_up(): voltage up before frequency up.
RailUp ==
  /\ pc = "rail" /\ pc' = "clock"
  /\ IF WantRail > sys_rail THEN rail' = WantRail /\ sys_rail' = WantRail
     ELSE UNCHANGED <<rail, sys_rail>>
  /\ UNCHANGED <<clk, w, heard, pins, fpga, image, acquireVars>>

\* The rate asked for, unless it is the stock one or has no exact solution.
ClockUp ==
  /\ pc = "clock"
  /\ \/ WantKhz # Stock /\ clk' = WantKhz /\ pc' = "hunt"
     \/ pc' = "refused" /\ UNCHANGED clk
  /\ UNCHANGED <<rail, sys_rail, w, heard, pins, fpga, image, acquireVars>>

\* Frequency down before voltage down.
ClockDown ==
  /\ pc = "refused" /\ pc' = "slow" /\ clk' = Stock
  /\ UNCHANGED <<rail, sys_rail, w, heard, pins, fpga, image, acquireVars>>

RailDown ==
  /\ pc = "slow" /\ pc' = "hunt"
  /\ IF sys_rail # RailDefault THEN rail' = RailDefault /\ sys_rail' = RailDefault
     ELSE UNCHANGED <<rail, sys_rail>>
  /\ UNCHANGED <<clk, w, heard, pins, fpga, image, acquireVars>>

-----------------------------------------------------------------------------
(***************************************************************************)
(* ft_recv_bitstream().                                                    *)
(***************************************************************************)
Shift(bytes, c) == Append(Tail(bytes), c)

\* Mutant: a 'B' after a silence is a hotkey wherever it stands.
Hotkey_Anywhere(c, alone) == c = "B" /\ alone

\* A lone 'B' that does not end the magic.  The first byte of all is always alone: prev_us
\* is 0.
Hotkey(c, alone) == c = "B" /\ (alone \/ w = Silence) /\ Tail(w) # <<"F", "G", "X">>

\* A second without a byte: the host has not arrived, and the watchdog is fed.
HuntTimeout ==
  /\ pc = "hunt" /\ fed < WdLimit /\ fed' = 0
  /\ UNCHANGED <<bootVars, at, cam, need, ramp, got, doubt, now, faults, shown, reals>>

\* A byte, in a stream or after a gap; nothing feeds the watchdog here, and bytes without a
\* second between them may go on for longer than it allows.
HuntByte ==
  /\ pc = "hunt" /\ fed < WdLimit
  /\ \E c \in Bytes, alone \in BOOLEAN :
       /\ fed' \in {Max({fed, 1}), WdLimit}
       /\ heard' = Shift(heard, c)
       /\ IF Hotkey(c, alone) THEN pc' = "bootsel" /\ UNCHANGED w
          ELSE w' = Shift(w, c) /\ pc' = IF Shift(w, c) = Magic THEN "payload" ELSE "hunt"
  /\ UNCHANGED <<clk, rail, sys_rail, pins, fpga, image, at, cam, need, ramp, got, doubt, now,
                 faults, shown, reals>>

\* ft_recv_exact() of the header and the image: refused when it stops for a second, does
\* not fit or fails its CRC; and it may be slower in all than the watchdog allows.
Payload ==
  /\ pc = "payload" /\ fed < WdLimit
  /\ \E took \in {1, WdLimit}, taken \in {"A", "C", "bad", None} :
       /\ fed' = fed + took /\ image' = taken
       /\ pc' = IF taken = None THEN "park" ELSE "pins"
  /\ w' = Silence /\ heard' = Silence
  /\ UNCHANGED <<clk, rail, sys_rail, pins, fpga, at, cam, need, ramp, got, doubt, now,
                 faults, shown, reals>>

-----------------------------------------------------------------------------
(***************************************************************************)
(* fpga_config.c, and the link's pins.                                     *)
(***************************************************************************)
\* wd_stage() before each stage feeds the watchdog.
Stage(next) ==
  /\ pc' = next /\ fed' = 0
  /\ UNCHANGED <<clk, rail, sys_rail, at, cam, need, ramp, got, doubt, now, faults, shown, reals>>

\* What each image drives: its heartbeat or its return on NSTATUS, and in configuration A
\* its responses on SS_N.
FpgaDrives == CASE fpga = "A" -> {"CS", "NSTATUS"} [] fpga = "C" -> {"NSTATUS"} [] OTHER -> {}

\* fpga_config_pins_init(): held in reset, the oscillator off.
PinsInit ==
  /\ pc = "pins" /\ fed < WdLimit /\ Stage("claim")
  /\ pins' = pins \cup {"NRESET", "OSC_EN"} /\ fpga' = "off"
  /\ UNCHANGED <<w, heard, image>>

\* claim_spi_pins(), then the straps: CS low as CRESET_N is released.
Claim ==
  /\ pc = "claim" /\ Stage("load") /\ pins' = pins \cup {"CLK", "MOSI", "CS"}
  /\ UNCHANGED <<w, heard, fpga, image>>

\* Mutant: CS is left to fpga_release_link_pins().
PinsOnceConfigured_Kept == pins

\* The user design owns its pins from CDONE on, SS_N among them.
PinsOnceConfigured == pins \ {"CS"}

\* The lead-in, the image, and the trailing clocks until CDONE or their end.
Load ==
  /\ pc = "load"
  /\ \/ image \in {"A", "C"} /\ fpga' = image /\ pins' = PinsOnceConfigured /\ Stage("release")
     \/ pc' = "park" /\ UNCHANGED <<clk, rail, sys_rail, pins, fpga, acquireVars>>
  /\ UNCHANGED <<w, heard, image>>

\* fpga_release_link_pins()
Release ==
  /\ pc = "release" /\ Stage("host") /\ pins' = pins \ {"CLK", "MOSI", "CS"}
  /\ UNCHANGED <<w, heard, fpga, image>>

\* link_setup(), at each width.
LinkPins(width) ==
  IF width = 1 THEN (pins \cup {"MOSI", "CLK"}) \ {"CS"}
  ELSE pins \cup {"CS", "CLK", "MOSI", "PIN2"}

\* gemm_host_init(), at width 1; then the model is opened, or the run is parked.
HostInit ==
  /\ pc = "host" /\ pins' = LinkPins(1)
  /\ \/ Stage("model")
     \/ pc' = "park" /\ UNCHANGED <<clk, rail, sys_rail, acquireVars>>
  /\ UNCHANGED <<w, heard, fpga, image>>

\* probe() tries three lines first.
ProbeWide ==
  /\ pc = "model" /\ Stage("wide") /\ pins' = LinkPins(3)
  /\ UNCHANGED <<w, heard, fpga, image>>

\* Three lines work on configuration C with its jumper; otherwise one is tried.
ProbeNarrow ==
  /\ pc = "wide"
  /\ \/ image = "C" /\ Stage("camera") /\ UNCHANGED pins
     \/ Stage("narrow") /\ pins' = LinkPins(1)
  /\ UNCHANGED <<w, heard, fpga, image>>

ProbeEnds ==
  /\ pc = "narrow"
  /\ \/ image = "A" /\ Stage("camera")
     \/ pc' = "park" /\ UNCHANGED <<clk, rail, sys_rail, acquireVars>>
  /\ UNCHANGED <<w, heard, pins, fpga, image>>

-----------------------------------------------------------------------------
\* ft_acquire(), while the watchdog leaves it the time.
Acquiring ==
  /\ pc = "camera" /\ fed < WdLimit /\ (AcquireStart \/ AcquireNext)
  /\ UNCHANGED bootVars

\* No camera, no demo; otherwise the query set is awaited, fed once a second.
CameraEnds ==
  /\ pc = "camera" /\ fed < WdLimit /\ at \in {"frame", "none"}
  /\ pc' = IF at = "frame" THEN "queries" ELSE "park"
  /\ Left
  /\ UNCHANGED <<clk, rail, sys_rail, w, heard, pins, fpga, image, cam>>

Queries ==
  /\ pc = "queries" /\ pc' = "loop"
  /\ UNCHANGED <<clk, rail, sys_rail, w, heard, pins, fpga, image, acquireVars>>

\* Keys 'M', 'L' and 'K' of the loop: what the next boot finds in the camera.
LoopKey ==
  /\ pc = "loop"
  /\ cam' \in {[cam EXCEPT !.synth = ~@], [cam EXCEPT !.loops = ~@]}
  /\ UNCHANGED <<bootVars, at, need, ramp, got, doubt, now, fed, faults, shown, reals>>

\* A sensor wedges, and only the plug ends it.
Wedge ==
  /\ pc \in {"camera", "loop"} /\ at \in {"off", "begin", "rouse", "shoot", "judge"} /\ ~cam.busy
  /\ cam' = [cam EXCEPT !.busy = TRUE]
  /\ UNCHANGED <<bootVars, at, need, ramp, got, doubt, now, fed, faults, shown, reals>>

BootNext ==
  \/ Enumerate \/ RailUp \/ ClockUp \/ ClockDown \/ RailDown
  \/ HuntTimeout \/ HuntByte \/ Payload
  \/ PinsInit \/ Claim \/ Load \/ Release \/ HostInit
  \/ ProbeWide \/ ProbeNarrow \/ ProbeEnds
  \/ CameraEnds \/ Queries \/ LoopKey

Next == Acquiring \/ BootNext \/ Bite \/ Reboot \/ Bootsel \/ PowerCycle \/ Wedge

Spec == Init /\ [][Next]_vars

-----------------------------------------------------------------------------
(***************************************************************************)
(* The magic is never lost and never a hotkey: when its four bytes have    *)
(* come in a row, whatever came before them and whatever gaps are between  *)
(* them, the hunt is over and the board is not in BOOTSEL (issue #3).      *)
(***************************************************************************)
MagicIsHeard == heard = Magic => pc \notin {"hunt", "bootsel"}

(***************************************************************************)
(* fpga_config.c on SS_N and configuration A: no pin is driven by the      *)
(* microcontroller and by the FPGA's user design at the same time.         *)
(***************************************************************************)
OneDriver == pins \cap FpgaDrives = {}

(***************************************************************************)
(* Nothing is overdriven on the way: the rail is at least what the clock   *)
(* needs at every step, and no pin is driven from both ends, except by     *)
(* probe()'s trial of three lines on configuration A.                      *)
(***************************************************************************)
NothingIsOverdriven ==
  /\ PinnedRail = None => rail >= RailFor(clk)
  /\ OneDriver \/ (pc = "wide" /\ fpga = "A")
=============================================================================
