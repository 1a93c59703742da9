------------------------------ MODULE GemmLink ------------------------------
(***************************************************************************)
(* rtl/gemm_link.v: the FPGA's end of the wire, with as much of the tile   *)
(* behind it as tells a right block from a wrong one.                      *)
(*                                                                         *)
(* The wire moves one byte each way per slot, and only when the host       *)
(* clocks it.  A byte is a small number, so that a damaged header byte     *)
(* really is another command or another length, and a payload may contain  *)
(* SYNC.  A response is a sequence of tokens.  A CRC is the sequence it    *)
(* covers: two different payloads never agree.                             *)
(*                                                                         *)
(* CMD_WGT stands for the three commands that write a memory of the tile   *)
(* from its address 0 (ACT, WGT, RQP); LED, which has no memory, is left   *)
(* out.  A sweep takes one slot more than the K of the last CFG.           *)
(***************************************************************************)
EXTENDS Naturals, Sequences

CONSTANT MaxPass        \* split-K passes told apart in an accumulator

\* The bytes of the wire: an idle byte is 0, a length is its own value.
CFG   == 1
WGT   == 2
RUN   == 3
DRAIN == 4
NOP   == 5
SYNC  == 6
Commands == {CFG, WGT, RUN, DRAIN, NOP}
Byte  == 0 .. SYNC
WGTMAX == 2
Mem == [1 .. WGTMAX -> Byte]

\* The tokens of the return wire.
Low    == <<"low">>
Pre    == <<"preamble">>
Junk   == <<"junk">>
Status(c, busy_, bad, under) == <<"status", c, busy_, bad, under>>
RxCrc(p)  == <<"rxcrc", p>>
Word(a)   == <<"word", a>>
TxCrc(s)  == <<"txcrc", s>>

VARIABLES
  rstate,       \* R_HUNT, the two bytes of R_HDR, R_PAY, R_WAIT or R_TX
  cmd, rem,     \* the command, and how many of its payload bytes are to come
  got,          \* the payload bytes taken so far: what rxcrc covers
  bad_frame, underrun,  \* the sticky faults
  resp, out,    \* the response, and how much of it has been transmitted
  mem,          \* the tile: the memory CMD_WGT writes,
  cfg_K,        \*   the shape CMD_CFG latched,
  busy,         \*   the slots left of a sweep,
  acc           \*   and the passes summed into the accumulators

rx   == <<rstate, cmd, rem, got>>
link == <<rx, bad_frame, underrun, resp, out, mem, cfg_K, busy, acc>>

\* An accumulator that holds more passes than are told apart.
TooMany == <<<<>>>>

LinkInit ==
  /\ rstate = "HUNT" /\ cmd = NOP /\ rem = 0 /\ got = <<>>
  /\ bad_frame = FALSE /\ underrun = FALSE
  /\ resp = <<>> /\ out = 0
  /\ mem = <<0, 0>> /\ cfg_K = 0 /\ busy = 0 /\ acc = <<>>

\* cmd_known && len_ok
LengthOk(c, n) ==
  CASE c \in {CFG, RUN} -> n = 1
    [] c = WGT          -> n <= WGTMAX
    [] OTHER            -> c \in Commands /\ n = 0

\* What is transmitted in this slot: the line rests low.
Sent == IF rstate = "TX" THEN resp[out + 1] ELSE Low

\* T_STAT, T_RXC, T_DATA; the preamble is outside txcrc.
Framed(body) == <<Pre>> \o body \o <<TxCrc(body)>>

\* The status byte is sampled at dispatch, before NOP clears the faults and
\* before RUN raises busy.
Response(c, p, words) ==
  Framed(<<Status(c, FALSE, bad_frame, underrun), RxCrc(p)>> \o words)

Hunt(b) ==
  /\ rstate = "HUNT"
  /\ rstate' = IF b = SYNC THEN "CMD" ELSE "HUNT"
  /\ UNCHANGED <<cmd, rem, got, bad_frame, underrun, resp, out, mem, cfg_K, busy, acc>>

Command(b) ==
  /\ rstate = "CMD"
  /\ cmd' = b /\ rstate' = "LEN"
  /\ UNCHANGED <<rem, got, bad_frame, underrun, resp, out, mem, cfg_K, busy, acc>>

\* R_EXEC, once the payload p of command cmd is in, with the tile's memory m.
\* A RUN answers when its sweep is over; the others answer at once.
Exec(p, m, late) ==
  /\ mem' = m
  /\ cfg_K' = IF cmd = CFG THEN p[1] ELSE cfg_K
  /\ bad_frame' = (bad_frame /\ cmd # NOP)
  /\ underrun' = ((underrun /\ cmd # NOP) \/ (cmd = DRAIN /\ late))
  /\ resp' = Response(cmd, p, IF cmd = DRAIN /\ ~late THEN <<Word(acc)>> ELSE <<>>)
  /\ out' = 0
  /\ rem' = 0 /\ got' = <<>>
  /\ IF cmd = RUN
     THEN /\ rstate' = "WAIT" /\ busy' = cfg_K + 1
          /\ acc' = IF p[1] % 2 = 1 THEN <<<<m, cfg_K>>>>
                    ELSE IF acc = TooMany \/ Len(acc) = MaxPass THEN TooMany
                    ELSE Append(acc, <<m, cfg_K>>)
     ELSE rstate' = "TX" /\ UNCHANGED <<busy, acc>>
  /\ UNCHANGED cmd

\* Mutant: the receiver stays in the header after a bad length.
Length_Stuck(b, late) ==
  /\ rstate = "LEN"
  /\ \/ /\ ~LengthOk(cmd, b)
        /\ bad_frame' = TRUE
        /\ UNCHANGED <<rx, underrun, resp, out, mem, cfg_K, busy, acc>>
     \/ /\ LengthOk(cmd, b) /\ b # 0
        /\ rstate' = "PAY" /\ rem' = b /\ got' = <<>>
        /\ UNCHANGED <<cmd, bad_frame, underrun, resp, out, mem, cfg_K, busy, acc>>
     \/ /\ LengthOk(cmd, b) /\ b = 0
        /\ Exec(<<>>, mem, late)

\* The last byte of the header, and R_CHK: a frame that is not one is dropped,
\* and what would have been its payload is hunted for SYNC.
Length(b, late) ==
  /\ rstate = "LEN"
  /\ \/ /\ ~LengthOk(cmd, b)
        /\ bad_frame' = TRUE /\ rstate' = "HUNT"
        /\ UNCHANGED <<cmd, rem, got, underrun, resp, out, mem, cfg_K, busy, acc>>
     \/ /\ LengthOk(cmd, b) /\ b # 0
        /\ rstate' = "PAY" /\ rem' = b /\ got' = <<>>
        /\ UNCHANGED <<cmd, bad_frame, underrun, resp, out, mem, cfg_K, busy, acc>>
     \/ /\ LengthOk(cmd, b) /\ b = 0
        /\ Exec(<<>>, mem, late)

\* One payload byte.  It is in the tile before any CRC has been looked at.
Payload(b) ==
  LET p == Append(got, b)
      m == IF cmd = WGT THEN [mem EXCEPT ![Len(p)] = b] ELSE mem
  IN /\ rstate = "PAY"
     /\ IF rem = 1 THEN Exec(p, m, FALSE)
        ELSE /\ rem' = rem - 1 /\ got' = p /\ mem' = m
             /\ UNCHANGED <<rstate, cmd, bad_frame, underrun, resp, out, cfg_K, busy,
                            acc>>

\* R_WAIT: the tile's sweep runs on the host's clocks; what they carry is not read.
Sweep ==
  /\ rstate = "WAIT"
  /\ busy' = busy - 1
  /\ rstate' = IF busy = 1 THEN "TX" ELSE "WAIT"
  /\ UNCHANGED <<cmd, rem, got, bad_frame, underrun, resp, out, mem, cfg_K, acc>>

\* R_TX: as deaf as R_WAIT.
Transmit ==
  /\ rstate = "TX"
  /\ IF out + 1 = Len(resp) THEN rstate' = "HUNT" /\ resp' = <<>> /\ out' = 0
     ELSE out' = out + 1 /\ UNCHANGED <<rstate, resp>>
  /\ UNCHANGED <<cmd, rem, got, bad_frame, underrun, mem, cfg_K, busy, acc>>

\* One slot, in which the host's byte reaches the link as b.  If late, the tile
\* misses the first word of a drain.
Clock(b, late) ==
  Hunt(b) \/ Command(b) \/ Length(b, late) \/ Payload(b) \/ Sweep \/ Transmit

LinkTypeOK ==
  /\ rstate \in {"HUNT", "CMD", "LEN", "PAY", "WAIT", "TX"}
  /\ cmd \in Byte /\ rem \in 0 .. WGTMAX
  /\ got \in Seq(Byte) /\ Len(got) < WGTMAX
  /\ bad_frame \in BOOLEAN /\ underrun \in BOOLEAN
  /\ mem \in Mem /\ cfg_K \in Byte /\ busy \in 0 .. SYNC + 1

=============================================================================
