------------------------------ MODULE GemmHost ------------------------------
(***************************************************************************)
(* firmware/gemm_host.c, the driver of the wire, over GemmLink.            *)
(*                                                                         *)
(* A transaction stages a frame, then clocks it out while its response is  *)
(* captured; it is as long as the driver works out the response needs, and *)
(* nothing stretches it.  Pipelined, a command with nothing to say back    *)
(* returns before its response is decoded; the next transaction decodes it *)
(* while its own bytes move.  A drain may also be captured into the        *)
(* caller's descriptor, for core 1 to decode when it likes.                *)
(*                                                                         *)
(* The wire may damage any byte on its way out, or any token on its way    *)
(* back; the tile may be late with a word; a transfer may stall, cut short *)
(* where it was.  At most MaxFaults of these happen.                       *)
(*                                                                         *)
(* gw_locate()'s hint is left out: it finds the position gw_scan() would,  *)
(* or a later preamble that is one.  The capture buffers are cleared where *)
(* their contents can no longer be read.                                   *)
(***************************************************************************)
EXTENDS GemmLink, FiniteSets

CONSTANTS
  Payloads,     \* what CMD_WGT is sent with
  Calls,        \* the commands the caller sends
  More,         \* which of the other calls it makes: "defer", "sync", "mode"
  MaxFaults,
  MaxAge,       \* transactions begun while a descriptor stays armed
  MidStream,    \* gh_set_pipelined() and its kin also come with a response pending
  None

ASSUME HostAssumption ==
  /\ Payloads \subseteq (Seq(Byte) \ {<<>>}) /\ \A p \in Payloads : Len(p) <= WGTMAX
  /\ Calls \subseteq Commands /\ More \subseteq {"defer", "sync", "mode"}
  /\ MaxFaults \in Nat /\ MaxAge \in Nat /\ MaxPass \in Nat \ {0} /\ MidStream \in BOOLEAN

\* A call: what it sends, and the buffer its response is captured in.
CallType ==
  [cmd : Commands, pay : Seq(Byte), kind : {"plain", "deferred"}, buf : {0, 1}]

ASSUME NoneAssumption == None \notin (Byte \cup Mem \cup Seq(Mem \X Byte) \cup CallType)

K     == 1          \* what CFG is sent with
SLACK == 1          \* GH_SLACK, in slots
OK    == "OK"
Errors == {"NO_PREAMBLE", "STATUS", "RXCRC", "TXCRC", "STALL"}

VARIABLES
  call,         \* the transaction under way: its command, payload, kind; or None
  sent,         \* how much of its frame has been clocked out
  rxb, rx_cur,  \* the two capture buffers, and the next one to fill
  retired,      \* gh_retire() has run in this window
  pipelined,
  pend,         \* the response captured and not yet decoded, or None
  pend_err,     \* the first error found while retiring, not yet returned
  defer,        \* the caller's descriptor: armed, its capture and its call
  result,       \* what the last call returned, and the words it delivered
  faults,
  want,         \* history: what mem, cfg_K and acc must be, None if unknown
  owed,         \* history: calls since a deferred failure, 0 if none
  deaf          \* history: transactions in a row that left the link not hunting

host  == <<call, sent, rxb, rx_cur, retired, pipelined, pend, pend_err, defer, result>>
ghosts == <<want, owed, deaf>>
vars  == <<link, host, faults, ghosts>>

Nothing == [mem |-> None, K |-> None, acc |-> None]
Unarmed == [armed |-> FALSE, cap |-> <<>>, want |-> None, age |-> 0]
Drain   == [cmd |-> DRAIN, pay |-> <<>>]

Init ==
  /\ LinkInit
  /\ call = None /\ sent = 0
  /\ rxb = [i \in {0, 1} |-> <<>>] /\ rx_cur = 0
  /\ retired = FALSE /\ pipelined = TRUE
  /\ pend = None /\ pend_err = OK
  /\ defer = Unarmed
  /\ result = [err |-> OK, words |-> <<>>, want |-> None]
  /\ faults = 0
  /\ want = Nothing /\ owed = 0 /\ deaf = 0

-----------------------------------------------------------------------------
\* Frames and responses.

Words(c) == IF c = DRAIN THEN 1 ELSE 0

\* The frame and its idle tail: the response's length, GH_SLACK and, for RUN, the
\* sweep's budget.  ByteAt is what is clocked out after i bytes of it.
FrameLen(c, p) ==
  3 + Len(p) + 4 + Words(c) + SLACK + (IF c = RUN THEN K + 1 ELSE 0)

ByteAt(c, p, i) ==
  CASE i = 0           -> SYNC
    [] i = 1           -> c
    [] i = 2           -> Len(p)
    [] i \in 3 .. (2 + Len(p)) -> p[i - 2]
    [] OTHER           -> 0

\* gw_align(): past the end of the capture there are zeros.
At(cap, i) == IF i <= Len(cap) THEN cap[i] ELSE Low
Zeroed(cap, i, n) == [j \in 1 .. n |-> At(cap, i + j - 1)]

\* gw_scan(): the first preamble.
Preambles(cap) == {i \in DOMAIN cap : cap[i] = Pre}
Preamble(cap)  == CHOOSE i \in Preambles(cap) : \A j \in Preambles(cap) : i <= j

\* Mutant: the echo of the payload's CRC is not compared.
Decode_NoEcho(cap, k) ==
  LET o == Preamble(cap)
      n == Words(k.cmd)
  IN IF Preambles(cap) = {} THEN "NO_PREAMBLE"
     ELSE IF At(cap, o + 1)[1] # "status" \/ At(cap, o + 1)[2] # k.cmd THEN "STATUS"
     ELSE IF At(cap, o + 3 + n) # TxCrc(Zeroed(cap, o + 1, 2 + n)) THEN "TXCRC"
     ELSE OK

\* gw_decode_n(): the command's echo, then the payload's CRC, then the response's
\* own.
Decode(cap, k) ==
  LET o == Preamble(cap)
      n == Words(k.cmd)
  IN IF Preambles(cap) = {} THEN "NO_PREAMBLE"
     ELSE IF At(cap, o + 1)[1] # "status" \/ At(cap, o + 1)[2] # k.cmd THEN "STATUS"
     ELSE IF At(cap, o + 2) # RxCrc(k.pay) THEN "RXCRC"
     ELSE IF At(cap, o + 3 + n) # TxCrc(Zeroed(cap, o + 1, 2 + n)) THEN "TXCRC"
     ELSE OK

\* The words decoded out of a capture that is OK.
Delivered(cap, k) ==
  SubSeq(cap, Preamble(cap) + 3, Preamble(cap) + 2 + Words(k.cmd))

-----------------------------------------------------------------------------
\* Mutant: the response is forgotten with its error.
Retire_Drops ==
  /\ pend' = None
  /\ pend_err' = pend_err
  /\ rxb' = IF pend = None THEN rxb ELSE [rxb EXCEPT ![pend.buf] = <<>>]

\* gh_retire(): the first error is kept.
Retire ==
  /\ pend' = None
  /\ pend_err' = IF pend # None /\ pend_err = OK THEN Decode(rxb[pend.buf], pend)
                 ELSE pend_err
  /\ rxb' = IF pend = None THEN rxb ELSE [rxb EXCEPT ![pend.buf] = <<>>]

\* What the caller may rely on after a call that returned OK.
WantAfter(c, p) ==
  CASE c = CFG -> [want EXCEPT !.K = p[1]]
    [] c = WGT -> [want EXCEPT !.mem =
                     IF Len(p) = WGTMAX THEN p
                     ELSE IF @ = None THEN None ELSE [i \in 1 .. WGTMAX |-> IF i <= Len(p) THEN p[i] ELSE @[i]]]
    [] c = RUN -> [want EXCEPT !.acc =
                     IF want.mem = None \/ want.K = None THEN None
                     ELSE IF p[1] = 1 THEN <<<<want.mem, want.K>>>>
                     ELSE IF @ = None THEN None ELSE Append(@, <<want.mem, want.K>>)]
    [] OTHER   -> want

PayloadsOf(c) ==
  CASE c = CFG -> {<<K>>}
    [] c = WGT -> Payloads
    [] c = RUN -> {<<1>>} \cup (IF want.acc # None /\ Len(want.acc) < MaxPass
                               THEN {<<0>>} ELSE {})
    [] OTHER   -> {<<>>}

\* Does the transaction return before its response has been looked at?
Defers(kind, c) == pipelined /\ kind = "plain" /\ c \notin {DRAIN, NOP}

\* A drain into a descriptor takes no buffer of the driver's.
NextBuffer(kind) == IF kind = "deferred" THEN rx_cur ELSE 1 - rx_cur

\* gh_frame() up to gh_xfer_arm().  A drain into a descriptor is refused while the
\* descriptor is armed.
Begin(kind, c, p) ==
  /\ call = None
  /\ defer.armed => kind # "deferred" /\ defer.age < MaxAge
  /\ call' = [cmd |-> c, pay |-> p, kind |-> kind, buf |-> rx_cur]
  /\ sent' = 0
  /\ retired' = ~pipelined
  /\ rx_cur' = NextBuffer(kind)
  /\ IF Defers(kind, c) THEN UNCHANGED <<pend, pend_err, rxb>> ELSE Retire
  /\ defer' = IF defer.armed THEN [defer EXCEPT !.age = @ + 1] ELSE defer
  /\ result' = [err |-> OK, words |-> <<>>, want |-> None]
  /\ UNCHANGED <<link, pipelined, faults, ghosts>>

Refused ==
  /\ call = None /\ defer.armed
  /\ result' = [err |-> "STATUS", words |-> <<>>, want |-> None]
  /\ want' = Nothing /\ owed' = owed
  /\ UNCHANGED <<link, call, sent, rxb, rx_cur, retired, pipelined, pend, pend_err,
                 defer, faults, deaf>>

Capture(token) ==
  IF call.kind = "deferred"
  THEN defer' = [defer EXCEPT !.cap = Append(@, token)] /\ UNCHANGED rxb
  ELSE rxb' = [rxb EXCEPT ![call.buf] = Append(@, token)] /\ UNCHANGED defer

\* What goes out in this slot.
NextByte == ByteAt(call.cmd, call.pay, sent)

\* The DMA and the PIO move one byte each way.
Slot ==
  /\ call # None /\ sent < FrameLen(call.cmd, call.pay)
  /\ sent' = sent + 1
  /\ \/ Clock(NextByte, FALSE) /\ Capture(Sent) /\ UNCHANGED faults
     \/ /\ faults < MaxFaults /\ faults' = faults + 1
        /\ \/ /\ \E b \in Byte \ {NextByte} : Clock(b, FALSE)
              /\ Capture(Sent)
           \/ Clock(NextByte, FALSE) /\ Sent # Low /\ Capture(Junk)
           \/ /\ rstate = "LEN" /\ cmd = DRAIN
              /\ Clock(NextByte, TRUE) /\ Capture(Sent)
  /\ UNCHANGED <<call, rx_cur, retired, pipelined, pend, pend_err, result, ghosts>>

\* if (pipelined) gh_retire(): at any moment of the window.
RetirePrevious ==
  /\ call # None /\ ~retired
  /\ retired' = TRUE
  /\ Retire
  /\ UNCHANGED <<link, call, sent, rx_cur, pipelined, defer, result, faults, ghosts>>

\* The caller of a call that returned e: an error is the end of what it built up.
\* A deferred failure is owed from the transaction it befell.
Return(e, words, w, failed) ==
  /\ result' = [err |-> e, words |-> words, want |-> w]
  /\ want' = IF e = OK THEN WantAfter(call.cmd, call.pay) ELSE Nothing
  /\ owed' = IF e = OK /\ owed # 0 THEN 2
             ELSE IF failed THEN 1 ELSE 0
  /\ deaf' = IF rstate = "HUNT" THEN 0
             ELSE IF \E i \in 1 .. Len(call.pay) : call.pay[i] = SYNC THEN 1
             ELSE IF deaf < 3 THEN deaf + 1 ELSE deaf
  /\ call' = None /\ retired' = FALSE /\ sent' = 0

\* take_pend(): the older error outranks this call's result.
TakePend(e) == IF pend_err # OK THEN pend_err ELSE e

\* The rest of gh_frame(), once gh_xfer_wait() is satisfied.
Finish ==
  LET cap == rxb[call.buf]
      e   == Decode(cap, call)
  IN /\ call # None /\ sent = FrameLen(call.cmd, call.pay) /\ retired
     /\ pend_err' = OK
     /\ CASE call.kind = "deferred" ->
               /\ defer' = [armed |-> TRUE, cap |-> defer.cap, age |-> 0,
                            want |-> IF pend_err = OK THEN want.acc ELSE None]
               /\ Return(TakePend(OK), <<>>, None, FALSE)
               /\ UNCHANGED <<pend, rxb>>
          [] Defers(call.kind, call.cmd) ->
               /\ pend' = call
               /\ Return(TakePend(OK), <<>>, None, e # OK)
               /\ UNCHANGED <<rxb, defer>>
          [] OTHER ->
               /\ Return(TakePend(e), IF e = OK THEN Delivered(cap, call) ELSE <<>>,
                         want.acc, FALSE)
               /\ rxb' = [rxb EXCEPT ![call.buf] = <<>>]
               /\ UNCHANGED <<pend, defer>>
     /\ UNCHANGED <<link, rx_cur, pipelined, faults>>

\* gh_xfer_wait() gives up: the channels are aborted, the response is not decoded,
\* and an error found while retiring stays for the next call.
Stall ==
  /\ call # None /\ sent < FrameLen(call.cmd, call.pay) /\ retired
  /\ faults < MaxFaults /\ faults' = faults + 1
  /\ Return("STALL", <<>>, None, FALSE)
  /\ rxb' = [rxb EXCEPT ![call.buf] = <<>>]
  /\ defer' = IF call.kind = "deferred" THEN Unarmed ELSE defer
  /\ UNCHANGED <<link, rx_cur, pipelined, pend, pend_err>>

\* gh_sync()
Sync ==
  /\ call = None /\ pend # None
  /\ LET e == IF pend_err # OK THEN pend_err ELSE Decode(rxb[pend.buf], pend)
     IN /\ result' = [err |-> e, words |-> <<>>, want |-> None]
        /\ want' = IF e = OK THEN want ELSE Nothing
        /\ owed' = IF e = OK THEN owed ELSE 0
  /\ pend' = None /\ pend_err' = OK
  /\ rxb' = [rxb EXCEPT ![pend.buf] = <<>>]
  /\ UNCHANGED <<link, call, sent, rx_cur, retired, pipelined, defer, faults, deaf>>

\* gh_set_pipelined(), gh_set_width(), gh_rate_changed(): gh_sync(), and what it
\* returns is not looked at.
SetMode(on) ==
  /\ call = None
  /\ MidStream \/ (pend = None /\ pend_err = OK)
  /\ pipelined' = on
  /\ pend' = None /\ pend_err' = OK
  /\ rxb' = [i \in {0, 1} |-> <<>>]
  /\ result' = [err |-> OK, words |-> <<>>, want |-> None]
  /\ UNCHANGED <<link, call, sent, rx_cur, retired, defer, faults, ghosts>>

\* gh_decode_defer(), on core 1 and at any time, a transaction or not.
DecodeDefer ==
  LET e == Decode(defer.cap, Drain)
  IN /\ defer.armed
     /\ defer' = Unarmed
     /\ result' = [err |-> e,
                   words |-> IF e = OK THEN Delivered(defer.cap, Drain) ELSE <<>>,
                   want |-> defer.want]
     /\ UNCHANGED <<link, call, sent, rxb, rx_cur, retired, pipelined, pend, pend_err,
                    faults, ghosts>>

Caller ==
  \/ \E c \in Calls : \E p \in PayloadsOf(c) : Begin("plain", c, p)
  \/ "defer" \in More /\ (Begin("deferred", DRAIN, <<>>) \/ Refused)
  \/ "sync" \in More /\ Sync
  \/ "mode" \in More /\ \E on \in BOOLEAN : SetMode(on)

Next == Caller \/ Slot \/ RetirePrevious \/ Finish \/ Stall \/ DecodeDefer

Spec == Init /\ [][Next]_vars

-----------------------------------------------------------------------------
\* A block whose drain returned OK is the block asked for, if nothing it was built
\* from has been reported as failed since: no fault of the wire, alone or with a
\* response that answers the wrong call, gives wrong accumulators and no error.
NoSilentCorruption ==
  result.err = OK /\ result.words # <<>> /\ result.want # None
    => result.words = <<Word(result.want)>>

\* gemm_host.h of gh_sync(): "A deferred failure is reported at most one
\* transaction late; it is never lost."
AtMostOneLate == owed < 2

\* A link that missed a header, or was given too long a sweep, takes what follows as
\* payload or as clocks, and hunts again: nothing the wire does leaves it deaf for
\* good.  A payload with a SYNC in it may be taken for a frame of its own, so deaf is
\* counted again from there.  Two transactions are the bound of the lengths and sweeps
\* a byte can name here; gemm_link.v bounds them by R_CHK's lengths and the width of
\* cfg_K.
HearsAgain == deaf <= 2

TypeOK ==
  /\ LinkTypeOK
  /\ call \in CallType \cup {None} /\ pend \in CallType \cup {None}
  /\ rx_cur \in {0, 1} /\ retired \in BOOLEAN /\ pipelined \in BOOLEAN
  /\ pend # None /\ call # None /\ call.kind = "plain" => pend.buf # call.buf
  /\ pend_err \in Errors \cup {OK} /\ result.err \in Errors \cup {OK}
  /\ defer.armed \in BOOLEAN
  /\ faults \in 0 .. MaxFaults /\ owed \in 0 .. 2

=============================================================================
