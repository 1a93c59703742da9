---------------------------- MODULE DriverProofs ----------------------------
(***************************************************************************)
(* Theorems about GemmHost over GemmLink, for every payload, every set of  *)
(* calls and every MaxPass and MaxAge, and about TxStage, for every buffer *)
(* and every length.                                                       *)
(*                                                                         *)
(* The argument is in layers, each inductive with the ones before it:      *)
(*   LinkInv   the receiver: what it counts is bounded, and a response     *)
(*             being sent says of the tile what is so;                     *)
(*   HostInv   the driver's bookkeeping of calls, buffers and descriptors; *)
(*   OwedOK    a failure not yet reported is still there to be found;      *)
(*   InStep    until the first fault the receiver is where the frame is;   *)
(*   Trusted   after it, whatever the receiver took the frame for, either  *)
(*             the tile holds what the caller wants or the response it     *)
(*             captures will not decode;                                   *)
(*   DeafOK    and what keeps it from hunting is bounded, slot by slot.    *)
(***************************************************************************)
EXTENDS GemmHost, TxStage, SequenceTheorems, WellFoundedInduction, TLAPS

-----------------------------------------------------------------------------
\* The link.

\* The passes an accumulator may hold.
Passes == Seq(Mem \X Byte)

\* A sequence, of whatever is in it.
IsSeq(s) == s \in Seq({s[i] : i \in DOMAIN s})

\* If t is a CRC over a status, an echo and a word, the word is a.
WordIs(t, a) == t[1] = "txcrc" /\ Len(t[2]) = 3 => t[2][3] = Word(a)

\* What a response says of the tile is so for as long as it is being sent.
ResponseOK ==
  /\ IsSeq(resp) /\ Len(resp) \in {4, 5} /\ (Len(resp) = 5 => cmd = DRAIN)
  /\ resp[1] = Pre /\ \A i \in 2 .. Len(resp) : resp[i] # Pre
  /\ resp[2][1] = "status" /\ resp[2][2] = cmd
  /\ resp[3] = RxCrc(resp[3][2])
  /\ \A i \in 1 .. Len(resp) : WordIs(resp[i], acc)
  /\ cmd = WGT /\ Len(resp[3][2]) = WGTMAX => \A j \in 1 .. WGTMAX : mem[j] = resp[3][2][j]
  /\ cmd = CFG => cfg_K = resp[3][2][1]

\* A payload being taken: the lengths R_CHK lets through, and what is in the memory already.
PayloadOK ==
  /\ rem >= 1 /\ Len(got) + rem <= WGTMAX
  /\ cmd \in {CFG, WGT, RUN} /\ (cmd # WGT => Len(got) + rem = 1)
  /\ cmd = WGT => \A j \in 1 .. Len(got) : mem[j] = got[j]

\* The receiver between two slots.
LinkInv ==
  /\ LinkTypeOK
  /\ acc \in Passes \cup {TooMany}
  /\ out \in Nat
  /\ rstate = "PAY" => PayloadOK
  /\ rstate \in {"WAIT", "TX"} => ResponseOK /\ out < Len(resp)
  /\ rstate # "TX" => out = 0
  /\ busy = 0 <=> rstate # "WAIT"

-----------------------------------------------------------------------------
\* The driver's bookkeeping.

\* What a command is sent with.
WellFormed(c, p) ==
  /\ c = CFG => p = <<K>>
  /\ c = WGT => Len(p) \in 1 .. WGTMAX
  /\ c = RUN => p \in {<< 0 >>, << 1 >>}
  /\ c \in {DRAIN, NOP} => p = <<>>

\* Where the response of the call under way is captured.
Cap == IF call.kind = "deferred" THEN defer.cap ELSE rxb[call.buf]

\* Between calls: the next buffer is empty, and the other one holds the response still to be
\* decoded, if there is one.
IdleOK ==
  /\ sent = 0 /\ retired = FALSE
  /\ rxb[rx_cur] = <<>>
  /\ IF pend = None THEN rxb[1 - rx_cur] = <<>> ELSE pend.buf = 1 - rx_cur

\* In a call: what is captured is as long as what was sent, and the response of the call before
\* is not where this one goes.
CallOK ==
  /\ call \in CallType /\ WellFormed(call.cmd, call.pay)
  /\ call.cmd = RUN /\ call.pay = << 0 >> => want.acc # None /\ Len(want.acc) < MaxPass
  /\ sent \in 0 .. FrameLen(call.cmd, call.pay)
  /\ Len(Cap) = sent
  /\ retired => pend = None
  /\ pend = None => rxb[rx_cur] = <<>>
  /\ call.kind = "plain" =>
       /\ call.buf = 1 - rx_cur
       /\ pend # None => pend.buf = rx_cur /\ Defers(call.kind, call.cmd)
  /\ call.kind = "deferred" =>
       /\ call.cmd = DRAIN /\ ~defer.armed /\ pend = None
       /\ rxb[1 - rx_cur] = <<>>

\* The driver between two steps.
HostInv ==
  /\ call # None => CallOK
  /\ call = None => IdleOK
  /\ pend # None => pend \in CallType
  /\ rx_cur \in {0, 1} /\ retired \in BOOLEAN /\ pipelined \in BOOLEAN
  /\ rxb = [i \in {0, 1} |-> rxb[i]] /\ \A i \in {0, 1} : IsSeq(rxb[i])
  /\ defer = [armed |-> defer.armed, cap |-> defer.cap, want |-> defer.want, age |-> defer.age]
  /\ defer.armed \in BOOLEAN /\ defer.age \in Nat /\ IsSeq(defer.cap)
  /\ ~defer.armed /\ (call = None \/ call.kind = "plain") => defer.cap = <<>>
  /\ pend_err \in Errors \cup {OK} /\ result.err \in Errors \cup {OK}
  /\ want \in [mem : Mem \cup {None}, K : {K, None}, acc : Passes \cup {None}]
  /\ faults \in 0 .. MaxFaults

-----------------------------------------------------------------------------

\* The lengths of the call under way, and the slots a sweep and a response have to go.
PayLen == Len(call.pay)
Length0 == FrameLen(call.cmd, call.pay)
Left == IF rstate \in {"WAIT", "TX"} THEN busy + Len(resp) - out ELSE 0

\* The link is taking this frame.
Receiving ==
  \/ sent = 0 /\ rstate = "HUNT"
  \/ sent = 1 /\ rstate = "CMD"
  \/ sent = 2 /\ rstate = "LEN" /\ cmd = call.cmd
  \/ /\ sent \in 3 .. (2 + PayLen) /\ rstate = "PAY" /\ cmd = call.cmd
     /\ Len(got) = sent - 3 /\ rem = PayLen - Len(got)
     /\ \A j \in 1 .. Len(got) : got[j] = call.pay[j]

\* The link has taken this frame, and its response fits in what is left.
Answers == rstate \in {"WAIT", "TX"} /\ sent + Left <= Length0

\* Until the first fault the receiver is where the frame is, and hunts between frames.
InStep ==
  /\ faults = 0 => cfg_K <= K
  /\ faults = 0 /\ call = None => rstate = "HUNT"
  /\ faults = 0 /\ call # None =>
       Receiving \/ (sent >= 3 + PayLen /\ (rstate = "HUNT" \/ Answers))

-----------------------------------------------------------------------------

\* The tile is as w says, but for the first k bytes of its memory.
MatchesFrom(w, k) ==
  /\ w.mem # None => \A j \in 1 .. WGTMAX : j > k => mem[j] = w.mem[j]
  /\ w.K # None => cfg_K = w.K
  /\ w.acc # None => acc = w.acc
Matches(w) == MatchesFrom(w, 0)

\* The receiver has nothing of a frame but a part of its header.
Between == {"HUNT", "CMD", "LEN"}

\* What the caller may rely on after this call; and no failure is waiting to be reported.
After == WantAfter(call.cmd, call.pay)
Clear == pend_err = OK /\ (pend # None => Decode(rxb[pend.buf], pend) = OK)

\* What is captured: no preamble; the first one; an echo of this call; and an answer that is not
\* this call's, which gw_decode_n() refuses whatever else is captured.
NoPre == Preambles(Cap) = {}
First(cap, o) == o \in DOMAIN cap /\ cap[o] = Pre /\ \A i \in 1 .. (o - 1) : cap[i] # Pre
Echo == cmd = call.cmd /\ resp[3][2] = call.pay
Bad(cap) ==
  \E o \in 1 .. (Len(cap) - 2) :
    /\ First(cap, o)
    /\ cap[o + 1][1] # "status" \/ cap[o + 1][2] # call.cmd \/ cap[o + 2] # RxCrc(call.pay)

\* The receiver is taking this payload, if not from its first byte.
Prefix ==
  /\ cmd = call.cmd /\ Len(got) + rem = PayLen
  /\ \A j \in 1 .. Len(got) : got[j] = call.pay[j]

\* The fault lost the frame and no preamble has been captured.  What the receiver may still be
\* taking is not this frame, or is this frame and the tile is as it should be.
Lost ==
  /\ NoPre
  /\ \/ want = Nothing
     \/ rstate = "HUNT" /\ sent >= 1
     \/ rstate = "CMD" /\ (sent = 0 \/ sent >= 4)
     \/ rstate = "LEN" /\ (sent = 0 \/ cmd = SYNC \/ sent >= 5 \/ (sent = 2 /\ cmd # call.cmd))
     \/ rstate = "PAY" /\ ~Prefix
     \/ (rstate = "WAIT" \/ (rstate = "TX" /\ out = 0)) /\ (Echo => Matches(After))

\* The receiver is answering, and the answer is true: if it echoes this call, the tile is as it
\* should be.
Answering ==
  /\ rstate = "TX" /\ out >= 1 /\ out <= sent
  /\ First(Cap, sent - out + 1)
  /\ out >= 2 => Cap[sent - out + 2] = resp[2]
  /\ out >= 3 => Cap[sent - out + 3] = resp[3]
  /\ Echo => Matches(After)

\* It answered, and the tile is as it should be.
Answered ==
  /\ sent >= 4 /\ Matches(After)
  /\ \/ rstate = "HUNT"
     \/ rstate = "CMD" /\ sent >= 5
     \/ rstate = "LEN" /\ cmd = 0

\* The frame was taken, damaged or not.
Taken ==
  /\ sent >= 3 + PayLen /\ Matches(After)
  /\ \/ rstate = "HUNT" \/ Answers
     \/ faults = 1 /\ (rstate = "CMD" \/ (rstate = "LEN" /\ cmd = 0))

\* How much of the call's payload is in the memory already.
Written == IF rstate = "PAY" /\ cmd = WGT THEN Len(got) ELSE 0

\* A call that writes the tile, and one that does not.
PayloadCall ==
  \/ Receiving /\ NoPre /\ MatchesFrom(want, Written)
  \/ Taken
  \/ faults = 1 /\ (Lost \/ Answering \/ Bad(Cap) \/ Answered)

BareCall ==
  /\ Matches(want)
  /\ \/ rstate = "HUNT"
     \/ rstate = "CMD" /\ (sent = 1 \/ (faults = 1 /\ (sent = 0 \/ sent >= 4)))
     \/ rstate = "LEN" /\ (sent = 2 \/ (faults = 1 /\ (sent = 0 \/ cmd \in {0, SYNC})))
     \/ rstate = "TX" /\ Answers
  /\ want.acc # None => \A i \in 1 .. Len(Cap) : WordIs(Cap[i], want.acc)

\* If the caller relies on anything and no failure waits to be reported, it is so, or this call
\* will report that it is not.
Trusted ==
  /\ Clear /\ call = None /\ want # Nothing => rstate \in Between /\ Matches(want)
  /\ Clear /\ call # None /\ After # Nothing =>
       IF call.pay = <<>> THEN BareCall ELSE PayloadCall

\* What a drain left to core 1 will deliver is what it was asked for.
DeferOK ==
  defer.armed /\ defer.want # None /\ Decode(defer.cap, Drain) = OK
    => Delivered(defer.cap, Drain) = <<Word(defer.want)>>

\* A failure not yet reported is found by the next call.
OwedOK == owed \in {0, 1} /\ (owed = 1 => ~Clear)

-----------------------------------------------------------------------------

\* A deaf link counts its slots out: Bound is how many it has, of this call's frame on, by how
\* often in a row a call has found it deaf.
Bound == IF deaf = 1 THEN 12 ELSE 4
ToGo ==
  CASE rstate = "PAY" -> rem + (IF cmd = RUN THEN cfg_K + 1 ELSE 0) + 4
    [] OTHER -> Left
Fading ==
  \/ rstate = "HUNT" /\ sent >= 1
  \/ rstate = "CMD" /\ sent = 0
  \/ rstate = "LEN" /\ (sent = 0 \/ (cmd = SYNC /\ sent = 1))
  \/ rstate \in {"PAY", "WAIT", "TX"} /\ ToGo + sent <= Bound

\* The payload may be taken for a frame of its own.
HasSync == \E i \in 1 .. PayLen : call.pay[i] = SYNC

\* The bound holds while the link is deaf, and it takes a fault to make it so.
DeafOK ==
  /\ deaf \in 0 .. 2
  /\ deaf > 0 => faults = 1
  /\ call = None => (deaf = 0 <=> rstate = "HUNT")
  /\ call = None /\ deaf = 2 => Fading
  /\ call # None /\ deaf > 0 /\ ~HasSync => Fading

-----------------------------------------------------------------------------
\* Sequences and tokens.

\* Something appended to a sequence.
LEMMA AppendIs ==
  ASSUME NEW s, IsSeq(s), NEW t
  PROVE  /\ IsSeq(Append(s, t)) /\ Len(s) \in Nat /\ Len(Append(s, t)) = Len(s) + 1
         /\ DOMAIN s = 1 .. Len(s) /\ DOMAIN Append(s, t) = 1 .. (Len(s) + 1)
         /\ \A i \in 1 .. Len(s) : Append(s, t)[i] = s[i]
         /\ Append(s, t)[Len(s) + 1] = t
<1> DEFINE S == {s[i] : i \in DOMAIN s} \cup {t}
           u == Append(s, t)
           U == {u[i] : i \in DOMAIN u}
<1>1. s \in Seq(S)
  <2>1. s \in Seq({s[i] : i \in DOMAIN s})
    BY DEF IsSeq
  <2> HIDE DEF S
  <2>2. {s[i] : i \in DOMAIN s} \subseteq S
    BY DEF S
  <2> QED BY <2>1, <2>2, SeqMonotonic
<1>2. t \in S
  OBVIOUS
<1> HIDE DEF S
<1>3. Len(s) \in Nat /\ DOMAIN s = 1 .. Len(s)
  BY <1>1, LenProperties
<1>4. /\ u \in Seq(S) /\ Len(u) = Len(s) + 1
      /\ \A i \in 1 .. Len(s) : u[i] = s[i]
      /\ u[Len(s) + 1] = t
  BY <1>1, <1>2, AppendProperties
<1>5. DOMAIN u = 1 .. (Len(s) + 1)
  BY <1>4, LenProperties
<1>6. u \in Seq(U)
  <2>1. u = [i \in 1 .. Len(u) |-> u[i]]
    BY <1>4, LenProperties
  <2>2. \A i \in 1 .. Len(u) : u[i] \in U
    BY <1>5, <1>4
  <2>3. Len(u) \in Nat
    BY <1>4, <1>3
  <2> HIDE DEF u, U
  <2>4. [i \in 1 .. Len(u) |-> u[i]] \in Seq(U)
    BY <2>2, <2>3, IsASeq
  <2> QED BY <2>1, <2>4
<1> QED BY <1>3, <1>4, <1>5, <1>6 DEF IsSeq

\* The empty capture.
LEMMA EmptyIs == IsSeq(<<>>) /\ Len(<<>>) = 0 /\ DOMAIN <<>> = {}
<1>1. <<>> \in Seq({<<>>[i] : i \in DOMAIN <<>>}) /\ Len(<<>>) = 0
  BY EmptySeq
<1> QED BY <1>1 DEF IsSeq

\* What a response is made of, and which of its tokens are which.
LEMMA Tokens ==
  /\ Low # Pre /\ Junk # Pre /\ Low[1] = "low" /\ Pre[1] = "preamble" /\ Junk[1] = "junk"
  /\ \A c, b, x, u : /\ Status(c, b, x, u) # Pre /\ Status(c, b, x, u)[1] = "status"
                     /\ Status(c, b, x, u)[2] = c
  /\ \A p : RxCrc(p) # Pre /\ RxCrc(p) # Low /\ RxCrc(p)[1] = "rxcrc" /\ RxCrc(p)[2] = p
  /\ \A a : Word(a) # Pre /\ Word(a)[1] = "word" /\ Word(a)[2] = a
  /\ \A s : TxCrc(s) # Pre /\ TxCrc(s) # Low /\ TxCrc(s)[1] = "txcrc" /\ TxCrc(s)[2] = s
  BY DEF Low, Pre, Junk, Status, RxCrc, Word, TxCrc

\* Two sequences, one after the other.
LEMMA ConcatIs ==
  ASSUME NEW s, IsSeq(s), NEW t, IsSeq(t)
  PROVE  /\ IsSeq(s \o t) /\ Len(s) \in Nat /\ Len(t) \in Nat /\ Len(s \o t) = Len(s) + Len(t)
         /\ \A i \in 1 .. Len(s) : (s \o t)[i] = s[i]
         /\ \A i \in 1 .. Len(t) : (s \o t)[Len(s) + i] = t[i]
<1> DEFINE A == {s[i] : i \in DOMAIN s}
           B == {t[i] : i \in DOMAIN t}
           S == A \cup B
           u == s \o t
           U == {u[i] : i \in DOMAIN u}
<1>1. s \in Seq(S) /\ t \in Seq(S)
  <2>1. s \in Seq(A) /\ t \in Seq(B)
    BY DEF IsSeq
  <2>2. A \subseteq S /\ B \subseteq S
    OBVIOUS
  <2> HIDE DEF A, B, S
  <2> QED BY <2>1, <2>2, SeqMonotonic
<1> HIDE DEF S
<1>2. Len(s) \in Nat /\ Len(t) \in Nat
  BY <1>1, LenProperties
<1>3. /\ u \in Seq(S) /\ Len(u) = Len(s) + Len(t)
      /\ \A i \in 1 .. Len(s) + Len(t) : u[i] = IF i <= Len(s) THEN s[i] ELSE t[i - Len(s)]
  BY <1>1, ConcatProperties
<1>4. u \in Seq(U)
  <2>1. u = [i \in 1 .. Len(u) |-> u[i]] /\ DOMAIN u = 1 .. Len(u)
    BY <1>3, LenProperties
  <2>2. \A i \in 1 .. Len(u) : u[i] \in U
    BY <2>1
  <2>3. Len(u) \in Nat
    BY <1>2, <1>3
  <2> HIDE DEF u, U
  <2>4. [i \in 1 .. Len(u) |-> u[i]] \in Seq(U)
    BY <2>2, <2>3, IsASeq
  <2> QED BY <2>1, <2>4
<1>5. /\ \A i \in 1 .. Len(s) : u[i] = s[i]
      /\ \A i \in 1 .. Len(t) : u[Len(s) + i] = t[i]
  <2> HIDE DEF u
  <2> QED BY <1>2, <1>3
<1> QED BY <1>2, <1>3, <1>4, <1>5 DEF IsSeq

\* The sequences of one and of two elements.
LEMMA ShortIs ==
  /\ \A x : IsSeq(<<x>>) /\ Len(<<x>>) = 1 /\ <<x>>[1] = x
  /\ \A x, y : IsSeq(<<x, y>>) /\ Len(<<x, y>>) = 2 /\ <<x, y>>[1] = x /\ <<x, y>>[2] = y
<1>1. ASSUME NEW x PROVE IsSeq(<<x>>)
  <2>1. <<x>> \in Seq({x}) /\ {<<x>>[i] : i \in DOMAIN <<x>>} = {x}
    OBVIOUS
  <2> QED BY <2>1 DEF IsSeq
<1>2. ASSUME NEW x, NEW y PROVE IsSeq(<<x, y>>)
  <2>1. <<x, y>> \in Seq({x, y}) /\ {<<x, y>>[i] : i \in DOMAIN <<x, y>>} = {x, y}
    OBVIOUS
  <2> QED BY <2>1 DEF IsSeq
<1> QED BY <1>1, <1>2

\* The tokens of a response, without a word and with one.
LEMMA Framing ==
  ASSUME NEW s, NEW r, NEW words, IsSeq(words), Len(words) \in {0, 1}
  PROVE  LET body == <<s, r>> \o words
         IN /\ Len(body) = 2 + Len(words) /\ (Len(words) = 1 => body[3] = words[1])
            /\ IsSeq(Framed(body)) /\ Len(Framed(body)) = 4 + Len(words)
            /\ Framed(body)[1] = Pre /\ Framed(body)[2] = s /\ Framed(body)[3] = r
            /\ Len(words) = 1 => Framed(body)[4] = words[1]
            /\ Framed(body)[Len(Framed(body))] = TxCrc(body)
<1> DEFINE body == <<s, r>> \o words
           h == <<Pre>> \o body
           last == <<TxCrc(body)>>
           f == h \o last
<1>1. /\ IsSeq(<<s, r>>) /\ Len(<<s, r>>) = 2 /\ <<s, r>>[1] = s /\ <<s, r>>[2] = r
      /\ IsSeq(<<Pre>>) /\ Len(<<Pre>>) = 1 /\ <<Pre>>[1] = Pre
      /\ IsSeq(last) /\ Len(last) = 1 /\ last[1] = TxCrc(body)
  BY ShortIs
<1>2. /\ IsSeq(body) /\ Len(body) = 2 + Len(words) /\ body[1] = s /\ body[2] = r
      /\ Len(words) = 1 => body[3] = words[1]
  BY <1>1, ConcatIs
<1> HIDE DEF body, last
<1>3. /\ IsSeq(h) /\ Len(h) = 3 + Len(words) /\ h[1] = Pre /\ h[2] = s /\ h[3] = r
      /\ Len(words) = 1 => h[4] = words[1]
  <2>1. IsSeq(h) /\ Len(h) = 1 + Len(body) /\ h[1] = Pre
    BY <1>1, <1>2, ConcatIs
  <2>2. \A i \in 1 .. Len(body) : h[1 + i] = body[i]
    <3>1. \A i \in 1 .. Len(body) : h[Len(<<Pre>>) + i] = body[i]
      BY <1>1, <1>2, ConcatIs
    <3> QED BY <3>1, <1>1, Zenon
  <2>3. h[1 + 1] = body[1] /\ h[1 + 2] = body[2]
    BY <1>2, <2>2
  <2>4. Len(words) = 1 => h[1 + 3] = body[3]
    BY <1>2, <2>2
  <2> QED BY <1>2, <2>1, <2>3, <2>4
<1> HIDE DEF h
<1>4. /\ IsSeq(f) /\ Len(f) = 4 + Len(words) /\ f[1] = Pre /\ f[2] = s /\ f[3] = r
      /\ Len(words) = 1 => f[4] = words[1]
      /\ f[Len(f)] = TxCrc(body)
  <2>0. IsSeq(h) /\ IsSeq(last)
    BY <1>1, <1>3
  <2>c. /\ IsSeq(f) /\ Len(f) = Len(h) + Len(last)
        /\ \A i \in 1 .. Len(h) : f[i] = h[i]
        /\ \A i \in 1 .. Len(last) : f[Len(h) + i] = last[i]
    BY <2>0, ConcatIs
  <2>1. IsSeq(f) /\ Len(f) = Len(h) + 1 /\ \A i \in 1 .. Len(h) : f[i] = h[i]
    BY <2>c, <1>1, Zenon
  <2>2. \A i \in 1 .. 1 : f[Len(h) + i] = last[i]
    BY <2>c, <1>1, Zenon
  <2>3. f[Len(h) + 1] = TxCrc(body)
    BY <2>2, <1>1
  <2>4. 1 \in 1 .. Len(h) /\ 2 \in 1 .. Len(h) /\ 3 \in 1 .. Len(h)
    BY <1>3
  <2>5. f[1] = h[1] /\ f[2] = h[2] /\ f[3] = h[3]
    BY <2>1, <2>4
  <2>6. Len(words) = 1 => f[4] = h[4]
    BY <1>3, <2>1
  <2> QED BY <1>3, <2>1, <2>3, <2>5, <2>6
<1>5. f = Framed(body)
  BY DEF Framed, h, last
<1> QED BY <1>2, <1>4, <1>5 DEF body

-----------------------------------------------------------------------------
\* The link, one slot at a time.

\* The bytes, the commands and the constants as members.
LEMMA Bytes ==
  /\ Byte = 0 .. 6 /\ Commands = 1 .. 5 /\ WGTMAX = 2 /\ SYNC = 6 /\ K = 1 /\ SLACK = 1
  /\ CFG = 1 /\ WGT = 2 /\ RUN = 3 /\ DRAIN = 4 /\ NOP = 5
  BY DEF Byte, Commands, WGTMAX, SYNC, K, SLACK, CFG, WGT, RUN, DRAIN, NOP

\* None is none of the values it stands in for.
LEMMA NoneIsNot ==
  /\ None \notin Byte /\ None \notin Mem /\ None \notin Passes /\ None \notin CallType
  BY NoneAssumption, Zenon DEF Passes

\* What the execution of a command leaves: its response, which is true.
LEMMA ExecIs ==
  ASSUME LinkInv, NEW p \in Seq(Byte), NEW m \in Mem, NEW late \in BOOLEAN,
         Exec(p, m, late), cmd \in Commands, LengthOk(cmd, Len(p)),
         cmd = WGT => \A j \in 1 .. Len(p) : m[j] = p[j]
  PROVE  /\ ResponseOK' /\ out' = 0 /\ resp'[3][2] = p /\ Len(resp') \in {4, 5}
         /\ Len(resp') = 5 => cmd = DRAIN /\ ~late
         /\ cmd' = cmd /\ mem' = m /\ cfg_K' = IF cmd = CFG THEN p[1] ELSE cfg_K
         /\ cmd # RUN => rstate' = "TX" /\ busy' = busy /\ acc' = acc
         /\ cmd = RUN => rstate' = "WAIT" /\ busy' = cfg_K + 1
<1> DEFINE words == IF cmd = DRAIN /\ ~late THEN <<Word(acc)>> ELSE <<>>
           s == Status(cmd, FALSE, bad_frame, underrun)
           r == RxCrc(p)
           body == <<s, r>> \o words
<1>1. /\ out' = 0 /\ cmd' = cmd /\ mem' = m /\ cfg_K' = IF cmd = CFG THEN p[1] ELSE cfg_K
      /\ cmd # RUN => rstate' = "TX" /\ busy' = busy /\ acc' = acc
      /\ cmd = RUN => rstate' = "WAIT" /\ busy' = cfg_K + 1
  BY Zenon DEF Exec
<1>2. resp' = Framed(body)
  BY Zenon DEF Exec, Response
<1>3. IsSeq(words) /\ Len(words) = (IF cmd = DRAIN /\ ~late THEN 1 ELSE 0)
  <2>1. CASE cmd = DRAIN /\ ~late
    BY <2>1, ShortIs
  <2>2. CASE ~(cmd = DRAIN /\ ~late)
    BY <2>2, EmptyIs
  <2> QED BY <2>1, <2>2
<1>4. Len(words) = 1 => cmd = DRAIN /\ ~late /\ words[1] = Word(acc)
  BY <1>3
<1> HIDE DEF words
<1>5. Len(words) \in {0, 1}
  BY <1>3
<1>f. /\ Len(body) = 2 + Len(words) /\ (Len(words) = 1 => body[3] = words[1])
      /\ IsSeq(Framed(body)) /\ Len(Framed(body)) = 4 + Len(words)
      /\ Framed(body)[1] = Pre /\ Framed(body)[2] = s /\ Framed(body)[3] = r
      /\ Len(words) = 1 => Framed(body)[4] = words[1]
      /\ Framed(body)[Len(Framed(body))] = TxCrc(body)
  <2> HIDE DEF s, r
  <2>1. IsSeq(words)
    BY <1>3
  <2> QED BY <2>1, <1>5, Framing
<1>6. /\ Len(body) = 2 + Len(words) /\ (Len(words) = 1 => body[3] = words[1])
      /\ IsSeq(resp') /\ Len(resp') = 4 + Len(words)
      /\ resp'[1] = Pre /\ resp'[2] = s /\ resp'[3] = r
      /\ Len(words) = 1 => resp'[4] = words[1]
      /\ resp'[Len(resp')] = TxCrc(body)
  BY <1>2, <1>f, Zenon
<1> HIDE DEF body
<1>7. Len(resp') \in {4, 5} /\ (Len(resp') = 5 => cmd = DRAIN /\ ~late)
  BY <1>3, <1>6
<1>8. /\ s # Pre /\ s[1] = "status" /\ s[2] = cmd
      /\ r # Pre /\ r[1] = "rxcrc" /\ r[2] = p
      /\ TxCrc(body) # Pre /\ TxCrc(body)[1] = "txcrc" /\ TxCrc(body)[2] = body
      /\ Pre[1] = "preamble" /\ Word(acc) # Pre /\ Word(acc)[1] = "word"
  <2> HIDE DEF body
  <2>1. /\ s # Pre /\ s[1] = "status" /\ s[2] = cmd
    BY DEF Status, Pre
  <2>2. /\ r # Pre /\ r[1] = "rxcrc" /\ r[2] = p
    BY Tokens, Zenon
  <2>3. /\ TxCrc(body) # Pre /\ TxCrc(body)[1] = "txcrc" /\ TxCrc(body)[2] = body
    BY Tokens, Zenon
  <2>4. /\ Pre[1] = "preamble" /\ Word(acc) # Pre /\ Word(acc)[1] = "word"
    BY Tokens, Zenon
  <2> QED BY <2>1, <2>2, <2>3, <2>4, Zenon
<1> HIDE DEF s, r
<1>9. r = RxCrc(p)
  BY DEF r
<1>10. \A i \in 2 .. Len(resp') : resp'[i] # Pre
  <2>1. CASE Len(words) = 0
    BY <2>1, <1>6, <1>8
  <2>2. CASE Len(words) = 1
    BY <2>2, <1>4, <1>6, <1>8
  <2> QED BY <2>1, <2>2, <1>5
<1>11. \A i \in 1 .. Len(resp') : WordIs(resp'[i], acc')
  <2>1. CASE Len(words) = 0
    BY <2>1, <1>6, <1>8 DEF WordIs
  <2>2. CASE Len(words) = 1
    <3>1. acc' = acc
      BY <2>2, <1>4, <1>1 DEF DRAIN, RUN
    <3>2. body[3] = Word(acc)
      BY <2>2, <1>4, <1>6
    <3>3. Len(resp') = 5 /\ resp'[4] = Word(acc) /\ resp'[5] = TxCrc(body)
      BY <2>2, <1>4, <1>6
    <3>4. /\ WordIs(resp'[1], acc) /\ WordIs(resp'[2], acc) /\ WordIs(resp'[3], acc)
          /\ WordIs(resp'[4], acc)
      BY <3>3, <1>6, <1>8 DEF WordIs
    <3>5. WordIs(resp'[5], acc)
      BY <3>3, <3>2, <1>8 DEF WordIs
    <3> QED BY <3>1, <3>3, <3>4, <3>5
  <2> QED BY <2>1, <2>2, <1>5
<1>12. resp'[3][2] = p /\ resp'[3] = RxCrc(resp'[3][2])
  BY <1>6, <1>8, <1>9
<1>13. cmd = WGT /\ Len(p) = WGTMAX => \A j \in 1 .. WGTMAX : mem'[j] = p[j]
  BY <1>1
<1>14. ResponseOK'
  BY <1>1, <1>6, <1>7, <1>8, <1>10, <1>11, <1>12, <1>13 DEF ResponseOK
<1> QED BY <1>1, <1>7, <1>12, <1>14

\* The three that only read a header's bytes.
LEMMA HuntKeeps ==
  ASSUME LinkInv, NEW b \in Byte, Hunt(b)
  PROVE  LinkInv'
<1>1. rstate' \in {"HUNT", "CMD"} /\ rstate = "HUNT"
  BY DEF Hunt
<1> QED BY <1>1 DEF LinkInv, LinkTypeOK, Hunt, PayloadOK, ResponseOK

\* A command byte keeps the receiver's invariant; and so each of its other steps.
LEMMA CommandKeeps ==
  ASSUME LinkInv, NEW b \in Byte, Command(b)
  PROVE  LinkInv'
<1>1. rstate' = "LEN" /\ rstate = "CMD"
  BY DEF Command
<1> QED BY <1>1 DEF LinkInv, LinkTypeOK, Command

\* After an execution.
LEMMA ExecKeeps ==
  ASSUME LinkInv, NEW p \in Seq(Byte), NEW m \in Mem, NEW late \in BOOLEAN,
         Exec(p, m, late), cmd \in Commands, LengthOk(cmd, Len(p)), busy = 0,
         cmd = WGT => \A j \in 1 .. Len(p) : m[j] = p[j]
  PROVE  LinkInv'
<1>1. /\ ResponseOK' /\ out' = 0 /\ resp'[3][2] = p /\ Len(resp') \in {4, 5}
      /\ cmd' = cmd /\ mem' = m /\ cfg_K' = (IF cmd = CFG THEN p[1] ELSE cfg_K)
      /\ cmd # RUN => rstate' = "TX" /\ busy' = busy /\ acc' = acc
      /\ cmd = RUN => rstate' = "WAIT" /\ busy' = cfg_K + 1
  BY ExecIs
<1>2. cmd = CFG \/ cmd = RUN => Len(p) = 1
  BY Bytes DEF LengthOk
<1>3. cmd = CFG \/ cmd = RUN => p[1] \in Byte
  BY <1>2, ElementOfSeq
<1>4. cfg_K' \in Byte /\ cfg_K \in Byte
  BY <1>1, <1>3 DEF LinkInv, LinkTypeOK
<1>5. acc' \in Passes \cup {TooMany}
  <2>1. CASE cmd # RUN
    BY <2>1, <1>1 DEF LinkInv
  <2>2. CASE cmd = RUN
    <3>1. <<m, cfg_K>> \in Mem \X Byte
      BY <1>4
    <3>2. acc' = IF p[1] % 2 = 1 THEN <<<<m, cfg_K>>>>
                 ELSE IF acc = TooMany \/ Len(acc) = MaxPass THEN TooMany
                 ELSE Append(acc, <<m, cfg_K>>)
      BY <2>2, Zenon DEF Exec
    <3>3. <<<<m, cfg_K>>>> \in Passes
      BY <3>1 DEF Passes
    <3>4. acc # TooMany => Append(acc, <<m, cfg_K>>) \in Passes
      <4>1. SUFFICES ASSUME acc \in Seq(Mem \X Byte)
                     PROVE  Append(acc, <<m, cfg_K>>) \in Seq(Mem \X Byte)
        BY DEF Passes, LinkInv
      <4> QED BY <4>1, <3>1, AppendProperties
    <3> QED BY <3>2, <3>3, <3>4
  <2> QED BY <2>1, <2>2
<1>6. bad_frame' \in BOOLEAN /\ underrun' \in BOOLEAN /\ rem' = 0 /\ got' = <<>>
  BY Zenon DEF Exec, LinkInv, LinkTypeOK
<1>7. cmd \in Byte /\ 0 \in 0 .. WGTMAX /\ <<>> \in Seq(Byte) /\ Len(<<>>) < WGTMAX
  BY EmptySeq, Bytes DEF LinkInv, LinkTypeOK
<1>8. busy' \in 0 .. SYNC + 1 /\ (busy' = 0 <=> rstate' # "WAIT")
  BY <1>1, <1>4, Bytes DEF LinkInv, LinkTypeOK
<1>9. rstate' \in {"WAIT", "TX"} /\ out' < Len(resp') /\ out' \in Nat
  BY <1>1
<1>10. LinkTypeOK'
  BY <1>1, <1>4, <1>6, <1>7, <1>8, <1>9 DEF LinkTypeOK
<1> QED BY <1>1, <1>5, <1>8, <1>9, <1>10 DEF LinkInv

\* The empty payload.
LEMMA EmptyPayload == <<>> \in Seq(Byte) /\ Len(<<>>) = 0
  BY EmptySeq

LEMMA LengthKeeps ==
  ASSUME LinkInv, NEW b \in Byte, NEW late \in BOOLEAN, Length(b, late)
  PROVE  LinkInv'
<1>1. rstate = "LEN" /\ busy = 0 /\ out = 0
  BY DEF Length, LinkInv
<1>2. CASE ~LengthOk(cmd, b) /\ rstate' = "HUNT" /\ bad_frame' = TRUE
           /\ UNCHANGED <<cmd, rem, got, underrun, resp, out, mem, cfg_K, busy, acc>>
  BY <1>1, <1>2 DEF LinkInv, LinkTypeOK
<1>3. CASE LengthOk(cmd, b) /\ b # 0 /\ rstate' = "PAY" /\ rem' = b /\ got' = <<>>
           /\ UNCHANGED <<cmd, bad_frame, underrun, resp, out, mem, cfg_K, busy, acc>>
  <2>1. b \in 1 .. WGTMAX /\ cmd \in {CFG, WGT, RUN} /\ (cmd # WGT => b = 1)
    BY <1>3, Bytes DEF LengthOk
  <2>2. PayloadOK'
    BY <1>3, <2>1, EmptyPayload, Bytes DEF PayloadOK
  <2>3. LinkTypeOK'
    BY <1>1, <1>3, <2>1, EmptyPayload, Bytes DEF LinkInv, LinkTypeOK
  <2> QED BY <1>1, <1>3, <2>2, <2>3 DEF LinkInv
<1>4. CASE LengthOk(cmd, b) /\ b = 0 /\ Exec(<<>>, mem, late)
  <2>1. cmd \in Commands /\ mem \in Mem
    BY <1>4, Bytes DEF LengthOk, LinkInv, LinkTypeOK
  <2>2. LengthOk(cmd, Len(<<>>)) /\ <<>> \in Seq(Byte)
    BY <1>4, EmptyPayload
  <2>3. \A j \in 1 .. Len(<<>>) : mem[j] = <<>>[j]
    BY EmptyPayload
  <2> QED BY <1>1, <1>4, <2>1, <2>2, <2>3, ExecKeeps
<1> QED BY <1>2, <1>3, <1>4, Zenon DEF Length

\* The payload with the byte b, and the memory it leaves.
LEMMA PayloadIs ==
  ASSUME LinkInv, rstate = "PAY", NEW b \in Byte
  PROVE  LET p == Append(got, b)
             m == IF cmd = WGT THEN [mem EXCEPT ![Len(p)] = b] ELSE mem
         IN /\ p \in Seq(Byte) /\ Len(got) \in Nat /\ Len(p) = Len(got) + 1 /\ Len(p) <= WGTMAX
            /\ \A j \in 1 .. Len(got) : p[j] = got[j]
            /\ p[Len(got) + 1] = b
            /\ m \in Mem
            /\ cmd # WGT => m = mem
            /\ cmd = WGT => \A j \in 1 .. Len(p) : m[j] = p[j]
            /\ \A j \in 1 .. WGTMAX : j > Len(p) => m[j] = mem[j]
            /\ cmd \in Commands /\ (rem = 1 => LengthOk(cmd, Len(p)))
<1> DEFINE p == Append(got, b)
           m == IF cmd = WGT THEN [mem EXCEPT ![Len(p)] = b] ELSE mem
<1>1. /\ got \in Seq(Byte) /\ rem \in 1 .. WGTMAX /\ mem \in Mem /\ PayloadOK
  BY Bytes DEF LinkInv, LinkTypeOK, PayloadOK
<1>2. /\ p \in Seq(Byte) /\ Len(p) = Len(got) + 1 /\ Len(got) \in Nat
      /\ \A j \in 1 .. Len(got) : p[j] = got[j]
      /\ p[Len(got) + 1] = b
  BY <1>1, AppendProperties, LenProperties
<1> HIDE DEF p
<1>3. Len(p) \in 1 .. WGTMAX
  BY <1>1, <1>2, Bytes DEF PayloadOK
<1>4. m \in Mem
  BY <1>1, <1>3 DEF Mem
<1>5. cmd = WGT => \A j \in 1 .. WGTMAX : m[j] = IF j = Len(p) THEN b ELSE mem[j]
  BY <1>1, <1>3 DEF Mem
<1>6. cmd # WGT => m = mem
  OBVIOUS
<1> HIDE DEF m
<1>7. cmd = WGT => \A j \in 1 .. Len(p) : m[j] = p[j]
  <2> SUFFICES ASSUME cmd = WGT, NEW j \in 1 .. Len(p)
               PROVE  m[j] = p[j]
    OBVIOUS
  <2>1. CASE j = Len(got) + 1
    BY <2>1, <1>2, <1>3, <1>5
  <2>2. CASE j # Len(got) + 1
    <3>1. j \in 1 .. Len(got) /\ j \in 1 .. WGTMAX /\ j # Len(p)
      BY <2>2, <1>2, <1>3, Bytes
    <3>2. mem[j] = got[j]
      BY <3>1, <1>1 DEF PayloadOK
    <3> QED BY <3>1, <3>2, <1>2, <1>5
  <2> QED BY <2>1, <2>2
<1>8. \A j \in 1 .. WGTMAX : j > Len(p) => m[j] = mem[j]
  <2>1. \A j \in 1 .. WGTMAX : j > Len(p) => j # Len(p)
    BY <1>3
  <2> QED BY <2>1, <1>5, <1>6
<1>9. cmd \in Commands /\ (rem = 1 => LengthOk(cmd, Len(p)))
  BY <1>1, <1>2, <1>3, Bytes DEF PayloadOK, LengthOk
<1> QED BY <1>2, <1>3, <1>4, <1>6, <1>7, <1>8, <1>9 DEF p, m

LEMMA PayloadKeeps ==
  ASSUME LinkInv, NEW b \in Byte, Payload(b)
  PROVE  LinkInv'
<1> DEFINE p == Append(got, b)
           m == IF cmd = WGT THEN [mem EXCEPT ![Len(p)] = b] ELSE mem
<1>1. rstate = "PAY" /\ busy = 0 /\ out = 0 /\ PayloadOK
  BY DEF Payload, LinkInv
<1>2. /\ p \in Seq(Byte) /\ Len(got) \in Nat /\ Len(p) = Len(got) + 1 /\ Len(p) <= WGTMAX
      /\ m \in Mem
      /\ cmd = WGT => \A j \in 1 .. Len(p) : m[j] = p[j]
      /\ cmd \in Commands /\ (rem = 1 => LengthOk(cmd, Len(p)))
  BY <1>1, PayloadIs
<1>3. IF rem = 1 THEN Exec(p, m, FALSE)
      ELSE /\ rem' = rem - 1 /\ got' = p /\ mem' = m
           /\ UNCHANGED <<rstate, cmd, bad_frame, underrun, resp, out, cfg_K, busy, acc>>
  BY Zenon DEF Payload
<1> HIDE DEF p, m
<1>4. CASE rem = 1
  BY <1>1, <1>2, <1>3, <1>4, ExecKeeps
<1>5. CASE rem # 1
  <2>1. PayloadOK'
    BY <1>1, <1>2, <1>3, <1>5, Bytes DEF PayloadOK, LinkInv, LinkTypeOK
  <2>2. LinkTypeOK'
    BY <1>1, <1>2, <1>3, <1>5, Bytes DEF PayloadOK, LinkInv, LinkTypeOK
  <2> QED BY <1>1, <1>3, <1>5, <2>1, <2>2 DEF LinkInv
<1> QED BY <1>4, <1>5

LEMMA SweepKeeps ==
  ASSUME LinkInv, Sweep
  PROVE  LinkInv'
<1>1. rstate = "WAIT" /\ busy' = busy - 1 /\ rstate' = (IF busy = 1 THEN "TX" ELSE "WAIT")
      /\ UNCHANGED <<cmd, rem, got, bad_frame, underrun, resp, out, mem, cfg_K, acc>>
  BY DEF Sweep
<1>2. busy \in 1 .. SYNC + 1 /\ out = 0 /\ ResponseOK
  BY <1>1, Bytes DEF LinkInv, LinkTypeOK
<1>3. ResponseOK'
  BY <1>1, <1>2 DEF ResponseOK, IsSeq, WordIs
<1>4. out < Len(resp)
  BY <1>1 DEF LinkInv
<1>5. LinkTypeOK' /\ (busy' = 0 <=> rstate' # "WAIT") /\ rstate' \in {"WAIT", "TX"}
  BY <1>1, <1>2, Bytes DEF LinkInv, LinkTypeOK
<1> QED BY <1>1, <1>2, <1>3, <1>4, <1>5 DEF LinkInv

LEMMA TransmitKeeps ==
  ASSUME LinkInv, Transmit
  PROVE  LinkInv'
<1>1. rstate = "TX" /\ UNCHANGED <<cmd, rem, got, bad_frame, underrun, mem, cfg_K, busy, acc>>
  BY DEF Transmit
<1>2. ResponseOK /\ out \in Nat /\ out < Len(resp) /\ busy = 0 /\ Len(resp) \in Nat
  BY <1>1 DEF LinkInv, ResponseOK
<1>3. CASE out + 1 = Len(resp)
  <2>1. rstate' = "HUNT" /\ out' = 0
    BY <1>3 DEF Transmit
  <2> QED BY <1>1, <1>2, <2>1 DEF LinkInv, LinkTypeOK
<1>4. CASE out + 1 # Len(resp)
  <2>1. out' = out + 1 /\ UNCHANGED <<rstate, resp>>
    BY <1>4 DEF Transmit
  <2>2. ResponseOK'
    BY <1>1, <1>2, <2>1 DEF ResponseOK, IsSeq, WordIs
  <2> QED BY <1>1, <1>2, <1>4, <2>1, <2>2 DEF LinkInv, LinkTypeOK
<1> QED BY <1>3, <1>4

LEMMA LinkStep ==
  ASSUME LinkInv, NEW b \in Byte, NEW late \in BOOLEAN, Clock(b, late)
  PROVE  LinkInv'
  BY HuntKeeps, CommandKeeps, LengthKeeps, PayloadKeeps, SweepKeeps, TransmitKeeps DEF Clock

\* A step that is not a slot leaves it as it is; and it holds of a link out of reset.
LEMMA LinkStutters ==
  ASSUME LinkInv, UNCHANGED link
  PROVE  LinkInv'
<1>1. UNCHANGED <<rstate, cmd, rem, got, bad_frame, underrun, resp, out, mem, cfg_K, busy, acc>>
  BY DEF link, rx
<1>2. LinkTypeOK' /\ (PayloadOK => PayloadOK') /\ (ResponseOK => ResponseOK')
  BY <1>1 DEF LinkInv, LinkTypeOK, PayloadOK, ResponseOK, IsSeq, WordIs
<1> QED BY <1>1, <1>2 DEF LinkInv

LEMMA LinkStarts == LinkInit => LinkInv
<1> SUFFICES ASSUME LinkInit
             PROVE  LinkInv
  OBVIOUS
<1>1. <<0, 0>> \in Mem
  BY Bytes DEF Mem
<1>2. <<>> \in Passes
  BY EmptySeq DEF Passes
<1>3. /\ rstate = "HUNT" /\ cmd = NOP /\ rem = 0 /\ got = <<>> /\ out = 0
      /\ bad_frame = FALSE /\ underrun = FALSE
      /\ mem = <<0, 0>> /\ cfg_K = 0 /\ busy = 0 /\ acc = <<>>
  BY Zenon DEF LinkInit
<1>4. LinkTypeOK
  <2>1. mem \in Mem
    BY <1>1, <1>3, Zenon
  <2>2. bad_frame \in BOOLEAN /\ underrun \in BOOLEAN
    BY <1>3, Zenon
  <2>3. got \in Seq(Byte) /\ Len(got) = 0
    BY <1>3, EmptyPayload, Zenon
  <2> QED BY <1>3, <2>1, <2>2, <2>3, Bytes DEF LinkTypeOK
<1> QED BY <1>2, <1>3, <1>4 DEF LinkInv

-----------------------------------------------------------------------------
\* The driver's bookkeeping: calls, frames and captures.

\* What the caller may want of the tile.
WantType == [mem : Mem \cup {None}, K : {K, None}, acc : Passes \cup {None}]

\* A well-formed call's payload.
LEMMA PayloadOf ==
  ASSUME NEW c \in Commands, NEW p \in Seq(Byte), WellFormed(c, p)
  PROVE  /\ Len(p) \in 0 .. WGTMAX /\ \A i \in 1 .. Len(p) : p[i] \in Byte
         /\ c \in {CFG, RUN} => Len(p) = 1 /\ p[1] \in {0, 1}
         /\ c = CFG => p[1] = K
         /\ c \in {DRAIN, NOP} => p = <<>> /\ Len(p) = 0
         /\ c \in {CFG, WGT, RUN} => Len(p) >= 1 /\ p # <<>>
         /\ LengthOk(c, Len(p))
<1>1. c \in {CFG, WGT, RUN, DRAIN, NOP}
  BY DEF Commands
<1>2. \A i \in 1 .. Len(p) : p[i] \in Byte
  BY ElementOfSeq
<1>3. Len(<<>>) = 0
  BY EmptySeq
<1>4. CASE c = CFG
  <2>1. p = <<K>> /\ Len(<<K>>) = 1 /\ <<K>>[1] = K
    BY <1>4, ShortIs DEF WellFormed
  <2>2. Len(p) = 1 /\ p[1] = K
    BY <2>1, Zenon
  <2>3. p # <<>>
    BY <2>2, <1>3
  <2> QED BY <1>2, <1>4, <2>2, <2>3, Bytes DEF LengthOk
<1>5. CASE c = WGT
  <2>1. Len(p) \in 1 .. 2
    BY <1>5, Bytes DEF WellFormed
  <2>2. p # <<>>
    BY <2>1, <1>3
  <2> QED BY <1>2, <1>5, <2>1, <2>2, Bytes DEF LengthOk
<1>6. CASE c = RUN
  BY <1>2, <1>6, Bytes DEF WellFormed, LengthOk
<1>7. CASE c \in {DRAIN, NOP}
  <2>1. p = <<>>
    BY <1>7 DEF WellFormed
  <2>2. Len(p) = 0
    BY <2>1, <1>3, Zenon
  <2>3. c \notin {CFG, WGT, RUN} /\ LengthOk(c, 0)
    BY <1>7, Bytes DEF LengthOk
  <2> QED BY <1>2, <2>1, <2>2, <2>3, Bytes
<1> QED BY <1>1, <1>4, <1>5, <1>6, <1>7

\* Its frame.
LEMMA FrameIs ==
  ASSUME NEW c \in Commands, NEW p \in Seq(Byte), WellFormed(c, p)
  PROVE  /\ FrameLen(c, p) \in Nat
         /\ FrameLen(c, p) = 3 + Len(p) + 5 + (IF c = DRAIN THEN 1 ELSE 0)
                               + (IF c = RUN THEN 2 ELSE 0)
         /\ \A i \in Nat : ByteAt(c, p, i) \in Byte
         /\ ByteAt(c, p, 0) = SYNC /\ ByteAt(c, p, 1) = c /\ ByteAt(c, p, 2) = Len(p)
         /\ \A j \in 1 .. Len(p) : ByteAt(c, p, j + 2) = p[j]
         /\ \A i \in Nat : i >= 3 + Len(p) => ByteAt(c, p, i) = 0
         /\ \A i \in Nat : i >= 5 => ByteAt(c, p, i) = 0
         /\ \A i \in {1, 2} : ByteAt(c, p, i) # SYNC
<1>1. Len(p) \in 0 .. WGTMAX /\ \A i \in 1 .. Len(p) : p[i] \in Byte
  BY PayloadOf
<1>2. \A i \in Nat : ByteAt(c, p, i) =
        IF i = 0 THEN SYNC ELSE IF i = 1 THEN c ELSE IF i = 2 THEN Len(p)
        ELSE IF i \in 3 .. (2 + Len(p)) THEN p[i - 2] ELSE 0
  BY <1>1, Bytes DEF ByteAt
<1>3. c \in Byte /\ c # SYNC /\ Len(p) \in Byte /\ Len(p) # SYNC /\ SYNC \in Byte /\ 0 \in Byte
  BY <1>1, Bytes
<1>4. \A i \in Nat : ByteAt(c, p, i) \in Byte
  <2> SUFFICES ASSUME NEW i \in Nat PROVE ByteAt(c, p, i) \in Byte
    OBVIOUS
  <2>1. i \in 3 .. (2 + Len(p)) => p[i - 2] \in Byte
    BY <1>1, Bytes
  <2> QED BY <1>2, <1>3, <2>1
<1>5. \A j \in 1 .. Len(p) : ByteAt(c, p, j + 2) = p[j]
  <2> SUFFICES ASSUME NEW j \in 1 .. Len(p) PROVE ByteAt(c, p, j + 2) = p[j]
    OBVIOUS
  <2>1. j + 2 \in Nat /\ j + 2 \in 3 .. (2 + Len(p)) /\ (j + 2) - 2 = j
    BY <1>1, Bytes
  <2>2. \A i \in Nat : i \in 3 .. (2 + Len(p)) => ByteAt(c, p, i) = p[i - 2]
    BY <1>1, <1>2, Bytes
  <2> QED BY <2>1, <2>2
<1>6. /\ \A i \in Nat : i >= 3 + Len(p) => ByteAt(c, p, i) = 0
      /\ \A i \in Nat : i >= 5 => ByteAt(c, p, i) = 0
  BY <1>1, <1>2, Bytes
<1>7. FrameLen(c, p) = 3 + Len(p) + 5 + (IF c = DRAIN THEN 1 ELSE 0) + (IF c = RUN THEN 2 ELSE 0)
  BY <1>1, Bytes DEF FrameLen, Words
<1>8. ByteAt(c, p, 0) = SYNC /\ ByteAt(c, p, 1) = c /\ ByteAt(c, p, 2) = Len(p)
  BY <1>2
<1>9. FrameLen(c, p) \in Nat
  BY <1>1, <1>7, Bytes
<1> QED BY <1>3, <1>4, <1>5, <1>6, <1>7, <1>8, <1>9

\* What may be relied on after a call.
LEMMA WantIs ==
  ASSUME want \in WantType, NEW c \in Commands, NEW p \in Seq(Byte), WellFormed(c, p)
  PROVE  /\ WantAfter(c, p) \in WantType
         /\ WantAfter(c, p).mem =
              IF c # WGT THEN want.mem ELSE IF Len(p) = WGTMAX THEN p
              ELSE IF want.mem = None THEN None
              ELSE [i \in 1 .. WGTMAX |-> IF i <= Len(p) THEN p[i] ELSE want.mem[i]]
         /\ WantAfter(c, p).K = IF c = CFG THEN K ELSE want.K
         /\ WantAfter(c, p).acc =
              IF c # RUN THEN want.acc ELSE IF want.mem = None \/ want.K = None THEN None
              ELSE IF p[1] = 1 THEN <<<<want.mem, want.K>>>>
              ELSE IF want.acc = None THEN None ELSE Append(want.acc, <<want.mem, want.K>>)
         /\ c \in {DRAIN, NOP} => WantAfter(c, p) = want
<1> DEFINE a == WantAfter(c, p)
<1>1. Len(p) \in 0 .. WGTMAX /\ (\A i \in 1 .. Len(p) : p[i] \in Byte) /\ (c = CFG => p[1] = K)
  BY PayloadOf
<1>2. /\ want.mem \in Mem \cup {None} /\ want.K \in {K, None} /\ want.acc \in Passes \cup {None}
      /\ want = [mem |-> want.mem, K |-> want.K, acc |-> want.acc]
  BY DEF WantType
<1>3. CASE c = CFG
  <2>1. a = [want EXCEPT !.K = p[1]]
    BY <1>3, Bytes DEF WantAfter
  <2> HIDE DEF a
  <2>2. a \in WantType /\ a.mem = want.mem /\ a.K = p[1] /\ a.acc = want.acc
    BY <1>1, <1>2, <1>3, <2>1 DEF WantType
  <2> QED BY <1>1, <1>3, <2>2, Bytes DEF a
<1>4. CASE c = WGT
  <2> DEFINE v == IF Len(p) = WGTMAX THEN p
                  ELSE IF want.mem = None THEN None
                  ELSE [i \in 1 .. WGTMAX |-> IF i <= Len(p) THEN p[i] ELSE want.mem[i]]
  <2>1. a = [want EXCEPT !.mem = v]
    BY <1>4, Bytes DEF WantAfter
  <2>2. v \in Mem \cup {None}
    <3>1. CASE Len(p) = WGTMAX
      <4>1. p \in [1 .. Len(p) -> Byte]
        BY LenProperties
      <4> QED BY <3>1, <4>1 DEF Mem
    <3>2. CASE Len(p) # WGTMAX /\ want.mem = None
      BY <3>2
    <3>3. CASE Len(p) # WGTMAX /\ want.mem # None
      <4>1. want.mem \in [1 .. WGTMAX -> Byte]
        BY <1>2, <3>3 DEF Mem
      <4>2. \A i \in 1 .. WGTMAX : (IF i <= Len(p) THEN p[i] ELSE want.mem[i]) \in Byte
        BY <1>1, <4>1, Bytes
      <4> QED BY <3>3, <4>2 DEF Mem
    <3> QED BY <3>1, <3>2, <3>3
  <2> HIDE DEF a, v
  <2>3. a \in WantType /\ a.mem = v /\ a.K = want.K /\ a.acc = want.acc
    BY <1>2, <2>1, <2>2 DEF WantType
  <2> QED BY <1>4, <2>3, Bytes DEF a, v
<1>5. CASE c = RUN
  <2> DEFINE v == IF want.mem = None \/ want.K = None THEN None
                  ELSE IF p[1] = 1 THEN <<<<want.mem, want.K>>>>
                  ELSE IF want.acc = None THEN None ELSE Append(want.acc, <<want.mem, want.K>>)
  <2>1. a = [want EXCEPT !.acc = v]
    BY <1>5, Bytes DEF WantAfter
  <2>2. v \in Passes \cup {None}
    <3>1. SUFFICES ASSUME want.mem # None, want.K # None
                   PROVE  v \in Passes \cup {None}
      OBVIOUS
    <3>2. <<want.mem, want.K>> \in Mem \X Byte
      BY <1>2, <3>1, Bytes
    <3>3. <<<<want.mem, want.K>>>> \in Passes
      BY <3>2 DEF Passes
    <3>4. want.acc # None => Append(want.acc, <<want.mem, want.K>>) \in Passes
      <4>1. SUFFICES ASSUME want.acc \in Seq(Mem \X Byte)
                     PROVE  Append(want.acc, <<want.mem, want.K>>) \in Seq(Mem \X Byte)
        BY <1>2 DEF Passes
      <4> QED BY <4>1, <3>2, AppendProperties
    <3> QED BY <3>3, <3>4
  <2> HIDE DEF a, v
  <2>3. a \in WantType /\ a.mem = want.mem /\ a.K = want.K /\ a.acc = v
    BY <1>2, <2>1, <2>2 DEF WantType
  <2> QED BY <1>5, <2>3, Bytes DEF a, v
<1>6. CASE c \in {DRAIN, NOP}
  <2>1. a = want
    BY <1>6, Bytes DEF WantAfter
  <2> QED BY <1>6, <2>1, Bytes
<1> QED BY <1>3, <1>4, <1>5, <1>6 DEF Commands


\* What a slot does: a byte reaches the link and a token is captured; one fault at most.
Moves(b, late, t) ==
  /\ Clock(b, late) /\ Capture(t)
  /\ \/ faults' = faults /\ b = NextByte /\ late = FALSE /\ t = Sent
     \/ /\ faults < MaxFaults /\ faults' = faults + 1
        /\ \/ b # NextByte /\ late = FALSE /\ t = Sent
           \/ b = NextByte /\ late = FALSE /\ t = Junk
           \/ b = NextByte /\ late = TRUE /\ t = Sent /\ rstate = "LEN" /\ cmd = DRAIN

\* What a slot changes of the driver: the frame and the capture.
LEMMA SlotIs ==
  ASSUME HostInv, Slot
  PROVE  /\ call # None /\ sent < Length0 /\ sent' = sent + 1 /\ NextByte \in Byte
         /\ call' = call /\ rx_cur' = rx_cur /\ retired' = retired /\ pipelined' = pipelined
         /\ pend' = pend /\ pend_err' = pend_err /\ result' = result
         /\ want' = want /\ owed' = owed /\ deaf' = deaf
         /\ \E b \in Byte, late \in BOOLEAN : \E t : Moves(b, late, t)
<1>1. /\ call # None /\ sent < Length0 /\ sent' = sent + 1
      /\ call' = call /\ rx_cur' = rx_cur /\ retired' = retired /\ pipelined' = pipelined
      /\ pend' = pend /\ pend_err' = pend_err /\ result' = result
      /\ want' = want /\ owed' = owed /\ deaf' = deaf
  BY DEF Slot, Length0, ghosts
<1>2. NextByte \in Byte
  <2>1. /\ call.cmd \in Commands /\ call.pay \in Seq(Byte) /\ WellFormed(call.cmd, call.pay)
        /\ sent \in Nat
    <3>1. CallOK
      BY <1>1 DEF HostInv
    <3>2. call \in CallType
      BY <3>1 DEF CallOK
    <3>3. FrameLen(call.cmd, call.pay) \in Nat
      BY <3>1, <3>2, FrameIs DEF CallOK, CallType
    <3> QED BY <3>1, <3>2, <3>3 DEF CallOK, CallType
  <2> QED BY <2>1, FrameIs DEF NextByte
<1>3. \E b \in Byte, late \in BOOLEAN : \E t : Moves(b, late, t)
  <2>1. CASE Clock(NextByte, FALSE) /\ Capture(Sent) /\ UNCHANGED faults
    <3>1. Moves(NextByte, FALSE, Sent)
      BY <2>1, Zenon DEF Moves
    <3> QED BY <3>1, <1>2
  <2>2. ASSUME faults < MaxFaults, faults' = faults + 1,
               NEW b \in Byte \ {NextByte}, Clock(b, FALSE), Capture(Sent)
        PROVE  \E x \in Byte, late \in BOOLEAN : \E t : Moves(x, late, t)
    <3>1. Moves(b, FALSE, Sent)
      BY <2>2, Zenon DEF Moves
    <3> QED BY <3>1
  <2>3. CASE faults < MaxFaults /\ faults' = faults + 1
             /\ Clock(NextByte, FALSE) /\ Sent # Low /\ Capture(Junk)
    <3>1. Moves(NextByte, FALSE, Junk)
      BY <2>3, Zenon DEF Moves
    <3> QED BY <3>1, <1>2
  <2>4. CASE faults < MaxFaults /\ faults' = faults + 1 /\ rstate = "LEN" /\ cmd = DRAIN
             /\ Clock(NextByte, TRUE) /\ Capture(Sent)
    <3>1. Moves(NextByte, TRUE, Sent)
      BY <2>4, Zenon DEF Moves
    <3> QED BY <3>1, <1>2
  <2> QED BY <2>1, <2>2, <2>3, <2>4, Zenon DEF Slot
<1> QED BY <1>1, <1>2, <1>3

\* Where a token is captured, and what is not touched.
LEMMA CaptureIs ==
  ASSUME HostInv, call # None, call' = call, NEW t, Capture(t)
  PROVE  /\ IsSeq(Cap) /\ Cap' = Append(Cap, t)
         /\ rxb' = [i \in {0, 1} |-> rxb'[i]] /\ \A i \in {0, 1} : IsSeq(rxb'[i])
         /\ \A i \in {0, 1} : (call.kind = "plain" /\ i = call.buf) \/ rxb'[i] = rxb[i]
         /\ defer' = [armed |-> defer'.armed, cap |-> defer'.cap, want |-> defer'.want,
                      age |-> defer'.age]
         /\ defer'.armed = defer.armed /\ defer'.want = defer.want /\ defer'.age = defer.age
         /\ IsSeq(defer'.cap) /\ (call.kind = "plain" => defer' = defer)
<1>1. /\ rxb = [i \in {0, 1} |-> rxb[i]] /\ \A i \in {0, 1} : IsSeq(rxb[i])
      /\ defer = [armed |-> defer.armed, cap |-> defer.cap, want |-> defer.want, age |-> defer.age]
      /\ IsSeq(defer.cap)
      /\ call.kind \in {"plain", "deferred"} /\ call.buf \in {0, 1}
  BY DEF HostInv, CallOK, CallType
<1>2. CASE call.kind = "deferred"
  <2>1. defer' = [defer EXCEPT !.cap = Append(defer.cap, t)] /\ rxb' = rxb
    BY <1>2 DEF Capture
  <2>2. defer' = [armed |-> defer.armed, cap |-> Append(defer.cap, t), want |-> defer.want,
                  age |-> defer.age]
    BY <1>1, <2>1
  <2>3. Cap = defer.cap /\ Cap' = defer'.cap
    BY <1>2 DEF Cap
  <2>4. IsSeq(Append(defer.cap, t))
    BY <1>1, AppendIs
  <2> QED BY <1>1, <1>2, <2>1, <2>2, <2>3, <2>4
<1>3. CASE call.kind = "plain"
  <2>1. rxb' = [rxb EXCEPT ![call.buf] = Append(rxb[call.buf], t)] /\ defer' = defer
    BY <1>3 DEF Capture
  <2>2. Cap = rxb[call.buf] /\ Cap' = rxb'[call.buf]
    BY <1>3 DEF Cap
  <2>3. IsSeq(Append(rxb[call.buf], t))
    BY <1>1, AppendIs
  <2>4. /\ rxb'[call.buf] = Append(rxb[call.buf], t)
        /\ \A i \in {0, 1} : i # call.buf => rxb'[i] = rxb[i]
        /\ rxb' = [i \in {0, 1} |-> rxb'[i]]
    BY <1>1, <2>1
  <2> QED BY <1>1, <1>3, <2>1, <2>2, <2>3, <2>4
<1> QED BY <1>1, <1>2, <1>3

\* The call under way and its frame.
LEMMA CallIs ==
  ASSUME HostInv, call # None
  PROVE  /\ CallOK /\ call.cmd \in Commands /\ call.pay \in Seq(Byte)
         /\ WellFormed(call.cmd, call.pay)
         /\ call.kind \in {"plain", "deferred"} /\ call.buf \in {0, 1}
         /\ sent \in Nat /\ Length0 \in Nat /\ sent <= Length0
         /\ PayLen \in 0 .. 2
         /\ Length0 = 3 + PayLen + 5 + (IF call.cmd = DRAIN THEN 1 ELSE 0)
                        + (IF call.cmd = RUN THEN 2 ELSE 0)
         /\ IsSeq(Cap) /\ Len(Cap) = sent
<1>1. CallOK /\ call \in CallType
  BY DEF HostInv, CallOK
<1>2. /\ call.cmd \in Commands /\ call.pay \in Seq(Byte) /\ WellFormed(call.cmd, call.pay)
      /\ call.kind \in {"plain", "deferred"} /\ call.buf \in {0, 1}
  BY <1>1 DEF CallOK, CallType
<1>3. /\ Length0 \in Nat /\ PayLen \in 0 .. 2
      /\ Length0 = 3 + PayLen + 5 + (IF call.cmd = DRAIN THEN 1 ELSE 0)
                     + (IF call.cmd = RUN THEN 2 ELSE 0)
  BY <1>2, FrameIs, PayloadOf, Bytes DEF Length0, PayLen
<1>4. sent \in 0 .. Length0 /\ Len(Cap) = sent
  BY <1>1 DEF CallOK, Length0
<1>5. IsSeq(Cap)
  BY <1>2 DEF HostInv, Cap
<1> QED BY <1>1, <1>2, <1>3, <1>4, <1>5

-----------------------------------------------------------------------------
\* Each of the driver's actions keeps the bookkeeping.

\* What gw_decode_n() answers.
LEMMA DecodeIs ==
  ASSUME NEW cap, NEW k
  PROVE  Decode(cap, k) \in Errors \cup {OK}
  BY DEF Decode, Errors, OK

\* What the payloads of the caller's calls are.
LEMMA PayloadsAre ==
  ASSUME HostInv, NEW c \in Calls, NEW p \in PayloadsOf(c)
  PROVE  /\ c \in Commands /\ p \in Seq(Byte) /\ WellFormed(c, p)
         /\ c = RUN /\ p = << 0 >> => want.acc # None /\ Len(want.acc) < MaxPass
<1>1. c \in Commands /\ Payloads \subseteq (Seq(Byte) \ {<<>>})
      /\ \A q \in Payloads : Len(q) <= WGTMAX
  BY HostAssumption
<1>2. 0 \in Byte /\ 1 \in Byte /\ K \in Byte
  BY Bytes
<1>3. << 0 >> \in Seq(Byte) /\ << 1 >> \in Seq(Byte) /\ <<K>> \in Seq(Byte)
  BY <1>2
<1>4. << 0 >> # << 1 >>
  BY ShortIs
<1>5. CASE c = CFG
  <2>1. p = <<K>>
    BY <1>5, Bytes DEF PayloadsOf
  <2>2. c # WGT /\ c # RUN /\ c \notin {DRAIN, NOP}
    BY <1>5, Bytes
  <2>3. WellFormed(c, p)
    BY <2>1, <2>2, Zenon DEF WellFormed
  <2>4. p \in Seq(Byte)
    BY <1>3, <2>1, Zenon
  <2> QED BY <1>1, <2>2, <2>3, <2>4, Zenon
<1>6. CASE c = WGT
  <2>1. p \in Payloads
    BY <1>6, Bytes DEF PayloadsOf
  <2>2. p \in Seq(Byte) /\ p # <<>> /\ Len(p) <= 2
    BY <1>1, <2>1, Bytes
  <2>3. Len(p) \in Nat /\ Len(p) # 0
    BY <2>2, LenProperties, EmptySeq
  <2>4. c # CFG /\ c # RUN /\ c \notin {DRAIN, NOP}
    BY <1>6, Bytes
  <2>5. Len(p) \in 1 .. WGTMAX
    <3>1. \A m \in Nat : m # 0 /\ m <= 2 => m \in 1 .. WGTMAX
      BY Bytes
    <3> QED BY <2>2, <2>3, <3>1, Zenon
  <2>6. WellFormed(c, p)
    BY <2>4, <2>5, Zenon DEF WellFormed
  <2> QED BY <1>1, <2>2, <2>4, <2>6, Zenon
<1>7. CASE c = RUN
  <2>1. p \in {<< 1 >>} \cup (IF want.acc # None /\ Len(want.acc) < MaxPass THEN {<< 0 >>} ELSE {})
    BY <1>7, Bytes DEF PayloadsOf
  <2>2. c # CFG /\ c # WGT /\ c \notin {DRAIN, NOP}
    BY <1>7, Bytes
  <2>3. p \in {<< 0 >>, << 1 >>} /\ (p = << 0 >> => want.acc # None /\ Len(want.acc) < MaxPass)
    <3> HIDE DEF RUN
    <3>1. p = << 1 >> \/ (p = << 0 >> /\ want.acc # None /\ Len(want.acc) < MaxPass)
      BY <2>1, Zenon
    <3> QED BY <3>1, <1>4, Zenon
  <2>4. WellFormed(c, p)
    BY <2>2, <2>3, Zenon DEF WellFormed
  <2>5. p \in Seq(Byte)
    BY <2>3, <1>3, Zenon
  <2> QED BY <1>1, <2>3, <2>4, <2>5, Zenon
<1>8. CASE c \in {DRAIN, NOP}
  <2>1. c # CFG /\ c # WGT /\ c # RUN
    BY <1>8, Bytes
  <2>2. p = <<>>
    BY <2>1 DEF PayloadsOf
  <2>3. WellFormed(c, p)
    BY <2>1, <2>2, Zenon DEF WellFormed
  <2>4. p \in Seq(Byte)
    BY <2>2, EmptyPayload, Zenon
  <2> QED BY <1>1, <2>1, <2>3, <2>4, Zenon
<1> QED BY <1>1, <1>5, <1>6, <1>7, <1>8 DEF Commands

\* The capture buffers after gh_retire().
LEMMA RetireIs ==
  ASSUME HostInv, Retire
  PROVE  /\ pend' = None /\ pend_err' \in Errors \cup {OK}
         /\ rxb' = [i \in {0, 1} |-> rxb'[i]] /\ \A i \in {0, 1} : IsSeq(rxb'[i])
         /\ \A i \in {0, 1} : rxb'[i] = IF pend # None /\ i = pend.buf THEN <<>> ELSE rxb[i]
<1>1. /\ rxb = [i \in {0, 1} |-> rxb[i]] /\ \A i \in {0, 1} : IsSeq(rxb[i])
      /\ pend_err \in Errors \cup {OK}
  BY DEF HostInv
<1>2. pend' = None /\ rxb' = (IF pend = None THEN rxb ELSE [rxb EXCEPT ![pend.buf] = <<>>])
  BY DEF Retire
<1>3. pend_err' \in Errors \cup {OK}
  BY <1>1, DecodeIs DEF Retire
<1>4. \A i \in {0, 1} : rxb'[i] = IF pend # None /\ i = pend.buf THEN <<>> ELSE rxb[i]
  BY <1>1, <1>2
<1>5. rxb' = [i \in {0, 1} |-> rxb'[i]]
  BY <1>1, <1>2
<1>6. \A i \in {0, 1} : IsSeq(rxb'[i])
  BY <1>1, <1>4, EmptyIs
<1> QED BY <1>2, <1>3, <1>4, <1>5, <1>6

\* A transaction begins with an empty buffer of its own.
LEMMA BeginHost ==
  ASSUME HostInv, NEW kind \in {"plain", "deferred"}, NEW c \in Commands, NEW p \in Seq(Byte),
         WellFormed(c, p), c = RUN /\ p = << 0 >> => want.acc # None /\ Len(want.acc) < MaxPass,
         kind = "deferred" => c = DRAIN, Begin(kind, c, p)
  PROVE  /\ HostInv' /\ call = None /\ call' # None
         /\ call' = [cmd |-> c, pay |-> p, kind |-> kind, buf |-> rx_cur]
         /\ sent' = 0 /\ Cap' = <<>> /\ want' = want /\ faults' = faults
         /\ defer'.want = defer.want /\ defer'.cap = defer.cap /\ defer'.armed = defer.armed
<1> DEFINE x == [cmd |-> c, pay |-> p, kind |-> kind, buf |-> rx_cur]
<1>1. /\ call = None /\ (defer.armed => kind # "deferred" /\ defer.age < MaxAge)
      /\ call' = x /\ sent' = 0 /\ retired' = (~pipelined) /\ rx_cur' = NextBuffer(kind)
      /\ result'.err = OK /\ pipelined' = pipelined /\ faults' = faults /\ want' = want
      /\ defer' = IF defer.armed THEN [defer EXCEPT !.age = defer.age + 1] ELSE defer
  BY DEF Begin, ghosts
<1>2. /\ IdleOK /\ rx_cur \in {0, 1} /\ pipelined \in BOOLEAN /\ want \in WantType
      /\ defer = [armed |-> defer.armed, cap |-> defer.cap, want |-> defer.want, age |-> defer.age]
      /\ defer.armed \in BOOLEAN /\ defer.age \in Nat /\ IsSeq(defer.cap)
      /\ ~defer.armed => defer.cap = <<>>
      /\ pend # None => pend \in CallType
      /\ faults \in 0 .. MaxFaults /\ pend_err \in Errors \cup {OK}
      /\ rxb = [i \in {0, 1} |-> rxb[i]] /\ \A i \in {0, 1} : IsSeq(rxb[i])
  BY <1>1 DEF HostInv, WantType
<1>3. x \in CallType /\ x # None /\ x.cmd = c /\ x.pay = p /\ x.kind = kind /\ x.buf = rx_cur
  BY <1>2, NoneIsNot DEF CallType
<1>4. /\ defer'.want = defer.want /\ defer'.cap = defer.cap /\ defer'.armed = defer.armed
      /\ defer'.age \in Nat
      /\ defer' = [armed |-> defer'.armed, cap |-> defer'.cap, want |-> defer'.want,
                   age |-> defer'.age]
  BY <1>1, <1>2
<1>5. IF Defers(kind, c) THEN pend' = pend /\ pend_err' = pend_err /\ rxb' = rxb ELSE Retire
  BY DEF Begin
<1>6. /\ pend' # None => pend' = pend /\ Defers(kind, c) /\ pend.buf = 1 - rx_cur
      /\ pend' = None => rxb'[1 - rx_cur] = <<>>
      /\ rxb'[rx_cur] = <<>>
      /\ rxb' = [i \in {0, 1} |-> rxb'[i]] /\ \A i \in {0, 1} : IsSeq(rxb'[i])
      /\ pend_err' \in Errors \cup {OK}
  <2>1. /\ rxb[rx_cur] = <<>>
        /\ IF pend = None THEN rxb[1 - rx_cur] = <<>> ELSE pend.buf = 1 - rx_cur
    BY <1>2 DEF IdleOK
  <2>2. 1 - rx_cur \in {0, 1}
    BY <1>2
  <2>3. CASE Defers(kind, c)
    BY <1>2, <1>5, <2>1, <2>3
  <2>4. CASE ~Defers(kind, c)
    <3>1. Retire
      BY <1>5, <2>4
    <3> QED BY <1>2, <2>1, <2>2, <3>1, RetireIs
  <2> QED BY <2>3, <2>4
<1> HIDE DEF x
<1>7. Cap' = <<>>
  <2>1. CASE kind = "deferred"
    BY <1>1, <1>2, <1>3, <1>4, <2>1 DEF Cap
  <2>2. CASE kind = "plain"
    BY <1>1, <1>3, <1>6, <2>2 DEF Cap
  <2> QED BY <2>1, <2>2
<1>8. CallOK'
  <2>1. retired' => pend' = None
    BY <1>1, <1>6 DEF Defers
  <2>2. sent' \in 0 .. FrameLen(call'.cmd, call'.pay)
    BY <1>1, <1>3, FrameIs
  <2>3. kind = "deferred" => pend' = None
    BY <1>6 DEF Defers
  <2>4. Len(Cap') = sent'
    BY <1>1, <1>7, EmptyIs
  <2>5. WellFormed(call'.cmd, call'.pay) /\ call' \in CallType
        /\ (call'.cmd = RUN /\ call'.pay = << 0 >> => want'.acc # None /\ Len(want'.acc) < MaxPass)
    BY <1>1, <1>3
  <2>6. CASE kind = "plain"
    <3>1. rx_cur' = 1 - rx_cur /\ 1 - rx_cur' = rx_cur
      BY <1>1, <1>2, <2>6 DEF NextBuffer
    <3>2. pend' # None => pend'.buf = rx_cur' /\ Defers(call.kind, call.cmd)'
      BY <1>1, <1>3, <1>6, <3>1 DEF Defers
    <3>3. (pend' = None => rxb'[rx_cur'] = <<>>)
      BY <1>6, <3>1
    <3> QED BY <1>1, <1>3, <2>1, <2>2, <2>4, <2>5, <2>6, <3>1, <3>2, <3>3 DEF CallOK
  <2>7. CASE kind = "deferred"
    <3>1. rx_cur' = rx_cur
      BY <1>1, <2>7 DEF NextBuffer
    <3>2. ~defer'.armed /\ c = DRAIN
      BY <1>1, <1>4, <2>7
    <3> QED BY <1>1, <1>3, <1>6, <2>1, <2>2, <2>3, <2>4, <2>5, <2>7, <3>1, <3>2 DEF CallOK
  <2> QED BY <2>6, <2>7
<1>9. rx_cur' \in {0, 1}
  BY <1>1, <1>2 DEF NextBuffer
<1>10. call' # None
  BY <1>1, <1>3
<1>11. HostInv'
  BY <1>1, <1>2, <1>3, <1>4, <1>6, <1>8, <1>9, <1>10 DEF HostInv, WantType
<1> QED BY <1>1, <1>4, <1>7, <1>10, <1>11 DEF x

\* A slot adds one token to the capture.
LEMMA SlotHost ==
  ASSUME HostInv, Slot
  PROVE  /\ HostInv' /\ \E t : Cap' = Append(Cap, t)
         /\ defer'.want = defer.want /\ defer'.armed = defer.armed
         /\ call.kind = "plain" => defer' = defer
         /\ pend # None => rxb'[pend.buf] = rxb[pend.buf]
<1>1. /\ call # None /\ sent < Length0 /\ sent' = sent + 1
      /\ call' = call /\ rx_cur' = rx_cur /\ retired' = retired /\ pipelined' = pipelined
      /\ pend' = pend /\ pend_err' = pend_err /\ result' = result
      /\ want' = want
  BY SlotIs
<1>2. PICK b \in Byte, late \in BOOLEAN : \E t : Moves(b, late, t)
  BY SlotIs
<1>3. PICK t : Moves(b, late, t)
  BY <1>2
<1>4. Capture(t) /\ (faults' = faults \/ (faults < MaxFaults /\ faults' = faults + 1))
  BY <1>3 DEF Moves
<1>5. /\ IsSeq(Cap) /\ Cap' = Append(Cap, t)
      /\ rxb' = [i \in {0, 1} |-> rxb'[i]] /\ \A i \in {0, 1} : IsSeq(rxb'[i])
      /\ \A i \in {0, 1} : (call.kind = "plain" /\ i = call.buf) \/ rxb'[i] = rxb[i]
      /\ defer' = [armed |-> defer'.armed, cap |-> defer'.cap, want |-> defer'.want,
                   age |-> defer'.age]
      /\ defer'.armed = defer.armed /\ defer'.want = defer.want /\ defer'.age = defer.age
      /\ IsSeq(defer'.cap) /\ (call.kind = "plain" => defer' = defer)
  BY <1>1, <1>4, CaptureIs
<1>6. /\ CallOK /\ call.kind \in {"plain", "deferred"} /\ call.buf \in {0, 1}
      /\ sent \in Nat /\ Length0 \in Nat /\ Len(Cap) = sent
  BY <1>1, CallIs
<1>7. faults' \in 0 .. MaxFaults
  BY <1>4, HostAssumption DEF HostInv
<1>8. Len(Cap') = sent' /\ sent' \in 0 .. Length0
  BY <1>1, <1>5, <1>6, AppendIs
<1>9. /\ rx_cur \in {0, 1} /\ (pend # None => pend.buf \in {0, 1})
      /\ pend # None => call.kind = "plain" /\ pend.buf = rx_cur
      /\ call.kind = "plain" => call.buf = 1 - rx_cur
  BY <1>1, <1>6 DEF HostInv, CallOK
<1>10. /\ rxb'[rx_cur] = rxb[rx_cur]
       /\ call.kind = "deferred" => rxb'[1 - rx_cur] = rxb[1 - rx_cur]
       /\ pend # None => rxb'[pend.buf] = rxb[pend.buf]
  BY <1>5, <1>6, <1>9
<1>11. CallOK'
  <2>1. call' \in CallType /\ WellFormed(call'.cmd, call'.pay)
        /\ (call'.cmd = RUN /\ call'.pay = << 0 >> => want'.acc # None /\ Len(want'.acc) < MaxPass)
    BY <1>1, <1>6 DEF CallOK
  <2>2. sent' \in 0 .. FrameLen(call'.cmd, call'.pay)
    BY <1>1, <1>8 DEF Length0
  <2> QED BY <1>1, <1>5, <1>6, <1>8, <1>10, <2>1, <2>2 DEF CallOK, Defers
<1>12. HostInv'
  BY <1>1, <1>5, <1>6, <1>7, <1>11 DEF HostInv
<1> QED BY <1>5, <1>10, <1>12

\* Retiring the call before leaves this one's capture alone.
LEMMA RetirePreviousHost ==
  ASSUME HostInv, RetirePrevious
  PROVE  /\ HostInv' /\ call # None /\ UNCHANGED <<link, call, sent, defer, result, faults, ghosts>>
         /\ Cap' = Cap /\ Retire
<1>1. /\ call # None /\ ~retired /\ retired' = TRUE /\ Retire
      /\ UNCHANGED <<link, call, sent, rx_cur, pipelined, defer, result, faults, ghosts>>
  BY DEF RetirePrevious
<1>2. /\ CallOK /\ call.kind \in {"plain", "deferred"} /\ call.buf \in {0, 1}
  BY <1>1, CallIs
<1>3. /\ pend' = None /\ pend_err' \in Errors \cup {OK}
      /\ rxb' = [i \in {0, 1} |-> rxb'[i]] /\ \A i \in {0, 1} : IsSeq(rxb'[i])
      /\ \A i \in {0, 1} : rxb'[i] = IF pend # None /\ i = pend.buf THEN <<>> ELSE rxb[i]
  BY <1>1, RetireIs
<1>4. /\ rx_cur \in {0, 1}
      /\ pend # None => call.kind = "plain" /\ pend.buf = rx_cur
      /\ call.kind = "plain" => call.buf = 1 - rx_cur
      /\ pend = None => rxb[rx_cur] = <<>>
      /\ call.kind = "deferred" => rxb[1 - rx_cur] = <<>>
  BY <1>1, <1>2 DEF HostInv, CallOK
<1>5. rxb'[rx_cur] = <<>> /\ rxb'[1 - rx_cur] = rxb[1 - rx_cur]
  BY <1>3, <1>4
<1>6. Cap' = Cap
  BY <1>1, <1>2, <1>4, <1>5 DEF Cap
<1>7. CallOK'
  BY <1>1, <1>2, <1>3, <1>4, <1>5, <1>6 DEF CallOK, ghosts
<1>8. HostInv'
  BY <1>1, <1>3, <1>7 DEF HostInv, ghosts
<1> QED BY <1>1, <1>6, <1>8

\* How a call returns.
Returned(e, after) ==
  /\ call' = None /\ sent' = 0 /\ retired' = FALSE
  /\ result'.err = e /\ want' = (IF e = OK THEN after ELSE Nothing)

\* A call returns its error, and an error is the end of what the caller wants.
LEMMA ReturnIs ==
  ASSUME NEW e, NEW words, NEW w, NEW failed, Return(e, words, w, failed)
  PROVE  Returned(e, After) /\ result' = [err |-> e, words |-> words, want |-> w]
  BY DEF Return, Returned, After

LEMMA NothingIs == Nothing \in WantType
  BY DEF Nothing, WantType

\* What the caller may rely on is of its type.
LEMMA AfterIs ==
  ASSUME HostInv, call # None
  PROVE  After \in WantType
<1>1. want \in WantType
  BY DEF HostInv, WantType
<1> QED BY <1>1, CallIs, WantIs DEF After

\* The three ways a transaction that ran to its end returns.
LEMMA FinishIs ==
  ASSUME HostInv, Finish
  PROVE  /\ call # None /\ sent = Length0 /\ pend = None /\ retired
         /\ UNCHANGED <<link, rx_cur, pipelined, faults>> /\ pend_err' = OK
         /\ \/ /\ call.kind = "deferred" /\ Returned(TakePend(OK), After)
               /\ defer' = [armed |-> TRUE, cap |-> defer.cap, age |-> 0,
                            want |-> IF pend_err = OK THEN want.acc ELSE None]
               /\ result'.words = <<>> /\ pend' = None /\ rxb' = rxb
            \/ /\ call.kind = "plain" /\ Defers(call.kind, call.cmd)
               /\ Returned(TakePend(OK), After)
               /\ pend' = call /\ result'.words = <<>> /\ rxb' = rxb /\ defer' = defer
            \/ /\ call.kind = "plain" /\ ~Defers(call.kind, call.cmd)
               /\ Returned(TakePend(Decode(Cap, call)), After)
               /\ result'.words = (IF Decode(Cap, call) = OK THEN Delivered(Cap, call) ELSE <<>>)
               /\ result'.want = want.acc
               /\ rxb' = [rxb EXCEPT ![call.buf] = <<>>] /\ pend' = None /\ defer' = defer
<1>1. /\ call # None /\ sent = Length0 /\ retired
      /\ UNCHANGED <<link, rx_cur, pipelined, faults>> /\ pend_err' = OK
  BY DEF Finish, Length0
<1>2. CallOK /\ call.kind \in {"plain", "deferred"}
  BY <1>1, CallIs
<1>3. pend = None
  BY <1>1, <1>2 DEF CallOK
<1>4. CASE call.kind = "deferred"
  <2> DEFINE A == /\ defer' = [armed |-> TRUE, cap |-> defer.cap, age |-> 0,
                              want |-> IF pend_err = OK THEN want.acc ELSE None]
                 /\ Return(TakePend(OK), <<>>, None, FALSE)
                 /\ UNCHANGED <<pend, rxb>>
             B == /\ pend' = call
                  /\ Return(TakePend(OK), <<>>, None, Decode(rxb[call.buf], call) # OK)
                  /\ UNCHANGED <<rxb, defer>>
             C == /\ Return(TakePend(Decode(rxb[call.buf], call)),
                            IF Decode(rxb[call.buf], call) = OK
                            THEN Delivered(rxb[call.buf], call) ELSE <<>>, want.acc, FALSE)
                  /\ rxb' = [rxb EXCEPT ![call.buf] = <<>>]
                  /\ UNCHANGED <<pend, defer>>
  <2>0. (CASE call.kind = "deferred" -> A [] Defers(call.kind, call.cmd) -> B [] OTHER -> C)
    BY Zenon DEF Finish
  <2>1. A
    <3>1. ~Defers(call.kind, call.cmd)
      BY <1>4 DEF Defers
    <3> HIDE DEF A, B, C
    <3> QED BY <1>4, <2>0, <3>1
  <2>2. Returned(TakePend(OK), After) /\ result'.words = <<>>
    BY <2>1 DEF Return, Returned, After
  <2> QED BY <1>1, <1>3, <1>4, <2>1, <2>2
<1>5. CASE call.kind # "deferred" /\ Defers(call.kind, call.cmd)
  <2>0. PICK e : /\ pend' = call
                 /\ Return(TakePend(OK), <<>>, None, e # OK)
                 /\ UNCHANGED <<rxb, defer>>
    BY <1>5 DEF Finish
  <2>2. Returned(TakePend(OK), After) /\ result'.words = <<>>
    BY <2>0, ReturnIs
  <2> QED BY <1>1, <1>2, <1>3, <1>5, <2>0, <2>2
<1>6. CASE call.kind # "deferred" /\ ~Defers(call.kind, call.cmd)
  <2> DEFINE e == Decode(Cap, call)
             words == IF e = OK THEN Delivered(Cap, call) ELSE <<>>
  <2>0. Cap = rxb[call.buf]
    BY <1>6 DEF Cap
  <2>1. /\ Return(TakePend(e), words, want.acc, FALSE)
        /\ rxb' = [rxb EXCEPT ![call.buf] = <<>>]
        /\ UNCHANGED <<pend, defer>>
    BY <1>6, <2>0 DEF Finish
  <2> HIDE DEF e, words
  <2>2. /\ Returned(TakePend(e), After) /\ result'.words = words /\ result'.want = want.acc
    BY <2>1 DEF Return, Returned, After
  <2> QED BY <1>1, <1>2, <1>3, <1>6, <2>1, <2>2 DEF e, words
<1> QED BY <1>4, <1>5, <1>6

\* What take_pend() returns, and the driver after a call that ran to its end.
LEMMA TakePendIs ==
  ASSUME HostInv, NEW e \in Errors \cup {OK}
  PROVE  TakePend(e) \in Errors \cup {OK} /\ (TakePend(e) = OK <=> pend_err = OK /\ e = OK)
  BY DEF TakePend, HostInv, Errors, OK

LEMMA FinishHost ==
  ASSUME HostInv, Finish
  PROVE  HostInv'
<1>1. /\ call # None /\ pend = None
      /\ UNCHANGED <<link, rx_cur, pipelined, faults>> /\ pend_err' = OK
  BY FinishIs
<1>2. /\ CallOK /\ call.kind \in {"plain", "deferred"} /\ call.buf \in {0, 1} /\ call \in CallType
  BY <1>1, CallIs DEF CallOK
<1>3. After \in WantType /\ Nothing \in WantType
  BY <1>1, AfterIs, NothingIs
<1>4. /\ rx_cur \in {0, 1} /\ rxb = [i \in {0, 1} |-> rxb[i]] /\ \A i \in {0, 1} : IsSeq(rxb[i])
      /\ rxb[rx_cur] = <<>>
      /\ call.kind = "plain" => call.buf = 1 - rx_cur
      /\ call.kind = "deferred" => rxb[1 - rx_cur] = <<>>
      /\ defer = [armed |-> defer.armed, cap |-> defer.cap, want |-> defer.want, age |-> defer.age]
      /\ defer.armed \in BOOLEAN /\ defer.age \in Nat /\ IsSeq(defer.cap)
      /\ ~defer.armed /\ call.kind = "plain" => defer.cap = <<>>
      /\ pipelined \in BOOLEAN /\ faults \in 0 .. MaxFaults
  BY <1>1, <1>2 DEF HostInv, CallOK
<1>5. OK \in Errors \cup {OK} /\ Decode(Cap, call) \in Errors \cup {OK}
  BY DecodeIs
<1>6. /\ TakePend(OK) \in Errors \cup {OK}
      /\ TakePend(Decode(Cap, call)) \in Errors \cup {OK}
  BY <1>5, TakePendIs
<1>7. \A e \in Errors \cup {OK} : Returned(e, After) =>
        /\ call' = None /\ sent' = 0 /\ retired' = FALSE
        /\ result'.err \in Errors \cup {OK} /\ want' \in WantType
  BY <1>3 DEF Returned
<1>8. CASE /\ call.kind = "deferred" /\ Returned(TakePend(OK), After)
           /\ defer' = [armed |-> TRUE, cap |-> defer.cap, age |-> 0,
                        want |-> IF pend_err = OK THEN want.acc ELSE None]
           /\ pend' = None /\ rxb' = rxb
  <2>1. IdleOK'
    BY <1>1, <1>4, <1>6, <1>7, <1>8 DEF IdleOK
  <2>2. /\ defer' = [armed |-> defer'.armed, cap |-> defer'.cap, want |-> defer'.want,
                     age |-> defer'.age]
        /\ defer'.armed = TRUE /\ defer'.age \in Nat /\ defer'.cap = defer.cap
    BY <1>8
  <2> QED BY <1>1, <1>4, <1>6, <1>7, <1>8, <2>1, <2>2 DEF HostInv, WantType
<1>9. CASE /\ call.kind = "plain" /\ Returned(TakePend(OK), After)
           /\ pend' = call /\ rxb' = rxb /\ defer' = defer
  <2>1. IdleOK'
    BY <1>1, <1>4, <1>6, <1>7, <1>9 DEF IdleOK
  <2> QED BY <1>1, <1>2, <1>4, <1>6, <1>7, <1>9, <2>1 DEF HostInv, WantType
<1>10. CASE /\ call.kind = "plain" /\ Returned(TakePend(Decode(Cap, call)), After)
            /\ rxb' = [rxb EXCEPT ![call.buf] = <<>>] /\ pend' = None /\ defer' = defer
  <2>1. /\ rxb' = [i \in {0, 1} |-> rxb'[i]] /\ \A i \in {0, 1} : IsSeq(rxb'[i])
        /\ rxb'[rx_cur] = <<>> /\ rxb'[1 - rx_cur] = <<>>
    BY <1>2, <1>4, <1>10, EmptyIs
  <2>2. IdleOK'
    BY <1>1, <1>4, <1>6, <1>7, <1>10, <2>1 DEF IdleOK
  <2> QED BY <1>1, <1>4, <1>6, <1>7, <1>10, <2>1, <2>2 DEF HostInv, WantType
<1> QED BY <1>8, <1>9, <1>10, FinishIs

\* What a stall leaves.
LEMMA StallHost ==
  ASSUME HostInv, Stall
  PROVE  /\ HostInv' /\ call # None /\ Returned("STALL", After) /\ want' = Nothing
         /\ faults < MaxFaults /\ faults' = faults + 1 /\ link' = link
         /\ pend' = pend /\ pend_err' = pend_err /\ pend = None /\ pend' = None
         /\ defer'.armed => defer' = defer
<1>1. /\ call # None /\ retired /\ faults < MaxFaults /\ faults' = faults + 1
      /\ Return("STALL", <<>>, None, FALSE)
      /\ rxb' = [rxb EXCEPT ![call.buf] = <<>>]
      /\ defer' = IF call.kind = "deferred" THEN Unarmed ELSE defer
      /\ UNCHANGED <<link, rx_cur, pipelined, pend, pend_err>>
  BY DEF Stall
<1>2. Returned("STALL", After) /\ "STALL" # OK /\ "STALL" \in Errors
  BY <1>1, ReturnIs DEF OK, Errors
<1>3. /\ call' = None /\ sent' = 0 /\ retired' = FALSE /\ result'.err = "STALL"
      /\ want' = Nothing
  BY <1>2 DEF Returned
<1>4. /\ CallOK /\ call.kind \in {"plain", "deferred"} /\ call.buf \in {0, 1}
  BY <1>1, CallIs
<1>5. /\ rx_cur \in {0, 1} /\ rxb = [i \in {0, 1} |-> rxb[i]] /\ \A i \in {0, 1} : IsSeq(rxb[i])
      /\ pend = None /\ rxb[rx_cur] = <<>>
      /\ call.kind = "plain" => call.buf = 1 - rx_cur
      /\ call.kind = "deferred" => rxb[1 - rx_cur] = <<>>
      /\ defer = [armed |-> defer.armed, cap |-> defer.cap, want |-> defer.want, age |-> defer.age]
      /\ defer.armed \in BOOLEAN /\ defer.age \in Nat /\ IsSeq(defer.cap)
      /\ ~defer.armed /\ call.kind = "plain" => defer.cap = <<>>
      /\ pipelined \in BOOLEAN /\ faults \in 0 .. MaxFaults /\ pend_err \in Errors \cup {OK}
  BY <1>1, <1>4 DEF HostInv, CallOK
<1>6. /\ rxb' = [i \in {0, 1} |-> rxb'[i]] /\ \A i \in {0, 1} : IsSeq(rxb'[i])
      /\ rxb'[rx_cur] = <<>> /\ rxb'[1 - rx_cur] = <<>>
  <2>1. rxb'[call.buf] = <<>> /\ \A i \in {0, 1} : i # call.buf => rxb'[i] = rxb[i]
    BY <1>1, <1>4, <1>5
  <2>2. rxb' = [i \in {0, 1} |-> rxb'[i]]
    BY <1>1, <1>4, <1>5
  <2> QED BY <1>4, <1>5, <2>1, <2>2, EmptyIs
<1>7. /\ defer' = [armed |-> defer'.armed, cap |-> defer'.cap, want |-> defer'.want,
                   age |-> defer'.age]
      /\ defer'.armed \in BOOLEAN /\ defer'.age \in Nat /\ IsSeq(defer'.cap)
      /\ ~defer'.armed => defer'.cap = <<>>
      /\ defer'.armed => defer' = defer
  BY <1>1, <1>4, <1>5, EmptyIs DEF Unarmed
<1>8. faults' \in 0 .. MaxFaults
  BY <1>1, <1>5, HostAssumption
<1>9. IdleOK'
  BY <1>1, <1>3, <1>5, <1>6 DEF IdleOK
<1>10. HostInv'
  <2>1. want' \in WantType
    BY <1>3, NothingIs
  <2> QED BY <1>1, <1>2, <1>3, <1>5, <1>6, <1>7, <1>8, <1>9, <2>1 DEF HostInv, WantType
<1> QED BY <1>1, <1>2, <1>3, <1>5, <1>7, <1>10

\* The calls that move nothing on the wire: a drain refused, gh_sync(), the modes, and core 1's
\* decoding of a descriptor.
LEMMA RefusedHost ==
  ASSUME HostInv, Refused
  PROVE  /\ HostInv' /\ call = None /\ call' = None /\ want' = Nothing
         /\ UNCHANGED <<link, sent, rxb, pend, pend_err, defer, faults, deaf, owed>>
         /\ result'.err # OK
<1>1. /\ call = None /\ result' = [err |-> "STATUS", words |-> <<>>, want |-> None]
      /\ want' = Nothing
      /\ UNCHANGED <<link, call, sent, rxb, rx_cur, retired, pipelined, pend, pend_err, defer,
                     faults, deaf, owed>>
  BY DEF Refused
<1>2. result'.err = "STATUS" /\ "STATUS" \in Errors /\ "STATUS" # OK
  BY <1>1 DEF Errors, OK
<1>3. want' \in WantType
  BY <1>1, NothingIs
<1>4. IdleOK'
  BY <1>1 DEF HostInv, IdleOK
<1> QED BY <1>1, <1>2, <1>3, <1>4 DEF HostInv, WantType

LEMMA SyncHost ==
  ASSUME HostInv, Sync
  PROVE  /\ HostInv' /\ call = None /\ call' = None
         /\ UNCHANGED <<link, sent, defer, faults, deaf>>
         /\ pend' = None /\ pend_err' = OK /\ result'.words = <<>>
         /\ want' = (IF Clear THEN want ELSE Nothing)
         /\ owed' = (IF Clear THEN owed ELSE 0)
<1> DEFINE e == IF pend_err # OK THEN pend_err ELSE Decode(rxb[pend.buf], pend)
<1>1. /\ call = None /\ pend # None
      /\ result' = [err |-> e, words |-> <<>>, want |-> None]
      /\ want' = (IF e = OK THEN want ELSE Nothing) /\ owed' = (IF e = OK THEN owed ELSE 0)
      /\ pend' = None /\ pend_err' = OK /\ rxb' = [rxb EXCEPT ![pend.buf] = <<>>]
      /\ UNCHANGED <<link, call, sent, rx_cur, retired, pipelined, defer, faults, deaf>>
  BY DEF Sync
<1>2. e = OK <=> Clear
  BY <1>1 DEF Clear
<1>3. e \in Errors \cup {OK}
  BY DecodeIs DEF HostInv
<1> HIDE DEF e
<1>4. result'.err \in Errors \cup {OK} /\ result'.words = <<>>
  BY <1>1, <1>3
<1>5. want' \in WantType
  BY <1>1, NothingIs DEF HostInv, WantType
<1>6. /\ IdleOK /\ rx_cur \in {0, 1} /\ pend.buf = 1 - rx_cur
      /\ rxb = [i \in {0, 1} |-> rxb[i]] /\ \A i \in {0, 1} : IsSeq(rxb[i])
  BY <1>1 DEF HostInv, IdleOK
<1>7. /\ rxb' = [i \in {0, 1} |-> rxb'[i]] /\ \A i \in {0, 1} : IsSeq(rxb'[i])
      /\ rxb'[rx_cur] = <<>> /\ rxb'[1 - rx_cur] = <<>>
  <2>1. rxb'[pend.buf] = <<>> /\ \A i \in {0, 1} : i # pend.buf => rxb'[i] = rxb[i]
    BY <1>1, <1>6
  <2>2. rxb' = [i \in {0, 1} |-> rxb'[i]]
    BY <1>1, <1>6
  <2>3. rxb[rx_cur] = <<>>
    BY <1>6 DEF IdleOK
  <2> QED BY <1>6, <2>1, <2>2, <2>3, EmptyIs
<1>8. IdleOK'
  BY <1>1, <1>6, <1>7 DEF IdleOK
<1>9. pend_err' \in Errors \cup {OK}
  BY <1>1
<1>10. HostInv'
  BY <1>1, <1>4, <1>5, <1>7, <1>8, <1>9 DEF HostInv, WantType
<1> QED BY <1>1, <1>2, <1>4, <1>10

LEMMA SetModeHost ==
  ASSUME HostInv, NEW on \in BOOLEAN, SetMode(on)
  PROVE  /\ HostInv' /\ call = None /\ call' = None
         /\ UNCHANGED <<link, sent, defer, faults, want, owed, deaf>>
         /\ MidStream \/ (pend = None /\ pend_err = OK)
         /\ pend' = None /\ pend_err' = OK /\ result'.words = <<>>
<1>1. /\ call = None /\ (MidStream \/ (pend = None /\ pend_err = OK))
      /\ pipelined' = on /\ pend' = None /\ pend_err' = OK
      /\ rxb' = [i \in {0, 1} |-> <<>>]
      /\ result' = [err |-> OK, words |-> <<>>, want |-> None]
      /\ UNCHANGED <<link, call, sent, rx_cur, retired, defer, faults, want, owed, deaf>>
  BY DEF SetMode, ghosts
<1>2. result'.err = OK /\ result'.words = <<>>
  BY <1>1
<1>3. rx_cur \in {0, 1} /\ 1 - rx_cur \in {0, 1}
  BY DEF HostInv
<1>4. /\ rxb' = [i \in {0, 1} |-> rxb'[i]] /\ \A i \in {0, 1} : IsSeq(rxb'[i])
      /\ rxb'[rx_cur] = <<>> /\ rxb'[1 - rx_cur] = <<>>
  BY <1>1, <1>3, EmptyIs
<1>5. IdleOK'
  BY <1>1, <1>4 DEF HostInv, IdleOK
<1>6. HostInv'
  BY <1>1, <1>2, <1>3, <1>4, <1>5 DEF HostInv
<1> QED BY <1>1, <1>2, <1>6

LEMMA DecodeDeferHost ==
  ASSUME HostInv, DecodeDefer
  PROVE  /\ HostInv' /\ (call # None => Cap' = Cap /\ call.kind = "plain") /\ defer.armed
         /\ UNCHANGED <<link, call, sent, rxb, pend, pend_err, faults, want, owed, deaf>>
         /\ result'.err = Decode(defer.cap, Drain) /\ result'.want = defer.want
         /\ result'.err = OK => result'.words = Delivered(defer.cap, Drain)
         /\ ~defer'.armed
<1> DEFINE e == Decode(defer.cap, Drain)
           words == IF e = OK THEN Delivered(defer.cap, Drain) ELSE <<>>
<1>1. /\ defer.armed /\ defer' = Unarmed
      /\ result' = [err |-> e, words |-> words, want |-> defer.want]
      /\ UNCHANGED <<link, call, sent, rxb, rx_cur, retired, pipelined, pend, pend_err,
                     faults, want, owed, deaf>>
  BY DEF DecodeDefer, ghosts
<1>2. e \in Errors \cup {OK}
  BY DecodeIs
<1> HIDE DEF e, words
<1>3. result'.err = e /\ result'.words = words /\ result'.want = defer.want
  BY <1>1
<1>4. /\ defer' = [armed |-> defer'.armed, cap |-> defer'.cap, want |-> defer'.want,
                   age |-> defer'.age]
      /\ defer'.armed \in BOOLEAN /\ ~defer'.armed /\ defer'.cap = <<>> /\ defer'.age \in Nat
  BY <1>1 DEF Unarmed
<1>5. call # None => CallOK /\ call.kind = "plain"
  <2>1. call # None => CallOK /\ call.kind \in {"plain", "deferred"}
    BY CallIs
  <2> QED BY <1>1, <2>1 DEF CallOK
<1>6. call # None => Cap' = Cap
  BY <1>1, <1>5 DEF Cap
<1>8. call # None => CallOK'
  BY <1>1, <1>4, <1>5, <1>6 DEF CallOK, Defers
<1>9. call = None => IdleOK'
  BY <1>1 DEF HostInv, IdleOK
<1>10. HostInv'
  <2>1. /\ defer'.armed \in BOOLEAN /\ defer'.age \in Nat /\ IsSeq(defer'.cap)
        /\ ~defer'.armed /\ (call' = None \/ call'.kind = "plain") => defer'.cap = <<>>
    <3>1. IsSeq(defer'.cap) /\ defer'.cap = <<>>
      BY <1>4, EmptyIs, Zenon
    <3>2. defer'.armed \in BOOLEAN /\ defer'.age \in Nat
      BY <1>4
    <3> QED BY <3>1, <3>2
  <2>2. result'.err \in Errors \cup {OK}
    BY <1>2, <1>3
  <2>3. call' # None => CallOK'
    BY <1>1, <1>8
  <2>4. call' = None => IdleOK'
    BY <1>1, <1>9
  <2>5. defer' = [armed |-> defer'.armed, cap |-> defer'.cap, want |-> defer'.want,
                  age |-> defer'.age]
    BY <1>4
  <2> QED BY <1>1, <2>1, <2>2, <2>3, <2>4, <2>5 DEF HostInv
<1> QED BY <1>1, <1>3, <1>4, <1>5, <1>6, <1>10 DEF e, words

\* A call the caller may make.
Starts(kind, c, p) ==
  /\ kind \in {"plain", "deferred"} /\ c \in Commands /\ p \in Seq(Byte) /\ WellFormed(c, p)
  /\ c = RUN /\ p = << 0 >> => want.acc # None /\ Len(want.acc) < MaxPass
  /\ kind = "deferred" => c = DRAIN
  /\ Begin(kind, c, p)

\* The steps of the driver, the caller's inputs as they are.
LEMMA NextCases ==
  ASSUME HostInv, [Next]_vars
  PROVE  \/ \E kind, c, p : Starts(kind, c, p)
         \/ Refused \/ Sync \/ \E on \in BOOLEAN : SetMode(on)
         \/ Slot \/ RetirePrevious \/ Finish \/ Stall \/ DecodeDefer \/ UNCHANGED vars
<1>1. ASSUME NEW c \in Calls, NEW p \in PayloadsOf(c), Begin("plain", c, p)
      PROVE  \E kind, d, q : Starts(kind, d, q)
  <2>1. Starts("plain", c, p)
    BY <1>1, PayloadsAre DEF Starts
  <2> QED BY <2>1
<1>2. ASSUME Begin("deferred", DRAIN, <<>>)
      PROVE  \E kind, d, q : Starts(kind, d, q)
  <2>1. DRAIN \in Commands /\ DRAIN # CFG /\ DRAIN # WGT /\ DRAIN # RUN
    BY Bytes
  <2>2. WellFormed(DRAIN, <<>>)
    BY <2>1, Zenon DEF WellFormed
  <2>3. Starts("deferred", DRAIN, <<>>)
    BY <1>2, <2>1, <2>2, EmptyPayload, Zenon DEF Starts
  <2> QED BY <2>3
<1> QED BY <1>1, <1>2, Zenon DEF Next, Caller

\* The bookkeeping under a step that changes nothing, out of reset, and under every action.
LEMMA HostStutters ==
  ASSUME HostInv, UNCHANGED vars
  PROVE  HostInv' /\ LinkInv' = LinkInv
<1>1. UNCHANGED <<link, call, sent, rxb, rx_cur, retired, pipelined, pend, pend_err, defer,
                  result, faults, want>>
  BY DEF vars, host, ghosts
<1>2. CallOK' = CallOK /\ IdleOK' = IdleOK
  BY <1>1 DEF CallOK, IdleOK, Cap, Defers
<1>3. UNCHANGED <<rstate, cmd, rem, got, bad_frame, underrun, resp, out, mem, cfg_K, busy, acc>>
  BY <1>1 DEF link, rx
<1> QED BY <1>1, <1>2, <1>3 DEF HostInv, LinkInv, LinkTypeOK, PayloadOK, ResponseOK, IsSeq, WordIs

LEMMA HostStarts == Init => HostInv
<1> SUFFICES ASSUME Init PROVE HostInv
  OBVIOUS
<1>1. /\ call = None /\ sent = 0 /\ rxb = [i \in {0, 1} |-> <<>>] /\ rx_cur = 0
      /\ retired = FALSE /\ pipelined = TRUE /\ pend = None /\ pend_err = OK /\ defer = Unarmed
      /\ result = [err |-> OK, words |-> <<>>, want |-> None] /\ faults = 0 /\ want = Nothing
  BY Zenon DEF Init
<1>2. /\ rxb = [i \in {0, 1} |-> rxb[i]] /\ \A i \in {0, 1} : IsSeq(rxb[i])
      /\ rxb[0] = <<>> /\ rxb[1] = <<>>
  BY <1>1, EmptyIs
<1>3. retired \in BOOLEAN /\ pipelined \in BOOLEAN
  BY <1>1, Zenon
<1>4. IdleOK
  BY <1>1, <1>2 DEF IdleOK
<1>5. /\ defer = [armed |-> defer.armed, cap |-> defer.cap, want |-> defer.want, age |-> defer.age]
      /\ defer.armed \in BOOLEAN /\ defer.age \in Nat /\ IsSeq(defer.cap)
      /\ defer.cap = <<>>
  BY <1>1, EmptyIs DEF Unarmed
<1>6. result.err = OK /\ want \in WantType /\ 0 \in 0 .. MaxFaults
  BY <1>1, NothingIs, HostAssumption
<1> QED BY <1>1, <1>2, <1>3, <1>4, <1>5, <1>6 DEF HostInv, WantType

\* The link under one of the driver's actions.
LEMMA LinkNext ==
  ASSUME LinkInv, HostInv, [Next]_vars
  PROVE  LinkInv'
<1>1. CASE \E kind, c, p : Starts(kind, c, p)
  <2>1. UNCHANGED link
    BY <1>1 DEF Starts, Begin
  <2> QED BY <2>1, LinkStutters
<1>2. CASE Refused \/ Sync \/ (\E on \in BOOLEAN : SetMode(on)) \/ RetirePrevious
  <2>1. UNCHANGED link
    BY <1>2 DEF Refused, Sync, SetMode, RetirePrevious
  <2> QED BY <2>1, LinkStutters
<1>3. CASE Finish \/ Stall \/ DecodeDefer
  <2>1. UNCHANGED link
    BY <1>3 DEF Finish, Stall, DecodeDefer
  <2> QED BY <2>1, LinkStutters
<1>4. CASE Slot
  <2>1. PICK b \in Byte, late \in BOOLEAN : \E t : Moves(b, late, t)
    BY <1>4, SlotIs
  <2>2. Clock(b, late)
    BY <2>1 DEF Moves
  <2> QED BY <2>2, LinkStep
<1>5. CASE UNCHANGED vars
  BY <1>5, LinkStutters DEF vars
<1> QED BY <1>1, <1>2, <1>3, <1>4, <1>5, NextCases

LEMMA HostNext ==
  ASSUME HostInv, [Next]_vars
  PROVE  HostInv'
<1>1. ASSUME NEW kind, NEW c, NEW p, Starts(kind, c, p)
      PROVE  HostInv'
  BY <1>1, BeginHost DEF Starts
<1>2. ASSUME NEW on \in BOOLEAN, SetMode(on)
      PROVE  HostInv'
  BY <1>2, SetModeHost
<1> QED BY <1>1, <1>2, RefusedHost, SyncHost, SlotHost, RetirePreviousHost, FinishHost, StallHost,
           DecodeDeferHost, HostStutters, NextCases

\* The link's and the driver's state keep their shape: whatever the wire does, a payload is
\* never longer than its memory, a response that is being sent is true of the tile, and the
\* buffer being filled is never the one that is still to be decoded.
THEOREM DriverShape == Spec => [](LinkInv /\ HostInv)
<1>1. Init => LinkInv /\ HostInv
  BY LinkStarts, HostStarts DEF Init
<1>2. LinkInv /\ HostInv /\ [Next]_vars => LinkInv' /\ HostInv'
  BY LinkNext, HostNext
<1> QED BY <1>1, <1>2, PTL DEF Spec

-----------------------------------------------------------------------------
\* A deferred failure is reported by the next call.

\* No failure waits after a call has retired the one before only if none waited before.
LEMMA RetireClear ==
  ASSUME HostInv, Retire
  PROVE  Clear' <=> Clear
<1>1. pend' = None /\ pend_err' = (IF pend # None /\ pend_err = OK THEN Decode(rxb[pend.buf], pend)
                                  ELSE pend_err)
  BY DEF Retire
<1> QED BY <1>1 DEF Clear

LEMMA BeginClear ==
  ASSUME HostInv, NEW kind, NEW c, NEW p, Starts(kind, c, p)
  PROVE  Clear' <=> Clear
<1>1. CASE Defers(kind, c)
  <2>1. UNCHANGED <<pend, pend_err, rxb>>
    BY <1>1 DEF Starts, Begin
  <2> QED BY <2>1 DEF Clear
<1>2. CASE ~Defers(kind, c)
  BY <1>2, RetireClear DEF Starts, Begin
<1> QED BY <1>1, <1>2

LEMMA SlotClear ==
  ASSUME HostInv, Slot
  PROVE  Clear' <=> Clear
<1>1. pend' = pend /\ pend_err' = pend_err /\ (pend # None => rxb'[pend.buf] = rxb[pend.buf])
  BY SlotIs, SlotHost
<1> QED BY <1>1 DEF Clear

\* A transaction that ran to its end: an OK means that nothing was pending, and a failure
\* not yet seen is pending now.
LEMMA FinishClear ==
  ASSUME HostInv, Finish
  PROVE  /\ want' # Nothing => Clear
         /\ result'.err = OK => Clear
         /\ call.kind = "plain" /\ Defers(call.kind, call.cmd)
              => (Clear' <=> Decode(Cap, call) = OK)
         /\ ~(call.kind = "plain" /\ Defers(call.kind, call.cmd)) => Clear'
<1>1. /\ call # None /\ pend = None /\ pend_err' = OK
  BY FinishIs
<1>2. \A e \in Errors \cup {OK} : Returned(TakePend(e), After)
        => /\ want' # Nothing => pend_err = OK
           /\ result'.err = OK => pend_err = OK
  BY TakePendIs DEF Returned
<1>3. OK \in Errors \cup {OK} /\ Decode(Cap, call) \in Errors \cup {OK}
  BY DecodeIs
<1>4. (want' # Nothing => pend_err = OK) /\ (result'.err = OK => pend_err = OK)
  BY <1>2, <1>3, FinishIs
<1>5. (want' # Nothing => Clear) /\ (result'.err = OK => Clear)
  BY <1>1, <1>4 DEF Clear
<1>6. ASSUME call.kind = "plain", Defers(call.kind, call.cmd)
      PROVE  Clear' <=> Decode(Cap, call) = OK
  <2>1. pend' = call /\ rxb' = rxb
    BY <1>6, FinishIs
  <2>2. Cap = rxb[call.buf]
    BY <1>6 DEF Cap
  <2> QED BY <1>1, <2>1, <2>2 DEF Clear
<1>7. ASSUME ~(call.kind = "plain" /\ Defers(call.kind, call.cmd))
      PROVE  Clear'
  <2>1. pend' = None
    BY <1>7, FinishIs
  <2> QED BY <1>1, <2>1 DEF Clear
<1> QED BY <1>5, <1>6, <1>7

\* A call that returns OK over a failure leaves the failure to be found.
LEMMA FinishOwes ==
  ASSUME HostInv, OwedOK, Finish
  PROVE  OwedOK'
<1>1. call # None /\ pend = None /\ call.kind \in {"plain", "deferred"}
  BY FinishIs, CallIs
<1>2. \A e \in Errors \cup {OK} : TakePend(e) = OK => owed = 0
  BY <1>1, TakePendIs DEF OwedOK, Clear
<1>3. \A words, w : \A e \in Errors \cup {OK}, failed \in BOOLEAN :
        Return(TakePend(e), words, w, failed) => owed' = IF failed THEN 1 ELSE 0
  BY <1>2 DEF Return
<1>4. OK \in Errors \cup {OK} /\ \A cap, k : Decode(cap, k) \in Errors \cup {OK}
  BY DecodeIs
<1>5. CASE call.kind = "plain" /\ Defers(call.kind, call.cmd)
  <2>1. Return(TakePend(OK), <<>>, None, Decode(rxb[call.buf], call) # OK)
    BY <1>5 DEF Finish
  <2>2. (Decode(rxb[call.buf], call) # OK) \in BOOLEAN
    OBVIOUS
  <2>3. owed' = IF Decode(rxb[call.buf], call) # OK THEN 1 ELSE 0
    BY <1>3, <1>4, <2>1, <2>2
  <2>4. Clear' <=> Decode(Cap, call) = OK
    BY <1>5, FinishClear
  <2>5. Cap = rxb[call.buf]
    BY <1>5 DEF Cap
  <2> QED BY <2>3, <2>4, <2>5 DEF OwedOK
<1>6. CASE ~(call.kind = "plain" /\ Defers(call.kind, call.cmd))
  <2>1. \E words, w : \E e \in Errors \cup {OK} : Return(TakePend(e), words, w, FALSE)
    <3> DEFINE d == Decode(rxb[call.buf], call)
               words == IF d = OK THEN Delivered(rxb[call.buf], call) ELSE <<>>
    <3>1. CASE call.kind = "deferred"
      <4>1. ~Defers(call.kind, call.cmd)
        BY <3>1 DEF Defers
      <4>2. Return(TakePend(OK), <<>>, None, FALSE)
        BY <3>1, <4>1 DEF Finish
      <4> QED BY <4>2, <1>4, Zenon
    <3>2. CASE call.kind = "plain"
      <4>1. ~Defers(call.kind, call.cmd) /\ call.kind # "deferred"
        BY <1>6, <3>2
      <4>2. Return(TakePend(d), words, want.acc, FALSE)
        BY <4>1 DEF Finish
      <4> QED BY <4>2, <1>4, Zenon
    <3> QED BY <1>1, <3>1, <3>2
  <2>2. owed' = 0
    BY <1>3, <2>1
  <2> QED BY <2>2 DEF OwedOK
<1> QED BY <1>5, <1>6

\* Every action keeps what is owed findable.
LEMMA OwedNext ==
  ASSUME ~MidStream, LinkInv, HostInv, OwedOK, [Next]_vars
  PROVE  OwedOK'
<1>1. ASSUME NEW kind, NEW c, NEW p, Starts(kind, c, p)
      PROVE  OwedOK'
  <2>1. owed' = owed
    BY <1>1 DEF Starts, Begin, ghosts
  <2> QED BY <1>1, <2>1, BeginClear DEF OwedOK
<1>2. CASE Refused
  BY <1>2, RefusedHost DEF OwedOK, Clear
<1>3. CASE Sync
  BY <1>3, SyncHost DEF OwedOK, Clear
<1>4. ASSUME NEW on \in BOOLEAN, SetMode(on)
      PROVE  OwedOK'
  <2>1. owed' = owed /\ pend = None /\ pend_err = OK
    BY <1>4, SetModeHost
  <2> QED BY <2>1 DEF OwedOK, Clear
<1>5. CASE Slot
  BY <1>5, SlotIs, SlotClear DEF OwedOK
<1>6. CASE RetirePrevious
  <2>1. owed' = owed /\ Retire
    BY <1>6, RetirePreviousHost DEF ghosts
  <2> QED BY <2>1, RetireClear DEF OwedOK
<1>7. CASE Stall
  <2>1. Return("STALL", <<>>, None, FALSE)
    BY <1>7 DEF Stall
  <2>2. owed' = 0
    BY <2>1 DEF Return, OK
  <2> QED BY <2>2 DEF OwedOK
<1>8. CASE DecodeDefer
  BY <1>8, DecodeDeferHost DEF OwedOK, Clear
<1>9. CASE UNCHANGED vars
  BY <1>9 DEF vars, host, ghosts, OwedOK, Clear
<1> QED BY <1>1, <1>2, <1>3, <1>4, <1>5, <1>6, <1>7, <1>8, <1>9, FinishOwes, NextCases

\* gemm_host.h of gh_sync(): "A deferred failure is reported at most one transaction late; it is
\* never lost."  Of any caller that does not switch modes with a response pending, over any number
\* of faults: a failure not yet reported is what the next call finds when it retires.
THEOREM FailuresComeNext ==
  ASSUME ~MidStream
  PROVE  Spec => []AtMostOneLate
<1>1. Init => OwedOK
  BY DEF Init, OwedOK
<1>2. LinkInv /\ HostInv /\ OwedOK /\ [Next]_vars => OwedOK'
  BY OwedNext
<1>3. OwedOK => AtMostOneLate
  BY DEF OwedOK, AtMostOneLate
<1> QED BY <1>1, <1>2, <1>3, DriverShape, PTL DEF Spec

-----------------------------------------------------------------------------
\* A slot, as the state of the receiver has it.

\* Which of the receiver's steps a slot is.
LEMMA ClockIs ==
  ASSUME NEW b, NEW late, Clock(b, late)
  PROVE  /\ rstate = "HUNT" => Hunt(b)
         /\ rstate = "CMD" => Command(b)
         /\ rstate = "LEN" => Length(b, late)
         /\ rstate = "PAY" => Payload(b)
         /\ rstate = "WAIT" => Sweep
         /\ rstate = "TX" => Transmit
  BY DEF Clock, Hunt, Command, Length, Payload, Sweep, Transmit

\* What the tile is not touched by: everything but a payload and an execution.
LEMMA HuntIs ==
  ASSUME NEW b, NEW late, Clock(b, late), rstate = "HUNT"
  PROVE  /\ rstate' = IF b = SYNC THEN "CMD" ELSE "HUNT"
         /\ UNCHANGED <<cmd, rem, got, resp, out, mem, cfg_K, busy, acc>>
  BY ClockIs DEF Hunt

\* The header's two bytes, and R_WAIT and R_TX, as the receiver takes them.
LEMMA CommandIs ==
  ASSUME NEW b, NEW late, Clock(b, late), rstate = "CMD"
  PROVE  /\ rstate' = "LEN" /\ cmd' = b
         /\ UNCHANGED <<rem, got, resp, out, mem, cfg_K, busy, acc>>
  BY ClockIs DEF Command

LEMMA LengthIs ==
  ASSUME NEW b, NEW late, Clock(b, late), rstate = "LEN"
  PROVE  \/ /\ ~LengthOk(cmd, b) /\ rstate' = "HUNT"
            /\ UNCHANGED <<cmd, rem, got, resp, out, mem, cfg_K, busy, acc>>
         \/ /\ LengthOk(cmd, b) /\ b # 0 /\ rstate' = "PAY" /\ rem' = b /\ got' = <<>>
            /\ UNCHANGED <<cmd, resp, out, mem, cfg_K, busy, acc>>
         \/ LengthOk(cmd, b) /\ b = 0 /\ Exec(<<>>, mem, late)
<1>1. Length(b, late)
  BY ClockIs
<1> QED BY <1>1, Zenon DEF Length

LEMMA AnswerIs ==
  ASSUME LinkInv, NEW b, NEW late, Clock(b, late), rstate \in {"WAIT", "TX"}
  PROVE  /\ UNCHANGED <<cmd, rem, got, mem, cfg_K, acc>>
         /\ \/ /\ rstate = "WAIT" /\ rstate' \in {"WAIT", "TX"} /\ busy' = busy - 1
               /\ resp' = resp /\ out' = 0 /\ out = 0
            \/ /\ rstate = "TX" /\ out + 1 = Len(resp) /\ rstate' = "HUNT" /\ busy' = busy
               /\ out' = 0
            \/ /\ rstate = "TX" /\ out + 1 < Len(resp) /\ rstate' = "TX" /\ busy' = busy
               /\ resp' = resp /\ out' = out + 1
<1>1. CASE rstate = "WAIT"
  <2>1. Sweep /\ out = 0
    BY <1>1, ClockIs DEF LinkInv
  <2> QED BY <1>1, <2>1 DEF Sweep
<1>2. CASE rstate = "TX"
  <2>1. Transmit /\ out \in Nat /\ out < Len(resp) /\ Len(resp) \in {4, 5}
    BY <1>2, ClockIs DEF LinkInv, ResponseOK
  <2>2. CASE out + 1 = Len(resp)
    BY <1>2, <2>1, <2>2 DEF Transmit
  <2>3. CASE out + 1 # Len(resp)
    <3>1. out + 1 < Len(resp)
      BY <2>1, <2>3
    <3> QED BY <1>2, <2>1, <2>3, <3>1 DEF Transmit
  <2> QED BY <2>2, <2>3
<1> QED BY <1>1, <1>2

\* The slots of a sweep and of a response are counted, and leave the tile alone.
LEMMA AnswersStep ==
  ASSUME LinkInv, sent \in Nat, sent' = sent + 1, Length0 \in Nat, call' = call,
         Answers, NEW b, NEW late, Clock(b, late)
  PROVE  /\ Answers' \/ rstate' = "HUNT"
         /\ UNCHANGED <<cmd, mem, cfg_K, acc>>
<1>1. /\ rstate \in {"WAIT", "TX"} /\ sent + (busy + Len(resp) - out) <= Length0
      /\ Len(resp) \in Nat /\ out \in Nat /\ busy \in Nat
  BY Bytes DEF Answers, Left, LinkInv, ResponseOK, LinkTypeOK
<1>2. Length0' = Length0
  BY DEF Length0
<1>3. UNCHANGED <<cmd, mem, cfg_K, acc>>
  BY <1>1, AnswerIs
<1>4. CASE /\ rstate' \in {"WAIT", "TX"} /\ busy' = busy - 1
           /\ resp' = resp /\ out' = 0 /\ out = 0
  <2>1. Left' = busy - 1 + Len(resp) - 0
    BY <1>4 DEF Left
  <2>2. sent' + Left' <= Length0'
    BY <1>1, <1>2, <1>4, <2>1
  <2> QED BY <1>3, <1>4, <2>2 DEF Answers
<1>5. CASE /\ rstate' = "TX" /\ busy' = busy /\ resp' = resp /\ out' = out + 1
  <2>1. Left' = busy + Len(resp) - (out + 1)
    BY <1>5 DEF Left
  <2>2. sent' + Left' <= Length0'
    BY <1>1, <1>2, <1>5, <2>1
  <2> QED BY <1>3, <1>5, <2>2 DEF Answers
<1> QED BY <1>1, <1>3, <1>4, <1>5, AnswerIs

\* The call's frame has been executed, with memory m.
Takes(m, late) ==
  /\ cmd = call.cmd /\ sent' = 3 + PayLen /\ m \in Mem /\ Exec(call.pay, m, late)
  /\ cmd # WGT => m = mem
  /\ cmd = WGT => /\ \A j \in 1 .. PayLen : m[j] = call.pay[j]
                  /\ \A j \in 1 .. WGTMAX : j > PayLen => m[j] = mem[j]

\* What an execution of the call's frame leaves.
LEMMA TakesIs ==
  ASSUME LinkInv, HostInv, call # None, call' = call, rstate \in {"LEN", "PAY"},
         NEW late \in BOOLEAN, NEW m, Takes(m, late)
  PROVE  /\ ResponseOK' /\ out' = 0 /\ resp'[3][2] = call.pay
         /\ Len(resp') = 5 => call.cmd = DRAIN /\ ~late
         /\ Len(resp') \in {4, 5} /\ cmd' = call.cmd /\ mem' = m
         /\ cfg_K' = IF call.cmd = CFG THEN K ELSE cfg_K
         /\ call.cmd # RUN => rstate' = "TX" /\ busy' = 0 /\ acc' = acc
         /\ call.cmd = RUN => rstate' = "WAIT" /\ busy' = cfg_K + 1
         /\ cfg_K <= K \/ call.cmd # RUN => Answers'
<1>1. /\ call.cmd \in Commands /\ call.pay \in Seq(Byte) /\ WellFormed(call.cmd, call.pay)
      /\ PayLen \in 0 .. 2
      /\ Length0 = 3 + PayLen + 5 + (IF call.cmd = DRAIN THEN 1 ELSE 0)
                     + (IF call.cmd = RUN THEN 2 ELSE 0)
  BY CallIs
<1>2. LengthOk(cmd, Len(call.pay)) /\ cmd \in Commands /\ PayLen = Len(call.pay)
      /\ (call.cmd = CFG => call.pay[1] = K) /\ (call.cmd = RUN => PayLen = 1)
  BY <1>1, PayloadOf DEF Takes, PayLen
<1>3. /\ m \in Mem /\ Exec(call.pay, m, late) /\ cmd = call.cmd
      /\ (cmd = WGT => \A j \in 1 .. Len(call.pay) : m[j] = call.pay[j])
      /\ sent' = 3 + PayLen
  BY <1>2 DEF Takes
<1>4. busy = 0 /\ cfg_K \in Byte
  BY DEF LinkInv, LinkTypeOK
<1>5. /\ ResponseOK' /\ out' = 0 /\ resp'[3][2] = call.pay /\ Len(resp') \in {4, 5}
      /\ Len(resp') = 5 => cmd = DRAIN /\ ~late
      /\ cmd' = cmd /\ mem' = m /\ cfg_K' = (IF cmd = CFG THEN call.pay[1] ELSE cfg_K)
      /\ cmd # RUN => rstate' = "TX" /\ busy' = busy /\ acc' = acc
      /\ cmd = RUN => rstate' = "WAIT" /\ busy' = cfg_K + 1
  BY <1>1, <1>2, <1>3, ExecIs
<1>6. ASSUME cfg_K <= K \/ call.cmd # RUN
      PROVE  Answers'
  <2>1. rstate' \in {"WAIT", "TX"} /\ Length0' = Length0
    BY <1>3, <1>5 DEF Length0
  <2>2. Left' = busy' + Len(resp') - out'
    BY <2>1 DEF Left
  <2>3. CASE call.cmd = RUN
    <3>1. Len(resp') = 4
      BY <1>3, <1>5, <2>3, Bytes
    <3>2. Left' = cfg_K + 1 + 4
      BY <1>3, <1>4, <1>5, <2>2, <2>3, <3>1, Bytes
    <3>3. Length0' = 11 /\ sent' = 4 /\ cfg_K <= 1
      <4>1. PayLen = 1 /\ call.cmd # DRAIN /\ cfg_K <= 1
        BY <1>2, <1>6, <2>3, Bytes
      <4>2. Length0 = 11
        BY <1>1, <2>3, <4>1
      <4> QED BY <1>3, <2>1, <4>1, <4>2
    <3> QED BY <1>4, <2>1, <3>2, <3>3, Bytes DEF Answers
  <2>4. CASE call.cmd # RUN
    <3>1. Left' = Len(resp')
      BY <1>3, <1>4, <1>5, <2>2, <2>4
    <3>2. Left' <= 4 + (IF call.cmd = DRAIN THEN 1 ELSE 0)
      BY <1>3, <1>5, <3>1
    <3>3. Length0' = 8 + PayLen + (IF call.cmd = DRAIN THEN 1 ELSE 0) /\ sent' = 3 + PayLen
      BY <1>1, <1>3, <2>1, <2>4, Bytes
    <3> QED BY <1>1, <1>5, <2>1, <3>1, <3>2, <3>3 DEF Answers
  <2> QED BY <2>3, <2>4
<1> QED BY <1>2, <1>3, <1>4, <1>5, <1>6

\* A byte of the frame, undamaged, taken in step.
LEMMA ReceivingStep ==
  ASSUME LinkInv, HostInv, call # None, call' = call, sent' = sent + 1, sent < Length0,
         Receiving, NEW late \in BOOLEAN, Clock(NextByte, late)
  PROVE  /\ sent < 3 + PayLen
         /\ \/ /\ Receiving' /\ UNCHANGED <<cfg_K, acc>>
               /\ rstate' = "PAY" \/ mem' = mem
               /\ rstate' = "PAY" /\ rstate # "PAY" => mem' = mem /\ got' = <<>>
               /\ rstate' = "PAY" /\ rstate = "PAY" =>
                    /\ Len(got') = Len(got) + 1 /\ cmd' = cmd
                    /\ cmd # WGT => mem' = mem
                    /\ \A j \in 1 .. WGTMAX : j > Len(got') => mem'[j] = mem[j]
            \/ rstate \in {"LEN", "PAY"} /\ \E m : Takes(m, late)
<1>1. /\ call.cmd \in Commands /\ call.pay \in Seq(Byte) /\ WellFormed(call.cmd, call.pay)
      /\ PayLen \in 0 .. 2 /\ PayLen = Len(call.pay) /\ sent \in Nat
  BY CallIs DEF PayLen
<1>2. /\ ByteAt(call.cmd, call.pay, 0) = SYNC /\ ByteAt(call.cmd, call.pay, 1) = call.cmd
      /\ ByteAt(call.cmd, call.pay, 2) = PayLen
      /\ \A j \in 1 .. PayLen : ByteAt(call.cmd, call.pay, j + 2) = call.pay[j]
  BY <1>1, FrameIs
<1>3. LengthOk(call.cmd, PayLen)
  BY <1>1, PayloadOf
<1>4. PayLen' = PayLen
  BY DEF PayLen
<1>5. CASE sent = 0 /\ rstate = "HUNT"
  <2>1. NextByte = SYNC
    BY <1>2, <1>5 DEF NextByte
  <2>2. rstate' = "CMD" /\ UNCHANGED <<mem, cfg_K, acc>>
    BY <1>5, <2>1, HuntIs
  <2> QED BY <1>1, <1>5, <2>2 DEF Receiving
<1>6. CASE sent = 1 /\ rstate = "CMD"
  <2>1. NextByte = call.cmd
    BY <1>2, <1>6 DEF NextByte
  <2>2. rstate' = "LEN" /\ cmd' = call.cmd /\ UNCHANGED <<mem, cfg_K, acc>>
    BY <1>6, <2>1, CommandIs
  <2> QED BY <1>1, <1>6, <2>2 DEF Receiving
<1>7. CASE sent = 2 /\ rstate = "LEN" /\ cmd = call.cmd
  <2>1. NextByte = PayLen
    BY <1>2, <1>7 DEF NextByte
  <2>2. CASE PayLen = 0
    <3>1. Exec(<<>>, mem, late)
      BY <1>3, <1>7, <2>1, <2>2, LengthIs
    <3>2. call.pay = <<>>
      BY <1>1, <2>2, EmptySeq
    <3>3. Takes(mem, late)
      <4>1. Exec(call.pay, mem, late)
        BY <3>1, <3>2, Zenon
      <4>2. mem \in Mem /\ sent' = 3 + PayLen /\ 1 .. PayLen = {}
        BY <1>7, <2>2 DEF LinkInv, LinkTypeOK
      <4> QED BY <1>7, <4>1, <4>2 DEF Takes
    <3> QED BY <1>1, <1>7, <3>3
  <2>3. CASE PayLen # 0
    <3>1. /\ rstate' = "PAY" /\ rem' = PayLen /\ got' = <<>>
          /\ UNCHANGED <<cmd, mem, cfg_K, acc>>
      BY <1>3, <1>7, <2>1, <2>3, LengthIs
    <3>2. Len(got') = 0
      BY <3>1, EmptySeq
    <3>3. Receiving'
      BY <1>1, <1>4, <1>7, <2>3, <3>1, <3>2 DEF Receiving
    <3> QED BY <1>1, <1>7, <3>1, <3>3
  <2> QED BY <2>2, <2>3
<1>8. CASE /\ sent \in 3 .. (2 + PayLen) /\ rstate = "PAY" /\ cmd = call.cmd
           /\ Len(got) = sent - 3 /\ rem = PayLen - Len(got)
           /\ \A j \in 1 .. Len(got) : got[j] = call.pay[j]
  <2> DEFINE b == NextByte
             p == Append(got, b)
             m == IF cmd = WGT THEN [mem EXCEPT ![Len(p)] = b] ELSE mem
  <2>1. b = call.pay[Len(got) + 1] /\ b \in Byte
    <3>1. Len(got) + 1 \in 1 .. PayLen /\ sent = (Len(got) + 1) + 2
      BY <1>1, <1>8
    <3>2. b = call.pay[Len(got) + 1]
      BY <1>2, <3>1 DEF NextByte
    <3> QED BY <1>1, <3>1, <3>2, PayloadOf
  <2>2. /\ p \in Seq(Byte) /\ Len(got) \in Nat /\ Len(p) = Len(got) + 1
        /\ \A j \in 1 .. Len(got) : p[j] = got[j]
        /\ p[Len(got) + 1] = b
        /\ m \in Mem
        /\ cmd # WGT => m = mem
        /\ cmd = WGT => \A j \in 1 .. Len(p) : m[j] = p[j]
        /\ \A j \in 1 .. WGTMAX : j > Len(p) => m[j] = mem[j]
    BY <1>8, <2>1, PayloadIs
  <2>3. Payload(b)
    BY <1>8, ClockIs
  <2>4. IF rem = 1 THEN Exec(p, m, FALSE)
        ELSE /\ rem' = rem - 1 /\ got' = p /\ mem' = m
             /\ UNCHANGED <<rstate, cmd, bad_frame, underrun, resp, out, cfg_K, busy, acc>>
    BY <2>3, Zenon DEF Payload
  <2> HIDE DEF p, m, b
  <2>5. \A j \in 1 .. Len(p) : p[j] = call.pay[j]
    BY <1>8, <2>1, <2>2
  <2>6. CASE rem = 1
    <3>1. Len(p) = PayLen
      BY <1>1, <1>8, <2>2, <2>6
    <3>2. p = call.pay
      BY <1>1, <2>2, <2>5, <3>1, SeqEqual
    <3>3. Exec(call.pay, m, FALSE)
      BY <2>4, <2>6, <3>2, Zenon
    <3>4. Exec(call.pay, m, late)
      <4>1. cmd # DRAIN
        BY <1>8, Bytes DEF LinkInv, PayloadOK
      <4> QED BY <3>3, <4>1 DEF Exec
    <3>5. Takes(m, late)
      <4>1. sent' = 3 + PayLen
        BY <1>1, <1>8, <2>2, <2>6
      <4> QED BY <1>8, <2>2, <2>5, <3>1, <3>4, <4>1 DEF Takes
    <3> QED BY <1>1, <1>8, <3>5
  <2>7. CASE rem # 1
    <3>1. /\ rem' = rem - 1 /\ got' = p /\ mem' = m
          /\ UNCHANGED <<rstate, cmd, cfg_K, acc>>
      BY <2>4, <2>7
    <3>2. sent' \in 3 .. (2 + PayLen)
      BY <1>1, <1>8, <2>2, <2>7
    <3>3. Len(got') = sent' - 3 /\ rem' = PayLen - Len(got')
      BY <1>1, <1>8, <2>2, <3>1
    <3>4. Receiving'
      BY <1>4, <1>8, <2>5, <3>1, <3>2, <3>3 DEF Receiving
    <3> QED BY <1>1, <1>8, <2>2, <3>1, <3>4
  <2> QED BY <2>6, <2>7
<1> QED BY <1>5, <1>6, <1>7, <1>8 DEF Receiving

\* While a response is being sent there are slots to go.
LEMMA LeftIs ==
  ASSUME LinkInv
  PROVE  /\ Left \in Nat
         /\ rstate \in {"WAIT", "TX"} => Left >= 1
         /\ rstate = "WAIT" => Left = busy + Len(resp) /\ out = 0 /\ busy >= 1
         /\ rstate = "TX" => Left = Len(resp) - out /\ busy = 0
         /\ rstate \notin {"WAIT", "TX"} => Left = 0
<1>1. CASE rstate = "WAIT"
  <2>1. busy \in Nat /\ busy >= 1 /\ out = 0 /\ Len(resp) \in {4, 5}
    BY <1>1, Bytes DEF LinkInv, LinkTypeOK, ResponseOK
  <2> QED BY <1>1, <2>1 DEF Left
<1>2. CASE rstate = "TX"
  <2>1. busy = 0 /\ out \in Nat /\ out < Len(resp) /\ Len(resp) \in {4, 5}
    BY <1>2 DEF LinkInv, ResponseOK
  <2> QED BY <1>2, <2>1 DEF Left
<1>3. CASE rstate \notin {"WAIT", "TX"}
  BY <1>3 DEF Left
<1> QED BY <1>1, <1>2, <1>3

\* A step that moves neither the link nor the frame.
LEMMA LinkSame ==
  ASSUME UNCHANGED link
  PROVE  UNCHANGED <<rstate, cmd, rem, got, bad_frame, underrun, resp, out, mem, cfg_K, busy, acc>>
  BY DEF link, rx

\* In step, under a step that moves neither, and under a slot.
LEMMA InStepSame ==
  ASSUME InStep, UNCHANGED <<link, call, sent, faults>>
  PROVE  InStep'
  BY LinkSame DEF InStep, Receiving, Answers, Left, Length0, PayLen

LEMMA InStepSlot ==
  ASSUME LinkInv, HostInv, InStep, Slot
  PROVE  InStep'
<1>1. /\ call # None /\ sent < Length0 /\ sent' = sent + 1 /\ NextByte \in Byte
      /\ call' = call /\ sent \in Nat /\ Length0 \in Nat /\ PayLen \in 0 .. 2
  BY SlotIs, CallIs
<1>2. PICK b \in Byte, late \in BOOLEAN : \E t : Moves(b, late, t)
  BY SlotIs
<1>3. SUFFICES ASSUME faults' = 0
               PROVE  InStep'
  BY DEF InStep
<1>4. faults = 0 /\ b = NextByte /\ ~late /\ Clock(b, late)
  <2>1. faults \in Nat
    BY DEF HostInv
  <2> QED BY <1>2, <1>3, <2>1 DEF Moves
<1>5. cfg_K <= K
  BY <1>4 DEF InStep
<1>6. CASE Receiving
  <2>1. CASE Receiving' /\ cfg_K' = cfg_K
    BY <1>1, <1>3, <1>5, <2>1 DEF InStep
  <2>2. ASSUME rstate \in {"LEN", "PAY"}, NEW m, Takes(m, late)
        PROVE  InStep'
    <3>1. Answers' /\ cfg_K' <= K /\ sent' = 3 + PayLen /\ PayLen' = PayLen
      <4>1. K <= K
        BY Bytes
      <4> QED BY <1>1, <1>5, <2>2, <4>1, TakesIs DEF Takes, PayLen
    <3>2. sent' >= 3 + PayLen'
      BY <1>1, <3>1
    <3> QED BY <1>1, <3>1, <3>2 DEF InStep
  <2> QED BY <1>1, <1>4, <1>6, <2>1, <2>2, ReceivingStep
<1>7. CASE sent >= 3 + PayLen /\ rstate = "HUNT"
  <2>1. NextByte = 0
    BY <1>1, <1>7, CallIs, FrameIs DEF NextByte, PayLen
  <2>2. rstate' = "HUNT" /\ cfg_K' = cfg_K
    BY <1>4, <1>7, <2>1, HuntIs, Bytes
  <2>3. sent' >= 3 + PayLen'
    BY <1>1, <1>7 DEF PayLen
  <2> QED BY <1>1, <1>5, <2>2, <2>3 DEF InStep
<1>8. CASE sent >= 3 + PayLen /\ Answers
  <2>1. (Answers' \/ rstate' = "HUNT") /\ cfg_K' = cfg_K
    BY <1>1, <1>4, <1>8, AnswersStep
  <2>2. sent' >= 3 + PayLen'
    BY <1>1, <1>8 DEF PayLen
  <2> QED BY <1>1, <1>5, <2>1, <2>2 DEF InStep
<1> QED BY <1>1, <1>4, <1>6, <1>7, <1>8 DEF InStep

\* Until something goes wrong the link is where the frame says, and hunts between frames.
LEMMA InStepNext ==
  ASSUME LinkInv, HostInv, InStep, [Next]_vars
  PROVE  InStep'
<1>1. ASSUME NEW kind, NEW c, NEW p, Starts(kind, c, p)
      PROVE  InStep'
  <2>1. call = None /\ call' # None /\ sent' = 0 /\ faults' = faults
    BY <1>1, BeginHost DEF Starts
  <2>2. UNCHANGED link
    BY <1>1 DEF Starts, Begin
  <2> QED BY <2>1, <2>2, LinkSame DEF InStep, Receiving
<1>2. CASE Refused \/ Sync \/ (\E on \in BOOLEAN : SetMode(on)) \/ DecodeDefer \/ RetirePrevious
  <2>1. UNCHANGED <<link, call, sent, faults>>
    BY <1>2 DEF Refused, Sync, SetMode, DecodeDefer, RetirePrevious
  <2> QED BY <2>1, InStepSame
<1>3. CASE Slot
  BY <1>3, InStepSlot
<1>4. CASE Finish
  <2>1. /\ call # None /\ sent = Length0 /\ UNCHANGED <<link, faults>> /\ call' = None
        /\ sent \in Nat /\ PayLen \in 0 .. 2 /\ Length0 >= 8 + PayLen
    <3>1. call # None /\ sent = Length0 /\ UNCHANGED <<link, faults>> /\ call' = None
      BY <1>4, FinishIs DEF Returned
    <3> QED BY <3>1, CallIs
  <2>2. ~Receiving /\ ~Answers
    BY <2>1, LeftIs DEF Receiving, Answers
  <2> QED BY <2>1, <2>2, LinkSame DEF InStep
<1>5. CASE Stall
  <2>1. faults' # 0
    BY <1>5, StallHost DEF HostInv
  <2> QED BY <2>1 DEF InStep
<1>6. CASE UNCHANGED vars
  BY <1>6, InStepSame DEF vars, host
<1> QED BY <1>1, <1>2, <1>3, <1>4, <1>5, <1>6, NextCases

-----------------------------------------------------------------------------
\* What is captured, and what the tile holds, under a slot.

\* The capture grows by a token: what was there stays, and so does the first preamble.
LEMMA CapStep ==
  ASSUME HostInv, call # None, call' = call, sent' = sent + 1, NEW t, Capture(t)
  PROVE  /\ Len(Cap) = sent /\ Len(Cap') = sent + 1
         /\ \A i \in 1 .. sent : Cap'[i] = Cap[i]
         /\ Cap'[sent + 1] = t
         /\ NoPre /\ t # Pre => NoPre'
         /\ NoPre /\ t = Pre => First(Cap', sent + 1)
         /\ \A o : First(Cap, o) => o \in 1 .. sent /\ First(Cap', o)
<1>1. IsSeq(Cap) /\ Len(Cap) = sent /\ sent \in Nat /\ Cap' = Append(Cap, t)
  BY CallIs, CaptureIs
<1>2. /\ DOMAIN Cap = 1 .. sent /\ DOMAIN Cap' = 1 .. (sent + 1) /\ Len(Cap') = sent + 1
      /\ \A i \in 1 .. sent : Cap'[i] = Cap[i]
      /\ Cap'[sent + 1] = t
  <2>1. /\ IsSeq(Append(Cap, t)) /\ Len(Append(Cap, t)) = Len(Cap) + 1
        /\ DOMAIN Cap = 1 .. Len(Cap) /\ DOMAIN Append(Cap, t) = 1 .. (Len(Cap) + 1)
        /\ \A i \in 1 .. Len(Cap) : Append(Cap, t)[i] = Cap[i]
        /\ Append(Cap, t)[Len(Cap) + 1] = t
    BY <1>1, AppendIs
  <2> QED BY <1>1, <2>1, Zenon
<1>3. NoPre <=> \A i \in 1 .. sent : Cap[i] # Pre
  BY <1>2 DEF NoPre, Preambles
<1>4. NoPre' <=> \A i \in 1 .. (sent + 1) : Cap'[i] # Pre
  <2>1. NoPre' <=> \A i \in DOMAIN Cap' : Cap'[i] # Pre
    BY DEF NoPre, Preambles
  <2> QED BY <1>2, <2>1
<1>5. NoPre /\ t # Pre => NoPre'
  BY <1>1, <1>2, <1>3, <1>4
<1>6. NoPre /\ t = Pre => First(Cap', sent + 1)
  BY <1>1, <1>2, <1>3 DEF First
<1>7. ASSUME NEW o, First(Cap, o)
      PROVE  o \in 1 .. sent /\ First(Cap', o)
  <2>1. o \in 1 .. sent /\ Cap[o] = Pre /\ \A i \in 1 .. (o - 1) : Cap[i] # Pre
    BY <1>2, <1>7 DEF First
  <2>2. \A i \in 1 .. (o - 1) : i \in 1 .. sent
    BY <1>1, <2>1
  <2> QED BY <1>1, <1>2, <2>1, <2>2 DEF First
<1> QED BY <1>1, <1>2, <1>5, <1>6, <1>7

\* What was wrong with a capture stays wrong.
LEMMA BadStays ==
  ASSUME HostInv, call # None, call' = call, sent' = sent + 1, NEW t, Capture(t), Bad(Cap)
  PROVE  Bad(Cap)'
<1>1. /\ Len(Cap) = sent /\ Len(Cap') = sent + 1 /\ sent \in Nat
      /\ \A i \in 1 .. sent : Cap'[i] = Cap[i]
      /\ \A o : First(Cap, o) => First(Cap', o)
  BY CapStep, CallIs
<1>2. PICK o \in 1 .. (sent - 2) :
        /\ First(Cap, o)
        /\ Cap[o + 1][1] # "status" \/ Cap[o + 1][2] # call.cmd \/ Cap[o + 2] # RxCrc(call.pay)
  BY <1>1 DEF Bad
<1>3. o \in 1 .. (Len(Cap') - 2) /\ Cap'[o + 1] = Cap[o + 1] /\ Cap'[o + 2] = Cap[o + 2]
  BY <1>1, <1>2
<1>4. Bad(Cap') <=> \E x \in 1 .. (Len(Cap') - 2) :
        /\ First(Cap', x)
        /\ Cap'[x + 1][1] # "status" \/ Cap'[x + 1][2] # call.cmd \/ Cap'[x + 2] # RxCrc(call.pay)
  BY DEF Bad
<1>5. Bad(Cap')
  BY <1>1, <1>2, <1>3, <1>4
<1> QED BY <1>5 DEF Bad

\* What is transmitted.
LEMMA SentIs ==
  ASSUME LinkInv
  PROVE  /\ rstate # "TX" => Sent = Low /\ Sent # Pre
         /\ rstate = "TX" => Sent = resp[out + 1] /\ (Sent = Pre <=> out = 0)
         /\ Junk # Pre
<1>1. rstate # "TX" => Sent = Low
  BY DEF Sent
<1>2. ASSUME rstate = "TX"
      PROVE  Sent = resp[out + 1] /\ (Sent = Pre <=> out = 0)
  <2>1. /\ Sent = resp[out + 1] /\ out \in Nat /\ out < Len(resp) /\ Len(resp) \in {4, 5}
        /\ resp[1] = Pre /\ \A i \in 2 .. Len(resp) : resp[i] # Pre
    BY <1>2 DEF Sent, LinkInv, ResponseOK
  <2>2. out # 0 => out + 1 \in 2 .. Len(resp)
    BY <2>1
  <2> QED BY <2>1, <2>2
<1> QED BY <1>1, <1>2, Tokens

\* Within a call what it will leave does not change.
LEMMA AfterSame ==
  ASSUME call' = call, want' = want
  PROVE  After' = After /\ PayLen' = PayLen /\ Length0' = Length0
  BY DEF After, WantAfter, PayLen, Length0

\* An accumulator of passes told apart is not one of too many.
LEMMA NotTooMany == TooMany \notin Passes
<1>1. SUFFICES ASSUME TooMany \in Passes PROVE FALSE
  OBVIOUS
<1>2. Len(TooMany) = 1 /\ TooMany[1] = <<>>
  BY ShortIs DEF TooMany
<1>3. TooMany[1] \in Mem \X Byte
  <2>1. TooMany \in Seq(Mem \X Byte)
    BY <1>1 DEF Passes
  <2>2. \A i \in 1 .. Len(TooMany) : TooMany[i] \in Mem \X Byte
    BY <2>1, ElementOfSeq
  <2> QED BY <1>2, <2>2
<1>4. Len(<<>>) = 0
  BY EmptySeq
<1> QED BY <1>2, <1>3, <1>4

\* A call's effect on the tile is the one the caller may rely on.
LEMMA Effects ==
  ASSUME LinkInv, HostInv, call # None, call' = call, want' = want,
         rstate \in {"LEN", "PAY"}, NEW late \in BOOLEAN, NEW m, Takes(m, late),
         MatchesFrom(want, Written), Written <= PayLen
  PROVE  Matches(After)'
<1>1. /\ call.cmd \in Commands /\ call.pay \in Seq(Byte) /\ WellFormed(call.cmd, call.pay)
      /\ PayLen = Len(call.pay) /\ PayLen \in 0 .. 2 /\ want \in WantType
      /\ call.cmd = RUN /\ call.pay = << 0 >> => want.acc # None /\ Len(want.acc) < MaxPass
  BY CallIs DEF PayLen, HostInv, CallOK, WantType
<1>2. /\ cmd = call.cmd /\ mem' = m /\ m \in Mem /\ mem \in Mem
      /\ cmd # WGT => m = mem
      /\ cmd = WGT => /\ \A j \in 1 .. PayLen : m[j] = call.pay[j]
                      /\ \A j \in 1 .. WGTMAX : j > PayLen => m[j] = mem[j]
      /\ cfg_K' = IF call.cmd = CFG THEN K ELSE cfg_K
      /\ call.cmd # RUN => acc' = acc
  BY TakesIs DEF Takes, LinkInv, LinkTypeOK
<1>3. /\ After.mem = IF call.cmd # WGT THEN want.mem ELSE IF PayLen = WGTMAX THEN call.pay
                     ELSE IF want.mem = None THEN None
                     ELSE [i \in 1 .. WGTMAX |-> IF i <= PayLen THEN call.pay[i] ELSE want.mem[i]]
      /\ After.K = IF call.cmd = CFG THEN K ELSE want.K
      /\ After.acc = IF call.cmd # RUN THEN want.acc
                     ELSE IF want.mem = None \/ want.K = None THEN None
                     ELSE IF call.pay[1] = 1 THEN <<<<want.mem, want.K>>>>
                     ELSE IF want.acc = None THEN None
                     ELSE Append(want.acc, <<want.mem, want.K>>)
  <2>1. Len(call.pay) = PayLen
    BY <1>1
  <2> QED BY <1>1, <2>1, WantIs DEF After, PayLen
<1>4. /\ want.mem # None => \A j \in 1 .. WGTMAX : j > Written => mem[j] = want.mem[j]
      /\ want.K # None => cfg_K = want.K
      /\ want.acc # None => acc = want.acc
      /\ cmd # WGT => Written = 0
  BY DEF MatchesFrom, Written
<1>5. Written \in Nat
  BY DEF Written, LinkInv, LinkTypeOK
<1>6. ASSUME After.mem # None, NEW j \in 1 .. WGTMAX
      PROVE  mem'[j] = After.mem[j]
  <2>1. CASE cmd # WGT
    BY <1>2, <1>3, <1>4, <1>6, <2>1
  <2>2. CASE cmd = WGT /\ PayLen = WGTMAX
    BY <1>2, <1>3, <2>2
  <2>3. CASE cmd = WGT /\ PayLen # WGTMAX
    <3>1. want.mem # None /\ After.mem[j] = IF j <= PayLen THEN call.pay[j] ELSE want.mem[j]
      BY <1>2, <1>3, <1>6, <2>3
    <3>2. CASE j <= PayLen
      BY <1>1, <1>2, <2>3, <3>1, <3>2, Bytes
    <3>3. CASE ~(j <= PayLen)
      <4>1. j > PayLen /\ j > Written
        BY <1>1, <1>5, <3>3, Bytes
      <4> QED BY <1>2, <1>4, <2>3, <3>1, <3>3, <4>1
    <3> QED BY <3>2, <3>3
  <2> QED BY <2>1, <2>2, <2>3
<1>7. After.K # None => cfg_K' = After.K
  BY <1>2, <1>3, <1>4
<1>8. After.acc # None => acc' = After.acc
  <2>1. CASE call.cmd # RUN
    BY <1>2, <1>3, <1>4, <2>1
  <2>2. CASE call.cmd = RUN
    <3>1. SUFFICES ASSUME After.acc # None
                   PROVE  acc' = After.acc
      OBVIOUS
    <3>2. want.mem # None /\ want.K # None
      BY <1>3, <2>2, <3>1
    <3>3. m = want.mem /\ cfg_K = want.K
      <4>1. cmd # WGT /\ Written = 0 /\ want.mem \in Mem
        BY <1>1, <1>2, <1>4, <2>2, <3>2, Bytes DEF WantType
      <4>2. \A j \in 1 .. WGTMAX : mem[j] = want.mem[j]
        BY <1>4, <3>2, <4>1, Bytes
      <4>3. mem = want.mem
        <5>1. mem \in [1 .. WGTMAX -> Byte] /\ want.mem \in [1 .. WGTMAX -> Byte]
          BY <1>2, <4>1 DEF Mem
        <5>2. mem = [j \in 1 .. WGTMAX |-> mem[j]] /\ want.mem = [j \in 1 .. WGTMAX |-> want.mem[j]]
          BY <5>1
        <5>3. [j \in 1 .. WGTMAX |-> mem[j]] = [j \in 1 .. WGTMAX |-> want.mem[j]]
          BY <4>2
        <5> QED BY <5>2, <5>3, Zenon
      <4> QED BY <1>2, <1>4, <3>2, <4>1, <4>3
    <3>4. acc' = IF call.pay[1] % 2 = 1 THEN <<<<m, cfg_K>>>>
                 ELSE IF acc = TooMany \/ Len(acc) = MaxPass THEN TooMany
                 ELSE Append(acc, <<m, cfg_K>>)
      BY <1>2, <2>2, Zenon DEF Takes, Exec
    <3>5. CASE call.pay = << 1 >>
      <4>1. call.pay[1] = 1
        BY <3>5
      <4> QED BY <1>3, <2>2, <3>2, <3>3, <3>4, <4>1
    <3>6. CASE call.pay = << 0 >>
      <4>1. call.pay[1] = 0
        BY <3>6
      <4>2. want.acc # None /\ Len(want.acc) < MaxPass /\ acc = want.acc
        BY <1>1, <1>4, <2>2, <3>6
      <4>3. acc # TooMany /\ Len(acc) # MaxPass
        <5>1. acc \in Passes
          BY <1>1, <4>2 DEF WantType
        <5>2. acc \in Seq(Mem \X Byte)
          BY <5>1 DEF Passes
        <5>3. Len(acc) \in Nat
          BY <5>2, LenProperties
        <5> QED BY <4>2, <5>1, <5>3, NotTooMany, HostAssumption
      <4> QED BY <1>3, <2>2, <3>2, <3>3, <3>4, <4>1, <4>2, <4>3
    <3> QED BY <1>1, <2>2, <3>5, <3>6, Bytes DEF WellFormed
  <2> QED BY <2>1, <2>2
<1>9. After' = After
  BY AfterSame
<1>10. (0 > 0) = FALSE /\ \A j \in 1 .. WGTMAX : j > 0
  BY Bytes
<1> QED BY <1>6, <1>7, <1>8, <1>9, <1>10 DEF Matches, MatchesFrom

-----------------------------------------------------------------------------
\* A call with a payload, one slot at a time.  OneSlot is such a slot.

OneSlot(b, late, t) ==
  /\ call # None /\ call' = call /\ want' = want /\ sent' = sent + 1 /\ sent < Length0
  /\ b \in Byte /\ late \in BOOLEAN /\ Moves(b, late, t)

\* What the driver clocks out in this slot.
LEMMA NextByteIs ==
  ASSUME HostInv, call # None
  PROVE  /\ sent = 0 => NextByte = SYNC
         /\ sent = 1 => NextByte = call.cmd
         /\ sent = 2 => NextByte = PayLen
         /\ sent >= 3 + PayLen => NextByte = 0
         /\ sent >= 5 => NextByte = 0
         /\ sent \in {1, 2} => NextByte # SYNC
         /\ NextByte \in Byte
<1>1. /\ call.cmd \in Commands /\ call.pay \in Seq(Byte) /\ WellFormed(call.cmd, call.pay)
      /\ sent \in Nat
  BY CallIs
<1>2. /\ ByteAt(call.cmd, call.pay, 0) = SYNC /\ ByteAt(call.cmd, call.pay, 1) = call.cmd
      /\ ByteAt(call.cmd, call.pay, 2) = Len(call.pay)
      /\ \A i \in Nat : i >= 3 + Len(call.pay) => ByteAt(call.cmd, call.pay, i) = 0
      /\ \A i \in Nat : i >= 5 => ByteAt(call.cmd, call.pay, i) = 0
      /\ \A i \in {1, 2} : ByteAt(call.cmd, call.pay, i) # SYNC
      /\ \A i \in Nat : ByteAt(call.cmd, call.pay, i) \in Byte
  BY <1>1, FrameIs
<1> QED BY <1>1, <1>2 DEF NextByte, PayLen

\* With one fault in all, what is damaged once is not damaged again.
LEMMA FaultIs ==
  ASSUME MaxFaults <= 1, HostInv, NEW b, NEW late, NEW t, Moves(b, late, t)
  PROVE  /\ faults = 1 => b = NextByte /\ t = Sent /\ ~late /\ faults' = 1
         /\ b # NextByte => faults = 0 /\ faults' = 1 /\ t = Sent /\ ~late
         /\ t # Sent => t = Junk /\ faults = 0 /\ faults' = 1
         /\ faults \in {0, 1} /\ faults' \in {0, 1}
         /\ faults' = 0 => b = NextByte /\ t = Sent /\ ~late /\ faults = 0
         /\ late => rstate = "LEN" /\ cmd = DRAIN
<1>1. faults \in {0, 1} /\ (faults < MaxFaults => faults = 0)
  BY HostAssumption DEF HostInv
<1> QED BY <1>1 DEF Moves

\* Nothing is a command or a length that SYNC or 0 could be.
LEMMA LengthOkIs ==
  /\ \A c : ~LengthOk(c, SYNC)
  /\ \A n : ~LengthOk(0, n) /\ ~LengthOk(SYNC, n)
  /\ \A c \in {CFG, RUN} : ~LengthOk(c, 0)
  /\ \A c \in {DRAIN, NOP} : \A n : LengthOk(c, n) => n = 0
  /\ \A c, n : LengthOk(c, n) => c \in Commands
  BY Bytes DEF LengthOk

\* In step and undamaged: the frame is taken as it was sent.
LEMMA UndamagedPay ==
  ASSUME MaxFaults <= 1, LinkInv, HostInv, InStep, NEW late, NEW t, OneSlot(NextByte, late, t),
         Receiving, NoPre, MatchesFrom(want, Written)
  PROVE  PayloadCall'
<1>1. /\ call # None /\ call' = call /\ want' = want /\ sent' = sent + 1 /\ sent < Length0
      /\ Clock(NextByte, late) /\ Capture(t) /\ late \in BOOLEAN /\ PayLen \in 0 .. 2
      /\ sent \in Nat /\ PayLen' = PayLen
  BY CallIs, AfterSame DEF OneSlot, Moves
<1>2. NoPre'
  <2>1. rstate # "TX"
    BY DEF Receiving
  <2>2. t = Sent \/ t = Junk
    BY DEF OneSlot, Moves
  <2>3. t # Pre
    BY <2>1, <2>2, SentIs
  <2> QED BY <1>1, <2>3, CapStep
<1>3. Written <= PayLen
  BY <1>1 DEF Written, Receiving
<1>4. CASE /\ Receiving' /\ UNCHANGED <<cfg_K, acc>>
           /\ rstate' = "PAY" \/ mem' = mem
           /\ rstate' = "PAY" /\ rstate # "PAY" => mem' = mem /\ got' = <<>>
           /\ rstate' = "PAY" /\ rstate = "PAY" =>
                /\ Len(got') = Len(got) + 1 /\ cmd' = cmd
                /\ cmd # WGT => mem' = mem
                /\ \A j \in 1 .. WGTMAX : j > Len(got') => mem'[j] = mem[j]
  <2>1. CASE rstate' # "PAY"
    <3>1. Written' = 0 /\ mem' = mem
      BY <1>4, <2>1 DEF Written
    <3>2. rstate # "PAY"
      BY <1>1, <1>4, <2>1 DEF Receiving
    <3>3. Written = 0
      BY <3>2 DEF Written
    <3>4. MatchesFrom(want, Written)'
      BY <1>1, <1>4, <3>1, <3>3 DEF MatchesFrom
    <3> QED BY <1>2, <1>4, <3>4 DEF PayloadCall
  <2>2. CASE rstate' = "PAY" /\ rstate # "PAY"
    <3>1. mem' = mem /\ got' = <<>> /\ Len(<<>>) = 0
      BY <1>4, <2>2, EmptySeq
    <3>2. Written' = 0 /\ Written = 0
      BY <2>2, <3>1 DEF Written
    <3>4. MatchesFrom(want, Written)'
      BY <1>1, <1>4, <3>1, <3>2 DEF MatchesFrom
    <3> QED BY <1>2, <1>4, <3>4 DEF PayloadCall
  <2>3. CASE rstate' = "PAY" /\ rstate = "PAY"
    <3>1. /\ Len(got') = Len(got) + 1 /\ cmd' = cmd
          /\ cmd # WGT => mem' = mem
          /\ \A j \in 1 .. WGTMAX : j > Len(got') => mem'[j] = mem[j]
          /\ Len(got) \in Nat
      BY <1>4, <2>3 DEF LinkInv, LinkTypeOK
    <3>2. CASE cmd = WGT
      <4>1. Written' = Len(got) + 1 /\ Written = Len(got)
        BY <2>3, <3>1, <3>2 DEF Written
      <4>2. \A j \in 1 .. WGTMAX : j > Len(got) + 1 => j > Len(got) /\ mem'[j] = mem[j]
        BY <3>1, Bytes
      <4>3. MatchesFrom(want, Written)'
        BY <1>1, <1>4, <4>1, <4>2 DEF MatchesFrom
      <4> QED BY <1>2, <1>4, <4>3 DEF PayloadCall
    <3>3. CASE cmd # WGT
      <4>1. Written' = 0 /\ Written = 0 /\ mem' = mem
        BY <2>3, <3>1, <3>3 DEF Written
      <4>2. MatchesFrom(want, Written)'
        BY <1>1, <1>4, <4>1 DEF MatchesFrom
      <4> QED BY <1>2, <1>4, <4>2 DEF PayloadCall
    <3> QED BY <3>2, <3>3
  <2> QED BY <2>1, <2>2, <2>3
<1>5. ASSUME rstate \in {"LEN", "PAY"}, NEW m, Takes(m, late)
      PROVE  PayloadCall'
  <2>1. Matches(After)'
    BY <1>1, <1>3, <1>5, Effects
  <2>2. /\ sent' = 3 + PayLen
        /\ call.cmd = RUN => rstate' = "WAIT"
        /\ cfg_K <= K \/ call.cmd # RUN => Answers'
    BY <1>1, <1>5, TakesIs DEF Takes
  <2>3. CASE Answers'
    <3>1. sent' >= 3 + PayLen'
      BY <1>1, <2>2
    <3>2. Taken'
      BY <2>1, <2>3, <3>1 DEF Taken
    <3> QED BY <3>2 DEF PayloadCall
  <2>4. CASE ~Answers'
    <3>1. call.cmd = RUN /\ ~(cfg_K <= K) /\ rstate' = "WAIT"
      BY <2>2, <2>4
    <3>2. faults = 1 /\ faults' = 1
      <4>1. faults # 0
        BY <3>1 DEF InStep
      <4>2. faults \in {0, 1} /\ (faults = 1 => faults' = 1)
        BY FaultIs DEF OneSlot
      <4> QED BY <4>1, <4>2
    <3>3. Lost'
      BY <1>2, <2>1, <3>1 DEF Lost
    <3> QED BY <3>2, <3>3 DEF PayloadCall
  <2> QED BY <2>3, <2>4
<1> QED BY <1>1, <1>4, <1>5, ReceivingStep

\* In step and damaged: whatever the link makes of the frame, its response does not echo it.
LEMMA DamagedPay ==
  ASSUME MaxFaults <= 1, LinkInv, HostInv, NEW b, NEW late, NEW t, OneSlot(b, late, t),
         b # NextByte, Receiving, NoPre, call.pay # <<>>
  PROVE  PayloadCall'
<1>1. /\ call # None /\ call' = call /\ want' = want /\ sent' = sent + 1 /\ sent < Length0
      /\ Clock(b, late) /\ Capture(t) /\ late \in BOOLEAN /\ b \in Byte
      /\ PayLen \in 0 .. 2 /\ PayLen = Len(call.pay) /\ sent \in Nat
      /\ call.pay \in Seq(Byte) /\ call.cmd \in Commands /\ WellFormed(call.cmd, call.pay)
  BY CallIs DEF OneSlot, Moves, PayLen
<1>2. NoPre' /\ faults' = 1
  <2>1. rstate # "TX" /\ t = Sent /\ faults' = 1
    BY FaultIs DEF Receiving, OneSlot
  <2> QED BY <1>1, <2>1, CapStep, SentIs
<1>3. PayLen # 0
  BY <1>1, EmptySeq
<1>4. Lost' => PayloadCall'
  BY <1>2 DEF PayloadCall
<1>5. PayLen' = PayLen
  BY <1>1 DEF PayLen
<1>6. CASE sent = 0 /\ rstate = "HUNT"
  <2>1. b # SYNC
    BY <1>1, <1>6, NextByteIs
  <2>2. rstate' = "HUNT" /\ sent' >= 1
    BY <1>1, <1>6, <2>1, HuntIs
  <2> QED BY <1>2, <1>4, <2>2 DEF Lost
<1>7. CASE sent = 1 /\ rstate = "CMD"
  <2>1. b # call.cmd
    BY <1>1, <1>7, NextByteIs
  <2>2. rstate' = "LEN" /\ sent' = 2 /\ cmd' = b
    BY <1>1, <1>7, CommandIs
  <2> QED BY <1>1, <1>2, <1>4, <2>1, <2>2 DEF Lost
<1>8. CASE sent = 2 /\ rstate = "LEN" /\ cmd = call.cmd
  <2>1. b # PayLen
    BY <1>1, <1>8, NextByteIs
  <2>2. CASE rstate' = "HUNT"
    BY <1>1, <1>2, <1>4, <1>8, <2>2 DEF Lost
  <2>3. CASE b # 0 /\ rstate' = "PAY" /\ rem' = b /\ got' = <<>>
    <3>1. Len(got') = 0
      BY <2>3, EmptySeq
    <3>2. ~Prefix'
      BY <1>1, <1>5, <2>1, <2>3, <3>1, Bytes DEF Prefix
    <3> QED BY <1>2, <1>4, <2>3, <3>2 DEF Lost
  <2>4. CASE LengthOk(cmd, b) /\ b = 0 /\ Exec(<<>>, mem, late)
    <3>1. /\ LengthOk(cmd, Len(<<>>)) /\ cmd \in Commands /\ mem \in Mem
          /\ \A j \in 1 .. Len(<<>>) : mem[j] = <<>>[j]
      BY <1>1, <1>8, <2>4, EmptyPayload DEF LinkInv, LinkTypeOK
    <3>2. /\ resp'[3][2] = <<>> /\ out' = 0
          /\ cmd # RUN => rstate' = "TX"
          /\ cmd = RUN => rstate' = "WAIT"
      BY <1>1, <2>4, <3>1, EmptyPayload, ExecIs
    <3>3. ~Echo'
      BY <1>1, <3>2 DEF Echo
    <3> QED BY <1>2, <1>4, <3>2, <3>3 DEF Lost
  <2> QED BY <1>1, <1>8, <2>2, <2>3, <2>4, LengthIs
<1>9. CASE /\ sent \in 3 .. (2 + PayLen) /\ rstate = "PAY" /\ cmd = call.cmd
           /\ Len(got) = sent - 3 /\ rem = PayLen - Len(got)
           /\ \A j \in 1 .. Len(got) : got[j] = call.pay[j]
  <2> DEFINE p == Append(got, b)
             m == IF cmd = WGT THEN [mem EXCEPT ![Len(p)] = b] ELSE mem
  <2>1. b # call.pay[Len(got) + 1] /\ Len(got) + 1 \in 1 .. PayLen
    <3>1. Len(got) + 1 \in 1 .. PayLen /\ sent = (Len(got) + 1) + 2
      BY <1>1, <1>9
    <3>2. \A j \in 1 .. Len(call.pay) : ByteAt(call.cmd, call.pay, j + 2) = call.pay[j]
      BY <1>1, FrameIs
    <3>3. NextByte = call.pay[Len(got) + 1]
      BY <1>1, <3>1, <3>2 DEF NextByte
    <3> QED BY <3>1, <3>3
  <2>2. /\ p \in Seq(Byte) /\ Len(got) \in Nat /\ Len(p) = Len(got) + 1
        /\ p[Len(got) + 1] = b
        /\ m \in Mem
        /\ cmd = WGT => \A j \in 1 .. Len(p) : m[j] = p[j]
        /\ cmd \in Commands /\ (rem = 1 => LengthOk(cmd, Len(p)))
    BY <1>1, <1>9, PayloadIs
  <2>3. Payload(b)
    BY <1>1, <1>9, ClockIs
  <2>4. IF rem = 1 THEN Exec(p, m, FALSE)
        ELSE /\ rem' = rem - 1 /\ got' = p /\ mem' = m
             /\ UNCHANGED <<rstate, cmd, bad_frame, underrun, resp, out, cfg_K, busy, acc>>
    BY <2>3, Zenon DEF Payload
  <2> HIDE DEF p, m
  <2>5. p # call.pay
    BY <2>1, <2>2
  <2>6. CASE rem = 1
    <3>1. /\ resp'[3][2] = p /\ out' = 0
          /\ cmd # RUN => rstate' = "TX"
          /\ cmd = RUN => rstate' = "WAIT"
      BY <2>2, <2>4, <2>6, ExecIs
    <3>2. ~Echo'
      BY <1>1, <2>5, <3>1 DEF Echo
    <3> QED BY <1>2, <1>4, <3>1, <3>2 DEF Lost
  <2>7. CASE rem # 1
    <3>1. got' = p /\ rstate' = "PAY"
      BY <1>9, <2>4, <2>7
    <3>2. Len(got) + 1 \in 1 .. Len(got') /\ got'[Len(got) + 1] # call'.pay[Len(got) + 1]
      BY <1>1, <2>1, <2>2, <3>1
    <3>3. ~Prefix'
      BY <3>2 DEF Prefix
    <3> QED BY <1>2, <1>4, <3>1, <3>3 DEF Lost
  <2> QED BY <2>6, <2>7
<1> QED BY <1>6, <1>7, <1>8, <1>9 DEF Receiving

\* Taken: the response is clocked out, and the tile keeps what it holds.
LEMMA TakenStep ==
  ASSUME MaxFaults <= 1, LinkInv, HostInv, NEW b, NEW late, NEW t, OneSlot(b, late, t), Taken
  PROVE  PayloadCall'
<1>1. /\ call # None /\ call' = call /\ want' = want /\ sent' = sent + 1 /\ sent < Length0
      /\ Clock(b, late) /\ PayLen \in 0 .. 2 /\ sent \in Nat /\ Length0 \in Nat
      /\ PayLen' = PayLen /\ After' = After
      /\ sent >= 3 + PayLen /\ Matches(After)
  BY CallIs, AfterSame DEF OneSlot, Moves, Taken
<1>2. NextByte = 0 /\ (faults = 1 => b = NextByte /\ faults' = 1) /\ (b # NextByte => faults' = 1)
  BY <1>1, NextByteIs, FaultIs DEF OneSlot
<1>3. sent' >= 3 + PayLen'
  BY <1>1
<1>4. UNCHANGED <<mem, cfg_K, acc>> => Matches(After)'
  BY <1>1 DEF Matches, MatchesFrom
<1>5. ASSUME UNCHANGED <<mem, cfg_K, acc>>,
             \/ rstate' = "HUNT" \/ Answers'
             \/ faults' = 1 /\ (rstate' = "CMD" \/ (rstate' = "LEN" /\ cmd' = 0))
      PROVE  PayloadCall'
  BY <1>3, <1>4, <1>5 DEF Taken, PayloadCall
<1>6. CASE rstate = "HUNT"
  <2>1. b = SYNC => faults' = 1
    BY <1>2, Bytes
  <2> QED BY <1>1, <1>5, <1>6, <2>1, HuntIs
<1>7. CASE Answers
  BY <1>1, <1>5, <1>7, AnswersStep
<1>8. CASE faults = 1 /\ rstate = "CMD"
  BY <1>1, <1>2, <1>5, <1>8, CommandIs
<1>9. CASE faults = 1 /\ rstate = "LEN" /\ cmd = 0
  <2>1. rstate' = "HUNT" /\ UNCHANGED <<mem, cfg_K, acc>>
    BY <1>1, <1>9, LengthIs, LengthOkIs
  <2> QED BY <1>5, <2>1
<1> QED BY <1>6, <1>7, <1>8, <1>9 DEF Taken

\* A response that is being sent while nothing is known of the tile: if it echoes the whole
\* payload, the tile holds it.
LEMMA EchoIsTrue ==
  ASSUME LinkInv, HostInv, call # None, rstate \in {"WAIT", "TX"}, want = Nothing,
         call.pay # <<>>, Echo
  PROVE  Matches(After)
<1>1. /\ call.cmd \in Commands /\ call.pay \in Seq(Byte) /\ WellFormed(call.cmd, call.pay)
      /\ want \in WantType
  BY CallIs DEF HostInv, WantType
<1>2. /\ After.mem = IF call.cmd # WGT THEN want.mem ELSE IF Len(call.pay) = WGTMAX THEN call.pay
                     ELSE IF want.mem = None THEN None
                     ELSE [i \in 1 .. WGTMAX |-> IF i <= Len(call.pay) THEN call.pay[i]
                                                 ELSE want.mem[i]]
      /\ After.K = IF call.cmd = CFG THEN K ELSE want.K
      /\ After.acc = IF call.cmd # RUN THEN want.acc
                     ELSE IF want.mem = None \/ want.K = None THEN None
                     ELSE IF call.pay[1] = 1 THEN <<<<want.mem, want.K>>>>
                     ELSE IF want.acc = None THEN None
                     ELSE Append(want.acc, <<want.mem, want.K>>)
  BY <1>1, WantIs DEF After
<1>3. want.mem = None /\ want.K = None /\ want.acc = None
  BY DEF Nothing
<1>4. After.acc = None
  BY <1>2, <1>3
<1>5. ResponseOK /\ cmd = call.cmd /\ resp[3][2] = call.pay
  BY DEF LinkInv, Echo
<1>6. After.K # None => cfg_K = After.K
  <2>1. SUFFICES ASSUME call.cmd = CFG
                 PROVE  cfg_K = After.K
    BY <1>2, <1>3
  <2>2. call.pay[1] = K
    BY <1>1, <2>1, PayloadOf
  <2>3. cfg_K = call.pay[1]
    BY <1>5, <2>1 DEF ResponseOK
  <2> QED BY <1>2, <2>1, <2>2, <2>3
<1>7. After.mem # None => \A j \in 1 .. WGTMAX : mem[j] = After.mem[j]
  <2>1. SUFFICES ASSUME call.cmd = WGT, Len(call.pay) = WGTMAX
                 PROVE  \A j \in 1 .. WGTMAX : mem[j] = After.mem[j]
    BY <1>2, <1>3
  <2>2. After.mem = call.pay
    BY <1>2, <2>1
  <2>3. \A j \in 1 .. WGTMAX : mem[j] = call.pay[j]
    BY <1>5, <2>1 DEF ResponseOK
  <2> QED BY <2>2, <2>3
<1> QED BY <1>4, <1>6, <1>7 DEF Matches, MatchesFrom

\* Lost: the link is not where the frame is, and no response of this call has been seen.
LEMMA LostStep ==
  ASSUME MaxFaults <= 1, LinkInv, HostInv, NEW b, NEW late, NEW t, OneSlot(b, late, t),
         faults = 1, Lost, call.pay # <<>>
  PROVE  PayloadCall'
<1>1. /\ call # None /\ call' = call /\ want' = want /\ sent' = sent + 1 /\ sent < Length0
      /\ Clock(b, late) /\ Capture(t) /\ PayLen \in 0 .. 2 /\ PayLen = Len(call.pay)
      /\ sent \in Nat /\ PayLen' = PayLen /\ After' = After
      /\ b = NextByte /\ t = Sent /\ faults' = 1 /\ b \in Byte /\ late \in BOOLEAN
      /\ call.pay \in Seq(Byte) /\ NoPre
  BY CallIs, AfterSame, FaultIs DEF OneSlot, Moves, PayLen, Lost
<1>2. PayLen # 0
  BY <1>1, EmptySeq
<1>3. Lost' => PayloadCall'
  BY <1>1 DEF PayloadCall
<1>4. CASE rstate = "TX" /\ out = 0
  <2>1. Echo => Matches(After)
    BY <1>1, <1>4, EchoIsTrue DEF Lost
  <2>2. t = Pre
    BY <1>1, <1>4, SentIs
  <2>3. First(Cap', sent + 1)
    BY <1>1, <2>2, CapStep
  <2>4. Len(resp) \in {4, 5}
    BY <1>4 DEF LinkInv, ResponseOK
  <2>5. rstate' = "TX" /\ resp' = resp /\ out' = 1 /\ UNCHANGED <<cmd, mem, cfg_K, acc>>
    <3>1. out + 1 # Len(resp) /\ rstate # "WAIT" /\ out + 1 = 1
      BY <1>4, <2>4
    <3> QED BY <1>1, <1>4, <3>1, AnswerIs
  <2>6. (Echo => Matches(After))'
    BY <1>1, <2>1, <2>5 DEF Echo, Matches, MatchesFrom
  <2>7. sent' - out' + 1 = sent + 1
    BY <1>1, <2>5
  <2>8. Answering'
    BY <1>1, <2>3, <2>5, <2>6, <2>7 DEF Answering
  <2> QED BY <1>1, <2>8 DEF PayloadCall
<1>5. CASE ~(rstate = "TX" /\ out = 0)
  <2>1. NoPre'
    <3>1. t # Pre
      BY <1>1, <1>5, SentIs
    <3> QED BY <1>1, <3>1, CapStep
  <2>2. CASE want = Nothing
    BY <1>1, <1>3, <2>1, <2>2 DEF Lost
  <2>3. CASE rstate = "HUNT" /\ sent >= 1
    <3>1. rstate' = "HUNT" \/ (rstate' = "CMD" /\ b = SYNC)
      BY <1>1, <2>3, HuntIs
    <3>2. b = SYNC => sent >= 3
      BY <1>1, <2>3, NextByteIs
    <3> QED BY <1>1, <1>3, <2>1, <3>1, <3>2, <2>3 DEF Lost
  <2>4. CASE rstate = "CMD" /\ (sent = 0 \/ sent >= 4)
    <3>1. rstate' = "LEN" /\ cmd' = b
      BY <1>1, <2>4, CommandIs
    <3>2. sent = 0 => b = SYNC
      BY <1>1, NextByteIs
    <3>3. sent' >= 5 \/ cmd' = SYNC
      BY <1>1, <2>4, <3>1, <3>2
    <3> QED BY <1>3, <2>1, <3>1, <3>3 DEF Lost
  <2>5. CASE rstate = "LEN" /\ ((sent = 0 \/ cmd = SYNC) \/ sent >= 5 \/ (sent = 2 /\ cmd # call.cmd))
    <3>1. sent' >= 1
      BY <1>1
    <3>2. CASE rstate' = "HUNT"
      BY <1>3, <2>1, <3>1, <3>2 DEF Lost
    <3>3. CASE LengthOk(cmd, b) /\ b # 0 /\ rstate' = "PAY" /\ rem' = b /\ got' = <<>>
               /\ UNCHANGED <<cmd, resp, out, mem, cfg_K, busy, acc>>
      <4>1. cmd # SYNC /\ b # SYNC
        BY <3>3, LengthOkIs
      <4>2. sent # 0 /\ ~(sent >= 5)
        BY <1>1, <3>3, <4>1, NextByteIs
      <4>3. cmd' # call'.cmd
        BY <1>1, <2>5, <3>3, <4>1, <4>2
      <4>4. ~Prefix'
        BY <4>3 DEF Prefix
      <4> QED BY <1>3, <2>1, <3>3, <4>4 DEF Lost
    <3>4. CASE LengthOk(cmd, b) /\ b = 0 /\ Exec(<<>>, mem, late)
      <4>1. /\ LengthOk(cmd, Len(<<>>)) /\ cmd \in Commands /\ mem \in Mem
            /\ \A j \in 1 .. Len(<<>>) : mem[j] = <<>>[j]
        BY <3>4, EmptyPayload, LengthOkIs DEF LinkInv, LinkTypeOK
      <4>2. /\ resp'[3][2] = <<>> /\ out' = 0
            /\ cmd # RUN => rstate' = "TX"
            /\ cmd = RUN => rstate' = "WAIT"
        BY <1>1, <3>4, <4>1, EmptyPayload, ExecIs
      <4>3. ~Echo'
        BY <1>1, <4>2 DEF Echo
      <4> QED BY <1>3, <2>1, <4>2, <4>3 DEF Lost
    <3> QED BY <1>1, <2>5, <3>2, <3>3, <3>4, LengthIs
  <2>6. CASE rstate = "PAY" /\ ~Prefix
    <3> DEFINE p == Append(got, b)
               m == IF cmd = WGT THEN [mem EXCEPT ![Len(p)] = b] ELSE mem
    <3>2. /\ p \in Seq(Byte) /\ Len(got) \in Nat /\ Len(p) = Len(got) + 1
          /\ \A j \in 1 .. Len(got) : p[j] = got[j]
          /\ m \in Mem
          /\ cmd = WGT => \A j \in 1 .. Len(p) : m[j] = p[j]
          /\ cmd \in Commands /\ (rem = 1 => LengthOk(cmd, Len(p)))
      BY <1>1, <2>6, PayloadIs
    <3>3. Payload(b)
      BY <1>1, <2>6, ClockIs
    <3>4. IF rem = 1 THEN Exec(p, m, FALSE)
          ELSE /\ rem' = rem - 1 /\ got' = p /\ mem' = m
               /\ UNCHANGED <<rstate, cmd, bad_frame, underrun, resp, out, cfg_K, busy, acc>>
      BY <3>3, Zenon DEF Payload
    <3> HIDE DEF p, m
    <3>5. ~(cmd = call.cmd /\ Len(got) + rem = PayLen /\ \A j \in 1 .. Len(got) : got[j] = call.pay[j])
      BY <2>6 DEF Prefix
    <3>6. CASE rem = 1
      <4>1. /\ resp'[3][2] = p /\ out' = 0 /\ cmd' = cmd
            /\ cmd # RUN => rstate' = "TX"
            /\ cmd = RUN => rstate' = "WAIT"
        BY <3>2, <3>4, <3>6, ExecIs
      <4>2. ~Echo'
        <5>1. SUFFICES ASSUME cmd = call.cmd, p = call.pay
                       PROVE  FALSE
          BY <1>1, <4>1 DEF Echo
        <5>2. Len(got) + rem = PayLen /\ \A j \in 1 .. Len(got) : got[j] = call.pay[j]
          BY <1>1, <3>2, <3>6, <5>1
        <5> QED BY <3>5, <5>1, <5>2
      <4> QED BY <1>3, <2>1, <4>1, <4>2 DEF Lost
    <3>7. CASE rem # 1
      <4>1. got' = p /\ rstate' = "PAY" /\ rem' = rem - 1 /\ cmd' = cmd /\ rem \in Nat
        BY <2>6, <3>4, <3>7 DEF LinkInv, LinkTypeOK
      <4>2. ~Prefix'
        <5>1. SUFFICES ASSUME cmd = call.cmd, Len(p) + (rem - 1) = PayLen,
                              \A j \in 1 .. Len(p) : p[j] = call.pay[j]
                       PROVE  FALSE
          BY <1>1, <4>1 DEF Prefix
        <5>2. Len(got) + rem = PayLen /\ \A j \in 1 .. Len(got) : got[j] = call.pay[j]
          BY <3>2, <4>1, <5>1
        <5> QED BY <3>5, <5>1, <5>2
      <4> QED BY <1>3, <2>1, <4>1, <4>2 DEF Lost
    <3> QED BY <3>6, <3>7
  <2>7. CASE rstate = "WAIT" /\ (Echo => Matches(After))
    <3>1. /\ rstate' \in {"WAIT", "TX"} /\ resp' = resp /\ out' = 0
          /\ UNCHANGED <<cmd, mem, cfg_K, acc>>
      BY <1>1, <2>7, AnswerIs
    <3>2. (Echo => Matches(After))'
      BY <1>1, <2>7, <3>1 DEF Echo, Matches, MatchesFrom
    <3> QED BY <1>3, <2>1, <3>1, <3>2 DEF Lost
  <2> QED BY <1>5, <2>2, <2>3, <2>4, <2>5, <2>6, <2>7 DEF Lost
<1> QED BY <1>4, <1>5

\* Answering: the response that is being captured is the one that will be decoded.
LEMMA AnsweringStep ==
  ASSUME MaxFaults <= 1, LinkInv, HostInv, NEW b, NEW late, NEW t, OneSlot(b, late, t),
         faults = 1, Answering
  PROVE  PayloadCall'
<1> DEFINE o == sent - out + 1
<1>1. /\ call # None /\ call' = call /\ want' = want /\ sent' = sent + 1
      /\ Clock(b, late) /\ Capture(t) /\ sent \in Nat /\ After' = After
      /\ t = Sent /\ faults' = 1
  BY CallIs, AfterSame, FaultIs DEF OneSlot, Moves
<1>2. /\ rstate = "TX" /\ out \in Nat /\ out >= 1 /\ out <= sent /\ out < Len(resp)
      /\ Len(resp) \in {4, 5} /\ o \in Nat
      /\ First(Cap, o)
      /\ out >= 2 => Cap[o + 1] = resp[2]
      /\ out >= 3 => Cap[o + 2] = resp[3]
      /\ Echo => Matches(After)
      /\ resp[2][1] = "status" /\ resp[2][2] = cmd /\ resp[3] = RxCrc(resp[3][2])
      /\ t = resp[out + 1]
  <2>1. rstate = "TX" /\ out >= 1 /\ out <= sent /\ (Echo => Matches(After))
    BY DEF Answering
  <2>2. ResponseOK /\ out \in Nat /\ out < Len(resp)
    BY <2>1 DEF LinkInv
  <2>3. o \in Nat /\ sent - out + 2 = o + 1 /\ sent - out + 3 = o + 2
    BY <1>1, <2>1, <2>2
  <2>4. First(Cap, o) /\ (out >= 2 => Cap[o + 1] = resp[2]) /\ (out >= 3 => Cap[o + 2] = resp[3])
    BY <2>3, Zenon DEF Answering
  <2>5. t = resp[out + 1]
    BY <1>1, <2>1, SentIs
  <2> QED BY <2>1, <2>2, <2>3, <2>4, <2>5 DEF ResponseOK
<1>3. /\ Len(Cap) = sent /\ Len(Cap') = sent + 1
      /\ \A i \in 1 .. sent : Cap'[i] = Cap[i]
      /\ Cap'[sent + 1] = t
      /\ First(Cap', o) /\ o \in 1 .. sent
  BY <1>1, <1>2, CapStep
<1>4. UNCHANGED <<cmd, mem, cfg_K, acc>>
  BY <1>1, <1>2, AnswerIs
<1>5. sent = o + out - 1
  BY <1>1, <1>2
<1> HIDE DEF o
<1>6. CASE out + 1 = Len(resp)
  <2>1. rstate' = "HUNT" /\ out >= 3 /\ sent >= 3
    <3>1. rstate' = "HUNT"
      BY <1>1, <1>2, <1>6, AnswerIs
    <3>2. out = Len(resp) - 1 /\ Len(resp) \in {4, 5} /\ out <= sent
      BY <1>2, <1>6
    <3>3. out >= 3
      BY <3>2
    <3> QED BY <1>1, <3>1, <3>2, <3>3
  <2>2. CASE Echo
    <3>1. Matches(After)'
      BY <1>1, <1>2, <1>4, <2>2 DEF Matches, MatchesFrom
    <3>2. Answered'
      BY <1>1, <2>1, <3>1 DEF Answered
    <3> QED BY <1>1, <3>2 DEF PayloadCall
  <2>3. CASE ~Echo
    <3>1. o + 1 \in 1 .. sent /\ o + 2 \in 1 .. sent /\ o \in 1 .. (Len(Cap') - 2)
      BY <1>1, <1>2, <1>3, <1>5, <2>1
    <3>2. Cap'[o + 1] = resp[2] /\ Cap'[o + 2] = RxCrc(resp[3][2])
      BY <1>2, <1>3, <2>1, <3>1
    <3>3. resp[3][2] # call.pay => Cap'[o + 2] # RxCrc(call.pay)
      BY <3>2 DEF RxCrc
    <3>4. Cap'[o + 1][2] # call.cmd \/ Cap'[o + 2] # RxCrc(call.pay)
      BY <1>2, <2>3, <3>2, <3>3 DEF Echo
    <3>5. Bad(Cap)'
      BY <1>1, <1>3, <3>1, <3>4 DEF Bad
    <3> QED BY <1>1, <3>5 DEF PayloadCall
  <2> QED BY <2>2, <2>3
<1>7. CASE out + 1 < Len(resp)
  <2>1. rstate' = "TX" /\ resp' = resp /\ out' = out + 1
    BY <1>1, <1>2, <1>7, AnswerIs
  <2>2. sent' - out' + 1 = o /\ sent' - out' + 2 = o + 1 /\ sent' - out' + 3 = o + 2
        /\ out' >= 1 /\ out' <= sent'
    BY <1>1, <1>2, <1>5, <2>1
  <2>3. out' >= 2 => Cap'[o + 1] = resp'[2]
    <3>1. CASE out >= 2
      <4>1. o + 1 \in 1 .. sent
        BY <1>1, <1>2, <1>3, <1>5, <3>1
      <4> QED BY <1>2, <1>3, <2>1, <3>1, <4>1
    <3>2. CASE out = 1
      <4>1. o + 1 = sent + 1
        BY <1>1, <1>3, <1>5, <3>2
      <4> QED BY <1>2, <1>3, <2>1, <3>2, <4>1
    <3> QED BY <1>2, <3>1, <3>2
  <2>4. out' >= 3 => Cap'[o + 2] = resp'[3]
    <3>1. CASE out >= 3
      <4>1. o + 2 \in 1 .. sent
        BY <1>1, <1>2, <1>3, <1>5, <3>1
      <4> QED BY <1>2, <1>3, <2>1, <3>1, <4>1
    <3>2. CASE out = 2
      <4>1. o + 2 = sent + 1
        BY <1>1, <1>3, <1>5, <3>2
      <4> QED BY <1>2, <1>3, <2>1, <3>2, <4>1
    <3>3. CASE out = 1
      BY <2>1, <3>3
    <3> QED BY <1>2, <3>1, <3>2, <3>3
  <2>5. (Echo => Matches(After))'
    BY <1>1, <1>2, <1>4, <2>1 DEF Echo, Matches, MatchesFrom
  <2>6. Answering'
    <3>1. First(Cap', sent' - out' + 1)
      BY <1>3, <2>2, Zenon
    <3>2. /\ out' >= 2 => Cap'[sent' - out' + 2] = resp'[2]
          /\ out' >= 3 => Cap'[sent' - out' + 3] = resp'[3]
      BY <2>2, <2>3, <2>4, Zenon
    <3> QED BY <2>1, <2>2, <2>5, <3>1, <3>2 DEF Answering
  <2> QED BY <1>1, <2>6 DEF PayloadCall
<1> QED BY <1>2, <1>6, <1>7

\* Answered: the rest of the transaction is idle, and no frame is made of it.
LEMMA AnsweredStep ==
  ASSUME MaxFaults <= 1, LinkInv, HostInv, NEW b, NEW late, NEW t, OneSlot(b, late, t),
         faults = 1, Answered
  PROVE  PayloadCall'
<1>1. /\ call # None /\ call' = call /\ want' = want /\ sent' = sent + 1
      /\ Clock(b, late) /\ sent \in Nat /\ After' = After
      /\ b = NextByte /\ faults' = 1 /\ sent >= 4 /\ Matches(After)
  BY CallIs, AfterSame, FaultIs DEF OneSlot, Moves, Answered
<1>2. ASSUME UNCHANGED <<mem, cfg_K, acc>>,
             \/ rstate' = "HUNT"
             \/ rstate' = "CMD"
             \/ rstate' = "LEN" /\ cmd' = 0
      PROVE  PayloadCall'
  <2>1. Matches(After)'
    BY <1>1, <1>2 DEF Matches, MatchesFrom
  <2>2. sent' >= 4 /\ sent' >= 5
    BY <1>1
  <2>3. Answered'
    BY <1>2, <2>1, <2>2 DEF Answered
  <2> QED BY <1>1, <2>3 DEF PayloadCall
<1>3. CASE rstate = "HUNT"
  BY <1>1, <1>2, <1>3, HuntIs
<1>4. CASE rstate = "CMD" /\ sent >= 5
  <2>1. b = 0
    BY <1>1, <1>4, NextByteIs
  <2> QED BY <1>1, <1>2, <1>4, <2>1, CommandIs
<1>5. CASE rstate = "LEN" /\ cmd = 0
  <2>1. rstate' = "HUNT" /\ UNCHANGED <<mem, cfg_K, acc>>
    BY <1>1, <1>5, LengthIs, LengthOkIs
  <2> QED BY <1>2, <2>1
<1> QED BY <1>3, <1>4, <1>5 DEF Answered

\* A call without a payload, one slot at a time: nothing it can be taken for touches the tile.
LEMMA BareStep ==
  ASSUME MaxFaults <= 1, LinkInv, HostInv, InStep, NEW b, NEW late, NEW t, OneSlot(b, late, t),
         call.pay = <<>>, BareCall
  PROVE  BareCall'
<1>1. /\ call # None /\ call' = call /\ want' = want /\ sent' = sent + 1 /\ sent < Length0
      /\ Clock(b, late) /\ Capture(t) /\ PayLen = 0 /\ PayLen' = 0 /\ Length0' = Length0
      /\ sent \in Nat /\ Length0 \in Nat /\ b \in Byte /\ late \in BOOLEAN
      /\ call.cmd \in {DRAIN, NOP}
      /\ Length0 = 8 + (IF call.cmd = DRAIN THEN 1 ELSE 0)
      /\ (t = Sent \/ t = Junk)
  <2>1. /\ call.cmd \in Commands /\ WellFormed(call.cmd, call.pay) /\ PayLen = 0
        /\ call.pay \in Seq(Byte)
    BY CallIs, EmptySeq DEF OneSlot, PayLen
  <2>2. call.cmd \in {DRAIN, NOP}
    <3>1. call.cmd \notin {CFG, WGT, RUN}
      BY <2>1, PayloadOf
    <3> QED BY <2>1, <3>1, Bytes
  <2>3. Length0 = 8 + (IF call.cmd = DRAIN THEN 1 ELSE 0)
    <3>1. call.cmd # RUN
      BY <2>2, Bytes
    <3>2. Length0 = 3 + PayLen + 5 + (IF call.cmd = DRAIN THEN 1 ELSE 0)
                      + (IF call.cmd = RUN THEN 2 ELSE 0)
      BY CallIs DEF OneSlot
    <3> QED BY <2>1, <3>1, <3>2
  <2> QED BY <2>1, <2>2, <2>3, CallIs, AfterSame DEF OneSlot, Moves
<1>2. /\ (faults = 1 => b = NextByte /\ faults' = 1) /\ (b # NextByte => faults = 0 /\ faults' = 1)
      /\ faults \in {0, 1} /\ (late => rstate = "LEN" /\ cmd = DRAIN)
  BY FaultIs DEF OneSlot
<1>3. /\ sent = 0 => NextByte = SYNC
      /\ sent >= 2 => NextByte = 0
      /\ sent \in {1, 2} => NextByte # SYNC
  <2>1. sent = 2 => NextByte = 0
    BY <1>1, NextByteIs
  <2>2. sent >= 3 => NextByte = 0
    BY <1>1, NextByteIs
  <2> QED BY <1>1, <2>1, <2>2, NextByteIs
<1>4. faults = 0 => Receiving \/ sent >= 3
  BY <1>1 DEF InStep
<1>5. Matches(want) /\ (want.acc # None => \A i \in 1 .. Len(Cap) : WordIs(Cap[i], want.acc))
  BY DEF BareCall
<1>6. want.acc # None => \A i \in 1 .. Len(Cap') : WordIs(Cap'[i], want.acc)
  <2>1. SUFFICES ASSUME want.acc # None
                 PROVE  \A i \in 1 .. (sent + 1) : WordIs(Cap'[i], want.acc)
    BY <1>1, CapStep
  <2>2. acc = want.acc
    BY <1>5, <2>1 DEF Matches, MatchesFrom
  <2>3. WordIs(t, want.acc)
    <3>1. CASE t = Junk
      BY <3>1, Tokens DEF WordIs
    <3>2. CASE t = Sent /\ rstate # "TX"
      <4>1. t = Low
        BY <3>2, SentIs
      <4> QED BY <4>1, Tokens DEF WordIs
    <3>3. CASE t = Sent /\ rstate = "TX"
      <4>1. /\ t = resp[out + 1] /\ out \in Nat /\ out < Len(resp) /\ Len(resp) \in {4, 5}
            /\ \A i \in 1 .. Len(resp) : WordIs(resp[i], acc)
        BY <3>3, SentIs DEF LinkInv, ResponseOK
      <4>2. out + 1 \in 1 .. Len(resp)
        BY <4>1
      <4> QED BY <2>2, <4>1, <4>2
    <3> QED BY <1>1, <3>1, <3>2, <3>3
  <2>4. /\ Len(Cap) = sent /\ \A i \in 1 .. sent : Cap'[i] = Cap[i]
        /\ Cap'[sent + 1] = t
    BY <1>1, CapStep
  <2>5. ASSUME NEW i \in 1 .. (sent + 1)
        PROVE  WordIs(Cap'[i], want.acc)
    <3>1. CASE i = sent + 1
      BY <2>3, <2>4, <3>1
    <3>2. CASE i # sent + 1
      <4>1. i \in 1 .. sent /\ i \in 1 .. Len(Cap)
        BY <1>1, <2>4, <3>2
      <4> QED BY <1>5, <2>1, <2>4, <4>1
    <3> QED BY <3>1, <3>2
  <2> QED BY <2>5
<1>7. ASSUME UNCHANGED <<mem, cfg_K, acc>>,
             \/ rstate' = "HUNT"
             \/ rstate' = "CMD" /\ (sent' = 1 \/ (faults' = 1 /\ sent' >= 4))
             \/ rstate' = "LEN" /\ (sent' = 2 \/ (faults' = 1 /\ cmd' \in {0, SYNC}))
             \/ rstate' = "TX" /\ Answers'
      PROVE  BareCall'
  <2>1. Matches(want)'
    BY <1>1, <1>5, <1>7 DEF Matches, MatchesFrom
  <2>2. (want.acc # None => \A i \in 1 .. Len(Cap) : WordIs(Cap[i], want.acc))'
    BY <1>1, <1>6
  <2> QED BY <1>7, <2>1, <2>2 DEF BareCall
<1>8. CASE rstate = "HUNT"
  <2>1. UNCHANGED <<mem, cfg_K, acc>> /\ rstate' = (IF b = SYNC THEN "CMD" ELSE "HUNT")
    BY <1>1, <1>8, HuntIs
  <2>2. b = SYNC => sent = 0 \/ (faults' = 1 /\ sent >= 3)
    <3>1. SUFFICES ASSUME b = SYNC, sent # 0
                   PROVE  faults' = 1 /\ sent >= 3
      OBVIOUS
    <3>2. NextByte # SYNC
      BY <1>1, <1>3, <3>1, Bytes
    <3>3. faults = 0 /\ faults' = 1
      BY <1>2, <3>1, <3>2
    <3>4. ~Receiving
      BY <1>1, <1>8, <3>1 DEF Receiving
    <3> QED BY <1>4, <3>3, <3>4
  <2>3. sent = 0 => sent' = 1
    BY <1>1
  <2>4. sent >= 3 => sent' >= 4
    BY <1>1
  <2> QED BY <1>7, <2>1, <2>2, <2>3, <2>4
<1>9. CASE rstate = "CMD" /\ (sent = 1 \/ (faults = 1 /\ (sent = 0 \/ sent >= 4)))
  <2>1. UNCHANGED <<mem, cfg_K, acc>> /\ rstate' = "LEN" /\ cmd' = b
    BY <1>1, <1>9, CommandIs
  <2>2. sent = 1 => sent' = 2
    BY <1>1
  <2>3. faults = 1 /\ (sent = 0 \/ sent >= 4) => faults' = 1 /\ b \in {0, SYNC}
    BY <1>1, <1>2, <1>3
  <2> QED BY <1>7, <1>9, <2>1, <2>2, <2>3
<1>10. CASE rstate = "LEN" /\ (sent = 2 \/ (faults = 1 /\ (sent = 0 \/ cmd \in {0, SYNC})))
  <2>1. CASE sent # 2 \/ cmd \in {0, SYNC}
    <3>1. ~LengthOk(cmd, b)
      <4>1. CASE cmd \in {0, SYNC}
        BY <4>1, LengthOkIs
      <4>2. CASE cmd \notin {0, SYNC}
        <5>1. b = SYNC
          BY <1>2, <1>3, <1>10, <2>1, <4>2
        <5> QED BY <5>1, LengthOkIs
      <4> QED BY <4>1, <4>2
    <3>2. rstate' = "HUNT" /\ UNCHANGED <<mem, cfg_K, acc>>
      BY <1>1, <1>10, <3>1, LengthIs
    <3> QED BY <1>7, <3>2
  <2>2. CASE sent = 2
    <3>1. LengthOk(cmd, b) => b = 0
      <4>1. CASE faults = 1
        BY <1>2, <1>3, <2>2, <4>1
      <4>2. CASE faults = 0
        <5>1. cmd = call.cmd
          BY <1>4, <2>2, <4>2, <1>10 DEF Receiving
        <5> QED BY <1>1, <5>1, LengthOkIs
      <4> QED BY <1>2, <4>1, <4>2
    <3>2. CASE rstate' = "HUNT" /\ UNCHANGED <<cmd, rem, got, resp, out, mem, cfg_K, busy, acc>>
      BY <1>7, <3>2
    <3>3. CASE LengthOk(cmd, b) /\ b = 0 /\ Exec(<<>>, mem, late)
      <4>1. /\ LengthOk(cmd, Len(<<>>)) /\ cmd \in Commands /\ mem \in Mem
            /\ \A j \in 1 .. Len(<<>>) : mem[j] = <<>>[j]
        BY <3>3, EmptyPayload, LengthOkIs DEF LinkInv, LinkTypeOK
      <4>2. cmd # CFG /\ cmd # RUN
        BY <3>3, LengthOkIs
      <4>3. /\ out' = 0 /\ Len(resp') \in {4, 5} /\ (Len(resp') = 5 => cmd = DRAIN /\ ~late)
            /\ mem' = mem /\ cfg_K' = cfg_K /\ rstate' = "TX" /\ acc' = acc /\ busy' = busy
        BY <1>1, <3>3, <4>1, <4>2, EmptyPayload, ExecIs
      <4>4. busy = 0
        BY <1>10 DEF LinkInv
      <4>5. Left' = Len(resp')
        BY <4>3, <4>4 DEF Left
      <4>6. Answers'
        BY <1>1, <2>2, <4>3, <4>5 DEF Answers
      <4> QED BY <1>7, <4>3, <4>6
    <3> QED BY <1>1, <1>10, <3>1, <3>2, <3>3, LengthIs
  <2> QED BY <2>1, <2>2
<1>11. CASE rstate = "TX" /\ Answers
  <2>1. (Answers' \/ rstate' = "HUNT") /\ UNCHANGED <<mem, cfg_K, acc>>
    BY <1>1, <1>11, AnswersStep
  <2>2. rstate' \in {"TX", "HUNT"}
    BY <1>1, <1>11, AnswerIs
  <2> QED BY <1>7, <2>1, <2>2
<1> QED BY <1>8, <1>9, <1>10, <1>11 DEF BareCall

-----------------------------------------------------------------------------
\* What the caller may rely on is in the tile.

\* A slot of either kind of call.
LEMMA TrustedSlot ==
  ASSUME MaxFaults <= 1, LinkInv, HostInv, InStep, Trusted, Slot
  PROVE  Trusted'
<1>1. /\ call # None /\ call' = call /\ want' = want /\ (Clear' <=> Clear)
  BY SlotIs, SlotClear
<1>2. After' = After
  BY <1>1, AfterSame
<1>3. SUFFICES ASSUME Clear, After # Nothing
               PROVE  IF call.pay = <<>> THEN BareCall' ELSE PayloadCall'
  BY <1>1, <1>2 DEF Trusted
<1>4. PICK b \in Byte, late \in BOOLEAN : \E t : Moves(b, late, t)
  BY SlotIs
<1>5. PICK t : Moves(b, late, t)
  BY <1>4
<1>6. OneSlot(b, late, t)
  BY <1>1, <1>5, SlotIs DEF OneSlot
<1>7. CASE call.pay = <<>>
  <2>1. BareCall
    BY <1>1, <1>3, <1>7 DEF Trusted
  <2> QED BY <1>6, <1>7, <2>1, BareStep
<1>8. CASE call.pay # <<>>
  <2>1. PayloadCall
    BY <1>1, <1>3, <1>8 DEF Trusted
  <2>2. CASE Receiving /\ NoPre /\ MatchesFrom(want, Written)
    <3>1. CASE b = NextByte
      <4>1. OneSlot(NextByte, late, t)
        BY <1>6, <3>1, Zenon
      <4> QED BY <1>8, <2>2, <4>1, UndamagedPay
    <3>2. CASE b # NextByte
      BY <1>6, <1>8, <2>2, <3>2, DamagedPay
    <3> QED BY <3>1, <3>2
  <2>3. CASE Taken
    BY <1>6, <1>8, <2>3, TakenStep
  <2>4. CASE faults = 1 /\ Lost
    BY <1>6, <1>8, <2>4, LostStep
  <2>5. CASE faults = 1 /\ Answering
    BY <1>6, <1>8, <2>5, AnsweringStep
  <2>6. CASE faults = 1 /\ Bad(Cap)
    <3>1. Bad(Cap)' /\ faults' = 1
      BY <1>5, <1>6, <2>6, BadStays, FaultIs DEF OneSlot, Moves
    <3> QED BY <1>8, <3>1 DEF PayloadCall
  <2>7. CASE faults = 1 /\ Answered
    BY <1>6, <1>8, <2>7, AnsweredStep
  <2> QED BY <1>8, <2>1, <2>2, <2>3, <2>4, <2>5, <2>6, <2>7 DEF PayloadCall
<1> QED BY <1>7, <1>8

\* A transaction begins wherever the last one left the link.
LEMMA TrustedBegin ==
  ASSUME MaxFaults <= 1, LinkInv, HostInv, InStep, Trusted,
         NEW kind, NEW c, NEW p, Starts(kind, c, p)
  PROVE  Trusted'
<1>1. /\ call = None /\ call' # None /\ call'.pay = p /\ call'.cmd = c /\ sent' = 0 /\ Cap' = <<>>
      /\ want' = want /\ faults' = faults /\ faults \in {0, 1} /\ UNCHANGED link
      /\ (Clear' <=> Clear) /\ p \in Seq(Byte)
  <2>1. call' = [cmd |-> c, pay |-> p, kind |-> kind, buf |-> rx_cur]
    BY BeginHost DEF Starts
  <2>2. faults \in {0, 1}
    BY HostAssumption DEF HostInv
  <2>3. UNCHANGED link
    BY DEF Starts, Begin
  <2> QED BY <2>1, <2>2, <2>3, BeginHost, BeginClear DEF Starts
<1>2. UNCHANGED <<rstate, cmd, got, resp, out, mem, cfg_K, acc>>
  BY <1>1, LinkSame
<1>3. NoPre'
  <2>1. DOMAIN Cap' = {}
    BY <1>1, EmptyIs
  <2> QED BY <2>1 DEF NoPre, Preambles
<1>4. SUFFICES ASSUME Clear, After' # Nothing
               PROVE  IF p = <<>> THEN BareCall' ELSE PayloadCall'
  BY <1>1 DEF Trusted
<1>5. want # Nothing => rstate \in Between /\ Matches(want)
  BY <1>1, <1>4 DEF Trusted
<1>6. faults = 0 => rstate = "HUNT"
  BY <1>1 DEF InStep
<1>7. Matches(want)
  <2>1. CASE want = Nothing
    BY <2>1 DEF Matches, MatchesFrom, Nothing
  <2> QED BY <1>5, <2>1
<1>8. Matches(want)'
  BY <1>1, <1>2, <1>7 DEF Matches, MatchesFrom
<1>9. CASE p = <<>>
  <2>1. want # Nothing
    <3>1. WellFormed(c, p) /\ c \in Commands
      BY DEF Starts
    <3>2. c \notin {CFG, WGT, RUN}
      BY <1>1, <1>9, <3>1, PayloadOf
    <3>3. After' = WantAfter(c, p)'
      BY <1>1 DEF After
    <3>4. WantAfter(c, p)' = want'
      <4>1. c \in {DRAIN, NOP}
        BY <3>1, <3>2, Bytes
      <4>2. c # CFG /\ c # WGT /\ c # RUN
        BY <4>1, Bytes
      <4> QED BY <4>2 DEF WantAfter
    <3> QED BY <1>1, <1>4, <3>3, <3>4
  <2>2. rstate \in Between
    BY <1>5, <2>1
  <2>3. (want.acc # None => \A i \in 1 .. Len(Cap) : WordIs(Cap[i], want.acc))'
    <3>1. Len(Cap') = 0
      BY <1>1, EmptySeq
    <3> QED BY <3>1
  <2>4. BareCall'
    BY <1>1, <1>2, <1>6, <1>8, <2>2, <2>3 DEF BareCall, Between
  <2> QED BY <1>9, <2>4
<1>10. CASE p # <<>>
  <2>1. CASE rstate = "HUNT"
    <3>1. Receiving' /\ Written' = 0
      BY <1>1, <1>2, <2>1 DEF Receiving, Written
    <3>2. MatchesFrom(want, Written)'
      BY <1>8, <3>1 DEF Matches
    <3> QED BY <1>3, <1>10, <3>1, <3>2 DEF PayloadCall
  <2>2. CASE rstate # "HUNT"
    <3>1. faults' = 1
      BY <1>1, <1>6, <2>2
    <3>2. Lost'
      BY <1>1, <1>2, <1>3, <1>5, <2>2 DEF Lost, Between
    <3> QED BY <1>10, <3>1, <3>2 DEF PayloadCall
  <2> QED BY <2>1, <2>2
<1> QED BY <1>9, <1>10

\* The first preamble is where a response is decoded.
LEMMA PreambleIs ==
  ASSUME NEW cap, IsSeq(cap), NEW o, First(cap, o)
  PROVE  Preambles(cap) # {} /\ Preamble(cap) = o
<1>1. DOMAIN cap = 1 .. Len(cap) /\ Len(cap) \in Nat
  BY AppendIs
<1>2. o \in 1 .. Len(cap) /\ cap[o] = Pre /\ \A i \in 1 .. (o - 1) : cap[i] # Pre
  BY <1>1 DEF First
<1>3. o \in Preambles(cap) /\ \A j \in Preambles(cap) : o <= j
  BY <1>1, <1>2 DEF Preambles
<1>4. Preamble(cap) \in Preambles(cap) /\ \A j \in Preambles(cap) : Preamble(cap) <= j
  <2>1. \E i \in Preambles(cap) : \A j \in Preambles(cap) : i <= j
    BY <1>3
  <2> QED BY <2>1 DEF Preamble
<1>5. Preamble(cap) \in Nat
  BY <1>1, <1>4 DEF Preambles
<1> QED BY <1>2, <1>3, <1>4, <1>5

\* A call with a payload whose response decodes: the link executed it, and stopped.
LEMMA DecodedPay ==
  ASSUME LinkInv, HostInv, call # None, sent = Length0, call.pay # <<>>, PayloadCall,
         Decode(Cap, call) = OK
  PROVE  rstate \in Between /\ Matches(After)
<1>1. /\ sent \in Nat /\ PayLen \in 0 .. 2 /\ Length0 >= 8 + PayLen /\ IsSeq(Cap)
      /\ Len(Cap) = sent /\ call.cmd \in {CFG, WGT, RUN} /\ Words(call.cmd) = 0
  <2>1. call.cmd \in {CFG, WGT, RUN}
    <3>1. call.cmd \notin {DRAIN, NOP} /\ call.cmd \in Commands
      BY CallIs, PayloadOf
    <3> QED BY <3>1, Bytes
  <2>2. Words(call.cmd) = 0
    BY <2>1, Bytes DEF Words
  <2> QED BY <2>1, <2>2, CallIs
<1>2. ~Receiving /\ ~Answers
  BY <1>1, LeftIs DEF Receiving, Answers
<1>3. ~NoPre
  BY DEF Decode, NoPre, OK
<1>4. \A o : First(Cap, o) =>
        /\ At(Cap, o + 1)[1] = "status" /\ At(Cap, o + 1)[2] = call.cmd
        /\ At(Cap, o + 2) = RxCrc(call.pay)
        /\ At(Cap, o + 3) = TxCrc(Zeroed(Cap, o + 1, 2))
  <2> SUFFICES ASSUME NEW o, First(Cap, o)
               PROVE  /\ At(Cap, o + 1)[1] = "status" /\ At(Cap, o + 1)[2] = call.cmd
                      /\ At(Cap, o + 2) = RxCrc(call.pay)
                      /\ At(Cap, o + 3) = TxCrc(Zeroed(Cap, o + 1, 2))
    OBVIOUS
  <2>1. Preamble(Cap) = o /\ Preambles(Cap) # {}
    BY <1>1, PreambleIs
  <2>2. o \in 1 .. Len(Cap)
    BY <1>1, AppendIs DEF First
  <2>3. /\ At(Cap, o + 1)[1] = "status" /\ At(Cap, o + 1)[2] = call.cmd
        /\ At(Cap, o + 2) = RxCrc(call.pay)
        /\ At(Cap, o + 3 + Words(call.cmd)) = TxCrc(Zeroed(Cap, o + 1, 2 + Words(call.cmd)))
    BY <2>1 DEF Decode, OK
  <2>4. o + 3 + Words(call.cmd) = o + 3 /\ 2 + Words(call.cmd) = 2
    BY <1>1, <2>2
  <2> QED BY <2>3, <2>4, Zenon
<1>5. CASE Taken
  BY <1>2, <1>5 DEF Taken, Between
<1>6. CASE Lost
  BY <1>3, <1>6 DEF Lost
<1>7. CASE Bad(Cap)
  <2>1. PICK o \in 1 .. (Len(Cap) - 2) :
          /\ First(Cap, o)
          /\ Cap[o + 1][1] # "status" \/ Cap[o + 1][2] # call.cmd \/ Cap[o + 2] # RxCrc(call.pay)
    BY <1>7 DEF Bad
  <2>2. At(Cap, o + 1) = Cap[o + 1] /\ At(Cap, o + 2) = Cap[o + 2]
    BY <1>1, <2>1 DEF At
  <2> QED BY <1>4, <2>1, <2>2
<1>8. CASE Answered
  BY <1>8 DEF Answered, Between
<1>9. CASE Answering
  <2> DEFINE o == sent - out + 1
  <2>1. /\ rstate = "TX" /\ out \in Nat /\ out >= 1 /\ out <= sent /\ out < Len(resp)
        /\ Len(resp) \in {4, 5} /\ (Len(resp) = 5 => cmd = DRAIN)
        /\ resp[2][2] = cmd
        /\ First(Cap, o) /\ (out >= 2 => Cap[o + 1] = resp[2])
    <3>1. rstate = "TX" /\ out >= 1 /\ out <= sent /\ First(Cap, o)
      BY <1>9 DEF Answering
    <3>2. ResponseOK /\ out \in Nat /\ out < Len(resp)
      BY <3>1 DEF LinkInv
    <3>3. o + 1 = sent - out + 2
      BY <1>1, <3>2
    <3>4. out >= 2 => Cap[o + 1] = resp[2]
      BY <1>9, <3>3, Zenon DEF Answering
    <3> QED BY <3>1, <3>2, <3>4 DEF ResponseOK
  <2>2. sent = o + out - 1 /\ o \in Nat
    BY <1>1, <2>1
  <2> HIDE DEF o
  <2>3. /\ At(Cap, o + 1)[1] = "status" /\ At(Cap, o + 1)[2] = call.cmd
        /\ At(Cap, o + 2) = RxCrc(call.pay)
        /\ At(Cap, o + 3) = TxCrc(Zeroed(Cap, o + 1, 2))
    BY <1>4, <2>1
  <2>4. \A i \in Nat : i > sent => At(Cap, i) = Low
    BY <1>1 DEF At
  <2>9. PICK n \in {4, 5} : Len(resp) = n /\ out \in Nat /\ out >= 1 /\ out < n
    BY <2>1
  <2>5. CASE out = 1
    <3>1. At(Cap, o + 1) = Low
      BY <2>2, <2>4, <2>5
    <3> QED BY <2>3, <3>1, Tokens
  <2>6. CASE out = 2
    <3>1. At(Cap, o + 2) = Low
      BY <2>2, <2>4, <2>6
    <3> QED BY <2>3, <3>1, Tokens
  <2>7. CASE out = 3
    <3>1. At(Cap, o + 3) = Low
      BY <2>2, <2>4, <2>7
    <3> QED BY <2>3, <3>1, Tokens
  <2>8. CASE out = 4
    <3>1. cmd = DRAIN
      <4>1. Len(resp) = 5
        BY <2>8, <2>9
      <4> QED BY <2>1, <4>1
    <3>2. At(Cap, o + 1) = resp[2]
      <4>1. o + 1 <= sent
        BY <2>2, <2>8
      <4> QED BY <1>1, <2>1, <2>8, <4>1 DEF At
    <3>3. call.cmd = DRAIN
      BY <2>1, <2>3, <3>1, <3>2
    <3> QED BY <1>1, <3>3, Bytes
  <2>10. out \in {1, 2, 3, 4}
    BY <2>9
  <2> QED BY <2>5, <2>6, <2>7, <2>8, <2>10
<1> QED BY <1>2, <1>5, <1>6, <1>7, <1>8, <1>9 DEF PayloadCall

\* A call that ran to its end, and whose result the caller builds on.
LEMMA TrustedFinish ==
  ASSUME LinkInv, HostInv, Trusted, Finish
  PROVE  Trusted'
<1>1. /\ call # None /\ sent = Length0 /\ UNCHANGED link /\ call' = None
  BY FinishIs DEF Returned
<1>2. SUFFICES ASSUME Clear', want' # Nothing
               PROVE  (rstate \in Between)' /\ Matches(want)'
  BY <1>1 DEF Trusted
<1>3. Clear
  BY <1>2, FinishClear
<1>4. want' = After /\ (call.pay # <<>> => Decode(Cap, call) = OK)
  <2>1. CASE call.kind = "deferred" /\ Returned(TakePend(OK), After)
    <3>1. call.cmd = DRAIN /\ WellFormed(call.cmd, call.pay)
      BY <1>1, <2>1, CallIs DEF CallOK
    <3>2. call.pay = <<>>
      BY <3>1 DEF WellFormed
    <3> QED BY <1>2, <2>1, <3>2 DEF Returned
  <2>2. CASE call.kind = "plain" /\ Defers(call.kind, call.cmd) /\ Returned(TakePend(OK), After)
    BY <1>2, <2>2, FinishClear DEF Returned
  <2>3. CASE Returned(TakePend(Decode(Cap, call)), After)
    <3>1. TakePend(Decode(Cap, call)) = OK
      BY <1>2, <2>3 DEF Returned
    <3>2. Decode(Cap, call) = OK
      BY <3>1, DecodeIs, TakePendIs
    <3> QED BY <1>2, <2>3, <3>1, <3>2 DEF Returned
  <2> QED BY <2>1, <2>2, <2>3, FinishIs
<1>5. rstate \in Between /\ Matches(After)
  <2>1. CASE call.pay = <<>>
    <3>1. BareCall
      BY <1>1, <1>2, <1>3, <1>4, <2>1 DEF Trusted
    <3>2. After = want
      <4>1. call.cmd \in {DRAIN, NOP}
        <5>1. call.cmd \in Commands /\ call.cmd \notin {CFG, WGT, RUN}
          BY <1>1, <2>1, CallIs, PayloadOf
        <5> QED BY <5>1, Bytes
      <4>2. call.cmd # CFG /\ call.cmd # WGT /\ call.cmd # RUN
        BY <4>1, Bytes
      <4> QED BY <4>2 DEF After, WantAfter
    <3>3. ~Answers
      BY <1>1, LeftIs, CallIs DEF Answers
    <3> QED BY <3>1, <3>2, <3>3 DEF BareCall, Between
  <2>2. CASE call.pay # <<>>
    <3>1. PayloadCall
      BY <1>1, <1>2, <1>3, <1>4, <2>2 DEF Trusted
    <3> QED BY <1>1, <1>4, <2>2, <3>1, DecodedPay
  <2> QED BY <2>1, <2>2
<1>6. UNCHANGED <<rstate, mem, cfg_K, acc>>
  BY <1>1, LinkSame
<1> QED BY <1>4, <1>5, <1>6 DEF Matches, MatchesFrom, Between

\* A step that touches nothing the caller builds on.
LEMMA TrustedSame ==
  ASSUME HostInv, Trusted, UNCHANGED <<link, call, sent, want, faults>>, Clear' <=> Clear,
         call # None => Cap' = Cap
  PROVE  Trusted'
<1>1. UNCHANGED <<rstate, cmd, rem, got, resp, out, mem, cfg_K, busy, acc>>
  BY LinkSame
<1>2. /\ Matches(want)' = Matches(want) /\ Matches(After)' = Matches(After)
      /\ After' = After /\ PayLen' = PayLen /\ Length0' = Length0
      /\ MatchesFrom(want, Written)' = MatchesFrom(want, Written)
      /\ Receiving' = Receiving /\ Answers' = Answers /\ Echo' = Echo /\ Prefix' = Prefix
  <2>1. After' = After /\ PayLen' = PayLen /\ Length0' = Length0
    BY AfterSame
  <2>2. Written' = Written /\ Left' = Left
    BY <1>1 DEF Written, Left
  <2>3. Receiving' = Receiving /\ Answers' = Answers /\ Echo' = Echo /\ Prefix' = Prefix
    BY <1>1, <2>1, <2>2 DEF Receiving, Answers, Echo, Prefix
  <2> QED BY <1>1, <2>1, <2>2, <2>3 DEF Matches, MatchesFrom
<1>3. CASE call = None
  BY <1>1, <1>2, <1>3 DEF Trusted
<1>4. CASE call # None
  <2>1. NoPre' = NoPre /\ Bad(Cap)' = Bad(Cap)
    BY <1>4 DEF NoPre, Bad, First, Preambles
  <2>2. Lost' = Lost /\ Answered' = Answered /\ Taken' = Taken
    BY <1>1, <1>2, <2>1 DEF Lost, Answered, Taken
  <2>3. Answering' = Answering
    BY <1>1, <1>2, <1>4 DEF Answering, First
  <2>4. PayloadCall' = PayloadCall
    BY <1>2, <2>1, <2>2, <2>3 DEF PayloadCall
  <2>5. BareCall' = BareCall
    BY <1>1, <1>2, <1>4 DEF BareCall
  <2> QED BY <1>1, <1>2, <1>4, <2>4, <2>5 DEF Trusted
<1> QED BY <1>3, <1>4

\* Every action keeps what the caller wants true or reported.
LEMMA TrustedNext ==
  ASSUME ~MidStream, MaxFaults <= 1, LinkInv, HostInv, InStep, Trusted, [Next]_vars
  PROVE  Trusted'
<1>1. ASSUME NEW kind, NEW c, NEW p, Starts(kind, c, p)
      PROVE  Trusted'
  BY <1>1, TrustedBegin
<1>2. CASE Refused
  BY <1>2, RefusedHost DEF Trusted
<1>3. CASE Sync
  <2>1. CASE Clear
    <3>1. UNCHANGED <<link, call, sent, want, faults>> /\ call = None /\ Clear'
      BY <1>3, <2>1, SyncHost DEF Clear
    <3> QED BY <2>1, <3>1, TrustedSame
  <2>2. CASE ~Clear
    BY <1>3, <2>2, SyncHost DEF Trusted
  <2> QED BY <2>1, <2>2
<1>4. ASSUME NEW on \in BOOLEAN, SetMode(on)
      PROVE  Trusted'
  <2>1. UNCHANGED <<link, call, sent, want, faults>> /\ call = None /\ Clear /\ Clear'
    BY <1>4, SetModeHost DEF Clear
  <2> QED BY <2>1, TrustedSame
<1>5. CASE Slot
  BY <1>5, TrustedSlot
<1>6. CASE RetirePrevious
  <2>1. UNCHANGED <<link, call, sent, want, faults>> /\ Cap' = Cap /\ (Clear' <=> Clear)
    BY <1>6, RetirePreviousHost, RetireClear DEF ghosts
  <2> QED BY <2>1, TrustedSame
<1>7. CASE Finish
  BY <1>7, TrustedFinish
<1>8. CASE Stall
  <2>1. call' = None /\ want' = Nothing
    BY <1>8, StallHost DEF Returned
  <2> QED BY <2>1 DEF Trusted
<1>9. CASE DecodeDefer
  <2>1. UNCHANGED <<link, call, sent, want, faults>> /\ (call # None => Cap' = Cap)
        /\ (Clear' <=> Clear)
    BY <1>9, DecodeDeferHost DEF Clear
  <2> QED BY <2>1, TrustedSame
<1>10. CASE UNCHANGED vars
  <2>1. UNCHANGED <<link, call, sent, want, faults, rxb, defer, pend, pend_err>>
    BY <1>10 DEF vars, host, ghosts
  <2>2. Cap' = Cap /\ (Clear' <=> Clear)
    BY <2>1 DEF Cap, Clear
  <2> QED BY <2>1, <2>2, TrustedSame
<1> QED BY <1>1, <1>2, <1>3, <1>4, <1>5, <1>6, <1>7, <1>8, <1>9, <1>10, NextCases

\* A set of natural numbers has a least one.
LEMMA LeastIs ==
  ASSUME NEW T, T \subseteq Nat, T # {}
  PROVE  \E i \in T : \A j \in T : i <= j
<1> DEFINE R == {ss \in Nat \X Nat : ss[1] < ss[2]}
<1>1. IsWellFoundedOn(R, Nat)
  BY NatLessThanWellFounded DEF OpToRel
<1>2. \A x \in Nat, y \in Nat : y < x => <<y, x>> \in R
  OBVIOUS
<1> HIDE DEF R
<1>3. PICK i \in T : \A j \in T : ~(<<j, i>> \in R)
  BY <1>1, WFMin
<1>4. \A j \in T : ~(j < i)
  BY <1>2, <1>3
<1> QED BY <1>4

\* Where a response is decoded, if there is one.
LEMMA PreambleAt ==
  ASSUME NEW cap, IsSeq(cap), Preambles(cap) # {}
  PROVE  Preamble(cap) \in 1 .. Len(cap)
<1>1. DOMAIN cap = 1 .. Len(cap) /\ Len(cap) \in Nat
  BY AppendIs
<1>2. Preambles(cap) \subseteq 1 .. Len(cap)
  BY <1>1 DEF Preambles
<1>3. \E i \in Preambles(cap) : \A j \in Preambles(cap) : i <= j
  <2>1. Preambles(cap) \subseteq Nat
    BY <1>1, <1>2
  <2> QED BY <2>1, LeastIs
<1> QED BY <1>2, <1>3 DEF Preamble

\* A drain that decodes out of a capture in which every CRC that covers a word covers the
\* word a, delivers a.
LEMMA DrainDecoded ==
  ASSUME NEW cap, IsSeq(cap), NEW k, k.cmd = DRAIN, Decode(cap, k) = OK,
         NEW a, \A i \in 1 .. Len(cap) : WordIs(cap[i], a)
  PROVE  Delivered(cap, k) = <<Word(a)>>
<1> DEFINE o == Preamble(cap)
           z == Zeroed(cap, o + 1, 3)
<1>1. /\ o \in 1 .. Len(cap) /\ Len(cap) \in Nat /\ Words(k.cmd) = 1
      /\ At(cap, o + 4) = TxCrc(z)
  <2>1. /\ Preambles(cap) # {} /\ Words(k.cmd) = 1
        /\ At(cap, o + 3 + Words(k.cmd)) = TxCrc(Zeroed(cap, o + 1, 2 + Words(k.cmd)))
    BY DEF Decode, OK, Words
  <2>2. o \in 1 .. Len(cap) /\ Len(cap) \in Nat
    BY <2>1, PreambleAt, AppendIs
  <2>3. o + 3 + Words(k.cmd) = o + 4 /\ 2 + Words(k.cmd) = 3
    BY <2>1, <2>2
  <2> QED BY <2>1, <2>2, <2>3, Zenon
<1>2. z = [j \in 1 .. 3 |-> At(cap, o + 1 + j - 1)]
  BY DEF Zeroed
<1>3. Len(z) = 3 /\ z[3] = At(cap, o + 3)
  <2>1. o + 1 + 3 - 1 = o + 3
    BY <1>1
  <2>2. z[3] = At(cap, o + 1 + 3 - 1)
    BY <1>2
  <2>3. DOMAIN z = 1 .. 3 /\ z \in Seq({z[j] : j \in 1 .. 3})
    <3>1. DOMAIN z = 1 .. 3 /\ z = [j \in 1 .. 3 |-> z[j]]
      BY <1>2
    <3> HIDE DEF z
    <3>2. [j \in 1 .. 3 |-> z[j]] \in Seq({z[j] : j \in 1 .. 3})
      <4>1. \A j \in 1 .. 3 : z[j] \in {z[x] : x \in 1 .. 3}
        OBVIOUS
      <4> QED BY <4>1, IsASeq
    <3> QED BY <3>1, <3>2
  <2>4. Len(z) = 3
    <3> HIDE DEF z
    <3>1. DOMAIN z = 1 .. Len(z) /\ Len(z) \in Nat
      BY <2>3, LenProperties
    <3> QED BY <2>3, <3>1
  <2> QED BY <2>1, <2>2, <2>4, Zenon
<1> HIDE DEF o, z
<1>4. o + 4 \in 1 .. Len(cap) /\ cap[o + 4] = TxCrc(z)
  <2>1. At(cap, o + 4) # Low
    BY <1>1, Tokens
  <2> QED BY <1>1, <2>1 DEF At
<1>5. z[3] = Word(a)
  <2>1. WordIs(TxCrc(z), a)
    BY <1>4
  <2> QED BY <1>3, <2>1, Tokens DEF WordIs
<1>6. cap[o + 3] = Word(a)
  BY <1>1, <1>3, <1>4, <1>5 DEF At
<1>7. Delivered(cap, k) = SubSeq(cap, o + 3, o + 3)
  <2>1. o + 2 + Words(k.cmd) = o + 3
    BY <1>1
  <2> QED BY <2>1, Zenon DEF Delivered, o
<1>8. SubSeq(cap, o + 3, o + 3) = <<cap[o + 3]>>
  <2>1. cap \in Seq({cap[i] : i \in DOMAIN cap})
    BY DEF IsSeq
  <2>2. o + 3 \in 1 .. Len(cap)
    BY <1>1, <1>4
  <2> DEFINE s == SubSeq(cap, o + 3, o + 3)
  <2>3. s = [i \in 1 .. 1 |-> cap[o + 3 + i - 1]]
    BY <2>1, <2>2
  <2> HIDE DEF s
  <2> DEFINE c == cap[o + 3]
  <2>4. s = [i \in 1 .. 1 |-> c]
    <3>1. \A i \in 1 .. 1 : o + 3 + i - 1 = o + 3
      BY <1>1
    <3> QED BY <2>3, <3>1
  <2> HIDE DEF c
  <2>5. [i \in 1 .. 1 |-> c] = <<c>>
    OBVIOUS
  <2>6. s = <<c>>
    BY <2>4, <2>5, Zenon
  <2> QED BY <2>6 DEF c, s
<1> QED BY <1>6, <1>7, <1>8

\* What a descriptor still to be decoded will deliver.
LEMMA DeferNext ==
  ASSUME HostInv, Trusted, DeferOK, [Next]_vars
  PROVE  DeferOK'
<1>1. ASSUME NEW kind, NEW c, NEW p, Starts(kind, c, p)
      PROVE  DeferOK'
  BY <1>1, BeginHost DEF Starts, DeferOK
<1>2. CASE Refused \/ Sync \/ (\E on \in BOOLEAN : SetMode(on)) \/ RetirePrevious \/ UNCHANGED vars
  <2>1. UNCHANGED defer
    BY <1>2 DEF Refused, Sync, SetMode, RetirePrevious, vars, host
  <2> QED BY <2>1 DEF DeferOK
<1>3. CASE Slot
  <2>1. /\ call # None /\ defer'.want = defer.want /\ defer'.armed = defer.armed
        /\ call.kind = "plain" => defer' = defer
    BY <1>3, SlotHost, SlotIs
  <2>2. call.kind \in {"plain", "deferred"} /\ (call.kind = "deferred" => ~defer.armed)
    BY <2>1, CallIs DEF CallOK
  <2> QED BY <2>1, <2>2 DEF DeferOK
<1>4. CASE Stall
  BY <1>4, StallHost DEF DeferOK
<1>5. CASE DecodeDefer
  BY <1>5, DecodeDeferHost DEF DeferOK
<1>6. CASE Finish
  <2>1. CASE /\ call.kind = "deferred" /\ pend = None
             /\ defer' = [armed |-> TRUE, cap |-> defer.cap, age |-> 0,
                          want |-> IF pend_err = OK THEN want.acc ELSE None]
    <3>1. defer'.cap = Cap /\ defer'.want = (IF pend_err = OK THEN want.acc ELSE None)
      BY <2>1 DEF Cap
    <3>2. SUFFICES ASSUME defer'.want # None, Decode(Cap, Drain) = OK
                   PROVE  Delivered(Cap, Drain) = <<Word(defer'.want)>>
      BY <3>1 DEF DeferOK
    <3>3. Clear /\ want # Nothing /\ want.acc # None /\ defer'.want = want.acc
      BY <2>1, <3>1, <3>2 DEF Clear, Nothing
    <3>4. call # None /\ call.cmd = DRAIN /\ call.pay = <<>> /\ IsSeq(Cap)
      <4>1. call # None
        BY <1>6, FinishIs
      <4>2. CallOK /\ IsSeq(Cap) /\ WellFormed(call.cmd, call.pay)
        BY <4>1, CallIs
      <4> QED BY <2>1, <4>1, <4>2 DEF CallOK, WellFormed
    <3>5. After = want
      <4>1. call.cmd # CFG /\ call.cmd # WGT /\ call.cmd # RUN
        BY <3>4, Bytes
      <4> QED BY <4>1 DEF After, WantAfter
    <3>6. BareCall
      BY <3>3, <3>4, <3>5 DEF Trusted
    <3>7. Drain.cmd = DRAIN
      BY DEF Drain
    <3>8. \A i \in 1 .. Len(Cap) : WordIs(Cap[i], want.acc)
      BY <3>3, <3>6 DEF BareCall
    <3>9. Delivered(Cap, Drain) = <<Word(want.acc)>>
      BY <3>2, <3>4, <3>7, <3>8, DrainDecoded
    <3> QED BY <3>3, <3>9
  <2>2. CASE defer' = defer
    BY <2>2 DEF DeferOK
  <2> QED BY <1>6, <2>1, <2>2, FinishIs
<1> QED BY <1>1, <1>2, <1>3, <1>4, <1>5, <1>6, NextCases

\* And what is delivered with no error is what was asked for.
LEMMA SilentNext ==
  ASSUME HostInv, Trusted, DeferOK, NoSilentCorruption, [Next]_vars
  PROVE  NoSilentCorruption'
<1>1. ASSUME result'.words = <<>>
      PROVE  NoSilentCorruption'
  BY <1>1 DEF NoSilentCorruption
<1>2. ASSUME result' = result
      PROVE  NoSilentCorruption'
  BY <1>2 DEF NoSilentCorruption
<1>3. ASSUME NEW kind, NEW c, NEW p, Starts(kind, c, p)
      PROVE  NoSilentCorruption'
  <2>1. result' = [err |-> OK, words |-> <<>>, want |-> None]
    BY <1>3 DEF Starts, Begin
  <2> QED BY <1>1, <2>1
<1>4. CASE Refused
  <2>1. result' = [err |-> "STATUS", words |-> <<>>, want |-> None]
    BY <1>4 DEF Refused
  <2> QED BY <1>1, <2>1
<1>5. CASE Sync
  BY <1>1, <1>5, SyncHost
<1>6. ASSUME NEW on \in BOOLEAN, SetMode(on)
      PROVE  NoSilentCorruption'
  BY <1>1, <1>6, SetModeHost
<1>7. CASE Slot \/ RetirePrevious \/ UNCHANGED vars
  <2>1. result' = result
    BY <1>7 DEF Slot, RetirePrevious, vars, host
  <2> QED BY <1>2, <2>1
<1>8. CASE Stall
  <2>1. Return("STALL", <<>>, None, FALSE)
    BY <1>8 DEF Stall
  <2>2. result'.words = <<>>
    BY <2>1 DEF Return
  <2> QED BY <1>1, <2>2
<1>9. CASE DecodeDefer
  BY <1>9, DecodeDeferHost DEF DeferOK, NoSilentCorruption
<1>10. CASE Finish
  <2>1. CASE result'.words = <<>>
    BY <1>1, <2>1
  <2>2. CASE /\ call.kind = "plain"
             /\ result'.words = (IF Decode(Cap, call) = OK THEN Delivered(Cap, call) ELSE <<>>)
             /\ result'.want = want.acc
    <3>1. SUFFICES ASSUME result'.err = OK, result'.words # <<>>, result'.want # None
                   PROVE  result'.words = <<Word(result'.want)>>
      BY DEF NoSilentCorruption
    <3>2. Decode(Cap, call) = OK /\ result'.words = Delivered(Cap, call)
      BY <2>2, <3>1
    <3>3. Clear /\ want.acc # None /\ want # Nothing /\ call # None
      BY <1>10, <2>2, <3>1, FinishClear, FinishIs DEF Nothing
    <3>4. IsSeq(Cap) /\ WellFormed(call.cmd, call.pay) /\ call.cmd \in Commands
      BY <3>3, CallIs
    <3>5. CASE call.cmd = DRAIN
      <4>1. call.pay = <<>>
        BY <3>4, <3>5 DEF WellFormed
      <4>2. call.cmd # CFG /\ call.cmd # WGT /\ call.cmd # RUN
        BY <3>5, Bytes
      <4>3. After = want
        BY <4>2 DEF After, WantAfter
      <4>4. BareCall
        BY <3>3, <4>1, <4>3 DEF Trusted
      <4>5. \A i \in 1 .. Len(Cap) : WordIs(Cap[i], want.acc)
        BY <3>3, <4>4 DEF BareCall
      <4>6. Delivered(Cap, call) = <<Word(want.acc)>>
        BY <3>2, <3>4, <3>5, <4>5, DrainDecoded
      <4> QED BY <2>2, <3>2, <4>6
    <3>6. CASE call.cmd # DRAIN
      <4>1. Words(call.cmd) = 0 /\ Preambles(Cap) # {}
        BY <3>2, <3>6 DEF Words, Decode, OK
      <4>2. Preamble(Cap) \in 1 .. Len(Cap) /\ Len(Cap) \in Nat
        BY <3>4, <4>1, PreambleAt, AppendIs
      <4>3. Delivered(Cap, call) = SubSeq(Cap, Preamble(Cap) + 3, Preamble(Cap) + 2)
        <5>1. Preamble(Cap) + 2 + Words(call.cmd) = Preamble(Cap) + 2
          BY <4>1, <4>2
        <5> QED BY <5>1, Zenon DEF Delivered
      <4>4. SubSeq(Cap, Preamble(Cap) + 3, Preamble(Cap) + 2) = <<>>
        <5>1. Cap \in Seq({Cap[i] : i \in DOMAIN Cap})
          BY <3>4 DEF IsSeq
        <5> HIDE DEF Cap
        <5> QED BY <4>2, <5>1
      <4> QED BY <3>1, <3>2, <4>3, <4>4
    <3> QED BY <3>5, <3>6
  <2> QED BY <1>10, <2>1, <2>2, FinishIs
<1> QED BY <1>3, <1>4, <1>5, <1>6, <1>7, <1>8, <1>9, <1>10, NextCases

\* A block whose drain returned OK is the block asked for: over one fault of the wire, the tile or
\* the transfer anywhere, whatever calls the caller makes and whatever a damaged frame is taken
\* for, gemm_host.c never hands over wrong accumulators with no error.
THEOREM NothingIsSilent ==
  ASSUME MaxFaults <= 1, ~MidStream
  PROVE  Spec => []NoSilentCorruption
<1> DEFINE Inv == InStep /\ Trusted /\ DeferOK /\ NoSilentCorruption
<1>1. Init => Inv
  <2> SUFFICES ASSUME Init PROVE Inv
    OBVIOUS
  <2>1. /\ call = None /\ faults = 0 /\ want = Nothing /\ defer = Unarmed
        /\ result = [err |-> OK, words |-> <<>>, want |-> None] /\ rstate = "HUNT" /\ cfg_K = 0
    BY Zenon DEF Init, LinkInit
  <2>2. InStep
    BY <2>1, Bytes DEF InStep
  <2>3. Trusted /\ DeferOK /\ NoSilentCorruption
    BY <2>1 DEF Trusted, DeferOK, Unarmed, NoSilentCorruption
  <2> QED BY <2>2, <2>3
<1>2. LinkInv /\ HostInv /\ Inv /\ [Next]_vars => Inv'
  BY InStepNext, TrustedNext, DeferNext, SilentNext
<1>3. Inv => NoSilentCorruption
  OBVIOUS
<1> QED BY <1>1, <1>2, <1>3, DriverShape, PTL DEF Spec

-----------------------------------------------------------------------------
\* How long a link that missed a header stays deaf.

\* What is still to go of a frame and its response is bounded, whatever the frame was taken for.
LEMMA ToGoIs ==
  ASSUME LinkInv
  PROVE  /\ ToGo \in Nat
         /\ rstate \in {"PAY", "WAIT", "TX"} => ToGo <= 12
<1>1. Left \in Nat /\ cfg_K \in 0 .. 6 /\ busy \in 0 .. 7
  BY LeftIs, Bytes DEF LinkInv, LinkTypeOK
<1>2. CASE rstate = "PAY"
  <2>1. rem \in 1 .. 2 /\ cmd \in {CFG, WGT, RUN} /\ (cmd # WGT => rem = 1)
    <3>1. /\ rem >= 1 /\ Len(got) + rem <= WGTMAX /\ Len(got) \in Nat /\ rem \in 0 .. WGTMAX
          /\ cmd \in {CFG, WGT, RUN} /\ (cmd # WGT => Len(got) + rem = 1)
      BY <1>2, LenProperties DEF LinkInv, LinkTypeOK, PayloadOK
    <3> QED BY <3>1, Bytes
  <2>2. ToGo = rem + (IF cmd = RUN THEN cfg_K + 1 ELSE 0) + 4
    BY <1>2 DEF ToGo
  <2> QED BY <1>1, <2>1, <2>2, Bytes
<1>3. CASE rstate # "PAY"
  <2>1. ToGo = Left
    BY <1>3 DEF ToGo
  <2>2. rstate = "WAIT" => Left <= 12
    <3>1. SUFFICES ASSUME rstate = "WAIT" PROVE Left <= 12
      OBVIOUS
    <3>2. PICK n \in {4, 5} : Len(resp) = n
      BY <3>1 DEF LinkInv, ResponseOK
    <3>3. Left = busy + n
      BY <3>1, <3>2, LeftIs
    <3> QED BY <1>1, <3>3
  <2>3. rstate = "TX" => Left <= 12
    <3>1. SUFFICES ASSUME rstate = "TX" PROVE Left <= 12
      OBVIOUS
    <3>2. PICK n \in {4, 5} : Len(resp) = n
      BY <3>1 DEF LinkInv, ResponseOK
    <3>3. Left = n - out /\ out \in Nat
      BY <3>1, <3>2, LeftIs DEF LinkInv
    <3> QED BY <3>2, <3>3
  <2> QED BY <1>1, <1>3, <2>1, <2>2, <2>3
<1> QED BY <1>2, <1>3

\* In a frame without a SYNC in its payload only its first byte is one.
LEMMA OneSync ==
  ASSUME HostInv, call # None, ~HasSync
  PROVE  sent # 0 => NextByte # SYNC
<1>1. SUFFICES ASSUME sent # 0
               PROVE  NextByte # SYNC
  OBVIOUS
<1>2. sent \in Nat /\ PayLen \in 0 .. 2 /\ PayLen = Len(call.pay)
  BY CallIs DEF PayLen
<1>3. CASE sent \in {1, 2}
  BY <1>3, NextByteIs
<1>4. CASE sent >= 3 + PayLen
  BY <1>4, NextByteIs, Bytes
<1>5. CASE sent \in 3 .. (2 + PayLen)
  <2>1. NextByte = call.pay[sent - 2]
    <3>1. sent # 0 /\ sent # 1 /\ sent # 2 /\ sent \in 3 .. (2 + Len(call.pay))
      BY <1>2, <1>5
    <3> QED BY <3>1 DEF NextByte, ByteAt
  <2>2. sent - 2 \in 1 .. PayLen
    BY <1>2, <1>5
  <2> QED BY <2>1, <2>2 DEF HasSync
<1> QED BY <1>1, <1>2, <1>3, <1>4, <1>5

\* The slots of a payload, a sweep and a response are counted.
LEMMA ToGoStep ==
  ASSUME LinkInv, NEW b \in Byte, NEW late \in BOOLEAN, ~late, Clock(b, late),
         rstate \in {"PAY", "WAIT", "TX"}
  PROVE  rstate' = "HUNT" \/ (rstate' \in {"PAY", "WAIT", "TX"} /\ ToGo' \in Nat /\ ToGo' + 1 <= ToGo)
<1>0. cfg_K \in 0 .. 6 /\ busy \in 0 .. 7 /\ Left \in Nat /\ out \in Nat
  BY LeftIs, Bytes DEF LinkInv, LinkTypeOK
<1>1. CASE rstate = "PAY"
  <2> DEFINE p == Append(got, b)
             m == IF cmd = WGT THEN [mem EXCEPT ![Len(p)] = b] ELSE mem
  <2>1. /\ p \in Seq(Byte) /\ m \in Mem /\ cmd \in Commands /\ (rem = 1 => LengthOk(cmd, Len(p)))
        /\ cmd = WGT => \A j \in 1 .. Len(p) : m[j] = p[j]
    BY <1>1, PayloadIs
  <2>2. Payload(b) /\ busy = 0 /\ rem \in 1 .. 2 /\ cmd \in {CFG, WGT, RUN} /\ cmd # DRAIN
    BY <1>1, ClockIs, Bytes DEF LinkInv, LinkTypeOK, PayloadOK
  <2>3. ToGo = rem + (IF cmd = RUN THEN cfg_K + 1 ELSE 0) + 4
    BY <1>1 DEF ToGo
  <2>4. CASE rem = 1
    <3>1. Exec(p, m, FALSE)
      BY <2>2, <2>4, Zenon DEF Payload
    <3> HIDE DEF p, m
    <3>2. /\ out' = 0 /\ Len(resp') \in {4, 5} /\ (Len(resp') = 5 => cmd = DRAIN)
          /\ cmd # RUN => rstate' = "TX" /\ busy' = busy
          /\ cmd = RUN => rstate' = "WAIT" /\ busy' = cfg_K + 1
      BY <2>1, <2>4, <3>1, ExecIs
    <3>3. Len(resp') = 4
      BY <2>2, <3>2
    <3>4. CASE cmd = RUN
      <4>1. rstate' = "WAIT" /\ ToGo' = cfg_K + 1 + 4 - 0
        BY <3>2, <3>3, <3>4 DEF ToGo, Left
      <4> QED BY <1>0, <2>3, <2>4, <3>4, <4>1
    <3>5. CASE cmd # RUN
      <4>1. rstate' = "TX" /\ ToGo' = 0 + 4 - 0
        BY <2>2, <3>2, <3>3, <3>5 DEF ToGo, Left
      <4> QED BY <2>3, <2>4, <3>5, <4>1
    <3> QED BY <3>4, <3>5
  <2>5. CASE rem # 1
    <3>1. rem' = rem - 1 /\ UNCHANGED <<rstate, cmd, cfg_K>>
      BY <2>2, <2>5 DEF Payload
    <3>2. rstate' = "PAY" /\ ToGo' = rem - 1 + (IF cmd = RUN THEN cfg_K + 1 ELSE 0) + 4
      BY <1>1, <3>1 DEF ToGo
    <3> QED BY <1>0, <2>2, <2>3, <3>2
  <2> QED BY <2>4, <2>5
<1>2. CASE rstate \in {"WAIT", "TX"}
  <2>1. /\ Len(resp) \in {4, 5} /\ ToGo = busy + Len(resp) - out
        /\ rstate = "TX" => out < Len(resp)
    BY <1>2 DEF LinkInv, ResponseOK, ToGo, Left
  <2>9. PICK n \in {4, 5} : Len(resp) = n
    BY <2>1
  <2>2. CASE /\ rstate = "WAIT" /\ rstate' \in {"WAIT", "TX"} /\ busy' = busy - 1
             /\ resp' = resp /\ out' = 0 /\ out = 0
    <3>1. ToGo' = busy - 1 + n - 0
      BY <2>9, <2>2 DEF ToGo, Left
    <3>2. ToGo = busy + n - 0 /\ busy >= 1
      BY <2>9, <2>1, <2>2, LeftIs
    <3> QED BY <1>0, <2>2, <3>1, <3>2
  <2>3. CASE /\ rstate = "TX" /\ out + 1 < Len(resp) /\ rstate' = "TX" /\ busy' = busy
             /\ resp' = resp /\ out' = out + 1
    <3>1. ToGo' = busy + n - (out + 1)
      BY <2>9, <2>3 DEF ToGo, Left
    <3>2. ToGo = busy + n - out /\ out + 1 < n
      BY <2>9, <2>1, <2>3
    <3> QED BY <1>0, <2>9, <2>3, <3>1, <3>2
  <2> QED BY <1>2, <2>2, <2>3, AnswerIs
<1> QED BY <1>1, <1>2

\* Undamaged, a frame without a SYNC in its payload clocks a deaf link out of what it is in.
LEMMA FadingStep ==
  ASSUME LinkInv, HostInv, call # None, call' = call, sent' = sent + 1, deaf' = deaf, ~HasSync,
         NEW late \in BOOLEAN, ~late, Clock(NextByte, late), Fading
  PROVE  Fading'
<1>1. /\ sent \in Nat /\ NextByte \in Byte /\ (sent = 0 => NextByte = SYNC)
      /\ sent # 0 => NextByte # SYNC
  BY CallIs, NextByteIs, OneSync
<1>2. Bound' = Bound /\ Bound \in Nat
  BY DEF Bound
<1>3. CASE rstate = "HUNT" /\ sent >= 1
  <2>1. rstate' = "HUNT"
    BY <1>1, <1>3, HuntIs
  <2>2. sent' >= 1
    BY <1>1
  <2> QED BY <2>1, <2>2 DEF Fading
<1>4. CASE rstate = "CMD" /\ sent = 0
  <2>1. rstate' = "LEN" /\ cmd' = SYNC
    BY <1>1, <1>4, CommandIs
  <2>2. sent' = 1
    BY <1>4
  <2> QED BY <2>1, <2>2 DEF Fading
<1>5. CASE rstate = "LEN" /\ (sent = 0 \/ (cmd = SYNC /\ sent = 1))
  <2>1. ~LengthOk(cmd, NextByte)
    BY <1>1, <1>5, LengthOkIs
  <2>2. rstate' = "HUNT"
    BY <1>5, <2>1, LengthIs
  <2>3. sent' >= 1
    BY <1>1
  <2> QED BY <2>2, <2>3 DEF Fading
<1>6. CASE rstate \in {"PAY", "WAIT", "TX"} /\ ToGo + sent <= Bound
  <2>1. CASE rstate' = "HUNT"
    <3>1. sent' >= 1
      BY <1>1
    <3> QED BY <2>1, <3>1 DEF Fading
  <2>2. CASE rstate' \in {"PAY", "WAIT", "TX"} /\ ToGo' + 1 <= ToGo /\ ToGo' \in Nat
    <3>1. ToGo' + sent' <= Bound'
      <4>1. ToGo \in Nat /\ sent' = sent + 1
        BY ToGoIs
      <4>2. ToGo' + sent' <= Bound
        <5>1. \A x, y, s, n \in Nat : x + 1 <= y /\ y + s <= n => x + (s + 1) <= n
          OBVIOUS
        <5>2. ToGo' + (sent + 1) <= Bound
          BY <1>1, <1>2, <1>6, <2>2, <4>1, <5>1
        <5> QED BY <4>1, <5>2, Zenon
      <4> QED BY <1>2, <4>2, Zenon
    <3> QED BY <2>2, <3>1 DEF Fading
  <2> QED BY <1>1, <1>6, <2>1, <2>2, ToGoStep
<1> QED BY <1>3, <1>4, <1>5, <1>6 DEF Fading

\* What a call that returns finds of the receiver.
Found ==
  deaf' = IF rstate = "HUNT" THEN 0 ELSE IF HasSync THEN 1
          ELSE IF deaf < 3 THEN deaf + 1 ELSE deaf

\* Finish and Stall return with what they find of the receiver.
LEMMA FoundIs ==
  ASSUME HostInv, Finish \/ Stall
  PROVE  Found /\ call # None /\ call' = None /\ sent' = 0 /\ link' = link
<1>2. CASE Stall
  <2>1. Return("STALL", <<>>, None, FALSE) /\ call # None /\ link' = link
    BY <1>2 DEF Stall
  <2>3. deaf' = IF rstate = "HUNT" THEN 0
                ELSE IF \E i \in 1 .. Len(call.pay) : call.pay[i] = SYNC THEN 1
                ELSE IF deaf < 3 THEN deaf + 1 ELSE deaf
    BY <2>1, Zenon DEF Return
  <2> QED BY <2>1, <2>3, Zenon DEF Return, Found, HasSync, PayLen
<1>3. CASE Finish
  <2>1. call # None /\ link' = link
    BY <1>3 DEF Finish
  <2>2. CASE call.kind = "deferred"
    <3>0. ~Defers(call.kind, call.cmd)
      BY <2>2 DEF Defers
    <3>1. PICK e, words, w, failed : Return(e, words, w, failed)
      BY <1>3, <2>2 DEF Finish
    <3> QED BY <2>1, <3>1, Zenon DEF Return, Found, HasSync, PayLen
  <2>3. CASE call.kind # "deferred" /\ Defers(call.kind, call.cmd)
    <3>1. PICK e : Return(TakePend(OK), <<>>, None, e # OK)
      BY <1>3, <2>3 DEF Finish
    <3> QED BY <2>1, <3>1, Zenon DEF Return, Found, HasSync, PayLen
  <2>4. CASE call.kind # "deferred" /\ ~Defers(call.kind, call.cmd)
    <3>1. PICK e, words, w : Return(e, words, w, FALSE)
      BY <1>3, <2>4 DEF Finish
    <3> QED BY <2>1, <3>1, Zenon DEF Return, Found, HasSync, PayLen
  <2> QED BY <2>2, <2>3, <2>4
<1> QED BY <1>2, <1>3

\* Between calls: a deaf link found deaf twice has no more than a header's slots to go.
LEMMA DeafReturns ==
  ASSUME MaxFaults <= 1, LinkInv, HostInv, InStep, DeafOK, Finish \/ Stall
  PROVE  DeafOK'
<1>1. /\ Found /\ call # None /\ call' = None /\ sent' = 0
      /\ UNCHANGED <<rstate, cmd, rem, got, resp, out, mem, cfg_K, busy, acc>>
  BY FoundIs, LinkSame
<1>2. /\ deaf \in 0 .. 2 /\ (deaf > 0 => faults = 1) /\ faults \in {0, 1}
      /\ deaf > 0 /\ ~HasSync => Fading
  BY <1>1, HostAssumption DEF DeafOK, HostInv
<1>3. deaf' \in 0 .. 3 /\ (deaf' = 0 <=> rstate' = "HUNT")
  BY <1>1, <1>2 DEF Found
<1>4. faults' \in {0, 1} /\ (rstate # "HUNT" => faults' = 1)
  <2>1. CASE Finish
    <3>1. InStep'
      BY <2>1, InStepNext DEF Next
    <3>2. faults' = 0 => rstate' = "HUNT"
      BY <1>1, <3>1 DEF InStep
    <3>3. faults' = faults
      BY <2>1, FinishIs
    <3> QED BY <1>1, <1>2, <3>2, <3>3
  <2>2. CASE Stall
    BY <1>2, <2>2, StallHost, HostAssumption
  <2> QED BY <2>1, <2>2
<1>5. CASE rstate = "HUNT" \/ HasSync \/ deaf = 0
  <2>1. deaf' \in {0, 1} /\ (deaf' = 1 => faults' = 1)
    BY <1>1, <1>2, <1>4, <1>5 DEF Found
  <2> QED BY <1>1, <1>3, <1>4, <2>1 DEF DeafOK
<1>6. CASE rstate # "HUNT" /\ ~HasSync /\ deaf > 0
  <2>1. Fading /\ faults = 1 /\ deaf' = deaf + 1
    BY <1>1, <1>2, <1>6 DEF Found
  <2>2. Finish /\ sent = Length0 /\ sent \in Nat /\ sent >= 8
    <3>1. Finish
      <4>1. ~Stall
        BY <2>1, <1>2, StallHost, HostAssumption
      <4> QED BY <4>1
    <3>2. sent = Length0
      BY <3>1, FinishIs
    <3> QED BY <1>1, <3>1, <3>2, CallIs
  <2>3. rstate \in {"PAY", "WAIT", "TX"} /\ ToGo + sent <= Bound /\ ToGo \in Nat
    BY <1>6, <2>1, <2>2, ToGoIs DEF Fading
  <2>4. deaf = 1 /\ ToGo <= 4
    <3>1. deaf # 1 => Bound = 4
      BY DEF Bound
    <3>2. deaf = 1 => Bound = 12
      BY DEF Bound
    <3> QED BY <1>2, <1>6, <2>2, <2>3, <3>1, <3>2
  <2>5. ToGo' = ToGo /\ Bound' = 4
    <3>1. deaf' = 2
      BY <2>1, <2>4
    <3> QED BY <1>1, <3>1 DEF ToGo, Left, Bound
  <2>6. Fading'
    <3>1. ToGo' + sent' <= Bound'
      BY <1>1, <2>3, <2>4, <2>5
    <3> QED BY <1>1, <2>3, <3>1 DEF Fading
  <2>7. deaf' = 2 /\ faults' = 1
    BY <1>4, <1>6, <2>1, <2>4
  <2> QED BY <1>1, <1>3, <2>6, <2>7 DEF DeafOK
<1> QED BY <1>2, <1>5, <1>6

\* Every action keeps the bound of a deaf link.
LEMMA DeafNext ==
  ASSUME MaxFaults <= 1, LinkInv, HostInv, InStep, DeafOK, [Next]_vars
  PROVE  DeafOK'
<1>1. ASSUME NEW kind, NEW c, NEW p, Starts(kind, c, p)
      PROVE  DeafOK'
  <2>1. call = None /\ call' # None /\ sent' = 0 /\ sent = 0 /\ faults' = faults /\ deaf' = deaf
    BY <1>1, BeginHost DEF Starts, Begin, ghosts, HostInv, IdleOK
  <2>2. UNCHANGED <<rstate, cmd, rem, got, resp, out, mem, cfg_K, busy, acc>>
    BY <1>1, LinkSame DEF Starts, Begin
  <2>3. /\ deaf \in 0 .. 2 /\ (deaf > 0 => faults = 1) /\ (deaf = 0 <=> rstate = "HUNT")
        /\ deaf = 2 => Fading
    BY <2>1 DEF DeafOK
  <2>4. ASSUME deaf = 1
        PROVE  Fading
    <3>1. rstate \in {"CMD", "LEN", "PAY", "WAIT", "TX"}
      BY <2>3, <2>4 DEF LinkInv, LinkTypeOK
    <3>2. ToGo \in Nat /\ Bound = 12 /\ (rstate \in {"PAY", "WAIT", "TX"} => ToGo <= 12)
      BY <2>4, ToGoIs DEF Bound
    <3>3. rstate \in {"PAY", "WAIT", "TX"} => ToGo + sent <= Bound
      BY <2>1, <3>2
    <3> QED BY <2>1, <3>1, <3>3 DEF Fading
  <2>5. Fading' = Fading
    BY <2>1, <2>2 DEF Fading, ToGo, Left, Bound
  <2>6. deaf > 0 => Fading'
    BY <2>3, <2>4, <2>5
  <2> QED BY <2>1, <2>3, <2>6 DEF DeafOK
<1>2. CASE Refused \/ Sync \/ (\E on \in BOOLEAN : SetMode(on)) \/ DecodeDefer \/ RetirePrevious
           \/ UNCHANGED vars
  <2>1. UNCHANGED <<link, call, sent, faults, deaf>>
    BY <1>2 DEF Refused, Sync, SetMode, DecodeDefer, RetirePrevious, ghosts, vars, host
  <2>2. UNCHANGED <<rstate, cmd, rem, got, resp, out, mem, cfg_K, busy, acc>>
    BY <2>1, LinkSame
  <2>3. Fading' = Fading /\ HasSync' = HasSync
    BY <2>1, <2>2 DEF Fading, ToGo, Left, Bound, HasSync, PayLen
  <2> QED BY <2>1, <2>2, <2>3 DEF DeafOK
<1>3. CASE Slot
  <2>1. /\ call # None /\ call' = call /\ sent' = sent + 1 /\ deaf' = deaf
        /\ \E b \in Byte, late \in BOOLEAN : \E t : Moves(b, late, t)
    BY <1>3, SlotIs
  <2>2. PICK b \in Byte, late \in BOOLEAN : \E t : Moves(b, late, t)
    BY <2>1
  <2>3. faults = 1 => b = NextByte /\ ~late /\ faults' = 1
    BY <2>2, FaultIs
  <2>4. deaf \in 0 .. 2 /\ (deaf > 0 => faults = 1) /\ (deaf > 0 /\ ~HasSync => Fading)
    BY <2>1 DEF DeafOK
  <2>5. HasSync' = HasSync
    BY <2>1 DEF HasSync, PayLen
  <2>6. ASSUME deaf > 0, ~HasSync
        PROVE  Fading'
    <3>1. Clock(NextByte, late) /\ ~late /\ Fading
      BY <2>2, <2>3, <2>4, <2>6 DEF Moves
    <3> QED BY <2>1, <2>6, <3>1, FadingStep
  <2> QED BY <2>1, <2>3, <2>4, <2>5, <2>6 DEF DeafOK
<1>4. CASE Finish \/ Stall
  BY <1>4, DeafReturns
<1> QED BY <1>1, <1>2, <1>3, <1>4, NextCases

\* A link that missed a header, or was given too long a sweep, hunts again within two
\* transactions whose payloads hold no SYNC, wherever the one fault fell and whatever the link
\* took the frame for: of gemm_link.v's R_HDR, R_PAY, R_WAIT and R_TX none is for good.
THEOREM LinkHearsAgain ==
  ASSUME MaxFaults <= 1
  PROVE  Spec => []HearsAgain
<1>1. Init => InStep /\ DeafOK
  <2> SUFFICES ASSUME Init PROVE InStep /\ DeafOK
    OBVIOUS
  <2>1. /\ call = None /\ faults = 0 /\ rstate = "HUNT" /\ cfg_K = 0 /\ deaf = 0
    BY Zenon DEF Init, LinkInit
  <2> QED BY <2>1, Bytes DEF InStep, DeafOK
<1>2. LinkInv /\ HostInv /\ InStep /\ DeafOK /\ [Next]_vars => InStep' /\ DeafOK'
  BY InStepNext, DeafNext
<1>3. DeafOK => HearsAgain
  BY DEF DeafOK, HearsAgain
<1> QED BY <1>1, <1>2, <1>3, DriverShape, PTL DEF Spec

-----------------------------------------------------------------------------
\* The types.

\* What is owed is counted to two.
LEMMA OwedTyped ==
  ASSUME HostInv, owed \in 0 .. 2, [Next]_vars
  PROVE  owed' \in 0 .. 2
<1>1. ASSUME NEW e, NEW words, NEW w, NEW failed, Return(e, words, w, failed)
      PROVE  owed' \in 0 .. 2
  <2>1. owed' = IF e = OK /\ owed # 0 THEN 2 ELSE IF failed THEN 1 ELSE 0
    BY <1>1, Zenon DEF Return
  <2>2. owed' = 2 \/ owed' = 1 \/ owed' = 0
    BY <2>1, Zenon
  <2> QED BY <2>2
<1>2. CASE Finish
  <2>1. PICK e, words, w, failed : Return(e, words, w, failed)
    BY <1>2, Zenon DEF Finish
  <2> QED BY <1>1, <2>1
<1>3. CASE Stall
  BY <1>1, <1>3 DEF Stall
<1>4. CASE Sync
  <2>1. owed' = owed \/ owed' = 0
    BY <1>4 DEF Sync
  <2> QED BY <2>1
<1>5. ASSUME NEW kind, NEW c, NEW p, Starts(kind, c, p)
      PROVE  owed' = owed
  BY <1>5 DEF Starts, Begin, ghosts
<1>6. CASE Refused \/ (\E on \in BOOLEAN : SetMode(on)) \/ Slot \/ RetirePrevious \/ DecodeDefer
           \/ UNCHANGED vars
  <2>1. owed' = owed
    BY <1>6 DEF Refused, SetMode, Slot, RetirePrevious, DecodeDefer, ghosts, vars
  <2> QED BY <2>1
<1> QED BY <1>2, <1>3, <1>4, <1>5, <1>6, NextCases

\* The receiver, the driver and the buffers it captures in keep their types, and the response
\* still to be decoded is never in the buffer being filled, over any number of faults.
THEOREM DriverTypes == Spec => []TypeOK
<1> DEFINE OwedType == owed \in 0 .. 2
<1>1. Init => OwedType
  BY DEF Init
<1>2. HostInv /\ OwedType /\ [Next]_vars => OwedType'
  BY OwedTyped
<1>3. LinkInv /\ HostInv /\ OwedType => TypeOK
  <2> SUFFICES ASSUME LinkInv, HostInv, OwedType PROVE TypeOK
    OBVIOUS
  <2>1. /\ LinkTypeOK /\ pend \in CallType \cup {None}
        /\ rx_cur \in {0, 1} /\ retired \in BOOLEAN /\ pipelined \in BOOLEAN
        /\ pend_err \in Errors \cup {OK} /\ result.err \in Errors \cup {OK}
        /\ defer.armed \in BOOLEAN /\ faults \in 0 .. MaxFaults
    BY DEF LinkInv, HostInv
  <2>2. call \in CallType \cup {None}
    BY DEF HostInv, CallOK
  <2>3. ASSUME pend # None, call # None, call.kind = "plain"
        PROVE  pend.buf # call.buf
    <3>1. call.buf = 1 - rx_cur /\ pend.buf = rx_cur
      BY <2>3 DEF HostInv, CallOK
    <3> QED BY <2>1, <3>1
  <2> QED BY <2>1, <2>2, <2>3 DEF TypeOK
<1> HIDE DEF OwedType
<1> QED BY <1>1, <1>2, <1>3, DriverShape, PTL DEF Spec

-----------------------------------------------------------------------------
(***************************************************************************)
(* The frame before it is clocked out (TxStage).  The idle tail is blank   *)
(* for every buffer, every length and both widths.  The two lemmas are the *)
(* arithmetic of the layouts; after them only the order of body, nbuf and  *)
(* the mark matters.                                                       *)
(***************************************************************************)

\* The bytes of txb that gw_stage() packs: the header's words and the payload's.
BodyOf(w, len) == BufB(w, Hdr(w)) + BufB(w, len)

\* Where a wire byte is put is a byte the PIO sends, and it is that wire byte; no
\* two share one, and the first bytes of a transaction are the first of txb.
LEMMA Layout ==
  ASSUME NEW w \in {1, 3}, NEW k \in Nat
  PROVE  /\ Place(w, k) \in Nat /\ IsWire(w, Place(w, k)) /\ Which(w, Place(w, k)) = k
         /\ \A n \in Nat : k < n => Place(w, k) < BufB(w, n)
<1>1. CASE w = 1
  BY <1>1 DEF Place, IsWire, Which, BufB
<1>2. CASE w = 3
  <2>1. Place(w, k) = 4 * (k \div 3) + (k % 3) /\ Place(w, k) \in Nat
    BY <1>2 DEF Place
  <2>2. Place(w, k) \div 4 = k \div 3 /\ Place(w, k) % 4 = k % 3
    BY <2>1
  <2>3. IsWire(w, Place(w, k)) /\ Which(w, Place(w, k)) = k
    BY <1>2, <2>2 DEF IsWire, Which
  <2>4. ASSUME NEW n \in Nat, k < n PROVE Place(w, k) < BufB(w, n)
    BY <1>2, <2>1, <2>4 DEF BufB
  <2> QED BY <2>1, <2>3, <2>4
<1> QED BY <1>1, <1>2

\* The header and the payload take the room of their sum, and a transaction that
\* holds them has a buffer that does.
LEMMA Body ==
  ASSUME NEW w \in {1, 3}, NEW len \in Nat, NEW n \in Nat, Hdr(w) + len <= n
  PROVE  /\ BodyOf(w, len) \in Nat /\ BufB(w, n) \in Nat
         /\ BodyOf(w, len) = BufB(w, Hdr(w) + len)
         /\ BodyOf(w, len) <= BufB(w, n)
<1>1. CASE w = 1
  BY <1>1 DEF BodyOf, BufB, Hdr
<1>2. CASE w = 3
  BY <1>2 DEF BodyOf, BufB, Hdr
<1> QED BY <1>1, <1>2

\* What txb holds after a frame has been staged over a buffer the mark covers.
LEMMA Staged ==
  ASSUME StageTypeOK, MarkCovers,
         NEW len \in Nat, NEW n \in Nat, NEW ink \in Inks, Stage(len, n, ink)
  PROVE  /\ txb' \in [Buffer -> Inks \cup {Blank}]
         /\ \A i \in Buffer :
              /\ i < BodyOf(width, len)
                   => txb'[i] = IF IsWire(width, i) /\ Which(width, i) < Hdr(width) + len
                                THEN ink ELSE Blank
              /\ i >= BodyOf(width, len) /\ (i < BufB(width, n) \/ i >= dirty)
                   => txb'[i] = Blank
<1> DEFINE P(i) == Packed(width, i, Hdr(width) + len, ink, txb[i])
           T(i) == IF i < BodyOf(width, len) THEN P(i)
                   ELSE IF i < dirty /\ i < BufB(width, n) THEN Blank ELSE txb[i]
<1>1. txb' = [i \in Buffer |-> T(i)]
  BY Zenon DEF Stage, BodyOf
<1>2. \A i \in Buffer : P(i) = IF IsWire(width, i) /\ Which(width, i) < Hdr(width) + len
                              THEN ink ELSE Blank
  BY Zenon DEF Packed
<1>3. \A i \in Buffer : T(i) \in Inks \cup {Blank}
  BY <1>2 DEF StageTypeOK
<1>4. \A i \in Buffer : i < BodyOf(width, len) => T(i) = P(i)
  OBVIOUS
<1>5. ASSUME NEW i \in Buffer, ~(i < BodyOf(width, len)),
             i < BufB(width, n) \/ i >= dirty
      PROVE  T(i) = Blank
  <2>1. i \in Int /\ dirty \in Int
    BY DEF Buffer, StageTypeOK
  <2> QED BY <1>5, <2>1 DEF MarkCovers
<1>6. \A i \in Buffer : i >= BodyOf(width, len) <=> ~(i < BodyOf(width, len))
  <2>1. width \in {1, 3} /\ BodyOf(width, len) \in Int
    <3>1. width \in {1, 3} /\ Hdr(width) + len <= n
      BY DEF StageTypeOK, Stage
    <3> QED BY <3>1, Body
  <2> QED BY <2>1 DEF Buffer
<1> QED BY <1>1, <1>2, <1>3, <1>4, <1>5, <1>6

\* A staged frame keeps the mark sound and goes out as its own bytes and blanks.
LEMMA StageStep ==
  ASSUME StageInv, NEW len \in Nat, NEW n \in Nat, NEW ink \in Inks, Stage(len, n, ink)
  PROVE  StageInv'
<1> DEFINE used == Hdr(width) + len
           body == BodyOf(width, len)
           nbuf == BufB(width, n)
<1>1. /\ width \in {1, 3} /\ dirty \in Nat /\ dirty <= TxbMax
      /\ StageTypeOK /\ MarkCovers
  BY DEF StageInv, StageTypeOK, MarkCovers
<1>2. /\ body <= TxbMax /\ used <= n
      /\ dirty' = Mark(body, nbuf)
      /\ frame' = [ink |-> ink, sent |-> used, n |-> n]
      /\ wire' = [k \in 0 .. (n - 1) |->
                    IF Place(width, k) < TxbMax THEN txb'[Place(width, k)] ELSE Blank]
      /\ width' = width
  BY DEF Stage, BodyOf
<1>3. body \in Nat /\ nbuf \in Nat /\ body <= nbuf /\ body = BufB(width, used)
  BY <1>1, <1>2, Body
<1>4. /\ txb' \in [Buffer -> Inks \cup {Blank}]
      /\ \A i \in Buffer :
           /\ i < body => txb'[i] = IF IsWire(width, i) /\ Which(width, i) < used
                                    THEN ink ELSE Blank
           /\ i >= body /\ (i < nbuf \/ i >= dirty) => txb'[i] = Blank
  BY <1>1, Staged
<1>5. TxbMax \in Nat /\ used \in Nat
  BY <1>1, TxStageAssumption DEF TxbMax, Hdr
<1> HIDE DEF used, body, nbuf
<1>6. MarkCovers'
  <2>1. CASE dirty <= nbuf
    <3>1. dirty' = body
      BY <1>2, <2>1 DEF Mark
    <3>2. \A i \in Buffer : i >= body => i < nbuf \/ i >= dirty
      BY <1>1, <1>3, <2>1 DEF Buffer
    <3> QED BY <1>2, <1>3, <1>4, <1>5, <3>1, <3>2 DEF MarkCovers
  <2>2. CASE ~(dirty <= nbuf)
    <3>1. dirty' = dirty
      BY <1>2, <2>2 DEF Mark
    <3>2. \A i \in Buffer : i >= dirty => i >= body
      BY <1>1, <1>3, <2>2 DEF Buffer
    <3> QED BY <1>1, <1>4, <3>1, <3>2 DEF MarkCovers
  <2> QED BY <2>1, <2>2
<1>7. \A k \in 0 .. (n - 1) : wire'[k] = IF k < used THEN ink ELSE Blank
  <2> SUFFICES ASSUME NEW k \in 0 .. (n - 1)
               PROVE  wire'[k] = IF k < used THEN ink ELSE Blank
    OBVIOUS
  <2> DEFINE p == Place(width, k)
  <2>1. k \in Nat /\ k < n
    OBVIOUS
  <2>2. /\ p \in Nat /\ IsWire(width, p) /\ Which(width, p) = k
        /\ k < used => p < body
        /\ p < nbuf
    BY <1>1, <1>3, <1>5, <2>1, Layout DEF nbuf
  <2>3. wire'[k] = IF p < TxbMax THEN txb'[p] ELSE Blank
    BY <1>2
  <2> HIDE DEF p
  <2>4. p < TxbMax => p \in Buffer
    BY <1>5, <2>2 DEF Buffer
  <2>5. CASE p < body
    BY <1>2, <1>3, <1>4, <1>5, <2>2, <2>3, <2>4, <2>5
  <2>6. CASE ~(p < body)
    BY <1>2, <1>3, <1>4, <1>5, <2>1, <2>2, <2>3, <2>4, <2>6
  <2> QED BY <2>5, <2>6
<1>8. WireIsFrame'
  BY <1>2, <1>7 DEF WireIsFrame
<1>9. StageTypeOK'
  <2>1. wire' \in [0 .. (n - 1) -> Inks \cup {Blank}]
    BY <1>2, <1>7
  <2>2. dirty' \in Nat
    BY <1>2, <1>1, <1>3 DEF Mark
  <2> QED BY <1>1, <1>2, <1>4, <1>5, <2>1, <2>2 DEF StageTypeOK
<1> QED BY <1>6, <1>8, <1>9 DEF StageInv

\* The mark, the buffer and the last frame are as gw_stage() and gh_set_width()
\* mean them to be, after any transactions in any order.
THEOREM StageInductive == StageSpec => []StageInv
<1>1. StageInit => StageInv
  BY TxStageAssumption DEF StageInit, StageInv, StageTypeOK, MarkCovers, WireIsFrame, Buffer, TxbMax
<1>2. StageInv /\ [StageNext]_stageVars => StageInv'
  <2> SUFFICES ASSUME StageInv, [StageNext]_stageVars PROVE StageInv'
    OBVIOUS
  <2>1. ASSUME NEW n \in 0 .. WireMax, NEW len \in 0 .. n, NEW ink \in Inks,
               Stage(len, n, ink)
        PROVE  StageInv'
    <3>1. n \in Nat /\ len \in Nat
      BY TxStageAssumption
    <3> QED BY <2>1, <3>1, StageStep
  <2>2. ASSUME NEW w \in {1, 3}, SetWidth(w) PROVE StageInv'
    BY <2>2, TxStageAssumption
    DEF SetWidth, StageInv, StageTypeOK, MarkCovers, WireIsFrame, Buffer, TxbMax
  <2>3. CASE UNCHANGED stageVars
    BY <2>3 DEF stageVars, StageInv, StageTypeOK, MarkCovers, WireIsFrame
  <2> QED BY <2>1, <2>2, <2>3 DEF StageNext
<1> QED BY <1>1, <1>2, PTL DEF StageSpec

\* Nothing that is not blank is past the mark (gw_stage's dirty, txb_dirty).
THEOREM MarkIsSound == StageSpec => []MarkCovers
<1>1. StageInv => MarkCovers
  BY DEF StageInv
<1> QED BY <1>1, StageInductive, PTL

\* Each frame goes out whole and is followed by blanks only: no byte of an earlier,
\* longer frame is on the wire (gw_stage, gh_xfer_arm).
THEOREM FramesGoOutWhole == StageSpec => []WireIsFrame
<1>1. StageInv => WireIsFrame
  BY DEF StageInv
<1> QED BY <1>1, StageInductive, PTL

=============================================================================
