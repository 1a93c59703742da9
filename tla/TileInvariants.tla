--------------------------- MODULE TileInvariants ---------------------------
(***************************************************************************)
(* What is true of Tile in every state and leads from each state to the    *)
(* next: TileInv, of its clocks, DataInv, of its sums, and OrderInv, of    *)
(* the words of a readout.  TileProofs shows that they are inductive, the  *)
(* second and the third given the ones before.                             *)
(***************************************************************************)
EXTENDS Tile

\* A record with these fields, whatever is in them.
IsRecord(x, fields) == x = [f \in fields |-> x[f]]

\* What the blocks of a plan have in common.
GeomInv ==
  /\ kpack \in BOOLEAN /\ layer \in Layers /\ \E r \in BOOLEAN : plan \in Plans(layer, r)
  /\ cfg.P \in Nat \ {0} /\ cfg.QG \in Nat \ {0} /\ cfg.Cb \in Nat \ {0}
  /\ cfg.K = 9 * cfg.Cb /\ cfg.nacc = cfg.P * (cfg.QG * NMAC)
  /\ cfg.rq \in BOOLEAN /\ (cfg.rq => cfg.P % 2 = 0)

\* The records that are written field by field.
ShapeInv ==
  /\ IsRecord(host, {"blk", "pass", "do", "left", "clocks", "table"})
  /\ IsRecord(walk, {"k", "kx", "ky", "g", "p", "wcnt", "base_ic", "base_ky", "acc", "flush",
                     "init"})
  /\ IsRecord(dwalk, {"p", "j", "g", "addr", "addr2"})
  /\ IsRecord(out, {"dout", "valid", "end"})
  /\ IsRecord(link, {"on", "n", "dv", "rdy", "word", "have", "sent", "last", "under"})
  /\ link.on \in BOOLEAN /\ link.dv \in BOOLEAN /\ link.rdy \in BOOLEAN
  /\ link.have \in BOOLEAN /\ link.under \in BOOLEAN /\ out.valid \in BOOLEAN
  /\ rq.se \in [{0, 1} -> BOOLEAN] /\ rq.end_c \in BOOLEAN

-----------------------------------------------------------------------------
\* The clocks of a sweep.

\* The taps swept one by one, or in pairs; and the clocks of one sweep.
Taps == IF kpack THEN cfg.Cb * 6 ELSE cfg.K
Lap  == cfg.P + 1 + FLUSH

\* n taps, or pairs of them, are behind the one being swept.
TapAt(n) ==
  IF kpack
  THEN /\ walk.ky \in 0 .. 2 /\ walk.kx \in {0, 2}
       /\ \E ic \in 0 .. (cfg.Cb - 1) :
            /\ walk.k = 9 * ic + 3 * walk.ky + walk.kx
            /\ n = 6 * ic + 2 * walk.ky + (IF walk.kx = 2 THEN 1 ELSE 0)
  ELSE walk.k = n /\ n \in 0 .. (cfg.K - 1)

\* The clocks since the lap began.
InLap == IF state = "LOAD" THEN 1
         ELSE IF state = "SWEEP" THEN 2 + walk.p
         ELSE 1 + cfg.P + FLUSH - walk.flush

\* In a sweep the clocks are those of the laps behind and of this one, and what the
\* registered flags say is so.
SweepInv ==
  /\ pulse = "run" => host.do = "run" /\ state = "IDLE" /\ host.clocks = 0
  /\ state \in {"LOAD", "SWEEP", "FLUSH"} =>
       /\ host.do = "run" /\ pulse = None
       /\ walk.g \in 0 .. (cfg.QG - 1)
       /\ \E n \in 0 .. (Taps - 1) :
            TapAt(n) /\ host.clocks = (n * cfg.QG + walk.g) * Lap + InLap
  /\ state = "SWEEP" => walk.p \in 0 .. (cfg.P - 1) /\ (flag.pos <=> walk.p = cfg.P - 1)
  /\ state \in {"SWEEP", "FLUSH"} =>
       (flag.tap <=> walk.k = cfg.K - 1) /\ (flag.grp <=> walk.g = cfg.QG - 1)
  /\ state = "FLUSH" =>
       LET lastg == walk.g = cfg.QG - 1
           more  == lastg /\ walk.k # cfg.K - 1
       IN /\ walk.flush \in 0 .. (FLUSH - 1) /\ (flag.now <=> walk.flush = 0)
          /\ (flag.g <=> ~lastg) /\ (flag.k <=> more)
          /\ flag.ky <=> more /\ walk.kx = 2 /\ walk.ky # 2
          /\ flag.ic <=> more /\ walk.kx = 2 /\ walk.ky = 2

-----------------------------------------------------------------------------
\* The clocks of a readout.

\* Outputs before the one the walk is at.
WalkIndex == (dwalk.g * NMAC + dwalk.j) * cfg.P + dwalk.p

\* It is at an output.
InWalk == dwalk.p \in 0 .. (cfg.P - 1) /\ dwalk.j \in Lanes /\ dwalk.g \in 0 .. (cfg.QG - 1)

\* A word offered is latched by the serializer a clock later, which may be the last
\* in time.
Offered ==
  out.valid /\ ~link.rdy /\ (\/ ~link.dv /\ ~link.have /\ link.n >= 2
                             \/ link.dv /\ link.have /\ link.n >= 1)

\* A word taken: the tile sees it on the next clock.
Accepted == out.valid /\ link.rdy /\ link.dv /\ ~link.have /\ link.n = WordClocks

\* No word yet, and so many clocks left to have one.
Awaited(n) == ~out.valid /\ ~link.rdy /\ ~link.have /\ link.n >= n

\* A word at a time, each of 32 clocks.
PlainInv ==
  Draining /\ ~cfg.rq =>
    /\ InWalk
    /\ state = "DISS"  => Awaited(4) /\ link.sent = WalkIndex
    /\ state = "DWAIT" => Awaited(3) /\ link.sent = WalkIndex
    /\ state = "DHOLD" => \/ Offered /\ link.sent = WalkIndex
                          \/ Accepted /\ link.sent = WalkIndex + 1

\* A bit as a number.
Bit(b) == IF b THEN 1 ELSE 0

\* The pairs waiting in the buffer, and the clocks until the next is ready.
Held == Bit(rq.sf[0]) + Bit(rq.sf[1])
Owed == RQ_DONE - rq.c

\* The second word of a pair has been taken.
Freed == RqPop /\ rq.half

\* Which slot of the buffer is which, by how many are full.
BufferInv ==
  /\ rq.wsel \in {0, 1} /\ rq.rsel \in {0, 1} /\ rq.half \in BOOLEAN
  /\ rq.sf \in [{0, 1} -> BOOLEAN]
  /\ Held = 1 => rq.sf[rq.rsel] /\ rq.wsel # rq.rsel
  /\ Held # 1 => rq.wsel = rq.rsel
  /\ Held = 0 => ~rq.half

\* The engine's walk, when it is at output i.
NamesPair(i) ==
  i < cfg.nacc =>
    /\ InWalk /\ dwalk.p % 2 = 0 /\ WalkIndex = i
    /\ rq.c \notin {0, RQ_PADV + 1, RQ_BIAS} =>
         /\ rlast.pp <=> dwalk.p = cfg.P - 2
         /\ rlast.j <=> LastJ
         /\ rlast.g <=> LastG

\* The pairs in order: r of them gone, those held, the one being computed and, once the
\* walk has been stepped past it, the one after.
PairInv(r) ==
  LET w == r + Held IN
  /\ link.sent = 2 * r + Bit(rq.half) + Bit(link.rdy)
  /\ 2 * r < cfg.nacc
  /\ rq.c <= RQ_PADV => w = 0 /\ NamesPair(0)
  /\ rq.c > RQ_PADV => /\ NamesPair(2 * (w + 1))
                       /\ 2 * w < cfg.nacc => (rq.end_c <=> 2 * w + 2 = cfg.nacc)
  /\ w > 0 => rq.c >= RQ_BIAS
  /\ Held > 0 => (rq.se[rq.rsel] <=> 2 * r + 2 = cfg.nacc)
  /\ Held = 2 /\ 2 * r + 2 < cfg.nacc => (rq.se[1 - rq.rsel] <=> 2 * r + 4 = cfg.nacc)

\* The next pair is ready before the serializer has sent those there are.
PaceInv ==
  /\ Held = 0 => state # "DHOLD" /\ Owed <= link.n - 4
  /\ Held = 1 => IF link.rdy
                 THEN Owed <= (IF rq.half THEN 4 ELSE 12)
                 ELSE Owed <= link.n + (IF rq.half THEN 4 ELSE 12)

\* Two words to a pair, each of 8 clocks, and 15 clocks to make one.
QuantInv ==
  Draining /\ cfg.rq =>
    /\ rq.c \in 0 .. RQ_DONE /\ (rq.done <=> rq.c = RQ_DONE)
    /\ BufferInv /\ PaceInv
    /\ \E r \in Nat : PairInv(r)
    /\ state \in {"DISS", "DWAIT"} => Awaited(3)
    /\ state = "DISS" => rq.c = 0
    /\ state = "DHOLD" => /\ Offered \/ Accepted
                          /\ out.end <=> rq.se[rq.rsel] /\ rq.half

\* What there is before a readout and after it.
ReadInv ==
  /\ state \in {"IDLE", "LOAD", "SWEEP", "FLUSH", "DISS", "DWAIT", "DHOLD"}
  /\ pulse \in {"run", "drain", None}
  /\ pulse = "drain" => host.do = "drain" /\ state = "IDLE"
  /\ pulse # None => ~link.on
  /\ Draining => host.do = "drain" /\ pulse = None /\ link.on
  /\ link.on => host.do = "drain" /\ pulse = None /\ state \notin {"LOAD", "SWEEP", "FLUSH"}
  /\ ~link.on => ~out.valid /\ ~link.dv
  /\ link.on /\ state = "IDLE" =>
       /\ ~out.valid /\ ~link.rdy /\ ~link.have /\ link.sent = cfg.nacc
       /\ link.n \in Nat /\ (link.dv => link.n >= 2)
  /\ ~link.under
  /\ host.do = "drain" /\ Ready => link.sent = cfg.nacc
  /\ link.on => link.n \in Nat /\ link.sent \in Nat

\* All that is counted.
TileInv == GeomInv /\ ShapeInv /\ SweepInv /\ PlainInv /\ QuantInv /\ ReadInv

\* What is left of the invariant when the tile rests and stays at rest.
Resting == state = "IDLE" /\ ~link.on /\ ~out.valid /\ ~link.dv /\ ~link.under

-----------------------------------------------------------------------------
\* The sums: which tap of which position everything between the host's bytes and an
\* accumulator is of.

\* A function on S, whatever its values.
IsFcn(f, S) == f = [x \in S |-> f[x]]

\* Where position q of a block is in the layer, and what tap T, of the taps of all the
\* input channels, reads there: the byte, or a zero.
RowOf(g, q) == (g.ox0 + q) \div g.d.ow
ColOf(g, q) == (g.ox0 + q) % g.d.ow
IyOf(g, q, ky) == ((g.oy0 + RowOf(g, q)) * g.st) - 1 + ky
IxOf(g, q, kx) == (ColOf(g, q) * g.st) - 1 + kx
InTensor(g, q, ky, kx) == IyOf(g, q, ky) \in 0 .. (g.d.h - 1) /\ IxOf(g, q, kx) \in 0 .. (g.d.w - 1)
Fed(g, q, T) ==
  IF InTensor(g, q, (T \div 3) % 3, T % 3)
  THEN <<T \div 9, IyOf(g, q, (T \div 3) % 3), IxOf(g, q, T % 3)>> ELSE Zero

\* The weight word of tap T and group gg.
WordOf(g, gg, T) == [j \in Lanes |-> <<g.q0 + ((gg * NMAC) + j), T \div 9, T % 9>>]

\* The products of the first T taps, lane by lane.
SumTo(g, q, gg, T) ==
  [j \in Lanes |-> {<<Fed(g, q, t), WordOf(g, gg, t)[j]>> :
                      t \in {u \in 0 .. (T - 1) : Fed(g, q, u) # Zero}}]

\* What gb_geom() accepted, of the geometry in force.
Fits(g) ==
  /\ g.d \in Layers /\ g.st \in {1, 2} /\ g.st = Stride(g.d)
  /\ g.P \in Nat \ {0} /\ g.QG \in Nat \ {0} /\ g.Cb \in Nat \ {0} /\ g.npass \in Nat \ {0}
  /\ g.rowspan \in Nat /\ g.SROWS \in Nat \ {0} /\ g.strip_ch \in Nat \ {0}
  /\ g.Q = g.QG * NMAC /\ g.K = g.Cb * 9 /\ g.npass * g.Cb = g.d.cin
  /\ g.nacc = g.P * (g.QG * NMAC)
  /\ g.q0 \in Nat /\ g.oy0 \in Nat /\ g.ox0 \in 0 .. (g.d.ow - 1)
  /\ g.rowspan = (g.ox0 + (g.P - 1)) \div g.d.ow
  /\ g.SROWS = (g.rowspan * g.st) + 3 /\ g.strip_ch = g.SROWS * g.d.w
  /\ g.iy_base = (g.oy0 * g.st) - 1 /\ g.a_len = g.Cb * g.strip_ch
  /\ g.w_len = IF g.d.wbits = 4 THEN (g.Cb * 9 * g.Q) \div 2 ELSE g.Cb * 9 * g.Q
  /\ g.a_len <= STRIPD /\ g.P * g.QG <= ADEPTH /\ g.K * g.QG <= WDEPTH

\* A sweep is under way.
Sweeping == state \in {"LOAD", "SWEEP", "FLUSH"}

\* The clocks since the lap's first position was begun, and how many of them into the
\* pipeline there is a position.
Pos == IF state = "SWEEP" THEN walk.p
       ELSE IF state = "FLUSH" THEN cfg.P + (FLUSH - 1 - walk.flush) ELSE 0
InPipe == {n \in 1 .. 6 : Sweeping /\ Pos - n \in 0 .. (cfg.P - 1)}

\* The tap being swept, of those of all the passes, and the taps it is swept with.
Tap  == (host.pass * cfg.K) + walk.k
Step == IF kpack /\ walk.kx # 2 THEN 2 ELSE 1

\* The taps that are in an accumulator.
Summed(q, gg) ==
  IF Sweeping
  THEN Tap + (IF gg < walk.g \/ (gg = walk.g /\ q < Pos - FLUSH) THEN Step ELSE 0)
  ELSE IF host.do = "pass" \/ pulse = "run" THEN host.pass * cfg.K
  ELSE (host.pass * cfg.K) + cfg.K

\* The block in force, and the pass.
CfgInv ==
  /\ kpack \in KPacks
  /\ host.do \in {"cfg", "pass", "run", "drain", "over"}
  /\ host.do # "over" => host.blk \in 0 .. (NBlocks(layer, plan) - 1)
  /\ host.do \in {"pass", "run", "drain"} =>
       Fits(cfg) /\ cfg.d = layer /\ host.pass \in 0 .. (cfg.npass - 1)
  /\ host.do = "drain" => host.pass = cfg.npass - 1

\* The memories, and what a pass puts in them.
MemInv ==
  /\ DOMAIN strip = 0 .. (STRIPD - 1) /\ IsFcn(wbuf, 0 .. (WDEPTH - 1))
  /\ IsFcn(accram, 0 .. (ADEPTH - 1)) /\ IsFcn(wgt.sr, 1 .. NMAC)
  /\ host.do = "run" =>
       /\ \A a \in 0 .. (cfg.a_len - 1) : strip[a] = StripBytes(cfg, host.pass)[a]
       /\ \A k \in 0 .. (cfg.K - 1), gg \in 0 .. (cfg.QG - 1) :
            wbuf[(k * cfg.QG) + gg] = WordOf(cfg, gg, (host.pass * cfg.K) + k)

\* The walk over the taps.
WalkInv ==
  Sweeping =>
    /\ walk.k \in 0 .. (cfg.K - 1) /\ walk.g \in 0 .. (cfg.QG - 1)
    /\ walk.kx = walk.k % 3 /\ walk.ky = (walk.k \div 3) % 3 /\ (kpack => walk.kx # 1)
    /\ walk.base_ic = (walk.k \div 9) * cfg.strip_ch /\ walk.base_ky = walk.ky * cfg.d.w
    /\ walk.init = (host.pass = 0)
    /\ IF state = "LOAD" THEN walk.wcnt = (walk.k * cfg.QG) + walk.g
       ELSE walk.wcnt = ((walk.k * cfg.QG) + walk.g + 1) % WDEPTH
    /\ state = "SWEEP" => walk.acc = (walk.p * cfg.QG) + walk.g

\* The feed is at the position the walk is at.
FeedInv ==
  state = "SWEEP" =>
    \A i \in {0, 1} : i = 0 \/ kpack =>
      LET f == feed[i]
          kx == walk.kx + i
      IN /\ f.ox = ColOf(cfg, walk.p) /\ f.iy = IyOf(cfg, walk.p, walk.ky)
         /\ f.ix = IxOf(cfg, walk.p, kx) /\ f.row0 = kx - 1
         /\ f.rowb = (walk.base_ic + walk.base_ky
                        + (RowOf(cfg, walk.p) * (cfg.st * cfg.d.w))) % STRIPD
         /\ f.wrap = (ColOf(cfg, walk.p) = cfg.d.ow - 1)

\* The weight words are the tap's and its partner's by the time they are multiplied.
WregInv ==
  Sweeping /\ state # "LOAD" =>
    IF ~kpack THEN wreg.now = WordOf(cfg, walk.g, Tap)
    ELSE IF Pos = 0
    THEN /\ wreg.port = WordOf(cfg, walk.g, Tap) /\ wreg.cap /\ wreg.pair_r
         /\ wreg.pair = ((walk.k * cfg.QG) + walk.g + cfg.QG) % WDEPTH
    ELSE /\ wreg.now = WordOf(cfg, walk.g, Tap) /\ ~wreg.cap /\ ~wreg.pair_r
         /\ walk.kx # 2 => wreg.port = WordOf(cfg, walk.g, Tap + 1)
                           /\ (Pos > 1 => wreg.near = WordOf(cfg, walk.g, Tap + 1))

\* The pipeline, stage by stage: the position so many clocks in, and what it has so far.
Address(g, q, gg) == (q * g.QG) + gg
First == Tap = 0
Second(g, q, T, kx) == IF kx = 2 THEN Zero ELSE Fed(g, q, T + 1)
\* In memory m, the byte b, if it is not a zero, is at a.
Holds(m, a, b) == b # Zero => a \in 0 .. (STRIPD - 1) /\ m[a] = b
S1Inv ==
  /\ s1.val <=> 1 \in InPipe
  /\ 1 \in InPipe => LET q == Pos - 1 IN
       /\ s1.aaddr = Address(cfg, q, walk.g) /\ (s1.init <=> First) /\ s1.saddr \in 0 .. (STRIPD - 1)
       /\ (s1.zero <=> Fed(cfg, q, Tap) = Zero) /\ Holds(strip, s1.saddr, Fed(cfg, q, Tap))
       /\ kpack => /\ (s1.zero1 <=> Second(cfg, q, Tap, walk.kx) = Zero)
                   /\ ~s1.zero1 => /\ Holds(strip, s1.saddr1, Fed(cfg, q, Tap + 1))
                                   /\ IF s1.saddr % 2 = 1 THEN s1.saddr1 % 2 = 0
                                      ELSE s1.saddr1 = s1.saddr + 1
S2Inv ==
  /\ s2.val <=> 2 \in InPipe
  /\ 2 \in InPipe => LET q == Pos - 2 IN
       /\ s2.aaddr = Address(cfg, q, walk.g) /\ (s2.init <=> First)
       /\ (IF s2.zero THEN Zero ELSE StripQ) = Fed(cfg, q, Tap)
       /\ kpack => (IF s2.zero1 THEN Zero ELSE StripQ1) = Second(cfg, q, Tap, walk.kx)
       /\ ~kpack /\ ~First => s2.accq = SumTo(cfg, q, walk.g, Tap)
  /\ kpack /\ 3 \in InPipe /\ ~First => s2.accq = SumTo(cfg, Pos - 3, walk.g, Tap)
S2bInv ==
  /\ s2b.val <=> 3 \in InPipe
  /\ 3 \in InPipe => LET q == Pos - 3 IN
       /\ s2b.aaddr = Address(cfg, q, walk.g) /\ (s2b.init <=> First)
       /\ s2b.a = Fed(cfg, q, Tap) /\ (kpack => s2b.a1 = Second(cfg, q, Tap, walk.kx))
       /\ ~kpack /\ ~First => s2b.accq = SumTo(cfg, q, walk.g, Tap)
  /\ kpack /\ 4 \in InPipe /\ ~First => s2b.accq = SumTo(cfg, Pos - 4, walk.g, Tap)
S2cInv ==
  kpack =>
  /\ s2c.val <=> 4 \in InPipe
  /\ 4 \in InPipe => LET q == Pos - 4 IN
       /\ s2c.aaddr = Address(cfg, q, walk.g) /\ (s2c.init <=> First)
       /\ s2c.mul = Products(Fed(cfg, q, Tap), WordOf(cfg, walk.g, Tap))
       /\ s2c.le = Products(Second(cfg, q, Tap, walk.kx), WordOf(cfg, walk.g, Tap + 1))
S3Inv ==
  /\ s3.val <=> FLUSH - 1 \in InPipe
  /\ FLUSH - 1 \in InPipe => LET q == Pos - (FLUSH - 1) IN
       /\ s3.aaddr = Address(cfg, q, walk.g) /\ s3.accq = SumTo(cfg, q, walk.g, Tap)
       /\ s3.prod = IF kpack
                    THEN Plus(Products(Fed(cfg, q, Tap), WordOf(cfg, walk.g, Tap)),
                              Products(Second(cfg, q, Tap, walk.kx), WordOf(cfg, walk.g, Tap + 1)))
                    ELSE Products(Fed(cfg, q, Tap), WordOf(cfg, walk.g, Tap))
S4Inv ==
  /\ s4.val <=> FLUSH \in InPipe
  /\ FLUSH \in InPipe => LET q == Pos - FLUSH IN
       s4.aaddr = Address(cfg, q, walk.g) /\ s4.wr = SumTo(cfg, q, walk.g, Tap + Step)
PipeInv == S1Inv /\ S2Inv /\ S2bInv /\ S2cInv /\ S3Inv /\ S4Inv

\* Every accumulator has the products of the taps that are in it, from the first on.
AccInv ==
  host.do \in {"pass", "run"} \/ pulse = "drain" =>
    \A q \in 0 .. (cfg.P - 1), gg \in 0 .. (cfg.QG - 1) :
      Summed(q, gg) > 0 => accram[(q * cfg.QG) + gg] = SumTo(cfg, q, gg, Summed(q, gg))

\* The records of which one field is written.
DataShape ==
  /\ IsRecord(s1, {"val", "init", "aaddr", "saddr", "zero", "saddr1", "zero1"})
  /\ IsRecord(wreg, {"now", "port", "near", "cap", "pair", "pair_r"})

\* All that is summed.
DataInv == DataShape /\ CfgInv /\ MemInv /\ WalkInv /\ FeedInv /\ WregInv /\ PipeInv /\ AccInv

\* With packed taps the rows of the layers are even.
EvenRows == TRUE \in KPacks => \A d \in Layers : d.w % 2 = 0

-----------------------------------------------------------------------------
\* The words: which output everything between an accumulator and the link is of.

\* The middle tap of a position is in the tensor.
CentresInside ==
  \A d \in Layers : (d.oh - 1) * Stride(d) < d.h /\ (d.ow - 1) * Stride(d) < d.w

\* The sum of output i, where it is; and the word it is to be sent as.
SumAt(i) ==
  LET c == i \div cfg.P IN accram[((i % cfg.P) * cfg.QG) + (c \div NMAC)][c % NMAC]
Wanted(i) == IF cfg.rq THEN Code(i) ELSE i

\* The sums do not change under a readout.
SumsHeld == Draining => \A i \in Outputs : SumAt(i) = GoldenAcc(cfg, i)

\* What the serializer has, has sent and is offered, by the words it has sent.
LinkWords ==
  link.on =>
    /\ link.have => link.word = Wanted(link.sent)
    /\ link.sent > 0 => link.last = Wanted(link.sent - 1)
    /\ state = "DHOLD" => out.dout = Wanted(link.sent - Bit(link.rdy))

\* The accumulators of the walk: that of its position and that of the next.
Addressed ==
  /\ dwalk.addr = (dwalk.p * cfg.QG) + dwalk.g
  /\ cfg.rq => dwalk.addr2 = ((dwalk.p + 1) * cfg.QG) + dwalk.g

\* Word by word, the accumulator read is the one the walk is at.
PlainWords ==
  Draining /\ ~cfg.rq =>
    Addressed /\ ~rq.sec /\ (state = "DWAIT" => s2.accq = accram[dwalk.addr])

\* The table the host says the tile has, and its being that of the block in force.
HasTable == {"pass", "run", "drain"}
TableInv ==
  /\ IsFcn(rq.par, 1 .. 6) /\ IsFcn(rq.slot, {0, 1})
  /\ host.do \in HasTable =>
       cfg = Block(layer, plan, host.blk) /\ (cfg.rq => host.table = cfg.q0)
  /\ host.table # None =>
       /\ host.table \in Nat /\ Block(layer, plan, 0).rq
       /\ \A q \in 0 .. ((plan.QG * NMAC) - 1), b \in 0 .. 5 :
            strip[RQBASE + ((6 * q) + b)] = <<host.table + q, b>>

\* What the lanes are told at a step of the schedule.
Acts(c) ==
  (IF c \in {4, 20} THEN {"ACC"} ELSE {}) \cup (IF c = 8 THEN {"BIAS"} ELSE {})
  \cup (IF c = 9 THEN {"PRE"} ELSE {}) \cup (IF c \in 10 .. 16 THEN {"MUX"} ELSE {})
  \cup (IF c \in 11 .. 16 THEN {"MUL"} ELSE {}) \cup (IF c = 17 THEN {"RND"} ELSE {})
  \cup (IF c = 18 THEN {"RES"} ELSE {}) \cup (IF c = 19 THEN {"SH1"} ELSE {})
  \cup (IF c = 20 THEN {"SH2"} ELSE {})

\* They are told it on its clock, the second lane on the next.
ToldInv ==
  /\ rq.e0 = Acts(rq.c) /\ (rq.c > 0 => rq.e1 = Acts(rq.c - 1))
  /\ rq.sec <=> rq.c \in {4, 20}

\* The walk, at output i: where its sums and its channel's parameters are read.
WalkReadsAt(i) ==
  i < cfg.nacc =>
    /\ Addressed /\ rq.qb = RQBASE + 6 * ((dwalk.g * NMAC) + dwalk.j)
    /\ rq.c \in {4, 20} => s2.accq = accram[dwalk.addr]
    /\ rq.c \in {5, 21} => s2.accq = accram[dwalk.addr2]

\* The first n parameters of channel ch are in.
Has(par, n, ch) == \A k \in 1 .. n : par[(6 - n) + k] = <<ch, k - 1>>

\* The parameters as they come in: the first channel's, then each new one's while the pair
\* before it is computed.  w is that pair.
ParamsInv(w) ==
  LET ch == ChannelOf(cfg, 2 * w)
      nx == ChannelOf(cfg, 2 * (w + 1))
      more == 2 * (w + 1) < cfg.nacc
  IN /\ rq.c \in 0 .. 6 => (rq.ldq <=> rq.c # 0) /\ ~rq.newch
     /\ rq.c \in 1 .. 6 => StripQ = <<ch, rq.c - 1>> /\ Has(rq.par, rq.c - 1, ch)
     /\ rq.c \in 7 .. 16 => ~rq.ldq /\ (2 * w < cfg.nacc => Has(rq.par, 6, ch))
     /\ rq.c \in 7 .. 21 /\ more => (rq.newch <=> dwalk.p = 0)
     /\ rq.c \in 17 .. 21 => (rq.ldq <=> rq.newch)
     /\ rq.c = 22 => ~rq.newch
     /\ rq.c \in 17 .. 22 /\ more =>
          IF rq.ldq THEN StripQ = <<nx, rq.c - 17>> /\ Has(rq.par, rq.c - 17, nx) ELSE Has(rq.par, 6, nx)
     /\ 2 * w < cfg.nacc => /\ rq.c \in 9 .. 22 => rq.s = ch
                            /\ rq.c \in 10 .. 22 => rq.dec = ch

\* What a lane has of output i when it has been told the steps before x.
OfSum(i) == <<i, ChannelOf(cfg, i)>>
Product(i, n, rnd) == [a |-> OfSum(i), m |-> ChannelOf(cfg, i), digits |-> n, rnd |-> rnd]
LaneAt(l, x, i) ==
  LET ch == ChannelOf(cfg, i)
      p == Product(i, 6, ch)
  IN /\ x \in 5 .. 8 => l.asel = i
     /\ x \in 9 .. 16 => /\ l.a = OfSum(i)
                         /\ l.m = [of |-> ch, digit |-> IF x = 9 THEN 0 ELSE x - 10]
     /\ x \in 10 .. 16 => l.odd = OfSum(i)
     /\ x \in 11 .. 16 => l.pp = [a |-> OfSum(i), m |-> ch, digit |-> x - 11]
     /\ x \in 9 .. 11 => l.ps = Nought
     /\ x \in 12 .. 17 => l.ps = Product(i, x - 11, None)
     /\ x = 18 => l.ps = p
     /\ x = 19 => l.p = p
     /\ x = 20 => l.sh1 = <<p, ch, ch>>
     /\ x \in 21 .. 22 => l.code = Code(i)

\* The lanes, the second a clock behind, and the sums they have taken for the next pair.
LanesInv(w) ==
  /\ 2 * w < cfg.nacc =>
       LaneAt(lane[0], rq.c, 2 * w) /\ LaneAt(lane[1], rq.c - 1, (2 * w) + 1)
  /\ 2 * (w + 1) < cfg.nacc =>
       /\ rq.c \in 21 .. 22 => lane[0].asel = 2 * (w + 1)
       /\ rq.c = 22 => lane[1].asel = (2 * (w + 1)) + 1

\* The pairs in the buffer.
Pair(k) == <<Code(2 * k), Code((2 * k) + 1)>>
SlotsInv(r) ==
  /\ Held > 0 => rq.slot[rq.rsel] = Pair(r)
  /\ Held = 2 /\ 2 * (r + 1) < cfg.nacc => rq.slot[1 - rq.rsel] = Pair(r + 1)

\* Pair by pair: r is the pair to be sent next, w the one being made, and the walk is at
\* output i, the first of the pair after, or of the first of all.
QuantWords ==
  Draining /\ cfg.rq =>
    /\ ToldInv
    /\ \A r \in 0 .. cfg.nacc : \A w \in {r + Held} :
         \A i \in {IF rq.c <= 6 THEN 0 ELSE 2 * (w + 1)} :
           link.sent = (2 * r) + Bit(rq.half) + Bit(link.rdy) =>
             WalkReadsAt(i) /\ ParamsInv(w) /\ LanesInv(w) /\ SlotsInv(r)

\* All that is read out.
OrderInv == SumsHeld /\ LinkWords /\ PlainWords /\ TableInv /\ QuantWords
=============================================================================
