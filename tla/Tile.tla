-------------------------------- MODULE Tile --------------------------------
(***************************************************************************)
(* rtl/gemm_tile.v and rtl/im2col_feed.v, one clock of the link at a time, *)
(* given the blocks of a layer by Blocks the way firmware/frame.c's        *)
(* run_block() gives them: the geometry, the requantize table when the     *)
(* channels change, then for each pass the strip, the weights and a sweep, *)
(* and at the end a readout, which rtl/gemm_link.v serializes with no way  *)
(* of waiting for the tile.                                                *)
(*                                                                         *)
(* A sum is the set of the products in it; a product that comes in twice   *)
(* leaves Twice.  A requantized code is the output and the parameters it   *)
(* was made of, or Garbled where a step of the lane used what did not      *)
(* belong together.                                                        *)
(*                                                                         *)
(* The tile is the one that ships: APACK = 1, WNIB = 0, DPIPE = 0, RQ = 1, *)
(* KPACK as the variable says.  What is registered from CFG alone (k_m1,   *)
(* p_m1, ow_m1 ...) has settled long before a RUN and is used directly.    *)
(* The host is as fast as can be: a command comes on the very clock after  *)
(* the tile has ended the one before, and loading takes no clocks.         *)
(***************************************************************************)
EXTENDS Blocks, SequencesExt

CONSTANTS
  Layers,      \* the layers' descriptors
  KPacks,      \* GP_KPACK and the KPACK of the bitstream built with it
  RunBlocks,   \* bound: blocks run in a row
  CWM,         \* 2^CW, the reach of a coordinate; STRIPD is 2^AW, AW > CW
  Zero,        \* the byte of a padded tap
  Twice,       \* in a sum: a product came in a second time
  Garbled,     \* no code, no sum and no parameters
  None

LayerDesc == [h : Nat \ {0}, w : Nat \ {0}, oh : Nat \ {0}, ow : Nat \ {0},
              cin : Nat \ {0}, cout : Nat \ {0}, wbits : {4, 8}]

ASSUME TileAssumption ==
  /\ KPacks \subseteq BOOLEAN /\ RunBlocks \in Nat \ {0} /\ Layers \subseteq LayerDesc
  /\ None \notin {"run", "drain"}
  /\ CWM \in Nat \ {0} /\ CWM % 2 = 0 /\ STRIPD % CWM = 0 /\ STRIPD > CWM
  /\ NMAC % 2 = 0 /\ Zero \notin Int \X Int \X Int
  /\ \A d \in Layers : d.h < CWM \div 2 /\ d.w < CWM \div 2

\* What stands for nothing, and for no product, is neither a number nor a product.
ASSUME MarkAssumption ==
  /\ None \notin Nat
  /\ Garbled \notin [a : Nat \X Nat, m : Nat, digit : 0 .. 5]
  /\ Garbled \notin [a : (Nat \X Nat) \cup {None}, m : Nat \cup {None}, digits : 0 .. 6,
                     rnd : Nat \cup {None}]

VARIABLES
  kpack, layer, plan,            \* what was built and what was planned
  host,                          \* the block, the pass, and what is under way
  cfg,                           \* the CFG frame
  strip, wbuf, accram, wgt,      \* the memories, and the weight stream's pointer
  pulse,                         \* run or drain, for one clock
  state, walk, flag,             \* the sweep: its counters and registered flags
  feed,                          \* im2col_feed, one to a tap
  wreg,                          \* the weight words in hand
  s1, s2, s2b, s2c, s3, s4,      \* the pipeline
  dwalk, rlast,                  \* the readout's counters and registered flags
  rq, lane,                      \* the requantize engine and its two lanes
  out,                           \* dout, dout_valid, d_end
  link                           \* gemm_link's side of a readout

rigid  == <<kpack, layer, plan>>
memory == <<strip, wbuf, accram, wgt>>
sweep  == <<walk, flag, feed, wreg, s1, s2, s2b, s2c, s3, s4>>
readout == <<dwalk, rlast, rq, lane, out, link>>
vars == <<rigid, host, cfg, memory, pulse, state, sweep, readout>>

Lanes   == 0 .. (NMAC - 1)
Word(x) == [j \in Lanes |-> x]

\* Two sums into one; a product that is in both is in twice.
Plus(x, y) == [j \in Lanes |-> (x[j] \cup y[j])
                                 \cup (IF x[j] \cap y[j] = {} THEN {} ELSE {Twice})]

\* The output of this block that a sum is, by its place in the readout.
Outputs == 0 .. (cfg.nacc - 1)
NameOf(sum) ==
  IF \E i \in Outputs : GoldenAcc(cfg, i) = sum
  THEN CHOOSE i \in Outputs : GoldenAcc(cfg, i) = sum
  ELSE Garbled

\* Mutant: stage 2c, KPACK's, is not counted.
FLUSH_Short == 5

\* The clocks of quiet after a sweep, the depth of the pipeline.
FLUSH == IF kpack THEN 6 ELSE 5
Busy  == state # "IDLE"

-----------------------------------------------------------------------------
\* The weight stream: wgt_sr, wgt_j, wgt_a.

\* A byte shifts in at the top, two lanes to a byte of nibbles; the word is written
\* when its last byte is in.
Shifted(w, b) ==
  LET sr == SubSeq(w.sr, Len(b) + 1, NMAC) \o b
      full == w.j = (NMAC \div Len(b)) - 1
  IN [sr  |-> sr,
      j   |-> IF full THEN 0 ELSE w.j + 1,
      a   |-> IF full THEN (w.a + 1) % WDEPTH ELSE w.a,
      buf |-> IF full THEN [w.buf EXCEPT ![w.a] = [l \in Lanes |-> sr[l + 1]]] ELSE w.buf]

\* A stream of them, by how many are in.  wgt_rst comes with the frame's header.
Streamed(bytes) ==
  LET after[n \in 0 .. Len(bytes)] ==
        IF n = 0 THEN [sr |-> wgt.sr, j |-> 0, a |-> 0, buf |-> wbuf]
        ELSE Shifted(after[n - 1], bytes[n])
  IN after[Len(bytes)]

-----------------------------------------------------------------------------
\* im2col_feed: where tap kx + i of this position is in the strip.
Coordinate(o) == (IF cfg.st = 2 THEN 2 * o ELSE o) - 1

\* load: the tap of the sweep that starts, at the block's first position.
FeedLoad(i) ==
  LET kx == (walk.kx + i) % 4
  IN [ox   |-> cfg.ox0,
      iy   |-> Coordinate(cfg.oy0) + walk.ky,
      ix   |-> Coordinate(cfg.ox0) + kx,
      row0 |-> kx - 1,
      rowb |-> (walk.base_ic + walk.base_ky) % STRIPD,
      wrap |-> cfg.ox0 = cfg.d.ow - 1]

\* step: the next position.  wrap is held a clock ahead of its use.
FeedStep(f) ==
  [ox   |-> IF f.wrap THEN 0 ELSE f.ox + 1,
   iy   |-> IF f.wrap THEN f.iy + cfg.st ELSE f.iy,
   ix   |-> IF f.wrap THEN f.row0 ELSE f.ix + cfg.st,
   row0 |-> f.row0,
   rowb |-> IF f.wrap THEN (f.rowb + cfg.st * cfg.d.w) % STRIPD ELSE f.rowb,
   wrap |-> IF f.wrap THEN cfg.d.ow = 1 ELSE f.ox = cfg.d.ow - 2]

FeedAddr(f) == (f.rowb + (f.ix % CWM)) % STRIPD
FeedZero(f) == ~(f.iy \in 0 .. (cfg.d.h - 1) /\ f.ix \in 0 .. (cfg.d.w - 1))

-----------------------------------------------------------------------------
\* The sweep: for every tap, for every group of channels, every position.

\* Its counters, and the registers that say which of them end here.
KpTail == walk.kx = 2
NextFlag ==
  [tap |-> walk.k = cfg.K - 1,
   grp |-> walk.g = cfg.QG - 1,
   pos |-> IF state = "LOAD" THEN cfg.P = 1 ELSE walk.p = cfg.P - 2 \/ cfg.P = 1,
   now |-> state = "FLUSH" /\ walk.flush = 1,
   g   |-> ~flag.grp,
   k   |-> flag.grp /\ ~flag.tap,
   ky  |-> flag.grp /\ ~flag.tap /\ walk.kx = 2 /\ walk.ky # 2,
   ic  |-> flag.grp /\ ~flag.tap /\ walk.kx = 2 /\ walk.ky = 2]

WalkReset(init) ==
  [k |-> 0, kx |-> 0, ky |-> 0, g |-> 0, p |-> 0, wcnt |-> 0, base_ic |-> 0,
   base_ky |-> 0, acc |-> walk.acc, flush |-> walk.flush, init |-> init]

\* S_FLUSH, on the clock it ends: the next group, or the next tap, whose strip
\* bases move by an adder; a pair of taps has used its partner's words too.
WalkAdvance ==
  IF flag.g THEN [walk EXCEPT !.g = @ + 1]
  ELSE IF flag.k
  THEN [walk EXCEPT
          !.g = 0,
          !.k = @ + (IF kpack /\ ~KpTail THEN 2 ELSE 1),
          !.kx = IF kpack THEN (IF KpTail THEN 0 ELSE 2) ELSE (IF @ # 2 THEN @ + 1 ELSE 0),
          !.wcnt = IF kpack /\ ~KpTail THEN (@ + cfg.QG) % WDEPTH ELSE @,
          !.ky = IF flag.ky THEN @ + 1 ELSE IF flag.ic THEN 0 ELSE @,
          !.base_ky = IF flag.ky THEN @ + cfg.d.w ELSE IF flag.ic THEN 0 ELSE @,
          !.base_ic = IF flag.ic THEN @ + cfg.strip_ch ELSE @]
  ELSE walk

NextWalk ==
  CASE state = "IDLE" /\ pulse = "run" -> WalkReset(host.pass = 0)
    [] state = "LOAD"  -> [walk EXCEPT !.acc = walk.g, !.p = 0, !.wcnt = (@ + 1) % WDEPTH]
    [] state = "SWEEP" -> [walk EXCEPT !.acc = (@ + cfg.QG) % ADEPTH, !.p = @ + 1,
                                       !.flush = IF flag.pos THEN FLUSH - 1 ELSE @]
    [] state = "FLUSH" -> IF flag.now THEN WalkAdvance ELSE [walk EXCEPT !.flush = @ - 1]
    [] OTHER -> walk

\* The weight words: one read to a sweep and, of a pair, the partner's on the
\* sweep's first clock.
NextWreg ==
  IF kpack
  THEN [now   |-> IF wreg.cap THEN wreg.port ELSE wreg.now,
        port  |-> IF state = "LOAD" THEN wbuf[walk.wcnt]
                  ELSE IF wreg.pair_r THEN wbuf[wreg.pair] ELSE wreg.port,
        near  |-> wreg.port,
        cap   |-> state = "LOAD",
        pair  |-> IF state = "LOAD" THEN (walk.wcnt + cfg.QG) % WDEPTH ELSE wreg.pair,
        pair_r |-> state = "LOAD"]
  ELSE [wreg EXCEPT !.now = IF state = "LOAD" THEN wbuf[walk.wcnt] ELSE @]

-----------------------------------------------------------------------------
\* The pipeline.  The steps of the requantize engine: its schedule, rq.c.

RQ_PSEL == 4
RQ_PADV == 6
RQ_BIAS == 8
RQ_PRE == 9
RQ_MUX0 == 10
RQ_MUL0 == 11
RQ_PF0 == 16
RQ_RND == 17
RQ_RES == 18
RQ_SH1 == 19
RQ_SEL == 20
RQ_SH2 == 20
RQ_LAST == 21
RQ_DONE == 22
\* rq_run, rq_ld, rq_pa: when and where it reads the table in the strip.
Draining == state \in {"DISS", "DWAIT", "DHOLD"}
RqRun == cfg.rq /\ Draining
RqLd  == RqRun /\ (rq.c < 6 \/ (rq.newch /\ rq.c \in RQ_PF0 .. (RQ_DONE - 1)))
RqPa  == (rq.qb + (rq.c % 8)) % STRIPD

StripRaddr == IF RqLd THEN RqPa ELSE s1.saddr
AccRaddr   == IF Draining THEN (IF rq.sec THEN dwalk.addr2 ELSE dwalk.addr)
              ELSE IF kpack THEN s2.aaddr ELSE s1.aaddr

\* The strip's output register, or its two banks' and which one has the first tap.
NextSq ==
  IF kpack
  THEN [even |-> strip[2 * ((IF StripRaddr % 2 = 1 THEN s1.saddr1 ELSE StripRaddr) \div 2)],
        odd  |-> strip[2 * (StripRaddr \div 2) + 1]]
  ELSE [even |-> strip[StripRaddr], odd |-> None]
StripQ  == IF kpack /\ s2.par = 1 THEN s2.sq.odd ELSE s2.sq.even
StripQ1 == IF s2.par = 1 THEN s2.sq.even ELSE s2.sq.odd

\* What a byte and a weight word add to a sum; a padded tap's byte is zero.
Products(a, w) == [j \in Lanes |-> IF a = Zero THEN {} ELSE {<<a, w[j]>>}]

NextS1 ==
  IF state = "SWEEP"
  THEN [val |-> TRUE, init |-> walk.init /\ walk.k = 0, aaddr |-> walk.acc,
        saddr |-> FeedAddr(feed[0]), zero |-> FeedZero(feed[0]),
        saddr1 |-> FeedAddr(feed[1]), zero1 |-> FeedZero(feed[1]) \/ KpTail]
  ELSE [s1 EXCEPT !.val = FALSE]

Pipeline ==
  /\ s1' = NextS1
  /\ s2' = [val |-> s1.val, init |-> s1.init, aaddr |-> s1.aaddr, zero |-> s1.zero,
            zero1 |-> s1.zero1, par |-> StripRaddr % 2, sq |-> NextSq,
            accq |-> accram[AccRaddr]]
  /\ s2b' = [val |-> s2.val, init |-> s2.init, aaddr |-> s2.aaddr, accq |-> s2.accq,
             a |-> IF s2.zero THEN Zero ELSE StripQ,
             a1 |-> IF s2.zero1 THEN Zero ELSE StripQ1]
  /\ s2c' = [val |-> s2b.val, init |-> s2b.init, aaddr |-> s2b.aaddr,
             mul |-> Products(s2b.a, wreg.now), le |-> Products(s2b.a1, wreg.near)]
  /\ s3' = IF kpack
           THEN [val |-> s2c.val, aaddr |-> s2c.aaddr,
                 accq |-> IF s2c.init THEN Word({}) ELSE s2b.accq,
                 prod |-> IF s2c.val THEN Plus(s2c.mul, s2c.le) ELSE s3.prod]
           ELSE [val |-> s2b.val, aaddr |-> s2b.aaddr,
                 accq |-> IF s2b.init THEN Word({}) ELSE s2b.accq,
                 prod |-> IF s2b.val THEN Products(s2b.a, wreg.now) ELSE s3.prod]
  /\ s4' = [val |-> s3.val, aaddr |-> s3.aaddr, wr |-> Plus(s3.accq, s3.prod)]
  /\ accram' = IF s4.val THEN [accram EXCEPT ![s4.aaddr] = s4.wr] ELSE accram

-----------------------------------------------------------------------------
\* The requantize lanes.  Lane 0 is told by rq.e0 what to do, lane 1 a clock later.

\* The parameters in rq_par, if its six bytes are one channel's.
Params(par) ==
  IF \E c \in 0 .. (layer.cout - 1) : par = [i \in 1 .. 6 |-> <<c, i - 1>>]
  THEN par[1][1] ELSE Garbled

\* A running product: the digits of one M taken of one a, in order.
Absorb(ps, pp) ==
  IF ps # Garbled /\ pp # Garbled /\ pp.digit = ps.digits
     /\ (ps.digits = 0 \/ (ps.a = pp.a /\ ps.m = pp.m))
  THEN [ps EXCEPT !.a = pp.a, !.m = pp.m, !.digits = @ + 1]
  ELSE Garbled

Nought == [a |-> None, m |-> None, digits |-> 0, rnd |-> None]

NextLane(l, e) ==
  [asel |-> IF "ACC" \in e THEN NameOf(s2.accq[dwalk.j]) ELSE l.asel,
   a    |-> IF "BIAS" \in e THEN <<l.asel, Params(rq.par)>> ELSE l.a,
   m    |-> IF "MUX" \in e THEN [l.m EXCEPT !.digit = @ + 1]
            ELSE IF "BIAS" \in e THEN [of |-> Params(rq.par), digit |-> 0] ELSE l.m,
   odd  |-> IF "BIAS" \notin e /\ "PRE" \in e THEN l.a ELSE l.odd,
   pp   |-> IF "MUX" \notin e THEN l.pp
            ELSE IF l.odd = l.a THEN [a |-> l.a, m |-> l.m.of, digit |-> l.m.digit]
            ELSE Garbled,
   ps   |-> IF "MUL" \in e THEN Absorb(l.ps, l.pp)
            ELSE IF "RND" \in e /\ l.ps # Garbled THEN [l.ps EXCEPT !.rnd = rq.dec]
            ELSE IF "BIAS" \in e THEN Nought ELSE l.ps,
   p    |-> IF "RES" \in e /\ "MUL" \notin e /\ "RND" \notin e THEN l.ps ELSE l.p,
   sh1  |-> IF "SH1" \in e THEN <<l.p, rq.s, rq.dec>> ELSE l.sh1,
   code |-> IF "SH2" \in e THEN <<l.sh1, rq.s>> ELSE l.code]

\* What a lane is to make of output i.
Code(i) ==
  LET c == ChannelOf(cfg, i)
      p == [a |-> <<i, c>>, m |-> c, digits |-> 6, rnd |-> c]
  IN <<<<p, c, c>>, c>>

\* rq_e0: what the step after this one is to do; one step is not a counter's.
Strobes(take) ==
  IF ~RqRun THEN {}
  ELSE {e \in {"ACC", "BIAS", "PRE", "MUX", "MUL", "RND", "RES", "SH1", "SH2"} :
          LET c == rq.c + 1 IN
          CASE e = "ACC"  -> c \in {RQ_PSEL, RQ_SEL}
            [] e = "BIAS" -> c = RQ_BIAS \/ take
            [] e = "PRE"  -> c = RQ_PRE
            [] e = "MUX"  -> c \in RQ_MUX0 .. (RQ_RND - 1)
            [] e = "MUL"  -> c \in RQ_MUL0 .. (RQ_RND - 1)
            [] e = "RND"  -> c = RQ_RND
            [] e = "RES"  -> c = RQ_RES
            [] e = "SH1"  -> c = RQ_SH1
            [] e = "SH2"  -> c = RQ_SH2}

\* rq_pop: a byte leaves the two-slot buffer.  rq_take: a pair enters it.
RqPop  == cfg.rq /\ state = "DHOLD" /\ link.rdy

RqTake == RqRun /\ rq.done /\ (~rq.sf[rq.wsel] \/ (RqPop /\ rq.half /\ rq.wsel = rq.rsel))

RqAdv == RqRun /\ (rq.c = RQ_PADV \/ RqTake)

\* Mutant: every pair's schedule starts with reading the table.
RqAgain_Whole == 0

\* Where the next pair's schedule starts when one is taken.
RqAgain == RQ_BIAS

\* The pair named here is the one the next schedule computes: its parameters, if
\* they are another channel's, are fetched while this one is being computed.
Engine ==
  LET idle == state = "IDLE" /\ pulse = "drain"
      freed == RqPop /\ rq.half
  IN rq' =
     [c     |-> IF idle THEN 0
                ELSE IF ~RqRun THEN rq.c
                ELSE IF RqTake THEN RqAgain
                ELSE IF rq.c # RQ_DONE THEN rq.c + 1 ELSE rq.c,
      qb    |-> IF idle THEN RQBASE ELSE IF RqAdv /\ rlast.pp THEN rq.qb + 6 ELSE rq.qb,
      newch |-> IF idle THEN FALSE
                ELSE IF RqRun /\ rq.c = RQ_LAST THEN FALSE
                ELSE rq.newch \/ (RqAdv /\ rlast.pp),
      ldq   |-> RqLd,
      par   |-> IF rq.ldq THEN SubSeq(rq.par, 2, 6) \o <<StripQ>> ELSE rq.par,
      s     |-> IF RqRun /\ rq.c = RQ_BIAS THEN Params(rq.par) ELSE rq.s,
      dec   |-> IF RqRun /\ rq.c = RQ_PRE THEN rq.s ELSE rq.dec,
      e0    |-> IF idle THEN {} ELSE Strobes(RqTake),
      e1    |-> rq.e0,
      sec   |-> RqRun /\ rq.c + 1 \in {RQ_PSEL, RQ_SEL},
      done  |-> IF idle THEN FALSE
                ELSE (rq.done \/ (RqRun /\ rq.c = RQ_LAST)) /\ ~RqTake,
      end_c |-> IF RqAdv THEN rlast.pp /\ rlast.j /\ rlast.g ELSE rq.end_c,
      slot  |-> IF RqTake THEN [rq.slot EXCEPT ![rq.wsel] = <<lane[0].code, lane[1].code>>]
                ELSE rq.slot,
      se    |-> IF RqTake THEN [rq.se EXCEPT ![rq.wsel] = rq.end_c] ELSE rq.se,
      sf    |-> [i \in {0, 1} |-> IF idle THEN FALSE
                                  ELSE IF RqTake /\ i = rq.wsel THEN TRUE
                                  ELSE IF freed /\ i = rq.rsel THEN FALSE ELSE rq.sf[i]],
      wsel  |-> IF idle THEN 0 ELSE IF RqTake THEN 1 - rq.wsel ELSE rq.wsel,
      rsel  |-> IF idle THEN 0 ELSE IF freed THEN 1 - rq.rsel ELSE rq.rsel,
      half  |-> IF idle THEN FALSE ELSE IF RqPop THEN ~rq.half ELSE rq.half]

-----------------------------------------------------------------------------
\* The readout: positions inside, then lanes, then groups.  Requantized, the walk
\* is stepped by the engine, a pair of positions at a time; else by the link.

\* Mutant: a new channel starts at the first group.
DwalkNext_Group0(n, lastp, lastj, lastg) ==
  IF ~lastp THEN [dwalk EXCEPT !.p = @ + n, !.addr = (@ + n * cfg.QG) % ADEPTH,
                               !.addr2 = (@ + n * cfg.QG) % ADEPTH]
  ELSE LET g == IF lastj /\ ~lastg THEN dwalk.g + 1 ELSE dwalk.g IN
       [p |-> 0, j |-> IF lastj THEN 0 ELSE dwalk.j + 1, g |-> g,
        addr |-> 0, addr2 |-> cfg.QG]

DwalkNext(n, lastp, lastj, lastg) ==
  IF ~lastp THEN [dwalk EXCEPT !.p = @ + n, !.addr = (@ + n * cfg.QG) % ADEPTH,
                               !.addr2 = (@ + n * cfg.QG) % ADEPTH]
  ELSE LET g == IF lastj /\ ~lastg THEN dwalk.g + 1 ELSE dwalk.g IN
       [p |-> 0, j |-> IF lastj THEN 0 ELSE dwalk.j + 1, g |-> g,
        addr  |-> IF lastj /\ lastg THEN dwalk.addr ELSE g,
        addr2 |-> IF lastj /\ lastg THEN dwalk.addr2 ELSE (g + cfg.QG) % ADEPTH]

LastP == dwalk.p = cfg.P - 1
LastJ == dwalk.j = NMAC - 1
LastG == dwalk.g = cfg.QG - 1

Readout ==
  /\ dwalk' = IF state = "IDLE" /\ pulse = "drain"
              THEN [p |-> 0, j |-> 0, g |-> 0, addr |-> 0, addr2 |-> cfg.QG]
              ELSE IF RqAdv THEN DwalkNext(2, rlast.pp, rlast.j, rlast.g)
              ELSE IF state = "DHOLD" /\ link.rdy /\ ~cfg.rq
              THEN DwalkNext(1, LastP, LastJ, LastG)
              ELSE dwalk
  /\ rlast' = IF Draining /\ cfg.rq
              THEN [pp |-> dwalk.p = cfg.P - 2, j |-> LastJ, g |-> LastG] ELSE rlast
  /\ out' = CASE state = "IDLE" -> [out EXCEPT !.valid = FALSE,
                                               !.end = @ /\ pulse # "drain"]
              [] state = "DWAIT" /\ cfg.rq /\ rq.sf[rq.rsel] ->
                   [dout |-> rq.slot[rq.rsel][IF rq.half THEN 2 ELSE 1], valid |-> TRUE,
                    end |-> rq.se[rq.rsel] /\ rq.half]
              [] state = "DWAIT" /\ ~cfg.rq ->
                   [out EXCEPT !.dout = NameOf(s2.accq[dwalk.j]), !.valid = TRUE]
              [] state = "DHOLD" /\ link.rdy -> [out EXCEPT !.valid = FALSE]
              [] OTHER -> out

NextState ==
  CASE state = "IDLE" -> IF pulse = "run" THEN "LOAD"
                         ELSE IF pulse = "drain" THEN "DISS" ELSE "IDLE"
    [] state = "LOAD"  -> "SWEEP"
    [] state = "SWEEP" -> IF flag.pos THEN "FLUSH" ELSE "SWEEP"
    [] state = "FLUSH" -> IF ~flag.now THEN "FLUSH"
                          ELSE IF flag.g \/ flag.k THEN "LOAD" ELSE "IDLE"
    [] state = "DISS"  -> "DWAIT"
    [] state = "DWAIT" -> IF cfg.rq /\ ~rq.sf[rq.rsel] THEN "DWAIT" ELSE "DHOLD"
    [] state = "DHOLD" -> IF ~link.rdy THEN "DHOLD"
                          ELSE IF cfg.rq THEN (IF out.end THEN "IDLE" ELSE "DWAIT")
                          ELSE IF LastP /\ LastJ /\ LastG THEN "IDLE" ELSE "DISS"

\* gemm_link's T_DATA: a word latched on the edge of dout_valid, asked for the
\* next as it starts to send it, and gone on without one that is not there.
HEAD == 72          \* clocks of preamble, status and CRC before the first word
WordClocks == IF cfg.rq THEN 8 ELSE 32
NextLink ==
  LET rise == out.valid /\ ~link.dv
      l == [link EXCEPT !.dv = out.valid, !.rdy = FALSE,
                        !.word = IF rise THEN out.dout ELSE @, !.have = @ \/ rise]
  IN IF pulse = "drain"
     THEN [l EXCEPT !.on = TRUE, !.n = HEAD - 1, !.have = FALSE, !.sent = 0, !.under = FALSE]
     ELSE IF ~link.on THEN l
     ELSE IF link.n > 1 THEN [l EXCEPT !.n = @ - 1]
     ELSE IF link.have
     THEN [l EXCEPT !.n = WordClocks, !.have = rise, !.rdy = TRUE, !.sent = @ + 1,
                    !.last = link.word]
     ELSE [l EXCEPT !.on = FALSE, !.under = Busy \/ link.sent = 0]

-----------------------------------------------------------------------------
\* One clock of the link.
Clock ==
  /\ Busy \/ pulse # None \/ link.on
  /\ walk' = NextWalk /\ flag' = NextFlag /\ wreg' = NextWreg
  /\ feed' = [i \in {0, 1} |-> CASE state = "LOAD" -> FeedLoad(i)
                                [] state = "SWEEP" -> FeedStep(feed[i])
                                [] OTHER -> feed[i]]
  /\ Pipeline
  /\ lane' = [i \in {0, 1} |-> NextLane(lane[i], IF i = 0 THEN rq.e0 ELSE rq.e1)]
  /\ Engine /\ Readout
  /\ link' = NextLink
  /\ state' = NextState
  /\ pulse' = None
  /\ host' = [host EXCEPT !.clocks = @ + 1]
  /\ UNCHANGED <<rigid, cfg, strip, wbuf, wgt>>

-----------------------------------------------------------------------------
\* run_block().

Ready == ~(Busy \/ pulse # None \/ link.on)
Store(at, bytes) == [a \in DOMAIN strip |-> IF a - at \in DOMAIN bytes THEN bytes[a - at]
                                           ELSE strip[a]]

\* CFG, and the table if the tile does not have these channels' already.
Configure ==
  /\ host.do = "cfg" /\ Ready
  /\ LET g == Block(layer, plan, host.blk) IN
       /\ cfg' = g
       /\ strip' = IF g.rq /\ host.table # g.q0 THEN Store(RQBASE, TableBytes(g)) ELSE strip
       /\ host' = [host EXCEPT !.do = "pass", !.pass = 0,
                               !.table = IF g.rq THEN g.q0 ELSE @]
  /\ UNCHANGED <<rigid, wbuf, accram, wgt, pulse, state, sweep, readout>>

\* ACT, WGT and RUN, the first pass initializing.
Pass ==
  /\ host.do = "pass" /\ Ready
  /\ strip' = Store(0, StripBytes(cfg, host.pass))
  /\ LET w == Streamed(WeightBytes(cfg, host.pass)) IN
       wbuf' = w.buf /\ wgt' = [sr |-> w.sr, j |-> w.j, a |-> w.a]
  /\ pulse' = "run"
  /\ host' = [host EXCEPT !.do = "run", !.clocks = 0]
  /\ UNCHANGED <<rigid, cfg, accram, state, sweep, readout>>

\* The response says the sweep is over.
Swept ==
  /\ host.do = "run" /\ Ready
  /\ LET last == host.pass + 1 = cfg.npass IN
       /\ host' = IF last THEN [host EXCEPT !.do = "drain"]
                  ELSE [host EXCEPT !.do = "pass", !.pass = @ + 1]
       /\ pulse' = IF last THEN "drain" ELSE None
  /\ UNCHANGED <<rigid, cfg, memory, state, sweep, readout>>

\* DRAIN's response is in; the next block.
Drained ==
  /\ host.do = "drain" /\ Ready
  /\ LET next == host.blk + 1
         more == host.left > 1 /\ next < NBlocks(layer, plan)
     IN host' = [host EXCEPT !.do = IF more THEN "cfg" ELSE "over", !.blk = next,
                             !.left = @ - 1]
  /\ UNCHANGED <<rigid, cfg, memory, pulse, state, sweep, readout>>

Over == host.do = "over" /\ UNCHANGED vars

\* The blocks begun with: the first, and the last of the first channels.
Starts(d, pl) == {0, PosBlocks(d, pl) - 1}

Init ==
  /\ kpack \in KPacks /\ layer \in Layers
  /\ \E r \in BOOLEAN : plan \in Plans(layer, r)
  /\ \E n \in Starts(layer, plan) :
       host = [blk |-> n, pass |-> 0, do |-> "cfg", left |-> RunBlocks, clocks |-> 0,
               table |-> None]
  /\ cfg = Block(layer, plan, 0)
  /\ strip = [a \in 0 .. (STRIPD - 1) |-> None]
  /\ wbuf = [a \in 0 .. (WDEPTH - 1) |-> Word(None)]
  /\ accram = [a \in 0 .. (ADEPTH - 1) |-> Word({None})]
  /\ wgt = [sr |-> [i \in 1 .. NMAC |-> None], j |-> 0, a |-> 0]
  /\ pulse = None /\ state = "IDLE"
  /\ walk = [k |-> 0, kx |-> 0, ky |-> 0, g |-> 0, p |-> 0, wcnt |-> 0, base_ic |-> 0,
             base_ky |-> 0, acc |-> 0, flush |-> 0, init |-> FALSE]
  /\ flag = [f \in {"tap", "grp", "pos", "now", "g", "k", "ky", "ic"} |-> FALSE]
  /\ feed = [i \in {0, 1} |-> [ox |-> 0, iy |-> 0, ix |-> 0, row0 |-> 0, rowb |-> 0,
                               wrap |-> FALSE]]
  /\ wreg = [now |-> Word(None), port |-> Word(None), near |-> Word(None), cap |-> FALSE,
             pair |-> 0, pair_r |-> FALSE]
  /\ s1 = [val |-> FALSE, init |-> FALSE, aaddr |-> 0, saddr |-> 0, zero |-> TRUE,
           saddr1 |-> 0, zero1 |-> TRUE]
  /\ s2 = [val |-> FALSE, init |-> FALSE, aaddr |-> 0, zero |-> TRUE, zero1 |-> TRUE,
           par |-> 0, sq |-> [even |-> None, odd |-> None], accq |-> Word({None})]
  /\ s2b = [val |-> FALSE, init |-> FALSE, aaddr |-> 0, accq |-> Word({}), a |-> Zero,
            a1 |-> Zero]
  /\ s2c = [val |-> FALSE, init |-> FALSE, aaddr |-> 0, mul |-> Word({}), le |-> Word({})]
  /\ s3 = [val |-> FALSE, aaddr |-> 0, accq |-> Word({}), prod |-> Word({})]
  /\ s4 = [val |-> FALSE, aaddr |-> 0, wr |-> Word({})]
  /\ dwalk = [p |-> 0, j |-> 0, g |-> 0, addr |-> 0, addr2 |-> 0]
  /\ rlast = [pp |-> FALSE, j |-> FALSE, g |-> FALSE]
  /\ rq = [c |-> RQ_DONE, qb |-> RQBASE, newch |-> FALSE, ldq |-> FALSE,
           par |-> [i \in 1 .. 6 |-> None], s |-> None, dec |-> None, e0 |-> {}, e1 |-> {},
           sec |-> FALSE, done |-> FALSE, end_c |-> FALSE,
           slot |-> [i \in {0, 1} |-> <<None, None>>],
           se |-> [i \in {0, 1} |-> FALSE], sf |-> [i \in {0, 1} |-> FALSE],
           wsel |-> 0, rsel |-> 0, half |-> FALSE]
  /\ lane = [i \in {0, 1} |-> [asel |-> None, a |-> None, m |-> [of |-> None, digit |-> 0],
                               odd |-> None, pp |-> Garbled, ps |-> Nought, p |-> Nought,
                               sh1 |-> None, code |-> None]]
  /\ out = [dout |-> None, valid |-> FALSE, end |-> FALSE]
  /\ link = [on |-> FALSE, n |-> 0, dv |-> FALSE, rdy |-> FALSE, word |-> None,
             have |-> FALSE, sent |-> 0, last |-> None, under |-> FALSE]

Next == Configure \/ Pass \/ Clock \/ Swept \/ Drained \/ Over

Spec == Init /\ [][Next]_vars

-----------------------------------------------------------------------------
\* Properties.

\* The channel, the row and the column of accumulator a of block n.
Reads(d, pl, n, a) ==
  LET g == Block(d, pl, n)
      pos == g.ox0 + (a % g.P)
  IN <<ChannelOf(g, a), g.oy0 + (pos \div d.ow), pos % d.ow>>

\* What the blocks of a layer are billed, together.
Billed(d, pl, kp) ==
  FoldFunction(+, 0, [i \in 0 .. (NBlocks(d, pl) - 1) |->
                        BlockBytes(Block(d, pl, i), TableBilled(d, pl, i), kp)])

\* Whatever blocking is chosen, gp_blocks()'s blocks are each accepted by
\* gb_geom(), have one geometry, read every output of the layer exactly once, and
\* are billed, together, what gp_choose() prices the layer at.
PlanTilesTheLayer ==
  host.do = "cfg" /\ host.left = RunBlocks =>
    LET n == NBlocks(layer, plan)
        B(i) == Block(layer, plan, i)
    IN /\ \A i \in 0 .. (n - 1) :
            Accepts(B(i)) /\ B(i).a_len = B(0).a_len /\ B(i).rq = B(0).rq
       /\ {Reads(layer, plan, i, a) : i \in 0 .. (n - 1), a \in 0 .. (B(0).nacc - 1)}
            = (0 .. (layer.cout - 1)) \X (0 .. (layer.oh - 1)) \X (0 .. (layer.ow - 1))
       /\ n * B(0).nacc = layer.cout * layer.oh * layer.ow
       /\ Billed(layer, plan, kpack) = LayerBytes(layer, plan, kpack)

\* When the tile says a block's last sweep is over, and on that very clock, every
\* accumulator holds its output's products, each once, and nothing else: no byte
\* of a row outside the strip, no other tap's weight, nothing of the block before.
SumsAreTheConvolution ==
  pulse = "drain" =>
    \A i \in Outputs :
      LET c == i \div cfg.P IN
      accram[(i % cfg.P) * cfg.QG + (c \div NMAC)][c % NMAC] = GoldenAcc(cfg, i)

\* The words come out in the order the host scatters them in and, requantized,
\* each is its own sum's code under its own channel's parameters, whole.
WordsAreInOrder ==
  link.on /\ link.sent > 0 =>
    link.last = IF cfg.rq THEN Code(link.sent - 1) ELSE link.sent - 1

\* The serializer never finds no word to send while the tile has one to make, so
\* a readout is as long as the block.
NeverUnderruns ==
  ~link.under /\ (host.do = "drain" /\ Ready => link.sent = cfg.nacc)

\* A sweep takes no more clocks than the RUN's idle bytes are counted for, its
\* turnaround left out: they are the only clocks there are.
SweepFitsItsClocks ==
  host.do = "run" /\ Busy => host.clocks <= SweepClocks(cfg, kpack)
=============================================================================
