------------------------------- MODULE Blocks -------------------------------
(***************************************************************************)
(* firmware/gemm_plan.c and firmware/gemm_block.c: which block of a layer  *)
(* the tile is given, and the bytes it is given for it.  A layer d is its  *)
(* descriptor, a blocking pl the P positions, QG channel groups and Cb     *)
(* input channels of each of its blocks, a geometry g what gb_geom() makes *)
(* of one block.  All of it is pure.                                       *)
(*                                                                         *)
(* A byte of the input tensor is <<ic, iy, x>>, a weight <<oc, ic, tap>>,  *)
(* so that a sum says which products are in it whatever their values.      *)
(***************************************************************************)
EXTENDS Integers, Sequences, FiniteSets, FiniteSetsExt

CONSTANTS
  NMAC,        \* GB_NMAC: lanes, output channels to a weight word
  ADEPTH,      \* GB_ADEPTH: accumulator words
  WDEPTH,      \* GB_WDEPTH: weight words
  STRIPD,      \* GB_STRIPD: bytes of the strip
  ACTMAX,      \* GB_ACTMAX, GB_WGTMAX: bytes of an ACT's payload, and of a
  WGTMAX,      \* WGT's
  RQBASE,      \* GB_RQBASE: where the requantize table starts in it
  MAXQ,        \* GW_RQP_MAXQ: channels of that table
  Poison       \* GB_STRIP_POISON: a byte of a strip row outside the tensor

ASSUME DeviceAssumption ==
  /\ {NMAC, ADEPTH, WDEPTH, STRIPD, ACTMAX, WGTMAX, MAXQ} \subseteq Nat \ {0}
  /\ RQBASE \in Nat /\ RQBASE + 6 * MAXQ <= STRIPD

Stride(d) == IF d.h = d.oh THEN 1 ELSE 2

\* gb_geom(): the geometry of the block of pl at channel q0 and position
\* (oy0, ox0).  rq is the request, and the geometry may refuse it.
Geom(d, pl, q0, oy0, ox0) ==
  LET st    == Stride(d)
      span  == (ox0 + pl.P - 1) \div d.ow
      srows == span * st + 3
      alen  == pl.Cb * srows * d.w
      Q     == pl.QG * NMAC
  IN [d |-> d, st |-> st, P |-> pl.P, QG |-> pl.QG, Cb |-> pl.Cb, Q |-> Q,
      K |-> pl.Cb * 9, npass |-> d.cin \div pl.Cb,
      q0 |-> q0, oy0 |-> oy0, ox0 |-> ox0,
      rowspan |-> span, SROWS |-> srows, strip_ch |-> srows * d.w,
      iy_base |-> oy0 * st - 1, a_len |-> alen, nacc |-> pl.P * Q,
      w_len |-> IF d.wbits = 4 THEN (pl.Cb * 9 * Q) \div 2 ELSE pl.Cb * 9 * Q,
      rq |-> pl.rq /\ Q <= MAXQ /\ alen <= RQBASE /\ pl.P % 2 = 0]

\* ... and what it refuses outright.
Accepts(g) ==
  /\ g.Cb <= g.d.cin /\ g.d.cin % g.Cb = 0
  /\ g.d.wbits = 4 => g.d.cin % 2 = 0
  /\ g.P * g.QG <= ADEPTH
  /\ g.K * g.QG <= WDEPTH
  /\ g.a_len <= STRIPD /\ g.a_len <= ACTMAX /\ g.w_len <= WGTMAX
  /\ g.q0 + g.Q <= g.d.cout
  /\ g.oy0 + g.rowspan < g.d.oh
  /\ g.P <= 255 /\ g.QG <= 255

-----------------------------------------------------------------------------
\* gemm_plan.c.

\* Mutant: a P that does not divide the layer's rows is allowed.
PositionsOk_Ragged(P, d) == (d.oh * d.ow) % P = 0

\* gp_p_ok(): every block of the layer is to have one geometry.
PositionsOk(P, d) ==
  /\ (d.oh * d.ow) % P = 0
  /\ d.ow % P = 0 \/ P % d.ow = 0

\* What gp_choose() chooses among; which of them costs least is left open.
Plans(d, rq) ==
  {pl \in [P : 1 .. (d.oh * d.ow), QG : 1 .. (d.cout \div NMAC), Cb : 1 .. d.cin,
           rq : {rq}] :
     /\ PositionsOk(pl.P, d)
     /\ d.cout % (pl.QG * NMAC) = 0
     /\ Accepts(Geom(d, pl, 0, 0, 0))}

PosBlocks(d, pl)  == (d.oh * d.ow) \div pl.P
ChanBlocks(d, pl) == d.cout \div (pl.QG * NMAC)
NBlocks(d, pl)    == PosBlocks(d, pl) * ChanBlocks(d, pl)

\* gp_blocks(): channels outside, positions inside.
Block(d, pl, n) ==
  LET pos0 == (n % PosBlocks(d, pl)) * pl.P
      cb   == n \div PosBlocks(d, pl)
  IN Geom(d, [pl EXCEPT !.rq = Geom(d, pl, 0, 0, 0).rq],
          cb * pl.QG * NMAC, pos0 \div d.ow, pos0 % d.ow)

\* Whether gp_blocks() bills block n for the requantize table.
TableBilled(d, pl, n) == n % PosBlocks(d, pl) = 0 /\ Block(d, pl, n).rq

\* Mutant: a packed sweep is not a clock longer.
SweepClocks_Unpacked(g, kpack) ==
  (IF kpack THEN g.Cb * 6 ELSE g.K) * g.QG * (g.P + 6)

\* gp_sweep_cycles_k(): the clocks a RUN is to take, its turnaround left out.
SweepClocks(g, kpack) ==
  (IF kpack THEN g.Cb * 6 ELSE g.K) * g.QG * (g.P + 6 + (IF kpack THEN 1 ELSE 0))

\* gp_xfer_w() and gp_simple_w(), at width 1: the bytes of a transaction.
Transaction(len, idle) == LET n == 5 + len + idle + 3 IN n - (n % 4)
Simple(len, idle) == Transaction(len, 13 + 32 + idle)

\* gp_block_parts_kw(): the bytes of a block's transactions, the table's too if
\* it is billed.
BlockBytes(g, billed, kpack) ==
  2 * Simple(0, 0) + Simple(20, 0)
  + g.npass * (Simple(g.a_len, 0) + Simple(g.w_len, 0)
               + Simple(1, (SweepClocks(g, kpack) + 512 + 7) \div 8))
  + Transaction(0, 13 + 32 + (IF g.rq THEN g.nacc ELSE 4 * g.nacc))
  + (IF billed THEN Simple(6 * g.Q, 0) ELSE 0)

\* gp_choose(): a layer is priced as its first block, so many times over, and
\* the table once to each group of channels.
LayerBytes(d, pl, kpack) ==
  LET g == Block(d, pl, 0)
      bare == BlockBytes(g, FALSE, kpack)
  IN bare * NBlocks(d, pl) + (BlockBytes(g, g.rq, kpack) - bare) * ChanBlocks(d, pl)

-----------------------------------------------------------------------------
\* gemm_block.c: what is sent.

\* gb_strip(): the bytes of pass n, by address.
StripBytes(g, n) ==
  [a \in 0 .. (g.a_len - 1) |->
     LET ic == n * g.Cb + (a \div g.strip_ch)
         iy == g.iy_base + ((a % g.strip_ch) \div g.d.w)
     IN IF iy \in 0 .. (g.d.h - 1) THEN <<ic, iy, a % g.d.w>> ELSE Poison]

\* gb_weights_slow(): the weight at place i of the stream of pass n, taps
\* outside, channels inside.
Weight(g, n, i) ==
  LET k == i \div g.Q IN <<g.q0 + (i % g.Q), n * g.Cb + (k \div 9), k % 9>>

\* gb_weights(): the bytes of that stream, each one weight or, of nibbles, two,
\* the low one first.
WeightBytes(g, n) ==
  IF g.d.wbits = 4
  THEN [b \in 1 .. g.w_len |-> <<Weight(g, n, 2 * b - 2), Weight(g, n, 2 * b - 1)>>]
  ELSE [b \in 1 .. g.w_len |-> <<Weight(g, n, b - 1)>>]

\* gb_rqp(): six bytes to a channel, in the order the channels drain.
TableBytes(g) == [a \in 0 .. (6 * g.Q - 1) |-> <<g.q0 + (a \div 6), a % 6>>]

-----------------------------------------------------------------------------
\* What must come back.

\* conv_acc_one(): the products an accumulator is the sum of; taps outside the
\* tensor are skipped.
Convolution(d, oc, oy, ox) ==
  LET ky(t) == t \div 3
      kx(t) == t % 3
      iy(t) == oy * Stride(d) - 1 + ky(t)
      ix(t) == ox * Stride(d) - 1 + kx(t)
      inside == {t \in 0 .. 8 : iy(t) \in 0 .. (d.h - 1) /\ ix(t) \in 0 .. (d.w - 1)}
  IN {<<<<ic, iy(t), ix(t)>>, <<oc, ic, t>>>> : ic \in 0 .. (d.cin - 1), t \in inside}

\* The channel and the position of the i-th accumulator drained, from 0: channels
\* outside, positions inside.
ChannelOf(g, i) == g.q0 + (i \div g.P)
GoldenAcc(g, i) ==
  LET pos == g.ox0 + (i % g.P)
  IN Convolution(g.d, ChannelOf(g, i), g.oy0 + (pos \div g.d.ow), pos % g.d.ow)
=============================================================================
