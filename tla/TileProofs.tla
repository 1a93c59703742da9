----------------------------- MODULE TileProofs -----------------------------
(***************************************************************************)
(* Theorems about Tile, for every layer, every blocking of it and every    *)
(* size of the tile: what a sweep takes, that a readout is never short of  *)
(* a word, that the blocks of a plan cover the layer, each output once, at *)
(* the price the plan was chosen by, that the sums are the convolution,    *)
(* and that the words are the outputs, in order, each with its own         *)
(* channel's parameters.  What is inductive is in TileInvariants.          *)
(***************************************************************************)
EXTENDS TileInvariants, FiniteSetTheorems, WellFoundedInduction, TLAPS

-----------------------------------------------------------------------------
\* The constants.
LEMMA Constants ==
  /\ NMAC \in Nat \ {0} /\ None # "run" /\ None # "drain"
  /\ Layers \subseteq LayerDesc /\ KPacks \subseteq BOOLEAN
<1>1. NMAC \in Nat \ {0}
  BY DeviceAssumption
<1>2. None # "run" /\ None # "drain" /\ Layers \subseteq LayerDesc /\ KPacks \subseteq BOOLEAN
  BY TileAssumption, Zenon
<1> QED BY <1>1, <1>2

\* What every block of a plan has.
LEMMA BlockGeom ==
  ASSUME NEW d \in Layers, NEW r \in BOOLEAN, NEW pl \in Plans(d, r), NEW n
  PROVE  LET g == Block(d, pl, n) IN
         /\ g.P \in Nat \ {0} /\ g.QG \in Nat \ {0} /\ g.Cb \in Nat \ {0}
         /\ g.K = 9 * g.Cb /\ g.nacc = g.P * (g.QG * NMAC)
         /\ g.rq \in BOOLEAN /\ (g.rq => g.P % 2 = 0)
<1>1. pl \in [P : 1 .. (d.oh * d.ow), QG : 1 .. (d.cout \div NMAC), Cb : 1 .. d.cin, rq : {r}]
  BY DEF Plans
<1>2. d.oh * d.ow \in Nat /\ d.cout \div NMAC \in Int /\ d.cin \in Nat
  BY Constants DEF LayerDesc
<1>3. pl.P \in Nat \ {0} /\ pl.QG \in Nat \ {0} /\ pl.Cb \in Nat \ {0} /\ pl.rq \in BOOLEAN
  BY <1>1, <1>2
<1>4. \A p, q0, oy0, ox0 : LET g == Geom(d, p, q0, oy0, ox0) IN
        /\ g.P = p.P /\ g.QG = p.QG /\ g.Cb = p.Cb /\ g.K = p.Cb * 9
        /\ g.nacc = p.P * (p.QG * NMAC)
        /\ g.rq \in BOOLEAN /\ (g.rq => p.P % 2 = 0)
  <2>1. TAKE p, q0, oy0, ox0
  <2>2. LET g == Geom(d, p, q0, oy0, ox0) IN
        /\ g.P = p.P /\ g.QG = p.QG /\ g.Cb = p.Cb /\ g.K = p.Cb * 9
    BY DEF Geom
  <2>3. Geom(d, p, q0, oy0, ox0).nacc = p.P * (p.QG * NMAC)
    BY Zenon DEF Geom
  <2>4. LET g == Geom(d, p, q0, oy0, ox0) IN g.rq \in BOOLEAN /\ (g.rq => p.P % 2 = 0)
    BY Zenon DEF Geom
  <2> QED BY <2>2, <2>3, <2>4
<1> DEFINE q == Geom(d, pl, 0, 0, 0).rq
<1> DEFINE p == [pl EXCEPT !.rq = q]
<1>5. p.P = pl.P /\ p.QG = pl.QG /\ p.Cb = pl.Cb
  BY <1>1
<1>6. \E q0, oy0, ox0 : Block(d, pl, n) = Geom(d, p, q0, oy0, ox0)
  BY DEF Block
<1> HIDE DEF p
<1>7. PICK q0, oy0, ox0 : Block(d, pl, n) = Geom(d, p, q0, oy0, ox0)
  BY <1>6
<1> QED BY <1>3, <1>4, <1>5, <1>7

-----------------------------------------------------------------------------
\* run_block() between the sweeps: the tile rests.

LEMMA ReadyRests ==
  ASSUME TileInv, Ready
  PROVE  Resting /\ pulse = None
BY DEF TileInv, ReadInv, Ready, Busy, Resting

LEMMA RestIsGood ==
  ASSUME GeomInv, ShapeInv, Resting, pulse \in {"run", "drain", None},
         pulse = "run" => host.do = "run" /\ host.clocks = 0,
         pulse = "drain" => host.do = "drain",
         host.do = "drain" /\ pulse = None => link.sent = cfg.nacc
  PROVE  TileInv
<1>1. SweepInv
  BY DEF SweepInv, Resting
<1>2. PlainInv /\ QuantInv
  BY DEF PlainInv, QuantInv, Draining, Resting
<1>3. ReadInv
  BY DEF ReadInv, Draining, Resting, Ready
<1> QED BY <1>1, <1>2, <1>3 DEF TileInv

LEMMA InitTile == Init => TileInv
<1> SUFFICES ASSUME Init PROVE TileInv
  OBVIOUS
<1>1. kpack \in KPacks /\ layer \in Layers /\ cfg = Block(layer, plan, 0)
  BY DEF Init
<1>2. PICK r \in BOOLEAN : plan \in Plans(layer, r)
  BY DEF Init
<1>3. GeomInv
  BY <1>1, <1>2, BlockGeom, Constants DEF GeomInv
<1>4. /\ host.do = "cfg" /\ state = "IDLE" /\ pulse = None
      /\ IsRecord(host, {"blk", "pass", "do", "left", "clocks", "table"})
  BY DEF Init, IsRecord
<1>5. /\ ~link.on /\ ~link.dv /\ ~link.rdy /\ ~link.have /\ ~link.under
      /\ IsRecord(link, {"on", "n", "dv", "rdy", "word", "have", "sent", "last", "under"})
  BY DEF Init, IsRecord
<1>6. /\ ~out.valid /\ IsRecord(out, {"dout", "valid", "end"})
      /\ IsRecord(dwalk, {"p", "j", "g", "addr", "addr2"})
  BY DEF Init, IsRecord
<1>7. IsRecord(walk, {"k", "kx", "ky", "g", "p", "wcnt", "base_ic", "base_ky", "acc", "flush",
                      "init"})
  BY DEF Init, IsRecord
<1>8. /\ link.on \in BOOLEAN /\ link.dv \in BOOLEAN /\ link.rdy \in BOOLEAN
      /\ link.have \in BOOLEAN /\ link.under \in BOOLEAN /\ out.valid \in BOOLEAN
  BY DEF Init
<1>10. rq.se \in [{0, 1} -> BOOLEAN] /\ rq.end_c \in BOOLEAN
  BY DEF Init
<1>9. ShapeInv
  BY <1>4, <1>5, <1>6, <1>7, <1>8, <1>10, Zenon DEF ShapeInv
<1> QED BY <1>3, <1>4, <1>5, <1>6, <1>9, Constants, RestIsGood DEF Resting

\* A step of the host, which leaves the tile alone but for a pulse.
LEMMA HostLeaves ==
  ASSUME TileInv, Ready, UNCHANGED <<rigid, state, sweep, readout>>, cfg' = cfg \/ GeomInv',
         IsRecord(host, {"blk", "pass", "do", "left", "clocks", "table"})',
         pulse' \in {"run", "drain", None},
         pulse' = "run" => host'.do = "run" /\ host'.clocks = 0,
         pulse' = "drain" => host'.do = "drain",
         host'.do = "drain" => pulse' # None
  PROVE  TileInv'
<1>1. Resting'
  BY ReadyRests DEF Resting, readout
<1>2. GeomInv'
  BY DEF TileInv, GeomInv, rigid
<1>3. ShapeInv'
  BY DEF TileInv, ShapeInv, IsRecord, sweep, readout
<1>4. (GeomInv /\ ShapeInv /\ Resting /\ pulse \in {"run", "drain", None}
       /\ (pulse = "run" => host.do = "run" /\ host.clocks = 0)
       /\ (pulse = "drain" => host.do = "drain")
       /\ (host.do = "drain" /\ pulse = None => link.sent = cfg.nacc))'
  BY <1>1, <1>2, <1>3
<1> QED BY <1>4, RestIsGood, PTL

LEMMA ConfigureStep == TileInv /\ Configure => TileInv'
<1> SUFFICES ASSUME TileInv, Configure PROVE TileInv'
  OBVIOUS
<1>1. /\ UNCHANGED <<rigid, state, sweep, readout>> /\ pulse' = pulse /\ Ready
      /\ cfg' = Block(layer, plan, host.blk)
  BY DEF Configure
<1>2. PICK r \in BOOLEAN : plan \in Plans(layer, r)
  BY DEF TileInv, GeomInv
<1>3. GeomInv'
  BY <1>1, <1>2, BlockGeom DEF TileInv, GeomInv, rigid
<1>4. /\ IsRecord(host, {"blk", "pass", "do", "left", "clocks", "table"})'
      /\ host'.do = "pass"
  BY DEF Configure, TileInv, ShapeInv, IsRecord
<1> QED BY <1>1, <1>3, <1>4, ReadyRests, HostLeaves, Constants

LEMMA PassStep == TileInv /\ Pass => TileInv'
<1> SUFFICES ASSUME TileInv, Pass PROVE TileInv'
  OBVIOUS
<1>1. UNCHANGED <<rigid, state, sweep, readout>> /\ cfg' = cfg /\ pulse' = "run" /\ Ready
  BY DEF Pass
<1>2. /\ IsRecord(host, {"blk", "pass", "do", "left", "clocks", "table"})'
      /\ host'.do = "run" /\ host'.clocks = 0
  BY DEF Pass, TileInv, ShapeInv, IsRecord
<1> QED BY <1>1, <1>2, HostLeaves

LEMMA SweptStep == TileInv /\ Swept => TileInv'
<1> SUFFICES ASSUME TileInv, Swept PROVE TileInv'
  OBVIOUS
<1>1. UNCHANGED <<rigid, state, sweep, readout>> /\ cfg' = cfg /\ Ready
  BY DEF Swept
<1>2. /\ IsRecord(host, {"blk", "pass", "do", "left", "clocks", "table"})'
      /\ \/ pulse' = "drain" /\ host'.do = "drain"
         \/ pulse' = None /\ host'.do = "pass"
  BY DEF Swept, TileInv, ShapeInv, IsRecord
<1> QED BY <1>1, <1>2, HostLeaves, Constants

LEMMA DrainedStep == TileInv /\ Drained => TileInv'
<1> SUFFICES ASSUME TileInv, Drained PROVE TileInv'
  OBVIOUS
<1>1. UNCHANGED <<rigid, state, sweep, readout>> /\ cfg' = cfg /\ pulse' = pulse /\ Ready
  BY DEF Drained
<1>2. /\ IsRecord(host, {"blk", "pass", "do", "left", "clocks", "table"})'
      /\ host'.do \in {"cfg", "over"}
  BY DEF Drained, TileInv, ShapeInv, IsRecord
<1> QED BY <1>1, <1>2, ReadyRests, HostLeaves, Constants

-----------------------------------------------------------------------------
\* A clock, piece by piece.

\* The state after each state.
LEMMA StateIs ==
  /\ state = "IDLE" /\ pulse = "run" => NextState = "LOAD"
  /\ state = "IDLE" /\ pulse = "drain" => NextState = "DISS"
  /\ state = "IDLE" /\ pulse \notin {"run", "drain"} => NextState = "IDLE"
  /\ state = "LOAD" => NextState = "SWEEP"
  /\ state = "SWEEP" => NextState = IF flag.pos THEN "FLUSH" ELSE "SWEEP"
  /\ state = "FLUSH" => NextState = IF ~flag.now THEN "FLUSH"
                                    ELSE IF flag.g \/ flag.k THEN "LOAD" ELSE "IDLE"
  /\ state = "DISS" => NextState = "DWAIT"
  /\ state = "DWAIT" => NextState = IF cfg.rq /\ ~rq.sf[rq.rsel] THEN "DWAIT" ELSE "DHOLD"
  /\ state = "DHOLD" => NextState = IF ~link.rdy THEN "DHOLD"
                                    ELSE IF cfg.rq THEN (IF out.end THEN "IDLE" ELSE "DWAIT")
                                    ELSE IF LastP /\ LastJ /\ LastG THEN "IDLE" ELSE "DISS"
BY DEF NextState

\* The counters of the sweep after each state.
LEMMA WalkIs ==
  /\ state = "IDLE" /\ pulse = "run" => NextWalk = WalkReset(host.pass = 0)
  /\ state = "LOAD" =>
       NextWalk = [walk EXCEPT !.acc = walk.g, !.p = 0, !.wcnt = (@ + 1) % WDEPTH]
  /\ state = "SWEEP" =>
       NextWalk = [walk EXCEPT !.acc = (@ + cfg.QG) % ADEPTH, !.p = @ + 1,
                               !.flush = IF flag.pos THEN FLUSH - 1 ELSE @]
  /\ state = "FLUSH" =>
       NextWalk = IF flag.now THEN WalkAdvance ELSE [walk EXCEPT !.flush = @ - 1]
  /\ state \notin {"LOAD", "SWEEP", "FLUSH"} /\ pulse # "run" => NextWalk = walk
BY DEF NextWalk

\* What the tile offers after each state.
LEMMA OutIs ==
  ASSUME Readout
  PROVE  /\ state = "IDLE" => out' = [out EXCEPT !.valid = FALSE, !.end = @ /\ pulse # "drain"]
         /\ state = "DWAIT" /\ cfg.rq /\ rq.sf[rq.rsel] =>
              out' = [dout |-> rq.slot[rq.rsel][IF rq.half THEN 2 ELSE 1], valid |-> TRUE,
                      end |-> rq.se[rq.rsel] /\ rq.half]
         /\ state = "DWAIT" /\ cfg.rq /\ ~rq.sf[rq.rsel] => out' = out
         /\ state = "DWAIT" /\ ~cfg.rq =>
              out' = [out EXCEPT !.dout = NameOf(s2.accq[dwalk.j]), !.valid = TRUE]
         /\ state = "DHOLD" /\ link.rdy => out' = [out EXCEPT !.valid = FALSE]
         /\ state = "DHOLD" /\ ~link.rdy => out' = out
         /\ state \in {"LOAD", "SWEEP", "FLUSH", "DISS"} => out' = out
BY DEF Readout

\* The serializer in a clock without a pulse for it.
LEMMA LinkIs ==
  ASSUME ShapeInv, pulse # "drain", link' = NextLink
  PROVE  /\ (link'.dv <=> out.valid)
         /\ ~link.on =>
              /\ ~link'.on /\ ~link'.rdy /\ (link'.under <=> link.under)
              /\ link'.n = link.n /\ link'.sent = link.sent
         /\ link.on /\ link.n > 1 =>
              /\ link'.on /\ ~link'.rdy /\ (link'.under <=> link.under)
              /\ link'.n = link.n - 1 /\ link'.sent = link.sent
              /\ (link'.have <=> link.have \/ (out.valid /\ ~link.dv))
         /\ link.on /\ ~(link.n > 1) /\ link.have =>
              /\ link'.on /\ link'.rdy /\ (link'.under <=> link.under)
              /\ link'.n = WordClocks /\ link'.sent = link.sent + 1
              /\ (link'.have <=> out.valid /\ ~link.dv)
         /\ link.on /\ ~(link.n > 1) /\ ~link.have =>
              /\ ~link'.on /\ ~link'.rdy /\ (link'.under <=> Busy \/ link.sent = 0)
              /\ link'.sent = link.sent
<1> DEFINE rise == out.valid /\ ~link.dv
<1> DEFINE l == [link EXCEPT !.dv = out.valid, !.rdy = FALSE,
                             !.word = IF rise THEN out.dout ELSE @, !.have = @ \/ rise]
<1>1. /\ l.dv = out.valid /\ l.rdy = FALSE /\ l.have = (link.have \/ rise)
      /\ l.on = link.on /\ l.n = link.n /\ l.sent = link.sent /\ l.under = link.under
      /\ IsRecord(l, {"on", "n", "dv", "rdy", "word", "have", "sent", "last", "under"})
  BY DEF ShapeInv, IsRecord
<1>2. link' = IF ~link.on THEN l
              ELSE IF link.n > 1 THEN [l EXCEPT !.n = @ - 1]
              ELSE IF link.have
              THEN [l EXCEPT !.n = WordClocks, !.have = rise, !.rdy = TRUE, !.sent = @ + 1,
                             !.last = link.word]
              ELSE [l EXCEPT !.on = FALSE, !.under = Busy \/ link.sent = 0]
  BY DEF NextLink
<1> HIDE DEF l
<1>3. CASE ~link.on
  BY <1>1, <1>2, <1>3
<1>4. CASE link.on /\ link.n > 1
  BY <1>1, <1>2, <1>4 DEF IsRecord
<1>5. CASE link.on /\ ~(link.n > 1) /\ link.have
  BY <1>1, <1>2, <1>5 DEF IsRecord
<1>6. CASE link.on /\ ~(link.n > 1) /\ ~link.have
  BY <1>1, <1>2, <1>6 DEF IsRecord
<1> QED BY <1>3, <1>4, <1>5, <1>6

\* And with one.
LEMMA LinkStarts ==
  ASSUME ShapeInv, pulse = "drain", link' = NextLink
  PROVE  /\ link'.on /\ link'.n = HEAD - 1 /\ ~link'.have /\ link'.sent = 0 /\ ~link'.under
         /\ ~link'.rdy /\ link'.dv = out.valid
BY DEF NextLink, ShapeInv, IsRecord

\* The records keep their fields.
LEMMA ClockShape == ShapeInv /\ GeomInv /\ Clock => ShapeInv'
<1> SUFFICES ASSUME ShapeInv, GeomInv, Clock PROVE ShapeInv'
  OBVIOUS
<1>1. IsRecord(host, {"blk", "pass", "do", "left", "clocks", "table"})'
  BY DEF Clock, ShapeInv, IsRecord
<1> DEFINE F == {"k", "kx", "ky", "g", "p", "wcnt", "base_ic", "base_ky", "acc", "flush",
                 "init"}
<1>2. IsRecord(walk, F)'
  <2>1. walk' = NextWalk /\ IsRecord(walk, F)
    BY DEF Clock, ShapeInv
  <2>2. IsRecord(WalkReset(host.pass = 0), F)
    BY DEF WalkReset, IsRecord
  <2>3. IsRecord(WalkAdvance, F)
    BY <2>1 DEF WalkAdvance, IsRecord
  <2>4. CASE state = "LOAD"
    BY <2>1, <2>4, WalkIs DEF IsRecord
  <2>5. CASE state = "SWEEP"
    BY <2>1, <2>5, WalkIs DEF IsRecord
  <2>6. CASE state = "FLUSH" /\ ~flag.now
    BY <2>1, <2>6, WalkIs DEF IsRecord
  <2>7. CASE state = "FLUSH" /\ flag.now
    BY <2>1, <2>3, <2>7, WalkIs
  <2>8. CASE state \notin {"LOAD", "SWEEP", "FLUSH"}
    <3>1. NextWalk \in {walk, WalkReset(host.pass = 0)}
      BY <2>8 DEF NextWalk
    <3> QED BY <2>1, <2>2, <3>1
  <2> QED BY <2>4, <2>5, <2>6, <2>7, <2>8
<1>3. IsRecord(dwalk, {"p", "j", "g", "addr", "addr2"})'
  <2>1. IsRecord(dwalk, {"p", "j", "g", "addr", "addr2"})
    BY DEF ShapeInv
  <2>2. \A n, a, b, c : IsRecord(DwalkNext(n, a, b, c), {"p", "j", "g", "addr", "addr2"})
    <3>1. TAKE n, a, b, c
    <3>2. IsRecord([dwalk EXCEPT !.p = @ + n, !.addr = (@ + n * cfg.QG) % ADEPTH,
                                 !.addr2 = (@ + n * cfg.QG) % ADEPTH],
                   {"p", "j", "g", "addr", "addr2"})
      BY <2>1 DEF IsRecord
    <3>3. \A j, g, x, y : IsRecord([p |-> 0, j |-> j, g |-> g, addr |-> x, addr2 |-> y],
                                  {"p", "j", "g", "addr", "addr2"})
      BY DEF IsRecord
    <3> QED BY <3>2, <3>3, Zenon DEF DwalkNext
  <2>3. \/ dwalk' = [p |-> 0, j |-> 0, g |-> 0, addr |-> 0, addr2 |-> cfg.QG]
        \/ dwalk' = DwalkNext(2, rlast.pp, rlast.j, rlast.g)
        \/ dwalk' = DwalkNext(1, LastP, LastJ, LastG)
        \/ dwalk' = dwalk
    BY DEF Clock, Readout
  <2> QED BY <2>1, <2>2, <2>3 DEF IsRecord
<1>4. IsRecord(out, {"dout", "valid", "end"})' /\ out'.valid \in BOOLEAN
  <2>1. IsRecord(out, {"dout", "valid", "end"}) /\ out.valid \in BOOLEAN
    BY DEF ShapeInv
  <2>2. \/ out' = [out EXCEPT !.valid = FALSE, !.end = @ /\ pulse # "drain"]
        \/ out' = [dout |-> rq.slot[rq.rsel][IF rq.half THEN 2 ELSE 1], valid |-> TRUE,
                   end |-> rq.se[rq.rsel] /\ rq.half]
        \/ out' = [out EXCEPT !.dout = NameOf(s2.accq[dwalk.j]), !.valid = TRUE]
        \/ out' = [out EXCEPT !.valid = FALSE]
        \/ out' = out
    BY DEF Clock, Readout
  <2> DEFINE good(o) == IsRecord(o, {"dout", "valid", "end"}) /\ o.valid \in BOOLEAN
  <2>3. good([out EXCEPT !.valid = FALSE, !.end = @ /\ pulse # "drain"])
    BY <2>1 DEF IsRecord
  <2>4. good([dout |-> rq.slot[rq.rsel][IF rq.half THEN 2 ELSE 1], valid |-> TRUE,
              end |-> rq.se[rq.rsel] /\ rq.half])
    BY DEF IsRecord
  <2>5. good([out EXCEPT !.dout = NameOf(s2.accq[dwalk.j]), !.valid = TRUE])
    BY <2>1 DEF IsRecord
  <2>6. good([out EXCEPT !.valid = FALSE])
    BY <2>1 DEF IsRecord
  <2>7. good(out)
    BY <2>1
  <2>8. good(out')
    <3> HIDE DEF good
    <3> QED BY <2>2, <2>3, <2>4, <2>5, <2>6, <2>7, Zenon
  <2> QED BY <2>8
<1> DEFINE L == {"on", "n", "dv", "rdy", "word", "have", "sent", "last", "under"}
<1>5. /\ IsRecord(link, L)'
      /\ link'.on \in BOOLEAN /\ link'.dv \in BOOLEAN /\ link'.rdy \in BOOLEAN
      /\ link'.have \in BOOLEAN /\ link'.under \in BOOLEAN
  <2> DEFINE rise == out.valid /\ ~link.dv
  <2> DEFINE l == [link EXCEPT !.dv = out.valid, !.rdy = FALSE,
                               !.word = IF rise THEN out.dout ELSE @, !.have = @ \/ rise]
  <2>1. /\ IsRecord(l, L) /\ l.dv = out.valid /\ l.rdy = FALSE
        /\ l.have = (link.have \/ rise) /\ l.on = link.on /\ l.under = link.under
    BY DEF ShapeInv, IsRecord
  <2>2. \/ link' = [l EXCEPT !.on = TRUE, !.n = HEAD - 1, !.have = FALSE, !.sent = 0,
                             !.under = FALSE]
        \/ link' = l
        \/ link' = [l EXCEPT !.n = @ - 1]
        \/ link' = [l EXCEPT !.n = WordClocks, !.have = rise, !.rdy = TRUE, !.sent = @ + 1,
                             !.last = link.word]
        \/ link' = [l EXCEPT !.on = FALSE, !.under = Busy \/ link.sent = 0]
    BY DEF Clock, NextLink
  <2>3. l.on \in BOOLEAN /\ l.dv \in BOOLEAN /\ l.have \in BOOLEAN /\ l.under \in BOOLEAN
    BY <2>1 DEF ShapeInv
  <2> HIDE DEF l
  <2> QED BY <2>1, <2>2, <2>3 DEF IsRecord
<1>6. rq'.se \in [{0, 1} -> BOOLEAN] /\ rq'.end_c \in BOOLEAN
  <2>1. rq'.se = IF RqTake THEN [rq.se EXCEPT ![rq.wsel] = rq.end_c] ELSE rq.se
    BY DEF Clock, Engine
  <2>2. rq'.end_c = IF RqAdv THEN rlast.pp /\ rlast.j /\ rlast.g ELSE rq.end_c
    BY DEF Clock, Engine
  <2>3. rq.se \in [{0, 1} -> BOOLEAN] /\ rq.end_c \in BOOLEAN
    BY DEF ShapeInv
  <2> QED BY <2>1, <2>2, <2>3
<1> QED BY <1>1, <1>2, <1>3, <1>4, <1>5, <1>6, Zenon DEF ShapeInv

-----------------------------------------------------------------------------
\* A clock of the sweep.

\* One more lap.
LEMMA LapMore ==
  ASSUME NEW x \in Int, NEW l \in Int
  PROVE  x * l \in Int /\ (x + 1) * l = x * l + l
OBVIOUS

\* The two depths of the pipeline.
LEMMA FlushIs ==
  ASSUME kpack \in BOOLEAN
  PROVE  FLUSH \in Nat /\ FLUSH >= 5 /\ (FLUSH = IF kpack THEN 6 ELSE 5)
BY DEF FLUSH

\* What the end of a lap does to the counters of the walk.
LEMMA AdvanceIs ==
  ASSUME ShapeInv
  PROVE  /\ flag.g => /\ WalkAdvance.g = walk.g + 1 /\ WalkAdvance.k = walk.k
                      /\ WalkAdvance.kx = walk.kx /\ WalkAdvance.ky = walk.ky
         /\ ~flag.g /\ flag.k =>
              /\ WalkAdvance.g = 0
              /\ WalkAdvance.k = walk.k + (IF kpack /\ ~KpTail THEN 2 ELSE 1)
              /\ kpack => WalkAdvance.kx = IF KpTail THEN 0 ELSE 2
              /\ WalkAdvance.ky = IF flag.ky THEN walk.ky + 1
                                  ELSE IF flag.ic THEN 0 ELSE walk.ky
BY DEF WalkAdvance, ShapeInv, IsRecord

\* The next tap, or the next two, while there are any.
LEMMA NextTap ==
  ASSUME GeomInv, NEW n \in 0 .. (Taps - 1), TapAt(n), walk.k # cfg.K - 1,
         NEW w,
         w.k = walk.k + (IF kpack /\ ~KpTail THEN 2 ELSE 1),
         kpack => w.kx = IF KpTail THEN 0 ELSE 2,
         w.ky = IF walk.kx = 2 /\ walk.ky # 2 THEN walk.ky + 1
                ELSE IF walk.kx = 2 /\ walk.ky = 2 THEN 0 ELSE walk.ky
  PROVE  /\ n + 1 \in 0 .. (Taps - 1)
         /\ IF kpack
            THEN /\ w.ky \in 0 .. 2 /\ w.kx \in {0, 2}
                 /\ \E ic \in 0 .. (cfg.Cb - 1) :
                      /\ w.k = 9 * ic + 3 * w.ky + w.kx
                      /\ n + 1 = 6 * ic + 2 * w.ky + (IF w.kx = 2 THEN 1 ELSE 0)
            ELSE w.k = n + 1 /\ n + 1 \in 0 .. (cfg.K - 1)
<1>1. cfg.Cb \in Nat \ {0} /\ cfg.K = 9 * cfg.Cb /\ kpack \in BOOLEAN
  BY DEF GeomInv
<1>2. CASE ~kpack
  BY <1>1, <1>2 DEF TapAt, Taps
<1>3. CASE kpack
  <2>1. PICK ic \in 0 .. (cfg.Cb - 1) :
          /\ walk.k = 9 * ic + 3 * walk.ky + walk.kx
          /\ n = 6 * ic + 2 * walk.ky + (IF walk.kx = 2 THEN 1 ELSE 0)
    BY <1>3 DEF TapAt
  <2>2. walk.ky \in 0 .. 2 /\ walk.kx \in {0, 2}
    BY <1>3 DEF TapAt
  <2>3. CASE walk.kx = 0
    <3>1. w.kx = 2 /\ w.ky = walk.ky /\ w.k = 9 * ic + 3 * w.ky + w.kx
      BY <1>3, <2>1, <2>2, <2>3 DEF KpTail
    <3>2. n + 1 = 6 * ic + 2 * w.ky + 1 /\ n + 1 <= Taps - 1
      BY <1>1, <1>3, <2>1, <2>2, <2>3, <3>1 DEF Taps
    <3> QED BY <1>3, <2>2, <3>1, <3>2, <2>1
  <2>4. CASE walk.kx = 2 /\ walk.ky # 2
    <3>1. w.kx = 0 /\ w.ky = walk.ky + 1 /\ w.k = 9 * ic + 3 * w.ky + w.kx
      BY <1>3, <2>1, <2>2, <2>4 DEF KpTail
    <3>2. n + 1 = 6 * ic + 2 * w.ky /\ n + 1 <= Taps - 1
      BY <1>1, <1>3, <2>1, <2>2, <2>4, <3>1 DEF Taps
    <3> QED BY <1>3, <2>2, <3>1, <3>2, <2>1, <2>4
  <2>5. CASE walk.kx = 2 /\ walk.ky = 2
    <3>1. ic + 1 \in 0 .. (cfg.Cb - 1)
      BY <1>1, <2>1, <2>5
    <3>2. w.kx = 0 /\ w.ky = 0 /\ w.k = 9 * (ic + 1) + 3 * w.ky + w.kx
      BY <1>3, <2>1, <2>2, <2>5 DEF KpTail
    <3>3. n + 1 = 6 * (ic + 1) + 2 * w.ky /\ n + 1 <= Taps - 1
      BY <1>1, <1>3, <2>1, <2>2, <2>5, <3>1, <3>2 DEF Taps
    <3> QED BY <1>3, <3>1, <3>2, <3>3
  <2> QED BY <2>2, <2>3, <2>4, <2>5
<1> QED BY <1>1, <1>2, <1>3

\* What a clock does whatever the tile is doing.
LEMMA ClockAlways ==
  ASSUME TileInv, Clock
  PROVE  /\ kpack' = kpack /\ cfg' = cfg /\ layer' = layer /\ plan' = plan /\ pulse' = None
         /\ host'.do = host.do /\ host'.clocks = host.clocks + 1
         /\ state' = NextState /\ walk' = NextWalk /\ flag' = NextFlag /\ link' = NextLink
         /\ GeomInv' /\ ShapeInv'
<1>1. /\ kpack' = kpack /\ cfg' = cfg /\ layer' = layer /\ plan' = plan /\ pulse' = None
      /\ state' = NextState /\ walk' = NextWalk /\ flag' = NextFlag /\ link' = NextLink
  BY DEF Clock, rigid
<1>2. host'.do = host.do /\ host'.clocks = host.clocks + 1
  BY DEF Clock, TileInv, ShapeInv, IsRecord
<1>3. GeomInv'
  BY <1>1 DEF GeomInv, TileInv
<1>4. ShapeInv'
  BY ClockShape DEF TileInv
<1> QED BY <1>1, <1>2, <1>3, <1>4

\* The flags registered in a clock.
LEMMA FlagIs ==
  ASSUME flag' = NextFlag
  PROVE  /\ flag'.tap <=> walk.k = cfg.K - 1
         /\ flag'.grp <=> walk.g = cfg.QG - 1
         /\ flag'.pos <=> IF state = "LOAD" THEN cfg.P = 1
                          ELSE walk.p = cfg.P - 2 \/ cfg.P = 1
         /\ flag'.now <=> state = "FLUSH" /\ walk.flush = 1
         /\ flag'.g <=> ~flag.grp
         /\ flag'.k <=> flag.grp /\ ~flag.tap
         /\ flag'.ky <=> flag.grp /\ ~flag.tap /\ walk.kx = 2 /\ walk.ky # 2
         /\ flag'.ic <=> flag.grp /\ ~flag.tap /\ walk.kx = 2 /\ walk.ky = 2
BY Zenon DEF NextFlag

\* A clock that is not the last of its lap.
LEMMA LapGoesOn ==
  ASSUME TileInv, Clock, state \in {"LOAD", "SWEEP", "FLUSH"},
         walk'.k = walk.k, walk'.kx = walk.kx, walk'.ky = walk.ky, walk'.g = walk.g,
         InLap \in Int, InLap' = InLap + 1
  PROVE  /\ host'.do = "run" /\ walk'.g \in 0 .. (cfg'.QG - 1)
         /\ \E n \in 0 .. (Taps' - 1) :
              TapAt(n)' /\ host'.clocks = (n * cfg'.QG + walk'.g) * Lap' + InLap'
<1>1. /\ host.do = "run" /\ walk.g \in 0 .. (cfg.QG - 1)
      /\ cfg.QG \in Nat \ {0} /\ cfg.P \in Nat \ {0} /\ cfg.Cb \in Nat \ {0}
      /\ cfg.K = 9 * cfg.Cb /\ kpack \in BOOLEAN
  BY DEF TileInv, SweepInv, GeomInv
<1>2. PICK n \in 0 .. (Taps - 1) :
        TapAt(n) /\ host.clocks = (n * cfg.QG + walk.g) * Lap + InLap
  BY DEF TileInv, SweepInv
<1>3. Taps' = Taps /\ Lap' = Lap /\ Lap \in Int /\ Taps \in Int
  BY <1>1, ClockAlways, FlushIs DEF Taps, Lap, FLUSH
<1>4. TapAt(n)'
  BY <1>2, ClockAlways DEF TapAt
<1>5. (n * cfg.QG + walk.g) * Lap \in Int
  <2>1. n * cfg.QG + walk.g \in Int
    BY <1>1, <1>2, <1>3
  <2> QED BY <2>1, <1>3, LapMore
<1>6. host'.clocks = (n * cfg.QG + walk.g) * Lap + InLap'
  BY <1>2, <1>5, ClockAlways
<1> QED BY <1>1, <1>2, <1>3, <1>4, <1>6, ClockAlways

LEMMA LoadClock ==
  ASSUME TileInv, Clock, state = "LOAD"
  PROVE  SweepInv'
<1>1. state' = "SWEEP"
  BY StateIs, ClockAlways
<1>2. /\ walk'.k = walk.k /\ walk'.kx = walk.kx /\ walk'.ky = walk.ky /\ walk'.g = walk.g
      /\ walk'.p = 0
  BY WalkIs, ClockAlways DEF TileInv, ShapeInv, IsRecord
<1>3. /\ flag'.tap <=> walk.k = cfg.K - 1
      /\ flag'.grp <=> walk.g = cfg.QG - 1
      /\ flag'.pos <=> cfg.P = 1
  BY ClockAlways, FlagIs
<1>4. cfg.P \in Nat \ {0} /\ cfg' = cfg /\ pulse' = None
  BY ClockAlways DEF TileInv, GeomInv
<1>5. InLap = 1 /\ InLap' = 2
  BY <1>1, <1>2 DEF InLap
<1>6. /\ host'.do = "run" /\ walk'.g \in 0 .. (cfg'.QG - 1)
      /\ \E n \in 0 .. (Taps' - 1) :
           TapAt(n)' /\ host'.clocks = (n * cfg'.QG + walk'.g) * Lap' + InLap'
  BY <1>2, <1>5, LapGoesOn
<1>7. walk'.p \in 0 .. (cfg'.P - 1) /\ (flag'.pos <=> walk'.p = cfg'.P - 1)
  BY <1>2, <1>3, <1>4
<1>8. (flag'.tap <=> walk'.k = cfg'.K - 1) /\ (flag'.grp <=> walk'.g = cfg'.QG - 1)
  BY <1>2, <1>3, <1>4
<1> QED BY <1>1, <1>4, <1>6, <1>7, <1>8, Constants DEF SweepInv

LEMMA SweepClock ==
  ASSUME TileInv, Clock, state = "SWEEP"
  PROVE  SweepInv'
<1>1. /\ state' = IF flag.pos THEN "FLUSH" ELSE "SWEEP"
      /\ pulse' = None /\ cfg' = cfg /\ kpack' = kpack
  BY StateIs, ClockAlways
<1>2. /\ walk'.k = walk.k /\ walk'.kx = walk.kx /\ walk'.ky = walk.ky /\ walk'.g = walk.g
      /\ walk'.p = walk.p + 1 /\ walk'.flush = IF flag.pos THEN FLUSH - 1 ELSE walk.flush
  <2> DEFINE next(f) == [walk EXCEPT !.acc = (@ + cfg.QG) % ADEPTH, !.p = @ + 1, !.flush = f]
  <2>1. walk' = next(IF flag.pos THEN FLUSH - 1 ELSE walk.flush)
    BY WalkIs, ClockAlways
  <2>2. \A f : /\ next(f).k = walk.k /\ next(f).kx = walk.kx /\ next(f).ky = walk.ky
               /\ next(f).g = walk.g /\ next(f).p = walk.p + 1 /\ next(f).flush = f
    BY DEF TileInv, ShapeInv, IsRecord
  <2> HIDE DEF next
  <2> QED BY <2>1, <2>2
<1>3. /\ walk.p \in 0 .. (cfg.P - 1) /\ (flag.pos <=> walk.p = cfg.P - 1)
      /\ (flag.tap <=> walk.k = cfg.K - 1) /\ (flag.grp <=> walk.g = cfg.QG - 1)
      /\ cfg.P \in Nat \ {0} /\ kpack \in BOOLEAN
  BY DEF TileInv, SweepInv, GeomInv
<1>4. /\ flag'.tap <=> walk.k = cfg.K - 1
      /\ flag'.grp <=> walk.g = cfg.QG - 1
      /\ flag'.pos <=> walk.p = cfg.P - 2 \/ cfg.P = 1
      /\ ~flag'.now
      /\ flag'.g <=> ~flag.grp
      /\ flag'.k <=> flag.grp /\ ~flag.tap
      /\ flag'.ky <=> flag.grp /\ ~flag.tap /\ walk.kx = 2 /\ walk.ky # 2
      /\ flag'.ic <=> flag.grp /\ ~flag.tap /\ walk.kx = 2 /\ walk.ky = 2
  BY ClockAlways, FlagIs
<1>5. InLap = 2 + walk.p /\ InLap' = 3 + walk.p
  <2>1. InLap' = IF state' = "SWEEP" THEN 2 + walk'.p ELSE 1 + cfg.P + FLUSH - walk'.flush
    BY <1>1 DEF InLap, FLUSH
  <2> QED BY <2>1, <1>1, <1>2, <1>3, FlushIs DEF InLap
<1>6. /\ host'.do = "run" /\ walk'.g \in 0 .. (cfg'.QG - 1)
      /\ \E n \in 0 .. (Taps' - 1) :
           TapAt(n)' /\ host'.clocks = (n * cfg'.QG + walk'.g) * Lap' + InLap'
  BY <1>2, <1>3, <1>5, LapGoesOn
<1>7. (flag'.tap <=> walk'.k = cfg'.K - 1) /\ (flag'.grp <=> walk'.g = cfg'.QG - 1)
  BY <1>1, <1>2, <1>4
<1>8. CASE flag.pos
  <2>1. state' = "FLUSH" /\ FLUSH' = FLUSH
    BY <1>1, <1>8 DEF FLUSH
  <2>2. walk'.flush \in 0 .. (FLUSH' - 1) /\ (flag'.now <=> walk'.flush = 0)
    BY <1>2, <1>3, <1>4, <1>8, <2>1, FlushIs
  <2>3. LET lastg == walk'.g = cfg'.QG - 1
            more  == lastg /\ walk'.k # cfg'.K - 1
        IN /\ (flag'.g <=> ~lastg) /\ (flag'.k <=> more)
           /\ flag'.ky <=> more /\ walk'.kx = 2 /\ walk'.ky # 2
           /\ flag'.ic <=> more /\ walk'.kx = 2 /\ walk'.ky = 2
    BY <1>1, <1>2, <1>3, <1>4
  <2> QED BY <1>1, <1>6, <1>7, <2>1, <2>2, <2>3, Constants DEF SweepInv
<1>9. CASE ~flag.pos
  <2>1. walk'.p \in 0 .. (cfg'.P - 1) /\ (flag'.pos <=> walk'.p = cfg'.P - 1)
    BY <1>1, <1>2, <1>3, <1>4, <1>9
  <2> QED BY <1>1, <1>6, <1>7, <1>9, <2>1, Constants DEF SweepInv
<1> QED BY <1>8, <1>9

LEMMA FlushClock ==
  ASSUME TileInv, Clock, state = "FLUSH"
  PROVE  SweepInv'
<1>1. /\ state' = IF ~flag.now THEN "FLUSH" ELSE IF flag.g \/ flag.k THEN "LOAD" ELSE "IDLE"
      /\ pulse' = None /\ cfg' = cfg /\ kpack' = kpack /\ host'.do = "run"
      /\ host'.clocks = host.clocks + 1
      /\ walk' = IF flag.now THEN WalkAdvance ELSE [walk EXCEPT !.flush = @ - 1]
  BY StateIs, WalkIs, ClockAlways DEF TileInv, SweepInv
<1>2. /\ walk.flush \in 0 .. (FLUSH - 1) /\ (flag.now <=> walk.flush = 0)
      /\ (flag.tap <=> walk.k = cfg.K - 1) /\ (flag.grp <=> walk.g = cfg.QG - 1)
      /\ flag.g <=> walk.g # cfg.QG - 1
      /\ flag.k <=> walk.g = cfg.QG - 1 /\ walk.k # cfg.K - 1
      /\ flag.ky <=> walk.g = cfg.QG - 1 /\ walk.k # cfg.K - 1 /\ walk.kx = 2 /\ walk.ky # 2
      /\ flag.ic <=> walk.g = cfg.QG - 1 /\ walk.k # cfg.K - 1 /\ walk.kx = 2 /\ walk.ky = 2
  BY DEF TileInv, SweepInv
<1>3. /\ walk.g \in 0 .. (cfg.QG - 1)
      /\ cfg.QG \in Nat \ {0} /\ cfg.P \in Nat \ {0} /\ cfg.Cb \in Nat \ {0}
      /\ cfg.K = 9 * cfg.Cb /\ kpack \in BOOLEAN
  BY DEF TileInv, SweepInv, GeomInv
<1>4. /\ FLUSH' = FLUSH /\ Lap' = Lap /\ Taps' = Taps
      /\ FLUSH \in Nat /\ Lap \in Int /\ Taps \in Int /\ FLUSH >= 5
  BY <1>1, <1>3, FlushIs DEF FLUSH, Lap, Taps
<1>5. CASE ~flag.now
  <2>1. /\ walk'.k = walk.k /\ walk'.kx = walk.kx /\ walk'.ky = walk.ky /\ walk'.g = walk.g
        /\ walk'.flush = walk.flush - 1
    BY <1>1, <1>5 DEF TileInv, ShapeInv, IsRecord
  <2>2. state' = "FLUSH" /\ InLap = 1 + cfg.P + FLUSH - walk.flush /\ InLap' = InLap + 1
        /\ InLap \in Int
    <3>1. state' = "FLUSH"
      BY <1>1, <1>5
    <3>2. InLap' = 1 + cfg.P + FLUSH - walk'.flush
      BY <1>1, <1>4, <3>1 DEF InLap
    <3> QED BY <1>2, <1>3, <1>4, <2>1, <3>1, <3>2 DEF InLap
  <2>3. /\ host'.do = "run" /\ walk'.g \in 0 .. (cfg'.QG - 1)
        /\ \E n \in 0 .. (Taps' - 1) :
             TapAt(n)' /\ host'.clocks = (n * cfg'.QG + walk'.g) * Lap' + InLap'
    BY <2>1, <2>2, LapGoesOn
  <2>4. /\ flag'.tap <=> walk.k = cfg.K - 1
        /\ flag'.grp <=> walk.g = cfg.QG - 1
        /\ flag'.now <=> walk.flush = 1
        /\ flag'.g <=> ~flag.grp
        /\ flag'.k <=> flag.grp /\ ~flag.tap
        /\ flag'.ky <=> flag.grp /\ ~flag.tap /\ walk.kx = 2 /\ walk.ky # 2
        /\ flag'.ic <=> flag.grp /\ ~flag.tap /\ walk.kx = 2 /\ walk.ky = 2
    BY ClockAlways, FlagIs
  <2>5. (flag'.tap <=> walk'.k = cfg'.K - 1) /\ (flag'.grp <=> walk'.g = cfg'.QG - 1)
    BY <1>1, <2>1, <2>4
  <2>6. walk'.flush \in 0 .. (FLUSH' - 1) /\ (flag'.now <=> walk'.flush = 0)
    BY <1>2, <1>4, <1>5, <2>1, <2>4
  <2>7. LET lastg == walk'.g = cfg'.QG - 1
            more  == lastg /\ walk'.k # cfg'.K - 1
        IN /\ (flag'.g <=> ~lastg) /\ (flag'.k <=> more)
           /\ flag'.ky <=> more /\ walk'.kx = 2 /\ walk'.ky # 2
           /\ flag'.ic <=> more /\ walk'.kx = 2 /\ walk'.ky = 2
    BY <1>1, <1>2, <2>1, <2>4
  <2> QED BY <1>1, <2>2, <2>3, <2>5, <2>6, <2>7, Constants DEF SweepInv
<1>6. CASE flag.now /\ ~flag.g /\ ~flag.k
  BY <1>1, <1>6, Constants DEF SweepInv
<1>7. CASE flag.now /\ (flag.g \/ flag.k)
  <2>1. state' = "LOAD" /\ walk' = WalkAdvance
    BY <1>1, <1>7
  <2>2. PICK n \in 0 .. (Taps - 1) :
          TapAt(n) /\ host.clocks = (n * cfg.QG + walk.g) * Lap + InLap
    BY DEF TileInv, SweepInv
  <2> DEFINE x == n * cfg.QG + walk.g
  <2>3. n * cfg.QG \in Int /\ (n + 1) * cfg.QG = n * cfg.QG + cfg.QG
    BY <1>3, <1>4, LapMore
  <2>4. host'.clocks = (x + 1) * Lap + 1
    <3>1. x \in Int /\ InLap = Lap
      BY <1>2, <1>3, <1>4, <1>7, <2>3 DEF InLap, Lap
    <3>2. x * Lap \in Int /\ (x + 1) * Lap = x * Lap + Lap
      BY <3>1, <1>4, LapMore
    <3> HIDE DEF x
    <3>3. host.clocks = x * Lap + Lap
      BY <3>1, <2>2 DEF x
    <3> QED BY <3>2, <3>3, <1>1, <1>4
  <2>5. InLap' = 1
    BY <2>1 DEF InLap
  <2>6. CASE flag.g
    <3>1. /\ walk'.g = walk.g + 1 /\ walk'.k = walk.k /\ walk'.kx = walk.kx
          /\ walk'.ky = walk.ky
      BY <2>1, <2>6, AdvanceIs DEF TileInv
    <3>2. TapAt(n)'
      BY <2>2, <3>1, <1>1 DEF TapAt
    <3>3. walk'.g \in 0 .. (cfg'.QG - 1) /\ n * cfg'.QG + walk'.g = x + 1
      <4>1. walk.g # cfg.QG - 1
        BY <1>2, <2>6
      <4>2. walk.g + 1 \in 0 .. (cfg.QG - 1)
        BY <1>3, <4>1
      <4>3. n * cfg.QG + (walk.g + 1) = n * cfg.QG + walk.g + 1
        BY <1>3, <2>3
      <4> QED BY <1>1, <3>1, <4>2, <4>3
    <3> QED BY <1>1, <1>4, <2>1, <2>2, <2>4, <2>5, <3>2, <3>3, Constants DEF SweepInv
  <2>7. CASE ~flag.g
    <3>1. walk.g = cfg.QG - 1 /\ walk.k # cfg.K - 1 /\ flag.k
      BY <1>2, <1>7, <2>7
    <3>2. /\ walk'.g = 0
          /\ walk'.k = walk.k + (IF kpack /\ ~KpTail THEN 2 ELSE 1)
          /\ kpack => walk'.kx = IF KpTail THEN 0 ELSE 2
          /\ walk'.ky = IF walk.kx = 2 /\ walk.ky # 2 THEN walk.ky + 1
                        ELSE IF walk.kx = 2 /\ walk.ky = 2 THEN 0 ELSE walk.ky
      BY <1>2, <2>1, <2>7, <3>1, AdvanceIs DEF TileInv
    <3>3. n + 1 \in 0 .. (Taps - 1) /\ TapAt(n + 1)'
      <4>1. GeomInv
        BY DEF TileInv
      <4>2. /\ n + 1 \in 0 .. (Taps - 1)
            /\ IF kpack
               THEN /\ walk'.ky \in 0 .. 2 /\ walk'.kx \in {0, 2}
                    /\ \E ic \in 0 .. (cfg.Cb - 1) :
                         /\ walk'.k = 9 * ic + 3 * walk'.ky + walk'.kx
                         /\ n + 1 = 6 * ic + 2 * walk'.ky + (IF walk'.kx = 2 THEN 1 ELSE 0)
               ELSE walk'.k = n + 1 /\ n + 1 \in 0 .. (cfg.K - 1)
        BY <4>1, <2>2, <3>1, <3>2, NextTap
      <4> QED BY <4>2, <1>1 DEF TapAt
    <3>4. walk'.g \in 0 .. (cfg'.QG - 1) /\ (n + 1) * cfg'.QG + walk'.g = x + 1
      BY <1>1, <1>3, <2>3, <3>1, <3>2
    <3> QED BY <1>1, <1>4, <2>1, <2>4, <2>5, <3>3, <3>4, Constants DEF SweepInv
  <2> QED BY <2>6, <2>7
<1> QED BY <1>5, <1>6, <1>7

LEMMA RunClock ==
  ASSUME TileInv, Clock, state = "IDLE", pulse = "run"
  PROVE  SweepInv'
<1>1. /\ state' = "LOAD" /\ pulse' = None /\ cfg' = cfg /\ kpack' = kpack
      /\ host'.do = "run" /\ host'.clocks = 1
  BY StateIs, ClockAlways DEF TileInv, SweepInv
<1>2. walk'.k = 0 /\ walk'.kx = 0 /\ walk'.ky = 0 /\ walk'.g = 0
  BY WalkIs, ClockAlways DEF WalkReset
<1>3. /\ cfg.QG \in Nat \ {0} /\ cfg.P \in Nat \ {0} /\ cfg.Cb \in Nat \ {0}
      /\ cfg.K = 9 * cfg.Cb /\ kpack \in BOOLEAN /\ Lap \in Int
  BY FlushIs DEF TileInv, GeomInv, Lap
<1>4. 0 \in 0 .. (Taps' - 1) /\ Lap' = Lap
  BY <1>1, <1>3 DEF Taps, Lap, FLUSH
<1>5. TapAt(0)'
  <2>1. 0 \in 0 .. (cfg.Cb - 1) /\ 0 \in 0 .. (cfg.K - 1)
    BY <1>3
  <2> QED BY <1>1, <1>2, <2>1 DEF TapAt
<1>6. host'.clocks = (0 * cfg'.QG + walk'.g) * Lap' + InLap'
  BY <1>1, <1>2, <1>3, <1>4 DEF InLap
<1> QED BY <1>1, <1>2, <1>3, <1>4, <1>5, <1>6, Constants DEF SweepInv

\* The sweep keeps its count.
LEMMA ClockSweeps == TileInv /\ Clock => SweepInv'
<1> SUFFICES ASSUME TileInv, Clock PROVE SweepInv'
  OBVIOUS
<1>1. CASE state \notin {"LOAD", "SWEEP", "FLUSH"} /\ ~(state = "IDLE" /\ pulse = "run")
  <2>1. state \in {"IDLE", "DISS", "DWAIT", "DHOLD"}
    BY <1>1 DEF TileInv, ReadInv
  <2>2. state' \in {"IDLE", "DISS", "DWAIT", "DHOLD"} /\ pulse' = None
    BY <1>1, <2>1, StateIs, ClockAlways
  <2> QED BY <2>2, Constants DEF SweepInv
<1> QED BY <1>1, LoadClock, SweepClock, FlushClock, RunClock

-----------------------------------------------------------------------------
\* Which word of a readout is the last.

LEMMA Radix ==
  ASSUME NEW A \in Nat \ {0}, NEW B \in Nat \ {0}, NEW a \in 0 .. (A - 1), NEW b \in 0 .. (B - 1)
  PROVE  /\ a * B + b \in Nat /\ A * B \in Nat /\ a * B + b < A * B
         /\ a = A - 1 => a * B + b = A * B - B + b
         /\ a # A - 1 => a * B + b + B < A * B
<1>1. a * B \in Nat /\ A * B \in Nat
  OBVIOUS
<1>2. A * B = a * B + (A - a) * B /\ (A - a) * B \in Nat
  OBVIOUS
<1>3. a = A - 1 => (A - a) * B = B
  OBVIOUS
<1>4. a # A - 1 => (A - a) * B >= 2 * B
  <2> SUFFICES ASSUME a # A - 1 PROVE (A - a) * B >= 2 * B
    OBVIOUS
  <2>1. PICK k \in Nat : A - a = k + 2
    OBVIOUS
  <2>2. k * B \in Nat /\ (k + 2) * B = k * B + 2 * B
    OBVIOUS
  <2> QED BY <2>1, <2>2
<1> QED BY <1>1, <1>2, <1>3, <1>4

\* The walk is inside the block, and at its last word only where all three say so.
LEMMA WalkBounds ==
  ASSUME GeomInv, InWalk
  PROVE  /\ WalkIndex \in Nat /\ cfg.nacc \in Nat /\ WalkIndex < cfg.nacc
         /\ LastJ /\ LastG => WalkIndex + cfg.P = cfg.nacc + dwalk.p
         /\ ~(LastJ /\ LastG) => WalkIndex + cfg.P < cfg.nacc
<1>1. /\ cfg.P \in Nat \ {0} /\ cfg.QG \in Nat \ {0} /\ NMAC \in Nat \ {0}
      /\ cfg.nacc = cfg.P * (cfg.QG * NMAC)
  BY Constants DEF GeomInv
<1>2. /\ dwalk.p \in 0 .. (cfg.P - 1) /\ dwalk.j \in 0 .. (NMAC - 1)
      /\ dwalk.g \in 0 .. (cfg.QG - 1)
  BY DEF InWalk, Lanes
<1> DEFINE c == dwalk.g * NMAC + dwalk.j
<1> DEFINE C == cfg.QG * NMAC
<1>3. /\ c \in Nat /\ C \in Nat /\ c < C
      /\ dwalk.g = cfg.QG - 1 => c = C - NMAC + dwalk.j
      /\ dwalk.g # cfg.QG - 1 => c + NMAC < C
  BY <1>1, <1>2, Radix
<1>4. c = C - 1 <=> LastJ /\ LastG
  BY <1>1, <1>2, <1>3 DEF LastJ, LastG
<1>5. WalkIndex = c * cfg.P + dwalk.p
  BY DEF WalkIndex
<1> HIDE DEF c, C
<1>6. c \in 0 .. (C - 1) /\ C \in Nat \ {0}
  BY <1>3
<1>7. /\ c * cfg.P + dwalk.p \in Nat /\ C * cfg.P \in Nat /\ c * cfg.P + dwalk.p < C * cfg.P
      /\ c = C - 1 => c * cfg.P + dwalk.p = C * cfg.P - cfg.P + dwalk.p
      /\ c # C - 1 => c * cfg.P + dwalk.p + cfg.P < C * cfg.P
  BY <1>1, <1>2, <1>6, Radix
<1>8. cfg.nacc = C * cfg.P
  BY <1>1, <1>6 DEF C
<1> QED BY <1>1, <1>2, <1>4, <1>5, <1>7, <1>8

\* n words on, and at the end of the block only from its last place.
LEMMA WalkGoesOn ==
  ASSUME GeomInv, InWalk, cfg' = cfg, NEW n \in {1, 2}, dwalk.p + n <= cfg.P,
         dwalk.p # cfg.P - n =>
           dwalk'.p = dwalk.p + n /\ dwalk'.j = dwalk.j /\ dwalk'.g = dwalk.g,
         dwalk.p = cfg.P - n =>
           /\ dwalk'.p = 0 /\ dwalk'.j = IF LastJ THEN 0 ELSE dwalk.j + 1
           /\ dwalk'.g = IF LastJ /\ ~LastG THEN dwalk.g + 1 ELSE dwalk.g
  PROVE  LET over == dwalk.p = cfg.P - n /\ LastJ /\ LastG IN
         /\ over => WalkIndex + n = cfg.nacc
         /\ ~over => /\ InWalk' /\ WalkIndex' = WalkIndex + n /\ WalkIndex + n < cfg.nacc
                     /\ dwalk'.p = IF dwalk.p = cfg.P - n THEN 0 ELSE dwalk.p + n
<1> DEFINE a == dwalk.p = cfg.P - n
<1> DEFINE b == LastJ
<1> DEFINE c == LastG
<1>1. /\ cfg.P \in Nat \ {0} /\ cfg.QG \in Nat \ {0} /\ NMAC \in Nat \ {0}
      /\ dwalk.p \in 0 .. (cfg.P - 1) /\ dwalk.j \in 0 .. (NMAC - 1)
      /\ dwalk.g \in 0 .. (cfg.QG - 1)
  BY Constants DEF GeomInv, InWalk, Lanes
<1>2. /\ WalkIndex \in Nat /\ cfg.nacc \in Nat /\ WalkIndex < cfg.nacc
      /\ LastJ /\ LastG => WalkIndex + cfg.P = cfg.nacc + dwalk.p
      /\ ~(LastJ /\ LastG) => WalkIndex + cfg.P < cfg.nacc
  BY WalkBounds
<1>3. ASSUME a, b, c PROVE WalkIndex + n = cfg.nacc
  BY <1>1, <1>2, <1>3
<1>4. ASSUME ~a
      PROVE  /\ InWalk' /\ WalkIndex' = WalkIndex + n /\ WalkIndex + n < cfg.nacc
             /\ dwalk'.p = dwalk.p + n
  <2>1. dwalk'.p = dwalk.p + n /\ dwalk'.j = dwalk.j /\ dwalk'.g = dwalk.g
    BY <1>4
  <2>2. dwalk.p + n \in 0 .. (cfg.P - 1)
    BY <1>1, <1>4
  <2>3. (dwalk.g * NMAC + dwalk.j) * cfg.P \in Int
    BY <1>1
  <2>4. InWalk' /\ WalkIndex' = WalkIndex + n
    BY <1>1, <2>1, <2>2, <2>3 DEF InWalk, WalkIndex, Lanes
  <2> QED BY <1>1, <1>2, <2>1, <2>2, <2>4
<1>5. ASSUME a, ~(b /\ c)
      PROVE  /\ InWalk' /\ WalkIndex' = WalkIndex + n /\ WalkIndex + n < cfg.nacc
             /\ dwalk'.p = 0
  <2>1. /\ dwalk'.p = 0 /\ (b => dwalk'.j = 0) /\ (~b => dwalk'.j = dwalk.j + 1)
        /\ b => dwalk'.g = dwalk.g + 1
        /\ ~b => dwalk'.g = dwalk.g
    BY <1>5
  <2>2. InWalk'
    <3>1. b => dwalk.g # cfg.QG - 1
      BY <1>5 DEF LastG
    <3>2. ~b => dwalk.j # NMAC - 1
      BY DEF LastJ
    <3> QED BY <1>1, <2>1, <3>1, <3>2 DEF InWalk, Lanes
  <2>3. dwalk'.g * NMAC + dwalk'.j = dwalk.g * NMAC + dwalk.j + 1
    <3>1. CASE b
      <4>1. dwalk'.j = 0 /\ dwalk'.g = dwalk.g + 1 /\ dwalk.j = NMAC - 1
        BY <1>5, <2>1, <3>1 DEF LastJ
      <4>2. (dwalk.g + 1) * NMAC = dwalk.g * NMAC + NMAC /\ dwalk.g * NMAC \in Int
        BY <1>1, LapMore
      <4> QED BY <1>1, <4>1, <4>2
    <3>2. CASE ~b
      <4>1. dwalk'.j = dwalk.j + 1 /\ dwalk'.g = dwalk.g
        BY <2>1, <3>2
      <4>2. dwalk.g * NMAC \in Int
        BY <1>1
      <4> QED BY <1>1, <4>1, <4>2
    <3> QED BY <3>1, <3>2
  <2>4. WalkIndex' = WalkIndex + n
    <3> DEFINE x == dwalk.g * NMAC + dwalk.j
    <3>1. x \in Int
      BY <1>1
    <3>2. WalkIndex = x * cfg.P + dwalk.p /\ WalkIndex' = (x + 1) * cfg.P + 0
      BY <2>1, <2>3 DEF WalkIndex
    <3> HIDE DEF x
    <3>3. (x + 1) * cfg.P = x * cfg.P + cfg.P /\ x * cfg.P \in Int
      BY <1>1, <3>1, LapMore
    <3> QED BY <1>1, <1>5, <3>2, <3>3
  <2>5. WalkIndex + n < cfg.nacc
    BY <1>1, <1>2, <1>5
  <2> QED BY <2>1, <2>2, <2>4, <2>5
<1> QED BY <1>3, <1>4, <1>5

-----------------------------------------------------------------------------
\* A clock outside a readout, and the one it starts on.

\* The words of a block.
LEMMA NaccIs ==
  ASSUME GeomInv
  PROVE  cfg.nacc \in Nat \ {0} /\ (cfg.rq => cfg.nacc % 2 = 0)
<1>1. /\ cfg.P \in Nat \ {0} /\ cfg.QG \in Nat \ {0} /\ NMAC \in Nat \ {0}
      /\ cfg.nacc = cfg.P * (cfg.QG * NMAC) /\ (cfg.rq => cfg.P % 2 = 0)
  BY Constants DEF GeomInv
<1> DEFINE Q == cfg.QG * NMAC
<1>2. Q \in Nat \ {0}
  BY <1>1
<1> HIDE DEF Q
<1>3. cfg.nacc = cfg.P * Q
  BY <1>1 DEF Q
<1>4. cfg.P * Q \in Nat \ {0}
  BY <1>1, <1>2
<1>5. ASSUME cfg.P % 2 = 0 PROVE (cfg.P * Q) % 2 = 0
  <2>1. PICK h \in Nat : cfg.P = 2 * h
    BY <1>1, <1>5
  <2>2. h * Q \in Nat /\ cfg.P * Q = 2 * (h * Q)
    BY <1>2, <2>1
  <2> QED BY <2>2
<1> QED BY <1>1, <1>3, <1>4, <1>5

\* Sweeping, or with nothing to do, the tile and the serializer are not looking at each
\* other.
LEMMA SweepReads ==
  ASSUME TileInv, Clock,
         state \in {"LOAD", "SWEEP", "FLUSH"} \/ (state = "IDLE" /\ pulse = "run")
  PROVE  PlainInv' /\ QuantInv' /\ ReadInv'
<1>1. state' \in {"LOAD", "SWEEP", "FLUSH", "IDLE"} /\ pulse' = None /\ host'.do = "run"
  BY StateIs, ClockAlways DEF TileInv, SweepInv
<1>2. ~link.on /\ ~out.valid /\ ~link.under /\ pulse # "drain" /\ ShapeInv
  BY Constants DEF TileInv, ReadInv, SweepInv
<1>3. ~link'.on /\ ~link'.dv /\ ~link'.under
  BY <1>2, LinkIs, ClockAlways
<1>4. ~out'.valid
  <2>1. Readout
    BY DEF Clock
  <2>2. out' = out \/ out' = [out EXCEPT !.valid = FALSE, !.end = @ /\ pulse # "drain"]
    BY <2>1, OutIs
  <2> QED BY <1>2, <2>2 DEF ShapeInv, IsRecord
<1>5. PlainInv' /\ QuantInv'
  BY <1>1 DEF PlainInv, QuantInv, Draining
<1>6. ReadInv'
  BY <1>1, <1>3, <1>4, Constants DEF ReadInv, Draining
<1> QED BY <1>5, <1>6

\* The last word is being sent, and then the response is over.
LEMMA TailReads ==
  ASSUME TileInv, Clock, state = "IDLE", pulse = None
  PROVE  PlainInv' /\ QuantInv' /\ ReadInv'
<1>1. state' = "IDLE" /\ pulse' = None /\ host'.do = host.do /\ cfg' = cfg
  BY StateIs, ClockAlways, Constants
<1>2. link.on
  BY DEF Clock, Busy
<1>3. /\ ~out.valid /\ ~link.rdy /\ ~link.have /\ link.sent = cfg.nacc /\ ~link.under
      /\ link.n \in Nat /\ (link.dv => link.n >= 2) /\ host.do = "drain"
      /\ pulse # "drain" /\ ShapeInv
  BY <1>2, Constants DEF TileInv, ReadInv
<1>4. ~out'.valid
  <2>1. Readout
    BY DEF Clock
  <2>2. out' = [out EXCEPT !.valid = FALSE, !.end = @ /\ pulse # "drain"]
    BY <2>1, OutIs
  <2> QED BY <2>2 DEF TileInv, ShapeInv, IsRecord
<1>5. cfg.nacc \in Nat \ {0}
  BY NaccIs DEF TileInv
<1>6. ~link'.dv /\ ~link'.rdy /\ ~link'.have /\ ~link'.under /\ link'.sent = cfg.nacc
      /\ (link'.on => link'.n \in Nat)
  <2>1. link'.dv <=> out.valid
    BY <1>3, LinkIs, ClockAlways
  <2>2. CASE link.n > 1
    BY <1>2, <1>3, <2>2, LinkIs, ClockAlways
  <2>3. CASE ~(link.n > 1)
    <3>1. /\ ~link'.on /\ ~link'.rdy /\ (link'.under <=> Busy \/ link.sent = 0)
          /\ link'.sent = link.sent
      BY <1>2, <1>3, <2>3, LinkIs, ClockAlways
    <3>2. ~link'.have
      BY <1>2, <1>3, <2>3, ClockAlways DEF NextLink, ShapeInv, IsRecord
    <3> QED BY <1>3, <1>5, <2>1, <3>1, <3>2 DEF Busy, TileInv, ShapeInv
  <2> QED BY <2>2, <2>3
<1>7. PlainInv' /\ QuantInv'
  BY <1>1 DEF PlainInv, QuantInv, Draining
<1>8. ReadInv'
  BY <1>1, <1>3, <1>4, <1>5, <1>6, Constants DEF ReadInv, Draining, Ready
<1> QED BY <1>7, <1>8

LEMMA DrainingReads ==
  ASSUME state \in {"DISS", "DWAIT", "DHOLD"}, host.do = "drain", pulse = None,
         link.on, ~link.under, link.n \in Nat, link.sent \in Nat
  PROVE  ReadInv
BY Constants DEF ReadInv, Draining, Ready, Busy

LEMMA EndedReads ==
  ASSUME state = "IDLE", host.do = "drain", pulse = None, link.on, ~link.under,
         ~out.valid, ~link.rdy, ~link.have, link.sent = cfg.nacc, cfg.nacc \in Nat,
         link.n \in Nat, link.n >= 2
  PROVE  ReadInv
BY Constants DEF ReadInv, Draining, Ready, Busy

\* The two ways in.
LEMMA StartReads ==
  ASSUME TileInv, Clock, state = "IDLE", pulse = "drain"
  PROVE  PlainInv' /\ QuantInv' /\ ReadInv'
<1>1. state' = "DISS" /\ pulse' = None /\ host'.do = "drain" /\ cfg' = cfg
  BY StateIs, ClockAlways DEF TileInv, ReadInv
<1>2. ~link.on /\ ~out.valid /\ ShapeInv
  BY <1>1, Constants DEF TileInv, ReadInv
<1>3. /\ link'.on /\ link'.n = 71 /\ ~link'.have /\ link'.sent = 0 /\ ~link'.under
      /\ ~link'.rdy
  BY <1>2, LinkStarts, ClockAlways DEF HEAD
<1>4. ~out'.valid
  <2>1. Readout
    BY DEF Clock
  <2>2. out' = [out EXCEPT !.valid = FALSE, !.end = @ /\ pulse # "drain"]
    BY <2>1, OutIs
  <2> QED BY <1>2, <2>2 DEF ShapeInv, IsRecord
<1>5. dwalk'.p = 0 /\ dwalk'.j = 0 /\ dwalk'.g = 0
  BY DEF Clock, Readout
<1>6. /\ cfg.P \in Nat \ {0} /\ cfg.QG \in Nat \ {0} /\ NMAC \in Nat \ {0}
      /\ cfg.rq => cfg.P % 2 = 0
      /\ cfg.rq \in BOOLEAN
  BY Constants DEF TileInv, GeomInv
<1>7. InWalk' /\ WalkIndex' = 0
  BY <1>1, <1>5, <1>6 DEF InWalk, WalkIndex, Lanes
<1>8. ReadInv'
  <2>1. (/\ state \in {"DISS", "DWAIT", "DHOLD"} /\ host.do = "drain" /\ pulse = None
         /\ link.on /\ ~link.under /\ link.n \in Nat /\ link.sent \in Nat)'
    BY <1>1, <1>3
  <2> QED BY <2>1, DrainingReads, PTL
<1>9. PlainInv'
  BY <1>1, <1>3, <1>4, <1>7 DEF PlainInv, Awaited
<1>10. QuantInv'
  <2> SUFFICES ASSUME cfg.rq PROVE QuantInv'
    BY <1>1 DEF QuantInv
  <2>1. /\ rq'.c = 0 /\ ~rq'.done /\ rq'.wsel = 0 /\ rq'.rsel = 0 /\ rq'.half = FALSE
        /\ rq'.sf = [i \in {0, 1} |-> FALSE]
    <3>1. ~RqTake
      BY DEF RqTake, RqRun, Draining
    <3>2. /\ rq'.c = 0 /\ ~rq'.done /\ rq'.wsel = 0 /\ rq'.rsel = 0 /\ rq'.half = FALSE
      BY DEF Clock, Engine
    <3>3. rq'.sf = [i \in {0, 1} |-> FALSE]
      BY DEF Clock, Engine
    <3> QED BY <3>2, <3>3
  <2>2. Held' = 0 /\ rq'.sf \in [{0, 1} -> BOOLEAN]
    BY <2>1 DEF Held, Bit
  <2>3. BufferInv' /\ PaceInv'
    <3>1. BufferInv'
      <4>1. rq'.wsel \in {0, 1} /\ rq'.rsel \in {0, 1} /\ rq'.half \in BOOLEAN /\ ~rq'.half
        BY <2>1
      <4>2. Held' = 0 /\ ~(Held' = 1) /\ Held' # 1
        BY <2>2
      <4>3. rq'.wsel = rq'.rsel
        BY <2>1
      <4> QED BY <2>2, <4>1, <4>2, <4>3, Zenon DEF BufferInv
    <3>2. Owed' = 22
      BY <2>1 DEF Owed, RQ_DONE
    <3>3. PaceInv'
      BY <1>1, <1>3, <2>2, <3>2 DEF PaceInv
    <3> QED BY <3>1, <3>3
  <2>4. PairInv(0)'
    <3>1. cfg'.nacc \in Nat /\ 0 < cfg'.nacc
      BY <1>1, <1>6, <1>7, NaccIs DEF TileInv
    <3>2. NamesPair(0)'
      BY <1>1, <1>5, <1>7, <2>1 DEF NamesPair
    <3> QED BY <1>3, <2>1, <2>2, <3>1, <3>2 DEF PairInv, Bit, RQ_PADV
  <2>5. Awaited(3)'
    BY <1>3, <1>4 DEF Awaited
  <2> QED BY <1>1, <2>1, <2>3, <2>4, <2>5 DEF QuantInv, RQ_DONE
<1> QED BY <1>8, <1>9, <1>10

-----------------------------------------------------------------------------
\* A clock of a readout word by word.

\* What every readout has.
LEMMA InReadout ==
  ASSUME TileInv, Clock, state \in {"DISS", "DWAIT", "DHOLD"}
  PROVE  /\ host.do = "drain" /\ pulse = None /\ pulse # "drain" /\ link.on /\ ~link.under
         /\ link.n \in Nat /\ link.sent \in Nat /\ ShapeInv /\ GeomInv /\ Readout
         /\ host'.do = "drain" /\ pulse' = None /\ cfg' = cfg /\ kpack' = kpack
         /\ cfg.rq \in BOOLEAN
BY ClockAlways, Constants DEF TileInv, ReadInv, Draining, Clock, GeomInv

\* A clock in which the serializer goes on counting.
LEMMA LinkCounts ==
  ASSUME TileInv, Clock, state \in {"DISS", "DWAIT", "DHOLD"}, link.n > 1
  PROVE  /\ link'.on /\ ~link'.rdy /\ ~link'.under
         /\ link'.n = link.n - 1 /\ link'.sent = link.sent
         /\ link'.have <=> link.have \/ (out.valid /\ ~link.dv)
         /\ link'.dv <=> out.valid
BY InReadout, LinkIs, ClockAlways

\* And one in which it takes the word.
LEMMA LinkTakes ==
  ASSUME TileInv, Clock, state \in {"DISS", "DWAIT", "DHOLD"}, ~(link.n > 1), link.have, link.dv
  PROVE  /\ link'.on /\ link'.rdy /\ ~link'.under /\ ~link'.have
         /\ link'.n = WordClocks /\ link'.sent = link.sent + 1
         /\ link'.dv <=> out.valid
BY InReadout, LinkIs, ClockAlways

LEMMA PlainClock ==
  ASSUME TileInv, Clock, state \in {"DISS", "DWAIT", "DHOLD"}, ~cfg.rq
  PROVE  PlainInv' /\ QuantInv' /\ ReadInv'
<1>1. InWalk /\ QuantInv'
  BY InReadout DEF TileInv, PlainInv, QuantInv, Draining
<1>2. ~RqAdv
  BY DEF RqAdv, RqRun, RqTake
<1>3. /\ ~(state = "DHOLD" /\ link.rdy) => dwalk' = dwalk
      /\ state = "DHOLD" /\ link.rdy => dwalk' = DwalkNext(1, LastP, LastJ, LastG)
  BY <1>2, InReadout DEF Readout
<1>4. dwalk' = dwalk => InWalk' /\ WalkIndex' = WalkIndex
  BY <1>1, InReadout DEF InWalk, WalkIndex
<1>5. ASSUME state' \in {"DISS", "DWAIT", "DHOLD"}, link'.on, ~link'.under,
             link'.n \in Nat, link'.sent \in Nat
      PROVE  ReadInv'
  <2>1. (/\ state \in {"DISS", "DWAIT", "DHOLD"} /\ host.do = "drain" /\ pulse = None
         /\ link.on /\ ~link.under /\ link.n \in Nat /\ link.sent \in Nat)'
    BY <1>5, InReadout
  <2> QED BY <2>1, DrainingReads, PTL
<1>6. CASE state = "DISS"
  <2>1. Awaited(4) /\ link.sent = WalkIndex
    BY <1>6, InReadout DEF TileInv, PlainInv, Draining
  <2>2. state' = "DWAIT" /\ ~out'.valid
    BY <1>6, <2>1, StateIs, ClockAlways, InReadout, OutIs DEF Awaited
  <2>3. Awaited(3)' /\ link'.sent = WalkIndex'
    BY <1>3, <1>4, <1>6, <2>1, <2>2, LinkCounts, InReadout DEF Awaited
  <2>4. ReadInv'
    BY <1>5, <1>6, <2>1, <2>2, LinkCounts, InReadout DEF Awaited
  <2> QED BY <1>1, <1>3, <1>4, <1>6, <2>2, <2>3, <2>4 DEF PlainInv
<1>7. CASE state = "DWAIT"
  <2>1. Awaited(3) /\ link.sent = WalkIndex
    BY <1>7, InReadout DEF TileInv, PlainInv, Draining
  <2>2. state' = "DHOLD"
    BY <1>7, StateIs, ClockAlways, InReadout
  <2>3. out'.valid
    BY <1>7, OutIs, InReadout DEF ShapeInv, IsRecord
  <2>4. Offered' /\ link'.sent = WalkIndex'
    BY <1>3, <1>4, <1>7, <2>1, <2>3, LinkCounts, InReadout DEF Awaited, Offered
  <2>5. ReadInv'
    BY <1>5, <1>7, <2>1, <2>2, LinkCounts, InReadout DEF Awaited
  <2> QED BY <1>1, <1>3, <1>4, <1>7, <2>2, <2>4, <2>5 DEF PlainInv
<1>8. CASE state = "DHOLD" /\ Offered /\ link.sent = WalkIndex
  <2>1. state' = "DHOLD" /\ out' = out
    BY <1>8, StateIs, ClockAlways, InReadout, OutIs DEF Offered
  <2>2. InWalk' /\ WalkIndex' = WalkIndex
    BY <1>3, <1>4, <1>8 DEF Offered
  <2>3. CASE link.n > 1
    <3>1. Offered' /\ link'.sent = WalkIndex'
      BY <1>8, <2>1, <2>2, <2>3, LinkCounts, InReadout DEF Offered
    <3>2. ReadInv'
      BY <1>5, <1>8, <2>1, <2>3, LinkCounts, InReadout
    <3> QED BY <1>1, <2>1, <2>2, <3>1, <3>2 DEF PlainInv
  <2>4. CASE ~(link.n > 1)
    <3>1. link.have /\ link.dv /\ out.valid
      BY <1>8, <2>4, InReadout DEF Offered
    <3>2. WordClocks = 32 /\ WordClocks' = 32
      BY InReadout DEF WordClocks
    <3>3. Accepted' /\ link'.sent = WalkIndex' + 1
      BY <1>8, <2>1, <2>2, <2>4, <3>1, <3>2, LinkTakes, InReadout DEF Accepted
    <3>4. ReadInv'
      BY <1>5, <1>8, <2>1, <2>4, <3>1, <3>2, LinkTakes, InReadout
    <3> QED BY <1>1, <2>1, <2>2, <3>3, <3>4 DEF PlainInv
  <2> QED BY <2>3, <2>4
<1>9. CASE state = "DHOLD" /\ Accepted /\ link.sent = WalkIndex + 1
  <2>1. /\ link.rdy /\ link.n = 32 /\ ~link.have /\ link.dv
    BY <1>9 DEF Accepted, WordClocks
  <2>2. ~out'.valid
    BY <1>9, <2>1, OutIs, InReadout DEF ShapeInv, IsRecord
  <2>3. /\ ~link'.rdy /\ ~link'.have /\ link'.n = 31 /\ link'.sent = link.sent /\ link'.on
        /\ ~link'.under
    BY <2>1, LinkCounts
  <2>4. /\ LastP /\ LastJ /\ LastG => WalkIndex + 1 = cfg.nacc
        /\ ~(LastP /\ LastJ /\ LastG) =>
             /\ InWalk' /\ WalkIndex' = WalkIndex + 1
    <3>1. dwalk.p + 1 <= cfg.P
      BY <1>1, InReadout DEF InWalk, GeomInv
    <3>2. dwalk' = DwalkNext(1, LastP, LastJ, LastG)
      BY <1>3, <1>9, <2>1
    <3>3. /\ ~LastP => dwalk'.p = dwalk.p + 1 /\ dwalk'.j = dwalk.j /\ dwalk'.g = dwalk.g
          /\ LastP => /\ dwalk'.p = 0 /\ dwalk'.j = IF LastJ THEN 0 ELSE dwalk.j + 1
                      /\ dwalk'.g = IF LastJ /\ ~LastG THEN dwalk.g + 1 ELSE dwalk.g
      BY <3>2, InReadout DEF DwalkNext, ShapeInv, IsRecord
    <3> QED BY <1>1, <3>1, <3>3, InReadout, WalkGoesOn DEF LastP
  <2>5. state' = IF LastP /\ LastJ /\ LastG THEN "IDLE" ELSE "DISS"
    BY <1>9, <2>1, StateIs, ClockAlways
  <2>6. CASE LastP /\ LastJ /\ LastG
    <3>1. PlainInv'
      BY <2>5, <2>6 DEF PlainInv, Draining
    <3>2. (state = "IDLE" /\ host.do = "drain" /\ pulse = None /\ link.on /\ ~link.under
           /\ ~out.valid /\ ~link.rdy /\ ~link.have /\ link.sent = cfg.nacc /\ cfg.nacc \in Nat
           /\ link.n \in Nat /\ link.n >= 2)'
      BY <1>9, <2>2, <2>3, <2>4, <2>5, <2>6, InReadout, NaccIs
    <3>3. ReadInv'
      BY <3>2, EndedReads, PTL
    <3> QED BY <1>1, <3>1, <3>3
  <2>7. CASE ~(LastP /\ LastJ /\ LastG)
    <3>1. state' = "DISS"
      BY <2>5, <2>7
    <3>2. Awaited(4)' /\ link'.sent = WalkIndex' /\ InWalk'
      BY <1>9, <2>2, <2>3, <2>4, <2>7 DEF Awaited
    <3>3. ReadInv'
      BY <1>5, <2>3, <3>1, InReadout
    <3> QED BY <1>1, <3>1, <3>2, <3>3 DEF PlainInv
  <2> QED BY <2>6, <2>7
<1> QED BY <1>6, <1>7, <1>8, <1>9, InReadout DEF TileInv, PlainInv, Draining

-----------------------------------------------------------------------------
\* A clock of a readout pair by pair.

LEMMA EngineIs ==
  ASSUME Engine, Readout, RqRun
  PROVE  /\ rq'.c = IF RqTake THEN RQ_BIAS ELSE IF rq.c # RQ_DONE THEN rq.c + 1 ELSE rq.c
         /\ rq'.done <=> (rq.done \/ rq.c = RQ_LAST) /\ ~RqTake
         /\ rq'.end_c = IF RqAdv THEN rlast.pp /\ rlast.j /\ rlast.g ELSE rq.end_c
         /\ rq'.se = IF RqTake THEN [rq.se EXCEPT ![rq.wsel] = rq.end_c] ELSE rq.se
         /\ rq'.sf = [i \in {0, 1} |-> IF RqTake /\ i = rq.wsel THEN TRUE
                                       ELSE IF Freed /\ i = rq.rsel THEN FALSE ELSE rq.sf[i]]
         /\ rq'.wsel = IF RqTake THEN 1 - rq.wsel ELSE rq.wsel
         /\ rq'.rsel = IF Freed THEN 1 - rq.rsel ELSE rq.rsel
         /\ rq'.half = IF RqPop THEN ~rq.half ELSE rq.half
         /\ rlast' = [pp |-> dwalk.p = cfg.P - 2, j |-> LastJ, g |-> LastG]
         /\ dwalk' = IF RqAdv THEN DwalkNext(2, rlast.pp, rlast.j, rlast.g) ELSE dwalk
<1>1. state # "IDLE" /\ RqRun = TRUE /\ cfg.rq /\ Draining
  BY DEF RqRun, Draining
<1>2. /\ rq'.c = IF RqTake THEN RQ_BIAS ELSE IF rq.c # RQ_DONE THEN rq.c + 1 ELSE rq.c
      /\ rq'.wsel = IF RqTake THEN 1 - rq.wsel ELSE rq.wsel
      /\ rq'.rsel = IF Freed THEN 1 - rq.rsel ELSE rq.rsel
  BY <1>1 DEF Engine, Freed, RqAgain
<1>3. /\ rq'.done <=> (rq.done \/ rq.c = RQ_LAST) /\ ~RqTake
      /\ rq'.end_c = IF RqAdv THEN rlast.pp /\ rlast.j /\ rlast.g ELSE rq.end_c
      /\ rq'.se = IF RqTake THEN [rq.se EXCEPT ![rq.wsel] = rq.end_c] ELSE rq.se
      /\ rq'.half = IF RqPop THEN ~rq.half ELSE rq.half
  BY <1>1 DEF Engine
<1>4. rq'.sf = [i \in {0, 1} |-> IF RqTake /\ i = rq.wsel THEN TRUE
                                 ELSE IF Freed /\ i = rq.rsel THEN FALSE ELSE rq.sf[i]]
  BY <1>1 DEF Engine, Freed
<1>5. /\ rlast' = [pp |-> dwalk.p = cfg.P - 2, j |-> LastJ, g |-> LastG]
      /\ dwalk' = IF RqAdv THEN DwalkNext(2, rlast.pp, rlast.j, rlast.g) ELSE dwalk
  BY <1>1 DEF Readout
<1> QED BY <1>2, <1>3, <1>4, <1>5

\* The buffer by what is held.
LEMMA HeldIs ==
  ASSUME BufferInv
  PROVE  /\ Held \in 0 .. 2
         /\ Held = 0 => ~rq.sf[0] /\ ~rq.sf[1]
         /\ Held = 1 => rq.sf[rq.rsel] /\ ~rq.sf[rq.wsel]
         /\ Held = 2 => rq.sf[0] /\ rq.sf[1]
         /\ rq.sf[rq.rsel] <=> Held # 0
         /\ rq.sf[rq.wsel] <=> Held = 2
<1>1. rq.sf[0] \in BOOLEAN /\ rq.sf[1] \in BOOLEAN
  BY DEF BufferInv
<1>2. CASE ~rq.sf[0] /\ ~rq.sf[1]
  BY <1>2 DEF BufferInv, Held, Bit
<1>3. CASE rq.sf[0] /\ rq.sf[1]
  BY <1>3 DEF BufferInv, Held, Bit
<1>4. CASE rq.sf[0] /\ ~rq.sf[1]
  BY <1>4 DEF BufferInv, Held, Bit
<1>5. CASE ~rq.sf[0] /\ rq.sf[1]
  BY <1>5 DEF BufferInv, Held, Bit
<1> QED BY <1>1, <1>2, <1>3, <1>4, <1>5

\* A pair is taken as soon as it is made, unless there are two not freed.
LEMMA TakeIs ==
  ASSUME RqRun, BufferInv
  PROVE  RqTake <=> rq.done /\ (Held # 2 \/ Freed)
<1>1. rq.sf[rq.wsel] <=> Held = 2
  BY HeldIs
<1>2. Held = 2 => rq.wsel = rq.rsel
  BY DEF BufferInv
<1> QED BY <1>1, <1>2 DEF RqTake, Freed

\* A pair goes in at the back as one leaves at the front; and its mark of being the last
\* goes with it.
LEMMA BufferStep ==
  ASSUME RqRun, BufferInv, ShapeInv, Engine, Readout, RqPop => Held # 0
  PROVE  /\ Held' = Held + Bit(RqTake) - Bit(Freed)
         /\ BufferInv'
         /\ rq'.se[rq'.rsel] = IF Held = Bit(Freed) THEN (IF RqTake THEN rq.end_c
                                                          ELSE rq'.se[rq'.rsel])
                               ELSE rq.se[IF Freed THEN 1 - rq.rsel ELSE rq.rsel]
         /\ Held' = 2 => rq'.se[1 - rq'.rsel] = IF RqTake THEN rq.end_c
                                                ELSE rq.se[1 - rq.rsel]
<1>1. /\ rq.wsel \in {0, 1} /\ rq.rsel \in {0, 1} /\ rq.half \in BOOLEAN
      /\ rq.sf \in [{0, 1} -> BOOLEAN] /\ rq.se \in [{0, 1} -> BOOLEAN]
  BY DEF BufferInv, ShapeInv
<1>2. RqTake \in BOOLEAN /\ Freed \in BOOLEAN /\ (Freed => Held # 0 /\ rq.half /\ RqPop)
  BY DEF RqTake, Freed, RqRun
<1> DEFINE t == RqTake
<1> DEFINE f == Freed
<1>3. Held = 2 /\ t => f
  BY TakeIs
<1>4. /\ rq'.se = IF t THEN [rq.se EXCEPT ![rq.wsel] = rq.end_c] ELSE rq.se
      /\ rq'.sf = [i \in {0, 1} |-> IF t /\ i = rq.wsel THEN TRUE
                                    ELSE IF f /\ i = rq.rsel THEN FALSE ELSE rq.sf[i]]
      /\ rq'.wsel = IF t THEN 1 - rq.wsel ELSE rq.wsel
      /\ rq'.rsel = IF f THEN 1 - rq.rsel ELSE rq.rsel
      /\ rq'.half = IF RqPop THEN ~rq.half ELSE rq.half
  BY EngineIs
<1>5. /\ rq'.wsel \in {0, 1} /\ rq'.rsel \in {0, 1} /\ rq'.half \in BOOLEAN
      /\ rq'.sf \in [{0, 1} -> BOOLEAN]
  <2>1. rq'.wsel \in {0, 1} /\ rq'.rsel \in {0, 1} /\ rq'.half \in BOOLEAN
    <3>1. rq'.wsel \in {0, 1} /\ rq'.rsel \in {0, 1}
      BY <1>1, <1>4
    <3>2. (~rq.half) \in BOOLEAN
      OBVIOUS
    <3>3. rq'.half \in BOOLEAN
      <4>1. CASE RqPop
        BY <1>4, <4>1, <3>2
      <4>2. CASE ~RqPop
        BY <1>1, <1>4, <4>2
      <4> QED BY <4>1, <4>2
    <3> QED BY <3>1, <3>3
  <2>2. \A i \in {0, 1} : rq.sf[i] \in BOOLEAN
    BY <1>1
  <2>3. rq'.sf \in [{0, 1} -> BOOLEAN]
    BY <1>4, <2>2
  <2> QED BY <2>1, <2>3
<1> HIDE DEF t, f
<1>6. CASE Held = 0
  <2>1. ~f /\ ~rq.sf[0] /\ ~rq.sf[1] /\ rq.wsel = rq.rsel /\ ~rq.half /\ ~RqPop
    BY <1>2, <1>6, HeldIs DEF BufferInv, f
  <2>2. rq'.rsel = rq.rsel /\ rq'.half = rq.half
    BY <1>4, <2>1
  <2>3. CASE t
    <3>1. /\ rq'.sf[rq.wsel] /\ ~rq'.sf[1 - rq.wsel] /\ rq'.wsel = 1 - rq.wsel
          /\ rq'.se[rq.wsel] = rq.end_c
      BY <1>1, <1>4, <2>1, <2>3
    <3> QED BY <1>1, <1>2, <1>5, <1>6, <2>1, <2>2, <2>3, <3>1 DEF t, f, Held, Bit, BufferInv
  <2>4. CASE ~t
    <3>1. ~rq'.sf[0] /\ ~rq'.sf[1] /\ rq'.wsel = rq.wsel
      BY <1>1, <1>4, <2>1, <2>4
    <3> QED BY <1>1, <1>2, <1>5, <1>6, <2>1, <2>2, <2>4, <3>1 DEF t, f, Held, Bit, BufferInv
  <2> QED BY <2>3, <2>4
<1>7. CASE Held = 1
  <2>1. rq.sf[rq.rsel] /\ ~rq.sf[rq.wsel] /\ rq.wsel # rq.rsel /\ rq.wsel = 1 - rq.rsel
    BY <1>1, <1>7, HeldIs DEF BufferInv
  <2>2. (rq'.sf[rq.wsel] <=> t) /\ (rq'.sf[rq.rsel] <=> ~f)
    BY <1>1, <1>4, <2>1
  <2>3. /\ t => rq'.se[rq.wsel] = rq.end_c
        /\ rq'.se[rq.rsel] = rq.se[rq.rsel]
    BY <1>1, <1>4, <2>1
  <2>4. Held' = Bit(t) + Bit(~f)
    BY <1>1, <2>1, <2>2 DEF Held, Bit
  <2>5. f => ~rq'.half
    BY <1>2, <1>4 DEF f
  <2>6. Held' = 1 + Bit(t) - Bit(f)
    BY <2>4, <1>2 DEF Bit, t, f
  <2>7. BufferInv'
    <3>1. Held' = 1 => (t <=> f)
      BY <2>6, <1>2 DEF Bit, t, f
    <3>2. Held' # 1 => (t <=> ~f)
      BY <2>6, <1>2 DEF Bit, t, f
    <3>3. Held' = 0 => f
      BY <2>6, <1>2 DEF Bit, t, f
    <3>4. Held' = 1 => rq'.sf[rq'.rsel] /\ rq'.wsel # rq'.rsel
      BY <1>1, <1>2, <1>4, <2>1, <2>2, <3>1
    <3>5. Held' # 1 => rq'.wsel = rq'.rsel
      BY <1>1, <1>2, <1>4, <2>1, <3>2
    <3> QED BY <1>5, <2>5, <3>3, <3>4, <3>5 DEF BufferInv
  <2>8. rq'.se[rq'.rsel] = IF 1 = Bit(f) THEN (IF t THEN rq.end_c ELSE rq'.se[rq'.rsel])
                           ELSE rq.se[IF f THEN 1 - rq.rsel ELSE rq.rsel]
    BY <1>4, <2>1, <2>3 DEF Bit
  <2>9. Held' = 2 => t /\ ~f
    BY <2>6, <1>2 DEF Bit, t, f
  <2>10. Held' = 2 => rq'.se[1 - rq'.rsel] = IF t THEN rq.end_c ELSE rq.se[1 - rq.rsel]
    BY <1>4, <2>1, <2>3, <2>9
  <2> QED BY <1>7, <2>6, <2>7, <2>8, <2>10 DEF t, f
<1>8. CASE Held = 2
  <2>1. rq.sf[0] /\ rq.sf[1] /\ rq.wsel = rq.rsel
    BY <1>8, HeldIs DEF BufferInv
  <2>2. CASE ~f
    <3>1. ~t
      BY <1>3, <1>8, <2>2
    <3>2. rq'.sf[0] /\ rq'.sf[1] /\ rq'.se = rq.se /\ rq'.wsel = rq.wsel /\ rq'.rsel = rq.rsel
      BY <1>4, <2>1, <2>2, <3>1
    <3> QED BY <1>1, <1>5, <1>8, <2>1, <2>2, <3>1, <3>2 DEF t, f, Held, Bit, BufferInv
  <2>3. CASE f /\ t
    <3>1. /\ rq'.sf[0] /\ rq'.sf[1] /\ rq'.rsel = 1 - rq.rsel /\ rq'.wsel = 1 - rq.rsel
          /\ rq'.se[rq.rsel] = rq.end_c /\ rq'.se[1 - rq.rsel] = rq.se[1 - rq.rsel]
      BY <1>1, <1>4, <2>1, <2>3
    <3>2. 1 - (1 - rq.rsel) = rq.rsel
      BY <1>1
    <3> QED BY <1>1, <1>5, <1>8, <2>1, <2>3, <3>1, <3>2 DEF t, f, Held, Bit, BufferInv
  <2>4. CASE f /\ ~t
    <3>1. /\ ~rq'.sf[rq.rsel] /\ rq'.sf[1 - rq.rsel] /\ rq'.rsel = 1 - rq.rsel
          /\ rq'.wsel = rq.rsel /\ rq'.se = rq.se
      BY <1>1, <1>4, <2>1, <2>4
    <3> QED BY <1>1, <1>5, <1>8, <2>1, <2>4, <3>1 DEF t, f, Held, Bit, BufferInv
  <2> QED BY <2>2, <2>3, <2>4
<1> QED BY <1>6, <1>7, <1>8, HeldIs

\* What a readout pair by pair has.
LEMMA InQuant ==
  ASSUME TileInv, Clock, Draining, cfg.rq
  PROVE  /\ rq.c \in 0 .. 22 /\ (rq.done <=> rq.c = 22)
         /\ BufferInv /\ PaceInv /\ RqRun /\ Engine /\ Readout /\ ShapeInv /\ GeomInv
         /\ state \in {"DISS", "DWAIT"} => Awaited(3)
         /\ state = "DISS" => rq.c = 0
         /\ state = "DHOLD" => (Offered \/ Accepted) /\ (out.end <=> rq.se[rq.rsel] /\ rq.half)
         /\ RqPop <=> link.rdy
         /\ RqPop => Held # 0 /\ state = "DHOLD"
         /\ RqAdv <=> rq.c = 6 \/ RqTake
<1>1. /\ rq.c \in 0 .. 22 /\ (rq.done <=> rq.c = 22)
      /\ BufferInv /\ PaceInv
      /\ state \in {"DISS", "DWAIT"} => Awaited(3)
      /\ state = "DISS" => rq.c = 0
      /\ state = "DHOLD" => (Offered \/ Accepted) /\ (out.end <=> rq.se[rq.rsel] /\ rq.half)
  BY DEF TileInv, QuantInv, RQ_DONE
<1>2. RqRun /\ Engine /\ Readout /\ ShapeInv /\ GeomInv
  BY DEF RqRun, Clock, TileInv
<1>3. RqPop <=> state = "DHOLD" /\ link.rdy
  BY DEF RqPop
<1>4. state \in {"DISS", "DWAIT"} => ~link.rdy
  BY <1>1 DEF Awaited
<1>5. state = "DHOLD" => Held # 0
  BY <1>1 DEF PaceInv
<1>6. RqAdv <=> rq.c = 6 \/ RqTake
  BY <1>2 DEF RqAdv, RQ_PADV
<1> QED BY <1>1, <1>2, <1>3, <1>4, <1>5, <1>6 DEF Draining

\* The engine's walk: stepped, it is two words on; left alone, what is registered of it
\* is of where it is.
LEMMA NameStep ==
  ASSUME TileInv, Clock, Draining, cfg.rq, NEW i \in Nat, NamesPair(i)
  PROVE  /\ ~RqAdv => NamesPair(i)'
         /\ RqAdv /\ i < cfg.nacc /\ (rq.c = 6 \/ rq.c = 22) =>
              /\ NamesPair(i + 2)'
              /\ rq'.end_c <=> i + 2 = cfg.nacc
<1>1. cfg' = cfg /\ GeomInv /\ ShapeInv /\ cfg.P \in Nat \ {0} /\ cfg.P % 2 = 0
  BY ClockAlways DEF TileInv, GeomInv
<1>2. /\ rlast' = [pp |-> dwalk.p = cfg.P - 2, j |-> LastJ, g |-> LastG]
      /\ dwalk' = IF RqAdv THEN DwalkNext(2, rlast.pp, rlast.j, rlast.g) ELSE dwalk
      /\ rq'.end_c = IF RqAdv THEN rlast.pp /\ rlast.j /\ rlast.g ELSE rq.end_c
      /\ rq'.c = IF RqTake THEN RQ_BIAS ELSE IF rq.c # RQ_DONE THEN rq.c + 1 ELSE rq.c
  BY InQuant, EngineIs
<1>3. ASSUME ~RqAdv PROVE NamesPair(i)'
  <2>1. dwalk' = dwalk
    BY <1>2, <1>3
  <2>2. (LastJ <=> LastJ') /\ (LastG <=> LastG') /\ (InWalk <=> InWalk')
        /\ WalkIndex' = WalkIndex
    BY <1>1, <2>1 DEF LastJ, LastG, InWalk, WalkIndex
  <2>3. /\ rlast'.pp <=> dwalk'.p = cfg'.P - 2
        /\ rlast'.j <=> LastJ'
        /\ rlast'.g <=> LastG'
    BY <1>1, <1>2, <2>1, <2>2
  <2> QED BY <1>1, <2>1, <2>2, <2>3 DEF NamesPair
<1>4. ASSUME RqAdv, i < cfg.nacc, rq.c = 6 \/ rq.c = 22
      PROVE  NamesPair(i + 2)' /\ (rq'.end_c <=> i + 2 = cfg.nacc)
  <2>1. /\ InWalk /\ dwalk.p % 2 = 0 /\ WalkIndex = i
        /\ rlast.pp <=> dwalk.p = cfg.P - 2
        /\ rlast.j <=> LastJ
        /\ rlast.g <=> LastG
    BY <1>4 DEF NamesPair, RQ_PADV, RQ_BIAS
  <2>2. dwalk' = DwalkNext(2, rlast.pp, rlast.j, rlast.g)
    BY <1>2, <1>4
  <2>3. /\ dwalk.p # cfg.P - 2 =>
             dwalk'.p = dwalk.p + 2 /\ dwalk'.j = dwalk.j /\ dwalk'.g = dwalk.g
        /\ dwalk.p = cfg.P - 2 =>
             /\ dwalk'.p = 0 /\ dwalk'.j = IF LastJ THEN 0 ELSE dwalk.j + 1
             /\ dwalk'.g = IF LastJ /\ ~LastG THEN dwalk.g + 1 ELSE dwalk.g
    BY <1>1, <2>1, <2>2 DEF DwalkNext, ShapeInv, IsRecord
  <2>4. dwalk.p \in Nat /\ dwalk.p + 2 <= cfg.P
    BY <1>1, <2>1 DEF InWalk
  <2> DEFINE over == dwalk.p = cfg.P - 2 /\ LastJ /\ LastG
  <2>5. /\ over => WalkIndex + 2 = cfg.nacc
        /\ ~over => /\ InWalk' /\ WalkIndex' = WalkIndex + 2 /\ WalkIndex + 2 < cfg.nacc
                    /\ dwalk'.p = IF dwalk.p = cfg.P - 2 THEN 0 ELSE dwalk.p + 2
    BY <1>1, <2>1, <2>3, <2>4, WalkGoesOn
  <2>6. rq'.end_c <=> over
    BY <1>2, <1>4, <2>1
  <2>7. cfg.nacc \in Nat
    BY <1>1, NaccIs
  <2> HIDE DEF over
  <2>8. rq'.end_c <=> i + 2 = cfg.nacc
    BY <2>1, <2>5, <2>6, <2>7
  <2>9. rq'.c \in {RQ_BIAS, RQ_PADV + 1}
    BY <1>2, <1>4, InQuant DEF RQ_BIAS, RQ_PADV, RQ_DONE
  <2>10. NamesPair(i + 2)'
    <3>1. CASE i + 2 < cfg.nacc
      <4>1. ~over
        BY <2>1, <2>5, <2>7, <3>1
      <4>2. InWalk' /\ WalkIndex' = i + 2 /\ dwalk'.p % 2 = 0
        BY <2>1, <2>4, <2>5, <4>1
      <4> QED BY <2>9, <4>2 DEF NamesPair
    <3>2. CASE ~(i + 2 < cfg.nacc)
      BY <1>1, <3>2 DEF NamesPair
    <3> QED BY <3>1, <3>2
  <2> QED BY <2>8, <2>10
<1> QED BY <1>3, <1>4

\* The pairs stay in order.
LEMMA PairStep ==
  ASSUME TileInv, Clock, Draining, cfg.rq, NEW r \in Nat, PairInv(r),
         ~(RqPop /\ rq.se[rq.rsel] /\ rq.half)
  PROVE  \E x \in Nat : PairInv(x)'
<1> DEFINE t == RqTake
<1> DEFINE f == Freed
<1>1. /\ rq.c \in 0 .. 22 /\ (rq.done <=> rq.c = 22) /\ BufferInv
      /\ RqPop <=> link.rdy
      /\ RqPop => Held # 0
      /\ RqAdv <=> rq.c = 6 \/ t
      /\ f <=> RqPop /\ rq.half
      /\ link.sent \in Nat /\ link.n \in Nat /\ cfg' = cfg
      /\ cfg.nacc \in Nat /\ cfg.nacc % 2 = 0
      /\ state \in {"DISS", "DWAIT", "DHOLD"}
  BY InQuant, InReadout, NaccIs DEF Freed, Draining
<1>2. Held \in 0 .. 2 /\ Bit(f) \in {0, 1}
  BY <1>1, HeldIs DEF Bit
<1>3. PICK w \in Nat : w = r + Held
  BY <1>2
<1>4. PICK rr \in Nat : rr = r + Bit(f)
  BY <1>2
<1>5. /\ link.sent = 2 * r + Bit(rq.half) + Bit(link.rdy)
      /\ 2 * r < cfg.nacc
      /\ rq.c <= 6 => w = 0 /\ NamesPair(0)
      /\ rq.c > 6 => /\ NamesPair(2 * (w + 1))
                     /\ 2 * w < cfg.nacc => (rq.end_c <=> 2 * w + 2 = cfg.nacc)
      /\ w > 0 => rq.c >= 8
      /\ Held > 0 => (rq.se[rq.rsel] <=> 2 * r + 2 = cfg.nacc)
      /\ Held = 2 /\ 2 * r + 2 < cfg.nacc => (rq.se[1 - rq.rsel] <=> 2 * r + 4 = cfg.nacc)
  BY <1>3 DEF PairInv, RQ_PADV, RQ_BIAS
<1>6. /\ Held' = Held + Bit(t) - Bit(f) /\ Held \in 0 .. 2
      /\ t <=> rq.c = 22 /\ (Held # 2 \/ f)
      /\ rq'.c = IF t THEN 8 ELSE IF rq.c # 22 THEN rq.c + 1 ELSE rq.c
      /\ ~RqAdv => (rq'.end_c <=> rq.end_c)
      /\ rq'.half <=> IF RqPop THEN ~rq.half ELSE rq.half
      /\ rq'.se[rq'.rsel] = IF Held = Bit(f) THEN (IF t THEN rq.end_c
                                                   ELSE rq'.se[rq'.rsel])
                            ELSE rq.se[IF f THEN 1 - rq.rsel ELSE rq.rsel]
      /\ Held' = 2 => rq'.se[1 - rq'.rsel] = IF t THEN rq.end_c ELSE rq.se[1 - rq.rsel]
  <2>1. /\ Held' = Held + Bit(t) - Bit(f)
        /\ rq'.se[rq'.rsel] = IF Held = Bit(f) THEN (IF t THEN rq.end_c
                                                     ELSE rq'.se[rq'.rsel])
                              ELSE rq.se[IF f THEN 1 - rq.rsel ELSE rq.rsel]
        /\ Held' = 2 => rq'.se[1 - rq'.rsel] = IF t THEN rq.end_c ELSE rq.se[1 - rq.rsel]
    BY InQuant, BufferStep
  <2>2. Held \in 0 .. 2
    BY <1>1, HeldIs
  <2>3. t <=> rq.c = 22 /\ (Held # 2 \/ f)
    BY <1>1, InQuant, TakeIs
  <2>4. /\ rq'.c = IF t THEN 8 ELSE IF rq.c # 22 THEN rq.c + 1 ELSE rq.c
        /\ ~RqAdv => (rq'.end_c <=> rq.end_c)
        /\ rq'.half <=> IF RqPop THEN ~rq.half ELSE rq.half
    BY InQuant, EngineIs DEF RQ_BIAS, RQ_DONE
  <2> QED BY <2>1, <2>2, <2>3, <2>4
<1>7. PICK h \in Nat : cfg.nacc = 2 * h
  BY <1>1
<1>8. PICK bt \in {0, 1} : bt = Bit(t) /\ (t => bt = 1) /\ (~t => bt = 0)
  BY DEF Bit
<1>9. PICK bf \in {0, 1} : bf = Bit(f) /\ (f => bf = 1) /\ (~f => bf = 0)
  BY DEF Bit
<1>10. /\ f => Held # 0 /\ ~rq.se[rq.rsel] /\ RqPop /\ rq.half
       /\ rr = r + bf /\ rr + Held' = w + bt /\ Held' = Held + bt - bf
       /\ Held \in 0 .. 2 /\ Held' \in 0 .. 2 /\ rr \in Nat /\ w \in Nat /\ w = r + Held
       /\ t => rq.c = 22 /\ bt = 1
       /\ ~t => bt = 0
       /\ f => bf = 1
       /\ ~f => bf = 0
       /\ Held = Bit(f) <=> Held = bf
  <2>1. f => Held # 0 /\ ~rq.se[rq.rsel] /\ RqPop /\ rq.half
    BY <1>1
  <2>2. rr = r + bf /\ Held' = Held + bt - bf
    BY <1>6, <1>4, <1>8, <1>9
  <2>3. f => Held # 0
    BY <2>1
  <2>4. bt = 1 /\ Held = 2 => bf = 1
    BY <1>6, <1>8, <1>9
  <2>5. Held' \in 0 .. 2
    BY <1>6, <1>8, <1>9, <2>2, <2>3, <2>4
  <2> QED BY <1>6, <1>3, <1>4, <1>8, <1>9, <2>1, <2>2, <2>5
<1>11. /\ ~RqAdv => (rq.c <= 6 => NamesPair(0)') /\ (rq.c > 6 => NamesPair(2 * (w + 1))')
       /\ rq.c = 6 /\ 0 < cfg.nacc => NamesPair(2)' /\ (rq'.end_c <=> 2 = cfg.nacc)
       /\ t /\ 2 * (w + 1) < cfg.nacc =>
            NamesPair(2 * (w + 1) + 2)' /\ (rq'.end_c <=> 2 * (w + 1) + 2 = cfg.nacc)
  <2>1. ASSUME rq.c <= 6
        PROVE  /\ ~RqAdv => NamesPair(0)'
               /\ rq.c = 6 /\ 0 < cfg.nacc => NamesPair(2)' /\ (rq'.end_c <=> 2 = cfg.nacc)
    <3>1. NamesPair(0) /\ 0 \in Nat /\ 0 + 2 = 2
      BY <1>5, <2>1
    <3> QED BY <1>1, <3>1, NameStep
  <2>2. ASSUME rq.c > 6
        PROVE  /\ ~RqAdv => NamesPair(2 * (w + 1))'
               /\ t /\ 2 * (w + 1) < cfg.nacc =>
                    NamesPair(2 * (w + 1) + 2)' /\ (rq'.end_c <=> 2 * (w + 1) + 2 = cfg.nacc)
    <3>1. NamesPair(2 * (w + 1)) /\ 2 * (w + 1) \in Nat
      BY <1>5, <1>10, <1>8, <2>2
    <3> QED BY <1>1, <1>6, <3>1, NameStep
  <2> QED BY <1>1, <1>6, <2>1, <2>2
<1> HIDE DEF t, f
<1>12. link'.sent = 2 * rr + Bit(rq'.half) + Bit(link'.rdy)
  <2>1. CASE RqPop
    <3>1. link.rdy /\ state = "DHOLD"
      BY <1>1, <2>1, InQuant
    <3>2. Accepted /\ link.n = 8
      BY <3>1, InQuant DEF Offered, Accepted, WordClocks
    <3>3. ~link'.rdy /\ link'.sent = link.sent
      BY <1>1, <3>2, LinkCounts
    <3>4. CASE rq.half
      BY <1>1, <1>5, <1>6, <1>10, <2>1, <3>1, <3>3, <3>4, <1>9 DEF Bit
    <3>5. CASE ~rq.half
      BY <1>1, <1>5, <1>6, <1>10, <2>1, <3>1, <3>3, <3>5, <1>9 DEF Bit
    <3> QED BY <3>4, <3>5
  <2>2. CASE ~RqPop
    <3>1. ~link.rdy /\ rr = r /\ (rq'.half <=> rq.half)
      BY <1>1, <1>6, <1>10, <2>2, <1>4
    <3>2. CASE link.n > 1
      BY <1>1, <1>5, <3>1, <3>2, LinkCounts DEF Bit
    <3>3. CASE ~(link.n > 1)
      <4>1. Offered
        <5>1. state \notin {"DISS", "DWAIT"}
          BY <1>1, <3>3, InQuant DEF Awaited
        <5> QED BY <1>1, <3>1, <5>1, InQuant DEF Accepted
      <4>2. link.have /\ link.dv
        BY <1>1, <3>3, <4>1 DEF Offered
      <4> QED BY <1>1, <1>5, <3>1, <3>3, <4>2, LinkTakes DEF Bit
    <3> QED BY <3>2, <3>3
  <2> QED BY <2>1, <2>2
<1>13. 2 * rr < cfg.nacc
  <2>1. CASE f
    <3>1. r < h /\ r + 1 # h
      BY <1>5, <1>10, <1>7, <2>1
    <3> QED
      <4>1. rr = r + 1
        BY <1>10, <2>1
      <4> QED BY <1>7, <3>1, <4>1
  <2>2. CASE ~f
    BY <1>5, <1>10, <1>9, <2>2
  <2> QED BY <2>1, <2>2
<1>14. /\ rq'.c <= 6 => rr + Held' = 0 /\ NamesPair(0)'
       /\ rr + Held' > 0 => rq'.c >= 8
  <2>1. CASE t
    BY <1>6, <2>1
  <2>2. CASE ~t
    <3>1. rr + Held' = w /\ rq'.c = IF rq.c # 22 THEN rq.c + 1 ELSE rq.c
      BY <1>6, <1>10, <1>8, <2>2
    <3>2. rq'.c <= 6 => rq.c <= 6 /\ ~RqAdv
      BY <1>1, <2>2, <3>1
    <3> QED BY <1>1, <1>5, <1>11, <3>1, <3>2
  <2> QED BY <2>1, <2>2
<1>15. \A y \in Nat : y = rr + Held' /\ rq'.c > 6 =>
         /\ NamesPair(2 * (y + 1))'
         /\ 2 * y < cfg.nacc => (rq'.end_c <=> 2 * y + 2 = cfg.nacc)
  <2> SUFFICES ASSUME NEW y \in Nat, y = rr + Held', rq'.c > 6
               PROVE  /\ NamesPair(2 * (y + 1))'
                      /\ 2 * y < cfg.nacc => (rq'.end_c <=> 2 * y + 2 = cfg.nacc)
    OBVIOUS
  <2>1. CASE t
    <3>1. y = w + 1 /\ rq.c > 6 /\ 2 * (y + 1) = 2 * (w + 1) + 2
      BY <1>10, <2>1
    <3>2. CASE 2 * (w + 1) < cfg.nacc
      BY <1>11, <2>1, <3>1, <3>2
    <3>3. CASE ~(2 * (w + 1) < cfg.nacc)
      <4>1. NamesPair(2 * (w + 1) + 2)'
        BY <1>1, <1>10, <3>3 DEF NamesPair
      <4> QED BY <3>1, <3>3, <4>1
    <3> QED BY <3>2, <3>3
  <2>2. CASE ~t /\ rq.c = 6
    <3>1. w = 0 /\ y = 0 /\ 2 * (y + 1) = 2
      BY <1>5, <1>10, <1>3, <1>8, <2>2
    <3>2. NamesPair(2)' /\ (rq'.end_c <=> 2 = cfg.nacc)
      BY <1>1, <1>5, <1>11, <2>2
    <3>3. 2 * y + 2 = 2 /\ (2 * (y + 1) = 2)
      BY <3>1
    <3>4. NamesPair(2 * (y + 1))'
      BY <3>2, <3>3
    <3> QED BY <3>2, <3>3, <3>4
  <2>3. CASE ~t /\ rq.c # 6
    <3>1. rq.c > 6 /\ ~RqAdv /\ y = w
      BY <1>1, <1>6, <1>10, <1>8, <2>3
    <3> QED BY <1>5, <1>6, <1>11, <3>1
  <2> QED BY <2>1, <2>2, <2>3
<1>16. Held' > 0 => (rq'.se[rq'.rsel] <=> 2 * rr + 2 = cfg.nacc)
  <2>1. CASE ~f /\ Held > 0
    <3>1. rr = r /\ rq'.se[rq'.rsel] = rq.se[rq.rsel]
      BY <1>6, <1>10, <1>8, <1>9, <2>1, <1>4
    <3> QED BY <1>5, <2>1, <3>1
  <2>2. CASE f /\ Held = 2
    <3>1. rr = r + 1 /\ rq'.se[rq'.rsel] = rq.se[1 - rq.rsel]
      <4>1. bf = 1
        BY <1>10, <2>2
      <4>2. rr = r + 1
        BY <1>10, <4>1
      <4>3. Held # bf
        BY <2>2, <4>1
      <4>4. ~(Held = Bit(f))
        BY <1>10, <4>3
      <4> QED BY <1>6, <2>2, <4>2, <4>4
    <3>2. 2 * r + 2 < cfg.nacc
      BY <1>13, <3>1
    <3> QED BY <1>5, <2>2, <3>1, <3>2
  <2>3. CASE Held = Bit(f) /\ t
    <3>1. rr = w /\ rq'.se[rq'.rsel] = rq.end_c /\ rq.c > 6
      BY <1>6, <2>3, <1>3, <1>4
    <3> QED BY <1>5, <1>13, <3>1
  <2>4. CASE Held = Bit(f) /\ ~t
    BY <1>6, <1>10, <2>4
  <2> QED BY <1>6, <1>10, <1>8, <1>9, <2>1, <2>2, <2>3, <2>4
<1>17. Held' = 2 /\ 2 * rr + 2 < cfg.nacc => (rq'.se[1 - rq'.rsel] <=> 2 * rr + 4 = cfg.nacc)
  <2> SUFFICES ASSUME Held' = 2, 2 * rr + 2 < cfg.nacc
               PROVE  rq'.se[1 - rq'.rsel] <=> 2 * rr + 4 = cfg.nacc
    OBVIOUS
  <2>1. CASE t
    <3>1. w = rr + 1 /\ rq.c > 6 /\ rq'.se[1 - rq'.rsel] = rq.end_c
      <4>1. w = rr + 1 /\ rq.c = 22
        BY <1>10, <2>1
      <4> QED BY <1>6, <2>1, <4>1
    <3> QED BY <1>5, <1>10, <1>7, <3>1
  <2>2. CASE ~t
    <3>1. Held = 2 /\ ~f /\ rr = r /\ rq'.se[1 - rq'.rsel] = rq.se[1 - rq.rsel]
      BY <1>6, <1>10, <1>8, <1>9, <2>2, <1>4
    <3> QED BY <1>5, <3>1
  <2> QED BY <2>1, <2>2
<1>18. PairInv(rr)'
  <2>1. /\ (rq'.c <= RQ_PADV) <=> (rq'.c <= 6)
        /\ (rq'.c > RQ_PADV) <=> (rq'.c > 6)
        /\ (rq'.c >= RQ_BIAS) <=> (rq'.c >= 8)
    BY DEF RQ_PADV, RQ_BIAS
  <2>2. PICK y \in Nat : y = rr + Held'
    BY <1>10
  <2>3. rq'.c > 6 => /\ NamesPair(2 * (y + 1))'
                     /\ 2 * y < cfg.nacc => (rq'.end_c <=> 2 * y + 2 = cfg.nacc)
    BY <1>15, <2>2
  <2>4. /\ rq'.c <= 6 => y = 0 /\ NamesPair(0)'
        /\ y > 0 => rq'.c >= 8
    BY <1>14, <2>2
  <2> QED BY <1>1, <1>12, <1>13, <1>16, <1>17, <2>1, <2>2, <2>3, <2>4 DEF PairInv
<1> QED BY <1>18

\* What a clock of the engine does to the time it has.
LEMMA PaceIs ==
  ASSUME TileInv, Clock, Draining, cfg.rq
  PROVE  /\ Owed \in 0 .. 22 /\ Held \in 0 .. 2 /\ BufferInv'
         /\ RqTake \in BOOLEAN /\ Freed \in BOOLEAN
         /\ RqTake <=> Owed = 0 /\ (Held # 2 \/ Freed)
         /\ Owed' = IF RqTake THEN 14 ELSE IF Owed = 0 THEN 0 ELSE Owed - 1
         /\ RqTake /\ Freed => Held' = Held
         /\ RqTake /\ ~Freed => Held' = Held + 1
         /\ ~RqTake /\ Freed => Held' = Held - 1
         /\ ~RqTake /\ ~Freed => Held' = Held
         /\ Freed <=> RqPop /\ rq.half
         /\ rq'.half <=> IF RqPop THEN ~rq.half ELSE rq.half
         /\ Held = 2 => Owed <= 14
         /\ rq.sf[rq.rsel] <=> Held # 0
<1>1. rq.c \in 0 .. 22 /\ (rq.done <=> rq.c = 22) /\ Owed = 22 - rq.c
  BY InQuant DEF Owed, RQ_DONE
<1>2. /\ Held \in 0 .. 2 /\ (rq.sf[rq.rsel] <=> Held # 0)
      /\ RqTake <=> rq.done /\ (Held # 2 \/ Freed)
  BY InQuant, HeldIs, TakeIs
<1>3. Held' = Held + Bit(RqTake) - Bit(Freed) /\ BufferInv'
  BY InQuant, BufferStep
<1>4. /\ rq'.c = IF RqTake THEN 8 ELSE IF rq.c # 22 THEN rq.c + 1 ELSE rq.c
      /\ rq'.half <=> IF RqPop THEN ~rq.half ELSE rq.half
  BY InQuant, EngineIs DEF RQ_BIAS, RQ_DONE
<1>5. Owed' = 22 - rq'.c
  BY DEF Owed, RQ_DONE
<1>6. RqTake \in BOOLEAN /\ Freed \in BOOLEAN /\ (Freed <=> RqPop /\ rq.half)
  BY InQuant DEF RqTake, Freed, RqRun
<1>7. Held = 2 => Owed <= 14
  <2>1. PICK r \in Nat : PairInv(r)
    BY DEF TileInv, QuantInv
  <2> QED BY <1>1, <2>1 DEF PairInv, RQ_BIAS
<1>8. /\ RqTake /\ Freed => Held' = Held
      /\ RqTake /\ ~Freed => Held' = Held + 1
      /\ ~RqTake /\ Freed => Held' = Held - 1
      /\ ~RqTake /\ ~Freed => Held' = Held
  BY <1>2, <1>3 DEF Bit
<1>9. RqTake <=> Owed = 0 /\ (Held # 2 \/ Freed)
  BY <1>1, <1>2
<1>10. Owed' = IF RqTake THEN 14 ELSE IF Owed = 0 THEN 0 ELSE Owed - 1
  <2>1. CASE RqTake
    BY <1>1, <1>4, <1>5, <2>1
  <2>2. CASE ~RqTake
    BY <1>1, <1>4, <1>5, <2>2
  <2> QED BY <2>1, <2>2
<1>11. Owed \in 0 .. 22
  BY <1>1
<1> QED BY <1>2, <1>3, <1>4, <1>6, <1>7, <1>8, <1>9, <1>10, <1>11

\* The engine's own part of the invariant.
LEMMA EngineKeeps ==
  ASSUME TileInv, Clock, Draining, cfg.rq
  PROVE  /\ rq'.c \in 0 .. RQ_DONE /\ (rq'.done <=> rq'.c = RQ_DONE)
         /\ state = "DISS" => Held = 0
<1>1. /\ rq.c \in 0 .. 22 /\ (rq.done <=> rq.c = 22)
      /\ rq'.c = IF RqTake THEN 8 ELSE IF rq.c # 22 THEN rq.c + 1 ELSE rq.c
      /\ rq'.done <=> (rq.done \/ rq.c = 21) /\ ~RqTake
      /\ RqTake => rq.done
  BY InQuant, EngineIs DEF RQ_BIAS, RQ_DONE, RQ_LAST, RqTake
<1>2. rq'.c \in 0 .. RQ_DONE /\ (rq'.done <=> rq'.c = RQ_DONE)
  <2>1. CASE RqTake
    BY <1>1, <2>1 DEF RQ_DONE
  <2>2. CASE ~RqTake
    BY <1>1, <2>2 DEF RQ_DONE
  <2> QED BY <2>1, <2>2
<1>3. state = "DISS" => Held = 0
  <2>1. PICK r \in Nat : PairInv(r)
    BY DEF TileInv, QuantInv
  <2>2. rq.c = 0 => r + Held = 0
    BY <2>1 DEF PairInv, RQ_PADV
  <2>3. Held \in 0 .. 2
    BY InQuant, HeldIs
  <2> QED BY <2>2, <2>3, InQuant
<1> QED BY <1>2, <1>3

\* Putting the parts together.
LEMMA QuantGoesOn ==
  ASSUME TileInv, Clock, Draining, cfg.rq, ~(RqPop /\ out.end),
         state' \in {"DWAIT", "DHOLD"}, PaceInv',
         state' = "DWAIT" => Awaited(3)',
         state' = "DHOLD" =>
           (Offered' \/ Accepted') /\ (out'.end <=> rq'.se[rq'.rsel] /\ rq'.half),
         link'.on, ~link'.under, link'.n \in Nat, link'.sent \in Nat
  PROVE  PlainInv' /\ QuantInv' /\ ReadInv'
<1>1. state \in {"DISS", "DWAIT", "DHOLD"} /\ cfg' = cfg
  BY InReadout DEF Draining
<1>2. ~(RqPop /\ rq.se[rq.rsel] /\ rq.half)
  BY InQuant
<1>3. PICK r \in Nat : PairInv(r)
  BY DEF TileInv, QuantInv
<1>4. \E x \in Nat : PairInv(x)'
  BY <1>2, <1>3, PairStep
<1>5. BufferInv' /\ rq'.c \in 0 .. RQ_DONE /\ (rq'.done <=> rq'.c = RQ_DONE)
  BY PaceIs, EngineKeeps
<1>6. QuantInv'
  BY <1>4, <1>5 DEF QuantInv
<1>7. PlainInv'
  BY <1>1 DEF PlainInv
<1>8. ReadInv'
  <2>1. (/\ state \in {"DISS", "DWAIT", "DHOLD"} /\ host.do = "drain" /\ pulse = None
         /\ link.on /\ ~link.under /\ link.n \in Nat /\ link.sent \in Nat)'
    BY <1>1, InReadout
  <2> QED BY <2>1, DrainingReads, PTL
<1> QED BY <1>6, <1>7, <1>8

\* Where nothing leaves, the pair at the head stays there.
LEMMA HeadStays ==
  ASSUME TileInv, Clock, Draining, cfg.rq, ~RqPop, Held # 0
  PROVE  rq'.se[rq'.rsel] /\ rq'.half <=> rq.se[rq.rsel] /\ rq.half
<1>1. ~Freed /\ Held # Bit(Freed)
  BY DEF Freed, Bit
<1>2. rq'.se[rq'.rsel] = rq.se[rq.rsel]
  BY <1>1, InQuant, BufferStep
<1>3. rq'.half = rq.half
  BY InQuant, EngineIs
<1> QED BY <1>2, <1>3

\* A clock the serializer counts, with nothing taken: the engine has a clock less too.
LEMMA CountPaces ==
  ASSUME TileInv, Clock, Draining, cfg.rq, ~link.rdy, ~link'.rdy, link.n \in Nat, link.n >= 2,
         link'.n = link.n - 1, state' = "DHOLD" => Held # 0
  PROVE  PaceInv'
<1>1. ~RqPop /\ ~Freed
  BY InQuant DEF Freed
<1>2. /\ Owed \in 0 .. 22 /\ Held \in 0 .. 2
      /\ RqTake <=> Owed = 0 /\ Held # 2
      /\ Owed' = IF RqTake THEN 14 ELSE IF Owed = 0 THEN 0 ELSE Owed - 1
      /\ RqTake => Held' = Held + 1
      /\ ~RqTake => Held' = Held
      /\ rq'.half <=> rq.half
  BY <1>1, PaceIs
<1>3. /\ Held = 0 => Owed <= link.n - 4 /\ ~rq.half
      /\ Held = 1 => Owed <= link.n + (IF rq.half THEN 4 ELSE 12)
  BY InQuant DEF PaceInv, BufferInv
<1>4. CASE Held = 0 /\ RqTake
  <2>1. Held' = 1 /\ Owed' = 14 /\ ~rq'.half /\ link'.n >= 3
    BY <1>2, <1>3, <1>4
  <2> QED BY <2>1, <1>2 DEF PaceInv
<1>5. CASE Held = 0 /\ ~RqTake
  <2>1. Held' = 0 /\ Owed' <= link'.n - 4 /\ state' # "DHOLD"
    BY <1>2, <1>3, <1>5
  <2> QED BY <2>1 DEF PaceInv
<1>6. CASE Held = 1 /\ RqTake
  <2>1. Held' = 2
    BY <1>2, <1>6
  <2> QED BY <2>1 DEF PaceInv
<1>7. CASE Held = 1 /\ ~RqTake
  <2>1. Held' = 1 /\ Owed' = Owed - 1 /\ Owed' <= link'.n + (IF rq'.half THEN 4 ELSE 12)
    BY <1>2, <1>3, <1>7
  <2> QED BY <2>1 DEF PaceInv
<1>8. CASE Held = 2
  <2>1. Held' = 2
    BY <1>2, <1>8
  <2> QED BY <2>1 DEF PaceInv
<1> QED BY <1>2, <1>4, <1>5, <1>6, <1>7, <1>8

LEMMA QuantClock ==
  ASSUME TileInv, Clock, state \in {"DISS", "DWAIT", "DHOLD"}, cfg.rq
  PROVE  PlainInv' /\ QuantInv' /\ ReadInv'
<1>0. Draining
  BY DEF Draining
<1>1. CASE state = "DISS"
  <2>1. Awaited(3) /\ Held = 0 /\ Owed <= link.n - 4 /\ Owed = 22 /\ ~RqPop
    <3>1. rq.c = 0 /\ Awaited(3) /\ Held = 0 /\ PaceInv /\ ~RqPop
      BY <1>0, <1>1, InQuant, EngineKeeps
    <3> QED BY <3>1 DEF PaceInv, Owed, RQ_DONE
  <2>2. state' = "DWAIT" /\ out' = out
    BY <1>1, StateIs, ClockAlways, InReadout, OutIs
  <2>3. link.n >= 26 /\ link.n \in Nat
    BY <2>1, InReadout
  <2>4. /\ link'.on /\ ~link'.rdy /\ ~link'.under /\ link'.n = link.n - 1
        /\ link'.sent = link.sent /\ ~link'.have
    BY <2>1, <2>3, LinkCounts DEF Awaited
  <2>5. Awaited(3)'
    BY <2>1, <2>2, <2>3, <2>4 DEF Awaited
  <2>6. PaceInv'
    BY <1>0, <2>1, <2>2, <2>3, <2>4, CountPaces DEF Awaited
  <2> QED BY <1>0, <2>1, <2>2, <2>3, <2>4, <2>5, <2>6, InReadout, QuantGoesOn
<1>2. CASE state = "DWAIT"
  <2>1. Awaited(3) /\ ~RqPop /\ link.n \in Nat
    BY <1>0, <1>2, InQuant, InReadout
  <2>2. /\ link'.on /\ ~link'.rdy /\ ~link'.under /\ link'.n = link.n - 1
        /\ link'.sent = link.sent /\ ~link'.have /\ ~link'.dv
    BY <2>1, LinkCounts DEF Awaited
  <2>3. CASE Held = 0
    <3>1. ~rq.sf[rq.rsel] /\ Owed <= link.n - 4 /\ Owed \in 0 .. 22
      BY <1>0, <2>3, PaceIs, InQuant DEF PaceInv
    <3>2. state' = "DWAIT" /\ out' = out
      BY <1>2, <3>1, StateIs, ClockAlways, InReadout, OutIs
    <3>3. Awaited(3)'
      BY <2>1, <2>2, <3>1, <3>2 DEF Awaited
    <3>4. PaceInv'
      BY <1>0, <2>1, <2>2, <2>3, <3>2, CountPaces DEF Awaited
    <3> QED BY <1>0, <2>1, <2>2, <3>2, <3>3, <3>4, InReadout, QuantGoesOn DEF Awaited
  <2>4. CASE Held # 0
    <3>1. rq.sf[rq.rsel]
      BY <1>0, <2>4, PaceIs
    <3>2. state' = "DHOLD"
      BY <1>2, <3>1, StateIs, ClockAlways, InReadout
    <3>3. out'.valid /\ (out'.end <=> rq.se[rq.rsel] /\ rq.half)
      <4>1. out' = [dout |-> rq.slot[rq.rsel][IF rq.half THEN 2 ELSE 1], valid |-> TRUE,
                    end |-> rq.se[rq.rsel] /\ rq.half]
        BY <1>2, <3>1, InReadout, OutIs
      <4>2. out'.valid = TRUE /\ out'.end = (rq.se[rq.rsel] /\ rq.half)
        BY <4>1, Zenon
      <4> QED BY <4>2
    <3>4. Offered'
      BY <2>1, <2>2, <3>3 DEF Awaited, Offered
    <3>5. out'.end <=> rq'.se[rq'.rsel] /\ rq'.half
      BY <1>0, <2>1, <2>4, <3>3, HeadStays
    <3>6. PaceInv'
      BY <1>0, <2>1, <2>2, <2>4, CountPaces DEF Awaited
    <3> QED BY <1>0, <2>1, <2>2, <3>2, <3>4, <3>5, <3>6, InReadout, QuantGoesOn DEF Awaited
  <2> QED BY <2>3, <2>4
<1>3. CASE state = "DHOLD" /\ Offered
  <2>1. /\ out.valid /\ ~link.rdy /\ ~RqPop /\ Held # 0 /\ link.n \in Nat /\ link.n >= 1
        /\ out.end <=> rq.se[rq.rsel] /\ rq.half
    BY <1>0, <1>3, InQuant, InReadout DEF Offered, PaceInv
  <2>2. state' = "DHOLD" /\ out' = out
    BY <1>3, <2>1, StateIs, ClockAlways, InReadout, OutIs
  <2>3. out'.end <=> rq'.se[rq'.rsel] /\ rq'.half
    BY <1>0, <2>1, <2>2, HeadStays
  <2>4. CASE link.n > 1
    <3>1. /\ link'.on /\ ~link'.rdy /\ ~link'.under /\ link'.n = link.n - 1
          /\ link'.sent = link.sent
      BY <2>4, LinkCounts
    <3>2. Offered'
      BY <1>3, <2>1, <2>2, <2>4, LinkCounts DEF Offered
    <3>3. PaceInv'
      BY <1>0, <2>1, <2>4, <3>1, CountPaces
    <3> QED BY <1>0, <2>1, <2>2, <2>3, <2>4, <3>1, <3>2, <3>3, InReadout, QuantGoesOn
  <2>5. CASE ~(link.n > 1)
    <3>1. link.have /\ link.dv /\ link.n = 1
      BY <1>3, <2>1, <2>5 DEF Offered
    <3>2. WordClocks = 8 /\ WordClocks' = 8
      BY InReadout DEF WordClocks
    <3>3. /\ link'.on /\ link'.rdy /\ ~link'.under /\ link'.n = 8 /\ ~link'.have /\ link'.dv
          /\ link'.sent = link.sent + 1
      BY <2>1, <2>5, <3>1, <3>2, LinkTakes
    <3>4. Accepted'
      BY <2>1, <2>2, <3>2, <3>3 DEF Accepted
    <3>5. PaceInv'
      <4>1. /\ Owed \in 0 .. 22 /\ Held \in 0 .. 2
            /\ RqTake <=> Owed = 0 /\ Held # 2
            /\ Owed' = IF RqTake THEN 14 ELSE IF Owed = 0 THEN 0 ELSE Owed - 1
            /\ RqTake => Held' = Held + 1
            /\ ~RqTake => Held' = Held
            /\ rq'.half <=> rq.half
        BY <1>0, <2>1, PaceIs
      <4>2. Held = 1 => Owed <= 1 + (IF rq.half THEN 4 ELSE 12)
        BY <1>0, <2>1, <3>1, InQuant DEF PaceInv
      <4>3. Held' # 0
        BY <2>1, <4>1
      <4>4. Held' = 1 => Owed' <= (IF rq'.half THEN 4 ELSE 12)
        BY <2>1, <4>1, <4>2
      <4> QED BY <3>3, <4>3, <4>4 DEF PaceInv
    <3> QED BY <1>0, <2>1, <2>2, <2>3, <3>3, <3>4, <3>5, InReadout, QuantGoesOn
  <2> QED BY <2>4, <2>5
<1>4. CASE state = "DHOLD" /\ Accepted
  <2>1. /\ out.valid /\ link.rdy /\ link.dv /\ ~link.have /\ link.n = 8 /\ RqPop /\ Held # 0
        /\ out.end <=> rq.se[rq.rsel] /\ rq.half
        /\ link.sent \in Nat
    BY <1>0, <1>4, InQuant, InReadout DEF Accepted, PaceInv, WordClocks
  <2>2. /\ link'.on /\ ~link'.rdy /\ ~link'.under /\ link'.n = 7 /\ link'.sent = link.sent
        /\ ~link'.have
    BY <2>1, LinkCounts
  <2>3. ~out'.valid
    BY <1>4, <2>1, OutIs, InReadout DEF ShapeInv, IsRecord
  <2>4. state' = IF out.end THEN "IDLE" ELSE "DWAIT"
    BY <1>4, <2>1, StateIs, ClockAlways
  <2>5. CASE out.end
    <3>1. PICK r \in Nat : PairInv(r)
      BY <1>0 DEF TileInv, QuantInv
    <3>2. Held \in 0 .. 2 /\ cfg.nacc \in Nat
      BY <1>0, PaceIs, InReadout, NaccIs
    <3>3. link.sent = cfg.nacc
      BY <2>1, <2>5, <3>1, <3>2 DEF PairInv, Bit
    <3>4. (state = "IDLE" /\ host.do = "drain" /\ pulse = None /\ link.on /\ ~link.under
           /\ ~out.valid /\ ~link.rdy /\ ~link.have /\ link.sent = cfg.nacc /\ cfg.nacc \in Nat
           /\ link.n \in Nat /\ link.n >= 2)'
      BY <2>2, <2>3, <2>4, <2>5, <3>2, <3>3, InReadout
    <3>5. ReadInv'
      BY <3>4, EndedReads, PTL
    <3>6. PlainInv' /\ QuantInv'
      BY <2>4, <2>5 DEF PlainInv, QuantInv, Draining
    <3> QED BY <3>5, <3>6
  <2>6. CASE ~out.end
    <3>1. state' = "DWAIT" /\ Awaited(3)'
      BY <2>2, <2>3, <2>4, <2>6 DEF Awaited
    <3>2. PaceInv'
      <4>1. /\ Owed \in 0 .. 22 /\ Held \in 1 .. 2
            /\ RqTake <=> Owed = 0 /\ (Held # 2 \/ Freed)
            /\ Owed' = IF RqTake THEN 14 ELSE IF Owed = 0 THEN 0 ELSE Owed - 1
            /\ RqTake /\ Freed => Held' = Held
            /\ RqTake /\ ~Freed => Held' = Held + 1
            /\ ~RqTake /\ Freed => Held' = Held - 1
            /\ ~RqTake /\ ~Freed => Held' = Held
            /\ Freed <=> rq.half
            /\ rq'.half <=> ~rq.half
            /\ Held = 2 => Owed <= 14
        BY <1>0, <2>1, PaceIs
      <4>2. Held = 1 => Owed <= (IF rq.half THEN 4 ELSE 12)
        BY <1>0, <2>1, InQuant DEF PaceInv
      <4>3. Held' = 0 => Owed' <= 3
        BY <4>1, <4>2
      <4>4. Held' = 1 => Owed' <= 7 + (IF rq'.half THEN 4 ELSE 12)
        BY <4>1, <4>2
      <4> QED BY <2>2, <3>1, <4>3, <4>4 DEF PaceInv
    <3> QED BY <1>0, <2>1, <2>2, <2>6, <3>1, <3>2, QuantGoesOn
  <2> QED BY <2>5, <2>6
<1> QED BY <1>0, <1>1, <1>2, <1>3, <1>4, InQuant

-----------------------------------------------------------------------------
\* A step.

LEMMA ClockStep == TileInv /\ Clock => TileInv'
<1> SUFFICES ASSUME TileInv, Clock PROVE TileInv'
  OBVIOUS
<1>1. GeomInv' /\ ShapeInv' /\ SweepInv'
  BY ClockAlways, ClockSweeps
<1>2. PlainInv' /\ QuantInv' /\ ReadInv'
  <2>1. /\ state \in {"IDLE", "LOAD", "SWEEP", "FLUSH", "DISS", "DWAIT", "DHOLD"}
        /\ pulse \in {"run", "drain", None}
        /\ state \in {"DISS", "DWAIT", "DHOLD"} => cfg.rq \in BOOLEAN
    BY DEF TileInv, ReadInv, GeomInv
  <2>2. CASE state \in {"LOAD", "SWEEP", "FLUSH"} \/ (state = "IDLE" /\ pulse = "run")
    BY <2>2, SweepReads
  <2>3. CASE state = "IDLE" /\ pulse = "drain"
    BY <2>3, StartReads
  <2>4. CASE state = "IDLE" /\ pulse = None
    BY <2>4, TailReads
  <2>5. CASE state \in {"DISS", "DWAIT", "DHOLD"}
    BY <2>5, PlainClock, QuantClock
  <2> QED BY <2>1, <2>2, <2>3, <2>4, <2>5
<1> QED BY <1>1, <1>2 DEF TileInv

LEMMA StutterTile == TileInv /\ UNCHANGED vars => TileInv'
<1> SUFFICES ASSUME TileInv, UNCHANGED vars PROVE TileInv'
  OBVIOUS
<1> USE DEF vars, rigid, memory, sweep, readout
<1>1. GeomInv' /\ ShapeInv'
  BY DEF TileInv, GeomInv, ShapeInv, IsRecord
<1>2. SweepInv'
  BY DEF TileInv, SweepInv, TapAt, Taps, Lap, InLap, FLUSH
<1>3. PlainInv'
  BY DEF TileInv, PlainInv, Draining, InWalk, WalkIndex, Awaited, Offered, Accepted, WordClocks
<1>4. QuantInv'
  <2>1. BufferInv' <=> BufferInv
    BY DEF BufferInv, Held
  <2>2. PaceInv' <=> PaceInv
    BY DEF PaceInv, Held, Owed
  <2>3. \A r : PairInv(r)' <=> PairInv(r)
    BY DEF PairInv, Held, NamesPair, InWalk, WalkIndex, LastJ, LastG
  <2>4. (Awaited(3)' <=> Awaited(3)) /\ (Offered' <=> Offered) /\ (Accepted' <=> Accepted)
    BY DEF Awaited, Offered, Accepted, WordClocks
  <2> QED BY <2>1, <2>2, <2>3, <2>4 DEF TileInv, QuantInv, Draining
<1>5. ReadInv'
  BY DEF TileInv, ReadInv, Draining, Ready, Busy
<1> QED BY <1>1, <1>2, <1>3, <1>4, <1>5 DEF TileInv

LEMMA StepTile == TileInv /\ [Next]_vars => TileInv'
BY ConfigureStep, PassStep, ClockStep, SweptStep, DrainedStep, StutterTile DEF Next, Over

\* A sweep is no longer than its laps.
LEMMA InvFits == TileInv => SweepFitsItsClocks
<1> SUFFICES ASSUME TileInv, host.do = "run", Busy
             PROVE  host.clocks <= SweepClocks(cfg, kpack)
  BY DEF SweepFitsItsClocks
<1>1. state \in {"LOAD", "SWEEP", "FLUSH"}
  BY DEF TileInv, ReadInv, Draining, Busy
<1>2. /\ cfg.P \in Nat \ {0} /\ cfg.QG \in Nat \ {0} /\ cfg.Cb \in Nat \ {0}
      /\ cfg.K = 9 * cfg.Cb /\ kpack \in BOOLEAN
  BY DEF TileInv, GeomInv
<1>3. PICK n \in 0 .. (Taps - 1) : host.clocks = (n * cfg.QG + walk.g) * Lap + InLap
  BY <1>1 DEF TileInv, SweepInv
<1>4. /\ walk.g \in 0 .. (cfg.QG - 1)
      /\ state = "SWEEP" => walk.p \in 0 .. (cfg.P - 1)
      /\ state = "FLUSH" => walk.flush \in 0 .. (FLUSH - 1)
  BY <1>1 DEF TileInv, SweepInv
<1>5. FLUSH \in {5, 6}
  BY <1>2 DEF FLUSH
<1>6. Lap \in Nat \ {0} /\ InLap \in 0 .. Lap /\ Taps \in Nat \ {0}
  BY <1>1, <1>2, <1>4, <1>5 DEF Lap, InLap, Taps
<1> DEFINE m == n * cfg.QG + walk.g
<1> DEFINE M == Taps * cfg.QG
<1>7. m \in Nat /\ M \in Nat /\ m < M
  BY <1>2, <1>3, <1>4, <1>6, Radix
<1> HIDE DEF m, M
<1>8. /\ m * Lap \in Nat /\ M * Lap \in Nat /\ (M - m) * Lap \in Nat
      /\ M * Lap = m * Lap + (M - m) * Lap
      /\ (M - m) * Lap >= Lap
  BY <1>6, <1>7
<1>9. host.clocks <= M * Lap
  <2> DEFINE x == m * Lap
  <2> DEFINE y == M * Lap
  <2> DEFINE z == (M - m) * Lap
  <2>1. host.clocks = x + InLap
    BY <1>3 DEF m
  <2>2. x \in Nat /\ y \in Nat /\ z \in Nat /\ y = x + z /\ z >= Lap
    BY <1>8
  <2> HIDE DEF x, y, z
  <2>3. host.clocks <= y
    BY <1>6, <2>1, <2>2
  <2> QED BY <2>3 DEF y
<1>10. M * Lap = SweepClocks(cfg, kpack)
  BY <1>2, <1>5 DEF M, Lap, Taps, FLUSH, SweepClocks
<1> QED BY <1>9, <1>10

-----------------------------------------------------------------------------
\* Every reachable state is one of those.
THEOREM TileInductive == Spec => []TileInv
BY InitTile, StepTile, PTL DEF Spec

\* Whatever layer is planned, however it is blocked and whatever the size of the tile, a
\* sweep is over within the clocks firmware/gemm_plan.h's gp_sweep_cycles_k() counts for
\* it: each tap, or pair of them, takes each group one lap of the positions and the
\* pipeline, and there are no other clocks.
THEOREM SweepsFit == Spec => []SweepFitsItsClocks
BY TileInductive, InvFits, PTL

\* And whatever they are, rtl/gemm_link.v, which cannot wait for the tile, finds a word
\* each time it has sent one and has all of the block's when it ends: unrequantized, three
\* clocks after a word is taken; requantized, because a pair of bytes is 16 clocks of the
\* link and no more than 15 of the engine's, with the walk, the pair made and the two
\* held in step.
THEOREM NothingUnderruns == Spec => []NeverUnderruns
<1>1. TileInv => NeverUnderruns
  BY DEF TileInv, ReadInv, NeverUnderruns
<1> QED BY <1>1, TileInductive, PTL

-----------------------------------------------------------------------------
\* What a plan covers and what it costs.  Where block n begins is a matter of two
\* divisions; what its blocks cost together is a fold over them.

\* A number is its quotient and its remainder.
LEMMA Division ==
  ASSUME NEW x \in Int, NEW n \in Nat \ {0}
  PROVE  /\ x \div n \in Int /\ x % n \in 0 .. (n - 1)
         /\ x = ((x \div n) * n) + (x % n)
OBVIOUS

\* ... and no other.
LEMMA DivisionIs ==
  ASSUME NEW n \in Nat \ {0}, NEW q \in Int, NEW r \in 0 .. (n - 1)
  PROVE  (q * n + r) \div n = q /\ (q * n + r) % n = r
<1> DEFINE x == q * n + r
           e == x \div n
           s == x % n
<1>1. q * n \in Int /\ x \in Int
  OBVIOUS
<1>2. e \in Int /\ s \in 0 .. (n - 1) /\ x = e * n + s
  BY <1>1, Division
<1> HIDE DEF e, s, x
<1>3. x = q * n + r
  BY DEF x
<1>4. CASE e < q
  <2>1. (q - e) * n >= n
    BY <1>2, <1>4
  <2>2. q * n - e * n >= n
    BY <1>2, <2>1
  <2> QED BY <1>1, <1>2, <1>3, <2>2
<1>5. CASE e > q
  <2>1. (e - q) * n >= n
    BY <1>2, <1>5
  <2>2. e * n - q * n >= n
    BY <1>2, <2>1
  <2> QED BY <1>1, <1>2, <1>3, <2>2
<1>6. CASE e = q
  BY <1>1, <1>2, <1>3, <1>6 DEF e, s, x
<1> QED BY <1>2, <1>4, <1>5, <1>6

\* A multiple of n divides into it.
LEMMA Multiple ==
  ASSUME NEW n \in Nat \ {0}, NEW q \in Int
  PROVE  (q * n) \div n = q /\ (q * n) % n = 0
<1>1. 0 \in 0 .. (n - 1) /\ q * n \in Int /\ (q * n) + 0 = q * n
  OBVIOUS
<1> QED BY <1>1, DivisionIs

\* Products of what is not negative, and of what is not zero.
LEMMA Times ==
  ASSUME NEW x \in Nat, NEW y \in Nat
  PROVE  /\ x * y \in Nat /\ x * y = y * x
         /\ x # 0 /\ y # 0 => x * y # 0
OBVIOUS

\* Products and sums of three.
LEMMA TimesTimes ==
  ASSUME NEW x \in Int, NEW y \in Int, NEW z \in Int
  PROVE  (x * y) * z = x * (y * z) /\ x * y \in Int /\ (x + y) * z = (x * z) + (y * z)
OBVIOUS

\* What a plan of a layer is.
LEMMA PlanIs ==
  ASSUME NEW d \in Layers, NEW r \in BOOLEAN, NEW pl \in Plans(d, r)
  PROVE  /\ d \in LayerDesc /\ d.oh \in Nat \ {0} /\ d.ow \in Nat \ {0}
         /\ d.cin \in Nat \ {0} /\ d.cout \in Nat \ {0} /\ d.h \in Nat \ {0} /\ d.w \in Nat \ {0}
         /\ pl = [P |-> pl.P, QG |-> pl.QG, Cb |-> pl.Cb, rq |-> pl.rq]
         /\ pl.P \in Nat \ {0} /\ pl.QG \in Nat \ {0} /\ pl.Cb \in Nat \ {0} /\ pl.rq \in BOOLEAN
         /\ (d.oh * d.ow) % pl.P = 0 /\ (d.ow % pl.P = 0 \/ pl.P % d.ow = 0)
         /\ d.cout % (pl.QG * NMAC) = 0
         /\ Accepts(Geom(d, pl, 0, 0, 0))
<1>1. pl \in [P : 1 .. (d.oh * d.ow), QG : 1 .. (d.cout \div NMAC), Cb : 1 .. d.cin, rq : {r}]
  BY DEF Plans
<1>2. d \in LayerDesc /\ NMAC \in Nat \ {0}
  BY DeviceAssumption, TileAssumption
<1>3. /\ d.oh \in Nat \ {0} /\ d.ow \in Nat \ {0} /\ d.h \in Nat \ {0} /\ d.w \in Nat \ {0}
      /\ d.cin \in Nat \ {0} /\ d.cout \in Nat \ {0}
  BY <1>2 DEF LayerDesc
<1>4. d.oh * d.ow \in Nat /\ d.cout \div NMAC \in Int
  BY <1>2, <1>3
<1>5. /\ pl = [P |-> pl.P, QG |-> pl.QG, Cb |-> pl.Cb, rq |-> pl.rq]
      /\ pl.P \in Nat \ {0} /\ pl.QG \in Nat \ {0} /\ pl.Cb \in Nat \ {0} /\ pl.rq \in BOOLEAN
  BY <1>1, <1>3, <1>4
<1>6. /\ PositionsOk(pl.P, d) /\ d.cout % (pl.QG * NMAC) = 0
      /\ Accepts(Geom(d, pl, 0, 0, 0))
  BY DEF Plans
<1> QED BY <1>2, <1>3, <1>5, <1>6 DEF PositionsOk

\* The blocks of a plan fill the positions and the channels.
LEMMA BlocksFill ==
  ASSUME NEW d \in Layers, NEW r \in BOOLEAN, NEW pl \in Plans(d, r)
  PROVE  /\ PosBlocks(d, pl) \in Nat \ {0} /\ ChanBlocks(d, pl) \in Nat \ {0}
         /\ pl.QG * NMAC \in Nat \ {0}
         /\ PosBlocks(d, pl) * pl.P = d.oh * d.ow
         /\ ChanBlocks(d, pl) * (pl.QG * NMAC) = d.cout
<1>1. /\ d.oh \in Nat \ {0} /\ d.ow \in Nat \ {0} /\ d.cout \in Nat \ {0}
      /\ pl.P \in Nat \ {0} /\ pl.QG \in Nat \ {0}
      /\ (d.oh * d.ow) % pl.P = 0 /\ d.cout % (pl.QG * NMAC) = 0
  BY PlanIs
<1>2. NMAC \in Nat \ {0}
  BY DeviceAssumption
<1>3. pl.QG * NMAC \in Nat \ {0} /\ d.oh * d.ow \in Nat \ {0}
  BY <1>1, <1>2, Times
<1>4. ASSUME NEW x \in Nat \ {0}, NEW n \in Nat \ {0}, x % n = 0
      PROVE  x \div n \in Nat \ {0} /\ (x \div n) * n = x
  <2> DEFINE q == x \div n
  <2>1. q \in Int /\ x = (q * n) + (x % n)
    BY Division
  <2> HIDE DEF q
  <2>2. q * n = x
    BY <1>4, <2>1
  <2>3. q <= 0 => q * n <= 0
    BY <2>1
  <2>4. q \in Nat \ {0}
    BY <2>1, <2>2, <2>3
  <2> QED BY <2>2, <2>4 DEF q
<1> QED BY <1>1, <1>3, <1>4 DEF PosBlocks, ChanBlocks

\* However far along its row a block begins, it ends as many rows further on as the
\* first one does.
LEMMA SameSpan ==
  ASSUME NEW P \in Nat \ {0}, NEW w \in Nat \ {0}, NEW m \in Nat, w % P = 0 \/ P % w = 0
  PROVE  (((m * P) % w) + P - 1) \div w = (P - 1) \div w
<1>1. CASE P % w = 0
  <2> DEFINE k == P \div w
  <2>1. k \in Int /\ P = k * w
    <3>1. k \in Int /\ P = (k * w) + (P % w)
      BY Division
    <3> HIDE DEF k
    <3> QED BY <1>1, <3>1
  <2> HIDE DEF k
  <2>2. m * P = (m * k) * w /\ m * k \in Int
    BY <2>1, TimesTimes
  <2>3. (m * P) % w = 0
    BY <2>2, Multiple
  <2> QED BY <2>3
<1>2. CASE w % P = 0
  <2> DEFINE k == w \div P
             a == m \div k
             b == m % k
  <2>1. k \in Int /\ w = k * P
    <3>1. k \in Int /\ w = (k * P) + (w % P)
      BY Division
    <3> HIDE DEF k
    <3> QED BY <1>2, <3>1
  <2> HIDE DEF k
  <2>2. k \in Nat \ {0}
    <3>1. k <= 0 => k * P <= 0
      BY <2>1
    <3> QED BY <2>1, <3>1
  <2>3. a \in Int /\ b \in 0 .. (k - 1) /\ m = (a * k) + b
    BY <2>2, Division
  <2> HIDE DEF a, b
  <2> DEFINE y == b * P
  <2>4. y \in Nat /\ y <= w - P
    <3>1. (k - 1 - b) * P >= 0
      BY <2>2, <2>3
    <3>2. (k - 1 - b) * P = (k * P) - P - (b * P)
      BY <2>2, <2>3
    <3> QED BY <2>1, <2>2, <2>3, <3>1, <3>2, Times
  <2>5. m * P = (a * w) + y
    <3>1. m * P = ((a * k) * P) + (b * P) /\ (a * k) * P = a * (k * P)
      BY <2>2, <2>3, TimesTimes
    <3> QED BY <2>1, <3>1
  <2> HIDE DEF y
  <2>6. y \in 0 .. (w - 1)
    BY <2>4
  <2>7. (m * P) % w = y
    BY <2>3, <2>5, <2>6, DivisionIs
  <2>8. \A z \in 0 .. (w - 1) : z \div w = 0
    <3> TAKE z \in 0 .. (w - 1)
    <3>1. (0 * w) + z = z
      OBVIOUS
    <3> QED BY <3>1, DivisionIs
  <2>9. y + P - 1 \in 0 .. (w - 1) /\ P - 1 \in 0 .. (w - 1)
    BY <2>4
  <2> QED BY <2>7, <2>8, <2>9
<1> QED BY <1>1, <1>2

\* Where block n begins.
LEMMA BlockPlace ==
  ASSUME NEW d \in Layers, NEW r \in BOOLEAN, NEW pl \in Plans(d, r),
         NEW n \in 0 .. (NBlocks(d, pl) - 1)
  PROVE  /\ n % PosBlocks(d, pl) \in 0 .. (PosBlocks(d, pl) - 1)
         /\ n \div PosBlocks(d, pl) \in 0 .. (ChanBlocks(d, pl) - 1)
         /\ n = ((n \div PosBlocks(d, pl)) * PosBlocks(d, pl)) + (n % PosBlocks(d, pl))
<1> DEFINE p == PosBlocks(d, pl)
           c == ChanBlocks(d, pl)
           q == n \div p
           m == n % p
<1>1. p \in Nat \ {0} /\ c \in Nat \ {0}
  BY BlocksFill
<1>2. n \in 0 .. ((p * c) - 1)
  BY DEF NBlocks
<1> HIDE DEF p, c
<1>3. p * c \in Nat /\ n \in Int /\ n >= 0 /\ n < p * c
  BY <1>1, <1>2
<1>4. q \in Int /\ m \in 0 .. (p - 1) /\ n = (q * p) + m
  BY <1>1, <1>3, Division
<1> HIDE DEF q, m
<1>5. q >= 0
  <2>1. q < 0 => (q + 1) * p <= 0
    BY <1>1, <1>4
  <2>2. (q + 1) * p = (q * p) + p
    BY <1>1, <1>4
  <2> QED BY <1>1, <1>3, <1>4, <2>1, <2>2
<1>6. q < c
  <2>1. q >= c => (q - c) * p >= 0
    BY <1>1, <1>4
  <2>2. (q - c) * p = (q * p) - (p * c)
    BY <1>1, <1>4
  <2> QED BY <1>1, <1>3, <1>4, <2>1, <2>2
<1> QED BY <1>1, <1>4, <1>5, <1>6 DEF p, c, q, m

\* The geometry of a block whose last position is span rows below its first.
SpanGeom(d, pl, q0, oy0, ox0, span) ==
  LET st    == Stride(d)
      srows == span * st + 3
      alen  == pl.Cb * srows * d.w
      Q     == pl.QG * NMAC
  IN [d |-> d, st |-> st, P |-> pl.P, QG |-> pl.QG, Cb |-> pl.Cb, Q |-> Q,
      K |-> pl.Cb * 9, npass |-> d.cin \div pl.Cb,
      q0 |-> q0, oy0 |-> oy0, ox0 |-> ox0,
      rowspan |-> span, SROWS |-> srows, strip_ch |-> srows * d.w,
      iy_base |-> oy0 * st - 1, a_len |-> alen, nacc |-> pl.P * Q,
      w_len |-> IF d.wbits = 4 THEN (pl.Cb * 9 * Q) \div 2 ELSE pl.Cb * 9 * Q,
      rq |-> pl.rq /\ Q <= MAXQ /\ alen <= RQBASE /\ pl.P % 2 = 0]

\* ... which is what gb_geom() makes of it.
LEMMA GeomSpan ==
  ASSUME NEW d, NEW pl, NEW q0, NEW oy0, NEW ox0
  PROVE  Geom(d, pl, q0, oy0, ox0)
           = SpanGeom(d, pl, q0, oy0, ox0, (ox0 + pl.P - 1) \div d.ow)
BY Zenon DEF Geom, SpanGeom

\* What of a geometry does not say where the block begins.
Sized(g) ==
  <<g.d, g.P, g.QG, g.Cb, g.Q, g.K, g.npass, g.rowspan, g.a_len, g.nacc, g.w_len, g.rq>>

\* A block begun elsewhere, if its rows span as many, is sized as the first, and the
\* first one's answer to the request stands.
LEMMA SpanSized ==
  ASSUME NEW d, NEW pl, NEW q0, NEW oy0, NEW ox0, NEW r0, NEW py0, NEW px0, NEW span, NEW e,
         e.P = pl.P, e.QG = pl.QG, e.Cb = pl.Cb,
         e.rq = SpanGeom(d, pl, r0, py0, px0, span).rq
  PROVE  /\ SpanGeom(d, e, q0, oy0, ox0, span).q0 = q0
         /\ SpanGeom(d, e, q0, oy0, ox0, span).oy0 = oy0
         /\ SpanGeom(d, e, q0, oy0, ox0, span).ox0 = ox0
         /\ Sized(SpanGeom(d, e, q0, oy0, ox0, span))
              = Sized(SpanGeom(d, pl, r0, py0, px0, span))
<1> DEFINE g == SpanGeom(d, pl, r0, py0, px0, span)
           h == SpanGeom(d, e, q0, oy0, ox0, span)
           Q == pl.QG * NMAC
           srows == span * Stride(d) + 3
           alen == pl.Cb * srows * d.w
           fits == Q <= MAXQ /\ alen <= RQBASE /\ pl.P % 2 = 0
<1>1. h.q0 = q0 /\ h.oy0 = oy0 /\ h.ox0 = ox0
  BY Zenon DEF SpanGeom
<1>2. /\ g.d = d /\ g.P = pl.P /\ g.QG = pl.QG /\ g.Cb = pl.Cb /\ g.rowspan = span
      /\ h.d = d /\ h.P = e.P /\ h.QG = e.QG /\ h.Cb = e.Cb /\ h.rowspan = span
  BY Zenon DEF SpanGeom
<1>3. g.Q = Q /\ g.K = pl.Cb * 9 /\ g.npass = d.cin \div pl.Cb /\ g.nacc = pl.P * Q
  BY Zenon DEF SpanGeom
<1>4. /\ h.Q = e.QG * NMAC /\ h.K = e.Cb * 9 /\ h.npass = d.cin \div e.Cb
      /\ h.nacc = e.P * (e.QG * NMAC)
  BY Zenon DEF SpanGeom
<1>5. /\ g.a_len = alen
      /\ g.w_len = IF d.wbits = 4 THEN (pl.Cb * 9 * Q) \div 2 ELSE pl.Cb * 9 * Q
  BY Zenon DEF SpanGeom
<1>6. /\ h.a_len = e.Cb * srows * d.w
      /\ h.w_len = IF d.wbits = 4 THEN (e.Cb * 9 * (e.QG * NMAC)) \div 2
                   ELSE e.Cb * 9 * (e.QG * NMAC)
  BY Zenon DEF SpanGeom
<1>7. g.rq = (pl.rq /\ fits)
  BY Zenon DEF SpanGeom
<1>8. h.rq = (e.rq /\ e.QG * NMAC <= MAXQ /\ e.Cb * srows * d.w <= RQBASE /\ e.P % 2 = 0)
  BY Zenon DEF SpanGeom
<1>9. h.rq = g.rq
  <2> HIDE DEF g, h
  <2>1. h.rq = (g.rq /\ fits)
    BY <1>8, Zenon DEF g
  <2> HIDE DEF fits
  <2> QED BY <1>7, <2>1, Zenon
<1> HIDE DEF g, h
<1>10. Sized(h) = Sized(g)
  BY <1>2, <1>3, <1>4, <1>5, <1>6, <1>9, Zenon DEF Sized
<1> QED BY <1>1, <1>10 DEF g, h

\* Every block is the first one, begun elsewhere.
LEMMA BlockIs ==
  ASSUME NEW d \in Layers, NEW r \in BOOLEAN, NEW pl \in Plans(d, r),
         NEW n \in 0 .. (NBlocks(d, pl) - 1)
  PROVE  LET pos == (n % PosBlocks(d, pl)) * pl.P
         IN /\ Block(d, pl, n).q0 = (n \div PosBlocks(d, pl)) * (pl.QG * NMAC)
            /\ Block(d, pl, n).oy0 = pos \div d.ow /\ Block(d, pl, n).ox0 = pos % d.ow
            /\ Sized(Block(d, pl, n)) = Sized(Geom(d, pl, 0, 0, 0))
<1> DEFINE m == n % PosBlocks(d, pl)
           b == n \div PosBlocks(d, pl)
           pos == m * pl.P
           g == Geom(d, pl, 0, 0, 0)
           p == [pl EXCEPT !.rq = g.rq]
           span == (pl.P - 1) \div d.ow
<1>1. /\ pl = [P |-> pl.P, QG |-> pl.QG, Cb |-> pl.Cb, rq |-> pl.rq]
      /\ pl.P \in Nat \ {0} /\ pl.QG \in Nat \ {0} /\ pl.rq \in BOOLEAN
      /\ d.ow \in Nat \ {0} /\ (d.ow % pl.P = 0 \/ pl.P % d.ow = 0) /\ NMAC \in Nat \ {0}
  BY PlanIs, DeviceAssumption
<1>2. m \in Nat /\ b \in Int
  BY BlockPlace, BlocksFill
<1>3. p.P = pl.P /\ p.QG = pl.QG /\ p.Cb = pl.Cb /\ p.rq = g.rq
  <2> HIDE DEF g
  <2> QED BY <1>1
<1>4. ((pos % d.ow) + pl.P - 1) \div d.ow = span
  BY <1>1, <1>2, SameSpan
<1>5. 0 + pl.P - 1 = pl.P - 1
  BY <1>1
<1>6. b * pl.QG * NMAC = b * (pl.QG * NMAC)
  BY <1>1, <1>2, TimesTimes
<1>7. Block(d, pl, n) = Geom(d, p, b * pl.QG * NMAC, pos \div d.ow, pos % d.ow)
  BY Zenon DEF Block
<1>8. g = SpanGeom(d, pl, 0, 0, 0, span)
  <2>1. g = SpanGeom(d, pl, 0, 0, 0, (0 + pl.P - 1) \div d.ow)
    BY GeomSpan, Zenon
  <2> QED BY <1>5, <2>1, Zenon
<1> HIDE DEF m, b, pos, p, g
<1>9. Block(d, pl, n) = SpanGeom(d, p, b * (pl.QG * NMAC), pos \div d.ow, pos % d.ow, span)
  <2>1. Block(d, pl, n)
          = SpanGeom(d, p, b * pl.QG * NMAC, pos \div d.ow, pos % d.ow,
                     ((pos % d.ow) + p.P - 1) \div d.ow)
    BY <1>7, GeomSpan, Zenon
  <2> QED BY <1>3, <1>4, <1>6, <2>1, Zenon
<1> HIDE DEF span
<1>10. p.rq = SpanGeom(d, pl, 0, 0, 0, span).rq
  BY <1>3, <1>8
<1> DEFINE q0 == b * (pl.QG * NMAC)
           oy == pos \div d.ow
           ox == pos % d.ow
<1> HIDE DEF q0, oy, ox
<1>11. /\ SpanGeom(d, p, q0, oy, ox, span).q0 = q0
       /\ SpanGeom(d, p, q0, oy, ox, span).oy0 = oy
       /\ SpanGeom(d, p, q0, oy, ox, span).ox0 = ox
       /\ Sized(SpanGeom(d, p, q0, oy, ox, span)) = Sized(SpanGeom(d, pl, 0, 0, 0, span))
  BY <1>3, <1>10, SpanSized
<1>12. Block(d, pl, n) = SpanGeom(d, p, q0, oy, ox, span)
  BY <1>9, Zenon DEF q0, oy, ox
<1>13. /\ Block(d, pl, n).q0 = q0 /\ Block(d, pl, n).oy0 = oy /\ Block(d, pl, n).ox0 = ox
       /\ Sized(Block(d, pl, n)) = Sized(g)
  BY <1>8, <1>11, <1>12, Zenon
<1> QED BY <1>13, Zenon DEF m, b, pos, g, q0, oy, ox

\* A number below c * p is a quotient below c and a remainder below p ...
LEMMA SplitOf ==
  ASSUME NEW c \in Nat \ {0}, NEW p \in Nat \ {0}, NEW x \in 0 .. ((c * p) - 1)
  PROVE  x \div p \in 0 .. (c - 1) /\ x % p \in 0 .. (p - 1)
<1> DEFINE q == x \div p
           m == x % p
<1>1. c * p \in Nat /\ x \in Int /\ x >= 0 /\ x < c * p
  BY Times
<1>2. q \in Int /\ m \in 0 .. (p - 1) /\ x = (q * p) + m
  BY <1>1, Division
<1> HIDE DEF q, m
<1>3. q >= 0
  <2>1. q < 0 => (q + 1) * p <= 0
    BY <1>2
  <2>2. (q + 1) * p = (q * p) + p
    BY <1>2
  <2> QED BY <1>1, <1>2, <2>1, <2>2
<1>4. q < c
  <2>1. q >= c => (q - c) * p >= 0
    BY <1>2
  <2>2. (q - c) * p = (q * p) - (c * p)
    BY <1>2
  <2> QED BY <1>1, <1>2, <2>1, <2>2
<1> QED BY <1>2, <1>3, <1>4 DEF q, m

\* ... and they make one.
LEMMA JoinOf ==
  ASSUME NEW c \in Nat \ {0}, NEW p \in Nat \ {0}, NEW q \in 0 .. (c - 1), NEW m \in 0 .. (p - 1)
  PROVE  /\ (q * p) + m \in 0 .. ((c * p) - 1)
         /\ ((q * p) + m) \div p = q /\ ((q * p) + m) % p = m
<1>1. q \in Nat /\ m \in Nat /\ q * p \in Nat /\ c * p \in Nat
  BY Times
<1>2. (c - 1 - q) * p >= 0
  <2>1. c - 1 - q \in Nat
    OBVIOUS
  <2> QED BY <2>1, Times
<1>3. (c - 1 - q) * p = (c * p) - p - (q * p)
  BY <1>1
<1>4. (q * p) + m <= (c * p) - 1
  BY <1>1, <1>2, <1>3
<1> QED BY <1>1, <1>4, DivisionIs

\* The fields of a geometry that do not depend on its place.
LEMMA SizedIs ==
  ASSUME NEW g, NEW h, Sized(g) = Sized(h)
  PROVE  /\ g.d = h.d /\ g.P = h.P /\ g.QG = h.QG /\ g.Cb = h.Cb /\ g.Q = h.Q /\ g.K = h.K
         /\ g.npass = h.npass /\ g.rowspan = h.rowspan /\ g.a_len = h.a_len
         /\ g.nacc = h.nacc /\ g.w_len = h.w_len /\ g.rq = h.rq
BY DEF Sized

\* The sizes of a plan's blocks.
LEMMA BlockSize ==
  ASSUME NEW d \in Layers, NEW r \in BOOLEAN, NEW pl \in Plans(d, r),
         NEW n \in 0 .. (NBlocks(d, pl) - 1)
  PROVE  LET g == Block(d, pl, n) IN
         /\ Sized(g) = Sized(Geom(d, pl, 0, 0, 0))
         /\ g.d = d /\ g.P = pl.P /\ g.Q = pl.QG * NMAC /\ g.nacc = pl.P * (pl.QG * NMAC)
         /\ g.rowspan = (pl.P - 1) \div d.ow
<1> DEFINE o == SpanGeom(d, pl, 0, 0, 0, (0 + pl.P - 1) \div d.ow)
           g == Block(d, pl, n)
<1>1. Sized(g) = Sized(o) /\ Sized(g) = Sized(Geom(d, pl, 0, 0, 0))
  BY BlockIs, GeomSpan, Zenon
<1>2. o.d = d /\ o.P = pl.P /\ o.Q = pl.QG * NMAC /\ o.nacc = pl.P * (pl.QG * NMAC)
  BY Zenon DEF SpanGeom
<1>3. o.rowspan = (0 + pl.P - 1) \div d.ow
  BY Zenon DEF SpanGeom
<1>4. 0 + pl.P - 1 = pl.P - 1
  BY PlanIs
<1> HIDE DEF o, g
<1>5. g.d = o.d /\ g.P = o.P /\ g.Q = o.Q /\ g.nacc = o.nacc /\ g.rowspan = o.rowspan
  BY <1>1, SizedIs
<1> QED BY <1>1, <1>2, <1>3, <1>4, <1>5 DEF g

\* Every block is accepted.
LEMMA BlocksAccepted ==
  ASSUME NEW d \in Layers, NEW r \in BOOLEAN, NEW pl \in Plans(d, r),
         NEW n \in 0 .. (NBlocks(d, pl) - 1)
  PROVE  Accepts(Block(d, pl, n))
<1> DEFINE m == n % PosBlocks(d, pl)
           b == n \div PosBlocks(d, pl)
           Q == pl.QG * NMAC
           pos == m * pl.P
           oy == pos \div d.ow
           ox == pos % d.ow
           span == (pl.P - 1) \div d.ow
           g == Block(d, pl, n)
           o == Geom(d, pl, 0, 0, 0)
           PB == PosBlocks(d, pl)
           CB == ChanBlocks(d, pl)
<1>1. /\ d.ow \in Nat \ {0} /\ d.oh \in Nat \ {0} /\ pl.P \in Nat \ {0} /\ Accepts(o)
      /\ (d.ow % pl.P = 0 \/ pl.P % d.ow = 0)
  BY PlanIs
<1>2. /\ PB \in Nat \ {0} /\ CB \in Nat \ {0} /\ Q \in Nat \ {0}
      /\ PB * pl.P = d.oh * d.ow /\ CB * Q = d.cout
  BY BlocksFill
<1>3. m \in 0 .. (PB - 1) /\ b \in 0 .. (CB - 1)
  BY BlockPlace
<1>4. /\ g.q0 = b * Q /\ g.oy0 = oy /\ g.ox0 = ox /\ Sized(g) = Sized(o)
      /\ g.d = d /\ g.Q = Q /\ g.rowspan = span
  <2>1. g.q0 = b * Q /\ g.oy0 = oy /\ g.ox0 = ox /\ Sized(g) = Sized(o)
    BY BlockIs
  <2>2. g.d = d /\ g.Q = Q /\ g.rowspan = span
    BY BlockSize
  <2> QED BY <2>1, <2>2
<1> HIDE DEF g, o, m, b, Q, PB, CB
<1>5. (ox + pl.P - 1) \div d.ow = span
  <2>1. m \in Nat
    BY <1>2, <1>3
  <2>2. pl.P \in Nat \ {0} /\ d.ow \in Nat \ {0} /\ (d.ow % pl.P = 0 \/ pl.P % d.ow = 0)
    BY <1>1
  <2> QED BY <2>1, <2>2, SameSpan
<1>6. g.q0 + g.Q <= d.cout
  <2>1. (b + 1) * Q = (b * Q) + Q /\ (CB - (b + 1)) * Q = (CB * Q) - ((b + 1) * Q)
    BY <1>2, <1>3
  <2>2. CB - (b + 1) \in Nat
    BY <1>2, <1>3
  <2>3. (CB - (b + 1)) * Q >= 0
    BY <1>2, <2>2, Times
  <2>4. b * Q \in Nat /\ CB * Q \in Nat
    BY <1>2, <1>3, Times
  <2> QED BY <1>2, <1>4, <2>1, <2>3, <2>4
<1>7. g.oy0 + g.rowspan < d.oh
  <2>1. pos \in Nat /\ pos + pl.P <= d.oh * d.ow
    <3>1. (m + 1) * pl.P = pos + pl.P /\ (PB - (m + 1)) * pl.P = (PB * pl.P) - ((m + 1) * pl.P)
      BY <1>1, <1>2, <1>3
    <3>2. PB - (m + 1) \in Nat
      BY <1>2, <1>3
    <3>3. (PB - (m + 1)) * pl.P >= 0
      BY <1>1, <3>2, Times
    <3>4. pos \in Nat /\ PB * pl.P \in Nat
      BY <1>1, <1>2, <1>3, Times
    <3> QED BY <1>1, <1>2, <3>1, <3>3, <3>4
  <2> HIDE DEF pos
  <2>0. pos \in Int
    BY <2>1
  <2>2. oy \in Int /\ ox \in 0 .. (d.ow - 1) /\ pos = (oy * d.ow) + ox
    BY <1>1, <2>0, Division
  <2> HIDE DEF oy, ox
  <2>3. ox + pl.P - 1 \in Int
    BY <1>1, <2>2
  <2> DEFINE e == (ox + pl.P - 1) % d.ow
  <2>4. e \in 0 .. (d.ow - 1) /\ ox + pl.P - 1 = (span * d.ow) + e /\ span \in Int
    BY <1>1, <1>5, <2>3, Division
  <2> HIDE DEF span, e
  <2>5. oy * d.ow \in Int /\ span * d.ow \in Int /\ d.oh * d.ow \in Int
    BY <1>1, <2>2, <2>4
  <2>6. (oy * d.ow) + (span * d.ow) < d.oh * d.ow
    BY <1>1, <2>1, <2>2, <2>4, <2>5
  <2>7. oy + span >= d.oh => ((oy + span) - d.oh) * d.ow >= 0
    BY <1>1, <2>2, <2>4
  <2>8. ((oy + span) - d.oh) * d.ow = ((oy * d.ow) + (span * d.ow)) - (d.oh * d.ow)
    BY <1>1, <2>2, <2>4
  <2>9. oy + span < d.oh
    BY <1>1, <2>2, <2>4, <2>5, <2>6, <2>7, <2>8
  <2> QED BY <1>4, <2>9
<1>8. /\ g.Cb = o.Cb /\ g.d = o.d /\ g.P = o.P /\ g.QG = o.QG /\ g.K = o.K /\ g.a_len = o.a_len
      /\ g.w_len = o.w_len
  BY <1>4, SizedIs
<1>9. Accepts(g)
  BY <1>1, <1>4, <1>6, <1>7, <1>8, Zenon DEF Accepts
<1> QED BY <1>9 DEF g

\* Counted through the whole layer, its position is its block's first and its own.
LEMMA ReadsIs ==
  ASSUME NEW d \in Layers, NEW r \in BOOLEAN, NEW pl \in Plans(d, r),
         NEW n \in 0 .. (NBlocks(d, pl) - 1),
         NEW a \in 0 .. ((pl.P * (pl.QG * NMAC)) - 1)
  PROVE  LET at == ((n % PosBlocks(d, pl)) * pl.P) + (a % pl.P)
         IN Reads(d, pl, n, a)
              = <<((n \div PosBlocks(d, pl)) * (pl.QG * NMAC)) + (a \div pl.P),
                  at \div d.ow, at % d.ow>>
<1> DEFINE m == n % PosBlocks(d, pl)
           q0 == (n \div PosBlocks(d, pl)) * (pl.QG * NMAC)
           at == (m * pl.P) + (a % pl.P)
           g == Block(d, pl, n)
           oy == (m * pl.P) \div d.ow
           ox == (m * pl.P) % d.ow
           e == ox + (a % pl.P)
           f == e \div d.ow
           h == e % d.ow
<1>1. d.ow \in Nat \ {0} /\ pl.P \in Nat \ {0}
  BY PlanIs
<1>2. m \in Nat /\ m * pl.P \in Int
  BY <1>1, BlockPlace, BlocksFill, Times
<1>3. g.q0 = q0 /\ g.oy0 = oy /\ g.ox0 = ox /\ g.P = pl.P
  <2>1. g.q0 = q0 /\ g.oy0 = oy /\ g.ox0 = ox
    BY BlockIs
  <2>2. g.P = pl.P
    BY BlockSize
  <2> QED BY <2>1, <2>2
<1>4. Reads(d, pl, n, a) = <<q0 + (a \div pl.P), oy + f, h>>
  <2> HIDE DEF q0, oy, ox
  <2> QED BY <1>3, Zenon DEF Reads, ChannelOf
<1>5. pl.P * (pl.QG * NMAC) \in Int /\ a \in Int
  BY BlockSize, <1>1, BlocksFill, Times
<1>6. a % pl.P \in 0 .. (pl.P - 1)
  BY <1>1, <1>5, Division
<1> HIDE DEF q0, m
<1>7. oy \in Int /\ ox \in 0 .. (d.ow - 1) /\ m * pl.P = (oy * d.ow) + ox
  BY <1>1, <1>2, Division
<1> HIDE DEF oy, ox
<1>8. e \in Int /\ at = (oy * d.ow) + e
  BY <1>1, <1>2, <1>6, <1>7
<1> HIDE DEF e, at
<1>9. f \in Int /\ h \in 0 .. (d.ow - 1) /\ e = (f * d.ow) + h
  BY <1>1, <1>8, Division
<1> HIDE DEF f, h
<1>10. at = ((oy + f) * d.ow) + h
  BY <1>1, <1>7, <1>8, <1>9, TimesTimes
<1>11. at \div d.ow = oy + f /\ at % d.ow = h
  <2> DEFINE s == oy + f
  <2>1. s \in Int /\ at = (s * d.ow) + h
    BY <1>7, <1>9, <1>10
  <2> HIDE DEF s
  <2>2. at \div d.ow = s /\ at % d.ow = h
    BY <1>1, <1>9, <2>1, DivisionIs
  <2> QED BY <2>2 DEF s
<1>12. Reads(d, pl, n, a) = <<q0 + (a \div pl.P), at \div d.ow, at % d.ow>>
  BY <1>4, <1>11
<1> QED BY <1>12, Zenon DEF q0, at, m

\* Nothing is read outside the layer ...
LEMMA ReadsInside ==
  ASSUME NEW d \in Layers, NEW r \in BOOLEAN, NEW pl \in Plans(d, r),
         NEW n \in 0 .. (NBlocks(d, pl) - 1),
         NEW a \in 0 .. ((pl.P * (pl.QG * NMAC)) - 1)
  PROVE  Reads(d, pl, n, a)
           \in (0 .. (d.cout - 1)) \X (0 .. (d.oh - 1)) \X (0 .. (d.ow - 1))
<1> DEFINE Q == pl.QG * NMAC
           PB == PosBlocks(d, pl)
           CB == ChanBlocks(d, pl)
           m == n % PB
           b == n \div PB
           x == a \div pl.P
           y == a % pl.P
           at == (m * pl.P) + y
<1>1. d.ow \in Nat \ {0} /\ d.oh \in Nat \ {0} /\ pl.P \in Nat \ {0}
  BY PlanIs
<1>2. /\ PB \in Nat \ {0} /\ CB \in Nat \ {0} /\ Q \in Nat \ {0}
      /\ PB * pl.P = d.oh * d.ow /\ CB * Q = d.cout
  BY BlocksFill
<1>3. m \in 0 .. (PB - 1) /\ b \in 0 .. (CB - 1)
  BY BlockPlace
<1>4. Reads(d, pl, n, a) = <<(b * Q) + x, at \div d.ow, at % d.ow>>
  BY ReadsIs
<1> HIDE DEF Q, PB, CB, m, b
<1>5. x \in 0 .. (Q - 1) /\ y \in 0 .. (pl.P - 1)
  <2>1. pl.P * Q = Q * pl.P /\ a \in 0 .. ((pl.P * Q) - 1)
    BY <1>1, <1>2, Times DEF Q
  <2>2. a \in 0 .. ((Q * pl.P) - 1)
    BY <2>1, Zenon
  <2> QED BY <1>1, <1>2, <2>2, SplitOf
<1> HIDE DEF x, y
<1>6. (b * Q) + x \in 0 .. (d.cout - 1)
  <2>1. (b * Q) + x \in 0 .. ((CB * Q) - 1)
    BY <1>2, <1>3, <1>5, JoinOf
  <2> QED BY <1>2, <2>1, Zenon
<1>7. at \in 0 .. ((d.oh * d.ow) - 1)
  <2>1. at \in 0 .. ((PB * pl.P) - 1)
    BY <1>1, <1>2, <1>3, <1>5, JoinOf
  <2> QED BY <1>2, <2>1, Zenon
<1> HIDE DEF at
<1>8. at \div d.ow \in 0 .. (d.oh - 1) /\ at % d.ow \in 0 .. (d.ow - 1)
  BY <1>1, <1>7, SplitOf
<1> QED BY <1>4, <1>6, <1>8

\* ... and all of the layer is read.
LEMMA ReadsAll ==
  ASSUME NEW d \in Layers, NEW r \in BOOLEAN, NEW pl \in Plans(d, r),
         NEW oc \in 0 .. (d.cout - 1), NEW oy \in 0 .. (d.oh - 1), NEW ox \in 0 .. (d.ow - 1)
  PROVE  \E n \in 0 .. (NBlocks(d, pl) - 1), a \in 0 .. ((pl.P * (pl.QG * NMAC)) - 1) :
           Reads(d, pl, n, a) = <<oc, oy, ox>>
<1> DEFINE Q == pl.QG * NMAC
           PB == PosBlocks(d, pl)
           CB == ChanBlocks(d, pl)
           at == (oy * d.ow) + ox
           m == at \div pl.P
           y == at % pl.P
           b == oc \div Q
           x == oc % Q
           n == (b * PB) + m
           a == (x * pl.P) + y
<1>1. d.ow \in Nat \ {0} /\ d.oh \in Nat \ {0} /\ pl.P \in Nat \ {0}
  BY PlanIs
<1>2. /\ PB \in Nat \ {0} /\ CB \in Nat \ {0} /\ Q \in Nat \ {0}
      /\ PB * pl.P = d.oh * d.ow /\ CB * Q = d.cout
  BY BlocksFill
<1>3. NBlocks(d, pl) = CB * PB /\ pl.P * Q = Q * pl.P
  BY <1>1, <1>2, Times DEF NBlocks
<1> HIDE DEF Q, PB, CB
<1>4. at \in 0 .. ((d.oh * d.ow) - 1) /\ at \div d.ow = oy /\ at % d.ow = ox
  <2> DEFINE h == d.oh
             w == d.ow
  <2>1. h \in Nat \ {0} /\ w \in Nat \ {0} /\ oy \in 0 .. (h - 1) /\ ox \in 0 .. (w - 1)
    BY <1>1
  <2> HIDE DEF h, w
  <2>2. /\ (oy * w) + ox \in 0 .. ((h * w) - 1)
        /\ ((oy * w) + ox) \div w = oy /\ ((oy * w) + ox) % w = ox
    BY <2>1, JoinOf
  <2> QED BY <2>2 DEF h, w
<1>5. at \in 0 .. ((PB * pl.P) - 1) /\ oc \in 0 .. ((CB * Q) - 1)
  BY <1>2, <1>4, Zenon
<1>6. at \in Int /\ oc \in Int
  <2>1. PB * pl.P \in Int /\ CB * Q \in Int
    BY <1>1, <1>2, Times
  <2> HIDE DEF at
  <2> QED BY <1>5, <2>1
<1> HIDE DEF at
<1>7. m \in 0 .. (PB - 1) /\ y \in 0 .. (pl.P - 1) /\ at = (m * pl.P) + y
  BY <1>1, <1>2, <1>5, <1>6, SplitOf, Division
<1>8. b \in 0 .. (CB - 1) /\ x \in 0 .. (Q - 1) /\ oc = (b * Q) + x
  BY <1>2, <1>5, <1>6, SplitOf, Division
<1> HIDE DEF m, y, b, x
<1>9. n \in 0 .. ((CB * PB) - 1) /\ n \div PB = b /\ n % PB = m
  BY <1>2, <1>7, <1>8, JoinOf
<1>10. a \in 0 .. ((Q * pl.P) - 1) /\ a \div pl.P = x /\ a % pl.P = y
  <2> DEFINE P == pl.P
  <2>1. P \in Nat \ {0} /\ y \in 0 .. (P - 1)
    BY <1>1, <1>7
  <2> HIDE DEF P
  <2>2. /\ (x * P) + y \in 0 .. ((Q * P) - 1)
        /\ ((x * P) + y) \div P = x /\ ((x * P) + y) % P = y
    BY <1>2, <1>8, <2>1, JoinOf
  <2> QED BY <2>2 DEF P
<1> HIDE DEF n, a
<1>11. n \in 0 .. (NBlocks(d, pl) - 1) /\ a \in 0 .. ((pl.P * Q) - 1)
  BY <1>3, <1>9, <1>10, Zenon
<1>12. Reads(d, pl, n, a)
         = <<((n \div PB) * Q) + (a \div pl.P),
             (((n % PB) * pl.P) + (a % pl.P)) \div d.ow,
             (((n % PB) * pl.P) + (a % pl.P)) % d.ow>>
  BY <1>11, ReadsIs DEF Q, PB
<1>13. Reads(d, pl, n, a) = <<oc, oy, ox>>
  BY <1>4, <1>7, <1>8, <1>9, <1>10, <1>12, Zenon
<1> QED BY <1>11, <1>13 DEF Q

\* A set of naturals has a least one.
LEMMA LeastOf ==
  ASSUME NEW T, T \subseteq Nat, T # {}
  PROVE  \E i \in T : \A j \in T : i <= j
<1> DEFINE R == {ss \in Nat \X Nat : ss[1] < ss[2]}
<1>1. IsWellFoundedOn(R, Nat)
  BY NatLessThanWellFounded DEF OpToRel
<1>2. \A x \in Nat, y \in Nat : y < x => <<y, x>> \in R
  OBVIOUS
<1> HIDE DEF R
<1>3. PICK i \in T : \A j \in T : ~(<<j, i>> \in R)
  BY <1>1, WFMin
<1>4. \A j \in T : ~(j < i)
  BY <1>2, <1>3
<1> QED BY <1>4

\* A set's element the fold takes out first.
Taken(s) == CHOOSE x \in s : TRUE

\* The sums of f over the subsets of S, as the fold of the community modules
\* computes them.
IsSums(f, S, g) ==
  g = [s \in SUBSET S |-> IF s = {} THEN 0 ELSE f[Taken(s)] + g[s \ {Taken(s)}]]

\* The fold itself, with a name of its own.
Total(f) == FoldFunction(+, 0, f)

\* A fold is whichever function of that kind there is, at the whole of the domain.
LEMMA FoldIs ==
  ASSUME NEW f
  PROVE  Total(f) = (CHOOSE g : IsSums(f, DOMAIN f, g))[DOMAIN f]
BY Zenon DEF Total, FoldFunction, FoldFunctionOnSet, MapThenFoldSet, IsSums, Taken

\* There is one such function at most.
LEMMA SumsAreOne ==
  ASSUME NEW f, NEW S, IsFiniteSet(S), NEW g, NEW h, IsSums(f, S, g), IsSums(f, S, h)
  PROVE  g = h
<1> SUFFICES ASSUME g # h PROVE FALSE
  OBVIOUS
<1>1. /\ \A s \in SUBSET S : g[s] = IF s = {} THEN 0 ELSE f[Taken(s)] + g[s \ {Taken(s)}]
      /\ \A s \in SUBSET S : h[s] = IF s = {} THEN 0 ELSE f[Taken(s)] + h[s \ {Taken(s)}]
      /\ DOMAIN g = SUBSET S /\ DOMAIN h = SUBSET S
      /\ g = [s \in SUBSET S |-> g[s]] /\ h = [s \in SUBSET S |-> h[s]]
  BY DEF IsSums
<1>2. PICK s \in SUBSET S : g[s] # h[s]
  BY <1>1
<1> DEFINE Sizes == {Cardinality(t) : t \in {u \in SUBSET S : g[u] # h[u]}}
<1>3. Sizes \subseteq Nat /\ Sizes # {}
  <2>1. \A t \in SUBSET S : Cardinality(t) \in Nat
    BY FS_Subset, FS_CardinalityType
  <2> QED BY <1>2, <2>1
<1>4. PICK k \in Sizes : \A j \in Sizes : k <= j
  <2> HIDE DEF Sizes
  <2> QED BY <1>3, LeastOf
<1>5. PICK t \in SUBSET S : g[t] # h[t] /\ Cardinality(t) = k
  BY <1>4
<1>6. \A u \in SUBSET S : g[u] # h[u] => k <= Cardinality(u)
  BY <1>4
<1>7. t # {}
  BY <1>1, <1>5
<1> DEFINE u == t \ {Taken(t)}
<1>8. Taken(t) \in t
  BY <1>7 DEF Taken
<1>9. u \in SUBSET S /\ Cardinality(u) = k - 1 /\ k \in Nat
  BY <1>3, <1>4, <1>5, <1>8, FS_Subset, FS_RemoveElement
<1>10. g[u] = h[u]
  <2> HIDE DEF u
  <2> QED BY <1>6, <1>9
<1> QED BY <1>1, <1>5, <1>7, <1>10

\* Any function that satisfies the equation of the sums is the sums.
LEMMA FoldOf ==
  ASSUME NEW f, IsFiniteSet(DOMAIN f), NEW h, IsSums(f, DOMAIN f, h)
  PROVE  Total(f) = h[DOMAIN f]
<1>1. IsSums(f, DOMAIN f, CHOOSE g : IsSums(f, DOMAIN f, g))
  BY Zenon
<1> QED BY <1>1, FoldIs, SumsAreOne, Zenon

\* A sum of two prices: one for every element, and one more for some of them.
LEMMA FoldOfTwo ==
  ASSUME NEW S, IsFiniteSet(S), NEW M \in SUBSET S, NEW bare \in Int, NEW more \in Int,
         NEW f, f = [i \in S |-> IF i \in M THEN bare + more ELSE bare]
  PROVE  Total(f) = (bare * Cardinality(S)) + (more * Cardinality(M))
<1> DEFINE C(s) == Cardinality(s)
           h == [s \in SUBSET S |-> (bare * C(s)) + (more * C(s \cap M))]
<1>1. \A s \in SUBSET S : C(s) \in Nat /\ C(s \cap M) \in Nat /\ IsFiniteSet(s)
                          /\ IsFiniteSet(s \cap M)
  BY FS_Subset, FS_CardinalityType, FS_Intersection
<1>2. ASSUME NEW s \in SUBSET S
      PROVE  (bare * C(s)) + (more * C(s \cap M))
               = IF s = {} THEN 0 ELSE f[Taken(s)] + h[s \ {Taken(s)}]
  <2>1. CASE s = {}
    <3>1. C(s) = 0 /\ C(s \cap M) = 0
      BY <2>1, FS_EmptySet
    <3> QED BY <2>1, <3>1
  <2>2. CASE s # {}
    <3> DEFINE x == Taken(s)
               u == s \ {x}
    <3>1. x \in s /\ x \in S
      BY <2>2 DEF Taken
    <3> HIDE DEF x
    <3>2. u \in SUBSET S /\ C(u) = C(s) - 1
      BY <1>1, <3>1, FS_RemoveElement
    <3>3. h[u] = (bare * C(u)) + (more * C(u \cap M))
      BY <3>2
    <3>4. f[x] = IF x \in M THEN bare + more ELSE bare
      BY <3>1
    <3>5. C(u \cap M) = IF x \in M THEN C(s \cap M) - 1 ELSE C(s \cap M)
      <4>1. u \cap M = (s \cap M) \ {x}
        OBVIOUS
      <4>2. x \in M <=> x \in s \cap M
        BY <3>1
      <4> DEFINE v == s \cap M
      <4>3. IsFiniteSet(v)
        BY <1>1
      <4> HIDE DEF u, v
      <4>4. Cardinality(v \ {x}) = IF x \in v THEN Cardinality(v) - 1 ELSE Cardinality(v)
        BY <4>3, FS_RemoveElement
      <4> QED BY <4>1, <4>2, <4>4 DEF v
    <3> DEFINE a == C(s)
               b == C(s \cap M)
    <3>6. a \in Nat /\ b \in Nat
      BY <1>1
    <3> HIDE DEF h, u, C, a, b
    <3>7. (bare * a) + (more * b) = f[x] + h[u]
      <4>1. CASE x \in M
        <5>1. f[x] = bare + more /\ h[u] = (bare * (a - 1)) + (more * (b - 1))
          BY <3>2, <3>3, <3>4, <3>5, <4>1 DEF a, b
        <5>2. bare * (a - 1) = (bare * a) - bare /\ more * (b - 1) = (more * b) - more
          BY <3>6
        <5>3. bare * a \in Int /\ more * b \in Int
          BY <3>6
        <5> QED BY <5>1, <5>2, <5>3
      <4>2. CASE x \notin M
        <5>1. f[x] = bare /\ h[u] = (bare * (a - 1)) + (more * b)
          BY <3>2, <3>3, <3>4, <3>5, <4>2 DEF a, b
        <5>2. bare * (a - 1) = (bare * a) - bare
          BY <3>6
        <5>3. bare * a \in Int /\ more * b \in Int
          BY <3>6
        <5> QED BY <5>1, <5>2, <5>3
      <4> QED BY <4>1, <4>2
    <3> QED BY <2>2, <3>7 DEF a, b, u, x
  <2> QED BY <2>1, <2>2
<1>3. IsSums(f, S, h)
  BY <1>2, Zenon DEF IsSums
<1>4. DOMAIN f = S
  OBVIOUS
<1>5. h[S] = (bare * C(S)) + (more * C(S \cap M)) /\ S \cap M = M
  OBVIOUS
<1> HIDE DEF h
<1> QED BY <1>3, <1>4, <1>5, FoldOf

\* Every p-th number of the first p * c is one of c.
LEMMA EveryNth ==
  ASSUME NEW p \in Nat \ {0}, NEW c \in Nat \ {0}
  PROVE  Cardinality({i \in 0 .. ((p * c) - 1) : i % p = 0}) = c
<1> DEFINE T == {i \in 0 .. ((p * c) - 1) : i % p = 0}
           f == [q \in 0 .. (c - 1) |-> q * p]
<1>1. \A q \in 0 .. (c - 1) : q * p \in T /\ (q * p) \div p = q
  <2> TAKE q \in 0 .. (c - 1)
  <2>1. 0 \in 0 .. (p - 1) /\ (q * p) + 0 = q * p /\ p * c = c * p
    OBVIOUS
  <2>2. (q * p) + 0 \in 0 .. ((c * p) - 1)
    BY <2>1, JoinOf
  <2>3. (q * p) \div p = q /\ (q * p) % p = 0
    BY Multiple
  <2> QED BY <2>1, <2>2, <2>3
<1>2. \A i \in T : i \div p \in 0 .. (c - 1) /\ (i \div p) * p = i
  <2> TAKE i \in T
  <2>1. p * c = c * p /\ p * c \in Int
    OBVIOUS
  <2>2. i \in 0 .. ((c * p) - 1) /\ i \in Int
    BY <2>1
  <2>3. i \div p \in 0 .. (c - 1)
    BY <2>2, SplitOf
  <2>4. i = ((i \div p) * p) + (i % p) /\ i % p = 0 /\ i \div p \in Int
    BY <2>2, Division
  <2> QED BY <2>3, <2>4
<1> HIDE DEF T
<1>3. f \in Bijection(0 .. (c - 1), T)
  <2>1. f \in [0 .. (c - 1) -> T]
    BY <1>1
  <2>2. \A x, y \in 0 .. (c - 1) : f[x] = f[y] => x = y
    <3> TAKE x, y \in 0 .. (c - 1)
    <3> HAVE f[x] = f[y]
    <3>1. x * p = y * p
      OBVIOUS
    <3> QED BY <1>1, <3>1, Zenon
  <2>3. \A t \in T : \E x \in 0 .. (c - 1) : f[x] = t
    <3> TAKE t \in T
    <3>1. t \div p \in 0 .. (c - 1) /\ (t \div p) * p = t
      BY <1>2
    <3> QED BY <3>1
  <2> QED BY <2>1, <2>2, <2>3 DEF Bijection, Injection, Surjection, IsInjective
<1>4. IsFiniteSet(0 .. (c - 1)) /\ Cardinality(0 .. (c - 1)) = c
  BY FS_Interval
<1> QED BY <1>3, <1>4, FS_Bijection DEF ExistsBijection, T

\* The bytes of a block do not depend on where it begins.
LEMMA BytesAreSized ==
  ASSUME NEW g, NEW h, Sized(g) = Sized(h), NEW billed, NEW k
  PROVE  BlockBytes(g, billed, k) = BlockBytes(h, billed, k)
<1>1. /\ g.d = h.d /\ g.P = h.P /\ g.QG = h.QG /\ g.Cb = h.Cb /\ g.Q = h.Q /\ g.K = h.K
      /\ g.npass = h.npass /\ g.rowspan = h.rowspan /\ g.a_len = h.a_len
      /\ g.nacc = h.nacc /\ g.w_len = h.w_len /\ g.rq = h.rq
  BY SizedIs
<1>2. SweepClocks(g, k) = SweepClocks(h, k)
  BY <1>1, Zenon DEF SweepClocks
<1> QED BY <1>1, <1>2 DEF BlockBytes

\* ... and are a number.
LEMMA BytesAreANumber ==
  ASSUME NEW d \in Layers, NEW r \in BOOLEAN, NEW pl \in Plans(d, r),
         NEW n \in 0 .. (NBlocks(d, pl) - 1), NEW billed \in BOOLEAN, NEW k \in BOOLEAN
  PROVE  BlockBytes(Block(d, pl, n), billed, k) \in Int
<1> DEFINE g == Block(d, pl, n)
           o == SpanGeom(d, pl, 0, 0, 0, (0 + pl.P - 1) \div d.ow)
<1>1. /\ d.ow \in Nat \ {0} /\ d.cin \in Nat \ {0} /\ d.w \in Nat \ {0}
      /\ pl.P \in Nat \ {0} /\ pl.QG \in Nat \ {0} /\ pl.Cb \in Nat \ {0}
      /\ NMAC \in Nat \ {0}
  BY PlanIs, DeviceAssumption
<1>2. Sized(g) = Sized(o)
  BY BlockIs, GeomSpan, Zenon
<1>3. /\ o.P = pl.P /\ o.QG = pl.QG /\ o.Cb = pl.Cb /\ o.Q = pl.QG * NMAC
      /\ o.K = pl.Cb * 9 /\ o.npass = d.cin \div pl.Cb /\ o.nacc = pl.P * (pl.QG * NMAC)
  BY Zenon DEF SpanGeom
<1>4. o.a_len = pl.Cb * ((((0 + pl.P - 1) \div d.ow) * Stride(d)) + 3) * d.w
  BY Zenon DEF SpanGeom
<1>5. o.w_len = IF d.wbits = 4 THEN (pl.Cb * 9 * (pl.QG * NMAC)) \div 2
                ELSE pl.Cb * 9 * (pl.QG * NMAC)
  BY Zenon DEF SpanGeom
<1> DEFINE span == (0 + pl.P - 1) \div d.ow
<1>6. span \in Int
  <2>1. 0 + pl.P - 1 \in Int
    BY <1>1
  <2> QED BY <1>1, <2>1, Division
<1>7. Stride(d) \in Int
  BY DEF Stride
<1>8. g.a_len \in Int
  <2> DEFINE x == (span * Stride(d)) + 3
  <2> HIDE DEF span
  <2>1. x \in Int
    BY <1>6, <1>7, TimesTimes
  <2> HIDE DEF x
  <2>2. pl.Cb * x \in Int /\ pl.Cb * x * d.w \in Int
    BY <1>1, <2>1
  <2>3. o.a_len = pl.Cb * x * d.w
    BY <1>4 DEF x, span
  <2> QED BY <1>2, <2>2, <2>3, SizedIs
<1>9. g.w_len \in Int
  <2> DEFINE Q == pl.QG * NMAC
             x == pl.Cb * 9 * Q
  <2>1. Q \in Int
    BY <1>1
  <2> HIDE DEF Q
  <2>2. x \in Int
    BY <1>1, <2>1
  <2> HIDE DEF x
  <2>3. x \div 2 \in Int
    BY <2>2, Division
  <2>4. o.w_len \in Int
    BY <1>5, <2>2, <2>3 DEF x, Q
  <2> QED BY <1>2, <2>4, SizedIs
<1>10. /\ g.P = pl.P /\ g.QG = pl.QG /\ g.Cb = pl.Cb /\ g.Q = pl.QG * NMAC
       /\ g.K = pl.Cb * 9 /\ g.npass = d.cin \div pl.Cb /\ g.nacc = pl.P * (pl.QG * NMAC)
  BY <1>2, <1>3, SizedIs
<1>11. g.npass \in Int
  <2> DEFINE x == d.cin
             y == pl.Cb
  <2>1. x \in Int /\ y \in Nat \ {0}
    BY <1>1
  <2> HIDE DEF x, y
  <2>2. x \div y \in Int
    BY <2>1, Division
  <2> QED BY <1>10, <2>2 DEF x, y
<1>12. /\ g.P \in Int /\ g.QG \in Int /\ g.Cb \in Int /\ g.K \in Int /\ g.Q \in Int
       /\ g.nacc \in Int
  <2>1. pl.QG * NMAC \in Int
    BY <1>1
  <2>2. pl.P * (pl.QG * NMAC) \in Int
    BY <1>1, <2>1, TimesTimes
  <2> QED BY <1>1, <1>10, <2>1, <2>2
<1> HIDE DEF g
<1>13. SweepClocks(g, k) \in Int
  <2>1. (IF k THEN g.Cb * 6 ELSE g.K) \in Int /\ g.P + 6 + (IF k THEN 1 ELSE 0) \in Int
    BY <1>12
  <2> QED BY <1>12, <2>1, TimesTimes DEF SweepClocks
<1>14. \A x, y \in Int : Simple(x, y) \in Int /\ Transaction(x, y) \in Int
  <2>1. \A x, y \in Int : Transaction(x, y) \in Int
    <3> TAKE x, y \in Int
    <3> DEFINE m == 5 + x + y + 3
    <3>1. m \in Int
      OBVIOUS
    <3> HIDE DEF m
    <3>2. m - (m % 4) \in Int
      BY <3>1
    <3> QED BY <3>2 DEF Transaction, m
  <2>2. \A x, y \in Int : Simple(x, y) \in Int
    <3> TAKE x, y \in Int
    <3>1. 13 + 32 + y \in Int
      OBVIOUS
    <3> QED BY <2>1, <3>1, Zenon DEF Simple
  <2> QED BY <2>1, <2>2
<1>15. Simple(1, (SweepClocks(g, k) + 512 + 7) \div 8) \in Int
  <2>1. SweepClocks(g, k) + 512 + 7 \in Int
    BY <1>13
  <2>2. (SweepClocks(g, k) + 512 + 7) \div 8 \in Int
    BY <2>1, Division
  <2> QED BY <1>14, <2>2
<1> DEFINE head == 2 * Simple(0, 0) + Simple(20, 0)
           pass == Simple(g.a_len, 0) + Simple(g.w_len, 0)
                   + Simple(1, (SweepClocks(g, k) + 512 + 7) \div 8)
           tail == Transaction(0, 13 + 32 + (IF g.rq THEN g.nacc ELSE 4 * g.nacc))
           table == IF billed THEN Simple(6 * g.Q, 0) ELSE 0
<1>16. head \in Int /\ pass \in Int
  <2>1. 0 \in Int /\ 20 \in Int
    OBVIOUS
  <2>2. Simple(0, 0) \in Int /\ Simple(20, 0) \in Int
    BY <1>14, <2>1, Zenon
  <2>3. Simple(g.a_len, 0) \in Int /\ Simple(g.w_len, 0) \in Int
    BY <1>8, <1>9, <1>14, <2>1, Zenon
  <2> QED BY <1>15, <2>2, <2>3
<1>17. tail \in Int /\ table \in Int
  <2>1. 13 + 32 + (IF g.rq THEN g.nacc ELSE 4 * g.nacc) \in Int /\ 6 * g.Q \in Int
    BY <1>12
  <2>2. 0 \in Int
    OBVIOUS
  <2>3. tail \in Int
    BY <1>14, <2>1, <2>2, Zenon
  <2>4. table \in Int
    BY <1>14, <2>1, <2>2, Zenon
  <2> QED BY <2>3, <2>4
<1>18. BlockBytes(g, billed, k) = head + g.npass * pass + tail + table
  BY Zenon DEF BlockBytes
<1> HIDE DEF head, pass, tail, table
<1>19. g.npass * pass \in Int
  BY <1>11, <1>16, TimesTimes
<1> QED BY <1>16, <1>17, <1>18, <1>19 DEF g

\* What a layer is priced at is what its blocks are billed, together.
LEMMA PriceIsTheSum ==
  ASSUME NEW d \in Layers, NEW r \in BOOLEAN, NEW pl \in Plans(d, r), NEW k \in BOOLEAN
  PROVE  Total([i \in 0 .. (NBlocks(d, pl) - 1) |->
                  BlockBytes(Block(d, pl, i), TableBilled(d, pl, i), k)])
           = LayerBytes(d, pl, k)
<1> DEFINE N == NBlocks(d, pl)
           PB == PosBlocks(d, pl)
           CB == ChanBlocks(d, pl)
           S == 0 .. (N - 1)
           M == {i \in S : i % PB = 0}
           g == Block(d, pl, 0)
           bare == BlockBytes(g, FALSE, k)
           full == BlockBytes(g, g.rq, k)
           more == full - bare
           f == [i \in S |-> BlockBytes(Block(d, pl, i), TableBilled(d, pl, i), k)]
<1>1. PB \in Nat \ {0} /\ CB \in Nat \ {0} /\ N = PB * CB
  BY BlocksFill DEF NBlocks
<1>2. N \in Nat \ {0} /\ 0 \in 0 .. (N - 1)
  <2> HIDE DEF PB, CB, N
  <2>1. N \in Nat /\ N # 0
    BY <1>1, Times
  <2> QED BY <2>1
<1>3. g.rq \in BOOLEAN
  <2>1. g.rq = SpanGeom(d, pl, 0, 0, 0, (0 + pl.P - 1) \div d.ow).rq
    BY <1>2, BlockIs, GeomSpan, SizedIs
  <2> QED BY <2>1, Zenon DEF SpanGeom
<1>4. bare \in Int /\ full \in Int
  BY <1>2, <1>3, BytesAreANumber
<1>5. ASSUME NEW i \in S
      PROVE  f[i] = IF i \in M THEN bare + more ELSE bare
  <2> DEFINE b == Block(d, pl, i)
  <2>1. Sized(b) = Sized(g) /\ b.rq = g.rq
    BY <1>2, BlockIs, SizedIs
  <2>2. f[i] = BlockBytes(b, TableBilled(d, pl, i), k)
    OBVIOUS
  <2>3. TableBilled(d, pl, i) = (i % PB = 0 /\ g.rq)
    BY <2>1, Zenon DEF TableBilled
  <2>4. f[i] = BlockBytes(g, i % PB = 0 /\ g.rq, k)
    <3> DEFINE billed == i % PB = 0 /\ g.rq
    <3>1. f[i] = BlockBytes(b, billed, k)
      BY <2>2, <2>3, Zenon
    <3> HIDE DEF b, g, billed
    <3>2. BlockBytes(b, billed, k) = BlockBytes(g, billed, k)
      BY <2>1, BytesAreSized
    <3> QED BY <3>1, <3>2, Zenon DEF billed
  <2>5. bare + more = full
    <3> HIDE DEF bare, full
    <3> QED BY <1>4
  <2>6. CASE i % PB = 0
    <3>1. (i % PB = 0 /\ g.rq) = g.rq
      BY <1>3, <2>6, Zenon
    <3>2. f[i] = full
      BY <2>4, <3>1, Zenon
    <3> QED BY <2>5, <2>6, <3>2, Zenon
  <2>7. CASE i % PB # 0
    <3>1. (i % PB = 0 /\ g.rq) = FALSE
      BY <2>7, Zenon
    <3>2. f[i] = bare
      BY <2>4, <3>1, Zenon
    <3> QED BY <2>7, <3>2, Zenon
  <2> QED BY <2>6, <2>7
<1>6. f = [i \in S |-> IF i \in M THEN bare + more ELSE bare]
  <2>1. \A i \in S : f[i] = IF i \in M THEN bare + more ELSE bare
    BY <1>5
  <2>2. f = [i \in S |-> f[i]]
    BY Zenon
  <2> HIDE DEF f, M, bare, more
  <2> QED BY <2>1, <2>2
<1>7. IsFiniteSet(S) /\ Cardinality(S) = N
  BY <1>2, FS_Interval
<1>8. Cardinality(M) = CB
  BY <1>1, EveryNth
<1>9. more \in Int
  <2> HIDE DEF bare, full
  <2> QED BY <1>4
<1>10. LayerBytes(d, pl, k) = (bare * N) + (more * CB)
  BY Zenon DEF LayerBytes
<1> HIDE DEF f, bare, more, N, S
<1>11. M \in SUBSET S
  OBVIOUS
<1> HIDE DEF M, CB
<1>12. Total(f) = (bare * Cardinality(S)) + (more * Cardinality(M))
  BY <1>4, <1>6, <1>7, <1>9, <1>11, FoldOfTwo
<1>13. Total(f) = LayerBytes(d, pl, k)
  BY <1>7, <1>8, <1>10, <1>12, Zenon
<1> QED BY <1>13 DEF f, S, N

\* A plan of a layer tiles it.
LEMMA PlanTiles ==
  ASSUME layer \in Layers, kpack \in BOOLEAN, NEW r \in BOOLEAN, plan \in Plans(layer, r)
  PROVE  PlanTilesTheLayer
<1> DEFINE n == NBlocks(layer, plan)
           S == 0 .. (n - 1)
           B(i) == Block(layer, plan, i)
           A == 0 .. (B(0).nacc - 1)
           Q == plan.QG * NMAC
           Whole == (0 .. (layer.cout - 1)) \X (0 .. (layer.oh - 1)) \X (0 .. (layer.ow - 1))
<1>1. /\ PosBlocks(layer, plan) \in Nat \ {0} /\ ChanBlocks(layer, plan) \in Nat \ {0}
      /\ Q \in Nat \ {0} /\ plan.P \in Nat \ {0}
      /\ PosBlocks(layer, plan) * plan.P = layer.oh * layer.ow
      /\ ChanBlocks(layer, plan) * Q = layer.cout
      /\ n = PosBlocks(layer, plan) * ChanBlocks(layer, plan)
      /\ layer.oh \in Nat \ {0} /\ layer.ow \in Nat \ {0} /\ layer.cout \in Nat \ {0}
  BY BlocksFill, PlanIs DEF NBlocks
<1>2. 0 \in S
  <2> DEFINE x == PosBlocks(layer, plan)
             y == ChanBlocks(layer, plan)
  <2>1. x \in Nat \ {0} /\ y \in Nat \ {0} /\ n = x * y
    BY <1>1
  <2> HIDE DEF x, y, n
  <2>2. n \in Nat /\ n # 0
    BY <2>1, Times
  <2> QED BY <2>2
<1>3. B(0).nacc = plan.P * Q
  BY <1>2, BlockSize
<1>4. \A i \in S : Accepts(B(i)) /\ B(i).a_len = B(0).a_len /\ B(i).rq = B(0).rq
  <2> TAKE i \in S
  <2>1. Accepts(B(i))
    BY BlocksAccepted
  <2>2. Sized(B(i)) = Sized(B(0))
    BY <1>2, BlockIs
  <2> HIDE DEF B
  <2> QED BY <2>1, <2>2, SizedIs
<1>5. {Reads(layer, plan, i, a) : i \in S, a \in A} = Whole
  <2>1. A = 0 .. ((plan.P * (plan.QG * NMAC)) - 1)
    BY <1>3
  <2> HIDE DEF A, S
  <2>2. ASSUME NEW i \in S, NEW a \in A
        PROVE  Reads(layer, plan, i, a) \in Whole
    BY <2>1, ReadsInside DEF S
  <2>3. ASSUME NEW w \in Whole
        PROVE  \E i \in S, a \in A : Reads(layer, plan, i, a) = w
    <3>1. PICK oc \in 0 .. (layer.cout - 1), oy \in 0 .. (layer.oh - 1),
               ox \in 0 .. (layer.ow - 1) : w = <<oc, oy, ox>>
      OBVIOUS
    <3>2. \E i \in S, a \in A : Reads(layer, plan, i, a) = <<oc, oy, ox>>
      BY <2>1, ReadsAll DEF S
    <3> QED BY <3>1, <3>2, Zenon
  <2> HIDE DEF Whole
  <2> QED BY <2>2, <2>3
<1>6. n * B(0).nacc = layer.cout * layer.oh * layer.ow
  <2> DEFINE x == PosBlocks(layer, plan)
             y == ChanBlocks(layer, plan)
             p == plan.P
             h == layer.oh
             w == layer.ow
             c == layer.cout
  <2>1. /\ x \in Nat /\ y \in Nat /\ p \in Nat /\ Q \in Nat /\ h \in Nat /\ w \in Nat /\ c \in Nat
        /\ x * p = h * w /\ y * Q = c /\ n = x * y /\ B(0).nacc = p * Q
    BY <1>1, <1>3
  <2> HIDE DEF x, y, p, Q, h, w, c, n, B
  <2>2. (x * y) * (p * Q) = (y * Q) * (x * p)
    <3>1. (x * y) * (p * Q) = x * (y * (p * Q)) /\ (y * Q) * (x * p) = y * (Q * (x * p))
      BY <2>1, TimesTimes, Times
    <3>2. y * (p * Q) = (y * p) * Q /\ Q * (x * p) = (x * p) * Q /\ (x * p) * Q = x * (p * Q)
      BY <2>1, TimesTimes, Times
    <3>3. y * (x * (p * Q)) = (y * x) * (p * Q) /\ y * x = x * y
      BY <2>1, TimesTimes, Times
    <3> QED BY <3>1, <3>2, <3>3
  <2>3. c * (h * w) = (c * h) * w
    BY <2>1, TimesTimes
  <2>4. n * B(0).nacc = (c * h) * w
    BY <2>1, <2>2, <2>3
  <2> QED BY <2>4 DEF c, h, w
<1>7. Billed(layer, plan, kpack) = LayerBytes(layer, plan, kpack)
  <2>1. Billed(layer, plan, kpack)
          = Total([i \in S |-> BlockBytes(B(i), TableBilled(layer, plan, i), kpack)])
    BY Zenon DEF Billed, Total
  <2> QED BY <2>1, PriceIsTheSum
<1> QED BY <1>4, <1>5, <1>6, <1>7 DEF PlanTilesTheLayer

\* gp_blocks(): whatever blocking gp_choose() takes of whatever layer, its blocks
\* are accepted, share one geometry, read every output once, and are billed
\* together what the layer was priced at.
THEOREM PlansTileTheirLayers == Spec => []PlanTilesTheLayer
<1>1. TileInv => PlanTilesTheLayer
  BY PlanTiles DEF TileInv, GeomInv
<1> QED BY <1>1, TileInductive, PTL

-----------------------------------------------------------------------------
\* The sums.  Of every stage between the host's bytes and an accumulator, what it holds
\* is stated in closed form: which tap of which position, of the layer, it is of.

\* A byte fed is not a zero unless the tap is outside.
LEMMA FedIs ==
  ASSUME NEW g, NEW q, NEW T \in Nat,
         IyOf(g, q, (T \div 3) % 3) \in Int, IxOf(g, q, T % 3) \in Int
  PROVE  Fed(g, q, T) # Zero <=> InTensor(g, q, (T \div 3) % 3, T % 3)
<1> DEFINE y == IyOf(g, q, (T \div 3) % 3)
           x == IxOf(g, q, T % 3)
<1>1. T \div 9 \in Int
  OBVIOUS
<1>2. <<T \div 9, y, x>> \in Int \X Int \X Int
  BY <1>1
<1>3. <<T \div 9, y, x>> # Zero
  BY <1>2, TileAssumption, Zenon
<1> QED BY <1>3 DEF Fed

\* Two sums with nothing in common.
LEMMA PlusIs ==
  ASSUME NEW x, NEW y, \A j \in Lanes : x[j] \cap y[j] = {}
  PROVE  Plus(x, y) = [j \in Lanes |-> x[j] \cup y[j]]
BY DEF Plus

\* No two taps have a weight in common.
LEMMA WordsDiffer ==
  ASSUME NEW g, NEW gg, NEW t \in Nat, NEW u \in Nat, NEW j \in Lanes,
         WordOf(g, gg, t)[j] = WordOf(g, gg, u)[j]
  PROVE  t = u
<1>1. t \div 9 = u \div 9 /\ t % 9 = u % 9
  BY DEF WordOf
<1> QED BY <1>1

\* The sum of no taps.
LEMMA SumOfNone == ASSUME NEW g, NEW q, NEW gg PROVE SumTo(g, q, gg, 0) = Word({})
<1>1. 0 .. (0 - 1) = {}
  OBVIOUS
<1>2. {u \in 0 .. (0 - 1) : Fed(g, q, u) # Zero} = {}
  BY <1>1, Zenon
<1> QED BY <1>2, Zenon DEF SumTo, Word

\* What tap T adds, as the sums have it.
LEMMA ProductsIs ==
  ASSUME NEW g, NEW q, NEW gg, NEW T \in Nat, NEW j \in Lanes
  PROVE  Products(Fed(g, q, T), WordOf(g, gg, T))[j]
           = {<<Fed(g, q, t), WordOf(g, gg, t)[j]>> : t \in {u \in {T} : Fed(g, q, u) # Zero}}
BY Zenon DEF Products

\* What tap T adds is not in the sum of those before, and makes the next sum of it.
LEMMA Disjoint ==
  ASSUME NEW g, NEW q, NEW gg, NEW T \in Nat, NEW j \in Lanes
  PROVE  LET S == SumTo(g, q, gg, T)
             M == Products(Fed(g, q, T), WordOf(g, gg, T))
         IN S[j] \cap M[j] = {} /\ S[j] \cup M[j] = SumTo(g, q, gg, T + 1)[j]
<1> DEFINE S == SumTo(g, q, gg, T)
           M == Products(Fed(g, q, T), WordOf(g, gg, T))
           E(t) == <<Fed(g, q, t), WordOf(g, gg, t)[j]>>
           In(n) == {u \in 0 .. (n - 1) : Fed(g, q, u) # Zero}
           Is == {u \in {T} : Fed(g, q, u) # Zero}
<1>1. In(T + 1) = In(T) \cup Is
  <2>1. 0 .. ((T + 1) - 1) = (0 .. (T - 1)) \cup {T}
    OBVIOUS
  <2> QED BY <2>1, Zenon
<1>2. /\ S[j] = {E(t) : t \in In(T)} /\ M[j] = {E(t) : t \in Is}
      /\ SumTo(g, q, gg, T + 1)[j] = {E(t) : t \in In(T + 1)}
  <2>1. Products(Fed(g, q, T), WordOf(g, gg, T))[j]
          = {<<Fed(g, q, t), WordOf(g, gg, t)[j]>> : t \in {u \in {T} : Fed(g, q, u) # Zero}}
    BY ProductsIs
  <2> QED BY <2>1, Zenon DEF SumTo
<1>3. S[j] \cap M[j] = {}
  <2>1. SUFFICES ASSUME NEW t \in In(T), NEW u \in Is, E(t) = E(u) PROVE FALSE
    BY <1>2, Zenon
  <2>2. WordOf(g, gg, t)[j] = WordOf(g, gg, u)[j]
    BY <2>1
  <2>3. t \in Nat /\ u \in Nat /\ t # u
    OBVIOUS
  <2> QED BY <2>2, <2>3, WordsDiffer
<1>4. S[j] \cup M[j] = SumTo(g, q, gg, T + 1)[j]
  <2> HIDE DEF S, M, E, In, Is
  <2>1. {E(t) : t \in In(T) \cup Is} = {E(t) : t \in In(T)} \cup {E(t) : t \in Is}
    OBVIOUS
  <2> QED BY <1>1, <1>2, <2>1, Zenon
<1> QED BY <1>3, <1>4, Zenon

\* Products of different taps are different, so adding the next tap's is a union.
LEMMA SumGrows ==
  ASSUME NEW g, NEW q, NEW gg, NEW T \in Nat
  PROVE  Plus(SumTo(g, q, gg, T), Products(Fed(g, q, T), WordOf(g, gg, T)))
           = SumTo(g, q, gg, T + 1)
<1> DEFINE S == SumTo(g, q, gg, T)
           M == Products(Fed(g, q, T), WordOf(g, gg, T))
           U == SumTo(g, q, gg, T + 1)
<1>1. \A j \in Lanes : S[j] \cap M[j] = {} /\ S[j] \cup M[j] = U[j]
  BY Disjoint
<1>2. U = [j \in Lanes |-> U[j]]
  BY Zenon DEF SumTo
<1> HIDE DEF S, M, U
<1>3. Plus(S, M) = [j \in Lanes |-> S[j] \cup M[j]]
  BY <1>1, PlusIs
<1>4. Plus(S, M) = U
  BY <1>1, <1>2, <1>3
<1> QED BY <1>4, Zenon DEF S, M, U

\* Two taps at once, the first of them into the sum of those before.
LEMMA SumGrowsByTwo ==
  ASSUME NEW g, NEW q, NEW gg, NEW T \in Nat
  PROVE  Plus(SumTo(g, q, gg, T),
              Plus(Products(Fed(g, q, T), WordOf(g, gg, T)),
                   Products(Fed(g, q, T + 1), WordOf(g, gg, T + 1))))
           = SumTo(g, q, gg, T + 2)
<1> DEFINE S == SumTo(g, q, gg, T)
           U == SumTo(g, q, gg, T + 1)
           M == Products(Fed(g, q, T), WordOf(g, gg, T))
           N == Products(Fed(g, q, T + 1), WordOf(g, gg, T + 1))
<1>1. Plus(S, M) = U /\ Plus(U, N) = SumTo(g, q, gg, T + 2)
  <2>1. T + 1 \in Nat /\ (T + 1) + 1 = T + 2
    OBVIOUS
  <2> QED BY <2>1, SumGrows
<1>2. ASSUME NEW j \in Lanes
      PROVE  S[j] \cap M[j] = {} /\ U[j] \cap N[j] = {} /\ U[j] = S[j] \cup M[j]
  BY <1>1, Disjoint
<1> HIDE DEF S, U, M, N
<1>3. \A j \in Lanes : M[j] \cap N[j] = {}
  BY <1>2
<1>4. Plus(M, N) = [j \in Lanes |-> M[j] \cup N[j]]
  BY <1>3, PlusIs
<1>5. \A j \in Lanes : S[j] \cap Plus(M, N)[j] = {}
  BY <1>2, <1>4
<1>6. Plus(S, Plus(M, N)) = [j \in Lanes |-> S[j] \cup Plus(M, N)[j]]
  BY <1>5, PlusIs
<1>7. Plus(U, N) = [j \in Lanes |-> U[j] \cup N[j]]
  <2>1. \A j \in Lanes : U[j] \cap N[j] = {}
    BY <1>2
  <2> QED BY <2>1, PlusIs
<1>8. \A j \in Lanes : S[j] \cup Plus(M, N)[j] = U[j] \cup N[j]
  BY <1>2, <1>4
<1>9. Plus(S, Plus(M, N)) = Plus(U, N)
  BY <1>6, <1>7, <1>8
<1> QED BY <1>1, <1>9, Zenon DEF S, U, M, N

\* A partner that is a zero adds nothing.
LEMMA PlusNothing ==
  ASSUME NEW a, NEW v, NEW w
  PROVE  Plus(Products(a, v), Products(Zero, w)) = Products(a, v)
<1>1. \A j \in Lanes : Products(Zero, w)[j] = {}
  BY DEF Products
<1>2. \A j \in Lanes : Products(a, v)[j] \cap Products(Zero, w)[j] = {}
  BY <1>1
<1>3. Plus(Products(a, v), Products(Zero, w))
        = [j \in Lanes |-> Products(a, v)[j] \cup Products(Zero, w)[j]]
  BY <1>2, PlusIs
<1>4. \A j \in Lanes : Products(a, v)[j] \cup Products(Zero, w)[j] = Products(a, v)[j]
  BY <1>1
<1>5. Products(a, v) = [j \in Lanes |-> Products(a, v)[j]]
  BY DEF Products
<1> QED BY <1>3, <1>4, <1>5

\* What the layers of the model are.
LEMMA LayerIs ==
  ASSUME NEW d \in Layers
  PROVE  /\ d.h \in Nat \ {0} /\ d.w \in Nat \ {0} /\ d.oh \in Nat \ {0} /\ d.ow \in Nat \ {0}
         /\ d.cin \in Nat \ {0} /\ d.cout \in Nat \ {0} /\ d.wbits \in {4, 8}
         /\ d.h < CWM \div 2 /\ d.w < CWM \div 2
<1>1. d \in LayerDesc /\ d.h < CWM \div 2 /\ d.w < CWM \div 2
  BY TileAssumption, Zenon
<1> QED BY <1>1 DEF LayerDesc

\* Where a position is.
LEMMA PlaceIs ==
  ASSUME NEW g, Fits(g), NEW q \in Nat
  PROVE  /\ RowOf(g, q) \in Nat /\ ColOf(g, q) \in 0 .. (g.d.ow - 1)
         /\ g.ox0 + q = (RowOf(g, q) * g.d.ow) + ColOf(g, q)
         /\ (g.oy0 + RowOf(g, q)) * g.st \in Nat /\ RowOf(g, q) * g.st \in Nat
         /\ ColOf(g, q) * g.st \in Nat
         /\ \A k \in Int : IyOf(g, q, k) \in Int /\ IxOf(g, q, k) \in Int
<1>1. g.d \in Layers /\ g.st \in {1, 2} /\ g.ox0 \in 0 .. (g.d.ow - 1) /\ g.oy0 \in Nat
  BY DEF Fits
<1>2. g.d.ow \in Nat \ {0}
  BY <1>1, LayerIs
<1>3. g.ox0 + q \in Nat
  BY <1>1, <1>2
<1> DEFINE w == g.d.ow
           x == g.ox0 + q
<1> HIDE DEF w, x
<1>4. x \div w \in Int /\ x % w \in 0 .. (w - 1) /\ x = ((x \div w) * w) + (x % w)
  <2>1. w \in Nat \ {0} /\ x \in Int
    BY <1>2, <1>3 DEF w, x
  <2> QED BY <2>1, Division
<1>5. x \div w >= 0
  BY <1>2, <1>3 DEF w, x
<1>6. RowOf(g, q) = x \div w /\ ColOf(g, q) = x % w
  BY Zenon DEF RowOf, ColOf, w, x
<1>7. /\ RowOf(g, q) \in Nat /\ ColOf(g, q) \in 0 .. (w - 1)
      /\ x = (RowOf(g, q) * w) + ColOf(g, q)
  BY <1>4, <1>5, <1>6
<1> DEFINE r == RowOf(g, q)
           c == ColOf(g, q)
           s == g.st
           o == g.oy0
<1>9. c \in Nat
  BY <1>2, <1>7 DEF w
<1> HIDE DEF r, c, s, o
<1>8. r \in Nat /\ c \in Nat /\ s \in Nat /\ o \in Nat
  BY <1>1, <1>7, <1>9 DEF r, c, s, o
<1>10. (o + r) * s \in Nat /\ r * s \in Nat /\ c * s \in Nat
  BY <1>8
<1>11. \A k \in Int : IyOf(g, q, k) = ((o + r) * s) - 1 + k /\ IxOf(g, q, k) = (c * s) - 1 + k
  BY Zenon DEF IyOf, IxOf, o, r, s, c
<1> QED BY <1>7, <1>10, <1>11 DEF r, c, s, o, w, x

\* All the taps of all the input channels are conv_acc_one()'s sum.
LEMMA SumOfAll ==
  ASSUME NEW g, Fits(g), NEW q \in Nat, NEW gg \in Nat, NEW j \in Lanes
  PROVE  SumTo(g, q, gg, 9 * g.d.cin)[j]
           = Convolution(g.d, g.q0 + ((gg * NMAC) + j), g.oy0 + RowOf(g, q), ColOf(g, q))
<1> DEFINE n == g.d.cin
           oc == g.q0 + ((gg * NMAC) + j)
           oy == g.oy0 + RowOf(g, q)
           ox == ColOf(g, q)
           y(t) == IyOf(g, q, t \div 3)
           x(t) == IxOf(g, q, t % 3)
           inside == {t \in 0 .. 8 : InTensor(g, q, t \div 3, t % 3)}
           in == {u \in 0 .. ((9 * n) - 1) : Fed(g, q, u) # Zero}
           A == {<<Fed(g, q, u), WordOf(g, gg, u)[j]>> : u \in in}
           B == {<<<<ic, y(t), x(t)>>, <<oc, ic, t>>>> : ic \in 0 .. (n - 1), t \in inside}
<1>1. n \in Nat \ {0} /\ g.st = Stride(g.d)
  BY LayerIs DEF Fits
<1>2. SumTo(g, q, gg, 9 * n)[j] = A
  BY Zenon DEF SumTo
<1>3. Convolution(g.d, oc, oy, ox) = B
  <2>1. \A t : y(t) = oy * Stride(g.d) - 1 + (t \div 3) /\ x(t) = ox * Stride(g.d) - 1 + (t % 3)
    BY <1>1, Zenon DEF IyOf, IxOf
  <2>2. inside = {t \in 0 .. 8 : /\ oy * Stride(g.d) - 1 + (t \div 3) \in 0 .. (g.d.h - 1)
                                 /\ ox * Stride(g.d) - 1 + (t % 3) \in 0 .. (g.d.w - 1)}
    BY <2>1, Zenon DEF InTensor
  <2> HIDE DEF inside, y, x, oy, ox, oc
  <2> QED BY <2>1, <2>2 DEF Convolution, n
<1>4. ASSUME NEW u \in Nat
      PROVE  /\ u \div 9 \in Nat /\ u % 9 \in 0 .. 8 /\ (u \div 3) % 3 = (u % 9) \div 3
             /\ u % 3 = (u % 9) % 3
             /\ \A c \in Nat : u \div 9 < c <=> u < 9 * c
  OBVIOUS
<1>5. ASSUME NEW u \in Nat
      PROVE  /\ Fed(g, q, u) # Zero <=> u % 9 \in inside
             /\ u % 9 \in inside => Fed(g, q, u) = <<u \div 9, y(u % 9), x(u % 9)>>
             /\ WordOf(g, gg, u)[j] = <<oc, u \div 9, u % 9>>
  <2> DEFINE ky == (u \div 3) % 3
             kx == u % 3
  <2>1. ky \in Int /\ kx \in Int
    OBVIOUS
  <2>2. IyOf(g, q, ky) \in Int /\ IxOf(g, q, kx) \in Int
    BY <2>1, PlaceIs
  <2>3. Fed(g, q, u) # Zero <=> InTensor(g, q, ky, kx)
    BY <2>2, FedIs
  <2>4. ky = (u % 9) \div 3 /\ kx = (u % 9) % 3 /\ u % 9 \in 0 .. 8
    BY <1>4
  <2>5. u % 9 \in inside <=> InTensor(g, q, ky, kx)
    BY <2>4, Zenon
  <2>6. u % 9 \in inside => Fed(g, q, u) = <<u \div 9, y(u % 9), x(u % 9)>>
    BY <2>4, <2>5, Zenon DEF Fed
  <2>7. WordOf(g, gg, u)[j] = <<oc, u \div 9, u % 9>>
    BY Zenon DEF WordOf
  <2> QED BY <2>3, <2>5, <2>6, <2>7, Zenon
<1>6. A \subseteq B
  <2> SUFFICES ASSUME NEW u \in in PROVE <<Fed(g, q, u), WordOf(g, gg, u)[j]>> \in B
    <3> HIDE DEF B, in
    <3> QED OBVIOUS
  <2> DEFINE ic == u \div 9
             t == u % 9
  <2>1. u \in Nat /\ u < 9 * n /\ Fed(g, q, u) # Zero
    BY <1>1
  <2>2. t \in inside /\ Fed(g, q, u) = <<ic, y(t), x(t)>> /\ WordOf(g, gg, u)[j] = <<oc, ic, t>>
    BY <1>5, <2>1
  <2>3. ic \in 0 .. (n - 1)
    BY <1>1, <2>1
  <2> HIDE DEF ic, t, y, x, inside, oc, in
  <2>5. <<<<ic, y(t), x(t)>>, <<oc, ic, t>>>> \in B
    BY <2>2, <2>3
  <2> HIDE DEF B
  <2> QED BY <2>2, <2>5
<1>7. B \subseteq A
  <2> SUFFICES ASSUME NEW ic \in 0 .. (n - 1), NEW t \in inside
               PROVE  <<<<ic, y(t), x(t)>>, <<oc, ic, t>>>> \in A
    <3> HIDE DEF A, y, x, inside, oc
    <3> QED OBVIOUS
  <2> DEFINE u == (9 * ic) + t
  <2>1. t \in 0 .. 8 /\ ic \in Nat
    BY <1>1
  <2>2. u \in Nat /\ u < 9 * n /\ u \div 9 = ic /\ u % 9 = t
    BY <1>1, <2>1
  <2> HIDE DEF u
  <2>3. /\ Fed(g, q, u) # Zero /\ Fed(g, q, u) = <<ic, y(t), x(t)>>
        /\ WordOf(g, gg, u)[j] = <<oc, ic, t>>
    BY <1>5, <2>2
  <2>4. u \in in
    BY <1>1, <2>2, <2>3
  <2>5. <<Fed(g, q, u), WordOf(g, gg, u)[j]>> \in A
    BY <2>4, Zenon
  <2> QED BY <2>3, <2>5, Zenon
<1> HIDE DEF A, B
<1>8. A = B
  BY <1>6, <1>7
<1> QED BY <1>2, <1>3, <1>8, Zenon

\* Every block of a plan fits.
LEMMA BlockFits ==
  ASSUME NEW d \in Layers, NEW r \in BOOLEAN, NEW pl \in Plans(d, r),
         NEW n \in 0 .. (NBlocks(d, pl) - 1)
  PROVE  Fits(Block(d, pl, n)) /\ Block(d, pl, n).d = d
<1> DEFINE m == n % PosBlocks(d, pl)
           b == n \div PosBlocks(d, pl)
           pos == m * pl.P
           e == [pl EXCEPT !.rq = Geom(d, pl, 0, 0, 0).rq]
           q0 == b * pl.QG * NMAC
           oy == pos \div d.ow
           ox == pos % d.ow
           span == (ox + pl.P - 1) \div d.ow
           g == Block(d, pl, n)
<1>1. /\ pl = [P |-> pl.P, QG |-> pl.QG, Cb |-> pl.Cb, rq |-> pl.rq]
      /\ pl.P \in Nat \ {0} /\ pl.QG \in Nat \ {0} /\ pl.Cb \in Nat \ {0}
      /\ d.ow \in Nat \ {0} /\ d.w \in Nat \ {0} /\ d.cin \in Nat \ {0} /\ NMAC \in Nat \ {0}
  BY PlanIs, DeviceAssumption
<1>2. m \in Nat /\ b \in Nat
  BY BlockPlace, BlocksFill
<1>3. e.P = pl.P /\ e.QG = pl.QG /\ e.Cb = pl.Cb
  BY <1>1, Zenon
<1>4. g = SpanGeom(d, e, q0, oy, ox, span)
  <2>1. g = Geom(d, e, q0, oy, ox)
    BY Zenon DEF Block
  <2>2. Geom(d, e, q0, oy, ox) = SpanGeom(d, e, q0, oy, ox, (ox + e.P - 1) \div d.ow)
    BY GeomSpan, Zenon
  <2> QED BY <1>3, <2>1, <2>2, Zenon
<1>5. pos \in Nat
  BY <1>1, <1>2, Times
<1>6. oy \in Nat /\ ox \in 0 .. (d.ow - 1)
  <2> HIDE DEF pos
  <2>1. pos \div d.ow \in Int /\ pos % d.ow \in 0 .. (d.ow - 1)
    BY <1>1, <1>5, Division
  <2>2. pos \div d.ow >= 0
    BY <1>1, <1>5
  <2> QED BY <2>1, <2>2
<1>7. q0 \in Nat
  <2>1. b * pl.QG \in Nat
    BY <1>1, <1>2, Times
  <2> QED BY <1>1, <2>1, Times
<1>8. Accepts(g)
  BY BlocksAccepted
<1> HIDE DEF e, q0, oy, ox, g, pos, b, m
<1>9. /\ g.d = d /\ g.st = Stride(d) /\ g.P = pl.P /\ g.QG = pl.QG /\ g.Cb = pl.Cb
      /\ g.q0 = q0 /\ g.oy0 = oy /\ g.ox0 = ox /\ g.rowspan = span
  BY <1>3, <1>4, Zenon DEF SpanGeom
<1>10. /\ g.Q = pl.QG * NMAC /\ g.K = pl.Cb * 9 /\ g.npass = d.cin \div pl.Cb
       /\ g.nacc = pl.P * (pl.QG * NMAC)
       /\ g.SROWS = (span * Stride(d)) + 3 /\ g.strip_ch = ((span * Stride(d)) + 3) * d.w
       /\ g.iy_base = (oy * Stride(d)) - 1
  <2> HIDE DEF span
  <2> QED BY <1>3, <1>4, Zenon DEF SpanGeom
<1>11. /\ g.a_len = pl.Cb * ((span * Stride(d)) + 3) * d.w
       /\ g.w_len = IF d.wbits = 4 THEN (pl.Cb * 9 * (pl.QG * NMAC)) \div 2
                    ELSE pl.Cb * 9 * (pl.QG * NMAC)
  <2> HIDE DEF span
  <2> QED BY <1>3, <1>4, Zenon DEF SpanGeom
<1>12. ox + pl.P - 1 = ox + (pl.P - 1) /\ ox + pl.P - 1 \in Nat
  BY <1>1, <1>6
<1>13. span \in Nat /\ span = (ox + (pl.P - 1)) \div d.ow
  <2>1. ox + pl.P - 1 \in Nat
    BY <1>12
  <2>2. span \in Int /\ span >= 0
    BY <1>1, <2>1
  <2> QED BY <1>12, <2>2
<1> HIDE DEF span
<1> DEFINE s == Stride(d)
           R == (span * s) + 3
<1>14. s \in {1, 2}
  BY DEF Stride
<1> HIDE DEF s
<1>15. R \in Nat \ {0}
  BY <1>13, <1>14
<1> HIDE DEF R
<1>16. R * d.w \in Nat \ {0} /\ pl.Cb * R * d.w = pl.Cb * (R * d.w)
  BY <1>1, <1>15, Times, TimesTimes
<1>17. g.npass \in Nat \ {0} /\ g.npass * g.Cb = d.cin
  <2>1. pl.Cb <= d.cin /\ d.cin % pl.Cb = 0
    BY <1>8, <1>9 DEF Accepts
  <2> DEFINE k == d.cin \div pl.Cb
  <2>2. k \in Int /\ d.cin = (k * pl.Cb) + (d.cin % pl.Cb)
    BY <1>1, Division
  <2> HIDE DEF k
  <2>3. k * pl.Cb \in Int /\ d.cin = k * pl.Cb
    BY <1>1, <2>1, <2>2
  <2>4. k <= 0 => k * pl.Cb <= 0
    BY <1>1, <2>2
  <2>5. k \in Nat \ {0}
    BY <1>1, <2>2, <2>3, <2>4
  <2> QED BY <1>9, <1>10, <2>3, <2>5 DEF k
<1>18. g.a_len <= STRIPD /\ g.P * g.QG <= ADEPTH /\ g.K * g.QG <= WDEPTH
  BY <1>8 DEF Accepts
<1>19. /\ g.SROWS = R /\ g.strip_ch = R * d.w /\ g.a_len = pl.Cb * (R * d.w)
  BY <1>10, <1>11, <1>16, Zenon DEF R, s
<1>20. g.SROWS = (g.rowspan * g.st) + 3 /\ g.iy_base = (g.oy0 * g.st) - 1
  BY <1>9, <1>10, Zenon
<1>21. g.w_len = IF g.d.wbits = 4 THEN (g.Cb * 9 * g.Q) \div 2 ELSE g.Cb * 9 * g.Q
  BY <1>9, <1>10, <1>11, Zenon
<1>22. g.rowspan = (g.ox0 + (g.P - 1)) \div g.d.ow /\ g.rowspan \in Nat
  BY <1>9, <1>13, Zenon
<1>23. g.st \in {1, 2} /\ g.st = Stride(g.d)
  BY <1>9, <1>14 DEF s
<1>24. g.strip_ch \in Nat \ {0} /\ g.SROWS \in Nat \ {0}
  BY <1>15, <1>16, <1>19, Zenon
<1>25. /\ g.P \in Nat \ {0} /\ g.QG \in Nat \ {0} /\ g.Cb \in Nat \ {0}
       /\ g.q0 \in Nat /\ g.oy0 \in Nat /\ g.ox0 \in 0 .. (g.d.ow - 1)
  BY <1>1, <1>6, <1>7, <1>9, Zenon
<1>26. /\ g.Q = g.QG * NMAC /\ g.K = g.Cb * 9 /\ g.npass * g.Cb = g.d.cin
       /\ g.nacc = g.P * (g.QG * NMAC) /\ g.strip_ch = g.SROWS * g.d.w
       /\ g.a_len = g.Cb * g.strip_ch /\ g.d \in Layers
  BY <1>9, <1>10, <1>17, <1>19, Zenon
<1> QED
  BY <1>9, <1>17, <1>18, <1>20, <1>21, <1>22, <1>23, <1>24, <1>25, <1>26, Zenon DEF Fits, g

-----------------------------------------------------------------------------
\* The weight stream: what it is after so many bytes, in closed form.

\* The states of the stream, as its definition has them.
IsStream(f, bytes) ==
  f = [n \in 0 .. Len(bytes) |->
         IF n = 0 THEN [sr |-> wgt.sr, j |-> 0, a |-> 0, buf |-> wbuf]
         ELSE Shifted(f[n - 1], bytes[n])]

\* There is one such function at most.
LEMMA StreamsAreOne ==
  ASSUME NEW bytes, Len(bytes) \in Nat, NEW f, NEW h, IsStream(f, bytes), IsStream(h, bytes)
  PROVE  f = h
<1> DEFINE S == 0 .. Len(bytes)
           base == [sr |-> wgt.sr, j |-> 0, a |-> 0, buf |-> wbuf]
           Bad == {n \in S : f[n] # h[n]}
<1> SUFFICES ASSUME f # h PROVE FALSE
  OBVIOUS
<1>1. /\ f = [n \in S |-> f[n]] /\ h = [n \in S |-> h[n]]
      /\ \A n \in S : f[n] = IF n = 0 THEN base ELSE Shifted(f[n - 1], bytes[n])
      /\ \A n \in S : h[n] = IF n = 0 THEN base ELSE Shifted(h[n - 1], bytes[n])
  BY Zenon DEF IsStream
<1> HIDE DEF base
<1>2. Bad # {} /\ Bad \subseteq Nat
  BY <1>1
<1>3. PICK n \in Bad : \A i \in Bad : n <= i
  BY <1>2, LeastOf, Zenon
<1>4. n \in S /\ n # 0 /\ n - 1 \in S /\ n - 1 \notin Bad
  <2>1. n # 0
    BY <1>1, <1>3
  <2>2. n \in S
    BY <1>3
  <2>3. n - 1 \in S /\ ~(n <= n - 1)
    BY <2>1, <2>2
  <2> QED BY <1>3, <2>1, <2>2, <2>3
<1>5. f[n - 1] = h[n - 1]
  BY <1>4
<1>6. f[n] = h[n]
  BY <1>1, <1>4, <1>5, Zenon
<1> QED BY <1>3, <1>6

\* So any function that satisfies the equation says what the stream leaves.
LEMMA StreamedIs ==
  ASSUME NEW bytes, Len(bytes) \in Nat, NEW f, IsStream(f, bytes)
  PROVE  Streamed(bytes) = f[Len(bytes)]
<1>1. Streamed(bytes) = (CHOOSE h : IsStream(h, bytes))[Len(bytes)]
  BY Zenon DEF Streamed, IsStream
<1>2. IsStream(CHOOSE h : IsStream(h, bytes), bytes)
  BY Zenon
<1> QED BY <1>1, <1>2, StreamsAreOne, Zenon

\* Shifting L more in.
LEMMA ShiftIs ==
  ASSUME NEW N \in Nat \ {0}, NEW L \in 1 .. N, NEW s, IsFcn(s, 1 .. N), NEW b, IsFcn(b, 1 .. L)
  PROVE  /\ SubSeq(s, L + 1, N) \o b
              = [l \in 1 .. N |-> IF l <= N - L THEN s[l + L] ELSE b[l - (N - L)]]
         /\ Len(b) = L
<1> DEFINE V == {s[l] : l \in 1 .. N} \cup {b[l] : l \in 1 .. L}
           t == SubSeq(s, L + 1, N)
<1>1. s \in [1 .. N -> V] /\ b \in [1 .. L -> V]
  BY Zenon DEF IsFcn
<1> HIDE DEF V
<1>2. s \in Seq(V) /\ Len(s) = N /\ b \in Seq(V) /\ Len(b) = L
  BY <1>1
<1>3. t = [l \in 1 .. (N - L) |-> s[l + L]] /\ t \in Seq(V) /\ Len(t) = N - L
  BY <1>2
<1> HIDE DEF t
<1>4. t \o b = [l \in 1 .. N |-> IF l <= N - L THEN s[l + L] ELSE b[l - (N - L)]]
  BY <1>2, <1>3
<1> QED BY <1>2, <1>4 DEF t

\* What the stream is after n bytes of L weights of W each, m of them to a word.
StreamAfter(n, L, m, W) ==
  [sr  |-> [l \in 1 .. NMAC |-> IF (L * n) + l > NMAC THEN W[((L * n) + l) - NMAC - 1]
                                ELSE wgt.sr[l + (L * n)]],
   j   |-> n % m,
   a   |-> (n \div m) % WDEPTH,
   buf |-> [x \in 0 .. (WDEPTH - 1) |->
              IF x < n \div m THEN [l \in Lanes |-> W[(x * NMAC) + l]] ELSE wbuf[x]]]

\* Byte n of such a stream.
ByteOf(n, L, W) == [i \in 1 .. L |-> W[(L * (n - 1)) + (i - 1)]]

\* A remainder that is left alone.
LEMMA Small ==
  ASSUME NEW n \in Nat \ {0}, NEW x \in 0 .. (n - 1)
  PROVE  x % n = x
<1>1. (0 * n) + x = x /\ ((0 * n) + x) % n = x
  BY DivisionIs
<1> QED BY <1>1

\* The word counter, one byte on.
LEMMA CountsOn ==
  ASSUME NEW m \in Nat \ {0}, NEW n \in Nat \ {0}
  PROVE  IF (n - 1) % m = m - 1
         THEN n % m = 0 /\ n \div m = ((n - 1) \div m) + 1 /\ n = (((n - 1) \div m) + 1) * m
         ELSE n % m = ((n - 1) % m) + 1 /\ n \div m = (n - 1) \div m
<1> DEFINE q == (n - 1) \div m
           r == (n - 1) % m
<1>1. q \in Int /\ r \in 0 .. (m - 1) /\ n - 1 = (q * m) + r
  <2>1. n - 1 \in Int
    OBVIOUS
  <2> QED BY <2>1, Division
<1> HIDE DEF q, r
<1>2. q * m \in Int /\ (q + 1) * m = (q * m) + m
  BY <1>1
<1>3. CASE r = m - 1
  <2>1. n = ((q + 1) * m) + 0 /\ 0 \in 0 .. (m - 1) /\ q + 1 \in Int
    BY <1>1, <1>2, <1>3
  <2>2. n \div m = q + 1 /\ n % m = 0
    BY <2>1, DivisionIs
  <2>3. n = (q + 1) * m
    BY <1>1, <1>2, <1>3
  <2> QED BY <1>3, <2>2, <2>3 DEF q, r
<1>4. CASE r # m - 1
  <2>1. n = (q * m) + (r + 1) /\ r + 1 \in 0 .. (m - 1)
    BY <1>1, <1>2, <1>4
  <2>2. n \div m = q /\ n % m = r + 1
    BY <1>1, <2>1, DivisionIs
  <2> QED BY <1>4, <2>2 DEF q, r
<1> QED BY <1>3, <1>4

\* One byte in.
LEMMA StreamStep ==
  ASSUME NEW L \in {1, 2}, NEW m \in Nat \ {0}, NMAC = L * m, NEW W,
         NEW n \in Nat \ {0}, n <= WDEPTH * m
  PROVE  Shifted(StreamAfter(n - 1, L, m, W), ByteOf(n, L, W)) = StreamAfter(n, L, m, W)
<1> DEFINE w == StreamAfter(n - 1, L, m, W)
           v == StreamAfter(n, L, m, W)
           b == ByteOf(n, L, W)
           t == SubSeq(w.sr, L + 1, NMAC) \o b
           full == w.j = m - 1
           q == (n - 1) \div m
           r == (n - 1) % m
<1>1. NMAC \in Nat \ {0} /\ WDEPTH \in Nat \ {0} /\ L \in 1 .. NMAC
  BY DeviceAssumption
<1>2. NMAC \div L = m
  BY <1>1
<1>3. /\ w.sr = [l \in 1 .. NMAC |-> IF (L * (n - 1)) + l > NMAC
                                     THEN W[((L * (n - 1)) + l) - NMAC - 1]
                                     ELSE wgt.sr[l + (L * (n - 1))]]
      /\ w.j = r /\ w.a = q % WDEPTH
      /\ w.buf = [x \in 0 .. (WDEPTH - 1) |->
                    IF x < q THEN [l \in Lanes |-> W[(x * NMAC) + l]] ELSE wbuf[x]]
  BY Zenon DEF StreamAfter
<1>4. /\ v.sr = [l \in 1 .. NMAC |-> IF (L * n) + l > NMAC THEN W[((L * n) + l) - NMAC - 1]
                                     ELSE wgt.sr[l + (L * n)]]
      /\ v.j = n % m /\ v.a = (n \div m) % WDEPTH
      /\ v.buf = [x \in 0 .. (WDEPTH - 1) |->
                    IF x < n \div m THEN [l \in Lanes |-> W[(x * NMAC) + l]] ELSE wbuf[x]]
      /\ v = [sr |-> v.sr, j |-> v.j, a |-> v.a, buf |-> v.buf]
  BY Zenon DEF StreamAfter
<1>5. IsFcn(w.sr, 1 .. NMAC) /\ IsFcn(b, 1 .. L)
  BY <1>3, Zenon DEF IsFcn, ByteOf
<1>6. \A i \in 1 .. L : b[i] = W[(L * (n - 1)) + (i - 1)]
  BY Zenon DEF ByteOf
<1> HIDE DEF w, v, b
<1>7. t = [l \in 1 .. NMAC |-> IF l <= NMAC - L THEN w.sr[l + L] ELSE b[l - (NMAC - L)]]
      /\ Len(b) = L
  <2> DEFINE s == w.sr
  <2> HIDE DEF s
  <2>1. IsFcn(s, 1 .. NMAC) /\ IsFcn(b, 1 .. L)
    BY <1>5 DEF s
  <2>2. /\ SubSeq(s, L + 1, NMAC) \o b
              = [l \in 1 .. NMAC |-> IF l <= NMAC - L THEN s[l + L] ELSE b[l - (NMAC - L)]]
        /\ Len(b) = L
    BY <1>1, <2>1, ShiftIs
  <2> QED BY <2>2, Zenon DEF s
<1>8. Shifted(w, b) = [sr |-> t, j |-> IF full THEN 0 ELSE w.j + 1,
                       a |-> IF full THEN (w.a + 1) % WDEPTH ELSE w.a,
                       buf |-> IF full THEN [w.buf EXCEPT ![w.a] = [l \in Lanes |-> t[l + 1]]]
                               ELSE w.buf]
  BY <1>2, <1>7, Zenon DEF Shifted
<1> HIDE DEF t
<1>9. t = v.sr
  <2>1. \A l \in 1 .. NMAC : l <= NMAC - L => t[l] = v.sr[l]
    <3> TAKE l \in 1 .. NMAC
    <3> HAVE l <= NMAC - L
    <3>1. l + L \in 1 .. NMAC /\ t[l] = w.sr[l + L]
      BY <1>1, <1>7
    <3>2. (L * (n - 1)) + (l + L) = (L * n) + l /\ (l + L) + (L * (n - 1)) = l + (L * n)
      OBVIOUS
    <3>3. w.sr[l + L] = v.sr[l]
      BY <1>3, <1>4, <3>1, <3>2
    <3> QED BY <3>1, <3>3
  <2>2. \A l \in 1 .. NMAC : l > NMAC - L => t[l] = v.sr[l]
    <3> TAKE l \in 1 .. NMAC
    <3> HAVE l > NMAC - L
    <3>1. l - (NMAC - L) \in 1 .. L /\ t[l] = b[l - (NMAC - L)]
      BY <1>1, <1>7
    <3>2. (L * (n - 1)) + ((l - (NMAC - L)) - 1) = ((L * n) + l) - NMAC - 1
      BY <1>1
    <3>3. b[l - (NMAC - L)] = W[((L * n) + l) - NMAC - 1]
      BY <1>6, <3>1, <3>2, Zenon
    <3>4. (L * n) + l > NMAC
      BY <1>1
    <3> QED BY <1>4, <3>1, <3>3, <3>4
  <2> QED BY <1>1, <1>4, <1>7, <2>1, <2>2
<1>10. IF full THEN n % m = 0 /\ n \div m = q + 1 /\ n = (q + 1) * m
       ELSE n % m = r + 1 /\ n \div m = q
  BY <1>3, CountsOn, Zenon
<1>11. q \in 0 .. (WDEPTH - 1)
  <2>1. WDEPTH * m \in Nat /\ n - 1 \in 0 .. ((WDEPTH * m) - 1)
    BY <1>1, Times
  <2> QED BY <1>1, <2>1, SplitOf
<1> HIDE DEF q, r
<1>12. w.a = q /\ q % WDEPTH = q
  BY <1>1, <1>3, <1>11, Small
<1>13. CASE full
  <2>1. v.j = 0 /\ v.a = (w.a + 1) % WDEPTH
    BY <1>4, <1>10, <1>12, <1>13
  <2>2. \A l \in Lanes : t[l + 1] = W[(q * NMAC) + l]
    <3> TAKE l \in Lanes
    <3>1. l + 1 \in 1 .. NMAC /\ l \in Nat
      BY <1>1 DEF Lanes
    <3>2. L * n = (q * NMAC) + NMAC /\ q * NMAC \in Nat
      <4>1. n = (q + 1) * m
        BY <1>10, <1>13
      <4>2. L * ((q + 1) * m) = (q + 1) * (L * m) /\ (q + 1) * NMAC = (q * NMAC) + NMAC
        BY <1>1, <1>11
      <4> QED BY <1>1, <1>11, <4>1, <4>2
    <3>3. (L * n) + (l + 1) > NMAC /\ ((L * n) + (l + 1)) - NMAC - 1 = (q * NMAC) + l
      BY <1>1, <3>1, <3>2
    <3> QED BY <1>4, <1>9, <3>1, <3>3
  <2>3. [l \in Lanes |-> t[l + 1]] = [l \in Lanes |-> W[(q * NMAC) + l]]
    BY <2>2
  <2>4. [w.buf EXCEPT ![w.a] = [l \in Lanes |-> t[l + 1]]] = v.buf
    <3> DEFINE F(x) == [l \in Lanes |-> W[(x * NMAC) + l]]
               nu == [l \in Lanes |-> t[l + 1]]
    <3>1. nu = F(q)
      BY <2>3
    <3>2. /\ w.buf = [x \in 0 .. (WDEPTH - 1) |-> IF x < q THEN F(x) ELSE wbuf[x]]
          /\ v.buf = [x \in 0 .. (WDEPTH - 1) |-> IF x < q + 1 THEN F(x) ELSE wbuf[x]]
      BY <1>3, <1>4, <1>10, <1>13
    <3> HIDE DEF F, nu
    <3>3. [w.buf EXCEPT ![q] = nu] = v.buf
      <4> DEFINE old == w.buf
                 new == v.buf
      <4> HIDE DEF old, new
      <4>1. DOMAIN old = 0 .. (WDEPTH - 1) /\ new = [x \in 0 .. (WDEPTH - 1) |-> new[x]]
        BY <3>2 DEF old, new
      <4>2. [old EXCEPT ![q] = nu] = [x \in 0 .. (WDEPTH - 1) |-> IF x = q THEN nu ELSE old[x]]
        BY <4>1
      <4>3. ASSUME NEW x \in 0 .. (WDEPTH - 1) PROVE (IF x = q THEN nu ELSE old[x]) = new[x]
        <5>1. /\ old[x] = IF x < q THEN F(x) ELSE wbuf[x]
              /\ new[x] = IF x < q + 1 THEN F(x) ELSE wbuf[x]
          BY <3>2 DEF old, new
        <5>2. x < q + 1 <=> x < q \/ x = q
          BY <1>1, <1>11
        <5> QED BY <3>1, <5>1, <5>2
      <4>4. [old EXCEPT ![q] = nu] = new
        BY <4>1, <4>2, <4>3
      <4> QED BY <4>4 DEF old, new
    <3> QED BY <1>12, <3>3 DEF nu
  <2> QED BY <1>4, <1>8, <1>9, <1>13, <2>1, <2>4, Zenon DEF w, v, b
<1>14. CASE ~full
  <2>1. v.j = w.j + 1 /\ v.a = w.a /\ v.buf = w.buf
    BY <1>3, <1>4, <1>10, <1>14
  <2> QED BY <1>4, <1>8, <1>9, <1>14, <2>1, Zenon DEF w, v, b
<1> QED BY <1>13, <1>14

\* What the stream of a pass leaves in the buffer: word k * QG + gg is tap k's of group gg.
LEMMA StreamLeaves ==
  ASSUME NEW g, Fits(g), NEW n \in Nat,
         IsFcn(wbuf, 0 .. (WDEPTH - 1)), IsFcn(wgt.sr, 1 .. NMAC)
  PROVE  LET w == Streamed(WeightBytes(g, n))
         IN /\ IsFcn(w.buf, 0 .. (WDEPTH - 1)) /\ IsFcn(w.sr, 1 .. NMAC)
            /\ \A k \in 0 .. (g.K - 1), gg \in 0 .. (g.QG - 1) :
                 w.buf[(k * g.QG) + gg] = WordOf(g, gg, (n * g.K) + k)
<1> DEFINE L == IF g.d.wbits = 4 THEN 2 ELSE 1
           m == NMAC \div L
           W == [i \in Nat |-> Weight(g, n, i)]
           bytes == WeightBytes(g, n)
           words == g.K * g.QG
           N == words * m
           F == [x \in 0 .. N |-> StreamAfter(x, L, m, W)]
           w == StreamAfter(N, L, m, W)
           K == g.K
           G == g.QG
           Q == g.Q
<1>1. /\ NMAC \in Nat \ {0} /\ NMAC % 2 = 0 /\ WDEPTH \in Nat \ {0}
  BY DeviceAssumption, TileAssumption
<1>2. L \in {1, 2} /\ m \in Nat \ {0} /\ NMAC = L * m
  BY <1>1
<1>3. /\ g.K \in Nat \ {0} /\ g.QG \in Nat \ {0} /\ g.Q = g.QG * NMAC /\ words <= WDEPTH
      /\ g.Cb \in Nat \ {0} /\ g.K = g.Cb * 9 /\ g.q0 \in Nat
      /\ g.w_len = IF g.d.wbits = 4 THEN (g.Cb * 9 * g.Q) \div 2 ELSE g.Cb * 9 * g.Q
  <2>1. g.Cb \in Nat \ {0} /\ g.K = g.Cb * 9
    BY DEF Fits
  <2>2. g.K \in Nat \ {0}
    BY <2>1
  <2> QED BY <2>1, <2>2 DEF Fits
<1> HIDE DEF L, m
<1>4. words \in Nat \ {0} /\ N \in Nat \ {0} /\ words * NMAC = L * N
  <2> HIDE DEF K, G
  <2>1. K \in Nat \ {0} /\ G \in Nat \ {0}
    BY <1>3 DEF K, G
  <2>2. K * G \in Nat \ {0}
    BY <2>1, Times
  <2> DEFINE v == words
  <2>3. v \in Nat \ {0}
    BY <2>2, Zenon DEF K, G
  <2> HIDE DEF v
  <2>4. v * m \in Nat \ {0}
    BY <1>2, <2>3, Times
  <2>5. v * (L * m) = L * (v * m)
    BY <1>2, <2>3
  <2> QED BY <1>2, <2>3, <2>4, <2>5 DEF v
<1>5. g.w_len = N /\ g.Cb * 9 * g.Q = L * N
  <2>1. g.Cb * 9 * g.Q = words * NMAC
    <3> HIDE DEF K, G
    <3>1. K \in Nat /\ G \in Nat
      BY <1>3 DEF K, G
    <3>2. K * (G * NMAC) = (K * G) * NMAC
      BY <1>1, <3>1
    <3> QED BY <1>3, <3>2, Zenon DEF K, G
  <2> HIDE DEF N, words
  <2>2. L = 1 => g.w_len = N
    BY <1>3, <1>4, <2>1 DEF L
  <2>3. L = 2 => (L * N) \div 2 = N
    BY <1>4
  <2>4. L = 2 => g.w_len = N
    BY <1>3, <1>4, <2>1, <2>3 DEF L
  <2> QED BY <1>2, <1>4, <2>1, <2>2, <2>4
<1>6. N <= WDEPTH * m
  <2> HIDE DEF words
  <2>1. (WDEPTH - words) * m >= 0
    BY <1>1, <1>2, <1>3, <1>4
  <2>2. (WDEPTH - words) * m = (WDEPTH * m) - (words * m)
    BY <1>1, <1>2, <1>4
  <2>3. WDEPTH * m \in Nat /\ words * m \in Nat
    BY <1>1, <1>2, <1>4, Times
  <2> QED BY <2>1, <2>2, <2>3
<1> HIDE DEF N
<1>7. /\ DOMAIN bytes = 1 .. N /\ Len(bytes) = N
      /\ \A b \in 1 .. N : bytes[b] = ByteOf(b, L, W)
  <2>1. CASE g.d.wbits = 4
    <3>1. L = 2
      BY <2>1 DEF L
    <3>2. bytes = [b \in 1 .. N |-> <<Weight(g, n, 2 * b - 2), Weight(g, n, 2 * b - 1)>>]
      BY <1>5, <2>1, Zenon DEF WeightBytes
    <3>3. ASSUME NEW b \in 1 .. N
          PROVE  ByteOf(b, 2, W) = <<Weight(g, n, 2 * b - 2), Weight(g, n, 2 * b - 1)>>
      <4>1. /\ 2 * b - 2 \in Nat /\ 2 * b - 1 \in Nat
            /\ (2 * (b - 1)) + (1 - 1) = 2 * b - 2 /\ (2 * (b - 1)) + (2 - 1) = 2 * b - 1
        OBVIOUS
      <4>2. W[2 * b - 2] = Weight(g, n, 2 * b - 2) /\ W[2 * b - 1] = Weight(g, n, 2 * b - 1)
        BY <4>1, Zenon
      <4> HIDE DEF W
      <4>3. ByteOf(b, 2, W) = [i \in 1 .. 2 |-> W[(2 * (b - 1)) + (i - 1)]]
        BY Zenon DEF ByteOf
      <4>4. ByteOf(b, 2, W) = <<W[(2 * (b - 1)) + (1 - 1)], W[(2 * (b - 1)) + (2 - 1)]>>
        BY <4>3
      <4> QED BY <4>1, <4>2, <4>4, Zenon
    <3>4. DOMAIN bytes = 1 .. N /\ \A b \in 1 .. N : bytes[b] = ByteOf(b, L, W)
      BY <3>1, <3>2, <3>3, Zenon
    <3> HIDE DEF bytes
    <3>5. Len(bytes) = N
      BY <1>4, <3>2
    <3> QED BY <3>4, <3>5
  <2>2. CASE g.d.wbits # 4
    <3>1. L = 1
      BY <2>2 DEF L
    <3>2. bytes = [b \in 1 .. N |-> <<Weight(g, n, b - 1)>>]
      <4>1. g.w_len = N
        BY <1>5
      <4> QED BY <2>2, <4>1, Zenon DEF WeightBytes
    <3>3. ASSUME NEW b \in 1 .. N PROVE ByteOf(b, 1, W) = <<Weight(g, n, b - 1)>>
      <4>1. b - 1 \in Nat /\ (1 * (b - 1)) + (1 - 1) = b - 1
        OBVIOUS
      <4>2. W[b - 1] = Weight(g, n, b - 1)
        BY <4>1, Zenon
      <4> HIDE DEF W
      <4>3. ByteOf(b, 1, W) = [i \in 1 .. 1 |-> W[(1 * (b - 1)) + (i - 1)]]
        BY Zenon DEF ByteOf
      <4>4. ByteOf(b, 1, W) = <<W[(1 * (b - 1)) + (1 - 1)]>>
        BY <4>3
      <4> QED BY <4>1, <4>2, <4>4, Zenon
    <3>4. DOMAIN bytes = 1 .. N /\ \A b \in 1 .. N : bytes[b] = ByteOf(b, L, W)
      BY <3>1, <3>2, <3>3, Zenon
    <3> HIDE DEF bytes
    <3>5. Len(bytes) = N
      BY <1>4, <3>2
    <3> QED BY <3>4, <3>5
  <2> QED BY <2>1, <2>2
<1> DEFINE base == [sr |-> wgt.sr, j |-> 0, a |-> 0, buf |-> wbuf]
<1>8. StreamAfter(0, L, m, W) = base
  <2>1. 0 \div m = 0 /\ 0 % m = 0 /\ 0 % WDEPTH = 0 /\ L * 0 = 0
    <3>1. 0 \in Int /\ 0 * m = 0 /\ 0 * WDEPTH = 0
      BY <1>1, <1>2
    <3> QED BY <1>1, <1>2, <3>1, Multiple
  <2> HIDE DEF W
  <2>2. StreamAfter(0, L, m, W).sr = wgt.sr
    <3>1. StreamAfter(0, L, m, W).sr
            = [l \in 1 .. NMAC |-> IF 0 + l > NMAC THEN W[(0 + l) - NMAC - 1] ELSE wgt.sr[l + 0]]
      BY <2>1, Zenon DEF StreamAfter
    <3>2. \A l \in 1 .. NMAC : ~(0 + l > NMAC) /\ l + 0 = l
      BY <1>1
    <3> DEFINE s == wgt.sr
    <3> HIDE DEF s
    <3>3. [l \in 1 .. NMAC |-> IF 0 + l > NMAC THEN W[(0 + l) - NMAC - 1] ELSE s[l + 0]]
            = [l \in 1 .. NMAC |-> s[l]]
      BY <3>2
    <3> QED BY <3>1, <3>3, Zenon DEF IsFcn, s
  <2>3. StreamAfter(0, L, m, W).buf = wbuf
    <3>1. StreamAfter(0, L, m, W).buf
            = [x \in 0 .. (WDEPTH - 1) |->
                 IF x < 0 THEN [l \in Lanes |-> W[(x * NMAC) + l]] ELSE wbuf[x]]
      BY <2>1, Zenon DEF StreamAfter
    <3>2. \A x \in 0 .. (WDEPTH - 1) : ~(x < 0)
      BY <1>1
    <3>3. StreamAfter(0, L, m, W).buf = [x \in 0 .. (WDEPTH - 1) |-> wbuf[x]]
      BY <3>1, <3>2
    <3> QED BY <3>3, Zenon DEF IsFcn
  <2>4. StreamAfter(0, L, m, W).j = 0 /\ StreamAfter(0, L, m, W).a = 0
    BY <2>1, Zenon DEF StreamAfter
  <2> QED BY <2>2, <2>3, <2>4, Zenon DEF StreamAfter
<1>9. IsStream(F, bytes)
  <2> HIDE DEF bytes, W
  <2>1. ASSUME NEW x \in 0 .. N
        PROVE  F[x] = IF x = 0 THEN base ELSE Shifted(F[x - 1], bytes[x])
    <3>1. CASE x = 0
      BY <1>8, <3>1
    <3>2. CASE x # 0
      <4>1. x \in Nat \ {0} /\ x <= WDEPTH * m /\ x - 1 \in 0 .. N /\ x \in 1 .. N
        <5>1. WDEPTH * m \in Nat
          BY <1>1, <1>2, Times
        <5> QED BY <1>4, <1>6, <3>2, <5>1
      <4>2. Shifted(StreamAfter(x - 1, L, m, W), ByteOf(x, L, W)) = StreamAfter(x, L, m, W)
        BY <1>2, <4>1, StreamStep
      <4>3. F[x - 1] = StreamAfter(x - 1, L, m, W) /\ F[x] = StreamAfter(x, L, m, W)
        BY <4>1, Zenon
      <4> QED BY <1>7, <3>2, <4>1, <4>2, <4>3, Zenon
    <3> QED BY <3>1, <3>2
  <2>2. F = [x \in 0 .. N |-> F[x]]
    BY Zenon
  <2> HIDE DEF F
  <2>3. F = [x \in 0 .. N |-> IF x = 0 THEN base ELSE Shifted(F[x - 1], bytes[x])]
    BY <2>1, <2>2, Zenon
  <2> QED BY <1>7, <2>3, Zenon DEF IsStream
<1>10. Streamed(bytes) = w
  <2> HIDE DEF bytes
  <2>1. Streamed(bytes) = F[N]
    BY <1>4, <1>7, <1>9, StreamedIs
  <2>2. N \in 0 .. N
    BY <1>4
  <2> QED BY <2>1, <2>2, Zenon
<1>11. N \div m = words
  <2> HIDE DEF words
  <2> QED BY <1>2, <1>4, Multiple DEF N
<1>12. /\ \A x \in 0 .. (WDEPTH - 1) :
            w.buf[x] = IF x < words THEN [l \in Lanes |-> W[(x * NMAC) + l]] ELSE wbuf[x]
       /\ IsFcn(w.buf, 0 .. (WDEPTH - 1)) /\ IsFcn(w.sr, 1 .. NMAC)
  <2>1. \A x \in 0 .. (WDEPTH - 1) :
          w.buf[x] = IF x < N \div m THEN [l \in Lanes |-> W[(x * NMAC) + l]] ELSE wbuf[x]
    BY Zenon DEF StreamAfter
  <2>2. IsFcn(w.buf, 0 .. (WDEPTH - 1)) /\ IsFcn(w.sr, 1 .. NMAC)
    <3>1. /\ w.buf = [x \in 0 .. (WDEPTH - 1) |->
                        IF x < N \div m THEN [l \in Lanes |-> W[(x * NMAC) + l]] ELSE wbuf[x]]
          /\ w.sr = [l \in 1 .. NMAC |-> IF (L * N) + l > NMAC
                                         THEN W[((L * N) + l) - NMAC - 1]
                                         ELSE wgt.sr[l + (L * N)]]
      BY Zenon DEF StreamAfter
    <3> HIDE DEF w, W
    <3> QED BY <3>1, Zenon DEF IsFcn
  <2> QED BY <1>11, <2>1, <2>2, Zenon
<1>13. ASSUME NEW k \in 0 .. (g.K - 1), NEW gg \in 0 .. (g.QG - 1)
       PROVE  w.buf[(k * g.QG) + gg] = WordOf(g, gg, (n * g.K) + k)
  <2> DEFINE x == (k * g.QG) + gg
             c(l) == (gg * NMAC) + l
  <2>1. x \in 0 .. (words - 1)
    BY <1>3, JoinOf
  <2> HIDE DEF w
  <2>2. w.buf[x] = [l \in Lanes |-> W[(x * NMAC) + l]] /\ x \in Nat
    <3> HIDE DEF words, x, W
    <3>1. x \in 0 .. (WDEPTH - 1) /\ x < words
      BY <1>1, <1>3, <1>4, <2>1
    <3> QED BY <1>12, <3>1
  <2>3. ASSUME NEW l \in Lanes
        PROVE  W[(x * NMAC) + l] = <<g.q0 + ((gg * NMAC) + l), ((n * g.K) + k) \div 9,
                                     ((n * g.K) + k) % 9>>
    <3>1. l \in 0 .. (NMAC - 1) /\ k \in Nat /\ gg \in Nat
      BY <1>3 DEF Lanes
    <3> DEFINE cc == (gg * NMAC) + l
    <3>2. cc \in 0 .. (Q - 1)
      BY <1>1, <1>3, <3>1, JoinOf
    <3>3. (x * NMAC) + l = (k * Q) + cc
      <4> HIDE DEF G
      <4>1. G \in Nat
        BY <1>3 DEF G
      <4>2. (((k * G) + gg) * NMAC) + l = (k * (G * NMAC)) + ((gg * NMAC) + l)
        BY <1>1, <3>1, <4>1
      <4> QED BY <1>3, <4>2 DEF G
    <3>4. Q \in Nat \ {0}
      <4> HIDE DEF G
      <4>1. G \in Nat \ {0}
        BY <1>3 DEF G
      <4>2. G * NMAC \in Nat \ {0}
        BY <1>1, <4>1, Times
      <4> QED BY <1>3, <4>2, Zenon DEF G
    <3> DEFINE i == (x * NMAC) + l
    <3> HIDE DEF cc, x, Q, i
    <3>5. i = (k * Q) + cc /\ i \in Nat
      <4>1. k * Q \in Nat
        BY <3>1, <3>4, Times
      <4> QED BY <3>2, <3>3, <3>4, <4>1 DEF i
    <3>6. i \div Q = k /\ i % Q = cc
      <4>1. ((k * Q) + cc) \div Q = k /\ ((k * Q) + cc) % Q = cc
        BY <3>1, <3>2, <3>4, DivisionIs
      <4> QED BY <3>5, <4>1, Zenon
    <3>7. W[i] = <<g.q0 + cc, n * g.Cb + (k \div 9), k % 9>>
      <4>1. W[i] = Weight(g, n, i)
        BY <3>5, Zenon
      <4> QED BY <3>6, <4>1, Zenon DEF Weight, Q
    <3>8. n * g.Cb + (k \div 9) = ((n * g.K) + k) \div 9 /\ k % 9 = ((n * g.K) + k) % 9
      <4> DEFINE C == g.Cb
      <4> HIDE DEF C
      <4>1. C \in Nat /\ n * C \in Nat
        BY <1>3, Times DEF C
      <4>2. n * (C * 9) = 9 * (n * C)
        BY <4>1
      <4>3. n * C + (k \div 9) = ((9 * (n * C)) + k) \div 9 /\ k % 9 = ((9 * (n * C)) + k) % 9
        <5> DEFINE z == n * C
        <5> HIDE DEF z
        <5>1. z \in Nat
          BY <4>1 DEF z
        <5>2. z + (k \div 9) = ((9 * z) + k) \div 9 /\ k % 9 = ((9 * z) + k) % 9
          BY <3>1, <5>1
        <5> QED BY <5>2 DEF z
      <4> QED BY <1>3, <4>2, <4>3 DEF C
    <3> QED BY <3>7, <3>8, Zenon DEF i, cc
  <2>4. WordOf(g, gg, (n * g.K) + k)
          = [l \in Lanes |-> <<g.q0 + ((gg * NMAC) + l), ((n * g.K) + k) \div 9,
                               ((n * g.K) + k) % 9>>]
    BY Zenon DEF WordOf
  <2> HIDE DEF W, x
  <2>5. [l \in Lanes |-> W[(x * NMAC) + l]] = WordOf(g, gg, (n * g.K) + k)
    BY <2>3, <2>4
  <2> QED BY <2>2, <2>5, Zenon DEF x
<1> QED BY <1>10, <1>12, <1>13, Zenon

-----------------------------------------------------------------------------
\* A clock, of a lap that starts, goes on or ends.

\* What no clock changes.
LEMMA ClockKeeps ==
  ASSUME TileInv, Clock
  PROVE  /\ strip' = strip /\ wbuf' = wbuf /\ wgt' = wgt /\ host'.pass = host.pass
         /\ host'.blk = host.blk /\ host'.do = host.do
         /\ wreg' = NextWreg /\ Pipeline /\ FLUSH' = FLUSH
         /\ kpack' = kpack /\ cfg' = cfg /\ layer' = layer /\ plan' = plan /\ pulse' = None
         /\ feed' = [i \in {0, 1} |-> CASE state = "LOAD" -> FeedLoad(i)
                                       [] state = "SWEEP" -> FeedStep(feed[i])
                                       [] OTHER -> feed[i]]
BY DEF Clock, TileInv, ShapeInv, IsRecord, rigid, FLUSH

\* What stays of the walk within a lap.
SameLap == /\ walk'.k = walk.k /\ walk'.kx = walk.kx /\ walk'.ky = walk.ky /\ walk'.g = walk.g
           /\ walk'.base_ic = walk.base_ic /\ walk'.base_ky = walk.base_ky
           /\ walk'.init = walk.init

\* A lap begins: the word is read, the position is the first.
LEMMA LapStarts ==
  ASSUME TileInv, Clock, state = "LOAD"
  PROVE  /\ state' = "SWEEP" /\ walk'.p = 0 /\ walk'.acc = walk.g /\ SameLap
         /\ walk'.wcnt = (walk.wcnt + 1) % WDEPTH
<1>1. state' = NextState /\ walk' = NextWalk
  BY ClockAlways
<1>2. state' = "SWEEP" /\ walk' = [walk EXCEPT !.acc = walk.g, !.p = 0, !.wcnt = (@ + 1) % WDEPTH]
  BY <1>1, StateIs, WalkIs
<1>3. IsRecord(walk, {"k", "kx", "ky", "g", "p", "wcnt", "base_ic", "base_ky", "acc", "flush",
                     "init"})
  BY DEF TileInv, ShapeInv
<1> QED BY <1>2, <1>3 DEF SameLap, IsRecord

\* It goes on: a position at a clock, then the clocks of quiet.
LEMMA LapRuns ==
  ASSUME TileInv, Clock, state = "SWEEP" \/ (state = "FLUSH" /\ ~flag.now)
  PROVE  /\ state' \in {"SWEEP", "FLUSH"} /\ SameLap /\ walk'.wcnt = walk.wcnt
         /\ Pos' = Pos + 1 /\ Pos \in 0 .. (cfg.P + FLUSH - 2)
         /\ state = "SWEEP" <=> Pos < cfg.P
         /\ state' = "SWEEP" <=> Pos + 1 < cfg.P
         /\ state' = "SWEEP" => /\ walk'.p = walk.p + 1
                                /\ walk'.acc = (walk.acc + cfg.QG) % ADEPTH
<1>1. state' = NextState /\ walk' = NextWalk /\ cfg' = cfg /\ FLUSH' = FLUSH
  BY ClockAlways, ClockKeeps
<1>2. IsRecord(walk, {"k", "kx", "ky", "g", "p", "wcnt", "base_ic", "base_ky", "acc", "flush",
                     "init"})
  BY DEF TileInv, ShapeInv
<1>3. cfg.P \in Nat \ {0} /\ FLUSH \in Nat /\ FLUSH >= 5
  BY FlushIs DEF TileInv, GeomInv
<1>4. CASE state = "SWEEP"
  <2>1. walk.p \in 0 .. (cfg.P - 1) /\ (flag.pos <=> walk.p = cfg.P - 1)
    BY <1>4 DEF TileInv, SweepInv
  <2>2. /\ state' = IF flag.pos THEN "FLUSH" ELSE "SWEEP"
        /\ walk' = [walk EXCEPT !.acc = (@ + cfg.QG) % ADEPTH, !.p = @ + 1,
                                !.flush = IF flag.pos THEN FLUSH - 1 ELSE @]
    BY <1>1, <1>4, StateIs, WalkIs
  <2>3. /\ SameLap /\ walk'.wcnt = walk.wcnt /\ walk'.p = walk.p + 1
        /\ walk'.acc = (walk.acc + cfg.QG) % ADEPTH
        /\ walk'.flush = IF flag.pos THEN FLUSH - 1 ELSE walk.flush
    BY <1>2, <2>2 DEF SameLap, IsRecord
  <2>4. Pos = walk.p
    BY <1>4 DEF Pos
  <2>5. Pos' = Pos + 1
    <3>1. CASE flag.pos
      <4>1. state' = "FLUSH" /\ walk'.flush = FLUSH - 1 /\ walk.p = cfg.P - 1
        BY <2>1, <2>2, <2>3, <3>1
      <4>2. Pos' = cfg.P + (FLUSH - 1 - (FLUSH - 1))
        BY <1>1, <4>1 DEF Pos
      <4> QED BY <1>3, <2>4, <4>1, <4>2
    <3>2. CASE ~flag.pos
      BY <2>2, <2>3, <2>4, <3>2 DEF Pos
    <3> QED BY <3>1, <3>2
  <2> QED BY <1>3, <1>4, <2>1, <2>2, <2>3, <2>4, <2>5
<1>5. CASE state = "FLUSH" /\ ~flag.now
  <2>1. walk.flush \in 1 .. (FLUSH - 1)
    BY <1>3, <1>5 DEF TileInv, SweepInv
  <2>2. state' = "FLUSH" /\ walk' = [walk EXCEPT !.flush = @ - 1]
    BY <1>1, <1>5, StateIs, WalkIs
  <2>3. SameLap /\ walk'.wcnt = walk.wcnt /\ walk'.flush = walk.flush - 1
    BY <1>2, <2>2 DEF SameLap, IsRecord
  <2>4. Pos = cfg.P + (FLUSH - 1 - walk.flush)
    BY <1>5 DEF Pos
  <2>5. Pos' = cfg.P + (FLUSH - 1 - (walk.flush - 1))
    BY <1>1, <2>2, <2>3 DEF Pos
  <2> QED BY <1>3, <1>5, <2>1, <2>2, <2>3, <2>4, <2>5
<1> QED BY <1>4, <1>5

\* It ends: the next group, the next tap, or the sweep is over.
LEMMA LapEnds ==
  ASSUME TileInv, Clock, state = "FLUSH", flag.now
  PROVE  /\ Pos = cfg.P + (FLUSH - 1) /\ walk' = WalkAdvance
         /\ state' = IF flag.g \/ flag.k THEN "LOAD" ELSE "IDLE"
         /\ flag.g <=> walk.g # cfg.QG - 1
         /\ flag.k <=> walk.g = cfg.QG - 1 /\ walk.k # cfg.K - 1
         /\ flag.ky <=> flag.k /\ walk.kx = 2 /\ walk.ky # 2
         /\ flag.ic <=> flag.k /\ walk.kx = 2 /\ walk.ky = 2
<1>1. state' = NextState /\ walk' = NextWalk
  BY ClockAlways
<1>2. cfg.P \in Nat \ {0} /\ FLUSH \in Nat /\ FLUSH >= 5
  BY FlushIs DEF TileInv, GeomInv
<1>3. walk.flush = 0
  BY DEF TileInv, SweepInv
<1>4. Pos = cfg.P + (FLUSH - 1)
  BY <1>2, <1>3 DEF Pos
<1>5. walk' = WalkAdvance /\ state' = IF flag.g \/ flag.k THEN "LOAD" ELSE "IDLE"
  BY <1>1, StateIs, WalkIs
<1>6. /\ flag.g <=> walk.g # cfg.QG - 1
      /\ flag.k <=> walk.g = cfg.QG - 1 /\ walk.k # cfg.K - 1
      /\ flag.ky <=> flag.k /\ walk.kx = 2 /\ walk.ky # 2
      /\ flag.ic <=> flag.k /\ walk.kx = 2 /\ walk.ky = 2
  BY DEF TileInv, SweepInv
<1> QED BY <1>4, <1>5, <1>6

\* From a state that is not of a sweep, a clock begins one only on a RUN.
LEMMA SweepsBegin ==
  ASSUME TileInv, Clock, ~Sweeping
  PROVE  IF state = "IDLE" /\ pulse = "run"
         THEN state' = "LOAD" /\ walk' = WalkReset(host.pass = 0) /\ host.do = "run"
         ELSE ~Sweeping' /\ host.do = "drain"
<1>1. state' = NextState /\ walk' = NextWalk
  BY ClockAlways
<1>2. /\ state \in {"IDLE", "DISS", "DWAIT", "DHOLD"} /\ pulse \in {"run", "drain", None}
      /\ pulse = "drain" => host.do = "drain"
      /\ link.on => host.do = "drain"
      /\ state \in {"DISS", "DWAIT", "DHOLD"} => host.do = "drain" /\ pulse = None
      /\ pulse = "run" => host.do = "run" /\ state = "IDLE"
  BY DEF TileInv, ReadInv, SweepInv, Draining, Sweeping
<1>3. Busy \/ pulse # None \/ link.on
  BY DEF Clock
<1>4. CASE state = "IDLE" /\ pulse = "run"
  BY <1>1, <1>2, <1>4, StateIs, WalkIs
<1>5. CASE ~(state = "IDLE" /\ pulse = "run")
  <2>1. state' \in {"IDLE", "DISS", "DWAIT", "DHOLD"}
    BY <1>1, <1>2, <1>5, Constants, StateIs
  <2>2. host.do = "drain"
    BY <1>2, <1>3, <1>5, Constants DEF Busy
  <2> QED BY <1>5, <2>1, <2>2 DEF Sweeping
<1> QED BY <1>4, <1>5

\* In the buffer, the word of the next group, or of a later tap, is where the walk counts it.
LEMMA WordPlace ==
  ASSUME Fits(cfg), NEW k \in 0 .. (cfg.K - 1), NEW g \in 0 .. (cfg.QG - 1)
  PROVE  /\ (k * cfg.QG) + g \in 0 .. (WDEPTH - 1) /\ k * cfg.QG \in Nat
         /\ (k * cfg.QG) + g = ((k * cfg.QG) + g) % WDEPTH
         /\ (k + 1) * cfg.QG = (k * cfg.QG) + cfg.QG /\ (k + 2) * cfg.QG = (k * cfg.QG) + (2 * cfg.QG)
<1> DEFINE K == cfg.K
           Q == cfg.QG
<1>1. K \in Nat \ {0} /\ Q \in Nat \ {0} /\ K * Q <= WDEPTH /\ WDEPTH \in Nat \ {0}
  BY DeviceAssumption DEF Fits
<1> HIDE DEF K, Q
<1>2. k \in 0 .. (K - 1) /\ g \in 0 .. (Q - 1)
  BY DEF K, Q
<1>3. (k * Q) + g \in 0 .. ((K * Q) - 1)
  BY <1>1, <1>2, JoinOf
<1>4. k * Q \in Nat /\ K * Q \in Nat
  BY <1>1, <1>2, Times
<1> DEFINE x == (k * Q) + g
<1>5. x \in 0 .. (WDEPTH - 1)
  BY <1>1, <1>3, <1>4
<1> HIDE DEF x
<1>6. x % WDEPTH = x
  BY <1>1, <1>5, Small
<1>7. (k + 1) * Q = (k * Q) + Q /\ (k + 2) * Q = (k * Q) + (2 * Q)
  BY <1>1, <1>2
<1> QED BY <1>4, <1>5, <1>6, <1>7 DEF x, K, Q

\* What the end of a lap makes of all of the walk.
LEMMA AdvanceMakes ==
  ASSUME ShapeInv
  PROVE  LET w == WalkAdvance IN
         /\ w.init = walk.init
         /\ flag.g => w = [walk EXCEPT !.g = @ + 1]
         /\ flag.g => /\ w.g = walk.g + 1 /\ w.k = walk.k /\ w.kx = walk.kx /\ w.ky = walk.ky
                      /\ w.base_ic = walk.base_ic /\ w.base_ky = walk.base_ky
                      /\ w.wcnt = walk.wcnt
         /\ ~flag.g /\ flag.k =>
              /\ w.g = 0 /\ w.k = walk.k + Step
              /\ w.kx = IF kpack THEN (IF KpTail THEN 0 ELSE 2)
                        ELSE (IF walk.kx # 2 THEN walk.kx + 1 ELSE 0)
              /\ w.ky = IF flag.ky THEN walk.ky + 1 ELSE IF flag.ic THEN 0 ELSE walk.ky
              /\ w.base_ky = IF flag.ky THEN walk.base_ky + cfg.d.w
                             ELSE IF flag.ic THEN 0 ELSE walk.base_ky
              /\ w.base_ic = IF flag.ic THEN walk.base_ic + cfg.strip_ch ELSE walk.base_ic
              /\ w.wcnt = IF Step = 2 THEN (walk.wcnt + cfg.QG) % WDEPTH ELSE walk.wcnt
BY DEF WalkAdvance, ShapeInv, IsRecord, Step, KpTail

\* The arithmetic of the walk over the taps.
LEMMA TapArith ==
  ASSUME NEW C \in Nat \ {0}, NEW k \in 0 .. ((C * 9) - 1)
  PROVE  /\ k % 3 \in 0 .. 2 /\ (k \div 3) % 3 \in 0 .. 2 /\ k \div 9 \in 0 .. (C - 1)
         /\ k = (9 * (k \div 9)) + (3 * ((k \div 3) % 3)) + (k % 3)
         /\ k # (C * 9) - 1 => k + 1 \in 0 .. ((C * 9) - 1)
         /\ k % 3 = 0 => k + 2 \in 0 .. ((C * 9) - 1) /\ k + 1 \in 0 .. ((C * 9) - 1)
         /\ k % 3 = 0 => /\ (k + 2) % 3 = 2 /\ ((k + 2) \div 3) % 3 = (k \div 3) % 3
                         /\ (k + 2) \div 9 = k \div 9
         /\ k % 3 # 2 => /\ (k + 1) % 3 = (k % 3) + 1 /\ ((k + 1) \div 3) % 3 = (k \div 3) % 3
                         /\ (k + 1) \div 9 = k \div 9
         /\ k % 3 = 2 /\ (k \div 3) % 3 # 2 =>
              /\ (k + 1) % 3 = 0 /\ ((k + 1) \div 3) % 3 = ((k \div 3) % 3) + 1
              /\ (k + 1) \div 9 = k \div 9
         /\ k % 3 = 2 /\ (k \div 3) % 3 = 2 =>
              /\ (k + 1) % 3 = 0 /\ ((k + 1) \div 3) % 3 = 0 /\ (k + 1) \div 9 = (k \div 9) + 1
OBVIOUS

\* The walk keeps to the taps, a clock at a time.
LEMMA WalkStep ==
  ASSUME TileInv, Fits(cfg), WalkInv, Clock
  PROVE  WalkInv'
<1> SUFFICES ASSUME Sweeping' PROVE WalkInv'
  BY DEF WalkInv
<1>1. /\ cfg' = cfg /\ kpack' = kpack /\ host'.pass = host.pass /\ kpack \in BOOLEAN
      /\ ShapeInv
  BY ClockKeeps DEF TileInv, GeomInv
<1>2. /\ cfg.P \in Nat \ {0} /\ cfg.QG \in Nat \ {0} /\ cfg.Cb \in Nat \ {0} /\ cfg.K = cfg.Cb * 9
      /\ cfg.P * cfg.QG <= ADEPTH /\ cfg.strip_ch \in Nat \ {0} /\ cfg.d \in Layers
      /\ ADEPTH \in Nat \ {0} /\ WDEPTH \in Nat \ {0}
  BY DeviceAssumption DEF Fits
<1>3. cfg.d.w \in Nat \ {0}
  BY <1>2, LayerIs
<1>4. CASE ~Sweeping
  <2>1. state' = "LOAD" /\ walk' = WalkReset(host.pass = 0)
    BY <1>4, SweepsBegin
  <2>2. /\ walk'.k = 0 /\ walk'.kx = 0 /\ walk'.ky = 0 /\ walk'.g = 0 /\ walk'.wcnt = 0
        /\ walk'.base_ic = 0 /\ walk'.base_ky = 0 /\ walk'.init = (host.pass = 0)
    BY <2>1 DEF WalkReset
  <2>3. 0 * cfg.QG = 0 /\ 0 * cfg.strip_ch = 0 /\ 0 * cfg.d.w = 0
    BY <1>2, <1>3
  <2>4. 0 \in 0 .. (cfg.K - 1) /\ 0 \in 0 .. (cfg.QG - 1)
    BY <1>2
  <2>5. 0 % 3 = 0 /\ (0 \div 3) % 3 = 0 /\ 0 \div 9 = 0 /\ (0 * cfg.QG) + 0 = 0
    BY <1>2
  <2>6. /\ walk'.kx = walk'.k % 3 /\ walk'.ky = (walk'.k \div 3) % 3
        /\ walk'.base_ic = (walk'.k \div 9) * cfg.strip_ch /\ walk'.base_ky = walk'.ky * cfg.d.w
        /\ walk'.wcnt = (walk'.k * cfg.QG) + walk'.g
    BY <2>2, <2>3, <2>5, Zenon
  <2>7. state' = "LOAD" /\ walk'.kx # 1
    BY <2>1, <2>2
  <2> QED BY <1>1, <2>2, <2>4, <2>6, <2>7 DEF WalkInv
<1>5. CASE state = "LOAD"
  <2>1. /\ state' = "SWEEP" /\ walk'.p = 0 /\ walk'.acc = walk.g /\ SameLap
        /\ walk'.wcnt = (walk.wcnt + 1) % WDEPTH
    BY <1>5, LapStarts
  <2>2. walk.wcnt = (walk.k * cfg.QG) + walk.g /\ walk.g \in 0 .. (cfg.QG - 1)
    BY <1>5 DEF WalkInv, Sweeping
  <2>3. 0 * cfg.QG = 0 /\ 0 + walk.g = walk.g
    BY <1>2, <2>2
  <2> QED BY <1>1, <1>5, <2>1, <2>2, <2>3 DEF WalkInv, SameLap, Sweeping
<1>6. CASE state = "SWEEP" \/ (state = "FLUSH" /\ ~flag.now)
  <2>1. /\ state' \in {"SWEEP", "FLUSH"} /\ SameLap /\ walk'.wcnt = walk.wcnt
        /\ Pos \in Int /\ (state = "SWEEP" <=> Pos < cfg.P) /\ (state' = "SWEEP" <=> Pos + 1 < cfg.P)
        /\ state' = "SWEEP" => /\ walk'.p = walk.p + 1
                               /\ walk'.acc = (walk.acc + cfg.QG) % ADEPTH
    BY <1>6, LapRuns
  <2>2. state' = "SWEEP" => walk'.acc = (walk'.p * cfg.QG) + walk'.g
    <3> SUFFICES ASSUME state' = "SWEEP" PROVE walk'.acc = (walk'.p * cfg.QG) + walk'.g
      OBVIOUS
    <3>1. state = "SWEEP" /\ Pos = walk.p
      BY <1>2, <2>1 DEF Pos
    <3>2. /\ walk.p \in 0 .. (cfg.P - 1) /\ walk.p + 1 \in 0 .. (cfg.P - 1)
          /\ walk.g \in 0 .. (cfg.QG - 1) /\ walk.acc = (walk.p * cfg.QG) + walk.g
      BY <1>2, <2>1, <3>1 DEF TileInv, SweepInv, WalkInv, Sweeping
    <3> DEFINE Q == cfg.QG
               P == cfg.P
               p == walk.p
               g == walk.g
               x == ((p + 1) * Q) + g
    <3>3. P \in Nat \ {0} /\ Q \in Nat \ {0} /\ P * Q <= ADEPTH
      BY <1>2
    <3> HIDE DEF Q, P, p, g
    <3>4. p + 1 \in 0 .. (P - 1) /\ g \in 0 .. (Q - 1) /\ p \in Nat
      BY <3>2 DEF P, Q, p, g
    <3>5. x \in 0 .. ((P * Q) - 1)
      BY <3>3, <3>4, JoinOf
    <3>6. (p * Q) + g + Q = x
      BY <3>3, <3>4
    <3> HIDE DEF x
    <3>7. x \in 0 .. (ADEPTH - 1)
      <4>1. P * Q \in Nat
        BY <3>3, Times
      <4> QED BY <1>2, <3>3, <3>5, <4>1
    <3>8. x % ADEPTH = x
      BY <1>2, <3>7, Small
    <3>9. walk'.acc = x
      BY <2>1, <3>2, <3>6, <3>8 DEF p, Q, g
    <3> QED BY <2>1, <3>9 DEF x, p, Q, g, SameLap
  <2> QED BY <1>1, <1>6, <2>1, <2>2 DEF WalkInv, SameLap, Sweeping
<1>7. CASE state = "FLUSH" /\ flag.now
  <2>1. /\ walk' = WalkAdvance
        /\ state' = IF flag.g \/ flag.k THEN "LOAD" ELSE "IDLE"
        /\ flag.g <=> walk.g # cfg.QG - 1
        /\ flag.k <=> walk.g = cfg.QG - 1 /\ walk.k # cfg.K - 1
        /\ flag.ky <=> flag.k /\ walk.kx = 2 /\ walk.ky # 2
        /\ flag.ic <=> flag.k /\ walk.kx = 2 /\ walk.ky = 2
    BY <1>7, LapEnds
  <2>2. /\ walk.k \in 0 .. (cfg.K - 1) /\ walk.g \in 0 .. (cfg.QG - 1)
        /\ walk.kx = walk.k % 3 /\ walk.ky = (walk.k \div 3) % 3 /\ (kpack => walk.kx # 1)
        /\ walk.base_ic = (walk.k \div 9) * cfg.strip_ch /\ walk.base_ky = walk.ky * cfg.d.w
        /\ walk.init = (host.pass = 0)
        /\ walk.wcnt = ((walk.k * cfg.QG) + walk.g + 1) % WDEPTH
    BY <1>7 DEF WalkInv, Sweeping
  <2>3. state' = "LOAD"
    BY <2>1 DEF Sweeping
  <2>4. walk'.init = walk.init
    BY <1>1, <2>1, AdvanceMakes
  <2>5. CASE flag.g
    <3>1. /\ walk'.g = walk.g + 1 /\ walk'.k = walk.k /\ walk'.kx = walk.kx /\ walk'.ky = walk.ky
          /\ walk'.base_ic = walk.base_ic /\ walk'.base_ky = walk.base_ky
          /\ walk'.wcnt = walk.wcnt
      BY <1>1, <2>1, <2>5, AdvanceMakes
    <3>2. walk.g + 1 \in 0 .. (cfg.QG - 1)
      BY <1>2, <2>1, <2>2, <2>5
    <3>3. (walk.k * cfg.QG) + (walk.g + 1) = ((walk.k * cfg.QG) + (walk.g + 1)) % WDEPTH
          /\ walk.k * cfg.QG \in Nat
      BY <2>2, <3>2, WordPlace
    <3>4. (walk.k * cfg.QG) + walk.g + 1 = (walk.k * cfg.QG) + (walk.g + 1)
      BY <1>2, <2>2, <3>3
    <3>5. walk'.wcnt = (walk'.k * cfg.QG) + walk'.g
      BY <2>2, <3>1, <3>3, <3>4, Zenon
    <3> QED BY <1>1, <2>2, <2>3, <2>4, <3>1, <3>2, <3>5 DEF WalkInv
  <2>6. CASE ~flag.g
    <3>1. flag.k /\ walk.g = cfg.QG - 1 /\ walk.k # cfg.K - 1
      BY <2>1, <2>3, <2>6
    <3>2. /\ walk'.g = 0 /\ walk'.k = walk.k + Step
          /\ walk'.kx = IF kpack THEN (IF KpTail THEN 0 ELSE 2)
                        ELSE (IF walk.kx # 2 THEN walk.kx + 1 ELSE 0)
          /\ walk'.ky = IF flag.ky THEN walk.ky + 1 ELSE IF flag.ic THEN 0 ELSE walk.ky
          /\ walk'.base_ky = IF flag.ky THEN walk.base_ky + cfg.d.w
                             ELSE IF flag.ic THEN 0 ELSE walk.base_ky
          /\ walk'.base_ic = IF flag.ic THEN walk.base_ic + cfg.strip_ch ELSE walk.base_ic
          /\ walk'.wcnt = IF Step = 2 THEN (walk.wcnt + cfg.QG) % WDEPTH ELSE walk.wcnt
      BY <1>1, <2>1, <2>6, <3>1, AdvanceMakes
    <3>3. Step \in {1, 2} /\ (Step = 2 <=> kpack /\ walk.kx # 2) /\ (KpTail <=> walk.kx = 2)
      BY DEF Step, KpTail
    <3> DEFINE k == walk.k
               ic == k \div 9
               C == cfg.Cb
               w == cfg.d.w
               S == cfg.strip_ch
    <3>4. C \in Nat \ {0} /\ k \in 0 .. ((C * 9) - 1) /\ k # (C * 9) - 1 /\ w \in Nat /\ S \in Nat
      BY <1>2, <1>3, <2>2, <3>1
    <3> HIDE DEF C
    <3>5. /\ k % 3 \in 0 .. 2 /\ (k \div 3) % 3 \in 0 .. 2 /\ ic \in 0 .. (C - 1)
          /\ k + 1 \in 0 .. ((C * 9) - 1)
          /\ k % 3 = 0 => k + 2 \in 0 .. ((C * 9) - 1)
          /\ k % 3 = 0 => /\ (k + 2) % 3 = 2 /\ ((k + 2) \div 3) % 3 = (k \div 3) % 3
                          /\ (k + 2) \div 9 = ic
          /\ k % 3 # 2 => /\ (k + 1) % 3 = (k % 3) + 1 /\ ((k + 1) \div 3) % 3 = (k \div 3) % 3
                          /\ (k + 1) \div 9 = ic
          /\ k % 3 = 2 /\ (k \div 3) % 3 # 2 =>
               /\ (k + 1) % 3 = 0 /\ ((k + 1) \div 3) % 3 = ((k \div 3) % 3) + 1
               /\ (k + 1) \div 9 = ic
          /\ k % 3 = 2 /\ (k \div 3) % 3 = 2 =>
               /\ (k + 1) % 3 = 0 /\ ((k + 1) \div 3) % 3 = 0 /\ (k + 1) \div 9 = ic + 1
      BY <3>4, TapArith
    <3>6. walk'.k \in 0 .. (cfg.K - 1)
      BY <1>2, <2>2, <3>2, <3>3, <3>5 DEF C
    <3>7. /\ walk'.kx = walk'.k % 3 /\ walk'.ky = (walk'.k \div 3) % 3 /\ (kpack => walk'.kx # 1)
          /\ walk'.k \div 9 = IF flag.ic THEN ic + 1 ELSE ic
      BY <2>1, <2>2, <3>1, <3>2, <3>3, <3>5
    <3>8. walk'.base_ic = (walk'.k \div 9) * S
      <4>1. (ic + 1) * S = (ic * S) + S
        <5> HIDE DEF ic, S
        <5>1. ic \in Int /\ S \in Int
          BY <3>4, <3>5
        <5> QED BY <5>1
      <4> QED BY <2>2, <3>2, <3>7, <4>1
    <3>9. walk'.base_ky = walk'.ky * w
      <4>1. walk.ky \in 0 .. 2
        BY <2>2, <3>5
      <4> QED BY <2>1, <2>2, <3>2, <3>4, <4>1
    <3>10. walk'.wcnt = (walk'.k * cfg.QG) + walk'.g
      <4> DEFINE Q == cfg.QG
      <4>1. 0 \in 0 .. (Q - 1)
        BY <1>2
      <4>2. k + 1 \in 0 .. (cfg.K - 1)
        BY <1>2, <3>5 DEF C
      <4>3. ((k + 1) * Q) + 0 = (((k + 1) * Q) + 0) % WDEPTH /\ (k + 1) * Q \in Nat
        BY <4>1, <4>2, WordPlace
      <4>4. k * Q \in Nat /\ (k + 1) * Q = (k * Q) + Q /\ (k + 2) * Q = (k * Q) + (2 * Q)
        BY <2>2, WordPlace
      <4>5. (k * Q) + walk.g + 1 = ((k + 1) * Q) + 0
        BY <1>2, <3>1, <4>4
      <4>6. walk.wcnt = ((k + 1) * Q) + 0
        BY <2>2, <4>3, <4>5, Zenon
      <4>7. CASE Step = 1
        BY <3>2, <4>6, <4>7
      <4>8. CASE Step = 2
        <5>1. k + 2 \in 0 .. (cfg.K - 1)
          BY <1>2, <2>2, <3>3, <3>5, <4>8 DEF C
        <5>2. ((k + 2) * Q) + 0 = (((k + 2) * Q) + 0) % WDEPTH
          BY <4>1, <5>1, WordPlace
        <5>3. ((k + 1) * Q) + 0 + Q = ((k + 2) * Q) + 0
          BY <1>2, <4>4
        <5>4. walk'.wcnt = ((k + 2) * Q) + 0
          BY <3>2, <4>6, <4>8, <5>2, <5>3, Zenon
        <5> QED BY <3>2, <4>8, <5>4, Zenon
      <4> QED BY <3>3, <4>7, <4>8
    <3>11. 0 \in 0 .. (cfg.QG - 1)
      BY <1>2
    <3> QED BY <1>1, <2>2, <2>3, <2>4, <3>2, <3>6, <3>7, <3>8, <3>9, <3>10, <3>11 DEF WalkInv
  <2> QED BY <2>5, <2>6
<1> QED BY <1>4, <1>5, <1>6, <1>7 DEF Sweeping

\* Where the next position is, and the first.
LEMMA PlaceNext ==
  ASSUME NEW g, Fits(g), NEW q \in Nat
  PROVE  /\ RowOf(g, 0) = 0 /\ ColOf(g, 0) = g.ox0
         /\ IF ColOf(g, q) = g.d.ow - 1
            THEN RowOf(g, q + 1) = RowOf(g, q) + 1 /\ ColOf(g, q + 1) = 0
            ELSE RowOf(g, q + 1) = RowOf(g, q) /\ ColOf(g, q + 1) = ColOf(g, q) + 1
<1> DEFINE n == g.d.ow
           o == g.ox0
           r == RowOf(g, q)
           c == ColOf(g, q)
<1>1. g.d \in Layers /\ o \in 0 .. (n - 1)
  BY DEF Fits
<1>2. n \in Nat \ {0}
  BY <1>1, LayerIs
<1>3. r \in Nat /\ c \in 0 .. (n - 1) /\ o + q = (r * n) + c
  BY PlaceIs
<1>4. RowOf(g, 0) = (o + 0) \div n /\ ColOf(g, 0) = (o + 0) % n
  BY DEF RowOf, ColOf
<1>5. RowOf(g, q + 1) = (o + (q + 1)) \div n /\ ColOf(g, q + 1) = (o + (q + 1)) % n
  BY DEF RowOf, ColOf
<1> HIDE DEF n, o, r, c
<1>6. (0 * n) + o = o + 0
  BY <1>1, <1>2
<1>7. (o + 0) \div n = 0 /\ (o + 0) % n = o
  <2>1. ((0 * n) + o) \div n = 0 /\ ((0 * n) + o) % n = o
    BY <1>1, <1>2, DivisionIs
  <2> QED BY <1>6, <2>1, Zenon
<1>8. CASE c = n - 1
  <2>1. ((r + 1) * n) + 0 = o + (q + 1)
    <3>1. (r + 1) * n = (r * n) + n /\ r * n \in Nat
      BY <1>2, <1>3
    <3> QED BY <1>1, <1>2, <1>3, <1>8, <3>1
  <2>2. r + 1 \in Int /\ 0 \in 0 .. (n - 1)
    BY <1>2, <1>3
  <2>3. (((r + 1) * n) + 0) \div n = r + 1 /\ (((r + 1) * n) + 0) % n = 0
    BY <1>2, <2>2, DivisionIs
  <2>4. (o + (q + 1)) \div n = r + 1 /\ (o + (q + 1)) % n = 0
    BY <2>1, <2>3, Zenon
  <2> QED BY <1>4, <1>5, <1>7, <1>8, <2>4 DEF n, o, r, c
<1>9. CASE c # n - 1
  <2>1. (r * n) + (c + 1) = o + (q + 1)
    <3>1. r * n \in Nat
      BY <1>2, <1>3
    <3> QED BY <1>1, <1>2, <1>3, <3>1
  <2>2. r \in Int /\ c + 1 \in 0 .. (n - 1)
    BY <1>2, <1>3, <1>9
  <2>3. ((r * n) + (c + 1)) \div n = r /\ ((r * n) + (c + 1)) % n = c + 1
    BY <1>2, <2>2, DivisionIs
  <2>4. (o + (q + 1)) \div n = r /\ (o + (q + 1)) % n = c + 1
    BY <2>1, <2>3, Zenon
  <2> QED BY <1>4, <1>5, <1>7, <1>9, <2>4 DEF n, o, r, c
<1> QED BY <1>8, <1>9

\* A row base moved on by another row's bytes, the strip's size being what it wraps at.
LEMMA BaseNext ==
  ASSUME NEW n \in Nat \ {0}, NEW b \in Nat, NEW r \in Nat, NEW s \in Nat
  PROVE  (((b + (r * s)) % n) + s) % n = (b + ((r + 1) * s)) % n
<1> DEFINE x == b + (r * s)
           m == x % n
           d == x \div n
           e == (m + s) \div n
           f == (m + s) % n
<1>1. r * s \in Nat /\ (r + 1) * s = (r * s) + s
  OBVIOUS
<1>2. x \in Int
  BY <1>1
<1> HIDE DEF x
<1>3. d \in Int /\ m \in 0 .. (n - 1) /\ x = (d * n) + m
  BY <1>2, Division
<1> HIDE DEF m, d
<1>4. m + s \in Int
  BY <1>3
<1>5. e \in Int /\ f \in 0 .. (n - 1) /\ m + s = (e * n) + f
  BY <1>4, Division
<1> HIDE DEF e, f
<1>6. x + s = ((d + e) * n) + f
  <2>1. (d + e) * n = (d * n) + (e * n)
    BY <1>3, <1>5
  <2>2. d * n \in Int /\ e * n \in Int
    BY <1>3, <1>5
  <2> QED BY <1>2, <1>3, <1>5, <2>1, <2>2
<1>7. (((d + e) * n) + f) % n = f
  <2>1. d + e \in Int
    BY <1>3, <1>5
  <2> QED BY <1>5, <2>1, DivisionIs
<1>8. b + ((r + 1) * s) = x + s
  BY <1>1 DEF x
<1>9. (m + s) % n = (x + s) % n
  BY <1>6, <1>7, Zenon DEF f
<1> QED BY <1>8, <1>9 DEF m, x

\* The feed keeps to the positions, a clock at a time.
LEMMA FeedMoves ==
  ASSUME TileInv, Fits(cfg), WalkInv, FeedInv, Clock
  PROVE  FeedInv'
<1> DEFINE At(f, q, i) ==
             LET kx == walk.kx + i
             IN /\ f.ox = ColOf(cfg, q) /\ f.iy = IyOf(cfg, q, walk.ky)
                /\ f.ix = IxOf(cfg, q, kx) /\ f.row0 = kx - 1
                /\ f.rowb = (walk.base_ic + walk.base_ky
                               + (RowOf(cfg, q) * (cfg.st * cfg.d.w))) % STRIPD
                /\ f.wrap = (ColOf(cfg, q) = cfg.d.ow - 1)
<1>1. SUFFICES ASSUME state' = "SWEEP", NEW i \in {0, 1}
               PROVE  i = 0 \/ kpack => At(feed'[i], walk'.p, i) /\ SameLap
  <2>1. cfg' = cfg /\ kpack' = kpack
    BY ClockKeeps
  <2>2. state' = "SWEEP" => \A i \in {0, 1} : i = 0 \/ kpack => At(feed'[i], walk'.p, i) /\ SameLap
    BY <1>1
  <2> QED BY <2>1, <2>2 DEF FeedInv, SameLap, RowOf, ColOf, IyOf, IxOf
<1> HIDE DEF At
<1>2. /\ feed' = [j \in {0, 1} |-> CASE state = "LOAD" -> FeedLoad(j)
                                     [] state = "SWEEP" -> FeedStep(feed[j])
                                     [] OTHER -> feed[j]]
  BY ClockKeeps
<1>3. state = "LOAD" \/ (state = "SWEEP" /\ Pos + 1 < cfg.P)
  <2>1. Sweeping \/ ~Sweeping
    OBVIOUS
  <2>2. CASE ~Sweeping
    <3>1. state' = "LOAD" \/ ~Sweeping'
      BY <2>2, SweepsBegin
    <3> QED BY <1>1, <3>1 DEF Sweeping
  <2>3. CASE state = "FLUSH" /\ flag.now
    <3>1. state' \in {"LOAD", "IDLE"}
      BY <2>3, LapEnds
    <3> QED BY <1>1, <3>1
  <2>4. CASE state = "SWEEP" \/ (state = "FLUSH" /\ ~flag.now)
    <3>1. /\ Pos \in 0 .. (cfg.P + FLUSH - 2) /\ (state = "SWEEP" <=> Pos < cfg.P)
          /\ (state' = "SWEEP" <=> Pos + 1 < cfg.P)
      BY <2>4, LapRuns
    <3>2. cfg.P \in Nat
      BY DEF Fits
    <3>3. FLUSH \in Nat
      BY FlushIs DEF TileInv, GeomInv
    <3> QED BY <1>1, <2>4, <3>1, <3>2, <3>3
  <2> QED BY <2>2, <2>3, <2>4 DEF Sweeping
<1>4. /\ cfg.d \in Layers /\ cfg.st \in {1, 2} /\ cfg.ox0 \in 0 .. (cfg.d.ow - 1)
      /\ cfg.oy0 \in Nat /\ cfg.Cb \in Nat \ {0} /\ cfg.K = cfg.Cb * 9 /\ cfg.strip_ch \in Nat \ {0}
      /\ STRIPD \in Nat \ {0}
  BY DeviceAssumption DEF Fits
<1>5. cfg.d.w \in Nat \ {0} /\ cfg.d.ow \in Nat \ {0}
  BY <1>4, LayerIs
<1> DEFINE kx == walk.kx + i
           ky == walk.ky
           b == walk.base_ic + walk.base_ky
           w == cfg.d.w
           s == cfg.st * w
<1>6. walk.kx \in 0 .. 2 /\ ky \in 0 .. 2 /\ b \in Nat /\ s \in Nat
  <2>1. /\ walk.k \in 0 .. ((cfg.Cb * 9) - 1)
        /\ walk.kx = walk.k % 3 /\ walk.ky = (walk.k \div 3) % 3
        /\ walk.base_ic = (walk.k \div 9) * cfg.strip_ch /\ walk.base_ky = walk.ky * w
    BY <1>3, <1>4 DEF WalkInv, Sweeping
  <2>2. walk.kx \in 0 .. 2 /\ walk.ky \in 0 .. 2 /\ walk.k \div 9 \in 0 .. (cfg.Cb - 1)
    BY <1>4, <2>1, TapArith
  <2>3. walk.k \div 9 \in Nat /\ walk.ky \in Nat /\ cfg.strip_ch \in Nat /\ w \in Nat /\ cfg.st \in Nat
    BY <1>4, <1>5, <2>2
  <2> HIDE DEF w
  <2>4. walk.base_ic \in Nat /\ walk.base_ky \in Nat /\ s \in Nat
    BY <2>1, <2>3, Times
  <2> QED BY <2>2, <2>4
<1>7. kx \in Nat /\ kx % 4 = kx /\ kx - 1 \in Int
  BY <1>1, <1>6
<1>8. CASE state = "LOAD"
  <2>1. walk'.p = 0 /\ SameLap
    BY <1>8, LapStarts
  <2>2. feed'[i] = FeedLoad(i)
    BY <1>2, <1>8
  <2>3. RowOf(cfg, 0) = 0 /\ ColOf(cfg, 0) = cfg.ox0
    BY PlaceNext
  <2> DEFINE f == FeedLoad(i)
  <2>4. /\ f.ox = cfg.ox0 /\ f.iy = Coordinate(cfg.oy0) + ky /\ f.ix = Coordinate(cfg.ox0) + kx
        /\ f.row0 = kx - 1 /\ f.rowb = b % STRIPD /\ f.wrap = (cfg.ox0 = cfg.d.ow - 1)
    BY <1>7 DEF FeedLoad
  <2>5. IyOf(cfg, 0, ky) = Coordinate(cfg.oy0) + ky /\ IxOf(cfg, 0, kx) = Coordinate(cfg.ox0) + kx
    <3>1. cfg.ox0 \in Nat
      BY <1>4, <1>5
    <3>2. (cfg.oy0 + 0) * cfg.st = (IF cfg.st = 2 THEN 2 * cfg.oy0 ELSE cfg.oy0)
          /\ cfg.ox0 * cfg.st = (IF cfg.st = 2 THEN 2 * cfg.ox0 ELSE cfg.ox0)
      BY <1>4, <3>1
    <3> QED BY <2>3, <3>2, Zenon DEF IyOf, IxOf, Coordinate
  <2>6. b + (RowOf(cfg, 0) * s) = b
    <3> HIDE DEF b, s
    <3> QED BY <1>6, <2>3
  <2> HIDE DEF f
  <2>7. At(f, 0, i)
    BY <2>3, <2>4, <2>5, <2>6, Zenon DEF At
  <2> QED BY <2>1, <2>2, <2>7, Zenon DEF f
<1>9. CASE state = "SWEEP" /\ Pos + 1 < cfg.P
  <2>1. walk'.p = walk.p + 1 /\ SameLap /\ walk.p \in Nat
    <3>1. SameLap /\ walk'.p = walk.p + 1 /\ Pos \in 0 .. (cfg.P + FLUSH - 2)
      BY <1>1, <1>9, LapRuns
    <3>2. Pos = walk.p
      BY <1>9 DEF Pos
    <3> QED BY <3>1, <3>2
  <2> DEFINE q == walk.p
             f == feed[i]
             h == FeedStep(f)
             r == RowOf(cfg, q)
             c == ColOf(cfg, q)
  <2>2. feed'[i] = h
    BY <1>2, <1>9
  <2>3. i = 0 \/ kpack => At(f, q, i)
    BY <1>9 DEF FeedInv, At
  <2> SUFFICES ASSUME At(f, q, i) PROVE At(h, q + 1, i)
    BY <2>1, <2>2, <2>3
  <2>4. /\ f.ox = c /\ f.iy = IyOf(cfg, q, ky) /\ f.ix = IxOf(cfg, q, kx) /\ f.row0 = kx - 1
        /\ f.rowb = (b + (r * s)) % STRIPD /\ f.wrap = (c = cfg.d.ow - 1)
    BY Zenon DEF At
  <2>5. /\ h.ox = IF f.wrap THEN 0 ELSE f.ox + 1
        /\ h.iy = IF f.wrap THEN f.iy + cfg.st ELSE f.iy
        /\ h.ix = IF f.wrap THEN f.row0 ELSE f.ix + cfg.st
        /\ h.row0 = f.row0
        /\ h.rowb = IF f.wrap THEN (f.rowb + s) % STRIPD ELSE f.rowb
        /\ h.wrap = IF f.wrap THEN cfg.d.ow = 1 ELSE f.ox = cfg.d.ow - 2
    BY DEF FeedStep
  <2>6. r \in Nat /\ c \in 0 .. (cfg.d.ow - 1)
    BY <2>1, PlaceIs
  <2>7. IF c = cfg.d.ow - 1
        THEN RowOf(cfg, q + 1) = r + 1 /\ ColOf(cfg, q + 1) = 0
        ELSE RowOf(cfg, q + 1) = r /\ ColOf(cfg, q + 1) = c + 1
    BY <2>1, PlaceNext
  <2>8. /\ IyOf(cfg, q, ky) = ((cfg.oy0 + r) * cfg.st) - 1 + ky
        /\ IxOf(cfg, q, kx) = (c * cfg.st) - 1 + kx
        /\ IyOf(cfg, q + 1, ky) = ((cfg.oy0 + RowOf(cfg, q + 1)) * cfg.st) - 1 + ky
        /\ IxOf(cfg, q + 1, kx) = (ColOf(cfg, q + 1) * cfg.st) - 1 + kx
    BY Zenon DEF IyOf, IxOf
  <2> DEFINE ow == cfg.d.ow
             st == cfg.st
             oy == cfg.oy0
  <2>9. ow \in Nat \ {0} /\ st \in {1, 2} /\ oy \in Nat /\ c \in 0 .. (ow - 1)
    BY <1>4, <1>5, <2>6
  <2> HIDE DEF ow, st, oy, r, c, f, h, b, s, q, kx, ky, w
  <2>10. CASE c = ow - 1
    <3>1. h.ox = 0 /\ h.iy = f.iy + st /\ h.ix = kx - 1 /\ h.row0 = kx - 1
          /\ h.rowb = (((b + (r * s)) % STRIPD) + s) % STRIPD /\ h.wrap = (ow = 1)
      BY <2>4, <2>5, <2>10 DEF ow, st
    <3>2. (((b + (r * s)) % STRIPD) + s) % STRIPD = (b + ((r + 1) * s)) % STRIPD
      <4>1. b \in Nat /\ r \in Nat /\ s \in Nat /\ STRIPD \in Nat \ {0}
        BY <1>4, <1>6, <2>6
      <4> QED BY <4>1, BaseNext, Zenon
    <3>3. RowOf(cfg, q + 1) = r + 1 /\ ColOf(cfg, q + 1) = 0
      BY <2>7, <2>10 DEF ow
    <3>4. h.wrap = (0 = ow - 1)
      BY <2>9, <3>1
    <3>5. IyOf(cfg, q + 1, ky) = IyOf(cfg, q, ky) + st /\ IxOf(cfg, q + 1, kx) = kx - 1
      <4>1. IyOf(cfg, q, ky) = ((oy + r) * st) - 1 + ky
            /\ IxOf(cfg, q + 1, kx) = (0 * st) - 1 + kx
            /\ IyOf(cfg, q + 1, ky) = ((oy + (r + 1)) * st) - 1 + ky
        BY <2>8, <3>3, Zenon DEF oy, st
      <4>2. (oy + (r + 1)) * st = ((oy + r) * st) + st /\ 0 * st = 0 /\ (oy + r) * st \in Int
        BY <2>6, <2>9
      <4> QED BY <1>6, <1>7, <2>9, <4>1, <4>2
    <3> QED BY <2>4, <3>1, <3>2, <3>3, <3>4, <3>5, Zenon DEF At, ow, b, s, q, kx, ky, w
  <2>11. CASE c # ow - 1
    <3>1. h.ox = c + 1 /\ h.iy = f.iy /\ h.ix = f.ix + st /\ h.row0 = kx - 1
          /\ h.rowb = (b + (r * s)) % STRIPD /\ h.wrap = (c = ow - 2)
      BY <2>4, <2>5, <2>11 DEF ow, st
    <3>2. RowOf(cfg, q + 1) = r /\ ColOf(cfg, q + 1) = c + 1
      BY <2>7, <2>11 DEF ow
    <3>3. h.wrap = (c + 1 = ow - 1)
      BY <2>9, <3>1
    <3>4. IyOf(cfg, q + 1, ky) = IyOf(cfg, q, ky)
      BY <2>8, <3>2, Zenon
    <3>5. IxOf(cfg, q + 1, kx) = IxOf(cfg, q, kx) + st
      <4>1. IxOf(cfg, q, kx) = (c * st) - 1 + kx /\ IxOf(cfg, q + 1, kx) = ((c + 1) * st) - 1 + kx
        BY <2>8, <3>2, Zenon DEF st
      <4>2. (c + 1) * st = (c * st) + st /\ c * st \in Int
        BY <2>9
      <4> QED BY <1>7, <2>9, <4>1, <4>2
    <3> QED BY <2>4, <3>1, <3>2, <3>3, <3>4, <3>5, Zenon DEF At, ow, b, s, q, kx, ky, w
  <2>12. At(h, q + 1, i)
    BY <2>10, <2>11
  <2> QED BY <2>12 DEF h, q, f
<1> QED BY <1>3, <1>8, <1>9

\* In a sweep the buffer's words are the pass's.
LEMMA WordsIn ==
  ASSUME TileInv, Fits(cfg), host.pass \in Nat, MemInv, WalkInv, Sweeping
  PROVE  /\ wbuf[(walk.k * cfg.QG) + walk.g] = WordOf(cfg, walk.g, Tap)
         /\ kpack /\ walk.kx # 2 =>
              wbuf[((walk.k * cfg.QG) + walk.g + cfg.QG) % WDEPTH] = WordOf(cfg, walk.g, Tap + 1)
<1>1. /\ walk.k \in 0 .. (cfg.K - 1) /\ walk.g \in 0 .. (cfg.QG - 1) /\ walk.kx = walk.k % 3
      /\ kpack => walk.kx # 1
  BY DEF WalkInv
<1>2. /\ cfg.QG \in Nat \ {0} /\ cfg.Cb \in Nat \ {0} /\ cfg.K = cfg.Cb * 9
      /\ WDEPTH \in Nat \ {0}
  BY DeviceAssumption DEF Fits
<1>3. \A k \in 0 .. (cfg.K - 1), gg \in 0 .. (cfg.QG - 1) :
        wbuf[(k * cfg.QG) + gg] = WordOf(cfg, gg, (host.pass * cfg.K) + k)
  <2>1. host.do = "run"
    BY DEF TileInv, SweepInv, Sweeping
  <2> QED BY <2>1, Zenon DEF MemInv
<1>4. wbuf[(walk.k * cfg.QG) + walk.g] = WordOf(cfg, walk.g, Tap)
  BY <1>1, <1>3, Zenon DEF Tap
<1>5. ASSUME kpack, walk.kx # 2
      PROVE  wbuf[((walk.k * cfg.QG) + walk.g + cfg.QG) % WDEPTH] = WordOf(cfg, walk.g, Tap + 1)
  <2> DEFINE C == cfg.Cb
             k == walk.k
             Q == cfg.QG
             g == walk.g
  <2>1. k % 3 = 0
    <3>1. k \in Nat
      BY <1>1, <1>2
    <3> QED BY <1>1, <1>5, <3>1
  <2>2. k + 1 \in 0 .. (cfg.K - 1)
    <3>1. C \in Nat \ {0} /\ k \in 0 .. ((C * 9) - 1)
      BY <1>1, <1>2
    <3> HIDE DEF C, k
    <3>2. k + 1 \in 0 .. ((C * 9) - 1)
      BY <2>1, <3>1, TapArith
    <3> QED BY <1>2, <3>2, Zenon DEF C
  <2>3. /\ ((k + 1) * Q) + g = (((k + 1) * Q) + g) % WDEPTH
    BY <1>1, <2>2, WordPlace
  <2>4. (k + 1) * Q = (k * Q) + Q /\ k * Q \in Nat
    BY <1>1, WordPlace
  <2>5. ((k + 1) * Q) + g = (k * Q) + g + Q
    BY <1>1, <1>2, <2>4
  <2>6. wbuf[((k + 1) * Q) + g] = WordOf(cfg, g, (host.pass * cfg.K) + (k + 1))
    BY <1>1, <1>3, <2>2
  <2>7. (host.pass * cfg.K) + (k + 1) = Tap + 1
    <3>1. host.pass * cfg.K \in Int
      BY <1>2
    <3> QED BY <1>1, <3>1 DEF Tap
  <2> QED BY <2>3, <2>5, <2>6, <2>7, Zenon
<1> QED BY <1>4, <1>5

\* The words in hand are the tap's, a clock at a time.
LEMMA WordsMove ==
  ASSUME TileInv, DataShape, Fits(cfg), host.pass \in Nat, MemInv, WalkInv, WregInv,
         Clock
  PROVE  WregInv'
<1> SUFFICES ASSUME Sweeping', state' # "LOAD" PROVE WregInv'
  BY DEF WregInv
<1>1. /\ cfg' = cfg /\ kpack' = kpack /\ host'.pass = host.pass /\ kpack \in BOOLEAN
      /\ wreg' = NextWreg /\ IsRecord(wreg, {"now", "port", "near", "cap", "pair", "pair_r"})
  BY ClockKeeps DEF TileInv, GeomInv, DataShape
<1>2. CASE ~Sweeping
  BY <1>2, SweepsBegin
<1>3. CASE state = "LOAD"
  <2>1. state' = "SWEEP" /\ walk'.p = 0 /\ SameLap
    BY <1>3, LapStarts
  <2>2. Pos' = 0 /\ Tap' = Tap
    BY <1>1, <2>1 DEF Pos, Tap, SameLap
  <2>3. walk.wcnt = (walk.k * cfg.QG) + walk.g /\ wbuf[walk.wcnt] = WordOf(cfg, walk.g, Tap)
    <3>1. walk.wcnt = (walk.k * cfg.QG) + walk.g
      BY <1>3 DEF WalkInv, Sweeping
    <3> QED BY <1>3, <3>1, WordsIn DEF Sweeping
  <2>4. CASE ~kpack
    <3>1. wreg'.now = wbuf[walk.wcnt]
      BY <1>1, <1>3, <2>4 DEF NextWreg, IsRecord
    <3>2. wreg'.now = WordOf(cfg', walk'.g, Tap')
      BY <1>1, <2>1, <2>2, <2>3, <3>1 DEF SameLap
    <3>3. wreg'.now = WordOf(cfg, walk.g, Tap)'
      BY <3>2, Zenon DEF WordOf, Lanes
    <3> QED BY <1>1, <2>4, <3>3, Zenon DEF WregInv
  <2>5. CASE kpack
    <3>1. /\ wreg'.port = wbuf[walk.wcnt] /\ wreg'.cap /\ wreg'.pair_r
          /\ wreg'.pair = (walk.wcnt + cfg.QG) % WDEPTH
      BY <1>1, <1>3, <2>5 DEF NextWreg
    <3>2. /\ wreg'.port = WordOf(cfg', walk'.g, Tap')
          /\ wreg'.pair = ((walk'.k * cfg'.QG) + walk'.g + cfg'.QG) % WDEPTH
      BY <1>1, <2>1, <2>2, <2>3, <3>1, Zenon DEF SameLap
    <3>3. wreg'.port = WordOf(cfg, walk.g, Tap)'
      BY <3>2, Zenon DEF WordOf, Lanes
    <3> QED BY <1>1, <2>2, <2>5, <3>1, <3>2, <3>3, Zenon DEF WregInv
  <2> QED BY <1>1, <2>4, <2>5
<1>4. CASE state = "SWEEP" \/ (state = "FLUSH" /\ ~flag.now)
  <2>1. SameLap /\ Pos' = Pos + 1 /\ Pos \in Nat
    <3>1. FLUSH \in Nat /\ cfg.P \in Nat
      BY FlushIs DEF TileInv, GeomInv
    <3>2. SameLap /\ Pos' = Pos + 1 /\ Pos \in 0 .. (cfg.P + FLUSH - 2)
      BY <1>4, LapRuns
    <3> QED BY <3>1, <3>2
  <2>2. Tap' = Tap /\ walk'.g = walk.g /\ walk'.kx = walk.kx
    BY <1>1, <2>1 DEF Tap, SameLap
  <2>3. \A n : WordOf(cfg', walk'.g, n) = WordOf(cfg, walk.g, n)
    BY <1>1, <2>2, Zenon
  <2>4. Sweeping /\ state # "LOAD"
    BY <1>4 DEF Sweeping
  <2>5. CASE ~kpack
    <3>1. wreg'.now = wreg.now
      BY <1>1, <2>4, <2>5 DEF NextWreg, IsRecord
    <3>2. wreg.now = WordOf(cfg, walk.g, Tap)
      BY <2>4, <2>5 DEF WregInv
    <3> QED BY <1>1, <2>2, <2>5, <3>1, <3>2 DEF WregInv
  <2>6. CASE kpack
    <3>1. /\ wreg'.now = IF wreg.cap THEN wreg.port ELSE wreg.now
          /\ wreg'.port = IF wreg.pair_r THEN wbuf[wreg.pair] ELSE wreg.port
          /\ wreg'.near = wreg.port
          /\ ~wreg'.cap /\ ~wreg'.pair_r
      BY <1>1, <2>4, <2>6 DEF NextWreg
    <3>2. CASE Pos = 0
      <4>1. /\ wreg.port = WordOf(cfg, walk.g, Tap) /\ wreg.cap /\ wreg.pair_r
            /\ wreg.pair = ((walk.k * cfg.QG) + walk.g + cfg.QG) % WDEPTH
        BY <2>4, <2>6, <3>2 DEF WregInv
      <4>2. walk.kx # 2 => wbuf[wreg.pair] = WordOf(cfg, walk.g, Tap + 1)
        BY <2>4, <2>6, <4>1, WordsIn
      <4>3. Pos' = 1
        BY <2>1, <3>2
      <4> QED BY <1>1, <2>2, <2>6, <3>1, <4>1, <4>2, <4>3 DEF WregInv
    <3>3. CASE Pos # 0
      <4>1. /\ wreg.now = WordOf(cfg, walk.g, Tap) /\ ~wreg.cap /\ ~wreg.pair_r
            /\ walk.kx # 2 => wreg.port = WordOf(cfg, walk.g, Tap + 1)
        BY <2>4, <2>6, <3>3 DEF WregInv
      <4>2. Pos' # 0
        BY <2>1
      <4> QED BY <1>1, <2>2, <2>6, <3>1, <4>1, <4>2 DEF WregInv
    <3> QED BY <3>2, <3>3
  <2> QED BY <1>1, <2>5, <2>6
<1>5. CASE state = "FLUSH" /\ flag.now
  BY <1>5, LapEnds DEF Sweeping
<1> QED BY <1>2, <1>3, <1>4, <1>5 DEF Sweeping

\* In a lap every position moves a stage on; elsewhere none is in the pipeline but, on
\* the clock that ends a lap, the last one at its end.
LEMMA PipeMoves ==
  ASSUME TileInv, Clock
  PROVE  /\ 1 \in InPipe' <=> state = "SWEEP"
         /\ \A n \in 1 .. (FLUSH - 1) : n + 1 \in InPipe' <=> n \in InPipe
         /\ \A n \in 1 .. FLUSH : n \in InPipe' =>
              /\ SameLap /\ Pos' = Pos + 1 /\ Pos \in Nat
              /\ state = "SWEEP" \/ (state = "FLUSH" /\ ~flag.now)
<1>1. cfg' = cfg /\ FLUSH' = FLUSH
  BY ClockKeeps
<1>2. cfg.P \in Nat \ {0} /\ FLUSH \in Nat /\ FLUSH >= 5 /\ FLUSH <= 6
  BY FlushIs DEF TileInv, GeomInv
<1> DEFINE F == FLUSH
           P == cfg.P
           x == Pos
           y == Pos'
           Here(n) == Sweeping /\ x - n \in 0 .. (P - 1)
           Then(n) == Sweeping' /\ y - n \in 0 .. (P - 1)
<1>3. \A n \in 1 .. 6 : (n \in InPipe <=> Here(n)) /\ (n \in InPipe' <=> Then(n))
  BY <1>1 DEF InPipe
<1>4. CASE state = "SWEEP" \/ (state = "FLUSH" /\ ~flag.now)
  <2>1. /\ state' \in {"SWEEP", "FLUSH"} /\ SameLap /\ y = x + 1 /\ x \in 0 .. (P + F - 2)
        /\ (state = "SWEEP" <=> x < P)
    BY <1>4, LapRuns
  <2>2. Sweeping /\ Sweeping'
    BY <1>4, <2>1 DEF Sweeping
  <2> HIDE DEF F, P, x, y
  <2>3. P \in Nat \ {0} /\ F \in Nat /\ F >= 5 /\ F <= 6
    BY <1>2 DEF P, F
  <2>4. Then(1) <=> state = "SWEEP"
    BY <2>1, <2>2, <2>3
  <2>5. \A n \in 1 .. (F - 1) : Then(n + 1) <=> Here(n)
    BY <2>1, <2>2, <2>3
  <2>6. x \in Nat /\ 1 \in 1 .. 6 /\ \A n \in 1 .. (F - 1) : n \in 1 .. 6 /\ n + 1 \in 1 .. 6
    BY <2>1, <2>3
  <2> HIDE DEF Here, Then
  <2> QED BY <1>3, <1>4, <2>1, <2>4, <2>5, <2>6 DEF F, x, y
<1>5. CASE ~(state = "SWEEP" \/ (state = "FLUSH" /\ ~flag.now))
  <2>1. /\ Sweeping' => y = 0
        /\ Sweeping => x = 0 \/ x = P + (F - 1)
    <3>1. CASE ~Sweeping
      <4>1. state' = "LOAD" \/ ~Sweeping'
        BY <3>1, SweepsBegin
      <4> QED BY <3>1, <4>1 DEF Pos
    <3>2. CASE state = "LOAD"
      <4>1. state' = "SWEEP" /\ walk'.p = 0
        BY <3>2, LapStarts
      <4> QED BY <3>2, <4>1 DEF Pos
    <3>3. CASE state = "FLUSH" /\ flag.now
      <4>1. x = P + (F - 1) /\ state' \in {"LOAD", "IDLE"}
        BY <3>3, LapEnds
      <4> QED BY <4>1 DEF Pos
    <3> QED BY <1>5, <3>1, <3>2, <3>3 DEF Sweeping
  <2> HIDE DEF F, P, x, y
  <2>2. P \in Nat \ {0} /\ F \in Nat /\ F >= 5 /\ F <= 6
    BY <1>2 DEF P, F
  <2>3. \A n \in 1 .. F : ~Then(n)
    BY <2>1, <2>2
  <2>4. \A n \in 1 .. (F - 1) : ~Here(n)
    BY <2>1, <2>2
  <2>5. /\ 1 \in 1 .. F /\ \A n \in 1 .. (F - 1) : n + 1 \in 1 .. F
        /\ \A n \in 1 .. F : n \in 1 .. 6
        /\ \A n \in 1 .. (F - 1) : n \in 1 .. F
    BY <2>2
  <2> HIDE DEF Here, Then
  <2>6. /\ 1 \notin InPipe' /\ \A n \in 1 .. (F - 1) : n + 1 \notin InPipe' /\ n \notin InPipe
        /\ \A n \in 1 .. F : n \notin InPipe'
    BY <1>3, <2>3, <2>4, <2>5
  <2> QED BY <1>5, <2>6 DEF F
<1> QED BY <1>4, <1>5

\* The rows a block's positions read are the strip's.
LEMMA RowsInStrip ==
  ASSUME NEW g, Fits(g), NEW q \in 0 .. (g.P - 1), NEW ky \in 0 .. 2
  PROVE  ky + (RowOf(g, q) * g.st) \in 0 .. (g.SROWS - 1)
<1> DEFINE n == g.d.ow
           o == g.ox0
           P == g.P
           r == RowOf(g, q)
           s == g.st
           z == g.rowspan
           x == o + (P - 1)
<1>1. /\ g.d \in Layers /\ o \in 0 .. (n - 1) /\ P \in Nat \ {0} /\ s \in {1, 2} /\ z \in Nat
      /\ z = x \div n /\ g.SROWS = (z * s) + 3 /\ r = (o + q) \div n
  BY DEF Fits, RowOf
<1>2. n \in Nat \ {0}
  BY <1>1, LayerIs
<1>3. q \in 0 .. (P - 1)
  OBVIOUS
<1> HIDE DEF n, o, P, r, s, z
<1>4. x \in Int /\ o + q \in Nat /\ o + q <= x
  BY <1>1, <1>2, <1>3
<1>5. x % n \in 0 .. (n - 1) /\ x = (z * n) + (x % n)
  BY <1>1, <1>2, <1>4, Division
<1>6. x < (z + 1) * n
  <2>1. (z + 1) * n = (z * n) + n /\ z * n \in Nat
    BY <1>1, <1>2
  <2> HIDE DEF x
  <2> QED BY <1>2, <1>4, <1>5, <2>1
<1>7. o + q \in 0 .. (((z + 1) * n) - 1)
  <2>1. (z + 1) * n \in Int
    BY <1>1, <1>2
  <2> HIDE DEF x
  <2> QED BY <1>4, <1>6, <2>1
<1>8. (o + q) \div n \in 0 .. ((z + 1) - 1)
  <2>1. z + 1 \in Nat \ {0}
    BY <1>1
  <2> QED BY <1>2, <1>7, <2>1, SplitOf
<1>9. r \in Nat /\ r <= z
  BY <1>1, <1>8
<1>10. r * s \in Nat /\ r * s <= z * s /\ z * s \in Nat
  BY <1>1, <1>9
<1>11. ky + (r * s) \in 0 .. (g.SROWS - 1)
  BY <1>1, <1>10
<1> QED BY <1>11 DEF r, s

\* The byte of the strip at channel c, row and column.
LEMMA ByteAt ==
  ASSUME NEW g, Fits(g), NEW n \in Nat, NEW c \in 0 .. (g.Cb - 1),
         NEW row \in 0 .. (g.SROWS - 1), NEW x \in 0 .. (g.d.w - 1)
  PROVE  LET a == (c * g.strip_ch) + ((row * g.d.w) + x)
         IN /\ a \in 0 .. (g.a_len - 1) /\ a \in 0 .. (STRIPD - 1)
            /\ g.iy_base + row \in 0 .. (g.d.h - 1) =>
                 StripBytes(g, n)[a] = <<(n * g.Cb) + c, g.iy_base + row, x>>
<1> DEFINE C == g.Cb
           R == g.SROWS
           w == g.d.w
           S == g.strip_ch
           b == (row * w) + x
           a == (c * S) + b
           L == g.a_len
<1>1. /\ g.d \in Layers /\ C \in Nat \ {0} /\ R \in Nat \ {0} /\ S = R * w /\ L = C * S
      /\ L <= STRIPD /\ STRIPD \in Nat \ {0}
  BY DeviceAssumption DEF Fits
<1>2. w \in Nat \ {0}
  BY <1>1, LayerIs
<1>3. c \in 0 .. (C - 1) /\ row \in 0 .. (R - 1) /\ x \in 0 .. (w - 1)
  OBVIOUS
<1> HIDE DEF C, R, w, S, L
<1>4. S \in Nat \ {0}
  BY <1>1, <1>2, Times
<1>5. b \in 0 .. (S - 1) /\ b \div w = row /\ b % w = x
  BY <1>1, <1>2, <1>3, JoinOf
<1> HIDE DEF b
<1>6. a \in 0 .. (L - 1) /\ a \div S = c /\ a % S = b
  <2>1. /\ (c * S) + b \in 0 .. ((C * S) - 1)
        /\ ((c * S) + b) \div S = c /\ ((c * S) + b) % S = b
    <3>1. C \in Nat \ {0} /\ c \in 0 .. (C - 1) /\ b \in 0 .. (S - 1)
      BY <1>1, <1>3, <1>5
    <3> HIDE DEF a
    <3> QED BY <1>4, <3>1, JoinOf
  <2> QED BY <1>1, <2>1, Zenon
<1>7. a % w = x
  <2>1. a = (((c * R) + row) * w) + x
    <3>1. c \in Int /\ R \in Int /\ row \in Int /\ w \in Int /\ x \in Int
      BY <1>1, <1>2, <1>3
    <3>2. (c * R) * w = c * (R * w) /\ c * R \in Int /\ ((c * R) + row) * w = ((c * R) * w) + (row * w)
      <4>1. c * R \in Int
        BY <3>1
      <4>2. (c * R) * w = c * (R * w)
        BY <3>1, TimesTimes
      <4> DEFINE e == c * R
      <4> HIDE DEF e
      <4>3. (e + row) * w = (e * w) + (row * w)
        BY <3>1, <4>1 DEF e
      <4> QED BY <4>1, <4>2, <4>3 DEF e
    <3> DEFINE u == c * S
               v == row * w
    <3>3. u \in Int /\ v \in Int /\ u = (c * R) * w
      BY <1>1, <1>4, <3>1, <3>2
    <3> HIDE DEF u, v
    <3>4. u + (v + x) = (u + v) + x
      BY <3>1, <3>3
    <3>5. (((c * R) + row) * w) + x = (u + v) + x
      BY <3>2, <3>3, Zenon DEF v
    <3>6. a = u + (v + x)
      BY Zenon DEF u, v, b
    <3> QED BY <3>4, <3>5, <3>6, Zenon
  <2>2. (c * R) + row \in Int
    BY <1>1, <1>3
  <2> DEFINE e == (c * R) + row
  <2> HIDE DEF e
  <2>3. ((e * w) + x) % w = x
    BY <1>2, <1>3, <2>2, DivisionIs DEF e
  <2> QED BY <2>1, <2>3, Zenon DEF e
<1> HIDE DEF a
<1>8. a \in 0 .. (STRIPD - 1)
  BY <1>1, <1>4, <1>6
<1>9. StripBytes(g, n)[a] = IF g.iy_base + row \in 0 .. (g.d.h - 1)
                            THEN <<(n * g.Cb) + c, g.iy_base + row, x>> ELSE Poison
  <2>1. /\ a \in 0 .. (g.a_len - 1) /\ a \div g.strip_ch = c
        /\ (a % g.strip_ch) \div g.d.w = row /\ a % g.d.w = x
    BY <1>5, <1>6, <1>7 DEF S, w, L
  <2> QED BY <2>1, Zenon DEF StripBytes
<1>10. /\ a \in 0 .. (g.a_len - 1)
       /\ g.iy_base + row \in 0 .. (g.d.h - 1) =>
            StripBytes(g, n)[a] = <<(n * g.Cb) + c, g.iy_base + row, x>>
  BY <1>6, <1>9, Zenon DEF L
<1> QED BY <1>8, <1>10, Zenon DEF a, S, b, w

\* A tap of a later pass.
LEMMA TapOf ==
  ASSUME NEW m \in Nat, NEW k \in Nat
  PROVE  /\ ((9 * m) + k) % 3 = k % 3 /\ (((9 * m) + k) \div 3) % 3 = (k \div 3) % 3
         /\ ((9 * m) + k) \div 9 = m + (k \div 9)
OBVIOUS

\* The tap that is fed, or its partner.
LEMMA FedTap ==
  ASSUME Fits(cfg), host.pass \in Nat, WalkInv, state = "SWEEP", NEW i \in {0, 1},
         i = 0 \/ (kpack /\ walk.kx # 2)
  PROVE  LET T == Tap + i
         IN /\ T \in Nat /\ T % 3 = walk.kx + i /\ (T \div 3) % 3 = walk.ky
            /\ T \div 9 = (host.pass * cfg.Cb) + (walk.k \div 9)
            /\ walk.kx + i \in 0 .. 2 /\ walk.ky \in 0 .. 2 /\ walk.k \div 9 \in 0 .. (cfg.Cb - 1)
<1> DEFINE C == cfg.Cb
           k == walk.k
           n == host.pass
           m == n * C
           j == k + i
<1>1. /\ C \in Nat \ {0} /\ cfg.K = C * 9 /\ k \in 0 .. ((C * 9) - 1) /\ n \in Nat
      /\ walk.kx = k % 3 /\ walk.ky = (k \div 3) % 3 /\ (kpack => walk.kx # 1)
  BY DEF Fits, WalkInv, Sweeping
<1>2. Tap + i = (n * (C * 9)) + k + i
  BY <1>1, Zenon DEF Tap
<1> HIDE DEF C, k, n
<1>3. m \in Nat /\ n * (C * 9) = 9 * m
  <2>1. n * (C * 9) = (n * C) * 9 /\ n * C \in Nat
    BY <1>1
  <2> HIDE DEF m
  <2> QED BY <2>1 DEF m
<1>4. /\ k % 3 \in 0 .. 2 /\ (k \div 3) % 3 \in 0 .. 2 /\ k \div 9 \in 0 .. (C - 1)
      /\ k % 3 # 2 => /\ (k + 1) % 3 = (k % 3) + 1 /\ ((k + 1) \div 3) % 3 = (k \div 3) % 3
                      /\ (k + 1) \div 9 = k \div 9
  BY <1>1, TapArith
<1>5. k \in Nat /\ i \in {0, 1} /\ (i = 1 => k % 3 # 2)
  BY <1>1
<1>6. j % 3 = (k % 3) + i /\ (j \div 3) % 3 = (k \div 3) % 3 /\ j \div 9 = k \div 9
      /\ j \in Nat /\ (k % 3) + i \in 0 .. 2
  BY <1>4, <1>5
<1> HIDE DEF j, m
<1>7. /\ ((9 * m) + j) % 3 = j % 3 /\ (((9 * m) + j) \div 3) % 3 = (j \div 3) % 3
      /\ ((9 * m) + j) \div 9 = m + (j \div 9)
  BY <1>3, <1>6, TapOf
<1>8. Tap + i = (9 * m) + j
  BY <1>2, <1>3, <1>5 DEF j
<1>9. Tap + i \in Nat
  BY <1>3, <1>6, <1>8
<1> QED BY <1>1, <1>4, <1>6, <1>7, <1>8, <1>9, Zenon DEF m, C, n, k

\* Where the feed's row begins in the strip.
LEMMA RowBase ==
  ASSUME TileInv, Fits(cfg), host.pass \in Nat, WalkInv, FeedInv, state = "SWEEP",
         NEW i \in {0, 1}, i = 0 \/ (kpack /\ walk.kx # 2)
  PROVE  LET c == walk.k \div 9
             row == walk.ky + (RowOf(cfg, walk.p) * cfg.st)
         IN /\ c \in 0 .. (cfg.Cb - 1) /\ row \in 0 .. (cfg.SROWS - 1) /\ walk.p \in 0 .. (cfg.P - 1)
            /\ feed[i].rowb = (c * cfg.strip_ch) + (row * cfg.d.w)
            /\ c * cfg.strip_ch \in Nat /\ row * cfg.d.w \in Nat
            /\ (c * cfg.strip_ch) + (row * cfg.d.w) < STRIPD
            /\ (c * cfg.strip_ch) + (row * cfg.d.w) = ((c * cfg.SROWS) + row) * cfg.d.w
            /\ (c * cfg.SROWS) + row \in Nat
<1> DEFINE c == walk.k \div 9
           r == RowOf(cfg, walk.p)
           s == cfg.st
           ky == walk.ky
           row == ky + (r * s)
           w == cfg.d.w
           S == cfg.strip_ch
           R == cfg.SROWS
<1>1. walk.p \in 0 .. (cfg.P - 1)
  BY DEF TileInv, SweepInv
<1>2. ky \in 0 .. 2 /\ c \in 0 .. (cfg.Cb - 1)
  BY FedTap
<1>3. row \in 0 .. (R - 1)
  BY <1>1, <1>2, RowsInStrip
<1>4. /\ cfg.d \in Layers /\ R \in Nat \ {0} /\ S = R * w /\ S \in Nat \ {0} /\ s \in {1, 2}
      /\ cfg.Cb \in Nat \ {0} /\ STRIPD \in Nat \ {0} /\ cfg.P \in Nat \ {0}
  BY DeviceAssumption DEF Fits
<1>5. w \in Nat \ {0}
  BY <1>4, LayerIs
<1>6. r \in Nat
  <2>1. walk.p \in Nat
    BY <1>1, <1>4
  <2> QED BY <2>1, PlaceIs
<1>7. /\ walk.base_ic = c * S /\ walk.base_ky = ky * w
      /\ feed[i].rowb = (walk.base_ic + walk.base_ky + (r * (s * w))) % STRIPD
  BY DEF WalkInv, FeedInv, Sweeping
<1>8. (c * S) + ((row * w) + 0) \in 0 .. (STRIPD - 1)
  <2>1. 0 \in 0 .. (cfg.d.w - 1) /\ 0 \in Nat
    BY <1>5
  <2> QED BY <1>2, <1>3, <2>1, ByteAt
<1> HIDE DEF c, r, s, ky, w, S, R
<1>9. c \in Nat /\ S \in Nat /\ R \in Nat /\ row \in Nat /\ w \in Nat /\ ky \in Nat /\ s \in Nat
  BY <1>2, <1>3, <1>4, <1>5
<1>10. row * w = (ky * w) + (r * (s * w))
  <2>1. (r * s) * w = r * (s * w) /\ r * s \in Nat
    <3>1. r * s \in Nat
      BY <1>6, <1>9
    <3> QED BY <1>6, <1>9, <3>1, TimesTimes
  <2> DEFINE e == r * s
  <2> HIDE DEF e
  <2>2. (ky + e) * w = (ky * w) + (e * w)
    BY <1>9, <2>1 DEF e
  <2> QED BY <2>1, <2>2, Zenon DEF e
<1>11. (c * S) + (row * w) = ((c * R) + row) * w /\ (c * R) + row \in Nat
  <2>1. (c * R) * w = c * (R * w) /\ c * R \in Nat
    <3>1. c * R \in Nat
      BY <1>9
    <3> QED BY <1>9, <3>1, TimesTimes
  <2> DEFINE e == c * R
  <2> HIDE DEF e, row
  <2>2. (e + row) * w = (e * w) + (row * w) /\ e + row \in Nat
    BY <1>9, <2>1 DEF e
  <2> QED BY <1>4, <2>1, <2>2, Zenon DEF e
<1> DEFINE u == c * S
           v == row * w
           y == r * (s * w)
           z == ky * w
<1>12. u \in Nat /\ v \in Nat /\ y \in Nat /\ z \in Nat
  <2> HIDE DEF row
  <2>1. s * w \in Nat
    BY <1>9
  <2>2. y \in Nat
    BY <1>6, <2>1, Times
  <2> QED BY <1>9, <2>2, Times
<1>13. v = z + y /\ u + (v + 0) \in 0 .. (STRIPD - 1)
  BY <1>8, <1>10, Zenon
<1>14. feed[i].rowb = (u + z + y) % STRIPD
  BY <1>7, Zenon
<1> HIDE DEF u, v, y, z, row
<1>15. u + z + y = u + v /\ u + v \in 0 .. (STRIPD - 1)
  BY <1>12, <1>13
<1>16. (u + v) % STRIPD = u + v
  BY <1>4, <1>15, Small
<1>17. feed[i].rowb = u + v /\ u + v < STRIPD
  <2>1. feed[i].rowb = u + v
    BY <1>14, <1>15, <1>16, Zenon
  <2> QED BY <1>4, <1>15, <2>1
<1> QED BY <1>1, <1>2, <1>3, <1>11, <1>12, <1>17, Zenon DEF u, v, row, c, r, s, ky, w, S, R

\* What the feed's address and flag say of the tap it is at.
LEMMA FeedReads ==
  ASSUME TileInv, Fits(cfg), host.pass \in Nat, MemInv, WalkInv, FeedInv, state = "SWEEP",
         NEW i \in {0, 1}, i = 0 \/ (kpack /\ walk.kx # 2)
  PROVE  LET f == feed[i]
             b == Fed(cfg, walk.p, Tap + i)
         IN /\ FeedZero(f) <=> b = Zero
            /\ FeedAddr(f) \in 0 .. (STRIPD - 1)
            /\ b # Zero => /\ FeedAddr(f) = f.rowb + f.ix /\ f.ix \in 0 .. (cfg.d.w - 1)
                           /\ strip[FeedAddr(f)] = b
<1> DEFINE f == feed[i]
           T == Tap + i
           q == walk.p
           ky == walk.ky
           kx == walk.kx + i
           b == Fed(cfg, q, T)
           c == walk.k \div 9
           row == ky + (RowOf(cfg, q) * cfg.st)
           n == host.pass
<1>1. /\ T \in Nat /\ T % 3 = kx /\ (T \div 3) % 3 = ky /\ T \div 9 = (n * cfg.Cb) + c
      /\ kx \in 0 .. 2 /\ ky \in 0 .. 2 /\ c \in 0 .. (cfg.Cb - 1)
  BY FedTap
<1>2. /\ row \in 0 .. (cfg.SROWS - 1) /\ q \in 0 .. (cfg.P - 1)
      /\ f.rowb = (c * cfg.strip_ch) + (row * cfg.d.w)
      /\ c * cfg.strip_ch \in Nat /\ row * cfg.d.w \in Nat /\ f.rowb < STRIPD
  BY RowBase, Zenon
<1>3. f.iy = IyOf(cfg, q, ky) /\ f.ix = IxOf(cfg, q, kx)
  BY DEF FeedInv
<1>4. /\ cfg.d \in Layers /\ cfg.P \in Nat \ {0} /\ cfg.iy_base = (cfg.oy0 * cfg.st) - 1
      /\ cfg.oy0 \in Nat /\ cfg.st \in {1, 2} /\ STRIPD \in Nat \ {0}
  BY DeviceAssumption DEF Fits
<1>5. cfg.d.w \in Nat \ {0} /\ cfg.d.w < CWM \div 2 /\ CWM \in Nat \ {0}
  BY <1>4, LayerIs, TileAssumption
<1>6. q \in Nat
  BY <1>2, <1>4
<1>7. IyOf(cfg, q, ky) \in Int /\ IxOf(cfg, q, kx) \in Int /\ RowOf(cfg, q) \in Nat
  <2>1. ky \in Int /\ kx \in Int
    BY <1>1
  <2> QED BY <1>6, <2>1, PlaceIs
<1>8. b # Zero <=> InTensor(cfg, q, ky, kx)
  <2>1. IyOf(cfg, q, (T \div 3) % 3) \in Int /\ IxOf(cfg, q, T % 3) \in Int
    BY <1>1, <1>7, Zenon
  <2> HIDE DEF T
  <2>2. Fed(cfg, q, T) # Zero <=> InTensor(cfg, q, (T \div 3) % 3, T % 3)
    BY <1>1, <2>1, FedIs
  <2> QED BY <1>1, <2>2, Zenon
<1>9. FeedZero(f) <=> b = Zero
  BY <1>3, <1>8 DEF FeedZero, InTensor
<1>10. FeedAddr(f) \in 0 .. (STRIPD - 1)
  <2> DEFINE x == f.ix % CWM
             y == f.rowb
  <2>1. x \in Nat /\ y \in Nat
    BY <1>2, <1>3, <1>5, <1>7
  <2> HIDE DEF x, y
  <2>2. (y + x) % STRIPD \in 0 .. (STRIPD - 1)
    BY <1>4, <2>1
  <2> QED BY <2>2 DEF FeedAddr, x, y
<1>11. ASSUME b # Zero
       PROVE  /\ FeedAddr(f) = f.rowb + f.ix /\ f.ix \in 0 .. (cfg.d.w - 1)
              /\ strip[FeedAddr(f)] = b
  <2> DEFINE x == f.ix
             a == (c * cfg.strip_ch) + ((row * cfg.d.w) + x)
  <2>1. x \in 0 .. (cfg.d.w - 1) /\ IyOf(cfg, q, ky) \in 0 .. (cfg.d.h - 1)
    BY <1>3, <1>8, <1>11 DEF InTensor
  <2>2. b = <<(n * cfg.Cb) + c, IyOf(cfg, q, ky), x>>
    BY <1>1, <1>3, <1>8, <1>11, Zenon DEF Fed
  <2>3. /\ a \in 0 .. (cfg.a_len - 1) /\ a \in 0 .. (STRIPD - 1)
        /\ cfg.iy_base + row \in 0 .. (cfg.d.h - 1) =>
             StripBytes(cfg, n)[a] = <<(n * cfg.Cb) + c, cfg.iy_base + row, x>>
    <3>1. /\ n \in Nat /\ c \in 0 .. (cfg.Cb - 1) /\ row \in 0 .. (cfg.SROWS - 1)
          /\ x \in 0 .. (cfg.d.w - 1)
      BY <1>1, <1>2, <2>1
    <3> HIDE DEF n, c, row, x
    <3>2. LET e == (c * cfg.strip_ch) + ((row * cfg.d.w) + x)
          IN /\ e \in 0 .. (cfg.a_len - 1) /\ e \in 0 .. (STRIPD - 1)
             /\ cfg.iy_base + row \in 0 .. (cfg.d.h - 1) =>
                  StripBytes(cfg, n)[e] = <<(n * cfg.Cb) + c, cfg.iy_base + row, x>>
      BY <3>1, ByteAt, Zenon
    <3> QED BY <3>2, Zenon
  <2>4. cfg.iy_base + row = IyOf(cfg, q, ky)
    <3> DEFINE r == RowOf(cfg, q)
               s == cfg.st
               o == cfg.oy0
    <3>1. r \in Nat /\ s \in Nat /\ o \in Nat /\ ky \in Nat
      BY <1>1, <1>4, <1>7
    <3>2. IyOf(cfg, q, ky) = ((o + r) * s) - 1 + ky
      BY Zenon DEF IyOf
    <3>3. cfg.iy_base = (o * s) - 1
      BY <1>4
    <3> HIDE DEF r, s, o
    <3>4. (o + r) * s = (o * s) + (r * s) /\ o * s \in Int /\ r * s \in Int
      BY <3>1
    <3> QED BY <3>1, <3>2, <3>3, <3>4 DEF r, s
  <2>5. strip[a] = StripBytes(cfg, n)[a]
    <3>1. host.do = "run"
      BY DEF TileInv, SweepInv
    <3> QED BY <2>3, <3>1 DEF MemInv
  <2>6. strip[a] = b
    BY <2>1, <2>2, <2>3, <2>4, <2>5, Zenon
  <2>7. a = f.rowb + x
    <3> DEFINE u == c * cfg.strip_ch
               v == row * cfg.d.w
    <3>1. u \in Nat /\ v \in Nat /\ x \in Int /\ f.rowb = u + v
      BY <1>2, <2>1, <1>5
    <3> HIDE DEF u, v, x
    <3>2. u + (v + x) = (u + v) + x
      BY <3>1
    <3> QED BY <3>1, <3>2, Zenon DEF u, v
  <2>8. FeedAddr(f) = a
    <3>1. x % CWM = x
      <4>1. x \in 0 .. (CWM - 1)
        BY <1>5, <2>1
      <4> HIDE DEF x
      <4> QED BY <1>5, <4>1, Small
    <3> HIDE DEF a
    <3>2. a % STRIPD = a
      BY <1>4, <2>3, Small
    <3> QED BY <2>7, <3>1, <3>2, Zenon DEF FeedAddr
  <2> QED BY <2>1, <2>6, <2>7, <2>8, Zenon
<1> QED BY <1>9, <1>10, <1>11

\* A multiple of an even number is even, and a remainder by one as odd as what it is of.
LEMMA EvenIs ==
  ASSUME NEW n \in Nat \ {0}, n % 2 = 0, NEW m \in Int, NEW x \in Int
  PROVE  (m * n) % 2 = 0 /\ (x % n) % 2 = x % 2
<1> DEFINE h == n \div 2
           d == x \div n
           r == x % n
<1>1. h \in Int /\ n = h * 2
  OBVIOUS
<1> HIDE DEF h
<1>2. ASSUME NEW e \in Int PROVE e * n = (e * h) * 2 /\ e * h \in Int
  BY <1>1
<1>3. (m * n) % 2 = 0
  <2> DEFINE y == m * h
  <2>1. m * n = y * 2 /\ y \in Int
    BY <1>2
  <2> HIDE DEF y
  <2>2. (y * 2) % 2 = 0
    BY <2>1
  <2> QED BY <2>1, <2>2, Zenon
<1>4. d \in Int /\ r \in 0 .. (n - 1) /\ x = (d * n) + r
  BY Division
<1> HIDE DEF d, r
<1>5. r % 2 = x % 2
  <2> DEFINE y == d * h
  <2>1. d * n = y * 2 /\ y \in Int
    BY <1>2, <1>4
  <2> HIDE DEF y
  <2>2. x = (y * 2) + r /\ r \in Int
    BY <1>4, <2>1
  <2> QED BY <2>1, <2>2
<1> QED BY <1>3, <1>5 DEF r

\* The second byte of a pair is the next one, or, where the first is of the padding, the
\* first of a row that is read from the bank the first does not need.
LEMMA PairPlace ==
  ASSUME TileInv, cfg.d.w % 2 = 0, Fits(cfg), host.pass \in Nat, MemInv, WalkInv, FeedInv,
         state = "SWEEP", kpack, walk.kx # 2, Fed(cfg, walk.p, Tap + 1) # Zero
  PROVE  IF FeedAddr(feed[0]) % 2 = 1 THEN FeedAddr(feed[1]) % 2 = 0
         ELSE FeedAddr(feed[1]) = FeedAddr(feed[0]) + 1
<1> DEFINE c == walk.k \div 9
           row == walk.ky + (RowOf(cfg, walk.p) * cfg.st)
           w == cfg.d.w
           B == (c * cfg.strip_ch) + (row * w)
           x == feed[1].ix
           y == feed[0].ix
           a == FeedAddr(feed[1])
           e == FeedAddr(feed[0])
           m == (c * cfg.SROWS) + row
<1>1. walk.kx = 0
  <2>1. walk.kx \in 0 .. 2
    <3>1. 0 \in {0, 1}
      OBVIOUS
    <3>2. walk.kx + 0 \in 0 .. 2
      BY <3>1, FedTap, Zenon
    <3>3. walk.kx = walk.k % 3 /\ walk.k \in 0 .. (cfg.K - 1)
      BY DEF WalkInv, Sweeping
    <3>4. walk.kx \in Int
      BY <3>3
    <3> QED BY <3>2, <3>4
  <2> QED BY <2>1 DEF WalkInv, Sweeping
<1>2. /\ feed[0].rowb = B /\ B \in Nat /\ B = m * w /\ m \in Nat
  <2>1. 0 \in {0, 1}
    OBVIOUS
  <2>2. /\ feed[0].rowb = B /\ c * cfg.strip_ch \in Nat /\ row * w \in Nat
        /\ B = m * w /\ m \in Nat
    BY <2>1, RowBase, Zenon
  <2> DEFINE u == c * cfg.strip_ch
             v == row * w
  <2> HIDE DEF u, v
  <2>3. u + v \in Nat
    BY <2>2 DEF u, v
  <2> QED BY <2>2, <2>3, Zenon DEF u, v
<1>3. feed[1].rowb = B
  <2>1. 1 \in {0, 1}
    OBVIOUS
  <2> QED BY <2>1, RowBase, Zenon
<1>4. a = feed[1].rowb + x /\ x \in 0 .. (w - 1) /\ a \in 0 .. (STRIPD - 1)
  <2>1. 1 \in {0, 1}
    OBVIOUS
  <2> QED BY <2>1, FeedReads, Zenon
<1>5. x = y + 1 /\ x \in Int /\ y \in Int
  <2>1. y = IxOf(cfg, walk.p, 0) /\ x = IxOf(cfg, walk.p, 1)
    <3>1. walk.kx + 0 = 0 /\ walk.kx + 1 = 1
      BY <1>1
    <3>2. y = IxOf(cfg, walk.p, walk.kx + 0) /\ x = IxOf(cfg, walk.p, walk.kx + 1)
      BY DEF FeedInv
    <3> QED BY <3>1, <3>2, Zenon
  <2>2. ColOf(cfg, walk.p) * cfg.st \in Nat
    <3>1. walk.p \in Nat
      BY DEF TileInv, SweepInv, GeomInv
    <3> QED BY <3>1, PlaceIs
  <2> DEFINE z == ColOf(cfg, walk.p) * cfg.st
  <2> HIDE DEF z
  <2>3. y = z - 1 + 0 /\ x = z - 1 + 1
    BY <2>1, Zenon DEF IxOf, z
  <2> HIDE DEF x, y
  <2> QED BY <2>2, <2>3 DEF z
<1>6. /\ w \in Nat \ {0} /\ w % 2 = 0 /\ w < CWM \div 2 /\ CWM \in Nat \ {0} /\ CWM % 2 = 0
      /\ STRIPD \in Nat \ {0} /\ STRIPD % 2 = 0
  <2>1. cfg.d \in Layers
    BY DEF Fits
  <2>2. w \in Nat \ {0} /\ w % 2 = 0 /\ w < CWM \div 2
    BY <2>1, LayerIs
  <2>3. CWM \in Nat \ {0} /\ CWM % 2 = 0 /\ STRIPD % CWM = 0 /\ STRIPD \in Nat \ {0}
    BY TileAssumption, DeviceAssumption
  <2>4. STRIPD % 2 = 0
    <3> DEFINE f == STRIPD \div CWM
    <3>1. f \in Int /\ STRIPD = (f * CWM) + (STRIPD % CWM)
      BY <2>3, Division
    <3> HIDE DEF f
    <3>2. f * CWM \in Int
      BY <2>3, <3>1
    <3>3. STRIPD = f * CWM
      BY <2>3, <3>1, <3>2
    <3> QED BY <2>3, <3>1, <3>3, EvenIs
  <2> QED BY <2>2, <2>3, <2>4
<1>7. B % 2 = 0
  <2> HIDE DEF m, B, w
  <2>1. (m * w) % 2 = 0
    <3>1. m \in Int
      BY <1>2
    <3> QED BY <1>6, <3>1, EvenIs
  <2> QED BY <1>2, <2>1, Zenon
<1>8. e = (B + (y % CWM)) % STRIPD
  BY <1>2, Zenon DEF FeedAddr
<1>9. a = B + x
  BY <1>3, <1>4, Zenon
<1> HIDE DEF B, x, y, a, e, w, m
<1>10. CASE x >= 1
  <2>1. y \in 0 .. (CWM - 1) /\ B + y \in 0 .. (STRIPD - 1)
    BY <1>2, <1>4, <1>5, <1>6, <1>9, <1>10
  <2>2. y % CWM = y /\ (B + y) % STRIPD = B + y
    BY <1>6, <2>1, Small
  <2>3. e = B + y
    BY <1>8, <2>2, Zenon
  <2>4. a = e + 1 /\ e \in Int
    BY <1>2, <1>5, <1>9, <2>1, <2>3
  <2>5. IF e % 2 = 1 THEN a % 2 = 0 ELSE a = e + 1
    BY <2>4
  <2> QED BY <2>5 DEF a, e
<1>11. CASE x < 1
  <2>1. x = 0 /\ y = -1
    BY <1>4, <1>5, <1>6, <1>11
  <2>2. y % CWM = CWM - 1
    <3>1. CWM - 1 \in 0 .. (CWM - 1) /\ -1 \in Int /\ ((-1) * CWM) + (CWM - 1) = -1
      BY <1>6
    <3>2. (((-1) * CWM) + (CWM - 1)) % CWM = CWM - 1
      BY <1>6, <3>1, DivisionIs
    <3> QED BY <2>1, <3>1, <3>2, Zenon
  <2> DEFINE z == B + (CWM - 1)
  <2>3. z \in Int /\ z % 2 = 1
    BY <1>2, <1>6, <1>7
  <2> HIDE DEF z
  <2>4. (z % STRIPD) % 2 = 1
    <3>1. (z % STRIPD) % 2 = z % 2
      BY <1>6, <2>3, EvenIs
    <3> QED BY <2>3, <3>1
  <2>5. e % 2 = 1
    BY <1>8, <2>2, <2>4, Zenon DEF z
  <2>6. a % 2 = 0
    BY <1>2, <1>7, <1>9, <2>1
  <2> QED BY <2>5, <2>6 DEF a, e
<1> QED BY <1>4, <1>5, <1>10, <1>11

\* Within a lap what a position is of stays what it is.
LEMMA LapKeeps ==
  ASSUME TileInv, Clock, SameLap
  PROVE  /\ Tap' = Tap /\ First' = First /\ walk'.g = walk.g /\ walk'.kx = walk.kx
         /\ cfg' = cfg /\ kpack' = kpack /\ FLUSH' = FLUSH /\ Step' = Step
<1>1. /\ cfg' = cfg /\ kpack' = kpack /\ FLUSH' = FLUSH /\ host'.pass = host.pass
      /\ walk'.k = walk.k /\ walk'.g = walk.g /\ walk'.kx = walk.kx
  BY ClockKeeps DEF SameLap
<1>2. Tap' = Tap
  BY <1>1 DEF Tap
<1> QED BY <1>1, <1>2 DEF First, Step

\* The stage that takes what the feed says.
LEMMA StageOne ==
  ASSUME TileInv, DataShape, kpack => cfg.d.w % 2 = 0, Fits(cfg), host.pass \in Nat, MemInv,
         WalkInv, FeedInv, Clock
  PROVE  S1Inv'
<1>1. s1' = NextS1 /\ IsRecord(s1, {"val", "init", "aaddr", "saddr", "zero", "saddr1", "zero1"})
  BY ClockKeeps DEF Pipeline, DataShape
<1>2. 1 \in InPipe' <=> state = "SWEEP"
  BY PipeMoves
<1>3. CASE state # "SWEEP"
  <2>1. s1' = [s1 EXCEPT !.val = FALSE]
    BY <1>1, <1>3 DEF NextS1
  <2>2. ~s1'.val
    BY <1>1, <2>1 DEF IsRecord
  <2>3. 1 \notin InPipe'
    BY <1>2, <1>3
  <2> QED BY <2>2, <2>3, Zenon DEF S1Inv
<1>4. CASE state = "SWEEP"
  <2>1. SameLap /\ Pos' = Pos + 1 /\ Pos = walk.p
    <3>1. SameLap /\ Pos' = Pos + 1
      BY <1>4, LapRuns
    <3> QED BY <1>4, <3>1 DEF Pos
  <2>2. Pos' - 1 = walk.p
    <3>1. walk.p \in Nat
      BY <1>4 DEF TileInv, SweepInv, GeomInv
    <3> QED BY <2>1, <3>1
  <2>3. /\ s1'.val /\ (s1'.init <=> walk.init /\ walk.k = 0) /\ s1'.aaddr = walk.acc
        /\ s1'.saddr = FeedAddr(feed[0]) /\ (s1'.zero <=> FeedZero(feed[0]))
        /\ s1'.saddr1 = FeedAddr(feed[1]) /\ (s1'.zero1 <=> FeedZero(feed[1]) \/ KpTail)
    BY <1>1, <1>4 DEF NextS1
  <2>4. walk.acc = Address(cfg, walk.p, walk.g)
    BY <1>4 DEF WalkInv, Sweeping, Address
  <2>5. walk.init /\ walk.k = 0 <=> First
    <3> DEFINE n == host.pass
               K == cfg.K
               k == walk.k
    <3>1. n \in Nat /\ K \in Nat \ {0} /\ k \in Nat /\ walk.init = (n = 0)
      BY <1>4 DEF WalkInv, Sweeping, Fits
    <3> HIDE DEF n, K, k
    <3>2. (n = 0 /\ k = 0) <=> (n * K) + k = 0
      <4>1. n * K \in Nat /\ (n # 0 => n * K # 0) /\ (n = 0 => n * K = 0)
        BY <3>1, Times
      <4> QED BY <3>1, <4>1
    <3> QED BY <3>1, <3>2 DEF First, Tap, n, K, k
  <2>6. Tap + 0 = Tap
    <3>1. Tap + 0 \in Nat
      <4>1. 0 \in {0, 1}
        OBVIOUS
      <4> QED BY <1>4, <4>1, FedTap
    <3>2. host.pass * cfg.K \in Int /\ walk.k \in Int
      BY <1>4 DEF Fits, WalkInv, Sweeping
    <3> QED BY <3>2 DEF Tap
  <2>7. /\ FeedZero(feed[0]) <=> Fed(cfg, walk.p, Tap) = Zero
        /\ FeedAddr(feed[0]) \in 0 .. (STRIPD - 1) /\ Holds(strip, FeedAddr(feed[0]), Fed(cfg, walk.p, Tap))
    <3>1. 0 \in {0, 1}
      OBVIOUS
    <3>2. LET b == Fed(cfg, walk.p, Tap + 0)
          IN /\ FeedZero(feed[0]) <=> b = Zero
             /\ FeedAddr(feed[0]) \in 0 .. (STRIPD - 1)
             /\ b # Zero => strip[FeedAddr(feed[0])] = b
      BY <1>4, <3>1, FeedReads, Zenon
    <3> QED BY <2>6, <3>2, Zenon DEF Holds
  <2>8. ASSUME kpack
        PROVE  /\ (FeedZero(feed[1]) \/ KpTail) <=> Second(cfg, walk.p, Tap, walk.kx) = Zero
               /\ Second(cfg, walk.p, Tap, walk.kx) # Zero =>
                    /\ Holds(strip, FeedAddr(feed[1]), Fed(cfg, walk.p, Tap + 1))
                    /\ IF FeedAddr(feed[0]) % 2 = 1 THEN FeedAddr(feed[1]) % 2 = 0
                       ELSE FeedAddr(feed[1]) = FeedAddr(feed[0]) + 1
    <3>1. CASE walk.kx = 2
      BY <3>1, Zenon DEF KpTail, Second
    <3>2. CASE walk.kx # 2
      <4>1. 1 \in {0, 1}
        OBVIOUS
      <4>2. LET b == Fed(cfg, walk.p, Tap + 1)
            IN /\ FeedZero(feed[1]) <=> b = Zero
               /\ FeedAddr(feed[1]) \in 0 .. (STRIPD - 1)
               /\ b # Zero => strip[FeedAddr(feed[1])] = b
        BY <1>4, <2>8, <3>2, <4>1, FeedReads, Zenon
      <4>3. Fed(cfg, walk.p, Tap + 1) # Zero =>
              IF FeedAddr(feed[0]) % 2 = 1 THEN FeedAddr(feed[1]) % 2 = 0
              ELSE FeedAddr(feed[1]) = FeedAddr(feed[0]) + 1
        BY <1>4, <2>8, <3>2, PairPlace
      <4>4. Second(cfg, walk.p, Tap, walk.kx) = Fed(cfg, walk.p, Tap + 1) /\ ~KpTail
        BY <3>2, Zenon DEF Second, KpTail
      <4> QED BY <4>2, <4>3, <4>4, Zenon DEF Holds
    <3> QED BY <3>1, <3>2
  <2>9. /\ cfg' = cfg /\ First' = First /\ walk'.g = walk.g /\ walk'.kx = walk.kx
        /\ kpack' = kpack /\ Tap' = Tap /\ strip' = strip
    BY <2>1, LapKeeps, ClockKeeps
  <2> QED BY <1>2, <1>4, <2>2, <2>3, <2>4, <2>5, <2>7, <2>8, <2>9 DEF S1Inv
<1> QED BY <1>3, <1>4

\* What has not been added to yet has the taps before this one.
LEMMA NotYetSummed ==
  ASSUME TileInv, Fits(cfg), host.pass \in Nat, WalkInv, AccInv, ~First, NEW n \in 1 .. 6,
         n \in InPipe, n <= FLUSH
  PROVE  accram[Address(cfg, Pos - n, walk.g)] = SumTo(cfg, Pos - n, walk.g, Tap)
<1> DEFINE q == Pos - n
<1>1. Sweeping /\ q \in 0 .. (cfg.P - 1)
  BY DEF InPipe
<1>2. host.do = "run"
  BY <1>1 DEF TileInv, SweepInv, Sweeping
<1>3. walk.g \in 0 .. (cfg.QG - 1) /\ walk.k \in Nat
  BY <1>1 DEF WalkInv
<1>4. Pos \in Int /\ FLUSH \in Int
  <2>1. walk.p \in Int \/ state # "SWEEP"
    BY DEF TileInv, SweepInv
  <2>2. walk.flush \in Int \/ state # "FLUSH"
    BY DEF TileInv, SweepInv
  <2>3. cfg.P \in Int /\ FLUSH \in Int
    BY FlushIs DEF TileInv, GeomInv
  <2> QED BY <2>1, <2>2, <2>3 DEF Pos
<1>5. ~(q < Pos - FLUSH)
  <2> DEFINE x == Pos
             F == FLUSH
  <2>1. x \in Int /\ F \in Int /\ n <= F
    BY <1>4
  <2> HIDE DEF x, F
  <2>2. ~(x - n < x - F)
    BY <2>1
  <2> QED BY <2>2 DEF x, F
<1> HIDE DEF q
<1>6. Tap \in Nat /\ Tap # 0
  <2>1. host.pass * cfg.K \in Nat
    <3>1. cfg.K \in Nat
      BY DEF Fits
    <3> QED BY <3>1, Times
  <2> QED BY <1>3, <2>1 DEF Tap, First
<1>7. Summed(q, walk.g) = Tap
  <2>1. ~(walk.g < walk.g)
    BY <1>3
  <2>2. Summed(q, walk.g) = Tap + 0
    BY <1>1, <1>5, <2>1 DEF Summed, q
  <2> QED BY <1>6, <2>2
<1>8. accram[(q * cfg.QG) + walk.g] = SumTo(cfg, q, walk.g, Tap)
  <2>1. Summed(q, walk.g) > 0 =>
          accram[(q * cfg.QG) + walk.g] = SumTo(cfg, q, walk.g, Summed(q, walk.g))
    BY <1>1, <1>2, <1>3, Zenon DEF AccInv, q
  <2> QED BY <1>6, <1>7, <2>1
<1> QED BY <1>8 DEF Address, q

\* What a bank's register has of a byte.
LEMMA BankOf ==
  ASSUME NEW a \in Int
  PROVE  /\ a % 2 \in {0, 1} /\ (a % 2 = 1 => 2 * (a \div 2) + 1 = a)
         /\ (a % 2 = 0 => 2 * (a \div 2) = a /\ 2 * (a \div 2) + 1 = a + 1)
OBVIOUS

\* The stage that has read the strip.
LEMMA StageTwo ==
  ASSUME TileInv, Fits(cfg), host.pass \in Nat, WalkInv, AccInv, S1Inv, S2Inv, Clock
  PROVE  S2Inv'
<1>1. /\ 2 \in InPipe' <=> 1 \in InPipe
      /\ 3 \in InPipe' <=> 2 \in InPipe
      /\ 2 \in InPipe' \/ 3 \in InPipe' => SameLap /\ Pos' = Pos + 1 /\ Pos \in Nat
  <2>1. 1 \in 1 .. (FLUSH - 1) /\ 2 \in 1 .. (FLUSH - 1) /\ 2 \in 1 .. FLUSH /\ 3 \in 1 .. FLUSH
        /\ 1 + 1 = 2 /\ 2 + 1 = 3
    BY FlushIs DEF TileInv, GeomInv
  <2>2. 1 + 1 \in InPipe' <=> 1 \in InPipe
    BY <2>1, PipeMoves, Zenon
  <2>3. 2 + 1 \in InPipe' <=> 2 \in InPipe
    BY <2>1, PipeMoves, Zenon
  <2>4. 2 \in InPipe' \/ 3 \in InPipe' => SameLap /\ Pos' = Pos + 1 /\ Pos \in Nat
    BY <2>1, PipeMoves, Zenon
  <2> QED BY <2>1, <2>2, <2>3, <2>4, Zenon
<1>2. s2' = [val |-> s1.val, init |-> s1.init, aaddr |-> s1.aaddr, zero |-> s1.zero,
             zero1 |-> s1.zero1, par |-> StripRaddr % 2, sq |-> NextSq, accq |-> accram[AccRaddr]]
  BY ClockKeeps DEF Pipeline
<1>3. /\ s2'.val = s1.val /\ s2'.init = s1.init /\ s2'.aaddr = s1.aaddr /\ s2'.zero = s1.zero
      /\ s2'.zero1 = s1.zero1 /\ s2'.par = StripRaddr % 2 /\ s2'.sq = NextSq
      /\ s2'.accq = accram[AccRaddr]
  BY <1>2
<1>4. CASE 2 \notin InPipe' /\ 3 \notin InPipe'
  <2>1. ~s2'.val
    BY <1>1, <1>3, <1>4 DEF S1Inv
  <2> QED BY <1>4, <2>1 DEF S2Inv
<1>5. CASE 2 \in InPipe' \/ 3 \in InPipe'
  <2>1. SameLap /\ Pos' = Pos + 1 /\ Pos \in Nat
    BY <1>1, <1>5
  <2>2. /\ cfg' = cfg /\ (First' <=> First) /\ walk'.g = walk.g /\ walk'.kx = walk.kx
        /\ kpack' = kpack /\ Tap' = Tap
    BY <2>1, LapKeeps
  <2>3. Sweeping
    BY <1>1, <1>5 DEF InPipe
  <2>4. StripRaddr = s1.saddr /\ AccRaddr = (IF kpack THEN s2.aaddr ELSE s1.aaddr)
    BY <2>3 DEF StripRaddr, AccRaddr, RqLd, RqRun, Draining, Sweeping
  <2>5. Pos' - 2 = Pos - 1 /\ Pos' - 3 = Pos - 2
    BY <2>1
  <2>6. ASSUME 2 \in InPipe'
        PROVE  LET q == Pos - 1 IN
               /\ s1.aaddr = Address(cfg, q, walk.g) /\ (s1.init <=> First)
               /\ (IF s1.zero THEN Zero ELSE StripQ') = Fed(cfg, q, Tap)
               /\ kpack => (IF s1.zero1 THEN Zero ELSE StripQ1') = Second(cfg, q, Tap, walk.kx)
    <3> DEFINE q == Pos - 1
               a == s1.saddr
               e == s1.saddr1
    <3>1. /\ s1.aaddr = Address(cfg, q, walk.g) /\ (s1.init <=> First)
          /\ a \in 0 .. (STRIPD - 1)
          /\ (s1.zero <=> Fed(cfg, q, Tap) = Zero) /\ Holds(strip, a, Fed(cfg, q, Tap))
          /\ kpack => /\ (s1.zero1 <=> Second(cfg, q, Tap, walk.kx) = Zero)
                      /\ ~s1.zero1 => /\ Holds(strip, e, Fed(cfg, q, Tap + 1))
                                      /\ IF a % 2 = 1 THEN e % 2 = 0 ELSE e = a + 1
      BY <1>1, <2>6 DEF S1Inv
    <3>2. a \in Int
      BY <3>1
    <3>3. /\ a % 2 \in {0, 1} /\ (a % 2 = 1 => 2 * (a \div 2) + 1 = a)
          /\ (a % 2 = 0 => 2 * (a \div 2) = a /\ 2 * (a \div 2) + 1 = a + 1)
      BY <3>2, BankOf
    <3>4. ASSUME ~kpack PROVE StripQ' = strip[a]
      <4>1. s2'.sq.even = strip[a]
        BY <1>3, <2>4, <3>4 DEF NextSq
      <4> QED BY <2>2, <3>4, <4>1 DEF StripQ
    <3>5. ASSUME kpack
          PROVE  /\ s2'.par = a % 2
                 /\ s2'.sq.even = strip[2 * ((IF a % 2 = 1 THEN e ELSE a) \div 2)]
                 /\ s2'.sq.odd = strip[2 * (a \div 2) + 1]
      BY <1>3, <2>4, <3>5 DEF NextSq
    <3>6. ASSUME kpack PROVE StripQ' = strip[a]
      <4>1. StripQ' = IF s2'.par = 1 THEN s2'.sq.odd ELSE s2'.sq.even
        BY <2>2, <3>6 DEF StripQ
      <4> HIDE DEF a, e
      <4> QED BY <3>3, <3>5, <3>6, <4>1
    <3>7. ASSUME kpack, ~s1.zero1 PROVE StripQ1' = Second(cfg, q, Tap, walk.kx)
      <4>1. StripQ1' = IF s2'.par = 1 THEN s2'.sq.even ELSE s2'.sq.odd
        BY <2>2, <3>7 DEF StripQ1
      <4>2. /\ Second(cfg, q, Tap, walk.kx) = Fed(cfg, q, Tap + 1) /\ Fed(cfg, q, Tap + 1) # Zero
        BY <3>1, <3>7, Zenon DEF Second
      <4>3. e \in 0 .. (STRIPD - 1) /\ strip[e] = Fed(cfg, q, Tap + 1)
        BY <3>1, <3>7, <4>2 DEF Holds
      <4>4. IF a % 2 = 1 THEN e % 2 = 0 ELSE e = a + 1
        BY <3>1, <3>7
      <4>5. e \in Int
        BY <4>3
      <4>6. e % 2 = 0 => 2 * (e \div 2) = e
        BY <4>5, BankOf
      <4> HIDE DEF a, e
      <4> QED BY <3>3, <3>5, <3>7, <4>1, <4>2, <4>3, <4>4, <4>6
    <3>8. StripQ' = strip[a]
      BY <3>4, <3>6
    <3>9. (IF s1.zero THEN Zero ELSE StripQ') = Fed(cfg, q, Tap)
      BY <3>1, <3>8 DEF Holds
    <3>10. kpack => (IF s1.zero1 THEN Zero ELSE StripQ1') = Second(cfg, q, Tap, walk.kx)
      BY <3>1, <3>7
    <3> QED BY <3>1, <3>9, <3>10
  <2>7. ASSUME ~kpack, 2 \in InPipe', ~First
        PROVE  s2'.accq = SumTo(cfg, Pos - 1, walk.g, Tap)
    <3>1. 1 \in 1 .. 6 /\ 1 <= FLUSH /\ 1 \in InPipe
      BY <1>1, <2>7, FlushIs DEF TileInv, GeomInv
    <3>2. accram[Address(cfg, Pos - 1, walk.g)] = SumTo(cfg, Pos - 1, walk.g, Tap)
      BY <2>7, <3>1, NotYetSummed
    <3>3. AccRaddr = Address(cfg, Pos - 1, walk.g)
      BY <2>4, <2>6, <2>7
    <3> QED BY <1>3, <3>2, <3>3
  <2>8. ASSUME kpack, 3 \in InPipe', ~First
        PROVE  s2'.accq = SumTo(cfg, Pos - 2, walk.g, Tap)
    <3>1. 2 \in 1 .. 6 /\ 2 <= FLUSH /\ 2 \in InPipe
      BY <1>1, <2>8, FlushIs DEF TileInv, GeomInv
    <3>2. accram[Address(cfg, Pos - 2, walk.g)] = SumTo(cfg, Pos - 2, walk.g, Tap)
      BY <2>8, <3>1, NotYetSummed
    <3>3. AccRaddr = Address(cfg, Pos - 2, walk.g)
      BY <2>4, <2>8, <3>1 DEF S2Inv
    <3> QED BY <1>3, <3>2, <3>3
  <2>9. s2'.val <=> 2 \in InPipe'
    BY <1>1, <1>3 DEF S1Inv
  <2> QED BY <1>3, <2>2, <2>5, <2>6, <2>7, <2>8, <2>9 DEF S2Inv
<1> QED BY <1>4, <1>5

\* A position at stage n + 1 was at stage n, and is of the same lap.
LEMMA StageOn ==
  ASSUME TileInv, Clock, NEW n \in Nat, n \in 1 .. (FLUSH - 1)
  PROVE  /\ n + 1 \in InPipe' <=> n \in InPipe
         /\ n + 1 \in InPipe' =>
              /\ Pos' - (n + 1) = Pos - n
              /\ cfg' = cfg /\ (First' <=> First) /\ walk'.g = walk.g /\ walk'.kx = walk.kx
              /\ kpack' = kpack /\ Tap' = Tap /\ Step' = Step
              /\ Sweeping /\ state # "LOAD"
              /\ Pos \in Nat /\ Pos >= n
<1>1. n + 1 \in InPipe' <=> n \in InPipe
  BY PipeMoves
<1>2. ASSUME n + 1 \in InPipe'
      PROVE  /\ SameLap /\ Pos' = Pos + 1 /\ Pos \in Nat
             /\ state = "SWEEP" \/ (state = "FLUSH" /\ ~flag.now)
  <2>1. n + 1 \in 1 .. FLUSH
    BY FlushIs DEF TileInv, GeomInv
  <2> QED BY <1>2, <2>1, PipeMoves
<1>3. ASSUME n + 1 \in InPipe'
      PROVE  Pos >= n
  <2>1. n \in InPipe /\ Pos \in Nat
    BY <1>1, <1>2, <1>3
  <2>2. Pos - n \in 0 .. (cfg.P - 1) /\ cfg.P \in Nat
    BY <2>1 DEF InPipe, TileInv, GeomInv
  <2> QED BY <2>1, <2>2
<1>4. ASSUME n + 1 \in InPipe'
      PROVE  /\ cfg' = cfg /\ (First' <=> First) /\ walk'.g = walk.g /\ walk'.kx = walk.kx
             /\ kpack' = kpack /\ Tap' = Tap /\ Step' = Step
  BY <1>2, <1>4, LapKeeps
<1>5. ASSUME n + 1 \in InPipe' PROVE Pos' - (n + 1) = Pos - n
  BY <1>2, <1>5
<1> QED BY <1>1, <1>2, <1>3, <1>4, <1>5 DEF Sweeping

\* The stage that has the bytes.
LEMMA StageThree ==
  ASSUME TileInv, S2Inv, Clock
  PROVE  S2bInv'
<1>1. s2b' = [val |-> s2.val, init |-> s2.init, aaddr |-> s2.aaddr, accq |-> s2.accq,
              a |-> IF s2.zero THEN Zero ELSE StripQ,
              a1 |-> IF s2.zero1 THEN Zero ELSE StripQ1]
  BY ClockKeeps DEF Pipeline
<1>2. /\ s2b'.val = s2.val /\ s2b'.init = s2.init /\ s2b'.aaddr = s2.aaddr
      /\ s2b'.accq = s2.accq /\ s2b'.a = (IF s2.zero THEN Zero ELSE StripQ)
      /\ s2b'.a1 = (IF s2.zero1 THEN Zero ELSE StripQ1)
  BY <1>1
<1>3. 2 \in Nat /\ 3 \in Nat /\ 2 \in 1 .. (FLUSH - 1) /\ 3 \in 1 .. (FLUSH - 1)
      /\ 2 + 1 = 3 /\ 3 + 1 = 4
  BY FlushIs DEF TileInv, GeomInv
<1>4. /\ 3 \in InPipe' <=> 2 \in InPipe
      /\ 3 \in InPipe' =>
           /\ Pos' - 3 = Pos - 2
           /\ cfg' = cfg /\ (First' <=> First) /\ walk'.g = walk.g /\ walk'.kx = walk.kx
           /\ kpack' = kpack /\ Tap' = Tap
  BY <1>3, StageOn, Zenon
<1>5. /\ 4 \in InPipe' <=> 3 \in InPipe
      /\ 4 \in InPipe' =>
           /\ Pos' - 4 = Pos - 3
           /\ cfg' = cfg /\ (First' <=> First) /\ walk'.g = walk.g /\ kpack' = kpack /\ Tap' = Tap
  BY <1>3, StageOn, Zenon
<1> QED BY <1>2, <1>4, <1>5 DEF S2Inv, S2bInv

\* The stage that has the products, when the taps are packed.
LEMMA StageFour ==
  ASSUME TileInv, WregInv, S2bInv, Clock
  PROVE  S2cInv'
<1> SUFFICES ASSUME kpack PROVE S2cInv'
  BY ClockKeeps DEF S2cInv
<1>1. /\ s2c'.val = s2b.val /\ s2c'.init = s2b.init /\ s2c'.aaddr = s2b.aaddr
      /\ s2c'.mul = Products(s2b.a, wreg.now) /\ s2c'.le = Products(s2b.a1, wreg.near)
  BY ClockKeeps DEF Pipeline
<1>2. 3 \in Nat /\ 3 \in 1 .. (FLUSH - 1) /\ 3 + 1 = 4
  BY FlushIs DEF TileInv, GeomInv
<1>3. /\ 4 \in InPipe' <=> 3 \in InPipe
      /\ 4 \in InPipe' =>
           /\ Pos' - 4 = Pos - 3
           /\ cfg' = cfg /\ (First' <=> First) /\ walk'.g = walk.g /\ walk'.kx = walk.kx
           /\ kpack' = kpack /\ Tap' = Tap /\ Sweeping /\ state # "LOAD" /\ Pos \in Nat /\ Pos >= 3
  BY <1>2, StageOn, Zenon
<1>4. CASE 4 \notin InPipe'
  BY <1>1, <1>3, <1>4 DEF S2bInv, S2cInv
<1>5. CASE 4 \in InPipe'
  <2> DEFINE q == Pos - 3
  <2>1. /\ s2b.val /\ s2b.aaddr = Address(cfg, q, walk.g) /\ (s2b.init <=> First)
        /\ s2b.a = Fed(cfg, q, Tap) /\ s2b.a1 = Second(cfg, q, Tap, walk.kx)
    BY <1>3, <1>5 DEF S2bInv
  <2>2. Pos # 0 /\ Pos > 1
    BY <1>3, <1>5
  <2>3. /\ wreg.now = WordOf(cfg, walk.g, Tap)
        /\ walk.kx # 2 => wreg.near = WordOf(cfg, walk.g, Tap + 1)
    BY <1>3, <1>5, <2>2 DEF WregInv
  <2>4. s2c'.mul = Products(Fed(cfg, q, Tap), WordOf(cfg, walk.g, Tap))
    BY <1>1, <2>1, <2>3, Zenon
  <2>5. s2c'.le = Products(Second(cfg, q, Tap, walk.kx), WordOf(cfg, walk.g, Tap + 1))
    <3>1. CASE walk.kx # 2
      BY <1>1, <2>1, <2>3, <3>1, Zenon
    <3>2. CASE walk.kx = 2
      <4>1. s2b.a1 = Zero /\ Second(cfg, q, Tap, walk.kx) = Zero
        BY <2>1, <3>2, Zenon DEF Second
      <4>2. \A w, v : Products(Zero, w) = Products(Zero, v)
        BY Zenon DEF Products
      <4> QED BY <1>1, <4>1, <4>2, Zenon
    <3> QED BY <3>1, <3>2
  <2> QED BY <1>1, <1>3, <1>5, <2>1, <2>4, <2>5 DEF S2cInv
<1> QED BY <1>4, <1>5

\* The stage that has the sum and what to add to it.
LEMMA StageFive ==
  ASSUME TileInv, WregInv, S2bInv, S2cInv, Clock
  PROVE  S3Inv'
<1>1. FLUSH \in Nat /\ FLUSH >= 5 /\ (FLUSH = IF kpack THEN 6 ELSE 5) /\ kpack \in BOOLEAN
  BY FlushIs DEF TileInv, GeomInv
<1>2. FLUSH' = FLUSH /\ kpack' = kpack
  BY ClockKeeps
<1>3. s3' = IF kpack
            THEN [val |-> s2c.val, aaddr |-> s2c.aaddr,
                  accq |-> IF s2c.init THEN Word({}) ELSE s2b.accq,
                  prod |-> IF s2c.val THEN Plus(s2c.mul, s2c.le) ELSE s3.prod]
            ELSE [val |-> s2b.val, aaddr |-> s2b.aaddr,
                  accq |-> IF s2b.init THEN Word({}) ELSE s2b.accq,
                  prod |-> IF s2b.val THEN Products(s2b.a, wreg.now) ELSE s3.prod]
  BY ClockKeeps DEF Pipeline
<1>4. \A q, gg : First => SumTo(cfg, q, gg, Tap) = Word({})
  <2>1. \A q, gg : SumTo(cfg, q, gg, 0) = Word({})
    BY SumOfNone
  <2> QED BY <2>1, Zenon DEF First
<1>5. CASE kpack
  <2>1. 4 \in Nat /\ 4 \in 1 .. (FLUSH - 1) /\ 4 + 1 = 5 /\ FLUSH - 1 = 5
    BY <1>1, <1>5
  <2>2. /\ 5 \in InPipe' <=> 4 \in InPipe
        /\ 5 \in InPipe' =>
             /\ Pos' - 5 = Pos - 4
             /\ cfg' = cfg /\ walk'.g = walk.g /\ walk'.kx = walk.kx /\ Tap' = Tap
    BY <2>1, StageOn, Zenon
  <2>3. /\ s3'.val = s2c.val /\ s3'.aaddr = s2c.aaddr
        /\ s3'.accq = (IF s2c.init THEN Word({}) ELSE s2b.accq)
        /\ s2c.val => s3'.prod = Plus(s2c.mul, s2c.le)
    BY <1>3, <1>5
  <2>4. s3'.val <=> 5 \in InPipe'
    BY <1>5, <2>2, <2>3 DEF S2cInv
  <2>5. ASSUME 5 \in InPipe'
        PROVE  LET q == Pos - 4 IN
               /\ s3'.aaddr = Address(cfg, q, walk.g) /\ s3'.accq = SumTo(cfg, q, walk.g, Tap)
               /\ s3'.prod = Plus(Products(Fed(cfg, q, Tap), WordOf(cfg, walk.g, Tap)),
                                  Products(Second(cfg, q, Tap, walk.kx), WordOf(cfg, walk.g, Tap + 1)))
    BY <1>4, <1>5, <2>2, <2>3, <2>5 DEF S2cInv, S2bInv
  <2>6. FLUSH' - 1 = 5
    BY <1>2, <2>1
  <2> QED BY <1>2, <1>5, <2>2, <2>4, <2>5, <2>6 DEF S3Inv
<1>6. CASE ~kpack
  <2>1. 3 \in Nat /\ 3 \in 1 .. (FLUSH - 1) /\ 3 + 1 = 4 /\ FLUSH - 1 = 4
    BY <1>1, <1>6
  <2>2. /\ 4 \in InPipe' <=> 3 \in InPipe
        /\ 4 \in InPipe' =>
             /\ Pos' - 4 = Pos - 3
             /\ cfg' = cfg /\ walk'.g = walk.g /\ walk'.kx = walk.kx /\ Tap' = Tap
             /\ Sweeping /\ state # "LOAD"
    BY <2>1, StageOn, Zenon
  <2>3. /\ s3'.val = s2b.val /\ s3'.aaddr = s2b.aaddr
        /\ s3'.accq = (IF s2b.init THEN Word({}) ELSE s2b.accq)
        /\ s2b.val => s3'.prod = Products(s2b.a, wreg.now)
    BY <1>3, <1>6
  <2>4. s3'.val <=> 4 \in InPipe'
    BY <2>2, <2>3 DEF S2bInv
  <2>5. ASSUME 4 \in InPipe'
        PROVE  LET q == Pos - 3 IN
               /\ s3'.aaddr = Address(cfg, q, walk.g) /\ s3'.accq = SumTo(cfg, q, walk.g, Tap)
               /\ s3'.prod = Products(Fed(cfg, q, Tap), WordOf(cfg, walk.g, Tap))
    <3>1. wreg.now = WordOf(cfg, walk.g, Tap)
      BY <1>6, <2>2, <2>5 DEF WregInv
    <3> QED BY <1>4, <1>6, <2>2, <2>3, <2>5, <3>1 DEF S2bInv
  <2>6. FLUSH' - 1 = 4
    BY <1>2, <2>1
  <2> QED BY <1>2, <1>6, <2>2, <2>4, <2>5, <2>6 DEF S3Inv
<1> QED BY <1>5, <1>6

\* The stage that writes the sum back.
LEMMA StageSix ==
  ASSUME TileInv, Fits(cfg), host.pass \in Nat, WalkInv, S3Inv, Clock
  PROVE  S4Inv'
<1>1. FLUSH \in Nat /\ FLUSH >= 5 /\ kpack \in BOOLEAN
  BY FlushIs DEF TileInv, GeomInv
<1>2. FLUSH' = FLUSH
  BY ClockKeeps
<1>3. s4'.val = s3.val /\ s4'.aaddr = s3.aaddr /\ s4'.wr = Plus(s3.accq, s3.prod)
  BY ClockKeeps DEF Pipeline
<1> DEFINE n == FLUSH - 1
<1>4. n \in Nat /\ n \in 1 .. (FLUSH - 1) /\ n + 1 = FLUSH
  BY <1>1
<1> HIDE DEF n
<1>5. /\ FLUSH \in InPipe' <=> n \in InPipe
      /\ FLUSH \in InPipe' =>
           /\ Pos' - FLUSH = Pos - n
           /\ cfg' = cfg /\ walk'.g = walk.g /\ Tap' = Tap /\ Step' = Step /\ Sweeping
  <2>1. /\ n + 1 \in InPipe' <=> n \in InPipe
        /\ n + 1 \in InPipe' =>
             /\ Pos' - (n + 1) = Pos - n
             /\ cfg' = cfg /\ walk'.g = walk.g /\ Tap' = Tap /\ Step' = Step /\ Sweeping
    BY <1>4, StageOn, Zenon
  <2> QED BY <1>4, <2>1, Zenon
<1>6. s4'.val <=> FLUSH \in InPipe'
  BY <1>3, <1>5 DEF S3Inv, n
<1>7. ASSUME FLUSH \in InPipe'
      PROVE  s4'.aaddr = Address(cfg, Pos - n, walk.g)
             /\ s4'.wr = SumTo(cfg, Pos - n, walk.g, Tap + Step)
  <2> DEFINE q == Pos - n
             S == SumTo(cfg, q, walk.g, Tap)
             M == Products(Fed(cfg, q, Tap), WordOf(cfg, walk.g, Tap))
             N == Products(Second(cfg, q, Tap, walk.kx), WordOf(cfg, walk.g, Tap + 1))
  <2>1. /\ s3.aaddr = Address(cfg, q, walk.g) /\ s3.accq = S
        /\ s3.prod = IF kpack THEN Plus(M, N) ELSE M
    BY <1>5, <1>7 DEF S3Inv, n
  <2>2. Tap \in Nat
    <3>1. cfg.K \in Nat /\ walk.k \in Nat
      BY <1>5, <1>7 DEF Fits, WalkInv
    <3>2. host.pass * cfg.K \in Nat
      BY <3>1, Times
    <3> QED BY <3>1, <3>2 DEF Tap
  <2>3. Plus(S, M) = SumTo(cfg, q, walk.g, Tap + 1)
    BY <2>2, SumGrows
  <2>4. CASE ~kpack
    <3>1. Step = 1
      BY <2>4 DEF Step
    <3> QED BY <1>3, <2>1, <2>3, <2>4, <3>1, Zenon
  <2>5. CASE kpack /\ walk.kx # 2
    <3>1. Step = 2 /\ Second(cfg, q, Tap, walk.kx) = Fed(cfg, q, Tap + 1)
      BY <2>5, Zenon DEF Step, Second
    <3>2. Plus(S, Plus(M, Products(Fed(cfg, q, Tap + 1), WordOf(cfg, walk.g, Tap + 1))))
            = SumTo(cfg, q, walk.g, Tap + 2)
      BY <2>2, SumGrowsByTwo
    <3> QED BY <1>3, <2>1, <2>5, <3>1, <3>2, Zenon
  <2>6. CASE kpack /\ walk.kx = 2
    <3>1. Step = 1 /\ Second(cfg, q, Tap, walk.kx) = Zero
      BY <2>6, Zenon DEF Step, Second
    <3>2. Plus(M, N) = M
      BY <3>1, PlusNothing
    <3> QED BY <1>3, <2>1, <2>3, <2>6, <3>1, <3>2, Zenon
  <2> QED BY <2>4, <2>5, <2>6
<1> QED BY <1>2, <1>5, <1>6, <1>7 DEF S4Inv

\* The position of a lap, and where its accumulator is.
LEMMA PosIs == ASSUME TileInv, Sweeping PROVE Pos \in Nat /\ FLUSH \in Nat /\ FLUSH >= 5 /\ FLUSH <= 6
<1>1. FLUSH \in Nat /\ FLUSH >= 5 /\ FLUSH <= 6 /\ cfg.P \in Nat
  BY FlushIs DEF TileInv, GeomInv
<1>2. state = "SWEEP" => walk.p \in Nat
  BY <1>1 DEF TileInv, SweepInv
<1>3. state = "FLUSH" => walk.flush \in 0 .. (FLUSH - 1)
  BY DEF TileInv, SweepInv
<1>4. Pos \in Nat
  BY <1>1, <1>2, <1>3 DEF Pos
<1> QED BY <1>1, <1>4

\* Each position of each group has an accumulator of its own.
LEMMA AddressIs ==
  ASSUME Fits(cfg), NEW q \in 0 .. (cfg.P - 1), NEW gg \in 0 .. (cfg.QG - 1),
         NEW r \in 0 .. (cfg.P - 1), NEW hh \in 0 .. (cfg.QG - 1)
  PROVE  /\ (q * cfg.QG) + gg \in 0 .. (ADEPTH - 1)
         /\ (q * cfg.QG) + gg = (r * cfg.QG) + hh <=> q = r /\ gg = hh
<1> DEFINE P == cfg.P
           Q == cfg.QG
<1>1. P \in Nat \ {0} /\ Q \in Nat \ {0} /\ P * Q <= ADEPTH /\ ADEPTH \in Nat
  BY DeviceAssumption DEF Fits
<1>2. q \in 0 .. (P - 1) /\ gg \in 0 .. (Q - 1) /\ r \in 0 .. (P - 1) /\ hh \in 0 .. (Q - 1)
  OBVIOUS
<1> HIDE DEF P, Q
<1>3. P \in Nat \ {0} /\ Q \in Nat \ {0}
  BY <1>1
<1>4. /\ (q * Q) + gg \in 0 .. ((P * Q) - 1)
      /\ ((q * Q) + gg) \div Q = q /\ ((q * Q) + gg) % Q = gg
  BY <1>2, <1>3, JoinOf
<1>5. ((r * Q) + hh) \div Q = r /\ ((r * Q) + hh) % Q = hh
  BY <1>2, <1>3, JoinOf
<1>6. (q * Q) + gg \in 0 .. (ADEPTH - 1)
  <2>1. P * Q \in Nat
    BY <1>3, Times
  <2> DEFINE x == (q * Q) + gg
             y == P * Q
  <2> HIDE DEF x, y
  <2>2. y \in Nat /\ y <= ADEPTH /\ x \in 0 .. (y - 1)
    BY <1>1, <1>4, <2>1 DEF x, y
  <2>3. x \in 0 .. (ADEPTH - 1)
    BY <1>1, <2>2
  <2> QED BY <2>3 DEF x
<1>7. (q * Q) + gg = (r * Q) + hh <=> q = r /\ gg = hh
  BY <1>4, <1>5, Zenon
<1> QED BY <1>6, <1>7 DEF Q

\* The accumulators after the clock's write, which is of the position FLUSH clocks in.
LEMMA WriteBack ==
  ASSUME TileInv, Fits(cfg), host.pass \in Nat, WalkInv, MemInv, S4Inv, AccInv, Sweeping, Clock,
         NEW q \in 0 .. (cfg.P - 1), NEW gg \in 0 .. (cfg.QG - 1)
  PROVE  LET n == Tap + (IF gg < walk.g \/ (gg = walk.g /\ q < (Pos + 1) - FLUSH)
                         THEN Step ELSE 0)
         IN n > 0 => accram'[(q * cfg.QG) + gg] = SumTo(cfg, q, gg, n)
<1> DEFINE a == (q * cfg.QG) + gg
           r == Pos - FLUSH
           done == gg < walk.g \/ (gg = walk.g /\ q < r)
           after == gg < walk.g \/ (gg = walk.g /\ q < (Pos + 1) - FLUSH)
           m == Tap + (IF done THEN Step ELSE 0)
           n == Tap + (IF after THEN Step ELSE 0)
<1>1. host.do = "run"
  BY DEF TileInv, SweepInv, Sweeping
<1>2. accram' = IF s4.val THEN [accram EXCEPT ![s4.aaddr] = s4.wr] ELSE accram
  BY ClockKeeps DEF Pipeline
<1>3. walk.g \in 0 .. (cfg.QG - 1) /\ cfg.QG \in Nat /\ cfg.P \in Nat
  BY DEF WalkInv, Fits
<1>4. Pos \in Nat /\ FLUSH \in Nat /\ FLUSH >= 5 /\ FLUSH <= 6
  BY PosIs
<1>5. a \in 0 .. (ADEPTH - 1)
  BY AddressIs
<1>6. m > 0 => accram[a] = SumTo(cfg, q, gg, m)
  <2>1. Summed(q, gg) = m
    BY Zenon DEF Summed
  <2> QED BY <1>1, <2>1 DEF AccInv
<1>7. s4.val <=> r \in 0 .. (cfg.P - 1)
  <2>1. s4.val <=> FLUSH \in InPipe
    BY DEF S4Inv
  <2>2. FLUSH \in 1 .. 6
    BY <1>4
  <2> QED BY <2>1, <2>2 DEF InPipe
<1>8. s4.val => s4.aaddr = (r * cfg.QG) + walk.g /\ s4.wr = SumTo(cfg, r, walk.g, Tap + Step)
  BY DEF S4Inv, Address
<1>9. CASE gg = walk.g /\ q = r
  <2>1. s4.val /\ s4.aaddr = a /\ s4.wr = SumTo(cfg, q, gg, Tap + Step)
    BY <1>7, <1>8, <1>9
  <2>2. after
    BY <1>4, <1>9
  <2>3. accram'[a] = SumTo(cfg, q, gg, Tap + Step)
    <3>1. accram = [x \in 0 .. (ADEPTH - 1) |-> accram[x]]
      BY DEF MemInv, IsFcn
    <3> HIDE DEF a
    <3> QED BY <1>2, <1>5, <2>1, <3>1
  <2> HIDE DEF after, a
  <2> QED BY <2>2, <2>3 DEF after, a
<1>10. CASE ~(gg = walk.g /\ q = r)
  <2>1. done <=> after
    <3>1. q \in Int
      OBVIOUS
    <3> QED BY <1>3, <1>4, <1>10, <3>1
  <2>2. s4.val => s4.aaddr # a
    <3>1. ASSUME s4.val PROVE s4.aaddr # a
      <4>1. r \in 0 .. (cfg.P - 1)
        BY <1>7, <3>1
      <4> HIDE DEF r
      <4>2. a = (r * cfg.QG) + walk.g <=> q = r /\ gg = walk.g
        BY <1>3, <4>1, AddressIs
      <4> QED BY <1>8, <1>10, <3>1, <4>2
    <3> QED BY <3>1
  <2>3. accram'[a] = accram[a]
    <3>1. accram = [x \in 0 .. (ADEPTH - 1) |-> accram[x]]
      BY DEF MemInv, IsFcn
    <3> HIDE DEF a
    <3> QED BY <1>2, <1>5, <2>2, <3>1
  <2> HIDE DEF done, after, a
  <2>4. m = n
    BY <2>1
  <2> HIDE DEF m, n
  <2> QED BY <1>6, <2>3, <2>4 DEF a, n, after
<1> QED BY <1>9, <1>10

\* The sums keep to the taps swept, a clock at a time.
LEMMA SumsMove ==
  ASSUME TileInv, Fits(cfg), host.pass \in Nat, WalkInv, MemInv, S4Inv, AccInv, Clock
  PROVE  AccInv'
<1>1. /\ cfg' = cfg /\ host'.pass = host.pass /\ host'.do = host.do /\ pulse' = None
      /\ FLUSH' = FLUSH /\ kpack' = kpack /\ ShapeInv
      /\ accram' = IF s4.val THEN [accram EXCEPT ![s4.aaddr] = s4.wr] ELSE accram
  BY ClockKeeps DEF Pipeline, TileInv
<1>2. pulse' # "drain" /\ pulse' # "run"
  BY <1>1, Constants
<1> SUFFICES ASSUME host.do \in {"pass", "run"},
                    NEW q \in 0 .. (cfg.P - 1), NEW gg \in 0 .. (cfg.QG - 1), Summed(q, gg)' > 0
             PROVE  accram'[(q * cfg.QG) + gg] = SumTo(cfg, q, gg, Summed(q, gg)')
  BY <1>1, <1>2 DEF AccInv
<1> DEFINE s == Summed(q, gg)'
<1>3. s = IF Sweeping'
          THEN Tap' + (IF gg < walk'.g \/ (gg = walk'.g /\ q < Pos' - FLUSH) THEN Step' ELSE 0)
          ELSE IF host.do = "pass" THEN host.pass * cfg.K ELSE (host.pass * cfg.K) + cfg.K
  BY <1>1, <1>2 DEF Summed
<1> HIDE DEF s
<1>4. SUFFICES ASSUME s > 0 PROVE accram'[(q * cfg.QG) + gg] = SumTo(cfg, q, gg, s)
  BY DEF s
<1>5. /\ cfg.K \in Nat \ {0} /\ cfg.K = cfg.Cb * 9 /\ cfg.Cb \in Nat \ {0} /\ cfg.QG \in Nat \ {0}
      /\ cfg.P \in Nat \ {0} /\ host.pass * cfg.K \in Nat
  <2>1. cfg.K \in Nat
    BY DEF Fits
  <2>2. host.pass * cfg.K \in Nat
    BY <2>1, Times
  <2> QED BY <2>2 DEF Fits
<1>6. CASE ~Sweeping
  <2>1. IF state = "IDLE" /\ pulse = "run"
        THEN state' = "LOAD" /\ walk' = WalkReset(host.pass = 0) /\ host.do = "run"
        ELSE host.do = "drain"
    BY <1>6, SweepsBegin
  <2>2. /\ pulse = "run" /\ state' = "LOAD" /\ walk'.k = 0 /\ walk'.g = 0
    BY <2>1 DEF WalkReset
  <2>3. Sweeping' /\ Pos' = 0 /\ Tap' = (host.pass * cfg.K) + 0
    BY <1>1, <2>2 DEF Sweeping, Pos, Tap
  <2>4. s = host.pass * cfg.K
    <3>1. FLUSH \in Nat /\ FLUSH >= 5
      BY FlushIs DEF TileInv, GeomInv
    <3>2. ~(gg < 0) /\ ~(q < 0 - FLUSH)
      BY <1>5, <3>1
    <3>3. s = ((host.pass * cfg.K) + 0) + 0
      BY <1>3, <2>2, <2>3, <3>2
    <3> QED BY <1>5, <3>3
  <2>5. Summed(q, gg) = host.pass * cfg.K
    BY <1>6, <2>2 DEF Summed
  <2>6. accram[(q * cfg.QG) + gg] = SumTo(cfg, q, gg, s)
    BY <1>4, <2>4, <2>5 DEF AccInv
  <2>7. ~s4.val
    BY <1>6 DEF S4Inv, InPipe
  <2> QED BY <1>1, <2>6, <2>7
<1>7. CASE Sweeping
  <2> DEFINE n == Tap + (IF gg < walk.g \/ (gg = walk.g /\ q < (Pos + 1) - FLUSH)
                         THEN Step ELSE 0)
  <2>1. n > 0 => accram'[(q * cfg.QG) + gg] = SumTo(cfg, q, gg, n)
    BY <1>7, WriteBack, Zenon
  <2>2. host.do = "run"
    BY <1>7 DEF TileInv, SweepInv, Sweeping
  <2>3. Pos \in Nat /\ FLUSH \in Nat /\ FLUSH >= 5 /\ FLUSH <= 6
    BY <1>7, PosIs
  <2>4. /\ walk.g \in 0 .. (cfg.QG - 1) /\ walk.k \in 0 .. (cfg.K - 1) /\ walk.kx = walk.k % 3
    BY <1>7 DEF WalkInv
  <2>5. Step \in {1, 2} /\ Tap \in Nat /\ Tap = (host.pass * cfg.K) + walk.k
    <3>1. walk.k \in Nat
      BY <1>5, <2>4
    <3> QED BY <1>5, <3>1 DEF Step, Tap
  <2>6. s = n
    <3>1. CASE state = "LOAD"
      <4>1. state' = "SWEEP" /\ walk'.p = 0 /\ SameLap
        BY <3>1, LapStarts
      <4>2. Sweeping' /\ Pos' = 0 /\ Pos = 0 /\ Tap' = Tap /\ Step' = Step /\ walk'.g = walk.g
        BY <3>1, <4>1, LapKeeps DEF Sweeping, Pos
      <4>3. ~(q < 0 - FLUSH) /\ ~(q < (0 + 1) - FLUSH)
        BY <1>5, <2>3
      <4> QED BY <1>3, <4>2, <4>3
    <3>2. CASE state = "SWEEP" \/ (state = "FLUSH" /\ ~flag.now)
      <4>1. state' \in {"SWEEP", "FLUSH"} /\ SameLap /\ Pos' = Pos + 1
        BY <3>2, LapRuns
      <4>2. Sweeping' /\ Tap' = Tap /\ Step' = Step /\ walk'.g = walk.g
        BY <4>1, LapKeeps DEF Sweeping
      <4> QED BY <1>3, <4>1, <4>2
    <3>3. CASE state = "FLUSH" /\ flag.now
      <4>1. /\ Pos = cfg.P + (FLUSH - 1) /\ walk' = WalkAdvance
            /\ state' = IF flag.g \/ flag.k THEN "LOAD" ELSE "IDLE"
            /\ (flag.g <=> walk.g # cfg.QG - 1)
            /\ (flag.k <=> walk.g = cfg.QG - 1 /\ walk.k # cfg.K - 1)
        BY <3>3, LapEnds
      <4>2. q < (Pos + 1) - FLUSH
        <5> DEFINE x == Pos
                   P == cfg.P
        <5>1. x = P + (FLUSH - 1) /\ P \in Nat /\ q \in 0 .. (P - 1)
          BY <1>5, <4>1
        <5> HIDE DEF x, P
        <5>2. q < (x + 1) - FLUSH
          BY <2>3, <5>1
        <5> QED BY <5>2 DEF x
      <4>3. n = Tap + (IF gg < walk.g \/ gg = walk.g THEN Step ELSE 0)
        BY <4>2
      <4>4. CASE flag.g
        <5>1. walk'.g = walk.g + 1 /\ walk'.k = walk.k /\ walk'.kx = walk.kx
          BY <1>1, <4>1, <4>4, AdvanceMakes
        <5>2. Sweeping' /\ Pos' = 0 /\ Tap' = Tap /\ Step' = Step
          BY <1>1, <4>1, <4>4, <5>1 DEF Sweeping, Pos, Tap, Step
        <5>3. s = Tap + (IF gg < walk.g + 1 \/ (gg = walk.g + 1 /\ q < 0 - FLUSH) THEN Step ELSE 0)
          BY <1>3, <5>1, <5>2
        <5>4. ~(q < 0 - FLUSH) /\ (gg < walk.g + 1 <=> gg < walk.g \/ gg = walk.g)
          BY <1>5, <2>3, <2>4
        <5> QED BY <4>3, <5>3, <5>4
      <4>5. CASE ~flag.g /\ flag.k
        <5>1. walk'.g = 0 /\ walk'.k = walk.k + Step
          BY <1>1, <4>1, <4>5, AdvanceMakes
        <5>2. Sweeping' /\ Pos' = 0 /\ Tap' = (host.pass * cfg.K) + (walk.k + Step)
          BY <1>1, <4>1, <4>5, <5>1 DEF Sweeping, Pos, Tap
        <5>3. ~(gg < 0) /\ ~(q < 0 - FLUSH)
          BY <1>5, <2>3
        <5>4. s = ((host.pass * cfg.K) + (walk.k + Step)) + 0
          BY <1>3, <5>1, <5>2, <5>3
        <5>5. gg < walk.g \/ gg = walk.g
          BY <1>5, <2>4, <4>1, <4>5
        <5>6. n = Tap + Step
          BY <4>3, <5>5
        <5>7. walk.k \in Nat
          BY <1>5, <2>4
        <5> DEFINE u == host.pass * cfg.K
        <5>8. u \in Nat /\ Tap = u + walk.k /\ s = (u + (walk.k + Step)) + 0
          BY <1>5, <2>5, <5>4
        <5> HIDE DEF u, n
        <5> QED BY <2>5, <5>6, <5>7, <5>8
      <4>6. CASE ~flag.g /\ ~flag.k
        <5>1. ~Sweeping' /\ walk.g = cfg.QG - 1 /\ walk.k = cfg.K - 1
          BY <4>1, <4>6 DEF Sweeping
        <5>2. s = (host.pass * cfg.K) + cfg.K
          BY <1>3, <2>2, <5>1
        <5>3. walk.kx = 2
          BY <1>5, <2>4, <5>1
        <5>4. Step = 1
          BY <5>3 DEF Step
        <5>5. gg < walk.g \/ gg = walk.g
          BY <1>5, <5>1
        <5>6. n = Tap + 1
          BY <4>3, <5>4, <5>5
        <5> DEFINE u == host.pass * cfg.K
                   K == cfg.K
        <5>7. u \in Nat /\ K \in Nat /\ Tap = u + (K - 1) /\ s = u + K
          BY <1>5, <2>5, <5>1, <5>2
        <5> HIDE DEF u, K, n
        <5> QED BY <5>6, <5>7
      <4> QED BY <4>4, <4>5, <4>6
    <3> QED BY <1>7, <3>1, <3>2, <3>3 DEF Sweeping
  <2> HIDE DEF n
  <2> QED BY <1>4, <2>1, <2>6
<1> QED BY <1>6, <1>7

-----------------------------------------------------------------------------
\* The steps.

\* Out of a sweep nothing is in the pipeline, and that is all there is to it.
LEMMA Quiet ==
  ASSUME ~Sweeping
  PROVE  /\ WalkInv /\ FeedInv /\ WregInv
         /\ PipeInv <=> /\ ~s1.val /\ ~s2.val /\ ~s2b.val /\ (kpack => ~s2c.val)
                        /\ ~s3.val /\ ~s4.val
<1>1. InPipe = {}
  BY DEF InPipe
<1>2. WalkInv /\ FeedInv /\ WregInv
  BY DEF WalkInv, FeedInv, WregInv, Sweeping
<1>3. (S1Inv <=> ~s1.val) /\ (S2Inv <=> ~s2.val) /\ (S2bInv <=> ~s2b.val)
  BY <1>1, Zenon DEF S1Inv, S2Inv, S2bInv
<1>4. (S2cInv <=> (kpack => ~s2c.val)) /\ (S3Inv <=> ~s3.val) /\ (S4Inv <=> ~s4.val)
  BY <1>1, Zenon DEF S2cInv, S3Inv, S4Inv
<1> QED BY <1>2, <1>3, <1>4 DEF PipeInv

\* A clock keeps the block and the memories' shape.
LEMMA ClockKeepsBlock ==
  ASSUME TileInv, DataShape, CfgInv, MemInv, Clock
  PROVE  (DataShape /\ CfgInv /\ MemInv)'
<1>1. /\ strip' = strip /\ wbuf' = wbuf /\ wgt' = wgt /\ host'.pass = host.pass
      /\ host'.blk = host.blk /\ host'.do = host.do /\ wreg' = NextWreg
      /\ kpack' = kpack /\ cfg' = cfg /\ layer' = layer /\ plan' = plan
      /\ s1' = NextS1
      /\ accram' = IF s4.val THEN [accram EXCEPT ![s4.aaddr] = s4.wr] ELSE accram
  BY ClockKeeps DEF Pipeline
<1>2. CfgInv'
  BY <1>1 DEF CfgInv
<1>3. IsFcn(accram', 0 .. (ADEPTH - 1))
  BY <1>1 DEF MemInv, IsFcn
<1>4. MemInv'
  BY <1>1, <1>3 DEF MemInv
<1>5. IsRecord(s1', {"val", "init", "aaddr", "saddr", "zero", "saddr1", "zero1"})
  BY <1>1 DEF DataShape, IsRecord, NextS1
<1>6. IsRecord(wreg', {"now", "port", "near", "cap", "pair", "pair_r"})
  BY <1>1 DEF DataShape, IsRecord, NextWreg
<1> QED BY <1>2, <1>4, <1>5, <1>6 DEF DataShape

\* A clock, if packed taps only meet even rows.
LEMMA DataClock ==
  ASSUME EvenRows, TileInv, DataInv, Clock
  PROVE  DataInv'
<1>1. /\ DataShape /\ CfgInv /\ MemInv /\ WalkInv /\ FeedInv /\ WregInv /\ AccInv
      /\ S1Inv /\ S2Inv /\ S2bInv /\ S2cInv /\ S3Inv /\ S4Inv
  BY DEF DataInv, PipeInv
<1>2. host.do \in {"run", "drain"}
  <2>1. CASE Sweeping
    BY <2>1 DEF TileInv, SweepInv, Sweeping
  <2>2. CASE ~Sweeping
    BY <2>2, SweepsBegin
  <2> QED BY <2>1, <2>2
<1>3. Fits(cfg) /\ cfg.d = layer /\ host.pass \in 0 .. (cfg.npass - 1)
  BY <1>1, <1>2 DEF CfgInv
<1>4. host.pass \in Nat
  BY <1>3 DEF Fits
<1>5. kpack => cfg.d.w % 2 = 0
  BY <1>1, <1>3, Constants DEF EvenRows, CfgInv, TileInv, GeomInv
<1>6. (DataShape /\ CfgInv /\ MemInv)'
  BY <1>1, ClockKeepsBlock
<1>7. (WalkInv /\ FeedInv /\ WregInv)'
  BY <1>1, <1>3, <1>4, WalkStep, FeedMoves, WordsMove
<1>8. (S1Inv /\ S2Inv /\ S2bInv)'
  BY <1>1, <1>3, <1>4, <1>5, StageOne, StageTwo, StageThree
<1>9. (S2cInv /\ S3Inv /\ S4Inv)'
  BY <1>1, <1>3, <1>4, StageFour, StageFive, StageSix
<1>10. AccInv'
  BY <1>1, <1>3, <1>4, SumsMove
<1> QED BY <1>6, <1>7, <1>8, <1>9, <1>10 DEF DataInv, PipeInv

\* The host leaves the sweep alone.
LEMMA HostRests ==
  ASSUME TileInv, DataInv, Ready, UNCHANGED <<kpack, state, sweep>>
  PROVE  /\ ~Sweeping /\ ~Sweeping'
         /\ (DataShape /\ WalkInv /\ FeedInv /\ WregInv /\ PipeInv)'
<1>1. state = "IDLE" /\ kpack' = kpack /\ state' = "IDLE"
  BY ReadyRests DEF Resting
<1>2. ~Sweeping /\ ~Sweeping'
  BY <1>1 DEF Sweeping
<1>3. /\ ~s1.val /\ ~s2.val /\ ~s2b.val /\ (kpack => ~s2c.val) /\ ~s3.val /\ ~s4.val
  BY <1>2, Quiet DEF DataInv
<1>4. /\ s1' = s1 /\ s2' = s2 /\ s2b' = s2b /\ s2c' = s2c /\ s3' = s3 /\ s4' = s4
      /\ wreg' = wreg
  BY DEF sweep
<1>5. (~Sweeping => /\ WalkInv /\ FeedInv /\ WregInv
                    /\ PipeInv <=> /\ ~s1.val /\ ~s2.val /\ ~s2b.val /\ (kpack => ~s2c.val)
                                   /\ ~s3.val /\ ~s4.val)'
  BY Quiet, PTL
<1>6. (WalkInv /\ FeedInv /\ WregInv /\ PipeInv)'
  BY <1>1, <1>2, <1>3, <1>4, <1>5
<1>7. DataShape'
  BY <1>4 DEF DataInv, DataShape
<1> QED BY <1>2, <1>6, <1>7

\* The blocks of a plan, counted.
LEMMA BlocksAreNat ==
  ASSUME NEW d \in Layers, NEW r \in BOOLEAN, NEW pl \in Plans(d, r)
  PROVE  NBlocks(d, pl) \in Nat \ {0} /\ Starts(d, pl) \subseteq 0 .. (NBlocks(d, pl) - 1)
<1> DEFINE p == PosBlocks(d, pl)
           c == ChanBlocks(d, pl)
<1>1. p \in Nat \ {0} /\ c \in Nat \ {0}
  BY BlocksFill
<1>2. NBlocks(d, pl) = p * c /\ Starts(d, pl) = {0, p - 1}
  BY Zenon DEF NBlocks, Starts
<1> HIDE DEF p, c
<1>3. p * c \in Nat \ {0} /\ p <= p * c
  <2>1. c - 1 \in Nat /\ p \in Nat
    BY <1>1
  <2>2. p * (c - 1) \in Nat
    BY <2>1, Times
  <2>3. p * c = (p * (c - 1)) + p
    BY <1>1
  <2> QED BY <1>1, <2>2, <2>3
<1> QED BY <1>1, <1>2, <1>3

\* To begin with there is no sweep and no sum.
LEMMA DataInit == Init => DataInv
<1> SUFFICES ASSUME Init PROVE DataInv
  OBVIOUS
<1>1. /\ kpack \in KPacks /\ layer \in Layers /\ pulse = None /\ state = "IDLE"
      /\ strip = [a \in 0 .. (STRIPD - 1) |-> None]
      /\ wbuf = [a \in 0 .. (WDEPTH - 1) |-> Word(None)]
      /\ accram = [a \in 0 .. (ADEPTH - 1) |-> Word({None})]
  BY DEF Init
<1>2. PICK r \in BOOLEAN : plan \in Plans(layer, r)
  BY DEF Init
<1>3. PICK n \in Starts(layer, plan) :
        host = [blk |-> n, pass |-> 0, do |-> "cfg", left |-> RunBlocks, clocks |-> 0,
                table |-> None]
  BY DEF Init
<1>4. host.do = "cfg" /\ host.blk \in 0 .. (NBlocks(layer, plan) - 1)
  BY <1>1, <1>2, <1>3, BlocksAreNat
<1>5. IsFcn(wgt.sr, 1 .. NMAC)
  BY DEF Init, IsFcn
<1>6. CfgInv
  BY <1>1, <1>4 DEF CfgInv
<1>7. MemInv
  BY <1>1, <1>4, <1>5 DEF MemInv, IsFcn
<1>8. ~Sweeping
  BY <1>1 DEF Sweeping
<1>9. /\ ~s1.val /\ ~s2.val /\ ~s2b.val /\ ~s2c.val /\ ~s3.val /\ ~s4.val
  BY DEF Init
<1>10. WalkInv /\ FeedInv /\ WregInv /\ PipeInv
  BY <1>8, <1>9, Quiet
<1>11. IsRecord(s1, {"val", "init", "aaddr", "saddr", "zero", "saddr1", "zero1"})
  BY DEF Init, IsRecord
<1>12. IsRecord(wreg, {"now", "port", "near", "cap", "pair", "pair_r"})
  BY DEF Init, IsRecord
<1>13. AccInv
  BY <1>1, <1>4, Constants DEF AccInv
<1> QED BY <1>6, <1>7, <1>10, <1>11, <1>12, <1>13 DEF DataInv, DataShape

\* A block's geometry, and nothing in its accumulators yet.
LEMMA DataConfigure ==
  ASSUME TileInv, DataInv, Configure
  PROVE  DataInv'
<1>1. /\ UNCHANGED <<rigid, wbuf, accram, wgt, pulse, state, sweep, readout>> /\ Ready
      /\ cfg' = Block(layer, plan, host.blk) /\ host.do = "cfg"
      /\ strip' = IF cfg'.rq /\ host.table # cfg'.q0 THEN Store(RQBASE, TableBytes(cfg'))
                  ELSE strip
      /\ host' = [host EXCEPT !.do = "pass", !.pass = 0,
                              !.table = IF cfg'.rq THEN cfg'.q0 ELSE @]
  BY DEF Configure
<1>2. /\ kpack' = kpack /\ layer' = layer /\ plan' = plan /\ wbuf' = wbuf /\ accram' = accram
      /\ wgt' = wgt /\ UNCHANGED <<kpack, state, sweep>>
  BY <1>1 DEF rigid
<1>3. host'.do = "pass" /\ host'.pass = 0 /\ host'.blk = host.blk
  BY <1>1 DEF TileInv, ShapeInv, IsRecord
<1>4. host.blk \in 0 .. (NBlocks(layer, plan) - 1) /\ kpack \in KPacks
  BY <1>1 DEF DataInv, CfgInv
<1>5. layer \in Layers /\ \E r \in BOOLEAN : plan \in Plans(layer, r)
  BY DEF TileInv, GeomInv
<1>6. Fits(cfg') /\ cfg'.d = layer
  BY <1>1, <1>4, <1>5, BlockFits
<1>7. cfg'.npass \in Nat \ {0} /\ cfg'.K \in Nat
  BY <1>6 DEF Fits
<1>8. ~Sweeping' /\ (DataShape /\ WalkInv /\ FeedInv /\ WregInv /\ PipeInv)'
  BY <1>1, <1>2, HostRests
<1>9. CfgInv'
  BY <1>2, <1>3, <1>4, <1>6, <1>7 DEF CfgInv
<1>10. MemInv'
  <2>1. DOMAIN strip' = DOMAIN strip
    BY <1>1 DEF Store
  <2> QED BY <1>2, <1>3, <2>1 DEF DataInv, MemInv
<1>11. AccInv'
  <2>1. SUFFICES ASSUME NEW q, NEW gg PROVE ~(Summed(q, gg)' > 0)
    BY DEF AccInv
  <2>2. Summed(q, gg)' = 0 * cfg'.K
    BY <1>3, <1>8 DEF Summed
  <2> QED BY <1>7, <2>2
<1> QED BY <1>8, <1>9, <1>10, <1>11 DEF DataInv

\* The strip of a pass and its weights; the sums are those of the passes before.
LEMMA DataPass ==
  ASSUME TileInv, DataInv, Pass
  PROVE  DataInv'
<1> DEFINE w == Streamed(WeightBytes(cfg, host.pass))
<1>1. /\ UNCHANGED <<rigid, cfg, accram, state, sweep, readout>> /\ Ready /\ host.do = "pass"
      /\ strip' = Store(0, StripBytes(cfg, host.pass)) /\ pulse' = "run"
      /\ host' = [host EXCEPT !.do = "run", !.clocks = 0]
      /\ wbuf' = w.buf /\ wgt' = [sr |-> w.sr, j |-> w.j, a |-> w.a]
  BY DEF Pass
<1>2. /\ kpack' = kpack /\ layer' = layer /\ plan' = plan /\ accram' = accram /\ cfg' = cfg
      /\ UNCHANGED <<kpack, state, sweep>>
  BY <1>1 DEF rigid
<1>3. host'.do = "run" /\ host'.pass = host.pass /\ host'.blk = host.blk
  BY <1>1 DEF TileInv, ShapeInv, IsRecord
<1>4. /\ Fits(cfg) /\ cfg.d = layer /\ host.pass \in 0 .. (cfg.npass - 1) /\ kpack \in KPacks
      /\ host.blk \in 0 .. (NBlocks(layer, plan) - 1)
  BY <1>1 DEF DataInv, CfgInv
<1>5. host.pass \in Nat
  BY <1>4 DEF Fits
<1>6. /\ DOMAIN strip = 0 .. (STRIPD - 1) /\ IsFcn(wbuf, 0 .. (WDEPTH - 1))
      /\ IsFcn(wgt.sr, 1 .. NMAC) /\ IsFcn(accram, 0 .. (ADEPTH - 1)) /\ AccInv
  BY DEF DataInv, MemInv
<1>7. ~Sweeping /\ ~Sweeping' /\ (DataShape /\ WalkInv /\ FeedInv /\ WregInv /\ PipeInv)'
  BY <1>1, <1>2, HostRests
<1>8. CfgInv'
  BY <1>2, <1>3, <1>4 DEF CfgInv
<1>9. /\ IsFcn(wbuf', 0 .. (WDEPTH - 1)) /\ IsFcn(wgt'.sr, 1 .. NMAC)
      /\ \A k \in 0 .. (cfg.K - 1), gg \in 0 .. (cfg.QG - 1) :
           wbuf'[(k * cfg.QG) + gg] = WordOf(cfg, gg, (host.pass * cfg.K) + k)
  <2>1. /\ IsFcn(w.buf, 0 .. (WDEPTH - 1)) /\ IsFcn(w.sr, 1 .. NMAC)
        /\ \A k \in 0 .. (cfg.K - 1), gg \in 0 .. (cfg.QG - 1) :
             w.buf[(k * cfg.QG) + gg] = WordOf(cfg, gg, (host.pass * cfg.K) + k)
    BY <1>4, <1>5, <1>6, StreamLeaves
  <2> HIDE DEF w
  <2> QED BY <1>1, <2>1
<1>10. /\ DOMAIN strip' = 0 .. (STRIPD - 1)
       /\ \A a \in 0 .. (cfg.a_len - 1) : strip'[a] = StripBytes(cfg, host.pass)[a]
  <2> DEFINE B == StripBytes(cfg, host.pass)
             n == cfg.a_len
  <2>1. DOMAIN B = 0 .. (n - 1)
    BY DEF StripBytes
  <2>2. STRIPD \in Nat /\ n <= STRIPD /\ n \in Int
    <3>1. cfg.strip_ch \in Nat /\ cfg.Cb \in Nat /\ n = cfg.Cb * cfg.strip_ch /\ n <= STRIPD
      BY <1>4 DEF Fits
    <3>2. n \in Nat
      BY <3>1, Times
    <3> QED BY <3>1, <3>2, DeviceAssumption
  <2> HIDE DEF B, n
  <2>3. \A a \in 0 .. (n - 1) : a \in 0 .. (STRIPD - 1) /\ a - 0 = a
    BY <2>2
  <2>4. strip' = [a \in 0 .. (STRIPD - 1) |-> IF a - 0 \in DOMAIN B THEN B[a - 0] ELSE strip[a]]
    BY <1>1, <1>6 DEF Store, B
  <2>5. \A a \in 0 .. (n - 1) : strip'[a] = B[a]
    BY <2>1, <2>3, <2>4
  <2> QED BY <2>4, <2>5 DEF B, n
<1> HIDE DEF w
<1>11. MemInv'
  BY <1>2, <1>3, <1>6, <1>9, <1>10 DEF MemInv
<1>12. AccInv'
  <2>1. SUFFICES ASSUME NEW q \in 0 .. (cfg.P - 1), NEW gg \in 0 .. (cfg.QG - 1),
                        Summed(q, gg)' > 0
                 PROVE  accram'[(q * cfg.QG) + gg] = SumTo(cfg, q, gg, Summed(q, gg)')
    BY <1>2 DEF AccInv
  <2>2. Summed(q, gg)' = host.pass * cfg.K /\ Summed(q, gg) = host.pass * cfg.K
    BY <1>1, <1>2, <1>3, <1>7 DEF Summed
  <2>3. Summed(q, gg) > 0
    BY <2>1, <2>2
  <2>4. accram[(q * cfg.QG) + gg] = SumTo(cfg, q, gg, Summed(q, gg))
    BY <1>1, <1>6, <2>1, <2>3 DEF AccInv
  <2> QED BY <1>2, <2>2, <2>4
<1> QED BY <1>7, <1>8, <1>11, <1>12 DEF DataInv

\* A pass is over: the sums are those of the next one's start, or all.
LEMMA DataSwept ==
  ASSUME TileInv, DataInv, Swept
  PROVE  DataInv'
<1> DEFINE last == host.pass + 1 = cfg.npass
<1>1. /\ UNCHANGED <<rigid, cfg, memory, state, sweep, readout>> /\ Ready /\ host.do = "run"
      /\ host' = IF last THEN [host EXCEPT !.do = "drain"]
                 ELSE [host EXCEPT !.do = "pass", !.pass = @ + 1]
      /\ pulse' = IF last THEN "drain" ELSE None
  BY DEF Swept
<1>2. /\ kpack' = kpack /\ layer' = layer /\ plan' = plan /\ accram' = accram /\ cfg' = cfg
      /\ strip' = strip /\ wbuf' = wbuf /\ wgt' = wgt
      /\ UNCHANGED <<kpack, state, sweep>>
  BY <1>1 DEF rigid, memory
<1>3. /\ host'.blk = host.blk /\ host'.do = IF last THEN "drain" ELSE "pass"
      /\ host'.pass = IF last THEN host.pass ELSE host.pass + 1
  BY <1>1 DEF TileInv, ShapeInv, IsRecord
<1>4. /\ Fits(cfg) /\ cfg.d = layer /\ host.pass \in 0 .. (cfg.npass - 1) /\ kpack \in KPacks
      /\ host.blk \in 0 .. (NBlocks(layer, plan) - 1)
  BY <1>1 DEF DataInv, CfgInv
<1>5. host.pass \in Nat /\ cfg.npass \in Nat \ {0} /\ cfg.K \in Nat
  BY <1>4 DEF Fits
<1>6. ~Sweeping /\ ~Sweeping' /\ (DataShape /\ WalkInv /\ FeedInv /\ WregInv /\ PipeInv)'
  BY <1>1, <1>2, HostRests
<1>7. pulse = None /\ None # "run" /\ None # "drain"
  BY <1>1, ReadyRests, Constants
<1>8. CfgInv'
  <2>1. last => host.pass = cfg.npass - 1
    BY <1>5
  <2>2. ~last => host.pass + 1 \in 0 .. (cfg.npass - 1)
    BY <1>4, <1>5
  <2> HIDE DEF last
  <2> QED BY <1>2, <1>3, <1>4, <2>1, <2>2 DEF CfgInv
<1>9. MemInv'
  BY <1>2, <1>3 DEF DataInv, MemInv
<1>10. AccInv'
  <2>1. SUFFICES ASSUME NEW q \in 0 .. (cfg.P - 1), NEW gg \in 0 .. (cfg.QG - 1),
                        Summed(q, gg)' > 0
                 PROVE  accram'[(q * cfg.QG) + gg] = SumTo(cfg, q, gg, Summed(q, gg)')
    BY <1>2 DEF AccInv
  <2>2. Summed(q, gg) = (host.pass * cfg.K) + cfg.K
    BY <1>1, <1>6, <1>7 DEF Summed
  <2>3. Summed(q, gg)' = (host.pass * cfg.K) + cfg.K
    <3>1. CASE last
      BY <1>1, <1>2, <1>3, <1>6, <3>1 DEF Summed
    <3>2. CASE ~last
      <4>1. Summed(q, gg)' = (host.pass + 1) * cfg.K
        BY <1>2, <1>3, <1>6, <3>2 DEF Summed
      <4>2. (host.pass + 1) * cfg.K = (host.pass * cfg.K) + cfg.K
        BY <1>5
      <4> QED BY <4>1, <4>2
    <3> QED BY <3>1, <3>2
  <2>4. Summed(q, gg) > 0
    BY <2>1, <2>2, <2>3
  <2>5. accram[(q * cfg.QG) + gg] = SumTo(cfg, q, gg, Summed(q, gg))
    BY <1>1, <2>1, <2>4 DEF DataInv, AccInv
  <2> QED BY <1>2, <2>2, <2>3, <2>5
<1> QED BY <1>6, <1>8, <1>9, <1>10 DEF DataInv

\* A block is read; the sums are nobody's any more.
LEMMA DataDrained ==
  ASSUME TileInv, DataInv, Drained
  PROVE  DataInv'
<1> DEFINE next == host.blk + 1
           more == host.left > 1 /\ next < NBlocks(layer, plan)
<1>1. /\ UNCHANGED <<rigid, cfg, memory, pulse, state, sweep, readout>> /\ Ready
      /\ host.do = "drain"
      /\ host' = [host EXCEPT !.do = IF more THEN "cfg" ELSE "over", !.blk = next,
                              !.left = @ - 1]
  BY DEF Drained
<1>2. /\ kpack' = kpack /\ layer' = layer /\ plan' = plan /\ accram' = accram /\ cfg' = cfg
      /\ strip' = strip /\ wbuf' = wbuf /\ wgt' = wgt
      /\ UNCHANGED <<kpack, state, sweep>>
  BY <1>1 DEF rigid, memory
<1>3. host'.blk = next /\ host'.do = IF more THEN "cfg" ELSE "over"
  BY <1>1 DEF TileInv, ShapeInv, IsRecord
<1>4. /\ host.blk \in 0 .. (NBlocks(layer, plan) - 1) /\ kpack \in KPacks
  BY <1>1 DEF DataInv, CfgInv
<1>5. NBlocks(layer, plan) \in Nat
  <2>1. layer \in Layers /\ \E r \in BOOLEAN : plan \in Plans(layer, r)
    BY DEF TileInv, GeomInv
  <2> QED BY <2>1, BlocksAreNat
<1>6. (DataShape /\ WalkInv /\ FeedInv /\ WregInv /\ PipeInv)'
  BY <1>1, <1>2, HostRests
<1>7. pulse' # "drain"
  BY <1>1, ReadyRests, Constants
<1>8. CfgInv'
  <2>1. more => next \in 0 .. (NBlocks(layer, plan) - 1)
    BY <1>4, <1>5
  <2> HIDE DEF more, next
  <2> QED BY <1>2, <1>3, <1>4, <2>1 DEF CfgInv
<1>9. MemInv'
  BY <1>2, <1>3 DEF DataInv, MemInv
<1>10. AccInv'
  BY <1>3, <1>7 DEF AccInv
<1> QED BY <1>6, <1>8, <1>9, <1>10 DEF DataInv

\* Nothing moves.
LEMMA DataStutter ==
  ASSUME DataInv, UNCHANGED vars
  PROVE  DataInv'
<1>1. /\ kpack' = kpack /\ layer' = layer /\ plan' = plan /\ host' = host /\ cfg' = cfg
      /\ strip' = strip /\ wbuf' = wbuf /\ accram' = accram /\ wgt' = wgt /\ pulse' = pulse
      /\ state' = state /\ walk' = walk /\ feed' = feed /\ wreg' = wreg
      /\ s1' = s1 /\ s2' = s2 /\ s2b' = s2b /\ s2c' = s2c /\ s3' = s3 /\ s4' = s4
  BY DEF vars, rigid, memory, sweep, readout
<1>2. /\ Sweeping' = Sweeping /\ FLUSH' = FLUSH /\ Pos' = Pos /\ Tap' = Tap /\ Step' = Step
  BY <1>1 DEF Sweeping, FLUSH, Pos, Tap, Step
<1>3. /\ InPipe' = InPipe /\ First' = First /\ StripQ' = StripQ /\ StripQ1' = StripQ1
  BY <1>1, <1>2 DEF InPipe, First, StripQ, StripQ1
<1>4. (DataShape /\ CfgInv /\ MemInv)'
  BY <1>1 DEF DataInv, DataShape, CfgInv, MemInv
<1>5. (WalkInv /\ FeedInv /\ WregInv)'
  BY <1>1, <1>2 DEF DataInv, WalkInv, FeedInv, WregInv
<1>6. (S1Inv /\ S2Inv /\ S2bInv)'
  BY <1>1, <1>2, <1>3 DEF DataInv, PipeInv, S1Inv, S2Inv, S2bInv
<1>7. (S2cInv /\ S3Inv /\ S4Inv)'
  BY <1>1, <1>2, <1>3 DEF DataInv, PipeInv, S2cInv, S3Inv, S4Inv
<1>8. AccInv'
  <2>1. \A q, gg : Summed(q, gg)' = Summed(q, gg)
    BY <1>1, <1>2 DEF Summed
  <2> QED BY <1>1, <2>1 DEF DataInv, AccInv
<1> QED BY <1>4, <1>5, <1>6, <1>7, <1>8 DEF DataInv, PipeInv

\* Every step.
LEMMA DataStep == EvenRows /\ TileInv /\ DataInv /\ [Next]_vars => DataInv'
BY DataConfigure, DataPass, DataClock, DataSwept, DataDrained, DataStutter DEF Next, Over

\* The sums, whatever the tile and the layer: the weights are where the walk counts them,
\* the strip's bytes where the feed reads them, and each stage of the pipeline has of its
\* position what the stages before it found.
THEOREM DataInductive == EvenRows => (Spec => []DataInv)
<1> SUFFICES ASSUME EvenRows PROVE Spec => []DataInv
  OBVIOUS
<1>1. Init => DataInv
  BY DataInit
<1>2. TileInv /\ DataInv /\ [Next]_vars => DataInv'
  BY DataStep
<1> QED BY <1>1, <1>2, TileInductive, PTL DEF Spec

\* All the taps' products are the golden reference's sum.
LEMMA SumsAreGolden == TileInv /\ DataInv => SumsAreTheConvolution
<1> SUFFICES ASSUME TileInv, DataInv, pulse = "drain", NEW i \in Outputs
             PROVE  LET c == i \div cfg.P IN
                    accram[(i % cfg.P) * cfg.QG + (c \div NMAC)][c % NMAC] = GoldenAcc(cfg, i)
  BY DEF SumsAreTheConvolution
<1> DEFINE c == i \div cfg.P
           q == i % cfg.P
           gg == c \div NMAC
           j == c % NMAC
<1>1. /\ host.do = "drain" /\ ~Sweeping
  BY DEF TileInv, ReadInv, Sweeping
<1>2. Fits(cfg) /\ host.pass = cfg.npass - 1
  BY <1>1 DEF DataInv, CfgInv
<1>3. /\ cfg.P \in Nat \ {0} /\ cfg.QG \in Nat \ {0} /\ NMAC \in Nat \ {0}
      /\ cfg.QG * NMAC \in Nat \ {0} /\ i \in 0 .. (((cfg.QG * NMAC) * cfg.P) - 1)
  <2> DEFINE P == cfg.P
             QG == cfg.QG
  <2>1. P \in Nat \ {0} /\ QG \in Nat \ {0} /\ NMAC \in Nat \ {0} /\ cfg.nacc = P * (QG * NMAC)
    BY <1>2, Constants DEF Fits
  <2>2. i \in 0 .. (cfg.nacc - 1)
    BY DEF Outputs
  <2> HIDE DEF P, QG
  <2>3. QG * NMAC \in Nat \ {0}
    BY <2>1
  <2> DEFINE m == QG * NMAC
  <2>4. m \in Nat \ {0} /\ cfg.nacc = P * m
    BY <2>1, <2>3
  <2> HIDE DEF m
  <2>5. P * m = m * P
    BY <2>1, <2>4
  <2> QED BY <2>1, <2>2, <2>3, <2>4, <2>5 DEF m, P, QG
<1>4. c \in 0 .. ((cfg.QG * NMAC) - 1) /\ q \in 0 .. (cfg.P - 1)
  BY <1>3, SplitOf
<1>5. gg \in 0 .. (cfg.QG - 1) /\ j \in 0 .. (NMAC - 1)
  <2> HIDE DEF c
  <2> QED BY <1>3, <1>4, SplitOf
<1>6. c = (gg * NMAC) + j
  <2>1. c \in Int
    BY <1>3, <1>4
  <2> HIDE DEF c
  <2> QED BY <1>3, <2>1, Division
<1> HIDE DEF c, q, gg, j
<1>7. Summed(q, gg) = 9 * cfg.d.cin /\ 9 * cfg.d.cin > 0
  <2> DEFINE n == cfg.npass
             C == cfg.Cb
             K == cfg.K
  <2>1. /\ n \in Nat \ {0} /\ C \in Nat \ {0} /\ K = C * 9 /\ n * C = cfg.d.cin
        /\ host.pass = n - 1 /\ cfg.d.cin \in Nat \ {0}
    BY <1>2, LayerIs DEF Fits
  <2>2. Summed(q, gg) = (host.pass * K) + K
    BY <1>1, Constants DEF Summed
  <2> HIDE DEF n, C, K
  <2>3. (n - 1) * (C * 9) + (C * 9) = 9 * (n * C)
    BY <2>1
  <2> QED BY <2>1, <2>2, <2>3
<1>8. accram[(q * cfg.QG) + gg] = SumTo(cfg, q, gg, 9 * cfg.d.cin)
  BY <1>4, <1>5, <1>7 DEF DataInv, AccInv
<1>9. SumTo(cfg, q, gg, 9 * cfg.d.cin)[j]
        = Convolution(cfg.d, cfg.q0 + ((gg * NMAC) + j), cfg.oy0 + RowOf(cfg, q), ColOf(cfg, q))
  <2>1. q \in Nat /\ gg \in Nat /\ j \in Lanes
    BY <1>3, <1>4, <1>5 DEF Lanes
  <2> QED BY <1>2, <2>1, SumOfAll
<1>10. GoldenAcc(cfg, i)
         = Convolution(cfg.d, cfg.q0 + c, cfg.oy0 + RowOf(cfg, q), ColOf(cfg, q))
  BY Zenon DEF GoldenAcc, ChannelOf, RowOf, ColOf, c, q
<1>11. accram[(q * cfg.QG) + gg][j] = GoldenAcc(cfg, i)
  BY <1>6, <1>8, <1>9, <1>10
<1> QED BY <1>11 DEF c, q, gg, j

\* Whatever layer is run, however it is blocked, in one pass or in many, at either stride,
\* whatever the sizes of the tile, at the end of a block's last sweep each accumulator of
\* rtl/gemm_tile.v is the sum of exactly the products conv_acc_one() of
\* firmware/gemm_block.c adds: no tap is left out, none comes in twice, none is another
\* position's, and no byte out of the tensor is multiplied.  With the taps packed in
\* pairs the layers' rows are to be even: with odd ones the sums are wrong.
THEOREM SumsAreRight == EvenRows => (Spec => []SumsAreTheConvolution)
<1> SUFFICES ASSUME EvenRows PROVE Spec => []SumsAreTheConvolution
  OBVIOUS
<1>1. Spec => []DataInv
  BY DataInductive
<1> QED BY <1>1, SumsAreGolden, TileInductive, PTL

-----------------------------------------------------------------------------
\* The words of a readout: what there is of each output at each clock of it.

\* What the block in force has of its plan's.
LEMMA CfgIs ==
  ASSUME TileInv, DataInv, TableInv, host.do \in HasTable
  PROVE  /\ Fits(cfg) /\ cfg.d = layer /\ layer \in Layers /\ Accepts(cfg)
         /\ cfg.rq = Block(layer, plan, 0).rq /\ cfg.Q = plan.QG * NMAC
         /\ cfg.rq \in BOOLEAN
         /\ cfg.rq => cfg.Q <= MAXQ /\ cfg.a_len <= RQBASE /\ cfg.P % 2 = 0
<1>1. PICK r \in BOOLEAN : plan \in Plans(layer, r)
  BY DEF TileInv, GeomInv
<1>2. layer \in Layers /\ cfg = Block(layer, plan, host.blk)
  BY DEF TileInv, GeomInv, TableInv
<1>3. host.blk \in 0 .. (NBlocks(layer, plan) - 1) /\ Fits(cfg) /\ cfg.d = layer
  BY DEF DataInv, CfgInv, HasTable
<1>4. 0 \in 0 .. (NBlocks(layer, plan) - 1)
  <2> DEFINE N == NBlocks(layer, plan)
  <2>1. N \in Nat
    BY <1>1, <1>2, BlocksAreNat
  <2> HIDE DEF N
  <2> QED BY <1>3, <2>1 DEF N
<1>5. Accepts(cfg) /\ Sized(cfg) = Sized(Block(layer, plan, 0)) /\ cfg.Q = plan.QG * NMAC
  <2>1. Accepts(Block(layer, plan, host.blk))
    BY <1>1, <1>2, <1>3, BlocksAccepted
  <2>2. /\ Sized(Block(layer, plan, host.blk)) = Sized(Geom(layer, plan, 0, 0, 0))
        /\ Block(layer, plan, host.blk).Q = plan.QG * NMAC
    BY <1>1, <1>2, <1>3, BlockSize
  <2>3. Sized(Block(layer, plan, 0)) = Sized(Geom(layer, plan, 0, 0, 0))
    BY <1>1, <1>2, <1>4, BlockSize
  <2> QED BY <1>2, <2>1, <2>2, <2>3, Zenon
<1>6. cfg.rq = Block(layer, plan, 0).rq
  BY <1>5, SizedIs, Zenon
<1>7. \E p, q0, oy0, ox0 : cfg = Geom(layer, p, q0, oy0, ox0)
  BY <1>2, Zenon DEF Block
<1>8. PICK p, q0, oy0, ox0 : cfg = Geom(layer, p, q0, oy0, ox0)
  BY <1>7
<1>9. cfg.rq => cfg.Q <= MAXQ /\ cfg.a_len <= RQBASE /\ cfg.P % 2 = 0
  BY <1>8, Zenon DEF Geom
<1>10. cfg.rq \in BOOLEAN
  BY DEF TileInv, GeomInv
<1> QED BY <1>2, <1>3, <1>5, <1>6, <1>9, <1>10

-----------------------------------------------------------------------------
\* Names.  Two outputs whose sums are one are one: the middle tap says which.

\* The middle tap's product of the first input channel is in a position's sum.
LEMMA MiddleIsIn ==
  ASSUME CentresInside, NEW d \in Layers, NEW oc, NEW oy \in 0 .. (d.oh - 1), NEW ox \in 0 .. (d.ow - 1)
  PROVE  <<<<0, oy * Stride(d), ox * Stride(d)>>, <<oc, 0, 4>>>> \in Convolution(d, oc, oy, ox)
<1> DEFINE s == Stride(d)
           iy(t) == oy * s - 1 + (t \div 3)
           ix(t) == ox * s - 1 + (t % 3)
           inside == {t \in 0 .. 8 : iy(t) \in 0 .. (d.h - 1) /\ ix(t) \in 0 .. (d.w - 1)}
<1>1. /\ d.h \in Nat \ {0} /\ d.w \in Nat \ {0} /\ d.oh \in Nat \ {0} /\ d.ow \in Nat \ {0}
      /\ d.cin \in Nat \ {0}
  BY LayerIs
<1>2. s \in {1, 2} /\ (d.oh - 1) * s < d.h /\ (d.ow - 1) * s < d.w
  BY DEF CentresInside, Stride
<1> DEFINE H == d.h
           V == d.w
           Y == d.oh
           X == d.ow
<1>3. oy \in 0 .. (Y - 1) /\ ox \in 0 .. (X - 1) /\ (Y - 1) * s < H /\ (X - 1) * s < V
      /\ H \in Nat /\ V \in Nat /\ Y \in Nat /\ X \in Nat
  BY <1>1, <1>2
<1>4. 4 \div 3 = 1 /\ 4 % 3 = 1
  OBVIOUS
<1>5. Convolution(d, oc, oy, ox)
        = {<<<<ic, iy(t), ix(t)>>, <<oc, ic, t>>>> : ic \in 0 .. (d.cin - 1), t \in inside}
  BY DEF Convolution
<1> HIDE DEF s, H, V, Y, X
<1>6. oy * s \in 0 .. (H - 1) /\ ox * s \in 0 .. (V - 1)
  <2>1. CASE s = 1
    BY <1>3, <2>1
  <2>2. CASE s = 2
    BY <1>3, <2>2
  <2> QED BY <1>2, <2>1, <2>2
<1>7. iy(4) = oy * s /\ ix(4) = ox * s
  <2>1. oy * s \in Int /\ ox * s \in Int
    BY <1>6, <1>3
  <2> QED BY <1>4, <2>1
<1>8. 4 \in inside
  BY <1>6, <1>7 DEF H, V
<1>9. 0 \in 0 .. (d.cin - 1)
  BY <1>1
<1> HIDE DEF inside, iy, ix
<1> QED BY <1>5, <1>7, <1>8, <1>9 DEF s

\* The product says which position and which channel it is of.
LEMMA MiddleTells ==
  ASSUME NEW d \in Layers, NEW oc, NEW oy \in Nat, NEW ox \in Nat,
         NEW oc2, NEW oy2 \in Nat, NEW ox2 \in Nat,
         <<<<0, oy * Stride(d), ox * Stride(d)>>, <<oc, 0, 4>>>> \in Convolution(d, oc2, oy2, ox2)
  PROVE  oc = oc2 /\ oy = oy2 /\ ox = ox2
<1> DEFINE s == Stride(d)
           iy(t) == oy2 * s - 1 + (t \div 3)
           ix(t) == ox2 * s - 1 + (t % 3)
           inside == {t \in 0 .. 8 : iy(t) \in 0 .. (d.h - 1) /\ ix(t) \in 0 .. (d.w - 1)}
<1>1. Convolution(d, oc2, oy2, ox2)
        = {<<<<ic, iy(t), ix(t)>>, <<oc2, ic, t>>>> : ic \in 0 .. (d.cin - 1), t \in inside}
  BY DEF Convolution
<1> HIDE DEF inside, iy, ix
<1>2. PICK ic \in 0 .. (d.cin - 1), t \in inside :
        <<<<0, oy * s, ox * s>>, <<oc, 0, 4>>>> = <<<<ic, iy(t), ix(t)>>, <<oc2, ic, t>>>>
  BY <1>1
<1>3. t = 4 /\ oc = oc2 /\ oy * s = iy(4) /\ ox * s = ix(4)
  BY <1>2
<1>4. s \in {1, 2}
  BY DEF Stride
<1>5. 4 \div 3 = 1 /\ 4 % 3 = 1
  OBVIOUS
<1> HIDE DEF s
<1>6. iy(4) = oy2 * s /\ ix(4) = ox2 * s
  <2>1. oy2 * s \in Int /\ ox2 * s \in Int
    BY <1>4
  <2> QED BY <1>5, <2>1 DEF iy, ix
<1>7. CASE s = 1
  BY <1>3, <1>6, <1>7
<1>8. CASE s = 2
  BY <1>3, <1>6, <1>8
<1> QED BY <1>4, <1>7, <1>8

\* An output by its channel and its position.
LEMMA OutputIs ==
  ASSUME NEW g, Fits(g), Accepts(g), NEW i \in 0 .. (g.nacc - 1)
  PROVE  /\ i \div g.P \in 0 .. ((g.QG * NMAC) - 1) /\ i % g.P \in 0 .. (g.P - 1)
         /\ i = ((i \div g.P) * g.P) + (i % g.P)
         /\ g.oy0 + RowOf(g, i % g.P) \in 0 .. (g.d.oh - 1) /\ ColOf(g, i % g.P) \in 0 .. (g.d.ow - 1)
         /\ GoldenAcc(g, i) = Convolution(g.d, g.q0 + (i \div g.P), g.oy0 + RowOf(g, i % g.P),
                                          ColOf(g, i % g.P))
<1>1. /\ g.P \in Nat \ {0} /\ g.QG \in Nat \ {0} /\ NMAC \in Nat \ {0}
      /\ g.nacc = g.P * (g.QG * NMAC) /\ g.d \in Layers
      /\ g.ox0 \in 0 .. (g.d.ow - 1) /\ g.oy0 \in Nat /\ g.rowspan \in Nat
      /\ g.rowspan = (g.ox0 + (g.P - 1)) \div g.d.ow /\ g.oy0 + g.rowspan < g.d.oh
  BY Constants DEF Fits, Accepts
<1> DEFINE m == g.QG * NMAC
           P == g.P
           q == i % P
<1>2. m \in Nat \ {0} /\ P \in Nat \ {0} /\ P * m = m * P
  <2> DEFINE a == g.QG
  <2>1. a \in Nat \ {0} /\ NMAC \in Nat \ {0}
    BY <1>1
  <2> HIDE DEF a
  <2>2. a * NMAC \in Nat \ {0}
    BY <2>1
  <2>3. m \in Nat \ {0}
    BY <2>2 DEF a
  <2> HIDE DEF m
  <2> QED BY <1>1, <2>3, Times
<1>3. i \in 0 .. ((m * P) - 1)
  BY <1>1, <1>2
<1> HIDE DEF m, P
<1>4. i \div P \in 0 .. (m - 1) /\ q \in 0 .. (P - 1) /\ i = ((i \div P) * P) + q
  <2>1. m * P \in Nat
    BY <1>2, Times
  <2>2. i \in Int
    BY <1>3, <2>1
  <2> QED BY <1>2, <1>3, <2>2, SplitOf, Division
<1> HIDE DEF q
<1>5. q \in Nat /\ q <= P - 1
  BY <1>2, <1>4
<1>6. /\ RowOf(g, q) \in Nat /\ ColOf(g, q) \in 0 .. (g.d.ow - 1)
  BY <1>5, PlaceIs
<1>7. RowOf(g, q) <= g.rowspan
  <2> DEFINE w == g.d.ow
             x == g.ox0 + q
             z == g.ox0 + (P - 1)
  <2>1. w \in Nat \ {0} /\ x \in Nat /\ z \in Nat /\ x <= z
    BY <1>1, <1>2, <1>5, LayerIs
  <2>2. RowOf(g, q) = x \div w /\ g.rowspan = z \div w
    BY <1>1, Zenon DEF RowOf, P
  <2> HIDE DEF w, x, z
  <2>3. x \div w <= z \div w
    <3>1. /\ x \div w \in Int /\ z \div w \in Int /\ x % w \in 0 .. (w - 1) /\ z % w \in 0 .. (w - 1)
          /\ x = ((x \div w) * w) + (x % w) /\ z = ((z \div w) * w) + (z % w)
      BY <2>1, Division
    <3> DEFINE a == x \div w
               b == z \div w
               u == x % w
               v == z % w
    <3>2. a \in Int /\ b \in Int /\ u \in 0 .. (w - 1) /\ v \in 0 .. (w - 1)
          /\ x = (a * w) + u /\ z = (b * w) + v
      BY <3>1
    <3> HIDE DEF a, b, u, v
    <3>3. ASSUME a > b PROVE FALSE
      <4>1. (a - b) * w >= w
        BY <2>1, <3>2, <3>3
      <4>2. (a - b) * w = (a * w) - (b * w)
        BY <2>1, <3>2
      <4>3. a * w \in Int /\ b * w \in Int
        BY <2>1, <3>2
      <4> QED BY <2>1, <3>2, <4>1, <4>2, <4>3
    <3> QED BY <3>2, <3>3 DEF a, b
  <2> QED BY <2>2, <2>3
<1>8. g.oy0 + RowOf(g, q) \in 0 .. (g.d.oh - 1)
  <2>1. g.d.oh \in Nat
    BY <1>1, LayerIs
  <2> QED BY <1>1, <1>6, <1>7, <2>1
<1>9. GoldenAcc(g, i) = Convolution(g.d, g.q0 + (i \div P), g.oy0 + RowOf(g, q), ColOf(g, q))
  BY Zenon DEF GoldenAcc, ChannelOf, RowOf, ColOf, q, P
<1> QED BY <1>4, <1>6, <1>8, <1>9 DEF m, P, q

\* A sum's name is its output.
LEMMA NameIs ==
  ASSUME CentresInside, Fits(cfg), Accepts(cfg), NEW i \in Outputs
  PROVE  NameOf(GoldenAcc(cfg, i)) = i
<1>1. ASSUME NEW k \in Outputs, GoldenAcc(cfg, k) = GoldenAcc(cfg, i) PROVE k = i
  <2> DEFINE P == cfg.P
             q == i % P
             p == k % P
             c == i \div P
             e == k \div P
             oy == cfg.oy0 + RowOf(cfg, q)
             oy2 == cfg.oy0 + RowOf(cfg, p)
             ox == ColOf(cfg, q)
             ox2 == ColOf(cfg, p)
  <2>1. /\ P \in Nat \ {0} /\ cfg.d \in Layers /\ cfg.q0 \in Nat /\ cfg.oy0 \in Nat
        /\ cfg.ox0 \in 0 .. (cfg.d.ow - 1) /\ cfg.d.ow \in Nat \ {0}
    <3>1. cfg.d \in Layers
      BY DEF Fits
    <3> QED BY <3>1, LayerIs DEF Fits
  <2>2. /\ c \in 0 .. ((cfg.QG * NMAC) - 1) /\ q \in 0 .. (P - 1) /\ i = (c * P) + q
        /\ oy \in 0 .. (cfg.d.oh - 1) /\ ox \in 0 .. (cfg.d.ow - 1)
        /\ GoldenAcc(cfg, i) = Convolution(cfg.d, cfg.q0 + c, oy, ox)
    BY OutputIs DEF Outputs
  <2>3. /\ e \in 0 .. ((cfg.QG * NMAC) - 1) /\ p \in 0 .. (P - 1) /\ k = (e * P) + p
        /\ oy2 \in 0 .. (cfg.d.oh - 1) /\ ox2 \in 0 .. (cfg.d.ow - 1)
        /\ GoldenAcc(cfg, k) = Convolution(cfg.d, cfg.q0 + e, oy2, ox2)
    BY OutputIs DEF Outputs
  <2> HIDE DEF P, q, p, c, e, oy, oy2, ox, ox2
  <2>4. oy \in Nat /\ ox \in Nat /\ oy2 \in Nat /\ ox2 \in Nat /\ c \in Nat /\ e \in Nat
        /\ q \in Nat /\ p \in Nat
    <3>1. cfg.d.oh \in Nat /\ cfg.d.ow \in Nat /\ cfg.QG * NMAC \in Int
      BY <2>1, LayerIs, Constants DEF Fits
    <3> QED BY <2>1, <2>2, <2>3, <3>1
  <2>5. <<<<0, oy * Stride(cfg.d), ox * Stride(cfg.d)>>, <<cfg.q0 + c, 0, 4>>>>
          \in Convolution(cfg.d, cfg.q0 + e, oy2, ox2)
    BY <1>1, <2>1, <2>2, <2>3, MiddleIsIn
  <2>6. cfg.q0 + c = cfg.q0 + e /\ oy = oy2 /\ ox = ox2
    <3> DEFINE d == cfg.d
               u == cfg.q0 + c
               v == cfg.q0 + e
    <3>1. d \in Layers
      BY <2>1
    <3>2. <<<<0, oy * Stride(d), ox * Stride(d)>>, <<u, 0, 4>>>> \in Convolution(d, v, oy2, ox2)
      BY <2>5
    <3> HIDE DEF d, u, v
    <3>3. u = v /\ oy = oy2 /\ ox = ox2
      BY <2>4, <3>1, <3>2, MiddleTells
    <3> QED BY <3>3 DEF u, v
  <2>7. RowOf(cfg, q) = RowOf(cfg, p)
    <3>1. RowOf(cfg, q) \in Nat /\ RowOf(cfg, p) \in Nat
      BY <2>4, PlaceIs
    <3> QED BY <2>1, <2>6, <3>1 DEF oy, oy2
  <2>8. /\ cfg.ox0 + q = (RowOf(cfg, q) * cfg.d.ow) + ColOf(cfg, q)
        /\ cfg.ox0 + p = (RowOf(cfg, p) * cfg.d.ow) + ColOf(cfg, p)
    BY <2>4, PlaceIs
  <2>9. cfg.ox0 + q = cfg.ox0 + p
    BY <2>6, <2>7, <2>8 DEF ox, ox2
  <2>10. q = p /\ c = e
    <3>1. cfg.ox0 \in Nat
      BY <2>1
    <3> QED BY <2>1, <2>4, <2>6, <2>9, <3>1
  <2> QED BY <2>2, <2>3, <2>10
<1> QED BY <1>1 DEF NameOf

-----------------------------------------------------------------------------
\* The lanes.

\* What a step says, action by action.
LEMMA ActsAre ==
  ASSUME NEW c \in Int
  PROVE  /\ "ACC" \in Acts(c) <=> c \in {4, 20}
         /\ "BIAS" \in Acts(c) <=> c = 8
         /\ "PRE" \in Acts(c) <=> c = 9
         /\ "MUX" \in Acts(c) <=> c \in 10 .. 16
         /\ "MUL" \in Acts(c) <=> c \in 11 .. 16
         /\ "RND" \in Acts(c) <=> c = 17
         /\ "RES" \in Acts(c) <=> c = 18
         /\ "SH1" \in Acts(c) <=> c = 19
         /\ "SH2" \in Acts(c) <=> c = 20
BY DEF Acts

\* A digit more of the product.
LEMMA AbsorbIs ==
  ASSUME NEW i \in Nat, NEW ch \in Nat, NEW n \in 0 .. 5, NEW ps,
         ps = IF n = 0 THEN Nought
              ELSE [a |-> <<i, ch>>, m |-> ch, digits |-> n, rnd |-> None]
  PROVE  Absorb(ps, [a |-> <<i, ch>>, m |-> ch, digit |-> n])
           = [a |-> <<i, ch>>, m |-> ch, digits |-> n + 1, rnd |-> None]
<1> DEFINE pp == [a |-> <<i, ch>>, m |-> ch, digit |-> n]
<1>1. pp \in [a : Nat \X Nat, m : Nat, digit : 0 .. 5]
  OBVIOUS
<1>2. pp # Garbled
  BY <1>1, MarkAssumption
<1>3. ps \in [a : (Nat \X Nat) \cup {None}, m : Nat \cup {None}, digits : 0 .. 6,
              rnd : Nat \cup {None}]
  BY DEF Nought
<1>4. ps # Garbled
  BY <1>3, MarkAssumption
<1>5. ps.digits = n /\ ps.rnd = None /\ (n # 0 => ps.a = <<i, ch>> /\ ps.m = ch)
  BY DEF Nought
<1>6. pp.digit = n /\ pp.a = <<i, ch>> /\ pp.m = ch
  OBVIOUS
<1> HIDE DEF pp
<1>7. Absorb(ps, pp) = [ps EXCEPT !.a = pp.a, !.m = pp.m, !.digits = @ + 1]
  BY <1>2, <1>4, <1>5, <1>6 DEF Absorb
<1> DEFINE q == [ps EXCEPT !.a = pp.a, !.m = pp.m, !.digits = @ + 1]
<1>8. /\ IsRecord(q, {"a", "m", "digits", "rnd"})
      /\ q.a = pp.a /\ q.m = pp.m /\ q.digits = ps.digits + 1 /\ q.rnd = ps.rnd
  <2>1. IsRecord(ps, {"a", "m", "digits", "rnd"})
    BY <1>3 DEF IsRecord
  <2> QED BY <2>1 DEF IsRecord
<1>10. Absorb(ps, pp) = q
  BY <1>7
<1> HIDE DEF q
<1>9. Absorb(ps, pp) = [a |-> <<i, ch>>, m |-> ch, digits |-> n + 1, rnd |-> None]
  BY <1>5, <1>6, <1>8, <1>10 DEF IsRecord
<1> QED BY <1>9 DEF pp

\* A lane told the step it is at is at the next one, if the sum, the parameters and the
\* shifts are there when it uses them.
LEMMA LaneStep ==
  ASSUME NEW x \in Int, NEW i \in Nat, ChannelOf(cfg, i) \in Nat, NEW l, LaneAt(l, x, i),
         x = 4 => NameOf(s2.accq[dwalk.j]) = i,
         x = 8 => Params(rq.par) = ChannelOf(cfg, i),
         x \in {17, 19} => rq.dec = ChannelOf(cfg, i),
         x \in {19, 20} => rq.s = ChannelOf(cfg, i)
  PROVE  LaneAt(NextLane(l, Acts(x)), x + 1, i)
<1> DEFINE ch == ChannelOf(cfg, i)
           n == NextLane(l, Acts(x))
           p == Product(i, 6, ch)
           e == Acts(x)
<1>1. /\ "ACC" \in e <=> x \in {4, 20}
      /\ "BIAS" \in e <=> x = 8
      /\ "PRE" \in e <=> x = 9
      /\ "MUX" \in e <=> x \in 10 .. 16
      /\ "MUL" \in e <=> x \in 11 .. 16
      /\ "RND" \in e <=> x = 17
      /\ "RES" \in e <=> x = 18
      /\ "SH1" \in e <=> x = 19
      /\ "SH2" \in e <=> x = 20
  BY ActsAre
<1>2. /\ n.asel = IF "ACC" \in e THEN NameOf(s2.accq[dwalk.j]) ELSE l.asel
      /\ n.a = IF "BIAS" \in e THEN <<l.asel, Params(rq.par)>> ELSE l.a
      /\ n.m = IF "MUX" \in e THEN [l.m EXCEPT !.digit = @ + 1]
               ELSE IF "BIAS" \in e THEN [of |-> Params(rq.par), digit |-> 0] ELSE l.m
      /\ n.odd = IF "BIAS" \notin e /\ "PRE" \in e THEN l.a ELSE l.odd
      /\ n.pp = IF "MUX" \notin e THEN l.pp
                ELSE IF l.odd = l.a THEN [a |-> l.a, m |-> l.m.of, digit |-> l.m.digit]
                ELSE Garbled
      /\ n.ps = IF "MUL" \in e THEN Absorb(l.ps, l.pp)
                ELSE IF "RND" \in e /\ l.ps # Garbled THEN [l.ps EXCEPT !.rnd = rq.dec]
                ELSE IF "BIAS" \in e THEN Nought ELSE l.ps
      /\ n.p = IF "RES" \in e /\ "MUL" \notin e /\ "RND" \notin e THEN l.ps ELSE l.p
      /\ n.sh1 = IF "SH1" \in e THEN <<l.p, rq.s, rq.dec>> ELSE l.sh1
      /\ n.code = IF "SH2" \in e THEN <<l.sh1, rq.s>> ELSE l.code
  <2> HIDE DEF e
  <2>1. n = NextLane(l, e)
    BY DEF e
  <2> HIDE DEF n
  <2> QED BY <2>1, Zenon DEF NextLane
<1> HIDE DEF n, e
<1>3. /\ x \in 5 .. 8 => l.asel = i
      /\ x \in 9 .. 16 => l.a = <<i, ch>> /\ l.m = [of |-> ch, digit |-> IF x = 9 THEN 0 ELSE x - 10]
      /\ x \in 10 .. 16 => l.odd = <<i, ch>>
      /\ x \in 11 .. 16 => l.pp = [a |-> <<i, ch>>, m |-> ch, digit |-> x - 11]
      /\ x \in 9 .. 11 => l.ps = Nought
      /\ x \in 12 .. 17 => l.ps = Product(i, x - 11, None)
      /\ x = 18 => l.ps = p
      /\ x = 19 => l.p = p
      /\ x = 20 => l.sh1 = <<p, ch, ch>>
      /\ x \in 21 .. 22 => l.code = Code(i)
  BY Zenon DEF LaneAt, OfSum
<1>4. x + 1 \in 5 .. 8 => n.asel = i
  BY <1>1, <1>2, <1>3
<1>5. x + 1 \in 9 .. 16 => n.a = <<i, ch>>
  BY <1>1, <1>2, <1>3
<1>6. x + 1 \in 9 .. 16 => n.m = [of |-> ch, digit |-> IF x + 1 = 9 THEN 0 ELSE (x + 1) - 10]
  <2>1. CASE x = 8
    BY <1>1, <1>2, <2>1
  <2>2. CASE x = 9
    BY <1>1, <1>2, <1>3, <2>2
  <2>3. CASE x \in 10 .. 15
    <3>1. n.m = [l.m EXCEPT !.digit = @ + 1] /\ l.m = [of |-> ch, digit |-> x - 10]
      BY <1>1, <1>2, <1>3, <2>3
    <3> QED BY <2>3, <3>1
  <2> QED BY <2>1, <2>2, <2>3
<1>7. x + 1 \in 10 .. 16 => n.odd = <<i, ch>>
  BY <1>1, <1>2, <1>3
<1>8. x + 1 \in 11 .. 16 => n.pp = [a |-> <<i, ch>>, m |-> ch, digit |-> (x + 1) - 11]
  <2> SUFFICES ASSUME x \in 10 .. 15
               PROVE  n.pp = [a |-> <<i, ch>>, m |-> ch, digit |-> (x + 1) - 11]
    OBVIOUS
  <2>1. n.pp = [a |-> l.a, m |-> l.m.of, digit |-> l.m.digit]
    BY <1>1, <1>2, <1>3
  <2>2. l.a = <<i, ch>> /\ l.m = [of |-> ch, digit |-> x - 10]
    BY <1>3
  <2>3. (x + 1) - 11 = x - 10
    OBVIOUS
  <2> QED BY <2>1, <2>2, <2>3
<1>9. x + 1 \in 9 .. 11 => n.ps = Nought
  BY <1>1, <1>2, <1>3
<1>10. x + 1 \in 12 .. 17 => n.ps = Product(i, (x + 1) - 11, None)
  <2> SUFFICES ASSUME x \in 11 .. 16 PROVE n.ps = Product(i, (x + 1) - 11, None)
    OBVIOUS
  <2>1. n.ps = Absorb(l.ps, l.pp)
    BY <1>1, <1>2
  <2>2. PICK k \in 0 .. 5 : k = x - 11 /\ k + 1 = (x + 1) - 11
    OBVIOUS
  <2>3. l.pp = [a |-> <<i, ch>>, m |-> ch, digit |-> k]
    BY <1>3, <2>2
  <2>4. l.ps = IF k = 0 THEN Nought
               ELSE [a |-> <<i, ch>>, m |-> ch, digits |-> k, rnd |-> None]
    BY <1>3, <2>2 DEF Product, OfSum
  <2>5. Absorb(l.ps, l.pp) = [a |-> <<i, ch>>, m |-> ch, digits |-> k + 1, rnd |-> None]
    <3> DEFINE ps == l.ps
               pp == l.pp
    <3>1. ch \in Nat
      OBVIOUS
    <3>2. /\ pp = [a |-> <<i, ch>>, m |-> ch, digit |-> k]
          /\ ps = IF k = 0 THEN Nought
                  ELSE [a |-> <<i, ch>>, m |-> ch, digits |-> k, rnd |-> None]
      BY <2>3, <2>4
    <3> HIDE DEF ch, ps, pp
    <3>3. Absorb(ps, [a |-> <<i, ch>>, m |-> ch, digit |-> k])
            = [a |-> <<i, ch>>, m |-> ch, digits |-> k + 1, rnd |-> None]
      BY <3>1, <3>2, AbsorbIs
    <3>4. Absorb(ps, pp) = [a |-> <<i, ch>>, m |-> ch, digits |-> k + 1, rnd |-> None]
      BY <3>2, <3>3
    <3> QED BY <3>4 DEF ps, pp
  <2> QED BY <2>1, <2>2, <2>5 DEF Product, OfSum
<1>11. x + 1 = 18 => n.ps = p
  <2> SUFFICES ASSUME x = 17 PROVE n.ps = p
    OBVIOUS
  <2>1. l.ps = [a |-> <<i, ch>>, m |-> ch, digits |-> 6, rnd |-> None] /\ rq.dec = ch
    BY <1>3 DEF Product, OfSum
  <2>2. l.ps \in [a : (Nat \X Nat) \cup {None}, m : Nat \cup {None}, digits : 0 .. 6,
                  rnd : Nat \cup {None}]
    BY <2>1
  <2>3. l.ps # Garbled
    BY <2>2, MarkAssumption
  <2>4. n.ps = [l.ps EXCEPT !.rnd = rq.dec]
    BY <1>1, <1>2, <2>3
  <2> QED BY <2>1, <2>4 DEF Product, OfSum
<1>12. x + 1 = 19 => n.p = p
  BY <1>1, <1>2, <1>3
<1>13. x + 1 = 20 => n.sh1 = <<p, ch, ch>>
  BY <1>1, <1>2, <1>3
<1>14. x + 1 \in 21 .. 22 => n.code = Code(i)
  <2>1. Code(i) = <<<<p, ch, ch>>, ch>>
    BY DEF Code, Product, OfSum
  <2> QED BY <1>1, <1>2, <1>3, <2>1
<1>15. LaneAt(n, x + 1, i)
  BY <1>4, <1>5, <1>6, <1>7, <1>8, <1>9, <1>10, <1>11, <1>12, <1>13, <1>14 DEF LaneAt, OfSum
<1> QED BY <1>15 DEF n

\* A lane that is told nothing stays as it is.
LEMMA LaneStays ==
  ASSUME NEW x, NEW y \in 21 .. 22, NEW i, NEW l, LaneAt(l, x, i)
  PROVE  LaneAt(NextLane(l, Acts(y)), x, i) /\ NextLane(l, Acts(y)).asel = l.asel
<1> DEFINE n == NextLane(l, Acts(y))
           e == Acts(y)
<1>1. \A a \in {"ACC", "BIAS", "PRE", "MUX", "MUL", "RND", "RES", "SH1", "SH2"} : a \notin e
  BY DEF Acts
<1>2. /\ n.asel = l.asel /\ n.a = l.a /\ n.m = l.m /\ n.odd = l.odd /\ n.pp = l.pp
      /\ n.ps = l.ps /\ n.p = l.p /\ n.sh1 = l.sh1 /\ n.code = l.code
  <2> HIDE DEF e
  <2>1. n = NextLane(l, e)
    BY DEF e
  <2> HIDE DEF n
  <2> QED BY <1>1, <2>1 DEF NextLane
<1> HIDE DEF n, e
<1>3. LaneAt(n, x, i)
  BY <1>2 DEF LaneAt
<1> QED BY <1>2, <1>3 DEF n

-----------------------------------------------------------------------------
\* The words the serializer has.

\* What a word is wanted to be does not change under a readout.
LEMMA WantedStays ==
  ASSUME cfg' = cfg
  PROVE  \A i : Wanted(i)' = Wanted(i) /\ Code(i)' = Code(i) /\ ChannelOf(cfg, i)' = ChannelOf(cfg, i)
BY DEF Wanted, Code, ChannelOf

\* The word it has and the last it sent.
LEMMA LinkHas ==
  ASSUME ShapeInv, pulse # "drain", link' = NextLink, link.on
  PROVE  /\ link'.word = IF out.valid /\ ~link.dv THEN out.dout ELSE link.word
         /\ link'.last = IF ~(link.n > 1) /\ link.have THEN link.word ELSE link.last
<1> DEFINE rise == out.valid /\ ~link.dv
<1> DEFINE l == [link EXCEPT !.dv = out.valid, !.rdy = FALSE,
                             !.word = IF rise THEN out.dout ELSE @, !.have = @ \/ rise]
<1>1. /\ l.word = (IF rise THEN out.dout ELSE link.word) /\ l.last = link.last
      /\ IsRecord(l, {"on", "n", "dv", "rdy", "word", "have", "sent", "last", "under"})
  BY DEF ShapeInv, IsRecord
<1>2. link' = IF link.n > 1 THEN [l EXCEPT !.n = @ - 1]
              ELSE IF link.have
              THEN [l EXCEPT !.n = WordClocks, !.have = rise, !.rdy = TRUE, !.sent = @ + 1,
                             !.last = link.word]
              ELSE [l EXCEPT !.on = FALSE, !.under = Busy \/ link.sent = 0]
  BY DEF NextLink
<1> HIDE DEF l
<1>3. CASE link.n > 1
  BY <1>1, <1>2, <1>3 DEF IsRecord
<1>4. CASE ~(link.n > 1) /\ link.have
  BY <1>1, <1>2, <1>4 DEF IsRecord
<1>5. CASE ~(link.n > 1) /\ ~link.have
  BY <1>1, <1>2, <1>5 DEF IsRecord
<1> QED BY <1>3, <1>4, <1>5

\* The words stay the right ones, if the tile offers the next as it is to.
LEMMA LinkStep ==
  ASSUME TileInv, Clock, LinkWords, state = "DWAIT" /\ state' = "DHOLD" => out'.dout = Wanted(link.sent)
  PROVE  LinkWords'
<1> SUFFICES ASSUME link'.on
             PROVE  /\ link'.have => link'.word = Wanted(link'.sent)
                    /\ link'.sent > 0 => link'.last = Wanted(link'.sent - 1)
                    /\ state' = "DHOLD" => out'.dout = Wanted(link'.sent - Bit(link'.rdy))
  <2>1. \A i : Wanted(i)' = Wanted(i)
    BY ClockAlways, WantedStays
  <2> QED BY <2>1 DEF LinkWords
<1>1. ShapeInv /\ link' = NextLink /\ state' = NextState /\ Readout
  BY ClockAlways DEF TileInv, Clock
<1>2. CASE pulse = "drain"
  <2>1. ~link'.have /\ link'.sent = 0
    BY <1>1, <1>2, LinkStarts
  <2>2. state' = "DISS"
    BY <1>1, <1>2, StateIs DEF TileInv, ReadInv
  <2> QED BY <2>1, <2>2
<1>3. CASE pulse # "drain" /\ ~link.on
  BY <1>1, <1>3, LinkIs
<1>4. ASSUME pulse # "drain", link.on
      PROVE  /\ link.have => link.word = Wanted(link.sent)
             /\ link.sent > 0 => link.last = Wanted(link.sent - 1)
             /\ state = "DHOLD" => out.dout = Wanted(link.sent - Bit(link.rdy))
             /\ link.n \in Nat /\ link.sent \in Nat
             /\ link'.word = IF out.valid /\ ~link.dv THEN out.dout ELSE link.word
             /\ link'.last = IF ~(link.n > 1) /\ link.have THEN link.word ELSE link.last
             /\ pulse = None
  BY <1>1, <1>4, LinkHas DEF LinkWords, TileInv, ReadInv
<1>5. CASE pulse # "drain" /\ link.on /\ state = "IDLE"
  <2>1. ~out.valid /\ ~link.have
    BY <1>5 DEF TileInv, ReadInv
  <2>2. link.n > 1
    BY <1>1, <1>5, <2>1, LinkIs
  <2>3. ~link'.have /\ link'.sent = link.sent
    BY <1>1, <1>5, <2>1, <2>2, LinkIs
  <2>4. state' = "IDLE"
    BY <1>1, <1>4, <1>5, Constants, StateIs
  <2> QED BY <1>4, <1>5, <2>2, <2>3, <2>4
<1>6. CASE state \in {"DISS", "DWAIT"}
  <2>1. Awaited(3) /\ pulse # "drain" /\ link.on
    <3>1. Draining
      BY <1>6 DEF Draining
    <3>2. cfg.rq => Awaited(3)
      BY <1>6, <3>1 DEF TileInv, QuantInv
    <3>3. ~cfg.rq => Awaited(3)
      BY <1>6, <3>1, InReadout DEF TileInv, PlainInv, Awaited
    <3> QED BY <1>6, <3>2, <3>3, InReadout
  <2>2. link.n > 1 /\ link.n \in Nat /\ ~out.valid /\ ~link.have
    BY <1>4, <2>1 DEF Awaited
  <2>3. ~link'.rdy /\ ~link'.have /\ link'.sent = link.sent
    BY <1>6, <2>2, LinkCounts
  <2>4. state' = "DHOLD" => state = "DWAIT"
    BY <1>1, <1>6, StateIs
  <2> QED BY <1>4, <2>1, <2>2, <2>3, <2>4 DEF Bit
<1>7. CASE state = "DHOLD"
  <2>1. (Offered \/ Accepted) /\ pulse # "drain" /\ link.on
    <3>1. Draining
      BY <1>7 DEF Draining
    <3>2. cfg.rq => Offered \/ Accepted
      BY <1>7, <3>1 DEF TileInv, QuantInv
    <3>3. ~cfg.rq => Offered \/ Accepted
      BY <1>7, <3>1 DEF TileInv, PlainInv
    <3> QED BY <1>7, <3>2, <3>3, InReadout
  <2>2. CASE Offered /\ link.n > 1
    <3>1. out.valid /\ ~link.rdy
      BY <2>2 DEF Offered
    <3>2. ~link'.rdy /\ link'.sent = link.sent /\ (link'.have <=> link.have \/ (out.valid /\ ~link.dv))
      BY <1>7, <2>2, LinkCounts
    <3>3. out' = out
      BY <1>1, <1>7, <3>1, OutIs
    <3>4. out.dout = Wanted(link.sent)
      BY <1>4, <1>7, <2>1, <3>1 DEF Bit
    <3> QED BY <1>4, <2>1, <2>2, <3>1, <3>2, <3>3, <3>4 DEF Bit
  <2>3. CASE Offered /\ ~(link.n > 1)
    <3>1. out.valid /\ ~link.rdy /\ link.have /\ link.dv
      BY <1>4, <2>1, <2>3 DEF Offered
    <3>2. link'.rdy /\ ~link'.have /\ link'.sent = link.sent + 1
      BY <1>7, <2>3, <3>1, LinkTakes
    <3>3. out' = out
      BY <1>1, <1>7, <3>1, OutIs
    <3>4. out.dout = Wanted(link.sent) /\ link.word = Wanted(link.sent)
      BY <1>4, <1>7, <2>1, <3>1 DEF Bit
    <3>5. link'.sent - 1 = link.sent
      BY <1>4, <2>1, <3>2
    <3> QED BY <1>4, <2>1, <2>3, <3>1, <3>2, <3>3, <3>4, <3>5 DEF Bit
  <2>4. CASE Accepted
    <3>1. link.rdy /\ link.dv /\ ~link.have /\ link.n > 1
      BY <2>4 DEF Accepted, WordClocks
    <3>2. ~link'.rdy /\ ~link'.have /\ link'.sent = link.sent
      BY <1>7, <3>1, LinkCounts
    <3>3. state' # "DHOLD"
      BY <1>1, <1>7, <3>1, StateIs
    <3> QED BY <1>4, <2>1, <3>1, <3>2, <3>3
  <2> QED BY <2>1, <2>2, <2>3, <2>4
<1> QED BY <1>2, <1>3, <1>5, <1>6, <1>7 DEF TileInv, ReadInv

-----------------------------------------------------------------------------
\* The sums.

\* No clock of a readout writes an accumulator; the ones it starts with are golden.
LEMMA SumsStay ==
  ASSUME TileInv, DataInv, Clock, SumsHeld
  PROVE  /\ SumsHeld'
         /\ Draining => accram' = accram
<1>1. cfg' = cfg /\ state' = NextState /\ Pipeline
  BY ClockAlways DEF Clock
<1>2. ASSUME Draining \/ pulse = "drain"
      PROVE  accram' = accram /\ \A i \in Outputs : SumAt(i) = GoldenAcc(cfg, i)
  <2>1. ~Sweeping
    BY <1>2 DEF TileInv, ReadInv, Sweeping, Draining
  <2>2. ~s4.val
    BY <2>1, Quiet DEF DataInv
  <2>3. accram' = accram
    BY <1>1, <2>2 DEF Pipeline
  <2>4. CASE Draining
    BY <2>3, <2>4 DEF SumsHeld
  <2>5. CASE pulse = "drain"
    BY <2>3, <2>5, SumsAreGolden, Zenon DEF SumsAreTheConvolution, SumAt
  <2> QED BY <1>2, <2>4, <2>5
<1>3. Draining' => Draining \/ pulse = "drain"
  <2>1. state = "IDLE" /\ pulse # "drain" => state' \in {"IDLE", "LOAD"}
    BY <1>1, StateIs, Constants DEF TileInv, ReadInv
  <2>2. state \in {"LOAD", "SWEEP", "FLUSH"} => state' \in {"LOAD", "SWEEP", "FLUSH", "IDLE"}
    BY <1>1, StateIs
  <2> QED BY <2>1, <2>2 DEF TileInv, ReadInv, Draining
<1>4. SumsHeld'
  <2> SUFFICES ASSUME Draining', NEW i \in Outputs' PROVE SumAt(i)' = GoldenAcc(cfg', i)
    BY DEF SumsHeld
  <2>1. i \in Outputs /\ accram' = accram /\ SumAt(i) = GoldenAcc(cfg, i)
    BY <1>1, <1>2, <1>3 DEF Outputs
  <2> QED BY <1>1, <2>1 DEF SumAt
<1> QED BY <1>2, <1>4

\* Where the walk is, as an output and as a channel.
LEMMA WalkPlace ==
  ASSUME TileInv, Fits(cfg), InWalk, NEW p \in {dwalk.p, dwalk.p + 1}, p < cfg.P
  PROVE  LET c == (dwalk.g * NMAC) + dwalk.j
             i == (c * cfg.P) + p
         IN /\ i \in Outputs /\ i \div cfg.P = c /\ i % cfg.P = p
            /\ c \div NMAC = dwalk.g /\ c % NMAC = dwalk.j
            /\ c \in 0 .. ((cfg.QG * NMAC) - 1)
<1> DEFINE P == cfg.P
           G == cfg.QG
           g == dwalk.g
           j == dwalk.j
           c == (g * NMAC) + j
           C == G * NMAC
<1>1. /\ P \in Nat \ {0} /\ G \in Nat \ {0} /\ NMAC \in Nat \ {0} /\ cfg.nacc = P * (G * NMAC)
      /\ g \in 0 .. (G - 1) /\ j \in 0 .. (NMAC - 1) /\ p \in 0 .. (P - 1)
  BY Constants DEF Fits, InWalk, Lanes
<1> HIDE DEF P, G, g, j
<1>2. /\ c \in 0 .. ((G * NMAC) - 1) /\ c \div NMAC = g /\ c % NMAC = j
  BY <1>1, JoinOf
<1>3. C \in Nat \ {0}
  BY <1>1, Times
<1>4. c \in 0 .. (C - 1) /\ P * C = C * P
  BY <1>1, <1>2, <1>3, Times
<1>5. cfg.nacc = P * C
  BY <1>1
<1> HIDE DEF C, c
<1>6. /\ (c * P) + p \in 0 .. ((C * P) - 1)
      /\ ((c * P) + p) \div P = c /\ ((c * P) + p) % P = p
  BY <1>1, <1>3, <1>4, JoinOf
<1>7. (c * P) + p \in Outputs
  BY <1>4, <1>5, <1>6 DEF Outputs
<1> QED BY <1>2, <1>4, <1>6, <1>7 DEF c, C, P, G, g, j

\* The sums the walk reads are its output's and, of a pair, the next one's.
LEMMA WalkNames ==
  ASSUME TileInv, DataInv, TableInv, SumsHeld, CentresInside, Draining, InWalk, Addressed
  PROVE  /\ NameOf(accram[dwalk.addr][dwalk.j]) = WalkIndex
         /\ cfg.rq /\ dwalk.p % 2 = 0 => NameOf(accram[dwalk.addr2][dwalk.j]) = WalkIndex + 1
<1>1. host.do \in HasTable
  BY DEF TileInv, ReadInv, HasTable
<1>2. Fits(cfg) /\ Accepts(cfg) /\ (cfg.rq => cfg.P % 2 = 0)
  BY <1>1, CfgIs
<1>3. ASSUME NEW p \in {dwalk.p, dwalk.p + 1}, p < cfg.P
      PROVE  NameOf(accram[(p * cfg.QG) + dwalk.g][dwalk.j])
               = (((dwalk.g * NMAC) + dwalk.j) * cfg.P) + p
  <2> DEFINE c == (dwalk.g * NMAC) + dwalk.j
             i == (c * cfg.P) + p
  <2>1. /\ i \in Outputs /\ i \div cfg.P = c /\ i % cfg.P = p
        /\ c \div NMAC = dwalk.g /\ c % NMAC = dwalk.j
    BY <1>2, <1>3, WalkPlace
  <2> HIDE DEF c, i
  <2>2. SumAt(i) = accram[(p * cfg.QG) + dwalk.g][dwalk.j]
    BY <2>1, Zenon DEF SumAt
  <2>3. SumAt(i) = GoldenAcc(cfg, i)
    BY <2>1 DEF SumsHeld
  <2>4. NameOf(GoldenAcc(cfg, i)) = i
    BY <1>2, <2>1, NameIs
  <2> QED BY <2>2, <2>3, <2>4 DEF c, i
<1>4. dwalk.p \in 0 .. (cfg.P - 1) /\ cfg.P \in Nat \ {0}
  BY <1>2 DEF InWalk, Fits
<1>5. NameOf(accram[dwalk.addr][dwalk.j]) = WalkIndex
  <2>1. dwalk.p < cfg.P
    BY <1>4
  <2> QED BY <1>3, <2>1 DEF Addressed, WalkIndex
<1>6. ASSUME cfg.rq, dwalk.p % 2 = 0
      PROVE  NameOf(accram[dwalk.addr2][dwalk.j]) = WalkIndex + 1
  <2>1. dwalk.p + 1 < cfg.P
    BY <1>2, <1>4, <1>6
  <2> DEFINE c == (dwalk.g * NMAC) + dwalk.j
             y == c * cfg.P
  <2>2. NameOf(accram[((dwalk.p + 1) * cfg.QG) + dwalk.g][dwalk.j]) = y + (dwalk.p + 1)
    BY <1>3, <2>1
  <2>3. y \in Int
    <3> DEFINE P == cfg.P
               g == dwalk.g
               j == dwalk.j
               G == cfg.QG
    <3>1. G \in Nat /\ g \in 0 .. (G - 1) /\ j \in 0 .. (NMAC - 1) /\ NMAC \in Nat /\ P \in Nat
      BY <1>2, Constants DEF InWalk, Lanes, Fits
    <3> HIDE DEF P, g, j, G
    <3>2. (g * NMAC) + j \in Nat
      BY <3>1
    <3>3. ((g * NMAC) + j) * P \in Nat
      BY <3>1, <3>2
    <3> QED BY <3>3 DEF P, g, j
  <2>4. WalkIndex = y + dwalk.p
    BY Zenon DEF WalkIndex
  <2> HIDE DEF c, y
  <2>5. y + (dwalk.p + 1) = WalkIndex + 1
    BY <1>4, <2>3, <2>4
  <2> QED BY <1>6, <2>2, <2>5 DEF Addressed
<1> QED BY <1>5, <1>6

-----------------------------------------------------------------------------
\* The walk's addresses.

\* Stepped, and not over, it is at the accumulators of its place.
LEMMA AddressMoves ==
  ASSUME ShapeInv, Fits(cfg), cfg' = cfg, InWalk, Addressed, NEW n \in {1, 2},
         n = 2 => dwalk.p % 2 = 0 /\ cfg.P % 2 = 0, n = 1 => ~cfg.rq,
         NEW pp \in BOOLEAN, NEW jj \in BOOLEAN, NEW gg \in BOOLEAN,
         pp <=> dwalk.p = cfg.P - n, jj <=> LastJ, gg <=> LastG,
         dwalk' = DwalkNext(n, pp, jj, gg), ~(pp /\ jj /\ gg)
  PROVE  /\ Addressed'
         /\ (dwalk'.g * NMAC) + dwalk'.j = ((dwalk.g * NMAC) + dwalk.j) + Bit(pp)
<1> DEFINE P == cfg.P
           G == cfg.QG
           p == dwalk.p
           g == dwalk.g
           j == dwalk.j
<1>1. /\ P \in Nat \ {0} /\ G \in Nat \ {0} /\ NMAC \in Nat \ {0} /\ ADEPTH \in Nat \ {0}
      /\ p \in 0 .. (P - 1) /\ g \in 0 .. (G - 1) /\ j \in 0 .. (NMAC - 1)
      /\ P * G <= ADEPTH
  BY Constants, DeviceAssumption DEF Fits, InWalk, Lanes
<1>2. /\ dwalk.addr = (p * G) + g
      /\ cfg.rq => dwalk.addr2 = ((p + 1) * G) + g
  BY DEF Addressed
<1>3. ASSUME NEW x \in 0 .. (P - 1), NEW y \in 0 .. (G - 1)
      PROVE  ((x * G) + y) % ADEPTH = (x * G) + y
  <2> DEFINE a == (x * G) + y
  <2> HIDE DEF P, G
  <2>1. a \in 0 .. ((P * G) - 1) /\ P * G \in Nat
    BY <1>1, JoinOf, Times
  <2> DEFINE m == P * G
  <2> HIDE DEF a, m
  <2>2. a \in 0 .. (m - 1) /\ m \in Nat /\ m <= ADEPTH
    BY <1>1, <2>1 DEF m
  <2>3. a % ADEPTH = a
    BY <1>1, <2>2, Small
  <2> QED BY <2>3 DEF a
<1>4. n = 2 => P >= 2 /\ (~pp => p + 3 \in 0 .. (P - 1))
  BY <1>1
<1>5. ~pp => p + n \in 0 .. (P - 1)
  <2>1. CASE n = 1
    BY <1>1, <2>1
  <2>2. CASE n = 2
    BY <1>1, <1>4, <2>2
  <2> QED BY <2>1, <2>2
<1>6. cfg.rq => n = 2
  OBVIOUS
<1>7. CASE ~pp
  <2>1. /\ dwalk'.p = p + n /\ dwalk'.g = g /\ dwalk'.j = j
        /\ dwalk'.addr = (dwalk.addr + n * G) % ADEPTH
        /\ dwalk'.addr2 = (dwalk.addr2 + n * G) % ADEPTH
    BY <1>7 DEF DwalkNext, ShapeInv, IsRecord
  <2> HIDE DEF P, G, p, g, j
  <2>2. dwalk.addr + n * G = ((p + n) * G) + g
    <3>1. (p + n) * G = (p * G) + (n * G) /\ p * G \in Int /\ n * G \in Int
      BY <1>1, TimesTimes
    <3> QED BY <1>1, <1>2, <3>1
  <2>3. dwalk'.addr = ((p + n) * G) + g
    BY <1>3, <1>1, <1>5, <1>7, <2>1, <2>2
  <2>4. cfg.rq => dwalk'.addr2 = ((p + n + 1) * G) + g
    <3> SUFFICES ASSUME cfg.rq PROVE dwalk'.addr2 = ((p + n + 1) * G) + g
      OBVIOUS
    <3>1. ((p + 1) + n) * G = ((p + 1) * G) + (n * G) /\ (p + 1) * G \in Int /\ n * G \in Int
      BY <1>1, TimesTimes
    <3>2. p + n + 1 = (p + 1) + n /\ p + n + 1 \in 0 .. (P - 1)
      BY <1>1, <1>4, <1>6, <1>7
    <3>3. dwalk.addr2 + n * G = ((p + n + 1) * G) + g
      BY <1>1, <1>2, <3>1, <3>2
    <3> QED BY <1>3, <1>1, <2>1, <3>2, <3>3
  <2>5. Addressed'
    BY <2>1, <2>3, <2>4 DEF Addressed, G
  <2>6. (g * NMAC) + j \in Int
    <3>1. g * NMAC \in Int
      BY <1>1
    <3> QED BY <1>1, <3>1
  <2> QED BY <1>7, <2>1, <2>5, <2>6 DEF Bit, g, j
<1>8. CASE pp
  <2>1. /\ dwalk'.p = 0 /\ dwalk'.j = (IF jj THEN 0 ELSE j + 1)
        /\ dwalk'.g = (IF jj THEN g + 1 ELSE g)
        /\ dwalk'.addr = dwalk'.g /\ dwalk'.addr2 = (dwalk'.g + G) % ADEPTH
    <3>1. ~(jj /\ gg)
      BY <1>8
    <3>2. dwalk' = [p |-> 0, j |-> IF jj THEN 0 ELSE j + 1, g |-> IF jj THEN g + 1 ELSE g,
                    addr |-> IF jj THEN g + 1 ELSE g,
                    addr2 |-> ((IF jj THEN g + 1 ELSE g) + G) % ADEPTH]
      BY <1>8, <3>1 DEF DwalkNext
    <3> QED BY <3>2
  <2>2. dwalk'.g \in 0 .. (G - 1)
    <3>1. jj => g # G - 1
      BY <1>8 DEF LastG
    <3> HIDE DEF G, g
    <3> QED BY <1>1, <2>1, <3>1
  <2>3. cfg.rq => dwalk'.addr2 = (1 * G) + dwalk'.g
    <3> SUFFICES ASSUME cfg.rq PROVE dwalk'.addr2 = (1 * G) + dwalk'.g
      OBVIOUS
    <3>1. 1 \in 0 .. (P - 1)
      BY <1>1, <1>4, <1>6
    <3>2. ((1 * G) + dwalk'.g) % ADEPTH = (1 * G) + dwalk'.g
      BY <1>3, <2>2, <3>1
    <3>3. dwalk'.g + G = (1 * G) + dwalk'.g
      BY <1>1, <2>2
    <3> QED BY <2>1, <3>2, <3>3
  <2>4. Addressed'
    <3>1. dwalk'.addr = (0 * G) + dwalk'.g /\ 0 + 1 = 1
      BY <1>1, <2>1, <2>2
    <3> QED BY <2>1, <2>3, <3>1 DEF Addressed
  <2>5. (dwalk'.g * NMAC) + dwalk'.j = ((g * NMAC) + j) + 1
    <3> HIDE DEF G, g, j
    <3>1. CASE jj
      <4>1. j = NMAC - 1
        BY <3>1 DEF LastJ, j
      <4>2. (g + 1) * NMAC = (g * NMAC) + NMAC /\ g * NMAC \in Int
        BY <1>1, LapMore
      <4> QED BY <1>1, <2>1, <3>1, <4>1, <4>2
    <3>2. CASE ~jj
      <4>1. g * NMAC \in Int
        BY <1>1
      <4> QED BY <1>1, <2>1, <3>2, <4>1
    <3> QED BY <3>1, <3>2
  <2> QED BY <1>8, <2>4, <2>5 DEF Bit
<1> QED BY <1>7, <1>8

-----------------------------------------------------------------------------
\* A readout word by word.

\* A readout comes of a drain, or of a readout.
LEMMA DrainingBegins ==
  ASSUME TileInv, Clock, Draining'
  PROVE  cfg' = cfg /\ (Draining \/ (state = "IDLE" /\ pulse = "drain"))
<1>1. cfg' = cfg /\ state' = NextState
  BY ClockAlways DEF Clock
<1>2. state = "IDLE" /\ pulse # "drain" => state' \in {"IDLE", "LOAD"}
  BY <1>1, StateIs, Constants DEF TileInv, ReadInv
<1>3. state \in {"LOAD", "SWEEP", "FLUSH"} => state' \in {"LOAD", "SWEEP", "FLUSH", "IDLE"}
  BY <1>1, StateIs
<1> QED BY <1>1, <1>2, <1>3 DEF TileInv, ReadInv, Draining

\* It starts at the first position of the first channel.
LEMMA WalkStarts ==
  ASSUME TileInv, Clock, state = "IDLE", pulse = "drain"
  PROVE  /\ dwalk'.p = 0 /\ dwalk'.j = 0 /\ dwalk'.g = 0 /\ Addressed'
         /\ rq'.sec = FALSE /\ state' = "DISS" /\ cfg' = cfg
<1>1. cfg' = cfg /\ state' = "DISS"
  BY StateIs, ClockAlways DEF TileInv, ReadInv
<1>2. dwalk' = [p |-> 0, j |-> 0, g |-> 0, addr |-> 0, addr2 |-> cfg.QG]
  BY DEF Clock, Readout
<1>3. rq'.sec = (RqRun /\ rq.c + 1 \in {RQ_PSEL, RQ_SEL})
  BY DEF Clock, Engine
<1>4. ~RqRun
  BY DEF RqRun, Draining
<1>5. rq'.sec = FALSE
  BY <1>3, <1>4, Zenon
<1>6. cfg.QG \in Nat
  BY DEF TileInv, GeomInv
<1>7. Addressed'
  BY <1>1, <1>2, <1>6 DEF Addressed
<1> QED BY <1>1, <1>2, <1>5, <1>7

\* What the accumulators give is what the walk asked for.
LEMMA AccRead ==
  ASSUME TileInv, DataInv, SumsHeld, Clock, Draining
  PROVE  /\ s2'.accq = IF rq.sec THEN accram[dwalk.addr2] ELSE accram[dwalk.addr]
         /\ accram' = accram
<1>1. accram' = accram
  BY SumsStay
<1>2. s2'.accq = accram[AccRaddr]
  BY DEF Clock, Pipeline
<1> QED BY <1>1, <1>2 DEF AccRaddr

\* Word by word, a position's sum is read on the clock before it is wanted.
LEMMA PlainStep ==
  ASSUME TileInv, DataInv, TableInv, SumsHeld, CentresInside, Clock, PlainWords
  PROVE  /\ PlainWords'
         /\ ~cfg.rq /\ state = "DWAIT" => out'.dout = Wanted(link.sent)
<1>1. CASE state = "IDLE" /\ pulse = "drain"
  BY <1>1, WalkStarts DEF PlainWords
<1>2. CASE cfg.rq
  <2>1. cfg' = cfg
    BY ClockAlways
  <2> QED BY <1>2, <2>1 DEF PlainWords
<1>3. CASE ~Draining /\ ~(state = "IDLE" /\ pulse = "drain")
  BY <1>3, DrainingBegins DEF PlainWords, Draining
<1>4. CASE Draining /\ ~cfg.rq
  <2>1. state \in {"DISS", "DWAIT", "DHOLD"} /\ Addressed /\ ~rq.sec
        /\ (state = "DWAIT" => s2.accq = accram[dwalk.addr])
    BY <1>4 DEF PlainWords, Draining
  <2>2. InWalk /\ cfg' = cfg /\ ShapeInv /\ GeomInv /\ Readout
        /\ (state = "DWAIT" => link.sent = WalkIndex)
    BY <1>4, <2>1, InReadout DEF TileInv, PlainInv
  <2>3. ~rq'.sec
    <3>1. rq'.sec = (RqRun /\ rq.c + 1 \in {RQ_PSEL, RQ_SEL})
      BY DEF Clock, Engine
    <3> QED BY <1>4, <3>1 DEF RqRun
  <2>4. s2'.accq = accram[dwalk.addr] /\ accram' = accram
    BY <1>4, <2>1, AccRead
  <2>5. state' = "DWAIT" => state = "DISS"
    BY <1>4, <2>1, StateIs, ClockAlways
  <2>6. ~RqAdv
    BY <1>4 DEF RqAdv, RqRun, RqTake
  <2>7. /\ ~(state = "DHOLD" /\ link.rdy) => dwalk' = dwalk
        /\ state = "DHOLD" /\ link.rdy => dwalk' = DwalkNext(1, LastP, LastJ, LastG)
    BY <1>4, <2>1, <2>2, <2>6 DEF Readout
  <2>8. ~(state = "DHOLD" /\ link.rdy) => PlainWords'
    BY <2>1, <2>2, <2>3, <2>4, <2>5, <2>7 DEF PlainWords, Addressed
  <2>9. ASSUME state = "DHOLD", link.rdy PROVE PlainWords'
    <3>1. state' = IF LastP /\ LastJ /\ LastG THEN "IDLE" ELSE "DISS"
      BY <1>4, <2>9, StateIs, ClockAlways
    <3>2. CASE LastP /\ LastJ /\ LastG
      BY <3>1, <3>2 DEF PlainWords, Draining
    <3>3. CASE ~(LastP /\ LastJ /\ LastG)
      <4>1. host.do \in HasTable
        BY <1>4 DEF TileInv, ReadInv, HasTable
      <4>2. Fits(cfg)
        BY <4>1, CfgIs
      <4>3. LastP \in BOOLEAN /\ LastJ \in BOOLEAN /\ LastG \in BOOLEAN
            /\ (LastP <=> dwalk.p = cfg.P - 1)
        BY DEF LastP, LastJ, LastG
      <4> DEFINE pp == LastP
                 jj == LastJ
                 gg == LastG
      <4>4. /\ pp \in BOOLEAN /\ jj \in BOOLEAN /\ gg \in BOOLEAN
            /\ (pp <=> dwalk.p = cfg.P - 1) /\ (jj <=> LastJ) /\ (gg <=> LastG)
            /\ ~(pp /\ jj /\ gg) /\ dwalk' = DwalkNext(1, pp, jj, gg)
        BY <2>7, <2>9, <3>3, <4>3
      <4>5. 1 \in {1, 2}
        OBVIOUS
      <4> HIDE DEF pp, jj, gg
      <4>6. Addressed'
        BY <1>4, <2>1, <2>2, <4>2, <4>4, <4>5, AddressMoves
      <4> QED BY <2>3, <3>1, <3>3, <4>6 DEF PlainWords
    <3> QED BY <3>2, <3>3
  <2>10. ASSUME state = "DWAIT" PROVE out'.dout = Wanted(link.sent)
    <3>1. out' = [out EXCEPT !.dout = NameOf(s2.accq[dwalk.j]), !.valid = TRUE]
      BY <1>4, <2>2, <2>10 DEF Readout
    <3>2. out'.dout = NameOf(s2.accq[dwalk.j])
      BY <2>2, <3>1 DEF ShapeInv, IsRecord
    <3>3. NameOf(accram[dwalk.addr][dwalk.j]) = WalkIndex
      BY <1>4, <2>1, <2>2, WalkNames
    <3> QED BY <1>4, <2>1, <2>2, <2>10, <3>2, <3>3 DEF Wanted
  <2> QED BY <2>8, <2>9, <2>10
<1> QED BY <1>1, <1>2, <1>3, <1>4, ClockAlways DEF TileInv, GeomInv, ReadInv, Draining

-----------------------------------------------------------------------------
\* A readout pair by pair: the engine's schedule and its walk.

\* What a clock does to the rest of the engine.
LEMMA EngineMore ==
  ASSUME Engine, RqRun
  PROVE  /\ rq'.qb = IF RqAdv /\ rlast.pp THEN rq.qb + 6 ELSE rq.qb
         /\ rq'.newch <=> rq.c # 21 /\ (rq.newch \/ (RqAdv /\ rlast.pp))
         /\ rq'.ldq <=> RqLd
         /\ rq'.par = IF rq.ldq THEN SubSeq(rq.par, 2, 6) \o <<StripQ>> ELSE rq.par
         /\ rq'.s = IF rq.c = 8 THEN Params(rq.par) ELSE rq.s
         /\ rq'.dec = IF rq.c = 9 THEN rq.s ELSE rq.dec
         /\ rq'.e0 = Strobes(RqTake) /\ rq'.e1 = rq.e0
         /\ rq'.sec <=> rq.c + 1 \in {4, 20}
         /\ rq'.slot = IF RqTake
                       THEN [rq.slot EXCEPT ![rq.wsel] = <<lane[0].code, lane[1].code>>]
                       ELSE rq.slot
<1>1. state # "IDLE" /\ RqRun = TRUE
  BY DEF RqRun, Draining
<1>2. rq'.qb = IF RqAdv /\ rlast.pp THEN rq.qb + 6 ELSE rq.qb
  BY <1>1 DEF Engine
<1>3. rq'.newch <=> rq.c # 21 /\ (rq.newch \/ (RqAdv /\ rlast.pp))
  BY <1>1 DEF Engine, RQ_LAST
<1>4. rq'.ldq <=> RqLd
  BY <1>1 DEF Engine
<1>5. rq'.par = IF rq.ldq THEN SubSeq(rq.par, 2, 6) \o <<StripQ>> ELSE rq.par
  BY <1>1 DEF Engine
<1>6. /\ rq'.s = IF rq.c = 8 THEN Params(rq.par) ELSE rq.s
      /\ rq'.dec = IF rq.c = 9 THEN rq.s ELSE rq.dec
  BY <1>1 DEF Engine, RQ_BIAS, RQ_PRE
<1>7. rq'.e0 = Strobes(RqTake) /\ rq'.e1 = rq.e0
  BY <1>1 DEF Engine
<1>8. rq'.sec <=> rq.c + 1 \in {4, 20}
  BY <1>1 DEF Engine, RQ_PSEL, RQ_SEL
<1>9. rq'.slot = IF RqTake
                 THEN [rq.slot EXCEPT ![rq.wsel] = <<lane[0].code, lane[1].code>>]
                 ELSE rq.slot
  BY <1>1 DEF Engine
<1> QED BY <1>2, <1>3, <1>4, <1>5, <1>6, <1>7, <1>8, <1>9

\* The schedule's next step.
LEMMA StepIs ==
  ASSUME TileInv, Clock, Draining, cfg.rq
  PROVE  /\ rq.c \in 0 .. 22 /\ rq'.c \in 0 .. 22 /\ RqTake \in BOOLEAN
         /\ RqTake => rq.c = 22 /\ rq'.c = 8
         /\ ~RqTake => rq'.c = IF rq.c # 22 THEN rq.c + 1 ELSE 22
         /\ RqAdv <=> rq.c = 6 \/ RqTake
<1>1. /\ rq.c \in 0 .. 22 /\ (rq.done <=> rq.c = 22) /\ BufferInv /\ RqRun
      /\ RqAdv <=> rq.c = 6 \/ RqTake
  BY InQuant
<1>2. RqTake => rq.c = 22
  BY <1>1, TakeIs
<1>3. rq'.c = IF RqTake THEN 8 ELSE IF rq.c # 22 THEN rq.c + 1 ELSE rq.c
  BY InQuant, EngineIs DEF RQ_BIAS, RQ_DONE
<1>4. RqTake \in BOOLEAN
  BY <1>1, PaceIs
<1> QED BY <1>1, <1>2, <1>3, <1>4

\* The actions there are.
Actions == {"ACC", "BIAS", "PRE", "MUX", "MUL", "RND", "RES", "SH1", "SH2"}

\* Two sets of them are one if they have the same ones.
LEMMA SameActions ==
  ASSUME NEW s, NEW a, s \subseteq Actions, a \subseteq Actions,
         \A e \in Actions : e \in s <=> e \in a
  PROVE  s = a
<1>1. \A x : x \in s <=> x \in a
  OBVIOUS
<1> QED BY <1>1, Zenon

\* What the lanes are told goes with the step.
LEMMA StrobesAre ==
  ASSUME RqRun, rq.c \in 0 .. 22, RqTake => rq.c = 22
  PROVE  Strobes(RqTake) = IF RqTake THEN Acts(8) ELSE Acts(rq.c + 1)
<1> DEFINE c == rq.c + 1
           s == Strobes(RqTake)
           k == IF RqTake THEN 8 ELSE c
<1>1. c \in 1 .. 23 /\ (RqTake => c = 23)
  OBVIOUS
<1>2. s \subseteq Actions
  BY Zenon DEF Strobes, Actions
<1>3. \A e \in Actions : e \in s <=>
        CASE e = "ACC"  -> c \in {RQ_PSEL, RQ_SEL}
          [] e = "BIAS" -> c = RQ_BIAS \/ RqTake
          [] e = "PRE"  -> c = RQ_PRE
          [] e = "MUX"  -> c \in RQ_MUX0 .. (RQ_RND - 1)
          [] e = "MUL"  -> c \in RQ_MUL0 .. (RQ_RND - 1)
          [] e = "RND"  -> c = RQ_RND
          [] e = "RES"  -> c = RQ_RES
          [] e = "SH1"  -> c = RQ_SH1
          [] e = "SH2"  -> c = RQ_SH2
  BY Zenon DEF Strobes, Actions
<1> HIDE DEF s, c
<1>4. /\ "ACC" \in s <=> c \in {4, 20}
      /\ "BIAS" \in s <=> c = 8 \/ RqTake
      /\ "PRE" \in s <=> c = 9
      /\ "MUX" \in s <=> c \in 10 .. 16
      /\ "MUL" \in s <=> c \in 11 .. 16
      /\ "RND" \in s <=> c = 17
      /\ "RES" \in s <=> c = 18
      /\ "SH1" \in s <=> c = 19
      /\ "SH2" \in s <=> c = 20
  BY <1>3 DEF Actions, RQ_PSEL, RQ_SEL, RQ_BIAS, RQ_PRE, RQ_MUX0, RQ_MUL0, RQ_RND, RQ_RES,
              RQ_SH1, RQ_SH2
<1>5. /\ "ACC" \in Acts(k) <=> k \in {4, 20}
      /\ "BIAS" \in Acts(k) <=> k = 8
      /\ "PRE" \in Acts(k) <=> k = 9
      /\ "MUX" \in Acts(k) <=> k \in 10 .. 16
      /\ "MUL" \in Acts(k) <=> k \in 11 .. 16
      /\ "RND" \in Acts(k) <=> k = 17
      /\ "RES" \in Acts(k) <=> k = 18
      /\ "SH1" \in Acts(k) <=> k = 19
      /\ "SH2" \in Acts(k) <=> k = 20
  <2>1. k \in Int
    BY <1>1
  <2> HIDE DEF k
  <2> QED BY <2>1, ActsAre
<1>6. Acts(k) \subseteq Actions
  BY DEF Acts, Actions
<1>7. s = Acts(k)
  <2> DEFINE a == Acts(k)
  <2>1. a \subseteq Actions
    BY <1>6
  <2>2. \A e \in Actions : e \in s <=> e \in a
    <3>1. (RqTake => k = 8 /\ c = 23) /\ (~RqTake => k = c)
      BY <1>1
    <3> HIDE DEF k
    <3> QED BY <1>4, <1>5, <3>1 DEF Actions
  <2> HIDE DEF a
  <2>3. s = a
    BY <1>2, <2>1, <2>2, SameActions
  <2> QED BY <2>3 DEF a
<1> QED BY <1>7 DEF s, c

\* The lanes are told each step's doing on the clock of that step, the second one later.
LEMMA ToldStep ==
  ASSUME TileInv, Clock, Draining, cfg.rq, ToldInv
  PROVE  ToldInv'
<1>1. /\ rq.c \in 0 .. 22 /\ rq'.c \in 0 .. 22
      /\ RqTake => rq.c = 22 /\ rq'.c = 8
      /\ ~RqTake => rq'.c = IF rq.c # 22 THEN rq.c + 1 ELSE 22
  BY StepIs
<1>2. /\ rq'.e0 = Strobes(RqTake) /\ rq'.e1 = rq.e0
      /\ rq'.sec <=> rq.c + 1 \in {4, 20}
      /\ Strobes(RqTake) = IF RqTake THEN Acts(8) ELSE Acts(rq.c + 1)
  BY <1>1, InQuant, EngineMore, StrobesAre
<1>3. Acts(7) = {} /\ Acts(21) = {} /\ Acts(22) = {} /\ Acts(23) = {}
  BY DEF Acts
<1>4. rq.e0 = Acts(rq.c)
  BY DEF ToldInv
<1>5. rq'.e0 = Acts(rq'.c)
  <2>1. CASE RqTake
    BY <1>1, <1>2, <2>1
  <2>2. CASE ~RqTake /\ rq.c # 22
    BY <1>1, <1>2, <2>2
  <2>3. CASE ~RqTake /\ rq.c = 22
    BY <1>1, <1>2, <1>3, <2>3
  <2> QED BY <2>1, <2>2, <2>3
<1>6. rq'.c > 0 => rq'.e1 = Acts(rq'.c - 1)
  <2>1. CASE RqTake
    BY <1>1, <1>2, <1>3, <1>4, <2>1
  <2>2. CASE ~RqTake /\ rq.c # 22
    <3>1. rq'.c - 1 = rq.c
      BY <1>1, <2>2
    <3> QED BY <1>2, <1>4, <3>1
  <2>3. CASE ~RqTake /\ rq.c = 22
    BY <1>1, <1>2, <1>3, <1>4, <2>3
  <2> QED BY <2>1, <2>2, <2>3
<1>7. rq'.sec <=> rq'.c \in {4, 20}
  BY <1>1, <1>2
<1>8. \A c : Acts(c)' = Acts(c)
  BY DEF Acts
<1> QED BY <1>5, <1>6, <1>7 DEF ToldInv, Acts

\* The engine's walk, stepped or not, is where its sums and its parameters are.
LEMMA WalkReadsStep ==
  ASSUME TileInv, DataInv, TableInv, SumsHeld, Clock, Draining, cfg.rq, ToldInv,
         NEW i \in Nat, NamesPair(i), WalkReadsAt(i)
  PROVE  /\ ~RqAdv => WalkReadsAt(i)'
         /\ RqAdv /\ i < cfg.nacc /\ (rq.c = 6 \/ rq.c = 22) => WalkReadsAt(i + 2)'
<1>1. host.do \in HasTable
  BY DEF TileInv, ReadInv, HasTable
<1>2. Fits(cfg) /\ cfg.P % 2 = 0 /\ cfg' = cfg /\ ShapeInv /\ cfg.nacc \in Nat
  BY <1>1, CfgIs, ClockAlways, NaccIs DEF TileInv, GeomInv
<1>3. /\ rq.c \in 0 .. 22 /\ RqTake \in BOOLEAN /\ (RqTake => rq.c = 22 /\ rq'.c = 8)
      /\ ~RqTake => rq'.c = IF rq.c # 22 THEN rq.c + 1 ELSE 22
      /\ RqAdv <=> rq.c = 6 \/ RqTake
  BY StepIs
<1>4. /\ dwalk' = IF RqAdv THEN DwalkNext(2, rlast.pp, rlast.j, rlast.g) ELSE dwalk
      /\ rq'.end_c = IF RqAdv THEN rlast.pp /\ rlast.j /\ rlast.g ELSE rq.end_c
      /\ rq'.qb = IF RqAdv /\ rlast.pp THEN rq.qb + 6 ELSE rq.qb
  BY InQuant, EngineIs, EngineMore
<1>5. /\ s2'.accq = IF rq.c \in {4, 20} THEN accram[dwalk.addr2] ELSE accram[dwalk.addr]
      /\ accram' = accram
  BY AccRead DEF ToldInv
<1>6. ASSUME ~RqAdv, i < cfg.nacc
      PROVE  WalkReadsAt(i)'
  <2>1. Addressed /\ rq.qb = RQBASE + 6 * ((dwalk.g * NMAC) + dwalk.j)
    BY <1>6 DEF WalkReadsAt
  <2>2. dwalk' = dwalk /\ rq'.qb = rq.qb
    BY <1>4, <1>6
  <2>3. Addressed'
    BY <1>2, <2>1, <2>2 DEF Addressed
  <2>4. rq'.c \in {4, 20} => s2'.accq = accram'[dwalk'.addr]
    BY <1>3, <1>5, <1>6, <2>2
  <2>5. rq'.c \in {5, 21} => s2'.accq = accram'[dwalk'.addr2]
    BY <1>3, <1>5, <1>6, <2>2
  <2> QED BY <2>1, <2>2, <2>3, <2>4, <2>5 DEF WalkReadsAt
<1>7. ASSUME RqAdv, i + 2 < cfg.nacc, rq.c = 6 \/ rq.c = 22
      PROVE  WalkReadsAt(i + 2)'
  <2>1. i < cfg.nacc
    BY <1>2, <1>7
  <2>2. Addressed /\ rq.qb = RQBASE + 6 * ((dwalk.g * NMAC) + dwalk.j)
    BY <2>1 DEF WalkReadsAt
  <2>3. /\ InWalk /\ dwalk.p % 2 = 0
        /\ rlast.pp <=> dwalk.p = cfg.P - 2
        /\ rlast.j <=> LastJ
        /\ rlast.g <=> LastG
    BY <1>7, <2>1 DEF NamesPair, RQ_PADV, RQ_BIAS
  <2>4. ~(rlast.pp /\ rlast.j /\ rlast.g)
    <3>1. rq'.end_c <=> i + 2 = cfg.nacc
      BY <1>7, <2>1, NameStep
    <3>2. rq'.end_c = (rlast.pp /\ rlast.j /\ rlast.g)
      BY <1>4, <1>7
    <3>3. ~rq'.end_c
      BY <1>2, <1>7, <3>1
    <3> QED BY <3>2, <3>3, Zenon
  <2> DEFINE pp == dwalk.p = cfg.P - 2
             jj == LastJ
             gg == LastG
  <2>5. /\ pp \in BOOLEAN /\ jj \in BOOLEAN /\ gg \in BOOLEAN
        /\ (pp <=> dwalk.p = cfg.P - 2) /\ (jj <=> LastJ) /\ (gg <=> LastG)
    BY DEF LastJ, LastG
  <2>6. (rlast.pp <=> pp) /\ (rlast.j <=> jj) /\ (rlast.g <=> gg)
    BY <2>3
  <2>7. 2 \in {1, 2}
    OBVIOUS
  <2> HIDE DEF pp, jj, gg
  <2>8. dwalk' = DwalkNext(2, pp, jj, gg) /\ ~(pp /\ jj /\ gg)
    BY <1>4, <1>7, <2>4, <2>6 DEF DwalkNext
  <2>9. /\ Addressed'
        /\ (dwalk'.g * NMAC) + dwalk'.j = ((dwalk.g * NMAC) + dwalk.j) + Bit(pp)
    BY <1>2, <2>2, <2>3, <2>5, <2>7, <2>8, AddressMoves
  <2>10. rq'.qb = RQBASE + 6 * ((dwalk'.g * NMAC) + dwalk'.j)
    <3> DEFINE x == (dwalk.g * NMAC) + dwalk.j
    <3>1. x \in Int /\ RQBASE \in Int
      <4>1. dwalk.g \in Int /\ dwalk.j \in Int /\ NMAC \in Int
        <5>1. cfg.QG \in Int
          BY <1>2 DEF Fits
        <5> QED BY <2>3, <5>1, Constants DEF InWalk, Lanes
      <4> QED BY <4>1, DeviceAssumption
    <3>2. rq'.qb = IF pp THEN rq.qb + 6 ELSE rq.qb
      BY <1>4, <1>7, <2>6
    <3> HIDE DEF x
    <3>3. rq.qb = RQBASE + 6 * x
      BY <2>2 DEF x
    <3>4. rq'.qb = RQBASE + 6 * (x + Bit(pp))
      BY <3>1, <3>2, <3>3 DEF Bit
    <3> QED BY <2>9, <3>4 DEF x
  <2>11. rq'.c \in {7, 8}
    BY <1>3, <1>7
  <2> QED BY <2>9, <2>10, <2>11 DEF WalkReadsAt
<1> QED BY <1>2, <1>6, <1>7 DEF WalkReadsAt

\* A readout pair by pair, in numbers: pair r is the next to go, pair w the one being
\* computed, and output i, of the next pair but in the first steps, the one the walk is at.
LEMMA QuantMoves ==
  ASSUME TileInv, Clock, Draining, cfg.rq, Draining', NEW r \in Nat, PairInv(r),
         NEW w, w = r + Held
  PROVE  /\ w \in Nat /\ 2 * r < cfg.nacc /\ cfg.nacc \in Nat /\ cfg.nacc % 2 = 0
         /\ link.sent = (2 * r) + Bit(rq.half) + Bit(link.rdy)
         /\ link'.sent = (2 * (r + Bit(Freed))) + Bit(rq'.half) + Bit(link'.rdy)
         /\ (r + Bit(Freed)) + Held' = w + Bit(RqTake)
         /\ 2 * (r + Bit(Freed)) < cfg.nacc
         /\ rq.c <= 6 => w = 0
         /\ NamesPair(IF rq.c <= 6 THEN 0 ELSE 2 * (w + 1))
         /\ Freed \in BOOLEAN /\ RqTake \in BOOLEAN
         /\ Held \in 0 .. 2 /\ Held' = (Held + Bit(RqTake)) - Bit(Freed)
         /\ Held = 2 /\ RqTake => Freed
         /\ Freed => Held # 0
<1>1. /\ Held \in 0 .. 2 /\ RqTake \in BOOLEAN /\ Freed \in BOOLEAN
      /\ Freed <=> RqPop /\ rq.half
      /\ rq'.half <=> IF RqPop THEN ~rq.half ELSE rq.half
      /\ RqTake => (Held # 2 \/ Freed)
  BY PaceIs
<1>2. /\ RqPop <=> link.rdy
      /\ RqPop => Held # 0 /\ state = "DHOLD"
      /\ state = "DHOLD" => (Offered \/ Accepted) /\ (out.end <=> rq.se[rq.rsel] /\ rq.half)
      /\ state \in {"DISS", "DWAIT"} => Awaited(3)
  BY InQuant
<1>3. link.sent \in Nat /\ link.n \in Nat /\ state \in {"DISS", "DWAIT", "DHOLD"}
      /\ cfg.nacc \in Nat /\ cfg.nacc % 2 = 0
  BY InReadout, NaccIs DEF Draining
<1>4. w \in Nat
  BY <1>1
<1>5. /\ link.sent = 2 * r + Bit(rq.half) + Bit(link.rdy)
      /\ 2 * r < cfg.nacc
      /\ rq.c <= 6 => w = 0 /\ NamesPair(0)
      /\ rq.c > 6 => NamesPair(2 * (w + 1))
      /\ Held > 0 => (rq.se[rq.rsel] <=> 2 * r + 2 = cfg.nacc)
  BY DEF PairInv, RQ_PADV
<1>6. NamesPair(IF rq.c <= 6 THEN 0 ELSE 2 * (w + 1))
  BY <1>5, StepIs
<1>7. /\ RqTake /\ Freed => Held' = Held
      /\ RqTake /\ ~Freed => Held' = Held + 1
      /\ ~RqTake /\ Freed => Held' = Held - 1
      /\ ~RqTake /\ ~Freed => Held' = Held
  BY PaceIs
<1>8. Held' = (Held + Bit(RqTake)) - Bit(Freed)
  BY <1>1, <1>7 DEF Bit
<1>9. link'.sent = (2 * (r + Bit(Freed))) + Bit(rq'.half) + Bit(link'.rdy)
  <2>1. CASE RqPop
    <3>1. link.rdy /\ state = "DHOLD"
      BY <1>2, <2>1
    <3>2. link.n = 8
      BY <1>2, <3>1 DEF Offered, Accepted, WordClocks
    <3>3. ~link'.rdy /\ link'.sent = link.sent
      BY <1>3, <3>2, LinkCounts
    <3> QED BY <1>1, <1>5, <2>1, <3>1, <3>3 DEF Bit
  <2>2. CASE ~RqPop
    <3>1. ~link.rdy /\ ~Freed /\ (rq'.half <=> rq.half)
      BY <1>1, <1>2, <2>2
    <3>2. CASE link.n > 1
      <4>1. ~link'.rdy /\ link'.sent = link.sent
        BY <1>3, <3>2, LinkCounts
      <4> QED BY <1>5, <3>1, <4>1 DEF Bit
    <3>3. CASE ~(link.n > 1)
      <4>1. Offered
        <5>1. state \notin {"DISS", "DWAIT"}
          BY <1>2, <1>3, <3>3 DEF Awaited
        <5> QED BY <1>2, <1>3, <3>1, <5>1 DEF Accepted
      <4>2. link.have /\ link.dv
        BY <1>3, <3>3, <4>1 DEF Offered
      <4>3. link'.rdy /\ link'.sent = link.sent + 1
        BY <1>3, <3>3, <4>2, LinkTakes
      <4> QED BY <1>5, <3>1, <4>3 DEF Bit
    <3> QED BY <3>2, <3>3
  <2> QED BY <2>1, <2>2
<1>10. 2 * (r + Bit(Freed)) < cfg.nacc
  <2>1. CASE ~Freed
    BY <1>5, <2>1 DEF Bit
  <2>2. CASE Freed
    <3>1. state = "DHOLD" /\ link.rdy /\ rq.half /\ Held # 0
      BY <1>1, <1>2, <2>2
    <3>2. ~out.end
      BY <3>1, StateIs, ClockAlways DEF Draining
    <3>3. 2 * r + 2 # cfg.nacc
      BY <1>1, <1>2, <1>5, <3>1, <3>2
    <3>4. PICK h \in Nat : cfg.nacc = 2 * h
      BY <1>3
    <3>5. r + 1 < h
      BY <1>5, <3>3, <3>4
    <3> QED BY <2>2, <3>4, <3>5 DEF Bit
  <2> QED BY <1>1, <2>1, <2>2
<1>11. (r + Bit(Freed)) + Held' = w + Bit(RqTake)
  <2> DEFINE f == Bit(Freed)
             t == Bit(RqTake)
  <2>1. f \in {0, 1} /\ t \in {0, 1}
    BY DEF Bit
  <2> HIDE DEF f, t
  <2>2. Held' = (Held + t) - f
    BY <1>8 DEF f, t
  <2>3. (r + f) + Held' = w + t
    BY <1>1, <2>1, <2>2
  <2> QED BY <2>3 DEF f, t
<1> QED BY <1>1, <1>2, <1>3, <1>4, <1>5, <1>6, <1>8, <1>9, <1>10, <1>11

-----------------------------------------------------------------------------
\* The parameters.

\* A byte shifted in.
LEMMA ParShift ==
  ASSUME NEW par, IsFcn(par, 1 .. 6), NEW x
  PROVE  /\ IsFcn(SubSeq(par, 2, 6) \o <<x>>, 1 .. 6)
         /\ SubSeq(par, 2, 6) \o <<x>> = [l \in 1 .. 6 |-> IF l <= 5 THEN par[l + 1] ELSE x]
<1> DEFINE b == <<x>>
           p == SubSeq(par, 2, 6) \o b
<1>1. IsFcn(b, 1 .. 1) /\ b[1] = x
  BY DEF IsFcn
<1> HIDE DEF b
<1>2. p = [l \in 1 .. 6 |-> IF l <= 5 THEN par[l + 1] ELSE b[l - 5]]
  <2> DEFINE N == 6
             L == 1
  <2>1. N \in Nat \ {0} /\ L \in 1 .. N /\ IsFcn(par, 1 .. N) /\ IsFcn(b, 1 .. L)
    BY <1>1
  <2> HIDE DEF N, L
  <2>2. SubSeq(par, L + 1, N) \o b
          = [l \in 1 .. N |-> IF l <= N - L THEN par[l + L] ELSE b[l - (N - L)]]
    BY <2>1, ShiftIs
  <2>3. N = 6 /\ L = 1 /\ L + 1 = 2 /\ N - L = 5
    BY DEF N, L
  <2> QED BY <2>2, <2>3
<1> HIDE DEF p
<1>3. IsFcn(p, 1 .. 6)
  BY <1>2 DEF IsFcn
<1>4. p = [l \in 1 .. 6 |-> IF l <= 5 THEN par[l + 1] ELSE x]
  BY <1>1, <1>2
<1> QED BY <1>3, <1>4 DEF p, b

\* It is the next of its channel's.
LEMMA HasMore ==
  ASSUME NEW par, IsFcn(par, 1 .. 6), NEW ch, NEW n \in 0 .. 5, Has(par, n, ch)
  PROVE  Has(SubSeq(par, 2, 6) \o <<<<ch, n>>>>, n + 1, ch)
<1> DEFINE x == <<ch, n>>
           p == SubSeq(par, 2, 6) \o <<x>>
<1> HIDE DEF x
<1>1. p = [l \in 1 .. 6 |-> IF l <= 5 THEN par[l + 1] ELSE x]
  BY ParShift
<1> HIDE DEF p
<1>2. ASSUME NEW k \in 1 .. (n + 1) PROVE p[(6 - (n + 1)) + k] = <<ch, k - 1>>
  <2>1. CASE k = n + 1
    <3>1. (6 - (n + 1)) + k = 6 /\ k - 1 = n
      BY <2>1
    <3> QED BY <1>1, <3>1 DEF x
  <2>2. CASE k # n + 1
    <3>1. k \in 1 .. n /\ (6 - (n + 1)) + k \in 1 .. 5
          /\ ((6 - (n + 1)) + k) + 1 = (6 - n) + k
      BY <2>2
    <3>2. p[(6 - (n + 1)) + k] = par[(6 - n) + k]
      BY <1>1, <3>1
    <3> QED BY <3>1, <3>2 DEF Has
  <2> QED BY <2>1, <2>2
<1>3. Has(p, n + 1, ch)
  BY <1>2 DEF Has
<1> QED BY <1>3 DEF p, x

\* One channel's six are its parameters.
LEMMA ParamsAre ==
  ASSUME NEW par, IsFcn(par, 1 .. 6), NEW ch \in 0 .. (layer.cout - 1), Has(par, 6, ch)
  PROVE  Params(par) = ch
<1>1. \A k \in 1 .. 6 : par[k] = <<ch, k - 1>>
  BY DEF Has
<1>2. par = [i \in 1 .. 6 |-> <<ch, i - 1>>]
  BY <1>1 DEF IsFcn
<1>3. par[1][1] = ch
  BY <1>1
<1> QED BY <1>2, <1>3 DEF Params

\* An output's channel is one of the layer's.
LEMMA ChannelIs ==
  ASSUME TileInv, DataInv, TableInv, Draining, NEW i \in 0 .. (cfg.nacc - 1)
  PROVE  ChannelOf(cfg, i) \in 0 .. (layer.cout - 1) /\ ChannelOf(cfg, i) \in Nat
<1>1. host.do \in HasTable
  BY DEF TileInv, ReadInv, HasTable
<1>2. Fits(cfg) /\ Accepts(cfg) /\ cfg.d = layer /\ layer \in Layers
  BY <1>1, CfgIs
<1>3. i \div cfg.P \in 0 .. ((cfg.QG * NMAC) - 1)
  BY <1>2, OutputIs
<1>4. cfg.q0 \in Nat /\ cfg.Q = cfg.QG * NMAC /\ cfg.q0 + cfg.Q <= layer.cout /\ layer.cout \in Nat
  <2>1. layer.cout \in Nat
    BY <1>2, Constants DEF LayerDesc
  <2> QED BY <1>2, <2>1 DEF Fits, Accepts
<1> DEFINE c == i \div cfg.P
           m == cfg.QG * NMAC
<1>5. c \in 0 .. (m - 1) /\ m = cfg.Q /\ m \in Int
  <2>1. cfg.QG \in Int /\ NMAC \in Int
    BY <1>2, Constants DEF Fits
  <2> QED BY <1>3, <1>4, <2>1
<1>6. ChannelOf(cfg, i) = cfg.q0 + c
  BY DEF ChannelOf
<1> HIDE DEF c, m
<1> QED BY <1>4, <1>5, <1>6

\* The channel the walk is at.
LEMMA WalkChannel ==
  ASSUME TileInv, Fits(cfg), NEW i, NamesPair(i), i < cfg.nacc
  PROVE  /\ ChannelOf(cfg, i) = cfg.q0 + ((dwalk.g * NMAC) + dwalk.j)
         /\ (dwalk.g * NMAC) + dwalk.j \in 0 .. ((cfg.QG * NMAC) - 1)
         /\ InWalk /\ dwalk.p % 2 = 0 /\ WalkIndex = i
<1>1. InWalk /\ dwalk.p % 2 = 0 /\ WalkIndex = i
  BY DEF NamesPair
<1>2. dwalk.p < cfg.P
  BY <1>1 DEF InWalk, Fits
<1> DEFINE c == (dwalk.g * NMAC) + dwalk.j
<1>3. i = (c * cfg.P) + dwalk.p
  BY <1>1, Zenon DEF WalkIndex
<1>4. /\ ((c * cfg.P) + dwalk.p) \div cfg.P = c
      /\ c \in 0 .. ((cfg.QG * NMAC) - 1)
  BY <1>1, <1>2, WalkPlace
<1> HIDE DEF c
<1> QED BY <1>1, <1>3, <1>4 DEF ChannelOf, c

\* What a clock on which the engine reads the table gives on the next.
LEMMA LoadIs ==
  ASSUME TileInv, DataInv, TableInv, Clock, Draining, cfg.rq, RqLd,
         NEW i, NamesPair(i), WalkReadsAt(i), i < cfg.nacc, NEW b \in 0 .. 5, rq.c % 8 = b
  PROVE  StripQ' = <<ChannelOf(cfg, i), b>>
<1>1. host.do \in HasTable
  BY DEF TileInv, ReadInv, HasTable
<1>2. /\ Fits(cfg) /\ cfg.Q <= MAXQ /\ cfg.Q = plan.QG * NMAC /\ cfg.Q = cfg.QG * NMAC
      /\ host.table = cfg.q0 /\ cfg.q0 \in Nat
  <2>1. Fits(cfg) /\ cfg.Q <= MAXQ /\ cfg.Q = plan.QG * NMAC
    BY <1>1, CfgIs
  <2> QED BY <1>1, <2>1 DEF TableInv, Fits
<1> DEFINE q == (dwalk.g * NMAC) + dwalk.j
           Q == cfg.Q
           a == RQBASE + ((6 * q) + b)
<1>3. q \in 0 .. (Q - 1) /\ Q \in Nat /\ ChannelOf(cfg, i) = cfg.q0 + q
  <2>1. cfg.QG \in Nat /\ NMAC \in Nat
    BY <1>2, Constants DEF Fits
  <2> QED BY <1>2, <2>1, WalkChannel
<1>4. rq.qb = RQBASE + 6 * q
  BY DEF WalkReadsAt
<1>5. RQBASE \in Nat /\ MAXQ \in Nat /\ STRIPD \in Nat \ {0} /\ RQBASE + 6 * MAXQ <= STRIPD
  BY DeviceAssumption
<1>6. strip[a] = <<cfg.q0 + q, b>>
  <2>1. host.table # None
    BY <1>2, MarkAssumption
  <2>2. plan.QG * NMAC = Q
    BY <1>2
  <2>3. \A x \in 0 .. ((plan.QG * NMAC) - 1), y \in 0 .. 5 :
            strip[RQBASE + ((6 * x) + y)] = <<host.table + x, y>>
    BY <2>1 DEF TableInv
  <2> HIDE DEF q, Q
  <2> QED BY <1>2, <1>3, <2>2, <2>3
<1> HIDE DEF q, Q
<1>7. RqPa = a /\ a \in 0 .. (STRIPD - 1)
  <2>1. Q <= MAXQ
    BY <1>2 DEF Q
  <2>2. a \in 0 .. (STRIPD - 1) /\ rq.qb + b = a
    BY <1>3, <1>4, <1>5, <2>1
  <2>3. a % STRIPD = a
    BY <1>5, <2>2, Small
  <2> QED BY <2>2, <2>3 DEF RqPa
<1> HIDE DEF a
<1>8. StripRaddr = a /\ a \in Int
  BY <1>5, <1>7 DEF StripRaddr
<1>9. s2'.par = a % 2 /\ s2'.sq = NextSq /\ kpack' = kpack
  BY <1>8, ClockAlways DEF Clock, Pipeline
<1>10. StripQ' = strip[a]
  <2>1. CASE kpack
    <3>1. NextSq.even = strip[2 * ((IF a % 2 = 1 THEN s1.saddr1 ELSE a) \div 2)]
          /\ NextSq.odd = strip[2 * (a \div 2) + 1]
      BY <1>8, <2>1 DEF NextSq
    <3>2. CASE a % 2 = 1
      <4>1. 2 * (a \div 2) + 1 = a
        BY <1>8, <3>2, BankOf
      <4> QED BY <1>9, <2>1, <3>1, <3>2, <4>1 DEF StripQ
    <3>3. CASE a % 2 # 1
      <4>1. 2 * (a \div 2) = a
        BY <1>8, <3>3, BankOf
      <4> QED BY <1>9, <2>1, <3>1, <3>3, <4>1 DEF StripQ
    <3> QED BY <3>2, <3>3
  <2>2. CASE ~kpack
    <3>1. NextSq.even = strip[a]
      BY <1>8, <2>2 DEF NextSq
    <3> QED BY <1>9, <2>2, <3>1 DEF StripQ
  <2> QED BY <2>1, <2>2
<1> QED BY <1>3, <1>6, <1>10

\* The parameters of the pair being computed stay whole until it has used them, and the
\* next pair's are whole when it begins.
LEMMA ParamsStep ==
  ASSUME TileInv, DataInv, TableInv, Clock, Draining, cfg.rq,
         NEW w \in Nat, NEW i \in Nat, i = IF rq.c <= 6 THEN 0 ELSE 2 * (w + 1),
         rq.c <= 6 => w = 0, 0 < cfg.nacc, NamesPair(i), WalkReadsAt(i), ParamsInv(w),
         NEW y \in Nat, y = w + Bit(RqTake)
  PROVE  ParamsInv(y)'
<1> DEFINE ch == ChannelOf(cfg, 2 * w)
           nx == ChannelOf(cfg, 2 * (w + 1))
           ny == ChannelOf(cfg, 2 * (y + 1))
           c == rq.c
           e == rq'.c
           p == rq.par
           q == rq'.par
<1>1. /\ c \in 0 .. 22 /\ e \in 0 .. 22 /\ RqTake \in BOOLEAN
      /\ RqTake => c = 22 /\ e = 8 /\ y = w + 1
      /\ ~RqTake => e = (IF c # 22 THEN c + 1 ELSE 22) /\ y = w
      /\ RqAdv <=> c = 6 \/ RqTake
      /\ cfg' = cfg /\ cfg.nacc \in Nat
  BY StepIs, ClockAlways, NaccIs DEF Bit, TileInv
<1>2. /\ c \in 0 .. 6 => (rq.ldq <=> c # 0) /\ ~rq.newch
      /\ c \in 1 .. 6 => StripQ = <<ch, c - 1>> /\ Has(p, c - 1, ch)
      /\ c \in 7 .. 16 => ~rq.ldq /\ (2 * w < cfg.nacc => Has(p, 6, ch))
      /\ c \in 7 .. 21 /\ 2 * (w + 1) < cfg.nacc => (rq.newch <=> dwalk.p = 0)
      /\ c \in 17 .. 21 => (rq.ldq <=> rq.newch)
      /\ c = 22 => ~rq.newch
      /\ c \in 17 .. 22 /\ 2 * (w + 1) < cfg.nacc =>
           IF rq.ldq THEN StripQ = <<nx, c - 17>> /\ Has(p, c - 17, nx) ELSE Has(p, 6, nx)
      /\ 2 * w < cfg.nacc => (c \in 9 .. 22 => rq.s = ch) /\ (c \in 10 .. 22 => rq.dec = ch)
  BY Zenon DEF ParamsInv
<1>3. /\ rq'.newch <=> c # 21 /\ (rq.newch \/ (RqAdv /\ rlast.pp))
      /\ rq'.ldq <=> c < 6 \/ (rq.newch /\ c \in 16 .. 21)
      /\ q = IF rq.ldq THEN SubSeq(p, 2, 6) \o <<StripQ>> ELSE p
      /\ rq'.s = IF c = 8 THEN Params(p) ELSE rq.s
      /\ rq'.dec = IF c = 9 THEN rq.s ELSE rq.dec
      /\ dwalk' = IF RqAdv THEN DwalkNext(2, rlast.pp, rlast.j, rlast.g) ELSE dwalk
  <2>1. RqLd <=> c < 6 \/ (rq.newch /\ c \in 16 .. 21)
    BY InQuant DEF RqLd, RQ_PF0, RQ_DONE
  <2> QED BY <2>1, InQuant, EngineIs, EngineMore
<1>4. IsFcn(p, 1 .. 6)
  BY DEF TableInv
<1>5. ASSUME NEW x, NEW n \in 0 .. 5, rq.ldq, StripQ = <<x, n>>, Has(p, n, x)
      PROVE  Has(q, n + 1, x)
  BY <1>3, <1>4, <1>5, HasMore
<1>6. ~rq.ldq => q = p
  BY <1>3
<1>7. ASSUME NEW b \in 0 .. 5, c % 8 = b, rq'.ldq, i < cfg.nacc
      PROVE  StripQ' = <<ChannelOf(cfg, i), b>>
  <2>1. RqLd
    BY <1>7, InQuant, EngineMore
  <2> QED BY <1>7, <2>1, LoadIs
<1>8. ASSUME RqAdv, i < cfg.nacc
      PROVE  (rlast.pp <=> dwalk'.p = 0)
  <2>1. c \in {6, 22}
    BY <1>1, <1>8
  <2>2. /\ InWalk /\ dwalk.p % 2 = 0 /\ (rlast.pp <=> dwalk.p = cfg.P - 2)
    BY <1>8, <2>1 DEF NamesPair, RQ_PADV, RQ_BIAS
  <2>3. dwalk' = DwalkNext(2, rlast.pp, rlast.j, rlast.g)
    BY <1>3, <1>8
  <2>4. ~rlast.pp => dwalk'.p = dwalk.p + 2
    BY <2>3 DEF DwalkNext, TileInv, ShapeInv, IsRecord
  <2>5. rlast.pp => dwalk'.p = 0
    BY <2>3 DEF DwalkNext
  <2>6. dwalk.p \in Nat
    <3>1. cfg.P \in Nat
      BY DEF TileInv, GeomInv
    <3> QED BY <2>2, <3>1 DEF InWalk
  <2> QED BY <2>4, <2>5, <2>6
<1>9. 2 * w < cfg.nacc /\ c = 8 => Params(p) = ch
  <2>1. 2 * w < cfg.nacc => ch \in 0 .. (layer.cout - 1)
    BY <1>1, ChannelIs
  <2> QED BY <1>2, <1>4, <2>1, ParamsAre
<1>10. ASSUME c = 16, 2 * (w + 1) < cfg.nacc, ~rq.newch
       PROVE  nx = ch
  <2>1. i = 2 * (w + 1) /\ dwalk.p # 0
    BY <1>2, <1>10
  <2>2. host.do \in HasTable
    BY DEF TileInv, ReadInv, HasTable
  <2>3. Fits(cfg)
    BY <2>2, CfgIs
  <2>4. /\ ChannelOf(cfg, i) = cfg.q0 + ((dwalk.g * NMAC) + dwalk.j)
        /\ InWalk /\ dwalk.p % 2 = 0 /\ WalkIndex = i
        /\ (dwalk.g * NMAC) + dwalk.j \in 0 .. ((cfg.QG * NMAC) - 1)
    BY <1>10, <2>1, <2>3, WalkChannel
  <2> DEFINE k == (dwalk.g * NMAC) + dwalk.j
             P == cfg.P
             m == dwalk.p - 2
  <2>5. P \in Nat \ {0} /\ k \in Int /\ m \in 0 .. (P - 1)
    <3>1. P \in Nat \ {0} /\ cfg.QG \in Nat /\ NMAC \in Nat
      BY <2>3, Constants DEF Fits
    <3>2. dwalk.p \in 0 .. (P - 1)
      BY <2>4 DEF InWalk
    <3>3. m \in 0 .. (P - 1)
      BY <2>1, <2>4, <3>1, <3>2
    <3>4. k \in Int
      BY <2>4, <3>1
    <3> QED BY <3>1, <3>3, <3>4
  <2>6. i = (k * P) + dwalk.p
    BY <2>4, Zenon DEF WalkIndex
  <2>7. k * P \in Int /\ dwalk.p \in Int
    <3>1. dwalk.p \in 0 .. (P - 1)
      BY <2>4 DEF InWalk
    <3> HIDE DEF k, P
    <3> QED BY <2>5, <3>1
  <2> DEFINE kp == k * P
  <2>8. i = kp + dwalk.p /\ kp \in Int
    BY <2>6, <2>7
  <2> HIDE DEF k, P, kp
  <2>9. 2 * w = kp + m
    BY <2>1, <2>7, <2>8
  <2>10. ((k * P) + m) \div P = k
    <3> HIDE DEF m
    <3> QED BY <2>5, DivisionIs
  <2>11. (2 * w) \div P = k
    BY <2>9, <2>10 DEF kp
  <2>12. ch = cfg.q0 + k
    BY <2>11 DEF ChannelOf, P
  <2> QED BY <2>1, <2>4, <2>12 DEF k
<1> DEFINE mine(cc) ==
      /\ e \in 0 .. 6 => (rq'.ldq <=> e # 0) /\ ~rq'.newch
      /\ e \in 1 .. 6 => StripQ' = <<cc, e - 1>> /\ Has(q, e - 1, cc)
      /\ e \in 7 .. 16 => ~rq'.ldq /\ (2 * y < cfg.nacc => Has(q, 6, cc))
      /\ e \in 7 .. 21 /\ 2 * (y + 1) < cfg.nacc => (rq'.newch <=> dwalk'.p = 0)
      /\ e \in 17 .. 21 => (rq'.ldq <=> rq'.newch)
      /\ e = 22 => ~rq'.newch
      /\ 2 * y < cfg.nacc => (e \in 9 .. 22 => rq'.s = cc) /\ (e \in 10 .. 22 => rq'.dec = cc)
    theirs ==
      e \in 17 .. 22 /\ 2 * (y + 1) < cfg.nacc =>
        IF rq'.ldq THEN StripQ' = <<ny, e - 17>> /\ Has(q, e - 17, ny) ELSE Has(q, 6, ny)
<1>11. mine(ChannelOf(cfg, 2 * y)) /\ theirs => ParamsInv(y)'
  BY <1>1 DEF ParamsInv, ChannelOf
<1> DEFINE cy == ChannelOf(cfg, 2 * y)
<1>12. y = w => cy = ch /\ ny = nx
  OBVIOUS
<1>13. RqTake => cy = nx
  BY <1>1
<1>14. i = 0 => ChannelOf(cfg, i) = ChannelOf(cfg, 2 * 0)
  OBVIOUS
<1>15. i = 2 * (w + 1) => ChannelOf(cfg, i) = nx
  OBVIOUS
<1>16. c <= 6 => w = 0 /\ i = 0 /\ ChannelOf(cfg, i) = ch
  BY <1>14
<1> HIDE DEF ch, nx, ny, cy, c, e, p, q
<1>17. CASE c \in 0 .. 5
  <2>1. e = c + 1 /\ y = w /\ ~RqAdv /\ c % 8 = c
    BY <1>1, <1>17
  <2>2. rq'.ldq /\ ~rq'.newch
    BY <1>2, <1>3, <1>17, <2>1
  <2>3. StripQ' = <<ch, c>>
    BY <1>7, <1>16, <1>17, <2>1, <2>2
  <2>4. Has(q, c, ch)
    <3>1. CASE c = 0
      BY <3>1 DEF Has
    <3>2. CASE c # 0
      <4>1. c - 1 \in 0 .. 5 /\ (c - 1) + 1 = c
        BY <1>17, <3>2
      <4>2. Has(q, (c - 1) + 1, ch)
        BY <1>2, <1>5, <1>17, <3>2, <4>1
      <4> QED BY <4>1, <4>2
    <3> QED BY <3>1, <3>2
  <2>5. e - 1 = c /\ e \in 1 .. 6
    BY <1>17, <2>1
  <2>6. mine(cy)
    BY <1>12, <1>17, <2>1, <2>2, <2>3, <2>4, <2>5
  <2>7. theirs
    BY <2>5
  <2> QED BY <1>11, <2>6, <2>7 DEF cy
<1>18. CASE c = 6
  <2>1. e = 7 /\ y = w /\ RqAdv /\ i < cfg.nacc
    BY <1>1, <1>16, <1>18
  <2>2. ~rq'.ldq /\ (rq'.newch <=> dwalk'.p = 0)
    BY <1>2, <1>3, <1>8, <1>18, <2>1
  <2>3. Has(q, 6, ch)
    <3>1. StripQ = <<ch, 5>> /\ Has(p, 5, ch) /\ rq.ldq
      BY <1>2, <1>18
    <3>2. Has(q, 5 + 1, ch)
      BY <1>5, <3>1
    <3> QED BY <3>2
  <2>4. mine(cy) /\ theirs
    BY <1>12, <2>1, <2>2, <2>3
  <2> QED BY <1>11, <2>4 DEF cy
<1>19. CASE c \in 7 .. 15
  <2>1. e = c + 1 /\ y = w /\ ~RqAdv /\ dwalk' = dwalk
    BY <1>1, <1>3, <1>19
  <2>2. ~rq'.ldq /\ q = p /\ (rq'.newch <=> rq.newch)
    BY <1>2, <1>3, <1>19, <2>1
  <2>3. 2 * y < cfg.nacc => (e \in 9 .. 22 => rq'.s = ch) /\ (e \in 10 .. 22 => rq'.dec = ch)
    BY <1>2, <1>3, <1>9, <1>19, <2>1
  <2>4. mine(cy) /\ theirs
    BY <1>2, <1>12, <1>19, <2>1, <2>2, <2>3
  <2> QED BY <1>11, <2>4 DEF cy
<1>20. CASE c = 16
  <2>1. e = 17 /\ y = w /\ ~RqAdv /\ dwalk' = dwalk /\ i = 2 * (w + 1)
    BY <1>1, <1>3, <1>20 DEF c
  <2>2. (rq'.ldq <=> rq.newch) /\ q = p /\ (rq'.newch <=> rq.newch)
    BY <1>2, <1>3, <1>20, <2>1
  <2>3. ASSUME 2 * (y + 1) < cfg.nacc
        PROVE  IF rq'.ldq THEN StripQ' = <<ny, e - 17>> /\ Has(q, e - 17, ny) ELSE Has(q, 6, ny)
    <3>1. CASE rq.newch
      <4>1. StripQ' = <<nx, 0>>
        <5>1. c % 8 = 0 /\ i < cfg.nacc
          BY <1>20, <2>1, <2>3
        <5> QED BY <1>7, <1>15, <2>1, <2>2, <3>1, <5>1
      <4>2. Has(q, 0, nx)
        BY DEF Has
      <4> QED BY <1>12, <2>1, <2>2, <3>1, <4>1, <4>2
    <3>2. CASE ~rq.newch
      <4>1. Has(p, 6, ch)
        BY <1>1, <1>2, <1>20, <2>1, <2>3
      <4>2. nx = ch
        BY <1>10, <1>20, <2>1, <2>3, <3>2
      <4> QED BY <1>12, <2>1, <2>2, <3>2, <4>1, <4>2
    <3> QED BY <3>1, <3>2
  <2>4. 2 * y < cfg.nacc => (e \in 9 .. 22 => rq'.s = ch) /\ (e \in 10 .. 22 => rq'.dec = ch)
    BY <1>2, <1>3, <1>20, <2>1
  <2>5. mine(cy)
    BY <1>2, <1>12, <1>20, <2>1, <2>2, <2>4
  <2>6. theirs
    BY <2>3
  <2> QED BY <1>11, <2>5, <2>6 DEF cy
<1>21. CASE c \in 17 .. 21
  <2>1. e = c + 1 /\ y = w /\ ~RqAdv /\ dwalk' = dwalk /\ i = 2 * (w + 1)
    BY <1>1, <1>3, <1>21 DEF c
  <2>2. /\ rq'.ldq <=> rq.newch
        /\ rq.ldq <=> rq.newch
        /\ rq'.newch <=> c # 21 /\ rq.newch
    BY <1>2, <1>3, <1>21, <2>1
  <2>3. ASSUME 2 * (y + 1) < cfg.nacc
        PROVE  IF rq'.ldq THEN StripQ' = <<ny, e - 17>> /\ Has(q, e - 17, ny) ELSE Has(q, 6, ny)
    <3>1. IF rq.ldq THEN StripQ = <<nx, c - 17>> /\ Has(p, c - 17, nx) ELSE Has(p, 6, nx)
      BY <1>2, <1>21, <2>1, <2>3
    <3>2. CASE rq.newch
      <4>1. StripQ' = <<nx, c - 16>>
        <5>1. c % 8 = c - 16 /\ c - 16 \in 0 .. 5 /\ i < cfg.nacc
          BY <1>21, <2>1, <2>3
        <5> QED BY <1>7, <1>15, <2>1, <2>2, <3>2, <5>1
      <4>2. Has(q, c - 16, nx)
        <5>1. c - 17 \in 0 .. 5 /\ (c - 17) + 1 = c - 16
          BY <1>21
        <5>2. Has(q, (c - 17) + 1, nx)
          BY <1>5, <2>2, <3>1, <3>2, <5>1
        <5> QED BY <5>1, <5>2
      <4>3. e - 17 = c - 16
        BY <1>21, <2>1
      <4> QED BY <1>12, <2>1, <2>2, <3>2, <4>1, <4>2, <4>3
    <3>3. CASE ~rq.newch
      BY <1>6, <1>12, <2>1, <2>2, <3>1, <3>3
    <3> QED BY <3>2, <3>3
  <2>4. 2 * y < cfg.nacc => (e \in 9 .. 22 => rq'.s = ch) /\ (e \in 10 .. 22 => rq'.dec = ch)
    BY <1>2, <1>3, <1>21, <2>1
  <2>5. mine(cy)
    BY <1>2, <1>12, <1>21, <2>1, <2>2, <2>4
  <2>6. theirs
    BY <2>3
  <2> QED BY <1>11, <2>5, <2>6 DEF cy
<1>22. ASSUME c = 22, 2 * (w + 1) < cfg.nacc
       PROVE  Has(q, 6, nx)
  <2>1. IF rq.ldq THEN StripQ = <<nx, c - 17>> /\ Has(p, c - 17, nx) ELSE Has(p, 6, nx)
    BY <1>2, <1>22
  <2>2. c - 17 = 5 /\ 5 + 1 = 6 /\ 5 \in 0 .. 5
    BY <1>22
  <2>3. CASE rq.ldq
    <3>1. Has(q, 5 + 1, nx)
      BY <1>5, <2>1, <2>2, <2>3
    <3> QED BY <2>2, <3>1
  <2>4. CASE ~rq.ldq
    BY <1>6, <2>1, <2>4
  <2> QED BY <2>3, <2>4
<1>23. CASE c = 22 /\ ~RqTake
  <2>1. e = 22 /\ y = w /\ ~RqAdv
    BY <1>1, <1>23
  <2>2. ~rq'.ldq /\ ~rq'.newch
    BY <1>2, <1>3, <1>23, <2>1
  <2>3. 2 * y < cfg.nacc => (e \in 9 .. 22 => rq'.s = ch) /\ (e \in 10 .. 22 => rq'.dec = ch)
    BY <1>2, <1>3, <1>23, <2>1
  <2>4. mine(cy)
    BY <1>12, <1>23, <2>1, <2>2, <2>3
  <2>5. theirs
    BY <1>12, <1>22, <1>23, <2>1, <2>2
  <2> QED BY <1>11, <2>4, <2>5 DEF cy
<1>24. CASE RqTake
  <2>1. c = 22 /\ e = 8 /\ y = w + 1 /\ RqAdv /\ i = 2 * (w + 1)
    <3>1. c = 22 /\ e = 8 /\ y = w + 1
      BY <1>1, <1>24
    <3>2. RqAdv
      BY <1>1, <1>24
    <3>3. i = 2 * (w + 1)
      BY <3>1 DEF c
    <3> QED BY <3>1, <3>2, <3>3
  <2>2. ~rq'.ldq
    BY <1>2, <1>3, <2>1
  <2>3. 2 * y < cfg.nacc => Has(q, 6, nx)
    BY <1>22, <2>1
  <2>4. 2 * (y + 1) < cfg.nacc => (rq'.newch <=> dwalk'.p = 0)
    <3>1. 2 * (y + 1) < cfg.nacc => i < cfg.nacc
      <4> DEFINE N == cfg.nacc
                 z == 2 * (y + 1)
      <4>0. N \in Nat /\ y = w + 1 /\ i = 2 * (w + 1)
        BY <1>1, <2>1
      <4>3. 2 * (y + 1) = (2 * (w + 1)) + 2
        BY <4>0
      <4>1. N \in Nat /\ z = i + 2 /\ i \in Nat
        BY <4>0, <4>3
      <4> HIDE DEF N, z
      <4>2. z < N => i < N
        BY <4>1
      <4> QED BY <4>2 DEF N, z
    <3> QED BY <1>2, <1>3, <1>8, <2>1, <3>1
  <2>5. mine(cy)
    <3>1. cy = nx
      BY <1>13, <1>24
    <3>2. 2 * y < cfg.nacc => Has(q, 6, cy)
      BY <2>3, <3>1
    <3> QED BY <2>1, <2>2, <2>4, <3>2
  <2>6. theirs
    BY <2>1
  <2> QED BY <1>11, <2>5, <2>6 DEF cy
<1> QED BY <1>1, <1>17, <1>18, <1>19, <1>20, <1>21, <1>23, <1>24 DEF c

-----------------------------------------------------------------------------
\* The lanes and the buffer.

\* The two outputs of a pair are of one channel.
LEMMA PairChannel ==
  ASSUME cfg.P \in Nat \ {0}, cfg.P % 2 = 0, NEW w \in Nat
  PROVE  ChannelOf(cfg, (2 * w) + 1) = ChannelOf(cfg, 2 * w)
<1> DEFINE P == cfg.P
           x == 2 * w
           k == x \div P
           m == x % P
<1>1. PICK h \in Nat \ {0} : P = 2 * h
  BY DEF P
<1>2. P \in Nat \ {0} /\ x \in Nat
  OBVIOUS
<1> HIDE DEF x, P
<1>3. k \in Int /\ m \in 0 .. (P - 1) /\ x = (k * P) + m
  BY <1>2, Division
<1> HIDE DEF k, m
<1>4. k * P = 2 * (k * h) /\ k * h \in Int
  BY <1>1, <1>3
<1> DEFINE y == k * h
<1> HIDE DEF y
<1>5. m = 2 * (w - y) /\ y \in Int
  BY <1>3, <1>4 DEF x, y
<1>6. m + 1 \in 0 .. (P - 1)
  BY <1>1, <1>3, <1>5
<1>7. ((k * P) + (m + 1)) \div P = k
  <2> DEFINE n == m + 1
  <2>1. n \in 0 .. (P - 1)
    BY <1>6
  <2> HIDE DEF n
  <2>2. ((k * P) + n) \div P = k
    BY <1>2, <1>3, <2>1, DivisionIs
  <2> QED BY <2>2 DEF n
<1>8. x + 1 = (k * P) + (m + 1)
  <2>1. k * P \in Int /\ m \in Int
    BY <1>2, <1>3
  <2> QED BY <1>3, <2>1
<1>9. (x + 1) \div P = x \div P
  BY <1>7, <1>8 DEF k
<1> QED BY <1>9 DEF ChannelOf, x, P

\* A lane's steps, and the sums the lanes take for the next pair.
LEMMA LanesStep ==
  ASSUME TileInv, DataInv, TableInv, SumsHeld, CentresInside, Clock, Draining, cfg.rq, ToldInv,
         NEW w \in Nat, NEW i \in Nat, i = IF rq.c <= 6 THEN 0 ELSE 2 * (w + 1),
         rq.c <= 6 => w = 0, 0 < cfg.nacc, NamesPair(i), WalkReadsAt(i), ParamsInv(w),
         LanesInv(w), NEW y \in Nat, y = w + Bit(RqTake)
  PROVE  LanesInv(y)'
<1> DEFINE c == rq.c
           e == rq'.c
           a == 2 * w
           z == 2 * (w + 1)
           b == a + 1
           l0 == lane[0]
           l1 == lane[1]
           n0 == lane'[0]
           n1 == lane'[1]
           ch == ChannelOf(cfg, a)
           N == cfg.nacc
<1>1. /\ c \in 0 .. 22 /\ e \in 0 .. 22 /\ RqTake \in BOOLEAN
      /\ RqTake => c = 22 /\ e = 8 /\ y = w + 1
      /\ ~RqTake => e = (IF c # 22 THEN c + 1 ELSE 22) /\ y = w
      /\ RqAdv <=> c = 6 \/ RqTake
      /\ cfg' = cfg /\ N \in Nat /\ N % 2 = 0
  BY StepIs, ClockAlways, NaccIs DEF Bit, TileInv
<1>2. /\ n0 = NextLane(l0, rq.e0) /\ n1 = NextLane(l1, rq.e1)
      /\ rq.e0 = Acts(c) /\ (c > 0 => rq.e1 = Acts(c - 1))
  BY DEF Clock, ToldInv
<1>3. a < N => /\ a \in 0 .. (N - 1) /\ b \in 0 .. (N - 1)
  <2>1. PICK h \in Nat : N = 2 * h
    BY <1>1
  <2> HIDE DEF N
  <2> QED BY <2>1
<1>4. a < N => ChannelOf(cfg, a) \in 0 .. (layer.cout - 1) /\ ChannelOf(cfg, a) \in Nat
               /\ ChannelOf(cfg, b) = ChannelOf(cfg, a)
  <2>1. cfg.P \in Nat \ {0} /\ cfg.P % 2 = 0
    BY DEF TileInv, GeomInv
  <2> QED BY <1>3, <2>1, ChannelIs, PairChannel
<1>5. /\ a < N /\ c \in 7 .. 16 => Has(rq.par, 6, ch)
      /\ a < N => (c \in 9 .. 22 => rq.s = ch) /\ (c \in 10 .. 22 => rq.dec = ch)
  BY Zenon DEF ParamsInv
<1>6. a < N /\ c \in 7 .. 16 => Params(rq.par) = ch
  BY <1>4, <1>5, ParamsAre DEF TableInv
<1>7. i < N => /\ c \in {4, 20} => NameOf(s2.accq[dwalk.j]) = i
               /\ c \in {5, 21} => NameOf(s2.accq[dwalk.j]) = i + 1
  <2> SUFFICES ASSUME i < N
               PROVE  /\ c \in {4, 20} => NameOf(s2.accq[dwalk.j]) = i
                      /\ c \in {5, 21} => NameOf(s2.accq[dwalk.j]) = i + 1
    OBVIOUS
  <2>1. InWalk /\ dwalk.p % 2 = 0 /\ WalkIndex = i
    BY DEF NamesPair
  <2>2. /\ Addressed
        /\ c \in {4, 20} => s2.accq = accram[dwalk.addr]
        /\ c \in {5, 21} => s2.accq = accram[dwalk.addr2]
    BY DEF WalkReadsAt
  <2>3. /\ NameOf(accram[dwalk.addr][dwalk.j]) = WalkIndex
        /\ NameOf(accram[dwalk.addr2][dwalk.j]) = WalkIndex + 1
    BY <2>1, <2>2, WalkNames
  <2> QED BY <2>1, <2>2, <2>3
<1>8. /\ a < N => LaneAt(l0, c, a) /\ LaneAt(l1, c - 1, b)
      /\ z < N => (c \in 21 .. 22 => l0.asel = z) /\ (c = 22 => l1.asel = z + 1)
  BY Zenon DEF LanesInv
<1>9. (/\ 2 * y < N => LaneAt(n0, e, 2 * y) /\ LaneAt(n1, e - 1, (2 * y) + 1)
       /\ 2 * (y + 1) < N => (e \in 21 .. 22 => n0.asel = 2 * (y + 1))
                             /\ (e = 22 => n1.asel = (2 * (y + 1)) + 1))
      => LanesInv(y)'
  <2>1. \A l, x, k : LaneAt(l, x, k)' = LaneAt(l, x, k)
    BY <1>1 DEF LaneAt, Product, OfSum, Code, ChannelOf
  <2> QED BY <1>1, <2>1 DEF LanesInv, LaneAt, Product, OfSum, Code, ChannelOf
<1>10. a \in Nat /\ b \in Nat /\ z \in Nat /\ (c <= 6 => a = 0 /\ i = 0) /\ (c > 6 => i = z)
       /\ b = (2 * w) + 1
  BY <1>1
<1>11. y = w => 2 * y = a /\ 2 * (y + 1) = z /\ (2 * y) + 1 = b
  OBVIOUS
<1>12. y = w + 1 => 2 * y = z
  OBVIOUS
<1> HIDE DEF c, e, a, b, z, l0, l1, n0, n1, ch, N
<1>13. CASE c # 22
  <2>1. e = c + 1 /\ y = w /\ ~RqTake
    BY <1>1, <1>13
  <2>2. a < N => LaneAt(n0, c + 1, a)
    <3> SUFFICES ASSUME a < N PROVE LaneAt(n0, c + 1, a)
      OBVIOUS
    <3>1. /\ c \in Int /\ a \in Nat /\ ChannelOf(cfg, a) \in Nat /\ LaneAt(l0, c, a)
          /\ c = 4 => NameOf(s2.accq[dwalk.j]) = a
          /\ c = 8 => Params(rq.par) = ChannelOf(cfg, a)
          /\ c \in {17, 19} => rq.dec = ChannelOf(cfg, a)
          /\ c \in {19, 20} => rq.s = ChannelOf(cfg, a)
      BY <1>1, <1>4, <1>5, <1>6, <1>7, <1>8, <1>10 DEF ch
    <3>2. LaneAt(NextLane(l0, Acts(c)), c + 1, a)
      BY <3>1, LaneStep
    <3> QED BY <1>2, <3>2
  <2>3. a < N => LaneAt(n1, c, b)
    <3> SUFFICES ASSUME a < N PROVE LaneAt(n1, c, b)
      OBVIOUS
    <3>1. CASE c = 0
      BY <3>1 DEF LaneAt
    <3>2. CASE c # 0
      <4> DEFINE x == c - 1
      <4>1. x \in 0 .. 20 /\ x + 1 = c /\ c > 0
        BY <1>1, <1>13, <3>2
      <4>2. /\ x \in Int /\ b \in Nat /\ ChannelOf(cfg, b) \in Nat /\ LaneAt(l1, x, b)
        BY <1>4, <1>8, <1>10, <4>1
      <4>3. x = 4 => NameOf(s2.accq[dwalk.j]) = b
        <5> SUFFICES ASSUME c = 5 PROVE NameOf(s2.accq[dwalk.j]) = b
          BY <4>1
        <5>1. i = 0 /\ a = 0 /\ i < N
          BY <1>10
        <5>2. NameOf(s2.accq[dwalk.j]) = i + 1
          BY <1>7, <5>1
        <5> QED BY <5>1, <5>2 DEF b
      <4>4. x = 8 => Params(rq.par) = ChannelOf(cfg, b)
        BY <1>4, <1>6, <4>1 DEF ch
      <4>5. /\ x \in {17, 19} => rq.dec = ChannelOf(cfg, b)
            /\ x \in {19, 20} => rq.s = ChannelOf(cfg, b)
        BY <1>4, <1>5, <4>1 DEF ch
      <4> HIDE DEF x
      <4>6. LaneAt(NextLane(l1, Acts(x)), x + 1, b)
        BY <4>2, <4>3, <4>4, <4>5, LaneStep
      <4>7. rq.e1 = Acts(x)
        BY <1>2, <4>1 DEF x
      <4> QED BY <1>2, <4>1, <4>6, <4>7
    <3> QED BY <3>1, <3>2
  <2>4. z < N /\ e = 21 => n0.asel = z
    <3> SUFFICES ASSUME z < N, c = 20 PROVE n0.asel = z
      BY <1>1, <2>1
    <3>1. NameOf(s2.accq[dwalk.j]) = z
      BY <1>7, <1>10
    <3>2. "ACC" \in rq.e0
      BY <1>2, ActsAre
    <3>3. n0.asel = NameOf(s2.accq[dwalk.j])
      BY <1>2, <3>2 DEF NextLane
    <3> QED BY <3>1, <3>3
  <2>5. z < N /\ e = 22 => n0.asel = z /\ n1.asel = z + 1
    <3> SUFFICES ASSUME z < N, c = 21 PROVE n0.asel = z /\ n1.asel = z + 1
      BY <1>1, <2>1
    <3>1. NameOf(s2.accq[dwalk.j]) = z + 1 /\ l0.asel = z
      BY <1>7, <1>8, <1>10
    <3>2. "ACC" \in rq.e1 /\ "ACC" \notin rq.e0
      <4>1. rq.e1 = Acts(20) /\ rq.e0 = Acts(21)
        BY <1>2
      <4> QED BY <4>1 DEF Acts
    <3>3. n1.asel = NameOf(s2.accq[dwalk.j]) /\ n0.asel = l0.asel
      BY <1>2, <3>2 DEF NextLane
    <3> QED BY <3>1, <3>3
  <2>6. e - 1 = c /\ e \in 1 .. 22
    BY <1>1, <1>13, <2>1
  <2>7. a < N => LaneAt(n0, e, a) /\ LaneAt(n1, e - 1, b)
    BY <2>1, <2>2, <2>3, <2>6
  <2> QED BY <1>9, <1>11, <2>1, <2>4, <2>5, <2>6, <2>7
<1>14. CASE c = 22
  <2>1. rq.e0 = Acts(22) /\ rq.e1 = Acts(21) /\ 21 \in 21 .. 22 /\ 22 \in 21 .. 22
    BY <1>2, <1>14
  <2>2. a < N => LaneAt(n0, 22, a) /\ LaneAt(n1, 21, b)
    <3> SUFFICES ASSUME a < N PROVE LaneAt(n0, 22, a) /\ LaneAt(n1, 21, b)
      OBVIOUS
    <3>1. c - 1 = 21
      BY <1>14
    <3>2. LaneAt(l0, 22, a) /\ LaneAt(l1, 21, b)
      BY <1>8, <1>14, <3>1
    <3>3. LaneAt(NextLane(l0, Acts(22)), 22, a)
      BY <2>1, <3>2, LaneStays
    <3>4. LaneAt(NextLane(l1, Acts(21)), 21, b)
      BY <2>1, <3>2, LaneStays
    <3>5. n0 = NextLane(l0, Acts(22)) /\ n1 = NextLane(l1, Acts(21))
      BY <1>2, <2>1
    <3> QED BY <3>3, <3>4, <3>5
  <2>3. n0.asel = l0.asel /\ n1.asel = l1.asel
    <3>1. "ACC" \notin Acts(22) /\ "ACC" \notin Acts(21)
      BY DEF Acts
    <3> QED BY <1>2, <2>1, <3>1 DEF NextLane
  <2>4. z < N => n0.asel = z /\ n1.asel = z + 1
    BY <1>8, <1>14, <2>3
  <2>5. CASE ~RqTake
    <3>1. e = 22 /\ y = w
      BY <1>1, <1>14, <2>5
    <3> QED BY <1>9, <1>11, <2>2, <2>4, <3>1
  <2>6. CASE RqTake
    <3>1. e = 8 /\ y = w + 1
      BY <1>1, <2>6
    <3>2. z < N => LaneAt(n0, 8, z) /\ LaneAt(n1, 7, z + 1)
      BY <2>4 DEF LaneAt
    <3> QED BY <1>9, <1>12, <3>1, <3>2
  <2> QED BY <1>1, <2>5, <2>6
<1> QED BY <1>13, <1>14

\* The pairs in the buffer stay in order.
LEMMA SlotsStep ==
  ASSUME TileInv, TableInv, Clock, Draining, cfg.rq, NEW r \in Nat, NEW w \in Nat, w = r + Held,
         LanesInv(w), SlotsInv(r), Held \in 0 .. 2, Held' = (Held + Bit(RqTake)) - Bit(Freed),
         Freed \in BOOLEAN, RqTake \in BOOLEAN, Held = 2 /\ RqTake => Freed, Freed => Held # 0,
         2 * (r + Bit(Freed)) < cfg.nacc, NEW x \in Nat, x = r + Bit(Freed)
  PROVE  SlotsInv(x)'
<1> DEFINE s == rq.slot
           v == rq'.slot
           f == Freed
           t == RqTake
           N == cfg.nacc
           H == Held
           a == rq.wsel
           b == rq.rsel
           d == rq'.rsel
<1>1. /\ a \in {0, 1} /\ b \in {0, 1} /\ (H = 1 => a = 1 - b) /\ (H # 1 => a = b)
      /\ cfg' = cfg /\ N \in Nat /\ 2 * x < N
  <2>1. a \in {0, 1} /\ b \in {0, 1} /\ (H = 1 => a # b) /\ (H # 1 => a = b)
    BY InQuant DEF BufferInv
  <2>2. cfg' = cfg /\ N \in Nat
    BY ClockAlways, NaccIs DEF TileInv
  <2> QED BY <2>1, <2>2
<1>2. d = IF f THEN 1 - b ELSE b
  BY InQuant, EngineIs
<1>3. \A n \in {0, 1} : v[n] = IF t /\ n = a THEN <<lane[0].code, lane[1].code>> ELSE s[n]
  <2>1. v = IF t THEN [s EXCEPT ![a] = <<lane[0].code, lane[1].code>>] ELSE s
    BY InQuant, EngineMore
  <2>2. IsFcn(s, {0, 1})
    BY DEF TableInv
  <2> HIDE DEF s, v, a, t
  <2>3. CASE t
    BY <2>1, <2>2, <2>3 DEF IsFcn
  <2>4. CASE ~t
    BY <2>1, <2>4
  <2> QED BY <2>3, <2>4
<1>4. t => rq.c = 22
  BY StepIs
<1>5. t /\ 2 * w < N => <<lane[0].code, lane[1].code>> = Pair(w)
  <2> SUFFICES ASSUME t, 2 * w < N PROVE <<lane[0].code, lane[1].code>> = Pair(w)
    OBVIOUS
  <2>1. LaneAt(lane[0], 22, 2 * w) /\ LaneAt(lane[1], 21, (2 * w) + 1)
    <3>1. LaneAt(lane[0], rq.c, 2 * w) /\ LaneAt(lane[1], rq.c - 1, (2 * w) + 1)
      BY DEF LanesInv
    <3>2. rq.c - 1 = 21
      BY <1>4
    <3> QED BY <1>4, <3>1, <3>2
  <2>2. lane[0].code = Code(2 * w) /\ lane[1].code = Code((2 * w) + 1)
    <3>1. 22 \in 21 .. 22 /\ 21 \in 21 .. 22
      OBVIOUS
    <3> QED BY <2>1, <3>1 DEF LaneAt
  <2> QED BY <2>2 DEF Pair
<1>6. /\ H > 0 => s[b] = Pair(r)
      /\ H = 2 /\ 2 * (r + 1) < N => s[1 - b] = Pair(r + 1)
  BY DEF SlotsInv
<1>7. (/\ Held' > 0 => v[d] = Pair(x)
       /\ Held' = 2 /\ 2 * (x + 1) < N => v[1 - d] = Pair(x + 1))
      => SlotsInv(x)'
  <2>1. \A k : Pair(k)' = Pair(k)
    BY <1>1 DEF Pair, Code, ChannelOf
  <2> QED BY <1>1, <2>1 DEF SlotsInv, Pair, Code, ChannelOf
<1>8. /\ H \in 0 .. 2 /\ w = r + H
      /\ f => x = r + 1
      /\ ~f => x = r
      /\ t /\ f => Held' = H
      /\ t /\ ~f => Held' = H + 1
      /\ ~t /\ f => Held' = H - 1
      /\ ~t /\ ~f => Held' = H
      /\ H = 2 /\ t => f
      /\ f => H # 0
      /\ t \in BOOLEAN /\ f \in BOOLEAN
  BY DEF Bit
<1> DEFINE K == Held'
<1> HIDE DEF s, v, f, t, N, H, a, b, d, K
<1>9. CASE t /\ f
  <2>1. K = H /\ x = r + 1 /\ d = 1 - b /\ H \in {1, 2}
    BY <1>2, <1>8, <1>9 DEF K
  <2>2. CASE H = 1
    <3>1. a = d /\ w = x /\ d \in {0, 1}
      BY <1>1, <1>8, <2>1, <2>2
    <3>2. v[d] = Pair(x)
      BY <1>1, <1>3, <1>5, <1>9, <3>1
    <3> QED BY <1>7, <2>1, <2>2, <3>2 DEF K
  <2>3. CASE H = 2
    <3>1. a = b /\ w = x + 1 /\ d \in {0, 1} /\ d # a /\ 1 - d = a
      BY <1>1, <1>8, <2>1, <2>3
    <3>2. v[d] = Pair(x)
      BY <1>1, <1>3, <1>6, <2>1, <2>3, <3>1
    <3>3. 2 * (x + 1) < N => v[1 - d] = Pair(x + 1)
      BY <1>1, <1>3, <1>5, <1>9, <3>1
    <3> QED BY <1>7, <3>2, <3>3
  <2> QED BY <2>1, <2>2, <2>3
<1>10. CASE t /\ ~f
  <2>1. K = H + 1 /\ x = r /\ d = b /\ H \in {0, 1}
    BY <1>2, <1>8, <1>10 DEF K
  <2>2. CASE H = 0
    <3>1. a = d /\ w = x /\ d \in {0, 1}
      BY <1>1, <1>8, <2>1, <2>2
    <3>2. v[d] = Pair(x)
      BY <1>1, <1>3, <1>5, <1>10, <3>1
    <3> QED BY <1>7, <2>1, <2>2, <3>2 DEF K
  <2>3. CASE H = 1
    <3>1. a = 1 - d /\ w = x + 1 /\ d \in {0, 1} /\ d # a /\ a \in {0, 1}
      BY <1>1, <1>8, <2>1, <2>3
    <3>2. v[d] = Pair(x)
      BY <1>3, <1>6, <2>1, <2>3, <3>1
    <3>3. 2 * (x + 1) < N => v[1 - d] = Pair(x + 1)
      BY <1>3, <1>5, <1>10, <3>1
    <3> QED BY <1>7, <3>2, <3>3
  <2> QED BY <2>1, <2>2, <2>3
<1>11. CASE ~t /\ f
  <2>1. K = H - 1 /\ x = r + 1 /\ d = 1 - b /\ H \in {1, 2} /\ d \in {0, 1} /\ K # 2
    BY <1>1, <1>2, <1>8, <1>11 DEF K
  <2>2. v[d] = s[d]
    BY <1>3, <1>11, <2>1
  <2>3. CASE H = 1
    BY <1>7, <2>1, <2>3 DEF K
  <2>4. CASE H = 2
    <3>1. v[d] = Pair(x)
      BY <1>1, <1>6, <2>1, <2>2, <2>4
    <3> QED BY <1>7, <2>1, <3>1 DEF K
  <2> QED BY <2>1, <2>3, <2>4
<1>12. CASE ~t /\ ~f
  <2>1. K = H /\ x = r /\ d = b /\ d \in {0, 1} /\ 1 - d \in {0, 1}
    BY <1>1, <1>2, <1>8, <1>12 DEF K
  <2>2. v[d] = s[d] /\ v[1 - d] = s[1 - d]
    BY <1>3, <1>12, <2>1
  <2> QED BY <1>6, <1>7, <2>1, <2>2 DEF K
<1> QED BY <1>8, <1>9, <1>10, <1>11, <1>12

\* The word the buffer offers is the one that is wanted.
LEMMA BufferOffers ==
  ASSUME TileInv, Clock, cfg.rq, NEW r \in Nat, PairInv(r), SlotsInv(r),
         state = "DWAIT", state' = "DHOLD"
  PROVE  out'.dout = Wanted(link.sent)
<1>1. Draining
  BY DEF Draining
<1>2. /\ BufferInv /\ Readout /\ Awaited(3) /\ ShapeInv
  BY <1>1, InQuant
<1>3. rq.sf[rq.rsel] /\ Held # 0 /\ Held \in 0 .. 2
  <2>1. rq.sf[rq.rsel]
    BY StateIs, ClockAlways
  <2> QED BY <1>2, <2>1, HeldIs
<1>4. out' = [dout |-> rq.slot[rq.rsel][IF rq.half THEN 2 ELSE 1], valid |-> TRUE,
              end |-> rq.se[rq.rsel] /\ rq.half]
  BY <1>2, <1>3 DEF Readout
<1>5. out'.dout = rq.slot[rq.rsel][IF rq.half THEN 2 ELSE 1]
  BY <1>4
<1>6. rq.slot[rq.rsel] = Pair(r)
  BY <1>3 DEF SlotsInv
<1>7. link.sent = (2 * r) + Bit(rq.half)
  BY <1>2 DEF PairInv, Awaited, Bit
<1>8. CASE rq.half
  <2>1. link.sent = (2 * r) + 1
    BY <1>7, <1>8 DEF Bit
  <2> QED BY <1>5, <1>6, <1>8, <2>1 DEF Wanted, Pair
<1>9. CASE ~rq.half
  <2>1. link.sent = 2 * r
    BY <1>7, <1>9 DEF Bit
  <2> QED BY <1>5, <1>6, <1>9, <2>1 DEF Wanted, Pair
<1> QED BY <1>8, <1>9

-----------------------------------------------------------------------------
\* A requantized readout, clock by clock.

\* As it starts nothing has been read, made or buffered.
LEMMA QuantStart ==
  ASSUME TileInv, Clock, state = "IDLE", pulse = "drain", cfg.rq
  PROVE  QuantWords'
<1>1. /\ dwalk'.j = 0 /\ dwalk'.g = 0 /\ Addressed' /\ rq'.sec = FALSE /\ cfg' = cfg
  BY WalkStarts
<1>2. ~RqRun /\ ~RqTake /\ ~RqLd
  BY DEF RqRun, RqTake, RqLd, Draining
<1>3. /\ rq'.c = 0 /\ rq'.qb = RQBASE /\ rq'.newch = FALSE /\ rq'.e0 = {} /\ rq'.half = FALSE
      /\ rq'.sf = [i \in {0, 1} |-> FALSE]
  <2>1. rq'.c = 0 /\ rq'.qb = RQBASE /\ rq'.newch = FALSE /\ rq'.e0 = {} /\ rq'.half = FALSE
    BY DEF Clock, Engine
  <2>2. rq'.sf = [i \in {0, 1} |-> FALSE]
    BY DEF Clock, Engine
  <2> QED BY <2>1, <2>2
<1>4. ~rq'.ldq
  <2>1. rq'.ldq = RqLd
    BY DEF Clock, Engine
  <2> QED BY <1>2, <2>1
<1>5. Held' = 0
  BY <1>3 DEF Held, Bit
<1>6. link'.sent = 0 /\ ~link'.rdy
  BY LinkStarts, ClockAlways DEF TileInv
<1>7. ToldInv'
  BY <1>1, <1>3 DEF ToldInv, Acts
<1>8. WalkReadsAt(0)'
  <2>1. RQBASE = RQBASE + (6 * ((0 * NMAC) + 0))
    BY Constants, DeviceAssumption
  <2> QED BY <1>1, <1>3, <2>1 DEF WalkReadsAt
<1>9. ParamsInv(0)'
  BY <1>3, <1>4 DEF ParamsInv
<1>10. LanesInv(0)'
  BY <1>3 DEF LanesInv, LaneAt
<1>11. SlotsInv(0)'
  BY <1>5 DEF SlotsInv
<1>12. SUFFICES ASSUME NEW r \in 0 .. cfg.nacc, NEW w \in {r + Held'},
                       NEW i \in {IF rq'.c <= 6 THEN 0 ELSE 2 * (w + 1)},
                       link'.sent = (2 * r) + Bit(rq'.half) + Bit(link'.rdy)
                PROVE  (WalkReadsAt(i) /\ ParamsInv(w) /\ LanesInv(w) /\ SlotsInv(r))'
  BY <1>1, <1>7 DEF QuantWords
<1>13. r = 0
  BY <1>3, <1>6, <1>12 DEF Bit
<1>14. w = 0 /\ i = 0
  BY <1>3, <1>5, <1>12, <1>13
<1> QED BY <1>8, <1>9, <1>10, <1>11, <1>13, <1>14

\* Two numbers of whole pairs are told from the words sent.
LEMMA OnePair ==
  ASSUME NEW r \in Nat, NEW x \in Nat, NEW h, NEW k,
         (2 * r) + Bit(h) + Bit(k) = (2 * x) + Bit(h) + Bit(k)
  PROVE  r = x
<1>1. Bit(h) \in Int /\ Bit(k) \in Int
  BY DEF Bit
<1> QED BY <1>1

\* A clock of it: the next pair's walk, its parameters and its lanes, and the buffer.
LEMMA QuantStep ==
  ASSUME TileInv, DataInv, TableInv, SumsHeld, CentresInside, Clock, Draining, cfg.rq,
         Draining', QuantWords
  PROVE  QuantWords'
<1>1. cfg' = cfg
  BY ClockAlways
<1>2. PICK r \in Nat : PairInv(r)
  BY DEF TileInv, QuantInv
<1>3. r + Held \in Nat
  BY <1>2, QuantMoves
<1>4. PICK w \in Nat : w = r + Held
  BY <1>3
<1>5. PICK i \in Nat : i = IF rq.c <= 6 THEN 0 ELSE 2 * (w + 1)
  BY <1>4
<1>6. /\ 2 * r < cfg.nacc /\ cfg.nacc \in Nat
      /\ link.sent = (2 * r) + Bit(rq.half) + Bit(link.rdy)
      /\ link'.sent = (2 * (r + Bit(Freed))) + Bit(rq'.half) + Bit(link'.rdy)
      /\ (r + Bit(Freed)) + Held' = w + Bit(RqTake) /\ 2 * (r + Bit(Freed)) < cfg.nacc
      /\ (rq.c <= 6 => w = 0) /\ NamesPair(i)
      /\ Freed \in BOOLEAN /\ RqTake \in BOOLEAN
      /\ Held \in 0 .. 2 /\ Held' = (Held + Bit(RqTake)) - Bit(Freed)
      /\ (Held = 2 /\ RqTake => Freed) /\ (Freed => Held # 0)
  BY <1>2, <1>4, <1>5, QuantMoves
<1>7. r + Bit(Freed) \in Nat /\ w + Bit(RqTake) \in Nat
  BY <1>2, <1>4 DEF Bit
<1>8. PICK x \in Nat : x = r + Bit(Freed)
  BY <1>7
<1>9. PICK y \in Nat : y = w + Bit(RqTake)
  BY <1>7
<1>10. ToldInv /\ WalkReadsAt(i) /\ ParamsInv(w) /\ LanesInv(w) /\ SlotsInv(r)
  <2>1. r \in 0 .. cfg.nacc /\ w \in {r + Held} /\ i \in {IF rq.c <= 6 THEN 0 ELSE 2 * (w + 1)}
    BY <1>2, <1>4, <1>5, <1>6
  <2> QED BY <1>6, <2>1 DEF QuantWords
<1>11. /\ rq.c \in 0 .. 22 /\ rq'.c \in 0 .. 22
       /\ RqTake => rq.c = 22 /\ rq'.c = 8
       /\ ~RqTake => rq'.c = IF rq.c # 22 THEN rq.c + 1 ELSE 22
       /\ RqAdv <=> rq.c = 6 \/ RqTake
  BY StepIs
<1>12. ToldInv'
  BY <1>10, ToldStep
<1>13. /\ ~RqAdv => WalkReadsAt(i)'
       /\ RqAdv /\ i < cfg.nacc /\ (rq.c = 6 \/ rq.c = 22) => WalkReadsAt(i + 2)'
  BY <1>5, <1>6, <1>10, WalkReadsStep
<1>14. 0 < cfg.nacc
  BY <1>2, <1>6
<1>15. ParamsInv(y)'
  BY <1>4, <1>5, <1>6, <1>9, <1>10, <1>14, ParamsStep
<1>16. LanesInv(y)'
  BY <1>4, <1>5, <1>6, <1>9, <1>10, <1>14, LanesStep
<1>17. SlotsInv(x)'
  BY <1>2, <1>4, <1>6, <1>8, <1>10, SlotsStep
<1>18. PICK z \in Nat : z = IF rq'.c <= 6 THEN 0 ELSE 2 * (y + 1)
  BY <1>9
<1>19. WalkReadsAt(z)'
  <2>1. CASE ~RqAdv
    <3>1. ~RqTake /\ rq.c # 6
      BY <1>11, <2>1
    <3>2. y = w
      BY <1>4, <1>9, <3>1 DEF Bit
    <3>3. rq.c <= 6 <=> rq'.c <= 6
      BY <1>11, <3>1
    <3>4. z = i
      BY <1>5, <1>18, <3>2, <3>3
    <3> QED BY <1>13, <2>1, <3>4
  <2>2. CASE RqAdv
    <3>1. (rq.c = 6 \/ rq.c = 22) /\ (rq'.c = 7 \/ rq'.c = 8)
      BY <1>11, <2>2
    <3>2. z = i + 2
      <4>1. CASE RqTake
        BY <1>4, <1>5, <1>9, <1>11, <1>18, <4>1 DEF Bit
      <4>2. CASE ~RqTake
        BY <1>4, <1>5, <1>6, <1>9, <1>11, <1>18, <2>2, <4>2 DEF Bit
      <4> QED BY <1>6, <4>1, <4>2
    <3>3. CASE i < cfg.nacc
      BY <1>13, <2>2, <3>1, <3>2, <3>3
    <3>4. CASE ~(i < cfg.nacc)
      <4>1. ~(z < cfg'.nacc)
        BY <1>1, <1>5, <1>6, <3>2, <3>4
      <4> QED BY <4>1 DEF WalkReadsAt
    <3> QED BY <3>3, <3>4
  <2> QED BY <2>1, <2>2
<1>20. SUFFICES ASSUME NEW r2 \in 0 .. cfg.nacc, NEW w2 \in {r2 + Held'},
                       NEW i2 \in {IF rq'.c <= 6 THEN 0 ELSE 2 * (w2 + 1)},
                       link'.sent = (2 * r2) + Bit(rq'.half) + Bit(link'.rdy)
                PROVE  WalkReadsAt(i2)' /\ ParamsInv(w2)' /\ LanesInv(w2)' /\ SlotsInv(r2)'
  BY <1>1, <1>12 DEF QuantWords
<1>21. r2 = x
  <2>1. r2 \in Nat /\ link'.sent = (2 * x) + Bit(rq'.half) + Bit(link'.rdy)
    BY <1>6, <1>8
  <2> QED BY <1>8, <1>20, <2>1, OnePair
<1>22. w2 = y
  BY <1>6, <1>8, <1>9, <1>20, <1>21
<1>23. i2 = z
  BY <1>18, <1>20, <1>22
<1> QED BY <1>15, <1>16, <1>17, <1>19, <1>21, <1>22, <1>23

\* The byte it offers is the next.
LEMMA QuantOffers ==
  ASSUME TileInv, Clock, cfg.rq, QuantWords, state = "DWAIT", state' = "DHOLD"
  PROVE  out'.dout = Wanted(link.sent)
<1>1. Draining
  BY DEF Draining
<1>2. PICK r \in Nat : PairInv(r)
  BY <1>1 DEF TileInv, QuantInv
<1> DEFINE w == r + Held
           i == IF rq.c <= 6 THEN 0 ELSE 2 * (w + 1)
<1>3. link.sent = (2 * r) + Bit(rq.half) + Bit(link.rdy) /\ 2 * r < cfg.nacc
  BY <1>2 DEF PairInv
<1>4. cfg.nacc \in Int
  <2>1. cfg.nacc = cfg.P * (cfg.QG * NMAC) /\ cfg.P \in Nat /\ cfg.QG \in Nat
    BY DEF TileInv, GeomInv
  <2>2. cfg.QG * NMAC \in Nat
    BY <2>1, Constants, Times
  <2> QED BY <2>1, <2>2, Times
<1>5. SlotsInv(r)
  <2>1. r \in 0 .. cfg.nacc /\ w \in {r + Held} /\ i \in {IF rq.c <= 6 THEN 0 ELSE 2 * (w + 1)}
    BY <1>2, <1>3, <1>4
  <2> HIDE DEF w, i
  <2> QED BY <1>1, <1>3, <2>1 DEF QuantWords
<1> QED BY <1>2, <1>5, BufferOffers

-----------------------------------------------------------------------------
\* The steps of a readout's invariant.

\* A clock leaves the table, and what the host knows of it.
LEMMA TableClock ==
  ASSUME TileInv, TableInv, Clock
  PROVE  TableInv'
<1>1. /\ strip' = strip /\ host'.blk = host.blk /\ host'.do = host.do /\ cfg' = cfg
      /\ layer' = layer /\ plan' = plan
  BY ClockKeeps
<1>2. host'.table = host.table
  BY DEF Clock, TileInv, ShapeInv, IsRecord
<1>3. IsFcn(rq'.par, 1 .. 6)
  <2>1. rq'.par = IF rq.ldq THEN SubSeq(rq.par, 2, 6) \o <<StripQ>> ELSE rq.par
    BY DEF Clock, Engine
  <2>2. IsFcn(rq.par, 1 .. 6)
    BY DEF TableInv
  <2>3. IsFcn(SubSeq(rq.par, 2, 6) \o <<StripQ>>, 1 .. 6)
    BY <2>2, ParShift
  <2> QED BY <2>1, <2>2, <2>3
<1>4. IsFcn(rq'.slot, {0, 1})
  <2>1. rq'.slot = IF RqTake
                   THEN [rq.slot EXCEPT ![rq.wsel] = <<lane[0].code, lane[1].code>>]
                   ELSE rq.slot
    BY DEF Clock, Engine
  <2> QED BY <2>1 DEF TableInv, IsFcn
<1> QED BY <1>1, <1>2, <1>3, <1>4 DEF TableInv

\* A clock of the whole.
LEMMA OrderClock ==
  ASSUME CentresInside, TileInv, DataInv, OrderInv, Clock
  PROVE  OrderInv'
<1>1. SumsHeld /\ LinkWords /\ PlainWords /\ TableInv /\ QuantWords
  BY DEF OrderInv
<1>2. SumsHeld' /\ TableInv'
  BY <1>1, SumsStay, TableClock
<1>3. PlainWords' /\ (~cfg.rq /\ state = "DWAIT" => out'.dout = Wanted(link.sent))
  BY <1>1, PlainStep
<1>4. cfg.rq \in BOOLEAN /\ cfg' = cfg
  BY ClockAlways DEF TileInv, GeomInv
<1>5. LinkWords'
  <2>1. state = "DWAIT" /\ state' = "DHOLD" => out'.dout = Wanted(link.sent)
    BY <1>1, <1>3, <1>4, QuantOffers
  <2> QED BY <1>1, <2>1, LinkStep
<1>6. QuantWords'
  <2>1. CASE Draining' /\ cfg.rq
    <3>1. CASE Draining
      BY <1>1, <2>1, <3>1, QuantStep
    <3>2. CASE ~Draining
      <4>1. state = "IDLE" /\ pulse = "drain"
        BY <2>1, <3>2, DrainingBegins
      <4> QED BY <2>1, <4>1, QuantStart
    <3> QED BY <3>1, <3>2
  <2>2. CASE ~(Draining' /\ cfg.rq)
    BY <1>4, <2>2 DEF QuantWords
  <2> QED BY <2>1, <2>2
<1> QED BY <1>2, <1>3, <1>5, <1>6 DEF OrderInv

\* Where no readout is under way there is only the table to speak of.
LEMMA OrderRests ==
  ASSUME state = "IDLE", ~link.on, TableInv
  PROVE  OrderInv
BY DEF OrderInv, SumsHeld, LinkWords, PlainWords, QuantWords, Draining

\* The host moves when there is none, and starts none itself.
LEMMA OrderHost ==
  ASSUME TileInv, Ready, UNCHANGED <<state, readout>>, TableInv'
  PROVE  OrderInv'
<1>1. state' = "IDLE" /\ ~link'.on
  BY ReadyRests DEF Resting, readout
<1>2. (state = "IDLE" /\ ~link.on /\ TableInv)'
  BY <1>1
<1> QED BY <1>2, OrderRests, PTL

\* To begin with there is no table.
LEMMA OrderInit == Init => OrderInv
<1> SUFFICES ASSUME Init PROVE OrderInv
  OBVIOUS
<1>1. state = "IDLE" /\ ~link.on
  BY DEF Init
<1>2. host.do = "cfg" /\ host.table = None
  BY DEF Init
<1>3. IsFcn(rq.par, 1 .. 6)
  BY DEF Init, IsFcn
<1>4. IsFcn(rq.slot, {0, 1})
  BY DEF Init, IsFcn
<1>5. TableInv
  BY <1>2, <1>3, <1>4 DEF TableInv, HasTable
<1> QED BY <1>1, <1>5, OrderRests

\* The table written is the block's, six bytes to a channel.
LEMMA TableWritten ==
  ASSUME NEW g, g.Q = plan.QG * NMAC, g.Q \in Nat, g.Q <= MAXQ, g.q0 \in Nat,
         DOMAIN strip = 0 .. (STRIPD - 1),
         NEW q \in 0 .. ((plan.QG * NMAC) - 1), NEW b \in 0 .. 5
  PROVE  Store(RQBASE, TableBytes(g))[RQBASE + ((6 * q) + b)] = <<g.q0 + q, b>>
<1> DEFINE a == (6 * q) + b
           B == TableBytes(g)
           Q == g.Q
<1>1. Q \in Nat /\ q \in 0 .. (Q - 1) /\ Q <= MAXQ
  BY Zenon
<1>2. a \in 0 .. ((6 * Q) - 1)
  <2> HIDE DEF Q
  <2> QED BY <1>1
<1>3. a \div 6 = q /\ a % 6 = b
  <2> HIDE DEF Q
  <2> QED BY <1>1
<1>4. B = [x \in 0 .. ((6 * Q) - 1) |-> <<g.q0 + (x \div 6), x % 6>>]
  BY DEF TableBytes
<1> HIDE DEF a, B, Q
<1>5. DOMAIN B = 0 .. ((6 * Q) - 1) /\ B[a] = <<g.q0 + q, b>>
  BY <1>2, <1>3, <1>4
<1>6. RQBASE + a \in 0 .. (STRIPD - 1) /\ (RQBASE + a) - RQBASE = a
  BY <1>1, <1>2, DeviceAssumption
<1>7. Store(RQBASE, B) = [x \in 0 .. (STRIPD - 1) |-> IF x - RQBASE \in DOMAIN B THEN B[x - RQBASE]
                                                     ELSE strip[x]]
  BY DEF Store
<1>8. Store(RQBASE, B)[RQBASE + a] = <<g.q0 + q, b>>
  BY <1>2, <1>5, <1>6, <1>7
<1> QED BY <1>8 DEF a, B

\* A block's geometry and, if the channels are others, their table.
LEMMA TableConfigure ==
  ASSUME TileInv, DataInv, TableInv, Configure
  PROVE  TableInv'
<1>1. /\ UNCHANGED <<rigid, wbuf, accram, wgt, pulse, state, sweep, readout>>
      /\ cfg' = Block(layer, plan, host.blk) /\ host.do = "cfg"
      /\ strip' = IF cfg'.rq /\ host.table # cfg'.q0 THEN Store(RQBASE, TableBytes(cfg'))
                  ELSE strip
      /\ host' = [host EXCEPT !.do = "pass", !.pass = 0,
                              !.table = IF cfg'.rq THEN cfg'.q0 ELSE @]
  BY DEF Configure
<1>2. layer' = layer /\ plan' = plan /\ rq' = rq
  BY <1>1 DEF rigid, readout
<1>3. /\ host'.do = "pass" /\ host'.blk = host.blk
      /\ host'.table = IF cfg'.rq THEN cfg'.q0 ELSE host.table
  BY <1>1 DEF TileInv, ShapeInv, IsRecord
<1>4. host.blk \in 0 .. (NBlocks(layer, plan) - 1) /\ DOMAIN strip = 0 .. (STRIPD - 1)
  BY <1>1 DEF DataInv, CfgInv, MemInv
<1>5. layer \in Layers
  BY DEF TileInv, GeomInv
<1>6. PICK r \in BOOLEAN : plan \in Plans(layer, r)
  BY DEF TileInv, GeomInv
<1>7. Fits(cfg')
  BY <1>1, <1>4, <1>5, <1>6, BlockFits
<1>8. 0 \in 0 .. (NBlocks(layer, plan) - 1)
  <2> DEFINE N == NBlocks(layer, plan)
  <2>1. N \in Nat
    BY <1>5, <1>6, BlocksAreNat
  <2> HIDE DEF N
  <2> QED BY <1>4, <2>1 DEF N
<1>9. cfg'.rq = Block(layer, plan, 0).rq /\ cfg'.Q = plan.QG * NMAC
  <2>1. /\ Sized(Block(layer, plan, host.blk)) = Sized(Geom(layer, plan, 0, 0, 0))
        /\ Block(layer, plan, host.blk).Q = plan.QG * NMAC
    BY <1>4, <1>5, <1>6, BlockSize
  <2>2. Sized(Block(layer, plan, 0)) = Sized(Geom(layer, plan, 0, 0, 0))
    BY <1>5, <1>6, <1>8, BlockSize
  <2>3. Sized(cfg') = Sized(Block(layer, plan, 0))
    BY <1>1, <2>1, <2>2, Zenon
  <2>4. cfg'.rq = Block(layer, plan, 0).rq
    BY <2>3, SizedIs, Zenon
  <2> QED BY <1>1, <2>1, <2>4
<1>10. cfg'.rq => cfg'.Q <= MAXQ
  <2>1. \E p, q0, oy0, ox0 : cfg' = Geom(layer, p, q0, oy0, ox0)
    BY <1>1, Zenon DEF Block
  <2>2. PICK p, q0, oy0, ox0 : cfg' = Geom(layer, p, q0, oy0, ox0)
    BY <2>1
  <2> QED BY <2>2, Zenon DEF Geom
<1>11. cfg'.q0 \in Nat /\ cfg'.Q \in Nat
  <2>1. cfg'.q0 \in Nat /\ cfg'.QG \in Nat /\ cfg'.Q = cfg'.QG * NMAC
    BY <1>7 DEF Fits
  <2> QED BY <2>1, Constants, Times
<1>12. cfg'.rq \in BOOLEAN
  BY ConfigureStep DEF TileInv, GeomInv
<1>13. host'.table # None =>
         /\ host'.table \in Nat /\ Block(layer, plan, 0).rq
         /\ \A q \in 0 .. ((plan.QG * NMAC) - 1), b \in 0 .. 5 :
              strip'[RQBASE + ((6 * q) + b)] = <<host'.table + q, b>>
  <2>1. CASE cfg'.rq /\ host.table # cfg'.q0
    <3>1. \A q \in 0 .. ((plan.QG * NMAC) - 1), b \in 0 .. 5 :
            Store(RQBASE, TableBytes(cfg'))[RQBASE + ((6 * q) + b)] = <<cfg'.q0 + q, b>>
      BY <1>4, <1>9, <1>10, <1>11, <2>1, TableWritten
    <3> QED BY <1>1, <1>3, <1>9, <1>11, <2>1, <3>1
  <2>2. CASE cfg'.rq /\ host.table = cfg'.q0
    <3>1. host.table # None /\ host'.table = host.table /\ strip' = strip
      BY <1>1, <1>3, <1>11, <2>2, MarkAssumption
    <3> QED BY <3>1 DEF TableInv
  <2>3. CASE ~cfg'.rq
    <3>1. host'.table = host.table /\ strip' = strip
      BY <1>1, <1>3, <2>3
    <3> QED BY <3>1 DEF TableInv
  <2> QED BY <1>12, <2>1, <2>2, <2>3
<1>14. host'.do \in HasTable =>
         cfg' = Block(layer, plan, host'.blk) /\ (cfg'.rq => host'.table = cfg'.q0)
  BY <1>1, <1>3
<1> QED BY <1>2, <1>13, <1>14 DEF TableInv

\* A pass's strip is below it.
LEMMA TablePass ==
  ASSUME TileInv, DataInv, TableInv, Pass
  PROVE  TableInv'
<1>1. /\ UNCHANGED <<rigid, cfg, accram, state, sweep, readout>> /\ host.do = "pass"
      /\ strip' = Store(0, StripBytes(cfg, host.pass))
      /\ host' = [host EXCEPT !.do = "run", !.clocks = 0]
  BY DEF Pass
<1>2. layer' = layer /\ plan' = plan /\ rq' = rq /\ cfg' = cfg
  BY <1>1 DEF rigid, readout
<1>3. host'.do = "run" /\ host'.blk = host.blk /\ host'.table = host.table
  BY <1>1 DEF TileInv, ShapeInv, IsRecord
<1>4. /\ Fits(cfg) /\ cfg.rq = Block(layer, plan, 0).rq /\ cfg.Q = plan.QG * NMAC
      /\ cfg.rq => cfg.Q <= MAXQ /\ cfg.a_len <= RQBASE
  BY <1>1, CfgIs DEF HasTable
<1>5. DOMAIN strip = 0 .. (STRIPD - 1)
  BY DEF DataInv, MemInv
<1>6. cfg.a_len \in Nat /\ cfg.Q \in Nat
  <2>1. /\ cfg.strip_ch \in Nat /\ cfg.Cb \in Nat /\ cfg.a_len = cfg.Cb * cfg.strip_ch
        /\ cfg.QG \in Nat /\ cfg.Q = cfg.QG * NMAC
    BY <1>4 DEF Fits
  <2> QED BY <2>1, Constants, Times
<1>7. ASSUME host.table # None, NEW q \in 0 .. ((plan.QG * NMAC) - 1), NEW b \in 0 .. 5
      PROVE  strip'[RQBASE + ((6 * q) + b)] = strip[RQBASE + ((6 * q) + b)]
  <2>1. cfg.rq
    BY <1>4, <1>7 DEF TableInv
  <2> DEFINE a == RQBASE + ((6 * q) + b)
             B == StripBytes(cfg, host.pass)
             n == cfg.a_len
             Q == cfg.Q
  <2>2. n <= RQBASE /\ n \in Nat /\ Q <= MAXQ /\ Q \in Nat /\ q \in 0 .. (Q - 1)
    BY <1>4, <1>6, <1>7, <2>1
  <2>3. DOMAIN B = 0 .. (n - 1)
    BY DEF StripBytes
  <2> HIDE DEF B, n, Q
  <2>4. a \in 0 .. (STRIPD - 1) /\ ~(a - 0 \in 0 .. (n - 1))
    BY <1>7, <2>2, DeviceAssumption
  <2> HIDE DEF a
  <2>5. strip' = [x \in 0 .. (STRIPD - 1) |-> IF x - 0 \in DOMAIN B THEN B[x - 0] ELSE strip[x]]
    BY <1>1, <1>5 DEF Store, B
  <2>6. strip'[a] = strip[a]
    BY <2>3, <2>4, <2>5
  <2> QED BY <2>6 DEF a
<1>8. cfg' = Block(layer, plan, host'.blk) /\ (cfg'.rq => host'.table = cfg'.q0)
  BY <1>1, <1>2, <1>3 DEF TableInv, HasTable
<1> QED BY <1>2, <1>3, <1>7, <1>8 DEF TableInv

\* The response of a run, and that of a drain.
LEMMA TableAnswered ==
  ASSUME TileInv, TableInv, Swept \/ Drained
  PROVE  TableInv'
<1>1. /\ layer' = layer /\ plan' = plan /\ rq' = rq /\ cfg' = cfg /\ strip' = strip
  BY DEF Swept, Drained, rigid, readout, memory
<1>2. host'.table = host.table
  BY DEF Swept, Drained, TileInv, ShapeInv, IsRecord
<1>3. CASE Swept
  <2>1. host.do = "run" /\ host'.blk = host.blk
    BY <1>3 DEF Swept, TileInv, ShapeInv, IsRecord
  <2> QED BY <1>1, <1>2, <2>1 DEF TableInv, HasTable
<1>4. CASE Drained
  <2>1. host'.do \in {"cfg", "over"}
    BY <1>4 DEF Drained, TileInv, ShapeInv, IsRecord
  <2> QED BY <1>1, <1>2, <2>1 DEF TableInv, HasTable
<1> QED BY <1>3, <1>4

\* Nothing moves.
LEMMA OrderStutter ==
  ASSUME OrderInv, UNCHANGED vars
  PROVE  OrderInv'
<1>1. /\ layer' = layer /\ plan' = plan /\ host' = host /\ cfg' = cfg /\ strip' = strip
      /\ accram' = accram /\ state' = state /\ s2' = s2 /\ dwalk' = dwalk /\ rq' = rq
      /\ lane' = lane /\ out' = out /\ link' = link /\ kpack' = kpack
  BY DEF vars, rigid, memory, sweep, readout
<1>2. SumsHeld' /\ PlainWords'
  BY <1>1 DEF OrderInv, SumsHeld, PlainWords, Draining, Outputs, SumAt, Addressed
<1>3. LinkWords'
  BY <1>1, WantedStays DEF OrderInv, LinkWords
<1>4. TableInv'
  BY <1>1 DEF OrderInv, TableInv
<1>5. QuantWords'
  <2>1. /\ ToldInv' = ToldInv /\ Held' = Held /\ Draining' = Draining
        /\ \A i : WalkReadsAt(i)' = WalkReadsAt(i)
    BY <1>1 DEF ToldInv, Held, Draining, WalkReadsAt, Addressed
  <2>2. \A i : ParamsInv(i)' = ParamsInv(i)
    BY <1>1 DEF ParamsInv, StripQ, Has, ChannelOf
  <2>3. \A i : LanesInv(i)' = LanesInv(i)
    BY <1>1 DEF LanesInv, LaneAt, ChannelOf, OfSum, Product, Code
  <2>4. \A i : SlotsInv(i)' = SlotsInv(i)
    BY <1>1, <2>1 DEF SlotsInv, Pair, Code, ChannelOf
  <2> QED BY <1>1, <2>1, <2>2, <2>3, <2>4 DEF OrderInv, QuantWords
<1> QED BY <1>2, <1>3, <1>4, <1>5 DEF OrderInv

\* Every step.
LEMMA OrderStep ==
  CentresInside /\ TileInv /\ DataInv /\ OrderInv /\ [Next]_vars => OrderInv'
<1> SUFFICES ASSUME CentresInside, TileInv, DataInv, OrderInv, [Next]_vars PROVE OrderInv'
  OBVIOUS
<1>1. TableInv
  BY DEF OrderInv
<1>2. CASE Configure
  BY <1>1, <1>2, TableConfigure, OrderHost DEF Configure
<1>3. CASE Pass
  BY <1>1, <1>3, TablePass, OrderHost DEF Pass
<1>4. CASE Swept
  BY <1>1, <1>4, TableAnswered, OrderHost DEF Swept
<1>5. CASE Drained
  BY <1>1, <1>5, TableAnswered, OrderHost DEF Drained
<1>6. CASE Clock
  BY <1>6, OrderClock
<1>7. CASE UNCHANGED vars
  BY <1>7, OrderStutter
<1> QED BY <1>2, <1>3, <1>4, <1>5, <1>6, <1>7 DEF Next, Over

\* The words, whatever the tile and the layer: the sums hold still under the readout; the
\* walk reads each when it is due, and its channel's parameters from the table; a lane has
\* at each step of the schedule what that output's code is made of, the parameters of the
\* next channel coming in behind; the pairs pass through the buffer, and the serializer has
\* the word that is next.
THEOREM OrderInductive == EvenRows /\ CentresInside => (Spec => []OrderInv)
<1> SUFFICES ASSUME EvenRows, CentresInside PROVE Spec => []OrderInv
  OBVIOUS
<1>1. Init => OrderInv
  BY OrderInit
<1>2. TileInv /\ DataInv /\ OrderInv /\ [Next]_vars => OrderInv'
  BY OrderStep
<1> QED BY <1>1, <1>2, TileInductive, DataInductive, PTL DEF Spec

\* The invariant says so.
LEMMA OrderTells == OrderInv => WordsAreInOrder
BY DEF OrderInv, LinkWords, Wanted, WordsAreInOrder

\* Whatever layer is run, however it is blocked, word by word or requantized, the words
\* gemm_link sends are the block's outputs in the order the host scatters them in and, of a
\* requantized readout, each is its own sum's code, under its own channel's parameters, with
\* all the digits of its multiplier, though two lanes a clock apart make them in pairs while
\* the next channel's parameters are read, and a pair waits in the buffer for the link.
THEOREM WordsAreRight == EvenRows /\ CentresInside => (Spec => []WordsAreInOrder)
<1> SUFFICES ASSUME EvenRows, CentresInside PROVE Spec => []WordsAreInOrder
  OBVIOUS
<1>1. Spec => []OrderInv
  BY OrderInductive
<1> QED
  BY <1>1, OrderTells, PTL
=============================================================================
