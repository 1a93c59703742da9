----------------------------- MODULE FrameEngine -----------------------------
(***************************************************************************)
(* firmware/frame.c, from ft_frame_reset() to the end of the last          *)
(* ft_layer(): core 0 walks the blocks of a layer, moving each over the    *)
(* link in passes, while core 1 builds the next pass and decodes and       *)
(* scatters the previous block, through the two queues of JobQueues.       *)
(*                                                                         *)
(* Data is a tag: what layer, block and pass a buffer's bytes belong to.   *)
(* A pc of core 0 is the work in progress there, and a running job the     *)
(* work in progress on core 1, so two of them that touch one buffer are a  *)
(* race.  The link is the driver's contract (GemmHost): a transaction that *)
(* is damaged makes some call return an error, at the latest the first one *)
(* that asks for the tile's status.                                        *)
(***************************************************************************)
EXTENDS Naturals, Sequences

CONSTANTS
  NLayers,     \* convolution layers, 1 .. NLayers; 0 is the camera's frame
  NBlocks,     \* blocks of a layer
  PosBlocks,   \* of which so many in a row share their output channels
  NPass,       \* passes of a block
  Plans,       \* per layer: does the tile requantize it, do its weights fit the cache
  Slots,       \* W1_SLOTS
  MaxFaults,   \* bound: transactions damaged or refused
  MaxFrames,   \* bound: frames
  Nobody

ASSUME EngineAssumption ==
  /\ NLayers \in Nat \ {0} /\ NBlocks \in Nat \ {0} /\ PosBlocks \in Nat \ {0}
  /\ NPass \in Nat \ {0} /\ Slots \in Nat \ {0}
  /\ Plans \subseteq [1 .. NLayers -> [rq : BOOLEAN, fits : BOOLEAN]]

HI == "hi"
LO == "lo"
Queues == {HI, LO}
Layers == 1 .. NLayers
Blocks == 0 .. (NBlocks - 1)
Passes == 0 .. (NPass - 1)
ChannelBlock(b) == b \div PosBlocks
Other(i) == 1 - i

VARIABLES
  mode,        \* which work core 1 does, and how, and the plan; see ft_set_mode()
  queue, running, tail,      \* the worker; tail counts the jobs a queue has done
  tk_s, tk_w, tk_scat, tk_dec,   \* the tickets core 0 holds, by half or buffer
  pc, layer, b, pass,        \* where core 0 is
  gcur, scatLive,            \* which half of got[] and rxd[]; is its ticket one
  wHit,                      \* this block's weights are in the cache
  strip, wstream, wcache,    \* what was built where
  wck, rqk,                  \* the keys of the weight cache and of the tile's table
  armed, rxd, got,           \* DRAIN: descriptor, response, accumulators
  tensor,                    \* the layer's output, per block
  tile,                      \* what the tile holds
  lost,                      \* a damaged transaction no call has reported yet
  err, c1err,                \* run_block()'s result, and core 1's
  frames, faults,
  hurt                       \* history: something was damaged that this frame may see

worker == <<queue, running, tail>>
tickets == <<tk_s, tk_w, tk_scat, tk_dec>>
where  == <<layer, b, pass>>
built  == <<strip, wstream, wcache, wck>>
drains == <<armed, rxd, got>>
vars == <<mode, queue, running, tail, tk_s, tk_w, tk_scat, tk_dec, pc, layer, b,
          pass, gcur, scatLive, wHit, strip, wstream, wcache, wck, rqk, armed, rxd,
          got, tensor, tile, lost, err, c1err, frames, faults, hurt>>

\* What a buffer holds.  "wrong" is any bytes but the ones wanted; a response
\* that "fails" its CRC is told apart from one that is wrong.
None  == <<"none">>
Wrong == <<"wrong">>
Fails == <<"fails">>

JQ == INSTANCE JobQueues WITH Jobs <- {}, Depth <- Slots

StripTag(p) == <<layer, b, p>>
WgtTag(p)   == <<layer, ChannelBlock(b), p>>
BlockTag    == <<layer, b>>
TableTag    == <<layer, ChannelBlock(b)>>

\* A job names its buffers, and reads g - the block core 0 is on - when it runs.
Build(kind, p, i) == [kind |-> kind, pass |-> p, buf |-> i]
Decode(i)         == [kind |-> "decode", buf |-> i]
Scatter(i, blk)   == [kind |-> "scatter", buf |-> i, block |-> blk]

build_q == IF mode.prio THEN HI ELSE LO

\* w1_post() returns the number of the job in its queue; w1_wait() waits until that
\* queue, whichever queue the job is in, has done more jobs than that.
Ticket(q)  == tail[q] + Len(queue[q])
Done(q, t) == tail[q] > t
Counted    == tail' = [tail EXCEPT ![running[1]] = @ + 1]
Drained == \A q \in Queues : queue[q] = <<>>

\* Where the weights of pass p are built: a slot of the cache if all passes fit.
WgtPlace(p) == IF mode.plan[layer].fits THEN <<"wcache", p>> ELSE <<"wstream", p % 2>>
WgtAt(p)    == IF mode.plan[layer].fits THEN wcache[p] ELSE wstream[p % 2]
PutWgt(p)   == IF mode.plan[layer].fits
               THEN wcache' = [wcache EXCEPT ![p] = WgtTag(p)] /\ UNCHANGED wstream
               ELSE wstream' = [wstream EXCEPT ![p % 2] = WgtTag(p)] /\ UNCHANGED wcache

FreshTile == [strip |-> None, wgt |-> None, acc |-> None, table |-> None,
              cfg |-> None]

Init ==
  /\ mode \in [build : BOOLEAN, scatter : BOOLEAN, decode : BOOLEAN,
               prio : BOOLEAN, plan : Plans]
  /\ JQ!AbsInit
  /\ tail = [q \in Queues |-> 0] /\ tk_dec = 0
  /\ tk_s = [i \in {0, 1} |-> 0] /\ tk_w = tk_s /\ tk_scat = tk_s
  /\ pc = "reset" /\ layer = 1 /\ b = 0 /\ pass = 0
  /\ gcur = 0 /\ scatLive = [i \in {0, 1} |-> FALSE] /\ wHit = FALSE
  /\ strip = [i \in {0, 1} |-> None] /\ wstream = [i \in {0, 1} |-> None]
  /\ wcache = [p \in Passes |-> None] /\ wck = None /\ rqk = None
  /\ armed = [i \in {0, 1} |-> FALSE]
  /\ rxd = [i \in {0, 1} |-> None] /\ got = [i \in {0, 1} |-> None]
  /\ tensor = [k \in Blocks |-> None]
  /\ tile = FreshTile /\ lost = FALSE /\ err = FALSE /\ c1err = FALSE
  /\ frames = 0 /\ faults = 0 /\ hurt = FALSE

-----------------------------------------------------------------------------
(***************************************************************************)
(* The link.  A transaction that succeeds has its effect, Done; a damaged  *)
(* one leaves the tile holding something else, Hurt, and is reported by    *)
(* this call or a later one.  A call that asks for status reports it.      *)
(***************************************************************************)
Fault == /\ faults < MaxFaults
         /\ faults' = faults + 1
         /\ hurt' = TRUE
NoFault == UNCHANGED <<faults, hurt>>

\* Some transaction's error is returned: run_block() gives up the block.  A call
\* that asks for status retires what is pending and returns that, so none is left
\* to report; one that stalls returns its own error and may leave another owed.
Fail(asks) == /\ err' = TRUE
              /\ lost' \in IF asks THEN {FALSE} ELSE {FALSE, lost}
              /\ pc' = "fail"

\* One transaction.  `good' is the tile after it, `bad' the tile after a damaged
\* one; asks says that the response is decoded before the call returns.
Transaction(next, good, bad, asks) ==
  \/ /\ NoFault /\ tile' = good
     /\ ~(asks /\ lost)
     /\ pc' = next /\ UNCHANGED <<lost, err>>
  \/ /\ NoFault /\ tile' = good
     /\ lost
     /\ Fail(asks)
  \/ /\ Fault /\ tile' = bad
     /\ \/ ~asks /\ pc' = next /\ lost' = TRUE /\ UNCHANGED err
        \/ Fail(FALSE)

-----------------------------------------------------------------------------
\* Mutant: a descriptor left armed by a broken frame stays so.
FrameReset_LeavesArmed ==
  /\ pc = "reset" /\ frames < MaxFrames
  /\ frames' = frames + 1
  /\ gcur' = 0 /\ c1err' = FALSE /\ wck' = None /\ rqk' = None
  /\ layer' = 1 /\ pc' = "layer" /\ err' = FALSE
  /\ hurt' = lost
  /\ UNCHANGED <<mode, worker, tickets, b, pass, scatLive, wHit, strip, wstream,
                 wcache, armed, rxd, got, tensor, tile, lost, faults>>

\* ft_frame_reset().  What the tile holds, and an error the driver still owes,
\* outlive the frame.
FrameReset ==
  /\ pc = "reset" /\ frames < MaxFrames
  /\ frames' = frames + 1
  /\ gcur' = 0 /\ c1err' = FALSE /\ wck' = None /\ rqk' = None
  /\ armed' = [i \in {0, 1} |-> FALSE]
  /\ layer' = 1 /\ pc' = "layer" /\ err' = FALSE
  /\ hurt' = lost
  /\ UNCHANGED <<mode, worker, tickets, b, pass, scatLive, wHit, strip, wstream,
                 wcache, rxd, got, tensor, tile, lost, faults>>

\* Between frames the caller may download the bitstream again.
Reconfigure ==
  /\ pc = "reset" /\ frames < MaxFrames /\ tile # FreshTile
  /\ tile' = FreshTile
  /\ UNCHANGED <<mode, worker, tickets, pc, where, gcur, scatLive, wHit, built,
                 rqk, drains, tensor, lost, err, c1err, frames, faults, hurt>>

\* ft_layer(), up to its loop.
StartLayer ==
  /\ pc = "layer"
  /\ b' = 0 /\ pass' = 0
  /\ scatLive' = [i \in {0, 1} |-> FALSE] /\ tk_scat' = [i \in {0, 1} |-> 0]
  /\ tensor' = [k \in Blocks |-> None]
  /\ pc' = "reuse"
  /\ UNCHANGED <<mode, worker, tk_s, tk_w, tk_dec, layer, gcur, wHit, built, rqk,
                 drains, tile, lost, err, c1err, frames, faults, hurt>>

\* Mutant: the implication of one FIFO is relied on, and nothing is waited for.
ReuseGuard_Implied ==
  /\ pc = "reuse"
  /\ scatLive' = [scatLive EXCEPT ![gcur] = FALSE]
  /\ pc' = "nop"
  /\ UNCHANGED <<mode, worker, tickets, where, gcur, wHit, built, rqk, drains,
                 tensor, tile, lost, err, c1err, frames, faults, hurt>>

\* Block b + 2 waits for the scatter that reads its half of got[].
ReuseGuard ==
  /\ pc = "reuse"
  /\ scatLive[gcur] => Done(LO, tk_scat[gcur])
  /\ scatLive' = [scatLive EXCEPT ![gcur] = FALSE]
  /\ pc' = "nop"
  /\ UNCHANGED <<mode, worker, tickets, where, gcur, wHit, built, rqk, drains,
                 tensor, tile, lost, err, c1err, frames, faults, hurt>>

\* gb_geom(), which comes first, refuses the block.
GeomFault ==
  /\ pc = "reuse"
  /\ Fault
  /\ err' = TRUE /\ pc' = "fail"
  /\ UNCHANGED <<mode, worker, tickets, where, gcur, scatLive, wHit, built, rqk,
                 drains, tensor, tile, lost, c1err, frames>>

BlockNop ==
  /\ pc = "nop"
  /\ Transaction("cfg", tile, tile, TRUE)
  /\ UNCHANGED <<mode, worker, tickets, where, gcur, scatLive, wHit, built, rqk,
                 drains, tensor, c1err, frames>>

BlockCfg ==
  /\ pc = "cfg"
  /\ Transaction(IF mode.plan[layer].rq THEN "rqp" ELSE "hit",
                 [tile EXCEPT !.cfg = BlockTag], [tile EXCEPT !.cfg = Wrong], FALSE)
  /\ UNCHANGED <<mode, worker, tickets, where, gcur, scatLive, wHit, built, rqk,
                 drains, tensor, c1err, frames>>

\* rqp_hit(), or else gh_rqp() and the new key.  A damaged table whose call said
\* OK has its key all the same.
Requant ==
  /\ pc = "rqp"
  /\ IF rqk = TableTag
     THEN /\ NoFault /\ pc' = "hit" /\ UNCHANGED <<rqk, tile, lost, err>>
     ELSE /\ Transaction("hit", [tile EXCEPT !.table = TableTag],
                         [tile EXCEPT !.table = Wrong], FALSE)
          /\ rqk' = IF pc' = "hit" THEN TableTag ELSE None
  /\ UNCHANGED <<mode, worker, tickets, where, gcur, scatLive, wHit, built,
                 drains, tensor, c1err, frames>>

\* Mutant: the key of the weight cache leaves the channel block out.
WeightsHit_SameLayer ==
  /\ pc = "hit"
  /\ wHit' = (wck # None /\ wck[1] = layer)
  /\ wck' = IF wHit' THEN wck ELSE None
  /\ pc' = "build0"
  /\ UNCHANGED <<mode, worker, tickets, where, gcur, scatLive, strip, wstream,
                 wcache, rqk, drains, tensor, tile, lost, err, c1err, frames,
                 faults, hurt>>

\* wcache_hit(): a key that differs also says the cache is stale.
WeightsHit ==
  /\ pc = "hit"
  /\ wHit' = (wck = TableTag)
  /\ wck' = IF wck = TableTag THEN wck ELSE None
  /\ pc' = "build0"
  /\ UNCHANGED <<mode, worker, tickets, where, gcur, scatLive, strip, wstream,
                 wcache, rqk, drains, tensor, tile, lost, err, c1err, frames,
                 faults, hurt>>

\* The first pass is built on core 0, with nothing to hide it behind; no ticket yet.
BuildFirst ==
  /\ pc = "build0"
  /\ strip' = [strip EXCEPT ![0] = StripTag(0)]
  /\ IF wHit THEN UNCHANGED <<wstream, wcache>> ELSE PutWgt(0)
  /\ pass' = 0
  /\ tk_s' = [i \in {0, 1} |-> 0] /\ tk_w' = tk_s'
  /\ pc' = "post_s"
  /\ UNCHANGED <<mode, worker, tk_scat, tk_dec, layer, b, gcur, scatLive, wHit,
                 wck, rqk, drains, tensor, tile, lost, err, c1err, frames, faults,
                 hurt>>

More == pass + 1 < NPass
Cur  == pass % 2

PostStrip ==
  /\ pc = "post_s"
  /\ IF mode.build /\ More
     THEN /\ JQ!Post(build_q, Build("strip", pass + 1, Other(Cur)))
          /\ tk_s' = [tk_s EXCEPT ![Other(Cur)] = Ticket(build_q)]
     ELSE UNCHANGED <<queue, running, tk_s>>
  /\ pc' = "post_w"
  /\ UNCHANGED <<mode, tail, tk_w, tk_scat, tk_dec, where, gcur, scatLive, wHit,
                 built, rqk, drains, tensor, tile, lost, err, c1err, frames,
                 faults, hurt>>

PostWgt ==
  /\ pc = "post_w"
  /\ IF mode.build /\ More /\ ~wHit
     THEN /\ JQ!Post(build_q, Build("wgt", pass + 1, Other(Cur)))
          /\ tk_w' = [tk_w EXCEPT ![Other(Cur)] = Ticket(build_q)]
     ELSE UNCHANGED <<queue, running, tk_w>>
  /\ pc' = "wait_s"
  /\ UNCHANGED <<mode, tail, tk_s, tk_scat, tk_dec, where, gcur, scatLive, wHit,
                 built, rqk, drains, tensor, tile, lost, err, c1err, frames,
                 faults, hurt>>

\* Mutant: the wait is in the low queue, where the builds are without priority.
WaitStrip_LowQueue ==
  /\ pc = "wait_s"
  /\ mode.build /\ pass > 0 => Done(LO, tk_s[Cur])
  /\ pc' = "act"
  /\ UNCHANGED <<mode, worker, tickets, where, gcur, scatLive, wHit, built, rqk,
                 drains, tensor, tile, lost, err, c1err, frames, faults, hurt>>

\* w1_wait(bq, tk_s[cur]): the queue the build was posted to.
WaitStrip ==
  /\ pc = "wait_s"
  /\ mode.build /\ pass > 0 => Done(build_q, tk_s[Cur])
  /\ pc' = "act"
  /\ UNCHANGED <<mode, worker, tickets, where, gcur, scatLive, wHit, built, rqk,
                 drains, tensor, tile, lost, err, c1err, frames, faults, hurt>>

\* gh_act(); without core 1 the next strip is built while the wire is busy.
SendStrip ==
  /\ pc = "act"
  /\ Transaction("wait_w", [tile EXCEPT !.strip = strip[Cur]],
                 [tile EXCEPT !.strip = Wrong], FALSE)
  /\ strip' = IF ~mode.build /\ More
              THEN [strip EXCEPT ![Other(Cur)] = StripTag(pass + 1)] ELSE strip
  /\ UNCHANGED <<mode, worker, tickets, where, gcur, scatLive, wHit, wstream,
                 wcache, wck, rqk, drains, tensor, c1err, frames>>

WaitWgt ==
  /\ pc = "wait_w"
  /\ mode.build /\ pass > 0 /\ ~wHit => Done(build_q, tk_w[Cur])
  /\ pc' = "wgt"
  /\ UNCHANGED <<mode, worker, tickets, where, gcur, scatLive, wHit, built, rqk,
                 drains, tensor, tile, lost, err, c1err, frames, faults, hurt>>

SendWgt ==
  /\ pc = "wgt"
  /\ Transaction("run", [tile EXCEPT !.wgt = WgtAt(pass)],
                 [tile EXCEPT !.wgt = Wrong], FALSE)
  /\ IF ~mode.build /\ More /\ ~wHit
     THEN PutWgt(pass + 1) ELSE UNCHANGED <<wstream, wcache>>
  /\ UNCHANGED <<mode, worker, tickets, where, gcur, scatLive, wHit, strip, wck,
                 rqk, drains, tensor, c1err, frames>>

\* What the accumulators hold after a sweep over what is loaded.
Swept == IF /\ tile.cfg = BlockTag
            /\ tile.strip = StripTag(pass) /\ tile.wgt = WgtTag(pass)
            /\ pass > 0 => tile.acc = StripTag(pass)
         THEN StripTag(pass + 1) ELSE Wrong

RunPass ==
  /\ pc = "run"
  /\ Transaction(IF More THEN "post_s" ELSE "drain",
                 [tile EXCEPT !.acc = Swept], [tile EXCEPT !.acc = Wrong], FALSE)
  /\ pass' = IF pc' = "post_s" THEN pass + 1 ELSE pass
  /\ UNCHANGED <<mode, worker, tickets, layer, b, gcur, scatLive, wHit, built,
                 rqk, drains, tensor, c1err, frames>>

\* What DRAIN sends: the codes, which need the table, or the accumulators.
Sent == IF /\ tile.acc = StripTag(NPass)
           /\ mode.plan[layer].rq => tile.table = TableTag
        THEN BlockTag ELSE Wrong

\* wcache_claim(), then the DRAIN.  Deferred, its response is captured in
\* rxd[gcur] for core 1 and a damaged one is not noticed here; one that stalls is,
\* and arms nothing; and a descriptor that is still armed refuses the next.
DrainTile ==
  /\ pc = "drain"
  /\ wck' = IF mode.plan[layer].fits THEN TableTag ELSE wck
  /\ IF mode.decode
     THEN /\ UNCHANGED <<got, tile>>
          /\ \/ /\ ~armed[gcur]
                /\ \/ NoFault /\ rxd' = [rxd EXCEPT ![gcur] = Sent]
                   \/ Fault /\ rxd' = [rxd EXCEPT ![gcur] = Fails]
                /\ armed' = [armed EXCEPT ![gcur] = TRUE]
                /\ \/ pc' = "nop2" /\ UNCHANGED <<lost, err>>
                   \/ lost /\ Fail(FALSE)
             \/ /\ ~armed[gcur] /\ Fault /\ Fail(FALSE)
                /\ rxd' = [rxd EXCEPT ![gcur] = Wrong] /\ UNCHANGED armed
             \/ /\ armed[gcur] /\ NoFault /\ Fail(FALSE) /\ UNCHANGED <<rxd, armed>>
     ELSE /\ UNCHANGED <<rxd, armed>>
          /\ Transaction("nop2", tile, tile, TRUE)
          /\ got' = [got EXCEPT ![gcur] = IF pc' = "nop2" THEN Sent ELSE Wrong]
  /\ UNCHANGED <<mode, worker, tickets, where, gcur, scatLive, wHit, strip,
                 wstream, wcache, rqk, tensor, c1err, frames>>

BlockStatus ==
  /\ pc = "nop2"
  /\ Transaction("decode", tile, tile, TRUE)
  /\ UNCHANGED <<mode, worker, tickets, where, gcur, scatLive, wHit, built, rqk,
                 drains, tensor, c1err, frames>>

PostDecode ==
  /\ pc = "decode"
  /\ IF mode.decode THEN JQ!Post(LO, Decode(gcur)) /\ tk_dec' = Ticket(LO)
                    ELSE UNCHANGED <<queue, running>> /\ tk_dec' = 0
  /\ pc' = IF mode.scatter THEN "post_scat" ELSE "wait_dec"
  /\ UNCHANGED <<mode, tail, tk_s, tk_w, tk_scat, where, gcur, scatLive, wHit,
                 built, rqk, drains, tensor, tile, lost, err, c1err, frames,
                 faults, hurt>>

NextBlock ==
  /\ b' = IF b + 1 < NBlocks THEN b + 1 ELSE b
  /\ pc' = IF b + 1 < NBlocks THEN "reuse" ELSE "barrier"
  /\ UNCHANGED <<layer, pass>>

PostScatter ==
  /\ pc = "post_scat"
  /\ JQ!Post(LO, Scatter(gcur, b))
  /\ tk_scat' = [tk_scat EXCEPT ![gcur] = Ticket(LO)]
  /\ scatLive' = [scatLive EXCEPT ![gcur] = TRUE]
  /\ gcur' = Other(gcur)
  /\ NextBlock
  /\ UNCHANGED <<mode, tail, tk_s, tk_w, tk_dec, wHit, built, rqk, drains, tensor,
                 tile, lost, err, c1err, frames, faults, hurt>>

WaitDecode ==
  /\ pc = "wait_dec"
  /\ mode.decode => Done(LO, tk_dec)
  /\ pc' = "scatter"
  /\ UNCHANGED <<mode, worker, tickets, where, gcur, scatLive, wHit, built, rqk,
                 drains, tensor, tile, lost, err, c1err, frames, faults, hurt>>

\* scatter(): the block's region of the output, from the half named.
Scattered(i, blk) ==
  tensor' = [tensor EXCEPT ![blk] = IF got[i] = <<layer, blk>> THEN <<layer, blk>>
                                    ELSE Wrong]

ScatterHere ==
  /\ pc = "scatter"
  /\ Scattered(gcur, b)
  /\ NextBlock
  /\ UNCHANGED <<mode, worker, tickets, gcur, scatLive, wHit, built, rqk, drains,
                 tile, lost, err, c1err, frames, faults, hurt>>

\* if (e) { w1_drain(); break; }
FailDrain ==
  /\ pc = "fail" /\ Drained
  /\ pc' = "barrier"
  /\ UNCHANGED <<mode, worker, tickets, where, gcur, scatLive, wHit, built, rqk,
                 drains, tensor, tile, lost, err, c1err, frames, faults, hurt>>

\* The layer barrier, and the first point core 1's error may be read.
LayerBarrier ==
  /\ pc = "barrier" /\ Drained
  /\ err' = (err \/ c1err)
  /\ c1err' = IF err THEN c1err ELSE FALSE
  /\ pc' = "layer_done"
  /\ UNCHANGED <<mode, worker, tickets, where, gcur, scatLive, wHit, built, rqk,
                 drains, tensor, tile, lost, frames, faults, hurt>>

\* The caller: the next layer reads this one's output; an error ends the frame.
AfterLayer ==
  /\ pc = "layer_done"
  /\ IF err \/ layer = NLayers THEN pc' = "reset" /\ UNCHANGED layer
                               ELSE pc' = "layer" /\ layer' = layer + 1
  /\ UNCHANGED <<mode, worker, tickets, b, pass, gcur, scatLive, wHit, built, rqk,
                 drains, tensor, tile, lost, err, c1err, frames, faults, hurt>>

Core0 ==
  \/ FrameReset \/ Reconfigure \/ StartLayer \/ ReuseGuard \/ GeomFault
  \/ BlockNop \/ BlockCfg \/ Requant \/ WeightsHit \/ BuildFirst
  \/ PostStrip \/ PostWgt \/ WaitStrip
  \/ SendStrip \/ WaitWgt \/ SendWgt \/ RunPass \/ DrainTile \/ BlockStatus
  \/ PostDecode \/ PostScatter \/ WaitDecode \/ ScatterHere \/ FailDrain
  \/ LayerBarrier \/ AfterLayer

-----------------------------------------------------------------------------
\* Core 1.
Begin ==
  /\ \E q \in Queues : JQ!Begin(q)
  /\ UNCHANGED <<mode, tail, tickets, pc, where, gcur, scatLive, wHit, built, rqk,
                 drains, tensor, tile, lost, err, c1err, frames, faults, hurt>>

Running(kind) == running # Nobody /\ running[2].kind = kind
TheJob == running[2]

BuildStripCb ==
  /\ Running("strip")
  /\ JQ!Retire(running[1]) /\ Counted
  /\ strip' = [strip EXCEPT ![TheJob.buf] = StripTag(TheJob.pass)]
  /\ UNCHANGED <<mode, tickets, pc, where, gcur, scatLive, wHit, wstream, wcache,
                 wck, rqk, drains, tensor, tile, lost, err, c1err, frames, faults,
                 hurt>>

BuildWgtCb ==
  /\ Running("wgt")
  /\ JQ!Retire(running[1]) /\ Counted
  /\ PutWgt(TheJob.pass)
  /\ UNCHANGED <<mode, tickets, pc, where, gcur, scatLive, wHit, strip, wck, rqk,
                 drains, tensor, tile, lost, err, c1err, frames, faults, hurt>>

\* gh_decode_defer() disarms, then decodes; the first error is kept.
DecodeCb ==
  /\ Running("decode")
  /\ JQ!Retire(running[1]) /\ Counted
  /\ LET i == TheJob.buf
     IN /\ armed' = [armed EXCEPT ![i] = FALSE]
        /\ got' = [got EXCEPT ![i] = IF rxd[i] = Fails THEN Wrong ELSE rxd[i]]
        /\ c1err' = (c1err \/ rxd[i] = Fails)
  /\ UNCHANGED <<mode, tickets, pc, where, gcur, scatLive, wHit, built, rqk, rxd,
                 tensor, tile, lost, err, frames, faults, hurt>>

ScatterCb ==
  /\ Running("scatter")
  /\ JQ!Retire(running[1]) /\ Counted
  /\ Scattered(TheJob.buf, TheJob.block)
  /\ UNCHANGED <<mode, tickets, pc, where, gcur, scatLive, wHit, built, rqk,
                 drains, tile, lost, err, c1err, frames, faults, hurt>>

Core1 == Begin \/ BuildStripCb \/ BuildWgtCb \/ DecodeCb \/ ScatterCb

\* Nothing more to do: the last frame of the bound has ended.
Stop == pc = "reset" /\ frames = MaxFrames /\ Drained /\ UNCHANGED vars

Next == Core0 \/ Core1 \/ Stop

Spec == Init /\ [][Next]_vars

\* Both cores run; a transaction ends (gh_xfer_wait() has a deadline).
FairSpec == Spec /\ WF_vars(Core0) /\ WF_vars(Core1)

-----------------------------------------------------------------------------
TypeOK ==
  /\ layer \in Layers /\ b \in Blocks /\ pass \in Passes /\ gcur \in {0, 1}
  /\ scatLive \in [{0, 1} -> BOOLEAN] /\ armed \in [{0, 1} -> BOOLEAN]
  /\ {wHit, lost, err, c1err, hurt} \subseteq BOOLEAN
  /\ \A q \in Queues : Len(queue[q]) <= Slots /\ tail[q] \in Nat
  /\ {tk_s, tk_w, tk_scat} \subseteq [{0, 1} -> Nat] /\ tk_dec \in Nat
  /\ frames \in 0 .. MaxFrames /\ faults \in 0 .. MaxFaults

\* The buffers core 0, or the DMA it is waiting for, reads and writes at a pc.
Reads0 ==
  CASE pc = "build0"    -> {<<"tensor", layer - 1>>}
    [] pc = "act"       -> {<<"strip", Cur>>} \cup
                           IF ~mode.build /\ More THEN {<<"tensor", layer - 1>>} ELSE {}
    [] pc = "wgt"       -> {WgtPlace(pass)}
    [] pc = "scatter"   -> {<<"got", gcur>>}
    [] OTHER            -> {}
Writes0 ==
  CASE pc = "reuse"     -> {<<"g">>}
    [] pc = "build0"    -> {<<"strip", 0>>} \cup
                           IF wHit THEN {} ELSE {WgtPlace(0)}
    [] pc = "act"       -> IF ~mode.build /\ More THEN {<<"strip", Other(Cur)>>} ELSE {}
    [] pc = "wgt"       -> IF ~mode.build /\ More /\ ~wHit THEN {WgtPlace(pass + 1)} ELSE {}
    [] pc = "drain"     -> IF mode.decode THEN {<<"rxd", gcur>>} ELSE {<<"got", gcur>>}
    [] pc = "scatter"   -> {<<"tensor", layer>>}
    [] OTHER            -> {}

Reads1 ==
  CASE Running("strip")   -> {<<"g">>, <<"tensor", layer - 1>>}
    [] Running("wgt")     -> {<<"g">>}
    [] Running("decode")  -> {<<"rxd", TheJob.buf>>}
    [] Running("scatter") -> {<<"got", TheJob.buf>>}
    [] OTHER              -> {}
Writes1 ==
  CASE Running("strip")   -> {<<"strip", TheJob.buf>>}
    [] Running("wgt")     -> {WgtPlace(TheJob.pass)}
    [] Running("decode")  -> {<<"got", TheJob.buf>>}
    [] Running("scatter") -> {<<"tensor", layer>>}
    [] OTHER              -> {}

\* worker.h rule 3: no job touches a buffer core 0 is using, in any mode.
NoRace == /\ Writes0 \cap (Reads1 \cup Writes1) = {}
          /\ Reads0 \cap Writes1 = {}

\* A layer that reports success has every block of its output right: right strip,
\* weights, table and accumulators, whatever was cached, deferred or reordered.
OutputsRight ==
  pc = "layer_done" /\ ~err => \A k \in Blocks : tensor[k] = <<layer, k>>

\* A frame fails only if something was damaged that it could have seen: one bad
\* frame leaves nothing behind that ft_frame_reset() does not clear.
CleanFrameSucceeds == err => hurt

\* Every frame ends: each w1_wait() (frame.c:646, 648, 989, 1044) is in the queue its
\* ticket is a number of, so the count it waits for is reached.
FrameEnds == pc # "reset" ~> pc = "reset"

=============================================================================
