# fpga-open-vocab: a TLA+ model of the firmware and its link

The repository is an open-vocabulary camera: a Raspberry Pi RP2350 (a Shrike-fi board) runs a
quantized image encoder whose convolutions go, block by block, over a 1- or 3-bit
serial link to a systolic tile in a small FPGA; the embedding is compared with text queries
sent by a host over USB CDC. This directory models the parts of `src/firmware` and
`src/rtl` whose correctness depends on the *order* of things: two cores without a lock,
a link without an acknowledgement, a weight cache on either side of it, a datapath whose addresses
are clocks ahead of its operands, a camera that stays blank if it is asked too soon, flash written while the
power fails, a watch that must tell one kind of reset from another, two kernels that must agree to the byte, and a
witness whose lines must be true of a sensor it can only sample.

Contents: 1 the system, 2 what is modelled where, 3 the modules, 4 the runs, 5 fairness,
6 what is proved, 7 what the models leave out, 8 disagreements found, 9 the plan.

## 1. The system

| part | source | state | operations | hard because |
|---|---|---|---|---|
| boot | `firmware/m9.c` `main`, `fpga_config.c`, `qspi_park.c` | clock and rail, pins driven, what the FPGA runs | `sys_clock_bring_up`, configure, `probe`, `park`, reboots | order of voltage and frequency; pins that change hands between two push-pull drivers; a watchdog armed half way |
| bitstream reception | `frame.c` `ft_recv_bitstream` | a shift register of the last four bytes | hunt, receive, check | an interrupted host's leftovers; a hotkey that is a byte of the magic |
| camera acquisition | `frame.c` `ft_acquire`, `cam.c` | driver's last format, a sticky bus fault, the sensor; a window of lumas, a quiet | reset, defaults, ramp, judge, keep | a sensor that stays blank until reset if triggered too soon; a search under a budget and a watchdog |
| camera capture | `frame.c` `ft_capture`, `cap_*`; `cam.c` | a trigger in flight, the last frame's schedule, a lead, the camera's bus | arm on last frame's suffix time, collect, recover | a trigger that outlives the mode, the frame or the bus it was sent on |
| core-1 worker | `firmware/worker.c` | two rings of `W1_SLOTS` jobs with wrapping head and tail | `w1_start`, `w1_post`, `w1_wait`, `w1_drain`; core 1 runs `w1_main` | two cores, no lock; WFE/SEV; counters that wrap; a bound of one low job ahead of a high one |
| frame sequencer | `firmware/frame.c` `ft_frame_reset` .. `ft_layer` | activations, two halves of every pass buffer, a weight cache and a table cache with keys, armed drains | `run_block` per block; jobs `build_strip_cb`, `build_wgt_cb`, `decode_cb`, `scatter_cb` on core 1 | buffers reused while the other core may read them; caches trusted on a key; a transaction failing half way |
| planner and builder | `gemm_plan.c`, `gemm_block.c` | none | choose block sizes, list blocks, index a block, order its bytes | a tiling with no gap or overlap; blocks that split a row or hold several |
| link driver | `firmware/gemm_host.c` | one pending response, one deferred error, two capture buffers, an armed descriptor, the transmit buffer | `gh_frame` and its commands, `gh_sync`, mode changes, `gh_decode_defer` | a response read one call later, by another call or on another core |
| wire format | `firmware/gemm_wire.c` | the transmit buffer's dirty mark | `gw_hdr`, `gw_pack3`, `gw_stage`, `gw_scan`, `gw_align`, `gw_decode_n` | partial words, stale bytes past the end of a short frame |
| fabric link | `rtl/gemm_link.v` | receiver state, sticky faults, tile memories | hunt, header, payload, sweep, respond | a damaged header turns payload into commands |
| tile datapath | `rtl/gemm_tile.v`, `im2col_feed.v` | strip, weights, accumulators, requantize engines, a double buffer | sweep, readout | addresses, operands and sums in flight at every boundary; a readout that cannot be paused |
| last words | `firmware/lastwords.c` | one flash sector of 256-byte pages; in RAM the next free page and seq | `lw_take`, `lw_write` | power cut inside a program or an erase |
| USB watch and banner | `firmware/m9.c` | watchdog scratch, flash record, watch timers and counts | `usb_watch`, `lw_note`, `wd_stage`, `reset_report`, `wd_report_last`, `lw_report_last`, `park`, the reboots | state left by one life and read by another; a stack that may believe it is mounted |
| demo loop | `m9.c` `main` | query set, background and enrolled references, decision | per-frame scoring, console keys, a new set at any time | references and a background that are only good for one set and one room |
| exposure locks and witness | `m9.c` keys L, K, P, V and `report()`; `cam.c` | the mask step, a witness under way, the last one's sample and verdict; dumps asked for | mask, lock check, two die samples frames later, dumps | a verdict printed frames after the key it is of; a sensor that may ignore a write; a bus that answers with zeros |
| encoder | `encoder.c`, `encoder_fast.c`, `m5b.c` | two buffers in turn, the columns of a tile | `fgx_open`, `fgx_run`, `fgx_run_fast` with two inner loops | what is left of a row of taps after the words, an odd column, padding; buffers reckoned in bytes; a scale at the end of its range |
| probes, earlier milestones, host and model tools | `m5.c` .. `m8.c`, `cam_*.c`, `host/`, `model/`, `tools/` | - | - | straight-line programs, or offline |

How they meet:

    reset --> clock, rail --> bitstream (CDC) --> FPGA configured --> probe --> ft_acquire --> queries
                                                                                                 |
    host --CDC--> m9.c main loop --+--> frame.c --+--> gemm_host.c --> wire --> gemm_link.v --> gemm_tile.v
                     |             |              |        (transactions, one response each)
                     | usb_watch   |              +--> worker.c --> core 1: builds, decodes, scatters
                     v             +--> capture          (tickets; a W1_HI and a W1_LO queue)
             scratch registers, lastwords.c
             (read by the next boot's banner)

- m9.c calls `ft_*` in sequence from core 0; nothing else runs on core 0 but interrupts of
  TinyUSB, and nothing runs on core 1 but jobs.
- frame.c and core 1 share buffers. The only synchronisation is the ticket returned by
  `w1_post`, `w1_wait` on it, and `w1_drain`.
- `gp_choose` and `gp_block` say what a block is, `gb_strip`, `gb_weights` and `gb_rqpack` in what order its
  bytes go out, and the tile walks its memories in that order without being told.
- `gh_defer_next` makes the driver capture a drain into the caller's descriptor, and
  `gh_decode_defer` is called on core 1 while core 0 clocks the next transactions.
- The link has no flow control: the driver works out how long an answer takes, and the
  receiver's sticky flags `bad_frame` and `underrun` come back in a later response's status.
- A life of the board speaks to the next through `watchdog_hw->scratch`, the flash
  sector and the chip's reset reason, and through the sensor, which keeps what the last run wrote to it.

What must be true of each: nothing is driven past its rail or from both ends; the magic is heard; a camera that works is
acquired, in time, and a frame is only called settled when it is; the worker is two FIFO queues and loses no wake-up; the sequencer
never lets two cores at one buffer and never says OK to a wrong layer; the driver never returns wrong
accumulators as right, reports what it deferred, and the link recovers from anything on the wire; the
staged frame is the frame and zeros; the plan's blocks tile the layer, the tile's sums are its convolution, and its
words leave in order and in time; the newest record acknowledged is the one the next boot
reads; the banner says what happened; the frame scored is the one the age and the source are told of; a score
is taken against queries, a background and references that belong together; a line about the sensor is true of it when it is printed; both
kernels give the contract's tensors to the byte, inside their buffers. PROJECT.json lists each hazard at its line.

## 2. What is modelled where

| module | models | composed with |
|---|---|---|
| `JobQueues` | what `worker.h` promises: two bounded FIFOs, one job running | used as it is by `FrameEngine`; implemented by `Worker` |
| `Worker` | `worker.c`, one access of shared memory, WFE or SEV per step | |
| `WorkerRefinement` | the rings read as queues: the mapping from `Worker` to `JobQueues` | `INSTANCE JobQueues` over `Worker` |
| `FrameEngine` | `frame.c` from `ft_frame_reset` to the end of the last `ft_layer`, both cores | `INSTANCE JobQueues`; the driver by its contract |
| `GemmLink` | `gemm_link.v`, a byte slot per step | extended by `GemmHost` |
| `GemmHost` | `gemm_host.c` and the decoding half of `gemm_wire.c`, a byte slot per step | extends `GemmLink`: driver, wire and receiver in one |
| `TxStage` | the staging half of `gemm_wire.c` with `gemm_host.c`'s dirty mark, byte by byte | |
| `Blocks` | `gemm_plan.c` and `gemm_block.c`: the plan, its cost, a block's geometry and the order of its bytes; and the convolution they must give | extended by `Tile` |
| `Tile` | `gemm_tile.v` and `im2col_feed.v`, a clock per step, with the link's strobes and pops | extends `Blocks`: the bytes are the builder's |
| `TileInvariants` | what is inductive of `Tile`: its clocks, its sums, its words | extends `Tile`, and `TileProofs` extends it; its parts can be put to TLC too, beside `MCTile` |
| `LastWords` | `lastwords.c` over flash that can be cut | |
| `Outage` | `m9.c`'s watch, attribution and banner over several lives | flash by `LastWords`' promise |
| `Acquire` | `ft_acquire()` over `cam.c` and the sensor | extended by `Boot` |
| `Boot` | `m9.c`'s `main()` from reset to the frame loop, with every way back to reset | extends `Acquire`: what one life leaves in the sensor the next one meets |
| `Capture` | `frame.c`'s pipelined capture with `cam.c`'s trigger, collect and stalled bus, and the keys O, D and M | layers by their time, from `FrameEngine` |
| `Background` | `m9.c`'s query set, background and enrolment, with the keys and sets that change them | |
| `Witness` | `m9.c`'s keys L, K, P and V with `report()`'s witness, over `cam.c`'s mask, lock check and die samples | a frame's capture and encode by their outcome |
| `Encoder` | `encoder.c`, `encoder_fast.c` and `m5b.c`'s use of them, a channel or a tile's row per step | |
| `WorkerProofs`, `FrameEngineProofs`, `DriverProofs`, `TileProofs`, `OutageProofs`, `BootProofs`, `CaptureProofs`, `BackgroundProofs` | the TLAPS proofs | extend the module they are about (`BackgroundProofs` is about `Encoder` too, `BootProofs` about `Acquire`, `CaptureProofs` about `Witness`, `OutageProofs` about `LastWords`, `DriverProofs` about `GemmHost`, `GemmLink` and `TxStage`) |
| `MC*` | the finite sets a run needs | extend the module they run (`MCWorker` the refinement). `MCGemmHost` runs `GemmHost` and `TxStage`, `MCOutage` `Outage` and `LastWords`, `MCSensor` `Capture` and `Witness`, `MCScores` `Background` and `Encoder`: the two share no state, and a behaviour is of one or the other. `MCCapture`, `MCWitness`, `MCBackground` and `MCEncoder` hold the instances, and the last three are run alone for a disagreement |

The seams are contracts rather than one product: `FrameEngine` uses the two queues as
`JobQueues` states them, which `Worker` is proved to implement, and it uses a transaction as
`GemmHost` shows it to behave: a damaged one makes some call return an error, at the latest the
first one that asks for the tile's status. It uses the tile as `Tile` shows it to compute: what was loaded, summed, once.
`Capture` uses a frame of the sequencer as layers that take time or fail. `Outage` uses the record in flash as `LastWords` shows it: the
newest acknowledged one, until it is taken.

## 3. The modules and the code

**Worker.** `head`, `tail` and `slot` are the rings; counters are modulo `Wrap` (2^32 in the
code) and `done()` is the signed difference by its meaning (`Sub(tail, t)` in the lower half). `pc0`
and `pc1` are the two cores; `latch` is each core's event latch, which SEV sets on both and WFE
consumes. Filling a slot takes two steps, and in between it holds `Torn`, so core 1 would be seen
reading a job half written. `w1_drain`'s two `empty()`s, and their head and tail reads, are separate
steps, as are core 1's looks at the high and the low ring. The release and acquire fences are what
makes a step per access sound; the model does not reorder across them. A ticket is held by
core 0 for at most `Horizon` further posts, which is what "done" needs of a wrapping counter and
what frame.c does (it never waits on a ticket older than the ring).

**FrameEngine.** A byte of data is a tag: the layer, block and pass it belongs to. `tile` is what the
fabric has been given; `Swept` yields the tag of what was computed or `Wrong`, and `Wrong`
propagates through decode and scatter into the layer's output. A pc of core 0 is the work in
progress on core 0 and `running` that on core 1; `Reads`/`Writes` name the buffers
each touches, and `NoRace` says they are disjoint. The modes of `ft_set_mode()` are chosen once, in every combination; what a layer's
geometry and place settle, that its weights fit the cache (`fits`) and that the tile requantizes it (`rq`), is the layer's own, in `mode.plan`.
A ticket is its queue's posts so far (`Ticket`) and `Done` compares it with the queue's retirements, as `w1_wait()` does: a wait in the other queue, or
for what was never posted, waits. A fault hits at most one transaction; it surfaces there or at the next
one that asks for status, and a deferred drain that stalls arms no descriptor and fails where it is. A frame may be preceded by a reconfiguration, which empties the tile behind
the requantize key's back unless `ft_frame_reset` says so.

**GemmLink and GemmHost.** Time is a slot: `Slot` moves one byte out and one token in. `sent` counts a frame's bytes, and `ByteAt` is what each of
them is: SYNC, the command, the length, the payload, then the zeros a response is clocked out by. Bytes are small numbers, so that a damaged one is another
command or another length, and a payload may hold a SYNC. `resp` is the response and `out` how much of it has left; a
CRC is the sequence it covers, which makes it ideal, so a property never rests on a CRC being weak, and never
fails for that reason either. What the tile computed is the set of what was in its memories when it
swept. `Stall` ends a transfer where it is, at any slot. `retired` splits
`gh_frame` where the code decodes the previous response while the current one is in flight, with the
DMA in between. `rx_cur`, `pend`, `pend_err` and `defer` are the code's. `want` is the caller's: what the calls that returned OK add up to, until one
returns an error or `gh_sync()` reports one.

**TxStage.** `txb` is the transmit buffer, `dirty` its mark; `Stage` is `gh_frame`'s staging of a frame and its
idle tail at the width in force, `SetWidth` the switch. At width 3 a group of three wire bytes takes a word of four.

**LastWords.** `flash` maps pages to `Blank`, `Torn` or a record; `Program` and `Erase` are
two steps each, with `LifeEnds` possible inside both. A program may leave its page torn without a cut (it does not read back), and
`lw_write` then declines. `Take` is `lw_take`: newest valid record, then erase, then RAM state. `left` and `whole` are ghosts: the newest
record acknowledged, and whether the last life got past its own `lw_take`.

**Outage.** `bus`, `mounted` and `reader` are the cable, TinyUSB's view and the terminal. `silence`
is since the last start-of-frame; `Sample` is `usb_alive()` with the watch's stores, and `WatchUp`,
`WatchDown`, `WatchKick`, `WatchOn`, `WatchGiveUp` are the paths through `usb_watch()`. `stage` is scratch[0], `record` the flash, `said` what the
banner printed. `Ends` are the ways a life ends. `cause`, `cut`, `losses` are ghosts.

**Capture.** Time is an integer, and only differences of it are kept (`Elapsed`); a capture is the tag of its trigger, so
that the age printed can be told from another frame's. `cam` is the camera with its bus: what it exposes or holds
(`fifo`), the driver's `trig_us` (`trig`), the time left, the source, and `stuck` for `bus_fault`. `armed`, `lead`, `calm`, `sched`, `tail` and `us` are
frame.c's. `Boot` is the camera's reset; `Capture` is `ft_capture()` with its collect or
trigger-and-wait and the feedback of the wait into the lead; `Layer` is a layer of `ft_layer()` with its `cap_maybe_arm()`,
`LayerFault` one that fails, `CloseFrame` `cap_close_frame()`. `PressO`, `PressD` and `PressM` are the keys between frames, `Change` what the
world does: the room darkens, the frame takes longer. A bus stalls at any transfer, `MaxFaults` times.

**Background.** A key press or a set has a number, and what came of it carries that number: the query in a record, the room since
the last `bg_reset()`, the window a digit opened. A cosine is the set it was taken against, the mean `qbg[]` the sets
in it, `qm2[]` the number of frames in it, a reference the visits averaged into it and each visit its frames. `Frame` is `report()` and then
`bg_update()`; `TakeSet` is what `recv_queries()` has stored when it makes its last check; `RecvUnknown` and `RecvHalf` are its two late
refusals. The refusals before any record is copied change nothing and are no action.

**Witness.** `sensor` has two sets where the code has one register: `mask` is what was written, `running` the loops that run, for the sensor may
ignore a write either way; `die` is each loop's value, which a frame clocked lets a running loop revise. `AutoMask`, `TryOne` and `Sample` are `cam.c`'s calls as the
set of what they may leave, a stall part of the way included: it drops every later write and answers every byte read with zero until the next trigger. An exposure whose
low byte is zero (`LowZero`) can still be read true by a pair that stalls half way. What a running exposure loop is brought to (`Lit`) is the room's business, and may be what the check has just written.
`LockKey` and `CheckKey` are 'L' and 'K'; each begins a witness, which `FirstSample` and `SecondSample` take `Settle` and `Spacing` frames later. `witness`, `a`, `prev`, `step` and `wrote`
are the code's statics. `Drain` is the console's emptying of 'P' and 'V' before it handles one other key, `CaptureGood` and `EncodeGood` where the dumps
are made, and `CaptureFails` and `EncodeFails` the two early ends of the loop's body, which spend a frame number and read no key. `said` is the line just printed with the
values it shows, and `pair` the frames of one burst's two dumps.

**Encoder.** `mode` is the kernel: 1 the reference, a channel a step (`RefChannel`), 2 and 3 the fast one in C and in the DSP's instructions, an im2col tile
(`Im2col`) and then a channel's row of it (`Row`) a step. `mem` is the two scratch buffers, an element to an index whose size in bytes is what the code bills it, `col` the columns, and
neither is cleared between layers, images or kernels. `Opens` is what `fgx_open()` refuses, `ScratchBytes` and `ColBytes` the room `m5b.c` checks
before it starts; it checks no room for `embed`, whose `EMBED_MAX` floats `RunHead` may pass, and `spilt` is the buffers that a store has been outside of. `PoolMeans` and `RunHead` are
`fgx_pool_head()`'s two loops. `DotDsp` works on words of four codes as the instructions do; `RqPick` and `CodeFixed` are the fixed-point epilogue.
`ContractLayer` is stated from the tensors alone, with its own reading of the packed weights.

**Blocks.** A layer `d` is its descriptor, a blocking `pl` how many positions, channel groups and input channels a block has.
`Geom` is `gb_geom()`, `Accepts` its refusals; `Plans` is every blocking `gp_choose()` chooses among, so that what holds of all of them holds of
the one it finds cheapest, and `BlockBytes` and `LayerBytes` are the two sides of its cost; `Block` is `gp_block()`. `StripBytes`, `WeightBytes` and
`TableBytes` are the order the builder puts a pass' bytes in, nibbles and packed taps included, as
what each byte is of: `<<ic, iy, x>>`, `<<oc, ic, tap>>`, a channel's n-th parameter. `Convolution` and `GoldenAcc` are stated from the layer alone:
the set of products an output is the sum of.

**Tile.** A step is a clock of the link. `walk` and `flag` are the sweep's counters and the flags registered a clock before they are
needed, `feed` the two `im2col_feed`s (one to a tap of a packed pair), `wreg` the weight words in hand, `s1` to `s4` the pipeline, `dwalk`, `rq` and
`lane` the readout with its two requantize lanes, `out` and `link` the words and the serializer that asks for them. A sum is the set of the products in it, and a product
that comes twice leaves `Twice`; a lane's register is what it was made of, so that a step that used another channel's parameter or another
output's sum leaves `Garbled`. The host gives CFG, table, strip, weights and RUN as `run_block()` does, one clock after the tile's last
work, which is earlier than a real one can; `SumsAreTheConvolution` looks at the accumulators on the very clock the DRAIN comes.

**Acquire.** `at` is where `ft_acquire()` is. The calls of `cam.c` are operators that give the set of outcomes a call may
have - driver and sensor after it, time taken, faults spent - and an action composes them in the code's order: `Rouse` is `cam_begin()` and then
`cam_image_defaults()`, `Shoot` a `cam_capture()` whose settle is inside its trigger, `Judge` the rest of the loop's body with the
watchdog's feed, the window, the convergence test, the re-issue of the loops and the doubling of the quiet, `Keep` the capture at 16 MHz
that is returned. Of the sensor: `fresh` and `awake` make the search necessary (one triggered sooner after its reset than the room `need`s stays blank until the next reset),
`loops` and `synth` are registers an earlier run may have left, `busy` is one that never reports idle again, `fault` the driver's sticky bus fault.
`shown` and `reals` are histories the properties are stated of.

**Boot.** `pc` is where `main()` is, from `reset` to `loop`. `HuntByte` takes one byte of the magic or `Other`, after a gap or not; `w` is the code's shift register
and `heard` the history it is compared with. `pins` are the ones the microcontroller drives, step by step through `fpga_config_pins_init()`,
`claim_spi_pins()`, the load and `fpga_release_link_pins()`, then `link_setup()` at each width `probe()` tries; `FpgaDrives` is
what the image drives. `clk`, `rail` and `sys_rail` are the clock, the regulator and the code's record of it, set one at a time. `Bite` is the watchdog
once it is armed, `Reboot` and `Bootsel` the keys, `PowerCycle` the plug - the only one that resets the sensor. A life therefore acquires the
camera in the state any earlier life could leave it in.


## 4. The runs

| run | bounds | distinct states | asks |
|---|---|---|---|
| `worker` | 2 slots, counters mod 4, `Horizon` 1 | 256,333 | `RunsTheJobPosted`: core 1 never runs a torn, stale or reused slot. `WaitMeansDone`: across the wrap. `DrainMeansIdle`: though `empty()` is four reads. `HiWaitsForOneLo`: the bound `worker.h` gives. `IsTwoFifos`: the rings implement `JobQueues`. `CallsReturn`: no wake-up is lost and no full ring is final |
| `frame_engine` | 2 layers of 3 blocks in 2 channel blocks, 2 passes, 8 slots, 1 fault, 2 frames, 16 mode combinations over 6 plans of the two layers | 1,637,672 | `NoRace`: no core touches a buffer the other is at. `OutputsRight`: a layer that says OK is right. `CleanFrameSucceeds`: a bad frame leaves nothing behind. `FrameEnds`: no core waits for a ticket that does not come |
| `gemm_host` | every command, 2 split-K passes, 2 weight payloads, 1 fault, `MaxAge` 1; and a transmit buffer of 4 words, transactions up to 24 bytes, 2 inks | 11,145,433 | `NoSilentCorruption`: accumulators returned as OK are the sweep's. `AtMostOneLate`: a deferred failure comes with the next call. `HearsAgain`: the receiver is not deaf for more than two transactions, unless a payload holds a SYNC. `WireIsFrame`: the wire carries the frame and zeros, though staging clears only what the mark covers |
| `outage` | thresholds 1 < 2 < 3 < 5 < 7 ticks, 2 outages a life, 2 boots besides the watch's own; and 3 pages, lives 0 to 3, 5 attempts a life | 603,721 | `NamesTheReset`, `OutageIsAttributed`, `CountedOnce`: the banner and the counts say what happened. `NotGoneForEver`: a board whose bus has gone in the loop is back on it, or reboots. `TakenIsLastLife`, `NewestIsTaken`: the record read is the newest acknowledged one, across cuts |
| `sensor` | 2 layers and the head, 2 paces, 2 rooms, lead 1 to 8, 2 faults, 2 keys or changes; and 2 loops, settle 1, spacing 2, 2 bursts of keys, 1 stall, 1 frame dropped; the room may ask for the check's second exposure | 3,174,370 | `AgeIsOfThisFrame`, `ArmedIsInFlight`, `CountedIsOffTheSource`. `LinesHaveGrounds`: what the witness, the lock check and the step say of the sensor is so when they say it, or the line shows a zero, which a stalled bus answers; a loop said to be on the check's exposure is, and has stopped unless the room asks for that one. `PairUnlessDropped`: 'P' and 'V' of one burst are of one frame |
| `scores` | 2 queries, windows of 2 frames, backgrounds of 0, 1 and 2, 5 sets, 6 keys or sets; and tiles of 3 columns; a byte layer of stride 1, one or two nibble layers of stride 1 or 2, a head; 5 blobs taken, one with a head wider than `embed`, 10 refused; 2 images, 3 kernels | 650,681 | `ReferencesAreOfThisRoom`, `VisitsAreWhole`, `BackgroundIsOfThisSet`. `AnswersAreTheModels`: every layer, embedding and code, by every kernel, is the contract's. `BuffersAreKept`: a blob not refused keeps to the buffers whose sizes are compared, and to `embed` if its head is no longer |
| `tile` | 2 lanes, three layers, every blocking, packed taps or not, 2 blocks in a row starting at the first or the last position block | 113,668 | `PlanTilesTheLayer`: no output twice or never. `SumsAreTheConvolution`: every product of each output, once. `WordsAreInOrder`, `NeverUnderruns`: the readout hands over the right word whenever the link asks. `SweepFitsItsClocks`: inside the clocks the host waits |
| `boot` | the code's times in seconds: quiet 1 to 4, budget 25, watchdog 8; a window of 4 frames; lumas 12, 17, 30; rooms that need 0, 4 or 9; 2 faults | 1,429,008 | `MagicIsHeard`, `NothingIsOverdriven`, `WorkingCameraIsAcquired`, `KeepsItsTime`: the watchdog ends no acquire that is not wedged. `ConfidentIsSettled`: a frame kept without a doubt is after a settled window |
| `background_rejected` | as `scores`, 3 sets or keys | violation | `NeverHalfLoaded` (section 8) |
| `two_drivers` | as `boot` | violation | `OneDriver` (section 8) |
| `encoder_embed` | as `scores` | violation | `EmbedHolds` (section 8) |
| `witness_zeros` | as `sensor` | violation | `MovedIsConclusive` (section 8) |

Each passing run takes between a second and three minutes.

Why the bounds are enough to meet the interesting cases:

- *worker*: with two slots the ring fills, empties and wraps its slots; with a modulus of 4 the counters
  wrap after two laps, and `2 * Horizon + 2 <= Wrap` is tight. What depends on larger values is
  settled by the proof, which has no bounds.
- *frame_engine*: three blocks are the least that reuse a half of `got[]` (block b+2 after b); two
  blocks share a channel block, so the weight cache hits and then misses; the second layer meets the first one's cache, table and
  strips, under the same plan or under one that differs in both respects; two passes use both halves of the strip buffer and make an accumulation; a second frame after a bad one
  meets what the first left. One fault at any transaction, surfacing at once or late, is every single failure; two
  failures in a frame add only to the first one's path, which already goes to the end of the frame. The proofs have none of these bounds.
- *gemm_host*: a payload that holds a SYNC and a DRAIN makes a dropped header turn payload into
  a command; one shorter than the memory leaves the rest of it to the call before. Two passes tell a sweep that ran twice, or not at all, from one that ran once. `MaxAge` lets one
  transaction begin behind an armed descriptor, enough for its buffer to be next in turn and be refused.
  Of the staging, four words are a header and two words; 24 bytes is longer than the buffer, so the DMA's
  zero word is reached; lengths cover every residue modulo 3 and 4.
- *outage*: the thresholds keep the code's order (500 ms, 1 s, 2 s, 8 s, 30 s) with at least a tick between; two outages in a life let one heal before the
  next; two boots let a record be left, taken and looked for again. Of the flash, five attempts overfill three pages; lives 0 to 3 allow an erase cut short, the next life's record
  beside what is left, and another cut.
- *sensor*, of `Capture`: two paces have their long part first and last, so that a schedule of one frame times the next one wrongly both
  ways; one room is hidden by the compute and one is not, so the lead goes up, and after `LeadCalm` good frames down. Two
  faults let a retry fail, or a trigger fail behind a dropped frame; two keys let the mode change and change back with a trigger in flight.
- *scores*, of `Background`: with six presses a set arrives, a class is shown twice, is forgotten and shown again, or a window is abandoned, crossed by 'N' or by
  another set; a background of two is still warming up, and one of none never does. Five sets are every combination of roles the code treats
  differently, with the unknown role behind a record already copied.
- *tile*: one layer has stride 1 and nibbles with rows of an even number of outputs, one stride 2 and bytes with rows of an odd
  number, one a row of a single output. Over their blockings a block holds part of a row, one row or several, all the channels or a group of them, all the
  input channels or one pass of several; the sweep meets every border of the padding. The second block starts behind the first one's readout, with what that left in every register. Two lanes
  are the least with a lane that is not the last.
- *boot*: of the rooms one needs no quiet, one just what the longest quiet gives and one more than any, so the search succeeds at once, at
  its last doubling, and never; of the lumas one is under the floor, one within `Moved` of it and one clear of both, so `rose` is settled by the room or by movement.
  Two faults let one call fail and the recovery from it fail too. A life may follow any other, with what that left in the sensor. The proofs have no bounds on these.

- *scores*, of `Encoder`: nine points in tiles of three leave an odd column in each tile, four points one tile of one; 9 and 18 taps leave one and two behind the words of four. One scale
  rounds up to the multiplier's width and one meets the largest shift. A third convolution reads the second's output and writes over the first's; the fast kernels follow the reference in the same buffers.
  Each refused blob differs from a good one in one respect, and the one with the wide head from one whose head fits.
- *sensor*, of `Witness`: a settle of 1 and a spacing of 2 leave a frame between the samples and let a second key fall before, between and behind them; two bursts are two keys, or a key behind a pair of dumps. White balance
  is to every operator what gain is, so two loops give the code's steps. Of the two exposures the room may ask for, one is the check's second, with a low byte of zero. A stall may hit any transfer. Frame numbers are kept modulo 2: where two dumps can be two frames apart they can also be one apart.

PROJECT.json names for every property a mutant of the model, written as the
code would read after a plausible slip (a read one access too early, a missing fence of a drain, a
key not cleared, a mark not raised, a flag registered a clock late), under which TLC finds the property violated.

## 5. Fairness

- `Worker`: weak fairness of each core's next step. Neither core is preempted; core 1's jobs are loops over a
  block and return. WFE is a step that is enabled when the latch is set, so a lost wake-up shows as a
  core that never takes a step.
- `FrameEngine`: weak fairness of each core. A transaction ends, well or badly, since
  `gh_xfer_wait()` has a deadline.
- `Outage`: weak fairness of time and of the watch: the frame loop comes back to `usb_watch()`, or hangs
  and the watchdog bites (`pc` leaves "loop", which the property allows). The host owes nothing: it may never return.
- All others state safety only. `HearsAgain` is the safety form of recovery: at most two transactions in a row leave the
  receiver not hunting. `WorkingCameraIsAcquired` and `KeepsItsTime` are the safety forms of "the search ends": with a frame if a frame
  can be had, and before the watchdog.

## 6. What is proved

Each proof module states `Init => IInv`, `IInv /\ [Next]_vars => IInv'`, and derives the properties; they hold for every value of
the constants that the module's ASSUME admits.

- **`WorkerProofs`** (from `WorkerAssumption`: `Slots` divides an even `Wrap`, at least two rings fit in it, and `2 * Horizon + 2 <= Wrap`):
  `TypeCorrect`, `JobsAreWhole`, `WaitIsSound`, `DrainIsSound`, `OneLoAtMost`. The four properties are not inductive.
  `RunsTheJobPosted` needs every outstanding slot, not only the oldest, to hold its ticket
  (`SlotsHoldJobs`), which needs the ring bounded (`RingsBounded`), which needs core 0's copy of the head to be the head while
  it fills. `WaitMeansDone` needs to know how old a held ticket can be (`TicketsRecent`) for the signed comparison to mean what it says.
  `DrainMeansIdle` needs that high work cannot appear while core 0 is at the low ring (`DrainSees`). `HiWaitsForOneLo`
  needs where core 1 is once it has overtaken (`OvertakenOnce`). The arithmetic of `Sub` is in lemmas of its own.
- **`WorkerIsTwoFifos`** (same module, the mapping in `WorkerRefinement`): `Worker` implements `JobQueues`. A ring holds its
  outstanding tickets in the order they were drawn, so storing the head appends one (`Post`), core 1 entering the job removes the first (`Begin`), storing the tail ends it
  (`Retire`), and every other access of either core is a stutter.
- **`FrameEngineProofs`** (from `EngineAssumption` only: any numbers of layers, blocks, position blocks, passes, slots, faults and frames): `JobsDoNotRace`,
  `OnlyDamageFails`, `SuccessIsRight`, by three invariants one on the other. `Tickets` says that what is held for a job is its place in its own queue, so that a wait that is over means that the job is. `RaceInv` reads what may be outstanding on core 1 off where core 0 is: which halves,
  which strips and which ticket. It needs `Followed` (a queued decode of a half has its scatter behind it) for a wait on the scatter to cover the decode.
  `HurtInv` says that an error is only set in a damaged frame, and that without damage a descriptor is armed only while its decode is owed.
  `DataInv` says of each place what the strip, weight, tile and receive buffers and the output hold: `Lands` and `Captured`
  follow a block's accumulators from the wire to the half they are decoded into, `Written` and `Scattering` on to the output. Nothing is
  claimed of the tile while a damaged transaction is unreported, nor of the output once core 1 holds an error, and both are reported before the layer says OK.
- **`DriverProofs`**, of `GemmHost` (from `HostAssumption` and `NoneAssumption`: any calls, any payloads the memory holds, any `MaxPass` and `MaxAge`):
  `DriverShape` and `DriverTypes` over any number of faults; `FailuresComeNext` over any number too, if modes are not switched with a response pending
  (`~MidStream`; section 8 says what happens if they are); `NothingIsSilent` and `LinkHearsAgain` over one fault (`MaxFaults <= 1`), which is what the
  properties claim: two damages can make a response answer for a call that it is not of.
  None of the three properties is inductive, and the invariant is built in layers. `LinkInv` says that a response on its way out is true of the tile for as
  long as it is being sent, since nothing is executed meanwhile; `HostInv` that a capture is as long as what was sent and that no two captures share a
  buffer. `OwedOK` makes `AtMostOneLate` inductive: while a failure is owed it is in `pend_err`, or `pend`'s capture does not decode, and both are looked
  at before the next call returns. `InStep` says that without a fault the receiver is where the frame is and hunts between frames, so that what follows is only ever about the one frame
  the fault hit and those after it. `Trusted` is the heart: if the caller relies on anything and no failure waits, then between
  calls the tile is as it relies on it to be, and inside a call the frame is being taken (`Receiving`), has been (`Taken`), or the capture will tell. A capture
  tells because it holds no preamble and what is still to come is not an answer to this call (`Lost`), or because an answer that is true is on its way
  (`Answering`, and `Answered` when it is over), or because the first answer in it is for something else (`Bad`). A response that echoes
  this call's command and payload was made by a receiver that took this payload, and the CRCs make that so whatever frame it thought it was in. A call without a payload cannot
  touch the tile whatever it is taken for (`BareCall`), and a word that a true CRC covers is the accumulator's (`WordIs`), now or when core 1 decodes
  the descriptor (`DeferOK`). `DeafOK` counts down: what a receiver in the wrong state still waits for is at most a payload, a sweep
  and a response (`ToGo`), every slot of an undamaged frame takes one off (`Fading`), and a frame has eight at least. A payload that holds a SYNC may be
  taken for a frame from its middle, and the count begins again.
- **`DriverProofs`**, of `TxStage` (from `TxStageAssumption`): `MarkIsSound` and `FramesGoOutWhole`, by the
  invariant that everything past the mark is zero; each staging splits the buffer into body, cleared
  part and the part beyond the mark, at each width.
- **`TileProofs`** (from `DeviceAssumption`, `TileAssumption` and, for the words, `MarkAssumption`: any layers, every blocking of them, any number of lanes and any memories, taps packed or
  not): `SweepsFit`, `NothingUnderruns`, `PlansTileTheirLayers`. Nothing in the first two is about the bytes. `SweepInv` counts a sweep: each tap, or pair of taps, takes each group
  one lap of a load, `P` positions and the depth of the pipeline, and the flags registered a clock before they are used say of the walk what
  is so when they are used; that makes the clocks a number in mixed radix, of which the last is `gp_sweep_cycles_k()`. A readout word by word is never short because
  three clocks after a word is taken the next is there, of 32. Pair by pair it is close: 16 clocks to send a pair, 15 to make one. `PaceInv` says how
  many clocks the engine may still owe, by how many pairs are held, whether half of the first is gone and what the serializer has left, and is inductive only together with
  `BufferInv` (which slot is which) and `PairInv`, which holds in step the pairs gone, the two held, the one being made, and the walk that has already been put to
  the one after: the mark of the last pair travels with it, so that the tile rests exactly when the block's last word has been taken.
- **`TileProofs`**, of the planner: `PlansTileTheirLayers`. It is about `Blocks`' operators only and needs no invariant but that the plan is one of `Plans`. Every block is the first one
  begun elsewhere (`BlockIs`): where it begins in a row is a multiple of `P`, or `P` of rows (`BlockPlace`), so its span of rows, its strip and what `gb_geom()` accepts are
  the first block's (`BlocksAccepted`). An output is split into block, lane and position and joined again (`SplitOf`, `JoinOf`), which gives "each" (`ReadsAll`) and, by their number, "once". The price is a
  fold over a number of blocks nobody knows: `FoldFunction` is shown equal to an explicit sum by a minimal counterexample among the sets folded over (`SumsAreOne`), the one form of
  induction the provers can use, and every `PosBlocks`-th block is the one billed for the table (`EveryNth`).
- **`TileProofs`**, of the sums: `SumsAreRight`, by `DataInductive`, for any layers, every blocking, one pass or many, both strides, nibbles or bytes, taps packed or not. The one hypothesis, `EvenRows`, is
  that with packed taps the layers' rows are even; without it the sums *are* wrong (section 8, `MCOddRows`). `DataInv` states, of everything between the host's bytes and an accumulator, whose it is, in terms
  of the layer: tap `T` of all the passes' is fed, at position `q`, `Fed(cfg, q, T)`, a byte or a zero, and multiplied with `WordOf(cfg, gg, T)`, and an accumulator that has its first `T` taps holds
  `SumTo(cfg, q, gg, T)`. `WalkInv` puts the sweep's counters at a tap and a group, `FeedInv` the address feed at a position, `WregInv` the tap's word and its partner's in hand by the clock they are multiplied;
  `S1Inv` to `S4Inv` say of each stage what it has of the position that is so many clocks in (`Pos - n`), and `AccInv` counts the taps in every accumulator (`Summed`): those of the pass, and one step more where the walk and
  the pipeline have already been. A stage is right because the stage before it is right for the position before, so each has a lemma that uses one other (`StageOne` to `StageSix`); the loop closes where an accumulator is
  read while the tap before is being written back (`NotYetSummed`, `WriteBack`): positions never share one (`AddressIs`), and the five or six clocks of quiet are what keeps a group's sweep clear of the next tap's. Packed taps need `PairPlace`: the
  partner's byte is in the other bank, at the next address or in the word before. Two steps look like induction over data and are not: a weight stream is stated in closed form (`StreamAfter`), and a function that begins
  and goes on as the recursive one does is that function (`StreamsAreOne`, a minimal counterexample); and a set of products needs no sum, because adding a tap's product to those of the taps before is a union that is
  disjoint (`SumGrows`). At the end `SumOfAll` is a bijection between taps and pairs of channel and kernel position. `TileAssumption`'s even `NMAC` and `CWM` (32 lanes and a power of two in the code) are what packing and nibbles rest on, and
  `Zero` is only required not to be a byte of the layer.
- **`TileProofs`**, of the words: `WordsAreRight`, by `OrderInductive`, which rests on `TileInductive` and `DataInductive`. Besides `EvenRows` it asks `CentresInside`, that the middle tap of every output is in the tensor, as in
  any convolution of three by three with a border of one at these strides: a sum is known by that tap's product (`MiddleIsIn`, `MiddleTells`), so that an output's sum can be mistaken for no other's (`NameIs`). `MarkAssumption`
  only keeps the marks `None` and `Garbled` apart from what they mark. `OrderInv` has the sums standing still under a readout (`SumsHeld`), what the serializer has, has sent and is offered (`LinkWords`), the sum of the word-by-word
  walk (`PlainWords`), the table the host believes is in the strip (`TableInv`: no pass writes over it, and no block with other channels goes without its own), and the engine (`QuantWords`). That last one is four facts about a pair `w` being made, at every
  step `c` of its schedule: which sums and which channel's bytes the walk, already at the pair after, is reading (`WalkReadsAt`); how many of that channel's six parameters are in, or whether the last channel's still hold (`ParamsInv`); what each of the two lanes has
  by then, the second a clock behind (`LaneAt`, `LanesInv`); and the pairs that wait (`SlotsInv`). None is inductive alone. The pair is counted with `PairInv` of the first part (`QuantMoves`), and each fact has a lemma for a clock (`WalkReadsStep`, `ParamsStep`, `LanesStep`, `SlotsStep`).
  The closest call is at the end of a schedule: a new channel's bytes shift through the one register from step 17 on while the pair before still rounds and shifts by its own (`rq.s`, `rq.dec`), and the lanes take the next sums while a
  made pair may still wait for a slot.
- **`OutageProofs`**, of `LastWords` (from `LastWordsAssumption`): `TakenIsOfLastLife`, `RecordsAreKept`,
  `NewestIsReported`. An acknowledged record is followed across the cut: it is in the
  sector (`LeftIsThere`), nothing valid there is of another life once a life has cleared it (`OneLife`), the page programmed is blank
  (`PageIsBlank`), and a sector that the image occupies is never touched (`ImageIsLeftAlone`).
- **`OutageProofs`**, of `Outage` (from `OutageAssumption`: the thresholds in their order): `ResetIsNamed`, `OutageIsTold`, `OutageIsCountedOnce`. `ScratchInv` ties the scratch
  register to the life's end, `RecordInv` the record to the outage it was written for. `CountInv` has to count ahead: between the cable and the
  count lie a bus that is gone and has not been noticed (`Unseen`), and a watch that is still within its tolerance (`Live`).
- **`BootProofs`** (from `AcquireAssumption`, `BootAssumption` and `TimesFit`, which is what the comment on `FT_QUIET_MAX_MS` asks: the longest
  quiet and the longest capture fit inside the watchdog): `TheMagicIsHeard`, `NothingIsEverOverdriven`, `TheSearchKeepsItsTime`,
  `ConfidenceIsSettled`, `WorkingCamerasAreAcquired`. The hunt's register is the last four bytes heard (`HuntInv`); a rail that is not pinned covers the clock at every store (`PowerInv`); a configured image's output is driven from
  this end only while `probe()` tries three lines (`PinsInv`); in the search, every place knows how long the watchdog has been unfed (`TimeInv`), and the
  window is the end of what was shown (`SettleInv`), which is what makes the two halves' means speak of the frame kept.
  `WorkingInv` is why a working camera is acquired: nothing left over from the run before survives `AcquireBegin` (`BeginClears`), and an attempt that sees nothing was made at a rung too short for the room and has cost at most what the
  budget holds for that rung (`Climbing`), so that the next rung is still tried and the last one is long enough. The theorem is for every set of limits
  with such a ladder of rungs (`Ladder`), each the double of the one before up to `FT_QUIET_MAX_MS`: the ladder is a hypothesis because a sequence of doublings of unknown length
  is induction over data. It has models: `MCBoot`'s is 1, 2, 4, and the code's 50 ms, 4 s and 25 s give eight rungs for any capture of up to 1.6 s.
- **`CaptureProofs`** (from `CaptureAssumption`): `AgeIsRight`, `ArmedIsHeld`, `ScheduleIsWhole`, `CountedIsRight`. `InFlight` ties `armed` to the
  camera's burst, `InHand` the frame encoded to its trigger, `Timed` says that all layers done were done at one pace - changes are between frames -
  and `Announced` that a frame not yet of the right source still has announcements to come.
- **`CaptureProofs`**, of `Witness` (from `WitnessAssumption`: any loops and order of writing them, any steps, any two different exposures in the check, neither of them zero, and any room, whatever it asks for, any number of
  bursts, stalls and drops): `LinesAreSound`, and `PairIsSound` for bursts whose 'P's and 'V's stand together. The lines are about the sensor as it is *now*, and none of
  the four is inductive. `StandsStill` is what a restarted witness could break and does not: a loop that is not running has had the value the first sample
  saw ever since, or the first sample is the zero of a stalled bus, because a press between the samples throws the first one away. `Revised` puts a frame between the check's write and the second sample, so that a
  running loop that is still on the check's exposure has been put there by the room; `CheckedAgainst` says that the value compared with is the one written last. Each of `cam.c`'s
  calls has a lemma for what it may leave (`AutoMaskIs`, `SampleIs`, `TryOneIs`). `PairInv` says that a burst's dumps leave the inbox in one breath
  (`DrainKeepsPair`), so that neither is made while the other is still to be asked for, and that a vector is late only behind the picture of the frame being encoded. The
  hypothesis is needed: a burst P, L, V asks for its vector a frame after its picture, as `main()`'s one key a frame makes it; `demo.py` sends the two side by side.
- **`BackgroundProofs`** (from `BackgroundAssumption`, for any sets of queries and any `EnrolN`, `MaxQ` and `MaxPresses`): `TypeCorrect`, `ReferencesAreSound`,
  `VisitsAreSound`, `BackgroundIsSound`, `RuleIsSound`. References are good because the window being folded is (`WindowIsGood`), and a window
  never starts on the seed because a key is only read behind a frame (`WarmAtKeys`). A fold adds a visit rather than merging with one already counted
  because every visit is older than the open window (`VisitsAreOld`). A refused set has a record newer than anything accepted (`Dated`,
  lemma `RefusedIsNoSet`), so that no property of the set in force is claimed of the mixture, and accepting a set restores them all.
- **`BackgroundProofs`**, second part (from `EncoderAssumption`: no layer is empty, and a tensor's bytes fit `size_t`): `BuffersHold`, `BuffersAreKept` for any
  blob: `embed`, which nothing compares, is kept when the head is no longer than it (`Wide`). The kernels check no index, so what keeps their stores inside is `main`'s comparison of two sizes with two constants, made once. `RunInv` is the
  inductive invariant: what runs was let through, and `layer`, `oc` and `t0` are of that blob's shapes. `OutputsFit` and `ColumnsFit` say that what the two
  sizes are the greatest of covers each layer (that a bounded set of numbers has a greatest is `GreatestIs`, by a least counterexample); `RowFits` and `TileIs`
  that a channel's row, of a whole tile or of what is left of the last one, ends where the channel does; `HeadStep` that the codes of the pool, a byte each, are
  no more than the floats of the layer before.

`MarkCovers`, `NeverOverwritten`, `ScheduleIsOneFrame` and `RuleHasItsQueries` are proved and are properties of no run: TLC agreed with each on its module's run before its proof.

Only model-checked: liveness (`CallsReturn`, `FrameEnds`, `NotGoneForEver`), which is beyond the prover; `Encoder`'s `AnswersAreTheModels`, which says what
sums over a tensor, a pool and a head come to, and bounds a rounding the run's layers keep and others may not. `GemmHost` is proved for a
memory of two bytes and an alphabet of seven, which `GemmLink` fixes because the lengths and sweeps a damaged byte can name depend on them.

## 7. What the models leave out

Each module's `TypeOK` records the values its variables take. Worker's, Background's, `GemmHost`'s and `TxStage`'s are proved (`TypeCorrect`, `DriverTypes`, `StageInductive`); the proofs of the other modules
carry a type of their own (`EngineType`, `WatchType`, `AcqType`). They are not listed as properties of the runs.

Abstractions inside a modelled part:

- *worker*: spurious wake-ups of WFE (each is another look at a condition the loop rechecks), the
  stall and busy counters, the job's function and argument.
- *frame*: `do_sweep`'s comparison with the reference, profiling, the capture hook at the end of `ft_layer` (it is in `Capture`), the early return on
  a block count that does not match the plan. `gh_overlap`'s hook is part of `SendStrip` and `SendWgt`. Arithmetic is tags.
- *driver*: the too-big refusals, `gw_locate()`'s hint, the sniffer's calibration, `CMD_LED`, profiling. With an earlier pattern in the
  response that reads as a preamble, the hint gives another position than a scan would; the CRC then decides, which is how the model has it.
- *link*: bits inside a byte, the drain prefetch's timing beyond "late or not", the LED registers. A CRC is
  ideal. One fault is a byte, a token or a transfer; 8- and 16-bit CRCs that collide are not considered.
- *blocks and tile*: numbers. A sum is the set of the products in it and a requantized word the sequence of what was applied to it, so that overflow of an
  accumulator, rounding and saturation are not seen. The tile is the one that is built: `APACK` 1, `WNIB` 0, `DPIPE` 0, `RQ` 1. The
  abandoning of a readout by an underrun in `S_DHOLD` is left out, since `NeverUnderruns` says that it is not reached. Top modules, pins and the PLL are left to `tb_gemm.v`.
- *last words*: a record's payload; a foreign build's record reads as torn, which is how `slot_valid()` treats it.
- *USB*: TinyUSB is `mounted`, `suspended` and a start-of-frame counter; "suspended" is only ever said of a bus the host suspended. The 11-bit
  wrap of the counter is not modelled. The simulated drops ('U' and 'I') and the LED's blink are left out.
- *boot*: the header, payload and CRC of a bitstream are taken by their outcome, and the at most 64 bytes of a window of the download between CDONE and the
  poll that sees it are one step. The reference encode and the probe take no time. `CRESET_N` and `SS_N` have 10 kOhm pull-downs (`docs/pinmap.md:119-123`,
  `docs/architecture.md:186`), so a restart of the microcontroller loses the FPGA's configuration: `FpgaDrives` is none again.
- *acquisition*: seconds; `cam_begin()`'s 50 ms and a capture's 0.2 s are rounded to 0, and the settle is the quiet. The light is chosen
  when the search starts and does not change in it. The change of the bus rate and the printed registers are left out.
- *capture*: pixels; the exposure locks, which are in `Witness`; the statistics; the room and the pace change between frames only. A wait is
  compared with one bound for late and one for early (the code's thresholds in microseconds).
- *witness*: a loop's value is one number and the two readings of a pair agree or do not; the room is what a running loop turns to. The captures are overlapped; the printed
  text is the sets it names. A burst is all there when the console looks.
  A pair of reads that tears and a bus that stalls in the next pair are not taken together. `StepNamesTheMask` has a premise, `lost`: when the bus stalls under a key its writes are dropped, nothing says so and nothing
  writes the mask again, and until the next key the step named may not be the mask.
- *encoder*: float32's rounding: a float is the fraction it stands for, and both kernels share the operators that have it. The times `m5b.c` prints, and its comparison with the golden vectors.
- *demo loop*: the decision from the scores, the diagnostics of an enrolment, smoothing, `m21_present`, the dumps, 'S' (it changes the divisor of z under
  references already taken, by design), the keys that reboot (in `Outage` and `Boot`), the wrap of the 8-bit count of visits after 256. A frame whose
  capture or encode fails goes round the loop without polling or scoring, and changes nothing here.

Limits of the code itself that the models make visible, and that no property claims away:

- `lw_take()` erases before the banner prints; a cut in those milliseconds loses the record. `OutageIsAttributed` counts from the banner.
- An erase that is cut may leave an older life's record, with a seq that the next life reuses; hence the premise `whole` of `TakenIsLastLife`.
- One `pend` holds the outage not yet reported; a second one before the port is opened replaces its text, though it is counted.
- A bus lost at the query prompt is not watched, and the prompt feeds the watchdog: `NotGoneForEver` is about the loop.
- The hotkey's first byte always counts as alone, for `prev_us` is 0 when the hunt starts, whatever the comment at `frame.c:237-250` says of a byte in a burst. What keeps a
  magic safe is the other guard, that the three bytes before it are not FGX; it is `MagicIsHeard`.
- `FGX_CORE_MV` is not honoured when `khz` is 150000 or the rate is refused, though the banner calls the rail pinned.
- A wedge inside `cam_capture()` is bounded by the idle and done limits and never trips the watchdog, which `frame.c:1624-1625` says it does; a wedge inside `cam_begin()` or
  `cam_image_defaults()` does, by 11 waits of 2 s without a feed, and the board then reboots for as long as the camera is wedged rather than park. `KeepsItsTime` is
  therefore about an acquire that is not wedged.
- The reading of a constant fill counts when the search asks whether the exposure ever moved (section 8, `ConfidentMeansMoved`).
- 'M' says "frames now SYNTHETIC" whatever became of the write: `cam_frame_source_synth()` returns nothing, and a bus that stalls, or whose fault a failed
  trigger left behind, drops it (`cam.c:574`, `m9.c:3820`). `CountedIsOffTheSource` is therefore about the source the camera is on.
- The lead is raised by the wait of any capture under the overlap, the first one included, which was not armed at all; the comment at
  `frame.c:1293` takes one wait as a late trigger. It costs age, not correctness, until enough early frames have lowered it again.
- After a refused set (section 8) no property of `Background` is claimed until a set is accepted; accepting one restores all of them.

Not modelled at all: the camera and link probes and the earlier milestones (straight-line programs over the parts above), the host and
model tools, and the recorded benches. PROJECT.json gives each its reason.

## 8. Disagreements found

Four are runs:

- `background_rejected`: `recv_queries()` refuses a set for an unknown role when records before it are already copied, and for half of a
  pair of roles when all of it is in force (`m9.c:1904`, `2014`), without the reset that belongs to a new set. The comments say "never a partial
  accept" (`m9.c:1810-1812`) and "A rejected set leaves the old one resident and running" (`m9.c:4052`). At the prompt, half a pair even starts the loop.
- `two_drivers`: `probe()` tries three lines and then one whatever was configured (`m9.c:1763`), and at three lines `link_setup()` drives GPIO1, which a
  configuration-A image drives from CDONE on. `fpga_config.c:141-146` and `156-158` say that this must not be. The host's default image is of the
  other configuration.
- `encoder_embed`: `fgx_pool_head()` stores as many floats as the head has outputs (`encoder.c:272-277`) in `embed[1024]` (`m5b.c:69`; `m5.c`, `m7.c`, `m8.c` and `m9.c` have the same), and neither `fgx_open()` nor
  `main()` bounds them; the comparison at `m5b.c:208` is of the other two sizes. Errors of a blob are refused "because a weights.bin is a file on a filesystem and the export that wrote it is
  not present" (`encoder.c:62-64`). The shipped model's head has 512 outputs.
- `witness_zeros`: a bus that stalls under one of the witness' two samples answers the rest of it with zeros, which agree with each other and differ from the other sample; a loop that stands
  still is printed as STILL REVISING or as running again (`m9.c:2935-2952`), which `cam.h:226-227` calls "conclusive". The zero is in the line above. `LinesHaveGrounds` says that this is the only way: such a line shows one.

Others can be seen by giving TLC the named definition with the named change:

- `AtMostOneLate` of `MCGemmHost` with `MaxPass = 1`, `More = {"mode"}`, `MidStream = TRUE`: `gh_sync()`'s contract says a deferred failure "is never lost"
  (`gemm_host.h:317-319`), but `gh_set_pipelined()`, `gh_rate_changed()` and `gh_set_width()` drop what it returns (`gemm_host.c:631`, `180`, `397`). The firmware
  switches between frames, behind a NOP that has retired the pipeline, so run `gemm_host` (without `MidStream`) passes.
- `AskedIsNoHang` of `MCOutage`: an 'R' at the query prompt or while parked reboots with the stage still in scratch, and
  the banner reports a hang (`m9.c:3359`, `1719`), against the comment at `m9.c:1342-1344`.
- `PowerCycleEndedIt` of `MCOutage`: a record written on the first re-attach is not withdrawn when the outage heals, so a later, ordinary power cut is
  reported as the outage's end (`m9.c:1684`, `1425-1428`).
- `SumsAreTheConvolution` of `MCTile` with `Layers <- MCOddRows` and `KPacks = {TRUE}`: at the left border the first tap of a pair is padding and its
  address wraps far from the strip (`im2col_feed.v`: "a don't-care"); where the input's width is odd, that address is even in every other row, and it is the
  second tap's bank that is addressed from it (`gemm_tile.v:1281-1289`). Neither `gb_geom()` nor the tile refuses such a layer; the encoder has none.
- `PairIsOfOneFrame` of `MCWitness`, in `MCWitnessZeros.cfg` as are the next three: 'P' and 'V' pressed together give the picture of a frame whose encode then fails and the vector of a later
  one (`m9.c:3533`, `3568`), against "press both and the image and the vector describe the same frame n" (`m9.c:3563-3564`). The console names the frame with each, so the host can tell.
- `StuckMeansStopped` of `MCWitness`: after a 'K', an exposure equal to the last one the check wrote is printed as "The AE loop is not running" (`m9.c:2978-2988`), with "a live loop would have moved off it" as the reason (`m9.c:813-815`). A
  live loop that the room has on that exposure stays. It is what `cam.c:348-350` says of a check with one value; the check has two, and the witness compares with one of them.
- `DraggedIsProof` of `MCWitness`: as in `witness_zeros`, a bus that stalls under the lock check answers both reads with zeros that agree, and the check says `dragged`, which `cam.c:362-364` calls proof that "the die
  overwrote a value".
- `StillUnderThePrevious` of `MCWitness`: the witness' "changed across the mask write, after standing still under the previous one" (`m9.c:2974`) compares with the last witness that ended; a press whose witness was replaced, or whose sample was not readable, may lie between.
- `cam_exposure_lock_check()` "leaves the loops FREE" by its comment (`cam.c:369`) and masks all three by its code (`cam.c:386`); 'K' frees them after it, with `cam_image_defaults()`, and `CheckKey` models both.
- `ConfidentMeansMoved` of `MCBoot`: a sensor whose real readings never move is accepted without a doubt when a constant fill between
  them read differently, though the comment on the doubt speaks of the exposure.

## 9. The plan

The order put first what every frame relies on, then what a failure relies on, then how the board comes up.

1. *Done*: every module of section 2, the runs of section 4, the proofs of section 6.
2. *Left, and possible*: the start-of-frame counter's 11-bit wrap, which needs the times of the watch's samples together with the
   bus.
3. *Left out for good*: what section 7 lists as not modelled at all.
