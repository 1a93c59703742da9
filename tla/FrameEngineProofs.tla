-------------------------- MODULE FrameEngineProofs --------------------------
(***************************************************************************)
(* For any number of layers, blocks and passes, any depth of the rings, in *)
(* every mode and whatever transactions fail: no job touches a buffer that *)
(* core 0 is using (worker.h's rule 3), a frame fails only if something it *)
(* could have seen was damaged, and a layer that reports success is right. *)
(*                                                                         *)
(* RaceInv: what may be outstanding is read off where core 0 is.  A build  *)
(* job is for the pass core 0 is about to wait for, or the next; a decode  *)
(* has its scatter behind it in the same queue; a scatter has its ticket   *)
(* kept; so the one ticket that is waited for before a half is used again  *)
(* stands for every job on that half.  Tickets: the count of a queue is at *)
(* most the number of each job in it, which is what a ticket waits for.    *)
(*                                                                         *)
(* HurtInv: in a frame with nothing damaged, a descriptor is armed exactly *)
(* while its decode is owed.  DataInv: what is built, loaded, summed,      *)
(* captured, decoded and scattered is the block's at each place core 0 is. *)
(***************************************************************************)
EXTENDS FrameEngine, TLAPS

Job == [kind : {"strip", "wgt"}, pass : Nat, buf : {0, 1}]
         \cup [kind : {"decode"}, buf : {0, 1}]
         \cup [kind : {"scatter"}, buf : {0, 1}, block : Nat]

\* Where core 0 may have left build jobs, and where it is using a half of got[].
Building == {"post_s", "post_w", "wait_s", "act", "wait_w", "wgt", "run"}
Using == {"nop", "cfg", "rqp", "hit", "build0", "drain", "nop2", "decode"} \cup Building

Modes == [build : BOOLEAN, scatter : BOOLEAN, decode : BOOLEAN,
          prio : BOOLEAN, plan : Plans]

EngineType ==
  /\ mode \in Modes
  /\ pc \in {"reset", "layer", "reuse", "post_scat", "wait_dec", "scatter", "fail", "barrier",
             "layer_done"} \cup Using
  /\ layer \in Nat /\ b \in Nat /\ pass \in Nat /\ gcur \in {0, 1}
  /\ scatLive \in [{0, 1} -> BOOLEAN]
  /\ queue \in [Queues -> Seq(Job)]

\* A build job is for this pass, until it has been waited for, or for the next.
BuildOk(q, j) ==
  /\ mode.build /\ q = build_q
  /\ 1 <= j.pass /\ j.pass < NPass /\ j.buf = j.pass % 2
  /\ pc \in Building \cup {"fail"}
  /\ pc # "fail" =>
       /\ j.pass \in {pass, pass + 1}
       /\ j.kind = "strip" => /\ pc = "post_s" => j.pass = pass
                              /\ pc \in {"act", "wait_w", "wgt", "run"} => j.pass = pass + 1
       /\ j.kind = "wgt" => /\ ~wHit
                            /\ pc \in {"post_s", "post_w"} => j.pass = pass
                            /\ pc \in {"wgt", "run"} => j.pass = pass + 1

DecodeOk(q, j) ==
  /\ mode.decode /\ q = LO
  /\ ~mode.scatter => pc = "wait_dec" /\ j.buf = gcur

ScatterOk(q, j) ==
  /\ mode.scatter /\ q = LO
  /\ scatLive[j.buf]

JobOk(q, j) ==
  /\ j.kind \in {"strip", "wgt"} => BuildOk(q, j)
  /\ j.kind = "decode" => DecodeOk(q, j)
  /\ j.kind = "scatter" => ScatterOk(q, j)

JobsOk == \A q \in Queues : \A k \in 1 .. Len(queue[q]) : JobOk(q, queue[q][k])

\* Behind a decode is the scatter of the same half, unless it is being posted.
Followed ==
  mode.scatter =>
    \A k \in 1 .. Len(queue[LO]) : queue[LO][k].kind = "decode" =>
      \/ \E m \in k + 1 .. Len(queue[LO]) :
           queue[LO][m].kind = "scatter" /\ queue[LO][m].buf = queue[LO][k].buf
      \/ pc = "post_scat" /\ queue[LO][k].buf = gcur

\* Core 1 runs the first job of a queue.
RunsFirst ==
  running # Nobody =>
    \E q \in Queues : Len(queue[q]) > 0 /\ running = <<q, queue[q][1]>>

Where ==
  /\ pc \in {"reset", "layer", "layer_done"} => Drained
  /\ pc \in Using => ~scatLive[gcur]
  /\ pc = "post_scat" => mode.scatter
  /\ pc \in {"wait_dec", "scatter"} => ~mode.scatter

RaceInv == EngineType /\ JobsOk /\ Followed /\ RunsFirst /\ Where

\* The ticket core 0 holds of a job.  Of decodes it waits for there is one at a time;
\* where it waits for scatters only, the ticket of a decode is let go.
TicketOf(j) == CASE j.kind = "strip"   -> tk_s[j.buf]
                 [] j.kind = "wgt"     -> tk_w[j.buf]
                 [] j.kind = "scatter" -> tk_scat[j.buf]
                 [] OTHER              -> tk_dec
Kept(j) == j.kind = "decode" => ~mode.scatter

\* The k-th job of a queue, if its ticket is kept, has that number or an older one.
Tickets ==
  /\ tail \in [Queues -> Nat] /\ tk_dec \in Nat
  /\ tk_s \in [{0, 1} -> Nat] /\ tk_w \in [{0, 1} -> Nat] /\ tk_scat \in [{0, 1} -> Nat]
  /\ \A q \in Queues : \A k \in 1 .. Len(queue[q]) :
       Kept(queue[q][k]) => tail[q] + k <= TicketOf(queue[q][k]) + 1

\* What a wait is for: no such job on that half is left in the queue.
Retired(q, kind, i) ==
  \A k \in 1 .. Len(queue[q]) : queue[q][k].kind = kind => queue[q][k].buf # i

-----------------------------------------------------------------------------
LEMMA Constants == NPass \in Nat /\ NPass # 0 /\ NBlocks \in Nat
BY EngineAssumption

\* The two halves.
LEMMA Halves ==
  ASSUME NEW n \in Nat
  PROVE  n % 2 \in {0, 1} /\ Other(n % 2) = (n + 1) % 2 /\ n % 2 # (n + 1) % 2
BY DEF Other

LEMMA AppendIs ==
  ASSUME NEW S, NEW s \in Seq(S), NEW x \in S
  PROVE  /\ Append(s, x) \in Seq(S) /\ Len(Append(s, x)) = Len(s) + 1 /\ Len(s) \in Nat
         /\ \A k \in 1 .. Len(s) : Append(s, x)[k] = s[k]
         /\ Append(s, x)[Len(s) + 1] = x
OBVIOUS

LEMMA TailIs ==
  ASSUME NEW S, NEW s \in Seq(S), s # <<>>
  PROVE  /\ Tail(s) \in Seq(S) /\ Len(Tail(s)) = Len(s) - 1 /\ Len(s) \in Nat /\ Len(s) # 0
         /\ \A k \in 1 .. Len(Tail(s)) : Tail(s)[k] = s[k + 1] /\ k + 1 \in 1 .. Len(s)
         /\ Head(s) = s[1]
OBVIOUS

\* An element of a queue is a job.
LEMMA JobIn ==
  ASSUME EngineType, NEW q \in Queues, NEW k \in 1 .. Len(queue[q])
  PROVE  queue[q][k] \in Job /\ Len(queue[q]) \in Nat
BY DEF EngineType

\* A ticket below the queue's count is of a job that has gone, in the queue it is of.
LEMMA DoneIs ==
  ASSUME EngineType, Tickets, NEW q \in Queues, NEW kind, NEW i, NEW n \in Nat, Done(q, n),
         \A j \in Job : j.kind = kind /\ j.buf = i => TicketOf(j) = n /\ Kept(j)
  PROVE  Retired(q, kind, i)
<1>1. SUFFICES ASSUME NEW k \in 1 .. Len(queue[q]), queue[q][k].kind = kind, queue[q][k].buf = i
               PROVE  FALSE
  BY DEF Retired
<1>2. queue[q][k] \in Job /\ tail[q] \in Nat /\ k \in Nat /\ k >= 1
  BY JobIn DEF Tickets
<1>3. PICK j \in Job : j = queue[q][k]
  BY <1>2
<1>4. tail[q] + k <= TicketOf(j) + 1 /\ TicketOf(j) = n
  BY <1>1, <1>3 DEF Tickets
<1> QED
  BY <1>2, <1>4 DEF Done

\* So each wait is for the job it is meant for.
LEMMA WaitsAreFor ==
  ASSUME RaceInv, Tickets
  PROVE  /\ ReuseGuard /\ scatLive[gcur] => Retired(LO, "scatter", gcur)
         /\ WaitStrip /\ mode.build /\ pass > 0 => Retired(build_q, "strip", Cur)
         /\ WaitWgt /\ mode.build /\ pass > 0 /\ ~wHit => Retired(build_q, "wgt", Cur)
         /\ WaitDecode /\ mode.decode => Retired(LO, "decode", gcur)
<1>1. LO \in Queues /\ build_q \in Queues /\ gcur \in {0, 1} /\ Cur \in {0, 1} /\ EngineType
  BY Halves DEF RaceInv, EngineType, Queues, build_q, Cur
<1>2. tk_scat[gcur] \in Nat /\ tk_s[Cur] \in Nat /\ tk_w[Cur] \in Nat /\ tk_dec \in Nat
  BY <1>1 DEF Tickets
<1>3. ASSUME ReuseGuard, scatLive[gcur] PROVE Retired(LO, "scatter", gcur)
  <2>1. Done(LO, tk_scat[gcur])
    BY <1>3 DEF ReuseGuard
  <2>2. \A j \in Job : j.kind = "scatter" /\ j.buf = gcur => TicketOf(j) = tk_scat[gcur] /\ Kept(j)
    BY DEF TicketOf, Kept
  <2> QED
    BY <1>1, <1>2, <2>1, <2>2, DoneIs
<1>4. ASSUME WaitStrip, mode.build /\ pass > 0 PROVE Retired(build_q, "strip", Cur)
  <2>1. Done(build_q, tk_s[Cur])
    BY <1>4 DEF WaitStrip
  <2>2. \A j \in Job : j.kind = "strip" /\ j.buf = Cur => TicketOf(j) = tk_s[Cur] /\ Kept(j)
    BY DEF TicketOf, Kept
  <2> QED
    BY <1>1, <1>2, <2>1, <2>2, DoneIs
<1>5. ASSUME WaitWgt, mode.build /\ pass > 0 /\ ~wHit PROVE Retired(build_q, "wgt", Cur)
  <2>1. Done(build_q, tk_w[Cur])
    BY <1>5 DEF WaitWgt
  <2>2. \A j \in Job : j.kind = "wgt" /\ j.buf = Cur => TicketOf(j) = tk_w[Cur] /\ Kept(j)
    BY DEF TicketOf, Kept
  <2> QED
    BY <1>1, <1>2, <2>1, <2>2, DoneIs
<1>6. ASSUME WaitDecode, mode.decode PROVE Retired(LO, "decode", gcur)
  <2>1. Done(LO, tk_dec) /\ ~mode.scatter
    BY <1>6 DEF WaitDecode, RaceInv, Where
  <2>2. \A j \in Job : j.kind = "decode" /\ j.buf = gcur => TicketOf(j) = tk_dec /\ Kept(j)
    BY <2>1 DEF TicketOf, Kept
  <2> QED
    BY <1>1, <1>2, <2>1, <2>2, DoneIs
<1> QED
  BY <1>3, <1>4, <1>5, <1>6

-----------------------------------------------------------------------------
In(q, j) == \E k \in 1 .. Len(queue[q]) : queue[q][k] = j

\* A step of core 0 that posts nothing keeps the invariant if it leaves every job
\* outstanding one that may be.
LEMMA NoPost ==
  ASSUME RaceInv, UNCHANGED <<worker, mode>>, EngineType', Where', pc # "post_scat",
         \A q \in Queues : \A j \in Job : In(q, j) /\ JobOk(q, j) => JobOk(q, j)'
  PROVE  RaceInv'
<1>1. queue' = queue /\ running' = running /\ mode' = mode
  BY DEF worker
<1>2. JobsOk'
  <2>1. ASSUME NEW q \in Queues, NEW k \in 1 .. Len(queue[q]) PROVE JobOk(q, queue[q][k])'
    <3>1. PICK j \in Job : j = queue[q][k] /\ In(q, j) /\ JobOk(q, j)
      BY JobIn DEF RaceInv, JobsOk, In
    <3>2. JobOk(q, j)'
      BY <3>1
    <3>3. j = queue'[q][k]
      BY <1>1, <3>1
    <3> QED
      BY <3>2, <3>3 DEF JobOk, BuildOk, DecodeOk, ScatterOk
  <2> QED
    BY <1>1, <2>1 DEF JobsOk
<1>3. Followed'
  BY <1>1 DEF RaceInv, Followed
<1>4. RunsFirst'
  BY <1>1 DEF RaceInv, RunsFirst
<1> QED
  BY <1>2, <1>3, <1>4 DEF RaceInv

\* What a post does to the queues.
LEMMA PostIs ==
  ASSUME EngineType, NEW p \in Queues, NEW j \in Job, JQ!Post(p, j)
  PROVE  /\ queue' \in [Queues -> Seq(Job)] /\ running' = running
         /\ \A q \in Queues :
              /\ Len(queue[q]) \in Nat
              /\ Len(queue'[q]) = IF q = p THEN Len(queue[q]) + 1 ELSE Len(queue[q])
              /\ \A k \in 1 .. Len(queue[q]) : queue'[q][k] = queue[q][k]
         /\ queue'[p][Len(queue[p]) + 1] = j
<1>1. queue' = [queue EXCEPT ![p] = Append(queue[p], j)] /\ running' = running
  BY DEF JQ!Post
<1>2. \A q \in Queues : queue[q] \in Seq(Job)
  BY DEF EngineType
<1>3. /\ Append(queue[p], j) \in Seq(Job) /\ Len(Append(queue[p], j)) = Len(queue[p]) + 1
      /\ \A k \in 1 .. Len(queue[p]) : Append(queue[p], j)[k] = queue[p][k]
      /\ Append(queue[p], j)[Len(queue[p]) + 1] = j
  BY <1>2, AppendIs
<1>4. queue'[p] = Append(queue[p], j) /\ \A q \in Queues : q # p => queue'[q] = queue[q]
  BY <1>1 DEF EngineType
<1>5. \A q \in Queues : Len(queue[q]) \in Nat
  BY <1>2
<1>6. queue' \in [Queues -> Seq(Job)]
  BY <1>1, <1>3 DEF EngineType
<1> QED
  BY <1>1, <1>3, <1>4, <1>5, <1>6

\* What retiring the first job of a queue does to it.
LEMMA RetireIs ==
  ASSUME EngineType, NEW p \in Queues, JQ!Retire(p)
  PROVE  /\ Len(queue'[p]) = Len(queue[p]) - 1 /\ Len(queue[p]) \in Nat
         /\ \A k \in 1 .. Len(queue'[p]) : queue'[p][k] = queue[p][k + 1] /\ k + 1 \in 1 .. Len(queue[p])
         /\ \A q \in Queues : q # p => queue'[q] = queue[q]
<1>1. queue[p] \in Seq(Job) /\ queue[p] # <<>>
  BY DEF EngineType, JQ!Retire
<1>2. queue' = [queue EXCEPT ![p] = Tail(queue[p])]
  BY DEF JQ!Retire
<1> QED
  BY <1>1, <1>2, TailIs DEF EngineType

LEMMA NoneIn ==
  ASSUME Drained, NEW q \in Queues, NEW j, In(q, j)
  PROVE  FALSE
BY DEF Drained, In

-----------------------------------------------------------------------------
\* Between layers and frames nothing is outstanding.
LEMMA IdleSteps ==
  ASSUME RaceInv,
         FrameReset \/ Reconfigure \/ StartLayer \/ FailDrain \/ LayerBarrier \/ AfterLayer
  PROVE  RaceInv'
<1>1. Drained /\ UNCHANGED <<worker, mode>> /\ pc # "post_scat"
  BY DEF RaceInv, Where, FrameReset, Reconfigure, StartLayer, FailDrain, LayerBarrier, AfterLayer
<1>2. EngineType'
  <2>1. queue' = queue /\ mode' = mode
    BY <1>1 DEF worker
  <2>2. /\ layer' \in {1, layer, layer + 1} /\ b' \in {0, b} /\ pass' \in {0, pass}
        /\ gcur' \in {0, gcur} /\ scatLive' \in {scatLive, [i \in {0, 1} |-> FALSE]}
        /\ pc' \in {"reset", "layer", "reuse", "barrier", "layer_done"}
    BY DEF where, FrameReset, Reconfigure, StartLayer, FailDrain, LayerBarrier, AfterLayer
  <2>3. scatLive' \in [{0, 1} -> BOOLEAN] /\ queue' \in [Queues -> Seq(Job)] /\ mode' \in Modes
    BY <2>1, <2>2 DEF RaceInv, EngineType
  <2>4. layer' \in Nat /\ b' \in Nat /\ pass' \in Nat /\ gcur' \in {0, 1}
    BY <2>2 DEF RaceInv, EngineType
  <2> QED
    BY <2>2, <2>3, <2>4 DEF EngineType
<1>3. Drained'
  BY <1>1 DEF Drained, worker
<1>4. pc' \in {"reset", "layer", "reuse", "barrier", "layer_done"}
  BY DEF RaceInv, Where, FrameReset, Reconfigure, StartLayer, FailDrain, LayerBarrier, AfterLayer
<1>5. Where'
  BY <1>3, <1>4 DEF Where, Using, Building
<1> QED
  BY <1>1, <1>2, <1>5, NoneIn, NoPost

\* ft_layer() comes back to a half that no scatter reads.
LEMMA ReuseStep ==
  ASSUME RaceInv, Tickets, ReuseGuard
  PROVE  RaceInv'
<1>1. UNCHANGED <<worker, mode>> /\ pc = "reuse" /\ pc' = "nop"
  BY DEF ReuseGuard
<1>2. EngineType'
  BY DEF RaceInv, EngineType, ReuseGuard, worker, where, Using
<1>3. Where'
  BY DEF RaceInv, EngineType, ReuseGuard, Where, Using
<1>4. ASSUME NEW q \in Queues, NEW j \in Job, In(q, j), JobOk(q, j) PROVE JobOk(q, j)'
  <2>1. j.kind \notin {"strip", "wgt"}
    BY <1>1, <1>4 DEF JobOk, BuildOk, Building
  <2>2. j.kind = "decode" => DecodeOk(q, j)'
    BY <1>1, <1>4 DEF JobOk, DecodeOk
  <2>3. ASSUME j.kind = "scatter" PROVE ScatterOk(q, j)'
    <3>1. mode.scatter /\ q = LO /\ scatLive[j.buf]
      BY <1>4, <2>3 DEF JobOk, ScatterOk
    <3>2. j.buf # gcur
      <4>1. scatLive[gcur] => Retired(LO, "scatter", gcur)
        BY WaitsAreFor
      <4> QED
        BY <1>4, <2>3, <3>1, <4>1 DEF Retired, In
    <3>3. j.buf \in {0, 1}
      BY <2>3 DEF Job
    <3> QED
      BY <1>1, <3>1, <3>2, <3>3 DEF ScatterOk, ReuseGuard, RaceInv, EngineType
  <2> QED
    BY <2>1, <2>2, <2>3 DEF JobOk
<1> QED
  BY <1>1, <1>2, <1>3, <1>4, NoPost

\* Up to the first build, and from the DRAIN on, no build is outstanding; a call
\* that fails leaves what there is to w1_drain().
LEMMA QuietSteps ==
  ASSUME RaceInv, GeomFault \/ BlockNop \/ BlockCfg \/ Requant \/ WeightsHit \/ BuildFirst
                  \/ DrainTile \/ BlockStatus
  PROVE  RaceInv'
<1>1. /\ UNCHANGED <<worker, mode, scatLive, gcur>>
      /\ pc \in {"reuse", "nop", "cfg", "rqp", "hit", "build0", "drain", "nop2"}
      /\ pc' \in {"cfg", "rqp", "hit", "build0", "post_s", "nop2", "decode", "fail"}
      /\ pc = "reuse" => pc' = "fail"
  BY DEF GeomFault, BlockNop, BlockCfg, Requant, WeightsHit, BuildFirst, DrainTile,
         BlockStatus, Transaction, Fail
<1>2. layer' = layer /\ b' = b /\ pass' \in {0, pass}
  BY DEF GeomFault, BlockNop, BlockCfg, Requant, WeightsHit, BuildFirst, DrainTile,
         BlockStatus, where
<1>3. EngineType'
  BY <1>1, <1>2 DEF RaceInv, EngineType, worker, Using, Building
<1>4. Where'
  BY <1>1 DEF RaceInv, Where, Using, Building
<1>5. ASSUME NEW q \in Queues, NEW j \in Job, In(q, j), JobOk(q, j) PROVE JobOk(q, j)'
  BY <1>1, <1>5 DEF JobOk, BuildOk, DecodeOk, ScatterOk, Building
<1> QED
  BY <1>1, <1>3, <1>4, <1>5, NoPost

\* The job that built pass p left its buffer named by p's parity.
LEMMA BuildIn ==
  ASSUME RaceInv, NEW q \in Queues, NEW j \in Job, JobOk(q, j), j.kind \in {"strip", "wgt"}
  PROVE  /\ mode.build /\ q = build_q /\ j.pass \in Nat /\ 1 <= j.pass /\ j.pass < NPass
         /\ j.buf = j.pass % 2 /\ j.buf \in {0, 1} /\ pc \in Building \cup {"fail"}
BY DEF JobOk, BuildOk, Job

\* Waiting for this pass' strip or weights leaves only jobs of the next.
LEMMA WaitSteps ==
  ASSUME RaceInv, Tickets, WaitStrip \/ WaitWgt
  PROVE  RaceInv'
<1>1. /\ UNCHANGED <<worker, mode, scatLive, gcur, where, wHit>>
      /\ \/ pc = "wait_s" /\ pc' = "act"
         \/ pc = "wait_w" /\ pc' = "wgt"
  BY DEF WaitStrip, WaitWgt
<1>2. EngineType'
  BY <1>1 DEF RaceInv, EngineType, worker, where, Using, Building
<1>3. Where'
  BY <1>1 DEF RaceInv, Where, Using, Building
<1>4. ASSUME NEW q \in Queues, NEW j \in Job, In(q, j), JobOk(q, j) PROVE JobOk(q, j)'
  <2>1. CASE j.kind \in {"strip", "wgt"}
    <3>1. /\ mode.build /\ q = build_q /\ j.pass \in Nat /\ 1 <= j.pass /\ j.pass < NPass
          /\ j.buf = j.pass % 2
      BY <1>4, <2>1, BuildIn
    <3>2. BuildOk(q, j)
      BY <1>4, <2>1 DEF JobOk
    <3>3. ASSUME j.pass = pass
          PROVE  /\ WaitStrip => j.kind # "strip"
                 /\ WaitWgt => j.kind # "wgt"
      <4>1. pass > 0 /\ j.buf = Cur
        BY <3>1, <3>3 DEF Cur
      <4>2. j.kind = "wgt" => ~wHit
        BY <1>1, <3>2 DEF BuildOk, Building
      <4> QED
        BY <1>4, <3>1, <4>1, <4>2, WaitsAreFor DEF Retired, In
    <3>4. j.pass \in {pass, pass + 1}
      BY <1>1, <3>2 DEF BuildOk
    <3>5. BuildOk(q, j)'
      BY <1>1, <3>1, <3>2, <3>3, <3>4
         DEF BuildOk, Building, build_q, where, WaitStrip, WaitWgt
    <3> QED
      BY <2>1, <3>5 DEF JobOk, Job
  <2>2. CASE j.kind \notin {"strip", "wgt"}
    BY <1>1, <1>4, <2>2 DEF JobOk, DecodeOk, ScatterOk
  <2> QED
    BY <2>1, <2>2
<1> QED
  BY <1>1, <1>2, <1>3, <1>4, NoPost

\* A send builds the next pass itself if core 1 does not.
LEMMA SendSteps ==
  ASSUME RaceInv, SendStrip \/ SendWgt
  PROVE  RaceInv'
<1>1. /\ UNCHANGED <<worker, mode, scatLive, gcur, where, wHit>>
      /\ \/ pc = "act" /\ pc' \in {"wait_w", "fail"}
         \/ pc = "wgt" /\ pc' \in {"run", "fail"}
  BY DEF SendStrip, SendWgt, Transaction, Fail
<1>2. EngineType'
  BY <1>1 DEF RaceInv, EngineType, worker, where, Using, Building
<1>3. Where'
  BY <1>1 DEF RaceInv, Where, Using, Building
<1>4. ASSUME NEW q \in Queues, NEW j \in Job, In(q, j), JobOk(q, j) PROVE JobOk(q, j)'
  BY <1>1, <1>4 DEF JobOk, BuildOk, Building, build_q, where, DecodeOk, ScatterOk
<1> QED
  BY <1>1, <1>2, <1>3, <1>4, NoPost

\* The last pass leaves no build outstanding, and the next pass finds its own.
LEMMA RunStep ==
  ASSUME RaceInv, RunPass
  PROVE  RaceInv'
<1>1. /\ UNCHANGED <<worker, mode, scatLive, gcur, layer, b, wHit>>
      /\ pc = "run"
      /\ \/ More /\ pc' = "post_s" /\ pass' = pass + 1
         \/ ~More /\ pc' = "drain" /\ pass' = pass
         \/ pc' = "fail" /\ pass' = pass
  BY DEF RunPass, Transaction, Fail
<1>2. EngineType'
  BY <1>1 DEF RaceInv, EngineType, worker, Using, Building
<1>3. Where'
  BY <1>1 DEF RaceInv, Where, Using, Building
<1>4. ASSUME NEW q \in Queues, NEW j \in Job, In(q, j), JobOk(q, j) PROVE JobOk(q, j)'
  <2>1. CASE j.kind \in {"strip", "wgt"}
    <3>1. /\ mode.build /\ q = build_q /\ j.pass \in Nat /\ 1 <= j.pass /\ j.pass < NPass
          /\ j.buf = j.pass % 2
      BY <1>4, <2>1, BuildIn
    <3>2. j.pass = pass + 1 /\ (j.kind = "wgt" => ~wHit)
      BY <1>1, <1>4, <2>1 DEF JobOk, BuildOk
    <3>3. pc' # "drain"
      BY <1>1, <3>1, <3>2 DEF More
    <3>4. BuildOk(q, j)'
      BY <1>1, <3>1, <3>2, <3>3 DEF BuildOk, Building, build_q
    <3> QED
      BY <2>1, <3>4 DEF JobOk
  <2>2. CASE j.kind \notin {"strip", "wgt"}
    BY <1>1, <1>4, <2>2 DEF JobOk, DecodeOk, ScatterOk
  <2> QED
    BY <2>1, <2>2
<1> QED
  BY <1>1, <1>2, <1>3, <1>4, NoPost

\* Without core 1's scatter core 0 waits for the decode, and then nothing is left.
LEMMA ScatterSteps ==
  ASSUME RaceInv, Tickets, WaitDecode \/ ScatterHere
  PROVE  RaceInv'
<1>1. /\ UNCHANGED <<worker, mode, scatLive, gcur, layer, pass>> /\ b' \in {b, b + 1}
      /\ \/ pc = "wait_dec" /\ pc' = "scatter"
         \/ pc = "scatter" /\ pc' \in {"reuse", "barrier"}
  BY DEF WaitDecode, ScatterHere, NextBlock, where
<1>2. EngineType'
  BY <1>1 DEF RaceInv, EngineType, worker
<1>3. Where'
  BY <1>1 DEF RaceInv, Where, Using, Building
<1>4. ASSUME NEW q \in Queues, NEW j \in Job, In(q, j), JobOk(q, j) PROVE FALSE
  <2>1. ~mode.scatter
    BY <1>1 DEF RaceInv, Where
  <2>2. j.kind = "decode" /\ DecodeOk(q, j)
    BY <1>1, <1>4, <2>1 DEF JobOk, BuildOk, Building, ScatterOk, Job
  <2>3. mode.decode /\ q = LO /\ pc = "wait_dec" /\ j.buf = gcur
    BY <2>1, <2>2 DEF DecodeOk
  <2>4. Retired(LO, "decode", gcur)
    BY <2>3, WaitsAreFor DEF ScatterHere
  <2> QED
    BY <1>4, <2>2, <2>3, <2>4 DEF Retired, In
<1> QED
  BY <1>1, <1>2, <1>3, <1>4, NoPost

-----------------------------------------------------------------------------
\* A step that posts keeps the invariant if the new job may be and the old ones stay so.
LEMMA PostStep ==
  ASSUME RaceInv, NEW p \in Queues, NEW n \in Job, JQ!Post(p, n), EngineType', Where',
         JobOk(p, n)', Followed',
         \A q \in Queues : \A j \in Job : In(q, j) /\ JobOk(q, j) => JobOk(q, j)'
  PROVE  RaceInv'
<1>1. /\ running' = running
      /\ \A q \in Queues :
           /\ Len(queue[q]) \in Nat
           /\ Len(queue'[q]) = IF q = p THEN Len(queue[q]) + 1 ELSE Len(queue[q])
           /\ \A k \in 1 .. Len(queue[q]) : queue'[q][k] = queue[q][k]
      /\ queue'[p][Len(queue[p]) + 1] = n
  BY PostIs DEF RaceInv
<1>2. JobsOk'
  <2>1. ASSUME NEW q \in Queues, NEW k \in 1 .. Len(queue'[q]) PROVE JobOk(q, queue[q][k])'
    <3>1. CASE k \in 1 .. Len(queue[q])
      <4>1. PICK j \in Job : j = queue[q][k] /\ In(q, j) /\ JobOk(q, j)
        BY <3>1, JobIn DEF RaceInv, JobsOk, In
      <4>2. JobOk(q, j)'
        BY <4>1
      <4>3. j = queue'[q][k]
        BY <1>1, <3>1, <4>1
      <4> QED
        BY <4>2, <4>3 DEF JobOk, BuildOk, DecodeOk, ScatterOk
    <3>2. CASE k \notin 1 .. Len(queue[q])
      <4>1. q = p /\ k = Len(queue[p]) + 1
        BY <1>1, <3>2
      <4>2. queue'[q][k] = n
        BY <1>1, <4>1
      <4> QED
        BY <4>1, <4>2 DEF JobOk, BuildOk, DecodeOk, ScatterOk
    <3> QED
      BY <3>1, <3>2
  <2> QED
    BY <2>1 DEF JobsOk
<1>3. RunsFirst'
  <2>1. ASSUME running # Nobody
        PROVE  \E q \in Queues : Len(queue'[q]) > 0 /\ running = <<q, queue'[q][1]>>
    <3>1. PICK q \in Queues : Len(queue[q]) > 0 /\ running = <<q, queue[q][1]>>
      BY <2>1 DEF RaceInv, RunsFirst
    <3>2. 1 \in 1 .. Len(queue[q]) /\ Len(queue'[q]) > 0 /\ queue'[q][1] = queue[q][1]
      BY <1>1, <3>1
    <3> QED
      BY <3>1, <3>2
  <2> QED
    BY <1>1, <2>1 DEF RunsFirst
<1> QED
  BY <1>2, <1>3 DEF RaceInv

\* A job other than a decode leaves every decode with the scatter it had.
LEMMA FollowedStill ==
  ASSUME RaceInv, NEW p \in Queues, NEW n \in Job, JQ!Post(p, n), mode' = mode,
         n.kind # "decode", pc # "post_scat"
  PROVE  Followed'
<1>1. /\ \A q \in Queues :
           /\ Len(queue[q]) \in Nat
           /\ Len(queue'[q]) = IF q = p THEN Len(queue[q]) + 1 ELSE Len(queue[q])
           /\ \A k \in 1 .. Len(queue[q]) : queue'[q][k] = queue[q][k]
      /\ queue'[p][Len(queue[p]) + 1] = n
  BY PostIs DEF RaceInv
<1>2. LO \in Queues
  BY DEF Queues
<1>3. ASSUME mode.scatter, NEW k \in 1 .. Len(queue'[LO]), queue'[LO][k].kind = "decode"
      PROVE  \E m \in k + 1 .. Len(queue'[LO]) :
               queue'[LO][m].kind = "scatter" /\ queue'[LO][m].buf = queue'[LO][k].buf
  <2>1. k \in 1 .. Len(queue[LO])
    BY <1>1, <1>2, <1>3
  <2>2. queue[LO][k] = queue'[LO][k]
    BY <1>1, <1>2, <2>1
  <2>3. PICK m \in k + 1 .. Len(queue[LO]) :
          queue[LO][m].kind = "scatter" /\ queue[LO][m].buf = queue[LO][k].buf
    BY <1>3, <2>1, <2>2 DEF RaceInv, Followed
  <2>4. m \in 1 .. Len(queue[LO]) /\ m \in k + 1 .. Len(queue'[LO])
    BY <1>1, <1>2, <2>1, <2>3
  <2>5. queue'[LO][m] = queue[LO][m]
    BY <1>1, <1>2, <2>4
  <2> QED
    BY <2>2, <2>3, <2>4, <2>5
<1> QED
  BY <1>3 DEF Followed

\* The next pass' strip, and then its weights, go to the half that is free.
LEMMA BuildPosts ==
  ASSUME RaceInv, PostStrip \/ PostWgt
  PROVE  RaceInv'
<1>1. /\ UNCHANGED <<mode, scatLive, gcur, where, wHit>>
      /\ \/ pc = "post_s" /\ pc' = "post_w"
         \/ pc = "post_w" /\ pc' = "wait_s"
  BY DEF PostStrip, PostWgt
<1>2. Where'
  BY <1>1 DEF RaceInv, Where, Using, Building
<1>3. ASSUME NEW q \in Queues, NEW j \in Job, In(q, j), JobOk(q, j) PROVE JobOk(q, j)'
  BY <1>1, <1>3 DEF JobOk, BuildOk, Building, build_q, where, DecodeOk, ScatterOk
<1>4. CASE UNCHANGED worker
  <2>1. EngineType'
    BY <1>1, <1>4 DEF RaceInv, EngineType, worker, where, Using, Building
  <2> QED
    BY <1>1, <1>2, <1>3, <1>4, <2>1, NoPost
<1>5. ASSUME NEW kind \in {"strip", "wgt"},
             JQ!Post(build_q, Build(kind, pass + 1, Other(Cur))), mode.build /\ More,
             kind = "strip" => pc = "post_s",
             kind = "wgt" => pc = "post_w" /\ ~wHit
      PROVE  RaceInv'
  <2>1. pass \in Nat /\ Other(Cur) = (pass + 1) % 2 /\ (pass + 1) % 2 \in {0, 1}
        /\ build_q \in Queues
    BY Halves DEF RaceInv, EngineType, Cur, build_q, Queues
  <2>2. PICK n \in Job : n = Build(kind, pass + 1, Other(Cur))
    <3>1. ASSUME NEW i \in Nat, NEW h \in {0, 1} PROVE Build(kind, i, h) \in Job
      BY DEF Job, Build
    <3>2. pass + 1 \in Nat /\ Other(Cur) \in {0, 1}
      BY <2>1
    <3> QED
      BY <3>1, <3>2
  <2>3. PICK p \in Queues : p = build_q
    BY <2>1
  <2>4. JQ!Post(p, n)
    BY <1>5, <2>2, <2>3
  <2>5. n.kind = kind /\ n.pass = pass + 1 /\ n.buf = (pass + 1) % 2
    BY <2>1, <2>2 DEF Build
  <2>6. EngineType'
    BY <1>1, <2>4, PostIs DEF RaceInv, EngineType, where, Using, Building
  <2>7. JobOk(p, n)'
    BY <1>1, <1>5, <2>1, <2>3, <2>5 DEF JobOk, BuildOk, Building, build_q, where, More
  <2>8. Followed'
    BY <1>1, <2>4, <2>5, FollowedStill
  <2> QED
    BY <1>2, <1>3, <2>4, <2>6, <2>7, <2>8, PostStep
<1> QED
  BY <1>4, <1>5 DEF PostStrip, PostWgt, worker

\* The decode goes behind everything, and its scatter will be next.
LEMMA DecodePost ==
  ASSUME RaceInv, PostDecode
  PROVE  RaceInv'
<1>1. /\ UNCHANGED <<mode, scatLive, gcur, where, wHit>> /\ pc = "decode"
      /\ pc' = IF mode.scatter THEN "post_scat" ELSE "wait_dec"
  BY DEF PostDecode
<1>2. Where'
  BY <1>1 DEF RaceInv, Where, Using, Building
<1>3. ASSUME NEW q \in Queues, NEW j \in Job, In(q, j), JobOk(q, j) PROVE JobOk(q, j)'
  BY <1>1, <1>3 DEF JobOk, BuildOk, Building, DecodeOk, ScatterOk
<1>4. CASE ~mode.decode
  <2>1. UNCHANGED worker
    BY <1>4 DEF PostDecode, worker
  <2>2. EngineType'
    BY <1>1, <2>1 DEF RaceInv, EngineType, worker, where
  <2> QED
    BY <1>1, <1>2, <1>3, <2>1, <2>2, NoPost
<1>5. CASE mode.decode
  <2>1. gcur \in {0, 1} /\ LO \in Queues
    BY DEF RaceInv, EngineType, Queues
  <2>2. PICK n \in Job : n = Decode(gcur)
    BY <2>1 DEF Job, Decode
  <2>3. JQ!Post(LO, n)
    BY <1>5, <2>2 DEF PostDecode
  <2>4. n.kind = "decode" /\ n.buf = gcur
    BY <2>2 DEF Decode
  <2>5. EngineType'
    BY <1>1, <2>1, <2>3, PostIs DEF RaceInv, EngineType, where
  <2>6. JobOk(LO, n)'
    BY <1>1, <1>5, <2>4 DEF JobOk, DecodeOk
  <2>7. Followed'
    <3>1. /\ Len(queue[LO]) \in Nat /\ Len(queue'[LO]) = Len(queue[LO]) + 1
          /\ \A k \in 1 .. Len(queue[LO]) : queue'[LO][k] = queue[LO][k]
          /\ queue'[LO][Len(queue[LO]) + 1] = n
      BY <2>1, <2>3, PostIs DEF RaceInv
    <3>2. ASSUME mode.scatter, NEW k \in 1 .. Len(queue'[LO]), queue'[LO][k].kind = "decode"
          PROVE  \/ \E m \in k + 1 .. Len(queue'[LO]) :
                      queue'[LO][m].kind = "scatter" /\ queue'[LO][m].buf = queue'[LO][k].buf
                 \/ pc' = "post_scat" /\ queue'[LO][k].buf = gcur'
      <4>1. CASE k = Len(queue[LO]) + 1
        BY <1>1, <2>4, <3>1, <3>2, <4>1
      <4>2. CASE k \in 1 .. Len(queue[LO])
        <5>1. queue[LO][k] = queue'[LO][k]
          BY <3>1, <4>2
        <5>2. PICK m \in k + 1 .. Len(queue[LO]) :
                queue[LO][m].kind = "scatter" /\ queue[LO][m].buf = queue[LO][k].buf
          BY <1>1, <3>2, <4>2, <5>1 DEF RaceInv, Followed
        <5>3. m \in 1 .. Len(queue[LO]) /\ m \in k + 1 .. Len(queue'[LO])
          BY <3>1, <4>2, <5>2
        <5>4. queue'[LO][m] = queue[LO][m]
          BY <3>1, <5>3
        <5> QED
          BY <5>1, <5>2, <5>3, <5>4
      <4> QED
        BY <3>1, <4>1, <4>2
    <3> QED
      BY <1>1, <3>2 DEF Followed
  <2> QED
    BY <1>2, <1>3, <2>1, <2>3, <2>5, <2>6, <2>7, PostStep
<1> QED
  BY <1>4, <1>5

\* The scatter's ticket is kept under the half it reads.
LEMMA ScatterPost ==
  ASSUME RaceInv, PostScatter
  PROVE  RaceInv'
<1>1. /\ UNCHANGED <<mode, layer, pass, wHit>> /\ pc = "post_scat" /\ mode.scatter
      /\ pc' \in {"reuse", "barrier"} /\ b' \in {b, b + 1}
      /\ scatLive' = [scatLive EXCEPT ![gcur] = TRUE] /\ gcur' = Other(gcur)
  BY DEF PostScatter, NextBlock, RaceInv, Where
<1>2. /\ gcur \in {0, 1} /\ LO \in Queues /\ b \in Nat /\ scatLive \in [{0, 1} -> BOOLEAN]
      /\ gcur' \in {0, 1} /\ scatLive' \in [{0, 1} -> BOOLEAN] /\ b' \in Nat
  BY <1>1 DEF RaceInv, EngineType, Queues, Other
<1>3. Where'
  BY <1>1 DEF Where, Using, Building
<1>4. ASSUME NEW q \in Queues, NEW j \in Job, In(q, j), JobOk(q, j) PROVE JobOk(q, j)'
  <2>1. j.kind \notin {"strip", "wgt"}
    BY <1>1, <1>4 DEF JobOk, BuildOk, Building
  <2>2. j.kind = "decode" => DecodeOk(q, j)'
    BY <1>1, <1>4 DEF JobOk, DecodeOk
  <2>3. ASSUME j.kind = "scatter" PROVE ScatterOk(q, j)'
    <3>1. q = LO /\ scatLive[j.buf]
      BY <1>4, <2>3 DEF JobOk, ScatterOk
    <3>2. j.buf \in {0, 1}
      BY <2>3 DEF Job
    <3> QED
      BY <1>1, <1>2, <3>1, <3>2 DEF ScatterOk
  <2> QED
    BY <2>1, <2>2, <2>3 DEF JobOk
<1>5. PICK n \in Job : n = Scatter(gcur, b)
  BY <1>2 DEF Job, Scatter
<1>6. JQ!Post(LO, n)
  BY <1>5 DEF PostScatter
<1>7. n.kind = "scatter" /\ n.buf = gcur
  BY <1>5 DEF Scatter
<1>8. EngineType'
  BY <1>1, <1>2, <1>6, PostIs DEF RaceInv, EngineType
<1>9. JobOk(LO, n)'
  BY <1>1, <1>2, <1>7 DEF JobOk, ScatterOk
<1>10. Followed'
  <2>1. /\ Len(queue[LO]) \in Nat /\ Len(queue'[LO]) = Len(queue[LO]) + 1
        /\ \A k \in 1 .. Len(queue[LO]) : queue'[LO][k] = queue[LO][k]
        /\ queue'[LO][Len(queue[LO]) + 1] = n
    BY <1>2, <1>6, PostIs DEF RaceInv
  <2>2. ASSUME NEW k \in 1 .. Len(queue'[LO]), queue'[LO][k].kind = "decode"
        PROVE  \E m \in k + 1 .. Len(queue'[LO]) :
                 queue'[LO][m].kind = "scatter" /\ queue'[LO][m].buf = queue'[LO][k].buf
    <3>1. k \in 1 .. Len(queue[LO])
      BY <1>7, <2>1, <2>2
    <3>2. queue[LO][k] = queue'[LO][k]
      BY <2>1, <3>1
    <3>3. CASE queue[LO][k].buf = gcur
      BY <1>7, <2>1, <3>1, <3>2, <3>3
    <3>4. CASE queue[LO][k].buf # gcur
      <4>1. PICK m \in k + 1 .. Len(queue[LO]) :
              queue[LO][m].kind = "scatter" /\ queue[LO][m].buf = queue[LO][k].buf
        BY <1>1, <2>2, <3>1, <3>2, <3>4 DEF RaceInv, Followed
      <4>2. m \in 1 .. Len(queue[LO]) /\ m \in k + 1 .. Len(queue'[LO])
        BY <2>1, <3>1, <4>1
      <4>3. queue'[LO][m] = queue[LO][m]
        BY <2>1, <4>2
      <4> QED
        BY <3>2, <4>1, <4>2, <4>3
    <3> QED
      BY <3>3, <3>4
  <2> QED
    BY <2>2 DEF Followed
<1> QED
  BY <1>2, <1>3, <1>4, <1>6, <1>8, <1>9, <1>10, PostStep

-----------------------------------------------------------------------------
\* Core 1 takes the first job of a queue, and retires it from there.
LEMMA BeginStep ==
  ASSUME RaceInv, Begin
  PROVE  RaceInv'
<1>1. PICK q \in Queues : JQ!Begin(q)
  BY DEF Begin
<1>2. queue[q] \in Seq(Job) /\ queue[q] # <<>>
  BY <1>1 DEF RaceInv, EngineType, JQ!Begin
<1>3. Len(queue[q]) > 0 /\ Head(queue[q]) = queue[q][1]
  BY <1>2, TailIs
<1>4. queue' = queue /\ running' = <<q, queue[q][1]>>
  BY <1>1, <1>3 DEF JQ!Begin
<1>5. UNCHANGED <<mode, pc, layer, b, pass, gcur, scatLive, wHit>>
  BY DEF Begin, where
<1>6. EngineType' /\ Where' /\ Followed'
  BY <1>4, <1>5 DEF RaceInv, EngineType, Where, Drained, Followed
<1>7. JobsOk'
  BY <1>4, <1>5 DEF RaceInv, JobsOk, JobOk, BuildOk, DecodeOk, ScatterOk, build_q
<1>8. RunsFirst'
  BY <1>3, <1>4 DEF RunsFirst
<1> QED
  BY <1>6, <1>7, <1>8 DEF RaceInv

LEMMA RetireSteps ==
  ASSUME RaceInv, BuildStripCb \/ BuildWgtCb \/ DecodeCb \/ ScatterCb
  PROVE  RaceInv'
<1>1. UNCHANGED <<mode, pc, layer, b, pass, gcur, scatLive, wHit>>
  BY DEF BuildStripCb, BuildWgtCb, DecodeCb, ScatterCb, where
<1>2. PICK p \in Queues : JQ!Retire(p)
  BY DEF RaceInv, RunsFirst, BuildStripCb, BuildWgtCb, DecodeCb, ScatterCb, Running
<1>3. queue[p] \in Seq(Job) /\ queue[p] # <<>>
  BY <1>2 DEF RaceInv, EngineType, JQ!Retire
<1>4. /\ running' = Nobody /\ queue' = [queue EXCEPT ![p] = Tail(queue[p])]
      /\ Tail(queue[p]) \in Seq(Job)
  BY <1>2, <1>3, TailIs DEF JQ!Retire
<1>5. /\ Len(queue'[p]) = Len(queue[p]) - 1 /\ Len(queue[p]) \in Nat
      /\ \A k \in 1 .. Len(queue'[p]) : queue'[p][k] = queue[p][k + 1] /\ k + 1 \in 1 .. Len(queue[p])
      /\ \A q \in Queues : q # p => queue'[q] = queue[q]
  BY <1>3, <1>4, TailIs DEF RaceInv, EngineType
<1>6. EngineType'
  BY <1>1, <1>4 DEF RaceInv, EngineType
<1>7. Where'
  BY <1>1, <1>3 DEF RaceInv, Where, Drained
<1>8. JobsOk'
  <2>1. ASSUME NEW q \in Queues, NEW k \in 1 .. Len(queue'[q]) PROVE JobOk(q, queue[q][k])'
    <3>1. PICK i \in 1 .. Len(queue[q]) : queue[q][i] = queue'[q][k]
      BY <1>5
    <3>2. JobOk(q, queue[q][i])
      BY DEF RaceInv, JobsOk
    <3> QED
      BY <1>1, <3>1, <3>2 DEF JobOk, BuildOk, DecodeOk, ScatterOk, build_q
  <2> QED
    BY <2>1 DEF JobsOk
<1>9. Followed'
  <2>1. ASSUME mode.scatter, NEW k \in 1 .. Len(queue'[LO]), queue'[LO][k].kind = "decode"
        PROVE  \/ \E m \in k + 1 .. Len(queue'[LO]) :
                    queue'[LO][m].kind = "scatter" /\ queue'[LO][m].buf = queue'[LO][k].buf
               \/ pc = "post_scat" /\ queue'[LO][k].buf = gcur
    <3>1. CASE p # LO
      BY <1>5, <2>1, <3>1 DEF RaceInv, Followed, Queues
    <3>2. CASE p = LO
      <4>1. queue'[LO][k] = queue[LO][k + 1] /\ k + 1 \in 1 .. Len(queue[LO])
        BY <1>5, <3>2
      <4>2. \/ \E m \in k + 1 + 1 .. Len(queue[LO]) :
                 queue[LO][m].kind = "scatter" /\ queue[LO][m].buf = queue[LO][k + 1].buf
            \/ pc = "post_scat" /\ queue[LO][k + 1].buf = gcur
        BY <2>1, <4>1 DEF RaceInv, Followed
      <4>3. ASSUME NEW m \in k + 1 + 1 .. Len(queue[LO]),
                   queue[LO][m].kind = "scatter" /\ queue[LO][m].buf = queue[LO][k + 1].buf
            PROVE  \E i \in k + 1 .. Len(queue'[LO]) :
                     queue'[LO][i].kind = "scatter" /\ queue'[LO][i].buf = queue'[LO][k].buf
        <5>1. m - 1 \in k + 1 .. Len(queue'[LO]) /\ m - 1 \in 1 .. Len(queue'[LO]) /\ m - 1 + 1 = m
          BY <1>5, <3>2
        <5>2. queue'[LO][m - 1] = queue[LO][m]
          BY <1>5, <3>2, <5>1
        <5> QED
          BY <4>1, <4>3, <5>1, <5>2
      <4> QED
        BY <4>1, <4>2, <4>3
    <3> QED
      BY <3>1, <3>2
  <2> QED
    BY <1>1, <2>1 DEF Followed
<1>10. RunsFirst'
  BY <1>4 DEF RunsFirst
<1> QED
  BY <1>6, <1>7, <1>8, <1>9, <1>10 DEF RaceInv

LEMMA InitRaceInv == Init => RaceInv
<1>1. SUFFICES ASSUME Init PROVE RaceInv
  OBVIOUS
<1>2. queue = [q \in Queues |-> <<>>] /\ running = Nobody
  BY <1>1 DEF Init, JQ!AbsInit
<1>3. EngineType
  BY <1>1, <1>2 DEF Init, EngineType, Modes
<1>4. JobsOk /\ Followed /\ RunsFirst /\ Drained
  BY <1>2 DEF JobsOk, Followed, RunsFirst, Drained, Queues, LO
<1>5. Where
  BY <1>1, <1>4 DEF Init, Where, Using, Building
<1> QED
  BY <1>3, <1>4, <1>5 DEF RaceInv

LEMMA StepRaceInv == RaceInv /\ Tickets /\ [Next]_vars => RaceInv'
<1>1. SUFFICES ASSUME RaceInv, Tickets, [Next]_vars PROVE RaceInv'
  OBVIOUS
<1>2. CASE Core0
  BY <1>1, <1>2, IdleSteps, ReuseStep, QuietSteps, WaitSteps, SendSteps, RunStep, ScatterSteps,
     BuildPosts, DecodePost, ScatterPost DEF Core0
<1>3. CASE Core1
  BY <1>1, <1>3, BeginStep, RetireSteps DEF Core1
<1>4. CASE UNCHANGED vars
  BY <1>1, <1>4 DEF vars, RaceInv, EngineType, JobsOk, JobOk, BuildOk, DecodeOk, ScatterOk,
     build_q, Followed, RunsFirst, Where, Drained
<1> QED
  BY <1>1, <1>2, <1>3, <1>4 DEF Next, Stop

-----------------------------------------------------------------------------
LEMMA InitTickets == Init => Tickets
<1>1. SUFFICES ASSUME Init PROVE Tickets
  OBVIOUS
<1>2. \A q \in Queues : queue[q] = <<>>
  BY <1>1 DEF Init, JQ!AbsInit
<1> QED
  BY <1>1, <1>2 DEF Init, Tickets

\* The new job's number is its ticket, and any older job of that ticket is ahead of it.
LEMMA PostTickets ==
  ASSUME RaceInv, Tickets, NEW p \in Queues, NEW n \in Job, JQ!Post(p, n), UNCHANGED <<mode, tail>>,
         tk_dec' \in Nat, tk_s' \in [{0, 1} -> Nat], tk_w' \in [{0, 1} -> Nat],
         tk_scat' \in [{0, 1} -> Nat], TicketOf(n)' = Ticket(p),
         \A q \in Queues : \A j \in Job : In(q, j) /\ JobOk(q, j) /\ Kept(j) =>
           \/ TicketOf(j)' = TicketOf(j)
           \/ q = p /\ TicketOf(j)' = Ticket(p)
  PROVE  Tickets'
<1>1. /\ \A q \in Queues :
           /\ Len(queue[q]) \in Nat
           /\ Len(queue'[q]) = IF q = p THEN Len(queue[q]) + 1 ELSE Len(queue[q])
           /\ \A k \in 1 .. Len(queue[q]) : queue'[q][k] = queue[q][k]
      /\ queue'[p][Len(queue[p]) + 1] = n
  BY PostIs DEF RaceInv
<1>2. ASSUME NEW q \in Queues, NEW k \in 1 .. Len(queue'[q]), Kept(queue[q][k])'
      PROVE  tail[q] + k <= TicketOf(queue[q][k])' + 1
  <2>1. tail[q] \in Nat /\ tail[p] \in Nat
    BY DEF Tickets
  <2>2. CASE k \in 1 .. Len(queue[q])
    <3>1. PICK j \in Job : j = queue[q][k] /\ In(q, j) /\ JobOk(q, j)
      BY <2>2, JobIn DEF RaceInv, JobsOk, In
    <3>2. j = queue'[q][k]
      BY <1>1, <2>2, <3>1
    <3>3. Kept(j)
      BY <1>2, <3>2 DEF Kept
    <3>4. tail[q] + k <= TicketOf(j) + 1
      BY <2>2, <3>1, <3>3 DEF Tickets
    <3>5. tail[q] + k <= TicketOf(j)' + 1
      <4>1. CASE TicketOf(j)' = TicketOf(j)
        BY <3>4, <4>1
      <4>2. CASE q = p /\ TicketOf(j)' = Ticket(p)
        BY <1>1, <2>1, <2>2, <4>2 DEF Ticket
      <4> QED
        BY <3>1, <3>3, <4>1, <4>2
    <3> QED
      BY <3>2, <3>5 DEF TicketOf
  <2>3. CASE k \notin 1 .. Len(queue[q])
    <3>1. q = p /\ k = Len(queue[p]) + 1
      BY <1>1, <2>3
    <3>2. queue'[q][k] = n
      BY <1>1, <3>1
    <3>3. tail[q] + k <= TicketOf(n)' + 1
      BY <1>1, <2>1, <3>1 DEF Ticket
    <3> QED
      BY <3>2, <3>3 DEF TicketOf
  <2> QED
    BY <2>2, <2>3
<1> QED
  BY <1>2 DEF Tickets

LEMMA PostsTicket ==
  ASSUME RaceInv, Tickets, PostStrip \/ PostWgt \/ PostDecode \/ PostScatter
  PROVE  Tickets'
<1>1. UNCHANGED <<mode, tail>>
  BY DEF PostStrip, PostWgt, PostDecode, PostScatter
<1>2. gcur \in {0, 1} /\ b \in Nat /\ pass + 1 \in Nat /\ Other(Cur) \in {0, 1}
      /\ build_q \in Queues /\ LO \in Queues
  BY Halves DEF RaceInv, EngineType, Cur, build_q, Queues
<1>3. \A q \in Queues : Ticket(q) \in Nat
  BY DEF RaceInv, EngineType, Tickets, Ticket
<1>4. ASSUME NEW kind \in {"strip", "wgt"}, pc # "decode",
             JQ!Post(build_q, Build(kind, pass + 1, Other(Cur))), UNCHANGED <<tk_scat, tk_dec>>,
             tk_s' = IF kind = "strip" THEN [tk_s EXCEPT ![Other(Cur)] = Ticket(build_q)] ELSE tk_s,
             tk_w' = IF kind = "wgt" THEN [tk_w EXCEPT ![Other(Cur)] = Ticket(build_q)] ELSE tk_w
      PROVE  Tickets'
  <2>1. ASSUME NEW i \in Nat, NEW h \in {0, 1}
        PROVE  /\ Build(kind, i, h) \in Job
               /\ Build(kind, i, h).kind = kind /\ Build(kind, i, h).buf = h
    BY DEF Job, Build
  <2>2. PICK n \in Job : /\ n = Build(kind, pass + 1, Other(Cur))
                         /\ n.kind = kind /\ n.buf = Other(Cur)
    BY <1>2, <2>1
  <2>3. PICK p \in Queues : p = build_q
    BY <1>2
  <2>4. tk_s' \in [{0, 1} -> Nat] /\ tk_w' \in [{0, 1} -> Nat] /\ tk_scat' \in [{0, 1} -> Nat]
        /\ tk_dec' \in Nat
    BY <1>2, <1>3, <1>4 DEF Tickets
  <2>5. TicketOf(n)' = Ticket(p)
    BY <1>2, <1>4, <2>2, <2>3 DEF TicketOf, Tickets
  <2>6. ASSUME NEW q \in Queues, NEW j \in Job, JobOk(q, j)
        PROVE  TicketOf(j)' = TicketOf(j) \/ (q = p /\ TicketOf(j)' = Ticket(p))
    <3>1. j.kind \in {"strip", "wgt"} => q = p /\ j.buf \in {0, 1}
      BY <2>3, <2>6, BuildIn
    <3>2. CASE j.kind = kind
      BY <1>2, <1>4, <2>3, <3>1, <3>2 DEF TicketOf, Tickets
    <3>3. CASE j.kind # kind
      BY <1>4, <3>3 DEF TicketOf
    <3> QED
      BY <3>2, <3>3
  <2>7. JQ!Post(p, n)
    BY <1>4, <2>2, <2>3
  <2> QED
    BY <1>1, <2>4, <2>5, <2>6, <2>7, PostTickets
<1>5. CASE UNCHANGED <<queue, tk_s, tk_w, tk_scat, tk_dec>>
  BY <1>1, <1>5 DEF Tickets, TicketOf, Kept
<1>6. CASE PostStrip
  <2>1. pc # "decode" /\ "strip" \in {"strip", "wgt"} /\ UNCHANGED <<tk_w, tk_scat, tk_dec>>
    BY <1>6 DEF PostStrip
  <2> QED
    BY <1>4, <1>5, <1>6, <2>1 DEF PostStrip
<1>7. CASE PostWgt
  <2>1. pc # "decode" /\ "wgt" \in {"strip", "wgt"} /\ UNCHANGED <<tk_s, tk_scat, tk_dec>>
    BY <1>7 DEF PostWgt
  <2> QED
    BY <1>4, <1>5, <1>7, <2>1 DEF PostWgt
<1>8. CASE PostDecode
  <2>1. pc = "decode" /\ UNCHANGED <<tk_s, tk_w, tk_scat>>
    BY <1>8 DEF PostDecode
  <2>2. ASSUME NEW q \in Queues, NEW j \in Job, JobOk(q, j), Kept(j)
        PROVE  TicketOf(j)' = TicketOf(j)
    <3>1. j.kind # "decode"
      BY <2>1, <2>2 DEF JobOk, DecodeOk, Kept
    <3> QED
      BY <2>1, <3>1 DEF TicketOf, Job
  <2>3. CASE mode.decode
    <3>1. PICK n \in Job : n = Decode(gcur)
      BY <1>2 DEF Job, Decode
    <3>2. n.kind = "decode"
      BY <3>1 DEF Decode
    <3>3. JQ!Post(LO, n) /\ tk_dec' = Ticket(LO)
      BY <1>8, <2>3, <3>1 DEF PostDecode
    <3>4. TicketOf(n)' = Ticket(LO)
      BY <3>2, <3>3 DEF TicketOf
    <3>5. tk_dec' \in Nat /\ tk_s' \in [{0, 1} -> Nat] /\ tk_w' \in [{0, 1} -> Nat]
          /\ tk_scat' \in [{0, 1} -> Nat]
      BY <1>2, <1>3, <2>1, <3>3 DEF Tickets
    <3> QED
      BY <1>1, <1>2, <2>2, <3>3, <3>4, <3>5, PostTickets
  <2>4. CASE ~mode.decode
    <3>1. queue' = queue /\ tk_dec' = 0
      BY <1>8, <2>4 DEF PostDecode
    <3>2. ASSUME NEW q \in Queues, NEW k \in 1 .. Len(queue[q]), Kept(queue[q][k])
          PROVE  tail[q] + k <= TicketOf(queue[q][k])' + 1
      <4>1. PICK j \in Job : j = queue[q][k] /\ JobOk(q, j)
        BY JobIn DEF RaceInv, JobsOk
      <4>2. tail[q] + k <= TicketOf(j) + 1 /\ TicketOf(j)' = TicketOf(j)
        BY <2>2, <3>2, <4>1 DEF Tickets
      <4> QED
        BY <3>1, <4>1, <4>2 DEF TicketOf
    <3> QED
      BY <1>1, <2>1, <3>1, <3>2 DEF Tickets, TicketOf, Kept
  <2> QED
    BY <2>3, <2>4
<1>9. CASE PostScatter
  <2>1. /\ UNCHANGED <<tk_s, tk_w, tk_dec>> /\ tk_scat' = [tk_scat EXCEPT ![gcur] = Ticket(LO)]
        /\ JQ!Post(LO, Scatter(gcur, b))
    BY <1>9 DEF PostScatter
  <2>2. PICK n \in Job : n = Scatter(gcur, b)
    BY <1>2 DEF Job, Scatter
  <2>3. n.kind = "scatter" /\ n.buf = gcur
    BY <2>2 DEF Scatter
  <2>4. TicketOf(n)' = Ticket(LO) /\ tk_scat' \in [{0, 1} -> Nat]
    BY <1>2, <1>3, <2>1, <2>3 DEF TicketOf, Tickets
  <2>5. tk_dec' \in Nat /\ tk_s' \in [{0, 1} -> Nat] /\ tk_w' \in [{0, 1} -> Nat]
    BY <2>1 DEF Tickets
  <2>6. ASSUME NEW q \in Queues, NEW j \in Job, JobOk(q, j)
        PROVE  TicketOf(j)' = TicketOf(j) \/ (q = LO /\ TicketOf(j)' = Ticket(LO))
    <3>1. CASE j.kind = "scatter"
      <4>1. q = LO /\ j.buf \in {0, 1}
        BY <2>6, <3>1 DEF JobOk, ScatterOk, Job
      <4> QED
        BY <1>2, <2>1, <3>1, <4>1 DEF TicketOf, Tickets
    <3>2. CASE j.kind # "scatter"
      BY <2>1, <3>2 DEF TicketOf
    <3> QED
      BY <3>1, <3>2
  <2>7. JQ!Post(LO, n)
    BY <2>1, <2>2
  <2> QED
    BY <1>1, <1>2, <2>4, <2>5, <2>6, <2>7, PostTickets
<1> QED
  BY <1>6, <1>7, <1>8, <1>9

\* A job that has gone moves the others one place up, and the count one on.
LEMMA RetireTickets ==
  ASSUME RaceInv, Tickets, BuildStripCb \/ BuildWgtCb \/ DecodeCb \/ ScatterCb
  PROVE  Tickets'
<1>1. UNCHANGED <<mode, tk_s, tk_w, tk_scat, tk_dec>> /\ Counted
  BY DEF BuildStripCb, BuildWgtCb, DecodeCb, ScatterCb, tickets
<1>2. PICK p \in Queues : JQ!Retire(p) /\ running[1] = p
  BY DEF RaceInv, RunsFirst, BuildStripCb, BuildWgtCb, DecodeCb, ScatterCb, Running
<1>3. /\ Len(queue'[p]) = Len(queue[p]) - 1 /\ Len(queue[p]) \in Nat
      /\ \A k \in 1 .. Len(queue'[p]) : queue'[p][k] = queue[p][k + 1] /\ k + 1 \in 1 .. Len(queue[p])
      /\ \A q \in Queues : q # p => queue'[q] = queue[q]
  BY <1>2, RetireIs DEF RaceInv
<1>4. /\ tail' \in [Queues -> Nat] /\ tail'[p] = tail[p] + 1 /\ tail[p] \in Nat
      /\ \A q \in Queues : q # p => tail'[q] = tail[q]
  BY <1>1, <1>2 DEF Counted, Tickets
<1>5. ASSUME NEW q \in Queues, NEW k \in 1 .. Len(queue'[q]), Kept(queue[q][k])'
      PROVE  tail'[q] + k <= TicketOf(queue[q][k])' + 1
  <2>1. PICK i \in 1 .. Len(queue[q]) : queue[q][i] = queue'[q][k] /\ tail'[q] + k = tail[q] + i
    <3>1. CASE q = p
      <4>1. k \in Nat /\ k + 1 \in 1 .. Len(queue[q]) /\ queue[q][k + 1] = queue'[q][k]
        BY <1>3, <3>1
      <4>2. PICK n \in Nat : tail[q] = n /\ tail'[q] = n + 1
        BY <1>4, <3>1
      <4>3. n + 1 + k = n + (k + 1)
        BY <4>1
      <4> QED
        BY <4>1, <4>2, <4>3
    <3>2. CASE q # p
      BY <1>3, <1>4, <3>2
    <3> QED
      BY <3>1, <3>2
  <2>2. Kept(queue[q][i])
    BY <1>1, <1>5, <2>1 DEF Kept
  <2>3. tail[q] + i <= TicketOf(queue[q][i]) + 1
    BY <2>2 DEF Tickets
  <2>4. TicketOf(queue[q][k])' = TicketOf(queue[q][i])
    BY <1>1, <2>1 DEF TicketOf
  <2> QED
    BY <2>1, <2>3, <2>4
<1> QED
  BY <1>1, <1>4, <1>5 DEF Tickets

LEMMA StepTickets == RaceInv /\ Tickets /\ [Next]_vars => Tickets'
<1>1. SUFFICES ASSUME RaceInv, Tickets, [Next]_vars PROVE Tickets'
  OBVIOUS
<1>2. CASE StartLayer
  <2>1. Drained /\ UNCHANGED <<queue, tail, tk_s, tk_w, tk_dec>> /\ tk_scat' = [i \in {0, 1} |-> 0]
    BY <1>1, <1>2 DEF StartLayer, RaceInv, Where, worker
  <2> QED
    BY <1>1, <2>1 DEF Tickets, Drained
<1>3. CASE BuildFirst
  <2>1. /\ pc = "build0" /\ UNCHANGED <<mode, queue, tail, tk_scat, tk_dec>>
        /\ tk_s' \in [{0, 1} -> Nat] /\ tk_w' \in [{0, 1} -> Nat]
    BY <1>3 DEF BuildFirst, worker
  <2>2. ASSUME NEW q \in Queues, NEW k \in 1 .. Len(queue[q])
        PROVE  queue[q][k].kind \notin {"strip", "wgt"}
    BY <1>1, <2>1 DEF RaceInv, JobsOk, JobOk, BuildOk, Building
  <2> QED
    BY <1>1, <2>1, <2>2 DEF Tickets, TicketOf, Kept
<1>4. CASE Core0 /\ ~(StartLayer \/ BuildFirst \/ PostStrip \/ PostWgt \/ PostDecode \/ PostScatter)
  <2>1. UNCHANGED <<mode, queue, tail, tk_s, tk_w, tk_scat, tk_dec>>
    BY <1>4 DEF Core0, FrameReset, Reconfigure, ReuseGuard, GeomFault, BlockNop, BlockCfg, Requant,
       WeightsHit, WaitStrip, SendStrip, WaitWgt, SendWgt, RunPass, DrainTile, BlockStatus,
       WaitDecode, ScatterHere, FailDrain, LayerBarrier, AfterLayer, worker, tickets
  <2> QED
    BY <1>1, <2>1 DEF Tickets, TicketOf, Kept
<1>5. CASE Begin \/ UNCHANGED vars
  <2>1. UNCHANGED <<mode, queue, tail, tk_s, tk_w, tk_scat, tk_dec>>
    BY <1>5 DEF Begin, JQ!Begin, vars, tickets
  <2> QED
    BY <1>1, <2>1 DEF Tickets, TicketOf, Kept
<1> QED
  BY <1>1, <1>2, <1>3, <1>4, <1>5, PostsTicket, RetireTickets DEF Next, Core0, Core1, Stop

-----------------------------------------------------------------------------
\* While core 0 uses its half of got[], no decode and no scatter is on it.
LEMMA HalfIsFree ==
  ASSUME RaceInv, NEW q \in Queues, NEW k \in 1 .. Len(queue[q]), pc \in Using,
         queue[q][k].kind \in {"decode", "scatter"}
  PROVE  queue[q][k].buf # gcur
<1>1. ASSUME NEW m \in 1 .. Len(queue[q]), queue[q][m].kind = "scatter"
      PROVE  queue[q][m].buf # gcur
  <2>1. JobOk(q, queue[q][m])
    BY DEF RaceInv, JobsOk
  <2> QED
    BY <1>1, <2>1 DEF RaceInv, Where, JobOk, ScatterOk
<1>2. CASE queue[q][k].kind = "decode"
  <2>1. JobOk(q, queue[q][k])
    BY DEF RaceInv, JobsOk
  <2>2. mode.scatter /\ q = LO
    BY <1>2, <2>1 DEF JobOk, DecodeOk, Using, Building
  <2>3. PICK m \in k + 1 .. Len(queue[q]) :
          queue[q][m].kind = "scatter" /\ queue[q][m].buf = queue[q][k].buf
    BY <1>2, <2>2 DEF RaceInv, Followed, Using, Building
  <2>4. m \in 1 .. Len(queue[q])
    BY <2>3, JobIn DEF RaceInv
  <2> QED
    BY <1>1, <2>3, <2>4
<1> QED
  BY <1>1, <1>2

\* What core 1 may be running while core 0 uses its half, and which job it is.
LEMMA RunningIs ==
  ASSUME RaceInv, running # Nobody
  PROVE  \E q \in Queues : TheJob \in Job /\ JobOk(q, TheJob)
           /\ (pc \in Using /\ TheJob.kind \in {"decode", "scatter"} => TheJob.buf # gcur)
<1>1. PICK q \in Queues : Len(queue[q]) > 0 /\ running = <<q, queue[q][1]>>
  BY DEF RaceInv, RunsFirst
<1>2. queue[q] \in Seq(Job) /\ 1 \in 1 .. Len(queue[q])
  BY <1>1 DEF RaceInv, EngineType
<1>3. TheJob = queue[q][1] /\ TheJob \in Job /\ JobOk(q, TheJob)
  BY <1>1, <1>2 DEF TheJob, RaceInv, JobsOk
<1> QED
  BY <1>2, <1>3, HalfIsFree

\* The buffers of a running job, by its kind.
LEMMA Touched ==
  ASSUME NEW kind, Running(kind)
  PROVE  /\ kind = "strip" => Reads1 = {<<"g">>, <<"tensor", layer - 1>>}
                              /\ Writes1 = {<<"strip", TheJob.buf>>}
         /\ kind = "wgt" => Reads1 = {<<"g">>} /\ Writes1 = {WgtPlace(TheJob.pass)}
         /\ kind = "decode" => Reads1 = {<<"rxd", TheJob.buf>>} /\ Writes1 = {<<"got", TheJob.buf>>}
         /\ kind = "scatter" => Reads1 = {<<"got", TheJob.buf>>} /\ Writes1 = {<<"tensor", layer>>}
BY DEF Running, Reads1, Writes1

LEMMA Untouched == running = Nobody => Reads1 = {} /\ Writes1 = {}
BY DEF Running, Reads1, Writes1

LEMMA RaceInvNoRace == RaceInv => NoRace
<1>1. SUFFICES ASSUME RaceInv PROVE NoRace
  OBVIOUS
<1>2. CASE running = Nobody
  BY <1>2, Untouched DEF NoRace
<1>3. CASE running # Nobody
  <2>1. PICK q \in Queues : TheJob \in Job /\ JobOk(q, TheJob)
           /\ (pc \in Using /\ TheJob.kind \in {"decode", "scatter"} => TheJob.buf # gcur)
    BY <1>1, <1>3, RunningIs
  <2>2. Running(TheJob.kind) /\ TheJob.kind \in {"strip", "wgt", "decode", "scatter"}
    BY <1>3, <2>1 DEF Running, TheJob, Job
  <2>3. /\ layer \in Nat /\ pass \in Nat /\ gcur \in {0, 1} /\ layer - 1 # layer
        /\ Cur = pass % 2 /\ Other(Cur) = (pass + 1) % 2 /\ Cur # (pass + 1) % 2
    BY <1>1, Halves DEF RaceInv, EngineType, Cur
  <2>4. CASE TheJob.kind = "strip"
    <3>1. Reads1 = {<<"g">>, <<"tensor", layer - 1>>} /\ Writes1 = {<<"strip", TheJob.buf>>}
      BY <2>2, <2>4, Touched
    <3>2. mode.build /\ TheJob.buf = TheJob.pass % 2 /\ pc \in Building \cup {"fail"}
          /\ (pc = "act" => TheJob.pass = pass + 1)
      BY <2>1, <2>4 DEF JobOk, BuildOk
    <3>3. Writes0 = {}
      BY <3>2 DEF Writes0, Building
    <3>4. Reads0 \cap Writes1 = {}
      BY <2>3, <3>1, <3>2 DEF Reads0, Building, WgtPlace
    <3> QED
      BY <3>3, <3>4 DEF NoRace
  <2>5. CASE TheJob.kind = "wgt"
    <3>1. Reads1 = {<<"g">>} /\ Writes1 = {WgtPlace(TheJob.pass)}
      BY <2>2, <2>5, Touched
    <3>2. mode.build /\ pc \in Building \cup {"fail"} /\ (pc = "wgt" => TheJob.pass = pass + 1)
      BY <2>1, <2>5 DEF JobOk, BuildOk
    <3>3. Writes0 = {}
      BY <3>2 DEF Writes0, Building
    <3>4. Reads0 \cap Writes1 = {}
      BY <2>3, <3>1, <3>2 DEF Reads0, Building, WgtPlace
    <3> QED
      BY <3>3, <3>4 DEF NoRace
  <2>6. CASE TheJob.kind = "decode"
    <3>1. Reads1 = {<<"rxd", TheJob.buf>>} /\ Writes1 = {<<"got", TheJob.buf>>}
      BY <2>2, <2>6, Touched
    <3>2. pc = "drain" => TheJob.buf # gcur
      BY <2>1, <2>6 DEF Using
    <3>3. pc # "scatter"
      BY <1>1, <2>1, <2>6 DEF JobOk, DecodeOk, RaceInv, Where
    <3>4. Writes0 \cap (Reads1 \cup Writes1) = {}
      BY <3>1, <3>2, <3>3 DEF Writes0, WgtPlace
    <3>5. Reads0 \cap Writes1 = {}
      BY <3>1, <3>3 DEF Reads0, WgtPlace
    <3> QED
      BY <3>4, <3>5 DEF NoRace
  <2>7. CASE TheJob.kind = "scatter"
    <3>1. Reads1 = {<<"got", TheJob.buf>>} /\ Writes1 = {<<"tensor", layer>>}
      BY <2>2, <2>7, Touched
    <3>2. pc = "drain" => TheJob.buf # gcur
      BY <2>1, <2>7 DEF Using
    <3>3. pc # "scatter"
      BY <1>1, <2>1, <2>7 DEF JobOk, ScatterOk, RaceInv, Where
    <3>4. Writes0 \cap (Reads1 \cup Writes1) = {}
      BY <3>1, <3>2, <3>3 DEF Writes0, WgtPlace
    <3>5. Reads0 \cap Writes1 = {}
      BY <2>3, <3>1, <3>3 DEF Reads0, WgtPlace
    <3> QED
      BY <3>4, <3>5 DEF NoRace
  <2> QED
    BY <2>2, <2>4, <2>5, <2>6, <2>7
<1> QED
  BY <1>2, <1>3

\* The invariant of every execution: what is outstanding follows from where core 0 is.
THEOREM EngineInductive == Spec => [](RaceInv /\ Tickets)
BY InitRaceInv, InitTickets, StepRaceInv, StepTickets, PTL DEF Spec

\* No job touches a buffer core 0 is using (worker.h, rule 3): the reuse guard, the
\* two build waits and the decode wait are all the waiting that takes.
THEOREM JobsDoNotRace == Spec => []NoRace
BY EngineInductive, RaceInvNoRace, PTL

-----------------------------------------------------------------------------
(***************************************************************************)
(* A frame fails only if something it could have seen was damaged.  A      *)
(* descriptor found armed would fail a clean frame, so one is armed only   *)
(* as long as its decode is still owed; and the decode that sets core 1's  *)
(* error reads a response that was damaged in this frame.                  *)
(***************************************************************************)
Owed(i) ==
  \/ pc \in {"nop2", "decode"} /\ mode.decode /\ i = gcur
  \/ \E k \in 1 .. Len(queue[LO]) : queue[LO][k].kind = "decode" /\ queue[LO][k].buf = i

DrainsOwed == \A i \in {0, 1} : (armed[i] => Owed(i)) /\ (Owed(i) => rxd[i] # Fails)

HurtInv ==
  /\ (lost => hurt) /\ (err => hurt) /\ (c1err => hurt)
  /\ armed \in [{0, 1} -> BOOLEAN] /\ rxd = [i \in {0, 1} |-> rxd[i]]
  /\ ~hurt => DrainsOwed

LEMMA InitHurtInv == Init => HurtInv
<1>1. SUFFICES ASSUME Init PROVE HurtInv
  OBVIOUS
<1>2. Len(queue[LO]) = 0
  BY <1>1 DEF Init, JQ!AbsInit, Queues
<1>3. rxd = [i \in {0, 1} |-> rxd[i]] /\ armed \in [{0, 1} -> BOOLEAN] /\ ~armed[0] /\ ~armed[1]
  BY <1>1 DEF Init
<1> QED
  BY <1>1, <1>2, <1>3 DEF Init, HurtInv, DrainsOwed, Owed

\* A step that leaves the descriptors, and in a clean frame what is owed, alone.
LEMMA OwesTheSame ==
  ASSUME HurtInv, UNCHANGED <<armed, rxd>>, lost' => hurt', err' => hurt', c1err' => hurt',
         hurt => hurt', ~hurt' => \A i \in {0, 1} : Owed(i)' <=> Owed(i)
  PROVE  HurtInv'
BY DEF HurtInv, DrainsOwed

\* No step of core 0 but the reset lets go of the frame's hurt, and none reports an
\* error but after one.
LEMMA Core0Owes ==
  ASSUME RaceInv, HurtInv,
         \/ Reconfigure \/ StartLayer \/ ReuseGuard \/ GeomFault \/ BlockNop \/ BlockCfg
         \/ Requant \/ WeightsHit \/ BuildFirst \/ WaitStrip \/ SendStrip \/ WaitWgt
         \/ SendWgt \/ RunPass \/ BlockStatus \/ WaitDecode \/ ScatterHere \/ FailDrain
         \/ LayerBarrier \/ AfterLayer
  PROVE  HurtInv'
<1>1. UNCHANGED <<armed, rxd, queue, mode, gcur>>
  BY DEF Reconfigure, StartLayer, ReuseGuard, GeomFault, BlockNop, BlockCfg, Requant, WeightsHit,
     BuildFirst, WaitStrip, SendStrip, WaitWgt, SendWgt, RunPass, BlockStatus, WaitDecode,
     ScatterHere, FailDrain, LayerBarrier, AfterLayer, drains, worker
<1>2. (hurt => hurt') /\ (lost' => hurt') /\ (err' => hurt') /\ (c1err' => hurt')
  <2>1. hurt => hurt'
    BY DEF Reconfigure, StartLayer, ReuseGuard, GeomFault, BlockNop, BlockCfg, Requant,
       WeightsHit, BuildFirst, WaitStrip, SendStrip, WaitWgt, SendWgt, RunPass, BlockStatus,
       WaitDecode, ScatterHere, FailDrain, LayerBarrier, AfterLayer, Transaction, Fault, NoFault
  <2>2. c1err' => c1err \/ hurt'
    BY DEF HurtInv, Reconfigure, StartLayer, ReuseGuard, GeomFault, BlockNop, BlockCfg, Requant,
       WeightsHit, BuildFirst, WaitStrip, SendStrip, WaitWgt, SendWgt, RunPass, BlockStatus,
       WaitDecode, ScatterHere, FailDrain, LayerBarrier, AfterLayer
  <2>3. lost' => lost \/ hurt'
    BY DEF Reconfigure, StartLayer, ReuseGuard, GeomFault, BlockNop, BlockCfg, Requant,
       WeightsHit, BuildFirst, WaitStrip, SendStrip, WaitWgt, SendWgt, RunPass, BlockStatus,
       WaitDecode, ScatterHere, FailDrain, LayerBarrier, AfterLayer, Transaction, Fail, Fault
  <2>4. err' => err \/ lost \/ c1err \/ hurt'
    BY DEF Reconfigure, StartLayer, ReuseGuard, GeomFault, BlockNop, BlockCfg, Requant,
       WeightsHit, BuildFirst, WaitStrip, SendStrip, WaitWgt, SendWgt, RunPass, BlockStatus,
       WaitDecode, ScatterHere, FailDrain, LayerBarrier, AfterLayer, Transaction, Fail, Fault
  <2> QED
    BY <2>1, <2>2, <2>3, <2>4 DEF HurtInv
<1>3. ~hurt' => (pc \in {"nop2", "decode"} <=> pc' \in {"nop2", "decode"})
  BY DEF HurtInv, Reconfigure, StartLayer, ReuseGuard, GeomFault, BlockNop, BlockCfg, Requant,
     WeightsHit, BuildFirst, WaitStrip, SendStrip, WaitWgt, SendWgt, RunPass, BlockStatus, NextBlock,
     WaitDecode, ScatterHere, FailDrain, LayerBarrier, AfterLayer, Transaction, Fail, Fault, NoFault
<1>4. ~hurt' => \A i \in {0, 1} : Owed(i)' <=> Owed(i)
  BY <1>1, <1>3 DEF Owed
<1> QED
  BY <1>1, <1>2, <1>4, OwesTheSame

LEMMA ResetOwes ==
  ASSUME RaceInv, HurtInv, FrameReset
  PROVE  HurtInv'
<1>1. Len(queue'[LO]) = 0 /\ pc' = "layer"
  BY DEF FrameReset, RaceInv, Where, Drained, Queues, worker
<1>2. /\ lost' = lost /\ err' = FALSE /\ c1err' = FALSE /\ hurt' = lost /\ rxd' = rxd
      /\ armed' = [i \in {0, 1} |-> FALSE]
  BY DEF FrameReset
<1>3. DrainsOwed'
  BY <1>1, <1>2 DEF DrainsOwed, Owed
<1> QED
  BY <1>2, <1>3 DEF HurtInv

\* What is posted adds a decode only where the decode is.
LEMMA PostOwes ==
  ASSUME RaceInv, HurtInv, NEW p \in Queues, NEW n \in Job, JQ!Post(p, n), pc # "nop2",
         pc' \notin {"nop2", "decode"},
         n.kind = "decode" <=> pc = "decode" /\ mode.decode,
         n.kind = "decode" => p = LO /\ n.buf = gcur,
         UNCHANGED <<armed, rxd, lost, err, c1err, hurt>>
  PROVE  HurtInv'
<1>1. /\ Len(queue[LO]) \in Nat
      /\ Len(queue'[LO]) = IF LO = p THEN Len(queue[LO]) + 1 ELSE Len(queue[LO])
      /\ \A k \in 1 .. Len(queue[LO]) : queue'[LO][k] = queue[LO][k]
      /\ p = LO => queue'[LO][Len(queue[LO]) + 1] = n
  BY PostIs DEF RaceInv, Queues
<1>2. ASSUME NEW i \in {0, 1} PROVE Owed(i)' <=> Owed(i)
  <2>1. ASSUME Owed(i) PROVE Owed(i)'
    <3>1. CASE pc = "decode" /\ mode.decode /\ i = gcur
      <4>1. Len(queue[LO]) + 1 \in 1 .. Len(queue'[LO])
        BY <1>1, <3>1
      <4> QED
        BY <1>1, <3>1, <4>1 DEF Owed
    <3>2. CASE \E k \in 1 .. Len(queue[LO]) : queue[LO][k].kind = "decode" /\ queue[LO][k].buf = i
      BY <1>1, <3>2 DEF Owed
    <3> QED
      BY <2>1, <3>1, <3>2 DEF Owed
  <2>2. ASSUME Owed(i)' PROVE Owed(i)
    <3>1. PICK k \in 1 .. Len(queue'[LO]) : queue'[LO][k].kind = "decode" /\ queue'[LO][k].buf = i
      BY <2>2 DEF Owed
    <3>2. CASE k \in 1 .. Len(queue[LO])
      BY <1>1, <3>1, <3>2 DEF Owed
    <3>3. CASE k \notin 1 .. Len(queue[LO])
      BY <1>1, <3>1, <3>3 DEF Owed
    <3> QED
      BY <3>2, <3>3
  <2> QED
    BY <2>1, <2>2
<1> QED
  BY <1>2, OwesTheSame DEF HurtInv

LEMMA PostsOwe ==
  ASSUME RaceInv, HurtInv, PostStrip \/ PostWgt \/ PostDecode \/ PostScatter
  PROVE  HurtInv'
<1>1. /\ UNCHANGED <<armed, rxd, lost, err, c1err, hurt, mode>>
      /\ pc # "nop2" /\ pc' \notin {"nop2", "decode"}
  BY DEF PostStrip, PostWgt, PostDecode, PostScatter, NextBlock, drains
<1>2. gcur \in {0, 1} /\ b \in Nat /\ pass + 1 \in Nat /\ Other(Cur) \in {0, 1}
      /\ build_q \in Queues /\ LO \in Queues
  BY Halves DEF RaceInv, EngineType, Cur, build_q, Queues
<1>3. ASSUME NEW kind \in {"strip", "wgt"}, pc # "decode",
             JQ!Post(build_q, Build(kind, pass + 1, Other(Cur)))
      PROVE  HurtInv'
  <2>1. ASSUME NEW i \in Nat, NEW h \in {0, 1}
        PROVE  Build(kind, i, h) \in Job /\ Build(kind, i, h).kind # "decode"
    BY DEF Job, Build
  <2>2. PICK n \in Job : n = Build(kind, pass + 1, Other(Cur)) /\ n.kind # "decode"
    BY <1>2, <2>1
  <2>3. PICK p \in Queues : p = build_q
    BY <1>2
  <2> QED
    BY <1>1, <1>3, <2>2, <2>3, PostOwes
<1>4. ASSUME PostDecode, mode.decode PROVE HurtInv'
  <2>1. PICK n \in Job : n = Decode(gcur)
    BY <1>2 DEF Job, Decode
  <2>2. n.kind = "decode" /\ n.buf = gcur
    BY <2>1 DEF Decode
  <2>3. pc = "decode" /\ JQ!Post(LO, n)
    BY <1>4, <2>1 DEF PostDecode
  <2> QED
    BY <1>1, <1>2, <1>4, <2>2, <2>3, PostOwes
<1>5. ASSUME PostScatter PROVE HurtInv'
  <2>1. PICK n \in Job : n = Scatter(gcur, b)
    BY <1>2 DEF Job, Scatter
  <2>2. n.kind = "scatter"
    BY <2>1 DEF Scatter
  <2>3. pc # "decode" /\ JQ!Post(LO, n)
    BY <1>5, <2>1 DEF PostScatter
  <2> QED
    BY <1>1, <1>2, <2>2, <2>3, PostOwes
<1>6. ASSUME queue' = queue, pc = "decode" => ~mode.decode PROVE HurtInv'
  <2>1. \A i \in {0, 1} : Owed(i)' <=> Owed(i)
    BY <1>1, <1>6 DEF Owed
  <2> QED
    BY <1>1, <2>1, OwesTheSame DEF HurtInv
<1>7. CASE PostStrip
  <2>1. pc # "decode" /\ "strip" \in {"strip", "wgt"}
    BY <1>7 DEF PostStrip
  <2>2. CASE JQ!Post(build_q, Build("strip", pass + 1, Other(Cur)))
    BY <1>3, <2>1, <2>2
  <2>3. CASE UNCHANGED worker
    <3>1. queue' = queue
      BY <2>3 DEF worker
    <3> QED
      BY <1>6, <2>1, <3>1
  <2> QED
    BY <1>7, <2>2, <2>3 DEF PostStrip, worker
<1>8. CASE PostWgt
  <2>1. pc # "decode" /\ "wgt" \in {"strip", "wgt"}
    BY <1>8 DEF PostWgt
  <2>2. CASE JQ!Post(build_q, Build("wgt", pass + 1, Other(Cur)))
    BY <1>3, <2>1, <2>2
  <2>3. CASE UNCHANGED worker
    <3>1. queue' = queue
      BY <2>3 DEF worker
    <3> QED
      BY <1>6, <2>1, <3>1
  <2> QED
    BY <1>8, <2>2, <2>3 DEF PostWgt, worker
<1> QED
  BY <1>4, <1>5, <1>6, <1>7, <1>8 DEF PostDecode, worker

\* In a clean frame the descriptor DRAIN takes is free, and its response good.
LEMMA DrainOwes ==
  ASSUME RaceInv, HurtInv, DrainTile
  PROVE  HurtInv'
<1>1. /\ pc = "drain" /\ UNCHANGED <<queue, mode, gcur, c1err>> /\ gcur \in {0, 1}
  BY DEF DrainTile, worker, where, RaceInv, EngineType
<1>2. ASSUME NEW k \in 1 .. Len(queue[LO]), queue[LO][k].kind = "decode"
      PROVE  queue[LO][k].buf # gcur
  <2>1. LO \in Queues /\ pc \in Using
    BY <1>1 DEF Queues, Using
  <2> QED
    BY <1>2, <2>1, HalfIsFree
<1>3. armed[gcur] => hurt
  BY <1>1, <1>2 DEF HurtInv, DrainsOwed, Owed
<1>4. (hurt => hurt') /\ (lost' => hurt') /\ (err' => hurt') /\ (c1err' => hurt')
  <2>1. hurt => hurt'
    BY DEF DrainTile, Transaction, Fault, NoFault
  <2>2. lost' => lost \/ hurt'
    BY DEF DrainTile, Transaction, Fail, Fault
  <2>3. err' => err \/ lost \/ hurt' \/ armed[gcur]
    BY DEF DrainTile, Transaction, Fail, Fault
  <2> QED
    BY <1>1, <1>3, <2>1, <2>2, <2>3 DEF HurtInv
<1>5. CASE mode.decode
  <2>1. ~hurt' => /\ pc' = "nop2" /\ rxd' = [rxd EXCEPT ![gcur] = Sent]
                  /\ armed' = [armed EXCEPT ![gcur] = TRUE]
    BY <1>3, <1>5 DEF DrainTile, Fail, Fault, NoFault, HurtInv
  <2>2. Sent # Fails
    BY DEF Sent, BlockTag, Wrong, Fails
  <2>3. /\ armed' \in [{0, 1} -> BOOLEAN] /\ rxd' = [i \in {0, 1} |-> rxd'[i]]
    BY <1>1, <1>5 DEF DrainTile, HurtInv
  <2>4. ~hurt' => DrainsOwed'
    <3>1. SUFFICES ASSUME ~hurt', NEW i \in {0, 1}
                   PROVE  (armed'[i] => Owed(i)') /\ (Owed(i)' => rxd'[i] # Fails)
      BY DEF DrainsOwed
    <3>2. CASE i = gcur
      BY <1>1, <1>5, <2>1, <2>2, <3>1, <3>2 DEF Owed, HurtInv
    <3>3. CASE i # gcur
      <4>1. armed'[i] = armed[i] /\ rxd'[i] = rxd[i] /\ (Owed(i)' <=> Owed(i))
        BY <1>1, <2>1, <3>1, <3>3 DEF Owed, HurtInv
      <4> QED
        BY <1>4, <3>1, <4>1 DEF HurtInv, DrainsOwed
    <3> QED
      BY <3>2, <3>3
  <2> QED
    BY <1>4, <2>3, <2>4 DEF HurtInv
<1>6. CASE ~mode.decode
  <2>1. UNCHANGED <<armed, rxd>> /\ \A i \in {0, 1} : Owed(i)' <=> Owed(i)
    BY <1>1, <1>6 DEF DrainTile, Owed
  <2> QED
    BY <1>4, <2>1, OwesTheSame
<1> QED
  BY <1>5, <1>6

\* Retiring a job: no decode is owed that was not, and only the one retired no more.
LEMMA RetireOwed ==
  ASSUME RaceInv, NEW p \in Queues, JQ!Retire(p), UNCHANGED <<pc, mode, gcur>>,
         NEW i \in {0, 1}, Owed(i)'
  PROVE  Owed(i)
<1>1. /\ Len(queue'[p]) = Len(queue[p]) - 1 /\ Len(queue[p]) \in Nat
      /\ \A k \in 1 .. Len(queue'[p]) : queue'[p][k] = queue[p][k + 1] /\ k + 1 \in 1 .. Len(queue[p])
      /\ \A q \in Queues : q # p => queue'[q] = queue[q]
  BY RetireIs DEF RaceInv
<1> QED
  BY <1>1 DEF Owed, Queues

LEMMA RetireKeeps ==
  ASSUME RaceInv, NEW p \in Queues, JQ!Retire(p), UNCHANGED <<pc, mode, gcur>>,
         NEW i \in {0, 1}, Owed(i), queue[p][1].kind = "decode" => queue[p][1].buf # i
  PROVE  Owed(i)'
<1>1. /\ Len(queue'[p]) = Len(queue[p]) - 1 /\ Len(queue[p]) \in Nat
      /\ \A k \in 1 .. Len(queue'[p]) : queue'[p][k] = queue[p][k + 1] /\ k + 1 \in 1 .. Len(queue[p])
      /\ \A q \in Queues : q # p => queue'[q] = queue[q]
  BY RetireIs DEF RaceInv
<1>2. CASE \E k \in 1 .. Len(queue[LO]) : queue[LO][k].kind = "decode" /\ queue[LO][k].buf = i
  <2>1. PICK k \in 1 .. Len(queue[LO]) : queue[LO][k].kind = "decode" /\ queue[LO][k].buf = i
    BY <1>2
  <2>2. CASE p = LO
    <3>1. k # 1
      BY <2>1, <2>2
    <3>2. k - 1 \in 1 .. Len(queue'[LO]) /\ k - 1 + 1 = k
      <4>1. Len(queue'[LO]) = Len(queue[LO]) - 1 /\ Len(queue[LO]) \in Nat
        BY <1>1, <2>2
      <4> QED
        BY <2>1, <3>1, <4>1
    <3>3. queue'[LO][k - 1] = queue[LO][k]
      BY <1>1, <2>2, <3>2
    <3> QED
      BY <2>1, <3>2, <3>3 DEF Owed
  <2>3. CASE p # LO
    BY <1>1, <2>1, <2>3 DEF Owed, Queues
  <2> QED
    BY <2>2, <2>3
<1> QED
  BY <1>2 DEF Owed

\* Taking a job, and retiring one that is no decode, leaves what is owed.
LEMMA Core1Owes ==
  ASSUME RaceInv, HurtInv, Begin \/ BuildStripCb \/ BuildWgtCb \/ ScatterCb
  PROVE  HurtInv'
<1>1. UNCHANGED <<pc, mode, gcur, armed, rxd, lost, err, c1err, hurt>>
  BY DEF Begin, BuildStripCb, BuildWgtCb, ScatterCb, drains
<1>2. CASE Begin
  <2>1. queue' = queue
    BY <1>2 DEF Begin, JQ!Begin
  <2> QED
    BY <1>1, <2>1, OwesTheSame DEF HurtInv, Owed
<1>3. CASE BuildStripCb \/ BuildWgtCb \/ ScatterCb
  <2>1. PICK p \in Queues : JQ!Retire(p) /\ running[1] = p
    BY <1>3 DEF RaceInv, RunsFirst, BuildStripCb, BuildWgtCb, ScatterCb, Running
  <2>2. queue[p][1].kind # "decode"
    BY <1>3, <2>1 DEF RaceInv, RunsFirst, BuildStripCb, BuildWgtCb, ScatterCb, Running, JQ!Retire
  <2>3. \A i \in {0, 1} : Owed(i)' <=> Owed(i)
    BY <1>1, <2>1, <2>2, RetireOwed, RetireKeeps
  <2> QED
    BY <1>1, <2>3, OwesTheSame DEF HurtInv
<1> QED
  BY <1>2, <1>3

\* The decode disarms its descriptor; in a clean frame its response is good.
LEMMA DecodeOwes ==
  ASSUME RaceInv, HurtInv, DecodeCb
  PROVE  HurtInv'
<1>1. /\ UNCHANGED <<pc, mode, gcur, rxd, lost, err, hurt>>
      /\ c1err' = (c1err \/ rxd[TheJob.buf] = Fails)
      /\ armed' = [armed EXCEPT ![TheJob.buf] = FALSE]
  BY DEF DecodeCb
<1>2. PICK p \in Queues : JQ!Retire(p) /\ Len(queue[p]) > 0 /\ running = <<p, queue[p][1]>>
  BY DEF RaceInv, RunsFirst, DecodeCb, Running
<1>3. TheJob = queue[p][1] /\ TheJob.kind = "decode" /\ p = LO /\ TheJob.buf \in {0, 1}
  <2>1. TheJob = queue[p][1] /\ TheJob.kind = "decode"
    BY <1>2 DEF TheJob, DecodeCb, Running
  <2>2. 1 \in 1 .. Len(queue[p]) /\ queue[p][1] \in Job /\ JobOk(p, queue[p][1])
    BY <1>2, JobIn DEF RaceInv, JobsOk
  <2> QED
    BY <2>1, <2>2 DEF JobOk, DecodeOk, Job
<1>4. Owed(TheJob.buf)
  <2>1. 1 \in 1 .. Len(queue[LO])
    BY <1>2, <1>3, JobIn DEF RaceInv, EngineType, Queues
  <2> QED
    BY <1>3, <2>1 DEF Owed
<1>5. c1err' => hurt'
  BY <1>1, <1>3, <1>4 DEF HurtInv, DrainsOwed
<1>6. ~hurt => DrainsOwed'
  <2>1. SUFFICES ASSUME ~hurt, NEW i \in {0, 1}
                 PROVE  (armed'[i] => Owed(i)') /\ (Owed(i)' => rxd'[i] # Fails)
    BY DEF DrainsOwed
  <2>2. Owed(i)' => Owed(i)
    BY <1>1, <1>2, RetireOwed
  <2>3. i # TheJob.buf => (Owed(i) => Owed(i)')
    BY <1>1, <1>2, <1>3, RetireKeeps
  <2> QED
    BY <1>1, <1>3, <2>1, <2>2, <2>3 DEF HurtInv, DrainsOwed
<1>7. armed' \in [{0, 1} -> BOOLEAN] /\ rxd' = [i \in {0, 1} |-> rxd'[i]]
  BY <1>1, <1>3 DEF HurtInv
<1> QED
  BY <1>1, <1>5, <1>6, <1>7 DEF HurtInv

LEMMA StepHurtInv == RaceInv /\ HurtInv /\ [Next]_vars => HurtInv'
<1>1. SUFFICES ASSUME RaceInv, HurtInv, [Next]_vars PROVE HurtInv'
  OBVIOUS
<1>2. CASE Core0
  BY <1>1, <1>2, Core0Owes, ResetOwes, PostsOwe, DrainOwes DEF Core0
<1>3. CASE Core1
  BY <1>1, <1>3, Core1Owes, DecodeOwes DEF Core1
<1>4. CASE UNCHANGED vars
  BY <1>1, <1>4 DEF vars, HurtInv, DrainsOwed, Owed
<1> QED
  BY <1>1, <1>2, <1>3, <1>4 DEF Next, Stop

\* A frame fails only if something it could have seen was damaged: a bad frame leaves no
\* armed descriptor, error or owed decode behind that would fail a clean one.
THEOREM OnlyDamageFails == Spec => []CleanFrameSucceeds
<1>1. HurtInv => CleanFrameSucceeds
  BY DEF HurtInv, CleanFrameSucceeds
<1> QED
  BY <1>1, InitHurtInv, StepHurtInv, EngineInductive, PTL DEF Spec

-----------------------------------------------------------------------------
(***************************************************************************)
(* A layer that reports success is right.  Followed through a block: what  *)
(* is built, what of it the tile has loaded and summed, what DRAIN's       *)
(* response or the half of got[] holds, and what becomes of the output's   *)
(* block.  Nothing is claimed of the tile while a damaged transaction is   *)
(* unreported, and nothing of the output once core 1 has an error.         *)
(***************************************************************************)
Control ==
  /\ b \in Blocks /\ pass \in Passes
  /\ pc \notin {"fail", "barrier", "layer_done", "reset"} => ~err
  /\ pc = "fail" => err

\* Pass p's strip, or weights, are built or being built.
Posted(kind, p) ==
  \E k \in 1 .. Len(queue[build_q]) : queue[build_q][k].kind = kind /\ queue[build_q][k].pass = p
StripReady(p) == strip[p % 2] = StripTag(p) \/ Posted("strip", p)
WgtReady(p)   == WgtAt(p) = WgtTag(p) \/ Posted("wgt", p)

StripsOk ==
  /\ strip = [i \in {0, 1} |-> strip[i]]
  /\ pc \in {"post_s", "post_w", "wait_s"} => StripReady(pass)
  /\ pc = "act" => strip[Cur] = StripTag(pass)
  /\ pc \in {"post_w", "wait_s", "act"} /\ mode.build /\ More => StripReady(pass + 1)
  /\ pc \in {"wait_w", "wgt", "run"} /\ More => StripReady(pass + 1)

\* The key of the weight cache is the truth, and is withdrawn while it is filled.
WgtsOk ==
  /\ wstream = [i \in {0, 1} |-> wstream[i]] /\ wcache = [p \in Passes |-> wcache[p]]
  /\ ~err /\ pc # "reset" /\ wck # None =>
       mode.plan[wck[1]].fits /\ \A p \in Passes : wcache[p] = <<wck[1], wck[2], p>>
  /\ pc \in {"build0"} \cup Building => IF wHit THEN wck = TableTag ELSE wck = None
  /\ pc \in Building => \A p \in 0 .. pass : mode.plan[layer].fits \/ p = pass => WgtReady(p)
  /\ pc = "wgt" => WgtAt(pass) = WgtTag(pass)
  /\ pc \in {"wait_s", "act", "wait_w", "wgt"} /\ mode.build /\ More => WgtReady(pass + 1)
  /\ pc = "run" /\ More => WgtReady(pass + 1)
  /\ pc = "drain" /\ mode.plan[layer].fits => \A p \in Passes : wcache[p] = WgtTag(p)

Whole(c) == c = [strip |-> c.strip, wgt |-> c.wgt, acc |-> c.acc, table |-> c.table, cfg |-> c.cfg]

TileOk ==
  /\ Whole(tile)
  /\ ~lost =>
       /\ ~err /\ pc # "reset" /\ rqk # None => tile.table = rqk
       /\ pc \in {"rqp", "hit", "build0", "drain"} \cup Building => tile.cfg = BlockTag
       /\ pc \in {"hit", "build0", "drain"} \cup Building => (mode.plan[layer].rq => tile.table = TableTag)
       /\ pc \in {"wait_w", "wgt", "run"} => tile.strip = StripTag(pass)
       /\ pc = "run" => tile.wgt = WgtTag(pass)
       /\ pc \in Building /\ pass > 0 => tile.acc = StripTag(pass)
       /\ pc = "drain" => tile.acc = StripTag(NPass)

\* A decode on the half i is before the m-th job of the low queue.
Ahead(i, m) == \E k \in 1 .. m - 1 : queue[LO][k].kind = "decode" /\ queue[LO][k].buf = i

\* The m-th job of the low queue will find the half i of got[] to be the tag's.
Lands(i, tag, m) == c1err \/ IF Ahead(i, m) THEN rxd[i] \in {tag, Fails} ELSE got[i] = tag

Captured == IF mode.decode THEN rxd[gcur] \in {BlockTag, Fails} ELSE got[gcur] = BlockTag

ScattersOk ==
  \A m \in 1 .. Len(queue[LO]) : queue[LO][m].kind = "scatter" =>
    /\ queue[LO][m].block \in Blocks
    /\ Lands(queue[LO][m].buf, <<layer, queue[LO][m].block>>, m)

HalvesOk ==
  /\ rxd = [i \in {0, 1} |-> rxd[i]] /\ got = [i \in {0, 1} |-> got[i]]
  /\ ScattersOk
  /\ pc = "nop2" => lost \/ Captured
  /\ pc = "decode" => Captured
  /\ pc \in {"post_scat", "wait_dec"} => Lands(gcur, BlockTag, Len(queue[LO]) + 1)
  /\ pc = "scatter" => c1err \/ got[gcur] = BlockTag

Scattering(k) ==
  \E m \in 1 .. Len(queue[LO]) : queue[LO][m].kind = "scatter" /\ queue[LO][m].block = k

Written(k) == c1err \/ tensor[k] = <<layer, k>> \/ Scattering(k)

TensorOk ==
  /\ tensor = [k \in Blocks |-> tensor[k]]
  /\ ~err /\ pc \notin {"reset", "layer", "layer_done"} =>
       \A k \in Blocks : k < b \/ pc = "barrier" => Written(k)
  /\ OutputsRight

DataInv == Control /\ StripsOk /\ WgtsOk /\ TileOk /\ HalvesOk /\ TensorOk

\* The steps that leave the queues alone.
Alone == \/ FrameReset \/ Reconfigure \/ StartLayer \/ ReuseGuard \/ GeomFault \/ BlockNop \/ BlockCfg
         \/ Requant \/ WeightsHit \/ BuildFirst \/ WaitStrip \/ SendStrip \/ WaitWgt \/ SendWgt
         \/ RunPass \/ DrainTile \/ BlockStatus \/ WaitDecode \/ ScatterHere \/ FailDrain
         \/ LayerBarrier \/ AfterLayer

LEMMA AloneIs == Alone => UNCHANGED <<mode, queue>>
BY DEF Alone, FrameReset, Reconfigure, StartLayer, ReuseGuard, GeomFault, BlockNop, BlockCfg, Requant,
   WeightsHit, BuildFirst, WaitStrip, SendStrip, WaitWgt, SendWgt, RunPass, DrainTile, BlockStatus,
   WaitDecode, ScatterHere, FailDrain, LayerBarrier, AfterLayer, worker

LEMMA StepControl ==
  ASSUME RaceInv, Control, Core0 \/ Core1
  PROVE  Control'
<1>1. NPass \in Nat /\ NPass # 0 /\ NBlocks \in Nat /\ NBlocks # 0 /\ b \in Nat /\ pass \in Nat
      /\ b < NBlocks /\ pass < NPass
  BY EngineAssumption DEF Control, Blocks, Passes
<1>2. b' \in Nat /\ b' < NBlocks
  <2>1. CASE PostScatter \/ ScatterHere
    BY <1>1, <2>1 DEF PostScatter, ScatterHere, NextBlock
  <2>2. CASE PostStrip \/ PostWgt \/ PostDecode \/ Core1
    BY <1>1, <2>2 DEF PostStrip, PostWgt, PostDecode, Core1, Begin, BuildStripCb, BuildWgtCb, DecodeCb,
       ScatterCb, where
  <2>3. CASE Alone /\ ~ScatterHere
    <3>1. b' = b \/ b' = 0
      BY <2>3 DEF Alone, FrameReset, Reconfigure, StartLayer, ReuseGuard, GeomFault, BlockNop, BlockCfg,
         Requant, WeightsHit, BuildFirst, WaitStrip, SendStrip, WaitWgt, SendWgt, RunPass, DrainTile,
         BlockStatus, WaitDecode, FailDrain, LayerBarrier, AfterLayer, where
    <3> QED
      BY <1>1, <3>1
  <2> QED
    BY <2>1, <2>2, <2>3 DEF Core0, Alone
<1>3. pass' \in Nat /\ pass' < NPass
  <2>1. CASE RunPass
    <3>1. pc' = "post_s" => More
      BY <2>1 DEF RunPass, Transaction, Fail
    <3>2. pass' = IF pc' = "post_s" THEN pass + 1 ELSE pass
      BY <2>1 DEF RunPass
    <3> QED
      BY <1>1, <3>1, <3>2 DEF More
  <2>2. CASE PostStrip \/ PostWgt \/ PostDecode \/ PostScatter \/ Core1
    BY <1>1, <2>2 DEF PostStrip, PostWgt, PostDecode, PostScatter, NextBlock, Core1, Begin, BuildStripCb,
       BuildWgtCb, DecodeCb, ScatterCb, where
  <2>3. CASE Alone /\ ~RunPass
    <3>1. pass' = pass \/ pass' = 0
      BY <2>3 DEF Alone, FrameReset, Reconfigure, StartLayer, ReuseGuard, GeomFault, BlockNop, BlockCfg,
         Requant, WeightsHit, BuildFirst, WaitStrip, SendStrip, WaitWgt, SendWgt, DrainTile, NextBlock,
         BlockStatus, WaitDecode, ScatterHere, FailDrain, LayerBarrier, AfterLayer, where
    <3> QED
      BY <1>1, <3>1
  <2> QED
    BY <2>1, <2>2, <2>3 DEF Core0, Alone
<1>4. (pc' \notin {"fail", "barrier", "layer_done", "reset"} => ~err') /\ (pc' = "fail" => err')
  <2>1. CASE Core1
    BY <2>1 DEF Control, Core1, Begin, BuildStripCb, BuildWgtCb, DecodeCb, ScatterCb
  <2>2. CASE Alone
    <3>1. pc' = "fail" => err'
      BY <2>2 DEF Control, Alone, FrameReset, Reconfigure, StartLayer, ReuseGuard, GeomFault, BlockNop,
         BlockCfg, Requant, WeightsHit, BuildFirst, WaitStrip, SendStrip, WaitWgt, SendWgt, RunPass,
         DrainTile, BlockStatus, WaitDecode, ScatterHere, FailDrain, LayerBarrier, AfterLayer, NextBlock,
         Transaction, Fail
    <3>2. pc' \notin {"fail", "barrier", "layer_done", "reset"} => ~err'
      BY <2>2 DEF Control, Alone, FrameReset, Reconfigure, StartLayer, ReuseGuard, GeomFault, BlockNop,
         BlockCfg, Requant, WeightsHit, BuildFirst, WaitStrip, SendStrip, WaitWgt, SendWgt, RunPass,
         DrainTile, BlockStatus, WaitDecode, ScatterHere, FailDrain, LayerBarrier, AfterLayer, NextBlock,
         Transaction, Fail
    <3> QED
      BY <3>1, <3>2
  <2>3. CASE PostStrip \/ PostWgt \/ PostDecode \/ PostScatter
    BY <2>3 DEF Control, PostStrip, PostWgt, PostDecode, PostScatter, NextBlock
  <2> QED
    BY <2>1, <2>2, <2>3 DEF Core0, Alone
<1> QED
  BY <1>1, <1>2, <1>3, <1>4 DEF Control, Blocks, Passes

-----------------------------------------------------------------------------
\* A job stays posted until it is retired.
LEMMA PostedAlone ==
  ASSUME UNCHANGED <<mode, queue>>, NEW kind, NEW p
  PROVE  Posted(kind, p)' <=> Posted(kind, p)
BY DEF Posted, build_q

LEMMA PostedPost ==
  ASSUME EngineType, mode' = mode, NEW q \in Queues, NEW n \in Job, JQ!Post(q, n), NEW kind, NEW p,
         Posted(kind, p) \/ (q = build_q /\ n.kind = kind /\ n.pass = p)
  PROVE  Posted(kind, p)'
<1>1. \A i \in Queues :
        /\ Len(queue[i]) \in Nat
        /\ Len(queue'[i]) = IF i = q THEN Len(queue[i]) + 1 ELSE Len(queue[i])
        /\ \A k \in 1 .. Len(queue[i]) : queue'[i][k] = queue[i][k]
  BY PostIs
<1>2. queue'[q][Len(queue[q]) + 1] = n
  BY PostIs
<1>3. build_q' = build_q /\ build_q \in Queues
  BY DEF build_q, Queues
<1>4. CASE Posted(kind, p)
  <2>1. PICK k \in 1 .. Len(queue[build_q]) : queue[build_q][k].kind = kind /\ queue[build_q][k].pass = p
    BY <1>4 DEF Posted
  <2>2. k \in 1 .. Len(queue'[build_q]) /\ queue'[build_q][k] = queue[build_q][k]
    BY <1>1, <1>3
  <2> QED
    BY <1>3, <2>1, <2>2 DEF Posted
<1>5. CASE q = build_q /\ n.kind = kind /\ n.pass = p
  <2>1. Len(queue[q]) + 1 \in 1 .. Len(queue'[q])
    BY <1>1
  <2> QED
    BY <1>2, <1>3, <1>5, <2>1 DEF Posted
<1> QED
  BY <1>4, <1>5

LEMMA PostedRetire ==
  ASSUME EngineType, mode' = mode, NEW q \in Queues, JQ!Retire(q), NEW kind, NEW p, Posted(kind, p),
         ~(queue[q][1].kind = kind /\ queue[q][1].pass = p)
  PROVE  Posted(kind, p)'
<1>1. /\ Len(queue'[q]) = Len(queue[q]) - 1 /\ Len(queue[q]) \in Nat
      /\ \A k \in 1 .. Len(queue'[q]) : queue'[q][k] = queue[q][k + 1] /\ k + 1 \in 1 .. Len(queue[q])
      /\ \A i \in Queues : i # q => queue'[i] = queue[i]
  BY RetireIs
<1>2. build_q' = build_q /\ build_q \in Queues
  BY DEF build_q, Queues
<1>3. PICK k \in 1 .. Len(queue[build_q]) : queue[build_q][k].kind = kind /\ queue[build_q][k].pass = p
  BY DEF Posted
<1>4. CASE q = build_q
  <2>1. k # 1 /\ k \in 1 .. Len(queue[q])
    BY <1>3, <1>4
  <2>2. k - 1 \in 1 .. Len(queue'[q]) /\ k - 1 + 1 = k
    BY <1>1, <2>1
  <2>3. queue'[q][k - 1] = queue[q][k]
    BY <1>1, <2>2
  <2> QED
    BY <1>2, <1>3, <1>4, <2>2, <2>3 DEF Posted
<1>5. CASE q # build_q
  BY <1>1, <1>2, <1>3, <1>5 DEF Posted
<1> QED
  BY <1>4, <1>5

\* A build that is posted may be.
LEMMA PostedIs ==
  ASSUME RaceInv, NEW kind \in {"strip", "wgt"}, NEW p, Posted(kind, p)
  PROVE  \E j \in Job : /\ In(build_q, j) /\ BuildOk(build_q, j) /\ j.kind = kind /\ j.pass = p
                        /\ p \in Nat /\ j.buf \in {0, 1}
<1>1. build_q \in Queues
  BY DEF build_q, Queues
<1>2. PICK k \in 1 .. Len(queue[build_q]) : queue[build_q][k].kind = kind /\ queue[build_q][k].pass = p
  BY DEF Posted
<1>3. queue[build_q][k] \in Job /\ JobOk(build_q, queue[build_q][k])
  BY <1>1, JobIn DEF RaceInv, JobsOk
<1>4. PICK j \in Job : j = queue[build_q][k] /\ JobOk(build_q, j)
  BY <1>3
<1>5. p \in Nat /\ j.buf \in {0, 1}
  BY <1>2, <1>4 DEF Job
<1> QED
  BY <1>2, <1>4, <1>5 DEF In, JobOk

\* The job core 1 retires is the first of its queue, and may be there.
LEMMA RetiresIs ==
  ASSUME RaceInv, BuildStripCb \/ BuildWgtCb \/ DecodeCb \/ ScatterCb
  PROVE  \E q \in Queues : \E j \in Job :
           /\ JQ!Retire(q) /\ j = queue[q][1] /\ j = TheJob /\ JobOk(q, j) /\ Len(queue[q]) > 0
           /\ BuildStripCb => j.kind = "strip"
           /\ BuildWgtCb => j.kind = "wgt"
           /\ DecodeCb => j.kind = "decode"
           /\ ScatterCb => j.kind = "scatter"
<1>1. running # Nobody /\ JQ!Retire(running[1])
  BY DEF BuildStripCb, BuildWgtCb, DecodeCb, ScatterCb, Running
<1>2. PICK q \in Queues : Len(queue[q]) > 0 /\ running = <<q, queue[q][1]>>
  BY <1>1 DEF RaceInv, RunsFirst
<1>3. JQ!Retire(q) /\ TheJob = queue[q][1]
  BY <1>1, <1>2 DEF TheJob
<1>4. 1 \in 1 .. Len(queue[q]) /\ queue[q][1] \in Job /\ JobOk(q, queue[q][1])
  BY <1>2, JobIn DEF RaceInv, JobsOk
<1>5. /\ BuildStripCb => TheJob.kind = "strip"
      /\ BuildWgtCb => TheJob.kind = "wgt"
      /\ DecodeCb => TheJob.kind = "decode"
      /\ ScatterCb => TheJob.kind = "scatter"
  BY DEF BuildStripCb, BuildWgtCb, DecodeCb, ScatterCb, Running, TheJob
<1> QED
  BY <1>2, <1>3, <1>4, <1>5

-----------------------------------------------------------------------------
\* A wait for a build is over when it is no longer posted.
LEMMA WaitedFor ==
  ASSUME RaceInv, pc # "fail", NEW kind \in {"strip", "wgt"}, Retired(build_q, kind, Cur)
  PROVE  ~Posted(kind, pass)
<1>1. SUFFICES ASSUME Posted(kind, pass) PROVE FALSE
  OBVIOUS
<1>2. PICK p \in Nat : p = pass
  BY DEF RaceInv, EngineType
<1>3. PICK j \in Job : In(build_q, j) /\ BuildOk(build_q, j) /\ j.kind = kind /\ j.pass = p
  BY <1>1, <1>2, PostedIs
<1>4. j.buf = Cur
  BY <1>2, <1>3 DEF BuildOk, Cur
<1> QED
  BY <1>3, <1>4 DEF Retired, In

\* The first pass, and a mode without builds, post none; nor does a hit post weights.
LEMMA NotPosted ==
  ASSUME RaceInv, pc # "fail", NEW kind \in {"strip", "wgt"}, NEW p \in Nat,
         ~mode.build \/ p = 0 \/ (kind = "wgt" /\ wHit)
  PROVE  ~Posted(kind, p)
<1>1. SUFFICES ASSUME Posted(kind, p) PROVE FALSE
  OBVIOUS
<1>2. PICK j \in Job : In(build_q, j) /\ BuildOk(build_q, j) /\ j.kind = kind /\ j.pass = p
  BY <1>1, PostedIs
<1> QED
  BY <1>2 DEF BuildOk

\* What a pass needs is ready still if its buffer and its job are left alone.
LEMMA StripStays ==
  ASSUME NEW p, StripReady(p), UNCHANGED <<strip, layer, b>>, Posted("strip", p) => Posted("strip", p)'
  PROVE  StripReady(p)'
BY DEF StripReady, StripTag

LEMMA WgtStays ==
  ASSUME NEW p, WgtReady(p), UNCHANGED <<mode, wcache, wstream, layer, b>>,
         Posted("wgt", p) => Posted("wgt", p)'
  PROVE  WgtReady(p)'
BY DEF WgtReady, WgtAt, WgtTag

LEMMA AloneStrips ==
  ASSUME RaceInv, Tickets, Control, StripsOk, Alone
  PROVE  StripsOk'
<1>1. UNCHANGED <<mode, queue>> /\ pass \in Nat
  BY AloneIs DEF RaceInv, EngineType
<1>2. CASE pc' \notin Building
  <2>1. strip' = [i \in {0, 1} |-> strip'[i]]
    BY <1>2 DEF StripsOk, Building, Alone, FrameReset, Reconfigure, StartLayer, ReuseGuard, GeomFault,
       BlockNop, BlockCfg, Requant, WeightsHit, BuildFirst, WaitStrip, SendStrip, WaitWgt, SendWgt,
       RunPass, DrainTile, BlockStatus, WaitDecode, ScatterHere, FailDrain, LayerBarrier, AfterLayer, built
  <2> QED
    BY <1>2, <2>1 DEF StripsOk, Building
<1>3. CASE BuildFirst
  <2>1. strip' = [strip EXCEPT ![0] = StripTag(0)] /\ pass' = 0 /\ pc' = "post_s" /\ layer' = layer /\ b' = b
    BY <1>3 DEF BuildFirst
  <2>2. strip'[0 % 2] = StripTag(0)'
    BY <2>1 DEF StripsOk, StripTag
  <2>3. StripReady(pass)'
    BY <2>1, <2>2 DEF StripReady
  <2> QED
    BY <2>1, <2>3 DEF StripsOk
<1>4. CASE WaitStrip
  <2>1. UNCHANGED <<strip, layer, b, pass>> /\ pc = "wait_s" /\ pc' = "act" /\ (More' <=> More) /\ Cur' = Cur
    BY <1>4 DEF WaitStrip, built, where, More, Cur
  <2>2. StripReady(pass) /\ ~Posted("strip", pass)
    <3>1. pc # "fail" /\ "strip" \in {"strip", "wgt"}
      BY <2>1
    <3>2. CASE mode.build /\ pass > 0
      <4>1. Retired(build_q, "strip", Cur)
        BY <1>4, <3>2, WaitsAreFor
      <4> QED
        BY <2>1, <3>1, <4>1, WaitedFor DEF StripsOk
    <3>3. CASE ~(mode.build /\ pass > 0)
      <4>1. PICK p \in Nat : p = pass /\ (~mode.build \/ p = 0)
        BY <1>1, <3>3
      <4>2. ~Posted("strip", p)
        BY <3>1, <4>1, NotPosted
      <4> QED
        BY <2>1, <4>1, <4>2 DEF StripsOk
    <3> QED
      BY <3>2, <3>3
  <2>3. strip'[Cur'] = StripTag(pass)'
    BY <2>1, <2>2 DEF StripReady, Cur, StripTag
  <2>4. ASSUME mode.build, More PROVE StripReady(pass + 1)'
    BY <1>1, <2>1, <2>4, StripStays, PostedAlone DEF StripsOk
  <2> QED
    BY <1>1, <2>1, <2>3, <2>4 DEF StripsOk
<1>5. CASE SendStrip /\ pc' = "wait_w"
  <2>1. UNCHANGED <<layer, b, pass>> /\ pc = "act" /\ (More' <=> More)
        /\ strip' = IF ~mode.build /\ More
                    THEN [strip EXCEPT ![Other(Cur)] = StripTag(pass + 1)] ELSE strip
    BY <1>5 DEF SendStrip, where, More
  <2>2. strip' = [i \in {0, 1} |-> strip'[i]]
    BY <2>1 DEF StripsOk
  <2>3. ASSUME More PROVE StripReady(pass + 1)'
    <3>1. CASE mode.build
      BY <1>1, <2>1, <2>3, <3>1, StripStays, PostedAlone DEF StripsOk
    <3>2. CASE ~mode.build
      <4>1. Other(Cur) = (pass + 1) % 2 /\ (pass + 1) % 2 \in {0, 1}
        BY <1>1, Halves DEF Cur
      <4> QED
        BY <2>1, <2>3, <3>2, <4>1 DEF StripsOk, StripReady, StripTag
    <3> QED
      BY <3>1, <3>2
  <2> QED
    BY <1>5, <2>1, <2>2, <2>3 DEF StripsOk
<1>6. CASE (WaitWgt \/ SendWgt) /\ pc' # "fail"
  <2>1. UNCHANGED <<strip, layer, b, pass>> /\ (More' <=> More)
        /\ pc \in {"wait_w", "wgt"} /\ pc' \in {"wgt", "run"}
    BY <1>6 DEF WaitWgt, SendWgt, built, where, More, Transaction, Fail
  <2>2. ASSUME More PROVE StripReady(pass + 1)'
    BY <1>1, <2>1, <2>2, StripStays, PostedAlone DEF StripsOk
  <2> QED
    BY <2>1, <2>2 DEF StripsOk
<1>7. CASE RunPass /\ pc' = "post_s"
  <2>1. UNCHANGED <<strip, layer, b>> /\ pc = "run" /\ More /\ pass' = pass + 1
    BY <1>7 DEF RunPass, built, Transaction, Fail
  <2>2. PICK p \in Nat : p = pass + 1
    BY <1>1
  <2>3. StripReady(p)'
    BY <1>1, <2>1, <2>2, StripStays, PostedAlone DEF StripsOk
  <2>4. StripReady(pass)'
    BY <2>1, <2>2, <2>3
  <2> QED
    BY <1>7, <2>1, <2>4 DEF StripsOk
<1> QED
  BY <1>2, <1>3, <1>4, <1>5, <1>6, <1>7 DEF Building, Alone, FrameReset, Reconfigure, StartLayer, ReuseGuard,
     GeomFault, BlockNop, BlockCfg, Requant, WeightsHit, BuildFirst, WaitStrip, SendStrip, WaitWgt, SendWgt,
     RunPass, DrainTile, BlockStatus, WaitDecode, ScatterHere, FailDrain, LayerBarrier, AfterLayer,
     NextBlock, Transaction, Fail, RaceInv, Where

\* A post adds to what is posted, and the next pass' strip when it is its turn.
LEMMA PostStrips ==
  ASSUME RaceInv, Control, StripsOk, PostStrip \/ PostWgt \/ PostDecode \/ PostScatter
  PROVE  StripsOk'
<1>1. strip' = strip /\ mode' = mode /\ layer' = layer /\ pass' = pass /\ pass \in Nat
  BY DEF PostStrip, PostWgt, PostDecode, PostScatter, NextBlock, where, built, RaceInv, EngineType
<1>2. CASE PostDecode \/ PostScatter
  <2>1. pc' \notin Building
    BY <1>2 DEF PostDecode, PostScatter, NextBlock, Building
  <2> QED
    BY <1>1, <2>1 DEF StripsOk, Building
<1>3. CASE PostStrip
  <2>1. pc = "post_s" /\ pc' = "post_w" /\ b' = b /\ (More' <=> More)
    BY <1>3 DEF PostStrip, where, More
  <2>2. CASE mode.build /\ More
    <3>1. PICK p \in Nat : p = pass + 1
      BY <1>1
    <3>2. \E q \in Queues : \E n \in Job : q = build_q /\ JQ!Post(q, n) /\ n.kind = "strip" /\ n.pass = p
      <4>1. Other(Cur) \in {0, 1} /\ build_q \in Queues
        BY <1>1, Halves DEF Cur, build_q, Queues
      <4>2. PICK n \in Job : n = Build("strip", p, Other(Cur))
        BY <4>1 DEF Job, Build
      <4>3. n.kind = "strip" /\ n.pass = p
        BY <4>2 DEF Build
      <4> QED
        BY <1>3, <2>2, <3>1, <4>1, <4>2, <4>3 DEF PostStrip
    <3>3. Posted("strip", p)' /\ (Posted("strip", pass) => Posted("strip", pass)')
      BY <1>1, <3>2, PostedPost DEF RaceInv
    <3>4. StripReady(pass)'
      BY <1>1, <2>1, <3>3, StripStays DEF StripsOk
    <3>5. StripReady(pass + 1)'
      BY <1>1, <3>1, <3>3 DEF StripReady
    <3> QED
      BY <1>1, <2>1, <3>4, <3>5 DEF StripsOk
  <2>3. CASE ~(mode.build /\ More)
    <3>1. queue' = queue
      BY <1>3, <2>3 DEF PostStrip, worker
    <3>2. StripReady(pass)'
      BY <1>1, <2>1, <3>1, StripStays, PostedAlone DEF StripsOk
    <3> QED
      BY <1>1, <2>1, <2>3, <3>2 DEF StripsOk
  <2> QED
    BY <2>2, <2>3
<1>4. CASE PostWgt
  <2>1. pc = "post_w" /\ pc' = "wait_s" /\ b' = b /\ (More' <=> More)
    BY <1>4 DEF PostWgt, where, More
  <2>2. ASSUME NEW p, Posted("strip", p) PROVE Posted("strip", p)'
    <3>1. CASE UNCHANGED worker
      BY <1>1, <2>2, <3>1, PostedAlone DEF worker
    <3>2. CASE JQ!Post(build_q, Build("wgt", pass + 1, Other(Cur)))
      <4>1. Other(Cur) \in {0, 1} /\ build_q \in Queues /\ pass + 1 \in Nat
        BY <1>1, Halves DEF Cur, build_q, Queues
      <4>2. PICK n \in Job : n = Build("wgt", pass + 1, Other(Cur))
        BY <4>1 DEF Job, Build
      <4>3. PICK q \in Queues : q = build_q
        BY <4>1
      <4> QED
        BY <1>1, <2>2, <3>2, <4>2, <4>3, PostedPost DEF RaceInv
    <3> QED
      BY <1>4, <3>1, <3>2 DEF PostWgt, worker
  <2>3. StripReady(pass)'
    BY <1>1, <2>1, <2>2, StripStays DEF StripsOk
  <2>4. ASSUME mode.build, More PROVE StripReady(pass + 1)'
    BY <1>1, <2>1, <2>2, <2>4, StripStays DEF StripsOk
  <2> QED
    BY <1>1, <2>1, <2>3, <2>4 DEF StripsOk
<1> QED
  BY <1>2, <1>3, <1>4

\* Core 1's strip is the one posted, and lands in the half that is not in use.
LEMMA Core1Strips ==
  ASSUME RaceInv, Control, StripsOk, Core1
  PROVE  StripsOk'
<1>1. UNCHANGED <<mode, pc, layer, b, pass>> /\ pass \in Nat /\ (More' <=> More) /\ Cur' = Cur
  BY DEF Core1, Begin, BuildStripCb, BuildWgtCb, DecodeCb, ScatterCb, where, RaceInv, EngineType, More, Cur
<1>2. CASE Begin
  <2>1. strip' = strip /\ queue' = queue
    BY <1>2 DEF Begin, JQ!Begin, built
  <2> QED
    BY <1>1, <2>1 DEF StripsOk, StripReady, StripTag, Posted, build_q, Cur, More
<1>3. CASE ~Begin
  <2>1. PICK q \in Queues, j \in Job :
           /\ JQ!Retire(q) /\ j = queue[q][1] /\ j = TheJob /\ JobOk(q, j) /\ Len(queue[q]) > 0
           /\ BuildStripCb => j.kind = "strip"
           /\ BuildWgtCb => j.kind = "wgt"
           /\ DecodeCb => j.kind = "decode"
           /\ ScatterCb => j.kind = "scatter"
    BY <1>3, RetiresIs DEF Core1
  <2>2. CASE ~BuildStripCb
    <3>1. strip' = strip /\ j.kind # "strip"
      BY <1>3, <2>1, <2>2 DEF Core1, BuildWgtCb, DecodeCb, ScatterCb, built
    <3>2. ASSUME NEW p, Posted("strip", p) PROVE Posted("strip", p)'
      BY <1>1, <2>1, <3>1, <3>2, PostedRetire DEF RaceInv
    <3>3. ASSUME NEW p, StripReady(p) PROVE StripReady(p)'
      BY <1>1, <3>1, <3>2, <3>3, StripStays
    <3> QED
      BY <1>1, <3>1, <3>3 DEF StripsOk, StripTag
  <2>3. CASE BuildStripCb
    <3>1. j.kind = "strip" /\ strip' = [strip EXCEPT ![j.buf] = StripTag(j.pass)]
      BY <2>1, <2>3 DEF BuildStripCb
    <3>2. /\ j.pass \in Nat /\ j.buf = j.pass % 2 /\ j.buf \in {0, 1}
          /\ pc \in Building => j.pass \in {pass, pass + 1}
          /\ pc = "act" => j.pass = pass + 1
      BY <2>1, <3>1 DEF JobOk, BuildOk, Job, Building
    <3>3. ASSUME NEW p \in Nat, p \in {pass, pass + 1}, pc \in Building, StripReady(p) PROVE StripReady(p)'
      <4>1. CASE p = j.pass
        BY <1>1, <3>1, <3>2, <4>1 DEF StripsOk, StripReady, StripTag
      <4>2. CASE p # j.pass
        <5>1. p % 2 # j.buf /\ p % 2 \in {0, 1}
          BY <1>1, <3>2, <3>3, <4>2, Halves
        <5>2. strip'[p % 2] = strip[p % 2]
          BY <3>1, <5>1 DEF StripsOk
        <5>3. Posted("strip", p) => Posted("strip", p)'
          BY <1>1, <2>1, <4>2, PostedRetire DEF RaceInv
        <5> QED
          BY <1>1, <3>3, <5>2, <5>3 DEF StripReady, StripTag
      <4> QED
        BY <4>1, <4>2
    <3>4. StripReady(pass) /\ pc \in Building => StripReady(pass)'
      BY <1>1, <3>3
    <3>5. StripReady(pass + 1) /\ pc \in Building => StripReady(pass + 1)'
      <4>1. PICK p \in Nat : p = pass + 1 /\ p = pass' + 1
        BY <1>1
      <4> QED
        BY <3>3, <4>1
    <3>6. pc = "act" => strip'[Cur] = strip[Cur]
      BY <1>1, <3>1, <3>2, Halves DEF Cur, StripsOk
    <3>7. strip' = [i \in {0, 1} |-> strip'[i]]
      BY <3>1 DEF StripsOk
    <3> QED
      BY <1>1, <3>4, <3>5, <3>6, <3>7 DEF StripsOk, Building, StripTag
  <2> QED
    BY <2>2, <2>3
<1> QED
  BY <1>2, <1>3

-----------------------------------------------------------------------------
\* Weights built for one pass leave those of the passes that still need theirs.
LEMMA PutIs ==
  ASSUME WgtsOk, UNCHANGED <<mode, layer, b>>, NEW q \in Passes, NEW n \in Nat, q \in {n, n + 1}, PutWgt(q)
  PROVE  /\ wstream' = [i \in {0, 1} |-> wstream'[i]] /\ wcache' = [p \in Passes |-> wcache'[p]]
         /\ WgtAt(q)' = WgtTag(q)
         /\ \A p \in Passes : p # q /\ (mode.plan[layer].fits \/ p \in {n, n + 1}) => WgtAt(p)' = WgtAt(p)
<1>1. q \in Nat /\ q % 2 \in {0, 1} /\ \A p \in Passes : p \in Nat /\ p % 2 \in {0, 1}
  BY Constants, Halves DEF Passes
<1>2. CASE mode.plan[layer].fits
  <2>1. wcache' = [wcache EXCEPT ![q] = WgtTag(q)] /\ wstream' = wstream
    BY <1>2 DEF PutWgt
  <2> QED
    BY <1>2, <2>1 DEF WgtsOk, WgtAt
<1>3. CASE ~mode.plan[layer].fits
  <2>1. wstream' = [wstream EXCEPT ![q % 2] = WgtTag(q)] /\ wcache' = wcache
    BY <1>3 DEF PutWgt
  <2>2. ASSUME NEW p \in Passes, p # q, p \in {n, n + 1} PROVE p % 2 # q % 2
    BY <2>2, Halves
  <2> QED
    BY <1>1, <1>3, <2>1, <2>2 DEF WgtsOk, WgtAt
<1> QED
  BY <1>2, <1>3

\* A hit has every pass' weights.
LEMMA HitHasAll ==
  ASSUME WgtsOk, wHit, ~err, pc \in {"build0"} \cup Building, NEW p \in Passes
  PROVE  WgtAt(p) = WgtTag(p)
<1>1. wck = TableTag /\ pc # "reset"
  BY DEF WgtsOk, Building
<1>2. wck # None /\ wck[1] = layer /\ wck[2] = ChannelBlock(b)
  BY <1>1 DEF TableTag, None
<1>3. mode.plan[layer].fits /\ wcache[p] = <<wck[1], wck[2], p>>
  BY <1>1, <1>2 DEF WgtsOk
<1> QED
  BY <1>2, <1>3 DEF WgtAt, WgtTag

LEMMA AloneWgts ==
  ASSUME RaceInv, Tickets, Control, WgtsOk, Alone
  PROVE  WgtsOk'
<1>1. /\ UNCHANGED <<mode, queue>> /\ pass \in Nat /\ NPass \in Nat /\ pass < NPass
      /\ \A p : p \in Passes <=> p \in Nat /\ p < NPass
  BY AloneIs, EngineAssumption DEF RaceInv, EngineType, Control, Passes
<1>2. CASE pc' \notin {"build0", "drain"} \cup Building /\ ~SendWgt
  <2>1. wcache' = wcache /\ wstream' = wstream
    BY <1>2 DEF Building, Alone, FrameReset, Reconfigure, StartLayer, ReuseGuard, GeomFault,
       BlockNop, BlockCfg, Requant, WeightsHit, BuildFirst, WaitStrip, SendStrip, WaitWgt,
       RunPass, DrainTile, BlockStatus, WaitDecode, ScatterHere, FailDrain, LayerBarrier, AfterLayer, built
  <2>2. ASSUME ~err', pc' # "reset", wck' # None
        PROVE  mode'.plan[wck'[1]].fits /\ \A p \in Passes : wcache'[p] = <<wck'[1], wck'[2], p>>
    <3>1. CASE DrainTile /\ mode.plan[layer].fits
      <4>1. wck' = <<layer, ChannelBlock(b)>> /\ pc = "drain"
        BY <3>1 DEF DrainTile, TableTag
      <4> QED
        BY <1>1, <2>1, <3>1, <4>1 DEF WgtsOk, WgtTag
    <3>2. CASE ~(DrainTile /\ mode.plan[layer].fits)
      <4>1. wck' = wck
        BY <2>2, <3>2 DEF Alone, FrameReset, Reconfigure, StartLayer, ReuseGuard, GeomFault,
           BlockNop, BlockCfg, Requant, WeightsHit, BuildFirst, WaitStrip, SendStrip, WaitWgt, SendWgt,
           RunPass, DrainTile, BlockStatus, WaitDecode, ScatterHere, FailDrain, LayerBarrier, AfterLayer, built
      <4>2. ~err /\ pc # "reset"
        BY <2>2 DEF Alone, FrameReset, Reconfigure, StartLayer, ReuseGuard, GeomFault,
           BlockNop, BlockCfg, Requant, WeightsHit, BuildFirst, WaitStrip, SendStrip, WaitWgt, SendWgt,
           RunPass, DrainTile, BlockStatus, WaitDecode, ScatterHere, FailDrain, LayerBarrier, AfterLayer,
           Transaction, Fail, Control
      <4> QED
        BY <1>1, <2>1, <2>2, <4>1, <4>2 DEF WgtsOk
    <3> QED
      BY <3>1, <3>2
  <2> QED
    BY <1>2, <2>1, <2>2 DEF WgtsOk, Building
<1>3. CASE WeightsHit
  <2>1. /\ pc = "hit" /\ pc' = "build0" /\ UNCHANGED <<wcache, wstream, layer, b, err>>
        /\ wHit' = (wck = TableTag) /\ wck' = IF wck = TableTag THEN wck ELSE None
    BY <1>3 DEF WeightsHit, where
  <2> QED
    BY <1>1, <2>1 DEF WgtsOk, Building, TableTag
<1>4. CASE BuildFirst
  <2>1. /\ pc = "build0" /\ pc' = "post_s" /\ UNCHANGED <<layer, b, wHit, wck, err>> /\ pass' = 0 /\ ~err
    BY <1>4 DEF BuildFirst, Control
  <2>2. 0 \in Passes /\ 0 \in Nat
    BY <1>1
  <2>3. CASE wHit
    <3>1. UNCHANGED <<wstream, wcache>>
      BY <1>4, <2>3 DEF BuildFirst
    <3>2. WgtAt(0) = WgtTag(0)
      BY <2>1, <2>2, <2>3, HitHasAll DEF Building
    <3>3. WgtReady(0)'
      BY <1>1, <2>1, <3>1, <3>2 DEF WgtReady, WgtAt, WgtTag
    <3> QED
      BY <1>1, <2>1, <2>3, <3>1, <3>3 DEF WgtsOk, Building, TableTag
  <2>4. CASE ~wHit
    <3>1. PutWgt(0) /\ wck = None
      BY <1>4, <2>1, <2>4 DEF BuildFirst, WgtsOk, Building
    <3>2. /\ wstream' = [i \in {0, 1} |-> wstream'[i]] /\ wcache' = [p \in Passes |-> wcache'[p]]
          /\ WgtAt(0)' = WgtTag(0)
      BY <1>1, <2>1, <2>2, <3>1, PutIs
    <3>3. WgtReady(0)'
      BY <2>1, <3>2 DEF WgtReady, WgtTag
    <3> QED
      BY <1>1, <2>1, <2>4, <3>1, <3>2, <3>3 DEF WgtsOk, Building
  <2> QED
    BY <2>3, <2>4
<1>5. CASE (WaitStrip \/ SendStrip \/ WaitWgt) /\ pc' # "fail"
  <2>1. /\ UNCHANGED <<wcache, wstream, wck, wHit, layer, b, pass, err>> /\ (More' <=> More) /\ ~err
        /\ \/ pc = "wait_s" /\ pc' = "act"
           \/ pc = "act" /\ pc' = "wait_w"
           \/ pc = "wait_w" /\ pc' = "wgt" /\ WaitWgt
    BY <1>5 DEF WaitStrip, SendStrip, WaitWgt, built, where, More, Transaction, Fail, Control
  <2>2. ASSUME NEW p, WgtReady(p) PROVE WgtReady(p)'
    BY <1>1, <2>1, <2>2, WgtStays, PostedAlone
  <2>3. ASSUME pc = "wait_w" PROVE WgtAt(pass)' = WgtTag(pass)
    <3>1. WgtReady(pass)
      BY <1>1, <2>3 DEF WgtsOk, Building
    <3>2. PICK p \in Nat : p = pass
      BY <1>1
    <3>3. pc # "fail" /\ "wgt" \in {"strip", "wgt"}
      BY <2>3
    <3>4. ~Posted("wgt", p)
      <4>1. CASE mode.build /\ pass > 0 /\ ~wHit
        <5>1. Retired(build_q, "wgt", Cur)
          BY <2>1, <2>3, <4>1, WaitsAreFor
        <5> QED
          BY <3>2, <3>3, <5>1, WaitedFor
      <4>2. CASE ~(mode.build /\ pass > 0 /\ ~wHit)
        BY <1>1, <3>2, <3>3, <4>2, NotPosted
      <4> QED
        BY <4>1, <4>2
    <3> QED
      BY <1>1, <2>1, <3>1, <3>2, <3>4 DEF WgtReady, WgtAt
  <2>4. \A p \in 0 .. pass : mode.plan[layer].fits \/ p = pass => WgtReady(p)'
    BY <2>1, <2>2 DEF WgtsOk, Building
  <2>5. mode.build /\ More => WgtReady(pass + 1)'
    BY <2>1, <2>2 DEF WgtsOk
  <2> QED
    BY <1>1, <2>1, <2>3, <2>4, <2>5 DEF WgtsOk, Building, TableTag, WgtTag
<1>6. CASE SendWgt
  <2>1. /\ UNCHANGED <<wck, wHit, layer, b, pass>> /\ (More' <=> More) /\ ~err /\ pc = "wgt" /\ pass + 1 \in Nat
        /\ \/ pc' = "run" /\ err' = err
           \/ pc' = "fail" /\ err'
    <3>1. UNCHANGED <<wck, wHit, layer, b, pass>> /\ (More' <=> More) /\ pc = "wgt" /\ pass + 1 \in Nat
      BY <1>1, <1>6 DEF SendWgt, where, More
    <3>2. (pc' = "run" /\ err' = err) \/ (pc' = "fail" /\ err')
      BY <1>6 DEF SendWgt, Transaction, Fail
    <3> QED
      BY <3>1, <3>2 DEF Control
  <2>2. CASE ~mode.build /\ More /\ ~wHit
    <3>1. PICK q \in Passes : q = pass + 1 /\ PutWgt(q)
      BY <1>1, <1>6, <2>2 DEF SendWgt, More
    <3>2. PICK n \in Nat : n = pass
      BY <1>1
    <3>3. /\ wstream' = [i \in {0, 1} |-> wstream'[i]] /\ wcache' = [p \in Passes |-> wcache'[p]]
          /\ WgtAt(q)' = WgtTag(q)
          /\ \A p \in Passes : p # q /\ (mode.plan[layer].fits \/ p \in {n, n + 1}) => WgtAt(p)' = WgtAt(p)
      BY <1>1, <2>1, <3>1, <3>2, PutIs
    <3>4. ASSUME NEW p \in 0 .. pass, mode.plan[layer].fits \/ p = pass PROVE WgtReady(p)'
      <4>1. WgtReady(p) /\ p \in Passes /\ p # q
        BY <1>1, <2>1, <3>1, <3>4 DEF WgtsOk, Building
      <4>2. WgtAt(p)' = WgtAt(p)
        BY <3>2, <3>3, <3>4, <4>1
      <4> QED
        BY <1>1, <2>1, <4>1, <4>2, PostedAlone DEF WgtReady, WgtTag
    <3>5. WgtReady(pass + 1)'
      BY <2>1, <3>1, <3>3 DEF WgtReady, WgtTag
    <3>6. wck = None
      BY <2>1, <2>2 DEF WgtsOk, Building
    <3> QED
      BY <1>1, <2>1, <2>2, <3>3, <3>4, <3>5, <3>6 DEF WgtsOk, Building
  <2>3. CASE ~(~mode.build /\ More /\ ~wHit)
    <3>1. UNCHANGED <<wcache, wstream>>
      BY <1>6, <2>3 DEF SendWgt
    <3>2. ASSUME NEW p, WgtReady(p) PROVE WgtReady(p)'
      BY <1>1, <2>1, <3>1, <3>2, WgtStays, PostedAlone
    <3>3. \A p \in 0 .. pass : mode.plan[layer].fits \/ p = pass => WgtReady(p)'
      BY <2>1, <3>2 DEF WgtsOk, Building
    <3>4. ASSUME More PROVE WgtReady(pass + 1)'
      <4>1. CASE mode.build
        BY <2>1, <3>2, <3>4, <4>1 DEF WgtsOk
      <4>2. CASE wHit
        <5>1. pass + 1 \in Passes
          BY <1>1, <3>4 DEF More
        <5>2. WgtReady(pass + 1)
          BY <2>1, <4>2, <5>1, HitHasAll DEF WgtReady, Building
        <5> QED
          BY <2>1, <3>2, <5>2
      <4> QED
        BY <2>3, <3>4, <4>1, <4>2
    <3> QED
      BY <1>1, <2>1, <3>1, <3>3, <3>4 DEF WgtsOk, Building, TableTag
  <2> QED
    BY <2>2, <2>3
<1>7. CASE RunPass /\ pc' # "fail"
  <2>1. /\ UNCHANGED <<wcache, wstream, wck, wHit, layer, b, err>> /\ ~err /\ pc = "run"
        /\ \/ More /\ pc' = "post_s" /\ pass' = pass + 1
           \/ ~More /\ pc' = "drain" /\ pass' = pass
    BY <1>7 DEF RunPass, built, Transaction, Fail, Control
  <2>2. ASSUME NEW p, WgtReady(p) PROVE WgtReady(p)'
    BY <1>1, <2>1, <2>2, WgtStays, PostedAlone
  <2>3. CASE More
    <3>1. ASSUME NEW p \in 0 .. pass + 1, mode.plan[layer].fits \/ p = pass + 1 PROVE WgtReady(p)'
      <4>1. CASE p = pass + 1
        BY <2>1, <2>2, <2>3, <4>1 DEF WgtsOk
      <4>2. CASE p # pass + 1
        <5>1. p \in 0 .. pass /\ mode.plan[layer].fits
          BY <1>1, <3>1, <4>2
        <5> QED
          BY <2>1, <2>2, <5>1 DEF WgtsOk, Building
      <4> QED
        BY <4>1, <4>2
    <3> QED
      BY <1>1, <2>1, <2>3, <3>1 DEF WgtsOk, Building, TableTag
  <2>4. CASE ~More
    <3>1. ASSUME mode.plan[layer].fits, NEW p \in Passes PROVE wcache[p] = WgtTag(p)
      <4>1. p \in 0 .. pass /\ p \in Nat
        BY <1>1, <2>4 DEF More
      <4>2. WgtReady(p)
        BY <2>1, <3>1, <4>1 DEF WgtsOk, Building
      <4>3. ~Posted("wgt", p)
        <5>1. SUFFICES ASSUME Posted("wgt", p) PROVE FALSE
          OBVIOUS
        <5>2. "wgt" \in {"strip", "wgt"}
          OBVIOUS
        <5>3. PICK j \in Job : BuildOk(build_q, j) /\ j.kind = "wgt" /\ j.pass = p
          BY <5>1, <5>2, PostedIs
        <5> QED
          BY <1>1, <2>1, <4>1, <5>3 DEF BuildOk
      <4> QED
        BY <3>1, <4>2, <4>3 DEF WgtReady, WgtAt
    <3> QED
      BY <1>1, <2>1, <2>4, <3>1 DEF WgtsOk, Building, WgtTag
  <2> QED
    BY <2>3, <2>4
<1> QED
  BY <1>2, <1>3, <1>4, <1>5, <1>6, <1>7 DEF Building, Alone, FrameReset, Reconfigure, StartLayer, ReuseGuard,
     GeomFault, BlockNop, BlockCfg, Requant, WeightsHit, BuildFirst, WaitStrip, SendStrip, WaitWgt,
     RunPass, DrainTile, BlockStatus, WaitDecode, ScatterHere, FailDrain, LayerBarrier, AfterLayer,
     NextBlock, Transaction, Fail, RaceInv, Where

\* A build that core 0 posts, as the job it is.
LEMMA BuildPosted ==
  ASSUME EngineType, NEW kind \in {"strip", "wgt"}, NEW p \in Nat, p = pass + 1,
         JQ!Post(build_q, Build(kind, pass + 1, Other(Cur)))
  PROVE  \E q \in Queues : \E n \in Job : q = build_q /\ JQ!Post(q, n) /\ n.kind = kind /\ n.pass = p
<1>1. Other(Cur) \in {0, 1} /\ build_q \in Queues
  BY Halves DEF EngineType, Cur, build_q, Queues
<1>2. PICK n \in Job : n = Build(kind, p, Other(Cur))
  BY <1>1 DEF Job, Build
<1>3. n.kind = kind /\ n.pass = p
  BY <1>2 DEF Build
<1> QED
  BY <1>1, <1>2, <1>3

LEMMA PostWgts ==
  ASSUME RaceInv, Control, WgtsOk, PostStrip \/ PostWgt \/ PostDecode \/ PostScatter
  PROVE  WgtsOk'
<1>1. /\ UNCHANGED <<wcache, wstream, wck, wHit, mode, layer, pass, err>> /\ pass \in Nat /\ pass + 1 \in Nat
      /\ ~err /\ pc # "reset" /\ (More' <=> More)
  BY DEF PostStrip, PostWgt, PostDecode, PostScatter, NextBlock, where, built, RaceInv, EngineType, More, Control
<1>2. ~err' /\ pc' # "reset" /\ wck' # None =>
        mode'.plan[wck'[1]].fits /\ \A p \in Passes : wcache'[p] = <<wck'[1], wck'[2], p>>
  BY <1>1 DEF WgtsOk
<1>3. CASE PostDecode \/ PostScatter
  <2>1. pc' \notin {"build0", "drain"} \cup Building
    BY <1>3 DEF PostDecode, PostScatter, NextBlock, Building
  <2> QED
    BY <1>1, <1>2, <2>1 DEF WgtsOk, Building
<1>4. CASE PostStrip \/ PostWgt
  <2>1. /\ b' = b
        /\ \/ PostStrip /\ pc = "post_s" /\ pc' = "post_w"
           \/ PostWgt /\ pc = "post_w" /\ pc' = "wait_s"
    BY <1>4 DEF PostStrip, PostWgt, where
  <2>2. ASSUME NEW kind, NEW p, Posted(kind, p) PROVE Posted(kind, p)'
    <3>1. CASE UNCHANGED worker
      BY <1>1, <2>2, <3>1, PostedAlone DEF worker
    <3>2. ASSUME NEW k \in {"strip", "wgt"}, JQ!Post(build_q, Build(k, pass + 1, Other(Cur)))
          PROVE  Posted(kind, p)'
      <4>1. PICK i \in Nat : i = pass + 1
        BY <1>1
      <4>2. PICK q \in Queues, n \in Job : JQ!Post(q, n)
        BY <3>2, <4>1, BuildPosted DEF RaceInv
      <4> QED
        BY <1>1, <2>2, <4>2, PostedPost DEF RaceInv
    <3> QED
      BY <1>4, <3>1, <3>2 DEF PostStrip, PostWgt, worker
  <2>3. ASSUME NEW p, WgtReady(p) PROVE WgtReady(p)'
    BY <1>1, <2>1, <2>2, <2>3, WgtStays
  <2>4. \A p \in 0 .. pass : mode.plan[layer].fits \/ p = pass => WgtReady(p)'
    BY <2>1, <2>3 DEF WgtsOk, Building
  <2>5. ASSUME PostWgt, mode.build, More PROVE WgtReady(pass + 1)'
    <3>1. CASE wHit
      <4>1. pass + 1 \in Passes
        BY <1>1, <2>5, Constants DEF Passes, More
      <4>2. WgtReady(pass + 1)
        BY <1>1, <2>1, <3>1, <4>1, HitHasAll DEF WgtReady, Building
      <4> QED
        BY <1>1, <2>3, <4>2
    <3>2. CASE ~wHit
      <4>1. PICK p \in Nat : p = pass + 1
        BY <1>1
      <4>2. JQ!Post(build_q, Build("wgt", pass + 1, Other(Cur)))
        BY <2>5, <3>2 DEF PostWgt
      <4>3. PICK q \in Queues, n \in Job : q = build_q /\ JQ!Post(q, n) /\ n.kind = "wgt" /\ n.pass = p
        BY <4>1, <4>2, BuildPosted DEF RaceInv
      <4>4. Posted("wgt", p)'
        BY <1>1, <4>3, PostedPost DEF RaceInv
      <4> QED
        BY <1>1, <4>1, <4>4 DEF WgtReady
    <3> QED
      BY <3>1, <3>2
  <2>6. IF wHit' THEN wck' = TableTag' ELSE wck' = None
    BY <1>1, <2>1 DEF WgtsOk, Building, TableTag
  <2>7. /\ wstream' = [i \in {0, 1} |-> wstream'[i]] /\ wcache' = [p \in Passes |-> wcache'[p]]
    BY <1>1 DEF WgtsOk
  <2> QED
    BY <1>1, <1>2, <2>1, <2>4, <2>5, <2>6, <2>7 DEF WgtsOk, Building
<1> QED
  BY <1>3, <1>4

\* Core 1's weights are those posted, and miss what core 0 sends and what the key names.
LEMMA Core1Wgts ==
  ASSUME RaceInv, Control, WgtsOk, Core1
  PROVE  WgtsOk'
<1>1. /\ UNCHANGED <<mode, pc, layer, b, pass, wHit, wck, err>> /\ pass \in Nat /\ (More' <=> More)
      /\ NPass \in Nat /\ pass < NPass
  BY EngineAssumption DEF Core1, Begin, BuildStripCb, BuildWgtCb, DecodeCb, ScatterCb, where, built, RaceInv, EngineType,
     More, Control, Passes
<1>2. CASE Begin
  <2>1. wcache' = wcache /\ wstream' = wstream /\ queue' = queue
    BY <1>2 DEF Begin, JQ!Begin, built
  <2>2. ASSUME NEW p PROVE WgtReady(p)' <=> WgtReady(p)
    BY <1>1, <2>1 DEF WgtReady, WgtAt, WgtTag, Posted, build_q
  <2> QED
    BY <1>1, <2>1, <2>2 DEF WgtsOk, WgtAt, WgtTag, TableTag
<1>3. CASE ~Begin
  <2>1. PICK q \in Queues, j \in Job :
           /\ JQ!Retire(q) /\ j = queue[q][1] /\ j = TheJob /\ JobOk(q, j) /\ Len(queue[q]) > 0
           /\ BuildStripCb => j.kind = "strip"
           /\ BuildWgtCb => j.kind = "wgt"
           /\ DecodeCb => j.kind = "decode"
           /\ ScatterCb => j.kind = "scatter"
    BY <1>3, RetiresIs DEF Core1
  <2>2. CASE ~BuildWgtCb
    <3>1. wcache' = wcache /\ wstream' = wstream /\ j.kind # "wgt"
      BY <1>3, <2>1, <2>2 DEF Core1, BuildStripCb, DecodeCb, ScatterCb, built
    <3>2. ASSUME NEW p, WgtReady(p) PROVE WgtReady(p)'
      <4>1. Posted("wgt", p) => Posted("wgt", p)'
        BY <1>1, <2>1, <3>1, PostedRetire DEF RaceInv
      <4> QED
        BY <1>1, <3>1, <3>2, <4>1, WgtStays
    <3> QED
      BY <1>1, <3>1, <3>2 DEF WgtsOk, WgtAt, WgtTag, TableTag
  <2>3. CASE BuildWgtCb
    <3>1. j.kind = "wgt" /\ PutWgt(j.pass)
      BY <2>1, <2>3 DEF BuildWgtCb
    <3>2. /\ j.pass \in Passes /\ j.pass \in Nat /\ pc \in Building \cup {"fail"}
          /\ pc # "fail" => ~wHit /\ j.pass \in {pass, pass + 1}
          /\ pc = "wgt" => j.pass = pass + 1
      BY <1>1, <2>1, <3>1 DEF JobOk, BuildOk, Job, Passes
    <3>3. CASE pc = "fail"
      <4>1. err
        BY <3>3 DEF Control
      <4>2. wstream' = [i \in {0, 1} |-> wstream'[i]] /\ wcache' = [p \in Passes |-> wcache'[p]]
        BY <3>1 DEF PutWgt, WgtsOk
      <4> QED
        BY <1>1, <3>3, <4>1, <4>2 DEF WgtsOk, Building
    <3>4. CASE pc # "fail"
      <4>1. PICK n \in Nat : n = pass
        BY <1>1
      <4>2. PICK i \in Passes : i = j.pass
        BY <3>2
      <4>3. /\ wstream' = [k \in {0, 1} |-> wstream'[k]] /\ wcache' = [p \in Passes |-> wcache'[p]]
            /\ WgtAt(i)' = WgtTag(i)
            /\ \A p \in Passes : p # i /\ (mode.plan[layer].fits \/ p \in {n, n + 1}) => WgtAt(p)' = WgtAt(p)
        BY <1>1, <3>1, <3>2, <3>4, <4>1, <4>2, PutIs
      <4>4. ASSUME NEW p \in Passes, mode.plan[layer].fits \/ p \in {pass, pass + 1}, WgtReady(p) PROVE WgtReady(p)'
        <5>1. CASE p = i
          BY <1>1, <4>3, <5>1 DEF WgtReady, WgtTag
        <5>2. CASE p # i
          <6>1. WgtAt(p)' = WgtAt(p)
            BY <4>1, <4>3, <4>4, <5>2
          <6>2. Posted("wgt", p) => Posted("wgt", p)'
            <7>1. EngineType /\ mode' = mode /\ JQ!Retire(q) /\ queue[q][1].pass # p
              BY <1>1, <2>1, <4>2, <5>2 DEF RaceInv
            <7> QED
              BY <7>1, PostedRetire
          <6> QED
            BY <1>1, <4>4, <6>1, <6>2 DEF WgtReady, WgtTag
        <5> QED
          BY <5>1, <5>2
      <4>5. ASSUME NEW p \in 0 .. pass, mode.plan[layer].fits \/ p = pass PROVE WgtReady(p)'
        <5>1. p \in Passes /\ (mode.plan[layer].fits \/ p \in {pass, pass + 1})
          BY <1>1, <4>5 DEF Passes
        <5>2. WgtReady(p)
          BY <3>2, <3>4, <4>5 DEF WgtsOk
        <5> QED
          BY <4>4, <5>1, <5>2
      <4>6. ASSUME More, WgtReady(pass + 1) PROVE WgtReady(pass + 1)'
        <5>1. PICK p \in Passes : p = pass + 1
          BY <1>1, <4>6 DEF Passes, More
        <5>2. WgtReady(p)'
          BY <4>4, <4>6, <5>1
        <5> QED
          BY <1>1, <5>1, <5>2
      <4>7. ASSUME pc = "wgt" PROVE WgtAt(pass)' = WgtTag(pass)'
        <5>1. PICK p \in Passes : p = pass
          BY DEF Control
        <5>2. WgtAt(p)' = WgtAt(p)
          BY <1>1, <3>2, <4>1, <4>2, <4>3, <4>7, <5>1
        <5>3. WgtAt(p) = WgtTag(p)
          BY <4>7, <5>1 DEF WgtsOk
        <5> QED
          BY <1>1, <5>1, <5>2, <5>3 DEF WgtAt, WgtTag
      <4>8. wck = None /\ ~wHit
        BY <3>2, <3>4 DEF WgtsOk
      <4> QED
        BY <1>1, <3>2, <3>4, <4>3, <4>5, <4>6, <4>7, <4>8 DEF WgtsOk, Building
    <3> QED
      BY <3>3, <3>4
  <2> QED
    BY <2>2, <2>3
<1> QED
  BY <1>2, <1>3

-----------------------------------------------------------------------------
\* The tile's memories, each alone.
LEMMA TileFieldsAre ==
  ASSUME NEW c, Whole(c), NEW x, NEW d
  PROVE  /\ d = [c EXCEPT !.strip = x] => Whole(d) /\ d.strip = x /\ d.wgt = c.wgt /\ d.acc = c.acc
                                          /\ d.table = c.table /\ d.cfg = c.cfg
         /\ d = [c EXCEPT !.wgt = x] => Whole(d) /\ d.wgt = x /\ d.strip = c.strip /\ d.acc = c.acc
                                        /\ d.table = c.table /\ d.cfg = c.cfg
         /\ d = [c EXCEPT !.acc = x] => Whole(d) /\ d.acc = x /\ d.strip = c.strip /\ d.wgt = c.wgt
                                        /\ d.table = c.table /\ d.cfg = c.cfg
         /\ d = [c EXCEPT !.table = x] => Whole(d) /\ d.table = x /\ d.strip = c.strip /\ d.wgt = c.wgt
                                          /\ d.acc = c.acc /\ d.cfg = c.cfg
         /\ d = [c EXCEPT !.cfg = x] => Whole(d) /\ d.cfg = x /\ d.strip = c.strip /\ d.wgt = c.wgt
                                        /\ d.acc = c.acc /\ d.table = c.table
BY DEF Whole

LEMMA SameTile ==
  ASSUME RaceInv, Control, TileOk, Core0 \/ Core1,
         ~(Reconfigure \/ BlockCfg \/ Requant \/ SendStrip \/ SendWgt \/ RunPass)
  PROVE  TileOk'
<1>1. tile' = tile
  BY DEF Core0, Core1, FrameReset, StartLayer, ReuseGuard, GeomFault, BlockNop, WeightsHit, BuildFirst, PostStrip,
     PostWgt, WaitStrip, WaitWgt, DrainTile, BlockStatus, PostDecode, PostScatter, WaitDecode, ScatterHere,
     FailDrain, LayerBarrier, AfterLayer, Begin, BuildStripCb, BuildWgtCb, DecodeCb, ScatterCb, Transaction
<1>2. Whole(tile')
  BY <1>1 DEF TileOk
<1>3. ~lost' => ~lost \/ pc' = "fail"
  BY DEF Core0, Core1, FrameReset, StartLayer, ReuseGuard, GeomFault, BlockNop, WeightsHit, BuildFirst, PostStrip,
     PostWgt, WaitStrip, WaitWgt, DrainTile, BlockStatus, PostDecode, PostScatter, WaitDecode, ScatterHere,
     FailDrain, LayerBarrier, AfterLayer, Begin, BuildStripCb, BuildWgtCb, DecodeCb, ScatterCb, Transaction, Fail
<1>4. CASE Core1
  <2>1. UNCHANGED <<pc, mode, layer, b, pass, rqk, err, lost>>
    BY <1>4 DEF Core1, Begin, BuildStripCb, BuildWgtCb, DecodeCb, ScatterCb, where
  <2> QED
    BY <1>1, <1>2, <2>1 DEF TileOk, BlockTag, TableTag, StripTag, WgtTag
<1>5. CASE pc' = "fail"
  <2>1. err'
    BY <1>5, StepControl DEF Control
  <2> QED
    BY <1>2, <1>5, <2>1 DEF TileOk, Building
<1>6. CASE ~Core1 /\ pc' # "fail"
  <2>1. ASSUME ~lost', ~err', pc' # "reset", rqk' # None PROVE tile'.table = rqk'
    <3>1. ~FrameReset
      BY <2>1 DEF FrameReset
    <3>2. rqk' = rqk /\ pc # "reset"
      BY <1>6, <3>1 DEF Core0, StartLayer, ReuseGuard, GeomFault, BlockNop, WeightsHit, BuildFirst, PostStrip,
         PostWgt, WaitStrip, WaitWgt, DrainTile, BlockStatus, PostDecode, PostScatter, WaitDecode, ScatterHere,
         FailDrain, LayerBarrier, AfterLayer
    <3>3. ~err
      BY <1>6, <2>1, <3>1 DEF Control, Core0, StartLayer, ReuseGuard, GeomFault, BlockNop, WeightsHit, BuildFirst, PostStrip,
         PostWgt, WaitStrip, WaitWgt, DrainTile, BlockStatus, PostDecode, PostScatter, WaitDecode, ScatterHere,
         FailDrain, LayerBarrier, AfterLayer
    <3>4. ~lost
      BY <1>3, <1>6, <2>1
    <3> QED
      BY <1>1, <2>1, <3>2, <3>3, <3>4 DEF TileOk
  <2>2. CASE pc' \notin {"rqp", "hit", "build0", "drain"} \cup Building
    BY <1>2, <2>1, <2>2 DEF TileOk, Building
  <2>3. CASE pc' \in {"rqp", "hit", "build0", "drain"} \cup Building
    <3>1. /\ UNCHANGED <<mode, layer, b>>
          /\ \/ WeightsHit /\ pc = "hit" /\ pc' = "build0" /\ pass' = pass
             \/ BuildFirst /\ pc = "build0" /\ pc' = "post_s" /\ pass' = 0
             \/ pc = "post_s" /\ pc' = "post_w" /\ pass' = pass
             \/ pc = "post_w" /\ pc' = "wait_s" /\ pass' = pass
             \/ pc = "wait_s" /\ pc' = "act" /\ pass' = pass
             \/ pc = "wait_w" /\ pc' = "wgt" /\ pass' = pass
      BY <1>6, <2>3 DEF Building, Core0, FrameReset, StartLayer, ReuseGuard, GeomFault, BlockNop, WeightsHit, BuildFirst, PostStrip,
         PostWgt, WaitStrip, WaitWgt, DrainTile, BlockStatus, PostDecode, PostScatter, WaitDecode, ScatterHere,
         FailDrain, LayerBarrier, AfterLayer, Transaction, Fail, NextBlock, where
    <3>2. ~lost' => ~lost
      BY <1>3, <1>6
    <3> QED
      BY <1>1, <1>2, <2>1, <3>1, <3>2 DEF TileOk, Building, BlockTag, TableTag, StripTag, WgtTag
  <2> QED
    BY <2>2, <2>3
<1> QED
  BY <1>4, <1>5, <1>6

\* A transaction that went on, with nothing unreported, did what it was sent to do.
LEMMA WentOn ==
  ASSUME NEW next, NEW good, NEW bad, NEW asks, next # "fail", Transaction(next, good, bad, asks), pc' # "fail"
  PROVE  /\ pc' = next /\ err' = err
         /\ ~lost' => ~lost /\ tile' = good
         /\ asks => ~lost
<1>1. ASSUME NEW a, Fail(a) PROVE FALSE
  BY <1>1 DEF Fail
<1>2. \/ pc' = next /\ UNCHANGED <<lost, err>> /\ tile' = good /\ ~(asks /\ lost)
      \/ pc' = next /\ lost' = TRUE /\ err' = err /\ ~asks
  BY <1>1 DEF Transaction
<1> QED
  BY <1>2

LEMMA LoadTile ==
  ASSUME RaceInv, Control, StripsOk, WgtsOk, TileOk,
         Reconfigure \/ BlockCfg \/ Requant \/ SendStrip \/ SendWgt \/ RunPass
  PROVE  TileOk'
<1>1. Whole(tile) /\ pass \in Nat /\ pass < NPass /\ NPass \in Nat
  BY EngineAssumption DEF TileOk, RaceInv, EngineType, Control, Passes
<1>2. CASE Reconfigure
  <2>1. tile' = FreshTile /\ pc' = "reset"
    BY <1>2 DEF Reconfigure
  <2>2. Whole(FreshTile)
    BY DEF Whole, FreshTile
  <2> QED
    BY <2>1, <2>2 DEF TileOk, Building
<1>3. ASSUME ~Reconfigure PROVE Whole(tile')
  <2>1. \/ tile' = tile
        \/ \E x : \/ tile' = [tile EXCEPT !.strip = x] \/ tile' = [tile EXCEPT !.wgt = x]
                  \/ tile' = [tile EXCEPT !.acc = x] \/ tile' = [tile EXCEPT !.table = x]
                  \/ tile' = [tile EXCEPT !.cfg = x]
    BY <1>3 DEF BlockCfg, Requant, SendStrip, SendWgt, RunPass, Transaction
  <2> QED
    BY <1>1, <2>1, TileFieldsAre
<1>4. CASE ~Reconfigure /\ pc' = "fail"
  <2>1. err'
    BY <1>4, StepControl DEF Control, Core0
  <2> QED
    BY <1>3, <1>4, <2>1 DEF TileOk, Building
<1>5. CASE BlockCfg /\ pc' # "fail"
  <2>1. /\ pc = "cfg" /\ pc' = (IF mode.plan[layer].rq THEN "rqp" ELSE "hit") /\ UNCHANGED <<mode, layer, b, pass, rqk>> /\ err' = err
        /\ ~lost' => ~lost /\ tile' = [tile EXCEPT !.cfg = BlockTag]
    <3>1. CASE mode.plan[layer].rq
      BY <1>5, <3>1, WentOn DEF BlockCfg, where
    <3>2. CASE ~mode.plan[layer].rq
      BY <1>5, <3>2, WentOn DEF BlockCfg, where
    <3> QED
      BY <3>1, <3>2
  <2>2. ~lost' => tile'.cfg = BlockTag /\ tile'.table = tile.table
    BY <1>1, <2>1, TileFieldsAre
  <2> QED
    BY <1>3, <2>1, <2>2 DEF TileOk, Building, BlockTag, Reconfigure
<1>6. CASE Requant /\ pc' # "fail"
  <2>1. pc = "rqp" /\ UNCHANGED <<mode, layer, b, pass>>
    BY <1>6 DEF Requant, where
  <2>2. CASE rqk = TableTag
    <3>1. pc' = "hit" /\ UNCHANGED <<rqk, tile, lost, err>>
      BY <1>6, <2>2 DEF Requant
    <3>2. ~err /\ rqk # None
      BY <2>1, <2>2 DEF Control, TableTag, None
    <3> QED
      BY <1>3, <2>1, <2>2, <3>1, <3>2 DEF TileOk, Building, BlockTag, TableTag, Reconfigure
  <2>3. CASE rqk # TableTag
    <3>1. Transaction("hit", [tile EXCEPT !.table = TableTag], [tile EXCEPT !.table = Wrong], FALSE)
          /\ rqk' = IF pc' = "hit" THEN TableTag ELSE None
      BY <1>6, <2>3 DEF Requant
    <3>2. /\ pc' = "hit" /\ rqk' = TableTag
          /\ ~lost' => ~lost /\ tile' = [tile EXCEPT !.table = TableTag]
      BY <1>6, <3>1, WentOn
    <3>3. ~lost' => tile'.table = TableTag /\ tile'.cfg = tile.cfg
      BY <1>1, <3>2, TileFieldsAre
    <3> QED
      BY <1>3, <2>1, <3>2, <3>3 DEF TileOk, Building, BlockTag, TableTag, Reconfigure
  <2> QED
    BY <2>2, <2>3
<1>7. CASE SendStrip /\ pc' # "fail"
  <2>1. /\ pc = "act" /\ pc' = "wait_w" /\ UNCHANGED <<mode, layer, b, pass, rqk>> /\ err' = err
        /\ ~lost' => ~lost /\ tile' = [tile EXCEPT !.strip = strip[Cur]]
    BY <1>7, WentOn DEF SendStrip, where
  <2>2. ~lost' => /\ tile'.strip = strip[Cur] /\ tile'.table = tile.table /\ tile'.cfg = tile.cfg
                  /\ tile'.acc = tile.acc
    BY <1>1, <2>1, TileFieldsAre
  <2>3. strip[Cur] = StripTag(pass)
    BY <2>1 DEF StripsOk
  <2> QED
    BY <1>3, <2>1, <2>2, <2>3 DEF TileOk, Building, BlockTag, TableTag, StripTag, Reconfigure
<1>8. CASE SendWgt /\ pc' # "fail"
  <2>1. /\ pc = "wgt" /\ pc' = "run" /\ UNCHANGED <<mode, layer, b, pass, rqk>> /\ err' = err
        /\ ~lost' => ~lost /\ tile' = [tile EXCEPT !.wgt = WgtAt(pass)]
    BY <1>8, WentOn DEF SendWgt, where
  <2>2. ~lost' => /\ tile'.wgt = WgtAt(pass) /\ tile'.table = tile.table /\ tile'.cfg = tile.cfg
                  /\ tile'.acc = tile.acc /\ tile'.strip = tile.strip
    BY <1>1, <2>1, TileFieldsAre
  <2>3. WgtAt(pass) = WgtTag(pass)
    BY <2>1 DEF WgtsOk
  <2> QED
    BY <1>3, <2>1, <2>2, <2>3 DEF TileOk, Building, BlockTag, TableTag, StripTag, WgtTag, Reconfigure
<1>9. CASE RunPass /\ pc' # "fail"
  <2>1. /\ pc = "run" /\ UNCHANGED <<mode, layer, b, rqk>> /\ err' = err
        /\ pc' = (IF More THEN "post_s" ELSE "drain")
        /\ pass' = IF pc' = "post_s" THEN pass + 1 ELSE pass
        /\ ~lost' => ~lost /\ tile' = [tile EXCEPT !.acc = Swept]
    <3>1. CASE More
      BY <1>9, <3>1, WentOn DEF RunPass
    <3>2. CASE ~More
      BY <1>9, <3>2, WentOn DEF RunPass
    <3> QED
      BY <3>1, <3>2
  <2>2. ASSUME ~lost' PROVE tile'.acc = Swept /\ tile'.table = tile.table /\ tile'.cfg = tile.cfg
    <3>1. PICK x : x = Swept
      OBVIOUS
    <3>2. PICK d : d = tile'
      OBVIOUS
    <3>3. d = [tile EXCEPT !.acc = x]
      BY <2>1, <2>2, <3>1, <3>2
    <3>4. d.acc = x /\ d.table = tile.table /\ d.cfg = tile.cfg
      BY <1>1, <3>3, TileFieldsAre
    <3> QED
      BY <3>1, <3>2, <3>4
  <2>3. ~lost => Swept = StripTag(pass + 1)
    BY <2>1 DEF Swept, TileOk, Building
  <2>4. ~More => pass + 1 = NPass
    BY <1>1 DEF More
  <2> QED
    BY <1>3, <2>1, <2>2, <2>3, <2>4 DEF TileOk, Building, BlockTag, TableTag, StripTag, Reconfigure
<1> QED
  BY <1>2, <1>4, <1>5, <1>6, <1>7, <1>8, <1>9

-----------------------------------------------------------------------------
\* What a job of the low queue will find in its half.
LEMMA LandsStill ==
  ASSUME NEW i, NEW tag, NEW m, Lands(i, tag, m), Ahead(i, m)' <=> Ahead(i, m), c1err => c1err',
         rxd'[i] = rxd[i], got'[i] = got[i]
  PROVE  Lands(i, tag, m)'
BY DEF Lands

LEMMA NoneAhead ==
  ASSUME RaceInv, ~mode.decode \/ pc = "scatter" \/ Retired(LO, "decode", gcur)
  PROVE  ~Ahead(gcur, Len(queue[LO]) + 1)
<1>1. SUFFICES ASSUME NEW k \in 1 .. Len(queue[LO]), queue[LO][k].kind = "decode", queue[LO][k].buf = gcur
               PROVE  FALSE
  <2>1. Len(queue[LO]) + 1 - 1 = Len(queue[LO])
    BY DEF RaceInv, EngineType, Queues
  <2> QED
    BY <1>1, <2>1 DEF Ahead
<1>2. JobOk(LO, queue[LO][k])
  BY DEF RaceInv, JobsOk, Queues
<1> QED
  BY <1>1, <1>2 DEF JobOk, DecodeOk, Retired, RaceInv, Where

LEMMA AheadPost ==
  ASSUME RaceInv, NEW q \in Queues, NEW j \in Job, JQ!Post(q, j), NEW i,
         NEW n \in 1 .. Len(queue[LO]) + 1
  PROVE  Ahead(i, n)' <=> Ahead(i, n)
<1>1. /\ Len(queue[LO]) \in Nat
      /\ \A k \in 1 .. Len(queue[LO]) : queue'[LO][k] = queue[LO][k]
  BY PostIs DEF RaceInv, Queues
<1>2. \A k \in 1 .. n - 1 : k \in 1 .. Len(queue[LO])
  BY <1>1
<1> QED
  BY <1>1, <1>2 DEF Ahead

LEMMA AheadRetire ==
  ASSUME RaceInv, NEW q \in Queues, JQ!Retire(q), NEW i, NEW n \in 1 .. Len(queue'[LO]) + 1
  PROVE  /\ q # LO => (Ahead(i, n)' <=> Ahead(i, n))
         /\ q = LO => /\ Ahead(i, n)' => Ahead(i, n + 1)
                      /\ Ahead(i, n + 1) => \/ Ahead(i, n)'
                                            \/ queue[LO][1].kind = "decode" /\ queue[LO][1].buf = i
<1>1. /\ Len(queue'[q]) = Len(queue[q]) - 1 /\ Len(queue[q]) \in Nat
      /\ \A k \in 1 .. Len(queue'[q]) : queue'[q][k] = queue[q][k + 1] /\ k + 1 \in 1 .. Len(queue[q])
      /\ \A p \in Queues : p # q => queue'[p] = queue[p]
  BY RetireIs DEF RaceInv
<1>2. CASE q # LO
  BY <1>1, <1>2 DEF Ahead, Queues
<1>3. CASE q = LO
  <2>1. ASSUME Ahead(i, n)' PROVE Ahead(i, n + 1)
    <3>1. PICK k \in 1 .. n - 1 : queue'[LO][k].kind = "decode" /\ queue'[LO][k].buf = i
      BY <2>1 DEF Ahead
    <3>2. k \in 1 .. Len(queue'[LO]) /\ k + 1 \in 1 .. n + 1 - 1
      BY <1>1, <1>3
    <3>3. queue'[LO][k] = queue[LO][k + 1]
      BY <1>1, <1>3, <3>2
    <3> QED
      BY <3>1, <3>2, <3>3 DEF Ahead
  <2>2. ASSUME Ahead(i, n + 1), ~(queue[LO][1].kind = "decode" /\ queue[LO][1].buf = i)
        PROVE  Ahead(i, n)'
    <3>1. PICK k \in 1 .. n + 1 - 1 : queue[LO][k].kind = "decode" /\ queue[LO][k].buf = i
      BY <2>2 DEF Ahead
    <3>2. k # 1
      BY <2>2, <3>1
    <3>3. k - 1 \in 1 .. n - 1 /\ k - 1 \in 1 .. Len(queue'[LO]) /\ k - 1 + 1 = k
      BY <1>1, <1>3, <3>1, <3>2
    <3>4. queue'[LO][k - 1] = queue[LO][k]
      BY <1>1, <1>3, <3>3
    <3> QED
      BY <3>1, <3>3, <3>4 DEF Ahead
  <2> QED
    BY <1>3, <2>1, <2>2
<1> QED
  BY <1>2, <1>3

LEMMA ScatterIs ==
  ASSUME EngineType
  PROVE  \E j \in Job : j = Scatter(gcur, b) /\ j.kind = "scatter" /\ j.buf = gcur /\ j.block = b
<1>1. PICK k \in Nat, i \in {0, 1} : k = b /\ i = gcur
  BY DEF EngineType
<1>2. PICK j \in Job : j = Scatter(i, k)
  BY DEF Scatter, Job
<1> QED
  BY <1>1, <1>2 DEF Scatter

\* What core 0 posts is a job.
LEMMA PostsAJob ==
  ASSUME RaceInv, PostStrip \/ PostWgt \/ PostDecode \/ PostScatter, ~UNCHANGED queue
  PROVE  \E q \in Queues : \E j \in Job :
           /\ JQ!Post(q, j)
           /\ PostStrip \/ PostWgt => j.kind \in {"strip", "wgt"}
           /\ PostDecode => mode.decode /\ q = LO /\ j = Decode(gcur) /\ j.kind = "decode" /\ j.buf = gcur
           /\ PostScatter => /\ q = LO /\ j = Scatter(gcur, b)
                             /\ j.kind = "scatter" /\ j.buf = gcur /\ j.block = b
<1>1. CASE PostStrip \/ PostWgt
  <2>1. PICK kind \in {"strip", "wgt"} : JQ!Post(build_q, Build(kind, pass + 1, Other(Cur)))
    BY <1>1 DEF PostStrip, PostWgt, worker
  <2>2. PICK p \in Nat : p = pass + 1
    BY DEF RaceInv, EngineType
  <2>3. pc \notin {"decode", "post_scat"}
    BY <1>1 DEF PostStrip, PostWgt
  <2> QED
    BY <2>1, <2>2, <2>3, BuildPosted DEF RaceInv, PostDecode, PostScatter
<1>2. CASE PostDecode
  <2>1. mode.decode /\ JQ!Post(LO, Decode(gcur)) /\ pc = "decode"
    BY <1>2 DEF PostDecode, worker
  <2>2. PICK i \in {0, 1} : i = gcur
    BY DEF RaceInv, EngineType
  <2>3. PICK j \in Job : j = Decode(i)
    BY DEF Decode, Job
  <2> QED
    BY <2>1, <2>2, <2>3 DEF Decode, Queues, PostStrip, PostWgt, PostScatter
<1>3. CASE PostScatter
  <2>1. JQ!Post(LO, Scatter(gcur, b)) /\ pc = "post_scat"
    BY <1>3 DEF PostScatter
  <2> QED
    BY <2>1, ScatterIs DEF RaceInv, Queues, PostStrip, PostWgt, PostDecode
<1> QED
  BY <1>1, <1>2, <1>3

\* A post leaves what is before the jobs that were there.
LEMMA PostScatters ==
  ASSUME RaceInv, HalvesOk, NEW q \in Queues, NEW j \in Job, JQ!Post(q, j),
         UNCHANGED <<rxd, got, c1err, layer>>,
         q = LO /\ j.kind = "scatter" =>
           j.block \in Blocks /\ Lands(j.buf, <<layer, j.block>>, Len(queue[LO]) + 1)
  PROVE  ScattersOk'
<1>1. /\ Len(queue[LO]) \in Nat
      /\ Len(queue'[LO]) = IF LO = q THEN Len(queue[LO]) + 1 ELSE Len(queue[LO])
      /\ \A k \in 1 .. Len(queue[LO]) : queue'[LO][k] = queue[LO][k]
      /\ queue'[q][Len(queue[q]) + 1] = j
  BY PostIs DEF RaceInv, Queues
<1>2. SUFFICES ASSUME NEW m \in 1 .. Len(queue'[LO]), queue'[LO][m].kind = "scatter"
               PROVE  /\ queue'[LO][m].block \in Blocks
                      /\ Lands(queue[LO][m].buf, <<layer, queue[LO][m].block>>, m)'
  BY DEF ScattersOk
<1>3. PICK i, blk, tag : i = queue'[LO][m].buf /\ blk = queue'[LO][m].block /\ tag = <<layer, blk>>
  OBVIOUS
<1>4. blk \in Blocks /\ Lands(i, tag, m) /\ m \in 1 .. Len(queue[LO]) + 1
  <2>1. CASE m \in 1 .. Len(queue[LO])
    <3>1. queue'[LO][m] = queue[LO][m]
      BY <1>1, <2>1
    <3> QED
      BY <1>1, <1>2, <1>3, <2>1, <3>1 DEF HalvesOk, ScattersOk
  <2>2. CASE m \notin 1 .. Len(queue[LO])
    <3>1. m = Len(queue[LO]) + 1 /\ q = LO
      BY <1>1, <2>2
    <3>2. queue'[LO][m] = j
      BY <1>1, <3>1
    <3> QED
      BY <1>1, <1>2, <1>3, <3>1, <3>2
  <2> QED
    BY <2>1, <2>2
<1>5. Ahead(i, m)' <=> Ahead(i, m)
  BY <1>4, AheadPost
<1>6. Lands(i, tag, m)'
  BY <1>4, <1>5, LandsStill
<1> QED
  BY <1>3, <1>4, <1>6

LEMMA SameScatters ==
  ASSUME ScattersOk, UNCHANGED <<queue, rxd, got, layer>>, c1err => c1err'
  PROVE  ScattersOk'
<1>1. \A i, m : Ahead(i, m)' <=> Ahead(i, m)
  BY DEF Ahead
<1> QED
  BY <1>1 DEF ScattersOk, Lands

LEMMA PostHalves ==
  ASSUME RaceInv, Control, HalvesOk, PostStrip \/ PostWgt \/ PostDecode \/ PostScatter
  PROVE  HalvesOk'
<1>1. UNCHANGED <<mode, layer, rxd, got, c1err>> /\ gcur \in {0, 1}
  BY DEF PostStrip, PostWgt, PostDecode, PostScatter, NextBlock, where, drains, RaceInv, EngineType
<1>2. UNCHANGED queue => ScattersOk'
  BY <1>1, SameScatters DEF HalvesOk
<1>3. CASE PostStrip \/ PostWgt
  <2>1. ASSUME ~UNCHANGED queue PROVE ScattersOk'
    <3>1. PICK q \in Queues, j \in Job : JQ!Post(q, j) /\ j.kind \in {"strip", "wgt"}
      BY <1>3, <2>1, PostsAJob
    <3> QED
      BY <1>1, <3>1, PostScatters
  <2> QED
    BY <1>1, <1>2, <1>3, <2>1 DEF PostStrip, PostWgt, HalvesOk
<1>4. CASE PostDecode
  <2>1. gcur' = gcur /\ BlockTag' = BlockTag /\ pc' \in {"post_scat", "wait_dec"} /\ Captured
    BY <1>4 DEF PostDecode, where, BlockTag, HalvesOk
  <2>2. CASE mode.decode
    <3>1. PICK j \in Job : j = Decode(gcur) /\ JQ!Post(LO, j) /\ j.kind = "decode" /\ j.buf = gcur
      BY <1>1, <1>4, <2>2 DEF PostDecode, Decode, Job
    <3>2. ScattersOk'
      BY <1>1, <3>1, PostScatters DEF Queues
    <3>3. /\ Len(queue[LO]) \in Nat /\ Len(queue'[LO]) = Len(queue[LO]) + 1
          /\ queue'[LO][Len(queue[LO]) + 1] = j
      BY <3>1, PostIs DEF RaceInv, Queues
    <3>4. Len(queue[LO]) + 1 \in 1 .. Len(queue'[LO]) + 1 - 1
      BY <3>3
    <3>5. Ahead(gcur, Len(queue[LO]) + 1)'
      BY <2>1, <3>1, <3>3, <3>4 DEF Ahead
    <3>6. Lands(gcur, BlockTag, Len(queue[LO]) + 1)'
      BY <1>1, <2>1, <2>2, <3>5 DEF Lands, Captured
    <3> QED
      BY <1>1, <2>1, <3>2, <3>6 DEF HalvesOk
  <2>3. CASE ~mode.decode
    <3>1. UNCHANGED queue
      BY <1>4, <2>3 DEF PostDecode, worker
    <3>2. ~Ahead(gcur, Len(queue[LO]) + 1)
      BY <2>3, NoneAhead
    <3>3. Lands(gcur, BlockTag, Len(queue[LO]) + 1)'
      BY <1>1, <2>1, <2>3, <3>1, <3>2 DEF Lands, Captured, Ahead
    <3> QED
      BY <1>1, <1>2, <2>1, <3>1, <3>3 DEF HalvesOk
  <2> QED
    BY <2>2, <2>3
<1>5. CASE PostScatter
  <2>1. pc' \in {"reuse", "barrier"} /\ pc = "post_scat" /\ JQ!Post(LO, Scatter(gcur, b))
    BY <1>5 DEF PostScatter, NextBlock
  <2>2. PICK j \in Job : j = Scatter(gcur, b) /\ j.kind = "scatter" /\ j.buf = gcur /\ j.block = b
    BY ScatterIs DEF RaceInv
  <2>3. j.block \in Blocks /\ Lands(j.buf, <<layer, j.block>>, Len(queue[LO]) + 1)
    BY <2>1, <2>2 DEF Control, HalvesOk, BlockTag
  <2>4. ScattersOk'
    BY <1>1, <2>1, <2>2, <2>3, PostScatters DEF Queues
  <2> QED
    BY <1>1, <2>1, <2>4 DEF HalvesOk
<1> QED
  BY <1>3, <1>4, <1>5

\* A job of core 1 leaves each that stays what it will find.
LEMMA RetireHalves ==
  ASSUME RaceInv, HalvesOk, BuildStripCb \/ BuildWgtCb \/ DecodeCb \/ ScatterCb
  PROVE  HalvesOk'
<1>1. /\ UNCHANGED <<pc, mode, layer, b, rxd, lost, gcur>> /\ gcur \in {0, 1} /\ (c1err => c1err')
      /\ BlockTag' = BlockTag
  <2>1. UNCHANGED <<pc, mode, layer, b, lost, gcur>> /\ gcur \in {0, 1}
    BY DEF BuildStripCb, BuildWgtCb, DecodeCb, ScatterCb, where, RaceInv, EngineType
  <2>2. rxd' = rxd
    BY DEF BuildStripCb, BuildWgtCb, DecodeCb, ScatterCb, drains
  <2>3. c1err => c1err'
    BY Zenon DEF BuildStripCb, BuildWgtCb, DecodeCb, ScatterCb
  <2> QED
    BY <2>1, <2>2, <2>3 DEF BlockTag
<1>2. PICK q \in Queues, j \in Job :
         /\ JQ!Retire(q) /\ j = queue[q][1] /\ j = TheJob /\ JobOk(q, j) /\ Len(queue[q]) > 0
         /\ BuildStripCb => j.kind = "strip"
         /\ BuildWgtCb => j.kind = "wgt"
         /\ DecodeCb => j.kind = "decode"
         /\ ScatterCb => j.kind = "scatter"
  BY RetiresIs
<1>3. /\ ~DecodeCb => got' = got /\ j.kind # "decode"
      /\ DecodeCb => /\ q = LO /\ j.buf \in {0, 1}
                     /\ got' = [got EXCEPT ![j.buf] = IF rxd[j.buf] = Fails THEN Wrong ELSE rxd[j.buf]]
                     /\ c1err' = (c1err \/ rxd[j.buf] = Fails)
  BY <1>2 DEF BuildStripCb, BuildWgtCb, DecodeCb, ScatterCb, drains, JobOk, DecodeOk, Job
<1>4. got' = [i \in {0, 1} |-> got'[i]]
  BY <1>3 DEF HalvesOk
<1>5. /\ Len(queue'[q]) = Len(queue[q]) - 1 /\ Len(queue[q]) \in Nat
      /\ \A k \in 1 .. Len(queue'[q]) : queue'[q][k] = queue[q][k + 1] /\ k + 1 \in 1 .. Len(queue[q])
      /\ \A p \in Queues : p # q => queue'[p] = queue[p]
  BY <1>2, RetireIs DEF RaceInv
<1>6. ASSUME NEW i \in {0, 1}, NEW tag, NEW n \in 1 .. Len(queue'[LO]) + 1,
             Lands(i, tag, IF q = LO THEN n + 1 ELSE n)
      PROVE  Lands(i, tag, n)'
  <2>1. CASE DecodeCb /\ j.buf = i
    <3>1. Ahead(i, n + 1)
      <4>1. 1 \in 1 .. n + 1 - 1
        BY <1>5 DEF Queues, RaceInv, EngineType
      <4>2. queue[LO][1] = j /\ j.kind = "decode"
        BY <1>2, <1>3, <2>1
      <4> QED
        BY <2>1, <4>1, <4>2 DEF Ahead
    <3>2. c1err \/ rxd[i] \in {tag, Fails}
      BY <1>3, <1>6, <2>1, <3>1 DEF Lands
    <3>3. got'[i] = IF rxd[i] = Fails THEN Wrong ELSE rxd[i]
      BY <1>3, <2>1 DEF HalvesOk
    <3> QED
      BY <1>1, <1>3, <2>1, <3>2, <3>3 DEF Lands
  <2>2. CASE ~(DecodeCb /\ j.buf = i)
    <3>1. got'[i] = got[i]
      BY <1>3, <2>2 DEF HalvesOk
    <3>2. PICK m : m = (IF q = LO THEN n + 1 ELSE n) /\ Lands(i, tag, m)
      BY <1>6
    <3>3. Ahead(i, n)' <=> Ahead(i, m)
      <4>1. ~(j.kind = "decode" /\ j.buf = i)
        BY <1>3, <2>2
      <4> QED
        BY <1>2, <3>2, <4>1, AheadRetire
    <3> QED
      BY <1>1, <3>1, <3>2, <3>3 DEF Lands
  <2> QED
    BY <2>1, <2>2
<1>7. ScattersOk'
  <2>1. SUFFICES ASSUME NEW n \in 1 .. Len(queue'[LO]), queue'[LO][n].kind = "scatter"
                 PROVE  /\ queue'[LO][n].block \in Blocks
                        /\ Lands(queue[LO][n].buf, <<layer, queue[LO][n].block>>, n)'
    BY DEF ScattersOk
  <2>2. PICK m : m = (IF q = LO THEN n + 1 ELSE n)
    OBVIOUS
  <2>3. queue'[LO][n] = queue[LO][m] /\ m \in 1 .. Len(queue[LO])
    BY <1>5, <2>2 DEF Queues
  <2>4. PICK i, blk, tag : i = queue'[LO][n].buf /\ blk = queue'[LO][n].block /\ tag = <<layer, blk>>
    OBVIOUS
  <2>5. blk \in Blocks /\ Lands(i, tag, m) /\ i \in {0, 1}
    BY <2>1, <2>3, <2>4, JobIn DEF HalvesOk, ScattersOk, RaceInv, Queues, Job
  <2>6. Lands(i, tag, n)'
    BY <1>5, <1>6, <2>2, <2>5
  <2> QED
    BY <1>1, <2>4, <2>5, <2>6
<1>8. ASSUME pc \in {"post_scat", "wait_dec"} PROVE Lands(gcur, BlockTag, Len(queue[LO]) + 1)'
  <2>1. PICK i, tag, n : i = gcur /\ tag = BlockTag /\ n = Len(queue'[LO]) + 1
    OBVIOUS
  <2>2. (IF q = LO THEN n + 1 ELSE n) = Len(queue[LO]) + 1 /\ n \in 1 .. Len(queue'[LO]) + 1
    BY <1>5, <2>1 DEF Queues, RaceInv, EngineType
  <2>3. Lands(i, tag, Len(queue[LO]) + 1)
    BY <1>8, <2>1 DEF HalvesOk
  <2>4. Lands(i, tag, n)'
    BY <1>1, <1>6, <2>1, <2>2, <2>3
  <2> QED
    BY <1>1, <2>1, <2>4
<1>9. pc = "scatter" => c1err' \/ got'[gcur] = BlockTag
  BY <1>1, <1>2, <1>3 DEF HalvesOk, JobOk, DecodeOk, RaceInv, Where
<1>10. pc \in {"nop2", "decode"} /\ Captured => Captured'
  <2>1. DecodeCb => mode.decode
    BY <1>2, <1>3 DEF JobOk, DecodeOk
  <2> QED
    BY <1>1, <1>3, <2>1 DEF Captured
<1> QED
  BY <1>1, <1>4, <1>7, <1>8, <1>9, <1>10 DEF HalvesOk

\* The response that is captured, or the accumulators read, are the block's.
LEMMA DrainHalves ==
  ASSUME RaceInv, Control, TileOk, HalvesOk, DrainTile
  PROVE  HalvesOk'
<1>1. /\ UNCHANGED <<mode, queue, layer, b, gcur, c1err>> /\ gcur \in {0, 1}
      /\ pc = "drain" /\ pc' \in {"nop2", "fail"}
  BY DEF DrainTile, Transaction, Fail, worker, where, RaceInv, EngineType
<1>2. /\ rxd' = rxd \/ \E x : rxd' = [rxd EXCEPT ![gcur] = x]
      /\ got' = got \/ \E x : got' = [got EXCEPT ![gcur] = x]
  BY DEF DrainTile
<1>3. /\ rxd' = [i \in {0, 1} |-> rxd'[i]] /\ got' = [i \in {0, 1} |-> got'[i]]
      /\ \A i \in {0, 1} : i # gcur => rxd'[i] = rxd[i] /\ got'[i] = got[i]
  BY <1>2 DEF HalvesOk
<1>4. ScattersOk'
  <2>1. SUFFICES ASSUME NEW m \in 1 .. Len(queue[LO]), queue[LO][m].kind = "scatter"
                 PROVE  /\ queue[LO][m].block \in Blocks
                        /\ Lands(queue[LO][m].buf, <<layer, queue[LO][m].block>>, m)'
    BY <1>1 DEF ScattersOk
  <2>2. PICK i, blk, tag : i = queue[LO][m].buf /\ blk = queue[LO][m].block /\ tag = <<layer, blk>>
    OBVIOUS
  <2>3. blk \in Blocks /\ Lands(i, tag, m)
    BY <2>1, <2>2 DEF HalvesOk, ScattersOk
  <2>4. i \in {0, 1} /\ i # gcur
    BY <1>1, <2>1, <2>2, JobIn, HalfIsFree DEF RaceInv, Queues, Job, Using
  <2>5. Ahead(i, m)' <=> Ahead(i, m)
    BY <1>1 DEF Ahead
  <2>6. Lands(i, tag, m)'
    BY <1>1, <1>3, <2>3, <2>4, <2>5, LandsStill
  <2> QED
    BY <1>1, <2>2, <2>3, <2>6
<1>5. ~lost => Sent = BlockTag
  BY <1>1 DEF TileOk, Sent
<1>6. ASSUME pc' = "nop2", ~lost' PROVE Captured'
  <2>1. CASE mode.decode
    <3>1. rxd'[gcur] \in {Sent, Fails} /\ (rxd'[gcur] # Fails => ~lost)
      BY <1>1, <1>6, <2>1 DEF DrainTile, HalvesOk, Fail
    <3> QED
      BY <1>1, <1>5, <2>1, <3>1 DEF Captured, BlockTag
  <2>2. CASE ~mode.decode
    <3>1. ~lost
      BY <1>6, <2>2, WentOn DEF DrainTile
    <3>2. got'[gcur] = Sent
      BY <1>1, <1>6, <2>2 DEF DrainTile, HalvesOk
    <3> QED
      BY <1>1, <1>5, <2>2, <3>1, <3>2 DEF Captured, BlockTag
  <2> QED
    BY <2>1, <2>2
<1> QED
  BY <1>1, <1>3, <1>4, <1>6 DEF HalvesOk

LEMMA AloneHalves ==
  ASSUME RaceInv, Tickets, Control, TileOk, HalvesOk, Alone
  PROVE  HalvesOk'
<1>1. UNCHANGED <<mode, queue>>
  BY AloneIs
<1>2. CASE FrameReset \/ Reconfigure \/ StartLayer \/ LayerBarrier \/ AfterLayer
  <2>1. /\ UNCHANGED <<rxd, got>> /\ pc' \in {"layer", "reset", "reuse", "layer_done"}
        /\ pc \in {"reset", "layer", "layer_done"} \/ Drained
    BY <1>2 DEF FrameReset, Reconfigure, StartLayer, LayerBarrier, AfterLayer, drains
  <2>2. queue[LO] = <<>>
    BY <2>1 DEF RaceInv, Where, Drained, Queues
  <2>3. Len(queue'[LO]) = 0
    BY <1>1, <2>2
  <2>4. ScattersOk'
    BY <2>3 DEF ScattersOk
  <2> QED
    BY <2>1, <2>4 DEF HalvesOk
<1>3. CASE ~(FrameReset \/ Reconfigure \/ StartLayer \/ LayerBarrier \/ AfterLayer \/ DrainTile)
  <2>1. UNCHANGED <<rxd, got, layer, c1err>>
    BY <1>3 DEF Alone, ReuseGuard, GeomFault, BlockNop, BlockCfg, Requant, WeightsHit, BuildFirst, WaitStrip,
       SendStrip, WaitWgt, SendWgt, RunPass, BlockStatus, WaitDecode, ScatterHere, FailDrain, NextBlock,
       drains, where
  <2>2. ScattersOk'
    BY <1>1, <2>1, SameScatters DEF HalvesOk
  <2>3. CASE BlockStatus
    <3>1. UNCHANGED <<layer, b, gcur>> /\ pc = "nop2" /\ pc' \in {"decode", "fail"}
      BY <2>3 DEF BlockStatus, Transaction, Fail, where
    <3>2. pc' = "decode" => ~lost
      BY <2>3, WentOn DEF BlockStatus
    <3> QED
      BY <1>1, <2>1, <2>2, <3>1, <3>2 DEF HalvesOk, Captured, BlockTag
  <2>4. CASE WaitDecode
    <3>1. /\ UNCHANGED <<layer, b, gcur>> /\ pc = "wait_dec" /\ pc' = "scatter"
          /\ ~mode.decode \/ Retired(LO, "decode", gcur)
      BY <2>4, WaitsAreFor DEF WaitDecode, where
    <3>2. c1err \/ got[gcur] = BlockTag
      BY <3>1, NoneAhead DEF HalvesOk, Lands
    <3> QED
      BY <1>1, <2>1, <2>2, <3>1, <3>2 DEF HalvesOk, BlockTag
  <2>5. CASE ~(BlockStatus \/ WaitDecode)
    <3>1. pc' \notin {"nop2", "decode", "post_scat", "wait_dec", "scatter"}
      BY <1>3, <2>5 DEF Alone, ReuseGuard, GeomFault, BlockNop, BlockCfg, Requant, WeightsHit, BuildFirst,
         WaitStrip, SendStrip, WaitWgt, SendWgt, RunPass, ScatterHere, FailDrain, NextBlock, Transaction, Fail
    <3> QED
      BY <2>1, <2>2, <3>1 DEF HalvesOk
  <2> QED
    BY <2>3, <2>4, <2>5
<1> QED
  BY <1>2, <1>3, DrainHalves

-----------------------------------------------------------------------------
\* A scatter that is posted, until it is retired.
LEMMA ScatteringPost ==
  ASSUME RaceInv, NEW q \in Queues, NEW j \in Job, JQ!Post(q, j), NEW k,
         Scattering(k) \/ (q = LO /\ j.kind = "scatter" /\ j.block = k)
  PROVE  Scattering(k)'
<1>1. /\ Len(queue[LO]) \in Nat
      /\ Len(queue'[LO]) = IF LO = q THEN Len(queue[LO]) + 1 ELSE Len(queue[LO])
      /\ \A m \in 1 .. Len(queue[LO]) : queue'[LO][m] = queue[LO][m]
      /\ queue'[q][Len(queue[q]) + 1] = j
  BY PostIs DEF RaceInv, Queues
<1>2. CASE Scattering(k)
  <2>1. PICK m \in 1 .. Len(queue[LO]) : queue[LO][m].kind = "scatter" /\ queue[LO][m].block = k
    BY <1>2 DEF Scattering
  <2>2. m \in 1 .. Len(queue'[LO]) /\ queue'[LO][m] = queue[LO][m]
    BY <1>1
  <2> QED
    BY <2>1, <2>2 DEF Scattering
<1>3. CASE q = LO /\ j.kind = "scatter" /\ j.block = k
  <2>1. Len(queue[LO]) + 1 \in 1 .. Len(queue'[LO])
    BY <1>1, <1>3
  <2> QED
    BY <1>1, <1>3, <2>1 DEF Scattering
<1> QED
  BY <1>2, <1>3

LEMMA ScatteringRetire ==
  ASSUME RaceInv, NEW q \in Queues, JQ!Retire(q), NEW k, Scattering(k),
         ~(q = LO /\ queue[q][1].kind = "scatter" /\ queue[q][1].block = k)
  PROVE  Scattering(k)'
<1>1. /\ Len(queue'[q]) = Len(queue[q]) - 1 /\ Len(queue[q]) \in Nat
      /\ \A m \in 1 .. Len(queue'[q]) : queue'[q][m] = queue[q][m + 1] /\ m + 1 \in 1 .. Len(queue[q])
      /\ \A p \in Queues : p # q => queue'[p] = queue[p]
  BY RetireIs DEF RaceInv
<1>2. PICK m \in 1 .. Len(queue[LO]) : queue[LO][m].kind = "scatter" /\ queue[LO][m].block = k
  BY DEF Scattering
<1>3. CASE q = LO
  <2>1. m # 1
    BY <1>2, <1>3
  <2>2. m - 1 \in 1 .. Len(queue'[LO]) /\ m - 1 + 1 = m
    BY <1>1, <1>3, <2>1
  <2>3. queue'[LO][m - 1] = queue[LO][m]
    BY <1>1, <1>3, <2>2
  <2> QED
    BY <1>2, <2>2, <2>3 DEF Scattering
<1>4. CASE q # LO
  BY <1>1, <1>2, <1>4 DEF Scattering, Queues
<1> QED
  BY <1>3, <1>4

LEMMA WrittenStill ==
  ASSUME NEW k, Written(k), c1err => c1err', tensor'[k] = tensor[k], layer' = layer,
         Scattering(k) => Scattering(k)'
  PROVE  Written(k)'
BY DEF Written

LEMMA PostTensor ==
  ASSUME RaceInv, Control, TensorOk, PostStrip \/ PostWgt \/ PostDecode \/ PostScatter
  PROVE  TensorOk'
<1>1. /\ UNCHANGED <<tensor, layer, err, c1err>> /\ ~err
      /\ pc \in {"post_s", "post_w", "decode", "post_scat"} /\ pc' # "layer_done" /\ b \in Nat
  BY DEF PostStrip, PostWgt, PostDecode, PostScatter, NextBlock, where, Control, RaceInv, EngineType
<1>2. ASSUME NEW k, Scattering(k) PROVE Scattering(k)'
  <2>1. CASE UNCHANGED queue
    BY <1>2, <2>1 DEF Scattering
  <2>2. CASE ~UNCHANGED queue
    <3>1. PICK q \in Queues, j \in Job : JQ!Post(q, j)
      BY <2>2, PostsAJob
    <3> QED
      BY <1>2, <3>1, ScatteringPost
  <2> QED
    BY <2>1, <2>2
<1>3. \A k \in Blocks : Written(k) => Written(k)'
  BY <1>1, <1>2, WrittenStill
<1>4. CASE ~PostScatter
  <2>1. b' = b /\ pc' # "barrier"
    BY <1>4 DEF PostStrip, PostWgt, PostDecode, where
  <2> QED
    BY <1>1, <1>3, <2>1 DEF TensorOk, OutputsRight
<1>5. CASE PostScatter
  <2>1. PICK k : k = b
    OBVIOUS
  <2>2. PICK j \in Job : j = Scatter(gcur, k) /\ j.kind = "scatter" /\ j.block = k
    BY <2>1, ScatterIs DEF RaceInv
  <2>3. JQ!Post(LO, j)
    BY <1>5, <2>1, <2>2 DEF PostScatter
  <2>4. Written(k)'
    BY <2>2, <2>3, ScatteringPost DEF Written, Queues
  <2>5. /\ pc' = "barrier" => b + 1 >= NBlocks
        /\ b' \in {b, b + 1}
        /\ pc' # "barrier" => b' = b + 1
    BY <1>1, <1>5, Constants DEF PostScatter, NextBlock
  <2>6. ASSUME NEW n \in Blocks, n < b' \/ pc' = "barrier" PROVE Written(n)'
    <3>1. n \in Nat /\ n <= b
      BY <1>1, <2>5, <2>6, Constants DEF Blocks
    <3>2. CASE n = b
      BY <2>1, <2>4, <3>2
    <3>3. CASE n < b
      BY <1>1, <1>3, <2>6, <3>3 DEF TensorOk
    <3> QED
      BY <1>1, <3>1, <3>2, <3>3
  <2> QED
    BY <1>1, <2>6 DEF TensorOk, OutputsRight
<1> QED
  BY <1>4, <1>5

\* The layer's barrier: nothing is left to scatter, and core 1's error is read.
LEMMA AloneTensor ==
  ASSUME RaceInv, Control, HalvesOk, TensorOk, Alone
  PROVE  TensorOk'
<1>1. UNCHANGED queue
  BY AloneIs
<1>2. CASE FrameReset \/ Reconfigure \/ AfterLayer
  <2>1. tensor' = tensor /\ pc' \in {"layer", "reset"}
    BY <1>2 DEF FrameReset, Reconfigure, AfterLayer
  <2> QED
    BY <2>1 DEF TensorOk, OutputsRight
<1>3. CASE StartLayer
  <2>1. tensor' = [k \in Blocks |-> None] /\ pc' = "reuse" /\ b' = 0
    BY <1>3 DEF StartLayer
  <2>2. \A k \in Blocks : ~(k < 0)
    BY Constants DEF Blocks
  <2> QED
    BY <2>1, <2>2 DEF TensorOk, OutputsRight
<1>4. CASE LayerBarrier
  <2>1. /\ pc = "barrier" /\ pc' = "layer_done" /\ UNCHANGED <<tensor, layer>> /\ Drained
        /\ ~err' => ~err /\ ~c1err
    BY <1>4 DEF LayerBarrier, where
  <2>2. ASSUME NEW k PROVE ~Scattering(k)
    <3>1. Len(queue[LO]) = 0
      BY <2>1 DEF Drained, Queues
    <3> QED
      BY <3>1 DEF Scattering
  <2>3. ~err' => \A k \in Blocks : tensor'[k] = <<layer', k>>
    BY <2>1, <2>2 DEF TensorOk, Written
  <2> QED
    BY <2>1, <2>3 DEF TensorOk, OutputsRight
<1>5. CASE FailDrain
  <2>1. tensor' = tensor /\ pc' = "barrier" /\ err'
    BY <1>5 DEF FailDrain, Control
  <2> QED
    BY <2>1 DEF TensorOk, OutputsRight
<1>6. CASE ScatterHere
  <2>1. /\ pc = "scatter" /\ UNCHANGED <<layer, c1err, err>> /\ ~err /\ b \in Nat
        /\ pc' = "barrier" => b + 1 >= NBlocks
        /\ pc' # "barrier" => b' = b + 1
        /\ pc' # "layer_done"
    BY <1>6, Constants DEF ScatterHere, NextBlock, Control, RaceInv, EngineType
  <2>2. tensor' = [tensor EXCEPT ![b] = IF got[gcur] = <<layer, b>> THEN <<layer, b>> ELSE Wrong]
    BY <1>6 DEF ScatterHere, Scattered
  <2>3. /\ tensor' = [k \in Blocks |-> tensor'[k]]
        /\ tensor'[b] = IF got[gcur] = <<layer, b>> THEN <<layer, b>> ELSE Wrong
        /\ \A k \in Blocks : k # b => tensor'[k] = tensor[k]
    BY <2>2 DEF TensorOk, Control
  <2>4. c1err \/ got[gcur] = <<layer, b>>
    BY <2>1 DEF HalvesOk, BlockTag
  <2>5. \A k \in Blocks : k # b /\ Written(k) => Written(k)'
    BY <1>1, <2>1, <2>3 DEF Written, Scattering
  <2>6. ASSUME NEW n \in Blocks, n < b' \/ pc' = "barrier" PROVE Written(n)'
    <3>1. n \in Nat /\ n <= b
      BY <2>1, <2>6, Constants DEF Blocks
    <3>2. CASE n = b
      BY <2>1, <2>3, <2>4, <3>2 DEF Written
    <3>3. CASE n < b
      BY <2>1, <2>5, <2>6, <3>3 DEF TensorOk
    <3> QED
      BY <2>1, <3>1, <3>2, <3>3
  <2> QED
    BY <2>1, <2>3, <2>6 DEF TensorOk, OutputsRight
<1>7. CASE ~(FrameReset \/ Reconfigure \/ AfterLayer \/ StartLayer \/ LayerBarrier \/ FailDrain \/ ScatterHere)
  <2>1. /\ UNCHANGED <<tensor, layer, b, c1err>>
        /\ pc \notin {"reset", "layer", "layer_done"} /\ pc' \notin {"barrier", "layer_done"}
    BY <1>7 DEF Alone, ReuseGuard, GeomFault, BlockNop, BlockCfg, Requant, WeightsHit, BuildFirst, WaitStrip,
       SendStrip, WaitWgt, SendWgt, RunPass, DrainTile, BlockStatus, WaitDecode, Transaction, Fail, where
  <2>2. err => err'
    BY <1>7 DEF Alone, ReuseGuard, GeomFault, BlockNop, BlockCfg, Requant, WeightsHit, BuildFirst, WaitStrip,
       SendStrip, WaitWgt, SendWgt, RunPass, DrainTile, BlockStatus, WaitDecode, Transaction, Fail, where
  <2>3. \A k \in Blocks : Written(k) => Written(k)'
    BY <1>1, <2>1 DEF Written, Scattering
  <2> QED
    BY <2>1, <2>2, <2>3 DEF TensorOk, OutputsRight
<1> QED
  BY <1>2, <1>3, <1>4, <1>5, <1>6, <1>7 DEF Alone

\* A scatter finds its half to be the block's, or an error is known.
LEMMA Core1Tensor ==
  ASSUME RaceInv, Control, HalvesOk, TensorOk, Core1
  PROVE  TensorOk'
<1>1. UNCHANGED <<pc, layer, b, err>>
  BY DEF Core1, Begin, BuildStripCb, BuildWgtCb, DecodeCb, ScatterCb, where
<1>2. c1err => c1err'
  BY Zenon DEF Core1, Begin, BuildStripCb, BuildWgtCb, DecodeCb, ScatterCb
<1>3. CASE Begin
  <2>1. UNCHANGED <<tensor, queue>>
    BY <1>3 DEF Begin, JQ!Begin
  <2>2. \A k \in Blocks : Written(k) => Written(k)'
    BY <1>1, <1>2, <2>1 DEF Written, Scattering
  <2> QED
    BY <1>1, <1>3, <2>1, <2>2 DEF TensorOk, OutputsRight
<1>4. CASE ~Begin
  <2>1. PICK q \in Queues, j \in Job :
           /\ JQ!Retire(q) /\ j = queue[q][1] /\ j = TheJob /\ JobOk(q, j) /\ Len(queue[q]) > 0
           /\ BuildStripCb => j.kind = "strip"
           /\ BuildWgtCb => j.kind = "wgt"
           /\ DecodeCb => j.kind = "decode"
           /\ ScatterCb => j.kind = "scatter"
    BY <1>4, RetiresIs DEF Core1
  <2>2. pc # "layer_done"
    <3>1. queue[q] # <<>>
      BY <2>1 DEF JQ!Retire
    <3> QED
      BY <3>1 DEF RaceInv, Where, Drained
  <2>3. CASE ~ScatterCb
    <3>1. tensor' = tensor /\ j.kind # "scatter"
      BY <1>4, <2>1, <2>3 DEF Core1, BuildStripCb, BuildWgtCb, DecodeCb
    <3>2. \A k \in Blocks : Scattering(k) => Scattering(k)'
      BY <2>1, <3>1, ScatteringRetire
    <3>3. \A k \in Blocks : Written(k) => Written(k)'
      BY <1>1, <1>2, <3>1, <3>2, WrittenStill
    <3> QED
      BY <1>1, <2>2, <3>1, <3>3 DEF TensorOk, OutputsRight
  <2>4. CASE ScatterCb
    <3>1. /\ j.kind = "scatter" /\ q = LO
          /\ tensor' = [tensor EXCEPT ![j.block] = IF got[j.buf] = <<layer, j.block>> THEN <<layer, j.block>>
                                                   ELSE Wrong]
      BY <2>1, <2>4 DEF ScatterCb, Scattered, JobOk, ScatterOk
    <3>2. 1 \in 1 .. Len(queue[LO]) /\ queue[LO][1] = j
      <4>1. Len(queue[LO]) \in Nat
        BY DEF RaceInv, EngineType, Queues
      <4>2. Len(queue[LO]) > 0 /\ queue[LO][1] = j
        BY <2>1, <3>1
      <4> QED
        BY <4>1, <4>2
    <3>3. j.block \in Blocks /\ Lands(j.buf, <<layer, j.block>>, 1)
      BY <3>1, <3>2 DEF HalvesOk, ScattersOk
    <3>4. c1err \/ got[j.buf] = <<layer, j.block>>
      BY <3>3 DEF Lands, Ahead
    <3>5. /\ tensor' = [k \in Blocks |-> tensor'[k]]
          /\ c1err \/ tensor'[j.block] = <<layer, j.block>>
          /\ \A k \in Blocks : k # j.block => tensor'[k] = tensor[k]
      BY <3>1, <3>3, <3>4 DEF TensorOk
    <3>6. ASSUME NEW k \in Blocks, Written(k) PROVE Written(k)'
      <4>1. CASE k = j.block
        BY <1>1, <1>2, <3>5, <4>1 DEF Written
      <4>2. CASE k # j.block
        <5>1. Scattering(k) => Scattering(k)'
          BY <2>1, <4>2, ScatteringRetire
        <5> QED
          BY <1>1, <1>2, <3>5, <3>6, <4>2, <5>1, WrittenStill
      <4> QED
        BY <4>1, <4>2
    <3> QED
      BY <1>1, <2>2, <3>5, <3>6 DEF TensorOk, OutputsRight
  <2> QED
    BY <2>3, <2>4
<1> QED
  BY <1>3, <1>4

-----------------------------------------------------------------------------
LEMMA InitDataInv == Init => DataInv
<1>1. SUFFICES ASSUME Init PROVE DataInv
  OBVIOUS
<1>2. Control
  BY <1>1, EngineAssumption DEF Init, Control, Blocks, Passes
<1>3. StripsOk
  BY <1>1 DEF Init, StripsOk, Building
<1>4. WgtsOk
  BY <1>1 DEF Init, WgtsOk, Building
<1>5. TileOk
  BY <1>1 DEF Init, TileOk, Building, Whole, FreshTile
<1>6. HalvesOk
  BY <1>1 DEF Init, HalvesOk, ScattersOk, JQ!AbsInit, Queues
<1>7. TensorOk
  BY <1>1 DEF Init, TensorOk, OutputsRight
<1> QED
  BY <1>2, <1>3, <1>4, <1>5, <1>6, <1>7 DEF DataInv

LEMMA StepDataInv == RaceInv /\ Tickets /\ DataInv /\ [Next]_vars => DataInv'
<1>1. SUFFICES ASSUME RaceInv, Tickets, DataInv, [Next]_vars PROVE DataInv'
  OBVIOUS
<1>2. CASE UNCHANGED vars
  <2>1. Control' /\ StripsOk'
    BY <1>1, <1>2 DEF vars, worker, where, built, DataInv, Control, StripsOk, StripReady, StripTag, Posted, build_q, Cur, More
  <2>2. WgtsOk'
    BY <1>1, <1>2 DEF vars, DataInv, WgtsOk, WgtReady, WgtAt, WgtTag, TableTag, Posted, build_q, More
  <2>3. TileOk'
    BY <1>1, <1>2 DEF vars, DataInv, TileOk, BlockTag, TableTag, StripTag, WgtTag
  <2>4. HalvesOk'
    BY <1>1, <1>2 DEF vars, DataInv, HalvesOk, ScattersOk, Lands, Ahead, Captured, BlockTag
  <2>5. TensorOk'
    BY <1>1, <1>2 DEF vars, DataInv, TensorOk, Written, Scattering, OutputsRight
  <2> QED
    BY <2>1, <2>2, <2>3, <2>4, <2>5 DEF DataInv
<1>3. CASE Core0 \/ Core1
  <2>1. Control'
    BY <1>1, <1>3, StepControl DEF DataInv
  <2>2. TileOk'
    BY <1>1, <1>3, SameTile, LoadTile DEF DataInv
  <2>3. CASE Core1
    <3>1. StripsOk' /\ WgtsOk' /\ TensorOk'
      BY <1>1, <2>3, Core1Strips, Core1Wgts, Core1Tensor DEF DataInv
    <3>2. HalvesOk'
      <4>1. CASE Begin
        <5>1. UNCHANGED <<pc, mode, layer, b, rxd, got, lost, gcur, c1err, queue>>
          BY <4>1 DEF Begin, JQ!Begin, where, drains
        <5> QED
          BY <1>1, <5>1 DEF DataInv, HalvesOk, ScattersOk, Lands, Ahead, Captured, BlockTag
      <4>2. CASE ~Begin
        BY <1>1, <2>3, <4>2, RetireHalves DEF DataInv, Core1
      <4> QED
        BY <4>1, <4>2
    <3> QED
      BY <2>1, <2>2, <3>1, <3>2 DEF DataInv
  <2>4. CASE Alone
    BY <1>1, <2>1, <2>2, <2>4, AloneStrips, AloneWgts, AloneHalves, AloneTensor DEF DataInv
  <2>5. CASE PostStrip \/ PostWgt \/ PostDecode \/ PostScatter
    BY <1>1, <2>1, <2>2, <2>5, PostStrips, PostWgts, PostHalves, PostTensor DEF DataInv
  <2> QED
    BY <1>3, <2>3, <2>4, <2>5 DEF Core0, Alone
<1> QED
  BY <1>1, <1>2, <1>3 DEF Next, Stop

\* A layer that reports success has every block of its output right, whatever was built
\* ahead, cached, deferred or reordered, and whatever transactions were damaged.
THEOREM SuccessIsRight == Spec => []OutputsRight
<1>1. DataInv => OutputsRight
  BY DEF DataInv, TensorOk
<1> QED
  BY <1>1, InitDataInv, StepDataInv, EngineInductive, PTL DEF Spec

=============================================================================
