----------------------------- MODULE OutageProofs -----------------------------
(***************************************************************************)
(* Theorems about Outage for every set of thresholds in the code's order,  *)
(* any number of outages in a life and any number of lives; and about      *)
(* LastWords, the sector that the outage's record is left in, for any      *)
(* number of pages, boots and records.                                     *)
(***************************************************************************)
EXTENDS Outage, LastWords, TLAPS

Records == [why : {"kick", "giveup"}, open : BOOLEAN]

WatchType ==
  /\ pc \in {"boot", "setup", "qwait", "loop", "wedged", "park"}
  /\ bus \in {"up", "suspended", "gone"}
  /\ mounted \in BOOLEAN /\ reader \in BOOLEAN /\ moved \in BOOLEAN /\ pend \in BOOLEAN
  /\ tagged \in BOOLEAN /\ reason \in BOOLEAN /\ declined \in BOOLEAN /\ cut \in BOOLEAN
  /\ silence \in Nat /\ down \in {None} \cup Nat /\ kicked \in Nat
  /\ drops \in Nat /\ losses \in Nat
  /\ record \in {None} \cup Records
  /\ stage \in {None, "stage", "usbgone"}
  /\ (bus = "suspended" \/ reader) => mounted

\* What the scratch says of the life before, until the banner has read it; and after.
ScratchInv ==
  /\ pc = "boot" => /\ cause = "giveup" <=> reason /\ stage = "usbgone"
                    /\ cause = "wedge" => reason /\ stage = "stage"
  /\ pc # "boot" => stage = "stage"
  /\ NamesTheReset

\* An outage with a re-attach behind it has its record, and keeps it until the banner.
RecordInv ==
  /\ pc # "boot" /\ kicked > 0 /\ ~declined => record # None /\ record.open
  /\ down = None => kicked = 0
  /\ pc = "boot" /\ cut => record # None /\ record.open /\ ~tagged
  /\ OutageIsAttributed

\* The bus is there and the watch can see it.
Live == mounted /\ bus # "gone" /\ (bus = "up" => moved \/ silence < Sof)

\* The bus is not there, and the watch does not see it yet.
Unseen == mounted /\ bus = "gone" /\ (moved \/ silence < Sof)

\* What the watch counts, or has yet to count, was lost.
CountInv ==
  /\ drops <= losses
  /\ pc \in {"boot", "setup", "qwait"} => down = None /\ drops = 0
  /\ pc = "loop" /\ (down # None \/ ~Live) => drops < losses
  /\ pc = "loop" /\ down # None /\ Unseen => drops + 1 < losses

OutInv == WatchType /\ ScratchInv /\ RecordInv /\ CountInv

-----------------------------------------------------------------------------
LEMMA Constants ==
  /\ Quiet \in Nat /\ Sof \in Nat /\ Kick \in Nat /\ Kick2 \in Nat /\ GiveUp \in Nat
  /\ MaxLosses \in Nat /\ MaxLives \in Nat /\ 0 < Sof
  /\ None \notin Nat /\ None \notin {"stage", "usbgone"} /\ None \notin Records
BY OutageAssumption DEF Records

LEMMA OlderIs ==
  ASSUME NEW n \in Nat, NEW limit \in Nat
  PROVE  Older(n, limit) \in Nat
BY DEF Older

\* A life that ends with the scratch as it was, or named.
LEMMA ResetType ==
  ASSUME WatchType, NEW why, Reset(why), cut' \in BOOLEAN, tagged' \in BOOLEAN,
         reason' \in BOOLEAN, stage' \in {None, "stage", "usbgone"},
         record' \in {None} \cup Records
  PROVE  WatchType' /\ CountInv' /\ pc' = "boot" /\ down' = None /\ kicked' = 0
<1>1. WatchType'
  BY DEF WatchType, Reset
<1>2. CountInv'
  BY DEF CountInv, Reset
<1> QED
  BY <1>1, <1>2 DEF Reset

LEMMA RebootStep ==
  ASSUME OutInv, NEW why, NEW scratch, Reboot(why, scratch),
         scratch \in {None, "stage", "usbgone"}, record' \in {None} \cup Records,
         why = "giveup" <=> scratch = "usbgone", why = "wedge" => scratch = "stage"
  PROVE  OutInv'
<1>1. /\ Reset(why) /\ stage' = scratch /\ reason' = TRUE /\ cut' = FALSE
      /\ tagged' = tagged /\ cause' = why
  BY DEF Reboot, Reset
<1>2. WatchType' /\ CountInv' /\ pc' = "boot" /\ down' = None /\ kicked' = 0
  BY <1>1, ResetType DEF OutInv, WatchType
<1>3. ScratchInv'
  BY <1>1, <1>2 DEF ScratchInv, NamesTheReset
<1>4. RecordInv'
  BY <1>1, <1>2 DEF RecordInv, OutageIsAttributed
<1> QED
  BY <1>2, <1>3, <1>4 DEF OutInv

LEMMA ColdStep ==
  ASSUME OutInv, NEW why, Cold(why), why # "giveup", why # "wedge", cut' \in BOOLEAN,
         cut' => record # None /\ record.open
  PROVE  OutInv'
<1>1. /\ Reset(why) /\ stage' = None /\ reason' = FALSE /\ tagged' = FALSE
      /\ record' = record /\ cause' = why
  BY DEF Cold, Reset
<1>2. WatchType' /\ CountInv' /\ pc' = "boot" /\ down' = None /\ kicked' = 0
  BY <1>1, ResetType DEF OutInv, WatchType
<1>3. ScratchInv'
  BY <1>1, <1>2 DEF ScratchInv, NamesTheReset
<1>4. RecordInv'
  BY <1>1, <1>2 DEF RecordInv, OutageIsAttributed
<1> QED
  BY <1>2, <1>3, <1>4 DEF OutInv

\* A step within a life that leaves the scratch and what was said.
LEMMA ScratchStays ==
  ASSUME OutInv, UNCHANGED <<stage, reason, said, cause>>,
         pc' = "boot" <=> pc = "boot"
  PROVE  ScratchInv'
BY DEF OutInv, ScratchInv, NamesTheReset

\* And one that leaves the record too.
LEMMA RecordStays ==
  ASSUME OutInv, UNCHANGED <<record, said, cut, tagged, kicked, declined>>,
         pc' = "boot" <=> pc = "boot", down' = None => down = None
  PROVE  RecordInv'
BY DEF OutInv, RecordInv, OutageIsAttributed

LEMMA EndsStep == OutInv /\ Ends => OutInv'
<1>0. SUFFICES ASSUME OutInv, Ends PROVE OutInv'
  OBVIOUS
<1>1. CASE PowerCut
  <2>1. cut' \in BOOLEAN /\ (cut' => record # None /\ record.open)
    BY <1>0, <1>1 DEF PowerCut, OutInv, WatchType, RecordInv
  <2> QED
    BY <1>0, <1>1, <2>1, ColdStep DEF PowerCut
<1>2. CASE AskedBootsel
  BY <1>0, <1>2, ColdStep DEF AskedBootsel
<1>3. CASE AskedInLoop
  BY <1>0, <1>3, RebootStep, Constants DEF AskedInLoop, OutInv, WatchType
<1>4. CASE AskedElsewhere
  BY <1>0, <1>4, RebootStep DEF AskedElsewhere, OutInv, WatchType, ScratchInv
<1>5. CASE ParkTimeout
  BY <1>0, <1>5, RebootStep DEF ParkTimeout, OutInv, WatchType, ScratchInv
<1>6. CASE Bite
  BY <1>0, <1>6, RebootStep DEF Bite, OutInv, WatchType, ScratchInv
<1>7. CASE Wedge
  <2>1. /\ pc' = "wedged" /\ pc # "boot" /\ UNCHANGED <<wires, ram, kept, past>>
    BY <1>7 DEF Wedge
  <2>3. WatchType'
    BY <1>0, <2>1 DEF OutInv, WatchType, wires, ram, kept, past
  <2>4. CountInv'
    BY <1>0, <2>1 DEF OutInv, CountInv, ram
  <2>5. ScratchInv' /\ RecordInv'
    BY <1>0, <2>1, ScratchStays, RecordStays DEF ram, kept, past
  <2> QED
    BY <2>3, <2>4, <2>5 DEF OutInv
<1> QED
  BY <1>0, <1>1, <1>2, <1>3, <1>4, <1>5, <1>6, <1>7 DEF Ends

-----------------------------------------------------------------------------
LEMMA BannerStep == OutInv /\ Banner => OutInv'
<1>0. SUFFICES ASSUME OutInv, Banner PROVE OutInv'
  OBVIOUS
<1>1. /\ pc = "boot" /\ pc' = "setup" /\ tagged' = TRUE /\ record' = None
      /\ stage' = "stage" /\ down = None /\ kicked = 0
      /\ UNCHANGED <<wires, ram, reason, cause, cut, lives>>
  BY <1>0 DEF Banner, OutInv, RecordInv, CountInv
<1>2. /\ said'.usb = (reason /\ stage = "usbgone") /\ said'.hang = (reason /\ stage = "stage")
      /\ said'.lastwords = IF record = None THEN None
                           ELSE IF tagged THEN "reset" ELSE "power cycle"
      /\ said'.open = (record # None /\ record.open)
  BY <1>0 DEF Banner
<1>3. WatchType'
  BY <1>0, <1>1 DEF OutInv, WatchType, wires, ram
<1>4. CountInv'
  BY <1>0, <1>1 DEF OutInv, CountInv, ram
<1>5. ScratchInv'
  BY <1>0, <1>1, <1>2 DEF OutInv, ScratchInv, NamesTheReset
<1>6. RecordInv'
  <2>1. kicked' = 0 /\ cut' = cut
    BY <1>1 DEF ram
  <2>2. cut => said'.lastwords = "power cycle" /\ said'.open
    BY <1>0, <1>1, <1>2 DEF OutInv, RecordInv
  <2>3. ~(kicked' > 0) /\ pc' # "boot"
    BY <1>1, <2>1
  <2> QED
    BY <2>1, <2>2, <2>3, Zenon DEF RecordInv, OutageIsAttributed
<1> QED
  BY <1>3, <1>4, <1>5, <1>6 DEF OutInv

LEMMA SetupStep == OutInv /\ (Setup \/ Queries) => OutInv'
<1>0. SUFFICES ASSUME OutInv, Setup \/ Queries PROVE OutInv'
  OBVIOUS
<1>1. /\ pc \in {"setup", "qwait"} /\ pc' \in {"qwait", "park", "loop"}
      /\ UNCHANGED <<wires, silence, down, kicked, pend, drops, declined, losses, kept, past>>
      /\ moved' \in BOOLEAN
      /\ pc' = "loop" => mounted /\ bus = "up" /\ moved'
  BY <1>0 DEF Setup, Queries, ram, OutInv, WatchType
<1>2. WatchType'
  BY <1>0, <1>1 DEF OutInv, WatchType, wires, kept, past
<1>3. CountInv'
  BY <1>0, <1>1 DEF OutInv, CountInv, Live, Unseen, wires
<1>4. ScratchInv' /\ RecordInv'
  BY <1>0, <1>1, ScratchStays, RecordStays DEF kept, past
<1> QED
  BY <1>2, <1>3, <1>4 DEF OutInv

-----------------------------------------------------------------------------
\* What usb_alive() leaves.
LEMMA SampleIs ==
  ASSUME WatchType, Sample
  PROVE  /\ moved' = FALSE /\ silence' \in Nat /\ Silent \in Nat
         /\ silence' = IF mounted /\ bus = "suspended" THEN 0 ELSE Silent
BY DEF WatchType, Sample, Silent

LEMMA WatchUpStep == OutInv /\ WatchUp => OutInv'
<1>0. SUFFICES ASSUME OutInv, WatchUp PROVE OutInv'
  OBVIOUS
<1> DEFINE over == down # None /\ down >= Quiet
<1>1. /\ pc = "loop" /\ pc' = "loop" /\ Alive /\ Sample
      /\ down' = None
      /\ kicked' = IF down = None THEN kicked ELSE 0
      /\ drops' = IF over THEN drops + 1 ELSE drops
      /\ pend' = ((pend \/ over) /\ ~reader)
      /\ declined' = FALSE
      /\ record' = IF record = None THEN None ELSE [record EXCEPT !.open = FALSE]
      /\ UNCHANGED <<wires, losses, stage, tagged, reason, past>>
  BY <1>0 DEF WatchUp
<1>2. /\ moved' = FALSE /\ silence' \in Nat /\ Silent \in Nat
      /\ silence' = IF mounted /\ bus = "suspended" THEN 0 ELSE Silent
  BY <1>0, <1>1, SampleIs DEF OutInv
<1>3. record' \in {None} \cup Records
  BY <1>0, <1>1 DEF OutInv, WatchType, Records
<1>4. WatchType'
  <2>1. pend' \in BOOLEAN
    BY <1>1, Zenon
  <2>2. drops' \in Nat /\ kicked' \in Nat
    BY <1>0, <1>1 DEF OutInv, WatchType
  <2> QED
    BY <1>0, <1>1, <1>2, <1>3, <2>1, <2>2 DEF OutInv, WatchType, wires, past
<1>5. kicked' = 0
  BY <1>0, <1>1 DEF OutInv, RecordInv
<1>6. RecordInv'
  <2>1. UNCHANGED <<cut, said>>
    BY <1>1 DEF past
  <2>2. ~(kicked' > 0) /\ pc # "boot" /\ pc' # "boot"
    BY <1>1, <1>5
  <2>3. OutageIsAttributed
    BY <1>0 DEF OutInv, RecordInv
  <2> QED
    BY <1>5, <2>1, <2>2, <2>3, Zenon DEF RecordInv, OutageIsAttributed
<1>7. ScratchInv'
  BY <1>0, <1>1, ScratchStays DEF past
<1>8. CountInv'
  <2>1. drops \in Nat /\ losses \in Nat /\ drops <= losses /\ drops' <= losses
    BY <1>0, <1>1 DEF OutInv, CountInv, WatchType
  <2>2. mounted /\ (bus = "suspended" \/ Silent < Sof)
    BY <1>1 DEF Alive
  <2>3. CASE bus # "gone"
    <3>1. Live'
      BY <1>1, <1>2, <2>2, <2>3, Constants DEF Live, wires
    <3> QED
      BY <1>1, <2>1, <3>1 DEF CountInv
  <2>4. CASE bus = "gone"
    <3>1. Unseen
      BY <1>0, <2>2, <2>4 DEF Unseen, Silent, OutInv, WatchType
    <3>2. drops < losses /\ (down # None => drops + 1 < losses)
      BY <1>0, <1>1, <2>4, <3>1 DEF OutInv, CountInv, Live
    <3> QED
      BY <1>1, <2>1, <3>2 DEF CountInv
  <2> QED
    BY <2>3, <2>4
<1> QED
  BY <1>4, <1>6, <1>7, <1>8 DEF OutInv

\* What a watch that is not answered knows of the bus.
LEMMA NotAlive ==
  ASSUME OutInv, ~Alive, Sample, pc = "loop", mounted' = mounted, bus' = bus
  PROVE  /\ moved' = FALSE /\ silence' \in Nat
         /\ ~Unseen' /\ drops < losses
<1>1. /\ moved' = FALSE /\ silence' \in Nat /\ Silent \in Nat
      /\ silence' = IF mounted /\ bus = "suspended" THEN 0 ELSE Silent
  BY SampleIs DEF OutInv
<1>2. ~Live
  <2>1. mounted \in BOOLEAN /\ moved \in BOOLEAN /\ bus \in {"up", "suspended", "gone"}
    BY DEF OutInv, WatchType
  <2>2. moved \/ silence < Sof => Silent < Sof
    BY <2>1, Constants DEF Silent
  <2> QED
    BY <2>1, <2>2 DEF Alive, Live
<1>3. drops < losses
  BY <1>2 DEF OutInv, CountInv
<1>4. ~Unseen'
  BY <1>1, Constants DEF Alive, Unseen
<1> QED
  BY <1>1, <1>3, <1>4

LEMMA WatchDownStep == OutInv /\ (WatchDown \/ WatchOn) => OutInv'
<1>0. SUFFICES ASSUME OutInv, WatchDown \/ WatchOn PROVE OutInv'
  OBVIOUS
<1>1. /\ pc = "loop" /\ ~Alive /\ Sample
      /\ \/ down = None /\ down' = 0 /\ kicked' = 0
         \/ down # None /\ UNCHANGED <<down, kicked>>
      /\ UNCHANGED <<pc, wires, pend, drops, declined, losses, kept, past>>
  BY <1>0 DEF WatchDown, WatchOn
<1>2. moved' = FALSE /\ silence' \in Nat /\ ~Unseen' /\ drops < losses
  BY <1>0, <1>1, NotAlive DEF wires
<1>3. down' # None /\ down' \in Nat /\ kicked' = kicked
  BY <1>0, <1>1, Constants DEF OutInv, WatchType, RecordInv
<1>4. WatchType'
  BY <1>0, <1>1, <1>2, <1>3 DEF OutInv, WatchType, wires, kept, past
<1>5. CountInv'
  BY <1>0, <1>1, <1>2 DEF OutInv, CountInv
<1>6. ScratchInv' /\ RecordInv'
  BY <1>0, <1>1, <1>3, ScratchStays, RecordStays DEF kept, past
<1> QED
  BY <1>4, <1>5, <1>6 DEF OutInv

LEMMA WatchKickStep == OutInv /\ WatchKick => OutInv'
<1>0. SUFFICES ASSUME OutInv, WatchKick PROVE OutInv'
  OBVIOUS
<1>1. /\ pc = "loop" /\ ~Alive /\ Sample /\ down # None
      /\ IF kicked = 0 THEN LwNote("kick") ELSE UNCHANGED <<record, declined>>
      /\ kicked' = kicked + 1 /\ kicked \in Nat
      /\ \/ UNCHANGED wires
         \/ bus' = "up" /\ mounted' = FALSE /\ reader' = FALSE
      /\ UNCHANGED <<pc, down, pend, drops, losses, stage, tagged, reason, past>>
  BY <1>0 DEF WatchKick, OutInv, WatchType
<1>2. moved' = FALSE /\ silence' \in Nat /\ drops < losses
  BY <1>0, <1>1, SampleIs DEF OutInv, CountInv
<1>3. ~Unseen'
  <2>1. CASE UNCHANGED wires
    BY <1>0, <1>1, <2>1, NotAlive DEF wires
  <2>2. CASE bus' = "up"
    BY <2>2 DEF Unseen
  <2> QED
    BY <1>1, <2>1, <2>2
<1>4. /\ record' \in {None} \cup Records /\ declined' \in BOOLEAN
      /\ ~declined' => record' # None /\ record'.open
  <2>1. CASE kicked = 0 /\ record' = [why |-> "kick", open |-> TRUE] /\ declined' = declined
    <3>1. [why |-> "kick", open |-> TRUE] \in Records
      BY DEF Records
    <3> QED
      BY <1>0, <2>1, <3>1, Constants DEF OutInv, WatchType
  <2>2. CASE kicked = 0 /\ record' = record /\ declined' = TRUE
    BY <1>0, <2>2 DEF OutInv, WatchType
  <2>3. CASE kicked # 0 /\ UNCHANGED <<record, declined>>
    BY <1>0, <1>1, <2>3 DEF OutInv, WatchType, RecordInv
  <2> QED
    BY <1>1, <2>1, <2>2, <2>3 DEF LwNote
<1>5. WatchType'
  <2>1. /\ bus' \in {"up", "suspended", "gone"} /\ mounted' \in BOOLEAN /\ reader' \in BOOLEAN
        /\ (bus' = "suspended" \/ reader') => mounted'
    <3>1. CASE UNCHANGED <<bus, mounted, reader>>
      BY <1>0, <3>1 DEF OutInv, WatchType
    <3>2. CASE bus' = "up" /\ mounted' = FALSE /\ reader' = FALSE
      BY <3>2
    <3> QED
      BY <1>1, <3>1, <3>2 DEF wires
  <2>2. cut' \in BOOLEAN /\ tagged' \in BOOLEAN /\ reason' \in BOOLEAN
        /\ pend' \in BOOLEAN /\ moved' \in BOOLEAN
    BY <1>0, <1>1, <1>2 DEF past, OutInv, WatchType
  <2>3. down' \in {None} \cup Nat /\ kicked' \in Nat /\ drops' \in Nat /\ losses' \in Nat
    BY <1>0, <1>1 DEF OutInv, WatchType
  <2>4. /\ pc' \in {"boot", "setup", "qwait", "loop", "wedged", "park"}
        /\ stage' \in {None, "stage", "usbgone"}
    BY <1>0, <1>1 DEF OutInv, WatchType
  <2> QED
    BY <1>2, <1>4, <2>1, <2>2, <2>3, <2>4, Zenon DEF WatchType
<1>6. CountInv'
  BY <1>0, <1>1, <1>2, <1>3 DEF OutInv, CountInv
<1>7. ScratchInv'
  BY <1>0, <1>1, ScratchStays DEF past
<1>8. RecordInv'
  BY <1>0, <1>1, <1>4 DEF OutInv, RecordInv, OutageIsAttributed, past
<1> QED
  BY <1>5, <1>6, <1>7, <1>8 DEF OutInv

LEMMA WatchGiveUpStep == OutInv /\ WatchGiveUp => OutInv'
<1>0. SUFFICES ASSUME OutInv, WatchGiveUp PROVE OutInv'
  OBVIOUS
<1>1. [why |-> "giveup", open |-> TRUE] \in Records
  BY DEF Records
<1>2. record' \in {None} \cup Records
  BY <1>0, <1>1 DEF WatchGiveUp, OutInv, WatchType
<1> QED
  BY <1>0, <1>2, RebootStep DEF WatchGiveUp

-----------------------------------------------------------------------------
LEMMA TickStep == OutInv /\ Tick => OutInv'
<1>0. SUFFICES ASSUME OutInv, Tick PROVE OutInv'
  OBVIOUS
<1>1. /\ pc = "loop" /\ silence' = Older(silence, Sof)
      /\ down' = IF down = None THEN None ELSE Older(down, GiveUp)
      /\ moved' = (moved \/ bus = "up")
      /\ UNCHANGED <<pc, wires, kicked, pend, drops, declined, losses, kept, past>>
  BY <1>0 DEF Tick
<1>2. /\ silence' \in Nat /\ silence <= silence'
      /\ down' = None <=> down = None
      /\ down # None => down' \in Nat
  BY <1>0, <1>1, OlderIs, Constants DEF OutInv, WatchType, Older
<1>3. WatchType'
  <2>1. moved' \in BOOLEAN
    BY <1>1, Zenon
  <2>2. down' \in {None} \cup Nat
    <3>1. CASE down = None
      BY <1>1, <3>1
    <3>2. CASE down # None
      BY <1>2, <3>2
    <3> QED
      BY <3>1, <3>2
  <2> QED
    BY <1>0, <1>1, <1>2, <2>1, <2>2 DEF OutInv, WatchType, wires, kept, past
<1>4. (Live => Live') /\ (Unseen' => Unseen)
  BY <1>0, <1>1, <1>2, Constants DEF Live, Unseen, wires, OutInv, WatchType
<1>5. CountInv'
  BY <1>0, <1>1, <1>2, <1>4 DEF OutInv, CountInv
<1>6. ScratchInv' /\ RecordInv'
  BY <1>0, <1>1, <1>2, ScratchStays, RecordStays DEF kept, past
<1> QED
  BY <1>3, <1>5, <1>6 DEF OutInv

LEMMA HostStep == OutInv /\ Host => OutInv'
<1>0. SUFFICES ASSUME OutInv, Host PROVE OutInv'
  OBVIOUS
<1> USE DEF OutInv, WatchType
<1>1. UNCHANGED <<pc, silence, down, kicked, pend, drops, declined, kept, past>>
  BY <1>0 DEF Host, Lose, Return, Configure, Suspend, Resume, Terminal, ram
<1>2. ScratchInv' /\ RecordInv'
  BY <1>0, <1>1, ScratchStays, RecordStays DEF kept, past
<1>3. CASE Lose
  <2>1. losses' = losses + 1 /\ bus' = "gone" /\ pc # "boot" /\ moved' = moved
        /\ mounted' \in BOOLEAN /\ reader' \in BOOLEAN /\ (reader' => mounted')
    <3>1. Stack /\ losses' = losses + 1 /\ bus' = "gone" /\ pc # "boot" /\ moved' = moved
      BY <1>3 DEF Lose
    <3>2. CASE UNCHANGED <<mounted, reader>>
      BY <1>0, <3>1, <3>2
    <3>3. CASE mounted' = FALSE /\ reader' = FALSE
      BY <3>1, <3>3
    <3> QED
      BY <3>1, <3>2, <3>3 DEF Stack
  <2>2. WatchType'
    BY <1>0, <1>1, <2>1 DEF kept, past
  <2>3. CountInv'
    BY <1>0, <1>1, <2>1, Constants DEF CountInv, Live, Unseen
  <2> QED
    BY <1>2, <2>2, <2>3
<1>4. CASE Return \/ Configure \/ Suspend \/ Resume \/ Terminal
  <2>1. /\ losses' = losses /\ bus' # "gone" /\ bus' \in {"up", "suspended", "gone"}
        /\ mounted' \in BOOLEAN /\ reader' \in BOOLEAN /\ moved' \in BOOLEAN
        /\ (bus' = "suspended" \/ reader' => mounted')
        /\ Live => Live'
    <3>1. CASE Return
      <4>1. /\ Stack /\ losses' = losses /\ bus = "gone" /\ bus' = "up" /\ moved' = TRUE
        BY <3>1 DEF Return
      <4>2. CASE UNCHANGED <<mounted, reader>>
        BY <1>0, <4>1, <4>2 DEF Live
      <4>3. CASE mounted' = FALSE /\ reader' = FALSE
        BY <4>1, <4>3 DEF Live
      <4> QED
        BY <4>1, <4>2, <4>3 DEF Stack
    <3>2. CASE Configure
      BY <1>0, <3>2 DEF Configure, Live
    <3>3. CASE Suspend
      BY <1>0, <3>3 DEF Suspend, Live, ram
    <3>4. CASE Resume
      BY <1>0, <3>4 DEF Resume, Live
    <3>5. CASE Terminal
      <4>1. reader' \in BOOLEAN
        BY <3>5, Zenon DEF Terminal
      <4> QED
        BY <1>0, <3>5, <4>1 DEF Terminal, Live, ram
    <3> QED
      BY <1>4, <3>1, <3>2, <3>3, <3>4, <3>5
  <2>2. WatchType'
    BY <1>0, <1>1, <2>1 DEF kept, past
  <2>3. CountInv'
    BY <1>0, <1>1, <2>1, Constants DEF CountInv, Unseen
  <2> QED
    BY <1>2, <2>2, <2>3
<1> QED
  BY <1>0, <1>3, <1>4 DEF Host

-----------------------------------------------------------------------------
LEMMA InitOutInv == Init => OutInv
<1>0. SUFFICES ASSUME Init PROVE OutInv
  OBVIOUS
<1>1. WatchType
  BY <1>0, Constants DEF Init, WatchType
<1>2. ScratchInv
  BY <1>0, Constants DEF Init, ScratchInv, NamesTheReset
<1>3. RecordInv
  BY <1>0, Constants DEF Init, RecordInv, OutageIsAttributed
<1>4. CountInv
  BY <1>0, Constants DEF Init, CountInv
<1> QED
  BY <1>1, <1>2, <1>3, <1>4 DEF OutInv

LEMMA StepOutInv == OutInv /\ [Next]_vars => OutInv'
<1>0. SUFFICES ASSUME OutInv, [Next]_vars PROVE OutInv'
  OBVIOUS
<1>1. CASE UNCHANGED vars
  <2>1. UNCHANGED <<pc, wires, ram, kept, past>>
    BY <1>1 DEF vars
  <2>2. WatchType'
    BY <1>0, <2>1 DEF OutInv, WatchType, wires, ram, kept, past
  <2>3. CountInv'
    BY <1>0, <2>1 DEF OutInv, CountInv, Live, Unseen, wires, ram
  <2>4. ScratchInv' /\ RecordInv'
    BY <1>0, <2>1, ScratchStays, RecordStays DEF ram, kept, past
  <2> QED
    BY <2>2, <2>3, <2>4 DEF OutInv
<1> QED
  BY <1>0, <1>1, BannerStep, SetupStep, WatchUpStep, WatchDownStep, WatchKickStep,
     WatchGiveUpStep, TickStep, EndsStep, HostStep DEF Next, Watch

\* OutInv holds whatever the host does, whenever the power goes and however often.
THEOREM OutageInductive == Spec => []OutInv
<1> QED
  BY InitOutInv, StepOutInv, PTL DEF Spec

\* The banner names the watch's own reboot, and a hang, and takes neither for the other
\* (wd_report_last, usb_watch).
THEOREM ResetIsNamed == Spec => []NamesTheReset
<1>1. OutInv => NamesTheReset
  BY DEF OutInv, ScratchInv
<1> QED
  BY <1>1, OutageInductive, PTL

\* An outage on record is told after its power is cut (lw_note, lw_report_last).
THEOREM OutageIsTold == Spec => []OutageIsAttributed
<1>1. OutInv => OutageIsAttributed
  BY DEF OutInv, RecordInv
<1> QED
  BY <1>1, OutageInductive, PTL

\* No outage is counted twice (usb_watch's drops).
THEOREM OutageIsCountedOnce == Spec => []CountedOnce
<1>1. OutInv => CountedOnce
  BY DEF OutInv, CountInv, CountedOnce
<1> QED
  BY <1>1, OutageInductive, PTL

-----------------------------------------------------------------------------
(***************************************************************************)
(* The sector.  IInv is inductive: OneLife is why seq, which begins again  *)
(* in every life, still orders the records found in the sector, and        *)
(* PageIsBlank is why a program that is cut short takes nothing with it.   *)
(***************************************************************************)

\* A record is none of the other things a page or an answer may be.
LEMMA RecordIsOne ==
  ASSUME NEW r \in Record
  PROVE  r # Blank /\ r # Torn /\ r # NoRecord
BY LastWordsAssumption DEF Record

\* The record lw_write() is about to leave is one.
LEMMA MineIsRecord ==
  ASSUME SectorType
  PROVE  Mine \in Record /\ Mine.life = life /\ Mine.seq = seq
BY DEF SectorType, Mine, Record

\* A page is a record exactly when it is valid.
LEMMA ValidIsRecord ==
  ASSUME SectorType
  PROVE  Valid = {i \in Slots : flash[i] \in Record}
BY RecordIsOne DEF SectorType, Valid

\* The sector has a first page.
LEMMA FirstPage == 1 \in Slots
BY LastWordsAssumption DEF Slots

\* The invariant holds at the first boot.
LEMMA InitIInv == SectorInit => IInv
<1> SUFFICES ASSUME SectorInit PROVE IInv
  OBVIOUS
<1>1. flash \in [Slots -> {Blank, Torn}]
  BY DEF SectorInit, Cleared, Image
<1>2. SectorType
  <2>2. flash \in [Slots -> Record \cup {Blank, Torn}]
    BY <1>1
  <2> QED
    BY <2>2, FirstPage DEF SectorInit, SectorType
<1>3. Valid = {}
  BY <1>1 DEF Valid
<1>4. /\ OneLife /\ LeftIsThere /\ PageIsBlank /\ ImageIsLeftAlone
      /\ TakenIsLastLife
  BY <1>3 DEF SectorInit, OneLife, LeftIsThere, PageIsBlank, ImageIsLeftAlone, TakenIsLastLife
<1> QED
  BY <1>2, <1>4 DEF IInv

\* lw_take() keeps the invariant.
LEMMA TakeIInv == IInv /\ Take => IInv'
<1> SUFFICES ASSUME IInv, Take PROVE IInv'
  OBVIOUS
<1> USE DEF IInv
<1>1. flash' = flash /\ Valid' = Valid /\ life' = life /\ whole' = whole
  BY DEF Take, Valid
<1>2. out' = NoRecord \/ \E i \in Valid : out' = flash[i]
  BY DEF Take, IsBest
<1>3. SectorType'
  BY <1>1, <1>2, ValidIsRecord DEF SectorType, Take
<1>4. OneLife'
  <2>1. ASSUME phase' = "up", NEW i \in Valid
        PROVE  FALSE
    <3>1. usable /\ i \in Slots /\ flash[i] # Blank
      BY <2>1 DEF Valid, ImageIsLeftAlone
    <3> QED
      BY <2>1, <3>1 DEF Take, dirty
  <2>2. phase = "take" /\ phase' \in {"erase", "up"}
    BY DEF Take
  <2> QED
    BY <1>1, <2>1, <2>2 DEF OneLife
<1>5. LeftIsThere' /\ PageIsBlank' /\ ImageIsLeftAlone'
  BY <1>1 DEF Take, LeftIsThere, PageIsBlank, ImageIsLeftAlone
<1>6. TakenIsLastLife'
  BY <1>1, <1>2 DEF Take, TakenIsLastLife, OneLife
<1> QED
  BY <1>3, <1>4, <1>5, <1>6

\* The erase keeps the invariant.
LEMMA EraseIInv == IInv /\ Erase => IInv'
<1> SUFFICES ASSUME IInv, Erase PROVE IInv'
  OBVIOUS
<1> USE DEF IInv
<1>1. SectorType'
  BY DEF SectorType, Erase, Cleared
<1>2. Valid' = {} /\ left = NoRecord /\ left' = NoRecord /\ phase' = "up"
  BY DEF Erase, Cleared, Valid, LeftIsThere
<1>3. OneLife' /\ LeftIsThere' /\ PageIsBlank' /\ ImageIsLeftAlone'
  BY <1>2 DEF OneLife, LeftIsThere, PageIsBlank, ImageIsLeftAlone
<1>4. TakenIsLastLife'
  BY DEF Erase, TakenIsLastLife
<1> QED
  BY <1>1, <1>3, <1>4

\* lw_write(), up to its program, keeps the invariant.
LEMMA WriteIInv == IInv /\ Write => IInv'
<1> SUFFICES ASSUME IInv, Write PROVE IInv'
  OBVIOUS
<1> USE DEF IInv
<1>1. /\ flash' = flash /\ Valid' = Valid /\ life' = life /\ whole' = whole
      /\ left' = left /\ out' = out /\ usable' = usable
      /\ phase = "up" /\ phase' \in {"up", "program"}
  BY DEF Write, Valid
<1>2. seq' \in Nat /\ seq' >= seq /\ (phase' = "program" => seq' = seq + 1)
  BY DEF Write, SectorType
<1>3. at' \in Slots /\ (phase' = "program" => flash[at'] = Blank)
  BY DEF Write, Free, SectorType
<1>4. SectorType'
  BY <1>1, <1>2, <1>3 DEF SectorType, Write
<1>5. OneLife'
  <2> SUFFICES ASSUME NEW i \in Valid
               PROVE  /\ flash[i].life = life /\ flash[i].seq <= seq'
                      /\ phase' = "program" => flash[i].seq < seq'
    BY <1>1 DEF OneLife
  <2>1. flash[i].life = life /\ flash[i].seq <= seq
    BY <1>1 DEF OneLife
  <2>2. flash[i].seq \in Nat /\ seq \in Nat
    BY ValidIsRecord DEF Record, SectorType
  <2> QED
    BY <2>1, <2>2, <1>2
<1>6. LeftIsThere' /\ TakenIsLastLife'
  BY <1>1 DEF LeftIsThere, TakenIsLastLife
<1>7. PageIsBlank' /\ ImageIsLeftAlone'
  BY <1>1, <1>3 DEF Write, PageIsBlank, ImageIsLeftAlone
<1> QED
  BY <1>4, <1>5, <1>6, <1>7

\* What the pages are once one of them has been programmed, whole or not.
LEMMA OnePage ==
  ASSUME SectorType, SectorType', NEW x, flash[at] = Blank,
         flash' = [flash EXCEPT ![at] = x]
  PROVE  /\ at \in Slots /\ flash'[at] = x
         /\ \A i \in Slots : i # at => flash'[i] = flash[i]
         /\ \A i \in Valid : i \in Valid' /\ i # at /\ flash'[i] = flash[i]
         /\ \A i \in Valid' : i \in Valid \/ i = at
BY DEF SectorType, Valid

\* The program keeps the invariant.
LEMMA ProgramIInv == IInv /\ Program => IInv'
<1> SUFFICES ASSUME IInv, Program PROVE IInv'
  OBVIOUS
<1> USE DEF IInv
<1>1. /\ phase = "program" /\ phase' = "up" /\ flash[at] = Blank
      /\ UNCHANGED <<usable, life, seq, full, at, out, whole>>
  BY DEF Program, PageIsBlank
<1>2. PICK x \in {Mine, Torn} : flash' = [flash EXCEPT ![at] = x]
                                /\ left' = IF x = Mine THEN Mine ELSE left
  BY RecordIsOne, MineIsRecord DEF Program
<1>3. SectorType'
  BY <1>1, <1>2, MineIsRecord DEF SectorType
<1>4. /\ at \in Slots /\ flash'[at] = x
      /\ \A i \in Slots : i # at => flash'[i] = flash[i]
      /\ \A i \in Valid : i \in Valid' /\ i # at /\ flash'[i] = flash[i]
      /\ \A i \in Valid' : i \in Valid \/ i = at
  BY <1>1, <1>2, <1>3, OnePage
<1>5. ASSUME NEW i \in Valid'
      PROVE  flash'[i].life = life /\ flash'[i].seq <= seq
  <2>1. CASE i = at
    <3>1. x = Mine
      BY <1>2, <1>4, <2>1 DEF Valid
    <3> QED
      BY <1>4, <2>1, <3>1, MineIsRecord DEF SectorType
  <2>2. CASE i \in Valid
    BY <1>1, <1>4, <2>2 DEF OneLife
  <2> QED
    BY <1>4, <2>1, <2>2
<1>6. OneLife'
  BY <1>1, <1>5 DEF OneLife
<1>7. LeftIsThere'
  <2> SUFFICES ASSUME left' # NoRecord
               PROVE  usable' /\ (\E i \in Slots : flash'[i] = left') /\ left'.life = life
    BY <1>1, <1>5 DEF LeftIsThere
  <2>1. CASE x = Mine
    <3>1. usable
      BY <1>1 DEF ImageIsLeftAlone
    <3>2. flash'[at] = left' /\ left' = Mine
      BY <1>2, <1>4, <2>1
    <3> QED
      BY <1>1, <1>4, <3>1, <3>2, MineIsRecord
  <2>2. CASE x # Mine
    <3>1. left' = left /\ left # NoRecord
      BY <1>2, <2>2
    <3>2. PICK i \in Slots : flash[i] = left
      BY <3>1 DEF LeftIsThere
    <3>3. i # at
      BY <1>1, <3>1, <3>2, RecordIsOne DEF SectorType
    <3> QED
      BY <1>1, <1>4, <3>1, <3>2, <3>3 DEF LeftIsThere
  <2> QED
    BY <2>1, <2>2
<1>8. PageIsBlank' /\ ImageIsLeftAlone' /\ TakenIsLastLife'
  BY <1>1 DEF PageIsBlank, ImageIsLeftAlone, TakenIsLastLife
<1> QED
  BY <1>3, <1>6, <1>7, <1>8

\* What the end of a life may leave of the sector keeps the invariant.
LEMMA ResetIInv == IInv /\ LifeEnds => IInv'
<1> SUFFICES ASSUME IInv, LifeEnds PROVE IInv'
  OBVIOUS
<1> USE DEF IInv
<1>1. /\ life' = life + 1 /\ phase' = "take" /\ out' = NoRecord /\ left' = left
      /\ usable' = usable /\ seq' = 0 /\ full' = FALSE /\ at' = 1
      /\ whole' = (phase \notin {"take", "erase"})
  BY DEF LifeEnds
<1>a. ASSUME flash' \in [Slots -> Record \cup {Blank, Torn}]
      PROVE  SectorType'
  <2>1. whole' \in BOOLEAN /\ life' \in Nat
    BY <1>1 DEF SectorType
  <2>2. left' \in Record \cup {NoRecord} /\ usable' \in BOOLEAN
    BY <1>1 DEF SectorType
  <2> QED
    BY <1>1, <1>a, <2>1, <2>2, FirstPage DEF SectorType
<1>2. CASE phase = "program"
  <2>1. PICK x \in {Blank, Torn, Mine} : flash' = [flash EXCEPT ![at] = x]
    BY <1>2 DEF LifeEnds
  <2>2. SectorType'
    BY <1>a, <2>1, MineIsRecord DEF SectorType
  <2>3. /\ at \in Slots /\ flash'[at] = x
        /\ \A i \in Slots : i # at => flash'[i] = flash[i]
        /\ \A i \in Valid : i \in Valid' /\ i # at /\ flash'[i] = flash[i]
        /\ \A i \in Valid' : i \in Valid \/ i = at
    BY <1>2, <2>1, <2>2, OnePage DEF PageIsBlank
  <2>4. ASSUME NEW i \in Valid'
        PROVE  flash'[i].life = life
    <3>1. CASE i = at
      BY <2>3, <3>1, MineIsRecord DEF Valid
    <3>2. CASE i \in Valid
      BY <1>2, <2>3, <3>2 DEF OneLife
    <3> QED
      BY <2>3, <3>1, <3>2
  <2>5. LeftIsThere'
    <3> SUFFICES ASSUME left # NoRecord
                 PROVE  (\E i \in Slots : flash'[i] = left) /\ usable /\ left.life = life
      BY <1>1, <2>4 DEF LeftIsThere
    <3>1. PICK i \in Slots : flash[i] = left
      BY DEF LeftIsThere
    <3>2. i # at
      BY <1>2, <3>1, RecordIsOne DEF SectorType, PageIsBlank
    <3> QED
      BY <1>2, <2>3, <3>1, <3>2 DEF LeftIsThere
  <2>6. OneLife'
    BY <1>1, <2>4 DEF OneLife
  <2>7. PageIsBlank' /\ ImageIsLeftAlone' /\ TakenIsLastLife'
    BY <1>1, <1>2 DEF PageIsBlank, ImageIsLeftAlone, TakenIsLastLife
  <2> QED
    BY <2>2, <2>5, <2>6, <2>7
<1>3. CASE phase = "erase"
  <2>1. /\ flash' \in [Slots -> {Blank, Torn} \cup {flash[i] : i \in Valid}]
        /\ \A i \in Slots : flash'[i] \in {flash[i], Blank, Torn}
    BY <1>3 DEF LifeEnds
  <2>2. flash' \in [Slots -> Record \cup {Blank, Torn}]
    BY <2>1, ValidIsRecord
  <2>3. SectorType'
    BY <1>a, <2>2
  <2>4. usable /\ left = NoRecord
    BY <1>3 DEF ImageIsLeftAlone, LeftIsThere
  <2>5. OneLife' /\ LeftIsThere'
    BY <1>1, <1>3, <2>4 DEF OneLife, LeftIsThere
  <2>6. PageIsBlank' /\ ImageIsLeftAlone' /\ TakenIsLastLife'
    BY <1>1, <2>4 DEF PageIsBlank, ImageIsLeftAlone, TakenIsLastLife
  <2> QED
    BY <2>3, <2>5, <2>6
<1>4. CASE phase \notin {"program", "erase"}
  <2>1. flash' = flash /\ Valid' = Valid
    BY <1>4 DEF LifeEnds, Valid
  <2>2. SectorType'
    BY <1>a, <2>1 DEF SectorType
  <2>3. OneLife'
    BY <1>1, <1>4, <2>1 DEF OneLife, SectorType
  <2>4. LeftIsThere'
    BY <1>1, <2>1 DEF LeftIsThere
  <2>5. PageIsBlank' /\ ImageIsLeftAlone' /\ TakenIsLastLife'
    BY <1>1, <2>1 DEF PageIsBlank, ImageIsLeftAlone, TakenIsLastLife
  <2> QED
    BY <2>2, <2>3, <2>4, <2>5
<1> QED
  BY <1>2, <1>3, <1>4

\* Every step keeps the invariant.
LEMMA StepIInv == IInv /\ [SectorNext]_sectorVars => IInv'
<1> SUFFICES ASSUME IInv, [SectorNext]_sectorVars PROVE IInv'
  OBVIOUS
<1>1. CASE UNCHANGED sectorVars
  BY <1>1 DEF sectorVars, IInv, SectorType, OneLife, LeftIsThere, PageIsBlank, ImageIsLeftAlone,
              TakenIsLastLife, Valid
<1> QED
  BY <1>1, TakeIInv, EraseIInv, WriteIInv, ProgramIInv, ResetIInv DEF SectorNext, Stop

\* The invariant holds of lastwords.c, however many lives the board has had and
\* wherever each was cut short.
THEOREM SectorInductive == SectorSpec => []IInv
BY InitIInv, StepIInv, PTL DEF SectorSpec

\* lw_take() never reports a record of an earlier run as the last one's.
THEOREM TakenIsOfLastLife == SectorSpec => []TakenIsLastLife
<1>1. IInv => TakenIsLastLife
  BY DEF IInv
<1> QED
  BY <1>1, SectorInductive, PTL

\* No step but the boot's erase changes a page that is not blank: lw_write() never
\* programs over a record that is the only copy of something.
THEOREM RecordsAreKept == SectorSpec => NeverOverwritten
<1> DEFINE Kept == \A i \in Slots : flash[i] # Blank /\ flash'[i] # flash[i] => phase = "erase"
<1>1. ASSUME IInv, SectorNext PROVE Kept
  <2> USE DEF IInv
  <2>1. CASE Take \/ Write \/ Stop \/ UNCHANGED flash
    BY <2>1 DEF Take, Write, Stop, sectorVars
  <2>2. CASE Erase
    BY <2>2 DEF Erase
  <2>3. CASE phase = "program" /\ (Program \/ LifeEnds)
    <3>1. flash \in [Slots -> Record \cup {Blank, Torn}] /\ flash[at] = Blank
      BY <1>1, <2>3 DEF SectorType, PageIsBlank
    <3>2. \E x : flash' = [flash EXCEPT ![at] = x]
      BY <2>3 DEF Program, LifeEnds
    <3> QED
      BY <3>1, <3>2
  <2>4. CASE phase # "program" /\ LifeEnds
    BY <2>4 DEF LifeEnds
  <2> QED
    BY <1>1, <2>1, <2>2, <2>3, <2>4 DEF SectorNext, Program
<1>2. IInv /\ [SectorNext]_sectorVars => [Kept]_sectorVars
  BY <1>1
<1> QED
  BY <1>2, SectorInductive, PTL DEF SectorSpec, NeverOverwritten

\* The record the banner prints is the newest the last run left, or a later one of
\* that run: none that was acknowledged is passed over.
THEOREM NewestIsReported == SectorSpec => NewestIsTaken
<1> DEFINE Newest ==
      phase = "take" /\ phase' # "take" /\ left # NoRecord
        => out' # NoRecord /\ out'.life = left.life /\ out'.seq >= left.seq
<1>1. ASSUME IInv, SectorNext, phase = "take", phase' # "take", left # NoRecord
      PROVE  out' # NoRecord /\ out'.life = left.life /\ out'.seq >= left.seq
  <2> USE DEF IInv
  <2>1. Take
    BY <1>1 DEF SectorNext, Erase, Write, Program, LifeEnds, Stop, sectorVars
  <2>2. PICK j \in Slots : flash[j] = left
    BY <1>1 DEF LeftIsThere
  <2>3. usable /\ left \in Record /\ j \in Valid
    BY <1>1, <2>2, ValidIsRecord DEF LeftIsThere, SectorType
  <2>4. PICK i \in Slots : IsBest(i) /\ out' = flash[i]
    BY <2>1, <2>3 DEF Take
  <2>5. i \in Valid /\ flash[i] \in Record
    BY <1>1, <2>4, ValidIsRecord DEF IsBest
  <2>6. out' # NoRecord /\ out'.life = left.life
    BY <1>1, <2>4, <2>5, RecordIsOne DEF LeftIsThere
  <2>7. flash[i].seq >= flash[j].seq
    BY <2>3, <2>2, <2>4, <2>5 DEF IsBest, Record
  <2> QED
    BY <2>2, <2>4, <2>6, <2>7
<1>2. IInv /\ [SectorNext]_sectorVars => [Newest]_sectorVars
  BY <1>1
<1> QED
  BY <1>2, SectorInductive, PTL DEF SectorSpec, NewestIsTaken

=============================================================================
