-------------------------------- MODULE Outage --------------------------------
(***************************************************************************)
(* firmware/m9.c's answer to the board leaving the USB bus (issue #9): the *)
(* watch at the top of the frame loop, what it leaves behind for the next  *)
(* boot in watchdog scratch and in flash, and what the next banner says of *)
(* it.  Also every other way a run ends, as the banner tells them apart.   *)
(*                                                                         *)
(* Time is in ticks; a life's frames and the work of one are left out, but *)
(* for a frame that never ends.  The flash is what LastWords promises: the *)
(* newest record acknowledged, until lw_take() takes it.  The start-of-    *)
(* frame counter is whether it has moved since it was last read: a bus     *)
(* that is back has sent one.  TinyUSB calls suspended what the host       *)
(* suspended, and no other silence.  The LED's blink is left out, and 'I', *)
(* under which a re-attach does nothing.                                   *)
(***************************************************************************)
EXTENDS Naturals

CONSTANTS
  Quiet, Sof,           \* FGX_USB_QUIET_MS, FGX_USB_SOF_MS
  Kick, Kick2, GiveUp,  \* FGX_USB_KICK_MS, _KICK2_MS, _GIVEUP_MS
  MaxLosses,            \* bound: outages in one life
  MaxLives,             \* bound: boots, but for the watch's own
  None

ASSUME OutageAssumption ==
  /\ {Quiet, Sof, Kick, Kick2, GiveUp, MaxLosses, MaxLives} \subseteq Nat
  /\ 0 < Sof /\ Kick < Kick2 /\ Kick2 < GiveUp /\ Quiet < Kick
  /\ None \notin Nat /\ None \notin {"stage", "usbgone"}
  /\ None \notin [why : {"kick", "giveup"}, open : BOOLEAN]

VARIABLES
  pc,           \* "boot", "setup", "qwait", "loop", "wedged" or "park"
  bus,          \* the host's side: "up", "suspended" or "gone"
  mounted,      \* the stack's: tud_mounted()
  reader,       \* tud_cdc_connected(): DTR
  moved,        \* a start of frame since usb_alive() last looked
  silence,      \* now - sof_at, up to Sof
  down,         \* now - down_at, up to GiveUp; None while the bus is up
  kicked,       \* re-attaches in this outage
  pend,         \* an outage measured but not yet reportable
  drops,        \* usb_drops
  stage,        \* watchdog scratch[0]: None, "stage" or "usbgone"
  tagged,       \* watchdog scratch[2] carries FGX_RS_TAG
  reason,       \* watchdog_caused_reboot()
  record,       \* the newest record in flash; history: its outage is not over
  said,         \* what this life's banner said
  cause,        \* history: what ended the life before
  declined,     \* history: a record of this outage was not written
  cut,          \* history: that life ended in an outage on record, by its power
  losses, lives

ram   == <<moved, silence, down, kicked, pend, drops, declined, losses>>
wires == <<bus, mounted, reader>>
kept  == <<stage, tagged, reason, record>>
past  == <<said, cause, cut, lives>>
vars  == <<pc, wires, ram, kept, past>>

Nothing == [usb |-> FALSE, hang |-> FALSE, lastwords |-> None, open |-> FALSE]

Older(n, limit) == IF n < limit THEN n + 1 ELSE n

\* The first boot is a power-up.
Init ==
  /\ pc = "boot"
  /\ bus = "up" /\ mounted = FALSE /\ reader = FALSE
  /\ moved = TRUE /\ silence = 0 /\ down = None /\ kicked = 0
  /\ pend = FALSE /\ drops = 0 /\ declined = FALSE /\ losses = 0
  /\ stage = None /\ tagged = FALSE /\ reason = FALSE /\ record = None
  /\ said = Nothing /\ cause = "power" /\ cut = FALSE /\ lives = 0

-----------------------------------------------------------------------------
\* The ways a life ends.  What is in RAM goes, and the device is enumerated again.

Reset(why) ==
  /\ why = "giveup" \/ lives < MaxLives
  /\ lives' = Older(lives, MaxLives)
  /\ pc' = "boot"
  /\ moved' = TRUE /\ silence' = 0 /\ down' = None /\ kicked' = 0
  /\ pend' = FALSE /\ drops' = 0 /\ declined' = FALSE /\ losses' = 0
  /\ said' = Nothing /\ cause' = why
  /\ bus' = (IF bus = "gone" THEN bus ELSE "up") /\ mounted' = FALSE /\ reader' = FALSE

\* watchdog_reboot(), or the watchdog itself: the scratch is kept.
Reboot(why, scratch0) ==
  /\ Reset(why)
  /\ stage' = scratch0 /\ reason' = TRUE /\ cut' = FALSE
  /\ UNCHANGED tagged

\* The power, or a round trip through the bootrom: the scratch is not kept.
Cold(why) ==
  /\ Reset(why)
  /\ stage' = None /\ tagged' = FALSE /\ reason' = FALSE
  /\ UNCHANGED record

\* Pulling the plug, which is how a board that has left the bus is got back.
PowerCut ==
  /\ Cold("power")
  /\ cut' = IF pc = "boot" THEN cut ELSE kicked > 0 /\ ~declined

\* 'B': in the loop, at the bitstream and query prompts, and parked.
AskedBootsel ==
  /\ pc \in {"setup", "qwait", "loop", "park"} /\ reader /\ bus = "up"
  /\ Cold("bootsel") /\ cut' = FALSE

\* 'R' in the loop: "asked for, so not a hang".
AskedInLoop ==
  /\ pc = "loop" /\ reader /\ bus = "up"
  /\ Reboot("asked", None)
  /\ UNCHANGED record

\* 'R' at the query prompt, and in park(): nothing is cleared.
AskedElsewhere ==
  /\ pc \in {"qwait", "park"} /\ reader /\ bus = "up"
  /\ Reboot("asked", stage)
  /\ UNCHANGED record

\* park()'s eight seconds are up.
ParkTimeout == pc = "park" /\ Reboot("park", stage) /\ UNCHANGED record

\* A stage does not come back, and the watchdog bites.
Wedge ==
  /\ pc \in {"setup", "qwait", "loop"}
  /\ pc' = "wedged"
  /\ UNCHANGED <<wires, ram, kept, past>>

Bite == pc = "wedged" /\ Reboot("wedge", stage) /\ UNCHANGED record

-----------------------------------------------------------------------------
\* The banner, which waits for a reader: reset_report(), wd_report_last() and
\* lw_report_last(); then the first stage is entered and the watchdog armed.
Banner ==
  /\ pc = "boot" /\ bus = "up" /\ mounted /\ reader
  /\ said' = [usb       |-> reason /\ stage = "usbgone",
              hang      |-> reason /\ stage = "stage",
              lastwords |-> IF record = None THEN None
                            ELSE IF tagged THEN "reset" ELSE "power cycle",
              open      |-> record # None /\ record.open]
  /\ tagged' = TRUE
  /\ record' = None
  /\ stage' = "stage"
  /\ pc' = "setup"
  /\ UNCHANGED <<wires, ram, reason, cause, cut, lives>>

\* Bitstream, FPGA, link, camera: any of them may fail.
Setup ==
  /\ pc = "setup" /\ pc' \in {"qwait", "park"}
  /\ UNCHANGED <<wires, ram, kept, past>>

\* The first query set has come, and the frame loop begins.
Queries ==
  /\ pc = "qwait" /\ reader /\ bus = "up" /\ pc' = "loop"
  /\ moved' = TRUE
  /\ UNCHANGED <<wires, silence, down, kicked, pend, drops, declined, losses, kept, past>>

-----------------------------------------------------------------------------
\* The watch.

\* now - sof_at, once this call has read the counter.
Silent == IF moved THEN 0 ELSE silence

\* Mutant: the first build of the watch, which asked the stack alone.
Alive_Mounted == mounted

\* usb_alive()
Alive == mounted /\ (bus = "suspended" \/ Silent < Sof)

Sample ==
  /\ moved' = FALSE
  /\ silence' = IF mounted /\ bus = "suspended" THEN 0 ELSE Silent

\* Mutant: the outage is not closed when it is counted.
WatchUp_StillDown ==
  LET over == down # None /\ down >= Quiet
  IN /\ pc = "loop" /\ Alive /\ Sample
     /\ kicked' = IF down = None THEN kicked ELSE 0
     /\ drops' = IF over THEN drops + 1 ELSE drops
     /\ pend' = ((pend \/ over) /\ ~reader)
     /\ UNCHANGED <<pc, wires, down, declined, record, losses, stage, tagged, reason, past>>

\* The bus is answering: an outage ends, and is told once somebody reads.
WatchUp ==
  LET over == down # None /\ down >= Quiet
  IN /\ pc = "loop" /\ Alive /\ Sample
     /\ down' = None
     /\ kicked' = IF down = None THEN kicked ELSE 0
     /\ drops' = IF over THEN drops + 1 ELSE drops
     /\ pend' = ((pend \/ over) /\ ~reader)
     /\ declined' = FALSE
     /\ record' = IF record = None THEN None ELSE [record EXCEPT !.open = FALSE]
     /\ UNCHANGED <<pc, wires, losses, stage, tagged, reason, past>>

WatchDown ==
  /\ pc = "loop" /\ ~Alive /\ Sample
  /\ down = None
  /\ down' = 0 /\ kicked' = 0
  /\ UNCHANGED <<pc, wires, pend, drops, declined, losses, kept, past>>

\* lw_note(), which lw_write() may decline.
LwNote(why) ==
  \/ record' = [why |-> why, open |-> TRUE] /\ UNCHANGED declined
  \/ UNCHANGED record /\ declined' = TRUE

KickDue == \/ kicked = 0 /\ down >= Kick
           \/ kicked = 1 /\ down >= Kick2

\* Mutant: the record is left to the second attempt.
WatchKick_Late ==
  /\ pc = "loop" /\ ~Alive /\ Sample
  /\ down # None /\ KickDue
  /\ IF kicked = 1 THEN LwNote("kick") ELSE UNCHANGED <<record, declined>>
  /\ kicked' = kicked + 1
  /\ \/ UNCHANGED wires
     \/ bus' = "up" /\ mounted' = FALSE /\ reader' = FALSE
  /\ UNCHANGED <<pc, down, pend, drops, losses, stage, tagged, reason, past>>

\* A re-attach, which the host may or may not see.
WatchKick ==
  /\ pc = "loop" /\ ~Alive /\ Sample
  /\ down # None /\ KickDue
  /\ IF kicked = 0 THEN LwNote("kick") ELSE UNCHANGED <<record, declined>>
  /\ kicked' = kicked + 1
  /\ \/ UNCHANGED wires
     \/ bus' = "up" /\ mounted' = FALSE /\ reader' = FALSE
  /\ UNCHANGED <<pc, down, pend, drops, losses, stage, tagged, reason, past>>

\* Neither due nor over.
WatchOn ==
  /\ pc = "loop" /\ ~Alive /\ Sample
  /\ down # None /\ ~KickDue /\ down < GiveUp
  /\ UNCHANGED <<pc, wires, down, kicked, pend, drops, declined, losses, kept, past>>

\* Mutant: the reason is left as the stage.
WatchGiveUp_Unsaid ==
  /\ pc = "loop" /\ ~Alive /\ down # None /\ ~KickDue /\ down >= GiveUp
  /\ record' \in {record, [why |-> "giveup", open |-> TRUE]}
  /\ Reboot("giveup", stage)

WatchGiveUp ==
  /\ pc = "loop" /\ ~Alive /\ down # None /\ ~KickDue /\ down >= GiveUp
  /\ record' \in {record, [why |-> "giveup", open |-> TRUE]}
  /\ Reboot("giveup", "usbgone")

Watch == WatchUp \/ WatchDown \/ WatchKick \/ WatchOn \/ WatchGiveUp

-----------------------------------------------------------------------------
\* Time and the host.

Tick ==
  /\ silence' = Older(silence, Sof)
  /\ down' = IF down = None THEN None ELSE Older(down, GiveUp)
  /\ moved' = (moved \/ bus = "up")
  /\ <<silence', down', moved'>> # <<silence, down, moved>>
  /\ pc = "loop"
  /\ UNCHANGED <<pc, wires, kicked, pend, drops, declined, losses, kept, past>>

\* The stack is told of a detach, or it is not.
Stack == \/ UNCHANGED <<mounted, reader>>
         \/ mounted' = FALSE /\ reader' = FALSE

\* The bus is gone.
Lose ==
  /\ pc # "boot" /\ bus # "gone" /\ losses < MaxLosses
  /\ losses' = losses + 1
  /\ bus' = "gone" /\ Stack
  /\ UNCHANGED <<pc, moved, silence, down, kicked, pend, drops, declined, kept, past>>

\* It is back, as it was or to be enumerated again.
Return ==
  /\ bus = "gone"
  /\ bus' = "up" /\ Stack /\ moved' = TRUE
  /\ UNCHANGED <<pc, silence, down, kicked, pend, drops, declined, losses, kept, past>>

Configure ==
  /\ bus = "up" /\ ~mounted
  /\ mounted' = TRUE /\ moved' = TRUE
  /\ UNCHANGED <<pc, bus, reader, silence, down, kicked, pend, drops, declined, losses, kept,
                 past>>

\* The lid of the laptop.
Suspend ==
  /\ bus = "up" /\ mounted /\ bus' = "suspended"
  /\ UNCHANGED <<pc, mounted, reader, ram, kept, past>>

Resume ==
  /\ bus = "suspended" /\ bus' = "up" /\ moved' = TRUE
  /\ UNCHANGED <<pc, mounted, reader, silence, down, kicked, pend, drops, declined, losses,
                 kept, past>>

Terminal ==
  /\ bus = "up" /\ mounted /\ reader' = ~reader
  /\ UNCHANGED <<pc, bus, mounted, ram, kept, past>>

Ends == \/ PowerCut \/ AskedBootsel \/ AskedInLoop \/ AskedElsewhere \/ ParkTimeout
        \/ Wedge \/ Bite
Host == Lose \/ Return \/ Configure \/ Suspend \/ Resume \/ Terminal

Next == Banner \/ Setup \/ Queries \/ Watch \/ Tick \/ Ends \/ Host

Spec == Init /\ [][Next]_vars

\* Time passes, and the loop comes round to usb_watch().
FairSpec == Spec /\ WF_vars(Tick) /\ WF_vars(Watch)

-----------------------------------------------------------------------------
TypeOK ==
  /\ pc \in {"boot", "setup", "qwait", "loop", "wedged", "park"}
  /\ bus \in {"up", "suspended", "gone"}
  /\ {mounted, reader, moved, pend, tagged, reason, declined, cut} \subseteq BOOLEAN
  /\ silence \in 0 .. Sof /\ down \in {None} \cup (0 .. GiveUp)
  /\ kicked \in 0 .. 2 /\ losses \in 0 .. MaxLosses
  /\ stage \in {None, "stage", "usbgone"}
  /\ (bus = "suspended" \/ reader) => mounted

\* A deliberate reboot comes back as `usb', and only that does; a run that hung
\* comes back as `hang'.
NamesTheReset ==
  pc # "boot" => /\ said.usb <=> cause = "giveup"
                 /\ cause = "wedge" => said.hang

\* An outage that had reached its first re-attach, and whose record was not
\* declined, is named by the banner after its power is cut, however often that is
\* before somebody reads.
OutageIsAttributed ==
  pc # "boot" /\ cut => said.lastwords = "power cycle" /\ said.open

\* An outage is counted once, though the watch sees it many times and a re-attach
\* may begin its enumeration again.
CountedOnce == drops <= losses

\* A board that leaves the bus in the loop is back on it, or reboots to get there,
\* or ends some other way; it does not compute unseen for ever.
NotGoneForEver == (pc = "loop" /\ bus = "gone") ~> (bus # "gone" \/ pc # "loop")

\* wd_report_last(): "a later intentional reboot ('R') does not come back wearing a
\* hang's clothes".
AskedIsNoHang == pc # "boot" /\ cause = "asked" => ~said.hang

\* lw_report_last(): "the outage ended in a power cycle".
PowerCycleEndedIt == said.lastwords = "power cycle" => said.open

=============================================================================
