------------------------------ MODULE LastWords ------------------------------
(***************************************************************************)
(* firmware/lastwords.c: one flash sector of LW_SLOTS pages, in which the  *)
(* board leaves records during an outage for the next boot to report.      *)
(*                                                                         *)
(* A life is from one boot to the reset, watchdog or power cut that ends   *)
(* it, which may come in the middle of a program or of the erase.  What    *)
(* lw_take() and lw_write() keep in RAM does not survive it.               *)
(*                                                                         *)
(* A record is told by its life and its seq; every other page that is not  *)
(* blank, a torn program or another build's record, is Torn: slot_valid()  *)
(* refuses both.                                                           *)
(***************************************************************************)
EXTENDS Integers

CONSTANTS
  Pages,        \* LW_SLOTS
  MaxBoots,     \* bound: boots
  MaxSeq,       \* bound: records attempted in one life
  Blank, Torn, NoRecord

ASSUME LastWordsAssumption ==
  /\ Pages \in Nat \ {0}
  /\ MaxBoots \in Nat /\ MaxSeq \in Nat
  /\ Blank # Torn
  /\ \A x \in {Blank, Torn, NoRecord} : x \notin [life : Nat, seq : Nat]

VARIABLES
  usable,       \* region_ok(): the image ends below the sector
  flash,        \* the sector, page by page
  phase,           \* "take", "erase", "up" or "program"
  life,         \* boots so far; no code keeps it
  seq, full,    \* lw_write()'s statics
  at,           \* the page being programmed
  out,          \* what lw_take() returned in this life
  left,         \* history: the newest record acknowledged and not yet taken
  whole         \* history: the sector was cleared, or found clear, by the
                \* life before this one

sectorVars == <<usable, flash, phase, life, seq, full, at, out, left, whole>>

Slots   == 1 .. Pages
Record  == [life : Nat, seq : Nat]
Mine    == [life |-> life, seq |-> seq]
Image   == [i \in Slots |-> Torn]
Cleared == [i \in Slots |-> Blank]

\* slot_valid()
Valid == {i \in Slots : flash[i] \notin {Blank, Torn}}
dirty == \E i \in Slots : flash[i] # Blank

\* `r.seq >= best.seq' over the pages in their order.
IsBest(i) ==
  /\ i \in Valid
  /\ \A j \in Valid : \/ flash[j].seq < flash[i].seq
                      \/ flash[j].seq = flash[i].seq /\ j <= i

SectorInit ==
  /\ usable \in BOOLEAN
  /\ flash \in IF usable THEN {Cleared, Image} ELSE {Image}
  /\ phase = "take" /\ life = 0 /\ seq = 0 /\ full = FALSE /\ at = 1
  /\ out = NoRecord /\ left = NoRecord /\ whole = TRUE

\* lw_take() up to its erase, which is before w1_start().
Take ==
  /\ phase = "take"
  /\ IF usable
     THEN /\ IF Valid = {} THEN out' = NoRecord
             ELSE \E i \in Slots : IsBest(i) /\ out' = flash[i]
          /\ phase' = IF dirty THEN "erase" ELSE "up"
     ELSE out' = NoRecord /\ phase' = "up"
  /\ left' = NoRecord
  /\ UNCHANGED <<usable, flash, life, seq, full, at, whole>>

\* Mutant: the sector is erased when it is about to fill up.
Erase_WhenFull ==
  /\ phase = "erase"
  /\ flash' = IF \E i \in Slots : flash[i] = Blank THEN flash ELSE Cleared
  /\ phase' = "up"
  /\ UNCHANGED <<usable, life, seq, full, at, out, left, whole>>

\* erase_sector()
Erase ==
  /\ phase = "erase"
  /\ flash' = Cleared
  /\ phase' = "up"
  /\ UNCHANGED <<usable, life, seq, full, at, out, left, whole>>

\* The first blank page, looked for again every time.
Free(i) == flash[i] = Blank /\ \A j \in Slots : j < i => flash[j] # Blank

\* lw_write() up to the program.  It declines without a sector, when one is full,
\* and when core 1 does not stop in time: then its seq is used up.
Write ==
  /\ phase = "up" /\ seq < MaxSeq
  /\ IF ~usable \/ full THEN UNCHANGED <<phase, seq, full, at>>
     ELSE IF \A i \in Slots : flash[i] # Blank
     THEN full' = TRUE /\ UNCHANGED <<phase, seq, at>>
     ELSE /\ seq' = seq + 1
          /\ UNCHANGED full
          /\ \/ UNCHANGED <<phase, at>>
             \/ phase' = "program" /\ at' \in {i \in Slots : Free(i)}
  /\ UNCHANGED <<usable, flash, life, out, left, whole>>

\* Mutant: a record is acknowledged without being read back.
Program_Blind ==
  /\ phase = "program"
  /\ flash' \in {[flash EXCEPT ![at] = Mine], [flash EXCEPT ![at] = Torn]}
  /\ left' = Mine
  /\ phase' = "up"
  /\ UNCHANGED <<usable, life, seq, full, at, out, whole>>

\* The program, and the read back that alone acknowledges it.
Program ==
  /\ phase = "program"
  /\ \/ flash' = [flash EXCEPT ![at] = Mine] /\ left' = Mine
     \/ flash' = [flash EXCEPT ![at] = Torn] /\ UNCHANGED left
  /\ phase' = "up"
  /\ UNCHANGED <<usable, life, seq, full, at, out, whole>>

\* The life ends.  A program cut short leaves its page blank, torn or complete; an
\* erase cut short leaves any page as it was, torn or blank.
LifeEnds ==
  /\ life < MaxBoots
  /\ flash' \in CASE phase = "program" -> {[flash EXCEPT ![at] = x] : x \in {Blank, Torn, Mine}}
                  [] phase = "erase" ->
                       {f \in [Slots -> {Blank, Torn} \cup {flash[i] : i \in Valid}] :
                          \A i \in Slots : f[i] \in {flash[i], Blank, Torn}}
                  [] OTHER -> {flash}
  /\ whole' = (phase \notin {"take", "erase"})
  /\ life' = life + 1
  /\ seq' = 0 /\ full' = FALSE /\ at' = 1 /\ out' = NoRecord /\ phase' = "take"
  /\ UNCHANGED <<usable, left>>

\* The bounds are reached.
Stop == life = MaxBoots /\ phase = "up" /\ seq = MaxSeq /\ UNCHANGED sectorVars

SectorNext == Take \/ Erase \/ Write \/ Program \/ LifeEnds \/ Stop

SectorSpec == SectorInit /\ [][SectorNext]_sectorVars

-----------------------------------------------------------------------------
\* A page that is not blank changes only by the erase at boot: "a record that is
\* already the only copy of something" is never programmed over.
NeverOverwritten ==
  [][\A i \in Slots : flash[i] # Blank /\ flash'[i] # flash[i] => phase = "erase"]_sectorVars

\* lw_take() returns the newest record lw_write() acknowledged, or a later one of
\* that life whose program was complete when it was cut, though seq begins again
\* with every life and a page may have failed.
NewestIsTaken ==
  [][phase = "take" /\ phase' # "take" /\ left # NoRecord
       => out' # NoRecord /\ out'.life = left.life /\ out'.seq >= left.seq]_sectorVars

\* What lw_take() returns was written by the run before this one, as the banner
\* says ("the last run left a record"), unless that run did not outlive its own
\* lw_take().
TakenIsLastLife == out # NoRecord /\ whole => out.life + 1 = life

SectorType ==
  /\ usable \in BOOLEAN /\ full \in BOOLEAN /\ whole \in BOOLEAN
  /\ flash \in [Slots -> Record \cup {Blank, Torn}]
  /\ phase \in {"take", "erase", "up", "program"}
  /\ life \in Nat /\ seq \in Nat /\ at \in Slots
  /\ out \in Record \cup {NoRecord} /\ left \in Record \cup {NoRecord}

-----------------------------------------------------------------------------
(***************************************************************************)
(* The inductive invariant.                                                *)
(***************************************************************************)

\* Once a life has cleared the sector, the records in it are that life's; at the
\* next boot they still are, if the one before got that far.
OneLife ==
  \A i \in Valid :
    /\ phase \in {"up", "program"} => flash[i].life = life /\ flash[i].seq <= seq
    /\ phase = "program" => flash[i].seq < seq
    /\ phase \in {"take", "erase"} /\ whole => flash[i].life + 1 = life

\* A record acknowledged and not yet taken is in the sector, and every record there
\* is of its life.
LeftIsThere ==
  left # NoRecord =>
    /\ usable
    /\ \E i \in Slots : flash[i] = left
    /\ \A i \in Valid : flash[i].life = left.life
    /\ phase \in {"up", "program"} => left.life = life
    /\ phase # "erase"

\* The page being programmed is blank until it is done.
PageIsBlank == phase = "program" => flash[at] = Blank

\* What lies in the image is never erased, written, or taken for a record.
ImageIsLeftAlone == ~usable => Valid = {} /\ phase \notin {"erase", "program"}

IInv == /\ SectorType /\ OneLife /\ LeftIsThere /\ PageIsBlank /\ ImageIsLeftAlone
        /\ TakenIsLastLife

=============================================================================
