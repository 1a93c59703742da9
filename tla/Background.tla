----------------------------- MODULE Background -----------------------------
(***************************************************************************)
(* What firmware/m9.c's demo loop remembers between frames: the query set  *)
(* in force, the background it is learning of the room, and the references *)
(* it has been shown, with the console keys that change them and the set   *)
(* the host may send at any time.                                          *)
(*                                                                         *)
(* A press of a key has a number, and so has what came of it: a set, a     *)
(* room (since the last bg_reset()), an enrolment.  A cosine is the set it *)
(* was taken against; a mean is what has gone into it.                     *)
(***************************************************************************)
EXTENDS Integers, Sequences, FiniteSets

CONSTANTS
  MaxQ,        \* FGX_MAX_Q
  EnrolN,      \* FGX_ENROL_N
  BootTau,     \* FGX_BG_TAU_DEFAULT
  Offers,      \* the sets the host may send: [roles, tau, hold]
  MaxPresses,  \* bound: keys and sets
  None

Roles == {"plain", "gate", "class", "unknown"}

ASSUME BackgroundAssumption ==
  /\ MaxQ \in Nat \ {0} /\ EnrolN \in Nat \ {0} /\ BootTau \in Nat
  /\ MaxPresses \in Nat
  /\ None \notin Nat
  /\ \A o \in Offers : /\ o.tau \in Nat /\ o.hold \in BOOLEAN
                       /\ o.roles \in Seq(Roles) /\ Len(o.roles) \in 1 .. MaxQ

Queries == 0 .. MaxQ - 1
Empty == MaxQ                 \* eref's place among the references: FGX_ENROL_EMPTY

VARIABLES
  pc,              \* "wait" for a set, "frame", "keys"
  nq, gates, classes,  \* n_gate, n_class
  query,           \* the set and the role in each of qname[], qvec[], qrole[], ...
  tau, hold,       \* bg_tau, bg_hold
  n,               \* bg_n
  mean,            \* the sets whose cosines are in qbg[]
  spread,          \* the number of frames in qm2[]
  ref,             \* qref[], qref_on[], qref_vis[] and eref, eref_on, eref_vis
  want, left, enrol_acc, \* enrol_want, enrol_left
  accepted, room, pressed,  \* history: the set accepted, the room, the digit
  presses

set == <<nq, gates, classes, query>>
bg == <<n, mean, spread, room>>
policy == <<tau, hold>>
window == <<want, left, enrol_acc, pressed>>
vars == <<pc, set, policy, bg, ref, window, accepted, presses>>

Init ==
  /\ pc = "wait" /\ nq = 0 /\ gates = 0 /\ classes = 0
  /\ query = [i \in Queries |-> [set |-> None, role |-> "plain"]]
  /\ tau = BootTau /\ hold = TRUE
  /\ n = 0 /\ mean = {} /\ spread = 0
  /\ ref = [i \in 0 .. MaxQ |-> [on |-> FALSE, vis |-> 0, visits |-> {}]]
  /\ want = None /\ left = 0 /\ enrol_acc = <<>>
  /\ accepted = None /\ room = 0 /\ pressed = 0
  /\ presses = 0

-----------------------------------------------------------------------------
Resident == {query[i].set : i \in 0 .. nq - 1}

\* enrol_slot(): where the k-th enrollable query is.
Enrollable == {i \in 0 .. nq - 1 : classes > 0 => query[i].role = "class"}
EnrolSlot(k) == {i \in Enrollable : Cardinality({j \in Enrollable : j <= i}) = k}

\* enrol_count()
EnrolCount == Cardinality({i \in 0 .. nq - 1 : ref[i].on})

\* bg_reset()
BgReset == n' = 0 /\ mean' = {} /\ spread' = 0 /\ room' = presses'

\* Mutant: a window that is open stays open.
EnrolForget_Window ==
  /\ ref' = [i \in 0 .. MaxQ |-> [ref[i] EXCEPT !.on = FALSE, !.vis = 0]]
  /\ UNCHANGED window

\* enrol_forget(): what is in qref[] stays there, and counts for nothing.
EnrolForget ==
  /\ ref' = [i \in 0 .. MaxQ |-> [ref[i] EXCEPT !.on = FALSE, !.vis = 0]]
  /\ want' = None /\ left' = 0 /\ UNCHANGED <<enrol_acc, pressed>>

-----------------------------------------------------------------------------
(***************************************************************************)
(* A frame: report(), which folds it into the window that is open and a    *)
(* full window into its reference; then bg_update().                       *)
(***************************************************************************)
\* Mutant: the spread is learned for as long as the mean is.
BgUpdate_Tracks ==
  \/ hold /\ n >= tau /\ UNCHANGED bg
  \/ (~hold \/ n < tau)
     /\ mean' = Resident \cup (IF n = 0 \/ tau = 0 THEN {} ELSE mean)
     /\ spread' = spread + 1
     /\ n' = (IF n < tau THEN n + 1 ELSE n)
     /\ UNCHANGED room

\* The first frame, and every frame of a window of none, replaces the mean.
BgUpdate ==
  \/ hold /\ n >= tau /\ UNCHANGED bg
  \/ ~hold /\ n >= tau
     /\ mean' = Resident \cup (IF tau = 0 THEN {} ELSE mean)
     /\ UNCHANGED <<n, spread, room>>
  \/ n < tau
     /\ mean' = Resident \cup (IF n = 0 THEN {} ELSE mean)
     /\ n' = n + 1 /\ spread' = spread + 1
     /\ UNCHANGED room

\* What a frame is measured by: its sets, its room, and whether that was COCO's mean.
Scored == [sets |-> Resident, room |-> room, seed |-> n = 0, press |-> pressed]

Left == IF left = 0 THEN EnrolN ELSE left

Window == IF left = 0 THEN <<Scored>> ELSE Append(enrol_acc, Scored)

FrameIdle ==
  /\ want = None
  /\ UNCHANGED <<ref, window>>

FrameInWindow ==
  /\ want # None /\ Left > 1
  /\ enrol_acc' = Window /\ left' = Left - 1
  /\ UNCHANGED <<ref, want, pressed>>

\* A visit is merged in proportion to the visits there were; without any it is alone.
FrameFolds ==
  /\ want # None /\ Left = 1
  /\ ref' = [ref EXCEPT ![want] =
               [on |-> TRUE, vis |-> @.vis + 1,
                visits |-> {Window} \cup (IF @.vis = 0 THEN {} ELSE @.visits)]]
  /\ want' = None /\ left' = 0 /\ enrol_acc' = Window
  /\ UNCHANGED pressed

Frame ==
  /\ pc = "frame" /\ pc' = "keys"
  /\ FrameIdle \/ FrameInWindow \/ FrameFolds
  /\ BgUpdate
  /\ UNCHANGED <<set, policy, accepted, presses>>

-----------------------------------------------------------------------------
(***************************************************************************)
(* poll_host(): at most a key or a set per frame, and before the loop the  *)
(* wait for a set.                                                         *)
(***************************************************************************)
Press ==
  /\ presses < MaxPresses /\ presses' = presses + 1

Key == /\ pc = "keys" /\ pc' = "frame" /\ Press

Count(roles, r) == Cardinality({i \in DOMAIN roles : roles[i] = r})

\* The records of a set are copied in place, one by one, each with its role.
Copied(o, upto) ==
  [i \in Queries |-> IF i < upto THEN [set |-> presses', role |-> o.roles[i + 1]] ELSE query[i]]

Unknown(o) == {i \in DOMAIN o.roles : o.roles[i] = "unknown"}
Half(o) == (Count(o.roles, "gate") # 0) # (Count(o.roles, "class") # 0)

Listening == pc \in {"wait", "keys"} /\ Press

\* recv_queries(): the first record with a role this build does not know ends it.
RecvUnknown(o) ==
  /\ Listening /\ Unknown(o) # {}
  /\ \E i \in Unknown(o) : query' = Copied(o, i) /\ \A j \in Unknown(o) : i <= j
  /\ pc' = IF pc = "wait" THEN pc ELSE "frame"
  /\ UNCHANGED <<nq, gates, classes, policy, bg, ref, window, accepted>>

TakeSet(o) ==
  /\ query' = Copied(o, Len(o.roles)) /\ nq' = Len(o.roles)
  /\ gates' = Count(o.roles, "gate") /\ classes' = Count(o.roles, "class")
  /\ pc' = "frame"

\* Half of the pair of roles is refused when everything has been taken.
RecvHalf(o) ==
  /\ Listening /\ Unknown(o) = {} /\ Half(o)
  /\ TakeSet(o)
  /\ UNCHANGED <<policy, bg, ref, window, accepted>>

Recv(o) ==
  /\ Listening /\ Unknown(o) = {} /\ ~Half(o)
  /\ TakeSet(o)
  /\ tau' = o.tau /\ hold' = o.hold
  /\ BgReset /\ EnrolForget
  /\ accepted' = presses'

\* Mutant: the window that is open goes on under the new name.
Digit_KeepsWindow(i) ==
  /\ want' = i /\ pressed' = presses' /\ left' = left
  /\ UNCHANGED <<set, policy, bg, ref, enrol_acc, accepted>>

\* '1' and on, when there is such a class; and '0'.
Digit(i) ==
  /\ want' = i /\ left' = 0 /\ pressed' = presses'
  /\ UNCHANGED <<set, policy, bg, ref, enrol_acc, accepted>>

PressDigit ==
  /\ Key
  /\ \E k \in 1 .. MaxQ : \E i \in EnrolSlot(k) : Digit(i)

Press0 == Key /\ Digit(Empty)

\* 'H'
PressH ==
  /\ Key /\ hold' = ~hold
  /\ UNCHANGED <<set, tau, bg, ref, window, accepted>>

\* 'N'
PressN == Key /\ BgReset /\ EnrolForget /\ UNCHANGED <<set, policy, accepted>>

\* 'Y'
PressY == Key /\ EnrolForget /\ UNCHANGED <<set, policy, bg, accepted>>

\* Nothing has come: the loop goes on to its next frame, the wait waits.
NoKey ==
  /\ \/ pc = "keys" /\ pc' = "frame"
     \/ pc = "wait" /\ UNCHANGED pc
  /\ UNCHANGED <<set, policy, bg, ref, window, accepted, presses>>

Next ==
  \/ Frame \/ NoKey \/ PressDigit \/ Press0 \/ PressH \/ PressN \/ PressY
  \/ \E o \in Offers : RecvUnknown(o) \/ RecvHalf(o) \/ Recv(o)

Spec == Init /\ [][Next]_vars

-----------------------------------------------------------------------------
Presses == 0 .. MaxPresses

\* What a frame was measured by.
Frames == [sets : SUBSET (Presses \cup {None}), room : Presses, seed : BOOLEAN, press : Presses]

TypeOK ==
  /\ pc \in {"wait", "frame", "keys"} /\ nq \in 0 .. MaxQ
  /\ gates \in 0 .. MaxQ /\ classes \in 0 .. MaxQ
  /\ query \in [Queries -> [set : Presses \cup {None}, role : Roles]]
  /\ tau \in Nat /\ hold \in BOOLEAN /\ n \in 0 .. tau
  /\ mean \subseteq Presses \cup {None} /\ spread \in Nat
  /\ ref \in [0 .. MaxQ -> [on : BOOLEAN, vis : Nat, visits : SUBSET Seq(Frames)]]
  /\ want \in (0 .. MaxQ) \cup {None} /\ left \in 0 .. EnrolN - 1 /\ enrol_acc \in Seq(Frames)
  /\ accepted \in Presses \cup {None} /\ {room, pressed, presses} \subseteq Presses

\* A set is loaded whole or not at all ("never a partial accept"): every query in
\* force, and their number, is of the set accepted last.
NeverHalfLoaded == Resident \subseteq {accepted}

Whole == nq # 0 /\ NeverHalfLoaded

\* A frame measured against the queries in force, in the room in force and by its mean.
Good(f) == f.sets = {accepted} /\ f.room = room /\ (tau > 0 => ~f.seed)

\* Every frame averaged into a reference in force was scored against the queries in
\* force, in the room in force and, if the background is learned at all, by that room's
\* mean and not by the seed, across new sets, 'N', 'Y' and the window open meanwhile.
ReferencesAreOfThisRoom ==
  Whole => \A i \in 0 .. MaxQ : ref[i].on =>
    \A v \in ref[i].visits : \A k \in DOMAIN v : Good(v[k])

\* A reference is its visits since it was last forgotten, each the frames of one press
\* and as many as a window has: an abandoned window reaches nothing, and what was
\* forgotten is not merged again.
VisitsAreWhole ==
  \A i \in 0 .. MaxQ : ref[i].on =>
    /\ ref[i].vis = Cardinality(ref[i].visits)
    /\ \A v \in ref[i].visits : Len(v) = EnrolN /\ Cardinality({v[k].press : k \in DOMAIN v}) = 1

\* The room's mean is of cosines of the queries in force, and the spread of as many
\* frames as bg_spread() divides by, however the rule switches with 'H'.
BackgroundIsOfThisSet ==
  Whole => mean \subseteq {accepted} /\ spread = n

\* The rule a frame is decided by has the queries it ranks: a gate and a class under
\* the two-stage rule, and references only of queries that can be shown.
RuleHasItsQueries ==
  Whole =>
    /\ gates > 0 <=> \E i \in 0 .. nq - 1 : query[i].role = "gate"
    /\ gates > 0 <=> classes > 0
    /\ EnrolCount > 0 => \A i \in 0 .. nq - 1 : ref[i].on => i \in Enrollable

-----------------------------------------------------------------------------
(***************************************************************************)
(* The inductive invariant, in parts.                                      *)
(***************************************************************************)
\* Nothing is of a press that has not been.
Dated == pressed <= presses /\ (accepted # None => accepted <= presses)

SpreadIsCounted == spread = n

MeanIsOfThisSet == Whole => mean \subseteq {accepted}

\* A key is read behind a frame, and a frame teaches the background something.
WarmAtKeys == pc = "keys" \/ want # None => n > 0 \/ tau = 0

WindowIsGood == Whole /\ want # None /\ left # 0 => \A k \in DOMAIN enrol_acc : Good(enrol_acc[k])

WindowIsOnePress ==
  want # None /\ left # 0 =>
    Len(enrol_acc) = EnrolN - left /\ \A k \in DOMAIN enrol_acc : enrol_acc[k].press = pressed

OnIsVisited == \A i \in 0 .. MaxQ : ref[i].on <=> ref[i].vis # 0

\* A visit is older than the window that is open: what it adds is a visit of its own.
VisitsAreOld ==
  \A i \in 0 .. MaxQ : ref[i].on => \A v \in ref[i].visits :
    /\ Len(v) = EnrolN
    /\ \A k \in DOMAIN v : v[k].press = v[1].press
    /\ v[1].press <= pressed /\ (want # None => v[1].press < pressed)

VisitsAreCounted ==
  \A i \in 0 .. MaxQ : ref[i].on =>
    IsFiniteSet(ref[i].visits) /\ ref[i].vis = Cardinality(ref[i].visits)

ShownIsEnrollable ==
  Whole => /\ want \in Enrollable \cup {Empty, None}
           /\ \A i \in Queries : ref[i].on => i \in Enrollable

RolesAreCounted ==
  Whole => /\ gates > 0 <=> \E i \in 0 .. nq - 1 : query[i].role = "gate"
           /\ gates > 0 <=> classes > 0

IInv ==
  /\ TypeOK /\ Dated /\ SpreadIsCounted /\ MeanIsOfThisSet /\ WarmAtKeys
  /\ WindowIsGood /\ WindowIsOnePress /\ OnIsVisited /\ VisitsAreOld /\ VisitsAreCounted
  /\ ReferencesAreOfThisRoom /\ ShownIsEnrollable /\ RolesAreCounted

=============================================================================
