-------------------------- MODULE BackgroundProofs --------------------------
(***************************************************************************)
(* Theorems about the two parts of the demo that share no state, what it   *)
(* says of a frame (Background) and the encoder on the CPU (Encoder).      *)
(* Background's are for any sets of queries, any windows and any number of *)
(* presses: the four properties the run checks.  IInv is inductive:        *)
(* WarmAtKeys is why no window starts on the seed, the dates are why a     *)
(* visit is never merged with itself, and Refused is why nothing can be    *)
(* said, nor need be, after a set that was not accepted.                   *)
(* Encoder's is for any blob: RunInv is inductive, and what the size       *)
(* checks measured is why no kernel's store leaves its buffer.             *)
(***************************************************************************)
EXTENDS Background, Encoder, FiniteSetTheorems, WellFoundedInduction, TLAPS

\* The queries of a set with one role are no more than a set may have, and are
\* counted as none exactly when there is none.
LEMMA CountIsBounded ==
  ASSUME NEW o \in Offers, NEW r
  PROVE  /\ Count(o.roles, r) \in 0 .. MaxQ
         /\ Count(o.roles, r) > 0 <=> \E i \in DOMAIN o.roles : o.roles[i] = r
<1> DEFINE S == {i \in DOMAIN o.roles : o.roles[i] = r}
<1>1. o.roles \in Seq(Roles) /\ Len(o.roles) \in 1 .. MaxQ /\ MaxQ \in Nat
  BY BackgroundAssumption
<1>2. DOMAIN o.roles = 1 .. Len(o.roles)
  BY <1>1
<1>3. IsFiniteSet(1 .. Len(o.roles)) /\ Cardinality(1 .. Len(o.roles)) = Len(o.roles)
  BY <1>1, FS_Interval
<1>4. S \in SUBSET (1 .. Len(o.roles))
  BY <1>2
<1>5. IsFiniteSet(S) /\ Cardinality(S) <= Len(o.roles)
  BY <1>3, <1>4, FS_Subset
<1>6. Cardinality(S) \in Nat /\ (Cardinality(S) = 0 <=> S = {})
  BY <1>5, FS_CardinalityType, FS_EmptySet
<1>7. Count(o.roles, r) = Cardinality(S)
  BY DEF Count
<1> QED
  BY <1>1, <1>5, <1>6, <1>7

\* What is copied of a set is as many records as were looked at.
LEMMA CopiedIsRecords ==
  ASSUME TypeOK, presses' \in Presses, NEW o \in Offers, NEW m \in 1 .. Len(o.roles)
  PROVE  /\ Copied(o, m) \in [Queries -> [set : Presses \cup {None}, role : Roles]]
         /\ Copied(o, m)[0].set = presses'
<1>1. o.roles \in Seq(Roles) /\ Len(o.roles) \in 1 .. MaxQ /\ MaxQ \in Nat /\ MaxQ > 0
  BY BackgroundAssumption
<1>2. \A i \in Queries : i < m => o.roles[i + 1] \in Roles
  BY <1>1 DEF Queries
<1>3. 0 \in Queries
  BY <1>1 DEF Queries
<1> QED
  BY <1>1, <1>2, <1>3 DEF Copied, TypeOK

\* A class that can be shown is one of the queries in force.
LEMMA SlotIsQuery ==
  ASSUME TypeOK, NEW k, NEW i \in EnrolSlot(k)
  PROVE  i \in Enrollable /\ i \in 0 .. nq - 1 /\ i \in Queries /\ i \in 0 .. MaxQ
BY BackgroundAssumption DEF EnrolSlot, Enrollable, Queries, TypeOK

\* The frame being folded, the window with it and what is left to fold.
LEMMA WindowIsTyped ==
  ASSUME TypeOK
  PROVE  Scored \in Frames /\ Window \in Seq(Frames) /\ Left \in 1 .. EnrolN
<1>1. Resident \subseteq Presses \cup {None}
  BY BackgroundAssumption DEF TypeOK, Resident, Queries
<1>2. Scored \in Frames
  BY <1>1 DEF Scored, Frames, TypeOK
<1>3. enrol_acc \in Seq(Frames) /\ left \in 0 .. EnrolN - 1 /\ EnrolN \in Nat \ {0}
  BY BackgroundAssumption DEF TypeOK
<1>4. <<Scored>> \in Seq(Frames) /\ Append(enrol_acc, Scored) \in Seq(Frames)
  BY <1>2, <1>3
<1> QED
  BY <1>2, <1>3, <1>4 DEF Window, Left

\* A key, or a set, is the next press.
LEMMA PressIsNext ==
  ASSUME TypeOK, Press
  PROVE  presses' = presses + 1 /\ presses' \in Presses
BY BackgroundAssumption DEF TypeOK, Press, Presses

\* The type invariant holds at power-up.
LEMMA InitTypeOK == Init => TypeOK
<1> SUFFICES ASSUME Init PROVE TypeOK
  OBVIOUS
<1>1. MaxQ \in Nat \ {0} /\ EnrolN \in Nat \ {0} /\ MaxPresses \in Nat /\ 0 \in Presses
  BY BackgroundAssumption DEF Presses
<1>2. query \in [Queries -> [set : Presses \cup {None}, role : Roles]]
  BY DEF Init, Roles
<1>3. ref \in [0 .. MaxQ -> [on : BOOLEAN, vis : Nat, visits : SUBSET Seq(Frames)]]
  BY DEF Init
<1>4. enrol_acc \in Seq(Frames)
  BY DEF Init
<1>5. 0 \in 0 .. MaxQ /\ 0 \in 0 .. EnrolN - 1 /\ n \in 0 .. tau /\ tau \in Nat
  BY <1>1, BackgroundAssumption DEF Init
<1>6. {room, pressed, presses} \subseteq Presses /\ mean = {} /\ spread = 0 /\ accepted = None
  BY <1>1 DEF Init
<1> QED
  BY <1>2, <1>3, <1>4, <1>5, <1>6 DEF Init, TypeOK

\* Every step keeps the type invariant.
LEMMA TypeStep == TypeOK /\ [Next]_vars => TypeOK'
<1> SUFFICES ASSUME TypeOK, [Next]_vars PROVE TypeOK'
  OBVIOUS
<1>0. MaxQ \in Nat \ {0} /\ EnrolN \in Nat \ {0} /\ MaxPresses \in Nat
  BY BackgroundAssumption
<1>1. CASE Frame
  <2>1. /\ want' \in (0 .. MaxQ) \cup {None} /\ left' \in 0 .. EnrolN - 1 /\ enrol_acc' \in Seq(Frames)
        /\ ref' \in [0 .. MaxQ -> [on : BOOLEAN, vis : Nat, visits : SUBSET Seq(Frames)]]
        /\ pressed' = pressed
    <3>1. CASE FrameIdle
      BY <3>1 DEF FrameIdle, window, TypeOK
    <3>2. CASE FrameInWindow
      BY <3>2, <1>0, WindowIsTyped DEF FrameInWindow, TypeOK
    <3>3. CASE FrameFolds
      <4>1. want \in 0 .. MaxQ /\ want' = None /\ left' = 0 /\ enrol_acc' = Window /\ pressed' = pressed
        BY <3>3 DEF FrameFolds, TypeOK
      <4>2. ref[want] \in [on : BOOLEAN, vis : Nat, visits : SUBSET Seq(Frames)]
        BY <4>1 DEF TypeOK
      <4> DEFINE new == [on |-> TRUE, vis |-> ref[want].vis + 1,
                         visits |-> {Window} \cup (IF ref[want].vis = 0 THEN {} ELSE ref[want].visits)]
      <4>3. new \in [on : BOOLEAN, vis : Nat, visits : SUBSET Seq(Frames)]
        BY <4>2, WindowIsTyped
      <4>4. ref' = [ref EXCEPT ![want] = new]
        BY <3>3 DEF FrameFolds
      <4> QED
        BY <4>1, <4>3, <4>4, <1>0, WindowIsTyped DEF TypeOK
    <3> QED
      BY <1>1, <3>1, <3>2, <3>3 DEF Frame
  <2>2. n' \in 0 .. tau /\ mean' \subseteq Presses \cup {None} /\ spread' \in Nat /\ room' = room
    <3>1. Resident \subseteq Presses \cup {None}
      BY <1>0 DEF TypeOK, Resident, Queries
    <3> QED
      BY <1>1, <3>1 DEF Frame, BgUpdate, bg, TypeOK
  <2> QED
    BY <1>1, <2>1, <2>2 DEF Frame, TypeOK, set, policy
<1>2. CASE NoKey \/ UNCHANGED vars
  BY <1>2 DEF NoKey, vars, set, policy, bg, window, TypeOK
<1>3. ASSUME NEW i \in 0 .. MaxQ, Key, Digit(i) PROVE TypeOK'
  BY <1>0, <1>3, PressIsNext DEF Key, Digit, set, policy, bg, TypeOK
<1>4. CASE PressH
  BY <1>4, PressIsNext DEF PressH, Key, set, bg, window, TypeOK
<1>5. ASSUME EnrolForget
      PROVE  /\ ref' \in [0 .. MaxQ -> [on : BOOLEAN, vis : Nat, visits : SUBSET Seq(Frames)]]
             /\ want' = None /\ left' = 0 /\ enrol_acc' = enrol_acc /\ pressed' = pressed
  BY <1>5 DEF EnrolForget, TypeOK
<1>6. CASE PressN
  BY <1>0, <1>5, <1>6, PressIsNext DEF PressN, Key, BgReset, set, policy, TypeOK
<1>7. CASE PressY
  BY <1>0, <1>5, <1>7, PressIsNext DEF PressY, Key, set, policy, bg, TypeOK
<1>8. ASSUME NEW o \in Offers, Listening, TakeSet(o)
      PROVE  /\ query' \in [Queries -> [set : Presses \cup {None}, role : Roles]]
             /\ {nq', gates', classes'} \subseteq 0 .. MaxQ /\ pc' = "frame" /\ presses' \in Presses
  <2>1. Len(o.roles) \in 1 .. MaxQ /\ Len(o.roles) \in 1 .. Len(o.roles)
    BY BackgroundAssumption
  <2>2. presses' \in Presses
    BY <1>8, PressIsNext DEF Listening
  <2>3. query' \in [Queries -> [set : Presses \cup {None}, role : Roles]]
    BY <1>8, <2>1, <2>2, CopiedIsRecords DEF TakeSet
  <2>4. nq' \in 0 .. MaxQ
    BY <1>0, <1>8, <2>1 DEF TakeSet
  <2>5. gates' \in 0 .. MaxQ /\ classes' \in 0 .. MaxQ
    BY <1>8, CountIsBounded DEF TakeSet
  <2> QED
    BY <1>8, <2>2, <2>3, <2>4, <2>5 DEF TakeSet
<1>9. ASSUME NEW o \in Offers, RecvUnknown(o) PROVE TypeOK'
  <2>1. PICK i \in Unknown(o) : query' = Copied(o, i)
    BY <1>9 DEF RecvUnknown
  <2>2. i \in 1 .. Len(o.roles) /\ presses' \in Presses
    BY <1>9, BackgroundAssumption, PressIsNext DEF RecvUnknown, Listening, Unknown
  <2>3. query' \in [Queries -> [set : Presses \cup {None}, role : Roles]]
    BY <2>1, <2>2, CopiedIsRecords
  <2> QED
    BY <1>9, <2>2, <2>3 DEF RecvUnknown, policy, bg, window, TypeOK
<1>10. ASSUME NEW o \in Offers, RecvHalf(o) PROVE TypeOK'
  BY <1>8, <1>10 DEF RecvHalf, policy, bg, window, TypeOK
<1>11. ASSUME NEW o \in Offers, Recv(o) PROVE TypeOK'
  <2>1. o.tau \in Nat /\ o.hold \in BOOLEAN
    BY BackgroundAssumption
  <2>2. /\ query' \in [Queries -> [set : Presses \cup {None}, role : Roles]]
        /\ {nq', gates', classes'} \subseteq 0 .. MaxQ /\ pc' = "frame" /\ presses' \in Presses
    BY <1>8, <1>11 DEF Recv
  <2>3. /\ ref' \in [0 .. MaxQ -> [on : BOOLEAN, vis : Nat, visits : SUBSET Seq(Frames)]]
        /\ want' = None /\ left' = 0 /\ enrol_acc' = enrol_acc /\ pressed' = pressed
    BY <1>5, <1>11 DEF Recv
  <2>4. /\ tau' = o.tau /\ hold' = o.hold /\ accepted' = presses'
        /\ n' = 0 /\ mean' = {} /\ spread' = 0 /\ room' = presses'
    BY <1>11, Zenon DEF Recv, BgReset
  <2>5. n' \in 0 .. tau' /\ left' \in 0 .. EnrolN - 1 /\ tau' \in Nat /\ hold' \in BOOLEAN
    BY <1>0, <2>1, <2>3, <2>4
  <2>6. enrol_acc' \in Seq(Frames) /\ pressed' \in Presses
    BY <2>3 DEF TypeOK
  <2> QED
    BY <2>2, <2>3, <2>4, <2>5, <2>6 DEF TypeOK
<1>12. ASSUME PressDigit PROVE TypeOK'
  BY <1>3, <1>12, SlotIsQuery DEF PressDigit
<1>13. ASSUME Press0 PROVE TypeOK'
  BY <1>0, <1>3, <1>13 DEF Press0, Empty
<1> QED
  BY <1>1, <1>2, <1>4, <1>6, <1>7, <1>9, <1>10, <1>11, <1>12, <1>13 DEF Next

-----------------------------------------------------------------------------
(***************************************************************************)
(* The kinds of step.                                                      *)
(***************************************************************************)
Quiet == NoKey \/ UNCHANGED vars
Show == \E i \in Enrollable \cup {Empty} : Key /\ Digit(i)
Refuse == \E o \in Offers : RecvUnknown(o) \/ RecvHalf(o)
Accept == \E o \in Offers : Recv(o)

\* Every step is of one of these kinds.
LEMMA StepIsOfAKind ==
  ASSUME TypeOK, [Next]_vars
  PROVE  Frame \/ Quiet \/ Show \/ PressH \/ PressN \/ PressY \/ Refuse \/ Accept
<1>1. PressDigit => Show
  BY SlotIsQuery DEF PressDigit, Show
<1>2. Press0 => Show
  BY DEF Press0, Show
<1> QED
  BY <1>1, <1>2 DEF Next, Quiet, Refuse, Accept

\* As long as no record is written, what is in force stays in force.
LEMMA SetStays ==
  ASSUME UNCHANGED <<set, accepted>>
  PROVE  /\ Whole' <=> Whole
         /\ Resident' = Resident /\ Enrollable' = Enrollable
BY DEF set, Whole, NeverHalfLoaded, Resident, Enrollable

\* Those steps are the frames and the keys.
LEMMA KeysKeepTheSet ==
  ASSUME Frame \/ Quiet \/ Show \/ PressH \/ PressN \/ PressY
  PROVE  UNCHANGED <<set, accepted>>
BY DEF Frame, Quiet, NoKey, Show, Digit, PressH, PressN, PressY, vars, set

\* A set that is refused leaves a mixture: its first record is newer than anything
\* accepted.
LEMMA RefusedIsNoSet ==
  ASSUME TypeOK, Dated, Refuse
  PROVE  ~Whole'
<1>1. PICK o \in Offers : RecvUnknown(o) \/ RecvHalf(o)
  BY DEF Refuse
<1>2. Len(o.roles) \in 1 .. MaxQ /\ o.roles \in Seq(Roles)
  BY BackgroundAssumption
<1>3. Listening /\ accepted' = accepted
  BY <1>1 DEF RecvUnknown, RecvHalf
<1>4. presses' = presses + 1 /\ presses' \in Presses
  BY <1>3, PressIsNext DEF Listening
<1>5. PICK m \in 1 .. Len(o.roles) : query' = Copied(o, m)
  <2>1. CASE RecvUnknown(o)
    BY <1>2, <2>1 DEF RecvUnknown, Unknown
  <2>2. CASE RecvHalf(o)
    BY <1>2, <2>2 DEF RecvHalf, TakeSet
  <2> QED
    BY <1>1, <2>1, <2>2
<1>6. query'[0].set = presses'
  BY <1>4, <1>5, CopiedIsRecords
<1>7. presses' # accepted
  BY <1>4, BackgroundAssumption DEF Dated, TypeOK, Presses
<1>8. nq' \in Nat
  <2>1. nq' = nq \/ nq' = Len(o.roles)
    BY <1>1 DEF RecvUnknown, RecvHalf, TakeSet
  <2> QED
    BY <2>1, <1>2, BackgroundAssumption DEF TypeOK
<1>9. nq' # 0 => presses' \in Resident'
  <2>1. Resident' = {query'[i].set : i \in 0 .. nq' - 1}
    BY DEF Resident
  <2>2. \A x \in Nat : x # 0 => 0 \in 0 .. x - 1
    OBVIOUS
  <2> QED
    BY <1>6, <1>8, <2>1, <2>2
<1> QED
  BY <1>3, <1>7, <1>9 DEF Whole, NeverHalfLoaded

\* A set that is accepted is all there is.
LEMMA AcceptedIsTheSet ==
  ASSUME TypeOK, NEW o \in Offers, Recv(o)
  PROVE  /\ presses' = presses + 1 /\ accepted' = presses' /\ Whole'
         /\ nq' = Len(o.roles)
         /\ \A i \in 0 .. nq' - 1 : query'[i].role = o.roles[i + 1]
<1>1. Len(o.roles) \in 1 .. MaxQ /\ MaxQ \in Nat
  BY BackgroundAssumption
<1>2. presses' = presses + 1 /\ accepted' = presses' /\ nq' = Len(o.roles)
  BY PressIsNext DEF Recv, Listening, TakeSet
<1>3. query' = Copied(o, Len(o.roles))
  BY DEF Recv, TakeSet
<1>4. \A i \in 0 .. nq' - 1 : query'[i] = [set |-> presses', role |-> o.roles[i + 1]]
  BY <1>1, <1>2, <1>3 DEF Copied, Queries
<1>7. \A i \in 0 .. nq' - 1 : query'[i].set = presses' /\ query'[i].role = o.roles[i + 1]
  <2> TAKE i \in 0 .. nq' - 1
  <2>1. query'[i] = [set |-> presses', role |-> o.roles[i + 1]]
    BY <1>4
  <2> QED
    BY <2>1
<1>5. Resident' \subseteq {presses'}
  <2>1. Resident' = {query'[i].set : i \in 0 .. nq' - 1}
    BY DEF Resident
  <2> QED
    BY <1>7, <2>1
<1>6. Whole'
  BY <1>1, <1>2, <1>5 DEF Whole, NeverHalfLoaded
<1> QED
  BY <1>2, <1>6, <1>7

-----------------------------------------------------------------------------
\* Nothing is of a press that has not been.
LEMMA DatedStep == TypeOK /\ Dated /\ [Next]_vars => Dated'
<1> SUFFICES ASSUME TypeOK, Dated, [Next]_vars PROVE Dated'
  OBVIOUS
<1>0. None \notin Nat /\ presses \in Nat /\ pressed \in Nat /\ accepted \in Nat \cup {None}
  BY BackgroundAssumption DEF TypeOK, Presses
<1>1. CASE Frame \/ Quiet
  BY <1>1 DEF Frame, FrameIdle, FrameInWindow, FrameFolds, Quiet, NoKey, vars, window, Dated
<1>2. CASE Show
  BY <1>0, <1>2, PressIsNext DEF Show, Key, Digit, Dated
<1>3. CASE PressH \/ PressN \/ PressY
  <2>1. pressed' = pressed /\ accepted' = accepted /\ Press
    BY <1>3 DEF PressH, PressN, PressY, Key, EnrolForget, window
  <2> QED
    BY <1>0, <2>1, PressIsNext DEF Dated
<1>4. CASE Refuse
  BY <1>0, <1>4, PressIsNext DEF Refuse, RecvUnknown, RecvHalf, Listening, window, Dated
<1>5. CASE Accept
  <2>1. pressed' = pressed /\ accepted' = presses' /\ Press
    BY <1>5 DEF Accept, Recv, Listening, EnrolForget
  <2> QED
    BY <1>0, <2>1, PressIsNext DEF Dated
<1> QED
  BY <1>1, <1>2, <1>3, <1>4, <1>5, StepIsOfAKind

\* The mean and the spread: a frame adds itself, a reset forgets, nothing else counts.
LEMMA BackgroundStep ==
  TypeOK /\ Dated /\ SpreadIsCounted /\ MeanIsOfThisSet /\ [Next]_vars
    => SpreadIsCounted' /\ MeanIsOfThisSet'
<1> SUFFICES ASSUME TypeOK, Dated, SpreadIsCounted, MeanIsOfThisSet, [Next]_vars
             PROVE  SpreadIsCounted' /\ MeanIsOfThisSet'
  OBVIOUS
<1>1. CASE Frame
  <2>1. (Whole' <=> Whole) /\ accepted' = accepted
    BY <1>1, SetStays, KeysKeepTheSet
  <2>2. Whole => Resident \subseteq {accepted}
    BY DEF Whole, NeverHalfLoaded
  <2>3. mean' \subseteq mean \cup Resident
    BY <1>1 DEF Frame, BgUpdate, bg
  <2>4. spread' = n'
    BY <1>1 DEF Frame, BgUpdate, bg, SpreadIsCounted
  <2> QED
    BY <2>1, <2>2, <2>3, <2>4 DEF SpreadIsCounted, MeanIsOfThisSet
<1>2. CASE Quiet \/ Show \/ PressH \/ PressY
  <2>1. (Whole' <=> Whole) /\ accepted' = accepted
    BY <1>2, SetStays, KeysKeepTheSet
  <2>2. UNCHANGED bg
    BY <1>2 DEF Quiet, NoKey, vars, Show, Digit, PressH, PressY
  <2> QED
    BY <2>1, <2>2 DEF bg, SpreadIsCounted, MeanIsOfThisSet
<1>3. CASE PressN \/ Accept
  BY <1>3 DEF PressN, Accept, Recv, BgReset, SpreadIsCounted, MeanIsOfThisSet
<1>4. CASE Refuse
  <2>1. UNCHANGED bg
    BY <1>4 DEF Refuse, RecvUnknown, RecvHalf
  <2> QED
    BY <1>4, <2>1, RefusedIsNoSet DEF bg, SpreadIsCounted, MeanIsOfThisSet
<1> QED
  BY <1>1, <1>2, <1>3, <1>4, StepIsOfAKind

\* Behind a frame the background has one, unless it is never to have any.
LEMMA WarmStep == TypeOK /\ WarmAtKeys /\ [Next]_vars => WarmAtKeys'
<1> SUFFICES ASSUME TypeOK, WarmAtKeys, [Next]_vars PROVE WarmAtKeys'
  OBVIOUS
<1>1. CASE Frame
  <2>1. n' > 0 \/ tau' = 0
    BY <1>1 DEF Frame, BgUpdate, bg, policy, TypeOK
  <2> QED
    BY <2>1 DEF WarmAtKeys
<1>2. CASE Quiet
  BY <1>2 DEF Quiet, NoKey, vars, policy, bg, window, WarmAtKeys
<1>3. CASE Show
  BY <1>3 DEF Show, Key, Digit, policy, bg, WarmAtKeys
<1>4. CASE PressH
  BY <1>4 DEF PressH, Key, bg, window, WarmAtKeys
<1>5. CASE PressN \/ PressY \/ Accept
  BY <1>5 DEF PressN, PressY, Accept, Recv, TakeSet, Key, EnrolForget, WarmAtKeys
<1>6. CASE Refuse
  BY <1>6 DEF Refuse, RecvUnknown, RecvHalf, TakeSet, Listening, policy, bg, window, WarmAtKeys
<1> QED
  BY <1>1, <1>2, <1>3, <1>4, <1>5, <1>6, StepIsOfAKind

-----------------------------------------------------------------------------
(***************************************************************************)
(* The window and the references.                                          *)
(***************************************************************************)
Shown ==
  /\ WindowIsGood /\ WindowIsOnePress /\ OnIsVisited /\ VisitsAreOld /\ VisitsAreCounted
  /\ ReferencesAreOfThisRoom

\* While a window is open a frame is measured against the set in force, and not by
\* the seed.
LEMMA ScoredIsGood ==
  ASSUME TypeOK, WarmAtKeys, Whole, want # None
  PROVE  Good(Scored)
<1>1. nq \in Nat /\ nq # 0 /\ Resident \subseteq {accepted}
  BY BackgroundAssumption DEF TypeOK, Whole, NeverHalfLoaded
<1>2. query[0].set \in Resident
  <2>1. \A x \in Nat : x # 0 => 0 \in 0 .. x - 1
    OBVIOUS
  <2> QED
    BY <1>1, <2>1 DEF Resident
<1>3. Resident = {accepted}
  BY <1>1, <1>2
<1>4. tau > 0 => n # 0
  BY DEF WarmAtKeys, TypeOK
<1> QED
  BY <1>3, <1>4 DEF Good, Scored

\* The window with this frame: good if it was, one press's, and one longer.
LEMMA WindowGoesOn ==
  ASSUME TypeOK, WarmAtKeys, WindowIsGood, WindowIsOnePress, want # None
  PROVE  /\ Whole => \A k \in DOMAIN Window : Good(Window[k])
         /\ Len(Window) = EnrolN - Left + 1
         /\ \A k \in DOMAIN Window : Window[k].press = pressed
<1>0. EnrolN \in Nat \ {0} /\ left \in 0 .. EnrolN - 1 /\ enrol_acc \in Seq(Frames)
  BY BackgroundAssumption DEF TypeOK
<1>1. Scored.press = pressed /\ (Whole => Good(Scored))
  BY ScoredIsGood DEF Scored
<1>2. CASE left = 0
  <2>1. Window = <<Scored>> /\ Left = EnrolN
    BY <1>2 DEF Window, Left
  <2>2. DOMAIN Window = {1} /\ Window[1] = Scored /\ Len(Window) = 1
    BY <2>1
  <2> QED
    BY <1>0, <1>1, <2>1, <2>2
<1>3. CASE left # 0
  <2>1. Window = Append(enrol_acc, Scored) /\ Left = left
    BY <1>3 DEF Window, Left
  <2>2. /\ DOMAIN enrol_acc = 1 .. Len(enrol_acc) /\ Len(enrol_acc) \in Nat
        /\ DOMAIN Window = 1 .. Len(enrol_acc) + 1 /\ Len(Window) = Len(enrol_acc) + 1
        /\ \A k \in DOMAIN Window : Window[k] = IF k = Len(enrol_acc) + 1 THEN Scored ELSE enrol_acc[k]
    BY <1>0, <2>1
  <2>3. \A k \in DOMAIN Window : k = Len(enrol_acc) + 1 \/ k \in DOMAIN enrol_acc
    BY <2>2
  <2>4. Len(enrol_acc) = EnrolN - left /\ \A k \in DOMAIN enrol_acc : enrol_acc[k].press = pressed
    BY <1>3 DEF WindowIsOnePress
  <2>5. Whole => \A k \in DOMAIN enrol_acc : Good(enrol_acc[k])
    BY <1>3 DEF WindowIsGood
  <2> QED
    BY <1>0, <1>1, <2>1, <2>2, <2>3, <2>4, <2>5
<1> QED
  BY <1>2, <1>3

\* enrol_forget() leaves nothing to go wrong.
LEMMA ForgetKeepsShown == TypeOK /\ EnrolForget => Shown'
<1> SUFFICES ASSUME TypeOK, EnrolForget PROVE Shown'
  OBVIOUS
<1>1. \A i \in 0 .. MaxQ : ~ref'[i].on /\ ref'[i].vis = 0
  BY DEF EnrolForget, TypeOK
<1>2. want' = None
  BY DEF EnrolForget
<1> QED
  BY <1>1, <1>2 DEF Shown, WindowIsGood, WindowIsOnePress, OnIsVisited, VisitsAreOld,
                    VisitsAreCounted, ReferencesAreOfThisRoom

\* A step that leaves window and references alone keeps them, unless it gives them
\* another set or another room while they are in force.
LEMMA AloneKeepsShown ==
  ASSUME Shown, UNCHANGED <<ref, window>>,
         ~Whole' \/ (Whole /\ UNCHANGED <<accepted, room, tau>>)
  PROVE  Shown'
BY DEF Shown, window, WindowIsGood, WindowIsOnePress, OnIsVisited, VisitsAreOld,
       VisitsAreCounted, ReferencesAreOfThisRoom, Good

\* A visit's first frame was shown at a press.
LEMMA VisitHasPress ==
  ASSUME TypeOK, VisitsAreOld, NEW i \in 0 .. MaxQ, ref[i].on, NEW v \in ref[i].visits
  PROVE  v \in Seq(Frames) /\ v[1].press \in Nat /\ 1 \in DOMAIN v
<1>1. v \in Seq(Frames)
  BY DEF TypeOK
<1>2. Len(v) = EnrolN /\ EnrolN \in Nat \ {0}
  BY BackgroundAssumption DEF VisitsAreOld
<1>3. 1 \in DOMAIN v
  BY <1>1, <1>2
<1>4. v[1] \in Frames
  BY <1>1, <1>3
<1>5. v[1].press \in Nat
  BY <1>4, BackgroundAssumption DEF Frames, Presses
<1> QED
  BY <1>1, <1>3, <1>5

\* A digit opens a window that is newer than every visit.
LEMMA ShowKeepsShown == TypeOK /\ Dated /\ Shown /\ Show => Shown'
<1> SUFFICES ASSUME TypeOK, Dated, Shown, Show PROVE Shown'
  OBVIOUS
<1>1. /\ left' = 0 /\ ref' = ref /\ pressed' = presses' /\ UNCHANGED <<room, tau>>
      /\ Press
  BY DEF Show, Key, Digit, bg, policy
<1>2. (Whole' <=> Whole) /\ accepted' = accepted
  BY SetStays, KeysKeepTheSet
<1>3. presses' > pressed /\ pressed \in Nat /\ presses' \in Nat
  BY <1>1, PressIsNext, BackgroundAssumption DEF Dated, TypeOK, Presses
<1>4. VisitsAreOld'
  <2> SUFFICES ASSUME NEW i \in 0 .. MaxQ, ref[i].on, NEW v \in ref[i].visits
               PROVE  /\ Len(v) = EnrolN
                      /\ \A k \in DOMAIN v : v[k].press = v[1].press
                      /\ v[1].press <= pressed' /\ (want' # None => v[1].press < pressed')
    BY <1>1 DEF VisitsAreOld
  <2>1. v[1].press \in Nat
    BY VisitHasPress DEF Shown
  <2>2. /\ Len(v) = EnrolN /\ v[1].press <= pressed
        /\ \A k \in DOMAIN v : v[k].press = v[1].press
    BY DEF Shown, VisitsAreOld
  <2> QED
    BY <1>1, <1>3, <2>1, <2>2
<1>5. OnIsVisited' /\ VisitsAreCounted'
  BY <1>1 DEF Shown, OnIsVisited, VisitsAreCounted
<1>6. ReferencesAreOfThisRoom'
  BY <1>1, <1>2 DEF Shown, ReferencesAreOfThisRoom, Good
<1> QED
  BY <1>1, <1>4, <1>5, <1>6 DEF Shown, WindowIsGood, WindowIsOnePress

\* What the fold makes of a reference.
Merged == [on |-> TRUE, vis |-> ref[want].vis + 1,
           visits |-> {Window} \cup (IF ref[want].vis = 0 THEN {} ELSE ref[want].visits)]

\* A full window is a visit like the others, and none of them.
LEMMA FoldKeepsShown ==
  ASSUME TypeOK, WarmAtKeys, Shown, FrameFolds, Whole' <=> Whole,
         UNCHANGED <<accepted, room, tau>>
  PROVE  Shown'
<1> USE DEF Shown
<1>1. /\ want \in 0 .. MaxQ /\ want # None /\ want' = None /\ pressed' = pressed /\ Left = 1
      /\ ref' = [ref EXCEPT ![want] = Merged]
  BY DEF FrameFolds, TypeOK, Merged
<1>2. /\ \A i \in 0 .. MaxQ : i # want => ref'[i] = ref[i]
      /\ ref'[want] = Merged
      /\ ref[want].vis \in Nat /\ ref[want].on \in BOOLEAN
  BY <1>1 DEF TypeOK
<1>3. /\ Len(Window) = EnrolN /\ Window \in Seq(Frames)
      /\ \A k \in DOMAIN Window : Window[k].press = pressed
      /\ Whole => \A k \in DOMAIN Window : Good(Window[k])
  BY <1>1, WindowIsTyped, WindowGoesOn, BackgroundAssumption
<1>4. 1 \in DOMAIN Window /\ Window[1].press = pressed /\ pressed \in Nat
  <2>1. EnrolN \in Nat \ {0} /\ pressed \in Nat
    BY BackgroundAssumption DEF TypeOK, Presses
  <2>2. 1 \in DOMAIN Window
    BY <1>3, <2>1
  <2> QED
    BY <1>3, <2>1, <2>2
<1>5. \A v \in Merged.visits : v # Window => ref[want].on /\ v \in ref[want].visits
  <2> SUFFICES ASSUME NEW v \in Merged.visits, v # Window
               PROVE  ref[want].on /\ v \in ref[want].visits
    OBVIOUS
  <2>1. v \in IF ref[want].vis = 0 THEN {} ELSE ref[want].visits
    BY DEF Merged
  <2>2. ref[want].vis # 0 /\ v \in ref[want].visits
    <3>1. CASE ref[want].vis = 0
      BY <2>1, <3>1
    <3>2. CASE ref[want].vis # 0
      BY <2>1, <3>2
    <3> QED
      BY <3>1, <3>2
  <2>3. ref[want].on
    BY <1>1, <2>2 DEF OnIsVisited
  <2> QED
    BY <2>2, <2>3
<1>6. OnIsVisited'
  BY <1>1, <1>2 DEF OnIsVisited, Merged
<1>7. VisitsAreOld'
  <2>1. ASSUME NEW i \in 0 .. MaxQ, ref[i].on, NEW v \in ref[i].visits
        PROVE  /\ Len(v) = EnrolN
               /\ \A k \in DOMAIN v : v[k].press = v[1].press
               /\ v[1].press <= pressed
    BY <2>1 DEF VisitsAreOld
  <2>2. \A v \in Merged.visits :
          /\ Len(v) = EnrolN
          /\ \A k \in DOMAIN v : v[k].press = v[1].press
          /\ v[1].press <= pressed
    BY <1>1, <1>3, <1>4, <1>5, <2>1
  <2> QED
    BY <1>1, <1>2, <2>1, <2>2 DEF VisitsAreOld
<1>8. VisitsAreCounted'
  <2>1. IsFiniteSet(Merged.visits) /\ Merged.vis = Cardinality(Merged.visits)
    <3>1. CASE ref[want].vis = 0
      <4>1. Merged.visits = {Window} /\ Merged.vis = 1
        BY <3>1 DEF Merged
      <4> QED
        BY <4>1, FS_Singleton
    <3>2. CASE ref[want].vis # 0
      <4>1. ref[want].on
        BY <1>1, <3>2 DEF OnIsVisited
      <4>2. Window \notin ref[want].visits
        <5> SUFFICES ASSUME Window \in ref[want].visits PROVE FALSE
          OBVIOUS
        <5>1. Window[1].press < pressed
          BY <1>1, <4>1 DEF VisitsAreOld
        <5> QED
          BY <1>4, <5>1
      <4>3. IsFiniteSet(ref[want].visits) /\ ref[want].vis = Cardinality(ref[want].visits)
        BY <1>1, <4>1 DEF VisitsAreCounted
      <4>4. Merged.visits = ref[want].visits \cup {Window} /\ Merged.vis = ref[want].vis + 1
        BY <3>2 DEF Merged
      <4>5. /\ IsFiniteSet(ref[want].visits \cup {Window})
            /\ Cardinality(ref[want].visits \cup {Window}) = Cardinality(ref[want].visits) + 1
        BY <4>2, <4>3, FS_AddElement
      <4> QED
        BY <4>3, <4>4, <4>5
    <3> QED
      BY <3>1, <3>2
  <2> QED
    BY <1>1, <1>2, <2>1 DEF VisitsAreCounted
<1>9. ReferencesAreOfThisRoom'
  <2> SUFFICES ASSUME Whole, NEW i \in 0 .. MaxQ, ref'[i].on, NEW v \in ref'[i].visits,
                      NEW k \in DOMAIN v
               PROVE  Good(v[k])
    BY DEF ReferencesAreOfThisRoom, Good
  <2>1. CASE i # want
    BY <1>2, <2>1 DEF ReferencesAreOfThisRoom
  <2>2. CASE i = want
    BY <1>1, <1>2, <1>3, <1>5, <2>2 DEF ReferencesAreOfThisRoom
  <2> QED
    BY <2>1, <2>2
<1>10. WindowIsGood' /\ WindowIsOnePress'
  BY <1>1 DEF WindowIsGood, WindowIsOnePress
<1> QED
  BY <1>6, <1>7, <1>8, <1>9, <1>10

\* A frame joins the window that is open, if one is.
LEMMA FrameKeepsShown == TypeOK /\ WarmAtKeys /\ Shown /\ Frame => Shown'
<1> SUFFICES ASSUME TypeOK, WarmAtKeys, Shown, Frame PROVE Shown'
  OBVIOUS
<1>1. (Whole' <=> Whole) /\ accepted' = accepted
  BY SetStays, KeysKeepTheSet
<1>2. UNCHANGED <<accepted, room, tau>>
  BY <1>1 DEF Frame, BgUpdate, bg, policy
<1>3. CASE FrameIdle
  <2>1. UNCHANGED <<ref, window>>
    BY <1>3 DEF FrameIdle
  <2> QED
    BY <1>1, <1>2, <2>1, AloneKeepsShown
<1>4. CASE FrameInWindow
  <2>1. /\ want # None /\ Left > 1 /\ enrol_acc' = Window /\ left' = Left - 1
        /\ UNCHANGED <<ref, want, pressed>>
    BY <1>4 DEF FrameInWindow
  <2>2. /\ Whole => \A k \in DOMAIN Window : Good(Window[k])
        /\ Len(Window) = EnrolN - Left + 1 /\ Left \in 1 .. EnrolN
        /\ \A k \in DOMAIN Window : Window[k].press = pressed
    BY <2>1, WindowGoesOn, WindowIsTyped DEF Shown
  <2>3. WindowIsGood'
    BY <1>1, <1>2, <2>1, <2>2 DEF WindowIsGood, Good
  <2>4. WindowIsOnePress'
    BY <2>1, <2>2, BackgroundAssumption DEF WindowIsOnePress
  <2>5. OnIsVisited' /\ VisitsAreOld' /\ VisitsAreCounted' /\ ReferencesAreOfThisRoom'
    BY <1>1, <1>2, <2>1 DEF Shown, OnIsVisited, VisitsAreOld, VisitsAreCounted,
                            ReferencesAreOfThisRoom, Good
  <2> QED
    BY <2>3, <2>4, <2>5 DEF Shown
<1>5. CASE FrameFolds
  BY <1>1, <1>2, <1>5, FoldKeepsShown
<1> QED
  BY <1>3, <1>4, <1>5 DEF Frame

\* Every step keeps the window and the references.
LEMMA ShownStep == TypeOK /\ Dated /\ WarmAtKeys /\ Shown /\ [Next]_vars => Shown'
<1> SUFFICES ASSUME TypeOK, Dated, WarmAtKeys, Shown, [Next]_vars PROVE Shown'
  OBVIOUS
<1>1. CASE Quiet \/ PressH
  <2>1. UNCHANGED <<ref, window>> /\ UNCHANGED <<accepted, room, tau>>
    BY <1>1 DEF Quiet, NoKey, PressH, vars, bg, policy
  <2>2. Whole' <=> Whole
    BY <1>1, SetStays, KeysKeepTheSet
  <2> QED
    BY <2>1, <2>2, AloneKeepsShown
<1>2. CASE Refuse
  <2>1. UNCHANGED <<ref, window>>
    BY <1>2 DEF Refuse, RecvUnknown, RecvHalf
  <2> QED
    BY <1>2, <2>1, AloneKeepsShown, RefusedIsNoSet
<1>3. CASE PressN \/ PressY \/ Accept
  BY <1>3, ForgetKeepsShown DEF PressN, PressY, Accept, Recv
<1> QED
  BY <1>1, <1>2, <1>3, FrameKeepsShown, ShowKeepsShown, StepIsOfAKind

-----------------------------------------------------------------------------
(***************************************************************************)
(* The rule and the classes.                                               *)
(***************************************************************************)
\* An accepted set has both of the pair of roles or neither.
LEMMA RolesStep == TypeOK /\ Dated /\ RolesAreCounted /\ [Next]_vars => RolesAreCounted'
<1> SUFFICES ASSUME TypeOK, Dated, RolesAreCounted, [Next]_vars PROVE RolesAreCounted'
  OBVIOUS
<1>1. CASE Frame \/ Quiet \/ Show \/ PressH \/ PressN \/ PressY
  <2>1. UNCHANGED <<set, accepted>> /\ (Whole' <=> Whole)
    BY <1>1, SetStays, KeysKeepTheSet
  <2> QED
    BY <2>1 DEF set, RolesAreCounted
<1>2. CASE Refuse
  BY <1>2, RefusedIsNoSet DEF RolesAreCounted
<1>3. ASSUME NEW o \in Offers, Recv(o) PROVE RolesAreCounted'
  <2>1. o.roles \in Seq(Roles) /\ Len(o.roles) \in 1 .. MaxQ
    BY BackgroundAssumption
  <2>2. /\ gates' = Count(o.roles, "gate") /\ classes' = Count(o.roles, "class")
        /\ (Count(o.roles, "gate") # 0 <=> Count(o.roles, "class") # 0)
    BY <1>3 DEF Recv, TakeSet, Half
  <2>3. gates' \in Nat /\ classes' \in Nat
    BY <2>2, CountIsBounded
  <2>4. gates' > 0 <=> \E i \in DOMAIN o.roles : o.roles[i] = "gate"
    BY <2>2, CountIsBounded
  <2>5. nq' = Len(o.roles) /\ \A i \in 0 .. nq' - 1 : query'[i].role = o.roles[i + 1]
    BY <1>3, AcceptedIsTheSet
  <2>6. \A i \in DOMAIN o.roles : i - 1 \in 0 .. nq' - 1 /\ (i - 1) + 1 = i
    BY <2>1, <2>5
  <2>7. \A i \in 0 .. nq' - 1 : i + 1 \in DOMAIN o.roles
    BY <2>1, <2>5
  <2>8. gates' > 0 <=> \E i \in 0 .. nq' - 1 : query'[i].role = "gate"
    BY <2>4, <2>5, <2>6, <2>7
  <2> QED
    BY <2>2, <2>3, <2>8 DEF RolesAreCounted
<1> QED
  BY <1>1, <1>2, <1>3, StepIsOfAKind DEF Accept

\* Only a class that can be shown is being shown, or has been.
LEMMA EnrollableStep == TypeOK /\ Dated /\ ShownIsEnrollable /\ [Next]_vars => ShownIsEnrollable'
<1> SUFFICES ASSUME TypeOK, Dated, ShownIsEnrollable, [Next]_vars PROVE ShownIsEnrollable'
  OBVIOUS
<1>1. CASE Refuse
  BY <1>1, RefusedIsNoSet DEF ShownIsEnrollable
<1>2. CASE PressN \/ PressY \/ Accept
  <2>1. EnrolForget
    BY <1>2 DEF PressN, PressY, Accept, Recv
  <2>2. want' = None /\ \A i \in Queries : ~ref'[i].on
    <3>1. \A i \in 0 .. MaxQ : ~ref'[i].on
      BY <2>1 DEF EnrolForget, TypeOK
    <3>2. Queries \subseteq 0 .. MaxQ
      BY BackgroundAssumption DEF Queries
    <3>3. want' = None
      BY <2>1 DEF EnrolForget
    <3> QED
      BY <3>1, <3>2, <3>3
  <2> QED
    BY <2>2 DEF ShownIsEnrollable
<1>3. CASE Frame \/ Quiet \/ Show \/ PressH
  <2>1. (Whole' <=> Whole) /\ Enrollable' = Enrollable
    BY <1>3, SetStays, KeysKeepTheSet
  <2>2. CASE Quiet \/ PressH
    BY <2>1, <2>2 DEF Quiet, NoKey, PressH, vars, window, ShownIsEnrollable
  <2>3. CASE Show
    BY <2>1, <2>3 DEF Show, Digit, ShownIsEnrollable
  <2>4. CASE Frame
    <3>1. want' \in {want, None}
      BY <2>4 DEF Frame, FrameIdle, FrameInWindow, FrameFolds, window
    <3>2. \A i \in Queries : ref'[i].on => ref[i].on \/ i = want
      BY <2>4, BackgroundAssumption
         DEF Frame, FrameIdle, FrameInWindow, FrameFolds, window, TypeOK, Queries
    <3>3. \A i \in Queries : i # Empty /\ i # None
      BY BackgroundAssumption DEF Queries, Empty
    <3> QED
      BY <2>1, <3>1, <3>2, <3>3 DEF ShownIsEnrollable
  <2> QED
    BY <1>3, <2>2, <2>3, <2>4
<1> QED
  BY <1>1, <1>2, <1>3, StepIsOfAKind

-----------------------------------------------------------------------------
\* The invariant holds at power-up.
LEMMA InitIInv == Init => IInv
<1> SUFFICES ASSUME Init PROVE IInv
  OBVIOUS
<1>1. TypeOK
  BY InitTypeOK
<1>2. ~Whole /\ want = None /\ \A i \in 0 .. MaxQ : ~ref[i].on /\ ref[i].vis = 0
  BY DEF Init, Whole
<1>3. Dated /\ SpreadIsCounted /\ WarmAtKeys
  BY DEF Init, Dated, SpreadIsCounted, WarmAtKeys
<1> QED
  BY <1>1, <1>2, <1>3
     DEF IInv, MeanIsOfThisSet, WindowIsGood, WindowIsOnePress, OnIsVisited, VisitsAreOld,
         VisitsAreCounted, ReferencesAreOfThisRoom, ShownIsEnrollable, RolesAreCounted

\* Every step keeps it.
LEMMA StepIInv == IInv /\ [Next]_vars => IInv'
BY TypeStep, DatedStep, BackgroundStep, WarmStep, ShownStep, RolesStep, EnrollableStep
   DEF IInv, Shown

\* Every reachable state satisfies the invariant.
LEMMA BackgroundInductive == Spec => []IInv
BY InitIInv, StepIInv, PTL DEF Spec

\* Every variable has its type, for any sets, windows and number of presses.
THEOREM TypeCorrect == Spec => []TypeOK
<1>1. IInv => TypeOK
  BY DEF IInv
<1> QED
  BY <1>1, BackgroundInductive, PTL

\* References in force were taken against the queries in force, in the room in force,
\* and by its mean, whichever keys and sets came meanwhile.
THEOREM ReferencesAreSound == Spec => []ReferencesAreOfThisRoom
<1>1. IInv => ReferencesAreOfThisRoom
  BY DEF IInv
<1> QED
  BY <1>1, BackgroundInductive, PTL

\* A reference is its visits, each the whole window of one press, none counted twice.
THEOREM VisitsAreSound == Spec => []VisitsAreWhole
<1>1. ASSUME IInv PROVE VisitsAreWhole
  <2> SUFFICES ASSUME NEW i \in 0 .. MaxQ, ref[i].on
               PROVE  /\ ref[i].vis = Cardinality(ref[i].visits)
                      /\ \A v \in ref[i].visits :
                           Len(v) = EnrolN /\ Cardinality({v[k].press : k \in DOMAIN v}) = 1
    BY DEF VisitsAreWhole
  <2>1. ref[i].vis = Cardinality(ref[i].visits)
    BY <1>1 DEF IInv, VisitsAreCounted
  <2>2. ASSUME NEW v \in ref[i].visits
        PROVE  Len(v) = EnrolN /\ Cardinality({v[k].press : k \in DOMAIN v}) = 1
    <3>1. Len(v) = EnrolN /\ \A k \in DOMAIN v : v[k].press = v[1].press
      BY <1>1 DEF IInv, VisitsAreOld
    <3>2. 1 \in DOMAIN v
      BY <1>1, VisitHasPress DEF IInv
    <3>3. {v[k].press : k \in DOMAIN v} = {v[1].press}
      BY <3>1, <3>2
    <3> QED
      BY <3>1, <3>3, FS_Singleton
  <2> QED
    BY <2>1, <2>2
<1> QED
  BY <1>1, BackgroundInductive, PTL

\* The mean is of the queries in force and the spread of as many frames as it is
\* divided by, whichever rule 'H' chose and when.
THEOREM BackgroundIsSound == Spec => []BackgroundIsOfThisSet
<1>1. IInv => BackgroundIsOfThisSet
  BY DEF IInv, SpreadIsCounted, MeanIsOfThisSet, BackgroundIsOfThisSet
<1> QED
  BY <1>1, BackgroundInductive, PTL

\* Under an accepted set, the rule in force has a gate and a class to rank, or neither.
THEOREM RuleIsSound == Spec => []RuleHasItsQueries
<1>1. ASSUME IInv PROVE RuleHasItsQueries
  <2>1. nq \in Nat /\ 0 .. nq - 1 \subseteq Queries
    BY <1>1, BackgroundAssumption DEF IInv, TypeOK, Queries
  <2> QED
    BY <1>1, <2>1 DEF IInv, ShownIsEnrollable, RolesAreCounted, RuleHasItsQueries
<1> QED
  BY <1>1, BackgroundInductive, PTL

-----------------------------------------------------------------------------
\* A set of natural numbers has a least one.
LEMMA LeastIs ==
  ASSUME NEW T, T \subseteq Nat, T # {}
  PROVE  \E i \in T : \A j \in T : i <= j
<1> DEFINE R == {ss \in Nat \X Nat : ss[1] < ss[2]}
<1>1. IsWellFoundedOn(R, Nat)
  BY NatLessThanWellFounded DEF OpToRel
<1>2. \A x \in Nat, y \in Nat : y < x => <<y, x>> \in R
  OBVIOUS
<1> HIDE DEF R
<1>3. PICK i \in T : \A j \in T : ~(<<j, i>> \in R)
  BY <1>1, WFMin
<1>4. \A j \in T : ~(j < i)
  BY <1>2, <1>3
<1> QED
  BY <1>4

\* Finitely many of them have a bound.
LEMMA BoundIs ==
  ASSUME NEW f, NEW num \in Nat, \A i \in 0 .. (num - 1) : f[i] \in Nat
  PROVE  \E m \in Nat : \A i \in 0 .. (num - 1) : f[i] <= m
<1> DEFINE Bad == {k \in 0 .. num : ~(\E m \in Nat : \A i \in 0 .. (k - 1) : f[i] <= m)}
<1>1. SUFFICES ASSUME num \in Bad PROVE FALSE
  OBVIOUS
<1>2. Bad \subseteq Nat /\ Bad # {}
  <2>1. 0 .. num \subseteq Nat /\ Bad \subseteq 0 .. num
    OBVIOUS
  <2> HIDE DEF Bad
  <2> QED
    BY <1>1, <2>1
<1>3. PICK k \in Bad : \A j \in Bad : k <= j
  BY <1>2, LeastIs
<1>4. k \in 0 .. num /\ ~(\E m \in Nat : \A i \in 0 .. (k - 1) : f[i] <= m)
  BY <1>3
<1>5. k # 0
  BY <1>4
<1>6. k - 1 \in 0 .. num /\ k - 1 \notin Bad
  <2> HIDE DEF Bad
  <2>1. k - 1 \in 0 .. num /\ ~(k <= k - 1)
    BY <1>4, <1>5
  <2> QED
    BY <1>3, <2>1
<1>7. PICK m \in Nat : \A i \in 0 .. ((k - 1) - 1) : f[i] <= m
  BY <1>6
<1> HIDE DEF Bad
<1>8. f[k - 1] \in Nat
  BY <1>4, <1>5
<1> DEFINE M == IF f[k - 1] <= m THEN m ELSE f[k - 1]
<1>9. M \in Nat /\ m <= M /\ f[k - 1] <= M
  BY <1>8
<1>10. \A i \in 0 .. (k - 1) : f[i] <= M
  <2>1. TAKE i \in 0 .. (k - 1)
  <2>2. CASE i = k - 1
    BY <1>9, <2>2
  <2>3. CASE i # k - 1
    <3>1. i \in 0 .. ((k - 1) - 1) /\ i \in 0 .. (num - 1)
      BY <1>4, <2>3
    <3>2. f[i] <= m /\ f[i] \in Nat
      BY <1>7, <3>1
    <3> QED
      BY <1>9, <3>2
  <2> QED
    BY <2>2, <2>3
<1> QED
  BY <1>4, <1>9, <1>10

\* The greatest of a set that has a bound.
LEMMA GreatestIs ==
  ASSUME NEW S, S \subseteq Nat, NEW x \in S, NEW m \in Nat, \A y \in S : y <= m
  PROVE  Max(S) \in S /\ x <= Max(S)
<1> DEFINE U == {b \in Nat : \A y \in S : y <= b}
<1>1. U \subseteq Nat /\ U # {}
  OBVIOUS
<1>2. PICK b \in U : \A c \in U : b <= c
  BY <1>1, LeastIs
<1>3. b \in S
  <2>1. SUFFICES ASSUME b \notin S PROVE FALSE
    OBVIOUS
  <2>2. x <= b /\ x # b /\ b \in Nat
    BY <1>2, <2>1
  <2>3. b - 1 \in Nat
    BY <2>2
  <2>4. \A y \in S : y <= b - 1
    BY <1>2, <2>1
  <2>5. b - 1 \in U
    BY <2>3, <2>4
  <2> QED
    BY <1>2, <2>2, <2>5
<1>4. \A y \in S : b >= y
  BY <1>2
<1> QED
  BY <1>3, <1>4 DEF Max

\* The shapes of a blob.
LEMMA ShapesAre ==
  ASSUME NEW b \in Blobs, NEW i \in 1 .. NLayers(b)
  PROVE  LET d == b.desc[i] IN
         /\ d.cout \in Nat \ {0} /\ Points(d) \in Nat \ {0} /\ Taps(d) \in Nat \ {0}
         /\ d.cout * Points(d) \in Nat \ {0}
<1> DEFINE d == b.desc[i]
<1>1. /\ d.ksize \in Nat \ {0} /\ d.cin \in Nat \ {0} /\ d.cout \in Nat \ {0}
      /\ d.oh \in Nat \ {0} /\ d.ow \in Nat \ {0}
  BY EncoderAssumption DEF NLayers
<1> HIDE DEF d
<1>2. Points(d) \in Nat \ {0}
  BY <1>1 DEF Points
<1>3. Taps(d) \in Nat \ {0}
  <2>1. d.cin * d.ksize \in Nat \ {0}
    BY <1>1
  <2> QED
    BY <1>1, <2>1 DEF Taps
<1>4. d.cout * Points(d) \in Nat \ {0}
  BY <1>1, <1>2
<1> QED
  BY <1>1, <1>2, <1>3, <1>4 DEF d

\* Rounded up to a word.
LEMMA Up4Is == ASSUME NEW x \in Nat PROVE Up4(x) \in Nat /\ x <= Up4(x)
BY DEF Up4

\* What an output takes in a buffer.
OutBytes(b, i) == b.desc[i + 1].cout * Points(b.desc[i + 1]) * (IF EmitsFloat(b, i) THEN 4 ELSE 1)

\* A buffer that is asked for is as large as the output of each layer.
LEMMA OutputsFit ==
  ASSUME NEW b \in Blobs, NEW i \in 0 .. (NLayers(b) - 1)
  PROVE  /\ OutBytes(b, i) \in Nat /\ ScratchBytes(b) \in Nat
         /\ OutBytes(b, i) <= ScratchBytes(b)
<1> DEFINE in == b.in_ch * b.in_size * b.in_size
           num == NLayers(b)
           S == {in} \cup {OutBytes(b, k) : k \in 0 .. (num - 1)}
<1>1. num \in Nat /\ in \in Nat
  <2>1. num \in Nat /\ b.in_ch \in Nat /\ b.in_size \in Nat
    BY EncoderAssumption DEF NLayers
  <2>2. b.in_ch * b.in_size \in Nat
    BY <2>1
  <2> QED
    BY <2>1, <2>2
<1>2. \A k \in 0 .. (num - 1) : OutBytes(b, k) \in Nat
  <2>1. TAKE k \in 0 .. (num - 1)
  <2>2. k + 1 \in 1 .. num
    BY <1>1, <2>1
  <2> DEFINE x == b.desc[k + 1].cout * Points(b.desc[k + 1])
  <2>3. x \in Nat
    BY <2>2, ShapesAre
  <2>4. OutBytes(b, k) = x * (IF EmitsFloat(b, k) THEN 4 ELSE 1)
    BY Zenon DEF OutBytes
  <2> HIDE DEF x
  <2> QED
    BY <2>3, <2>4
<1>3. ScratchBytes(b) = Up4(Max(S))
  BY Zenon DEF ScratchBytes, OutBytes
<1> DEFINE f == [k \in 0 .. (num - 1) |-> OutBytes(b, k)]
<1>4. PICK m \in Nat : \A k \in 0 .. (num - 1) : f[k] <= m
  <2>1. \A k \in 0 .. (num - 1) : f[k] \in Nat
    BY <1>2
  <2> HIDE DEF f, num
  <2> QED
    BY <1>1, <2>1, BoundIs
<1> DEFINE M == in + m
<1> HIDE DEF num, in
<1>5. M \in Nat /\ \A y \in S : y <= M
  <2>1. M \in Nat /\ in <= M /\ m <= M
    BY <1>1, <1>4
  <2>2. \A k \in 0 .. (num - 1) : OutBytes(b, k) <= m
    BY <1>4
  <2> HIDE DEF M
  <2> QED
    BY <1>1, <1>2, <1>4, <2>1, <2>2
<1>6. OutBytes(b, i) \in S /\ S \subseteq Nat
  BY <1>1, <1>2 DEF num
<1> HIDE DEF S, M
<1>7. Max(S) \in Nat /\ OutBytes(b, i) <= Max(S)
  BY <1>5, <1>6, GreatestIs
<1>8. Up4(Max(S)) \in Nat /\ Max(S) <= Up4(Max(S))
  BY <1>7, Up4Is
<1>9. OutBytes(b, i) \in Nat
  BY <1>2 DEF num
<1> QED
  BY <1>3, <1>7, <1>8, <1>9

\* And the columns as large as a tile of each but the head's.
LEMMA ColumnsFit ==
  ASSUME NEW b \in Blobs, NEW i \in 1 .. (NLayers(b) - 1)
  PROVE  /\ Up4(Taps(b.desc[i])) * TILE \in Nat /\ ColBytes(b) \in Nat
         /\ Up4(Taps(b.desc[i])) * TILE <= ColBytes(b)
<1> DEFINE num == NLayers(b)
           f == [k \in 0 .. (num - 1) |-> IF k = 0 THEN 0 ELSE Up4(Taps(b.desc[k])) * TILE]
           S == {Up4(Taps(b.desc[k])) * TILE : k \in 1 .. (num - 1)}
<1>1. num \in Nat /\ TILE \in Nat
  BY EncoderAssumption DEF NLayers
<1>2. \A k \in 1 .. (num - 1) : Up4(Taps(b.desc[k])) * TILE \in Nat
  <2>1. TAKE k \in 1 .. (num - 1)
  <2>2. k \in 1 .. num
    BY <1>1, <2>1
  <2>3. Up4(Taps(b.desc[k])) \in Nat
    BY <2>2, ShapesAre, Up4Is
  <2> QED
    BY <1>1, <2>3
<1>3. ColBytes(b) = Max(S)
  BY Zenon DEF ColBytes
<1>4. PICK m \in Nat : \A k \in 0 .. (num - 1) : f[k] <= m
  <2>1. \A k \in 0 .. (num - 1) : f[k] \in Nat
    <3>1. \A k \in 0 .. (num - 1) : k = 0 \/ k \in 1 .. (num - 1)
      BY <1>1
    <3> QED
      BY <1>2, <3>1
  <2> HIDE DEF f, num
  <2> QED
    BY <1>1, <2>1, BoundIs
<1>5. \A y \in S : y <= m
  <2>1. SUFFICES ASSUME NEW k \in 1 .. (num - 1) PROVE Up4(Taps(b.desc[k])) * TILE <= m
    OBVIOUS
  <2>2. k \in 0 .. (num - 1) /\ k # 0
    BY <1>1, <2>1
  <2> HIDE DEF num
  <2>3. f[k] = Up4(Taps(b.desc[k])) * TILE
    BY <2>2
  <2> QED
    BY <1>4, <2>2, <2>3
<1>6. Up4(Taps(b.desc[i])) * TILE \in S /\ S \subseteq Nat
  BY <1>2
<1> HIDE DEF S, f
<1>7. Max(S) \in Nat /\ Up4(Taps(b.desc[i])) * TILE <= Max(S)
  BY <1>4, <1>5, <1>6, GreatestIs
<1> QED
  BY <1>2, <1>3, <1>7

\* The greatest of an interval.
LEMMA LastIs ==
  ASSUME NEW x \in Nat, NEW num \in Nat \ {0}
  PROVE  Max(x .. (x + num - 1)) = x + num - 1
<1> DEFINE S == x .. (x + num - 1)
           m == x + num - 1
<1>1. S \subseteq Nat /\ m \in S /\ m \in Nat /\ \A y \in S : y <= m
  OBVIOUS
<1> HIDE DEF S, m
<1>2. Max(S) \in S /\ m <= Max(S)
  BY <1>1, GreatestIs
<1>3. Max(S) = m
  <2>1. Max(S) <= m /\ Max(S) \in Nat /\ m \in Nat
    BY <1>1, <1>2
  <2> QED
    BY <1>2, <2>1
<1> QED
  BY <1>3 DEF S, m

\* Rows of P, so many of them, end before the next.
LEMMA RowFits ==
  ASSUME NEW P \in Nat, NEW num \in Nat, NEW r \in 0 .. (num - 1)
  PROVE  r * P \in Nat /\ (r * P) + P <= num * P
<1>1. r \in Nat /\ (num - 1) - r \in Nat
  OBVIOUS
<1>2. r * P \in Nat /\ ((num - 1) - r) * P \in Nat
  BY <1>1
<1>3. num * P = (r * P) + P + (((num - 1) - r) * P)
  OBVIOUS
<1> QED
  BY <1>2, <1>3

-----------------------------------------------------------------------------
\* A blob that is run was not refused; the kernel is at a layer of it, a channel of that
\* and a tile of its points.
RunInv ==
  /\ blob \in Blobs
  /\ phase \in {"boot", "failed", "image", "channel", "tile", "row", "mark", "head",
               "pooled", "done", "over", "undefined"}
  /\ phase \notin {"boot", "failed"} =>
       Opens(blob) /\ ScratchBytes(blob) <= SCRATCH_MAX /\ ColBytes(blob) <= COL_MAX
  /\ phase \in {"channel", "tile", "row", "mark"} => layer \in 0 .. (NLayers(blob) - 2)
  /\ phase \in {"channel", "row"} => oc \in 0 .. (Desc(layer).cout - 1)
  /\ phase \in {"tile", "row"} => t0 \in 0 .. (Points(Desc(layer)) - 1)
  /\ BuffersAreKept

\* What there is of the layer in hand.
LEMMA LayerIs ==
  ASSUME RunInv, phase \notin {"boot", "failed"}, NEW i \in 0 .. (NLayers(blob) - 2)
  PROVE  LET d == Desc(i)
             wide == IF EmitsFloat(blob, i) THEN 4 ELSE 1
         IN /\ d.cout \in Nat \ {0} /\ Points(d) \in Nat \ {0} /\ Taps(d) \in Nat \ {0}
            /\ d.cout * Points(d) \in Nat
            /\ (d.cout * Points(d)) * wide <= SCRATCH_MAX
            /\ Up4(Taps(d)) * TILE <= COL_MAX
<1>1. /\ blob \in Blobs /\ ScratchBytes(blob) <= SCRATCH_MAX /\ ColBytes(blob) <= COL_MAX
      /\ NLayers(blob) \in 2 .. 64
  BY DEF RunInv, Opens
<1>2. /\ i + 1 \in 1 .. NLayers(blob) /\ i \in 0 .. (NLayers(blob) - 1)
      /\ i + 1 \in 1 .. (NLayers(blob) - 1)
  BY <1>1
<1> DEFINE d == Desc(i)
<1>3. d = blob.desc[i + 1]
  BY DEF Desc
<1>4. /\ d.cout \in Nat \ {0} /\ Points(d) \in Nat \ {0} /\ Taps(d) \in Nat \ {0}
      /\ d.cout * Points(d) \in Nat \ {0}
  BY <1>1, <1>2, <1>3, ShapesAre
<1>5. /\ OutBytes(blob, i) \in Nat /\ ScratchBytes(blob) \in Nat
      /\ OutBytes(blob, i) <= ScratchBytes(blob)
  BY <1>1, <1>2, OutputsFit
<1>6. OutBytes(blob, i) = (d.cout * Points(d)) * (IF EmitsFloat(blob, i) THEN 4 ELSE 1)
  BY <1>3, Zenon DEF OutBytes
<1>7. /\ Up4(Taps(d)) * TILE \in Nat /\ ColBytes(blob) \in Nat
      /\ Up4(Taps(d)) * TILE <= ColBytes(blob)
  BY <1>1, <1>2, <1>3, ColumnsFit
<1>8. OutBytes(blob, i) <= SCRATCH_MAX
  <2>1. SCRATCH_MAX \in Nat
    BY EncoderAssumption
  <2> QED
    BY <1>1, <1>5, <2>1
<1>9. Up4(Taps(d)) * TILE <= COL_MAX
  <2>1. COL_MAX \in Nat
    BY EncoderAssumption
  <2> QED
    BY <1>1, <1>7, <2>1
<1> HIDE DEF d
<1> QED
  BY <1>4, <1>6, <1>8, <1>9 DEF d

\* At the start nothing runs, and nothing has been stored.
LEMMA RunInit == EncoderInit => RunInv
BY DEF EncoderInit, RunInv, BuffersAreKept

\* fgx_open() and m5b.c's two size checks let through only what RunInv says of the blob.
LEMMA OpenStep == RunInv /\ Open => RunInv'
BY DEF RunInv, Open, model, Desc, NLayers, BuffersAreKept, Wide

\* A store inside its buffer changes nothing about the others.
LEMMA KeptStill ==
  ASSUME RunInv, spilt' = spilt, blob' = blob
  PROVE  BuffersAreKept'
BY DEF RunInv, BuffersAreKept, Wide, NLayers

\* A layer is begun at its first point and its first channel.
LEMMA BeginsAt ==
  ASSUME RunInv, phase \notin {"boot", "failed"}, blob' = blob, spilt' = spilt,
         phase' \in {"channel", "tile"}, layer' \in 0 .. (NLayers(blob) - 2), oc' = 0, t0' = 0
  PROVE  RunInv'
<1>1. /\ Desc(layer').cout \in Nat \ {0} /\ Points(Desc(layer')) \in Nat \ {0}
  BY LayerIs
<1>2. Desc(layer)' = Desc(layer')
  BY DEF Desc
<1>3. 0 \in 0 .. (Desc(layer').cout - 1) /\ 0 \in 0 .. (Points(Desc(layer')) - 1)
  BY <1>1
<1>4. /\ Opens(blob') /\ ScratchBytes(blob') <= SCRATCH_MAX /\ ColBytes(blob') <= COL_MAX
      /\ BuffersAreKept'
  BY DEF RunInv, BuffersAreKept
<1> QED
  BY <1>2, <1>3, <1>4 DEF RunInv

\* An image is begun at the first layer.
LEMMA StartStep == RunInv /\ StartImage => RunInv'
<1> SUFFICES ASSUME RunInv, StartImage PROVE RunInv'
  OBVIOUS
<1>1. /\ phase = "image" /\ layer' = 0 /\ oc' = 0 /\ t0' = 0 /\ phase' \in {"channel", "tile"}
      /\ blob' = blob /\ spilt' = spilt
  BY DEF StartImage, Kernel, model
<1>2. 0 \in 0 .. (NLayers(blob) - 2)
  BY <1>1 DEF RunInv, Opens
<1> QED
  BY <1>1, <1>2, BeginsAt

\* The next layer is begun like the first; after the last comes the head.
LEMMA EndStep == RunInv /\ EndLayer => RunInv'
<1> SUFFICES ASSUME RunInv, EndLayer PROVE RunInv'
  OBVIOUS
<1>1. /\ phase = "mark" /\ layer' = layer + 1 /\ oc' = 0 /\ t0' = 0 /\ blob' = blob /\ spilt' = spilt
      /\ phase' = IF layer = NLayers(blob) - 2 THEN "head" ELSE Kernel
  BY DEF EndLayer, model
<1>2. layer \in 0 .. (NLayers(blob) - 2) /\ NLayers(blob) \in 2 .. 64
  BY <1>1 DEF RunInv, Opens
<1>3. CASE layer = NLayers(blob) - 2
  BY <1>1, <1>3 DEF RunInv, BuffersAreKept
<1>4. CASE layer # NLayers(blob) - 2
  <2>1. layer' \in 0 .. (NLayers(blob) - 2)
    BY <1>1, <1>2, <1>4
  <2>2. phase' \in {"channel", "tile"}
    BY <1>1, <1>4 DEF Kernel
  <2> QED
    BY <1>1, <2>1, <2>2, BeginsAt
<1> QED
  BY <1>3, <1>4

\* The reference's channel ends where the next begins.
LEMMA ChannelStep == RunInv /\ RefChannel => RunInv'
<1> SUFFICES ASSUME RunInv, RefChannel PROVE RunInv'
  OBVIOUS
<1> DEFINE d == Desc(layer)
           P == Points(d)
           base == oc * P
           wide == IF EmitsFloat(blob, layer) THEN 4 ELSE 1
<1>1. /\ phase = "channel" /\ oc' = oc + 1 /\ blob' = blob /\ layer' = layer
      /\ phase' = IF oc + 1 < d.cout THEN "channel" ELSE "mark"
      /\ Spills("scratch", (Max(base .. (base + P - 1)) + 1) * wide > SCRATCH_MAX)
  BY DEF RefChannel, Store, model
<1>2. layer \in 0 .. (NLayers(blob) - 2) /\ oc \in 0 .. (d.cout - 1)
  BY <1>1 DEF RunInv
<1>3. /\ d.cout \in Nat \ {0} /\ P \in Nat \ {0} /\ d.cout * P \in Nat
      /\ (d.cout * P) * wide <= SCRATCH_MAX
  BY <1>1, <1>2, LayerIs
<1>4. Desc(layer)' = d
  BY <1>1 DEF Desc
<1>5. SCRATCH_MAX \in Nat /\ wide \in {1, 4}
  BY EncoderAssumption
<1> DEFINE c == d.cout
<1> HIDE DEF d, P, wide, c
<1>6. ~((Max(base .. (base + P - 1)) + 1) * wide > SCRATCH_MAX)
  <2>1. c \in Nat \ {0} /\ oc \in 0 .. (c - 1) /\ c * P \in Nat /\ (c * P) * wide <= SCRATCH_MAX
    BY <1>2, <1>3 DEF c
  <2>2. base \in Nat /\ base + P <= c * P
    BY <1>3, <2>1, RowFits
  <2> HIDE DEF base
  <2>3. Max(base .. (base + P - 1)) = base + P - 1
    BY <1>3, <2>2, LastIs
  <2>4. (Max(base .. (base + P - 1)) + 1) * wide = (base + P) * wide
    BY <1>3, <2>2, <2>3
  <2>5. (base + P) * wide <= (c * P) * wide
    <3> DEFINE y == base + P
               z == c * P
    <3>1. y \in Nat /\ z \in Nat /\ y <= z
      BY <1>3, <2>1, <2>2
    <3> HIDE DEF y, z
    <3>2. y * wide <= z * wide
      BY <1>5, <3>1
    <3> QED
      BY <3>2 DEF y, z
  <2>6. (base + P) * wide \in Nat /\ (c * P) * wide \in Nat
    <3>1. base + P \in Nat
      BY <1>3, <2>2
    <3> QED
      BY <1>5, <2>1, <3>1
  <2> QED
    BY <1>5, <2>1, <2>4, <2>5, <2>6
<1>7. BuffersAreKept' /\ (phase' = "channel" => oc' \in 0 .. (d.cout - 1))
  <2>1. BuffersAreKept'
    <3>1. spilt' = spilt
      BY <1>1, <1>6, Zenon DEF Spills
    <3> QED
      BY <1>1, <3>1, KeptStill
  <2>2. phase' = "channel" => oc' \in 0 .. (d.cout - 1)
    BY <1>1, <1>2, <1>3
  <2> QED
    BY <2>1, <2>2
<1>8. phase' \in {"channel", "mark"}
  BY <1>1
<1>9. NLayers(blob') = NLayers(blob) /\ Desc(layer)'.cout = d.cout
  BY <1>1, <1>4
<1> QED
  BY <1>1, <1>2, <1>7, <1>8, <1>9 DEF RunInv

\* A tile's columns are no more than the tile has, nor than are left.
LEMMA TileIs ==
  ASSUME RunInv, phase \in {"tile", "row"}
  PROVE  LET d == Desc(layer)
             wide == Least(Points(d) - t0, TILE)
         IN wide \in Nat \ {0} /\ wide <= TILE /\ t0 + wide <= Points(d)
<1> DEFINE P == Points(Desc(layer))
<1>1. P \in Nat \ {0} /\ t0 \in 0 .. (P - 1) /\ TILE \in Nat \ {0}
  BY LayerIs, EncoderAssumption DEF RunInv
<1> HIDE DEF P
<1>2. LET wide == Least(P - t0, TILE) IN wide \in Nat \ {0} /\ wide <= TILE /\ t0 + wide <= P
  BY <1>1 DEF Least
<1> QED
  BY <1>2 DEF P

\* A tile's columns, each as long as the padded taps, are inside col_buf.
LEMMA ColumnsStep == RunInv /\ Im2col => RunInv'
<1> SUFFICES ASSUME RunInv, Im2col PROVE RunInv'
  OBVIOUS
<1> DEFINE d == Desc(layer)
           K == Taps(d)
           kpad == Up4(K)
           wide == Least(Points(d) - t0, TILE)
<1>1. /\ phase = "tile" /\ oc' = 0 /\ t0' = t0 /\ blob' = blob /\ layer' = layer /\ phase' = "row"
      /\ Spills("col", (wide - 1) * kpad + K > COL_MAX)
  BY DEF Im2col, model
<1>2. layer \in 0 .. (NLayers(blob) - 2) /\ t0 \in 0 .. (Points(d) - 1)
  BY <1>1 DEF RunInv
<1>3. d.cout \in Nat \ {0} /\ K \in Nat \ {0} /\ kpad * TILE <= COL_MAX
  BY <1>1, <1>2, LayerIs
<1>4. wide \in Nat \ {0} /\ wide <= TILE
  BY <1>1, TileIs
<1>5. kpad \in Nat /\ K <= kpad
  BY <1>3, Up4Is
<1>6. COL_MAX \in Nat /\ TILE \in Nat
  BY EncoderAssumption
<1>7. Desc(layer)' = d
  BY <1>1 DEF Desc
<1> HIDE DEF d, K, kpad, wide
<1>8. ~((wide - 1) * kpad + K > COL_MAX)
  <2>1. /\ (wide - 1) * kpad \in Nat /\ ((wide - 1) * kpad) + kpad <= TILE * kpad
    <3>1. wide - 1 \in 0 .. (TILE - 1)
      BY <1>4, <1>6
    <3> QED
      BY <1>5, <1>6, <3>1, RowFits
  <2>2. TILE * kpad = kpad * TILE /\ kpad * TILE \in Nat
    BY <1>5, <1>6
  <2> DEFINE y == (wide - 1) * kpad
             z == kpad * TILE
  <2>3. y \in Nat /\ z \in Nat /\ y + kpad <= z /\ z <= COL_MAX
    BY <1>3, <2>1, <2>2
  <2> HIDE DEF y, z
  <2>4. ~(y + K > COL_MAX)
    BY <1>3, <1>5, <1>6, <2>3
  <2> QED
    BY <2>4 DEF y
<1>9. 0 \in 0 .. (d.cout - 1) /\ BuffersAreKept'
  <2>1. BuffersAreKept'
    <3>1. spilt' = spilt
      BY <1>1, <1>8, Zenon DEF Spills
    <3> QED
      BY <1>1, <3>1, KeptStill
  <2> QED
    BY <1>3, <2>1
<1>10. Desc(layer)'.cout = d.cout /\ Points(Desc(layer))' = Points(d)
  BY <1>7
<1> QED
  BY <1>1, <1>2, <1>9, <1>10 DEF RunInv

\* A channel's row of a tile ends where that channel's points end.
LEMMA RowStep == RunInv /\ Row => RunInv'
<1> SUFFICES ASSUME RunInv, Row PROVE RunInv'
  OBVIOUS
<1> DEFINE d == Desc(layer)
           P == Points(d)
           num == Least(P - t0, TILE)
           base == oc * P + t0
           wide == IF EmitsFloat(blob, layer) THEN 4 ELSE 1
<1>1. /\ phase = "row" /\ oc' = oc + 1 /\ blob' = blob /\ layer' = layer
      /\ t0' = IF oc + 1 = d.cout THEN t0 + TILE ELSE t0
      /\ phase' = IF oc + 1 < d.cout THEN "row" ELSE IF t0 + TILE < P THEN "tile" ELSE "mark"
      /\ Spills("scratch", (Max(base .. (base + num - 1)) + 1) * wide > SCRATCH_MAX)
  BY DEF Row, Store, model
<1>2. /\ layer \in 0 .. (NLayers(blob) - 2) /\ oc \in 0 .. (d.cout - 1)
      /\ t0 \in 0 .. (P - 1)
  BY <1>1 DEF RunInv
<1>3. /\ d.cout \in Nat \ {0} /\ P \in Nat \ {0} /\ d.cout * P \in Nat
      /\ (d.cout * P) * wide <= SCRATCH_MAX
  BY <1>1, <1>2, LayerIs
<1>4. num \in Nat \ {0} /\ t0 + num <= P
  BY <1>1, TileIs
<1>5. SCRATCH_MAX \in Nat /\ wide \in {1, 4} /\ TILE \in Nat \ {0}
  BY EncoderAssumption
<1>6. Desc(layer)' = d
  BY <1>1 DEF Desc
<1> DEFINE c == d.cout
<1>7. c \in Nat \ {0} /\ oc \in 0 .. (c - 1) /\ c * P \in Nat /\ (c * P) * wide <= SCRATCH_MAX
  BY <1>2, <1>3
<1> HIDE DEF d, P, wide, c, num
<1>8. ~((Max(base .. (base + num - 1)) + 1) * wide > SCRATCH_MAX)
  <2>1. oc * P \in Nat /\ (oc * P) + P <= c * P
    BY <1>3, <1>7, RowFits
  <2> DEFINE r == oc * P
  <2>2. base \in Nat /\ base + num <= c * P
    <3>1. r \in Nat /\ r + P <= c * P /\ base = r + t0
      BY <2>1
    <3> HIDE DEF r, base
    <3> QED
      BY <1>2, <1>3, <1>4, <1>7, <3>1
  <2> HIDE DEF base
  <2>3. Max(base .. (base + num - 1)) = base + num - 1
    BY <1>4, <2>2, LastIs
  <2>4. (Max(base .. (base + num - 1)) + 1) * wide = (base + num) * wide
    BY <1>4, <2>2, <2>3
  <2> DEFINE y == base + num
             z == c * P
  <2>5. y \in Nat /\ z \in Nat /\ y <= z /\ z * wide <= SCRATCH_MAX
    BY <1>4, <1>7, <2>2
  <2> HIDE DEF y, z
  <2>6. y * wide <= z * wide /\ y * wide \in Nat /\ z * wide \in Nat
    BY <1>5, <2>5
  <2>7. ~(y * wide > SCRATCH_MAX)
    BY <1>5, <2>5, <2>6
  <2> QED
    BY <2>4, <2>7 DEF y
<1>9. /\ BuffersAreKept' /\ (phase' = "row" => oc' \in 0 .. (c - 1) /\ t0' = t0)
      /\ phase' = "tile" => t0' \in 0 .. (P - 1)
  <2>1. BuffersAreKept'
    <3>1. spilt' = spilt
      BY <1>1, <1>8, Zenon DEF Spills
    <3> QED
      BY <1>1, <3>1, KeptStill
  <2>2. phase' = "row" => oc' \in 0 .. (c - 1) /\ t0' = t0
    BY <1>1, <1>7 DEF c
  <2>3. phase' = "tile" => t0' \in 0 .. (P - 1)
    <3>1. SUFFICES ASSUME phase' = "tile" PROVE t0' \in 0 .. (P - 1)
      OBVIOUS
    <3>2. ~(oc + 1 < c) /\ t0 + TILE < P
      BY <1>1, <3>1 DEF c
    <3>3. t0' = t0 + TILE
      BY <1>1, <1>7, <3>2 DEF c
    <3> QED
      BY <1>2, <1>3, <1>5, <3>2, <3>3
  <2> QED
    BY <2>1, <2>2, <2>3
<1>10. phase' \in {"row", "tile", "mark"}
  BY <1>1
<1>11. Desc(layer)'.cout = c /\ Points(Desc(layer))' = P
  BY <1>6 DEF P, c
<1> QED
  BY <1>1, <1>2, <1>9, <1>10, <1>11 DEF RunInv

\* The head's codes, a byte each, are fewer than the floats they are the means of.
LEMMA MeansStep == RunInv /\ PoolMeans => RunInv'
<1> SUFFICES ASSUME RunInv, PoolMeans PROVE RunInv'
  OBVIOUS
<1> DEFINE codes == PoolCodes(blob, Tensor)
           i == NLayers(blob) - 2
           d == Desc(i)
           wide == IF EmitsFloat(blob, i) THEN 4 ELSE 1
<1>1. /\ phase = "head" /\ phase' = "pooled" /\ blob' = blob
      /\ Spills("scratch", (Max(DOMAIN codes) + 1) * 1 > SCRATCH_MAX)
  BY DEF PoolMeans, Store, model
<1>2. NLayers(blob) \in 2 .. 64
  BY <1>1 DEF RunInv, Opens
<1>3. i \in 0 .. (NLayers(blob) - 2) /\ i + 1 = NLayers(blob) - 1
  BY <1>2
<1>4. DOMAIN codes = 0 .. (d.cout - 1)
  BY <1>3 DEF PoolCodes, Desc
<1>5. /\ d.cout \in Nat \ {0} /\ Points(d) \in Nat \ {0}
      /\ (d.cout * Points(d)) * wide <= SCRATCH_MAX
  BY <1>1, <1>3, LayerIs
<1>6. SCRATCH_MAX \in Nat /\ wide \in {1, 4}
  BY EncoderAssumption
<1> DEFINE c == d.cout
           P == Points(d)
<1>7. c \in Nat \ {0} /\ P \in Nat \ {0} /\ (c * P) * wide <= SCRATCH_MAX /\ DOMAIN codes = 0 .. (c - 1)
  BY <1>4, <1>5
<1> HIDE DEF c, P, wide, d, codes
<1>8. Max(DOMAIN codes) = c - 1
  <2>1. Max(0 .. (0 + c - 1)) = 0 + c - 1
    BY <1>7, LastIs
  <2>2. 0 + c - 1 = c - 1
    BY <1>7
  <2> QED
    BY <1>7, <2>1, <2>2
<1>9. c <= c * P /\ c * P \in Nat
  <2>1. P - 1 \in Nat /\ c \in Nat
    BY <1>7
  <2>2. c * (P - 1) \in Nat /\ c * P = (c * (P - 1)) + c
    BY <1>7, <2>1
  <2> QED
    BY <1>7, <2>2
<1> DEFINE z == c * P
<1>10. z \in Nat /\ c <= z /\ z * wide <= SCRATCH_MAX
  BY <1>7, <1>9
<1> HIDE DEF z
<1>11. c <= SCRATCH_MAX
  BY <1>6, <1>7, <1>10
<1>12. BuffersAreKept'
  <2>1. ~((Max(DOMAIN codes) + 1) * 1 > SCRATCH_MAX)
    BY <1>6, <1>7, <1>8, <1>11
  <2>2. spilt' = spilt
    BY <1>1, <2>1, Zenon DEF Spills
  <2> QED
    BY <1>1, <2>2, KeptStill
<1> QED
  BY <1>1, <1>12 DEF RunInv

\* Only a head with more outputs than embed has floats is stored behind it.
LEMMA HeadStep == RunInv /\ RunHead => RunInv'
BY DEF RunInv, RunHead, BuffersAreKept, Spills, Wide, model, NLayers

\* The other kernel, or the next image, is of the same blob.
LEMMA ImageStep == RunInv /\ NextImage => RunInv'
BY DEF RunInv, NextImage, NLayers, Desc, BuffersAreKept, Wide

\* RunInv reads only the encoder's variables.
LEMMA IdleStep == RunInv /\ UNCHANGED encoderVars => RunInv'
BY DEF RunInv, encoderVars, model, NLayers, Desc, BuffersAreKept, Wide

\* Whatever the layers of the blob, the kernels run only one that was let through, and are
\* always at a channel of one of its layers and at a tile of that layer's points.
THEOREM RunInductive == EncoderSpec => []RunInv
<1>1. RunInv /\ [EncoderNext]_encoderVars => RunInv'
  BY OpenStep, StartStep, ChannelStep, ColumnsStep, RowStep, EndStep, MeansStep,
     HeadStep, ImageStep, IdleStep DEF EncoderNext
<1> QED
  BY <1>1, RunInit, PTL DEF EncoderSpec

\* A blob that fgx_open() and m5b.c's two size checks let through is never stored outside
\* scratch_a, scratch_b or col_buf, in either kernel, at any layer or in the means: neither
\* conv_ref() nor conv_fast() checks an index of its own.  It is stored behind embed only
\* if its head has more outputs than embed has floats, which no check is of.
THEOREM BuffersHold == EncoderSpec => []BuffersAreKept
<1>1. RunInv => BuffersAreKept
  BY DEF RunInv
<1> QED
  BY <1>1, RunInductive, PTL

=============================================================================
