---------------------------- MODULE WorkerProofs ----------------------------
(***************************************************************************)
(* Theorems about Worker for every ring size, every counter width and      *)
(* every horizon the assumption allows.                                    *)
(***************************************************************************)
EXTENDS WorkerRefinement, SequenceTheorems, TLAPS

\* A number is its quotient and its remainder, as `%' and `\div' define them.
LEMMA DivMod ==
  ASSUME NEW n \in Int, NEW d \in Nat \ {0}
  PROVE  /\ n = d * (n \div d) + (n % d)
         /\ n % d \in 0 .. (d - 1)
         /\ n \div d \in Int
  OBVIOUS

\* Two multiples of a number that are less than it apart are equal.
LEMMA NearMultiples ==
  ASSUME NEW d \in Nat \ {0}, NEW x \in Int, NEW y \in Int,
         d * x - d * y < d, d * y - d * x < d
  PROVE  x = y
<1>1. CASE x >= y + 1
  <2>1. d * x >= d * (y + 1)
    BY <1>1
  <2>2. d * (y + 1) = d * y + d
    OBVIOUS
  <2> QED BY <2>1, <2>2
<1>2. CASE y >= x + 1
  <2>1. d * y >= d * (x + 1)
    BY <1>2
  <2>2. d * (x + 1) = d * x + d
    OBVIOUS
  <2> QED BY <2>1, <2>2
<1> QED BY <1>1, <1>2

\* Numbers less than d apart with one remainder are equal.
LEMMA SameRemainder ==
  ASSUME NEW d \in Nat \ {0}, NEW a \in Int, NEW b \in Int,
         a % d = b % d, a - b < d, b - a < d
  PROVE  a = b
<1> DEFINE x == a \div d
           y == b \div d
<1>1. x \in Int /\ y \in Int /\ a = d * x + (a % d) /\ b = d * y + (b % d)
  BY DivMod
<1> HIDE DEF x, y
<1>2. d * x - d * y < d /\ d * y - d * x < d
  BY <1>1
<1>3. x = y
  BY <1>1, <1>2, NearMultiples
<1> QED BY <1>1, <1>3

\* Adding a multiple of the ring size to a count does not change its slot.
LEMMA WrapKeepsIndex ==
  ASSUME NEW n \in Nat
  PROVE  (n + Wrap) % Slots = n % Slots
<1> USE WorkerAssumption
<1> DEFINE k == Wrap \div Slots
           x == n \div Slots
           y == (n + Wrap) \div Slots
           r == n % Slots
           s == (n + Wrap) % Slots
<1>1. /\ k \in Int /\ Wrap = Slots * k + (Wrap % Slots)
  BY DivMod
<1>2. /\ x \in Int /\ n = Slots * x + r /\ r \in 0 .. (Slots - 1)
  BY DivMod
<1>3. /\ y \in Int /\ n + Wrap = Slots * y + s /\ s \in 0 .. (Slots - 1)
  <2>1. n + Wrap \in Int
    OBVIOUS
  <2> QED BY <2>1, DivMod
<1>4. Wrap = Slots * k
  BY <1>1
<1> HIDE DEF k, x, y, r, s
<1>5. Slots * (x + k) = Slots * x + Slots * k
  BY <1>1, <1>2
<1>6. /\ Slots * (x + k) - Slots * y < Slots
      /\ Slots * y - Slots * (x + k) < Slots
  BY <1>1, <1>2, <1>3, <1>4, <1>5
<1>7. x + k = y
  BY <1>1, <1>2, <1>3, <1>6, NearMultiples
<1>8. s = r
  BY <1>1, <1>2, <1>3, <1>4, <1>5, <1>7
<1> QED BY <1>8 DEF r, s

\* Two tickets less than a ring apart have slots of their own.
LEMMA SlotsApart ==
  ASSUME NEW a \in Count, NEW b \in Count, a # b, Sub(a, b) < Slots
  PROVE  Index(a) # Index(b)
<1>1. /\ Slots \in Nat \ {0} /\ Wrap \in Nat
      /\ a \in Nat /\ b \in Nat /\ a < Wrap /\ b < Wrap
  BY WorkerAssumption DEF Count
<1>2. CASE a >= b
  <2>1. a - b < Slots /\ b - a < Slots
    BY <1>1, <1>2 DEF Sub
  <2>2. a % Slots # b % Slots
    BY <1>1, <2>1, SameRemainder
  <2> QED BY <2>2 DEF Index
<1>3. CASE a < b
  <2>1. (a + Wrap) % Slots = a % Slots
    BY <1>1, WrapKeepsIndex
  <2> DEFINE c == a + Wrap
  <2>2. c \in Int /\ b \in Int /\ c # b /\ c - b < Slots /\ b - c < Slots
    BY <1>1, <1>3 DEF Sub
  <2> HIDE DEF c
  <2>3. c % Slots # b % Slots
    <3> SUFFICES ASSUME c % Slots = b % Slots PROVE FALSE
      OBVIOUS
    <3>1. Slots \in Nat \ {0}
      BY <1>1
    <3>2. c = b
      BY <2>2, <3>1, SameRemainder
    <3> QED BY <2>2, <3>2
  <2> QED BY <2>1, <2>3 DEF Index, c
<1> QED BY <1>1, <1>2, <1>3

\* A count names a slot of the ring.
LEMMA IndexInRing ==
  ASSUME NEW t \in Count
  PROVE  Index(t) \in 0 .. (Slots - 1)
BY WorkerAssumption DEF Count, Index

\* What the assumption says of the sizes.
LEMMA Bounds ==
  /\ Slots \in Nat \ {0} /\ Wrap \in Nat /\ Horizon \in Nat
  /\ 2 * Slots <= Wrap /\ 1 <= Horizon /\ 2 * Horizon + 2 <= Wrap
BY WorkerAssumption

\* Zero is a count.
LEMMA ZeroIsCount == 0 \in Count
BY Bounds DEF Count

\* The counters' arithmetic stays within their width, and tells equal from not.
LEMMA CountIsClosed ==
  ASSUME NEW m \in Count, NEW n \in Count
  PROVE  /\ Inc(m) \in Count /\ Sub(m, n) \in Count
         /\ Sub(m, n) = 0 <=> m = n
BY Bounds DEF Count, Inc, Sub

\* Every step keeps every variable in its type.
LEMMA TypeStep == TypeOK /\ [Next]_vars => TypeOK'
<1>0. SUFFICES ASSUME TypeOK, [Next]_vars PROVE TypeOK'
  OBVIOUS
<1> USE DEF TypeOK, Queues, shared, core0, core1, ghosts
<1>1. CASE Start
  BY <1>0, <1>1, ZeroIsCount DEF Start
<1>2. ASSUME NEW q \in Queues, Post(q) PROVE TypeOK'
  BY <1>0, <1>2 DEF Post
<1>3. CASE PostCheck
  BY <1>0, <1>3 DEF PostCheck
<1>4. CASE FillBegin
  BY <1>0, <1>4, IndexInRing DEF FillBegin
<1>5. CASE FillEnd
  BY <1>0, <1>5, IndexInRing DEF FillEnd
<1>6. CASE Publish
  <2>1. head' \in [Queues -> Count]
    BY <1>0, <1>6, CountIsClosed DEF Publish
  <2>2. held' \in [Queues -> Count \cup {None}]
    <3>1. \/ held' = [held EXCEPT ![q0] = t0] \/ held' = held
          \/ held' = [held EXCEPT ![q0] = None]
      BY <1>6 DEF Publish
    <3> QED BY <1>0, <3>1
  <2>3. unretired' \in [Queues -> BOOLEAN]
    <3>1. \/ unretired' = [unretired EXCEPT ![q0] = TRUE]
          \/ unretired' = unretired
          \/ unretired' = [unretired EXCEPT ![q0] = FALSE]
      BY <1>6 DEF Publish
    <3> QED BY <1>0, <3>1
  <2>4. passed' \in Nat /\ pc0' = "post_sev"
    BY <1>0, <1>6 DEF Publish
  <2>5. UNCHANGED <<tail, slot, started, ev, q0, t0, pc1, q1, job>>
    BY <1>6 DEF Publish
  <2> QED BY <1>0, <2>1, <2>2, <2>3, <2>4, <2>5
<1>7. CASE PostSev
  BY <1>0, <1>7, ZeroIsCount DEF PostSev
<1>8. ASSUME NEW q \in Queues, Wait(q) PROVE TypeOK'
  BY <1>0, <1>8 DEF Wait
<1>9. CASE WaitCheck
  BY <1>0, <1>9 DEF WaitCheck
<1>10. CASE Drain
  BY <1>0, <1>10, ZeroIsCount DEF Drain
<1>11. CASE DrainHi
  BY <1>0, <1>11 DEF DrainHi
<1>12. CASE DrainLo
  BY <1>0, <1>12 DEF DrainLo
<1>13. CASE Wfe0
  BY <1>0, <1>13 DEF Wfe0
<1>14. CASE ScanHi
  BY <1>0, <1>14 DEF ScanHi
<1>15. CASE ScanLo
  BY <1>0, <1>15 DEF ScanLo
<1>16. CASE Wfe1
  BY <1>0, <1>16 DEF Wfe1
<1>17. CASE Take
  BY <1>0, <1>17, IndexInRing DEF Take
<1>18. CASE Retire
  BY <1>0, <1>18, CountIsClosed DEF Retire
<1>19. CASE Sev1
  BY <1>0, <1>19 DEF Sev1
<1>20. CASE UNCHANGED vars
  BY <1>0, <1>20 DEF vars
<1> QED BY <1>0, <1>1, <1>2, <1>3, <1>4, <1>5, <1>6, <1>7, <1>8, <1>9, <1>10, <1>11, <1>12, <1>13, <1>14, <1>15, <1>16, <1>17, <1>18, <1>19, <1>20
  DEF Next, Caller, Core0Step, Core1Step

\* A ring never holds more jobs than it has slots.
LEMMA RingsStep == IInv /\ [Next]_vars => RingsBounded'
<1>0. SUFFICES ASSUME IInv, [Next]_vars PROVE RingsBounded'
  OBVIOUS
<1> USE DEF IInv, TypeOK, RingsBounded, Launched, Queues, Ready, Full,
           Length, Idle0, shared, core0, core1, ghosts
<1>1. CASE Start
  BY <1>0, <1>1, Bounds DEF Start, Sub
<1>2. ASSUME NEW q \in Queues, Post(q) PROVE RingsBounded'
  BY <1>0, <1>2 DEF Post
<1>3. CASE PostCheck
  <2>1. /\ head[q0] \in Count /\ tail[q0] \in Count
        /\ pc0' = "fill" => ~(Sub(head[q0], tail[q0]) >= Slots)
        /\ UNCHANGED <<head, tail, q0, t0>> /\ pc0 = "post"
    BY <1>0, <1>3 DEF PostCheck
  <2>2. pc0' = "fill" => Sub(head[q0], tail[q0]) < Slots
    BY <2>1, Bounds DEF Count, Sub
  <2> QED BY <1>0, <1>3, <2>1, <2>2 DEF PostCheck
<1>4. CASE FillBegin
  BY <1>0, <1>4 DEF FillBegin
<1>5. CASE FillEnd
  BY <1>0, <1>5 DEF FillEnd
<1>6. CASE Publish
  <2>1. /\ q0 \in Queues /\ head[q0] \in Count /\ tail[q0] \in Count
        /\ Sub(head[q0], tail[q0]) < Slots /\ t0 = head[q0]
        /\ head' = [head EXCEPT ![q0] = Inc(head[q0])]
        /\ pc0' = "post_sev"
        /\ UNCHANGED <<slot, tail, q0, t0, pc1, q1, job>>
    BY <1>0, <1>6 DEF Publish, RingsBounded, Length
  <2>2. Sub(Inc(head[q0]), tail[q0]) = Sub(head[q0], tail[q0]) + 1
    BY <2>1, Bounds DEF Count, Sub, Inc
  <2>3. head \in [Queues -> Count] /\ tail \in [Queues -> Count]
    BY <1>0
  <2>4. \A q \in Queues : q # q0 => Length(q)' = Length(q)
    BY <2>1, <2>3
  <2>5. Length(q0)' <= Slots
    BY <2>1, <2>2, <2>3, Bounds DEF Count, Sub
  <2> QED BY <1>0, <2>1, <2>4, <2>5
<1>7. CASE PostSev
  BY <1>0, <1>7 DEF PostSev
<1>8. ASSUME NEW q \in Queues, Wait(q) PROVE RingsBounded'
  BY <1>0, <1>8 DEF Wait
<1>9. CASE WaitCheck
  BY <1>0, <1>9 DEF WaitCheck
<1>10. CASE Drain
  BY <1>0, <1>10 DEF Drain
<1>11. CASE DrainHi
  BY <1>0, <1>11 DEF DrainHi
<1>12. CASE DrainLo
  BY <1>0, <1>12 DEF DrainLo
<1>13. CASE Wfe0
  BY <1>0, <1>13 DEF Wfe0
<1>14. CASE ScanHi
  BY <1>0, <1>14 DEF ScanHi
<1>15. CASE ScanLo
  BY <1>0, <1>15 DEF ScanLo
<1>16. CASE Wfe1
  BY <1>0, <1>16 DEF Wfe1
<1>17. CASE Take
  BY <1>0, <1>17 DEF Take
<1>18. CASE Retire
  <2>1. /\ q1 \in Queues /\ head[q1] \in Count /\ tail[q1] \in Count
        /\ head[q1] # tail[q1]
        /\ tail' = [tail EXCEPT ![q1] = Inc(tail[q1])]
        /\ pc1' = "sev"
        /\ UNCHANGED <<head, slot, held, pc0, q0, t0, q1>>
    BY <1>0, <1>18 DEF Retire, SlotsHoldJobs, Ready, core0
  <2>2. Sub(head[q1], Inc(tail[q1])) = Sub(head[q1], tail[q1]) - 1
    BY <2>1, Bounds DEF Count, Sub, Inc
  <2>3. head \in [Queues -> Count] /\ tail \in [Queues -> Count]
    BY <1>0
  <2>4. \A q \in Queues : q # q1 => Length(q)' = Length(q)
    BY <2>1, <2>3
  <2>5. Length(q1)' = Length(q1) - 1
    BY <2>1, <2>2, <2>3
  <2>6. Length(q1) \in Nat /\ Length(q0) \in Nat
    BY <2>3, <1>0, Bounds DEF Count, Sub
  <2> QED BY <1>0, <2>1, <2>4, <2>5, <2>6, Bounds
<1>19. CASE Sev1
  BY <1>0, <1>19 DEF Sev1
<1>20. CASE UNCHANGED vars
  BY <1>0, <1>20 DEF vars
<1> QED BY <1>0, <1>1, <1>2, <1>3, <1>4, <1>5, <1>6, <1>7, <1>8, <1>9, <1>10, <1>11, <1>12, <1>13, <1>14, <1>15, <1>16, <1>17, <1>18, <1>19, <1>20
  DEF Next, Caller, Core0Step, Core1Step

\* Nothing happens before w1_start().
LEMMA LaunchedStep == IInv /\ [Next]_vars => Launched'
<1>0. SUFFICES ASSUME IInv, [Next]_vars PROVE Launched'
  OBVIOUS
<1> USE DEF IInv, TypeOK, Launched, Queues, Idle0, shared, core0, core1, ghosts
<1>1. CASE Start
  BY <1>0, <1>1 DEF Start
<1>2. ASSUME NEW q \in Queues, Post(q) PROVE Launched'
  BY <1>0, <1>2 DEF Post
<1>3. CASE PostCheck
  BY <1>0, <1>3 DEF PostCheck
<1>4. CASE FillBegin
  BY <1>0, <1>4 DEF FillBegin
<1>5. CASE FillEnd
  BY <1>0, <1>5 DEF FillEnd
<1>6. CASE Publish
  BY <1>0, <1>6 DEF Publish
<1>7. CASE PostSev
  BY <1>0, <1>7 DEF PostSev
<1>8. ASSUME NEW q \in Queues, Wait(q) PROVE Launched'
  BY <1>0, <1>8 DEF Wait
<1>9. CASE WaitCheck
  BY <1>0, <1>9 DEF WaitCheck
<1>10. CASE Drain
  BY <1>0, <1>10 DEF Drain
<1>11. CASE DrainHi
  BY <1>0, <1>11 DEF DrainHi
<1>12. CASE DrainLo
  BY <1>0, <1>12 DEF DrainLo
<1>13. CASE Wfe0
  BY <1>0, <1>13 DEF Wfe0
<1>14. CASE ScanHi
  BY <1>0, <1>14 DEF ScanHi
<1>15. CASE ScanLo
  BY <1>0, <1>15 DEF ScanLo
<1>16. CASE Wfe1
  BY <1>0, <1>16 DEF Wfe1
<1>17. CASE Take
  BY <1>0, <1>17 DEF Take
<1>18. CASE Retire
  BY <1>0, <1>18 DEF Retire
<1>19. CASE Sev1
  BY <1>0, <1>19 DEF Sev1
<1>20. CASE UNCHANGED vars
  BY <1>0, <1>20 DEF vars
<1> QED BY <1>0, <1>1, <1>2, <1>3, <1>4, <1>5, <1>6, <1>7, <1>8, <1>9, <1>10, <1>11, <1>12, <1>13, <1>14, <1>15, <1>16, <1>17, <1>18, <1>19, <1>20
  DEF Next, Caller, Core0Step, Core1Step

\* Nothing is posted while core 0 looks at the two rings in turn.
LEMMA DrainStep == IInv /\ [Next]_vars => DrainSees'
<1>0. SUFFICES ASSUME IInv, [Next]_vars PROVE DrainSees'
  OBVIOUS
<1> USE DEF IInv, TypeOK, DrainSees, DrainMeansIdle, Ready, Launched, Queues, Idle0,
           SlotsHoldJobs, shared, core0, core1, ghosts
<1>1. CASE Start
  BY <1>0, <1>1 DEF Start
<1>2. ASSUME NEW q \in Queues, Post(q) PROVE DrainSees'
  BY <1>0, <1>2 DEF Post
<1>3. CASE PostCheck
  BY <1>0, <1>3 DEF PostCheck
<1>4. CASE FillBegin
  BY <1>0, <1>4 DEF FillBegin
<1>5. CASE FillEnd
  BY <1>0, <1>5 DEF FillEnd
<1>6. CASE Publish
  BY <1>0, <1>6 DEF Publish
<1>7. CASE PostSev
  BY <1>0, <1>7 DEF PostSev
<1>8. ASSUME NEW q \in Queues, Wait(q) PROVE DrainSees'
  BY <1>0, <1>8 DEF Wait
<1>9. CASE WaitCheck
  BY <1>0, <1>9 DEF WaitCheck
<1>10. CASE Drain
  BY <1>0, <1>10 DEF Drain
<1>11. CASE DrainHi
  BY <1>0, <1>11 DEF DrainHi
<1>12. CASE DrainLo
  BY <1>0, <1>12 DEF DrainLo
<1>13. CASE Wfe0
  BY <1>0, <1>13 DEF Wfe0
<1>14. CASE ScanHi
  BY <1>0, <1>14 DEF ScanHi
<1>15. CASE ScanLo
  BY <1>0, <1>15 DEF ScanLo
<1>16. CASE Wfe1
  BY <1>0, <1>16 DEF Wfe1
<1>17. CASE Take
  BY <1>0, <1>17 DEF Take
<1>18. CASE Retire
  BY <1>0, <1>18 DEF Retire
<1>19. CASE Sev1
  BY <1>0, <1>19 DEF Sev1
<1>20. CASE UNCHANGED vars
  BY <1>0, <1>20 DEF vars
<1> QED BY <1>0, <1>1, <1>2, <1>3, <1>4, <1>5, <1>6, <1>7, <1>8, <1>9, <1>10, <1>11, <1>12, <1>13, <1>14, <1>15, <1>16, <1>17, <1>18, <1>19, <1>20
  DEF Next, Caller, Core0Step, Core1Step

\* Core 1 looks at W1_HI again after every job.
LEMMA OvertakenStep == IInv /\ [Next]_vars => OvertakenOnce'
<1>0. SUFFICES ASSUME IInv, [Next]_vars PROVE OvertakenOnce'
  OBVIOUS
<1> USE DEF IInv, TypeOK, OvertakenOnce, Ready, Launched, Queues, Idle0,
           SlotsHoldJobs, shared, core0, core1, ghosts
<1>1. CASE Start
  BY <1>0, <1>1 DEF Start
<1>2. ASSUME NEW q \in Queues, Post(q) PROVE OvertakenOnce'
  BY <1>0, <1>2 DEF Post
<1>3. CASE PostCheck
  BY <1>0, <1>3 DEF PostCheck
<1>4. CASE FillBegin
  BY <1>0, <1>4 DEF FillBegin
<1>5. CASE FillEnd
  BY <1>0, <1>5 DEF FillEnd
<1>6. CASE Publish
  <2>1. /\ q0 \in Queues /\ head[q0] \in Count /\ tail[q0] \in Count
        /\ Sub(head[q0], tail[q0]) < Slots /\ t0 = head[q0]
        /\ head' = [head EXCEPT ![q0] = Inc(head[q0])]
        /\ pc0' = "post_sev"
        /\ UNCHANGED <<slot, tail, q0, t0, pc1, q1, job>>
    BY <1>0, <1>6 DEF Publish, RingsBounded, Length
  <2>2. Sub(Inc(head[q0]), tail[q0]) = Sub(head[q0], tail[q0]) + 1
    BY <2>1, Bounds DEF Count, Sub, Inc
  <2>3. head \in [Queues -> Count] /\ tail \in [Queues -> Count]
    BY <1>0
  <2>4. Inc(head[q0]) # tail[q0]
    BY <2>1, Bounds DEF Count, Sub, Inc
  <2> QED BY <1>0, <1>6, <2>1, <2>4 DEF Publish
<1>7. CASE PostSev
  BY <1>0, <1>7 DEF PostSev
<1>8. ASSUME NEW q \in Queues, Wait(q) PROVE OvertakenOnce'
  BY <1>0, <1>8 DEF Wait
<1>9. CASE WaitCheck
  BY <1>0, <1>9 DEF WaitCheck
<1>10. CASE Drain
  BY <1>0, <1>10 DEF Drain
<1>11. CASE DrainHi
  BY <1>0, <1>11 DEF DrainHi
<1>12. CASE DrainLo
  BY <1>0, <1>12 DEF DrainLo
<1>13. CASE Wfe0
  BY <1>0, <1>13 DEF Wfe0
<1>14. CASE ScanHi
  BY <1>0, <1>14 DEF ScanHi
<1>15. CASE ScanLo
  BY <1>0, <1>15 DEF ScanLo
<1>16. CASE Wfe1
  BY <1>0, <1>16 DEF Wfe1
<1>17. CASE Take
  BY <1>0, <1>17 DEF Take
<1>18. CASE Retire
  BY <1>0, <1>18 DEF Retire
<1>19. CASE Sev1
  BY <1>0, <1>19 DEF Sev1
<1>20. CASE UNCHANGED vars
  BY <1>0, <1>20 DEF vars
<1> QED BY <1>0, <1>1, <1>2, <1>3, <1>4, <1>5, <1>6, <1>7, <1>8, <1>9, <1>10, <1>11, <1>12, <1>13, <1>14, <1>15, <1>16, <1>17, <1>18, <1>19, <1>20
  DEF Next, Caller, Core0Step, Core1Step

\* A ticket the caller holds stays within half the counters' range.
LEMMA TicketsStep == IInv /\ [Next]_vars => TicketsRecent'
<1>0. SUFFICES ASSUME IInv, [Next]_vars PROVE TicketsRecent'
  OBVIOUS
<1> USE DEF IInv, TypeOK, TicketsRecent, WaitMeansDone, Ready, Launched, Queues,
           IsOutstanding, Length, Idle0, shared, core0, core1, ghosts
<1>1. CASE Start
  BY <1>0, <1>1 DEF Start
<1>2. ASSUME NEW q \in Queues, Post(q) PROVE TicketsRecent'
  BY <1>0, <1>2 DEF Post
<1>3. CASE PostCheck
  BY <1>0, <1>3 DEF PostCheck
<1>4. CASE FillBegin
  BY <1>0, <1>4 DEF FillBegin
<1>5. CASE FillEnd
  BY <1>0, <1>5 DEF FillEnd
<1>6. CASE Publish
  <2>1. /\ q0 \in Queues /\ head[q0] \in Count /\ tail[q0] \in Count
        /\ Sub(head[q0], tail[q0]) < Slots /\ t0 = head[q0]
        /\ head' = [head EXCEPT ![q0] = Inc(head[q0])]
        /\ pc0' = "post_sev"
        /\ UNCHANGED <<slot, tail, q0, t0, pc1, q1, job>>
    BY <1>0, <1>6 DEF Publish, RingsBounded, Length
  <2>2. Sub(Inc(head[q0]), tail[q0]) = Sub(head[q0], tail[q0]) + 1
    BY <2>1, Bounds DEF Count, Sub, Inc
  <2>3. head \in [Queues -> Count] /\ tail \in [Queues -> Count]
    BY <1>0
  <2>4. \A q \in Queues : held'[q] # None => Sub(head'[q], held'[q]) \in 1 .. Horizon
    <3>1. \A q \in Queues : q # q0 => held'[q] = held[q] /\ head'[q] = head[q]
      BY <1>0, <1>6 DEF Publish
    <3>2. \/ held'[q0] = t0
          \/ /\ held'[q0] = held[q0] /\ held[q0] # None
             /\ Sub(Inc(t0), held[q0]) <= Horizon
          \/ held'[q0] = None
      BY <1>0, <1>6 DEF Publish
    <3>3. ASSUME held'[q0] # None
          PROVE  Sub(Inc(head[q0]), held'[q0]) \in 1 .. Horizon
      <4>1. held[q0] # None =>
              held[q0] \in Count /\ Sub(head[q0], held[q0]) \in 1 .. Horizon
        BY <1>0, <2>1
      <4> QED BY <2>1, <3>2, <3>3, <4>1, Bounds DEF Count, Sub, Inc
    <3> QED BY <1>0, <2>1, <2>3, <3>1, <3>3
  <2>5. ASSUME NEW q \in Queues, unretired'[q]
        PROVE  held'[q] # None /\ Sub(held'[q], tail[q]) < Sub(head'[q], tail[q])
    <3>1. CASE q # q0
      <4>1. held'[q] = held[q] /\ head'[q] = head[q] /\ unretired[q]
        BY <1>0, <1>6, <2>5, <3>1 DEF Publish
      <4> QED BY <1>0, <4>1
    <3>2. CASE q = q0
      <4>1. \/ held'[q0] = t0
            \/ held'[q0] = held[q0] /\ unretired[q0]
        BY <1>0, <1>6, <2>5, <3>2 DEF Publish
      <4>2. CASE held'[q0] = t0
        BY <2>1, <2>2, <2>3, <3>2, <4>2, Bounds, WorkerAssumption DEF Count, Sub, Inc
      <4>3. CASE held'[q0] = held[q0] /\ unretired[q0]
        <5>1. held[q0] # None /\ Sub(held[q0], tail[q0]) < Sub(head[q0], tail[q0])
          BY <1>0, <2>1, <4>3
        <5>2. held[q0] \in Count
          BY <1>0, <2>1, <5>1
        <5> QED BY <2>1, <2>2, <2>3, <3>2, <4>3, <5>1, <5>2, Bounds
                DEF Count, Sub
      <4> QED BY <4>1, <4>2, <4>3
    <3> QED BY <3>1, <3>2
  <2> QED BY <2>1, <2>4, <2>5
<1>7. CASE PostSev
  BY <1>0, <1>7 DEF PostSev
<1>8. ASSUME NEW q \in Queues, Wait(q) PROVE TicketsRecent'
  BY <1>0, <1>8 DEF Wait
<1>9. CASE WaitCheck
  <2>1. /\ t0 \in Count /\ tail[q0] \in Count /\ head[q0] \in Count
        /\ t0 = held[q0] /\ Sub(head[q0], tail[q0]) <= Slots
        /\ unretired[q0] => Sub(t0, tail[q0]) < Sub(head[q0], tail[q0])
    BY <1>0, <1>9 DEF WaitCheck, RingsBounded
  <2>2. done(q0, t0) => ~unretired[q0]
    BY <2>1, Bounds DEF done, Count, Sub
  <2> QED BY <1>0, <1>9, <2>1, <2>2 DEF WaitCheck
<1>10. CASE Drain
  BY <1>0, <1>10 DEF Drain
<1>11. CASE DrainHi
  BY <1>0, <1>11 DEF DrainHi
<1>12. CASE DrainLo
  BY <1>0, <1>12 DEF DrainLo
<1>13. CASE Wfe0
  BY <1>0, <1>13 DEF Wfe0
<1>14. CASE ScanHi
  BY <1>0, <1>14 DEF ScanHi
<1>15. CASE ScanLo
  BY <1>0, <1>15 DEF ScanLo
<1>16. CASE Wfe1
  BY <1>0, <1>16 DEF Wfe1
<1>17. CASE Take
  BY <1>0, <1>17 DEF Take
<1>18. CASE Retire
  <2>1. /\ q1 \in Queues /\ head[q1] \in Count /\ tail[q1] \in Count
        /\ head[q1] # tail[q1]
        /\ tail' = [tail EXCEPT ![q1] = Inc(tail[q1])]
        /\ pc1' = "sev"
        /\ UNCHANGED <<head, slot, held, pc0, q0, t0, q1>>
    BY <1>0, <1>18 DEF Retire, SlotsHoldJobs, Ready, core0
  <2>2. Sub(head[q1], Inc(tail[q1])) = Sub(head[q1], tail[q1]) - 1
    BY <2>1, Bounds DEF Count, Sub, Inc
  <2>3. head \in [Queues -> Count] /\ tail \in [Queues -> Count]
    BY <1>0
  <2>4. ASSUME NEW q \in Queues, unretired'[q]
        PROVE  held[q] # None /\ Sub(held[q], tail'[q]) < Sub(head[q], tail'[q])
    <3>1. /\ unretired[q] /\ held[q] # None /\ held[q] \in Count
          /\ Sub(held[q], tail[q]) < Sub(head[q], tail[q])
      BY <1>0, <1>18, <2>4 DEF Retire
    <3>2. CASE q = q1
      <4>1. held[q] # tail[q]
        BY <1>0, <1>18, <2>4, <3>2 DEF Retire
      <4>2. Sub(held[q], Inc(tail[q])) = Sub(held[q], tail[q]) - 1
        BY <2>1, <3>1, <3>2, <4>1, Bounds DEF Count, Sub, Inc
      <4>3. tail'[q] = Inc(tail[q])
        BY <2>1, <2>3, <3>2
      <4> QED BY <2>1, <2>2, <3>1, <3>2, <4>2, <4>3, Bounds DEF Count, Sub
    <3>3. CASE q # q1
      BY <2>1, <2>3, <3>1, <3>3
    <3> QED BY <3>2, <3>3
  <2>5. ~unretired[q0] => ~unretired'[q0]
    BY <1>0, <1>18 DEF Retire
  <2> QED BY <1>0, <2>1, <2>4, <2>5
<1>19. CASE Sev1
  BY <1>0, <1>19 DEF Sev1
<1>20. CASE UNCHANGED vars
  BY <1>0, <1>20 DEF vars
<1> QED BY <1>0, <1>1, <1>2, <1>3, <1>4, <1>5, <1>6, <1>7, <1>8, <1>9, <1>10, <1>11, <1>12, <1>13, <1>14, <1>15, <1>16, <1>17, <1>18, <1>19, <1>20
  DEF Next, Caller, Core0Step, Core1Step

\* A slot is not written while the job in it is outstanding.
LEMMA SlotsStep == IInv /\ [Next]_vars => SlotsHoldJobs'
<1>0. SUFFICES ASSUME IInv, [Next]_vars PROVE SlotsHoldJobs'
  OBVIOUS
<1> USE DEF IInv, TypeOK, SlotsHoldJobs, RunsTheJobPosted, Ready, Launched, Queues,
           IsOutstanding, Length, Idle0, shared, core0, core1, ghosts
<1>1. CASE Start
  BY <1>0, <1>1, Bounds DEF Start, Count, Sub
<1>2. ASSUME NEW q \in Queues, Post(q) PROVE SlotsHoldJobs'
  BY <1>0, <1>2 DEF Post
<1>3. CASE PostCheck
  BY <1>0, <1>3 DEF PostCheck
<1>4. CASE FillBegin
  <2>1. /\ slot' = [slot EXCEPT ![q0][Index(head[q0])] = Torn]
        /\ q0 \in Queues /\ head[q0] \in Count /\ tail[q0] \in Count
        /\ t0 = head[q0] /\ Sub(head[q0], tail[q0]) < Slots
        /\ UNCHANGED <<head, tail, pc1, q1, job>>
    BY <1>0, <1>4 DEF FillBegin, RingsBounded
  <2>2. ASSUME NEW q \in Queues, NEW t \in Count,
               Sub(t, tail[q]) < Sub(head[q], tail[q])
        PROVE  slot'[q][Index(t)] = t
    <3>1. slot[q][Index(t)] = t
      BY <1>0, <2>2
    <3>2. slot \in [Queues -> [0 .. (Slots - 1) -> Count \cup {Torn, None}]]
      BY <1>0
    <3>3. CASE q # q0
      BY <2>1, <3>1, <3>2, <3>3
    <3>4. CASE q = q0
      <4>1. head[q0] # t /\ Sub(head[q0], t) < Slots
        BY <2>1, <2>2, <3>4, Bounds DEF Count, Sub
      <4>2. Index(head[q0]) # Index(t)
        BY <2>1, <4>1, SlotsApart
      <4> QED BY <2>1, <3>1, <3>2, <3>4, <4>2
    <3> QED BY <3>3, <3>4
  <2>3. pc0' = "fill2"
    BY <1>4 DEF FillBegin
  <2> QED BY <1>0, <2>1, <2>2, <2>3
<1>5. CASE FillEnd
  <2>1. /\ slot' = [slot EXCEPT ![q0][Index(head[q0])] = t0]
        /\ q0 \in Queues /\ head[q0] \in Count /\ tail[q0] \in Count
        /\ t0 = head[q0] /\ Sub(head[q0], tail[q0]) < Slots
        /\ UNCHANGED <<head, tail, pc1, q1, job>>
    BY <1>0, <1>5 DEF FillEnd, RingsBounded
  <2>2. ASSUME NEW q \in Queues, NEW t \in Count,
               Sub(t, tail[q]) < Sub(head[q], tail[q])
        PROVE  slot'[q][Index(t)] = t
    <3>1. slot[q][Index(t)] = t
      BY <1>0, <2>2
    <3>2. slot \in [Queues -> [0 .. (Slots - 1) -> Count \cup {Torn, None}]]
      BY <1>0
    <3>3. CASE q # q0
      BY <2>1, <3>1, <3>2, <3>3
    <3>4. CASE q = q0
      <4>1. head[q0] # t /\ Sub(head[q0], t) < Slots
        BY <2>1, <2>2, <3>4, Bounds DEF Count, Sub
      <4>2. Index(head[q0]) # Index(t)
        BY <2>1, <4>1, SlotsApart
      <4> QED BY <2>1, <3>1, <3>2, <3>4, <4>2
    <3> QED BY <3>3, <3>4
  <2>3. slot'[q0][Index(t0)] = t0 /\ t0' = t0 /\ q0' = q0
    BY <1>0, <1>5, <2>1, IndexInRing DEF FillEnd
  <2> QED BY <1>0, <2>1, <2>2, <2>3
<1>6. CASE Publish
  <2>1. /\ q0 \in Queues /\ head[q0] \in Count /\ tail[q0] \in Count
        /\ Sub(head[q0], tail[q0]) < Slots /\ t0 = head[q0]
        /\ head' = [head EXCEPT ![q0] = Inc(head[q0])]
        /\ pc0' = "post_sev"
        /\ UNCHANGED <<slot, tail, q0, t0, pc1, q1, job>>
    BY <1>0, <1>6 DEF Publish, RingsBounded, Length
  <2>2. Sub(Inc(head[q0]), tail[q0]) = Sub(head[q0], tail[q0]) + 1
    BY <2>1, Bounds DEF Count, Sub, Inc
  <2>3. head \in [Queues -> Count] /\ tail \in [Queues -> Count]
    BY <1>0
  <2>4. slot[q0][Index(head[q0])] = head[q0]
    BY <1>0, <1>6, <2>1 DEF Publish
  <2>5. ASSUME NEW q \in Queues, NEW t \in Count,
               Sub(t, tail[q]) < Sub(head'[q], tail[q])
        PROVE  slot[q][Index(t)] = t
    <3>1. CASE q # q0
      BY <1>0, <2>1, <2>3, <2>5, <3>1
    <3>2. CASE q = q0 /\ t = head[q0]
      BY <2>4, <3>2
    <3>3. CASE q = q0 /\ t # head[q0]
      <4>1. Sub(t, tail[q0]) < Sub(Inc(head[q0]), tail[q0])
        BY <2>1, <2>3, <2>5, <3>3
      <4>2. Sub(t, tail[q0]) < Sub(head[q0], tail[q0])
        BY <2>1, <2>2, <3>3, <4>1, Bounds DEF Count, Sub
      <4> QED BY <1>0, <2>1, <3>3, <4>2
    <3> QED BY <3>1, <3>2, <3>3
  <2>6. Inc(head[q0]) # tail[q0]
    BY <2>1, Bounds DEF Count, Sub, Inc
  <2>7. \A q \in Queues : head[q] # tail[q] => head'[q] # tail[q]
    BY <2>1, <2>3, <2>6
  <2> QED BY <1>0, <2>1, <2>5, <2>7
<1>7. CASE PostSev
  BY <1>0, <1>7 DEF PostSev
<1>8. ASSUME NEW q \in Queues, Wait(q) PROVE SlotsHoldJobs'
  BY <1>0, <1>8 DEF Wait
<1>9. CASE WaitCheck
  BY <1>0, <1>9 DEF WaitCheck
<1>10. CASE Drain
  BY <1>0, <1>10 DEF Drain
<1>11. CASE DrainHi
  BY <1>0, <1>11 DEF DrainHi
<1>12. CASE DrainLo
  BY <1>0, <1>12 DEF DrainLo
<1>13. CASE Wfe0
  BY <1>0, <1>13 DEF Wfe0
<1>14. CASE ScanHi
  BY <1>0, <1>14 DEF ScanHi
<1>15. CASE ScanLo
  BY <1>0, <1>15 DEF ScanLo
<1>16. CASE Wfe1
  BY <1>0, <1>16 DEF Wfe1
<1>17. CASE Take
  <2>1. /\ head[q1] # tail[q1] /\ q1 \in Queues
        /\ head[q1] \in Count /\ tail[q1] \in Count
    BY <1>0, <1>17 DEF Take
  <2>2. Sub(tail[q1], tail[q1]) < Sub(head[q1], tail[q1])
    BY <2>1, Bounds DEF Count, Sub
  <2>3. slot[q1][Index(tail[q1])] = tail[q1]
    BY <1>0, <2>1, <2>2
  <2> QED BY <1>0, <1>17, <2>3 DEF Take
<1>18. CASE Retire
  <2>1. /\ q1 \in Queues /\ head[q1] \in Count /\ tail[q1] \in Count
        /\ head[q1] # tail[q1]
        /\ tail' = [tail EXCEPT ![q1] = Inc(tail[q1])]
        /\ pc1' = "sev"
        /\ UNCHANGED <<head, slot, held, pc0, q0, t0, q1>>
    BY <1>0, <1>18 DEF Retire, SlotsHoldJobs, Ready, core0
  <2>2. Sub(head[q1], Inc(tail[q1])) = Sub(head[q1], tail[q1]) - 1
    BY <2>1, Bounds DEF Count, Sub, Inc
  <2>3. head \in [Queues -> Count] /\ tail \in [Queues -> Count]
    BY <1>0
  <2>4. ASSUME NEW q \in Queues, NEW t \in Count,
               Sub(t, tail'[q]) < Sub(head[q], tail'[q])
        PROVE  slot[q][Index(t)] = t
    <3>1. CASE q # q1
      BY <1>0, <2>1, <2>3, <2>4, <3>1
    <3>2. CASE q = q1
      <4>1. Sub(t, Inc(tail[q])) < Sub(head[q], Inc(tail[q]))
        BY <2>1, <2>3, <2>4, <3>2
      <4>2. Sub(t, tail[q]) < Sub(head[q], tail[q])
        BY <2>1, <3>2, <4>1, Bounds DEF Count, Sub, Inc
      <4> QED BY <1>0, <4>2
    <3> QED BY <3>1, <3>2
  <2> QED BY <1>0, <2>1, <2>4
<1>19. CASE Sev1
  BY <1>0, <1>19 DEF Sev1
<1>20. CASE UNCHANGED vars
  BY <1>0, <1>20 DEF vars
<1> QED BY <1>0, <1>1, <1>2, <1>3, <1>4, <1>5, <1>6, <1>7, <1>8, <1>9, <1>10, <1>11, <1>12, <1>13, <1>14, <1>15, <1>16, <1>17, <1>18, <1>19, <1>20
  DEF Next, Caller, Core0Step, Core1Step

\* The invariant holds before w1_start().
LEMMA InitIInv == Init => IInv
<1>0. SUFFICES ASSUME Init PROVE IInv
  OBVIOUS
<1> USE DEF Init, Queues, Idle0, Ready
<1>1. TypeOK
  BY <1>0, ZeroIsCount DEF TypeOK
<1>2. \A q \in Queues : Length(q) = 0
  BY <1>0 DEF Length, Sub
<1>3. RingsBounded
  BY <1>0, <1>2, Bounds DEF RingsBounded
<1>4. \A q \in Queues : \A t \in Count : ~IsOutstanding(q, t)
  BY <1>0, <1>2, Bounds DEF IsOutstanding, Count, Sub
<1>5. SlotsHoldJobs
  BY <1>0, <1>4 DEF SlotsHoldJobs, RunsTheJobPosted
<1>6. Launched /\ TicketsRecent /\ DrainSees /\ OvertakenOnce
  BY <1>0 DEF Launched, TicketsRecent, WaitMeansDone, DrainSees, DrainMeansIdle,
              OvertakenOnce
<1> QED BY <1>1, <1>3, <1>5, <1>6 DEF IInv

\* Every step of either core keeps the invariant.
LEMMA StepIInv == IInv /\ [Next]_vars => IInv'
BY TypeStep, RingsStep, LaunchedStep, SlotsStep, TicketsStep, DrainStep, OvertakenStep
   DEF IInv

\* IInv holds for every ring size, counter width and horizon.
THEOREM Inductive == Spec => []IInv
<1>1. Init => IInv
  BY InitIInv
<1>2. IInv /\ [Next]_vars => IInv'
  BY StepIInv
<1> QED BY <1>1, <1>2, PTL DEF Spec

\* The variables keep their types: no counter leaves its width.
THEOREM TypeCorrect == Spec => []TypeOK
<1>1. IInv => TypeOK
  BY DEF IInv
<1> QED BY <1>1, Inductive, PTL

\* Core 1 never runs a torn, unwritten or reused slot (w1_post, w1_main).
THEOREM JobsAreWhole == Spec => []RunsTheJobPosted
<1>1. IInv => RunsTheJobPosted
  BY DEF IInv, SlotsHoldJobs
<1> QED BY <1>1, Inductive, PTL

\* w1_wait() does not return before the job of its ticket has finished.
THEOREM WaitIsSound == Spec => []WaitMeansDone
<1>1. IInv => WaitMeansDone
  BY DEF IInv, TicketsRecent
<1> QED BY <1>1, Inductive, PTL

\* w1_drain() returns with both rings empty and core 1 between jobs.
THEOREM DrainIsSound == Spec => []DrainMeansIdle
<1>1. IInv => DrainMeansIdle
  BY DEF IInv, DrainSees
<1> QED BY <1>1, Inductive, PTL

\* A W1_HI job is overtaken by at most one W1_LO job.
THEOREM OneLoAtMost == Spec => []HiWaitsForOneLo
<1>1. IInv => HiWaitsForOneLo
  BY DEF IInv, TypeOK, OvertakenOnce, HiWaitsForOneLo
<1> QED BY <1>1, Inductive, PTL

-----------------------------------------------------------------------------
(***************************************************************************)
(* worker.c implements JobQueues.  Under IInv a ring holds its tickets in  *)
(* order, so that what the cores do to it is read off head and tail alone: *)
(* publishing appends, taking begins, retiring removes, and nothing else   *)
(* shows.                                                                  *)
(***************************************************************************)

\* The ticket k after n.
Plus(n, k) == IF n + k < Wrap THEN n + k ELSE (n + k) - Wrap

\* The tickets of q not yet retired, oldest first.
Tickets(q) == [i \in 1 .. Length(q) |-> Plus(tail[q], i - 1)]

\* What Tail returns, as a function.
LEMMA TailIs ==
  ASSUME NEW S, NEW s \in Seq(S), s # <<>>
  PROVE  Tail(s) = [i \in 1 .. (Len(s) - 1) |-> s[i + 1]]
<1> DEFINE t == [i \in 1 .. (Len(s) - 1) |-> s[i + 1]]
<1>1. /\ Tail(s) \in Seq(S) /\ Len(Tail(s)) = Len(s) - 1
      /\ \A i \in 1 .. (Len(s) - 1) : Tail(s)[i] = s[i + 1]
  OBVIOUS
<1>2. Len(s) - 1 \in Nat /\ \A i \in 1 .. (Len(s) - 1) : s[i + 1] \in S
  OBVIOUS
<1>3. t \in Seq(S) /\ Len(t) = Len(s) - 1
  BY <1>2
<1>4. \A i \in 1 .. Len(t) : t[i] = Tail(s)[i]
  BY <1>1, <1>3
<1> HIDE DEF t
<1>5. t = Tail(s)
  BY <1>1, <1>3, <1>4, SeqEqual
<1> QED
  BY <1>5 DEF t

\* What a count and its successors are.
LEMMA PlusIsCount ==
  ASSUME NEW n \in Count, NEW k \in Nat, k < Wrap
  PROVE  /\ Plus(n, k) \in Count /\ Sub(Plus(n, k), n) = k
         /\ Index(Plus(n, k)) = Index(n + k)
<1>1. n \in Nat /\ n < Wrap /\ Wrap \in Nat
  BY Bounds DEF Count
<1>2. Plus(n, k) \in Count /\ Sub(Plus(n, k), n) = k
  BY <1>1 DEF Plus, Count, Sub
<1>3. CASE n + k < Wrap
  BY <1>2, <1>3 DEF Plus
<1>4. CASE ~(n + k < Wrap)
  <2> DEFINE m == (n + k) - Wrap
  <2>1. m \in Nat /\ n + k = m + Wrap /\ Plus(n, k) = m
    BY <1>1, <1>4 DEF Plus
  <2> HIDE DEF m
  <2>2. (m + Wrap) % Slots = m % Slots
    BY <2>1, WrapKeepsIndex
  <2> QED
    BY <1>2, <2>1, <2>2 DEF Index
<1> QED
  BY <1>3, <1>4

\* A ring's length is a number no larger than the ring.
LEMMA LengthIsNat ==
  ASSUME IInv, NEW q \in Queues
  PROVE  /\ head[q] \in Count /\ tail[q] \in Count
         /\ Length(q) \in Nat /\ Length(q) <= Slots /\ Length(q) < Wrap
<1>1. head[q] \in Count /\ tail[q] \in Count
  BY DEF IInv, TypeOK
<1>2. Length(q) \in Count /\ Length(q) <= Slots
  BY <1>1, CountIsClosed DEF IInv, RingsBounded, Length
<1> QED
  BY <1>1, <1>2, Bounds DEF Count

\* A ring's slots hold its tickets.
LEMMA RingHoldsTickets ==
  ASSUME IInv, NEW q \in Queues
  PROVE  Outstanding(q) = Tickets(q)
<1>1. /\ head[q] \in Count /\ tail[q] \in Count
      /\ Length(q) \in Nat /\ Length(q) <= Slots /\ Length(q) < Wrap
  BY LengthIsNat
<1>2. ASSUME NEW i \in 1 .. Length(q)
      PROVE  slot[q][Index(tail[q] + (i - 1))] = Plus(tail[q], i - 1)
  <2>1. i - 1 \in Nat /\ i - 1 < Length(q) /\ i - 1 < Wrap
    BY <1>1, Bounds
  <2>2. /\ Plus(tail[q], i - 1) \in Count /\ Sub(Plus(tail[q], i - 1), tail[q]) = i - 1
        /\ Index(Plus(tail[q], i - 1)) = Index(tail[q] + (i - 1))
    BY <1>1, <2>1, PlusIsCount
  <2>3. IsOutstanding(q, Plus(tail[q], i - 1))
    BY <2>1, <2>2 DEF IsOutstanding
  <2>4. slot[q][Index(Plus(tail[q], i - 1))] = Plus(tail[q], i - 1)
    BY <2>2, <2>3 DEF IInv, SlotsHoldJobs
  <2> QED
    BY <2>2, <2>4
<1> QED
  BY <1>2 DEF Outstanding, Tickets, Length

\* The tickets are a sequence as long as the ring, and the first is the one core 1 runs.
LEMMA TicketsAre ==
  ASSUME IInv, NEW q \in Queues
  PROVE  /\ Tickets(q) \in Seq(Count) /\ Len(Tickets(q)) = Length(q)
         /\ Ready(q) => Tickets(q) # <<>> /\ Head(Tickets(q)) = tail[q]
<1>1. /\ head[q] \in Count /\ tail[q] \in Count
      /\ Length(q) \in Nat /\ Length(q) < Wrap
  BY LengthIsNat
<1>2. ASSUME NEW i \in 1 .. Length(q) PROVE Plus(tail[q], i - 1) \in Count
  <2>1. i - 1 \in Nat /\ i - 1 < Wrap
    BY <1>1, Bounds
  <2> QED
    BY <1>1, <2>1, PlusIsCount
<1>3. Tickets(q) \in Seq(Count) /\ Len(Tickets(q)) = Length(q)
  BY <1>1, <1>2 DEF Tickets
<1>4. ASSUME Ready(q) PROVE Tickets(q) # <<>> /\ Head(Tickets(q)) = tail[q]
  <2>1. Length(q) # 0
    BY <1>1, <1>4, CountIsClosed DEF Ready, Length
  <2>2. 1 \in 1 .. Length(q)
    BY <1>1, <2>1
  <2>3. Tickets(q)[1] = Plus(tail[q], 0)
    BY <2>2 DEF Tickets
  <2>4. Plus(tail[q], 0) = tail[q]
    BY <1>1, Bounds DEF Plus, Count
  <2> QED
    BY <1>3, <2>1, <2>3, <2>4
<1> QED
  BY <1>3, <1>4

-----------------------------------------------------------------------------
\* What the abstract queues are, under the invariant.
LEMMA RingsAre == IInv => Rings = [q \in Queues |-> Tickets(q)]
BY RingHoldsTickets DEF Rings

\* And after a step that keeps it.
LEMMA RingsWillBe == IInv' => Rings' = [q \in Queues |-> Tickets(q)']
<1>1. IInv' => (Rings = [q \in Queues |-> Tickets(q)])'
  BY RingsAre, PTL
<1> QED
  BY <1>1

\* Publishing a job appends it.
LEMMA PublishAppends ==
  ASSUME IInv, IInv', Publish
  PROVE  /\ q0 \in Queues /\ t0 \in Count /\ Length(q0) < Slots
         /\ Tickets(q0)' = Append(Tickets(q0), t0)
         /\ \A q \in Queues : q # q0 => Tickets(q)' = Tickets(q)
<1>1. /\ q0 \in Queues /\ t0 = head[q0] /\ Length(q0) < Slots
      /\ head' = [head EXCEPT ![q0] = Inc(head[q0])] /\ UNCHANGED <<tail, q0>>
      /\ head \in [Queues -> Count]
  BY DEF IInv, TypeOK, RingsBounded, Publish
<1>2. /\ head[q0] \in Count /\ tail[q0] \in Count
      /\ Length(q0) \in Nat /\ Length(q0) < Wrap
  BY <1>1, LengthIsNat
<1>3. Sub(Inc(head[q0]), tail[q0]) = Length(q0) + 1
  BY <1>1, <1>2, Bounds DEF Count, Sub, Inc, Length
<1>4. Length(q0)' = Length(q0) + 1
  BY <1>1, <1>3 DEF Length
<1>5. Plus(tail[q0], Length(q0)) = head[q0]
  BY <1>2, Bounds DEF Plus, Count, Length, Sub
<1>6. /\ Tickets(q0) \in Seq(Count) /\ Len(Tickets(q0)) = Length(q0)
      /\ Tickets(q0)' \in Seq(Count)
  <2>1. Tickets(q0) \in Seq(Count) /\ Len(Tickets(q0)) = Length(q0)
    BY <1>1, TicketsAre
  <2>2. ASSUME NEW i \in 1 .. Length(q0) + 1 PROVE Plus(tail[q0], i - 1) \in Count
    <3>1. i - 1 \in Nat /\ i - 1 < Wrap
      BY <1>2, Bounds
    <3> QED
      BY <1>2, <3>1, PlusIsCount
  <2>3. Tickets(q0)' = [i \in 1 .. Length(q0) + 1 |-> Plus(tail[q0], i - 1)]
    BY <1>1, <1>4 DEF Tickets
  <2> QED
    BY <1>2, <2>1, <2>2, <2>3
<1>7. Tickets(q0)' = Append(Tickets(q0), t0)
  <2>1. Tickets(q0)' = [i \in 1 .. Length(q0) + 1 |-> Plus(tail[q0], i - 1)]
    BY <1>1, <1>4 DEF Tickets
  <2>2. Append(Tickets(q0), t0) =
          [i \in 1 .. Length(q0) + 1 |-> IF i = Length(q0) + 1 THEN t0 ELSE Tickets(q0)[i]]
    BY <1>1, <1>2, <1>6
  <2>3. ASSUME NEW i \in 1 .. Length(q0) + 1
        PROVE  Plus(tail[q0], i - 1) = IF i = Length(q0) + 1 THEN t0 ELSE Tickets(q0)[i]
    <3>1. CASE i = Length(q0) + 1
      BY <1>1, <1>2, <1>5, <3>1
    <3>2. CASE i # Length(q0) + 1
      <4>1. i \in 1 .. Length(q0)
        BY <1>2, <3>2
      <4> QED
        BY <3>2, <4>1 DEF Tickets
    <3> QED
      BY <3>1, <3>2
  <2> QED
    BY <2>1, <2>2, <2>3
<1>8. ASSUME NEW q \in Queues, q # q0 PROVE Tickets(q)' = Tickets(q)
  <2>1. head'[q] = head[q] /\ tail'[q] = tail[q]
    BY <1>1, <1>8
  <2> QED
    BY <2>1 DEF Tickets, Length
<1> QED
  BY <1>1, <1>2, <1>7, <1>8

\* Retiring a job removes the first.
LEMMA RetireRemoves ==
  ASSUME IInv, IInv', Retire
  PROVE  /\ q1 \in Queues /\ Ready(q1)
         /\ Tickets(q1)' = Tail(Tickets(q1))
         /\ \A q \in Queues : q # q1 => Tickets(q)' = Tickets(q)
<1>1. /\ q1 \in Queues /\ Ready(q1)
      /\ tail' = [tail EXCEPT ![q1] = Inc(tail[q1])] /\ UNCHANGED <<head, q1>>
      /\ tail \in [Queues -> Count]
  BY DEF IInv, TypeOK, SlotsHoldJobs, Retire
<1>2. /\ head[q1] \in Count /\ tail[q1] \in Count /\ head[q1] # tail[q1]
      /\ Length(q1) \in Nat /\ Length(q1) < Wrap
  BY <1>1, LengthIsNat DEF Ready
<1>3. Sub(head[q1], Inc(tail[q1])) = Length(q1) - 1 /\ Length(q1) # 0
  BY <1>2, Bounds DEF Count, Sub, Inc, Length
<1>4. Length(q1)' = Length(q1) - 1 /\ tail'[q1] = Inc(tail[q1])
  BY <1>1, <1>3 DEF Length
<1>5. /\ Tickets(q1) \in Seq(Count) /\ Len(Tickets(q1)) = Length(q1) /\ Tickets(q1) # <<>>
  BY <1>1, TicketsAre
<1>6. Tickets(q1)' = Tail(Tickets(q1))
  <2>1. Tickets(q1)' = [i \in 1 .. Length(q1) - 1 |-> Plus(Inc(tail[q1]), i - 1)]
    BY <1>1, <1>4 DEF Tickets
  <2>2. Tail(Tickets(q1)) = [i \in 1 .. Length(q1) - 1 |-> Tickets(q1)[i + 1]]
    BY <1>5, TailIs
  <2>3. ASSUME NEW i \in 1 .. Length(q1) - 1
        PROVE  Plus(Inc(tail[q1]), i - 1) = Tickets(q1)[i + 1]
    <3>1. i + 1 \in 1 .. Length(q1) /\ (i + 1) - 1 = i
      BY <1>2
    <3>2. Tickets(q1)[i + 1] = Plus(tail[q1], i)
      BY <3>1 DEF Tickets
    <3>3. Plus(Inc(tail[q1]), i - 1) = Plus(tail[q1], i)
      BY <1>2, <3>1, Bounds DEF Plus, Inc, Count
    <3> QED
      BY <3>2, <3>3
  <2> QED
    BY <2>1, <2>2, <2>3
<1>7. ASSUME NEW q \in Queues, q # q1 PROVE Tickets(q)' = Tickets(q)
  <2>1. head'[q] = head[q] /\ tail'[q] = tail[q]
    BY <1>1, <1>7
  <2> QED
    BY <2>1 DEF Tickets, Length
<1> QED
  BY <1>1, <1>6, <1>7

-----------------------------------------------------------------------------
\* Publishing a job is the abstract Post.
LEMMA PublishPosts ==
  ASSUME IInv, IInv', Publish
  PROVE  q0 \in Queues /\ t0 \in Count /\ Abstract!Post(q0, t0)
<1>1. /\ q0 \in Queues /\ t0 \in Count /\ Length(q0) < Slots
      /\ Tickets(q0)' = Append(Tickets(q0), t0)
      /\ \A q \in Queues : q # q0 => Tickets(q)' = Tickets(q)
      /\ q0' = q0
  BY PublishAppends DEF Publish
<1>2. Rings = [q \in Queues |-> Tickets(q)] /\ Rings' = [q \in Queues |-> Tickets(q)']
  BY RingsAre, RingsWillBe
<1>3. Len(Rings[q0]) = Length(q0)
  BY <1>1, <1>2, TicketsAre
<1>4. Rings' = [Rings EXCEPT ![q0] = Append(Rings[q0], t0)]
  <2> DEFINE T(q) == Tickets(q)
             N(q) == Tickets(q)'
  <2>1. \A q \in Queues : N(q) = IF q = q0 THEN Append(T(q0), t0) ELSE T(q)
    BY <1>1
  <2>2. Rings = [q \in Queues |-> T(q)] /\ Rings' = [q \in Queues |-> N(q)]
    BY <1>2
  <2> HIDE DEF T, N
  <2> QED
    BY <1>1, <2>1, <2>2
<1>5. UNCHANGED Running
  BY DEF Publish, core1, Running
<1> QED
  BY <1>1, <1>3, <1>4, <1>5 DEF Abstract!Post

\* Retiring a job is the abstract Retire.
LEMMA RetireRetires ==
  ASSUME IInv, IInv', Retire
  PROVE  q1 \in Queues /\ Abstract!Retire(q1)
<1>1. /\ q1 \in Queues /\ Ready(q1) /\ Tickets(q1)' = Tail(Tickets(q1))
      /\ \A q \in Queues : q # q1 => Tickets(q)' = Tickets(q)
      /\ pc1 = "run" /\ pc1' = "sev" /\ q1' = q1 /\ job = tail[q1]
  BY RetireRemoves DEF Retire, IInv, SlotsHoldJobs, RunsTheJobPosted
<1>2. Rings = [q \in Queues |-> Tickets(q)] /\ Rings' = [q \in Queues |-> Tickets(q)']
  BY RingsAre, RingsWillBe
<1>3. Rings[q1] # <<>> /\ Head(Rings[q1]) = job
  BY <1>1, <1>2, TicketsAre
<1>4. Rings' = [Rings EXCEPT ![q1] = Tail(Rings[q1])]
  <2> DEFINE T(q) == Tickets(q)
             N(q) == Tickets(q)'
  <2>1. \A q \in Queues : N(q) = IF q = q1 THEN Tail(T(q1)) ELSE T(q)
    BY <1>1
  <2>2. Rings = [q \in Queues |-> T(q)] /\ Rings' = [q \in Queues |-> N(q)]
    BY <1>2
  <2> HIDE DEF T, N
  <2> QED
    BY <1>1, <2>1, <2>2
<1>5. Running = <<q1, job>> /\ Running' = None
  BY <1>1 DEF Running
<1> QED
  BY <1>1, <1>3, <1>4, <1>5 DEF Abstract!Retire

\* A step that moves neither count leaves the rings as they are.
LEMMA RingsStay ==
  ASSUME IInv, IInv', UNCHANGED <<head, tail>>
  PROVE  Rings' = Rings
<1>1. \A q \in Queues : Tickets(q)' = Tickets(q)
  BY DEF Tickets, Length
<1>2. Rings = [q \in Queues |-> Tickets(q)] /\ Rings' = [q \in Queues |-> Tickets(q)']
  BY RingsAre, RingsWillBe
<1> QED
  BY <1>1, <1>2

\* Core 1 beginning a job is the abstract Begin.
LEMMA TakeBegins ==
  ASSUME IInv, IInv', Take
  PROVE  q1 \in Queues /\ Abstract!Begin(q1)
<1>1. /\ q1 \in Queues /\ Ready(q1) /\ pc1 = "take" /\ pc1' = "run"
      /\ UNCHANGED <<head, tail, q1>>
  BY DEF IInv, TypeOK, SlotsHoldJobs, Take, shared
<1>2. job' = tail[q1]
  BY <1>1 DEF IInv, SlotsHoldJobs, RunsTheJobPosted
<1>3. Rings[q1] # <<>> /\ Head(Rings[q1]) = tail[q1]
  BY <1>1, RingsAre, TicketsAre
<1>4. Rings' = Rings
  BY <1>1, RingsStay
<1>5. Running = None /\ Running' = <<q1, tail[q1]>>
  BY <1>1, <1>2 DEF Running
<1> QED
  BY <1>1, <1>3, <1>4, <1>5 DEF Abstract!Begin

\* A step that neither moves a count nor begins or ends a job does not show.
LEMMA Stutters ==
  ASSUME IInv, IInv', UNCHANGED <<head, tail, job>>,
         pc1 = "run" => pc1' = "run" /\ q1' = q1, pc1' = "run" => pc1 = "run"
  PROVE  UNCHANGED Abstract!absvars
<1>1. Rings' = Rings
  BY RingsStay
<1>2. Running' = Running
  BY DEF Running
<1> QED
  BY <1>1, <1>2 DEF Abstract!absvars

\* Every step of Worker is a step of JobQueues or a stutter.
LEMMA StepRefines == IInv /\ IInv' /\ [Next]_vars => [Abstract!AbsNext]_(Abstract!absvars)
<1>0. SUFFICES ASSUME IInv, IInv', [Next]_vars
               PROVE  Abstract!AbsNext \/ UNCHANGED Abstract!absvars
  OBVIOUS
<1> USE DEF shared, core0, core1, ghosts
<1>1. CASE Start
  <2>1. pc1 = "off" /\ pc1' = "scan_hi" /\ UNCHANGED job
    BY <1>0, <1>1 DEF Start, IInv, Launched
  <2>2. head' = head /\ tail' = tail
    <3>1. /\ head \in [Queues -> Count] /\ tail \in [Queues -> Count]
          /\ \A q \in Queues : head[q] = 0 /\ tail[q] = 0
      BY <1>0, <1>1 DEF Start, IInv, TypeOK, Launched
    <3>2. head' = [q \in Queues |-> 0] /\ tail' = [q \in Queues |-> 0]
      BY <1>1 DEF Start
    <3> QED
      BY <3>1, <3>2
  <2> QED
    BY <1>0, <2>1, <2>2, Stutters
<1>2. CASE Drain \/ \E q \in Queues : Post(q) \/ Wait(q)
  <2>1. UNCHANGED <<head, tail, job, pc1, q1>>
    BY <1>2 DEF Drain, Post, Wait
  <2> QED
    BY <1>0, <2>1, Stutters
<1>3. CASE PostCheck \/ FillBegin \/ FillEnd \/ PostSev \/ WaitCheck
           \/ DrainHi \/ DrainLo \/ Wfe0
  <2>1. UNCHANGED <<head, tail, job, pc1, q1>>
    BY <1>3 DEF PostCheck, FillBegin, FillEnd, PostSev, WaitCheck, DrainHi, DrainLo, Wfe0
  <2> QED
    BY <1>0, <2>1, Stutters
<1>4. CASE Publish
  BY <1>0, <1>4, PublishPosts DEF Abstract!AbsNext
<1>5. CASE ScanHi \/ ScanLo \/ Wfe1 \/ Sev1
  <2>1. UNCHANGED <<head, tail, job>> /\ pc1 # "run" /\ pc1' # "run"
    BY <1>5 DEF ScanHi, ScanLo, Wfe1, Sev1
  <2> QED
    BY <1>0, <2>1, Stutters
<1>6. CASE Take
  BY <1>0, <1>6, TakeBegins DEF Abstract!AbsNext
<1>7. CASE Retire
  BY <1>0, <1>7, RetireRetires DEF Abstract!AbsNext
<1>8. CASE UNCHANGED vars
  <2>1. UNCHANGED <<head, tail, job, pc1, q1>>
    BY <1>8 DEF vars
  <2> QED
    BY <1>0, <2>1, Stutters
<1> QED
  BY <1>0, <1>1, <1>2, <1>3, <1>4, <1>5, <1>6, <1>7, <1>8
     DEF Next, Caller, Core0Step, Core1Step

\* The rings are empty, and core 1 is in no job, at first.
LEMMA InitRefines == Init => Abstract!AbsInit
<1>0. SUFFICES ASSUME Init PROVE Abstract!AbsInit
  OBVIOUS
<1>1. \A q \in Queues : Outstanding(q) = <<>>
  BY <1>0, Bounds DEF Init, Outstanding, Sub
<1>2. Rings = [q \in Queues |-> <<>>] /\ Running = None
  BY <1>0, <1>1 DEF Init, Rings, Running
<1> QED
  BY <1>2 DEF Abstract!AbsInit

\* worker.c implements two bounded FIFOs whose jobs run one at a time, each once and
\* in the order posted (w1_post, w1_main), for every ring size and counter width.
THEOREM WorkerIsTwoFifos == Spec => IsTwoFifos
<1>1. Init => Abstract!AbsInit
  BY InitRefines
<1>2. IInv /\ IInv' /\ [Next]_vars => [Abstract!AbsNext]_(Abstract!absvars)
  BY StepRefines
<1> QED
  BY <1>1, <1>2, Inductive, PTL DEF Spec, IsTwoFifos, Abstract!AbsSpec
=============================================================================
