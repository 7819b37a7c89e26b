--------------------------- MODULE WatchdogProofs ---------------------------
(***************************************************************************)
(* Theorems about Watchdog, for all its parameters: whatever the clock and *)
(* the stamps do, and of the two worlds of MCWatchdog.  The inductive      *)
(* invariant of any use adds that the three times the evaluator remembers  *)
(* are set together; that of a steady stream counts its messages: which    *)
(* have come, and how late the next may be.                                *)
(***************************************************************************)
EXTENDS MCWatchdog, FiniteSetTheorems, FunctionTheorems, TLAPS

TimesSetTogether ==
    /\ firstArrival = NoTime <=> lastArrival = NoTime
    /\ firstArrival = NoTime <=> latestStamp = NoTime

IInv == TypeOK /\ AlarmNeedsTraffic /\ TimesSetTogether

LEMMA InitEstablishes == Init => IInv
<1> SUFFICES ASSUME Init PROVE IInv
  OBVIOUS
<1>1. IsFiniteSet(arrivals)
  BY FS_EmptySet DEF Init
<1> QED
  BY <1>1 DEF Init, IInv, TypeOK, AlarmNeedsTraffic, TimesSetTogether, Times,
     NoTime, NoReason, Reasons, Healthy

LEMMA RecordArrivalKeeps ==
    ASSUME IInv, NEW stamp \in Nat, RecordArrival(stamp)
    PROVE  IInv'
<1>1. clock \in Nat /\ stamp \in Nat /\ arrived \in Nat
  BY DEF IInv, TypeOK
<1>2. arrivals' \in SUBSET Arrivals /\ IsFiniteSet(arrivals')
  <2>1. [n |-> arrived', at |-> clock] \in Arrivals
    BY <1>1 DEF RecordArrival, Arrivals
  <2> QED
    BY <2>1, FS_AddElement DEF IInv, TypeOK, RecordArrival
<1>3. firstArrival' \in Nat /\ lastArrival' \in Nat /\ latestStamp' \in Nat
  BY <1>1 DEF IInv, TypeOK, RecordArrival, LatestAfter, Times, NoTime
<1>4. NoTime \notin Nat
  BY DEF NoTime
<1>5. TypeOK'
  <2>1. arrived' \in Nat /\ clock' \in Nat
    BY <1>1 DEF RecordArrival
  <2>2. /\ latched' \in BOOLEAN /\ raised' \in BOOLEAN
        /\ latchedReason' \in Reasons \union {NoReason}
        /\ status' \in [violated : BOOLEAN, reason : Reasons \union {NoReason}]
        /\ latched' <=> latchedReason' # NoReason
        /\ status'.violated <=> status'.reason # NoReason
    BY DEF IInv, TypeOK, RecordArrival
  <2> QED
    BY <1>2, <1>3, <2>1, <2>2 DEF TypeOK, Times
<1> QED
  BY <1>3, <1>4, <1>5 DEF IInv, AlarmNeedsTraffic, TimesSetTogether

LEMMA FindingsType == Findings \subseteq Reasons \union {NoReason}
BY DEF Findings, Reasons, NoReason

\* Latching keeps type and consistency, whatever the verdict.
LEMMA LatchType ==
    ASSUME NEW r \in Reasons \union {NoReason}, Latch(r)
    PROVE  /\ latched' \in BOOLEAN /\ latchedReason' = r
           /\ status' \in [violated : BOOLEAN, reason : Reasons \union {NoReason}]
           /\ latched' <=> latchedReason' # NoReason
           /\ status'.violated <=> status'.reason # NoReason
BY DEF Latch

LEMMA CheckKeeps ==
    ASSUME IInv, Check
    PROVE  IInv'
<1>1. PICK r \in Reasons \union {NoReason} :
        Latch(r) /\ (lastArrival = NoTime => r = latchedReason)
  BY FindingsType DEF IInv, TypeOK, Check, Verdict, SilentVerdict
<1>2. Latch(r)
  BY <1>1
<1>3. /\ latched' \in BOOLEAN /\ latchedReason' = r
      /\ status' \in [violated : BOOLEAN, reason : Reasons \union {NoReason}]
      /\ latched' <=> latchedReason' # NoReason
      /\ status'.violated <=> status'.reason # NoReason
  BY <1>1, <1>2, LatchType
<1>4. arrivals' \in SUBSET Arrivals /\ IsFiniteSet(arrivals')
  BY FS_Subset DEF IInv, TypeOK, Check, Pruned
<1>5. TypeOK'
  BY <1>1, <1>3, <1>4 DEF IInv, TypeOK, Check
<1>6. AlarmNeedsTraffic'
  <2>1. CASE lastArrival = NoTime
    <3>1. latchedReason' = latchedReason
      BY <1>1, <1>3, <2>1
    <3> QED
      BY <1>3, <2>1, <3>1 DEF IInv, TypeOK, AlarmNeedsTraffic, Check
  <2>2. CASE lastArrival # NoTime
    BY <2>2 DEF IInv, TimesSetTogether, AlarmNeedsTraffic, Check
  <2> QED
    BY <2>1, <2>2
<1> QED
  BY <1>5, <1>6 DEF IInv, TimesSetTogether, Check

LEMMA NextKeeps == IInv /\ [Next]_vars => IInv'
<1> SUFFICES ASSUME IInv, [Next]_vars PROVE IInv'
  OBVIOUS
<1>1. CASE Tick \/ StepBack
  BY <1>1 DEF Tick, StepBack, evaluator, IInv, TypeOK, AlarmNeedsTraffic,
     TimesSetTogether
<1>2. ASSUME NEW stamp \in 0..MaxTime, RecordArrival(stamp) PROVE IInv'
  BY <1>2, RecordArrivalKeeps, BoundsAssumption
<1>3. CASE RefuseArrival
  BY <1>3 DEF RefuseArrival, evaluator, IInv, TypeOK, AlarmNeedsTraffic,
     TimesSetTogether
<1>4. CASE Check
  BY <1>4, CheckKeeps
<1>5. CASE Reset
  <2>1. IsFiniteSet(arrivals')
    BY <1>5, FS_EmptySet DEF Reset
  <2> QED
    BY <1>5, <2>1 DEF Reset, IInv, TypeOK, AlarmNeedsTraffic, TimesSetTogether,
       Times
<1>6. CASE UNCHANGED vars
  BY <1>6 DEF vars, evaluator, IInv, TypeOK, AlarmNeedsTraffic, TimesSetTogether
<1> QED
  BY <1>1, <1>2, <1>3, <1>4, <1>5, <1>6 DEF Next

\* The times of a trial are set and cleared together, in every state.
THEOREM Invariance == Spec => []IInv
BY InitEstablishes, NextKeeps, PTL DEF Spec

\* Types hold and every verdict of violation carries its reason.
THEOREM TypeCorrect == Spec => []TypeOK
<1>1. IInv => TypeOK
  BY DEF IInv
<1> QED
  BY <1>1, Invariance, PTL

\* No alarm is ever raised about a stream that has not been seen.
THEOREM NoAlarmWithoutTraffic == Spec => []AlarmNeedsTraffic
<1>1. IInv => AlarmNeedsTraffic
  BY DEF IInv
<1> QED
  BY <1>1, Invariance, PTL

\* The step of LatchIsPermanent: only a reset takes an alarm back.
LatchStep ==
    latched => \/ latched' /\ latchedReason' = latchedReason
               \/ firstArrival' = NoTime

LEMMA LatchStepAllowed == IInv /\ [Next]_vars => LatchStep \/ UNCHANGED vars
<1> SUFFICES ASSUME IInv, Next, latched
             PROVE  \/ latched' /\ latchedReason' = latchedReason
                    \/ firstArrival' = NoTime
  BY DEF LatchStep
<1>1. latchedReason # NoReason
  BY DEF IInv, TypeOK
<1>2. CASE Check
  BY <1>1, <1>2 DEF Check, Latch, Verdict, SilentVerdict
<1>3. CASE Reset
  BY <1>3 DEF Reset
<1>4. CASE ~Check /\ ~Reset
  BY <1>4 DEF Next, Tick, StepBack, RecordArrival, RefuseArrival, evaluator
<1> QED
  BY <1>2, <1>3, <1>4

\* The alarm and its original reason last until reset, whatever happens.
THEOREM AlarmLasts == Spec => LatchIsPermanent
<1>1. IInv /\ [Next]_vars => [LatchStep]_vars
  BY LatchStepAllowed
<1>2. Spec => [][LatchStep]_vars
  BY <1>1, Invariance, PTL DEF Spec
<1> QED
  BY <1>2 DEF LatchIsPermanent, LatchStep
-----------------------------------------------------------------------------
(* Counting.  A stream of one message a period, none of which arrives      *)
(* before it is sent and none later than some lateness, is never sparse:   *)
(* of the messages stamped within a window all are among the arrivals that *)
(* count, but for the late.  The n-th arrival need not be the n-th message.*)

\* The stamp of the n-th message.
StampOf(n) == (n - 1) * Period

\* Arrivals bear their ordinals, come no sooner than as many messages were sent
\* and not before the first.
Timed ==
    \A a \in arrivals :
        a.n \in 1..arrived /\ a.at >= StampOf(a.n) /\ a.at >= firstArrival

Kept(n) == \E a \in arrivals : a.n = n

\* Nothing is forgotten that a window can still hold: neither an arrival whose
\* number was sent within it nor, as long as it reaches back to the first, any.
Remembered ==
    \A n \in 1..arrived :
        StampOf(n) >= clock - Window \/ firstArrival >= clock - Window => Kept(n)

\* So many have arrived, if none is later than this.
Prompt(lateness) ==
    /\ arrived # 0 /\ firstArrival # NoTime /\ firstArrival <= clock
    /\ clock <= arrived * Period + lateness

\* Messages from this one on that are all kept in the window are counted.
LEMMA CountedFrom ==
    ASSUME IInv, NEW from \in Nat \ {0}, from <= arrived + 1,
           \A n \in from..arrived : \E a \in Pruned : a.n = n
    PROVE  Cardinality(Pruned) \in Nat /\ Cardinality(Pruned) >= arrived + 1 - from
<1> DEFINE f == [n \in from..arrived |-> CHOOSE a \in Pruned : a.n = n]
<1>1. arrived \in Nat /\ IsFiniteSet(Pruned) /\ Cardinality(Pruned) \in Nat
  BY FS_Subset, FS_CardinalityType DEF IInv, TypeOK, Pruned
<1>2. \A n \in from..arrived : f[n] \in Pruned /\ f[n].n = n
  OBVIOUS
<1>3. f \in Injection(from..arrived, Pruned)
  BY <1>2, Fun_IsInj
<1>4. Cardinality(from..arrived) <= Cardinality(Pruned)
  BY <1>1, <1>3, FS_Injection
<1>5. Cardinality(from..arrived) = IF from > arrived THEN 0 ELSE arrived - from + 1
  BY <1>1, FS_Interval
<1> QED
  BY <1>1, <1>4, <1>5

\* The tolerance suffices while the window still ramps up ...
LEMMA RampTolerated ==
    ASSUME NEW lateness \in Nat,
           LossDen * lateness + Rounding < LossNum * (Period + lateness),
           NEW count \in Nat \ {0}, NEW elapsed \in Nat,
           elapsed - count * Period <= lateness
    PROVE  LossDen * (elapsed - count * Period) - LossNum * elapsed < -Rounding
<1> DEFINE late == elapsed - count * Period
           slack == LossDen - LossNum
<1> USE PeriodsAssumption, LossAssumption, RoundingAssumption
<1>1. count * Period \in Nat /\ count * Period >= Period /\ late \in Int
  OBVIOUS
<1>2. slack \in Nat /\ late <= lateness
  OBVIOUS
<1>3. slack * late <= slack * lateness /\ slack * late \in Int /\ slack * lateness \in Nat
  BY <1>1, <1>2
<1>4. /\ LossNum * (count * Period) >= LossNum * Period
      /\ LossNum * (count * Period) \in Nat /\ LossNum * Period \in Nat
  BY <1>1
<1>5. LossDen * late - LossNum * elapsed = slack * late - LossNum * (count * Period)
  <2>1. elapsed = late + count * Period
    BY <1>1
  <2>2. LossNum * (late + count * Period) = LossNum * late + LossNum * (count * Period)
    BY <1>1
  <2>3. slack * late = LossDen * late - LossNum * late
    BY <1>1
  <2> HIDE DEF late, slack
  <2> QED
    BY <1>1, <1>3, <1>4, <2>1, <2>2, <2>3
<1>6. slack * lateness - LossNum * Period < -Rounding
  <2>1. slack * lateness = LossDen * lateness - LossNum * lateness
    OBVIOUS
  <2>2. LossNum * (Period + lateness) = LossNum * Period + LossNum * lateness
    OBVIOUS
  <2>3. /\ LossDen * lateness \in Int /\ LossNum * lateness \in Int
        /\ LossDen * lateness + Rounding < LossNum * (Period + lateness)
    OBVIOUS
  <2> HIDE DEF slack
  <2> QED
    BY <1>3, <1>4, <2>1, <2>2, <2>3
<1> HIDE DEF slack
<1> QED
  BY <1>3, <1>4, <1>5, <1>6

\* ... and when it is full.
LEMMA WindowTolerated ==
    ASSUME NEW lateness \in Nat, Tolerates(lateness),
           NEW count \in Nat, Window - count * Period < Period + lateness
    PROVE  LossDen * (Window - count * Period) - LossNum * Window < -Rounding
<1> USE PeriodsAssumption, LossAssumption, RoundingAssumption
<1>1. ASSUME NEW c \in 0..Window, Window - c * Period < Period + lateness
      PROVE  LossDen * (Window - c * Period) - LossNum * Window < -Rounding
  <2>1. LossDen * (Window - c * Period) + Rounding < LossNum * Window
    BY <1>1 DEF Tolerates
  <2>2. LossDen * (Window - c * Period) \in Int /\ LossNum * Window \in Int
    OBVIOUS
  <2> QED
    BY <2>1, <2>2
<1>2. CASE count > Window
  <2>1. count * Period >= Window * Period /\ count * Period \in Nat /\ Window * Period \in Nat
    BY <1>2
  <2>2. Window * Period >= Window
    OBVIOUS
  <2>3. LossDen * (Window - Window * Period) - LossNum * Window < -Rounding
    BY <1>1, <2>1, <2>2
  <2>4. Window - count * Period <= Window - Window * Period
    BY <2>1
  <2>5. LossDen * (Window - count * Period) <= LossDen * (Window - Window * Period)
    BY <2>1, <2>4
  <2>6. /\ LossDen * (Window - count * Period) \in Int
        /\ LossDen * (Window - Window * Period) \in Int /\ LossNum * Window \in Int
    BY <2>1
  <2> QED
    BY <2>3, <2>5, <2>6
<1> QED
  BY <1>1, <1>2

\* Where the stamps of a window begin.
LEMMA FirstInWindow ==
    ASSUME NEW x \in Nat
    PROVE  \E n \in Nat \ {0} : StampOf(n) <= x /\ x < StampOf(n + 1)
<1> DEFINE q == x \div Period
<1> USE PeriodsAssumption
<1>1. q \in Nat /\ q * Period <= x /\ x < (q + 1) * Period
  OBVIOUS
<1>2. StampOf(q + 1) = q * Period /\ StampOf(q + 2) = (q + 1) * Period
  BY <1>1 DEF StampOf
<1> QED
  BY <1>1, <1>2

\* The stream has its messages, but for the late and those at the edges.
LEMMA EnoughCounted ==
    ASSUME IInv, Timed, Remembered, NEW lateness \in Nat, Prompt(lateness)
    PROVE  LET count == Cardinality(Pruned)
           IN  /\ count \in Nat
               /\ clock - firstArrival < Window =>
                        count # 0 /\ clock - count * Period <= lateness
               /\ clock - firstArrival >= Window =>
                        Window - count * Period < Period + lateness
<1> DEFINE count == Cardinality(Pruned)
<1> USE PeriodsAssumption
<1>1. /\ clock \in Nat /\ arrived \in Nat \ {0} /\ firstArrival \in Nat
      /\ IInv /\ Timed /\ Remembered
      /\ firstArrival <= clock /\ clock <= arrived * Period + lateness
  BY DEF IInv, TypeOK, Prompt, Times, NoTime
<1>2. \A n \in 1..arrived : StampOf(n) \in Int
  BY <1>1 DEF StampOf
<1>3. \A a \in arrivals : a.n \in 1..arrived /\ a.at \in Nat /\ a.at >= StampOf(a.n)
                            /\ a.at >= firstArrival
  BY <1>1 DEF IInv, TypeOK, Arrivals, Timed
<1>4. \A n \in 1..arrived :
        StampOf(n) >= clock - Window \/ firstArrival >= clock - Window =>
            \E a \in Pruned : a.n = n
  <2> SUFFICES ASSUME NEW n \in 1..arrived,
                      StampOf(n) >= clock - Window \/ firstArrival >= clock - Window
               PROVE  \E a \in Pruned : a.n = n
    OBVIOUS
  <2>1. PICK a \in arrivals : a.n = n
    BY <1>1 DEF Remembered, Kept
  <2>2. a.at >= clock - Window
    BY <1>1, <1>2, <1>3, <2>1
  <2> QED
    BY <2>1, <2>2 DEF Pruned, InWindow
<1>5. count \in Nat
  BY <1>1, FS_Subset, FS_CardinalityType DEF IInv, TypeOK, Pruned
<1> HIDE DEF count
<1>6. ASSUME firstArrival >= clock - Window
      PROVE  count # 0 /\ clock - count * Period <= lateness
  <2>1. count >= arrived
    BY <1>1, <1>4, <1>6, CountedFrom DEF count
  <2>2. count * Period >= arrived * Period /\ count * Period \in Nat
        /\ arrived * Period \in Nat
    BY <1>1, <1>5, <2>1
  <2> QED
    BY <1>1, <1>5, <2>1, <2>2
<1>7. ASSUME clock - firstArrival >= Window
      PROVE  Window - count * Period < Period + lateness
  <2>1. CASE firstArrival >= clock - Window
    BY <1>1, <1>5, <1>6, <1>7, <2>1
  <2>2. CASE firstArrival < clock - Window
    <3>1. clock - Window - 1 \in Nat
      BY <1>1, <2>2
    <3>2. PICK m \in Nat \ {0} :
            StampOf(m) <= clock - Window - 1 /\ clock - Window - 1 < StampOf(m + 1)
      BY <3>1, FirstInWindow
    <3>3. m * Period \in Nat /\ StampOf(m) = m * Period - Period /\ StampOf(m + 1) = m * Period
      BY <3>2 DEF StampOf
    <3>4. CASE m <= arrived
      <4>1. \A n \in (m + 1)..arrived : StampOf(n) >= StampOf(m + 1)
        BY <1>1, <3>2 DEF StampOf
      <4>2. \A n \in (m + 1)..arrived : \E a \in Pruned : a.n = n
        BY <1>1, <1>2, <1>4, <3>2, <3>3, <4>1
      <4>3. count >= arrived - m
        BY <1>1, <3>2, <3>4, <4>2, CountedFrom DEF count
      <4>4. count * Period >= (arrived - m) * Period
        BY <1>1, <1>5, <3>2, <4>3
      <4>5. (arrived - m) * Period = arrived * Period - m * Period
            /\ arrived * Period \in Nat /\ count * Period \in Nat
        BY <1>1, <1>5, <3>2
      <4> QED
        BY <1>1, <3>2, <3>3, <4>4, <4>5
    <3>5. CASE m > arrived
      <4>1. arrived * Period <= m * Period /\ arrived * Period \in Nat
            /\ count * Period \in Nat
        BY <1>1, <1>5, <3>2, <3>5
      <4> QED
        BY <1>1, <3>2, <3>3, <4>1
    <3> QED
      BY <1>1, <3>2, <3>4, <3>5
  <2> QED
    BY <1>1, <2>1, <2>2
<1> QED
  BY <1>1, <1>5, <1>6, <1>7 DEF count

LEMMA ExcessComparable ==
    ASSUME IInv, firstArrival \in Int
    PROVE  Excess < -Rounding => ~(Excess >= -Rounding)
<1>1. Cardinality(Pruned) \in Nat /\ clock \in Nat
  BY FS_Subset, FS_CardinalityType DEF IInv, TypeOK, Pruned
<1>2. Elapsed \in Int
  BY <1>1, PeriodsAssumption DEF Elapsed
<1>3. Excess \in Int
  BY <1>1, <1>2, PeriodsAssumption, LossAssumption DEF Excess
<1> QED
  BY <1>3, RoundingAssumption

\* No window of it is too sparse, even as rounded.
LEMMA NeverSparse ==
    ASSUME IInv, Timed, Remembered, NEW lateness \in Nat, Prompt(lateness),
           Tolerates(lateness)
    PROVE  ~MayBeTooSparse
<1> USE PeriodsAssumption
<1> DEFINE count == Cardinality(Pruned)
<1>1. count \in Nat
  BY EnoughCounted
<1>2. clock \in Nat /\ firstArrival \in Nat /\ firstArrival <= clock
  BY DEF IInv, TypeOK, Prompt, Times, NoTime
<1>3. LossDen * lateness + Rounding < LossNum * (Period + lateness)
  BY DEF Tolerates
<1>4. CASE clock - firstArrival < Window
  <2>1. count # 0 /\ clock - count * Period <= lateness /\ count * Period \in Nat
    BY <1>1, <1>4, EnoughCounted
  <2> DEFINE elapsed == clock - firstArrival
  <2>2. Elapsed = elapsed
    BY <1>4 DEF Elapsed
  <2>3. elapsed \in Nat /\ elapsed - count * Period <= lateness
    BY <1>2, <2>1
  <2> HIDE DEF elapsed, count
  <2>4. LossDen * (elapsed - count * Period) - LossNum * elapsed < -Rounding
    BY <1>1, <1>3, <2>1, <2>3, RampTolerated
  <2>5. Excess < -Rounding
    BY <2>2, <2>4 DEF Excess, count
  <2> QED
    BY <2>5, ExcessComparable, <1>2 DEF MayBeTooSparse
<1>5. CASE clock - firstArrival >= Window
  <2>1. Elapsed = Window
    BY <1>2, <1>5 DEF Elapsed
  <2>2. Window - count * Period < Period + lateness
    BY <1>5, EnoughCounted
  <2> HIDE DEF count
  <2>3. LossDen * (Window - count * Period) - LossNum * Window < -Rounding
    BY <1>1, <2>2, WindowTolerated
  <2>4. Excess < -Rounding
    BY <2>1, <2>3 DEF Excess, count
  <2> QED
    BY <2>4, ExcessComparable, <1>2 DEF MayBeTooSparse
<1> QED
  BY <1>2, <1>4, <1>5

\* What the argument needs is kept as time passes, ...
LEMMA TickKeepsCount ==
    ASSUME IInv, Timed, Remembered, clock' = clock + 1, UNCHANGED evaluator
    PROVE  Timed' /\ Remembered'
<1>1. clock \in Nat /\ arrived \in Nat /\ firstArrival \in Int /\ Window \in Nat
  BY PeriodsAssumption DEF IInv, TypeOK, Times, NoTime
<1>2. \A n \in 1..arrived : StampOf(n) \in Int
  BY <1>1, PeriodsAssumption DEF StampOf
<1> QED
  BY <1>1, <1>2 DEF Timed, Remembered, Kept, evaluator, StampOf

\* ... as a message arrives that is not too early, ...
LEMMA ArrivalKeepsCount ==
    ASSUME IInv, Timed, Remembered, NEW stamp \in Nat, RecordArrival(stamp),
           StampOf(arrived + 1) <= clock,
           firstArrival = NoTime => arrived = 0, firstArrival <= clock
    PROVE  Timed' /\ Remembered'
<1> DEFINE a0 == [n |-> arrived', at |-> clock]
<1> USE PeriodsAssumption
<1>1. /\ clock \in Nat /\ clock' = clock /\ arrived \in Nat /\ arrived' = arrived + 1
      /\ arrivals' = arrivals \union {a0}
      /\ firstArrival' = IF firstArrival = NoTime THEN clock ELSE firstArrival
      /\ firstArrival \in Times
  BY DEF RecordArrival, IInv, TypeOK
<1>2. a0.n = arrived + 1 /\ a0.at = clock
  BY <1>1
<1> HIDE DEF a0
<1>3. firstArrival' \in Nat /\ firstArrival' <= clock
      /\ (firstArrival # NoTime => firstArrival' = firstArrival)
  BY <1>1 DEF Times
<1>4. Timed'
  <2> SUFFICES ASSUME NEW a \in arrivals'
               PROVE  a.n \in 1..arrived' /\ a.at >= StampOf(a.n) /\ a.at >= firstArrival'
    BY DEF Timed, StampOf
  <2>1. CASE a \in arrivals
    <3>1. a.n \in 1..arrived /\ a.at >= StampOf(a.n) /\ a.at >= firstArrival
      BY <2>1 DEF Timed
    <3>2. firstArrival # NoTime
      BY <1>1, <3>1
    <3> QED
      BY <1>1, <1>3, <3>1, <3>2
  <2>2. CASE a = a0
    BY <1>1, <1>2, <1>3, <2>2
  <2> QED
    BY <1>1, <2>1, <2>2
<1>5. Remembered'
  <2> SUFFICES ASSUME NEW n \in 1..(arrived + 1),
                      StampOf(n) >= clock - Window \/ firstArrival' >= clock - Window
               PROVE  \E a \in arrivals \union {a0} : a.n = n
    BY <1>1 DEF Remembered, Kept, StampOf
  <2>1. CASE n = arrived + 1
    BY <1>2, <2>1
  <2>2. CASE n # arrived + 1
    <3>1. n \in 1..arrived
      BY <1>1, <2>2
    <3>2. firstArrival # NoTime
      BY <1>1, <3>1
    <3> QED
      BY <1>3, <3>1, <3>2 DEF Remembered, Kept
  <2> QED
    BY <2>1, <2>2
<1> QED
  BY <1>4, <1>5

\* ... and as a check prunes what no window will hold any more.
LEMMA CheckKeepsCount ==
    ASSUME IInv, Timed, Remembered, Check
    PROVE  Timed' /\ Remembered'
<1> USE PeriodsAssumption
<1>1. /\ arrivals' = Pruned /\ clock \in Nat /\ arrived \in Nat
      /\ UNCHANGED <<clock, arrived, firstArrival>>
      /\ firstArrival \in Int
  BY DEF Check, IInv, TypeOK, Times, NoTime
<1>2. Timed'
  BY <1>1 DEF Timed, Pruned, StampOf
<1>3. Remembered'
  <2> SUFFICES ASSUME NEW n \in 1..arrived,
                      StampOf(n) >= clock - Window \/ firstArrival >= clock - Window
               PROVE  \E a \in Pruned : a.n = n
    BY <1>1 DEF Remembered, Kept, StampOf
  <2>1. PICK a \in arrivals : a.n = n
    BY DEF Remembered, Kept
  <2>2. a.at >= StampOf(n) /\ a.at >= firstArrival /\ a.at \in Nat
    BY <2>1 DEF Timed, IInv, TypeOK, Arrivals
  <2>3. StampOf(n) \in Int
    BY <1>1 DEF StampOf
  <2>4. a.at >= clock - Window
    BY <1>1, <2>2, <2>3
  <2> QED
    BY <2>1, <2>4 DEF Pruned, InWindow
<1> QED
  BY <1>2, <1>3

-----------------------------------------------------------------------------
(* Any stream. *)

\* The newest of the stamps seen.
Newest ==
    /\ seen = {} <=> latestStamp = NoTime
    /\ \A m \in seen : m.stamp \in Nat /\ m.stamp <= latestStamp
    /\ seen # {} => \E m \in seen : m.stamp = latestStamp

SInv == IInv /\ Newest /\ healthy \in BOOLEAN

LEMMA StampSteps ==
    ASSUME MCNext
    PROVE  /\ healthy' = healthy
           /\ \/ (Tick \/ StepBack \/ RefuseArrival \/ Check) /\ seen' = seen
              \/ \E stamp \in {NextStamp} \union 0..WildTime :
                    (healthy => stamp = NextStamp) /\ RecordArrival(stamp) /\ Noted(stamp)
              \/ Reset /\ seen' = {} /\ ~healthy
BY DEF MCNext, WildNext, HealthyNext

LEMMA StepKeepsStamps == SInv /\ [MCNext]_mcvars => SInv'
<1> SUFFICES ASSUME SInv, [MCNext]_mcvars PROVE SInv'
  OBVIOUS
<1>1. CASE UNCHANGED mcvars
  <2>1. IInv'
    BY <1>1, NextKeeps DEF mcvars, SInv
  <2> QED
    BY <1>1, <2>1 DEF mcvars, vars, evaluator, SInv, Newest
<1>2. CASE MCNext
  <2>1. CASE (Tick \/ StepBack \/ RefuseArrival \/ Check) /\ seen' = seen
    <3>1. IInv'
      BY <2>1, NextKeeps DEF SInv, Next
    <3>2. latestStamp' = latestStamp
      BY <2>1 DEF Tick, StepBack, RefuseArrival, Check, evaluator
    <3> QED
      BY <1>2, <2>1, <3>1, <3>2, StampSteps DEF SInv, Newest
  <2>2. ASSUME NEW stamp \in {NextStamp} \union 0..WildTime,
               RecordArrival(stamp), Noted(stamp)
        PROVE  SInv'
    <3>1. stamp \in Nat /\ latestStamp \in Times
      BY WildAssumption, PeriodsAssumption DEF NextStamp, SInv, IInv, TypeOK
    <3>2. IInv'
      BY <2>2, <3>1, RecordArrivalKeeps DEF SInv
    <3> DEFINE m0 == [n |-> arrived', at |-> clock, stamp |-> stamp]
    <3>3. seen' = seen \union {m0} /\ m0.stamp = stamp
      BY <2>2 DEF Noted
    <3>4. latestStamp' = IF stamp > latestStamp THEN stamp ELSE latestStamp
      BY <2>2 DEF RecordArrival, LatestAfter
    <3> HIDE DEF m0
    <3>5. latestStamp' # NoTime
      BY <3>1, <3>4 DEF Times, NoTime
    <3>6. \A m \in seen' : m.stamp \in Nat /\ m.stamp <= latestStamp'
      BY <3>1, <3>3, <3>4 DEF SInv, Newest, Times, NoTime
    <3>7. \E m \in seen' : m.stamp = latestStamp'
      <4>1. CASE stamp > latestStamp
        BY <3>3, <3>4, <4>1
      <4>2. CASE ~(stamp > latestStamp)
        <5>1. seen # {}
          BY <3>1, <4>2 DEF SInv, Newest, NoTime
        <5> QED
          BY <3>3, <3>4, <4>2, <5>1 DEF SInv, Newest
      <4> QED
        BY <4>1, <4>2
    <3> QED
      BY <1>2, <3>2, <3>3, <3>5, <3>6, <3>7, StampSteps DEF SInv, Newest
  <2>3. CASE Reset /\ seen' = {}
    <3>1. IInv'
      BY <2>3, NextKeeps DEF SInv, Next
    <3> QED
      BY <1>2, <2>3, <3>1, StampSteps DEF SInv, Newest, Reset
  <2> QED
    BY <1>2, <2>1, <2>2, <2>3, StampSteps
<1> QED
  BY <1>1, <1>2

LEMMA StampsInvariance == MCSpec => []SInv
<1>1. MCInit => SInv
  <2> SUFFICES ASSUME MCInit PROVE SInv
    OBVIOUS
  <2>1. IInv /\ latestStamp = NoTime /\ seen = {} /\ healthy \in BOOLEAN
    BY InitEstablishes DEF MCInit, Init
  <2> QED
    BY <2>1 DEF SInv, Newest
<1> QED
  BY <1>1, StepKeepsStamps, PTL DEF MCSpec

\* Freshness is that of the newest content since the last reset, whatever arrives
\* late, again or out of order (record_arrival).
THEOREM FreshnessFollowsContent == MCSpec => []FreshnessIsNewestStamp
<1>1. SInv => FreshnessIsNewestStamp
  <2> SUFFICES ASSUME SInv, seen # {}
               PROVE  latestStamp = Max({m.stamp : m \in seen})
    BY DEF FreshnessIsNewestStamp, SInv, Newest
  <2> DEFINE S == {m.stamp : m \in seen}
  <2>1. latestStamp \in S /\ \A x \in S : x \in Nat /\ x <= latestStamp
    BY DEF SInv, Newest
  <2> HIDE DEF S
  <2>2. Max(S) \in S /\ \A y \in S : Max(S) >= y
    BY <2>1 DEF Max
  <2>3. Max(S) = latestStamp
    BY <2>1, <2>2
  <2> QED
    BY <2>3 DEF S
<1> QED
  BY <1>1, StampsInvariance, PTL

-----------------------------------------------------------------------------
(* A healthy stream. *)

\* The stream is as regular as it is said to be.
Regular ==
    /\ firstArrival <= clock /\ clock <= NextDue
    /\ arrived = 0 <=> lastArrival = NoTime
    /\ arrived # 0 => latestStamp = StampOf(arrived)

HInv ==
    SInv /\ (healthy => Regular /\ Timed /\ Remembered /\ ~latched)

\* No check finds anything wrong with it.
LEMMA NoReasonToFlag ==
    ASSUME HInv, healthy, arrived # 0
    PROVE  \A finding \in Findings : finding = NoReason
<1> USE PeriodsAssumption, LatenessAssumption
<1>1. /\ clock \in Nat /\ arrived \in Nat \ {0} /\ firstArrival \in Nat
      /\ clock <= arrived * Period + Lateness /\ latestStamp = StampOf(arrived)
  BY DEF HInv, SInv, IInv, TypeOK, TimesSetTogether, Regular, NextDue, NextStamp, Times,
       NoTime
<1>2. ~TooOld
  <2>1. StampOf(arrived) = arrived * Period - Period /\ arrived * Period \in Nat
    BY <1>1 DEF StampOf
  <2> QED
    BY <1>1, <2>1 DEF TooOld, Tolerates
<1>3. ~MayBeTooSparse
  <2>1. Prompt(Lateness)
    BY <1>1 DEF Prompt, HInv, Regular, NoTime
  <2> QED
    BY <2>1, LatenessAssumption, NeverSparse DEF HInv, SInv
<1> QED
  BY <1>2, <1>3 DEF Findings

LEMMA HealthyInit == MCInit => HInv
<1> SUFFICES ASSUME MCInit PROVE HInv
  OBVIOUS
<1>1. SInv
  <2>1. IInv /\ latestStamp = NoTime /\ seen = {} /\ healthy \in BOOLEAN
    BY InitEstablishes DEF MCInit, Init
  <2> QED
    BY <2>1 DEF SInv, Newest
<1>2. Regular
  <2>1. NextDue = Lateness
    BY LatenessAssumption, PeriodsAssumption DEF MCInit, Init, NextDue, NextStamp
  <2> QED
    BY <2>1, LatenessAssumption DEF MCInit, Init, Regular, NoTime
<1>3. Timed /\ Remembered /\ ~latched
  BY DEF MCInit, Init, Timed, Remembered
<1> QED
  BY <1>1, <1>2, <1>3 DEF HInv

\* The clock goes on until the next message is due.
LEMMA TickKeepsHealth ==
    ASSUME HInv, healthy, clock < NextDue, Tick
    PROVE  Regular' /\ Timed' /\ Remembered' /\ ~latched'
<1>1. /\ clock' = clock + 1 /\ clock \in Nat /\ UNCHANGED evaluator
      /\ arrived \in Nat /\ firstArrival \in Int /\ NextDue \in Nat
  BY PeriodsAssumption, LatenessAssumption
     DEF Tick, HInv, SInv, IInv, TypeOK, NextDue, NextStamp, Times, NoTime
<1>2. Regular'
  BY <1>1 DEF HInv, Regular, NextDue, NextStamp, evaluator, StampOf
<1>3. Timed' /\ Remembered'
  BY <1>1, TickKeepsCount DEF HInv, SInv
<1>4. ~latched'
  BY <1>1 DEF HInv, evaluator
<1> QED
  BY <1>2, <1>3, <1>4

\* The next message arrives.
LEMMA ArrivalKeepsHealth ==
    ASSUME HInv, healthy, NextStamp <= clock, RecordArrival(NextStamp)
    PROVE  Regular' /\ Timed' /\ Remembered' /\ ~latched'
<1> USE PeriodsAssumption, LatenessAssumption
<1>1. /\ clock \in Nat /\ clock' = clock /\ arrived \in Nat /\ arrived' = arrived + 1
      /\ ~latched' /\ lastArrival' = clock
      /\ firstArrival' = IF firstArrival = NoTime THEN clock ELSE firstArrival
      /\ lastArrival <= clock /\ firstArrival \in Times /\ latestStamp \in Times
      /\ latestStamp' = IF NextStamp > latestStamp THEN NextStamp ELSE latestStamp
  BY DEF RecordArrival, LatestAfter, HInv, SInv, IInv, TypeOK
<1>2. /\ arrived * Period \in Nat /\ NextStamp = arrived * Period
      /\ StampOf(arrived + 1) = NextStamp /\ StampOf(arrived) = NextStamp - Period
      /\ (arrived + 1) * Period = NextStamp + Period
  BY <1>1 DEF NextStamp, StampOf
<1>3. firstArrival <= clock /\ (arrived = 0 <=> latestStamp = NoTime)
      /\ (arrived # 0 => latestStamp = StampOf(arrived))
  BY DEF HInv, SInv, IInv, TimesSetTogether, Regular
<1>4. Regular'
  <2>1. latestStamp' = NextStamp
    <3>1. NextStamp \in Nat /\ NextStamp - Period < NextStamp
      BY <1>2
    <3>2. latestStamp < NextStamp
      BY <1>2, <1>3, <3>1 DEF NoTime
    <3> QED
      BY <1>1, <3>2
  <2>2. NextDue' = NextStamp + Period + Lateness
    BY <1>1, <1>2 DEF NextDue, NextStamp
  <2>3. firstArrival' <= clock' /\ clock' <= NextDue'
    BY <1>1, <1>2, <1>3, <2>2 DEF HInv, Regular, NextDue
  <2>4. StampOf(arrived)' = NextStamp
    BY <1>1, <1>2 DEF StampOf
  <2> QED
    BY <1>1, <2>1, <2>3, <2>4 DEF Regular, NoTime
<1>5. Timed' /\ Remembered'
  <2>1. firstArrival = NoTime => arrived = 0
    BY DEF HInv, SInv, IInv, TimesSetTogether, Regular
  <2>2. NextStamp \in Nat /\ StampOf(arrived + 1) <= clock
    BY <1>2
  <2> QED
    BY <1>3, <2>1, <2>2, ArrivalKeepsCount DEF HInv, SInv
<1> QED
  BY <1>1, <1>4, <1>5

\* A check prunes what no window will hold any more.
LEMMA CheckKeepsHealth ==
    ASSUME HInv, healthy, Check
    PROVE  Regular' /\ Timed' /\ Remembered' /\ ~latched'
<1> USE PeriodsAssumption
<1>1. /\ arrivals' = Pruned /\ clock \in Nat /\ arrived \in Nat
      /\ UNCHANGED <<clock, arrived, firstArrival, lastArrival, latestStamp>>
      /\ firstArrival \in Int
  BY DEF Check, HInv, SInv, IInv, TypeOK, Times, NoTime
<1>2. Regular'
  BY <1>1 DEF HInv, Regular, NextDue, NextStamp, StampOf
<1>3. Timed' /\ Remembered'
  BY CheckKeepsCount DEF HInv, SInv
<1>4. ~latched'
  <2>1. latchedReason = NoReason
    BY DEF HInv, SInv, IInv, TypeOK
  <2>2. lastArrival # NoTime => \A finding \in Findings : finding = NoReason
    BY NoReasonToFlag DEF HInv, Regular
  <2>3. Latch(NoReason)
    BY <2>1, <2>2 DEF Check, Verdict, SilentVerdict, HInv
  <2> QED
    BY <2>3 DEF Latch
<1> QED
  BY <1>2, <1>3, <1>4

LEMMA HealthKeeps == HInv /\ [MCNext]_mcvars => HInv'
<1> SUFFICES ASSUME HInv, [MCNext]_mcvars PROVE HInv'
  OBVIOUS
<1>1. SInv' /\ healthy' = healthy
  BY StepKeepsStamps DEF HInv, MCNext, mcvars
<1>2. CASE ~healthy
  BY <1>1, <1>2 DEF HInv
<1>3. CASE UNCHANGED mcvars
  BY <1>1, <1>3 DEF mcvars, vars, evaluator, HInv, Regular, NextDue, NextStamp, Timed,
     Remembered, Kept, StampOf
<1>4. CASE healthy /\ HealthyNext
  BY <1>1, <1>4, TickKeepsHealth, ArrivalKeepsHealth, CheckKeepsHealth
     DEF HealthyNext, HInv
<1> QED
  BY <1>2, <1>3, <1>4 DEF MCNext

\* A stream no later than the parameters allow for, with more to spare than the
\* rounding of the fractions takes, is never flagged: not while the expectation
\* ramps up, nor when the window is no multiple of the period, nor by what pruning
\* forgets (check).
THEOREM HealthyIsNeverFlagged == MCSpec => []HealthyNeverFlagged
<1>1. HInv => HealthyNeverFlagged
  BY DEF HInv, HealthyNeverFlagged
<1> QED
  BY <1>1, HealthyInit, HealthKeeps, PTL DEF MCSpec

-----------------------------------------------------------------------------
(* What pruning forgets, while the clock runs forward. *)

Entry(m) == [n |-> m.n, at |-> m.at]

\* The arrivals are those seen, but for some that have left the window.
Noticed ==
    /\ \A m \in seen : m.n \in 1..arrived /\ m.at \in Nat
    /\ \A m, k \in seen : m.n = k.n => m = k
    /\ \A m \in seen : InWindow(m.at) => Entry(m) \in arrivals
    /\ \A a \in arrivals : \E m \in seen : a = Entry(m)

NInv == SInv /\ (healthy => Noticed)

LEMMA ArrivalNoticed ==
    ASSUME NInv, healthy, RecordArrival(NextStamp), Noted(NextStamp)
    PROVE  Noticed'
<1> DEFINE m0 == [n |-> arrived', at |-> clock, stamp |-> NextStamp]
<1>1. /\ clock \in Nat /\ clock' = clock /\ arrived \in Nat /\ arrived' = arrived + 1
      /\ arrivals' = arrivals \union {Entry(m0)} /\ seen' = seen \union {m0}
  BY DEF RecordArrival, Noted, Entry, NInv, SInv, IInv, TypeOK
<1>2. m0.n = arrived + 1 /\ m0.at = clock
  BY <1>1
<1> HIDE DEF m0
<1>3. \A m \in seen : m.n \in 1..arrived /\ m.at \in Nat
  BY DEF NInv, Noticed
<1>4. \A m, k \in seen' : m.n = k.n => m = k
  BY <1>1, <1>2, <1>3 DEF NInv, Noticed
<1>5. \A m \in seen' : m.n \in 1..arrived' /\ m.at \in Nat
  BY <1>1, <1>2, <1>3
<1>6. \A m \in seen' : InWindow(m.at)' => Entry(m) \in arrivals'
  BY <1>1 DEF NInv, Noticed, InWindow
<1>7. \A a \in arrivals' : \E m \in seen' : a = Entry(m)
  BY <1>1 DEF NInv, Noticed
<1> QED
  BY <1>4, <1>5, <1>6, <1>7 DEF Noticed, Entry

LEMMA NoticedKeeps == NInv /\ [MCNext]_mcvars => NInv'
<1> SUFFICES ASSUME NInv, [MCNext]_mcvars PROVE NInv'
  OBVIOUS
<1>1. SInv' /\ healthy' = healthy
  BY StepKeepsStamps DEF NInv, MCNext, mcvars
<1>2. CASE ~healthy
  BY <1>1, <1>2 DEF NInv
<1>3. CASE UNCHANGED mcvars
  BY <1>1, <1>3 DEF mcvars, vars, evaluator, NInv, Noticed, InWindow, Entry
<1>4. CASE healthy /\ HealthyNext
  <2>1. CASE clock < NextDue /\ Tick /\ UNCHANGED seen
    <3>1. /\ clock' = clock + 1 /\ clock \in Nat /\ Window \in Nat
          /\ UNCHANGED <<seen, arrivals, arrived>>
      BY <2>1, PeriodsAssumption DEF Tick, evaluator, NInv, SInv, IInv, TypeOK
    <3>2. \A m \in seen : m.at \in Nat /\ (InWindow(m.at)' => InWindow(m.at))
      BY <1>4, <3>1 DEF NInv, Noticed, InWindow
    <3> QED
      BY <1>1, <1>4, <3>1, <3>2 DEF NInv, Noticed, Entry
  <2>2. CASE RecordArrival(NextStamp) /\ Noted(NextStamp)
    BY <1>1, <1>4, <2>2, ArrivalNoticed DEF NInv
  <2>3. CASE Check /\ UNCHANGED seen
    BY <1>1, <1>4, <2>3 DEF Check, Pruned, InWindow, NInv, Noticed, Entry
  <2> QED
    BY <1>4, <2>1, <2>2, <2>3 DEF HealthyNext
<1> QED
  BY <1>2, <1>3, <1>4 DEF MCNext

\* As long as the clock runs forward, pruning costs no arrival that a later check
\* would count (check).
THEOREM PruningCostsNothing == MCSpec => []EveryArrivalInWindowCounted
<1>1. MCInit => NInv
  <2> SUFFICES ASSUME MCInit PROVE NInv
    OBVIOUS
  <2>1. SInv
    BY HealthyInit DEF HInv
  <2> QED
    BY <2>1 DEF MCInit, Init, NInv, Noticed
<1>2. NInv => EveryArrivalInWindowCounted
  <2> SUFFICES ASSUME NInv, healthy
               PROVE  Cardinality(Pruned) = Cardinality({m \in seen : InWindow(m.at)})
    BY DEF EveryArrivalInWindowCounted
  <2> DEFINE S == {m \in seen : InWindow(m.at)}
             f == [m \in S |-> Entry(m)]
  <2>1. IsFiniteSet(Pruned)
    BY FS_Subset DEF NInv, SInv, IInv, TypeOK, Pruned
  <2>2. \A m \in S : f[m] \in Pruned /\ f[m].n = m.n
    BY DEF NInv, Noticed, Pruned, Entry
  <2>3. \A m, k \in S : f[m] = f[k] => m = k
    BY <2>2 DEF NInv, Noticed
  <2>4. \A a \in Pruned : \E m \in S : f[m] = a
    BY DEF NInv, Noticed, Pruned, Entry
  <2>5. f \in Bijection(S, Pruned)
    BY <2>2, <2>3, <2>4 DEF Bijection, Injection, Surjection, IsInjective
  <2>6. ExistsBijection(Pruned, S)
    BY <2>5, Fun_ExistsBijSymmetric DEF ExistsBijection
  <2> QED
    BY <2>1, <2>6, FS_Bijection
<1> QED
  BY <1>1, <1>2, NoticedKeeps, PTL DEF MCSpec
=============================================================================
