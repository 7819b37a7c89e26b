--------------------------- MODULE EvidenceProofs ---------------------------
(***************************************************************************)
(* The list of evidence stays in order of receipt, what it has shown later *)
(* evidence does not take back, the scan of the hold finds what it is to   *)
(* find, and after the last deadline the verdict is settled: for all       *)
(* expectations and timelines.                                             *)
(*                                                                         *)
(* A new event bears the latest time and the last index.  The first of a   *)
(* set of events, where there is one, therefore stays the first, and an    *)
(* event after a deadline is in none of the windows that end by it.  Of    *)
(* the scan, by induction on the events it has seen: as long as it finds   *)
(* nothing nothing is to be found, and what it finds first nothing         *)
(* precedes.                                                               *)
(***************************************************************************)
EXTENDS Evidence, SequenceTheorems, WellFoundedInduction, TLAPS

IsList == \E E : events \in Seq(E)

IInv == TypeOK /\ IsList

\* The new list is the old one with this event at its end.
Appended(e) ==
    /\ Len(events) \in Nat
    /\ DOMAIN events = 1..Len(events) /\ DOMAIN events' = 1..(Len(events) + 1)
    /\ \A i \in DOMAIN events : events'[i] = events[i]
    /\ events'[Len(events) + 1] = e

LEMMA EmitAppends ==
    ASSUME IInv, NEW kind \in Kinds, Emit(kind)
    PROVE  /\ timeline' = timeline /\ clock' = clock /\ IsList'
           /\ \E d \in Payloads(kind) : Appended([kind |-> kind, at |-> clock, data |-> d])
<1>1. PICK d \in Payloads(kind) :
            events' = Append(events, [kind |-> kind, at |-> clock, data |-> d])
  BY DEF Emit, Recorded
<1> DEFINE e == [kind |-> kind, at |-> clock, data |-> d]
<1>2. PICK E : events \in Seq(E)
  BY DEF IInv, IsList
<1>3. events' = Append(events, e)
  BY <1>1
<1> HIDE DEF e
<1>4. events' \in Seq(E \union {e}) /\ Appended(e)
  <2>1. events \in Seq(E \union {e})
    BY <1>2
  <2> QED
    BY <1>3, <2>1, AppendProperties DEF Appended
<1>5. IsList'
  BY <1>4 DEF IsList
<1> QED
  BY <1>4, <1>5 DEF Emit, e

LEMMA InitEstablishes == Init => IInv
<1>1. <<>> \in Seq({})
  OBVIOUS
<1> QED
  BY <1>1, BoundsAssumption DEF Init, IInv, TypeOK, IsList

LEMMA NextKeeps == IInv /\ [Next]_vars => IInv'
<1> SUFFICES ASSUME IInv, [Next]_vars PROVE IInv'
  OBVIOUS
<1>1. CASE UNCHANGED vars
  BY <1>1 DEF vars, IInv, TypeOK, IsList
<1>2. CASE Elapse
  <2>1. clock' \in 0..MaxTime /\ clock' = clock + 1 /\ clock \in Nat
        /\ UNCHANGED <<timeline, events>>
    BY <1>2, BoundsAssumption DEF Elapse, IInv, TypeOK
  <2> QED
    BY <2>1 DEF IInv, TypeOK, IsList
<1>3. ASSUME NEW kind \in Kinds, Emit(kind) PROVE IInv'
  <2>1. PICK d \in Payloads(kind) : Appended([kind |-> kind, at |-> clock, data |-> d])
    BY <1>3, EmitAppends
  <2> DEFINE e == [kind |-> kind, at |-> clock, data |-> d]
  <2>2. e.kind = kind /\ e.at = clock /\ Appended(e)
    BY <2>1
  <2> HIDE DEF e
  <2>3. timeline' = timeline /\ clock' = clock /\ IsList'
    BY <1>3, EmitAppends
  <2>4. clock \in 0..MaxTime /\ clock \in Nat
    BY BoundsAssumption DEF IInv, TypeOK
  <2>5. \A i \in DOMAIN events' : events'[i].kind \in Kinds /\ events'[i].at \in 0..clock
    BY <2>2, <2>4 DEF Appended, IInv, TypeOK
  <2>6. \A i, j \in DOMAIN events' : i <= j => events'[i].at <= events'[j].at
    BY <2>2, <2>4 DEF Appended, IInv, TypeOK
  <2> QED
    BY <2>3, <2>4, <2>5, <2>6 DEF IInv, TypeOK
<1> QED
  BY <1>1, <1>2, <1>3 DEF Next

\* The list of events grows at its end only, in order of receipt.
THEOREM Invariance == Spec => []IInv
BY InitEstablishes, NextKeeps, PTL DEF Spec

\* The events stay in order of receipt, as metrics.py takes for granted.
THEOREM InOrderOfReceipt == Spec => []TypeOK
<1>1. IInv => TypeOK
  BY DEF IInv
<1> QED
  BY <1>1, Invariance, PTL

-----------------------------------------------------------------------------
(* Later evidence. *)

\* The least of a set is still the least when one is added that is no less than any.
LEMMA MinOfMore ==
    ASSUME NEW A \in SUBSET Nat, NEW c \in Nat, \A x \in A : x <= c, A # {}
    PROVE  Min(A \union {c}) = Min(A)
<1>1. \A x : (x \in A \union {c} /\ \A y \in A \union {c} : x <= y)
             <=> (x \in A /\ \A y \in A : x <= y)
  <2> TAKE x
  <2>1. ASSUME x \in A \union {c}, \A y \in A \union {c} : x <= y
        PROVE  x \in A /\ \A y \in A : x <= y
    <3>1. PICK a \in A : TRUE
      OBVIOUS
    <3>2. x = c => x = a
      BY <2>1, <3>1
    <3> QED
      BY <2>1, <3>1, <3>2
  <2>2. ASSUME x \in A, \A y \in A : x <= y
        PROVE  x \in A \union {c} /\ \A y \in A \union {c} : x <= y
    BY <2>2
  <2> QED
    BY <2>1, <2>2
<1> QED
  BY <1>1 DEF Min

\* The first of some events is the first of them when there is one more.
LEMMA FirstStays ==
    ASSUME IInv, NEW e, Appended(e), e.at = clock,
           NEW I \in SUBSET DOMAIN events, I # {},
           NEW J, I \subseteq J, J \subseteq I \union {Len(events) + 1}
    PROVE  First(J)' = First(I)
<1> DEFINE A == {events[i].at : i \in I}
           B == {events'[j].at : j \in J}
<1>1. A \in SUBSET Nat /\ A # {} /\ clock \in Nat /\ \A x \in A : x <= clock
  BY BoundsAssumption DEF IInv, TypeOK
<1>2. B = A \/ B = A \union {clock}
  BY DEF Appended
<1>3. First(I) = Min(A) /\ First(J)' = Min(B)
  BY DEF First
<1> HIDE DEF A, B
<1> QED
  BY <1>1, <1>2, <1>3, MinOfMore

\* The events of a kind are those before and perhaps the new one.
LEMMA OfMore ==
    ASSUME IInv, NEW e, Appended(e), NEW kind
    PROVE  Of(kind)' = Of(kind) \union (IF e.kind = kind THEN {Len(events) + 1} ELSE {})
BY DEF Appended, Of

\* So are those after a time, and with some property that does not depend on time.
LEMMA AfterMore ==
    ASSUME IInv, NEW e, Appended(e), e.at = clock, NEW kind, NEW from
    PROVE  /\ After(kind, from) \in SUBSET DOMAIN events
           /\ After(kind, from) \subseteq After(kind, from)'
           /\ After(kind, from)' \subseteq After(kind, from) \union {Len(events) + 1}
BY OfMore DEF After, Appended, Of

\* The step of EvidenceNeverErased.
NothingErased ==
    /\ WatchdogViolationDetected => WatchdogViolationDetected'
    /\ RecoveryCommandPublished => RecoveryCommandPublished'
    /\ RecoveryCommandObserved => RecoveryCommandObserved'
    /\ RobotStopped => RobotStopped'
    /\ ~NoEarlyViolation => ~NoEarlyViolation'

LEMMA NewEventErasesNothing ==
    ASSUME IInv, NEW e, Appended(e), e.at = clock, UNCHANGED timeline
    PROVE  NothingErased
<1> DEFINE n == Len(events) + 1
<1>1. Activation' = Activation
  BY DEF Activation
<1>2. \A i \in DOMAIN events : i \in DOMAIN events' /\ events'[i] = events[i]
  BY DEF Appended
<1>3. WatchdogViolationDetected => WatchdogViolationDetected'
  BY <1>1, <1>2 DEF WatchdogViolationDetected, Detections, Between, Of
<1>4. ~NoEarlyViolation => ~NoEarlyViolation'
  BY <1>1, <1>2 DEF NoEarlyViolation, Of
<1>5. PICK start : start = Activation /\ start = Activation'
  BY <1>1
\* The stop.
<1>6. StopTime # NoTime => StopTime' = StopTime
  <2>0. PICK I, J : I = {i \in After("raw", start) : events[i].data.stopped}
                    /\ J = {i \in After("raw", start)' : events'[i].data.stopped}
    OBVIOUS
  <2>1. I \in SUBSET DOMAIN events /\ I \subseteq J /\ J \subseteq I \union {n}
    BY <2>0, <1>2, AfterMore
  <2>2. StopTime = First(I) /\ StopTime' = First(J)'
    BY <2>0, <1>5 DEF StopTime, Stopped, After
  <2>3. I = {} => StopTime = NoTime
    BY <2>2 DEF First
  <2> QED
    BY <2>1, <2>2, <2>3, FirstStays
\* The detection, and what follows it.
<1>7. Detection # NoTime => Detection' = Detection
  <2>0. PICK I, J : I = After("violation", start)
                    /\ J = After("violation", start)'
    OBVIOUS
  <2>1. I \in SUBSET DOMAIN events /\ I \subseteq J /\ J \subseteq I \union {n}
    BY <2>0, AfterMore
  <2>2. Detection = First(I) /\ Detection' = First(J)'
    BY <2>0, <1>5 DEF Detection, After
  <2>3. I = {} => Detection = NoTime
    BY <2>2 DEF First
  <2> QED
    BY <2>1, <2>2, <2>3, FirstStays
<1>8. RobotStopped => RobotStopped'
  BY <1>1, <1>6 DEF RobotStopped
<1>9. RecoveryCommandPublished => RecoveryCommandPublished'
  <2> SUFFICES ASSUME RecoveryCommandPublished PROVE RecoveryCommandPublished'
    OBVIOUS
  <2>1. PICK found : found = Detection /\ found = Detection' /\ found # NoTime
    BY <1>7 DEF RecoveryCommandPublished
  <2>0. PICK I, J : I = After("recovery", found)
                    /\ J = After("recovery", found)'
    OBVIOUS
  <2>2. I \in SUBSET DOMAIN events /\ I \subseteq J /\ J \subseteq I \union {n}
    BY <2>0, AfterMore
  <2>3. Follows(First(I), CommandWithin) /\ I # {}
    BY <2>0, <2>1 DEF RecoveryCommandPublished, Follows, First, After
  <2>4. First(J)' = First(I)
    BY <2>2, <2>3, FirstStays
  <2>5. RecoveryCommandPublished' <=> Follows(First(J), CommandWithin)'
    BY <2>0, <2>1 DEF RecoveryCommandPublished, After
  <2> QED
    BY <2>1, <2>3, <2>4, <2>5 DEF Follows
<1>10. RecoveryCommandObserved => RecoveryCommandObserved'
  <2> SUFFICES ASSUME RecoveryCommandObserved PROVE RecoveryCommandObserved'
    OBVIOUS
  <2>1. PICK found : found = Detection /\ found = Detection' /\ found # NoTime
    BY <1>7 DEF RecoveryCommandObserved
  <2>0. PICK I, J : I = {i \in After("command", found) : events[i].data}
                    /\ J = {i \in After("command", found)' : events'[i].data}
    OBVIOUS
  <2>2. I \in SUBSET DOMAIN events /\ I \subseteq J /\ J \subseteq I \union {n}
    BY <2>0, <1>2, AfterMore
  <2>3. Follows(First(I), ObservedWithin) /\ I # {}
    BY <2>0, <2>1 DEF RecoveryCommandObserved, Follows, First, After
  <2>4. First(J)' = First(I)
    BY <2>2, <2>3, FirstStays
  <2>5. RecoveryCommandObserved' <=> Follows(First(J), ObservedWithin)'
    BY <2>0, <2>1 DEF RecoveryCommandObserved, After
  <2> QED
    BY <2>1, <2>3, <2>4, <2>5 DEF Follows
<1> QED
  BY <1>3, <1>4, <1>8, <1>9, <1>10 DEF NothingErased

LEMMA NothingErasedStep == IInv /\ [Next]_vars => [NothingErased]_vars
<1> SUFFICES ASSUME IInv, Next PROVE NothingErased
  OBVIOUS
<1>1. CASE Elapse
  <2>1. events' = events /\ timeline' = timeline
    BY <1>1 DEF Elapse
  <2>2. Detection' = Detection /\ StopTime' = StopTime
    BY <2>1 DEF Detection, StopTime, Stopped, First, After, Of, Activation
  <2>3. PICK found : found = Detection /\ found = Detection'
    BY <2>2
  <2>4. \A kind : After(kind, found)' = After(kind, found)
    BY <2>1 DEF After, Of
  <2>5. RecoveryCommandPublished' <=> RecoveryCommandPublished
    <3>1. First(After("recovery", found))' = First(After("recovery", found))
      BY <2>1 DEF First, After, Of
    <3> QED
      BY <2>3, <3>1 DEF RecoveryCommandPublished, Follows, First, After
  <2>6. RecoveryCommandObserved' <=> RecoveryCommandObserved
    <3>1. PICK I : I = {i \in Of("command") :
                          events[i].at >= found /\ events[i].data}
      OBVIOUS
    <3>2. First(I)' = First(I)
      BY <2>1 DEF First
    <3>3. {i \in After("command", found) : events[i].data} = I
      BY <3>1 DEF After
    <3>4. {i \in After("command", found) : events[i].data}' = I
      BY <2>1, <3>1 DEF After, Of
    <3>5. Follows(First(I), ObservedWithin)' <=> Follows(First(I), ObservedWithin)
      BY <2>2, <3>2 DEF Follows
    <3>6. RecoveryCommandObserved <=> found # NoTime /\ Follows(First(I), ObservedWithin)
      BY <2>3, <3>3 DEF RecoveryCommandObserved
    <3>7. RecoveryCommandObserved' <=> found # NoTime /\ Follows(First(I), ObservedWithin)'
      BY <2>3, <3>4 DEF RecoveryCommandObserved
    <3> QED
      BY <3>5, <3>6, <3>7
  <2>7. WatchdogViolationDetected' <=> WatchdogViolationDetected
    BY <2>1 DEF WatchdogViolationDetected, Detections, Between, Of, Activation
  <2>8. (NoEarlyViolation' <=> NoEarlyViolation) /\ (RobotStopped' <=> RobotStopped)
    BY <2>1, <2>2 DEF NoEarlyViolation, Of, RobotStopped, Activation
  <2> QED
    BY <2>5, <2>6, <2>7, <2>8 DEF NothingErased
<1>2. ASSUME NEW kind \in Kinds, Emit(kind) PROVE NothingErased
  <2>1. PICK d \in Payloads(kind) : Appended([kind |-> kind, at |-> clock, data |-> d])
    BY <1>2, EmitAppends
  <2>2. timeline' = timeline
    BY <1>2, EmitAppends
  <2>3. [kind |-> kind, at |-> clock, data |-> d].at = clock
    OBVIOUS
  <2> QED
    BY <2>1, <2>2, <2>3, NewEventErasesNothing
<1> QED
  BY <1>1, <1>2 DEF Next

\* A violation detected, a recovery published, a command observed and a stop stay
\* so whatever is received later, and an early violation is not forgiven
\* (core/assertions.py over a list that _emit appends to).
THEOREM ShownIsShown == Spec => EvidenceNeverErased
<1>1. Spec => [][NothingErased]_vars
  BY Invariance, NothingErasedStep, PTL DEF Spec
<1> QED
  BY <1>1 DEF EvidenceNeverErased, NothingErased

-----------------------------------------------------------------------------
(* The scan for a broken hold. *)

LEMMA SetInduction ==
  ASSUME NEW S, 0 \in S, \A n \in S \cap Nat : n + 1 \in S
  PROVE Nat \subseteq S
<1> DEFINE T == Nat \ S
<1>1. SUFFICES ASSUME T # {} PROVE FALSE
  OBVIOUS
<1>2. PICK R : R = {ss \in Nat \X Nat : ss[1] < ss[2]} /\ IsWellFoundedOn(R, Nat)
  BY NatLessThanWellFounded, Zenon DEF OpToRel
<1>3. PICK x \in T : \A y \in T : ~(<<y, x>> \in R)
  BY <1>1, <1>2, WFMin
<1>4. x \in Nat /\ x # 0 /\ x - 1 \in Nat /\ x - 1 < x
  OBVIOUS
<1>5. <<x - 1, x>> \in R
  BY <1>2, <1>4
<1>6. x - 1 \in S \cap Nat
  BY <1>3, <1>4, <1>5
<1> QED
  BY <1>4, <1>6

\* What HoldScan is by its definition, if there is such a function.
Scanned(stop, scan) ==
    scan = [n \in 0..Len(events) |->
                IF n = 0 THEN [previous |-> stop, broken |-> NoTime]
                ELSE IF n \in Between("raw", stop, stop + Hold)
                     THEN HoldStep(scan[n - 1], events[n])
                ELSE scan[n - 1]]

LEMMA ScanExists ==
    ASSUME NEW stop, Len(events) \in Nat PROVE \E scan : Scanned(stop, scan)
<1> DEFINE first == [previous |-> stop, broken |-> NoTime]
           held == Between("raw", stop, stop + Hold)
           Step(scan, n) == IF n \in held THEN HoldStep(scan, events[n]) ELSE scan
           Upto(m) == \E scan : scan = [n \in 0..m |->
                            IF n = 0 THEN first ELSE Step(scan[n - 1], n)]
           S == {m \in Nat : Upto(m)}
<1>1. 0 \in S
  <2>1. [n \in 0..0 |-> first] = [n \in 0..0 |->
                IF n = 0 THEN first ELSE Step([k \in 0..0 |-> first][n - 1], n)]
    OBVIOUS
  <2> QED
    BY <2>1
<1>2. ASSUME NEW m \in Nat, Upto(m) PROVE Upto(m + 1)
  <2>1. PICK scan : scan = [n \in 0..m |-> IF n = 0 THEN first ELSE Step(scan[n - 1], n)]
    BY <1>2
  <2> HIDE DEF Step, first
  <2> DEFINE more == [n \in 0..(m + 1) |-> IF n = m + 1 THEN Step(scan[m], m + 1) ELSE scan[n]]
  <2>2. \A n \in 0..m : more[n] = scan[n]
    OBVIOUS
  <2>3. more[m + 1] = Step(scan[m], m + 1)
    OBVIOUS
  <2>4. more = [n \in 0..(m + 1) |-> more[n]]
    OBVIOUS
  <2> HIDE DEF more
  <2>5. \A n \in 0..(m + 1) : more[n] = IF n = 0 THEN first ELSE Step(more[n - 1], n)
    <3>1. more[0] = first
      <4>1. scan[0] = first /\ 0 \in 0..m
        BY <2>1
      <4> QED
        BY <2>2, <4>1
    <3>2. ASSUME NEW n \in 1..m PROVE more[n] = Step(more[n - 1], n)
      <4>1. n \in 0..m /\ n - 1 \in 0..m /\ n # 0
        OBVIOUS
      <4>2. scan[n] = Step(scan[n - 1], n)
        BY <2>1, <4>1
      <4> QED
        BY <2>2, <4>1, <4>2
    <3>3. more[m + 1] = Step(more[(m + 1) - 1], m + 1)
      <4>1. m \in 0..m /\ (m + 1) - 1 = m
        OBVIOUS
      <4> QED
        BY <2>2, <2>3, <4>1
    <3>4. \A n \in 0..(m + 1) : n = 0 \/ n \in 1..m \/ n = m + 1
      OBVIOUS
    <3>5. \A n \in 1..m : n # 0
      OBVIOUS
    <3> QED
      BY <3>1, <3>2, <3>3, <3>4, <3>5
  <2> DEFINE value(n) == IF n = 0 THEN first ELSE Step(more[n - 1], n)
  <2>6. \A n \in 0..(m + 1) : more[n] = value(n)
    BY <2>5
  <2> HIDE DEF value
  <2>7. more = [n \in 0..(m + 1) |-> value(n)]
    BY <2>4, <2>6
  <2>8. more = [n \in 0..(m + 1) |-> IF n = 0 THEN first ELSE Step(more[n - 1], n)]
    BY <2>7 DEF value
  <2> QED
    BY <2>8, Zenon
<1> HIDE DEF Upto
<1>3. Nat \subseteq S
  <2>1. \A m \in S \cap Nat : m + 1 \in S
    BY <1>2
  <2> HIDE DEF S
  <2> QED
    BY <1>1, <2>1, SetInduction
<1>4. Upto(Len(events))
  BY <1>3
<1> QED
  BY <1>4 DEF Upto, Scanned


LEMMA ScanIsScanned ==
    ASSUME NEW stop, Len(events) \in Nat PROVE Scanned(stop, HoldScan(stop))
BY ScanExists DEF HoldScan, Scanned

IsLeast(t, T) == t \in T /\ \A u \in T : t <= u

\* The times seen by the scan when it has seen n events.
Seen(stop, n) == {i \in Between("raw", stop, stop + Hold) : i <= n}
Marks(stop, n) == {stop} \union {events[i].at : i \in Seen(stop, n)}

\* Either the hold is unbroken as far as it was scanned, or its first violation is found.
ScanSound(stop, n, scan) ==
    /\ scan = [previous |-> scan.previous, broken |-> scan.broken]
    /\ scan.broken = NoTime =>
        /\ scan.previous \in Marks(stop, n)
        /\ \A t \in Marks(stop, n) : t <= scan.previous
        /\ \A i \in Seen(stop, n) : Stopped(i)
        /\ \A t \in Marks(stop, n) : t < scan.previous =>
                \E u \in Marks(stop, n) : t < u /\ u - t <= MaxGap
    /\ scan.broken # NoTime => IsLeast(scan.broken, HoldViolations(stop))

\* All that the scan needs of the list: the robot's samples are in order of receipt.
SamplesInOrder ==
    /\ Len(events) \in Nat /\ DOMAIN events = 1..Len(events)
    /\ \A i \in 1..Len(events) : events[i].at \in Nat
    /\ \A i, j \in Of("raw") : i <= j => events[i].at <= events[j].at

LEMMA ListInOrder ==
    ASSUME IInv
    PROVE  /\ Len(events) \in Nat /\ DOMAIN events = 1..Len(events)
           /\ \A i \in 1..Len(events) : events[i].at \in Nat
           /\ \A i, j \in 1..Len(events) : i <= j => events[i].at <= events[j].at
           /\ SamplesInOrder
<1>1. Len(events) \in Nat /\ DOMAIN events = 1..Len(events)
  BY DEF IInv, IsList
<1>2. \A i \in DOMAIN events : events[i].at \in Nat
  BY BoundsAssumption DEF IInv, TypeOK
<1>3. \A i, j \in DOMAIN events : i <= j => events[i].at <= events[j].at
  BY DEF IInv, TypeOK
<1> QED
  BY <1>1, <1>2, <1>3 DEF SamplesInOrder, Of

\* A time is a violation for one of two reasons.
LEMMA WhatViolates ==
    ASSUME NEW stop, NEW t
    PROVE  t \in HoldViolations(stop) <=>
            LET held == Between("raw", stop, stop + Hold)
                marks == {events[i].at : i \in held} \union {stop, stop + Hold}
            IN  \/ \E i \in held : ~Stopped(i) /\ t = events[i].at
                \/ t \in marks /\ t # stop + Hold /\ \A u \in marks : u > t => u - t > MaxGap
BY DEF HoldViolations

LEMMA ScanStep ==
    ASSUME SamplesInOrder, NEW stop \in Nat, NEW n \in 1..Len(events), NEW scan,
           ScanSound(stop, n - 1, scan)
    PROVE  ScanSound(stop, n, IF n \in Between("raw", stop, stop + Hold)
                              THEN HoldStep(scan, events[n])
                              ELSE scan)
<1> DEFINE held == Between("raw", stop, stop + Hold)
           at(i) == events[i].at
           S == Seen(stop, n - 1)
           M == Marks(stop, n - 1)
           marks == {events[i].at : i \in held} \union {stop, stop + Hold}
           V == HoldViolations(stop)
<1>1. /\ Len(events) \in Nat
      /\ \A i \in 1..Len(events) : at(i) \in Nat
      /\ \A i, j \in held : i <= j => at(i) <= at(j)
      /\ held \subseteq 1..Len(events)
      /\ \A i \in held : stop <= at(i) /\ at(i) <= stop + Hold
      /\ stop + Hold \in Nat /\ MaxGap \in Nat
  <2>1. /\ held \subseteq 1..Len(events)
        /\ \A i \in held : stop <= at(i) /\ at(i) <= stop + Hold
        /\ \A i, j \in held : i <= j => at(i) <= at(j)
    BY DEF SamplesInOrder, Between, Of
  <2>2. stop + Hold \in Nat /\ MaxGap \in Nat
    BY ExpectationsAssumption DEF MaxGap
  <2> QED
    BY <2>1, <2>2 DEF SamplesInOrder
<1>2. CASE n \notin held
  <2>1. Seen(stop, n) = Seen(stop, n - 1)
    BY <1>1, <1>2 DEF Seen
  <2> QED
    BY <1>2, <2>1 DEF ScanSound, Marks
<1>3. CASE n \in held
  <2>1. /\ Seen(stop, n) = S \union {n}
        /\ Marks(stop, n) = M \union {at(n)}
        /\ \A t \in M : t \in Nat /\ t <= at(n)
        /\ \A i \in held : at(i) < at(n) => i \in S
    <3>1. Seen(stop, n) = S \union {n}
      BY <1>1, <1>3 DEF Seen
    <3>2. Marks(stop, n) = M \union {at(n)}
      BY <3>1 DEF Marks
    <3>3. \A i \in S : i \in held /\ i <= n
      BY <1>1 DEF Seen
    <3>4. \A t \in M : t \in Nat /\ t <= at(n)
      BY <1>1, <1>3, <3>3 DEF Marks
    <3>5. \A i \in held : at(i) < at(n) => i \in S
      <4>1. \A i \in held : at(i) < at(n) => i <= n - 1
        BY <1>1, <1>3
      <4> QED
        BY <4>1 DEF Seen
    <3> HIDE DEF S, M, held
    <3> QED
      BY <3>1, <3>2, <3>4, <3>5
  <2>2. CASE scan.broken # NoTime
    BY <1>3, <2>2 DEF ScanSound, HoldStep
  <2>3. CASE scan.broken = NoTime
    <3>1. /\ scan.previous \in M
          /\ \A t \in M : t <= scan.previous
          /\ \A i \in S : Stopped(i)
          /\ \A t \in M : t < scan.previous => \E u \in M : t < u /\ u - t <= MaxGap
      BY <2>3 DEF ScanSound
    <3>2. M \subseteq marks
      BY DEF Marks, Seen
    <3>3. \A t : t \in V <=> \/ \E i \in held : ~Stopped(i) /\ t = at(i)
                             \/ /\ t \in marks /\ t # stop + Hold
                                /\ \A u \in marks : u > t => u - t > MaxGap
      BY WhatViolates
    <3>4. \A t \in marks : t < at(n) => t \in M
      BY <1>1, <1>3, <2>1 DEF Marks
    <3>5. (\A t \in V : t \in Nat) /\ (\A t \in marks : t \in Nat)
      BY <1>1, <3>3
    <3> HIDE DEF S, M, marks, V
    <3>6. \A t \in V : scan.previous <= t
      <4>0. scan.previous \in Nat /\ scan.previous <= at(n) /\ at(n) \in Nat
        BY <1>1, <1>3, <2>1, <3>1
      <4>1. ASSUME NEW t \in V, t < scan.previous PROVE FALSE
        <5>0. t \in Nat /\ t < at(n)
          BY <3>5, <4>0, <4>1
        <5>1. CASE \E i \in held : ~Stopped(i) /\ t = at(i)
          BY <2>1, <3>1, <5>0, <5>1
        <5>2. CASE t \in marks /\ \A u \in marks : u > t => u - t > MaxGap
          <6>1. PICK u \in M : t < u /\ u - t <= MaxGap
            BY <3>1, <3>4, <4>1, <5>0, <5>2
          <6>2. u \in marks /\ u \in Nat
            BY <2>1, <3>2, <6>1
          <6> QED
            BY <1>1, <5>0, <5>2, <6>1, <6>2
        <5> QED
          BY <3>3, <5>1, <5>2
      <4> QED
        BY <3>5, <4>0, <4>1
    <3>7. CASE at(n) - scan.previous > MaxGap
      <4>1. \A u \in marks : u > scan.previous => u >= at(n)
        BY <1>1, <1>3, <2>1, <3>1, <3>4, <3>5
      <4>0. scan.previous \in V
        <5>1. scan.previous \in marks /\ scan.previous \in Nat /\ at(n) \in Nat
          BY <1>1, <1>3, <2>1, <3>1, <3>2
        <5>2. \A u \in marks : u > scan.previous => u - scan.previous > MaxGap
          BY <1>1, <3>5, <3>7, <4>1, <5>1
        <5>3. scan.previous # stop + Hold
          BY <1>1, <1>3, <3>7, <5>1
        <5> QED
          BY <3>3, <5>1, <5>2, <5>3
      <4>2. HoldStep(scan, events[n]) = [scan EXCEPT !.broken = scan.previous]
        BY <2>3, <3>7 DEF HoldStep
      <4>3. scan.previous # NoTime
        BY <2>1, <3>1 DEF NoTime
      <4> QED
        BY <1>3, <3>6, <4>0, <4>2, <4>3 DEF ScanSound, IsLeast, V
    <3>8. CASE at(n) - scan.previous <= MaxGap /\ ~Stopped(n)
      <4>1. at(n) \in V
        BY <1>3, <3>3, <3>8
      <4>2. ASSUME NEW t \in V, t < at(n) PROVE FALSE
        <5>1. CASE \E i \in held : ~Stopped(i) /\ t = at(i)
          BY <2>1, <3>1, <4>2, <5>1
        <5>2. CASE t \in marks /\ \A u \in marks : u > t => u - t > MaxGap
          <6>1. t \in M /\ t \in Nat /\ at(n) \in Nat /\ at(n) \in marks
            BY <1>1, <1>3, <3>4, <3>5, <4>2, <5>2 DEF marks
          <6>2. t = scan.previous
            BY <2>1, <3>1, <3>6, <6>1
          <6> QED
            BY <1>1, <3>8, <4>2, <5>2, <6>1, <6>2
        <5> QED
          BY <3>3, <5>1, <5>2
      <4>3. HoldStep(scan, events[n]) = [scan EXCEPT !.broken = at(n)]
        BY <1>1, <1>3, <2>1, <2>3, <3>1, <3>8 DEF HoldStep, Stopped
      <4>4. at(n) # NoTime
        BY <1>1, <1>3 DEF NoTime
      <4> QED
        <5>1. at(n) \in Nat /\ \A t \in V : at(n) <= t
          BY <1>1, <1>3, <3>5, <4>2
        <5> QED
          BY <1>3, <4>1, <4>3, <4>4, <5>1 DEF ScanSound, IsLeast, V
    <3>9. CASE at(n) - scan.previous <= MaxGap /\ Stopped(n)
      <4>1. HoldStep(scan, events[n]) = [scan EXCEPT !.previous = at(n)]
        BY <1>1, <1>3, <2>1, <2>3, <3>1, <3>9 DEF HoldStep, Stopped
      <4>2. \A t \in M \union {at(n)} : t < at(n) =>
                \E u \in M \union {at(n)} : t < u /\ u - t <= MaxGap
        <5>0. scan.previous \in Nat /\ at(n) \in Nat
          BY <1>1, <1>3, <2>1, <3>1
        <5>1. ASSUME NEW t \in M, t < scan.previous
              PROVE  \E u \in M \union {at(n)} : t < u /\ u - t <= MaxGap
          BY <3>1, <5>1
        <5>2. ASSUME NEW t \in M, t < at(n), ~(t < scan.previous)
              PROVE  t < at(n) /\ at(n) - t <= MaxGap
          <6>1. t = scan.previous
            BY <2>1, <3>1, <5>0, <5>2
          <6> QED
            BY <3>9, <5>2, <6>1
        <5>3. ~(at(n) < at(n))
          BY <5>0
        <5> HIDE DEF at
        <5> QED
          BY <5>1, <5>2, <5>3
      <4> QED
        <5>1. /\ at(n) \in Marks(stop, n)
              /\ \A t \in Marks(stop, n) : t <= at(n)
              /\ \A i \in Seen(stop, n) : Stopped(i)
              /\ \A t \in Marks(stop, n) : t < at(n) =>
                    \E u \in Marks(stop, n) : t < u /\ u - t <= MaxGap
          BY <1>1, <1>3, <2>1, <3>1, <3>9, <4>2
        <5> QED
          BY <1>3, <2>3, <4>1, <5>1 DEF ScanSound
    <3> QED
      BY <1>1, <1>3, <2>1, <3>1, <3>7, <3>8, <3>9
  <2> QED
    BY <2>2, <2>3
<1> QED
  BY <1>2, <1>3

LEMMA ScanStaysSound ==
    ASSUME SamplesInOrder, NEW stop \in Nat
    PROVE  ScanSound(stop, Len(events), HoldScan(stop)[Len(events)])
<1> DEFINE scan == HoldScan(stop)
           held == Between("raw", stop, stop + Hold)
           S == {n \in Nat : n <= Len(events) => ScanSound(stop, n, scan[n])}
<1>1. Len(events) \in Nat
  BY DEF SamplesInOrder
<1>2. /\ scan[0] = [previous |-> stop, broken |-> NoTime]
      /\ \A n \in 1..Len(events) :
            scan[n] = IF n \in held THEN HoldStep(scan[n - 1], events[n]) ELSE scan[n - 1]
  <2>1. Scanned(stop, scan)
    BY <1>1, ScanIsScanned
  <2> HIDE DEF scan
  <2> QED
    BY <1>1, <2>1 DEF Scanned
<1> HIDE DEF scan
<1>3. 0 \in S
  <2>1. held \subseteq 1..Len(events)
    BY DEF SamplesInOrder, Between, Of
  <2>2. Seen(stop, 0) = {}
    BY <1>1, <2>1 DEF Seen
  <2> QED
    BY <1>2, <2>2 DEF ScanSound, Marks
<1>4. ASSUME NEW m \in S \cap Nat PROVE m + 1 \in S
  <2>1. CASE m + 1 <= Len(events)
    <3>1. m + 1 \in 1..Len(events) /\ (m + 1) - 1 = m /\ ScanSound(stop, m, scan[m])
      BY <1>1, <1>4, <2>1
    <3>2. ScanSound(stop, m + 1, IF m + 1 \in held THEN HoldStep(scan[m], events[m + 1])
                                 ELSE scan[m])
      BY <3>1, ScanStep
    <3> QED
      BY <1>2, <3>1, <3>2
  <2>2. CASE ~(m + 1 <= Len(events))
    BY <2>2
  <2> QED
    BY <2>1, <2>2
<1> HIDE DEF S
<1>5. Nat \subseteq S
  BY <1>3, <1>4, SetInduction
<1> QED
  BY <1>1, <1>5 DEF S, scan

\* The least member is Min of the set.
LEMMA LeastIsMin ==
    ASSUME NEW T \in SUBSET Nat, NEW t, IsLeast(t, T)
    PROVE  T # {} /\ t = Min(T)
<1>1. \A u \in T : (\A v \in T : u <= v) => u = t
  BY DEF IsLeast
<1>2. Min(T) \in T /\ \A v \in T : Min(T) <= v
  BY Zenon DEF IsLeast, Min
<1> QED
  BY <1>1, <1>2

FirstViolation(stop) ==
    IF HoldViolations(stop) = {} THEN NoTime ELSE Min(HoldViolations(stop))

LEMMA BrokenIsFirst ==
    SamplesInOrder => \A stop \in Nat : HoldBrokenAt(stop) = FirstViolation(stop)
<1> SUFFICES ASSUME SamplesInOrder, NEW stop \in Nat
             PROVE  HoldBrokenAt(stop) = FirstViolation(stop)
  OBVIOUS
<1> DEFINE n == Len(events)
           scan == HoldScan(stop)[n]
           held == Between("raw", stop, stop + Hold)
           at(i) == events[i].at
           M == Marks(stop, n)
           marks == {events[i].at : i \in held} \union {stop, stop + Hold}
           V == HoldViolations(stop)
<1>1. /\ n \in Nat
      /\ \A i \in 1..n : at(i) \in Nat
      /\ held \subseteq 1..n
      /\ \A i \in held : stop <= at(i) /\ at(i) <= stop + Hold
      /\ Hold \in Nat /\ stop + Hold \in Nat /\ stop <= stop + Hold /\ MaxGap \in Nat
  <2>1. held \subseteq 1..n /\ \A i \in held : stop <= at(i) /\ at(i) <= stop + Hold
    BY DEF SamplesInOrder, Between, Of
  <2>2. Hold \in Nat /\ MaxGap \in Nat
    BY ExpectationsAssumption DEF MaxGap
  <2>3. stop + Hold \in Nat /\ stop <= stop + Hold
    BY <2>2
  <2> QED
    BY <2>1, <2>2, <2>3 DEF SamplesInOrder
<1>2. ScanSound(stop, n, scan)
  BY ScanStaysSound
<1>3. HoldBrokenAt(stop) =
        IF scan.broken = NoTime /\ stop + Hold - scan.previous > MaxGap
        THEN scan.previous ELSE scan.broken
  BY DEF HoldBrokenAt
<1>4. Seen(stop, n) = held
  BY <1>1 DEF Seen
<1>5. marks = M \union {stop + Hold} /\ marks \subseteq Nat
  BY <1>1, <1>4 DEF Marks
<1>6. \A t : t \in V <=> \/ \E i \in held : ~Stopped(i) /\ t = at(i)
                         \/ /\ t \in marks /\ t # stop + Hold
                            /\ \A u \in marks : u > t => u - t > MaxGap
  BY WhatViolates
<1>7. V \in SUBSET Nat
  BY <1>1, <1>5, <1>6
<1> HIDE DEF n, scan, M, marks, V
<1>8. CASE scan.broken # NoTime
  <2>1. IsLeast(scan.broken, V)
    BY <1>2, <1>8 DEF ScanSound, V
  <2>2. V # {} /\ scan.broken = Min(V)
    BY <1>7, <2>1, LeastIsMin
  <2> QED
    BY <1>3, <1>8, <2>2 DEF FirstViolation, V
<1>9. CASE scan.broken = NoTime
  <2>1. /\ scan.previous \in M /\ scan.previous \in Nat
        /\ \A t \in M : t <= scan.previous
        /\ \A i \in held : Stopped(i)
        /\ \A t \in M : t < scan.previous => \E u \in M : t < u /\ u - t <= MaxGap
    BY <1>2, <1>4, <1>5, <1>9 DEF ScanSound, M
  \* Where no sample moved and the gaps seen are small, only the last one is left.
  <2>2. ASSUME NEW t \in V
        PROVE  t = scan.previous /\ stop + Hold - scan.previous > MaxGap
    <3>1. /\ t \in marks /\ t # stop + Hold /\ t \in M /\ t \in Nat
          /\ \A u \in marks : u > t => u - t > MaxGap
      BY <1>5, <1>6, <2>1
    <3>2. t = scan.previous
      BY <1>1, <1>5, <2>1, <3>1
    <3>3. stop + Hold \in marks /\ t <= stop + Hold
      BY <1>1, <1>4, <1>5, <3>1 DEF M, Marks
    <3>4. stop + Hold > t
      BY <1>1, <3>1, <3>3
    <3> QED
      BY <1>1, <3>1, <3>2, <3>3, <3>4
  <2>3. CASE stop + Hold - scan.previous > MaxGap
    <3>1. scan.previous \in V
      <4>1. scan.previous \in marks
        BY <1>5, <2>1
      <4>2. scan.previous # stop + Hold
        BY <1>1, <2>1, <2>3
      <4>3. \A u \in marks : u > scan.previous => u - scan.previous > MaxGap
        <5>1. SUFFICES ASSUME NEW u \in marks, u > scan.previous
                       PROVE  u - scan.previous > MaxGap
          OBVIOUS
        <5>2. u \in M => u <= scan.previous /\ u \in Nat
          BY <1>5, <2>1
        <5>3. u = stop + Hold
          BY <1>5, <2>1, <5>1, <5>2
        <5> QED
          BY <1>1, <1>5, <2>1, <2>3, <5>3
      <4> QED
        BY <1>6, <4>1, <4>2, <4>3
    <3>2. IsLeast(scan.previous, V)
      BY <2>1, <2>2, <3>1 DEF IsLeast
    <3>3. V # {} /\ scan.previous = Min(V)
      BY <1>7, <3>2, LeastIsMin
    <3> QED
      BY <1>3, <1>9, <2>3, <3>3 DEF FirstViolation, V
  <2>4. CASE ~(stop + Hold - scan.previous > MaxGap)
    <3>1. V = {}
      BY <2>2, <2>4
    <3> QED
      BY <1>3, <1>9, <2>4, <3>1 DEF FirstViolation, V
  <2> QED
    BY <2>3, <2>4
<1> QED
  BY <1>8, <1>9

\* A set of times that is not empty has a least member.
LEMMA LeastExists ==
    ASSUME NEW T \in SUBSET Nat, T # {} PROVE \E t : IsLeast(t, T)
<1>1. PICK R : R = {ss \in Nat \X Nat : ss[1] < ss[2]} /\ IsWellFoundedOn(R, Nat)
  BY NatLessThanWellFounded, Zenon DEF OpToRel
<1>2. PICK t \in T : \A u \in T : ~(<<u, t>> \in R)
  BY <1>1, WFMin
<1>3. \A u \in T : t <= u
  <2> TAKE u \in T
  <2>1. u \in Nat /\ t \in Nat /\ ~(<<u, t>> \in R)
    BY <1>2
  <2>2. u < t => <<u, t>> \in R
    BY <1>1, <2>1
  <2> QED
    BY <2>1, <2>2
<1> QED
  BY <1>2, <1>3 DEF IsLeast

LEMMA MinIsLeast ==
    ASSUME NEW T \in SUBSET Nat, T # {} PROVE IsLeast(Min(T), T)
<1>1. PICK t : IsLeast(t, T)
  BY LeastExists
<1>2. t = Min(T)
  BY <1>1, LeastIsMin
<1> QED
  BY <1>1, <1>2

\* A stop is a time of receipt.
LEMMA StopIsTime == IInv => (StopTime = NoTime \/ StopTime \in Nat)
<1> SUFFICES ASSUME IInv, StopTime # NoTime PROVE StopTime \in Nat
  OBVIOUS
<1> DEFINE I == {i \in After("raw", Activation) : Stopped(i)}
           T == {events[i].at : i \in I}
<1>1. I # {} /\ StopTime = Min(T)
  BY DEF StopTime, First
<1>2. T \in SUBSET Nat /\ T # {}
  BY <1>1, ListInOrder DEF After, Of
<1> HIDE DEF T
<1>3. Min(T) \in T
  BY <1>2, MinIsLeast DEF IsLeast
<1> QED
  BY <1>1, <1>2, <1>3

LEMMA ScanFinds == IInv => HoldScanFindsFirst
BY ListInOrder, StopIsTime, BrokenIsFirst DEF HoldScanFindsFirst, FirstViolation

\* The scan of stop_hold_broken_at_sec finds the first violation of the hold, and
\* finds one if there is one: however the gaps lie between the samples, the stop
\* and the deadline.
THEOREM ScanFindsFirst == Spec => []HoldScanFindsFirst
BY ScanFinds, Invariance, PTL

-----------------------------------------------------------------------------
(* Evidence that comes too late to matter. *)

LEMMA MaxOfTwo ==
    ASSUME NEW a \in Int, NEW b \in Int
    PROVE  Max({a, b}) \in Int /\ Max({a, b}) >= a /\ Max({a, b}) >= b
<1>1. \E x \in {a, b} : \A y \in {a, b} : x >= y
  <2>1. CASE a >= b
    BY <2>1
  <2>2. CASE b >= a
    BY <2>2
  <2> QED
    BY <2>1, <2>2
<1>2. Max({a, b}) \in {a, b} /\ \A y \in {a, b} : Max({a, b}) >= y
  BY <1>1 DEF Max
<1> QED
  BY <1>2

LEMMA MaxIsEither ==
    ASSUME NEW a \in Int, NEW b \in Int
    PROVE  Max({a, b}) = a \/ Max({a, b}) = b
<1>1. \E x \in {a, b} : \A y \in {a, b} : x >= y
  <2>1. CASE a >= b
    BY <2>1
  <2>2. CASE b >= a
    BY <2>2
  <2> QED
    BY <2>1, <2>2
<1> QED
  BY <1>1 DEF Max

LEMMA MaxOfThree ==
    ASSUME NEW a \in Int, NEW b \in Int, NEW c \in Int
    PROVE  /\ Max({a, b, c}) \in Int
           /\ Max({a, b, c}) >= a /\ Max({a, b, c}) >= b /\ Max({a, b, c}) >= c
<1> DEFINE T == {a, b, c}
<1>1. \E x \in T : \A y \in T : x >= y
  <2>1. CASE a >= b /\ a >= c
    BY <2>1
  <2>2. CASE b >= a /\ b >= c
    BY <2>2
  <2>3. CASE c >= a /\ c >= b
    BY <2>3
  <2> QED
    BY <2>1, <2>2, <2>3
<1>2. Max(T) \in T /\ \A y \in T : Max(T) >= y
  BY <1>1, Zenon DEF Max
<1> QED
  BY <1>2

\* What lies behind when a verdict is settled.
LEMMA BehindSettled ==
    ASSUME IInv, NEW f, clock > SettledAt(f)
    PROVE  /\ Activation \in Nat /\ clock \in Nat /\ Activation < clock
           /\ f = "none" => /\ timeline.observationDeadline < clock
                            /\ Activation + RobotWithin < clock
           /\ f # "none" => /\ Activation + FaultWithin < clock
                            /\ Activation + RobotWithin + Hold < clock
                            /\ Activation + WatchdogWithin + CommandWithin < clock
                            /\ Activation + WatchdogWithin + ObservedWithin < clock
<1>1. Activation \in Nat /\ timeline.observationDeadline \in Nat /\ clock \in Nat
  BY TimelinesAssumption, BoundsAssumption DEF IInv, TypeOK, Activation
<1>2. /\ FaultWithin \in Nat /\ WatchdogWithin \in Nat /\ CommandWithin \in Nat
      /\ ObservedWithin \in Nat /\ RobotWithin \in Nat /\ Hold \in Nat
  BY ExpectationsAssumption
<1>3. CASE f = "none"
  <2> DEFINE m == Max({timeline.observationDeadline, Activation + RobotWithin})
  <2>1. m \in Int /\ m >= timeline.observationDeadline /\ m >= Activation + RobotWithin
    BY <1>1, <1>2, MaxOfTwo
  <2>2. clock > m
    BY <1>3 DEF SettledAt
  <2> HIDE DEF m
  <2> QED
    BY <1>1, <1>2, <1>3, <2>1, <2>2
<1>4. CASE f # "none"
  <2> DEFINE r == Max({CommandWithin, ObservedWithin})
             m == Max({FaultWithin, RobotWithin + Hold, WatchdogWithin + r})
  <2>1. r \in Int /\ r >= CommandWithin /\ r >= ObservedWithin
    BY <1>2, MaxOfTwo
  <2>2. clock > Activation + m
    BY <1>4 DEF SettledAt
  <2> HIDE DEF r
  <2>3. m \in Int /\ m >= FaultWithin /\ m >= RobotWithin + Hold /\ m >= WatchdogWithin + r
    <3>1. WatchdogWithin + r \in Int /\ RobotWithin + Hold \in Int /\ FaultWithin \in Int
      BY <1>2, <2>1
    <3> QED
      BY <3>1, MaxOfThree
  <2> HIDE DEF m
  <2> QED
    BY <1>1, <1>2, <1>4, <2>1, <2>2, <2>3
<1> QED
  BY <1>3, <1>4

\* A window that has closed stays as it is.
LEMMA WindowKept ==
    ASSUME IInv, NEW e, Appended(e), e.at = clock, NEW kind, NEW from, NEW to, to < clock,
           clock \in Nat, to \in Int
    PROVE  Between(kind, from, to)' = Between(kind, from, to)
<1>1. /\ Between(kind, from, to) = {i \in Of(kind) : from <= events[i].at /\ events[i].at <= to}
      /\ Between(kind, from, to)' =
            {i \in Of(kind)' : from <= events'[i].at /\ events'[i].at <= to}
  BY DEF Between
<1>2. Of(kind) \subseteq DOMAIN events /\ \A i \in DOMAIN events : events'[i] = events[i]
  BY DEF Of, Appended
<1>3. events'[Len(events) + 1] = e /\ ~(e.at <= to)
  BY DEF Appended
<1> QED
  BY <1>1, <1>2, <1>3, OfMore

\* The first of some events stays the first, or one comes now.
LEMMA FirstStaysOrComes ==
    ASSUME IInv, NEW e, Appended(e), e.at = clock,
           NEW I \in SUBSET DOMAIN events,
           NEW J, I \subseteq J, J \subseteq I \union {Len(events) + 1}
    PROVE  First(J)' = First(I) \/ (First(I) = NoTime /\ First(J)' = clock)
<1>1. CASE I # {}
  BY <1>1, FirstStays
<1>2. CASE I = {} /\ J = {}
  BY <1>2 DEF First
<1>3. CASE I = {} /\ J # {}
  <2>1. {events'[j].at : j \in J} = {clock}
    BY <1>3 DEF Appended
  <2>2. clock \in Nat
    BY BoundsAssumption DEF IInv, TypeOK
  <2>3. Min({clock}) = clock
    BY <2>2 DEF Min
  <2>4. First(I) = NoTime /\ First(J)' = Min({events'[j].at : j \in J})
    BY <1>3 DEF First
  <2> QED
    BY <2>1, <2>3, <2>4
<1> QED
  BY <1>1, <1>2, <1>3

\* A set of events that is not empty has a last one.
LEMMA LastInList ==
    ASSUME NEW n \in Nat, NEW T \in SUBSET (1..n), T # {}
    PROVE  Max(T) \in T /\ \A u \in T : Max(T) >= u
<1> DEFINE D == {n - t : t \in T}
<1>1. D \in SUBSET Nat /\ D # {}
  <2>1. \A t \in T : n - t \in Nat
    OBVIOUS
  <2> QED
    BY <2>1
<1>2. PICK d : IsLeast(d, D)
  <2> HIDE DEF D
  <2> QED
    BY <1>1, LeastExists
<1>3. PICK t \in T : d = n - t /\ \A u \in T : n - t <= n - u
  BY <1>2 DEF IsLeast
<1>4. \A u \in T : t >= u
  BY <1>3
<1> QED
  BY <1>4, Zenon DEF Max

\* What has not followed in time does not follow any more.
LEMMA FollowingSettled ==
    ASSUME IInv, NEW e, Appended(e), e.at = clock,
           NEW I \in SUBSET DOMAIN events,
           NEW J, I \subseteq J, J \subseteq I \union {Len(events) + 1},
           NEW found \in Nat, NEW within \in Nat, found + within < clock, clock \in Nat
    PROVE  (First(J)' # NoTime /\ First(J)' - found <= within)
                <=> (First(I) # NoTime /\ First(I) - found <= within)
<1>1. First(J)' = First(I) \/ (First(I) = NoTime /\ First(J)' = clock)
  BY FirstStaysOrComes
<1>2. ~(clock - found <= within)
  OBVIOUS
<1> QED
  BY <1>1, <1>2

LEMMA NewEventSettled ==
    ASSUME IInv, IInv', NEW e, Appended(e), e.at = clock, UNCHANGED timeline,
           NEW f \in FaultTypes, clock > SettledAt(f)
    PROVE  Standing(f)' = Standing(f)
<1>1. /\ Activation \in Nat /\ clock \in Nat /\ Activation < clock
      /\ f = "none" => /\ timeline.observationDeadline < clock
                       /\ Activation + RobotWithin < clock
      /\ f # "none" => /\ Activation + FaultWithin < clock
                       /\ Activation + RobotWithin + Hold < clock
                       /\ Activation + WatchdogWithin + CommandWithin < clock
                       /\ Activation + WatchdogWithin + ObservedWithin < clock
  BY BehindSettled
<1>2. /\ FaultWithin \in Nat /\ WatchdogWithin \in Nat /\ CommandWithin \in Nat
      /\ ObservedWithin \in Nat /\ RobotWithin \in Nat /\ Hold \in Nat
      /\ Delay \in Nat /\ Tolerance \in Nat
  BY ExpectationsAssumption
<1>3. PICK start : start = Activation /\ start = Activation'
  BY DEF Activation
<1>10. /\ start \in Nat /\ clock \in Nat /\ start < clock /\ start + RobotWithin < clock
       /\ f # "none" => /\ start + FaultWithin < clock
                        /\ start + RobotWithin + Hold < clock
                        /\ start + WatchdogWithin + CommandWithin < clock
                        /\ start + WatchdogWithin + ObservedWithin < clock
  <2>1. Activation = start
    BY <1>3
  <2>2. Activation + RobotWithin < clock
    BY <1>1, <1>2
  <2> QED
    BY <1>1, <2>1, <2>2
<1>4. \A i \in DOMAIN events : i \in DOMAIN events' /\ events'[i] = events[i]
  BY DEF Appended
\* The stop, and whether it was in time.
<1>5. StopTime' = StopTime \/ (StopTime = NoTime /\ StopTime' = clock)
  <2>0. PICK I, J : I = {i \in After("raw", start) : events[i].data.stopped}
                    /\ J = {i \in After("raw", start)' : events'[i].data.stopped}
    OBVIOUS
  <2>1. I \in SUBSET DOMAIN events /\ I \subseteq J /\ J \subseteq I \union {Len(events) + 1}
    BY <2>0, <1>4, AfterMore
  <2>2. StopTime = First(I) /\ StopTime' = First(J)'
    BY <2>0, <1>3 DEF StopTime, Stopped, After
  <2> QED
    BY <2>1, <2>2, FirstStaysOrComes
<1>6. RobotStopped' = RobotStopped
  <2>1. /\ RobotStopped <=> StopTime # NoTime /\ StopTime - start <= RobotWithin
        /\ RobotStopped' <=> StopTime' # NoTime /\ StopTime' - start <= RobotWithin
    BY <1>3 DEF RobotStopped
  <2>2. ~(clock - start <= RobotWithin)
    BY <1>2, <1>10
  <2>3. RobotStopped' <=> RobotStopped
    BY <1>5, <2>1, <2>2
  <2> QED
    BY <2>3 DEF RobotStopped
<1>7. CASE f = "none"
  <2>1. PICK from, to : /\ from = timeline.baselineStart /\ from = timeline'.baselineStart
                        /\ to = timeline.observationDeadline
                        /\ to = timeline'.observationDeadline
    OBVIOUS
  <2>2. to < clock /\ to \in Int
    BY <1>1, <1>7, <2>1, TimelinesAssumption DEF IInv, TypeOK
  <2>3. \A kind : Between(kind, from, to)' = Between(kind, from, to)
    BY <1>1, <2>2, WindowKept
  <2>4. /\ NoViolationDuringObservation' = NoViolationDuringObservation
        /\ NoRecoveryCommand' = NoRecoveryCommand
    BY <2>1, <2>3 DEF NoViolationDuringObservation, NoRecoveryCommand, Between
  <2> QED
    BY Zenon, <1>6, <1>7, <2>4 DEF Standing, Results
<1>8. CASE f # "none"
  <2> DEFINE to == start + FaultWithin
  <2>1. to < clock /\ to \in Int
    BY <1>2, <1>8, <1>10
  <2>2. NoEarlyViolation' = NoEarlyViolation
    <3>1. /\ Of("violation") \subseteq DOMAIN events
          /\ Of("violation") \subseteq Of("violation")'
          /\ Of("violation")' \subseteq Of("violation") \union {Len(events) + 1}
      BY OfMore DEF Of
    <3>2. start <= events'[Len(events) + 1].at
      BY <1>1, <1>3 DEF Appended
    <3>3. NoEarlyViolation' <=> NoEarlyViolation
      BY <1>3, <1>4, <3>1, <3>2 DEF NoEarlyViolation
    <3> QED
      BY <3>3 DEF NoEarlyViolation
  <2>3. FaultObservable(f)' = FaultObservable(f)
    <3>1. \A kind : Between(kind, start, to)' = Between(kind, start, to)
      BY <1>1, <2>1, WindowKept
    <3>2. \A kind : /\ FaultWindow(kind)' = FaultWindow(kind)
                    /\ FaultWindow(kind) \subseteq DOMAIN events
      BY <1>3, <2>1, <3>1 DEF FaultWindow, Between, Of
    <3>3. DropoutObservable' = DropoutObservable
      <4>1. FaultWindow("counters") # {} =>
                Max(FaultWindow("counters")) \in DOMAIN events
        BY <3>2, ListInOrder, LastInList
      <4>2. DropoutObservable' <=> DropoutObservable
        BY <1>4, <3>2, <4>1 DEF DropoutObservable
      <4> QED
        BY <4>2 DEF DropoutObservable
    \* A raw sample that comes later than a faulted one is not what it was made of.
    <3>4. LatencyObservable' = LatencyObservable
      <4>1. Threshold \in Int /\ Threshold >= 0
        <5>1. Delay - Tolerance \in Int /\ 0 \in Int
          BY <1>2
        <5> QED
          BY <5>1, MaxOfTwo DEF Threshold
      <4>2. /\ Of("raw") \subseteq DOMAIN events /\ Of("raw") \subseteq Of("raw")'
            /\ Of("raw")' \subseteq Of("raw") \union {Len(events) + 1}
        BY OfMore DEF Of
      <4>3. \A i \in FaultWindow("faulted") :
                ~(events'[i].at - events'[Len(events) + 1].at >= Threshold)
        <5> SUFFICES ASSUME NEW i \in FaultWindow("faulted")
                     PROVE  ~(events'[i].at - events'[Len(events) + 1].at >= Threshold)
          OBVIOUS
        <5>1. events'[i].at <= to /\ events'[i].at \in Nat
          BY <1>3, <1>4, <3>2, ListInOrder DEF FaultWindow, Between
        <5>2. events'[Len(events) + 1].at = clock
          BY DEF Appended
        <5> QED
          BY <1>1, <2>1, <4>1, <5>1, <5>2
      <4>4. Threshold' = Threshold
        BY DEF Threshold
      <4>5. LatencyObservable' <=> LatencyObservable
        BY <1>4, <3>2, <4>2, <4>3, <4>4 DEF LatencyObservable
      <4> QED
        BY <4>5 DEF LatencyObservable
    <3>5. StaleObservable' = StaleObservable
      <4>2. StaleObservable' <=> StaleObservable
        BY <1>4, <3>2 DEF StaleObservable
      <4> QED
        BY <4>2 DEF StaleObservable
    <3> QED
      BY <1>8, <3>3, <3>4, <3>5 DEF FaultObservable, FaultTypes
  <2>4. WatchdogViolationDetected' <=> WatchdogViolationDetected
    <3> DEFINE end == start + WatchdogWithin
    <3>1. end < clock /\ end \in Int
      BY <1>2, <1>8, <1>10
    <3>2. Between("violation", start, end)' = Between("violation", start, end)
      BY <1>1, <3>1, WindowKept
    <3>3. Between("violation", start, end) \subseteq DOMAIN events
      BY DEF Between, Of
    <3>4. /\ WatchdogViolationDetected <=>
                \E i \in Between("violation", start, end) : events[i].data = Violation
          /\ WatchdogViolationDetected' <=>
                \E i \in Between("violation", start, end)' : events'[i].data = Violation
      BY <1>3 DEF WatchdogViolationDetected, Detections, Between
    <3> QED
      BY <1>4, <3>2, <3>3, <3>4
  <2>5. ASSUME WatchdogViolationDetected
        PROVE  /\ RecoveryCommandPublished' <=> RecoveryCommandPublished
               /\ RecoveryCommandObserved' <=> RecoveryCommandObserved
    <3>0. PICK V, W : V = After("violation", start) /\ W = After("violation", start)'
      OBVIOUS
    <3>1. V \in SUBSET DOMAIN events /\ V \subseteq W /\ W \subseteq V \union {Len(events) + 1}
      BY <3>0, AfterMore
    <3>2. Detection = First(V) /\ Detection' = First(W)'
      BY <3>0, <1>3 DEF Detection, After
    <3>3. PICK i \in V : events[i].at <= start + WatchdogWithin
      BY <1>3, <2>5, <3>0 DEF WatchdogViolationDetected, Detections, Between, After
    <3>4. Detection' = Detection
      BY <3>1, <3>2, <3>3, FirstStays
    <3>5. Detection \in Nat /\ Detection <= start + WatchdogWithin
      <4> DEFINE T == {events[j].at : j \in V}
      <4>1. T \in SUBSET Nat /\ events[i].at \in T
        BY <3>1, ListInOrder
      <4>2. Detection = Min(T)
        BY <3>2, <3>3 DEF First
      <4> HIDE DEF T
      <4>3. IsLeast(Min(T), T)
        BY <4>1, MinIsLeast
      <4>4. Detection \in Nat /\ Detection <= events[i].at
        BY <4>1, <4>2, <4>3 DEF IsLeast
      <4>5. events[i].at \in Nat
        BY <4>1
      <4>6. start + WatchdogWithin \in Nat
        BY <1>2, <1>10
      <4> QED
        BY <3>3, <4>4, <4>5, <4>6
    <3>6. PICK found \in Nat : found = Detection /\ found = Detection' /\ found # NoTime
      BY <3>4, <3>5 DEF NoTime
    <3>7. found + CommandWithin < clock /\ found + ObservedWithin < clock
      <4>1. found <= start + WatchdogWithin
        BY <3>5, <3>6
      <4> QED
        BY <1>2, <1>8, <1>10, <4>1
    <3>8. RecoveryCommandPublished' <=> RecoveryCommandPublished
      <4>0. PICK I, J : I = After("recovery", found) /\ J = After("recovery", found)'
        OBVIOUS
      <4>1. I \in SUBSET DOMAIN events /\ I \subseteq J /\ J \subseteq I \union {Len(events) + 1}
        BY <4>0, AfterMore
      <4>2. RecoveryCommandPublished <=>
                First(I) # NoTime /\ First(I) - found <= CommandWithin
        BY <3>6, <4>0 DEF RecoveryCommandPublished, Follows, After
      <4>3. RecoveryCommandPublished' <=>
                First(J)' # NoTime /\ First(J)' - found <= CommandWithin
        BY <3>6, <4>0 DEF RecoveryCommandPublished, Follows, After
      <4> QED
        BY <1>1, <1>2, <3>7, <4>1, <4>2, <4>3, FollowingSettled
    <3>9. RecoveryCommandObserved' <=> RecoveryCommandObserved
      <4>0. PICK I, J : /\ I = {j \in After("command", found) : events[j].data}
                        /\ J = {j \in After("command", found)' : events'[j].data}
        OBVIOUS
      <4>1. I \in SUBSET DOMAIN events /\ I \subseteq J /\ J \subseteq I \union {Len(events) + 1}
        BY <1>4, <4>0, AfterMore
      <4>2. RecoveryCommandObserved <=>
                First(I) # NoTime /\ First(I) - found <= ObservedWithin
        BY <3>6, <4>0 DEF RecoveryCommandObserved, Follows, After
      <4>3. RecoveryCommandObserved' <=>
                First(J)' # NoTime /\ First(J)' - found <= ObservedWithin
        BY <3>6, <4>0 DEF RecoveryCommandObserved, Follows, After
      <4> QED
        BY <1>1, <1>2, <3>7, <4>1, <4>2, <4>3, FollowingSettled
    <3> QED
      BY <3>8, <3>9
  <2>6. ASSUME RobotStopped PROVE RobotStoppedHeld' <=> RobotStoppedHeld
    <3>1. StopTime # NoTime /\ StopTime - start <= RobotWithin /\ StopTime \in Nat
      BY <1>3, <2>6, StopIsTime DEF RobotStopped
    <3>2. PICK stop \in Nat : stop = StopTime /\ stop = StopTime' /\ stop # NoTime
      BY <1>5, <3>1
    <3>3. stop + Hold < clock /\ stop + Hold \in Int
      <4>1. stop - start <= RobotWithin
        BY <3>1, <3>2
      <4> QED
        BY <1>2, <1>8, <1>10, <4>1
    <3>4. Between("raw", stop, stop + Hold)' = Between("raw", stop, stop + Hold)
      BY <1>1, <3>3, WindowKept
    <3>5. Between("raw", stop, stop + Hold) \subseteq DOMAIN events
      BY DEF Between, Of
    <3>6. HoldViolations(StopTime)' = HoldViolations(StopTime)
      <4> DEFINE held == Between("raw", stop, stop + Hold)
                 marks == {events[i].at : i \in held} \union {stop, stop + Hold}
      <4>1. \A i \in held : events'[i] = events[i]
        BY <1>4, <3>5
      <4>2. held' = held
        BY <3>4
      <4>3. marks' = marks
        BY <4>1, <4>2
      <4> HIDE DEF held
      <4>4. {i \in held' : ~events'[i].data.stopped} = {i \in held : ~events[i].data.stopped}
        BY <4>1, <4>2
      <4>5. {events'[i].at : i \in {i \in held' : ~events'[i].data.stopped}}
                = {events[i].at : i \in {i \in held : ~events[i].data.stopped}}
        BY <4>1, <4>4
      <4> HIDE DEF marks
      <4>6. HoldViolations(StopTime) =
                {events[i].at : i \in {i \in held : ~events[i].data.stopped}}
                \union {t \in marks \ {stop + Hold} : \A u \in marks : u > t => u - t > MaxGap}
        BY <3>2 DEF HoldViolations, Stopped, held, marks
      <4>7. HoldViolations(StopTime)' =
                {events'[i].at : i \in {i \in held' : ~events'[i].data.stopped}}
                \union {t \in marks' \ {stop + Hold} : \A u \in marks' : u > t => u - t > MaxGap}
        BY <3>2 DEF HoldViolations, Stopped, held, marks
      <4> QED
        BY <4>3, <4>5, <4>6, <4>7
    <3>7. HoldScanFindsFirst /\ HoldScanFindsFirst'
      <4>1. (IInv => HoldScanFindsFirst)'
        BY ScanFinds, PTL
      <4> QED
        BY <4>1, ScanFinds
    <3> QED
      BY <3>1, <3>2, <3>6, <3>7 DEF RobotStoppedHeld, HoldScanFindsFirst
  <2>7. /\ WatchdogViolationDetected' = WatchdogViolationDetected
        /\ (WatchdogViolationDetected /\ RecoveryCommandPublished)'
                = (WatchdogViolationDetected /\ RecoveryCommandPublished)
        /\ (WatchdogViolationDetected /\ RecoveryCommandObserved)'
                = (WatchdogViolationDetected /\ RecoveryCommandObserved)
        /\ (RobotStopped /\ RobotStoppedHeld)' = (RobotStopped /\ RobotStoppedHeld)
    <3>1. WatchdogViolationDetected' = WatchdogViolationDetected
      BY <2>4 DEF WatchdogViolationDetected
    <3> QED
      BY <1>6, <2>4, <2>5, <2>6, <3>1
  <2> QED
    BY Zenon, <1>6, <1>8, <2>2, <2>3, <2>7 DEF Standing
<1> QED
  BY <1>7, <1>8

\* The step of VerdictSettles.
Settles == \A f \in FaultTypes : clock > SettledAt(f) => Standing(f)' = Standing(f)

LEMMA SettlesStep == IInv /\ [Next]_vars => [Settles]_vars
<1> SUFFICES ASSUME IInv, Next PROVE Settles
  OBVIOUS
<1>1. CASE Elapse
  <2>1. events' = events /\ timeline' = timeline
    BY <1>1 DEF Elapse
  <2>2. StopTime' = StopTime /\ Detection' = Detection
    BY <2>1 DEF Detection, StopTime, Stopped, First, After, Of, Activation
  <2>3. /\ NoViolationDuringObservation' = NoViolationDuringObservation
        /\ NoRecoveryCommand' = NoRecoveryCommand
        /\ NoEarlyViolation' = NoEarlyViolation
        /\ WatchdogViolationDetected' = WatchdogViolationDetected
    BY <2>1 DEF NoViolationDuringObservation, NoRecoveryCommand, NoEarlyViolation,
                WatchdogViolationDetected, Detections, Between, Of, Activation
  <2>4. DropoutObservable' = DropoutObservable
    BY <2>1 DEF DropoutObservable, FaultWindow, Between, Of, Activation
  <2>5. LatencyObservable' = LatencyObservable
    BY <2>1 DEF LatencyObservable, FaultWindow, Between, Of, Activation, Threshold
  <2>6. StaleObservable' = StaleObservable
    BY <2>1 DEF StaleObservable, FaultWindow, Between, Of, Activation
  <2>7. RecoveryCommandPublished' = RecoveryCommandPublished
    BY <2>1, <2>2 DEF RecoveryCommandPublished, Follows, First, After, Of
  <2>8. RecoveryCommandObserved' = RecoveryCommandObserved
    BY <2>1, <2>2 DEF RecoveryCommandObserved, Follows, First, After, Of
  <2>9. RobotStopped' = RobotStopped
    BY <2>1, <2>2 DEF RobotStopped, Activation
  <2>10. RobotStoppedHeld' = RobotStoppedHeld
    BY <2>1, <2>2 DEF RobotStoppedHeld, HoldBrokenAt, HoldScan, HoldStep, Between, Of
  <2>11. ASSUME NEW f \in FaultTypes PROVE Standing(f)' = Standing(f)
    <3>1. CASE f = "none"
      BY Zenon, <2>3, <2>9, <3>1 DEF Standing, Results
    <3>2. CASE f # "none"
      <4>1. FaultObservable(f)' = FaultObservable(f)
        BY <2>4, <2>5, <2>6, <3>2 DEF FaultObservable, FaultTypes
      <4> QED
        BY Zenon, <2>3, <2>7, <2>8, <2>9, <2>10, <3>2, <4>1 DEF Standing
    <3> QED
      BY <3>1, <3>2
  <2> QED
    BY <2>11 DEF Settles
<1>2. ASSUME NEW kind \in Kinds, Emit(kind) PROVE Settles
  <2>1. PICK d \in Payloads(kind) : Appended([kind |-> kind, at |-> clock, data |-> d])
    BY <1>2, EmitAppends
  <2>2. timeline' = timeline
    BY <1>2, EmitAppends
  <2>3. [kind |-> kind, at |-> clock, data |-> d].at = clock
    OBVIOUS
  <2>4. IInv'
    BY NextKeeps
  <2> QED
    BY <2>1, <2>2, <2>3, <2>4, NewEventSettled DEF Settles
<1> QED
  BY <1>1, <1>2 DEF Next

\* Evidence that is received after the last deadline of the scenario - while the
\* runner drains its executor - changes no result of evaluate_scenario, but that of
\* a recovery whose detection or a hold whose stop was missed.
THEOREM VerdictIsSettled == Spec => VerdictSettles
<1>1. Spec => [][Settles]_vars
  BY Invariance, SettlesStep, PTL DEF Spec
<1> QED
  BY <1>1 DEF VerdictSettles, Settles

\* A trial passes as its results stand.
LEMMA VerdictOfStanding ==
    ASSUME NEW f
    PROVE  AllPass(Results(f)) <=> AllPass(Standing(f))
<1>1. CASE f = "none"
  BY Zenon, <1>1 DEF Standing
<1>2. CASE f # "none"
  <2> DEFINE early == NoEarlyViolation
             shown == FaultObservable(f)
             detected == WatchdogViolationDetected
             published == RecoveryCommandPublished
             observed == RecoveryCommandObserved
             stopped == RobotStopped
             held == RobotStoppedHeld
             followed == detected /\ published
             obeyed == detected /\ observed
             kept == stopped /\ held
  <2>1. Results(f) = <<early, shown, detected, published, observed, stopped, held>>
    BY Zenon, <1>2 DEF Results
  <2>2. Standing(f) = <<early, shown, detected, followed, obeyed, stopped, kept>>
    BY Zenon, <1>2 DEF Standing
  <2> HIDE DEF followed, obeyed, kept
  <2> HIDE DEF early, shown, detected, published, observed, stopped, held
  <2>3. AllPass(Results(f)) <=>
            early /\ shown /\ detected /\ published /\ observed /\ stopped /\ held
    BY <2>1 DEF AllPass
  <2>4. AllPass(Standing(f)) <=>
            early /\ shown /\ detected /\ followed /\ obeyed /\ stopped /\ kept
    BY <2>2 DEF AllPass
  <2> QED
    BY <2>3, <2>4 DEF followed, obeyed, kept
<1> QED
  BY <1>1, <1>2

\* That is why the verdict of run_trial does not turn either: whatever is received
\* after the last deadline, a trial that passed still passes, one that failed fails.
THEOREM VerdictNeverTurns ==
    Spec => [][\A f \in FaultTypes : clock > SettledAt(f) =>
                    (AllPass(Results(f))' <=> AllPass(Results(f)))]_vars
<1> DEFINE Turns == \A f \in FaultTypes : clock > SettledAt(f) =>
                        (AllPass(Results(f))' <=> AllPass(Results(f)))
<1>1. Settles => Turns
  <2> SUFFICES ASSUME NEW f \in FaultTypes, Standing(f)' = Standing(f)
               PROVE  AllPass(Results(f))' <=> AllPass(Results(f))
    BY DEF Settles
  <2>1. AllPass(Results(f)) <=> AllPass(Standing(f))
    BY VerdictOfStanding
  <2>2. AllPass(Results(f))' <=> AllPass(Standing(f))'
    <3>1. (AllPass(Results(f)) <=> AllPass(Standing(f)))'
      BY VerdictOfStanding, PTL
    <3> QED
      BY <3>1
  <2>3. AllPass(Standing(f))' <=> AllPass(Standing(f))
    BY DEF AllPass
  <2> QED
    BY <2>1, <2>2, <2>3
<1>2. Spec => [][Settles]_vars
  BY Invariance, SettlesStep, PTL DEF Spec
<1>3. [][Settles]_vars => [][Turns]_vars
  BY <1>1, PTL
<1> QED
  BY <1>2, <1>3
=============================================================================
