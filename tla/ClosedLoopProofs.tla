-------------------------- MODULE ClosedLoopProofs --------------------------
(***************************************************************************)
(* Theorems about ClosedLoop, for all faults, all parameters under which   *)
(* the watchdog is set up for the robot's stream and every order in which  *)
(* the callbacks of a tick may run.                                        *)
(*                                                                         *)
(* The inductive invariant has three parts.  Plumbing says what is in      *)
(* flight where, whatever the fault.  As long as nothing but a tolerable   *)
(* fault has been applied, Calm keeps the accounts of the messages - each  *)
(* is pending, in flight or has arrived, and none for longer than the      *)
(* lateness of the fault.  While a fault hides the robot, Hidden says that *)
(* all the watchdog can come to see is from before the fault or too old.   *)
(*                                                                         *)
(* What the alarm is called takes one more: InOrder, by which no message   *)
(* overtakes the samples while the fault has only begun to hide them.      *)
(* Conserved keeps the accounts whatever the fault, and Undue bounds what  *)
(* is pending; with the accounts no bound of a part is met, and the loop   *)
(* implements the specifications of its parts.                             *)
(***************************************************************************)
EXTENDS ClosedLoop, SequenceTheorems, FiniteSetTheorems, FunctionTheorems, TLAPS

\* Of the worlds around the watchdog in those proofs nothing is used: what stands
\* for their streams does not matter.
WP == INSTANCE WatchdogProofs WITH
    ClockSteps <- FALSE, MaxArrivals <- 2 * MaxTime, raised <- refused,
    Lateness <- 0, WildTime <- 0, WildArrivals <- 0, healthy <- TRUE, seen <- {}

\* The stamp of the n-th sample of the robot.
StampOf(n) == (n - 1) * Period

\* The stamps in flight to the watchdog.
InFlight == {faulted[i] : i \in 1..Len(faulted)}

Times == Nat \union {NoTime}

-----------------------------------------------------------------------------
(* What is in flight where. *)

Types ==
    /\ clock \in Nat
    /\ fault \in Faults \union {NoFault}
    /\ appliedAt \in Times /\ withdrawnAt \in Times
    /\ moving \in BOOLEAN /\ command \in BOOLEAN
    /\ polled \in BOOLEAN /\ checked \in BOOLEAN
    /\ faulted \in Seq(Nat)
    /\ received \in Nat /\ nextSequence \in Nat
    /\ entries \in SUBSET Injector!Entries /\ IsFiniteSet(entries)

\* The robot samples once a period, and each sample is where it should be.
Sampled ==
    /\ nextSample = (received + Len(raw)) * Period
    /\ clock <= nextSample /\ nextSample <= clock + Period
    /\ raw = <<>> \/ (raw = <<clock>> /\ clock = received * Period)
    /\ stamps = [n \in 1..received |-> StampOf(n)]

\* The fault is in force from its application to its withdrawal.
InForce ==
    /\ appliedAt # NoTime => FaultFrom <= appliedAt /\ appliedAt <= clock
    /\ appliedAt # NoTime => fault # NoFault
    /\ withdrawnAt # NoTime => appliedAt # NoTime /\ withdrawnAt <= clock
    /\ config = IF appliedAt # NoTime /\ withdrawnAt = NoTime THEN fault ELSE NoFault

\* What is held is a sample from before the fault.
Holds ==
    /\ holdEnabled = Injector!StaleIsActive(config)
    /\ latest = received
    /\ IF holdEnabled
       THEN held \in 1..received /\ StampOf(held) <= appliedAt
       ELSE held = 0

\* Each pending message is one that was received, delayed as the fault says, and
\* the poll has left none that is due.
Lined ==
    /\ entries # {} => Injector!LatencyIsActive(config)
    /\ \A e, f \in entries : e.message = f.message => e = f
    /\ \A e \in entries :
        /\ e.message \in 1..received
        /\ StampOf(e.message) + fault.delay - fault.jitter <= e.deadline
        /\ e.deadline <= StampOf(e.message) + fault.delay + fault.jitter
        /\ polled => clock < e.deadline

\* The watchdog has met the stream in the first tick, and sees nothing sooner
\* than it was sent.
Met ==
    /\ firstArrival = NoTime <=> arrived = 0
    /\ firstArrival <= clock
    /\ latestStamp <= clock
    /\ \A s \in InFlight : s <= clock
    /\ clock # 0 => arrived # 0

Plumbing == Types /\ Sampled /\ InForce /\ Holds /\ Lined /\ Met /\ WP!IInv

-----------------------------------------------------------------------------
(* A stream with no fault, or one the watchdog is to tolerate. *)

Lateness == IF Tolerated THEN fault.delay + fault.jitter ELSE 0

\* Every message received is pending, in flight or has arrived.
Accounted ==
    /\ arrived + Len(faulted) + Cardinality(entries) = received
    /\ \A n \in 1..received :
        \/ \E e \in entries : e.message = n
        \/ StampOf(n) \in InFlight
        \/ StampOf(n) <= latestStamp

\* No message takes longer than the lateness.
OnTime ==
    clock # 0 =>
        /\ clock <= arrived * Period + Lateness
        /\ clock <= latestStamp + Period + Lateness

Quiet == ~latched /\ ~command /\ moving

Calm ==
    appliedAt = NoTime \/ Tolerated =>
        Accounted /\ OnTime /\ Quiet /\ WP!Timed /\ WP!Remembered

-----------------------------------------------------------------------------
(* A fault that hides the robot. *)

\* From before the fault, or too old.
Old(stamp) == stamp <= appliedAt \/ clock - stamp > MaxAge

Hidden ==
    appliedAt # NoTime /\ withdrawnAt = NoTime /\ Detectable =>
        Old(latestStamp) /\ \A s \in InFlight : Old(s)

\* When a fault applied this long ago must have been detected.
DetectionTime == appliedAt + MaxAge + 1

Detected ==
    /\ appliedAt # NoTime /\ Detectable
    /\ withdrawnAt = NoTime \/ withdrawnAt > DetectionTime
    /\ clock > DetectionTime \/ (clock = DetectionTime /\ checked)
    => latched

Obeyed == command \/ ~moving => latched

IInv == Plumbing /\ Calm /\ Hidden /\ Detected /\ Obeyed

-----------------------------------------------------------------------------
(* The watchdog of the loop is that of its proofs. *)

LEMMA Parameters ==
    /\ MaxAge \in Nat \ {0} /\ Period \in Nat \ {0} /\ Window \in Nat \ {0}
    /\ LossNum \in Nat /\ LossDen \in Nat \ {0} /\ LossNum <= LossDen
    /\ Rounding \in Nat
    /\ FALSE \in BOOLEAN
    /\ MaxTime \in Nat /\ 2 * MaxTime \in Nat
    /\ 0 \in Nat /\ WP!Tolerates(0)
BY WatchdogAssumption, BoundsAssumption, StreamAssumption DEF Watchdog!Tolerates, WP!Tolerates

LEMMA SameWatchdog ==
    /\ Watchdog!Init => WP!Init
    /\ \A stamp : Watchdog!RecordArrival(stamp) => WP!RecordArrival(stamp)
    /\ Watchdog!Check => WP!Check
    /\ \A lateness : Watchdog!Tolerates(lateness) => WP!Tolerates(lateness)
<1>1. Watchdog!Init => WP!Init
  BY DEF Watchdog!Init, WP!Init, Watchdog!NoTime, WP!NoTime, Watchdog!NoReason,
     WP!NoReason, Watchdog!Healthy, WP!Healthy
<1>2. \A stamp : Watchdog!RecordArrival(stamp) => WP!RecordArrival(stamp)
  BY DEF Watchdog!RecordArrival, WP!RecordArrival, Watchdog!NoTime, WP!NoTime,
     Watchdog!LatestAfter, WP!LatestAfter
<1>3. Watchdog!Check => WP!Check
  <2>1. Watchdog!Pruned = WP!Pruned
    BY DEF Watchdog!Pruned, WP!Pruned, Watchdog!InWindow, WP!InWindow
  <2>2. /\ Watchdog!MayBeTooSparse = WP!MayBeTooSparse
        /\ Watchdog!MustBeTooSparse = WP!MustBeTooSparse
    <3>1. Watchdog!Cardinality(Watchdog!Pruned) = WP!Cardinality(WP!Pruned)
      BY <2>1, Zenon DEF Watchdog!Cardinality, WP!Cardinality
    <3>2. Watchdog!Elapsed = WP!Elapsed
      BY DEF Watchdog!Elapsed, WP!Elapsed
    <3>3. Watchdog!Excess = WP!Excess
      BY <3>1, <3>2 DEF Watchdog!Excess, WP!Excess
    <3> QED
      BY <3>2, <3>3 DEF Watchdog!MayBeTooSparse, WP!MayBeTooSparse,
         Watchdog!MustBeTooSparse, WP!MustBeTooSparse
  <2>3. Watchdog!Findings = WP!Findings
    BY <2>2 DEF Watchdog!Findings, WP!Findings, Watchdog!TooOld, WP!TooOld,
       Watchdog!NoReason, WP!NoReason
  <2> QED
    BY <2>1, <2>3 DEF Watchdog!Check, WP!Check, Watchdog!Latch, WP!Latch,
       Watchdog!SilentVerdict, WP!SilentVerdict, Watchdog!Verdict, WP!Verdict,
       Watchdog!NoTime, WP!NoTime, Watchdog!NoReason, WP!NoReason
<1>4. \A lateness : Watchdog!Tolerates(lateness) => WP!Tolerates(lateness)
  BY DEF Watchdog!Tolerates, WP!Tolerates
<1> QED
  BY <1>1, <1>2, <1>3, <1>4

-----------------------------------------------------------------------------
(* What the calls of the injector put in flight. *)

\* The stamps that this step puts in flight.
Sent == [i \in DOMAIN outputs' |-> stamps'[outputs'[i]]]

\* These are sent, so many, and nothing else.
Sends(X, n) ==
    /\ Sent \in Seq(Nat) /\ Len(Sent) = n
    /\ {Sent[i] : i \in 1..Len(Sent)} = X
    /\ faulted' \in Seq(Nat)
    /\ Len(faulted') = Len(faulted) + n
    /\ InFlight' = InFlight \union X

LEMMA Appended ==
    ASSUME faulted \in Seq(Nat), NEW list \in Seq(Nat), Sent = list, Publish
    PROVE  Sends({list[i] : i \in 1..Len(list)}, Len(list))
<1>0. faulted' = faulted \o list
  BY DEF Publish, Sent
<1>1. /\ Len(faulted) \in Nat /\ Len(list) \in Nat
      /\ faulted' \in Seq(Nat) /\ Len(faulted') = Len(faulted) + Len(list)
  BY <1>0
<1>2. \A i \in 1..Len(faulted') :
        faulted'[i] = IF i <= Len(faulted) THEN faulted[i] ELSE list[i - Len(faulted)]
  BY <1>0, <1>1, ConcatProperties
<1>3. ASSUME NEW i \in 1..Len(list)
      PROVE  list[i] \in InFlight'
  <2>1. i + Len(faulted) \in 1..Len(faulted') /\ faulted'[i + Len(faulted)] = list[i]
    BY <1>0, <1>1, <1>2
  <2> QED
    BY <2>1 DEF InFlight
<1>4. InFlight \subseteq InFlight'
  BY <1>0, <1>1, <1>2 DEF InFlight
<1>5. ASSUME NEW i \in 1..Len(faulted')
      PROVE  faulted'[i] \in InFlight \union {list[j] : j \in 1..Len(list)}
  <2>1. CASE i <= Len(faulted)
    BY <1>0, <1>1, <1>2, <2>1 DEF InFlight
  <2>2. CASE i > Len(faulted)
    <3>1. i - Len(faulted) \in 1..Len(list)
      BY <1>1, <2>2
    <3> QED
      BY <1>1, <1>2, <2>2, <3>1
  <2> QED
    BY <1>1, <2>1, <2>2
<1>6. InFlight' = InFlight \union {list[i] : i \in 1..Len(list)}
  <2>1. \A x \in InFlight' : x \in InFlight \union {list[i] : i \in 1..Len(list)}
    BY <1>5 DEF InFlight
  <2> QED
    BY <1>3, <1>4, <2>1
<1> QED
  BY <1>1, <1>6 DEF Sends

\* One message is sent, or none.
LEMMA SendsOne ==
    ASSUME faulted \in Seq(Nat), NEW n, outputs' = <<n>>,
           NEW stamp \in Nat, stamps'[n] = stamp, Publish
    PROVE  Sends({stamp}, 1)
<1> DEFINE list == [i \in 1..1 |-> stamp]
<1>1. list \in Seq(Nat) /\ Len(list) = 1 /\ list[1] = stamp
  OBVIOUS
<1>2. Sent = list
  <2>1. DOMAIN outputs' = 1..1 /\ \A i \in 1..1 : outputs'[i] = n
    OBVIOUS
  <2> QED
    BY <2>1 DEF Sent
<1>3. Sends({list[i] : i \in 1..Len(list)}, Len(list))
  BY <1>1, <1>2, Appended
<1>4. {list[i] : i \in 1..Len(list)} = {stamp}
  BY <1>1
<1> QED
  BY <1>1, <1>3, <1>4

LEMMA SendsNone ==
    ASSUME faulted \in Seq(Nat), outputs' = <<>>, Publish
    PROVE  Sends({}, 0)
<1> DEFINE list == [i \in 1..0 |-> stamps'[outputs'[i]]]
<1>1. list \in Seq(Nat) /\ Len(list) = 0
  OBVIOUS
<1>2. Sent = list
  <2>1. DOMAIN outputs' = 1..0
    OBVIOUS
  <2> QED
    BY <2>1 DEF Sent
<1>3. Sends({list[i] : i \in 1..Len(list)}, Len(list))
  BY <1>1, <1>2, Appended
<1>4. {list[i] : i \in 1..Len(list)} = {}
  BY <1>1
<1> QED
  BY <1>1, <1>3, <1>4

LEMMA IntervalFromOne ==
    ASSUME NEW n \in Nat
    PROVE  IsFiniteSet(1..n) /\ Cardinality(1..n) = n
BY FS_Interval

\* A list of entries, with no entry twice, that is as long as their set.
IsListing(s, R) ==
    /\ s \in [1..Cardinality(R) -> R]
    /\ \A i, j \in 1..Cardinality(R) : i < j => s[i] # s[j]

LEMMA SendsListing ==
    ASSUME faulted \in Seq(Nat), NEW R, IsFiniteSet(R), NEW s, IsListing(s, R),
           \A e \in R : stamps'[e.message] \in Nat,
           outputs' = Injector!Messages(s), Publish
    PROVE  Sends({stamps'[e.message] : e \in R}, Cardinality(R))
<1> DEFINE n == Cardinality(R)
           list == [i \in 1..n |-> stamps'[s[i].message]]
<1>1. n \in Nat /\ IsFiniteSet(1..n) /\ Cardinality(1..n) = n
  BY FS_CardinalityType, IntervalFromOne
<1>2. s \in [1..n -> R] /\ \A i, j \in 1..n : s[i] = s[j] => i = j
  BY <1>1 DEF IsListing
<1>3. s \in Surjection(1..n, R)
  <2>1. s \in Injection(1..n, R)
    BY <1>2 DEF Injection, IsInjective
  <2> QED
    BY <1>1, <2>1, FS_Injection
<1>4. list \in Seq(Nat) /\ Len(list) = n
  <2>1. \A i \in 1..n : stamps'[s[i].message] \in Nat
    BY <1>2
  <2>2. list \in [1..n -> Nat]
    BY <2>1
  <2> HIDE DEF list, n
  <2> QED
    BY <1>1, <2>2
<1>5. Sent = list
  <2>1. DOMAIN outputs' = 1..n /\ \A i \in 1..n : outputs'[i] = s[i].message
    BY <1>2 DEF Injector!Messages
  <2> QED
    BY <2>1 DEF Sent
<1>6. Sends({list[i] : i \in 1..n}, n)
  <2>1. Sends({list[i] : i \in 1..Len(list)}, Len(list))
    BY <1>4, <1>5, Appended
  <2> QED
    BY <1>4, <2>1
<1>7. {list[i] : i \in 1..n} = {stamps'[e.message] : e \in R}
  <2>1. \A e \in R : \E i \in 1..n : s[i] = e
    BY <1>3 DEF Surjection
  <2> QED
    BY <1>2, <2>1
<1> QED
  BY <1>6, <1>7

\* Of these entries some are released: they leave the queue and are sent.
Releases(E) ==
    /\ entries' \subseteq E
    /\ Sends({StampOf(e.message) : e \in E \ entries'}, Cardinality(E \ entries'))

LEMMA StampType == \A n \in Nat \ {0} : StampOf(n) \in Nat
BY Parameters DEF StampOf

LEMMA ListedAreReleased ==
    ASSUME faulted \in Seq(Nat), NEW n \in Nat, stamps' = [m \in 1..n |-> StampOf(m)],
           NEW E, IsFiniteSet(E), \A e \in E : e.message \in 1..n,
           NEW R \in SUBSET E, entries' = E \ R,
           NEW s, IsListing(s, R), outputs' = Injector!Messages(s), Publish
    PROVE  Releases(E)
<1>1. IsFiniteSet(R) /\ E \ entries' = R
  BY FS_Subset
<1>2. \A e \in R : stamps'[e.message] = StampOf(e.message) /\ StampOf(e.message) \in Nat
  BY StampType
<1>3. Sends({stamps'[e.message] : e \in R}, Cardinality(R))
  BY <1>1, <1>2, SendsListing
<1>4. {stamps'[e.message] : e \in R} = {StampOf(e.message) : e \in R}
  BY <1>2
<1> QED
  BY <1>1, <1>3, <1>4 DEF Releases

LEMMA OrdersAreStrict ==
    \A e \in Injector!Entries :
        ~Injector!PopsBefore(e, e) /\ ~Injector!FlushesBefore(e, e)
BY DEF Injector!Entries, Injector!PopsBefore, Injector!FlushesBefore

\* pop_ready releases what is due, and nothing else.
LEMMA PopReleases ==
    ASSUME faulted \in Seq(Nat), clock \in Nat,
           NEW n \in Nat, stamps' = [m \in 1..n |-> StampOf(m)],
           NEW E \in SUBSET Injector!Entries, IsFiniteSet(E),
           \A e \in E : e.message \in 1..n,
           Injector!PopReady(E, clock), Publish
    PROVE  /\ Releases(E)
           /\ \A e \in entries' : clock < e.deadline
           /\ \A e \in E \ entries' : e.deadline <= clock
<1> DEFINE R == Injector!Ready(E, clock)
<1>1. PICK s \in Injector!Arrangements(R, Injector!PopsBefore) :
        /\ entries' = E \ R
        /\ outputs' = Injector!Messages(s)
  BY DEF Injector!PopReady, Injector!Return
<1>2. R \in SUBSET E /\ \A e \in E : e \in R <=> e.deadline <= clock
  BY DEF Injector!Ready
<1>3. \A e \in E : e.deadline \in Nat
  BY DEF Injector!Entries
<1>4. IsListing(s, R)
  <2>1. \A S : Injector!Cardinality(S) = Cardinality(S)
    BY Zenon DEF Injector!Cardinality, Cardinality
  <2>2. /\ s \in [1..Cardinality(R) -> R]
        /\ \A i, j \in 1..Cardinality(R) : i < j => Injector!PopsBefore(s[i], s[j])
    BY <2>1 DEF Injector!Arrangements
  <2>3. \A e \in R : ~Injector!PopsBefore(e, e)
    BY <1>2, OrdersAreStrict
  <2> QED
    BY <2>2, <2>3 DEF IsListing
<1> HIDE DEF R
<1>5. Releases(E)
  BY <1>1, <1>2, <1>4, ListedAreReleased
<1> QED
  BY <1>1, <1>2, <1>3, <1>5

\* flush releases everything.
LEMMA FlushReleases ==
    ASSUME faulted \in Seq(Nat),
           NEW n \in Nat, stamps' = [m \in 1..n |-> StampOf(m)],
           entries \in SUBSET Injector!Entries, IsFiniteSet(entries),
           \A e \in entries : e.message \in 1..n,
           Injector!Flush, Publish
    PROVE  Releases(entries) /\ entries' = {}
<1>1. PICK s \in Injector!Arrangements(entries, Injector!FlushesBefore) :
        /\ entries' = {}
        /\ outputs' = Injector!Messages(s)
  BY DEF Injector!Flush, Injector!Return
<1>2. IsListing(s, entries)
  <2>1. \A S : Injector!Cardinality(S) = Cardinality(S)
    BY Zenon DEF Injector!Cardinality, Cardinality
  <2>2. /\ s \in [1..Cardinality(entries) -> entries]
        /\ \A i, j \in 1..Cardinality(entries) : i < j => Injector!FlushesBefore(s[i], s[j])
    BY <2>1 DEF Injector!Arrangements
  <2>3. \A e \in entries : ~Injector!FlushesBefore(e, e)
    BY OrdersAreStrict
  <2> QED
    BY <2>2, <2>3 DEF IsListing
<1>3. entries' = entries \ entries
  BY <1>1
<1> QED
  BY <1>1, <1>2, <1>3, ListedAreReleased

\* Where no entry is pending none is released.
LEMMA NoneReleased ==
    ASSUME faulted \in Seq(Nat), entries = {}, entries' = {}, outputs' = <<>>, Publish
    PROVE  Releases(entries)
<1>1. Sends({}, 0) /\ Cardinality({}) = 0
  BY SendsNone, FS_EmptySet
<1>2. {StampOf(e.message) : e \in {}} = {}
  OBVIOUS
<1> QED
  BY <1>1, <1>2 DEF Releases

-----------------------------------------------------------------------------
(* What the actions of the injector node do. *)

LEMMA FaultFields ==
    ASSUME Plumbing
    PROVE  /\ fault.delay \in Nat /\ fault.jitter \in Nat
           /\ config.delay \in Nat /\ config.jitter \in Nat
           /\ config.dropPercent \in 0..100
           /\ entries # {} => config = fault
           /\ config = fault \/ config = NoFault
           /\ Injector!LatencyIsActive(config) => config = fault
<1>1. ASSUME NEW f \in Faults \union {NoFault}
      PROVE  f.delay \in Nat /\ f.jitter \in Nat /\ f.dropPercent \in 0..100
  <2>1. CASE f \in Faults
    BY <2>1, FaultsAssumption
  <2>2. CASE f = NoFault
    BY <2>2 DEF NoFault
  <2> QED
    BY <2>1, <2>2
<1>2. config = fault \/ config = NoFault
  BY DEF Plumbing, InForce
<1>3. ~Injector!LatencyIsActive(NoFault)
  BY DEF Injector!LatencyIsActive, NoFault
<1> QED
  BY <1>1, <1>2, <1>3 DEF Plumbing, Types, Lined

\* The sample just received is the newest, and is stamped now.
LEMMA RawIsNewest ==
    ASSUME Plumbing, raw # <<>>, stamps' = Append(stamps, Head(raw)), raw' = Tail(raw)
    PROVE  /\ clock = received * Period /\ raw' = <<>> /\ Len(raw) = 1 /\ Len(raw') = 0
           /\ stamps' = [n \in 1..(received + 1) |-> StampOf(n)]
           /\ stamps'[received + 1] = clock
<1>1. /\ received \in Nat /\ clock = received * Period /\ raw = <<clock>>
      /\ stamps = [n \in 1..received |-> StampOf(n)]
  BY DEF Plumbing, Types, Sampled
<1>2. StampOf(received + 1) = clock
  BY <1>1, Parameters DEF StampOf
<1>3. Head(raw) = clock /\ raw' = <<>> /\ Len(raw) = 1 /\ Len(raw') = 0
  BY <1>1
<1>4. stamps \in Seq(Nat) /\ Len(stamps) = received
  <2>1. \A n \in 1..received : StampOf(n) \in Nat
    BY StampType
  <2> QED
    BY <1>1, <2>1
<1>5. stamps' = [n \in 1..(received + 1) |-> StampOf(n)]
  <2>1. stamps' = [n \in 1..(received + 1) |-> IF n = received + 1 THEN clock ELSE stamps[n]]
    BY <1>1, <1>3, <1>4
  <2>2. \A n \in 1..(received + 1) :
            (IF n = received + 1 THEN clock ELSE stamps[n]) = StampOf(n)
    BY <1>1, <1>2
  <2> QED
    BY <2>1, <2>2
<1> QED
  BY <1>1, <1>2, <1>3, <1>5

\* The sample is forwarded, or what is held in its place; or it is dropped; ...
Forwards ==
    /\ ~Injector!LatencyIsActive(config)
    /\ Injector!DropoutIsActive(config) => config.dropPercent < 100
    /\ entries' = entries /\ dropped' = dropped
    /\ Sends({IF holdEnabled THEN StampOf(held) ELSE clock}, 1)

Drops ==
    /\ Injector!DropoutIsActive(config)
    /\ entries' = entries /\ dropped' = dropped + 1
    /\ Sends({}, 0)

\* ... or it is queued, and what is due is released.
Delays ==
    /\ Injector!LatencyIsActive(config) /\ dropped' = dropped
    /\ \E e \in Injector!Entries :
        /\ e.message = received + 1
        /\ clock + config.delay - config.jitter <= e.deadline
        /\ e.deadline <= clock + config.delay + config.jitter
        /\ Releases(entries \union {e})
        /\ \A f \in entries' : clock < f.deadline
        /\ \A f \in (entries \union {e}) \ entries' : f.deadline <= clock

LEMMA OnRawEffect ==
    ASSUME Plumbing, OnRaw
    PROVE  /\ clock = received * Period
           /\ Len(raw) = 1 /\ raw' = <<>> /\ Len(raw') = 0
           /\ received' = received + 1 /\ nextSequence' \in Nat
           /\ stamps' = [n \in 1..(received + 1) |-> StampOf(n)]
           /\ latest' = received + 1 /\ held' = held
           /\ UNCHANGED <<clock, trial, robot, timers, command, config, holdEnabled, watchdog>>
           /\ Forwards \/ Drops \/ Delays
<1>1. /\ clock = received * Period /\ raw' = <<>> /\ Len(raw) = 1 /\ Len(raw') = 0
      /\ stamps' = [n \in 1..(received + 1) |-> StampOf(n)]
      /\ stamps'[received + 1] = clock
  BY RawIsNewest DEF OnRaw
<1>2. /\ clock \in Nat /\ received \in Nat /\ nextSequence \in Nat /\ faulted \in Seq(Nat)
      /\ entries \in SUBSET Injector!Entries /\ IsFiniteSet(entries)
      /\ \A e \in entries : e.message \in 1..received
  BY DEF Plumbing, Types, Lined
<1>3. Publish /\ UNCHANGED <<clock, trial, robot, timers, command, watchdog>>
  BY DEF OnRaw
<1>4. Injector!HeldOnReceive = held
  BY DEF Plumbing, Holds, Injector!HeldOnReceive, Injector!Unset
<1>5. CASE Injector!ReceivePlain(clock) \/ Injector!ReceiveDropoutKept(clock)
  <2>1. /\ received' = received + 1 /\ UNCHANGED <<config, holdEnabled>>
        /\ latest' = received + 1 /\ held' = held
        /\ outputs' = <<IF holdEnabled THEN held ELSE received + 1>>
        /\ entries' = entries /\ nextSequence' = nextSequence /\ dropped' = dropped
    BY <1>4, <1>5 DEF Injector!ReceivePlain, Injector!ReceiveDropoutKept, Injector!Accept,
       Injector!Forward, Injector!Arrival, Injector!Return, Injector!queue
  <2>2. /\ ~Injector!LatencyIsActive(config)
        /\ Injector!DropoutIsActive(config) => config.dropPercent < 100
    BY <1>5 DEF Injector!ReceivePlain, Injector!ReceiveDropoutKept, Injector!ShouldDrop,
       Injector!DropoutIsActive, Injector!LatencyIsActive
  <2>3. Sends({IF holdEnabled THEN StampOf(held) ELSE clock}, 1)
    <3>1. CASE holdEnabled
      <4>1. held \in 1..received /\ StampOf(held) \in Nat
        BY <3>1, StampType DEF Plumbing, Holds
      <4>2. stamps'[held] = StampOf(held)
        BY <1>1, <1>2, <4>1
      <4> QED
        BY <1>2, <1>3, <2>1, <3>1, <4>1, <4>2, SendsOne
    <3>2. CASE ~holdEnabled
      BY <1>1, <1>2, <1>3, <2>1, <3>2, SendsOne
    <3> QED
      BY <3>1, <3>2
  <2> QED
    BY <1>1, <1>2, <1>3, <2>1, <2>2, <2>3 DEF Forwards
<1>6. CASE Injector!ReceiveDropped(clock)
  <2>1. /\ received' = received + 1 /\ UNCHANGED <<config, holdEnabled>>
        /\ latest' = received + 1 /\ held' = held
        /\ outputs' = <<>> /\ entries' = entries /\ nextSequence' = nextSequence
        /\ Injector!DropoutIsActive(config) /\ dropped' = dropped + 1
    BY <1>4, <1>6 DEF Injector!ReceiveDropped, Injector!Accept, Injector!LatestOnDrop,
       Injector!Arrival, Injector!Return, Injector!queue
  <2>2. Sends({}, 0)
    BY <1>2, <1>3, <2>1, SendsNone
  <2> QED
    BY <1>1, <1>2, <1>3, <2>1, <2>2 DEF Drops
<1>7. CASE Injector!ReceiveDelayed(clock)
  <2>1. /\ received' = received + 1 /\ UNCHANGED <<config, holdEnabled>>
        /\ latest' = received + 1 /\ held' = held /\ nextSequence' = nextSequence + 1
        /\ Injector!LatencyIsActive(config) /\ dropped' = dropped
    BY <1>4, <1>7 DEF Injector!ReceiveDelayed, Injector!Accept, Injector!Arrival
  <2>2. PICK d \in Injector!SampleDelays(config) :
          Injector!PopReady(entries \union {[deadline |-> clock + d,
                                             sequence |-> nextSequence,
                                             message |-> received + 1]}, clock)
    BY <1>7 DEF Injector!ReceiveDelayed, Injector!Arrival
  <2> DEFINE e == [deadline |-> clock + d, sequence |-> nextSequence, message |-> received + 1]
             E == entries \union {e}
  <2>3. d \in Nat /\ config.delay - config.jitter <= d /\ d <= config.delay + config.jitter
    BY FaultFields DEF Injector!SampleDelays
  <2>4. e \in Injector!Entries
    BY <1>2, <2>3 DEF Injector!Entries, Plumbing, Types
  <2>5. IsFiniteSet(E) /\ E \in SUBSET Injector!Entries
    BY <1>2, <2>4, FS_AddElement
  <2>6. \A f \in E : f.message \in 1..(received + 1)
    BY <1>2
  <2>7. e.message = received + 1 /\ e.deadline = clock + d
    OBVIOUS
  <2>8. Injector!PopReady(E, clock)
    BY <2>2
  <2> HIDE DEF e, E
  <2>9. /\ Releases(E)
        /\ \A f \in entries' : clock < f.deadline
        /\ \A f \in E \ entries' : f.deadline <= clock
    BY <1>1, <1>2, <1>3, <2>5, <2>6, <2>8, PopReleases
  <2>10. /\ clock + config.delay - config.jitter <= e.deadline
         /\ e.deadline <= clock + config.delay + config.jitter
    BY <1>2, <2>3, <2>7, FaultFields
  <2>11. Delays
    BY <2>1, <2>4, <2>7, <2>9, <2>10 DEF Delays, E
  <2> QED
    BY <1>1, <1>2, <1>3, <2>1, <2>11
<1> QED
  BY <1>5, <1>6, <1>7 DEF OnRaw, Injector!Receive

\* A poll releases what is due, if anything is pending.
LEMMA OnPollEffect ==
    ASSUME Plumbing, OnPoll
    PROVE  /\ polled' = TRUE
           /\ Releases(entries)
           /\ \A e \in entries' : clock < e.deadline
           /\ \A e \in entries \ entries' : e.deadline <= clock
           /\ UNCHANGED <<clock, trial, robot, raw, stamps, checked, command, config,
                          holdEnabled, latest, held, received, dropped, nextSequence,
                          watchdog>>
<1>1. /\ clock \in Nat /\ received \in Nat /\ faulted \in Seq(Nat)
      /\ entries \in SUBSET Injector!Entries /\ IsFiniteSet(entries)
      /\ \A e \in entries : e.message \in 1..received
      /\ stamps = [n \in 1..received |-> StampOf(n)]
  BY DEF Plumbing, Types, Lined, Sampled
<1>2. /\ Publish /\ polled' = TRUE
      /\ UNCHANGED <<clock, trial, robot, raw, stamps, checked, command, config,
                     holdEnabled, latest, held, received, dropped, nextSequence, watchdog>>
  BY DEF OnPoll, Injector!Poll, Injector!hold
<1>3. CASE Injector!LatencyIsActive(config)
  <2>1. Injector!PopReady(entries, clock)
    BY <1>3 DEF OnPoll, Injector!Poll
  <2> QED
    BY <1>1, <1>2, <2>1, PopReleases
<1>4. CASE ~Injector!LatencyIsActive(config)
  <2>1. entries = {} /\ entries' = {} /\ outputs' = <<>>
    BY <1>4 DEF Plumbing, Lined, OnPoll, Injector!Poll, Injector!Return
  <2> QED
    BY <1>1, <1>2, <2>1, NoneReleased
<1> QED
  BY <1>3, <1>4

\* The application and the withdrawal of the fault leave nothing pending.
LEMMA ConfigureEffect ==
    ASSUME Plumbing, NEW c, ApplyConfig(c),
           config = NoFault \/ c = NoFault
    PROVE  /\ entries' = {} /\ Releases(entries)
           /\ config' = c /\ holdEnabled' = Injector!StaleIsActive(c)
           /\ held' = Injector!HeldOnSwitch(Injector!StaleIsActive(c))
           /\ UNCHANGED <<clock, fault, robot, raw, stamps, timers, command,
                          latest, received, dropped, nextSequence, watchdog>>
<1>1. /\ received \in Nat /\ faulted \in Seq(Nat)
      /\ entries \in SUBSET Injector!Entries /\ IsFiniteSet(entries)
      /\ \A e \in entries : e.message \in 1..received
      /\ stamps = [n \in 1..received |-> StampOf(n)]
      /\ entries # {} => Injector!LatencyIsActive(config)
  BY DEF Plumbing, Types, Lined, Sampled
<1>2. /\ Publish
      /\ config' = c /\ holdEnabled' = Injector!StaleIsActive(c)
      /\ held' = Injector!HeldOnSwitch(Injector!StaleIsActive(c))
      /\ UNCHANGED <<clock, fault, robot, raw, stamps, timers, command,
                     latest, received, dropped, nextSequence, watchdog>>
  BY DEF ApplyConfig, Injector!Configure
<1>3. ~Injector!LatencyIsActive(NoFault)
  BY DEF Injector!LatencyIsActive, NoFault
<1>4. CASE Injector!LeavesLatency(c)
  <2>1. Injector!Flush
    BY <1>4 DEF ApplyConfig, Injector!Configure
  <2> QED
    BY <1>1, <1>2, <2>1, FlushReleases
<1>5. CASE ~Injector!LeavesLatency(c)
  <2>1. entries = {}
    BY <1>1, <1>3, <1>5 DEF Injector!LeavesLatency
  <2>2. entries' = {} /\ outputs' = <<>>
    BY <1>5, <2>1 DEF ApplyConfig, Injector!Configure, Injector!PendingAfter, Injector!Return
  <2> QED
    BY <1>1, <1>2, <2>1, <2>2, NoneReleased
<1> QED
  BY <1>4, <1>5

-----------------------------------------------------------------------------
(* The initial states, and the steps that leave the streams alone. *)


LEMMA InitEstablishes == Init => IInv
<1> SUFFICES ASSUME Init PROVE IInv
  OBVIOUS
<1> USE Parameters
<1>1. /\ fault \in Faults \union {NoFault} /\ appliedAt = NoTime /\ withdrawnAt = NoTime
      /\ moving = TRUE /\ command = FALSE /\ nextSample = 0
      /\ raw = <<>> /\ faulted = <<>> /\ stamps = <<>> /\ polled = FALSE /\ checked = FALSE
  BY DEF Init
<1>2. /\ config = NoFault /\ entries = {} /\ nextSequence = 0
      /\ holdEnabled = Injector!StaleIsActive(NoFault)
      /\ latest = 0 /\ held = 0 /\ received = 0
  BY DEF Init, Injector!Init, Injector!Unset
<1>3. /\ clock = 0 /\ arrivals = {} /\ arrived = 0
      /\ firstArrival = NoTime /\ latestStamp = NoTime /\ latched = FALSE
  BY DEF Init, Watchdog!Init, Watchdog!NoTime, NoTime
<1>4. ~holdEnabled
  BY <1>2 DEF Injector!StaleIsActive, NoFault
<1>5. Len(raw) = 0 /\ Len(faulted) = 0 /\ faulted \in Seq(Nat) /\ InFlight = {}
  BY <1>1 DEF InFlight
<1>6. Types
  BY <1>1, <1>2, <1>3, <1>5, FS_EmptySet DEF Types, Times
<1>7. Sampled
  <2>1. stamps = [n \in 1..received |-> StampOf(n)]
    BY <1>1, <1>2
  <2> QED
    BY <1>1, <1>2, <1>3, <1>5, <2>1 DEF Sampled
<1>8. InForce /\ Holds /\ Lined
  BY <1>1, <1>2, <1>3, <1>4 DEF InForce, Holds, Lined
<1>9. Met
  BY <1>1, <1>3, <1>5 DEF Met, NoTime
<1>10. WP!IInv
  BY WP!InitEstablishes, SameWatchdog DEF Init
<1>11. Calm
  <2>1. Accounted
    BY <1>2, <1>3, <1>5, FS_EmptySet DEF Accounted
  <2>2. OnTime /\ Quiet
    BY <1>1, <1>3 DEF OnTime, Quiet
  <2>3. WP!Timed /\ WP!Remembered
    BY <1>3 DEF WP!Timed, WP!Remembered
  <2> QED
    BY <2>1, <2>2, <2>3 DEF Calm
<1>12. Hidden /\ Detected /\ Obeyed
  BY <1>1 DEF Hidden, Detected, Obeyed
<1> QED
  BY <1>6, <1>7, <1>8, <1>9, <1>10, <1>11, <1>12 DEF IInv, Plumbing

\* What is said of the fault of a trial is said of it throughout.
LEMMA TrialStays ==
    ASSUME fault' = fault
    PROVE  /\ Tolerated' = Tolerated /\ Detectable' = Detectable
           /\ Lateness' = Lateness
BY DEF Tolerated, Detectable, Lateness, Fits, FaultDelay, Watchdog!Tolerates, NoFault

LEMMA LatenessType ==
    ASSUME Plumbing
    PROVE  Lateness \in Nat /\ WP!Tolerates(Lateness)
<1>1. /\ fault.delay \in Nat /\ fault.jitter \in Nat
  BY FaultFields
<1>2. Watchdog!Tolerates(Lateness)
  <2>1. CASE Tolerated
    <3>1. CASE fault = NoFault
      <4>1. Lateness = 0
        BY <2>1, <3>1 DEF Lateness, NoFault
      <4> QED
        BY <4>1, StreamAssumption
    <3>2. CASE fault # NoFault
      BY <2>1, <3>2 DEF Tolerated, Lateness, FaultDelay
    <3> QED
      BY <3>1, <3>2
  <2>2. CASE ~Tolerated
    BY <2>2, StreamAssumption DEF Lateness
  <2> QED
    BY <2>1, <2>2
<1> QED
  BY <1>1, <1>2, SameWatchdog DEF Lateness

LEMMA WatchdogStays ==
    ASSUME UNCHANGED <<clock, watchdog>>
    PROVE  /\ WP!IInv => WP!IInv'
           /\ WP!Timed' = WP!Timed /\ WP!Remembered' = WP!Remembered
<1>1. WP!IInv => WP!IInv'
  BY DEF watchdog, WP!IInv, WP!TypeOK, WP!AlarmNeedsTraffic, WP!TimesSetTogether
<1>2. WP!Timed' = WP!Timed
  BY DEF watchdog, WP!Timed, WP!StampOf
<1>3. WP!Remembered' = WP!Remembered
  BY DEF watchdog, WP!Remembered, WP!Kept, WP!StampOf
<1> QED
  BY <1>1, <1>2, <1>3

\* A step that touches neither the streams nor the watchdog.
LEMMA StreamsStay ==
    ASSUME IInv,
           UNCHANGED <<clock, trial, faulted, received, entries, config, holdEnabled,
                       latest, held, polled, watchdog>>
    PROVE  /\ InForce' /\ Holds' /\ Lined' /\ Met' /\ WP!IInv' /\ Hidden'
           /\ appliedAt = NoTime \/ Tolerated =>
                Accounted' /\ OnTime' /\ WP!Timed' /\ WP!Remembered'
<1>1. UNCHANGED <<clock, fault, appliedAt, withdrawnAt, faulted, received, entries, config,
                  holdEnabled, latest, held, polled, arrived, firstArrival, latestStamp>>
  BY DEF trial, watchdog
<1>2. InFlight' = InFlight /\ \A n : StampOf(n)' = StampOf(n)
  BY <1>1 DEF InFlight, StampOf
<1>3. Tolerated' = Tolerated /\ Detectable' = Detectable /\ Lateness' = Lateness
  BY <1>1, TrialStays
<1>4. InForce' /\ Holds'
  BY <1>1 DEF IInv, Plumbing, InForce, Holds, StampOf, Injector!StaleIsActive
<1>5. Lined'
  BY <1>1 DEF IInv, Plumbing, Lined, StampOf, Injector!LatencyIsActive
<1>6. Met'
  BY <1>1, <1>2 DEF IInv, Plumbing, Met
<1>7. Hidden'
  BY <1>1, <1>2, <1>3 DEF IInv, Hidden, Old
<1>8. WP!IInv'
  BY WatchdogStays DEF IInv, Plumbing
<1>9. ASSUME appliedAt = NoTime \/ Tolerated
      PROVE  Accounted' /\ OnTime' /\ WP!Timed' /\ WP!Remembered'
  <2>1. Accounted /\ OnTime /\ WP!Timed /\ WP!Remembered
    BY <1>9 DEF IInv, Calm
  <2>2. Accounted'
    BY <1>1, <1>2, <2>1 DEF Accounted, StampOf
  <2>3. OnTime'
    BY <1>1, <1>3, <2>1 DEF OnTime
  <2> QED
    BY <2>1, <2>2, <2>3, WatchdogStays
<1> QED
  BY <1>4, <1>5, <1>6, <1>7, <1>8, <1>9

\* Where neither time passes nor the alarm is raised nothing is to be detected.
LEMMA DetectedStays ==
    ASSUME IInv, UNCHANGED <<clock, trial, checked, latched>>
    PROVE  Detected'
<1>1. Detectable' = Detectable /\ UNCHANGED <<appliedAt, withdrawnAt>>
  BY TrialStays DEF trial
<1> QED
  BY <1>1 DEF IInv, Detected, DetectionTime

LEMMA CalmFromParts ==
    ASSUME fault' = fault, appliedAt' = appliedAt,
           appliedAt = NoTime \/ Tolerated =>
                Accounted' /\ OnTime' /\ Quiet' /\ WP!Timed' /\ WP!Remembered'
    PROVE  Calm'
BY TrialStays DEF Calm

LEMMA OnSampleKeeps == ASSUME IInv, OnSample PROVE IInv'
<1> USE Parameters
<1>1. /\ nextSample <= clock /\ nextSample' = nextSample + Period
      /\ raw' = Append(raw, clock)
      /\ UNCHANGED <<clock, trial, moving, faulted, stamps, timers, command, injector, watchdog>>
      /\ UNCHANGED <<polled, checked, received, entries, config, holdEnabled, latest, held,
                     nextSequence, latched, fault, appliedAt, withdrawnAt>>
  BY DEF OnSample, timers, injector, watchdog, trial
<1>2. Types'
  BY <1>1 DEF IInv, Plumbing, Types
<1>3. Sampled'
  <2>1. clock \in Nat /\ received \in Nat /\ Sampled
    BY DEF IInv, Plumbing, Types
  <2>2. raw = <<>>
    <3> SUFFICES ASSUME raw = <<clock>>, clock = received * Period PROVE FALSE
      BY <2>1 DEF Sampled
    <3>1. Len(raw) = 1
      OBVIOUS
    <3>2. nextSample = received * Period + Period
      BY <2>1, <3>1 DEF Sampled
    <3> QED
      BY <1>1, <2>1, <3>2
  <2>3. Len(raw) = 0 /\ raw' = <<clock>> /\ Len(raw') = 1
    BY <1>1, <2>2
  <2>4. clock = received * Period
    BY <1>1, <2>1, <2>3 DEF Sampled
  <2>5. nextSample' = (received + 1) * Period
    BY <1>1, <2>1, <2>3 DEF Sampled
  <2>6. stamps' = [n \in 1..received' |-> StampOf(n)']
    BY <1>1, <2>1 DEF Sampled, StampOf
  <2> QED
    BY <1>1, <2>1, <2>3, <2>4, <2>5, <2>6 DEF Sampled, StampOf
<1>4. /\ InForce' /\ Holds' /\ Lined' /\ Met' /\ WP!IInv' /\ Hidden'
      /\ appliedAt = NoTime \/ Tolerated =>
            Accounted' /\ OnTime' /\ WP!Timed' /\ WP!Remembered'
  BY <1>1, StreamsStay
<1>5. Calm'
  <2>1. Quiet => Quiet'
    BY <1>1 DEF Quiet
  <2> QED
    BY <1>1, <1>4, <2>1, CalmFromParts DEF IInv, Calm
<1>6. Detected' /\ Obeyed'
  BY <1>1, DetectedStays DEF IInv, Obeyed
<1> QED
  BY <1>2, <1>3, <1>4, <1>5, <1>6 DEF IInv, Plumbing

\* A command is there only after an alarm, whether it arrives or is lost.
LEMMA OnCommandKeeps == ASSUME IInv, OnCommand \/ LoseCommand PROVE IInv'
<1>1. /\ command /\ command' = FALSE /\ moving' \in BOOLEAN
      /\ UNCHANGED <<clock, trial, nextSample, raw, faulted, stamps, timers, injector, watchdog>>
      /\ UNCHANGED <<polled, checked, received, entries, config, holdEnabled, latest, held,
                     nextSequence, latched, fault, appliedAt, withdrawnAt>>
  BY DEF OnCommand, LoseCommand, timers, injector, watchdog, trial, robot, IInv, Plumbing, Types
<1>2. Types'
  BY <1>1 DEF IInv, Plumbing, Types
<1>3. Sampled'
  BY <1>1 DEF IInv, Plumbing, Sampled, StampOf
<1>4. /\ InForce' /\ Holds' /\ Lined' /\ Met' /\ WP!IInv' /\ Hidden'
      /\ appliedAt = NoTime \/ Tolerated =>
            Accounted' /\ OnTime' /\ WP!Timed' /\ WP!Remembered'
  BY <1>1, StreamsStay
<1>5. latched
  BY <1>1 DEF IInv, Obeyed
<1>6. Calm'
  BY <1>1, <1>5, CalmFromParts DEF IInv, Calm, Quiet
<1>7. Detected' /\ Obeyed'
  BY <1>1, <1>5, DetectedStays DEF Obeyed
<1> QED
  BY <1>2, <1>3, <1>4, <1>6, <1>7 DEF IInv, Plumbing

-----------------------------------------------------------------------------
(* The steps of the injector node. *)

\* So many samples have been received at most.
LEMMA ReceivedByNow ==
    ASSUME Plumbing
    PROVE  received * Period <= clock + Period
<1> USE Parameters
<1>1. clock \in Nat /\ received \in Nat /\ Sampled
  BY DEF Plumbing, Types
<1>2. CASE raw = <<>>
  <2>1. Len(raw) = 0
    BY <1>2
  <2> QED
    BY <1>1, <2>1 DEF Sampled
<1>3. CASE raw # <<>>
  BY <1>1, <1>3 DEF Sampled
<1> QED
  BY <1>2, <1>3

\* No sample is received before it was sent.
LEMMA StampsPast ==
    ASSUME Plumbing
    PROVE  \A n \in 1..received : StampOf(n) \in Nat /\ StampOf(n) <= clock
<1> USE Parameters
<1>1. clock \in Nat /\ received \in Nat
  BY DEF Plumbing, Types
<1>2. received * Period <= clock + Period
  BY ReceivedByNow
<1>3. ASSUME NEW n \in 1..received PROVE StampOf(n) <= clock
  <2>1. (n - 1) * Period <= (received - 1) * Period
    BY <1>1
  <2>2. (received - 1) * Period = received * Period - Period
    BY <1>1
  <2> QED
    BY <1>1, <1>2, <2>1, <2>2 DEF StampOf
<1> QED
  BY <1>3, StampType

\* Messages released are still accounted for.
LEMMA ReleaseAccounts ==
    ASSUME faulted \in Seq(Nat), arrived \in Nat, NEW E, IsFiniteSet(E), Releases(E),
           UNCHANGED <<arrived, latestStamp>>,
           arrived + Len(faulted) + Cardinality(E) = received',
           \A n \in 1..received' :
                \/ \E e \in E : e.message = n
                \/ StampOf(n) \in InFlight
                \/ StampOf(n) <= latestStamp
    PROVE  Accounted'
<1>1. entries' \in SUBSET E /\ IsFiniteSet(entries') /\ IsFiniteSet(E \ entries')
  BY FS_Subset, FS_Difference DEF Releases
<1>2. /\ Cardinality(E) \in Nat /\ Cardinality(entries') \in Nat
      /\ Cardinality(E \ entries') = Cardinality(E) - Cardinality(entries')
  <2>1. E \cap entries' = entries'
    BY <1>1
  <2> QED
    BY <1>1, <2>1, FS_Difference, FS_CardinalityType
<1>3. /\ Len(faulted') = Len(faulted) + Cardinality(E \ entries')
      /\ InFlight' = InFlight \union {StampOf(e.message) : e \in E \ entries'}
      /\ Len(faulted) \in Nat
  BY DEF Releases, Sends
<1>4. ASSUME NEW n \in 1..received'
      PROVE  \/ \E e \in entries' : e.message = n
             \/ StampOf(n) \in InFlight'
             \/ StampOf(n) <= latestStamp'
  <2>1. CASE \E e \in E : e.message = n
    <3>1. PICK e \in E : e.message = n
      BY <2>1
    <3>2. CASE e \in entries'
      BY <3>1, <3>2
    <3>3. CASE e \notin entries'
      BY <1>3, <3>1, <3>3
    <3> QED
      BY <3>2, <3>3
  <2>2. CASE StampOf(n) \in InFlight
    BY <1>3, <2>2
  <2>3. CASE StampOf(n) <= latestStamp
    BY <2>3
  <2> QED
    BY <2>1, <2>2, <2>3
<1>5. arrived' + Len(faulted') + Cardinality(entries') = received'
  BY <1>2, <1>3
<1>6. \A n : StampOf(n)' = StampOf(n)
  BY DEF StampOf
<1> QED
  BY <1>4, <1>5, <1>6 DEF Accounted

\* Messages released late by a fault that hides the robot are too old.
LEMMA ReleasedAreOld ==
    ASSUME Plumbing, Detectable,
           NEW E, Releases(E), E # {} => fault.faultType = "latency",
           \A e \in E : /\ e.message \in Nat \ {0} /\ e.deadline \in Nat
                        /\ StampOf(e.message) + fault.delay - fault.jitter <= e.deadline,
           \A e \in E \ entries' : e.deadline <= clock,
           \A s \in InFlight : Old(s)
    PROVE  \A s \in InFlight' : Old(s)
<1> SUFFICES ASSUME NEW e \in E \ entries' PROVE Old(StampOf(e.message))
  BY DEF Releases, Sends
<1>1. fault.delay - fault.jitter > MaxAge
  BY DEF Detectable
<1>2. /\ fault.delay \in Nat /\ fault.jitter \in Nat /\ clock \in Nat
      /\ StampOf(e.message) \in Nat
  BY FaultFields, StampType DEF Plumbing, Types
<1> QED
  BY <1>1, <1>2, Parameters DEF Old

\* A fault that is applied is enabled.
LEMMA FaultEnabled ==
    ASSUME Plumbing, appliedAt # NoTime
    PROVE  fault.enabled = TRUE /\ fault.faultType \in {"dropout", "latency", "stale"}
<1>1. fault \in Faults
  BY DEF Plumbing, Types, InForce
<1> QED
  BY <1>1, FaultsAssumption

\* Of a delayed arrival: it is one more of the entries, of which some are released.
LEMMA DelayedArrival ==
    ASSUME Plumbing, OnRaw, Delays
    PROVE  \E E : /\ Releases(E) /\ IsFiniteSet(E) /\ E \in SUBSET Injector!Entries
                  /\ Cardinality(E) = Cardinality(entries) + 1
                  /\ entries \subseteq E
                  /\ \E e \in E : e.message = received + 1
                  /\ \A e, f \in E : e.message = f.message => e = f
                  /\ \A e \in E :
                        /\ e.message \in 1..(received + 1)
                        /\ StampOf(e.message) + fault.delay - fault.jitter <= e.deadline
                        /\ e.deadline <= StampOf(e.message) + fault.delay + fault.jitter
                  /\ \A e \in entries' : clock < e.deadline
                  /\ \A e \in E \ entries' : e.deadline <= clock
<1>1. PICK e \in Injector!Entries :
        /\ e.message = received + 1
        /\ clock + config.delay - config.jitter <= e.deadline
        /\ e.deadline <= clock + config.delay + config.jitter
        /\ Releases(entries \union {e})
        /\ \A f \in entries' : clock < f.deadline
        /\ \A f \in (entries \union {e}) \ entries' : f.deadline <= clock
  BY DEF Delays
<1> DEFINE E == entries \union {e}
<1>2. /\ received \in Nat /\ entries \in SUBSET Injector!Entries /\ IsFiniteSet(entries)
      /\ \A f, g \in entries : f.message = g.message => f = g
      /\ \A f \in entries :
            /\ f.message \in 1..received
            /\ StampOf(f.message) + fault.delay - fault.jitter <= f.deadline
            /\ f.deadline <= StampOf(f.message) + fault.delay + fault.jitter
  BY DEF Plumbing, Types, Lined
<1>3. StampOf(e.message) = clock /\ config = fault
  <2>1. StampOf(received + 1) = clock
    BY <1>2, OnRawEffect, Parameters DEF StampOf
  <2> QED
    BY <1>1, <2>1, FaultFields DEF Delays
<1>4. e \notin entries
  BY <1>1, <1>2
<1>5. IsFiniteSet(E) /\ Cardinality(E) = Cardinality(entries) + 1
  BY <1>2, <1>4, FS_AddElement
<1>6. /\ \A f, g \in E : f.message = g.message => f = g
      /\ \A f \in E :
            /\ f.message \in 1..(received + 1)
            /\ StampOf(f.message) + fault.delay - fault.jitter <= f.deadline
            /\ f.deadline <= StampOf(f.message) + fault.delay + fault.jitter
  BY <1>1, <1>2, <1>3
<1> WITNESS E
<1> QED
  BY <1>1, <1>2, <1>5, <1>6

LEMMA OnRawKeepsPlumbing ==
    ASSUME IInv, OnRaw
    PROVE  Plumbing'
<1>1. Plumbing
  BY DEF IInv
<1>2. /\ clock = received * Period
      /\ Len(raw) = 1 /\ raw' = <<>> /\ Len(raw') = 0
      /\ received' = received + 1 /\ nextSequence' \in Nat
      /\ stamps' = [n \in 1..(received + 1) |-> StampOf(n)]
      /\ latest' = received + 1 /\ held' = held
      /\ UNCHANGED <<clock, trial, robot, timers, command, config, holdEnabled, watchdog>>
      /\ UNCHANGED <<fault, appliedAt, withdrawnAt, moving, nextSample, polled, checked,
                     arrived, firstArrival, latestStamp>>
      /\ Forwards \/ Drops \/ Delays
  BY <1>1, OnRawEffect DEF trial, robot, timers, watchdog
<1>3. /\ clock \in Nat /\ received \in Nat /\ faulted \in Seq(Nat)
      /\ entries \in SUBSET Injector!Entries /\ IsFiniteSet(entries)
  BY <1>1 DEF Plumbing, Types
<1>4. \A n : StampOf(n)' = StampOf(n)
  BY DEF StampOf
<1>5. \A n \in 1..(received + 1) : StampOf(n) \in Nat /\ StampOf(n) <= clock
  <2>1. StampOf(received + 1) = clock
    BY <1>2, <1>3, Parameters DEF StampOf
  <2> QED
    BY <1>1, <1>3, <2>1, StampsPast
<1>6. /\ faulted' \in Seq(Nat)
      /\ \A s \in InFlight' : s <= clock
      /\ entries' \in SUBSET Injector!Entries /\ IsFiniteSet(entries')
      /\ Lined'
  <2>1. \A s \in InFlight : s <= clock
    BY <1>1 DEF Plumbing, Met
  <2>2. CASE Forwards
    <3>1. holdEnabled => held \in 1..received
      BY <1>1 DEF Plumbing, Holds
    <3>2. \A s \in InFlight' : s <= clock
      BY <1>2, <1>3, <1>5, <2>1, <2>2, <3>1 DEF Forwards, Sends
    <3>3. entries' = entries /\ faulted' \in Seq(Nat)
      BY <2>2 DEF Forwards, Sends
    <3>4. Lined'
      BY <1>1, <1>2, <1>3, <3>3 DEF Plumbing, Lined, StampOf, Injector!LatencyIsActive
    <3> QED
      BY <1>3, <3>2, <3>3, <3>4
  <2>3. CASE Drops
    <3>1. entries' = entries /\ faulted' \in Seq(Nat) /\ InFlight' = InFlight
      BY <2>3 DEF Drops, Sends
    <3>2. Lined'
      BY <1>1, <1>2, <1>3, <3>1 DEF Plumbing, Lined, StampOf, Injector!LatencyIsActive
    <3> QED
      BY <1>3, <2>1, <3>1, <3>2
  <2>4. CASE Delays
    <3>1. PICK E :
            /\ Releases(E) /\ IsFiniteSet(E) /\ E \in SUBSET Injector!Entries
            /\ \A e, f \in E : e.message = f.message => e = f
            /\ \A e \in E :
                /\ e.message \in 1..(received + 1)
                /\ StampOf(e.message) + fault.delay - fault.jitter <= e.deadline
                /\ e.deadline <= StampOf(e.message) + fault.delay + fault.jitter
            /\ \A e \in entries' : clock < e.deadline
      BY <1>1, <2>4, DelayedArrival
    <3>2. entries' \in SUBSET E /\ faulted' \in Seq(Nat)
          /\ InFlight' = InFlight \union {StampOf(e.message) : e \in E \ entries'}
      BY <3>1 DEF Releases, Sends
    <3>3. \A s \in InFlight' : s <= clock
      BY <1>5, <2>1, <3>1, <3>2
    <3>4. IsFiniteSet(entries')
      BY <3>1, <3>2, FS_Subset
    <3>5. Lined'
      BY <1>2, <2>4, <3>1, <3>2 DEF Lined, Delays, StampOf, Injector!LatencyIsActive
    <3> QED
      BY <3>1, <3>2, <3>3, <3>4, <3>5
  <2> QED
    BY <1>2, <2>2, <2>3, <2>4
<1>7. Types'
  BY <1>1, <1>2, <1>3, <1>6 DEF Plumbing, Types
<1>8. Sampled'
  <2>1. nextSample' = (received' + Len(raw')) * Period
    <3>1. nextSample = (received + Len(raw)) * Period
      BY <1>1 DEF Plumbing, Sampled
    <3>2. received + Len(raw) = received' + Len(raw')
      BY <1>2, <1>3
    <3> QED
      BY <1>2, <3>1, <3>2
  <2>2. clock' <= nextSample' /\ nextSample' <= clock' + Period
    BY <1>1, <1>2 DEF Plumbing, Sampled
  <2>3. stamps' = [n \in 1..received' |-> StampOf(n)']
    BY <1>2, <1>4
  <2> QED
    BY <1>2, <2>1, <2>2, <2>3 DEF Sampled
<1>9. InForce' /\ Holds'
  BY <1>1, <1>2, <1>3 DEF Plumbing, InForce, Holds, StampOf, Injector!StaleIsActive
<1>10. Met'
  BY <1>1, <1>2, <1>6 DEF Plumbing, Met
<1>11. WP!IInv'
  BY <1>1, <1>2, WatchdogStays DEF Plumbing
<1> QED
  BY <1>6, <1>7, <1>8, <1>9, <1>10, <1>11 DEF Plumbing

\* The modes that can be in force without cause for an alarm.
LEMMA CalmModes ==
    ASSUME Plumbing, appliedAt = NoTime \/ Tolerated
    PROVE  ~Injector!StaleIsActive(config) /\ ~Injector!DropoutIsActive(config)
<1>1. config = NoFault \/ (config = fault /\ fault.faultType = "latency")
  BY DEF Plumbing, InForce, Tolerated
<1> QED
  BY <1>1 DEF Injector!StaleIsActive, Injector!DropoutIsActive, NoFault

LEMMA OnRawKeepsCalm == ASSUME IInv, OnRaw PROVE Calm'
<1>1. Plumbing
  BY DEF IInv
<1>2. /\ clock = received * Period
      /\ received' = received + 1
      /\ UNCHANGED <<clock, trial, moving, command, watchdog>>
      /\ UNCHANGED <<fault, appliedAt, arrived, latestStamp, latched>>
      /\ Forwards \/ Drops \/ Delays
  BY <1>1, OnRawEffect DEF trial, robot, watchdog
<1>3. /\ clock \in Nat /\ received \in Nat /\ faulted \in Seq(Nat) /\ arrived \in Nat
      /\ entries \in SUBSET Injector!Entries /\ IsFiniteSet(entries)
  BY <1>1 DEF Plumbing, Types, WP!IInv, WP!TypeOK
<1>4. /\ \A n : StampOf(n)' = StampOf(n)
      /\ StampOf(received + 1) = clock
  BY <1>2, <1>3, Parameters DEF StampOf
<1> SUFFICES ASSUME appliedAt = NoTime \/ Tolerated
             PROVE  Accounted' /\ OnTime' /\ Quiet' /\ WP!Timed' /\ WP!Remembered'
  BY <1>2, CalmFromParts
<1>5. Accounted /\ OnTime /\ Quiet /\ WP!Timed /\ WP!Remembered
  BY DEF IInv, Calm
<1>6. ~holdEnabled /\ ~Injector!DropoutIsActive(config)
  BY <1>1, CalmModes DEF Plumbing, Holds
<1>7. Accounted'
  <2>1. Cardinality(entries) \in Nat /\ Len(faulted) \in Nat
    BY <1>3, FS_CardinalityType
  <2>2. CASE Forwards
    <3>1. /\ entries' = entries /\ Len(faulted') = Len(faulted) + 1
          /\ InFlight' = InFlight \union {clock}
      BY <1>6, <2>2 DEF Forwards, Sends
    <3>2. arrived' + Len(faulted') + Cardinality(entries') = received'
      BY <1>2, <1>3, <1>5, <2>1, <3>1 DEF Accounted
    <3>3. \A n \in 1..received' :
            \/ \E e \in entries' : e.message = n
            \/ StampOf(n) \in InFlight'
            \/ StampOf(n) <= latestStamp'
      BY <1>2, <1>3, <1>4, <1>5, <3>1 DEF Accounted
    <3> QED
      BY <1>4, <3>2, <3>3 DEF Accounted
  <2>3. CASE Delays
    <3>1. PICK E :
            /\ Releases(E) /\ IsFiniteSet(E)
            /\ Cardinality(E) = Cardinality(entries) + 1
            /\ entries \subseteq E
            /\ \E e \in E : e.message = received + 1
      BY <1>1, <2>3, DelayedArrival
    <3>2. arrived + Len(faulted) + Cardinality(E) = received'
      BY <1>2, <1>3, <1>5, <2>1, <3>1 DEF Accounted
    <3>3. \A n \in 1..received' :
            \/ \E e \in E : e.message = n
            \/ StampOf(n) \in InFlight
            \/ StampOf(n) <= latestStamp
      BY <1>2, <1>3, <1>5, <3>1 DEF Accounted
    <3> QED
      BY <1>2, <1>3, <3>1, <3>2, <3>3, ReleaseAccounts
  <2> QED
    BY <1>2, <1>6, <2>2, <2>3 DEF Drops
<1>8. OnTime'
  BY <1>2, <1>5, TrialStays DEF OnTime
<1>9. Quiet'
  BY <1>2, <1>5 DEF Quiet
<1> QED
  BY <1>2, <1>5, <1>7, <1>8, <1>9, WatchdogStays

LEMMA OnRawKeepsHidden == ASSUME IInv, OnRaw PROVE Hidden'
<1>1. Plumbing
  BY DEF IInv
<1>2. /\ UNCHANGED <<clock, trial, watchdog>>
      /\ UNCHANGED <<fault, appliedAt, withdrawnAt, latestStamp>>
      /\ Forwards \/ Drops \/ Delays
  BY <1>1, OnRawEffect DEF trial, watchdog
<1>3. Detectable' = Detectable /\ \A s : Old(s)' = Old(s)
  BY <1>2, TrialStays DEF Old
<1> SUFFICES ASSUME appliedAt # NoTime, withdrawnAt = NoTime, Detectable
             PROVE  Old(latestStamp) /\ \A s \in InFlight' : Old(s)
  BY <1>2, <1>3 DEF Hidden
<1>4. Old(latestStamp) /\ \A s \in InFlight : Old(s)
  BY DEF IInv, Hidden
<1>5. /\ config = fault /\ fault.enabled = TRUE
      /\ fault.faultType \in {"dropout", "latency", "stale"}
  BY <1>1, FaultEnabled DEF Plumbing, InForce
<1>6. CASE Forwards
  <2>1. fault.faultType = "stale"
    BY <1>5, <1>6 DEF Forwards, Detectable, Injector!LatencyIsActive, Injector!DropoutIsActive
  <2>2. holdEnabled /\ Old(StampOf(held))
    BY <1>1, <1>5, <2>1 DEF Plumbing, Holds, Old, Injector!StaleIsActive
  <2> QED
    BY <1>4, <1>6, <2>2 DEF Forwards, Sends
<1>7. CASE Drops
  BY <1>4, <1>7 DEF Drops, Sends
<1>8. CASE Delays
  <2>1. PICK E :
          /\ Releases(E) /\ E \in SUBSET Injector!Entries
          /\ \A e \in E :
                /\ e.message \in 1..(received + 1)
                /\ StampOf(e.message) + fault.delay - fault.jitter <= e.deadline
          /\ \A e \in E \ entries' : e.deadline <= clock
    BY <1>1, <1>8, DelayedArrival
  <2>2. fault.faultType = "latency"
    BY <1>5, <1>8 DEF Delays, Injector!LatencyIsActive
  <2>3. \A e \in E : e.message \in Nat \ {0} /\ e.deadline \in Nat
    BY <2>1 DEF Injector!Entries
  <2>4. \A s \in InFlight' : Old(s)
    BY <1>1, <1>4, <2>1, <2>2, <2>3, ReleasedAreOld
  <2> QED
    BY <1>4, <2>4
<1> QED
  BY <1>2, <1>6, <1>7, <1>8

LEMMA OnRawKeeps == ASSUME IInv, OnRaw PROVE IInv'
<1>1. UNCHANGED <<clock, trial, checked, latched, command, moving>>
  BY OnRawEffect DEF IInv, timers, watchdog, robot
<1>2. Detected' /\ Obeyed'
  BY <1>1, DetectedStays DEF IInv, Obeyed
<1> QED
  BY <1>2, OnRawKeepsPlumbing, OnRawKeepsCalm, OnRawKeepsHidden DEF IInv

\* Releasing what is pending keeps everything sent in the past, ...
LEMMA ReleasedArePast ==
    ASSUME Plumbing, Releases(entries), received' = received
    PROVE  /\ faulted' \in Seq(Nat) /\ \A s \in InFlight' : s <= clock
           /\ entries' \in SUBSET entries /\ IsFiniteSet(entries')
<1>1. \A e \in entries : StampOf(e.message) <= clock
  BY StampsPast DEF Plumbing, Lined
<1>2. \A s \in InFlight : s <= clock
  BY DEF Plumbing, Met
<1>3. IsFiniteSet(entries')
  BY FS_Subset DEF Plumbing, Types, Releases
<1> QED
  BY <1>1, <1>2, <1>3 DEF Releases, Sends

\* ... and the accounts of a calm stream.
LEMMA ReleasesKeepCalm ==
    ASSUME IInv, appliedAt = NoTime \/ Tolerated, Releases(entries),
           UNCHANGED <<clock, fault, received, moving, command, watchdog>>
    PROVE  Accounted' /\ OnTime' /\ Quiet' /\ WP!Timed' /\ WP!Remembered'
<1>1. UNCHANGED <<arrived, latestStamp, latched>>
  BY DEF watchdog
<1>2. Accounted /\ OnTime /\ Quiet /\ WP!Timed /\ WP!Remembered
  BY DEF IInv, Calm
<1>3. faulted \in Seq(Nat) /\ arrived \in Nat /\ IsFiniteSet(entries)
  BY DEF IInv, Plumbing, Types, WP!IInv, WP!TypeOK
<1>4. Accounted'
  BY <1>1, <1>2, <1>3, ReleaseAccounts DEF Accounted
<1>5. OnTime'
  BY <1>1, <1>2, TrialStays DEF OnTime
<1>6. Quiet'
  BY <1>1, <1>2 DEF Quiet
<1> QED
  BY <1>2, <1>4, <1>5, <1>6, WatchdogStays

LEMMA OnPollKeeps == ASSUME IInv, OnPoll PROVE IInv'
<1>1. Plumbing
  BY DEF IInv
<1>2. /\ polled' = TRUE /\ Releases(entries)
      /\ \A e \in entries' : clock < e.deadline
      /\ \A e \in entries \ entries' : e.deadline <= clock
      /\ UNCHANGED <<clock, trial, robot, raw, stamps, checked, command, config,
                     holdEnabled, latest, held, received, nextSequence, watchdog>>
      /\ UNCHANGED <<fault, appliedAt, withdrawnAt, moving, nextSample,
                     arrived, firstArrival, latestStamp, latched>>
  BY <1>1, OnPollEffect DEF trial, robot, watchdog
<1>3. /\ faulted' \in Seq(Nat) /\ \A s \in InFlight' : s <= clock
      /\ entries' \in SUBSET entries /\ IsFiniteSet(entries')
  BY <1>1, <1>2, ReleasedArePast
<1>4. Types' /\ Sampled' /\ InForce'
  BY <1>1, <1>2, <1>3 DEF Plumbing, Types, Sampled, InForce, StampOf
<1>5. Holds'
  BY <1>1, <1>2 DEF Plumbing, Holds, StampOf, Injector!StaleIsActive
<1>6. Lined'
  BY <1>1, <1>2, <1>3 DEF Plumbing, Lined, StampOf, Injector!LatencyIsActive
<1>7. Met'
  BY <1>1, <1>2, <1>3 DEF Plumbing, Met
<1>8. WP!IInv'
  BY <1>1, <1>2, WatchdogStays DEF Plumbing
<1>9. Calm'
  BY <1>2, ReleasesKeepCalm, CalmFromParts
<1>10. Hidden'
  <2>1. Detectable' = Detectable /\ \A s : Old(s)' = Old(s)
    BY <1>2, TrialStays DEF Old
  <2> SUFFICES ASSUME appliedAt # NoTime, withdrawnAt = NoTime, Detectable
               PROVE  Old(latestStamp) /\ \A s \in InFlight' : Old(s)
    BY <1>2, <2>1 DEF Hidden
  <2>2. Old(latestStamp) /\ \A s \in InFlight : Old(s)
    BY DEF IInv, Hidden
  <2>3. entries # {} => fault.faultType = "latency"
    BY <1>1, FaultFields DEF Plumbing, Lined, Injector!LatencyIsActive
  <2>4. \A e \in entries :
            /\ e.message \in Nat \ {0} /\ e.deadline \in Nat
            /\ StampOf(e.message) + fault.delay - fault.jitter <= e.deadline
    BY <1>1 DEF Plumbing, Types, Lined, Injector!Entries
  <2> QED
    BY <1>1, <1>2, <2>2, <2>3, <2>4, ReleasedAreOld
<1>11. Detected' /\ Obeyed'
  BY <1>2, DetectedStays DEF IInv, Obeyed
<1> QED
  BY <1>4, <1>5, <1>6, <1>7, <1>8, <1>9, <1>10, <1>11 DEF IInv, Plumbing

LEMMA ApplyFaultKeeps == ASSUME IInv, ApplyFault PROVE IInv'
<1> USE Parameters, BoundsAssumption
<1>1. Plumbing
  BY DEF IInv
<1>2. /\ fault # NoFault /\ appliedAt = NoTime /\ FaultFrom <= clock
      /\ appliedAt' = clock /\ withdrawnAt' = withdrawnAt /\ ApplyConfig(fault)
  BY DEF ApplyFault
<1>3. config = NoFault /\ withdrawnAt = NoTime
  BY <1>1, <1>2 DEF Plumbing, InForce
<1>4. /\ entries' = {} /\ Releases(entries)
      /\ config' = fault /\ holdEnabled' = Injector!StaleIsActive(fault)
      /\ held' = Injector!HeldOnSwitch(Injector!StaleIsActive(fault))
      /\ UNCHANGED <<clock, fault, robot, raw, stamps, timers, command,
                     latest, received, nextSequence, watchdog>>
      /\ UNCHANGED <<moving, nextSample, polled, checked,
                     arrived, firstArrival, latestStamp, latched>>
  BY <1>1, <1>2, <1>3, ConfigureEffect DEF robot, timers, watchdog
<1>5. /\ clock \in Nat /\ received \in Nat
      /\ faulted' \in Seq(Nat) /\ \A s \in InFlight' : s <= clock
      /\ IsFiniteSet(entries')
  BY <1>1, <1>4, ReleasedArePast DEF Plumbing, Types
<1>6. Types' /\ Sampled' /\ InForce'
  BY <1>1, <1>2, <1>3, <1>4, <1>5 DEF Plumbing, Types, Sampled, InForce, StampOf, Times, NoTime
<1>7. Holds'
  <2>1. ~holdEnabled /\ held = 0 /\ latest = received
    BY <1>1, <1>3 DEF Plumbing, Holds, Injector!StaleIsActive, NoFault
  <2>2. received # 0
    <3> SUFFICES ASSUME received = 0 PROVE FALSE
      OBVIOUS
    <3>1. clock # 0
      BY <1>2, <1>5
    <3>2. raw = <<>>
      BY <1>1, <3>1 DEF Plumbing, Sampled
    <3>3. nextSample = 0
      BY <1>1, <3>2 DEF Plumbing, Sampled
    <3> QED
      BY <1>1, <1>5, <3>1, <3>3 DEF Plumbing, Sampled
  <2>3. StampOf(received) <= clock
    BY <1>1, <1>5, <2>2, StampsPast
  <2>4. CASE Injector!StaleIsActive(fault)
    <3>1. held' = received
      BY <1>4, <2>1, <2>2, <2>4 DEF Injector!HeldOnSwitch, Injector!Unset
    <3>2. holdEnabled' /\ holdEnabled' = Injector!StaleIsActive(config)' /\ latest' = received'
      BY <1>4, <2>1, <2>4 DEF Injector!StaleIsActive
    <3>3. held' \in 1..received' /\ StampOf(held)' <= appliedAt'
      BY <1>2, <1>4, <1>5, <2>2, <2>3, <3>1 DEF StampOf
    <3> QED
      BY <3>2, <3>3 DEF Holds
  <2>5. CASE ~Injector!StaleIsActive(fault)
    <3>1. held' = 0
      BY <1>4, <2>1, <2>5 DEF Injector!HeldOnSwitch
    <3> QED
      BY <1>4, <2>1, <2>5, <3>1 DEF Holds, Injector!StaleIsActive
  <2> QED
    BY <2>4, <2>5
<1>8. Lined'
  BY <1>4 DEF Lined
<1>9. Met'
  BY <1>1, <1>4, <1>5 DEF Plumbing, Met
<1>10. WP!IInv'
  BY <1>1, <1>4, WatchdogStays DEF Plumbing
<1>11. Calm'
  <2>1. Accounted' /\ OnTime' /\ Quiet' /\ WP!Timed' /\ WP!Remembered'
    BY <1>2, <1>4, ReleasesKeepCalm
  <2> QED
    BY <2>1 DEF Calm
<1>12. Hidden'
  BY <1>1, <1>2, <1>4, <1>5 DEF Plumbing, Met, Hidden, Old
<1>13. Detected'
  <2>1. clock' < DetectionTime'
    BY <1>2, <1>4, <1>5 DEF DetectionTime
  <2>2. DetectionTime' \in Nat
    BY <1>2, <1>5 DEF DetectionTime
  <2> QED
    BY <1>4, <1>5, <2>1, <2>2 DEF Detected
<1>14. Obeyed'
  BY <1>4 DEF IInv, Obeyed
<1> QED
  BY <1>6, <1>7, <1>8, <1>9, <1>10, <1>11, <1>12, <1>13, <1>14 DEF IInv, Plumbing

LEMMA WithdrawFaultKeeps == ASSUME IInv, WithdrawFault PROVE IInv'
<1>1. Plumbing
  BY DEF IInv
<1>2. /\ appliedAt # NoTime /\ withdrawnAt = NoTime
      /\ withdrawnAt' = clock /\ appliedAt' = appliedAt /\ ApplyConfig(NoFault)
  BY DEF WithdrawFault
<1>3. /\ entries' = {} /\ Releases(entries)
      /\ config' = NoFault /\ holdEnabled' = Injector!StaleIsActive(NoFault)
      /\ held' = Injector!HeldOnSwitch(Injector!StaleIsActive(NoFault))
      /\ UNCHANGED <<clock, fault, robot, raw, stamps, timers, command,
                     latest, received, nextSequence, watchdog>>
      /\ UNCHANGED <<moving, nextSample, polled, checked,
                     arrived, firstArrival, latestStamp, latched>>
  BY <1>1, <1>2, ConfigureEffect DEF robot, timers, watchdog
<1>4. /\ clock \in Nat /\ appliedAt \in Times
      /\ faulted' \in Seq(Nat) /\ \A s \in InFlight' : s <= clock
      /\ IsFiniteSet(entries')
  BY <1>1, <1>3, ReleasedArePast DEF Plumbing, Types
<1>5. Types' /\ Sampled' /\ InForce'
  BY <1>1, <1>2, <1>3, <1>4 DEF Plumbing, Types, Sampled, InForce, StampOf, Times, NoTime
<1>6. Holds'
  <2>1. ~Injector!StaleIsActive(NoFault)
    BY DEF Injector!StaleIsActive, NoFault
  <2>2. held' = 0
    BY <1>1, <1>3, <2>1 DEF Plumbing, Holds, Injector!HeldOnSwitch, Injector!Unset
  <2> QED
    BY <1>1, <1>3, <2>1, <2>2 DEF Plumbing, Holds, Injector!StaleIsActive
<1>7. Lined'
  BY <1>3 DEF Lined
<1>8. Met'
  BY <1>1, <1>3, <1>4 DEF Plumbing, Met
<1>9. WP!IInv'
  BY <1>1, <1>3, WatchdogStays DEF Plumbing
<1>10. Calm'
  BY <1>2, <1>3, ReleasesKeepCalm, CalmFromParts
<1>11. Hidden'
  BY <1>2, <1>4 DEF Hidden, NoTime
<1>12. Detected'
  BY <1>2, <1>3, <1>4, TrialStays DEF IInv, Detected, DetectionTime, NoTime
<1>13. Obeyed'
  BY <1>3 DEF IInv, Obeyed
<1> QED
  BY <1>5, <1>6, <1>7, <1>8, <1>9, <1>10, <1>11, <1>12, <1>13 DEF IInv, Plumbing

-----------------------------------------------------------------------------
(* The steps of the watchdog node, and the passage of time. *)

LEMMA OnFaultedKeeps == ASSUME IInv, OnFaulted PROVE IInv'
<1> DEFINE stamp == Head(faulted)
<1> USE Parameters
<1>1. Plumbing
  BY DEF IInv
<1>2. /\ faulted # <<>> /\ faulted' = Tail(faulted)
      /\ Watchdog!RecordArrival(stamp)
      /\ UNCHANGED <<trial, robot, raw, stamps, timers, command, injector>>
      /\ UNCHANGED <<fault, appliedAt, withdrawnAt, moving, nextSample, polled, checked, config,
                     entries, nextSequence, holdEnabled, latest, held, received>>
  BY DEF OnFaulted, trial, robot, timers, injector
<1>3. /\ clock \in Nat /\ received \in Nat /\ faulted \in Seq(Nat)
      /\ arrived \in Nat /\ WP!IInv
      /\ firstArrival \in Times /\ latestStamp \in Times
  BY <1>1 DEF Plumbing, Types, WP!IInv, WP!TypeOK, WP!Times, WP!NoTime, Times, NoTime
<1>4. /\ stamp \in Nat /\ stamp \in InFlight
      /\ faulted' \in Seq(Nat) /\ Len(faulted) \in Nat /\ Len(faulted) # 0
      /\ Len(faulted') = Len(faulted) - 1
      /\ InFlight' \subseteq InFlight
      /\ \A s \in InFlight : s = stamp \/ s \in InFlight'
  <2>1. /\ Len(faulted) \in Nat /\ Len(faulted) # 0 /\ faulted[1] \in Nat
        /\ stamp = faulted[1]
    BY <1>2, <1>3, EmptySeq
  <2>2. /\ faulted' \in Seq(Nat) /\ Len(faulted') = Len(faulted) - 1
        /\ \A i \in 1..Len(faulted') : faulted'[i] = faulted[i + 1]
    BY <1>2, <1>3, HeadTailProperties
  <2>3. stamp \in InFlight
    BY <2>1 DEF InFlight
  <2>4. ASSUME NEW i \in 1..Len(faulted') PROVE faulted'[i] \in InFlight
    <3>1. i + 1 \in 1..Len(faulted) /\ faulted'[i] = faulted[i + 1]
      BY <2>1, <2>2
    <3> QED
      BY <3>1 DEF InFlight
  <2>5. ASSUME NEW i \in 1..Len(faulted)
        PROVE  faulted[i] = stamp \/ faulted[i] \in InFlight'
    <3>1. CASE i # 1
      <4>1. i - 1 \in 1..Len(faulted') /\ faulted'[i - 1] = faulted[i]
        BY <2>1, <2>2, <3>1
      <4> QED
        BY <4>1 DEF InFlight
    <3> QED
      BY <2>1, <3>1
  <2> QED
    BY <2>1, <2>2, <2>3, <2>4, <2>5 DEF InFlight
<1>5. /\ clock' = clock /\ arrived' = arrived + 1 /\ latched' = latched
      /\ firstArrival' = IF firstArrival = NoTime THEN clock ELSE firstArrival
      /\ latestStamp' = IF stamp > latestStamp THEN stamp ELSE latestStamp
  BY <1>2 DEF Watchdog!RecordArrival, Watchdog!LatestAfter, Watchdog!NoTime, NoTime
<1> HIDE DEF stamp
<1>6. Types' /\ Sampled' /\ InForce'
  BY <1>1, <1>2, <1>4, <1>5 DEF Plumbing, Types, Sampled, InForce, StampOf
<1>7. Holds' /\ Lined'
  BY <1>1, <1>2, <1>5 DEF Plumbing, Holds, Lined, StampOf, Injector!StaleIsActive, Injector!LatencyIsActive
<1>8. Met'
  <2>1. firstArrival' # NoTime /\ firstArrival' <= clock
    BY <1>1, <1>3, <1>5 DEF Plumbing, Met, NoTime
  <2>2. stamp <= clock /\ latestStamp' <= clock
    BY <1>1, <1>3, <1>4, <1>5 DEF Plumbing, Met
  <2> QED
    BY <1>1, <1>3, <1>4, <1>5, <2>1, <2>2 DEF Plumbing, Met
<1>9. WP!RecordArrival(stamp)
  BY <1>2, SameWatchdog DEF stamp
<1>10. WP!IInv'
  BY <1>3, <1>4, <1>9, WP!RecordArrivalKeeps
<1>11. Calm'
  <2> SUFFICES ASSUME appliedAt = NoTime \/ Tolerated
               PROVE  Accounted' /\ OnTime' /\ Quiet' /\ WP!Timed' /\ WP!Remembered'
    BY <1>2, CalmFromParts
  <2>1. Accounted /\ OnTime /\ Quiet /\ WP!Timed /\ WP!Remembered
    BY DEF IInv, Calm
  <2>2. Cardinality(entries) \in Nat
    BY <1>1, FS_CardinalityType DEF Plumbing, Types
  <2>3. Accounted'
    <3>1. arrived' + Len(faulted') + Cardinality(entries') = received'
      BY <1>2, <1>3, <1>4, <1>5, <2>1, <2>2 DEF Accounted
    <3>2. stamp <= latestStamp' /\ latestStamp <= latestStamp'
      BY <1>3, <1>4, <1>5 DEF Times, NoTime
    <3>3. \A n \in 1..received : StampOf(n) \in Nat
      BY StampType
    <3>4. ASSUME NEW n \in 1..received
          PROVE  \/ \E e \in entries : e.message = n
                 \/ StampOf(n) \in InFlight'
                 \/ StampOf(n) <= latestStamp'
      <4>1. CASE StampOf(n) <= latestStamp
        BY <1>3, <1>4, <1>5, <3>2, <3>3, <4>1 DEF Times, NoTime
      <4> QED
        BY <1>4, <2>1, <3>2, <4>1 DEF Accounted
    <3> QED
      BY <1>2, <3>1, <3>4 DEF Accounted, StampOf
  <2>4. OnTime'
    <3>1. Lateness' = Lateness /\ Lateness \in Nat
      BY <1>1, <1>2, TrialStays, LatenessType
    <3>2. arrived * Period <= (arrived + 1) * Period
      BY <1>3
    <3>3. arrived * Period \in Nat /\ (arrived + 1) * Period \in Nat
      BY <1>3
    <3> QED
      BY <1>3, <1>4, <1>5, <2>1, <3>1, <3>2, <3>3 DEF OnTime, Times, NoTime
  <2>5. Quiet'
    BY <1>2, <1>5, <2>1 DEF Quiet
  <2>6. WP!StampOf(arrived + 1) <= clock
    <3>1. arrived + 1 \in 1..received
      BY <1>3, <1>4, <2>1, <2>2 DEF Accounted
    <3> QED
      BY <1>1, <3>1, StampsPast DEF StampOf, WP!StampOf
  <2>7. firstArrival = WP!NoTime => arrived = 0
    BY <1>1 DEF Plumbing, Met, WP!NoTime, NoTime
  <2>8. WP!Timed' /\ WP!Remembered'
    BY <1>1, <1>3, <1>4, <1>9, <2>1, <2>6, <2>7, WP!ArrivalKeepsCount DEF Plumbing, Met
  <2> QED
    BY <2>3, <2>4, <2>5, <2>8
<1>12. Hidden'
  <2>1. Detectable' = Detectable /\ \A s : Old(s)' = Old(s)
    BY <1>2, <1>5, TrialStays DEF Old
  <2> QED
    BY <1>2, <1>4, <1>5, <2>1 DEF IInv, Hidden
<1>13. Detected' /\ Obeyed'
  BY <1>2, <1>5, DetectedStays DEF IInv, Obeyed
<1> QED
  BY <1>6, <1>7, <1>8, <1>10, <1>11, <1>12, <1>13 DEF IInv, Plumbing

\* So many samples of a delay this long the subscription keeps.
LEMMA RoomForDelay ==
    ASSUME NEW count \in Nat, NEW delay \in Nat,
           count * Period <= Period + delay, delay < Depth * Period
    PROVE  count <= Depth
<1> USE Parameters, DepthAssumption
<1> SUFFICES ASSUME Depth + 1 <= count PROVE FALSE
  OBVIOUS
<1>1. (Depth + 1) * Period <= count * Period
  OBVIOUS
<1>2. (Depth + 1) * Period = Depth * Period + Period
  OBVIOUS
<1>3. Depth * Period \in Nat /\ count * Period \in Nat
  OBVIOUS
<1> QED
  BY <1>1, <1>2, <1>3

LEMMA CalmFits ==
    ASSUME IInv, appliedAt = NoTime \/ Tolerated
    PROVE  Len(faulted) <= Depth
<1> USE Parameters, DepthAssumption
<1>1. /\ clock \in Nat /\ received \in Nat /\ arrived \in Nat
      /\ Len(faulted) \in Nat /\ Cardinality(entries) \in Nat
      /\ fault.delay \in Nat /\ fault.jitter \in Nat
  <2>1. faulted \in Seq(Nat) /\ IsFiniteSet(entries)
    BY DEF IInv, Plumbing, Types
  <2> QED
    BY <2>1, FS_CardinalityType, FaultFields DEF IInv, Plumbing, Types, WP!IInv, WP!TypeOK
<1>2. Lateness \in Nat /\ Lateness < Depth * Period
  <2>1. 0 < Depth * Period
    OBVIOUS
  <2>2. CASE Tolerated /\ fault # NoFault
    BY <1>1, <2>2 DEF Tolerated, Fits, FaultDelay, Lateness
  <2>3. CASE ~Tolerated \/ fault = NoFault
    BY <2>1, <2>3 DEF Lateness, NoFault
  <2> QED
    BY <2>2, <2>3
<1>3. arrived + Len(faulted) <= received
  BY <1>1 DEF IInv, Calm, Accounted
<1>4. received * Period <= clock + Period
  BY ReceivedByNow DEF IInv
<1>5. CASE clock = 0
  <2>1. received * Period <= Period
    BY <1>4, <1>5
  <2>2. Len(faulted) * Period <= received * Period
    BY <1>1, <1>3
  <2>3. Len(faulted) * Period \in Nat /\ received * Period \in Nat
    BY <1>1
  <2> QED
    BY <1>1, <1>2, <2>1, <2>2, <2>3, RoomForDelay
<1>6. CASE clock # 0
  <2>1. clock <= arrived * Period + Lateness
    BY <1>6 DEF IInv, Calm, OnTime
  <2>2. (arrived + Len(faulted)) * Period <= received * Period
    BY <1>1, <1>3
  <2>3. (arrived + Len(faulted)) * Period = arrived * Period + Len(faulted) * Period
    BY <1>1
  <2>4. /\ arrived * Period \in Nat /\ Len(faulted) * Period \in Nat
        /\ received * Period \in Nat
    BY <1>1
  <2>5. Len(faulted) * Period <= Period + Lateness
    BY <1>1, <1>2, <1>4, <2>1, <2>2, <2>3, <2>4
  <2> QED
    BY <1>1, <1>2, <2>5, RoomForDelay
<1> QED
  BY <1>5, <1>6

\* What is left when the oldest in flight is gone was in flight.
LEMMA OldestIsLost ==
    ASSUME faulted \in Seq(Nat), Overwrite
    PROVE  /\ Len(faulted) \in Nat /\ Len(faulted) > Depth
           /\ faulted' \in Seq(Nat) /\ Len(faulted') = Len(faulted) - 1
           /\ InFlight' \subseteq InFlight
<1>1. /\ faulted' = Tail(faulted) /\ faulted # <<>>
      /\ Len(faulted) \in Nat /\ Len(faulted) > Depth
  BY DepthAssumption DEF Overwrite
<1>2. /\ faulted' \in Seq(Nat) /\ Len(faulted') = Len(faulted) - 1
      /\ \A i \in 1..Len(faulted') : faulted'[i] = faulted[i + 1]
  BY <1>1, HeadTailProperties
<1>3. \A i \in 1..Len(faulted') : faulted'[i] \in InFlight
  BY <1>1, <1>2 DEF InFlight
<1> QED
  BY <1>1, <1>2, <1>3 DEF InFlight

LEMMA OverwriteKeeps == ASSUME IInv, Overwrite PROVE IInv'
<1>1. Plumbing
  BY DEF IInv
<1>2. /\ UNCHANGED <<clock, trial, robot, raw, stamps, timers, command, injector, watchdog>>
      /\ UNCHANGED <<fault, appliedAt, withdrawnAt, moving, nextSample, polled, checked, config,
                     entries, nextSequence, holdEnabled, latest, held, received, arrived,
                     firstArrival, latestStamp, latched>>
  BY DEF Overwrite, trial, robot, timers, injector, watchdog
<1>3. faulted' \in Seq(Nat) /\ InFlight' \subseteq InFlight
  BY <1>1, OldestIsLost DEF Plumbing, Types
<1>4. Types' /\ Sampled' /\ InForce'
  BY <1>1, <1>2, <1>3 DEF Plumbing, Types, Sampled, InForce, StampOf
<1>5. Holds' /\ Lined'
  BY <1>1, <1>2 DEF Plumbing, Holds, Lined, StampOf, Injector!StaleIsActive, Injector!LatencyIsActive
<1>6. Met'
  BY <1>1, <1>2, <1>3 DEF Plumbing, Met
<1>7. WP!IInv'
  BY <1>1, <1>2, WatchdogStays DEF Plumbing
<1>8. Calm'
  <2>1. ~(appliedAt = NoTime \/ Tolerated)
    <3>1. Len(faulted) \in Nat /\ Len(faulted) > Depth
      BY <1>1, OldestIsLost DEF Plumbing, Types
    <3> QED
      BY <3>1, CalmFits, DepthAssumption
  <2> QED
    BY <1>2, <2>1, TrialStays DEF Calm
<1>9. Hidden'
  <2>1. Detectable' = Detectable /\ \A s : Old(s)' = Old(s)
    BY <1>2, TrialStays DEF Old
  <2> QED
    BY <1>2, <1>3, <2>1 DEF IInv, Hidden
<1>10. Detected' /\ Obeyed'
  BY <1>2, DetectedStays DEF IInv, Obeyed
<1> QED
  BY <1>4, <1>5, <1>6, <1>7, <1>8, <1>9, <1>10 DEF IInv, Plumbing

\* What a check decides.
LEMMA CheckDecides ==
    ASSUME WP!IInv, WP!Check
    PROVE  /\ UNCHANGED <<clock, arrived, firstArrival, lastArrival, latestStamp>>
           /\ status'.violated = latched' /\ latched' \in BOOLEAN
           /\ latched => latched'
           /\ lastArrival # NoTime /\ WP!TooOld => latched'
           /\ ~latched /\ latched' =>
                /\ lastArrival # NoTime
                /\ latchedReason' \in WP!Findings \ {WP!NoReason}
<1>1. /\ latched \in BOOLEAN
      /\ latched <=> latchedReason # WP!NoReason
  BY DEF WP!IInv, WP!TypeOK
<1>2. PICK reason :
        /\ WP!Latch(reason)
        /\ IF lastArrival = NoTime THEN reason = latchedReason
           ELSE \E finding \in WP!Findings :
                    reason = IF latched THEN latchedReason ELSE finding
  BY DEF WP!Check, WP!Verdict, WP!SilentVerdict, WP!NoTime, NoTime
<1>3. /\ UNCHANGED <<clock, arrived, firstArrival, lastArrival, latestStamp>>
      /\ latched' = (reason # WP!NoReason) /\ latchedReason' = reason
      /\ status'.violated = latched'
  BY <1>2 DEF WP!Check, WP!Latch
<1>4. WP!TooOld => WP!NoReason \notin WP!Findings
  BY DEF WP!Findings, WP!NoReason
<1> QED
  BY <1>1, <1>2, <1>3, <1>4

\* There is no reason to complain about a calm stream.
LEMMA CalmHasNoReason ==
    ASSUME Plumbing, OnTime, WP!Timed, WP!Remembered, lastArrival # NoTime
    PROVE  WP!Findings \ {WP!NoReason} = {}
<1> USE Parameters
<1>1. /\ clock \in Nat /\ arrived \in Nat /\ latestStamp \in Nat /\ WP!IInv
      /\ firstArrival # NoTime
  BY DEF Plumbing, Types, WP!IInv, WP!TypeOK, WP!TimesSetTogether, WP!Times, WP!NoTime, NoTime
<1>2. /\ arrived # 0 /\ firstArrival <= clock
  BY <1>1 DEF Plumbing, Met
<1>3. Lateness \in Nat /\ WP!Tolerates(Lateness)
  BY LatenessType
<1>4. ~WP!TooOld
  <2>1. Period + Lateness <= MaxAge
    BY <1>3 DEF WP!Tolerates
  <2> QED
    BY <1>1, <1>3, <2>1 DEF OnTime, WP!TooOld
<1>5. WP!Prompt(Lateness)
  <2>1. arrived * Period \in Nat
    BY <1>1
  <2>2. clock <= arrived * Period + Lateness
    BY <1>1, <1>3, <2>1 DEF OnTime
  <2> QED
    BY <1>1, <1>2, <2>2 DEF WP!Prompt, WP!NoTime, NoTime
<1>6. ~WP!MayBeTooSparse
  BY <1>1, <1>3, <1>5, WP!NeverSparse
<1> QED
  BY <1>4, <1>6 DEF WP!Findings, WP!NoReason

LEMMA OnCheckKeeps == ASSUME IInv, OnCheck PROVE IInv'
<1> USE Parameters
<1>1. Plumbing
  BY DEF IInv
<1>2. /\ checked' = TRUE /\ command' = (command \/ status'.violated)
      /\ UNCHANGED <<trial, robot, raw, faulted, stamps, polled, injector>>
      /\ UNCHANGED <<fault, appliedAt, withdrawnAt, moving, nextSample, config, entries,
                     nextSequence, holdEnabled, latest, held, received>>
      /\ WP!Check
  BY SameWatchdog DEF OnCheck, Commands, trial, robot, injector
<1>3. /\ UNCHANGED <<clock, arrived, firstArrival, lastArrival, latestStamp>>
      /\ status'.violated = latched' /\ latched' \in BOOLEAN
      /\ latched => latched'
      /\ lastArrival # NoTime /\ WP!TooOld => latched'
      /\ ~latched /\ latched' =>
            lastArrival # NoTime /\ latchedReason' \in WP!Findings \ {WP!NoReason}
  BY <1>1, <1>2, CheckDecides DEF Plumbing
<1>4. /\ clock \in Nat /\ command \in BOOLEAN
  BY <1>1 DEF Plumbing, Types
<1>5. Types' /\ Sampled' /\ InForce'
  BY <1>1, <1>2, <1>3 DEF Plumbing, Types, Sampled, InForce, StampOf
<1>6. Holds' /\ Lined'
  BY <1>1, <1>2, <1>3 DEF Plumbing, Holds, Lined, StampOf, Injector!StaleIsActive, Injector!LatencyIsActive
<1>7. InFlight' = InFlight /\ Met'
  BY <1>1, <1>2, <1>3 DEF Plumbing, Met, InFlight
<1>8. WP!IInv'
  BY <1>1, <1>2, WP!CheckKeeps DEF Plumbing
<1>9. Calm'
  <2> SUFFICES ASSUME appliedAt = NoTime \/ Tolerated
               PROVE  Accounted' /\ OnTime' /\ Quiet' /\ WP!Timed' /\ WP!Remembered'
    BY <1>2, CalmFromParts
  <2>1. Accounted /\ OnTime /\ Quiet /\ WP!Timed /\ WP!Remembered
    BY DEF IInv, Calm
  <2>2. Accounted'
    BY <1>2, <1>3, <1>7, <2>1 DEF Accounted, StampOf
  <2>3. OnTime'
    BY <1>2, <1>3, <2>1, TrialStays DEF OnTime
  <2>4. Quiet'
    <3>1. lastArrival = NoTime \/ WP!Findings \ {WP!NoReason} = {}
      BY <1>1, <2>1, CalmHasNoReason
    <3> QED
      BY <1>2, <1>3, <2>1, <3>1 DEF Quiet
  <2>5. WP!Timed' /\ WP!Remembered'
    BY <1>1, <1>2, <2>1, WP!CheckKeepsCount DEF Plumbing
  <2> QED
    BY <2>2, <2>3, <2>4, <2>5
<1>10. Hidden'
  <2>1. Detectable' = Detectable /\ \A s : Old(s)' = Old(s)
    BY <1>2, <1>3, TrialStays DEF Old
  <2> QED
    BY <1>2, <1>3, <1>7, <2>1 DEF IInv, Hidden
<1>11. Detected'
  <2> SUFFICES ASSUME appliedAt # NoTime, Detectable,
                      withdrawnAt = NoTime \/ withdrawnAt > DetectionTime,
                      clock = DetectionTime
               PROVE  latched'
    BY <1>2, <1>3, TrialStays DEF IInv, Detected, DetectionTime
  <2>1. appliedAt \in Nat /\ withdrawnAt \in Times /\ clock # 0
    BY <1>1, <1>4 DEF Plumbing, Types, Times, DetectionTime
  <2>2. withdrawnAt = NoTime
    BY <1>1, <1>4, <2>1 DEF Plumbing, InForce, Times
  <2>3. Old(latestStamp)
    BY <2>2 DEF IInv, Hidden
  <2>4. lastArrival # NoTime /\ latestStamp \in Nat
    BY <1>1, <2>1 DEF Plumbing, Met, WP!IInv, WP!TypeOK, WP!TimesSetTogether, WP!Times,
       WP!NoTime, NoTime
  <2>5. WP!TooOld
    BY <1>4, <2>1, <2>3, <2>4 DEF Old, DetectionTime, WP!TooOld
  <2> QED
    BY <1>3, <2>4, <2>5
<1>12. Obeyed'
  BY <1>2, <1>3, <1>4 DEF IInv, Obeyed
<1> QED
  BY <1>5, <1>6, <1>7, <1>8, <1>9, <1>10, <1>11, <1>12 DEF IInv, Plumbing

\* When all that was due in a tick has run, what is still pending is not late.
LEMMA TickIsOver ==
    ASSUME IInv, Elapse
    PROVE  /\ clock \in Nat /\ received \in Nat \ {0} /\ arrived \in Nat
           /\ raw = <<>> /\ InFlight = {} /\ Len(faulted) = 0
           /\ clock + 1 <= received * Period
           /\ appliedAt = NoTime => entries = {}
           /\ appliedAt = NoTime \/ Tolerated =>
                \A e \in entries : clock < StampOf(e.message) + Lateness
<1> USE Parameters
<1>1. /\ clock \in Nat /\ received \in Nat /\ arrived \in Nat
      /\ raw = <<>> /\ faulted = <<>> /\ polled /\ clock < nextSample
  BY DEF IInv, Plumbing, Types, WP!IInv, WP!TypeOK, Elapse
<1>2. Len(raw) = 0 /\ Len(faulted) = 0 /\ InFlight = {}
  BY <1>1 DEF InFlight
<1>3. nextSample = received * Period
  BY <1>1, <1>2 DEF IInv, Plumbing, Sampled
<1>4. clock + 1 <= received * Period /\ received # 0
  <2>1. received * Period \in Nat
    BY <1>1
  <2> QED
    BY <1>1, <1>3, <2>1
<1>5. appliedAt = NoTime => entries = {}
  BY DEF IInv, Plumbing, InForce, Lined, Injector!LatencyIsActive, NoFault
<1>6. ASSUME appliedAt = NoTime \/ Tolerated, NEW e \in entries
      PROVE  clock < StampOf(e.message) + Lateness
  <2>1. Tolerated /\ Lateness = fault.delay + fault.jitter
    BY <1>5, <1>6 DEF Lateness
  <2>2. /\ clock < e.deadline /\ e.deadline \in Nat /\ e.message \in 1..received
        /\ e.deadline <= StampOf(e.message) + fault.delay + fault.jitter
    BY <1>1, <1>6 DEF IInv, Plumbing, Types, Lined, Injector!Entries
  <2>3. StampOf(e.message) \in Nat /\ fault.delay \in Nat /\ fault.jitter \in Nat
    BY <2>2, StampType, FaultFields DEF IInv
  <2> QED
    BY <1>1, <2>1, <2>2, <2>3
<1> QED
  BY <1>1, <1>2, <1>4, <1>5, <1>6

\* So many have arrived: were one message more missing than may be late, the
\* pending would be more than the messages that can be.
LEMMA EnoughArrived ==
    ASSUME IInv, Elapse, appliedAt = NoTime \/ Tolerated
    PROVE  clock + 1 <= arrived * Period + Lateness
<1> USE Parameters
<1>1. /\ clock \in Nat /\ received \in Nat /\ arrived \in Nat
      /\ Len(faulted) = 0 /\ clock + 1 <= received * Period
      /\ \A e \in entries : clock < StampOf(e.message) + Lateness
  BY TickIsOver
<1>2. Lateness \in Nat /\ arrived * Period \in Nat
  BY <1>1, LatenessType DEF IInv
<1> SUFFICES ASSUME arrived * Period + Lateness <= clock PROVE FALSE
  BY <1>1, <1>2
<1>3. /\ IsFiniteSet(entries) /\ Cardinality(entries) \in Nat
      /\ arrived + Cardinality(entries) = received
      /\ \A e \in entries : e.message \in 1..received
      /\ \A e, f \in entries : e.message = f.message => e = f
  BY <1>1, FS_CardinalityType DEF IInv, Plumbing, Types, Lined, Calm, Accounted
<1>4. ASSUME NEW e \in entries PROVE e.message \in (arrived + 2)..received
  <2>1. e.message \in 1..received /\ clock < (e.message - 1) * Period + Lateness
    BY <1>1, <1>3 DEF StampOf
  <2>2. arrived * Period < (e.message - 1) * Period
    BY <1>1, <1>2, <2>1
  <2>3. arrived < e.message - 1
    <3> SUFFICES ASSUME e.message - 1 <= arrived PROVE FALSE
      BY <1>1, <2>1
    <3>1. (e.message - 1) * Period <= arrived * Period
      BY <1>1, <2>1
    <3> QED
      BY <1>1, <2>1, <2>2, <3>1
  <2> QED
    BY <1>1, <2>1, <2>3
<1> DEFINE f == [e \in entries |-> e.message]
           late == (arrived + 2)..received
<1>5. f \in Injection(entries, late)
  BY <1>3, <1>4 DEF Injection, IsInjective
<1>6. /\ IsFiniteSet(late)
      /\ Cardinality(late) = IF arrived + 2 > received THEN 0 ELSE received - (arrived + 2) + 1
  BY <1>1, FS_Interval
<1>7. Cardinality(entries) <= Cardinality(late)
  BY <1>5, <1>6, FS_Injection
<1> HIDE DEF late
<1>8. received = arrived
  BY <1>1, <1>3, <1>6, <1>7
<1> QED
  BY <1>1, <1>2, <1>8

\* The newest that has arrived is no older than a period and the lateness: the
\* newest message that cannot be late any more has arrived.
LEMMA NewestArrived ==
    ASSUME IInv, Elapse, appliedAt = NoTime \/ Tolerated, latestStamp \in Nat
    PROVE  clock + 1 <= latestStamp + Period + Lateness
<1> USE Parameters
<1>1. /\ clock \in Nat /\ received \in Nat /\ InFlight = {}
      /\ clock + 1 <= received * Period
      /\ \A e \in entries : clock < StampOf(e.message) + Lateness
  BY TickIsOver
<1>2. Lateness \in Nat
  BY LatenessType DEF IInv
<1> SUFFICES ASSUME latestStamp + Period + Lateness <= clock PROVE FALSE
  BY <1>1, <1>2
<1>3. clock - Lateness \in Nat
  BY <1>1, <1>2
<1>4. PICK m \in Nat \ {0} :
        WP!StampOf(m) <= clock - Lateness /\ clock - Lateness < WP!StampOf(m + 1)
  BY <1>3, WP!FirstInWindow
<1>5. /\ StampOf(m) \in Nat /\ StampOf(m) <= clock - Lateness
      /\ clock - Lateness < StampOf(m) + Period
  BY <1>3, <1>4, StampType DEF StampOf, WP!StampOf
<1>6. m <= received
  <2> SUFFICES ASSUME m >= received + 1 PROVE FALSE
    BY <1>1, <1>4
  <2>1. received * Period <= StampOf(m) /\ received * Period \in Nat
    BY <1>1, <1>4 DEF StampOf
  <2> QED
    BY <1>1, <1>2, <1>5, <2>1
<1>7. StampOf(m) <= latestStamp
  <2>1. ~\E e \in entries : e.message = m
    BY <1>1, <1>2, <1>5
  <2>2. m \in 1..received
    BY <1>1, <1>4, <1>6
  <2> QED
    BY <1>1, <2>1, <2>2 DEF IInv, Calm, Accounted
<1> QED
  BY <1>1, <1>2, <1>5, <1>7

LEMMA ElapseKeeps == ASSUME IInv, Elapse PROVE IInv'
<1> USE Parameters
<1>1. Plumbing
  BY DEF IInv
<1>2. /\ clock' = clock + 1 /\ clock < MaxTime /\ clock < nextSample /\ checked
      /\ polled' = FALSE /\ checked' = FALSE
      /\ UNCHANGED <<trial, robot, raw, faulted, stamps, command, injector, watchdog>>
      /\ UNCHANGED <<fault, appliedAt, withdrawnAt, moving, nextSample, config, entries,
                     nextSequence, holdEnabled, latest, held, received, arrived,
                     firstArrival, latestStamp, latched>>
  BY DEF Elapse, trial, robot, injector, watchdog
<1>3. /\ clock \in Nat /\ received \in Nat \ {0} /\ arrived \in Nat
      /\ raw = <<>> /\ InFlight = {} /\ Len(faulted) = 0
      /\ appliedAt = NoTime => entries = {}
  BY TickIsOver
<1>4. Types'
  <2>1. clock' \in Nat
    BY <1>2, <1>3
  <2> QED
    BY <1>1, <1>2, <2>1 DEF Plumbing, Types
<1>5. Sampled'
  <2>1. clock' <= nextSample' /\ nextSample' <= clock' + Period
    <3>1. nextSample \in Int
      BY <1>1, <1>3 DEF Plumbing, Sampled
    <3> QED
      BY <1>1, <1>2, <1>3, <3>1 DEF Plumbing, Sampled
  <2> QED
    BY <1>1, <1>2, <1>3, <2>1 DEF Plumbing, Sampled, StampOf
<1>6. InForce'
  BY <1>1, <1>2, <1>3 DEF Plumbing, Types, Times, NoTime, InForce
<1>7. Holds' /\ Lined'
  BY <1>1, <1>2 DEF Plumbing, Holds, Lined, StampOf, Injector!StaleIsActive, Injector!LatencyIsActive
<1>8. InFlight' = InFlight
  BY <1>2 DEF InFlight
<1>9. arrived # 0
  <2>1. CASE clock # 0
    BY <1>1, <2>1 DEF Plumbing, Met
  <2>2. CASE clock = 0
    <3>1. appliedAt = NoTime
      BY <1>1, <2>2, BoundsAssumption DEF Plumbing, Types, Times, InForce
    <3>2. Cardinality(entries) = 0
      BY <1>3, <3>1, FS_EmptySet
    <3> QED
      BY <1>3, <3>1, <3>2 DEF IInv, Calm, Accounted
  <2> QED
    BY <2>1, <2>2
<1>10. /\ WP!IInv /\ firstArrival \in Nat /\ latestStamp \in Nat
  BY <1>1, <1>9 DEF Plumbing, Met, WP!IInv, WP!TypeOK, WP!TimesSetTogether, WP!Times,
     WP!NoTime, NoTime
<1>11. Met'
  BY <1>1, <1>2, <1>3, <1>8, <1>9, <1>10 DEF Plumbing, Met
<1>12. UNCHANGED WP!evaluator /\ WP!Tick
  BY <1>2 DEF watchdog, WP!evaluator, WP!Tick
<1>13. WP!IInv'
  BY <1>10, <1>12, WP!NextKeeps DEF WP!Next
<1>14. Calm'
  <2> SUFFICES ASSUME appliedAt = NoTime \/ Tolerated
               PROVE  Accounted' /\ OnTime' /\ Quiet' /\ WP!Timed' /\ WP!Remembered'
    BY <1>2, CalmFromParts
  <2>1. Accounted /\ OnTime /\ Quiet /\ WP!Timed /\ WP!Remembered
    BY DEF IInv, Calm
  <2>2. Accounted'
    BY <1>2, <1>8, <2>1 DEF Accounted, StampOf
  <2>3. OnTime'
    <3>1. /\ clock + 1 <= arrived * Period + Lateness
          /\ clock + 1 <= latestStamp + Period + Lateness
      BY <1>10, EnoughArrived, NewestArrived
    <3>2. Lateness' = Lateness
      BY <1>2, TrialStays
    <3> QED
      BY <1>2, <3>1, <3>2 DEF OnTime
  <2>4. Quiet'
    BY <1>2, <2>1 DEF Quiet
  <2>5. WP!Timed' /\ WP!Remembered'
    BY <1>2, <1>10, <1>12, <2>1, WP!TickKeepsCount
  <2> QED
    BY <2>2, <2>3, <2>4, <2>5
<1>15. Hidden'
  <2> SUFFICES ASSUME appliedAt # NoTime, withdrawnAt = NoTime, Detectable
               PROVE  Old(latestStamp)'
    BY <1>2, <1>3, <1>8, TrialStays DEF Hidden
  <2>1. Old(latestStamp)
    BY DEF IInv, Hidden
  <2> QED
    BY <1>2, <1>3, <1>10, <2>1 DEF Old
<1>16. Detected'
  <2> SUFFICES ASSUME appliedAt # NoTime, Detectable,
                      withdrawnAt = NoTime \/ withdrawnAt > DetectionTime,
                      clock + 1 > DetectionTime
               PROVE  latched
    BY <1>2, TrialStays DEF Detected, DetectionTime
  <2>1. DetectionTime \in Int
    BY <1>1 DEF Plumbing, Types, Times, NoTime, DetectionTime
  <2>2. clock > DetectionTime \/ clock = DetectionTime
    BY <1>3, <2>1
  <2> QED
    BY <1>2, <2>2 DEF IInv, Detected
<1>17. Obeyed'
  BY <1>2 DEF IInv, Obeyed
<1> QED
  BY <1>4, <1>5, <1>6, <1>7, <1>11, <1>13, <1>14, <1>15, <1>16, <1>17 DEF IInv, Plumbing

-----------------------------------------------------------------------------
(* The theorems. *)

LEMMA NextKeeps == IInv /\ [Next]_vars => IInv'
<1> SUFFICES ASSUME IInv, [Next]_vars PROVE IInv'
  OBVIOUS
<1>1. CASE UNCHANGED vars
  <2>1. UNCHANGED <<clock, trial, robot, raw, faulted, stamps, timers, command, injector, watchdog>>
    BY <1>1 DEF vars
  <2>2. UNCHANGED <<polled, checked, received, entries, config, holdEnabled, latest, held,
                    nextSequence, latched, fault, appliedAt, withdrawnAt, moving, nextSample>>
    BY <2>1 DEF timers, injector, watchdog, trial, robot
  <2>3. Types' /\ Sampled'
    BY <2>1, <2>2 DEF IInv, Plumbing, Types, Sampled, StampOf
  <2>4. /\ InForce' /\ Holds' /\ Lined' /\ Met' /\ WP!IInv' /\ Hidden'
        /\ appliedAt = NoTime \/ Tolerated =>
              Accounted' /\ OnTime' /\ WP!Timed' /\ WP!Remembered'
    BY <2>1, <2>2, StreamsStay
  <2>5. Calm'
    BY <2>1, <2>2, <2>4, CalmFromParts DEF IInv, Calm, Quiet
  <2>6. Detected' /\ Obeyed'
    BY <2>1, <2>2, DetectedStays DEF IInv, Obeyed
  <2> QED
    BY <2>3, <2>4, <2>5, <2>6 DEF IInv, Plumbing
<1> QED
  BY <1>1, OnSampleKeeps, OnCommandKeeps, OnRawKeeps, OnPollKeeps, ApplyFaultKeeps,
     WithdrawFaultKeeps, OnFaultedKeeps, OverwriteKeeps, OnCheckKeeps, ElapseKeeps DEF Next

\* What is in flight, in force and seen is as the plumbing, the accounts and the
\* fault allow, in every state of the loop.
THEOREM Invariance == Spec => []IInv
BY InitEstablishes, NextKeeps, PTL DEF Spec

LEMMA AlarmsHaveCause == IInv => NoAlarmWithoutCause
<1> SUFFICES ASSUME IInv, latched \/ command \/ ~moving
             PROVE  appliedAt # NoTime /\ ~Tolerated /\ latched
  BY DEF NoAlarmWithoutCause
<1>1. moving \in BOOLEAN /\ command \in BOOLEAN
  BY DEF IInv, Plumbing, Types
<1> QED
  BY <1>1 DEF IInv, Calm, Quiet, Obeyed

\* No stop is commanded without cause: with no fault in force, or one whose delay
\* the watchdog's parameters tolerate, the watchdog stays quiet and the robot
\* moving, however callbacks and messages of a tick are ordered; and whatever is
\* commanded is commanded by a latched alarm.
THEOREM StopsHaveCause == Spec => []NoAlarmWithoutCause
BY AlarmsHaveCause, Invariance, PTL

\* Every fault that makes all that arrives too old is detected within MaxAge and
\* one check, unless it is withdrawn before.
THEOREM FaultsAreDetected == Spec => []DetectedInTime
<1>1. IInv => DetectedInTime
  BY DEF IInv, Detected, DetectionTime, DetectedInTime
<1> QED
  BY <1>1, Invariance, PTL

-----------------------------------------------------------------------------
(* What names the alarm.  Until all that is from before the fault is too   *)
(* old, the n-th arrival is no newer than the n-th sample: so many have    *)
(* come by then as the age of the newest tells, and none is missed.        *)

\* Nothing has been missed yet: there is no fault, or it has only begun to hide.
Unharmed ==
    \/ appliedAt = NoTime
    \/ Detectable /\ withdrawnAt = NoTime /\ clock <= appliedAt + MaxAge

\* No message overtakes the samples: neither those that arrived, nor those in
\* flight, nor what is held; and what is pending is from after the fault.  Nor is
\* there ever more than one in flight.
Ordered ==
    /\ Len(faulted) <= 1 /\ (clock = received * Period => Len(faulted) = 0)
    /\ arrived + Len(faulted) <= received
    /\ arrived # 0 => latestStamp <= StampOf(arrived)
    /\ \A i \in 1..Len(faulted) : faulted[i] <= StampOf(arrived + i)
    /\ holdEnabled => held <= arrived + Len(faulted) + 1
    /\ \A e \in entries : appliedAt <= StampOf(e.message)

\* The fault found the stream fresh.
Fresh == appliedAt # NoTime => appliedAt <= latestStamp + Period

InOrder == Unharmed => Ordered /\ Fresh /\ WP!Timed /\ WP!Remembered

\* A watchdog that tolerates samples as late as they come before their age is too
\* high complains about that, and not before the fault has hidden something.
Named ==
    /\ Detectable /\ Watchdog!Tolerates(MaxAge - Period)
    /\ appliedAt # NoTime
    /\ withdrawnAt = NoTime \/ withdrawnAt > DetectionTime
    /\ latched
    => latchedReason = "message_age_exceeded" /\ clock > appliedAt

LEMMA DetectableIsNotTolerated ==
    ASSUME Plumbing, Detectable
    PROVE  ~Tolerated /\ Lateness = 0
<1>1. fault.delay \in Nat /\ fault.jitter \in Nat
  BY FaultFields
<1>2. fault # NoFault
  BY DEF Detectable, NoFault
<1>3. ASSUME fault.faultType = "latency", Watchdog!Tolerates(FaultDelay),
             fault.delay - fault.jitter > MaxAge
      PROVE  FALSE
  <2>1. Period + (fault.delay + fault.jitter) <= MaxAge
    BY <1>3 DEF Watchdog!Tolerates, FaultDelay
  <2> QED
    BY <1>1, <1>3, <2>1, Parameters
<1>4. ~Tolerated
  BY <1>2, <1>3 DEF Tolerated, Detectable
<1> QED
  BY <1>4 DEF Lateness

\* What is sent is appended.
LEMMA SentIsAppended ==
    ASSUME faulted \in Seq(Nat), Publish, NEW X, NEW n \in Nat, Sends(X, n)
    PROVE  /\ Len(faulted') = Len(faulted) + n
           /\ \A i \in 1..Len(faulted) : faulted'[i] = faulted[i]
           /\ \A i \in (Len(faulted) + 1)..(Len(faulted) + n) : faulted'[i] \in X
<1>1. /\ faulted' = faulted \o Sent /\ Sent \in Seq(Nat) /\ Len(Sent) = n
      /\ {Sent[i] : i \in 1..Len(Sent)} = X
  BY DEF Publish, Sent, Sends
<1>2. /\ Len(faulted) \in Nat /\ Len(faulted') = Len(faulted) + n
      /\ \A i \in 1..Len(faulted) + n :
            faulted'[i] = IF i <= Len(faulted) THEN faulted[i] ELSE Sent[i - Len(faulted)]
  <2> DEFINE s == Sent
  <2>1. faulted' = faulted \o s /\ s \in Seq(Nat) /\ Len(s) = n
    BY <1>1
  <2> HIDE DEF s
  <2>2. Len(faulted \o s) = Len(faulted) + Len(s)
    BY <2>1, ConcatProperties
  <2>3. \A i \in 1..Len(faulted) + Len(s) :
            (faulted \o s)[i] = IF i <= Len(faulted) THEN faulted[i] ELSE s[i - Len(faulted)]
    BY <2>1, ConcatProperties
  <2> QED
    BY <2>1, <2>2, <2>3 DEF s
<1>3. ASSUME NEW i \in (Len(faulted) + 1)..(Len(faulted) + n)
      PROVE  faulted'[i] \in X
  <2>1. i - Len(faulted) \in 1..n /\ faulted'[i] = Sent[i - Len(faulted)]
    BY <1>2
  <2> HIDE DEF Sent
  <2> QED
    BY <1>1, <2>1
<1> QED
  BY <1>2, <1>3

\* Steps that none of this is about.
LEMMA InOrderStays ==
    ASSUME InOrder,
           UNCHANGED <<clock, trial, faulted, received, entries, holdEnabled, held, watchdog>>
    PROVE  InOrder'
<1>1. UNCHANGED <<appliedAt, withdrawnAt, fault, arrived, latestStamp>>
  BY DEF trial, watchdog
<1>2. Unharmed' => Unharmed
  BY <1>1, TrialStays DEF Unharmed
<1>3. Ordered => Ordered'
  BY <1>1 DEF Ordered, StampOf
<1> QED
  BY <1>1, <1>2, <1>3, WatchdogStays DEF InOrder, Fresh

\* A fault that has only begun to delay keeps everything from now on pending.
LEMMA NothingReleasedYet ==
    ASSUME Plumbing, Unharmed, NEW E, Releases(E),
           E # {} => fault.faultType = "latency" /\ appliedAt # NoTime,
           \A e \in E : /\ e.message \in Nat \ {0} /\ e.deadline \in Nat
                        /\ StampOf(e.message) + fault.delay - fault.jitter <= e.deadline
                        /\ appliedAt <= StampOf(e.message),
           \A e \in E \ entries' : e.deadline <= clock
    PROVE  entries' = E /\ Len(faulted') = Len(faulted) /\ Sends({}, 0)
<1>1. entries' \subseteq E
  BY DEF Releases
<1>2. ASSUME NEW e \in E \ entries' PROVE FALSE
  <2>1. /\ fault.delay - fault.jitter > MaxAge /\ clock <= appliedAt + MaxAge
        /\ appliedAt \in Nat
    BY <1>2 DEF Unharmed, Detectable, Plumbing, Types, Times
  <2>2. /\ fault.delay \in Nat /\ fault.jitter \in Nat /\ clock \in Nat
        /\ StampOf(e.message) \in Nat /\ appliedAt <= StampOf(e.message)
        /\ e.deadline <= clock /\ e.deadline \in Nat
        /\ StampOf(e.message) + fault.delay - fault.jitter <= e.deadline
    BY <1>2, FaultFields, StampType DEF Plumbing, Types
  <2> QED
    BY <2>1, <2>2, Parameters
<1>3. E \ entries' = {} /\ entries' = E
  BY <1>1, <1>2
<1>4. {StampOf(e.message) : e \in E \ entries'} = {} /\ Cardinality(E \ entries') = 0
  BY <1>3, FS_EmptySet
<1>5. Sends({}, 0)
  BY <1>4 DEF Releases
<1> QED
  BY <1>3, <1>5 DEF Sends, Plumbing, Types

LEMMA OnRawKeepsOrder == ASSUME IInv, InOrder, OnRaw PROVE InOrder'
<1> USE Parameters
<1>1. Plumbing /\ Publish /\ faulted \in Seq(Nat) /\ Len(faulted) \in Nat
  BY DEF IInv, Plumbing, Types, OnRaw
<1>2. /\ clock = received * Period /\ received' = received + 1 /\ held' = held
      /\ UNCHANGED <<clock, trial, config, holdEnabled, watchdog>>
      /\ UNCHANGED <<fault, appliedAt, withdrawnAt, arrived, latestStamp>>
      /\ Forwards \/ Drops \/ Delays
  BY <1>1, OnRawEffect DEF trial, watchdog
<1>3. /\ clock \in Nat /\ received \in Nat /\ arrived \in Nat
      /\ entries \in SUBSET Injector!Entries
      /\ appliedAt \in Times
  BY <1>1 DEF Plumbing, Types, WP!IInv, WP!TypeOK
<1>4. \A n : StampOf(n)' = StampOf(n)
  BY DEF StampOf
<1>5. StampOf(received + 1) = clock
  BY <1>2, <1>3 DEF StampOf
<1> SUFFICES ASSUME Unharmed
             PROVE  Ordered' /\ Fresh' /\ WP!Timed' /\ WP!Remembered'
  BY <1>2, TrialStays DEF InOrder, Unharmed
<1>6. Ordered /\ Fresh /\ WP!Timed /\ WP!Remembered
  BY DEF InOrder
<1>7. Fresh' /\ WP!Timed' /\ WP!Remembered'
  BY <1>2, <1>6, WatchdogStays DEF Fresh
<1>11. Len(faulted) = 0 /\ ~(clock' = received' * Period)
  <2>1. (received + 1) * Period # received * Period
    BY <1>3
  <2> QED
    BY <1>2, <1>6, <2>1 DEF Ordered
<1>8. CASE Forwards
  <2> DEFINE x == IF holdEnabled THEN StampOf(held) ELSE clock
             last == Len(faulted)
  <2>1. Sends({x}, 1) /\ entries' = entries /\ last \in Nat
    BY <1>1, <1>8 DEF Forwards
  <2>2. /\ Len(faulted') = last + 1
        /\ \A i \in 1..last : faulted'[i] = faulted[i]
        /\ faulted'[last + 1] = x
    <3>1. /\ Len(faulted') = Len(faulted) + 1
          /\ \A i \in 1..Len(faulted) : faulted'[i] = faulted[i]
          /\ \A i \in (Len(faulted) + 1)..(Len(faulted) + 1) : faulted'[i] \in {x}
      <4> HIDE DEF x
      <4> QED
        BY <1>1, <2>1, SentIsAppended
    <3> QED
      BY <2>1, <3>1
  <2>3. /\ arrived + last + 1 <= received + 1
        /\ x <= StampOf(arrived + last + 1)
        /\ \A e \in entries : appliedAt <= StampOf(e.message)
    <3>1. CASE appliedAt = NoTime
      <4>1. /\ ~holdEnabled /\ entries = {} /\ arrived + last = received
        <5>1. config = NoFault
          BY <1>1, <3>1 DEF Plumbing, InForce
        <5>2. ~holdEnabled /\ entries = {}
          BY <1>1, <5>1 DEF Plumbing, Holds, Lined, Injector!StaleIsActive,
             Injector!LatencyIsActive, NoFault
        <5>3. Cardinality(entries) = 0
          BY <5>2, FS_EmptySet
        <5>4. Accounted
          BY <3>1 DEF IInv, Calm
        <5> QED
          BY <1>3, <2>1, <5>2, <5>3, <5>4 DEF Accounted
      <4> QED
        BY <1>3, <1>5, <2>1, <4>1
    <3>2. CASE appliedAt # NoTime
      <4>1. /\ Detectable /\ config = fault /\ fault.enabled = TRUE
            /\ fault.faultType \in {"dropout", "latency", "stale"}
        BY <1>1, <3>2, FaultEnabled DEF Unharmed, Plumbing, InForce
      <4>2. holdEnabled /\ held \in 1..received
        <5>1. fault.faultType = "stale"
          BY <1>8, <4>1 DEF Forwards, Detectable, Injector!LatencyIsActive,
             Injector!DropoutIsActive
        <5> QED
          BY <1>1, <4>1, <5>1 DEF Plumbing, Holds, Injector!StaleIsActive
      <4>3. held <= arrived + last + 1 /\ arrived + last <= received
        BY <1>6, <4>2 DEF Ordered
      <4>4. StampOf(held) <= StampOf(arrived + last + 1)
        <5>1. held - 1 \in Nat /\ arrived + last \in Nat /\ held - 1 <= arrived + last
          BY <1>3, <2>1, <4>2, <4>3
        <5>2. (held - 1) * Period <= (arrived + last) * Period
          BY <5>1
        <5> QED
          BY <5>1, <5>2 DEF StampOf
      <4> QED
        BY <1>3, <1>6, <2>1, <4>2, <4>3, <4>4 DEF Ordered
    <3> QED
      BY <3>1, <3>2
  <2>4. ASSUME NEW i \in 1..last + 1 PROVE faulted'[i] <= StampOf(arrived + i)
    <3>1. i \in 1..last \/ i = last + 1
      BY <2>1
    <3>2. CASE i \in 1..last
      BY <1>6, <2>2, <3>2 DEF Ordered
    <3>3. CASE i = last + 1
      BY <1>3, <2>1, <2>2, <2>3, <3>3
    <3> QED
      BY <3>1, <3>2, <3>3
  <2>5. holdEnabled => held <= arrived + (last + 1) + 1
    BY <1>1, <1>3, <1>6, <2>1 DEF Ordered, Plumbing, Holds
  <2> HIDE DEF x, last
  <2>6. Ordered'
    BY <1>2, <1>3, <1>4, <1>6, <1>11, <2>1, <2>2, <2>3, <2>4, <2>5 DEF Ordered, last
  <2> QED
    BY <1>7, <2>6
<1>9. CASE Drops
  <2>1. entries' = entries /\ Sends({}, 0)
    BY <1>9 DEF Drops
  <2>2. Len(faulted') = Len(faulted) /\ \A i \in 1..Len(faulted) : faulted'[i] = faulted[i]
    BY <1>1, <2>1, SentIsAppended
  <2>3. Ordered'
    BY <1>1, <1>2, <1>3, <1>4, <1>6, <1>11, <2>1, <2>2 DEF Ordered
  <2> QED
    BY <1>7, <2>3
<1>10. CASE Delays
  <2>1. appliedAt # NoTime /\ fault.faultType = "latency" /\ config = fault
    BY <1>1, <1>10, FaultFields DEF Delays, Plumbing, InForce, Injector!LatencyIsActive, NoFault
  <2>2. PICK e \in Injector!Entries :
        /\ e.message = received + 1
        /\ clock + config.delay - config.jitter <= e.deadline
        /\ Releases(entries \union {e})
        /\ \A f \in (entries \union {e}) \ entries' : f.deadline <= clock
    BY <1>10 DEF Delays
  <2> DEFINE E == entries \union {e}
  <2>3. \A f \in E :
            /\ f.message \in Nat \ {0} /\ f.deadline \in Nat
            /\ StampOf(f.message) + fault.delay - fault.jitter <= f.deadline
            /\ appliedAt <= StampOf(f.message)
    <3>1. appliedAt <= clock /\ e.deadline \in Nat
      BY <1>1, <2>1 DEF Plumbing, InForce, Injector!Entries
    <3>2. /\ StampOf(e.message) = clock
          /\ StampOf(e.message) + fault.delay - fault.jitter <= e.deadline
          /\ appliedAt <= StampOf(e.message)
      BY <1>5, <2>1, <2>2, <3>1
    <3>3. \A f \in entries :
            /\ f.message \in Nat \ {0} /\ f.deadline \in Nat
            /\ StampOf(f.message) + fault.delay - fault.jitter <= f.deadline
            /\ appliedAt <= StampOf(f.message)
      BY <1>1, <1>3, <1>6 DEF Ordered, Plumbing, Lined, Injector!Entries
    <3> QED
      BY <1>3, <2>2, <3>1, <3>2, <3>3
  <2>4. entries' = E /\ Sends({}, 0)
    <3>1. Releases(E) /\ \A f \in E \ entries' : f.deadline <= clock
      BY <2>2
    <3> HIDE DEF E
    <3> QED
      BY <1>1, <2>1, <2>3, <3>1, NothingReleasedYet
  <2>5. Len(faulted') = Len(faulted) /\ \A i \in 1..Len(faulted) : faulted'[i] = faulted[i]
    BY <1>1, <2>4, SentIsAppended
  <2>6. \A f \in entries' : appliedAt <= StampOf(f.message)
    BY <2>3, <2>4
  <2>7. Ordered'
    BY <1>1, <1>2, <1>3, <1>4, <1>6, <1>11, <2>5, <2>6 DEF Ordered
  <2> QED
    BY <1>7, <2>7
<1> QED
  BY <1>2, <1>8, <1>9, <1>10

\* Polls release nothing yet, and the fault is applied to a fresh stream.
LEMMA OnPollKeepsOrder == ASSUME IInv, InOrder, OnPoll PROVE InOrder'
<1>1. Plumbing /\ Publish /\ faulted \in Seq(Nat) /\ Len(faulted) \in Nat
  BY DEF IInv, Plumbing, Types, OnPoll
<1>2. /\ Releases(entries)
      /\ \A e \in entries \ entries' : e.deadline <= clock
      /\ UNCHANGED <<clock, trial, config, holdEnabled, held, received, watchdog>>
      /\ UNCHANGED <<fault, appliedAt, withdrawnAt, arrived, latestStamp>>
  BY <1>1, OnPollEffect DEF trial, watchdog
<1> SUFFICES ASSUME Unharmed
             PROVE  Ordered' /\ Fresh' /\ WP!Timed' /\ WP!Remembered'
  BY <1>2, TrialStays DEF InOrder, Unharmed
<1>3. Ordered /\ Fresh /\ WP!Timed /\ WP!Remembered
  BY DEF InOrder
<1>4. entries # {} => fault.faultType = "latency" /\ appliedAt # NoTime
  BY <1>1, FaultFields DEF Plumbing, Lined, InForce, Injector!LatencyIsActive, NoFault
<1>5. \A e \in entries :
        /\ e.message \in Nat \ {0} /\ e.deadline \in Nat
        /\ StampOf(e.message) + fault.delay - fault.jitter <= e.deadline
        /\ appliedAt <= StampOf(e.message)
  BY <1>1, <1>3 DEF Plumbing, Types, Lined, Injector!Entries, Ordered
<1>6. entries' = entries /\ Sends({}, 0)
  BY <1>1, <1>2, <1>4, <1>5, NothingReleasedYet
<1>7. Len(faulted') = Len(faulted) /\ \A i \in 1..Len(faulted) : faulted'[i] = faulted[i]
  BY <1>1, <1>6, SentIsAppended
<1>8. Ordered'
  BY <1>2, <1>3, <1>6, <1>7 DEF Ordered, StampOf
<1> QED
  BY <1>2, <1>3, <1>8, WatchdogStays DEF Fresh

LEMMA ApplyFaultKeepsOrder == ASSUME IInv, InOrder, ApplyFault PROVE InOrder'
<1> USE Parameters, BoundsAssumption
<1>1. Plumbing /\ faulted \in Seq(Nat) /\ Len(faulted) \in Nat
  BY DEF IInv, Plumbing, Types
<1>2. /\ fault # NoFault /\ appliedAt = NoTime /\ FaultFrom <= clock
      /\ appliedAt' = clock /\ withdrawnAt' = withdrawnAt /\ ApplyConfig(fault) /\ Publish
  BY DEF ApplyFault, ApplyConfig
<1>3. config = NoFault /\ entries = {} /\ ~holdEnabled /\ held = 0 /\ latest = received
  BY <1>1, <1>2 DEF Plumbing, InForce, Lined, Holds, Injector!LatencyIsActive,
     Injector!StaleIsActive, NoFault
<1>4. /\ entries' = {} /\ Releases(entries)
      /\ holdEnabled' = Injector!StaleIsActive(fault)
      /\ held' = Injector!HeldOnSwitch(Injector!StaleIsActive(fault))
      /\ UNCHANGED <<clock, fault, received, watchdog>>
      /\ UNCHANGED <<arrived, latestStamp>>
  BY <1>1, <1>2, <1>3, ConfigureEffect DEF watchdog
<1>5. Len(faulted') = Len(faulted) /\ \A i \in 1..Len(faulted) : faulted'[i] = faulted[i]
  <2>1. {StampOf(e.message) : e \in entries \ entries'} = {} /\ Cardinality(entries \ entries') = 0
    BY <1>3, FS_EmptySet
  <2>2. Sends({}, 0)
    BY <1>4, <2>1 DEF Releases
  <2> QED
    BY <1>1, <1>2, <2>2, SentIsAppended
<1>6. /\ Ordered /\ WP!Timed /\ WP!Remembered
      /\ Accounted /\ OnTime
  BY <1>2 DEF InOrder, Unharmed, IInv, Calm
<1>7. /\ arrived \in Nat /\ received \in Nat /\ clock \in Nat /\ clock # 0
      /\ arrived + Len(faulted) = received
  <2>1. Cardinality(entries) = 0
    BY <1>3, FS_EmptySet
  <2> QED
    BY <1>1, <1>2, <1>6, <2>1 DEF Accounted, Plumbing, Types, WP!IInv, WP!TypeOK
<1>8. held' \in 0..received
  BY <1>3, <1>4, <1>7 DEF Injector!HeldOnSwitch
<1>9. Ordered'
  BY <1>1, <1>4, <1>5, <1>6, <1>7, <1>8 DEF Ordered, StampOf
<1>10. Detectable => Fresh'
  <2>1. Detectable => Lateness = 0
    BY <1>1, DetectableIsNotTolerated
  <2>2. latestStamp \in Int
    BY <1>1 DEF Plumbing, WP!IInv, WP!TypeOK, WP!Times, WP!NoTime
  <2> QED
    BY <1>2, <1>4, <1>6, <1>7, <2>1, <2>2 DEF OnTime, Fresh
<1>11. Unharmed' => Detectable
  BY <1>2, <1>4, <1>7, TrialStays DEF Unharmed, NoTime
<1> QED
  BY <1>4, <1>6, <1>9, <1>10, <1>11, WatchdogStays DEF InOrder

LEMMA OnFaultedKeepsOrder == ASSUME IInv, InOrder, OnFaulted PROVE InOrder'
<1> DEFINE stamp == Head(faulted)
           last == Len(faulted)
<1> USE Parameters
<1>1. Plumbing /\ faulted \in Seq(Nat) /\ WP!IInv
  BY DEF IInv, Plumbing, Types
<1>2. /\ faulted # <<>> /\ faulted' = Tail(faulted)
      /\ Watchdog!RecordArrival(stamp)
      /\ UNCHANGED <<fault, appliedAt, withdrawnAt, entries, holdEnabled, held, received>>
  BY DEF OnFaulted, trial, injector
<1>3. /\ clock' = clock /\ arrived' = arrived + 1
      /\ latestStamp' = IF stamp > latestStamp THEN stamp ELSE latestStamp
      /\ clock \in Nat /\ received \in Nat /\ arrived \in Nat /\ latestStamp \in Int
  BY <1>1, <1>2 DEF Watchdog!RecordArrival, Watchdog!LatestAfter, Plumbing, Types, WP!IInv,
     WP!TypeOK, WP!Times, WP!NoTime
<1>4. /\ last \in Nat \ {0} /\ stamp = faulted[1] /\ stamp \in Nat
      /\ Len(faulted') = last - 1
      /\ \A i \in 1..last - 1 : faulted'[i] = faulted[i + 1]
  <2>1. last \in Nat /\ last # 0 /\ stamp = faulted[1] /\ stamp \in Nat
    BY <1>1, <1>2, EmptySeq
  <2>2. Len(faulted') = last - 1 /\ \A i \in 1..Len(faulted') : faulted'[i] = faulted[i + 1]
    BY <1>1, <1>2, HeadTailProperties
  <2> QED
    BY <2>1, <2>2
<1> SUFFICES ASSUME Unharmed
             PROVE  Ordered' /\ Fresh' /\ WP!Timed' /\ WP!Remembered'
  BY <1>2, <1>3, TrialStays DEF InOrder, Unharmed
<1>5. /\ last <= 1 /\ (clock = received * Period => last = 0)
      /\ arrived + last <= received
      /\ arrived # 0 => latestStamp <= StampOf(arrived)
      /\ \A i \in 1..last : faulted[i] <= StampOf(arrived + i)
      /\ holdEnabled => held <= arrived + last + 1
      /\ \A e \in entries : appliedAt <= StampOf(e.message)
      /\ Fresh /\ WP!Timed /\ WP!Remembered
  BY DEF InOrder, Ordered
<1> HIDE DEF last
<1>6. latestStamp' <= StampOf(arrived + 1)
  <2>1. stamp <= StampOf(arrived + 1)
    BY <1>4, <1>5
  <2>2. StampOf(arrived + 1) \in Nat
    BY <1>3, StampType
  <2>3. CASE arrived = 0
    <3>1. latestStamp <= 0
      BY <1>1, <2>3 DEF Plumbing, Met, WP!IInv, WP!TimesSetTogether, WP!NoTime, NoTime
    <3> QED
      BY <1>3, <1>4, <2>1, <2>2, <3>1
  <2>4. CASE arrived # 0
    <3>1. StampOf(arrived + 1) = StampOf(arrived) + Period /\ StampOf(arrived) \in Nat
      BY <1>3, <2>4, StampType DEF StampOf
    <3> QED
      BY <1>3, <1>4, <1>5, <2>1, <2>4, <3>1
  <2> QED
    BY <2>3, <2>4
<1>7. ASSUME NEW i \in 1..last - 1 PROVE faulted'[i] <= StampOf((arrived + 1) + i)
  <2>1. last \in Nat /\ arrived \in Nat
    BY <1>3, <1>4
  <2>2. i + 1 \in 1..last
    BY <2>1
  <2>3. arrived + (i + 1) = (arrived + 1) + i
    BY <2>1
  <2>4. faulted[i + 1] <= StampOf(arrived + (i + 1))
    BY <1>5, <2>2
  <2> QED
    BY <1>4, <2>3, <2>4
<1>8. Ordered'
  <2>1. /\ arrived' + Len(faulted') <= received'
        /\ holdEnabled' => held' <= arrived' + Len(faulted') + 1
    BY <1>1, <1>2, <1>3, <1>4, <1>5 DEF Plumbing, Holds
  <2> QED
    BY <1>2, <1>3, <1>4, <1>5, <1>6, <1>7, <2>1 DEF Ordered, StampOf
<1>9. Fresh'
  BY <1>1, <1>2, <1>3, <1>4, <1>5 DEF Fresh, Plumbing, Types, Times
<1>10. WP!Timed' /\ WP!Remembered'
  <2>1. WP!StampOf(arrived + 1) <= clock
    <3>1. arrived + 1 \in 1..received
      BY <1>3, <1>4, <1>5
    <3> QED
      BY <1>1, <3>1, StampsPast DEF StampOf, WP!StampOf
  <2>2. WP!RecordArrival(stamp)
    BY <1>2, SameWatchdog
  <2>3. (firstArrival = WP!NoTime => arrived = 0) /\ firstArrival <= clock
    BY <1>1 DEF Plumbing, Met, WP!NoTime, NoTime
  <2> HIDE DEF stamp
  <2> QED
    BY <1>1, <1>4, <1>5, <2>1, <2>2, <2>3, WP!ArrivalKeepsCount
<1> QED
  BY <1>8, <1>9, <1>10

\* Nothing is overwritten where there is never more than one in flight.
LEMMA OverwriteKeepsOrder == ASSUME IInv, InOrder, Overwrite PROVE InOrder'
<1>1. faulted \in Seq(Nat)
  BY DEF IInv, Plumbing, Types
<1>2. ~Unharmed
  <2>1. Len(faulted) \in Nat /\ Len(faulted) > Depth
    BY <1>1, OldestIsLost
  <2> QED
    BY <2>1, DepthAssumption DEF InOrder, Ordered
<1>3. UNCHANGED <<fault, appliedAt, withdrawnAt, clock>>
  BY DEF Overwrite, trial
<1> QED
  BY <1>2, <1>3, TrialStays DEF InOrder, Unharmed

LEMMA OnCheckKeepsOrder == ASSUME IInv, InOrder, OnCheck PROVE InOrder'
<1>1. /\ Plumbing /\ WP!IInv /\ WP!Check
      /\ UNCHANGED <<fault, appliedAt, withdrawnAt, faulted, received, entries, holdEnabled, held>>
  BY SameWatchdog DEF IInv, Plumbing, OnCheck, trial, injector
<1>2. UNCHANGED <<clock, arrived, latestStamp>>
  BY <1>1, CheckDecides
<1>3. Unharmed' => Unharmed
  BY <1>1, <1>2, TrialStays DEF Unharmed
<1>4. Ordered => Ordered'
  BY <1>1, <1>2 DEF Ordered, StampOf
<1>5. Fresh => Fresh'
  BY <1>1, <1>2 DEF Fresh
<1>6. WP!Timed /\ WP!Remembered => WP!Timed' /\ WP!Remembered'
  BY <1>1, WP!CheckKeepsCount, Parameters
<1> QED
  BY <1>3, <1>4, <1>5, <1>6 DEF InOrder

LEMMA ElapseKeepsOrder == ASSUME IInv, InOrder, Elapse PROVE InOrder'
<1>1. /\ clock' = clock + 1 /\ clock \in Nat /\ appliedAt \in Times
      /\ UNCHANGED <<fault, appliedAt, withdrawnAt, faulted, received, entries, holdEnabled, held,
                     arrived, latestStamp>>
      /\ UNCHANGED WP!evaluator /\ WP!IInv
  BY DEF Elapse, trial, injector, watchdog, IInv, Plumbing, Types, WP!evaluator
<1>2. Unharmed' => Unharmed
  BY <1>1, TrialStays, Parameters DEF Unharmed, Times
<1>3. Ordered => Ordered'
  <2>1. Len(faulted') = 0
    BY DEF Elapse
  <2> QED
    BY <1>1, <2>1 DEF Ordered, StampOf
<1>4. Fresh => Fresh'
  BY <1>1 DEF Fresh
<1>5. WP!Timed /\ WP!Remembered => WP!Timed' /\ WP!Remembered'
  BY <1>1, WP!TickKeepsCount, Parameters
<1> QED
  BY <1>2, <1>3, <1>4, <1>5 DEF InOrder

LEMMA OrderKeeps == IInv /\ InOrder /\ [Next]_vars => InOrder'
<1> SUFFICES ASSUME IInv, InOrder, [Next]_vars PROVE InOrder'
  OBVIOUS
<1>1. CASE WithdrawFault
  <2>1. withdrawnAt' \in Nat /\ appliedAt' # NoTime
    BY <1>1 DEF WithdrawFault, IInv, Plumbing, Types
  <2> QED
    BY <2>1 DEF InOrder, Unharmed, NoTime
<1>2. CASE OnSample \/ OnCommand \/ LoseCommand \/ UNCHANGED vars
  <2>1. UNCHANGED <<clock, trial, faulted, received, entries, holdEnabled, held, watchdog>>
    BY <1>2 DEF OnSample, OnCommand, LoseCommand, vars, injector
  <2> QED
    BY <2>1, InOrderStays
<1> QED
  BY <1>1, <1>2, OnRawKeepsOrder, OnPollKeepsOrder, ApplyFaultKeepsOrder,
     OnFaultedKeepsOrder, OverwriteKeepsOrder, OnCheckKeepsOrder, ElapseKeepsOrder DEF Next

\* What a check complains of while the fault hides the robot, if anything.
LEMMA ReasonWhileHidden ==
    ASSUME IInv, InOrder, Detectable, Watchdog!Tolerates(MaxAge - Period),
           appliedAt # NoTime, withdrawnAt = NoTime \/ withdrawnAt > DetectionTime, ~latched,
           lastArrival # NoTime
    PROVE  \/ WP!Findings \ {WP!NoReason} = {}
           \/ WP!TooOld /\ clock > appliedAt
<1> USE Parameters
<1>1. /\ Plumbing /\ WP!IInv
      /\ clock \in Nat /\ appliedAt \in Nat /\ withdrawnAt \in Times /\ arrived \in Nat
      /\ appliedAt <= clock
      /\ latestStamp \in Nat /\ firstArrival \in Nat
      /\ arrived # 0 /\ firstArrival <= clock
  BY DEF IInv, Plumbing, Types, Times, InForce, Met, WP!IInv, WP!TypeOK, WP!TimesSetTogether,
     WP!Times, WP!NoTime, NoTime
<1>2. withdrawnAt = NoTime /\ clock <= DetectionTime
  <2>1. withdrawnAt # NoTime => withdrawnAt <= clock
    BY <1>1 DEF Plumbing, InForce
  <2>2. ~(clock > DetectionTime)
    BY DEF IInv, Detected
  <2>3. DetectionTime \in Nat
    BY <1>1 DEF DetectionTime
  <2> QED
    BY <1>1, <2>1, <2>2, <2>3 DEF Times
<1>3. Old(latestStamp)
  BY <1>2 DEF IInv, Hidden
<1>4. CASE clock = DetectionTime
  BY <1>1, <1>3, <1>4 DEF Old, DetectionTime, WP!TooOld
<1>5. CASE clock # DetectionTime
  <2>1. Unharmed
    BY <1>1, <1>2, <1>5 DEF Unharmed, DetectionTime
  <2>2. /\ latestStamp <= StampOf(arrived) /\ appliedAt <= latestStamp + Period
        /\ WP!Timed /\ WP!Remembered
    BY <1>1, <2>1 DEF InOrder, Ordered, Fresh
  <2>3. Period <= MaxAge /\ WP!Tolerates(MaxAge - Period) /\ MaxAge - Period \in Nat
    <3>1. Period <= MaxAge
      BY DEF WP!Tolerates
    <3> QED
      BY <3>1, SameWatchdog
  <2>4. CASE WP!TooOld
    BY <1>1, <2>2, <2>3, <2>4 DEF WP!TooOld
  <2>5. CASE ~WP!TooOld
    <3>1. clock <= arrived * Period + (MaxAge - Period)
      <4>1. StampOf(arrived) = arrived * Period - Period /\ arrived * Period \in Nat
        BY <1>1 DEF StampOf
      <4>2. clock - latestStamp <= MaxAge
        BY <1>1, <2>5 DEF WP!TooOld
      <4> QED
        BY <1>1, <2>2, <2>3, <4>1, <4>2
    <3>2. WP!Prompt(MaxAge - Period)
      BY <1>1, <3>1 DEF WP!Prompt, WP!NoTime
    <3>3. ~WP!MayBeTooSparse
      BY <1>1, <2>2, <2>3, <3>2, WP!NeverSparse
    <3> QED
      BY <2>5, <3>3 DEF WP!Findings, WP!NoReason
  <2> QED
    BY <2>4, <2>5
<1> QED
  BY <1>2, <1>4, <1>5

LEMMA NamedKeeps == IInv /\ InOrder /\ Named /\ [Next]_vars => Named'
<1> SUFFICES ASSUME IInv, InOrder, Named, [Next]_vars PROVE Named'
  OBVIOUS
<1>1. clock \in Nat /\ appliedAt \in Times /\ withdrawnAt \in Times /\ MaxAge \in Nat
  BY Parameters DEF IInv, Plumbing, Types
<1>2. CASE OnCheck
  <2>1. /\ WP!Check /\ UNCHANGED <<fault, appliedAt, withdrawnAt>> /\ WP!IInv
    BY <1>2, SameWatchdog DEF OnCheck, trial, IInv, Plumbing
  <2>2. UNCHANGED clock
    BY <2>1, CheckDecides
  <2> SUFFICES ASSUME Detectable, Watchdog!Tolerates(MaxAge - Period), appliedAt # NoTime,
                      withdrawnAt = NoTime \/ withdrawnAt > DetectionTime, latched'
               PROVE  latchedReason' = "message_age_exceeded" /\ clock > appliedAt
    BY <2>1, <2>2, TrialStays DEF Named, DetectionTime, Watchdog!Tolerates
  <2>3. CASE latched
    <3>1. latchedReason' = latchedReason
      BY <2>1, <2>3 DEF WP!Check, WP!Latch, WP!Verdict, WP!SilentVerdict
    <3> QED
      BY <2>3, <3>1 DEF Named
  <2>4. CASE ~latched
    <3>1. lastArrival # NoTime /\ latchedReason' \in WP!Findings \ {WP!NoReason}
      BY <2>1, <2>4, CheckDecides
    <3>2. WP!TooOld /\ clock > appliedAt
      BY <2>4, <3>1, ReasonWhileHidden
    <3> QED
      BY <3>1, <3>2 DEF WP!Findings
  <2> QED
    BY <2>3, <2>4
<1>3. CASE ApplyFault
  <2>1. ~latched /\ latched' = latched
    BY <1>3 DEF ApplyFault, ApplyConfig, watchdog, IInv, Calm, Quiet
  <2> QED
    BY <2>1 DEF Named
<1>4. CASE WithdrawFault
  <2>1. /\ withdrawnAt = NoTime
        /\ UNCHANGED <<clock, fault, appliedAt, latched, latchedReason>>
    BY <1>4 DEF WithdrawFault, ApplyConfig, watchdog
  <2> QED
    BY <2>1, TrialStays DEF Named, DetectionTime, Watchdog!Tolerates
<1>5. CASE Elapse
  <2>1. clock' = clock + 1 /\ UNCHANGED <<fault, appliedAt, withdrawnAt, latched, latchedReason>>
    BY <1>5 DEF Elapse, trial, watchdog
  <2> SUFFICES ASSUME Detectable, Watchdog!Tolerates(MaxAge - Period), appliedAt # NoTime,
                      withdrawnAt = NoTime \/ withdrawnAt > DetectionTime, latched
               PROVE  latchedReason = "message_age_exceeded" /\ clock + 1 > appliedAt
    BY <2>1, TrialStays DEF Named, DetectionTime, Watchdog!Tolerates
  <2> QED
    BY <1>1 DEF Named, Times
<1>6. CASE \/ OnSample \/ OnCommand \/ LoseCommand \/ OnRaw \/ OnPoll \/ OnFaulted
           \/ Overwrite \/ UNCHANGED vars
  <2>1. UNCHANGED <<clock, fault, appliedAt, withdrawnAt, latched, latchedReason>>
    BY <1>6 DEF OnSample, OnCommand, LoseCommand, OnRaw, OnPoll, OnFaulted, Overwrite, vars, trial, watchdog,
       Watchdog!RecordArrival
  <2> QED
    BY <2>1, TrialStays DEF Named, DetectionTime, Watchdog!Tolerates
<1> QED
  BY <1>2, <1>3, <1>4, <1>5, <1>6 DEF Next

LEMMA OrderAtFirst == Init => InOrder /\ Named
<1> SUFFICES ASSUME Init PROVE InOrder /\ Named
  OBVIOUS
<1>1. /\ faulted = <<>> /\ entries = {} /\ received = 0 /\ arrived = 0 /\ appliedAt = NoTime
      /\ ~holdEnabled /\ arrivals = {}
  BY DEF Init, Injector!Init, Watchdog!Init, Injector!StaleIsActive, NoFault
<1>2. Len(faulted) = 0
  BY <1>1
<1> QED
  BY <1>1, <1>2 DEF InOrder, Named, Ordered, Fresh, WP!Timed, WP!Remembered

LEMMA LoopInvariance == Spec => [](IInv /\ InOrder /\ Named)
<1>1. Init => IInv /\ InOrder /\ Named
  BY InitEstablishes, OrderAtFirst
<1>2. (IInv /\ InOrder /\ Named) /\ [Next]_vars => (IInv /\ InOrder /\ Named)'
  BY NextKeeps, OrderKeeps, NamedKeeps
<1> QED
  BY <1>1, <1>2, PTL DEF Spec

\* The alarm about a fault that hides the robot names the age of what arrives, and
\* is raised after the fault was applied, where the loss of a few samples is not yet
\* a reason for one.
THEOREM AlarmsNameTheirCause == Spec => []Named
BY LoopInvariance, PTL

-----------------------------------------------------------------------------
(* The accounts of all messages, whatever the fault. *)

AccountedFor == arrived + Len(faulted) + dropped + Cardinality(entries)

\* Where the samples of one delay fit, none is unaccounted for, and of those that
\* were not dropped none is later than the delay: so they do fit.
Conserved ==
    /\ dropped \in Nat
    /\ AccountedFor <= received
    /\ Fits => /\ AccountedFor = received
               /\ clock # 0 => clock <= (arrived + dropped) * Period + FaultDelay

LEMMA DelayStays ==
    ASSUME fault' = fault
    PROVE  FaultDelay' = FaultDelay /\ Fits' = Fits
BY DEF FaultDelay, Fits

LEMMA DelayType ==
    ASSUME Plumbing
    PROVE  FaultDelay \in Nat
BY FaultFields DEF FaultDelay

LEMMA MoreIsLater ==
    ASSUME NEW come \in Nat, NEW gone \in Nat, NEW more \in Nat, NEW less \in Nat,
           NEW period \in Nat, NEW delay \in Nat, NEW time \in Nat,
           time <= (come + gone) * period + delay
    PROVE  time <= ((come + more) + (gone + less)) * period + delay
<1>1. ((come + more) + (gone + less)) * period = (come + gone) * period + (more + less) * period
  OBVIOUS
<1>2. (come + gone) * period \in Nat /\ (more + less) * period \in Nat
  OBVIOUS
<1> QED
  BY <1>1, <1>2

LEMMA NoMoreThan ==
    ASSUME NEW before \in Nat, NEW after \in Nat, NEW lost \in Nat, NEW new \in Nat,
           NEW all \in Nat, after + lost = before + new, before <= all
    PROVE  after <= all + new /\ (before = all /\ lost = 0 => after = all + new)
OBVIOUS

LEMMA AccountTypes ==
    ASSUME Plumbing
    PROVE  /\ clock \in Nat /\ received \in Nat /\ arrived \in Nat
           /\ faulted \in Seq(Nat) /\ Len(faulted) \in Nat
           /\ IsFiniteSet(entries) /\ Cardinality(entries) \in Nat
<1>1. faulted \in Seq(Nat) /\ IsFiniteSet(entries)
  BY DEF Plumbing, Types
<1> QED
  BY <1>1, FS_CardinalityType DEF Plumbing, Types, WP!IInv, WP!TypeOK

\* No time passes, and of what was in flight, pending or is received so many come in,
\* are dropped, are in flight or pending then, or are lost - where that may be.
LEMMA CountsAsMoved ==
    ASSUME IInv, Conserved, clock' = clock, fault' = fault,
           NEW new \in Nat, received' = received + new,
           NEW come \in Nat, arrived' = arrived + come,
           NEW drops \in Nat, dropped' = dropped + drops,
           NEW flight \in Nat, flight = Len(faulted'),
           NEW pending \in Nat, pending = Cardinality(entries'),
           NEW lost \in Nat, Fits => lost = 0,
           come + flight + drops + pending + lost
                = Len(faulted) + Cardinality(entries) + new
    PROVE  Conserved'
<1>1. /\ clock \in Nat /\ received \in Nat /\ arrived \in Nat /\ Len(faulted) \in Nat
      /\ Cardinality(entries) \in Nat /\ dropped \in Nat
      /\ FaultDelay \in Nat /\ Period \in Nat
  BY AccountTypes, DelayType, Parameters DEF IInv, Conserved
<1>2. AccountedFor \in Nat /\ AccountedFor <= received /\ (Fits => AccountedFor = received)
  <2>1. AccountedFor \in Nat
    BY <1>1 DEF AccountedFor
  <2> QED
    BY <2>1 DEF Conserved
<1> DEFINE after == (arrived + come) + flight + (dropped + drops) + pending
           done == arrived + dropped
           before == Len(faulted) + Cardinality(entries)
           now == come + flight + drops + pending
<1>3. after \in Nat /\ after + lost = AccountedFor + new
  <2>1. AccountedFor = done + before /\ done \in Nat /\ before \in Nat
    BY <1>1 DEF AccountedFor
  <2>2. after = done + now /\ now \in Nat /\ now + lost = before + new
    BY <1>1
  <2> HIDE DEF after, done, before, now
  <2> QED
    BY <2>1, <2>2
<1>4. AccountedFor' <= received' /\ (Fits => AccountedFor' = received')
  <2>1. AccountedFor' = after
    BY DEF AccountedFor
  <2> HIDE DEF after
  <2>2. after <= received + new /\ (Fits => after = received + new)
    BY <1>1, <1>2, <1>3, NoMoreThan
  <2> QED
    BY <2>1, <2>2
<1>5. ASSUME Fits, clock # 0
      PROVE  clock <= (arrived' + dropped') * Period + FaultDelay
  <2>1. clock <= (arrived + dropped) * Period + FaultDelay
    BY <1>5 DEF Conserved
  <2>2. clock <= ((arrived + come) + (dropped + drops)) * Period + FaultDelay
    BY <1>1, <2>1, MoreIsLater
  <2> QED
    BY <2>2
<1>6. dropped' \in Nat
  BY <1>1
<1> QED
  BY <1>4, <1>5, <1>6, DelayStays DEF Conserved

\* What a release takes from the entries it puts in flight.
LEMMA ReleasedAreSent ==
    ASSUME faulted \in Seq(Nat), NEW E, IsFiniteSet(E), Releases(E)
    PROVE  /\ Cardinality(E) \in Nat /\ Cardinality(entries') \in Nat /\ Len(faulted) \in Nat
           /\ Len(faulted') + Cardinality(entries') = Len(faulted) + Cardinality(E)
<1>1. entries' \in SUBSET E /\ IsFiniteSet(entries')
  BY FS_Subset DEF Releases
<1>2. /\ Cardinality(E) \in Nat /\ Cardinality(entries') \in Nat
      /\ Cardinality(E \ entries') = Cardinality(E) - Cardinality(entries')
  <2>1. E \cap entries' = entries'
    BY <1>1
  <2> QED
    BY <1>1, <2>1, FS_Difference, FS_CardinalityType
<1>3. Len(faulted') = Len(faulted) + Cardinality(E \ entries') /\ Len(faulted) \in Nat
  BY DEF Releases, Sends
<1> QED
  BY <1>2, <1>3

\* A sample that is received is sent, dropped or queued.
LEMMA OnRawConserves == ASSUME IInv, Conserved, OnRaw PROVE Conserved'
<1>1. /\ received' = received + 1 /\ arrived' = arrived /\ clock' = clock /\ fault' = fault
      /\ Forwards \/ Drops \/ Delays
  BY OnRawEffect DEF IInv, watchdog, trial
<1>2. /\ received \in Nat /\ arrived \in Nat /\ faulted \in Seq(Nat) /\ Len(faulted) \in Nat
      /\ Cardinality(entries) \in Nat /\ dropped \in Nat
  BY AccountTypes DEF IInv, Conserved
<1>3. received' = received + 1 /\ arrived' = arrived + 0
  BY <1>1, <1>2
<1>4. CASE Forwards
  <2>1. /\ dropped' = dropped + 0 /\ Len(faulted') = Len(faulted) + 1
        /\ Len(faulted') \in Nat /\ Cardinality(entries') = Cardinality(entries)
    BY <1>2, <1>4 DEF Forwards, Sends
  <2>2. 0 + Len(faulted') + 0 + Cardinality(entries') + 0
            = Len(faulted) + Cardinality(entries) + 1
    BY <1>2, <2>1
  <2> QED
    BY <1>1, <1>2, <1>3, <2>1, <2>2, CountsAsMoved
<1>5. CASE Drops
  <2>1. /\ dropped' = dropped + 1 /\ Len(faulted') = Len(faulted)
        /\ Len(faulted') \in Nat /\ Cardinality(entries') = Cardinality(entries)
    BY <1>2, <1>5 DEF Drops, Sends
  <2>2. 0 + Len(faulted') + 1 + Cardinality(entries') + 0
            = Len(faulted) + Cardinality(entries) + 1
    BY <1>2, <2>1
  <2> QED
    BY <1>1, <1>2, <1>3, <2>1, <2>2, CountsAsMoved
<1>6. CASE Delays
  <2>1. PICK E : Releases(E) /\ IsFiniteSet(E) /\ Cardinality(E) = Cardinality(entries) + 1
    BY <1>6, DelayedArrival DEF IInv
  <2>2. /\ dropped' = dropped + 0 /\ Len(faulted') \in Nat /\ Cardinality(entries') \in Nat
        /\ Len(faulted') + Cardinality(entries') = Len(faulted) + (Cardinality(entries) + 1)
    <3>1. dropped' = dropped + 0
      BY <1>2, <1>6 DEF Delays
    <3>2. Len(faulted') \in Nat
      BY <2>1 DEF Releases, Sends
    <3> QED
      BY <1>2, <2>1, <3>1, <3>2, ReleasedAreSent
  <2>3. 0 + Len(faulted') + 0 + Cardinality(entries') + 0
            = Len(faulted) + Cardinality(entries) + 1
    BY <1>2, <2>2
  <2> QED
    BY <1>1, <1>3, <2>2, <2>3, CountsAsMoved
<1> QED
  BY <1>1, <1>4, <1>5, <1>6

\* A poll and a change of the configuration send what they take from the queue.
LEMMA ReleaseConserves ==
    ASSUME IInv, Conserved, Releases(entries), clock' = clock, fault' = fault,
           UNCHANGED <<received, arrived, dropped>>
    PROVE  Conserved'
<1>1. /\ received \in Nat /\ arrived \in Nat /\ faulted \in Seq(Nat) /\ IsFiniteSet(entries)
      /\ dropped \in Nat
  BY AccountTypes DEF IInv, Conserved
<1>2. /\ Len(faulted) \in Nat /\ Cardinality(entries) \in Nat
      /\ Len(faulted') \in Nat /\ Cardinality(entries') \in Nat
      /\ Len(faulted') + Cardinality(entries') = Len(faulted) + Cardinality(entries)
  <2>1. Len(faulted') \in Nat
    BY DEF Releases, Sends
  <2> QED
    BY <1>1, <2>1, ReleasedAreSent
<1>3. /\ received' = received + 0 /\ arrived' = arrived + 0 /\ dropped' = dropped + 0
      /\ 0 + Len(faulted') + 0 + Cardinality(entries') + 0
            = Len(faulted) + Cardinality(entries) + 0
  BY <1>1, <1>2
<1> QED
  BY <1>2, <1>3, CountsAsMoved

LEMMA OnPollConserves == ASSUME IInv, Conserved, OnPoll PROVE Conserved'
<1>1. /\ Releases(entries) /\ clock' = clock /\ fault' = fault
      /\ UNCHANGED <<received, arrived, dropped>>
  BY OnPollEffect DEF IInv, watchdog, trial
<1> QED
  BY <1>1, ReleaseConserves

\* The fault is put in force where there is none, or gives way to none.
LEMMA ConfiguresFault ==
    ASSUME IInv, ApplyFault \/ WithdrawFault
    PROVE  \E c : ApplyConfig(c) /\ (config = NoFault \/ c = NoFault)
<1>1. CASE ApplyFault
  <2>1. config = NoFault
    BY <1>1 DEF ApplyFault, IInv, Plumbing, InForce
  <2> QED
    BY <1>1, <2>1 DEF ApplyFault
<1>2. CASE WithdrawFault
  BY <1>2 DEF WithdrawFault
<1> QED
  BY <1>1, <1>2

LEMMA ConfigureConserves ==
    ASSUME IInv, Conserved, ApplyFault \/ WithdrawFault
    PROVE  Conserved'
<1>1. PICK c : ApplyConfig(c) /\ (config = NoFault \/ c = NoFault)
  BY ConfiguresFault
<1>2. /\ Releases(entries) /\ clock' = clock /\ fault' = fault
      /\ UNCHANGED <<received, arrived, dropped>>
  BY <1>1, ConfigureEffect DEF IInv, watchdog
<1> QED
  BY <1>2, ReleaseConserves

LEMMA OnFaultedConserves == ASSUME IInv, Conserved, OnFaulted PROVE Conserved'
<1>1. /\ received \in Nat /\ arrived \in Nat /\ faulted \in Seq(Nat) /\ Len(faulted) \in Nat
      /\ Cardinality(entries) \in Nat /\ dropped \in Nat
  BY AccountTypes DEF IInv, Conserved
<1>2. /\ faulted # <<>> /\ faulted' = Tail(faulted) /\ arrived' = arrived + 1
      /\ UNCHANGED <<received, dropped, entries, clock, fault>>
  BY DEF OnFaulted, Watchdog!RecordArrival, injector, trial
<1>3. Len(faulted') = Len(faulted) - 1 /\ Len(faulted) # 0
  BY <1>1, <1>2, HeadTailProperties, EmptySeq
<1>4. /\ received' = received + 0 /\ dropped' = dropped + 0
      /\ Len(faulted') \in Nat /\ Cardinality(entries') = Cardinality(entries)
      /\ 1 + Len(faulted') + 0 + Cardinality(entries') + 0
            = Len(faulted) + Cardinality(entries) + 0
  BY <1>1, <1>2, <1>3
<1> QED
  BY <1>1, <1>2, <1>4, CountsAsMoved

\* Where the samples of one delay fit, no more are ever on their way.
LEMMA FitsTheHistory ==
    ASSUME IInv, Conserved, Fits
    PROVE  Len(faulted) <= Depth
<1> USE Parameters, DepthAssumption
<1>1. /\ clock \in Nat /\ received \in Nat /\ arrived \in Nat /\ dropped \in Nat
      /\ Len(faulted) \in Nat /\ Cardinality(entries) \in Nat
      /\ FaultDelay \in Nat /\ FaultDelay < Depth * Period
  BY AccountTypes, DelayType DEF IInv, Conserved, Fits
<1> DEFINE come == arrived + dropped
<1>2. come \in Nat /\ come + Len(faulted) <= received
  BY <1>1 DEF Conserved, AccountedFor
<1>3. received * Period <= clock + Period
  BY ReceivedByNow DEF IInv
<1>4. clock <= come * Period + FaultDelay
  <2>1. come * Period \in Nat
    BY <1>2
  <2> QED
    BY <1>1, <2>1 DEF Conserved
<1> HIDE DEF come
<1>5. (come + Len(faulted)) * Period <= received * Period
  BY <1>1, <1>2
<1>6. (come + Len(faulted)) * Period = come * Period + Len(faulted) * Period
  BY <1>1, <1>2
<1>7. come * Period \in Nat /\ Len(faulted) * Period \in Nat /\ received * Period \in Nat
  BY <1>1, <1>2
<1>8. Len(faulted) * Period <= Period + FaultDelay
  BY <1>1, <1>3, <1>4, <1>5, <1>6, <1>7
<1> QED
  BY <1>1, <1>8, RoomForDelay

LEMMA OverwriteConserves == ASSUME IInv, Conserved, Overwrite PROVE Conserved'
<1>1. /\ received \in Nat /\ arrived \in Nat /\ faulted \in Seq(Nat) /\ Len(faulted) \in Nat
      /\ Cardinality(entries) \in Nat /\ dropped \in Nat
  BY AccountTypes DEF IInv, Conserved
<1>2. UNCHANGED <<clock, fault, received, arrived, dropped, entries>>
  BY DEF Overwrite, trial, injector, watchdog
<1>3. Len(faulted) > Depth /\ Len(faulted') = Len(faulted) - 1 /\ Depth \in Nat
  BY <1>1, OldestIsLost, DepthAssumption
<1>4. Fits => FALSE
  BY <1>1, <1>3, FitsTheHistory
<1>5. /\ received' = received + 0 /\ dropped' = dropped + 0 /\ arrived' = arrived + 0
      /\ Len(faulted') \in Nat /\ Cardinality(entries') = Cardinality(entries)
      /\ 0 + Len(faulted') + 0 + Cardinality(entries') + 1
            = Len(faulted) + Cardinality(entries) + 0
  BY <1>1, <1>2, <1>3
<1> QED
  BY <1>1, <1>2, <1>4, <1>5, CountsAsMoved

\* When a tick ends, what is pending is not late and all else has arrived or was
\* dropped.
LEMMA ElapseConserves == ASSUME IInv, Conserved, Elapse PROVE Conserved'
<1> USE Parameters
<1>1. /\ clock' = clock + 1 /\ Len(faulted) = 0
      /\ UNCHANGED <<fault, received, arrived, dropped, entries, faulted>>
  BY DEF Elapse, trial, injector, watchdog
<1>2. /\ clock \in Nat /\ received \in Nat /\ arrived \in Nat /\ dropped \in Nat
      /\ IsFiniteSet(entries) /\ Cardinality(entries) \in Nat /\ FaultDelay \in Nat
      /\ clock + 1 <= received * Period
  BY TickIsOver, AccountTypes, DelayType DEF IInv, Conserved
<1> DEFINE come == arrived + dropped
<1> SUFFICES ASSUME Fits, come * Period + FaultDelay <= clock PROVE FALSE
  <2>1. AccountedFor' = AccountedFor
    BY <1>1 DEF AccountedFor
  <2>2. come \in Nat /\ come * Period \in Nat /\ come' = come
    BY <1>1, <1>2
  <2> HIDE DEF come
  <2>3. Fits => clock + 1 <= come * Period + FaultDelay
    BY <1>2, <2>2
  <2> QED
    BY <1>1, <2>1, <2>2, <2>3, DelayStays DEF Conserved, come
<1>3. come \in Nat /\ come + Cardinality(entries) = received
  BY <1>1, <1>2 DEF Conserved, AccountedFor
<1> HIDE DEF come
<1>4. ASSUME NEW e \in entries PROVE e.message \in (come + 2)..received
  <2>1. /\ e.message \in 1..received /\ clock < e.deadline /\ e.deadline \in Nat
        /\ e.deadline <= StampOf(e.message) + fault.delay + fault.jitter
        /\ config = fault /\ Injector!LatencyIsActive(config)
    BY FaultFields DEF Elapse, IInv, Plumbing, Types, Lined, Injector!Entries
  <2>2. FaultDelay = fault.delay + fault.jitter
    BY <2>1 DEF FaultDelay, Injector!LatencyIsActive
  <2>3. StampOf(e.message) = (e.message - 1) * Period /\ StampOf(e.message) \in Nat
    BY <1>2, <2>1, StampType DEF StampOf
  <2>4. clock < (e.message - 1) * Period + FaultDelay
    <3>1. fault.delay \in Nat /\ fault.jitter \in Nat
      BY FaultFields DEF IInv
    <3> QED
      BY <1>2, <2>1, <2>2, <2>3, <3>1
  <2>5. come * Period < (e.message - 1) * Period
    BY <1>2, <1>3, <2>3, <2>4
  <2>6. come < e.message - 1
    <3> SUFFICES ASSUME e.message - 1 <= come PROVE FALSE
      BY <1>3, <2>1
    <3>1. (e.message - 1) * Period <= come * Period
      BY <1>3, <2>1
    <3> QED
      BY <1>3, <2>3, <2>5, <3>1
  <2> QED
    BY <1>2, <1>3, <2>1, <2>6
<1> DEFINE f == [e \in entries |-> e.message]
           late == (come + 2)..received
<1>5. f \in Injection(entries, late)
  BY <1>4 DEF IInv, Plumbing, Lined, Injection, IsInjective
<1>6. /\ IsFiniteSet(late)
      /\ Cardinality(late) = IF come + 2 > received THEN 0 ELSE received - (come + 2) + 1
  BY <1>2, <1>3, FS_Interval
<1>7. Cardinality(entries) <= Cardinality(late)
  BY <1>5, <1>6, FS_Injection
<1> HIDE DEF late
<1>8. received = come
  BY <1>2, <1>3, <1>6, <1>7
<1> QED
  BY <1>2, <1>3, <1>8

LEMMA NextConserves == IInv /\ Conserved /\ [Next]_vars => Conserved'
<1> SUFFICES ASSUME IInv, Conserved, [Next]_vars PROVE Conserved'
  OBVIOUS
<1>1. CASE OnSample \/ OnCommand \/ LoseCommand \/ OnCheck \/ UNCHANGED vars
  <2>1. UNCHANGED <<clock, fault, received, dropped, entries, faulted, arrived>>
    BY <1>1 DEF OnSample, OnCommand, LoseCommand, OnCheck, vars, trial, injector, watchdog,
       Watchdog!Check
  <2> QED
    BY <2>1, DelayStays DEF Conserved, AccountedFor
<1> QED
  BY <1>1, OnRawConserves, OnPollConserves, ConfigureConserves, OnFaultedConserves,
     OverwriteConserves, ElapseConserves DEF Next

LEMMA ConservedAtFirst == Init => Conserved
<1> SUFFICES ASSUME Init PROVE Conserved
  OBVIOUS
<1>1. /\ faulted = <<>> /\ entries = {} /\ received = 0 /\ arrived = 0 /\ dropped = 0
      /\ clock = 0
  BY DEF Init, Injector!Init, Watchdog!Init
<1>2. Len(faulted) = 0 /\ Cardinality(entries) = 0
  BY <1>1, FS_EmptySet
<1> QED
  BY <1>1, <1>2 DEF Conserved, AccountedFor

LEMMA ConservedThroughout == Spec => [](IInv /\ Conserved)
<1>1. Init => IInv /\ Conserved
  BY InitEstablishes, ConservedAtFirst
<1>2. (IInv /\ Conserved) /\ [Next]_vars => (IInv /\ Conserved)'
  BY NextKeeps, NextConserves
<1> QED
  BY <1>1, <1>2, PTL DEF Spec

\* Whatever the fault, and whenever it is applied and withdrawn, no sample that the
\* injector node takes in is in two places, and where the samples of one delay fit
\* into what the watchdog's subscription keeps, each is with the watchdog, on its way
\* there, dropped or pending.
THEOREM SamplesAreConserved == Spec => []SamplesConserved
<1>1. IInv /\ Conserved => SamplesConserved
  <2>1. \A S : Injector!Cardinality(S) = Cardinality(S)
    BY Zenon DEF Injector!Cardinality, Cardinality
  <2> QED
    BY <2>1 DEF Conserved, AccountedFor, SamplesConserved, Injector!Pending
<1> QED
  BY <1>1, ConservedThroughout, PTL

-----------------------------------------------------------------------------
(* How much the queue holds. *)

\* Whatever is pending was not yet due when the newest sample was received, which
\* took with it all that was.
Undue == \A e \in entries : StampOf(received) < e.deadline

LEMMA OnRawKeepsUndue == ASSUME IInv, Undue, OnRaw PROVE Undue'
<1>1. /\ received' = received + 1 /\ clock = received * Period
      /\ Forwards \/ Drops \/ Delays
  BY OnRawEffect DEF IInv
<1>2. StampOf(received') = clock
  <2>1. received \in Nat /\ Period \in Nat
    BY AccountTypes, Parameters DEF IInv
  <2>2. (received + 1) - 1 = received
    BY <2>1
  <2> QED
    BY <1>1, <2>2 DEF StampOf
<1>3. CASE Forwards \/ Drops
  <2>1. entries' = {}
    <3>1. entries' = entries /\ ~Injector!LatencyIsActive(config)
      BY <1>3 DEF Forwards, Drops, Injector!DropoutIsActive, Injector!LatencyIsActive
    <3> QED
      BY <3>1 DEF IInv, Plumbing, Lined
  <2> QED
    BY <2>1 DEF Undue
<1>4. CASE Delays
  <2>1. \A f \in entries' : clock < f.deadline
    BY <1>4 DEF Delays
  <2> QED
    BY <1>2, <2>1 DEF Undue, StampOf
<1> QED
  BY <1>1, <1>3, <1>4

LEMMA NextKeepsUndue == IInv /\ Undue /\ [Next]_vars => Undue'
<1> SUFFICES ASSUME IInv, Undue, [Next]_vars PROVE Undue'
  OBVIOUS
<1>1. CASE entries' \subseteq entries /\ received' = received
  BY <1>1 DEF Undue, StampOf
<1>2. CASE OnPoll
  <2>1. Releases(entries) /\ received' = received
    BY <1>2, OnPollEffect DEF IInv
  <2> QED
    BY <1>1, <2>1 DEF Releases
<1>3. CASE ApplyFault \/ WithdrawFault
  <2>1. PICK c : ApplyConfig(c) /\ (config = NoFault \/ c = NoFault)
    BY <1>3, ConfiguresFault
  <2>2. entries' = {}
    BY <2>1, ConfigureEffect DEF IInv
  <2> QED
    BY <2>2 DEF Undue
<1>4. CASE \/ OnSample \/ OnCommand \/ LoseCommand \/ OnFaulted \/ Overwrite \/ OnCheck
           \/ Elapse \/ UNCHANGED vars
  BY <1>1, <1>4 DEF OnSample, OnCommand, LoseCommand, OnFaulted, Overwrite, OnCheck, Elapse, vars,
     injector
<1> QED
  BY <1>2, <1>3, <1>4, OnRawKeepsUndue DEF Next

\* The messages pending are different, and none is older than the delay.
LEMMA FewPending ==
    ASSUME IInv, Undue
    PROVE  (Cardinality(entries) - 1) * Period < fault.delay + fault.jitter
<1> DEFINE count == Cardinality(entries)
           delay == fault.delay + fault.jitter
           recent == (received - count + 2)..received
<1> SUFFICES ASSUME ~((count - 1) * Period < delay) PROVE FALSE
  OBVIOUS
<1>1. /\ received \in Nat /\ IsFiniteSet(entries) /\ count \in Nat
      /\ fault.delay \in Nat /\ fault.jitter \in Nat /\ delay \in Nat
      /\ Period \in Nat /\ Period > 0
  BY AccountTypes, FaultFields, Parameters DEF IInv
<1>2. ASSUME NEW e \in entries
      PROVE  e.message \in recent
  <2>1. /\ e.message \in 1..received
        /\ e.deadline <= StampOf(e.message) + fault.delay + fault.jitter
        /\ StampOf(received) < e.deadline
        /\ e.deadline \in Nat
    BY DEF IInv, Plumbing, Types, Lined, Undue, Injector!Entries
  <2>2. StampOf(received) - StampOf(e.message) = (received - e.message) * Period
    BY <1>1, <2>1 DEF StampOf
  <2>3. StampOf(e.message) \in Nat /\ StampOf(received) \in Nat
    BY <1>1, <2>1, StampType
  <2>4. (received - e.message) * Period < (count - 1) * Period
    <3>1. StampOf(received) - StampOf(e.message) < delay
      BY <1>1, <2>1, <2>3
    <3>2. delay <= (count - 1) * Period
      BY <1>1
    <3> DEFINE a == (received - e.message) * Period
               b == (count - 1) * Period
    <3>3. a \in Int /\ b \in Int
      BY <1>1, <2>1
    <3> HIDE DEF a, b, delay, count
    <3>4. a < delay
      BY <2>2, <3>1 DEF a
    <3> QED
      BY <1>1, <3>2, <3>3, <3>4 DEF a, b
  <2>5. \A i, j \in Int : i * Period < j * Period => i < j
    BY <1>1
  <2>6. received - e.message < count - 1
    <3>1. received - e.message \in Int /\ count - 1 \in Int
      BY <1>1, <2>1
    <3> QED
      BY <2>4, <2>5, <3>1
  <2> QED
    BY <1>1, <2>1, <2>6
<1>3. IsFiniteSet(recent) /\ Cardinality(recent) < count
  <2>1. count # 0
    <3> SUFFICES ASSUME count = 0 PROVE FALSE
      OBVIOUS
    <3>1. (count - 1) * Period = -Period
      BY <1>1
    <3> QED
      BY <1>1, <3>1
  <2>2. received - count + 2 \in Int /\ received \in Int
    BY <1>1
  <2>3. /\ IsFiniteSet(recent)
        /\ Cardinality(recent) = IF received - count + 2 > received THEN 0
                                 ELSE received - (received - count + 2) + 1
    BY <2>2, FS_Interval
  <2> HIDE DEF count
  <2> QED
    BY <1>1, <2>1, <2>3
<1> DEFINE place == [e \in entries |-> e.message]
<1>4. place \in [entries -> recent]
  BY <1>2
<1>5. \A e \in entries : place[e] = e.message
  OBVIOUS
<1> HIDE DEF recent, place
<1>6. PICK e, f \in entries : e # f /\ place[e] = place[f]
  BY <1>1, <1>3, <1>4, FS_PigeonHole
<1> QED
  BY <1>5, <1>6 DEF IInv, Plumbing, Lined

\* The queue holds no more than the samples of one delay, whatever the delay and its
\* jitter: what its capacity has to be is known from the scenario.
THEOREM DelayBoundsQueue == Spec => []QueueHoldsOneDelay
<1>1. Init => Undue
  BY DEF Init, Injector!Init, Undue
<1>2. (IInv /\ Undue) /\ [Next]_vars => (IInv /\ Undue)'
  BY NextKeeps, NextKeepsUndue
<1>3. IInv /\ Undue => QueueHoldsOneDelay
  <2>1. \A S : Injector!Cardinality(S) = Cardinality(S)
    BY Zenon DEF Injector!Cardinality, Cardinality
  <2> QED
    BY <2>1, FewPending DEF QueueHoldsOneDelay, Injector!Pending
<1> QED
  BY InitEstablishes, <1>1, <1>2, <1>3, PTL DEF Spec

-----------------------------------------------------------------------------
(* The loop runs its parts as they are specified: what is proved of the    *)
(* injector and of the watchdog by themselves holds of those of the loop.  *)
(* It takes the accounts to see that no bound of theirs is ever met.       *)

Bounded == clock \in Nat /\ clock <= MaxTime

LEMMA BoundedKeeps == Bounded /\ [Next]_vars => Bounded'
<1> SUFFICES ASSUME Bounded, [Next]_vars PROVE Bounded'
  OBVIOUS
<1>1. CASE Elapse
  BY <1>1, Parameters DEF Elapse, Bounded
<1>2. CASE ~Elapse
  <2>1. clock' = clock
    BY <1>2 DEF Next, OnSample, OnCommand, LoseCommand, OnRaw, OnPoll, ApplyFault,
       WithdrawFault, ApplyConfig, OnFaulted, Overwrite, OnCheck, Watchdog!RecordArrival,
       Watchdog!Check, vars
  <2> QED
    BY <2>1 DEF Bounded
<1> QED
  BY <1>1, <1>2

Running == IInv /\ Conserved /\ Bounded

\* The loop without a promise that anything ever happens.
Loop == Init /\ [][Next]_vars

LEMMA RunsThroughout == Loop => []Running
<1>1. Init => Running
  BY InitEstablishes, ConservedAtFirst, Parameters DEF Init, Watchdog!Init, Bounded, Running
<1>2. Running /\ [Next]_vars => Running'
  BY NextKeeps, NextConserves, BoundedKeeps DEF Running
<1> QED
  BY <1>1, <1>2, PTL DEF Loop

\* So much may be received and arrive at most.
LEMMA FewMessages ==
    ASSUME Running
    PROVE  /\ clock \in 0..MaxTime
           /\ raw # <<>> => received < 2 * MaxTime
           /\ faulted # <<>> => arrived < 2 * MaxTime
<1>1. /\ clock \in Nat /\ received \in Nat /\ arrived \in Nat /\ faulted \in Seq(Nat)
      /\ Len(faulted) \in Nat /\ Cardinality(entries) \in Nat /\ dropped \in Nat
      /\ clock <= MaxTime
  BY AccountTypes DEF Running, IInv, Bounded, Conserved
<1>2. MaxTime \in Nat /\ MaxTime > 0 /\ Period \in Nat /\ Period > 0
  BY Parameters, BoundsAssumption
<1>3. \A n \in Nat : n <= n * Period
  BY <1>2
<1>4. ASSUME raw # <<>> PROVE received < 2 * MaxTime
  <2>1. clock = received * Period
    BY <1>4 DEF Running, IInv, Plumbing, Sampled
  <2>2. received <= clock
    BY <1>1, <1>3, <2>1
  <2>3. received < 2 * MaxTime
    BY <1>1, <1>2, <2>2
  <2> QED
    BY <2>3
<1>5. received <= MaxTime + 1
  <2>1. CASE received # 0
    <3>1. StampOf(received) \in Nat /\ StampOf(received) <= clock
      BY <1>1, <2>1, StampsPast DEF Running, IInv
    <3>2. received - 1 <= (received - 1) * Period
      BY <1>1, <1>3, <2>1
    <3> QED
      BY <1>1, <1>2, <3>1, <3>2 DEF StampOf
  <2> QED
    BY <1>2, <2>1
<1>6. ASSUME faulted # <<>> PROVE arrived < 2 * MaxTime
  <2>1. Len(faulted) # 0
    BY <1>1, <1>6, EmptySeq
  <2>2. arrived + Len(faulted) + dropped + Cardinality(entries) <= received
    BY DEF Running, Conserved, AccountedFor
  <2>3. arrived <= MaxTime
    BY <1>1, <1>2, <1>5, <2>1, <2>2
  <2> QED
    BY <1>1, <1>2, <2>3
<1> QED
  BY <1>1, <1>2, <1>4, <1>6

LEMMA InjectorSteps == Running /\ [Next]_vars => [Injector!Next]_(Injector!vars)
<1> SUFFICES ASSUME Running, [Next]_vars,
                    ~UNCHANGED <<config, entries, nextSequence, queueTime, holdEnabled, latest,
                                 held, lastTime, received, forwarded, dropped, raised, outputs>>
             PROVE  Injector!Next
  BY DEF Injector!vars, Injector!injector, Injector!queue, Injector!hold, Injector!counters
<1>1. clock \in 0..MaxTime
  BY FewMessages
<1>2. CASE OnRaw
  <2>1. received < 2 * MaxTime /\ Injector!Receive(clock)
    BY <1>2, FewMessages DEF OnRaw
  <2> QED
    BY <1>1, <2>1 DEF Injector!Next
<1>3. CASE OnPoll
  <2>1. Injector!Poll(clock)
    BY <1>3 DEF OnPoll
  <2> QED
    BY <1>1, <2>1 DEF Injector!Next
<1>4. CASE ApplyFault \/ WithdrawFault
  <2>1. PICK c \in Faults \union {NoFault} : Injector!Configure(c, clock)
    <3>1. fault \in Faults \union {NoFault} /\ NoFault \in Faults \union {NoFault}
      BY DEF Running, IInv, Plumbing, Types
    <3> QED
      BY <1>4, <3>1 DEF ApplyFault, WithdrawFault, ApplyConfig
  <2> QED
    BY <1>1, <2>1 DEF Injector!Next
<1>5. ~(\/ OnSample \/ OnCommand \/ LoseCommand \/ OnFaulted \/ Overwrite \/ OnCheck
        \/ Elapse \/ UNCHANGED vars)
  BY DEF OnSample, OnCommand, LoseCommand, OnFaulted, Overwrite, OnCheck, Elapse, vars, injector
<1> QED
  BY <1>2, <1>3, <1>4, <1>5 DEF Next

LEMMA WatchdogSteps == Running /\ [Next]_vars => [Watchdog!Next]_(Watchdog!vars)
<1> SUFFICES ASSUME Running, [Next]_vars,
                    ~UNCHANGED <<clock, arrivals, arrived, firstArrival, lastArrival,
                                 latestStamp, latched, latchedReason, status, refused>>
             PROVE  Watchdog!Next
  BY DEF Watchdog!vars, Watchdog!evaluator
<1>1. CASE OnFaulted
  <2>1. arrived < 2 * MaxTime /\ Watchdog!RecordArrival(Head(faulted))
    BY <1>1, FewMessages DEF OnFaulted
  <2>2. Head(faulted) \in 0..MaxTime
    <3>1. faulted \in Seq(Nat) /\ faulted # <<>> /\ \A s \in InFlight : s <= clock
      BY <1>1 DEF OnFaulted, Running, IInv, Plumbing, Types, Met
    <3>2. Head(faulted) = faulted[1] /\ 1 \in 1..Len(faulted) /\ faulted[1] \in Nat
      BY <3>1, EmptySeq
    <3>3. clock \in 0..MaxTime /\ MaxTime \in Nat
      BY FewMessages, Parameters
    <3>4. faulted[1] <= clock
      BY <3>1, <3>2 DEF InFlight
    <3> QED
      BY <3>2, <3>3, <3>4
  <2> QED
    BY <2>1, <2>2 DEF Watchdog!Next
<1>2. CASE OnCheck
  BY <1>2 DEF OnCheck, Watchdog!Next
<1>3. CASE Elapse
  BY <1>3 DEF Elapse, Watchdog!Next, Watchdog!Tick, Watchdog!evaluator, watchdog
<1>4. ~(\/ OnSample \/ OnCommand \/ LoseCommand \/ OnRaw \/ OnPoll \/ ApplyFault
        \/ WithdrawFault \/ Overwrite \/ UNCHANGED vars)
  BY DEF OnSample, OnCommand, LoseCommand, OnRaw, OnPoll, ApplyFault, WithdrawFault,
     ApplyConfig, Overwrite, vars, watchdog
<1> QED
  BY <1>1, <1>2, <1>3, <1>4 DEF Next

\* The injector of the loop, called by callbacks and the runner at the times they
\* run, behaves as FaultInjector allows: its calls are in the order of their times,
\* and its queue is never at its limit.
THEOREM LoopImplementsInjector == Loop => Injector!Spec
<1>1. Init => Injector!Init
  BY DEF Init
<1> QED
  BY <1>1, InjectorSteps, RunsThroughout, PTL DEF Loop, Injector!Spec

\* The watchdog of the loop behaves as Watchdog allows, on a clock that never steps
\* back: nothing arrives from a time that has not come.
THEOREM LoopImplementsWatchdog == Loop => Watchdog!Spec
<1>1. Init => Watchdog!Init
  BY DEF Init
<1> QED
  BY <1>1, WatchdogSteps, RunsThroughout, PTL DEF Loop, Watchdog!Spec
=============================================================================
