------------------------ MODULE FaultInjectorProofs ------------------------
(***************************************************************************)
(* Theorems about FaultInjector, for every set of configurations, capacity *)
(* and bound, and about the stream downstream of it, which MCFaultInjector *)
(* records: what is sent twice, and in which order messages are sent.      *)
(*                                                                         *)
(* The inductive invariant IInv adds to the properties of interest that    *)
(* the hold is on exactly when the configuration says so and that the      *)
(* queue's sequence numbers are spent in order; the account of a delayed   *)
(* arrival needs the second, since a new entry must be new.                *)
(*                                                                         *)
(* A step does one of four things to the stream: it sends one message, the *)
(* arrival or the held sample; it releases the due part of the queue, to   *)
(* which it may have added the arrival; it switches the configuration, and *)
(* may empty the queue; or it sends nothing.                               *)
(***************************************************************************)
EXTENDS MCFaultInjector, FiniteSetTheorems, SequenceTheorems, TLAPS

HoldFollowsConfig == holdEnabled = StaleIsActive(config)

SequencesBelowNext == \A e \in entries : e.sequence < nextSequence

IInv ==
    /\ TypeOK
    /\ Conservation
    /\ PendingOnlyWhileDelaying
    /\ InnerClockNeverAhead
    /\ LatestIsNewestArrival
    /\ HoldFollowsConfig
    /\ SequencesBelowNext

Assumptions ==
    /\ Configs \subseteq FaultConfigs
    /\ InitialConfig \in FaultConfigs
    /\ MaxPending \in Nat \ {0}
    /\ MaxTime \in Nat

LEMMA AssumptionsHold == Assumptions
BY ConfigsAssumption, InitialConfigAssumption, MaxPendingAssumption,
   BoundsAssumption DEF Assumptions

-----------------------------------------------------------------------------
(* Lists taken from the queue. *)

\* The list of the messages of n entries is a sequence of n messages.
LEMMA ListType ==
    ASSUME NEW S, IsFiniteSet(S), S \subseteq Entries,
           NEW s \in [1..Cardinality(S) -> S]
    PROVE  /\ Len(s) = Cardinality(S)
           /\ Messages(s) \in Seq(Nat \ {0})
           /\ DOMAIN Messages(s) = 1..Cardinality(S)
<1>1. Cardinality(S) \in Nat
  BY FS_CardinalityType
<1>2. DOMAIN s = 1..Cardinality(S)
  OBVIOUS
<1>3. s \in Seq(S) /\ Len(s) = Cardinality(S)
  BY <1>1
<1>4. \A i \in 1..Cardinality(S) : s[i].message \in Nat \ {0}
  BY DEF Entries
<1>5. Messages(s) \in [1..Cardinality(S) -> Nat \ {0}]
  BY <1>2, <1>4 DEF Messages
<1> QED
  BY <1>1, <1>2, <1>3, <1>5 DEF Messages

\* A list as long as the set of entries it is made of, and with no entry twice,
\* leaves no entry out.
LEMMA ListIsComplete ==
    ASSUME NEW S, IsFiniteSet(S),
           NEW s \in [1..Cardinality(S) -> S],
           \A i, j \in 1..Cardinality(S) : i < j => s[i] # s[j],
           NEW e \in S
    PROVE  \E i \in DOMAIN Messages(s) : Messages(s)[i] = e.message
<1> DEFINE n == Cardinality(S)
<1>1. n \in Nat /\ IsFiniteSet(1..n) /\ Cardinality(1..n) = n
  BY FS_CardinalityType, FS_Interval
<1>2. \A i, j \in 1..n : s[i] = s[j] => i = j
  BY <1>1
<1>3. s \in Injection(1..n, S)
  BY <1>2 DEF Injection, IsInjective
<1>4. s \in Surjection(1..n, S)
  BY <1>1, <1>3, FS_Injection
<1>5. PICK i \in 1..n : s[i] = e
  BY <1>4 DEF Surjection
<1> QED
  BY <1>5 DEF Messages

\* Neither order puts an entry before itself.
LEMMA OrdersAreStrict ==
    \A e \in Entries : ~ PopsBefore(e, e) /\ ~ FlushesBefore(e, e)
BY DEF PopsBefore, FlushesBefore, Entries

\* pop_ready moves entries to the list it returns, one for one.
LEMMA PopAccounts ==
    ASSUME NEW E, IsFiniteSet(E), E \subseteq Entries, NEW now \in Nat,
           forwarded \in Nat, PopReady(E, now)
    PROVE  /\ entries' = E \ Ready(E, now)
           /\ IsFiniteSet(entries') /\ entries' \subseteq E
           /\ Cardinality(entries') <= Cardinality(E)
           /\ Cardinality(entries') \in Nat /\ Cardinality(E) \in Nat
           /\ forwarded' \in Nat /\ forwarded <= forwarded'
           /\ forwarded' + Cardinality(entries') = forwarded + Cardinality(E)
           /\ queueTime' = now
           /\ raised' = "nothing" /\ outputs' \in Seq(Nat \ {0})
<1> DEFINE R == Ready(E, now)
<1>1. PICK s \in Arrangements(R, PopsBefore) :
        /\ entries' = E \ R
        /\ queueTime' = now
        /\ forwarded' = forwarded + Len(s)
        /\ Return(Messages(s))
  BY DEF PopReady
<1>2. R \subseteq E /\ R \in SUBSET E /\ E \cap R = R
  BY DEF Ready
<1>3. IsFiniteSet(R)
  BY <1>2, FS_Subset
<1>4. Cardinality(E) \in Nat /\ Cardinality(R) \in Nat
  BY <1>3, FS_CardinalityType
<1>5. s \in [1..Cardinality(R) -> R]
  BY DEF Arrangements
<1>6. Len(s) = Cardinality(R) /\ Messages(s) \in Seq(Nat \ {0})
  BY <1>2, <1>3, <1>5, ListType
<1>7. IsFiniteSet(E \ R) /\ Cardinality(E \ R) = Cardinality(E) - Cardinality(R)
  BY <1>2, FS_Difference
<1>8. Cardinality(E \ R) \in Nat /\ Cardinality(E \ R) <= Cardinality(E)
  BY <1>7, FS_CardinalityType, FS_Subset, <1>4
<1> HIDE DEF R
<1> QED
  BY <1>1, <1>2, <1>4, <1>6, <1>7, <1>8 DEF Return, R

\* flush empties the queue into the list it returns, one for one.
LEMMA FlushAccounts ==
    ASSUME IsFiniteSet(entries), entries \subseteq Entries,
           forwarded \in Nat, Flush
    PROVE  /\ entries' = {}
           /\ Pending \in Nat
           /\ forwarded' = forwarded + Pending
           /\ raised' = "nothing" /\ outputs' \in Seq(Nat \ {0})
<1>1. PICK s \in Arrangements(entries, FlushesBefore) :
        /\ entries' = {}
        /\ forwarded' = forwarded + Len(s)
        /\ Return(Messages(s))
  BY DEF Flush
<1>2. s \in [1..Cardinality(entries) -> entries]
  BY DEF Arrangements
<1>3. Len(s) = Cardinality(entries) /\ Messages(s) \in Seq(Nat \ {0})
  BY <1>2, ListType
<1> QED
  BY <1>1, <1>3, FS_CardinalityType DEF Return, Pending

-----------------------------------------------------------------------------
(* The inductive invariant. *)

LEMMA InitEstablishes == Init => IInv
<1> SUFFICES ASSUME Init PROVE IInv
  OBVIOUS
<1> USE AssumptionsHold DEF Assumptions
<1>1. Pending = 0 /\ IsFiniteSet(entries)
  BY FS_EmptySet DEF Init, Pending
<1>2. TypeOK
  BY <1>1 DEF Init, TypeOK, Times, NoTime, Unset, StaleIsActive, FaultConfigs
<1> QED
  BY <1>1, <1>2 DEF Init, IInv, Conservation, PendingOnlyWhileDelaying,
     InnerClockNeverAhead, LatestIsNewestArrival, HoldFollowsConfig,
     SequencesBelowNext, NoTime, Unset

\* What forwarding the arrival, or the held sample for it, does to the books.
LEMMA ForwardKeeps ==
    ASSUME IInv, NEW now \in Nat, Accept(now), Forward
    PROVE  IInv'
<1> USE AssumptionsHold DEF Assumptions
<1>1. outputs' \in Seq(Nat \ {0})
  <2>1. IF holdEnabled THEN held' \in Nat \ {0} ELSE TRUE
    BY DEF IInv, TypeOK, Forward, HeldOnReceive, Arrival, Unset
  <2>2. Arrival \in Nat \ {0}
    BY DEF IInv, TypeOK, Arrival
  <2> QED
    BY <2>1, <2>2 DEF Forward, Return
<1>2. TypeOK'
  BY <1>1 DEF IInv, TypeOK, Forward, Accept, Return, HeldOnReceive, Arrival,
     ClockAfter, Times, Pending, queue
<1>3. Pending \in Nat
  BY FS_CardinalityType DEF IInv, TypeOK, Pending
<1> QED
  BY <1>2, <1>3 DEF IInv, TypeOK, Times, NoTime, Forward, Accept, Return,
     ClockAfter, ValidTime, Arrival, queue, Pending, Conservation,
     PendingOnlyWhileDelaying, InnerClockNeverAhead, LatestIsNewestArrival,
     HoldFollowsConfig, SequencesBelowNext

LEMMA ReceiveDroppedKeeps ==
    ASSUME IInv, NEW now \in Nat, ReceiveDropped(now)
    PROVE  IInv'
<1> USE AssumptionsHold DEF Assumptions
<1>1. TypeOK'
  BY DEF IInv, TypeOK, ReceiveDropped, Accept, Return, HeldOnReceive,
     LatestOnDrop, Arrival, ClockAfter, Times, Pending, queue
<1>2. Pending \in Nat
  BY FS_CardinalityType DEF IInv, TypeOK, Pending
<1> QED
  BY <1>1, <1>2 DEF IInv, TypeOK, Times, NoTime, ReceiveDropped, Accept, Return,
     ClockAfter, ValidTime, LatestOnDrop, Arrival, queue, Pending, Conservation,
     PendingOnlyWhileDelaying, InnerClockNeverAhead, LatestIsNewestArrival,
     HoldFollowsConfig, SequencesBelowNext

\* The delays a configuration can draw are natural numbers.
LEMMA DelayType ==
    ASSUME NEW c \in FaultConfigs, NEW d \in SampleDelays(c)
    PROVE  d \in Nat
<1>1. c.delay \in Nat /\ c.jitter \in Nat
  BY DEF FaultConfigs
<1>2. PICK s \in (-c.jitter)..c.jitter :
        d = IF c.delay + s > 0 THEN c.delay + s ELSE 0
  BY DEF SampleDelays
<1> QED
  BY <1>1, <1>2

\* The entry made for an arrival is new, and the queue has room for it.
LEMMA EnqueueAdds ==
    ASSUME IInv, NEW now \in Nat, NEW d \in Nat, ~QueueFull,
           NEW E, E = entries \union {[deadline |-> now + d,
                                      sequence |-> nextSequence,
                                      message |-> Arrival]}
    PROVE  /\ IsFiniteSet(E) /\ E \subseteq Entries
           /\ Pending \in Nat /\ Cardinality(E) = Pending + 1
           /\ Cardinality(E) <= MaxPending
           /\ \A e \in E : e.sequence < nextSequence + 1
<1> DEFINE new == [deadline |-> now + d, sequence |-> nextSequence,
                   message |-> Arrival]
<1> USE AssumptionsHold DEF Assumptions
<1>1. /\ IsFiniteSet(entries) /\ entries \subseteq Entries
      /\ nextSequence \in Nat /\ Arrival \in Nat \ {0}
  BY DEF IInv, TypeOK, Arrival
<1>2. new \in Entries /\ new.sequence = nextSequence
  BY <1>1 DEF Entries
<1>3. \A e \in entries : e.sequence \in Nat /\ e.sequence < nextSequence
  BY <1>1 DEF IInv, SequencesBelowNext, Entries
<1>4. new \notin entries
  BY <1>1, <1>2, <1>3
<1>5. Pending \in Nat
  BY <1>1, FS_CardinalityType DEF Pending
<1>6. IsFiniteSet(E) /\ Cardinality(E) = Pending + 1
  BY <1>1, <1>4, FS_AddElement DEF Pending
<1>7. Pending < MaxPending
  BY <1>5 DEF QueueFull
<1>8. \A e \in E : e.sequence < nextSequence + 1
  BY <1>1, <1>2, <1>3
<1> QED
  BY <1>1, <1>2, <1>5, <1>6, <1>7, <1>8

LEMMA ReceiveDelayedKeeps ==
    ASSUME IInv, NEW now \in Nat, ReceiveDelayed(now)
    PROVE  IInv'
<1> USE AssumptionsHold DEF Assumptions
<1>0. config \in FaultConfigs
  BY DEF IInv, TypeOK
<1>1. PICK d \in SampleDelays(config) :
        PopReady(entries \union {[deadline |-> now + d,
                                  sequence |-> nextSequence,
                                  message |-> Arrival]}, now)
  BY DEF ReceiveDelayed
<1>2. d \in Nat
  BY <1>0, DelayType
<1>3. ~QueueFull
  BY DEF ReceiveDelayed, Accept
<1> DEFINE E == entries \union {[deadline |-> now + d,
                                 sequence |-> nextSequence,
                                 message |-> Arrival]}
<1>4. /\ IsFiniteSet(E) /\ E \subseteq Entries
      /\ Pending \in Nat /\ Cardinality(E) = Pending + 1
      /\ Cardinality(E) <= MaxPending
      /\ \A e \in E : e.sequence < nextSequence + 1
  BY <1>2, <1>3, EnqueueAdds
<1>5. PopReady(E, now)
  BY <1>1
<1> HIDE DEF E
<1>6. forwarded \in Nat
  BY DEF IInv, TypeOK
<1>7. /\ IsFiniteSet(entries') /\ entries' \subseteq E
      /\ Cardinality(entries') <= Cardinality(E)
      /\ Cardinality(entries') \in Nat
      /\ forwarded' \in Nat
      /\ forwarded' + Cardinality(entries') = forwarded + Cardinality(E)
      /\ queueTime' = now
      /\ raised' = "nothing" /\ outputs' \in Seq(Nat \ {0})
  BY <1>4, <1>5, <1>6, PopAccounts
<1>8. /\ received' = received + 1 /\ dropped' = dropped
      /\ nextSequence' = nextSequence + 1
      /\ latest' = Arrival /\ held' = HeldOnReceive
      /\ lastTime' = now /\ config' = config /\ holdEnabled' = holdEnabled
      /\ LatencyIsActive(config)
  BY DEF ReceiveDelayed, Accept, ClockAfter
<1>9. Pending' <= MaxPending /\ Pending' = Cardinality(entries')
  BY <1>4, <1>7 DEF Pending
<1>10. TypeOK'
  BY <1>4, <1>7, <1>8, <1>9 DEF IInv, TypeOK, HeldOnReceive, Arrival, Times
<1>11. Conservation'
  <2>1. forwarded' + Pending' = forwarded + Pending + 1
    BY <1>4, <1>6, <1>7, <1>9
  <2>2. received = forwarded + dropped + Pending /\ dropped \in Nat
    BY DEF IInv, TypeOK, Conservation
  <2>3. Pending' \in Nat /\ forwarded' \in Nat
    BY <1>7, <1>9
  <2>4. Pending \in Nat
    BY <1>4
  <2>5. received' = received + 1 /\ dropped' = dropped
    BY <1>8
  <2>6. received' = forwarded' + dropped' + Pending'
    BY <1>6, <2>1, <2>2, <2>3, <2>4, <2>5 DEF Pending
  <2> QED
    BY <2>6 DEF Conservation
<1>12. SequencesBelowNext'
  BY <1>4, <1>7, <1>8 DEF SequencesBelowNext
<1> QED
  BY <1>7, <1>8, <1>10, <1>11, <1>12 DEF IInv, TypeOK, Arrival,
     PendingOnlyWhileDelaying, InnerClockNeverAhead, LatestIsNewestArrival,
     HoldFollowsConfig

LEMMA PollKeeps ==
    ASSUME IInv, NEW now \in Nat, Poll(now)
    PROVE  IInv'
<1> USE AssumptionsHold DEF Assumptions
<1>1. /\ lastTime' = now /\ config' = config
      /\ nextSequence' = nextSequence /\ received' = received
      /\ dropped' = dropped
      /\ holdEnabled' = holdEnabled /\ latest' = latest /\ held' = held
  BY DEF Poll, ClockAfter, hold
<1>2. /\ IsFiniteSet(entries) /\ entries \subseteq Entries
      /\ forwarded \in Nat
  BY DEF IInv, TypeOK
<1>3. Pending \in Nat
  BY <1>2, FS_CardinalityType DEF Pending
<1>4. CASE LatencyIsActive(config)
  <2>1. PopReady(entries, now)
    BY <1>4 DEF Poll
  <2>2. /\ IsFiniteSet(entries') /\ entries' \subseteq entries
        /\ Cardinality(entries') <= Cardinality(entries)
        /\ Cardinality(entries') \in Nat
        /\ forwarded' \in Nat
        /\ forwarded' + Cardinality(entries') = forwarded + Cardinality(entries)
        /\ queueTime' = now
        /\ raised' = "nothing" /\ outputs' \in Seq(Nat \ {0})
    BY <1>2, <2>1, PopAccounts
  <2>3. TypeOK'
    BY <1>1, <1>3, <2>2 DEF IInv, TypeOK, Times, Pending
  <2>4. Conservation'
    <3>1. received = forwarded + dropped + Pending /\ dropped \in Nat
      BY DEF IInv, TypeOK, Conservation
    <3>2. /\ forwarded' + Pending' = forwarded + Pending
          /\ forwarded' \in Nat /\ Pending' \in Nat
      BY <2>2 DEF Pending
    <3>3. received' = received /\ dropped' = dropped
      BY <1>1
    <3>4. received' = forwarded' + dropped' + Pending'
      BY <1>2, <1>3, <3>1, <3>2, <3>3 DEF Pending
    <3> QED
      BY <3>4 DEF Conservation
  <2>5. SequencesBelowNext'
    BY <1>1, <2>2 DEF IInv, SequencesBelowNext
  <2> QED
    BY <1>1, <1>4, <2>2, <2>3, <2>4, <2>5 DEF IInv, TypeOK,
       PendingOnlyWhileDelaying, InnerClockNeverAhead, LatestIsNewestArrival,
       HoldFollowsConfig
<1>5. CASE ~LatencyIsActive(config)
  <2>1. /\ ValidTime(now) /\ Return(<<>>)
        /\ UNCHANGED <<entries, queueTime, forwarded>>
    BY <1>5 DEF Poll
  <2>2. TypeOK'
    BY <1>1, <2>1 DEF IInv, TypeOK, Times, Pending, Return
  <2> QED
    BY <1>1, <1>3, <2>1, <2>2 DEF IInv, TypeOK, Times, NoTime, ValidTime,
       Pending, Conservation, PendingOnlyWhileDelaying, InnerClockNeverAhead,
       LatestIsNewestArrival, HoldFollowsConfig, SequencesBelowNext
<1> QED
  BY <1>4, <1>5

LEMMA ConfigureKeeps ==
    ASSUME IInv, NEW now \in Nat, NEW c \in Configs, Configure(c, now)
    PROVE  IInv'
<1> USE AssumptionsHold DEF Assumptions
<1>1. /\ lastTime' = now /\ config' = c /\ c \in FaultConfigs
      /\ nextSequence' = nextSequence /\ queueTime' = queueTime
      /\ latest' = latest /\ received' = received /\ dropped' = dropped
      /\ held' = HeldOnSwitch(StaleIsActive(c))
      /\ holdEnabled' = StaleIsActive(c)
      /\ lastTime <= now
  BY DEF Configure, ClockAfter, ValidTime
<1>2. StaleIsActive(c) \in BOOLEAN
  BY <1>1 DEF StaleIsActive, FaultConfigs
<1>3. held' \in Nat
  BY <1>1 DEF IInv, TypeOK, HeldOnSwitch, Unset
<1>4. /\ IsFiniteSet(entries) /\ entries \subseteq Entries
      /\ forwarded \in Nat
  BY DEF IInv, TypeOK
<1>5. Pending \in Nat
  BY <1>4, FS_CardinalityType DEF Pending
<1>6. InnerClockNeverAhead' /\ LatestIsNewestArrival' /\ HoldFollowsConfig'
  BY <1>1 DEF IInv, TypeOK, Times, NoTime, InnerClockNeverAhead,
     LatestIsNewestArrival, HoldFollowsConfig
<1>7. CASE LeavesLatency(c)
  <2>1. Flush
    BY <1>7 DEF Configure
  <2>2. /\ entries' = {}
        /\ forwarded' = forwarded + Pending
        /\ raised' = "nothing" /\ outputs' \in Seq(Nat \ {0})
    BY <1>4, <2>1, FlushAccounts
  <2>3. IsFiniteSet(entries') /\ Pending' = 0
    BY <2>2, FS_EmptySet DEF Pending
  <2>4. TypeOK'
    BY <1>1, <1>2, <1>3, <1>4, <1>5, <2>2, <2>3 DEF IInv, TypeOK, Times
  <2>5. Conservation'
    BY <1>1, <1>4, <1>5, <2>2, <2>3 DEF IInv, TypeOK, Conservation, Pending
  <2> QED
    BY <1>6, <2>2, <2>4, <2>5 DEF IInv, PendingOnlyWhileDelaying,
       SequencesBelowNext
<1>8. CASE ~LeavesLatency(c)
  <2>1. entries' = entries /\ Return(<<>>) /\ forwarded' = forwarded
    BY <1>8 DEF Configure, PendingAfter
  <2>2. TypeOK'
    BY <1>1, <1>2, <1>3, <2>1 DEF IInv, TypeOK, Times, Return, Pending
  <2>3. Conservation' /\ SequencesBelowNext'
    BY <1>1, <2>1 DEF IInv, Conservation, Pending, SequencesBelowNext
  <2>4. PendingOnlyWhileDelaying'
    BY <1>1, <1>8, <2>1 DEF IInv, PendingOnlyWhileDelaying, LeavesLatency
  <2> QED
    BY <1>6, <2>2, <2>3, <2>4 DEF IInv
<1> QED
  BY <1>7, <1>8

\* A call that raises changes nothing the invariant speaks of.
LEMMA RaiseKeeps ==
    ASSUME IInv, NEW x \in {"ValueError", "QueueOverflowError"}, Raise(x)
    PROVE  IInv'
<1>1. TypeOK'
  BY DEF IInv, TypeOK, Raise, injector, queue, hold, counters, Pending
<1> QED
  BY <1>1 DEF IInv, Raise, injector, queue, hold, counters, Pending,
     Conservation, PendingOnlyWhileDelaying, InnerClockNeverAhead,
     LatestIsNewestArrival, HoldFollowsConfig, SequencesBelowNext

LEMMA NextKeeps == IInv /\ [Next]_vars => IInv'
<1> SUFFICES ASSUME IInv, [Next]_vars PROVE IInv'
  OBVIOUS
<1>1. CASE UNCHANGED vars
  <2>1. TypeOK'
    BY <1>1 DEF IInv, TypeOK, vars, injector, queue, hold, counters, Pending
  <2> QED
    BY <1>1, <2>1 DEF IInv, vars, injector, queue, hold, counters, Pending,
       Conservation, PendingOnlyWhileDelaying, InnerClockNeverAhead,
       LatestIsNewestArrival, HoldFollowsConfig, SequencesBelowNext
<1>2. ASSUME NEW now \in 0..MaxTime,
             \/ Receive(now) \/ RefuseOverflow(now)
             \/ Poll(now)
             \/ RefuseTime(now)
             \/ \E c \in Configs : Configure(c, now) \/ RefuseSeed(c, now)
      PROVE  IInv'
  <2>0. now \in Nat
    BY AssumptionsHold DEF Assumptions
  <2>1. CASE ReceivePlain(now)
    BY <2>0, <2>1, ForwardKeeps DEF ReceivePlain
  <2>2. CASE ReceiveDropoutKept(now)
    BY <2>0, <2>2, ForwardKeeps DEF ReceiveDropoutKept
  <2>3. CASE ReceiveDropped(now)
    BY <2>0, <2>3, ReceiveDroppedKeeps
  <2>4. CASE ReceiveDelayed(now)
    BY <2>0, <2>4, ReceiveDelayedKeeps
  <2>5. CASE Poll(now)
    BY <2>0, <2>5, PollKeeps
  <2>6. ASSUME NEW c \in Configs, Configure(c, now) PROVE IInv'
    BY <2>0, <2>6, ConfigureKeeps
  <2>7. CASE RefuseOverflow(now)
    BY <2>7, RaiseKeeps DEF RefuseOverflow
  <2>8. CASE RefuseTime(now)
    BY <2>8, RaiseKeeps DEF RefuseTime
  <2>9. ASSUME NEW c \in Configs, RefuseSeed(c, now) PROVE IInv'
    BY <2>9, RaiseKeeps DEF RefuseSeed
  <2> QED
    BY <1>2, <2>1, <2>2, <2>3, <2>4, <2>5, <2>6, <2>7, <2>8, <2>9 DEF Receive
<1> QED
  BY <1>1, <1>2 DEF Next

\* Queue, hold, clocks and counters agree in every state.
THEOREM Invariance == Spec => []IInv
BY InitEstablishes, NextKeeps, PTL DEF Spec

-----------------------------------------------------------------------------
(* The properties that the runs check, for every value of the constants.   *)

\* Every variable keeps its type and the queue its capacity.
THEOREM TypeCorrect == Spec => []TypeOK
<1>1. IInv => TypeOK
  BY DEF IInv
<1> QED
  BY <1>1, Invariance, PTL

\* No message is lost or invented in the injector's accounts.
THEOREM MessagesConserved == Spec => []Conservation
<1>1. IInv => Conservation
  BY DEF IInv
<1> QED
  BY <1>1, Invariance, PTL

\* Messages wait only in latency mode, the only mode in which poll looks.
THEOREM NothingStranded == Spec => []PendingOnlyWhileDelaying
<1>1. IInv => PendingOnlyWhileDelaying
  BY DEF IInv
<1> QED
  BY <1>1, Invariance, PTL

\* The queue never refuses a time that the injector has accepted.
THEOREM ClocksAgree == Spec => []InnerClockNeverAhead
<1>1. IInv => InnerClockNeverAhead
  BY DEF IInv
<1> QED
  BY <1>1, Invariance, PTL

\* The hold always knows the newest arrival, whatever became of it.
THEOREM HoldSeesEveryArrival == Spec => []LatestIsNewestArrival
<1>1. IInv => LatestIsNewestArrival
  BY DEF IInv
<1> QED
  BY <1>1, Invariance, PTL

-----------------------------------------------------------------------------
(* What a step may not do. *)

\* The step of HeldSampleFrozen: the hold is not disturbed while it is on.
HeldStep ==
    (holdEnabled /\ holdEnabled' /\ held # Unset) =>
        /\ held' = held
        /\ \A i \in DOMAIN outputs' : outputs'[i] = held

LEMMA HeldStepAllowed == IInv /\ [Next]_vars => HeldStep \/ UNCHANGED vars
<1> SUFFICES ASSUME IInv, Next, holdEnabled, holdEnabled', held # Unset
             PROVE  /\ held' = held
                    /\ \A i \in DOMAIN outputs' : outputs'[i] = held
  BY DEF HeldStep
<1>1. StaleIsActive(config)
  BY DEF IInv, HoldFollowsConfig
<1>2. ~LatencyIsActive(config) /\ ~DropoutIsActive(config)
  BY <1>1 DEF StaleIsActive, LatencyIsActive, DropoutIsActive
<1>3. PICK now \in 0..MaxTime :
        \/ Receive(now) \/ RefuseOverflow(now)
        \/ Poll(now)
        \/ RefuseTime(now)
        \/ \E c \in Configs : Configure(c, now) \/ RefuseSeed(c, now)
  BY DEF Next
<1>4. CASE Receive(now)
  <2>1. Forward
    BY <1>2, <1>4 DEF Receive, ReceivePlain, ReceiveDropoutKept, ReceiveDropped,
       ReceiveDelayed
  <2>2. held' = held /\ outputs' = <<held>>
    BY <2>1 DEF Forward, HeldOnReceive, Return
  <2> QED
    BY <2>2
<1>5. CASE Poll(now)
  BY <1>2, <1>5 DEF Poll, Return, hold
<1>6. ASSUME NEW c \in Configs, Configure(c, now)
      PROVE  held' = held /\ \A i \in DOMAIN outputs' : outputs'[i] = held
  <2>1. Return(<<>>) /\ StaleIsActive(c)
    BY <1>2, <1>6 DEF Configure, LeavesLatency
  <2> QED
    BY <1>6, <2>1 DEF Configure, Return, HeldOnSwitch
<1>7. CASE \E x \in {"ValueError", "QueueOverflowError"} : Raise(x)
  BY <1>7 DEF Raise, injector, hold
<1> QED
  BY <1>3, <1>4, <1>5, <1>6, <1>7 DEF RefuseOverflow, RefuseTime, RefuseSeed

\* While a hold stays on, one sample and no other is sent downstream.
THEOREM HoldRepeatsOneSample == Spec => HeldSampleFrozen
<1>1. IInv /\ [Next]_vars => [HeldStep]_vars
  BY HeldStepAllowed
<1>2. Spec => [][HeldStep]_vars
  BY <1>1, Invariance, PTL DEF Spec
<1> QED
  BY <1>2 DEF HeldSampleFrozen, HeldStep

\* What may become of a pending entry in one step.
EntryStep ==
    \A e \in entries :
        \/ e \in entries'
        \/ /\ \E i \in DOMAIN outputs' : outputs'[i] = e.message
           /\ e.deadline <= lastTime' \/ (entries' = {} /\ ~LatencyIsActive(config'))

\* pop_ready on a queue E takes only what is due and returns all it takes.
LEMMA PopTakesDue ==
    ASSUME NEW E, IsFiniteSet(E), E \subseteq Entries, NEW now \in Nat,
           PopReady(E, now), NEW e \in E
    PROVE  \/ e \in entries'
           \/ /\ \E i \in DOMAIN outputs' : outputs'[i] = e.message
              /\ e.deadline <= now
<1> SUFFICES ASSUME e \notin entries'
             PROVE  /\ \E i \in DOMAIN outputs' : outputs'[i] = e.message
                    /\ e.deadline <= now
  OBVIOUS
<1> DEFINE R == Ready(E, now)
<1>1. PICK s \in Arrangements(R, PopsBefore) :
        entries' = E \ R /\ Return(Messages(s))
  BY DEF PopReady
<1>2. R \in SUBSET E /\ e \in R /\ e.deadline <= now
  BY <1>1 DEF Ready
<1>3. IsFiniteSet(R) /\ R \subseteq Entries
  BY <1>2, FS_Subset
<1>4. /\ s \in [1..Cardinality(R) -> R]
      /\ \A i, j \in 1..Cardinality(R) : i < j => PopsBefore(s[i], s[j])
  BY DEF Arrangements
<1> HIDE DEF R
<1>5. \E i \in DOMAIN Messages(s) : Messages(s)[i] = e.message
  <2>1. \A i, j \in 1..Cardinality(R) : i < j => s[i] # s[j]
    BY <1>3, <1>4, OrdersAreStrict
  <2> QED
    BY <1>2, <1>3, <1>4, <2>1, ListIsComplete
<1> QED
  BY <1>1, <1>2, <1>5 DEF Return

\* flush returns every entry.
LEMMA FlushTakesAll ==
    ASSUME IsFiniteSet(entries), entries \subseteq Entries, Flush,
           NEW e \in entries
    PROVE  /\ entries' = {}
           /\ \E i \in DOMAIN outputs' : outputs'[i] = e.message
<1>1. PICK s \in Arrangements(entries, FlushesBefore) :
        entries' = {} /\ Return(Messages(s))
  BY DEF Flush
<1>2. /\ s \in [1..Cardinality(entries) -> entries]
      /\ \A i, j \in 1..Cardinality(entries) :
            i < j => FlushesBefore(s[i], s[j])
  BY DEF Arrangements
<1>3. \A i, j \in 1..Cardinality(entries) : i < j => s[i] # s[j]
  BY <1>2, OrdersAreStrict
<1>4. \E i \in DOMAIN Messages(s) : Messages(s)[i] = e.message
  BY <1>2, <1>3, ListIsComplete
<1> QED
  BY <1>1, <1>4 DEF Return

LEMMA EntryStepAllowed == IInv /\ [Next]_vars => EntryStep \/ UNCHANGED vars
<1> SUFFICES ASSUME IInv, Next, NEW e \in entries, e \notin entries'
             PROVE  /\ \E i \in DOMAIN outputs' : outputs'[i] = e.message
                    /\ \/ e.deadline <= lastTime'
                       \/ entries' = {} /\ ~LatencyIsActive(config')
  BY DEF EntryStep
<1>1. /\ IsFiniteSet(entries) /\ entries \subseteq Entries
      /\ config \in FaultConfigs /\ Pending <= MaxPending
  BY DEF IInv, TypeOK
<1>2. LatencyIsActive(config) /\ ~DropoutIsActive(config)
  BY DEF IInv, PendingOnlyWhileDelaying, LatencyIsActive, DropoutIsActive
<1>3. PICK now \in 0..MaxTime :
        \/ Receive(now) \/ RefuseOverflow(now)
        \/ Poll(now)
        \/ RefuseTime(now)
        \/ \E c \in Configs : Configure(c, now) \/ RefuseSeed(c, now)
  BY DEF Next
<1>4. now \in Nat
  BY AssumptionsHold DEF Assumptions
<1>5. CASE Receive(now)
  <2>1. ReceiveDelayed(now)
    BY <1>2, <1>5 DEF Receive, ReceivePlain, ReceiveDropoutKept, ReceiveDropped
  <2>2. PICK d \in SampleDelays(config) :
          PopReady(entries \union {[deadline |-> now + d,
                                    sequence |-> nextSequence,
                                    message |-> Arrival]}, now)
    BY <2>1 DEF ReceiveDelayed
  <2> DEFINE E == entries \union {[deadline |-> now + d,
                                   sequence |-> nextSequence,
                                   message |-> Arrival]}
  <2>3. d \in Nat
    BY <1>1, DelayType
  <2>4. ~QueueFull /\ lastTime' = now
    BY <2>1 DEF ReceiveDelayed, Accept, ClockAfter
  <2>5. IsFiniteSet(E) /\ E \subseteq Entries
    BY <1>4, <2>3, <2>4, EnqueueAdds
  <2>6. PopReady(E, now) /\ e \in E
    BY <2>2
  <2> HIDE DEF E
  <2> QED
    BY <1>4, <2>4, <2>5, <2>6, PopTakesDue
<1>6. CASE Poll(now)
  <2>1. PopReady(entries, now) /\ lastTime' = now
    BY <1>2, <1>6 DEF Poll, ClockAfter
  <2> QED
    BY <1>1, <1>4, <2>1, PopTakesDue
<1>7. ASSUME NEW c \in Configs, Configure(c, now)
      PROVE  /\ \E i \in DOMAIN outputs' : outputs'[i] = e.message
             /\ entries' = {} /\ ~LatencyIsActive(config')
  <2>1. LeavesLatency(c)
    BY <1>7 DEF Configure, PendingAfter
  <2>2. Flush /\ ~LatencyIsActive(config')
    BY <1>7, <2>1 DEF Configure, LeavesLatency
  <2> QED
    BY <1>1, <2>2, FlushTakesAll
<1>8. CASE \E x \in {"ValueError", "QueueOverflowError"} : Raise(x)
  BY <1>8 DEF Raise, injector, queue
<1> QED
  BY <1>3, <1>5, <1>6, <1>7, <1>8 DEF RefuseOverflow, RefuseTime, RefuseSeed

\* A pending message keeps its deadline and is emitted once that has passed or
\* when latency ends, in every step of every behaviour.
THEOREM PendingNeverLost == Spec => PendingKeptOrEmitted
<1>1. IInv /\ [Next]_vars => [EntryStep]_vars
  BY EntryStepAllowed
<1>2. Spec => [][EntryStep]_vars
  BY <1>1, Invariance, PTL DEF Spec
<1> QED
  BY <1>2 DEF PendingKeptOrEmitted, EntryStep

-----------------------------------------------------------------------------
(* The injector implements the ledger. *)

\* What is sent on is what the store, without or with the arrival, has lost.
LEMMA ReleaseBalance ==
    ASSUME NEW f \in Nat, NEW g \in Nat, NEW p \in Nat, NEW q \in Nat,
           f <= g, g + q = f + p
    PROVE  \/ g = f /\ q = p
           \/ \E n \in 1..p : g = f + n /\ q = p - n
<1>1. g - f \in 0..p /\ g = f + (g - f) /\ q = p - (g - f)
  OBVIOUS
<1> QED
  BY <1>1

LEMMA TakeBalance ==
    ASSUME NEW f \in Nat, NEW g \in Nat, NEW p \in Nat, NEW q \in Nat,
           f <= g, g + q = f + p + 1
    PROVE  \E n \in 0..(p + 1) : g = f + n /\ q = p + 1 - n
<1>1. g - f \in 0..(p + 1) /\ g = f + (g - f) /\ q = p + 1 - (g - f)
  OBVIOUS
<1> QED
  BY <1>1

LEMMA LedgerStep == IInv /\ IInv' /\ [Next]_vars => [Ledger!Next]_(Ledger!ledger)
<1> SUFFICES ASSUME IInv, IInv', Next PROVE [Ledger!Next]_(Ledger!ledger)
  BY DEF vars, injector, queue, counters, Ledger!ledger, Pending
<1> USE AssumptionsHold DEF Assumptions
<1>1. /\ received \in Nat /\ forwarded \in Nat /\ dropped \in Nat
      /\ Pending \in Nat /\ Pending <= MaxPending
      /\ forwarded' \in Nat
      /\ Pending' \in Nat /\ Pending' <= MaxPending
      /\ IsFiniteSet(entries) /\ entries \subseteq Entries
      /\ config \in FaultConfigs
  BY FS_CardinalityType DEF IInv, TypeOK, Pending
<1>2. PICK now \in 0..MaxTime :
        \/ Receive(now) \/ RefuseOverflow(now)
        \/ Poll(now)
        \/ RefuseTime(now)
        \/ \E c \in Configs : Configure(c, now) \/ RefuseSeed(c, now)
  BY DEF Next
<1>3. now \in Nat
  OBVIOUS
\* Whatever moves from the store to the stream is a release.
<1>4. ASSUME received' = received, dropped' = dropped, forwarded <= forwarded',
             forwarded' + Pending' = forwarded + Pending
      PROVE  [Ledger!Next]_(Ledger!ledger)
  <2>1. \/ forwarded' = forwarded /\ Pending' = Pending
        \/ \E n \in 1..Pending :
              forwarded' = forwarded + n /\ Pending' = Pending - n
    BY <1>1, <1>4, ReleaseBalance DEF Pending
  <2>2. CASE forwarded' = forwarded /\ Pending' = Pending
    BY <1>4, <2>2 DEF Ledger!ledger
  <2>3. CASE \E n \in 1..Pending :
              forwarded' = forwarded + n /\ Pending' = Pending - n
    BY <1>4, <2>3 DEF Ledger!Release, Ledger!Next
  <2> QED
    BY <2>1, <2>2, <2>3
\* An arrival that joins the store, from which some messages leave.
<1>5. ASSUME received' = received + 1, dropped' = dropped,
             forwarded <= forwarded',
             forwarded' + Pending' = forwarded + Pending + 1
      PROVE  Ledger!Next
  <2>1. \E n \in 0..(Pending + 1) :
          forwarded' = forwarded + n /\ Pending' = Pending + 1 - n
    BY <1>1, <1>5, TakeBalance DEF Pending
  <2>2. Ledger!Take
    BY <1>1, <1>5, <2>1 DEF Ledger!Take
  <2> QED
    BY <2>2 DEF Ledger!Next
<1>6. CASE Accept(now) /\ Forward
  <2>1. /\ received' = received + 1 /\ dropped' = dropped
        /\ forwarded' = forwarded + 1 /\ Pending' = Pending
    BY <1>6 DEF Accept, Forward, queue, Pending
  <2>2. /\ forwarded <= forwarded'
        /\ forwarded' + Pending' = forwarded + Pending + 1
    BY <1>1, <2>1 DEF Pending
  <2> QED
    BY <1>5, <2>1, <2>2
<1>7. CASE ReceiveDropped(now)
  <2>1. Ledger!Drop
    BY <1>7 DEF ReceiveDropped, Accept, queue, Pending, Ledger!Drop
  <2> QED
    BY <2>1 DEF Ledger!Next
<1>8. CASE ReceiveDelayed(now)
  <2>1. PICK d \in SampleDelays(config) :
          PopReady(entries \union {[deadline |-> now + d,
                                    sequence |-> nextSequence,
                                    message |-> Arrival]}, now)
    BY <1>8 DEF ReceiveDelayed
  <2> DEFINE E == entries \union {[deadline |-> now + d,
                                   sequence |-> nextSequence,
                                   message |-> Arrival]}
  <2>2. d \in Nat
    BY <1>1, DelayType
  <2>3. ~QueueFull /\ received' = received + 1 /\ dropped' = dropped
    BY <1>8 DEF ReceiveDelayed, Accept
  <2>4. IsFiniteSet(E) /\ E \subseteq Entries /\ Cardinality(E) = Pending + 1
    BY <1>3, <2>2, <2>3, EnqueueAdds
  <2>5. PopReady(E, now)
    BY <2>1
  <2> HIDE DEF E
  <2>6. /\ forwarded <= forwarded'
        /\ forwarded' + Cardinality(entries') = forwarded + Cardinality(E)
    BY <1>1, <1>3, <2>4, <2>5, PopAccounts
  <2>7. forwarded' + Pending' = forwarded + Pending + 1
    BY <1>1, <2>4, <2>6 DEF Pending
  <2> QED
    BY <1>5, <2>3, <2>6, <2>7
<1>9. CASE Poll(now)
  <2>1. received' = received /\ dropped' = dropped
    BY <1>9 DEF Poll
  <2>2. CASE LatencyIsActive(config)
    <3>1. PopReady(entries, now)
      BY <1>9, <2>2 DEF Poll
    <3>2. /\ forwarded <= forwarded'
          /\ forwarded' + Pending' = forwarded + Pending
      BY <1>1, <1>3, <3>1, PopAccounts DEF Pending
    <3> QED
      BY <1>4, <2>1, <3>2
  <2>3. CASE ~LatencyIsActive(config)
    BY <1>1, <1>4, <1>9, <2>1, <2>3 DEF Poll, Pending
  <2> QED
    BY <2>2, <2>3
<1>10. ASSUME NEW c \in Configs, Configure(c, now)
       PROVE  [Ledger!Next]_(Ledger!ledger)
  <2>1. received' = received /\ dropped' = dropped
    BY <1>10 DEF Configure
  <2>2. CASE LeavesLatency(c)
    <3>1. Flush
      BY <1>10, <2>2 DEF Configure
    <3>2. entries' = {} /\ forwarded' = forwarded + Pending
      BY <1>1, <3>1, FlushAccounts
    <3>3. Pending' = 0
      BY <3>2, FS_EmptySet DEF Pending
    <3>4. /\ forwarded <= forwarded'
          /\ forwarded' + Pending' = forwarded + Pending
      BY <1>1, <3>2, <3>3 DEF Pending
    <3> QED
      BY <1>4, <2>1, <3>4
  <2>3. CASE ~LeavesLatency(c)
    BY <1>1, <1>4, <1>10, <2>1, <2>3 DEF Configure, PendingAfter, Pending
  <2> QED
    BY <2>2, <2>3
<1>11. CASE \E x \in {"ValueError", "QueueOverflowError"} : Raise(x)
  BY <1>11 DEF Raise, injector, queue, counters, Ledger!ledger, Pending
<1> QED
  BY <1>2, <1>6, <1>7, <1>8, <1>9, <1>10, <1>11 DEF Receive, ReceivePlain,
     ReceiveDropoutKept, RefuseOverflow, RefuseTime, RefuseSeed

\* Every behaviour of the injector is one the ledger allows.
THEOREM ImplementsLedger == Spec => KeepsLedger
<1>1. Init => Ledger!Init
  BY FS_EmptySet DEF Init, Ledger!Init, Pending
<1> QED
  BY <1>1, Invariance, LedgerStep, PTL DEF Spec, KeepsLedger, Ledger!Spec

-----------------------------------------------------------------------------
(* Steps. *)

ClockRuns == lastTime <= lastTime' /\ lastTime' \in Times

Sends ==
    /\ entries = {} /\ entries' = {} /\ config' = config /\ holdEnabled' = holdEnabled
    /\ received' = received + 1
    /\ held' = HeldOnReceive
    /\ outputs' = <<IF holdEnabled THEN held' ELSE Arrival>>

Silent ==
    /\ entries' = entries /\ config' = config /\ holdEnabled' = holdEnabled
    /\ received' >= received
    /\ held' = held
    /\ outputs' = <<>>

\* What is in the queue when it is looked at, and the newest message by then.
Enqueued(E, top) ==
    \/ E = entries /\ top = received
    \/ /\ \E d \in SampleDelays(config) :
            E = entries \union {[deadline |-> lastTime' + d, sequence |-> nextSequence,
                                 message |-> received + 1]}
       /\ top = received + 1

Releases(E, top) ==
    /\ LatencyIsActive(config) /\ config' = config
    /\ ~holdEnabled /\ holdEnabled' = holdEnabled /\ held' = held
    /\ Enqueued(E, top) /\ received' = top
    /\ lastTime' \in Nat
    /\ IsFiniteSet(E) /\ E \subseteq Entries
    /\ PopReady(E, lastTime')

Switches(c) ==
    /\ c \in FaultConfigs /\ config' = c
    /\ IF LeavesLatency(c) THEN Flush ELSE entries' = entries /\ outputs' = <<>>
    /\ held' = HeldOnSwitch(StaleIsActive(c)) /\ holdEnabled' = StaleIsActive(c)
    /\ received' = received

LEMMA StepKinds ==
    ASSUME IInv, Next
    PROVE  /\ ClockRuns
           /\ Sends \/ Silent \/ (\E E, top : Releases(E, top)) \/ \E c : Switches(c)
<1> USE AssumptionsHold DEF Assumptions
<1>1. /\ IsFiniteSet(entries) /\ entries \subseteq Entries
      /\ config \in FaultConfigs /\ received \in Nat /\ lastTime \in Times
  BY DEF IInv, TypeOK
<1>2. PICK now \in 0..MaxTime :
        \/ Receive(now) \/ RefuseOverflow(now)
        \/ Poll(now)
        \/ RefuseTime(now)
        \/ \E c \in Configs : Configure(c, now) \/ RefuseSeed(c, now)
  BY DEF Next
<1>3. now \in Nat /\ now \in Times
  BY DEF Times
<1>4. /\ LatencyIsActive(config) \/ entries = {}
      /\ LatencyIsActive(config) \/ DropoutIsActive(config) => ~holdEnabled
  BY DEF IInv, PendingOnlyWhileDelaying, HoldFollowsConfig, LatencyIsActive,
         DropoutIsActive, StaleIsActive
<1>5. CASE ReceivePlain(now) \/ ReceiveDropoutKept(now)
  <2>1. Accept(now) /\ Forward /\ ~LatencyIsActive(config)
    BY <1>5 DEF ReceivePlain, ReceiveDropoutKept, LatencyIsActive, DropoutIsActive
  <2> QED
    BY <1>1, <1>3, <1>4, <2>1
       DEF Accept, Forward, Sends, ClockRuns, ClockAfter, ValidTime, Return, queue
<1>6. CASE ReceiveDropped(now)
  BY <1>1, <1>3, <1>4, <1>6
     DEF ReceiveDropped, Accept, Silent, ClockRuns, ClockAfter, ValidTime, Return, queue,
         HeldOnReceive
<1>7. CASE ReceiveDelayed(now)
  <2>1. PICK d \in SampleDelays(config) :
            PopReady(entries \union {[deadline |-> now + d,
                                      sequence |-> nextSequence,
                                      message |-> Arrival]}, now)
    BY <1>7 DEF ReceiveDelayed
  <2> DEFINE E == entries \union {[deadline |-> now + d,
                                   sequence |-> nextSequence,
                                   message |-> Arrival]}
  <2>2. d \in Nat
    BY <1>1, DelayType
  <2>3. /\ ~QueueFull /\ lastTime' = now /\ lastTime <= now
        /\ received' = received + 1 /\ config' = config /\ holdEnabled' = holdEnabled
        /\ LatencyIsActive(config) /\ held' = held
    BY <1>4, <1>7 DEF ReceiveDelayed, Accept, ClockAfter, ValidTime, HeldOnReceive
  <2>4. IsFiniteSet(E) /\ E \subseteq Entries
    BY <1>3, <2>2, <2>3, EnqueueAdds
  <2>5. Enqueued(E, received + 1)
    BY <2>3 DEF Enqueued, Arrival
  <2>6. PopReady(E, lastTime')
    BY <2>1, <2>3
  <2> HIDE DEF E
  <2>7. Releases(E, received + 1)
    BY <1>3, <1>4, <2>3, <2>4, <2>5, <2>6 DEF Releases
  <2> QED
    BY <1>3, <2>3, <2>7 DEF ClockRuns
<1>8. CASE Poll(now) /\ LatencyIsActive(config)
  <2>1. Releases(entries, received)
    BY <1>1, <1>3, <1>4, <1>8 DEF Poll, Releases, Enqueued, ClockAfter, hold
  <2> QED
    BY <1>3, <1>8, <2>1 DEF Poll, ClockRuns, ClockAfter, ValidTime
<1>9. CASE Poll(now) /\ ~LatencyIsActive(config)
  BY <1>1, <1>3, <1>9 DEF Poll, Silent, ClockRuns, ClockAfter, ValidTime, Return, hold
<1>10. ASSUME NEW c \in Configs, Configure(c, now)
       PROVE  ClockRuns /\ Switches(c)
  BY <1>3, <1>10
     DEF Configure, Switches, PendingAfter, Return, ClockRuns, ClockAfter, ValidTime
<1>11. CASE \E x \in {"ValueError", "QueueOverflowError"} : Raise(x)
  BY <1>1, <1>11
     DEF Raise, Silent, ClockRuns, injector, queue, hold, counters, Times, NoTime
<1> QED
  BY <1>2, <1>5, <1>6, <1>7, <1>8, <1>9, <1>10, <1>11
     DEF Receive, RefuseOverflow, RefuseTime, RefuseSeed

\* What a list of n entries of S, in this order, is for the stream.
Lists(s, n, S, Before(_, _)) ==
    /\ n \in Nat /\ s \in [1..n -> S]
    /\ \A i, j \in 1..n : i < j => Before(s[i], s[j])
    /\ DOMAIN outputs' = 1..n /\ \A i \in 1..n : outputs'[i] = s[i].message

LEMMA PopLists ==
    ASSUME NEW E, IsFiniteSet(E), E \subseteq Entries, NEW now \in Nat, PopReady(E, now)
    PROVE  /\ entries' = E \ Ready(E, now)
           /\ \E s, n : Lists(s, n, Ready(E, now), PopsBefore)
<1>1. PICK s \in Arrangements(Ready(E, now), PopsBefore) :
        entries' = E \ Ready(E, now) /\ outputs' = Messages(s)
  BY DEF PopReady, Return
<1>2. IsFiniteSet(Ready(E, now))
  BY FS_Subset DEF Ready
<1>3. Cardinality(Ready(E, now)) \in Nat
  BY <1>2, FS_CardinalityType
<1>4. Lists(s, Cardinality(Ready(E, now)), Ready(E, now), PopsBefore)
  BY <1>1, <1>3 DEF Arrangements, Lists, Messages
<1> QED
  BY <1>1, <1>4

LEMMA FlushLists ==
    ASSUME IsFiniteSet(entries), Flush
    PROVE  entries' = {} /\ \E s, n : Lists(s, n, entries, FlushesBefore)
<1>1. PICK s \in Arrangements(entries, FlushesBefore) :
        entries' = {} /\ outputs' = Messages(s)
  BY DEF Flush, Return
<1>2. Cardinality(entries) \in Nat
  BY FS_CardinalityType
<1>3. Lists(s, Cardinality(entries), entries, FlushesBefore)
  BY <1>1, <1>2 DEF Arrangements, Lists, Messages
<1> QED
  BY <1>1, <1>3

\* Where a message of the longer stream comes from.
LEMMA Concatenation ==
    ASSUME NEW s \in Seq(Nat), NEW t \in Seq(Nat)
    PROVE  /\ s \o t \in Seq(Nat) /\ Len(s) \in Nat
           /\ DOMAIN s = 1..Len(s) /\ DOMAIN t = 1..Len(t)
           /\ \A i \in DOMAIN (s \o t) :
                \/ i \in DOMAIN s /\ (s \o t)[i] = s[i]
                \/ /\ i - Len(s) \in DOMAIN t /\ i > Len(s)
                   /\ (s \o t)[i] = t[i - Len(s)]
<1>1. /\ Len(s) \in Nat /\ Len(t) \in Nat
      /\ DOMAIN s = 1..Len(s) /\ DOMAIN t = 1..Len(t)
      /\ s \o t \in Seq(Nat) /\ Len(s \o t) = Len(s) + Len(t)
      /\ DOMAIN (s \o t) = 1..(Len(s) + Len(t))
  BY LenProperties, ConcatProperties
<1>2. \A i \in 1..(Len(s) + Len(t)) :
        (s \o t)[i] = IF i <= Len(s) THEN s[i] ELSE t[i - Len(s)]
  BY ConcatProperties
<1> QED
  BY <1>1, <1>2

-----------------------------------------------------------------------------
(* What is sent twice, and what the hold repeats. *)

\* In the queue, sequence numbers tell messages apart and are in their order.
Lined(E, top) ==
    \A e, f \in E :
        /\ e.message <= top
        /\ e.sequence < f.sequence <=> e.message < f.message
        /\ e.sequence = f.sequence => e = f

HeldFacts ==
    /\ ~holdEnabled => held = Unset
    /\ held <= received
    /\ held = Unset \/ held \in everHeld
    /\ holdEnabled /\ held # Unset => \A i \in DOMAIN delivered : delivered[i] <= held

StreamFacts ==
    /\ delivered \in Seq(Nat)
    /\ \A i \in DOMAIN delivered : delivered[i] <= received

\* What waits was not sent yet, unless as a held sample.
NotYetSent ==
    \A e \in entries, i \in DOMAIN delivered :
        delivered[i] = e.message => e.message \in everHeld

SInv ==
    /\ IInv
    /\ Lined(entries, received) /\ HeldFacts /\ StreamFacts
    /\ OnlyHeldSamplesRepeat /\ NotYetSent

LEMMA MessagesTellEntries ==
    ASSUME NEW E, E \subseteq Entries, NEW top, Lined(E, top), NEW e \in E, NEW f \in E,
           e.message = f.message
    PROVE  e = f
<1>1. e.sequence \in Nat /\ f.sequence \in Nat /\ e.message \in Nat
  BY DEF Entries
<1>2. ~(e.sequence < f.sequence) /\ ~(f.sequence < e.sequence)
  BY <1>1 DEF Lined
<1> QED
  BY <1>1, <1>2 DEF Lined

\* The arrival joins the queue behind all others.
LEMMA EnqueuedIsLined ==
    ASSUME IInv, Lined(entries, received), NEW E, NEW top, Enqueued(E, top),
           E \subseteq Entries
    PROVE  /\ Lined(E, top) /\ top \in Nat /\ received <= top
           /\ \A e \in E : e \in entries \/ (e.message = received + 1 /\ top = received + 1)
<1>1. /\ received \in Nat /\ nextSequence \in Nat /\ entries \subseteq Entries
      /\ \A e \in entries : e.sequence < nextSequence /\ e.sequence \in Nat
                            /\ e.message \in Nat /\ e.message <= received
  BY DEF IInv, TypeOK, SequencesBelowNext, Entries, Lined
<1>2. CASE E = entries /\ top = received
  BY <1>1, <1>2
<1>3. CASE ~(E = entries /\ top = received)
  <2>1. PICK d \in SampleDelays(config) :
            /\ E = entries \union {[deadline |-> lastTime' + d, sequence |-> nextSequence,
                                    message |-> received + 1]}
            /\ top = received + 1
    BY <1>3 DEF Enqueued
  <2> DEFINE new == [deadline |-> lastTime' + d, sequence |-> nextSequence,
                     message |-> received + 1]
  <2>2. E = entries \union {new} /\ new.sequence = nextSequence /\ new.message = received + 1
    BY <2>1
  <2> HIDE DEF new
  <2>3. Lined(E, top)
    <3> SUFFICES ASSUME NEW e \in E, NEW f \in E
                 PROVE  /\ e.message <= top
                        /\ e.sequence < f.sequence <=> e.message < f.message
                        /\ e.sequence = f.sequence => e = f
      BY DEF Lined
    <3>1. CASE e \in entries /\ f \in entries
      BY <1>1, <2>1, <3>1 DEF Lined
    <3>2. CASE e \in entries /\ f = new
      BY <1>1, <2>1, <2>2, <3>2
    <3>3. CASE e = new /\ f \in entries
      BY <1>1, <2>1, <2>2, <3>3
    <3>4. CASE e = new /\ f = new
      BY <1>1, <2>1, <2>2, <3>4
    <3> QED
      BY <2>2, <3>1, <3>2, <3>3, <3>4
  <2> QED
    BY <1>1, <2>1, <2>2, <2>3
<1> QED
  BY <1>2, <1>3

\* The part S of such a queue leaves it, each entry listed once.
Leaves(E, top, S, s, n) ==
    /\ E \subseteq Entries /\ top \in Nat /\ Lined(E, top) /\ received <= top
    /\ \A e \in E : e \in entries \/ (e.message = received + 1 /\ top = received + 1)
    /\ S \subseteq E /\ entries' = E \ S
    /\ n \in Nat /\ s \in [1..n -> S]
    /\ \A i, j \in 1..n : i < j => s[i] # s[j]
    /\ DOMAIN outputs' = 1..n /\ \A i \in 1..n : outputs'[i] = s[i].message
    /\ outputs' \in Seq(Nat) /\ delivered' = delivered \o outputs'
    /\ everHeld \subseteq everHeld' /\ received' = top

\* No message is repeated then that was not held.
LEMMA ListedOnce ==
    ASSUME SInv, NEW E, NEW top, NEW S, NEW s, NEW n, Leaves(E, top, S, s, n)
    PROVE  StreamFacts' /\ OnlyHeldSamplesRepeat' /\ NotYetSent'
<1> USE DEF Leaves
<1>1. /\ delivered \in Seq(Nat) /\ received \in Nat
      /\ \A i \in DOMAIN delivered : delivered[i] \in Nat /\ delivered[i] <= received
  BY LenProperties DEF SInv, StreamFacts, IInv, TypeOK
<1>2. /\ delivered' \in Seq(Nat) /\ Len(delivered) \in Nat
      /\ DOMAIN delivered = 1..Len(delivered)
      /\ \A i \in DOMAIN delivered' :
            \/ i \in DOMAIN delivered /\ delivered'[i] = delivered[i]
            \/ /\ i - Len(delivered) \in 1..n /\ i > Len(delivered)
               /\ delivered'[i] = s[i - Len(delivered)].message
  <2>1. delivered' \in Seq(Nat) /\ Len(delivered) \in Nat /\ DOMAIN delivered = 1..Len(delivered)
    BY <1>1
  <2>2. /\ outputs' \in Seq(Nat) /\ delivered' = delivered \o outputs'
        /\ DOMAIN outputs' = 1..n /\ \A i \in 1..n : outputs'[i] = s[i].message
    OBVIOUS
  <2> HIDE DEF Leaves
  <2>3. \A i \in DOMAIN delivered' :
            \/ i \in DOMAIN delivered /\ delivered'[i] = delivered[i]
            \/ /\ i - Len(delivered) \in 1..n /\ i > Len(delivered)
               /\ delivered'[i] = outputs'[i - Len(delivered)]
    BY <1>1, <2>2, Concatenation
  <2> QED
    BY <2>1, <2>2, <2>3
<1>3. \A k \in 1..n : s[k] \in E /\ s[k].message <= top /\ s[k].message \in Nat
  BY DEF Lined, Entries
<1>4. \A e \in E, i \in DOMAIN delivered :
        delivered[i] = e.message => e.message \in everHeld'
  <2> SUFFICES ASSUME NEW e \in E, NEW i \in DOMAIN delivered, delivered[i] = e.message
               PROVE  e.message \in everHeld'
    OBVIOUS
  <2>1. e.message # received + 1
    BY <1>1
  <2>2. e \in entries
    BY <2>1
  <2> QED
    BY <2>2 DEF SInv, NotYetSent
<1>5. StreamFacts'
  <2> SUFFICES ASSUME NEW i \in DOMAIN delivered' PROVE delivered'[i] <= received'
    BY <1>2 DEF StreamFacts
  <2>1. CASE i \in DOMAIN delivered /\ delivered'[i] = delivered[i]
    BY <1>1, <2>1
  <2>2. ASSUME NEW k \in 1..n, delivered'[i] = s[k].message
        PROVE  delivered'[i] <= received'
    BY <1>3, <2>2
  <2> QED
    BY <1>2, <2>1, <2>2
<1>6. OnlyHeldSamplesRepeat'
  <2> SUFFICES ASSUME NEW i \in DOMAIN delivered', NEW j \in DOMAIN delivered',
                      i # j, delivered'[i] = delivered'[j]
               PROVE  delivered'[i] \in everHeld'
    BY DEF OnlyHeldSamplesRepeat
  <2>1. CASE i \in DOMAIN delivered /\ delivered'[i] = delivered[i]
             /\ j \in DOMAIN delivered /\ delivered'[j] = delivered[j]
    BY <2>1 DEF SInv, OnlyHeldSamplesRepeat
  <2>2. ASSUME NEW a \in DOMAIN delivered, NEW k \in 1..n, delivered[a] = s[k].message
        PROVE  s[k].message \in everHeld'
    BY <1>3, <1>4, <2>2
  <2>3. ASSUME NEW k \in 1..n, NEW l \in 1..n, k # l
        PROVE  s[k].message # s[l].message
    <3>1. s[k] # s[l]
      BY <2>3
    <3> QED
      BY <1>3, <3>1, MessagesTellEntries
  <2>4. CASE /\ i - Len(delivered) \in 1..n
             /\ delivered'[i] = s[i - Len(delivered)].message
             /\ j - Len(delivered) \in 1..n
             /\ delivered'[j] = s[j - Len(delivered)].message
    <3>1. i - Len(delivered) # j - Len(delivered)
      BY <1>2
    <3> QED
      BY <2>3, <2>4, <3>1
  <2> DEFINE Old(x) == x \in DOMAIN delivered /\ delivered'[x] = delivered[x]
             New(x) == /\ x - Len(delivered) \in 1..n
                       /\ delivered'[x] = s[x - Len(delivered)].message
  <2>5. (Old(i) \/ New(i)) /\ (Old(j) \/ New(j))
    BY <1>2
  <2>6. CASE Old(i) /\ New(j)
    BY <2>2, <2>6
  <2>7. CASE New(i) /\ Old(j)
    BY <2>2, <2>7
  <2> QED
    BY <2>1, <2>4, <2>5, <2>6, <2>7
<1>7. NotYetSent'
  <2> SUFFICES ASSUME NEW e \in entries', NEW i \in DOMAIN delivered',
                      delivered'[i] = e.message
               PROVE  e.message \in everHeld'
    BY DEF NotYetSent
  <2>1. e \in E /\ e \notin S
    OBVIOUS
  <2>2. \A k \in 1..n : s[k] # e
    BY <2>1
  <2>3. \A k \in 1..n : s[k].message # e.message
    BY <1>3, <2>1, <2>2, MessagesTellEntries
  <2>4. CASE i \in DOMAIN delivered /\ delivered'[i] = delivered[i]
    BY <1>4, <2>1, <2>4
  <2>5. CASE /\ i - Len(delivered) \in 1..n
             /\ delivered'[i] = s[i - Len(delivered)].message
    BY <2>3, <2>5
  <2> QED
    BY <1>2, <2>4, <2>5
<1> QED
  BY <1>5, <1>6, <1>7

\* The queue after a release: part of a lined one.
LEMMA RestIsLined ==
    ASSUME NEW E, NEW top, Lined(E, top), entries' \subseteq E, received' = top
    PROVE  Lined(entries, received)'
BY DEF Lined

Facts == Lined(entries, received) /\ HeldFacts /\ StreamFacts
         /\ OnlyHeldSamplesRepeat /\ NotYetSent

\* The history that a step adds.
Noted ==
    /\ delivered' = delivered \o outputs'
    /\ everHeld' = everHeld \union ({held'} \ {Unset})
    /\ delays' = delays \union DelayOf(config')

LEMMA SilentKeepsFacts ==
    ASSUME SInv, Silent, IInv', Noted
    PROVE  Facts'
<1>1. delivered' = delivered /\ delivered \in Seq(Nat)
  BY ConcatEmptySeq DEF Silent, Noted, SInv, StreamFacts
<1>2. /\ received \in Nat /\ received' \in Nat /\ received <= received' /\ held \in Nat
      /\ \A i \in DOMAIN delivered : delivered[i] \in Nat
      /\ \A e \in entries : e.message \in Nat
  BY <1>1, LenProperties DEF SInv, IInv, TypeOK, Silent, Entries
<1>3. Lined(entries, received)'
  BY <1>2 DEF SInv, Lined, Silent
<1>4. HeldFacts'
  BY <1>1, <1>2 DEF SInv, HeldFacts, Silent, Noted
<1>5. StreamFacts'
  BY <1>1, <1>2 DEF SInv, StreamFacts
<1>6. OnlyHeldSamplesRepeat' /\ NotYetSent'
  BY <1>1 DEF SInv, OnlyHeldSamplesRepeat, NotYetSent, Silent, Noted
<1> QED
  BY <1>3, <1>4, <1>5, <1>6 DEF Facts

\* One message is sent: one that is new, or the one that is held.
LEMMA SentOnce ==
    ASSUME SInv, Sends
    PROVE  /\ \E x \in Nat : /\ outputs' = <<x>> /\ x <= received + 1
                             /\ \A i \in DOMAIN delivered : delivered[i] <= x
                             /\ x = IF holdEnabled THEN held' ELSE received + 1
           /\ held' \in Nat /\ held' <= received + 1
           /\ ~holdEnabled => held' = Unset
           /\ held' = Unset \/ held' = held \/ held' = received + 1
           /\ holdEnabled => held' # Unset
<1> DEFINE x == IF holdEnabled THEN held' ELSE received + 1
<1>1. /\ received \in Nat /\ held \in Nat /\ held <= received
      /\ \A i \in DOMAIN delivered : delivered[i] \in Nat /\ delivered[i] <= received
  BY LenProperties DEF SInv, IInv, TypeOK, HeldFacts, StreamFacts
<1>2. held' = IF holdEnabled /\ held = Unset THEN received + 1 ELSE held
  BY DEF Sends, HeldOnReceive, Arrival
<1>3. outputs' = <<x>>
  BY DEF Sends, Arrival
<1>4. \A i \in DOMAIN delivered : delivered[i] <= x
  BY <1>1, <1>2 DEF SInv, HeldFacts
<1> QED
  BY <1>1, <1>2, <1>3, <1>4 DEF SInv, HeldFacts, Unset

LEMMA SendsKeepsFacts ==
    ASSUME SInv, Sends, Noted
    PROVE  Facts'
<1>1. PICK x \in Nat : /\ outputs' = <<x>> /\ x <= received + 1
                       /\ \A i \in DOMAIN delivered : delivered[i] <= x
                       /\ x = IF holdEnabled THEN held' ELSE received + 1
  BY SentOnce
<1>2. /\ received \in Nat /\ received' = received + 1 /\ delivered \in Seq(Nat)
      /\ \A i \in DOMAIN delivered : delivered[i] \in Nat /\ delivered[i] <= received
  BY LenProperties DEF SInv, IInv, TypeOK, StreamFacts, Sends
<1>3. /\ delivered' \in Seq(Nat)
      /\ \A i \in DOMAIN delivered' :
            \/ i \in DOMAIN delivered /\ delivered'[i] = delivered[i]
            \/ i = Len(delivered) + 1 /\ delivered'[i] = x
  <2>1. outputs' \in Seq(Nat) /\ DOMAIN outputs' = {1} /\ outputs'[1] = x
    BY <1>1
  <2> QED
    BY <1>2, <2>1, Concatenation DEF Noted
<1>4. entries' = {} /\ holdEnabled' = holdEnabled
  BY DEF Sends
<1>5. Lined(entries, received)' /\ NotYetSent'
  BY <1>4 DEF Lined, NotYetSent
<1>6. StreamFacts'
  <2> SUFFICES ASSUME NEW i \in DOMAIN delivered' PROVE delivered'[i] <= received'
    BY <1>3 DEF StreamFacts
  <2>1. CASE i \in DOMAIN delivered /\ delivered'[i] = delivered[i]
    BY <1>2, <2>1
  <2>2. CASE delivered'[i] = x
    BY <1>1, <1>2, <2>2
  <2> QED
    BY <1>3, <2>1, <2>2
<1>7. HeldFacts'
  <2>1. held' = Unset \/ held' \in everHeld'
    BY DEF Noted
  <2>2. ASSUME holdEnabled, NEW i \in DOMAIN delivered' PROVE delivered'[i] <= held'
    BY <1>1, <1>3, <2>2
  <2> QED
    BY <1>2, <1>4, <2>1, <2>2, SentOnce DEF HeldFacts
<1>8. OnlyHeldSamplesRepeat'
  <2>1. holdEnabled => x \in everHeld'
    BY <1>1, SentOnce DEF Noted
  <2>2. ~holdEnabled => \A i \in DOMAIN delivered : delivered[i] # x
    BY <1>1, <1>2
  <2> QED
    BY <1>1, <1>3, <2>1, <2>2 DEF SInv, OnlyHeldSamplesRepeat, Noted
<1> QED
  BY <1>5, <1>6, <1>7, <1>8 DEF Facts

LEMMA ReleasesKeepsFacts ==
    ASSUME SInv, NEW E, NEW top, Releases(E, top), IInv', Noted
    PROVE  Facts'
<1>1. /\ Lined(E, top) /\ top \in Nat /\ received <= top
      /\ \A e \in E : e \in entries \/ (e.message = received + 1 /\ top = received + 1)
  BY EnqueuedIsLined DEF SInv, Releases
<1> DEFINE S == Ready(E, lastTime')
<1>2. entries' = E \ S /\ S \subseteq E
  BY PopLists DEF Releases, Ready
<1>3. PICK s, n : Lists(s, n, S, PopsBefore)
  BY PopLists DEF Releases
<1>4. \A i, j \in 1..n : i < j => s[i] # s[j]
  BY <1>2, <1>3, OrdersAreStrict DEF Lists, Releases
<1>5. outputs' \in Seq(Nat)
  BY SeqMonotonic DEF IInv, TypeOK
<1> HIDE DEF S
<1>6. StreamFacts' /\ OnlyHeldSamplesRepeat' /\ NotYetSent'
  <2>1. /\ E \subseteq Entries /\ received' = top
        /\ delivered' = delivered \o outputs' /\ everHeld \subseteq everHeld'
    BY DEF Releases, Noted
  <2>2. /\ n \in Nat /\ s \in [1..n -> S] /\ DOMAIN outputs' = 1..n
        /\ \A i \in 1..n : outputs'[i] = s[i].message
    BY <1>3 DEF Lists
  <2> QED
    <3>1. Leaves(E, top, S, s, n)
      BY <1>1, <1>2, <1>4, <1>5, <2>1, <2>2 DEF Leaves
    <3> QED
      BY <3>1, ListedOnce
<1>7. Lined(entries, received)'
  BY <1>1, <1>2, RestIsLined DEF Releases
<1>8. HeldFacts'
  BY <1>1 DEF SInv, IInv, TypeOK, HeldFacts, Releases, Unset
<1> QED
  BY <1>6, <1>7, <1>8 DEF Facts

LEMMA SwitchesKeepsFacts ==
    ASSUME SInv, NEW c, Switches(c), IInv', Noted
    PROVE  Facts'
<1>1. /\ received \in Nat /\ received' = received /\ held \in Nat /\ latest = received
      /\ entries \subseteq Entries /\ IsFiniteSet(entries)
      /\ LatencyIsActive(config) => ~holdEnabled
      /\ outputs' \in Seq(Nat)
  BY SeqMonotonic
     DEF SInv, IInv, TypeOK, Switches, LatestIsNewestArrival, HoldFollowsConfig,
         LatencyIsActive, StaleIsActive
<1>2. CASE LeavesLatency(c)
  <2>1. entries' = {}
    BY <1>1, <1>2, FlushLists DEF Switches
  <2>2. PICK s, n : Lists(s, n, entries, FlushesBefore)
    BY <1>1, <1>2, FlushLists DEF Switches
  <2>3. \A i, j \in 1..n : i < j => s[i] # s[j]
    BY <1>1, <2>2, OrdersAreStrict DEF Lists
  <2>4. StreamFacts' /\ OnlyHeldSamplesRepeat' /\ NotYetSent'
    <3>1. /\ Lined(entries, received) /\ received <= received
          /\ delivered' = delivered \o outputs' /\ everHeld \subseteq everHeld'
          /\ entries' = entries \ entries
      BY <1>1, <2>1 DEF Noted, SInv
    <3>2. /\ n \in Nat /\ s \in [1..n -> entries] /\ DOMAIN outputs' = 1..n
          /\ \A i \in 1..n : outputs'[i] = s[i].message
      BY <2>2 DEF Lists
    <3>3. Leaves(entries, received, entries, s, n)
      BY <1>1, <2>3, <3>1, <3>2 DEF Leaves
    <3> QED
      BY <3>3, ListedOnce
  <2>5. Lined(entries, received)'
    BY <2>1 DEF Lined
  <2>6. HeldFacts'
    BY <1>1, <1>2, <2>4
       DEF SInv, HeldFacts, StreamFacts, Switches, HeldOnSwitch, LeavesLatency, Noted, Unset
  <2> QED
    BY <2>4, <2>5, <2>6 DEF Facts
<1>3. CASE ~LeavesLatency(c)
  <2>1. entries' = entries /\ outputs' = <<>>
    BY <1>3 DEF Switches
  <2>2. delivered' = delivered
    BY <2>1, ConcatEmptySeq DEF Noted, SInv, StreamFacts
  <2>3. HeldFacts'
    BY <1>1, <2>2
       DEF SInv, HeldFacts, StreamFacts, Switches, HeldOnSwitch, Noted, Unset
  <2> QED
    BY <1>1, <2>1, <2>2, <2>3
       DEF Facts, SInv, Lined, StreamFacts, OnlyHeldSamplesRepeat, NotYetSent, Noted
<1> QED
  BY <1>2, <1>3

LEMMA NextKeepsFacts == SInv /\ [MCNext]_mcvars => SInv'
<1> SUFFICES ASSUME SInv, [MCNext]_mcvars PROVE SInv'
  OBVIOUS
<1>1. IInv'
  BY NextKeeps DEF SInv, MCNext, mcvars
<1>2. CASE UNCHANGED mcvars
  BY <1>1, <1>2
     DEF mcvars, vars, injector, queue, hold, counters, SInv, Lined, HeldFacts, StreamFacts,
         OnlyHeldSamplesRepeat, NotYetSent
<1>3. CASE MCNext
  <2>1. Next /\ Noted
    BY <1>3 DEF MCNext, Noted
  <2>2. Facts'
    BY <1>1, <2>1, StepKinds, SilentKeepsFacts, SendsKeepsFacts, ReleasesKeepsFacts,
       SwitchesKeepsFacts DEF SInv
  <2> QED
    BY <1>1, <2>2 DEF SInv, Facts
<1> QED
  BY <1>2, <1>3

LEMMA StreamInitEstablishes == MCInit => SInv
<1> SUFFICES ASSUME MCInit PROVE SInv
  OBVIOUS
<1>1. IInv /\ entries = {} /\ held = Unset /\ received = 0 /\ delivered = <<>>
      /\ held <= received
  BY InitEstablishes DEF MCInit, Init, Unset
<1>2. delivered \in Seq(Nat) /\ DOMAIN delivered = {}
  BY <1>1
<1> QED
  BY <1>1, <1>2
     DEF SInv, Lined, HeldFacts, StreamFacts, OnlyHeldSamplesRepeat, NotYetSent

LEMMA StreamInvariance == MCSpec => []SInv
BY StreamInitEstablishes, NextKeepsFacts, PTL DEF MCSpec

\* No message is sent twice, through any changes of mode, unless a hold repeats it
\* (receive, poll and configure of FaultInjector, with StaleHold).
THEOREM NothingSentTwice == MCSpec => []OnlyHeldSamplesRepeat
<1>1. SInv => OnlyHeldSamplesRepeat
  BY DEF SInv
<1> QED
  BY <1>1, StreamInvariance, PTL

-----------------------------------------------------------------------------
(* Order while and after latency is on. *)

OvertakeStep ==
    ~LatencyIsActive(config') =>
        /\ Ascending(outputs')
        /\ ~LatencyIsActive(config) =>
            \A i \in DOMAIN outputs', j \in DOMAIN delivered :
                delivered[j] <= outputs'[i]

\* What a flush lists is in order of arrival.
LEMMA FlushAscends ==
    ASSUME SInv, NEW s, NEW n, Lists(s, n, entries, FlushesBefore)
    PROVE  Ascending(outputs')
<1>1. \A e \in entries : e.message \in Nat
  BY DEF SInv, IInv, TypeOK, Entries
<1>2. \A e, f \in entries : e.sequence < f.sequence => e.message < f.message
  BY DEF SInv, Lined
<1>3. \A i, j \in 1..n : i < j => s[i].message <= s[j].message
  BY <1>1, <1>2 DEF Lists, FlushesBefore
<1> QED
  BY <1>3 DEF Lists, Ascending

LEMMA OvertakeStepAllowed == SInv /\ [MCNext]_mcvars => [OvertakeStep]_mcvars
<1> SUFFICES ASSUME SInv, Next PROVE OvertakeStep
  BY DEF MCNext
<1>1. CASE Sends
  BY <1>1, SentOnce DEF OvertakeStep, Ascending
<1>2. CASE outputs' = <<>>
  BY <1>2 DEF OvertakeStep, Ascending
<1>3. ASSUME NEW c, Switches(c), LeavesLatency(c) PROVE OvertakeStep
  <2>1. LatencyIsActive(config)
    BY <1>3 DEF LeavesLatency
  <2>2. PICK s, n : Lists(s, n, entries, FlushesBefore)
    BY <1>3, FlushLists DEF Switches, SInv, IInv, TypeOK
  <2> QED
    BY <2>1, <2>2, FlushAscends DEF OvertakeStep
<1>4. ASSUME NEW E, NEW top, Releases(E, top) PROVE OvertakeStep
  BY <1>4 DEF Releases, OvertakeStep
<1> QED
  BY <1>1, <1>2, <1>3, <1>4, StepKinds DEF SInv, Silent, Switches

\* Messages overtake one another in latency mode only: on the way out of it they
\* are sent in order of arrival, and afterwards nothing older than what was sent
\* (configure with LatencyQueue.flush, StaleHold.set_enabled).
THEOREM OrderReturns == MCSpec => OvertakingEndsWithLatency
<1>1. MCSpec => [][OvertakeStep]_mcvars
  BY StreamInvariance, OvertakeStepAllowed, PTL DEF MCSpec
<1> QED
  BY <1>1 DEF OvertakingEndsWithLatency, OvertakeStep

-----------------------------------------------------------------------------
(* Order under one constant delay. *)

Steady(D) == \A d \in delays : d = <<D, 0>>

\* With one delay the deadlines are in order of arrival.
Queued(E, t, D) ==
    /\ \A e, f \in E : e.message < f.message => e.deadline <= f.deadline
    /\ \A e \in E : e.deadline <= t + D

Behind(E) == \A e \in E, i \in DOMAIN delivered : delivered[i] <= e.message

OrderFacts(D) == Ascending(delivered) /\ Behind(entries) /\ Queued(entries, lastTime, D)

DelaysNoted ==
    /\ DelayOf(config) \subseteq delays
    /\ IsFiniteSet(delays) /\ delays \subseteq Nat \X Nat

OInv == SInv /\ DelaysNoted /\ \A D \in Nat : Steady(D) => OrderFacts(D)

LEMMA AscendingAppended ==
    ASSUME NEW s \in Seq(Nat), NEW t \in Seq(Nat), Ascending(s), Ascending(t),
           \A i \in DOMAIN s, k \in DOMAIN t : s[i] <= t[k]
    PROVE  Ascending(s \o t)
<1> SUFFICES ASSUME NEW i \in DOMAIN (s \o t), NEW j \in DOMAIN (s \o t), i < j
             PROVE  (s \o t)[i] <= (s \o t)[j]
  BY DEF Ascending
<1>1. /\ Len(s) \in Nat /\ DOMAIN s = 1..Len(s) /\ DOMAIN t = 1..Len(t)
      /\ i \in Nat /\ j \in Nat
  <2>1. s \o t \in Seq(Nat) /\ Len(s) \in Nat
        /\ DOMAIN s = 1..Len(s) /\ DOMAIN t = 1..Len(t)
    BY Concatenation
  <2>2. DOMAIN (s \o t) \subseteq Nat
    BY <2>1, LenProperties
  <2> QED
    BY <2>1, <2>2
<1>2. CASE i \in DOMAIN s
  <2>1. (s \o t)[i] = s[i]
    BY <1>1, <1>2, Concatenation
  <2>2. CASE j \in DOMAIN s /\ (s \o t)[j] = s[j]
    BY <1>2, <2>1, <2>2 DEF Ascending
  <2>3. CASE j - Len(s) \in DOMAIN t /\ (s \o t)[j] = t[j - Len(s)]
    BY <1>2, <2>1, <2>3
  <2> QED
    BY <2>2, <2>3, Concatenation
<1>3. CASE i \notin DOMAIN s
  <2>1. /\ i - Len(s) \in DOMAIN t /\ i > Len(s) /\ (s \o t)[i] = t[i - Len(s)]
    BY <1>3, Concatenation
  <2>2. /\ j - Len(s) \in DOMAIN t /\ (s \o t)[j] = t[j - Len(s)]
    BY <1>1, <2>1, Concatenation
  <2>3. i - Len(s) < j - Len(s)
    BY <1>1
  <2> QED
    BY <2>1, <2>2, <2>3 DEF Ascending
<1> QED
  BY <1>2, <1>3

\* Nothing is sent: the order stays, however the clock runs.
LEMMA NothingDisordered ==
    ASSUME OInv, NEW D \in Nat, OrderFacts(D), ClockRuns,
           entries' \subseteq entries, delivered' = delivered
    PROVE  OrderFacts(D)'
<1>1. lastTime \in Int /\ lastTime' \in Int /\ lastTime <= lastTime'
  BY DEF ClockRuns, OInv, SInv, IInv, TypeOK, Times, NoTime
<1>2. \A e \in entries : e.deadline \in Nat
  BY DEF OInv, SInv, IInv, TypeOK, Entries
<1>3. Queued(entries, lastTime, D)'
  BY <1>1, <1>2 DEF OrderFacts, Queued
<1> QED
  BY <1>3 DEF OrderFacts, Behind

\* What is sent is in order, behind what was sent, and before what still waits.
LEMMA AppendedInOrder ==
    ASSUME OInv, IInv', Noted, NEW D \in Nat, OrderFacts(D), Ascending(outputs'),
           \A i \in DOMAIN delivered, k \in DOMAIN outputs' : delivered[i] <= outputs'[k],
           \A e \in entries' : /\ \A i \in DOMAIN delivered : delivered[i] <= e.message
                               /\ \A k \in DOMAIN outputs' : outputs'[k] <= e.message,
           Queued(entries, lastTime, D)'
    PROVE  OrderFacts(D)'
<1>1. delivered \in Seq(Nat) /\ outputs' \in Seq(Nat) /\ delivered' = delivered \o outputs'
  BY SeqMonotonic DEF OInv, SInv, StreamFacts, IInv, TypeOK, Noted
<1>2. Ascending(delivered)'
  BY <1>1, AscendingAppended DEF OrderFacts, Ascending
<1>3. Behind(entries)'
  BY <1>1, Concatenation DEF Behind
<1> QED
  BY <1>2, <1>3 DEF OrderFacts

\* One delay draws itself.
LEMMA OneDelay ==
    ASSUME NEW D \in Nat, NEW c \in FaultConfigs, c.delay = D, c.jitter = 0,
           NEW d \in SampleDelays(c)
    PROVE  d = D
<1>1. \A s \in (-0)..0 : s = 0
  OBVIOUS
<1>2. d = IF D + 0 > 0 THEN D + 0 ELSE 0
  BY <1>1 DEF SampleDelays
<1> QED
  BY <1>2

LEMMA SteadyDelay ==
    ASSUME OInv, NEW D \in Nat, Steady(D), LatencyIsActive(config)
    PROVE  config \in FaultConfigs /\ config.delay = D /\ config.jitter = 0
<1>1. <<config.delay, config.jitter>> \in delays
  BY DEF OInv, DelaysNoted, DelayOf
<1> QED
  BY <1>1 DEF Steady, OInv, SInv, IInv, TypeOK

\* The queue that is looked at is in order, with the arrival at its end.
LEMMA EnqueuedIsQueued ==
    ASSUME OInv, NEW D \in Nat, Steady(D), OrderFacts(D), ClockRuns,
           NEW E, NEW top, Releases(E, top)
    PROVE  Queued(E, lastTime', D) /\ Behind(E)
<1>1. /\ lastTime \in Int /\ lastTime' \in Nat /\ lastTime <= lastTime'
      /\ received \in Nat
      /\ \A e \in entries : e.deadline \in Nat /\ e.message \in Nat
      /\ \A i \in DOMAIN delivered : delivered[i] \in Nat /\ delivered[i] <= received
  BY LenProperties DEF ClockRuns, OInv, SInv, IInv, TypeOK, Times, NoTime, Entries, Releases, StreamFacts
<1>2. Queued(entries, lastTime', D) /\ Behind(entries)
  BY <1>1 DEF OrderFacts, Queued
<1>3. CASE E = entries
  BY <1>2, <1>3
<1>4. CASE E # entries
  <2>1. PICK d \in SampleDelays(config) :
            E = entries \union {[deadline |-> lastTime' + d, sequence |-> nextSequence,
                                 message |-> received + 1]}
    BY <1>4 DEF Releases, Enqueued
  <2>2. d = D
    BY SteadyDelay, OneDelay DEF Releases
  <2> DEFINE new == [deadline |-> lastTime' + d, sequence |-> nextSequence,
                     message |-> received + 1]
  <2>3. E = entries \union {new} /\ new.deadline = lastTime' + D /\ new.message = received + 1
    BY <2>1, <2>2
  <2> HIDE DEF new
  <2>4. \A e \in entries : e.message <= received
    BY DEF OInv, SInv, Lined
  <2>5. \A e \in entries : e.message < new.message /\ e.deadline <= new.deadline
    BY <1>1, <1>2, <2>3, <2>4 DEF Queued
  <2>6. \A e, f \in E : e.message < f.message => e.deadline <= f.deadline
    <3> SUFFICES ASSUME NEW e \in E, NEW f \in E, e.message < f.message
                 PROVE  e.deadline <= f.deadline
      OBVIOUS
    <3>1. CASE e \in entries /\ f \in entries
      BY <1>2, <3>1 DEF Queued
    <3>2. CASE e \in entries /\ f = new
      BY <2>5, <3>2
    <3>3. e # new
      BY <1>1, <2>3, <2>5
    <3> QED
      BY <2>3, <3>1, <3>2, <3>3
  <2>7. \A e \in E : e.deadline <= lastTime' + D
    BY <1>1, <1>2, <2>3 DEF Queued
  <2>8. Behind(E)
    BY <1>1, <1>2, <2>3 DEF Behind
  <2> QED
    BY <2>6, <2>7, <2>8 DEF Queued
<1> QED
  BY <1>3, <1>4

LEMMA ReleaseInOrder ==
    ASSUME OInv, IInv', Noted, NEW D \in Nat, Steady(D), OrderFacts(D), ClockRuns,
           NEW E, NEW top, Releases(E, top)
    PROVE  OrderFacts(D)'
<1> DEFINE S == Ready(E, lastTime')
<1>1. entries' = E \ S /\ \E s, n : Lists(s, n, S, PopsBefore)
  BY PopLists DEF Releases
<1>2. PICK s, n : Lists(s, n, S, PopsBefore)
  BY <1>1
<1>3. Queued(E, lastTime', D) /\ Behind(E)
  BY EnqueuedIsQueued
<1>4. /\ lastTime' \in Nat
      /\ \A e \in E : e.deadline \in Nat /\ e.message \in Nat /\ e.sequence \in Nat
  BY DEF Releases, Entries
<1>5. Lined(E, top)
  BY EnqueuedIsLined DEF Releases, OInv, SInv
<1>6. \A a, b \in E : PopsBefore(a, b) => a.message <= b.message
  <2> SUFFICES ASSUME NEW a \in E, NEW b \in E, PopsBefore(a, b), b.message < a.message
               PROVE  FALSE
    BY <1>4
  <2>1. b.deadline <= a.deadline /\ b.sequence < a.sequence
    BY <1>3, <1>5 DEF Queued, Lined
  <2> QED
    BY <1>4, <2>1 DEF PopsBefore
<1>7. \A a \in S, e \in E \ S : a.message <= e.message
  <2> SUFFICES ASSUME NEW a \in S, NEW e \in E \ S, e.message < a.message
               PROVE  FALSE
    BY <1>4 DEF Ready
  <2>1. a \in E /\ a.deadline <= lastTime' /\ e \in E /\ ~(e.deadline <= lastTime')
    BY DEF Ready
  <2>2. e.deadline <= a.deadline
    BY <1>3, <2>1 DEF Queued
  <2> QED
    BY <1>4, <2>1, <2>2
<1>8. S \subseteq E
  BY DEF Ready
<1> HIDE DEF S
<1>9. /\ n \in Nat /\ DOMAIN outputs' = 1..n
      /\ \A k \in 1..n : s[k] \in S /\ s[k] \in E /\ outputs'[k] = s[k].message
      /\ \A k, l \in 1..n : k < l => PopsBefore(s[k], s[l])
  BY <1>2, <1>8 DEF Lists
<1>10. Ascending(outputs')
  BY <1>6, <1>9 DEF Ascending
<1>11. \A i \in DOMAIN delivered, k \in DOMAIN outputs' : delivered[i] <= outputs'[k]
  BY <1>3, <1>9 DEF Behind
<1>12. \A e \in entries' : /\ \A i \in DOMAIN delivered : delivered[i] <= e.message
                           /\ \A k \in DOMAIN outputs' : outputs'[k] <= e.message
  BY <1>1, <1>3, <1>7, <1>9 DEF Behind
<1>13. Queued(entries, lastTime, D)'
  BY <1>1, <1>3 DEF Queued
<1> QED
  BY <1>10, <1>11, <1>12, <1>13, AppendedInOrder

LEMMA StepInOrder ==
    ASSUME OInv, IInv', Next, Noted, NEW D \in Nat, Steady(D)
    PROVE  OrderFacts(D)'
<1>1. OrderFacts(D) /\ ClockRuns /\ delivered \in Seq(Nat)
  BY StepKinds DEF OInv, SInv, StreamFacts
<1>2. ASSUME outputs' = <<>>, entries' = entries PROVE OrderFacts(D)'
  <2>1. delivered' = delivered
    BY <1>1, <1>2, ConcatEmptySeq DEF Noted
  <2> QED
    BY <1>1, <1>2, <2>1, NothingDisordered
<1>3. ASSUME entries' = {}, Ascending(outputs'),
             \A i \in DOMAIN delivered, k \in DOMAIN outputs' : delivered[i] <= outputs'[k]
      PROVE  OrderFacts(D)'
  <2>1. Queued(entries, lastTime, D)'
    BY <1>3 DEF Queued
  <2> QED
    BY <1>1, <1>3, <2>1, AppendedInOrder
<1>4. CASE Sends
  <2>1. PICK x : outputs' = <<x>> /\ \A i \in DOMAIN delivered : delivered[i] <= x
    BY <1>4, SentOnce DEF OInv
  <2>2. Ascending(outputs')
    BY <2>1 DEF Ascending
  <2> QED
    BY <1>3, <1>4, <2>1, <2>2 DEF Sends
<1>5. ASSUME NEW c, Switches(c), LeavesLatency(c) PROVE OrderFacts(D)'
  <2>1. entries' = {} /\ \E s, n : Lists(s, n, entries, FlushesBefore)
    BY <1>5, FlushLists DEF Switches, OInv, SInv, IInv, TypeOK
  <2>2. PICK s, n : Lists(s, n, entries, FlushesBefore)
    BY <2>1
  <2>3. Ascending(outputs')
    BY <2>2, FlushAscends DEF OInv
  <2>4. \A i \in DOMAIN delivered, k \in DOMAIN outputs' : delivered[i] <= outputs'[k]
    BY <1>1, <2>2 DEF Lists, OrderFacts, Behind
  <2> QED
    BY <1>3, <2>1, <2>3, <2>4
<1>6. ASSUME NEW E, NEW top, Releases(E, top) PROVE OrderFacts(D)'
  BY <1>1, <1>6, ReleaseInOrder
<1> QED
  BY <1>2, <1>4, <1>5, <1>6, StepKinds DEF OInv, SInv, Silent, Switches

LEMMA DelayOfType ==
    ASSUME NEW c \in FaultConfigs
    PROVE  DelayOf(c) \subseteq Nat \X Nat /\ IsFiniteSet(DelayOf(c))
<1>1. c.delay \in Nat /\ c.jitter \in Nat
  BY DEF FaultConfigs
<1>2. CASE DelayOf(c) = {<<c.delay, c.jitter>>}
  <2>1. <<c.delay, c.jitter>> \in Nat \X Nat
    BY <1>1
  <2>2. \A x : IsFiniteSet({x})
    BY FS_Singleton
  <2> QED
    BY <1>2, <2>1, <2>2
<1>3. CASE DelayOf(c) = {}
  BY <1>3, FS_EmptySet
<1> QED
  BY <1>2, <1>3 DEF DelayOf

LEMMA NextKeepsOrder == OInv /\ [MCNext]_mcvars => OInv'
<1> SUFFICES ASSUME OInv, [MCNext]_mcvars PROVE OInv'
  OBVIOUS
<1>1. SInv'
  BY NextKeepsFacts DEF OInv
<1>2. CASE UNCHANGED mcvars
  BY <1>1, <1>2
     DEF mcvars, vars, injector, queue, OInv, DelaysNoted, DelayOf, LatencyIsActive,
         Steady, OrderFacts, Behind, Queued, Ascending
<1>3. CASE MCNext
  <2>1. Next /\ Noted
    BY <1>3 DEF MCNext, Noted
  <2>2. IInv' /\ config' \in FaultConfigs
    BY <1>1 DEF SInv, IInv, TypeOK
  <2>3. DelaysNoted'
    <3>1. /\ DelayOf(config') \subseteq Nat \X Nat /\ IsFiniteSet(DelayOf(config'))
      BY <2>2, DelayOfType
    <3>2. delays' = delays \union DelayOf(config')
      BY <2>1 DEF Noted
    <3> QED
      BY <3>1, <3>2, FS_Union DEF OInv, DelaysNoted, DelayOf, LatencyIsActive
  <2>4. \A D \in Nat : Steady(D)' => Steady(D)
    BY <2>1 DEF Steady, Noted
  <2>5. \A D \in Nat : Steady(D)' => OrderFacts(D)'
    BY <2>1, <2>2, <2>4, StepInOrder
  <2> QED
    BY <1>1, <2>3, <2>5 DEF OInv
<1> QED
  BY <1>2, <1>3

LEMMA OrderInvariance == MCSpec => []OInv
<1>1. MCInit => OInv
  <2> SUFFICES ASSUME MCInit PROVE OInv
    OBVIOUS
  <2>1. SInv
    BY StreamInitEstablishes
  <2>2. /\ entries = {} /\ delivered = <<>> /\ delays = DelayOf(config)
        /\ config \in FaultConfigs
    BY AssumptionsHold DEF MCInit, Init, Assumptions
  <2>3. DelaysNoted
    BY <2>2, DelayOfType DEF DelaysNoted
  <2>4. DOMAIN delivered = {}
    BY <2>2
  <2> QED
    BY <2>1, <2>2, <2>3, <2>4 DEF OInv, OrderFacts, Ascending, Behind, Queued
<1> QED
  BY <1>1, NextKeepsOrder, PTL DEF MCSpec

\* Under one constant delay, or none, the stream is never reordered, through any
\* changes of mode (LatencyQueue: deadline, then sequence; flush by sequence).
THEOREM SteadyStreamInOrder == MCSpec => []InArrivalOrder
<1>1. OInv => InArrivalOrder
  <2> SUFFICES ASSUME OInv, Cardinality(delays) <= 1, \A d \in delays : d[2] = 0
               PROVE  Ascending(delivered)
    BY DEF InArrivalOrder
  <2>1. delays \subseteq Nat \X Nat /\ IsFiniteSet(delays)
    BY DEF OInv, DelaysNoted
  <2>2. PICK D \in Nat : Steady(D)
    <3>1. CASE delays = {}
      BY <3>1 DEF Steady
    <3>2. CASE delays # {}
      <4>1. PICK d \in delays : TRUE
        BY <3>2
      <4>2. delays \ {d} = {}
        <5>1. Cardinality(delays \ {d}) = Cardinality(delays) - 1
              /\ IsFiniteSet(delays \ {d})
          BY <2>1, <4>1, FS_RemoveElement
        <5>2. Cardinality(delays) \in Nat /\ Cardinality(delays \ {d}) \in Nat
          BY <2>1, <5>1, FS_CardinalityType
        <5> QED
          BY <5>1, <5>2, FS_EmptySet
      <4>3. d = <<d[1], 0>> /\ d[1] \in Nat
        BY <2>1, <4>1
      <4> QED
        BY <4>2, <4>3 DEF Steady
    <3> QED
      BY <3>1, <3>2
  <2> QED
    BY <2>2 DEF OInv, OrderFacts
<1> QED
  BY <1>1, OrderInvariance, PTL
=============================================================================
