--------------------------- MODULE FaultInjector ---------------------------
(***************************************************************************)
(* The in-memory fault injector (faults/injector.py) with the three fault  *)
(* mechanisms it coordinates: probabilistic dropout (faults/dropout.py),   *)
(* a delay queue (faults/latency.py) and a hold of one stale sample        *)
(* (faults/stale.py).  Exactly one mode is in force at a time; the caller  *)
(* supplies the time of every call.                                        *)
(*                                                                         *)
(* A message is named by its place among the accepted arrivals: the n-th   *)
(* accepted message is n.  Times are natural numbers.  Probabilities are   *)
(* percentages, of which only "never", "always" and "either" matter; the   *)
(* draws of the random generator are nondeterministic choices.             *)
(***************************************************************************)
EXTENDS Integers, Sequences, FiniteSets

CONSTANTS
    Configs,        \* the configurations a caller may apply
    InitialConfig,  \* the configuration given to the constructor
    MaxPending,     \* capacity of the latency queue
    ExternalRng,    \* TRUE when the caller supplied the random generator
    MaxTime,        \* bound: no call is made after this time
    MaxReceived     \* bound: at most this many messages arrive

FaultTypes == {"none", "dropout", "latency", "stale"}

FaultConfigs ==
    [enabled : BOOLEAN, faultType : FaultTypes, dropPercent : 0..100,
     delay : Nat, jitter : Nat, seed : Nat]

ASSUME ConfigsAssumption == Configs \subseteq FaultConfigs
ASSUME InitialConfigAssumption == InitialConfig \in FaultConfigs
ASSUME MaxPendingAssumption == MaxPending \in Nat \ {0}
ASSUME ExternalRngAssumption == ExternalRng \in BOOLEAN
ASSUME BoundsAssumption == MaxTime \in Nat /\ MaxReceived \in Nat

VARIABLES
    config,        \* the configuration in force
    entries,       \* the latency queue: deadline, sequence number and message
    nextSequence,  \* the queue's next sequence number
    queueTime,     \* the last time the queue accepted, NoTime at first
    holdEnabled,   \* the stale hold is on
    latest,        \* the newest message shown to the hold
    held,          \* the sample the hold repeats
    lastTime,      \* the last time the injector accepted, NoTime at first
    received, forwarded, dropped,   \* the cumulative counters
    raised,        \* what the last call raised: an exception's name or "nothing"
    outputs        \* the list the last call returned

counters == <<received, forwarded, dropped>>
queue == <<entries, nextSequence, queueTime>>
hold == <<holdEnabled, latest, held>>
injector == <<config, queue, hold, lastTime, counters>>
vars == <<injector, raised, outputs>>

NoTime == -1
Unset == 0       \* no sample: messages are numbered from 1

StaleIsActive(c) == c.enabled /\ c.faultType = "stale"
LatencyIsActive(c) == c.enabled /\ c.faultType = "latency"
DropoutIsActive(c) == c.enabled /\ c.faultType = "dropout"

Pending == Cardinality(entries)
Arrival == received + 1          \* the message being received

Init ==
    /\ config = InitialConfig
    /\ entries = {} /\ nextSequence = 0 /\ queueTime = NoTime
    /\ holdEnabled = StaleIsActive(InitialConfig)
    /\ latest = Unset /\ held = Unset
    /\ lastTime = NoTime
    /\ received = 0 /\ forwarded = 0 /\ dropped = 0
    /\ raised = "nothing" /\ outputs = <<>>

-----------------------------------------------------------------------------
(* Lists.  A list returned by the queue is the one arrangement of a set of *)
(* entries in a strict order.  Operators named Faulty... are never used by *)
(* the specification: each is the operator below it as a plausible bug     *)
(* would have it, substituted to see that the properties notice.           *)

Arrangements(S, Before(_, _)) ==
    {s \in [1..Cardinality(S) -> S] :
        \A i, j \in 1..Cardinality(S) : i < j => Before(s[i], s[j])}

FaultyPopsBefore(a, b) ==
    \/ a.deadline < b.deadline
    \/ a.deadline = b.deadline /\ a.sequence > b.sequence

PopsBefore(a, b) ==
    \/ a.deadline < b.deadline
    \/ a.deadline = b.deadline /\ a.sequence < b.sequence

FaultyFlushesBefore(a, b) == PopsBefore(a, b)

FlushesBefore(a, b) == a.sequence < b.sequence

Messages(s) == [i \in DOMAIN s |-> s[i].message]

-----------------------------------------------------------------------------
(* The three mechanisms. *)

\* Dropout.should_drop: the answers a probability allows.
ShouldDrop(c) ==
    {d \in BOOLEAN : (d => c.dropPercent > 0) /\ (~d => c.dropPercent < 100)}

\* LatencyQueue._sample_delay: the delays that draws in [-jitter, jitter] give.
SampleDelays(c) ==
    {IF c.delay + s > 0 THEN c.delay + s ELSE 0 : s \in (-c.jitter)..c.jitter}

FaultyReady(E, now) == {e \in E : e.deadline < now}

\* LatencyQueue.pop_ready: the entries whose deadlines have passed.
Ready(E, now) == {e \in E : e.deadline <= now}

\* StaleHold.receive: the sample held once the arriving message was seen.
FaultyHeldOnReceive == IF holdEnabled THEN Arrival ELSE held

HeldOnReceive == IF holdEnabled /\ held = Unset THEN Arrival ELSE held

\* StaleHold.set_enabled: a hold starts from the newest message, ends empty.
HeldOnSwitch(on) ==
    CASE on /\ ~holdEnabled /\ latest # Unset -> latest
      [] ~on /\ holdEnabled -> Unset
      [] OTHER -> held

-----------------------------------------------------------------------------
(* Calls that return.  Each takes the time "now" from its caller.          *)

FaultyClockAfter(now) == lastTime

\* The injector's clock after a call accepted at this time.
ClockAfter(now) == now

ValidTime(now) == lastTime <= now

FaultyQueueFull == Pending > MaxPending

QueueFull == Pending >= MaxPending

Return(list) == raised' = "nothing" /\ outputs' = list

\* receive: what every mode does on accepting a message.
Accept(now) ==
    /\ ValidTime(now)
    /\ ~(LatencyIsActive(config) /\ QueueFull)
    /\ received' = received + 1
    /\ lastTime' = ClockAfter(now)
    /\ UNCHANGED <<config, holdEnabled>>

\* receive -> StaleHold.receive -> one output: the message or the held sample.
Forward ==
    /\ latest' = Arrival
    /\ held' = HeldOnReceive
    /\ Return(<<IF holdEnabled THEN held' ELSE Arrival>>)
    /\ forwarded' = forwarded + 1
    /\ UNCHANGED <<queue, dropped>>

\* receive with no fault, or with the stale hold (which replaces the output).
ReceivePlain(now) ==
    /\ ~DropoutIsActive(config) /\ ~LatencyIsActive(config)
    /\ Accept(now)
    /\ Forward

ReceiveDropoutKept(now) ==
    /\ DropoutIsActive(config)
    /\ FALSE \in ShouldDrop(config)
    /\ Accept(now)
    /\ Forward

\* A dropped message is still shown to the hold.
LatestOnDrop == Arrival

ReceiveDropped(now) ==
    /\ DropoutIsActive(config)
    /\ TRUE \in ShouldDrop(config)
    /\ Accept(now)
    /\ latest' = LatestOnDrop
    /\ held' = HeldOnReceive
    /\ dropped' = dropped + 1
    /\ Return(<<>>)
    /\ UNCHANGED <<queue, forwarded>>

\* pop_ready on a queue holding E: what is due leaves in deadline order.
PopReady(E, now) ==
    \E s \in Arrangements(Ready(E, now), PopsBefore) :
        /\ entries' = E \ Ready(E, now)
        /\ queueTime' = now
        /\ forwarded' = forwarded + Len(s)
        /\ Return(Messages(s))

\* receive -> enqueue, then the hold sees the message, then pop_ready.  The
\* queue checks the time against its own clock before it changes anything.
ReceiveDelayed(now) ==
    /\ LatencyIsActive(config)
    /\ Accept(now)
    /\ queueTime <= now
    /\ \E d \in SampleDelays(config) :
        PopReady(entries \union {[deadline |-> now + d,
                                  sequence |-> nextSequence,
                                  message |-> Arrival]}, now)
    /\ nextSequence' = nextSequence + 1
    /\ latest' = Arrival
    /\ held' = HeldOnReceive
    /\ UNCHANGED dropped

Receive(now) ==
    \/ ReceivePlain(now)
    \/ ReceiveDropoutKept(now)
    \/ ReceiveDropped(now)
    \/ ReceiveDelayed(now)

Poll(now) ==
    /\ ValidTime(now)
    /\ IF LatencyIsActive(config)
       THEN queueTime <= now /\ PopReady(entries, now)
       ELSE Return(<<>>) /\ UNCHANGED <<entries, queueTime, forwarded>>
    /\ lastTime' = ClockAfter(now)
    /\ UNCHANGED <<config, nextSequence, hold, received, dropped>>

FaultyLeavesLatency(c) == LatencyIsActive(config) /\ ~c.enabled

LeavesLatency(c) == LatencyIsActive(config) /\ ~LatencyIsActive(c)

SeedRefused(c) == ExternalRng /\ c.seed # config.seed

\* LatencyQueue.flush, on the way out of latency: arrival order, not deadlines.
FaultyFlush ==
    \E s \in Arrangements(entries, FlushesBefore) :
        /\ entries' = entries
        /\ forwarded' = forwarded + Len(s)
        /\ Return(Messages(s))

Flush ==
    \E s \in Arrangements(entries, FlushesBefore) :
        /\ entries' = {}
        /\ forwarded' = forwarded + Len(s)
        /\ Return(Messages(s))

FaultyPendingAfter(c) ==
    {[e EXCEPT !.deadline = @ - config.delay + c.delay] : e \in entries}

\* LatencyQueue.configure: the entries already queued are left as they are.
PendingAfter(c) == entries

Configure(c, now) ==
    /\ ValidTime(now)
    /\ ~SeedRefused(c)
    /\ IF LeavesLatency(c)
       THEN Flush
       ELSE entries' = PendingAfter(c) /\ Return(<<>>) /\ UNCHANGED forwarded
    /\ held' = HeldOnSwitch(StaleIsActive(c))
    /\ holdEnabled' = StaleIsActive(c)
    /\ config' = c
    /\ lastTime' = ClockAfter(now)
    /\ UNCHANGED <<nextSequence, queueTime, latest, received, dropped>>

-----------------------------------------------------------------------------
(* Calls that raise: nothing but the exception reaches the caller.         *)

Raise(e) == raised' = e /\ outputs' = <<>> /\ UNCHANGED injector

\* Any call with a time before the last accepted one.
RefuseTime(now) == ~ValidTime(now) /\ Raise("ValueError")

\* receive into a full queue.  The check precedes pop_ready, so the call is
\* refused even when entries that are due would have made room.
RefuseOverflow(now) ==
    /\ ValidTime(now)
    /\ LatencyIsActive(config) /\ QueueFull
    /\ Raise("QueueOverflowError")

RefuseSeed(c, now) == ValidTime(now) /\ SeedRefused(c) /\ Raise("ValueError")

-----------------------------------------------------------------------------
Next ==
    \E now \in 0..MaxTime :
        \/ received < MaxReceived /\ (Receive(now) \/ RefuseOverflow(now))
        \/ Poll(now)
        \/ RefuseTime(now)
        \/ \E c \in Configs : Configure(c, now) \/ RefuseSeed(c, now)

Spec == Init /\ [][Next]_vars

-----------------------------------------------------------------------------
(* Properties. *)

Entries == [deadline : Nat, sequence : Nat, message : Nat \ {0}]
Times == Nat \union {NoTime}

\* Every variable has its type and the queue never exceeds its capacity
\* (LatencyQueue.enqueue, FaultInjector.receive).
TypeOK ==
    /\ config \in FaultConfigs
    /\ entries \in SUBSET Entries /\ IsFiniteSet(entries)
    /\ Pending <= MaxPending
    /\ nextSequence \in Nat /\ queueTime \in Times
    /\ holdEnabled \in BOOLEAN /\ latest \in Nat /\ held \in Nat
    /\ lastTime \in Times
    /\ received \in Nat /\ forwarded \in Nat /\ dropped \in Nat
    /\ raised \in {"nothing", "ValueError", "QueueOverflowError"}
    /\ outputs \in Seq(Nat \ {0})

\* No arrival is lost or invented in the accounts: every accepted message is
\* forwarded (itself, or the held sample in its place), dropped or pending,
\* across every change of mode (the counters of FaultInjector).
Conservation == received = forwarded + dropped + Pending

\* Nothing is stranded: messages wait only while latency is in force, so that
\* poll, which looks at the queue in that mode alone, will find them.
PendingOnlyWhileDelaying == entries # {} => LatencyIsActive(config)

\* A time the injector accepts is never refused by the queue inside it, so a
\* call cannot fail half way (the two clocks of injector.py and latency.py).
InnerClockNeverAhead == queueTime <= lastTime

\* The hold has seen the newest arrival whatever became of it - forwarded,
\* dropped or still delayed - so a hold starts from it (StaleHold.latest).
LatestIsNewestArrival == latest = received

\* A queued message keeps the deadline it was given until it is emitted: it
\* leaves when the deadline has passed, or all leave when latency ends.
PendingKeptOrEmitted ==
    [][\A e \in entries :
        \/ e \in entries'
        \/ /\ \E i \in DOMAIN outputs' : outputs'[i] = e.message
           /\ e.deadline <= lastTime' \/ (entries' = {} /\ ~LatencyIsActive(config'))]_vars

\* While the hold stays on, everything sent downstream is one sample, and it is
\* the one held before the step (stale mode of receive, set_enabled).
HeldSampleFrozen ==
    [][(holdEnabled /\ holdEnabled' /\ held # Unset) =>
        /\ held' = held
        /\ \A i \in DOMAIN outputs' : outputs'[i] = held]_vars

Ledger == INSTANCE MessageLedger WITH Capacity <- MaxPending, pending <- Pending

\* The injector keeps the ledger's promise: no call moves a message from one
\* account to another in a way the ledger does not allow.
KeepsLedger == Ledger!Spec
=============================================================================
