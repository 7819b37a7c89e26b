-------------------------- MODULE WholeTrialProofs --------------------------
(***************************************************************************)
(* Theorems about whole trials: what is heard, and judged, of a trial in   *)
(* which there is nothing to be alarmed about, or nothing was applied, or  *)
(* a fault hides the robot, for all faults, deadlines, parameters and lags.*)
(*                                                                         *)
(* Every step of a trial is a step of the closed loop or leaves it alone,  *)
(* so that the inductive invariant of the loop holds in it.  To this       *)
(* TrialInv adds what has been published: no alarm where the loop raises   *)
(* none, and, with no fault, each sample once on both streams and just as  *)
(* late as any other.  What the observer has heard is a prefix of that,    *)
(* kind by kind, and the assertions are about the list of these.           *)
(*                                                                         *)
(* FaultInv adds what a fault brings about: when the lifecycle applied and *)
(* withdrew it, what it made of the stream of samples in between, and when *)
(* the alarm, the commands and the stop came.  When such a trial is judged *)
(* all of it lies far enough back to have been heard, and each assertion   *)
(* finds in the list the events that make it true.                         *)
(***************************************************************************)
EXTENDS WholeTrial, ClosedLoopProofs

LEMMA StepsOfLoop == [TrialNext]_trialVars => [Next]_vars
<1> SUFFICES ASSUME TrialNext PROVE [Next]_vars
  BY DEF trialVars
<1>1. CASE Sample
  BY <1>1 DEF Sample, Next
<1>2. CASE Inject
  BY <1>2 DEF Inject, Next
<1>3. CASE PollInjector
  BY <1>3 DEF PollInjector, Next
<1>4. CASE Arrive
  BY <1>4 DEF Arrive, Next
<1>5. CASE CheckStream
  BY <1>5 DEF CheckStream, Next
<1>6. CASE Stop
  BY <1>6 DEF Stop, Next
<1>7. CASE TickLifecycle
  BY <1>7 DEF TickLifecycle, Next
<1>8. CASE Pass
  BY <1>8 DEF Pass, Next
<1>9. CASE Overflow
  BY <1>9 DEF Overflow, Next
<1> QED
  BY <1>1, <1>2, <1>3, <1>4, <1>5, <1>6, <1>7, <1>8, <1>9
     DEF TrialNext, Begin, BecomeReady, HearAck, Conclude

\* A trial runs the closed loop: all that was proved of the loop holds in it.
LEMMA LoopHolds == TrialSpec => []IInv
<1>1. TrialInit => IInv
  BY InitEstablishes DEF TrialInit
<1>2. IInv /\ [TrialNext]_trialVars => IInv'
  BY NextKeeps, StepsOfLoop
<1> QED
  BY <1>1, <1>2, PTL DEF TrialSpec

\* In a trial the injector and the watchdog behave as their own modules allow: what
\* FaultInjectorProofs and WatchdogProofs show of them by themselves holds in trials,
\* whatever the lifecycle asks for and whenever.
THEOREM TrialsRunTheParts == TrialSpec => Injector!Spec /\ Watchdog!Spec
<1>1. TrialInit => Init
  BY DEF TrialInit
<1>2. TrialSpec => Loop
  BY <1>1, StepsOfLoop, PTL DEF TrialSpec, Loop
<1> QED
  BY <1>2, LoopImplementsInjector, LoopImplementsWatchdog, PTL

-----------------------------------------------------------------------------
(* What has been published. *)

Data == Nat \union BOOLEAN \union [stamp : Nat, stopped : BOOLEAN]
        \union {"message_age_exceeded", "loss_fraction_exceeded", "none"}

Messages(k) == [kind : {k}, at : Nat, data : Data]

Published ==
    /\ dropped \in Nat
    /\ lag \in [Kinds -> Lags]
    /\ DOMAIN evidence = Kinds
    /\ \A k \in Kinds : evidence[k] \in Seq(Messages(k))

\* No alarm and no stop is published where there is nothing to be alarmed about.
NoAlarms == Tolerated => evidence["violation"] = <<>> /\ evidence["recovery"] = <<>>

\* On each topic messages are received in order, each after the same time.
InTime ==
    \A k \in Kinds : \A i \in 1..Len(evidence[k]) :
        /\ evidence[k][i].at <= clock + lag[k]
        /\ \A j \in i..Len(evidence[k]) : evidence[k][i].at <= evidence[k][j].at

\* Each sample is published when it is due.  Once the robot has stopped it stays so.
RawPublished ==
    /\ Len(evidence["raw"]) = received + Len(raw)
    /\ \A i \in 1..Len(evidence["raw"]) :
        /\ evidence["raw"][i].at = StampOf(i) + lag["raw"]
        /\ evidence["raw"][i].data.stamp = StampOf(i)
        /\ evidence["raw"][i].data.stopped \in BOOLEAN
        /\ evidence["raw"][i].data.stopped => ~moving
        /\ \A j \in i..Len(evidence["raw"]) :
            evidence["raw"][i].data.stopped => evidence["raw"][j].data.stopped

\* With no fault applied yet, each sample goes through, takes as long as any other,
\* and none is counted as dropped.
Untouched ==
    appliedAt = NoTime =>
        /\ dropped = 0
        /\ Len(evidence["faulted"]) = received
        /\ \A i \in 1..Len(evidence["faulted"]) :
            /\ evidence["faulted"][i].at = StampOf(i) + lag["faulted"]
            /\ evidence["faulted"][i].data = StampOf(i)
        /\ \A i \in 1..Len(evidence["counters"]) : evidence["counters"][i].data = 0

TrialInv ==
    /\ IInv /\ InOrder /\ Named
    /\ Published /\ InTime /\ NoAlarms /\ RawPublished /\ Untouched

\* These were published, and nothing else.
Emits(k, list) ==
    /\ Len(evidence'[k]) = Len(evidence[k]) + Len(list)
    /\ \A i \in 1..Len(evidence'[k]) :
        evidence'[k][i] =
            IF i <= Len(evidence[k]) THEN evidence[k][i]
            ELSE Heard(k, list[i - Len(evidence[k])])

LEMMA EmitEffect ==
    ASSUME Published, clock \in Nat, lag' = lag, dropped' \in Nat, NEW messages, Emit(messages),
           \A k \in Kinds \intersect DOMAIN messages : messages[k] \in Seq(Data)
    PROVE  /\ Published'
           /\ \A k \in Kinds \ DOMAIN messages : evidence'[k] = evidence[k]
           /\ \A k \in Kinds \intersect DOMAIN messages : Emits(k, messages[k])
<1>1. DOMAIN evidence' = Kinds
  BY DEF Emit
<1>2. \A k \in Kinds : lag[k] \in Nat
  BY DeadlinesAssumption DEF Published
<1>3. ASSUME NEW k \in Kinds \ DOMAIN messages
      PROVE  evidence'[k] = evidence[k] /\ evidence'[k] \in Seq(Messages(k))
  BY DEF Emit, Published
<1>4. ASSUME NEW k \in Kinds \intersect DOMAIN messages
      PROVE  Emits(k, messages[k]) /\ evidence'[k] \in Seq(Messages(k))
  <2> DEFINE old == evidence[k]
             given == messages[k]
             new == [i \in DOMAIN given |-> Heard(k, given[i])]
  <2>1. old \in Seq(Messages(k)) /\ given \in Seq(Data)
    BY DEF Published
  <2>2. evidence'[k] = old \o new
    BY DEF Emit
  <2>3. DOMAIN given = 1..Len(given) /\ Len(given) \in Nat
        /\ \A i \in 1..Len(given) : given[i] \in Data
    BY <2>1
  <2>4. \A i \in 1..Len(given) : Heard(k, given[i]) \in Messages(k)
    BY <1>2, <2>3 DEF Heard, Messages
  <2>5. new \in Seq(Messages(k)) /\ Len(new) = Len(given)
        /\ \A i \in 1..Len(given) : new[i] = Heard(k, given[i])
    BY <2>3, <2>4
  <2> HIDE DEF old, given, new
  <2>6. /\ old \o new \in Seq(Messages(k))
        /\ Len(old \o new) = Len(old) + Len(given)
        /\ \A i \in 1..Len(old) + Len(given) :
             (old \o new)[i] = IF i <= Len(old) THEN old[i] ELSE new[i - Len(old)]
    <3> DEFINE M == Messages(k)
    <3>1. old \in Seq(M) /\ new \in Seq(M)
      BY <2>1, <2>5
    <3> HIDE DEF M
    <3>2. /\ old \o new \in Seq(M)
          /\ Len(old \o new) = Len(old) + Len(new)
          /\ \A i \in 1..Len(old) + Len(new) :
               (old \o new)[i] = IF i <= Len(old) THEN old[i] ELSE new[i - Len(old)]
      BY <3>1, ConcatProperties
    <3>3. Len(new) = Len(given)
      BY <2>5
    <3> QED
      BY <3>2, <3>3 DEF M
  <2>7. ASSUME NEW i \in 1..Len(old) + Len(given)
        PROVE  (old \o new)[i] = IF i <= Len(old) THEN old[i] ELSE Heard(k, given[i - Len(old)])
    <3>1. i <= Len(old) \/ i - Len(old) \in 1..Len(given)
      BY <2>1, <2>3
    <3> QED
      BY <2>5, <2>6, <3>1
  <2> QED
    BY <2>2, <2>6, <2>7 DEF Emits, old, given
<1> QED
  BY <1>1, <1>3, <1>4 DEF Published, Messages

LEMMA SendsStamps ==
    /\ \A X, n : Sends(X, n) => Sent \in Seq(Nat)
    /\ \A E : Releases(E) => Sent \in Seq(Nat)
BY DEF Sends, Releases

\* The stamps that the injector sends are published as they are.
LEMMA OutputsAreStamps ==
    ASSUME IInv, OnRaw \/ OnPoll \/ ApplyFault \/ WithdrawFault
    PROVE  Outputs \in Seq(Nat)
<1>1. Outputs = Sent
  BY DEF Outputs, Sent
<1>2. CASE OnRaw
  <2>1. Forwards \/ Drops \/ Delays
    BY <1>2, OnRawEffect DEF IInv
  <2> QED
    BY <1>1, <2>1, SendsStamps DEF Forwards, Drops, Delays
<1>3. CASE OnPoll
  <2>1. Releases(entries)
    BY <1>3, OnPollEffect DEF IInv
  <2> QED
    BY <1>1, <2>1, SendsStamps
<1>4. CASE ApplyFault \/ WithdrawFault
  <2>1. \E c : ApplyConfig(c) /\ (config = NoFault \/ c = NoFault)
    BY <1>4 DEF ApplyFault, WithdrawFault, IInv, Plumbing, InForce
  <2>2. Releases(entries)
    BY <2>1, ConfigureEffect DEF IInv
  <2> QED
    BY <1>1, <2>2, SendsStamps
<1> QED
  BY <1>1, <1>2, <1>3, <1>4

LEMMA DroppedStaysCount ==
    ASSUME dropped \in Nat, OnRaw \/ OnPoll \/ ApplyFault \/ WithdrawFault
    PROVE  dropped' \in Nat
<1>1. CASE OnRaw
  <2>1. dropped' = dropped \/ dropped' = dropped + 1
    <3>1. Injector!Forward => dropped' = dropped
      BY DEF Injector!Forward
    <3> QED
      BY <1>1, <3>1 DEF OnRaw, Injector!Receive, Injector!ReceivePlain,
         Injector!ReceiveDropoutKept, Injector!ReceiveDropped, Injector!ReceiveDelayed
  <2> QED
    BY <2>1
<1>2. CASE OnPoll
  BY <1>2 DEF OnPoll, Injector!Poll
<1>3. CASE ApplyFault \/ WithdrawFault
  <2>1. \E c : Injector!Configure(c, clock)
    BY <1>3 DEF ApplyFault, WithdrawFault, ApplyConfig
  <2> QED
    BY <2>1 DEF Injector!Configure
<1> QED
  BY <1>1, <1>2, <1>3

\* One more message is published on a topic, after those before it.
LEMMA EmitsOne ==
    ASSUME NEW k, NEW list, Emits(k, list), Len(list) = 1, NEW n \in Nat, Len(evidence[k]) = n
    PROVE  /\ Len(evidence'[k]) = n + 1
           /\ \A i \in 1..n : evidence'[k][i] = evidence[k][i]
           /\ evidence'[k][n + 1] = Heard(k, list[1])
<1>1. n + 1 \in 1..(n + 1) /\ n + 1 - n = 1 /\ ~(n + 1 <= n)
  OBVIOUS
<1>2. \A i \in 1..n : i \in 1..(n + 1) /\ i <= n
  OBVIOUS
<1>3. Len(evidence'[k]) = n + 1
  BY DEF Emits
<1>4. \A i \in 1..(n + 1) :
        evidence'[k][i] = IF i <= n THEN evidence[k][i] ELSE Heard(k, list[i - n])
  BY <1>3 DEF Emits
<1>5. evidence'[k][n + 1] = Heard(k, list[1])
  BY <1>1, <1>4
<1> QED
  BY <1>2, <1>3, <1>4, <1>5

LEMMA EmitsNothing ==
    ASSUME Published, Published', NEW k \in Kinds, NEW list, Emits(k, list), Len(list) = 0
    PROVE  evidence'[k] = evidence[k]
<1>1. evidence[k] \in Seq(Messages(k)) /\ evidence'[k] \in Seq(Messages(k))
  BY DEF Published, Messages
<1>2. Len(evidence'[k]) = Len(evidence[k])
  BY <1>1 DEF Emits
<1>3. \A i \in 1..Len(evidence[k]) : evidence'[k][i] = evidence[k][i]
  BY <1>1, <1>2 DEF Emits
<1> QED
  BY <1>1, <1>2, <1>3

\* A topic's list grows, by messages published now.
Grows ==
    \A k \in Kinds :
        /\ Len(evidence'[k]) >= Len(evidence[k])
        /\ \A i \in 1..Len(evidence[k]) : evidence'[k][i] = evidence[k][i]
        /\ \A i \in 1..Len(evidence'[k]) :
            i > Len(evidence[k]) => evidence'[k][i].at = clock + lag[k]

LEMMA Lengths == Published => \A k \in Kinds : Len(evidence[k]) \in Nat /\ lag[k] \in Nat
BY DeadlinesAssumption DEF Published

LEMMA EmitsGrows ==
    ASSUME Published, NEW k \in Kinds, NEW list, Len(list) \in Nat, Emits(k, list)
    PROVE  /\ Len(evidence'[k]) >= Len(evidence[k])
           /\ \A i \in 1..Len(evidence[k]) : evidence'[k][i] = evidence[k][i]
           /\ \A i \in 1..Len(evidence'[k]) :
                i > Len(evidence[k]) => evidence'[k][i].at = clock + lag[k]
<1> DEFINE n == Len(evidence[k])
           m == Len(list)
<1>1. n \in Nat /\ m \in Nat
  BY Lengths
<1>2. /\ Len(evidence'[k]) = n + m
      /\ \A i \in 1..n + m :
            evidence'[k][i] = IF i <= n THEN evidence[k][i] ELSE Heard(k, list[i - n])
  BY DEF Emits
<1>3. \A i : Heard(k, list[i - n]).at = clock + lag[k]
  BY DEF Heard
<1> HIDE DEF n, m
<1>4. /\ n + m >= n
      /\ \A i \in 1..n : i \in 1..n + m /\ i <= n
      /\ \A i \in 1..n + m : i > n => ~(i <= n)
  BY <1>1
<1> QED
  BY <1>2, <1>3, <1>4 DEF n

LEMMA NothingGrows == ASSUME Published, evidence' = evidence PROVE Grows
<1>1. \A k \in Kinds : Len(evidence[k]) \in Nat
  BY Lengths
<1>2. ASSUME NEW k \in Kinds
      PROVE  /\ Len(evidence[k]) >= Len(evidence[k])
             /\ \A i \in 1..Len(evidence[k]) : ~(i > Len(evidence[k]))
  BY <1>1
<1> QED
  BY <1>2 DEF Grows

-----------------------------------------------------------------------------
(* What each callback publishes. *)

LEMMA SampleEmits ==
    ASSUME IInv, Published, Sample
    PROVE  /\ Published' /\ lag' = lag /\ Grows
           /\ \A k \in Kinds \ {"raw"} : evidence'[k] = evidence[k]
           /\ Emits("raw", <<[stamp |-> clock, stopped |-> ~moving]>>)
           /\ clock = (received + Len(raw)) * Period
           /\ Len(raw) \in Nat /\ Len(raw') = Len(raw) + 1
           /\ UNCHANGED <<clock, fault, appliedAt, withdrawnAt, moving, received, dropped>>
<1> DEFINE sample == [stamp |-> clock, stopped |-> ~moving]
           messages == [raw |-> <<sample>>]
<1>1. /\ clock \in Nat /\ received \in Nat /\ moving \in BOOLEAN
      /\ nextSample = (received + Len(raw)) * Period /\ nextSample = clock
      /\ raw' = Append(raw, clock) /\ Len(raw) \in Nat /\ Len(raw') = Len(raw) + 1
      /\ UNCHANGED <<clock, fault, appliedAt, withdrawnAt, moving, received, dropped, lag>>
  <2>1. raw \in Seq({clock})
    <3>1. raw = <<>> \/ raw = <<clock>>
      BY DEF IInv, Plumbing, Sampled
    <3>2. CASE raw = <<>>
      BY <3>2
    <3>3. CASE raw = <<clock>>
      BY <3>3
    <3> QED
      BY <3>1, <3>2, <3>3
  <2> QED
    BY <2>1 DEF IInv, Plumbing, Types, Sampled, Sample, OnSample, injector, trial
<1>2. Published /\ dropped' \in Nat /\ Emit(messages)
  BY <1>1 DEF Published, Sample
<1>3. /\ Kinds \intersect DOMAIN messages = {"raw"}
      /\ messages["raw"] = <<sample>> /\ <<sample>> \in Seq(Data)
  BY <1>1 DEF Kinds, Data
<1> HIDE DEF messages
<1>4. /\ Published'
      /\ \A k \in Kinds \ {"raw"} : evidence'[k] = evidence[k]
      /\ Emits("raw", <<sample>>)
  BY <1>1, <1>2, <1>3, EmitEffect
<1>5. Grows
  <2>1. Len(<<sample>>) \in Nat /\ "raw" \in Kinds
    BY DEF Kinds
  <2>2. \A k \in Kinds : Len(evidence[k]) \in Nat
    BY Lengths
  <2>3. ASSUME NEW k \in Kinds \ {"raw"}
        PROVE  /\ Len(evidence'[k]) >= Len(evidence[k])
               /\ \A i \in 1..Len(evidence'[k]) : ~(i > Len(evidence[k]))
    BY <1>4, <2>2
  <2> QED
    BY <1>4, <2>1, <2>3, EmitsGrows DEF Grows
<1> QED
  BY <1>1, <1>4, <1>5

\* A call of the node publishes messages that it returns, and the counters.
LEMMA InjectorEmits ==
    ASSUME IInv, Published, lag' = lag, dropped' \in Nat, NEW list \in Seq(Nat),
           Emit([faulted |-> list, counters |-> <<dropped'>>])
    PROVE  /\ Published' /\ Grows
           /\ \A k \in {"raw", "violation", "recovery", "command"} : evidence'[k] = evidence[k]
           /\ Emits("faulted", list) /\ Emits("counters", <<dropped'>>)
<1> DEFINE messages == [faulted |-> list, counters |-> <<dropped'>>]
<1>1. clock \in Nat /\ Emit(messages)
  BY DEF IInv, Plumbing, Types
<1>2. dropped' \in Nat /\ list \in Seq(Nat)
  OBVIOUS
<1>3. /\ Kinds \intersect DOMAIN messages = {"faulted", "counters"}
      /\ Kinds \ DOMAIN messages = {"raw", "violation", "recovery", "command"}
      /\ messages["faulted"] = list /\ list \in Seq(Data)
      /\ messages["counters"] = <<dropped'>> /\ <<dropped'>> \in Seq(Data)
  <2>1. Nat \subseteq Data
    BY DEF Data
  <2>2. list \in Seq(Data) /\ <<dropped'>> \in Seq(Data)
    BY <1>2, <2>1
  <2> QED
    BY <2>2 DEF Kinds
<1>4. \A k \in Kinds \intersect DOMAIN messages : messages[k] \in Seq(Data)
  BY <1>3
<1> HIDE DEF messages
<1>5. /\ Published'
      /\ \A k \in {"raw", "violation", "recovery", "command"} : evidence'[k] = evidence[k]
      /\ Emits("faulted", list) /\ Emits("counters", <<dropped'>>)
  <2>1. /\ Published'
        /\ \A k \in Kinds \ DOMAIN messages : evidence'[k] = evidence[k]
        /\ \A k \in Kinds \intersect DOMAIN messages : Emits(k, messages[k])
    BY <1>1, <1>2, <1>4, EmitEffect
  <2> QED
    BY <1>3, <2>1
<1>6. Grows
  <2>1. /\ Len(list) \in Nat /\ Len(<<dropped'>>) \in Nat
        /\ "faulted" \in Kinds /\ "counters" \in Kinds
        /\ Kinds = {"raw", "violation", "recovery", "command"} \union {"faulted", "counters"}
    BY <1>2 DEF Kinds
  <2>2. \A k \in Kinds : Len(evidence[k]) \in Nat
    BY Lengths
  <2>3. ASSUME NEW k \in {"raw", "violation", "recovery", "command"}
        PROVE  /\ Len(evidence'[k]) >= Len(evidence[k])
               /\ \A i \in 1..Len(evidence'[k]) : ~(i > Len(evidence[k]))
    BY <1>5, <2>1, <2>2
  <2>4. ASSUME NEW k \in {"faulted", "counters"}
        PROVE  /\ Len(evidence'[k]) >= Len(evidence[k])
               /\ \A i \in 1..Len(evidence[k]) : evidence'[k][i] = evidence[k][i]
               /\ \A i \in 1..Len(evidence'[k]) :
                    i > Len(evidence[k]) => evidence'[k][i].at = clock + lag[k]
    <3>1. CASE k = "faulted"
      BY <1>5, <2>1, <3>1, EmitsGrows
    <3>2. CASE k = "counters"
      BY <1>5, <2>1, <3>2, EmitsGrows
    <3> QED
      BY <3>1, <3>2
  <2> QED
    BY <1>5, <2>1, <2>3, <2>4 DEF Grows
<1> QED
  BY <1>2, <1>5, <1>6

LEMMA PollEmits ==
    ASSUME IInv, Published, PollInjector
    PROVE  /\ Published' /\ lag' = lag /\ Grows
           /\ \A k \in Kinds \ {"faulted"} : evidence'[k] = evidence[k]
           /\ Outputs \in Seq(Nat) /\ Emits("faulted", Outputs)
           /\ UNCHANGED <<clock, trial, robot, raw, received, dropped>>
           /\ Releases(entries)
<1> DEFINE messages == [faulted |-> Outputs]
<1>1. OnPoll /\ Plumbing /\ clock \in Nat
  BY DEF IInv, Plumbing, Types, PollInjector
<1>2. UNCHANGED <<clock, trial, robot, lag, dropped, received, raw>> /\ Releases(entries)
  BY <1>1, OnPollEffect DEF PollInjector, OnPoll, Injector!Poll
<1>3. Published /\ Emit(messages) /\ dropped' \in Nat
  BY <1>2 DEF PollInjector, Published
<1>4. Outputs \in Seq(Nat)
  BY <1>1, OutputsAreStamps
<1>5. /\ Kinds \intersect DOMAIN messages = {"faulted"}
      /\ messages["faulted"] = Outputs /\ Outputs \in Seq(Data)
  <2>1. Nat \subseteq Data
    BY DEF Data
  <2> QED
    BY <1>4, <2>1 DEF Kinds
<1> HIDE DEF messages
<1>6. /\ Published'
      /\ \A k \in Kinds \ {"faulted"} : evidence'[k] = evidence[k]
      /\ Emits("faulted", Outputs)
  BY <1>1, <1>2, <1>3, <1>5, EmitEffect
<1>7. Grows
  <2>1. Len(Outputs) \in Nat /\ "faulted" \in Kinds
    BY <1>4 DEF Kinds
  <2>2. \A k \in Kinds : Len(evidence[k]) \in Nat
    BY Lengths
  <2>3. ASSUME NEW k \in Kinds \ {"faulted"}
        PROVE  /\ Len(evidence'[k]) >= Len(evidence[k])
               /\ \A i \in 1..Len(evidence'[k]) : ~(i > Len(evidence[k]))
    BY <1>6, <2>2
  <2> QED
    BY <1>6, <2>1, <2>3, EmitsGrows DEF Grows
<1> QED
  BY <1>2, <1>4, <1>6, <1>7

\* The watchdog's messages are published when it finds cause for them.
LEMMA CheckEmits ==
    ASSUME IInv, Published, CheckStream
    PROVE  /\ Published' /\ lag' = lag /\ Grows
           /\ \A k \in {"raw", "faulted", "counters"} : evidence'[k] = evidence[k]
           /\ UNCHANGED <<clock, trial, robot, dropped, received, raw>>
           /\ IF Commands
              THEN /\ Emits("violation", <<status'.reason>>)
                   /\ Emits("recovery", <<0>>) /\ Emits("command", <<TRUE>>)
              ELSE evidence' = evidence
<1> DEFINE messages == [violation |-> <<status'.reason>>, recovery |-> <<0>>,
                        command |-> <<TRUE>>]
<1>1. /\ OnCheck /\ clock \in Nat /\ dropped' \in Nat
      /\ UNCHANGED <<clock, trial, robot, lag, dropped, received, raw>>
  BY DEF IInv, Plumbing, Types, CheckStream, OnCheck, trial, injector, Watchdog!Check, Published
<1>2. CASE ~Commands
  <2>1. evidence' = evidence
    BY <1>2 DEF CheckStream
  <2>2. Published' /\ Grows
    BY <1>1, <2>1, NothingGrows DEF Published, Messages
  <2> QED
    BY <1>1, <1>2, <2>1, <2>2
<1>3. CASE Commands
  <2>1. status'.reason \in {"message_age_exceeded", "loss_fraction_exceeded", "none"}
    <3>1. WP!TypeOK'
      BY <1>1, OnCheckKeeps DEF IInv, Plumbing, WP!IInv
    <3> QED
      BY <3>1 DEF WP!TypeOK, WP!Reasons, WP!NoReason
  <2>2. Emit(messages)
    BY <1>3 DEF CheckStream
  <2>3. <<status'.reason>> \in Seq(Data) /\ <<0>> \in Seq(Data) /\ <<TRUE>> \in Seq(Data)
    BY <2>1 DEF Data
  <2>4. /\ DOMAIN messages = {"violation", "recovery", "command"}
        /\ messages["violation"] = <<status'.reason>>
        /\ messages["recovery"] = <<0>> /\ messages["command"] = <<TRUE>>
    OBVIOUS
  <2> HIDE DEF messages
  <2>5. /\ Kinds \intersect DOMAIN messages = {"violation", "recovery", "command"}
        /\ Kinds \ DOMAIN messages = {"raw", "faulted", "counters"}
    BY <2>4 DEF Kinds
  <2>6. \A k \in Kinds \intersect DOMAIN messages : messages[k] \in Seq(Data)
    BY <2>3, <2>4
  <2>7. /\ Published'
        /\ \A k \in {"raw", "faulted", "counters"} : evidence'[k] = evidence[k]
        /\ Emits("violation", <<status'.reason>>)
        /\ Emits("recovery", <<0>>) /\ Emits("command", <<TRUE>>)
    <3>1. /\ Published'
          /\ \A k \in Kinds \ DOMAIN messages : evidence'[k] = evidence[k]
          /\ \A k \in Kinds \intersect DOMAIN messages : Emits(k, messages[k])
      BY <1>1, <2>2, <2>6, EmitEffect
    <3> QED
      BY <2>4, <2>5, <3>1
  <2>8. Grows
    <3>1. /\ \A x : Len(<<x>>) \in Nat
          /\ "violation" \in Kinds /\ "recovery" \in Kinds /\ "command" \in Kinds
          /\ Kinds = {"raw", "faulted", "counters"} \union {"violation", "recovery", "command"}
      BY DEF Kinds
    <3>2. \A k \in Kinds : Len(evidence[k]) \in Nat
      BY Lengths
    <3>3. ASSUME NEW k \in {"raw", "faulted", "counters"}
          PROVE  /\ Len(evidence'[k]) >= Len(evidence[k])
                 /\ \A i \in 1..Len(evidence'[k]) : ~(i > Len(evidence[k]))
      BY <2>7, <3>1, <3>2
    <3>4. ASSUME NEW k \in {"violation", "recovery", "command"}
          PROVE  /\ Len(evidence'[k]) >= Len(evidence[k])
                 /\ \A i \in 1..Len(evidence[k]) : evidence'[k][i] = evidence[k][i]
                 /\ \A i \in 1..Len(evidence'[k]) :
                      i > Len(evidence[k]) => evidence'[k][i].at = clock + lag[k]
      <4>1. CASE k = "violation"
        BY <2>7, <3>1, <4>1, EmitsGrows
      <4>2. CASE k = "recovery"
        BY <2>7, <3>1, <4>2, EmitsGrows
      <4>3. CASE k = "command"
        BY <2>7, <3>1, <4>3, EmitsGrows
      <4> QED
        BY <4>1, <4>2, <4>3
    <3> QED
      BY <2>7, <3>1, <3>3, <3>4 DEF Grows
  <2> QED
    BY <1>1, <1>3, <2>7, <2>8
<1> QED
  BY <1>2, <1>3

\* What the runner does to the nodes when it ticks the lifecycle.
LEMMA TickCases ==
    ASSUME TickLifecycle
    PROVE  /\ UNCHANGED lag
           /\ \/ ApplyFault /\ \E r : Acknowledge(r)
              \/ WithdrawFault /\ \E r : Acknowledge(r)
              \/ UNCHANGED <<vars, evidence>>
<1>1. UNCHANGED lag
  BY DEF TickLifecycle
<1>2. CASE action' = "activate_fault"
  BY <1>1, <1>2 DEF TickLifecycle
<1>3. CASE action' = "deactivate_fault"
  BY <1>1, <1>3 DEF TickLifecycle
<1>4. CASE action' # "activate_fault" /\ action' # "deactivate_fault"
  <2>1. UNCHANGED <<vars, acks, evidence>>
    BY <1>4 DEF TickLifecycle
  <2> QED
    BY <1>1, <2>1
<1> QED
  BY <1>2, <1>3, <1>4

\* What the observer gets of the samples published are stamps, and none of none.
LEMMA KeptOfOutputs ==
    ASSUME Outputs \in Seq(Nat), NEW kept \in Kept
    PROVE  kept \in Seq(Nat) /\ (Len(Outputs) = 0 => Len(kept) = 0)
<1>1. PICK lost \in 0..Len(Outputs) : kept = SubSeq(Outputs, lost + 1, Len(Outputs))
  BY DEF Kept
<1>2. lost + 1 \in 1..Len(Outputs) + 1 /\ Len(Outputs) \in (lost + 1) - 1 .. Len(Outputs)
  OBVIOUS
<1>3. kept \in Seq(Nat) /\ Len(kept) = Len(Outputs) - (lost + 1) + 1
  BY <1>1, <1>2, SubSeqProperties
<1> QED
  BY <1>3

\* The configuration of the injector changes, and it publishes what was pending.
Reconfigure == (ApplyFault \/ WithdrawFault) /\ (\E r : Acknowledge(r)) /\ lag' = lag

\* The evidence stays as it is.
Unheard == UNCHANGED <<fault, appliedAt, withdrawnAt, evidence, lag, dropped, received>>
           /\ Len(raw') = Len(raw)

\* Of a step of a trial these are the cases that matter for what is published.
LEMMA TrialCases ==
    ASSUME [TrialNext]_trialVars
    PROVE  \/ Sample
           \/ Inject
           \/ PollInjector
           \/ CheckStream
           \/ Reconfigure
           \/ Unheard /\ (Arrive \/ Overflow \/ Stop \/ Pass \/ UNCHANGED vars)
<1>1. CASE TickLifecycle
  <2>1. CASE UNCHANGED <<vars, evidence>>
    BY <1>1, <2>1, TickCases DEF Unheard, vars, trial, injector
  <2> QED
    BY <1>1, <2>1, TickCases DEF Reconfigure
<1>2. CASE Arrive \/ Overflow \/ Stop \/ Pass
  BY <1>2 DEF Arrive, Overflow, Stop, Pass, OnFaulted, Overwrite, OnCommand, Elapse, observer, trial, injector, Unheard
<1>3. CASE Begin \/ BecomeReady \/ HearAck \/ Conclude \/ UNCHANGED trialVars
  <2>1. UNCHANGED <<vars, evidence, lag>>
    BY <1>3 DEF Begin, BecomeReady, HearAck, Conclude, observer, trialVars
  <2> QED
    BY <2>1 DEF Unheard, vars, trial, injector
<1> QED
  BY <1>1, <1>2, <1>3 DEF TrialNext

LEMMA ReconfigureEmits ==
    ASSUME IInv, Published, Reconfigure
    PROVE  /\ Published' /\ Grows /\ lag' = lag
           /\ \A k \in {"raw", "violation", "recovery", "command"} : evidence'[k] = evidence[k]
           /\ entries = {} => evidence'["faulted"] = evidence["faulted"]
           /\ dropped' = dropped /\ Emits("counters", <<dropped'>>)
           /\ UNCHANGED <<clock, fault, robot, raw, received>>
           /\ Releases(entries) /\ entries' = {}
<1>1. /\ UNCHANGED <<clock, fault, robot, raw>>
      /\ \E kept \in Kept : Emit([faulted |-> kept, counters |-> <<dropped'>>])
      /\ \E c : ApplyConfig(c) /\ (config = NoFault \/ c = NoFault)
  BY DEF Reconfigure, ApplyFault, WithdrawFault, ApplyConfig, Acknowledge,
     IInv, Plumbing, InForce
<1>2. PICK c : ApplyConfig(c) /\ (config = NoFault \/ c = NoFault)
  BY <1>1
<1>3. Releases(entries) /\ entries' = {} /\ UNCHANGED received
  BY <1>2, ConfigureEffect DEF IInv
<1>4. dropped' = dropped
  BY <1>2 DEF ApplyConfig, Injector!Configure
<1>5. PICK kept \in Kept : Emit([faulted |-> kept, counters |-> <<dropped'>>])
  BY <1>1
<1>6. kept \in Seq(Nat) /\ (Len(Outputs) = 0 => Len(kept) = 0)
  BY OutputsAreStamps, KeptOfOutputs DEF Reconfigure
<1>7. /\ Published' /\ Grows
      /\ \A k \in {"raw", "violation", "recovery", "command"} : evidence'[k] = evidence[k]
      /\ Emits("faulted", kept) /\ Emits("counters", <<dropped'>>)
  BY <1>4, <1>5, <1>6, InjectorEmits DEF Reconfigure, Published
<1>8. ASSUME entries = {} PROVE evidence'["faulted"] = evidence["faulted"]
  <2>1. Cardinality(entries \ entries') = 0
    BY <1>8, FS_EmptySet
  <2>2. Len(Outputs) = 0
    BY <1>3, <2>1 DEF Releases, Sends, Outputs, Sent
  <2> QED
    BY <1>6, <1>7, <2>2, EmitsNothing DEF Kinds
<1> QED
  BY <1>1, <1>3, <1>4, <1>7, <1>8 DEF Reconfigure

LEMMA InjectEmits ==
    ASSUME IInv, Published, Inject
    PROVE  /\ Published' /\ Grows /\ lag' = lag
           /\ \A k \in {"raw", "violation", "recovery", "command"} : evidence'[k] = evidence[k]
           /\ Outputs \in Seq(Nat) /\ dropped' \in Nat
           /\ Emits("faulted", Outputs) /\ Emits("counters", <<dropped'>>)
           /\ UNCHANGED <<clock, trial, robot>>
           /\ clock = received * Period /\ Len(raw) = 1 /\ Len(raw') = 0
           /\ received' = received + 1
           /\ Forwards \/ Drops \/ Delays
<1>1. OnRaw /\ lag' = lag /\ UNCHANGED <<clock, trial, robot>>
      /\ Emit([faulted |-> Outputs, counters |-> <<dropped'>>])
  BY DEF Inject, OnRaw
<1>2. /\ clock = received * Period /\ Len(raw) = 1 /\ Len(raw') = 0
      /\ received' = received + 1
      /\ Forwards \/ Drops \/ Delays
  BY <1>1, OnRawEffect DEF IInv
<1>3. dropped' \in Nat /\ Outputs \in Seq(Nat)
  BY <1>1, DroppedStaysCount, OutputsAreStamps DEF Published
<1> QED
  BY <1>1, <1>2, <1>3, InjectorEmits

\* In a trial each topic's list grows, and by what is published now.
LEMMA TrialGrows ==
    ASSUME IInv, Published, [TrialNext]_trialVars
    PROVE  Published' /\ Grows /\ lag' = lag
<1>1. ASSUME Unheard PROVE Published' /\ Grows /\ lag' = lag
  BY <1>1, NothingGrows DEF Unheard, Published, Messages
<1> QED
  BY <1>1, TrialCases, SampleEmits, InjectEmits, PollEmits, CheckEmits, ReconfigureEmits

-----------------------------------------------------------------------------
(* Each part of the invariant stays. *)

\* The fault is chosen once, and time goes on.
LEMMA FaultAndClock ==
    ASSUME [Next]_vars
    PROVE  fault' = fault /\ (clock' = clock \/ clock' = clock + 1)
<1>1. CASE OnFaulted \/ OnCheck
  BY <1>1 DEF OnFaulted, OnCheck, trial, Watchdog!RecordArrival, Watchdog!Check
<1>2. CASE ApplyFault \/ WithdrawFault
  BY <1>2 DEF ApplyFault, WithdrawFault, ApplyConfig
<1>3. CASE Overwrite
  BY <1>3 DEF Overwrite, trial
<1> QED
  BY <1>1, <1>2, <1>3 DEF Next, OnSample, OnCommand, LoseCommand, OnRaw, OnPoll, Elapse, vars, trial

\* Messages published now are received after all others on their topic.
LEMMA InTimeStays ==
    ASSUME Published, InTime, Published', Grows, lag' = lag,
           clock \in Nat, clock' \in Nat, clock <= clock'
    PROVE  InTime'
<1> SUFFICES ASSUME NEW k \in Kinds, NEW i \in 1..Len(evidence'[k])
             PROVE  /\ evidence'[k][i].at <= clock' + lag'[k]
                    /\ \A j \in i..Len(evidence'[k]) :
                         evidence'[k][i].at <= evidence'[k][j].at
  BY Zenon DEF InTime
<1> DEFINE n == Len(evidence[k])
           m == Len(evidence'[k])
           old(x) == evidence[k][x].at
           new(x) == evidence'[k][x].at
           limit == clock + lag[k]
<1>1. n \in Nat /\ m \in Nat /\ n <= m /\ limit \in Nat /\ limit <= clock' + lag[k]
  BY Lengths, Lengths' DEF Grows
<1>2. \A x \in 1..n : new(x) = old(x)
  BY DEF Grows
<1>3. \A x \in 1..m : x > n => new(x) = limit
  BY DEF Grows
<1>4. \A x \in 1..n : old(x) <= limit /\ old(x) \in Nat /\ \A y \in x..n : old(x) <= old(y)
  <2>1. evidence[k] \in Seq(Messages(k))
    BY DEF Published
  <2>2. \A x \in 1..n : old(x) \in Nat
    <3>1. \A x \in 1..n : evidence[k][x] \in Messages(k)
      BY <2>1
    <3> QED
      BY <3>1 DEF Messages
  <2> QED
    BY <2>2 DEF InTime
<1> HIDE DEF n, m, old, new, limit
<1>5. i \in 1..m
  BY DEF m
<1>6. new(i) <= limit /\ new(i) \in Nat
  BY <1>1, <1>2, <1>3, <1>4, <1>5
<1>7. ASSUME NEW j \in i..m PROVE new(i) <= new(j)
  <2>1. j \in 1..m
    BY <1>1, <1>5
  <2>2. CASE j <= n
    BY <1>1, <1>2, <1>4, <1>5, <2>1, <2>2
  <2>3. CASE j > n
    BY <1>3, <1>6, <1>1, <2>1, <2>3
  <2> QED
    BY <1>1, <2>1, <2>2, <2>3
<1>8. new(i) <= clock' + lag[k]
  <2>1. clock' + lag[k] \in Nat
    BY Lengths
  <2> QED
    BY <1>1, <1>6, <2>1
<1> QED
  BY <1>7, <1>8 DEF new, m

LEMMA RawStays ==
    ASSUME RawPublished, UNCHANGED <<received, lag>>, Len(raw') = Len(raw),
           evidence'["raw"] = evidence["raw"], moving' => moving
    PROVE  RawPublished'
BY DEF RawPublished, StampOf

LEMMA SampleKeepsRaw == ASSUME TrialInv, Sample PROVE RawPublished'
<1> DEFINE sample == [stamp |-> clock, stopped |-> ~moving]
           ev == evidence["raw"]
           new == evidence'["raw"]
           n == Len(ev)
<1>1. /\ clock \in Nat /\ received \in Nat /\ moving \in BOOLEAN /\ Period \in Nat
      /\ IInv /\ Published /\ RawPublished
  BY Parameters DEF TrialInv, IInv, Plumbing, Types
<1>2. /\ lag' = lag /\ received' = received /\ moving' = moving
      /\ Emits("raw", <<sample>>)
      /\ clock = (received + Len(raw)) * Period
      /\ Len(raw) \in Nat /\ Len(raw') = Len(raw) + 1
  BY <1>1, SampleEmits
<1>3. n \in Nat /\ n = received + Len(raw)
  BY <1>1, <1>2 DEF RawPublished
<1>4. /\ Len(new) = n + 1
      /\ \A i \in 1..n : new[i] = ev[i]
      /\ new[n + 1] = Heard("raw", sample)
  <2>1. Len(<<sample>>) = 1 /\ <<sample>>[1] = sample
    OBVIOUS
  <2>2. Emits("raw", <<sample>>) /\ n \in Nat
    BY <1>2, <1>3
  <2> HIDE DEF sample
  <2> QED
    BY <2>1, <2>2, EmitsOne
<1>5. /\ new[n + 1].at = StampOf(n + 1) + lag["raw"]
      /\ new[n + 1].data.stamp = StampOf(n + 1)
      /\ new[n + 1].data.stopped = ~moving
  <2>1. StampOf(n + 1) = clock
    BY <1>1, <1>2, <1>3 DEF StampOf
  <2> QED
    BY <1>4, <2>1 DEF Heard
<1>6. \A i \in 1..n :
        /\ ev[i].at = StampOf(i) + lag["raw"]
        /\ ev[i].data.stamp = StampOf(i)
        /\ ev[i].data.stopped \in BOOLEAN
        /\ ev[i].data.stopped => ~moving
        /\ \A j \in i..n : ev[i].data.stopped => ev[j].data.stopped
  BY <1>1 DEF RawPublished
<1> HIDE DEF ev, new, n
<1>7. \A i \in 1..n + 1 : i \in 1..n \/ i = n + 1
  BY <1>3
<1>8. ASSUME NEW i \in 1..n + 1
      PROVE  /\ new[i].at = StampOf(i) + lag["raw"]
             /\ new[i].data.stamp = StampOf(i)
             /\ new[i].data.stopped \in BOOLEAN
             /\ new[i].data.stopped => ~moving
  BY <1>1, <1>4, <1>5, <1>6, <1>7
<1>9. ASSUME NEW i \in 1..n + 1, NEW j \in i..n + 1, new[i].data.stopped
      PROVE  new[j].data.stopped
  <2>1. j \in 1..n + 1 /\ ~moving
    BY <1>3, <1>8, <1>9
  <2>2. CASE j = n + 1
    BY <1>5, <2>1, <2>2
  <2>3. CASE j \in 1..n
    <3>1. i \in 1..n /\ j \in i..n
      BY <1>3, <2>3
    <3> QED
      BY <1>4, <1>6, <1>9, <2>3, <3>1
  <2> QED
    BY <1>7, <2>1, <2>2, <2>3
<1>10. Len(new) = received' + Len(raw')
  BY <1>1, <1>2, <1>3, <1>4
<1> QED
  BY <1>2, <1>4, <1>8, <1>9, <1>10 DEF RawPublished, StampOf, new

LEMMA RawKeeps == ASSUME TrialInv, [TrialNext]_trialVars PROVE RawPublished'
<1>1. IInv /\ Published /\ RawPublished
  BY DEF TrialInv
<1>2. ASSUME Inject PROVE RawPublished'
  <2>1. /\ lag' = lag /\ Len(raw) = 1 /\ Len(raw') = 0 /\ received' = received + 1
        /\ evidence'["raw"] = evidence["raw"] /\ moving' = moving
    BY <1>1, <1>2, InjectEmits DEF robot
  <2>2. received' + Len(raw') = received + Len(raw)
    BY <1>1, <2>1 DEF IInv, Plumbing, Types
  <2> QED
    BY <1>1, <2>1, <2>2 DEF RawPublished, StampOf
<1>3. ASSUME PollInjector PROVE RawPublished'
  <2>1. "raw" \in Kinds \ {"faulted"}
    BY DEF Kinds
  <2> QED
    BY <1>1, <1>3, <2>1, PollEmits, RawStays DEF robot
<1>4. ASSUME CheckStream PROVE RawPublished'
  BY <1>1, <1>4, CheckEmits, RawStays DEF robot
<1>5. ASSUME Reconfigure PROVE RawPublished'
  BY <1>1, <1>5, ReconfigureEmits, RawStays DEF robot
<1>6. ASSUME Unheard, Arrive \/ Overflow \/ Stop \/ Pass \/ UNCHANGED vars
      PROVE  RawPublished'
  <2>1. moving' => moving
    BY <1>6 DEF Arrive, Overflow, Stop, Pass, OnFaulted, Overwrite, OnCommand, Elapse, robot, vars,
       IInv, Plumbing, Types
  <2> QED
    BY <1>1, <1>6, <2>1, RawStays DEF Unheard
<1> QED
  BY <1>2, <1>3, <1>4, <1>5, <1>6, TrialCases, SampleKeepsRaw

LEMMA NoAlarmsKeeps ==
    ASSUME TrialInv, IInv', [TrialNext]_trialVars
    PROVE  NoAlarms'
<1>1. IInv /\ Published /\ NoAlarms /\ fault' = fault
  BY StepsOfLoop, FaultAndClock DEF TrialInv
<1>2. ASSUME evidence'["violation"] = evidence["violation"],
             evidence'["recovery"] = evidence["recovery"]
      PROVE  NoAlarms'
  BY <1>1, <1>2, TrialStays DEF NoAlarms
<1>3. ASSUME CheckStream PROVE NoAlarms'
  <2>1. CASE ~Commands
    BY <1>1, <1>2, <1>3, <2>1, CheckEmits
  <2>2. CASE Commands
    <3>1. NoAlarmWithoutCause'
      <4>1. IInv' => NoAlarmWithoutCause'
        BY AlarmsHaveCause, PTL
      <4> QED
        BY <4>1
    <3>2. ~Tolerated'
      BY <1>3, <2>2, <3>1 DEF NoAlarmWithoutCause, CheckStream, OnCheck
    <3> QED
      BY <3>2 DEF NoAlarms
  <2> QED
    BY <2>1, <2>2
<1>4. "violation" \in Kinds \ {"raw", "faulted"} /\ "recovery" \in Kinds \ {"raw", "faulted"}
  BY DEF Kinds
<1> QED
  BY <1>1, <1>2, <1>3, <1>4, TrialCases, SampleEmits, InjectEmits, PollEmits,
     ReconfigureEmits DEF Unheard

\* With no fault applied nothing is in force and nothing pending.
LEMMA NothingInForce ==
    ASSUME IInv, appliedAt = NoTime
    PROVE  /\ config = NoFault /\ entries = {} /\ holdEnabled = FALSE
           /\ ~Injector!LatencyIsActive(config) /\ ~Injector!DropoutIsActive(config)
           /\ ~WithdrawFault
<1>1. config = NoFault
  BY DEF IInv, Plumbing, InForce
<1>2. /\ ~Injector!LatencyIsActive(config) /\ ~Injector!DropoutIsActive(config)
      /\ ~Injector!StaleIsActive(config)
  BY <1>1 DEF NoFault, Injector!LatencyIsActive, Injector!DropoutIsActive, Injector!StaleIsActive
<1> QED
  BY <1>1, <1>2 DEF IInv, Plumbing, Lined, Holds, WithdrawFault

LEMMA CountersStay0 ==
    ASSUME Published, Emits("counters", <<dropped'>>), dropped' = 0,
           \A i \in 1..Len(evidence["counters"]) : evidence["counters"][i].data = 0
    PROVE  \A i \in 1..Len(evidence'["counters"]) : evidence'["counters"][i].data = 0
<1> DEFINE n == Len(evidence["counters"])
<1>1. n \in Nat
  BY Lengths DEF Kinds
<1>2. Len(<<dropped'>>) = 1 /\ <<dropped'>>[1] = 0
  OBVIOUS
<1> HIDE DEF n
<1>3. /\ Len(evidence'["counters"]) = n + 1
      /\ \A i \in 1..n : evidence'["counters"][i] = evidence["counters"][i]
      /\ evidence'["counters"][n + 1] = Heard("counters", 0)
  BY <1>1, <1>2, EmitsOne DEF n
<1>4. \A i \in 1..n + 1 : i \in 1..n \/ i = n + 1
  BY <1>1
<1>5. \A i \in 1..n : evidence["counters"][i].data = 0
  BY DEF n
<1>6. Heard("counters", 0).data = 0
  BY DEF Heard
<1> QED
  BY <1>3, <1>4, <1>5, <1>6

\* A sample that no fault touches is published at once, as it is.
LEMMA PlainSample ==
    ASSUME TrialInv, Inject, appliedAt = NoTime
    PROVE  /\ dropped' = dropped
           /\ Len(Outputs) = 1 /\ Outputs[1] = clock
           /\ StampOf(received + 1) = clock
<1>1. OnRaw /\ IInv /\ Published
  BY DEF TrialInv, Inject
<1>2. /\ clock = received * Period
      /\ Forwards \/ Drops \/ Delays
  BY <1>1, InjectEmits
<1>3. Sends({clock}, 1)
  BY <1>1, <1>2, NothingInForce DEF Forwards, Drops, Delays
<1>4. Len(Sent) = 1 /\ {Sent[i] : i \in 1..1} = {clock}
  BY <1>3 DEF Sends
<1>5. Sent[1] = clock
  BY <1>4
<1>6. Injector!ReceivePlain(clock)
  BY <1>1, NothingInForce DEF OnRaw, Injector!Receive,
     Injector!ReceiveDropoutKept, Injector!ReceiveDropped, Injector!ReceiveDelayed
<1>7. dropped' = dropped
  BY <1>6 DEF Injector!ReceivePlain, Injector!Forward
<1>8. StampOf(received + 1) = clock
  BY <1>1, <1>2, Parameters DEF StampOf, IInv, Plumbing, Types
<1> QED
  BY <1>4, <1>5, <1>7, <1>8 DEF Outputs, Sent

\* One more of the same on a topic.
LEMMA InjectKeepsUntouched ==
    ASSUME TrialInv, Inject
    PROVE  Untouched'
<1>1. /\ IInv /\ Published /\ Untouched /\ received \in Nat
      /\ UNCHANGED <<appliedAt, lag>> /\ received' = received + 1
      /\ Outputs \in Seq(Nat)
      /\ Emits("faulted", Outputs) /\ Emits("counters", <<dropped'>>)
  BY InjectEmits DEF TrialInv, IInv, Plumbing, Types, trial
<1> SUFFICES ASSUME appliedAt = NoTime PROVE Untouched'
  BY <1>1 DEF Untouched
<1>2. /\ dropped = 0 /\ Len(evidence["faulted"]) = received
      /\ \A i \in 1..Len(evidence["faulted"]) :
          /\ evidence["faulted"][i].at = StampOf(i) + lag["faulted"]
          /\ evidence["faulted"][i].data = StampOf(i)
      /\ \A i \in 1..Len(evidence["counters"]) : evidence["counters"][i].data = 0
  BY <1>1 DEF Untouched
<1>3. /\ dropped' = 0
      /\ Len(Outputs) = 1 /\ Outputs[1] = clock /\ StampOf(received + 1) = clock
  BY <1>2, PlainSample
<1>4. /\ Len(evidence'["faulted"]) = received + 1
      /\ \A i \in 1..received : evidence'["faulted"][i] = evidence["faulted"][i]
      /\ evidence'["faulted"][received + 1] = Heard("faulted", clock)
  BY <1>1, <1>2, <1>3, EmitsOne
<1>5. \A i \in 1..received + 1 : i \in 1..received \/ i = received + 1
  BY <1>1
<1>6. ASSUME NEW i \in 1..Len(evidence'["faulted"])
      PROVE  /\ evidence'["faulted"][i].at = StampOf(i) + lag["faulted"]
             /\ evidence'["faulted"][i].data = StampOf(i)
  <2>1. CASE i \in 1..received
    BY <1>2, <1>4, <2>1
  <2>2. CASE i = received + 1
    <3>1. evidence'["faulted"][i] = Heard("faulted", clock) /\ StampOf(i) = clock
      BY <1>3, <1>4, <2>2
    <3> QED
      BY <3>1 DEF Heard
  <2> QED
    BY <1>4, <1>5, <2>1, <2>2
<1>7. \A i \in 1..Len(evidence'["counters"]) : evidence'["counters"][i].data = 0
  BY <1>1, <1>2, <1>3, CountersStay0
<1> QED
  BY <1>1, <1>3, <1>4, <1>6, <1>7 DEF Untouched, StampOf

LEMMA UntouchedKeeps == ASSUME TrialInv, [TrialNext]_trialVars PROVE Untouched'
<1>1. IInv /\ Published /\ Untouched
  BY DEF TrialInv
<1>2. ASSUME UNCHANGED <<appliedAt, lag, dropped, received>>,
             evidence'["faulted"] = evidence["faulted"],
             evidence'["counters"] = evidence["counters"]
      PROVE  Untouched'
  BY <1>1, <1>2 DEF Untouched, StampOf
<1>3. ASSUME Sample PROVE Untouched'
  <2>1. "faulted" \in Kinds \ {"raw"} /\ "counters" \in Kinds \ {"raw"}
    BY DEF Kinds
  <2> QED
    BY <1>1, <1>2, <1>3, <2>1, SampleEmits
<1>4. ASSUME PollInjector PROVE Untouched'
  <2>1. /\ UNCHANGED <<appliedAt, lag, dropped, received>> /\ Releases(entries)
        /\ Published' /\ Outputs \in Seq(Nat) /\ Emits("faulted", Outputs)
        /\ evidence'["counters"] = evidence["counters"]
    <3>1. "counters" \in Kinds \ {"faulted"}
      BY DEF Kinds
    <3> QED
      BY <1>1, <1>4, <3>1, PollEmits DEF trial
  <2> SUFFICES ASSUME appliedAt = NoTime PROVE Untouched'
    BY <2>1 DEF Untouched
  <2>2. Len(Outputs) = 0
    <3>1. Cardinality(entries \ entries') = 0
      BY <1>1, NothingInForce, FS_EmptySet
    <3> QED
      BY <2>1, <3>1 DEF Releases, Sends, Outputs, Sent
  <2>3. evidence'["faulted"] = evidence["faulted"]
    BY <1>1, <2>1, <2>2, EmitsNothing DEF Kinds
  <2> QED
    BY <1>2, <2>1, <2>3
<1>5. ASSUME CheckStream PROVE Untouched'
  BY <1>1, <1>2, <1>5, CheckEmits DEF trial
<1>6. ASSUME Reconfigure PROVE Untouched'
  <2>1. appliedAt' # NoTime
    BY <1>1, <1>6 DEF Reconfigure, ApplyFault, WithdrawFault, IInv, Plumbing, Types, NoTime
  <2> QED
    BY <2>1 DEF Untouched
<1>7. ASSUME Unheard PROVE Untouched'
  BY <1>2, <1>7 DEF Unheard
<1> QED
  BY <1>3, <1>4, <1>5, <1>6, <1>7, TrialCases, InjectKeepsUntouched

LEMMA TrialNextKeeps == TrialInv /\ [TrialNext]_trialVars => TrialInv'
<1> SUFFICES ASSUME TrialInv, [TrialNext]_trialVars PROVE TrialInv'
  OBVIOUS
<1>1. IInv' /\ InOrder' /\ Named'
  BY NextKeeps, OrderKeeps, NamedKeeps, StepsOfLoop DEF TrialInv
<1>2. Published' /\ Grows /\ lag' = lag
  BY TrialGrows DEF TrialInv
<1>3. InTime'
  <2>1. clock \in Nat /\ clock' \in Nat
    BY <1>1 DEF TrialInv, IInv, Plumbing, Types
  <2>2. clock <= clock'
    BY <2>1, StepsOfLoop, FaultAndClock
  <2> QED
    BY <1>2, <2>1, <2>2, InTimeStays DEF TrialInv
<1> QED
  BY <1>1, <1>2, <1>3, RawKeeps, NoAlarmsKeeps, UntouchedKeeps DEF TrialInv

LEMMA TrialInitEstablishes == TrialInit => TrialInv
<1> SUFFICES ASSUME TrialInit PROVE TrialInv
  OBVIOUS
<1>1. IInv /\ InOrder /\ Named
  BY InitEstablishes, OrderAtFirst DEF TrialInit
<1>2. /\ dropped = 0 /\ received = 0 /\ raw = <<>>
      /\ lag \in [Kinds -> Lags] /\ evidence = [k \in Kinds |-> <<>>]
  BY DEF TrialInit, Init, Injector!Init
<1>3. /\ \A k \in Kinds : evidence[k] = <<>> /\ 1..Len(evidence[k]) = {}
      /\ Len(<<>>) = 0
  BY <1>2
<1>4. Published
  BY <1>2, <1>3 DEF Published
<1>5. NoAlarms /\ InTime
  BY <1>3 DEF NoAlarms, Kinds, InTime
<1>6. RawPublished /\ Untouched
  <2>1. /\ evidence["raw"] = <<>> /\ evidence["faulted"] = <<>>
        /\ evidence["counters"] = <<>>
    BY <1>3 DEF Kinds
  <2> QED
    BY <1>2, <1>3, <2>1 DEF Untouched, RawPublished
<1> QED
  BY <1>1, <1>4, <1>5, <1>6 DEF TrialInv

\* In every state of a trial the loop is as its own invariant says, and what is
\* published of it is what the fault allows.
THEOREM TrialInvariance == TrialSpec => []TrialInv
BY TrialInitEstablishes, TrialNextKeeps, PTL DEF TrialSpec

-----------------------------------------------------------------------------
(* The list of events. *)

LEMMA HeardIsPrefix ==
    ASSUME TrialInv, NEW k \in Kinds
    PROVE  /\ HeardOf(k) \in Seq(Messages(k))
           /\ Len(HeardOf(k)) <= Len(evidence[k])
           /\ \A i \in 1..Len(HeardOf(k)) : HeardOf(k)[i] = evidence[k][i]
           /\ \A i \in 1..Len(evidence[k]) :
                evidence[k][i].at <= clock => i \in 1..Len(HeardOf(k))
<1> DEFINE sent == evidence[k]
           n == Cardinality({i \in DOMAIN sent : sent[i].at <= clock})
<1>1. sent \in Seq(Messages(k)) /\ DOMAIN sent = 1..Len(sent) /\ Len(sent) \in Nat
  BY DEF TrialInv, Published
<1>2. n \in Nat /\ n <= Len(sent)
  <2>1. IsFiniteSet(1..Len(sent)) /\ Cardinality(1..Len(sent)) = Len(sent)
    <3> DEFINE last == Len(sent)
    <3>1. last \in Nat
      BY <1>1
    <3> HIDE DEF last
    <3>2. IsFiniteSet(1..last) /\ Cardinality(1..last) = last
      BY <3>1, FS_Interval
    <3> QED
      BY <3>2 DEF last
  <2>2. {i \in DOMAIN sent : sent[i].at <= clock} \in SUBSET (1..Len(sent))
    BY <1>1
  <2> QED
    BY <2>1, <2>2, FS_Subset, FS_CardinalityType
<1>3. HeardOf(k) = SubSeq(sent, 1, n)
  BY DEF HeardOf
<1> DEFINE M == Messages(k)
<1>4. \A i \in 1..n : sent[i] \in M
  BY <1>1, <1>2
\* No message comes before one that was sent before it.
<1>8. ASSUME NEW i \in 1..Len(sent), sent[i].at <= clock PROVE i <= n
  <2> DEFINE S == {x \in DOMAIN sent : sent[x].at <= clock}
  <2>1. \A x \in 1..i : x \in 1..Len(sent) /\ i \in x..Len(sent)
    BY <1>1
  <2>2. \A x \in 1..i : sent[x].at <= sent[i].at
    BY <2>1 DEF TrialInv, InTime
  <2>3. \A x \in 1..Len(sent) : sent[x].at \in Nat
    <3>1. \A x \in 1..Len(sent) : sent[x] \in Messages(k)
      BY <1>1
    <3> QED
      BY <3>1 DEF Messages
  <2>4. clock \in Nat
    BY DEF TrialInv, IInv, Plumbing, Types
  <2>5. \A x \in 1..i : sent[x].at <= clock
    BY <1>8, <2>1, <2>2, <2>3, <2>4
  <2>6. 1..i \subseteq S
    BY <1>1, <2>1, <2>5
  <2>7. IsFiniteSet(S)
    <3> DEFINE last == Len(sent)
    <3>1. S \subseteq 1..last /\ last \in Nat
      BY <1>1
    <3> HIDE DEF last, S
    <3>2. IsFiniteSet(1..last)
      BY <3>1, FS_Interval
    <3> QED
      BY <3>1, <3>2, FS_Subset
  <2>8. i \in Nat /\ Cardinality(1..i) = i
    <3>1. i \in Nat /\ 1 \in Int /\ i \in Int
      BY <1>1
    <3>2. Cardinality(1..i) = IF 1 > i THEN 0 ELSE i - 1 + 1
      BY <3>1, FS_Interval
    <3> QED
      BY <3>1, <3>2
  <2>9. Cardinality(1..i) <= Cardinality(S)
    BY <2>6, <2>7, FS_Subset
  <2> QED
    BY <2>8, <2>9
<1> HIDE DEF sent, n, M
<1>5. /\ SubSeq(sent, 1, n) \in Seq(M)
      /\ Len(SubSeq(sent, 1, n)) = IF 1 <= n THEN n - 1 + 1 ELSE 0
      /\ \A i \in 1..(n - 1 + 1) : SubSeq(sent, 1, n)[i] = sent[1 + i - 1]
  BY <1>2, <1>4, SubSeqProperties
<1>6. n - 1 + 1 = n /\ \A i \in 1..n : 1 + i - 1 = i
  BY <1>2
<1>7. Len(SubSeq(sent, 1, n)) = n
  BY <1>2, <1>5
<1>9. ASSUME NEW i \in 1..Len(sent), sent[i].at <= clock PROVE i \in 1..n
  BY <1>1, <1>2, <1>8, <1>9
<1> QED
  BY <1>1, <1>2, <1>3, <1>5, <1>6, <1>7, <1>9 DEF sent, M

AllMessages == UNION {Messages(k) : k \in Kinds}

\* From this place on the list has what was heard of this kind, if anything.
Placed(list, k, place) ==
    /\ \A i \in 1..Len(list) :
        list[i].kind = k =>
            i - place \in 1..Len(HeardOf(k)) /\ list[i] = HeardOf(k)[i - place]
    /\ \A j \in 1..Len(HeardOf(k)) :
        place + j \in 1..Len(list) /\ list[place + j] = HeardOf(k)[j]

\* The list has what was heard of these kinds, kind after kind.
Joined(list, K) ==
    /\ list \in Seq(AllMessages)
    /\ \A i \in 1..Len(list) : list[i].kind \in K
    /\ \A k \in K : \E place \in Nat : Placed(list, k, place)

LEMMA JoinsFirst ==
    ASSUME TrialInv, NEW k \in Kinds
    PROVE  Joined(HeardOf(k), {k})
<1>1. HeardOf(k) \in Seq(Messages(k))
  BY HeardIsPrefix
<1>2. \A i \in 1..Len(HeardOf(k)) : HeardOf(k)[i] \in Messages(k)
  BY <1>1
<1>3. HeardOf(k) \in Seq(AllMessages)
  BY <1>1, <1>2 DEF AllMessages
<1>4. Placed(HeardOf(k), k, 0)
  <2>1. \A i \in 1..Len(HeardOf(k)) : i - 0 = i /\ 0 + i = i
    OBVIOUS
  <2> QED
    BY <2>1 DEF Placed
<1> QED
  BY <1>2, <1>3, <1>4 DEF Joined, Messages

LEMMA JoinsNext ==
    ASSUME TrialInv, NEW list, NEW K, Joined(list, K), NEW k \in Kinds \ K
    PROVE  Joined(list \o HeardOf(k), K \union {k})
<1> DEFINE new == HeardOf(k)
           n == Len(list)
<1>1. /\ list \in Seq(AllMessages) /\ new \in Seq(AllMessages)
      /\ \A i \in 1..Len(new) : new[i].kind = k
  BY JoinsFirst DEF Joined
<1>2. /\ list \o new \in Seq(AllMessages)
      /\ Len(list \o new) = n + Len(new)
      /\ \A i \in 1..n + Len(new) : (list \o new)[i] = IF i <= n THEN list[i] ELSE new[i - n]
  <2> HIDE DEF new
  <2> QED
    BY <1>1, ConcatProperties
<1>3. n \in Nat /\ Len(new) \in Nat
  BY <1>1
<1>4. ASSUME NEW i \in 1..n + Len(new)
      PROVE  \/ i \in 1..n /\ (list \o new)[i] = list[i]
             \/ i - n \in 1..Len(new) /\ (list \o new)[i] = new[i - n]
  <2> HIDE DEF new, n
  <2>1. i \in 1..n \/ (i - n \in 1..Len(new) /\ ~(i <= n))
    BY <1>3
  <2> QED
    BY <1>2, <1>3, <2>1
<1>5. \A i \in 1..n : list[i].kind \in K
  BY DEF Joined
<1> DEFINE both == list \o new
<1>6. \A i \in 1..Len(both) : both[i].kind \in K \union {k}
  BY <1>1, <1>2, <1>4, <1>5
<1>7. Placed(both, k, n)
  <2>1. ASSUME NEW i \in 1..n + Len(new), both[i].kind = k
        PROVE  i - n \in 1..Len(new) /\ both[i] = new[i - n]
    BY <1>4, <1>5, <2>1
  <2>2. ASSUME NEW j \in 1..Len(new)
        PROVE  n + j \in 1..n + Len(new) /\ both[n + j] = new[j]
    <3>1. n + j \in 1..n + Len(new) /\ ~(n + j <= n) /\ n + j - n = j
      <4> HIDE DEF n, new
      <4> QED
        BY <1>3
    <3> QED
      BY <1>2, <3>1
  <2> QED
    BY <1>2, <2>1, <2>2 DEF Placed
<1>8. ASSUME NEW l \in K
      PROVE  \E place \in Nat : Placed(both, l, place)
  <2>1. PICK place \in Nat : Placed(list, l, place)
    BY DEF Joined
  <2>2. ASSUME NEW i \in 1..n + Len(new), both[i].kind = l
        PROVE  i - place \in 1..Len(HeardOf(l)) /\ both[i] = HeardOf(l)[i - place]
    <3>1. i \in 1..n /\ both[i] = list[i]
      BY <1>1, <1>4, <2>2
    <3> QED
      BY <2>1, <2>2, <3>1 DEF Placed
  <2>4. ASSUME NEW j \in 1..Len(HeardOf(l))
        PROVE  place + j \in 1..n + Len(new) /\ both[place + j] = HeardOf(l)[j]
    <3>1. place + j \in 1..n /\ list[place + j] = HeardOf(l)[j]
      BY <2>1 DEF Placed
    <3>2. place + j \in 1..n + Len(new) /\ place + j <= n
      <4> HIDE DEF n, new
      <4> QED
        BY <1>3, <3>1
    <3> QED
      BY <1>2, <3>1, <3>2
  <2>3. Placed(both, l, place)
    BY <1>2, <2>2, <2>4 DEF Placed
  <2> QED
    BY <2>3
<1> QED
  BY <1>2, <1>3, <1>6, <1>7, <1>8 DEF Joined

\* Of each kind the list has what was published and received by now, each message
\* once and in order.
LEMMA EventsWerePublished ==
    ASSUME TrialInv
    PROVE  /\ Events \in Seq(AllMessages)
           /\ \A k \in Kinds : \E place \in Nat :
                /\ \A i \in 1..Len(Events) :
                    Events[i].kind = k =>
                        /\ i - place \in 1..Len(evidence[k])
                        /\ Events[i] = evidence[k][i - place]
                /\ \A j \in 1..Len(evidence[k]) :
                    evidence[k][j].at <= clock =>
                        /\ place + j \in 1..Len(Events)
                        /\ Events[place + j] = evidence[k][j]
<1> DEFINE E2 == HeardOf("raw") \o HeardOf("faulted")
           E3 == E2 \o HeardOf("counters")
           E4 == E3 \o HeardOf("violation")
           E5 == E4 \o HeardOf("recovery")
<1>1. Joined(HeardOf("raw"), {"raw"})
  BY JoinsFirst DEF Kinds
<1>2. Joined(E2, {"raw", "faulted"})
  <2>1. "faulted" \in Kinds \ {"raw"} /\ {"raw"} \union {"faulted"} = {"raw", "faulted"}
    BY DEF Kinds
  <2> QED
    BY <1>1, <2>1, JoinsNext
<1> HIDE DEF E2
<1>3. Joined(E3, {"raw", "faulted", "counters"})
  <2>1. /\ "counters" \in Kinds \ {"raw", "faulted"}
        /\ {"raw", "faulted"} \union {"counters"} = {"raw", "faulted", "counters"}
    BY DEF Kinds
  <2> QED
    BY <1>2, <2>1, JoinsNext
<1> HIDE DEF E3
<1>4. Joined(E4, {"raw", "faulted", "counters", "violation"})
  <2>1. /\ "violation" \in Kinds \ {"raw", "faulted", "counters"}
        /\ {"raw", "faulted", "counters"} \union {"violation"}
                = {"raw", "faulted", "counters", "violation"}
    BY DEF Kinds
  <2> QED
    BY <1>3, <2>1, JoinsNext
<1> HIDE DEF E4
<1>5. Joined(E5, {"raw", "faulted", "counters", "violation", "recovery"})
  <2>1. /\ "recovery" \in Kinds \ {"raw", "faulted", "counters", "violation"}
        /\ {"raw", "faulted", "counters", "violation"} \union {"recovery"}
                = {"raw", "faulted", "counters", "violation", "recovery"}
    BY DEF Kinds
  <2> QED
    BY <1>4, <2>1, JoinsNext
<1> HIDE DEF E5
<1>6. Joined(Events, Kinds)
  <2>1. /\ "command" \in Kinds \ {"raw", "faulted", "counters", "violation", "recovery"}
        /\ {"raw", "faulted", "counters", "violation", "recovery"} \union {"command"} = Kinds
    BY DEF Kinds
  <2>2. Joined(E5 \o HeardOf("command"), Kinds)
    BY <1>5, <2>1, JoinsNext
  <2> QED
    BY <2>2 DEF Events, E5, E4, E3, E2
<1>7. ASSUME NEW k \in Kinds
      PROVE  \E place \in Nat :
                /\ \A i \in 1..Len(Events) :
                    Events[i].kind = k =>
                        /\ i - place \in 1..Len(evidence[k])
                        /\ Events[i] = evidence[k][i - place]
                /\ \A j \in 1..Len(evidence[k]) :
                    evidence[k][j].at <= clock =>
                        /\ place + j \in 1..Len(Events)
                        /\ Events[place + j] = evidence[k][j]
  <2>1. PICK place \in Nat : Placed(Events, k, place)
    BY <1>6 DEF Joined
  <2>2. /\ Len(HeardOf(k)) <= Len(evidence[k]) /\ Len(HeardOf(k)) \in Nat
        /\ Len(evidence[k]) \in Nat
        /\ \A i \in 1..Len(HeardOf(k)) : HeardOf(k)[i] = evidence[k][i]
    BY HeardIsPrefix DEF TrialInv, Published
  <2>3. ASSUME NEW i \in 1..Len(Events), Events[i].kind = k
        PROVE  i - place \in 1..Len(evidence[k]) /\ Events[i] = evidence[k][i - place]
    <3>1. i - place \in 1..Len(HeardOf(k)) /\ Events[i] = HeardOf(k)[i - place]
      BY <2>1, <2>3 DEF Placed
    <3> QED
      BY <2>2, <3>1
  <2>4. ASSUME NEW j \in 1..Len(evidence[k]), evidence[k][j].at <= clock
        PROVE  place + j \in 1..Len(Events) /\ Events[place + j] = evidence[k][j]
    <3>1. j \in 1..Len(HeardOf(k)) /\ HeardOf(k)[j] = evidence[k][j]
      BY <2>2, <2>4, HeardIsPrefix
    <3> QED
      BY <2>1, <3>1 DEF Placed
  <2> QED
    BY <2>3, <2>4
<1> QED
  BY <1>6, <1>7 DEF Joined

-----------------------------------------------------------------------------
(* Trials in which nothing is to be detected. *)

LEMMA NoAlarmsHeard ==
    ASSUME TrialInv, Tolerated, NEW d
    PROVE  Evidence(d)!Of("violation") = {} /\ Evidence(d)!Of("recovery") = {}
<1>1. DOMAIN Events = 1..Len(Events)
  BY EventsWerePublished
<1>2. evidence["violation"] = <<>> /\ evidence["recovery"] = <<>>
  BY DEF TrialInv, NoAlarms
<1>3. ASSUME NEW k \in {"violation", "recovery"}, NEW i \in 1..Len(Events)
      PROVE  Events[i].kind # k
  <2>1. k \in Kinds /\ Len(evidence[k]) = 0
    BY <1>2 DEF Kinds
  <2> QED
    BY <2>1, EventsWerePublished
<1> QED
  BY <1>1, <1>3 DEF Evidence!Of

\* A trial of a tolerable fault, or of none, is judged to have seen no violation
\* and no command, and no fault's expectations are met by it.
LEMMA QuietIsJudgedQuiet == TrialInv => QuietTrialIsQuiet
<1> SUFFICES ASSUME TrialInv, Tolerated
             PROVE  /\ Evidence(0)!NoViolationDuringObservation /\ Evidence(0)!NoRecoveryCommand
                    /\ \A f \in Faults : ~Passes(f)
  BY DEF QuietTrialIsQuiet
<1>1. Evidence(0)!NoViolationDuringObservation /\ Evidence(0)!NoRecoveryCommand
  BY NoAlarmsHeard DEF Evidence!NoViolationDuringObservation, Evidence!NoRecoveryCommand,
     Evidence!Between
<1>2. ASSUME NEW f \in Faults PROVE ~Passes(f)
  <2>1. Evidence(f.delay)!Detections = {}
    BY NoAlarmsHeard DEF Evidence!Detections, Evidence!Between
  <2>2. ~Evidence(f.delay)!WatchdogViolationDetected
    BY <2>1 DEF Evidence!WatchdogViolationDetected
  <2>3. f.faultType # "none"
    BY FaultsAssumption
  <2> DEFINE results == Evidence(f.delay)!Results(f.faultType)
  <2> DEFINE early == Evidence(f.delay)!NoEarlyViolation
             shown == Evidence(f.delay)!FaultObservable(f.faultType)
             detected == Evidence(f.delay)!WatchdogViolationDetected
             published == Evidence(f.delay)!RecoveryCommandPublished
             observed == Evidence(f.delay)!RecoveryCommandObserved
             stopped == Evidence(f.delay)!RobotStopped
             holds == Evidence(f.delay)!RobotStoppedHeld
  <2>4. results = <<early, shown, detected, published, observed, stopped, holds>>
    BY <2>3, Zenon DEF Evidence!Results
  <2>5. ~detected
    BY <2>2
  <2> HIDE DEF results, early, shown, detected, published, observed, stopped, holds
  <2>6. 3 \in DOMAIN results /\ ~results[3]
    BY <2>4, <2>5
  <2> QED
    BY <2>6 DEF Passes, Evidence!AllPass, results
<1> QED
  BY <1>1, <1>2

\* A healthy trial, and one of a fault that the watchdog is to tolerate, end with
\* no violation and no command seen, so that no fault scenario passes by it:
\* whatever is heard, in whatever order, within a tick or in the next one.
THEOREM QuietTrialsAreQuiet == TrialSpec => []QuietTrialIsQuiet
BY QuietIsJudgedQuiet, TrialInvariance, PTL

-----------------------------------------------------------------------------
(* Trials of no fault. *)

\* For the facts about numbers in those proofs.
EP == INSTANCE EvidenceProofs WITH
    Timelines <- {}, Violation <- "message_age_exceeded", Delay <- 0,
    MaxEvents <- 0, events <- Events,
    timeline <- [baselineStart |-> baselineStart, activation |-> activation,
                 observationDeadline |-> observationDeadline]

LEMMA EvidenceParameters ==
    /\ {FaultWithin, 0, Tolerance, WatchdogWithin, CommandWithin, ObservedWithin,
        RobotWithin, Hold, Period} \subseteq Nat
    /\ 0 \in Nat /\ MaxTime \in Nat
BY DeadlinesAssumption, Parameters

LEMMA LastOfIndices ==
    ASSUME NEW d, NEW n \in Nat, NEW T \in SUBSET (1..n), T # {}
    PROVE  Evidence(d)!Max(T) \in T /\ \A u \in T : Evidence(d)!Max(T) >= u
<1>1. EP!Max(T) \in T /\ \A u \in T : EP!Max(T) >= u
  BY EP!LastInList, EvidenceParameters
<1> QED
  BY <1>1 DEF EP!Max, Evidence!Max

LEMMA ThresholdIsFloor ==
    ASSUME NEW d \in Nat
    PROVE  /\ Evidence(d)!Threshold \in Int /\ Evidence(d)!Threshold >= d - Tolerance
           /\ Evidence(d)!Threshold \in {d - Tolerance, 0}
<1>1. d - Tolerance \in Int /\ 0 \in Int
  BY EvidenceParameters
<1>2. /\ EP!Max({d - Tolerance, 0}) \in Int /\ EP!Max({d - Tolerance, 0}) >= d - Tolerance
      /\ EP!Max({d - Tolerance, 0}) \in {d - Tolerance, 0}
  BY <1>1, EP!MaxOfTwo, EP!MaxIsEither, EvidenceParameters
<1>3. Evidence(d)!Threshold = EP!Max({d - Tolerance, 0})
  BY DEF Evidence!Threshold, Evidence!Max, EP!Max
<1> QED
  BY <1>1, <1>2, <1>3

\* No two samples bear the same stamp.
LEMMA StampsDiffer ==
    ASSUME NEW m \in Nat \ {0}, NEW n \in Nat \ {0}, StampOf(m) = StampOf(n)
    PROVE  m = n
<1>1. ASSUME NEW a \in Nat, NEW b \in Nat, a < b PROVE a * Period < b * Period
  <2>1. (a + 1) * Period <= b * Period /\ (a + 1) * Period = a * Period + Period
    BY <1>1, Parameters
  <2> QED
    BY <2>1, Parameters
<1>2. m - 1 \in Nat /\ n - 1 \in Nat /\ (m - 1) * Period = (n - 1) * Period
  BY DEF StampOf
<1>3. ~(m - 1 < n - 1) /\ ~(n - 1 < m - 1)
  <2> DEFINE a == m - 1
             b == n - 1
  <2>1. a \in Nat /\ b \in Nat /\ a * Period = b * Period /\ a * Period \in Nat
    BY <1>2, Parameters
  <2> HIDE DEF a, b
  <2>2. ~(a < b) /\ ~(b < a)
    BY <1>1, <2>1
  <2> QED
    BY <2>2 DEF a, b
<1> QED
  BY <1>3

\* What the list can have of an untouched stream.
LEMMA UntouchedEvents ==
    ASSUME TrialInv, fault = NoFault
    PROVE  /\ Events \in Seq(AllMessages)
           /\ \A i \in 1..Len(Events) : Events[i].kind = "counters" => Events[i].data = 0
           /\ \A i \in 1..Len(Events) : Events[i].kind = "raw" =>
                \E n \in Nat \ {0} : /\ Events[i].at = StampOf(n) + lag["raw"]
                                     /\ Events[i].data.stamp = StampOf(n)
           /\ \A i \in 1..Len(Events) : Events[i].kind = "faulted" =>
                \E n \in Nat \ {0} : /\ Events[i].at = StampOf(n) + lag["faulted"]
                                     /\ Events[i].data = StampOf(n)
           /\ \A i, j \in 1..Len(Events) :
                /\ Events[i].kind = "faulted" /\ Events[j].kind = "faulted"
                /\ Events[i].data = Events[j].data
                => i = j
<1>1. /\ \A k \in Kinds : Len(evidence[k]) \in Nat
      /\ \A i \in 1..Len(evidence["raw"]) :
          /\ evidence["raw"][i].at = StampOf(i) + lag["raw"]
          /\ evidence["raw"][i].data.stamp = StampOf(i)
      /\ \A i \in 1..Len(evidence["faulted"]) :
          /\ evidence["faulted"][i].at = StampOf(i) + lag["faulted"]
          /\ evidence["faulted"][i].data = StampOf(i)
      /\ \A i \in 1..Len(evidence["counters"]) : evidence["counters"][i].data = 0
  <2>1. appliedAt = NoTime
    BY DEF TrialInv, IInv, Plumbing, InForce
  <2>2. \A k \in Kinds : Len(evidence[k]) \in Nat
    BY Lengths DEF TrialInv
  <2>3. \A i \in 1..Len(evidence["raw"]) :
          /\ evidence["raw"][i].at = StampOf(i) + lag["raw"]
          /\ evidence["raw"][i].data.stamp = StampOf(i)
    BY DEF TrialInv, RawPublished
  <2>4. /\ \A i \in 1..Len(evidence["faulted"]) :
            /\ evidence["faulted"][i].at = StampOf(i) + lag["faulted"]
            /\ evidence["faulted"][i].data = StampOf(i)
        /\ \A i \in 1..Len(evidence["counters"]) : evidence["counters"][i].data = 0
    BY <2>1 DEF TrialInv, Untouched
  <2> QED
    BY <2>2, <2>3, <2>4
<1>2. /\ Events \in Seq(AllMessages)
      /\ \A k \in Kinds : \E place \in Nat : \A i \in 1..Len(Events) :
           Events[i].kind = k =>
               /\ i - place \in 1..Len(evidence[k])
               /\ Events[i] = evidence[k][i - place]
  BY EventsWerePublished
<1>3. "counters" \in Kinds /\ "raw" \in Kinds /\ "faulted" \in Kinds
  BY DEF Kinds
<1>4. ASSUME NEW i \in 1..Len(Events), Events[i].kind = "counters"
      PROVE  Events[i].data = 0
  <2>1. PICK n \in 1..Len(evidence["counters"]) : Events[i] = evidence["counters"][n]
    BY <1>2, <1>3, <1>4
  <2> QED
    BY <1>1, <2>1
<1>5. ASSUME NEW i \in 1..Len(Events), Events[i].kind = "raw"
      PROVE  \E n \in Nat \ {0} : /\ Events[i].at = StampOf(n) + lag["raw"]
                                  /\ Events[i].data.stamp = StampOf(n)
  <2>1. PICK n \in 1..Len(evidence["raw"]) : Events[i] = evidence["raw"][n]
    BY <1>2, <1>3, <1>5
  <2> QED
    BY <1>1, <2>1
<1>6. PICK place \in Nat : \A i \in 1..Len(Events) :
          Events[i].kind = "faulted" =>
              /\ i - place \in 1..Len(evidence["faulted"])
              /\ Events[i] = evidence["faulted"][i - place]
  BY <1>2, <1>3
<1>7. ASSUME NEW i \in 1..Len(Events), Events[i].kind = "faulted"
      PROVE  /\ i - place \in Nat \ {0}
             /\ Events[i].at = StampOf(i - place) + lag["faulted"]
             /\ Events[i].data = StampOf(i - place)
  <2> DEFINE n == i - place
  <2>1. n \in 1..Len(evidence["faulted"]) /\ Events[i] = evidence["faulted"][n]
    BY <1>6, <1>7
  <2> HIDE DEF n
  <2>2. n \in Nat \ {0}
    BY <1>1, <1>3, <2>1
  <2>3. Events[i].at = StampOf(n) + lag["faulted"] /\ Events[i].data = StampOf(n)
    BY <1>1, <2>1
  <2> QED
    BY <2>2, <2>3 DEF n
<1>8. ASSUME NEW i \in 1..Len(Events), NEW j \in 1..Len(Events),
             Events[i].kind = "faulted", Events[j].kind = "faulted",
             Events[i].data = Events[j].data
      PROVE  i = j
  <2>1. i - place = j - place
    BY <1>7, <1>8, StampsDiffer
  <2> QED
    BY <2>1
<1> QED
  BY <1>2, <1>4, <1>5, <1>7, <1>8

\* Each fault would show itself in a way that an untouched stream cannot.
LEMMA DropoutNotShown ==
    ASSUME TrialInv, fault = NoFault, NEW d PROVE ~Evidence(d)!DropoutObservable
<1> DEFINE window == Evidence(d)!FaultWindow("counters")
<1>1. /\ window \subseteq 1..Len(Events) /\ Len(Events) \in Nat
      /\ \A i \in window : Events[i].kind = "counters"
  BY UntouchedEvents DEF Evidence!FaultWindow, Evidence!Between, Evidence!Of
<1>2. ASSUME window # {} PROVE Events[Evidence(d)!Max(window)].data = 0
  <2>1. Evidence(d)!Max(window) \in window
    <3> HIDE DEF window
    <3> QED
      BY <1>1, <1>2, LastOfIndices
  <2> QED
    BY <1>1, <2>1, UntouchedEvents
<1> QED
  BY <1>2 DEF Evidence!DropoutObservable

LEMMA LatencyNotShown ==
    ASSUME TrialInv, fault = NoFault, NEW f \in Faults, f.faultType = "latency", Distinct(f)
    PROVE  ~Evidence(f.delay)!LatencyObservable
<1> SUFFICES ASSUME Evidence(f.delay)!LatencyObservable PROVE FALSE
  OBVIOUS
<1>1. PICK i \in Evidence(f.delay)!FaultWindow("faulted"), j \in Evidence(f.delay)!Of("raw") :
        /\ Events[j].data.stamp = Events[i].data
        /\ Events[i].at - Events[j].at >= Evidence(f.delay)!Threshold
  BY DEF Evidence!LatencyObservable
<1>2. /\ i \in 1..Len(Events) /\ Events[i].kind = "faulted"
      /\ j \in 1..Len(Events) /\ Events[j].kind = "raw"
  BY UntouchedEvents DEF Evidence!FaultWindow, Evidence!Between, Evidence!Of
<1>3. PICK m \in Nat \ {0} :
        Events[i].at = StampOf(m) + lag["faulted"] /\ Events[i].data = StampOf(m)
  BY <1>2, UntouchedEvents
<1>4. PICK n \in Nat \ {0} :
        Events[j].at = StampOf(n) + lag["raw"] /\ Events[j].data.stamp = StampOf(n)
  BY <1>2, UntouchedEvents
<1>5. /\ lag["raw"] \in Nat /\ lag["faulted"] \in Lags /\ lag["faulted"] \in Nat
      /\ StampOf(m) \in Nat /\ StampOf(n) = StampOf(m)
  BY <1>1, <1>3, <1>4, StampType, DeadlinesAssumption DEF TrialInv, Published, Kinds
<1>6. f.delay \in Nat /\ Tolerance \in Nat /\ f.delay - Tolerance > lag["faulted"]
  BY <1>5, FaultsAssumption, DeadlinesAssumption DEF Distinct
<1> DEFINE threshold == Evidence(f.delay)!Threshold
<1>7. threshold \in Int /\ threshold >= f.delay - Tolerance
  BY <1>6, ThresholdIsFloor
<1>8. Events[i].at - Events[j].at >= threshold
  BY <1>1
<1> HIDE DEF threshold
<1> QED
  BY <1>3, <1>4, <1>5, <1>6, <1>7, <1>8

LEMMA StaleNotShown ==
    ASSUME TrialInv, fault = NoFault, NEW d PROVE ~Evidence(d)!StaleObservable
<1> DEFINE window == Evidence(d)!FaultWindow("faulted")
           values == {Events[i].data : i \in window}
           value == [i \in window |-> Events[i].data]
<1>1. /\ window \subseteq 1..Len(Events) /\ Len(Events) \in Nat
      /\ \A i \in window : Events[i].kind = "faulted"
  BY UntouchedEvents DEF Evidence!FaultWindow, Evidence!Between, Evidence!Of
<1>2. IsFiniteSet(window)
  <2> DEFINE last == Len(Events)
  <2>1. last \in Nat /\ window \in SUBSET (1..last)
    BY <1>1
  <2> HIDE DEF window, last
  <2>2. IsFiniteSet(1..last)
    BY <2>1, FS_Interval
  <2> QED
    BY <2>1, <2>2, FS_Subset
<1>3. \A i, j \in window : value[i] = value[j] => i = j
  BY <1>1, UntouchedEvents
<1> HIDE DEF window
<1>4. value \in Surjection(window, values) /\ value \in Injection(window, values)
  BY <1>3 DEF Surjection, Injection, IsInjective
<1>5. Cardinality(values) = Cardinality(window)
  <2> HIDE DEF value, values
  <2> QED
    BY <1>2, <1>4, FS_Surjection
<1>6. \A S : Evidence(d)!Cardinality(S) = Cardinality(S)
  BY Zenon DEF Evidence!Cardinality, Cardinality
<1> SUFFICES ASSUME Evidence(d)!StaleObservable PROVE FALSE
  OBVIOUS
<1>7. Evidence(d)!Cardinality(window) >= 2 /\ Evidence(d)!Cardinality(values) = 1
  BY DEF Evidence!StaleObservable, window
<1> QED
  BY <1>5, <1>6, <1>7

LEMMA UntouchedIsJudgedSo == TrialInv => NothingShownUnapplied
<1> SUFFICES ASSUME TrialInv, fault = NoFault, NEW f \in Faults, Distinct(f)
             PROVE  ~Evidence(f.delay)!FaultObservable(f.faultType)
  BY DEF NothingShownUnapplied
<1>1. CASE f.faultType = "dropout"
  BY <1>1, DropoutNotShown DEF Evidence!FaultObservable
<1>2. CASE f.faultType = "latency"
  BY <1>2, LatencyNotShown DEF Evidence!FaultObservable
<1>3. CASE f.faultType = "stale"
  BY <1>3, StaleNotShown DEF Evidence!FaultObservable
<1> QED
  BY <1>1, <1>2, <1>3, FaultsAssumption

\* Evidence of a trial without a fault shows none: no fault's assertion, its delay
\* being longer than messages take anyway, is met by samples on their way when its
\* window opens or closes.
THEOREM NothingIsShownUnapplied == TrialSpec => []NothingShownUnapplied
BY UntouchedIsJudgedSo, TrialInvariance, PTL

-----------------------------------------------------------------------------
(* The watchdog's messages, and what the robot does about them. *)

\* When the i-th violation was published.
AlarmedAt(i) == evidence["violation"][i].at - lag["violation"]

\* Each check that finds a violation publishes three messages, and says why the
\* first of them did.
Alarms ==
    /\ Len(evidence["recovery"]) = Len(evidence["violation"])
    /\ Len(evidence["command"]) = Len(evidence["violation"])
    /\ latched <=> Len(evidence["violation"]) # 0
    /\ \A i \in 1..Len(evidence["violation"]) :
        /\ AlarmedAt(i) \in Nat /\ AlarmedAt(1) <= AlarmedAt(i) /\ AlarmedAt(i) <= clock
        /\ evidence["violation"][i].data = latchedReason
        /\ evidence["recovery"][i].at = AlarmedAt(i) + lag["recovery"]
        /\ evidence["command"][i].at = AlarmedAt(i) + lag["command"]
        /\ evidence["command"][i].data = TRUE

\* From the first on, every check does; the command arrives before the tick is over,
\* and the samples of later ticks are of a robot that stands.
Stopping ==
    latched =>
        /\ \A t \in Nat : AlarmedAt(1) <= t /\ (t < clock \/ (t = clock /\ checked)) =>
             \E i \in 1..Len(evidence["violation"]) : AlarmedAt(i) = t
        /\ command \/ ~moving
        /\ clock > AlarmedAt(1) => ~moving
        /\ \A i \in 1..Len(evidence["raw"]) :
            evidence["raw"][i].data.stamp > AlarmedAt(1) => evidence["raw"][i].data.stopped

\* The first comes after the fault was applied, and soon after.
Soon ==
    /\ Detectable /\ Watchdog!Tolerates(MaxAge - Period)
    /\ appliedAt # NoTime
    /\ withdrawnAt = NoTime \/ withdrawnAt > DetectionTime
    /\ latched
    => appliedAt < AlarmedAt(1) /\ AlarmedAt(1) <= DetectionTime

LEMMA StampsPublished ==
    ASSUME IInv, RawPublished, NEW i \in 1..Len(evidence["raw"])
    PROVE  StampOf(i) <= clock
<1> DEFINE n == received + Len(raw)
<1>1. n \in Nat /\ n * Period <= clock + Period /\ clock \in Nat /\ Period \in Nat \ {0}
  <2>1. Len(raw) \in Nat
    <3>1. raw = <<>> \/ raw = <<clock>>
      BY DEF IInv, Plumbing, Sampled
    <3>2. CASE raw = <<>>
      BY <3>2
    <3>3. CASE raw = <<clock>>
      BY <3>3
    <3> QED
      BY <3>1, <3>2, <3>3
  <2> QED
    BY <2>1, Parameters DEF IInv, Plumbing, Types, Sampled
<1>2. i \in 1..n
  BY DEF RawPublished
<1> HIDE DEF n
<1>3. (n - 1) * Period <= clock /\ i - 1 <= n - 1 /\ i - 1 \in Nat
  BY <1>1, <1>2
<1>4. (i - 1) * Period <= (n - 1) * Period
  BY <1>1, <1>2, <1>3
<1> QED
  BY <1>1, <1>2, <1>3, <1>4 DEF StampOf

LEMMA AlarmsStay ==
    ASSUME UNCHANGED <<clock, fault, latched, latchedReason, checked, moving, command, lag>>,
           \A k \in {"violation", "recovery", "command", "raw"} : evidence'[k] = evidence[k]
    PROVE  /\ Alarms => Alarms'
           /\ Stopping => Stopping'
           /\ AlarmedAt(1)' = AlarmedAt(1)
BY DEF Alarms, Stopping, AlarmedAt

LEMMA SampleKeepsAlarms ==
    ASSUME TrialInv, Alarms, Stopping, Sample
    PROVE  Alarms' /\ Stopping' /\ AlarmedAt(1)' = AlarmedAt(1)
<1> DEFINE sample == [stamp |-> clock, stopped |-> ~moving]
           n == Len(evidence["raw"])
<1>1. /\ Emits("raw", <<sample>>)
      /\ \A k \in Kinds \ {"raw"} : evidence'[k] = evidence[k]
      /\ UNCHANGED <<clock, fault, moving, lag>>
  BY SampleEmits DEF TrialInv
<1>2. /\ UNCHANGED <<latched, latchedReason, checked, command>>
      /\ evidence'["violation"] = evidence["violation"]
      /\ evidence'["recovery"] = evidence["recovery"]
      /\ evidence'["command"] = evidence["command"]
  BY <1>1 DEF Sample, OnSample, watchdog, timers, Kinds
<1>3. AlarmedAt(1)' = AlarmedAt(1) /\ Alarms'
  BY <1>1, <1>2 DEF Alarms, AlarmedAt
<1>4. ASSUME latched
      PROVE  \A i \in 1..Len(evidence'["raw"]) :
                evidence'["raw"][i].data.stamp > AlarmedAt(1) => evidence'["raw"][i].data.stopped
  <2>1. n \in Nat
    BY Lengths DEF TrialInv, Kinds
  <2>2. Len(<<sample>>) = 1 /\ <<sample>>[1] = sample
    OBVIOUS
  <2>3. Heard("raw", sample).data.stamp = clock /\ Heard("raw", sample).data.stopped = ~moving
    BY DEF Heard
  <2> HIDE DEF n, sample
  <2>4. /\ Len(evidence'["raw"]) = n + 1
        /\ \A i \in 1..n : evidence'["raw"][i] = evidence["raw"][i]
        /\ evidence'["raw"][n + 1] = Heard("raw", sample)
    BY <1>1, <2>1, <2>2, EmitsOne DEF n
  <2>5. \A i \in 1..n + 1 : i \in 1..n \/ i = n + 1
    BY <2>1
  <2>6. /\ clock > AlarmedAt(1) => ~moving
        /\ \A i \in 1..n : evidence["raw"][i].data.stamp > AlarmedAt(1)
                              => evidence["raw"][i].data.stopped
    BY <1>4 DEF Stopping, n
  <2> QED
    BY <2>3, <2>4, <2>5, <2>6
<1>5. Stopping'
  <2> SUFFICES ASSUME latched PROVE Stopping'
    BY <1>2 DEF Stopping
  <2>1. /\ \A t \in Nat : AlarmedAt(1) <= t /\ (t < clock \/ (t = clock /\ checked)) =>
             \E i \in 1..Len(evidence["violation"]) : AlarmedAt(i) = t
        /\ command \/ ~moving
        /\ clock > AlarmedAt(1) => ~moving
    BY DEF Stopping
  <2> QED
    BY <1>1, <1>2, <1>3, <1>4, <2>1 DEF Stopping, AlarmedAt
<1> QED
  BY <1>3, <1>5

\* What a check publishes that finds a violation.
LEMMA AlarmEmits ==
    ASSUME TrialInv, Alarms, CheckStream, Commands, NEW n, n = Len(evidence["violation"])
    PROVE  /\ n \in Nat
           /\ Len(evidence'["violation"]) = n + 1 /\ Len(evidence'["recovery"]) = n + 1
           /\ Len(evidence'["command"]) = n + 1
           /\ \A i \in 1..n :
                /\ evidence'["violation"][i] = evidence["violation"][i]
                /\ evidence'["recovery"][i] = evidence["recovery"][i]
                /\ evidence'["command"][i] = evidence["command"][i]
                /\ AlarmedAt(i)' = AlarmedAt(i)
           /\ evidence'["violation"][n + 1].data = latchedReason'
           /\ evidence'["recovery"][n + 1].at = clock + lag["recovery"]
           /\ evidence'["command"][n + 1].at = clock + lag["command"]
           /\ evidence'["command"][n + 1].data = TRUE
           /\ AlarmedAt(n + 1)' = clock
           /\ latched' /\ (latched => latchedReason' = latchedReason)
           /\ latched <=> n # 0
<1>1. /\ OnCheck /\ UNCHANGED <<clock, lag>> /\ clock \in Nat
      /\ Emits("violation", <<status'.reason>>)
      /\ Emits("recovery", <<0>>) /\ Emits("command", <<TRUE>>)
  BY CheckEmits DEF TrialInv, CheckStream, IInv, Plumbing, Types
<1>2. /\ n \in Nat /\ Len(evidence["recovery"]) = n /\ Len(evidence["command"]) = n
      /\ latched <=> n # 0
      /\ lag["violation"] \in Nat
  BY Lengths DEF TrialInv, Alarms, Kinds
<1>3. /\ Len(evidence'["violation"]) = n + 1
      /\ \A i \in 1..n : evidence'["violation"][i] = evidence["violation"][i]
      /\ evidence'["violation"][n + 1] = Heard("violation", status'.reason)
  <2> DEFINE list == <<status'.reason>>
  <2>1. Len(list) = 1 /\ list[1] = status'.reason
    OBVIOUS
  <2>2. Emits("violation", list)
    BY <1>1
  <2> HIDE DEF list
  <2>3. /\ Len(evidence'["violation"]) = n + 1
        /\ \A i \in 1..n : evidence'["violation"][i] = evidence["violation"][i]
        /\ evidence'["violation"][n + 1] = Heard("violation", list[1])
    BY <1>2, <2>2, <2>1, EmitsOne
  <2> QED
    BY <2>1, <2>3, Zenon
<1>4. /\ Len(evidence'["recovery"]) = n + 1
      /\ \A i \in 1..n : evidence'["recovery"][i] = evidence["recovery"][i]
      /\ evidence'["recovery"][n + 1] = Heard("recovery", 0)
  <2> DEFINE list == <<0>>
  <2>1. Len(list) = 1 /\ list[1] = 0
    OBVIOUS
  <2>2. Emits("recovery", list)
    BY <1>1
  <2> HIDE DEF list
  <2>3. /\ Len(evidence'["recovery"]) = n + 1
        /\ \A i \in 1..n : evidence'["recovery"][i] = evidence["recovery"][i]
        /\ evidence'["recovery"][n + 1] = Heard("recovery", list[1])
    BY <1>2, <2>2, <2>1, EmitsOne
  <2> QED
    BY <2>1, <2>3, Zenon
<1>5. /\ Len(evidence'["command"]) = n + 1
      /\ \A i \in 1..n : evidence'["command"][i] = evidence["command"][i]
      /\ evidence'["command"][n + 1] = Heard("command", TRUE)
  <2> DEFINE list == <<TRUE>>
  <2>1. Len(list) = 1 /\ list[1] = TRUE
    OBVIOUS
  <2>2. Emits("command", list)
    BY <1>1
  <2> HIDE DEF list
  <2>3. /\ Len(evidence'["command"]) = n + 1
        /\ \A i \in 1..n : evidence'["command"][i] = evidence["command"][i]
        /\ evidence'["command"][n + 1] = Heard("command", list[1])
    BY <1>2, <2>1, <2>2, EmitsOne
  <2> QED
    BY <2>1, <2>3, Zenon
<1>6. /\ latched' /\ (latched => latchedReason' = latchedReason)
      /\ status'.reason = latchedReason'
  <2>1. WP!Check /\ WP!IInv
    BY <1>1, SameWatchdog DEF OnCheck, TrialInv, IInv, Plumbing
  <2>2. status'.violated = latched'
    BY <2>1, CheckDecides
  <2>3. status'.reason = latchedReason'
    BY <2>1 DEF WP!Check, WP!Latch
  <2>4. latched => latchedReason' = latchedReason
    BY <2>1 DEF WP!Check, WP!Latch, WP!Verdict, WP!SilentVerdict
  <2> QED
    BY <2>2, <2>3, <2>4 DEF Commands
<1>7. \A i \in 1..n : AlarmedAt(i)' = AlarmedAt(i)
  BY <1>1, <1>3 DEF AlarmedAt
<1>8. AlarmedAt(n + 1)' = clock
  BY <1>1, <1>2, <1>3 DEF AlarmedAt, Heard
<1> QED
  BY <1>2, <1>3, <1>4, <1>5, <1>6, <1>7, <1>8 DEF Heard

LEMMA CheckKeepsAlarms ==
    ASSUME TrialInv, Alarms, Stopping, CheckStream
    PROVE  Alarms' /\ Stopping' /\ (latched => AlarmedAt(1)' = AlarmedAt(1))
           /\ (~latched /\ latched' => AlarmedAt(1)' = clock)
<1>1. /\ OnCheck /\ UNCHANGED <<clock, lag, moving>> /\ clock \in Nat /\ checked' = TRUE
      /\ evidence'["raw"] = evidence["raw"] /\ ~checked
      /\ ~Commands => evidence' = evidence
      /\ command' = (command \/ Commands)
      /\ command \in BOOLEAN /\ moving \in BOOLEAN /\ latched \in BOOLEAN /\ latched' \in BOOLEAN
  <2>1. WP!Check /\ WP!IInv
    BY SameWatchdog DEF CheckStream, OnCheck, TrialInv, IInv, Plumbing
  <2>2. latched \in BOOLEAN /\ latched' \in BOOLEAN
    BY <2>1, CheckDecides DEF WP!IInv, WP!TypeOK
  <2> QED
    BY <2>2, CheckEmits DEF TrialInv, CheckStream, OnCheck, IInv, Plumbing, Types, robot
<1>2. CASE ~Commands
  <2>1. ~latched' /\ ~latched
    <3>1. WP!Check /\ WP!IInv
      BY <1>1, SameWatchdog DEF OnCheck, TrialInv, IInv, Plumbing
    <3> QED
      BY <1>2, <3>1, CheckDecides DEF Commands
  <2>2. Stopping'
    BY <2>1 DEF Stopping
  <2>3. Len(evidence["violation"]) = 0
    BY <2>1 DEF Alarms
  <2>4. Alarms'
    BY <1>1, <1>2, <2>1, <2>3 DEF Alarms
  <2> QED
    BY <2>1, <2>2, <2>4
<1>3. CASE Commands
  <2> DEFINE T(i) == AlarmedAt(i)
             new(i) == AlarmedAt(i)'
  <2>9. PICK n : n = Len(evidence["violation"])
    OBVIOUS
  <2>1. /\ n \in Nat /\ Len(evidence'["violation"]) = n + 1
        /\ \A i \in 1..n : new(i) = T(i)
        /\ new(n + 1) = clock
        /\ latched' /\ (latched <=> n # 0)
    BY <1>3, <2>9, AlarmEmits
  <2>2. \A i \in 1..n : T(i) \in Nat /\ T(1) <= T(i) /\ T(i) <= clock
    BY <2>9 DEF Alarms
  <2>3. /\ n # 0 => 1 \in 1..n /\ new(1) = T(1) /\ T(1) \in Nat /\ T(1) <= clock
        /\ n = 0 => new(1) = clock
    <3>1. n # 0 => 1 \in 1..n
      BY <2>1
    <3> HIDE DEF T, new
    <3>2. n = 0 => new(1) = clock
      <4>1. n = 0 => n + 1 = 1
        OBVIOUS
      <4> QED
        BY <2>1, <4>1
    <3> QED
      BY <2>1, <2>2, <3>1, <3>2
  <2>4. Alarms'
    <3>1. ASSUME NEW i \in 1..n + 1
          PROVE  /\ new(i) \in Nat /\ new(1) <= new(i) /\ new(i) <= clock
                 /\ evidence'["violation"][i].data = latchedReason'
                 /\ evidence'["recovery"][i].at = new(i) + lag["recovery"]
                 /\ evidence'["command"][i].at = new(i) + lag["command"]
                 /\ evidence'["command"][i].data = TRUE
      <4>1. CASE i \in 1..n
        <5>1. n # 0 /\ latched
          BY <2>1, <4>1
        <5>2. /\ evidence["violation"][i].data = latchedReason
              /\ evidence["recovery"][i].at = T(i) + lag["recovery"]
              /\ evidence["command"][i].at = T(i) + lag["command"]
              /\ evidence["command"][i].data = TRUE
          BY <2>9, <4>1 DEF Alarms
        <5>3. /\ evidence'["violation"][i] = evidence["violation"][i]
              /\ evidence'["recovery"][i] = evidence["recovery"][i]
              /\ evidence'["command"][i] = evidence["command"][i]
              /\ latchedReason' = latchedReason
          BY <1>3, <2>9, <4>1, <5>1, AlarmEmits
        <5>4. new(i) \in Nat /\ new(1) <= new(i) /\ new(i) <= clock
          BY <2>1, <2>2, <2>3, <4>1, <5>1
        <5>5. new(i) = T(i)
          BY <2>1, <4>1
        <5> HIDE DEF T, new
        <5> QED
          BY <5>2, <5>3, <5>4, <5>5
      <4>2. CASE i = n + 1
        <5>1. /\ evidence'["violation"][n + 1].data = latchedReason'
              /\ evidence'["recovery"][n + 1].at = clock + lag["recovery"]
              /\ evidence'["command"][n + 1].at = clock + lag["command"]
              /\ evidence'["command"][n + 1].data = TRUE
          BY <1>3, <2>9, AlarmEmits
        <5>2. new(1) <= clock
          <6> HIDE DEF T, new
          <6> QED
            BY <1>1, <2>1, <2>3
        <5>3. new(i) = clock
          BY <2>1, <4>2
        <5> HIDE DEF T, new
        <5> QED
          BY <1>1, <4>2, <5>1, <5>2, <5>3
      <4>3. i \in 1..n \/ i = n + 1
        BY <2>1
      <4> QED
        BY <4>1, <4>2, <4>3
    <3>2. /\ Len(evidence'["recovery"]) = n + 1 /\ Len(evidence'["command"]) = n + 1
      BY <1>3, <2>9, AlarmEmits
    <3>3. n + 1 # 0
      BY <2>1
    <3> QED
      BY <1>1, <2>1, <3>1, <3>2, <3>3 DEF Alarms
  <2>5. ASSUME NEW t \in Nat, new(1) <= t, t <= clock
        PROVE  \E i \in 1..n + 1 : new(i) = t
    <3>1. CASE t = clock
      <4>1. n + 1 \in 1..n + 1
        BY <2>1
      <4> HIDE DEF new
      <4> QED
        BY <2>1, <3>1, <4>1
    <3>2. CASE t # clock
      <4>1. n # 0 /\ latched
        BY <1>1, <2>1, <2>3, <2>5, <3>2
      <4>2. t < clock /\ T(1) <= t
        BY <1>1, <2>3, <2>5, <3>2, <4>1
      <4>3. PICK i \in 1..n : T(i) = t
        BY <2>9, <4>1, <4>2 DEF Stopping
      <4>4. i \in 1..n + 1
        BY <2>1
      <4> QED
        BY <2>1, <4>3, <4>4
    <3> QED
      BY <3>1, <3>2
  <2>6. ASSUME clock > new(1) PROVE ~moving
    <3>1. n # 0 /\ latched
      BY <1>1, <2>1, <2>3, <2>6
    <3> QED
      BY <2>3, <2>6, <3>1 DEF Stopping
  <2>7. ASSUME NEW i \in 1..Len(evidence["raw"]), evidence["raw"][i].data.stamp > new(1)
        PROVE  evidence["raw"][i].data.stopped
    <3>1. StampOf(i) <= clock /\ evidence["raw"][i].data.stamp = StampOf(i) /\ StampOf(i) \in Int
      <4>1. i - 1 \in Int /\ Period \in Int
        BY Parameters
      <4>2. StampOf(i) \in Int
        BY <4>1 DEF StampOf
      <4> QED
        BY <4>2, StampsPublished DEF TrialInv, RawPublished
    <3>2. n # 0 /\ latched
      BY <1>1, <2>1, <2>3, <2>7, <3>1
    <3> QED
      BY <2>3, <2>7, <3>2 DEF Stopping
  <2>8. Stopping'
    <3>1. \A t \in Nat : new(1) <= t /\ (t < clock \/ t = clock) => \E i \in 1..n + 1 : new(i) = t
      BY <1>1, <2>5
    <3>2. command' /\ checked'
      BY <1>1, <1>3
    <3> QED
      BY <1>1, <2>1, <2>6, <2>7, <3>1, <3>2 DEF Stopping
  <2> QED
    BY <2>1, <2>3, <2>4, <2>8
<1> QED
  BY <1>2, <1>3

LEMMA AlarmsKeep ==
    ASSUME TrialInv, Alarms, Stopping, [TrialNext]_trialVars
    PROVE  /\ Alarms' /\ Stopping'
           /\ latched => latched' /\ AlarmedAt(1)' = AlarmedAt(1)
           /\ ~latched /\ latched' => CheckStream /\ AlarmedAt(1)' = clock
<1>1. IInv /\ Published
  BY DEF TrialInv
<1>2. ASSUME UNCHANGED <<clock, fault, latched, latchedReason, checked, moving, command, lag>>,
             \A k \in {"violation", "recovery", "command", "raw"} : evidence'[k] = evidence[k]
      PROVE  /\ Alarms' /\ Stopping' /\ latched' = latched
             /\ AlarmedAt(1)' = AlarmedAt(1)
  BY <1>2, AlarmsStay
<1>3. CASE Inject
  <2>1. UNCHANGED <<latched, latchedReason, checked, command>>
    BY <1>3 DEF Inject, OnRaw, watchdog, timers
  <2> QED
    BY <1>1, <1>2, <1>3, <2>1, InjectEmits DEF trial, robot
<1>4. CASE PollInjector
  <2>1. UNCHANGED <<latched, latchedReason, checked, command>>
    BY <1>4 DEF PollInjector, OnPoll, watchdog
  <2>2. {"violation", "recovery", "command", "raw"} \subseteq Kinds \ {"faulted"}
    BY DEF Kinds
  <2> QED
    BY <1>1, <1>2, <1>4, <2>1, <2>2, PollEmits DEF trial, robot
<1>5. CASE Reconfigure
  <2>1. UNCHANGED <<latched, latchedReason, checked, command>>
    BY <1>5 DEF Reconfigure, ApplyFault, WithdrawFault, ApplyConfig, watchdog, timers
  <2> QED
    BY <1>1, <1>2, <1>5, <2>1, ReconfigureEmits DEF trial, robot
<1>6. CASE Unheard /\ (Arrive \/ Overflow \/ UNCHANGED vars)
  <2>1. UNCHANGED <<clock, latched, latchedReason, checked, moving, command>>
    BY <1>6 DEF Arrive, Overflow, OnFaulted, Overwrite, Watchdog!RecordArrival, vars, watchdog, timers, robot
  <2> QED
    BY <1>2, <1>6, <2>1 DEF Unheard
<1>7. CASE Unheard /\ Stop
  <2>1. UNCHANGED <<clock, latched, latchedReason, checked>> /\ moving' = FALSE
    BY <1>7 DEF Stop, OnCommand, watchdog, timers
  <2>2. Alarms' /\ AlarmedAt(1)' = AlarmedAt(1)
    BY <1>7, <2>1 DEF Unheard, Alarms, AlarmedAt
  <2>3. Stopping'
    BY <1>7, <2>1 DEF Unheard, Stopping, AlarmedAt
  <2> QED
    BY <2>1, <2>2, <2>3
<1>8. CASE Unheard /\ Pass
  <2>1. /\ UNCHANGED <<latched, latchedReason, moving, command>>
        /\ clock' = clock + 1 /\ clock \in Nat /\ checked /\ ~command
    BY <1>1, <1>8 DEF Pass, Elapse, watchdog, robot, IInv, Plumbing, Types
  <2>2. AlarmedAt(1)' = AlarmedAt(1)
    BY <1>8 DEF Unheard, AlarmedAt
  <2>3. Alarms'
    <3>1. \A i \in 1..Len(evidence["violation"]) : AlarmedAt(i) <= clock'
      BY <2>1 DEF Alarms
    <3> QED
      BY <1>8, <2>1, <3>1 DEF Unheard, Alarms, AlarmedAt
  <2>4. Stopping'
    <3> SUFFICES ASSUME latched PROVE Stopping'
      BY <2>1 DEF Stopping
    <3>1. \A t \in Nat : t < clock' => t < clock \/ (t = clock /\ checked)
      BY <2>1
    <3>2. ~(\E t \in Nat : t = clock' /\ checked')
      BY <1>8 DEF Pass, Elapse
    <3>3. /\ \A t \in Nat : AlarmedAt(1) <= t /\ (t < clock \/ (t = clock /\ checked)) =>
             \E i \in 1..Len(evidence["violation"]) : AlarmedAt(i) = t
          /\ ~moving
          /\ \A i \in 1..Len(evidence["raw"]) :
                evidence["raw"][i].data.stamp > AlarmedAt(1) => evidence["raw"][i].data.stopped
      BY <2>1 DEF Stopping
    <3>4. \A i : AlarmedAt(i)' = AlarmedAt(i)
      BY <1>8 DEF Unheard, AlarmedAt
    <3> QED
      BY <1>8, <2>1, <3>1, <3>2, <3>3, <3>4 DEF Unheard, Stopping
  <2> QED
    BY <2>1, <2>2, <2>3, <2>4
<1>9. CASE Sample
  <2>1. latched' = latched
    BY <1>9 DEF Sample, OnSample, watchdog
  <2> QED
    BY <1>9, <2>1, SampleKeepsAlarms
<1>10. CASE CheckStream
  <2>1. latched => latched'
    BY <1>10, SameWatchdog, CheckDecides DEF CheckStream, OnCheck, TrialInv, IInv, Plumbing
  <2> QED
    BY <1>10, <2>1, CheckKeepsAlarms
<1> QED
  BY <1>3, <1>4, <1>5, <1>6, <1>7, <1>8, <1>9, <1>10, TrialCases

LEMMA SoonKeeps ==
    ASSUME TrialInv, Named', Alarms, Stopping, Soon, [TrialNext]_trialVars
    PROVE  Soon'
<1>1. /\ clock \in Nat /\ appliedAt \in Times /\ withdrawnAt \in Times /\ MaxAge \in Nat
      /\ fault' = fault /\ IInv
  BY Parameters, StepsOfLoop, FaultAndClock DEF TrialInv, IInv, Plumbing, Types
<1>2. /\ latched => latched' /\ AlarmedAt(1)' = AlarmedAt(1)
      /\ ~latched /\ latched' => CheckStream /\ AlarmedAt(1)' = clock
  BY AlarmsKeep
<1> SUFFICES ASSUME Detectable, Watchdog!Tolerates(MaxAge - Period), appliedAt' # NoTime,
                    withdrawnAt' = NoTime \/ withdrawnAt' > DetectionTime', latched'
             PROVE  appliedAt' < AlarmedAt(1)' /\ AlarmedAt(1)' <= DetectionTime'
  BY <1>1, TrialStays DEF Soon, Watchdog!Tolerates
<1>3. CASE ~latched
  <2>1. CheckStream /\ AlarmedAt(1)' = clock
    BY <1>2, <1>3
  <2>2. UNCHANGED <<clock, appliedAt, withdrawnAt>> /\ DetectionTime' = DetectionTime
    BY <1>1, <2>1, CheckEmits DEF TrialInv, trial, DetectionTime
  <2>3. clock > appliedAt
    <3>1. Detectable' /\ (Watchdog!Tolerates(MaxAge - Period))'
      BY <1>1, TrialStays DEF Watchdog!Tolerates
    <3>2. clock' > appliedAt'
      BY <3>1 DEF Named
    <3> QED
      BY <2>2, <3>2
  <2>4. clock <= DetectionTime
    <3>1. ~(clock > DetectionTime)
      BY <1>1, <1>3, <2>2 DEF IInv, Detected
    <3>2. appliedAt \in Nat
      BY <1>1, <2>2 DEF Times
    <3> QED
      BY <1>1, <3>1, <3>2 DEF DetectionTime
  <2> QED
    BY <1>1, <2>1, <2>2, <2>3, <2>4
<1>4. CASE latched
  <2>1. AlarmedAt(1)' = AlarmedAt(1)
    BY <1>2, <1>4
  <2>2. appliedAt # NoTime
    BY <1>1, <1>4 DEF IInv, Calm, Quiet
  <2>3. appliedAt' = appliedAt /\ (withdrawnAt' = withdrawnAt \/ withdrawnAt = NoTime)
    <3>1. CASE Reconfigure
      BY <2>2, <3>1 DEF Reconfigure, ApplyFault, WithdrawFault
    <3> QED
      BY <1>1, <3>1, TrialCases, SampleEmits, InjectEmits, PollEmits, CheckEmits
         DEF TrialInv, Unheard, trial
  <2>4. DetectionTime' = DetectionTime
    BY <2>3 DEF DetectionTime
  <2> QED
    BY <1>4, <2>1, <2>2, <2>3, <2>4 DEF Soon
<1> QED
  BY <1>3, <1>4

-----------------------------------------------------------------------------
(* The lifecycle and what it has done to the nodes. *)

\* The lifecycle runs the scenario of the fault; it is over with its drain, and judged
\* unless it failed.  It did not begin before the robot was heard.
Schedule ==
    /\ scenario = TheScenario(fault)
    /\ activation \in Times /\ drainUntil \in Times
    /\ state \notin {"created", "starting"} => lag["raw"] <= clock
    /\ state \notin Lifecycle!Over => drainUntil = NoTime /\ ~failed
    /\ judged => ~failed /\ state = "finished" /\ clock = drainUntil

\* The times it knows are those of the nodes, but for the time that the acknowledgement
\* took, and the fault stays and is observed for as long as the scenario says.
Administered ==
    fault # NoFault =>
        /\ activationRequested = appliedAt /\ deactivationRequested = withdrawnAt
        /\ state \in {"created", "starting", "baselining"} =>
            appliedAt = NoTime /\ activation = NoTime /\ acks = <<>>
        /\ state = "activating" =>
            /\ appliedAt # NoTime /\ activation = NoTime /\ withdrawnAt = NoTime
            /\ acks = <<[revision |-> 1, sent |-> appliedAt]>> /\ clock <= appliedAt + 1
        /\ state = "observing" => activation # NoTime
        /\ activation # NoTime =>
            /\ appliedAt # NoTime /\ appliedAt <= activation /\ activation <= appliedAt + 1
            /\ activation <= clock /\ lag["raw"] <= activation
            /\ observationDeadline = activation + Observation
        /\ withdrawnAt # NoTime => activation # NoTime /\ withdrawnAt >= activation + Duration
        /\ state \in Lifecycle!Over /\ ~failed =>
            /\ activation # NoTime /\ withdrawnAt # NoTime
            /\ drainUntil >= activation + Observation + Drain

LEMMA TrialTimes ==
    /\ Readiness \in Nat /\ Baseline \in Nat /\ Observation \in Nat /\ FaultWithin \in Nat
    /\ Tolerance \in Nat /\ WatchdogWithin \in Nat /\ CommandWithin \in Nat
    /\ ObservedWithin \in Nat /\ RobotWithin \in Nat /\ Hold \in Nat /\ Drain \in Nat
    /\ Duration \in Nat /\ MaxTime \in Nat
BY DeadlinesAssumption, BoundsAssumption

LEMMA LoopTypes ==
    ASSUME TrialInv
    PROVE  /\ clock \in Nat /\ appliedAt \in Times /\ withdrawnAt \in Times
           /\ lag["raw"] \in Nat /\ received \in Nat
           /\ appliedAt # NoTime => appliedAt \in Nat /\ appliedAt <= clock
           /\ withdrawnAt # NoTime => withdrawnAt \in Nat /\ withdrawnAt <= clock
BY Lengths DEF TrialInv, IInv, Plumbing, Types, InForce, Times, Kinds

\* The robot is heard no sooner than its topic takes.
LEMMA HeardAfterLag ==
    ASSUME TrialInv, HeardOf("raw") # <<>>
    PROVE  lag["raw"] <= clock
<1> DEFINE sent == evidence["raw"]
           S == {i \in DOMAIN sent : sent[i].at <= clock}
<1>1. "raw" \in Kinds /\ sent \in Seq(Messages("raw")) /\ DOMAIN sent = 1..Len(sent)
      /\ clock \in Nat /\ lag["raw"] \in Nat
  BY LoopTypes DEF TrialInv, Published, Kinds
<1>2. HeardOf("raw") = SubSeq(sent, 1, Cardinality(S))
  BY DEF HeardOf
<1>3. S # {}
  <2> SUFFICES ASSUME S = {} PROVE FALSE
    OBVIOUS
  <2>1. Cardinality(S) = 0
    BY FS_EmptySet
  <2>2. SubSeq(sent, 1, 0) = <<>>
    BY <1>1
  <2> HIDE DEF S
  <2> QED
    BY <1>2, <2>1, <2>2
<1>4. PICK i \in 1..Len(sent) : sent[i].at <= clock
  BY <1>1, <1>3
<1>5. sent[i].at = StampOf(i) + lag["raw"] /\ StampOf(i) \in Nat
  <2>1. i \in Nat \ {0}
    BY <1>1
  <2> QED
    BY <1>4, <2>1, StampType DEF TrialInv, RawPublished
<1> QED
  BY <1>1, <1>4, <1>5

\* A step that is none of the lifecycle's.
LEMMA ScheduleStays ==
    ASSUME TrialInv, Schedule, Administered, ~judged,
           UNCHANGED <<fault, appliedAt, withdrawnAt, lag, lifecycle, acks, drainUntil, judged>>,
           \/ clock' = clock
           \/ clock' = clock + 1 /\ \A i \in DOMAIN acks : acks[i].sent = clock
    PROVE  Schedule' /\ Administered'
<1>1. UNCHANGED <<scenario, state, activationRequested, activation, deactivationRequested,
                  observationDeadline, failed>>
  BY DEF lifecycle
<1>2. Schedule'
  BY <1>1, LoopTypes DEF Schedule, TheScenario, NoFault, Lifecycle!Over
<1>3. Administered'
  <2> SUFFICES ASSUME fault # NoFault PROVE Administered'
    BY DEF Administered, NoFault
  <2>1. /\ activationRequested' = appliedAt' /\ deactivationRequested' = withdrawnAt'
        /\ state' \in {"created", "starting", "baselining"} =>
            appliedAt' = NoTime /\ activation' = NoTime /\ acks' = <<>>
        /\ state' = "observing" => activation' # NoTime
        /\ withdrawnAt' # NoTime => activation' # NoTime /\ withdrawnAt' >= activation' + Duration
        /\ state' \in Lifecycle!Over /\ ~failed' =>
            /\ activation' # NoTime /\ withdrawnAt' # NoTime
            /\ drainUntil' >= activation' + Observation + Drain
    BY <1>1 DEF Administered
  <2>2. activation' # NoTime =>
            /\ appliedAt' # NoTime /\ appliedAt' <= activation' /\ activation' <= appliedAt' + 1
            /\ activation' <= clock' /\ lag'["raw"] <= activation'
            /\ observationDeadline' = activation' + Observation
    BY <1>1, LoopTypes DEF Administered, Schedule, Times
  <2>3. ASSUME state' = "activating"
        PROVE  /\ appliedAt' # NoTime /\ activation' = NoTime /\ withdrawnAt' = NoTime
               /\ acks' = <<[revision |-> 1, sent |-> appliedAt']>> /\ clock' <= appliedAt' + 1
    <3>1. /\ appliedAt # NoTime /\ activation = NoTime /\ withdrawnAt = NoTime
          /\ acks = <<[revision |-> 1, sent |-> appliedAt]>> /\ clock <= appliedAt + 1
      BY <1>1, <2>3 DEF Administered
    <3>2. 1 \in DOMAIN acks /\ acks[1].sent = appliedAt
      BY <3>1
    <3>3. clock' <= appliedAt + 1
      BY <3>1, <3>2, LoopTypes
    <3> QED
      BY <1>1, <3>1, <3>3
  <2> HIDE DEF Lifecycle!Over
  <2>4. NoFault' = NoFault /\ Lifecycle!Over' = Lifecycle!Over
    BY DEF NoFault, Lifecycle!Over
  <2> QED
    BY <2>1, <2>2, <2>3, <2>4 DEF Administered
<1> QED
  BY <1>2, <1>3

LEMMA BeginKeeps ==
    ASSUME TrialInv, Schedule, Administered, ~judged, Begin \/ BecomeReady \/ Conclude
    PROVE  Schedule' /\ Administered'
<1>1. UNCHANGED <<clock, fault, appliedAt, withdrawnAt, lag, acks, scenario, activationRequested,
                  activation, deactivationRequested, observationDeadline, failed, drainUntil>>
  BY DEF Begin, BecomeReady, Conclude, vars, trial, observer, runner, Lifecycle!Start,
     Lifecycle!MarkReady, Lifecycle!Finish, Lifecycle!Return, Lifecycle!times
<1>2. \/ /\ state = "created" /\ state' = "starting" /\ judged' = judged
      \/ /\ state = "starting" /\ state' = "baselining" /\ judged' = judged
         /\ HeardOf("raw") # <<>>
      \/ /\ state = "finalizing" /\ state' = "finished" /\ judged' = ~failed
         /\ clock = drainUntil
  BY DEF Begin, BecomeReady, Conclude, runner, IsReady, Lifecycle!Start,
     Lifecycle!MarkReady, Lifecycle!Finish
<1>3. Schedule'
  <2>1. scenario' = TheScenario(fault)' /\ activation' \in Times /\ drainUntil' \in Times
    BY <1>1 DEF Schedule, TheScenario, NoFault, Times, NoTime
  <2>2. state' \notin {"created", "starting"} => lag'["raw"] <= clock'
    BY <1>1, <1>2, HeardAfterLag DEF Schedule
  <2>3. state' \notin Lifecycle!Over => drainUntil' = NoTime /\ ~failed'
    BY <1>1, <1>2 DEF Schedule, Lifecycle!Over, NoTime
  <2>4. judged' => ~failed' /\ state' = "finished" /\ clock' = drainUntil'
    BY <1>1, <1>2 DEF Schedule
  <2> QED
    BY <2>1, <2>2, <2>3, <2>4 DEF Schedule, Lifecycle!Over, NoTime, Times
<1>4. Administered'
  BY <1>1, <1>2 DEF Administered, NoFault, Lifecycle!Over
<1> QED
  BY <1>3, <1>4

LEMMA HearAckKeeps ==
    ASSUME TrialInv, Schedule, Administered, ~judged, HearAck
    PROVE  Schedule' /\ Administered'
<1>1. /\ UNCHANGED <<clock, fault, appliedAt, withdrawnAt, lag, drainUntil, judged, scenario,
                     activationRequested, deactivationRequested, failed>>
      /\ acks # <<>> /\ acks' = Tail(acks)
  BY DEF HearAck, vars, trial, runner, Lifecycle!OnConfigApplied, Lifecycle!Return,
     Lifecycle!Observe, Lifecycle!times
<1>2. \/ /\ state = "activating" /\ Head(acks).revision = 1
         /\ state' = "observing" /\ activation' = clock
         /\ observationDeadline' = clock + scenario.observation
      \/ /\ ~(state = "activating" /\ Head(acks).revision = 1)
         /\ UNCHANGED <<state, activation, observationDeadline>>
  BY DEF HearAck, Lifecycle!OnConfigApplied, Lifecycle!Awaits, Lifecycle!Observe,
     Lifecycle!ObservationEnd, Lifecycle!ActivationRevision, Lifecycle!times
<1>3. scenario.observation = Observation
  BY DEF Schedule, TheScenario
<1>4. Schedule'
  BY <1>1, <1>2, LoopTypes DEF Schedule, TheScenario, NoFault, Lifecycle!Over, Times
<1>5. Administered'
  <2> SUFFICES ASSUME fault # NoFault PROVE Administered'
    BY <1>1 DEF Administered, NoFault
  <2>1. CASE state = "activating"
    <3>1. /\ appliedAt # NoTime /\ activation = NoTime /\ withdrawnAt = NoTime
          /\ acks = <<[revision |-> 1, sent |-> appliedAt]>> /\ clock <= appliedAt + 1
      BY <2>1 DEF Administered
    <3>2. Head(acks).revision = 1
      BY <3>1
    <3>3. /\ state' = "observing" /\ activation' = clock
          /\ observationDeadline' = clock + Observation
      BY <1>2, <1>3, <2>1, <3>2
    <3>4. lag["raw"] <= clock
      BY <2>1 DEF Schedule
    <3>5. activation' # NoTime /\ appliedAt <= clock
      BY <3>1, <3>3, LoopTypes DEF NoTime
    <3> QED
      BY <1>1, <3>1, <3>3, <3>4, <3>5, LoopTypes DEF Administered, NoFault, Lifecycle!Over
  <2>2. CASE state # "activating"
    <3>1. UNCHANGED <<state, activation, observationDeadline>>
      BY <1>2, <2>2
    <3>2. state \notin {"created", "starting", "baselining"}
      BY <1>1 DEF Administered
    <3> QED
      BY <1>1, <2>2, <3>1, <3>2 DEF Administered, NoFault, Lifecycle!Over
  <2> QED
    BY <2>1, <2>2
<1> QED
  BY <1>4, <1>5

LEMMA TickKeeps ==
    ASSUME TrialInv, Schedule, Administered, ~judged, TickLifecycle
    PROVE  Schedule' /\ Administered'
<1>1. /\ Lifecycle!Tick(clock) /\ state \notin {"created", "starting"}
      /\ state \notin Lifecycle!Over /\ ~failed /\ drainUntil = NoTime
      /\ UNCHANGED <<lag, judged>>
      /\ drainUntil' = IF action' = "finish_trial" THEN clock + Drain ELSE drainUntil
  BY DEF TickLifecycle, Schedule, Lifecycle!Over
<1>2. /\ action' = "activate_fault" => ApplyFault /\ Acknowledge(1)
      /\ action' = "deactivate_fault" => WithdrawFault
      /\ action' \notin {"activate_fault", "deactivate_fault"} => UNCHANGED <<vars, acks>>
  <2>1. CASE action' = "activate_fault"
    BY <2>1 DEF TickLifecycle
  <2>2. CASE action' = "deactivate_fault"
    BY <2>2 DEF TickLifecycle
  <2>3. CASE action' # "activate_fault" /\ action' # "deactivate_fault"
    BY <2>3 DEF TickLifecycle
  <2> QED
    BY <2>1, <2>2, <2>3
<1>3. UNCHANGED <<clock, fault, scenario>>
  <2>1. fault' = fault
    BY <1>2, Zenon DEF ApplyFault, WithdrawFault, ApplyConfig, vars, trial
  <2> QED
    BY <1>1, <2>1 DEF Lifecycle!Tick, Lifecycle!TickTimeout, Lifecycle!TickObserve,
       Lifecycle!TickActivate, Lifecycle!TickDeactivate, Lifecycle!TickFinish,
       Lifecycle!TickIdle, Lifecycle!Return, Lifecycle!Fail
<1>4. /\ scenario.duration = IF fault = NoFault THEN 0 ELSE Duration
      /\ scenario.healthy = (fault = NoFault) /\ scenario.observation = Observation
      /\ lag["raw"] <= clock
  BY <1>1 DEF Schedule, TheScenario
<1>5. ASSUME UNCHANGED <<appliedAt, withdrawnAt, acks, activation, activationRequested,
                         deactivationRequested, observationDeadline>>,
             state' = "finalizing", action' = "finish_trial",
             failed' \/ (failed' = failed /\ (fault # NoFault =>
                 /\ activation # NoTime /\ withdrawnAt # NoTime
                 /\ clock >= activation + Observation))
      PROVE  Schedule' /\ Administered'
  <2>1. drainUntil' = clock + Drain
    BY <1>1, <1>5
  <2>2. Schedule'
    BY <1>1, <1>3, <1>4, <1>5, <2>1, LoopTypes, TrialTimes
       DEF Schedule, TheScenario, NoFault, Lifecycle!Over, Times, NoTime
  <2>3. Administered'
    <3> SUFFICES ASSUME fault # NoFault PROVE Administered'
      BY <1>3 DEF Administered, NoFault
    <3>1. ~failed' => /\ activation' # NoTime /\ withdrawnAt' # NoTime
                      /\ drainUntil' >= activation' + Observation + Drain
      <4>1. activation \in Times
        BY DEF Schedule
      <4> QED
        BY <1>5, <2>1, <4>1, LoopTypes, TrialTimes DEF Times, NoTime
    <3> QED
      BY <1>1, <1>3, <1>5, <3>1 DEF Administered, NoFault, Lifecycle!Over, NoTime
  <2> QED
    BY <2>2, <2>3
<1>6. CASE Lifecycle!TickTimeout(clock)
  <2>1. /\ failed' /\ state' = "finalizing" /\ action' = "finish_trial"
        /\ UNCHANGED <<activation, activationRequested, deactivationRequested, observationDeadline>>
    BY <1>6 DEF Lifecycle!TickTimeout, Lifecycle!Fail, Lifecycle!Return, Lifecycle!times
  <2>2. UNCHANGED <<appliedAt, withdrawnAt, acks>>
    BY <1>2, <2>1 DEF vars, trial
  <2> QED
    BY <1>5, <2>1, <2>2
<1>7. CASE Lifecycle!TickObserve(clock)
  <2>1. /\ fault = NoFault /\ state' = "observing" /\ action' = "none"
        /\ activation' = clock /\ failed' = failed
    BY <1>3, <1>4, <1>7 DEF Lifecycle!TickObserve, Lifecycle!Observe, Lifecycle!Return
  <2>2. Schedule'
    BY <1>1, <1>3, <1>4, <2>1, LoopTypes
       DEF Schedule, TheScenario, NoFault, Lifecycle!Over, Times, NoTime
  <2> QED
    BY <1>3, <2>1, <2>2 DEF Administered, NoFault
<1>8. CASE Lifecycle!TickActivate(clock)
  <2>1. /\ state = "baselining" /\ fault # NoFault
        /\ state' = "activating" /\ action' = "activate_fault"
        /\ activationRequested' = clock
        /\ UNCHANGED <<activation, deactivationRequested, observationDeadline, failed>>
    BY <1>3, <1>4, <1>8 DEF Lifecycle!TickActivate, Lifecycle!BaselineDue, Lifecycle!Return
  <2>2. appliedAt' = clock /\ withdrawnAt' = withdrawnAt
        /\ acks' = Append(acks, [revision |-> 1, sent |-> clock])
    BY <1>2, <2>1 DEF ApplyFault, Acknowledge
  <2>3. acks = <<>> /\ activation = NoTime /\ appliedAt = NoTime /\ withdrawnAt = NoTime
        /\ deactivationRequested = withdrawnAt
    BY <2>1 DEF Administered, TrialInv, IInv, Plumbing, InForce
  <2>4. acks' = <<[revision |-> 1, sent |-> clock]>>
    BY <2>2, <2>3
  <2>5. Schedule'
    BY <1>1, <1>3, <1>4, <2>1
       DEF Schedule, TheScenario, NoFault, Lifecycle!Over, NoTime, Times
  <2>6. Administered'
    BY <1>3, <2>1, <2>2, <2>3, <2>4, LoopTypes DEF Administered, NoFault, Lifecycle!Over, NoTime
  <2> QED
    BY <2>5, <2>6
<1>9. CASE Lifecycle!TickDeactivate(clock)
  <2>1. /\ state = "observing" /\ fault # NoFault /\ state' = state
        /\ clock - activation >= Duration
        /\ action' = "deactivate_fault" /\ deactivationRequested' = clock
        /\ UNCHANGED <<activation, activationRequested, observationDeadline, failed>>
    BY <1>3, <1>4, <1>9 DEF Lifecycle!TickDeactivate, Lifecycle!DeactivationDue, Lifecycle!Return
  <2>2. withdrawnAt' = clock /\ appliedAt' = appliedAt
    BY <1>2, <2>1 DEF WithdrawFault
  <2>3. activation # NoTime /\ activation \in Nat
    BY <2>1 DEF Administered, Schedule, Times
  <2>4. Schedule'
    BY <1>1, <1>3, <1>4, <2>1
       DEF Schedule, TheScenario, NoFault, Lifecycle!Over, NoTime, Times
  <2>5. Administered'
    <3>1. withdrawnAt' >= activation' + Duration
      BY <2>1, <2>2, <2>3, LoopTypes, TrialTimes
    <3> QED
      BY <1>1, <1>3, <2>1, <2>2, <2>3, <3>1, LoopTypes DEF Administered, NoFault, Lifecycle!Over, NoTime
  <2> QED
    BY <2>4, <2>5
<1>10. CASE Lifecycle!TickFinish(clock)
  <2>1. /\ state = "observing" /\ state' = "finalizing" /\ action' = "finish_trial"
        /\ UNCHANGED <<activation, activationRequested, deactivationRequested,
                       observationDeadline, failed>>
        /\ clock >= observationDeadline
    BY <1>10 DEF Lifecycle!TickFinish, Lifecycle!FinishDue, Lifecycle!Return, Lifecycle!times
  <2>2. UNCHANGED <<appliedAt, withdrawnAt, acks>>
    BY <1>2, <2>1 DEF vars, trial
  <2>3. ASSUME fault # NoFault
        PROVE  /\ activation # NoTime /\ withdrawnAt # NoTime
               /\ clock >= activation + Observation
    <3>1. /\ activation # NoTime /\ activation \in Nat
          /\ observationDeadline = activation + Observation
      BY <2>1, <2>3 DEF Administered, Schedule, Times
    <3>2. clock >= activation + Duration
      BY <2>1, <3>1, DurationAssumption, TrialTimes, LoopTypes
    <3>3. deactivationRequested # NoTime
      <4>1. ~Lifecycle!DeactivationDue(clock)
        BY <1>10 DEF Lifecycle!TickFinish, Lifecycle!FinishDue
      <4>2. ~scenario.healthy
        BY <1>4, <2>3, Zenon
      <4>3. clock - activation >= scenario.duration
        <5>1. scenario.duration = Duration
          BY <1>4, <2>3
        <5> QED
          BY <3>1, <3>2, <5>1, TrialTimes, LoopTypes
      <4> QED
        BY <2>1, <4>1, <4>2, <4>3 DEF Lifecycle!DeactivationDue, Lifecycle!NoTime, NoTime
    <3> QED
      BY <2>1, <2>3, <3>1, <3>3 DEF Administered
  <2> QED
    BY <1>5, <2>1, <2>2, <2>3
<1>11. CASE Lifecycle!TickIdle(clock)
  <2>1. /\ action' = "none"
        /\ UNCHANGED <<state, activation, activationRequested, deactivationRequested,
                       observationDeadline, failed>>
    BY <1>11 DEF Lifecycle!TickIdle, Lifecycle!Return, Lifecycle!times
  <2>2. UNCHANGED <<appliedAt, withdrawnAt, acks>> /\ drainUntil' = drainUntil
    BY <1>1, <1>2, <2>1 DEF vars, trial
  <2> QED
    BY <1>1, <1>3, <2>1, <2>2
       DEF Schedule, Administered, TheScenario, NoFault, Lifecycle!Over, NoTime, Times
<1> QED
  BY <1>1, <1>6, <1>7, <1>8, <1>9, <1>10, <1>11 DEF Lifecycle!Tick

LEMMA ScheduleKeeps ==
    ASSUME TrialInv, Schedule, Administered, [TrialNext]_trialVars
    PROVE  Schedule' /\ Administered'
<1>1. CASE UNCHANGED trialVars
  BY <1>1 DEF trialVars, vars, trial, lifecycle, observer, runner, Schedule, Administered,
     TheScenario, NoFault, Lifecycle!Over, NoTime, Times
<1>2. CASE TrialNext
  <2>1. CASE Begin \/ BecomeReady \/ Conclude
    BY <1>2, <2>1, BeginKeeps DEF TrialNext
  <2>2. CASE HearAck
    BY <1>2, <2>2, HearAckKeeps DEF TrialNext
  <2>3. CASE TickLifecycle
    BY <1>2, <2>3, TickKeeps DEF TrialNext
  <2>4. CASE Sample \/ Inject \/ PollInjector \/ Arrive \/ Overflow \/ CheckStream \/ Stop
    <3>1. UNCHANGED <<clock, fault, appliedAt, withdrawnAt, lag, lifecycle, acks, drainUntil, judged>>
      BY <2>4 DEF Sample, Inject, PollInjector, Arrive, Overflow, CheckStream, Stop, OnSample,
         OnRaw, OnPoll, OnFaulted, Overwrite, OnCheck, OnCommand, Watchdog!RecordArrival, Watchdog!Check,
         trial, observer, runner
    <3> QED
      BY <1>2, <3>1, ScheduleStays DEF TrialNext
  <2>5. CASE Pass
    <3>1. /\ UNCHANGED <<fault, appliedAt, withdrawnAt, lag, lifecycle, acks, drainUntil, judged>>
          /\ clock' = clock + 1 /\ \A i \in DOMAIN acks : acks[i].sent = clock
      BY <2>5 DEF Pass, Elapse, trial, observer
    <3> QED
      BY <1>2, <3>1, ScheduleStays DEF TrialNext
  <2> QED
    BY <1>2, <2>1, <2>2, <2>3, <2>4, <2>5 DEF TrialNext
<1> QED
  BY <1>1, <1>2

-----------------------------------------------------------------------------
(* What a fault that hides the robot makes of the stream. *)

\* The fault was not yet withdrawn at this time.
Still(t) == withdrawnAt = NoTime \/ t < withdrawnAt

\* This is the last sample the fault let through.
LastPlain(n) ==
    /\ n \in 1..received
    /\ StampOf(n) <= appliedAt /\ appliedAt <= StampOf(n) + Period
    /\ n <= Len(evidence["faulted"])
    /\ \A i \in 1..n : /\ evidence["faulted"][i].at = StampOf(i) + lag["faulted"]
                       /\ evidence["faulted"][i].data = StampOf(i)

\* None goes through after it, and each that does not is counted.
DropsAfter(n) ==
    /\ \A i \in 1..Len(evidence["faulted"]) :
        i > n => withdrawnAt # NoTime /\ evidence["faulted"][i].at >= withdrawnAt + lag["faulted"]
    /\ \A j \in 1..received :
        j > n /\ Still(StampOf(j)) =>
            \E i \in 1..Len(evidence["counters"]) :
                /\ evidence["counters"][i].at = StampOf(j) + lag["counters"]
                /\ evidence["counters"][i].data > 0

\* It is sent again in place of those after it.
HoldsAfter(n) ==
    /\ Len(evidence["faulted"]) = received
    /\ withdrawnAt = NoTime => held = n
    /\ \A i \in 1..received :
        i > n =>
            /\ evidence["faulted"][i].at = StampOf(i) + lag["faulted"]
            /\ Still(StampOf(i)) => evidence["faulted"][i].data = StampOf(n)

\* The next one waits, or was sent as late as the fault says.
DelaysAfter(n) ==
    n + 1 <= received /\ Still(StampOf(n + 1) + fault.delay + fault.jitter) =>
        \/ \E e \in entries : e.message = n + 1
        \/ \E i \in 1..Len(evidence["faulted"]) :
            /\ evidence["faulted"][i].data = StampOf(n + 1)
            /\ StampOf(n + 1) + fault.delay - fault.jitter + lag["faulted"]
                    <= evidence["faulted"][i].at
            /\ evidence["faulted"][i].at
                    <= StampOf(n + 1) + fault.delay + fault.jitter + lag["faulted"]

Affected(n) ==
    /\ LastPlain(n)
    /\ fault.faultType = "dropout" => DropsAfter(n)
    /\ fault.faultType = "stale" => HoldsAfter(n)
    /\ fault.faultType = "latency" => DelaysAfter(n)

Shown == appliedAt # NoTime /\ Detectable => \E n \in 1..received : Affected(n)

\* No message waits for longer than it should.
Waiting == Detectable => \A e \in entries : clock <= e.deadline

\* The count of dropped messages grows.
Counted ==
    \A i \in 1..Len(evidence["counters"]) :
        /\ evidence["counters"][i].data \in Nat
        /\ evidence["counters"][i].data <= dropped
        /\ \A j \in i..Len(evidence["counters"]) :
            evidence["counters"][i].data <= evidence["counters"][j].data

LEMMA DroppedGrows ==
    ASSUME Published, [TrialNext]_trialVars
    PROVE  dropped' \in Nat /\ dropped <= dropped'
<1>1. dropped \in Nat
  BY DEF Published
<1>2. CASE OnRaw
  <2>1. dropped' = dropped \/ dropped' = dropped + 1
    <3>1. Injector!Forward => dropped' = dropped
      BY DEF Injector!Forward
    <3> QED
      BY <1>2, <3>1 DEF OnRaw, Injector!Receive, Injector!ReceivePlain,
         Injector!ReceiveDropoutKept, Injector!ReceiveDropped, Injector!ReceiveDelayed
  <2> QED
    BY <1>1, <2>1
<1>3. CASE OnPoll
  BY <1>1, <1>3 DEF OnPoll, Injector!Poll
<1>4. CASE ApplyFault \/ WithdrawFault
  <2>1. \E c : Injector!Configure(c, clock)
    BY <1>4 DEF ApplyFault, WithdrawFault, ApplyConfig
  <2> QED
    BY <1>1, <2>1 DEF Injector!Configure
<1>5. CASE dropped' = dropped
  BY <1>1, <1>5
<1> QED
  BY <1>2, <1>3, <1>4, <1>5, TrialCases DEF Sample, OnSample, Inject, PollInjector, CheckStream,
     OnCheck, Reconfigure, Unheard, injector

\* The counters are published as they are then.
LEMMA CountedStays ==
    ASSUME TrialInv, Counted, Published', dropped' \in Nat, dropped <= dropped',
           Emits("counters", <<dropped'>>)
    PROVE  Counted'
<1> DEFINE n == Len(evidence["counters"])
           old(i) == evidence["counters"][i].data
           new(i) == evidence'["counters"][i].data
<1>1. n \in Nat /\ dropped \in Nat
  BY Lengths DEF TrialInv, Published, Kinds
<1>2. Len(<<dropped'>>) = 1 /\ <<dropped'>>[1] = dropped'
  OBVIOUS
<1>3. \A i \in 1..n : old(i) \in Nat /\ old(i) <= dropped /\ \A j \in i..n : old(i) <= old(j)
  BY DEF Counted
<1> HIDE DEF n
<1>4. /\ Len(evidence'["counters"]) = n + 1
      /\ \A i \in 1..n : evidence'["counters"][i] = evidence["counters"][i]
      /\ evidence'["counters"][n + 1] = Heard("counters", dropped')
  BY <1>1, <1>2, EmitsOne DEF n
<1>5. /\ \A i \in 1..n : new(i) = old(i)
      /\ new(n + 1) = dropped'
  BY <1>4 DEF Heard
<1> HIDE DEF old, new
<1>6. \A i \in 1..n + 1 : i \in 1..n \/ i = n + 1
  BY <1>1
<1>7. \A i \in 1..n + 1 : new(i) \in Nat /\ new(i) <= dropped'
  BY <1>1, <1>3, <1>5, <1>6
<1>8. ASSUME NEW i \in 1..n + 1, NEW j \in i..n + 1
      PROVE  new(i) <= new(j)
  <2>1. j \in 1..n + 1
    BY <1>1
  <2>2. CASE j = n + 1
    BY <1>5, <1>7, <2>2
  <2>3. CASE j \in 1..n
    <3>1. i \in 1..n /\ j \in i..n
      BY <1>1, <2>3
    <3> QED
      BY <1>3, <1>5, <2>3, <3>1
  <2> QED
    BY <1>6, <2>1, <2>2, <2>3
<1> QED
  BY <1>4, <1>7, <1>8 DEF Counted, new

LEMMA CountedKeeps ==
    ASSUME TrialInv, Counted, [TrialNext]_trialVars
    PROVE  Counted'
<1>1. IInv /\ Published /\ Published' /\ dropped' \in Nat /\ dropped <= dropped'
  BY DroppedGrows, TrialGrows DEF TrialInv
<1>2. ASSUME evidence'["counters"] = evidence["counters"] PROVE Counted'
  <2>1. \A i \in 1..Len(evidence["counters"]) :
          evidence["counters"][i].data \in Nat /\ evidence["counters"][i].data <= dropped'
    BY <1>1 DEF Counted, Published
  <2> QED
    BY <1>2, <2>1 DEF Counted
<1>3. "counters" \in Kinds \ {"raw"} /\ "counters" \in Kinds \ {"faulted"}
  BY DEF Kinds
<1> QED
  BY <1>1, <1>2, <1>3, TrialCases, CountedStays, SampleEmits, InjectEmits, PollEmits,
     CheckEmits, ReconfigureEmits DEF Unheard

\* The messages sent are published now, these and no others.
LEMMA SendsPublish ==
    ASSUME Published, NEW X, NEW m \in Nat, Sends(X, m), Emits("faulted", Outputs)
    PROVE  /\ Len(evidence'["faulted"]) = Len(evidence["faulted"]) + m
           /\ \A i \in 1..Len(evidence["faulted"]) :
                evidence'["faulted"][i] = evidence["faulted"][i]
           /\ \A i \in 1..Len(evidence'["faulted"]) :
                i > Len(evidence["faulted"]) =>
                    /\ evidence'["faulted"][i].at = clock + lag["faulted"]
                    /\ evidence'["faulted"][i].data \in X
           /\ \A x \in X : \E i \in 1..Len(evidence'["faulted"]) :
                /\ evidence'["faulted"][i].at = clock + lag["faulted"]
                /\ evidence'["faulted"][i].data = x
<1> DEFINE n == Len(evidence["faulted"])
<1>1. Outputs = Sent
  BY DEF Outputs, Sent
<1>2. n \in Nat /\ Len(Outputs) = m /\ {Outputs[i] : i \in 1..m} = X
  BY <1>1, Lengths DEF Sends, Kinds
<1>3. /\ Len(evidence'["faulted"]) = n + m
      /\ \A i \in 1..n + m : evidence'["faulted"][i] =
            IF i <= n THEN evidence["faulted"][i] ELSE Heard("faulted", Outputs[i - n])
  BY <1>2 DEF Emits
<1> HIDE DEF n
<1>4. ASSUME NEW i \in 1..n PROVE evidence'["faulted"][i] = evidence["faulted"][i]
  <2>1. i \in 1..n + m /\ i <= n
    BY <1>2, <1>4
  <2> QED
    BY <1>3, <2>1
<1>5. ASSUME NEW i \in 1..n + m, i > n
      PROVE  /\ evidence'["faulted"][i].at = clock + lag["faulted"]
             /\ evidence'["faulted"][i].data \in X
  <2>1. i - n \in 1..m /\ ~(i <= n)
    BY <1>2, <1>5
  <2>2. evidence'["faulted"][i] = Heard("faulted", Outputs[i - n])
    BY <1>3, <2>1
  <2> QED
    BY <1>2, <2>1, <2>2 DEF Heard
<1>6. ASSUME NEW x \in X
      PROVE  \E i \in 1..n + m : /\ evidence'["faulted"][i].at = clock + lag["faulted"]
                                 /\ evidence'["faulted"][i].data = x
  <2>1. PICK l \in 1..m : Outputs[l] = x
    BY <1>2
  <2>2. PICK k \in 1..n + m : ~(k <= n) /\ k - n = l
    <3> DEFINE k == l + n
    <3>1. k \in 1..n + m /\ ~(k <= n) /\ k - n = l
      BY <1>2
    <3> HIDE DEF k
    <3> QED
      BY <3>1
  <2>3. evidence'["faulted"][k] = Heard("faulted", x)
    BY <1>3, <2>1, <2>2
  <2> QED
    BY <2>2, <2>3 DEF Heard
<1> QED
  BY <1>3, <1>4, <1>5, <1>6 DEF n

LEMMA LastPlainStays ==
    ASSUME TrialInv, NEW n, LastPlain(n), appliedAt' = appliedAt, lag' = lag, Published',
           received' = received \/ received' = received + 1, Grows
    PROVE  LastPlain(n)'
<1>1. received \in Nat /\ Len(evidence["faulted"]) \in Nat /\ Len(evidence'["faulted"]) \in Nat
      /\ Len(evidence["faulted"]) <= Len(evidence'["faulted"])
  <2>1. "faulted" \in Kinds
    BY DEF Kinds
  <2>2. \A k \in Kinds : Len(evidence[k]) \in Nat
    BY Lengths DEF TrialInv
  <2>3. \A k \in Kinds : Len(evidence'[k]) \in Nat
    BY DEF Published
  <2>4. Len(evidence["faulted"]) <= Len(evidence'["faulted"])
    BY <2>1, <2>2, <2>3 DEF Grows
  <2> QED
    BY <2>1, <2>2, <2>3, <2>4, LoopTypes
<1>2. n \in 1..received' /\ n <= Len(evidence'["faulted"])
  BY <1>1 DEF LastPlain
<1>3. \A i \in 1..n : i \in 1..Len(evidence["faulted"])
  BY <1>1 DEF LastPlain
<1>4. \A i \in 1..n : evidence'["faulted"][i] = evidence["faulted"][i]
  BY <1>3 DEF Grows, Kinds
<1> QED
  BY <1>2, <1>4 DEF LastPlain, StampOf

LEMMA AppliedOnce ==
    ASSUME TrialInv, [TrialNext]_trialVars, ~Reconfigure
    PROVE  UNCHANGED <<fault, appliedAt, withdrawnAt>>
BY TrialCases, SampleEmits, InjectEmits, PollEmits, CheckEmits DEF TrialInv, Unheard, trial

\* Where a sample goes through, and what else the injector does to it.
LEMMA InjectUnderFault ==
    ASSUME TrialInv, Inject, appliedAt # NoTime, Detectable
    PROVE  /\ StampOf(received + 1) = clock /\ received' = received + 1 /\ held' = held
           /\ withdrawnAt # NoTime =>
                entries' = {} /\ Sends({clock}, 1) /\ withdrawnAt <= clock
           /\ withdrawnAt = NoTime /\ fault.faultType = "dropout" =>
                dropped' > 0 /\ Sends({}, 0)
           /\ withdrawnAt = NoTime /\ fault.faultType = "stale" => Sends({StampOf(held)}, 1)
           /\ withdrawnAt = NoTime /\ fault.faultType = "latency" =>
                \E e \in Injector!Entries :
                       /\ e.message = received + 1
                       /\ clock + fault.delay - fault.jitter <= e.deadline
                       /\ e.deadline <= clock + fault.delay + fault.jitter
                       /\ Releases(entries \union {e})
                       /\ \A f \in entries' : clock < f.deadline
                       /\ \A f \in (entries \union {e}) \ entries' : f.deadline <= clock
<1>1. /\ OnRaw /\ Plumbing /\ Published
      /\ config = IF withdrawnAt = NoTime THEN fault ELSE NoFault
      /\ holdEnabled = Injector!StaleIsActive(config)
      /\ fault.enabled /\ fault.faultType \in {"dropout", "latency", "stale"}
  BY FaultEnabled DEF Inject, TrialInv, IInv, Plumbing, InForce, Holds
<1>2. /\ clock = received * Period /\ received' = received + 1 /\ held' = held
      /\ Forwards \/ Drops \/ Delays
  BY <1>1, OnRawEffect
<1>3. StampOf(received + 1) = clock
  BY <1>2, LoopTypes, Parameters DEF StampOf
<1>4. ASSUME withdrawnAt # NoTime
      PROVE  entries' = {} /\ Sends({clock}, 1) /\ withdrawnAt <= clock
  <2>1. config = NoFault /\ entries = {}
    BY <1>1, <1>4 DEF Plumbing, Lined, NoFault, Injector!LatencyIsActive
  <2>2. ~Injector!LatencyIsActive(config) /\ ~Injector!DropoutIsActive(config) /\ ~holdEnabled
    <3>1. config.enabled = FALSE
      BY <2>1 DEF NoFault
    <3> QED
      BY <1>1, <3>1, Zenon DEF Injector!LatencyIsActive, Injector!DropoutIsActive,
         Injector!StaleIsActive
  <2> QED
    BY <1>2, <1>4, <2>1, <2>2, LoopTypes DEF Forwards, Drops, Delays
<1>5. ASSUME withdrawnAt = NoTime, fault.faultType = "dropout"
      PROVE  dropped' > 0 /\ Sends({}, 0)
  <2>1. config = fault /\ config.dropPercent = 100
    BY <1>1, <1>5 DEF Detectable
  <2>2. ~Injector!LatencyIsActive(config) /\ Injector!DropoutIsActive(config)
    BY <1>1, <1>5, <2>1 DEF Injector!LatencyIsActive, Injector!DropoutIsActive
  <2>3. Sends({}, 0)
    BY <1>2, <2>1, <2>2 DEF Forwards, Drops, Delays
  <2>4. Injector!ReceiveDropped(clock)
    <3>1. FALSE \notin Injector!ShouldDrop(config)
      BY <2>1 DEF Injector!ShouldDrop
    <3> QED
      BY <1>1, <2>2, <3>1 DEF OnRaw, Injector!Receive, Injector!ReceivePlain,
         Injector!ReceiveDropoutKept, Injector!ReceiveDelayed
  <2>5. dropped' = dropped + 1 /\ dropped \in Nat
    BY <1>1, <2>4 DEF Injector!ReceiveDropped, Published
  <2> QED
    BY <2>3, <2>5
<1>6. ASSUME withdrawnAt = NoTime, fault.faultType = "stale" PROVE Sends({StampOf(held)}, 1)
  <2>1. config = fault
    BY <1>1, <1>6
  <2>2. ~Injector!LatencyIsActive(config) /\ ~Injector!DropoutIsActive(config) /\ holdEnabled
    BY <1>1, <1>6, <2>1 DEF Injector!LatencyIsActive, Injector!DropoutIsActive,
       Injector!StaleIsActive
  <2> QED
    BY <1>2, <2>2 DEF Forwards, Drops, Delays
<1>7. ASSUME withdrawnAt = NoTime, fault.faultType = "latency"
      PROVE  \E e \in Injector!Entries :
                    /\ e.message = received + 1
                    /\ clock + fault.delay - fault.jitter <= e.deadline
                    /\ e.deadline <= clock + fault.delay + fault.jitter
                    /\ Releases(entries \union {e})
                    /\ \A f \in entries' : clock < f.deadline
                    /\ \A f \in (entries \union {e}) \ entries' : f.deadline <= clock
  <2>1. config = fault
    BY <1>1, <1>7
  <2>2. Injector!LatencyIsActive(config) /\ ~Injector!DropoutIsActive(config)
    BY <1>1, <1>7, <2>1 DEF Injector!LatencyIsActive, Injector!DropoutIsActive
  <2>3. Delays
    BY <1>2, <2>2 DEF Forwards, Drops
  <2> QED
    BY <2>1, <2>3 DEF Delays
<1> QED
  BY <1>2, <1>3, <1>4, <1>5, <1>6, <1>7

LEMMA WaitingKeeps ==
    ASSUME TrialInv, Waiting, [TrialNext]_trialVars
    PROVE  Waiting'
<1>1. IInv /\ Published /\ clock \in Nat /\ fault' = fault
  BY StepsOfLoop, FaultAndClock, LoopTypes DEF TrialInv
<1> SUFFICES ASSUME Detectable, NEW e \in entries' PROVE clock' <= e.deadline
  BY <1>1, TrialStays DEF Waiting
<1>2. ASSUME clock' = clock, e \in entries PROVE clock' <= e.deadline
  BY <1>2 DEF Waiting
<1>3. CASE Inject
  <2>1. clock' = clock
    BY <1>1, <1>3, InjectEmits
  <2>2. Forwards \/ Drops => entries' = entries
    BY DEF Forwards, Drops
  <2>3. CASE Delays
    <3>1. \A f \in entries' : clock < f.deadline
      BY <2>3 DEF Delays
    <3>2. e \in entries \/ clock < e.deadline
      BY <3>1
    <3>3. e.deadline \in Int
      <4>1. e \in Injector!Entries
        BY <1>3, OnRawKeeps DEF TrialInv, IInv, Inject, Plumbing, Types
      <4> QED
        BY <4>1 DEF Injector!Entries
    <3> QED
      BY <1>1, <1>2, <2>1, <3>1, <3>3
  <2> QED
    BY <1>1, <1>2, <1>3, <2>1, <2>2, <2>3, InjectEmits
<1>4. CASE PollInjector
  <2>1. clock' = clock /\ entries' \subseteq entries
    BY <1>1, <1>4, PollEmits DEF Releases
  <2> QED
    BY <1>2, <2>1
<1>5. CASE Reconfigure
  BY <1>1, <1>5, ReconfigureEmits
<1>6. CASE Pass
  <2>1. entries' = entries /\ polled /\ clock' = clock + 1
    BY <1>6 DEF Pass, Elapse, injector
  <2>2. clock < e.deadline /\ e.deadline \in Int
    BY <1>1, <2>1 DEF IInv, Plumbing, Lined, Types, Injector!Entries
  <2> QED
    BY <1>1, <2>1, <2>2
<1>7. CASE Sample \/ CheckStream \/ Arrive \/ Overflow \/ Stop \/ UNCHANGED vars
  <2>1. clock' = clock /\ entries' = entries
    BY <1>7 DEF Sample, CheckStream, Arrive, Overflow, Stop, OnSample, OnCheck, OnFaulted, Overwrite,
       OnCommand,
       Watchdog!Check, Watchdog!RecordArrival, vars, injector
  <2> QED
    BY <1>2, <2>1
<1> QED
  BY <1>3, <1>4, <1>5, <1>6, <1>7, TrialCases

-----------------------------------------------------------------------------
\* Steps that do nothing to what has shown so far.
LEMMA ShownStays ==
    ASSUME TrialInv, Shown, UNCHANGED <<fault, appliedAt, withdrawnAt, lag, received, entries, held>>,
           evidence'["faulted"] = evidence["faulted"],
           evidence'["counters"] = evidence["counters"]
    PROVE  Shown'
<1> SUFFICES ASSUME appliedAt # NoTime, Detectable PROVE \E n \in 1..received : Affected(n)'
  BY TrialStays DEF Shown
<1>1. PICK n \in 1..received : Affected(n)
  BY DEF Shown
<1>2. \A t : Still(t)' = Still(t) /\ \A m : StampOf(m)' = StampOf(m)
  BY DEF Still, StampOf
<1>3. LastPlain(n)' = LastPlain(n)
  BY DEF LastPlain, StampOf
<1>4. DropsAfter(n) => DropsAfter(n)'
  BY DEF DropsAfter, StampOf, Still
<1>5. HoldsAfter(n) => HoldsAfter(n)'
  BY DEF HoldsAfter, StampOf, Still
<1>6. DelaysAfter(n) => DelaysAfter(n)'
  BY DEF DelaysAfter, StampOf, Still
<1> QED
  BY <1>1, <1>3, <1>4, <1>5, <1>6 DEF Affected

\* A message that was waiting waits on, or was sent now.
LEMMA ReleasedInTime ==
    ASSUME TrialInv, NEW E, Releases(E), IsFiniteSet(E), Emits("faulted", Outputs),
           lag' = lag, fault' = fault, NEW n, NEW e \in E, e.message = n + 1,
           e \notin entries' =>
               /\ StampOf(n + 1) + fault.delay - fault.jitter <= clock
               /\ clock <= StampOf(n + 1) + fault.delay + fault.jitter,
           StampOf(n + 1) \in Nat
    PROVE  \/ \E f \in entries' : f.message = n + 1
           \/ \E i \in 1..Len(evidence'["faulted"]) :
                /\ evidence'["faulted"][i].data = StampOf(n + 1)
                /\ StampOf(n + 1) + fault.delay - fault.jitter + lag["faulted"]
                        <= evidence'["faulted"][i].at
                /\ evidence'["faulted"][i].at
                        <= StampOf(n + 1) + fault.delay + fault.jitter + lag["faulted"]
<1> DEFINE R == E \ entries'
           X == {StampOf(f.message) : f \in R}
           m == Cardinality(R)
<1>1. Sends(X, m) /\ m \in Nat
  <2>1. IsFiniteSet(R)
    BY FS_Difference
  <2> QED
    BY <2>1, FS_CardinalityType DEF Releases
<1>2. CASE e \in entries'
  BY <1>2
<1>3. CASE e \notin entries'
  <2>1. StampOf(n + 1) \in X
    BY <1>3
  <2> HIDE DEF X, m
  <2>2. PICK i \in 1..Len(evidence'["faulted"]) :
          /\ evidence'["faulted"][i].at = clock + lag["faulted"]
          /\ evidence'["faulted"][i].data = StampOf(n + 1)
    BY <1>1, <2>1, SendsPublish DEF TrialInv
  <2>3. clock \in Nat /\ lag["faulted"] \in Nat /\ fault.delay \in Nat /\ fault.jitter \in Nat
    BY LoopTypes, Lengths, FaultFields DEF TrialInv, IInv, Kinds
  <2>4. /\ StampOf(n + 1) + fault.delay - fault.jitter <= clock
        /\ clock <= StampOf(n + 1) + fault.delay + fault.jitter
    BY <1>3
  <2> DEFINE early == StampOf(n + 1) + fault.delay - fault.jitter
             late == StampOf(n + 1) + fault.delay + fault.jitter
  <2>5. early \in Int /\ late \in Int
    BY <2>3
  <2>6. early <= clock /\ clock <= late
    BY <2>4
  <2> HIDE DEF early, late
  <2>7. early + lag["faulted"] <= clock + lag["faulted"] /\ clock + lag["faulted"] <= late + lag["faulted"]
    BY <2>3, <2>5, <2>6
  <2>8. /\ evidence'["faulted"][i].data = StampOf(n + 1)
        /\ early + lag["faulted"] <= evidence'["faulted"][i].at
        /\ evidence'["faulted"][i].at <= late + lag["faulted"]
    BY <2>2, <2>7
  <2> QED
    BY <2>8 DEF early, late
<1> QED
  BY <1>2, <1>3

\* What was sent in time was.
LEMMA SentInTimeStays ==
    ASSUME Published, Published', Grows, lag' = lag, fault' = fault, NEW n,
           \E i \in 1..Len(evidence["faulted"]) :
                /\ evidence["faulted"][i].data = StampOf(n + 1)
                /\ StampOf(n + 1) + fault.delay - fault.jitter + lag["faulted"]
                        <= evidence["faulted"][i].at
                /\ evidence["faulted"][i].at
                        <= StampOf(n + 1) + fault.delay + fault.jitter + lag["faulted"]
    PROVE  \E i \in 1..Len(evidence'["faulted"]) :
                /\ evidence'["faulted"][i].data = StampOf(n + 1)
                /\ StampOf(n + 1) + fault.delay - fault.jitter + lag["faulted"]
                        <= evidence'["faulted"][i].at
                /\ evidence'["faulted"][i].at
                        <= StampOf(n + 1) + fault.delay + fault.jitter + lag["faulted"]
<1>1. PICK i \in 1..Len(evidence["faulted"]) :
                /\ evidence["faulted"][i].data = StampOf(n + 1)
                /\ StampOf(n + 1) + fault.delay - fault.jitter + lag["faulted"]
                        <= evidence["faulted"][i].at
                /\ evidence["faulted"][i].at
                        <= StampOf(n + 1) + fault.delay + fault.jitter + lag["faulted"]
  OBVIOUS
<1>2. evidence'["faulted"][i] = evidence["faulted"][i]
  BY DEF Grows, Kinds
<1>3. i \in 1..Len(evidence'["faulted"])
  <2>1. Len(evidence["faulted"]) \in Nat /\ Len(evidence'["faulted"]) \in Nat
    BY DEF Published, Kinds
  <2>2. Len(evidence["faulted"]) <= Len(evidence'["faulted"])
    BY <2>1 DEF Grows, Kinds
  <2> QED
    BY <2>1, <2>2
<1> QED
  BY <1>1, <1>2, <1>3

LEMMA NothingWaits ==
    ASSUME TrialInv, appliedAt # NoTime, fault.faultType # "latency" \/ withdrawnAt # NoTime
    PROVE  entries = {}
<1>1. Lined /\ InForce
  BY DEF TrialInv, IInv, Plumbing
<1>2. ~Injector!LatencyIsActive(config)
  BY <1>1 DEF InForce, Injector!LatencyIsActive, NoFault
<1> QED
  BY <1>1, <1>2 DEF Lined

\* What waits does so until it is as late as the fault says.
LEMMA WaitsInTime ==
    ASSUME TrialInv, Waiting, Detectable, NEW e \in entries
    PROVE  /\ e.message \in 1..received /\ e.deadline \in Nat
           /\ StampOf(e.message) + fault.delay - fault.jitter <= e.deadline
           /\ e.deadline <= StampOf(e.message) + fault.delay + fault.jitter
           /\ clock <= e.deadline
BY DEF TrialInv, IInv, Plumbing, Lined, Types, Injector!Entries, Waiting

\* Where nothing is pending nothing is released.
LEMMA NothingSent ==
    ASSUME Published, Published', entries = {}, Releases(entries), Emits("faulted", Outputs)
    PROVE  evidence'["faulted"] = evidence["faulted"]
<1>1. entries \ entries' = {} /\ Cardinality({}) = 0
  BY FS_EmptySet
<1>2. Cardinality(entries \ entries') = 0
  BY <1>1
<1>3. Len(Outputs) = 0
  BY <1>2 DEF Releases, Sends, Outputs, Sent
<1> QED
  BY <1>3, EmitsNothing DEF Kinds

LEMMA PollKeepsShown ==
    ASSUME TrialInv, Waiting, Shown, PollInjector
    PROVE  Shown'
<1>1. /\ Published /\ Published' /\ Grows /\ lag' = lag
      /\ evidence'["counters"] = evidence["counters"]
      /\ Emits("faulted", Outputs) /\ Releases(entries)
      /\ UNCHANGED <<clock, fault, appliedAt, withdrawnAt, received>>
  <2>1. "counters" \in Kinds \ {"faulted"}
    BY DEF Kinds
  <2> QED
    BY <2>1, PollEmits DEF TrialInv, trial
<1>2. /\ held' = held /\ \A e \in entries \ entries' : e.deadline <= clock
      /\ IsFiniteSet(entries)
  BY OnPollEffect DEF PollInjector, TrialInv, IInv, Plumbing, Types
<1> SUFFICES ASSUME appliedAt # NoTime, Detectable PROVE \E n \in 1..received' : Affected(n)'
  BY <1>1, TrialStays DEF Shown
<1>3. PICK n \in 1..received : Affected(n)
  BY DEF Shown
<1>4. LastPlain(n)'
  BY <1>1, <1>3, LastPlainStays DEF Affected
<1>5. ASSUME fault.faultType # "latency"
      PROVE  Shown'
  <2>1. entries = {} /\ entries' = {}
    BY <1>1, <1>5, NothingWaits DEF Releases
  <2>3. evidence'["faulted"] = evidence["faulted"]
    BY <1>1, <2>1, NothingSent
  <2> QED
    BY <1>1, <1>2, <2>1, <2>3, ShownStays
<1>6. CASE fault.faultType # "latency"
  BY <1>1, <1>5, <1>6, TrialStays DEF Shown
<1>7. CASE fault.faultType = "latency"
  <2>1. DelaysAfter(n)'
    <3> SUFFICES ASSUME n + 1 <= received, Still(StampOf(n + 1) + fault.delay + fault.jitter)
                 PROVE  \/ \E f \in entries' : f.message = n + 1
                        \/ \E i \in 1..Len(evidence'["faulted"]) :
                            /\ evidence'["faulted"][i].data = StampOf(n + 1)
                            /\ StampOf(n + 1) + fault.delay - fault.jitter + lag["faulted"]
                                    <= evidence'["faulted"][i].at
                            /\ evidence'["faulted"][i].at
                                    <= StampOf(n + 1) + fault.delay + fault.jitter + lag["faulted"]
      BY <1>1 DEF DelaysAfter, Still, StampOf
    <3>1. CASE \E e \in entries : e.message = n + 1
      <4>1. PICK e \in entries : e.message = n + 1
        BY <3>1
      <4>2. /\ StampOf(n + 1) + fault.delay - fault.jitter <= e.deadline
            /\ e.deadline <= StampOf(n + 1) + fault.delay + fault.jitter
            /\ clock <= e.deadline /\ e.deadline \in Nat
        BY <4>1, WaitsInTime
      <4>3. e \notin entries' => clock = e.deadline
        BY <1>2, <4>2, LoopTypes
      <4>4. StampOf(n + 1) \in Nat
        BY LoopTypes, StampType
      <4> QED
        BY <1>1, <1>2, <4>1, <4>2, <4>3, <4>4, ReleasedInTime
    <3>2. CASE ~\E e \in entries : e.message = n + 1
      BY <1>1, <1>3, <1>7, <3>2, SentInTimeStays DEF Affected, DelaysAfter
    <3> QED
      BY <3>1, <3>2
  <2> QED
    BY <1>1, <1>4, <1>7, <2>1 DEF Affected
<1> QED
  BY <1>6, <1>7

-----------------------------------------------------------------------------
\* What is published of one more sample, whatever the fault makes of it.
LEMMA InjectPublishes ==
    ASSUME TrialInv, Inject, appliedAt # NoTime, Detectable, NEW n, LastPlain(n)
    PROVE  /\ Published /\ Published' /\ Grows /\ lag' = lag /\ clock' = clock
           /\ UNCHANGED <<fault, appliedAt, withdrawnAt>>
           /\ Emits("faulted", Outputs) /\ Emits("counters", <<dropped'>>) /\ dropped' \in Nat
           /\ received \in Nat /\ received' = received + 1 /\ StampOf(received + 1) = clock
           /\ held' = held /\ LastPlain(n)'
           /\ clock \in Nat /\ lag["faulted"] \in Nat /\ lag["counters"] \in Nat
           /\ withdrawnAt # NoTime => withdrawnAt \in Nat /\ withdrawnAt <= clock
           /\ Len(evidence["faulted"]) \in Nat /\ Len(evidence["counters"]) \in Nat
<1>1. /\ Published /\ Published' /\ Grows /\ lag' = lag /\ clock' = clock
      /\ UNCHANGED <<fault, appliedAt, withdrawnAt>>
      /\ Emits("faulted", Outputs) /\ Emits("counters", <<dropped'>>) /\ dropped' \in Nat
      /\ received' = received + 1
  BY InjectEmits DEF TrialInv, trial
<1>2. StampOf(received + 1) = clock /\ held' = held
  BY InjectUnderFault
<1>3. /\ lag["faulted"] \in Nat /\ lag["counters"] \in Nat
      /\ Len(evidence["faulted"]) \in Nat /\ Len(evidence["counters"]) \in Nat
  BY <1>1, Lengths DEF Kinds
<1>4. LastPlain(n)'
  BY <1>1, LastPlainStays
<1> QED
  BY <1>1, <1>2, <1>3, <1>4, LoopTypes

LEMMA InjectKeepsDrops ==
    ASSUME TrialInv, Inject, appliedAt # NoTime, Detectable, fault.faultType = "dropout",
           NEW n, LastPlain(n), DropsAfter(n)
    PROVE  DropsAfter(n)'
<1> USE InjectPublishes
<1> DEFINE X == IF withdrawnAt # NoTime THEN {clock} ELSE {}
           m == IF withdrawnAt # NoTime THEN 1 ELSE 0
<1>1. Sends(X, m) /\ m \in Nat
  BY InjectUnderFault
<1> HIDE DEF X, m
<1>2. /\ Len(evidence'["faulted"]) = Len(evidence["faulted"]) + m
      /\ \A i \in 1..Len(evidence["faulted"]) :
           evidence'["faulted"][i] = evidence["faulted"][i]
      /\ \A i \in 1..Len(evidence'["faulted"]) :
           i > Len(evidence["faulted"]) => evidence'["faulted"][i].at = clock + lag["faulted"]
  <2>1. Published /\ Emits("faulted", Outputs)
    OBVIOUS
  <2> QED
    BY <1>1, <2>1, SendsPublish
<1>3. ASSUME NEW i \in 1..Len(evidence'["faulted"]), i > n
      PROVE  withdrawnAt # NoTime /\ evidence'["faulted"][i].at >= withdrawnAt + lag["faulted"]
  <2>1. CASE i <= Len(evidence["faulted"])
    <3>1. i \in 1..Len(evidence["faulted"])
      BY <1>3, <2>1
    <3>2. evidence'["faulted"][i] = evidence["faulted"][i]
      BY <1>2, <3>1
    <3> QED
      BY <1>3, <3>1, <3>2 DEF DropsAfter
  <2>2. CASE i > Len(evidence["faulted"])
    <3>1. withdrawnAt # NoTime
      <4>1. m # 0
        <5> DEFINE new == Len(evidence'["faulted"])
                   old == Len(evidence["faulted"])
        <5>1. i > old /\ i \in 1..new /\ new = old + m /\ old \in Nat /\ m \in Nat
          BY <1>1, <1>2, <2>2
        <5> HIDE DEF new, old
        <5> QED
          BY <1>1, <1>2, <5>1
      <4> QED
        BY <4>1 DEF m
    <3>2. evidence'["faulted"][i].at = clock + lag["faulted"]
      BY <1>2, <2>2
    <3> QED
      BY <3>1, <3>2
  <2> QED
    BY <2>1, <2>2
<1>4. ASSUME NEW j \in 1..received', j > n, Still(StampOf(j))
      PROVE  \E i \in 1..Len(evidence'["counters"]) :
                /\ evidence'["counters"][i].at = StampOf(j) + lag["counters"]
                /\ evidence'["counters"][i].data > 0
  <2>1. CASE j \in 1..received
    <3>1. PICK i \in 1..Len(evidence["counters"]) :
                /\ evidence["counters"][i].at = StampOf(j) + lag["counters"]
                /\ evidence["counters"][i].data > 0
      BY <1>4, <2>1 DEF DropsAfter
    <3>2. /\ evidence'["counters"][i] = evidence["counters"][i]
          /\ Len(evidence'["counters"]) >= Len(evidence["counters"])
          /\ Len(evidence'["counters"]) \in Nat
      <4>1. Len(evidence'["counters"]) \in Nat
        BY DEF Kinds, Published
      <4> QED
        BY <4>1 DEF Grows, Kinds
    <3>3. i \in 1..Len(evidence'["counters"])
      <4>1. Len(evidence["counters"]) \in Nat
        BY DEF Kinds, Published, TrialInv
      <4> QED
        BY <3>2, <4>1
    <3> QED
      BY <3>1, <3>2, <3>3
  <2>2. CASE j = received + 1
    <3> DEFINE c == Len(evidence["counters"])
    <3>1. withdrawnAt = NoTime /\ StampOf(j) = clock
      BY <1>4, <2>2 DEF Still
    <3>2. Len(evidence'["counters"]) = c + 1 /\ evidence'["counters"][c + 1] = Heard("counters", dropped')
      BY EmitsOne
    <3>3. dropped' > 0
      BY <3>1, InjectUnderFault
    <3>4. c + 1 \in 1..Len(evidence'["counters"])
      BY <3>2
    <3>5. /\ evidence'["counters"][c + 1].at = StampOf(j) + lag["counters"]
          /\ evidence'["counters"][c + 1].data > 0
      BY <3>1, <3>2, <3>3 DEF Heard
    <3> HIDE DEF c
    <3> QED
      BY <3>4, <3>5
  <2> QED
    BY <2>1, <2>2
<1>5. \A j : StampOf(j)' = StampOf(j) /\ (Still(StampOf(j))' <=> Still(StampOf(j)))
  BY DEF StampOf, Still
<1> QED
  BY <1>3, <1>4, <1>5 DEF DropsAfter

LEMMA InjectKeepsHolds ==
    ASSUME TrialInv, Inject, appliedAt # NoTime, Detectable, fault.faultType = "stale",
           NEW n, LastPlain(n), HoldsAfter(n)
    PROVE  HoldsAfter(n)'
<1> USE InjectPublishes
<1> DEFINE X == IF withdrawnAt # NoTime THEN {clock} ELSE {StampOf(n)}
<1>1. Sends(X, 1)
  BY InjectUnderFault DEF HoldsAfter
<1>2. withdrawnAt = NoTime => X = {StampOf(n)}
  OBVIOUS
<1> HIDE DEF X
<1>3. /\ Len(evidence'["faulted"]) = Len(evidence["faulted"]) + 1
      /\ \A i \in 1..Len(evidence["faulted"]) :
           evidence'["faulted"][i] = evidence["faulted"][i]
      /\ \A i \in 1..Len(evidence'["faulted"]) :
           i > Len(evidence["faulted"]) =>
              /\ evidence'["faulted"][i].at = clock + lag["faulted"]
              /\ evidence'["faulted"][i].data \in X
  BY <1>1, SendsPublish
<1>4. Len(evidence["faulted"]) = received
  BY DEF HoldsAfter
<1>5. ASSUME NEW i \in 1..received', i > n
      PROVE  /\ evidence'["faulted"][i].at = StampOf(i) + lag["faulted"]
             /\ Still(StampOf(i)) => evidence'["faulted"][i].data = StampOf(n)
  <2>1. CASE i \in 1..received
    <3>1. evidence'["faulted"][i] = evidence["faulted"][i]
      BY <1>3, <1>4, <2>1
    <3> QED
      BY <1>5, <2>1, <3>1 DEF HoldsAfter
  <2>2. CASE i = received + 1
    <3>1. /\ evidence'["faulted"][i].at = clock + lag["faulted"]
          /\ evidence'["faulted"][i].data \in X
      BY <1>3, <1>4, <2>2
    <3>2. Still(StampOf(i)) => withdrawnAt = NoTime
      BY <2>2 DEF Still
    <3> QED
      BY <1>2, <2>2, <3>1, <3>2
  <2> QED
    BY <2>1, <2>2
<1>6. \A j : StampOf(j)' = StampOf(j) /\ (Still(StampOf(j))' <=> Still(StampOf(j)))
  BY DEF StampOf, Still
<1> QED
  BY <1>3, <1>4, <1>5, <1>6 DEF HoldsAfter

\* How the next sample after the fault shows: it waits, or was sent in time.
WaitsOrSent(E, list, n) ==
    \/ \E e \in E : e.message = n + 1
    \/ \E i \in 1..Len(list) :
        /\ list[i].data = StampOf(n + 1)
        /\ StampOf(n + 1) + fault.delay - fault.jitter + lag["faulted"] <= list[i].at
        /\ list[i].at <= StampOf(n + 1) + fault.delay + fault.jitter + lag["faulted"]

LEMMA InjectKeepsDelays ==
    ASSUME TrialInv, Waiting, Inject, appliedAt # NoTime, Detectable, fault.faultType = "latency",
           NEW n, LastPlain(n), DelaysAfter(n)
    PROVE  DelaysAfter(n)'
<1> USE InjectPublishes
<1> SUFFICES ASSUME n + 1 <= received', Still(StampOf(n + 1) + fault.delay + fault.jitter)
             PROVE  WaitsOrSent(entries', evidence'["faulted"], n)
  BY DEF DelaysAfter, Still, StampOf, WaitsOrSent
<1>0. n \in 1..received /\ StampOf(n + 1) \in Nat /\ fault.delay \in Nat /\ fault.jitter \in Nat
  BY FaultFields, StampType DEF TrialInv, IInv, LastPlain
<1>1. CASE n + 1 <= received /\ ~\E e \in entries : e.message = n + 1
  BY <1>1, SentInTimeStays DEF DelaysAfter, WaitsOrSent
<1>2. CASE withdrawnAt # NoTime
  <2>1. entries = {}
    BY <1>2, NothingWaits
  <2>2. n + 1 = received + 1 => StampOf(n + 1) = clock
    BY <1>0
  <2>3. n + 1 # received + 1
    BY <1>0, <1>2, <2>2 DEF Still
  <2> QED
    BY <1>0, <1>1, <2>1, <2>3
<1>3. CASE withdrawnAt = NoTime /\ (n + 1 = received + 1 \/ \E e \in entries : e.message = n + 1)
  <2>1. PICK new \in Injector!Entries :
                   /\ new.message = received + 1
                   /\ clock + fault.delay - fault.jitter <= new.deadline
                   /\ new.deadline <= clock + fault.delay + fault.jitter
                   /\ Releases(entries \union {new})
                   /\ \A f \in (entries \union {new}) \ entries' : f.deadline <= clock
    BY <1>3, InjectUnderFault
  <2> DEFINE E == entries \union {new}
  <2>2. IsFiniteSet(E)
    <3>1. IsFiniteSet(entries)
      BY DEF TrialInv, IInv, Plumbing, Types
    <3> QED
      BY <3>1, FS_AddElement
  <2>3. PICK e \in E :
            /\ e.message = n + 1
            /\ e \notin entries' =>
               /\ StampOf(n + 1) + fault.delay - fault.jitter <= clock
               /\ clock <= StampOf(n + 1) + fault.delay + fault.jitter
    <3>1. CASE n + 1 = received + 1
      <4>1. new \notin entries' =>
               /\ clock + fault.delay - fault.jitter <= clock
               /\ clock <= clock + fault.delay + fault.jitter
        <5> SUFFICES ASSUME new \notin entries' PROVE clock + fault.delay - fault.jitter <= clock
          BY <1>0
        <5>1. new.deadline <= clock /\ new.deadline \in Nat
          BY <2>1 DEF Injector!Entries
        <5>2. clock + fault.delay - fault.jitter <= new.deadline
          BY <2>1
        <5> QED
          BY <1>0, <5>1, <5>2
      <4>2. StampOf(n + 1) = clock
        BY <3>1, <1>0
      <4> QED
        BY <2>1, <3>1, <4>1, <4>2
    <3>2. CASE \E e \in entries : e.message = n + 1
      <4>1. PICK e \in entries : e.message = n + 1
        BY <3>2
      <4>2. /\ StampOf(n + 1) + fault.delay - fault.jitter <= e.deadline
            /\ e.deadline <= StampOf(n + 1) + fault.delay + fault.jitter
            /\ clock <= e.deadline /\ e.deadline \in Nat
        BY <4>1, WaitsInTime
      <4>3. e \notin entries' => clock = e.deadline
        BY <2>1, <4>2
      <4> QED
        BY <4>1, <4>2, <4>3
    <3> QED
      BY <1>3, <3>1, <3>2
  <2>4. Releases(E)
    BY <2>1
  <2> HIDE DEF E
  <2> QED
    BY <1>0, <2>2, <2>3, <2>4, ReleasedInTime DEF WaitsOrSent
<1> QED
  BY <1>0, <1>1, <1>2, <1>3

LEMMA InjectKeepsShown ==
    ASSUME TrialInv, Waiting, Shown, Inject
    PROVE  Shown'
<1>1. UNCHANGED <<fault, appliedAt, withdrawnAt>>
  BY InjectEmits DEF TrialInv, trial
<1> SUFFICES ASSUME appliedAt # NoTime, Detectable PROVE \E n \in 1..received' : Affected(n)'
  BY <1>1, TrialStays DEF Shown
<1>2. PICK n \in 1..received : Affected(n)
  BY DEF Shown
<1>3. LastPlain(n)' /\ received' = received + 1 /\ received \in Nat
  BY <1>2, InjectPublishes DEF Affected
<1>4. Affected(n)'
  BY <1>1, <1>2, <1>3, InjectKeepsDrops, InjectKeepsHolds, InjectKeepsDelays DEF Affected
<1> QED
  BY <1>3, <1>4

-----------------------------------------------------------------------------
\* What has shown so far stays, and what has not is not there to see any more.
LEMMA WithdrawKeepsShown ==
    ASSUME TrialInv, Waiting, Shown, Reconfigure, WithdrawFault
    PROVE  Shown'
<1>1. /\ Published /\ Published' /\ Grows /\ lag' = lag
      /\ entries = {} => evidence'["faulted"] = evidence["faulted"]
      /\ entries' = {} /\ UNCHANGED <<clock, fault, received>>
  BY ReconfigureEmits DEF TrialInv
<1>2. /\ appliedAt # NoTime /\ appliedAt' = appliedAt
      /\ withdrawnAt = NoTime /\ withdrawnAt' = clock /\ clock \in Nat /\ clock # NoTime
  BY LoopTypes DEF WithdrawFault, NoTime
<1> SUFFICES ASSUME Detectable PROVE \E n \in 1..received' : Affected(n)'
  BY <1>1, TrialStays DEF Shown
<1>3. PICK n \in 1..received : Affected(n)
  BY <1>2 DEF Shown
<1>4. LastPlain(n)'
  BY <1>1, <1>2, <1>3, LastPlainStays DEF Affected
<1>5. \A m : StampOf(m)' = StampOf(m)
  BY DEF StampOf
<1>6. fault.faultType # "latency" => evidence'["faulted"] = evidence["faulted"]
  BY <1>1, <1>2, NothingWaits
<1>7. ASSUME fault.faultType = "dropout" PROVE DropsAfter(n)'
  <2>1. DropsAfter(n)
    BY <1>3, <1>7 DEF Affected
  <2>2. \A i \in 1..Len(evidence'["faulted"]) : ~(i > n)
    BY <1>2, <1>6, <1>7, <2>1 DEF DropsAfter
  <2>3. ASSUME NEW j \in 1..received', j > n
        PROVE  \E i \in 1..Len(evidence'["counters"]) :
                /\ evidence'["counters"][i].at = StampOf(j)' + lag'["counters"]
                /\ evidence'["counters"][i].data > 0
    <3>1. PICK i \in 1..Len(evidence["counters"]) :
                /\ evidence["counters"][i].at = StampOf(j) + lag["counters"]
                /\ evidence["counters"][i].data > 0
      BY <1>1, <1>2, <2>1, <2>3 DEF DropsAfter, Still
    <3>2. /\ evidence'["counters"][i] = evidence["counters"][i]
          /\ Len(evidence'["counters"]) >= Len(evidence["counters"])
          /\ Len(evidence'["counters"]) \in Nat /\ Len(evidence["counters"]) \in Nat
      BY <1>1, Lengths DEF Grows, Kinds, Published
    <3> QED
      BY <1>1, <1>5, <3>1, <3>2
  <2> QED
    BY <2>2, <2>3 DEF DropsAfter
<1>8. ASSUME fault.faultType = "stale" PROVE HoldsAfter(n)'
  <2>1. HoldsAfter(n)
    BY <1>3, <1>8 DEF Affected
  <2>2. \A i : Still(StampOf(i))
    BY <1>2 DEF Still
  <2> QED
    BY <1>1, <1>2, <1>5, <1>6, <1>8, <2>1, <2>2 DEF HoldsAfter
<1>9. ASSUME fault.faultType = "latency" PROVE DelaysAfter(n)'
  <2> SUFFICES ASSUME n + 1 <= received, StampOf(n + 1) + fault.delay + fault.jitter < clock
               PROVE  WaitsOrSent({}, evidence'["faulted"], n)
    BY <1>1, <1>2, <1>5 DEF DelaysAfter, Still, WaitsOrSent
  <2>1. ~\E e \in entries : e.message = n + 1
    <3> SUFFICES ASSUME NEW e \in entries, e.message = n + 1 PROVE FALSE
      OBVIOUS
    <3>1. /\ e.deadline <= StampOf(n + 1) + fault.delay + fault.jitter
          /\ clock <= e.deadline /\ e.deadline \in Nat
      BY WaitsInTime
    <3>2. StampOf(n + 1) \in Nat /\ fault.delay \in Nat /\ fault.jitter \in Nat
      BY <1>3, LoopTypes, StampType, FaultFields DEF TrialInv, IInv
    <3> QED
      BY <1>2, <3>1, <3>2
  <2>2. \E i \in 1..Len(evidence["faulted"]) :
            /\ evidence["faulted"][i].data = StampOf(n + 1)
            /\ StampOf(n + 1) + fault.delay - fault.jitter + lag["faulted"]
                    <= evidence["faulted"][i].at
            /\ evidence["faulted"][i].at
                    <= StampOf(n + 1) + fault.delay + fault.jitter + lag["faulted"]
    BY <1>2, <1>3, <1>9, <2>1 DEF Affected, DelaysAfter, Still
  <2> QED
    BY <1>1, <2>2, SentInTimeStays DEF WaitsOrSent
<1> QED
  BY <1>1, <1>3, <1>4, <1>7, <1>8, <1>9 DEF Affected

\* When the fault is applied the newest sample is the last to have gone through.
LEMMA ApplyEstablishesShown ==
    ASSUME TrialInv, TrialInv', Reconfigure, ApplyFault
    PROVE  Shown'
<1>1. /\ Published /\ Published' /\ Grows /\ lag' = lag
      /\ entries = {} => evidence'["faulted"] = evidence["faulted"]
      /\ entries' = {} /\ UNCHANGED <<clock, fault, received>>
  BY ReconfigureEmits DEF TrialInv
<1>2. /\ appliedAt = NoTime /\ appliedAt' = clock /\ fault # NoFault /\ FaultFrom <= clock
      /\ withdrawnAt' = withdrawnAt /\ withdrawnAt = NoTime
      /\ clock \in Nat /\ received \in Nat
  BY LoopTypes DEF ApplyFault, TrialInv, IInv, Plumbing, InForce
<1>3. evidence'["faulted"] = evidence["faulted"]
  BY <1>1, <1>2, NothingInForce DEF TrialInv
<1>4. /\ Len(evidence["faulted"]) = received
      /\ \A i \in 1..received :
            /\ evidence["faulted"][i].at = StampOf(i) + lag["faulted"]
            /\ evidence["faulted"][i].data = StampOf(i)
  BY <1>2 DEF TrialInv, Untouched
<1>5. received # 0 /\ clock <= received * Period
  <2>1. clock # 0
    BY <1>2, BoundsAssumption
  <2>2. CASE raw = <<>>
    <3>1. nextSample = received * Period /\ clock <= nextSample
      BY <1>2, <2>2 DEF TrialInv, IInv, Plumbing, Sampled
    <3> QED
      BY <1>2, <2>1, <3>1, Parameters
  <2>3. CASE raw # <<>>
    <3>1. clock = received * Period
      BY <2>3 DEF TrialInv, IInv, Plumbing, Sampled
    <3> QED
      BY <1>2, <2>1, <3>1, Parameters
  <2> QED
    BY <2>2, <2>3
<1>6. StampOf(received) <= clock /\ clock <= StampOf(received) + Period
  <2>1. StampOf(received) <= clock
    BY <1>2, <1>5, StampsPast DEF TrialInv, IInv
  <2>2. StampOf(received) + Period = received * Period
    BY <1>2, Parameters DEF StampOf
  <2> QED
    BY <1>5, <2>1, <2>2
<1>7. \A m : StampOf(m)' = StampOf(m)
  BY DEF StampOf
<1>8. LastPlain(received)'
  BY <1>1, <1>2, <1>3, <1>4, <1>5, <1>6, <1>7 DEF LastPlain
<1>9. DropsAfter(received)'
  BY <1>1, <1>2, <1>3, <1>4 DEF DropsAfter
<1>10. ASSUME fault.faultType = "stale" PROVE HoldsAfter(received)'
  <2>1. holdEnabled = FALSE /\ latest = received
    BY <1>2, NothingInForce DEF TrialInv, IInv, Plumbing, Holds
  <2>2. Injector!StaleIsActive(fault)
    <3>1. fault \in Faults
      BY <1>2 DEF TrialInv, IInv, Plumbing, Types
    <3> QED
      BY <1>10, <3>1, FaultsAssumption DEF Injector!StaleIsActive
  <2>3. held' = Injector!HeldOnSwitch(TRUE)
    <3>1. held' = Injector!HeldOnSwitch(Injector!StaleIsActive(fault))
      BY <1>2, NothingInForce, ConfigureEffect DEF ApplyFault, TrialInv, IInv
    <3>2. Injector!StaleIsActive(fault) = TRUE
      BY <2>2 DEF Injector!StaleIsActive
    <3> QED
      BY <3>1, <3>2
  <2>4. held' = received
    BY <1>5, <2>1, <2>3 DEF Injector!HeldOnSwitch, Injector!Unset
  <2> QED
    BY <1>1, <1>2, <1>3, <1>4, <2>4 DEF HoldsAfter
<1>11. DelaysAfter(received)'
  BY <1>1, <1>2 DEF DelaysAfter
<1>12. Affected(received)'
  BY <1>1, <1>8, <1>9, <1>10, <1>11 DEF Affected
<1> QED
  BY <1>1, <1>2, <1>5, <1>12 DEF Shown

LEMMA ShownKeeps ==
    ASSUME TrialInv, TrialInv', Waiting, Shown, [TrialNext]_trialVars
    PROVE  Shown'
<1>1. CASE Sample
  <2>1. UNCHANGED <<fault, appliedAt, withdrawnAt, received, entries, held>>
    BY <1>1 DEF Sample, OnSample, trial, injector
  <2> QED
    BY <1>1, <2>1, SampleEmits, ShownStays DEF Kinds, TrialInv
<1>2. CASE CheckStream
  <2>1. UNCHANGED <<fault, appliedAt, withdrawnAt, received, entries, held>>
    BY <1>2 DEF CheckStream, OnCheck, trial, injector
  <2> QED
    BY <1>2, <2>1, CheckEmits, ShownStays DEF TrialInv
<1>3. CASE Unheard /\ (Arrive \/ Overflow \/ Stop \/ Pass \/ UNCHANGED vars)
  <2>1. UNCHANGED <<fault, appliedAt, withdrawnAt, lag, evidence, received, entries, held>>
    BY <1>3 DEF Unheard, Arrive, Overflow, Stop, Pass, OnFaulted, Overwrite, OnCommand, Elapse,
       injector, vars
  <2> QED
    BY <2>1, ShownStays
<1> QED
  BY <1>1, <1>2, <1>3, TrialCases, InjectKeepsShown, PollKeepsShown, WithdrawKeepsShown,
     ApplyEstablishesShown DEF Reconfigure

-----------------------------------------------------------------------------
(* The whole of it. *)

FaultInv ==
    /\ TrialInv
    /\ Alarms /\ Stopping /\ Soon
    /\ Schedule /\ Administered
    /\ Counted /\ Waiting /\ Shown

LEMMA FaultNextKeeps == FaultInv /\ [TrialNext]_trialVars => FaultInv'
<1> SUFFICES ASSUME FaultInv, [TrialNext]_trialVars PROVE FaultInv'
  OBVIOUS
<1> USE DEF FaultInv
<1>1. TrialInv'
  BY TrialNextKeeps
<1>2. Alarms' /\ Stopping' /\ Soon'
  BY <1>1, AlarmsKeep, SoonKeeps DEF TrialInv
<1>3. Schedule' /\ Administered' /\ Counted' /\ Waiting' /\ Shown'
  BY <1>1, ScheduleKeeps, CountedKeeps, WaitingKeeps, ShownKeeps
<1> QED
  BY <1>1, <1>2, <1>3

LEMMA FaultInitEstablishes == TrialInit => FaultInv
<1> SUFFICES ASSUME TrialInit PROVE FaultInv
  OBVIOUS
<1>1. TrialInv
  BY TrialInitEstablishes
<1>2. /\ clock = 0 /\ appliedAt = NoTime /\ withdrawnAt = NoTime /\ received = 0 /\ entries = {}
      /\ latched = FALSE /\ acks = <<>> /\ evidence = [k \in Kinds |-> <<>>]
      /\ judged = FALSE /\ drainUntil = NoTime /\ scenario = TheScenario(fault)
  BY DEF TrialInit, Init, Injector!Init, Watchdog!Init
<1>3. /\ evidence["violation"] = <<>> /\ evidence["recovery"] = <<>> /\ evidence["command"] = <<>>
      /\ evidence["counters"] = <<>> /\ Len(<<>>) = 0
  BY <1>2 DEF Kinds
<1>4. Alarms
  BY <1>2, <1>3 DEF Alarms
<1>5. Stopping /\ Soon /\ Counted /\ Waiting /\ Shown
  BY <1>2, <1>3 DEF Stopping, Soon, Counted, Waiting, Shown
<1>6. /\ state = "created" /\ activationRequested = NoTime /\ activation = NoTime
      /\ deactivationRequested = NoTime /\ failed = FALSE
  BY DEF TrialInit, Lifecycle!Init, Lifecycle!NoTime, NoTime
<1>7. Schedule
  BY <1>2, <1>6 DEF Schedule, Times, Lifecycle!Over
<1>8. Administered
  BY <1>2, <1>6 DEF Administered, Lifecycle!Over
<1> QED
  BY <1>1, <1>4, <1>5, <1>7, <1>8 DEF FaultInv

\* In every state of every trial the lifecycle knows when the nodes were reconfigured, the
\* alarm is raised in time and leads to commands that the robot obeys, and a fault that
\* hides the robot has done to the stream of samples what its scenario says.
THEOREM FaultInvariance == TrialSpec => []FaultInv
BY FaultInitEstablishes, FaultNextKeeps, PTL DEF TrialSpec

-----------------------------------------------------------------------------
(* The judgement of a trial of a fault that hides the robot.  It comes when *)
(* the fault was withdrawn long ago, and all that matters to it was heard.  *)

\* There is a sample in every period, ...
LEMMA SampleInPeriod ==
    ASSUME NEW t \in Nat
    PROVE  \E n \in Nat \ {0} :
               /\ t <= StampOf(n) /\ StampOf(n) <= t + Period - 1
               /\ \A m \in Nat \ {0} : t <= StampOf(m) => n <= m
<1> USE Parameters
<1>1. CASE t = 0
  <2>1. StampOf(1) = 0
    BY DEF StampOf
  <2> QED
    BY <1>1, <2>1
<1>2. CASE t # 0
  <2>1. t - 1 \in Nat
    BY <1>2
  <2>2. PICK n \in Nat \ {0} : StampOf(n) <= t - 1 /\ t - 1 < StampOf(n + 1)
    BY <2>1, WP!FirstInWindow DEF StampOf, WP!StampOf
  <2>3. StampOf(n + 1) = StampOf(n) + Period /\ StampOf(n) \in Nat
    BY StampType DEF StampOf
  <2>4. ASSUME NEW m \in Nat \ {0}, t <= StampOf(m) PROVE n + 1 <= m
    <3>1. SUFFICES ASSUME m <= n PROVE FALSE
      OBVIOUS
    <3>2. (m - 1) * Period <= (n - 1) * Period
      BY <3>1
    <3>3. StampOf(m) \in Nat /\ StampOf(m) <= StampOf(n)
      BY <3>2, StampType DEF StampOf
    <3> QED
      BY <2>2, <2>4, <2>3, <3>3
  <2> QED
    BY <2>2, <2>3, <2>4
<1> QED
  BY <1>1, <1>2

LEMMA StampsGrow ==
    ASSUME NEW m \in Nat \ {0}, NEW n \in Nat
    PROVE  /\ StampOf(m + n) = StampOf(m) + n * Period /\ n * Period \in Nat
           /\ StampOf(m + 1) = StampOf(m) + Period
           /\ m <= n => StampOf(m) <= StampOf(n)
<1>1. m <= n => (m - 1) * Period <= (n - 1) * Period
  BY Parameters
<1> QED
  BY <1>1, Parameters DEF StampOf

\* ... and it is taken when it is due and received in the same tick.
LEMMA SampledByNow ==
    ASSUME TrialInv, NEW n \in Nat \ {0}, StampOf(n) < clock
    PROVE  n \in 1..received /\ n \in 1..Len(evidence["raw"])
<1>1. clock \in Nat /\ received \in Nat /\ Len(raw) \in Nat
      /\ Len(evidence["raw"]) = received + Len(raw)
  BY LoopTypes DEF TrialInv, RawPublished, IInv, Plumbing, Sampled
<1>2. clock <= received * Period
  <2>1. CASE raw = <<>>
    <3>1. nextSample = received * Period /\ clock <= nextSample
      BY <1>1, <2>1 DEF TrialInv, IInv, Plumbing, Sampled
    <3> QED
      BY <3>1
  <2>2. CASE raw # <<>>
    BY <1>1, <2>2, Parameters DEF TrialInv, IInv, Plumbing, Sampled
  <2> QED
    BY <2>1, <2>2
<1>3. n <= received
  <2>1. SUFFICES ASSUME received <= n - 1 PROVE FALSE
    BY <1>1
  <2>2. received * Period <= (n - 1) * Period
    BY <1>1, <2>1, Parameters
  <2> QED
    BY <1>1, <1>2, <2>2, Parameters DEF StampOf
<1> QED
  BY <1>1, <1>3

\* What is known of the times when a trial is judged.
LEMMA TimesOfJudgement ==
    ASSUME FaultInv, judged, Detectable, LeavesRoom(fault)
    PROVE  /\ fault \in Faults /\ fault.delay \in Nat /\ fault.jitter \in Nat
           /\ appliedAt \in Nat /\ activation \in Nat /\ withdrawnAt \in Nat /\ clock \in Nat
           /\ appliedAt <= activation /\ activation <= appliedAt + 1
           /\ lag["raw"] <= activation
           /\ activation + FaultWithin < withdrawnAt /\ withdrawnAt <= clock
           /\ activation + Observation + Drain <= clock
           /\ withdrawnAt > DetectionTime
           /\ \A k \in Kinds : lag[k] \in Lags /\ lag[k] \in Nat
<1> USE DEF FaultInv
<1>1. /\ fault # NoFault /\ fault \in Faults
      /\ fault.delay \in Nat /\ fault.jitter \in Nat
  <2>1. fault # NoFault
    BY DEF Detectable, NoFault
  <2> QED
    BY <2>1, FaultFields DEF TrialInv, IInv, Plumbing, Types
<1>2. /\ state \in Lifecycle!Over /\ ~failed /\ clock = drainUntil
  BY DEF Schedule, Lifecycle!Over
<1>3. /\ activation # NoTime /\ withdrawnAt # NoTime /\ appliedAt # NoTime
      /\ drainUntil >= activation + Observation + Drain
      /\ appliedAt <= activation /\ activation <= appliedAt + 1
      /\ lag["raw"] <= activation
      /\ withdrawnAt >= activation + Duration
  BY <1>1, <1>2 DEF Administered
<1>4. /\ appliedAt \in Nat /\ activation \in Nat /\ withdrawnAt \in Nat /\ clock \in Nat
      /\ withdrawnAt <= clock
  BY <1>3, LoopTypes DEF Schedule, Times
<1>5. /\ FaultWithin < Duration /\ MaxAge + 1 < Duration
  BY DEF LeavesRoom
<1>6. /\ activation + FaultWithin < withdrawnAt /\ withdrawnAt > DetectionTime
  BY <1>3, <1>4, <1>5, TrialTimes, Parameters DEF DetectionTime
<1>7. \A k \in Kinds : lag[k] \in Lags /\ lag[k] \in Nat
  BY DeadlinesAssumption DEF TrialInv, Published
<1> QED
  BY <1>1, <1>2, <1>3, <1>4, <1>6, <1>7

\* The alarm by then.
LEMMA AlarmAtJudgement ==
    ASSUME FaultInv, judged, Detectable, LeavesRoom(fault)
    PROVE  /\ latched /\ Len(evidence["violation"]) \in Nat /\ Len(evidence["violation"]) >= 1
           /\ AlarmedAt(1) \in Nat
           /\ appliedAt < AlarmedAt(1) /\ AlarmedAt(1) <= appliedAt + MaxAge + 1
           /\ latchedReason = "message_age_exceeded"
<1> USE DEF FaultInv
<1>1. /\ appliedAt \in Nat /\ activation \in Nat /\ withdrawnAt \in Nat /\ clock \in Nat
      /\ withdrawnAt > DetectionTime /\ withdrawnAt <= clock
  BY TimesOfJudgement
<1>2. MaxAge \in Nat /\ DetectionTime \in Nat /\ appliedAt # NoTime
  BY <1>1, Parameters DEF DetectionTime, NoTime
<1>3. latched
  BY <1>1, <1>2 DEF TrialInv, IInv, Detected
<1>4. Watchdog!Tolerates(MaxAge - Period)
  BY DEF LeavesRoom
<1>5. latchedReason = "message_age_exceeded"
  BY <1>1, <1>2, <1>3, <1>4 DEF TrialInv, Named
<1>6. appliedAt < AlarmedAt(1) /\ AlarmedAt(1) <= DetectionTime
  BY <1>1, <1>2, <1>3, <1>4 DEF Soon
<1>7. Len(evidence["violation"]) \in Nat /\ Len(evidence["violation"]) # 0
  BY <1>3, Lengths DEF TrialInv, Alarms, Kinds
<1>8. AlarmedAt(1) \in Nat
  BY <1>7 DEF Alarms
<1> QED
  BY <1>3, <1>5, <1>6, <1>7, <1>8 DEF DetectionTime

\* From this place on the list of events has the messages of that kind, in order, as
\* far as they were received by now.
HeardFrom(d, k, place) ==
    /\ \A i \in Evidence(d)!Of(k) :
        /\ i - place \in 1..Len(evidence[k])
        /\ Events[i] = evidence[k][i - place]
    /\ \A j \in 1..Len(evidence[k]) :
        evidence[k][j].at <= clock =>
            /\ place + j \in Evidence(d)!Of(k)
            /\ Events[place + j] = evidence[k][j]

LEMMA EventsOfKind ==
    ASSUME TrialInv, NEW k \in Kinds, NEW d
    PROVE  /\ Len(Events) \in Nat /\ DOMAIN Events = 1..Len(Events)
           /\ Evidence(d)!Of(k) \subseteq 1..Len(Events)
           /\ \A i \in 1..Len(Events) : Events[i].at \in Nat
           /\ \E place \in Nat : HeardFrom(d, k, place)
<1>1. Events \in Seq(AllMessages) /\ Len(Events) \in Nat /\ DOMAIN Events = 1..Len(Events)
  BY EventsWerePublished
<1>2. \A i \in 1..Len(Events) : Events[i].at \in Nat
  BY <1>1 DEF AllMessages, Messages
<1>3. Evidence(d)!Of(k) = {i \in 1..Len(Events) : Events[i].kind = k}
  BY <1>1 DEF Evidence!Of
<1>4. \A j \in 1..Len(evidence[k]) : evidence[k][j].kind = k
  <2>1. evidence[k] \in Seq(Messages(k))
    BY DEF TrialInv, Published
  <2>2. \A j \in 1..Len(evidence[k]) : evidence[k][j] \in Messages(k)
    BY <2>1
  <2> QED
    BY <2>2 DEF Messages
<1>5. PICK place \in Nat :
                /\ \A i \in 1..Len(Events) :
                    Events[i].kind = k =>
                        /\ i - place \in 1..Len(evidence[k])
                        /\ Events[i] = evidence[k][i - place]
                /\ \A j \in 1..Len(evidence[k]) :
                    evidence[k][j].at <= clock =>
                        /\ place + j \in 1..Len(Events)
                        /\ Events[place + j] = evidence[k][j]
  BY EventsWerePublished
<1>6. HeardFrom(d, k, place)
  BY <1>3, <1>4, <1>5 DEF HeardFrom
<1> QED
  BY <1>1, <1>2, <1>3, <1>6

\* The first of some events is the least of their times.
LEMMA FirstIsLeast ==
    ASSUME TrialInv, NEW d, NEW I \in SUBSET (1..Len(Events)), I # {}
    PROVE  /\ Evidence(d)!First(I) \in Nat /\ Evidence(d)!First(I) # Evidence(d)!NoTime
           /\ \E i \in I : Evidence(d)!First(I) = Events[i].at
           /\ \A i \in I : Evidence(d)!First(I) <= Events[i].at
<1> DEFINE T == {Events[i].at : i \in I}
<1>0. \A i \in I : Events[i].at \in Nat
  BY EventsOfKind DEF Kinds
<1>1. T \in SUBSET Nat /\ T # {}
  BY <1>0
<1>2. Evidence(d)!First(I) = EP!Min(T)
  BY DEF Evidence!First, Evidence!Min, EP!Min
<1> HIDE DEF T
<1>3. EP!IsLeast(EP!Min(T), T)
  BY <1>1, EP!MinIsLeast, EvidenceParameters
<1>4. EP!Min(T) \in T /\ \A u \in T : EP!Min(T) <= u
  BY <1>3 DEF EP!IsLeast
<1>5. EP!Min(T) \in Nat /\ Evidence(d)!NoTime = -1
  BY <1>1, <1>4 DEF Evidence!NoTime
<1>6. \E i \in I : EP!Min(T) = Events[i].at
  BY <1>4 DEF T
<1>7. \A i \in I : EP!Min(T) <= Events[i].at
  BY <1>4 DEF T
<1> QED
  BY <1>2, <1>5, <1>6, <1>7

-----------------------------------------------------------------------------
\* When what should have been seen should have been.
Judging == FaultInv /\ judged /\ Detectable /\ LeavesRoom(fault)

\* The lags are such that what the alarm brings about is heard in time.
LEMMA RoomForAlarm ==
    ASSUME Judging
    PROVE  \A l \in Lags :
               /\ l \in Nat
               /\ MaxAge + 1 + l <= WatchdogWithin
               /\ MaxAge + 1 + Period + l <= RobotWithin
               /\ MaxAge + 1 + Period + l < Observation + Drain
               /\ MaxAge + 1 + Period + l + Hold <= Observation + Drain
               /\ \A m \in Lags : l <= CommandWithin + m /\ l <= ObservedWithin + m
BY DeadlinesAssumption DEF Judging, LeavesRoom

LEMMA AlarmsFromFirst ==
    ASSUME Judging, NEW i \in 1..Len(evidence["violation"])
    PROVE  /\ evidence["violation"][i].at = AlarmedAt(i) + lag["violation"]
           /\ AlarmedAt(i) \in Nat /\ AlarmedAt(1) <= AlarmedAt(i)
           /\ evidence["violation"][i].data = "message_age_exceeded"
<1>1. evidence["violation"][i].at \in Nat /\ lag["violation"] \in Nat
  <2>1. "violation" \in Kinds
    BY DEF Kinds
  <2>2. evidence["violation"] \in Seq(Messages("violation"))
    BY <2>1 DEF Judging, FaultInv, TrialInv, Published
  <2>3. evidence["violation"][i] \in Messages("violation")
    BY <2>2
  <2> QED
    BY <2>1, <2>3, TimesOfJudgement DEF Judging, Messages
<1>2. /\ AlarmedAt(i) \in Nat /\ AlarmedAt(1) <= AlarmedAt(i)
      /\ evidence["violation"][i].data = "message_age_exceeded"
  BY AlarmAtJudgement DEF Judging, FaultInv, Alarms
<1>3. evidence["violation"][i].at = AlarmedAt(i) + lag["violation"]
  BY <1>1 DEF AlarmedAt
<1> QED
  BY <1>2, <1>3

\* No violation is seen before the activation.
LEMMA NoneTooEarly ==
    ASSUME Judging, NEW d
    PROVE  Evidence(d)!NoEarlyViolation
<1> SUFFICES ASSUME NEW i \in Evidence(d)!Of("violation") PROVE activation <= Events[i].at
  BY DEF Evidence!NoEarlyViolation, Evidence!Activation
<1>1. PICK j \in 1..Len(evidence["violation"]) : Events[i] = evidence["violation"][j]
  BY EventsOfKind DEF HeardFrom, Kinds, Judging, FaultInv
<1>2. /\ Events[i].at = AlarmedAt(j) + lag["violation"]
      /\ AlarmedAt(j) \in Nat /\ AlarmedAt(1) <= AlarmedAt(j)
  BY <1>1, AlarmsFromFirst
<1>3. /\ appliedAt \in Nat /\ activation \in Nat /\ activation <= appliedAt + 1
      /\ lag["violation"] \in Nat
  BY TimesOfJudgement DEF Judging, Kinds
<1>4. AlarmedAt(1) \in Nat /\ appliedAt < AlarmedAt(1)
  BY AlarmAtJudgement DEF Judging
<1> HIDE DEF AlarmedAt
<1> QED
  BY <1>2, <1>3, <1>4

\* The first violation is heard, and in time.
LEMMA FirstAlarmHeard ==
    ASSUME Judging, NEW d
    PROVE  \E i \in Evidence(d)!Of("violation") :
               /\ Events[i].at = AlarmedAt(1) + lag["violation"]
               /\ Events[i].data = "message_age_exceeded"
               /\ activation <= Events[i].at /\ Events[i].at <= activation + WatchdogWithin
<1>1. /\ appliedAt \in Nat /\ activation \in Nat /\ activation <= appliedAt + 1
      /\ appliedAt <= activation /\ clock \in Nat
      /\ lag["violation"] \in Nat /\ lag["violation"] \in Lags
      /\ activation + Observation + Drain <= clock
  BY TimesOfJudgement DEF Judging, Kinds
<1>2. /\ AlarmedAt(1) \in Nat /\ appliedAt < AlarmedAt(1)
      /\ AlarmedAt(1) <= appliedAt + MaxAge + 1
      /\ 1 \in 1..Len(evidence["violation"])
  BY AlarmAtJudgement DEF Judging
<1>3. /\ evidence["violation"][1].at = AlarmedAt(1) + lag["violation"]
      /\ evidence["violation"][1].data = "message_age_exceeded"
  BY <1>2, AlarmsFromFirst
<1>4. /\ MaxAge + 1 + lag["violation"] <= WatchdogWithin
      /\ MaxAge + 1 + Period + lag["violation"] < Observation + Drain
  BY <1>1, RoomForAlarm
<1> DEFINE at == AlarmedAt(1) + lag["violation"]
<1>5. activation <= at /\ at <= activation + WatchdogWithin /\ at <= clock
  BY <1>1, <1>2, <1>4, Parameters, TrialTimes
<1>6. PICK i \in Evidence(d)!Of("violation") : Events[i] = evidence["violation"][1]
  BY <1>2, <1>3, <1>5, EventsOfKind DEF HeardFrom, Kinds, Judging, FaultInv
<1> QED
  BY <1>3, <1>5, <1>6

LEMMA DetectionIsFirst ==
    ASSUME Judging, NEW d
    PROVE  /\ Evidence(d)!WatchdogViolationDetected
           /\ Evidence(d)!Detection = AlarmedAt(1) + lag["violation"]
           /\ Evidence(d)!Detection # Evidence(d)!NoTime
<1> DEFINE at == AlarmedAt(1) + lag["violation"]
           I == Evidence(d)!After("violation", activation)
<1>1. PICK i \in Evidence(d)!Of("violation") :
               /\ Events[i].at = at
               /\ Events[i].data = "message_age_exceeded"
               /\ activation <= Events[i].at /\ Events[i].at <= activation + WatchdogWithin
  BY FirstAlarmHeard
<1>2. Evidence(d)!WatchdogViolationDetected
  <2>1. i \in Evidence(d)!Detections
    BY <1>1 DEF Evidence!Detections, Evidence!Between, Evidence!Activation
  <2> QED
    BY <2>1 DEF Evidence!WatchdogViolationDetected
<1>3. i \in I /\ I \subseteq Evidence(d)!Of("violation")
  BY <1>1 DEF Evidence!After
<1>4. I \in SUBSET (1..Len(Events)) /\ I # {}
  BY <1>3, EventsOfKind DEF Kinds, Judging, FaultInv
<1>5. Evidence(d)!Detection = Evidence(d)!First(I)
  BY DEF Evidence!Detection, Evidence!Activation
<1>6. \A j \in I : at <= Events[j].at
  <2> SUFFICES ASSUME NEW j \in I PROVE at <= Events[j].at
    OBVIOUS
  <2>1. PICK m \in 1..Len(evidence["violation"]) : Events[j] = evidence["violation"][m]
    <3>1. j \in Evidence(d)!Of("violation")
      BY <1>3
    <3> HIDE DEF I
    <3> QED
      BY <3>1, EventsOfKind DEF HeardFrom, Kinds, Judging, FaultInv
  <2>2. /\ Events[j].at = AlarmedAt(m) + lag["violation"]
        /\ AlarmedAt(m) \in Nat /\ AlarmedAt(1) <= AlarmedAt(m)
    BY <2>1, AlarmsFromFirst
  <2>3. AlarmedAt(1) \in Nat /\ lag["violation"] \in Nat
    BY AlarmAtJudgement, TimesOfJudgement DEF Judging, Kinds
  <2> QED
    BY <2>2, <2>3
<1> HIDE DEF I
<1>7. /\ Evidence(d)!First(I) \in Nat /\ Evidence(d)!First(I) # Evidence(d)!NoTime
      /\ \E j \in I : Evidence(d)!First(I) = Events[j].at
      /\ \A j \in I : Evidence(d)!First(I) <= Events[j].at
  BY <1>4, FirstIsLeast DEF Judging, FaultInv
<1>8. at \in Nat
  <2>1. AlarmedAt(1) \in Nat
    BY AlarmAtJudgement DEF Judging
  <2>2. lag["violation"] \in Nat
    BY TimesOfJudgement DEF Judging, Kinds
  <2> QED
    BY <2>1, <2>2
<1>9. Evidence(d)!First(I) = at
  <2> HIDE DEF at
  <2> QED
    BY <1>1, <1>3, <1>6, <1>7, <1>8
<1> QED
  BY <1>2, <1>5, <1>7, <1>9

\* What the alarm brings with it follows soon after its detection: of the checks from
\* the first on there is one that published it when the violation was heard, or the
\* first is heard of soon enough itself.
LEMMA AlarmFollows ==
    ASSUME Judging, NEW d, NEW k \in {"recovery", "command"}, NEW within \in Nat,
           lag[k] <= within + lag["violation"],
           NEW detected, detected = AlarmedAt(1) + lag["violation"]
    PROVE  \E i \in Evidence(d)!Of(k) :
               /\ detected <= Events[i].at /\ Events[i].at <= detected + within
               /\ k = "command" => Events[i].data = TRUE
<1> DEFINE first == AlarmedAt(1)
           lv == lag["violation"]
           lk == lag[k]
           t == IF lk < lv THEN first + lv - lk ELSE first
<1>1. /\ appliedAt \in Nat /\ activation \in Nat /\ appliedAt <= activation /\ clock \in Nat
      /\ lv \in Nat /\ lv \in Lags /\ lk \in Nat /\ lk \in Lags
      /\ activation + Observation + Drain <= clock
  BY TimesOfJudgement DEF Judging, Kinds
<1>2. /\ first \in Nat /\ first <= appliedAt + MaxAge + 1 /\ latched
  BY AlarmAtJudgement DEF Judging
<1>3. /\ MaxAge + 1 + Period + lv < Observation + Drain
      /\ MaxAge + 1 + Period + lk < Observation + Drain
  BY <1>1, RoomForAlarm
<1> HIDE DEF first, lv, lk
<1>4. /\ t \in Nat /\ first <= t /\ t < clock /\ t + lk <= clock
      /\ first + lv <= t + lk /\ t + lk <= first + lv + within
  <2>1. CASE lk < lv
    BY <1>1, <1>2, <1>3, <2>1, Parameters, TrialTimes
  <2>2. CASE ~(lk < lv)
    BY <1>1, <1>2, <1>3, <2>2, Parameters, TrialTimes DEF lk, lv
  <2> QED
    BY <2>1, <2>2
<1> HIDE DEF t
<1>5. PICK j \in 1..Len(evidence["violation"]) : AlarmedAt(j) = t
  BY <1>2, <1>4 DEF Judging, FaultInv, Stopping, first
<1>6. /\ j \in 1..Len(evidence[k]) /\ evidence[k][j].at = t + lk
      /\ k = "command" => evidence[k][j].data = TRUE
  <2>1. CASE k = "recovery"
    BY <1>5, <2>1 DEF Judging, FaultInv, Alarms, lk
  <2>2. CASE k = "command"
    BY <1>5, <2>2 DEF Judging, FaultInv, Alarms, lk
  <2> QED
    BY <2>1, <2>2
<1>7. k \in Kinds
  BY DEF Kinds
<1>8. PICK i \in Evidence(d)!Of(k) : Events[i] = evidence[k][j]
  <2>1. PICK place \in Nat : HeardFrom(d, k, place)
    BY <1>7, EventsOfKind DEF Judging, FaultInv
  <2>2. evidence[k][j].at <= clock
    BY <1>4, <1>6
  <2> QED
    BY <1>6, <2>1, <2>2 DEF HeardFrom
<1> QED
  BY <1>4, <1>6, <1>8 DEF first, lv

LEMMA RecoveryFollows ==
    ASSUME Judging, NEW d
    PROVE  Evidence(d)!RecoveryCommandPublished /\ Evidence(d)!RecoveryCommandObserved
<1> DEFINE detected == AlarmedAt(1) + lag["violation"]
<1>1. detected \in Nat
  <2>1. AlarmedAt(1) \in Nat
    BY AlarmAtJudgement DEF Judging
  <2>2. lag["violation"] \in Nat
    BY TimesOfJudgement DEF Judging, Kinds
  <2> QED
    BY <2>1, <2>2
<1>2. /\ lag["recovery"] <= CommandWithin + lag["violation"]
      /\ lag["command"] <= ObservedWithin + lag["violation"]
  <2>1. lag["recovery"] \in Lags /\ lag["command"] \in Lags /\ lag["violation"] \in Lags
    BY TimesOfJudgement DEF Judging, Kinds
  <2> QED
    BY <2>1, RoomForAlarm
<1> HIDE DEF detected
<1>3. ASSUME NEW I \in SUBSET (1..Len(Events)), NEW within \in Nat,
             \E i \in I : Events[i].at <= detected + within
      PROVE  Evidence(d)!First(I) # Evidence(d)!NoTime /\ Evidence(d)!First(I) - detected <= within
  <2>1. PICK i \in I : Events[i].at <= detected + within
    BY <1>3
  <2>2. Events[i].at \in Nat
    BY EventsOfKind DEF Kinds, Judging, FaultInv
  <2>3. /\ Evidence(d)!First(I) \in Nat /\ Evidence(d)!First(I) # Evidence(d)!NoTime
        /\ Evidence(d)!First(I) <= Events[i].at
    BY FirstIsLeast DEF Judging, FaultInv
  <2> QED
    BY <1>1, <2>1, <2>2, <2>3
<1> DEFINE R == Evidence(d)!After("recovery", detected)
           C == {i \in Evidence(d)!After("command", detected) : Events[i].data}
<1>4. R \in SUBSET (1..Len(Events)) /\ C \in SUBSET (1..Len(Events))
  BY EventsOfKind DEF Evidence!After, Kinds, Judging, FaultInv
<1>5. \E i \in R : Events[i].at <= detected + CommandWithin
  <2>1. PICK i \in Evidence(d)!Of("recovery") :
               detected <= Events[i].at /\ Events[i].at <= detected + CommandWithin
    BY <1>2, AlarmFollows, TrialTimes DEF detected
  <2> QED
    BY <2>1 DEF Evidence!After
<1>6. \E i \in C : Events[i].at <= detected + ObservedWithin
  <2>1. PICK i \in Evidence(d)!Of("command") :
               /\ detected <= Events[i].at /\ Events[i].at <= detected + ObservedWithin
               /\ Events[i].data = TRUE
    BY <1>2, AlarmFollows, TrialTimes DEF detected
  <2> QED
    BY <2>1 DEF Evidence!After
<1>7. Evidence(d)!Detection = detected /\ Evidence(d)!Detection # Evidence(d)!NoTime
  BY DetectionIsFirst DEF detected
<1> HIDE DEF R, C
<1>8. /\ Evidence(d)!First(R) # Evidence(d)!NoTime /\ Evidence(d)!First(R) - detected <= CommandWithin
      /\ Evidence(d)!First(C) # Evidence(d)!NoTime /\ Evidence(d)!First(C) - detected <= ObservedWithin
  BY <1>3, <1>4, <1>5, <1>6, TrialTimes
<1>9. Evidence(d)!RecoveryCommandPublished
  BY <1>7, <1>8 DEF Evidence!RecoveryCommandPublished, Evidence!Follows, R
<1>10. Evidence(d)!RecoveryCommandObserved
  BY <1>7, <1>8 DEF Evidence!RecoveryCommandObserved, Evidence!Follows, C
<1> QED
  BY <1>9, <1>10

-----------------------------------------------------------------------------
\* The samples of the robot as they are heard.
LEMMA SamplesHeard ==
    ASSUME Judging, NEW d
    PROVE  \E place \in Nat :
               /\ \A i \in Evidence(d)!Of("raw") :
                    /\ i - place \in 1..Len(evidence["raw"])
                    /\ Events[i].at = StampOf(i - place) + lag["raw"]
                    /\ Events[i].data = evidence["raw"][i - place].data
                    /\ Events[i].data.stamp = StampOf(i - place)
               /\ \A n \in Nat \ {0} :
                    StampOf(n) < clock /\ StampOf(n) + lag["raw"] <= clock =>
                        /\ place + n \in Evidence(d)!Of("raw")
                        /\ n \in 1..Len(evidence["raw"])
<1>1. PICK place \in Nat :
                /\ \A i \in Evidence(d)!Of("raw") :
                    /\ i - place \in 1..Len(evidence["raw"])
                    /\ Events[i] = evidence["raw"][i - place]
                /\ \A j \in 1..Len(evidence["raw"]) :
                    evidence["raw"][j].at <= clock => place + j \in Evidence(d)!Of("raw")
  BY EventsOfKind DEF HeardFrom, Kinds, Judging, FaultInv
<1>2. \A j \in 1..Len(evidence["raw"]) : /\ evidence["raw"][j].at = StampOf(j) + lag["raw"]
                                         /\ evidence["raw"][j].data.stamp = StampOf(j)
  BY DEF Judging, FaultInv, TrialInv, RawPublished
<1>3. \A n \in Nat \ {0} :
          StampOf(n) < clock /\ StampOf(n) + lag["raw"] <= clock =>
              place + n \in Evidence(d)!Of("raw") /\ n \in 1..Len(evidence["raw"])
  BY <1>1, <1>2, SampledByNow DEF Judging, FaultInv
<1> QED
  BY <1>1, <1>2, <1>3

\* A sample of the robot at rest is heard in time.
LEMMA RestIsHeard ==
    ASSUME Judging, NEW d
    PROVE  \E i \in Evidence(d)!Of("raw") :
               /\ Events[i].data.stopped /\ Events[i].at \in Nat
               /\ activation <= Events[i].at
               /\ Events[i].at <= activation + MaxAge + 1 + Period + lag["raw"]
<1> DEFINE first == AlarmedAt(1)
           lr == lag["raw"]
<1>1. /\ appliedAt \in Nat /\ activation \in Nat /\ clock \in Nat
      /\ appliedAt <= activation /\ activation <= appliedAt + 1
      /\ lr \in Nat /\ lr \in Lags
      /\ activation + Observation + Drain <= clock
  BY TimesOfJudgement DEF Judging, Kinds
<1>2. /\ first \in Nat /\ appliedAt < first /\ first <= appliedAt + MaxAge + 1 /\ latched
  BY AlarmAtJudgement DEF Judging
<1>3. MaxAge + 1 + Period + lr < Observation + Drain
  BY <1>1, RoomForAlarm
<1> HIDE DEF first
<1>4. PICK n \in Nat \ {0} : first + 1 <= StampOf(n) /\ StampOf(n) <= first + 1 + Period - 1
  BY <1>2, SampleInPeriod
<1>5. StampOf(n) \in Nat
  BY StampType
<1> HIDE DEF lr
<1>6. /\ StampOf(n) < clock /\ StampOf(n) + lr <= clock
      /\ activation <= StampOf(n) + lr
      /\ StampOf(n) + lr <= activation + MaxAge + 1 + Period + lr
      /\ StampOf(n) + lr \in Nat /\ StampOf(n) > first
  BY <1>1, <1>2, <1>3, <1>4, <1>5, Parameters, TrialTimes
<1>7. PICK place \in Nat :
               /\ \A i \in Evidence(d)!Of("raw") :
                    /\ i - place \in 1..Len(evidence["raw"])
                    /\ Events[i].at = StampOf(i - place) + lr
                    /\ Events[i].data = evidence["raw"][i - place].data
                    /\ Events[i].data.stamp = StampOf(i - place)
               /\ \A m \in Nat \ {0} :
                    StampOf(m) < clock /\ StampOf(m) + lr <= clock =>
                        /\ place + m \in Evidence(d)!Of("raw")
                        /\ m \in 1..Len(evidence["raw"])
  BY SamplesHeard DEF lr
<1>8. place + n \in Evidence(d)!Of("raw") /\ n \in 1..Len(evidence["raw"])
  BY <1>6, <1>7
<1>9. (place + n) - place = n
  BY <1>5
<1>10. /\ Events[place + n].at = StampOf(n) + lr
       /\ Events[place + n].data = evidence["raw"][n].data
       /\ evidence["raw"][n].data.stamp = StampOf(n)
  BY <1>7, <1>8, <1>9
<1>11. evidence["raw"][n].data.stopped
  BY <1>2, <1>6, <1>8, <1>10 DEF Judging, FaultInv, Stopping, first
<1> QED
  BY <1>6, <1>8, <1>10, <1>11 DEF lr

\* The stop is heard in time, and every sample received from then on is at rest.
LEMMA StopIsHeard ==
    ASSUME Judging, NEW d
    PROVE  /\ Evidence(d)!RobotStopped
           /\ Evidence(d)!StopTime \in Nat /\ Evidence(d)!StopTime # Evidence(d)!NoTime
           /\ Evidence(d)!StopTime + Hold <= clock
           /\ \A i \in Evidence(d)!Of("raw") :
                Events[i].at >= Evidence(d)!StopTime => Events[i].data.stopped
           /\ \E i \in Evidence(d)!Of("raw") : Events[i].at = Evidence(d)!StopTime
<1> DEFINE I == {i \in Evidence(d)!After("raw", activation) : Events[i].data.stopped}
           stop == Evidence(d)!StopTime
<1>1. /\ activation \in Nat /\ clock \in Nat /\ lag["raw"] \in Nat /\ lag["raw"] \in Lags
      /\ activation + Observation + Drain <= clock
  BY TimesOfJudgement DEF Judging, Kinds
<1>2. /\ MaxAge + 1 + Period + lag["raw"] <= RobotWithin
      /\ MaxAge + 1 + Period + lag["raw"] + Hold <= Observation + Drain
  BY <1>1, RoomForAlarm
<1>3. PICK r \in I : /\ Events[r].at \in Nat
                     /\ Events[r].at <= activation + MaxAge + 1 + Period + lag["raw"]
  BY RestIsHeard DEF Evidence!After
<1>4. I \subseteq Evidence(d)!Of("raw") /\ I \in SUBSET (1..Len(Events))
  BY EventsOfKind DEF Evidence!After, Kinds, Judging, FaultInv
<1>5. stop = Evidence(d)!First(I)
  BY DEF Evidence!StopTime, Evidence!Activation, Evidence!Stopped
<1> HIDE DEF I
<1>6. /\ stop \in Nat /\ stop # Evidence(d)!NoTime
      /\ \E i \in I : stop = Events[i].at
      /\ \A i \in I : stop <= Events[i].at
  BY <1>3, <1>4, <1>5, FirstIsLeast DEF Judging, FaultInv
<1>7. stop <= Events[r].at
  BY <1>6
<1>8. stop - activation <= RobotWithin /\ stop + Hold <= clock
  <2> HIDE DEF stop
  <2> QED
    BY <1>1, <1>2, <1>3, <1>6, <1>7, TrialTimes, Parameters
<1>9. Evidence(d)!RobotStopped
  BY <1>6, <1>8 DEF Evidence!RobotStopped, Evidence!Activation
<1>10. PICK q \in I : stop = Events[q].at
  BY <1>6
<1>11. Events[q].data.stopped /\ q \in Evidence(d)!Of("raw")
  BY <1>4 DEF I
<1>12. PICK place \in Nat :
            \A i \in Evidence(d)!Of("raw") :
                 /\ i - place \in 1..Len(evidence["raw"])
                 /\ Events[i].at = StampOf(i - place) + lag["raw"]
                 /\ Events[i].data = evidence["raw"][i - place].data
  BY SamplesHeard
<1>13. ASSUME NEW i \in Evidence(d)!Of("raw"), Events[i].at >= stop PROVE Events[i].data.stopped
  <2> DEFINE m == q - place
             n == i - place
  <2>1. /\ m \in 1..Len(evidence["raw"]) /\ n \in 1..Len(evidence["raw"])
        /\ Events[q].at = StampOf(m) + lag["raw"] /\ Events[i].at = StampOf(n) + lag["raw"]
        /\ Events[q].data = evidence["raw"][m].data
        /\ Events[i].data = evidence["raw"][n].data
    BY <1>11, <1>12
  <2> HIDE DEF m, n
  <2>2. Len(evidence["raw"]) \in Nat /\ m \in Nat \ {0} /\ n \in Nat \ {0}
    BY <2>1, Lengths DEF Judging, FaultInv, TrialInv, Kinds
  <2>3. StampOf(m) \in Nat /\ StampOf(n) \in Nat /\ StampOf(m) <= StampOf(n)
    BY <1>1, <1>10, <1>13, <2>1, <2>2, StampType
  <2>4. m <= n
    <3>1. SUFFICES ASSUME n + 1 <= m PROVE FALSE
      BY <2>2
    <3>2. StampOf(n + 1) <= StampOf(m)
      <4>1. n + 1 \in Nat \ {0} /\ m \in Nat
        BY <2>2
      <4> QED
        BY <3>1, <4>1, StampsGrow
    <3>3. StampOf(n + 1) = StampOf(n) + Period
      BY <2>2, StampsGrow
    <3> QED
      BY <2>3, <3>2, <3>3, Parameters
  <2>5. n \in m..Len(evidence["raw"])
    BY <2>1, <2>2, <2>4
  <2> QED
    BY <1>11, <2>1, <2>5 DEF Judging, FaultInv, TrialInv, RawPublished
<1> QED
  BY <1>6, <1>8, <1>9, <1>10, <1>11, <1>13

-----------------------------------------------------------------------------
\* The samples come one period apart until the hold is over.
LEMMA HoldIsUnbroken ==
    ASSUME Judging, NEW d
    PROVE  EP!HoldViolations(Evidence(d)!StopTime) = {}
<1> DEFINE stop == Evidence(d)!StopTime
           lr == lag["raw"]
           inHold == EP!Between("raw", stop, stop + Hold)
           end == stop + Hold
           marks == {Events[i].at : i \in inHold} \union {stop, end}
           raws == Evidence(d)!Of("raw")
<1>1. /\ stop \in Nat /\ end <= clock
      /\ \A i \in raws : Events[i].at >= stop => Events[i].data.stopped
      /\ \E i \in raws : Events[i].at = stop
  BY StopIsHeard
<1>2. /\ clock \in Nat /\ lr \in Nat /\ Hold \in Nat /\ Period \in Nat \ {0} /\ EP!MaxGap = 3 * Period
  BY TimesOfJudgement, TrialTimes, Parameters DEF Judging, Kinds, EP!MaxGap
<1>3. PICK place \in Nat :
               /\ \A i \in raws :
                    /\ i - place \in 1..Len(evidence["raw"])
                    /\ Events[i].at = StampOf(i - place) + lr
               /\ \A n \in Nat \ {0} :
                    StampOf(n) < clock /\ StampOf(n) + lr <= clock =>
                        place + n \in raws
  BY SamplesHeard
<1>4. inHold = {i \in raws : stop <= Events[i].at /\ Events[i].at <= end}
  BY DEF EP!Between, EP!Of, Evidence!Of
<1> HIDE DEF stop, lr, raws, inHold
<1>5. end \in Nat /\ stop <= end
  BY <1>1, <1>2
<1>6. \A i \in inHold : Events[i].data.stopped
  BY <1>1, <1>4
<1>7. ASSUME NEW t \in marks, t # end
      PROVE  \E u \in marks : u > t /\ u - t <= 3 * Period
  <2>1. PICK i \in raws : Events[i].at = t /\ stop <= t /\ t <= end
    BY <1>1, <1>4, <1>5, <1>7
  <2> DEFINE n == i - place
  <2>2. n \in Nat \ {0} /\ t = StampOf(n) + lr
    <3>1. n \in 1..Len(evidence["raw"]) /\ t = StampOf(n) + lr
      BY <1>3, <2>1
    <3>2. Len(evidence["raw"]) \in Nat
      BY Lengths DEF Judging, FaultInv, TrialInv, Kinds
    <3> HIDE DEF n
    <3> QED
      BY <3>1, <3>2
  <2> HIDE DEF n
  <2>3. StampOf(n) \in Nat /\ StampOf(n + 1) = StampOf(n) + Period /\ n + 1 \in Nat \ {0}
    <3>1. n \in Nat \ {0}
      BY <2>2
    <3>2. n \in Nat /\ n + 1 \in Nat \ {0}
      BY <3>1
    <3>3. StampOf(n) \in Nat
      BY <3>1, StampType
    <3>4. StampOf(n + 1) = StampOf(n) + Period
      BY <3>1, StampsGrow
    <3> QED
      BY <3>2, <3>3, <3>4
  <2>4. t \in Nat /\ t < end
    BY <1>2, <1>5, <1>7, <2>1, <2>2, <2>3
  <2>5. CASE t + Period <= end /\ StampOf(n + 1) < clock
    <3> DEFINE j == place + (n + 1)
    <3>1. StampOf(n + 1) + lr = t + Period /\ StampOf(n + 1) + lr <= clock
      BY <1>1, <1>2, <1>5, <2>2, <2>3, <2>4, <2>5
    <3>2. j \in raws /\ j - place = n + 1
      BY <1>3, <2>3, <2>5, <3>1
    <3> HIDE DEF j
    <3>3. Events[j].at = t + Period
      BY <1>3, <3>1, <3>2
    <3>4. j \in inHold
      <4>1. stop <= t + Period
        BY <1>1, <1>2, <2>1, <2>4
      <4> QED
        BY <1>4, <2>5, <3>2, <3>3, <4>1
    <3>5. t + Period \in marks
      BY <3>3, <3>4
    <3>6. t + Period > t /\ (t + Period) - t <= 3 * Period
      BY <1>2, <2>4
    <3> HIDE DEF marks
    <3> QED
      BY <3>5, <3>6
  <2>6. CASE ~(t + Period <= end /\ StampOf(n + 1) < clock)
    <3>1. end - t <= Period
      BY <1>1, <1>2, <1>5, <2>2, <2>3, <2>4, <2>6
    <3>2. end > t /\ end - t <= 3 * Period
      BY <1>2, <1>5, <2>4, <3>1
    <3>3. end \in marks
      OBVIOUS
    <3> HIDE DEF marks, end
    <3> QED
      BY <3>2, <3>3
  <2> QED
    BY <2>5, <2>6
<1>8. marks \subseteq Int
  <2>1. \A i \in inHold : Events[i].at \in Nat
    BY <1>4, EventsOfKind DEF raws, Kinds, Judging, FaultInv
  <2> QED
    BY <1>1, <1>5, <2>1
<1>9. ASSUME NEW t \in EP!HoldViolations(stop) PROVE FALSE
  <2>1. \/ \E i \in inHold : ~EP!Stopped(i) /\ t = Events[i].at
        \/ t \in marks /\ t # end /\ \A u \in marks : u > t => u - t > EP!MaxGap
    BY <1>9 DEF EP!HoldViolations, inHold
  <2>2. \A i \in inHold : EP!Stopped(i)
    BY <1>6 DEF EP!Stopped
  <2>3. t \in marks /\ t # end /\ \A u \in marks : u > t => u - t > 3 * Period
    BY <1>2, <2>1, <2>2
  <2>4. PICK u \in marks : u > t /\ u - t <= 3 * Period
    BY <1>7, <2>3
  <2>5. u - t > 3 * Period /\ u \in Int /\ t \in Int
    BY <1>8, <2>3, <2>4
  <2> HIDE DEF marks
  <2> QED
    BY <1>2, <2>4, <2>5
<1> QED
  BY <1>9 DEF stop

\* The list of events has the samples of the robot in order.
LEMMA SamplesStayInOrder ==
    ASSUME TrialInv PROVE EP!SamplesInOrder
<1>1. /\ Len(Events) \in Nat /\ DOMAIN Events = 1..Len(Events)
      /\ \A i \in 1..Len(Events) : Events[i].at \in Nat
  BY EventsOfKind DEF Kinds
<1>2. EP!Of("raw") = Evidence(0)!Of("raw")
  BY DEF EP!Of, Evidence!Of
<1>3. PICK place \in Nat : \A i \in EP!Of("raw") :
            i - place \in 1..Len(evidence["raw"]) /\ Events[i] = evidence["raw"][i - place]
  BY <1>2, EventsOfKind DEF HeardFrom, Kinds
<1>4. \A m \in 1..Len(evidence["raw"]) : \A n \in m..Len(evidence["raw"]) :
            evidence["raw"][m].at <= evidence["raw"][n].at
  BY DEF TrialInv, InTime, Kinds
<1>5. ASSUME NEW i \in EP!Of("raw"), NEW j \in EP!Of("raw"), i <= j
      PROVE  Events[i].at <= Events[j].at
  <2> DEFINE m == i - place
             n == j - place
  <2>1. /\ m \in 1..Len(evidence["raw"]) /\ n \in 1..Len(evidence["raw"])
        /\ Events[i] = evidence["raw"][m] /\ Events[j] = evidence["raw"][n]
    BY <1>3
  <2>2. i \in Int /\ j \in Int
    BY <1>1, <1>2, EventsOfKind DEF Kinds
  <2>3. m <= n
    BY <1>5, <2>2
  <2>4. Len(evidence["raw"]) \in Nat
    BY Lengths DEF TrialInv, Kinds
  <2> HIDE DEF m, n
  <2>5. n \in m..Len(evidence["raw"])
    BY <2>1, <2>3, <2>4
  <2> QED
    BY <1>4, <2>1, <2>5
<1> QED
  BY <1>1, <1>5 DEF EP!SamplesInOrder

LEMMA StopIsHeld ==
    ASSUME Judging, NEW d
    PROVE  Evidence(d)!RobotStopped /\ Evidence(d)!RobotStoppedHeld
<1> DEFINE stop == Evidence(d)!StopTime
<1>1. stop \in Nat /\ stop # Evidence(d)!NoTime /\ Evidence(d)!RobotStopped
  BY StopIsHeard
<1>2. EP!HoldBrokenAt(stop) = EP!FirstViolation(stop)
  BY <1>1, SamplesStayInOrder, EP!BrokenIsFirst, EvidenceParameters DEF Judging, FaultInv
<1>3. EP!HoldViolations(stop) = {}
  BY HoldIsUnbroken
<1>4. EP!HoldBrokenAt(stop) = EP!NoTime
  BY <1>2, <1>3 DEF EP!FirstViolation
<1> HIDE DEF stop
<1>5. Evidence(d)!HoldBrokenAt(stop) = EP!HoldBrokenAt(stop)
  BY DEF Evidence!HoldBrokenAt, EP!HoldBrokenAt, Evidence!HoldScan, EP!HoldScan, Evidence!HoldStep,
     EP!HoldStep, Evidence!Between, EP!Between, Evidence!Of, EP!Of, Evidence!MaxGap, EP!MaxGap,
     Evidence!NoTime, EP!NoTime
<1>6. Evidence(d)!HoldBrokenAt(stop) = Evidence(d)!NoTime
  BY <1>4, <1>5 DEF EP!NoTime, Evidence!NoTime
<1> QED
  BY <1>1, <1>6 DEF Evidence!RobotStoppedHeld, stop

-----------------------------------------------------------------------------
(* The fault shows within its window. *)

WindowEnd == activation + FaultWithin

\* The times of the window are past, and the fault was not withdrawn in it.
LEMMA TimesOfWindow ==
    ASSUME Judging
    PROVE  /\ activation \in Nat /\ appliedAt \in Nat /\ withdrawnAt \in Nat /\ clock \in Nat
           /\ WindowEnd \in Nat
           /\ appliedAt <= activation /\ activation <= appliedAt + 1
           /\ WindowEnd < withdrawnAt /\ withdrawnAt <= clock
           /\ \A t \in Nat : t <= WindowEnd => Still(t) /\ t < clock
           /\ \A k \in Kinds : /\ lag[k] \in Nat /\ lag[k] \in Lags
                               /\ activation + (2 * Period - 1) + lag[k] <= WindowEnd
           /\ lag["raw"] <= activation
<1>1. /\ activation \in Nat /\ appliedAt \in Nat /\ withdrawnAt \in Nat /\ clock \in Nat
      /\ appliedAt <= activation /\ activation <= appliedAt + 1
      /\ activation + FaultWithin < withdrawnAt /\ withdrawnAt <= clock
      /\ lag["raw"] <= activation
      /\ \A k \in Kinds : lag[k] \in Lags /\ lag[k] \in Nat
  BY TimesOfJudgement DEF Judging
<1>2. FaultWithin \in Nat
  BY DeadlinesAssumption
<1>3. WindowEnd \in Nat /\ WindowEnd < withdrawnAt
  BY <1>1, <1>2 DEF WindowEnd
<1>4. \A t \in Nat : t <= WindowEnd => Still(t) /\ t < clock
  BY <1>1, <1>3 DEF Still
<1>5. ASSUME NEW k \in Kinds PROVE activation + (2 * Period - 1) + lag[k] <= WindowEnd
  <2>1. lag[k] \in Lags /\ lag[k] \in Nat
    BY <1>1
  <2>2. 2 * Period + lag[k] <= FaultWithin + 1
    BY <2>1 DEF Judging, LeavesRoom
  <2> QED
    BY <1>1, <1>2, <2>1, <2>2, Parameters DEF WindowEnd
<1> QED
  BY <1>1, <1>3, <1>4, <1>5

LEMMA WindowsAreFinite ==
    ASSUME TrialInv, NEW d, NEW k \in Kinds
    PROVE  /\ Evidence(d)!FaultWindow(k) \in SUBSET (1..Len(Events))
           /\ Len(Events) \in Nat
           /\ IsFiniteSet(Evidence(d)!FaultWindow(k))
           /\ Evidence(d)!FaultWindow(k) = {i \in Evidence(d)!Of(k) :
                    activation <= Events[i].at /\ Events[i].at <= WindowEnd}
<1> DEFINE window == Evidence(d)!FaultWindow(k)
           last == Len(Events)
<1>1. window = {i \in Evidence(d)!Of(k) :
                    activation <= Events[i].at /\ Events[i].at <= WindowEnd}
  BY DEF Evidence!FaultWindow, Evidence!Between, Evidence!Activation, WindowEnd
<1>2. last \in Nat /\ window \in SUBSET (1..last)
  BY <1>1, EventsOfKind
<1> HIDE DEF window, last
<1>3. IsFiniteSet(1..last)
  BY <1>2, FS_Interval
<1>4. IsFiniteSet(window)
  BY <1>2, <1>3, FS_Subset
<1> QED
  BY <1>1, <1>2, <1>4 DEF window, last

\* A sample that is due in the window is heard in it.
LEMMA SamplesOfWindow ==
    ASSUME Judging, NEW d
    PROVE  \E place \in Nat :
               /\ \A i \in Evidence(d)!FaultWindow("raw") :
                    i - place \in Nat \ {0} /\ Events[i].data.stamp = StampOf(i - place)
               /\ \A n \in Nat \ {0} :
                    activation <= StampOf(n) + lag["raw"] /\ StampOf(n) + lag["raw"] <= WindowEnd =>
                        /\ place + n \in Evidence(d)!FaultWindow("raw")
                        /\ Events[place + n].data.stamp = StampOf(n)
                        /\ Events[place + n].at = StampOf(n) + lag["raw"]
                        /\ n \in 1..Len(evidence["raw"])
<1> DEFINE lr == lag["raw"]
<1>1. PICK place \in Nat :
               /\ \A i \in Evidence(d)!Of("raw") :
                    /\ i - place \in 1..Len(evidence["raw"])
                    /\ Events[i].at = StampOf(i - place) + lr
                    /\ Events[i].data.stamp = StampOf(i - place)
               /\ \A n \in Nat \ {0} :
                    StampOf(n) < clock /\ StampOf(n) + lr <= clock =>
                        /\ place + n \in Evidence(d)!Of("raw")
                        /\ n \in 1..Len(evidence["raw"])
  BY SamplesHeard
<1>2. /\ Len(evidence["raw"]) \in Nat /\ clock \in Nat /\ lr \in Nat /\ WindowEnd \in Nat
      /\ WindowEnd < clock
      /\ Evidence(d)!FaultWindow("raw") = {i \in Evidence(d)!Of("raw") :
                    activation <= Events[i].at /\ Events[i].at <= WindowEnd}
  <2>1. TrialInv /\ Published /\ "raw" \in Kinds
    BY DEF Judging, FaultInv, TrialInv, Kinds
  <2>2. Len(evidence["raw"]) \in Nat
    BY <2>1, Lengths
  <2>3. clock \in Nat /\ lr \in Nat /\ WindowEnd \in Nat /\ WindowEnd < clock
    BY <2>1, TimesOfWindow
  <2>4. Evidence(d)!FaultWindow("raw") = {i \in Evidence(d)!Of("raw") :
                    activation <= Events[i].at /\ Events[i].at <= WindowEnd}
    BY <2>1, WindowsAreFinite
  <2> QED
    BY <2>2, <2>3, <2>4
<1> HIDE DEF lr
<1>3. ASSUME NEW i \in Evidence(d)!FaultWindow("raw")
      PROVE  i - place \in Nat \ {0} /\ Events[i].data.stamp = StampOf(i - place)
  <2> DEFINE n == i - place
  <2>1. n \in 1..Len(evidence["raw"]) /\ Events[i].data.stamp = StampOf(n)
    BY <1>1, <1>2
  <2> HIDE DEF n
  <2>2. n \in Nat \ {0} /\ Events[i].data.stamp = StampOf(n)
    BY <1>2, <2>1
  <2> QED
    BY <2>2 DEF n
<1>4. ASSUME NEW n \in Nat \ {0}, activation <= StampOf(n) + lr, StampOf(n) + lr <= WindowEnd
      PROVE  /\ place + n \in Evidence(d)!FaultWindow("raw")
             /\ Events[place + n].data.stamp = StampOf(n)
             /\ Events[place + n].at = StampOf(n) + lr
             /\ n \in 1..Len(evidence["raw"])
  <2>1. StampOf(n) \in Nat /\ StampOf(n) < clock /\ StampOf(n) + lr <= clock
    BY <1>2, <1>4, StampType
  <2>2. place + n \in Evidence(d)!Of("raw") /\ n \in 1..Len(evidence["raw"])
    BY <1>1, <2>1
  <2> DEFINE i == place + n
  <2>3. i - place = n
    OBVIOUS
  <2>4. i \in Evidence(d)!Of("raw")
    BY <2>2
  <2> HIDE DEF i
  <2>5. Events[i].at = StampOf(n) + lr /\ Events[i].data.stamp = StampOf(n)
    BY <1>1, <2>3, <2>4
  <2>6. i \in Evidence(d)!FaultWindow("raw")
    BY <1>2, <1>4, <2>4, <2>5
  <2> QED
    BY <2>2, <2>5, <2>6 DEF i
<1> QED
  BY <1>3, <1>4 DEF lr

\* From this place on the list of events has, of the messages of that kind, those that
\* are due in the window, and no others that were received in it.
WindowFrom(d, k, place) ==
    /\ \A i \in Evidence(d)!FaultWindow(k) :
        /\ i - place \in 1..Len(evidence[k])
        /\ Events[i] = evidence[k][i - place]
        /\ activation <= Events[i].at /\ Events[i].at <= WindowEnd
    /\ \A j \in 1..Len(evidence[k]) :
        activation <= evidence[k][j].at /\ evidence[k][j].at <= WindowEnd =>
            /\ place + j \in Evidence(d)!FaultWindow(k)
            /\ Events[place + j] = evidence[k][j]

LEMMA MessagesOfWindow ==
    ASSUME Judging, NEW d, NEW k \in Kinds
    PROVE  \E place \in Nat : WindowFrom(d, k, place)
<1>0. TrialInv
  BY DEF Judging, FaultInv
<1>1. PICK place \in Nat : HeardFrom(d, k, place)
  BY <1>0, EventsOfKind
<1>2. Evidence(d)!FaultWindow(k) = {i \in Evidence(d)!Of(k) :
                    activation <= Events[i].at /\ Events[i].at <= WindowEnd}
  BY <1>0, WindowsAreFinite
<1>3. ASSUME NEW j \in 1..Len(evidence[k]),
             activation <= evidence[k][j].at, evidence[k][j].at <= WindowEnd
      PROVE  /\ place + j \in Evidence(d)!FaultWindow(k)
             /\ Events[place + j] = evidence[k][j]
  <2>1. evidence[k] \in Seq(Messages(k))
    BY DEF Judging, FaultInv, TrialInv, Published
  <2>2. evidence[k][j] \in Messages(k)
    BY <2>1
  <2>3. evidence[k][j].at \in Nat
    BY <2>2 DEF Messages
  <2>4. evidence[k][j].at <= clock
    BY <1>3, <2>3, TimesOfWindow
  <2> QED
    BY <1>1, <1>2, <1>3, <2>4 DEF HeardFrom
<1> QED
  BY <1>1, <1>2, <1>3 DEF HeardFrom, WindowFrom

\* The fault as it was when the trial is over.
LEMMA AffectedStream ==
    ASSUME Judging
    PROVE  \E n \in Nat \ {0} :
               /\ Affected(n) /\ n \in 1..received
               /\ StampOf(n) \in Nat /\ StampOf(n + 1) = StampOf(n) + Period
               /\ StampOf(n) <= activation /\ activation <= StampOf(n) + Period + 1
               /\ appliedAt <= StampOf(n + 1) /\ StampOf(n) <= appliedAt
<1>1. /\ appliedAt \in Nat /\ activation \in Nat
      /\ appliedAt <= activation /\ activation <= appliedAt + 1
  BY TimesOfWindow
<1>2. appliedAt # NoTime /\ Detectable
  BY <1>1 DEF NoTime, Judging
<1>3. PICK n \in 1..received : Affected(n)
  BY <1>2 DEF Judging, FaultInv, Shown
<1>4. received \in Nat
  BY LoopTypes DEF Judging, FaultInv, TrialInv
<1>5. n \in Nat \ {0}
  BY <1>4
<1>6. StampOf(n) <= appliedAt /\ appliedAt <= StampOf(n) + Period
  BY <1>3 DEF Affected, LastPlain
<1>7. StampOf(n) \in Nat /\ StampOf(n + 1) = StampOf(n) + Period
  BY <1>5, StampType, StampsGrow
<1> QED
  BY <1>1, <1>3, <1>5, <1>6, <1>7, Parameters

\* Another one is in the larger set.
LEMMA FewerThan ==
    ASSUME NEW F, NEW R, IsFiniteSet(F), IsFiniteSet(R), F \subseteq Int,
           NEW k \in Int, NEW x \in R, \A e \in F : e + k \in R /\ e + k # x
    PROVE  Cardinality(F) < Cardinality(R)
<1> DEFINE G == {e + k : e \in F}
           f == [e \in F |-> e + k]
<1>1. f \in Surjection(F, G) /\ f \in Injection(F, G)
  <2>1. f \in Surjection(F, G)
    BY DEF Surjection
  <2>2. \A a, b \in F : a + k = b + k => a = b
    OBVIOUS
  <2>3. f \in Injection(F, G)
    BY <2>2 DEF Injection, IsInjective
  <2> QED
    BY <2>1, <2>3
<1>2. x \notin G /\ G \union {x} \subseteq R /\ G \subseteq R
  OBVIOUS
<1> HIDE DEF G, f
<1>3. Cardinality(F) = Cardinality(G)
  BY <1>1, FS_Surjection
<1>4. IsFiniteSet(G)
  BY <1>2, FS_Subset
<1>5. Cardinality(G \union {x}) = Cardinality(G) + 1 /\ IsFiniteSet(G \union {x})
  BY <1>2, <1>4, FS_AddElement
<1>6. Cardinality(G \union {x}) <= Cardinality(R)
  BY <1>2, FS_Subset
<1>7. Cardinality(G) \in Nat /\ Cardinality(R) \in Nat
  BY <1>4, FS_CardinalityType
<1> QED
  BY <1>3, <1>5, <1>6, <1>7

\* In a window with the last sample that went through, the raw stream has more.
LEMMA FewerFaulted ==
    ASSUME Judging, fault.faultType = "dropout", NEW d
    PROVE  /\ Evidence(d)!FaultWindow("raw") # {}
           /\ Cardinality(Evidence(d)!FaultWindow("faulted"))
                < Cardinality(Evidence(d)!FaultWindow("raw"))
<1> DEFINE A == activation
           lr == lag["raw"]
           lf == lag["faulted"]
           F == Evidence(d)!FaultWindow("faulted")
           R == Evidence(d)!FaultWindow("raw")
           t == IF lf <= A THEN A - lf ELSE 0
<1>1. /\ A \in Nat /\ lr \in Nat /\ lf \in Nat /\ lr <= A /\ WindowEnd \in Nat
      /\ A + (2 * Period - 1) + lr <= WindowEnd
      /\ A + (2 * Period - 1) + lf <= WindowEnd
      /\ Period \in Nat \ {0} /\ withdrawnAt \in Nat /\ WindowEnd < withdrawnAt
  BY TimesOfWindow, Parameters DEF Kinds
<1>2. IsFiniteSet(F) /\ IsFiniteSet(R) /\ F \subseteq Int
  BY WindowsAreFinite DEF Kinds, Judging, FaultInv
<1>3. PICK n \in Nat \ {0} :
               /\ Affected(n)
               /\ StampOf(n) \in Nat /\ StampOf(n + 1) = StampOf(n) + Period
               /\ StampOf(n) <= A
  BY AffectedStream
<1>4. PICK place \in Nat :
               \A m \in Nat \ {0} :
                    A <= StampOf(m) + lr /\ StampOf(m) + lr <= WindowEnd => place + m \in R
  BY SamplesOfWindow
<1>5. PICK origin \in Nat :
               \A i \in F :
                    /\ i - origin \in 1..Len(evidence["faulted"])
                    /\ Events[i] = evidence["faulted"][i - origin]
                    /\ A <= Events[i].at /\ Events[i].at <= WindowEnd
  BY MessagesOfWindow DEF WindowFrom, Kinds
<1> HIDE DEF A, lr, lf, F, R
<1>6. A - lr \in Nat /\ t \in Nat /\ t >= A - lf
  BY <1>1
<1>7. PICK r \in Nat \ {0} : A - lr <= StampOf(r) /\ StampOf(r) <= (A - lr) + Period - 1
  BY <1>6, SampleInPeriod
<1> HIDE DEF t
<1>8. PICK i0 \in Nat \ {0} :
          t <= StampOf(i0) /\ \A m \in Nat \ {0} : t <= StampOf(m) => i0 <= m
  BY <1>6, SampleInPeriod
<1>9. StampOf(r) \in Nat /\ StampOf(i0) \in Nat
  BY StampType
<1>10. place + r \in R
  BY <1>1, <1>4, <1>7, <1>9
\* A message in its window was made of a sample that went through.
<1>11. ASSUME NEW i \in F
       PROVE  i - origin \in Nat /\ i0 <= i - origin /\ i - origin <= n
  <2> DEFINE m == i - origin
  <2>1. /\ m \in 1..Len(evidence["faulted"]) /\ Events[i] = evidence["faulted"][m]
        /\ A <= evidence["faulted"][m].at /\ evidence["faulted"][m].at <= WindowEnd
    BY <1>5
  <2> HIDE DEF m
  <2>2. m \in Nat \ {0}
    BY <2>1, Lengths DEF Judging, FaultInv, TrialInv, Kinds
  <2>3. evidence["faulted"][m].at \in Nat
    <3>1. evidence["faulted"] \in Seq(Messages("faulted"))
      BY DEF Judging, FaultInv, TrialInv, Published, Kinds
    <3>2. evidence["faulted"][m] \in Messages("faulted")
      BY <2>1, <3>1
    <3> QED
      BY <3>2 DEF Messages
  <2>4. m <= n
    <3>1. SUFFICES ASSUME m > n PROVE FALSE
      BY <2>2
    <3>2. evidence["faulted"][m].at >= withdrawnAt + lf
      BY <1>3, <2>1, <3>1 DEF Affected, DropsAfter, lf
    <3> QED
      BY <1>1, <2>1, <2>3, <3>2
  <2>5. evidence["faulted"][m].at = StampOf(m) + lf
    BY <1>3, <2>2, <2>4 DEF Affected, LastPlain, lf
  <2>6. StampOf(m) \in Nat
    BY <2>2, StampType
  <2>7. t <= StampOf(m)
    BY <1>1, <2>1, <2>5, <2>6 DEF t
  <2>8. i0 <= m
    BY <1>8, <2>2, <2>7
  <2> QED
    BY <2>2, <2>4, <2>8 DEF m
<1>12. CASE i0 > n
  <2>1. F = {}
    BY <1>11, <1>12
  <2> QED
    BY <1>2, <1>10, <2>1, FewerThan DEF F, R
<1>13. CASE i0 <= n
  \* As many samples after the first one in its window are in theirs, ...
  <2>1. ASSUME NEW j \in Nat, i0 + j <= n + 1
        PROVE  place + (r + j) \in R
    <3>1. StampOf(r + j) = StampOf(r) + j * Period /\ j * Period \in Nat
      BY StampsGrow
    <3>2. StampOf(i0 + j) = StampOf(i0) + j * Period
      BY StampsGrow
    <3>3. StampOf(i0 + j) <= StampOf(n + 1)
      <4>1. i0 + j \in Nat \ {0} /\ n + 1 \in Nat
        OBVIOUS
      <4> QED
        BY <2>1, <4>1, StampsGrow
    <3> DEFINE p == j * Period
               s == r + j
    <3>4. p \in Nat /\ s \in Nat \ {0} /\ StampOf(s) = StampOf(r) + p
          /\ StampOf(i0) + p <= StampOf(n) + Period
      BY <1>3, <3>1, <3>2, <3>3
    <3> HIDE DEF p, s
    <3>5. A <= StampOf(s) + lr
      BY <1>1, <1>7, <1>9, <3>4
    <3>6. StampOf(s) + lr <= WindowEnd
      BY <1>1, <1>3, <1>6, <1>7, <1>8, <1>9, <3>4
    <3>7. place + s \in R
      BY <1>4, <3>4, <3>5, <3>6
    <3> QED
      BY <3>7 DEF s
  \* ... and the next one is, too.
  <2> DEFINE k == place + r - i0 - origin
             x == place + (r + (n + 1 - i0))
  <2>2. k \in Int /\ n + 1 - i0 \in Nat /\ i0 + (n + 1 - i0) <= n + 1
    BY <1>13
  <2>3. x \in R
    BY <2>1, <2>2
  <2>4. ASSUME NEW e \in F PROVE e + k \in R /\ e + k # x
    <3> DEFINE j == e - origin - i0
    <3>1. e \in Int /\ e - origin \in Nat /\ i0 <= e - origin /\ e - origin <= n
      BY <1>2, <1>11
    <3>2. j \in Nat /\ i0 + j <= n + 1
      BY <3>1
    <3>3. place + (r + j) \in R
      BY <2>1, <3>2
    <3>4. e + k = place + (r + j) /\ e + k # x
      BY <3>1
    <3> QED
      BY <3>3, <3>4
  <2> HIDE DEF k, x
  <2>5. Cardinality(F) < Cardinality(R)
    BY <1>2, <2>2, <2>3, <2>4, FewerThan
  <2> QED
    BY <1>10, <2>5 DEF F, R
<1> QED
  BY <1>12, <1>13

-----------------------------------------------------------------------------
\* Each fault shows itself as its assertion has it.
LEMMA DropoutShows ==
    ASSUME Judging, fault.faultType = "dropout", NEW d
    PROVE  Evidence(d)!DropoutObservable
<1> DEFINE C == Evidence(d)!FaultWindow("counters")
           lc == lag["counters"]
<1>1. /\ activation \in Nat /\ lc \in Nat /\ WindowEnd \in Nat
      /\ activation + (2 * Period - 1) + lc <= WindowEnd
      /\ \A t \in Nat : t <= WindowEnd => Still(t) /\ t < clock
  BY TimesOfWindow DEF Kinds
<1>2. PICK n \in Nat \ {0} :
               /\ Affected(n)
               /\ StampOf(n) \in Nat /\ StampOf(n + 1) = StampOf(n) + Period
               /\ StampOf(n) <= activation
  BY AffectedStream
<1> HIDE DEF lc
<1>3. PICK j \in Nat \ {0} :
          /\ j > n /\ StampOf(j) \in Nat
          /\ activation <= StampOf(j) /\ StampOf(j) <= activation + Period
  <2>0. n + 1 \in Nat \ {0} /\ (n + 1) + 1 \in Nat \ {0}
    OBVIOUS
  <2>1. CASE activation <= StampOf(n + 1)
    BY <1>1, <1>2, <2>0, <2>1, Parameters
  <2>2. CASE StampOf(n + 1) < activation
    <3>1. PICK j \in Nat \ {0} : activation <= StampOf(j) /\ StampOf(j) <= activation + Period - 1
      BY <1>1, SampleInPeriod
    <3>2. StampOf(j) \in Nat
      BY StampType
    <3>3. j > n
      <4>1. SUFFICES ASSUME j <= n PROVE FALSE
        OBVIOUS
      <4>2. StampOf(j) <= StampOf(n)
        BY <4>1, StampsGrow
      <4> QED
        BY <1>1, <1>2, <2>2, <3>1, <3>2, <4>2, Parameters
    <3> QED
      BY <1>1, <3>1, <3>2, <3>3, Parameters
  <2> QED
    BY <1>1, <1>2, <2>1, <2>2, Parameters
<1>4. StampOf(j) + lc <= WindowEnd /\ StampOf(j) <= WindowEnd /\ activation <= StampOf(j) + lc
  BY <1>1, <1>3, Parameters
<1>5. Still(StampOf(j)) /\ StampOf(j) < clock
  BY <1>1, <1>3, <1>4
<1>6. j \in 1..received
  BY <1>5, SampledByNow DEF Judging, FaultInv
<1>7. PICK i \in 1..Len(evidence["counters"]) :
               /\ evidence["counters"][i].at = StampOf(j) + lc
               /\ evidence["counters"][i].data > 0
  BY <1>2, <1>3, <1>5, <1>6 DEF Affected, DropsAfter, lc
<1>a. PICK place \in Nat : WindowFrom(d, "counters", place)
  BY MessagesOfWindow DEF Kinds
<1>8. /\ \A e \in C :
           /\ e - place \in 1..Len(evidence["counters"])
           /\ Events[e] = evidence["counters"][e - place]
      /\ \A m \in 1..Len(evidence["counters"]) :
           activation <= evidence["counters"][m].at /\ evidence["counters"][m].at <= WindowEnd =>
               /\ place + m \in C
               /\ Events[place + m] = evidence["counters"][m]
  BY <1>a DEF WindowFrom
<1>9. place + i \in C
  BY <1>4, <1>7, <1>8
<1>10. C \in SUBSET (1..Len(Events)) /\ Len(Events) \in Nat
  BY WindowsAreFinite DEF Kinds, Judging, FaultInv
<1> DEFINE last == Evidence(d)!Max(C)
<1> HIDE DEF C
<1>11. last \in C /\ last >= place + i
  BY <1>9, <1>10, LastOfIndices
<1>12. Events[last].data > 0
  <2> DEFINE m == last - place
  <2>1. m \in 1..Len(evidence["counters"]) /\ Events[last] = evidence["counters"][m]
    BY <1>8, <1>11
  <2>2. last \in Int /\ Len(evidence["counters"]) \in Nat
    <3>1. last \in Int
      <4> HIDE DEF last
      <4> QED
        BY <1>10, <1>11
    <3> QED
      BY <3>1, Lengths DEF Judging, FaultInv, TrialInv, Kinds
  <2>3. i <= m
    BY <1>11, <2>2
  <2> HIDE DEF m, last
  <2>4. m \in i..Len(evidence["counters"])
    BY <2>1, <2>2, <2>3
  <2>5. /\ evidence["counters"][i].data \in Nat /\ evidence["counters"][m].data \in Nat
        /\ evidence["counters"][i].data <= evidence["counters"][m].data
    BY <2>1, <2>4 DEF Judging, FaultInv, Counted
  <2> QED
    BY <1>7, <2>1, <2>5
<1>13. /\ Evidence(d)!FaultWindow("raw") # {}
       /\ Cardinality(Evidence(d)!FaultWindow("faulted"))
            < Cardinality(Evidence(d)!FaultWindow("raw"))
  BY FewerFaulted
<1>14. \A S : Evidence(d)!Cardinality(S) = Cardinality(S)
  BY Zenon DEF Evidence!Cardinality, Cardinality
<1>15. /\ C # {} /\ Events[Evidence(d)!Max(C)].data > 0
       /\ Evidence(d)!Cardinality(Evidence(d)!FaultWindow("faulted"))
            < Evidence(d)!Cardinality(Evidence(d)!FaultWindow("raw"))
  BY <1>9, <1>12, <1>13, <1>14
<1> QED
  BY <1>13, <1>15 DEF Evidence!DropoutObservable, C

\* What is delayed that long is heard that much later than the raw sample.
LEMMA DelayIsHeard ==
    ASSUME NEW s \in Nat, NEW d \in Nat, NEW j \in Nat, NEW lr \in Nat, NEW lf \in Nat,
           NEW at \in Nat, Tolerance \in Nat,
           s + d - j + lf <= at, j + lr <= Tolerance + lf, j + lr <= d + lf
    PROVE  at - (s + lr) >= d - Tolerance /\ at - (s + lr) >= 0
OBVIOUS

LEMMA LatencyShows ==
    ASSUME Judging, fault.faultType = "latency", NEW d, d = fault.delay
    PROVE  Evidence(d)!LatencyObservable
<1> DEFINE lr == lag["raw"]
           lf == lag["faulted"]
<1>1. /\ activation \in Nat /\ lr \in Nat /\ lf \in Nat /\ WindowEnd \in Nat /\ clock \in Nat
      /\ lr \in Lags /\ lf \in Lags /\ appliedAt \in Nat
      /\ activation <= appliedAt + 1 /\ appliedAt <= activation
      /\ activation + (2 * Period - 1) + lr <= WindowEnd
      /\ \A t \in Nat : t <= WindowEnd => Still(t) /\ t < clock
  BY TimesOfWindow DEF Kinds
<1>2. /\ d \in Nat /\ fault.jitter \in Nat /\ fault \in Faults /\ Tolerance \in Nat
      /\ FaultWithin \in Nat
  BY TimesOfJudgement, DeadlinesAssumption DEF Judging
<1>3. /\ Period + d + fault.jitter + lf <= FaultWithin
      /\ fault.jitter + lr <= Tolerance + lf /\ fault.jitter + lr <= d + lf
      /\ d - fault.jitter > MaxAge
  BY <1>1 DEF Judging, LeavesRoom, Detectable
<1>4. PICK n \in Nat \ {0} :
               /\ Affected(n)
               /\ StampOf(n) \in Nat /\ StampOf(n + 1) = StampOf(n) + Period
               /\ StampOf(n) <= appliedAt /\ appliedAt <= StampOf(n + 1)
  BY AffectedStream
<1> HIDE DEF lr, lf
<1> DEFINE s == StampOf(n + 1)
<1>5. n + 1 \in Nat \ {0} /\ s \in Nat
  BY StampType
<1>6. /\ s + d + fault.jitter + lf <= WindowEnd /\ s + d + fault.jitter <= WindowEnd
      /\ activation <= s + d - fault.jitter + lf
      /\ s <= WindowEnd /\ s + lr <= WindowEnd
  <2> HIDE DEF s
  <2>1. s <= activation + Period /\ activation <= s + 1
    BY <1>1, <1>4, <1>5, Parameters DEF s
  <2> QED
    BY <1>1, <1>2, <1>3, <1>5, <2>1, Parameters DEF WindowEnd
<1>7. Still(s + d + fault.jitter) /\ s < clock /\ s + lr < clock
  BY <1>1, <1>2, <1>5, <1>6
<1>8. n + 1 <= received
  <2>1. n + 1 \in 1..received
    BY <1>5, <1>7, SampledByNow DEF Judging, FaultInv
  <2> QED
    BY <2>1
<1>9. entries = {}
  <2>1. appliedAt # NoTime /\ withdrawnAt # NoTime
    BY TimesOfWindow DEF NoTime
  <2> QED
    BY <2>1, NothingWaits DEF Judging, FaultInv
<1>10. PICK i \in 1..Len(evidence["faulted"]) :
            /\ evidence["faulted"][i].data = s
            /\ s + d - fault.jitter + lf <= evidence["faulted"][i].at
            /\ evidence["faulted"][i].at <= s + d + fault.jitter + lf
  <2>1. DelaysAfter(n)
    BY <1>4 DEF Affected
  <2> QED
    BY <1>7, <1>8, <1>9, <2>1 DEF DelaysAfter, s, lf
<1>11. evidence["faulted"][i].at \in Nat
  <2>1. evidence["faulted"] \in Seq(Messages("faulted"))
    BY DEF Judging, FaultInv, TrialInv, Published, Kinds
  <2>2. evidence["faulted"][i] \in Messages("faulted")
    BY <2>1
  <2> QED
    BY <2>2 DEF Messages
<1> HIDE DEF s
<1>12. activation <= evidence["faulted"][i].at /\ evidence["faulted"][i].at <= WindowEnd
  <2> DEFINE at == evidence["faulted"][i].at
  <2>1. at \in Nat /\ s + d - fault.jitter + lf <= at /\ at <= s + d + fault.jitter + lf
    BY <1>10, <1>11
  <2> HIDE DEF at
  <2> DEFINE low == s + d - fault.jitter + lf
             high == s + d + fault.jitter + lf
  <2>2. low \in Int /\ high \in Int
    <3>1. s \in Nat /\ d \in Nat /\ fault.jitter \in Nat /\ lf \in Nat
      BY <1>1, <1>2, <1>5
    <3> QED
      BY <3>1
  <2>3. activation <= low /\ low <= at /\ at <= high /\ high <= WindowEnd
    BY <1>6, <2>1
  <2> HIDE DEF low, high
  <2>4. activation <= at /\ at <= WindowEnd
    BY <1>1, <2>1, <2>2, <2>3
  <2> QED
    BY <2>4 DEF at
<1>13. PICK f \in Evidence(d)!FaultWindow("faulted") : Events[f] = evidence["faulted"][i]
  <2>1. PICK origin \in Nat : WindowFrom(d, "faulted", origin)
    BY MessagesOfWindow DEF Kinds
  <2>2. /\ origin + i \in Evidence(d)!FaultWindow("faulted")
        /\ Events[origin + i] = evidence["faulted"][i]
    BY <1>12, <2>1, Zenon DEF WindowFrom
  <2> QED
    BY <2>2
<1>14. PICK r \in Evidence(d)!Of("raw") :
            Events[r].data.stamp = s /\ Events[r].at = s + lr
  <2>1. PICK place \in Nat :
               /\ \A e \in Evidence(d)!Of("raw") :
                    /\ Events[e].at = StampOf(e - place) + lag["raw"]
                    /\ Events[e].data.stamp = StampOf(e - place)
               /\ \A m \in Nat \ {0} :
                    StampOf(m) < clock /\ StampOf(m) + lag["raw"] <= clock =>
                        place + m \in Evidence(d)!Of("raw")
    BY SamplesHeard
  <2>2. StampOf(n + 1) < clock /\ StampOf(n + 1) + lag["raw"] <= clock
    BY <1>1, <1>5, <1>7 DEF s, lr
  <2> DEFINE e == place + (n + 1)
  <2>3. e \in Evidence(d)!Of("raw") /\ e - place = n + 1
    BY <1>5, <2>1, <2>2
  <2> HIDE DEF e
  <2> QED
    BY <2>1, <2>3 DEF s, lr
<1> DEFINE threshold == Evidence(d)!Threshold
<1>15. threshold \in {d - Tolerance, 0}
  BY <1>2, ThresholdIsFloor
<1>16. Events[f].at - Events[r].at >= threshold
  <2> DEFINE at == evidence["faulted"][i].at
  <2>1. at \in Nat /\ s + d - fault.jitter + lf <= at /\ Events[f].at = at
    BY <1>10, <1>11, <1>13
  <2> HIDE DEF at, threshold
  <2>2. /\ lr \in Nat /\ lf \in Nat /\ d \in Nat /\ fault.jitter \in Nat
        /\ Tolerance \in Nat /\ s \in Nat
        /\ fault.jitter + lr <= Tolerance + lf /\ fault.jitter + lr <= d + lf
    BY <1>1, <1>2, <1>3, <1>5
  <2>3. at - (s + lr) >= d - Tolerance /\ at - (s + lr) >= 0
    BY <2>1, <2>2, DelayIsHeard
  <2> QED
    BY <1>14, <1>15, <2>1, <2>3
<1>17. Events[r].data.stamp = Events[f].data
  BY <1>10, <1>13, <1>14
<1> QED
  BY <1>16, <1>17 DEF Evidence!LatencyObservable, threshold

LEMMA AtLeastTwo ==
    ASSUME NEW S, IsFiniteSet(S), NEW x \in S, NEW y \in S, x # y
    PROVE  Cardinality(S) >= 2
<1>1. Cardinality({x}) = 1 /\ IsFiniteSet({x})
  BY FS_Singleton
<1>2. Cardinality({x} \union {y}) = 2
  BY <1>1, FS_AddElement
<1>3. {x} \union {y} \subseteq S
  OBVIOUS
<1>4. Cardinality({x} \union {y}) <= Cardinality(S)
  BY <1>3, FS_Subset
<1>5. Cardinality(S) \in Nat
  BY FS_CardinalityType
<1> QED
  BY <1>2, <1>4, <1>5

LEMMA StaleShows ==
    ASSUME Judging, fault.faultType = "stale", NEW d
    PROVE  Evidence(d)!StaleObservable
<1> DEFINE F == Evidence(d)!FaultWindow("faulted")
           R == Evidence(d)!FaultWindow("raw")
           lr == lag["raw"]
           lf == lag["faulted"]
<1>1. /\ activation \in Nat /\ lr \in Nat /\ lf \in Nat /\ WindowEnd \in Nat /\ clock \in Nat
      /\ lf \in Lags /\ appliedAt \in Nat
      /\ activation + (2 * Period - 1) + lr <= WindowEnd
      /\ activation + (2 * Period - 1) + lf <= WindowEnd
      /\ \A t \in Nat : t <= WindowEnd => Still(t) /\ t < clock
  BY TimesOfWindow DEF Kinds
<1>2. lf < Period
  BY <1>1 DEF Judging, LeavesRoom
<1>3. PICK n \in Nat \ {0} :
               /\ Affected(n)
               /\ StampOf(n) \in Nat /\ StampOf(n + 1) = StampOf(n) + Period
               /\ StampOf(n) <= activation
  BY AffectedStream
<1>4. received \in Nat /\ Len(evidence["faulted"]) = received
  BY <1>3, LoopTypes DEF Affected, HoldsAfter, Judging, FaultInv, TrialInv
<1> HIDE DEF lr, lf
<1>5. ASSUME NEW i \in 1..received
      PROVE  evidence["faulted"][i].at = StampOf(i) + lf
  <2>1. i <= n => i \in 1..n
    BY <1>4
  <2> QED
    BY <1>3, <1>4, <1>5, <2>1 DEF Affected, LastPlain, HoldsAfter, lf
<1>6. PICK j \in Nat \ {0} : activation <= StampOf(j) /\ StampOf(j) <= activation + Period - 1
  BY <1>1, SampleInPeriod
<1>7. /\ j + 1 \in Nat \ {0} /\ StampOf(j) \in Nat /\ StampOf(j + 1) \in Nat
      /\ StampOf(j + 1) = StampOf(j) + Period /\ StampOf(j) # StampOf(j + 1)
  <2>1. j + 1 \in Nat \ {0}
    OBVIOUS
  <2> QED
    BY <2>1, StampType, StampsGrow, Parameters
\* Two samples and what was sent in their place are in the window, ...
<1>8. ASSUME NEW m \in {j, j + 1}
      PROVE  /\ m \in Nat \ {0} /\ m \in 1..received
             /\ activation <= StampOf(m) + lr /\ StampOf(m) + lr <= WindowEnd
             /\ activation <= StampOf(m) + lf /\ StampOf(m) + lf <= WindowEnd
  <2>1. m \in Nat \ {0} /\ StampOf(m) \in Nat
    BY <1>7
  <2>2. activation <= StampOf(m) /\ StampOf(m) <= activation + (2 * Period - 1)
    BY <1>1, <1>6, <1>7, Parameters
  <2>3. /\ activation <= StampOf(m) + lr /\ StampOf(m) + lr <= WindowEnd
        /\ activation <= StampOf(m) + lf /\ StampOf(m) + lf <= WindowEnd
        /\ StampOf(m) <= WindowEnd
    BY <1>1, <2>1, <2>2, Parameters
  <2>4. StampOf(m) < clock
    BY <1>1, <2>1, <2>3
  <2> QED
    BY <2>1, <2>3, <2>4, SampledByNow DEF Judging, FaultInv
<1>a. PICK origin \in Nat : WindowFrom(d, "faulted", origin)
  BY MessagesOfWindow DEF Kinds
<1>9. /\ \A e \in F :
           /\ e - origin \in 1..Len(evidence["faulted"])
           /\ Events[e] = evidence["faulted"][e - origin]
           /\ activation <= Events[e].at /\ Events[e].at <= WindowEnd
      /\ \A m \in 1..Len(evidence["faulted"]) :
           activation <= evidence["faulted"][m].at /\ evidence["faulted"][m].at <= WindowEnd =>
               /\ origin + m \in F
               /\ Events[origin + m] = evidence["faulted"][m]
  BY <1>a, Zenon DEF WindowFrom
<1>10. PICK place \in Nat :
               \A m \in Nat \ {0} :
                    activation <= StampOf(m) + lr /\ StampOf(m) + lr <= WindowEnd =>
                        /\ place + m \in R
                        /\ Events[place + m].data.stamp = StampOf(m)
  <2>1. PICK place \in Nat :
               /\ \A i \in Evidence(d)!FaultWindow("raw") :
                    i - place \in Nat \ {0} /\ Events[i].data.stamp = StampOf(i - place)
               /\ \A m \in Nat \ {0} :
                    activation <= StampOf(m) + lag["raw"] /\ StampOf(m) + lag["raw"] <= WindowEnd =>
                        /\ place + m \in Evidence(d)!FaultWindow("raw")
                        /\ Events[place + m].data.stamp = StampOf(m)
                        /\ Events[place + m].at = StampOf(m) + lag["raw"]
                        /\ m \in 1..Len(evidence["raw"])
    BY SamplesOfWindow
  <2> QED
    BY <2>1, Zenon DEF lr, R
<1>11. IsFiniteSet(F) /\ IsFiniteSet(R)
  BY WindowsAreFinite DEF Kinds, Judging, FaultInv
<1> HIDE DEF F, R
<1>12. origin + j \in F /\ origin + (j + 1) \in F
  BY <1>4, <1>5, <1>8, <1>9
<1>13. Cardinality(F) >= 2
  <2>1. origin + j # origin + (j + 1)
    OBVIOUS
  <2> QED
    BY <1>11, <1>12, <2>1, AtLeastTwo
\* ... all of it the same sample, ...
<1>14. ASSUME NEW e \in F PROVE Events[e].data = StampOf(n)
  <2> DEFINE i == e - origin
  <2>1. /\ i \in 1..received /\ Events[e] = evidence["faulted"][i]
        /\ activation <= evidence["faulted"][i].at /\ evidence["faulted"][i].at <= WindowEnd
    BY <1>4, <1>9
  <2> HIDE DEF i
  <2>2. evidence["faulted"][i].at = StampOf(i) + lf
    BY <1>5, <2>1
  <2>3. i \in Nat \ {0} /\ StampOf(i) \in Nat
    <3>1. i \in Nat \ {0}
      BY <1>4, <2>1
    <3> QED
      BY <3>1, StampType
  <2>4. i >= n
    <3>1. SUFFICES ASSUME i + 1 <= n PROVE FALSE
      BY <2>3
    <3>2. StampOf(i + 1) <= StampOf(n) /\ StampOf(i + 1) = StampOf(i) + Period
      <4>1. i + 1 \in Nat \ {0} /\ n \in Nat
        BY <2>3
      <4> QED
        BY <2>3, <3>1, <4>1, StampsGrow
    <3> QED
      BY <1>1, <1>2, <1>3, <2>1, <2>2, <2>3, <3>2, Parameters
  <2>5. CASE i = n
    BY <1>3, <2>1, <2>5 DEF Affected, LastPlain
  <2>6. CASE i > n
    <3>1. Still(StampOf(i))
      BY <1>1, <2>1, <2>2, <2>3
    <3> QED
      BY <1>3, <2>1, <2>6, <3>1 DEF Affected, HoldsAfter
  <2> QED
    BY <2>3, <2>4, <2>5, <2>6
<1>15. Cardinality({Events[e].data : e \in F}) = 1
  <2>1. {Events[e].data : e \in F} = {StampOf(n)}
    BY <1>12, <1>14
  <2> QED
    BY <2>1, FS_Singleton
\* ... while the robot sent others.
<1>16. Cardinality({Events[e].data.stamp : e \in R}) >= 2
  <2> DEFINE values == {Events[e].data.stamp : e \in R}
             value == [e \in R |-> Events[e].data.stamp]
  <2>1. value \in Surjection(R, values)
    BY DEF Surjection
  <2>2. StampOf(j) \in values /\ StampOf(j + 1) \in values
    <3>1. /\ place + j \in R /\ Events[place + j].data.stamp = StampOf(j)
          /\ place + (j + 1) \in R /\ Events[place + (j + 1)].data.stamp = StampOf(j + 1)
      BY <1>8, <1>10
    <3> QED
      BY <3>1
  <2> HIDE DEF value, values
  <2>3. IsFiniteSet(values)
    BY <1>11, <2>1, FS_Surjection
  <2>4. Cardinality(values) >= 2
    BY <1>7, <2>2, <2>3, AtLeastTwo
  <2> QED
    BY <2>4 DEF values
<1>17. \A S : Evidence(d)!Cardinality(S) = Cardinality(S)
  BY Zenon DEF Evidence!Cardinality, Cardinality
<1>18. /\ Evidence(d)!Cardinality(F) >= 2
       /\ Evidence(d)!Cardinality({Events[e].data : e \in F}) = 1
       /\ Evidence(d)!Cardinality({Events[e].data.stamp : e \in R}) >= 2
  BY <1>13, <1>15, <1>16, <1>17
<1> QED
  BY <1>18 DEF Evidence!StaleObservable, F, R

LEMMA FaultShows ==
    ASSUME Judging, NEW d, d = fault.delay
    PROVE  Evidence(d)!FaultObservable(fault.faultType)
<1>1. fault.faultType \in {"dropout", "latency", "stale"}
  BY TimesOfJudgement, FaultsAssumption DEF Judging
<1> QED
  BY <1>1, DropoutShows, LatencyShows, StaleShows DEF Evidence!FaultObservable

LEMMA HiddenIsJudgedSo == FaultInv => FaultTrialPasses
<1>1. ASSUME Judging PROVE fault \in Faults
  BY <1>1, TimesOfJudgement DEF Judging
<1> SUFFICES ASSUME Judging, NEW f \in Faults, f = fault PROVE Passes(f)
  BY <1>1 DEF Judging, FaultTrialPasses
<1> DEFINE d == f.delay
           early == Evidence(d)!NoEarlyViolation
           shown == Evidence(d)!FaultObservable(f.faultType)
           detected == Evidence(d)!WatchdogViolationDetected
           published == Evidence(d)!RecoveryCommandPublished
           observed == Evidence(d)!RecoveryCommandObserved
           stopped == Evidence(d)!RobotStopped
           holds == Evidence(d)!RobotStoppedHeld
           results == Evidence(d)!Results(f.faultType)
<1>2. f.faultType # "none"
  BY FaultsAssumption
<1>3. results = <<early, shown, detected, published, observed, stopped, holds>>
  BY <1>2, Zenon DEF Evidence!Results
<1>4. early /\ shown /\ detected /\ published /\ observed /\ stopped /\ holds
  BY NoneTooEarly, FaultShows, DetectionIsFirst, RecoveryFollows, StopIsHeld
<1> HIDE DEF results, early, shown, detected, published, observed, stopped, holds
<1>5. \A i \in DOMAIN results : results[i]
  <2>1. DOMAIN results = 1..7
    BY <1>3
  <2>2. /\ results[1] = early /\ results[2] = shown /\ results[3] = detected
        /\ results[4] = published /\ results[5] = observed
        /\ results[6] = stopped /\ results[7] = holds
    BY <1>3
  <2>3. /\ results[1] /\ results[2] /\ results[3] /\ results[4]
        /\ results[5] /\ results[6] /\ results[7]
    BY <1>4, <2>2
  <2>4. \A i \in 1..7 : i = 1 \/ i = 2 \/ i = 3 \/ i = 4 \/ i = 5 \/ i = 6 \/ i = 7
    OBVIOUS
  <2> QED
    BY <2>1, <2>3, <2>4
<1> QED
  BY <1>5 DEF Passes, Evidence!AllPass, results, d

\* A fault that hides the robot makes its trial pass, whatever the order of callbacks
\* and whatever each topic takes, given deadlines that leave room for both: it shows in
\* its window, the watchdog detects it after the activation and not before, and the stop
\* is commanded, obeyed and held until the hold is over.
THEOREM HiddenRobotsArePassed == TrialSpec => []FaultTrialPasses
BY HiddenIsJudgedSo, FaultInvariance, PTL
=============================================================================
