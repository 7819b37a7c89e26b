------------------------------ MODULE Watchdog ------------------------------
(***************************************************************************)
(* The stream watchdog: the latching evaluator of health/watchdog.py and   *)
(* the callbacks of ros/watchdog_node.py that read the node's clock for    *)
(* it.  That clock is ROS time; without simulated time it is the system    *)
(* clock, which an administrator or NTP may set back.                      *)
(*                                                                         *)
(* Times are natural numbers.  The expected rate is one arrival per Period *)
(* and the tolerated loss is LossNum / LossDen.  check compares fractions  *)
(* in floating point: multiplied out they are integers, and of two that    *)
(* are no further apart than Rounding either may come out as the greater.  *)
(* Equal fractions are always such a case: 1 - 1 / 1.5 is computed to be   *)
(* more than 1 / 3.                                                        *)
(***************************************************************************)
EXTENDS Integers, FiniteSets

CONSTANTS
    MaxAge, Period, Window,     \* the evaluator's parameters, in ticks
    LossNum, LossDen,           \* the greatest loss fraction tolerated
    Rounding,                   \* what the floats of the comparison may be off by
    ClockSteps,                 \* TRUE when the node's clock may be set back
    MaxTime,                    \* bound: the clock stops here
    MaxArrivals                 \* bound: at most this many arrivals

ASSUME PeriodsAssumption ==
    MaxAge \in Nat \ {0} /\ Period \in Nat \ {0} /\ Window \in Nat \ {0}
ASSUME LossAssumption ==
    LossNum \in Nat /\ LossDen \in Nat \ {0} /\ LossNum <= LossDen
ASSUME RoundingAssumption == Rounding \in Nat
ASSUME ClockAssumption == ClockSteps \in BOOLEAN
ASSUME BoundsAssumption == MaxTime \in Nat /\ MaxArrivals \in Nat

VARIABLES
    clock,          \* the node's clock
    arrivals,       \* arrivals not yet pruned: [n |-> ordinal, at |-> time]
    arrived,        \* how many messages have arrived: names the arrivals
    firstArrival, lastArrival, latestStamp,   \* times, or NoTime
    latched, latchedReason,
    status,         \* what the last check returned
    raised          \* the last call raised ValueError

evaluator == <<arrivals, arrived, firstArrival, lastArrival, latestStamp,
               latched, latchedReason>>
vars == <<clock, evaluator, status, raised>>

NoTime == -1
NoReason == "none"
Reasons == {"message_age_exceeded", "loss_fraction_exceeded"}
Healthy == [violated |-> FALSE, reason |-> NoReason]

Init ==
    /\ clock = 0
    /\ arrivals = {} /\ arrived = 0
    /\ firstArrival = NoTime /\ lastArrival = NoTime /\ latestStamp = NoTime
    /\ latched = FALSE /\ latchedReason = NoReason
    /\ status = Healthy /\ raised = FALSE

-----------------------------------------------------------------------------
(* The clock. *)

Tick == clock < MaxTime /\ clock' = clock + 1 /\ UNCHANGED <<evaluator, status, raised>>

StepBack ==
    /\ ClockSteps
    /\ clock' \in 0..(clock - 1)
    /\ UNCHANGED <<evaluator, status, raised>>

-----------------------------------------------------------------------------
(* record_arrival.  Faulty... operators are not used: each shows the one   *)
(* below it as a plausible bug would have it.                              *)

FaultyLatestAfter(stamp) == stamp

LatestAfter(stamp) == IF stamp > latestStamp THEN stamp ELSE latestStamp

\* _on_input: the arrival is timed by the node's clock, the content by itself.
RecordArrival(stamp) ==
    /\ lastArrival <= clock
    /\ arrived' = arrived + 1
    /\ arrivals' = arrivals \union {[n |-> arrived', at |-> clock]}
    /\ firstArrival' = IF firstArrival = NoTime THEN clock ELSE firstArrival
    /\ lastArrival' = clock
    /\ latestStamp' = LatestAfter(stamp)
    /\ raised' = FALSE
    /\ UNCHANGED <<clock, latched, latchedReason, status>>

\* The clock was set back since the last arrival: nothing is recorded.
RefuseArrival ==
    /\ clock < lastArrival
    /\ raised' = TRUE
    /\ UNCHANGED <<clock, evaluator, status>>

-----------------------------------------------------------------------------
(* check *)

InWindow(t) == t >= clock - Window

FaultyPruned == {a \in arrivals : clock - a.at <= MaxAge}

Pruned == {a \in arrivals : InWindow(a.at)}

FaultyElapsed == Window

\* The expectation ramps up over the first window after the first arrival.
Elapsed == IF clock - firstArrival < Window THEN clock - firstArrival ELSE Window

FaultyTooOld == clock - lastArrival > MaxAge

\* Age is that of the content, so a held sample that keeps arriving grows old.
TooOld == clock - latestStamp > MaxAge

\* 1 - count / (Elapsed / Period) - LossNum / LossDen, times what it is divided by.
Excess == LossDen * (Elapsed - Cardinality(Pruned) * Period) - LossNum * Elapsed

\* Where anything is expected, the loss computed is more than what is tolerated ...
MayBeTooSparse == Elapsed > 0 /\ Excess >= -Rounding

\* ... and cannot but be.
MustBeTooSparse == Elapsed > 0 /\ Excess > Rounding

\* What the check may find, other than what it has latched.
Findings ==
    IF TooOld THEN {"message_age_exceeded"}
    ELSE {finding \in {"loss_fraction_exceeded", NoReason} :
            IF finding = NoReason THEN ~MustBeTooSparse ELSE MayBeTooSparse}

\* A verdict once latched is kept with the reason it was latched for.
FaultyVerdict(finding) ==
    IF latched /\ finding = NoReason THEN latchedReason ELSE finding

Verdict(finding) == IF latched THEN latchedReason ELSE finding

FaultyLatch(reason) ==
    /\ latched' = (reason # NoReason)
    /\ status' = [violated |-> latched', reason |-> reason]
    /\ UNCHANGED latchedReason

Latch(reason) ==
    /\ latched' = (reason # NoReason)
    /\ latchedReason' = reason
    /\ status' = [violated |-> latched', reason |-> reason]

\* The verdict when nothing has ever arrived: there is nothing to judge by.
SilentVerdict == latchedReason

Check ==
    /\ arrivals' = Pruned
    /\ IF lastArrival = NoTime THEN Latch(SilentVerdict)
       ELSE \E finding \in Findings : Latch(Verdict(finding))
    /\ raised' = FALSE
    /\ UNCHANGED <<clock, arrived, firstArrival, lastArrival, latestStamp>>

\* reset: a new trial.  No caller in the repository but the tests.
Reset ==
    /\ arrivals' = {}
    /\ firstArrival' = NoTime /\ lastArrival' = NoTime /\ latestStamp' = NoTime
    /\ latched' = FALSE /\ latchedReason' = NoReason
    /\ raised' = FALSE
    /\ UNCHANGED <<clock, arrived, status>>

-----------------------------------------------------------------------------
Next ==
    \/ Tick
    \/ StepBack
    \/ arrived < MaxArrivals /\ \E stamp \in 0..MaxTime : RecordArrival(stamp)
    \/ RefuseArrival
    \/ Check
    \/ Reset

Spec == Init /\ [][Next]_vars

-----------------------------------------------------------------------------
(* Properties. *)

\* What it takes to tolerate a stream whose messages arrive at most this late: an
\* age of a period and the lateness, a loss fraction for what is late after the
\* first message, and one for what may be missing from a whole window.  The
\* fractions are to be greater by more than the rounding: equality is not enough.
Tolerates(lateness) ==
    /\ Period + lateness <= MaxAge
    /\ LossDen * lateness + Rounding < LossNum * (Period + lateness)
    /\ \A count \in 0..Window : Window - count * Period < Period + lateness =>
            LossDen * (Window - count * Period) + Rounding < LossNum * Window

Times == Nat \union {NoTime}
Arrivals == [n : Nat \ {0}, at : Nat]

\* The types, and that a verdict of violation always names its reason, as
\* _on_check needs to fill the diagnostic.
TypeOK ==
    /\ clock \in Nat
    /\ arrivals \in SUBSET Arrivals /\ IsFiniteSet(arrivals)
    /\ arrived \in Nat
    /\ firstArrival \in Times /\ lastArrival \in Times /\ latestStamp \in Times
    /\ latched \in BOOLEAN /\ latchedReason \in Reasons \union {NoReason}
    /\ status \in [violated : BOOLEAN, reason : Reasons \union {NoReason}]
    /\ latched <=> latchedReason # NoReason
    /\ status.violated <=> status.reason # NoReason
    /\ raised \in BOOLEAN

\* A stream is judged only by its traffic: no alarm without an arrival in this
\* trial, even when the clock moves back or old arrivals have been pruned.
AlarmNeedsTraffic ==
    latched => firstArrival # NoTime /\ lastArrival # NoTime /\ latestStamp # NoTime

\* Once raised, the alarm and its reason survive every arrival, check and clock
\* change until reset - recovery of the stream does not clear it (check).
LatchIsPermanent ==
    [][latched => \/ latched' /\ latchedReason' = latchedReason
                  \/ firstArrival' = NoTime]_vars
=============================================================================
