----------------------------- MODULE MCWatchdog -----------------------------
(***************************************************************************)
(* Two small worlds around the watchdog, with the history of all arrivals  *)
(* since the last reset.  In the wild one, stamps and clock do as they     *)
(* like.  In the healthy one the k-th message is stamped k periods from    *)
(* the start and arrives at most Lateness after its stamp, and the clock   *)
(* never moves back.                                                       *)
(***************************************************************************)
EXTENDS Watchdog, FiniteSetsExt

CONSTANTS
    Lateness,
    WildTime, WildArrivals      \* bounds on the wild world, which has more choices

\* The healthy stream is one that the parameters are meant for.
ASSUME LatenessAssumption == Lateness \in Nat /\ Tolerates(Lateness)
ASSUME WildAssumption == WildTime \in Nat /\ WildArrivals \in Nat

VARIABLES
    healthy,    \* which of the worlds this is
    seen        \* every arrival since the last reset: time and stamp
mcvars == <<vars, healthy, seen>>

MCInit == Init /\ healthy \in BOOLEAN /\ seen = {}

Noted(stamp) == seen' = seen \union {[n |-> arrived', at |-> clock, stamp |-> stamp]}

WildNext ==
    \/ clock < WildTime /\ Tick /\ UNCHANGED seen
    \/ (StepBack \/ RefuseArrival \/ Check) /\ UNCHANGED seen
    \/ /\ arrived < WildArrivals
       /\ \E stamp \in 0..WildTime : RecordArrival(stamp) /\ Noted(stamp)
    \/ Reset /\ seen' = {}

\* The stamp of the next message, and the latest time it may arrive.
NextStamp == arrived * Period
NextDue == NextStamp + Lateness

HealthyNext ==
    \/ clock < NextDue /\ Tick /\ UNCHANGED seen
    \/ NextStamp <= clock /\ RecordArrival(NextStamp) /\ Noted(NextStamp)
    \/ Check /\ UNCHANGED seen

MCNext == (IF healthy THEN HealthyNext ELSE WildNext) /\ UNCHANGED healthy

MCSpec == MCInit /\ [][MCNext]_mcvars

-----------------------------------------------------------------------------
\* Freshness follows the newest content ever seen: a held or late sample that
\* arrives after it neither refreshes the stream nor sets it back.
FreshnessIsNewestStamp ==
    latestStamp = IF seen = {} THEN NoTime ELSE Max({m.stamp : m \in seen})

\* Pruning never costs a verdict while the clock runs forward: of all arrivals,
\* those in the window of a check made now are still counted (check).
EveryArrivalInWindowCounted ==
    healthy => Cardinality(Pruned) = Cardinality({m \in seen : InWindow(m.at)})

\* A healthy stream is never flagged: with the least age that its lateness needs, and
\* a tolerance that exceeds what it needs by more than floats are off by, neither the
\* ramp after the first arrival nor a window that is no multiple of the period raises
\* an alarm.
HealthyNeverFlagged == healthy => ~latched
=============================================================================
