-------------------------- MODULE MCFaultInjector --------------------------
(***************************************************************************)
(* A small instance of FaultInjector, with the history of what reached the *)
(* caller: delivered is everything ever returned, in order, everHeld every *)
(* sample that a hold repeated, and delays every delay ever configured.    *)
(***************************************************************************)
EXTENDS FaultInjector

VARIABLES delivered, everHeld, delays
mcvars == <<vars, delivered, everHeld, delays>>

Config(type, percent, d, j, s) ==
    [enabled |-> type # "none", faultType |-> type, dropPercent |-> percent,
     delay |-> d, jitter |-> j, seed |-> s]

PassThrough == Config("none", 0, 0, 0, 0)
SomeDropped == Config("dropout", 50, 0, 0, 0)
Delayed == Config("latency", 0, 2, 0, 0)
Jittered == Config("latency", 0, 1, 2, 0)
Stale == Config("stale", 0, 0, 0, 0)
Reseeded == Config("stale", 0, 0, 0, 1)
Suspended == [Delayed EXCEPT !.enabled = FALSE]

AllModes ==
    {PassThrough, SomeDropped, Jittered, Delayed, Suspended, Stale, Reseeded}

DelayOf(c) == IF LatencyIsActive(c) THEN {<<c.delay, c.jitter>>} ELSE {}

MCInit == Init /\ delivered = <<>> /\ everHeld = {} /\ delays = DelayOf(config)

MCNext ==
    /\ Next
    /\ delivered' = delivered \o outputs'
    /\ everHeld' = everHeld \union ({held'} \ {Unset})
    /\ delays' = delays \union DelayOf(config')

MCSpec == MCInit /\ [][MCNext]_mcvars

-----------------------------------------------------------------------------
Ascending(s) == \A i, j \in DOMAIN s : i < j => s[i] <= s[j]

\* Messages overtake one another inside latency mode only: leaving it sends the
\* queue in order of arrival, and from then on nothing older than what was ever
\* delivered comes out (configure -> LatencyQueue.flush, StaleHold.set_enabled).
OvertakingEndsWithLatency ==
    [][~LatencyIsActive(config') =>
        /\ Ascending(outputs')
        /\ ~LatencyIsActive(config) =>
            \A i \in DOMAIN outputs', j \in DOMAIN delivered :
                delivered[j] <= outputs'[i]]_mcvars

\* No message is sent downstream twice, however modes change while it waits in
\* the queue, unless a hold repeated it.
OnlyHeldSamplesRepeat ==
    \A i, j \in DOMAIN delivered :
        i # j /\ delivered[i] = delivered[j] => delivered[i] \in everHeld

\* As long as only one delay was configured, without jitter, the stream is never
\* reordered, in any sequence of mode changes, suspensions and refused seeds
\* (heap order by deadline then sequence; flush by sequence).
InArrivalOrder ==
    Cardinality(delays) <= 1 /\ (\A d \in delays : d[2] = 0) => Ascending(delivered)
=============================================================================
