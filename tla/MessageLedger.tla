--------------------------- MODULE MessageLedger ---------------------------
(***************************************************************************)
(* What the fault injector promises about its accounts, whatever mode it   *)
(* is in: a message taken in is dropped, sent on, or kept for later in a   *)
(* bounded store, and only what is kept can be sent on later.  A message   *)
(* replaced by a held sample counts as sent on.                            *)
(***************************************************************************)
EXTENDS Integers

CONSTANT Capacity    \* how much may be kept, at least 1

VARIABLES received, forwarded, dropped, pending
ledger == <<received, forwarded, dropped, pending>>

Init == received = 0 /\ forwarded = 0 /\ dropped = 0 /\ pending = 0

Drop ==
    /\ received' = received + 1
    /\ dropped' = dropped + 1
    /\ UNCHANGED <<forwarded, pending>>

\* Take a message in; up to all of what is then in store leaves with it.
Take ==
    \E n \in 0..(pending + 1) :
        /\ received' = received + 1
        /\ forwarded' = forwarded + n
        /\ pending' = pending + 1 - n
        /\ pending' <= Capacity
        /\ UNCHANGED dropped

Release ==
    \E n \in 1..pending :
        /\ forwarded' = forwarded + n
        /\ pending' = pending - n
        /\ UNCHANGED <<received, dropped>>

Next == Drop \/ Take \/ Release

Spec == Init /\ [][Next]_ledger
=============================================================================
