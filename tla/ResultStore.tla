----------------------------- MODULE ResultStore -----------------------------
(***************************************************************************)
(* What run_scenario promises about its output files: at each path there   *)
(* is nothing, what was there before, or the whole result of one batch     *)
(* that was to write there; a batch delivers at most one result, in one    *)
(* step, and replaces what it finds only if it was told to overwrite.      *)
(* Module Batches has the steps this takes.                                *)
(***************************************************************************)
CONSTANTS Batches, Paths

VARIABLES
    output, overwrite,      \* the command line of each batch
    store,                  \* what a reader finds at each path
    open                    \* the batches that may still deliver

Nothing == "nothing"
Earlier == "earlier"        \* a file from before the batches

storeVars == <<output, overwrite, store, open>>

StoreInit ==
    /\ output \in [Batches -> Paths] /\ overwrite \in [Batches -> BOOLEAN]
    /\ store \in [Paths -> {Nothing, Earlier}]
    /\ open = Batches

Deliver(b) ==
    /\ b \in open
    /\ overwrite[b] \/ store[output[b]] = Nothing
    /\ store' = [store EXCEPT ![output[b]] = b]
    /\ open' = open \ {b}
    /\ UNCHANGED <<output, overwrite>>

GiveUp(b) ==
    /\ b \in open
    /\ open' = open \ {b}
    /\ UNCHANGED <<output, overwrite, store>>

StoreNext == \E b \in Batches : Deliver(b) \/ GiveUp(b)

StoreSpec == StoreInit /\ [][StoreNext]_storeVars
=============================================================================
