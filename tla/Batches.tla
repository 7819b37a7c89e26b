------------------------------ MODULE Batches ------------------------------
(***************************************************************************)
(* Processes of the command run_scenario (main, run_batch and              *)
(* _write_json_atomically of ros/experiment_runner_node.py, BatchResult of *)
(* core/results.py), each with a batch of trials, on one file system and   *)
(* in one ROS graph.  What happens within a trial is in module TrialRun;   *)
(* here it ends in one of the outcomes that the batch can tell apart.      *)
(*                                                                         *)
(* A file is an inode with two parts, which its writer writes one after    *)
(* the other; a directory entry names an inode.  An inode bears the name   *)
(* of the batch that created it, or of the path it was at before.          *)
(***************************************************************************)
EXTENDS Integers, Sequences

CONSTANTS
    Batches,            \* the processes
    Paths,              \* the output files they may be given
    Repeats,            \* the numbers of trials they may be given
    Exclusive           \* no two processes with one output run at a time

ASSUME RepeatsAssumption == Repeats \subseteq Int
ASSUME ExclusiveAssumption == Exclusive \in BOOLEAN

VARIABLES
    output, overwrite, repeat,  \* the options of the command line
    pc,                 \* the statement the process is at
    next,               \* the index of the next trial
    trials,             \* the outcomes recorded in the batch's result
    nodes,              \* the trials of which the process has nodes in the graph
    exit,               \* the exit code
    target, temp,       \* directory: the inode at a path, and at it plus ".tmp"
    files,              \* contents of the inodes: who wrote each part
    fd                  \* the inode the process has opened

commandLine == <<output, overwrite, repeat>>
batch == <<next, trials, nodes>>
disk == <<target, temp, files>>
vars == <<commandLine, pc, batch, exit, disk, fd>>

Nothing == "nothing"
Earlier == "earlier"
Broken == "broken"
Running == -1
Interrupted == 130

ASSUME NamesAssumption ==
    /\ Batches \intersect Paths = {}
    /\ {Nothing, Earlier, Broken} \intersect (Batches \union Paths) = {}

Inodes == Batches \union Paths
Parts == {1, 2}
Empty == [part \in Parts |-> Nothing]
Whole(author) == [part \in Parts |-> author]

Outcomes == {"passed", "failed", "infrastructure"}

Init ==
    /\ output \in [Batches -> Paths] /\ overwrite \in [Batches -> BOOLEAN]
    /\ repeat \in [Batches -> Repeats]
    /\ pc = [b \in Batches |-> "idle"]
    /\ next = [b \in Batches |-> 0]
    /\ trials = [b \in Batches |-> <<>>]
    /\ nodes = [b \in Batches |-> {}]
    /\ exit = [b \in Batches |-> Running]
    /\ target \in [Paths -> Paths \union {Nothing}]
    /\ \A p \in Paths : target[p] \in {p, Nothing}
    /\ temp = [p \in Paths |-> Nothing]
    /\ files = [i \in Inodes |-> IF i \in Paths THEN Whole(Earlier) ELSE Empty]
    /\ fd = [b \in Batches |-> Nothing]

\* The process ends: what it remembers, its nodes and its open file are gone.
Exit(b, code) ==
    /\ pc' = [pc EXCEPT ![b] = "done"]
    /\ exit' = [exit EXCEPT ![b] = code]
    /\ next' = [next EXCEPT ![b] = 0]
    /\ trials' = [trials EXCEPT ![b] = <<>>]
    /\ nodes' = [nodes EXCEPT ![b] = {}]
    /\ fd' = [fd EXCEPT ![b] = Nothing]
    /\ UNCHANGED <<commandLine, disk>>

Goto(b, label) ==
    /\ pc' = [pc EXCEPT ![b] = label]
    /\ UNCHANGED exit

Active(b) == pc[b] \notin {"idle", "done"}

-----------------------------------------------------------------------------
(* main, up to the batch.  Faulty... operators are not used: each shows    *)
(* the one below it as a plausible bug would have it.                      *)

FaultyRefused(b) == repeat[b] < 1

Refused(b) ==
    \/ repeat[b] < 1
    \/ target[output[b]] # Nothing /\ ~overwrite[b]

CheckOptions(b) ==
    /\ pc[b] = "idle"
    /\ Exclusive => \A c \in Batches : Active(c) => output[c] # output[b]
    /\ IF Refused(b)
       THEN Exit(b, 2)
       ELSE Goto(b, "load") /\ UNCHANGED <<commandLine, batch, disk, fd>>

Load(b) ==
    /\ pc[b] = "load"
    /\ Goto(b, "trial") /\ UNCHANGED <<commandLine, batch, disk, fd>>

\* The scenario cannot be read or is rejected.
RejectScenario(b) == pc[b] = "load" /\ Exit(b, 2)

-----------------------------------------------------------------------------
(* run_batch *)

FaultyMoreTrials(b) == next[b] <= repeat[b]

MoreTrials(b) == next[b] < repeat[b]

\* The trial's context and nodes, in the namespace of its index.
CreateNodes(b) ==
    /\ pc[b] = "trial" /\ MoreTrials(b)
    /\ Goto(b, "spin")
    /\ nodes' = [nodes EXCEPT ![b] = @ \union {next[b]}]
    /\ UNCHANGED <<commandLine, next, trials, disk, fd>>

Record(b, outcome) ==
    /\ trials' = [trials EXCEPT ![b] = Append(@, outcome)]
    /\ next' = [next EXCEPT ![b] = @ + 1]

\* run_trial returns: passed, not passed, or with an infrastructure error.
EndTrial(b, outcome) ==
    /\ pc[b] = "spin"
    /\ Goto(b, "trial")
    /\ nodes' = [nodes EXCEPT ![b] = @ \ {next[b]}]
    /\ Record(b, outcome)
    /\ UNCHANGED <<commandLine, disk, fd>>

FaultyRecordRaised(b) == next' = [next EXCEPT ![b] = @ + 1] /\ UNCHANGED trials

\* The exception handler makes a result of its own.
RecordRaised(b) == Record(b, "infrastructure")

\* run_trial raises while it spins: its finally clause destroys the nodes.
TrialRaises(b) ==
    /\ pc[b] = "spin"
    /\ Goto(b, "trial")
    /\ nodes' = [nodes EXCEPT ![b] = @ \ {next[b]}]
    /\ RecordRaised(b)
    /\ UNCHANGED <<commandLine, disk, fd>>

\* It raises before: the nodes that exist by then, if any, outlive the trial.
CreationRaises(b) ==
    /\ pc[b] = "trial" /\ MoreTrials(b)
    /\ Goto(b, "trial")
    /\ nodes' \in {nodes, [nodes EXCEPT ![b] = @ \union {next[b]}]}
    /\ RecordRaised(b)
    /\ UNCHANGED <<commandLine, disk, fd>>

-----------------------------------------------------------------------------
(* The output. *)

Opened(b) == IF temp[output[b]] = Nothing THEN b ELSE temp[output[b]]

\* write_text opens the temporary file: what is there already is truncated.
OpenTemp(b) ==
    /\ pc[b] = "trial" /\ ~MoreTrials(b)
    /\ Goto(b, "write1")
    /\ fd' = [fd EXCEPT ![b] = Opened(b)]
    /\ temp' = [temp EXCEPT ![output[b]] = Opened(b)]
    /\ files' = [files EXCEPT ![Opened(b)] = Empty]
    /\ UNCHANGED <<commandLine, batch, target>>

Write(b, part) ==
    /\ files' = [files EXCEPT ![fd[b]][part] = b]
    /\ UNCHANGED <<commandLine, batch, target, temp, fd>>

WriteFirst(b) == pc[b] = "write1" /\ Goto(b, "write2") /\ Write(b, 1)

WriteLast(b) == pc[b] = "write2" /\ Goto(b, "replace") /\ Write(b, 2)

\* The name moves, whichever inode it names by now.
Replace(b) ==
    /\ pc[b] = "replace" /\ temp[output[b]] # Nothing
    /\ Goto(b, "exit")
    /\ target' = [target EXCEPT ![output[b]] = temp[output[b]]]
    /\ temp' = [temp EXCEPT ![output[b]] = Nothing]
    /\ UNCHANGED <<commandLine, batch, files, fd>>

\* A directory or file cannot be created, written or, being gone, replaced: the
\* exception leaves main and what is written so far stays.
WriteFails(b) ==
    /\ \/ pc[b] = "trial" /\ ~MoreTrials(b)
       \/ pc[b] \in {"write1", "write2", "replace"}
    /\ Exit(b, 1)

-----------------------------------------------------------------------------
(* The end. *)

All(b, outcome) == \A i \in DOMAIN trials[b] : trials[b][i] = outcome

\* to_dict's final_status.
FinalStatusIsPass(b) == Len(trials[b]) = repeat[b] /\ All(b, "passed")

ExitCode(b) ==
    IF \E i \in DOMAIN trials[b] : trials[b][i] = "infrastructure" THEN 2
    ELSE IF All(b, "passed") THEN 0 ELSE 1

Leave(b) == pc[b] = "exit" /\ Exit(b, ExitCode(b))

\* KeyboardInterrupt is no Exception, and no signal is handled: the process ends
\* wherever it is.
Interrupt(b) == Active(b) /\ Exit(b, Interrupted)

Next ==
    \E b \in Batches :
        \/ CheckOptions(b)
        \/ Load(b)
        \/ RejectScenario(b)
        \/ CreateNodes(b)
        \/ \E outcome \in Outcomes : EndTrial(b, outcome)
        \/ TrialRaises(b)
        \/ CreationRaises(b)
        \/ OpenTemp(b)
        \/ WriteFirst(b)
        \/ WriteLast(b)
        \/ Replace(b)
        \/ WriteFails(b)
        \/ Leave(b)
        \/ Interrupt(b)

Spec == Init /\ [][Next]_vars

-----------------------------------------------------------------------------
(* Properties. *)

TypeOK ==
    /\ output \in [Batches -> Paths] /\ overwrite \in [Batches -> BOOLEAN]
    /\ repeat \in [Batches -> Repeats]
    /\ pc \in [Batches -> {"idle", "load", "trial", "spin", "write1", "write2",
                           "replace", "exit", "done"}]
    /\ next \in [Batches -> Nat]
    /\ trials \in [Batches -> Seq(Outcomes)]
    /\ nodes \in [Batches -> SUBSET Nat]
    /\ \A b \in Batches : pc[b] \in {"trial", "spin"} => next[b] <= repeat[b]
    /\ exit \in [Batches -> {Running, 0, 1, 2, Interrupted}]
    /\ target \in [Paths -> Inodes \union {Nothing}]
    /\ temp \in [Paths -> Inodes \union {Nothing}]
    /\ files \in [Inodes -> [Parts -> Batches \union {Earlier, Nothing}]]
    /\ fd \in [Batches -> Inodes \union {Nothing}]

\* Who wrote the file at a path: one author, if it is not torn.
Content(p) ==
    IF target[p] = Nothing THEN Nothing
    ELSE IF \E a \in Batches \union {Earlier} : files[target[p]] = Whole(a)
    THEN CHOOSE a \in Batches \union {Earlier} : files[target[p]] = Whole(a)
    ELSE Broken

Store == INSTANCE ResultStore WITH
    store <- [p \in Paths |-> Content(p)],
    open <- {b \in Batches : pc[b] \notin {"exit", "done"}}

\* While no two processes with one output run at a time (the code takes no lock),
\* the output files are kept as promised, wherever a process is interrupted and
\* whatever an earlier one has left: a reader finds whole results only, and none
\* is replaced that was not to be.
KeepsStore == Store!StoreSpec

\* Under the same condition the exit code agrees with the file: 0 is for a batch
\* whose result is there and says that every trial requested has passed, and for no
\* other.
ExitTellsOutcome ==
    [][\A b \in Batches :
        LET recordedAsPass == Content(output[b]) = b /\ FinalStatusIsPass(b)
        IN  pc[b] # "done" /\ pc'[b] = "done" =>
                /\ exit'[b] = 0 => recordedAsPass
                /\ recordedAsPass => exit'[b] \in {0, Interrupted}]_vars

\* What the docstring of the module says: trials do not share topics, for these
\* are namespaced by trial id.
TrialsShareNoTopics ==
    \A b, c \in Batches : b # c => nodes[b] \intersect nodes[c] = {}
=============================================================================
