--------------------------- MODULE BatchesProofs ---------------------------
(***************************************************************************)
(* Proofs about Batches, for any number of processes, output files and     *)
(* trials.  In behaviours in which no two processes with one output run at *)
(* a time, the steps on the disk implement the abstract store of results.  *)
(* Nothing in the code makes a behaviour such a one: it is a condition of  *)
(* the theorems about the disk.                                            *)
(***************************************************************************)
EXTENDS Batches, TLAPS

-----------------------------------------------------------------------------
(* Types, whether or not processes share an output.                        *)

Writing == {"write1", "write2", "replace"}
Early == {"idle", "load", "trial", "spin"}

\* The numbers of trials, by label.
Counted ==
    \A b \in Batches :
        /\ pc[b] \in {"idle", "load"} => next[b] = 0
        /\ pc[b] \in {"load", "spin"} => next[b] < repeat[b]

HasOpened == \A b \in Batches : pc[b] \in Writing => fd[b] # Nothing

TInv == TypeOK /\ Counted /\ HasOpened

\* What the end of a process does to the types.
LEMMA ExitKeepsTypes ==
    ASSUME TInv, NEW b \in Batches, NEW code \in {0, 1, 2, Interrupted}, Exit(b, code)
    PROVE  TInv'
BY DEF TInv, TypeOK, Counted, HasOpened, Writing, Exit, commandLine, disk, Inodes, Parts

\* What a recorded outcome does to the types.
LEMMA RecordKeepsTypes ==
    ASSUME TypeOK, NEW b \in Batches, NEW outcome \in Outcomes, Record(b, outcome)
    PROVE  /\ next' = [next EXCEPT ![b] = @ + 1] /\ next' \in [Batches -> Nat]
           /\ trials' \in [Batches -> Seq(Outcomes)]
BY DEF TypeOK, Record

LEMMA InitTypes == Init => TInv
BY RepeatsAssumption
   DEF Init, TInv, TypeOK, Counted, HasOpened, Writing, Inodes, Parts, Empty, Whole

LEMMA NextTypes == TInv /\ [Next]_vars => TInv'
<1> SUFFICES ASSUME TInv, [Next]_vars PROVE TInv'
  OBVIOUS
<1>0. CASE UNCHANGED vars
  BY <1>0 DEF TInv, TypeOK, Counted, HasOpened, vars, commandLine, batch, disk
<1>n. ASSUME Next PROVE TInv'
  <2> PICK b \in Batches :
        \/ CheckOptions(b) \/ Load(b) \/ RejectScenario(b) \/ CreateNodes(b)
        \/ \E outcome \in Outcomes : EndTrial(b, outcome)
        \/ TrialRaises(b) \/ CreationRaises(b) \/ OpenTemp(b) \/ WriteFirst(b)
        \/ WriteLast(b) \/ Replace(b) \/ WriteFails(b) \/ Leave(b) \/ Interrupt(b)
    BY <1>n DEF Next
  <2>0. repeat[b] \in Int /\ next[b] \in Nat
    BY RepeatsAssumption DEF TInv, TypeOK
  <2> USE DEF Goto
  <2>1. CASE CheckOptions(b)
    <3>1. CASE Refused(b)
      BY <2>1, <3>1, ExitKeepsTypes DEF CheckOptions
    <3>2. CASE ~Refused(b)
      <4>1. /\ pc[b] = "idle" /\ pc' = [pc EXCEPT ![b] = "load"]
            /\ UNCHANGED <<commandLine, batch, disk, fd, exit>>
        BY <2>1, <3>2 DEF CheckOptions
      <4>2. 0 < repeat[b]
        BY <3>2, <2>0 DEF Refused
      <4> QED
        BY <4>1, <4>2, <2>0
           DEF TInv, TypeOK, Counted, HasOpened, Writing, commandLine, batch, disk
    <3> QED
      BY <3>1, <3>2
  <2>2. CASE Load(b)
    BY <2>2, <2>0
       DEF Load, TInv, TypeOK, Counted, HasOpened, Writing, commandLine, batch, disk
  <2>3. CASE RejectScenario(b)
    BY <2>3, ExitKeepsTypes DEF RejectScenario
  <2>4. CASE CreateNodes(b)
    BY <2>4, <2>0
       DEF CreateNodes, MoreTrials, TInv, TypeOK, Counted, HasOpened, Writing,
           commandLine, disk
  <2>5. ASSUME NEW outcome \in Outcomes, EndTrial(b, outcome) PROVE TInv'
    BY <2>5, RecordKeepsTypes, <2>0
       DEF EndTrial, TInv, TypeOK, Counted, HasOpened, Writing, commandLine, disk
  <2>6. CASE TrialRaises(b)
    BY <2>6, RecordKeepsTypes, <2>0
       DEF TrialRaises, RecordRaised, Outcomes, TInv, TypeOK, Counted, HasOpened,
           Writing, commandLine, disk
  <2>7. CASE CreationRaises(b)
    <3>1. nodes' \in [Batches -> SUBSET Nat]
      <4>1. nodes \in [Batches -> SUBSET Nat]
        BY DEF TInv, TypeOK
      <4>2. nodes[b] \union {next[b]} \in SUBSET Nat
        BY <4>1, <2>0
      <4>3. nodes' = nodes \/ nodes' = [nodes EXCEPT ![b] = nodes[b] \union {next[b]}]
        BY <2>7 DEF CreationRaises
      <4> QED
        BY <4>1, <4>2, <4>3
    <3>2. /\ pc[b] = "trial" /\ pc' = [pc EXCEPT ![b] = "trial"]
          /\ next[b] < repeat[b]
          /\ UNCHANGED <<exit, output, overwrite, repeat, target, temp, files, fd>>
      BY <2>7 DEF CreationRaises, MoreTrials, commandLine, disk
    <3>3. /\ next' = [next EXCEPT ![b] = @ + 1] /\ next' \in [Batches -> Nat]
          /\ trials' \in [Batches -> Seq(Outcomes)]
      BY <2>7, RecordKeepsTypes DEF CreationRaises, RecordRaised, Outcomes, TInv
    <3> QED
      BY <3>1, <3>2, <3>3, <2>0 DEF TInv, TypeOK, Counted, HasOpened, Writing
  <2>8. CASE OpenTemp(b)
    BY <2>8, NamesAssumption
       DEF OpenTemp, Opened, TInv, TypeOK, Counted, HasOpened, Writing, commandLine,
           batch, Inodes, Parts, Empty
  <2>9. CASE WriteFirst(b)
    BY <2>9 DEF WriteFirst, Write, TInv, TypeOK, Counted, HasOpened, Writing,
                commandLine, batch, Inodes, Parts
  <2>10. CASE WriteLast(b)
    BY <2>10 DEF WriteLast, Write, TInv, TypeOK, Counted, HasOpened, Writing,
                 commandLine, batch, Inodes, Parts
  <2>11. CASE Replace(b)
    BY <2>11 DEF Replace, TInv, TypeOK, Counted, HasOpened, Writing, commandLine, batch
  <2>12. CASE WriteFails(b)
    BY <2>12, ExitKeepsTypes DEF WriteFails
  <2>13. CASE Leave(b)
    BY <2>13, ExitKeepsTypes DEF Leave, ExitCode
  <2>14. CASE Interrupt(b)
    BY <2>14, ExitKeepsTypes DEF Interrupt
  <2> QED
    BY <2>1, <2>2, <2>3, <2>4, <2>5, <2>6, <2>7, <2>8, <2>9, <2>10, <2>11, <2>12,
       <2>13, <2>14
<1> QED
  BY <1>0, <1>n

\* Types, and no batch runs more trials than it was told to, whatever raises, and
\* whatever the processes share.
THEOREM TypeCorrect == Spec => []TypeOK
<1>1. TInv => TypeOK
  BY DEF TInv
<1> QED
  BY <1>1, InitTypes, NextTypes, PTL DEF Spec

-----------------------------------------------------------------------------
(* The disk, when no two processes with one output run at a time. *)

\* An inode has one name at most.
Names ==
    \A p, q \in Paths :
        /\ target[p] # Nothing /\ target[p] = target[q] => p = q
        /\ temp[p] # Nothing /\ temp[p] = temp[q] => p = q
        /\ target[p] # Nothing => target[p] # temp[q]

\* What a batch will create is not there yet.
Fresh ==
    \A b \in Batches : pc[b] \in Early =>
        \A p \in Paths : target[p] # b /\ temp[p] # b

\* No two processes with one output run at a time: the condition.
Alone ==
    \A b, c \in Batches : Active(b) /\ Active(c) /\ output[b] = output[c] => b = c

\* Between its opening and its replacement the temporary file is the batch's own.
Holding ==
    \A b \in Batches : pc[b] \in Writing => temp[output[b]] = fd[b]

\* The parts it has written.
Written ==
    \A b \in Batches :
        /\ pc[b] = "write2" => files[fd[b]][1] = b
        /\ pc[b] = "replace" => files[fd[b]] = Whole(b)

Authors == Batches \union {Earlier}

WholeFiles ==
    \A p \in Paths : target[p] # Nothing => \E a \in Authors : files[target[p]] = Whole(a)

\* What main found when it looked is still so when the result is written.
StillAbsent ==
    \A b \in Batches :
        pc[b] \in (Early \union Writing) \ {"idle"} /\ ~overwrite[b]
        => target[output[b]] = Nothing

DInv == Names /\ Fresh /\ Alone /\ Holding /\ Written /\ WholeFiles /\ StillAbsent

IInv == TInv /\ DInv

LEMMA InitDisk == Init => DInv
<1> SUFFICES ASSUME Init PROVE DInv
  OBVIOUS
<1>1. \A p \in Paths : target[p] \in {p, Nothing} /\ temp[p] = Nothing
  BY DEF Init
<1>2. Names
  BY <1>1 DEF Names
<1>3. Fresh
  BY <1>1, NamesAssumption DEF Fresh
<1>4. Alone /\ Holding /\ Written /\ StillAbsent
  BY DEF Init, Alone, Active, Holding, Written, StillAbsent, Early, Writing
<1>5. WholeFiles
  BY <1>1 DEF Init, WholeFiles, Authors, Inodes
<1> QED
  BY <1>2, <1>3, <1>4, <1>5 DEF DInv

\* Steps that leave the disk alone: a process ends or goes on to another label
\* from which it does not write.
Passes(b) ==
    /\ UNCHANGED <<commandLine, disk>>
    /\ \/ pc'[b] = "done"
       \/ /\ pc[b] \in Early \ {"idle"} /\ pc'[b] \in Early \ {"idle"}
          /\ fd'[b] = fd[b]
    /\ pc' = [pc EXCEPT ![b] = pc'[b]]
    /\ fd' = [fd EXCEPT ![b] = fd'[b]]

LEMMA PassesKeepsDisk ==
    ASSUME IInv, NEW b \in Batches, Passes(b)
    PROVE  DInv'
<1> USE DEF IInv, TInv, TypeOK, DInv, Passes, commandLine, disk
<1>1. Names'
  BY DEF Names
<1>2. Fresh'
  BY DEF Fresh, Early
<1>3. Alone'
  BY DEF Alone, Active, Early
<1>4. Holding'
  BY DEF Holding, Writing, Early
<1>5. Written'
  BY DEF Written, Writing, Early
<1>6. WholeFiles'
  BY DEF WholeFiles
<1>7. StillAbsent'
  BY DEF StillAbsent, Writing, Early
<1> QED
  BY <1>1, <1>2, <1>3, <1>4, <1>5, <1>6, <1>7

LEMMA ExitPasses ==
    ASSUME TInv, NEW b \in Batches, NEW code, Exit(b, code)
    PROVE  Passes(b)
<1>1. pc' = [pc EXCEPT ![b] = "done"] /\ fd' = [fd EXCEPT ![b] = Nothing]
  BY DEF Exit
<1>2. pc'[b] = "done" /\ fd'[b] = Nothing
  BY <1>1 DEF TInv, TypeOK
<1> QED
  BY <1>1, <1>2 DEF Exit, Passes

\* A batch that finds its output absent, or may overwrite it, starts.
LEMMA StartKeepsDisk ==
    ASSUME IInv, Alone', NEW b \in Batches, CheckOptions(b), ~Refused(b)
    PROVE  DInv'
<1>1. /\ pc[b] = "idle" /\ pc' = [pc EXCEPT ![b] = "load"]
      /\ UNCHANGED <<commandLine, disk, fd>>
      /\ overwrite[b] \/ target[output[b]] = Nothing
  BY DEF CheckOptions, Goto, Refused
<1> USE <1>1 DEF IInv, TInv, TypeOK, DInv, commandLine, disk
<1>2. Names'
  BY DEF Names
<1>3. Fresh'
  BY DEF Fresh, Early
<1>4. Holding' /\ Written'
  BY DEF Holding, Written, Writing
<1>5. WholeFiles'
  BY DEF WholeFiles
<1>6. StillAbsent'
  BY DEF StillAbsent, Writing, Early
<1> QED
  BY <1>2, <1>3, <1>4, <1>5, <1>6

LEMMA OpenKeepsDisk ==
    ASSUME IInv, NEW b \in Batches, OpenTemp(b)
    PROVE  /\ DInv'
           /\ \A p \in Paths : target[p] # Nothing => files'[target[p]] = files[target[p]]
<1> DEFINE i == Opened(b)
           p0 == output[b]
<1>1. /\ pc[b] = "trial" /\ pc' = [pc EXCEPT ![b] = "write1"]
      /\ fd' = [fd EXCEPT ![b] = i]
      /\ temp' = [temp EXCEPT ![p0] = i]
      /\ files' = [files EXCEPT ![i] = Empty]
      /\ UNCHANGED <<output, overwrite, target>>
  BY DEF OpenTemp, Goto, commandLine
<1>2. p0 \in Paths /\ i # Nothing /\ i \in Inodes
  BY NamesAssumption DEF IInv, TInv, TypeOK, Opened, Inodes
<1>3. \A p \in Paths : target[p] # i
  BY <1>1, <1>2 DEF IInv, DInv, Names, Fresh, Early, Opened
<1>4. \A p \in Paths \ {p0} : temp[p] # i
  BY <1>1, <1>2 DEF IInv, DInv, Names, Fresh, Early, Opened
<1>5. \A c \in Batches : pc[c] \in Early /\ c # b => c # i
  BY <1>1, <1>2 DEF IInv, DInv, Fresh, Opened
<1>6. \A c \in Batches \ {b} : pc[c] \in Writing => fd[c] # i /\ output[c] # p0
  <2> SUFFICES ASSUME NEW c \in Batches \ {b}, pc[c] \in Writing
               PROVE  fd[c] # i /\ output[c] # p0
    OBVIOUS
  <2>1. output[c] # p0
    BY <1>1 DEF IInv, DInv, Alone, Active, Writing
  <2>2. fd[c] = temp[output[c]] /\ output[c] \in Paths
    BY DEF IInv, TInv, TypeOK, DInv, Holding
  <2> QED
    BY <2>1, <2>2, <1>4
<1> HIDE DEF i, p0
<1> USE DEF IInv, TInv, TypeOK, DInv
<1>7. Names'
  BY <1>1, <1>2, <1>3, <1>4 DEF Names
<1>8. Fresh'
  BY <1>1, <1>2, <1>5 DEF Fresh, Early
<1>9. Alone'
  BY <1>1 DEF Alone, Active
<1>10. Holding'
  BY <1>1, <1>2, <1>6 DEF Holding, Writing, p0
<1>11. Written'
  BY <1>1, <1>2, <1>6 DEF Written, Writing
<1>12. \A p \in Paths : target[p] # Nothing => files'[target[p]] = files[target[p]]
  BY <1>1, <1>2, <1>3
<1>13. WholeFiles'
  BY <1>1, <1>12 DEF WholeFiles
<1>14. StillAbsent'
  BY <1>1 DEF StillAbsent, Early, Writing
<1> QED
  BY <1>7, <1>8, <1>9, <1>10, <1>11, <1>12, <1>13, <1>14

\* Each part written goes to a file that no path names yet and no other batch
\* writes to.
LEMMA WriteKeepsDisk ==
    ASSUME IInv, NEW b \in Batches, WriteFirst(b) \/ WriteLast(b)
    PROVE  /\ DInv'
           /\ \A p \in Paths : target[p] # Nothing => files'[target[p]] = files[target[p]]
<1> DEFINE i == fd[b]
<1>1. /\ \/ /\ pc[b] = "write1" /\ pc' = [pc EXCEPT ![b] = "write2"]
            /\ files' = [files EXCEPT ![i][1] = b]
         \/ /\ pc[b] = "write2" /\ pc' = [pc EXCEPT ![b] = "replace"]
            /\ files' = [files EXCEPT ![i][2] = b]
      /\ UNCHANGED <<output, overwrite, target, temp, fd>>
  BY DEF WriteFirst, WriteLast, Write, Goto, commandLine
<1>2. i \in Inodes /\ i # Nothing /\ i = temp[output[b]] /\ output[b] \in Paths
  BY <1>1 DEF IInv, TInv, TypeOK, HasOpened, DInv, Holding, Writing
<1>3. \A p \in Paths : target[p] # i
  BY <1>2 DEF IInv, DInv, Names
<1>4. \A c \in Batches \ {b} : pc[c] \in Writing => fd[c] # i
  <2> SUFFICES ASSUME NEW c \in Batches \ {b}, pc[c] \in Writing
               PROVE  fd[c] # i
    OBVIOUS
  <2>1. output[c] # output[b]
    BY <1>1 DEF IInv, DInv, Alone, Active, Writing
  <2>2. fd[c] = temp[output[c]] /\ output[c] \in Paths
    BY DEF IInv, TInv, TypeOK, DInv, Holding
  <2> QED
    BY <2>1, <2>2, <1>2 DEF IInv, DInv, Names
<1>5. files[i] \in [Parts -> Batches \union {Earlier, Nothing}]
  BY <1>2 DEF IInv, TInv, TypeOK
<1>6. pc'[b] = "write2" => files'[i][1] = b
  BY <1>1, <1>2, <1>5 DEF IInv, TInv, TypeOK, Parts
<1>7. pc'[b] = "replace" => files'[i] = Whole(b)
  <2> SUFFICES ASSUME pc'[b] = "replace" PROVE files'[i] = Whole(b)
    OBVIOUS
  <2>1. pc[b] = "write2" /\ files' = [files EXCEPT ![i][2] = b]
    BY <1>1 DEF IInv, TInv, TypeOK
  <2>2. files[i][1] = b
    BY <2>1 DEF IInv, DInv, Written
  <2>3. files'[i] = [files[i] EXCEPT ![2] = b]
    BY <2>1, <1>2 DEF IInv, TInv, TypeOK
  <2> QED
    BY <2>2, <2>3, <1>5 DEF Whole, Parts
<1>8. \A j \in Inodes \ {i} : files'[j] = files[j]
  BY <1>1, <1>2 DEF IInv, TInv, TypeOK
<1>9. \A c \in Batches \ {b} : pc[c] \in Writing => files'[fd[c]] = files[fd[c]]
  BY <1>4, <1>8 DEF IInv, TInv, TypeOK, HasOpened
<1>10. \A p \in Paths : target[p] # Nothing => files'[target[p]] = files[target[p]]
  BY <1>3, <1>8 DEF IInv, TInv, TypeOK
<1>11. \A c \in Batches \ {b} : pc'[c] = pc[c]
  BY <1>1 DEF IInv, TInv, TypeOK
<1>12. pc[b] \in {"write1", "write2"} /\ pc'[b] \in {"write2", "replace"}
  BY <1>1 DEF IInv, TInv, TypeOK
<1> HIDE DEF i
<1> USE DEF IInv, TInv, TypeOK, DInv
<1>13. Names'
  BY <1>1 DEF Names
<1>14. Fresh'
  BY <1>1, <1>11, <1>12 DEF Fresh, Early
<1>15. Alone'
  BY <1>1, <1>11, <1>12 DEF Alone, Active
<1>16. Holding'
  BY <1>1, <1>11, <1>12 DEF Holding, Writing
<1>17. Written'
  <2>1. fd'[b] = i /\ UNCHANGED fd
    BY <1>1 DEF i
  <2> SUFFICES ASSUME NEW c \in Batches
               PROVE  /\ pc'[c] = "write2" => files'[fd'[c]][1] = c
                      /\ pc'[c] = "replace" => files'[fd'[c]] = Whole(c)
    BY DEF Written, Whole, Parts
  <2>2. CASE c = b
    BY <1>6, <1>7, <2>1, <2>2
  <2>3. CASE c # b
    BY <1>9, <1>11, <2>1, <2>3 DEF Written, Writing
  <2> QED
    BY <2>2, <2>3
<1>18. WholeFiles'
  BY <1>1, <1>10 DEF WholeFiles
<1>19. StillAbsent'
  BY <1>1, <1>11, <1>12 DEF StillAbsent, Early, Writing
<1> QED
  BY <1>10, <1>13, <1>14, <1>15, <1>16, <1>17, <1>18, <1>19

LEMMA ReplaceKeepsDisk ==
    ASSUME IInv, NEW b \in Batches, Replace(b)
    PROVE  DInv'
<1> DEFINE i == fd[b]
           p0 == output[b]
<1>1. /\ pc[b] = "replace" /\ pc' = [pc EXCEPT ![b] = "exit"]
      /\ target' = [target EXCEPT ![p0] = i]
      /\ temp' = [temp EXCEPT ![p0] = Nothing]
      /\ UNCHANGED <<output, overwrite, files, fd>>
  BY DEF Replace, Goto, commandLine, IInv, DInv, Holding, Writing
<1>2. i \in Inodes /\ i # Nothing /\ i = temp[p0] /\ p0 \in Paths
  BY <1>1 DEF IInv, TInv, TypeOK, HasOpened, DInv, Holding, Writing
<1>3. \A c \in Batches \ {b} : pc[c] \notin {"idle", "done"} => output[c] # p0
  BY <1>1 DEF IInv, DInv, Alone, Active
<1>4. files[i] = Whole(b)
  BY <1>1 DEF IInv, DInv, Written
<1>5. \A p \in Paths : target[p] # i /\ (p # p0 => temp[p] # i)
  BY <1>2 DEF IInv, DInv, Names
<1>6. \A c \in Batches : pc[c] \in Early => c # i
  BY <1>2 DEF IInv, DInv, Fresh
<1> HIDE DEF i, p0
<1> USE DEF IInv, TInv, TypeOK, DInv
<1>7. Names'
  BY <1>1, <1>2, <1>5 DEF Names
<1>8. Fresh'
  BY <1>1, <1>2, <1>6, NamesAssumption DEF Fresh, Early
<1>9. Alone'
  BY <1>1 DEF Alone, Active
<1>10. Holding' /\ Written'
  BY <1>1, <1>2, <1>3 DEF Holding, Written, Writing
<1>11. WholeFiles'
  BY <1>1, <1>2, <1>4 DEF WholeFiles, Authors
<1>12. StillAbsent'
  BY <1>1, <1>2, <1>3 DEF StillAbsent, Early, Writing
<1> QED
  BY <1>7, <1>8, <1>9, <1>10, <1>11, <1>12

\* The steps of a batch, as far as the disk is concerned.
LEMMA StepKinds ==
    ASSUME TInv, Next
    PROVE  \E b \in Batches :
                \/ Passes(b)
                \/ CheckOptions(b) /\ ~Refused(b)
                \/ OpenTemp(b) \/ WriteFirst(b) \/ WriteLast(b) \/ Replace(b)
<1> PICK b \in Batches :
        \/ CheckOptions(b) \/ Load(b) \/ RejectScenario(b) \/ CreateNodes(b)
        \/ \E outcome \in Outcomes : EndTrial(b, outcome)
        \/ TrialRaises(b) \/ CreationRaises(b) \/ OpenTemp(b) \/ WriteFirst(b)
        \/ WriteLast(b) \/ Replace(b) \/ WriteFails(b) \/ Leave(b) \/ Interrupt(b)
  BY DEF Next
<1>1. CASE \/ CheckOptions(b) /\ Refused(b)
           \/ RejectScenario(b) \/ WriteFails(b) \/ Leave(b) \/ Interrupt(b)
  BY <1>1, ExitPasses DEF CheckOptions, RejectScenario, WriteFails, Leave, Interrupt
<1>2. CASE \/ Load(b) \/ CreateNodes(b) \/ TrialRaises(b) \/ CreationRaises(b)
           \/ \E outcome \in Outcomes : EndTrial(b, outcome)
  <2>1. /\ pc[b] \in Early \ {"idle"}
        /\ \E label \in Early \ {"idle"} : pc' = [pc EXCEPT ![b] = label]
        /\ UNCHANGED <<commandLine, disk, fd>>
    BY <1>2 DEF Load, CreateNodes, TrialRaises, CreationRaises, EndTrial, Goto, Early
  <2>2. Passes(b)
    BY <2>1 DEF Passes, TInv, TypeOK
  <2> QED
    BY <2>2
<1> QED
  BY <1>1, <1>2

LEMMA NextKeepsDisk == IInv /\ Alone' /\ [Next]_vars => IInv'
<1> SUFFICES ASSUME IInv, Alone', [Next]_vars PROVE IInv'
  OBVIOUS
<1>1. TInv'
  BY NextTypes DEF IInv
<1>2. CASE UNCHANGED vars
  BY <1>1, <1>2
     DEF vars, commandLine, disk, IInv, DInv, Names, Fresh, Alone, Active, Holding,
         Written, WholeFiles, StillAbsent
<1>3. CASE Next
  BY <1>1, <1>3, StepKinds, PassesKeepsDisk, StartKeepsDisk, OpenKeepsDisk,
     WriteKeepsDisk, ReplaceKeepsDisk
     DEF IInv
<1> QED
  BY <1>2, <1>3

LEMMA InvariantHolds == Spec /\ []Alone => []IInv
<1>1. Init => IInv
  BY InitTypes, InitDisk DEF IInv
<1> QED
  BY <1>1, NextKeepsDisk, PTL DEF Spec

-----------------------------------------------------------------------------
(* The store of results. *)

\* A whole file has one author.
LEMMA ContentOfWhole ==
    ASSUME NEW p \in Paths, NEW a \in Authors, target[p] # Nothing,
           files[target[p]] = Whole(a)
    PROVE  Content(p) = a
<1>1. \A c : Whole(c) = Whole(a) => c = a
  BY DEF Whole, Parts
<1> QED
  BY <1>1 DEF Content, Authors

LEMMA InitStore == Init => Store!StoreInit
<1> SUFFICES ASSUME Init PROVE Store!StoreInit
  OBVIOUS
<1>1. \A p \in Paths : Content(p) \in {Nothing, Earlier}
  <2> SUFFICES ASSUME NEW p \in Paths, target[p] # Nothing PROVE Content(p) = Earlier
    BY DEF Content
  <2>1. files[target[p]] = Whole(Earlier)
    BY DEF Init, Inodes
  <2> QED
    BY <2>1, ContentOfWhole DEF Authors
<1>2. \A b \in Batches : pc[b] = "idle"
  BY DEF Init
<1> QED
  BY <1>1, <1>2 DEF Init, Store!StoreInit, Store!Nothing, Nothing, Store!Earlier, Earlier

\* What a path's file contains changes with the file's name or its parts only.
LEMMA ContentStays ==
    ASSUME NEW p \in Paths, target'[p] = target[p],
           target[p] # Nothing => files'[target[p]] = files[target[p]]
    PROVE  Content(p)' = Content(p)
BY DEF Content

Open == {b \in Batches : pc[b] \notin {"exit", "done"}}

\* The steps other than replacements leave every path with its content, and may at
\* most end the batch.
Quiet(b) ==
    \/ Passes(b)
    \/ CheckOptions(b) /\ ~Refused(b)
    \/ OpenTemp(b) \/ WriteFirst(b) \/ WriteLast(b)

LEMMA QuietSteps ==
    ASSUME IInv, NEW b \in Batches, Quiet(b)
    PROVE  /\ UNCHANGED <<output, overwrite>>
           /\ \A p \in Paths : Content(p)' = Content(p)
           /\ \A c \in Batches \ {b} : pc'[c] = pc[c]
           /\ pc[b] = "done" => pc'[b] = "done"
           /\ pc'[b] # "exit" /\ (pc[b] = "exit" => pc'[b] = "done")
<1>1. UNCHANGED <<output, overwrite, target>>
  BY DEF Quiet, Passes, CheckOptions, OpenTemp, WriteFirst, WriteLast, Write,
         commandLine, disk
<1>2. \A p \in Paths : target[p] # Nothing => files'[target[p]] = files[target[p]]
  BY OpenKeepsDisk, WriteKeepsDisk DEF Quiet, Passes, CheckOptions, disk
<1>3. \A p \in Paths : Content(p)' = Content(p)
  BY <1>1, <1>2, ContentStays
<1>4. CASE Passes(b)
  BY <1>1, <1>3, <1>4 DEF Passes, Early, IInv, TInv, TypeOK
<1>5. CASE ~Passes(b)
  <2>1. /\ pc[b] \notin {"exit", "done"}
        /\ \E label \in {"load", "write1", "write2", "replace"} :
                pc' = [pc EXCEPT ![b] = label]
    BY <1>5 DEF Quiet, CheckOptions, OpenTemp, WriteFirst, WriteLast, Goto
  <2> QED
    BY <1>1, <1>3, <2>1 DEF IInv, TInv, TypeOK
<1> QED
  BY <1>4, <1>5

\* A replacement gives one path the whole result of the batch.
LEMMA ReplaceDelivers ==
    ASSUME IInv, NEW b \in Batches, Replace(b)
    PROVE  /\ UNCHANGED <<output, overwrite>> /\ output[b] \in Paths
           /\ pc[b] = "replace" /\ pc' = [pc EXCEPT ![b] = "exit"]
           /\ overwrite[b] \/ Content(output[b]) = Nothing
           /\ Content(output[b])' = b
           /\ \A p \in Paths \ {output[b]} : Content(p)' = Content(p)
<1>1. /\ pc[b] = "replace" /\ pc' = [pc EXCEPT ![b] = "exit"]
      /\ target' = [target EXCEPT ![output[b]] = fd[b]]
      /\ UNCHANGED <<output, overwrite, files>>
  BY DEF Replace, Goto, commandLine, IInv, DInv, Holding, Writing
<1>2. output[b] \in Paths /\ fd[b] # Nothing /\ files[fd[b]] = Whole(b)
  BY <1>1 DEF IInv, TInv, TypeOK, HasOpened, DInv, Written, Writing
<1>3. Content(output[b])' = b
  BY <1>1, <1>2, ContentOfWhole DEF IInv, TInv, TypeOK, Content, Authors
<1>4. \A p \in Paths \ {output[b]} : Content(p)' = Content(p)
  BY <1>1, <1>2, ContentStays DEF IInv, TInv, TypeOK
<1>5. overwrite[b] \/ Content(output[b]) = Nothing
  BY <1>1, <1>2 DEF IInv, DInv, StillAbsent, Writing, Early, TInv, TypeOK, Content
<1> QED
  BY <1>1, <1>2, <1>3, <1>4, <1>5

LEMMA StepStore ==
    ASSUME IInv, [Next]_vars
    PROVE  [Store!StoreNext]_(Store!storeVars)
<1> DEFINE contents == [p \in Paths |-> Content(p)]
<1>1. CASE UNCHANGED vars
  BY <1>1 DEF vars, commandLine, disk, Store!storeVars, Content
<1>2. CASE Next
  <2> PICK b \in Batches : Quiet(b) \/ Replace(b)
    BY <1>2, StepKinds DEF IInv, Quiet
  <2>1. CASE Quiet(b)
    <3>1. UNCHANGED <<output, overwrite>> /\ contents' = contents
      BY <2>1, QuietSteps
    <3>2. Open' = Open \ {b} \/ Open' = Open
      BY <2>1, QuietSteps DEF Open
    <3>3. CASE Open' = Open
      BY <3>1, <3>3 DEF Store!storeVars, Open
    <3>4. CASE Open' # Open
      <4>1. Store!GiveUp(b)
        BY <3>1, <3>2, <3>4 DEF Store!GiveUp, Open
      <4> QED
        BY <4>1 DEF Store!StoreNext
    <3> QED
      BY <3>3, <3>4
  <2>2. CASE Replace(b)
    <3>1. contents' = [contents EXCEPT ![output[b]] = b]
      BY <2>2, ReplaceDelivers
    <3>2. overwrite[b] \/ contents[output[b]] = Nothing
      BY <2>2, ReplaceDelivers
    <3>3. b \in Open /\ Open' = Open \ {b}
      BY <2>2, ReplaceDelivers DEF Open, IInv, TInv, TypeOK
    <3>4. Store!Deliver(b)
      BY <2>2, <3>1, <3>2, <3>3, ReplaceDelivers
         DEF Store!Deliver, Store!Nothing, Nothing, Open
    <3> QED
      BY <3>4 DEF Store!StoreNext
  <2> QED
    BY <2>1, <2>2
<1> QED
  BY <1>1, <1>2

\* Provided that no two processes with one output ever run at a time (run_batch takes
\* no lock), however they are interrupted and whatever they find: at each path a
\* reader finds nothing, the file from before or the whole result of one batch, and
\* a batch replaces only what it was told to overwrite.
THEOREM ImplementsStore == Spec /\ []Alone => KeepsStore
<1>1. Init => Store!StoreInit
  BY InitStore
<1>2. IInv /\ [Next]_vars => [Store!StoreNext]_(Store!storeVars)
  BY StepStore
<1>3. Spec /\ []Alone => []IInv
  BY InvariantHolds
<1> QED
  BY <1>1, <1>2, <1>3, PTL DEF Spec, KeepsStore, Store!StoreSpec

\* As long as no two processes with one output run at a time, no interrupt, failed
\* write or left-over temporary file puts a file with parts missing, or with parts of
\* two batches that ran one after the other, at an output (_write_json_atomically).
\* Of two at a time nothing is said: they open the same temporary file.
THEOREM NoTornResult ==
    Spec /\ []Alone => [](\A p \in Paths : Content(p) # Broken)
<1>1. IInv => \A p \in Paths : Content(p) # Broken
  BY NamesAssumption, ContentOfWhole
     DEF IInv, DInv, WholeFiles, Authors, Content, Nothing, Earlier, Broken
<1> QED
  BY <1>1, InvariantHolds, PTL

-----------------------------------------------------------------------------
(* Exit codes. *)

\* Every result bears witness to as many trials as were requested.
Tallied ==
    \A b \in Batches :
        /\ pc[b] \in Early => Len(trials[b]) = next[b]
        /\ pc[b] \in Writing \union {"exit"} => Len(trials[b]) = repeat[b]

\* The result of a batch is at its output when it leaves, and nowhere before.
Delivered ==
    \A b \in Batches :
        /\ pc[b] = "exit" => Content(output[b]) = b
        /\ pc[b] \notin {"exit", "done"} => \A p \in Paths : Content(p) # b

EInv == IInv /\ Tallied /\ Delivered

LEMMA InitTold == Init => Tallied /\ Delivered
<1> SUFFICES ASSUME Init PROVE Tallied /\ Delivered
  OBVIOUS
<1>1. Tallied
  BY DEF Init, Tallied, Early, Writing
<1>2. \A p \in Paths : Content(p) \in {Nothing, Earlier}
  BY InitStore DEF Store!StoreInit, Store!Nothing, Nothing, Store!Earlier, Earlier
<1>3. Delivered
  BY <1>2, NamesAssumption DEF Init, Delivered
<1> QED
  BY <1>1, <1>3

LEMMA NextKeepsTally ==
    ASSUME TInv, Tallied, Next PROVE Tallied'
<1> PICK b \in Batches :
        \/ CheckOptions(b) \/ Load(b) \/ RejectScenario(b) \/ CreateNodes(b)
        \/ \E outcome \in Outcomes : EndTrial(b, outcome)
        \/ TrialRaises(b) \/ CreationRaises(b) \/ OpenTemp(b) \/ WriteFirst(b)
        \/ WriteLast(b) \/ Replace(b) \/ WriteFails(b) \/ Leave(b) \/ Interrupt(b)
  BY DEF Next
<1> USE DEF Tallied, Early, Writing
<1>1. ASSUME NEW code, Exit(b, code) PROVE Tallied'
  BY <1>1 DEF Exit, TInv, TypeOK, commandLine
<1>2. CASE \/ CheckOptions(b) /\ Refused(b)
           \/ RejectScenario(b) \/ WriteFails(b) \/ Leave(b) \/ Interrupt(b)
  BY <1>1, <1>2 DEF CheckOptions, RejectScenario, WriteFails, Leave, Interrupt
<1>3. CASE (CheckOptions(b) /\ ~Refused(b)) \/ Load(b) \/ CreateNodes(b)
  BY <1>3 DEF CheckOptions, Load, CreateNodes, Goto, TInv, TypeOK, commandLine, batch
<1>4. CASE \/ TrialRaises(b) \/ CreationRaises(b)
           \/ \E outcome \in Outcomes : EndTrial(b, outcome)
  <2>1. /\ pc[b] \in {"trial", "spin"} /\ pc' = [pc EXCEPT ![b] = "trial"]
        /\ \E outcome \in Outcomes : Record(b, outcome)
        /\ UNCHANGED repeat
    BY <1>4 DEF TrialRaises, CreationRaises, EndTrial, RecordRaised, Goto, Outcomes,
                commandLine
  <2>2. PICK outcome \in Outcomes : Record(b, outcome)
    BY <2>1
  <2>3. trials[b] \in Seq(Outcomes) /\ next[b] \in Nat
    BY DEF TInv, TypeOK
  <2>4. Len(Append(trials[b], outcome)) = Len(trials[b]) + 1
    BY <2>3
  <2> QED
    BY <2>1, <2>2, <2>3, <2>4 DEF Record, TInv, TypeOK
<1>5. CASE OpenTemp(b)
  <2>1. /\ pc[b] = "trial" /\ pc' = [pc EXCEPT ![b] = "write1"]
        /\ UNCHANGED <<repeat, next, trials>> /\ ~(next[b] < repeat[b])
    BY <1>5 DEF OpenTemp, Goto, commandLine, batch, MoreTrials
  <2>2. repeat[b] \in Int /\ next[b] \in Nat /\ next[b] <= repeat[b]
    BY <2>1, RepeatsAssumption DEF TInv, TypeOK
  <2>3. next[b] = repeat[b]
    BY <2>1, <2>2
  <2> QED
    BY <2>1, <2>3 DEF TInv, TypeOK
<1>6. CASE WriteFirst(b) \/ WriteLast(b) \/ Replace(b)
  BY <1>6 DEF WriteFirst, WriteLast, Write, Replace, Goto, TInv, TypeOK, commandLine, batch
<1> QED
  BY <1>2, <1>3, <1>4, <1>5, <1>6

LEMMA NextKeepsDelivery ==
    ASSUME IInv, Delivered, Next PROVE Delivered'
<1> PICK b \in Batches : Quiet(b) \/ Replace(b)
  BY StepKinds DEF IInv, Quiet
<1>0. \A c \in Batches : output[c] \in Paths
  BY DEF IInv, TInv, TypeOK
<1>1. CASE Quiet(b)
  BY <1>0, <1>1, QuietSteps DEF Delivered
<1>2. CASE Replace(b)
  <2>1. \A c \in Batches \ {b} : pc[c] = "exit" => output[c] # output[b]
    BY <1>2, ReplaceDelivers DEF IInv, DInv, Alone, Active
  <2>2. \A c \in Batches \ {b} : pc'[c] = pc[c]
    BY <1>2, ReplaceDelivers DEF IInv, TInv, TypeOK
  <2>3. pc'[b] = "exit"
    BY <1>2, ReplaceDelivers DEF IInv, TInv, TypeOK
  <2> QED
    BY <1>0, <1>2, <2>1, <2>2, <2>3, ReplaceDelivers DEF Delivered
<1> QED
  BY <1>1, <1>2

LEMMA ToldHolds == Spec /\ []Alone => []EInv
<1>1. Init => EInv
  BY InitTypes, InitDisk, InitTold DEF IInv, EInv
<1>2. EInv /\ Alone' /\ [Next]_vars => EInv'
  <2> SUFFICES ASSUME EInv, Alone', [Next]_vars PROVE EInv'
    OBVIOUS
  <2>1. IInv'
    BY NextKeepsDisk DEF EInv
  <2>2. CASE UNCHANGED vars
    BY <2>1, <2>2 DEF EInv, Tallied, Delivered, Content, vars, commandLine, batch, disk
  <2>3. CASE Next
    BY <2>1, <2>3, NextKeepsTally, NextKeepsDelivery DEF EInv, IInv
  <2> QED
    BY <2>2, <2>3
<1> QED
  BY <1>1, <1>2, PTL DEF Spec

Tells(b) ==
    LET recordedAsPass == Content(output[b]) = b /\ FinalStatusIsPass(b)
    IN  pc[b] # "done" /\ pc'[b] = "done" =>
            /\ exit'[b] = 0 => recordedAsPass
            /\ recordedAsPass => exit'[b] \in {0, Interrupted}

LEMMA StepTells ==
    ASSUME EInv, Next, NEW c \in Batches PROVE Tells(c)
<1> PICK b \in Batches :
        \/ CheckOptions(b) \/ Load(b) \/ RejectScenario(b) \/ CreateNodes(b)
        \/ \E outcome \in Outcomes : EndTrial(b, outcome)
        \/ TrialRaises(b) \/ CreationRaises(b) \/ OpenTemp(b) \/ WriteFirst(b)
        \/ WriteLast(b) \/ Replace(b) \/ WriteFails(b) \/ Leave(b) \/ Interrupt(b)
  BY DEF Next
<1> SUFFICES ASSUME pc[c] # "done", pc'[c] = "done" PROVE Tells(c)
  BY DEF Tells
<1>0. /\ pc \in [Batches -> {"idle", "load", "trial", "spin", "write1", "write2",
                             "replace", "exit", "done"}]
      /\ exit \in [Batches -> {Running, 0, 1, 2, Interrupted}]
      /\ output[c] \in Paths
  BY DEF EInv, IInv, TInv, TypeOK
<1>1. ASSUME NEW code, Exit(b, code) PROVE c = b /\ exit'[c] = code
  BY <1>0, <1>1 DEF Exit
<1>2. CASE \/ (CheckOptions(b) /\ Refused(b)) \/ RejectScenario(b) \/ WriteFails(b)
  <2>1. pc[b] \notin {"exit", "done"} /\ \E code \in {1, 2} : Exit(b, code)
    BY <1>2 DEF CheckOptions, RejectScenario, WriteFails
  <2>2. c = b /\ exit'[c] \in {1, 2}
    BY <1>1, <2>1
  <2>3. Content(output[c]) # c
    BY <1>0, <2>1, <2>2 DEF EInv, Delivered
  <2> QED
    BY <2>2, <2>3 DEF Tells
<1>3. CASE Interrupt(b)
  <2>1. exit'[c] = Interrupted
    BY <1>1, <1>3 DEF Interrupt
  <2> QED
    BY <2>1 DEF Tells, Interrupted
<1>4. CASE Leave(b)
  <2>1. c = b /\ exit'[c] = ExitCode(c) /\ pc[c] = "exit"
    BY <1>1, <1>4 DEF Leave
  <2>2. Content(output[c]) = c /\ Len(trials[c]) = repeat[c]
    BY <2>1 DEF EInv, Delivered, Tallied
  <2>3. ExitCode(c) = 0 <=> All(c, "passed")
    BY DEF ExitCode, All
  <2> QED
    BY <2>1, <2>2, <2>3 DEF Tells, FinalStatusIsPass
<1>5. CASE ~(\/ (CheckOptions(b) /\ Refused(b)) \/ RejectScenario(b) \/ WriteFails(b)
             \/ Interrupt(b) \/ Leave(b))
  <2>1. \E label \in {"load", "trial", "spin", "write1", "write2", "replace", "exit"} :
            pc' = [pc EXCEPT ![b] = label]
    BY <1>5 DEF CheckOptions, Load, CreateNodes, EndTrial, TrialRaises, CreationRaises,
                OpenTemp, WriteFirst, WriteLast, Replace, Goto
  <2> QED
    BY <1>0, <2>1
<1> QED
  BY <1>2, <1>3, <1>4, <1>5

\* Provided that no two processes with one output run at a time: one ends with 0 when, and unless it is interrupted only when, its result is
\* at its output and says that all the trials requested have passed (main: the exit
\* code; to_dict: final_status).
THEOREM ExitCodeIsTrue == Spec /\ []Alone => ExitTellsOutcome
<1>1. EInv /\ [Next]_vars => [\A b \in Batches : Tells(b)]_vars
  BY StepTells
<1>2. Spec /\ []Alone => [][\A b \in Batches : Tells(b)]_vars
  BY <1>1, ToldHolds, PTL DEF Spec
<1> QED
  BY <1>2 DEF ExitTellsOutcome, Tells
=============================================================================
