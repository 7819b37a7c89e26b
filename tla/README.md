# Verification of ros2_resilience

TLA+ models of the fault-injection harness under `src/ros2_resilience/`, model-checked
with TLC and, where the prover reaches, proved with TLAPS. Paths below are relative
to `src/`; line numbers of every definition are in `PROJECT.json` ("map").

## 1. Inventory

The program runs *trials*: a simulated robot publishes odometry, a fault injector stands
between it and a watchdog, the watchdog stops the robot when the stream degrades, and an
observer collects evidence from which a verdict is computed.

    robot --raw--> injector --faulted--> watchdog --command--> robot
                      |  ^                   |
        config_applied|  |apply_config       |status, recovery
                      v  |                   v
                 observer + run_trial  <-----+

In a trial all four nodes run in **one process on one single-threaded executor**.
`run_trial` spins it one callback at a time and, between two spins, ticks the trial's
lifecycle and calls the injector directly. Concurrency is therefore the order of
callbacks, timers, messages in flight and clock readings, never parallel code.

| Component | State | Operations | What is hard | What makes it correct |
|---|---|---|---|---|
| `faults/dropout.py` | probability | `should_drop` | randomness | never at 0, always at 1 |
| `faults/latency.py` | heap of (deadline, sequence, message), next sequence, last time, delay, jitter | `enqueue`, `pop_ready`, `flush`, `configure` | ordering under jitter, reconfiguration while messages wait, capacity, a clock of its own | deadlines fixed on entry, nothing lost, order |
| `faults/stale.py` | enabled, latest, held | `set_enabled`, `receive` | which sample is held after a switch | newest message seen in any mode, then frozen |
| `faults/injector.py` | configuration, the three above, last time, counters | `receive`, `poll`, `configure` | sequences of mode changes, refused calls | every arrival in exactly one account, nothing stranded |
| `ros/fault_injector_node.py` | injector, revision, non-decreasing clock | `_on_input`, `_on_poll`, `apply_config` | acknowledgement published once | acknowledged means applied |
| `health/watchdog.py` | arrivals in window, first and last arrival, newest stamp, latched reason | `record_arrival`, `check`, `reset` | ramp and window boundaries, clock set back, old stamps | no false alarm, detection in time, alarm kept |
| `ros/watchdog_node.py` | evaluator | `_on_input`, `_on_check` | lost commands | stop repeated until it arrives |
| `robot/model.py`, `ros/robot_node.py` | pose, velocity | `set_command`, `step`, timer | - | the last command holds |
| `core/experiment.py` | lifecycle state, six times, error | `start`, `mark_ready`, `on_config_applied`, `fail`, `tick`, `finish` | late ticks, late or repeated acknowledgements | one history, each instruction once |
| `ros/experiment_runner_node.py` | loops, deadlines, observer, events | `run_trial`, observer callbacks | lost acknowledgements, exceptions in callbacks, drain | trials end; a verdict only on full evidence, and the right one |
| `core/events.py`, `metrics.py`, `assertions.py` | list of events | pure functions | windows, boundaries, late evidence | verdict stable and as documented |
| `core/results.py`, `batch.py`, `run_batch` and `main` | outcomes of the trials, output file and the temporary one beside it | `run_batch`, `_write_json_atomically`, exit code | interrupts between any two steps, failed writes, leftovers, concurrent batches | a reader finds whole results only; exit code agrees with the file |
| `core/scenario.py`, `validation.py` | one scenario | parsing, cross-field rules | rules that are too weak | what is accepted can be run |
| `launch/*.launch.py` | - | starts the nodes without a runner | no fault is ever applied | - |

Interactions: topics (odometry with the SENSOR_DATA profile, best effort and the last five
samples kept, the others reliable but without history for late subscribers), direct calls (`apply_config`, `tick`), and callbacks into the runner
(`on_event`, `on_config_applied`). The hazards this exposes the code to are listed, each
at its line, in `PROJECT.json`.

## 2. Modules and how they correspond to the code

| Module | Models | Correspondence |
|---|---|---|
| `FaultInjector` | injector, dropout, latency queue, hold | One action per outcome of `receive` (`ReceivePlain`, `ReceiveDropoutKept`, `ReceiveDropped`, `ReceiveDelayed`), `Poll`, `Configure`, and one per exception (`RefuseTime`, `RefuseOverflow`, `RefuseSeed`). The heap is a set; a list taken from it is its one arrangement in the order of the heap (`PopsBefore`) or of the flush (`FlushesBefore`). |
| `MessageLedger` | the promise of the counters | Abstract specification; `FaultInjector!KeepsLedger` is the refinement. |
| `Watchdog` | evaluator and the clock its node reads | `RecordArrival`, `RefuseArrival` (ValueError), `Check`, `Reset`; `Tick`/`StepBack` are the ROS clock. The code divides floats to compare the loss with what is tolerated; `Excess` is their exact difference, in whole numbers, and within `Rounding` of equality a check may find either (`Findings`): on equality it always may, as 1 - 1/1.5 is above 1/3 in floats. |
| `TrialLifecycle` | `core/experiment.py` | One action per method and per branch of `tick`; `Refuse` stands for every LifecycleError. Guards of the ticks are named (`ReadinessDue`, `AckOverdue`, `DeactivationDue`, ...). |
| `TrialRun` | `run_trial` on top of `TrialLifecycle` | `pc` is the loop; each `spin_once` is one step, each test and tick after it another, since time may pass between them (the code reads the clock anew). `Apply` is `apply_config`; an acknowledgement may be lost or stay in flight. `Abort` is an exception out of a callback. |
| `Evidence` | events, metrics, assertions | The list grows by `Emit` (the observer's `_emit`); every assertion is a state function of the list. |
| `ClosedLoop` | the three nodes on their topics | Instances of `FaultInjector` and `Watchdog` (their actions, unchanged) plus the robot and the queues between them. `Overwrite` is a subscription that holds more than it keeps (`Depth`; 5 in the code). `SessionSpec` is the launch file: the same nodes, no runner. |
| `WholeTrial` | everything of one trial | Extends `ClosedLoop` with instances of `TrialLifecycle` (its actions, unchanged) and of `Evidence` (its state functions, over what the observer heard of the nodes). `TickLifecycle` is a tick and the `apply_config` it asks for; `Kept` is what the observer's subscription keeps of the samples that one call publishes; `Conclude` is the end of the drain, after which the assertions are evaluated. |
| `Batches` | `main`, `run_batch`, `_write_json_atomically` | One action per statement that another process or an interrupt can come between. A file is an inode with two parts and directory entries name inodes, so that what an interrupted writer leaves, and who writes into whose file, is visible. An exit clears what the process remembers. |
| `ResultStore` | the promise of the output files | Abstract specification; `Batches!KeepsStore` is the refinement. |
| `ScenarioRules` | `parse_scenario`, and what its users take for granted | One action per section, in the order they are read; `Compare` is the comparison of sections. `AcceptedCanRun` states what the constructors, timers, `_build_fault_config`, lifecycle and assertions require, with their conversions to nanoseconds (`Nanoseconds`), of scenarios `WithinLimits`. |
| `MC...` | small instances | Values of constants; `MCFaultInjector` and `MCWatchdog` add history variables that the properties speak about. |
| `...Proofs` | theorems | see section 5. |

Common abstractions. Nanoseconds are small natural numbers; messages are named by their
place among the arrivals, or by their stamp; random draws are nondeterministic choices;
wording of results and type checks of arguments are left out, since no caller passes a
wrong type. `ClosedLoop` has one clock for monotonic and ROS time (`Watchdog` alone is
checked with a clock that is set back). `Evidence` keeps a velocity only as "below both
thresholds or not".

The odometry streams are best effort and a subscription keeps the last `Depth` samples. All
nodes are in one process, where what is lost is what is overwritten before the executor
runs the callback. A raw sample is taken in before the next one comes, so that the raw
stream never has two on their way; the faulted stream may have many, because
`apply_config` publishes all that a delay held back inside one callback:
`scenarios/delayed_odometry_stop.yaml` (0.5 s at 20 Hz) flushes about ten. The watchdog then
misses the oldest ones (`Overwrite`; it may also run in between and miss fewer), and so does
the observer (`Kept`, which does not overwrite what was published earlier in the tick of the
flush). A poll, unlike a flush, never releases more than fit (`JitterAssumption`). Where the
delay is short enough for its samples to fit (`Fits`) nothing is lost; `Tolerated` asks for
that.

In `WholeTrial` a topic takes 0 or 1 tick to the observer, one choice per topic that lasts
for the trial, and apart from overwritten samples nothing is lost once both odometry streams
have been heard; the runner ticks once per tick of the clock. What happens without that (lost and late
acknowledgements, raising callbacks, late ticks) is in `TrialRun`, where only the outcome
of the lifecycle matters and not the evidence. In `ScenarioRules` a rate is the period it
stands for, a probability is in percent, and the shape of a section (mapping, unknown
keys, strings) is one Boolean. Whether ROS takes the names of its topics (`properNames`) is
another, about which the validation does not ask, and times have two limits: `FloatLimit`,
beyond which their nanoseconds are no finite float and the conversion raises, and
`TimerLimit`, beyond which a timer refuses its period. Times below half a nanosecond become
0 ns, which nothing refuses; they are not told apart from others.

Operators named `Faulty...` are in no specification. Each is an operator of the same
module as a plausible bug would have it, and substituting it makes a property fail: see
"mutants" in `PROJECT.json`. They record what each property is able to notice.

## 3. Runs

| Run | What it shows | Distinct states |
|---|---|---|
| `MCFaultInjector.cfg` | Seven configurations (every mode, jitter, a suspended latency, an external generator that refuses a new seed): accounts balance, nothing is stranded or repeated unduly, the stream is reordered by jitter and delay only, deadlines and held samples are kept, overtaking ends with latency mode, the ledger is implemented. | 1.07 million |
| `MCWatchdog.cfg` | Two worlds. Arbitrary stamps, a clock that is set back, resets: freshness follows the newest content, the alarm is permanent. A stream that is late by at most `Lateness`: never flagged, whichever way floats are rounded, no arrival in the window forgotten. | 1.49 million |
| `MCTrialLifecycle.cfg` | A caller that calls anything in any order: states and all six times, once recorded, are kept, durations, one instruction each. | 219 000 |
| `MCTrialRun.cfg` | Lost and late acknowledgements, streams that never start, callbacks that raise: trials end, are judged only on full evidence and fail only by timeouts. | 20 000 |
| `MCEvidence.cfg` | Every list of up to four events: the scan of the hold agrees with its definition, evidence after the last deadline changes no result that stands, further evidence takes back nothing that was shown. | 3.56 million |
| `MCClosedLoop.cfg` | Stale, total dropout, long and short delay, and no fault: no alarm without cause, detection within `MaxAge` and a check, the robot stopped for good; no sample doubled, none lost between the nodes where one delay fits a subscription, none pending beyond what the delay explains. | 67 000 |
| `MCWholeTrial.cfg` | The verdict is the right one: a fault that hides the robot makes its trial pass, a tolerated one makes it fail, and where none was applied none is seen. | 576 000 |
| `Batches.cfg` | Two processes, with one output (one after the other) or two, interrupted anywhere: the store of results is kept and the exit code agrees with the file. | 231 000 |
| `MCScenarioRules.cfg` | Values on both sides of every boundary: what is accepted, with proper names and within the limits, can be run. | 2.90 million |
| `MCLaunchSession.cfg`, `BatchesTopics.cfg`, `MCScenarioDeadlines.cfg` | **Violations**: see section 6. | - |

`Conservation` has no run of its own because `KeepsLedger` implies it, nor has the
lifecycle's `TypeOK`, a conjunct of the `RunTypeOK` that `MCTrialRun.cfg` checks; both are
theorems.

Bounds and why they suffice:

* *Injector*: capacity 2 with 4 arrivals fills the queue, refuses one and refills it;
  5 instants exceed every delay, so early, equal and late deadlines occur; any two modes
  may follow one another any number of times.
* *Watchdog*: in the wild world 7 instants against a window of 5 let arrivals be pruned,
  and 3 arrivals distinguish newest, old and equal stamps. In the healthy one 24 instants
  and 12 arrivals are more than four windows, so the ramp, a full window and pruning all
  occur; the window is no multiple of the period. Age and tolerance leave the least slack
  that these small numbers have (`LatenessAssumption`): the ramp is short by 1 of 3 where 2
  of 5 are tolerated. `Rounding` is 0, so that on equality the verdict is open and nowhere
  else.
* *Lifecycle*: 10 instants exceed the longest scenario with a late tick at each deadline;
  one scenario has all durations zero (rounding to nanoseconds can make them so).
* *Trial*: the clock stops at most `MaxLate` after the deadline a loop waits for; that is
  one tick late per loop, enough for the end of a fault and of the observation to be due
  together. `MaxTime` 20 is never reached.
* *Evidence*: a chain needs violation, recovery and command, a hold at most a stop, two
  samples and the deadline, an edge of a window one event on each side: four events of
  six kinds. The clock runs past every deadline.
* *Closed loop*: 12 ticks hold baseline, fault, withdrawal and what follows. Samples come
  every second tick, checks run at least once per tick. With a `Depth` of 2 the flush of
  the long delay (4 ticks) is one sample too many, that of the short one fits, here and in
  the whole trial.
* *Whole trial*: 20 ticks hold readiness, baseline, an observation of 10 ticks and the
  drain. What a trial tolerates is not chosen for the instance: `Tolerated` is
  `Tolerates(delay + jitter)`, the condition the proofs are about. Nor is what its
  deadlines must leave room for: `FaultTrialPasses` is about the faults of which
  `LeavesRoom` holds, and here it does of all that hide the robot, each deadline being the
  least for which it does and the window of the fault ending a tick before the fault does:
  were the two equal, TLC would find a stale trial that fails, because the first fresh
  sample falls into the window. Nothing in the validation asks for this room; that is listed
  as a hazard.
* *Batches*: two processes and two paths give every relation between options; two trials
  are the least with a first and a last; no trial at all is refused. `Exclusive` lets no
  two processes with one output run at a time. That is a condition on their use which the
  code does not enforce: it takes no lock, and without the condition `KeepsStore` fails,
  because two writers open one temporary file.
* *Scenario rules*: seconds 0..2 make every comparison come out below, equal and above;
  percents step over both ends of the range. What is only checked for itself (0, 1, 3) is
  refused, fits, or is beyond the limits of timers and of floats.

Deadlock is checked except where the modelled system ends: trials (`MCTrialRun`,
`MCWholeTrial`), bounded evidence, processes that exit (`Batches`) and scenarios that are
accepted or rejected.

## 4. Fairness

* `TrialRun`: weak fairness of the clock and of the runner's thread. Nothing is assumed of
  streams or acknowledgements: `TrialEnds` holds because of the timeouts alone.
* `ClosedLoop`: weak fairness of the watchdog's check, a timer that the executor runs
  again and again; strong fairness of the delivery of a command, because the command topic
  is reliable once its two ends have found each other, so that of commands published for
  ever not all are lost. No fairness of anything else.

All other properties are safety properties.

## 5. Proofs

Checked by TLAPS for all values of the constants, from the named assumptions on them
(`ConfigsAssumption`, `MaxPendingAssumption`, `PeriodsAssumption`, `ScenariosAssumption`,
...), which state what the constructors and the validation enforce.

* `FaultInjectorProofs`. `TypeOK`, `Conservation`, `PendingOnlyWhileDelaying`,
  `InnerClockNeverAhead` and `LatestIsNewestArrival` are proved together as the invariant
  `IInv`, strengthened by two facts: the hold is on exactly when the configuration says
  so (needed for what a switch does to the held sample), and all sequence numbers in the
  queue are below the next (so that a new entry is new and the count goes up by one).
  Lemmas about arrangements (`ListType`, `ListIsComplete`, ...) say that a list taken
  from the queue has as many messages as the set it came from and leaves none out. From
  `IInv` follow the action properties `HeldSampleFrozen` and `PendingKeptOrEmitted`, and
  `ImplementsLedger`: every step of the injector is a step of `MessageLedger` or
  stutters. About the histories of `MCFaultInjector`: a step sends one message, releases
  the due part of the queue, switches the configuration or sends nothing (`StepKinds`).
  `SInv` says that sequence numbers in the queue are in the order of the messages, that
  what waits was not sent yet unless as a held sample, and that a held sample is the
  newest of all that was sent: no message is sent twice, and order returns when latency
  ends. `OInv` adds, for the case of one constant delay, that deadlines are in order of
  arrival and that what waits is behind what was sent.
* `WatchdogProofs`. `IInv` adds that the three times are set together, which is what
  `check` asserts (lines 114-115). From it follow `TypeOK`, `AlarmNeedsTraffic` and
  `LatchIsPermanent`, with a clock that may be set back at any time. About the two worlds
  of `MCWatchdog`, for any periods, windows, tolerances and lateness:
  `HealthyNeverFlagged` is an argument by counting: the stream is regular (message k is
  stamped k periods from the start and arrives within `Lateness` of it), the clock waits
  for the message that is due, and the evaluator remembers all arrivals in its window; so
  the arrivals counted by a check contain a run of consecutive messages whose length is
  bounded from below, both on the ramp and for a whole window. `LatenessAssumption` is
  `Tolerates(Lateness)`, the three inequalities this needs: one for the age, one for the
  ramp, one for the window. The last two are strict and leave `Rounding` to spare, without
  which the floats of the code may flag a healthy stream.
* `TrialRunProofs`. Of the lifecycle alone, `IInv` adds `Phases` (which times are set in
  which state) and `Ordered` (no recorded time is ahead of the clock), without which none
  of the properties of finished trials is inductive. It gives `FaultLastsItsDuration`,
  `DeactivatedBeforeFinish`, `FullObservation`, the action properties `HistoryIsKept` (of the
  state and all six times) and `EachActionOnce`, and two facts no run lists: the assertions at the head of each tick
  never fail (`AssertionsHold`) and activation follows its request
  (`ActivationFollowsRequest`). The runner drives the lifecycle by its calls only, so the
  lifecycle's `IInv` is kept (`CallKeeps`, `NextKeeps`). To it come `Places` (where the
  runner is in which phase), `Drained` (the last loop outlasts the observation),
  `Applied` (revision and fault of the node are what was asked of it last) and
  `Verdicts`. All five safety invariants of the run follow.
* `BatchesProofs`. Types hold whatever is shared. All other theorems are about behaviours
  in which no two processes with one output run at a time, which they say themselves
  (`[]Alone`); nothing is proved of two that do, and what they can do to one another is
  listed as a hazard. `ImplementsStore` rests on an invariant about inodes: an entry at a path and one at its temporary name
  never name one inode, the temporary file of a path belongs to the one process that has
  it open, its parts are written by that process alone and up to where its label says, and
  what is at a path is whole; a path found empty by a batch that must not overwrite is
  still empty when it is replaced. `NoTornResult` is what a reader is interested in.
  `ExitCodeIsTrue` adds that a result has as many outcomes as trials were requested and
  that it is at its output when its batch leaves, and nowhere before.
* `EvidenceProofs`. A new event bears the latest time and the last index, so the first of
  a set of events, where there is one, stays the first; from this `EvidenceNeverErased`
  follows for any deadlines and lists of any length. `HoldScanFindsFirst`: the scan of the
  hold is a fold over the commands, and what it has found after n events is proved by
  induction over n, a natural number, so that no induction over lists is needed.
  `VerdictSettles`: an event that comes after the last deadline is outside every window, and
  so in none of the sets the assertions choose from - with exceptions. A first violation
  after its deadline fails its own assertion and yet is what `recovery_command_published` and
  `recovery_command_observed` count from; a first stop after its deadline fails
  `robot_stopped` and yet starts the hold. These three results can change while the executor
  is drained. `Standing` counts them only where the assertion they rest on holds; what is so
  counted does not change, and the verdict is its conjunction as it is that of the results
  (`VerdictOfStanding`), so that the verdict does not change either (`VerdictNeverTurns`).
* `ClosedLoopProofs`, for every fault, every order of the callbacks of a tick and messages
  without number. `Plumbing` says what is in flight where. `Calm`, for a trial without a
  fault or with a tolerated one, keeps the accounts: each sample is pending, in flight or
  has arrived, and none later than the lateness of the fault; the counting lemmas of
  `WatchdogProofs` then apply, by INSTANCE, with the transport as lateness. `Hidden`, for a
  fault that hides the robot: all the watchdog can come to see is from before the fault or
  older than `MaxAge` when it arrives, so that freshness runs out (`Detected`), and no
  command is in flight or obeyed without an alarm (`Obeyed`). From these
  `NoAlarmWithoutCause` and `DetectedInTime`. `StreamAssumption` is that the watchdog is set
  up for the robot's rate, `Tolerates(0)`; `BoundsAssumption` has the fault applied after the
  first tick, since the runner waits for samples first.
  What the alarm is called takes `InOrder`: until all from before the fault is too old, the
  n-th arrival is no newer than the n-th sample and none is missed, so a watchdog that
  tolerates samples as late as `MaxAge` allows complains of age and not of loss, after the
  fault was applied (`AlarmsNameTheirCause`, which the verdict depends on).
  `Conserved` keeps the accounts under any fault, across its application and withdrawal
  (`SamplesAreConserved`): they never hold more than was received, and hold all of it where
  the samples of one delay fit a subscription, because then the queue and what is on its
  way are together never more than `Depth` when it is flushed. `Undue`, that nothing pending was due when the newest sample was
  received, leaves room for as many samples as come in one delay and no more, by the pigeon
  hole principle (`DelayBoundsQueue`): the queue's 1000 places last for delays, jitter
  included, of up to 999 periods. With the accounts no bound of a part is ever met, so that
  each step of the loop is a step of the injector's specification and of the watchdog's, or
  a stutter (`LoopImplementsInjector`, `LoopImplementsWatchdog`): what is proved of them in
  the modules above holds of those in the loop.
* `ScenarioRulesProofs`. The invariant has what each section satisfies once it is accepted,
  and what the comparison of sections adds; `AcceptedCanRun` follows for all numbers and
  limits, of the accepted scenarios that have proper names and times within the limits. The
  assumptions only keep apart what is not a number (`NumbersAssumption`) or not a
  number's section (`SectionsAssumption`), and make numbers of the limits
  (`LimitsAssumption`).
* `WholeTrialProofs`. Every step of a trial is a step of the closed loop or leaves it alone
  (`StepsOfLoop`), so the loop's invariant holds in trials, and trials implement the
  specifications of its parts (`TrialsRunTheParts`). To it come `Published` (what has been
  published and when), `NoAlarms` (none is published where the loop raises none) and
  `Untouched` (where nothing was applied, each sample is on both streams once, as late as
  any other). What the observer has heard is, kind by kind, a prefix of that, and the
  assertions are about the list of these. `QuietTrialIsQuiet` and `NothingShownUnapplied`
  follow for all faults, lags and deadlines.
  `FaultTrialPasses` takes `FaultInv` (`FaultInvariance`), in three groups. What the
  watchdog does: each check that finds a violation publishes it with its recovery and its
  command (`Alarms`), one at every tick from the first on, within which the robot stops
  (`Stopping`), and the first comes no later than `MaxAge` and a check after the fault
  (`Soon`). When the runner
  does what: the lifecycle's times, the loop's and those of the acknowledgements agree
  (`Schedule`, `Administered`). What the fault does to the samples: there is a last one it
  let through as it was, after which it drops all and counts them, sends that one again for
  each, or delays the next by as much as it says (`Shown`, with `Waiting` and `Counted`). A
  judged trial lies far enough behind all of these for the observer to have heard
  them, and the assertions follow one by one: no violation is heard before the activation
  (`NoneTooEarly`); the first one heard is the alarm's, within its deadline
  (`DetectionIsFirst`); of the repeated commands one is heard soon after it
  (`RecoveryFollows`); the samples after that are stopped ones, close enough together for
  the hold (`StopIsHeld`); and the fault shows (`FaultShows`): a total dropout because the
  faulted samples of the window map one-to-one into the raw ones, with some to spare, and
  the count goes up; a delay by the first sample it delays; a hold by the stamp it repeats.

  The proof corrected what its deadlines were thought to need. With `Hold` 0 it is not
  enough that the hold ends with the drain: the sample that shows the stop can fall due in
  the very tick of the judgement and be missed (TLC confirms it for `MaxAge` 5, an
  observation of 8 and no drain). And where the tolerance exceeds the delay, so that a
  delayed sample need only be heard no sooner than the raw one, topics that differ by more
  than the delay could still swap the two; `LeavesRoom` excludes that as well.

`LatestIsNewestArrival`, `AlarmNeedsTraffic`, `FullObservation` and `NoTornResult` are
proved and in no run. Every safety property of a run that passes is proved.

Only model-checked: liveness (`TrialEnds`, `AlarmStopsForGood`), which the prover does not
do, and that the three violations of section 6 occur.

## 6. Findings

1. `launch/resilience_trial.launch.py:3-4` promises a session "with the fault applied for
   the whole session". No node it starts can apply one: the injector comes up disabled and
   has no interface for reconfiguration in a process of its own. `MCLaunchSession.cfg`
   shows a session for a scenario with a fault whose messages pass untouched. The note the
   same file prints (lines 78-83) says what really happens.
2. `ros/experiment_runner_node.py:3-5` says that topics are namespaced by trial id, so that
   trials do not share ROS graph state. They are namespaced by the index of the trial in
   its batch (line 272). `BatchesTopics.cfg` shows two batches at work on trials of one
   index.
3. `tests/unit/test_validation.py:68` is named
   `test_deadline_exceeding_observation_window_is_rejected`. Deadlines of the recovery count
   from the detection; `observed_within_sec` is compared as if it counted from the
   activation (`core/validation.py:328`), and `command_within_sec` not at all.
   `MCScenarioDeadlines.cfg` shows a scenario accepted with a deadline beyond the end.

Observations that the properties are stated around, none of them contradicting the code's
own documentation: a full latency queue refuses an arrival even when due entries would make
room (`RefuseOverflow`); when an acknowledgement times out the fault is left applied until
the node is destroyed; the watchdog never flags a stream that never started; nodes created
before one that fails to be created outlive their trial (`CreationRaises`); two batches
with one output overwrite one another; a fault whose delay holds back more than five samples
loses some when it is withdrawn; results that had failed may still pass in the drain, though
the verdict does not change; the validation takes scenarios that cannot be run: times such as
1e300 s, of which the conversion to nanoseconds overflows, rates whose period no timer
holds, topic names such as `odom raw`.

## 7. Not modelled

* Argument type checks, JSON and YAML decoding, wording, logging, process start-up, signals
  other than the interrupt.
* The pose of the robot (floating-point, unused by the rest).
* The metrics that are only reported, aggregates over a batch, seeds of trials and the hash
  of the scenario: pure functions that nothing branches on.
* The scenario file is read twice (for its text and for its contents); file contents other
  than results are not in `Batches`.
* The capacity of the queue in `ClosedLoop`, where it is out of reach: `DelayBoundsQueue`
  says what a delay needs. The validation compares neither with the other.
* Packaging, continuous integration, media.

## 8. Plan

Done: all modules; proofs of every safety property that a passing run checks. Left, in
order of importance:

1. `WholeTrial` with lost status messages, where a trial may fail but must not pass wrongly.
2. That the lifecycle of `WholeTrial` implements `TrialLifecycle`. There the clock moves with
   the calls; in a trial it also moves between them, so the refinement needs a variable for
   the time of the last call.
3. A node that outlives its trial, to say what a fault left applied after a timeout does.
