# dlq_inspector in TLA+

`dlq_inspector` moves messages out of a dead-letter queue (DLQ): one at a time
with `dlq replay` and `dlq patch`, or in bulk with a recovery plan (`dlq plan`,
`dlq recover`), which `dlq rollback` can undo. Its promise is at-least-once
delivery. A message is published to its destination first and removed from the
DLQ only after the broker has confirmed the publish; every outcome leaves a row
in a local audit trail.

This directory models what makes that promise hard to keep: publishes whose
confirm is lost, acks that fail or never arrive, processes that die between two
steps, destinations that are missing, several workers and several operators on
one queue, a broker without random access, messages that come back after a
recovery or a rollback, and the layers that decide what a plan may hold. It also
models what runs on the operator's machine: the configuration file and the
self-update. TLC checks the models on small instances, and TLAPS proves every
safety and action property of the passing runs for all instances.

Contents: 1 inventory, 2 modules, 3 runs, 4 fairness, 5 proofs, 6 findings,
7 what is not modelled, 8 plan.

## 1. Inventory

| Part (under `src/internal/`) | State | Operations | Modelled by |
|---|---|---|---|
| recovery executor, `recovery/executor.go` | report, batch results, work channel, worker goroutines | `Execute`, `runBatch`, `process`, `filterCompleted`, `snapshot`, `audit` | `RecoveryExecutor` |
| plan validator, `recovery/validator.go` | none | `Validate` (exists, schema, duplicate, destination) | `RecoveryExecutor` (`NotFound`, `BadSchema`, `Duplicate`) |
| broker contract, `broker/broker.go` | DLQ, destination | `Inspect`, `Publish`, `Ack`, `Stats`, `Search` | `Broker` |
| RabbitMQ adapter, `broker/rabbitmq` | AMQP connection, channel per Ack | scan, ack and requeue; pages of the management API | `RabbitQueue`, `Broker`, `SafetyGate` |
| Redis Streams adapter, `broker/redisstream` | none beyond the stream | `XRANGE`, `XADD`, `XDEL` | `Broker` (outcomes only) |
| audit store, `audit/store.go` | tables `audit` and `snapshots` | `Append`, `SaveSnapshot`, `Replayed` | `AuditStore` |
| duplicate evidence, `dedupe` | none | `CheckAudit` | `AuditStore` (`Replayed`) |
| safety gate, `safety/safety.go` | none between calls | `DryRun`, `Execute` | `SafetyGate` |
| commands `replay`, `patch`, `recover`, `plan` | a 15 s context, the operator's answer | prompt, preview or confirm | `SafetyGate`, `RecoveryExecutor` |
| rollback, `recovery/rollback.go` | none | `Rollback`, `snapshotMessage` | `Lifecycle` |
| classifier and policy, `recovery/classifier.go`, `policy` | the rules of a policy file | `Classify`, `ClassifyWithPolicy`, `Match`, `Parse` | `Classifier` |
| Jev, `recovery/jev.go`, `jev` | an answer cache and a call counter | `ConsultsJev`, `MapResponse`, `resolveJev` | `Classifier`, `Planning` |
| analyzer and planner, `recovery/analyzer.go`, `planner.go` | failure groups, the plan file | `AnalyzeWithContext`, `BuildPlanWithContext` | `Planning` |
| commands `analyze`, `plan` | flags, profile | limits, groups, destination, audit row | `Planning` |
| configuration, `config`, commands `connect`, `jev`, `policy` | `~/.dlq/config.yaml` | `Load`, `Save`, `Profile` and the changes | `ConfigFile` |
| self update, `selfupdate` | binary, staged file, Windows script | `Resolve`, `Plan`, download, `Verify`, install | `SelfUpdate` |
| patch and diff, `patch` | none | `ApplySet`, `Diff` | abstract edit in `SafetyGate` |
| message model, search filter | none | mapping, matching | records in `Planning`, `Lifecycle` |
| read-only commands, seeding, installers | none | rendering, sample data | not modelled |

How the parts interact:

- The commands open a broker and the audit store and call the gate (one
  message) or the executor (one plan) under one context with a 15 s deadline.
- The gate and the executor call the broker synchronously, in the order
  inspect, publish, ack, and write audit rows whose errors they drop.
- The executor's worker goroutines share a channel of batch indices, the rate
  limiter, the broker connection and the audit store. The main goroutine waits
  for them after each batch and runs the circuit breaker.
- The validator and `filterCompleted` read the trail earlier runs wrote
  (`Replayed`), so the store is also the memory of the engine across runs.
- The executor's snapshots are rollback's input; a message rollback restores is
  listed, classified, planned and recovered again, and the trail still has the
  rows of its first recovery.
- `analyze` and `plan` run the same classification; the group an operator reads
  in an analysis is what `plan --group` selects by.
- Every command resolves its profile (URL, masked fields, policy, Jev) from the
  configuration file, which other commands rewrite.
- Nothing synchronises two processes of the tool. They meet in the broker, in
  the store, in the configuration file and in the directory of the binary.

What must hold, part by part:

- *Executor.* No message is lost, whatever fails and wherever the process dies.
  Copies stay bounded and are traced. Evidence of a replay is respected. The
  summary adds up, and a run ends.
- *Gate.* The same for any number of concurrent commands on one message; the
  trail says what was done to the queues and nothing else.
- *RabbitMQ adapter.* Taking a queue apart to find one entry loses, doubles and
  reorders nothing; a call returns; a peek shows the queue.
- *Rollback.* What the trail calls recovered is put back; evidence follows a
  message around the circle, and a restored entry knows where it is to go.
- *Planner and classifier.* The precedence of header, policy, Jev and rules;
  nothing marked `DO_NOT_REPLAY` is planned; a plan of a group is that group;
  a plan without `--destination` sends nobody elsewhere.
- *Configuration.* Acknowledged changes survive the other commands' changes;
  no command shows a field its owner listed as sensitive.
- *Self-update.* Only verified binaries are installed, only upgrades without
  `--force`, and there is a binary to run.

`PROJECT.json` lists the hazards, each with its line and the properties that
cover it, or a note that says why none does.

## 2. Modules

```
Environment                    messages, kinds of faults
 |- Broker                     the calls and their outcomes, by counts
 |- AuditStore                 rows and snapshots
 |   `- SafetyGate ----------------.
 `- Broker + AuditStore            |  implement   AtLeastOnce
     `- RecoveryExecutor ----------'              (abstract promise)
RabbitQueue                    one queue, entry by entry
Lifecycle                      one message, entry by entry, around the circle
Classifier                     header, policy, rules, Jev's verdict
 `- Planning                   analyze and plan, message by message
Processes                      the processes of one machine
 |- ConfigFile ---.
 `- SelfUpdate ---+- Workstation
```

**`AtLeastOnce`** is the abstract specification: how many copies of a message
are in the DLQ and at the destination, and how many confirmed publishes have
not been used yet (`owed`). An entry is removed only by using one.
`RecoveryExecutor` and `SafetyGate` instantiate it with
`owed` = the workers or commands between a confirmed publish and its ack.

**`Broker`** gives each call every outcome the adapters can produce. A publish
may be refused, or stored with its confirm lost; a publish to a queue that is
gone is confirmed and dropped, as `executor.go` and `safety.go` say of RabbitMQ.
An ack may fail before or after it took effect, and because `basic.ack` has no
reply it may return without an error and remove nothing. A queue is a count per
message ID, which is all the executor can tell apart. The constant `Faults`
selects the faults of an instance; a call made after the context has expired
may always fail.

**`RecoveryExecutor`**: one action per step of `Execute` and `process`.

| Code | Action or state |
|---|---|
| `Execute` up to the probe | `Start` |
| `Validate`, `filterCompleted`, rows of skipped and excluded messages | `Validate`, `ValidateFails` |
| batch loop, end of the loop | `NextBatch`, `Complete` |
| work channel and limiter | `pending`, `Take`, `TakeWithoutToken` |
| `process` | `InspectMessage`, `Publish`, `PublishAgain`, `PublishGivesUp`, `Ack`, `AckFailed`, `Snapshot`, `AuditSuccess` |
| `wg.Wait()`, counting, breaker | `NextOrDone`, `Trip` |
| process death, deadline | `Crash`, `Expire` |
| consumers, operators and administrators | `Elsewhere` (from `Broker`) |

The plan is a list, as in the plan file, and may name an ID at two places (a plan
over a deep RabbitMQ queue does, see section 6). The executor attempts each place
and reports on each, and batches take the places in their order, so what the
workers share are places, and two workers may process one message at once. The
store may drop writes (`"store"`), and reads of the trail may fail (`"query"`): a
resumed run then goes on with the message (`filterCompleted` fails open,
`Unreadable`), while the duplicate check ends the run (`ValidateFails`). `removed`
(the places whose ack returned, by run) and `unread` (the places whose evidence a
resumed run failed to read) are history variables.

**`SafetyGate`**: commands 1..`MaxCommands`, each with its own context. Payloads
matter here, so a queue is a sequence of bodies per message ID; a body records
the patches it carries and whether the management API cut it off. `Begin` is
the command line, `Read` the inspection of `dlq patch`, `Preview` is `DryRun`,
`Answer` the prompt, and `Inspect`, `Probe`, `Publish`, `PublishFailed`, `Ack`,
`AckFailed`, `Audit` are `Execute` from top to bottom. `Acked` is the set of
entries an Ack recognises: a truncated message without an ID of its own hashes
differently in the two read paths. `touched` is a history variable.

**`RabbitQueue`**: entries numbered by age. `BeginAck`, `Get`, `Drained`,
`AckTarget`, `Requeue`, `ReturnFromAck` are the adapter's `Ack`; `BeginPeek`,
`Page`, `PutBack` are `peekMessages`; `Breaks` closes a channel at any point,
`Arrive` dead-letters another message. `overlapped` is a history variable.

**`Lifecycle`** takes up where `RecoveryExecutor` stops counting. An entry is a
record: its key (age, and the entry ID of a stream), the message it is a copy
of, the `message-id` property, the queue `x-death` names or the `destination`
field of a stream entry, and the `x-destination` header. The store may drop rows
and snapshots, as every caller ignores its errors, and reads of the trail may
fail. `last`, `due`, `put`, `unsaved` (replays whose snapshot was not saved) and
`blind` (messages a recovery attempted without having read the trail) are history.

| Code | Action or operator |
|---|---|
| `messageIDFromParts`, `toMessage`, `Publish` of both adapters | `MessageID`, `Destination`, `Written`, `Store` |
| `plan` | `MakePlan` (what a plan may hold; how it is chosen is `Planning`'s) |
| `Execute`, `process` | `Recover` (`Unread`, `Attempts`), `Inspect`, `PublishConfirmed`, `PublishFails`, `Ack`, `AckFails`, `AckLost`, `SaveSnapshot`, `SnapshotFails`, `AuditSuccess`, `Complete` |
| `Rollback`, `snapshotMessage` | `Rollback`, `Restored`, `RestoreConfirmed`, `RestoreFails`, `AuditRestore`, `RollbackCompletes` |
| process death, consumers, other operators, administrators | `CrashRecover`, `CrashRollback`, `Reject`, `OtherOperator`, `DeleteDLQ` |

Recovery and rollback may run at once; recoveries run one after another, and so
do rollbacks. A recovery attempts each ID of its plan once. Repeated IDs, batches,
workers, breaker, deadlines and the probe of the destination are left to
`RecoveryExecutor`; a recovery that ends with an error before it replays anything
changes nothing and is not modelled.

**`Classifier`** has no state: it is the functions of the classifier, the policy
engine and the Jev mapper. A text is the set of its words, so `contains` is
inclusion and a signature replaces the words that are numbers; probabilities are
percents. **`Planning`** runs `analyze` and `plan` commands on one queue:

| Code | Action or operator |
|---|---|
| `resolveJev`, `Effective` | `ResolveJev`, `Effective` |
| `RunE` up to the loop | `Start`, `StartFails` |
| the loop over the messages | `SkipMessage`, `DecideByRules`, `DecideFromCache`, `CallJev`, `CallJevFails` |
| `majority`, groups | `Majority` (any class with the most votes), `Report` |
| `BuildPlanWithContext` after the loop, `WritePlan`, the audit row | `WritePlan`, `PlanFails`, `WritePlanFails`, `AuditPlan`, `AuditPlanFails` |

Jev's answers are the environment's; nothing ties two answers to each other. The
planner sorts the IDs of a plan, which may repeat, so the plan holds them as a
bag; the excluded messages, whose order nothing reads, likewise. A listing limit
of 0 or less is none (`Listed`).

**`ConfigFile`** models the document (default profile, profiles with URL, masked
fields, policy and Jev settings) and the file as missing, empty, whole or torn. A
change is `LoadChange`, `Truncate`, `Write`, as `os.WriteFile` truncates before it
writes; `WriteFails` and `EditorDies` stop in between, `LoadUse`, `UseEnds` are a
command that only reads, and `ShownWhole` is an `inspect` or `search` that shows
payloads without masking what the profile's `sensitive_fields` name. Of the
settings a profile holds, those that behave alike are one field (`masked`,
`tuned`). `require_confirm` and `require_co_confirm` are parsed
(`profile.go:20-21`) and read by no command, so they are not modelled. `log`
records the acknowledged changes and `disturbed` whether two overlapped or one
was cut short.

**`SelfUpdate`**: `Resolve`, `Plan`, `Checksum`, `Download`, `Verify`, `Stage` in
the order of the command; `Rename` and `RenameFails` are `replaceBinary`; on
Windows `Launch` starts the companion script, whose lines are `DelOld` (twice),
`Ren`, `MoveNew`, `DelScript`. The script has one name for all updates, so a
runner goes on in whatever file has that name (`ScriptGone` when none has). Every
operation on a file may fail: the rename on either platform, the write of the
script, and each line of the script, whose `del` and `move` fail without notice.
`twice` (two updates wrote the script), `cut` (a shutdown stopped a script) and
`unmoved` (the last move failed when there was nothing in its way) are history.
`Compare` is the order of versions. **`Workstation`** composes the two: each
process is started from the installed binary, runs a command or an update, and
keeps its file in use until `Exit`.

**MC modules** supply the data of the instances. Operators marked "fault:" are
deliberately wrong variants of an operator that follows; they are in no
specification and serve to show that a property can fail.

## 3. Runs

| Run | Expected | Question |
|---|---|---|
| `exec_faults` | pass | two runs of a plan that names a message twice, so that two workers process it at once, with unconfirmed and refused publishes, lost acks, failing reads of the trail, crashes, rejected copies, a deleted destination: loss, flooding, evidence |
| `exec_trail` | pass | three places in batches of two, one message at the first and the last, two runs, failing calls, another operator: trail and summary |
| `exec_live` | pass | a run ends; every step is a step of `AtLeastOnce` |
| `exec_snapshot_late` | violation | is there a snapshot before the ack? |
| `gate` | pass | two commands (replay or patch, preview or confirm) on a queue where two entries share an ID: loss, duplicates, trail, termination, refinement |
| `gate_truncated` | violation | is what a replay delivers what it removes? |
| `rabbit_queue` | pass | four calls by two callers, two broken channels, arriving entries: each entry in one place, the oldest with the ID found, order restored, termination |
| `rabbit_peek` | violation | does a peek of a queue deeper than a page show each message once? |
| `lifecycle` | pass | two plans, two recoveries and a rollback of one message, on both transports, with plans whose checks were edited out and a store that drops rows and snapshots or cannot be read: loss, the way back, double recovery, what a rollback without a failure restores |
| `planning` | pass | two commands over queues with shared signatures, shared IDs, two destinations and a header: marked messages, Jev's limits, groups, destination |
| `planning_group` | violation | does a plan of a group stay in that group? |
| `workstation` | pass | two processes that change or use the configuration or update the binary, with crashes, failing writes, renames and script lines, damaged archives and shutdowns |

### Bounds, and why they are enough

- *Messages and entries.* The code treats messages independently except for
  batches (`exec_trail`: three places make a full and a partial batch) and
  for queue position (`rabbit_queue`: four entries with IDs a b a b, so targets
  are first, in the middle or missing, and IDs repeat).
- *Plans.* `Twice` has a message at two places of one batch (two workers at once),
  `Returned` at two places of different batches (it may come back in between),
  `OneEach` no message twice.
- *Workers, callers, commands: two.* Every conflict in the code is between two
  parties: two workers on one channel, two scans of one queue, two commands on
  one message. The theorems remove the bound where it matters most.
- *Runs: two.* The second run meets everything the first can leave behind.
- *`Retry` 0 or 1.* With 1 there is a first attempt and a repeated one;
  `exec_trail` uses 0 because `DuplicatesTraced` is what the code promises
  without retries.
- *Breaks, rejects, calls.* `MaxBreaks` 2, `MaxRejects` 2, `MaxCalls` 4: one
  more than a single incident, so that incidents meet.
- *`PageSize` 3 with four entries.* The queue is shallower than, equal to and
  deeper than a page; the code's 500 and 1000 play the same part.
- *`Threshold`.* 20 percent is the default. 50 in `exec_trail` lets a batch of
  two fail in part without a trip.
- *`lifecycle`: one message, two destinations, five entries.* Evidence, way and
  loss are about the copies of one message; plans and runs are two so that a
  second one meets what the first left, and a plan that is run twice has two
  snapshots, of which one may be missing. Five entries are the first, a replayed,
  a rejected, a restored and a replayed one again. There is one rollback, beside
  which a recovery may run; a second one meets the same snapshots. The theorems
  have no such bounds.
- *`planning`: five queues of three, four profiles, eight command lines, five
  answers.* Each queue holds one of the conflicts the code decides (two groups
  with one signature, two messages Jev cannot tell apart, a number that is a
  keyword, two destinations, entries sharing an ID), and the command lines have a
  limit below the length of the queue, equal to it, or none; the profiles have no policy,
  overlapping rules and a rule that does not parse; the answers are usable,
  doubtful, without a confidence, contradictory and without a class.
  `MaxCommands` 2: an analysis and a plan of one of its groups.
- *`workstation`: two processes.* One reads or changes what the other writes;
  two updates share the script. The releases include prereleases that differ in
  a number (rc.2, rc.10), a number against a word, a downgrade, no archive, no
  checksum and no version. `MaxAttempts` 2 has a first and a last attempt; the
  code's is 3.
- *Symmetry* is used only in runs without liveness, and only for values nothing
  singles out: workers of the `exec_` runs, destinations of
  `lifecycle`, processes of `workstation`.
- *Deadlock checking is off* in all runs: the system stops when the bounded
  runs, commands or calls are used up, and it may do so.

## 4. Fairness

- Executor: weak fairness of the main goroutine and of each worker. Goroutines
  are scheduled, and every broker call returns: `Publish` waits ten seconds for
  its confirm and the others are bounded by the context or the connection.
  Starting a run, crashing, expiring and everything outside have none.
- Gate: weak fairness of each command's own steps, not of the operator's
  answer; `CommandEnds` therefore stops at the prompt.
- RabbitQueue: weak fairness of each call's steps. Calls are not obliged to
  begin, channels to break or messages to arrive.
- `Lifecycle`, `Planning` and `Workstation` state safety only and assume no
  fairness: their commands are sequences of steps that any failure may end.

No strong fairness is assumed anywhere.

## 5. Proofs

All constants are arbitrary within the named assumptions of the modules
(`EnvironmentAssumption`, `ExecutorAssumption`, `GateAssumption`,
`RabbitAssumption`, `LifecycleAssumption`, `NoneIsNoID`, `ClassifierAssumption`,
`PlanningAssumption`, `ProcessesAssumption`, `ConfigAssumption`,
`UpdateAssumption`), which every run evaluates on its own constants. They say
that the bounds are numbers, that sets which are counted are finite, that `None`
is no value, and of what type flags and settings are.

| Module | Theorem | Says |
|---|---|---|
| `AtLeastOnceProofs` | `AtLeastOnceSafe` | the abstract replay loses nothing |
| `RecoveryExecutorProofs` | `TypeCorrect` | `[]TypeOK` |
| | `NothingLost` | `[]NoLoss` |
| | `NothingIntoTheVoid` | `[]NoPublishIntoTheVoid` |
| | `ExecutorIsAtLeastOnce` | the executor implements `AtLeastOnce` unless the destination may be deleted while it runs |
| `RecoveryExecutorEvidence` | `EvidenceIsRespected` | `[]EvidenceRespected` |
| | `SuccessRowsAreTrue` | `[]SuccessIsTrue` |
| | `EveryOutcomeAudited` | `[]OutcomesAudited`, while the store works and no deadline passes |
| | `EveryDuplicateTraced` | `[]DuplicatesTraced`, without retries, crashes, store failures and lost acks |
| | `RunsFloodNothing` | `[]NoFlood`, for every plan, whatever IDs it repeats |
| | `SummariesAddUp` | `[]SummaryAddsUp` |
| `SafetyGateProofs` | `TypeCorrect` | `[]TypeOK` |
| | `NothingLost` | `[]NoLoss`, for any number of commands |
| | `VoidUntouched` | `[]NothingIntoTheVoid` |
| | `GateIsAtLeastOnce` | the gate implements `AtLeastOnce` |
| | `EveryEffectAudited` | `[]EffectsAudited` |
| | `TrailSpeaksTruth` | `[]TrailIsTrue` |
| | `EveryDuplicateHasItsCause` | `[]DuplicatesAccounted` |
| `RabbitQueueProofs` | `TypeCorrect` | `[]TypeOK` |
| | `NothingLostOrDoubled` | `[]EachInOnePlace` |
| | `FifoRestored` | `[]OrderRestored` |
| | `AckFindsTheOldest` | `FindsTheOldest`, an action property |
| `LifecycleProofs` | `TypeCorrect` | `[]TypeOK` |
| | `NothingLost` | `[]NoLoss`, for any messages, plans, recoveries and rollbacks |
| | `WayKnown` | `[]EntriesKnowTheirWay` |
| | `EvidenceFollows` | `[]RecoveredOnce`, for recoveries one after another |
| | `RollbackPutsBack` | `RollbackReverses`, an action property |
| `PlanningProofs` | `TypeCorrect` | `[]TypeOK` |
| | `MarkedStayOut` | `[]MarkedNeverPlanned` |
| | `JevResolvesOnly` | `[]JevOnlyResolves` |
| | `PlanCoversGroup` | `[]PlanCoversItsGroup` |
| | `BackWhereTheyCameFrom` | `[]OneDestination` |
| `WorkstationProofs` | `TypeCorrect` | `[]TypeOK` |
| | `CompareIsPrecedence` | `Compare` is the precedence of versions (a lemma about `version.go`; no run states it) |
| | `OnlyVerifiedInstalled` | `[]OnlyVerified` |
| | `UpdatesGoForward` | `[]InstallsFollow` |
| | `BinaryToRun` | `[]TargetRuns` |
| | `FieldsAreMasked` | `[]FieldsStayMasked` |
| | `ChangesAreKept` | `[]ChangesSurvive` |

The three theorems with hypotheses have those the property needs. Each holds in
the run that checks the property: `exec_live` has no `delete_destination`, and
`exec_trail` has `Retry` 0 and none of the faults `store`, `deadline`, `crash`
and `ack_lost`. Without them the code makes no such promise (section 6, and the
comments of the properties).

The arguments:

- *Executor, safety.* `NoLoss` is not inductive: an ack removes an entry, and
  nothing in `NoLoss` says that a copy has arrived. The invariant is
  `IInv == TypeOK /\ Quiet /\ Probed /\ Covered`. `Covered` says that the copies
  of a message number at least one more than the confirmed publishes still to
  be acked (`Owed`). `Probed` is needed for the publish step, which adds a copy
  only if the destination exists, and `Quiet` for `Start`, where no worker may
  still hold a message. Lemmas about the cardinality of the claimants (`OwedUp`,
  `OwedDown`, `OwedSame`) carry the step; each action is then shown to be a step
  or a stutter of `AtLeastOnce`, which gives the refinement as well.
- *Executor, evidence.* `HInv == TypeOK /\ Quiet /\ Held`. `Held`: a place is on the
  list, in the batch or with one worker, and in one of them only; its message may
  be in several. `Fresh`: if the run has read the trail about a place (`Gated`)
  that is still to be replayed or in hand, the only evidence of its message is
  what other places of this run have written (`OnlyOwn`). A worker that writes its
  success row is past its ack (`Backed`), and by `Held` it is at another place.
- *Executor, trail.* `Backed`: a worker that is to write a success row has the
  entry's ack and its snapshot. `OutcomesAudited` needs `NothingLeftOver`, the
  outcomes of a batch are gone before the next run can be asked about them.
  `TracedOrClaimed`: without a trace, each copy beyond the first is claimed by a
  worker between publish and ack. `Held` is the ground
  of the two counting arguments: *flooding*, by `Rationed`, every attempt a run
  still has may add one copy; the attempts it has for a message (`Budget`) are
  `Retry + 1` for each place that names it, and what is left of them (`Unused`) are
  all those of a place no worker has taken, and those the worker at it has not
  used; *summary*, by `Tally` over `Sorted`, the parts of the plan (done, in the
  batch, still to come) are disjoint, a place has an outcome exactly when it is
  done with, and its ack when the worker is past it.
- *Gate.* `GInv == TypeOK /\ Probed /\ NothingIntoTheVoid /\ Covered`, with
  `Covered` relative to what the queue held at first, since entries may share an
  ID. Two commands that ack one message each pay with their own publish. The
  refinement follows step by step as for the executor. `TInv` is about the trail:
  a command is touched only from its publish on (`TouchedLate`), knows how its
  ack went only at its end (`AckedLate`), and writes its row last (`RowsAtEnd`),
  so a row stays true. `DuplicatesAccounted` is inductive with these two: a copy
  and its command come and go in one step.
- *RabbitMQ queue.* `QInv == TypeOK /\ Apart /\ Accounted /\ InOrder` and, for
  each call, `Fits`: what it holds fits the stage it is at. The idea is one
  sequence, `Line(c)`: what caller `c` holds, followed by the queue. Taking an
  entry, giving one back, and breaking the channel leave it as it is; only the
  ack of the target shortens it, and a new entry joins at its end. So it never has an entry twice (`Apart`) and,
  while calls do not overlap, it stays sorted (`InOrder`); when the call has
  returned the line is the queue. `FindsTheOldest` adds that what is held was
  passed over because its ID is another one.
- *Lifecycle, safety.* `IInv == TypeOK /\ KeysBelow /\ IDsFit /\ RecHolds /\
  SnapshotsFit /\ Paid /\ NoLoss`. `Paid` pays for the ack: there are two
  different copies of the message that is about to be removed once. A published
  copy is a new one because `KeysBelow` keeps keys fresh; it is a copy of the
  right message because IDs, snapshots and what the recovery holds belong to the
  message they name (`IDsFit`, `SnapshotsFit`, `RecHolds`). `WayKnown` needs
  only the type of what is restored, since every step writes at most one entry.
- *Lifecycle, evidence.* `RInv`, on RabbitMQ: `OneID`, the message IDs that are
  known anywhere (entries, plans, the running recovery, snapshots, rows) are one
  per message; `Unreplayed`, what a recovery has still to do has no success row,
  unless it did not read the trail about it (`blind`); `Once`, a second success row
  of a message is of such a recovery. `OneID` is why evidence follows: every
  publish writes the ID it read. It would fail if a publish left the property
  out, as the content hash then changes with the headers.
- *Lifecycle, rollback.* `Backed`: behind every success row of a plan there is
  a snapshot of that plan, since `process` saves it before it writes the row, or
  the store has dropped it (`unsaved`). `Owing`: unless it failed or the queue was
  deleted, what a rollback has to put back it has put back or still has on its
  list, or its snapshot is missing.
- *Planning.* `PInv == TypeOK /\ Lists /\ Seen /\ Written` and, for each
  decision, `Sound`: what is marked was decided `DO_NOT_REPLAY`, and what Jev
  decided was open. A decision is sound when it is made, by the precedence that
  the lemmas about `Match`, `Classify` and `Resolve` state, and nothing it rests
  on changes until the plan is audited: not the policy, not the settings, and of
  the cache no answer that is there. `Seen`: no message of the group was passed
  over. The theorem about groups is by group key: two entries of different groups
  may share an ID, and then the members of a group, as IDs, say too little.
- *Updates.* `UInv`: what is installed, set aside or staged is verified and has
  a version (`Installable`), and an update past its plan holds a release that is
  wanted, and past its verification one whose archive is that release's
  (`Underway`). `Wanted` is `Compare`, and `CompareIsPrecedence` makes that the
  order of versions. For `TargetRuns`: while one update at a time uses the
  script, whoever runs it wrote it, and what it is to move is still there
  (`OneScript`). So the last move finds its file, and if the system refuses it all the
  same, the step itself sets `unmoved`.
- *Configuration.* `MaskInv`: until the file is torn, the profiles in the file,
  of a running command and in the document a command is about to save mask the
  fields their owner listed, or were connected anew (`FileFenced`, `EditorFenced`).
  `SurviveInv`: while changes do not overlap, one process at most is changing,
  the document it will save is its change of one that is as the log says
  (`Pending`), and the file is as the log says but while it is truncated for a
  write.

Where least elements are needed (the first rule that matches, the first
identifier in which two versions differ, the last change of a setting) they come
from the well-foundedness of the natural numbers. Nothing in these modules is
recursive.

Only model-checked: liveness (`RunTerminates`, `CommandEnds`, `CallsReturn`),
since fairness and `ENABLED` are out of reach of the prover, and the violation
runs, which TLC answers with a counterexample. Every other property of a run
has its theorem. The invariants that carry these proofs are defined in the
proof modules; TLC was run on those of `RabbitQueue` and `Planning` before they
were proved.

## 6. Findings

Each violation run is a disagreement between the code and what it says of
itself; the lines are quoted in `PROJECT.json`.

1. `exec_snapshot_late`: the snapshot is taken after the ack, the documentation
   says before.
2. `gate_truncated`: payloads of more than 50000 bytes are replayed truncated,
   and the whole message is removed. (A plan with the schema check skips them,
   as a truncated payload is not JSON.)
3. `rabbit_peek`: a peek of a RabbitMQ queue deeper than one page returns the
   first page again and again. With the defaults a plan of a DLQ of more than
   500 messages names every one it sees twice, and `Inspect` never reaches the
   1001st.
4. `planning_group`: a group ID hashes the signature only, so `plan --group`
   takes every group with that signature, whatever its destination, event type
   or retries.

Other disagreements met while modelling; the models follow the code:

- `--resume` is not required after a trip; `ErrResumeRequired` is never returned
  (`executor.go:165`).
- Messages that fail because the deadline has passed leave no audit row
  (`executor.go:245`); `exec_trail` therefore has no deadline.
- `batch_size: 0` in a plan file makes `Execute` loop for ever
  (`executor.go:190`); `RunTerminates` assumes a positive batch size.
- A RabbitMQ entry keeps its ID through replay and rollback, so `recover` skips
  what rollback restored as already replayed, although `rollback.go:87-91` and
  `docs/ARCHITECTURE.md:277-278` want it recovered again. `RecoveredOnce` is the
  other side of the same coin. Stream entries get new IDs and no evidence.
- A group with a tie has a class that differs from run to run
  (`analyzer.go:178-184`).
- `--jev-all` lets Jev replay what the keyword rules refuse, although
  `README.md:213-214` says Jev only resolves ambiguity; `JevOnlyResolves` and
  `MarkedNeverPlanned` name the exception.
- Resumption fails open: a message whose evidence cannot be read is attempted
  again (`executor.go:343-348`), and the trail is read once, so a message the plan
  names twice is attempted at its second place although the first succeeded.
  `EvidenceRespected` names both exceptions.
- Snapshots and rows are written without regard to errors
  (`executor.go:321, 361`): a message may count as recovered and have no snapshot.
  `RollbackReverses` and `SuccessIsTrue` name the exception.
- The last `move` of the Windows script may fail without notice
  (`replace_windows.go:38`) after the old binary was renamed; the script then
  deletes itself and no binary is left under its name. `TargetRuns` names it.
- `require_confirm` and `require_co_confirm` of a profile (`profile.go:20-21`) are
  read by no command.

## 7. Not modelled

- *Audit queries, export, migration*: they only read, or run once at opening.
- *Rate limiting as time*: only its failure after the deadline matters here.
- *JSON editing, diffs, formatting, the paths of redaction, the search filter,
  read-only commands, seeding, installers*: pure functions of data or output only;
  unit tests reach them. An integer beyond 2^53 that a patch rounds, an identifier
  of a version that overflows an int, and one like `-5` that is read as a number
  are outside the models for that reason.
- *Two recoveries at once over entries that come back*: `Lifecycle` has one
  recovery at a time. Overlapping ones both read the trail before either writes to
  it, so evidence promises nothing about them; the loss of messages under
  overlapping commands is `SafetyGate`'s subject.
- *A destination deleted behind the probe*: `Broker` and `exec_faults` include
  it, and `NoLoss` excludes it explicitly, as the code has no defence.
- *The words of a text in their order*: `contains` and signatures are over sets
  of words.
- *HTTP*: a download, a Jev call or a page of the management API is its answer
  or an error.
- *The dry run of `recover` and `rollback`*: it changes no queue, and at most adds
  rows that nothing counts as evidence.

## 8. Plan

Done: executor, broker, audit store, abstract promise, gate, RabbitMQ queue,
life cycle, classification and planning, configuration and self-update, each
with its runs; a theorem for each safety and action property of the passing
runs, and both refinements.

Left, in order:

1. Steps towards liveness that need no fairness: that each step of a call, of a
   command or of a batch decreases a measure, as an action property.
2. The adapters' read paths of `Lifecycle` and `RabbitQueue` related to the
   counts of `Broker` (a refinement between the models of one queue).
3. The queries of the audit store and the search filter, as far as other
   commands rely on what they return.
