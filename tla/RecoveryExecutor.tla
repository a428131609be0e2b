-------------------------- MODULE RecoveryExecutor --------------------------
(***************************************************************************)
(* Executor.Execute (src/internal/recovery/executor.go): confirmed runs of *)
(* one recovery plan.  A run probes the destination, re-validates the plan *)
(* against the live queue (PlanValidator.Validate) and replays what passed *)
(* in batches.  The messages of a batch are shared by worker goroutines;   *)
(* each one inspects its message, publishes it, acks the dead-letter copy, *)
(* snapshots it and writes the audit row.  After a batch the circuit       *)
(* breaker decides whether the run goes on.                                *)
(*                                                                         *)
(* The plan file, the broker and the audit store outlive a run, so the     *)
(* same plan is run several times: after a trip, a crash or a failure.     *)
(***************************************************************************)
EXTENDS Broker, AuditStore, FiniteSets, Sequences

CONSTANTS Plan,        \* plan.MessageIDs: a list that may name an ID twice
          Excluded,    \* plan.Excluded: left in the queue on purpose
          Invalid,     \* messages whose payload is not JSON
          PlanChecks,  \* the safety_checks lists a plan file may declare
          Workers,     \* worker goroutines: the run's concurrency
          BatchSize,   \* messages per batch
          Retry,       \* extra publish attempts per message
          Threshold,   \* failure rate, in percent, above which a run trips
          MaxRuns      \* bound: runs of the plan

\* The places of the plan's list: the executor attempts each one, and reports
\* on each one, whether or not two of them name the same message.
Places == DOMAIN Plan

ASSUME ExecutorAssumption ==
    /\ Plan \in Seq(Messages)
    /\ Excluded \cup Invalid \subseteq Messages
    /\ \A p \in Places : Plan[p] \notin Excluded
    /\ PlanChecks \subseteq SUBSET {"schema", "duplicate", "destination"}
    /\ BatchSize \in Nat /\ Retry \in Nat /\ Threshold \in 1..100
    /\ MaxRuns \in Nat
    /\ Workers # {}
    /\ IsFiniteSet(Messages) /\ IsFiniteSet(Workers)

VARIABLES
    checks,     \* plan.SafetyChecks
    run,        \* runs started so far; the current one while pc # "idle"
    resume,     \* --resume of the current run
    expired,    \* the run's context has expired
    pc,         \* where Execute is
    remaining,  \* attempted places of no batch yet; what a trip left
    pending,    \* places of the batch no worker has taken
    worker,     \* what each worker goroutine is doing, at which place
    outcome,    \* results of the batch, by place
    report,     \* ExecutionResult
    unread,     \* history: places whose evidence a resumed run failed to read
    removed     \* history: <<run, place>> whose Ack returned without an error

runVars == <<run, resume, pc, remaining, report, unread>>
vars == <<brokerVars, storeVars, checks, runVars, expired, pending, worker,
          outcome, removed>>

Stages   == {"free", "inspect", "publish", "ack", "snapshot", "audit"}
Outcomes == {"none", "replayed", "publish_failed", "ack_failed"}
Jobs     == [at : Stages, place : Places \cup {0},
             msg : Messages \cup {NoMessage}, tries : 0..Retry]
Free     == [at |-> "free", place |-> 0, msg |-> NoMessage, tries |-> 0]
Blank    == [selected |-> 0, skipped |-> 0, replayed |-> 0, failed |-> 0,
             new |-> 0]

TypeOK ==
    /\ BrokerTypeOK
    /\ StoreTypeOK
    /\ checks \in PlanChecks
    /\ run \in 0..MaxRuns
    /\ resume \in BOOLEAN
    /\ expired \in BOOLEAN
    /\ pc \in {"idle", "validate", "batch", "running"}
    /\ remaining \subseteq Places
    /\ pending \subseteq Places
    /\ worker \in [Workers -> Jobs]
    /\ \A w \in Workers : worker[w].at # "free" =>
          /\ worker[w].place \in Places
          /\ worker[w].msg = Plan[worker[w].place]
    /\ outcome \in [Places -> Outcomes]
    /\ report \in [selected : Nat, skipped : Nat, replayed : Nat,
                   failed : Nat, new : Nat]
    /\ unread \subseteq Places
    /\ removed \subseteq Nat \X Places

Init ==
    /\ BrokerInit
    /\ StoreInit
    /\ checks \in PlanChecks
    /\ run = 0
    /\ resume = FALSE
    /\ expired = FALSE
    /\ pc = "idle"
    /\ remaining = {}
    /\ pending = {}
    /\ worker = [w \in Workers |-> Free]
    /\ outcome = [p \in Places |-> "none"]
    /\ report = Blank
    /\ unread = {}
    /\ removed = {}

RowBy(r, m, result) ==
    [by |-> r, action |-> "recover", msg |-> m, result |-> result]
Row(m, result) == RowBy(run, m, result)

-----------------------------------------------------------------------------
(* Execute before the first batch.                                         *)

\* Execute up to its probe of the destination.  A plan without safety checks
\* and a Stats error end the run without a trace; a missing destination ends
\* it with an audited refusal.
Start(res) ==
    /\ pc = "idle" /\ run < MaxRuns
    /\ run' = run + 1
    /\ resume' = res
    /\ expired' = FALSE
    /\ report' = Blank
    /\ remaining' = {}
    /\ unread' = {}
    /\ \/ /\ checks # {} /\ StatsFinds
          /\ pc' = "validate"
          /\ UNCHANGED storeVars
       \/ /\ checks # {} /\ StatsNotFound
          /\ AppendRow(RowBy(run + 1, NoMessage, "refused"))
          /\ UNCHANGED <<pc, snapshots>>
       \/ /\ checks = {} \/ StatsFails(FALSE)
          /\ UNCHANGED <<pc, storeVars>>
    /\ UNCHANGED <<brokerVars, checks, pending, worker, outcome, removed>>

\* PlanValidator.Validate: the places whose message must not be replayed.
NotFound  == {p \in Places : ~InQueue(Plan[p])}
BadSchema == IF "schema" \in checks THEN {p \in Places : Plan[p] \in Invalid} ELSE {}
Duplicate == IF "duplicate" \in checks
             THEN {p \in Places : Replayed(Plan[p])} ELSE {}
Skipped   == NotFound \cup BadSchema \cup Duplicate

\* What filterCompleted may fail to read of the evidence a resumed run has.
\* (A failed read of a message without evidence changes nothing.)
Unreadable == IF resume /\ "query" \in Faults
              THEN {p \in Places \ Skipped : Replayed(Plan[p])} ELSE {}

\* filterCompleted: on a resumed run, the places whose message the trail shows
\* as replayed.  It fails open: a message whose read fails is attempted.
CompletedIgnored(missed) == {}  \* fault: the trail is not consulted
Completed(missed) ==
    IF resume THEN {p \in Places \ (Skipped \cup missed) : Replayed(Plan[p])} ELSE {}

\* Execute from the re-validation to the first batch: the attempt list, and
\* one audit row for every skipped and every excluded message.
Validate ==
    /\ pc = "validate"
    /\ \E missed \in SUBSET Unreadable :
          /\ unread' = missed
          /\ remaining' = Places \ (Skipped \cup Completed(missed))
          /\ report' = [selected |-> Len(Plan),
                        skipped |-> Cardinality(Skipped) + Cardinality(Completed(missed)),
                        replayed |-> 0, failed |-> 0, new |-> 0]
    /\ AppendRows({Row(m, "skipped") : m \in {Plan[p] : p \in Skipped} \cup Excluded})
    /\ pc' = "batch"
    /\ UNCHANGED <<brokerVars, snapshots, checks, run, resume, expired,
                   pending, worker, outcome, removed>>

\* The scan of the queue, or a check, fails: Execute returns the error.  The
\* duplicate check fails closed: it reads the trail for every message that
\* is in the queue and has a valid payload.
ValidateFails ==
    /\ pc = "validate"
    /\ \/ StatsFails(expired)
       \/ /\ "query" \in Faults /\ "duplicate" \in checks
          /\ Places \ (NotFound \cup BadSchema) # {}
    /\ pc' = "idle"
    /\ UNCHANGED <<brokerVars, storeVars, checks, run, resume, expired,
                   remaining, pending, worker, outcome, report, unread, removed>>

\* The head of the batch loop: the first places left go to the workers.
NextBatch ==
    /\ pc = "batch" /\ remaining # {}
    /\ pending' = {p \in remaining : Cardinality({q \in remaining : q < p}) < BatchSize}
    /\ remaining' = remaining \ pending'
    /\ pc' = "running"
    /\ UNCHANGED <<brokerVars, storeVars, checks, run, resume, expired,
                   worker, outcome, report, unread, removed>>

\* The loop is done: the plan-level row, and Execute returns.
Complete ==
    /\ pc = "batch" /\ remaining = {}
    /\ AppendRow(Row(NoMessage, "completed"))
    /\ pc' = "idle"
    /\ UNCHANGED <<brokerVars, snapshots, checks, run, resume, expired,
                   remaining, pending, worker, outcome, report, unread, removed>>

-----------------------------------------------------------------------------
(* The workers of runBatch, and process.                                   *)

\* A worker takes an index off the work channel and waits for a token of the
\* rate limiter.
Take(w, p) ==
    /\ pc = "running" /\ worker[w].at = "free" /\ p \in pending
    /\ ~expired
    /\ pending' = pending \ {p}
    /\ worker' = [worker EXCEPT ![w] =
                    [at |-> "inspect", place |-> p, msg |-> Plan[p], tries |-> 0]]
    /\ UNCHANGED <<brokerVars, storeVars, checks, runVars, expired, outcome,
                   removed>>

\* Fault: a worker that gets no token returns without wg.Done().
QuitWithoutToken(w, p) ==
    /\ pc = "running" /\ worker[w].at = "free" /\ p \in pending
    /\ expired
    /\ pending' = pending \ {p}
    /\ worker' = [worker EXCEPT ![w].at = "gone"]
    /\ UNCHANGED <<brokerVars, storeVars, checks, runVars, expired, outcome,
                   removed>>

\* Once the context has expired the limiter gives no token, and the message
\* counts as failed without being processed.
TakeWithoutToken(w, p) ==
    /\ pc = "running" /\ worker[w].at = "free" /\ p \in pending
    /\ expired
    /\ pending' = pending \ {p}
    /\ outcome' = [outcome EXCEPT ![p] = "publish_failed"]
    /\ UNCHANGED <<brokerVars, storeVars, checks, runVars, expired, worker,
                   removed>>

\* Worker w moves on to stage st.
Goto(w, st) == worker' = [worker EXCEPT ![w].at = st]

\* process returns: the worker's message has its outcome and the worker is
\* free for the next one.
Return(w, result) ==
    /\ worker' = [worker EXCEPT ![w] = Free]
    /\ outcome' = [outcome EXCEPT ![worker[w].place] = result]

InspectMessage(w) ==
    /\ worker[w].at = "inspect"
    /\ \/ /\ InQueue(worker[w].msg)
          /\ Goto(w, "publish")
          /\ UNCHANGED <<audit, outcome>>
       \/ /\ InspectFails(worker[w].msg, expired)
          /\ AppendRow(Row(worker[w].msg, "publish_failed"))
          /\ Return(w, "publish_failed")
    /\ UNCHANGED <<brokerVars, snapshots, checks, runVars, expired, pending,
                   removed>>

\* Fault: the error of a publish is ignored.
PublishUnchecked(w) ==
    /\ worker[w].at = "publish"
    /\ PublishConfirmed(worker[w].msg) \/ PublishFails(worker[w].msg, expired)
    /\ Goto(w, "ack")
    /\ UNCHANGED <<storeVars, checks, runVars, expired, pending, outcome,
                   removed>>

Publish(w) ==
    /\ worker[w].at = "publish"
    /\ PublishConfirmed(worker[w].msg)
    /\ Goto(w, "ack")
    /\ UNCHANGED <<storeVars, checks, runVars, expired, pending, outcome,
                   removed>>

\* Faults: an attempt too many, and attempts that are not counted.
PublishOnceMore(w) ==
    /\ worker[w].at = "publish" /\ worker[w].tries <= Retry
    /\ PublishFails(worker[w].msg, expired)
    /\ worker' = [worker EXCEPT ![w].tries = @ + 1]
    /\ UNCHANGED <<storeVars, checks, runVars, expired, pending, outcome,
                   removed>>

PublishForever(w) ==
    /\ worker[w].at = "publish"
    /\ PublishFails(worker[w].msg, expired)
    /\ UNCHANGED <<worker, storeVars, checks, runVars, expired, pending,
                   outcome, removed>>

\* A failed attempt, with attempts left.
PublishAgain(w) ==
    /\ worker[w].at = "publish" /\ worker[w].tries < Retry
    /\ PublishFails(worker[w].msg, expired)
    /\ worker' = [worker EXCEPT ![w].tries = @ + 1]
    /\ UNCHANGED <<storeVars, checks, runVars, expired, pending, outcome,
                   removed>>

\* Fault: the failure is not audited.
PublishGivesUpSilently(w) ==
    /\ worker[w].at = "publish" /\ worker[w].tries = Retry
    /\ PublishFails(worker[w].msg, expired)
    /\ Return(w, "publish_failed")
    /\ UNCHANGED <<storeVars, checks, runVars, expired, pending, removed>>

\* The last attempt fails.
PublishGivesUp(w) ==
    /\ worker[w].at = "publish" /\ worker[w].tries = Retry
    /\ PublishFails(worker[w].msg, expired)
    /\ AppendRow(Row(worker[w].msg, "publish_failed"))
    /\ Return(w, "publish_failed")
    /\ UNCHANGED <<snapshots, checks, runVars, expired, pending, removed>>

\* Fault: the snapshot is forgotten.
AckNoSnapshot(w) ==
    /\ worker[w].at = "ack"
    /\ AckReturns(worker[w].msg)
    /\ removed' = removed \cup {<<run, worker[w].place>>}
    /\ Goto(w, "audit")
    /\ UNCHANGED <<storeVars, checks, runVars, expired, pending, outcome>>

Ack(w) ==
    /\ worker[w].at = "ack"
    /\ AckReturns(worker[w].msg)
    /\ removed' = removed \cup {<<run, worker[w].place>>}
    /\ Goto(w, "snapshot")
    /\ UNCHANGED <<storeVars, checks, runVars, expired, pending, outcome>>

\* Fault: the failure is not audited.
AckFailedSilently(w) ==
    /\ worker[w].at = "ack"
    /\ AckFails(worker[w].msg, expired)
    /\ Return(w, "ack_failed")
    /\ UNCHANGED <<storeVars, checks, runVars, expired, pending, removed>>

AckFailed(w) ==
    /\ worker[w].at = "ack"
    /\ AckFails(worker[w].msg, expired)
    /\ AppendRow(Row(worker[w].msg, "ack_failed"))
    /\ Return(w, "ack_failed")
    /\ UNCHANGED <<snapshots, checks, runVars, expired, pending, removed>>

Snapshot(w) ==
    /\ worker[w].at = "snapshot"
    /\ SaveSnapshot([by |-> run, msg |-> worker[w].msg])
    /\ Goto(w, "audit")
    /\ UNCHANGED <<brokerVars, audit, checks, runVars, expired, pending,
                   outcome, removed>>

AuditSuccess(w) ==
    /\ worker[w].at = "audit"
    /\ AppendRow(Row(worker[w].msg, "success"))
    /\ Return(w, "replayed")
    /\ UNCHANGED <<brokerVars, snapshots, checks, runVars, expired, pending,
                   removed>>

-----------------------------------------------------------------------------
(* The circuit breaker, after wg.Wait().                                   *)

With(results)  == {p \in Places : outcome[p] \in results}
UnackedIgnored == Cardinality(With({"publish_failed"}))  \* fault
BatchFailures  == Cardinality(With({"publish_failed", "ack_failed"}))
BatchLen       == Cardinality(With(Outcomes \ {"none"}))
BatchDone      == /\ pc = "running" /\ pending = {}
                  /\ \A w \in Workers : worker[w].at = "free"
OverThreshold  == BatchFailures * 100 > Threshold * BatchLen

\* runBatch returns its counts, and the batch's results are gone.
Count ==
    /\ outcome' = [p \in Places |-> "none"]
    /\ report' = [selected |-> report.selected,
                  skipped |-> report.skipped,
                  replayed |-> report.replayed + Cardinality(With({"replayed"})),
                  failed |-> report.failed + BatchFailures,
                  new |-> report.new + Cardinality(With({"ack_failed"}))]

NextOrDone ==
    /\ BatchDone /\ ~OverThreshold
    /\ Count
    /\ pc' = "batch"
    /\ UNCHANGED <<brokerVars, storeVars, checks, run, resume, expired,
                   remaining, pending, worker, unread, removed>>

\* The breaker trips: Execute returns with the rest still in the queue.
Trip ==
    /\ BatchDone /\ OverThreshold
    /\ Count
    /\ AppendRow(Row(NoMessage, "tripped"))
    /\ pc' = "idle"
    /\ UNCHANGED <<brokerVars, snapshots, checks, run, resume, expired,
                   remaining, pending, worker, unread, removed>>

-----------------------------------------------------------------------------
(* What happens to a run from outside.                                     *)

\* The deadline commandContext puts on every command passes.
Expire ==
    /\ "deadline" \in Faults
    /\ pc # "idle" /\ ~expired
    /\ expired' = TRUE
    /\ UNCHANGED <<brokerVars, storeVars, checks, runVars, pending, worker,
                   outcome, removed>>

\* The process dies; what it held in memory is gone.
Crash ==
    /\ "crash" \in Faults
    /\ pc # "idle"
    /\ pc' = "idle"
    /\ remaining' = {}
    /\ pending' = {}
    /\ worker' = [w \in Workers |-> Free]
    /\ outcome' = [p \in Places |-> "none"]
    /\ report' = Blank
    /\ UNCHANGED <<brokerVars, storeVars, checks, run, resume, expired,
                   unread, removed>>

Elsewhere ==
    /\ BrokerStep
    /\ UNCHANGED <<storeVars, checks, runVars, expired, pending, worker,
                   outcome, removed>>

-----------------------------------------------------------------------------

WorkerStep(w) ==
    \/ \E p \in pending : Take(w, p) \/ TakeWithoutToken(w, p)
    \/ InspectMessage(w)
    \/ Publish(w) \/ PublishAgain(w) \/ PublishGivesUp(w)
    \/ Ack(w) \/ AckFailed(w)
    \/ Snapshot(w) \/ AuditSuccess(w)

MainStep == Validate \/ ValidateFails \/ NextBatch \/ Complete
            \/ NextOrDone \/ Trip

Next ==
    \/ \E res \in BOOLEAN : Start(res)
    \/ MainStep
    \/ \E w \in Workers : WorkerStep(w)
    \/ Expire \/ Crash \/ Elsewhere

Spec == Init /\ [][Next]_vars

\* The goroutines of a started run are scheduled, and every broker call
\* returns: Publish waits for its confirm for ten seconds at most, the other
\* calls are bounded by the command's context.  Nothing obliges the operator
\* to start a run, and no fault has to happen.
FairSpec == /\ Spec
            /\ WF_vars(MainStep)
            /\ \A w \in Workers : WF_vars(WorkerStep(w))

-----------------------------------------------------------------------------
(* Properties.                                                             *)

\* Workers between the confirm of a publish and the ack of its entry: the
\* unused claims of AtLeastOnce.
Owed(m) == Cardinality({w \in Workers : /\ worker[w].at = "ack"
                                        /\ worker[w].msg = m})

\* No message is lost: whatever calls fail, and wherever the process dies, a
\* copy of every message is in the dead-letter queue or at the destination
\* (process acks after a confirmed publish only, Execute probes the
\* destination first).  It is not promised once somebody has deleted the
\* destination behind the probe.
NoLoss == dest # "deleted" => \A m \in Messages : dlq[m] + delivered[m] >= 1

\* The destination was there when the run that publishes to it began, so a
\* publish is never dropped unless the destination was deleted meanwhile.
NoPublishIntoTheVoid ==
    dest = "missing" => \A w \in Workers : worker[w].at = "free"

\* A run of the plan floods nothing: for every place of the plan that names a
\* message it makes at most Retry + 1 copies of it, however its attempts, its
\* confirms and its acks fail, and however the workers share the places.
PerRun(m) == Cardinality({p \in Places : Plan[p] = m}) * (Retry + 1)
NoFlood == \A m \in Messages : dlq[m] + delivered[m] <= 1 + run * PerRun(m)

\* A run whose plan has the duplicate check (dedupe.CheckAudit), or that
\* resumes (filterCompleted), does not attempt again what the audit trail
\* shows as replayed, not even when it came back to the queue.  There are two
\* exceptions in the code.  A success row that this run itself wrote for
\* another place of the plan does not stop it: the trail is read once, before
\* the first batch.  And a resumed run without the check attempts a message
\* whose evidence it failed to read.
EvidenceRespected ==
    \A w \in Workers :
       /\ worker[w].at # "free"
       /\ "duplicate" \in checks \/ (resume /\ worker[w].place \notin unread)
       => \A row \in audit : IsEvidence(row, worker[w].msg) =>
             /\ row.by = run
             /\ \E p \in Places \ {worker[w].place} :
                   Plan[p] = worker[w].msg /\ <<run, p>> \in removed

\* The audit trail does not claim a replay that did not happen, nor one that
\* cannot be rolled back: behind a success row is an acked entry and, when
\* every write to the store succeeds, a snapshot.
SuccessIsTrue ==
    \A row \in audit : row.result = "success" =>
        /\ \E p \in Places : Plan[p] = row.msg /\ <<row.by, p>> \in removed
        /\ "store" \notin Faults => [by |-> row.by, msg |-> row.msg] \in snapshots

\* A second copy of a message never appears without a trace: once nobody is
\* working on the message, the trail has a failed publish or a failed ack of
\* it.  (Not when the process dies, a write to the store fails, an ack is
\* lost on its way, or Retry > 0 lets a second attempt succeed after an
\* unconfirmed first one.)
DuplicatesTraced ==
    \A m \in Messages :
       dlq[m] + delivered[m] >= 2 =>
          \/ \E w \in Workers : worker[w].at # "free" /\ worker[w].msg = m
          \/ \E row \in audit : /\ row.msg = m
                                /\ row.result \in {"publish_failed", "ack_failed"}

\* The summary adds up between two batches and at the end of a run, a tripped
\* one too: every place of the plan is skipped, replayed, failed or still to
\* come, and the run reports as replayed what it got an ack for.
SummaryAddsUp ==
    pc # "running" =>
        /\ report.selected = report.skipped + report.replayed + report.failed
                             + Cardinality(remaining)
        /\ report.selected > 0 =>
              report.replayed = Cardinality({p \in Places : <<run, p>> \in removed})
        /\ report.new <= report.failed

\* Every outcome of a batch has its row in the audit trail: a row of this run
\* about its message that says what the outcome says (executor.go, process;
\* recover.go:42).
RowOf == [replayed |-> "success", publish_failed |-> "publish_failed",
          ack_failed |-> "ack_failed"]
OutcomesAudited ==
    \A p \in Places :
       outcome[p] # "none" => Row(Plan[p], RowOf[outcome[p]]) \in audit

\* A message whose entry is removed can be restored: it has been snapshotted
\* before its dead-letter copy is acked (COMMANDS.md:248-249).
RemovedHasSnapshot ==
    \A r \in 1..MaxRuns, p \in Places :
       <<r, p>> \in removed => [by |-> r, msg |-> Plan[p]] \in snapshots

\* A started run ends: it completes, trips, fails or dies, but it does not
\* hang in its batches, its worker pool or its rate limiter.
RunTerminates == pc # "idle" ~> pc = "idle"

\* The executor is one of the replays AtLeastOnce describes.
Promise == INSTANCE AtLeastOnce WITH owed <- [m \in Messages |-> Owed(m)]
RefinesAtLeastOnce == Promise!Spec
=============================================================================
