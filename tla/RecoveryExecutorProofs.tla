----------------------- MODULE RecoveryExecutorProofs -----------------------
(***************************************************************************)
(* Theorems about RecoveryExecutor, for every set of messages and workers, *)
(* every batch size, retry count, threshold and combination of faults.     *)
(* Type correctness, no loss, no publish to a missing destination, and the *)
(* refinement of AtLeastOnce; RecoveryExecutorEvidence has the rest.       *)
(***************************************************************************)
EXTENDS RecoveryExecutor, FiniteSetTheorems, TLAPS

-----------------------------------------------------------------------------
(* Facts about the audit store.                                            *)

\* A row of the executor is a row of the audit table.
LEMMA RowIsRow ==
  ASSUME NEW r \in Nat, NEW m \in Messages \cup {NoMessage}, NEW res \in Results
  PROVE  RowBy(r, m, res) \in AuditRows
BY DEF RowBy, AuditRows, Actions

\* Appending rows keeps the type of the audit table.
LEMMA AppendKeepsType ==
  ASSUME audit \subseteq AuditRows, NEW rows \in SUBSET AuditRows, AppendRows(rows)
  PROVE  audit' \subseteq AuditRows
BY DEF AppendRows

LEMMA AppendRowKeepsType ==
  ASSUME audit \subseteq AuditRows, NEW row \in AuditRows, AppendRow(row)
  PROVE  audit' \subseteq AuditRows
BY AppendKeepsType DEF AppendRow

\* The places of the plan are the numbers 1 .. Len(Plan), each with a message.
LEMMA PlacesFinite ==
  /\ Places = 1..Len(Plan) /\ Len(Plan) \in Nat /\ Places \subseteq Nat \ {0}
  /\ IsFiniteSet(Places) /\ Cardinality(Places) = Len(Plan)
  /\ \A p \in Places : Plan[p] \in Messages
<1>1. Plan \in Seq(Messages)
  BY ExecutorAssumption DEF ExecutorAssumption
<1>2. Places = 1..Len(Plan) /\ Len(Plan) \in Nat
  BY <1>1 DEF Places
<1>3. \A p \in 1..Len(Plan) : Plan[p] \in Messages
  BY <1>1
<1>4. IsFiniteSet(1..Len(Plan)) /\ Cardinality(1..Len(Plan)) = Len(Plan)
  <2>1. ASSUME NEW n \in Nat PROVE IsFiniteSet(1..n) /\ Cardinality(1..n) = n
    <3>1. /\ IsFiniteSet(1..n)
          /\ Cardinality(1..n) = IF 1 > n THEN 0 ELSE n - 1 + 1
      BY FS_Interval
    <3> QED
      BY <3>1
  <2> QED
    BY <1>2, <2>1
<1> QED
  BY <1>2, <1>3, <1>4

\* Counts of places are natural numbers.
LEMMA CountsAreNat ==
  ASSUME NEW S \in SUBSET Places
  PROVE  Cardinality(S) \in Nat
BY PlacesFinite, FS_Subset, FS_CardinalityType

-----------------------------------------------------------------------------
(* Type correctness.                                                       *)

LEMMA InitTypeOK == Init => TypeOK
<1> SUFFICES ASSUME Init PROVE TypeOK
  OBVIOUS
<1> USE ExecutorAssumption DEF ExecutorAssumption, Init
<1>1. BrokerTypeOK
  BY DEF BrokerInit, BrokerTypeOK, DestStates
<1>2. StoreTypeOK
  BY DEF StoreInit, StoreTypeOK
<1>3. worker \in [Workers -> Jobs]
  BY DEF Free, Jobs, Stages
<1>4. report \in [selected : Nat, skipped : Nat, replayed : Nat,
                  failed : Nat, new : Nat]
  BY DEF Blank
<1>5. \A w \in Workers : worker[w].at = "free"
  BY DEF Free
<1>6. outcome \in [Places -> Outcomes]
  BY DEF Outcomes
<1>7. run \in 0..MaxRuns
  OBVIOUS
<1>8. pc \in {"idle", "validate", "batch", "running"} /\ unread = {} /\ removed = {}
  OBVIOUS
<1> QED
  BY <1>1, <1>2, <1>3, <1>4, <1>5, <1>6, <1>7, <1>8 DEF TypeOK

LEMMA BrokerCallsTypeOK ==
  ASSUME BrokerTypeOK, NEW m \in Messages, NEW late,
         \/ PublishConfirmed(m) \/ PublishFails(m, late)
         \/ AckReturns(m) \/ AckFails(m, late)
         \/ BrokerStep
  PROVE  BrokerTypeOK'
BY DEF BrokerTypeOK, PublishConfirmed, PublishFails, AckReturns, AckRemoves, AckFails,
       InQueue, BrokerStep, Redeliver, OtherOperator, DeleteDestination,
       DestStates, brokerVars

LEMMA StartTypeOK ==
  ASSUME TypeOK, NEW res \in BOOLEAN, Start(res)
  PROVE  TypeOK'
<1> USE ExecutorAssumption DEF ExecutorAssumption
<1>1. BrokerTypeOK'
  BY DEF TypeOK, Start, BrokerTypeOK, brokerVars
<1>2. StoreTypeOK'
  <2>1. run + 1 \in Nat /\ "refused" \in Results
    BY DEF TypeOK, Results
  <2>2. RowBy(run + 1, NoMessage, "refused") \in AuditRows
    BY <2>1, RowIsRow
  <2> QED
    BY <2>2, AppendRowKeepsType DEF TypeOK, Start, StoreTypeOK, storeVars
<1>3. report' \in [selected : Nat, skipped : Nat, replayed : Nat,
                   failed : Nat, new : Nat]
  BY DEF Start, Blank
<1>4. run' \in 0..MaxRuns
  BY DEF TypeOK, Start
<1>5. /\ pc' \in {"idle", "validate", "batch", "running"}
      /\ resume' \in BOOLEAN /\ expired' \in BOOLEAN
      /\ remaining' = {} /\ unread' = {}
      /\ UNCHANGED <<checks, pending, worker, outcome, removed>>
  BY DEF TypeOK, Start
<1> QED
  BY <1>1, <1>2, <1>3, <1>4, <1>5 DEF TypeOK

LEMMA ValidateTypeOK ==
  ASSUME TypeOK, Validate
  PROVE  TypeOK'
<1> USE ExecutorAssumption DEF ExecutorAssumption
<1>1. BrokerTypeOK'
  BY DEF TypeOK, Validate, BrokerTypeOK, brokerVars
<1>2. StoreTypeOK'
  <2>1. {Plan[p] : p \in Skipped} \cup Excluded \subseteq Messages
    BY PlacesFinite DEF Skipped, NotFound, BadSchema, Duplicate
  <2>2. {Row(m, "skipped") : m \in {Plan[p] : p \in Skipped} \cup Excluded}
           \in SUBSET AuditRows
    BY <2>1, RowIsRow DEF TypeOK, Results, Row
  <2> QED
    BY <2>2, AppendKeepsType DEF TypeOK, Validate, StoreTypeOK
<1>3. PICK missed \in SUBSET Unreadable :
         /\ unread' = missed
         /\ remaining' = Places \ (Skipped \cup Completed(missed))
         /\ report' = [selected |-> Len(Plan),
                       skipped |-> Cardinality(Skipped) + Cardinality(Completed(missed)),
                       replayed |-> 0, failed |-> 0, new |-> 0]
  BY DEF Validate
<1>4. report' \in [selected : Nat, skipped : Nat, replayed : Nat,
                   failed : Nat, new : Nat]
  <2>1. Skipped \subseteq Places /\ Completed(missed) \subseteq Places
    BY DEF Skipped, NotFound, BadSchema, Duplicate, Completed
  <2>2. Cardinality(Skipped) + Cardinality(Completed(missed)) \in Nat
    BY <2>1, CountsAreNat
  <2> QED
    BY <1>3, <2>2, PlacesFinite
<1>5. unread' \subseteq Places /\ remaining' \subseteq Places
  BY <1>3 DEF Unreadable
<1> QED
  BY <1>1, <1>2, <1>4, <1>5 DEF TypeOK, Validate

LEMMA CountTypeOK ==
  ASSUME TypeOK, Count
  PROVE  /\ outcome' \in [Places -> Outcomes]
         /\ report' \in [selected : Nat, skipped : Nat, replayed : Nat,
                         failed : Nat, new : Nat]
<1>1. \A results : Cardinality(With(results)) \in Nat
  BY CountsAreNat DEF With
<1>2. /\ BatchFailures \in Nat
      /\ Cardinality(With({"replayed"})) \in Nat
      /\ Cardinality(With({"ack_failed"})) \in Nat
  BY <1>1 DEF BatchFailures
<1> QED
  BY <1>2 DEF TypeOK, Count, Outcomes

\* The other steps of the main goroutine.
LEMMA MainTypeOK ==
  ASSUME TypeOK, ValidateFails \/ NextBatch \/ Complete \/ NextOrDone \/ Trip
  PROVE  TypeOK'
<1> USE ExecutorAssumption DEF ExecutorAssumption
<1>1. BrokerTypeOK'
  BY DEF TypeOK, ValidateFails, NextBatch, Complete, NextOrDone, Trip,
         BrokerTypeOK, brokerVars
<1>2. StoreTypeOK'
  <2>1. Row(NoMessage, "completed") \in AuditRows /\ Row(NoMessage, "tripped") \in AuditRows
    BY RowIsRow DEF TypeOK, Results, Row
  <2> QED
    BY <2>1, AppendRowKeepsType
    DEF TypeOK, ValidateFails, NextBatch, Complete, NextOrDone, Trip,
        StoreTypeOK, storeVars
<1>3. CASE ValidateFails \/ NextBatch \/ Complete
  BY <1>1, <1>2, <1>3 DEF TypeOK, ValidateFails, NextBatch, Complete
<1>4. CASE NextOrDone \/ Trip
  BY <1>1, <1>2, <1>4, CountTypeOK DEF TypeOK, NextOrDone, Trip
<1> QED
  BY <1>3, <1>4

\* The record a worker goroutine keeps.
LEMMA WorkerRecord ==
  ASSUME TypeOK, NEW w \in Workers, worker[w].at # "free"
  PROVE  /\ worker[w].msg \in Messages /\ worker[w].place \in Places
         /\ worker[w].msg = Plan[worker[w].place]
         /\ worker[w].tries \in 0..Retry
BY PlacesFinite DEF TypeOK, Jobs

\* A goroutine that moves on keeps its message.
LEMMA GotoTypeOK ==
  ASSUME TypeOK, NEW w \in Workers, worker[w].at # "free",
         NEW st \in Stages, Goto(w, st)
  PROVE  /\ worker' \in [Workers -> Jobs]
         /\ \A v \in Workers : worker'[v].at # "free" =>
            worker'[v].place \in Places /\ worker'[v].msg = Plan[worker'[v].place]
<1>1. worker'[w] = [worker[w] EXCEPT !.at = st] /\ worker'[w] \in Jobs
  BY DEF TypeOK, Goto, Jobs
<1>2. worker'[w].place = worker[w].place /\ worker'[w].msg = worker[w].msg
  BY <1>1 DEF TypeOK, Jobs
<1>3. worker' \in [Workers -> Jobs] /\ \A v \in Workers \ {w} : worker'[v] = worker[v]
  BY <1>1 DEF TypeOK, Goto
<1> QED
  BY <1>2, <1>3, WorkerRecord DEF TypeOK

\* A goroutine that is done is free, and the message has its outcome.
LEMMA ReturnTypeOK ==
  ASSUME TypeOK, NEW w \in Workers, worker[w].at # "free",
         NEW res \in Outcomes, Return(w, res)
  PROVE  /\ worker' \in [Workers -> Jobs]
         /\ \A v \in Workers : worker'[v].at # "free" =>
            worker'[v].place \in Places /\ worker'[v].msg = Plan[worker'[v].place]
         /\ outcome' \in [Places -> Outcomes]
<1>1. Free \in Jobs /\ Free.at = "free"
  BY ExecutorAssumption DEF ExecutorAssumption, Free, Jobs, Stages
<1>2. /\ worker' \in [Workers -> Jobs] /\ worker'[w].at = "free"
      /\ \A v \in Workers \ {w} : worker'[v] = worker[v]
  BY <1>1 DEF TypeOK, Return
<1>3. outcome' \in [Places -> Outcomes]
  BY DEF TypeOK, Return
<1> QED
  BY <1>2, <1>3 DEF TypeOK

LEMMA TakeTypeOK ==
  ASSUME TypeOK, NEW w \in Workers, NEW p \in pending,
         Take(w, p) \/ TakeWithoutToken(w, p)
  PROVE  TypeOK'
<1> USE ExecutorAssumption DEF ExecutorAssumption
<1>1. BrokerTypeOK' /\ StoreTypeOK'
  BY DEF TypeOK, Take, TakeWithoutToken, BrokerTypeOK, StoreTypeOK, brokerVars,
         storeVars
<1>2. CASE Take(w, p)
  <2>1. /\ worker' \in [Workers -> Jobs]
        /\ \A v \in Workers : worker'[v].at # "free" =>
            worker'[v].place \in Places /\ worker'[v].msg = Plan[worker'[v].place]
    <3>1. [at |-> "inspect", place |-> p, msg |-> Plan[p], tries |-> 0] \in Jobs
      BY PlacesFinite DEF TypeOK, Jobs, Stages
    <3>2. /\ worker' \in [Workers -> Jobs]
          /\ worker'[w] = [at |-> "inspect", place |-> p, msg |-> Plan[p], tries |-> 0]
          /\ \A v \in Workers \ {w} : worker'[v] = worker[v]
      BY <1>2, <3>1 DEF TypeOK, Take
    <3> QED
      BY <3>2 DEF TypeOK
  <2> QED
    BY <1>1, <1>2, <2>1 DEF TypeOK, Take, runVars
<1>3. CASE TakeWithoutToken(w, p)
  <2>1. outcome' \in [Places -> Outcomes]
    BY <1>3 DEF TypeOK, TakeWithoutToken, Outcomes
  <2> QED
    BY <1>1, <1>3, <2>1 DEF TypeOK, TakeWithoutToken, runVars
<1> QED
  BY <1>2, <1>3

LEMMA ProcessTypeOK ==
  ASSUME TypeOK, NEW w \in Workers,
         \/ InspectMessage(w) \/ Publish(w) \/ PublishAgain(w)
         \/ PublishGivesUp(w) \/ Ack(w) \/ AckFailed(w)
         \/ Snapshot(w) \/ AuditSuccess(w)
  PROVE  TypeOK'
<1> DEFINE busy == worker[w].at # "free"
           msg == worker[w].msg
<1>1. busy /\ msg \in Messages /\ worker[w].place \in Places
  BY WorkerRecord DEF InspectMessage, Publish, PublishAgain, PublishGivesUp,
     Ack, AckFailed, Snapshot, AuditSuccess
<1>2. run \in Nat
  BY ExecutorAssumption DEF ExecutorAssumption, TypeOK
<1>3. BrokerTypeOK'
  BY <1>1, BrokerCallsTypeOK
  DEF TypeOK, InspectMessage, Publish, PublishAgain, PublishGivesUp,
      Ack, AckFailed, Snapshot, AuditSuccess, BrokerTypeOK, brokerVars
<1>4. \A res \in Results : Row(msg, res) \in AuditRows
  BY <1>1, <1>2, RowIsRow DEF Row
<1>5. {"publish_failed", "ack_failed", "success"} \subseteq Results
  BY DEF Results
<1>6. audit' \subseteq AuditRows
  BY <1>4, <1>5, AppendRowKeepsType
  DEF TypeOK, StoreTypeOK, InspectMessage, Publish, PublishAgain,
      PublishGivesUp, Ack, AckFailed, Snapshot, AuditSuccess, storeVars
<1>7. snapshots' \subseteq SnapshotRows
  BY <1>1, <1>2
  DEF TypeOK, StoreTypeOK, InspectMessage, Publish, PublishAgain,
      PublishGivesUp, Ack, AckFailed, Snapshot, AuditSuccess, storeVars,
      SaveSnapshot, SnapshotRows
<1>8. /\ worker' \in [Workers -> Jobs]
      /\ \A v \in Workers : worker'[v].at # "free" =>
            worker'[v].place \in Places /\ worker'[v].msg = Plan[worker'[v].place]
      /\ outcome' \in [Places -> Outcomes]
  <2>1. CASE PublishAgain(w)
    <3>1. worker[w].tries + 1 \in 0..Retry
      <4>1. worker[w].tries \in 0..Retry
        BY <1>1, WorkerRecord
      <4>2. worker[w].tries < Retry /\ Retry \in Nat
        BY <2>1, ExecutorAssumption DEF ExecutorAssumption, PublishAgain
      <4> QED
        BY <4>1, <4>2
    <3> QED
      <4>1. worker'[w] = [worker[w] EXCEPT !.tries = @ + 1] /\ worker'[w] \in Jobs
        BY <2>1, <3>1 DEF TypeOK, PublishAgain, Jobs
      <4>2. worker'[w].place = worker[w].place /\ worker'[w].msg = worker[w].msg
        BY <4>1 DEF TypeOK, Jobs
      <4>3. /\ worker' \in [Workers -> Jobs] /\ outcome' = outcome
            /\ \A v \in Workers \ {w} : worker'[v] = worker[v]
        BY <2>1, <4>1 DEF TypeOK, PublishAgain
      <4> QED
        BY <1>1, <4>2, <4>3, WorkerRecord DEF TypeOK
  <2>2. CASE /\ \E st \in Stages : Goto(w, st)
             /\ UNCHANGED outcome
    BY <1>1, <2>2, GotoTypeOK DEF TypeOK
  <2>3. CASE \E res \in Outcomes : Return(w, res)
    BY <1>1, <2>3, ReturnTypeOK
  <2> QED
    BY <2>1, <2>2, <2>3
    DEF InspectMessage, Publish, PublishGivesUp, Ack, AckFailed, Snapshot,
        AuditSuccess, Jobs, Stages, Outcomes
<1>9. removed' \subseteq Nat \X Places
  BY <1>1, <1>2
  DEF TypeOK, InspectMessage, Publish, PublishAgain, PublishGivesUp,
      Ack, AckFailed, Snapshot, AuditSuccess
<1>10. UNCHANGED <<checks, run, resume, expired, pc, remaining, pending, report, unread>>
  BY DEF InspectMessage, Publish, PublishAgain, PublishGivesUp,
         Ack, AckFailed, Snapshot, AuditSuccess, runVars
<1> QED
  BY <1>3, <1>6, <1>7, <1>8, <1>9, <1>10 DEF TypeOK, StoreTypeOK

\* What happens from outside.
LEMMA OutsideTypeOK ==
  ASSUME TypeOK, Expire \/ Crash \/ Elsewhere
  PROVE  TypeOK'
<1>1. BrokerTypeOK'
  BY DEF TypeOK, Expire, Crash, Elsewhere, BrokerTypeOK, brokerVars, BrokerStep,
         Redeliver, OtherOperator, DeleteDestination, DestStates, InQueue
<1>2. StoreTypeOK'
  BY DEF TypeOK, Expire, Crash, Elsewhere, StoreTypeOK, storeVars
<1>3. CASE Expire \/ Elsewhere
  BY <1>1, <1>2, <1>3 DEF TypeOK, Expire, Elsewhere, runVars
<1>4. CASE Crash
  <2>1. /\ worker' \in [Workers -> Jobs]
        /\ \A v \in Workers : worker'[v].at = "free"
        /\ outcome' \in [Places -> Outcomes]
        /\ report' \in [selected : Nat, skipped : Nat, replayed : Nat,
                        failed : Nat, new : Nat]
    BY <1>4, ExecutorAssumption
    DEF ExecutorAssumption, TypeOK, Crash, Free, Blank, Jobs, Stages, Outcomes
  <2> QED
    BY <1>1, <1>2, <1>4, <2>1 DEF TypeOK, Crash
<1> QED
  BY <1>3, <1>4

LEMMA StepTypeOK == TypeOK /\ [Next]_vars => TypeOK'
<1> SUFFICES ASSUME TypeOK, [Next]_vars PROVE TypeOK'
  OBVIOUS
<1>1. CASE \E res \in BOOLEAN : Start(res)
  BY <1>1, StartTypeOK
<1>2. CASE MainStep
  BY <1>2, ValidateTypeOK, MainTypeOK DEF MainStep
<1>3. CASE \E w \in Workers : WorkerStep(w)
  BY <1>3, TakeTypeOK, ProcessTypeOK DEF WorkerStep
<1>4. CASE Expire \/ Crash \/ Elsewhere
  BY <1>4, OutsideTypeOK
<1>5. CASE UNCHANGED vars
  BY <1>5 DEF vars, TypeOK, BrokerTypeOK, StoreTypeOK, brokerVars, storeVars,
              runVars
<1> QED
  BY <1>1, <1>2, <1>3, <1>4, <1>5 DEF Next

\* Every variable of the executor keeps its type (executor.go, Execute,
\* runBatch and process): in particular no attempt counter exceeds Retry.
THEOREM TypeCorrect == Spec => []TypeOK
BY InitTypeOK, StepTypeOK, PTL DEF Spec


-----------------------------------------------------------------------------
(* The inductive invariant.                                                *)

\* Goroutines are at work only inside runBatch.
Quiet == pc # "running" => /\ pending = {}
                           /\ \A w \in Workers : worker[w].at = "free"

\* A run beyond its probe has seen the destination.
Probed == dest = "missing" => pc = "idle"

\* Every confirmed publish whose entry is still to be acked stands for a copy
\* of the message beyond the first.
Covered == dest # "deleted" =>
              \A m \in Messages : dlq[m] + delivered[m] >= 1 + Owed(m)

IInv == TypeOK /\ Quiet /\ Probed /\ Covered

-----------------------------------------------------------------------------
(* How the steps of a worker change the number of unused claims.           *)

Claims(m) == {w \in Workers : worker[w].at = "ack" /\ worker[w].msg = m}

LEMMA OwedNat ==
  ASSUME NEW m
  PROVE  IsFiniteSet(Claims(m)) /\ Owed(m) = Cardinality(Claims(m)) /\ Owed(m) \in Nat
<1>1. IsFiniteSet(Claims(m))
  BY FS_Subset, ExecutorAssumption DEF ExecutorAssumption, Claims
<1> QED
  BY <1>1, FS_CardinalityType DEF Owed, Claims

\* Nobody comes to "ack" and nobody leaves it.
LEMMA OwedSame ==
  ASSUME \A v \in Workers :
            /\ worker'[v].at = "ack" <=> worker[v].at = "ack"
            /\ worker[v].at = "ack" => worker'[v].msg = worker[v].msg,
         NEW m
  PROVE  Owed(m)' = Owed(m)
<1>1. Claims(m)' = Claims(m)
  BY DEF Claims
<1> QED
  BY <1>1 DEF Claims, Owed

\* A publish of worker w is confirmed.
LEMMA OwedUp ==
  ASSUME TypeOK, NEW w \in Workers, worker[w].at = "publish", Goto(w, "ack"),
         NEW m
  PROVE  Owed(m)' = IF m = worker[w].msg THEN Owed(m) + 1 ELSE Owed(m)
<1>1. /\ worker'[w].at = "ack" /\ worker'[w].msg = worker[w].msg
      /\ \A v \in Workers \ {w} : worker'[v] = worker[v]
  BY DEF TypeOK, Goto
<1>2. CASE m = worker[w].msg
  <2>1. Claims(m)' = Claims(m) \cup {w} /\ w \notin Claims(m)
    BY <1>1, <1>2 DEF Claims
  <2>2. Owed(m)' = Cardinality(Claims(m) \cup {w})
    BY <2>1 DEF Owed, Claims
  <2> QED
    BY <1>2, <2>1, <2>2, OwedNat, FS_AddElement
<1>3. CASE m # worker[w].msg
  <2>1. Claims(m)' = Claims(m)
    BY <1>1, <1>3 DEF Claims
  <2> QED
    BY <1>3, <2>1 DEF Owed, Claims
<1> QED
  BY <1>2, <1>3

\* Worker w leaves "ack", with its entry removed or not.
LEMMA OwedDown ==
  ASSUME NEW w \in Workers, worker[w].at = "ack", worker'[w].at # "ack",
         \A v \in Workers \ {w} : worker'[v] = worker[v],
         NEW m
  PROVE  /\ Owed(m)' = IF m = worker[w].msg THEN Owed(m) - 1 ELSE Owed(m)
         /\ m = worker[w].msg => Owed(m) >= 1
<1>2. CASE m = worker[w].msg
  <2>1. Claims(m)' = Claims(m) \ {w} /\ w \in Claims(m)
    BY <1>2 DEF Claims
  <2>2. Owed(m)' = Cardinality(Claims(m) \ {w})
    BY <2>1 DEF Owed, Claims
  <2>3. Cardinality(Claims(m) \ {w}) = Cardinality(Claims(m)) - 1
    BY <2>1, OwedNat, FS_RemoveElement
  <2>4. Owed(m)' \in Nat
    BY <2>1, <2>2, OwedNat, FS_RemoveElement, FS_CardinalityType
  <2>5. Owed(m) = Cardinality(Claims(m)) /\ Owed(m) \in Nat
    BY OwedNat
  <2> QED
    BY <1>2, <2>2, <2>3, <2>4, <2>5
<1>3. CASE m # worker[w].msg
  <2>1. Claims(m)' = Claims(m)
    BY <1>3 DEF Claims
  <2> QED
    BY <1>3, <2>1 DEF Owed, Claims
<1> QED
  BY <1>2, <1>3

\* With every worker free there are no claims.
LEMMA OwedZero ==
  ASSUME \A w \in Workers : worker[w].at = "free", NEW m
  PROVE  Owed(m) = 0
<1>1. {w \in Workers : worker[w].at = "ack" /\ worker[w].msg = m} = {}
  OBVIOUS
<1> QED
  BY <1>1, FS_EmptySet DEF Owed

-----------------------------------------------------------------------------
(* Every step of the executor is a step AtLeastOnce allows, or none.       *)

Claimed == [m \in Messages |-> Owed(m)]

\* Steps that touch neither the broker nor the workers at "ack".
LEMMA Stutters ==
  ASSUME UNCHANGED <<dlq, delivered>>,
         \A v \in Workers :
            /\ worker'[v].at = "ack" <=> worker[v].at = "ack"
            /\ worker[v].at = "ack" => worker'[v].msg = worker[v].msg
  PROVE  UNCHANGED Promise!vars
<1>1. \A m \in Messages : Owed(m)' = Owed(m)
  BY OwedSame
<1> QED
  BY <1>1 DEF Promise!vars

\* A publish that is stored, confirmed to the worker or not.
LEMMA PublishIsDeliver ==
  ASSUME IInv, dest' # "deleted", NEW w \in Workers,
         worker[w].at = "publish", PublishConfirmed(worker[w].msg),
         \/ Goto(w, "ack")
         \/ \A v \in Workers :
               /\ worker'[v].at = "ack" <=> worker[v].at = "ack"
               /\ worker[v].at = "ack" => worker'[v].msg = worker[v].msg
  PROVE  Promise!Deliver(worker[w].msg)
<1> DEFINE msg == worker[w].msg
<1>1. msg \in Messages
  BY WorkerRecord DEF IInv
<1>2. dest = "exists"
  BY DEF IInv, TypeOK, BrokerTypeOK, DestStates, Quiet, Probed, PublishConfirmed
<1>3. delivered' = [delivered EXCEPT ![msg] = @ + 1] /\ dlq' = dlq
  BY <1>2 DEF PublishConfirmed
<1>4. CASE Goto(w, "ack")
  <2>1. \A m \in Messages : Owed(m)' = IF m = msg THEN Owed(m) + 1 ELSE Owed(m)
    BY <1>4, OwedUp DEF IInv
  <2>2. Claimed' = [Claimed EXCEPT ![msg] = @ + 1]
    BY <1>1, <2>1 DEF Claimed
  <2> QED
    BY <1>3, <2>2 DEF Promise!Deliver, Claimed
<1>5. CASE \A v \in Workers :
               /\ worker'[v].at = "ack" <=> worker[v].at = "ack"
               /\ worker[v].at = "ack" => worker'[v].msg = worker[v].msg
  <2>1. Claimed' = Claimed
    BY <1>5, OwedSame DEF Claimed
  <2> QED
    BY <1>3, <2>1 DEF Promise!Deliver, Claimed
<1> QED
  BY <1>4, <1>5

\* The end of an ack: its entry is removed, or it stays.
LEMMA AckIsRemove ==
  ASSUME IInv, NEW w \in Workers, worker[w].at = "ack", worker'[w].at # "ack",
         \A v \in Workers \ {w} : worker'[v] = worker[v],
         AckRemoves(worker[w].msg) \/ UNCHANGED brokerVars
  PROVE  Promise!Remove(worker[w].msg) \/ Promise!Forget
<1> DEFINE msg == worker[w].msg
<1>1. msg \in Messages
  BY WorkerRecord DEF IInv
<1>2. \A m \in Messages :
         /\ Owed(m)' = IF m = msg THEN Owed(m) - 1 ELSE Owed(m)
         /\ m = msg => Owed(m) >= 1
         /\ Owed(m) \in Nat
  BY OwedDown, OwedNat
<1>3. CASE AckRemoves(msg)
  <2>1. Claimed' = [Claimed EXCEPT ![msg] = @ - 1] /\ Claimed[msg] >= 1 /\ Claimed[msg] \in Nat
    BY <1>1, <1>2 DEF Claimed
  <2>2. Claimed[msg] > 0
    BY <2>1
  <2>3. dlq[msg] > 0 /\ dlq' = [dlq EXCEPT ![msg] = @ - 1] /\ delivered' = delivered
    BY <1>3 DEF AckRemoves, InQueue
  <2> QED
    BY <2>1, <2>2, <2>3 DEF Promise!Remove, Claimed
<1>4. CASE UNCHANGED brokerVars
  <2>1. \A m \in Messages : Owed(m)' \in Nat /\ Owed(m)' <= Owed(m)
    BY <1>2
  <2> QED
    BY <1>4, <2>1 DEF Promise!Forget, brokerVars
<1> QED
  BY <1>3, <1>4

LEMMA WorkerStepPromised ==
  ASSUME IInv, dest' # "deleted", NEW w \in Workers, WorkerStep(w)
  PROVE  [Promise!Next]_(Promise!vars)
<1> DEFINE msg == worker[w].msg
           same == \A v \in Workers :
                      /\ worker'[v].at = "ack" <=> worker[v].at = "ack"
                      /\ worker[v].at = "ack" => worker'[v].msg = worker[v].msg
<1>1. ASSUME NEW m \in pending, Take(w, m) \/ TakeWithoutToken(w, m)
      PROVE  UNCHANGED Promise!vars
  <2>1. same /\ UNCHANGED <<dlq, delivered>>
    BY <1>1 DEF IInv, TypeOK, Jobs, Take, TakeWithoutToken, brokerVars
  <2> QED
    BY <2>1, Stutters
<1>2. CASE InspectMessage(w) \/ Snapshot(w) \/ AuditSuccess(w)
  <2>1. same /\ UNCHANGED <<dlq, delivered>>
    BY <1>2 DEF IInv, TypeOK, Jobs, InspectMessage, Snapshot, AuditSuccess, Goto,
                Return, Free, brokerVars
  <2> QED
    BY <2>1, Stutters
<1>3. CASE Publish(w)
  <2>1. msg \in Messages
    BY <1>3, WorkerRecord DEF Publish, IInv
  <2>2. Promise!Deliver(msg)
    BY <1>3, PublishIsDeliver DEF Publish
  <2> QED
    BY <2>1, <2>2 DEF Promise!Next
<1>4. CASE PublishAgain(w) \/ PublishGivesUp(w)
  <2>1. msg \in Messages /\ worker[w].at = "publish"
    BY <1>4, WorkerRecord DEF PublishAgain, PublishGivesUp, IInv
  <2>2. same
    BY <1>4 DEF IInv, TypeOK, Jobs, PublishAgain, PublishGivesUp, Return, Free
  <2>3. CASE PublishConfirmed(msg)
    <3>1. Promise!Deliver(msg)
      BY <2>1, <2>2, <2>3, PublishIsDeliver
    <3> QED
      BY <2>1, <3>1 DEF Promise!Next
  <2>4. CASE UNCHANGED brokerVars
    BY <2>2, <2>4, Stutters DEF brokerVars
  <2> QED
    BY <1>4, <2>3, <2>4 DEF PublishAgain, PublishGivesUp, PublishFails
<1>5. CASE Ack(w) \/ AckFailed(w)
  <2>1. msg \in Messages /\ worker[w].at = "ack"
    BY <1>5, WorkerRecord DEF Ack, AckFailed, IInv
  <2>2. worker'[w].at # "ack" /\ \A v \in Workers \ {w} : worker'[v] = worker[v]
    BY <1>5 DEF IInv, TypeOK, Jobs, Ack, AckFailed, Goto, Return, Free
  <2>3. AckRemoves(msg) \/ UNCHANGED brokerVars
    BY <1>5 DEF Ack, AckReturns, AckFailed, AckFails
  <2>4. Promise!Remove(msg) \/ Promise!Forget
    BY <2>1, <2>2, <2>3, AckIsRemove
  <2> QED
    BY <2>1, <2>4 DEF Promise!Next
<1> QED
  BY <1>1, <1>2, <1>3, <1>4, <1>5 DEF WorkerStep

LEMMA StepPromised ==
  ASSUME IInv, dest' # "deleted", [Next]_vars
  PROVE  [Promise!Next]_(Promise!vars)
<1>1. CASE \/ \E res \in BOOLEAN : Start(res)
           \/ MainStep \/ Expire \/ UNCHANGED vars
  <2>1. UNCHANGED <<dlq, delivered, worker>>
    BY <1>1 DEF Start, MainStep, Validate, ValidateFails, NextBatch, Complete,
                NextOrDone, Trip, Expire, vars, brokerVars
  <2> QED
    BY <2>1, Stutters
<1>2. CASE \E w \in Workers : WorkerStep(w)
  BY <1>2, WorkerStepPromised
<1>3. CASE Crash
  <2>1. \A m \in Messages : Owed(m)' = 0
    <3>1. \A w \in Workers : worker'[w].at = "free"
      BY <1>3 DEF Crash, Free
    <3>2. ASSUME NEW m \in Messages PROVE Owed(m)' = 0
      <4>1. {w \in Workers : worker'[w].at = "ack" /\ worker'[w].msg = m} = {}
        BY <3>1
      <4> QED
        BY <4>1, FS_EmptySet DEF Owed
    <3> QED
      BY <3>2
  <2>2. \A m \in Messages : Owed(m) \in Nat
    BY OwedNat
  <2>3. UNCHANGED <<dlq, delivered>>
    BY <1>3 DEF Crash, brokerVars
  <2> QED
    BY <2>1, <2>2, <2>3 DEF Promise!Forget, Promise!Next
<1>4. CASE Elsewhere
  <2>1. Claimed' = Claimed
    BY <1>4, OwedSame DEF Elsewhere, Claimed
  <2>2. ASSUME NEW m \in Messages, Redeliver(m) PROVE Promise!Return(m)
    BY <2>1, <2>2 DEF Redeliver, Promise!Return, Claimed
  <2>3. ASSUME NEW m \in Messages, OtherOperator(m) PROVE Promise!Move(m)
    BY <2>1, <2>3 DEF OtherOperator, InQueue, Promise!Move, Claimed
  <2>4. ~DeleteDestination
    BY DEF DeleteDestination
  <2> QED
    BY <1>4, <2>2, <2>3, <2>4 DEF Elsewhere, BrokerStep, Promise!Next
<1> QED
  BY <1>1, <1>2, <1>3, <1>4 DEF Next

-----------------------------------------------------------------------------
(* The invariant is inductive.                                             *)

LEMMA OneCopyEach == Init => \A m \in Messages : dlq[m] + delivered[m] >= 1
<1> SUFFICES ASSUME Init, NEW m \in Messages PROVE dlq[m] + delivered[m] >= 1
  OBVIOUS
<1>1. dlq[m] \in {0, 1} /\ delivered[m] = 1 - dlq[m]
  BY DEF Init, BrokerInit
<1> QED
  BY <1>1

LEMMA InitIInv == Init => IInv
<1> SUFFICES ASSUME Init PROVE IInv
  OBVIOUS
<1>1. TypeOK
  BY InitTypeOK
<1>2. Quiet /\ Probed
  BY DEF Init, Quiet, Probed, Free
<1>3. Covered
  <2>1. \A m \in Messages : Owed(m) = 0
    BY OwedZero DEF Init, Free
  <2>2. ASSUME NEW m \in Messages PROVE dlq[m] + delivered[m] >= 1 + Owed(m)
    <3>1. dlq[m] \in Nat /\ delivered[m] \in Nat /\ dlq[m] + delivered[m] >= 1
      BY <1>1, OneCopyEach DEF TypeOK, BrokerTypeOK
    <3>2. Owed(m) = 0
      BY <2>1
    <3> QED
      BY <3>1, <3>2
  <2> QED
    BY <2>2 DEF Covered
<1> QED
  BY <1>1, <1>2, <1>3 DEF IInv

\* Only a deletion takes the destination away, and nothing brings it back.
LEMMA DestSteps ==
  ASSUME [Next]_vars
  PROVE  dest' = dest \/ (DeleteDestination /\ dest = "exists" /\ dest' = "deleted")
BY DEF Next, Start, MainStep, Validate, ValidateFails, NextBatch, Complete,
       NextOrDone, Trip, WorkerStep, Take, TakeWithoutToken, InspectMessage,
       Publish, PublishAgain, PublishGivesUp, PublishConfirmed, PublishFails,
       Ack, AckFailed, AckReturns, AckRemoves, AckFails, Snapshot, AuditSuccess, Expire,
       Crash, Elsewhere, BrokerStep, Redeliver, OtherOperator,
       DeleteDestination, vars, brokerVars

LEMMA QuietStep == IInv /\ [Next]_vars => Quiet'
<1> SUFFICES ASSUME IInv, [Next]_vars PROVE Quiet'
  OBVIOUS
<1> USE DEF IInv, Quiet
<1>1. CASE \/ \E res \in BOOLEAN : Start(res)
           \/ MainStep \/ Expire \/ Elsewhere \/ UNCHANGED vars
  BY <1>1 DEF Start, MainStep, Validate, ValidateFails, NextBatch, Complete,
              NextOrDone, Trip, BatchDone, Expire, Elsewhere, vars, runVars
<1>2. CASE Crash
  BY <1>2 DEF Crash, Free
<1>3. ASSUME NEW w \in Workers, WorkerStep(w) PROVE Quiet'
  <2>1. pc = "running" /\ pc' = pc
    BY <1>3 DEF WorkerStep, Take, TakeWithoutToken, InspectMessage, Publish,
                PublishAgain, PublishGivesUp, Ack, AckFailed, Snapshot,
                AuditSuccess, runVars
  <2> QED
    BY <2>1
<1> QED
  BY <1>1, <1>2, <1>3 DEF Next

LEMMA ProbedStep == IInv /\ [Next]_vars => Probed'
<1> SUFFICES ASSUME IInv, [Next]_vars, dest' = "missing" PROVE pc' = "idle"
  BY DEF Probed
<1>1. dest = "missing" /\ pc = "idle" /\ pending = {}
      /\ \A w \in Workers : worker[w].at = "free"
  BY DestSteps DEF IInv, Probed, Quiet
<1>2. ~(\E w \in Workers : WorkerStep(w))
  BY <1>1 DEF WorkerStep, InspectMessage, Publish, PublishAgain,
              PublishGivesUp, Ack, AckFailed, Snapshot, AuditSuccess
<1>3. ~MainStep
  BY <1>1 DEF MainStep, Validate, ValidateFails, NextBatch, Complete,
              NextOrDone, Trip, BatchDone
<1> QED
  BY <1>1, <1>2, <1>3
  DEF Next, Start, StatsFinds, Expire, Crash, Elsewhere, vars, runVars

\* A step AtLeastOnce allows keeps the claims covered.
LEMMA CoveredStep == IInv /\ [Next]_vars => Covered'
<1> SUFFICES ASSUME IInv, [Next]_vars, dest' # "deleted", NEW m \in Messages
             PROVE  dlq'[m] + delivered'[m] >= 1 + Owed(m)'
  BY DEF Covered
<1>1. /\ dlq \in [Messages -> Nat] /\ delivered \in [Messages -> Nat]
      /\ dlq[m] + delivered[m] >= 1 + Owed(m) /\ Owed(m) \in Nat
  BY DestSteps, OwedNat DEF IInv, TypeOK, BrokerTypeOK, Covered
<1>2. Claimed[m] = Owed(m) /\ Claimed'[m] = Owed(m)' /\ Claimed \in [Messages -> Nat]
  BY OwedNat DEF Claimed
<1>3. [Promise!Next]_(Promise!vars)
  BY StepPromised
<1>4. CASE UNCHANGED Promise!vars
  BY <1>1, <1>2, <1>4 DEF Promise!vars, Claimed
<1>5. ASSUME NEW n \in Messages, Promise!Deliver(n)
      PROVE  dlq'[m] + delivered'[m] >= 1 + Owed(m)'
  <2>1. Claimed'[m] = Claimed[m] \/ (m = n /\ Claimed'[m] = Claimed[m] + 1)
    BY <1>2, <1>5 DEF Promise!Deliver, Claimed
  <2>2. delivered'[m] = (IF m = n THEN delivered[m] + 1 ELSE delivered[m])
        /\ dlq'[m] = dlq[m]
    BY <1>1, <1>5 DEF Promise!Deliver
  <2> QED
    BY <1>1, <1>2, <2>1, <2>2
<1>6. ASSUME NEW n \in Messages, Promise!Remove(n)
      PROVE  dlq'[m] + delivered'[m] >= 1 + Owed(m)'
  <2>1. Claimed'[m] = IF m = n THEN Claimed[m] - 1 ELSE Claimed[m]
    BY <1>2, <1>6 DEF Promise!Remove, Claimed
  <2>2. dlq'[m] = (IF m = n THEN dlq[m] - 1 ELSE dlq[m])
        /\ delivered'[m] = delivered[m]
    BY <1>1, <1>6 DEF Promise!Remove
  <2> QED
    BY <1>1, <1>2, <2>1, <2>2
<1>7. ASSUME NEW n \in Messages, Promise!Return(n) \/ Promise!Move(n)
      PROVE  dlq'[m] + delivered'[m] >= 1 + Owed(m)'
  <2>1. Claimed'[m] = Claimed[m]
    BY <1>7 DEF Promise!Return, Promise!Move, Claimed
  <2>2. dlq'[m] + delivered'[m] = dlq[m] + delivered[m]
    BY <1>1, <1>7 DEF Promise!Return, Promise!Move
  <2> QED
    BY <1>1, <1>2, <2>1, <2>2
<1>8. CASE Promise!Forget
  <2>1. Claimed'[m] <= Claimed[m] /\ Claimed'[m] \in Nat
    BY <1>8 DEF Promise!Forget, Claimed
  <2> QED
    BY <1>1, <1>2, <1>8, <2>1 DEF Promise!Forget
<1> QED
  BY <1>3, <1>4, <1>5, <1>6, <1>7, <1>8 DEF Promise!Next

LEMMA StepIInv == IInv /\ [Next]_vars => IInv'
BY StepTypeOK, QuietStep, ProbedStep, CoveredStep DEF IInv

LEMMA IInvInvariant == Spec => []IInv
BY InitIInv, StepIInv, PTL DEF Spec

-----------------------------------------------------------------------------
(* What follows from it.                                                   *)

\* No message is lost (executor.go: process acks only after a confirmed
\* publish, Execute publishes only to a destination it has probed), whatever
\* fails and wherever the process dies, until somebody deletes the
\* destination.
THEOREM NothingLost == Spec => []NoLoss
<1>1. IInv => NoLoss
  <2> SUFFICES ASSUME IInv, dest # "deleted", NEW m \in Messages
               PROVE  dlq[m] + delivered[m] >= 1
    BY DEF NoLoss
  <2>1. /\ dlq[m] \in Nat /\ delivered[m] \in Nat /\ Owed(m) \in Nat
        /\ dlq[m] + delivered[m] >= 1 + Owed(m)
    BY OwedNat DEF IInv, TypeOK, BrokerTypeOK, Covered
  <2> QED
    BY <2>1
<1> QED
  BY <1>1, IInvInvariant, PTL

\* The probe works: no goroutine is at work on a plan whose destination did
\* not exist when the run began (executor.go:104-117).
THEOREM NothingIntoTheVoid == Spec => []NoPublishIntoTheVoid
<1>1. IInv => NoPublishIntoTheVoid
  BY DEF IInv, Quiet, Probed, NoPublishIntoTheVoid
<1> QED
  BY <1>1, IInvInvariant, PTL

\* The executor implements the promise of AtLeastOnce, as long as nobody
\* deletes the destination.
THEOREM ExecutorIsAtLeastOnce ==
  ASSUME "delete_destination" \notin Faults
  PROVE  Spec => RefinesAtLeastOnce
<1>1. Init => Promise!Init
  <2> SUFFICES ASSUME Init PROVE Promise!Init
    OBVIOUS
  <2>1. \A m \in Messages : Owed(m) = 0
    BY OwedZero DEF Init, Free
  <2>2. \A m \in Messages : dlq[m] + delivered[m] >= 1
    BY OneCopyEach
  <2>3. dlq \in [Messages -> Nat] /\ delivered \in [Messages -> Nat]
    BY InitTypeOK DEF TypeOK, BrokerTypeOK
  <2> QED
    BY <2>1, <2>2, <2>3 DEF Promise!Init, Promise!Copies
<1> DEFINE Kept == dest # "deleted"
<1>2. Init => Kept
  BY DEF Init, BrokerInit
<1>3. Kept /\ [Next]_vars => Kept'
  BY DestSteps DEF DeleteDestination
<1>4. IInv /\ Kept' /\ [Next]_vars => [Promise!Next]_(Promise!vars)
  BY StepPromised
<1> HIDE DEF Kept
<1> QED
  BY <1>1, <1>2, <1>3, <1>4, IInvInvariant, PTL
  DEF Spec, RefinesAtLeastOnce, Promise!Spec
=============================================================================
