---------------------- MODULE RecoveryExecutorEvidence ----------------------
(***************************************************************************)
(* What a run reports.  The trail: success rows are true, outcomes have    *)
(* their row, and a second copy leaves a trace.  Evidence: what the trail  *)
(* shows as replayed is not attempted again, but for what the code excepts *)
(* itself.  Counts: for each place of the plan a run makes at most         *)
(* Retry + 1 copies of its message, and its summary adds up.               *)
(***************************************************************************)
EXTENDS RecoveryExecutorProofs

Busy(w) == worker[w].at # "free"

-----------------------------------------------------------------------------
(* What the rows of the trail stand for.                                   *)

\* A worker that is to write a success row has the entry's ack and, when the
\* writes of the store succeed, its snapshot.
Backed ==
    \A w \in Workers :
       /\ worker[w].at \in {"snapshot", "audit"} => <<run, worker[w].place>> \in removed
       /\ worker[w].at = "audit" /\ "store" \notin Faults =>
             [by |-> run, msg |-> worker[w].msg] \in snapshots

\* What a step of a worker leaves alone.
LEMMA WorkerMoves ==
  ASSUME TypeOK, NEW w \in Workers, WorkerStep(w)
  PROVE  /\ UNCHANGED <<run, resume, checks, pc, remaining, report, expired, unread>>
         /\ \A v \in Workers \ {w} : worker'[v] = worker[v]
         /\ audit \subseteq audit' /\ snapshots \subseteq snapshots'
         /\ removed \subseteq removed'
<1>1. UNCHANGED <<run, resume, checks, pc, remaining, report, expired, unread>>
  BY DEF WorkerStep, Take, TakeWithoutToken, InspectMessage, Publish,
         PublishAgain, PublishGivesUp, Ack, AckFailed, Snapshot, AuditSuccess,
         runVars
<1>2. \A v \in Workers \ {w} : worker'[v] = worker[v]
  BY DEF TypeOK, WorkerStep, Take, TakeWithoutToken, InspectMessage, Publish,
         PublishAgain, PublishGivesUp, Ack, AckFailed, Snapshot, AuditSuccess,
         Goto, Return
<1>3. audit \subseteq audit' /\ snapshots \subseteq snapshots' /\ removed \subseteq removed'
  BY DEF WorkerStep, Take, TakeWithoutToken, InspectMessage, Publish,
         PublishAgain, PublishGivesUp, Ack, AckFailed, Snapshot, AuditSuccess,
         AppendRow, AppendRows, SaveSnapshot, storeVars
<1> QED
  BY <1>1, <1>2, <1>3

\* A row is added to the trail, and nothing else.
LEMMA OneRowMore ==
  ASSUME NEW m, NEW res, AppendRow(Row(m, res)), NEW row \in audit'
  PROVE  row \in audit \/ (row.by = run /\ row.msg = m /\ row.result = res)
BY DEF AppendRow, AppendRows, Row, RowBy

\* Success rows that a step may write, if it writes none of another run.
LEMMA TrueRows ==
  ASSUME TypeOK, SuccessIsTrue, removed \subseteq removed', snapshots \subseteq snapshots',
         \A row \in audit' : row.result = "success" =>
            \/ row \in audit
            \/ \E w \in Workers : Backed /\ worker[w].at = "audit"
                                  /\ row.by = run /\ row.msg = worker[w].msg
  PROVE  SuccessIsTrue'
<1> SUFFICES ASSUME NEW row \in audit', row.result = "success"
             PROVE  /\ \E p \in Places : Plan[p] = row.msg /\ <<row.by, p>> \in removed
                    /\ "store" \notin Faults =>
                          [by |-> row.by, msg |-> row.msg] \in snapshots
  BY DEF SuccessIsTrue
<1>1. CASE row \in audit
  BY <1>1 DEF SuccessIsTrue
<1>2. CASE \E w \in Workers : Backed /\ worker[w].at = "audit"
                              /\ row.by = run /\ row.msg = worker[w].msg
  BY <1>2, WorkerRecord DEF Backed
<1> QED
  BY <1>1, <1>2

TrailInv == TypeOK /\ Quiet /\ Backed /\ SuccessIsTrue

LEMMA WorkerBacked ==
  ASSUME TrailInv, NEW w \in Workers, WorkerStep(w)
  PROVE  Backed' /\ SuccessIsTrue'
<1> USE DEF TrailInv
<1>1. /\ run' = run /\ \A v \in Workers \ {w} : worker'[v] = worker[v]
      /\ audit \subseteq audit' /\ snapshots \subseteq snapshots'
      /\ removed \subseteq removed'
  BY WorkerMoves
<1>2. CASE Ack(w)
  <2>1. /\ worker'[w].at = "snapshot" /\ worker'[w].place = worker[w].place
        /\ <<run, worker[w].place>> \in removed' /\ audit' = audit
    BY <1>2 DEF TypeOK, Jobs, Ack, Goto, storeVars
  <2> QED
    BY <1>1, <2>1, TrueRows DEF Backed
<1>3. CASE Snapshot(w)
  <2>1. /\ worker'[w].at = "audit" /\ worker'[w].place = worker[w].place
        /\ worker'[w].msg = worker[w].msg
        /\ worker[w].at = "snapshot" /\ audit' = audit
        /\ \/ [by |-> run, msg |-> worker[w].msg] \in snapshots'
           \/ "store" \in Faults
    BY <1>3 DEF TypeOK, Jobs, Snapshot, Goto, SaveSnapshot
  <2> QED
    BY <1>1, <2>1, TrueRows DEF Backed
<1>4. CASE AuditSuccess(w)
  <2>1. worker'[w].at = "free" /\ worker[w].at = "audit"
    BY <1>4 DEF TypeOK, AuditSuccess, Return, Free
  <2>2. \A row \in audit' :
           row \in audit \/ (row.by = run /\ row.msg = worker[w].msg)
    BY <1>4, OneRowMore DEF AuditSuccess
  <2> QED
    BY <1>1, <2>1, <2>2, TrueRows DEF Backed
<1>5. CASE \E p \in pending : Take(w, p) \/ TakeWithoutToken(w, p)
  <2>1. worker'[w] = worker[w] \/ worker'[w].at = "inspect"
    BY <1>5 DEF TypeOK, Take, TakeWithoutToken
  <2>2. audit' = audit
    BY <1>5 DEF Take, TakeWithoutToken, storeVars
  <2> QED
    BY <1>1, <2>1, <2>2, TrueRows DEF Backed
<1>6. CASE \/ InspectMessage(w) \/ Publish(w) \/ PublishAgain(w)
           \/ PublishGivesUp(w) \/ AckFailed(w)
  <2>1. worker'[w].at \in {"free", "publish", "ack"}
    BY <1>6 DEF TypeOK, Jobs, InspectMessage, Publish, PublishAgain, PublishGivesUp,
                AckFailed, Goto, Return, Free
  <2>2. ASSUME NEW row \in audit', row.result = "success"
        PROVE  row \in audit
    BY <1>6, <2>2, OneRowMore
    DEF InspectMessage, Publish, PublishAgain, PublishGivesUp, AckFailed, storeVars
  <2> QED
    BY <1>1, <2>1, <2>2, TrueRows DEF Backed
<1> QED
  BY <1>2, <1>3, <1>4, <1>5, <1>6 DEF WorkerStep

LEMMA StepTrailInv == TrailInv /\ [Next]_vars => Backed' /\ SuccessIsTrue'
<1> SUFFICES ASSUME TrailInv, [Next]_vars PROVE Backed' /\ SuccessIsTrue'
  OBVIOUS
<1> USE DEF TrailInv
<1>1. CASE \E res \in BOOLEAN : Start(res)
  <2>1. /\ \A w \in Workers : worker[w].at = "free"
        /\ UNCHANGED <<worker, removed, snapshots>>
    BY <1>1 DEF Quiet, Start, storeVars
  <2>2. ASSUME NEW row \in audit', row.result = "success"
        PROVE  row \in audit
    <3>1. \/ audit' = audit
          \/ audit' \subseteq audit \cup {RowBy(run + 1, NoMessage, "refused")}
      BY <1>1 DEF Start, AppendRow, AppendRows, storeVars
    <3>2. RowBy(run + 1, NoMessage, "refused").result # "success"
      BY DEF RowBy
    <3> QED
      BY <2>2, <3>1, <3>2
  <2> QED
    BY <2>1, <2>2, TrueRows DEF Backed
<1>2. CASE MainStep
  <2>1. UNCHANGED <<worker, removed, snapshots, run>>
    BY <1>2 DEF MainStep, Validate, ValidateFails, NextBatch, Complete,
                NextOrDone, Trip, storeVars
  <2>2. \A row \in audit' : row.result = "success" => row \in audit
    <3>1. CASE Validate
      BY <3>1 DEF Validate, AppendRows, Row, RowBy
    <3>2. CASE ~Validate
      BY <1>2, <3>2, OneRowMore
      DEF MainStep, ValidateFails, NextBatch, Complete, NextOrDone, Trip, storeVars
    <3> QED
      BY <3>1, <3>2
  <2> QED
    BY <2>1, <2>2, TrueRows DEF Backed
<1>3. CASE \E w \in Workers : WorkerStep(w)
  BY <1>3, WorkerBacked
<1>4. CASE Expire \/ Elsewhere \/ UNCHANGED vars
  <2>1. UNCHANGED <<worker, removed, snapshots, run, audit>>
    BY <1>4 DEF Expire, Elsewhere, vars, runVars, storeVars
  <2> QED
    BY <2>1, TrueRows DEF Backed
<1>5. CASE Crash
  <2>1. /\ UNCHANGED <<removed, snapshots, audit>>
        /\ \A w \in Workers : worker'[w].at = "free"
    BY <1>5 DEF Crash, Free, storeVars
  <2> QED
    BY <2>1, TrueRows DEF Backed
<1> QED
  BY <1>1, <1>2, <1>3, <1>4, <1>5 DEF Next

LEMMA TrailInvariant == Spec => []TrailInv
<1>1. Init => TrailInv
  <2> SUFFICES ASSUME Init PROVE TrailInv
    OBVIOUS
  <2>1. TypeOK /\ Quiet
    BY InitIInv DEF IInv
  <2>2. audit = {} /\ \A w \in Workers : worker[w].at = "free"
    BY DEF Init, StoreInit, Free
  <2> QED
    BY <2>1, <2>2 DEF TrailInv, Backed, SuccessIsTrue
<1>2. TrailInv /\ IInv /\ [Next]_vars => TrailInv'
  BY StepTrailInv, StepIInv DEF TrailInv, IInv
<1> QED
  BY <1>1, <1>2, IInvInvariant, PTL DEF Spec

LEMMA BackedInvariant == Spec => []Backed
<1>1. TrailInv => Backed
  BY DEF TrailInv
<1> QED
  BY <1>1, TrailInvariant, PTL

\* The trail does not claim a replay that did not happen or that cannot be
\* rolled back (process in executor.go: the success row comes after the ack
\* and the snapshot), in any run, whatever fails and wherever the process dies.
THEOREM SuccessRowsAreTrue == Spec => []SuccessIsTrue
<1>1. TrailInv => SuccessIsTrue
  BY DEF TrailInv
<1> QED
  BY <1>1, TrailInvariant, PTL

-----------------------------------------------------------------------------
(* Who has which place of the plan.                                        *)

\* Every place of the run is in one hand: on the list, in the batch, or with
\* one worker (runBatch's work channel hands every index out once).
Held == /\ remaining \cap pending = {}
        /\ \A w \in Workers : Busy(w) => worker[w].place \notin pending \cup remaining
        /\ \A v, w \in Workers :
              Busy(v) /\ Busy(w) /\ worker[v].place = worker[w].place => v = w

HInv == TypeOK /\ Quiet /\ Held

\* What a step of a worker does to the places: it takes one of the batch, it
\* counts one as failed, or it goes on with its own or gives it up.
LEMMA WorkerPlaces ==
  ASSUME TypeOK, NEW w \in Workers, WorkerStep(w)
  PROVE  \/ \E p \in pending :
               /\ pending' = pending \ {p} /\ ~Busy(w)
               /\ \/ /\ worker'[w].at = "inspect" /\ worker'[w].place = p
                     /\ worker'[w].msg = Plan[p] /\ worker'[w].tries = 0
                  \/ worker' = worker
         \/ /\ Busy(w) /\ pending' = pending
            /\ Busy(w)' => worker'[w].place = worker[w].place /\ worker'[w].msg = worker[w].msg
<1>1. CASE \E p \in pending : Take(w, p) \/ TakeWithoutToken(w, p)
  BY <1>1 DEF TypeOK, Take, TakeWithoutToken, Busy
<1>2. CASE PublishAgain(w) \/ Publish(w) \/ Snapshot(w) \/ Ack(w)
  BY <1>2 DEF TypeOK, Jobs, PublishAgain, Publish, Snapshot, Ack, Goto, Busy
<1>3. CASE InspectMessage(w) \/ PublishGivesUp(w) \/ AckFailed(w) \/ AuditSuccess(w)
  BY <1>3 DEF TypeOK, Jobs, InspectMessage, PublishGivesUp, AckFailed, AuditSuccess,
              Goto, Return, Free, Busy
<1> QED
  BY <1>1, <1>2, <1>3 DEF WorkerStep

LEMMA StepHeld == HInv /\ [Next]_vars => Held'
<1> SUFFICES ASSUME HInv, [Next]_vars PROVE Held'
  OBVIOUS
<1> USE DEF HInv
<1>1. CASE \E res \in BOOLEAN : Start(res)
  <2>1. pending' = {} /\ remaining' = {} /\ \A w \in Workers : ~Busy(w)'
    BY <1>1 DEF Quiet, Start, Busy
  <2> QED
    BY <2>1 DEF Held
<1>2. CASE Validate \/ NextBatch
  <2>1. /\ \A w \in Workers : ~Busy(w)'
        /\ remaining' \cap pending' = {}
    BY <1>2 DEF Quiet, Validate, NextBatch, Busy
  <2> QED
    BY <2>1 DEF Held
<1>3. CASE \/ ValidateFails \/ Complete \/ NextOrDone \/ Trip
           \/ Expire \/ Elsewhere \/ UNCHANGED vars
  <2>1. UNCHANGED <<remaining, pending, worker>>
    BY <1>3 DEF ValidateFails, Complete, NextOrDone, Trip, Expire, Elsewhere,
                vars, runVars
  <2> QED
    BY <2>1 DEF Held, Busy
<1>4. ASSUME NEW w \in Workers, WorkerStep(w) PROVE Held'
  <2>1. remaining' = remaining /\ \A v \in Workers \ {w} : worker'[v] = worker[v]
    BY <1>4, WorkerMoves
  <2>2. ASSUME NEW p \in pending, pending' = pending \ {p},
               worker'[w].at = "inspect", worker'[w].place = p
        PROVE  Held'
    <3>1. p \notin remaining /\ \A v \in Workers : Busy(v) => worker[v].place # p
      BY <2>2 DEF Held
    <3> QED
      BY <2>1, <2>2, <3>1 DEF Held, Busy
  <2>3. CASE pending' \subseteq pending /\ worker' = worker
    BY <2>1, <2>3 DEF Held, Busy
  <2>4. CASE /\ Busy(w) /\ pending' = pending
             /\ Busy(w)' => worker'[w].place = worker[w].place
    BY <2>1, <2>4 DEF Held, Busy
  <2> QED
    BY <1>4, <2>2, <2>3, <2>4, WorkerPlaces
<1>5. CASE Crash
  <2>1. /\ remaining' = {} /\ pending' = {} /\ \A w \in Workers : ~Busy(w)'
    BY <1>5 DEF Crash, Free, Busy
  <2> QED
    BY <2>1 DEF Held
<1> QED
  BY <1>1, <1>2, <1>3, <1>4, <1>5 DEF Next, MainStep

LEMMA InitHInv == Init => HInv
BY InitIInv DEF Init, Free, IInv, HInv, Held, Busy

LEMMA HInvInvariant == Spec => []HInv
<1>1. HInv /\ IInv /\ [Next]_vars => HInv'
  BY StepHeld, StepIInv DEF HInv, IInv
<1> QED
  BY <1>1, InitHInv, IInvInvariant, StepIInv, PTL DEF Spec

-----------------------------------------------------------------------------
(* Which rows are evidence.                                                *)

\* The run consults the trail about this place: its plan has the duplicate
\* check, or it resumes and has read what there is of its message.
Gated(p) == "duplicate" \in checks \/ (resume /\ p \notin unread)

\* All the evidence of its message comes from other places in this run.
OnlyOwn(p) ==
    \A row \in audit : IsEvidence(row, Plan[p]) =>
       /\ row.by = run
       /\ \E q \in Places \ {p} : Plan[q] = Plan[p] /\ <<run, q>> \in removed

\* What a run has yet to attempt, or has in hand, has no other evidence.
Fresh == \A p \in Places :
            /\ Gated(p)
            /\ \/ pc \in {"batch", "running"} /\ p \in remaining \cup pending
               \/ \E w \in Workers : Busy(w) /\ worker[w].place = p
            => OnlyOwn(p)

\* Steps that add no evidence.
LEMMA OnlyOwnKept ==
  ASSUME run' = run, removed \subseteq removed', NEW p \in Places, OnlyOwn(p),
         \A row \in audit' : row.result = "success" => row \in audit
  PROVE  OnlyOwn(p)'
BY DEF OnlyOwn, IsEvidence

\* A success row that place q writes is evidence for the other places.
LEMMA OnlyOwnGrows ==
  ASSUME UNCHANGED <<run, removed>>, NEW q \in Places, <<run, q>> \in removed,
         AppendRow(Row(Plan[q], "success")), NEW p \in Places \ {q}, OnlyOwn(p)
  PROVE  OnlyOwn(p)'
<1> SUFFICES ASSUME NEW row \in audit', IsEvidence(row, Plan[p])
             PROVE  /\ row.by = run
                    /\ \E o \in Places \ {p} : Plan[o] = Plan[p] /\ <<run, o>> \in removed
  BY DEF OnlyOwn, IsEvidence
<1>1. CASE row \in audit
  BY <1>1 DEF OnlyOwn
<1>2. CASE row.by = run /\ row.msg = Plan[q]
  BY <1>2 DEF IsEvidence
<1> QED
  BY <1>1, <1>2, OneRowMore

\* No row but a worker's last one is evidence.
LEMMA NoOtherEvidence ==
  ASSUME [Next]_vars, ~(\E w \in Workers : AuditSuccess(w)),
         NEW row \in audit', row.result = "success"
  PROVE  row \in audit
<1>1. CASE \E res \in BOOLEAN : Start(res)
  <2>1. RowBy(run + 1, NoMessage, "refused").result # "success"
    BY DEF RowBy
  <2> QED
    BY <1>1, <2>1 DEF Start, AppendRow, AppendRows, storeVars
<1>2. CASE Validate
  BY <1>2 DEF Validate, AppendRows, Row, RowBy
<1>3. CASE \/ ValidateFails \/ NextBatch \/ Complete \/ NextOrDone \/ Trip
           \/ Expire \/ Crash \/ Elsewhere \/ UNCHANGED vars
  BY <1>3, OneRowMore
  DEF ValidateFails, NextBatch, Complete, NextOrDone, Trip, Expire, Crash,
      Elsewhere, vars, storeVars
<1>4. CASE \E w \in Workers : WorkerStep(w)
  BY <1>4, OneRowMore
  DEF WorkerStep, Take, TakeWithoutToken, InspectMessage, Publish, PublishAgain,
      PublishGivesUp, Ack, AckFailed, Snapshot, storeVars
<1> QED
  BY <1>1, <1>2, <1>3, <1>4 DEF Next, MainStep

LEMMA StepFresh == HInv /\ Backed /\ Fresh /\ [Next]_vars => Fresh'
<1> SUFFICES ASSUME HInv, Backed, Fresh, [Next]_vars PROVE Fresh'
  OBVIOUS
<1> USE DEF HInv
<1>1. CASE Validate
  <2>1. PICK missed \in SUBSET Unreadable :
           /\ unread' = missed
           /\ remaining' = Places \ (Skipped \cup Completed(missed))
    BY <1>1 DEF Validate
  <2>2. UNCHANGED <<pending, worker, resume, checks, run, removed>>
        /\ pending = {} /\ \A w \in Workers : ~Busy(w)
    BY <1>1 DEF Validate, Quiet, Busy
  <2>3. ASSUME NEW p \in remaining', Gated(p)' PROVE OnlyOwn(p)'
    <3>1. p \in Places /\ ~Replayed(Plan[p])
      BY <2>1, <2>2, <2>3 DEF Gated, Skipped, Duplicate, Completed
    <3>2. \A row \in audit' : ~IsEvidence(row, Plan[p])
      BY <1>1, <3>1, NoOtherEvidence DEF Replayed, IsEvidence, Validate, AppendRows, Row, RowBy
    <3> QED
      BY <3>2 DEF OnlyOwn, IsEvidence
  <2> QED
    BY <2>2, <2>3 DEF Fresh, Busy
<1>2. CASE (\E res \in BOOLEAN : Start(res)) \/ Crash
  <2>1. /\ pending' = {} /\ remaining' = {} /\ \A w \in Workers : ~Busy(w)'
    <3>1. CASE \E res \in BOOLEAN : Start(res)
      BY <3>1 DEF Quiet, Start, Busy
    <3>2. CASE Crash
      BY <3>2 DEF Crash, Free, Busy
    <3> QED
      BY <1>2, <3>1, <3>2
  <2> QED
    BY <2>1 DEF Fresh
\* The other steps of a run keep what it gates, and attempt nothing new.
<1>3. ASSUME ~(\E res \in BOOLEAN : Start(res)), ~Validate, ~Crash
      PROVE  Fresh'
  <2>1. /\ UNCHANGED <<run, resume, checks, unread>> /\ removed \subseteq removed'
        /\ remaining' \cup pending' \subseteq remaining \cup pending
        /\ pc' \in {"batch", "running"} => pc \in {"batch", "running"}
    <3>1. CASE \E w \in Workers : WorkerStep(w)
      <4>1. PICK w \in Workers : WorkerStep(w)
        BY <3>1
      <4>2. /\ UNCHANGED <<run, resume, checks, unread, pc, remaining>>
            /\ removed \subseteq removed'
        BY <4>1, WorkerMoves
      <4>3. pending' \subseteq pending
        BY <4>1, WorkerPlaces
      <4> QED
        BY <4>2, <4>3
    <3>2. CASE ~(\E w \in Workers : WorkerStep(w))
      BY <1>3, <3>2 DEF Next, MainStep, ValidateFails, NextBatch, Complete, NextOrDone,
                   Trip, BatchDone, Expire, Elsewhere, vars, runVars
    <3> QED
      BY <3>1, <3>2
  <2>2. ASSUME NEW w \in Workers, Busy(w)'
        PROVE  \/ worker'[w].place \in pending /\ pc = "running"
               \/ Busy(w) /\ worker'[w].place = worker[w].place
    <3>1. CASE \E v \in Workers : WorkerStep(v)
      <4>1. PICK v \in Workers : WorkerStep(v)
        BY <3>1
      <4>2. \A u \in Workers \ {v} : worker'[u] = worker[u]
        BY <4>1, WorkerMoves
      <4>3. pc = "running"
        BY <4>1 DEF Quiet, WorkerStep, Take, TakeWithoutToken, InspectMessage,
                    Publish, PublishAgain, PublishGivesUp, Ack, AckFailed, Snapshot,
                    AuditSuccess
      <4> QED
        BY <2>2, <4>1, <4>2, <4>3, WorkerPlaces DEF Busy
    <3>2. CASE ~(\E v \in Workers : WorkerStep(v))
      <4>1. worker' = worker
        BY <1>3, <3>2 DEF Next, MainStep, ValidateFails, NextBatch, Complete, NextOrDone,
                     Trip, Expire, Elsewhere, vars
      <4> QED
        BY <2>2, <4>1 DEF Busy
    <3> QED
      BY <3>1, <3>2
  <2>3. ASSUME NEW p \in Places, Gated(p)',
               \/ pc' \in {"batch", "running"} /\ p \in remaining' \cup pending'
               \/ \E w \in Workers : Busy(w)' /\ worker'[w].place = p
        PROVE  OnlyOwn(p)
    <3>1. Gated(p)
      BY <2>1, <2>3 DEF Gated
    <3>2. \/ pc \in {"batch", "running"} /\ p \in remaining \cup pending
          \/ \E w \in Workers : Busy(w) /\ worker[w].place = p
      BY <2>1, <2>2, <2>3
    <3> QED
      BY <3>1, <3>2 DEF Fresh
  <2>4. CASE ~(\E w \in Workers : AuditSuccess(w))
    <3>1. \A row \in audit' : row.result = "success" => row \in audit
      BY <2>4, NoOtherEvidence
    <3> QED
      BY <2>1, <2>3, <3>1, OnlyOwnKept DEF Fresh
  <2>5. ASSUME NEW w \in Workers, AuditSuccess(w) PROVE Fresh'
    <3>1. PICK q \in Places : q = worker[w].place /\ Plan[q] = worker[w].msg
      BY <2>5, WorkerRecord DEF AuditSuccess
    <3>2. /\ <<run, q>> \in removed /\ UNCHANGED <<run, removed, remaining, pending>>
          /\ AppendRow(Row(Plan[q], "success"))
      BY <2>5, <3>1 DEF Backed, AuditSuccess, runVars
    <3>3. ~Busy(w)' /\ Busy(w) /\ \A v \in Workers \ {w} : worker'[v] = worker[v]
      BY <2>5 DEF TypeOK, AuditSuccess, Return, Free, Busy
    <3>4. /\ q \notin remaining' \cup pending'
          /\ \A v \in Workers : Busy(v)' => worker'[v].place # q
      BY <3>1, <3>2, <3>3 DEF Held, Busy
    <3> QED
      BY <2>3, <3>2, <3>4, OnlyOwnGrows DEF Fresh
  <2> QED
    BY <2>4, <2>5
<1> QED
  BY <1>1, <1>2, <1>3

\* What the trail shows as replayed is not attempted again (dedupe.CheckAudit,
\* filterCompleted in executor.go), by a run whose plan has the duplicate
\* check or that resumes, whatever came back to the queue meanwhile: all the
\* evidence of a message somebody is at work on comes from another place of
\* the plan in the same run, but for what a resumed run failed to read.
THEOREM EvidenceIsRespected == Spec => []EvidenceRespected
<1>1. Init => Fresh
  BY DEF Init, Free, Fresh, Busy
<1>2. HInv /\ Fresh => EvidenceRespected
  <2> SUFFICES ASSUME HInv, Fresh, NEW w \in Workers, Busy(w), Gated(worker[w].place)
               PROVE  \A row \in audit : IsEvidence(row, worker[w].msg) =>
                         /\ row.by = run
                         /\ \E p \in Places \ {worker[w].place} :
                               Plan[p] = worker[w].msg /\ <<run, p>> \in removed
    BY DEF EvidenceRespected, Busy, Gated
  <2>1. worker[w].place \in Places /\ worker[w].msg = Plan[worker[w].place]
    BY WorkerRecord DEF HInv, Busy
  <2>2. OnlyOwn(worker[w].place)
    BY <2>1 DEF Fresh
  <2> QED
    BY <2>1, <2>2 DEF OnlyOwn
<1> QED
  BY <1>1, <1>2, StepFresh, HInvInvariant, BackedInvariant, PTL DEF Spec

-----------------------------------------------------------------------------
(* The outcomes of a batch.                                                *)

\* Results are counted at the end of a batch, and gone.
NothingLeftOver == pc # "running" => \A p \in Places : outcome[p] = "none"

LEMMA StepLeftOver ==
  TypeOK /\ Quiet /\ NothingLeftOver /\ [Next]_vars => NothingLeftOver'
<1> SUFFICES ASSUME TypeOK, Quiet, NothingLeftOver, [Next]_vars, pc' # "running",
                    NEW p \in Places
             PROVE  outcome'[p] = "none"
  BY DEF NothingLeftOver
<1>1. CASE pc # "running"
  <2>1. ~(\E w \in Workers : WorkerStep(w))
    BY <1>1 DEF Quiet, WorkerStep, InspectMessage, Publish, PublishAgain,
                PublishGivesUp, Ack, AckFailed, Snapshot, AuditSuccess
  <2>2. outcome[p] = "none"
    BY <1>1 DEF NothingLeftOver
  <2>3. outcome' = outcome \/ outcome' = [q \in Places |-> "none"]
    BY <2>1 DEF Next, Start, MainStep, Validate, ValidateFails, NextBatch, Complete,
                NextOrDone, Trip, Count, Expire, Crash, Elsewhere, vars
  <2> QED
    BY <2>2, <2>3
<1>2. CASE pc = "running"
  <2>1. NextOrDone \/ Trip \/ Crash
    BY <1>2, WorkerMoves
    DEF Next, Start, MainStep, Validate, ValidateFails, NextBatch, Complete,
        Expire, Elsewhere, vars, runVars
  <2> QED
    BY <2>1 DEF NextOrDone, Trip, Count, Crash
<1> QED
  BY <1>1, <1>2

OutcomeInv == TypeOK /\ Quiet /\ NothingLeftOver /\ ~expired /\ OutcomesAudited

LEMMA StepOutcomes ==
  ASSUME "store" \notin Faults, "deadline" \notin Faults
  PROVE  OutcomeInv /\ [Next]_vars => ~expired' /\ OutcomesAudited'
<1> SUFFICES ASSUME OutcomeInv, [Next]_vars PROVE ~expired' /\ OutcomesAudited'
  OBVIOUS
<1> USE DEF OutcomeInv
<1>1. ASSUME NEW w \in Workers, WorkerStep(w)
      PROVE  ~expired' /\ OutcomesAudited'
  <2>1. run' = run /\ ~expired' /\ audit \subseteq audit'
    BY <1>1, WorkerMoves
  <2>2. CASE outcome' = outcome
    BY <2>1, <2>2 DEF OutcomesAudited, Row, RowBy
  <2>3. ASSUME NEW res \in {"replayed", "publish_failed", "ack_failed"}, Return(w, res),
               worker[w].at # "free", AppendRow(Row(worker[w].msg, RowOf[res]))
        PROVE  OutcomesAudited'
    <3>1. PICK q \in Places : q = worker[w].place /\ Plan[q] = worker[w].msg
      BY <2>3, WorkerRecord
    <3>2. outcome'[q] = res /\ \A p \in Places \ {q} : outcome'[p] = outcome[p]
      BY <2>3, <3>1 DEF Return, TypeOK
    <3>3. Row(Plan[q], RowOf[res]) \in audit'
      BY <2>3, <3>1 DEF AppendRow, AppendRows
    <3> QED
      BY <2>1, <3>2, <3>3 DEF OutcomesAudited, Row, RowBy
  <2>4. \/ outcome' = outcome
        \/ \E res \in {"replayed", "publish_failed", "ack_failed"} :
              /\ Return(w, res) /\ worker[w].at # "free"
              /\ AppendRow(Row(worker[w].msg, RowOf[res]))
    BY <1>1 DEF WorkerStep, Take, TakeWithoutToken, InspectMessage, Publish,
                PublishAgain, PublishGivesUp, Ack, AckFailed, Snapshot, AuditSuccess,
                RowOf
  <2> QED
    BY <2>1, <2>2, <2>3, <2>4
<1>2. CASE \E res \in BOOLEAN : Start(res)
  <2>1. ~expired' /\ outcome' = outcome /\ pc # "running"
    BY <1>2 DEF Start
  <2> QED
    BY <2>1 DEF NothingLeftOver, OutcomesAudited
<1>3. CASE Validate \/ ValidateFails \/ NextBatch \/ Complete
  <2>1. /\ ~expired' /\ outcome' = outcome /\ pc # "running"
    BY <1>3 DEF Validate, ValidateFails, NextBatch, Complete
  <2> QED
    BY <2>1 DEF NothingLeftOver, OutcomesAudited
<1>4. CASE NextOrDone \/ Trip \/ Crash
  <2>1. /\ ~expired' /\ \A p \in Places : outcome'[p] = "none"
    BY <1>4 DEF NextOrDone, Trip, Count, Crash
  <2> QED
    BY <2>1 DEF OutcomesAudited
<1>5. CASE Elsewhere \/ UNCHANGED vars
  <2>1. UNCHANGED <<run, audit, outcome, expired>>
    BY <1>5 DEF Elsewhere, vars, runVars, storeVars
  <2> QED
    BY <2>1 DEF OutcomesAudited, Row, RowBy
<1>6. ~Expire
  BY DEF Expire
<1> QED
  BY <1>1, <1>2, <1>3, <1>4, <1>5, <1>6 DEF Next, MainStep

\* Every outcome of a batch has its row in the trail (process in
\* executor.go: each of its returns audits first), when the writes of the
\* store succeed and the command's time does not run out: a place that gets
\* no token of the limiter has none.
THEOREM EveryOutcomeAudited ==
  ASSUME "store" \notin Faults, "deadline" \notin Faults
  PROVE  Spec => []OutcomesAudited
<1>1. Init => OutcomeInv
  <2> SUFFICES ASSUME Init PROVE OutcomeInv
    OBVIOUS
  <2>1. TypeOK /\ Quiet
    BY InitIInv DEF IInv
  <2> QED
    BY <2>1 DEF Init, OutcomeInv, NothingLeftOver, OutcomesAudited
<1>2. OutcomeInv /\ IInv /\ [Next]_vars => OutcomeInv'
  BY StepOutcomes, StepLeftOver, StepIInv DEF OutcomeInv, IInv
<1>3. OutcomeInv => OutcomesAudited
  BY DEF OutcomeInv
<1> QED
  BY <1>1, <1>2, <1>3, IInvInvariant, PTL DEF Spec

-----------------------------------------------------------------------------
(* How many copies of a message there are.                                 *)

CopiesOf(m) == dlq[m] + delivered[m]

LEMMA CopiesOfNat ==
  ASSUME TypeOK, NEW m \in Messages
  PROVE  CopiesOf(m) \in Nat
BY DEF TypeOK, BrokerTypeOK, CopiesOf

LEMMA ConfirmedCopies ==
  ASSUME TypeOK, NEW n \in Messages, PublishConfirmed(n), NEW m \in Messages
  PROVE  CopiesOf(m)' \in {CopiesOf(m), CopiesOf(m) + IF m = n THEN 1 ELSE 0}
BY DEF TypeOK, BrokerTypeOK, CopiesOf, PublishConfirmed

LEMMA RemovedOne ==
  ASSUME TypeOK, NEW n \in Messages, AckRemoves(n), NEW m \in Messages
  PROVE  CopiesOf(m)' = CopiesOf(m) - IF m = n THEN 1 ELSE 0
BY DEF TypeOK, BrokerTypeOK, CopiesOf, AckRemoves

LEMMA BrokerMovesCopies ==
  ASSUME TypeOK, BrokerStep, NEW m \in Messages
  PROVE  CopiesOf(m)' = CopiesOf(m)
BY DEF TypeOK, BrokerTypeOK, CopiesOf, BrokerStep, Redeliver, OtherOperator,
       DeleteDestination

LEMMA SameCopies ==
  ASSUME UNCHANGED brokerVars, NEW m
  PROVE  CopiesOf(m)' = CopiesOf(m)
BY DEF brokerVars, CopiesOf

\* Only the workers and what happens elsewhere change the queues.
LEMMA MainKeepsCopies ==
  ASSUME \/ \E res \in BOOLEAN : Start(res)
         \/ MainStep \/ Expire \/ Crash \/ UNCHANGED vars,
         NEW m
  PROVE  CopiesOf(m)' = CopiesOf(m)
<1>1. UNCHANGED brokerVars
  BY DEF Start, MainStep, Validate, ValidateFails, NextBatch, Complete,
         NextOrDone, Trip, Expire, Crash, vars
<1> QED
  BY <1>1, SameCopies

-----------------------------------------------------------------------------
(* A second copy leaves a trace.                                           *)

\* The trail has a failed publish or a failed ack of the message.
Traced(m) == \E row \in audit : /\ row.msg = m
                                /\ row.result \in {"publish_failed", "ack_failed"}

\* Without a trace, every copy beyond the first is claimed by a worker.
TracedOrClaimed == \A m \in Messages : Traced(m) \/ CopiesOf(m) <= 1 + Owed(m)

LEMMA FailureTraced ==
  ASSUME "store" \notin Faults, NEW n,
         NEW res \in {"publish_failed", "ack_failed"}, AppendRow(Row(n, res))
  PROVE  Traced(n)'
<1>1. audit' = audit \cup {Row(n, res)}
  BY DEF AppendRow, AppendRows
<1>2. Row(n, res).msg = n /\ Row(n, res).result = res
  BY DEF Row, RowBy
<1> QED
  BY <1>1, <1>2 DEF Traced

LEMMA StepTraced ==
  ASSUME Retry = 0, Faults \cap {"store", "crash", "ack_lost"} = {}
  PROVE  TypeOK /\ Quiet /\ TracedOrClaimed /\ [Next]_vars => TracedOrClaimed'
<1> SUFFICES ASSUME TypeOK, Quiet, TracedOrClaimed, [Next]_vars, NEW m \in Messages
             PROVE  Traced(m)' \/ CopiesOf(m)' <= 1 + Owed(m)'
  BY DEF TracedOrClaimed
<1>1. /\ Traced(m) \/ CopiesOf(m) <= 1 + Owed(m)
      /\ CopiesOf(m) \in Nat /\ Owed(m) \in Nat
  BY CopiesOfNat, OwedNat DEF TracedOrClaimed
<1>2. ASSUME audit \subseteq audit', Owed(m)' = Owed(m), CopiesOf(m)' = CopiesOf(m)
      PROVE  Traced(m)' \/ CopiesOf(m)' <= 1 + Owed(m)'
  BY <1>1, <1>2 DEF Traced
<1>3. ASSUME NEW w \in Workers, WorkerStep(w)
      PROVE  Traced(m)' \/ CopiesOf(m)' <= 1 + Owed(m)'
  <2>1. /\ audit \subseteq audit' /\ \A v \in Workers \ {w} : worker'[v] = worker[v]
    BY <1>3, WorkerMoves
  <2>2. Traced(m) => Traced(m)'
    BY <2>1 DEF Traced
  <2>3. CASE \/ \E p \in pending : Take(w, p) \/ TakeWithoutToken(w, p)
             \/ InspectMessage(w) \/ Snapshot(w) \/ AuditSuccess(w)
    <3>1. UNCHANGED brokerVars
      BY <2>3 DEF Take, TakeWithoutToken, InspectMessage, Snapshot, AuditSuccess
    <3>2. \/ worker' = worker
          \/ worker[w].at # "ack" /\ worker'[w].at # "ack"
      BY <2>3 DEF TypeOK, Jobs, Take, TakeWithoutToken, InspectMessage, Snapshot,
                  AuditSuccess, Goto, Return, Free
    <3>3. Owed(m)' = Owed(m)
      BY <2>1, <3>2, OwedSame
    <3> QED
      BY <1>2, <2>1, <3>1, <3>3, SameCopies
  <2>4. CASE Publish(w)
    <3>1. worker[w].at = "publish" /\ Goto(w, "ack") /\ PublishConfirmed(worker[w].msg)
      BY <2>4 DEF Publish
    <3>2. worker[w].msg \in Messages
      BY <3>1, WorkerRecord
    <3>3. Owed(m)' = IF m = worker[w].msg THEN Owed(m) + 1 ELSE Owed(m)
      BY <3>1, OwedUp
    <3>4. CopiesOf(m)' \in {CopiesOf(m), CopiesOf(m) + IF m = worker[w].msg THEN 1 ELSE 0}
      BY <3>1, <3>2, ConfirmedCopies
    <3> QED
      BY <1>1, <2>2, <3>3, <3>4
  <2>5. CASE PublishGivesUp(w)
    <3>0. PICK n \in Messages : n = worker[w].msg
      BY <2>5, WorkerRecord DEF PublishGivesUp
    <3>1. /\ worker[w].at = "publish" /\ worker'[w].at = "free"
          /\ AppendRow(Row(n, "publish_failed"))
          /\ PublishConfirmed(n) \/ UNCHANGED brokerVars
      BY <2>5, <3>0 DEF TypeOK, Jobs, PublishGivesUp, PublishFails, Return, Free
    <3>2. Owed(m)' = Owed(m)
      BY <2>1, <3>1, OwedSame
    <3>3. CASE m = n
      BY <3>1, <3>3, FailureTraced
    <3>4. CASE m # n
      <4>1. CopiesOf(m)' = CopiesOf(m)
        BY <1>1, <3>1, <3>4, ConfirmedCopies, SameCopies
      <4> QED
        BY <1>2, <2>1, <3>2, <4>1
    <3> QED
      BY <3>3, <3>4
  <2>6. CASE Ack(w) \/ AckFailed(w)
    <3>0. PICK n \in Messages : n = worker[w].msg
      BY <2>6, WorkerRecord DEF Ack, AckFailed
    <3>1. /\ worker[w].at = "ack" /\ worker'[w].at # "ack"
          /\ \/ AckRemoves(n)
             \/ UNCHANGED brokerVars /\ AppendRow(Row(n, "ack_failed"))
      <4>1. worker[w].at = "ack" /\ worker'[w].at # "ack"
        BY <2>6 DEF TypeOK, Jobs, Ack, AckFailed, Goto, Return, Free
      <4>2. CASE Ack(w)
        BY <3>0, <4>1, <4>2 DEF Ack, AckReturns
      <4>3. CASE AckFailed(w)
        BY <3>0, <4>1, <4>3 DEF AckFailed, AckFails
      <4> QED
        BY <2>6, <4>2, <4>3
    <3>2. Owed(m)' = IF m = n THEN Owed(m) - 1 ELSE Owed(m)
      BY <2>1, <3>0, <3>1, OwedDown
    <3>3. CASE AckRemoves(n)
      <4>1. CopiesOf(m)' = CopiesOf(m) - IF m = n THEN 1 ELSE 0
        BY <3>3, RemovedOne
      <4> QED
        BY <1>1, <2>2, <3>2, <4>1
    <3>4. CASE UNCHANGED brokerVars /\ AppendRow(Row(n, "ack_failed"))
      <4>1. CASE m = n
        BY <3>4, <4>1, FailureTraced
      <4>2. CASE m # n
        BY <1>2, <2>1, <3>2, <3>4, <4>2, SameCopies
      <4> QED
        BY <4>1, <4>2
    <3> QED
      BY <3>1, <3>3, <3>4
  <2>7. ~PublishAgain(w)
    BY WorkerRecord DEF PublishAgain
  <2> QED
    BY <1>3, <2>3, <2>4, <2>5, <2>6, <2>7 DEF WorkerStep
<1>4. ASSUME \/ \E res \in BOOLEAN : Start(res)
             \/ MainStep \/ Expire \/ UNCHANGED vars
      PROVE  Traced(m)' \/ CopiesOf(m)' <= 1 + Owed(m)'
  <2>1. worker' = worker /\ audit \subseteq audit'
    BY <1>4 DEF Start, MainStep, Validate, ValidateFails, NextBatch, Complete,
                NextOrDone, Trip, Expire, vars, storeVars, AppendRow, AppendRows
  <2>2. Owed(m)' = Owed(m)
    BY <2>1, OwedSame
  <2> QED
    BY <1>2, <1>4, <2>1, <2>2, MainKeepsCopies
<1>5. CASE Elsewhere
  <2>1. worker' = worker /\ audit' = audit /\ BrokerStep
    BY <1>5 DEF Elsewhere, storeVars
  <2>2. Owed(m)' = Owed(m)
    BY <2>1, OwedSame
  <2> QED
    BY <1>2, <2>1, <2>2, BrokerMovesCopies
<1>6. ~Crash
  BY DEF Crash
<1> QED
  BY <1>3, <1>4, <1>5, <1>6 DEF Next

\* A second copy of a message never appears without a trace (process in
\* executor.go audits the failed publish and the failed ack it comes from),
\* when no process dies, no write to the store fails, no ack is lost on its
\* way, and there is no second attempt that could succeed after an
\* unconfirmed first one.
THEOREM EveryDuplicateTraced ==
  ASSUME Retry = 0, Faults \cap {"store", "crash", "ack_lost"} = {}
  PROVE  Spec => []DuplicatesTraced
<1>1. Init => TracedOrClaimed
  <2> SUFFICES ASSUME Init, NEW m \in Messages PROVE CopiesOf(m) <= 1 + Owed(m)
    BY DEF TracedOrClaimed
  <2>1. CopiesOf(m) = 1
    BY DEF Init, BrokerInit, CopiesOf
  <2> QED
    BY <2>1, OwedNat
<1>2. TracedOrClaimed /\ TypeOK => DuplicatesTraced
  <2> SUFFICES ASSUME TracedOrClaimed, TypeOK, NEW m \in Messages,
                      dlq[m] + delivered[m] >= 2, ~Traced(m)
               PROVE  \E w \in Workers : worker[w].at # "free" /\ worker[w].msg = m
    BY DEF DuplicatesTraced, Traced
  <2>1. CopiesOf(m) <= 1 + Owed(m) /\ Owed(m) \in Nat /\ CopiesOf(m) >= 2
    BY OwedNat DEF TracedOrClaimed, CopiesOf
  <2>2. Owed(m) # 0
    BY <2>1, CopiesOfNat
  <2>3. Claims(m) # {}
    BY <2>2, OwedNat, FS_EmptySet
  <2> QED
    BY <2>3 DEF Claims
<1>3. TracedOrClaimed /\ IInv /\ [Next]_vars => TracedOrClaimed'
  BY StepTraced DEF IInv
<1>4. IInv => TypeOK
  BY DEF IInv
<1> QED
  BY <1>1, <1>2, <1>3, <1>4, IInvInvariant, PTL DEF Spec

-----------------------------------------------------------------------------
(* How many copies the runs of a plan may make.                            *)

\* The attempts are counted from zero.
Untried == \A w \in Workers : worker[w].at = "inspect" => worker[w].tries = 0

LEMMA StepUntried == TypeOK /\ Untried /\ [Next]_vars => Untried'
<1> SUFFICES ASSUME TypeOK, Untried, [Next]_vars PROVE Untried'
  OBVIOUS
<1>1. ASSUME NEW w \in Workers, WorkerStep(w)
      PROVE  Untried'
  <2>1. worker'[w].at = "inspect" => worker'[w].tries = 0
    BY <1>1 DEF Untried, TypeOK, Jobs, WorkerStep, Take, TakeWithoutToken, InspectMessage,
                Publish, PublishAgain, PublishGivesUp, Ack, AckFailed, Snapshot,
                AuditSuccess, Goto, Return, Free
  <2> QED
    BY <1>1, <2>1, WorkerMoves DEF Untried
<1>2. CASE Crash
  BY <1>2 DEF Crash, Free, Untried
<1>3. CASE \/ \E res \in BOOLEAN : Start(res)
           \/ MainStep \/ Expire \/ Elsewhere \/ UNCHANGED vars
  <2>1. worker' = worker
    BY <1>3 DEF Start, MainStep, Validate, ValidateFails, NextBatch, Complete,
                NextOrDone, Trip, Expire, Elsewhere, vars
  <2> QED
    BY <2>1 DEF Untried
<1> QED
  BY <1>1, <1>2, <1>3 DEF Next

Attempts == 1..Retry + 1

\* The attempts a run may make for message m: Retry + 1 for each place that
\* names it.
Budget(m) == {p \in Places : Plan[p] = m} \X Attempts

\* A place nobody has taken yet.
Unbegun(p) == pc = "validate" \/ p \in remaining \cup pending

\* Those it still has: all of a place nobody has taken, and of a place a
\* worker is at those the worker has not used.
Unused(m) ==
    {t \in Budget(m) :
       \/ Unbegun(t[1])
       \/ \E w \in Workers : /\ worker[w].at \in {"inspect", "publish"}
                             /\ worker[w].place = t[1]
                             /\ worker[w].tries < t[2]}

\* Every attempt a run still has may add a copy, and that is all.
Rationed == \A m \in Messages :
               CopiesOf(m) + Cardinality(Unused(m)) <= 1 + run * PerRun(m)

LEMMA BudgetCounts ==
  ASSUME NEW m
  PROVE  /\ IsFiniteSet(Budget(m)) /\ Cardinality(Budget(m)) = PerRun(m)
         /\ PerRun(m) \in Nat
         /\ \A S \in SUBSET Budget(m) :
               IsFiniteSet(S) /\ Cardinality(S) \in Nat /\ Cardinality(S) <= PerRun(m)
<1> DEFINE P == {p \in Places : Plan[p] = m}
<1>1. IsFiniteSet(P) /\ Cardinality(P) \in Nat
  BY PlacesFinite, FS_Subset, FS_CardinalityType
<1>2. IsFiniteSet(Attempts) /\ Cardinality(Attempts) = Retry + 1 /\ Retry \in Nat
  <2>1. Retry \in Nat
    BY ExecutorAssumption DEF ExecutorAssumption
  <2>2. ASSUME NEW n \in Nat PROVE IsFiniteSet(1..n) /\ Cardinality(1..n) = n
    <3>1. /\ IsFiniteSet(1..n)
          /\ Cardinality(1..n) = IF 1 > n THEN 0 ELSE n - 1 + 1
      BY FS_Interval
    <3> QED
      BY <3>1
  <2> QED
    BY <2>1, <2>2 DEF Attempts
<1>3. IsFiniteSet(P \X Attempts) /\ Cardinality(P \X Attempts) = Cardinality(P) * Cardinality(Attempts)
  BY <1>1, <1>2, FS_Product
<1>4. IsFiniteSet(Budget(m)) /\ Cardinality(Budget(m)) = PerRun(m)
  BY <1>2, <1>3 DEF Budget, PerRun
<1>5. PerRun(m) \in Nat
  BY <1>4, FS_CardinalityType
<1>6. ASSUME NEW S \in SUBSET Budget(m)
      PROVE  IsFiniteSet(S) /\ Cardinality(S) \in Nat /\ Cardinality(S) <= PerRun(m)
  BY <1>4, <1>6, FS_Subset, FS_CardinalityType
<1> QED
  BY <1>4, <1>5, <1>6

LEMMA UnusedCounts ==
  ASSUME NEW m
  PROVE  /\ Unused(m) \subseteq Budget(m) /\ Unused(m)' \subseteq Budget(m)
         /\ IsFiniteSet(Unused(m)) /\ Cardinality(Unused(m)) \in Nat
         /\ IsFiniteSet(Unused(m)') /\ Cardinality(Unused(m)') \in Nat
         /\ Cardinality(Unused(m)') <= PerRun(m)
<1>1. Unused(m) \subseteq Budget(m) /\ Unused(m)' \subseteq Budget(m)
  BY DEF Unused, Budget
<1> QED
  BY <1>1, BudgetCounts

RInv == HInv /\ Untried /\ Rationed

\* What the budget of a message allows it, in whole numbers.
LEMMA RationNat ==
  ASSUME TypeOK, NEW m \in Messages
  PROVE  /\ run \in Nat /\ CopiesOf(m) \in Nat /\ run * PerRun(m) \in Nat
         /\ (run + 1) * PerRun(m) = run * PerRun(m) + PerRun(m)
<1>1. run \in Nat /\ CopiesOf(m) \in Nat /\ PerRun(m) \in Nat
  BY CopiesOfNat, BudgetCounts, ExecutorAssumption DEF ExecutorAssumption, TypeOK
<1>2. \A r, a \in Nat : r * a \in Nat /\ (r + 1) * a = r * a + a
  OBVIOUS
<1> QED
  BY <1>1, <1>2

\* Steps that make no copy and give nobody an attempt.
LEMMA RationKept ==
  ASSUME RInv, run' = run, NEW m \in Messages,
         CopiesOf(m)' \in Nat, CopiesOf(m)' <= CopiesOf(m),
         Unused(m)' \subseteq Unused(m)
  PROVE  CopiesOf(m)' + Cardinality(Unused(m)') <= 1 + run' * PerRun(m)
<1>1. Cardinality(Unused(m)') <= Cardinality(Unused(m))
  BY UnusedCounts, FS_Subset
<1>2. /\ CopiesOf(m) + Cardinality(Unused(m)) <= 1 + run * PerRun(m)
      /\ run * PerRun(m) \in Nat /\ CopiesOf(m) \in Nat
  BY RationNat DEF RInv, HInv, Rationed
<1>3. Cardinality(Unused(m)) \in Nat /\ Cardinality(Unused(m)') \in Nat
  BY UnusedCounts
<1> QED
  BY <1>1, <1>2, <1>3

\* A publish uses one attempt: nobody else has the place of the worker that
\* makes it, and it is on no list any more.
LEMMA AttemptUsed ==
  ASSUME RInv, NEW w \in Workers, worker[w].at = "publish",
         UNCHANGED <<run, pc, remaining, pending>>,
         NEW m \in Messages, m = worker[w].msg,
         CopiesOf(m)' \in {CopiesOf(m), CopiesOf(m) + 1},
         \A v \in Workers \ {w} : worker'[v] = worker[v],
         \/ worker'[w].at \in {"ack", "free"}
         \/ /\ worker'[w].at = "publish" /\ worker'[w].place = worker[w].place
            /\ worker'[w].tries = worker[w].tries + 1
  PROVE  CopiesOf(m)' + Cardinality(Unused(m)') <= 1 + run' * PerRun(m)
<1> DEFINE t == <<worker[w].place, worker[w].tries + 1>>
<1> USE DEF RInv, HInv
<1>1. /\ worker[w].place \in Places /\ Plan[worker[w].place] = m
      /\ worker[w].tries \in 0..Retry /\ Retry \in Nat
  BY WorkerRecord, ExecutorAssumption DEF ExecutorAssumption
<1>2. t \in Budget(m)
  BY <1>1 DEF Budget, Attempts
<1>3. t \in Unused(m)
  BY <1>1, <1>2 DEF Unused
<1>4. ~Unbegun(worker[w].place)
  BY DEF Unbegun, Quiet, Held, Busy
<1>5. \A v \in Workers \ {w} :
         ~(worker[v].at \in {"inspect", "publish"} /\ worker[v].place = worker[w].place)
  BY DEF Held, Busy
<1>6. Unused(m)' \subseteq Unused(m) \ {t}
  <2> SUFFICES ASSUME NEW u \in Unused(m)' PROVE u \in Unused(m) \ {t}
    OBVIOUS
  <2>1. u \in Budget(m) /\ u[1] \in Places /\ u[2] \in Nat
    BY <1>1 DEF Unused, Budget, Attempts
  <2>2. CASE Unbegun(u[1])'
    <3>1. Unbegun(u[1]) /\ u[1] # worker[w].place
      BY <1>4, <2>2 DEF Unbegun
    <3> QED
      BY <2>1, <3>1 DEF Unused
  <2>3. ASSUME NEW v \in Workers, worker'[v].at \in {"inspect", "publish"},
               worker'[v].place = u[1], worker'[v].tries < u[2]
        PROVE  u \in Unused(m) \ {t}
    <3>1. CASE v = w
      BY <1>1, <2>1, <2>3, <3>1 DEF Unused
    <3>2. CASE v # w
      BY <1>5, <2>1, <2>3, <3>2 DEF Unused
    <3> QED
      BY <3>1, <3>2
  <2> QED
    BY <2>2, <2>3 DEF Unused
<1>7. /\ Cardinality(Unused(m)') <= Cardinality(Unused(m) \ {t})
      /\ Cardinality(Unused(m) \ {t}) = Cardinality(Unused(m)) - 1
  <2>1. IsFiniteSet(Unused(m)) /\ IsFiniteSet(Unused(m) \ {t})
    BY UnusedCounts, FS_Subset
  <2>2. Cardinality(Unused(m) \ {t}) = Cardinality(Unused(m)) - 1
    BY <1>3, <2>1, FS_RemoveElement
  <2> QED
    BY <1>6, <2>1, <2>2, FS_Subset
<1>8. /\ CopiesOf(m) + Cardinality(Unused(m)) <= 1 + run * PerRun(m)
      /\ run * PerRun(m) \in Nat /\ CopiesOf(m) \in Nat
      /\ Cardinality(Unused(m)) \in Nat /\ Cardinality(Unused(m)') \in Nat
  BY RationNat, UnusedCounts DEF Rationed
<1> HIDE DEF t
<1> QED
  BY <1>7, <1>8

\* The step of a worker, message by message.
LEMMA WorkerRationed ==
  ASSUME RInv, TypeOK', NEW w \in Workers, WorkerStep(w), NEW m \in Messages
  PROVE  CopiesOf(m)' + Cardinality(Unused(m)') <= 1 + run' * PerRun(m)
<1> USE DEF RInv, HInv
<1>1. /\ UNCHANGED <<run, pc, remaining>>
      /\ \A v \in Workers \ {w} : worker'[v] = worker[v]
  BY WorkerMoves
<1>2. CopiesOf(m) \in Nat /\ CopiesOf(m)' \in Nat
  BY CopiesOfNat DEF TypeOK, BrokerTypeOK, CopiesOf
<1>3. ASSUME /\ pending' \subseteq pending
             /\ worker'[w].at \in {"inspect", "publish"} =>
                   \/ Plan[worker'[w].place] # m
                   \/ /\ worker[w].at \in {"inspect", "publish"}
                      /\ worker'[w].place = worker[w].place
                      /\ worker'[w].tries = worker[w].tries
                   \/ worker'[w].place \in pending
      PROVE  Unused(m)' \subseteq Unused(m)
  <2> SUFFICES ASSUME NEW u \in Unused(m)' PROVE u \in Unused(m)
    OBVIOUS
  <2>1. u \in Budget(m) /\ Plan[u[1]] = m
    BY DEF Unused, Budget
  <2>2. CASE Unbegun(u[1])'
    <3>1. Unbegun(u[1])
      BY <1>1, <1>3, <2>2 DEF Unbegun
    <3> QED
      BY <2>1, <3>1 DEF Unused
  <2>3. ASSUME NEW v \in Workers, worker'[v].at \in {"inspect", "publish"},
               worker'[v].place = u[1], worker'[v].tries < u[2]
        PROVE  u \in Unused(m)
    <3>1. CASE v # w
      BY <1>1, <2>1, <2>3, <3>1 DEF Unused
    <3>2. CASE v = w /\ worker'[w].place \in pending
      <4>1. Unbegun(u[1])
        BY <2>3, <3>2 DEF Unbegun
      <4> QED
        BY <2>1, <4>1 DEF Unused
    <3>3. CASE v = w /\ worker'[w].place \notin pending
      BY <1>3, <2>1, <2>3, <3>3 DEF Unused
    <3> QED
      BY <3>1, <3>2, <3>3
  <2> QED
    BY <2>2, <2>3 DEF Unused
<1>4. CASE \/ \E p \in pending : Take(w, p) \/ TakeWithoutToken(w, p)
           \/ InspectMessage(w) \/ Snapshot(w) \/ AuditSuccess(w)
           \/ Ack(w) \/ AckFailed(w)
  <2>1. CopiesOf(m)' <= CopiesOf(m)
    <3>1. CASE \/ \E p \in pending : Take(w, p) \/ TakeWithoutToken(w, p)
               \/ InspectMessage(w) \/ Snapshot(w) \/ AuditSuccess(w)
      <4>1. UNCHANGED brokerVars
        BY <3>1 DEF Take, TakeWithoutToken, InspectMessage, Snapshot, AuditSuccess
      <4> QED
        BY <1>2, <4>1, SameCopies
    <3>2. CASE Ack(w) \/ AckFailed(w)
      <4>1. worker[w].msg \in Messages
        BY <3>2, WorkerRecord DEF Ack, AckFailed
      <4>2. AckRemoves(worker[w].msg) \/ UNCHANGED brokerVars
        BY <3>2 DEF Ack, AckReturns, AckFailed, AckFails
      <4> QED
        BY <1>2, <4>1, <4>2, RemovedOne, SameCopies
    <3> QED
      BY <1>4, <3>1, <3>2
  <2>2. pending' \subseteq pending
    BY <1>4 DEF Take, TakeWithoutToken, InspectMessage, Snapshot, AuditSuccess,
                Ack, AckFailed
  <2>3. worker'[w].at \in {"inspect", "publish"} =>
           \/ /\ worker[w].at \in {"inspect", "publish"}
              /\ worker'[w].place = worker[w].place
              /\ worker'[w].tries = worker[w].tries
           \/ worker'[w].place \in pending
    BY <1>4 DEF TypeOK, Jobs, Take, TakeWithoutToken, InspectMessage, Snapshot,
                AuditSuccess, Ack, AckFailed, Goto, Return, Free
  <2>4. Unused(m)' \subseteq Unused(m)
    BY <1>3, <2>2, <2>3
  <2> QED
    BY <1>1, <1>2, <2>1, <2>4, RationKept
<1>5. CASE Publish(w) \/ PublishAgain(w) \/ PublishGivesUp(w)
  <2>0. PICK n \in Messages : n = worker[w].msg
    BY <1>5, WorkerRecord DEF Publish, PublishAgain, PublishGivesUp
  <2>1. /\ worker[w].at = "publish" /\ pending' = pending
        /\ PublishConfirmed(n) \/ UNCHANGED brokerVars
    BY <1>5, <2>0 DEF Publish, PublishAgain, PublishGivesUp, PublishFails
  <2>2. \/ worker'[w].at \in {"ack", "free"}
        \/ /\ worker'[w].at = "publish" /\ worker'[w].tries = worker[w].tries + 1
           /\ worker'[w].place = worker[w].place
    BY <1>5, <2>0 DEF TypeOK, Jobs, Publish, PublishAgain, PublishGivesUp, Goto, Return, Free
  <2>3. CASE m = n
    <3>1. CopiesOf(m)' \in {CopiesOf(m), CopiesOf(m) + 1}
      BY <2>1, <2>3, ConfirmedCopies, SameCopies
    <3> QED
      BY <1>1, <2>0, <2>1, <2>2, <2>3, <3>1, AttemptUsed
  <2>4. CASE m # n
    <3>1. CopiesOf(m)' = CopiesOf(m)
      BY <1>2, <2>1, <2>4, ConfirmedCopies, SameCopies
    <3>2. worker'[w].at \in {"inspect", "publish"} => Plan[worker'[w].place] # m
      BY <2>0, <2>1, <2>2, <2>4, WorkerRecord
    <3>3. Unused(m)' \subseteq Unused(m)
      BY <1>3, <2>1, <3>2
    <3> QED
      BY <1>1, <1>2, <3>1, <3>3, RationKept
  <2> QED
    BY <2>3, <2>4
<1> QED
  BY <1>4, <1>5 DEF WorkerStep

LEMMA StepRationed == RInv /\ TypeOK' /\ [Next]_vars => Rationed'
<1> SUFFICES ASSUME RInv, TypeOK', [Next]_vars, NEW m \in Messages
             PROVE  CopiesOf(m)' + Cardinality(Unused(m)') <= 1 + run' * PerRun(m)
  BY DEF Rationed, PerRun
<1> USE DEF RInv, HInv
<1>1. CopiesOf(m) \in Nat /\ CopiesOf(m)' \in Nat
  BY CopiesOfNat DEF TypeOK, BrokerTypeOK, CopiesOf
<1>2. CASE \E w \in Workers : WorkerStep(w)
  BY <1>2, WorkerRationed
<1>3. CASE \E res \in BOOLEAN : Start(res)
  <2>1. run' = run + 1 /\ CopiesOf(m)' = CopiesOf(m)
    BY <1>3, MainKeepsCopies DEF Start
  <2>2. CopiesOf(m) + Cardinality(Unused(m)) <= 1 + run * PerRun(m)
    BY DEF Rationed
  <2>3. /\ Cardinality(Unused(m)) \in Nat /\ Cardinality(Unused(m)') \in Nat
        /\ Cardinality(Unused(m)') <= PerRun(m)
    BY UnusedCounts
  <2>4. /\ run * PerRun(m) \in Nat /\ PerRun(m) \in Nat
        /\ (run + 1) * PerRun(m) = run * PerRun(m) + PerRun(m)
    BY RationNat, BudgetCounts
  <2>5. CopiesOf(m) <= 1 + run * PerRun(m)
    BY <1>1, <2>2, <2>3, <2>4
  <2>6. CopiesOf(m)' + Cardinality(Unused(m)') <= 1 + (run * PerRun(m) + PerRun(m))
    BY <1>1, <2>1, <2>3, <2>4, <2>5
  <2> QED
    BY <2>1, <2>4, <2>6
<1>4. ASSUME run' = run, CopiesOf(m)' = CopiesOf(m),
             \A p : Unbegun(p)' => Unbegun(p),
             \/ worker' = worker
             \/ \A w \in Workers : worker'[w].at = "free"
      PROVE  CopiesOf(m)' + Cardinality(Unused(m)') <= 1 + run' * PerRun(m)
  <2>1. Unused(m)' \subseteq Unused(m)
    BY <1>4 DEF Unused, Budget
  <2> QED
    BY <1>1, <1>4, <2>1, RationKept
<1>5. CASE MainStep
  <2>1. CopiesOf(m)' = CopiesOf(m) /\ worker' = worker /\ run' = run
    BY <1>5, MainKeepsCopies
    DEF MainStep, Validate, ValidateFails, NextBatch, Complete, NextOrDone, Trip
  <2>2. /\ pc' # "validate"
        /\ pc = "validate" \/ remaining' \cup pending' \subseteq remaining \cup pending
    BY <1>5 DEF MainStep, Validate, ValidateFails, NextBatch, Complete, NextOrDone, Trip
  <2> QED
    BY <1>4, <2>1, <2>2 DEF Unbegun
<1>6. CASE Expire \/ Elsewhere \/ UNCHANGED vars
  <2>1. /\ CopiesOf(m)' = CopiesOf(m)
        /\ UNCHANGED <<worker, run, pc, remaining, pending>>
    BY <1>6, MainKeepsCopies, BrokerMovesCopies DEF Expire, Elsewhere, vars, runVars
  <2> QED
    BY <1>4, <2>1 DEF Unbegun
<1>7. CASE Crash
  <2>1. /\ CopiesOf(m)' = CopiesOf(m) /\ run' = run /\ pc' = "idle"
        /\ remaining' = {} /\ pending' = {}
        /\ \A w \in Workers : worker'[w].at = "free"
    BY <1>7, MainKeepsCopies DEF Crash, Free
  <2> QED
    BY <1>4, <2>1 DEF Unbegun
<1> QED
  BY <1>2, <1>3, <1>5, <1>6, <1>7 DEF Next

\* A plan floods nothing: for each of its places a run makes at most Retry + 1
\* copies of the message (the loop of process in executor.go, once for every
\* index of the work channel), however its publishes, confirms and acks fail,
\* however often consumers reject the copies, and whether or not two workers
\* are at two places of one message at once.
THEOREM RunsFloodNothing == Spec => []NoFlood
<1>1. Init => Untried /\ Rationed
  <2> SUFFICES ASSUME Init PROVE Untried /\ Rationed
    OBVIOUS
  <2>1. /\ \A m \in Messages : CopiesOf(m) = 1
        /\ pc = "idle" /\ remaining = {} /\ pending = {} /\ run = 0
        /\ \A w \in Workers : worker[w].at = "free"
    BY DEF Init, BrokerInit, CopiesOf, Free
  <2>2. ASSUME NEW m \in Messages
        PROVE  CopiesOf(m) + Cardinality(Unused(m)) <= 1 + run * PerRun(m)
    <3>1. Unused(m) = {}
      BY <2>1 DEF Unused, Unbegun
    <3>2. Cardinality(Unused(m)) = 0
      BY <3>1, FS_EmptySet
    <3>3. PerRun(m) \in Nat
      BY BudgetCounts
    <3> QED
      BY <2>1, <3>2, <3>3
  <2> QED
    BY <2>1, <2>2 DEF Untried, Rationed
<1>2. HInv /\ Untried /\ Rationed /\ [Next]_vars => Untried' /\ Rationed'
  BY StepTypeOK, StepUntried, StepRationed DEF RInv, HInv
<1>3. HInv /\ Rationed => NoFlood
  <2> SUFFICES ASSUME HInv, Rationed, NEW m \in Messages
               PROVE  dlq[m] + delivered[m] <= 1 + run * PerRun(m)
    BY DEF NoFlood
  <2>1. CopiesOf(m) + Cardinality(Unused(m)) <= 1 + run * PerRun(m)
    BY DEF Rationed
  <2>2. CopiesOf(m) \in Nat /\ Cardinality(Unused(m)) \in Nat /\ run * PerRun(m) \in Nat
    BY RationNat, UnusedCounts DEF HInv
  <2> QED
    BY <2>1, <2>2 DEF CopiesOf
<1> QED
  BY <1>1, <1>2, <1>3, HInvInvariant, PTL DEF Spec

-----------------------------------------------------------------------------
(* The summary of a run.                                                   *)

\* The places of the batch in hand: in the work channel, with a worker, or
\* with an outcome.
Batch == {p \in Places : \/ p \in pending \/ outcome[p] # "none"
                           \/ \E w \in Workers : Busy(w) /\ worker[w].place = p}

\* The places whose ack the run got.
Acked == {p \in Places : <<run, p>> \in removed}

\* A place has an outcome when it is done with, and its ack when the worker
\* is past it.
Sorted ==
    /\ \A p \in remaining \cup pending : outcome[p] = "none" /\ p \notin Acked
    /\ \A w \in Workers : Busy(w) =>
          /\ outcome[worker[w].place] = "none"
          /\ worker[w].place \in Acked <=> worker[w].at \in {"snapshot", "audit"}
    /\ \A p \in Places : outcome[p] # "none" =>
          (p \in Acked <=> outcome[p] = "replayed")

\* A run begins with a blank summary, and nothing is removed in its name.
Blanked == /\ \A r \in Nat, p \in Places : <<r, p>> \in removed => r <= run
           /\ pc = "validate" => Acked = {} /\ report = Blank

Tally == /\ report.selected = report.skipped + report.replayed + report.failed
                                + Cardinality(remaining) + Cardinality(Batch)
         /\ pc \in {"batch", "running"} \/ report.selected > 0 =>
               report.replayed = Cardinality(Acked \ Batch)
         /\ report.new <= report.failed

LEMMA DisjointCounts ==
  ASSUME NEW S \in SUBSET Places, NEW T \in SUBSET Places, S \cap T = {}
  PROVE  /\ Cardinality(S \cup T) = Cardinality(S) + Cardinality(T)
         /\ Cardinality(S) \in Nat /\ Cardinality(T) \in Nat
<1>1. IsFiniteSet(S) /\ IsFiniteSet(T)
  BY FS_Subset, PlacesFinite
<1>2. Cardinality(S \cap T) = 0
  BY FS_EmptySet
<1>3. Cardinality(S) \in Nat /\ Cardinality(T) \in Nat
  BY <1>1, FS_CardinalityType
<1>4. Cardinality(S \cup T) = Cardinality(S) + Cardinality(T) - Cardinality(S \cap T)
  BY <1>1, FS_Union
<1> QED
  BY <1>2, <1>3, <1>4

\* What a step of a worker does to the places of the batch.
LEMMA WorkerShape ==
  ASSUME TypeOK, NEW w \in Workers, WorkerStep(w)
  PROVE  \/ \E p \in pending :
              /\ pending' = pending \ {p} /\ removed' = removed
              /\ \/ /\ ~Busy(w) /\ worker'[w].at = "inspect" /\ worker'[w].place = p
                    /\ outcome' = outcome
                 \/ /\ worker' = worker
                    /\ outcome' = [outcome EXCEPT ![p] = "publish_failed"]
         \/ /\ Busy(w) /\ Busy(w)' /\ UNCHANGED <<pending, outcome>>
            /\ worker'[w].place = worker[w].place
            /\ \/ /\ removed' = removed
                  /\ worker'[w].at \in {"snapshot", "audit"}
                       <=> worker[w].at \in {"snapshot", "audit"}
               \/ /\ removed' = removed \cup {<<run, worker[w].place>>}
                  /\ worker'[w].at = "snapshot"
         \/ /\ Busy(w) /\ ~Busy(w)' /\ UNCHANGED <<pending, removed>>
            /\ \/ /\ worker[w].at = "audit"
                  /\ outcome' = [outcome EXCEPT ![worker[w].place] = "replayed"]
               \/ /\ worker[w].at \in {"inspect", "publish", "ack"}
                  /\ \E res \in {"publish_failed", "ack_failed"} :
                        outcome' = [outcome EXCEPT ![worker[w].place] = res]
<1>1. CASE \E p \in pending : Take(w, p) \/ TakeWithoutToken(w, p)
  BY <1>1 DEF TypeOK, Take, TakeWithoutToken, Busy
<1>2. CASE PublishAgain(w) \/ Publish(w) \/ Snapshot(w)
  BY <1>2 DEF TypeOK, Jobs, PublishAgain, Publish, Snapshot, Goto, Busy
<1>3. CASE Ack(w)
  BY <1>3 DEF TypeOK, Jobs, Ack, Goto, Busy
<1>4. CASE AuditSuccess(w)
  BY <1>4 DEF TypeOK, AuditSuccess, Return, Free, Busy
<1>5. CASE InspectMessage(w) \/ PublishGivesUp(w) \/ AckFailed(w)
  <2>1. CASE Goto(w, "publish") /\ UNCHANGED outcome /\ InspectMessage(w)
    BY <2>1 DEF TypeOK, Jobs, InspectMessage, Goto, Busy
  <2>2. CASE \/ InspectMessage(w) /\ Return(w, "publish_failed")
             \/ PublishGivesUp(w) \/ AckFailed(w)
    <3>1. /\ worker[w].at \in {"inspect", "publish", "ack"}
          /\ UNCHANGED <<pending, removed>>
          /\ Return(w, "publish_failed") \/ Return(w, "ack_failed")
      BY <2>2 DEF InspectMessage, PublishGivesUp, AckFailed
    <3> QED
      BY <3>1 DEF TypeOK, Return, Free, Busy
  <2> QED
    BY <1>5, <2>1, <2>2 DEF InspectMessage
<1> QED
  BY <1>1, <1>2, <1>3, <1>4, <1>5 DEF WorkerStep

\* A worker keeps the batch together: a place that leaves the channel is
\* with a worker, and one that leaves a worker has its outcome.
LEMMA WorkerKeepsBatch ==
  ASSUME HInv, Sorted, NEW w \in Workers, WorkerStep(w)
  PROVE  /\ Batch' = Batch /\ Acked' \ Batch' = Acked \ Batch /\ Sorted'
         /\ \A r \in Nat, p \in Places : <<r, p>> \in removed' => <<r, p>> \in removed \/ r = run
<1> USE DEF HInv
<1>1. /\ run' = run /\ remaining' = remaining
      /\ \A v \in Workers \ {w} : worker'[v] = worker[v]
  BY WorkerMoves
<1>2. /\ pending \cup remaining \subseteq Places /\ remaining \cap pending = {}
      /\ \A v \in Workers : Busy(v) => worker[v].place \in Places
      /\ \A v \in Workers : Busy(v) => worker[v].place \notin pending \cup remaining
      /\ \A v \in Workers \ {w} : Busy(v) /\ Busy(w) => worker[v].place # worker[w].place
      /\ outcome \in [Places -> Outcomes]
  BY ExecutorAssumption DEF TypeOK, ExecutorAssumption, Held, Busy
<1>3. ASSUME NEW p \in pending,
             pending' = pending \ {p}, removed' = removed,
             \/ /\ ~Busy(w) /\ worker'[w].at = "inspect" /\ worker'[w].place = p
                /\ outcome' = outcome
             \/ /\ worker' = worker
                /\ outcome' = [outcome EXCEPT ![p] = "publish_failed"]
      PROVE  /\ Batch' = Batch /\ Acked' \ Batch' = Acked \ Batch /\ Sorted'
             /\ removed' = removed
  <2>1. Acked' = Acked
    BY <1>1, <1>3 DEF Acked
  <2>2. Batch' = Batch
    BY <1>1, <1>2, <1>3 DEF Batch, Busy
  <2>3. Sorted'
    BY <1>1, <1>2, <1>3, <2>1 DEF Sorted, Busy
  <2> QED
    BY <1>3, <2>1, <2>2, <2>3
<1>4. ASSUME Busy(w), Busy(w)', UNCHANGED <<pending, outcome>>,
             worker'[w].place = worker[w].place,
             \/ /\ removed' = removed
                /\ worker'[w].at \in {"snapshot", "audit"}
                     <=> worker[w].at \in {"snapshot", "audit"}
             \/ /\ removed' = removed \cup {<<run, worker[w].place>>}
                /\ worker'[w].at = "snapshot"
      PROVE  /\ Batch' = Batch /\ Acked' \ Batch' = Acked \ Batch /\ Sorted'
             /\ \A r \in Nat, p \in Places : <<r, p>> \in removed' => <<r, p>> \in removed \/ r = run
  <2>1. Batch' = Batch /\ worker[w].place \in Batch
    BY <1>1, <1>2, <1>4 DEF Batch, Busy
  <2>2. \A p \in Places : p # worker[w].place => (p \in Acked' <=> p \in Acked)
    BY <1>1, <1>4 DEF Acked
  <2>3. worker[w].place \in Acked' <=> worker'[w].at \in {"snapshot", "audit"}
    BY <1>1, <1>2, <1>4 DEF Acked, Sorted
  <2>4. Acked' \ Batch' = Acked \ Batch
    BY <2>1, <2>2 DEF Acked
  <2>5. Sorted'
    BY <1>1, <1>2, <1>4, <2>2, <2>3 DEF Sorted, Busy
  <2> QED
    BY <1>4, <2>1, <2>4, <2>5
<1>5. ASSUME Busy(w), ~Busy(w)', UNCHANGED <<pending, removed>>,
             \/ /\ worker[w].at = "audit"
                /\ outcome' = [outcome EXCEPT ![worker[w].place] = "replayed"]
             \/ /\ worker[w].at \in {"inspect", "publish", "ack"}
                /\ \E res \in {"publish_failed", "ack_failed"} :
                      outcome' = [outcome EXCEPT ![worker[w].place] = res]
      PROVE  /\ Batch' = Batch /\ Acked' \ Batch' = Acked \ Batch /\ Sorted'
             /\ removed' = removed
  <2>1. Acked' = Acked
    BY <1>1, <1>5 DEF Acked
  <2>2. /\ outcome'[worker[w].place] # "none"
        /\ \A p \in Places : p # worker[w].place => outcome'[p] = outcome[p]
        /\ outcome'[worker[w].place] = "replayed" <=> worker[w].at = "audit"
    BY <1>2, <1>5
  <2>3. Batch' = Batch
    BY <1>1, <1>2, <1>5, <2>2 DEF Batch, Busy
  <2>4. Sorted'
    BY <1>1, <1>2, <1>5, <2>1, <2>2 DEF Sorted, Busy
  <2> QED
    BY <1>5, <2>1, <2>3, <2>4
<1> QED
  BY <1>3, <1>4, <1>5, WorkerShape

SumInv == HInv /\ NothingLeftOver /\ Sorted /\ Blanked /\ Tally

\* Without a batch nothing is in one.
LEMMA NoBatch == Quiet /\ NothingLeftOver /\ pc # "running" => Batch = {}
BY DEF Quiet, NothingLeftOver, Batch, Busy

\* Steps that leave the run where it is.
LEMMA SumSame ==
  ASSUME SumInv, UNCHANGED <<run, remaining, pending, worker, outcome, removed, report>>,
         pc' \in {"batch", "running"} => pc \in {"batch", "running"},
         pc' = "validate" => pc = "validate"
  PROVE  Sorted' /\ Blanked' /\ Tally'
<1>1. Batch' = Batch /\ Acked' = Acked
  BY DEF Batch, Acked, Busy
<1>2. Sorted'
  BY <1>1 DEF SumInv, Sorted, Busy
<1>3. Blanked'
  BY <1>1 DEF SumInv, Blanked
<1>4. Tally'
  BY <1>1 DEF SumInv, Tally
<1> QED
  BY <1>2, <1>3, <1>4

LEMMA StartSum ==
  ASSUME SumInv, NEW res \in BOOLEAN, Start(res)
  PROVE  Sorted' /\ Blanked' /\ Tally'
<1> USE DEF SumInv, HInv
<1>1. /\ run' = run + 1 /\ run \in Nat /\ remaining' = {} /\ pending' = {}
      /\ report' = Blank /\ removed' = removed
      /\ \A w \in Workers : ~Busy(w)'
      /\ \A p \in Places : outcome'[p] = "none"
  BY ExecutorAssumption
  DEF Start, Quiet, NothingLeftOver, TypeOK, Busy, ExecutorAssumption
<1>2. Batch' = {}
  BY <1>1 DEF Batch
<1>3. Acked' = {}
  <2>1. \A p \in Places : <<run + 1, p>> \in removed => run + 1 <= run
    BY <1>1 DEF Blanked
  <2>2. ~(run + 1 <= run)
    BY <1>1
  <2> QED
    BY <1>1, <2>1, <2>2 DEF Acked
<1>4. Sorted'
  BY <1>1 DEF Sorted
<1>5. Blanked'
  <2>1. ASSUME NEW r \in Nat, NEW p \in Places, <<r, p>> \in removed'
        PROVE  r <= run'
    <3>1. r <= run
      BY <1>1, <2>1 DEF Blanked
    <3> QED
      BY <1>1, <3>1
  <2> QED
    BY <1>1, <1>3, <2>1 DEF Blanked
<1>6. Tally'
  <2>1. Cardinality(Batch') = 0 /\ Cardinality(remaining') = 0 /\ Cardinality((Acked \ Batch)') = 0
    BY <1>1, <1>2, <1>3, FS_EmptySet
  <2> QED
    BY <1>1, <2>1 DEF Tally, Blank
<1> QED
  BY <1>4, <1>5, <1>6

LEMMA ValidateSum ==
  ASSUME SumInv, Validate
  PROVE  Sorted' /\ Blanked' /\ Tally'
<1> USE DEF SumInv, HInv
<1>0. PICK missed \in SUBSET Unreadable :
         /\ remaining' = Places \ (Skipped \cup Completed(missed))
         /\ report' = [selected |-> Len(Plan),
                       skipped |-> Cardinality(Skipped) + Cardinality(Completed(missed)),
                       replayed |-> 0, failed |-> 0, new |-> 0]
  BY DEF Validate
<1> DEFINE done == Completed(missed)
<1>1. /\ run' = run /\ removed' = removed /\ pc' = "batch" /\ Acked' = {}
      /\ remaining' = Places \ (Skipped \cup done)
      /\ pending' = {} /\ \A w \in Workers : ~Busy(w)'
      /\ \A p \in Places : outcome'[p] = "none"
  BY <1>0 DEF Validate, Quiet, NothingLeftOver, Busy, Blanked, Acked
<1>2. Batch' = {}
  BY <1>1 DEF Batch
<1>3. Sorted'
  BY <1>1 DEF Sorted
<1>4. Blanked'
  BY <1>1 DEF Blanked
<1>5. Tally'
  <2>1. /\ Skipped \subseteq Places /\ done \subseteq Places /\ Skipped \cap done = {}
    BY DEF Skipped, Completed, NotFound, BadSchema, Duplicate
  <2> HIDE DEF done
  <2>2. /\ Places = Skipped \cup (done \cup remaining')
        /\ remaining' \subseteq Places /\ done \cup remaining' \subseteq Places
        /\ Skipped \cap (done \cup remaining') = {} /\ done \cap remaining' = {}
    BY <1>1, <2>1
  <2>3. /\ Cardinality(Places) = Cardinality(Skipped) + Cardinality(done \cup remaining')
        /\ Cardinality(Skipped) \in Nat
    BY <2>1, <2>2, DisjointCounts
  <2>4. /\ Cardinality(done \cup remaining') = Cardinality(done) + Cardinality(remaining')
        /\ Cardinality(done) \in Nat /\ Cardinality(remaining') \in Nat
    BY <2>1, <2>2, DisjointCounts
  <2>5. Cardinality(Batch') = 0 /\ Cardinality((Acked \ Batch)') = 0
    BY <1>1, <1>2, FS_EmptySet
  <2>6. /\ report'.selected = Cardinality(Places) /\ report'.new = 0
        /\ report'.skipped = Cardinality(Skipped) + Cardinality(done)
        /\ report'.replayed = 0 /\ report'.failed = 0
    BY <1>0, PlacesFinite DEF done
  <2> QED
    BY <2>3, <2>4, <2>5, <2>6 DEF Tally
<1> QED
  BY <1>3, <1>4, <1>5

LEMMA NextBatchSum ==
  ASSUME SumInv, NextBatch
  PROVE  Sorted' /\ Blanked' /\ Tally'
<1> USE DEF SumInv, HInv
<1>1. PICK b \in SUBSET remaining : pending' = b /\ remaining' = remaining \ b
  <2>1. pending' \in SUBSET remaining /\ remaining' = remaining \ pending'
    BY DEF NextBatch
  <2> QED
    BY <2>1
<1>2. /\ UNCHANGED <<run, removed, worker, outcome, report>>
      /\ pc = "batch" /\ pc' = "running" /\ Acked' = Acked /\ remaining \subseteq Places
      /\ \A w \in Workers : ~Busy(w)
      /\ \A p \in Places : outcome[p] = "none"
  BY ExecutorAssumption
  DEF NextBatch, Quiet, NothingLeftOver, TypeOK, Busy, Acked, ExecutorAssumption
<1>3. Batch' = b /\ Batch = {}
  BY <1>1, <1>2, NoBatch DEF Batch, Busy
<1>4. Sorted'
  BY <1>1, <1>2 DEF Sorted, Busy
<1>5. Blanked'
  BY <1>2 DEF Blanked
<1>6. Tally'
  <2>1. /\ Cardinality(b \cup (remaining \ b)) = Cardinality(b) + Cardinality(remaining \ b)
        /\ Cardinality(b) \in Nat /\ Cardinality(remaining \ b) \in Nat
    <3>1. /\ b \in SUBSET Places /\ remaining \ b \in SUBSET Places
          /\ b \cap (remaining \ b) = {}
      BY <1>2
    <3> QED
      BY <3>1, DisjointCounts
  <2>2. b \cup (remaining \ b) = remaining
    OBVIOUS
  <2>3. Cardinality(Batch) = 0
    BY <1>3, FS_EmptySet
  <2>4. Acked' \ Batch' = Acked \ Batch
    BY <1>2, <1>3 DEF Sorted
  <2>5. /\ report.selected \in Nat /\ report.skipped \in Nat /\ report.replayed \in Nat
        /\ report.failed \in Nat
    BY DEF TypeOK
  <2>6. report.selected = report.skipped + report.replayed + report.failed
                          + Cardinality(remaining) + 0
    BY <2>3 DEF Tally
  <2>7. Cardinality(remaining) = Cardinality(remaining') + Cardinality(Batch')
    <3>1. Cardinality(remaining) = Cardinality(b) + Cardinality(remaining \ b)
      BY <2>1, <2>2
    <3>2. Cardinality(remaining') = Cardinality(remaining \ b) /\ Cardinality(Batch') = Cardinality(b)
      BY <1>1, <1>3
    <3> QED
      BY <2>1, <3>1, <3>2
  <2>8. Cardinality(remaining') \in Nat /\ Cardinality(Batch') \in Nat
    BY <1>1, <1>3, <2>1
  <2>9. report'.selected = report'.skipped + report'.replayed + report'.failed
                           + Cardinality(remaining') + Cardinality(Batch')
    BY <1>2, <2>5, <2>6, <2>7, <2>8
  <2> QED
    BY <1>2, <2>4, <2>9 DEF Tally
<1> QED
  BY <1>4, <1>5, <1>6

\* The breaker counts the outcomes of the batch, each one once.
LEMMA CountSum ==
  ASSUME SumInv, BatchDone, Count,
         UNCHANGED <<run, remaining, pending, worker, removed>>, pc' \in {"batch", "idle"}
  PROVE  Sorted' /\ Blanked' /\ Tally'
<1> DEFINE F == With({"publish_failed", "ack_failed"})
           R == With({"replayed"})
           A == With({"ack_failed"})
<1> USE DEF SumInv, HInv
<1>1. /\ pc = "running" /\ pending = {} /\ \A w \in Workers : ~Busy(w)
      /\ \A p \in Places : outcome'[p] = "none"
      /\ outcome \in [Places -> Outcomes] /\ remaining \subseteq Places
  BY ExecutorAssumption DEF BatchDone, Count, Busy, TypeOK, ExecutorAssumption
<1>2. Batch = F \cup R /\ F \cap R = {} /\ A \subseteq F /\ F \subseteq Places /\ R \subseteq Places
  BY <1>1 DEF Batch, With, Outcomes
<1>3. Batch' = {}
  BY <1>1 DEF Batch, Busy
<1>4. /\ Acked' = Acked /\ Acked = (Acked \ Batch) \cup R /\ (Acked \ Batch) \cap R = {}
      /\ Acked \subseteq Places
  <2>1. R \subseteq Acked /\ Acked \cap F = {}
    BY DEF Sorted, With
  <2> QED
    BY <1>2, <2>1 DEF Acked
<1>5. Sorted'
  BY <1>1, <1>4 DEF Sorted, Busy
<1>6. Blanked'
  BY DEF Blanked
<1>7. Tally'
  <2>1. /\ Cardinality(Batch) = Cardinality(F) + Cardinality(R)
        /\ Cardinality(F) \in Nat /\ Cardinality(R) \in Nat
    BY <1>2, DisjointCounts
  <2>2. /\ Cardinality(Acked) = Cardinality(Acked \ Batch) + Cardinality(R)
        /\ Cardinality(Acked \ Batch) \in Nat
    <3>1. Acked \ Batch \in SUBSET Places /\ R \in SUBSET Places
      BY <1>2, <1>4
    <3> HIDE DEF R
    <3>2. /\ Cardinality((Acked \ Batch) \cup R) = Cardinality(Acked \ Batch) + Cardinality(R)
          /\ Cardinality(Acked \ Batch) \in Nat
      BY <1>4, <3>1, DisjointCounts
    <3> QED
      BY <1>4, <3>2
  <2>3. Cardinality(A) <= Cardinality(F) /\ Cardinality(A) \in Nat
    <3>1. IsFiniteSet(F)
      BY <1>2, FS_Subset, PlacesFinite
    <3> QED
      BY <1>2, <3>1, FS_Subset, FS_CardinalityType
  <2>4. Cardinality(Batch') = 0
    BY <1>3, FS_EmptySet
  <2>5. /\ report'.selected = report.selected /\ report'.skipped = report.skipped
        /\ report'.replayed = report.replayed + Cardinality(R)
        /\ report'.failed = report.failed + Cardinality(F)
        /\ report'.new = report.new + Cardinality(A)
    BY DEF Count, BatchFailures
  <2>6. Acked' \ Batch' = Acked
    BY <1>3, <1>4
  <2>7. /\ report.selected \in Nat /\ report.skipped \in Nat /\ report.replayed \in Nat
        /\ report.failed \in Nat /\ report.new \in Nat /\ Cardinality(remaining) \in Nat
    BY CountsAreNat, ExecutorAssumption DEF TypeOK, ExecutorAssumption
  <2>8. /\ report.selected = report.skipped + report.replayed + report.failed
                             + Cardinality(remaining) + Cardinality(Batch)
        /\ report.replayed = Cardinality(Acked \ Batch)
        /\ report.new <= report.failed
    BY <1>1 DEF Tally
  <2> HIDE DEF F, R, A
  <2>9. report'.selected = report'.skipped + report'.replayed + report'.failed
                           + Cardinality(remaining') + Cardinality(Batch')
    BY <2>1, <2>4, <2>5, <2>7, <2>8
  <2>10. report'.replayed = Cardinality(Acked' \ Batch')
    BY <2>1, <2>2, <2>5, <2>6, <2>7, <2>8
  <2>11. report'.new <= report'.failed
    BY <2>1, <2>3, <2>5, <2>7, <2>8
  <2> QED
    BY <2>9, <2>10, <2>11 DEF Tally
<1> QED
  BY <1>5, <1>6, <1>7

LEMMA WorkerSum ==
  ASSUME SumInv, NEW w \in Workers, WorkerStep(w)
  PROVE  Sorted' /\ Blanked' /\ Tally'
<1>1. /\ Batch' = Batch /\ Acked' \ Batch' = Acked \ Batch /\ Sorted'
      /\ \A r \in Nat, p \in Places : <<r, p>> \in removed' => <<r, p>> \in removed \/ r = run
  BY WorkerKeepsBatch DEF SumInv
<1>2. UNCHANGED <<run, pc, remaining, report>> /\ pc = "running" /\ run \in Nat
  <2>1. UNCHANGED <<run, pc, remaining, report>>
    BY WorkerMoves DEF SumInv, HInv
  <2>2. pc = "running"
    BY DEF SumInv, HInv, Quiet, WorkerStep, Take, TakeWithoutToken, InspectMessage,
           Publish, PublishAgain, PublishGivesUp, Ack, AckFailed, Snapshot, AuditSuccess
  <2> QED
    BY <2>1, <2>2, ExecutorAssumption DEF SumInv, HInv, TypeOK, ExecutorAssumption
<1>3. Blanked'
  <2>1. ASSUME NEW r \in Nat, NEW p \in Places, <<r, p>> \in removed'
        PROVE  r <= run
    <3>1. CASE <<r, p>> \in removed
      BY <3>1 DEF SumInv, Blanked
    <3>2. CASE r = run
      BY <1>2, <3>2
    <3> QED
      BY <1>1, <2>1, <3>1, <3>2
  <2> QED
    BY <1>2, <2>1 DEF Blanked
<1>4. Tally'
  BY <1>1, <1>2 DEF SumInv, Tally
<1> QED
  BY <1>1, <1>3, <1>4

LEMMA StepSum == SumInv /\ [Next]_vars => Sorted' /\ Blanked' /\ Tally'
<1> SUFFICES ASSUME SumInv, [Next]_vars PROVE Sorted' /\ Blanked' /\ Tally'
  OBVIOUS
<1>1. CASE ValidateFails \/ Complete \/ Expire \/ Elsewhere \/ UNCHANGED vars
  BY <1>1, SumSame DEF ValidateFails, Complete, Expire, Elsewhere, vars, runVars
<1>2. CASE NextOrDone \/ Trip
  BY <1>2, CountSum DEF NextOrDone, Trip
<1>3. CASE Crash
  <2>1. /\ removed' = removed /\ run' = run /\ pc' = "idle"
        /\ remaining' = {} /\ pending' = {} /\ report' = Blank
        /\ \A w \in Workers : ~Busy(w)'
        /\ \A p \in Places : outcome'[p] = "none"
    BY <1>3 DEF Crash, Free, Busy
  <2>2. Batch' = {}
    BY <2>1 DEF Batch
  <2>3. Sorted' /\ Blanked'
    BY <2>1 DEF SumInv, Sorted, Blanked
  <2>4. Cardinality(Batch') = 0 /\ Cardinality(remaining') = 0
    BY <2>1, <2>2, FS_EmptySet
  <2>5. Tally'
    BY <2>1, <2>4 DEF Tally, Blank
  <2> QED
    BY <2>3, <2>5
<1> QED
  BY <1>1, <1>2, <1>3, StartSum, ValidateSum, NextBatchSum, WorkerSum DEF Next, MainStep

\* The summary of a run adds up between two batches and at its end, a tripped
\* run too: every place of the plan is skipped, replayed, failed or still to
\* come, and it reports as replayed what it got an ack for
\* (ExecutionResult and the counts of runBatch in executor.go).
THEOREM SummariesAddUp == Spec => []SummaryAddsUp
<1>1. Init => NothingLeftOver /\ Sorted /\ Blanked /\ Tally
  <2> SUFFICES ASSUME Init PROVE NothingLeftOver /\ Sorted /\ Blanked /\ Tally
    OBVIOUS
  <2>1. /\ remaining = {} /\ pending = {} /\ report = Blank /\ removed = {} /\ pc = "idle"
        /\ \A w \in Workers : ~Busy(w)
        /\ \A p \in Places : outcome[p] = "none"
    BY DEF Init, Free, Busy
  <2>2. Batch = {}
    BY <2>1 DEF Batch
  <2>3. Cardinality(Batch) = 0 /\ Cardinality(remaining) = 0
    BY <2>1, <2>2, FS_EmptySet
  <2> QED
    BY <2>1, <2>3 DEF NothingLeftOver, Sorted, Blanked, Tally, Blank
<1>2. HInv /\ NothingLeftOver /\ Sorted /\ Blanked /\ Tally /\ [Next]_vars
         => NothingLeftOver' /\ Sorted' /\ Blanked' /\ Tally'
  BY StepSum, StepLeftOver DEF SumInv, HInv
<1>3. SumInv => SummaryAddsUp
  <2> SUFFICES ASSUME SumInv, pc # "running"
               PROVE  /\ report.selected = report.skipped + report.replayed + report.failed
                                           + Cardinality(remaining)
                      /\ report.selected > 0 =>
                            report.replayed = Cardinality({p \in Places : <<run, p>> \in removed})
                      /\ report.new <= report.failed
    BY DEF SummaryAddsUp
  <2>1. Batch = {}
    BY NoBatch DEF SumInv, HInv
  <2>2. Cardinality(Batch) = 0 /\ Acked \ Batch = Acked
    BY <2>1, FS_EmptySet
  <2>3. /\ report.selected \in Nat /\ report.skipped \in Nat /\ report.replayed \in Nat
        /\ report.failed \in Nat /\ Cardinality(remaining) \in Nat
    BY CountsAreNat, ExecutorAssumption DEF SumInv, HInv, TypeOK, ExecutorAssumption
  <2>4. report.selected = report.skipped + report.replayed + report.failed
                          + Cardinality(remaining) + 0
    BY <2>2 DEF SumInv, Tally
  <2>5. report.selected = report.skipped + report.replayed + report.failed
                          + Cardinality(remaining)
    BY <2>3, <2>4
  <2>6. report.selected > 0 => report.replayed = Cardinality(Acked)
    BY <2>2 DEF SumInv, Tally
  <2> QED
    BY <2>5, <2>6 DEF SumInv, Tally, Acked
<1> QED
  BY <1>1, <1>2, <1>3, HInvInvariant, PTL DEF Spec, SumInv
=============================================================================
