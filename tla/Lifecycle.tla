------------------------------ MODULE Lifecycle ------------------------------
(***************************************************************************)
(* One audit store, one dead-letter queue and the commands that move a      *)
(* message around the circle: plan, a confirmed recover, a consumer that   *)
(* rejects the replayed copy again, and rollback, which publishes the      *)
(* snapshots of a plan back to the dead-letter queue.  RecoveryExecutor    *)
(* shows what one plan's runs do with counts of entries; here the entries  *)
(* are told apart, by what each adapter makes of them: the message ID      *)
(* that duplicate evidence, Inspect and Ack go by, and the replay          *)
(* destination a plan is built from.                                       *)
(*                                                                         *)
(* A recovery and a rollback may run at the same time, in two processes;   *)
(* recoveries run one after another, and so do rollbacks.  A recovery      *)
(* replays the messages of its plan one at a time and each once; lists     *)
(* that name an ID twice, batches, workers, the breaker, deadlines and the *)
(* probe of the destination are RecoveryExecutor's subject.  A recovery    *)
(* that ends with an error before it replays anything changes nothing.     *)
(***************************************************************************)
EXTENDS Integers, Sequences, FiniteSets

CONSTANTS Originals,     \* the messages, whatever copies there are of them
          Destinations,  \* queues a message can be replayed to
          None,          \* no destination, no message ID
          Transports,    \* subset of {"rabbitmq", "redisstream"}
          Faults,        \* what may go wrong: see the actions
          MaxKeys,       \* bound: entries ever written to a queue
          MaxPlans,      \* bound: plan files
          MaxRuns,       \* bound: confirmed recoveries
          MaxRollbacks   \* bound: confirmed rollbacks

ASSUME LifecycleAssumption ==
    /\ IsFiniteSet(Originals)
    /\ Transports \subseteq {"rabbitmq", "redisstream"}
    /\ None \notin Destinations /\ "dlq" \notin Destinations
    /\ "own" \notin Destinations \cup {None}
    /\ MaxKeys \in Nat /\ MaxPlans \in Nat
    /\ MaxRuns \in Nat /\ MaxRollbacks \in Nat

VARIABLES
    transport,  \* profile.Broker
    copies,     \* the entries of the dead-letter queue and of the destinations
    next,       \* key of the next entry: entries are ordered by their keys
    dlqExists,  \* the dead-letter queue has not been deleted
    plans,      \* the plan files
    rows,       \* the audit table
    snapshots,  \* the snapshots table, by plan, in the order of its row IDs
    unsaved,    \* history: the replays of a plan whose snapshot was not saved
    rec,        \* the running recovery
    back,       \* the running rollback
    runs,       \* recoveries started
    blind,      \* history: what a recovery did not ask the audit table about
    rollbacks   \* rollbacks started

queueVars == <<copies, next, dlqExists>>
snapVars  == <<snapshots, unsaved>>
runVars   == <<runs, blind>>
recVars   == <<rec, runVars>>
backVars  == <<back, rollbacks>>
vars == <<transport, queueVars, plans, rows, snapVars, recVars, backVars>>

\* A message ID.  mark is "own" for a message-id property or x-message-id
\* header the producer set, and the part of the content hash that can differ
\* between copies otherwise; key is the stream entry of a Redis ID.
IDs == [of : Originals, key : Nat, mark : Destinations \cup {"own", None}]

ASSUME NoneIsNoID == None \notin IDs

\* An entry.  mid is the message-id property (RabbitMQ); death the queue
\* x-death names, or the destination field of a stream entry; xdest the
\* x-destination header; last is history: the destination the copy was at,
\* or was restored from, before it came to the dead-letter queue.
Copies == [key : Nat, of : Originals, mid : IDs \cup {None},
           at : Destinations \cup {"dlq"}, death : Destinations \cup {None},
           xdest : Destinations \cup {None}, last : Destinations \cup {None}]

\* checked: the plan declares the duplicate check.
Plans == [ids : SUBSET IDs, dest : Destinations, checked : BOOLEAN]

\* Of the rows a recovery writes only its successes are kept: nothing reads
\* the others, and RecoveryExecutor has them all.
Rows == [by : Nat, plan : Nat, id : IDs,
         result : {"success", "restored", "failed"}]
        \cup [by : Nat, plan : Nat, id : {None}, result : {"refused", "completed"}]

Snapshots == [id : IDs, of : Originals, dest : Destinations,
              xdest : Destinations \cup {None}]

Stages  == {"idle", "next", "publish", "ack", "snapshot", "audit"}
IdleRec == [at |-> "idle", plan |-> 0, todo |-> {}, id |-> None, msg |-> None]

\* due and put are history: the originals whose replay the trail called
\* successful when the rollback read its snapshots, and those it put back.
IdleBack == [at |-> "idle", plan |-> 0, todo |-> <<>>, ok |-> FALSE,
             failed |-> FALSE, due |-> {}, put |-> {}]

TypeOK ==
    /\ transport \in Transports
    /\ copies \subseteq Copies
    /\ next \in Nat
    /\ dlqExists \in BOOLEAN
    /\ plans \in Seq(Plans) /\ Len(plans) <= MaxPlans
    /\ rows \subseteq Rows
    /\ snapshots \in [1..MaxPlans -> Seq(Snapshots)]
    /\ unsaved \subseteq Nat \X Originals
    /\ rec \in [at : Stages, plan : Nat, todo : SUBSET IDs,
                id : IDs \cup {None}, msg : Copies \cup {None}]
    /\ back \in [at : {"idle", "publish", "audit"}, plan : Nat,
                 todo : Seq(Snapshots), ok : BOOLEAN, failed : BOOLEAN,
                 due : SUBSET Originals, put : SUBSET Originals]
    /\ runs \in Nat /\ rollbacks \in Nat
    /\ blind \subseteq Nat \X IDs

\* Every message was rejected once, by the destination x-death names,
\* and their producer sets message IDs or does not.
Init ==
    /\ transport \in Transports
    /\ \E key \in [Originals -> 1..Cardinality(Originals)],
          death \in Destinations,
          own \in BOOLEAN :
          /\ \A o, p \in Originals : key[o] = key[p] => o = p
          /\ transport = "redisstream" => ~own
          /\ copies = {[key |-> key[o], of |-> o,
                        mid |-> IF own THEN [of |-> o, key |-> 0, mark |-> "own"]
                                ELSE None,
                        at |-> "dlq", death |-> death, xdest |-> None,
                        last |-> death] : o \in Originals}
    /\ next = Cardinality(Originals) + 1
    /\ dlqExists = TRUE
    /\ plans = <<>> /\ rows = {}
    /\ snapshots = [p \in 1..MaxPlans |-> <<>>] /\ unsaved = {}
    /\ rec = IdleRec /\ back = IdleBack
    /\ runs = 0 /\ rollbacks = 0 /\ blind = {}

-----------------------------------------------------------------------------
(* The adapters: what they read of an entry, and what they write.          *)

\* messageIDFromParts: the property, else a hash of the payload and of the
\* headers, of which x-destination is the one that changes.  On a stream the
\* ID is the entry's own.
MessageID(c) ==
    IF transport = "redisstream"
    THEN [of |-> c.of, key |-> c.key, mark |-> None]
    ELSE IF c.mid # None THEN c.mid
    ELSE [of |-> c.of, key |-> 0, mark |-> c.xdest]

\* toMessage: where a future plan replays the entry to.
HeaderFirst(c) ==  \* fault: x-destination beats x-death
    IF transport = "rabbitmq" /\ c.xdest # None THEN c.xdest ELSE c.death
Destination(c) ==
    IF transport = "rabbitmq" /\ c.death = None THEN c.xdest ELSE c.death

InDLQ     == {c \in copies : c.at = "dlq"}
With(id)  == {c \in InDLQ : MessageID(c) = id}
First(id) == {c \in With(id) : \A d \in With(id) : c.key <= d.key}

\* Publish: the entry it writes for a message read from m.  RabbitMQ drops
\* x-death and sets the message-id property; a stream entry keeps the
\* message's destination as a field.
NoMessageId(id, of, m, queue) ==  \* fault: the property is not set
    [key |-> next, of |-> of, mid |-> None,
     at |-> queue,
     death |-> IF transport = "rabbitmq" THEN None ELSE m.dest,
     xdest |-> m.xdest, last |-> m.last]
Written(id, of, m, queue) ==
    [key |-> next, of |-> of, mid |-> IF transport = "rabbitmq" THEN id ELSE None,
     at |-> queue,
     death |-> IF transport = "rabbitmq" THEN None ELSE m.dest,
     xdest |-> m.xdest, last |-> m.last]

\* A queue that is gone: RabbitMQ confirms the publish and drops the message,
\* Redis creates the stream again.
Store(c) ==
    /\ next <= MaxKeys
    /\ next' = next + 1
    /\ IF c.at = "dlq" /\ ~dlqExists /\ transport = "rabbitmq"
       THEN UNCHANGED <<copies, dlqExists>>
       ELSE /\ copies' = copies \cup {c}
            /\ dlqExists' = (dlqExists \/ c.at = "dlq")

Replayed(id) == \E r \in rows : r.id = id /\ r.result = "success"

Row(run, plan, id, result) ==
    [by |-> run, plan |-> plan, id |-> id, result |-> result]

\* A row the store cannot write is dropped, without a word to the caller.
Append1(row) == \/ rows' = rows \cup {row}
                \/ "store" \in Faults /\ UNCHANGED rows

-----------------------------------------------------------------------------
(* plan: an operator picks entries; a plan has one destination, theirs or   *)
(* the one --destination names.  It declares every check, unless somebody   *)
(* edits the file.                                                         *)

MakePlan ==
    /\ Len(plans) < MaxPlans
    /\ \E picked \in SUBSET InDLQ, dest \in Destinations, checked \in BOOLEAN :
          /\ picked # {}
          /\ \/ \A c \in picked : Destination(c) = dest
             \/ "override" \in Faults
          /\ checked \/ "edited" \in Faults
          /\ plans' = Append(plans, [ids |-> {MessageID(c) : c \in picked},
                                     dest |-> dest, checked |-> checked])
    /\ UNCHANGED <<transport, queueVars, rows, snapVars, recVars, backVars>>

-----------------------------------------------------------------------------
(* recover --confirm.                                                      *)

\* The messages the audit table is not asked about, or in vain: all of them
\* unless the plan declares the duplicate check or the recovery resumes
\* another.  A read that fails ends a recovery that makes the check; one
\* that only resumes goes on with the message.
Unread(p, resume) ==
    IF plans[p].checked THEN {{}}
    ELSE IF ~resume THEN {plans[p].ids}
    ELSE IF "query" \in Faults THEN SUBSET plans[p].ids
    ELSE {{}}

\* The plan is validated: entries that are gone, and entries the trail shows
\* as replayed, are skipped.
Attempts(id, unread) == With(id) # {} /\ (id \in unread \/ ~Replayed(id))

Recover(p) ==
    /\ rec.at = "idle" /\ runs < MaxRuns
    /\ p \in 1..Len(plans)
    /\ runs' = runs + 1
    /\ \E resume \in BOOLEAN : \E unread \in Unread(p, resume) :
          /\ rec' = [IdleRec EXCEPT !.at = "next", !.plan = p,
                        !.todo = {id \in plans[p].ids : Attempts(id, unread)}]
          /\ blind' = blind \cup {<<runs + 1, id>> : id \in unread}
    /\ UNCHANGED <<transport, queueVars, plans, rows, snapVars, backVars>>

\* process, message by message: Inspect.
Inspect(id) ==
    /\ rec.at = "next" /\ id \in rec.todo
    /\ \/ \E c \in First(id) :
             rec' = [rec EXCEPT !.at = "publish", !.todo = @ \ {id},
                                !.id = id, !.msg = c]
       \/ With(id) = {} /\ rec' = [rec EXCEPT !.todo = @ \ {id}]
    /\ UNCHANGED <<transport, queueVars, plans, rows, snapVars, runVars, backVars>>

\* What Publish sends when m is replayed.
Replay(c) == Written(MessageID(c), c.of,
                     [dest |-> Destination(c), xdest |-> c.xdest, last |-> None],
                     plans[rec.plan].dest)

\* The message of the run has its outcome.
Done == rec' = [rec EXCEPT !.at = "next", !.id = None, !.msg = None]

\* Fault: a failed publish is taken for a success.
PublishErrorDropped ==
    /\ "publish" \in Faults
    /\ rec.at = "publish"
    /\ UNCHANGED queueVars
    /\ rec' = [rec EXCEPT !.at = "ack"]
    /\ UNCHANGED <<transport, plans, rows, snapVars, runVars, backVars>>

PublishConfirmed ==
    /\ rec.at = "publish"
    /\ Store(Replay(rec.msg))
    /\ rec' = [rec EXCEPT !.at = "ack"]
    /\ UNCHANGED <<transport, plans, rows, snapVars, runVars, backVars>>

\* A publish fails: it was not stored, or stored and not confirmed.  The
\* attempts of the message are used up, or it is tried again.
PublishFails ==
    /\ "publish" \in Faults
    /\ rec.at = "publish"
    /\ UNCHANGED queueVars \/ Store(Replay(rec.msg))
    /\ UNCHANGED rec \/ Done
    /\ UNCHANGED <<transport, plans, rows, snapVars, runVars, backVars>>

\* Ack removes the first entry with the ID.
Ack ==
    /\ rec.at = "ack"
    /\ \E c \in First(rec.id) : copies' = copies \ {c}
    /\ rec' = [rec EXCEPT !.at = "snapshot"]
    /\ UNCHANGED <<transport, next, dlqExists, plans, rows, snapVars, runVars,
                   backVars>>

AckFails ==
    /\ rec.at = "ack"
    /\ "ack" \in Faults \/ With(rec.id) = {}
    /\ Done
    /\ UNCHANGED <<transport, queueVars, plans, rows, snapVars, runVars, backVars>>

\* The entry is removed, and the answer is lost.
AckLost ==
    /\ "ack_lost" \in Faults
    /\ rec.at = "ack"
    /\ \E c \in First(rec.id) : copies' = copies \ {c}
    /\ Done
    /\ UNCHANGED <<transport, next, dlqExists, plans, rows, snapVars, runVars,
                   backVars>>

OwnDestination ==  \* fault: the destination x-death names, not the plan's
    [id |-> rec.id, of |-> rec.msg.of, dest |-> rec.msg.death,
     xdest |-> rec.msg.xdest]
TheSnapshot == [id |-> rec.id, of |-> rec.msg.of,
                dest |-> plans[rec.plan].dest, xdest |-> rec.msg.xdest]

SaveSnapshot ==
    /\ rec.at = "snapshot"
    /\ snapshots' = [snapshots EXCEPT ![rec.plan] = Append(@, TheSnapshot)]
    /\ rec' = [rec EXCEPT !.at = "audit"]
    /\ UNCHANGED <<transport, queueVars, plans, rows, unsaved, runVars, backVars>>

\* A snapshot the store cannot write is dropped too, and the replay counts.
SnapshotFails ==
    /\ "store" \in Faults
    /\ rec.at = "snapshot"
    /\ unsaved' = unsaved \cup {<<rec.plan, rec.msg.of>>}
    /\ rec' = [rec EXCEPT !.at = "audit"]
    /\ UNCHANGED <<transport, queueVars, plans, rows, snapshots, runVars, backVars>>

AuditSuccess ==
    /\ rec.at = "audit"
    /\ Append1(Row(runs, rec.plan, rec.id, "success"))
    /\ Done
    /\ UNCHANGED <<transport, queueVars, plans, snapVars, runVars, backVars>>

Complete ==
    /\ rec.at = "next" /\ rec.todo = {}
    /\ rec' = IdleRec
    /\ UNCHANGED <<transport, queueVars, plans, rows, snapVars, runVars, backVars>>

-----------------------------------------------------------------------------
(* rollback --confirm.                                                     *)

BackRow(id, result) == Row(rollbacks, back.plan, id, result)

\* The snapshots of the plan are read, and the queue is probed once.
Rollback(p) ==
    /\ back.at = "idle" /\ rollbacks < MaxRollbacks
    /\ p \in 1..Len(plans) /\ snapshots[p] # <<>>
    /\ rollbacks' = rollbacks + 1
    /\ IF dlqExists
       THEN /\ back' = [IdleBack EXCEPT !.at = "publish", !.plan = p,
                           !.todo = snapshots[p],
                           !.due = {r.id.of : r \in {q \in rows :
                                       q.plan = p /\ q.result = "success"}}]
            /\ UNCHANGED rows
       ELSE /\ Append1(Row(rollbacks + 1, p, None, "refused"))
            /\ UNCHANGED back
    /\ UNCHANGED <<transport, queueVars, plans, snapVars, recVars>>

\* snapshotMessage: the entry carries the destination it was replayed to, in
\* place of what its headers said.
Restored(s) == Written(s.id, s.of,
                       [dest |-> s.dest, xdest |-> s.dest, last |-> s.dest], "dlq")

Restoring == back.at = "publish" /\ back.todo # <<>>

RestoreConfirmed ==
    /\ Restoring
    /\ Store(Restored(Head(back.todo)))
    /\ back' = [back EXCEPT !.at = "audit", !.ok = TRUE,
                            !.put = @ \cup {c.of : c \in copies' \ copies}]
    /\ UNCHANGED <<transport, plans, rows, snapVars, recVars, rollbacks>>

RestoreUncounted ==  \* fault: the failure is not counted
    /\ "restore" \in Faults /\ Restoring
    /\ UNCHANGED queueVars \/ Store(Restored(Head(back.todo)))
    /\ back' = [back EXCEPT !.at = "audit", !.ok = FALSE]
    /\ UNCHANGED <<transport, plans, rows, snapVars, recVars, rollbacks>>

RestoreFails ==
    /\ "restore" \in Faults /\ Restoring
    /\ UNCHANGED queueVars \/ Store(Restored(Head(back.todo)))
    /\ back' = [back EXCEPT !.at = "audit", !.ok = FALSE, !.failed = TRUE]
    /\ UNCHANGED <<transport, plans, rows, snapVars, recVars, rollbacks>>

AuditRestore ==
    /\ back.at = "audit"
    /\ Append1(BackRow(Head(back.todo).id, IF back.ok THEN "restored" ELSE "failed"))
    /\ back' = [back EXCEPT !.at = "publish", !.todo = Tail(@)]
    /\ UNCHANGED <<transport, queueVars, plans, snapVars, recVars, rollbacks>>

RollbackCompletes ==
    /\ back.at = "publish" /\ back.todo = <<>>
    /\ Append1(BackRow(None, "completed"))
    /\ back' = IdleBack
    /\ UNCHANGED <<transport, queueVars, plans, snapVars, recVars, rollbacks>>

-----------------------------------------------------------------------------
(* What happens without the tool.                                          *)

\* Either process dies.
CrashRecover ==
    /\ "crash" \in Faults /\ rec.at # "idle"
    /\ rec' = IdleRec
    /\ UNCHANGED <<transport, queueVars, plans, rows, snapVars, runVars, backVars>>

CrashRollback ==
    /\ "crash" \in Faults /\ back.at # "idle"
    /\ back' = IdleBack
    /\ UNCHANGED <<transport, queueVars, plans, rows, snapVars, recVars, rollbacks>>

\* A copy changes its queue, at the hands of somebody else.
Move(c, d) ==
    /\ next <= MaxKeys
    /\ next' = next + 1
    /\ copies' = (copies \ {c}) \cup {[d EXCEPT !.key = next]}
    /\ UNCHANGED <<transport, dlqExists, plans, rows, snapVars, recVars, backVars>>

\* A consumer rejects a copy: RabbitMQ dead-letters it with an x-death entry
\* that names its queue, a consumer of a stream adds an entry that names its
\* stream.
Reject(c) ==
    /\ "reject" \in Faults /\ dlqExists
    /\ c.at \in Destinations
    /\ Move(c, [c EXCEPT !.at = "dlq", !.death = c.at, !.last = c.at])

\* Somebody with an audit store of his own replays an entry.
OtherOperator(c) ==
    /\ "other_operator" \in Faults
    /\ c.at = "dlq" /\ Destination(c) # None
    /\ Move(c, Written(MessageID(c), c.of,
                       [dest |-> Destination(c), xdest |-> c.xdest, last |-> None],
                       Destination(c)))

\* The dead-letter queue is deleted once it is empty.
DeleteDLQ ==
    /\ "delete_dlq" \in Faults
    /\ dlqExists /\ InDLQ = {}
    /\ dlqExists' = FALSE
    /\ UNCHANGED <<transport, copies, next, plans, rows, snapVars, recVars,
                   backVars>>

-----------------------------------------------------------------------------

RecStep == \/ \E p \in 1..MaxPlans : Recover(p)
           \/ \E id \in rec.todo : Inspect(id)
           \/ PublishConfirmed \/ PublishFails
           \/ Ack \/ AckFails \/ AckLost
           \/ SaveSnapshot \/ SnapshotFails \/ AuditSuccess \/ Complete

BackStep == \/ \E p \in 1..MaxPlans : Rollback(p)
            \/ RestoreConfirmed \/ RestoreFails
            \/ AuditRestore \/ RollbackCompletes

Elsewhere == \/ CrashRecover \/ CrashRollback
             \/ \E c \in copies : Reject(c) \/ OtherOperator(c)
             \/ DeleteDLQ

Next == MakePlan \/ RecStep \/ BackStep \/ Elsewhere

Spec == Init /\ [][Next]_vars

-----------------------------------------------------------------------------
(* Properties.                                                             *)

\* No message is lost on its way around the circle: a copy of it is in the
\* dead-letter queue or at a destination, whatever crashes, fails or is
\* published into a queue that is gone (executor.go:286-313, rollback.go:72).
NoLoss == \A o \in Originals : \E c \in copies : c.of = o

\* Evidence follows a message around the circle: on RabbitMQ a recovery does
\* not replay what the audit table shows an earlier one replayed, although
\* the message was rejected, restored and planned again in between, with
\* headers that changed each time (dedupe.go:36, rabbitmq/mapper.go:65).
\* That is for recoveries one after another, as here: two at once both read
\* the table before either has written to it.
\* Two success rows of a message are there only if the later recovery did
\* not ask, its plan declaring no duplicate check and --resume not given
\* (validator.go:155, executor.go:167), or could not read the table
\* (executor.go:344).  A stream entry that comes back has an ID of its own
\* and no evidence.
RecoveredOnce ==
    transport = "rabbitmq" =>
        \A r, q \in rows :
            /\ r.result = "success" /\ q.result = "success"
            /\ r.id.of = q.id.of
            /\ r.by < q.by
            => <<q.by, q.id>> \in blind

\* A plan built from the queue sends an entry back to where it was last:
\* the queue that rejected it, or the one it was restored from
\* (rabbitmq/mapper.go:20-30, rollback.go:92-97, redisstream/mapper.go:36-55).
EntriesKnowTheirWay ==
    \A c \in copies : c.at = "dlq" => Destination(c) = c.last

\* A rollback that completes without a failure has put back every message
\* the trail called recovered by the plan when it started (rollback.go:72-84,
\* executor.go:306-311), unless the queue was deleted under it, or the store
\* dropped the snapshot and took the success row (executor.go:321, 361).
RollbackReverses ==
    [][RollbackCompletes /\ ~back.failed /\ dlqExists =>
          \A o \in back.due : o \in back.put \/ <<back.plan, o>> \in unsaved]_vars
=============================================================================
