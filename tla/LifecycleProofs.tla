--------------------------- MODULE LifecycleProofs ---------------------------
(***************************************************************************)
(* No message is lost on its way around the circle, an entry knows where   *)
(* it is to be replayed to, on RabbitMQ recoveries that see the audit      *)
(* table replay a message once, and a rollback without a failure reverses  *)
(* its plan as far as its snapshots were saved, for any messages,          *)
(* destinations, plans, recoveries, rollbacks and faults.                  *)
(***************************************************************************)
EXTENDS Lifecycle, FiniteSetTheorems, SequenceTheorems, TLAPS

\* A key is a number below the next one.
KeysBelow == \A c \in copies : c.key < next

\* A message ID is an ID of the message it is on.
IDsFit == \A c \in copies : c.mid # None => c.mid.of = c.of

\* What a recovery holds while it works on a message.
Busy == rec.at \in {"publish", "ack", "snapshot", "audit"}
RecHolds ==
    /\ rec.at # "idle" => rec.plan \in 1..Len(plans)
    /\ Busy => /\ rec.id \in IDs
               /\ rec.msg \in Copies
               /\ rec.msg.of = rec.id.of
               /\ rec.msg.mid # None => rec.msg.mid.of = rec.msg.of

\* A snapshot is one of the message its ID is of, and a rollback has one to
\* write a row about.
Fitting(seq) == \A i \in 1..Len(seq) : seq[i].id.of = seq[i].of
SnapshotsFit ==
    /\ \A p \in 1..MaxPlans : Fitting(snapshots[p])
    /\ Fitting(back.todo)
    /\ back.at = "audit" => back.todo # <<>>

\* A removal is paid for: there is a copy besides the one to be removed.
Paid == rec.at = "ack" => \E c, d \in copies : /\ c # d
                                               /\ c.of = rec.id.of
                                               /\ d.of = rec.id.of

IInv == TypeOK /\ KeysBelow /\ IDsFit /\ RecHolds /\ SnapshotsFit /\ Paid /\ NoLoss

RecType == [at : Stages, plan : Nat, todo : SUBSET IDs,
            id : IDs \cup {None}, msg : Copies \cup {None}]
BackType == [at : {"idle", "publish", "audit"}, plan : Nat,
             todo : Seq(Snapshots), ok : BOOLEAN, failed : BOOLEAN,
             due : SUBSET Originals, put : SUBSET Originals]

USE LifecycleAssumption DEF snapVars, runVars
-----------------------------------------------------------------------------
(* The operators the actions are built from.                               *)

LEMMA IDType ==
  ASSUME NEW c \in Copies
  PROVE  /\ MessageID(c) \in IDs
         /\ (c.mid # None => c.mid.of = c.of) => MessageID(c).of = c.of
         /\ Destination(c) \in Destinations \cup {None}
BY DEF MessageID, Destination, IDs, Copies

LEMMA WrittenType ==
  ASSUME next \in Nat, NEW id \in IDs, NEW of \in Originals,
         NEW m \in [dest : Destinations \cup {None}, xdest : Destinations \cup {None},
                    last : Destinations \cup {None}],
         NEW queue \in Destinations \cup {"dlq"}
  PROVE  /\ Written(id, of, m, queue) \in Copies
         /\ Written(id, of, m, queue).of = of
         /\ Written(id, of, m, queue).at = queue
         /\ Written(id, of, m, queue).key = next
         /\ Written(id, of, m, queue).mid \in {id, None}
BY DEF Written, Copies

LEMMA ReplayType ==
  ASSUME TypeOK, RecHolds, Busy
  PROVE  /\ Replay(rec.msg) \in Copies
         /\ Replay(rec.msg).of = rec.id.of
         /\ Replay(rec.msg).at \in Destinations
         /\ Replay(rec.msg).key = next
         /\ Replay(rec.msg).mid # None => Replay(rec.msg).mid.of = Replay(rec.msg).of
<1>1. rec.msg \in Copies /\ rec.msg.of = rec.id.of /\ next \in Nat
  BY DEF TypeOK, RecHolds, Busy
<1>2. plans[rec.plan] \in Plans
  BY DEF TypeOK, RecHolds, Busy
<1>3. plans[rec.plan].dest \in Destinations
  BY <1>2 DEF Plans
<1>4. MessageID(rec.msg) \in IDs /\ MessageID(rec.msg).of = rec.msg.of
      /\ Destination(rec.msg) \in Destinations \cup {None}
  BY <1>1, IDType DEF RecHolds, Busy
<1>5. rec.msg.of \in Originals /\ rec.msg.xdest \in Destinations \cup {None}
  BY <1>1 DEF Copies
<1>6. [dest |-> Destination(rec.msg), xdest |-> rec.msg.xdest, last |-> None]
        \in [dest : Destinations \cup {None}, xdest : Destinations \cup {None},
             last : Destinations \cup {None}]
  BY <1>4, <1>5
<1>7. MessageID(rec.msg) # None => MessageID(rec.msg).of = rec.msg.of
  BY <1>4
<1> QED
  BY <1>1, <1>3, <1>4, <1>5, <1>6, <1>7, WrittenType DEF Replay

LEMMA RestoredType ==
  ASSUME TypeOK, SnapshotsFit, back.todo # <<>>
  PROVE  /\ Head(back.todo) \in Snapshots
         /\ Restored(Head(back.todo)) \in Copies
         /\ Restored(Head(back.todo)).key = next
         /\ Restored(Head(back.todo)).at = "dlq"
         /\ Restored(Head(back.todo)).mid # None =>
               Restored(Head(back.todo)).mid.of = Restored(Head(back.todo)).of
<1> DEFINE s == Head(back.todo)
<1>1. back.todo \in Seq(Snapshots) /\ Len(back.todo) \in Nat \ {0} /\ s = back.todo[1]
  BY DEF TypeOK
<1>2. s \in Snapshots /\ s.id.of = s.of
  BY <1>1 DEF SnapshotsFit, Fitting
<1>3. next \in Nat /\ s.id \in IDs /\ s.of \in Originals /\ s.dest \in Destinations
  BY <1>2 DEF TypeOK, Snapshots
<1>4. [dest |-> s.dest, xdest |-> s.dest, last |-> s.dest]
        \in [dest : Destinations \cup {None}, xdest : Destinations \cup {None},
             last : Destinations \cup {None}]
  BY <1>3
<1> QED
  BY <1>2, <1>3, <1>4, WrittenType DEF Restored

\* An entry is stored in the dead-letter queue or at a destination, or is
\* dropped: nothing that was there goes away.
LEMMA StoreKeeps ==
  ASSUME TypeOK, KeysBelow, IDsFit, NoLoss,
         NEW c \in Copies, c.key = next, c.mid # None => c.mid.of = c.of,
         Store(c)
  PROVE  /\ copies' \subseteq Copies /\ next' \in Nat /\ dlqExists' \in BOOLEAN
         /\ KeysBelow' /\ IDsFit' /\ NoLoss'
         /\ copies \subseteq copies' /\ copies' \subseteq copies \cup {c}
         /\ c.at # "dlq" => c \in copies'
         /\ c \notin copies
<1>1. /\ copies \subseteq Copies /\ next \in Nat /\ next' = next + 1
      /\ copies' = copies \/ copies' = copies \cup {c}
      /\ dlqExists' \in BOOLEAN
      /\ c.at # "dlq" => copies' = copies \cup {c}
  BY DEF Store, TypeOK
<1>2. \A d \in copies : d.key \in Nat /\ d.key < next
  BY <1>1 DEF KeysBelow, Copies
<1>3. c \notin copies
  BY <1>1, <1>2
<1>4. KeysBelow'
  BY <1>1, <1>2 DEF KeysBelow
<1>5. IDsFit' /\ NoLoss'
  BY <1>1 DEF IDsFit, NoLoss
<1> QED
  BY <1>1, <1>3, <1>4, <1>5

\* A copy that changes its queue stays a copy of its message.
LEMMA MoveKeeps ==
  ASSUME IInv, NEW c \in copies, NEW d \in Copies, d.of = c.of,
         d.mid # None => d.mid.of = d.of,
         Move(c, d)
  PROVE  IInv'
<1> DEFINE e == [d EXCEPT !.key = next]
<1>1. /\ copies \subseteq Copies /\ next \in Nat /\ next' = next + 1
      /\ copies' = (copies \ {c}) \cup {e}
      /\ UNCHANGED <<transport, dlqExists, plans, rows, snapVars, rec, runVars, back, rollbacks>>
  BY DEF Move, IInv, TypeOK, recVars, backVars
<1>2. e \in Copies /\ e.key = next /\ e.of = c.of /\ e.mid = d.mid
  BY <1>1 DEF Copies
<1> HIDE DEF e
<1>3. \A b \in copies : b.key \in Nat /\ b.key < next
  BY <1>1 DEF IInv, KeysBelow, Copies
<1>4. e \notin copies
  BY <1>1, <1>2, <1>3
<1>5. TypeOK'
  BY <1>1, <1>2 DEF IInv, TypeOK
<1>6. KeysBelow' /\ IDsFit'
  BY <1>1, <1>2, <1>3 DEF IInv, KeysBelow, IDsFit
<1>7. RecHolds' /\ SnapshotsFit'
  BY <1>1 DEF IInv, RecHolds, SnapshotsFit, Busy
<1>8. Paid'
  <2> SUFFICES ASSUME rec'.at = "ack"
               PROVE  \E a, b \in copies' : /\ a # b
                                            /\ a.of = rec'.id.of /\ b.of = rec'.id.of
    BY DEF Paid
  <2>1. PICK a, b \in copies : a # b /\ a.of = rec.id.of /\ b.of = rec.id.of
    BY <1>1 DEF IInv, Paid
  <2>2. CASE a = c
    <3>1. e \in copies' /\ b \in copies' /\ e # b /\ e.of = rec'.id.of /\ b.of = rec'.id.of
      BY <1>1, <1>2, <1>4, <2>1, <2>2
    <3> QED
      BY <3>1
  <2>3. CASE b = c
    <3>1. a \in copies' /\ e \in copies' /\ e # a /\ e.of = rec'.id.of /\ a.of = rec'.id.of
      BY <1>1, <1>2, <1>4, <2>1, <2>3
    <3> QED
      BY <3>1
  <2>4. CASE a # c /\ b # c
    <3>1. a \in copies' /\ b \in copies'
      BY <1>1, <2>1, <2>4
    <3> QED
      BY <1>1, <2>1, <3>1
  <2> QED
    BY <2>2, <2>3, <2>4
<1>9. NoLoss'
  <2> SUFFICES ASSUME NEW o \in Originals
               PROVE  \E b \in copies' : b.of = o
    BY DEF NoLoss
  <2>1. PICK b \in copies : b.of = o
    BY DEF IInv, NoLoss
  <2>2. IF b = c THEN e \in copies' /\ e.of = o ELSE b \in copies'
    BY <1>1, <1>2, <2>1
  <2> QED
    BY <2>1, <2>2
<1> QED
  BY <1>5, <1>6, <1>7, <1>8, <1>9 DEF IInv

-----------------------------------------------------------------------------
(* The invariant is inductive.                                             *)

LEMMA InitIInv == ASSUME Init PROVE IInv
<1>1. Cardinality(Originals) \in Nat
  BY FS_CardinalityType
<1>2. PICK key \in [Originals -> 1..Cardinality(Originals)],
           death \in Destinations, own \in BOOLEAN :
         copies = {[key |-> key[o], of |-> o,
                    mid |-> IF own THEN [of |-> o, key |-> 0, mark |-> "own"] ELSE None,
                    at |-> "dlq", death |-> death, xdest |-> None,
                    last |-> death] : o \in Originals}
  BY DEF Init
<1>3. copies \subseteq Copies
  BY <1>1, <1>2 DEF Copies, IDs
<1>4. TypeOK
  BY <1>1, <1>3, SMTT(30) DEF Init, TypeOK, IdleRec, IdleBack, Stages
<1>5. KeysBelow
  <2>1. \A o \in Originals : key[o] < Cardinality(Originals) + 1
    BY <1>1
  <2> QED
    BY <1>2, <2>1 DEF Init, KeysBelow
<1>6. IDsFit /\ NoLoss
  <2>1. ASSUME NEW c \in copies, c.mid # None PROVE c.mid.of = c.of
    BY <1>2, <2>1
  <2>2. ASSUME NEW o \in Originals PROVE \E c \in copies : c.of = o
    <3> DEFINE c == [key |-> key[o], of |-> o,
                     mid |-> IF own THEN [of |-> o, key |-> 0, mark |-> "own"] ELSE None,
                     at |-> "dlq", death |-> death, xdest |-> None, last |-> death]
    <3>1. c \in copies
      BY <1>2
    <3>2. c.of = o
      OBVIOUS
    <3> QED
      BY <3>1, <3>2
  <2> QED
    BY <2>1, <2>2 DEF IDsFit, NoLoss
<1>7. RecHolds /\ SnapshotsFit /\ Paid
  BY DEF Init, RecHolds, Busy, SnapshotsFit, Fitting, Paid, IdleRec, IdleBack
<1> QED
  BY <1>4, <1>5, <1>6, <1>7 DEF IInv

\* Nothing about the entries changes when the queues do not.
LEMMA QueuesKept ==
  ASSUME IInv, UNCHANGED queueVars
  PROVE  KeysBelow' /\ IDsFit' /\ NoLoss'
BY DEF IInv, queueVars, KeysBelow, IDsFit, NoLoss

LEMMA MakePlanKeeps == ASSUME IInv, MakePlan PROVE IInv'
<1>1. KeysBelow' /\ IDsFit' /\ NoLoss'
  BY QueuesKept DEF MakePlan
<1>2. PICK picked \in SUBSET InDLQ, dest \in Destinations, checked \in BOOLEAN :
         plans' = Append(plans, [ids |-> {MessageID(c) : c \in picked}, dest |-> dest,
                                 checked |-> checked])
  BY DEF MakePlan
<1>3. {MessageID(c) : c \in picked} \subseteq IDs
  BY IDType DEF IInv, TypeOK, InDLQ
<1>4. /\ plans' \in Seq(Plans) /\ Len(plans') = Len(plans) + 1 /\ Len(plans) \in Nat
      /\ Len(plans) < MaxPlans
  <2>1. [ids |-> {MessageID(c) : c \in picked}, dest |-> dest, checked |-> checked] \in Plans
    BY <1>3 DEF Plans
  <2>2. plans \in Seq(Plans) /\ Len(plans) < MaxPlans
    BY DEF IInv, TypeOK, MakePlan
  <2> QED
    BY <1>2, <2>1, <2>2
<1>5. UNCHANGED <<transport, copies, next, dlqExists, rows, snapVars, rec, runVars, back, rollbacks>>
  BY DEF MakePlan, queueVars, recVars, backVars
<1>6. TypeOK'
  <2>1. Len(plans') <= MaxPlans
    BY <1>4
  <2> QED
    BY <1>4, <1>5, <2>1 DEF IInv, TypeOK
<1>7. RecHolds' /\ SnapshotsFit' /\ Paid'
  BY <1>4, <1>5 DEF IInv, RecHolds, Busy, SnapshotsFit, Paid
<1> QED
  BY <1>1, <1>6, <1>7 DEF IInv

\* A step of the recovery that leaves the entries, the plans and the rollback
\* alone.
LEMMA RecStepKeeps ==
  ASSUME IInv, UNCHANGED <<transport, queueVars, plans, backVars>>,
         rows' \subseteq Rows, runs' \in Nat, blind' \subseteq Nat \X IDs,
         snapshots' \in [1..MaxPlans -> Seq(Snapshots)],
         unsaved' \subseteq Nat \X Originals,
         \A p \in 1..MaxPlans : Fitting(snapshots'[p]),
         rec' \in [at : Stages, plan : Nat, todo : SUBSET IDs,
                   id : IDs \cup {None}, msg : Copies \cup {None}],
         rec'.at \notin {"ack"}, RecHolds'
  PROVE  IInv'
<1>1. KeysBelow' /\ IDsFit' /\ NoLoss'
  BY QueuesKept
<1>2. TypeOK'
  BY DEF IInv, TypeOK, queueVars, backVars
<1>3. SnapshotsFit' /\ Paid'
  BY DEF IInv, SnapshotsFit, Paid, backVars
<1> QED
  BY <1>1, <1>2, <1>3 DEF IInv

\* What a recovery does not ask about is of its plan.
LEMMA UnreadType ==
  ASSUME IInv, NEW p \in 1..Len(plans), NEW resume \in BOOLEAN, NEW unread \in Unread(p, resume)
  PROVE  unread \subseteq plans[p].ids /\ plans[p].ids \subseteq IDs
<1>1. plans[p] \in Plans
  BY DEF IInv, TypeOK
<1> QED
  BY <1>1 DEF Unread, Plans

LEMMA RecoverKeeps == ASSUME IInv, NEW p, Recover(p) PROVE IInv'
<1>1. /\ UNCHANGED <<transport, queueVars, plans, backVars, rows, snapVars>>
      /\ p \in 1..Len(plans) /\ runs' = runs + 1
  BY DEF Recover
<1>0. PICK resume \in BOOLEAN : \E unread \in Unread(p, resume) :
         /\ rec' = [IdleRec EXCEPT !.at = "next", !.plan = p,
                       !.todo = {id \in plans[p].ids : Attempts(id, unread)}]
         /\ blind' = blind \cup {<<runs + 1, id>> : id \in unread}
  BY DEF Recover
<1>2. PICK unread \in Unread(p, resume) :
         /\ rec' = [IdleRec EXCEPT !.at = "next", !.plan = p,
                       !.todo = {id \in plans[p].ids : Attempts(id, unread)}]
         /\ blind' = blind \cup {<<runs + 1, id>> : id \in unread}
  BY <1>0
<1>3. {id \in plans[p].ids : Attempts(id, unread)} \subseteq IDs /\ unread \subseteq IDs
  BY <1>1, UnreadType
<1>4. /\ rec' \in [at : Stages, plan : Nat, todo : SUBSET IDs,
                   id : IDs \cup {None}, msg : Copies \cup {None}]
      /\ rec'.at = "next" /\ rec'.plan = p
  <2>1. rec' = [at |-> "next", plan |-> p,
                todo |-> {id \in plans[p].ids : Attempts(id, unread)},
                id |-> None, msg |-> None]
    BY <1>2 DEF IdleRec
  <2>2. p \in Nat /\ "next" \in Stages
    BY <1>1 DEF Stages, IInv, TypeOK
  <2> QED
    BY <1>3, <2>1, <2>2
<1>5. RecHolds'
  BY <1>1, <1>4 DEF RecHolds, Busy
<1>6. blind' \subseteq Nat \X IDs /\ runs' \in Nat
  <2>1. runs + 1 \in Nat /\ blind \subseteq Nat \X IDs
    BY DEF IInv, TypeOK
  <2> QED
    BY <1>1, <1>2, <1>3, <2>1
<1> QED
  <2>1. /\ rows' \subseteq Rows
        /\ snapshots' \in [1..MaxPlans -> Seq(Snapshots)]
        /\ unsaved' \subseteq Nat \X Originals
        /\ \A q \in 1..MaxPlans : Fitting(snapshots'[q])
    BY <1>1 DEF IInv, TypeOK, SnapshotsFit
  <2> QED
    BY <1>1, <1>4, <1>5, <1>6, <2>1, RecStepKeeps

LEMMA InspectKeeps == ASSUME IInv, NEW id \in rec.todo, Inspect(id) PROVE IInv'
<1>1. /\ UNCHANGED <<transport, queueVars, plans, backVars, rows, snapVars, runVars>>
      /\ rec.at = "next"
  BY DEF Inspect
<1>2. id \in IDs /\ rec.todo \ {id} \subseteq IDs /\ rec.plan \in 1..Len(plans)
  BY <1>1 DEF IInv, TypeOK, RecHolds
<1>3. ASSUME NEW c \in First(id),
             rec' = [rec EXCEPT !.at = "publish", !.todo = @ \ {id},
                                !.id = id, !.msg = c]
      PROVE  IInv'
  <2>1. c \in Copies /\ MessageID(c) = id /\ (c.mid # None => c.mid.of = c.of)
    BY <1>3 DEF First, With, InDLQ, IInv, TypeOK, IDsFit
  <2>2. c.of = id.of
    BY <2>1, IDType
  <2>3. /\ rec' \in [at : Stages, plan : Nat, todo : SUBSET IDs,
                     id : IDs \cup {None}, msg : Copies \cup {None}]
        /\ rec'.at = "publish" /\ rec'.plan = rec.plan /\ rec'.id = id /\ rec'.msg = c
    BY <1>2, <1>3, <2>1 DEF IInv, TypeOK, Stages
  <2>4. RecHolds'
    BY <1>1, <1>2, <2>1, <2>2, <2>3 DEF RecHolds, Busy
  <2> QED
    BY <1>1, <2>3, <2>4, RecStepKeeps DEF IInv, TypeOK, SnapshotsFit
<1>4. ASSUME rec' = [rec EXCEPT !.todo = @ \ {id}] PROVE IInv'
  <2>0. rec \in [at : Stages, plan : Nat, todo : SUBSET IDs,
                   id : IDs \cup {None}, msg : Copies \cup {None}]
    BY DEF IInv, TypeOK
  <2>1. /\ rec' \in [at : Stages, plan : Nat, todo : SUBSET IDs,
                     id : IDs \cup {None}, msg : Copies \cup {None}]
        /\ rec'.at = "next" /\ rec'.plan = rec.plan
    <3>1. rec' = [at |-> "next", plan |-> rec.plan, todo |-> rec.todo \ {id},
                  id |-> rec.id, msg |-> rec.msg]
      BY <1>1, <1>4, <2>0
    <3>2. /\ rec.plan \in Nat /\ rec.id \in IDs \cup {None}
          /\ rec.msg \in Copies \cup {None} /\ "next" \in Stages
      BY <2>0 DEF Stages
    <3> QED
      BY <1>2, <3>1, <3>2
  <2>2. RecHolds'
    BY <1>1, <1>2, <2>1 DEF RecHolds, Busy
  <2> QED
    BY <1>1, <2>1, <2>2, RecStepKeeps DEF IInv, TypeOK, SnapshotsFit
<1> QED
  BY <1>3, <1>4 DEF Inspect

\* The recovery's record when it moves on, and when a message is done.
LEMMA RecMoves ==
  ASSUME IInv, rec.at # "idle"
  PROVE  /\ \A st \in Stages : /\ [rec EXCEPT !.at = st] \in RecType
                               /\ [rec EXCEPT !.at = st].at = st
                               /\ [rec EXCEPT !.at = st].plan = rec.plan
                               /\ [rec EXCEPT !.at = st].id = rec.id
                               /\ [rec EXCEPT !.at = st].msg = rec.msg
                               /\ [rec EXCEPT !.at = st].todo = rec.todo
         /\ Done => /\ rec' \in RecType /\ rec'.at = "next" /\ rec'.plan = rec.plan
                    /\ rec'.todo = rec.todo
<1>1. rec \in RecType
  BY DEF IInv, TypeOK, RecType
<1>2. "next" \in Stages
  BY DEF Stages
<1> QED
  BY <1>1, <1>2 DEF RecType, Done

\* A step of the recovery that stores an entry at the destination.
LEMMA PublishKeeps ==
  ASSUME IInv, rec.at = "publish", Store(Replay(rec.msg)),
         UNCHANGED <<transport, plans, snapVars, rows, runVars, backVars>>,
         \/ rec' = rec
         \/ rec' = [rec EXCEPT !.at = "ack"]
         \/ Done
  PROVE  IInv'
<1> DEFINE r == Replay(rec.msg)
<1>1. /\ r \in Copies /\ r.of = rec.id.of /\ r.at \in Destinations
      /\ r.key = next /\ (r.mid # None => r.mid.of = r.of)
  BY ReplayType DEF IInv, Busy
<1> HIDE DEF r
<1>2. /\ copies' \subseteq Copies /\ next' \in Nat /\ dlqExists' \in BOOLEAN
      /\ KeysBelow' /\ IDsFit' /\ NoLoss'
      /\ copies \subseteq copies' /\ r \in copies' /\ r \notin copies
  BY <1>1, StoreKeeps DEF IInv, r
<1>3. /\ rec' \in RecType /\ rec'.plan = rec.plan
      /\ \/ rec'.at \in {"publish", "ack"} /\ rec'.id = rec.id /\ rec'.msg = rec.msg
         \/ rec'.at = "next"
  BY RecMoves DEF IInv, TypeOK, RecType, Stages
<1>4. TypeOK'
  BY <1>2, <1>3 DEF IInv, TypeOK, RecType, backVars
<1>5. RecHolds'
  BY <1>3 DEF IInv, RecHolds, Busy
<1>6. SnapshotsFit'
  BY DEF IInv, SnapshotsFit, backVars
<1>7. Paid'
  <2> SUFFICES ASSUME rec'.at = "ack"
               PROVE  \E c, d \in copies' : /\ c # d
                                            /\ c.of = rec'.id.of /\ d.of = rec'.id.of
    BY DEF Paid
  <2>1. rec'.id = rec.id /\ rec.id \in IDs
    BY <1>3 DEF IInv, RecHolds, Busy
  <2>2. PICK c \in copies : c.of = rec.id.of
    BY <2>1 DEF IInv, NoLoss, IDs
  <2>3. c \in copies' /\ r \in copies' /\ c # r
    BY <1>2, <2>2
  <2> QED
    BY <1>1, <2>1, <2>2, <2>3
<1> QED
  BY <1>2, <1>4, <1>5, <1>6, <1>7 DEF IInv

LEMMA PublishFailsKeeps == ASSUME IInv, PublishFails PROVE IInv'
<1>1. CASE Store(Replay(rec.msg))
  BY <1>1, PublishKeeps DEF PublishFails
<1>2. CASE UNCHANGED queueVars
  <2>1. rec.at = "publish" /\ UNCHANGED <<transport, plans, rows, snapVars, runVars, backVars>>
    BY DEF PublishFails
  <2>2. rec' \in RecType /\ rec'.plan = rec.plan
        /\ ((rec'.at = "publish" /\ rec' = rec) \/ rec'.at = "next")
    BY <2>1, RecMoves DEF PublishFails, IInv, TypeOK, RecType
  <2>3. RecHolds'
    BY <2>1, <2>2 DEF IInv, RecHolds, Busy
  <2> QED
    BY <1>2, <2>1, <2>2, <2>3, RecStepKeeps DEF IInv, TypeOK, SnapshotsFit, RecType
<1> QED
  BY <1>1, <1>2 DEF PublishFails

\* The entry is removed, whether the recovery learns of it or not.
LEMMA AckKeeps == ASSUME IInv, Ack \/ AckLost PROVE IInv'
<1>1. PICK x \in First(rec.id) : copies' = copies \ {x}
  BY DEF Ack, AckLost
<1>2. /\ rec.at = "ack" /\ (rec' = [rec EXCEPT !.at = "snapshot"] \/ Done)
      /\ UNCHANGED <<transport, next, dlqExists, plans, rows, snapVars, runVars, back, rollbacks>>
  BY DEF Ack, AckLost, backVars
<1>3. x \in Copies /\ x.of = rec.id.of
  <2>1. x \in Copies /\ MessageID(x) = rec.id /\ (x.mid # None => x.mid.of = x.of)
    BY DEF First, With, InDLQ, IInv, TypeOK, IDsFit
  <2> QED
    BY <2>1, IDType
<1>4. /\ rec' \in RecType /\ rec'.plan = rec.plan
      /\ \/ rec'.at = "snapshot" /\ rec'.id = rec.id /\ rec'.msg = rec.msg
         \/ rec'.at = "next"
  BY <1>2, RecMoves DEF Stages
<1>5. TypeOK'
  BY <1>1, <1>2, <1>4 DEF IInv, TypeOK, RecType
<1>6. KeysBelow' /\ IDsFit'
  BY <1>1, <1>2 DEF IInv, KeysBelow, IDsFit
<1>7. RecHolds' /\ SnapshotsFit' /\ Paid'
  BY <1>2, <1>4 DEF IInv, RecHolds, Busy, SnapshotsFit, Paid
<1>8. NoLoss'
  <2> SUFFICES ASSUME NEW o \in Originals PROVE \E c \in copies' : c.of = o
    BY DEF NoLoss
  <2>1. CASE o = rec.id.of
    <3>1. PICK c, d \in copies : c # d /\ c.of = o /\ d.of = o
      BY <1>2, <2>1 DEF IInv, Paid
    <3>2. c \in copies' \/ d \in copies'
      BY <1>1, <3>1
    <3> QED
      BY <3>1, <3>2
  <2>2. CASE o # rec.id.of
    <3>1. PICK c \in copies : c.of = o
      BY DEF IInv, NoLoss
    <3>2. c \in copies'
      BY <1>1, <1>3, <2>2, <3>1
    <3> QED
      BY <3>1, <3>2
  <2> QED
    BY <2>1, <2>2
<1> QED
  BY <1>5, <1>6, <1>7, <1>8 DEF IInv

LEMMA AckFailsKeeps == ASSUME IInv, AckFails PROVE IInv'
<1>1. Done /\ rec.at = "ack"
      /\ UNCHANGED <<transport, queueVars, plans, rows, snapVars, runVars, backVars>>
  BY DEF AckFails
<1>2. rec' \in RecType /\ rec'.plan = rec.plan /\ rec'.at = "next"
  BY <1>1, RecMoves
<1>3. RecHolds'
  BY <1>1, <1>2 DEF IInv, RecHolds, Busy
<1> QED
  BY <1>1, <1>2, <1>3, RecStepKeeps DEF IInv, TypeOK, SnapshotsFit, RecType

\* One more snapshot on a sequence of fitting ones.
LEMMA FittingGrows ==
  ASSUME NEW seq \in Seq(Snapshots), Fitting(seq), NEW s \in Snapshots, s.id.of = s.of
  PROVE  Append(seq, s) \in Seq(Snapshots) /\ Fitting(Append(seq, s))
<1>1. /\ Len(seq) \in Nat /\ Append(seq, s) \in Seq(Snapshots)
      /\ Len(Append(seq, s)) = Len(seq) + 1
      /\ \A i \in 1..Len(seq) : Append(seq, s)[i] = seq[i]
      /\ Append(seq, s)[Len(seq) + 1] = s
  OBVIOUS
<1>2. ASSUME NEW i \in 1..Len(Append(seq, s))
      PROVE  Append(seq, s)[i].id.of = Append(seq, s)[i].of
  <2>1. i \in 1..Len(seq) \/ i = Len(seq) + 1
    BY <1>1
  <2> QED
    BY <1>1, <2>1 DEF Fitting
<1> QED
  BY <1>1, <1>2 DEF Fitting

LEMMA SaveSnapshotKeeps == ASSUME IInv, SaveSnapshot PROVE IInv'
<1>1. /\ rec.at = "snapshot" /\ rec' = [rec EXCEPT !.at = "audit"]
      /\ UNCHANGED <<transport, queueVars, plans, rows, unsaved, runVars, backVars>>
      /\ snapshots' = [snapshots EXCEPT ![rec.plan] = Append(@, TheSnapshot)]
  BY DEF SaveSnapshot
<1>2. /\ rec' \in RecType /\ rec'.at = "audit" /\ rec'.plan = rec.plan
      /\ rec'.id = rec.id /\ rec'.msg = rec.msg
  BY <1>1, RecMoves DEF Stages
<1>3. /\ rec.plan \in 1..Len(plans) /\ rec.id \in IDs /\ rec.msg \in Copies
      /\ rec.msg.of = rec.id.of
  BY <1>1 DEF IInv, RecHolds, Busy
<1>4. plans[rec.plan].dest \in Destinations /\ rec.plan \in 1..MaxPlans
  <2>1. plans \in Seq(Plans) /\ Len(plans) \in Nat /\ Len(plans) <= MaxPlans
    BY DEF IInv, TypeOK
  <2>2. plans[rec.plan] \in Plans /\ rec.plan \in 1..MaxPlans
    BY <1>3, <2>1
  <2> QED
    BY <2>2 DEF Plans
<1>5. TheSnapshot \in Snapshots /\ TheSnapshot.id.of = TheSnapshot.of
  BY <1>3, <1>4 DEF TheSnapshot, Snapshots, Copies
<1>6. /\ snapshots \in [1..MaxPlans -> Seq(Snapshots)]
      /\ \A p \in 1..MaxPlans : Fitting(snapshots[p])
  BY DEF IInv, TypeOK, SnapshotsFit
<1>7. /\ snapshots' \in [1..MaxPlans -> Seq(Snapshots)]
      /\ \A p \in 1..MaxPlans : Fitting(snapshots'[p])
  BY <1>1, <1>4, <1>5, <1>6, FittingGrows
<1>8. RecHolds'
  BY <1>1, <1>2 DEF IInv, RecHolds, Busy
<1> QED
  BY <1>1, <1>2, <1>7, <1>8, RecStepKeeps DEF IInv, TypeOK, RecType

LEMMA SnapshotFailsKeeps == ASSUME IInv, SnapshotFails PROVE IInv'
<1>1. /\ rec.at = "snapshot" /\ rec' = [rec EXCEPT !.at = "audit"]
      /\ UNCHANGED <<transport, queueVars, plans, rows, snapshots, runVars, backVars>>
      /\ unsaved' = unsaved \cup {<<rec.plan, rec.msg.of>>}
  BY DEF SnapshotFails
<1>2. /\ rec' \in RecType /\ rec'.at = "audit" /\ rec'.plan = rec.plan
      /\ rec'.id = rec.id /\ rec'.msg = rec.msg
  BY <1>1, RecMoves DEF Stages
<1>3. rec.plan \in Nat /\ rec.msg.of \in Originals
  BY <1>1 DEF IInv, TypeOK, RecHolds, Busy, Copies
<1>4. unsaved' \subseteq Nat \X Originals
  BY <1>1, <1>3 DEF IInv, TypeOK
<1>5. RecHolds'
  BY <1>1, <1>2 DEF IInv, RecHolds, Busy
<1> QED
  BY <1>1, <1>2, <1>4, <1>5, RecStepKeeps DEF IInv, TypeOK, SnapshotsFit, RecType

LEMMA AuditSuccessKeeps == ASSUME IInv, AuditSuccess PROVE IInv'
<1>1. /\ Done /\ rec.at = "audit"
      /\ UNCHANGED <<transport, queueVars, plans, snapVars, runVars, backVars>>
      /\ rows' \subseteq rows \cup {Row(runs, rec.plan, rec.id, "success")}
  BY DEF AuditSuccess, Append1
<1>2. rec' \in RecType /\ rec'.plan = rec.plan /\ rec'.at = "next"
  BY <1>1, RecMoves
<1>3. RecHolds'
  BY <1>1, <1>2 DEF IInv, RecHolds, Busy
<1>4. rows' \subseteq Rows
  BY <1>1 DEF IInv, TypeOK, Row, Rows, RecHolds, Busy
<1> QED
  BY <1>1, <1>2, <1>3, <1>4, RecStepKeeps DEF IInv, TypeOK, SnapshotsFit, RecType

LEMMA RecoveryEndsKeeps ==
  ASSUME IInv, rec' = IdleRec,
         UNCHANGED <<transport, queueVars, plans, rows, snapVars, runVars, backVars>>
  PROVE  IInv'
<1>1. IdleRec \in RecType /\ IdleRec.at = "idle"
  BY DEF IdleRec, RecType, Stages
<1>2. RecHolds'
  BY <1>1 DEF RecHolds, Busy
<1> QED
  BY <1>1, <1>2, RecStepKeeps DEF IInv, TypeOK, SnapshotsFit, RecType

-----------------------------------------------------------------------------
(* Rollback.                                                               *)

\* A step of the rollback that stores nothing.
LEMMA BackStepKeeps ==
  ASSUME IInv, UNCHANGED <<transport, queueVars, plans, snapVars, recVars>>,
         rows' \subseteq Rows, rollbacks' \in Nat, back' \in BackType,
         Fitting(back'.todo),
         back'.at = "audit" => back'.todo # <<>>
  PROVE  IInv'
<1>1. KeysBelow' /\ IDsFit' /\ NoLoss'
  BY QueuesKept
<1>2. TypeOK'
  BY DEF IInv, TypeOK, queueVars, recVars, BackType
<1>3. RecHolds' /\ Paid'
  BY DEF IInv, RecHolds, Busy, Paid, recVars, queueVars
<1>4. SnapshotsFit'
  BY DEF IInv, SnapshotsFit, Fitting
<1> QED
  BY <1>1, <1>2, <1>3, <1>4 DEF IInv

LEMMA RollbackRowType ==
  ASSUME IInv, NEW by \in Nat, NEW p \in Nat, NEW id \in IDs \cup {None}, NEW result,
         \/ id \in IDs /\ result \in {"restored", "failed"}
         \/ id = None /\ result \in {"refused", "completed"},
         Append1(Row(by, p, id, result))
  PROVE  rows' \subseteq Rows
BY DEF IInv, TypeOK, Append1, Row, Rows

LEMMA RollbackKeeps == ASSUME IInv, NEW p, Rollback(p) PROVE IInv'
<1>1. /\ UNCHANGED <<transport, queueVars, plans, snapVars, recVars>>
      /\ rollbacks' = rollbacks + 1 /\ rollbacks \in Nat
      /\ p \in 1..MaxPlans /\ p \in Nat /\ back.at = "idle"
  BY DEF Rollback, IInv, TypeOK
<1>2. back \in BackType /\ Fitting(back.todo)
  BY DEF IInv, TypeOK, BackType, SnapshotsFit
<1>3. CASE dlqExists
  <2> DEFINE due == {r.id.of : r \in {q \in rows : q.plan = p /\ q.result = "success"}}
  <2>1. /\ back' = [IdleBack EXCEPT !.at = "publish", !.plan = p,
                                    !.todo = snapshots[p], !.due = due]
        /\ UNCHANGED rows
    BY <1>3 DEF Rollback
  <2>2. due \subseteq Originals
    <3> SUFFICES ASSUME NEW q \in rows, q.result = "success"
                 PROVE  q.id.of \in Originals
      OBVIOUS
    <3> QED
      BY DEF IInv, TypeOK, Rows, IDs
  <2> HIDE DEF due
  <2>3. back' = [at |-> "publish", plan |-> p, todo |-> snapshots[p], ok |-> FALSE,
                 failed |-> FALSE, due |-> due, put |-> {}]
    BY <2>1 DEF IdleBack
  <2>4. snapshots[p] \in Seq(Snapshots) /\ Fitting(snapshots[p])
    BY <1>1 DEF IInv, TypeOK, SnapshotsFit
  <2>5. back' \in BackType /\ back'.todo = snapshots[p] /\ back'.at = "publish"
    BY <1>1, <2>2, <2>3, <2>4 DEF BackType
  <2>6. rows' \subseteq Rows /\ rollbacks' \in Nat /\ Fitting(back'.todo)
        /\ (back'.at = "audit" => back'.todo # <<>>)
    BY <1>1, <2>1, <2>4, <2>5 DEF IInv, TypeOK
  <2> QED
    BY <1>1, <2>5, <2>6, BackStepKeeps
<1>4. CASE ~dlqExists
  <2>1. Append1(Row(rollbacks + 1, p, None, "refused")) /\ UNCHANGED back
    BY <1>4 DEF Rollback
  <2>2. rows' \subseteq Rows
    BY <1>1, <2>1, RollbackRowType
  <2> QED
    BY <1>1, <1>2, <2>1, <2>2, BackStepKeeps
<1> QED
  BY <1>3, <1>4

\* A step of the rollback that stores an entry in the dead-letter queue.
LEMMA RestoreKeeps ==
  ASSUME IInv, Restoring, Store(Restored(Head(back.todo))),
         UNCHANGED <<transport, plans, rows, snapVars, recVars, rollbacks>>,
         back' \in BackType, back'.todo = back.todo
  PROVE  IInv'
<1> DEFINE r == Restored(Head(back.todo))
<1>1. /\ r \in Copies /\ r.key = next /\ (r.mid # None => r.mid.of = r.of)
  BY RestoredType DEF IInv, Restoring
<1> HIDE DEF r
<1>2. /\ copies' \subseteq Copies /\ next' \in Nat /\ dlqExists' \in BOOLEAN
      /\ KeysBelow' /\ IDsFit' /\ NoLoss' /\ copies \subseteq copies'
  BY <1>1, StoreKeeps DEF IInv, r
<1>3. TypeOK'
  BY <1>2 DEF IInv, TypeOK, recVars, BackType
<1>4. RecHolds' /\ Paid'
  BY <1>2 DEF IInv, RecHolds, Busy, Paid, recVars
<1>5. SnapshotsFit'
  BY DEF IInv, SnapshotsFit, Restoring
<1> QED
  BY <1>2, <1>3, <1>4, <1>5 DEF IInv

LEMMA RestoreConfirmedKeeps == ASSUME IInv, RestoreConfirmed PROVE IInv'
<1> DEFINE put == back.put \cup {c.of : c \in copies' \ copies}
<1>1. /\ Restoring /\ Store(Restored(Head(back.todo)))
      /\ UNCHANGED <<transport, plans, rows, snapVars, recVars, rollbacks>>
      /\ back' = [back EXCEPT !.at = "audit", !.ok = TRUE, !.put = put]
  BY DEF RestoreConfirmed
<1>2. copies' \subseteq Copies
  <2>1. Restored(Head(back.todo)) \in Copies
    BY <1>1, RestoredType DEF IInv, Restoring
  <2> QED
    BY <1>1, <2>1 DEF Store, IInv, TypeOK
<1>3. back \in BackType
  BY DEF IInv, TypeOK, BackType
<1>4. put \subseteq Originals
  BY <1>2, <1>3 DEF Copies, BackType
<1> HIDE DEF put
<1>5. back' \in BackType /\ back'.todo = back.todo
  BY <1>1, <1>3, <1>4 DEF BackType
<1> QED
  BY <1>1, <1>5, RestoreKeeps

LEMMA RestoreFailsKeeps == ASSUME IInv, RestoreFails PROVE IInv'
<1>1. /\ Restoring
      /\ UNCHANGED <<transport, plans, rows, snapVars, recVars, rollbacks>>
      /\ back' = [back EXCEPT !.at = "audit", !.ok = FALSE, !.failed = TRUE]
  BY DEF RestoreFails
<1>2. back \in BackType /\ Fitting(back.todo)
  BY DEF IInv, TypeOK, BackType, SnapshotsFit
<1>3. back' \in BackType /\ back'.todo = back.todo /\ back.todo # <<>>
  BY <1>1, <1>2 DEF BackType, Restoring
<1>4. CASE Store(Restored(Head(back.todo)))
  BY <1>1, <1>3, <1>4, RestoreKeeps
<1>5. CASE UNCHANGED queueVars
  BY <1>1, <1>2, <1>3, <1>5, BackStepKeeps DEF IInv, TypeOK
<1> QED
  BY <1>4, <1>5 DEF RestoreFails

LEMMA AuditRestoreKeeps == ASSUME IInv, AuditRestore PROVE IInv'
<1> DEFINE result == IF back.ok THEN "restored" ELSE "failed"
<1>1. /\ back.at = "audit" /\ Append1(Row(rollbacks, back.plan, Head(back.todo).id, result))
      /\ back' = [back EXCEPT !.at = "publish", !.todo = Tail(@)]
      /\ UNCHANGED <<transport, queueVars, plans, snapVars, recVars, rollbacks>>
  BY DEF AuditRestore, BackRow
<1>2. back \in BackType /\ Fitting(back.todo) /\ back.todo # <<>> /\ rollbacks \in Nat
  BY <1>1 DEF IInv, TypeOK, BackType, SnapshotsFit
<1>3. /\ back.todo \in Seq(Snapshots) /\ Tail(back.todo) \in Seq(Snapshots)
      /\ Head(back.todo) \in Snapshots /\ back.plan \in Nat
      /\ Len(Tail(back.todo)) = Len(back.todo) - 1 /\ Len(back.todo) \in Nat \ {0}
      /\ \A i \in 1..Len(Tail(back.todo)) : Tail(back.todo)[i] = back.todo[i + 1]
  BY <1>2 DEF BackType
<1>4. Fitting(Tail(back.todo))
  BY <1>2, <1>3 DEF Fitting
<1>5. back' \in BackType /\ back'.todo = Tail(back.todo) /\ back'.at = "publish"
  BY <1>1, <1>2, <1>3 DEF BackType
<1>6. rows' \subseteq Rows
  <2>1. Head(back.todo).id \in IDs /\ result \in {"restored", "failed"}
    BY <1>3 DEF Snapshots
  <2> QED
    BY <1>1, <1>2, <1>3, <2>1, RollbackRowType
<1> QED
  BY <1>1, <1>2, <1>4, <1>5, <1>6, BackStepKeeps

\* The rollback returns, or dies.
LEMMA RollbackEndsKeeps ==
  ASSUME IInv, back' = IdleBack, rows' \subseteq Rows,
         UNCHANGED <<transport, queueVars, plans, snapVars, recVars, rollbacks>>
  PROVE  IInv'
<1>1. IdleBack \in BackType /\ IdleBack.at = "idle" /\ Fitting(IdleBack.todo)
  BY DEF IdleBack, BackType, Fitting
<1> QED
  BY <1>1, BackStepKeeps DEF IInv, TypeOK

LEMMA RollbackCompletesKeeps == ASSUME IInv, RollbackCompletes PROVE IInv'
<1>1. Append1(Row(rollbacks, back.plan, None, "completed"))
  BY DEF RollbackCompletes, BackRow
<1>2. rows' \subseteq Rows
  BY <1>1, RollbackRowType DEF IInv, TypeOK
<1> QED
  BY <1>2, RollbackEndsKeeps DEF RollbackCompletes

-----------------------------------------------------------------------------
(* What happens without the tool, and every step together.                 *)

LEMMA RejectKeeps == ASSUME IInv, NEW c \in copies, Reject(c) PROVE IInv'
<1> DEFINE d == [c EXCEPT !.at = "dlq", !.death = c.at, !.last = c.at]
<1>1. c \in Copies /\ c.at \in Destinations /\ (c.mid # None => c.mid.of = c.of)
  BY DEF Reject, IInv, TypeOK, IDsFit
<1>2. d \in Copies /\ d.of = c.of /\ d.mid = c.mid
  BY <1>1 DEF Copies
<1>3. Move(c, d)
  BY DEF Reject
<1> HIDE DEF d
<1> QED
  BY <1>1, <1>2, <1>3, MoveKeeps

LEMMA OtherOperatorKeeps == ASSUME IInv, NEW c \in copies, OtherOperator(c) PROVE IInv'
<1> DEFINE m == [dest |-> Destination(c), xdest |-> c.xdest, last |-> None]
           d == Written(MessageID(c), c.of, m, Destination(c))
<1>1. c \in Copies /\ (c.mid # None => c.mid.of = c.of)
  BY DEF IInv, TypeOK, IDsFit
<1>2. /\ MessageID(c) \in IDs /\ MessageID(c).of = c.of
      /\ Destination(c) \in Destinations
  BY <1>1, IDType DEF OtherOperator
<1>3. m \in [dest : Destinations \cup {None}, xdest : Destinations \cup {None},
             last : Destinations \cup {None}]
  BY <1>1, <1>2 DEF Copies
<1>4. c.of \in Originals /\ next \in Nat
  BY <1>1 DEF Copies, IInv, TypeOK
<1> HIDE DEF m
<1>5. d \in Copies /\ d.of = c.of /\ d.mid \in {MessageID(c), None}
  BY <1>2, <1>3, <1>4, WrittenType
<1>6. Move(c, d)
  BY DEF OtherOperator, m
<1> HIDE DEF d
<1> QED
  BY <1>2, <1>5, <1>6, MoveKeeps

LEMMA DeleteKeeps == ASSUME IInv, DeleteDLQ PROVE IInv'
<1>1. /\ dlqExists' = FALSE
      /\ UNCHANGED <<transport, copies, next, plans, rows, snapVars, rec, runVars,
                     back, rollbacks>>
  BY DEF DeleteDLQ, recVars, backVars
<1>2. TypeOK'
  BY <1>1 DEF IInv, TypeOK
<1>3. KeysBelow' /\ IDsFit' /\ NoLoss'
  BY <1>1 DEF IInv, KeysBelow, IDsFit, NoLoss
<1>4. RecHolds' /\ SnapshotsFit' /\ Paid'
  BY <1>1 DEF IInv, RecHolds, Busy, SnapshotsFit, Paid
<1> QED
  BY <1>2, <1>3, <1>4 DEF IInv

LEMMA StutterKeeps == ASSUME IInv, UNCHANGED vars PROVE IInv'
<1>1. UNCHANGED <<transport, copies, next, dlqExists, plans, rows, snapVars, rec,
                  runVars, back, rollbacks>>
  BY DEF vars, queueVars, recVars, backVars
<1>2. TypeOK'
  BY <1>1 DEF IInv, TypeOK
<1>3. KeysBelow' /\ IDsFit' /\ NoLoss'
  BY <1>1 DEF IInv, KeysBelow, IDsFit, NoLoss
<1>4. RecHolds' /\ SnapshotsFit' /\ Paid'
  BY <1>1 DEF IInv, RecHolds, Busy, SnapshotsFit, Paid
<1> QED
  BY <1>2, <1>3, <1>4 DEF IInv

LEMMA NextIInv == ASSUME IInv, [Next]_vars PROVE IInv'
<1>1. CASE MakePlan
  BY <1>1, MakePlanKeeps
<1>2. CASE RecStep
  <2>1. CASE \E p \in 1..MaxPlans : Recover(p)
    BY <2>1, RecoverKeeps
  <2>2. CASE \E id \in rec.todo : Inspect(id)
    BY <2>2, InspectKeeps
  <2>3. CASE PublishConfirmed
    BY <2>3, PublishKeeps DEF PublishConfirmed
  <2>4. CASE PublishFails
    BY <2>4, PublishFailsKeeps
  <2>5. CASE Ack \/ AckLost
    BY <2>5, AckKeeps
  <2>6. CASE AckFails
    BY <2>6, AckFailsKeeps
  <2>7. CASE SaveSnapshot
    BY <2>7, SaveSnapshotKeeps
  <2>8. CASE AuditSuccess
    BY <2>8, AuditSuccessKeeps
  <2>9. CASE Complete
    BY <2>9, RecoveryEndsKeeps DEF Complete
  <2>10. CASE SnapshotFails
    BY <2>10, SnapshotFailsKeeps
  <2> QED
    BY <1>2, <2>1, <2>2, <2>3, <2>4, <2>5, <2>6, <2>7, <2>8, <2>9, <2>10 DEF RecStep
<1>3. CASE BackStep
  <2>1. CASE \E p \in 1..MaxPlans : Rollback(p)
    BY <2>1, RollbackKeeps
  <2>2. CASE RestoreConfirmed
    BY <2>2, RestoreConfirmedKeeps
  <2>3. CASE RestoreFails
    BY <2>3, RestoreFailsKeeps
  <2>4. CASE AuditRestore
    BY <2>4, AuditRestoreKeeps
  <2>5. CASE RollbackCompletes
    BY <2>5, RollbackCompletesKeeps
  <2> QED
    BY <1>3, <2>1, <2>2, <2>3, <2>4, <2>5 DEF BackStep
<1>4. CASE Elsewhere
  <2>1. CASE CrashRecover
    BY <2>1, RecoveryEndsKeeps DEF CrashRecover
  <2>2. CASE CrashRollback
    BY <2>2, RollbackEndsKeeps DEF CrashRollback, IInv, TypeOK
  <2>3. CASE \E c \in copies : Reject(c) \/ OtherOperator(c)
    BY <2>3, RejectKeeps, OtherOperatorKeeps
  <2>4. CASE DeleteDLQ
    BY <2>4, DeleteKeeps
  <2> QED
    BY <1>4, <2>1, <2>2, <2>3, <2>4 DEF Elsewhere
<1>5. CASE UNCHANGED vars
  BY <1>5, StutterKeeps
<1> QED
  BY <1>1, <1>2, <1>3, <1>4, <1>5 DEF Next

\* The inductive invariant holds.
THEOREM Invariant == Spec => []IInv
<1>1. Init => IInv
  BY InitIInv
<1>2. IInv /\ [Next]_vars => IInv'
  BY NextIInv
<1> QED
  BY <1>1, <1>2, PTL DEF Spec

\* Type correctness of the lifecycle.
THEOREM TypeCorrect == Spec => []TypeOK
<1>1. IInv => TypeOK
  BY DEF IInv
<1> QED
  BY <1>1, Invariant, PTL

\* Whatever crashes, fails, is rejected, restored or published into a queue
\* that is gone: a copy of every message is in the dead-letter queue or at a
\* destination (executor.go:286-313, rollback.go:72).
THEOREM NothingLost == Spec => []NoLoss
<1>1. IInv => NoLoss
  BY DEF IInv
<1> QED
  BY <1>1, Invariant, PTL

-----------------------------------------------------------------------------
(* Where an entry is to be replayed to.                                    *)

\* A step that writes one entry which knows its way, or removes some, leaves
\* all entries knowing theirs.
LEMMA WayKept ==
  ASSUME EntriesKnowTheirWay, transport' = transport, NEW d,
         copies' \subseteq copies \cup {d},
         d.at = "dlq" => Destination(d) = d.last
  PROVE  EntriesKnowTheirWay'
BY DEF EntriesKnowTheirWay, Destination

LEMMA InitWay == ASSUME Init PROVE EntriesKnowTheirWay
BY DEF Init, EntriesKnowTheirWay, Destination

LEMMA NextWay ==
  ASSUME IInv, EntriesKnowTheirWay, [Next]_vars
  PROVE  EntriesKnowTheirWay'
<1>1. CASE UNCHANGED <<transport, copies>>
  BY <1>1 DEF EntriesKnowTheirWay, Destination
<1>2. ASSUME rec.at = "publish", Store(Replay(rec.msg)), transport' = transport
      PROVE  EntriesKnowTheirWay'
  <2> DEFINE r == Replay(rec.msg)
  <2>1. r.at \in Destinations
    BY <1>2, ReplayType DEF IInv, Busy
  <2>2. copies' \subseteq copies \cup {r}
    BY <1>2 DEF Store
  <2> HIDE DEF r
  <2> QED
    BY <1>2, <2>1, <2>2, WayKept
<1>3. CASE Ack \/ AckLost
  <2>1. copies' \subseteq copies /\ transport' = transport
    BY <1>3 DEF Ack, AckLost
  <2> QED
    BY <2>1 DEF EntriesKnowTheirWay, Destination
<1>4. ASSUME Restoring, Store(Restored(Head(back.todo))), transport' = transport
      PROVE  EntriesKnowTheirWay'
  <2> DEFINE s == Head(back.todo)
             r == Restored(s)
  <2>1. s.dest \in Destinations
    BY <1>4, RestoredType DEF IInv, Restoring, Snapshots
  <2>2. Destination(r) = r.last
    BY <2>1 DEF Restored, Written, Destination
  <2>3. copies' \subseteq copies \cup {r}
    BY <1>4 DEF Store
  <2> HIDE DEF r
  <2> QED
    BY <1>4, <2>2, <2>3, WayKept
<1>5. ASSUME NEW c \in copies, Reject(c) PROVE EntriesKnowTheirWay'
  <2> DEFINE e == [[c EXCEPT !.at = "dlq", !.death = c.at, !.last = c.at]
                     EXCEPT !.key = next]
  <2>1. c \in Copies /\ c.at \in Destinations /\ transport' = transport
    BY <1>5 DEF IInv, TypeOK, Reject, Move
  <2>2. e.death = c.at /\ e.last = c.at
    BY <2>1 DEF Copies
  <2>3. Destination(e) = e.last
    BY <2>1, <2>2 DEF Destination
  <2>4. copies' \subseteq copies \cup {e}
    BY <1>5 DEF Reject, Move
  <2> HIDE DEF e
  <2> QED
    BY <2>1, <2>3, <2>4, WayKept
<1>6. ASSUME NEW c \in copies, OtherOperator(c) PROVE EntriesKnowTheirWay'
  <2> DEFINE m == [dest |-> Destination(c), xdest |-> c.xdest, last |-> None]
             d == Written(MessageID(c), c.of, m, Destination(c))
             e == [d EXCEPT !.key = next]
  <2>1. Destination(c) \in Destinations /\ transport' = transport
    BY <1>6, IDType DEF IInv, TypeOK, OtherOperator, Move
  <2>2. e.at = Destination(c)
    BY DEF Written
  <2>3. copies' \subseteq copies \cup {e}
    BY <1>6 DEF OtherOperator, Move
  <2> HIDE DEF e
  <2> QED
    BY <2>1, <2>2, <2>3, WayKept
<1>7. CASE RecStep
  BY <1>1, <1>2, <1>3, <1>7 DEF RecStep, Recover, Inspect, PublishConfirmed,
     PublishFails, AckFails, SaveSnapshot, SnapshotFails, AuditSuccess, Complete, queueVars
<1>8. CASE BackStep
  BY <1>1, <1>4, <1>8 DEF BackStep, Rollback, RestoreConfirmed, RestoreFails,
     AuditRestore, RollbackCompletes, queueVars
<1>9. CASE Elsewhere
  BY <1>1, <1>5, <1>6, <1>9 DEF Elsewhere, CrashRecover, CrashRollback, DeleteDLQ,
     queueVars
<1>10. CASE MakePlan \/ UNCHANGED vars
  BY <1>1, <1>10 DEF MakePlan, vars, queueVars
<1> QED
  BY <1>7, <1>8, <1>9, <1>10 DEF Next

\* A plan built from the queue sends an entry back to where it was last, for
\* any destinations and any number of hops (rabbitmq/mapper.go:20-30,
\* rollback.go:92-97, redisstream/mapper.go:36-55).
THEOREM WayKnown == Spec => []EntriesKnowTheirWay
<1>1. Init => EntriesKnowTheirWay
  BY InitWay
<1>2. IInv /\ EntriesKnowTheirWay /\ [Next]_vars => EntriesKnowTheirWay'
  BY NextWay
<1> QED
  BY <1>1, <1>2, Invariant, PTL DEF Spec

-----------------------------------------------------------------------------
(* On RabbitMQ a message has one ID, wherever the ID is kept.              *)

Known(id) ==
    \/ \E c \in copies : MessageID(c) = id
    \/ \E p \in 1..Len(plans) : id \in plans[p].ids
    \/ id \in rec.todo
    \/ Busy /\ id = rec.id
    \/ \E p \in 1..MaxPlans : \E i \in 1..Len(snapshots[p]) : snapshots[p][i].id = id
    \/ \E i \in 1..Len(back.todo) : back.todo[i].id = id
    \/ \E r \in rows : r.result = "success" /\ r.id = id

OneID == \A i, j \in IDs : Known(i) /\ Known(j) /\ i.of = j.of => i = j

\* What a recovery has yet to replay has no success row, unless it did not
\* see the trail, and its message is the one it inspected.
Blind(id) == <<runs, id>> \in blind
Unreplayed ==
    /\ \A id \in rec.todo : ~Replayed(id) \/ Blind(id)
    /\ Busy => /\ ~Replayed(rec.id) \/ Blind(rec.id)
               /\ rec.id \notin rec.todo
               /\ MessageID(rec.msg) = rec.id

\* Successes are of recoveries that have started, and a later one of the
\* same message is of a recovery that did not see the trail.
Successes == {r \in rows : r.result = "success"}
Once == /\ \A r \in Successes : r.by \in Nat /\ r.by <= runs
        /\ \A r, q \in Successes : /\ r.id.of = q.id.of
                                   /\ r.by < q.by
                                   => <<q.by, q.id>> \in blind

RInv == transport = "rabbitmq" => OneID /\ Unreplayed /\ Once

\* No step makes up an ID.
LEMMA OneIDKept ==
  ASSUME OneID, \A id \in IDs : Known(id)' => Known(id)
  PROVE  OneID'
BY DEF OneID

\* The ID of an entry RabbitMQ writes is the one it was given.
LEMMA WrittenKeepsID ==
  ASSUME transport = "rabbitmq", NEW id \in IDs, NEW of, NEW m, NEW queue
  PROVE  MessageID(Written(id, of, m, queue)) = id
BY NoneIsNoID DEF MessageID, Written

\* A step that writes no success row, and after which the recovery has
\* nothing more to do than before, or is done with its message.
LEMMA RecoverySame ==
  ASSUME Unreplayed, Once, UNCHANGED <<transport, runVars>>,
         \A r \in rows' : r.result = "success" => r \in rows,
         rec'.todo \subseteq rec.todo,
         Busy' => Busy /\ rec'.id = rec.id /\ rec'.msg = rec.msg
  PROVE  Unreplayed' /\ Once'
<1>1. \A id : Replayed(id)' => Replayed(id)
  BY DEF Replayed
<1>2. Once'
  BY DEF Once, Successes
<1>3. \A c : MessageID(c)' = MessageID(c)
  BY DEF MessageID
<1>4. Unreplayed'
  BY <1>1, <1>3 DEF Unreplayed, MessageID, Blind
<1> QED
  BY <1>2, <1>4

LEMMA InitRInv == ASSUME Init PROVE RInv
<1> SUFFICES ASSUME transport = "rabbitmq" PROVE OneID /\ Unreplayed /\ Once
  BY DEF RInv
<1>1. PICK key \in [Originals -> 1..Cardinality(Originals)],
           death \in Destinations, own \in BOOLEAN :
         copies = {[key |-> key[o], of |-> o,
                    mid |-> IF own THEN [of |-> o, key |-> 0, mark |-> "own"] ELSE None,
                    at |-> "dlq", death |-> death, xdest |-> None,
                    last |-> death] : o \in Originals}
  BY DEF Init
<1>2. \A c \in copies : MessageID(c) = [of |-> c.of, key |-> 0,
                                        mark |-> IF own THEN "own" ELSE None]
  <2> SUFFICES ASSUME NEW c \in copies
               PROVE  MessageID(c) = [of |-> c.of, key |-> 0,
                                      mark |-> IF own THEN "own" ELSE None]
    OBVIOUS
  <2>1. PICK o \in Originals :
           c = [key |-> key[o], of |-> o,
                mid |-> IF own THEN [of |-> o, key |-> 0, mark |-> "own"] ELSE None,
                at |-> "dlq", death |-> death, xdest |-> None, last |-> death]
    BY <1>1
  <2>2. own => [of |-> o, key |-> 0, mark |-> "own"] # None
    BY NoneIsNoID DEF IDs
  <2> QED
    BY <2>1, <2>2 DEF MessageID
<1>3. \A id : Known(id) => \E c \in copies : MessageID(c) = id
  BY DEF Init, Known, Busy, IdleRec, IdleBack
<1>4. OneID
  BY <1>2, <1>3 DEF OneID
<1>5. Unreplayed /\ Once
  BY DEF Init, Unreplayed, Once, Successes, Busy, IdleRec
<1> QED
  BY <1>4, <1>5

\* What the steps below start from.
Rabbit == IInv /\ transport = "rabbitmq" /\ OneID /\ Unreplayed /\ Once

LEMMA MakePlanOne == ASSUME Rabbit, MakePlan PROVE OneID' /\ Unreplayed' /\ Once'
<1>1. UNCHANGED <<transport, copies, next, dlqExists, rows, snapVars, rec, runVars,
                  back, rollbacks>>
  BY DEF MakePlan, queueVars, recVars, backVars
<1>2. PICK picked \in SUBSET InDLQ, dest \in Destinations, checked \in BOOLEAN :
         plans' = Append(plans, [ids |-> {MessageID(c) : c \in picked}, dest |-> dest,
                                 checked |-> checked])
  BY DEF MakePlan
<1>3. ASSUME NEW id, \E p \in 1..Len(plans') : id \in plans'[p].ids
      PROVE  \/ \E p \in 1..Len(plans) : id \in plans[p].ids
             \/ \E c \in copies : MessageID(c) = id
  <2> DEFINE new == [ids |-> {MessageID(c) : c \in picked}, dest |-> dest,
                     checked |-> checked]
  <2>1. plans \in Seq(Plans) /\ Len(plans) \in Nat
    BY DEF Rabbit, IInv, TypeOK
  <2>2. PICK p \in 1..Len(plans') : id \in plans'[p].ids
    BY <1>3
  <2>3. /\ Len(plans') = Len(plans) + 1
        /\ \A q \in 1..Len(plans) : plans'[q] = plans[q]
        /\ plans'[Len(plans) + 1] = new
    BY <1>2, <2>1
  <2>4. p \in 1..Len(plans) \/ p = Len(plans) + 1
    BY <2>1, <2>3
  <2>5. id \in new.ids => \E c \in copies : MessageID(c) = id
    BY DEF InDLQ
  <2> QED
    BY <2>2, <2>3, <2>4, <2>5
<1>4. \A id \in IDs : Known(id)' => Known(id)
  BY <1>1, <1>3 DEF Known, Busy, MessageID
<1> QED
  BY <1>1, <1>4, OneIDKept, RecoverySame DEF Rabbit, Busy

LEMMA RecoverOne == ASSUME Rabbit, NEW p, Recover(p) PROVE OneID' /\ Unreplayed' /\ Once'
<1>1. /\ UNCHANGED <<transport, copies, plans, back, rows, snapVars>>
      /\ p \in 1..Len(plans) /\ runs' = runs + 1 /\ runs \in Nat
  BY DEF Recover, queueVars, backVars, Rabbit, IInv, TypeOK
<1>2. PICK resume \in BOOLEAN : \E unread \in Unread(p, resume) :
         /\ rec' = [IdleRec EXCEPT !.at = "next", !.plan = p,
                       !.todo = {id \in plans[p].ids : Attempts(id, unread)}]
         /\ blind' = blind \cup {<<runs + 1, id>> : id \in unread}
  BY DEF Recover
<1>3. PICK unread \in Unread(p, resume) :
         /\ rec' = [IdleRec EXCEPT !.at = "next", !.plan = p,
                       !.todo = {id \in plans[p].ids : Attempts(id, unread)}]
         /\ blind' = blind \cup {<<runs + 1, id>> : id \in unread}
  BY <1>2
<1>4. rec'.at = "next" /\ rec'.todo = {id \in plans[p].ids : Attempts(id, unread)}
  BY <1>3 DEF IdleRec
<1>5. \A id \in rec'.todo : id \in plans[p].ids /\ (id \in unread \/ ~Replayed(id))
  BY <1>4 DEF Attempts
<1>6. \A id \in unread : <<runs', id>> \in blind'
  BY <1>1, <1>3
<1>7. blind \subseteq blind'
  BY <1>3
<1>8. \A id \in IDs : Known(id)' => Known(id)
  BY <1>1, <1>4, <1>5 DEF Known, Busy, MessageID
<1>9. Unreplayed'
  BY <1>1, <1>4, <1>5, <1>6 DEF Unreplayed, Busy, Replayed, Blind
<1>10. Once'
  BY <1>1, <1>7 DEF Rabbit, Once, Successes
<1> QED
  BY <1>8, <1>9, <1>10, OneIDKept DEF Rabbit

LEMMA InspectOne ==
  ASSUME Rabbit, NEW id \in rec.todo, Inspect(id)
  PROVE  OneID' /\ Unreplayed' /\ Once'
<1>1. UNCHANGED <<transport, copies, plans, back, rows, snapVars, runVars>>
  BY DEF Inspect, queueVars, backVars
<1>2. rec \in RecType /\ rec.at = "next"
  BY DEF Rabbit, IInv, TypeOK, RecType, Inspect
<1>3. ASSUME NEW c \in First(id),
             rec' = [rec EXCEPT !.at = "publish", !.todo = @ \ {id},
                                !.id = id, !.msg = c]
      PROVE  OneID' /\ Unreplayed' /\ Once'
  <2>1. /\ rec'.at = "publish" /\ rec'.todo = rec.todo \ {id}
        /\ rec'.id = id /\ rec'.msg = c /\ MessageID(c) = id
    BY <1>2, <1>3 DEF RecType, First, With
  <2>2. \A i \in IDs : Known(i)' => Known(i)
    BY <1>1, <2>1 DEF Known, Busy, MessageID
  <2>3. Unreplayed' /\ Once'
    BY <1>1, <2>1 DEF Rabbit, Unreplayed, Once, Successes, Busy, Replayed, MessageID, Blind
  <2> QED
    BY <2>2, <2>3, OneIDKept DEF Rabbit
<1>4. ASSUME rec' = [rec EXCEPT !.todo = @ \ {id}]
      PROVE  OneID' /\ Unreplayed' /\ Once'
  <2>1. rec'.at = "next" /\ rec'.todo = rec.todo \ {id}
    BY <1>2, <1>4 DEF RecType
  <2>2. ~Busy /\ ~Busy'
    BY <1>2, <2>1 DEF Busy
  <2>3. \A i \in IDs : Known(i)' => Known(i)
    BY <1>1, <2>1, <2>2 DEF Known, MessageID
  <2> QED
    BY <1>1, <2>1, <2>2, <2>3, OneIDKept, RecoverySame DEF Rabbit
<1> QED
  BY <1>3, <1>4 DEF Inspect

\* A step of the recovery that may store the message at the destination.
LEMMA PublishOne ==
  ASSUME Rabbit, rec.at = "publish",
         UNCHANGED queueVars \/ Store(Replay(rec.msg)),
         UNCHANGED <<transport, plans, snapVars, rows, runVars, backVars>>,
         \/ rec' = rec
         \/ rec' = [rec EXCEPT !.at = "ack"]
         \/ Done
  PROVE  OneID' /\ Unreplayed' /\ Once'
<1> DEFINE r == Replay(rec.msg)
<1>1. /\ rec' \in RecType /\ rec'.todo = rec.todo
      /\ \/ rec'.at \in {"publish", "ack"} /\ rec'.id = rec.id /\ rec'.msg = rec.msg
         \/ rec'.at = "next"
  BY RecMoves DEF Rabbit, IInv, TypeOK, RecType, Stages
<1>2. Busy' => Busy /\ rec'.id = rec.id /\ rec'.msg = rec.msg
  BY <1>1 DEF Busy
<1>3. Busy /\ rec.id \in IDs /\ MessageID(rec.msg) = rec.id
  BY DEF Rabbit, Unreplayed, Busy, IInv, RecHolds
<1>4. MessageID(r) = rec.id
  BY <1>3, WrittenKeepsID DEF Rabbit, Replay
<1> HIDE DEF r
<1>5. copies' \subseteq copies \cup {r}
  BY DEF Store, r, queueVars
<1>6. \A id \in IDs : Known(id)' => Known(id)
  BY <1>1, <1>2, <1>3, <1>4, <1>5 DEF Known, MessageID, backVars
<1> QED
  BY <1>1, <1>2, <1>6, OneIDKept, RecoverySame DEF Rabbit

\* A step of the recovery that only moves on, or ends.
LEMMA RecMoveOne ==
  ASSUME Rabbit, UNCHANGED <<transport, plans, snapVars, rows, back, runVars>>,
         copies' \subseteq copies,
         rec'.todo \subseteq rec.todo,
         Busy' => Busy /\ rec'.id = rec.id /\ rec'.msg = rec.msg
  PROVE  OneID' /\ Unreplayed' /\ Once'
<1>1. \A id \in IDs : Known(id)' => Known(id)
  BY DEF Known, MessageID
<1> QED
  BY <1>1, OneIDKept, RecoverySame DEF Rabbit

LEMMA SaveSnapshotOne ==
  ASSUME Rabbit, SaveSnapshot PROVE OneID' /\ Unreplayed' /\ Once'
<1>1. /\ rec.at = "snapshot" /\ rec' = [rec EXCEPT !.at = "audit"]
      /\ UNCHANGED <<transport, copies, plans, rows, back, runVars>>
      /\ snapshots' = [snapshots EXCEPT ![rec.plan] = Append(@, TheSnapshot)]
  BY DEF SaveSnapshot, queueVars, backVars
<1>2. /\ rec'.at = "audit" /\ rec'.id = rec.id /\ rec'.msg = rec.msg
      /\ rec'.todo = rec.todo
  BY <1>1, RecMoves DEF Rabbit, Stages
<1>3. Busy /\ Busy'
  BY <1>1, <1>2 DEF Busy
<1>4. ASSUME NEW id, NEW p \in 1..MaxPlans, NEW i \in 1..Len(snapshots'[p]),
             snapshots'[p][i].id = id
      PROVE  \/ id = rec.id
             \/ \E j \in 1..Len(snapshots[p]) : snapshots[p][j].id = id
  <2>1. snapshots[p] \in Seq(Snapshots) /\ Len(snapshots[p]) \in Nat
    BY DEF Rabbit, IInv, TypeOK
  <2>2. CASE snapshots'[p] = Append(snapshots[p], TheSnapshot)
    <3>1. /\ Len(snapshots'[p]) = Len(snapshots[p]) + 1
          /\ \A j \in 1..Len(snapshots[p]) : snapshots'[p][j] = snapshots[p][j]
          /\ snapshots'[p][Len(snapshots[p]) + 1] = TheSnapshot
      BY <2>1, <2>2
    <3>2. i \in 1..Len(snapshots[p]) \/ i = Len(snapshots[p]) + 1
      BY <2>1, <3>1
    <3>3. TheSnapshot.id = rec.id
      BY DEF TheSnapshot
    <3> QED
      BY <1>4, <3>1, <3>2, <3>3
  <2>3. CASE snapshots'[p] = snapshots[p]
    BY <1>4, <2>3
  <2> QED
    BY <1>1, <2>2, <2>3 DEF Rabbit, IInv, TypeOK
<1>5. ASSUME NEW id \in IDs, Known(id)' PROVE Known(id)
  <2>1. CASE \E p \in 1..MaxPlans : \E i \in 1..Len(snapshots'[p]) :
               snapshots'[p][i].id = id
    <3>1. \/ id = rec.id
          \/ \E p \in 1..MaxPlans : \E i \in 1..Len(snapshots[p]) : snapshots[p][i].id = id
      BY <1>4, <2>1
    <3> QED
      BY <1>3, <3>1 DEF Known
  <2>2. CASE ~\E p \in 1..MaxPlans : \E i \in 1..Len(snapshots'[p]) :
                snapshots'[p][i].id = id
    BY <1>1, <1>2, <1>3, <1>5, <2>2 DEF Known, MessageID
  <2> QED
    BY <2>1, <2>2
<1> QED
  BY <1>1, <1>2, <1>3, <1>5, OneIDKept, RecoverySame DEF Rabbit

LEMMA SnapshotFailsOne ==
  ASSUME Rabbit, SnapshotFails PROVE OneID' /\ Unreplayed' /\ Once'
<1>1. /\ rec.at = "snapshot" /\ rec' = [rec EXCEPT !.at = "audit"]
      /\ UNCHANGED <<transport, copies, plans, rows, back, snapshots, runVars>>
  BY DEF SnapshotFails, queueVars, backVars
<1>2. /\ rec'.at = "audit" /\ rec'.id = rec.id /\ rec'.msg = rec.msg
      /\ rec'.todo = rec.todo
  BY <1>1, RecMoves DEF Rabbit, Stages
<1>3. Busy /\ Busy'
  BY <1>1, <1>2 DEF Busy
<1>4. \A id \in IDs : Known(id)' => Known(id)
  BY <1>1, <1>2, <1>3 DEF Known, MessageID
<1> QED
  BY <1>1, <1>2, <1>3, <1>4, OneIDKept, RecoverySame DEF Rabbit

\* The success row of a recovery is the first of its message, or the
\* recovery did not see the others.
LEMMA AuditSuccessOne ==
  ASSUME Rabbit, AuditSuccess PROVE OneID' /\ Unreplayed' /\ Once'
<1> DEFINE row == Row(runs, rec.plan, rec.id, "success")
<1>1. /\ rec.at = "audit" /\ Done /\ (rows' = rows \cup {row} \/ rows' = rows)
      /\ UNCHANGED <<transport, copies, plans, snapVars, back, runVars>>
  BY DEF AuditSuccess, Append1, queueVars, backVars
<1>2. rec'.at = "next" /\ rec'.todo = rec.todo
  BY <1>1, RecMoves DEF Rabbit
<1>3. Busy /\ ~Busy' /\ rec.id \in IDs /\ runs \in Nat
  BY <1>1, <1>2 DEF Busy, Rabbit, IInv, TypeOK, RecHolds
<1>4. row.id = rec.id /\ row.result = "success" /\ row.by = runs
  BY DEF Row
<1>5. \A r \in rows : r.result = "success" => r.id \in IDs
  BY DEF Rabbit, IInv, TypeOK, Rows
<1> HIDE DEF row
<1>6. \A id \in IDs : Known(id)' => Known(id)
  BY <1>1, <1>2, <1>3, <1>4 DEF Known, MessageID
<1>7. \A r \in Successes : r.id.of = rec.id.of => Blind(rec.id)
  <2> SUFFICES ASSUME NEW r \in rows, r.result = "success", r.id.of = rec.id.of
               PROVE  Blind(rec.id)
    BY DEF Successes
  <2>1. Known(r.id) /\ Known(rec.id)
    BY <1>3 DEF Known
  <2>2. r.id = rec.id
    BY <1>3, <1>5, <2>1 DEF Rabbit, OneID
  <2> QED
    BY <1>3, <2>2 DEF Rabbit, Unreplayed, Replayed
<1>8. Once'
  <2>1. Successes' \subseteq Successes \cup {row}
    BY <1>1 DEF Successes
  <2>2. \A r \in Successes : r.by \in Nat /\ r.by <= runs
    BY DEF Rabbit, Once
  <2>3. ASSUME NEW r \in Successes', NEW q \in Successes', r.id.of = q.id.of, r.by < q.by
        PROVE  <<q.by, q.id>> \in blind
    <3>1. CASE r \in Successes /\ q \in Successes
      BY <2>3, <3>1 DEF Rabbit, Once
    <3>2. CASE r \in Successes /\ q = row
      BY <1>4, <1>7, <2>3, <3>2 DEF Blind
    <3>3. r # row
      BY <1>3, <1>4, <2>1, <2>2, <2>3
    <3> QED
      BY <2>1, <3>1, <3>2, <3>3
  <2> QED
    BY <1>1, <1>3, <1>4, <2>1, <2>2, <2>3 DEF Once
<1>9. Unreplayed'
  <2>1. \A id \in rec.todo : id # rec.id /\ (~Replayed(id) \/ Blind(id))
    BY <1>3 DEF Rabbit, Unreplayed
  <2> QED
    BY <1>1, <1>2, <1>3, <1>4, <2>1 DEF Unreplayed, Replayed, Blind
<1> QED
  BY <1>6, <1>8, <1>9, OneIDKept DEF Rabbit

\* A step that is not the recovery's: what it writes carries an ID that was
\* there, and it writes no success row.
LEMMA OthersOne ==
  ASSUME Rabbit, UNCHANGED <<transport, plans, snapVars, recVars>>,
         \A c \in copies' : c \in copies \/ Known(MessageID(c)),
         \A r \in rows' : r.result = "success" => r \in rows,
         \A i \in 1..Len(back'.todo) : Known(back'.todo[i].id)
  PROVE  OneID' /\ Unreplayed' /\ Once'
<1>1. \A c \in copies' : Known(MessageID(c))
  BY DEF Known
<1>2. \A id \in IDs : Known(id)' => Known(id)
  <2> SUFFICES ASSUME NEW id \in IDs, Known(id)' PROVE Known(id)
    OBVIOUS
  <2>1. CASE \E c \in copies' : MessageID(c) = id
    BY <1>1, <2>1
  <2>2. CASE \E i \in 1..Len(back'.todo) : back'.todo[i].id = id
    BY <2>2
  <2>3. CASE /\ ~\E c \in copies' : MessageID(c) = id
             /\ ~\E i \in 1..Len(back'.todo) : back'.todo[i].id = id
    BY <2>3 DEF Known, Busy, MessageID, recVars
  <2> QED
    BY <2>1, <2>2, <2>3
<1> QED
  BY <1>2, OneIDKept, RecoverySame DEF Rabbit, Busy, recVars

\* What a rollback has yet to restore is known, and stays so as it goes on.
LEMMA TodoKnown ==
  ASSUME Rabbit
  PROVE  /\ \A i \in 1..Len(back.todo) : Known(back.todo[i].id)
         /\ back.todo # <<>> =>
              /\ Head(back.todo).id \in IDs /\ Known(Head(back.todo).id)
              /\ \A i \in 1..Len(Tail(back.todo)) : Known(Tail(back.todo)[i].id)
         /\ \A p \in 1..MaxPlans : \A i \in 1..Len(snapshots[p]) :
              Known(snapshots[p][i].id)
<1>1. back.todo \in Seq(Snapshots)
  BY DEF Rabbit, IInv, TypeOK
<1>2. \A i \in 1..Len(back.todo) : Known(back.todo[i].id)
  BY DEF Known
<1>3. ASSUME back.todo # <<>>
      PROVE  /\ Head(back.todo).id \in IDs /\ Known(Head(back.todo).id)
             /\ \A i \in 1..Len(Tail(back.todo)) : Known(Tail(back.todo)[i].id)
  <2>1. /\ Len(back.todo) \in Nat \ {0}
        /\ Head(back.todo) = back.todo[1] /\ back.todo[1] \in Snapshots
        /\ Len(Tail(back.todo)) = Len(back.todo) - 1
        /\ \A i \in 1..Len(Tail(back.todo)) : Tail(back.todo)[i] = back.todo[i + 1]
    BY <1>1, <1>3
  <2>2. 1 \in 1..Len(back.todo)
        /\ \A i \in 1..Len(Tail(back.todo)) : i + 1 \in 1..Len(back.todo)
    BY <2>1
  <2> QED
    BY <1>2, <2>1, <2>2 DEF Snapshots
<1>4. \A p \in 1..MaxPlans : \A i \in 1..Len(snapshots[p]) : Known(snapshots[p][i].id)
  BY DEF Known
<1> QED
  BY <1>2, <1>3, <1>4

LEMMA RollbackOne ==
  ASSUME Rabbit, NEW p \in 1..MaxPlans, Rollback(p)
  PROVE  OneID' /\ Unreplayed' /\ Once'
<1>1. /\ UNCHANGED <<transport, copies, plans, snapVars, recVars>>
      /\ back'.todo = back.todo \/ back'.todo = snapshots[p]
  BY DEF Rollback, queueVars, recVars, IdleBack
<1>2. \A r \in rows' : r.result = "success" => r \in rows
  BY DEF Rollback, Append1, Row
<1> QED
  BY <1>1, <1>2, TodoKnown, OthersOne

\* A restored entry keeps the ID of the snapshot.
LEMMA RestoreOne ==
  ASSUME Rabbit, RestoreConfirmed \/ RestoreFails
  PROVE  OneID' /\ Unreplayed' /\ Once'
<1> DEFINE r == Restored(Head(back.todo))
<1>1. /\ UNCHANGED <<transport, plans, snapVars, recVars, rows>>
      /\ back.todo # <<>>
  BY DEF RestoreConfirmed, RestoreFails, Restoring, recVars
<1>2. back'.todo = back.todo
  BY DEF RestoreConfirmed, RestoreFails, Rabbit, IInv, TypeOK
<1>3. Known(MessageID(r))
  BY <1>1, TodoKnown, WrittenKeepsID DEF Rabbit, Restored
<1>4. \A c \in copies' : c \in copies \/ c = r
  BY DEF RestoreConfirmed, RestoreFails, Store, queueVars
<1> HIDE DEF r
<1> QED
  BY <1>1, <1>2, <1>3, <1>4, TodoKnown, OthersOne

LEMMA AuditRestoreOne ==
  ASSUME Rabbit, AuditRestore PROVE OneID' /\ Unreplayed' /\ Once'
<1>1. /\ UNCHANGED <<transport, copies, plans, snapVars, recVars>>
      /\ back.todo # <<>> /\ back'.todo = Tail(back.todo)
  BY DEF AuditRestore, queueVars, recVars, Rabbit, IInv, TypeOK, SnapshotsFit
<1>2. \A r \in rows' : r.result = "success" => r \in rows
  BY DEF AuditRestore, Append1, BackRow, Row
<1> QED
  BY <1>1, <1>2, TodoKnown, OthersOne

LEMMA RollbackEndsOne ==
  ASSUME Rabbit, RollbackCompletes \/ CrashRollback
  PROVE  OneID' /\ Unreplayed' /\ Once'
<1>1. /\ UNCHANGED <<transport, copies, plans, snapVars, recVars>>
      /\ back'.todo = <<>>
  BY DEF RollbackCompletes, CrashRollback, queueVars, recVars, IdleBack
<1>2. \A r \in rows' : r.result = "success" => r \in rows
  BY DEF RollbackCompletes, CrashRollback, Append1, BackRow, Row
<1> QED
  BY <1>1, <1>2, OthersOne

\* A rejected copy keeps its message ID and its x-destination header, and
\* somebody else's replay sends the ID along.
LEMMA MoveOne ==
  ASSUME Rabbit, NEW c \in copies, Reject(c) \/ OtherOperator(c)
  PROVE  OneID' /\ Unreplayed' /\ Once'
<1>1. UNCHANGED <<transport, plans, snapVars, recVars, rows, back>>
  BY DEF Reject, OtherOperator, Move, recVars, backVars
<1>2. c \in Copies /\ MessageID(c) \in IDs /\ Known(MessageID(c))
  BY IDType DEF Rabbit, IInv, TypeOK, Known
<1>3. ASSUME Reject(c), NEW d \in copies' PROVE d \in copies \/ Known(MessageID(d))
  <2> DEFINE e == [[c EXCEPT !.at = "dlq", !.death = c.at, !.last = c.at]
                     EXCEPT !.key = next]
  <2>1. e.mid = c.mid /\ e.of = c.of /\ e.xdest = c.xdest
    BY <1>2 DEF Copies
  <2>2. MessageID(e) = MessageID(c)
    BY <2>1 DEF MessageID, Rabbit
  <2>3. d \in copies \/ d = e
    BY <1>3 DEF Reject, Move
  <2> QED
    BY <1>2, <2>2, <2>3
<1>4. ASSUME OtherOperator(c), NEW d \in copies' PROVE d \in copies \/ Known(MessageID(d))
  <2> DEFINE w == Written(MessageID(c), c.of,
                          [dest |-> Destination(c), xdest |-> c.xdest, last |-> None],
                          Destination(c))
             e == [w EXCEPT !.key = next]
  <2>1. e.mid = MessageID(c)
    BY DEF Written, Rabbit
  <2>2. MessageID(e) = MessageID(c)
    BY <1>2, <2>1, NoneIsNoID DEF MessageID, Rabbit
  <2>3. d \in copies \/ d = e
    BY <1>4 DEF OtherOperator, Move
  <2> QED
    BY <1>2, <2>2, <2>3
<1>5. \A d \in copies' : d \in copies \/ Known(MessageID(d))
  BY <1>3, <1>4
<1> QED
  BY <1>1, <1>5, TodoKnown, OthersOne

LEMMA NextRInv == ASSUME IInv, RInv, [Next]_vars PROVE RInv'
<1> SUFFICES ASSUME transport' = "rabbitmq" PROVE OneID' /\ Unreplayed' /\ Once'
  BY DEF RInv
<1>1. transport' = transport
  <2>1. CASE RecStep
    BY <2>1 DEF RecStep, Recover, Inspect, PublishConfirmed, PublishFails, Ack,
       AckFails, AckLost, SaveSnapshot, SnapshotFails, AuditSuccess, Complete
  <2>2. CASE BackStep
    BY <2>2 DEF BackStep, Rollback, RestoreConfirmed, RestoreFails, AuditRestore,
       RollbackCompletes
  <2>3. CASE Elsewhere
    BY <2>3 DEF Elsewhere, CrashRecover, CrashRollback, Reject, OtherOperator, Move,
       DeleteDLQ
  <2>4. CASE MakePlan \/ UNCHANGED vars
    BY <2>4 DEF MakePlan, vars
  <2> QED
    BY <2>1, <2>2, <2>3, <2>4 DEF Next
<1>2. Rabbit
  BY <1>1 DEF Rabbit, RInv
<1>3. CASE PublishConfirmed
  BY <1>2, <1>3, PublishOne DEF PublishConfirmed
<1>4. CASE PublishFails
  BY <1>2, <1>4, PublishOne DEF PublishFails
<1>5. CASE Ack
  <2>1. rec.at = "ack" /\ rec' = [rec EXCEPT !.at = "snapshot"] /\ "snapshot" \in Stages
    BY <1>5 DEF Ack, Stages
  <2>2. rec'.id = rec.id /\ rec'.msg = rec.msg /\ rec'.todo = rec.todo
    BY <1>2, <2>1, RecMoves DEF Rabbit
  <2> QED
    BY <1>2, <1>5, <2>1, <2>2, RecMoveOne DEF Ack, backVars, Busy
<1>6. CASE AckFails \/ AckLost
  <2>1. rec'.at = "next" /\ rec'.todo = rec.todo
    BY <1>2, <1>6, RecMoves DEF Rabbit, AckFails, AckLost
  <2> QED
    BY <1>2, <1>6, <2>1, RecMoveOne DEF AckFails, AckLost, backVars, queueVars, Busy
<1>7. CASE Complete \/ CrashRecover
  BY <1>2, <1>7, RecMoveOne DEF Complete, CrashRecover, IdleRec, backVars, queueVars, Busy
<1>8. CASE RecStep
  BY <1>2, <1>3, <1>4, <1>5, <1>6, <1>7, <1>8, RecoverOne, InspectOne,
     SaveSnapshotOne, SnapshotFailsOne, AuditSuccessOne DEF RecStep
<1>9. CASE BackStep
  BY <1>2, <1>9, RollbackOne, RestoreOne, AuditRestoreOne, RollbackEndsOne DEF BackStep
<1>10. CASE DeleteDLQ \/ UNCHANGED vars
  <2>1. UNCHANGED <<transport, copies, plans, snapVars, recVars, rows, back>>
    BY <1>10 DEF DeleteDLQ, vars, queueVars, recVars, backVars
  <2> QED
    BY <1>2, <2>1, TodoKnown, OthersOne
<1>11. CASE Elsewhere
  BY <1>2, <1>7, <1>10, <1>11, RollbackEndsOne, MoveOne DEF Elsewhere
<1> QED
  BY <1>2, <1>8, <1>9, <1>10, <1>11, MakePlanOne DEF Next

\* On RabbitMQ a recovery does not replay what the audit table shows an
\* earlier one replayed, unless it did not ask or could not read, for any
\* number of plans, recoveries and rollbacks one after another: neither a
\* rejection nor a restoration changes the ID the evidence goes by
\* (dedupe.go:36, rabbitmq/mapper.go:65).
THEOREM EvidenceFollows == Spec => []RecoveredOnce
<1>1. Init => RInv
  BY InitRInv
<1>2. IInv /\ RInv /\ [Next]_vars => RInv'
  BY NextRInv
<1>3. RInv => RecoveredOnce
  BY DEF RInv, RecoveredOnce, Once, Successes
<1> QED
  BY <1>1, <1>2, <1>3, Invariant, PTL DEF Spec

-----------------------------------------------------------------------------
(* A rollback without a failure reverses its plan.                         *)

\* The snapshots of a plan have one of message o.
Holds(seq, o) == \E i \in 1..Len(seq) : seq[i].of = o

\* Behind every success there is a snapshot of the plan it belongs to, or
\* one the store dropped.
Behind(p, o) == Holds(snapshots[p], o) \/ <<p, o>> \in unsaved
Backed ==
    /\ \A r \in rows : r.result = "success" =>
          r.plan \in 1..MaxPlans /\ Behind(r.plan, r.id.of)
    /\ rec.at = "audit" => Behind(rec.plan, rec.id.of)

\* A publish to the dead-letter queue is dropped.
Gone == transport = "rabbitmq" /\ ~dlqExists

\* The rollback still has to put message o back.
Left(o) == \E i \in 1..Len(back.todo) : /\ back.at = "audit" => i > 1
                                        /\ back.todo[i].of = o
Owing == back.at # "idle" /\ ~back.failed /\ ~Gone =>
            \A o \in back.due : \/ o \in back.put \/ Left(o)
                               \/ <<back.plan, o>> \in unsaved

\* A queue that is gone on RabbitMQ stays gone.
LEMMA GoneStays == ASSUME [Next]_vars, Gone PROVE Gone'
<1>1. ASSUME NEW c, Store(c) PROVE ~dlqExists'
  BY <1>1 DEF Store, Gone
<1>2. CASE RecStep
  <2>1. CASE PublishConfirmed \/ PublishFails
    <3>1. transport' = transport
      BY <2>1 DEF PublishConfirmed, PublishFails
    <3>2. Store(Replay(rec.msg)) \/ UNCHANGED queueVars
      BY <2>1 DEF PublishConfirmed, PublishFails
    <3> QED
      BY <1>1, <3>1, <3>2 DEF Gone, queueVars
  <2>2. CASE ~(PublishConfirmed \/ PublishFails)
    <3>1. UNCHANGED <<transport, dlqExists>>
      BY <1>2, <2>2 DEF RecStep, Recover, Inspect, Ack, AckFails, AckLost, SaveSnapshot,
         SnapshotFails, AuditSuccess, Complete, queueVars
    <3> QED
      BY <3>1 DEF Gone
  <2> QED
    BY <2>1, <2>2
<1>3. CASE BackStep
  <2>1. CASE RestoreConfirmed \/ RestoreFails
    <3>1. transport' = transport
      BY <2>1 DEF RestoreConfirmed, RestoreFails
    <3>2. Store(Restored(Head(back.todo))) \/ UNCHANGED queueVars
      BY <2>1 DEF RestoreConfirmed, RestoreFails
    <3> QED
      BY <1>1, <3>1, <3>2 DEF Gone, queueVars
  <2> QED
    BY <1>3, <2>1 DEF BackStep, Rollback, AuditRestore, RollbackCompletes, Gone, queueVars
<1>4. CASE MakePlan \/ Elsewhere \/ UNCHANGED vars
  <2>1. transport' = transport /\ (dlqExists' = dlqExists \/ dlqExists' = FALSE)
    BY <1>4 DEF MakePlan, Elsewhere, CrashRecover, CrashRollback, Reject, OtherOperator,
       Move, DeleteDLQ, vars, queueVars
  <2> QED
    BY <2>1 DEF Gone
<1> QED
  BY <1>2, <1>3, <1>4 DEF Next

\* Steps that write no success and begin none.
LEMMA BackedKept ==
  ASSUME Backed, UNCHANGED snapVars,
         \A r \in rows' : r \in rows \/ r.result # "success",
         rec'.at = "audit" => rec' = rec
  PROVE  Backed'
BY DEF Backed, Behind

LEMMA RowsOfRollback ==
  ASSUME NEW run, NEW plan, NEW id, NEW res, res # "success", Append1(Row(run, plan, id, res))
  PROVE  \A r \in rows' : r \in rows \/ r.result # "success"
BY DEF Append1, Row

LEMMA SnapshotBacked == ASSUME IInv, Backed, SaveSnapshot PROVE Backed'
<1>1. /\ rec.at = "snapshot" /\ rec' = [rec EXCEPT !.at = "audit"] /\ rows' = rows
      /\ unsaved' = unsaved /\ snapshots' = [snapshots EXCEPT ![rec.plan] = Append(@, TheSnapshot)]
  BY DEF SaveSnapshot
<1>2. rec'.plan = rec.plan /\ rec'.id = rec.id
  BY <1>1, RecMoves DEF Stages
<1>3. /\ rec.plan \in 1..MaxPlans /\ TheSnapshot.of = rec.id.of
      /\ snapshots \in [1..MaxPlans -> Seq(Snapshots)]
  BY <1>1 DEF IInv, TypeOK, RecHolds, Busy, TheSnapshot
<1>4. ASSUME NEW p \in 1..MaxPlans, NEW o, Holds(snapshots[p], o) PROVE Holds(snapshots'[p], o)
  <2>1. PICK i \in 1..Len(snapshots[p]) : snapshots[p][i].of = o
    BY <1>4 DEF Holds
  <2>2. CASE p = rec.plan
    <3> DEFINE s == snapshots[p]
    <3>1. s \in Seq(Snapshots) /\ snapshots'[p] = Append(s, TheSnapshot)
      BY <1>1, <1>3, <2>2
    <3>2. /\ Len(Append(s, TheSnapshot)) = Len(s) + 1 /\ Len(s) \in Nat
          /\ Append(s, TheSnapshot)[i] = s[i]
      BY <2>1, <3>1
    <3> QED
      BY <2>1, <3>1, <3>2 DEF Holds
  <2>3. CASE p # rec.plan
    BY <1>1, <1>3, <1>4, <2>3
  <2> QED
    BY <2>2, <2>3
<1>5. Holds(snapshots'[rec.plan], rec.id.of)
  <2> DEFINE s == snapshots[rec.plan]
  <2>1. s \in Seq(Snapshots) /\ snapshots'[rec.plan] = Append(s, TheSnapshot)
    BY <1>1, <1>3
  <2> HIDE DEF s
  <2>2. /\ Len(Append(s, TheSnapshot)) = Len(s) + 1 /\ Len(s) \in Nat
        /\ Append(s, TheSnapshot)[Len(s) + 1] = TheSnapshot
        /\ Len(s) + 1 \in 1..Len(Append(s, TheSnapshot))
    BY <2>1
  <2> QED
    BY <1>3, <2>1, <2>2 DEF Holds
<1> QED
  BY <1>1, <1>2, <1>4, <1>5 DEF Backed, Behind

LEMMA NoSnapshotBacked == ASSUME IInv, Backed, SnapshotFails PROVE Backed'
<1>1. /\ rec.at = "snapshot" /\ rec' = [rec EXCEPT !.at = "audit"] /\ rows' = rows
      /\ unsaved' = unsaved \cup {<<rec.plan, rec.msg.of>>} /\ snapshots' = snapshots
  BY DEF SnapshotFails
<1>2. rec'.plan = rec.plan /\ rec'.id = rec.id
  BY <1>1, RecMoves DEF Stages
<1>3. rec.msg.of = rec.id.of
  BY <1>1 DEF IInv, RecHolds, Busy
<1> QED
  BY <1>1, <1>2, <1>3 DEF Backed, Behind

LEMMA SuccessBacked == ASSUME IInv, Backed, AuditSuccess PROVE Backed'
<1>1. /\ rec.at = "audit" /\ Done /\ UNCHANGED snapVars
      /\ rows' \subseteq rows \cup {Row(runs, rec.plan, rec.id, "success")}
  BY DEF AuditSuccess, Append1
<1>2. rec.plan \in 1..MaxPlans /\ rec'.at = "next"
  <2>1. rec.plan \in 1..Len(plans) /\ Len(plans) \in Nat /\ Len(plans) <= MaxPlans
    BY <1>1 DEF IInv, TypeOK, RecHolds
  <2> QED
    BY <1>1, <2>1, RecMoves
<1> QED
  BY <1>1, <1>2 DEF Backed, Behind, Row

LEMMA NextBacked == ASSUME IInv, Backed, [Next]_vars PROVE Backed'
<1>1. CASE RecStep
  <2>1. CASE SaveSnapshot \/ SnapshotFails \/ AuditSuccess
    BY <2>1, SnapshotBacked, NoSnapshotBacked, SuccessBacked
  <2>2. CASE ~(SaveSnapshot \/ SnapshotFails \/ AuditSuccess)
    <3>1. UNCHANGED <<rows, snapVars>>
      BY <1>1, <2>2 DEF RecStep, Recover, Inspect, PublishConfirmed, PublishFails, Ack,
         AckFails, AckLost, Complete
    <3>2. rec'.at # "audit" \/ rec' = rec
      <4> USE DEF IInv, TypeOK
      <4>1. CASE (\E p \in 1..MaxPlans : Recover(p)) \/ Complete
        <5>1. \A p, t : [IdleRec EXCEPT !.at = "next", !.plan = p, !.todo = t].at = "next"
          BY DEF IdleRec
        <5>2. CASE Complete
          BY <5>2 DEF Complete, IdleRec
        <5>3. CASE \E p \in 1..MaxPlans : Recover(p)
          BY <5>1, <5>3, Zenon DEF Recover
        <5> QED
          BY <4>1, <5>2, <5>3
      <4>2. CASE \E id \in rec.todo : Inspect(id)
        BY <4>2 DEF Inspect
      <4>3. CASE PublishConfirmed \/ Ack \/ AckFails \/ AckLost
        BY <4>3 DEF PublishConfirmed, Ack, AckFails, AckLost, Done
      <4>4. CASE PublishFails
        BY <4>4 DEF PublishFails, Done
      <4> QED
        BY <1>1, <2>2, <4>1, <4>2, <4>3, <4>4 DEF RecStep
    <3> QED
      BY <3>1, <3>2, BackedKept
  <2> QED
    BY <2>1, <2>2
<1>2. CASE BackStep
  <2>1. UNCHANGED <<snapVars, rec>>
    BY <1>2 DEF BackStep, Rollback, RestoreConfirmed, RestoreFails, AuditRestore,
       RollbackCompletes, recVars
  <2>2. \A r \in rows' : r \in rows \/ r.result # "success"
    <3>1. CASE RestoreConfirmed \/ RestoreFails
      BY <3>1 DEF RestoreConfirmed, RestoreFails
    <3>2. CASE \E p \in 1..MaxPlans : Rollback(p)
      BY <3>2, RowsOfRollback DEF Rollback
    <3>3. CASE AuditRestore \/ RollbackCompletes
      BY <3>3, RowsOfRollback DEF AuditRestore, RollbackCompletes, BackRow
    <3> QED
      BY <1>2, <3>1, <3>2, <3>3 DEF BackStep
  <2> QED
    BY <2>1, <2>2, BackedKept
<1>3. CASE MakePlan \/ Elsewhere \/ UNCHANGED vars
  <2>1. UNCHANGED <<rows, snapVars>> /\ (rec' = rec \/ rec' = IdleRec)
    BY <1>3 DEF MakePlan, Elsewhere, CrashRecover, CrashRollback, Reject, OtherOperator,
       Move, DeleteDLQ, vars, recVars
  <2> QED
    BY <2>1, BackedKept DEF IdleRec
<1> QED
  BY <1>1, <1>2, <1>3 DEF Next

\* The rollback reads its snapshots: one of every message it owes.
LEMMA RollbackOwes == ASSUME IInv, Backed, Owing, NEW p \in 1..MaxPlans, Rollback(p), ~Gone
                      PROVE  Owing'
<1>1. CASE dlqExists
  <2>1. back' = [IdleBack EXCEPT !.at = "publish", !.plan = p, !.todo = snapshots[p],
                    !.due = {r.id.of : r \in {q \in rows :
                                q.plan = p /\ q.result = "success"}}]
    BY <1>1 DEF Rollback
  <2>2. /\ back'.at = "publish" /\ back'.todo = snapshots[p] /\ back'.plan = p
        /\ unsaved' = unsaved
        /\ back'.due = {r.id.of : r \in {q \in rows : q.plan = p /\ q.result = "success"}}
    BY <2>1 DEF IdleBack, Rollback
  <2>3. \A o \in back'.due : Holds(back'.todo, o) \/ <<p, o>> \in unsaved
    BY <2>2 DEF Backed, Behind
  <2> QED
    BY <2>2, <2>3 DEF Owing, Left, Holds
<1>2. CASE ~dlqExists
  BY <1>2 DEF Rollback, Owing, Gone, Left, queueVars
<1> QED
  BY <1>1, <1>2

\* A confirmed publish puts the message at hand back.
LEMMA RestorePuts == ASSUME IInv, Owing, RestoreConfirmed, ~Gone, back.failed = FALSE
                     PROVE  Owing'
<1> DEFINE r   == Restored(Head(back.todo))
           put == back.put \cup {c.of : c \in copies' \ copies}
<1>1. /\ Restoring /\ Store(r)
      /\ back' = [back EXCEPT !.at = "audit", !.ok = TRUE, !.put = put]
  BY DEF RestoreConfirmed
<1>2. back \in BackType
  BY DEF IInv, TypeOK, BackType
<1>3. /\ back'.at = "audit" /\ back'.put = put /\ back'.todo = back.todo
      /\ back'.due = back.due /\ back'.plan = back.plan /\ unsaved' = unsaved
  BY <1>1, <1>2 DEF BackType, RestoreConfirmed
<1>4. r.at = "dlq" /\ r.of = Head(back.todo).of /\ r.key = next
  BY DEF Restored, Written
<1>5. r \notin copies
  <2>1. next \in Nat /\ \A c \in copies : c.key < next
    BY DEF IInv, TypeOK, KeysBelow
  <2> QED
    BY <1>4, <2>1
<1>6. copies' = copies \cup {r}
  BY <1>1, <1>4 DEF Store, Gone
<1>7. Head(back.todo).of \in put
  BY <1>4, <1>5, <1>6
<1>8. Head(back.todo) = back.todo[1] /\ Len(back.todo) \in Nat
  BY <1>1, <1>2 DEF Restoring, BackType
<1>9. \A o \in back.due : \/ o \in back.put \/ <<back.plan, o>> \in unsaved
                          \/ \E i \in 1..Len(back.todo) : back.todo[i].of = o
  BY <1>1 DEF Owing, Restoring, Left
<1> HIDE DEF r, put
<1>10. \A i \in 1..Len(back.todo) : i > 1 \/ back.todo[i].of \in put
  BY <1>7, <1>8
<1>11. back.put \subseteq put
  BY DEF put
<1> QED
  BY <1>3, <1>9, <1>10, <1>11 DEF Owing, Left

\* The message at hand is audited, and the next one comes up.
LEMMA AuditOwes == ASSUME IInv, Owing, AuditRestore, ~Gone PROVE Owing'
<1>1. back.at = "audit" /\ back' = [back EXCEPT !.at = "publish", !.todo = Tail(@)]
  BY DEF AuditRestore
<1>2. back \in BackType /\ back.todo # <<>>
  BY <1>1 DEF IInv, TypeOK, BackType, SnapshotsFit
<1>3. /\ back'.at = "publish" /\ back'.put = back.put /\ back'.todo = Tail(back.todo)
      /\ back'.due = back.due /\ back'.failed = back.failed
      /\ back'.plan = back.plan /\ unsaved' = unsaved
  BY <1>1, <1>2 DEF BackType, AuditRestore
<1>4. /\ Len(Tail(back.todo)) = Len(back.todo) - 1 /\ Len(back.todo) \in Nat
      /\ \A i \in 1..Len(Tail(back.todo)) : Tail(back.todo)[i] = back.todo[i + 1]
  BY <1>2 DEF BackType
<1>5. ASSUME NEW o \in back.due, Left(o) PROVE \E i \in 1..Len(back'.todo) : back'.todo[i].of = o
  <2>1. PICK i \in 1..Len(back.todo) : i > 1 /\ back.todo[i].of = o
    BY <1>1, <1>5 DEF Left
  <2>2. i - 1 \in 1..Len(Tail(back.todo)) /\ (i - 1) + 1 = i
    BY <1>4, <2>1
  <2> QED
    BY <1>3, <1>4, <2>1, <2>2
<1>6. ~back.failed => \A o \in back.due : \/ o \in back.put \/ Left(o)
                                         \/ <<back.plan, o>> \in unsaved
  BY <1>1 DEF Owing
<1> QED
  BY <1>3, <1>5, <1>6 DEF Owing, Left

\* A snapshot that was not saved is not saved later.
LEMMA UnsavedGrows == ASSUME [Next]_vars PROVE unsaved \subseteq unsaved'
<1>1. CASE RecStep
  BY <1>1 DEF RecStep, Recover, Inspect, PublishConfirmed, PublishFails, Ack, AckFails,
     AckLost, SaveSnapshot, SnapshotFails, AuditSuccess, Complete
<1>2. CASE BackStep
  BY <1>2 DEF BackStep, Rollback, RestoreConfirmed, RestoreFails, AuditRestore,
     RollbackCompletes
<1>3. CASE MakePlan \/ Elsewhere \/ UNCHANGED vars
  BY <1>3 DEF MakePlan, Elsewhere, CrashRecover, CrashRollback, Reject, OtherOperator,
     Move, DeleteDLQ, vars
<1> QED
  BY <1>1, <1>2, <1>3 DEF Next

LEMMA NextOwing == ASSUME IInv, Backed, Owing, [Next]_vars PROVE Owing'
<1> SUFFICES ASSUME ~Gone' PROVE Owing'
  BY DEF Owing
<1>1. ~Gone
  BY GoneStays
<1>2. CASE back' = back
  BY <1>1, <1>2, UnsavedGrows DEF Owing, Left
<1>3. CASE back' = IdleBack
  BY <1>3 DEF Owing, IdleBack
<1>4. CASE BackStep
  <2>1. CASE RestoreConfirmed
    <3>1. CASE back.failed
      <4>1. back'.failed = back.failed
        BY <2>1 DEF RestoreConfirmed, IInv, TypeOK
      <4> QED
        BY <3>1, <4>1 DEF Owing
    <3>2. CASE ~back.failed
      <4>1. back.failed = FALSE
        BY <3>2 DEF IInv, TypeOK
      <4> QED
        BY <1>1, <2>1, <4>1, RestorePuts
    <3> QED
      BY <3>1, <3>2
  <2>2. CASE RestoreFails
    <3>1. back'.failed = TRUE
      BY <2>2 DEF RestoreFails, IInv, TypeOK
    <3> QED
      BY <3>1 DEF Owing
  <2>3. CASE RollbackCompletes
    BY <1>3, <2>3 DEF RollbackCompletes
  <2> QED
    BY <1>1, <1>4, <2>1, <2>2, <2>3, RollbackOwes, AuditOwes DEF BackStep
<1>5. CASE RecStep
  <2>1. back' = back
    BY <1>5 DEF RecStep, Recover, Inspect, PublishConfirmed, PublishFails, Ack, AckFails,
       AckLost, SaveSnapshot, SnapshotFails, AuditSuccess, Complete, backVars
  <2> QED
    BY <1>2, <2>1
<1>6. CASE MakePlan \/ Elsewhere \/ UNCHANGED vars
  <2>1. back' = back \/ back' = IdleBack
    BY <1>6 DEF MakePlan, Elsewhere, CrashRecover, CrashRollback, Reject, OtherOperator,
       Move, DeleteDLQ, vars, backVars
  <2> QED
    BY <1>2, <1>3, <2>1
<1> QED
  BY <1>4, <1>5, <1>6 DEF Next

\* A rollback that completes without a failure has put back every message the
\* trail called recovered by the plan when it started (rollback.go:72-84,
\* executor.go:306-311), unless the queue was deleted under it or the store
\* dropped the message's snapshot and took its row (executor.go:321, 361),
\* whatever rows the store drops.
THEOREM RollbackPutsBack == Spec => RollbackReverses
<1> DEFINE Reverses == RollbackCompletes /\ ~back.failed /\ dlqExists =>
                         \A o \in back.due : o \in back.put \/ <<back.plan, o>> \in unsaved
<1>1. Init => Backed /\ Owing
  BY DEF Init, Backed, Owing, IdleRec, IdleBack
<1>2. IInv /\ Backed /\ Owing /\ [Next]_vars => Backed' /\ Owing'
  BY NextBacked, NextOwing
<1>3. ASSUME IInv, Owing PROVE Reverses
  <2> SUFFICES ASSUME RollbackCompletes, ~back.failed, dlqExists, NEW o \in back.due
               PROVE  o \in back.put \/ <<back.plan, o>> \in unsaved
    OBVIOUS
  <2>1. back.at = "publish" /\ back.todo = <<>>
    BY DEF RollbackCompletes
  <2>2. ~Left(o)
    BY <2>1 DEF Left
  <2> QED
    BY <1>3, <2>1, <2>2 DEF Owing, Gone
<1>4. IInv /\ Owing => [Reverses]_vars
  BY <1>3
<1> QED
  BY <1>1, <1>2, <1>4, Invariant, PTL DEF Spec, RollbackReverses
=============================================================================
