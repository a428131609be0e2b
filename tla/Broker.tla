------------------------------- MODULE Broker -------------------------------
(***************************************************************************)
(* The Broker contract (src/internal/broker/broker.go) as the recovery     *)
(* engine sees it: one dead-letter queue, one replay destination, and the  *)
(* calls Inspect, Publish, Ack and Stats with every outcome the two        *)
(* adapters can give them.  A queue is a count of entries per message ID:  *)
(* the engine addresses messages by ID only, and RabbitMQ may hold two     *)
(* entries with one ID (a copy dead-lettered again before the first one    *)
(* was removed).                                                           *)
(*                                                                         *)
(* Every operator below is a fragment of an action: it says what one call  *)
(* does to the broker and nothing of its caller.                           *)
(***************************************************************************)
EXTENDS Environment, Integers

VARIABLES dlq,        \* entries with this ID in the dead-letter queue
          delivered,  \* copies the destination accepted and did not reject
          dest        \* "exists", "missing" or "deleted" (after a probe)

brokerVars == <<dlq, delivered, dest>>

DestStates == {"exists", "missing", "deleted"}

BrokerTypeOK ==
    /\ dlq \in [Messages -> Nat]
    /\ delivered \in [Messages -> Nat]
    /\ dest \in DestStates

\* A planned message is in the queue, or the plan is stale and somebody has
\* already delivered it.
BrokerInit ==
    /\ dlq \in [Messages -> {0, 1}]
    /\ delivered = [m \in Messages |-> 1 - dlq[m]]
    /\ dest \in {"exists", "missing"}

-----------------------------------------------------------------------------
(* The calls.                                                              *)

\* A call can meet a fault of the instance, and any call made once the
\* command's context has expired (late) can end with the context's error:
\* before it reached the broker, or after.
May(fault, late) == fault \in Faults \/ late

ProbeSkipped     == TRUE  \* fault: no probe
StatsFinds       == dest = "exists"
StatsNotFound    == dest # "exists"
StatsFails(late) == May("stats", late)

InQueue(m)            == dlq[m] > 0
InspectFails(m, late) == ~InQueue(m) \/ May("inspect", late)

\* A publish to a queue that is gone is confirmed all the same and the
\* message is dropped: what executor.go and write.go say of RabbitMQ.
PublishConfirmed(m) ==
    /\ delivered' = IF dest = "exists"
                    THEN [delivered EXCEPT ![m] = @ + 1] ELSE delivered
    /\ UNCHANGED <<dlq, dest>>

PublishFails(m, late) ==
    \/ May("publish", late) /\ UNCHANGED brokerVars
    \/ May("publish_unconfirmed", late) /\ PublishConfirmed(m)

AckRemoves(m) ==
    /\ InQueue(m)
    /\ dlq' = [dlq EXCEPT ![m] = @ - 1]
    /\ UNCHANGED <<delivered, dest>>

\* basic.ack has no reply: Ack returns once it is written, and the entry stays
\* when the connection is lost before the broker has read it.
AckReturns(m) == \/ AckRemoves(m)
                 \/ "ack_lost" \in Faults /\ InQueue(m) /\ UNCHANGED brokerVars

AckFails(m, late) ==
    \/ (~InQueue(m) \/ May("ack", late)) /\ UNCHANGED brokerVars
    \/ May("ack_unconfirmed", late) /\ AckRemoves(m)

-----------------------------------------------------------------------------
(* What happens at the broker without the tool.                            *)

\* A consumer rejects a replayed copy, which is dead-lettered under the ID it
\* was published with.
Redeliver(m) ==
    /\ "redeliver" \in Faults
    /\ delivered[m] > 0
    /\ delivered' = [delivered EXCEPT ![m] = @ - 1]
    /\ dlq' = [dlq EXCEPT ![m] = @ + 1]
    /\ UNCHANGED dest

\* Another operator replays the message from another machine, whose audit
\* store this one does not see.
OtherOperator(m) ==
    /\ "other_operator" \in Faults
    /\ dest = "exists" /\ InQueue(m)
    /\ dlq' = [dlq EXCEPT ![m] = @ - 1]
    /\ delivered' = [delivered EXCEPT ![m] = @ + 1]
    /\ UNCHANGED dest

DeleteDestination ==
    /\ "delete_destination" \in Faults
    /\ dest = "exists"
    /\ dest' = "deleted"
    /\ UNCHANGED <<dlq, delivered>>

BrokerStep == \/ \E m \in Messages : Redeliver(m) \/ OtherOperator(m)
              \/ DeleteDestination
=============================================================================
