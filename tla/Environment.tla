---------------------------- MODULE Environment -----------------------------
(***************************************************************************)
(* What the specifications of the recovery engine share: the message IDs   *)
(* of the dead-letter queue and the faults an instance admits.             *)
(***************************************************************************)
CONSTANTS Messages,   \* the message IDs of the dead-letter queue
          NoMessage,  \* the empty message ID, of plan-level audit rows
          Faults      \* the faults this instance admits

\* "stats"               a Stats or Search call returns a transient error
\* "inspect"             an Inspect call returns a transient error
\* "publish"             a Publish is refused and nothing is stored
\* "publish_unconfirmed" a Publish is stored, but its confirm does not arrive
\* "ack"                 an Ack returns an error and removes nothing
\* "ack_unconfirmed"     an Ack removes the entry, but its reply is lost
\* "ack_lost"            an Ack returns no error, but nothing is removed
\* "store"               a write to the audit store fails
\* "query"               a read of the audit store fails
\* "deadline"            the command's context expires during the run
\* "crash"               the process dies between two steps
\* "redeliver"           a consumer rejects a replayed message again
\* "other_operator"      somebody else replays the same message
\* "delete_destination"  the destination is deleted while the tool runs
FaultKinds == {"stats", "inspect", "publish", "publish_unconfirmed", "ack",
               "ack_unconfirmed", "ack_lost", "store", "query", "deadline",
               "crash", "redeliver", "other_operator", "delete_destination"}

ASSUME EnvironmentAssumption ==
    /\ NoMessage \notin Messages
    /\ Faults \subseteq FaultKinds
=============================================================================
