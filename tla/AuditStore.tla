----------------------------- MODULE AuditStore -----------------------------
(***************************************************************************)
(* The append-only audit store (src/internal/audit/store.go): the audit    *)
(* table and the snapshots table.  Timestamps, broker and profile names    *)
(* and free text are left out; what is kept of a row is who wrote it (the  *)
(* run of the tool), the action, the message and the result.  A table is   *)
(* the set of its rows: the queries modelled here ask whether a row        *)
(* exists, and rows are never updated or deleted.                          *)
(*                                                                         *)
(* The executor, the gate and rollback drop the error of every write, so a *)
(* failed write ("store" in Faults) leaves the table as it was and the     *)
(* caller goes on.  Reads may fail too ("query" in Faults): what follows is*)
(* the reader's business, see Unreadable and ValidateFails of the executor.*)
(***************************************************************************)
EXTENDS Environment, Integers

Actions == {"replay", "patch", "recover", "rollback"}
Results == {"success", "publish_failed", "ack_failed", "skipped", "failed",
            "dry_run", "refused", "tripped", "completed"}

AuditRows == [by : Nat, action : Actions, msg : Messages \cup {NoMessage},
              result : Results]
SnapshotRows == [by : Nat, msg : Messages]

VARIABLES audit,      \* rows of the audit table
          snapshots   \* rows of the snapshots table

storeVars == <<audit, snapshots>>

StoreTypeOK ==
    /\ audit \subseteq AuditRows
    /\ snapshots \subseteq SnapshotRows

StoreInit == audit = {} /\ snapshots = {}

AppendRows(rows) ==
    \E kept \in SUBSET rows : /\ kept = rows \/ "store" \in Faults
                             /\ audit' = audit \cup kept

AppendRow(row) == AppendRows({row})

SaveSnapshot(row) == \/ snapshots' = snapshots \cup {row}
                     \/ "store" \in Faults /\ snapshots' = snapshots

\* Rows that are evidence of a replay of m: its confirmed successful replays.
\* A patched replay (action "patch") and a rollback are not among the actions.
IsEvidence(row, m) == /\ row.msg = m
                      /\ row.action \in {"replay", "recover"}
                      /\ row.result = "success"
Replayed(m) == \E row \in audit : IsEvidence(row, m)
=============================================================================
