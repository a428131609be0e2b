----------------------------- MODULE SafetyGate -----------------------------
(***************************************************************************)
(* The safety gate (src/internal/safety/safety.go) under the commands that *)
(* use it, replay and patch: several commands, each one a process of the   *)
(* tool with its own context, on the same dead-letter queue and the same   *)
(* audit store.                                                            *)
(*                                                                         *)
(* Payloads matter here, so a queue is the sequence of the bodies of the   *)
(* entries it holds under each message ID, head first; Inspect and Ack     *)
(* both address the first entry they know by that ID.  A body is what has  *)
(* happened to it: the patches it carries, and whether the management API  *)
(* has cut it off at 50000 bytes.                                          *)
(***************************************************************************)
EXTENDS AuditStore, SequencesExt

CONSTANTS Queued,       \* entries in the dead-letter queue, by message
          MaxCommands,  \* bound: commands that are run
          MaxRejects,   \* bound: replayed copies that consumers reject
          Big,          \* messages of more than 50000 bytes
          Hashed,       \* messages dead-lettered without an ID of their own
          Unrouted      \* messages without a destination, given or recorded

Commands == 1..MaxCommands

ASSUME GateAssumption ==
    /\ Queued \in [Messages -> Nat \ {0}]
    /\ MaxCommands \in Nat /\ MaxRejects \in Nat
    /\ Big \cup Hashed \cup Unrouted \subseteq Messages

VARIABLES
    entries,  \* bodies in the dead-letter queue, by message
    landed,   \* bodies at the destination, by message
    dest,     \* "exists" or "missing", and it stays so
    rejects,  \* copies rejected so far
    cmd,      \* what each command is doing
    touched   \* history: commands whose publish was stored, or ack removed

queues == <<entries, landed, dest, rejects>>
vars == <<queues, storeVars, cmd, touched>>

Bodies == [cut : BOOLEAN, edits : SUBSET Commands]
Original == [cut |-> FALSE, edits |-> {}]

Stages == {"new", "read", "preview", "ask", "inspect", "probe", "publish",
           "ack", "audit", "done", "dead"}
CommandStates == [at : Stages, kind : {"replay", "patch"}, confirm : BOOLEAN,
                  msg : Messages \cup {NoMessage}, late : BOOLEAN,
                  body : Bodies, acked : {"no", "yes", "lost"}]

TypeOK ==
    /\ StoreTypeOK
    /\ entries \in [Messages -> Seq(Bodies)]
    /\ landed \in [Messages -> Seq(Bodies)]
    /\ dest \in {"exists", "missing"}
    /\ rejects \in 0..MaxRejects
    /\ cmd \in [Commands -> CommandStates]
    /\ \A c \in Commands : cmd[c].at # "new" => cmd[c].msg \in Messages
    /\ touched \subseteq Commands

New == [at |-> "new", kind |-> "replay", confirm |-> FALSE, msg |-> NoMessage,
        late |-> FALSE, body |-> Original, acked |-> "no"]

Init ==
    /\ StoreInit
    /\ entries = [m \in Messages |-> [i \in 1..Queued[m] |-> Original]]
    /\ landed = [m \in Messages |-> <<>>]
    /\ dest \in {"exists", "missing"}
    /\ rejects = 0
    /\ cmd = [c \in Commands |-> New]
    /\ touched = {}

-----------------------------------------------------------------------------
(* The broker's calls, as command c sees them.                             *)

Msg(c)        == cmd[c].msg
May(fault, c) == fault \in Faults \/ cmd[c].late

\* What Inspect returns of an entry: the management API truncates it.
Seen(m)   == [Head(entries[m]) EXCEPT !.cut = @ \/ m \in Big]
Finds(c)  == entries[Msg(c)] # <<>>
Misses(c) == ~Finds(c) \/ May("inspect", c)

\* Fault: the message is sent twice.
StoredTwice(c) ==
    /\ landed' = IF dest = "exists"
                 THEN [landed EXCEPT ![Msg(c)] = @ \o <<cmd[c].body, cmd[c].body>>]
                 ELSE landed
    /\ touched' = touched \cup {c}
    /\ UNCHANGED <<entries, dest, rejects>>

\* A publish that is stored, or dropped because there is no such queue; the
\* broker confirms both.
Stored(c) ==
    /\ landed' = IF dest = "exists"
                 THEN [landed EXCEPT ![Msg(c)] = Append(@, cmd[c].body)]
                 ELSE landed
    /\ touched' = touched \cup {c}
    /\ UNCHANGED <<entries, dest, rejects>>

\* The entries Ack knows by the ID.  A message without an ID is identified by
\* a hash of its payload, which for a truncated one is not what Ack computes
\* from the whole; a copy that was replayed carries the ID it was replayed under.
Acked(m) == {i \in 1..Len(entries[m]) :
                m \in Big \cap Hashed => entries[m][i].cut}
Reached(c) == Acked(Msg(c)) # {}

Removed(c) ==
    /\ \E i \in Acked(Msg(c)) :
          /\ \A j \in Acked(Msg(c)) : i <= j
          /\ entries' = [entries EXCEPT ![Msg(c)] = RemoveAt(@, i)]
    /\ touched' = touched \cup {c}
    /\ UNCHANGED <<landed, dest, rejects>>

Untouched == UNCHANGED <<queues, touched>>

-----------------------------------------------------------------------------
(* A command.                                                              *)

\* Fault: a request that names no action is audited as it is.
RowNoAction(c, result) == [by |-> c, action |-> "none", msg |-> Msg(c),
                           result |-> result]

Row(c, result) == [by |-> c, action |-> cmd[c].kind, msg |-> Msg(c),
                   result |-> result]

Goto(c, st) == cmd' = [cmd EXCEPT ![c].at = st]

\* The command stops with one row in the audit trail.
StopWith(c, result) ==
    /\ Goto(c, "done")
    /\ AppendRow(Row(c, result))
    /\ UNCHANGED snapshots

\* Without --confirm the command previews; with it, it asks.
Gate(confirm) == IF confirm THEN "ask" ELSE "preview"

\* A command is started, after the ones before it.
Begin(c, kind, confirm, m) ==
    /\ cmd[c].at = "new"
    /\ \A b \in Commands : b < c => cmd[b].at # "new"
    /\ cmd' = [cmd EXCEPT ![c] =
                 [at |-> IF kind = "patch" THEN "read" ELSE Gate(confirm),
                  kind |-> kind, confirm |-> confirm, msg |-> m,
                  late |-> FALSE, body |-> Original, acked |-> "no"]]
    /\ UNCHANGED storeVars /\ Untouched

\* Fault: patch waits for the message to appear.
ReadWaits(c) ==
    /\ cmd[c].at = "read"
    /\ Finds(c) /\ ~Seen(Msg(c)).cut
    /\ cmd' = [cmd EXCEPT
          ![c].at = Gate(cmd[c].confirm),
          ![c].body = [Seen(Msg(c)) EXCEPT !.edits = @ \cup {c}]]
    /\ UNCHANGED storeVars /\ Untouched

\* patch reads the message and computes the payload it is going to publish.
\* It gives up, without a row, when the message is not there, when it is not
\* JSON (a truncated one never is) or when the edit changes nothing.
Read(c) ==
    /\ cmd[c].at = "read"
    /\ \/ /\ Finds(c) /\ ~Seen(Msg(c)).cut
          /\ cmd' = [cmd EXCEPT
                ![c].at = Gate(cmd[c].confirm),
                ![c].body = [Seen(Msg(c)) EXCEPT !.edits = @ \cup {c}]]
       \/ /\ Misses(c) \/ (Finds(c) /\ Seen(Msg(c)).cut)
          /\ Goto(c, "done")
    /\ UNCHANGED storeVars /\ Untouched

\* DryRun: its calls only read, and a preview that succeeds leaves a row.
Preview(c) ==
    /\ cmd[c].at = "preview"
    /\ \/ /\ Finds(c) /\ Msg(c) \notin Unrouted
          /\ StopWith(c, "dry_run")
       \/ /\ Misses(c) \/ Msg(c) \in Unrouted \/ May("stats", c)
          /\ Goto(c, "done")
          /\ UNCHANGED storeVars
    /\ Untouched

\* The prompt (skipped by --yes and without a terminal), which the operator
\* may decline.
Answer(c, yes) ==
    /\ cmd[c].at = "ask"
    /\ Goto(c, IF yes THEN "inspect" ELSE "done")
    /\ UNCHANGED storeVars /\ Untouched

\* Execute inspects the message again: a replay publishes what it sees now, a
\* patch what it has computed before.  An error leaves no row.
Inspect(c) ==
    /\ cmd[c].at = "inspect"
    /\ \/ /\ Finds(c) /\ Msg(c) \notin Unrouted
          /\ cmd' = [cmd EXCEPT
                ![c].at = "probe",
                ![c].body = IF cmd[c].kind = "patch" THEN @ ELSE Seen(Msg(c))]
       \/ /\ Misses(c) \/ Msg(c) \in Unrouted
          /\ Goto(c, "done")
    /\ UNCHANGED storeVars /\ Untouched

\* Fault: the destination is not probed.
ProbeNothing(c) ==
    /\ cmd[c].at = "probe"
    /\ Goto(c, "publish")
    /\ UNCHANGED storeVars /\ Untouched

\* The probe of the destination; a missing one, and a failing probe, refuse
\* the command.
Probe(c) ==
    /\ cmd[c].at = "probe"
    /\ \/ /\ dest = "exists"
          /\ Goto(c, "publish")
          /\ UNCHANGED storeVars
       \/ /\ dest # "exists" \/ May("stats", c)
          /\ StopWith(c, "refused")
    /\ Untouched

Publish(c) ==
    /\ cmd[c].at = "publish"
    /\ Stored(c)
    /\ Goto(c, "ack")
    /\ UNCHANGED storeVars

\* Fault: a failed publish is acked.
PublishFailedAcks(c) ==
    /\ cmd[c].at = "publish"
    /\ \/ May("publish", c) /\ Untouched
       \/ May("publish_unconfirmed", c) /\ Stored(c)
    /\ Goto(c, "ack")
    /\ UNCHANGED storeVars

PublishFailed(c) ==
    /\ cmd[c].at = "publish"
    /\ \/ May("publish", c) /\ Untouched
       \/ May("publish_unconfirmed", c) /\ Stored(c)
    /\ StopWith(c, "publish_failed")

\* basic.ack has no reply: it may be lost on its way.
Ack(c) ==
    /\ cmd[c].at = "ack"
    /\ \/ /\ Removed(c)
          /\ cmd' = [cmd EXCEPT ![c].at = "audit", ![c].acked = "yes"]
       \/ /\ "ack_lost" \in Faults /\ Reached(c)
          /\ cmd' = [cmd EXCEPT ![c].at = "audit", ![c].acked = "lost"]
          /\ Untouched
    /\ UNCHANGED storeVars

\* Faults: the error is ignored, and it is returned without a row.
AckErrorIgnored(c) ==
    /\ cmd[c].at = "ack"
    /\ (~Reached(c) \/ May("ack", c)) /\ Untouched
    /\ Goto(c, "audit")
    /\ UNCHANGED storeVars

AckFailedSilently(c) ==
    /\ cmd[c].at = "ack"
    /\ \/ (~Reached(c) \/ May("ack", c)) /\ Untouched
       \/ May("ack_unconfirmed", c) /\ Removed(c)
    /\ Goto(c, "done")
    /\ UNCHANGED storeVars

AckFailed(c) ==
    /\ cmd[c].at = "ack"
    /\ \/ (~Reached(c) \/ May("ack", c)) /\ Untouched
       \/ May("ack_unconfirmed", c) /\ Removed(c)
    /\ StopWith(c, "ack_failed")

Audit(c) ==
    /\ cmd[c].at = "audit"
    /\ StopWith(c, "success")
    /\ Untouched

-----------------------------------------------------------------------------
(* What happens around the commands.                                       *)

Running(c) == cmd[c].at \notin {"new", "done", "dead"}

\* The 15 seconds of the command's context pass, at the prompt for instance.
Expire(c) ==
    /\ "deadline" \in Faults /\ Running(c) /\ ~cmd[c].late
    /\ cmd' = [cmd EXCEPT ![c].late = TRUE]
    /\ UNCHANGED storeVars /\ Untouched

Crash(c) ==
    /\ "crash" \in Faults /\ Running(c)
    /\ Goto(c, "dead")
    /\ UNCHANGED storeVars /\ Untouched

\* A consumer rejects a copy, which is dead-lettered behind the others.
Redeliver(m) ==
    /\ "redeliver" \in Faults /\ rejects < MaxRejects
    /\ \E i \in 1..Len(landed[m]) :
          /\ entries' = [entries EXCEPT ![m] = Append(@, landed[m][i])]
          /\ landed' = [landed EXCEPT ![m] = RemoveAt(@, i)]
    /\ rejects' = rejects + 1
    /\ UNCHANGED <<dest, storeVars, cmd, touched>>

-----------------------------------------------------------------------------

CommandStep(c) == \/ Read(c) \/ Preview(c) \/ Inspect(c) \/ Probe(c)
                  \/ Publish(c) \/ PublishFailed(c)
                  \/ Ack(c) \/ AckFailed(c) \/ Audit(c)

Next ==
    \/ \E c \in Commands :
          \/ \E kind \in {"replay", "patch"}, confirm \in BOOLEAN,
                m \in Messages : Begin(c, kind, confirm, m)
          \/ \E yes \in BOOLEAN : Answer(c, yes)
          \/ CommandStep(c) \/ Expire(c) \/ Crash(c)
    \/ \E m \in Messages : Redeliver(m)

Spec == Init /\ [][Next]_vars

\* A command that runs goes on; nothing obliges the operator to answer.
FairSpec == Spec /\ \A c \in Commands : WF_vars(CommandStep(c))

-----------------------------------------------------------------------------
(* Properties.                                                             *)

Copies(m) == Len(entries[m]) + Len(landed[m])

\* Commands between a confirmed publish and its ack.
Owed(m) == Cardinality({c \in Commands : cmd[c].at = "ack" /\ Msg(c) = m})

\* No entry is lost, not even when several commands replay a message at once
\* and entries share an ID: there are never fewer copies than the queue held
\* at first (Execute publishes first and acks after a success only).
NoLoss == \A m \in Messages : Copies(m) >= Queued[m]

\* Every copy too many is the work of a command that published the message
\* and has not removed an entry for it: it failed, it died, its ack was lost,
\* or it has not got there yet.
DuplicatesAccounted ==
    \A m \in Messages :
       Copies(m) - Queued[m] <=
          Cardinality({c \in touched : Msg(c) = m /\ cmd[c].acked # "yes"})

\* A destination that does not exist is never published to, by any command,
\* whatever a preview or the operator said (the probe of Execute).
NothingIntoTheVoid == dest = "missing" => touched = {}

\* Whatever a command did to a queue is in the audit trail when it returns: a
\* stored publish and a removed entry have a row, when every write succeeds.
EffectsAudited ==
    "store" \notin Faults =>
        \A c \in touched : cmd[c].at = "done" =>
            \E row \in audit :
               row.by = c /\ row.result \in {"success", "publish_failed", "ack_failed"}

\* The trail is true and says one thing of a command: a success has
\* acked an entry, a failure has not, and a refusal or a preview touched
\* nothing.
TrailIsTrue ==
    /\ \A row \in audit :
          /\ row.result = "success" => cmd[row.by].acked # "no"
          /\ row.result \in {"publish_failed", "ack_failed"} => cmd[row.by].acked = "no"
          /\ row.result \in {"dry_run", "refused"} => row.by \notin touched
    /\ \A r1, r2 \in audit : r1.by = r2.by => r1 = r2

\* What a replay delivers is the entry it is about to ack: Execute inspects
\* the message again "so the execution matches what is actually in the queue"
\* (safety.go:139-140).
DeliversWhatItRemoves ==
    \A c \in Commands :
       cmd[c].at = "ack" /\ cmd[c].kind = "replay" /\ Finds(c) =>
          Head(entries[Msg(c)]) = cmd[c].body

\* A command that runs comes to its end, or to the prompt, where it waits for
\* the operator as long as it takes.
CommandEnds ==
    \A c \in Commands :
       Running(c) /\ cmd[c].at # "ask" ~> ~Running(c) \/ cmd[c].at = "ask"

\* The gate, too, is one of the replays AtLeastOnce describes.
Promise == INSTANCE AtLeastOnce WITH
             dlq <- [m \in Messages |-> Len(entries[m])],
             delivered <- [m \in Messages |-> Len(landed[m])],
             owed <- [m \in Messages |-> Owed(m)]
RefinesAtLeastOnce == Promise!Spec
=============================================================================
