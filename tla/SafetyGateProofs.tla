-------------------------- MODULE SafetyGateProofs --------------------------
(***************************************************************************)
(* Theorems about SafetyGate, for every number of commands, every queue    *)
(* and every combination of faults: it is well typed, it publishes nothing *)
(* to a destination that is missing, it loses no entry, it implements      *)
(* AtLeastOnce, its audit trail is complete and true, and every second     *)
(* copy has its cause.                                                     *)
(***************************************************************************)
EXTENDS SafetyGate, FiniteSetTheorems, TLAPS

-----------------------------------------------------------------------------
(* Sequences of bodies.                                                    *)

LEMMA AppendBody ==
  ASSUME NEW s \in Seq(Bodies), NEW b \in Bodies
  PROVE  Append(s, b) \in Seq(Bodies) /\ Len(Append(s, b)) = Len(s) + 1
OBVIOUS

LEMMA ConcatBodies ==
  ASSUME NEW s \in Seq(Bodies), NEW t \in Seq(Bodies)
  PROVE  s \o t \in Seq(Bodies) /\ Len(s \o t) = Len(s) + Len(t)
OBVIOUS

LEMMA RemoveBody ==
  ASSUME NEW s \in Seq(Bodies), NEW i \in 1..Len(s)
  PROVE  RemoveAt(s, i) \in Seq(Bodies) /\ Len(RemoveAt(s, i)) = Len(s) - 1
<1>1. /\ SubSeq(s, 1, i - 1) \in Seq(Bodies)
      /\ Len(SubSeq(s, 1, i - 1)) = i - 1
  OBVIOUS
<1>2. /\ SubSeq(s, i + 1, Len(s)) \in Seq(Bodies)
      /\ Len(SubSeq(s, i + 1, Len(s))) = Len(s) - i
  OBVIOUS
<1>3. /\ RemoveAt(s, i) \in Seq(Bodies)
      /\ Len(RemoveAt(s, i)) = (i - 1) + (Len(s) - i)
  BY <1>1, <1>2, ConcatBodies, Zenon DEF RemoveAt
<1>4. Len(s) \in Nat /\ i \in Int
  OBVIOUS
<1> QED
  BY <1>3, <1>4

\* What Inspect returns of an entry is a body.
LEMMA SeenIsBody ==
  ASSUME TypeOK, NEW m \in Messages, entries[m] # <<>>
  PROVE  Seen(m) \in Bodies
<1>1. Head(entries[m]) \in Bodies
  BY DEF TypeOK
<1> QED
  BY <1>1 DEF Seen, Bodies

-----------------------------------------------------------------------------
(* Type correctness.                                                       *)

LEMMA InitTypeOK == Init => TypeOK
<1> SUFFICES ASSUME Init PROVE TypeOK
  OBVIOUS
<1> USE GateAssumption DEF GateAssumption, Init
<1>1. StoreTypeOK
  BY DEF StoreInit, StoreTypeOK
<1>2. \A m \in Messages : [i \in 1..Queued[m] |-> Original] \in Seq(Bodies)
  <2>1. Original \in Bodies
    BY DEF Original, Bodies
  <2>2. ASSUME NEW m \in Messages
        PROVE  [i \in 1..Queued[m] |-> Original] \in Seq(Bodies)
    <3>1. Queued[m] \in Nat
      OBVIOUS
    <3> HIDE DEF Original, Bodies
    <3> QED
      BY <2>1, <3>1
  <2> QED
    BY <2>2
<1>3. New \in CommandStates
  BY DEF New, CommandStates, Stages, Original, Bodies
<1>4. \A c \in Commands : cmd[c].at = "new"
  BY DEF New
<1> QED
  BY <1>1, <1>2, <1>3, <1>4 DEF TypeOK

\* What a command that is under way knows.
LEMMA UnderWay ==
  ASSUME TypeOK, NEW c \in Commands
  PROVE  /\ cmd[c] \in CommandStates
         /\ cmd[c].at # "new" => Msg(c) \in Messages
         /\ cmd[c].kind \in {"replay", "patch"}
         /\ cmd[c].body \in Bodies
         /\ cmd[c].at \in Stages
BY DEF TypeOK, CommandStates, Msg

LEMMA ChangeTypeOK ==
  ASSUME TypeOK, NEW c \in Commands, cmd[c].at # "new",
         NEW new \in CommandStates, new.msg = cmd[c].msg,
         cmd' = [cmd EXCEPT ![c] = new]
  PROVE  /\ cmd' \in [Commands -> CommandStates]
         /\ \A b \in Commands : cmd'[b].at # "new" => cmd'[b].msg \in Messages
BY DEF TypeOK

LEMMA GotoTypeOK ==
  ASSUME TypeOK, NEW c \in Commands, NEW st \in Stages \ {"new"},
         cmd[c].at # "new", Goto(c, st)
  PROVE  /\ cmd' \in [Commands -> CommandStates]
         /\ \A b \in Commands : cmd'[b].at # "new" => cmd'[b].msg \in Messages
BY UnderWay DEF TypeOK, CommandStates, Goto, Msg

LEMMA StopTypeOK ==
  ASSUME TypeOK, NEW c \in Commands, NEW res \in Results,
         cmd[c].at # "new", StopWith(c, res)
  PROVE  /\ StoreTypeOK'
         /\ cmd' \in [Commands -> CommandStates]
         /\ \A b \in Commands : cmd'[b].at # "new" => cmd'[b].msg \in Messages
<1>1. Row(c, res) \in AuditRows
  BY UnderWay, GateAssumption DEF GateAssumption, Row, AuditRows, Actions, Commands
<1>2. StoreTypeOK'
  BY <1>1 DEF TypeOK, StopWith, AppendRow, AppendRows, StoreTypeOK
<1>3. "done" \in Stages \ {"new"}
  BY DEF Stages
<1> QED
  BY <1>2, <1>3, GotoTypeOK DEF StopWith

LEMMA StoredTypeOK ==
  ASSUME TypeOK, NEW c \in Commands, cmd[c].at # "new", Stored(c)
  PROVE  /\ entries' \in [Messages -> Seq(Bodies)]
         /\ landed' \in [Messages -> Seq(Bodies)]
         /\ dest' \in {"exists", "missing"} /\ rejects' \in 0..MaxRejects
         /\ touched' \subseteq Commands
BY UnderWay, AppendBody DEF TypeOK, Stored

LEMMA RemovedTypeOK ==
  ASSUME TypeOK, NEW c \in Commands, cmd[c].at # "new", Removed(c)
  PROVE  /\ entries' \in [Messages -> Seq(Bodies)]
         /\ landed' \in [Messages -> Seq(Bodies)]
         /\ dest' \in {"exists", "missing"} /\ rejects' \in 0..MaxRejects
         /\ touched' \subseteq Commands
<1>1. PICK i \in Acked(Msg(c)) :
         entries' = [entries EXCEPT ![Msg(c)] = RemoveAt(@, i)]
  BY DEF Removed
<1>2. Msg(c) \in Messages /\ i \in 1..Len(entries[Msg(c)])
  BY <1>1, UnderWay DEF Acked
<1> QED
  BY <1>1, <1>2, RemoveBody DEF TypeOK, Removed

LEMMA BeginTypeOK ==
  ASSUME TypeOK, NEW c \in Commands, NEW kind \in {"replay", "patch"},
         NEW confirm \in BOOLEAN, NEW m \in Messages, Begin(c, kind, confirm, m)
  PROVE  TypeOK'
<1>1. [at |-> IF kind = "patch" THEN "read" ELSE Gate(confirm),
       kind |-> kind, confirm |-> confirm, msg |-> m,
       late |-> FALSE, body |-> Original, acked |-> "no"] \in CommandStates
  BY DEF CommandStates, Stages, Gate, Original, Bodies
<1> QED
  BY <1>1 DEF TypeOK, Begin, Untouched, queues, storeVars, StoreTypeOK

\* What no call touches.
LEMMA UntouchedTypeOK ==
  ASSUME TypeOK, Untouched
  PROVE  /\ entries' \in [Messages -> Seq(Bodies)]
         /\ landed' \in [Messages -> Seq(Bodies)]
         /\ dest' \in {"exists", "missing"} /\ rejects' \in 0..MaxRejects
         /\ touched' \subseteq Commands
BY DEF TypeOK, Untouched, queues

LEMMA StoreUnchanged ==
  ASSUME TypeOK, UNCHANGED storeVars
  PROVE  StoreTypeOK'
BY DEF TypeOK, storeVars, StoreTypeOK

LEMMA ReadTypeOK ==
  ASSUME TypeOK, NEW c \in Commands, Read(c)
  PROVE  TypeOK'
<1>1. cmd[c].at # "new" /\ Msg(c) \in Messages
  BY UnderWay DEF Read
<1>2. CASE /\ Finds(c) /\ ~Seen(Msg(c)).cut
           /\ cmd' = [cmd EXCEPT
                 ![c].at = Gate(cmd[c].confirm),
                 ![c].body = [Seen(Msg(c)) EXCEPT !.edits = @ \cup {c}]]
  <2>1. [Seen(Msg(c)) EXCEPT !.edits = @ \cup {c}] \in Bodies
    BY <1>1, <1>2, SeenIsBody DEF Finds, Bodies
  <2>2. Gate(cmd[c].confirm) \in Stages
    BY DEF Gate, Stages
  <2> DEFINE new == [cmd[c] EXCEPT !.at = Gate(cmd[c].confirm),
                          !.body = [Seen(Msg(c)) EXCEPT !.edits = @ \cup {c}]]
  <2>3. new \in CommandStates /\ new.msg = cmd[c].msg
    BY <2>1, <2>2, UnderWay DEF CommandStates
  <2>4. cmd' = [cmd EXCEPT ![c] = new]
    BY <1>2 DEF TypeOK
  <2>5. /\ cmd' \in [Commands -> CommandStates]
        /\ \A b \in Commands : cmd'[b].at # "new" => cmd'[b].msg \in Messages
    BY <1>1, <2>3, <2>4, ChangeTypeOK
  <2> QED
    BY <2>5, UntouchedTypeOK, StoreUnchanged DEF TypeOK, Read
<1>3. CASE Goto(c, "done")
  <2>1. "done" \in Stages \ {"new"}
    BY DEF Stages
  <2> QED
    BY <1>1, <1>3, <2>1, GotoTypeOK, UntouchedTypeOK, StoreUnchanged DEF TypeOK, Read
<1> QED
  BY <1>2, <1>3 DEF Read

LEMMA InspectTypeOK ==
  ASSUME TypeOK, NEW c \in Commands, Inspect(c)
  PROVE  TypeOK'
<1>1. cmd[c].at # "new" /\ Msg(c) \in Messages
  BY UnderWay DEF Inspect
<1>2. CASE /\ Finds(c)
           /\ cmd' = [cmd EXCEPT
                ![c].at = "probe",
                ![c].body = IF cmd[c].kind = "patch" THEN @ ELSE Seen(Msg(c))]
  <2>1. Seen(Msg(c)) \in Bodies
    BY <1>1, <1>2, SeenIsBody DEF Finds
  <2>2. "probe" \in Stages
    BY DEF Stages
  <2> DEFINE new == [cmd[c] EXCEPT !.at = "probe",
                          !.body = IF cmd[c].kind = "patch" THEN @ ELSE Seen(Msg(c))]
  <2>3. new \in CommandStates /\ new.msg = cmd[c].msg
    BY <2>1, <2>2, UnderWay DEF CommandStates
  <2>4. cmd' = [cmd EXCEPT ![c] = new]
    BY <1>2 DEF TypeOK
  <2>5. /\ cmd' \in [Commands -> CommandStates]
        /\ \A b \in Commands : cmd'[b].at # "new" => cmd'[b].msg \in Messages
    BY <1>1, <2>3, <2>4, ChangeTypeOK
  <2> QED
    BY <2>5, UntouchedTypeOK, StoreUnchanged DEF TypeOK, Inspect
<1>3. CASE Goto(c, "done")
  <2>1. "done" \in Stages \ {"new"}
    BY DEF Stages
  <2> QED
    BY <1>1, <1>3, <2>1, GotoTypeOK, UntouchedTypeOK, StoreUnchanged DEF TypeOK, Inspect
<1> QED
  BY <1>2, <1>3 DEF Inspect

LEMMA AckTypeOK ==
  ASSUME TypeOK, NEW c \in Commands, Ack(c)
  PROVE  TypeOK'
<1>1. cmd[c].at # "new"
  BY DEF Ack
<1>2. /\ cmd' \in [Commands -> CommandStates]
      /\ \A b \in Commands : cmd'[b].at # "new" => cmd'[b].msg \in Messages
  <2>1. PICK how \in {"yes", "lost"} :
           cmd' = [cmd EXCEPT ![c].at = "audit", ![c].acked = how]
    BY DEF Ack
  <2> DEFINE new == [cmd[c] EXCEPT !.at = "audit", !.acked = how]
  <2>2. new \in CommandStates /\ new.msg = cmd[c].msg
    BY <2>1, UnderWay DEF CommandStates, Stages
  <2>3. cmd' = [cmd EXCEPT ![c] = new]
    BY <2>1 DEF TypeOK
  <2> QED
    BY <1>1, <2>2, <2>3, ChangeTypeOK
<1> QED
  BY <1>1, <1>2, RemovedTypeOK, UntouchedTypeOK, StoreUnchanged DEF TypeOK, Ack

\* The steps of a command that only go on, or stop with a row.
LEMMA PlainStepTypeOK ==
  ASSUME TypeOK, NEW c \in Commands,
         \/ Preview(c) \/ Probe(c) \/ Publish(c) \/ PublishFailed(c)
         \/ AckFailed(c) \/ Audit(c) \/ Crash(c)
         \/ \E yes \in BOOLEAN : Answer(c, yes)
  PROVE  TypeOK'
<1>1. cmd[c].at # "new"
  BY DEF Preview, Probe, Publish, PublishFailed, AckFailed, Audit, Crash, Answer, Running
<1>2. \/ Untouched \/ Stored(c) \/ Removed(c)
  BY DEF Preview, Probe, Publish, PublishFailed, AckFailed, Audit, Crash, Answer
<1>3. \/ \E res \in Results : StopWith(c, res)
      \/ /\ UNCHANGED storeVars
         /\ \E st \in Stages \ {"new"} : Goto(c, st)
  BY DEF Preview, Probe, Publish, PublishFailed, AckFailed, Audit, Crash, Answer,
         Results, Stages
<1>4. /\ StoreTypeOK'
      /\ cmd' \in [Commands -> CommandStates]
      /\ \A b \in Commands : cmd'[b].at # "new" => cmd'[b].msg \in Messages
  BY <1>1, <1>3, StopTypeOK, GotoTypeOK, StoreUnchanged
<1> QED
  BY <1>1, <1>2, <1>4, UntouchedTypeOK, StoredTypeOK, RemovedTypeOK DEF TypeOK

LEMMA ExpireTypeOK ==
  ASSUME TypeOK, NEW c \in Commands, Expire(c)
  PROVE  TypeOK'
<1>1. /\ cmd' \in [Commands -> CommandStates]
      /\ \A b \in Commands : cmd'[b].at # "new" => cmd'[b].msg \in Messages
  BY DEF TypeOK, CommandStates, Expire
<1> QED
  BY <1>1, UntouchedTypeOK, StoreUnchanged DEF TypeOK, Expire

\* A rejected copy changes queues.
LEMMA RedeliverMoves ==
  ASSUME TypeOK, NEW m \in Messages, Redeliver(m)
  PROVE  /\ entries' \in [Messages -> Seq(Bodies)]
         /\ landed' \in [Messages -> Seq(Bodies)]
         /\ \A n \in Messages : Len(entries'[n]) + Len(landed'[n])
                                   = Len(entries[n]) + Len(landed[n])
<1>1. PICK i \in 1..Len(landed[m]) :
         /\ entries' = [entries EXCEPT ![m] = Append(@, landed[m][i])]
         /\ landed' = [landed EXCEPT ![m] = RemoveAt(@, i)]
  BY DEF Redeliver
<1>2. /\ landed[m] \in Seq(Bodies) /\ entries[m] \in Seq(Bodies)
      /\ landed[m][i] \in Bodies
  BY <1>1 DEF TypeOK
<1>3. /\ RemoveAt(landed[m], i) \in Seq(Bodies)
      /\ Len(RemoveAt(landed[m], i)) = Len(landed[m]) - 1
  BY <1>1, <1>2, RemoveBody
<1>4. /\ Append(entries[m], landed[m][i]) \in Seq(Bodies)
      /\ Len(Append(entries[m], landed[m][i])) = Len(entries[m]) + 1
  BY <1>2, AppendBody
<1>5. Len(landed[m]) \in Nat /\ Len(entries[m]) \in Nat
  BY <1>2
<1>6. /\ entries' \in [Messages -> Seq(Bodies)]
      /\ landed' \in [Messages -> Seq(Bodies)]
  BY <1>1, <1>3, <1>4 DEF TypeOK
<1>7. ASSUME NEW n \in Messages
      PROVE  Len(entries'[n]) + Len(landed'[n]) = Len(entries[n]) + Len(landed[n])
  <2>1. CASE n = m
    <3>1. /\ Len(entries'[m]) = Len(entries[m]) + 1
          /\ Len(landed'[m]) = Len(landed[m]) - 1
      BY <1>1, <1>3, <1>4 DEF TypeOK
    <3>2. \A x, y \in Nat : (x + 1) + (y - 1) = x + y
      OBVIOUS
    <3>3. (Len(entries[m]) + 1) + (Len(landed[m]) - 1)
            = Len(entries[m]) + Len(landed[m])
      BY <1>5, <3>2
    <3> QED
      BY <2>1, <3>1, <3>3, Zenon
  <2>2. CASE n # m
    <3>1. entries'[n] = entries[n] /\ landed'[n] = landed[n]
      BY <1>1, <2>2 DEF TypeOK
    <3> QED
      BY <3>1
  <2> QED
    BY <2>1, <2>2
<1> QED
  BY <1>6, <1>7

LEMMA StepTypeOK == TypeOK /\ [Next]_vars => TypeOK'
<1> SUFFICES ASSUME TypeOK, [Next]_vars PROVE TypeOK'
  OBVIOUS
<1>1. ASSUME NEW c \in Commands, NEW kind \in {"replay", "patch"},
             NEW confirm \in BOOLEAN, NEW m \in Messages, Begin(c, kind, confirm, m)
      PROVE  TypeOK'
  BY <1>1, BeginTypeOK
<1>2. ASSUME NEW c \in Commands, CommandStep(c)
      PROVE  TypeOK'
  BY <1>2, ReadTypeOK, InspectTypeOK, AckTypeOK, PlainStepTypeOK DEF CommandStep
<1>3. ASSUME NEW c \in Commands,
             Crash(c) \/ Expire(c) \/ \E yes \in BOOLEAN : Answer(c, yes)
      PROVE  TypeOK'
  BY <1>3, PlainStepTypeOK, ExpireTypeOK
<1>4. ASSUME NEW m \in Messages, Redeliver(m)
      PROVE  TypeOK'
  <2>1. rejects' \in 0..MaxRejects
    BY <1>4, GateAssumption DEF GateAssumption, TypeOK, Redeliver
  <2> QED
    BY <1>4, <2>1, RedeliverMoves, StoreUnchanged DEF TypeOK, Redeliver, storeVars
<1>5. CASE UNCHANGED vars
  BY <1>5, StoreUnchanged DEF TypeOK, vars, queues
<1> QED
  BY <1>1, <1>2, <1>3, <1>4, <1>5 DEF Next

\* Every reachable state of the gate is well typed: rows, bodies and the
\* states of the commands are what safety.go builds.
THEOREM TypeCorrect == Spec => []TypeOK
<1> QED
  BY InitTypeOK, StepTypeOK, PTL DEF Spec

-----------------------------------------------------------------------------
(* The inductive invariant.                                                *)

\* A command that publishes or acks has seen the destination.
Probed == \A c \in Commands : cmd[c].at \in {"publish", "ack"} => dest = "exists"

\* Every confirmed publish whose entry is still to be acked stands for a copy
\* beyond those the queue held at first.
Covered == \A m \in Messages : Copies(m) >= Queued[m] + Owed(m)

GInv == TypeOK /\ Probed /\ NothingIntoTheVoid /\ Covered

LEMMA CopiesNat ==
  ASSUME TypeOK, NEW m \in Messages
  PROVE  Copies(m) \in Nat
<1>1. entries[m] \in Seq(Bodies) /\ landed[m] \in Seq(Bodies)
  BY DEF TypeOK
<1>2. Len(entries[m]) \in Nat /\ Len(landed[m]) \in Nat
  BY <1>1
<1>3. \A i, j \in Nat : i + j \in Nat
  OBVIOUS
<1> QED
  BY <1>2, <1>3, Zenon DEF Copies

-----------------------------------------------------------------------------
(* How the steps change the number of copies.                              *)

LEMMA CopiesSame ==
  ASSUME UNCHANGED <<entries, landed>>, NEW m
  PROVE  Copies(m)' = Copies(m)
BY DEF Copies

LEMMA StoredCopies ==
  ASSUME TypeOK, NEW c \in Commands, cmd[c].at # "new", Stored(c),
         dest = "exists", NEW m \in Messages
  PROVE  Copies(m)' = IF m = Msg(c) THEN Copies(m) + 1 ELSE Copies(m)
<1> DEFINE x == Msg(c)
<1>1. x \in Messages /\ cmd[c].body \in Bodies
  BY UnderWay
<1>2. landed[x] \in Seq(Bodies) /\ entries[x] \in Seq(Bodies)
  BY <1>1 DEF TypeOK
<1>3. /\ entries' = entries
      /\ landed' = [landed EXCEPT ![x] = Append(@, cmd[c].body)]
  BY DEF Stored
<1>4. CASE m = x
  <2>1. landed'[x] = Append(landed[x], cmd[c].body)
    BY <1>1, <1>3 DEF TypeOK
  <2>2. Len(landed'[x]) = Len(landed[x]) + 1
    BY <1>1, <1>2, <2>1, AppendBody
  <2>3. Copies(m)' = Len(entries[x]) + (Len(landed[x]) + 1)
    BY <1>3, <1>4, <2>2, Zenon DEF Copies
  <2>4. Copies(m) = Len(entries[x]) + Len(landed[x])
    BY <1>4, Zenon DEF Copies
  <2>5. Len(entries[x]) \in Nat /\ Len(landed[x]) \in Nat
    BY <1>2
  <2>6. \A i, j \in Nat : i + (j + 1) = (i + j) + 1
    OBVIOUS
  <2>7. Len(entries[x]) + (Len(landed[x]) + 1) = (Len(entries[x]) + Len(landed[x])) + 1
    BY <2>5, <2>6
  <2> QED
    BY <1>4, <2>3, <2>4, <2>7, Zenon
<1>5. CASE m # x
  <2>1. landed'[m] = landed[m]
    BY <1>3, <1>5 DEF TypeOK
  <2> QED
    BY <1>3, <1>5, <2>1 DEF Copies
<1> QED
  BY <1>4, <1>5

LEMMA RemovedCopies ==
  ASSUME TypeOK, NEW c \in Commands, cmd[c].at # "new", Removed(c),
         NEW m \in Messages
  PROVE  Copies(m)' = IF m = Msg(c) THEN Copies(m) - 1 ELSE Copies(m)
<1> DEFINE x == Msg(c)
<1>1. x \in Messages
  BY UnderWay
<1>2. landed[x] \in Seq(Bodies) /\ entries[x] \in Seq(Bodies)
  BY <1>1 DEF TypeOK
<1>3. PICK i \in 1..Len(entries[x]) :
         entries' = [entries EXCEPT ![x] = RemoveAt(@, i)]
  BY DEF Removed, Acked
<1>4. landed' = landed
  BY DEF Removed
<1>5. CASE m = x
  <2>1. entries'[x] = RemoveAt(entries[x], i)
    BY <1>1, <1>3 DEF TypeOK
  <2>2. Len(entries'[x]) = Len(entries[x]) - 1
    BY <1>2, <1>3, <2>1, RemoveBody
  <2>3. Copies(m)' = (Len(entries[x]) - 1) + Len(landed[x])
    BY <1>4, <1>5, <2>2, Zenon DEF Copies
  <2>4. Copies(m) = Len(entries[x]) + Len(landed[x])
    BY <1>5, Zenon DEF Copies
  <2>5. Len(entries[x]) \in Nat /\ Len(landed[x]) \in Nat
    BY <1>2
  <2>6. \A j, k \in Nat : (j - 1) + k = (j + k) - 1
    OBVIOUS
  <2>7. (Len(entries[x]) - 1) + Len(landed[x]) = (Len(entries[x]) + Len(landed[x])) - 1
    BY <2>5, <2>6
  <2> QED
    BY <1>5, <2>3, <2>4, <2>7, Zenon
<1>6. CASE m # x
  <2>1. entries'[m] = entries[m]
    BY <1>3, <1>6 DEF TypeOK
  <2> QED
    BY <1>4, <1>6, <2>1 DEF Copies
<1> QED
  BY <1>5, <1>6

-----------------------------------------------------------------------------
(* How the steps change the number of unused claims.                       *)

Claimants(m) == {c \in Commands : cmd[c].at = "ack" /\ Msg(c) = m}

LEMMA OwedNat ==
  ASSUME NEW m
  PROVE  /\ IsFiniteSet(Claimants(m))
         /\ Owed(m) = Cardinality(Claimants(m)) /\ Owed(m) \in Nat
<1>1. IsFiniteSet(Commands)
  BY FS_Interval, GateAssumption DEF GateAssumption, Commands
<1>2. IsFiniteSet(Claimants(m))
  BY <1>1, FS_Subset DEF Claimants
<1> QED
  BY <1>2, FS_CardinalityType DEF Owed, Claimants

\* Nobody comes to "ack" and nobody leaves it.
LEMMA OwedSame ==
  ASSUME \A b \in Commands :
            /\ cmd'[b].at = "ack" <=> cmd[b].at = "ack"
            /\ cmd[b].at = "ack" => cmd'[b].msg = cmd[b].msg,
         NEW m
  PROVE  Owed(m)' = Owed(m)
<1>1. Claimants(m)' = Claimants(m)
  BY DEF Claimants, Msg
<1> QED
  BY <1>1 DEF Claimants, Owed

\* A publish of command c is confirmed.
LEMMA OwedUp ==
  ASSUME TypeOK, NEW c \in Commands, cmd[c].at = "publish", Goto(c, "ack"), NEW m
  PROVE  Owed(m)' = IF m = Msg(c) THEN Owed(m) + 1 ELSE Owed(m)
<1>1. /\ cmd'[c].at = "ack" /\ cmd'[c].msg = cmd[c].msg
      /\ \A b \in Commands \ {c} : cmd'[b] = cmd[b]
  BY DEF TypeOK, Goto
<1>2. CASE m = Msg(c)
  <2>1. Claimants(m)' = Claimants(m) \cup {c} /\ c \notin Claimants(m)
    BY <1>1, <1>2 DEF Claimants, Msg
  <2>2. Owed(m)' = Cardinality(Claimants(m) \cup {c})
    BY <2>1 DEF Owed, Claimants
  <2> QED
    BY <1>2, <2>1, <2>2, OwedNat, FS_AddElement
<1>3. CASE m # Msg(c)
  <2>1. Claimants(m)' = Claimants(m)
    BY <1>1, <1>3 DEF Claimants, Msg
  <2> QED
    BY <1>3, <2>1 DEF Owed, Claimants
<1> QED
  BY <1>2, <1>3

\* Command c leaves "ack", with an entry removed or not.
LEMMA OwedDown ==
  ASSUME NEW c \in Commands, cmd[c].at = "ack", cmd'[c].at # "ack",
         \A b \in Commands \ {c} : cmd'[b] = cmd[b], NEW m
  PROVE  Owed(m)' = IF m = Msg(c) THEN Owed(m) - 1 ELSE Owed(m)
<1>1. CASE m = Msg(c)
  <2>1. Claimants(m)' = Claimants(m) \ {c} /\ c \in Claimants(m)
    BY <1>1 DEF Claimants, Msg
  <2>2. Owed(m)' = Cardinality(Claimants(m) \ {c})
    BY <2>1 DEF Owed, Claimants
  <2>3. Cardinality(Claimants(m) \ {c}) = Cardinality(Claimants(m)) - 1
    BY <2>1, OwedNat, FS_RemoveElement
  <2>4. Owed(m) = Cardinality(Claimants(m))
    BY OwedNat
  <2> QED
    BY <1>1, <2>2, <2>3, <2>4
<1>2. CASE m # Msg(c)
  <2>1. Claimants(m)' = Claimants(m)
    BY <1>2 DEF Claimants, Msg
  <2> QED
    BY <1>2, <2>1 DEF Owed, Claimants
<1> QED
  BY <1>1, <1>2

-----------------------------------------------------------------------------
(* How the steps keep every claim covered.                                 *)

\* The claims stay as they are, and no copy goes.
LEMMA KeepsCovered ==
  ASSUME GInv, \A m \in Messages : Copies(m)' \in {Copies(m), Copies(m) + 1},
         \A b \in Commands :
            /\ cmd'[b].at = "ack" <=> cmd[b].at = "ack"
            /\ cmd[b].at = "ack" => cmd'[b].msg = cmd[b].msg
  PROVE  Covered'
<1> SUFFICES ASSUME NEW m \in Messages
             PROVE  Copies(m)' >= Queued[m] + Owed(m)'
  BY DEF Covered
<1>1. Owed(m)' = Owed(m) /\ Owed(m) \in Nat
  BY OwedSame, OwedNat
<1>2. Copies(m) \in Nat
  BY CopiesNat DEF GInv
<1>3. /\ Copies(m)' \in {Copies(m), Copies(m) + 1}
      /\ Copies(m) >= Queued[m] + Owed(m)
  BY DEF GInv, Covered
<1>4. Queued[m] \in Nat
  BY GateAssumption DEF GateAssumption
<1> QED
  BY <1>1, <1>2, <1>3, <1>4

\* A confirmed publish brings a claim and a copy.
LEMMA PublishCovered ==
  ASSUME GInv, NEW c \in Commands, Publish(c)
  PROVE  Covered'
<1> SUFFICES ASSUME NEW m \in Messages
             PROVE  Copies(m)' >= Queued[m] + Owed(m)'
  BY DEF Covered
<1>1. dest = "exists" /\ cmd[c].at # "new"
  BY DEF GInv, Probed, Publish
<1>2. Copies(m)' = IF m = Msg(c) THEN Copies(m) + 1 ELSE Copies(m)
  BY <1>1, StoredCopies DEF GInv, Publish
<1>3. Owed(m)' = IF m = Msg(c) THEN Owed(m) + 1 ELSE Owed(m)
  BY OwedUp DEF GInv, Publish
<1>4. /\ Copies(m) \in Nat /\ Owed(m) \in Nat /\ Queued[m] \in Nat
      /\ Copies(m) >= Queued[m] + Owed(m)
  BY CopiesNat, OwedNat, GateAssumption DEF GInv, Covered, GateAssumption
<1> QED
  BY <1>2, <1>3, <1>4

\* A command that leaves "ack" gives up its claim, and one copy at most.
LEMMA ReleaseCovered ==
  ASSUME GInv, NEW c \in Commands, cmd[c].at = "ack", cmd'[c].at # "ack",
         \A b \in Commands \ {c} : cmd'[b] = cmd[b],
         Removed(c) \/ UNCHANGED <<entries, landed>>
  PROVE  Covered'
<1> SUFFICES ASSUME NEW m \in Messages
             PROVE  Copies(m)' >= Queued[m] + Owed(m)'
  BY DEF Covered
<1>1. \/ Copies(m)' = IF m = Msg(c) THEN Copies(m) - 1 ELSE Copies(m)
      \/ Copies(m)' = Copies(m)
  BY RemovedCopies, CopiesSame DEF GInv
<1>2. Owed(m)' = IF m = Msg(c) THEN Owed(m) - 1 ELSE Owed(m)
  BY OwedDown
<1>3. /\ Copies(m) \in Nat /\ Owed(m) \in Nat /\ Queued[m] \in Nat
      /\ Copies(m) >= Queued[m] + Owed(m)
  BY CopiesNat, OwedNat, GateAssumption DEF GInv, Covered, GateAssumption
<1> QED
  BY <1>1, <1>2, <1>3

\* A command that goes to another stage changes nothing else.
LEMMA GotoMoves ==
  ASSUME TypeOK, NEW c \in Commands, NEW st, Goto(c, st)
  PROVE  /\ cmd'[c] = [cmd[c] EXCEPT !.at = st]
         /\ cmd'[c].at = st /\ cmd'[c].msg = cmd[c].msg
         /\ \A b \in Commands \ {c} : cmd'[b] = cmd[b]
<1>1. cmd[c] \in CommandStates
  BY UnderWay
<1>2. /\ cmd'[c] = [cmd[c] EXCEPT !.at = st]
      /\ \A b \in Commands \ {c} : cmd'[b] = cmd[b]
  BY DEF TypeOK, Goto
<1> QED
  BY <1>1, <1>2 DEF CommandStates

-----------------------------------------------------------------------------
(* The invariant holds.                                                    *)

LEMMA InitGInv == Init => GInv
<1> SUFFICES ASSUME Init PROVE GInv
  OBVIOUS
<1>1. TypeOK
  BY InitTypeOK
<1>2. \A c \in Commands : cmd[c].at = "new"
  BY DEF Init, New
<1>3. Probed /\ NothingIntoTheVoid
  BY <1>2 DEF Init, Probed, NothingIntoTheVoid
<1>4. ASSUME NEW m \in Messages
      PROVE  Copies(m) >= Queued[m] + Owed(m)
  <2>1. Claimants(m) = {}
    BY <1>2 DEF Claimants
  <2>2. Owed(m) = 0
    BY <2>1, OwedNat, FS_EmptySet
  <2>3. Queued[m] \in Nat
    BY GateAssumption DEF GateAssumption
  <2>4. Len(entries[m]) = Queued[m]
    BY <2>3 DEF Init
  <2>5. Len(landed[m]) = 0
    BY DEF Init
  <2>6. Copies(m) = Queued[m] + 0
    BY <2>4, <2>5, Zenon DEF Copies
  <2> QED
    BY <2>2, <2>3, <2>6
<1> QED
  BY <1>1, <1>3, <1>4 DEF GInv, Covered

\* Steps of a command that leave the queues alone and do not concern "ack".
LEMMA QuietStepGInv ==
  ASSUME GInv, TypeOK', Untouched,
         \A b \in Commands :
            /\ cmd'[b].at = "ack" <=> cmd[b].at = "ack"
            /\ cmd[b].at = "ack" => cmd'[b].msg = cmd[b].msg
            /\ cmd'[b].at = "publish" => dest = "exists"
  PROVE  GInv'
<1>1. \A m \in Messages : Copies(m)' = Copies(m)
  BY CopiesSame DEF Untouched, queues
<1>2. Covered'
  BY <1>1, KeepsCovered
<1>3. Probed' /\ NothingIntoTheVoid'
  BY DEF GInv, Probed, NothingIntoTheVoid, Untouched, queues
<1> QED
  BY <1>2, <1>3 DEF GInv

LEMMA StepGInv == GInv /\ [Next]_vars => GInv'
<1> SUFFICES ASSUME GInv, [Next]_vars PROVE GInv'
  OBVIOUS
<1>1. TypeOK'
  BY StepTypeOK DEF GInv
<1>2. ASSUME NEW c \in Commands, NEW kind \in {"replay", "patch"},
             NEW confirm \in BOOLEAN, NEW m \in Messages, Begin(c, kind, confirm, m)
      PROVE  GInv'
  <2>1. \A b \in Commands :
            /\ cmd'[b].at = "ack" <=> cmd[b].at = "ack"
            /\ cmd[b].at = "ack" => cmd'[b].msg = cmd[b].msg
            /\ cmd'[b].at = "publish" => dest = "exists"
    BY <1>2 DEF GInv, TypeOK, Probed, Begin, Gate
  <2> QED
    BY <1>1, <1>2, <2>1, QuietStepGInv DEF Begin
<1>3. ASSUME NEW c \in Commands,
             \/ Read(c) \/ Preview(c) \/ Inspect(c) \/ Probe(c) \/ Audit(c)
             \/ Expire(c) \/ (Crash(c) /\ cmd[c].at # "ack")
             \/ \E yes \in BOOLEAN : Answer(c, yes)
      PROVE  GInv'
  <2>1. Untouched
    BY <1>3 DEF Read, Preview, Inspect, Probe, Audit, Expire, Crash, Answer
  <2>2. \A b \in Commands \ {c} : cmd'[b] = cmd[b]
    BY <1>3, GotoMoves DEF GInv, TypeOK, Read, Preview, Inspect, Probe, Audit, Expire,
                           Crash, Answer, StopWith
  <2>3. CASE Expire(c)
    <3>1. cmd'[c].at = cmd[c].at /\ cmd'[c].msg = cmd[c].msg
      BY <2>3, UnderWay DEF GInv, TypeOK, CommandStates, Expire
    <3> QED
      BY <1>1, <2>1, <2>2, <3>1, QuietStepGInv DEF GInv, Probed
  <2>4. CASE ~Expire(c)
    <3>1. cmd[c].at # "ack"
      BY <1>3, <2>4 DEF Read, Preview, Inspect, Probe, Audit, Answer
    <3>2. CASE Read(c) \/ Inspect(c)
      <4>1. cmd'[c].at \in {"preview", "ask", "probe", "done"}
        BY <3>2, UnderWay DEF GInv, TypeOK, CommandStates, Read, Inspect, Goto, Gate
      <4> QED
        BY <1>1, <2>1, <2>2, <3>1, <4>1, QuietStepGInv DEF GInv, Probed
    <3>3. CASE ~(Read(c) \/ Inspect(c))
      <4>1. PICK st : Goto(c, st) /\ st # "ack" /\ (st = "publish" => dest = "exists")
        BY <1>3, <2>4, <3>3 DEF Preview, Probe, Audit, Crash, Answer, StopWith
      <4>2. cmd'[c].at = st
        BY <4>1, GotoMoves DEF GInv
      <4> QED
        BY <1>1, <2>1, <2>2, <3>1, <4>1, <4>2, QuietStepGInv DEF GInv, Probed
    <3> QED
      BY <3>2, <3>3
  <2> QED
    BY <2>3, <2>4
<1>4. ASSUME NEW c \in Commands, Publish(c)
      PROVE  GInv'
  <2>1. Covered'
    BY <1>4, PublishCovered
  <2>2. dest' = dest /\ dest = "exists"
    BY <1>4 DEF GInv, Probed, Publish, Stored
  <2> QED
    BY <1>1, <2>1, <2>2 DEF GInv, Probed, NothingIntoTheVoid
<1>5. ASSUME NEW c \in Commands, PublishFailed(c)
      PROVE  GInv'
  <2>1. /\ dest' = dest /\ dest = "exists" /\ cmd[c].at = "publish"
        /\ Untouched \/ Stored(c)
    BY <1>5 DEF GInv, Probed, PublishFailed, Untouched, queues, Stored
  <2>2. \A m \in Messages : Copies(m)' \in {Copies(m), Copies(m) + 1}
    BY <2>1, StoredCopies, CopiesSame DEF GInv, Untouched, queues
  <2>3. \A b \in Commands :
            /\ cmd'[b].at = "ack" <=> cmd[b].at = "ack"
            /\ cmd[b].at = "ack" => cmd'[b].msg = cmd[b].msg
    BY <1>5 DEF GInv, TypeOK, PublishFailed, StopWith, Goto
  <2>4. Covered'
    BY <1>1, <2>2, <2>3, KeepsCovered
  <2> QED
    BY <1>1, <2>1, <2>4 DEF GInv, Probed, NothingIntoTheVoid
<1>6. ASSUME NEW c \in Commands,
             Ack(c) \/ AckFailed(c) \/ (Crash(c) /\ cmd[c].at = "ack")
      PROVE  GInv'
  <2>1. /\ cmd[c].at = "ack" /\ cmd'[c].at # "ack"
        /\ \A b \in Commands \ {c} : cmd'[b] = cmd[b]
    <3>1. CASE Ack(c)
      BY <3>1, UnderWay DEF GInv, TypeOK, CommandStates, Ack
    <3>2. CASE AckFailed(c) \/ (Crash(c) /\ cmd[c].at = "ack")
      <4>1. /\ cmd[c].at = "ack"
            /\ \E st \in {"done", "dead"} : Goto(c, st)
        BY <3>2 DEF AckFailed, Crash, StopWith
      <4> QED
        BY <4>1, GotoMoves DEF GInv
    <3> QED
      BY <1>6, <3>1, <3>2
  <2>2. Removed(c) \/ Untouched
    BY <1>6 DEF Ack, AckFailed, Crash
  <2>3. Covered'
    BY <2>1, <2>2, ReleaseCovered DEF Untouched, queues
  <2>4. dest' = dest /\ dest = "exists"
    BY <2>1, <2>2 DEF GInv, Probed, Removed, Untouched, queues
  <2> QED
    BY <1>1, <2>3, <2>4 DEF GInv, Probed, NothingIntoTheVoid
<1>7. ASSUME NEW m \in Messages, Redeliver(m)
      PROVE  GInv'
  <2>1. \A n \in Messages : Copies(n)' = Copies(n)
    BY <1>7, RedeliverMoves, Zenon DEF GInv, Copies
  <2>2. Covered'
    BY <1>1, <1>7, <2>1, KeepsCovered DEF Redeliver
  <2> QED
    BY <1>1, <1>7, <2>2 DEF GInv, Probed, NothingIntoTheVoid, Redeliver
<1>8. CASE UNCHANGED vars
  BY <1>1, <1>8, QuietStepGInv DEF GInv, Probed, vars, queues, Untouched
<1> QED
  BY <1>2, <1>3, <1>4, <1>5, <1>6, <1>7, <1>8 DEF Next, CommandStep

\* No entry of the dead-letter queue is lost by any number of replay and patch
\* commands at once: Execute acks after a confirmed publish only, to a
\* destination it has probed, and each ack removes one entry.
THEOREM NothingLost == Spec => []NoLoss
<1>1. GInv => NoLoss
  <2> SUFFICES ASSUME GInv, NEW m \in Messages PROVE Copies(m) >= Queued[m]
    BY DEF NoLoss
  <2> QED
    BY CopiesNat, OwedNat, GateAssumption DEF GInv, Covered, GateAssumption
<1> QED
  BY InitGInv, StepGInv, <1>1, PTL DEF Spec

\* No command publishes to a destination that is missing, however long ago
\* the preview or the prompt was (the probe of Execute).
THEOREM VoidUntouched == Spec => []NothingIntoTheVoid
<1>1. GInv => NothingIntoTheVoid
  BY DEF GInv
<1> QED
  BY InitGInv, StepGInv, <1>1, PTL DEF Spec
-----------------------------------------------------------------------------
(* The gate is one of the replays AtLeastOnce describes.                   *)

Held   == [m \in Messages |-> Len(entries[m])]
Landed == [m \in Messages |-> Len(landed[m])]
Claims == [m \in Messages |-> Owed(m)]

LEMMA LensNat ==
  ASSUME TypeOK
  PROVE  /\ Held \in [Messages -> Nat] /\ Landed \in [Messages -> Nat]
         /\ Claims \in [Messages -> Nat]
<1>1. ASSUME NEW m \in Messages PROVE Len(entries[m]) \in Nat /\ Len(landed[m]) \in Nat
  <2>1. entries[m] \in Seq(Bodies) /\ landed[m] \in Seq(Bodies)
    BY DEF TypeOK
  <2> QED
    BY <2>1
<1> QED
  BY <1>1, OwedNat DEF Held, Landed, Claims

LEMMA StoredLens ==
  ASSUME TypeOK, NEW c \in Commands, cmd[c].at # "new", Stored(c), dest = "exists"
  PROVE  Held' = Held /\ Landed' = [Landed EXCEPT ![Msg(c)] = @ + 1]
<1>1. Msg(c) \in Messages /\ cmd[c].body \in Bodies
  BY UnderWay
<1>2. /\ entries' = entries
      /\ landed' = [landed EXCEPT ![Msg(c)] = Append(@, cmd[c].body)]
  BY DEF Stored
<1>3. landed[Msg(c)] \in Seq(Bodies)
  BY <1>1 DEF TypeOK
<1>4. Len(landed'[Msg(c)]) = Len(landed[Msg(c)]) + 1
  BY <1>1, <1>2, <1>3, AppendBody DEF TypeOK
<1>5. \A m \in Messages \ {Msg(c)} : landed'[m] = landed[m]
  BY <1>1, <1>2 DEF TypeOK
<1>6. Held' = Held
  BY <1>2 DEF Held
<1>7. Landed' = [Landed EXCEPT ![Msg(c)] = @ + 1]
  BY <1>1, <1>4, <1>5, Zenon DEF Landed
<1> QED
  BY <1>6, <1>7

LEMMA RemovedLens ==
  ASSUME TypeOK, NEW c \in Commands, cmd[c].at # "new", Removed(c)
  PROVE  /\ Held' = [Held EXCEPT ![Msg(c)] = @ - 1] /\ Held[Msg(c)] > 0
         /\ Landed' = Landed
<1>1. Msg(c) \in Messages
  BY UnderWay
<1>2. PICK i \in 1..Len(entries[Msg(c)]) :
         entries' = [entries EXCEPT ![Msg(c)] = RemoveAt(@, i)]
  BY DEF Removed, Acked
<1>3. landed' = landed
  BY DEF Removed
<1>4. entries[Msg(c)] \in Seq(Bodies)
  BY <1>1 DEF TypeOK
<1>5. Len(entries'[Msg(c)]) = Len(entries[Msg(c)]) - 1
  BY <1>1, <1>2, <1>4, RemoveBody DEF TypeOK
<1>6. \A m \in Messages \ {Msg(c)} : entries'[m] = entries[m]
  BY <1>1, <1>2 DEF TypeOK
<1>7. Held[Msg(c)] > 0
  BY <1>1, <1>2, <1>4 DEF Held
<1> QED
  BY <1>1, <1>3, <1>5, <1>6, <1>7, Zenon DEF Held, Landed

LEMMA RedeliverLens ==
  ASSUME TypeOK, NEW m \in Messages, Redeliver(m)
  PROVE  /\ Held' = [Held EXCEPT ![m] = @ + 1]
         /\ Landed' = [Landed EXCEPT ![m] = @ - 1] /\ Landed[m] > 0
<1>1. PICK i \in 1..Len(landed[m]) :
         /\ entries' = [entries EXCEPT ![m] = Append(@, landed[m][i])]
         /\ landed' = [landed EXCEPT ![m] = RemoveAt(@, i)]
  BY DEF Redeliver
<1>2. /\ landed[m] \in Seq(Bodies) /\ entries[m] \in Seq(Bodies)
      /\ landed[m][i] \in Bodies
  BY <1>1 DEF TypeOK
<1>3. Len(landed'[m]) = Len(landed[m]) - 1
  BY <1>1, <1>2, RemoveBody DEF TypeOK
<1>4. Len(entries'[m]) = Len(entries[m]) + 1
  BY <1>1, <1>2, AppendBody DEF TypeOK
<1>5. \A n \in Messages \ {m} : landed'[n] = landed[n] /\ entries'[n] = entries[n]
  BY <1>1 DEF TypeOK
<1>6. Landed[m] > 0
  BY <1>1, <1>2 DEF Landed
<1> QED
  BY <1>3, <1>4, <1>5, <1>6, Zenon DEF Held, Landed

\* The claims: one more, one less, or as they were.
LEMMA ClaimsUp ==
  ASSUME TypeOK, NEW c \in Commands, cmd[c].at = "publish", Goto(c, "ack")
  PROVE  Claims' = [Claims EXCEPT ![Msg(c)] = @ + 1]
BY OwedUp DEF Claims

LEMMA ClaimsDown ==
  ASSUME NEW c \in Commands, cmd[c].at = "ack", cmd'[c].at # "ack",
         \A b \in Commands \ {c} : cmd'[b] = cmd[b]
  PROVE  Claims' = [Claims EXCEPT ![Msg(c)] = @ - 1]
BY OwedDown DEF Claims

LEMMA ClaimsSame ==
  ASSUME \A b \in Commands :
            /\ cmd'[b].at = "ack" <=> cmd[b].at = "ack"
            /\ cmd[b].at = "ack" => cmd'[b].msg = cmd[b].msg
  PROVE  Claims' = Claims
BY OwedSame DEF Claims

\* A command at "ack" holds a claim.
LEMMA ClaimHeld ==
  ASSUME NEW c \in Commands, cmd[c].at = "ack", Msg(c) \in Messages
  PROVE  Claims[Msg(c)] > 0
<1>1. c \in Claimants(Msg(c))
  BY DEF Claimants
<1>2. Owed(Msg(c)) # 0 /\ Owed(Msg(c)) \in Nat
  BY <1>1, OwedNat, FS_EmptySet
<1> QED
  BY <1>2 DEF Claims

LEMMA LensSame ==
  ASSUME UNCHANGED <<entries, landed>>
  PROVE  Held' = Held /\ Landed' = Landed
BY DEF Held, Landed

\* Steps that leave the queues and the claims alone are no steps of the promise.
LEMMA QuietStepPromised ==
  ASSUME Untouched,
         \A b \in Commands :
            /\ cmd'[b].at = "ack" <=> cmd[b].at = "ack"
            /\ cmd[b].at = "ack" => cmd'[b].msg = cmd[b].msg
  PROVE  UNCHANGED Promise!vars
BY LensSame, ClaimsSame DEF Untouched, queues, Promise!vars, Held, Landed, Claims

\* Each action of the promise is a step of it.
LEMMA PromisedActions ==
  ASSUME NEW m \in Messages
  PROVE  Promise!Deliver(m) \/ Promise!Remove(m) \/ Promise!Return(m) => Promise!Next
BY DEF Promise!Next

\* A publish that is stored, confirmed to the command or not.
LEMMA DeliverPromised ==
  ASSUME TypeOK, Probed, NEW c \in Commands, cmd[c].at = "publish", Stored(c),
         \/ Goto(c, "ack")
         \/ \E res \in Results : StopWith(c, res)
  PROVE  Promise!Next
<1>1. Msg(c) \in Messages /\ dest = "exists"
  BY UnderWay DEF Probed
<1>2. Held' = Held /\ Landed' = [Landed EXCEPT ![Msg(c)] = @ + 1]
  BY <1>1, StoredLens
<1>3. Claims' \in {Claims, [Claims EXCEPT ![Msg(c)] = @ + 1]}
  <2>1. CASE Goto(c, "ack")
    BY <2>1, ClaimsUp
  <2>2. CASE \E res \in Results : StopWith(c, res)
    <3>1. Goto(c, "done")
      BY <2>2 DEF StopWith
    <3>2. /\ cmd'[c].at = "done"
          /\ \A b \in Commands \ {c} : cmd'[b] = cmd[b]
      BY <3>1, GotoMoves
    <3> QED
      BY <3>2, ClaimsSame
  <2> QED
    BY <2>1, <2>2
<1>4. PICK m \in Messages : m = Msg(c)
  BY <1>1
<1>5. Promise!Deliver(m)
  BY <1>2, <1>3, <1>4 DEF Promise!Deliver, Held, Landed, Claims
<1> QED
  BY <1>5, PromisedActions

\* A command leaves "ack": it has removed an entry, paid for by its claim,
\* or it forgets the claim.
LEMMA ReleasePromised ==
  ASSUME TypeOK, NEW c \in Commands, cmd[c].at = "ack", cmd'[c].at # "ack",
         \A b \in Commands \ {c} : cmd'[b] = cmd[b],
         Removed(c) \/ Untouched
  PROVE  Promise!Next
<1>1. Msg(c) \in Messages /\ Claims[Msg(c)] > 0 /\ Claims \in [Messages -> Nat]
  BY UnderWay, ClaimHeld, LensNat
<1>2. Claims' = [Claims EXCEPT ![Msg(c)] = @ - 1]
  BY ClaimsDown
<1>3. CASE Removed(c)
  <2>1. /\ Held' = [Held EXCEPT ![Msg(c)] = @ - 1] /\ Held[Msg(c)] > 0
        /\ Landed' = Landed
    BY <1>3, RemovedLens
  <2>2. PICK m \in Messages : m = Msg(c)
    BY <1>1
  <2>3. Promise!Remove(m)
    BY <1>1, <1>2, <2>1, <2>2 DEF Promise!Remove, Held, Landed, Claims
  <2> QED
    BY <2>3, PromisedActions
<1>4. CASE Untouched
  <2>1. Held' = Held /\ Landed' = Landed
    BY <1>4, LensSame DEF Untouched, queues
  <2>2. Claims' \in [Messages -> Nat] /\ \A m \in Messages : Claims'[m] <= Claims[m]
    BY <1>1, <1>2
  <2>3. Promise!Forget
    BY <2>1, <2>2 DEF Promise!Forget, Held, Landed, Claims
  <2> QED
    BY <2>3 DEF Promise!Next
<1> QED
  BY <1>3, <1>4

LEMMA StepPromised == GInv /\ [Next]_vars => [Promise!Next]_(Promise!vars)
<1> SUFFICES ASSUME GInv, [Next]_vars PROVE Promise!Next \/ UNCHANGED Promise!vars
  OBVIOUS
<1> USE DEF GInv
<1> DEFINE Promised == Promise!Next \/ UNCHANGED Promise!vars
<1>1. ASSUME NEW c \in Commands, NEW kind \in {"replay", "patch"},
             NEW confirm \in BOOLEAN, NEW m \in Messages, Begin(c, kind, confirm, m)
      PROVE  Promised
  <2>1. \A b \in Commands :
            /\ cmd'[b].at = "ack" <=> cmd[b].at = "ack"
            /\ cmd[b].at = "ack" => cmd'[b].msg = cmd[b].msg
    BY <1>1 DEF TypeOK, Begin, Gate
  <2> QED
    BY <1>1, <2>1, QuietStepPromised DEF Begin
<1>2. ASSUME NEW c \in Commands, cmd[c].at # "ack",
             \/ Read(c) \/ Preview(c) \/ Inspect(c) \/ Probe(c) \/ Audit(c)
             \/ Expire(c) \/ Crash(c) \/ \E yes \in BOOLEAN : Answer(c, yes)
             \/ PublishFailed(c) /\ Untouched
      PROVE  Promised
  <2>1. Untouched
    BY <1>2 DEF Read, Preview, Inspect, Probe, Audit, Expire, Crash, Answer
  <2>2. /\ cmd'[c].at # "ack"
        /\ \A b \in Commands \ {c} : cmd'[b] = cmd[b]
    <3>1. CASE Read(c) \/ Inspect(c) \/ Expire(c)
      BY <1>2, <3>1, UnderWay DEF TypeOK, CommandStates, Read, Inspect, Expire, Goto, Gate
    <3>2. CASE ~(Read(c) \/ Inspect(c) \/ Expire(c))
      <4>1. PICK st : Goto(c, st) /\ st # "ack"
        BY <1>2, <3>2 DEF Preview, Probe, Audit, Crash, Answer, PublishFailed, StopWith
      <4> QED
        BY <4>1, GotoMoves
    <3> QED
      BY <3>1, <3>2
  <2> QED
    BY <1>2, <2>1, <2>2, QuietStepPromised
<1>3. ASSUME NEW c \in Commands, Expire(c)
      PROVE  Promised
  <2>1. \A b \in Commands : cmd'[b].at = cmd[b].at /\ cmd'[b].msg = cmd[b].msg
    BY <1>3, UnderWay DEF TypeOK, CommandStates, Expire
  <2> QED
    BY <1>3, <2>1, QuietStepPromised DEF Expire
<1>4. ASSUME NEW c \in Commands, Publish(c) \/ (PublishFailed(c) /\ Stored(c))
      PROVE  Promised
  BY <1>4, DeliverPromised DEF Publish, PublishFailed, Results
<1>5. ASSUME NEW c \in Commands,
             Ack(c) \/ AckFailed(c) \/ (Crash(c) /\ cmd[c].at = "ack")
      PROVE  Promised
  <2>1. /\ cmd[c].at = "ack" /\ cmd'[c].at # "ack"
        /\ \A b \in Commands \ {c} : cmd'[b] = cmd[b]
    <3>1. CASE Ack(c)
      BY <3>1, UnderWay DEF TypeOK, CommandStates, Ack
    <3>2. CASE AckFailed(c) \/ (Crash(c) /\ cmd[c].at = "ack")
      <4>1. /\ cmd[c].at = "ack"
            /\ \E st \in {"done", "dead"} : Goto(c, st)
        BY <3>2 DEF AckFailed, Crash, StopWith
      <4> QED
        BY <4>1, GotoMoves
    <3> QED
      BY <1>5, <3>1, <3>2
  <2>2. Removed(c) \/ Untouched
    BY <1>5 DEF Ack, AckFailed, Crash
  <2> QED
    BY <2>1, <2>2, ReleasePromised
<1>6. ASSUME NEW m \in Messages, Redeliver(m)
      PROVE  Promised
  <2>1. Claims' = Claims
    BY <1>6, ClaimsSame DEF Redeliver
  <2>2. Promise!Return(m)
    BY <1>6, <2>1, RedeliverLens DEF Promise!Return, Held, Landed, Claims
  <2> QED
    BY <2>2 DEF Promise!Next
<1>7. UNCHANGED vars => Promised
  BY QuietStepPromised DEF vars, queues, Untouched
<1> HIDE DEF Promised, GInv
<1>8. \A c \in Commands : PublishFailed(c) => Untouched \/ Stored(c)
  BY DEF PublishFailed
<1>9. \A c \in Commands :
         /\ Read(c) \/ Preview(c) \/ Inspect(c) \/ Probe(c) \/ Audit(c)
               \/ PublishFailed(c) \/ (\E yes \in BOOLEAN : Answer(c, yes))
            => cmd[c].at # "ack"
  BY DEF Read, Preview, Inspect, Probe, Audit, PublishFailed, Answer
<1>10. ASSUME NEW c \in Commands,
              \/ CommandStep(c) \/ Expire(c) \/ Crash(c)
              \/ \E yes \in BOOLEAN : Answer(c, yes)
       PROVE  Promised
  <2>1. CASE cmd[c].at = "ack"
    BY <1>3, <1>4, <1>5, <1>9, <1>10, <2>1 DEF CommandStep
  <2>2. CASE cmd[c].at # "ack"
    BY <1>2, <1>3, <1>4, <1>5, <1>8, <1>10, <2>2 DEF CommandStep
  <2> QED
    BY <2>1, <2>2
<1>11. Promised
  BY <1>1, <1>6, <1>7, <1>10 DEF Next
<1> QED
  BY <1>11 DEF Promised

\* The safety gate implements the promise of AtLeastOnce, without any
\* assumption: any number of replay and patch commands at once, on entries
\* that share an ID, with every failure of the broker (Execute publishes,
\* then acks).
THEOREM GateIsAtLeastOnce == Spec => RefinesAtLeastOnce
<1>1. Init => Promise!Init
  <2> SUFFICES ASSUME Init PROVE Promise!Init
    OBVIOUS
  <2>1. GInv /\ \A c \in Commands : cmd[c].at = "new"
    BY InitGInv DEF Init, New
  <2>2. \A m \in Messages : Claimants(m) = {}
    BY <2>1 DEF Claimants
  <2>3. \A m \in Messages : Owed(m) = 0
    BY <2>2, OwedNat, FS_EmptySet
  <2>4. Held \in [Messages -> Nat] /\ Landed \in [Messages -> Nat]
    BY <2>1, LensNat DEF GInv
  <2>5. ASSUME NEW m \in Messages PROVE Copies(m) >= 1
    <3>1. Copies(m) >= Queued[m] + Owed(m) /\ Copies(m) \in Nat
      BY <2>1, CopiesNat DEF GInv, Covered
    <3> QED
      BY <2>3, <3>1, GateAssumption DEF GateAssumption
  <2>6. \A m \in Messages : Held[m] + Landed[m] = Copies(m)
    BY DEF Held, Landed, Copies
  <2> QED
    BY <2>3, <2>4, <2>5, <2>6 DEF Promise!Init, Promise!Copies, Held, Landed
<1> QED
  BY <1>1, InitGInv, StepGInv, StepPromised, PTL
  DEF Spec, RefinesAtLeastOnce, Promise!Spec

-----------------------------------------------------------------------------
(* The audit trail and the commands it speaks of.                          *)

\* A command touches a queue when it publishes or acks, never before.
TouchedLate ==
    \A c \in touched : cmd[c].at \in {"ack", "audit", "done", "dead"}

\* The ack is over when there is an answer to it.
AckedLate ==
    \A c \in Commands :
       /\ cmd[c].acked # "no" => cmd[c].at \in {"audit", "done", "dead"}
       /\ cmd[c].at = "audit" => cmd[c].acked # "no"

\* A row is the last thing a command does.
RowsAtEnd == \A row \in audit : row.by \in Commands /\ cmd[row.by].at = "done"

TInv == /\ TypeOK /\ TouchedLate /\ AckedLate /\ RowsAtEnd
        /\ EffectsAudited /\ TrailIsTrue

\* Command c stops with a row that is true of it.
Reports(c, res) ==
    /\ StopWith(c, res)
    /\ res = "success" => cmd'[c].acked # "no"
    /\ res \in {"publish_failed", "ack_failed"} => cmd'[c].acked = "no"
    /\ c \in touched' => res \in {"success", "publish_failed", "ack_failed"}

\* What every step of a command c has in common.
Advances(c) ==
    /\ \A b \in Commands \ {c} : cmd'[b] = cmd[b]
    /\ cmd[c].at \notin {"done", "dead"}
    /\ touched' \in {touched, touched \cup {c}}
    /\ c \in touched' => cmd'[c].at \in {"ack", "audit", "done", "dead"}
    /\ cmd'[c].acked # "no" => cmd'[c].at \in {"audit", "done", "dead"}
    /\ cmd'[c].at = "audit" => cmd'[c].acked # "no"
    /\ \/ UNCHANGED audit /\ (c \in touched' => cmd'[c].at # "done")
       \/ \E res \in Results : Reports(c, res)

LEMMA AdvanceTrail ==
  ASSUME TInv, TypeOK', NEW c \in Commands, Advances(c)
  PROVE  TInv'
<1> USE DEF TInv
<1>1. TouchedLate' /\ AckedLate'
  BY DEF TypeOK, Advances, TouchedLate, AckedLate
<1>2. \A row \in audit : row.by \in Commands \ {c} /\ cmd'[row.by] = cmd[row.by]
  BY DEF RowsAtEnd, Advances
<1>3. CASE UNCHANGED audit /\ (c \in touched' => cmd'[c].at # "done")
  <2>1. RowsAtEnd'
    BY <1>2, <1>3 DEF RowsAtEnd
  <2>2. TrailIsTrue'
    BY <1>2, <1>3 DEF TrailIsTrue, Advances
  <2>3. ASSUME "store" \notin Faults, NEW b \in touched', cmd'[b].at = "done"
        PROVE  \E row \in audit' : row.by = b
                  /\ row.result \in {"success", "publish_failed", "ack_failed"}
    <3>1. b # c /\ b \in touched /\ b \in Commands
      BY <1>3, <2>3 DEF Advances, TypeOK
    <3> QED
      BY <1>3, <2>3, <3>1 DEF EffectsAudited, Advances
  <2> QED
    BY <1>1, <2>1, <2>2, <2>3 DEF EffectsAudited
<1>4. ASSUME NEW res \in Results, Reports(c, res)
      PROVE  TInv'
  <2> DEFINE new == Row(c, res)
  <2>1. audit \subseteq audit' /\ audit' \subseteq audit \cup {new}
        /\ ("store" \notin Faults => new \in audit')
    BY <1>4 DEF Reports, StopWith, AppendRow, AppendRows
  <2>2. new.by = c /\ new.result = res
    BY DEF Row
  <2>3. cmd'[c].at = "done"
    BY <1>4, GotoMoves DEF Reports, StopWith
  <2> HIDE DEF new
  <2>4. RowsAtEnd'
    BY <1>2, <2>1, <2>2, <2>3 DEF RowsAtEnd
  <2>5. ASSUME NEW row \in audit'
        PROVE  /\ row.result = "success" => cmd'[row.by].acked # "no"
               /\ row.result \in {"publish_failed", "ack_failed"}
                     => cmd'[row.by].acked = "no"
               /\ row.result \in {"dry_run", "refused"} => row.by \notin touched'
    <3>1. CASE row = new
      BY <1>4, <2>2, <3>1 DEF Reports
    <3>2. CASE row \in audit
      BY <1>2, <3>2 DEF TrailIsTrue, Advances
    <3> QED
      BY <2>1, <2>5, <3>1, <3>2
  <2>6. \A r1, r2 \in audit' : r1.by = r2.by => r1 = r2
    BY <1>2, <2>1, <2>2 DEF TrailIsTrue
  <2>7. TrailIsTrue'
    BY <2>5, <2>6 DEF TrailIsTrue
  <2>8. ASSUME "store" \notin Faults, NEW b \in touched', cmd'[b].at = "done"
        PROVE  \E row \in audit' : row.by = b
                  /\ row.result \in {"success", "publish_failed", "ack_failed"}
    <3>1. CASE b = c
      BY <1>4, <2>1, <2>2, <2>8, <3>1 DEF Reports
    <3>2. CASE b # c
      <4>1. b \in touched /\ b \in Commands
        BY <2>8, <3>2 DEF Advances, TypeOK
      <4> QED
        BY <2>1, <2>8, <3>2, <4>1 DEF EffectsAudited, Advances
    <3> QED
      BY <3>1, <3>2
  <2> QED
    BY <1>1, <2>4, <2>7, <2>8 DEF EffectsAudited
<1> QED
  BY <1>3, <1>4 DEF Advances

LEMMA InitTrail == Init => TInv
<1> SUFFICES ASSUME Init PROVE TInv
  OBVIOUS
<1>1. audit = {} /\ touched = {} /\ \A c \in Commands : cmd[c] = New
  BY DEF Init, StoreInit
<1> QED
  BY <1>1, InitTypeOK
  DEF TInv, TouchedLate, AckedLate, RowsAtEnd, EffectsAudited, TrailIsTrue, New

\* A command that goes to another stage keeps the answer to its ack.
LEMMA GotoKeeps ==
  ASSUME TypeOK, NEW c \in Commands, NEW st, Goto(c, st)
  PROVE  cmd'[c].at = st /\ cmd'[c].acked = cmd[c].acked
BY UnderWay, GotoMoves DEF CommandStates

LEMMA StepTrail == TInv /\ [Next]_vars => TInv'
<1> SUFFICES ASSUME TInv, [Next]_vars PROVE TInv'
  OBVIOUS
<1> USE DEF TInv
<1>1. TypeOK'
  BY StepTypeOK
<1>2. ASSUME NEW c \in Commands
      PROVE  /\ cmd[c].at \notin {"ack", "audit", "done", "dead"} => c \notin touched
             /\ cmd[c].at \notin {"audit", "done", "dead"} => cmd[c].acked = "no"
  BY DEF TouchedLate, AckedLate
<1>3. ASSUME NEW c \in Commands, NEW kind \in {"replay", "patch"},
             NEW confirm \in BOOLEAN, NEW m \in Messages, Begin(c, kind, confirm, m)
      PROVE  Advances(c)
  <2>1. /\ cmd'[c].at \in {"read", "preview", "ask"} /\ cmd'[c].acked = "no"
        /\ cmd[c].at = "new" /\ \A b \in Commands \ {c} : cmd'[b] = cmd[b]
    BY <1>3 DEF Begin, Gate, TypeOK
  <2> QED
    BY <1>2, <1>3, <2>1 DEF Advances, Begin, Untouched, storeVars
<1>4. ASSUME NEW c \in Commands, Read(c) \/ Inspect(c)
      PROVE  Advances(c)
  <2>1. /\ cmd'[c].at \in {"preview", "ask", "probe", "done"}
        /\ cmd'[c].acked = cmd[c].acked
        /\ \A b \in Commands \ {c} : cmd'[b] = cmd[b]
    BY <1>4, UnderWay DEF TypeOK, CommandStates, Read, Inspect, Goto, Gate
  <2>2. cmd[c].at \in {"read", "inspect"} /\ touched' = touched /\ audit' = audit
    BY <1>4 DEF Read, Inspect, Untouched, storeVars
  <2> QED
    BY <1>2, <2>1, <2>2 DEF Advances
<1>5. ASSUME NEW c \in Commands, Expire(c)
      PROVE  Advances(c)
  <2>1. /\ cmd'[c].at = cmd[c].at /\ cmd'[c].acked = cmd[c].acked
        /\ \A b \in Commands \ {c} : cmd'[b] = cmd[b]
    BY <1>5, UnderWay DEF TypeOK, CommandStates, Expire
  <2>2. /\ cmd[c].at \notin {"new", "done", "dead"}
        /\ touched' = touched /\ audit' = audit
    BY <1>5 DEF Expire, Running, Untouched, storeVars
  <2> QED
    BY <1>2, <2>1, <2>2 DEF Advances, TouchedLate, AckedLate
<1>6. ASSUME NEW c \in Commands, NEW st,
             Goto(c, st), UNCHANGED audit, cmd[c].at \notin {"done", "dead"},
             \/ st = "dead" /\ Untouched
             \/ /\ Untouched /\ st \in {"inspect", "done", "publish"}
                /\ cmd[c].at \in {"ask", "preview", "probe"}
             \/ Stored(c) /\ st = "ack" /\ cmd[c].at = "publish"
      PROVE  Advances(c)
  <2>1. /\ cmd'[c].at = st /\ cmd'[c].acked = cmd[c].acked
        /\ \A b \in Commands \ {c} : cmd'[b] = cmd[b]
    BY <1>6, GotoKeeps, GotoMoves
  <2> QED
    BY <1>2, <1>6, <2>1 DEF Advances, TouchedLate, AckedLate, Untouched, Stored
<1>7. ASSUME NEW c \in Commands, NEW res \in Results, StopWith(c, res),
             \/ /\ Untouched /\ cmd[c].at \in {"preview", "probe"}
                /\ res \in {"dry_run", "refused"}
             \/ /\ Untouched \/ Stored(c)
                /\ cmd[c].at = "publish" /\ res = "publish_failed"
             \/ /\ Untouched \/ Removed(c)
                /\ cmd[c].at = "ack" /\ res = "ack_failed"
             \/ Untouched /\ cmd[c].at = "audit" /\ res = "success"
      PROVE  Advances(c)
  <2>1. /\ cmd'[c].at = "done" /\ cmd'[c].acked = cmd[c].acked
        /\ \A b \in Commands \ {c} : cmd'[b] = cmd[b]
    BY <1>7, GotoKeeps, GotoMoves DEF StopWith
  <2>2. touched' \in {touched, touched \cup {c}}
    BY <1>7 DEF Untouched, Stored, Removed
  <2>3. Reports(c, res)
    BY <1>2, <1>7, <2>1 DEF Reports, AckedLate, Untouched
  <2> QED
    BY <1>7, <2>1, <2>2, <2>3 DEF Advances
<1>8. ASSUME NEW c \in Commands, Ack(c)
      PROVE  Advances(c)
  <2>1. PICK how \in {"yes", "lost"} :
           cmd' = [cmd EXCEPT ![c].at = "audit", ![c].acked = how]
    BY <1>8 DEF Ack
  <2>2. /\ cmd'[c].at = "audit" /\ cmd'[c].acked = how
        /\ \A b \in Commands \ {c} : cmd'[b] = cmd[b]
    BY <2>1, UnderWay DEF TypeOK, CommandStates
  <2>3. touched' \in {touched, touched \cup {c}} /\ audit' = audit
        /\ cmd[c].at = "ack"
    BY <1>8 DEF Ack, Removed, Untouched, storeVars
  <2> QED
    BY <2>1, <2>2, <2>3 DEF Advances
<1>9. ASSUME NEW c \in Commands,
             \/ Preview(c) \/ Probe(c) \/ Crash(c) \/ Publish(c) \/ PublishFailed(c)
             \/ AckFailed(c) \/ Audit(c) \/ \E yes \in BOOLEAN : Answer(c, yes)
      PROVE  Advances(c)
  <2>1. CASE Preview(c) \/ Probe(c) \/ PublishFailed(c) \/ AckFailed(c) \/ Audit(c)
    <3>1. \/ \E res \in Results : StopWith(c, res) /\
                \/ /\ Untouched /\ cmd[c].at \in {"preview", "probe"}
                   /\ res \in {"dry_run", "refused"}
                \/ /\ Untouched \/ Stored(c)
                   /\ cmd[c].at = "publish" /\ res = "publish_failed"
                \/ /\ Untouched \/ Removed(c)
                   /\ cmd[c].at = "ack" /\ res = "ack_failed"
                \/ Untouched /\ cmd[c].at = "audit" /\ res = "success"
          \/ \E st \in {"done", "publish"} : Goto(c, st) /\ UNCHANGED audit /\ Untouched
                                  /\ cmd[c].at \in {"preview", "probe"}
      BY <2>1 DEF Preview, Probe, PublishFailed, AckFailed, Audit, Results, storeVars
    <3> QED
      BY <3>1, <1>6, <1>7
  <2>2. CASE Crash(c) \/ Publish(c) \/ \E yes \in BOOLEAN : Answer(c, yes)
    BY <1>6, <2>2 DEF Crash, Publish, Answer, Running, storeVars
  <2> QED
    BY <1>9, <2>1, <2>2
<1>10. ASSUME UNCHANGED <<cmd, touched, audit>> PROVE TInv'
  BY <1>1, <1>10
  DEF TouchedLate, AckedLate, RowsAtEnd, EffectsAudited, TrailIsTrue
<1>11. ASSUME NEW c \in Commands, Advances(c) PROVE TInv'
  BY <1>1, <1>11, AdvanceTrail
<1> HIDE DEF TInv
<1> QED
  BY <1>3, <1>4, <1>5, <1>8, <1>9, <1>10, <1>11
  DEF Next, CommandStep, Redeliver, vars, storeVars

\* Whatever a command did to a queue is in the audit trail when it returns,
\* as long as every write succeeds (safety.go: Execute audits a confirmed
\* publish, a failed one, and a failed ack).
THEOREM EveryEffectAudited == Spec => []EffectsAudited
<1>1. TInv => EffectsAudited
  BY DEF TInv
<1> QED
  BY <1>1, InitTrail, StepTrail, PTL DEF Spec

\* The trail never says of a command what is not so, and never two things of
\* one command (safety.go: the last thing Execute and DryRun do is the row).
THEOREM TrailSpeaksTruth == Spec => []TrailIsTrue
<1>1. TInv => TrailIsTrue
  BY DEF TInv
<1> QED
  BY <1>1, InitTrail, StepTrail, PTL DEF Spec

-----------------------------------------------------------------------------
(* Who is to blame for a copy too many.                                    *)

Offenders(m) == {c \in touched : Msg(c) = m /\ cmd[c].acked # "yes"}

Duplicates(m) == Copies(m) - Queued[m]

LEMMA CommandsFinite ==
  ASSUME NEW S, S \subseteq Commands
  PROVE  IsFiniteSet(S) /\ Cardinality(S) \in Nat
<1>1. IsFiniteSet(Commands)
  BY FS_Interval, GateAssumption DEF GateAssumption, Commands
<1> QED
  BY <1>1, FS_Subset, FS_CardinalityType

LEMMA OffendersFinite ==
  ASSUME TypeOK, NEW m
  PROVE  IsFiniteSet(Offenders(m)) /\ Cardinality(Offenders(m)) \in Nat
BY CommandsFinite DEF Offenders, TypeOK

LEMMA AccountedMeans ==
  DuplicatesAccounted <=>
     \A m \in Messages : Duplicates(m) <= Cardinality(Offenders(m))
BY DEF DuplicatesAccounted, Duplicates, Offenders

\* No copy comes, and nobody is cleared.
LEMMA NobodyCleared ==
  ASSUME TypeOK, TypeOK', DuplicatesAccounted,
         \A m \in Messages : Copies(m)' \in {Copies(m), Copies(m) - 1},
         touched \subseteq touched',
         \A c \in touched : /\ cmd'[c].msg = cmd[c].msg
                            /\ cmd'[c].acked = "yes" => cmd[c].acked = "yes"
  PROVE  DuplicatesAccounted'
<1> SUFFICES ASSUME NEW m \in Messages
             PROVE  Duplicates(m)' <= Cardinality(Offenders(m)')
  BY DEF DuplicatesAccounted, Duplicates, Offenders
<1>1. Offenders(m) \subseteq Offenders(m)'
  BY DEF Offenders, Msg
<1>2. IsFiniteSet(Offenders(m)') /\ Cardinality(Offenders(m)') \in Nat
  BY CommandsFinite DEF Offenders, TypeOK
<1>3. Cardinality(Offenders(m)) <= Cardinality(Offenders(m)')
  BY <1>1, <1>2, FS_Subset
<1>4. Duplicates(m) <= Cardinality(Offenders(m))
  BY AccountedMeans
<1>5. /\ Copies(m) \in Nat /\ Queued[m] \in Nat
      /\ Copies(m)' \in {Copies(m), Copies(m) - 1}
  BY CopiesNat, GateAssumption DEF GateAssumption
<1>6. Cardinality(Offenders(m)) \in Nat
  BY OffendersFinite
<1> QED
  BY <1>2, <1>3, <1>4, <1>5, <1>6 DEF Duplicates

\* A publish that is stored makes its command an offender.
LEMMA PublishAccounted ==
  ASSUME GInv, TInv, TypeOK', DuplicatesAccounted, NEW c \in Commands,
         cmd[c].at = "publish", Stored(c),
         Goto(c, "ack") \/ Goto(c, "done")
  PROVE  DuplicatesAccounted'
<1> SUFFICES ASSUME NEW m \in Messages
             PROVE  Duplicates(m)' <= Cardinality(Offenders(m)')
  BY DEF DuplicatesAccounted, Duplicates, Offenders
<1>1. /\ cmd'[c].acked = "no" /\ cmd'[c].msg = cmd[c].msg /\ c \notin touched
      /\ \A b \in Commands \ {c} : cmd'[b] = cmd[b]
      /\ touched' = touched \cup {c} /\ touched \subseteq Commands
  BY GotoKeeps, GotoMoves DEF TInv, TypeOK, TouchedLate, AckedLate, Stored
<1>2. Copies(m)' = IF m = Msg(c) THEN Copies(m) + 1 ELSE Copies(m)
  BY StoredCopies DEF GInv, Probed
<1>3. /\ Duplicates(m) <= Cardinality(Offenders(m))
      /\ Copies(m) \in Nat /\ Queued[m] \in Nat
      /\ Cardinality(Offenders(m)) \in Nat /\ IsFiniteSet(Offenders(m))
  BY AccountedMeans, CopiesNat, OffendersFinite, GateAssumption DEF GInv, GateAssumption
<1>4. CASE m = Msg(c)
  <2>1. Offenders(m)' = Offenders(m) \cup {c} /\ c \notin Offenders(m)
    BY <1>1, <1>4 DEF Offenders, Msg
  <2>2. Cardinality(Offenders(m)') = Cardinality(Offenders(m)) + 1
    BY <1>3, <2>1, FS_AddElement
  <2>3. Duplicates(m)' = Duplicates(m) + 1
    BY <1>2, <1>3, <1>4 DEF Duplicates
  <2> QED
    BY <1>3, <2>2, <2>3 DEF Duplicates
<1>5. CASE m # Msg(c)
  <2>1. Offenders(m)' = Offenders(m)
    BY <1>1, <1>5 DEF Offenders, Msg
  <2>2. Duplicates(m)' = Duplicates(m)
    BY <1>2, <1>5 DEF Duplicates
  <2> QED
    BY <1>3, <2>1, <2>2
<1> QED
  BY <1>4, <1>5

\* An ack that removes an entry clears its command, and one copy is gone.
LEMMA AckAccounted ==
  ASSUME TInv, TypeOK', DuplicatesAccounted, NEW c \in Commands,
         cmd[c].at = "ack", Removed(c),
         cmd' = [cmd EXCEPT ![c].at = "audit", ![c].acked = "yes"]
  PROVE  DuplicatesAccounted'
<1> SUFFICES ASSUME NEW m \in Messages
             PROVE  Duplicates(m)' <= Cardinality(Offenders(m)')
  BY DEF DuplicatesAccounted, Duplicates, Offenders
<1>1. /\ cmd'[c].acked = "yes" /\ cmd'[c].msg = cmd[c].msg
      /\ \A b \in Commands \ {c} : cmd'[b] = cmd[b]
      /\ touched' = touched \cup {c} /\ touched \subseteq Commands
  BY UnderWay DEF TInv, TypeOK, CommandStates, Removed
<1>2. Copies(m)' = IF m = Msg(c) THEN Copies(m) - 1 ELSE Copies(m)
  BY RemovedCopies DEF TInv
<1>3. /\ Duplicates(m) <= Cardinality(Offenders(m))
      /\ Copies(m) \in Nat /\ Queued[m] \in Nat
      /\ Cardinality(Offenders(m)) \in Nat /\ IsFiniteSet(Offenders(m))
  BY AccountedMeans, CopiesNat, OffendersFinite, GateAssumption DEF TInv, GateAssumption
<1>4. CASE m = Msg(c)
  <2>1. Offenders(m)' = Offenders(m) \ {c}
    BY <1>1, <1>4 DEF Offenders, Msg
  <2>2. Cardinality(Offenders(m)') \in {Cardinality(Offenders(m)), Cardinality(Offenders(m)) - 1}
    <3>1. CASE c \in Offenders(m)
      BY <1>3, <2>1, <3>1, FS_RemoveElement
    <3>2. CASE c \notin Offenders(m)
      <4>1. Offenders(m)' = Offenders(m)
        BY <2>1, <3>2
      <4> QED
        BY <4>1
    <3> QED
      BY <3>1, <3>2
  <2>3. Duplicates(m)' = Duplicates(m) - 1
    BY <1>2, <1>3, <1>4 DEF Duplicates
  <2> QED
    BY <1>3, <2>2, <2>3 DEF Duplicates
<1>5. CASE m # Msg(c)
  <2>1. Offenders(m)' = Offenders(m)
    BY <1>1, <1>5 DEF Offenders, Msg
  <2>2. Duplicates(m)' = Duplicates(m)
    BY <1>2, <1>5 DEF Duplicates
  <2> QED
    BY <1>3, <2>1, <2>2
<1> QED
  BY <1>4, <1>5

LEMMA StepAccounted ==
  GInv /\ TInv /\ DuplicatesAccounted /\ [Next]_vars => DuplicatesAccounted'
<1> SUFFICES ASSUME GInv, TInv, DuplicatesAccounted, [Next]_vars
             PROVE  DuplicatesAccounted'
  OBVIOUS
<1>1. TypeOK /\ TypeOK'
  BY StepTypeOK DEF GInv
<1>2. ASSUME UNCHANGED <<entries, landed>>, touched \subseteq touched',
             \A c \in touched : /\ cmd'[c].msg = cmd[c].msg
                                /\ cmd'[c].acked = "yes" => cmd[c].acked = "yes"
      PROVE  DuplicatesAccounted'
  BY <1>1, <1>2, NobodyCleared, CopiesSame
<1>3. ASSUME NEW c \in Commands, NEW kind \in {"replay", "patch"},
             NEW confirm \in BOOLEAN, NEW m \in Messages, Begin(c, kind, confirm, m)
      PROVE  DuplicatesAccounted'
  <2>1. c \notin touched /\ \A b \in Commands \ {c} : cmd'[b] = cmd[b]
    BY <1>1, <1>3 DEF TInv, TouchedLate, Begin, TypeOK
  <2>2. UNCHANGED <<entries, landed, touched>>
    BY <1>3 DEF Begin, Untouched, queues
  <2> QED
    BY <1>1, <1>2, <2>1, <2>2 DEF TypeOK
<1>4. ASSUME NEW c \in Commands, NEW st, Goto(c, st), Untouched
      PROVE  DuplicatesAccounted'
  <2>1. /\ cmd'[c].msg = cmd[c].msg /\ cmd'[c].acked = cmd[c].acked
        /\ \A b \in Commands \ {c} : cmd'[b] = cmd[b]
    BY <1>1, <1>4, GotoKeeps, GotoMoves
  <2> QED
    BY <1>1, <1>2, <1>4, <2>1 DEF Untouched, queues, TypeOK
<1>5. ASSUME NEW c \in Commands, Read(c) \/ Inspect(c) \/ Expire(c)
      PROVE  DuplicatesAccounted'
  <2>1. /\ cmd'[c].msg = cmd[c].msg /\ cmd'[c].acked = cmd[c].acked
        /\ \A b \in Commands \ {c} : cmd'[b] = cmd[b]
    BY <1>1, <1>5, UnderWay DEF TypeOK, CommandStates, Read, Inspect, Expire, Goto
  <2>2. UNCHANGED <<entries, landed, touched>>
    BY <1>5 DEF Read, Inspect, Expire, Untouched, queues
  <2> QED
    BY <1>1, <1>2, <2>1, <2>2 DEF TypeOK
<1>6. ASSUME NEW c \in Commands,
             \/ Preview(c) \/ Probe(c) \/ Audit(c) \/ Crash(c)
             \/ \E yes \in BOOLEAN : Answer(c, yes)
      PROVE  DuplicatesAccounted'
  BY <1>4, <1>6 DEF Preview, Probe, Audit, Crash, Answer, StopWith
<1>7. ASSUME NEW c \in Commands, Publish(c) \/ PublishFailed(c)
      PROVE  DuplicatesAccounted'
  <2>1. cmd[c].at = "publish" /\ (Goto(c, "ack") \/ Goto(c, "done"))
    BY <1>7 DEF Publish, PublishFailed, StopWith
  <2>2. Untouched \/ Stored(c)
    BY <1>7 DEF Publish, PublishFailed
  <2> QED
    BY <1>1, <1>4, <2>1, <2>2, PublishAccounted
<1>8. ASSUME NEW c \in Commands, Ack(c)
      PROVE  DuplicatesAccounted'
  <2>1. CASE /\ Removed(c)
             /\ cmd' = [cmd EXCEPT ![c].at = "audit", ![c].acked = "yes"]
    BY <1>1, <1>8, <2>1, AckAccounted DEF Ack
  <2>2. CASE /\ cmd' = [cmd EXCEPT ![c].at = "audit", ![c].acked = "lost"]
             /\ Untouched
    <3>1. /\ cmd'[c].msg = cmd[c].msg /\ cmd'[c].acked = "lost"
          /\ \A b \in Commands \ {c} : cmd'[b] = cmd[b]
      BY <1>1, <2>2, UnderWay DEF TypeOK, CommandStates
    <3> QED
      BY <1>1, <1>2, <2>2, <3>1 DEF Untouched, queues, TypeOK
  <2> QED
    BY <1>8, <2>1, <2>2 DEF Ack
<1>9. ASSUME NEW c \in Commands, AckFailed(c)
      PROVE  DuplicatesAccounted'
  <2>1. cmd[c].at = "ack" /\ Goto(c, "done")
    BY <1>9 DEF AckFailed, StopWith
  <2>2. CASE Untouched
    BY <1>4, <2>1, <2>2
  <2>3. CASE Removed(c)
    <3>1. /\ cmd'[c].msg = cmd[c].msg /\ cmd'[c].acked = cmd[c].acked
          /\ \A b \in Commands \ {c} : cmd'[b] = cmd[b]
      BY <1>1, <2>1, GotoKeeps, GotoMoves
    <3>2. \A m \in Messages : Copies(m)' \in {Copies(m), Copies(m) - 1}
      BY <1>1, <2>1, <2>3, RemovedCopies
    <3>3. touched \subseteq touched' /\ touched \subseteq Commands
      BY <1>1, <2>3 DEF Removed, TypeOK
    <3> QED
      BY <1>1, <3>1, <3>2, <3>3, NobodyCleared
  <2> QED
    BY <1>9, <2>2, <2>3 DEF AckFailed
<1>10. ASSUME NEW m \in Messages, Redeliver(m)
       PROVE  DuplicatesAccounted'
  <2>1. \A n \in Messages : Copies(n)' = Copies(n)
    BY <1>1, <1>10, RedeliverMoves, Zenon DEF Copies
  <2>2. UNCHANGED <<cmd, touched>>
    BY <1>10 DEF Redeliver
  <2> QED
    BY <1>1, <2>1, <2>2, NobodyCleared
<1>11. CASE UNCHANGED vars
  BY <1>2, <1>11 DEF vars, queues
<1> QED
  BY <1>3, <1>5, <1>6, <1>7, <1>8, <1>9, <1>10, <1>11 DEF Next, CommandStep

\* Every copy too many is the work of a command that published the message
\* and has not removed an entry for it: several commands on one message, entries
\* that share an ID and consumers that reject the copies make no other
\* (safety.go: Execute publishes once and acks once).
THEOREM EveryDuplicateHasItsCause == Spec => []DuplicatesAccounted
<1>1. Init => DuplicatesAccounted
  <2> SUFFICES ASSUME Init, NEW m \in Messages
               PROVE  Duplicates(m) <= Cardinality(Offenders(m))
    BY AccountedMeans
  <2>1. Len(entries[m]) = Queued[m] /\ Len(landed[m]) = 0
    BY GateAssumption DEF GateAssumption, Init
  <2>2. Copies(m) = Queued[m] + 0 /\ Queued[m] \in Nat
    BY <2>1, GateAssumption, Zenon DEF Copies, GateAssumption
  <2>3. Duplicates(m) = 0
    BY <2>2 DEF Duplicates
  <2>4. Cardinality(Offenders(m)) \in Nat
    BY InitTypeOK, OffendersFinite
  <2> QED
    BY <2>3, <2>4
<1> QED
  BY <1>1, InitGInv, StepGInv, InitTrail, StepTrail, StepAccounted, PTL DEF Spec
=============================================================================
