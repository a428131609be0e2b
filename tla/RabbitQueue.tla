----------------------------- MODULE RabbitQueue -----------------------------
(***************************************************************************)
(* One RabbitMQ dead-letter queue under the calls the adapter makes on it  *)
(* (src/internal/broker/rabbitmq): Ack, which takes the queue apart entry  *)
(* by entry to find the one it has to remove, and the peek of Inspect and  *)
(* Search, which reads the queue in pages through the management API.      *)
(* Workers of one run, and commands of several operators, make such calls  *)
(* at the same time: what one of them holds is invisible to the others.    *)
(*                                                                         *)
(* Entries are numbered in the order they were dead-lettered.              *)
(***************************************************************************)
EXTENDS Integers, Sequences, FiniteSets, SequencesExt

CONSTANTS N,         \* bound: entries in all
          Depth,     \* entries in the queue at first
          Ids,       \* message IDs
          IdOf,      \* the ID of an entry
          Callers,   \* goroutines and commands that make calls
          MaxCalls,  \* bound: calls in all
          MaxBreaks, \* bound: channels that break
          PageSize,  \* messages per page of a peek
          ScanCap    \* messages a peek reads at most

Entries == 1..N

ASSUME RabbitAssumption ==
    /\ N \in Nat /\ Depth \in 0..N
    /\ Ids # {} /\ IdOf \in [Entries -> Ids]
    /\ MaxCalls \in Nat /\ MaxBreaks \in Nat
    /\ PageSize \in Nat \ {0} /\ ScanCap \in Nat

VARIABLES
    ready,      \* entries nobody holds, head first
    removed,    \* entries that were acked
    arrived,    \* the newest entry
    call,       \* what each caller is doing
    calls,      \* calls made so far
    breaks,     \* channels broken so far
    overlapped  \* history: two calls were under way at once

vars == <<ready, removed, arrived, call, calls, breaks, overlapped>>

None == 0  \* no entry

Results == {"none", "ok", "not_found", "error"}
Idle == [at |-> "idle", id |-> CHOOSE i \in Ids : TRUE, held |-> <<>>,
         hit |-> None, out |-> <<>>, result |-> "none"]

TypeOK ==
    /\ ready \in Seq(Entries)
    /\ removed \subseteq Entries
    /\ arrived \in Depth..N
    /\ call \in [Callers ->
          [at : {"idle", "scan", "found", "requeue", "page", "putback"},
           id : Ids, held : Seq(Entries), hit : Entries \cup {None},
           out : Seq(Entries), result : Results]]
    /\ calls \in 0..MaxCalls
    /\ breaks \in 0..MaxBreaks
    /\ overlapped \in BOOLEAN

Init ==
    /\ ready = [e \in 1..Depth |-> e]
    /\ removed = {}
    /\ arrived = Depth
    /\ call = [c \in Callers |-> Idle]
    /\ calls = 0
    /\ breaks = 0
    /\ overlapped = FALSE

Begin(c, state) ==
    /\ call[c].at = "idle" /\ calls < MaxCalls
    /\ call' = [call EXCEPT ![c] = state]
    /\ calls' = calls + 1
    /\ overlapped' = (overlapped \/ \E d \in Callers : call[d].at # "idle")
    /\ UNCHANGED <<ready, removed, arrived, breaks>>

-----------------------------------------------------------------------------
(* Ack.                                                                    *)

BeginAck(c, id) == Begin(c, [Idle EXCEPT !.at = "scan", !.id = id])

\* Fault: an entry that is not the target goes back at once.
GetPutsBack(c) ==
    /\ call[c].at = "scan" /\ ready # <<>>
    /\ IF IdOf[Head(ready)] = call[c].id
       THEN /\ call' = [call EXCEPT ![c].at = "found", ![c].hit = Head(ready)]
            /\ ready' = Tail(ready)
       ELSE UNCHANGED <<call, ready>>
    /\ UNCHANGED <<removed, arrived, calls, breaks, overlapped>>

\* The next entry is got without acknowledging it: the target, or one to hold.
Get(c) ==
    /\ call[c].at = "scan" /\ ready # <<>>
    /\ ready' = Tail(ready)
    /\ call' = IF IdOf[Head(ready)] = call[c].id
               THEN [call EXCEPT ![c].at = "found", ![c].hit = Head(ready)]
               ELSE [call EXCEPT ![c].held = Append(@, Head(ready))]
    /\ UNCHANGED <<removed, arrived, calls, breaks, overlapped>>

\* Fault: the scan gives up after two entries.
DrainedEarly(c) ==
    /\ call[c].at = "scan" /\ (ready = <<>> \/ Len(call[c].held) = 2)
    /\ call' = [call EXCEPT ![c].at = "requeue", ![c].result = "not_found"]
    /\ UNCHANGED <<ready, removed, arrived, calls, breaks, overlapped>>

\* Fault: a scan without a target acks all the same.
DrainedAcks(c) ==
    /\ call[c].at = "scan" /\ ready = <<>>
    /\ removed' = removed \cup {call[c].hit}
    /\ call' = [call EXCEPT ![c].at = "requeue", ![c].result = "ok"]
    /\ UNCHANGED <<ready, arrived, calls, breaks, overlapped>>

\* The queue is drained and the target was not there.
Drained(c) ==
    /\ call[c].at = "scan" /\ ready = <<>>
    /\ call' = [call EXCEPT ![c].at = "requeue", ![c].result = "not_found"]
    /\ UNCHANGED <<ready, removed, arrived, calls, breaks, overlapped>>

AckTarget(c) ==
    /\ call[c].at = "found"
    /\ removed' = removed \cup {call[c].hit}
    /\ call' = [call EXCEPT ![c].at = "requeue", ![c].hit = None,
                            ![c].result = "ok"]
    /\ UNCHANGED <<ready, arrived, calls, breaks, overlapped>>

\* Faults: oldest first, and without the requeue flag.
RequeueForward(c) ==
    /\ call[c].at = "requeue" /\ call[c].held # <<>>
    /\ ready' = <<Head(call[c].held)>> \o ready
    /\ call' = [call EXCEPT ![c].held = Tail(@)]
    /\ UNCHANGED <<removed, arrived, calls, breaks, overlapped>>

RequeueDrops(c) ==
    /\ call[c].at = "requeue" /\ call[c].held # <<>>
    /\ call' = [call EXCEPT ![c].held = Front(@)]
    /\ UNCHANGED <<ready, removed, arrived, calls, breaks, overlapped>>

\* requeueAll nacks what was held, the last one first, and RabbitMQ puts each
\* one at the head of the queue.
Requeue(c) ==
    /\ call[c].at = "requeue" /\ call[c].held # <<>>
    /\ ready' = <<Last(call[c].held)>> \o ready
    /\ call' = [call EXCEPT ![c].held = Front(@)]
    /\ UNCHANGED <<removed, arrived, calls, breaks, overlapped>>

ReturnFromAck(c) ==
    /\ call[c].at = "requeue" /\ call[c].held = <<>>
    /\ call' = [call EXCEPT ![c].at = "idle"]
    /\ UNCHANGED <<ready, removed, arrived, calls, breaks, overlapped>>

-----------------------------------------------------------------------------
(* Peeks.                                                                  *)

BeginPeek(c) == ScanCap > 0 /\ Begin(c, [Idle EXCEPT !.at = "page"])

Smaller(a, b) == IF a < b THEN a ELSE b
Want(c) == Smaller(PageSize, ScanCap - Len(call[c].out))

\* getMessages takes a page off the queue ...
Page(c) ==
    /\ call[c].at = "page"
    /\ LET n == Smaller(Want(c), Len(ready))
       IN  /\ call' = [call EXCEPT ![c].at = "putback",
                                   ![c].held = SubSeq(ready, 1, n)]
           /\ ready' = SubSeq(ready, n + 1, Len(ready))
    /\ UNCHANGED <<removed, arrived, calls, breaks, overlapped>>

\* ... and rejects it back (reject_requeue_true).  A page that is not full, or
\* the cap, ends the peek.
MoreToRead(c) == /\ Len(call[c].held) = Want(c)
                 /\ Len(call[c].out) + Len(call[c].held) < ScanCap

PutBack(c) ==
    /\ call[c].at = "putback"
    /\ ready' = call[c].held \o ready
    /\ call' = [call EXCEPT ![c].at = IF MoreToRead(c) THEN "page" ELSE "idle",
                            ![c].out = @ \o call[c].held,
                            ![c].held = <<>>,
                            ![c].result = IF MoreToRead(c) THEN "none" ELSE "ok"]
    /\ UNCHANGED <<removed, arrived, calls, breaks, overlapped>>

-----------------------------------------------------------------------------

\* A message is dead-lettered.
Arrive ==
    /\ arrived < N
    /\ arrived' = arrived + 1
    /\ ready' = Append(ready, arrived')
    /\ UNCHANGED <<removed, call, calls, breaks, overlapped>>

\* A channel breaks, and RabbitMQ requeues what was not acknowledged on it.
\* Ack returns the error, unless it has sent its acknowledgement already:
\* nobody tells it then that the acknowledgement did not arrive.
Unacked(c) == call[c].held
              \o (IF call[c].hit = None THEN <<>> ELSE <<call[c].hit>>)

Break(c, result) ==
    /\ breaks < MaxBreaks
    /\ ready' = Unacked(c) \o ready
    /\ call' = [call EXCEPT ![c].at = "idle", ![c].held = <<>>,
                            ![c].hit = None, ![c].result = result]
    /\ breaks' = breaks + 1
    /\ UNCHANGED <<removed, arrived, calls, overlapped>>

Breaks(c) ==
    \/ call[c].at \in {"scan", "found", "page", "putback"} /\ Break(c, "error")
    \/ call[c].at = "found" /\ Break(c, "ok")
    \/ call[c].at = "requeue" /\ Break(c, call[c].result)

CallStep(c) == \/ Get(c) \/ Drained(c) \/ AckTarget(c) \/ Requeue(c)
               \/ ReturnFromAck(c) \/ Page(c) \/ PutBack(c)

Next == \/ \E c \in Callers :
              \/ \E id \in Ids : BeginAck(c, id)
              \/ BeginPeek(c)
              \/ CallStep(c) \/ Breaks(c)
        \/ Arrive

Spec == Init /\ [][Next]_vars

\* Callers are scheduled and RabbitMQ answers them.
FairSpec == Spec /\ \A c \in Callers : WF_vars(CallStep(c))

-----------------------------------------------------------------------------
(* Properties.                                                             *)

Quiet == \A c \in Callers : call[c].at = "idle"

\* Taking the queue apart loses nothing and doubles nothing: every entry is in
\* one place, in the queue, in the hands of one call, or removed (Ack: "the
\* DLQ copy is never lost", write.go:76-77).
Occurrences(e, s) == Cardinality({i \in DOMAIN s : s[i] = e})

EachInOnePlace ==
    \A e \in 1..arrived :
       Occurrences(e, ready) + Cardinality({e} \cap removed)
       + Cardinality({c \in Callers : Occurrences(e, Unacked(c)) = 1}) = 1

\* As long as calls do not overlap, the queue is in its original order between
\* the calls, whatever breaks: requeueAll "restores the original FIFO order"
\* (write.go:144).
OrderRestored ==
    ~overlapped /\ Quiet =>
        \A i, j \in DOMAIN ready : i < j => ready[i] < ready[j]

\* An Ack that has the queue for itself finds the oldest entry with its ID,
\* the one an Inspect before it returned, and reports "not found" only when
\* there is none (the scan of write.go:101-120).
InQueue(id) == {e \in 1..arrived \ removed : IdOf[e] = id}

FindsTheOldest ==
    [][~overlapped' => \A c \in Callers :
          /\ call[c].at = "scan" /\ call'[c].at = "found"
             => \A e \in InQueue(call[c].id) : call'[c].hit <= e
          /\ call[c].at = "scan" /\ call'[c].result = "not_found"
             => InQueue(call[c].id) = {}]_vars

\* A peek sees every message once: it returns "the raw management messages in
\* FIFO order and stops early when the queue drains" (management.go:187-189).
PeekSeesEachOnce == \A c \in Callers : IsInjective(call[c].out)

\* Every call returns, however the calls take entries from each other.
CallsReturn == \A c \in Callers : call[c].at # "idle" ~> call[c].at = "idle"
=============================================================================
