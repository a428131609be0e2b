----------------------------- MODULE AtLeastOnce -----------------------------
(***************************************************************************)
(* What replaying a dead-letter queue promises, whoever does it and however *)
(* many do it at once: an entry is removed from the dead-letter queue only *)
(* against a publish of that message that the destination confirmed, and   *)
(* one confirmed publish pays for one removal.  The replay may publish as  *)
(* often as it likes and may forget a confirmed publish it has not used.   *)
(* Copies may also wander back to the queue, or be moved by somebody else. *)
(***************************************************************************)
EXTENDS Integers

CONSTANT Messages

VARIABLES dlq,        \* entries of the message in the dead-letter queue
          delivered,  \* copies at the destination
          owed        \* confirmed publishes whose entry is still to be removed

vars == <<dlq, delivered, owed>>

Copies(m) == dlq[m] + delivered[m]

Init ==
    /\ dlq \in [Messages -> Nat]
    /\ delivered \in [Messages -> Nat]
    /\ owed = [m \in Messages |-> 0]
    /\ \A m \in Messages : Copies(m) >= 1

\* A publish that is stored: confirmed to the replay, or not.
Deliver(m) ==
    /\ delivered' = [delivered EXCEPT ![m] = @ + 1]
    /\ owed' \in {owed, [owed EXCEPT ![m] = @ + 1]}
    /\ UNCHANGED dlq

\* A removal, paid for by a confirmed publish.
Remove(m) ==
    /\ owed[m] > 0 /\ dlq[m] > 0
    /\ owed' = [owed EXCEPT ![m] = @ - 1]
    /\ dlq' = [dlq EXCEPT ![m] = @ - 1]
    /\ UNCHANGED delivered

\* The replay gives up, or dies: claims are dropped, entries stay.
Forget ==
    /\ owed' \in [Messages -> Nat]
    /\ \A m \in Messages : owed'[m] <= owed[m]
    /\ UNCHANGED <<dlq, delivered>>

\* A consumer rejects a copy, or an operator elsewhere moves an entry.
Return(m) ==
    /\ delivered[m] > 0
    /\ delivered' = [delivered EXCEPT ![m] = @ - 1]
    /\ dlq' = [dlq EXCEPT ![m] = @ + 1]
    /\ UNCHANGED owed

Move(m) ==
    /\ dlq[m] > 0
    /\ dlq' = [dlq EXCEPT ![m] = @ - 1]
    /\ delivered' = [delivered EXCEPT ![m] = @ + 1]
    /\ UNCHANGED owed

Next == \/ \E m \in Messages : Deliver(m) \/ Remove(m) \/ Return(m) \/ Move(m)
        \/ Forget

Spec == Init /\ [][Next]_vars

\* No message is lost: a copy of it is always in one of the two queues.
NoMessageLost == \A m \in Messages : Copies(m) >= 1

\* What makes it so: every unused claim stands for a copy beyond the first.
ClaimsCovered == \A m \in Messages : Copies(m) >= 1 + owed[m]
=============================================================================
