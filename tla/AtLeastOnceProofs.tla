-------------------------- MODULE AtLeastOnceProofs --------------------------
(* Every replay that AtLeastOnce describes keeps every message.            *)
EXTENDS AtLeastOnce, TLAPS

TypeOK == /\ dlq \in [Messages -> Nat]
          /\ delivered \in [Messages -> Nat]
          /\ owed \in [Messages -> Nat]

IInv == TypeOK /\ ClaimsCovered

LEMMA InitEstablishes == Init => IInv
BY DEF Init, IInv, TypeOK, ClaimsCovered, Copies

\* A claim is paid for by a copy beyond the first, so the entry a claim
\* removes is never the only copy.
LEMMA StepPreserves == IInv /\ [Next]_vars => IInv'
<1> SUFFICES ASSUME IInv, [Next]_vars PROVE IInv'
    OBVIOUS
<1> USE DEF IInv, TypeOK, ClaimsCovered, Copies
<1>1. ASSUME NEW m \in Messages, Deliver(m) PROVE IInv'
  BY <1>1 DEF Deliver
<1>2. ASSUME NEW m \in Messages, Remove(m) PROVE IInv'
  BY <1>2 DEF Remove
<1>3. ASSUME NEW m \in Messages, Return(m) PROVE IInv'
  BY <1>3 DEF Return
<1>4. ASSUME NEW m \in Messages, Move(m) PROVE IInv'
  BY <1>4 DEF Move
<1>5. CASE Forget
  BY <1>5 DEF Forget
<1>6. CASE UNCHANGED vars
  BY <1>6 DEF vars
<1> QED
  BY <1>1, <1>2, <1>3, <1>4, <1>5, <1>6 DEF Next

\* No message is lost: in every behaviour of an at-least-once replay a copy
\* of every message is in one of the two queues (the rule of
\* src/internal/recovery/executor.go and src/internal/safety/safety.go that
\* an entry is acked only after a confirmed publish).
THEOREM AtLeastOnceSafe == Spec => []NoMessageLost
<1>1. IInv => NoMessageLost
  <2> SUFFICES ASSUME IInv, NEW m \in Messages PROVE Copies(m) >= 1
    BY DEF NoMessageLost
  <2>1. /\ dlq[m] \in Nat /\ delivered[m] \in Nat /\ owed[m] \in Nat
        /\ dlq[m] + delivered[m] >= 1 + owed[m]
    BY DEF IInv, TypeOK, ClaimsCovered, Copies
  <2> QED
    BY <2>1 DEF Copies
<1> QED
  BY <1>1, InitEstablishes, StepPreserves, PTL DEF Spec
=============================================================================
