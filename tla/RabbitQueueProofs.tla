-------------------------- MODULE RabbitQueueProofs --------------------------
(***************************************************************************)
(* Theorems about RabbitQueue: however many callers take the queue apart at *)
(* once, and whatever breaks, no entry is lost or doubled; while they do   *)
(* not overlap its order is restored and an Ack finds the oldest entry     *)
(* with its ID.  For any queue, IDs, callers, page size and bounds.        *)
(*                                                                         *)
(* The argument: what a caller holds, followed by the queue, is the same   *)
(* sequence before and after each of its steps, but for the entry it acks. *)
(***************************************************************************)
EXTENDS RabbitQueue, FiniteSetTheorems, SequenceTheorems, TLAPS

-----------------------------------------------------------------------------
(* Sequences: what is distinct and sorted in a concatenation, and how an   *)
(* entry moves from one part of it to the other.                           *)

Sorted(s) == \A i, j \in DOMAIN s : i < j => s[i] < s[j]

LEMMA ConcatParts ==
  ASSUME NEW S, NEW s \in Seq(S), NEW t \in Seq(S)
  PROVE  LET m == Len(s)
             n == Len(t)
             u == s \o t
         IN /\ m \in Nat /\ n \in Nat
            /\ DOMAIN s = 1..m /\ DOMAIN t = 1..n /\ DOMAIN u = 1..(m + n)
            /\ \A i \in 1..m : u[i] = s[i]
            /\ \A i \in 1..n : u[m + i] = t[i]
            /\ \A k \in 1..(m + n) : k \in 1..m \/ (k - m \in 1..n /\ u[k] = t[k - m])
<1> DEFINE m == Len(s)
           n == Len(t)
           u == s \o t
<1>1. /\ m \in Nat /\ n \in Nat /\ DOMAIN s = 1..m /\ DOMAIN t = 1..n /\ DOMAIN u = 1..(m + n)
      /\ \A i \in 1..m : u[i] = s[i]
      /\ \A i \in 1..n : u[m + i] = t[i]
  <2>1. /\ m \in Nat /\ n \in Nat /\ DOMAIN s = 1..m /\ DOMAIN t = 1..n
        /\ u \in Seq(S) /\ Len(u) = m + n
    BY LenProperties, ConcatProperties
  <2>2. \A i \in 1..(m + n) : u[i] = IF i <= m THEN s[i] ELSE t[i - m]
    BY ConcatProperties
  <2> HIDE DEF m, n, u
  <2>3. \A i \in 1..m : u[i] = s[i]
    BY <2>1, <2>2
  <2>4. ASSUME NEW i \in 1..n PROVE u[m + i] = t[i]
    <3>1. m + i \in 1..(m + n) /\ ~(m + i <= m) /\ (m + i) - m = i
      BY <2>1
    <3> QED
      BY <2>2, <3>1
  <2> QED
    BY <2>1, <2>3, <2>4, LenProperties
<1>2. ASSUME NEW k \in 1..(m + n), k \notin 1..m PROVE k - m \in 1..n /\ u[k] = t[k - m]
  <2> HIDE DEF m, n, u
  <2>1. k - m \in 1..n /\ m + (k - m) = k
    BY <1>1, <1>2
  <2> QED
    BY <1>1, <2>1
<1> QED
  BY <1>1, <1>2

LEMMA ConcatInjective ==
  ASSUME NEW S, NEW s \in Seq(S), NEW t \in Seq(S)
  PROVE  IsInjective(s \o t) <=>
           IsInjective(s) /\ IsInjective(t) /\ Range(s) \cap Range(t) = {}
<1> DEFINE m == Len(s)
           n == Len(t)
           u == s \o t
<1>1. /\ m \in Nat /\ n \in Nat /\ DOMAIN s = 1..m /\ DOMAIN t = 1..n /\ DOMAIN u = 1..(m + n)
      /\ \A i \in 1..m : u[i] = s[i]
      /\ \A i \in 1..n : u[m + i] = t[i]
      /\ \A k \in 1..(m + n) : k \in 1..m \/ (k - m \in 1..n /\ u[k] = t[k - m])
  BY ConcatParts
<1> HIDE DEF m, n, u
<1>2. ASSUME IsInjective(u)
      PROVE  IsInjective(s) /\ IsInjective(t) /\ Range(s) \cap Range(t) = {}
  <2>1. IsInjective(s)
    BY <1>1, <1>2 DEF IsInjective
  <2>2. IsInjective(t)
    <3> SUFFICES ASSUME NEW i \in 1..n, NEW j \in 1..n, t[i] = t[j] PROVE i = j
      BY <1>1 DEF IsInjective
    <3>1. m + i \in 1..(m + n) /\ m + j \in 1..(m + n) /\ u[m + i] = u[m + j]
      BY <1>1
    <3>2. m + i = m + j
      BY <1>1, <1>2, <3>1 DEF IsInjective
    <3> QED
      BY <1>1, <3>2
  <2>3. ASSUME NEW x \in Range(s) \cap Range(t) PROVE FALSE
    <3>1. PICK i \in 1..m, j \in 1..n : s[i] = x /\ t[j] = x
      BY <1>1 DEF Range
    <3>2. i \in 1..(m + n) /\ m + j \in 1..(m + n) /\ u[i] = u[m + j] /\ i # m + j
      BY <1>1, <3>1
    <3> QED
      BY <1>1, <1>2, <3>2 DEF IsInjective
  <2> QED
    BY <2>1, <2>2, <2>3
<1>3. ASSUME IsInjective(s), IsInjective(t), Range(s) \cap Range(t) = {}
      PROVE  IsInjective(u)
  <2> SUFFICES ASSUME NEW i \in 1..(m + n), NEW j \in 1..(m + n), u[i] = u[j] PROVE i = j
    BY <1>1 DEF IsInjective
  <2>2. CASE i \in 1..m /\ j \in 1..m
    BY <1>1, <1>3, <2>2 DEF IsInjective
  <2>3. CASE i \notin 1..m /\ j \notin 1..m
    <3>1. i - m \in 1..n /\ j - m \in 1..n /\ t[i - m] = t[j - m]
      BY <1>1, <2>3
    <3>2. i - m = j - m
      BY <1>1, <1>3, <3>1 DEF IsInjective
    <3> QED
      BY <1>1, <3>2
  <2>4. \A a \in 1..m, b \in 1..n : s[a] # t[b]
    BY <1>1, <1>3 DEF Range
  <2> QED
    BY <1>1, <2>2, <2>3, <2>4
<1> QED
  BY <1>2, <1>3 DEF u

LEMMA ConcatSorted ==
  ASSUME NEW S \in SUBSET Int, NEW s \in Seq(S), NEW t \in Seq(S)
  PROVE  Sorted(s \o t) <=>
           Sorted(s) /\ Sorted(t) /\ \A x \in Range(s), y \in Range(t) : x < y
<1> DEFINE m == Len(s)
           n == Len(t)
           u == s \o t
<1>1. /\ m \in Nat /\ n \in Nat /\ DOMAIN s = 1..m /\ DOMAIN t = 1..n /\ DOMAIN u = 1..(m + n)
      /\ \A i \in 1..m : u[i] = s[i]
      /\ \A i \in 1..n : u[m + i] = t[i]
      /\ \A k \in 1..(m + n) : k \in 1..m \/ (k - m \in 1..n /\ u[k] = t[k - m])
  BY ConcatParts
<1> HIDE DEF m, n, u
<1>2. ASSUME Sorted(u)
      PROVE  Sorted(s) /\ Sorted(t) /\ \A x \in Range(s), y \in Range(t) : x < y
  <2>1. Sorted(s)
    BY <1>1, <1>2 DEF Sorted
  <2>2. Sorted(t)
    <3> SUFFICES ASSUME NEW i \in 1..n, NEW j \in 1..n, i < j PROVE t[i] < t[j]
      BY <1>1 DEF Sorted
    <3>1. m + i \in 1..(m + n) /\ m + j \in 1..(m + n) /\ m + i < m + j
      BY <1>1
    <3> QED
      BY <1>1, <1>2, <3>1 DEF Sorted
  <2>3. ASSUME NEW x \in Range(s), NEW y \in Range(t) PROVE x < y
    <3>1. PICK i \in 1..m, j \in 1..n : s[i] = x /\ t[j] = y
      BY <1>1 DEF Range
    <3>2. i \in 1..(m + n) /\ m + j \in 1..(m + n) /\ i < m + j
      BY <1>1
    <3> QED
      BY <1>1, <1>2, <3>1, <3>2 DEF Sorted
  <2> QED
    BY <2>1, <2>2, <2>3
<1>3. ASSUME Sorted(s), Sorted(t), \A x \in Range(s), y \in Range(t) : x < y
      PROVE  Sorted(u)
  <2> SUFFICES ASSUME NEW i \in 1..(m + n), NEW j \in 1..(m + n), i < j PROVE u[i] < u[j]
    BY <1>1 DEF Sorted
  <2>2. CASE j \in 1..m
    <3>1. i \in 1..m
      BY <1>1, <2>2
    <3> QED
      BY <1>1, <1>3, <2>2, <3>1 DEF Sorted
  <2>3. CASE i \notin 1..m /\ j \notin 1..m
    <3>1. i - m \in 1..n /\ j - m \in 1..n /\ i - m < j - m
      BY <1>1, <2>3
    <3> QED
      BY <1>1, <1>3, <2>3, <3>1 DEF Sorted
  <2>4. \A a \in 1..m, b \in 1..n : s[a] < t[b]
    BY <1>1, <1>3 DEF Range
  <2>5. CASE i \in 1..m /\ j \notin 1..m
    BY <1>1, <2>4, <2>5
  <2> QED
    BY <1>1, <2>2, <2>3, <2>5
<1> QED
  BY <1>2, <1>3 DEF u

\* Entries that change hands between s and the sequence t that follows it.
LEMMA HeadMoves ==
  ASSUME NEW S, NEW s \in Seq(S), NEW t \in Seq(S), t # <<>>
  PROVE  /\ Head(t) \in S /\ Tail(t) \in Seq(S)
         /\ Append(s, Head(t)) \in Seq(S) /\ Append(s, Head(t)) = s \o <<Head(t)>>
         /\ (s \o <<Head(t)>>) \o Tail(t) = s \o t
<1>1. Head(t) \in S /\ Tail(t) \in Seq(S) /\ <<Head(t)>> \in Seq(S)
  BY HeadTailProperties
<1>2. <<Head(t)>> \o Tail(t) = t
  <2>1. Len(t) \in Nat \ {0}
    BY EmptySeq
  <2>2. /\ SubSeq(t, 1, Len(t)) = <<t[1]>> \o SubSeq(t, 2, Len(t))
        /\ SubSeq(t, 1, Len(t)) = t /\ Tail(t) = SubSeq(t, 2, Len(t))
    BY <2>1, SubSeqRecursiveFirst, SubSeqFull, TailIsSubSeq
  <2>3. Head(t) = t[1]
    OBVIOUS
  <2> QED
    BY <2>2, <2>3
<1>3. Append(s, Head(t)) \in Seq(S) /\ Append(s, Head(t)) = s \o <<Head(t)>>
  BY <1>1, AppendProperties, AppendIsConcat
<1> QED
  BY <1>1, <1>2, <1>3, ConcatAssociative

LEMMA LastMoves ==
  ASSUME NEW S, NEW s \in Seq(S), NEW t \in Seq(S), s # <<>>
  PROVE  /\ Last(s) \in S /\ Front(s) \in Seq(S)
         /\ <<Last(s)>> \o t \in Seq(S)
         /\ Front(s) \o (<<Last(s)>> \o t) = s \o t
<1>1. Len(s) \in Nat \ {0}
  BY EmptySeq
<1>2. Last(s) \in S /\ <<Last(s)>> \in Seq(S)
  BY <1>1, ElementOfSeq DEF Last
<1>3. Front(s) \in Seq(S)
  BY <1>1, SubSeqProperties, ElementOfSeq DEF Front
<1>4. Front(s) \o <<Last(s)>> = s
  <2>1. SubSeq(s, 1, Len(s)) = SubSeq(s, 1, Len(s) - 1) \o <<s[Len(s)]>>
    BY <1>1, SubSeqRecursiveSecond
  <2> QED
    BY <2>1, SubSeqFull DEF Front, Last
<1>5. <<Last(s)>> \o t \in Seq(S)
  BY <1>2, ConcatProperties
<1>6. (Front(s) \o <<Last(s)>>) \o t = Front(s) \o (<<Last(s)>> \o t)
  BY <1>2, <1>3, ConcatAssociative
<1> QED
  BY <1>2, <1>3, <1>4, <1>5, <1>6

LEMMA SplitAt ==
  ASSUME NEW S, NEW t \in Seq(S), NEW n \in 0..Len(t)
  PROVE  /\ SubSeq(t, 1, n) \in Seq(S) /\ SubSeq(t, n + 1, Len(t)) \in Seq(S)
         /\ SubSeq(t, 1, n) \o SubSeq(t, n + 1, Len(t)) = t
<1>1. Len(t) \in Nat /\ n \in Int /\ \A i \in 1..Len(t) : t[i] \in S
  BY LenProperties, ElementOfSeq
<1>2. SubSeq(t, 1, n) \in Seq(S) /\ SubSeq(t, n + 1, Len(t)) \in Seq(S)
  BY <1>1, SubSeqProperties
<1>3. SubSeq(t, 1, n) \o SubSeq(t, n + 1, Len(t)) = SubSeq(t, 1, Len(t))
  <2>1. 1 \in 1..(Len(t) + 1) /\ n \in (1 - 1)..Len(t) /\ Len(t) \in n..Len(t)
    BY <1>1
  <2> QED
    BY <2>1, ConcatAdjacentSubSeq
<1> QED
  BY <1>2, <1>3, SubSeqFull

LEMMA OneEntry ==
  ASSUME NEW x
  PROVE  Range(<<x>>) = {x} /\ IsInjective(<<x>>) /\ Range(<<>>) = {} /\ IsInjective(<<>>)
         /\ Sorted(<<>>) /\ Sorted(<<x>>)
BY DEF Range, IsInjective, Sorted

-----------------------------------------------------------------------------
(* The invariant.                                                          *)

CallRecord == [at : {"idle", "scan", "found", "requeue", "page", "putback"},
               id : Ids, held : Seq(Entries), hit : Entries \cup {None},
               out : Seq(Entries), result : Results]

\* What a call in this state keeps from the others: Unacked, of its record.
Held(r) == r.held \o (IF r.hit = None THEN <<>> ELSE <<r.hit>>)

\* A scan has held nothing that it looks for, and has no result yet; a peek
\* that goes on is short of its cap.
Fits(r) == /\ r.at = "found" <=> r.hit # None
           /\ r.at \in {"idle", "page"} => r.held = <<>>
           /\ r.at = "scan" => r.result = "none" /\ \A e \in Range(r.held) : IdOf[e] # r.id
           /\ r.at = "page" => Len(r.out) < ScanCap

Line(c) == Held(call[c]) \o ready

Apart == /\ IsInjective(ready) /\ \A c \in Callers : IsInjective(Line(c))
         /\ \A c, d \in Callers : c # d => Range(Held(call[c])) \cap Range(Held(call[d])) = {}
         /\ removed \cap Range(ready) = {}
         /\ \A c \in Callers : removed \cap Range(Held(call[c])) = {}

Accounted == 1..arrived = removed \cup Range(ready) \cup UNION {Range(Held(call[c])) : c \in Callers}

InOrder == ~overlapped =>
    /\ \A c, d \in Callers : call[c].at # "idle" /\ call[d].at # "idle" => c = d
    /\ Sorted(ready) /\ \A c \in Callers : Sorted(Line(c))

QInv == /\ TypeOK /\ Apart /\ Accounted /\ InOrder
        /\ \A c \in Callers : Fits(call[c])

LEMMA IdleRecord ==
  /\ Idle \in CallRecord
  /\ Idle.at = "idle" /\ Idle.held = <<>> /\ Idle.hit = None /\ Idle.result = "none"
  /\ Idle.out = <<>>
<1>1. (CHOOSE i \in Ids : TRUE) \in Ids
  BY RabbitAssumption DEF RabbitAssumption
<1>2. <<>> \in Seq(Entries)
  BY EmptySeq
<1> QED
  BY <1>1, <1>2 DEF Idle, CallRecord, Results

LEMMA HeldType ==
  ASSUME NEW r \in CallRecord
  PROVE  /\ Held(r) \in Seq(Entries)
         /\ r.hit = None => Held(r) = r.held
         /\ r.hit # None => /\ r.hit \in Entries /\ Held(r) = r.held \o <<r.hit>>
                            /\ Range(Held(r)) = Range(r.held) \cup {r.hit}
<1>1. r.held \in Seq(Entries) /\ r.hit \in Entries \cup {None}
  BY DEF CallRecord
<1>2. CASE r.hit = None
  BY <1>1, <1>2, ConcatEmptySeq DEF Held
<1>3. CASE r.hit # None
  <2>1. r.hit \in Entries /\ <<r.hit>> \in Seq(Entries) /\ Held(r) = r.held \o <<r.hit>>
    BY <1>1, <1>3 DEF Held
  <2>2. Held(r) \in Seq(Entries)
    BY <1>1, <2>1, ConcatProperties
  <2>3. Range(Held(r)) = Range(r.held) \cup {r.hit}
    <3>1. Range(r.held \o <<r.hit>>) = Range(r.held) \cup Range(<<r.hit>>)
      BY <1>1, <2>1, RangeConcatenation
    <3> QED
      BY <2>1, <3>1, OneEntry
  <2> QED
    BY <1>3, <2>1, <2>2, <2>3
<1> QED
  BY <1>2, <1>3

LEMMA QTypes ==
  ASSUME QInv
  PROVE  /\ ready \in Seq(Entries) /\ removed \subseteq Entries /\ arrived \in Depth..N
         /\ call \in [Callers -> CallRecord] /\ calls \in 0..MaxCalls
         /\ breaks \in 0..MaxBreaks /\ overlapped \in BOOLEAN
         /\ \A c \in Callers : Held(call[c]) \in Seq(Entries) /\ Fits(call[c])
         /\ N \in Nat /\ Depth \in Nat
<1>1. call \in [Callers -> CallRecord]
  BY DEF QInv, TypeOK, CallRecord
<1>2. \A c \in Callers : Held(call[c]) \in Seq(Entries)
  BY <1>1, HeldType
<1> QED
  BY <1>1, <1>2, RabbitAssumption DEF QInv, TypeOK, RabbitAssumption

\* A step of one caller, after which it has the record r and the entries gone
\* are removed: what it holds then, and the queue, are the rest of the entries
\* that it held and that were in the queue.
LEMMA CallerSteps ==
  ASSUME QInv, NEW c \in Callers, NEW r \in CallRecord, NEW gone \in SUBSET Entries,
         call' = [call EXCEPT ![c] = r], Fits(r), ready' \in Seq(Entries),
         Range(Held(r)) \cup Range(ready') \cup gone = Range(Held(call[c])) \cup Range(ready),
         gone \cap (Range(Held(r)) \cup Range(ready')) = {},
         IsInjective(Held(r) \o ready'), ~overlapped' => Sorted(Held(r) \o ready'),
         removed' = removed \cup gone, arrived' = arrived,
         calls' \in 0..MaxCalls, breaks' \in 0..MaxBreaks, overlapped' \in BOOLEAN,
         ~overlapped' => \A d \in Callers \ {c} : call[d].at = "idle"
  PROVE  QInv'
<1>1. /\ call' \in [Callers -> CallRecord] /\ call'[c] = r
      /\ \A d \in Callers \ {c} : call'[d] = call[d]
      /\ Held(r) \in Seq(Entries)
  BY QTypes, HeldType
<1>2. TypeOK'
  BY <1>1, QTypes DEF TypeOK, CallRecord
<1>3. IsInjective(Held(r)) /\ IsInjective(ready') /\ Range(Held(r)) \cap Range(ready') = {}
  BY <1>1, ConcatInjective
<1>4. ASSUME NEW d \in Callers \ {c}
      PROVE  /\ Held(call'[d]) = Held(call[d]) /\ IsInjective(Held(call[d]))
             /\ Range(Held(call[d])) \cap Range(Held(r)) = {}
             /\ Range(Held(call[d])) \cap Range(ready') = {}
             /\ Range(Held(call[d])) \cap gone = {}
  <2>1. /\ Range(Held(call[d])) \cap Range(Held(call[c])) = {}
        /\ IsInjective(Held(call[d])) /\ Range(Held(call[d])) \cap Range(ready) = {}
    <3>1. Held(call[d]) \in Seq(Entries) /\ ready \in Seq(Entries)
      BY QTypes
    <3>2. IsInjective(Held(call[d]) \o ready)
      BY DEF QInv, Apart, Line
    <3> QED
      BY <3>1, <3>2, ConcatInjective DEF QInv, Apart
  <2> QED
    BY <1>1, <2>1
<1>5. Apart'
  <2>1. ASSUME NEW d \in Callers PROVE IsInjective(Held(call'[d]) \o ready')
    <3>1. CASE d = c
      BY <1>1, <3>1
    <3>2. CASE d # c
      <4>1. Held(call[d]) \in Seq(Entries)
        BY QTypes
      <4> QED
        BY <1>3, <1>4, <3>2, <4>1, ConcatInjective
    <3> QED
      BY <3>1, <3>2
  <2>2. ASSUME NEW d \in Callers, NEW e \in Callers, d # e
        PROVE  Range(Held(call'[d])) \cap Range(Held(call'[e])) = {}
    <3>1. d # c /\ e # c => Range(Held(call[d])) \cap Range(Held(call[e])) = {}
      BY <2>2 DEF QInv, Apart
    <3> QED
      BY <1>1, <1>4, <2>2, <3>1
  <2>3. /\ removed \cap (Range(Held(call[c])) \cup Range(ready)) = {}
        /\ removed' \cap (Range(Held(r)) \cup Range(ready')) = {}
    BY DEF QInv, Apart
  <2>4. ASSUME NEW d \in Callers PROVE removed' \cap Range(Held(call'[d])) = {}
    <3>1. removed \cap Range(Held(call[d])) = {}
      BY DEF QInv, Apart
    <3> QED
      BY <1>1, <1>4, <2>3, <3>1
  <2> QED
    BY <1>3, <2>1, <2>2, <2>3, <2>4 DEF Apart, Line
<1>6. Accounted'
  <2>1. UNION {Range(Held(call'[d])) : d \in Callers}
          = Range(Held(r)) \cup UNION {Range(Held(call[d])) : d \in Callers \ {c}}
    BY <1>1, <1>4
  <2>2. UNION {Range(Held(call[d])) : d \in Callers}
          = Range(Held(call[c])) \cup UNION {Range(Held(call[d])) : d \in Callers \ {c}}
    OBVIOUS
  <2> QED
    BY <2>1, <2>2 DEF Accounted, QInv
<1>7. InOrder'
  <2> SUFFICES ASSUME ~overlapped'
               PROVE  /\ \A d, e \in Callers : call'[d].at # "idle" /\ call'[e].at # "idle" => d = e
                      /\ Sorted(ready') /\ \A d \in Callers : Sorted(Held(call'[d]) \o ready')
    BY DEF InOrder, Line
  <2>1. \A d \in Callers \ {c} : call'[d] = call[d] /\ call[d].at = "idle"
    BY <1>1
  <2>2. Sorted(Held(r) \o ready')
    OBVIOUS
  <2>3. Sorted(ready')
    <3>1. Entries \in SUBSET Int
      BY DEF Entries
    <3> QED
      BY <1>1, <2>2, <3>1, ConcatSorted
  <2>4. ASSUME NEW d \in Callers PROVE Sorted(Held(call'[d]) \o ready')
    <3>1. CASE d = c
      BY <1>1, <2>2, <3>1
    <3>2. CASE d # c
      <4>1. call[d] \in CallRecord /\ Fits(call[d]) /\ call[d].at = "idle"
        BY <2>1, <3>2, QTypes
      <4>2. Held(call[d]) = <<>>
        BY <4>1, HeldType DEF Fits
      <4> QED
        BY <2>1, <2>3, <3>2, <4>2, ConcatEmptySeq
    <3> QED
      BY <3>1, <3>2
  <2> QED
    BY <2>1, <2>3, <2>4
<1>8. \A d \in Callers : Fits(call'[d])
  BY <1>1, QTypes
<1> QED
  BY <1>2, <1>5, <1>6, <1>7, <1>8 DEF QInv

\* A step of a caller that only moves entries between its hands and the queue:
\* what it holds then, followed by the queue, is what it was.
LEMMA Rearranged ==
  ASSUME QInv, NEW c \in Callers, NEW r \in CallRecord, call' = [call EXCEPT ![c] = r],
         Fits(r), ready' \in Seq(Entries), Held(r) \o ready' = Line(c),
         UNCHANGED <<removed, arrived>>, calls' \in 0..MaxCalls, breaks' \in 0..MaxBreaks,
         overlapped' \in BOOLEAN,
         ~overlapped' => ~overlapped /\ \A d \in Callers \ {c} : call[d].at = "idle"
  PROVE  QInv'
<1>1. IsInjective(Held(r) \o ready') /\ (~overlapped' => Sorted(Held(r) \o ready'))
  BY DEF QInv, Apart, InOrder
<1>2. Range(Held(r)) \cup Range(ready') = Range(Held(call[c])) \cup Range(ready)
  <2>1. PICK h, q, k : h = Held(r) /\ q = ready' /\ k = Held(call[c])
    OBVIOUS
  <2>2. h \in Seq(Entries) /\ q \in Seq(Entries) /\ k \in Seq(Entries) /\ ready \in Seq(Entries)
    BY <2>1, HeldType, QTypes
  <2>3. Range(h \o q) = Range(h) \cup Range(q) /\ Range(k \o ready) = Range(k) \cup Range(ready)
    BY <2>2, RangeConcatenation
  <2> QED
    BY <2>1, <2>3 DEF Line
<1>3. removed' = removed \cup {} /\ {} \in SUBSET Entries /\ arrived' = arrived
  OBVIOUS
<1> QED
  BY <1>1, <1>2, <1>3, CallerSteps

\* As long as no calls overlapped, a call under way is the only one.
LEMMA OnlyCall ==
  ASSUME QInv, NEW c \in Callers, call[c].at # "idle", overlapped' = overlapped
  PROVE  /\ overlapped' \in BOOLEAN
         /\ ~overlapped' => ~overlapped /\ \A d \in Callers \ {c} : call[d].at = "idle"
<1>1. ASSUME ~overlapped, NEW d \in Callers \ {c} PROVE call[d].at = "idle"
  BY <1>1 DEF QInv, InOrder
<1> QED
  BY <1>1, QTypes

LEMMA BeginKeeps ==
  ASSUME QInv, NEW c \in Callers, NEW r \in CallRecord, Begin(c, r),
         r.held = <<>>, r.hit = None, r.at \in {"scan", "page"}, r.result = "none",
         r.at = "page" => Len(r.out) < ScanCap
  PROVE  QInv'
<1>1. /\ call' = [call EXCEPT ![c] = r] /\ UNCHANGED <<removed, arrived>> /\ ready' = ready
      /\ calls' \in 0..MaxCalls /\ breaks' \in 0..MaxBreaks
      /\ overlapped' = (overlapped \/ \E d \in Callers : call[d].at # "idle")
  BY QTypes, RabbitAssumption DEF Begin, RabbitAssumption
<1>2. Fits(r) /\ Held(r) = <<>>
  <2>1. Range(r.held) = {}
    BY OneEntry
  <2> QED
    BY <2>1, HeldType DEF Fits
<1>3. call[c] \in CallRecord /\ Fits(call[c]) /\ call[c].at = "idle"
  BY QTypes DEF Begin
<1>4. Held(call[c]) = <<>>
  BY <1>3, HeldType DEF Fits
<1>5. /\ overlapped' \in BOOLEAN
      /\ ~overlapped' => ~overlapped /\ \A d \in Callers \ {c} : call[d].at = "idle"
  BY <1>1, QTypes
<1>6. ready' \in Seq(Entries) /\ Held(r) \o ready' = Line(c)
  BY <1>1, <1>2, <1>4, QTypes DEF Line
<1> QED
  BY <1>1, <1>2, <1>5, <1>6, Rearranged

LEMMA BeginAckKeeps ==
  ASSUME QInv, NEW c \in Callers, NEW id \in Ids, BeginAck(c, id)
  PROVE  QInv'
<1> DEFINE r == [Idle EXCEPT !.at = "scan", !.id = id]
<1>1. r \in CallRecord /\ r.held = <<>> /\ r.hit = None /\ r.at = "scan" /\ r.result = "none"
  BY IdleRecord DEF CallRecord
<1>2. Begin(c, r)
  BY DEF BeginAck
<1> HIDE DEF r
<1> QED
  BY <1>1, <1>2, BeginKeeps

LEMMA BeginPeekKeeps ==
  ASSUME QInv, NEW c \in Callers, BeginPeek(c)
  PROVE  QInv'
<1> DEFINE r == [Idle EXCEPT !.at = "page"]
<1>1. /\ r \in CallRecord /\ r.held = <<>> /\ r.hit = None /\ r.at = "page" /\ r.result = "none"
      /\ Len(r.out) < ScanCap
  <2>1. Len(<<>>) = 0 /\ ScanCap > 0
    BY EmptySeq DEF BeginPeek
  <2> QED
    BY <2>1, IdleRecord DEF CallRecord
<1>2. Begin(c, r)
  BY DEF BeginPeek
<1> HIDE DEF r
<1> QED
  BY <1>1, <1>2, BeginKeeps

LEMMA GetKeeps ==
  ASSUME QInv, NEW c \in Callers, Get(c)
  PROVE  QInv'
<1> DEFINE k == call[c]
<1>1. /\ k \in CallRecord /\ Fits(k) /\ k.at = "scan" /\ ready \in Seq(Entries) /\ ready # <<>>
      /\ call \in [Callers -> CallRecord]
  BY QTypes DEF Get
<1>2. k.held \in Seq(Entries) /\ k.hit = None /\ Held(k) = k.held
  BY <1>1, HeldType DEF Fits, CallRecord
<1>3. PICK e \in Entries : e = Head(ready)
  BY <1>1, HeadTailProperties
<1>4. /\ ready' \in Seq(Entries) /\ Append(k.held, e) \in Seq(Entries)
      /\ Append(k.held, e) = k.held \o <<e>> /\ (k.held \o <<e>>) \o ready' = Line(c)
  <2>1. ready' = Tail(ready) /\ Line(c) = k.held \o ready
    BY <1>2 DEF Get, Line
  <2> QED
    <3>1. PICK h : h = k.held
      OBVIOUS
    <3>2. h \in Seq(Entries) /\ ready \in Seq(Entries) /\ ready # <<>>
      BY <1>1, <1>2, <3>1
    <3>3. /\ Tail(ready) \in Seq(Entries) /\ Append(h, Head(ready)) \in Seq(Entries)
          /\ Append(h, Head(ready)) = h \o <<Head(ready)>>
          /\ (h \o <<Head(ready)>>) \o Tail(ready) = h \o ready
      BY <3>2, HeadMoves
    <3> QED
      BY <1>3, <2>1, <3>1, <3>3
<1>5. /\ UNCHANGED <<removed, arrived>> /\ calls' \in 0..MaxCalls /\ breaks' \in 0..MaxBreaks
      /\ overlapped' \in BOOLEAN
      /\ ~overlapped' => ~overlapped /\ \A d \in Callers \ {c} : call[d].at = "idle"
  BY <1>1, OnlyCall, QTypes DEF Get
<1>6. CASE IdOf[e] = k.id
  <2> DEFINE r == [k EXCEPT !.at = "found", !.hit = e]
  <2>1. call' = [call EXCEPT ![c] = r]
    BY <1>1, <1>3, <1>6 DEF Get
  <2>2. /\ r \in CallRecord /\ r.at = "found" /\ r.hit = e /\ r.held = k.held
        /\ e # None
    <3>1. e # None
      BY RabbitAssumption DEF RabbitAssumption, Entries, None
    <3> QED
      BY <1>1, <3>1 DEF CallRecord
  <2> HIDE DEF r
  <2>3. Fits(r) /\ Held(r) = k.held \o <<e>>
    BY <2>2, HeldType DEF Fits
  <2> QED
    BY <1>4, <1>5, <2>1, <2>2, <2>3, Rearranged
<1>7. CASE IdOf[e] # k.id
  <2> DEFINE r == [k EXCEPT !.held = Append(k.held, e)]
  <2>1. call' = [call EXCEPT ![c] = r]
    BY <1>1, <1>3, <1>7 DEF Get
  <2>2. /\ r \in CallRecord /\ r.at = "scan" /\ r.hit = None /\ r.held = Append(k.held, e)
        /\ r.id = k.id /\ r.result = k.result
    BY <1>1, <1>2, <1>4 DEF CallRecord
  <2>3. Range(k.held \o <<e>>) = Range(k.held) \cup {e}
    <3>1. <<e>> \in Seq(Entries)
      OBVIOUS
    <3>2. PICK h : h = k.held
      OBVIOUS
    <3>3. h \in Seq(Entries)
      BY <1>2, <3>2
    <3>4. Range(h \o <<e>>) = Range(h) \cup Range(<<e>>)
      BY <3>1, <3>3, RangeConcatenation
    <3> QED
      BY <3>2, <3>4, OneEntry
  <2> HIDE DEF r
  <2>4. Fits(r)
    BY <1>1, <1>4, <1>7, <2>2, <2>3 DEF Fits
  <2>5. Held(r) = k.held \o <<e>>
    BY <1>4, <2>2, HeldType
  <2> QED
    BY <1>4, <1>5, <2>1, <2>2, <2>4, <2>5, Rearranged
<1> QED
  BY <1>6, <1>7

LEMMA DrainedKeeps ==
  ASSUME QInv, NEW c \in Callers, Drained(c)
  PROVE  QInv'
<1> DEFINE k == call[c]
           r == [k EXCEPT !.at = "requeue", !.result = "not_found"]
<1>1. k \in CallRecord /\ Fits(k) /\ k.at = "scan" /\ call \in [Callers -> CallRecord]
  BY QTypes DEF Drained
<1>2. call' = [call EXCEPT ![c] = r]
  BY <1>1 DEF Drained
<1>3. r \in CallRecord /\ r.at = "requeue" /\ r.hit = k.hit /\ r.held = k.held
  BY <1>1 DEF CallRecord, Results
<1>4. /\ UNCHANGED <<removed, arrived>> /\ calls' \in 0..MaxCalls /\ breaks' \in 0..MaxBreaks
      /\ overlapped' \in BOOLEAN
      /\ ~overlapped' => ~overlapped /\ \A d \in Callers \ {c} : call[d].at = "idle"
  BY <1>1, OnlyCall, QTypes DEF Drained
<1> HIDE DEF r
<1>5. Fits(r) /\ Held(r) = Held(k)
  BY <1>1, <1>3 DEF Fits, Held
<1>6. ready' \in Seq(Entries) /\ Held(r) \o ready' = Line(c)
  BY <1>5, QTypes DEF Drained, Line
<1> QED
  BY <1>2, <1>3, <1>4, <1>5, <1>6, Rearranged

LEMMA AckTargetKeeps ==
  ASSUME QInv, NEW c \in Callers, AckTarget(c)
  PROVE  QInv'
<1> DEFINE k == call[c]
           r == [k EXCEPT !.at = "requeue", !.hit = None, !.result = "ok"]
<1>1. /\ k \in CallRecord /\ Fits(k) /\ k.at = "found" /\ call \in [Callers -> CallRecord]
      /\ ready \in Seq(Entries)
  BY QTypes DEF AckTarget
<1>2. /\ k.held \in Seq(Entries) /\ k.hit \in Entries
      /\ Held(k) = k.held \o <<k.hit>> /\ Range(Held(k)) = Range(k.held) \cup {k.hit}
  BY <1>1, HeldType DEF Fits, CallRecord
<1>3. call' = [call EXCEPT ![c] = r]
  BY <1>1 DEF AckTarget
<1>4. r \in CallRecord /\ r.at = "requeue" /\ r.hit = None /\ r.held = k.held
  BY <1>1 DEF CallRecord, Results
<1>5. /\ removed' = removed \cup {k.hit} /\ arrived' = arrived /\ ready' = ready
      /\ calls' \in 0..MaxCalls /\ breaks' \in 0..MaxBreaks /\ overlapped' \in BOOLEAN
      /\ ~overlapped' => ~overlapped /\ \A d \in Callers \ {c} : call[d].at = "idle"
  BY <1>1, OnlyCall, QTypes DEF AckTarget
<1> HIDE DEF r
<1>6. Fits(r) /\ Held(r) = k.held
  BY <1>4, HeldType DEF Fits
<1>7. PICK h, x : h = k.held /\ x = k.hit
  OBVIOUS
<1>8. /\ h \in Seq(Entries) /\ x \in Entries /\ <<x>> \in Seq(Entries) /\ h \o <<x>> \in Seq(Entries)
      /\ Range(<<x>>) = {x} /\ Range(h \o <<x>>) = Range(h) \cup {x}
  BY <1>2, <1>7, OneEntry, ConcatProperties
<1>9. /\ IsInjective(h \o ready) /\ x \notin Range(h) /\ x \notin Range(ready)
  <2>1. IsInjective((h \o <<x>>) \o ready)
    BY <1>2, <1>7 DEF QInv, Apart, Line
  <2>2. /\ IsInjective(h \o <<x>>) /\ IsInjective(ready)
        /\ Range(h \o <<x>>) \cap Range(ready) = {}
    BY <1>1, <1>8, <2>1, ConcatInjective
  <2>3. IsInjective(h) /\ Range(h) \cap Range(<<x>>) = {}
    BY <1>8, <2>2, ConcatInjective
  <2>4. Range(h) \cap Range(ready) = {}
    BY <1>8, <2>2
  <2>5. IsInjective(h \o ready)
    BY <1>1, <1>8, <2>2, <2>3, <2>4, ConcatInjective
  <2> QED
    BY <1>8, <2>2, <2>3, <2>5
<1>10. ASSUME ~overlapped' PROVE Sorted(h \o ready)
  <2>1. Sorted((h \o <<x>>) \o ready)
    BY <1>2, <1>5, <1>7, <1>10 DEF QInv, InOrder, Line
  <2>2. Entries \in SUBSET Int
    BY DEF Entries
  <2>3. /\ Sorted(h \o <<x>>) /\ Sorted(ready)
        /\ \A a \in Range(h \o <<x>>), b \in Range(ready) : a < b
    BY <1>1, <1>8, <2>1, <2>2, ConcatSorted
  <2>4. Sorted(h)
    BY <1>8, <2>2, <2>3, ConcatSorted
  <2>5. \A a \in Range(h), b \in Range(ready) : a < b
    BY <1>8, <2>3
  <2> QED
    BY <1>1, <1>8, <2>2, <2>3, <2>4, <2>5, ConcatSorted
<1>11. /\ Range(Held(r)) \cup Range(ready') \cup {x} = Range(Held(k)) \cup Range(ready)
       /\ {x} \cap (Range(Held(r)) \cup Range(ready')) = {} /\ {x} \in SUBSET Entries
       /\ removed' = removed \cup {x} /\ ready' \in Seq(Entries)
  BY <1>1, <1>2, <1>5, <1>6, <1>7, <1>8, <1>9
<1>12. IsInjective(Held(r) \o ready') /\ (~overlapped' => Sorted(Held(r) \o ready'))
  BY <1>5, <1>6, <1>7, <1>9, <1>10
<1> HIDE DEF k
<1> QED
  BY <1>3, <1>4, <1>5, <1>6, <1>11, <1>12, CallerSteps DEF k

LEMMA RequeueKeeps ==
  ASSUME QInv, NEW c \in Callers, Requeue(c)
  PROVE  QInv'
<1> DEFINE k == call[c]
           r == [k EXCEPT !.held = Front(k.held)]
<1>1. /\ k \in CallRecord /\ Fits(k) /\ k.at = "requeue" /\ call \in [Callers -> CallRecord]
      /\ ready \in Seq(Entries)
  BY QTypes DEF Requeue
<1>2. k.held \in Seq(Entries) /\ k.held # <<>> /\ k.hit = None /\ Held(k) = k.held
  BY <1>1, HeldType DEF Fits, Requeue, CallRecord
<1>3. PICK h : h = k.held
  OBVIOUS
<1>4. /\ Front(h) \in Seq(Entries) /\ <<Last(h)>> \o ready \in Seq(Entries)
      /\ Front(h) \o (<<Last(h)>> \o ready) = h \o ready
  <2>1. h \in Seq(Entries) /\ ready \in Seq(Entries) /\ h # <<>>
    BY <1>1, <1>2, <1>3
  <2> HIDE DEF k, r
  <2>2. \A s, t \in Seq(Entries) : s # <<>> =>
              /\ Front(s) \in Seq(Entries) /\ <<Last(s)>> \o t \in Seq(Entries)
              /\ Front(s) \o (<<Last(s)>> \o t) = s \o t
    BY LastMoves
  <2> QED
    BY <2>1, <2>2, Zenon
<1>5. call' = [call EXCEPT ![c] = r]
  BY <1>1 DEF Requeue
<1>6. r \in CallRecord /\ r.at = "requeue" /\ r.hit = None /\ r.held = Front(h)
  BY <1>1, <1>2, <1>3, <1>4 DEF CallRecord
<1>7. /\ UNCHANGED <<removed, arrived>> /\ calls' \in 0..MaxCalls /\ breaks' \in 0..MaxBreaks
      /\ overlapped' \in BOOLEAN
      /\ ~overlapped' => ~overlapped /\ \A d \in Callers \ {c} : call[d].at = "idle"
  BY <1>1, OnlyCall, QTypes DEF Requeue
<1>8. ready' = <<Last(h)>> \o ready
  BY <1>3 DEF Requeue
<1> HIDE DEF r
<1>9. Fits(r) /\ Held(r) = Front(h)
  BY <1>6, HeldType DEF Fits
<1>10. ready' \in Seq(Entries) /\ Held(r) \o ready' = Line(c)
  BY <1>2, <1>3, <1>4, <1>8, <1>9 DEF Line
<1> QED
  BY <1>5, <1>6, <1>7, <1>9, <1>10, Rearranged

LEMMA ReturnFromAckKeeps ==
  ASSUME QInv, NEW c \in Callers, ReturnFromAck(c)
  PROVE  QInv'
<1> DEFINE k == call[c]
           r == [k EXCEPT !.at = "idle"]
<1>1. /\ k \in CallRecord /\ Fits(k) /\ k.at = "requeue" /\ k.held = <<>>
      /\ call \in [Callers -> CallRecord]
  BY QTypes DEF ReturnFromAck
<1>2. call' = [call EXCEPT ![c] = r]
  BY <1>1 DEF ReturnFromAck
<1>3. r \in CallRecord /\ r.at = "idle" /\ r.hit = k.hit /\ r.held = k.held
  BY <1>1 DEF CallRecord
<1>4. /\ UNCHANGED <<removed, arrived>> /\ calls' \in 0..MaxCalls /\ breaks' \in 0..MaxBreaks
      /\ overlapped' \in BOOLEAN
      /\ ~overlapped' => ~overlapped /\ \A d \in Callers \ {c} : call[d].at = "idle"
  BY <1>1, OnlyCall, QTypes DEF ReturnFromAck
<1> HIDE DEF r
<1>5. Fits(r) /\ Held(r) = Held(k)
  BY <1>1, <1>3 DEF Fits, Held
<1>6. ready' \in Seq(Entries) /\ Held(r) \o ready' = Line(c)
  BY <1>5, QTypes DEF ReturnFromAck, Line
<1> QED
  BY <1>2, <1>3, <1>4, <1>5, <1>6, Rearranged

LEMMA PageKeeps ==
  ASSUME QInv, NEW c \in Callers, Page(c)
  PROVE  QInv'
<1> DEFINE k == call[c]
           n == Smaller(Want(c), Len(ready))
           r == [k EXCEPT !.at = "putback", !.held = SubSeq(ready, 1, n)]
<1>1. /\ k \in CallRecord /\ Fits(k) /\ k.at = "page" /\ call \in [Callers -> CallRecord]
      /\ ready \in Seq(Entries)
  BY QTypes DEF Page
<1>2. k.hit = None /\ Held(k) = <<>>
  BY <1>1, HeldType DEF Fits
<1>3. Want(c) \in Nat /\ n \in 0..Len(ready)
  <2>1. Len(k.out) \in Nat /\ Len(k.out) < ScanCap /\ Len(ready) \in Nat
    BY <1>1, LenProperties DEF CallRecord, Fits
  <2> QED
    BY <2>1, RabbitAssumption DEF RabbitAssumption, Want, Smaller
<1>4. PICK m \in 0..Len(ready) : m = n
  BY <1>3
<1>5. /\ SubSeq(ready, 1, m) \in Seq(Entries) /\ SubSeq(ready, m + 1, Len(ready)) \in Seq(Entries)
      /\ SubSeq(ready, 1, m) \o SubSeq(ready, m + 1, Len(ready)) = ready
  BY <1>1, SplitAt
<1>6. call' = [call EXCEPT ![c] = r] /\ ready' = SubSeq(ready, m + 1, Len(ready))
  BY <1>1, <1>4 DEF Page
<1>7. r \in CallRecord /\ r.at = "putback" /\ r.hit = None /\ r.held = SubSeq(ready, 1, m)
  BY <1>1, <1>2, <1>4, <1>5 DEF CallRecord
<1>8. /\ UNCHANGED <<removed, arrived>> /\ calls' \in 0..MaxCalls /\ breaks' \in 0..MaxBreaks
      /\ overlapped' \in BOOLEAN
      /\ ~overlapped' => ~overlapped /\ \A d \in Callers \ {c} : call[d].at = "idle"
  BY <1>1, OnlyCall, QTypes DEF Page
<1> HIDE DEF r
<1>9. Fits(r) /\ Held(r) = SubSeq(ready, 1, m)
  BY <1>7, HeldType DEF Fits
<1>10. ready' \in Seq(Entries) /\ Held(r) \o ready' = Line(c)
  <2>1. <<>> \o ready = ready
    BY <1>1, ConcatEmptySeq
  <2> QED
    BY <1>2, <1>5, <1>6, <1>9, <2>1 DEF Line
<1> QED
  BY <1>6, <1>7, <1>8, <1>9, <1>10, Rearranged

LEMMA PutBackKeeps ==
  ASSUME QInv, NEW c \in Callers, PutBack(c)
  PROVE  QInv'
<1> DEFINE k == call[c]
           r == [k EXCEPT !.at = IF MoreToRead(c) THEN "page" ELSE "idle",
                          !.out = @ \o k.held, !.held = <<>>,
                          !.result = IF MoreToRead(c) THEN "none" ELSE "ok"]
<1>1. /\ k \in CallRecord /\ Fits(k) /\ k.at = "putback" /\ call \in [Callers -> CallRecord]
      /\ ready \in Seq(Entries)
  BY QTypes DEF PutBack
<1>2. k.held \in Seq(Entries) /\ k.out \in Seq(Entries) /\ k.hit = None /\ Held(k) = k.held
  BY <1>1, HeldType DEF Fits, CallRecord
<1>3. k.out \o k.held \in Seq(Entries) /\ k.held \o ready \in Seq(Entries) /\ <<>> \in Seq(Entries)
  <2>1. PICK h, o : h = k.held /\ o = k.out
    OBVIOUS
  <2>2. h \in Seq(Entries) /\ o \in Seq(Entries)
    BY <1>2, <2>1
  <2>3. o \o h \in Seq(Entries) /\ h \o ready \in Seq(Entries)
    BY <1>1, <2>2, ConcatProperties
  <2> QED
    BY <2>1, <2>3, EmptySeq
<1>4. call' = [call EXCEPT ![c] = r]
  BY <1>1 DEF PutBack
<1>5. /\ r \in CallRecord /\ r.at = (IF MoreToRead(c) THEN "page" ELSE "idle")
      /\ r.hit = None /\ r.held = <<>> /\ r.out = k.out \o k.held
  BY <1>1, <1>2, <1>3 DEF CallRecord, Results
<1>6. /\ UNCHANGED <<removed, arrived>> /\ calls' \in 0..MaxCalls /\ breaks' \in 0..MaxBreaks
      /\ overlapped' \in BOOLEAN /\ ready' = k.held \o ready
      /\ ~overlapped' => ~overlapped /\ \A d \in Callers \ {c} : call[d].at = "idle"
  BY <1>1, OnlyCall, QTypes DEF PutBack
<1> HIDE DEF r
<1>7. Fits(r) /\ Held(r) = <<>>
  <2>1. Len(k.out \o k.held) = Len(k.out) + Len(k.held)
    BY <1>2, ConcatProperties
  <2> QED
    BY <1>5, <2>1, HeldType DEF Fits, MoreToRead
<1>8. ready' \in Seq(Entries) /\ Held(r) \o ready' = Line(c)
  <2>1. <<>> \o ready' = ready'
    BY <1>3, <1>6, ConcatEmptySeq
  <2> QED
    BY <1>2, <1>3, <1>6, <1>7, <2>1 DEF Line
<1> QED
  BY <1>4, <1>5, <1>6, <1>7, <1>8, Rearranged

LEMMA BreakKeeps ==
  ASSUME QInv, NEW c \in Callers, NEW res \in Results, Break(c, res), call[c].at # "idle"
  PROVE  QInv'
<1> DEFINE k == call[c]
           r == [k EXCEPT !.at = "idle", !.held = <<>>, !.hit = None, !.result = res]
<1>1. /\ k \in CallRecord /\ k.at # "idle" /\ call \in [Callers -> CallRecord]
      /\ ready \in Seq(Entries) /\ Held(k) \in Seq(Entries) /\ <<>> \in Seq(Entries)
  BY QTypes, EmptySeq
<1>2. call' = [call EXCEPT ![c] = r]
  BY <1>1 DEF Break
<1>3. r \in CallRecord /\ r.at = "idle" /\ r.hit = None /\ r.held = <<>>
  BY <1>1 DEF CallRecord
<1>4. ready' = Held(k) \o ready
  BY DEF Break, Unacked, Held
<1>5. /\ UNCHANGED <<removed, arrived>> /\ calls' \in 0..MaxCalls /\ breaks' \in 0..MaxBreaks
      /\ overlapped' \in BOOLEAN
      /\ ~overlapped' => ~overlapped /\ \A d \in Callers \ {c} : call[d].at = "idle"
  <2>1. breaks' \in 0..MaxBreaks
    BY QTypes, RabbitAssumption DEF Break, RabbitAssumption
  <2> QED
    BY <1>1, <2>1, OnlyCall, QTypes DEF Break
<1> HIDE DEF r
<1>6. Fits(r) /\ Held(r) = <<>>
  BY <1>3, HeldType DEF Fits
<1>7. ready' \in Seq(Entries) /\ Held(r) \o ready' = Line(c)
  <2>1. ready' \in Seq(Entries)
    BY <1>1, <1>4, ConcatProperties
  <2>2. <<>> \o ready' = ready'
    BY <2>1, ConcatEmptySeq
  <2> QED
    BY <1>4, <1>6, <2>1, <2>2 DEF Line
<1> QED
  BY <1>2, <1>3, <1>5, <1>6, <1>7, Rearranged

LEMMA BreaksKeeps ==
  ASSUME QInv, NEW c \in Callers, Breaks(c)
  PROVE  QInv'
<1>1. call[c].result \in Results /\ "error" \in Results /\ "ok" \in Results
  BY QTypes DEF CallRecord, Results
<1>2. PICK res \in Results : Break(c, res) /\ call[c].at # "idle"
  BY <1>1 DEF Breaks
<1> QED
  BY <1>2, BreakKeeps

LEMMA ArriveKeeps ==
  ASSUME QInv, Arrive
  PROVE  QInv'
<1>1. PICK e : e = arrived + 1
  OBVIOUS
<1>2. /\ e \in Entries /\ <<e>> \in Seq(Entries) /\ ready \in Seq(Entries)
      /\ arrived' = e /\ ready' = ready \o <<e>> /\ arrived \in Int /\ arrived' \in Depth..N
      /\ call' = call /\ removed' = removed /\ calls' = calls /\ breaks' = breaks
      /\ overlapped' = overlapped
  <2>1. /\ e \in Entries /\ arrived' = e /\ arrived \in Int /\ arrived' \in Depth..N
        /\ ready' = Append(ready, e)
        /\ call' = call /\ removed' = removed /\ calls' = calls /\ breaks' = breaks
        /\ overlapped' = overlapped
    BY <1>1, QTypes DEF Arrive, Entries
  <2> QED
    BY <2>1, QTypes, AppendIsConcat
<1>3. ready' \in Seq(Entries) /\ Range(ready') = Range(ready) \cup {e}
  <2>1. Range(ready \o <<e>>) = Range(ready) \cup Range(<<e>>) /\ ready \o <<e>> \in Seq(Entries)
    BY <1>2, ConcatProperties, RangeConcatenation
  <2> QED
    BY <1>2, <2>1, OneEntry
<1>4. /\ \A x \in removed \cup Range(ready) : x \in 1..arrived
      /\ \A c \in Callers : \A x \in Range(Held(call[c])) : x \in 1..arrived
  BY DEF QInv, Accounted
<1>5. e \notin removed \cup Range(ready) /\ \A c \in Callers : e \notin Range(Held(call[c]))
  <2>1. e \notin 1..arrived
    BY <1>1, <1>2
  <2> QED
    BY <1>4, <2>1
<1>6. ASSUME NEW c \in Callers
      PROVE  /\ Line(c) \in Seq(Entries) /\ Held(call[c]) \o ready' = Line(c) \o <<e>>
             /\ Range(Line(c)) = Range(Held(call[c])) \cup Range(ready)
             /\ IsInjective(Line(c)) /\ (~overlapped => Sorted(Line(c)))
  <2>1. PICK h : h = Held(call[c])
    OBVIOUS
  <2>2. h \in Seq(Entries)
    BY <2>1, QTypes
  <2>3. h \o ready \in Seq(Entries) /\ h \o (ready \o <<e>>) = (h \o ready) \o <<e>>
    BY <1>2, <2>2, ConcatProperties, ConcatAssociative
  <2>4. Range(h \o ready) = Range(h) \cup Range(ready)
    BY <1>2, <2>2, RangeConcatenation
  <2> QED
    BY <1>2, <2>1, <2>3, <2>4 DEF QInv, Apart, InOrder, Line
<1>7. ASSUME NEW t \in Seq(Entries), IsInjective(t), \A x \in Range(t) : x \in 1..arrived
      PROVE  IsInjective(t \o <<e>>) /\ (Sorted(t) => Sorted(t \o <<e>>))
  <2>1. Range(<<e>>) = {e} /\ IsInjective(<<e>>) /\ Sorted(<<e>>)
    BY OneEntry
  <2>2. \A x \in Range(t), y \in Range(<<e>>) : x < y
    BY <1>1, <1>2, <1>7, <2>1
  <2>3. IsInjective(t \o <<e>>)
    <3>1. Range(t) \cap Range(<<e>>) = {}
      <4>1. e \notin 1..arrived
        BY <1>1, <1>2
      <4> QED
        BY <1>7, <2>1, <4>1
    <3> QED
      BY <1>2, <1>7, <2>1, <3>1, ConcatInjective
  <2>4. ASSUME Sorted(t) PROVE Sorted(t \o <<e>>)
    <3>1. Entries \in SUBSET Int
      BY DEF Entries
    <3> QED
      BY <1>2, <2>1, <2>2, <2>4, <3>1, ConcatSorted
  <2> QED
    BY <2>3, <2>4
<1>8. IsInjective(ready') /\ (~overlapped => Sorted(ready'))
  <2>1. IsInjective(ready) /\ (~overlapped => Sorted(ready))
    BY DEF QInv, Apart, InOrder
  <2> QED
    BY <1>2, <1>4, <1>7, <2>1
<1>9. ASSUME NEW c \in Callers
      PROVE  IsInjective(Held(call[c]) \o ready') /\ (~overlapped => Sorted(Held(call[c]) \o ready'))
  <2>1. PICK l : l = Line(c)
    OBVIOUS
  <2>2. /\ l \in Seq(Entries) /\ IsInjective(l) /\ (~overlapped => Sorted(l))
        /\ \A x \in Range(l) : x \in 1..arrived
    BY <1>4, <1>6, <2>1
  <2>3. IsInjective(l \o <<e>>) /\ (~overlapped => Sorted(l \o <<e>>))
    BY <1>7, <2>2
  <2> QED
    BY <1>6, <2>1, <2>3
<1>10. TypeOK'
  BY <1>2, <1>3 DEF QInv, TypeOK
<1>11. Apart'
  BY <1>2, <1>3, <1>5, <1>8, <1>9 DEF QInv, Apart, Line
<1>12. Accounted'
  <2>1. 1..arrived' = (1..arrived) \cup {e}
    <3>1. arrived \in Nat
      BY QTypes
    <3> QED
      BY <1>1, <1>2, <3>1
  <2> QED
    BY <1>2, <1>3, <2>1 DEF QInv, Accounted
<1>13. InOrder'
  BY <1>2, <1>8, <1>9 DEF QInv, InOrder, Line
<1> QED
  BY <1>2, <1>10, <1>11, <1>12, <1>13 DEF QInv

LEMMA InitQInv ==
  ASSUME Init
  PROVE  QInv
<1>1. Depth \in Nat /\ N \in Nat /\ Depth <= N /\ Depth \in 0..N /\ MaxCalls \in Nat /\ MaxBreaks \in Nat
  BY RabbitAssumption DEF RabbitAssumption
<1>2. /\ ready \in Seq(Entries) /\ DOMAIN ready = 1..Depth /\ \A i \in 1..Depth : ready[i] = i
  <2>1. ready = [e \in 1..Depth |-> e]
    BY DEF Init
  <2>2. [e \in 1..Depth |-> e] \in [1..Depth -> Entries]
    BY <1>1 DEF Entries
  <2>3. [e \in 1..Depth |-> e] \in Seq(Entries)
    BY <1>1, <2>2
  <2> QED
    BY <2>1, <2>3
<1>3. IsInjective(ready) /\ Sorted(ready) /\ Range(ready) = 1..Depth
  BY <1>1, <1>2 DEF IsInjective, Sorted, Range
<1>4. \A c \in Callers : call[c] = Idle
  BY DEF Init
<1>5. Held(Idle) = <<>> /\ Range(<<>>) = {} /\ Fits(Idle)
  BY IdleRecord, HeldType, OneEntry DEF Fits
<1>6. \A c \in Callers : Line(c) = ready
  BY <1>2, <1>4, <1>5, ConcatEmptySeq DEF Line
<1>7. TypeOK
  <2>1. call \in [Callers -> CallRecord]
    BY IdleRecord DEF Init
  <2> QED
    <3>1. /\ removed = {} /\ arrived \in Depth..N /\ calls \in 0..MaxCalls
          /\ breaks \in 0..MaxBreaks /\ overlapped \in BOOLEAN
      <4>1. removed = {} /\ arrived = Depth /\ calls = 0 /\ breaks = 0 /\ overlapped = FALSE
        BY DEF Init
      <4>2. overlapped \in BOOLEAN
        BY <4>1, Zenon
      <4>3. arrived \in Depth..N /\ calls \in 0..MaxCalls /\ breaks \in 0..MaxBreaks
        BY <1>1, <4>1
      <4> QED
        BY <4>1, <4>2, <4>3
    <3> QED
      BY <1>2, <2>1, <3>1 DEF TypeOK, CallRecord
<1>8. Apart
  BY <1>3, <1>4, <1>5, <1>6 DEF Apart, Init
<1>9. Accounted
  BY <1>3, <1>4, <1>5 DEF Accounted, Init
<1>10. InOrder
  BY <1>3, <1>4, <1>6, IdleRecord DEF InOrder
<1> QED
  BY <1>4, <1>5, <1>7, <1>8, <1>9, <1>10 DEF QInv

LEMMA QInvInductive ==
  ASSUME QInv, [Next]_vars
  PROVE  QInv'
<1>1. ASSUME NEW c \in Callers, NEW id \in Ids, BeginAck(c, id) PROVE QInv'
  BY <1>1, BeginAckKeeps
<1>2. ASSUME NEW c \in Callers, BeginPeek(c) PROVE QInv'
  BY <1>2, BeginPeekKeeps
<1>3. ASSUME NEW c \in Callers, CallStep(c) PROVE QInv'
  BY <1>3, GetKeeps, DrainedKeeps, AckTargetKeeps, RequeueKeeps, ReturnFromAckKeeps,
     PageKeeps, PutBackKeeps DEF CallStep
<1>4. ASSUME NEW c \in Callers, Breaks(c) PROVE QInv'
  BY <1>4, BreaksKeeps
<1>5. ASSUME UNCHANGED vars PROVE QInv'
  BY <1>5 DEF vars, QInv, TypeOK, Apart, Accounted, InOrder, Line
<1> QED
  BY <1>1, <1>2, <1>3, <1>4, <1>5, ArriveKeeps DEF Next

LEMMA QueueInvariant == Spec => []QInv
<1>1. Init => QInv
  BY InitQInv
<1>2. QInv /\ [Next]_vars => QInv'
  BY QInvInductive
<1> QED
  BY <1>1, <1>2, PTL DEF Spec

-----------------------------------------------------------------------------
(* Theorems.                                                               *)

\* Every variable of the queue and of its callers keeps its type (RabbitQueue.TypeOK).
THEOREM TypeCorrect == Spec => []TypeOK
<1>1. QInv => TypeOK
  BY DEF QInv
<1> QED
  BY <1>1, QueueInvariant, PTL

\* Between calls that never overlapped the queue is in its original order, also
\* after a channel broke in the middle of one: what requeueAll of write.go
\* promises.
THEOREM FifoRestored == Spec => []OrderRestored
<1>1. QInv => OrderRestored
  BY DEF QInv, InOrder, OrderRestored, Sorted
<1> QED
  BY <1>1, QueueInvariant, PTL

\* How often an entry occurs in a sequence without repetitions.
LEMMA OccursOnce ==
  ASSUME NEW s \in Seq(Entries), IsInjective(s), NEW e
  PROVE  Occurrences(e, s) = IF e \in Range(s) THEN 1 ELSE 0
<1> DEFINE Places == {i \in DOMAIN s : s[i] = e}
<1>1. CASE e \in Range(s)
  <2>1. PICK i \in DOMAIN s : s[i] = e
    BY <1>1 DEF Range
  <2>2. Places = {i}
    BY <2>1 DEF IsInjective
  <2> QED
    BY <1>1, <2>2, FS_Singleton DEF Occurrences
<1>2. CASE e \notin Range(s)
  <2>1. Places = {}
    BY <1>2 DEF Range
  <2> QED
    BY <1>2, <2>1, FS_EmptySet DEF Occurrences
<1> QED
  BY <1>1, <1>2

\* Ack loses nothing and doubles nothing (write.go:76-77), however many calls
\* hold entries of the queue at once and whichever of their channels break:
\* every entry is in the queue, in the hands of one call, or removed.
THEOREM NothingLostOrDoubled == Spec => []EachInOnePlace
<1>1. ASSUME QInv PROVE EachInOnePlace
  <2> SUFFICES ASSUME NEW e \in 1..arrived
               PROVE  Occurrences(e, ready) + Cardinality({e} \cap removed)
                      + Cardinality({c \in Callers : Occurrences(e, Unacked(c)) = 1}) = 1
    BY DEF EachInOnePlace
  <2> DEFINE Holders == {c \in Callers : e \in Range(Held(call[c]))}
  <2>1. Occurrences(e, ready) = IF e \in Range(ready) THEN 1 ELSE 0
    BY <1>1, QTypes, OccursOnce DEF QInv, Apart
  <2>2. Cardinality({e} \cap removed) = IF e \in removed THEN 1 ELSE 0
    <3>1. e \in removed => {e} \cap removed = {e}
      OBVIOUS
    <3>2. e \notin removed => {e} \cap removed = {}
      OBVIOUS
    <3> QED
      BY <3>1, <3>2, FS_EmptySet, FS_Singleton
  <2>3. {c \in Callers : Occurrences(e, Unacked(c)) = 1} = Holders
    <3>1. ASSUME NEW c \in Callers
          PROVE  Occurrences(e, Unacked(c)) = IF e \in Range(Held(call[c])) THEN 1 ELSE 0
      <4>1. PICK h : h = Held(call[c])
        OBVIOUS
      <4>2. h \in Seq(Entries) /\ ready \in Seq(Entries) /\ IsInjective(h \o ready)
        BY <1>1, <4>1, QTypes DEF QInv, Apart, Line
      <4>3. IsInjective(h)
        BY <4>2, ConcatInjective
      <4>4. Occurrences(e, h) = IF e \in Range(h) THEN 1 ELSE 0
        BY <4>2, <4>3, OccursOnce
      <4> QED
        BY <4>1, <4>4 DEF Unacked, Held
    <3> QED
      BY <3>1
  <2>4. \A c, d \in Holders : c = d
    BY <1>1 DEF QInv, Apart
  <2>5. Cardinality(Holders) = IF Holders = {} THEN 0 ELSE 1
    <3>1. ASSUME NEW c \in Holders PROVE Holders = {c}
      BY <2>4
    <3> QED
      BY <3>1, FS_EmptySet, FS_Singleton
  <2>6. /\ e \in Range(ready) \/ e \in removed \/ Holders # {}
        /\ ~(e \in Range(ready) /\ e \in removed)
        /\ Holders # {} => e \notin removed
    BY <1>1 DEF QInv, Accounted, Apart
  <2>7. ASSUME NEW c \in Holders PROVE e \notin Range(ready)
    <3>1. PICK h : h = Held(call[c])
      OBVIOUS
    <3>2. h \in Seq(Entries) /\ ready \in Seq(Entries) /\ IsInjective(h \o ready) /\ e \in Range(h)
      BY <1>1, <3>1, QTypes DEF QInv, Apart, Line
    <3> QED
      BY <3>2, ConcatInjective
  <2>8. Holders # {} => e \notin Range(ready)
    BY <2>7
  <2> HIDE DEF Holders
  <2>9. Occurrences(e, ready) + Cardinality({e} \cap removed)
          + Cardinality({c \in Callers : Occurrences(e, Unacked(c)) = 1})
        = (IF e \in Range(ready) THEN 1 ELSE 0) + (IF e \in removed THEN 1 ELSE 0)
          + (IF Holders = {} THEN 0 ELSE 1)
    BY <2>1, <2>2, <2>3, <2>5
  <2> QED
    BY <2>6, <2>8, <2>9
<1> QED
  BY <1>1, QueueInvariant, PTL

\* A scan that is the only call under way has passed no entry with its ID.
LEMMA ScanPassesNone ==
  ASSUME QInv, ~overlapped, NEW c \in Callers, call[c].at = "scan",
         NEW e \in InQueue(call[c].id)
  PROVE  e \in Range(ready)
<1>1. e \in 1..arrived /\ e \notin removed /\ IdOf[e] = call[c].id
  BY DEF InQueue
<1>2. ASSUME NEW d \in Callers PROVE e \notin Range(Held(call[d]))
  <2>1. call[d] \in CallRecord /\ Fits(call[d])
    BY QTypes
  <2>2. CASE d = c
    <3>1. Held(call[d]) = call[d].held
      BY <2>1, <2>2, HeldType DEF Fits
    <3> QED
      BY <1>1, <2>1, <2>2, <3>1 DEF Fits
  <2>3. CASE d # c
    <3>1. call[d].at = "idle"
      BY <2>3 DEF QInv, InOrder
    <3>2. Held(call[d]) = <<>>
      BY <2>1, <3>1, HeldType DEF Fits
    <3> QED
      BY <3>2, OneEntry
  <2> QED
    BY <2>2, <2>3
<1> QED
  BY <1>1, <1>2 DEF QInv, Accounted

LEMMA OthersKeepTheirCall ==
  ASSUME QInv, NEW c \in Callers, NEW d \in Callers, d # c,
         \/ \E id \in Ids : BeginAck(d, id)
         \/ BeginPeek(d) \/ CallStep(d) \/ Breaks(d)
  PROVE  call'[c] = call[c]
<1>1. call \in [Callers -> CallRecord]
  BY QTypes
<1>2. ASSUME NEW id \in Ids, BeginAck(d, id) PROVE call'[c] = call[c]
  <2> DEFINE k == [Idle EXCEPT !.at = "scan", !.id = id]
  <2>1. call' = [call EXCEPT ![d] = k]
    BY <1>2 DEF BeginAck, Begin
  <2> HIDE DEF k
  <2> QED
    BY <1>1, <2>1
<1>3. BeginPeek(d) => call'[c] = call[c]
  BY <1>1 DEF BeginPeek, Begin
<1>4. Get(d) => call'[c] = call[c]
  BY <1>1 DEF Get
<1>5. Drained(d) => call'[c] = call[c]
  BY <1>1 DEF Drained
<1>6. AckTarget(d) => call'[c] = call[c]
  BY <1>1 DEF AckTarget
<1>7. Requeue(d) => call'[c] = call[c]
  BY <1>1 DEF Requeue
<1>8. ReturnFromAck(d) => call'[c] = call[c]
  BY <1>1 DEF ReturnFromAck
<1>9. Page(d) => call'[c] = call[c]
  BY <1>1 DEF Page
<1>10. PutBack(d) => call'[c] = call[c]
  BY <1>1 DEF PutBack
<1>11. ASSUME NEW res, Break(d, res) PROVE call'[c] = call[c]
  BY <1>1, <1>11 DEF Break
<1>12. Breaks(d) => call'[c] = call[c]
  BY <1>11 DEF Breaks
<1> QED
  BY <1>2, <1>3, <1>4, <1>5, <1>6, <1>7, <1>8, <1>9, <1>10, <1>12 DEF CallStep

LEMMA FromScan ==
  ASSUME QInv, NEW c \in Callers, Next, call[c].at = "scan", call'[c] # call[c]
  PROVE  Get(c) \/ Drained(c) \/ Break(c, "error")
<1>1. ~Arrive
  BY DEF Arrive
<1>2. PICK d \in Callers : \/ \E id \in Ids : BeginAck(d, id)
                           \/ BeginPeek(d) \/ CallStep(d) \/ Breaks(d)
  BY <1>1 DEF Next
<1>3. d = c
  BY <1>2, OthersKeepTheirCall
<1>4. /\ \A id \in Ids : ~BeginAck(c, id)
      /\ ~BeginPeek(c)
  BY DEF BeginAck, BeginPeek, Begin
<1>5. CallStep(c) => Get(c) \/ Drained(c)
  BY DEF CallStep, AckTarget, Requeue, ReturnFromAck, Page, PutBack
<1>6. Breaks(c) => Break(c, "error")
  BY DEF Breaks
<1> QED
  BY <1>2, <1>3, <1>4, <1>5, <1>6

\* An Ack that has the queue for itself finds the oldest entry with its ID, and
\* reports "not found" only when there is none (the scan of write.go:101-120):
\* it acks the message that the Inspect before it returned.
THEOREM AckFindsTheOldest == Spec => FindsTheOldest
<1> DEFINE Finds == ~overlapped' => \A c \in Callers :
              /\ call[c].at = "scan" /\ call'[c].at = "found"
                 => \A e \in InQueue(call[c].id) : call'[c].hit <= e
              /\ call[c].at = "scan" /\ call'[c].result = "not_found"
                 => InQueue(call[c].id) = {}
<1>1. ASSUME QInv, [Next]_vars PROVE [Finds]_vars
  <2> SUFFICES ASSUME Next, ~overlapped', NEW c \in Callers, call[c].at = "scan"
               PROVE  /\ call'[c].at = "found" => \A e \in InQueue(call[c].id) : call'[c].hit <= e
                      /\ call'[c].result = "not_found" => InQueue(call[c].id) = {}
    BY <1>1
  <2>1. /\ call \in [Callers -> CallRecord] /\ call[c] \in CallRecord /\ call[c].result = "none"
        /\ ready \in Seq(Entries)
    BY <1>1, QTypes DEF Fits
  <2>2. CASE call'[c] = call[c]
    BY <2>1, <2>2
  <2>3. CASE call'[c] # call[c]
    <3>1. Get(c) \/ Drained(c) \/ Break(c, "error")
      BY <1>1, <2>3, FromScan
    <3>2. CASE Get(c)
      <4>1. ~overlapped /\ ready # <<>>
        BY <3>2 DEF Get
      <4>2. /\ call'[c].result = "none"
            /\ call'[c].at = "found" => call'[c].hit = Head(ready)
        BY <2>1, <3>2 DEF Get
      <4>3. ASSUME NEW e \in InQueue(call[c].id) PROVE Head(ready) <= e
        <5>1. e \in Range(ready) /\ Sorted(ready)
          BY <1>1, <4>1, ScanPassesNone DEF QInv, InOrder
        <5>2. PICK i \in DOMAIN ready : ready[i] = e
          BY <5>1 DEF Range
        <5>3. Len(ready) \in Nat \ {0} /\ DOMAIN ready = 1..Len(ready) /\ Head(ready) = ready[1]
          BY <2>1, <4>1, EmptySeq, LenProperties
        <5>4. i = 1 \/ ready[1] < ready[i]
          BY <5>1, <5>3 DEF Sorted
        <5>5. ready[1] \in Int /\ ready[i] \in Int
          <6>1. ready[1] \in Entries /\ ready[i] \in Entries
            BY <2>1, <5>2, <5>3, ElementOfSeq
          <6> QED
            BY <6>1 DEF Entries
        <5> QED
          BY <5>2, <5>3, <5>4, <5>5
      <4> QED
        BY <4>2, <4>3
    <3>3. CASE Drained(c)
      <4>1. ~overlapped /\ ready = <<>> /\ call'[c].at = "requeue"
        BY <2>1, <3>3 DEF Drained
      <4>2. InQueue(call[c].id) = {}
        BY <1>1, <4>1, ScanPassesNone, OneEntry
      <4> QED
        BY <4>1, <4>2
    <3>4. CASE Break(c, "error")
      BY <2>1, <3>4 DEF Break
    <3> QED
      BY <3>1, <3>2, <3>3, <3>4
  <2> QED
    BY <2>2, <2>3
<1> QED
  BY <1>1, QueueInvariant, PTL DEF Spec, FindsTheOldest
=============================================================================
