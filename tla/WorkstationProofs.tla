-------------------------- MODULE WorkstationProofs --------------------------
(***************************************************************************)
(* Theorems about Workstation: what self-updates install, in which order   *)
(* versions come, when there is a binary to run, and what the commands     *)
(* that edit the configuration file keep, for any number of processes,     *)
(* profiles, changes, releases and faults.                                 *)
(***************************************************************************)
EXTENDS Workstation, FiniteSetTheorems, SequenceTheorems, WellFoundedInduction, TLAPS

-----------------------------------------------------------------------------
(* Least and greatest numbers.                                             *)

LEMMA LeastNumber ==
  ASSUME NEW S \in SUBSET Nat, S # {}
  PROVE  \E i \in S : \A j \in S : i <= j
<1>1. PICK i \in S : \A j \in S : ~(<<j, i>> \in OpToRel(<, Nat))
  BY NatLessThanWellFounded, WFMin
<1>2. \A j \in S : <<j, i>> \in OpToRel(<, Nat) <=> j < i
  BY DEF OpToRel
<1>3. ASSUME NEW j \in S PROVE i <= j
  <2>1. i \in Nat /\ j \in Nat /\ ~(j < i)
    BY <1>1, <1>2
  <2> QED
    BY <2>1
<1> QED
  BY <1>3

LEMMA GreatestNumber ==
  ASSUME NEW n \in Nat, NEW S \in SUBSET (1..n), S # {}
  PROVE  \E i \in S : \A j \in S : j <= i
<1> DEFINE T == {n - i : i \in S}
<1>1. T \in SUBSET Nat /\ T # {}
  <2>1. \A i \in S : n - i \in Nat
    OBVIOUS
  <2> QED
    BY <2>1
<1>2. PICK t \in T : \A u \in T : t <= u
  BY <1>1, LeastNumber
<1>3. PICK i \in S : t = n - i
  BY <1>2
<1>4. ASSUME NEW j \in S PROVE j <= i
  <2>1. n - i <= n - j
    BY <1>2, <1>3
  <2> QED
    BY <2>1
<1> QED
  BY <1>4

-----------------------------------------------------------------------------
(* semver.Compare orders versions as Precedes does.                        *)

LEMMA CmpIntSign ==
  ASSUME NEW a \in Int, NEW b \in Int
  PROVE  /\ CmpInt(a, b) \in {-1, 0, 1}
         /\ CmpInt(a, b) < 0 <=> a < b
         /\ CmpInt(a, b) = 0 <=> a = b
         /\ -CmpInt(a, b) < 0 <=> b < a
BY DEF CmpInt

LEMMA CmpIdentifierSign ==
  ASSUME NEW x \in Identifiers, NEW y \in Identifiers
  PROVE  /\ CmpPreIdentifier(x, y) \in {-1, 0, 1}
         /\ CmpPreIdentifier(x, y) < 0 <=> Lower(x, y)
         /\ CmpPreIdentifier(x, y) = 0 <=> x = y
<1>1. /\ x.num \in BOOLEAN /\ y.num \in BOOLEAN /\ x.val \in Int /\ y.val \in Int
      /\ x = y <=> x.num = y.num /\ x.val = y.val
  BY DEF Identifiers
<1>2. CASE x.num = y.num
  BY <1>1, <1>2, CmpIntSign DEF CmpPreIdentifier, Lower
<1>3. CASE x.num # y.num
  BY <1>1, <1>3 DEF CmpPreIdentifier, Lower
<1> QED
  BY <1>2, <1>3

\* The first comparison that is not 0 is the one below which all are 0.
LEMMA FirstDecides ==
  ASSUME NEW n \in Nat, NEW c, DOMAIN c = 1..n
  PROVE  \/ (\A i \in 1..n : c[i] = 0) /\ FirstNonZero(c) = 0
         \/ \E k \in 1..n : /\ c[k] # 0 /\ FirstNonZero(c) = c[k]
                            /\ \A j \in 1..(k - 1) : c[j] = 0
<1> DEFINE nz == {i \in 1..n : c[i] # 0}
<1>1. FirstNonZero(c) = IF nz = {} THEN 0 ELSE c[CHOOSE i \in nz : \A j \in nz : i <= j]
  BY DEF FirstNonZero
<1>2. CASE nz = {}
  BY <1>1, <1>2
<1>3. CASE nz # {}
  <2>1. nz \in SUBSET Nat
    OBVIOUS
  <2> DEFINE k == CHOOSE i \in nz : \A j \in nz : i <= j
  <2>2. k \in nz /\ \A j \in nz : k <= j
    BY <1>3, <2>1, LeastNumber
  <2>3. FirstNonZero(c) = c[k]
    BY <1>1, <1>3
  <2> HIDE DEF k
  <2>4. k \in 1..n /\ c[k] # 0
    BY <2>2
  <2>5. ASSUME NEW j \in 1..(k - 1) PROVE c[j] = 0
    <3>1. j \in 1..n /\ ~(k <= j)
      BY <2>4
    <3> QED
      BY <2>2, <3>1
  <2> QED
    BY <2>3, <2>4, <2>5
<1> QED
  BY <1>2, <1>3

LEMMA PrereleaseSign ==
  ASSUME NEW s \in Seq(Identifiers), NEW t \in Seq(Identifiers)
  PROVE  CmpPrerelease(s, t) \in {-1, 0, 1} /\ (CmpPrerelease(s, t) < 0 <=> PreLower(s, t))
<1>1. /\ Len(s) \in Nat /\ Len(t) \in Nat
      /\ s = <<>> <=> Len(s) = 0
      /\ t = <<>> <=> Len(t) = 0
      /\ \A i \in 1..Len(s) : s[i] \in Identifiers
      /\ \A i \in 1..Len(t) : t[i] \in Identifiers
  OBVIOUS
<1>2. CASE s = <<>> \/ t = <<>>
  <2>1. CmpPrerelease(s, t) = -CmpInt(Len(s), Len(t))
    BY <1>2 DEF CmpPrerelease
  <2>2. CmpPrerelease(s, t) < 0 <=> Len(t) < Len(s)
    BY <1>1, <2>1, CmpIntSign
  <2>3. PreLower(s, t) <=> s # <<>> /\ t = <<>>
    BY <1>1, <1>2 DEF PreLower
  <2>4. Len(t) < Len(s) <=> s # <<>> /\ t = <<>>
    BY <1>1, <1>2
  <2> QED
    BY <1>1, <2>1, <2>2, <2>3, <2>4, CmpIntSign
<1>3. CASE s # <<>> /\ t # <<>>
  <2> DEFINE n == IF Len(s) < Len(t) THEN Len(s) ELSE Len(t)
             d == [i \in 1..n |-> CmpPreIdentifier(s[i], t[i])]
             c == FirstNonZero(d)
  <2>1. CmpPrerelease(s, t) = IF c # 0 THEN c ELSE CmpInt(Len(s), Len(t))
    BY <1>3 DEF CmpPrerelease
  <2>2. /\ n \in Nat /\ n <= Len(s) /\ n <= Len(t) /\ (n = Len(s) \/ n = Len(t))
        /\ DOMAIN d = 1..n
    BY <1>1
  <2>3. \A i \in 1..n : /\ d[i] \in {-1, 0, 1}
                        /\ d[i] < 0 <=> Lower(s[i], t[i])
                        /\ d[i] = 0 <=> s[i] = t[i]
    BY <1>1, <2>2, CmpIdentifierSign
  <2>4. PreLower(s, t) <=> \E i \in 1..Len(t) :
                              /\ \A j \in 1..(i - 1) : j <= Len(s) /\ s[j] = t[j]
                              /\ i <= Len(s) => Lower(s[i], t[i])
    BY <1>3 DEF PreLower
  <2> HIDE DEF n, d
  <2>5. CASE (\A i \in 1..n : d[i] = 0) /\ c = 0
    <3>1. CmpPrerelease(s, t) = CmpInt(Len(s), Len(t))
      BY <2>1, <2>5
    <3>2. \A i \in 1..n : s[i] = t[i] /\ ~Lower(s[i], t[i])
      BY <2>3, <2>5
    <3>3. ASSUME Len(s) < Len(t) PROVE PreLower(s, t)
      <4>1. n = Len(s) /\ Len(s) + 1 \in 1..Len(t)
        BY <1>1, <2>2, <3>3
      <4>2. \A j \in 1..((Len(s) + 1) - 1) : j <= Len(s) /\ s[j] = t[j]
        BY <1>1, <3>2, <4>1
      <4>3. ~(Len(s) + 1 <= Len(s))
        BY <1>1
      <4> QED
        BY <2>4, <4>1, <4>2, <4>3
    <3>4. ASSUME PreLower(s, t) PROVE Len(s) < Len(t)
      <4>1. PICK i \in 1..Len(t) : i <= Len(s) => Lower(s[i], t[i])
        BY <2>4, <3>4
      <4>2. ~(i <= Len(s))
        <5>1. i <= Len(s) => i \in 1..n
          BY <1>1, <2>2
        <5> QED
          BY <3>2, <4>1, <5>1
      <4> QED
        BY <1>1, <4>2
    <3> QED
      BY <1>1, <3>1, <3>3, <3>4, CmpIntSign
  <2>6. CASE \E k \in 1..n : d[k] # 0 /\ c = d[k] /\ \A j \in 1..(k - 1) : d[j] = 0
    <3>1. PICK k \in 1..n : d[k] # 0 /\ c = d[k] /\ \A j \in 1..(k - 1) : d[j] = 0
      BY <2>6
    <3>2. CmpPrerelease(s, t) = d[k]
      BY <2>1, <3>1
    <3>3. \A j \in 1..(k - 1) : j \in 1..n /\ j <= Len(s) /\ s[j] = t[j]
      BY <1>1, <2>2, <2>3, <3>1
    <3>4. k \in 1..Len(t) /\ k <= Len(s) /\ s[k] # t[k]
      BY <1>1, <2>2, <2>3, <3>1
    <3>5. Lower(s[k], t[k]) => PreLower(s, t)
      BY <2>4, <3>3, <3>4
    <3>6. ASSUME PreLower(s, t) PROVE Lower(s[k], t[k])
      <4>1. PICK i \in 1..Len(t) : /\ \A j \in 1..(i - 1) : j <= Len(s) /\ s[j] = t[j]
                                   /\ i <= Len(s) => Lower(s[i], t[i])
        BY <2>4, <3>6
      <4>2. CASE i < k
        <5>1. i \in 1..(k - 1)
          BY <4>2
        <5>2. i \in 1..n /\ i <= Len(s) /\ d[i] = 0
          BY <3>1, <3>3, <5>1
        <5> QED
          BY <2>3, <4>1, <5>2
      <4>3. CASE k < i
        <5>1. k \in 1..(i - 1)
          BY <4>3
        <5> QED
          BY <3>4, <4>1, <5>1
      <4>4. CASE i = k
        BY <3>4, <4>1, <4>4
      <4> QED
        BY <4>2, <4>3, <4>4
    <3> QED
      BY <2>3, <3>1, <3>2, <3>5, <3>6
  <2> QED
    BY <2>2, <2>5, <2>6, FirstDecides
<1> QED
  BY <1>2, <1>3

\* What semver.Compare calls older is what precedes by the semantic
\* versioning specification (version.go:52-107).
THEOREM CompareIsPrecedence ==
  ASSUME NEW v \in Semvers, NEW w \in Semvers
  PROVE  Compare(v, w) < 0 <=> Precedes(v, w)
<1> DEFINE c == [i \in 1..4 |-> IF i = 4 THEN CmpPrerelease(v.pre, w.pre)
                                ELSE CmpInt(v.core[i], w.core[i])]
<1>1. Compare(v, w) = FirstNonZero(c)
  BY DEF Compare
<1>2. /\ v.core \in [1..3 -> Nat] /\ w.core \in [1..3 -> Nat]
      /\ v.pre \in Seq(Identifiers) /\ w.pre \in Seq(Identifiers)
  BY DEF Semvers
<1>3. /\ DOMAIN c = 1..4 /\ c[4] = CmpPrerelease(v.pre, w.pre)
      /\ \A i \in 1..3 : c[i] = CmpInt(v.core[i], w.core[i])
  OBVIOUS
<1> HIDE DEF c
<1>4. \A i \in 1..3 : /\ v.core[i] \in Nat /\ w.core[i] \in Nat
                      /\ c[i] < 0 <=> v.core[i] < w.core[i]
                      /\ c[i] = 0 <=> v.core[i] = w.core[i]
  BY <1>2, <1>3, CmpIntSign
<1>5. c[4] < 0 <=> PreLower(v.pre, w.pre)
  BY <1>2, <1>3, PrereleaseSign
<1>6. v.core = w.core <=> \A i \in 1..3 : c[i] = 0
  BY <1>2, <1>4
<1>7. CASE (\A i \in 1..4 : c[i] = 0) /\ FirstNonZero(c) = 0
  <2>1. ~PreLower(v.pre, w.pre) /\ \A i \in 1..3 : ~(v.core[i] < w.core[i])
    BY <1>4, <1>5, <1>7
  <2> QED
    BY <1>1, <1>7, <2>1 DEF Precedes
<1>8. CASE \E k \in 1..4 : /\ c[k] # 0 /\ FirstNonZero(c) = c[k]
                           /\ \A j \in 1..(k - 1) : c[j] = 0
  <2>1. PICK k \in 1..4 : /\ c[k] # 0 /\ FirstNonZero(c) = c[k]
                          /\ \A j \in 1..(k - 1) : c[j] = 0
    BY <1>8
  <2>2. CASE k = 4
    <3>1. v.core = w.core /\ \A i \in 1..3 : ~(v.core[i] < w.core[i])
      BY <1>4, <1>6, <2>1, <2>2
    <3> QED
      BY <1>1, <1>5, <2>1, <2>2, <3>1 DEF Precedes
  <2>3. CASE k \in 1..3
    <3>1. v.core # w.core /\ \A j \in 1..(k - 1) : v.core[j] = w.core[j]
      BY <1>4, <1>6, <2>1, <2>3
    <3>2. ASSUME NEW i \in 1..3, v.core[i] < w.core[i],
                 \A j \in 1..(i - 1) : v.core[j] = w.core[j]
          PROVE  v.core[k] < w.core[k]
      <4>1. CASE i < k
        BY <1>4, <2>3, <3>1, <3>2, <4>1
      <4>2. CASE k < i
        BY <1>4, <2>1, <2>3, <3>2, <4>2
      <4> QED
        BY <2>3, <3>2, <4>1, <4>2
    <3>3. v.core[k] < w.core[k] <=> Precedes(v, w)
      BY <2>3, <3>1, <3>2 DEF Precedes
    <3> QED
      BY <1>1, <1>4, <2>1, <2>3, <3>3
  <2> QED
    BY <2>2, <2>3
<1>9. \/ (\A i \in 1..4 : c[i] = 0) /\ FirstNonZero(c) = 0
      \/ \E k \in 1..4 : /\ c[k] # 0 /\ FirstNonZero(c) = c[k]
                         /\ \A j \in 1..(k - 1) : c[j] = 0
  BY <1>3, FirstDecides
<1> QED
  BY <1>7, <1>8, <1>9

-----------------------------------------------------------------------------
(* Self-updates: the steps of an update and of a companion script, and the *)
(* processes that start and end.                                           *)

UpdaterRecord ==
    [at : Fetches \cup {"idle", "plan", "verify", "stage", "swap", "companion", "done"},
     own : Semvers \cup {Dev}, force : BOOLEAN, confirm : BOOLEAN,
     release : Releases \cup {None}, tries : 0..(MaxAttempts - 1),
     got : Binaries \cup {None}]

\* A binary that is installed is verified, and of a version.
Good(b) == b.good /\ b.version \in Semvers \cup {Dev}
Installable ==
    /\ target # None => Good(target)
    /\ old # None => Good(old)
    /\ \A p \in Procs : staged[p] # None => staged[p].good /\ staged[p].version \in Semvers

\* How far the update of process p got, and what it may install.
Chosen(u) == u.release # None /\ u.release.tag # None
Underway(p) ==
    LET u == updater[p] IN
    /\ u.at \in {"plan", "sums", "download", "verify", "stage", "swap", "companion"}
         => Chosen(u)
    /\ u.at \in {"sums", "download", "verify", "stage", "swap", "companion"} => Wanted(u)
    /\ u.at \in {"verify", "stage", "swap", "companion"} =>
          u.got # None /\ u.got.version = u.release.tag
    /\ u.at \in {"stage", "swap"} => u.got.good
    /\ u.at = "swap" => staged[p] = u.got
    /\ script = p => u.at \in {"companion", "done"}
    /\ (u.at = "companion" \/ script = p) /\ staged[p] # None =>
          Chosen(u) /\ Wanted(u) /\ staged[p].version = u.release.tag

Followed == \A i \in installs : i.force \/ i.own = Dev \/ Precedes(i.own, i.tag)

UInv == UpdateTypeOK /\ Installable /\ (\A p \in Procs : Underway(p)) /\ Followed

LEMMA SameProcess ==
  ASSUME NEW q \in Procs, Underway(q), updater'[q] = updater[q],
         staged'[q] = staged[q] \/ (staged'[q] = None /\ updater[q].at # "swap"),
         script' = q => script = q
  PROVE  Underway(q)'
BY DEF Underway, Chosen, Wanted

LEMMA GoesTo ==
  ASSUME UpdateTypeOK, NEW p \in Procs,
         NEW at \in Fetches \cup {"idle", "plan", "verify", "stage", "swap",
                                  "companion", "done"},
         Goes(p, at)
  PROVE  /\ updater' \in [Procs -> UpdaterRecord]
         /\ updater'[p].at = at /\ updater'[p].own = updater[p].own
         /\ updater'[p].force = updater[p].force
         /\ updater'[p].release = updater[p].release /\ updater'[p].got = updater[p].got
         /\ \A q \in Procs \ {p} : updater'[q] = updater[q]
<1>1. updater \in [Procs -> UpdaterRecord] /\ 0 \in 0..(MaxAttempts - 1)
  BY UpdateAssumption DEF UpdateTypeOK, UpdaterRecord, UpdateAssumption
<1>2. updater' = [updater EXCEPT ![p].at = at, ![p].tries = 0]
  BY DEF Goes
<1> QED
  BY <1>1, <1>2 DEF UpdaterRecord

LEMMA StopsThere ==
  ASSUME UpdateTypeOK, NEW p \in Procs, Stops(p)
  PROVE  /\ updater' \in [Procs -> UpdaterRecord]
         /\ updater'[p].at = "done"
         /\ \A q \in Procs \ {p} : updater'[q] = updater[q]
<1>1. updater \in [Procs -> UpdaterRecord] /\ 0 \in 0..(MaxAttempts - 1)
  BY UpdateAssumption DEF UpdateTypeOK, UpdaterRecord, UpdateAssumption
<1>2. updater' = [updater EXCEPT ![p] = [NoUpdate EXCEPT !.at = "done"]]
  BY DEF Stops
<1>3. [NoUpdate EXCEPT !.at = "done"] \in UpdaterRecord /\ [NoUpdate EXCEPT !.at = "done"].at = "done"
  BY <1>1 DEF NoUpdate, UpdaterRecord
<1> HIDE DEF NoUpdate, UpdaterRecord
<1> QED
  BY <1>1, <1>2, <1>3

\* A release that is chosen has a version, and what is downloaded of it is a
\* binary.
LEMMA ReleaseVersion ==
  ASSUME UpdateTypeOK, NEW p \in Procs, Chosen(updater[p])
  PROVE  /\ updater[p].release \in Releases /\ updater[p].release.tag \in Semvers
         /\ \A good \in BOOLEAN :
               [version |-> updater[p].release.tag, good |-> good] \in Binaries
<1>1. updater[p].release \in Releases
  BY DEF UpdateTypeOK, Chosen
<1>2. updater[p].release \in AllReleases
  BY <1>1, UpdateAssumption DEF UpdateAssumption
<1> QED
  BY <1>1, <1>2 DEF AllReleases, Binaries, Chosen

\* A step of an update that leaves the files alone.
LEMMA UpdateMoves ==
  ASSUME UInv, NEW p \in Procs, updater' \in [Procs -> UpdaterRecord],
         \A q \in Procs \ {p} : updater'[q] = updater[q],
         UNCHANGED <<platform, target, old, script, installs, twice, cut, unmoved>>,
         image' \in [Procs -> {"none", "target", "old"}],
         runner' \in [Procs -> Lines \cup {"none"}],
         staged' = staged, Underway(p)'
  PROVE  UInv'
<1>1. UpdateTypeOK'
  BY DEF UInv, UpdateTypeOK, UpdaterRecord
<1>2. Installable' /\ Followed'
  BY DEF UInv, Installable, Followed
<1>3. \A q \in Procs : Underway(q)'
  BY SameProcess DEF UInv
<1> QED
  BY <1>1, <1>2, <1>3 DEF UInv

\* An update that stops without having written the script, or by having
\* started it.
LEMMA StopsUnderway ==
  ASSUME NEW p \in Procs, updater'[p].at = "done", script' # p
  PROVE  Underway(p)'
BY DEF Underway

LEMMA FetchKeeps ==
  ASSUME UInv, NEW p \in Procs,
         FetchAgain(p) \/ FetchFails(p) \/ Resolve(p) \/ Plan(p) \/ Checksum(p)
  PROVE  UInv'
<1> USE DEF UInv
<1>1. /\ UNCHANGED <<platform, target, old, image, script, installs, twice, cut, unmoved, runner, staged>>
      /\ updater[p].at \in Fetches \cup {"plan"}
  BY DEF FetchAgain, FetchFails, Resolve, Plan, Checksum, files, Fetches
<1>2. script # p
  BY <1>1 DEF Underway, Fetches
<1>3. ASSUME updater' \in [Procs -> UpdaterRecord],
             \A q \in Procs \ {p} : updater'[q] = updater[q], Underway(p)'
      PROVE  UInv'
  BY <1>1, <1>3, UpdateMoves DEF UpdateTypeOK
<1>4. CASE Stops(p)
  BY <1>1, <1>2, <1>3, <1>4, StopsThere, StopsUnderway
<1>5. CASE FetchAgain(p)
  <2>1. updater \in [Procs -> UpdaterRecord] /\ updater[p].tries + 1 \in 0..(MaxAttempts - 1)
    <3>1. updater[p].tries \in Nat /\ updater[p].tries + 1 < MaxAttempts /\ MaxAttempts \in Nat
      BY <1>5, UpdateAssumption DEF UpdateTypeOK, FetchAgain, UpdateAssumption
    <3> QED
      BY <3>1 DEF UpdateTypeOK, UpdaterRecord
  <2>2. updater' = [updater EXCEPT ![p].tries = @ + 1]
    BY <1>5 DEF FetchAgain
  <2>3. /\ updater' \in [Procs -> UpdaterRecord]
        /\ \A q \in Procs \ {p} : updater'[q] = updater[q]
        /\ updater'[p].at = updater[p].at /\ updater'[p].own = updater[p].own
        /\ updater'[p].force = updater[p].force
        /\ updater'[p].release = updater[p].release /\ updater'[p].got = updater[p].got
    BY <2>1, <2>2 DEF UpdaterRecord
  <2>4. Underway(p)'
    BY <1>1, <1>2, <2>3 DEF Underway, Chosen, Wanted, Fetches
  <2> QED
    BY <1>3, <2>3, <2>4
<1>6. CASE Resolve(p) /\ ~Stops(p)
  <2>1. PICK r \in Releases : /\ r.tag # None
                              /\ updater' = [updater EXCEPT ![p].at = "plan",
                                                ![p].release = r, ![p].tries = 0]
    BY <1>6 DEF Resolve
  <2>2. updater \in [Procs -> UpdaterRecord] /\ 0 \in 0..(MaxAttempts - 1)
    BY UpdateAssumption DEF UpdateTypeOK, UpdaterRecord, UpdateAssumption
  <2>3. /\ updater' \in [Procs -> UpdaterRecord]
        /\ \A q \in Procs \ {p} : updater'[q] = updater[q]
        /\ updater'[p].at = "plan" /\ updater'[p].release = r
    <3> DEFINE n == [updater[p] EXCEPT !.at = "plan", !.release = r, !.tries = 0]
    <3>1. n \in UpdaterRecord /\ n.at = "plan" /\ n.release = r
      BY <2>2 DEF UpdaterRecord
    <3>2. updater' = [updater EXCEPT ![p] = n]
      BY <2>1, <2>2
    <3> HIDE DEF n
    <3> QED
      BY <2>2, <3>1, <3>2
  <2>4. r # None
    BY <2>1, UpdateAssumption DEF UpdateAssumption, Chosen, AllReleases
  <2>5. Underway(p)'
    BY <1>1, <1>2, <2>1, <2>3, <2>4 DEF Underway, Chosen
  <2> QED
    BY <1>3, <2>3, <2>5
<1>7. CASE Plan(p) /\ ~Stops(p)
  <2>1. Wanted(updater[p]) /\ Goes(p, "sums") /\ updater[p].at = "plan"
    BY <1>7 DEF Plan
  <2>2. Underway(p)'
    BY <1>1, <1>2, <2>1, GoesTo DEF Underway, Chosen, Wanted, Fetches
  <2> QED
    BY <1>3, <2>1, <2>2, GoesTo DEF Fetches
<1>8. CASE Checksum(p) /\ ~Stops(p)
  <2>1. Goes(p, "download") /\ updater[p].at = "sums"
    BY <1>8 DEF Checksum
  <2>2. Underway(p)'
    BY <1>1, <1>2, <2>1, GoesTo DEF Underway, Chosen, Wanted, Fetches
  <2> QED
    BY <1>3, <2>1, <2>2, GoesTo DEF Fetches
<1> QED
  BY <1>4, <1>5, <1>6, <1>7, <1>8 DEF FetchFails

LEMMA DownloadKeeps == ASSUME UInv, NEW p \in Procs, Download(p) PROVE UInv'
<1> USE DEF UInv
<1>1. /\ UNCHANGED <<platform, target, old, image, script, installs, twice, cut, unmoved, runner, staged>>
      /\ updater[p].at = "download"
  BY DEF Download, files
<1>2. script # p /\ Chosen(updater[p]) /\ Wanted(updater[p])
  BY <1>1 DEF Underway
<1>3. PICK good \in BOOLEAN :
         updater' = [updater EXCEPT ![p].at = "verify", ![p].tries = 0,
                        ![p].got = [version |-> updater[p].release.tag, good |-> good]]
  BY DEF Download
<1> DEFINE b == [version |-> updater[p].release.tag, good |-> good]
           n == [updater[p] EXCEPT !.at = "verify", !.tries = 0, !.got = b]
<1>4. b \in Binaries /\ b.version = updater[p].release.tag
  BY <1>2, ReleaseVersion
<1>5. updater \in [Procs -> UpdaterRecord] /\ 0 \in 0..(MaxAttempts - 1)
  BY UpdateAssumption DEF UpdateTypeOK, UpdaterRecord, UpdateAssumption
<1>6. updater' = [updater EXCEPT ![p] = n]
  BY <1>3, <1>5
<1> HIDE DEF b
<1>7. /\ n \in UpdaterRecord /\ n.at = "verify" /\ n.got = b /\ n.own = updater[p].own
      /\ n.force = updater[p].force /\ n.release = updater[p].release
  BY <1>4, <1>5 DEF UpdaterRecord
<1> HIDE DEF n
<1>8. /\ updater' \in [Procs -> UpdaterRecord] /\ updater'[p] = n
      /\ \A q \in Procs \ {p} : updater'[q] = updater[q]
  BY <1>5, <1>6, <1>7
<1>9. b # None
  BY <1>4, UpdateAssumption DEF UpdateAssumption
<1>10. Underway(p)'
  BY <1>1, <1>2, <1>4, <1>7, <1>8, <1>9 DEF Underway, Chosen, Wanted
<1> QED
  BY <1>1, <1>8, <1>10, UpdateMoves DEF UpdateTypeOK

LEMMA VerifyKeeps == ASSUME UInv, NEW p \in Procs, Verify(p) PROVE UInv'
<1> USE DEF UInv
<1>1. /\ UNCHANGED <<platform, target, old, image, script, installs, twice, cut, unmoved, runner, staged>>
      /\ updater[p].at = "verify"
  BY DEF Verify, files
<1>2. script # p
  BY <1>1 DEF Underway
<1>3. CASE Stops(p)
  <2>1. Underway(p)'
    BY <1>1, <1>2, <1>3, StopsThere, StopsUnderway
  <2> QED
    BY <1>1, <1>3, <2>1, StopsThere, UpdateMoves DEF UpdateTypeOK
<1>4. CASE Verified(updater[p]) /\ Goes(p, "stage")
  <2>1. Underway(p)'
    BY <1>1, <1>2, <1>4, GoesTo DEF Underway, Chosen, Wanted, Verified
  <2> QED
    BY <1>1, <1>4, <2>1, GoesTo, UpdateMoves DEF UpdateTypeOK
<1> QED
  BY <1>3, <1>4 DEF Verify

\* A binary that is verified is staged.
LEMMA StageKeeps == ASSUME UInv, NEW p \in Procs, Stage(p) PROVE UInv'
<1> USE DEF UInv
<1>1. /\ UNCHANGED <<platform, target, old, image, script, installs, twice, cut, unmoved, runner>>
      /\ updater[p].at = "stage"
  BY DEF Stage
<1>2. /\ script # p /\ Chosen(updater[p]) /\ Wanted(updater[p])
      /\ updater[p].got # None /\ updater[p].got.good
      /\ updater[p].got.version = updater[p].release.tag
  BY <1>1 DEF Underway
<1>3. CASE Stops(p) /\ UNCHANGED staged
  <2>1. Underway(p)'
    BY <1>1, <1>2, <1>3, StopsThere, StopsUnderway
  <2> QED
    BY <1>1, <1>3, <2>1, StopsThere, UpdateMoves DEF UpdateTypeOK
<1>4. CASE staged' = [staged EXCEPT ![p] = updater[p].got] /\ Goes(p, "swap")
  <2>1. /\ updater' \in [Procs -> UpdaterRecord]
        /\ updater'[p].at = "swap" /\ updater'[p].own = updater[p].own
        /\ updater'[p].force = updater[p].force
        /\ updater'[p].release = updater[p].release /\ updater'[p].got = updater[p].got
        /\ \A q \in Procs \ {p} : updater'[q] = updater[q]
    BY <1>4, GoesTo
  <2>2. updater[p].got \in Binaries \cup {None} /\ updater[p].release.tag \in Semvers
    BY <1>2, ReleaseVersion DEF UpdateTypeOK
  <2>3. /\ staged' \in [Procs -> Binaries \cup {None}]
        /\ staged'[p] = updater[p].got
        /\ \A q \in Procs \ {p} : staged'[q] = staged[q]
    BY <1>4, <2>2 DEF UpdateTypeOK
  <2>4. UpdateTypeOK'
    BY <1>1, <2>1, <2>3 DEF UpdateTypeOK, UpdaterRecord
  <2>5. Installable' /\ Followed'
    BY <1>1, <1>2, <2>2, <2>3 DEF Installable, Good, Followed
  <2>6. Underway(p)'
    BY <1>1, <1>2, <2>1, <2>3 DEF Underway, Chosen, Wanted
  <2>7. \A q \in Procs \ {p} : Underway(q)'
    BY <1>1, <2>1, <2>3, SameProcess
  <2> QED
    BY <2>4, <2>5, <2>6, <2>7
<1> QED
  BY <1>3, <1>4 DEF Stage

\* What is swapped in was staged for an update that chose it.
LEMMA SwapKeeps ==
  ASSUME UInv, NEW p \in Procs, staged[p] # None, Chosen(updater[p]), Wanted(updater[p]),
         staged[p].version = updater[p].release.tag, Swapped(p, staged[p])
  PROVE  /\ target' \in Binaries /\ Good(target')
         /\ staged' \in [Procs -> Binaries \cup {None}]
         /\ staged'[p] = None /\ \A q \in Procs \ {p} : staged'[q] = staged[q]
         /\ installs' \subseteq [own : Semvers \cup {Dev}, tag : Semvers, force : BOOLEAN]
         /\ Followed'
<1> USE DEF UInv
<1> DEFINE i == [own |-> updater[p].own, tag |-> staged[p].version,
                 force |-> updater[p].force]
<1>1. /\ target' = staged[p] /\ installs' = installs \cup {i}
      /\ staged' = [staged EXCEPT ![p] = None]
  BY DEF Swapped
<1>2. /\ staged[p] \in Binaries /\ staged[p].good /\ staged[p].version \in Semvers
      /\ updater[p].own \in Semvers \cup {Dev} /\ updater[p].force \in BOOLEAN
  BY DEF UpdateTypeOK, Installable
<1>3. i \in [own : Semvers \cup {Dev}, tag : Semvers, force : BOOLEAN]
  BY <1>2
<1>4. i.force \/ i.own = Dev \/ Precedes(i.own, i.tag)
  BY <1>2, CompareIsPrecedence DEF Wanted, UpdateAvailable
<1> HIDE DEF i
<1> QED
  BY <1>1, <1>2, <1>3, <1>4 DEF UpdateTypeOK, Followed, Good

LEMMA RenameKeeps == ASSUME UInv, NEW p \in Procs, Rename(p) PROVE UInv'
<1> USE DEF UInv
<1>1. /\ UNCHANGED <<platform, old, image, script, runner, twice, cut, unmoved>>
      /\ updater[p].at = "swap" /\ Swapped(p, staged[p]) /\ Stops(p)
  BY DEF Rename
<1>2. /\ script # p /\ Chosen(updater[p]) /\ Wanted(updater[p])
      /\ staged[p] # None /\ staged[p].version = updater[p].release.tag
  BY <1>1 DEF Underway
<1>3. /\ target' \in Binaries /\ Good(target')
      /\ staged' \in [Procs -> Binaries \cup {None}]
      /\ staged'[p] = None /\ \A q \in Procs \ {p} : staged'[q] = staged[q]
      /\ installs' \subseteq [own : Semvers \cup {Dev}, tag : Semvers, force : BOOLEAN]
      /\ Followed'
  BY <1>1, <1>2, SwapKeeps
<1>4. /\ updater' \in [Procs -> UpdaterRecord] /\ updater'[p].at = "done"
      /\ \A q \in Procs \ {p} : updater'[q] = updater[q]
  BY <1>1, StopsThere
<1>5. UpdateTypeOK'
  BY <1>1, <1>3, <1>4 DEF UpdateTypeOK, UpdaterRecord
<1>6. Installable'
  BY <1>1, <1>3 DEF Installable, Good
<1>7. \A q \in Procs : Underway(q)'
  BY <1>1, <1>2, <1>3, <1>4, SameProcess, StopsUnderway
<1> QED
  BY <1>3, <1>5, <1>6, <1>7

LEMMA RenameFailsKeeps == ASSUME UInv, NEW p \in Procs, RenameFails(p) PROVE UInv'
<1> USE DEF UInv
<1>1. /\ UNCHANGED <<platform, target, old, image, runner, installs, cut, unmoved>>
      /\ updater[p].at = "swap"
  BY DEF RenameFails
<1>2. /\ script # p /\ Chosen(updater[p]) /\ Wanted(updater[p])
      /\ updater[p].got # None /\ updater[p].got.version = updater[p].release.tag
      /\ staged[p] = updater[p].got
  BY <1>1 DEF Underway
<1>3. CASE /\ staged' = [staged EXCEPT ![p] = None] /\ script' \in {script, None}
           /\ twice' = (twice \/ script' # script) /\ Stops(p)
  <2>1. /\ updater' \in [Procs -> UpdaterRecord] /\ updater'[p].at = "done"
        /\ \A q \in Procs \ {p} : updater'[q] = updater[q]
    BY <1>3, StopsThere
  <2>2. /\ staged' \in [Procs -> Binaries \cup {None}]
        /\ staged'[p] = None /\ \A q \in Procs \ {p} : staged'[q] = staged[q]
    BY <1>3 DEF UpdateTypeOK
  <2>3. UpdateTypeOK'
    BY <1>1, <1>3, <2>1, <2>2 DEF UpdateTypeOK, UpdaterRecord
  <2>4. Installable' /\ Followed'
    BY <1>1, <2>2 DEF Installable, Good, Followed
  <2>5. \A q \in Procs : Underway(q)'
    <3>1. None \notin Procs
      BY UpdateAssumption DEF UpdateAssumption
    <3> QED
      BY <1>2, <1>3, <2>1, <2>2, <3>1, SameProcess, StopsUnderway
  <2> QED
    BY <2>3, <2>4, <2>5
<1>4. CASE /\ script' = p /\ twice' = (twice \/ script # None)
           /\ Goes(p, "companion") /\ UNCHANGED staged
  <2>1. /\ updater' \in [Procs -> UpdaterRecord]
        /\ updater'[p].at = "companion" /\ updater'[p].own = updater[p].own
        /\ updater'[p].force = updater[p].force
        /\ updater'[p].release = updater[p].release /\ updater'[p].got = updater[p].got
        /\ \A q \in Procs \ {p} : updater'[q] = updater[q]
    BY <1>4, GoesTo
  <2>2. UpdateTypeOK'
    BY <1>1, <1>4, <2>1 DEF UpdateTypeOK, UpdaterRecord
  <2>3. Installable' /\ Followed'
    BY <1>1, <1>4 DEF Installable, Good, Followed
  <2>4. Underway(p)'
    BY <1>2, <1>4, <2>1 DEF Underway, Chosen, Wanted
  <2>5. \A q \in Procs \ {p} : Underway(q)'
    BY <1>4, <2>1, SameProcess
  <2> QED
    BY <2>2, <2>3, <2>4, <2>5
<1> QED
  BY <1>3, <1>4 DEF RenameFails

LEMMA LaunchKeeps == ASSUME UInv, NEW p \in Procs, Launch(p) PROVE UInv'
<1> USE DEF UInv
<1>1. /\ UNCHANGED <<platform, target, old, image, installs, twice, cut, unmoved>>
      /\ updater[p].at = "companion"
  BY DEF Launch
<1>2. CASE /\ runner' = [runner EXCEPT ![p] = "del old"] /\ Goes(p, "done")
           /\ UNCHANGED <<script, staged>>
  <2>0. /\ Underway(p) /\ script' = script /\ staged' = staged
        /\ updater'[p].at = "done" /\ updater'[p].own = updater[p].own
        /\ updater'[p].force = updater[p].force /\ updater'[p].release = updater[p].release
    BY <1>2, GoesTo
  <2>1. Underway(p)'
    BY <1>1, <2>0 DEF Underway, Chosen, Wanted
  <2>2. runner' \in [Procs -> Lines \cup {"none"}]
    BY <1>2 DEF UpdateTypeOK, Lines
  <2> QED
    BY <1>1, <1>2, <2>1, <2>2, GoesTo, UpdateMoves DEF UpdateTypeOK
<1>3. CASE /\ script' = None /\ staged' = [staged EXCEPT ![p] = None]
           /\ Stops(p) /\ UNCHANGED runner
  <2>1. /\ updater' \in [Procs -> UpdaterRecord] /\ updater'[p].at = "done"
        /\ \A q \in Procs \ {p} : updater'[q] = updater[q]
    BY <1>3, StopsThere
  <2>2. /\ staged' \in [Procs -> Binaries \cup {None}]
        /\ staged'[p] = None /\ \A q \in Procs \ {p} : staged'[q] = staged[q]
    BY <1>3 DEF UpdateTypeOK
  <2>3. UpdateTypeOK'
    BY <1>1, <1>3, <2>1, <2>2 DEF UpdateTypeOK, UpdaterRecord
  <2>4. Installable' /\ Followed'
    BY <1>1, <2>2 DEF Installable, Good, Followed
  <2>5. None \notin Procs
    BY UpdateAssumption DEF UpdateAssumption
  <2>6. \A q \in Procs : Underway(q)'
    BY <1>3, <2>1, <2>2, <2>5, SameProcess, StopsUnderway
  <2> QED
    BY <2>3, <2>4, <2>6
<1> QED
  BY <1>2, <1>3 DEF Launch

LEMMA UpdaterDiesKeeps == ASSUME UInv, NEW p \in Procs, UpdaterDies(p) PROVE UInv'
<1> USE DEF UInv
<1>1. UNCHANGED <<platform, target, old, image, script, installs, twice, cut, unmoved, runner, staged>>
  BY DEF UpdaterDies, files
<1>2. CASE updater[p].at = "companion" /\ Goes(p, "done")
  <2>1. Underway(p)'
    BY <1>1, <1>2, GoesTo DEF Underway, Chosen, Wanted
  <2> QED
    BY <1>1, <1>2, <2>1, GoesTo, UpdateMoves DEF UpdateTypeOK
<1>3. CASE updater[p].at \notin {"companion", "done"} /\ Stops(p)
  <2>1. script # p
    BY <1>3 DEF Underway
  <2>2. Underway(p)'
    BY <1>1, <1>3, <2>1, StopsThere, StopsUnderway
  <2> QED
    BY <1>1, <1>3, <2>2, StopsThere, UpdateMoves DEF UpdateTypeOK
<1> QED
  BY <1>2, <1>3 DEF UpdaterDies

LEMMA ScriptKeeps == ASSUME UInv, NEW p \in Procs, ScriptStep(p) PROVE UInv'
<1> USE DEF UInv
<1>1. \A l \in Lines \cup {"none"} :
         NextLine(p, l) => runner' \in [Procs -> Lines \cup {"none"}]
  BY DEF UpdateTypeOK, NextLine
<1>2. CASE DelOld(p, "del old", "ren") \/ DelOld(p, "del renamed", "move")
  <2>1. /\ UNCHANGED <<platform, target, image, staged, script, updater, installs, twice, cut, unmoved>>
        /\ old' \in {old, None} /\ (NextLine(p, "ren") \/ NextLine(p, "move"))
    BY <1>2 DEF DelOld
  <2>2. UpdateTypeOK'
    BY <1>1, <2>1 DEF UpdateTypeOK, Lines
  <2>3. Installable' /\ Followed'
    BY <2>1 DEF Installable, Good, Followed
  <2>4. \A q \in Procs : Underway(q)'
    BY <2>1, SameProcess
  <2> QED
    BY <2>2, <2>3, <2>4
<1>3. CASE Ren(p)
  <2>1. /\ UNCHANGED <<platform, staged, script, updater, installs, twice, cut, unmoved>>
        /\ old' = target /\ target' = None /\ NextLine(p, "del renamed")
        /\ image' \in [Procs -> {"none", "target", "old"}]
    BY <1>3 DEF Ren, UpdateTypeOK
  <2>2. UpdateTypeOK'
    BY <1>1, <2>1 DEF UpdateTypeOK, Lines
  <2>3. Installable' /\ Followed'
    BY <2>1 DEF Installable, Good, Followed
  <2>4. \A q \in Procs : Underway(q)'
    BY <2>1, SameProcess
  <2> QED
    BY <2>2, <2>3, <2>4
<1>4. CASE MoveNew(p)
  <2>1. /\ UNCHANGED <<platform, old, image, script, updater, twice, cut>>
        /\ NextLine(p, "del script") /\ script # None /\ unmoved' \in BOOLEAN
    BY <1>4 DEF MoveNew, At, UpdateTypeOK
  <2>2. script \in Procs
    BY <2>1 DEF UpdateTypeOK
  <2>3. CASE staged[script] # None /\ Swapped(script, staged[script])
    <3>1. PICK s \in Procs : s = script
      BY <2>2
    <3>2. /\ Chosen(updater[s]) /\ Wanted(updater[s])
          /\ staged[s].version = updater[s].release.tag /\ updater[s].at # "swap"
      BY <2>3, <3>1 DEF Underway
    <3>3. /\ target' \in Binaries /\ Good(target')
          /\ staged' \in [Procs -> Binaries \cup {None}]
          /\ staged'[s] = None /\ \A q \in Procs \ {s} : staged'[q] = staged[q]
          /\ installs' \subseteq [own : Semvers \cup {Dev}, tag : Semvers, force : BOOLEAN]
          /\ Followed'
      BY <2>3, <3>1, <3>2, SwapKeeps
    <3>4. UpdateTypeOK'
      BY <1>1, <2>1, <3>3 DEF UpdateTypeOK, Lines
    <3>5. Installable'
      BY <2>1, <3>3 DEF Installable, Good
    <3>6. \A q \in Procs : Underway(q)'
      BY <2>1, <3>1, <3>2, <3>3, SameProcess
    <3> QED
      BY <3>3, <3>4, <3>5, <3>6
  <2>4. CASE UNCHANGED <<target, staged, installs>>
    <3>1. UpdateTypeOK'
      BY <1>1, <2>1, <2>4 DEF UpdateTypeOK, Lines
    <3>2. Installable' /\ Followed'
      BY <2>1, <2>4 DEF Installable, Good, Followed
    <3>3. \A q \in Procs : Underway(q)'
      BY <2>1, <2>4, SameProcess
    <3> QED
      BY <3>1, <3>2, <3>3
  <2> QED
    BY <1>4, <2>3, <2>4 DEF MoveNew, Movable
<1>5. CASE DelScript(p) \/ ScriptGone(p)
  <2>1. /\ UNCHANGED <<platform, target, old, image, staged, updater, installs, twice, cut, unmoved>>
        /\ script' \in {script, None} /\ NextLine(p, "none")
    BY <1>5 DEF DelScript, ScriptGone, files
  <2>2. UpdateTypeOK'
    BY <1>1, <2>1 DEF UpdateTypeOK
  <2>3. Installable' /\ Followed'
    BY <2>1 DEF Installable, Good, Followed
  <2>4. None \notin Procs
    BY UpdateAssumption DEF UpdateAssumption
  <2>5. \A q \in Procs : Underway(q)'
    BY <2>1, <2>4, SameProcess
  <2> QED
    BY <2>2, <2>3, <2>5
<1> QED
  BY <1>2, <1>3, <1>4, <1>5 DEF ScriptStep

\* An update begins with the version of the binary it was started from.
LEMMA BeginUpdateKeeps ==
  ASSUME UInv, NEW p \in Procs, NEW force \in BOOLEAN, NEW confirm \in BOOLEAN,
         BeginUpdate(p, force, confirm), image' \in [Procs -> {"none", "target", "old"}]
  PROVE  UInv'
<1> USE DEF UInv
<1> DEFINE n == [updater[p] EXCEPT !.at = "resolve", !.own = target.version,
                                   !.force = force, !.confirm = confirm]
<1>1. /\ updater[p].at = "idle" /\ target # None
      /\ updater' = [updater EXCEPT ![p].at = "resolve", ![p].own = target.version,
                                    ![p].force = force, ![p].confirm = confirm]
      /\ UNCHANGED <<platform, target, old, staged, script, runner, installs, twice, cut, unmoved>>
  BY DEF BeginUpdate
<1>2. updater \in [Procs -> UpdaterRecord] /\ target.version \in Semvers \cup {Dev}
  BY <1>1 DEF UpdateTypeOK, UpdaterRecord, Installable, Good
<1>3. n \in UpdaterRecord /\ n.at = "resolve"
  BY <1>2 DEF UpdaterRecord, Fetches
<1>4. updater' = [updater EXCEPT ![p] = n]
  BY <1>1, <1>2
<1> HIDE DEF n
<1>5. /\ updater' \in [Procs -> UpdaterRecord] /\ updater'[p].at = "resolve"
      /\ \A q \in Procs \ {p} : updater'[q] = updater[q]
  BY <1>2, <1>3, <1>4
<1>6. Underway(p)'
  BY <1>1, <1>5 DEF Underway
<1> QED
  BY <1>1, <1>5, <1>6, UpdateMoves DEF UpdateTypeOK

-----------------------------------------------------------------------------
(* The two components of a step.                                           *)

UpdateStep ==
    \/ \E p \in Procs : UpdaterStep(p) \/ UpdaterDies(p) \/ ScriptStep(p)
    \/ \E p \in Procs, force, confirm \in BOOLEAN : BeginUpdate(p, force, confirm) /\ Started(p)
    \/ ShutDown
    \* a command starts, a process exits, or only the configuration changes
    \/ /\ \/ \E p \in Procs : image' = [image EXCEPT ![p] = "target"] /\ target # None
          \/ \E p \in Procs : image' = [image EXCEPT ![p] = "none"]
          \/ image' = image
       /\ UNCHANGED <<platform, target, old, updater, staged, script, runner, installs,
                      twice, cut, unmoved>>

ConfigStep == \/ \E p \in Procs : \/ \E c \in Commands : Begin(p, c)
                                  \/ EditorStep(p) \/ EditorDies(p)
              \/ UNCHANGED configVars

LEMMA StepOfEach == [Next]_vars => UpdateStep /\ ConfigStep
<1> SUFFICES ASSUME [Next]_vars PROVE UpdateStep /\ ConfigStep
  OBVIOUS
<1> USE DEF UpdateStep, ConfigStep
<1>1. ASSUME UNCHANGED updateVars PROVE UpdateStep
  BY <1>1 DEF updateVars, files
<1>2. ASSUME NEW p \in Procs, StartCommand(p) PROVE UpdateStep /\ ConfigStep
  BY <1>2 DEF StartCommand, Started
<1>3. ASSUME NEW p \in Procs, StartUpdate(p) PROVE UpdateStep /\ ConfigStep
  BY <1>3 DEF StartUpdate
<1>4. ASSUME NEW p \in Procs, Work(p) \/ Dies(p) PROVE UpdateStep /\ ConfigStep
  BY <1>1, <1>4 DEF Work, Dies
<1>5. ASSUME NEW p \in Procs, Exit(p) PROVE UpdateStep /\ ConfigStep
  BY <1>5 DEF Exit
<1>6. CASE Companion /\ UNCHANGED configVars
  BY <1>6 DEF Companion
<1>7. CASE UNCHANGED vars
  BY <1>1, <1>7 DEF vars
<1> QED
  BY <1>2, <1>3, <1>4, <1>5, <1>6, <1>7 DEF Next

LEMMA StepUInv == UInv /\ [Next]_vars => UInv'
<1> SUFFICES ASSUME UInv, UpdateStep PROVE UInv'
  BY StepOfEach
<1>1. CASE \E p \in Procs : UpdaterStep(p) \/ UpdaterDies(p) \/ ScriptStep(p)
  BY <1>1, FetchKeeps, DownloadKeeps, VerifyKeeps, StageKeeps, RenameKeeps,
     RenameFailsKeeps, LaunchKeeps, UpdaterDiesKeeps, ScriptKeeps DEF UpdaterStep
<1>2. CASE \E p \in Procs, force, confirm \in BOOLEAN :
              BeginUpdate(p, force, confirm) /\ Started(p)
  <2>1. image' \in [Procs -> {"none", "target", "old"}]
    BY <1>2 DEF Started, UInv, UpdateTypeOK
  <2> QED
    BY <1>2, <2>1, BeginUpdateKeeps
<1>3. CASE ShutDown
  <2>1. /\ UNCHANGED <<platform, target, old, image, staged, script, updater, installs, twice, unmoved>>
        /\ cut' = TRUE /\ runner' = [p \in Procs |-> "none"]
    BY <1>3 DEF ShutDown, files
  <2>2. UpdateTypeOK' /\ Installable' /\ Followed'
    BY <2>1 DEF UInv, UpdateTypeOK, Installable, Good, Followed
  <2>3. \A p \in Procs : Underway(p)'
    BY <2>1, SameProcess DEF UInv
  <2> QED
    BY <2>2, <2>3 DEF UInv
<1>4. CASE /\ \/ \E p \in Procs : image' = [image EXCEPT ![p] = "target"] /\ target # None
              \/ \E p \in Procs : image' = [image EXCEPT ![p] = "none"]
              \/ image' = image
           /\ UNCHANGED <<platform, target, old, updater, staged, script, runner, installs,
                          twice, cut, unmoved>>
  <2>1. image' \in [Procs -> {"none", "target", "old"}]
    BY <1>4 DEF UInv, UpdateTypeOK
  <2>2. UpdateTypeOK' /\ Installable' /\ Followed'
    BY <1>4, <2>1 DEF UInv, UpdateTypeOK, Installable, Good, Followed
  <2>3. \A p \in Procs : Underway(p)'
    BY <1>4, SameProcess DEF UInv
  <2> QED
    BY <2>2, <2>3 DEF UInv
<1> QED
  BY <1>1, <1>2, <1>3, <1>4 DEF UpdateStep

LEMMA InitUInv == Init => UInv
<1> SUFFICES ASSUME Init PROVE UInv
  OBVIOUS
<1>1. /\ platform \in Platforms /\ old = None /\ script = None
      /\ image = [p \in Procs |-> "none"] /\ updater = [p \in Procs |-> NoUpdate]
      /\ staged = [p \in Procs |-> None] /\ runner = [p \in Procs |-> "none"]
      /\ installs = {} /\ twice = FALSE /\ cut = FALSE /\ unmoved = FALSE
  BY DEF Init, UpdateInit
<1>2. PICK v \in Installed : target = [version |-> v, good |-> TRUE]
  BY DEF Init, UpdateInit
<1>3. target \in Binaries /\ Good(target) /\ None \notin Procs
  BY <1>2, UpdateAssumption DEF Binaries, Good, UpdateAssumption
<1>4. NoUpdate \in UpdaterRecord /\ NoUpdate.at = "idle"
  BY UpdateAssumption DEF NoUpdate, UpdaterRecord, UpdateAssumption
<1>5. updater \in [Procs -> UpdaterRecord] /\ \A p \in Procs : updater[p].at = "idle"
  BY <1>1, <1>4
<1>6. UpdateTypeOK
  BY <1>1, <1>3, <1>5 DEF UpdateTypeOK, UpdaterRecord
<1>7. Installable /\ Followed
  BY <1>1, <1>3 DEF Installable, Good, Followed
<1>8. \A p \in Procs : Underway(p)
  BY <1>1, <1>3, <1>5 DEF Underway
<1> QED
  BY <1>6, <1>7, <1>8 DEF UInv

LEMMA UInvInvariant == Spec => []UInv
<1> QED
  BY InitUInv, StepUInv, PTL DEF Spec

\* What is installed, or staged beside it, has the checksum its release
\* lists, although archives are damaged, updates overlap and scripts are
\* replaced (selfupdate.go:174, install.go:45-50).
THEOREM OnlyVerifiedInstalled == Spec => []OnlyVerified
<1>1. UInv => OnlyVerified
  BY DEF UInv, Installable, Good, OnlyVerified
<1> QED
  BY <1>1, UInvInvariant, PTL

\* An update that was not forced installs only a version that follows the one
\* that ran it, and none that does is turned down (selfupdate.go:86-96,
\* version.go:52-107).
THEOREM UpdatesGoForward == Spec => []InstallsFollow
<1>1. UInv => InstallsFollow
  <2> SUFFICES ASSUME UInv, NEW p \in Procs, updater[p].at = "plan",
                      ~updater[p].force, updater[p].own # Dev
               PROVE  Wanted(updater[p]) <=> Precedes(updater[p].own, updater[p].release.tag)
    BY DEF UInv, Followed, InstallsFollow
  <2>1. updater[p].own \in Semvers /\ updater[p].release.tag \in Semvers
    BY ReleaseVersion DEF UInv, UpdateTypeOK, Underway
  <2> QED
    BY <2>1, CompareIsPrecedence DEF Wanted, UpdateAvailable
<1> QED
  BY <1>1, UInvInvariant, PTL

-----------------------------------------------------------------------------
(* There is a binary to run.                                               *)


\* While no script is written over another, the script has one author, whoever
\* runs a script runs that one, and what it is to move is there.
Author(p) ==
    /\ updater[p].at = "companion" \/ runner[p] # "none" => script = p
    /\ runner[p] # "none" => updater[p].at = "done"
    /\ runner[p] \in {"del old", "ren", "del renamed", "move"}
         \/ updater[p].at = "companion" => staged[p] # None
OneScript == ~twice => \A p \in Procs : Author(p)

\* Only Windows has scripts.
OnWindows == script # None \/ twice => platform = "windows"

RInv == UInv /\ OneScript /\ OnWindows /\ TargetRuns

LEMMA StepOnWindows == OnWindows /\ [Next]_vars => OnWindows'
<1> SUFFICES ASSUME OnWindows, UpdateStep PROVE OnWindows'
  BY StepOfEach
<1>1. CASE \E p \in Procs : RenameFails(p)
  BY <1>1 DEF RenameFails, OnWindows
<1>2. CASE ~\E p \in Procs : RenameFails(p)
  <2>1. UNCHANGED <<platform, twice>> /\ (script' = script \/ script' = None)
    BY <1>2 DEF UpdateStep, UpdaterStep, UpdaterDies, ScriptStep, BeginUpdate, ShutDown,
       FetchAgain, FetchFails, Resolve, Plan, Checksum, Download, Verify, Stage, Rename,
       Launch, DelOld, Ren, MoveNew, DelScript, ScriptGone, files
  <2> QED
    BY <2>1 DEF OnWindows
<1> QED
  BY <1>1, <1>2

\* Steps that leave the script and its runners alone.
LEMMA SameAuthor ==
  ASSUME UInv, OneScript, NEW p \in Procs,
         UNCHANGED <<platform, script, runner, twice>>,
         \A q \in Procs \ {p} : updater'[q] = updater[q] /\ staged'[q] = staged[q],
         updater[p].at \notin {"companion", "done"}, updater'[p].at # "companion"
  PROVE  OneScript'
<1> SUFFICES ASSUME ~twice, NEW q \in Procs PROVE Author(q)'
  BY DEF OneScript
<1>1. Author(q) /\ (q = p => runner[q] = "none" /\ script # q)
  BY DEF OneScript, Author, UInv, Underway
<1> QED
  BY <1>1 DEF Author

LEMMA SameTarget ==
  ASSUME TargetRuns, UNCHANGED <<platform, target, runner, twice, cut, unmoved>>
  PROVE  TargetRuns'
BY DEF TargetRuns

LEMMA UpdaterRuns ==
  ASSUME RInv, NEW p \in Procs, UpdaterStep(p) \/ UpdaterDies(p)
  PROVE  OneScript' /\ TargetRuns'
<1> USE DEF RInv
<1>1. CASE FetchAgain(p) \/ FetchFails(p) \/ Resolve(p) \/ Plan(p) \/ Checksum(p)
           \/ Download(p) \/ Verify(p)
  <2>1. /\ UNCHANGED <<platform, target, staged, script, runner, twice, cut, unmoved>>
        /\ updater[p].at \notin {"companion", "done"}
    BY <1>1 DEF FetchAgain, FetchFails, Resolve, Plan, Checksum, Download, Verify, files, Fetches
  <2>2. /\ \A q \in Procs \ {p} : updater'[q] = updater[q]
        /\ updater'[p].at # "companion"
    <3>1. \A at \in {"sums", "download", "stage"} : Goes(p, at) =>
             /\ \A q \in Procs \ {p} : updater'[q] = updater[q]
             /\ updater'[p].at # "companion"
      BY GoesTo DEF UInv, Fetches
    <3>2. Stops(p) => /\ \A q \in Procs \ {p} : updater'[q] = updater[q]
                      /\ updater'[p].at # "companion"
      BY StopsThere DEF UInv
    <3>3. CASE FetchFails(p) \/ Plan(p) \/ Checksum(p) \/ Verify(p) \/ Stops(p)
      BY <3>1, <3>2, <3>3 DEF FetchFails, Plan, Checksum, Verify
    <3>4. CASE FetchAgain(p)
      BY <2>1, <3>4 DEF FetchAgain, UInv, UpdateTypeOK
    <3>5. CASE Resolve(p) /\ ~Stops(p)
      BY <3>5 DEF Resolve, UInv, UpdateTypeOK
    <3>6. CASE Download(p)
      BY <3>6 DEF Download, UInv, UpdateTypeOK
    <3> QED
      BY <1>1, <3>3, <3>4, <3>5, <3>6
  <2> QED
    BY <2>1, <2>2, SameAuthor, SameTarget
<1>2. CASE Stage(p)
  <2>1. /\ UNCHANGED <<platform, target, script, runner, twice, cut, unmoved>> /\ updater[p].at = "stage"
        /\ \A q \in Procs \ {p} : staged'[q] = staged[q]
        /\ Goes(p, "swap") \/ Stops(p)
    BY <1>2 DEF Stage, UInv, UpdateTypeOK
  <2>2. /\ \A q \in Procs \ {p} : updater'[q] = updater[q]
        /\ updater'[p].at # "companion"
    BY <2>1, GoesTo, StopsThere DEF UInv
  <2> QED
    BY <2>1, <2>2, SameAuthor, SameTarget
<1>3. CASE Rename(p)
  <2>1. /\ UNCHANGED <<platform, script, runner, twice, cut, unmoved>> /\ updater[p].at = "swap"
        /\ Stops(p) /\ target' = staged[p] /\ staged' = [staged EXCEPT ![p] = None]
    BY <1>3 DEF Rename, Swapped
  <2>2. target' # None
    BY <2>1, UpdateAssumption DEF UInv, Underway, UpdateAssumption
  <2>3. \A q \in Procs \ {p} : updater'[q] = updater[q] /\ staged'[q] = staged[q]
    BY <2>1, StopsThere DEF UInv, UpdateTypeOK
  <2>4. updater'[p].at # "companion"
    BY <2>1, StopsThere DEF UInv
  <2> QED
    BY <2>1, <2>2, <2>3, <2>4, SameAuthor DEF TargetRuns
<1>4. CASE RenameFails(p)
  <2>1. /\ UNCHANGED <<platform, target, runner, cut, unmoved>> /\ updater[p].at = "swap"
        /\ staged[p] # None /\ script # p
    BY <1>4 DEF RenameFails, UInv, Underway
  <2>2. CASE /\ staged' = [staged EXCEPT ![p] = None] /\ Stops(p)
             /\ script' \in {script, None} /\ twice' = (twice \/ script' # script)
    <3>1. \A q \in Procs \ {p} : updater'[q] = updater[q] /\ staged'[q] = staged[q]
      BY <2>2, StopsThere DEF UInv, UpdateTypeOK
    <3>2. updater'[p].at # "companion"
      BY <2>2, StopsThere DEF UInv
    <3>3. CASE script' = script
      <4>1. twice' = twice
        BY <2>2, <3>3 DEF UInv, UpdateTypeOK
      <4> QED
        BY <2>1, <2>2, <3>1, <3>2, <3>3, <4>1, SameAuthor, SameTarget
    <3>4. CASE script' # script
      BY <2>1, <2>2, <3>4 DEF OneScript, TargetRuns
    <3> QED
      BY <3>3, <3>4
  <2>3. CASE /\ platform = "windows" /\ script' = p /\ twice' = (twice \/ script # None)
             /\ Goes(p, "companion") /\ UNCHANGED staged
    <3>1. TargetRuns'
      BY <2>1, <2>3 DEF TargetRuns
    <3>2. ASSUME ~twice', NEW q \in Procs PROVE Author(q)'
      <4>1. ~twice /\ script = None /\ None \notin Procs
        BY <2>3, <3>2, UpdateAssumption DEF UpdateAssumption
      <4>2. Author(q) /\ Author(p)
        BY <4>1 DEF OneScript
      <4>3. updater'[p].at = "companion" /\ (q # p => updater'[q] = updater[q])
        BY <2>3, GoesTo DEF UInv
      <4> QED
        BY <2>1, <2>3, <4>1, <4>2, <4>3 DEF Author
    <3> QED
      BY <3>1, <3>2 DEF OneScript
  <2> QED
    BY <1>4, <2>2, <2>3 DEF RenameFails
<1>5. CASE Launch(p)
  <2>1. /\ UNCHANGED <<platform, target, twice, cut, unmoved>> /\ updater[p].at = "companion"
    BY <1>5 DEF Launch
  <2>2. CASE /\ runner' = [runner EXCEPT ![p] = "del old"] /\ Goes(p, "done")
             /\ UNCHANGED <<script, staged>>
    <3>1. /\ updater'[p].at = "done" /\ runner'[p] = "del old"
          /\ \A q \in Procs \ {p} : updater'[q] = updater[q] /\ runner'[q] = runner[q]
      BY <2>2, GoesTo DEF UInv, UpdateTypeOK
    <3>2. ASSUME ~twice', NEW q \in Procs PROVE Author(q)'
      BY <2>1, <2>2, <3>1, <3>2 DEF OneScript, Author
    <3>3. TargetRuns'
      <4>1. CASE twice \/ target # None \/ cut \/ unmoved
        BY <2>1, <4>1 DEF TargetRuns
      <4>2. CASE ~twice /\ ~cut /\ ~unmoved /\ target = None
        <5>1. PICK q \in Procs : runner[q] \in {"del renamed", "move"}
          BY <4>2 DEF TargetRuns
        <5>2. q # p
          BY <2>1, <4>2, <5>1 DEF OneScript, Author
        <5> QED
          BY <2>1, <3>1, <4>2, <5>1, <5>2 DEF TargetRuns
      <4> QED
        BY <4>1, <4>2
    <3> QED
      BY <3>2, <3>3 DEF OneScript
  <2>3. CASE /\ script' = None /\ staged' = [staged EXCEPT ![p] = None]
             /\ Stops(p) /\ UNCHANGED runner
    <3>1. /\ updater'[p].at = "done"
          /\ \A q \in Procs \ {p} : updater'[q] = updater[q] /\ staged'[q] = staged[q]
      BY <2>3, StopsThere DEF UInv, UpdateTypeOK
    <3>2. ASSUME ~twice', NEW q \in Procs PROVE Author(q)'
      <4>1. Author(q) /\ Author(p) /\ script = p
        BY <2>1, <3>2 DEF OneScript, Author
      <4>2. runner[q] = "none"
        BY <2>1, <4>1 DEF Author
      <4>3. updater'[q].at # "companion" /\ None \notin Procs
        BY <3>1, <4>1, UpdateAssumption DEF Author, UpdateAssumption
      <4> QED
        BY <2>1, <2>3, <4>2, <4>3 DEF Author
    <3> QED
      BY <2>1, <2>3, <3>2, SameTarget DEF OneScript
  <2> QED
    BY <1>5, <2>2, <2>3 DEF Launch
<1>6. CASE UpdaterDies(p)
  <2>1. /\ UNCHANGED <<platform, target, script, staged, runner, twice, cut, unmoved>>
        /\ updater[p].at # "done"
    BY <1>6 DEF UpdaterDies, files
  <2>2. /\ \A q \in Procs \ {p} : updater'[q] = updater[q]
        /\ updater'[p].at = "done"
    BY <1>6, GoesTo, StopsThere DEF UpdaterDies, UInv
  <2>3. ASSUME ~twice', NEW q \in Procs PROVE Author(q)'
    BY <2>1, <2>2, <2>3 DEF OneScript, Author
  <2> QED
    BY <2>1, <2>3, SameTarget DEF OneScript
<1> QED
  BY <1>1, <1>2, <1>3, <1>4, <1>5, <1>6 DEF UpdaterStep

\* A runner that goes on to line l, or is done.
LEMMA RunnerMoves ==
  ASSUME UInv, NEW p \in Procs, NEW l \in Lines \cup {"none"}, NextLine(p, l)
  PROVE  /\ runner'[p] = l /\ \A q \in Procs \ {p} : runner'[q] = runner[q]
BY DEF UInv, UpdateTypeOK, NextLine

LEMMA ScriptRuns ==
  ASSUME RInv, NEW p \in Procs, ScriptStep(p)
  PROVE  OneScript' /\ TargetRuns'
<1> USE DEF RInv
<1>0. UNCHANGED <<platform, updater, twice, cut>>
  BY DEF ScriptStep, DelOld, Ren, MoveNew, DelScript, ScriptGone, files
<1>3. unmoved => unmoved'
  <2>1. CASE MoveNew(p)
    BY <2>1 DEF MoveNew
  <2>2. CASE ~MoveNew(p)
    BY <2>2 DEF ScriptStep, DelOld, Ren, DelScript, ScriptGone
  <2> QED
    BY <2>1, <2>2
<1>1. CASE twice
  BY <1>0, <1>1, <1>3 DEF OneScript, OnWindows, TargetRuns
<1>2. CASE ~twice
  <2> USE <1>2
  <2>1. \A q \in Procs : Author(q)
    BY DEF OneScript
  <2>2. \A q \in Procs : runner[q] # "none" => script = q
    BY <2>1 DEF Author
  <2>3. CASE DelOld(p, "del old", "ren") \/ DelOld(p, "del renamed", "move")
    <3>1. UNCHANGED <<target, staged, script>>
      BY <2>3 DEF DelOld
    <3>2. /\ \/ runner[p] = "del old" /\ runner'[p] = "ren"
             \/ runner[p] = "del renamed" /\ runner'[p] = "move"
          /\ \A q \in Procs \ {p} : runner'[q] = runner[q]
      BY <2>3, RunnerMoves DEF DelOld, At, Lines
    <3>3. OneScript'
      BY <1>0, <2>1, <3>1, <3>2 DEF OneScript, Author
    <3>4. TargetRuns'
      BY <1>0, <1>3, <3>1, <3>2 DEF TargetRuns
    <3> QED
      BY <3>3, <3>4
  <2>4. CASE Ren(p)
    <3>1. UNCHANGED <<staged, script>> /\ runner[p] = "ren" /\ target' = None
      BY <2>4 DEF Ren, At
    <3>2. runner'[p] = "del renamed" /\ \A q \in Procs \ {p} : runner'[q] = runner[q]
      BY <2>4, RunnerMoves DEF Ren, Lines
    <3>3. OneScript'
      BY <1>0, <2>1, <3>1, <3>2 DEF OneScript, Author
    <3>4. platform = "windows"
      BY <2>4 DEF Ren, At, OnWindows
    <3>5. TargetRuns'
      BY <1>0, <1>3, <3>2, <3>4 DEF TargetRuns
    <3> QED
      BY <3>3, <3>5
  <2>5. CASE MoveNew(p)
    <3>1. UNCHANGED script /\ runner[p] = "move" /\ script = p
      BY <2>2, <2>5 DEF MoveNew, At
    <3>2. runner'[p] = "del script" /\ \A q \in Procs \ {p} : runner'[q] = runner[q]
      BY <2>5, RunnerMoves DEF MoveNew, Lines
    <3>3. staged[p] # None /\ updater[p].at = "done"
      BY <2>1, <3>1 DEF Author
    <3>4. \A q \in Procs \ {p} : staged'[q] = staged[q]
      BY <2>5, <3>1 DEF MoveNew, Swapped, UInv, UpdateTypeOK
    <3>5. OneScript'
      BY <1>0, <2>1, <3>1, <3>2, <3>3, <3>4 DEF OneScript, Author
    <3>6. platform = "windows"
      BY <2>5 DEF MoveNew, At, OnWindows
    <3>7. target' # None \/ unmoved'
      BY <2>5, <3>1, <3>3 DEF MoveNew, Movable, Swapped
    <3>8. TargetRuns'
      BY <1>0, <1>3, <3>6, <3>7 DEF TargetRuns
    <3> QED
      BY <3>5, <3>8
  <2>6. CASE DelScript(p)
    <3>1. /\ UNCHANGED <<target, staged>> /\ script' \in {script, None}
          /\ runner[p] = "del script" /\ script = p
      BY <2>2, <2>6 DEF DelScript, At
    <3>2. runner'[p] = "none" /\ \A q \in Procs \ {p} : runner'[q] = runner[q]
      BY <2>6, RunnerMoves DEF DelScript
    <3>3. \A q \in Procs : runner'[q] = "none" /\ updater[q].at # "companion"
      BY <2>1, <3>1, <3>2 DEF Author
    <3>4. OneScript'
      BY <1>0, <3>1, <3>3, UpdateAssumption DEF OneScript, Author, UpdateAssumption
    <3>5. TargetRuns'
      BY <1>0, <1>3, <2>2, <3>1, <3>2 DEF TargetRuns
    <3> QED
      BY <3>4, <3>5
  <2>7. CASE ScriptGone(p)
    BY <2>2, <2>7, UpdateAssumption DEF ScriptGone, UpdateAssumption
  <2> QED
    BY <2>3, <2>4, <2>5, <2>6, <2>7 DEF ScriptStep
<1> QED
  BY <1>1, <1>2

LEMMA StepRInv == RInv /\ [Next]_vars => OneScript' /\ TargetRuns'
<1> SUFFICES ASSUME RInv, UpdateStep PROVE OneScript' /\ TargetRuns'
  BY StepOfEach
<1> USE DEF RInv
<1>1. CASE \E p \in Procs, force, confirm \in BOOLEAN :
              BeginUpdate(p, force, confirm) /\ Started(p)
  <2>1. PICK p \in Procs, force \in BOOLEAN, confirm \in BOOLEAN : BeginUpdate(p, force, confirm)
    BY <1>1
  <2>2. /\ UNCHANGED <<platform, target, staged, script, runner, twice, cut, unmoved>>
        /\ updater[p].at = "idle"
        /\ updater' = [updater EXCEPT ![p].at = "resolve", ![p].own = target.version,
                                      ![p].force = force, ![p].confirm = confirm]
    BY <2>1 DEF BeginUpdate
  <2>3. /\ \A q \in Procs \ {p} : updater'[q] = updater[q]
        /\ updater'[p].at # "companion"
    BY <2>2 DEF UInv, UpdateTypeOK
  <2> QED
    BY <2>2, <2>3, SameAuthor, SameTarget
<1>2. CASE ShutDown
  BY <1>2 DEF ShutDown, files, OneScript, Author, TargetRuns, UInv, UpdateTypeOK
<1>3. CASE UNCHANGED <<platform, target, old, updater, staged, script, runner, installs,
                       twice, cut, unmoved>>
  BY <1>3, SameTarget DEF OneScript, Author
<1> QED
  BY <1>1, <1>2, <1>3, UpdaterRuns, ScriptRuns DEF UpdateStep

\* There is a binary to run: at any time on POSIX, and on Windows but while a
\* companion script is between its two moves, or once a script was stopped by a
\* shutdown, two updates wrote to the same script, or the system refused a
\* script's last move (install.go:45, replace_unix.go:9, replace_windows.go:27-43).
THEOREM BinaryToRun == Spec => []TargetRuns
<1>1. Init => OneScript /\ OnWindows /\ TargetRuns
  <2> SUFFICES ASSUME Init PROVE OneScript /\ OnWindows /\ TargetRuns
    OBVIOUS
  <2>1. /\ script = None /\ twice = FALSE
        /\ \A p \in Procs : runner[p] = "none" /\ updater[p].at = "idle"
    BY DEF Init, UpdateInit, NoUpdate
  <2>2. target # None /\ None \notin Procs
    <3>1. target \in Binaries /\ None \notin Procs
      BY InitUInv, UpdateAssumption
      DEF Init, UpdateInit, UpdateAssumption, Binaries
    <3> QED
      BY <3>1, UpdateAssumption DEF UpdateAssumption
  <2> QED
    BY <2>1, <2>2 DEF OneScript, OnWindows, Author, TargetRuns
<1>2. UInv /\ OneScript /\ OnWindows /\ TargetRuns /\ [Next]_vars
         => OneScript' /\ OnWindows' /\ TargetRuns'
  BY StepRInv, StepOnWindows DEF RInv
<1> QED
  BY <1>1, <1>2, UInvInvariant, PTL DEF Spec

-----------------------------------------------------------------------------
(* The configuration file: documents and what a change makes of them.      *)

\* Setting a profile of a document.
LEMMA ProfileSet ==
  ASSUME NEW d \in Docs, NEW n \in Names, NEW pr \in Profiles \cup {None},
         NEW def \in Names \cup {None}
  PROVE  LET e == [d EXCEPT !.profiles[n] = pr, !.default = def]
             f == [d EXCEPT !.profiles[n] = pr]
         IN /\ e \in Docs /\ e.profiles[n] = pr /\ e.default = def
            /\ f \in Docs /\ f.profiles[n] = pr /\ f.default = d.default
            /\ \A m \in Names \ {n} : /\ e.profiles[m] = d.profiles[m]
                                      /\ f.profiles[m] = d.profiles[m]
BY DEF Docs

\* The commands, by what they do.
LEMMA CommandShape ==
  ASSUME NEW c \in Commands
  PROVE  /\ c.op \in {"connect", "enable", "disable", "use", "apply"}
         /\ c.name \in Names \cup {None}
         /\ c.op = "connect" => c.name \in Names /\ c.url \in Urls
         /\ c.op = "enable" => c.tuned \in BOOLEAN
         /\ c.op = "apply" => c.policy \in Policies
BY ConfigAssumption DEF ConfigAssumption, AllCommands

\* What the change c makes of the profile pr it is about.
Edited(pr, c) ==
    CASE c.op = "connect" -> [url |-> c.url, masked |-> FALSE, policy |-> None, jev |-> None]
      [] c.op = "enable"  -> [pr EXCEPT !.jev = [enabled |-> TRUE,
                                  tuned |-> c.tuned \/ (pr.jev # None /\ pr.jev.tuned)]]
      [] c.op = "disable" -> [pr EXCEPT !.jev = [pr.jev EXCEPT !.enabled = FALSE]]
      [] c.op = "apply"   -> [pr EXCEPT !.policy = c.policy]

LEMMA EditedType ==
  ASSUME NEW c \in Commands, c.op # "use", NEW pr,
         c.op # "connect" => pr \in Profiles,
         c.op = "disable" => pr.jev # None
  PROVE  Edited(pr, c) \in Profiles
<1>1. CASE c.op = "connect"
  BY <1>1, CommandShape DEF Edited, Profiles
<1>2. CASE c.op = "enable"
  <2>1. pr \in Profiles /\ pr.jev \in Jevs \cup {None} /\ c.tuned \in BOOLEAN
    BY <1>2, CommandShape DEF Profiles
  <2>2. [enabled |-> TRUE, tuned |-> c.tuned \/ (pr.jev # None /\ pr.jev.tuned)] \in Jevs
    BY <2>1 DEF Jevs
  <2>3. Edited(pr, c) = [pr EXCEPT !.jev = [enabled |-> TRUE,
                             tuned |-> c.tuned \/ (pr.jev # None /\ pr.jev.tuned)]]
    BY <1>2 DEF Edited
  <2> QED
    BY <2>1, <2>2, <2>3 DEF Profiles
<1>3. CASE c.op = "disable"
  <2>1. pr \in Profiles /\ pr.jev \in Jevs
    BY <1>3 DEF Profiles
  <2>2. [pr.jev EXCEPT !.enabled = FALSE] \in Jevs
    BY <2>1 DEF Jevs
  <2>3. Edited(pr, c) = [pr EXCEPT !.jev = [pr.jev EXCEPT !.enabled = FALSE]]
    BY <1>3 DEF Edited
  <2> QED
    BY <2>1, <2>2, <2>3 DEF Profiles
<1>4. CASE c.op = "apply"
  <2>1. pr \in Profiles /\ c.policy \in Policies
    BY <1>4, CommandShape
  <2>2. Edited(pr, c) = [pr EXCEPT !.policy = c.policy]
    BY <1>4 DEF Edited
  <2> QED
    BY <2>1, <2>2 DEF Profiles
<1> QED
  BY <1>1, <1>2, <1>3, <1>4, CommandShape

\* A change is about one profile, and edits that.
LEMMA ChangeOfOne ==
  ASSUME NEW d \in Docs, NEW c \in Commands, c.op # "use", Finds(d, c), ~AlreadyOff(d, c)
  PROVE  LET n == NameOf(d, c.name) IN
         /\ n \in Names /\ Changed(d, c) \in Docs
         /\ c.op = "connect" => n = c.name
         /\ c.op # "connect" => d.profiles[n] \in Profiles
         /\ c.op = "disable" => d.profiles[n].jev \in Jevs
         /\ Changed(d, c).profiles[n] = Edited(d.profiles[n], c)
         /\ Edited(d.profiles[n], c) \in Profiles
         /\ \A m \in Names \ {n} : Changed(d, c).profiles[m] = d.profiles[m]
<1> DEFINE n == NameOf(d, c.name)
<1>1. /\ c.op \in {"connect", "enable", "disable", "apply"} /\ c.name \in Names \cup {None}
      /\ c.op = "connect" => c.name \in Names
      /\ d.default \in Names \cup {None} /\ None \notin Names
      /\ \A m \in Names : d.profiles[m] \in Profiles \cup {None}
  BY CommandShape, ConfigAssumption DEF ConfigAssumption, Docs
<1>2. c.op = "connect" => n = c.name
  BY <1>1 DEF NameOf
<1>3. n \in Names /\ (c.op # "connect" => d.profiles[n] \in Profiles)
  <2>1. CASE c.op = "connect"
    BY <1>1, <1>2, <2>1
  <2>2. CASE c.op # "connect"
    <3>1. Profile(d, c.name) # None
      BY <2>2 DEF Finds
    <3> QED
      BY <1>1, <2>2, <3>1 DEF Profile, NameOf
  <2> QED
    BY <2>1, <2>2
<1>4. c.op = "disable" => d.profiles[n].jev \in Jevs
  <2> SUFFICES ASSUME c.op = "disable" PROVE d.profiles[n].jev \in Jevs
    OBVIOUS
  <2>1. Profile(d, c.name) = d.profiles[n] /\ d.profiles[n] \in Profiles
    BY <1>1, <1>3 DEF Profile
  <2>2. d.profiles[n].jev # None
    BY <2>1 DEF AlreadyOff
  <2> QED
    BY <2>1, <2>2 DEF Profiles
<1>5. Edited(d.profiles[n], c) \in Profiles
  <2>1. None \notin Jevs
    BY ConfigAssumption DEF ConfigAssumption
  <2> QED
    BY <1>3, <1>4, <2>1, EditedType
<1> DEFINE ed == Edited(d.profiles[n], c)
           def == IF c.op = "connect" /\ d.default = None THEN c.name ELSE d.default
<1>6. /\ c.op = "connect" => Changed(d, c) = [d EXCEPT !.profiles[n] = ed, !.default = def]
      /\ c.op # "connect" => Changed(d, c) = [d EXCEPT !.profiles[n] = ed]
  <2>1. CASE c.op = "connect"
    BY <1>2, <2>1 DEF Changed, Connected, Edited
  <2>2. CASE c.op = "enable"
    <3>1. /\ Changed(d, c) = [d EXCEPT !.profiles[n].jev =
                [enabled |-> TRUE, tuned |-> c.tuned \/ (@ # None /\ @.tuned)]]
          /\ ed = [d.profiles[n] EXCEPT !.jev = [enabled |-> TRUE,
                      tuned |-> c.tuned \/ (d.profiles[n].jev # None /\ d.profiles[n].jev.tuned)]]
      BY <2>2 DEF Changed, Enabled, Edited
    <3> QED
      BY <2>2, <3>1
  <2>3. CASE c.op = "disable"
    <3>1. /\ Changed(d, c) = [d EXCEPT !.profiles[n].jev.enabled = FALSE]
          /\ ed = [d.profiles[n] EXCEPT !.jev = [d.profiles[n].jev EXCEPT !.enabled = FALSE]]
      BY <2>3 DEF Changed, Disabled, Edited
    <3> QED
      BY <2>3, <3>1
  <2>4. CASE c.op = "apply"
    <3>1. /\ Changed(d, c) = [d EXCEPT !.profiles[n].policy = c.policy]
          /\ ed = [d.profiles[n] EXCEPT !.policy = c.policy]
      BY <2>4 DEF Changed, Applied, Edited
    <3> QED
      BY <2>4, <3>1
  <2> QED
    BY <1>1, <2>1, <2>2, <2>3, <2>4
<1>7. def \in Names \cup {None}
  BY <1>1
<1> HIDE DEF n, ed, def
<1>8. /\ Changed(d, c) \in Docs /\ Changed(d, c).profiles[n] = ed
      /\ \A m \in Names \ {n} : Changed(d, c).profiles[m] = d.profiles[m]
  <2>1. n \in Names /\ ed \in Profiles \cup {None}
    BY <1>3, <1>5 DEF ed
  <2>2. CASE c.op = "connect"
    <3>1. /\ d = [default |-> d.default, profiles |-> d.profiles]
          /\ d.profiles \in [Names -> Profiles \cup {None}]
      BY DEF Docs
    <3>2. Changed(d, c) = [default |-> def, profiles |-> [d.profiles EXCEPT ![n] = ed]]
      BY <1>6, <2>2, <3>1
    <3> QED
      BY <1>7, <2>1, <3>1, <3>2 DEF Docs
  <2>3. CASE c.op # "connect"
    BY <1>6, <1>1, <2>1, <2>3 DEF Docs
  <2> QED
    BY <2>2, <2>3
<1> QED
  BY <1>2, <1>3, <1>4, <1>5, <1>8 DEF n, ed

-----------------------------------------------------------------------------
(* The types of the configuration file and of the commands that use it.    *)

\* What a torn file may parse as is a document.
LEMMA CutsType ==
  ASSUME NEW d \in Docs
  PROVE  Cuts(d) \subseteq Docs
<1> DEFINE Kept(S) == [n \in Names |-> IF n \in S THEN d.profiles[n] ELSE None]
           whole == {[d EXCEPT !.profiles = Kept(S)] : S \in SUBSET Names}
           Bared(e) == {[e EXCEPT !.profiles[n] = Bare(@)] :
                           n \in {m \in Names : e.profiles[m] # None}}
<1>1. whole \subseteq Docs
  <2>1. ASSUME NEW S \in SUBSET Names PROVE [d EXCEPT !.profiles = Kept(S)] \in Docs
    BY DEF Docs
  <2> QED
    BY <2>1
<1>2. ASSUME NEW e \in Docs PROVE Bared(e) \subseteq Docs
  <2>1. ASSUME NEW n \in Names, e.profiles[n] # None
        PROVE  [e EXCEPT !.profiles[n] = Bare(@)] \in Docs
    <3>1. e.profiles[n] \in Profiles
      BY <2>1 DEF Docs
    <3>2. Bare(e.profiles[n]) \in Profiles
      BY <3>1 DEF Bare, Profiles
    <3>3. [e EXCEPT !.profiles[n] = Bare(@)] = [e EXCEPT !.profiles[n] = Bare(e.profiles[n])]
      OBVIOUS
    <3> QED
      BY <3>2, <3>3 DEF Docs
  <2> QED
    BY <2>1
<1>3. Cuts(d) = whole \cup UNION {Bared(e) : e \in whole}
  BY DEF Cuts
<1> HIDE DEF whole, Bared
<1> QED
  BY <1>1, <1>2, <1>3

\* The file holds a document unless it is missing or empty; a command that has
\* started is one of those that may be run, and one that saves changes something.
FileShape == /\ file \in [kind : {"missing", "empty", "doc", "torn"}, doc : Docs \cup {None}]
             /\ file.kind \in {"doc", "torn"} => file.doc # None

EditorShape(p) ==
    /\ editor[p].at \in {"load", "save", "write", "using"} => editor[p].cmd \in Commands
    /\ editor[p].at \in {"save", "write"} =>
         /\ editor[p].cmd.op # "use"
         /\ editor[p].cmd.op = "connect" => editor[p].name = editor[p].cmd.name

Finished == {p \in Procs : editor[p].at = "done"}

CInv == /\ ConfigTypeOK /\ FileShape
        /\ \A p \in Procs : EditorShape(p)
        /\ Len(log) <= Cardinality(Finished)

LEMMA LoadedType ==
  ASSUME FileShape
  PROVE  /\ Loaded \ {None} \subseteq Docs
         /\ file.kind \in {"missing", "empty"} => Loaded = {Defaults}
         /\ file.kind = "doc" => Loaded = {file.doc} /\ file.doc \in Docs
<1>1. Defaults \in Docs
  BY DEF Defaults, Docs
<1>2. file.kind \in {"missing", "empty"} => Loaded = {Defaults}
  BY DEF Loaded
<1>3. file.kind = "doc" => Loaded = {file.doc} /\ file.doc \in Docs
  BY DEF Loaded, FileShape
<1>4. file.kind = "torn" => Loaded = Cuts(file.doc) \cup {None} /\ file.doc \in Docs
  BY DEF Loaded, FileShape
<1>5. file.kind \in {"missing", "empty", "doc", "torn"}
  BY DEF FileShape
<1> QED
  BY <1>1, <1>2, <1>3, <1>4, <1>5, CutsType

\* A step of one process leaves the others where they are.
LEMMA EditorMoves ==
  ASSUME CInv, NEW p \in Procs, NEW e,
         editor' = [editor EXCEPT ![p] = e]
  PROVE  editor'[p] = e /\ \A q \in Procs \ {p} : editor'[q] = editor[q]
BY DEF CInv, ConfigTypeOK

\* The step of one process that keeps the types: it is where e says then, and
\* has at most one more change acknowledged, as it ends.
LEMMA EditorTyped ==
  ASSUME CInv, NEW p \in Procs,
         NEW e \in [at : Stages, cmd : Commands \cup {None},
                    name : Names \cup {None}, doc : Docs \cup {None}],
         editor' = [editor EXCEPT ![p] = e], editor[p].at # "done",
         e.at \in {"load", "save", "write", "using"} => e.cmd \in Commands,
         e.at \in {"save", "write", "using"} => e.doc # None /\ e.name # None,
         e.at \in {"save", "write"} =>
           e.cmd.op # "use" /\ (e.cmd.op = "connect" => e.name = e.cmd.name),
         FileShape', initial' = initial, disturbed' \in BOOLEAN, torn' \in BOOLEAN,
         \/ log' = log
         \/ e.at = "done" /\ \E x \in [cmd : Commands, name : Names] : log' = Append(log, x)
  PROVE  CInv'
<1>1. /\ editor' \in [Procs -> [at : Stages, cmd : Commands \cup {None},
                               name : Names \cup {None}, doc : Docs \cup {None}]]
      /\ editor'[p] = e /\ \A q \in Procs \ {p} : editor'[q] = editor[q]
  BY DEF CInv, ConfigTypeOK
<1>2. \A q \in Procs : editor'[q].at \in {"save", "write", "using"}
                         => editor'[q].doc # None /\ editor'[q].name # None
  BY <1>1 DEF CInv, ConfigTypeOK
<1>3. ASSUME NEW q \in Procs PROVE EditorShape(q)'
  <2>1. EditorShape(q)
    BY DEF CInv
  <2> QED
    BY <1>1, <2>1 DEF EditorShape
<1>4. IsFiniteSet(Procs) /\ IsFiniteSet(Finished) /\ Finished \subseteq Procs
  BY ProcessesAssumption, FS_Subset DEF ProcessesAssumption, Finished
<1>5. /\ Cardinality(Finished) \in Nat /\ Cardinality(Finished') \in Nat
      /\ Cardinality(Finished) <= Cardinality(Finished')
      /\ e.at = "done" => Cardinality(Finished') = Cardinality(Finished) + 1
  <2>1. Finished' = IF e.at = "done" THEN Finished \cup {p} ELSE Finished
    BY <1>1 DEF Finished
  <2>2. p \notin Finished
    BY DEF Finished
  <2>3. Cardinality(Finished) \in Nat
    BY <1>4, FS_CardinalityType
  <2>4. Cardinality(Finished \cup {p}) = Cardinality(Finished) + 1
    BY <1>4, <2>2, FS_AddElement
  <2> QED
    BY <2>1, <2>3, <2>4
<1>6. /\ log' \in Seq([cmd : Commands, name : Names])
      /\ Len(log') <= Cardinality(Finished')
  <2>1. /\ log \in Seq([cmd : Commands, name : Names]) /\ Len(log) \in Nat
        /\ Len(log) <= Cardinality(Finished)
    BY DEF CInv, ConfigTypeOK
  <2>2. CASE log' = log
    BY <1>5, <2>1, <2>2
  <2>3. CASE e.at = "done" /\ \E x \in [cmd : Commands, name : Names] : log' = Append(log, x)
    <3>1. /\ log' \in Seq([cmd : Commands, name : Names]) /\ Len(log') = Len(log) + 1
      BY <2>1, <2>3
    <3> QED
      BY <1>5, <2>1, <2>3, <3>1
  <2> QED
    BY <2>2, <2>3
<1>7. Len(log') <= Cardinality(Procs)
  <2>1. /\ Cardinality(Finished') <= Cardinality(Procs) /\ Cardinality(Procs) \in Nat
    BY <1>4, FS_Subset, FS_CardinalityType DEF Finished
  <2>2. Len(log') \in Nat
    BY <1>6
  <2> QED
    BY <1>5, <1>6, <2>1, <2>2
<1>8. initial \in Docs /\ file' \in [kind : {"missing", "empty", "doc", "torn"}, doc : Docs \cup {None}]
      /\ (file'.kind = "doc" => file'.doc # None)
  BY DEF CInv, ConfigTypeOK, FileShape
<1>9. ConfigTypeOK'
  BY <1>1, <1>2, <1>6, <1>7, <1>8 DEF ConfigTypeOK
<1> QED
  BY <1>3, <1>6, <1>9 DEF CInv

\* A process that ends.
LEMMA EditorEnds ==
  ASSUME CInv, NEW p \in Procs, Ends(p), editor[p].at # "done",
         FileShape', initial' = initial, disturbed' \in BOOLEAN, torn' \in BOOLEAN,
         \/ log' = log
         \/ \E x \in [cmd : Commands, name : Names] : log' = Append(log, x)
  PROVE  CInv'
<1> DEFINE e == [NoEditor EXCEPT !.at = "done"]
<1>1. /\ e \in [at : Stages, cmd : Commands \cup {None},
                name : Names \cup {None}, doc : Docs \cup {None}]
      /\ e.at = "done"
  BY DEF NoEditor, Stages
<1>2. editor' = [editor EXCEPT ![p] = e]
  BY DEF Ends
<1> HIDE DEF e
<1> QED
  BY <1>1, <1>2, EditorTyped

LEMMA StepCInv == CInv /\ [Next]_vars => CInv'
<1> SUFFICES ASSUME CInv, ConfigStep PROVE CInv'
  BY StepOfEach
<1>1. /\ file \in [kind : {"missing", "empty", "doc", "torn"}, doc : Docs \cup {None}]
      /\ editor \in [Procs -> [at : Stages, cmd : Commands \cup {None},
                               name : Names \cup {None}, doc : Docs \cup {None}]]
      /\ FileShape /\ disturbed \in BOOLEAN /\ torn \in BOOLEAN
  BY DEF CInv, ConfigTypeOK
<1>2. CASE UNCHANGED configVars
  BY <1>2 DEF configVars, CInv, ConfigTypeOK, FileShape, EditorShape, Finished
<1>3. ASSUME NEW p \in Procs, NEW c \in Commands, Begin(p, c) PROVE CInv'
  <2> DEFINE e == [editor[p] EXCEPT !.at = "load", !.cmd = c]
  <2>1. editor' = [editor EXCEPT ![p] = e] /\ editor[p].at = "idle"
        /\ UNCHANGED <<file, initial, log, disturbed, torn>>
    BY <1>1, <1>3 DEF Begin
  <2>2. /\ e \in [at : Stages, cmd : Commands \cup {None},
                  name : Names \cup {None}, doc : Docs \cup {None}]
        /\ e.at = "load" /\ e.cmd = c
    BY <1>1 DEF Stages
  <2> HIDE DEF e
  <2>3. FileShape'
    BY <1>1, <2>1 DEF FileShape
  <2> QED
    BY <1>1, <2>1, <2>2, <2>3, EditorTyped
<1>4. ASSUME NEW p \in Procs, EditorStep(p) PROVE CInv'
  <2>0. EditorShape(p)
    BY DEF CInv
  <2>1. CASE LoadChange(p)
    <3>1. PICK d \in Loaded \ {None} :
             /\ Finds(d, editor[p].cmd) /\ ~AlreadyOff(d, editor[p].cmd)
             /\ editor' = [editor EXCEPT ![p].at = "save",
                             ![p].name = NameOf(d, editor[p].cmd.name),
                             ![p].doc = Changed(d, editor[p].cmd)]
      BY <2>1, Zenon DEF LoadChange
    <3>2. /\ editor[p].at = "load" /\ editor[p].cmd \in Commands /\ editor[p].cmd.op # "use"
          /\ UNCHANGED <<file, initial, log, torn>>
          /\ disturbed' \in BOOLEAN
      BY <1>1, <2>0, <2>1 DEF LoadChange, EditorShape
    <3>3. d \in Docs
      BY <1>1, LoadedType
    <3> DEFINE c == editor[p].cmd
               m == NameOf(d, c.name)
               x == Changed(d, c)
               e == [editor[p] EXCEPT !.at = "save", !.name = m, !.doc = x]
    <3>4. /\ m \in Names /\ x \in Docs /\ (c.op = "connect" => m = c.name)
          /\ None \notin Names \cup Docs
      BY <3>1, <3>2, <3>3, ChangeOfOne, ConfigAssumption DEF ConfigAssumption
    <3>5. editor' = [editor EXCEPT ![p] = e]
      BY <1>1, <3>1
    <3> HIDE DEF m, x
    <3>6. /\ e \in [at : Stages, cmd : Commands \cup {None},
                    name : Names \cup {None}, doc : Docs \cup {None}]
          /\ e.at = "save" /\ e.cmd = c /\ e.name = m /\ e.doc = x
      BY <1>1, <3>4 DEF Stages
    <3> HIDE DEF e
    <3>7. FileShape'
      BY <1>1, <3>2 DEF FileShape
    <3> QED
      BY <1>1, <3>2, <3>4, <3>5, <3>6, <3>7, EditorTyped
  <2>2. CASE LoadUse(p)
    <3>1. PICK d \in Loaded \ {None} :
             /\ Finds(d, editor[p].cmd)
             /\ editor' = [editor EXCEPT ![p].at = "using",
                             ![p].name = NameOf(d, editor[p].cmd.name), ![p].doc = d]
      BY <2>2, Zenon DEF LoadUse
    <3>2. /\ editor[p].at = "load" /\ editor[p].cmd \in Commands /\ editor[p].cmd.op = "use"
          /\ UNCHANGED <<file, initial, log, disturbed, torn>>
      BY <1>1, <2>0, <2>2 DEF LoadUse, EditorShape
    <3>3. d \in Docs
      BY <1>1, LoadedType
    <3> DEFINE c == editor[p].cmd
               m == NameOf(d, c.name)
               e == [editor[p] EXCEPT !.at = "using", !.name = m, !.doc = d]
    <3>4. m \in Names /\ None \notin Names \cup Docs
      <4>1. None \notin Names \cup Docs
        BY ConfigAssumption DEF ConfigAssumption
      <4>2. /\ Profile(d, c.name) # None
            /\ c.name \in Names \cup {None} /\ d.default \in Names \cup {None}
        BY <3>1, <3>2, <3>3, CommandShape DEF Finds, Docs
      <4> QED
        BY <4>1, <4>2 DEF Profile, NameOf
    <3>5. editor' = [editor EXCEPT ![p] = e]
      BY <1>1, <3>1
    <3> HIDE DEF m
    <3>6. /\ e \in [at : Stages, cmd : Commands \cup {None},
                    name : Names \cup {None}, doc : Docs \cup {None}]
          /\ e.at = "using" /\ e.cmd = c /\ e.name = m /\ e.doc = d
      BY <1>1, <3>3, <3>4 DEF Stages
    <3> HIDE DEF e
    <3>7. FileShape'
      BY <1>1, <3>2 DEF FileShape
    <3> QED
      BY <1>1, <3>2, <3>3, <3>4, <3>5, <3>6, <3>7, EditorTyped
  <2>3. CASE LoadEnds(p) \/ UseEnds(p)
    <3>1. /\ editor[p].at # "done" /\ Ends(p)
          /\ UNCHANGED <<file, initial, log, disturbed, torn>>
      BY <2>3 DEF LoadEnds, UseEnds
    <3>2. FileShape'
      BY <1>1, <3>1 DEF FileShape
    <3> QED
      BY <1>1, <3>1, <3>2, EditorEnds
  <2>4. CASE Truncate(p)
    <3> DEFINE e == [editor[p] EXCEPT !.at = "write"]
    <3>1. /\ editor[p].at = "save" /\ editor' = [editor EXCEPT ![p] = e]
          /\ file' = [kind |-> "empty", doc |-> None]
          /\ UNCHANGED <<initial, log, disturbed, torn>>
      BY <1>1, <2>4 DEF Truncate, Step
    <3>2. /\ e \in [at : Stages, cmd : Commands \cup {None},
                    name : Names \cup {None}, doc : Docs \cup {None}]
          /\ e.at = "write" /\ e.cmd = editor[p].cmd /\ e.name = editor[p].name
          /\ e.doc = editor[p].doc
      BY <1>1 DEF Stages
    <3> HIDE DEF e
    <3>3. FileShape'
      BY <3>1 DEF FileShape
    <3>4. /\ editor[p].doc # None /\ editor[p].name # None /\ editor[p].cmd \in Commands
          /\ editor[p].cmd.op # "use"
          /\ editor[p].cmd.op = "connect" => editor[p].name = editor[p].cmd.name
      BY <2>0, <3>1 DEF CInv, ConfigTypeOK, EditorShape
    <3> QED
      BY <1>1, <3>1, <3>2, <3>3, <3>4, EditorTyped
  <2>5. CASE Write(p) \/ WriteFails(p)
    <3>1. /\ editor[p].at = "write" /\ Ends(p) /\ initial' = initial
          /\ disturbed' \in BOOLEAN /\ torn' \in BOOLEAN
          /\ \E k \in {"doc", "torn"} : file' = [kind |-> k, doc |-> editor[p].doc]
      BY <1>1, <2>5 DEF Write, WriteFails
    <3>2. /\ editor[p].doc # None /\ editor[p].name # None /\ editor[p].cmd \in Commands
      BY <2>0, <3>1 DEF CInv, ConfigTypeOK, EditorShape
    <3>3. FileShape'
      BY <1>1, <3>1, <3>2 DEF FileShape
    <3> DEFINE x == [cmd |-> editor[p].cmd, name |-> editor[p].name]
    <3>4. x \in [cmd : Commands, name : Names] /\ (log' = log \/ log' = Append(log, x))
      BY <1>1, <2>5, <3>2 DEF Write, WriteFails
    <3> HIDE DEF x
    <3> QED
      BY <3>1, <3>3, <3>4, EditorEnds
  <2> QED
    BY <1>4, <2>1, <2>2, <2>3, <2>4, <2>5 DEF EditorStep
<1>5. ASSUME NEW p \in Procs, EditorDies(p) PROVE CInv'
  <2>1. /\ editor[p].at # "done" /\ Ends(p) /\ UNCHANGED <<file, initial, log, torn>>
        /\ disturbed' \in BOOLEAN
    BY <1>1, <1>5 DEF EditorDies
  <2>2. FileShape'
    BY <1>1, <2>1 DEF FileShape
  <2> QED
    BY <1>1, <2>1, <2>2, EditorEnds
<1> QED
  BY <1>2, <1>3, <1>4, <1>5 DEF ConfigStep

\* The document the operators start with, and the file it is in.
LEMMA FirstDocument ==
  ASSUME Init
  PROVE  /\ initial \in Docs /\ Defaults \in Docs
         /\ \/ file = [kind |-> "missing", doc |-> None] /\ initial = Defaults
            \/ file = [kind |-> "doc", doc |-> initial]
         /\ editor = [p \in Procs |-> NoEditor] /\ log = <<>>
         /\ disturbed = FALSE /\ torn = FALSE
<1>1. /\ Defaults \in Docs
      /\ \A m \in Names : Defaults.profiles[m] = None
  BY DEF Defaults, Docs
<1>2. /\ editor = [p \in Procs |-> NoEditor] /\ log = <<>>
      /\ disturbed = FALSE /\ torn = FALSE
  BY Zenon DEF Init, ConfigInit
<1>3. CASE file = [kind |-> "missing", doc |-> None] /\ initial = Defaults
  BY <1>1, <1>2, <1>3
<1>4. CASE \E n \in Names, u \in Urls, pol \in Policies, jev \in Jevs \cup {None} :
             /\ initial = [Defaults EXCEPT !.default = n,
                   !.profiles[n] = [url |-> u, masked |-> TRUE, policy |-> pol,
                                    jev |-> jev]]
             /\ file = [kind |-> "doc", doc |-> initial]
  <2>1. PICK n \in Names, u \in Urls, pol \in Policies, jev \in Jevs \cup {None} :
             /\ initial = [Defaults EXCEPT !.default = n,
                   !.profiles[n] = [url |-> u, masked |-> TRUE, policy |-> pol,
                                    jev |-> jev]]
             /\ file = [kind |-> "doc", doc |-> initial]
    BY <1>4, Zenon
  <2> DEFINE pr == [url |-> u, masked |-> TRUE, policy |-> pol, jev |-> jev]
  <2>2. pr \in Profiles
    BY DEF Profiles
  <2>3. initial = [default |-> n, profiles |-> [Defaults.profiles EXCEPT ![n] = pr]]
    BY <2>1 DEF Defaults
  <2> HIDE DEF pr
  <2>4. initial \in Docs
    BY <1>1, <2>2, <2>3 DEF Docs
  <2> QED
    BY <1>1, <1>2, <2>1, <2>4
<1> QED
  BY <1>3, <1>4, Zenon DEF Init, ConfigInit

LEMMA InitCInv == Init => CInv
<1> SUFFICES ASSUME Init PROVE CInv
  OBVIOUS
<1>1. /\ initial \in Docs /\ log = <<>> /\ disturbed = FALSE /\ torn = FALSE
      /\ editor = [p \in Procs |-> NoEditor] /\ FileShape /\ None \notin Docs
  BY FirstDocument, ConfigAssumption DEF FileShape, ConfigAssumption
<1>2. /\ editor \in [Procs -> [at : Stages, cmd : Commands \cup {None},
                               name : Names \cup {None}, doc : Docs \cup {None}]]
      /\ \A p \in Procs : editor[p].at = "idle"
  BY <1>1 DEF NoEditor, Stages
<1>3. /\ log \in Seq([cmd : Commands, name : Names]) /\ Len(log) = 0
  BY <1>1
<1>4. /\ Cardinality(Procs) \in Nat /\ Cardinality(Finished) \in Nat
  <2>1. IsFiniteSet(Procs) /\ IsFiniteSet(Finished)
    BY ProcessesAssumption, FS_Subset DEF ProcessesAssumption, Finished
  <2> QED
    BY <2>1, FS_CardinalityType
<1>5. ConfigTypeOK
  <2>1. Len(log) <= Cardinality(Procs)
    BY <1>3, <1>4
  <2>2. \A p \in Procs : editor[p].at \in {"save", "write", "using"}
                         => editor[p].doc # None /\ editor[p].name # None
    BY <1>2
  <2> QED
    BY <1>1, <1>2, <1>3, <2>1, <2>2 DEF ConfigTypeOK, FileShape
<1>6. \A p \in Procs : EditorShape(p)
  BY <1>2 DEF EditorShape
<1> QED
  BY <1>1, <1>3, <1>4, <1>5, <1>6 DEF CInv

LEMMA CInvInvariant == Spec => []CInv
<1> QED
  BY InitCInv, StepCInv, PTL DEF Spec

\* The types of the machine's state, for any number of processes, profiles and
\* releases; in the log of acknowledged changes each process has one at most.
THEOREM TypeCorrect == Spec => []TypeOK
<1>1. CInv /\ UInv => TypeOK
  BY DEF CInv, UInv, TypeOK
<1> QED
  BY <1>1, CInvInvariant, UInvInvariant, PTL

-----------------------------------------------------------------------------
(* No command shows the fields a profile lists.                             *)

\* pr, the profile n of some document, masks what its owner wrote, or n was
\* connected since.
Rewired == {n \in Names : Logged(n, {"connect"}) # {}}

Fenced(pr, n) ==
    pr # None => \/ initial.profiles[n] # None /\ pr.masked = initial.profiles[n].masked
                 \/ n \in Rewired

FileFenced == /\ file.kind # "torn"
              /\ file.kind = "doc" => \A n \in Names : Fenced(file.doc.profiles[n], n)

\* What a command uses, and what it is about to save, is fenced; the profile it
\* connects will be rewired.
UseFenced(p) == LET n == editor[p].name IN
    /\ n \in Names /\ editor[p].doc.profiles[n] # None
    /\ Fenced(editor[p].doc.profiles[n], n)

SaveFenced(p) == \A n \in Names :
    Fenced(editor[p].doc.profiles[n], n) \/ (editor[p].cmd.op = "connect" /\ editor[p].name = n)

EditorFenced(p) == /\ editor[p].at = "using" => UseFenced(p)
                   /\ editor[p].at \in {"save", "write"} => SaveFenced(p)

MaskInv == torn \/ (FileFenced /\ \A p \in Procs : EditorFenced(p))

LEMMA EndsAtDone ==
  ASSUME CInv, NEW p \in Procs, Ends(p)
  PROVE  editor'[p].at = "done" /\ \A q \in Procs \ {p} : editor'[q] = editor[q]
<1> DEFINE e == [NoEditor EXCEPT !.at = "done"]
<1>1. editor' = [editor EXCEPT ![p] = e] /\ e.at = "done"
  BY DEF Ends, NoEditor
<1> HIDE DEF e
<1>2. editor'[p] = e /\ \A q \in Procs \ {p} : editor'[q] = editor[q]
  BY <1>1, EditorMoves
<1> QED
  BY <1>1, <1>2

\* A step that leaves every process and the file as they were, or fences them anew.
LEMMA MasksMove ==
  ASSUME CInv, MaskInv, ~torn, initial' = initial, torn' = torn,
         log' = log \/ \E x \in [cmd : Commands, name : Names] : log' = Append(log, x),
         file' = file \/ FileFenced',
         \A q \in Procs : \/ editor'[q] = editor[q]
                          \/ editor'[q].at \notin {"using", "save", "write"}
                          \/ EditorFenced(q)'
  PROVE  MaskInv'
<1>1. Rewired \subseteq Rewired'
  <2>1. log \in Seq([cmd : Commands, name : Names])
    BY DEF CInv, ConfigTypeOK
  <2>2. Len(log) <= Len(log') /\ \A i \in 1..Len(log) : i \in 1..Len(log') /\ log'[i] = log[i]
    <3>1. CASE log' = log
      BY <2>1, <3>1
    <3>2. CASE \E x \in [cmd : Commands, name : Names] : log' = Append(log, x)
      BY <2>1, <3>2
    <3> QED
      BY <3>1, <3>2
  <2> QED
    BY <2>2 DEF Rewired, Logged
<1>2. FileFenced'
  BY <1>1 DEF MaskInv, FileFenced, Fenced
<1>3. ASSUME NEW q \in Procs PROVE EditorFenced(q)'
  <2>1. EditorFenced(q)
    BY DEF MaskInv
  <2>2. CASE editor'[q] = editor[q]
    BY <1>1, <2>1, <2>2 DEF EditorFenced, UseFenced, SaveFenced, Fenced
  <2>3. CASE editor'[q].at \notin {"using", "save", "write"}
    BY <2>3 DEF EditorFenced
  <2> QED
    BY <2>2, <2>3
<1> QED
  BY <1>2, <1>3 DEF MaskInv

\* A change keeps the fields of every profile but the one it connects.
LEMMA ChangeKeepsMasks ==
  ASSUME NEW d \in Docs, NEW c \in Commands, c.op # "use", Finds(d, c), ~AlreadyOff(d, c),
         NEW n \in Names, Fenced(d.profiles[n], n)
  PROVE  Fenced(Changed(d, c).profiles[n], n) \/ (c.op = "connect" /\ NameOf(d, c.name) = n)
<1> DEFINE x == Changed(d, c)
           m == NameOf(d, c.name)
<1>1. /\ c.op # "connect" => d.profiles[m] \in Profiles
      /\ x.profiles[m] = Edited(d.profiles[m], c)
      /\ \A k \in Names \ {m} : x.profiles[k] = d.profiles[k]
      /\ None \notin Profiles
  BY ChangeOfOne, ConfigAssumption DEF ConfigAssumption
<1>2. CASE n # m
  BY <1>1, <1>2 DEF Fenced
<1>3. CASE n = m /\ c.op # "connect"
  <2>1. d.profiles[m] # None
    BY <1>1, <1>3
  <2>2. x.profiles[m].masked = d.profiles[m].masked
    <3>1. d.profiles[m] \in Profiles /\ c.op \in {"enable", "disable", "apply"}
      BY <1>1, <1>3, CommandShape
    <3>2. Edited(d.profiles[m], c).masked = d.profiles[m].masked
      <4>1. CASE c.op = "enable"
        BY <3>1, <4>1 DEF Edited, Profiles
      <4>2. CASE c.op = "disable"
        BY <3>1, <4>2 DEF Edited, Profiles
      <4>3. CASE c.op = "apply"
        BY <3>1, <4>3 DEF Edited, Profiles
      <4> QED
        BY <3>1, <4>1, <4>2, <4>3
    <3> QED
      BY <1>1, <3>2
  <2> QED
    BY <1>3, <2>1, <2>2 DEF Fenced
<1> QED
  BY <1>2, <1>3

LEMMA StepMaskInv == CInv /\ MaskInv /\ [Next]_vars => MaskInv'
<1> SUFFICES ASSUME CInv, MaskInv, ConfigStep PROVE MaskInv'
  BY StepOfEach
<1>0. /\ file \in [kind : {"missing", "empty", "doc", "torn"}, doc : Docs \cup {None}]
      /\ editor \in [Procs -> [at : Stages, cmd : Commands \cup {None},
                               name : Names \cup {None}, doc : Docs \cup {None}]]
      /\ FileShape /\ torn \in BOOLEAN
  BY DEF CInv, ConfigTypeOK
<1>1. CASE torn
  <2>1. torn' = TRUE
    <3>1. CASE UNCHANGED configVars
      BY <1>1, <3>1 DEF configVars
    <3>2. ASSUME NEW p \in Procs, NEW c \in Commands, Begin(p, c) PROVE torn' = TRUE
      BY <1>0, <1>1, <3>2 DEF Begin
    <3>3. ASSUME NEW p \in Procs, EditorDies(p) PROVE torn' = TRUE
      BY <1>0, <1>1, <3>3 DEF EditorDies
    <3>4. ASSUME NEW p \in Procs, EditorStep(p) PROVE torn' = TRUE
      <4>1. CASE LoadChange(p) \/ LoadUse(p)
        <5>1. UNCHANGED torn
          BY <4>1, Zenon DEF LoadChange, LoadUse
        <5> QED
          BY <1>0, <1>1, <5>1
      <4>3. CASE LoadEnds(p) \/ UseEnds(p) \/ Truncate(p)
        BY <1>0, <1>1, <4>3 DEF LoadEnds, UseEnds, Truncate
      <4>2. CASE Write(p) \/ WriteFails(p)
        BY <1>0, <1>1, <4>2 DEF Write, WriteFails
      <4> QED
        BY <3>4, <4>1, <4>2, <4>3 DEF EditorStep
    <3> QED
      BY <3>1, <3>2, <3>3, <3>4 DEF ConfigStep
  <2> QED
    BY <2>1 DEF MaskInv
<1>2. CASE ~torn
  <2>0. FileFenced /\ file.kind # "torn" /\ \A q \in Procs : EditorFenced(q)
    BY <1>2 DEF MaskInv, FileFenced
  <2>1. CASE UNCHANGED configVars
    BY <1>2, <2>1, MasksMove DEF configVars
  <2>2. ASSUME NEW p \in Procs, NEW c \in Commands, Begin(p, c) PROVE MaskInv'
    <3> DEFINE e == [editor[p] EXCEPT !.at = "load", !.cmd = c]
    <3>1. editor' = [editor EXCEPT ![p] = e] /\ UNCHANGED <<file, initial, log, disturbed, torn>>
      BY <1>0, <2>2 DEF Begin
    <3>2. e.at = "load"
      BY <1>0
    <3> HIDE DEF e
    <3>3. editor'[p].at = "load" /\ \A q \in Procs \ {p} : editor'[q] = editor[q]
      BY <3>1, <3>2, EditorMoves
    <3> QED
      BY <1>2, <3>1, <3>3, MasksMove
  <2>3. ASSUME NEW p \in Procs, EditorDies(p) \/ LoadEnds(p) \/ UseEnds(p) PROVE MaskInv'
    <3>1. Ends(p) /\ UNCHANGED <<file, initial, log, torn>>
      BY <2>3 DEF EditorDies, LoadEnds, UseEnds
    <3>2. editor'[p].at = "done" /\ \A q \in Procs \ {p} : editor'[q] = editor[q]
      BY <3>1, EndsAtDone
    <3> QED
      BY <1>2, <3>1, <3>2, MasksMove
  <2>5. ASSUME NEW d \in Loaded \ {None}, NEW n \in Names PROVE d \in Docs /\ Fenced(d.profiles[n], n)
    <3>1. CASE file.kind = "doc"
      BY <1>0, <2>0, <3>1, LoadedType DEF FileFenced
    <3>2. CASE file.kind \in {"missing", "empty"}
      <4>1. d = Defaults /\ d \in Docs
        BY <1>0, <3>2, LoadedType
      <4> QED
        BY <4>1 DEF Defaults, Fenced
    <3> QED
      BY <1>0, <2>0, <3>1, <3>2 DEF FileShape
  <2>6. ASSUME NEW p \in Procs, LoadChange(p) PROVE MaskInv'
    <3>1. PICK d \in Loaded \ {None} :
             /\ Finds(d, editor[p].cmd) /\ ~AlreadyOff(d, editor[p].cmd)
             /\ editor' = [editor EXCEPT ![p].at = "save",
                             ![p].name = NameOf(d, editor[p].cmd.name),
                             ![p].doc = Changed(d, editor[p].cmd)]
      BY <2>6, Zenon DEF LoadChange
    <3>2. /\ editor[p].at = "load" /\ editor[p].cmd \in Commands /\ editor[p].cmd.op # "use"
          /\ UNCHANGED <<file, initial, log, torn>>
      BY <2>6 DEF LoadChange, CInv, EditorShape
    <3> DEFINE c == editor[p].cmd
               m == NameOf(d, c.name)
               x == Changed(d, c)
               e == [editor[p] EXCEPT !.at = "save", !.name = m, !.doc = x]
    <3>3. editor' = [editor EXCEPT ![p] = e]
      BY <1>0, <3>1
    <3>4. \A n \in Names : Fenced(x.profiles[n], n) \/ (c.op = "connect" /\ m = n)
      BY <2>5, <3>1, <3>2, ChangeKeepsMasks
    <3> HIDE DEF m, x
    <3>5. e.at = "save" /\ e.cmd = c /\ e.name = m /\ e.doc = x
      BY <1>0
    <3> HIDE DEF e
    <3>6. editor'[p] = e /\ \A q \in Procs \ {p} : editor'[q] = editor[q]
      BY <3>3, EditorMoves
    <3> QED
      <4>1. Rewired' = Rewired
        BY <3>2 DEF Rewired, Logged
      <4>2. EditorFenced(p)'
        BY <3>2, <3>4, <3>5, <3>6, <4>1 DEF EditorFenced, SaveFenced, Fenced
      <4> QED
        BY <1>2, <3>2, <3>6, <4>2, MasksMove
  <2>7. ASSUME NEW p \in Procs, LoadUse(p) PROVE MaskInv'
    <3>1. PICK d \in Loaded \ {None} :
             /\ Finds(d, editor[p].cmd)
             /\ editor' = [editor EXCEPT ![p].at = "using",
                             ![p].name = NameOf(d, editor[p].cmd.name), ![p].doc = d]
      BY <2>7, Zenon DEF LoadUse
    <3>2. /\ editor[p].at = "load" /\ editor[p].cmd \in Commands /\ editor[p].cmd.op = "use"
          /\ UNCHANGED <<file, initial, log, torn>>
      BY <2>7 DEF LoadUse, CInv, EditorShape
    <3>3. d \in Docs /\ None \notin Names
      BY <1>0, LoadedType, ConfigAssumption DEF ConfigAssumption
    <3> DEFINE c == editor[p].cmd
               m == NameOf(d, c.name)
               e == [editor[p] EXCEPT !.at = "using", !.name = m, !.doc = d]
    <3>4. m \in Names /\ d.profiles[m] # None
      <4>1. /\ Profile(d, c.name) # None
            /\ c.name \in Names \cup {None} /\ d.default \in Names \cup {None}
        BY <3>1, <3>2, <3>3, CommandShape DEF Finds, Docs
      <4> QED
        BY <3>3, <4>1 DEF Profile, NameOf
    <3>5. editor' = [editor EXCEPT ![p] = e] /\ Fenced(d.profiles[m], m)
      BY <1>0, <2>5, <3>1, <3>4
    <3> HIDE DEF m
    <3>6. e.at = "using" /\ e.name = m /\ e.doc = d
      BY <1>0
    <3> HIDE DEF e
    <3>7. editor'[p] = e /\ \A q \in Procs \ {p} : editor'[q] = editor[q]
      BY <3>5, EditorMoves
    <3> QED
      <4>1. Rewired' = Rewired
        BY <3>2 DEF Rewired, Logged
      <4>2. EditorFenced(p)'
        BY <3>2, <3>4, <3>5, <3>6, <3>7, <4>1 DEF EditorFenced, UseFenced, Fenced
      <4> QED
        BY <1>2, <3>2, <3>7, <4>2, MasksMove
  <2>8. ASSUME NEW p \in Procs, Truncate(p) PROVE MaskInv'
    <3>1. /\ editor[p].at = "save" /\ editor' = [editor EXCEPT ![p] = [editor[p] EXCEPT !.at = "write"]]
          /\ file'.kind = "empty"
          /\ UNCHANGED <<initial, log, disturbed, torn>>
      BY <1>0, <2>8 DEF Truncate, Step
    <3>2. /\ editor'[p] = [editor[p] EXCEPT !.at = "write"]
          /\ \A q \in Procs \ {p} : editor'[q] = editor[q]
      BY <3>1, EditorMoves
    <3>3. /\ editor'[p].at = "write" /\ editor'[p].doc = editor[p].doc
          /\ editor'[p].cmd = editor[p].cmd /\ editor'[p].name = editor[p].name
      BY <1>0, <3>2
    <3> QED
      <4>1. Rewired' = Rewired /\ SaveFenced(p)
        BY <2>0, <3>1 DEF Rewired, Logged, EditorFenced
      <4>2. EditorFenced(p)'
        BY <3>1, <3>3, <4>1 DEF EditorFenced, SaveFenced, Fenced
      <4>3. FileFenced'
        BY <3>1 DEF FileFenced
      <4> QED
        BY <1>2, <3>1, <3>2, <4>2, <4>3, MasksMove
  <2>9. ASSUME NEW p \in Procs, Write(p) PROVE MaskInv'
    <3>1. /\ editor[p].at = "write" /\ Ends(p) /\ initial' = initial
          /\ log' = Append(log, [cmd |-> editor[p].cmd, name |-> editor[p].name])
          /\ torn' = TRUE \/ (torn' = torn /\ file' = [kind |-> "doc", doc |-> editor[p].doc])
      BY <2>9 DEF Write
    <3>2. CASE torn' = TRUE
      BY <3>2 DEF MaskInv
    <3>3. CASE torn' = torn /\ file' = [kind |-> "doc", doc |-> editor[p].doc]
      <4>1. /\ editor[p].cmd \in Commands /\ editor[p].name \in Names
            /\ \A n \in Names : Fenced(editor[p].doc.profiles[n], n)
                 \/ (editor[p].cmd.op = "connect" /\ editor[p].name = n)
        <5>1. EditorShape(p) /\ EditorFenced(p)
          BY <2>0 DEF CInv
        <5> QED
          BY <1>0, <3>1, <5>1 DEF CInv, ConfigTypeOK, EditorShape, EditorFenced, SaveFenced
      <4>2. \E x \in [cmd : Commands, name : Names] : log' = Append(log, x)
        BY <3>1, <4>1
      <4>4. editor'[p].at = "done" /\ \A q \in Procs \ {p} : editor'[q] = editor[q]
        BY <3>1, EndsAtDone
      <4>5. ASSUME NEW n \in Names, editor[p].cmd.op = "connect", editor[p].name = n
            PROVE  n \in Rewired'
        <5>1. log \in Seq([cmd : Commands, name : Names])
          BY DEF CInv, ConfigTypeOK
        <5>2. /\ Len(log) + 1 \in 1..Len(log') /\ log'[Len(log) + 1].name = n
              /\ log'[Len(log) + 1].cmd.op \in {"connect"}
          BY <3>1, <4>1, <4>5, <5>1
        <5> QED
          BY <5>2 DEF Rewired, Logged
      <4>6. \A n \in Names : Fenced(file.doc.profiles[n], n)'
        <5>0. Rewired \subseteq Rewired'
          <6>1. log \in Seq([cmd : Commands, name : Names])
            BY DEF CInv, ConfigTypeOK
          <6> QED
            BY <4>2, <6>1 DEF Rewired, Logged
        <5>1. ASSUME NEW n \in Names, Fenced(editor[p].doc.profiles[n], n)
              PROVE  Fenced(file.doc.profiles[n], n)'
          BY <3>1, <3>3, <5>0, <5>1 DEF Fenced
        <5>2. ASSUME NEW n \in Names, editor[p].cmd.op = "connect", editor[p].name = n
              PROVE  Fenced(file.doc.profiles[n], n)'
          BY <4>5, <5>2 DEF Fenced
        <5> QED
          BY <4>1, <5>1, <5>2
      <4> QED
        <5>1. FileFenced'
          BY <3>3, <4>6 DEF FileFenced
        <5> QED
          BY <1>2, <3>1, <3>3, <4>2, <4>4, <5>1, MasksMove
    <3> QED
      BY <3>1, <3>2, <3>3
  <2>10. ASSUME NEW p \in Procs, WriteFails(p) PROVE MaskInv'
    BY <2>10 DEF WriteFails, MaskInv
  <2> QED
    BY <2>1, <2>2, <2>3, <2>6, <2>7, <2>8, <2>9, <2>10 DEF ConfigStep, EditorStep
<1> QED
  BY <1>1, <1>2

\* inspect or search shows no payload with the fields the owner of the profile
\* listed, unless a connect replaced the profile or a file was cut short, in
\* any order of loads and saves (config.go:59-64, 91-103, inspect.go:56-58).
THEOREM FieldsAreMasked == Spec => []FieldsStayMasked
<1>1. Init => MaskInv
  <2> SUFFICES ASSUME Init PROVE MaskInv
    OBVIOUS
  <2>1. \A p \in Procs : editor[p].at = "idle"
    BY FirstDocument DEF NoEditor
  <2>2. \A n \in Names : Fenced(initial.profiles[n], n)
    BY DEF Fenced
  <2> QED
    <3>1. FileFenced
      BY <2>2, FirstDocument DEF FileFenced
    <3>2. \A p \in Procs : EditorFenced(p)
      BY <2>1 DEF EditorFenced
    <3> QED
      BY <3>1, <3>2 DEF MaskInv
<1>2. CInv /\ MaskInv => FieldsStayMasked
  <2> SUFFICES ASSUME CInv, MaskInv, NEW p \in Procs, editor[p].at = "using"
               PROVE  \/ /\ initial.profiles[editor[p].name] # None
                         /\ Profile(editor[p].doc, editor[p].name).masked
                              = initial.profiles[editor[p].name].masked
                      \/ Logged(editor[p].name, {"connect"}) # {}
                      \/ torn
    BY DEF FieldsStayMasked, ShownWhole
  <2>1. None \notin Names
    BY ConfigAssumption DEF ConfigAssumption
  <2>2. CASE ~torn
    BY <2>1, <2>2 DEF MaskInv, EditorFenced, UseFenced, Fenced, Rewired, Profile, NameOf
  <2> QED
    BY <2>2
<1> QED
  BY <1>1, <1>2, StepMaskInv, CInvInvariant, PTL DEF Spec

-----------------------------------------------------------------------------
(* What a change that is acknowledged adds to the log.                     *)

\* The latest of some of the first n numbers.
LEMMA LatestOf ==
  ASSUME NEW n \in Nat, NEW S \in SUBSET (1..n)
  PROVE  /\ Latest(S) \in 0..n
         /\ Latest(S) = 0 <=> S = {}
         /\ S # {} => Latest(S) \in S
         /\ \A j \in S : j <= Latest(S)
         /\ Latest(S \cup {n + 1}) = n + 1
<1>1. Latest(S \cup {n + 1}) = n + 1
  <2> DEFINE T == S \cup {n + 1}
  <2>1. \A i \in T : (\A j \in T : j <= i) <=> i = n + 1
    OBVIOUS
  <2>2. Latest(T) = CHOOSE i \in T : \A j \in T : j <= i
    BY DEF Latest
  <2>3. \E i \in T : \A j \in T : j <= i
    BY <2>1
  <2>4. Latest(T) \in T /\ \A j \in T : j <= Latest(T)
    BY <2>2, <2>3
  <2> QED
    BY <2>1, <2>4
<1>2. CASE S = {}
  BY <1>1, <1>2 DEF Latest
<1>3. CASE S # {}
  <2>1. Latest(S) \in S /\ \A j \in S : j <= Latest(S)
    <3>1. \E i \in S : \A j \in S : j <= i
      BY <1>3, GreatestNumber
    <3> QED
      BY <1>3, <3>1 DEF Latest
  <2>2. Latest(S) \in 1..n
    BY <2>1
  <2> QED
    BY <1>1, <1>3, <2>1, <2>2
<1> QED
  BY <1>2, <1>3

\* The state after the change c of the profile m was acknowledged.
Acknowledged(m, c) == /\ log \in Seq([cmd : Commands, name : Names])
                      /\ m \in Names /\ c \in Commands /\ initial' = initial
                      /\ log' = Append(log, [cmd |-> c, name |-> m])

LEMMA LogGrows ==
  ASSUME NEW m, NEW c, Acknowledged(m, c)
  PROVE  /\ Len(log) \in Nat /\ Len(log') = Len(log) + 1
         /\ \A i \in 1..Len(log) : log'[i] = log[i]
         /\ log'[Len(log) + 1].cmd = c /\ log'[Len(log) + 1].name = m
BY DEF Acknowledged

LEMMA LoggedGrows ==
  ASSUME NEW m, NEW c, Acknowledged(m, c), NEW n \in Names, NEW ops
  PROVE  /\ Logged(n, ops) \in SUBSET (1..Len(log))
         /\ n = m /\ c.op \in ops => Logged(n, ops)' = Logged(n, ops) \cup {Len(log) + 1}
         /\ ~(n = m /\ c.op \in ops) => Logged(n, ops)' = Logged(n, ops)
<1>1. 1..Len(log') = (1..Len(log)) \cup {Len(log) + 1} /\ Len(log) + 1 \notin 1..Len(log)
  BY LogGrows
<1>2. \A i \in 1..Len(log) : log'[i] = log[i]
  BY LogGrows
<1>3. log'[Len(log) + 1].cmd = c /\ log'[Len(log) + 1].name = m
  BY LogGrows
<1> QED
  BY <1>1, <1>2, <1>3 DEF Logged

\* A change that is not a connect is the latest of its kind.
LEMMA SinceGrows ==
  ASSUME NEW m, NEW c, Acknowledged(m, c), c.op # "connect", NEW n \in Names, NEW ops
  PROVE  /\ Since(n, ops) \in SUBSET (1..Len(log))
         /\ n = m /\ c.op \in ops => Since(n, ops)' = Since(n, ops) \cup {Len(log) + 1}
         /\ ~(n = m /\ c.op \in ops) => Since(n, ops)' = Since(n, ops)
<1> DEFINE k == Latest(Logged(n, {"connect"}))
<1>1. Logged(n, {"connect"})' = Logged(n, {"connect"})
  BY LoggedGrows
<1>2. k \in 0..Len(log) /\ Len(log) \in Nat
  BY LoggedGrows, LogGrows, LatestOf
<1>3. /\ Since(n, ops) = {i \in Logged(n, ops) : i > k}
      /\ Since(n, ops)' = {i \in Logged(n, ops)' : i > k}
  BY <1>1 DEF Since
<1> HIDE DEF k
<1>4. Logged(n, ops) \in SUBSET (1..Len(log))
  BY LoggedGrows
<1>5. CASE n = m /\ c.op \in ops
  <2>1. Logged(n, ops)' = Logged(n, ops) \cup {Len(log) + 1}
    BY <1>5, LoggedGrows
  <2>2. Len(log) + 1 > k
    BY <1>2
  <2> QED
    BY <1>3, <1>4, <1>5, <2>1, <2>2
<1>6. CASE ~(n = m /\ c.op \in ops)
  <2>1. Logged(n, ops)' = Logged(n, ops)
    BY <1>6, LoggedGrows
  <2> QED
    BY <1>3, <1>4, <1>6, <2>1
<1> QED
  BY <1>5, <1>6

\* Nothing has changed a profile since it was connected last, at that moment.
LEMMA ConnectStarts ==
  ASSUME NEW m, NEW c, Acknowledged(m, c), c.op = "connect", NEW ops, "connect" \notin ops
  PROVE  /\ Latest(Logged(m, {"connect"}))' = Len(log) + 1
         /\ Since(m, ops)' = {}
<1>0. Len(log) \in Nat /\ m \in Names
  BY LogGrows DEF Acknowledged
<1>1. /\ Logged(m, {"connect"}) \in SUBSET (1..Len(log))
      /\ Logged(m, {"connect"})' = Logged(m, {"connect"}) \cup {Len(log) + 1}
      /\ Logged(m, ops) \in SUBSET (1..Len(log)) /\ Logged(m, ops)' = Logged(m, ops)
  <2>1. c.op \in {"connect"} /\ c.op \notin ops
    OBVIOUS
  <2> QED
    BY <1>0, <2>1, LoggedGrows
<1>2. Latest(Logged(m, {"connect"}))' = Len(log) + 1
  BY <1>0, <1>1, LatestOf
<1>3. Since(m, ops)' = {i \in Logged(m, ops) : i > Len(log) + 1}
  BY <1>1, <1>2 DEF Since
<1> QED
  BY <1>0, <1>1, <1>2, <1>3

\* AsLogged, of the log l, what the profile was before it, and the places in
\* the log of its connects and, since the last of them, of its policies, its
\* Jev switches and those that enabled Jev.
Reads(pr, l, before, con, app, swi, ena) ==
    LET k   == Latest(con)
        was == IF k = 0 THEN before ELSE None
    IN IF k = 0 /\ was = None THEN pr = None
       ELSE /\ pr # None
            /\ pr.url = IF k = 0 THEN was.url ELSE l[k].cmd.url
            /\ pr.policy = IF Latest(app) # 0 THEN l[Latest(app)].cmd.policy
                           ELSE IF k = 0 THEN was.policy ELSE None
            /\ Latest(swi) # 0 => /\ pr.jev # None
                                  /\ pr.jev.enabled = (l[Latest(swi)].cmd.op = "enable")
            /\ Latest(swi) = 0 => pr.jev = IF k = 0 THEN was.jev ELSE None
            /\ pr.jev # None => pr.jev.tuned = \/ \E i \in ena : l[i].cmd.tuned
                                               \/ k = 0 /\ was.jev # None /\ was.jev.tuned

LEMMA AsLoggedReads ==
  ASSUME NEW n, NEW pr
  PROVE  /\ AsLogged(n, pr) <=>
              Reads(pr, log, initial.profiles[n], Logged(n, {"connect"}), Since(n, {"apply"}),
                    Since(n, {"enable", "disable"}), Since(n, {"enable"}))
         /\ AsLogged(n, pr)' <=>
              Reads(pr, log', initial'.profiles[n], Logged(n, {"connect"})', Since(n, {"apply"})',
                    Since(n, {"enable", "disable"})', Since(n, {"enable"})')
<1>1. AsLogged(n, pr) <=>
        Reads(pr, log, initial.profiles[n], Logged(n, {"connect"}), Since(n, {"apply"}),
              Since(n, {"enable", "disable"}), Since(n, {"enable"}))
  BY DEF AsLogged, Reads
<1>2. AsLogged(n, pr)' <=>
        Reads(pr, log', initial'.profiles[n], Logged(n, {"connect"})', Since(n, {"apply"})',
              Since(n, {"enable", "disable"})', Since(n, {"enable"})')
  BY DEF AsLogged, Reads
<1> QED
  BY <1>1, <1>2

\* The log says of the other profiles what it said.
LEMMA OthersAsLogged ==
  ASSUME NEW m, NEW c, Acknowledged(m, c), NEW n \in Names \ {m}, NEW pr, AsLogged(n, pr)
  PROVE  AsLogged(n, pr)'
<1> DEFINE con == Logged(n, {"connect"})
           app == Since(n, {"apply"})
           swi == Since(n, {"enable", "disable"})
           ena == Since(n, {"enable"})
<1>1. Logged(n, {"connect"})' = con
  BY LoggedGrows
<1>2. /\ Since(n, {"apply"})' = app
      /\ Since(n, {"enable", "disable"})' = swi
      /\ Since(n, {"enable"})' = ena
  <2>1. /\ Logged(n, {"apply"})' = Logged(n, {"apply"})
        /\ Logged(n, {"enable", "disable"})' = Logged(n, {"enable", "disable"})
        /\ Logged(n, {"enable"})' = Logged(n, {"enable"})
    BY LoggedGrows
  <2> QED
    BY <1>1, <2>1 DEF Since
<1>3. /\ con \in SUBSET (1..Len(log)) /\ app \in SUBSET (1..Len(log))
      /\ swi \in SUBSET (1..Len(log)) /\ ena \in SUBSET (1..Len(log))
  <2>1. /\ Logged(n, {"connect"}) \in SUBSET (1..Len(log))
        /\ Logged(n, {"apply"}) \in SUBSET (1..Len(log))
        /\ Logged(n, {"enable", "disable"}) \in SUBSET (1..Len(log))
        /\ Logged(n, {"enable"}) \in SUBSET (1..Len(log))
    BY LoggedGrows
  <2> QED
    BY <2>1 DEF Since
<1>4. /\ Latest(con) # 0 => log'[Latest(con)] = log[Latest(con)]
      /\ Latest(app) # 0 => log'[Latest(app)] = log[Latest(app)]
      /\ Latest(swi) # 0 => log'[Latest(swi)] = log[Latest(swi)]
      /\ \A i \in ena : log'[i] = log[i]
  <2>1. Len(log) \in Nat /\ \A i \in 1..Len(log) : log'[i] = log[i]
    BY LogGrows
  <2>2. /\ Latest(con) # 0 => Latest(con) \in con
        /\ Latest(app) # 0 => Latest(app) \in app
        /\ Latest(swi) # 0 => Latest(swi) \in swi
    BY <1>3, <2>1, LatestOf
  <2> QED
    BY <1>3, <2>1, <2>2
<1>5. initial' = initial
  BY DEF Acknowledged
<1>6. Reads(pr, log, initial.profiles[n], con, app, swi, ena)
  BY AsLoggedReads
<1>7. (\E i \in ena : log'[i].cmd.tuned) = (\E i \in ena : log[i].cmd.tuned)
  BY <1>4
<1>8. Reads(pr, log', initial'.profiles[n], con, app, swi, ena)
  <2> HIDE DEF con, app, swi, ena
  <2> QED
    BY <1>4, <1>5, <1>6, <1>7 DEF Reads
<1> QED
  BY <1>1, <1>2, <1>8, AsLoggedReads

\* A profile that was connected is as the log says from then on.
LEMMA ConnectAsLogged ==
  ASSUME NEW m, NEW c, Acknowledged(m, c), c.op = "connect", NEW pr
  PROVE  AsLogged(m, Edited(pr, c))'
<1> DEFINE new == [url |-> c.url, masked |-> FALSE, policy |-> None, jev |-> None]
<1>1. Edited(pr, c) = new
  BY DEF Edited
<1>2. new # None
  <2>1. c \in Commands /\ c.url \in Urls
    BY CommandShape DEF Acknowledged
  <2>2. new \in Profiles
    BY <2>1 DEF Profiles
  <2> QED
    BY <2>2, ConfigAssumption DEF ConfigAssumption
<1>3. /\ Latest(Logged(m, {"connect"})') = Len(log) + 1 /\ Len(log) + 1 # 0
      /\ log'[Len(log) + 1].cmd = c
  <2>1. Latest(Logged(m, {"connect"}))' = Len(log) + 1
    BY ConnectStarts, "connect" \notin {}
  <2> QED
    BY <2>1, LogGrows
<1>4. /\ Since(m, {"apply"})' = {} /\ Since(m, {"enable", "disable"})' = {}
      /\ Since(m, {"enable"})' = {}
  BY ConnectStarts
<1>5. Latest({}) = 0
  BY DEF Latest
<1>6. new.url = c.url /\ new.policy = None /\ new.jev = None
  OBVIOUS
<1> HIDE DEF new
<1>7. Reads(new, log', initial'.profiles[m], Logged(m, {"connect"})', Since(m, {"apply"})',
            Since(m, {"enable", "disable"})', Since(m, {"enable"})')
  BY <1>2, <1>3, <1>4, <1>5, <1>6 DEF Reads
<1> QED
  BY <1>1, <1>7, AsLoggedReads

\* A profile that was changed otherwise is as the log says from then on, if
\* it was until then.
LEMMA ChangeAsLogged ==
  ASSUME NEW m, NEW c, Acknowledged(m, c), c.op \notin {"connect", "use"},
         NEW pr \in Profiles, c.op = "disable" => pr.jev # None, AsLogged(m, pr)
  PROVE  AsLogged(m, Edited(pr, c))'
<1> DEFINE con == Logged(m, {"connect"})
           app == Since(m, {"apply"})
           swi == Since(m, {"enable", "disable"})
           ena == Since(m, {"enable"})
           k   == Latest(con)
           last == Len(log) + 1
           was == IF k = 0 THEN initial.profiles[m] ELSE None
           was2 == IF k = 0 THEN initial'.profiles[m] ELSE None
           x == Edited(pr, c)
<1>0. /\ m \in Names /\ c \in Commands /\ c.op \in {"enable", "disable", "apply"}
      /\ Len(log) \in Nat /\ last \in Nat \ {0} /\ log'[last].cmd = c /\ was2 = was
  BY CommandShape, LogGrows DEF Acknowledged
<1>1. Logged(m, {"connect"})' = con
  BY <1>0, LoggedGrows
<1>2. /\ con \in SUBSET (1..Len(log)) /\ app \in SUBSET (1..Len(log))
      /\ swi \in SUBSET (1..Len(log)) /\ ena \in SUBSET (1..Len(log))
  BY <1>0, LoggedGrows, SinceGrows
<1>3. /\ Since(m, {"apply"})' = IF c.op = "apply" THEN app \cup {last} ELSE app
      /\ Since(m, {"enable", "disable"})' =
           IF c.op \in {"enable", "disable"} THEN swi \cup {last} ELSE swi
      /\ Since(m, {"enable"})' = IF c.op = "enable" THEN ena \cup {last} ELSE ena
  <2>1. m \in Names /\ c.op # "connect"
    BY <1>0
  <2>2. ASSUME NEW ops
        PROVE  Since(m, ops)' = IF c.op \in ops THEN Since(m, ops) \cup {last} ELSE Since(m, ops)
    <3>1. CASE c.op \in ops
      BY <2>1, <3>1, SinceGrows
    <3>2. CASE c.op \notin ops
      BY <2>1, <3>2, SinceGrows
    <3> QED
      BY <3>1, <3>2
  <2>3. /\ Since(m, {"apply"})' = IF c.op \in {"apply"} THEN app \cup {last} ELSE app
        /\ Since(m, {"enable"})' = IF c.op \in {"enable"} THEN ena \cup {last} ELSE ena
        /\ Since(m, {"enable", "disable"})' =
             IF c.op \in {"enable", "disable"} THEN swi \cup {last} ELSE swi
    BY <2>2
  <2> QED
    BY <2>3
<1>4. /\ k # 0 => log'[k] = log[k]
      /\ Latest(app) # 0 => log'[Latest(app)] = log[Latest(app)]
      /\ Latest(swi) # 0 => log'[Latest(swi)] = log[Latest(swi)]
      /\ \A i \in ena : log'[i] = log[i]
      /\ Latest(app \cup {last}) = last /\ Latest(swi \cup {last}) = last
      /\ Latest(swi) = 0 => ena = {}
  <2>1. \A i \in 1..Len(log) : log'[i] = log[i]
    BY LogGrows
  <2>2. /\ k # 0 => k \in con
        /\ Latest(app) # 0 => Latest(app) \in app
        /\ Latest(swi) # 0 => Latest(swi) \in swi
        /\ Latest(app \cup {last}) = last /\ Latest(swi \cup {last}) = last
        /\ Latest(swi) = 0 => swi = {}
    BY <1>0, <1>2, LatestOf
  <2>3. ena \subseteq swi
    BY DEF Since, Logged
  <2> QED
    BY <1>2, <2>1, <2>2, <2>3
<1>5. /\ pr # None /\ ~(k = 0 /\ was = None)
      /\ pr.url = IF k = 0 THEN was.url ELSE log[k].cmd.url
      /\ pr.policy = IF Latest(app) # 0 THEN log[Latest(app)].cmd.policy
                     ELSE IF k = 0 THEN was.policy ELSE None
      /\ Latest(swi) # 0 => /\ pr.jev # None
                            /\ pr.jev.enabled = (log[Latest(swi)].cmd.op = "enable")
      /\ Latest(swi) = 0 => pr.jev = IF k = 0 THEN was.jev ELSE None
      /\ pr.jev # None => pr.jev.tuned = \/ \E i \in ena : log[i].cmd.tuned
                                         \/ k = 0 /\ was.jev # None /\ was.jev.tuned
  <2>1. pr # None
    BY ConfigAssumption DEF ConfigAssumption
  <2>2. Reads(pr, log, initial.profiles[m], con, app, swi, ena)
    BY AsLoggedReads
  <2> HIDE DEF con, app, swi, ena
  <2> QED
    BY <2>1, <2>2 DEF Reads
<1>6. x \in Profiles /\ x # None
  BY <1>0, EditedType, ConfigAssumption DEF ConfigAssumption
<1> DEFINE app2 == IF c.op = "apply" THEN app \cup {last} ELSE app
           swi2 == IF c.op \in {"enable", "disable"} THEN swi \cup {last} ELSE swi
           ena2 == IF c.op = "enable" THEN ena \cup {last} ELSE ena
<1>7. /\ x.url = IF k = 0 THEN was.url ELSE log'[k].cmd.url
      /\ x.policy = IF Latest(app2) # 0 THEN log'[Latest(app2)].cmd.policy
                    ELSE IF k = 0 THEN was.policy ELSE None
      /\ Latest(swi2) # 0 => /\ x.jev # None
                             /\ x.jev.enabled = (log'[Latest(swi2)].cmd.op = "enable")
      /\ Latest(swi2) = 0 => x.jev = IF k = 0 THEN was.jev ELSE None
      /\ x.jev # None => x.jev.tuned = \/ \E i \in ena2 : log'[i].cmd.tuned
                                       \/ k = 0 /\ was.jev # None /\ was.jev.tuned
  <2> HIDE DEF con, app, swi, ena, last, k, was
  <2>1. CASE c.op = "apply"
    <3>1. x = [pr EXCEPT !.policy = c.policy]
      BY <2>1 DEF Edited
    <3>2. /\ x.url = pr.url /\ x.policy = c.policy /\ x.jev = pr.jev
      BY <3>1 DEF Profiles
    <3> HIDE DEF x
    <3>3. app2 = app \cup {last} /\ swi2 = swi /\ ena2 = ena
      BY <2>1
    <3>4. (\E i \in ena : log'[i].cmd.tuned) = (\E i \in ena : log[i].cmd.tuned)
      BY <1>4
    <3>5. /\ x.jev # None =>
               x.jev.tuned = \/ \E i \in ena2 : log'[i].cmd.tuned
                             \/ k = 0 /\ was.jev # None /\ was.jev.tuned
          /\ x.policy = IF Latest(app2) # 0 THEN log'[Latest(app2)].cmd.policy
                        ELSE IF k = 0 THEN was.policy ELSE None
      BY <1>0, <1>4, <1>5, <3>2, <3>3, <3>4
    <3>6. /\ x.url = IF k = 0 THEN was.url ELSE log'[k].cmd.url
          /\ Latest(swi2) = 0 => x.jev = IF k = 0 THEN was.jev ELSE None
      BY <1>4, <1>5, <3>2, <3>3
    <3>7. Latest(swi2) # 0 => /\ x.jev # None
                              /\ x.jev.enabled = (log'[Latest(swi2)].cmd.op = "enable")
      BY <1>4, <1>5, <3>2, <3>3
    <3> HIDE DEF app2, swi2, ena2
    <3> QED
      BY <3>5, <3>6, <3>7
  <2>2. CASE c.op = "disable"
    <3>1. x = [pr EXCEPT !.jev = [pr.jev EXCEPT !.enabled = FALSE]] /\ pr.jev \in Jevs
      BY <2>2 DEF Edited, Profiles
    <3>2. /\ x.url = pr.url /\ x.policy = pr.policy
          /\ x.jev.enabled = FALSE /\ x.jev.tuned = pr.jev.tuned /\ x.jev \in Jevs
      BY <3>1 DEF Profiles, Jevs
    <3> HIDE DEF x
    <3>3. app2 = app /\ swi2 = swi \cup {last} /\ ena2 = ena
      BY <2>2
    <3>4. (\E i \in ena : log'[i].cmd.tuned) = (\E i \in ena : log[i].cmd.tuned)
      BY <1>4
    <3>5. x.jev # None /\ pr.jev # None
      BY <2>2, <3>2, ConfigAssumption DEF ConfigAssumption
    <3> QED
      BY <1>0, <1>4, <1>5, <2>2, <3>2, <3>3, <3>4, <3>5
  <2>3. CASE c.op = "enable"
    <3> DEFINE j == [enabled |-> TRUE, tuned |-> c.tuned \/ (pr.jev # None /\ pr.jev.tuned)]
    <3>1. x = [pr EXCEPT !.jev = j]
      BY <2>3 DEF Edited
    <3>2. /\ x.url = pr.url /\ x.policy = pr.policy
          /\ x.jev.enabled = TRUE /\ x.jev.tuned = (c.tuned \/ (pr.jev # None /\ pr.jev.tuned))
      BY <3>1 DEF Profiles
    <3> HIDE DEF x, j
    <3>3. app2 = app /\ swi2 = swi \cup {last} /\ ena2 = ena \cup {last}
      BY <2>3
    <3>4. (\E i \in ena2 : log'[i].cmd.tuned) = (c.tuned \/ \E i \in ena : log[i].cmd.tuned)
      BY <1>0, <1>4, <3>3
    <3>5. x.jev # None
      <4>1. pr.jev \in Jevs \cup {None} /\ c.tuned \in BOOLEAN
        BY <1>0, <2>3, CommandShape DEF Profiles
      <4>2. j \in Jevs
        BY <4>1 DEF j, Jevs
      <4>3. x.jev = j
        BY <3>1 DEF Profiles
      <4> QED
        BY <4>2, <4>3, ConfigAssumption DEF ConfigAssumption
    <3> QED
      BY <1>0, <1>4, <1>5, <2>3, <3>2, <3>3, <3>4, <3>5
  <2> QED
    BY <1>0, <2>1, <2>2, <2>3
<1>8. Reads(x, log', initial'.profiles[m], con, app2, swi2, ena2)
  <2> HIDE DEF con, app2, swi2, ena2, x
  <2> QED
    BY <1>0, <1>5, <1>6, <1>7 DEF Reads, was, was2
<1> QED
  BY <1>1, <1>3, <1>8, AsLoggedReads

-----------------------------------------------------------------------------
(* Acknowledged changes survive, unless changes overlap or are cut short.  *)

\* The document is what the log amounts to.
Told(d) == \A n \in Names : AsLogged(n, d.profiles[n])

Current == IF file.kind = "doc" THEN file.doc ELSE Defaults

\* A process that saves has changed a document that was as the log says.
Pending(p) == \E d \in Docs :
    /\ Told(d) /\ Finds(d, editor[p].cmd) /\ ~AlreadyOff(d, editor[p].cmd)
    /\ editor[p].name = NameOf(d, editor[p].cmd.name)
    /\ editor[p].doc = Changed(d, editor[p].cmd)

SurviveInv == ~disturbed =>
    /\ \A p, q \in Procs : Changing(p) /\ Changing(q) => p = q
    /\ \A p \in Procs : Changing(p) => Pending(p)
    /\ \A p \in Procs : editor[p].at = "write" => file.kind = "empty"
    /\ (\A p \in Procs : editor[p].at # "write") =>
         file.kind \in {"missing", "doc"} /\ Told(Current)

LEMMA ToldStays ==
  ASSUME UNCHANGED <<log, initial>>, NEW d, Told(d)
  PROVE  Told(d)'
<1> SUFFICES ASSUME NEW n \in Names PROVE AsLogged(n, d.profiles[n])'
  BY DEF Told
<1>1. \A ops : Logged(n, ops)' = Logged(n, ops)
  BY DEF Logged
<1>2. \A ops : Since(n, ops)' = Since(n, ops)
  BY <1>1 DEF Since
<1>3. AsLogged(n, d.profiles[n])
  BY DEF Told
<1> QED
  BY <1>1, <1>2, <1>3, AsLoggedReads

LEMMA ToldChange ==
  ASSUME NEW d \in Docs, NEW m, NEW c, Acknowledged(m, c), c.op # "use",
         Finds(d, c), ~AlreadyOff(d, c), m = NameOf(d, c.name), Told(d)
  PROVE  Told(Changed(d, c))'
<1>0. c \in Commands /\ m \in Names
  BY DEF Acknowledged
<1>1. /\ c.op # "connect" => d.profiles[m] \in Profiles
      /\ c.op = "disable" => d.profiles[m].jev \in Jevs
      /\ Changed(d, c).profiles[m] = Edited(d.profiles[m], c)
      /\ \A n \in Names \ {m} : Changed(d, c).profiles[n] = d.profiles[n]
      /\ None \notin Jevs
  BY <1>0, ChangeOfOne, ConfigAssumption DEF ConfigAssumption
<1> SUFFICES ASSUME NEW n \in Names PROVE AsLogged(n, Changed(d, c).profiles[n])'
  BY DEF Told
<1>2. AsLogged(n, d.profiles[n])
  BY DEF Told
<1>3. CASE n # m
  <2>1. AsLogged(n, d.profiles[n])'
    BY <1>2, <1>3, OthersAsLogged
  <2> QED
    BY <1>1, <1>3, <2>1
<1>4. CASE n = m
  <2>1. AsLogged(m, Edited(d.profiles[m], c))'
    <3>1. CASE c.op = "connect"
      BY <3>1, ConnectAsLogged
    <3>2. CASE c.op # "connect"
      BY <1>1, <1>2, <1>4, <3>2, ChangeAsLogged
    <3> QED
      BY <3>1, <3>2
  <2> QED
    BY <1>1, <1>4, <2>1
<1> QED
  BY <1>3, <1>4

\* The step of a process that neither starts nor ends a change of the file.
LEMMA SurviveAside ==
  ASSUME SurviveInv, ~disturbed, UNCHANGED <<file, initial, log>>,
         \A q \in Procs : \/ editor'[q] = editor[q]
                          \/ editor'[q].at \notin {"save", "write"} /\ editor[q].at # "write"
  PROVE  SurviveInv'
<1>1. /\ \A p, q \in Procs : Changing(p) /\ Changing(q) => p = q
      /\ \A p \in Procs : Changing(p) => Pending(p)
      /\ \A p \in Procs : editor[p].at = "write" => file.kind = "empty"
      /\ (\A p \in Procs : editor[p].at # "write") =>
           file.kind \in {"missing", "doc"} /\ Told(Current)
  BY DEF SurviveInv
<1>2. \A p \in Procs : Changing(p)' => editor'[p] = editor[p] /\ Changing(p)
  BY DEF Changing
<1>3. ASSUME NEW p \in Procs, Changing(p)' PROVE Pending(p)'
  <2>1. Pending(p) /\ editor'[p] = editor[p]
    BY <1>1, <1>2, <1>3
  <2>2. PICK d \in Docs : /\ Told(d) /\ Finds(d, editor[p].cmd) /\ ~AlreadyOff(d, editor[p].cmd)
                          /\ editor[p].name = NameOf(d, editor[p].cmd.name)
                          /\ editor[p].doc = Changed(d, editor[p].cmd)
    BY <2>1 DEF Pending
  <2>3. Told(d)'
    BY <2>2, ToldStays
  <2> QED
    BY <2>1, <2>2, <2>3 DEF Pending
<1>4. \A p, q \in Procs : Changing(p)' /\ Changing(q)' => p = q
  BY <1>1, <1>2
<1>5. \A p \in Procs : editor'[p].at = "write" => file'.kind = "empty"
  BY <1>1
<1>6. ASSUME \A p \in Procs : editor'[p].at # "write"
      PROVE  file'.kind \in {"missing", "doc"} /\ Told(Current)'
  <2>1. file.kind \in {"missing", "doc"} /\ Told(Current)
    BY <1>1, <1>6
  <2>2. Current' = Current
    BY DEF Current
  <2>3. PICK d : d = Current
    OBVIOUS
  <2>4. Told(d)'
    BY <2>1, <2>3, ToldStays
  <2> QED
    BY <2>1, <2>2, <2>3, <2>4 DEF Told
<1> QED
  BY <1>3, <1>4, <1>5, <1>6 DEF SurviveInv

LEMMA StepSurvive == CInv /\ SurviveInv /\ [Next]_vars => SurviveInv'
<1> SUFFICES ASSUME CInv, SurviveInv, ConfigStep, ~disturbed' PROVE SurviveInv'
  BY StepOfEach DEF SurviveInv
<1>0. /\ file \in [kind : {"missing", "empty", "doc", "torn"}, doc : Docs \cup {None}]
      /\ editor \in [Procs -> [at : Stages, cmd : Commands \cup {None},
                               name : Names \cup {None}, doc : Docs \cup {None}]]
      /\ FileShape /\ disturbed \in BOOLEAN /\ log \in Seq([cmd : Commands, name : Names])
  BY DEF CInv, ConfigTypeOK
<1>1. CASE UNCHANGED configVars
  BY <1>1, SurviveAside DEF configVars
<1>2. ASSUME NEW p \in Procs, NEW c \in Commands, Begin(p, c) PROVE SurviveInv'
  <2> DEFINE e == [editor[p] EXCEPT !.at = "load", !.cmd = c]
  <2>1. /\ editor' = [editor EXCEPT ![p] = e] /\ UNCHANGED <<file, initial, log, disturbed, torn>>
        /\ editor[p].at = "idle" /\ e.at = "load"
    BY <1>0, <1>2 DEF Begin
  <2> HIDE DEF e
  <2>2. editor'[p].at = "load" /\ \A q \in Procs \ {p} : editor'[q] = editor[q]
    BY <2>1, EditorMoves
  <2> QED
    BY <2>1, <2>2, SurviveAside
<1>3. ASSUME NEW p \in Procs, EditorDies(p) \/ LoadEnds(p) \/ UseEnds(p) PROVE SurviveInv'
  <2>1. /\ Ends(p) /\ UNCHANGED <<file, initial, log>> /\ ~disturbed
        /\ editor[p].at # "write"
    BY <1>0, <1>3 DEF EditorDies, LoadEnds, UseEnds
  <2>2. editor'[p].at = "done" /\ \A q \in Procs \ {p} : editor'[q] = editor[q]
    BY <2>1, EndsAtDone
  <2> QED
    BY <2>1, <2>2, SurviveAside
<1>4. ASSUME NEW p \in Procs, LoadUse(p) PROVE SurviveInv'
  <2>1. PICK d \in Loaded \ {None} :
           /\ Finds(d, editor[p].cmd)
           /\ editor' = [editor EXCEPT ![p].at = "using",
                           ![p].name = NameOf(d, editor[p].cmd.name), ![p].doc = d]
    BY <1>4, Zenon DEF LoadUse
  <2>2. editor[p].at = "load" /\ UNCHANGED <<file, initial, log, disturbed, torn>>
    BY <1>4 DEF LoadUse
  <2> DEFINE m == NameOf(d, editor[p].cmd.name)
             e == [editor[p] EXCEPT !.at = "using", !.name = m, !.doc = d]
  <2>3. editor' = [editor EXCEPT ![p] = e]
    BY <1>0, <2>1
  <2> HIDE DEF m
  <2>4. e.at = "using"
    BY <1>0
  <2> HIDE DEF e
  <2>5. editor'[p].at = "using" /\ \A q \in Procs \ {p} : editor'[q] = editor[q]
    BY <2>3, <2>4, EditorMoves
  <2> QED
    BY <2>2, <2>5, SurviveAside
<1>5. ASSUME NEW p \in Procs, LoadChange(p) PROVE SurviveInv'
  <2>1. PICK d \in Loaded \ {None} :
           /\ Finds(d, editor[p].cmd) /\ ~AlreadyOff(d, editor[p].cmd)
           /\ editor' = [editor EXCEPT ![p].at = "save",
                           ![p].name = NameOf(d, editor[p].cmd.name),
                           ![p].doc = Changed(d, editor[p].cmd)]
    BY <1>5, Zenon DEF LoadChange
  <2>2. /\ editor[p].at = "load" /\ UNCHANGED <<file, initial, log, torn>>
        /\ ~disturbed /\ \A q \in Procs \ {p} : ~Changing(q)
    <3>1. disturbed' = (disturbed \/ \E q \in Procs \ {p} : Changing(q))
      BY <1>5, Zenon DEF LoadChange
    <3> QED
      BY <1>0, <1>5, <3>1 DEF LoadChange
  <2> DEFINE c == editor[p].cmd
             m == NameOf(d, c.name)
             x == Changed(d, c)
             e == [editor[p] EXCEPT !.at = "save", !.name = m, !.doc = x]
  <2>3. editor' = [editor EXCEPT ![p] = e]
    BY <1>0, <2>1
  <2>4. /\ file.kind \in {"missing", "doc"} /\ Told(Current)
    BY <2>2 DEF SurviveInv, Changing
  <2>5. d = Current /\ d \in Docs
    BY <1>0, <2>4, LoadedType DEF Current
  <2>6. Told(d) /\ Told(d)'
    BY <2>2, <2>4, <2>5, ToldStays
  <2> HIDE DEF m, x
  <2>7. e.at = "save" /\ e.cmd = c /\ e.name = m /\ e.doc = x
    BY <1>0
  <2> HIDE DEF e
  <2>8. editor'[p] = e /\ \A q \in Procs \ {p} : editor'[q] = editor[q]
    BY <2>3, EditorMoves
  <2>9. Pending(p)'
    BY <2>1, <2>5, <2>6, <2>7, <2>8 DEF Pending, m, x
  <2>10. \A q \in Procs : Changing(q)' => q = p
    BY <2>2, <2>8 DEF Changing
  <2>11. Current' = Current
    BY <2>2 DEF Current
  <2>12. \A q \in Procs : editor'[q].at # "write"
    BY <2>2, <2>7, <2>8 DEF Changing
  <2>13. file'.kind \in {"missing", "doc"} /\ Told(Current)'
    BY <2>2, <2>4, <2>5, <2>6, <2>11 DEF Told
  <2> QED
    BY <2>9, <2>10, <2>12, <2>13 DEF SurviveInv
<1>6. ASSUME NEW p \in Procs, Truncate(p) PROVE SurviveInv'
  <2>1. /\ editor[p].at = "save"
        /\ editor' = [editor EXCEPT ![p] = [editor[p] EXCEPT !.at = "write"]]
        /\ file'.kind = "empty" /\ ~disturbed
        /\ UNCHANGED <<initial, log, disturbed, torn>>
    BY <1>0, <1>6 DEF Truncate, Step
  <2>2. /\ editor'[p] = [editor[p] EXCEPT !.at = "write"]
        /\ \A q \in Procs \ {p} : editor'[q] = editor[q]
    BY <2>1, EditorMoves
  <2>3. /\ editor'[p].at = "write" /\ editor'[p].doc = editor[p].doc
        /\ editor'[p].cmd = editor[p].cmd /\ editor'[p].name = editor[p].name
    BY <1>0, <2>2
  <2>4. Changing(p) /\ Pending(p) /\ \A q \in Procs : Changing(q) => q = p
    BY <2>1 DEF SurviveInv, Changing
  <2>5. PICK d \in Docs : /\ Told(d) /\ Finds(d, editor[p].cmd) /\ ~AlreadyOff(d, editor[p].cmd)
                          /\ editor[p].name = NameOf(d, editor[p].cmd.name)
                          /\ editor[p].doc = Changed(d, editor[p].cmd)
    BY <2>4 DEF Pending
  <2>6. Told(d)'
    BY <2>1, <2>5, ToldStays
  <2>7. Pending(p)'
    BY <2>3, <2>5, <2>6 DEF Pending
  <2>8. \A q \in Procs : Changing(q)' => q = p
    BY <2>2, <2>4 DEF Changing
  <2> QED
    BY <2>1, <2>3, <2>7, <2>8 DEF SurviveInv
<1>7. ASSUME NEW p \in Procs, Write(p) PROVE SurviveInv'
  <2>1. /\ editor[p].at = "write" /\ Ends(p) /\ UNCHANGED <<initial, disturbed>>
        /\ log' = Append(log, [cmd |-> editor[p].cmd, name |-> editor[p].name])
        /\ file' = [kind |-> "doc", doc |-> editor[p].doc]
    <3>1. editor[p].at = "write" /\ ~disturbed
      BY <1>7 DEF Write
    <3>2. file.kind = "empty"
      BY <3>1 DEF SurviveInv
    <3> QED
      BY <1>7, <3>2 DEF Write
  <2>2. editor'[p].at = "done" /\ \A q \in Procs \ {p} : editor'[q] = editor[q]
    BY <2>1, EndsAtDone
  <2>3. Changing(p) /\ Pending(p) /\ \A q \in Procs : Changing(q) => q = p
    BY <2>1 DEF SurviveInv, Changing
  <2>4. PICK d \in Docs : /\ Told(d) /\ Finds(d, editor[p].cmd) /\ ~AlreadyOff(d, editor[p].cmd)
                          /\ editor[p].name = NameOf(d, editor[p].cmd.name)
                          /\ editor[p].doc = Changed(d, editor[p].cmd)
    BY <2>3 DEF Pending
  <2>5. /\ editor[p].cmd \in Commands /\ editor[p].cmd.op # "use"
        /\ editor[p].name \in Names
    <3>1. EditorShape(p) /\ (editor[p].at = "write" => editor[p].name # None)
      BY DEF CInv, ConfigTypeOK
    <3> QED
      BY <1>0, <2>1, <3>1 DEF EditorShape
  <2>6. Acknowledged(editor[p].name, editor[p].cmd)
    BY <1>0, <2>1, <2>5 DEF Acknowledged
  <2>7. PICK m, c, x : m = editor[p].name /\ c = editor[p].cmd /\ x = editor[p].doc
    OBVIOUS
  <2>8. Told(Changed(d, c))'
    BY <2>4, <2>5, <2>6, <2>7, ToldChange
  <2>9. Told(x)'
    BY <2>4, <2>7, <2>8
  <2>10. Current' = x /\ file'.kind = "doc"
    BY <2>1, <2>7 DEF Current
  <2>11. Told(Current)'
    BY <2>9, <2>10 DEF Told
  <2>12. \A q \in Procs : ~Changing(q)' /\ editor'[q].at # "write"
    BY <2>2, <2>3 DEF Changing
  <2> QED
    BY <2>10, <2>11, <2>12 DEF SurviveInv
<1>8. ASSUME NEW p \in Procs, WriteFails(p) PROVE SurviveInv'
  BY <1>8 DEF WriteFails
<1> QED
  BY <1>1, <1>2, <1>3, <1>4, <1>5, <1>6, <1>7, <1>8 DEF ConfigStep, EditorStep

\* An empty log amounts to the document the operators started with.
LEMMA ToldAtFirst ==
  ASSUME initial \in Docs, log = <<>>
  PROVE  Told(initial)
<1> SUFFICES ASSUME NEW n \in Names PROVE AsLogged(n, initial.profiles[n])
  BY DEF Told
<1>1. \A ops : Logged(n, ops) = {} /\ Since(n, ops) = {}
  <2>1. 1..Len(log) = {}
    OBVIOUS
  <2> QED
    BY <2>1 DEF Logged, Since
<1>2. Latest({}) = 0
  BY DEF Latest
<1> DEFINE pr == initial.profiles[n]
<1>3. pr \in Profiles \cup {None}
  BY DEF Docs
<1>4. pr # None /\ pr.jev # None => pr.jev.tuned \in BOOLEAN
  BY <1>3 DEF Profiles, Jevs
<1> HIDE DEF pr
<1>5. Reads(pr, log, pr, {}, {}, {}, {})
  BY <1>2, <1>4 DEF Reads
<1> QED
  BY <1>1, <1>5, AsLoggedReads DEF pr

\* Every change that a command acknowledged is in the file, and none other,
\* until two changes overlap or one is cut short: with any number of commands,
\* profiles and changes, and any that fail, give up or die before they save
\* (config.go:77, jev.go:83, connect.go:70).
THEOREM ChangesAreKept == Spec => []ChangesSurvive
<1>1. Init => SurviveInv
  <2> SUFFICES ASSUME Init PROVE SurviveInv
    OBVIOUS
  <2>1. \A p \in Procs : editor[p].at = "idle"
    BY FirstDocument DEF NoEditor
  <2>2. file.kind \in {"missing", "doc"} /\ Current = initial
    BY FirstDocument DEF Current
  <2>3. Told(Current)
    <3>1. Told(initial)
      BY FirstDocument, ToldAtFirst
    <3> QED
      BY <2>2, <3>1
  <2> QED
    BY <2>1, <2>2, <2>3 DEF SurviveInv, Changing
<1>2. SurviveInv => ChangesSurvive
  <2> SUFFICES ASSUME SurviveInv, ~disturbed, \A p \in Procs : editor[p].at # "write"
               PROVE  /\ file.kind \in {"missing", "doc"}
                      /\ \A n \in Names : AsLogged(n, Current.profiles[n])
    BY DEF ChangesSurvive, Current
  <2>1. file.kind \in {"missing", "doc"} /\ Told(Current)
    BY DEF SurviveInv
  <2> QED
    BY <2>1 DEF Told
<1> QED
  BY <1>1, <1>2, StepSurvive, CInvInvariant, PTL DEF Spec
==============================================================================
