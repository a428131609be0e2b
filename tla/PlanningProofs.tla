--------------------------- MODULE PlanningProofs ---------------------------
(***************************************************************************)
(* Theorems about Planning: what a marked message, Jev's answers, a group  *)
(* and the messages' destinations can and cannot do to a recovery plan.    *)
(* For any queues, profiles, policies, command lines and answers.          *)
(*                                                                         *)
(* The argument: every decision of the loop is sound when it is made, and  *)
(* nothing it rests on - the policy, the settings of Jev, the answers that *)
(* were kept - changes before the plan is written and audited.             *)
(***************************************************************************)
EXTENDS Planning, FiniteSetTheorems, SequenceTheorems, WellFoundedInduction, TLAPS

DecisionRecord == [msg : Range(msgs), class : Classes, source : {"rules", "jev"}]

\* A decision respects what is marked; one of Jev's resolves what was open.
Sound(d) ==
    /\ Marked(d.msg) => d.class = "DO_NOT_REPLAY"
    /\ d.source = "jev" =>
          /\ ~d.msg.duplicateOf
          /\ \A i \in DOMAIN Policy : ~Applies(i, d.msg)
          /\ jev.all \/ Classify(d.msg) = "INVESTIGATE"
          /\ State(d.msg) \in DOMAIN cache
          /\ cache[State(d.msg)].duplicate >= DuplicateOverride
                => d.class = "DO_NOT_REPLAY"

Lists == /\ msgs \in Seq(Range(msgs)) /\ decided \in Seq(DecisionRecord)
         /\ pc = "idle" => msgs = <<>> /\ next = 1 /\ decided = <<>>
         /\ pc # "idle" => PolicyLoads

\* No message of the group is passed over.
Seen == \A i \in 1..(next - 1) : InGroup(msgs[i]) => \E d \in Decisions : d.msg = msgs[i]

Written == pc = "audit" =>
    /\ next > Len(msgs) /\ Destination # {}
    /\ plan = [ids |-> IdsOf(Selected), excluded |-> IdsOf(Excluded),
               destination |-> Destination, group |-> command.group]

PInv == /\ TypeOK /\ Lists /\ Seen /\ Written
        /\ \A d \in Decisions : Sound(d)

-----------------------------------------------------------------------------
(* The classifier's operators.                                             *)

\* Least elements, by the well-foundedness of the naturals.
LEMMA LeastNumber ==
  ASSUME NEW T \in SUBSET Nat, T # {}
  PROVE  Min(T) \in T /\ \A y \in T : Min(T) <= y
<1> DEFINE R == {ss \in Nat \X Nat : ss[1] < ss[2]}
<1>1. IsWellFoundedOn(R, Nat)
  BY NatLessThanWellFounded DEF OpToRel
<1>2. PICK x \in T : \A y \in T : <<y, x>> \notin R
  <2> HIDE DEF R
  <2> QED
    BY <1>1, WFMin
<1>3. \A y \in T : ~(y < x)
  BY <1>2
<1>4. \A y \in T : x <= y
  BY <1>3
<1> QED
  BY <1>4 DEF Min

\* Policy.Match is the first rule that applies.
Fires(rules, i, m) == Matches(rules[i], m) /\ ParamsSatisfied(rules[i], m)

LEMMA MatchIsFirst ==
  ASSUME NEW rules, rules \in Seq(Range(rules)), NEW m
  PROVE  /\ Match(rules, m) = 0 <=> \A i \in DOMAIN rules : ~Fires(rules, i, m)
         /\ Match(rules, m) # 0 => /\ Match(rules, m) \in DOMAIN rules
                                   /\ Fires(rules, Match(rules, m), m)
                                   /\ \A i \in DOMAIN rules : i < Match(rules, m) => ~Fires(rules, i, m)
<1> DEFINE I == {i \in 1..Len(rules) : Fires(rules, i, m)}
<1>1. Len(rules) \in Nat /\ DOMAIN rules = 1..Len(rules)
  BY LenProperties
<1>2. Match(rules, m) = IF I # {} THEN Min(I) ELSE 0
  BY DEF Match, SelectInSeq, Fires
<1>3. I \in SUBSET Nat
  BY <1>1
<1>4. I # {} => Min(I) \in I /\ \A y \in I : Min(I) <= y
  BY <1>3, LeastNumber
<1>5. \A i : i \in I <=> i \in DOMAIN rules /\ Fires(rules, i, m)
  BY <1>1
<1> HIDE DEF I
<1>6. I # {} => Min(I) \in Nat /\ Min(I) # 0
  BY <1>1, <1>4, <1>5
<1>7. Match(rules, m) = 0 <=> \A i \in DOMAIN rules : ~Fires(rules, i, m)
  BY <1>2, <1>5, <1>6
<1>8. ASSUME Match(rules, m) # 0
      PROVE  /\ Match(rules, m) \in DOMAIN rules /\ Fires(rules, Match(rules, m), m)
             /\ \A i \in DOMAIN rules : i < Match(rules, m) => ~Fires(rules, i, m)
  <2>1. I # {} /\ Match(rules, m) = Min(I)
    BY <1>2, <1>8
  <2>2. ASSUME NEW i \in DOMAIN rules, i < Min(I), Fires(rules, i, m) PROVE FALSE
    <3>1. i \in I /\ i \in Nat /\ Min(I) \in Nat
      BY <1>1, <1>5, <1>6, <2>1, <2>2
    <3> QED
      BY <1>4, <2>2, <3>1
  <2> QED
    BY <1>4, <1>5, <2>1, <2>2
<1> QED
  BY <1>7, <1>8

LEMMA ClassesOfRules ==
  ASSUME NEW m
  PROVE  /\ Classify(m) \in Classes
         /\ m.duplicateOf => Classify(m) = "DO_NOT_REPLAY"
BY DEF Classify, Classes

LEMMA ClassesOfActions ==
  ASSUME NEW action \in Actions
  PROVE  /\ ActionClass(action) \in Classes
         /\ action = "do_not_replay" => ActionClass(action) = "DO_NOT_REPLAY"
BY DEF ActionClass, Actions, Classes

LEMMA ClassesOfChoices ==
  ASSUME NEW choice
  PROVE  /\ ChoiceClass(choice) \in Classes
         /\ choice = "do_not_replay" => ChoiceClass(choice) = "DO_NOT_REPLAY"
BY DEF ChoiceClass, Classes

LEMMA ClassesOfAnswers ==
  ASSUME NEW base \in Classes, NEW a \in Answers, NEW threshold
  PROVE  /\ Resolve(base, a, threshold) \in Classes
         /\ Usable(a, threshold) /\ a.duplicate >= DuplicateOverride
               => Resolve(base, a, threshold) = "DO_NOT_REPLAY"
<1>1. Resolve(base, a, threshold) \in Classes
  BY ClassesOfChoices DEF Resolve
<1>2. ASSUME a.duplicate >= DuplicateOverride PROVE Verdict(a).choice = "do_not_replay"
  <2>1. a.duplicate \in Int /\ DuplicateOverride \in 1..100
    BY ClassifierAssumption, PlanningAssumption DEF ClassifierAssumption, PlanningAssumption
  <2>2. Clamp(a.duplicate) >= DuplicateOverride
    BY <1>2, <2>1 DEF Clamp
  <2> QED
    BY <2>2 DEF Verdict
<1> QED
  BY <1>1, <1>2, ClassesOfChoices DEF Resolve

\* Header, policy and rules together: a class, and the refusing one of a
\* message that is marked.
LEMMA BaseClass ==
  ASSUME TypeOK, PolicyLoads, NEW m
  PROVE  /\ Base(m) \in Classes
         /\ Marked(m) => Base(m) = "DO_NOT_REPLAY"
         /\ Match(Policy, m) = 0 <=> \A i \in DOMAIN Policy : ~Applies(i, m)
         /\ Match(Policy, m) = 0 => Base(m) = Classify(m)
<1>1. Policy \in Seq(Range(Policy)) /\ (~profile.bound => Policy = <<>>)
  BY PlanningAssumption DEF PlanningAssumption, TypeOK, Policy
<1>2. DOMAIN Policy = 1..Len(Policy) /\ Len(Policy) \in Nat
  BY <1>1, LenProperties
<1>3. PICK rules : rules = Policy
  OBVIOUS
<1>4. /\ Match(Policy, m) = 0 <=> \A i \in DOMAIN Policy : ~Applies(i, m)
      /\ Match(Policy, m) # 0 => /\ Match(Policy, m) \in DOMAIN Policy
                                 /\ Applies(Match(Policy, m), m)
                                 /\ \A i \in DOMAIN Policy : i < Match(Policy, m) => ~Applies(i, m)
  <2>1. rules \in Seq(Range(rules))
    BY <1>1, <1>3
  <2> QED
    BY <1>3, <2>1, MatchIsFirst DEF Applies, Fires
<1>5. ASSUME NEW i \in DOMAIN Policy PROVE Policy[i].action \in Actions
  <2>1. profile.bound
    BY <1>1, <1>2, <1>5
  <2> QED
    BY <1>5, <2>1 DEF PolicyLoads, PolicyParses, RuleParses, Policy
<1>6. Base(m) = IF m.duplicateOf \/ Match(Policy, m) = 0 THEN Classify(m)
                ELSE ActionClass(Policy[Match(Policy, m)].action)
  BY DEF Base, ClassifyWithPolicy
<1>7. Base(m) \in Classes
  BY <1>4, <1>5, <1>6, ClassesOfRules, ClassesOfActions
<1>8. ASSUME NEW i \in DOMAIN Policy, ~m.duplicateOf, Policy[i].action = "do_not_replay",
             Applies(i, m), \A j \in 1..(i - 1) : ~Applies(j, m)
      PROVE  Base(m) = "DO_NOT_REPLAY"
  <2>1. Match(Policy, m) \in DOMAIN Policy /\ Match(Policy, m) # 0 /\ ~(i < Match(Policy, m))
    BY <1>4, <1>8
  <2>2. Match(Policy, m) = i
    BY <1>2, <1>4, <1>8, <2>1
  <2>3. Base(m) = ActionClass(Policy[i].action)
    BY <1>6, <1>8, <2>1, <2>2
  <2> QED
    BY <1>5, <1>8, <2>3, ClassesOfActions
<1>9. Marked(m) => Base(m) = "DO_NOT_REPLAY"
  BY <1>4, <1>6, <1>8, ClassesOfRules DEF Marked
<1> QED
  BY <1>4, <1>6, <1>7, <1>9

-----------------------------------------------------------------------------
(* The invariant.                                                          *)

LEMMA OwnRange ==
  ASSUME NEW S, NEW s \in Seq(S)
  PROVE  /\ s \in Seq(Range(s)) /\ Len(s) \in Nat /\ DOMAIN s = 1..Len(s)
         /\ \A i \in DOMAIN s : s[i] \in Range(s)
<1>1. Len(s) \in Nat /\ DOMAIN s = 1..Len(s)
  BY LenProperties
<1>2. s = [i \in 1..Len(s) |-> s[i]] /\ \A i \in 1..Len(s) : s[i] \in Range(s)
  BY <1>1, SeqEqual DEF Range
<1>3. s \in [1..Len(s) -> Range(s)]
  BY <1>2
<1> QED
  BY <1>1, <1>2, <1>3

LEMMA PTypes ==
  ASSUME PInv
  PROVE  /\ msgs \in Seq(Range(msgs)) /\ Len(msgs) \in Nat /\ DOMAIN msgs = 1..Len(msgs)
         /\ \A i \in 1..Len(msgs) : msgs[i] \in Range(msgs)
         /\ decided \in Seq(DecisionRecord) /\ Len(decided) \in Nat
         /\ DOMAIN decided = 1..Len(decided) /\ Decisions = Range(decided)
         /\ next \in 1..(Len(msgs) + 1) /\ next \in Nat
         /\ pc # "idle" => PolicyLoads
<1>1. msgs \in Seq(Range(msgs)) /\ decided \in Seq(DecisionRecord)
  BY DEF PInv, Lists
<1>2. Len(msgs) \in Nat /\ DOMAIN msgs = 1..Len(msgs) /\ \A i \in 1..Len(msgs) : msgs[i] \in Range(msgs)
  BY <1>1, OwnRange
<1>3. Len(decided) \in Nat /\ DOMAIN decided = 1..Len(decided)
  BY <1>1, LenProperties
<1>4. next \in 1..(Len(msgs) + 1) /\ (pc # "idle" => PolicyLoads)
  BY DEF PInv, TypeOK, Lists
<1> QED
  BY <1>1, <1>2, <1>3, <1>4 DEF Decisions, Range

LEMMA MarkedStays ==
  ASSUME UNCHANGED <<profile, jev>>, NEW m
  PROVE  Marked(m)' <=> Marked(m)
BY DEF Marked, Applies, Policy

\* A decision that was sound stays so: answers are added, never replaced.
LEMMA SoundStays ==
  ASSUME UNCHANGED <<profile, jev>>, NEW d, Sound(d),
         \A s \in DOMAIN cache : s \in DOMAIN cache' /\ cache'[s] = cache[s]
  PROVE  Sound(d)'
<1>1. Marked(d.msg)' <=> Marked(d.msg)
  BY MarkedStays
<1> QED
  BY <1>1 DEF Sound, Applies, Policy

LEMMA ResolveJevType ==
  ASSUME NEW p \in Profiles, NEW c \in Commands
  PROVE  ResolveJev(p.jev, c) \in Settings
<1>1. /\ p.jev \in [enabled : BOOLEAN, all : BOOLEAN, threshold : Int, maxCalls : Int]
      /\ c.jevAll \subseteq BOOLEAN /\ c.threshold \subseteq Int /\ c.maxCalls \subseteq Int
      /\ DefaultMaxCalls \in Nat
  BY PlanningAssumption DEF PlanningAssumption
<1>2. DefaultThreshold \in 1..100
  BY ClassifierAssumption DEF ClassifierAssumption
<1>3. NoJev \in Settings
  BY DEF NoJev, Settings
<1>4. \A option : Given(option) => ValueOf(option) \in option
  BY DEF Given, ValueOf
<1> DEFINE eff == Effective(p.jev)
           thr == IF Given(c.threshold) THEN ValueOf(c.threshold) ELSE eff.threshold
           all == IF Given(c.jevAll) THEN ValueOf(c.jevAll) ELSE eff.all
           max == IF Given(c.maxCalls) THEN ValueOf(c.maxCalls) ELSE eff.maxCalls
           on  == [enabled |-> TRUE, all |-> all,
                   threshold |-> IF thr \in 1..100 THEN thr ELSE DefaultThreshold,
                   maxCalls |-> max]
<1>5. eff.all \in BOOLEAN /\ eff.maxCalls \in Int
  BY <1>1 DEF Effective
<1>6. all \in BOOLEAN /\ max \in Int
  BY <1>1, <1>4, <1>5
<1>7. on \in Settings
  <2> HIDE DEF all, max, thr
  <2> QED
    BY <1>2, <1>6 DEF Settings
<1>8. ResolveJev(p.jev, c) \in {NoJev, on}
  BY DEF ResolveJev
<1> QED
  BY <1>3, <1>7, <1>8

LEMMA InitPInv ==
  ASSUME Init
  PROVE  PInv
<1>1. /\ Len(<<>>) = 0 /\ <<>> \in Seq(DecisionRecord) /\ <<>> \in Seq(Range(<<>>))
      /\ DOMAIN <<>> = {}
  BY EmptySeq
<1>2. msgs = <<>> /\ decided = <<>> /\ next = 1 /\ Decisions = {} /\ cache = <<>> /\ pc = "idle"
  BY <1>1 DEF Init, Decisions
<1>3. jev \in Settings
  BY DEF Init, NoJev, Settings
<1>4. TypeOK
  BY <1>1, <1>2, <1>3, PlanningAssumption DEF Init, TypeOK, PlanningAssumption
<1> QED
  BY <1>1, <1>2, <1>4 DEF PInv, Lists, Seen, Written

LEMMA StartKeeps ==
  ASSUME PInv, NEW c \in Commands, Start(c)
  PROVE  PInv'
<1>1. /\ pc' = "classify" /\ next' = 1 /\ decided' = <<>> /\ UNCHANGED <<queue, profile, groups, cache, calls>>
      /\ jev' = ResolveJev(profile.jev, c) /\ command' = c /\ commands' \in 0..MaxCommands
      /\ PolicyLoads
  BY PlanningAssumption DEF Start, PInv, Lists, TypeOK, inputs, results, PlanningAssumption
<1>2. msgs' \in Seq(Range(msgs')) /\ Len(msgs') \in Nat
  <2>1. queue \in Seq(Range(queue))
    BY PlanningAssumption DEF PlanningAssumption, PInv, TypeOK
  <2>2. PICK q : q = queue
    OBVIOUS
  <2>3. PICK S : S = Range(q)
    OBVIOUS
  <2>4. q \in Seq(S) /\ \A i \in 1..Len(q) : q[i] \in S
    BY <2>1, <2>2, <2>3, ElementOfSeq
  <2>5. msgs' \in Seq(S)
    <3>1. msgs' = IF c.limit \in 1..Len(q) THEN SubSeq(q, 1, c.limit) ELSE q
      BY <2>2 DEF Start, Listed
    <3>2. ASSUME c.limit \in 1..Len(q) PROVE SubSeq(q, 1, c.limit) \in Seq(S)
      <4>1. 1 \in Int /\ c.limit \in Int /\ \A i \in 1..c.limit : q[i] \in S
        BY <2>4, <3>2, LenProperties
      <4> QED
        BY <4>1, SubSeqProperties
    <3> QED
      BY <2>4, <3>1, <3>2
  <2> QED
    BY <2>5, OwnRange
<1>3. decided' \in Seq(DecisionRecord)' /\ Len(decided') = 0 /\ Decisions' = {}
  <2>1. <<>> \in Seq(DecisionRecord') /\ Len(<<>>) = 0 /\ DOMAIN <<>> = {}
    BY EmptySeq
  <2> QED
    BY <1>1, <2>1 DEF Decisions
<1>4. jev' \in Settings
  BY <1>1, ResolveJevType DEF PInv, TypeOK
<1>5. TypeOK'
  BY <1>1, <1>2, <1>3, <1>4 DEF PInv, TypeOK
<1>6. PolicyLoads'
  BY <1>1 DEF PolicyLoads
<1> QED
  BY <1>1, <1>2, <1>3, <1>5, <1>6 DEF PInv, Lists, Seen, Written

\* Nothing that the loop knows has changed.
LEMMA SameDecisions ==
  ASSUME PInv, UNCHANGED <<profile, command, msgs, next, decided, jev, cache>>
  PROVE  /\ Seen' /\ \A d \in Decisions' : Sound(d)'
         /\ Decisions' = Decisions /\ DecisionRecord' = DecisionRecord
         /\ Selected' = Selected /\ Excluded' = Excluded /\ Destination' = Destination
         /\ IdsOf(Selected)' = IdsOf(Selected) /\ IdsOf(Excluded)' = IdsOf(Excluded)
<1>1. Decisions' = Decisions /\ DecisionRecord' = DecisionRecord
  BY DEF Decisions, DecisionRecord
<1>2. ASSUME NEW d \in Decisions' PROVE Sound(d)'
  BY <1>1, <1>2, SoundStays DEF PInv
<1>3. Seen'
  BY <1>1 DEF PInv, Seen, InGroup
<1>4. Selected' = Selected /\ Excluded' = Excluded
  BY DEF Selected, Excluded, Left
<1>5. Destination' = Destination
  BY <1>4 DEF Destination
<1>6. IdsOf(Selected)' = IdsOf(Selected) /\ IdsOf(Excluded)' = IdsOf(Excluded)
  BY <1>4 DEF IdsOf
<1> QED
  BY <1>1, <1>2, <1>3, <1>4, <1>5, <1>6

LEMMA StartFailsKeeps ==
  ASSUME PInv, NEW c \in Commands, StartFails(c)
  PROVE  PInv'
<1>1. /\ pc = "idle" /\ pc' = "idle" /\ command' = c /\ commands' \in 0..MaxCommands
      /\ UNCHANGED <<queue, profile, groups, msgs, next, decided, jev, calls, cache>>
      /\ msgs = <<>> /\ decided = <<>> /\ next = 1
  BY PlanningAssumption DEF StartFails, PInv, Lists, TypeOK, inputs, results, PlanningAssumption
<1>2. Decisions' = {} /\ Decisions = {} /\ DecisionRecord' = DecisionRecord
  <2>1. DOMAIN <<>> = {}
    BY EmptySeq
  <2> QED
    BY <1>1, <2>1 DEF Decisions, DecisionRecord
<1>3. TypeOK'
  BY <1>1, <1>2 DEF PInv, TypeOK
<1>4. Lists'
  BY <1>1, <1>2 DEF PInv, Lists
<1> QED
  BY <1>1, <1>2, <1>3, <1>4 DEF PInv, Seen, Written

LEMMA ReturnKeeps ==
  ASSUME PInv, Return, UNCHANGED <<queue, profile, commands, command>>,
         \A g \in groups' : g.class \in Classes /\ g.members # {}
  PROVE  PInv'
<1>1. /\ pc' = "idle" /\ msgs' = <<>> /\ next' = 1 /\ decided' = <<>>
      /\ jev' = NoJev /\ calls' = 0 /\ cache' = <<>>
  BY DEF Return
<1>2. /\ Len(<<>>) = 0 /\ <<>> \in Seq(DecisionRecord') /\ <<>> \in Seq(Range(<<>>))
      /\ DOMAIN <<>> = {}
  BY EmptySeq
<1>3. Decisions' = {} /\ NoJev \in Settings
  BY <1>1, <1>2 DEF Decisions, NoJev, Settings
<1>4. TypeOK'
  BY <1>1, <1>2, <1>3 DEF PInv, TypeOK
<1> QED
  BY <1>1, <1>2, <1>3, <1>4 DEF PInv, Lists, Seen, Written

LEMMA CurrentMessage ==
  ASSUME PInv, Classifying
  PROVE  /\ Current \in Range(msgs) /\ Current = msgs[next] /\ next \in 1..Len(msgs)
         /\ pc = "classify" /\ PolicyLoads
<1>1. next \in 1..Len(msgs) /\ pc = "classify"
  BY PTypes DEF Classifying
<1> QED
  BY <1>1, PTypes DEF Current

LEMMA SkipMessageKeeps ==
  ASSUME PInv, SkipMessage
  PROVE  PInv'
<1>1. /\ next' = next + 1 /\ pc' = pc /\ next \in 1..Len(msgs) /\ pc = "classify"
      /\ ~InGroup(msgs[next])
      /\ UNCHANGED <<queue, profile, groups, plan, trail, commands, command, msgs, decided, jev, calls, cache>>
  BY CurrentMessage DEF SkipMessage, inputs, results, Current
<1>2. Decisions' = Decisions /\ DecisionRecord' = DecisionRecord
  BY <1>1 DEF Decisions, DecisionRecord
<1>3. TypeOK'
  <2>1. next' \in 1..(Len(msgs) + 1) /\ Len(decided) < next' /\ 1..(next - 1) \subseteq 1..(next' - 1)
    BY <1>1, PTypes DEF PInv, TypeOK
  <2> QED
    BY <1>1, <1>2, <2>1 DEF PInv, TypeOK
<1>4. Lists'
  BY <1>1, <1>2 DEF PInv, Lists, PolicyLoads, Policy
<1>5. Seen'
  <2>1. ASSUME NEW i \in 1..(next' - 1), InGroup(msgs[i]) PROVE \E d \in Decisions : d.msg = msgs[i]
    <3>1. i # next
      BY <1>1, <2>1
    <3>2. i \in 1..(next - 1)
      BY <1>1, <2>1, <3>1
    <3> QED
      BY <2>1, <3>2 DEF PInv, Seen
  <2> QED
    BY <1>1, <1>2, <2>1 DEF Seen, InGroup
<1>6. \A d \in Decisions' : Sound(d)'
  BY <1>1, <1>2, SoundStays DEF PInv
<1> QED
  BY <1>1, <1>3, <1>4, <1>5, <1>6 DEF PInv, Written

LEMMA DecideKeeps ==
  ASSUME PInv, Classifying, NEW class \in Classes, NEW source \in {"rules", "jev"},
         Decide(class, source), calls' \in Nat,
         \A s \in DOMAIN cache' : cache'[s] \in Answers,
         \A s \in DOMAIN cache : s \in DOMAIN cache' /\ cache'[s] = cache[s],
         Marked(Current) => class = "DO_NOT_REPLAY",
         source = "jev" =>
            /\ ~Current.duplicateOf
            /\ \A i \in DOMAIN Policy : ~Applies(i, Current)
            /\ jev.all \/ Classify(Current) = "INVESTIGATE"
            /\ State(Current) \in DOMAIN cache'
            /\ cache'[State(Current)].duplicate >= DuplicateOverride
                  => class = "DO_NOT_REPLAY"
  PROVE  PInv'
<1>1. PICK m : m = Current
  OBVIOUS
<1> DEFINE d == [msg |-> m, class |-> class, source |-> source]
<1>2. /\ decided' = Append(decided, d) /\ next' = next + 1
      /\ UNCHANGED <<queue, profile, groups, plan, trail, commands, pc, command, msgs, jev>>
  BY <1>1 DEF Decide, inputs, results
<1>3. /\ m \in Range(msgs) /\ m = msgs[next] /\ next \in 1..Len(msgs)
      /\ pc = "classify" /\ PolicyLoads
  BY <1>1, CurrentMessage
<1>4. d \in DecisionRecord /\ DecisionRecord' = DecisionRecord
  BY <1>2, <1>3 DEF DecisionRecord
<1>5. /\ d.msg = m /\ d.class = class /\ d.source = source
  OBVIOUS
<1>6. Sound(d)'
  <2>1. Marked(m)' <=> Marked(m)
    BY <1>2, MarkedStays
  <2> HIDE DEF d
  <2> QED
    BY <1>1, <1>2, <1>5, <2>1 DEF Sound, Applies, Policy
<1> HIDE DEF d
<1>7. /\ decided' \in Seq(DecisionRecord) /\ Len(decided') = Len(decided) + 1
      /\ Decisions' = Decisions \cup {d}
  <2>1. decided \in Seq(DecisionRecord) /\ Len(decided) \in Nat
    BY PTypes
  <2>2. /\ decided' \in Seq(DecisionRecord) /\ Len(decided') = Len(decided) + 1
        /\ \A i \in 1..Len(decided) : decided'[i] = decided[i]
        /\ decided'[Len(decided) + 1] = d
    BY <1>2, <1>4, <2>1, AppendProperties
  <2>3. DOMAIN decided' = 1..(Len(decided) + 1) /\ DOMAIN decided = 1..Len(decided)
    BY <2>1, <2>2, LenProperties
  <2> QED
    BY <2>1, <2>2, <2>3 DEF Decisions
<1>8. TypeOK'
  <2>1. /\ next' \in 1..(Len(msgs) + 1) /\ Len(decided') < next' /\ 1..(next - 1) \subseteq 1..(next' - 1)
        /\ next \in 1..(next' - 1)
    BY <1>2, <1>3, <1>7, PTypes DEF PInv, TypeOK
  <2>2. \A e \in Decisions' : /\ e.class \in Classes /\ e.source \in {"rules", "jev"}
                              /\ e.msg \in {msgs[i] : i \in 1..(next' - 1)}
    BY <1>3, <1>5, <1>7, <2>1 DEF PInv, TypeOK
  <2> QED
    BY <1>2, <2>1, <2>2 DEF PInv, TypeOK
<1>9. Lists'
  BY <1>2, <1>3, <1>4, <1>7 DEF PInv, Lists, PolicyLoads, Policy
<1>10. Seen'
  <2>1. ASSUME NEW i \in 1..(next' - 1), InGroup(msgs[i]) PROVE \E e \in Decisions' : e.msg = msgs[i]
    <3>1. CASE i = next
      BY <1>3, <1>5, <1>7, <3>1
    <3>2. CASE i # next
      <4>1. i \in 1..(next - 1)
        BY <1>2, <1>3, <2>1, <3>2
      <4> QED
        BY <1>7, <2>1, <4>1 DEF PInv, Seen
    <3> QED
      BY <3>1, <3>2
  <2> QED
    BY <1>2, <2>1 DEF Seen, InGroup
<1>11. \A e \in Decisions' : Sound(e)'
  <2>1. ASSUME NEW e \in Decisions PROVE Sound(e)'
    BY <1>2, SoundStays DEF PInv
  <2> QED
    BY <1>6, <1>7, <2>1
<1> QED
  BY <1>2, <1>3, <1>8, <1>9, <1>10, <1>11 DEF PInv, Written

LEMMA ByRulesKeeps ==
  ASSUME PInv, Classifying, Decide(Base(Current), "rules"), UNCHANGED <<calls, cache>>
  PROVE  PInv'
<1>1. Base(Current) \in Classes /\ (Marked(Current) => Base(Current) = "DO_NOT_REPLAY")
  BY CurrentMessage, BaseClass DEF PInv
<1>2. calls' \in Nat /\ \A s \in DOMAIN cache' : cache'[s] \in Answers
  BY DEF PInv, TypeOK
<1>3. \A s \in DOMAIN cache : s \in DOMAIN cache' /\ cache'[s] = cache[s]
  OBVIOUS
<1>4. PICK class \in Classes : class = Base(Current)
  BY <1>1
<1> QED
  BY <1>1, <1>2, <1>3, <1>4, DecideKeeps

\* An answer, fresh or kept, decides only what was left open.
LEMMA ByAnswerKeeps ==
  ASSUME PInv, Classifying, ConsultsJev(Current), NEW a \in Answers, DecideBy(a),
         calls' \in Nat,
         \A s \in DOMAIN cache' : cache'[s] \in Answers,
         \A s \in DOMAIN cache : s \in DOMAIN cache' /\ cache'[s] = cache[s],
         State(Current) \in DOMAIN cache' /\ cache'[State(Current)] = a
  PROVE  PInv'
<1>1. /\ Base(Current) \in Classes /\ (Marked(Current) => Base(Current) = "DO_NOT_REPLAY")
      /\ Match(Policy, Current) = 0 <=> \A i \in DOMAIN Policy : ~Applies(i, Current)
      /\ Match(Policy, Current) = 0 => Base(Current) = Classify(Current)
  BY CurrentMessage, BaseClass DEF PInv
<1>2. /\ ~Current.duplicateOf /\ \A i \in DOMAIN Policy : ~Applies(i, Current)
      /\ jev.all \/ Classify(Current) = "INVESTIGATE"
      /\ Base(Current) = Classify(Current)
  BY <1>1 DEF ConsultsJev
<1>3. ~Marked(Current)
  BY <1>2 DEF Marked
<1>4. PICK class, source : /\ class = Resolve(Base(Current), a, jev.threshold)
                           /\ source = IF Usable(a, jev.threshold) THEN "jev" ELSE "rules"
  OBVIOUS
<1>5. Decide(class, source)
  BY <1>4 DEF DecideBy
<1>6. /\ class \in Classes /\ source \in {"rules", "jev"}
      /\ source = "jev" /\ a.duplicate >= DuplicateOverride => class = "DO_NOT_REPLAY"
  BY <1>1, <1>4, ClassesOfAnswers
<1> QED
  BY <1>2, <1>3, <1>5, <1>6, DecideKeeps

LEMMA FromCacheKeeps ==
  ASSUME PInv, DecideFromCache
  PROVE  PInv'
<1>1. PICK a : a = cache[State(Current)]
  OBVIOUS
<1>2. /\ Classifying /\ ConsultsJev(Current) /\ State(Current) \in DOMAIN cache
      /\ DecideBy(a) /\ calls' = calls /\ cache' = cache
  BY <1>1 DEF DecideFromCache
<1>3. a \in Answers /\ calls' \in Nat /\ \A s \in DOMAIN cache' : cache'[s] \in Answers
  BY <1>1, <1>2 DEF PInv, TypeOK
<1> QED
  BY <1>1, <1>2, <1>3, ByAnswerKeeps

LEMMA CallJevKeeps ==
  ASSUME PInv, NEW a \in Answers, CallJev(a)
  PROVE  PInv'
<1>1. PICK st : st = State(Current)
  OBVIOUS
<1>2. /\ Classifying /\ ConsultsJev(Current) /\ st \notin DOMAIN cache /\ DecideBy(a)
      /\ calls' = calls + 1
      /\ cache' = [s \in DOMAIN cache \cup {st} |-> IF s = st THEN a ELSE cache[s]]
  BY <1>1 DEF CallJev
<1>3. calls' \in Nat /\ \A s \in DOMAIN cache : cache[s] \in Answers
  BY <1>2 DEF PInv, TypeOK
<1>4. /\ \A s \in DOMAIN cache' : cache'[s] \in Answers
      /\ \A s \in DOMAIN cache : s \in DOMAIN cache' /\ cache'[s] = cache[s]
      /\ st \in DOMAIN cache' /\ cache'[st] = a
  BY <1>2, <1>3
<1> QED
  BY <1>1, <1>2, <1>3, <1>4, ByAnswerKeeps

LEMMA ReportKeeps ==
  ASSUME PInv, Report
  PROVE  PInv'
<1>1. Return /\ UNCHANGED <<queue, profile, commands, command>>
  BY DEF Report, inputs
<1>2. PICK class \in [{GroupKey(d.msg) : d \in Decisions} -> Classes] :
        groups' = {[key |-> k, class |-> class[k],
                    members |-> {d.msg.id : d \in {e \in Decisions : GroupKey(e.msg) = k}}] :
                   k \in {GroupKey(d.msg) : d \in Decisions}}
  BY Zenon DEF Report
<1>3. ASSUME NEW g \in groups' PROVE g.class \in Classes /\ g.members # {}
  <2>1. PICK d \in Decisions :
          g = [key |-> GroupKey(d.msg), class |-> class[GroupKey(d.msg)],
               members |-> {x.msg.id : x \in {e \in Decisions : GroupKey(e.msg) = GroupKey(d.msg)}}]
    BY <1>2, <1>3
  <2>2. d.msg.id \in g.members /\ g.class = class[GroupKey(d.msg)]
    BY <2>1
  <2> QED
    BY <2>2
<1> QED
  BY <1>1, <1>3, ReturnKeeps

LEMMA WritePlanKeeps ==
  ASSUME PInv, WritePlan
  PROVE  PInv'
<1>1. /\ pc = "classify" /\ pc' = "audit" /\ next > Len(msgs) /\ Destination # {}
      /\ plan' = [ids |-> IdsOf(Selected), excluded |-> IdsOf(Excluded),
                  destination |-> Destination, group |-> command.group]
      /\ UNCHANGED <<queue, profile, groups, trail, commands, command, msgs, next, decided, jev, calls, cache>>
  BY DEF WritePlan, Finished, inputs
<1>2. /\ Seen' /\ \A d \in Decisions' : Sound(d)'
      /\ Decisions' = Decisions /\ DecisionRecord' = DecisionRecord
      /\ Selected' = Selected /\ Excluded' = Excluded /\ Destination' = Destination
      /\ IdsOf(Selected)' = IdsOf(Selected) /\ IdsOf(Excluded)' = IdsOf(Excluded)
  BY <1>1, SameDecisions
<1>3. TypeOK'
  BY <1>1, <1>2 DEF PInv, TypeOK
<1>4. Lists'
  BY <1>1, <1>2 DEF PInv, Lists, PolicyLoads, Policy
<1>5. Written'
  BY <1>1, <1>2 DEF Written
<1> QED
  BY <1>2, <1>3, <1>4, <1>5 DEF PInv

LEMMA PInvInductive ==
  ASSUME PInv, [Next]_vars
  PROVE  PInv'
<1>1. ASSUME NEW c \in Commands, Start(c) \/ StartFails(c) PROVE PInv'
  BY <1>1, StartKeeps, StartFailsKeeps
<1>2. DecideByRules \/ CallJevFails => PInv'
  BY ByRulesKeeps DEF DecideByRules, CallJevFails
<1>3. ASSUME NEW a \in Answers, CallJev(a) PROVE PInv'
  BY <1>3, CallJevKeeps
<1>4. PlanFails \/ WritePlanFails \/ AuditPlan \/ AuditPlanFails => PInv'
  <2>1. \A g \in groups : g.class \in Classes /\ g.members # {}
    BY DEF PInv, TypeOK
  <2> QED
    BY <2>1, ReturnKeeps DEF PlanFails, WritePlanFails, AuditPlan, AuditPlanFails, inputs, results
<1>5. ASSUME UNCHANGED vars PROVE PInv'
  <2>1. UNCHANGED <<queue, profile, groups, plan, trail, commands, pc, command, msgs, next,
                    decided, jev, calls, cache>>
    BY <1>5 DEF vars, inputs, results
  <2>2. /\ Seen' /\ \A d \in Decisions' : Sound(d)'
        /\ Decisions' = Decisions /\ DecisionRecord' = DecisionRecord
        /\ Selected' = Selected /\ Excluded' = Excluded /\ Destination' = Destination
        /\ IdsOf(Selected)' = IdsOf(Selected) /\ IdsOf(Excluded)' = IdsOf(Excluded)
    BY <2>1, SameDecisions
  <2>3. TypeOK'
    BY <2>1, <2>2 DEF PInv, TypeOK
  <2>4. Lists'
    BY <2>1, <2>2 DEF PInv, Lists, PolicyLoads, Policy
  <2>5. Written'
    BY <2>1, <2>2 DEF PInv, Written
  <2> QED
    BY <2>2, <2>3, <2>4, <2>5 DEF PInv
<1> QED
  BY <1>1, <1>2, <1>3, <1>4, <1>5, SkipMessageKeeps, FromCacheKeeps, ReportKeeps, WritePlanKeeps
     DEF Next

LEMMA PlanningInvariant == Spec => []PInv
<1>1. Init => PInv
  BY InitPInv
<1>2. PInv /\ [Next]_vars => PInv'
  BY PInvInductive
<1> QED
  BY <1>1, <1>2, PTL DEF Spec

-----------------------------------------------------------------------------
(* Theorems.                                                               *)

\* Every variable of a command and what it leaves behind keeps its type: so
\* the settings Jev runs with are in their ranges whatever the flags and the
\* profile say (resolveJev of analyze.go).
THEOREM TypeCorrect == Spec => []TypeOK
<1>1. PInv => TypeOK
  BY DEF PInv
<1> QED
  BY <1>1, PlanningInvariant, PTL

\* A message that the application or the policy marked DO_NOT_REPLAY, or that
\* the rules refuse when Jev may not judge it, is in no plan without
\* --include-do-not-replay, whatever Jev answers (planner.go:148-163).
THEOREM MarkedStayOut == Spec => []MarkedNeverPlanned
<1>1. ASSUME PInv PROVE MarkedNeverPlanned
  <2> SUFFICES ASSUME pc = "audit", ~command.include, NEW id \in DOMAIN plan.ids
               PROVE  \E m \in Range(msgs) : m.id = id /\ ~Marked(m)
    BY DEF MarkedNeverPlanned
  <2>1. plan.ids = IdsOf(Selected)
    BY <1>1 DEF PInv, Written
  <2>2. PICK i \in DOMAIN decided : ~Left(decided[i]) /\ decided[i].msg.id = id
    BY <2>1 DEF IdsOf, Selected
  <2>3. PICK d \in Decisions : d = decided[i]
    BY DEF Decisions
  <2>4. d.class # "DO_NOT_REPLAY" /\ d.msg.id = id
    BY <2>2, <2>3 DEF Left
  <2>5. ~Marked(d.msg)
    BY <1>1, <2>4 DEF PInv, Sound
  <2>6. d.msg \in Range(msgs)
    <3>1. decided \in Seq(DecisionRecord) /\ i \in 1..Len(decided)
      BY <1>1, PTypes
    <3>2. d \in DecisionRecord
      BY <2>3, <3>1, ElementOfSeq
    <3> QED
      BY <3>2 DEF DecisionRecord
  <2> QED
    BY <2>4, <2>5, <2>6
<1> QED
  BY <1>1, PlanningInvariant, PTL

\* Jev resolves ambiguity and nothing else: no message with a duplicate header
\* or a matching rule, without --jev-all none that the rules decide, and never
\* against duplicate evidence of its own (recovery/jev.go, jev/mapper.go).
THEOREM JevResolvesOnly == Spec => []JevOnlyResolves
<1>1. ASSUME PInv PROVE JevOnlyResolves
  BY <1>1 DEF PInv, Sound, JevOnlyResolves
<1> QED
  BY <1>1, PlanningInvariant, PTL

\* A plan of a group accounts for every message of the group that the command
\* listed: it is in the plan, or excluded from it (planner.go:141-168).
THEOREM PlanCoversGroup == Spec => []PlanCoversItsGroup
<1>1. ASSUME PInv PROVE PlanCoversItsGroup
  <2> SUFFICES ASSUME pc = "audit", Given(plan.group), NEW g \in groups,
                      g.key.signature = ValueOf(plan.group),
                      NEW m \in Range(msgs), GroupKey(m) = g.key
               PROVE  m.id \in DOMAIN plan.ids \cup DOMAIN plan.excluded
    BY DEF PlanCoversItsGroup
  <2>1. /\ plan.ids = IdsOf(Selected) /\ plan.excluded = IdsOf(Excluded)
        /\ plan.group = command.group /\ next > Len(msgs)
    BY <1>1 DEF PInv, Written
  <2>2. InGroup(m)
    <3>1. GroupKey(m).signature = NormalizeSignature(m.reason)
      BY DEF GroupKey
    <3> QED
      BY <2>1, <3>1 DEF InGroup
  <2>3. PICK i \in 1..Len(msgs) : m = msgs[i]
    BY <1>1, PTypes DEF Range
  <2>4. i \in 1..(next - 1)
    BY <1>1, <2>1, PTypes
  <2>5. PICK d \in Decisions : d.msg = m
    BY <1>1, <2>2, <2>3, <2>4 DEF PInv, Seen
  <2>6. PICK j \in DOMAIN decided : d = decided[j]
    BY DEF Decisions
  <2>7. j \in Selected \/ j \in Excluded
    BY DEF Selected, Excluded
  <2> QED
    BY <2>1, <2>5, <2>6, <2>7 DEF IdsOf
<1> QED
  BY <1>1, PlanningInvariant, PTL

\* Without --destination every planned message goes back where it came from:
\* a plan whose messages have several destinations is refused
\* (planner.go:173-184).
THEOREM BackWhereTheyCameFrom == Spec => []OneDestination
<1>1. ASSUME PInv PROVE OneDestination
  <2> SUFFICES ASSUME pc = "audit", command.destination = {}, NEW id \in DOMAIN plan.ids
               PROVE  \E d \in Decisions : d.msg.id = id /\ d.msg.destination = plan.destination
    BY DEF OneDestination
  <2> DEFINE found == {decided[i].msg.destination : i \in Selected}
  <2>1. plan.ids = IdsOf(Selected) /\ plan.destination = Destination /\ Destination # {}
    BY <1>1 DEF PInv, Written
  <2>2. Cardinality(found) = 1 /\ Destination = ValueOf(found)
    BY <2>1 DEF Destination
  <2>3. IsFiniteSet(found)
    <3>1. IsFiniteSet(DOMAIN decided)
      BY <1>1, PTypes, FS_Interval
    <3>2. IsFiniteSet(Selected)
      BY <3>1, FS_Subset DEF Selected
    <3> DEFINE f == [i \in Selected |-> decided[i].msg.destination]
    <3>3. f \in Surjection(Selected, found)
      BY DEF Surjection
    <3> HIDE DEF f, found
    <3> QED
      BY <3>2, <3>3, FS_Surjection
  <2>4. PICK x : found = {x}
    <3> HIDE DEF found
    <3> QED
      BY <2>2, <2>3, FS_Singleton
  <2>5. plan.destination = x
    BY <2>1, <2>2, <2>4 DEF ValueOf
  <2>6. PICK i \in Selected : decided[i].msg.id = id
    BY <2>1 DEF IdsOf
  <2>7. decided[i].msg.destination \in found /\ decided[i] \in Decisions
    BY DEF Selected, Decisions
  <2> QED
    BY <2>4, <2>5, <2>6, <2>7
<1> QED
  BY <1>1, PlanningInvariant, PTL
=============================================================================
