------------------------------ MODULE Planning ------------------------------
(***************************************************************************)
(* dlq analyze and dlq plan (internal/command/analyze.go, plan.go): list   *)
(* the dead-letter queue, classify message after message - with the policy *)
(* bound to the profile and, when it is switched on, Jev - and then report *)
(* failure groups (internal/recovery/analyzer.go) or write a recovery plan *)
(* (internal/recovery/planner.go).                                         *)
(*                                                                         *)
(* Commands run one after the other on the same queue: an operator reads   *)
(* an analysis and plans one of its groups.  The answers of Jev are the    *)
(* environment's: two commands, or two messages, may get different ones.   *)
(***************************************************************************)
EXTENDS Classifier

CONSTANTS
    Queues,          \* contents of the dead-letter queue, oldest first
    Profiles,        \* the policy bound to the profile and its jev settings
    Commands,        \* command lines of analyze and plan
    Answers,         \* what a Jev call may answer
    DefaultMaxCalls, \* jev.DefaultMaxCalls
    MaxCommands      \* bound: commands run

\* Flags and profile settings are any numbers; a profile without a bound policy
\* has no rules.
ASSUME PlanningAssumption ==
    /\ \A q \in Queues : q \in Seq(Range(q))
    /\ \A p \in Profiles :
          /\ p.rules \in Seq(Range(p.rules)) /\ (~p.bound => p.rules = <<>>)
          /\ p.jev \in [enabled : BOOLEAN, all : BOOLEAN, threshold : Int,
                        maxCalls : Int]
    /\ \A c \in Commands :
          /\ c.verb \in {"analyze", "plan"} /\ c.limit \in Int
          /\ c.jevAll \subseteq BOOLEAN
          /\ c.threshold \subseteq Int /\ c.maxCalls \subseteq Int
    /\ \A a \in Answers : {a.confidence, a.best, a.duplicate} \subseteq Int
    /\ DefaultMaxCalls \in Nat /\ MaxCommands \in Nat

VARIABLES
    queue,     \* the dead-letter queue
    profile,   \* the connection profile
    groups,    \* the failure groups the last analysis reported
    plan,      \* the plan file
    trail,     \* the audit rows of plans
    commands,  \* commands started so far
    pc,        \* where the current command is
    command,   \* its command line
    msgs,      \* the messages it listed
    next,      \* the one it classifies next
    decided,   \* what it decided of those before, skipped ones left out
    jev,       \* the assessor: its settings
    calls,     \* Jev calls that were answered
    cache      \* the answers, by state

inputs == <<queue, profile>>
results == <<groups, plan, trail>>
vars == <<inputs, results, commands, pc, command, msgs, next, decided, jev,
          calls, cache>>

\* No plan file, or one that was cut short and does not parse.
NoPlan == [ids |-> EmptyBag, excluded |-> EmptyBag, destination |-> {},
           group |-> {}]

\* An empty set stands for an option that was not given.
Given(option) == option # {}
ValueOf(option) == CHOOSE v \in option : TRUE

-----------------------------------------------------------------------------
(* The settings of a command.                                              *)

\* JevSettings.Effective: zero values take the default.
Effective(s) ==
    [s EXCEPT !.threshold = IF @ > 0 THEN @ ELSE DefaultThreshold,
              !.maxCalls = IF @ > 0 THEN @ ELSE DefaultMaxCalls]

NoJev == [enabled |-> FALSE, all |-> FALSE, threshold |-> 0, maxCalls |-> 0]

\* resolveJev: a flag overrides the profile, --without-jev overrides all, and
\* a missing API key switches Jev off.
RangeUnchecked(s, c) ==  \* fault: any threshold is taken
    LET eff == Effective(s)
    IN  IF c.withoutJev \/ ~c.hasKey \/ ~(eff.enabled \/ c.withJev) THEN NoJev
        ELSE [enabled |-> TRUE,
              all |-> IF Given(c.jevAll) THEN ValueOf(c.jevAll) ELSE eff.all,
              threshold |-> IF Given(c.threshold) THEN ValueOf(c.threshold)
                            ELSE eff.threshold,
              maxCalls |-> IF Given(c.maxCalls) THEN ValueOf(c.maxCalls)
                           ELSE eff.maxCalls]
ResolveJev(s, c) ==
    LET eff == Effective(s)
        thr == IF Given(c.threshold) THEN ValueOf(c.threshold)
               ELSE eff.threshold
    IN  IF c.withoutJev \/ ~c.hasKey \/ ~(eff.enabled \/ c.withJev) THEN NoJev
        ELSE [enabled |-> TRUE,
              all |-> IF Given(c.jevAll) THEN ValueOf(c.jevAll) ELSE eff.all,
              threshold |-> IF thr \in 1..100 THEN thr ELSE DefaultThreshold,
              maxCalls |-> IF Given(c.maxCalls) THEN ValueOf(c.maxCalls)
                           ELSE eff.maxCalls]

\* loadPolicyForProfile, once the file is known to parse.
Policy == profile.rules
PolicyLoads == profile.bound => PolicyParses(profile.rules)

-----------------------------------------------------------------------------

Init ==
    /\ queue \in Queues
    /\ profile \in Profiles
    /\ groups = {}
    /\ plan = NoPlan
    /\ trail = <<>>
    /\ commands = 0
    /\ pc = "idle"
    /\ command \in Commands
    /\ msgs = <<>> /\ next = 1 /\ decided = <<>>
    /\ jev = NoJev /\ calls = 0 /\ cache = <<>>

\* The command returns; its locals are gone.
Return ==
    /\ pc' = "idle"
    /\ msgs' = <<>> /\ next' = 1 /\ decided' = <<>>
    /\ jev' = NoJev /\ calls' = 0 /\ cache' = <<>>

\* Search lists the queue up to the limit; 0 or less is no limit.
Listed(limit) == IF limit \in 1..Len(queue) THEN SubSeq(queue, 1, limit)
                 ELSE queue

\* RunE up to the loop over the messages: the policy, the listing, Jev.
Start(c) ==
    /\ pc = "idle" /\ commands < MaxCommands
    /\ commands' = commands + 1
    /\ command' = c
    /\ PolicyLoads
    /\ queue # <<>>
    /\ pc' = "classify"
    /\ msgs' = Listed(c.limit)
    /\ jev' = ResolveJev(profile.jev, c)
    /\ UNCHANGED <<inputs, results, next, decided, calls, cache>>

\* The policy does not load, the broker fails, or there is nothing to list.
StartFails(c) ==
    /\ pc = "idle" /\ commands < MaxCommands
    /\ commands' = commands + 1
    /\ command' = c
    /\ UNCHANGED <<inputs, results, pc, msgs, next, decided, jev, calls, cache>>

-----------------------------------------------------------------------------
(* The loop: Analyzer.AnalyzeWithContext, BuildPlanWithContext.            *)

Current == msgs[next]

Base(m) == ClassifyWithPolicy(m, Policy)

\* plan --group selects by the signature alone: groupID hashes nothing else.
GroupKey(m) == [signature |-> NormalizeSignature(m.reason),
                destination |-> m.destination, event |-> m.event,
                retries |-> RetryBucket(m.retries)]
InGroupByKey(m) ==  \* fault: one of the groups with that signature is planned
    Given(command.group) =>
        LET keys == {k \in {g.key : g \in groups} :
                        k.signature = ValueOf(command.group)}
        IN  keys # {} => GroupKey(m) = ValueOf(keys)
InGroup(m) ==
    Given(command.group) =>
        NormalizeSignature(m.reason) = ValueOf(command.group)

Classifying == pc = "classify" /\ next <= Len(msgs)

\* A message of another group.
SkipMessage ==
    /\ Classifying /\ command.verb = "plan" /\ ~InGroup(Current)
    /\ next' = next + 1
    /\ UNCHANGED <<inputs, results, commands, pc, command, msgs, decided, jev,
                   calls, cache>>

\* ClassifyWithPolicyAndJev asks Jev: neither the header nor a rule decides,
\* the message is open (or --jev-all), and the budget is not used up.
PolicyIgnored(m) ==  \* fault: Jev is asked although a rule decides
    /\ jev.enabled
    /\ ~m.duplicateOf
    /\ (jev.all \/ Base(m) = "INVESTIGATE")
    /\ jev.maxCalls <= 0 \/ calls < jev.maxCalls
ConsultsJev(m) ==
    /\ jev.enabled
    /\ ~m.duplicateOf /\ Match(Policy, m) = 0
    /\ (jev.all \/ Base(m) = "INVESTIGATE")
    /\ jev.maxCalls <= 0 \/ calls < jev.maxCalls

Decide(class, source) ==
    /\ decided' = Append(decided, [msg |-> Current, class |-> class,
                                   source |-> source])
    /\ next' = next + 1
    /\ UNCHANGED <<inputs, results, commands, pc, command, msgs, jev>>

DecideBy(a) ==
    Decide(Resolve(Base(Current), a, jev.threshold),
           IF Usable(a, jev.threshold) THEN "jev" ELSE "rules")

\* Header, policy and rules.
DecideByRules ==
    /\ Classifying /\ InGroup(Current)
    /\ ~ConsultsJev(Current)
    /\ Decide(Base(Current), "rules")
    /\ UNCHANGED <<calls, cache>>

\* The answer to an equal state is reused; no call is made.
DecideFromCache ==
    /\ Classifying /\ InGroup(Current)
    /\ ConsultsJev(Current)
    /\ State(Current) \in DOMAIN cache
    /\ DecideBy(cache[State(Current)])
    /\ UNCHANGED <<calls, cache>>

\* A call that Jev answers is counted, and its answer kept.
CallJev(a) ==
    /\ Classifying /\ InGroup(Current)
    /\ ConsultsJev(Current)
    /\ State(Current) \notin DOMAIN cache
    /\ calls' = calls + 1
    /\ cache' = [s \in DOMAIN cache \cup {State(Current)} |->
                    IF s = State(Current) THEN a ELSE cache[s]]
    /\ DecideBy(a)

\* Evaluate returns an error (or the context has expired): the rules decide,
\* and the call is not counted.
CallJevFails ==
    /\ Classifying /\ InGroup(Current)
    /\ ConsultsJev(Current)
    /\ State(Current) \notin DOMAIN cache
    /\ Decide(Base(Current), "rules")
    /\ UNCHANGED <<calls, cache>>

-----------------------------------------------------------------------------
(* The end of analyze.                                                     *)

Decisions == {decided[i] : i \in DOMAIN decided}
Votes(key, class) ==
    Cardinality({i \in DOMAIN decided : /\ GroupKey(decided[i].msg) = key
                                        /\ decided[i].class = class})

\* majority: a class with the most votes.  The counts are a map, so any of
\* several such classes may come first.
Majority(key) ==
    {c \in Classes : \A d \in Classes : Votes(key, c) >= Votes(key, d)}

Report ==
    /\ pc = "classify" /\ next > Len(msgs) /\ command.verb = "analyze"
    /\ LET keys == {GroupKey(d.msg) : d \in Decisions}
       IN  \E class \in [keys -> Classes] :
              /\ \A k \in keys : class[k] \in Majority(k)
              /\ groups' = {[key |-> k, class |-> class[k],
                             members |-> {d.msg.id : d \in
                                {e \in Decisions : GroupKey(e.msg) = k}}] :
                            k \in keys}
    /\ Return
    /\ UNCHANGED <<inputs, plan, trail, commands, command>>

-----------------------------------------------------------------------------
(* The end of plan.                                                        *)

Left(d) == d.class = "DO_NOT_REPLAY" /\ ~command.include
Selected == {i \in DOMAIN decided : ~Left(decided[i])}
Excluded == {i \in DOMAIN decided : Left(decided[i])}

\* BuildPlan sorts the IDs: a sorted list is a bag.
IdsOf(places) ==
    [id \in {decided[i].msg.id : i \in places} |->
        Cardinality({i \in places : decided[i].msg.id = id})]

\* The plan's destination: the override, or the one the selected messages
\* share; empty when there is none.
FirstDestination ==  \* fault: the first message's destination stands for all
    IF command.destination # {} THEN command.destination
    ELSE IF Selected = {} THEN {} ELSE decided[Min(Selected)].msg.destination
Destination ==
    LET found == {decided[i].msg.destination : i \in Selected}
    IN  IF command.destination # {} THEN command.destination
        ELSE IF Cardinality(found) = 1 THEN ValueOf(found) ELSE {}

Finished == pc = "classify" /\ next > Len(msgs) /\ command.verb = "plan"

WritePlan ==
    /\ Finished
    /\ Selected # {} /\ Destination # {}
    /\ plan' = [ids |-> IdsOf(Selected), excluded |-> IdsOf(Excluded),
                destination |-> Destination, group |-> command.group]
    /\ pc' = "audit"
    /\ UNCHANGED <<inputs, groups, trail, commands, command, msgs, next,
                   decided, jev, calls, cache>>

\* Nothing selected, or no single destination.
PlanFails ==
    /\ Finished
    /\ Selected = {} \/ Destination = {}
    /\ Return
    /\ UNCHANGED <<inputs, results, commands, command>>

\* The file cannot be opened and the plan of an earlier command stays, or it
\* is truncated and not written, and there is none.
WritePlanFails ==
    /\ Finished
    /\ Selected # {} /\ Destination # {}
    /\ plan' \in {plan, NoPlan}
    /\ Return
    /\ UNCHANGED <<inputs, groups, trail, commands, command>>

\* The plan's audit row says how many calls Jev answered.
AuditPlan ==
    /\ pc = "audit"
    /\ trail' = Append(trail, [plan |-> plan, calls |-> calls])
    /\ Return
    /\ UNCHANGED <<inputs, groups, plan, commands, command>>

\* The store fails after the plan was written: the command reports an error,
\* the plan stays.
AuditPlanFails ==
    /\ pc = "audit"
    /\ Return
    /\ UNCHANGED <<inputs, results, commands, command>>

-----------------------------------------------------------------------------

Next ==
    \/ \E c \in Commands : Start(c) \/ StartFails(c)
    \/ SkipMessage
    \/ DecideByRules
    \/ DecideFromCache
    \/ \E a \in Answers : CallJev(a)
    \/ CallJevFails
    \/ Report
    \/ WritePlan
    \/ PlanFails
    \/ WritePlanFails
    \/ AuditPlan
    \/ AuditPlanFails

Spec == Init /\ [][Next]_vars

-----------------------------------------------------------------------------
(* Properties.                                                             *)

Settings == [enabled : BOOLEAN, all : BOOLEAN, threshold : 0..100,
             maxCalls : Int]

TypeOK ==
    /\ queue \in Queues /\ profile \in Profiles
    /\ commands \in 0..MaxCommands
    /\ pc \in {"idle", "classify", "audit"}
    /\ command \in Commands
    /\ next \in 1..(Len(msgs) + 1)
    /\ Len(decided) < next
    /\ \A d \in Decisions : /\ d.class \in Classes
                            /\ d.source \in {"rules", "jev"}
                            /\ d.msg \in {msgs[i] : i \in 1..(next - 1)}
    /\ jev \in Settings
    /\ calls \in Nat
    /\ \A s \in DOMAIN cache : cache[s] \in Answers
    /\ \A g \in groups : g.class \in Classes /\ g.members # {}

\* The messages nothing but --include-do-not-replay may bring into a plan:
\* those the application marked, those whose first applicable rule says so,
\* and, unless Jev may judge every message, those the rules refuse.
Applies(i, m) == Matches(Policy[i], m) /\ ParamsSatisfied(Policy[i], m)
Marked(m) ==
    \/ m.duplicateOf
    \/ \E i \in DOMAIN Policy :
          /\ Policy[i].action = "do_not_replay" /\ Applies(i, m)
          /\ \A j \in 1..(i - 1) : ~Applies(j, m)
    \/ /\ ~jev.all
       /\ \A i \in DOMAIN Policy : ~Applies(i, m)
       /\ Classify(m) = "DO_NOT_REPLAY"

\* A marked message never enters a plan (docs/TESTING.md, "DO_NOT_REPLAY
\* messages never enter the plan"), whatever the other layers say of it.  An
\* ID two entries share is in the plan when one of them is not marked.
MarkedNeverPlanned ==
    pc = "audit" /\ ~command.include =>
        \A id \in DOMAIN plan.ids :
            \E m \in Range(msgs) : m.id = id /\ ~Marked(m)

\* Jev resolves ambiguity only (README.md, Safety model): it decides no
\* message with a duplicate header or an applicable rule, without --jev-all
\* none the rules decide, and never against its own duplicate evidence.
JevOnlyResolves ==
    \A d \in Decisions : d.source = "jev" =>
        /\ ~d.msg.duplicateOf
        /\ \A i \in DOMAIN Policy : ~Applies(i, d.msg)
        /\ jev.all \/ Classify(d.msg) = "INVESTIGATE"
        /\ cache[State(d.msg)].duplicate >= DuplicateOverride
              => d.class = "DO_NOT_REPLAY"

\* A plan of a group the analysis showed accounts for every message of the
\* group that it listed: selected, or excluded with a reason.  (By its key: two
\* entries of different groups may share an ID.)
PlanCoversItsGroup ==
    pc = "audit" /\ Given(plan.group) =>
        \A g \in groups : g.key.signature = ValueOf(plan.group) =>
            \A m \in Range(msgs) : GroupKey(m) = g.key =>
                m.id \in DOMAIN plan.ids \cup DOMAIN plan.excluded

\* Without --destination, every planned message goes back where it came from.
OneDestination ==
    pc = "audit" /\ command.destination = {} =>
        \A id \in DOMAIN plan.ids :
            \E d \in Decisions : /\ d.msg.id = id
                                /\ d.msg.destination = plan.destination

\* What planner.go:44 says of a plan with a group ID: it is narrowed to one
\* failure group.  The ID hashes the signature, which several groups share.
PlanStaysInItsGroup ==
    pc = "audit" /\ Given(plan.group) =>
        \A g, h \in groups :
            /\ DOMAIN plan.ids \cap g.members # {}
            /\ DOMAIN plan.ids \cap h.members # {}
            => g = h
=============================================================================
