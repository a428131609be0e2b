----------------------------- MODULE Classifier -----------------------------
(***************************************************************************)
(* How a failed message gets its class: the rule-based classifier          *)
(* (internal/recovery/classifier.go), the policy rules that override it    *)
(* (internal/policy) and the Jev verdict that may resolve what the rules   *)
(* leave open (internal/jev/mapper.go).                                    *)
(*                                                                         *)
(* A text is the set of its words, so that "contains" is inclusion.  A     *)
(* number in a failure text is one of its words: the keyword lists name    *)
(* some of them ("503", "404"), the failure signature forgets which it was.*)
(***************************************************************************)
EXTENDS Integers, Sequences, FiniteSets, SequencesExt

CONSTANTS
    DuplicateWords,  \* dupKeywords
    TransientWords,  \* transientKeywords
    PermanentWords,  \* permanentKeywords
    Numbers,         \* the words a signature collapses to a placeholder
    HighRetry,       \* highRetry
    DefaultThreshold,   \* jev.DefaultThreshold, in percent
    DuplicateOverride   \* jev.DuplicateOverride, in percent

ASSUME ClassifierAssumption ==
    /\ HighRetry \in Nat
    /\ DefaultThreshold \in 1..100 /\ DuplicateOverride \in 1..100

Classes == {"REPLAYABLE", "REQUIRES_FIX", "DO_NOT_REPLAY", "INVESTIGATE"}

-----------------------------------------------------------------------------
(* Rules.                                                                  *)

\* hasAny over a failure text.
HasAny(m, words) == m.reason \cap words # {}

\* Classify: the header, then the words of the failure text.
Classify(m) ==
    LET dup       == m.duplicateOf \/ HasAny(m, DuplicateWords)
        transient == HasAny(m, TransientWords)
        permanent == HasAny(m, PermanentWords)
    IN  CASE dup -> "DO_NOT_REPLAY"
          [] ~dup /\ transient /\ ~permanent /\ m.retries < HighRetry
               -> "REPLAYABLE"
          [] ~dup /\ permanent /\ ~transient -> "REQUIRES_FIX"
          [] OTHER -> "INVESTIGATE"

\* NormalizeSignature: every number becomes the same placeholder.
NormalizeSignature(reason) ==
    (reason \ Numbers) \cup (IF reason \cap Numbers = {} THEN {} ELSE {"{n}"})

\* retryBucket.
RetryBucket(retries) ==
    CASE retries <= 0 -> "0"
      [] retries \in 1..2 -> "1-2"
      [] retries \in 3..5 -> "3-5"
      [] OTHER -> "6+"

-----------------------------------------------------------------------------
(* Policies: a file is an ordered list of rules, loaded as a whole.        *)

TextOps   == {"==", "!=", "contains"}
NumberOps == {"==", "!=", ">", ">=", "<", "<="}
Actions   == {"replay", "require_fix", "do_not_replay"}

\* parseCondition and parseParams accept the rule.
RuleParses(r) ==
    /\ \/ r.field \in {"error", "event_type", "destination"} /\ r.op \in TextOps
       \/ r.field = "retries" /\ r.op \in NumberOps
    /\ r.action \in Actions
    /\ \A n \in r.maxRetries : n >= 0

\* Parse: a file with a broken rule, or without rules, is refused wholesale.
PolicyParses(rules) ==
    rules # <<>> /\ \A i \in DOMAIN rules : RuleParses(rules[i])

\* matchText.
MatchText(text, op, value) ==
    \/ op = "==" /\ text = value
    \/ op = "!=" /\ text # value
    \/ op = "contains" /\ value \subseteq text

\* The comparisons of condition.matches for retries.
MatchNumber(retries, op, n) ==
    \/ op = "==" /\ retries = n
    \/ op = "!=" /\ retries # n
    \/ op = ">"  /\ retries > n
    \/ op = ">=" /\ retries >= n
    \/ op = "<"  /\ retries < n
    \/ op = "<=" /\ retries <= n

\* condition.matches.
Matches(r, m) ==
    \/ r.field = "error" /\ MatchText(m.reason, r.op, r.text)
    \/ r.field = "event_type" /\ MatchText(m.event, r.op, r.text)
    \/ r.field = "destination" /\ MatchText(m.destination, r.op, r.text)
    \/ r.field = "retries" /\ MatchNumber(m.retries, r.op, r.number)

\* paramsSatisfied; no element of maxRetries is the nil pointer.
ParamsSatisfied(r, m) ==
    /\ \A n \in r.maxRetries : m.retries <= n
    /\ r.requireKey => m.hasKey

\* Policy.Match: the index of the first rule that applies, 0 without one.
Match(rules, m) ==
    SelectInSeq(rules, LAMBDA r : Matches(r, m) /\ ParamsSatisfied(r, m))

ActionClass(action) ==
    CASE action = "replay" -> "REPLAYABLE"
      [] action = "require_fix" -> "REQUIRES_FIX"
      [] action = "do_not_replay" -> "DO_NOT_REPLAY"

\* ClassifyWithPolicy: the header outranks the policy, the policy the rules.
HeaderLast(m, rules) ==  \* fault: a rule overrides the duplicate header
    IF Match(rules, m) = 0 THEN Classify(m)
    ELSE ActionClass(rules[Match(rules, m)].action)
ClassifyWithPolicy(m, rules) ==
    IF m.duplicateOf \/ Match(rules, m) = 0 THEN Classify(m)
    ELSE ActionClass(rules[Match(rules, m)].action)

-----------------------------------------------------------------------------
(* Jev.                                                                    *)

\* BuildMessageState: the metadata of a message Jev is asked about.
State(m) == [error |-> m.reason, retries |-> m.retries,
             destination |-> m.destination, event |-> m.event,
             shape |-> m.shape]

JevChoices == {"replayable", "requires_fix", "do_not_replay", "investigate"}

\* jevChoiceToClassification.
ChoiceClass(choice) ==
    CASE choice = "replayable" -> "REPLAYABLE"
      [] choice = "requires_fix" -> "REQUIRES_FIX"
      [] choice = "do_not_replay" -> "DO_NOT_REPLAY"
      [] OTHER -> "INVESTIGATE"

Clamp(n) == IF n < 0 THEN 0 ELSE IF n > 100 THEN 100 ELSE n

\* MapResponse: duplicate evidence replaces any other choice, with its own
\* probability as the confidence when that is higher.
Verdict(a) ==
    LET own    == Clamp(IF a.confidence <= 0 THEN a.best ELSE a.confidence)
        dup    == Clamp(a.duplicate)
        forced == dup >= DuplicateOverride /\ a.choice # "do_not_replay"
    IN  [choice     |-> IF forced THEN "do_not_replay" ELSE a.choice,
         confidence |-> IF forced /\ dup > own THEN dup ELSE own]

\* MapResponse's ok: a known choice, and a confidence that is high enough.
\* An answer without a classification has the choice "missing".
Usable(a, threshold) ==
    /\ a.choice \in JevChoices
    /\ Verdict(a).confidence >= threshold

\* The class a response leads to: the verdict's, or the rules' without one.
Resolve(base, a, threshold) ==
    IF Usable(a, threshold) THEN ChoiceClass(Verdict(a).choice) ELSE base
=============================================================================
