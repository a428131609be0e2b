----------------------------- MODULE MCPlanning -----------------------------
(* Instances of Planning for TLC.                                          *)
EXTENDS Planning

\* A message of the dead-letter queue that failed with these words.
Failed(id, reason, retries) ==
    [id |-> id, duplicateOf |-> FALSE, reason |-> reason, retries |-> retries,
     destination |-> {"orders"}, event |-> {}, hasKey |-> FALSE,
     shape |-> "object"]

Timeout    == Failed("t", {"timeout"}, 0)
Persistent == Failed("p", {"timeout"}, 6)
Odd        == Failed("o", {"odd"}, 2)
OddAgain   == [Odd EXCEPT !.id = "o2"]
Billing    == [Timeout EXCEPT !.id = "b", !.destination = {"billing"}]
Marked503  == [Failed("m", {"503"}, 0) EXCEPT !.duplicateOf = TRUE]
Gateway503 == [Failed("g", {"gateway", "503"}, 1) EXCEPT !.hasKey = TRUE]
Gateway404 == Failed("h", {"gateway", "404"}, 1)
Already    == Failed("a", {"already", "timeout"}, 0)
Silent     == [Failed("s", {}, 0) EXCEPT !.destination = {}]
Twin       == [Already EXCEPT !.id = "o"]

\* Two groups with one signature; messages Jev cannot tell apart; a group of
\* mixed classes; two destinations; entries that share an ID.
MCQueues ==
    {<<Timeout, Persistent, Already>>, <<Odd, OddAgain, Persistent>>,
     <<Gateway503, Gateway404, Marked503>>, <<Timeout, Billing, Silent>>,
     <<Odd, Twin, Timeout>>}

Rule == [field |-> "error", op |-> "contains", text |-> {"timeout"},
         number |-> 0, action |-> "do_not_replay", maxRetries |-> {},
         requireKey |-> FALSE]
\* Rules that overlap, so that their order and their parameters matter.
Overlapping ==
    <<[Rule EXCEPT !.maxRetries = {2}, !.requireKey = TRUE],
      [Rule EXCEPT !.field = "retries", !.op = ">=", !.number = 6],
      [Rule EXCEPT !.action = "replay", !.text = {"503"}],
      [Rule EXCEPT !.field = "destination", !.op = "!=", !.text = {"orders"},
                   !.action = "require_fix"]>>

JevOn == [enabled |-> TRUE, all |-> FALSE, threshold |-> 0, maxCalls |-> 0]
MCProfiles ==
    {[bound |-> FALSE, rules |-> <<>>, jev |-> NoJev],
     [bound |-> FALSE, rules |-> <<>>, jev |-> JevOn],
     [bound |-> TRUE, rules |-> Overlapping, jev |-> JevOn],
     [bound |-> TRUE, rules |-> <<[Rule EXCEPT !.op = ">"]>>, jev |-> JevOn]}

Analyze == [verb |-> "analyze", withJev |-> FALSE, withoutJev |-> FALSE,
            jevAll |-> {}, threshold |-> {}, maxCalls |-> {}, hasKey |-> TRUE,
            group |-> {}, destination |-> {}, include |-> FALSE, limit |-> 3]
Plan == [Analyze EXCEPT !.verb = "plan"]
MCCommands ==
    {Analyze,
     [Analyze EXCEPT !.withJev = TRUE, !.threshold = {120},
                     !.maxCalls = {1}, !.limit = 2],
     Plan,
     [Plan EXCEPT !.withJev = TRUE, !.jevAll = {TRUE}, !.threshold = {90},
                  !.maxCalls = {2}],
     [Plan EXCEPT !.withoutJev = TRUE, !.include = TRUE],
     [Plan EXCEPT !.hasKey = FALSE, !.destination = {"manual"}],
     [Plan EXCEPT !.group = {{"timeout"}}, !.maxCalls = {1}],
     [Plan EXCEPT !.group = {{"gateway", "{n}"}}, !.maxCalls = {0}, !.limit = 0]}

Answer == [choice |-> "replayable", confidence |-> 85, best |-> 85,
           duplicate |-> 10]
\* A verdict, a doubtful one, one without confidence, one that contradicts
\* itself, and one that names no class.
MCAnswers ==
    {Answer,
     [Answer EXCEPT !.choice = "requires_fix", !.confidence = 60],
     [Answer EXCEPT !.choice = "investigate", !.confidence = 0],
     [Answer EXCEPT !.duplicate = 95],
     [Answer EXCEPT !.choice = "missing"]}
=============================================================================
