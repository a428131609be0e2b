----------------------------- MODULE ConfigFile -----------------------------
(***************************************************************************)
(* ~/.dlq/config.yaml and the commands that read or change it: connect, jev *)
(* enable, jev disable, policy apply, and the commands that only resolve a *)
(* profile: inspect and search connect with it and mask the payload fields *)
(* it lists.  A change is a load, a modification and a save; the file is   *)
(* not locked, and a save truncates it before it writes.                   *)
(***************************************************************************)
EXTENDS Processes, Integers, Sequences, FiniteSets

CONSTANTS Names,         \* profile names
          Urls, Policies,
          Commands,      \* the commands that may be run: see AllCommands
          ConfigFaults   \* subset of {"write", "crash"}

VARIABLES
    file,      \* the configuration file
    editor,    \* per process: the command that uses the file
    initial,   \* history: the document the operators started with
    log,       \* history: the changes that were acknowledged
    disturbed, \* history: two changes overlapped, or one was cut short
    torn       \* history: the file has held part of a document

configVars == <<file, editor, initial, log, disturbed, torn>>

\* tuned: the profile stores settings an operator passed to jev enable.
Jevs     == [enabled : BOOLEAN, tuned : BOOLEAN]
\* masked: the profile lists sensitive_fields, which operators write by hand.
Profiles == [url : Urls, masked : BOOLEAN, policy : Policies \cup {None},
             jev : Jevs \cup {None}]
Docs     == [default : Names \cup {None},
             profiles : [Names -> Profiles \cup {None}]]
Defaults == [default |-> None, profiles |-> [n \in Names |-> None]]

\* name is None when the command takes default_profile.
AllCommands ==
    [op : {"connect"}, name : Names, url : Urls]
    \cup [op : {"enable"}, name : Names \cup {None}, tuned : BOOLEAN]
    \cup [op : {"disable", "use"}, name : Names \cup {None}]
    \cup [op : {"apply"}, name : Names \cup {None}, policy : Policies]

ASSUME ConfigAssumption ==
    /\ Commands \subseteq AllCommands
    /\ None \notin Names \cup Policies \cup Profiles \cup Jevs \cup Docs
    /\ ConfigFaults \subseteq {"write", "crash"}

Stages  == {"idle", "load", "save", "write", "using", "done"}
NoEditor == [at |-> "idle", cmd |-> None, name |-> None, doc |-> None]

ConfigTypeOK ==
    /\ file \in [kind : {"missing", "empty", "doc", "torn"}, doc : Docs \cup {None}]
    /\ file.kind = "doc" => file.doc # None
    /\ editor \in [Procs -> [at : Stages, cmd : Commands \cup {None},
                             name : Names \cup {None}, doc : Docs \cup {None}]]
    /\ \A p \in Procs : editor[p].at \in {"save", "write", "using"}
                          => editor[p].doc # None /\ editor[p].name # None
    /\ initial \in Docs
    /\ log \in Seq([cmd : Commands, name : Names])
    /\ Len(log) <= Cardinality(Procs)
    /\ disturbed \in BOOLEAN /\ torn \in BOOLEAN

\* A first run, or a profile with its fields, its policy and its Jev settings.
ConfigInit ==
    /\ \/ file = [kind |-> "missing", doc |-> None] /\ initial = Defaults
       \/ \E n \in Names, u \in Urls, pol \in Policies, jev \in Jevs \cup {None} :
             /\ initial = [Defaults EXCEPT !.default = n,
                   !.profiles[n] = [url |-> u, masked |-> TRUE, policy |-> pol,
                                    jev |-> jev]]
             /\ file = [kind |-> "doc", doc |-> initial]
    /\ editor = [p \in Procs |-> NoEditor]
    /\ log = <<>> /\ disturbed = FALSE /\ torn = FALSE

-----------------------------------------------------------------------------
(* Load and Save.                                                          *)

\* A document that was cut short parses as its beginning, in which one
\* profile may lack its later settings, or not at all.
Bare(pr) == [pr EXCEPT !.masked = FALSE, !.policy = None, !.jev = None]
Cuts(d) ==
    LET Kept(S) == [n \in Names |-> IF n \in S THEN d.profiles[n] ELSE None]
        whole == {[d EXCEPT !.profiles = Kept(S)] : S \in SUBSET Names}
        Bared(e) == {[e EXCEPT !.profiles[n] = Bare(@)] :
                        n \in {m \in Names : e.profiles[m] # None}}
    IN whole \cup UNION {Bared(e) : e \in whole}

\* What Load may return: a file that is missing or empty is a first run, and
\* None stands for an error.
Loaded == CASE file.kind \in {"missing", "empty"} -> {Defaults}
            [] file.kind = "doc"  -> {file.doc}
            [] file.kind = "torn" -> Cuts(file.doc) \cup {None}

\* Config.Profile: the named profile, or the default one.
NameOf(d, name) == IF name = None THEN d.default ELSE name
EmptyProfile(d, name) ==  \* fault: a profile that is not there is an empty one
    LET n == NameOf(d, name)
    IN IF n = None THEN None
       ELSE IF d.profiles[n] = None
            THEN [url |-> CHOOSE u \in Urls : TRUE, masked |-> FALSE,
                  policy |-> None, jev |-> None]
            ELSE d.profiles[n]
Profile(d, name) ==
    IF NameOf(d, name) = None THEN None ELSE d.profiles[NameOf(d, name)]

-----------------------------------------------------------------------------
(* The changes the commands make to a document.                            *)

\* connect replaces the profile, and what was bound to it.
Connected(d, c) ==
    [d EXCEPT !.profiles[c.name] = [url |-> c.url, masked |-> FALSE,
                                    policy |-> None, jev |-> None],
              !.default = IF @ = None THEN c.name ELSE @]

\* jev enable stores only the settings it was given.
FlagDefaults(d, c) ==  \* fault: the defaults of the flags are stored too
    [d EXCEPT !.profiles[NameOf(d, c.name)].jev =
        [enabled |-> TRUE, tuned |-> c.tuned]]
Enabled(d, c) ==
    [d EXCEPT !.profiles[NameOf(d, c.name)].jev =
        [enabled |-> TRUE, tuned |-> c.tuned \/ (@ # None /\ @.tuned)]]

Disabled(d, c) ==
    [d EXCEPT !.profiles[NameOf(d, c.name)].jev.enabled = FALSE]

Applied(d, c) == [d EXCEPT !.profiles[NameOf(d, c.name)].policy = c.policy]

Changed(d, c) == CASE c.op = "connect" -> Connected(d, c)
                   [] c.op = "enable"  -> Enabled(d, c)
                   [] c.op = "disable" -> Disabled(d, c)
                   [] c.op = "apply"   -> Applied(d, c)

\* Nothing to change: disable finds Jev off already.
AlreadyOff(d, c) ==
    c.op = "disable" /\ LET j == Profile(d, c.name).jev IN j # None => ~j.enabled

\* Every command but connect is about a profile that is there.
Finds(d, c) == c.op = "connect" \/ Profile(d, c.name) # None

-----------------------------------------------------------------------------
(* The steps of a command.                                                 *)

Step(p, at) == editor' = [editor EXCEPT ![p].at = at]
Ends(p) == editor' = [editor EXCEPT ![p] = [NoEditor EXCEPT !.at = "done"]]

\* connect has checked its flags, apply has parsed its policy.
Begin(p, c) ==
    /\ editor[p].at = "idle"
    /\ editor' = [editor EXCEPT ![p].at = "load", ![p].cmd = c]
    /\ UNCHANGED <<file, initial, log, disturbed, torn>>

Changing(q) == editor[q].at \in {"save", "write"}

LoadChange(p) ==
    /\ editor[p].at = "load" /\ editor[p].cmd.op # "use"
    /\ \E d \in Loaded \ {None} :
          LET c == editor[p].cmd IN
          /\ Finds(d, c) /\ ~AlreadyOff(d, c)
          /\ editor' = [editor EXCEPT ![p].at = "save",
                           ![p].name = NameOf(d, c.name), ![p].doc = Changed(d, c)]
    /\ disturbed' = (disturbed \/ \E q \in Procs \ {p} : Changing(q))
    /\ UNCHANGED <<file, initial, log, torn>>

\* openBroker.
LoadUse(p) ==
    /\ editor[p].at = "load" /\ editor[p].cmd.op = "use"
    /\ \E d \in Loaded \ {None} :
          /\ Finds(d, editor[p].cmd)
          /\ editor' = [editor EXCEPT ![p].at = "using",
                           ![p].name = NameOf(d, editor[p].cmd.name), ![p].doc = d]
    /\ UNCHANGED <<file, initial, log, disturbed, torn>>

\* Redactor.Apply: what inspect and search show until they end, payloads with
\* every field, or without those the profile they have loaded lists.
ShownWhole(p) ==
    editor[p].at = "using" /\ ~Profile(editor[p].doc, editor[p].name).masked

\* The file does not parse, the profile is not there, or Jev is off already.
LoadEnds(p) ==
    /\ editor[p].at = "load"
    /\ \E d \in Loaded : \/ d = None
                         \/ d # None /\ ~Finds(d, editor[p].cmd)
                         \/ d # None /\ Finds(d, editor[p].cmd)
                                     /\ AlreadyOff(d, editor[p].cmd)
    /\ Ends(p)
    /\ UNCHANGED <<file, initial, log, disturbed, torn>>

\* os.WriteFile opens the file with O_TRUNC ...
Truncate(p) ==
    /\ editor[p].at = "save"
    /\ file' = [kind |-> "empty", doc |-> None]
    /\ Step(p, "write")
    /\ UNCHANGED <<initial, log, disturbed, torn>>

\* ... and writes from its start: over what another process wrote since,
\* the end of which stays when it is longer.
Write(p) ==
    /\ editor[p].at = "write"
    /\ \/ file' = [kind |-> "doc", doc |-> editor[p].doc] /\ UNCHANGED torn
       \/ /\ file.kind # "empty"
          /\ file' = [kind |-> "torn", doc |-> editor[p].doc] /\ torn' = TRUE
    /\ log' = Append(log, [cmd |-> editor[p].cmd, name |-> editor[p].name])
    /\ Ends(p)
    /\ UNCHANGED <<initial, disturbed>>

\* The disk is full: a part is written, and the command says so.
WriteFails(p) ==
    /\ "write" \in ConfigFaults /\ editor[p].at = "write"
    /\ file' = [kind |-> "torn", doc |-> editor[p].doc]
    /\ torn' = TRUE /\ disturbed' = TRUE
    /\ Ends(p)
    /\ UNCHANGED <<initial, log>>

\* The profile has been used.
UseEnds(p) ==
    /\ editor[p].at = "using"
    /\ Ends(p)
    /\ UNCHANGED <<file, initial, log, disturbed, torn>>

EditorDies(p) ==
    /\ "crash" \in ConfigFaults /\ editor[p].at \notin {"idle", "done"}
    /\ disturbed' = (disturbed \/ editor[p].at = "write")
    /\ Ends(p)
    /\ UNCHANGED <<file, initial, log, torn>>

EditorStep(p) == \/ LoadChange(p) \/ LoadUse(p) \/ LoadEnds(p)
                 \/ Truncate(p) \/ Write(p) \/ WriteFails(p) \/ UseEnds(p)

-----------------------------------------------------------------------------
(* Properties.                                                             *)

\* What the acknowledged changes amount to, for one profile: the last of a
\* kind counts, and connect starts it anew.
Logged(n, ops) == {i \in 1..Len(log) : log[i].name = n /\ log[i].cmd.op \in ops}
Latest(S) == IF S = {} THEN 0 ELSE CHOOSE i \in S : \A j \in S : j <= i
Since(n, ops) == {i \in Logged(n, ops) : i > Latest(Logged(n, {"connect"}))}

AsLogged(n, pr) ==
    LET k   == Latest(Logged(n, {"connect"}))
        was == IF k = 0 THEN initial.profiles[n] ELSE None
        pol == Latest(Since(n, {"apply"}))
        sw  == Latest(Since(n, {"enable", "disable"}))
    IN IF k = 0 /\ was = None THEN pr = None
       ELSE /\ pr # None
            /\ pr.url = IF k = 0 THEN was.url ELSE log[k].cmd.url
            /\ pr.policy = IF pol # 0 THEN log[pol].cmd.policy
                           ELSE IF k = 0 THEN was.policy ELSE None
            /\ sw # 0 => pr.jev # None /\ pr.jev.enabled = (log[sw].cmd.op = "enable")
            /\ sw = 0 => pr.jev = IF k = 0 THEN was.jev ELSE None
            /\ pr.jev # None =>
                 pr.jev.tuned =
                   \/ \E i \in Since(n, {"enable"}) : log[i].cmd.tuned
                   \/ k = 0 /\ was.jev # None /\ was.jev.tuned

\* Every change a command acknowledged is in the file until another command
\* changes the same setting, and no setting changes otherwise, unless two
\* changes overlapped or one was cut short (config.go:77, jev.go:83,
\* connect.go:70).
ChangesSurvive ==
    ~disturbed /\ (\A p \in Procs : editor[p].at # "write") =>
        /\ file.kind \in {"missing", "doc"}
        /\ LET d == IF file.kind = "doc" THEN file.doc ELSE Defaults
           IN \A n \in Names : AsLogged(n, d.profiles[n])

\* inspect or search (without --show-sensitive) shows no payload with the
\* fields the owner of the profile listed, although it reads the file while
\* others save: it masks the fields, or it stops.  Only a new connect, or a
\* file that has been cut short, takes them away (config.go:59-64, 91-103,
\* broker.go:22-30, inspect.go:56-58, search.go:76-81).
FieldsStayMasked ==
    \A p \in Procs :
        ShownWhole(p) =>
            LET n == editor[p].name
                was == initial.profiles[n]
            IN \/ was # None /\ ~was.masked
               \/ Logged(n, {"connect"}) # {}
               \/ torn
=============================================================================
