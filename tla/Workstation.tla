----------------------------- MODULE Workstation -----------------------------
(***************************************************************************)
(* One operator's machine: commands that use the configuration file and     *)
(* self-updates run at the same time, each in a process of its own that is *)
(* started from the binary that is installed then, and keeps its file in   *)
(* use until it exits.                                                     *)
(***************************************************************************)
EXTENDS ConfigFile, SelfUpdate

vars == <<configVars, updateVars>>

Init == ConfigInit /\ UpdateInit

TypeOK == ConfigTypeOK /\ UpdateTypeOK

NotStarted(p) == editor[p].at = "idle" /\ updater[p].at = "idle"

Started(p) == target # None /\ NotStarted(p) /\ image' = [image EXCEPT ![p] = "target"]

StartCommand(p) ==
    /\ Started(p)
    /\ \E c \in Commands : Begin(p, c)
    /\ UNCHANGED <<platform, target, old, updater, staged, script, runner,
                   installs, twice, cut, unmoved>>

StartUpdate(p) ==
    /\ Started(p)
    /\ \E force, confirm \in BOOLEAN : BeginUpdate(p, force, confirm)
    /\ UNCHANGED configVars

Work(p) == \/ EditorStep(p) /\ UNCHANGED updateVars
           \/ UpdaterStep(p) /\ UNCHANGED configVars

Dies(p) == \/ EditorDies(p) /\ UNCHANGED updateVars
           \/ UpdaterDies(p) /\ UNCHANGED configVars

\* The process is gone, and its binary no longer in use.
Exit(p) ==
    /\ "done" \in {editor[p].at, updater[p].at} /\ image[p] # "none"
    /\ image' = [image EXCEPT ![p] = "none"]
    /\ UNCHANGED <<configVars, platform, target, old, updater, staged, script,
                   runner, installs, twice, cut, unmoved>>

Companion == \/ \E p \in Procs : ScriptStep(p)
             \/ ShutDown

Next == \/ \E p \in Procs : StartCommand(p) \/ StartUpdate(p) \/ Work(p)
                            \/ Dies(p) \/ Exit(p)
        \/ Companion /\ UNCHANGED configVars

Spec == Init /\ [][Next]_vars
=============================================================================
