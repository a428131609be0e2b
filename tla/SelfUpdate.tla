----------------------------- MODULE SelfUpdate -----------------------------
(***************************************************************************)
(* dlq self-update: resolve a release, compare it with the running version, *)
(* fetch the checksum and the archive for this platform, verify, extract,  *)
(* stage the binary beside the installed one and swap it in.  On POSIX the *)
(* swap is a rename.  On Windows a running binary cannot be replaced: a    *)
(* companion script, run after the process is started, renames it away and *)
(* moves the new one into place.                                           *)
(***************************************************************************)
EXTENDS Processes, Integers, Sequences, FiniteSets

CONSTANTS Releases,      \* what the repository has published: see AllReleases
          Installed,     \* versions the first binary may have
          Platforms,     \* subset of {"posix", "windows"}
          Dev,           \* the version of a build that is not a release
          MaxAttempts,   \* attempts of one request
          UpdateFaults   \* what may go wrong: see the actions

VARIABLES
    platform,  \* runtime.GOOS
    target,    \* the installed binary
    old,       \* <target>.old (Windows)
    image,     \* per process: the file it runs from, while it runs
    updater,   \* per process: the self-update
    staged,    \* per process: its .dlq-update-* file beside the target
    script,    \* .dlq-update.cmd: whose staged file it moves (Windows)
    runner,    \* per process: the next line of the script its cmd.exe runs
    installs,  \* history: the updates that were swapped in
    twice,     \* history: a script was written while another was there
    cut,       \* history: a script was stopped by a shutdown
    unmoved    \* history: a script failed to move the binary to an empty place

files == <<target, old, image, staged, script>>
updateVars == <<platform, files, updater, runner, installs, twice, cut, unmoved>>

\* A version: three numbers and the identifiers of a prerelease, numbers
\* (that fit an int) or words, by their rank.
Identifiers == [num : BOOLEAN, val : Nat]
Semvers     == [core : [1..3 -> Nat], pre : Seq(Identifiers)]

\* archive: there is one for the platform; sums: what checksums.txt has.
AllReleases == [tag : Semvers \cup {None}, archive : BOOLEAN,
                sums : {"listed", "unlisted", "malformed", "missing"}]

\* good: the bytes the release's checksum is of.
Binaries == [version : {r.tag : r \in Releases} \cup Installed, good : BOOLEAN]

ASSUME UpdateAssumption ==
    /\ Releases \subseteq AllReleases
    /\ Installed \subseteq Semvers \cup {Dev}
    /\ Dev \notin Semvers /\ None \notin Semvers \cup Releases \cup Binaries \cup Procs
    /\ Platforms \subseteq {"posix", "windows"}
    /\ MaxAttempts \in Nat \ {0}

Fetches  == {"resolve", "sums", "download"}
Lines    == {"del old", "ren", "del renamed", "move", "del script"}
NoUpdate == [at |-> "idle", own |-> Dev, force |-> FALSE, confirm |-> FALSE,
             release |-> None, tries |-> 0, got |-> None]

UpdateTypeOK ==
    /\ platform \in Platforms
    /\ target \in Binaries \cup {None}
    /\ old \in Binaries \cup {None}
    /\ image \in [Procs -> {"none", "target", "old"}]
    /\ updater \in [Procs -> [at : Fetches \cup {"idle", "plan", "verify", "stage",
                                                 "swap", "companion", "done"},
                              own : Semvers \cup {Dev}, force : BOOLEAN,
                              confirm : BOOLEAN, release : Releases \cup {None},
                              tries : 0..(MaxAttempts - 1),
                              got : Binaries \cup {None}]]
    /\ staged \in [Procs -> Binaries \cup {None}]
    /\ script \in Procs \cup {None}
    /\ runner \in [Procs -> Lines \cup {"none"}]
    /\ installs \subseteq [own : Semvers \cup {Dev}, tag : Semvers, force : BOOLEAN]
    /\ twice \in BOOLEAN /\ cut \in BOOLEAN /\ unmoved \in BOOLEAN

UpdateInit ==
    /\ platform \in Platforms
    /\ \E v \in Installed : target = [version |-> v, good |-> TRUE]
    /\ old = None /\ script = None
    /\ image = [p \in Procs |-> "none"]
    /\ updater = [p \in Procs |-> NoUpdate]
    /\ staged = [p \in Procs |-> None]
    /\ runner = [p \in Procs |-> "none"]
    /\ installs = {} /\ twice = FALSE /\ cut = FALSE /\ unmoved = FALSE

-----------------------------------------------------------------------------
(* semver.Compare.                                                         *)

CmpInt(a, b) == IF a < b THEN -1 ELSE IF a > b THEN 1 ELSE 0

\* The first comparison that is not 0 decides.
FirstNonZero(c) ==
    LET nz == {i \in DOMAIN c : c[i] # 0}
    IN IF nz = {} THEN 0 ELSE c[CHOOSE i \in nz : \A j \in nz : i <= j]

\* Numbers sort before words.
WordsCompared(x, y) == CmpInt(x.val, y.val)  \* fault: numbers sort as words do
CmpPreIdentifier(x, y) ==
    IF x.num = y.num THEN CmpInt(x.val, y.val) ELSE IF x.num THEN -1 ELSE 1

\* A version without a prerelease sorts after its prereleases.
CmpPrerelease(s, t) ==
    IF s = <<>> \/ t = <<>> THEN -CmpInt(Len(s), Len(t))
    ELSE LET both == 1..(IF Len(s) < Len(t) THEN Len(s) ELSE Len(t))
             c == FirstNonZero([i \in both |-> CmpPreIdentifier(s[i], t[i])])
         IN IF c # 0 THEN c ELSE CmpInt(Len(s), Len(t))

Compare(v, w) == FirstNonZero([i \in 1..4 |->
    IF i = 4 THEN CmpPrerelease(v.pre, w.pre) ELSE CmpInt(v.core[i], w.core[i])])

\* UpdateAvailable: a build that is no release is older than any.
UpdateAvailable(current, latest) ==
    IF current = Dev THEN current # latest ELSE Compare(current, latest) < 0

-----------------------------------------------------------------------------
(* One update.                                                             *)

Goes(p, at) == updater' = [updater EXCEPT ![p].at = at, ![p].tries = 0]
Stops(p) == updater' = [updater EXCEPT ![p] = [NoUpdate EXCEPT !.at = "done"]]

InUse(f) == \E p \in Procs : image[p] = f

BeginUpdate(p, force, confirm) ==
    /\ updater[p].at = "idle" /\ target # None
    /\ updater' = [updater EXCEPT ![p].at = "resolve", ![p].own = target.version,
                                  ![p].force = force, ![p].confirm = confirm]
    /\ UNCHANGED <<platform, target, old, staged, script, runner, installs, twice, cut, unmoved>>

\* get: a transient failure is tried again.
OnceMore(p) ==  \* fault: the attempts are counted from one too few
    /\ "network" \in UpdateFaults
    /\ updater[p].at \in Fetches /\ updater[p].tries < MaxAttempts
    /\ updater' = [updater EXCEPT ![p].tries = @ + 1]
    /\ UNCHANGED <<platform, files, runner, installs, twice, cut, unmoved>>
FetchAgain(p) ==
    /\ "network" \in UpdateFaults
    /\ updater[p].at \in Fetches /\ updater[p].tries + 1 < MaxAttempts
    /\ updater' = [updater EXCEPT ![p].tries = @ + 1]
    /\ UNCHANGED <<platform, files, runner, installs, twice, cut, unmoved>>

\* The attempts are used up, or the answer is an error.
FetchFails(p) ==
    /\ "network" \in UpdateFaults
    /\ updater[p].at \in Fetches
    /\ Stops(p)
    /\ UNCHANGED <<platform, files, runner, installs, twice, cut, unmoved>>

\* Resolve: the latest release, or the one --version names.
Resolve(p) ==
    /\ updater[p].at = "resolve"
    /\ \E r \in Releases :
          IF r.tag = None THEN Stops(p)
          ELSE updater' = [updater EXCEPT ![p].at = "plan", ![p].release = r,
                                          ![p].tries = 0]
    /\ UNCHANGED <<platform, files, runner, installs, twice, cut, unmoved>>

\* Plan, and the guards of the command before it downloads anything.
Wanted(u) == u.force \/ UpdateAvailable(u.own, u.release.tag)
Plan(p) ==
    LET u == updater[p] IN
    /\ u.at = "plan"
    /\ \/ u.release.archive /\ Wanted(u) /\ u.confirm /\ Goes(p, "sums")
       \/ Stops(p)  \* not wanted or not confirmed, or declined when asked
    /\ UNCHANGED <<platform, files, runner, installs, twice, cut, unmoved>>

\* checksumFor.
Checksum(p) ==
    /\ updater[p].at = "sums"
    /\ IF updater[p].release.sums = "listed" THEN Goes(p, "download") ELSE Stops(p)
    /\ UNCHANGED <<platform, files, runner, installs, twice, cut, unmoved>>

\* downloadToTemp: the archive, or one damaged or replaced on the way.
Download(p) ==
    /\ updater[p].at = "download"
    /\ \E good \in BOOLEAN :
          /\ good \/ "damage" \in UpdateFaults
          /\ updater' = [updater EXCEPT ![p].at = "verify", ![p].tries = 0,
                            ![p].got = [version |-> updater[p].release.tag,
                                        good |-> good]]
    /\ UNCHANGED <<platform, files, runner, installs, twice, cut, unmoved>>

\* The checksum, then extractBinary.
HashUnchecked(u) == u.got # None  \* fault: the hash is not compared
Verified(u) == u.got.good
Verify(p) ==
    /\ updater[p].at = "verify"
    /\ \/ Verified(updater[p]) /\ Goes(p, "stage")
       \/ ~Verified(updater[p]) /\ Stops(p)
       \/ "extract" \in UpdateFaults /\ Stops(p)
    /\ UNCHANGED <<platform, files, runner, installs, twice, cut, unmoved>>

\* installBinary: the new binary is written beside the target, or not.
Stage(p) ==
    /\ updater[p].at = "stage"
    /\ \/ /\ staged' = [staged EXCEPT ![p] = updater[p].got]
          /\ Goes(p, "swap")
       \/ /\ "disk" \in UpdateFaults
          /\ Stops(p) /\ UNCHANGED staged
    /\ UNCHANGED <<platform, target, old, image, script, runner, installs, twice, cut, unmoved>>

Swapped(p, content) ==
    /\ target' = content
    /\ installs' = installs \cup {[own |-> updater[p].own, tag |-> content.version,
                                   force |-> updater[p].force]}
    /\ staged' = [staged EXCEPT ![p] = None]

\* replaceBinary: one rename, over the target.
RemoveFirst(p) ==  \* fault: the target is removed before the rename
    /\ updater[p].at = "swap"
    /\ IF target # None
       THEN target' = None /\ UNCHANGED <<staged, installs, updater>>
       ELSE Swapped(p, staged[p]) /\ Stops(p)
    /\ UNCHANGED <<platform, old, image, script, runner, twice, cut, unmoved>>
Rename(p) ==
    /\ updater[p].at = "swap"
    /\ platform = "posix" \/ target = None \/ ~InUse("target")
    /\ Swapped(p, staged[p])
    /\ Stops(p)
    /\ UNCHANGED <<platform, old, image, script, runner, twice, cut, unmoved>>

\* The rename fails: on POSIX that is an error.  On Windows the script is
\* written, over one that is there; if that fails too, the script is left as
\* it was or without a line.
RenameFails(p) ==
    /\ updater[p].at = "swap"
    /\ \/ /\ "disk" \in UpdateFaults
          /\ staged' = [staged EXCEPT ![p] = None]
          /\ script' \in {script, None}
          /\ twice' = (twice \/ script' # script)
          /\ Stops(p)
       \/ /\ platform = "windows" /\ (InUse("target") \/ "disk" \in UpdateFaults)
          /\ script' = p
          /\ twice' = (twice \/ script # None)
          /\ Goes(p, "companion")
          /\ UNCHANGED staged
    /\ UNCHANGED <<platform, target, old, image, runner, installs, cut, unmoved>>

\* cmd.exe is started, or is not.
Launch(p) ==
    /\ updater[p].at = "companion"
    /\ \/ /\ runner' = [runner EXCEPT ![p] = "del old"]
          /\ Goes(p, "done")
          /\ UNCHANGED <<script, staged>>
       \/ /\ "launch" \in UpdateFaults
          /\ script' = None
          /\ staged' = [staged EXCEPT ![p] = None]
          /\ Stops(p)
          /\ UNCHANGED runner
    /\ UNCHANGED <<platform, target, old, image, installs, twice, cut, unmoved>>

\* The script it wrote stays, and what that may still swap in.
UpdaterDies(p) ==
    /\ "crash" \in UpdateFaults /\ updater[p].at \notin {"idle", "done"}
    /\ IF updater[p].at = "companion" THEN Goes(p, "done") ELSE Stops(p)
    /\ UNCHANGED <<platform, files, runner, installs, twice, cut, unmoved>>

UpdaterStep(p) == \/ FetchAgain(p) \/ FetchFails(p) \/ Resolve(p) \/ Plan(p)
                  \/ Checksum(p) \/ Download(p) \/ Verify(p) \/ Stage(p)
                  \/ Rename(p) \/ RenameFails(p) \/ Launch(p)

-----------------------------------------------------------------------------
(* The companion script, run line by line from the file: a line is read    *)
(* when it is due, so a runner goes on in a script that was replaced and   *)
(* stops when there is none.  A failed del or move goes unnoticed.         *)

At(p, line) == runner[p] = line /\ script # None
NextLine(p, line) == runner' = [runner EXCEPT ![p] = line]

\* del does not remove a binary that runs, or fails.
DelOld(p, line, next) ==
    /\ At(p, line)
    /\ \/ old' = None /\ ~InUse("old")
       \/ old' = old /\ (InUse("old") \/ "disk" \in UpdateFaults)
    /\ NextLine(p, next)
    /\ UNCHANGED <<platform, target, image, staged, script, updater, installs, twice, cut, unmoved>>

\* ren fails, and is tried again, while there is no target, something has
\* the new name, or the system holds on to a binary that runs.
Ren(p) ==
    /\ At(p, "ren")
    /\ target # None /\ old = None
    /\ old' = target /\ target' = None
    /\ image' = [q \in Procs |-> IF image[q] = "target" THEN "old" ELSE image[q]]
    /\ NextLine(p, "del renamed")
    /\ UNCHANGED <<platform, staged, script, updater, installs, twice, cut, unmoved>>

\* move fails, and nobody notices, if its file is gone, the target runs, or
\* the system refuses (permissions, a scanner that holds the file).
Movable == staged[script] # None /\ (target = None \/ ~InUse("target"))
MoveNew(p) ==
    /\ At(p, "move")
    /\ \/ Movable /\ Swapped(script, staged[script]) /\ UNCHANGED unmoved
       \/ /\ ~Movable \/ "disk" \in UpdateFaults
          /\ unmoved' = (unmoved \/ (Movable /\ target = None))
          /\ UNCHANGED <<target, staged, installs>>
    /\ NextLine(p, "del script")
    /\ UNCHANGED <<platform, old, image, script, updater, twice, cut>>

DelScript(p) ==
    /\ At(p, "del script")
    /\ \/ script' = None
       \/ "disk" \in UpdateFaults /\ UNCHANGED script
    /\ NextLine(p, "none")
    /\ UNCHANGED <<platform, target, old, image, staged, updater, installs, twice, cut, unmoved>>

\* "The batch file cannot be found."
ScriptGone(p) ==
    /\ runner[p] # "none" /\ script = None
    /\ NextLine(p, "none")
    /\ UNCHANGED <<platform, files, updater, installs, twice, cut, unmoved>>

\* The machine is shut down, or the operator logs off.
ShutDown ==
    /\ "shutdown" \in UpdateFaults
    /\ \E p \in Procs : runner[p] # "none"
    /\ runner' = [p \in Procs |-> "none"]
    /\ cut' = TRUE
    /\ UNCHANGED <<platform, files, updater, installs, twice, unmoved>>

ScriptStep(p) == \/ DelOld(p, "del old", "ren") \/ Ren(p)
                 \/ DelOld(p, "del renamed", "move")
                 \/ MoveNew(p) \/ DelScript(p) \/ ScriptGone(p)

-----------------------------------------------------------------------------
(* Properties.                                                             *)

\* What is installed, or staged by an update that got as far, has the
\* checksum its release lists, although archives are damaged, updates
\* overlap and scripts are replaced (selfupdate.go:174, install.go:45-50).
OnlyVerified ==
    /\ target # None => target.good
    /\ old # None => old.good
    /\ \A p \in Procs : staged[p] # None => staged[p].good

\* Precedence as the semantic versioning specification has it.
Lower(x, y) == \/ x.num /\ ~y.num
               \/ x.num = y.num /\ x.val < y.val
PreLower(s, t) ==
    \/ s # <<>> /\ t = <<>>
    \/ s # <<>> /\ \E i \in 1..Len(t) :
          /\ \A j \in 1..(i - 1) : j <= Len(s) /\ s[j] = t[j]
          /\ i <= Len(s) => Lower(s[i], t[i])
Precedes(v, w) ==
    \/ \E i \in 1..3 : v.core[i] < w.core[i] /\ \A j \in 1..(i - 1) : v.core[j] = w.core[j]
    \/ v.core = w.core /\ PreLower(v.pre, w.pre)

\* An update that was not forced never installed a version that does not
\* follow the one that ran it, and none that does follow it is turned down
\* as up to date (selfupdate.go:86-96, version.go:52-107).
InstallsFollow ==
    /\ \A i \in installs : i.force \/ i.own = Dev \/ Precedes(i.own, i.tag)
    /\ \A p \in Procs :
          LET u == updater[p] IN
          u.at = "plan" /\ ~u.force /\ u.own # Dev =>
              (Wanted(u) <=> Precedes(u.own, u.release.tag))

\* There is a binary to run: at any time on POSIX, and on Windows but while
\* a companion script is between its two moves, or once a script was stopped
\* by a shutdown, two updates wrote to the same script, or the system refused
\* a script's last move, which nobody notices (install.go:45,
\* replace_unix.go:9, replace_windows.go:27-43).
TargetRuns ==
    \/ target # None
    \/ /\ platform = "windows"
       /\ \/ \E p \in Procs : runner[p] \in {"del renamed", "move"}
          \/ twice \/ cut \/ unmoved
=============================================================================
