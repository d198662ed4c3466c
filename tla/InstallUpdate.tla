---------------------------- MODULE InstallUpdate ----------------------------
(***************************************************************************)
(* How a running dookie_server replaces itself and its client: the check   *)
(* for a release, PreparedUpdate, InstalledUpdate and its rollback in      *)
(* src/server/src/update.rs, and the update branch of main.rs around them. *)
(*                                                                         *)
(* One action is one call that may fail: a rename, an exec.  The process   *)
(* may be killed between any two.  What is on the disk stays, the list of  *)
(* replacements to roll back does not.  The unit of time is the day.       *)
(***************************************************************************)
EXTENDS Integers

CONSTANTS
    Count,      \* length of BINARIES, the server first
    MaxRelease  \* bound: releases ever published

ASSUME CountAssumption == Count \in Nat \ {0}
ASSUME MaxReleaseAssumption == MaxRelease \in Nat

Names == 1 .. Count
Server == 1
Releases == 1 .. MaxRelease

\* What is at a path: the executable of a release, or one of these.
None == 0
Other == -1    \* not a regular file
Things == Releases \cup {None, Other}

VARIABLES
    bin, bak, \* what is at each install path, and at its _bak path
    latest,   \* the newest published release
    running,  \* the release of the process, None when there is none
    pc,       \* where the process is
    want,     \* the release that is staged
    cur,      \* the executable at hand
    repl,     \* replacements: executables to restore should the update fail
    saved,    \* those of them with a backup
    undo,     \* what the rollback under way has left
    pass,     \* "first": called by install or exec; "drop": by Drop
    left,     \* days until RETRY_AFTER_ENV, 0 when it is past or not set
    rest,     \* days the process sleeps before its next check
    old,      \* history: what was at the install paths before the last install
    notice,   \* history: what the last RollbackIncomplete names
    excused,  \* history: an install was cut or not rolled back
    since     \* history: days since the last failed install, at most 1

disk == <<bin, bak>>
list == <<repl, saved, undo, pass>>
job == <<want, cur, list>>
time == <<left, rest, since>>
ghosts == <<old, notice, excused>>
vars == <<disk, latest, running, pc, job, time, ghosts>>

\* A server that was installed by hand or by an earlier update, with or without
\* a client and backups.
Init ==
    /\ running \in Releases
    /\ latest = running
    /\ bin \in [Names -> {None, Other, running}]
    /\ bin[Server] = running
    /\ bak \in [Names -> {None, Other} \cup { r \in Releases : r < running }]
    /\ pc = "boot"
    /\ want = None /\ cur = Server
    /\ repl = {} /\ saved = {} /\ undo = {} /\ pass = "first"
    /\ left = 0 /\ rest = 0 /\ since = 1
    /\ old = bin /\ notice = {} /\ excused = FALSE

-----------------------------------------------------------------------------
(* The ends of the process.  The list of replacements goes with it.        *)

End ==
    /\ pc' = "down"
    /\ running' = None
    /\ repl' = {} /\ undo' = {}

\* exec: what is at the path becomes the process, with the environment it had.
Become ==
    /\ bin[Server] \in Releases
    /\ running' = bin[Server]
    /\ pc' = "boot"
    /\ repl' = {} /\ undo' = {}

Installing == pc \in {"backup", "place", "finish", "exec", "rollback"}

Crash ==
    /\ pc # "down"
    /\ End
    /\ excused' = (excused \/ Installing)
    /\ UNCHANGED <<disk, latest, want, cur, saved, pass, time, old, notice>>

-----------------------------------------------------------------------------
(* main and wait_for_update.                                               *)

\* The socket is claimed and the jobs run; an update that failed rests first.
Boot ==
    /\ pc = "boot"
    /\ pc' = "wait"
    /\ rest' = left
    /\ UNCHANGED <<disk, latest, running, job, left, since, ghosts>>

\* The configuration cannot be read, or another instance holds the socket.
BootFails ==
    /\ pc = "boot"
    /\ End
    /\ UNCHANGED <<disk, latest, want, cur, saved, pass, time, ghosts>>

\* check_for_update: no newer release, or an error on the way to its files.
CheckInVain ==
    /\ pc = "wait" /\ rest = 0
    /\ rest' = 1
    /\ UNCHANGED <<disk, latest, running, pc, job, left, since, ghosts>>

\* check_for_update: the release is newer, and its archive is sound and staged.
Prepare ==
    /\ pc = "wait" /\ rest = 0
    /\ latest > running
    /\ want' = latest
    /\ pc' = "preflight"
    /\ UNCHANGED <<disk, latest, running, cur, list, time, ghosts>>

Preflight ==
    /\ pc = "preflight"
    /\ pc' = "stop"
    /\ UNCHANGED <<disk, latest, running, job, time, ghosts>>

PreflightFails ==
    /\ pc = "preflight"
    /\ pc' = "wait"
    /\ rest' = 1
    /\ UNCHANGED <<disk, latest, running, job, left, since, ghosts>>

\* The move job has ended its batch and answered Ok to Stop.
Stopped ==
    /\ pc = "stop"
    /\ pc' = "verify"
    /\ UNCHANGED <<disk, latest, running, job, time, ghosts>>

\* It answered something else, or is gone: the process ends.
StopFails ==
    /\ pc = "stop"
    /\ End
    /\ UNCHANGED <<disk, latest, want, cur, saved, pass, time, ghosts>>

-----------------------------------------------------------------------------
(* PreparedUpdate::install                                                 *)

Regular(x) == x \in Releases \cup {None}

Verify ==
    /\ pc = "verify"
    /\ \A n \in Names : Regular(bin[n]) /\ Regular(bak[n])
    /\ pc' = "backup"
    /\ cur' = Server
    /\ repl' = {} /\ saved' = {}
    /\ old' = bin
    /\ UNCHANGED <<disk, latest, running, want, undo, pass, time, notice, excused>>

\* Something is not a regular file, or its metadata cannot be read.
Refuse ==
    /\ pc = "verify"
    /\ pc' = "restart"
    /\ old' = bin
    /\ UNCHANGED <<disk, latest, running, job, time, notice, excused>>

\* The closure of install ends with an error, or execv returns.
Fails ==
    /\ pc' = "rollback" /\ pass' = "first"
    /\ undo' = repl /\ repl' = {}
    /\ UNCHANGED <<disk, latest, running, want, cur, saved, time, ghosts>>

\* Mutant of Backup: a backup that exists is kept.
BackupKept ==
    /\ pc = "backup"
    /\ bin[cur] # None
    /\ bin' = [bin EXCEPT ![cur] = None]
    /\ bak' = [bak EXCEPT ![cur] = IF @ = None THEN bin[cur] ELSE @]
    /\ repl' = repl \cup {cur} /\ saved' = saved \cup {cur}
    /\ pc' = "place"
    /\ UNCHANGED <<latest, running, want, cur, undo, pass, time, ghosts>>

Backup ==
    /\ pc = "backup"
    /\ bin[cur] # None
    /\ bin' = [bin EXCEPT ![cur] = None]
    /\ bak' = [bak EXCEPT ![cur] = bin[cur]]
    /\ repl' = repl \cup {cur} /\ saved' = saved \cup {cur}
    /\ pc' = "place"
    /\ UNCHANGED <<latest, running, want, cur, undo, pass, time, ghosts>>

\* Nothing is at the path, so a backup of an earlier update stays.
NoBackup ==
    /\ pc = "backup"
    /\ bin[cur] = None
    /\ repl' = repl \cup {cur}
    /\ pc' = "place"
    /\ UNCHANGED <<disk, latest, running, want, cur, saved, undo, pass, time, ghosts>>

BackupFails == pc = "backup" /\ bin[cur] # None /\ Fails

\* Mutant of Place: one executable too many.
PlaceBeyond ==
    /\ pc = "place"
    /\ bin' = [bin EXCEPT ![cur] = want]
    /\ IF cur <= Count THEN pc' = "backup" /\ cur' = cur + 1
                       ELSE pc' = "finish" /\ cur' = cur
    /\ UNCHANGED <<bak, latest, running, want, list, time, ghosts>>

Place ==
    /\ pc = "place"
    /\ bin' = [bin EXCEPT ![cur] = want]
    /\ IF cur < Count THEN pc' = "backup" /\ cur' = cur + 1
                      ELSE pc' = "finish" /\ cur' = cur
    /\ UNCHANGED <<bak, latest, running, want, list, time, ghosts>>

PlaceFails == pc = "place" /\ Fails

\* The staging directory is removed and the install directory synced.
Finish ==
    /\ pc = "finish"
    /\ pc' = "exec"
    /\ UNCHANGED <<disk, latest, running, job, time, ghosts>>

FinishFails == pc = "finish" /\ Fails

-----------------------------------------------------------------------------
(* InstalledUpdate: exec, rollback and Drop.                               *)

Exec ==
    /\ pc = "exec"
    /\ Become
    /\ excused' = FALSE
    /\ UNCHANGED <<disk, latest, want, cur, saved, pass, time, old, notice>>

ExecFails == pc = "exec" /\ Fails

\* rollback goes through the list from its end and leaves what fails in the
\* list in that order, so that Drop goes through it the other way.
Turn(n) ==
    /\ n \in undo
    /\ \A m \in undo : IF pass = "first" THEN m <= n ELSE n <= m

RollBack(n) ==
    /\ pc = "rollback"
    /\ Turn(n)
    /\ bin' = [bin EXCEPT ![n] = IF n \in saved THEN bak[n] ELSE None]
    /\ bak' = [bak EXCEPT ![n] = IF n \in saved THEN None ELSE @]
    /\ undo' = undo \ {n}
    /\ UNCHANGED <<latest, running, pc, want, cur, repl, saved, pass, time, ghosts>>

RollBackFails(n) ==
    /\ pc = "rollback"
    /\ Turn(n)
    /\ undo' = undo \ {n}
    /\ repl' = repl \cup {n}
    /\ UNCHANGED <<disk, latest, running, pc, want, cur, saved, pass, time, ghosts>>

\* All is restored; Drop finds an empty list and main restarts the server.
RolledBack ==
    /\ pc = "rollback" /\ pass = "first"
    /\ undo = {} /\ repl = {}
    /\ pc' = "restart"
    /\ UNCHANGED <<disk, latest, running, job, time, ghosts>>

\* Mutant of Incomplete: main treats it as any other error.
IncompleteRestarts ==
    /\ pc = "rollback" /\ pass = "first"
    /\ undo = {} /\ repl # {}
    /\ pc' = "restart"
    /\ UNCHANGED <<disk, latest, running, job, time, ghosts>>

\* Mutant of Incomplete: the error names the first failure.
IncompleteNamesOne ==
    /\ pc = "rollback" /\ pass = "first"
    /\ undo = {} /\ repl # {}
    /\ \E n \in repl : notice' = {n}
    /\ excused' = TRUE
    /\ undo' = repl /\ repl' = {} /\ pass' = "drop"
    /\ UNCHANGED <<disk, latest, running, pc, want, cur, saved, time, old>>

\* RollbackIncomplete on its way to main: Drop tries what failed once more.
Incomplete ==
    /\ pc = "rollback" /\ pass = "first"
    /\ undo = {} /\ repl # {}
    /\ notice' = repl
    /\ excused' = TRUE
    /\ undo' = repl /\ repl' = {} /\ pass' = "drop"
    /\ UNCHANGED <<disk, latest, running, pc, want, cur, saved, time, old>>

\* Mutant of GiveUp: Drop tries until all is restored.
GiveUpNever ==
    /\ pc = "rollback" /\ pass = "drop"
    /\ undo = {}
    /\ IF repl = {} THEN End ELSE undo' = repl /\ repl' = {} /\ UNCHANGED <<pc, running>>
    /\ UNCHANGED <<disk, latest, want, cur, saved, pass, time, ghosts>>

\* main returns RollbackIncomplete, whatever Drop has restored.
GiveUp ==
    /\ pc = "rollback" /\ pass = "drop"
    /\ undo = {}
    /\ End
    /\ UNCHANGED <<disk, latest, want, cur, saved, pass, time, ghosts>>

\* Mutant of Restart: the environment is passed on as it is.
RestartAtOnce ==
    /\ pc = "restart"
    /\ Become
    /\ since' = 0
    /\ UNCHANGED <<disk, latest, want, cur, saved, pass, left, rest, ghosts>>

\* main executes what is at SERVER_PATH, to check again in a day.
Restart ==
    /\ pc = "restart"
    /\ Become
    /\ left' = 1
    /\ since' = 0
    /\ UNCHANGED <<disk, latest, want, cur, saved, pass, rest, ghosts>>

RestartFails ==
    /\ pc = "restart"
    /\ End
    /\ UNCHANGED <<disk, latest, want, cur, saved, pass, time, ghosts>>

-----------------------------------------------------------------------------
(* Around the process: days, releases, and an operator who starts a server *)
(* and restores the backups of the executables an install has replaced.    *)

Day ==
    /\ <<left, rest, since>> # <<0, 0, 1>>
    /\ left' = 0 /\ rest' = 0 /\ since' = 1
    /\ UNCHANGED <<disk, latest, running, pc, job, ghosts>>

Publish ==
    /\ latest < MaxRelease
    /\ latest' = latest + 1
    /\ UNCHANGED <<disk, running, pc, job, time, ghosts>>

Start ==
    /\ pc = "down"
    /\ Become
    /\ left' = 0 /\ since' = 1
    /\ notice' = {}
    /\ UNCHANGED <<disk, latest, want, cur, saved, pass, rest, old, excused>>

\* Executables of two releases.
Mixed(files) ==
    \E m, n \in Names : {files[m], files[n]} \subseteq Releases /\ files[m] # files[n]

Restore ==
    /\ pc = "down"
    /\ bin # old
    /\ bin' = old
    /\ excused' = Mixed(old)
    /\ bak' = [n \in Names |-> IF bin[n] # old[n] /\ old[n] # None THEN None ELSE bak[n]]
    /\ UNCHANGED <<latest, running, pc, job, time, old, notice>>

-----------------------------------------------------------------------------

Update ==
    \/ Boot \/ BootFails
    \/ CheckInVain \/ Prepare \/ Preflight \/ PreflightFails \/ Stopped \/ StopFails
    \/ Verify \/ Refuse
    \/ Backup \/ NoBackup \/ BackupFails \/ Place \/ PlaceFails
    \/ Finish \/ FinishFails \/ Exec \/ ExecFails
    \/ \E n \in Names : RollBack(n) \/ RollBackFails(n)
    \/ RolledBack \/ Incomplete \/ GiveUp
    \/ Restart \/ RestartFails

Next == Update \/ Crash \/ Day \/ Publish \/ Start \/ Restore

Spec == Init /\ [][Next]_vars

\* The process goes on with what it does; nothing is assumed of the rest.
FairSpec == Spec /\ WF_vars(Update)

-----------------------------------------------------------------------------
(* What is checked.                                                        *)

\* Every variable keeps its type, a process runs unless it is down, and a
\* rollback has nothing to undo outside of itself.
TypeOK ==
    /\ bin \in [Names -> Things] /\ bak \in [Names -> Things]
    /\ latest \in Releases /\ running \in Releases \cup {None}
    /\ pc \in {"boot", "wait", "preflight", "stop", "verify", "backup", "place",
               "finish", "exec", "rollback", "restart", "down"}
    /\ want \in Releases \cup {None} /\ cur \in Names
    /\ repl \subseteq Names /\ saved \subseteq Names /\ undo \subseteq Names
    /\ pass \in {"first", "drop"}
    /\ left \in {0, 1} /\ rest \in {0, 1} /\ since \in {0, 1}
    /\ old \in [Names -> Things] /\ notice \subseteq Names /\ excused \in BOOLEAN
    /\ pc = "down" <=> running = None
    /\ pc # "rollback" => undo = {}

\* main.rs:135, "Never start a potentially mismatched server/client
\* installation": unless an install was cut by a crash or reported as not rolled
\* back, a server runs beside executables of its own release, whichever renames,
\* execs and rollbacks failed.
RunsMatchingPair ==
    pc # "down" /\ ~Installing =>
        /\ bin[Server] = running
        /\ ~excused => ~Mixed(bin)

\* Each executable that was installed before the last install is at its path or
\* at its _bak path, wherever that install or its rollback was cut: restoring
\* the files by hand is always possible.
OldSurvives == \A n \in Names : old[n] # None => old[n] \in {bin[n], bak[n]}

\* An update that ends in an error has restored the old executables
\* (main.rs:139), or names every one that it has not.
ErrorsTellAll ==
    /\ pc = "restart" => bin = old
    /\ pc = "down" /\ notice # {} =>
        \A n \in Names \ notice : bin[n] = old[n]

\* A server that was restarted after a failed update leaves the executables
\* alone for a day: failing updates do not follow each other at once.
BackoffKept == [][pc # "verify" /\ pc' = "verify" => since = 1]_vars

\* Once the move job was asked to stop, a server takes over or the process ends:
\* it does not stay up without a move job.
StopLeadsOn == pc = "stop" ~> pc \in {"wait", "down"}
=============================================================================
