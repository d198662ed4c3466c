------------------------- MODULE InstallUpdate_proof -------------------------
(***************************************************************************)
(* What InstallUpdate guarantees for any number of executables and any     *)
(* number of releases.                                                     *)
(***************************************************************************)
EXTENDS InstallUpdate, TLAPS

-----------------------------------------------------------------------------
(* The inductive invariant.                                                *)

Regulars == Releases \cup {None}
Replaced == repl \cup undo  \* executables that may not be what they were

\* A server that is up and does not install is what is at its path, and the
\* executables match unless something was said about it.
Serving ==
    ~Installing =>
        /\ pc # "down" => bin[Server] = running
        /\ ~excused => ~Mixed(bin)

\* What the list of replacements says of the files while they are replaced and
\* rolled back.
Transaction ==
    Installing =>
        /\ old \in [Names -> Regulars]
        /\ old[Server] = running
        /\ ~excused => ~Mixed(old)
        /\ want \in Releases
        /\ repl \cap undo = {}
        /\ \A n \in Names \ Replaced : bin[n] = old[n]
        /\ \A n \in Replaced :
              /\ n \in saved <=> old[n] # None
              /\ n \in saved => bak[n] = old[n]

\* How far the loop of install is.
Progress ==
    /\ pc = "backup" => repl = 1 .. cur - 1
    /\ pc = "place" => repl = 1 .. cur
    /\ pc \in {"finish", "exec"} => repl = Names
    /\ pc \in {"backup", "place", "finish", "exec"} => saved \subseteq repl
    /\ pc \in {"backup", "place"} => \A n \in 1 .. cur - 1 : bin[n] = want
    /\ pc \in {"finish", "exec"} => \A n \in Names : bin[n] = want

\* An update that was staged has a release.
Staged == pc \in {"preflight", "stop", "verify"} => want \in Releases

\* What was said of a rollback that is not complete.
Dropped == pc = "rollback" /\ pass = "drop"
Notice ==
    /\ pc # "down" /\ ~Dropped => notice = {}
    /\ Dropped => excused /\ notice # {} /\ Replaced \subseteq notice

IInv ==
    /\ TypeOK /\ Serving /\ Transaction /\ Progress /\ Staged /\ Notice
    /\ OldSurvives /\ ErrorsTellAll

LEMMA ServerIsFirst == Server \in Names /\ Names \subseteq Int
BY CountAssumption DEF Server, Names

LEMMA InitInv == Init => IInv
<1> SUFFICES ASSUME Init PROVE IInv
    OBVIOUS
<1> USE ServerIsFirst, CountAssumption, MaxReleaseAssumption
<1>1. TypeOK
  <2>1. bin \in [Names -> Things] /\ bak \in [Names -> Things]
      BY DEF Init, Things
  <2>2. None \notin Releases
      BY DEF None, Releases
  <2> QED
      BY <2>1, <2>2 DEF Init, TypeOK
<1>2. ~Mixed(bin)
    BY DEF Init, Mixed, Releases, None, Other
<1> QED
    BY <1>1, <1>2 DEF Init, IInv, Serving, Transaction, Progress, Staged, Notice,
        OldSurvives, ErrorsTellAll, Installing, Dropped

\* Steps outside of an installation that leave the files alone.
QuietSteps ==
    \/ Boot \/ BootFails \/ CheckInVain \/ Prepare \/ Preflight \/ PreflightFails
    \/ Stopped \/ StopFails \/ RestartFails \/ Day \/ Publish

LEMMA QuietInv == IInv /\ QuietSteps => IInv'
<1> SUFFICES ASSUME IInv, QuietSteps PROVE IInv'
    OBVIOUS
<1> USE ServerIsFirst, MaxReleaseAssumption DEF disk, list, job, time, ghosts
<1>1. /\ UNCHANGED <<bin, bak, old, notice, excused, saved, cur, pass>>
      /\ \/ UNCHANGED <<pc, running, repl, undo>>
         \/ /\ ~Installing /\ pc # "down"
            /\ \/ /\ pc' \in {"wait", "preflight", "stop", "verify"}
                  /\ UNCHANGED <<running, repl, undo>>
               \/ pc' = "down" /\ running' = None /\ repl' = {} /\ undo' = {}
    BY DEF QuietSteps, Boot, BootFails, CheckInVain, Prepare, Preflight,
        PreflightFails, Stopped, StopFails, RestartFails, Day, Publish, End, Installing
<1>2. /\ latest' \in Releases /\ want' \in Releases \cup {None}
      /\ left' \in {0, 1} /\ rest' \in {0, 1} /\ since' \in {0, 1}
      /\ pc' \in {"preflight", "stop", "verify"} => want' \in Releases
      /\ Installing => want' = want
    BY DEF IInv, TypeOK, Staged, QuietSteps, Boot, BootFails, CheckInVain, Prepare,
        Preflight, PreflightFails, Stopped, StopFails, RestartFails, Day, Publish,
        End, Releases, Installing
<1>3. None \notin Releases
    BY DEF None, Releases
<1>4. TypeOK'
    BY <1>1, <1>2, <1>3 DEF IInv, TypeOK, Installing
<1>5. (Serving /\ OldSurvives /\ Notice /\ ErrorsTellAll /\ Staged)'
    BY <1>1, <1>2 DEF IInv, TypeOK, Serving, OldSurvives, ErrorsTellAll, Notice, Staged,
        Replaced, Dropped, Installing, Mixed
<1>6. (Transaction /\ Progress)'
    BY <1>1, <1>2 DEF IInv, TypeOK, Transaction, Progress, Replaced, Installing, Mixed
<1> QED
    BY <1>4, <1>5, <1>6 DEF IInv

LEMMA CrashInv == IInv /\ Crash => IInv'
<1> SUFFICES ASSUME IInv, Crash PROVE IInv'
    OBVIOUS
<1> USE ServerIsFirst DEF disk, list, job, time, ghosts, Crash, End
<1>1. TypeOK'
    BY DEF IInv, TypeOK
<1>2. (Serving /\ OldSurvives)'
    BY DEF IInv, TypeOK, Serving, OldSurvives, Installing, Mixed
<1>3. ErrorsTellAll'
    BY DEF IInv, TypeOK, ErrorsTellAll, Notice, Dropped, Replaced, Transaction, Installing
<1>4. (Transaction /\ Progress /\ Staged /\ Notice)'
    BY DEF Transaction, Progress, Staged, Notice, Dropped, Installing
<1> QED
    BY <1>1, <1>2, <1>3, <1>4 DEF IInv

LEMMA VerifyInv == IInv /\ (Verify \/ Refuse) => IInv'
<1> SUFFICES ASSUME IInv, Verify \/ Refuse PROVE IInv'
    OBVIOUS
<1> USE ServerIsFirst DEF disk, list, job, time, ghosts, Verify, Refuse
<1>1. TypeOK'
    BY DEF IInv, TypeOK
<1>2. OldSurvives'
    BY DEF IInv, TypeOK, OldSurvives
<1>5. (Serving /\ ErrorsTellAll /\ Staged /\ Notice)'
  <2>1. CASE Verify
      BY <2>1 DEF IInv, Serving, ErrorsTellAll, Staged, Notice, Dropped, Installing
  <2>2. CASE Refuse
      BY <2>2 DEF IInv, Serving, ErrorsTellAll, Staged, Notice, Dropped, Installing, Mixed
  <2> QED
      BY <2>1, <2>2
<1>3. Transaction'
  <2> SUFFICES ASSUME Verify PROVE Transaction'
      BY DEF Transaction, Installing
  <2>1. bin \in [Names -> Regulars]
      BY DEF IInv, TypeOK, Regular, Regulars
  <2> QED
      BY <2>1 DEF IInv, TypeOK, Transaction, Serving, Installing, Staged, Replaced, Mixed
<1>4. Progress'
  <2>1. 1 .. Server - 1 = {}
      BY DEF Server
  <2>2. CASE Verify
      BY <2>1, <2>2 DEF Progress, Server
  <2>3. CASE Refuse
      BY <2>3 DEF Progress
  <2> QED
      BY <2>2, <2>3
<1> QED
    BY <1>1, <1>2, <1>3, <1>4, <1>5 DEF IInv

\* An error inside install or exec: what is in the list is to be undone.
FailSteps == BackupFails \/ PlaceFails \/ FinishFails \/ ExecFails

LEMMA FailInv == IInv /\ FailSteps => IInv'
<1> SUFFICES ASSUME IInv, FailSteps PROVE IInv'
    OBVIOUS
<1> USE ServerIsFirst DEF disk, list, job, time, ghosts, Fails
<1>1. Fails /\ pc \in {"backup", "place", "finish", "exec"} /\ undo = {}
    BY DEF IInv, TypeOK, FailSteps, BackupFails, PlaceFails, FinishFails, ExecFails
<1>2. TypeOK'
    BY <1>1 DEF IInv, TypeOK
<1>3. Replaced' = Replaced
    BY <1>1 DEF Replaced
<1>4. (Transaction /\ Notice)'
    BY <1>1, <1>3 DEF IInv, Transaction, Notice, Dropped, Installing, Mixed, Replaced
<1>5. (Serving /\ OldSurvives /\ ErrorsTellAll /\ Staged /\ Progress)'
    BY <1>1 DEF IInv, Serving, OldSurvives, ErrorsTellAll, Staged, Progress, Installing
<1> QED
    BY <1>2, <1>4, <1>5 DEF IInv

LEMMA BackupInv == IInv /\ (Backup \/ NoBackup) => IInv'
<1> SUFFICES ASSUME IInv, Backup \/ NoBackup PROVE IInv'
    OBVIOUS
<1> USE ServerIsFirst DEF disk, list, job, time, ghosts
<1>1. /\ pc = "backup" /\ pc' = "place" /\ cur \in Names
      /\ undo = {} /\ cur \notin repl /\ cur \notin saved
      /\ repl' = repl \cup {cur}
      /\ bin[cur] = old[cur]
      /\ UNCHANGED <<latest, running, want, cur, undo, pass, time, ghosts>>
  <2>1. pc = "backup" /\ cur \in Names /\ undo = {} /\ cur \notin repl /\ cur \notin saved
      BY DEF IInv, TypeOK, Progress, Backup, NoBackup
  <2> QED
      BY <2>1 DEF IInv, Transaction, Installing, Replaced, Backup, NoBackup
<1>2. TypeOK'
    BY <1>1, None \in Things DEF IInv, TypeOK, Backup, NoBackup, Things
<1>3. Transaction'
    BY <1>1 DEF IInv, TypeOK, Transaction, Installing, Replaced, Backup, NoBackup, Mixed
<1>4. Progress'
  <2>1. repl = 1 .. cur - 1 /\ repl' = 1 .. cur' /\ saved' \subseteq repl'
      BY <1>1 DEF IInv, Progress, Backup, NoBackup, Names
  <2>2. \A n \in 1 .. cur' - 1 : bin'[n] = want'
    <3> SUFFICES ASSUME NEW n \in 1 .. cur - 1 PROVE bin'[n] = want
        BY <1>1
    <3> n \in Names /\ n # cur
        BY <1>1, CountAssumption DEF Names
    <3> QED
        BY <1>1 DEF IInv, TypeOK, Progress, Backup, NoBackup, Names
  <2> QED
      BY <1>1, <2>1, <2>2 DEF Progress
<1>5. OldSurvives'
    BY <1>1, <1>3 DEF IInv, TypeOK, OldSurvives, Backup, NoBackup
<1>6. (Serving /\ ErrorsTellAll /\ Staged /\ Notice)'
    BY <1>1 DEF IInv, Serving, ErrorsTellAll, Staged, Notice, Dropped, Installing
<1> QED
    BY <1>2, <1>3, <1>4, <1>5, <1>6 DEF IInv

LEMMA PlaceInv == IInv /\ (Place \/ Finish) => IInv'
<1> SUFFICES ASSUME IInv, Place \/ Finish PROVE IInv'
    OBVIOUS
<1> USE ServerIsFirst DEF disk, list, job, time, ghosts
<1>1. /\ pc \in {"place", "finish"} /\ pc' \in {"backup", "finish", "exec"}
      /\ undo = {} /\ cur \in Names /\ want \in Releases
      /\ UNCHANGED <<bak, latest, running, want, list, time, ghosts>>
    BY DEF IInv, TypeOK, Transaction, Installing, Place, Finish
<1>2. TypeOK'
    BY <1>1, CountAssumption DEF IInv, TypeOK, Place, Finish, Things, Names
<1>7. \A n \in Names \ Replaced : bin'[n] = bin[n]
  <2>1. CASE Place
    <3>1. cur \in Replaced
        BY <1>1, <2>1, CountAssumption DEF IInv, Progress, Place, Replaced, Names
    <3> QED
        BY <2>1, <3>1 DEF IInv, TypeOK, Place
  <2>2. CASE Finish
      BY <2>2 DEF Finish
  <2> QED
      BY <2>1, <2>2
<1>8. Replaced' = Replaced
    BY <1>1 DEF Replaced
<1>3. Transaction'
    BY <1>1, <1>7, <1>8 DEF IInv, Transaction, Installing, Mixed
<1>4. Progress'
    BY <1>1, CountAssumption DEF IInv, TypeOK, Progress, Place, Finish, Names
<1>5. OldSurvives'
    BY <1>1, <1>7 DEF IInv, OldSurvives, Transaction, Installing
<1>6. (Serving /\ ErrorsTellAll /\ Staged /\ Notice)'
    BY <1>1 DEF IInv, Serving, ErrorsTellAll, Staged, Notice, Dropped, Installing
<1> QED
    BY <1>2, <1>3, <1>4, <1>5, <1>6 DEF IInv

\* What is at the path of the server becomes the process.
BecomeSteps == Exec \/ Restart \/ Start

LEMMA BecomeInv == IInv /\ BecomeSteps => IInv'
<1> SUFFICES ASSUME IInv, BecomeSteps PROVE IInv'
    OBVIOUS
<1> USE ServerIsFirst DEF disk, list, job, time, ghosts, Become
<1>1. /\ pc' = "boot" /\ running' = bin[Server] /\ bin[Server] \in Releases
      /\ UNCHANGED <<bin, bak, latest, want, cur, saved, old>>
      /\ ~Mixed(bin) \/ excused'
      /\ notice' = {}
    BY DEF IInv, TypeOK, Serving, Progress, Notice, Dropped, Installing, Mixed,
        BecomeSteps, Exec, Restart, Start
<1>2. TypeOK'
  <2>1. None \notin Releases
      BY DEF None, Releases
  <2> QED
      BY <1>1, <2>1 DEF IInv, TypeOK, BecomeSteps, Exec, Restart, Start
<1>3. (Serving /\ OldSurvives /\ ErrorsTellAll /\ Staged /\ Notice /\ Transaction /\ Progress)'
    BY <1>1 DEF IInv, Serving, OldSurvives, ErrorsTellAll, Staged, Notice, Dropped,
        Transaction, Progress, Installing, Mixed
<1> QED
    BY <1>2, <1>3 DEF IInv

LEMMA RollBackInv == ASSUME IInv, NEW n \in Names, RollBack(n) \/ RollBackFails(n) PROVE IInv'
<1> USE ServerIsFirst DEF disk, list, job, time, ghosts
<1>1. /\ pc = "rollback" /\ pc' = "rollback" /\ n \in undo /\ n \notin repl
      /\ undo' = undo \ {n}
      /\ UNCHANGED <<latest, running, want, cur, saved, pass, time, ghosts>>
    BY DEF IInv, Transaction, Installing, RollBack, RollBackFails, Turn
<1>2. TypeOK'
    BY <1>1 DEF IInv, TypeOK, RollBack, RollBackFails, Things
<1>7. Installing /\ Installing'
    BY <1>1 DEF Installing
<1>8. \A m \in Names \ {n} : bin'[m] = bin[m] /\ bak'[m] = bak[m]
    BY DEF IInv, TypeOK, RollBack, RollBackFails
<1>3. Transaction'
  <2>1. \A m \in Names \ Replaced' : bin'[m] = old'[m]
    <3>1. CASE RollBack(n)
      <4>1. bin'[n] = old[n]
          BY <1>1, <1>7, <3>1 DEF IInv, TypeOK, Transaction, Replaced, RollBack
      <4> QED
          BY <1>1, <1>7, <1>8, <3>1, <4>1 DEF IInv, Transaction, Replaced, RollBack
    <3>2. CASE RollBackFails(n)
        BY <1>1, <1>7, <1>8, <3>2 DEF IInv, Transaction, Replaced, RollBackFails
    <3> QED
        BY <3>1, <3>2
  <2>2. /\ repl' \cap undo' = {}
        /\ \A m \in Replaced' :
              /\ m \in saved' <=> old'[m] # None
              /\ m \in saved' => bak'[m] = old'[m]
    <3>1. CASE RollBack(n)
        BY <1>1, <1>7, <1>8, <3>1 DEF IInv, TypeOK, Transaction, Replaced, RollBack
    <3>2. CASE RollBackFails(n)
        BY <1>1, <1>7, <3>2 DEF IInv, TypeOK, Transaction, Replaced, RollBackFails
    <3> QED
        BY <3>1, <3>2
  <2> QED
      BY <1>1, <1>7, <2>1, <2>2 DEF IInv, Transaction, Mixed
<1>4. OldSurvives'
    BY <1>1, <1>3 DEF IInv, TypeOK, OldSurvives, Transaction, Installing, Replaced,
        RollBack, RollBackFails
<1>5. Notice'
    BY <1>1 DEF IInv, Notice, Dropped, Replaced, RollBack, RollBackFails
<1>6. (Serving /\ ErrorsTellAll /\ Staged /\ Progress)'
    BY <1>1 DEF IInv, Serving, ErrorsTellAll, Staged, Progress, Installing
<1> QED
    BY <1>2, <1>3, <1>4, <1>5, <1>6 DEF IInv

\* The end of a rollback.
RollbackEnds == RolledBack \/ Incomplete \/ GiveUp

LEMMA RollbackEndInv == IInv /\ RollbackEnds => IInv'
<1> SUFFICES ASSUME IInv, RollbackEnds PROVE IInv'
    OBVIOUS
<1> USE ServerIsFirst DEF disk, list, job, time, ghosts
<1>1. pc = "rollback" /\ undo = {} /\ UNCHANGED <<bin, bak, latest, want, cur, saved, old, time>>
    BY DEF RollbackEnds, RolledBack, Incomplete, GiveUp
<1>2. TypeOK'
    BY <1>1 DEF IInv, TypeOK, RollbackEnds, RolledBack, Incomplete, GiveUp, End
<1>3. OldSurvives'
    BY <1>1 DEF IInv, OldSurvives
<1>4. CASE RolledBack
  <2>1. \A n \in Names : bin[n] = old[n]
      BY <1>1, <1>4 DEF RolledBack, IInv, Transaction, Installing, Replaced
  <2>2. bin = [n \in Names |-> bin[n]] /\ old = [n \in Names |-> old[n]]
      BY DEF IInv, TypeOK
  <2>3. bin = old
      BY <2>1, <2>2
  <2> QED
      BY <1>1, <1>2, <1>3, <1>4, <2>3 DEF RolledBack, IInv, Serving, ErrorsTellAll, Staged,
          Notice, Dropped, Transaction, Progress, Installing, Mixed
<1>5. CASE Incomplete
    BY <1>1, <1>2, <1>3, <1>5 DEF Incomplete, IInv, Serving, ErrorsTellAll, Staged,
        Notice, Dropped, Transaction, Progress, Installing, Replaced
<1>6. CASE GiveUp
  <2>1. excused /\ \A n \in Names \ notice : bin[n] = old[n]
      BY <1>1, <1>6 DEF GiveUp, IInv, Notice, Dropped, Transaction, Installing, Replaced
  <2> QED
      BY <1>1, <1>2, <1>3, <1>6, <2>1 DEF GiveUp, End, IInv, Serving, ErrorsTellAll, Staged,
          Notice, Dropped, Transaction, Progress, Installing
<1> QED
    BY <1>4, <1>5, <1>6 DEF RollbackEnds

LEMMA RestoreInv == IInv /\ Restore => IInv'
<1> SUFFICES ASSUME IInv, Restore PROVE IInv'
    OBVIOUS
<1> USE ServerIsFirst DEF disk, list, job, time, ghosts, Restore
<1>1. TypeOK'
    BY DEF IInv, TypeOK, Things, Mixed
<1>2. (Serving /\ OldSurvives /\ ErrorsTellAll /\ Staged /\ Notice /\ Transaction /\ Progress)'
    BY DEF IInv, TypeOK, Serving, OldSurvives, ErrorsTellAll, Staged, Notice, Dropped,
        Transaction, Progress, Installing, Mixed
<1> QED
    BY <1>1, <1>2 DEF IInv

LEMMA NextInv == IInv /\ [Next]_vars => IInv'
<1> SUFFICES ASSUME IInv, [Next]_vars PROVE IInv'
    OBVIOUS
<1>1. CASE UNCHANGED vars
    BY <1>1 DEF vars, disk, list, job, time, ghosts, IInv, TypeOK, Serving, Transaction,
        Progress, Staged, Notice, Dropped, Replaced, OldSurvives, ErrorsTellAll,
        Installing, Mixed
<1>2. CASE QuietSteps
    BY <1>2, QuietInv
<1>3. CASE Crash
    BY <1>3, CrashInv
<1>4. CASE Verify \/ Refuse
    BY <1>4, VerifyInv
<1>5. CASE FailSteps
    BY <1>5, FailInv
<1>6. CASE Backup \/ NoBackup
    BY <1>6, BackupInv
<1>7. CASE Place \/ Finish
    BY <1>7, PlaceInv
<1>8. CASE BecomeSteps
    BY <1>8, BecomeInv
<1>9. CASE \E n \in Names : RollBack(n) \/ RollBackFails(n)
    BY <1>9, RollBackInv
<1>10. CASE RollbackEnds
    BY <1>10, RollbackEndInv
<1>11. CASE Restore
    BY <1>11, RestoreInv
<1> QED
    BY <1>1, <1>2, <1>3, <1>4, <1>5, <1>6, <1>7, <1>8, <1>9, <1>10, <1>11
    DEF Next, Update, QuietSteps, FailSteps, BecomeSteps, RollbackEnds

-----------------------------------------------------------------------------
(* The theorems.                                                           *)

\* The inductive invariant holds in every state: what the list of replacements
\* says of the files, wherever install, exec and rollback fail or are cut.
THEOREM Invariance == Spec => []IInv
<1>1. Init => IInv
    BY InitInv
<1>2. IInv /\ [Next]_vars => IInv'
    BY NextInv
<1> QED
    BY <1>1, <1>2, PTL DEF Spec

\* Every variable keeps its type.
THEOREM TypeCorrect == Spec => []TypeOK
<1>1. IInv => TypeOK
    BY DEF IInv
<1> QED
    BY <1>1, Invariance, PTL

\* A server that is up runs what is installed, beside executables of its own
\* release unless an install was cut or reported (update.rs:278, main.rs:133-138).
THEOREM NoSilentMismatch == Spec => []RunsMatchingPair
<1>1. IInv => RunsMatchingPair
    BY DEF IInv, Serving, RunsMatchingPair
<1> QED
    BY <1>1, Invariance, PTL

\* The executables before the last install are on the disk (update.rs:278).
THEOREM Recoverable == Spec => []OldSurvives
<1>1. IInv => OldSurvives
    BY DEF IInv
<1> QED
    BY <1>1, Invariance, PTL

\* A failed update has restored the old executables or names those it has not
\* (update.rs:350-371, main.rs:139).
THEOREM TruthfulErrors == Spec => []ErrorsTellAll
<1>1. IInv => ErrorsTellAll
    BY DEF IInv
<1> QED
    BY <1>1, Invariance, PTL

\* A process that is past its sleep has rested since the last install that failed.
Rested ==
    /\ pc = "boot" /\ left = 0 => since = 1
    /\ pc = "wait" /\ rest = 0 => since = 1
    /\ pc \notin {"boot", "wait", "down"} => since = 1

\* A failed update is not tried again before a day is over (main.rs:141-145,
\* update.rs:134-147).
THEOREM Backoff == Spec => BackoffKept
<1>1. Init => Rested
    BY DEF Init, Rested
<1>2. Rested /\ [Next]_vars => Rested'
    BY DEF Rested, Next, Update, vars, disk, list, job, time, ghosts, End, Become, Fails,
        Boot, BootFails, CheckInVain, Prepare, Preflight, PreflightFails, Stopped, StopFails,
        Verify, Refuse, Backup, NoBackup, BackupFails, Place, PlaceFails, Finish, FinishFails,
        Exec, ExecFails, RollBack, RollBackFails, RolledBack, Incomplete, GiveUp, Restart,
        RestartFails, Crash, Day, Publish, Start, Restore
<1>3. Rested /\ [Next]_vars => [pc # "verify" /\ pc' = "verify" => since = 1]_vars
    BY DEF Rested, Next, Update, vars, disk, list, job, time, ghosts, End, Become, Fails,
        Boot, BootFails, CheckInVain, Prepare, Preflight, PreflightFails, Stopped, StopFails,
        Verify, Refuse, Backup, NoBackup, BackupFails, Place, PlaceFails, Finish, FinishFails,
        Exec, ExecFails, RollBack, RollBackFails, RolledBack, Incomplete, GiveUp, Restart,
        RestartFails, Crash, Day, Publish, Start, Restore
<1> QED
    BY <1>1, <1>2, <1>3, PTL DEF Spec, BackoffKept
=============================================================================
