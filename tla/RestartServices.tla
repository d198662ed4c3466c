---------------------------- MODULE RestartServices ----------------------------
(***************************************************************************)
(* /restart_services (commands/system.rs): for one app after the other,    *)
(* check its bundle, pkill it, wait until pgrep no longer finds it and     *)
(* open it again.  Two administrators may do so at the same time.          *)
(***************************************************************************)
EXTENDS Interactions, Sequences

CONSTANT Apps       \* their names, in the order they are restarted

ASSUME AppsAssumption == Apps \in Seq(STRING) /\ Len(Apps) > 0

VARIABLES
    up,         \* per app: "running", "stopping" or "down"
    at,         \* per slot: the position of the app it restarts
    lines,      \* history, per slot: the apps its answer reports an error of that
                \* have not run since
    settled     \* history: the apps that have not run since an administrator read an
                \* error of them, or the answer that tells it did not arrive

appVars == <<up, at, lines, settled>>
histVars == <<lines, settled>>

AppSet == {Apps[k] : k \in DOMAIN Apps}
AppSteps == {"bundle", "pkill", "pgrep", "open"}

RestartInit ==
    /\ up = [a \in AppSet |-> "running"]
    /\ at = [i \in Slots |-> 1]
    /\ lines = [i \in Slots |-> {}]
    /\ settled = {}

App(i) == Apps[at[i]]

\* Between the signal and the app that is open again.
Restarting(i, a) == pc[i] \in {"pgrep", "open"} /\ App(i) = a

\* On to the next app, whatever became of this one.
NextApp(i) ==
    IF at[i] < Len(Apps)
    THEN at' = [at EXCEPT ![i] = @ + 1] /\ Goto(i, "bundle")
    ELSE at' = [at EXCEPT ![i] = 1] /\ Answers(i, "Restarted")

\* The app's line of the answer is an error.
Reports(i) ==
    /\ lines' = [lines EXCEPT ![i] =
                     IF up'[App(i)] = "running" THEN @ ELSE @ \cup {App(i)}]
    /\ NextApp(i)
    /\ UNCHANGED settled

\* try_exists: no bundle, or an error, and the app is left alone.
Bundle(i) ==
    /\ Runs(i, "bundle")
    /\ UNCHANGED up
    /\ \/ Goto(i, "pkill") /\ UNCHANGED <<at, histVars>>
       \/ Reports(i)

\* pkill sends TERM, or finds nothing.  It may fail, or time out, before or after
\* it sent TERM.
Pkill(i) ==
    /\ Runs(i, "pkill")
    /\ \/ UNCHANGED up /\ Reports(i)
       \/ /\ up' = [up EXCEPT ![App(i)] = IF @ = "down" THEN @ ELSE "stopping"]
          /\ \/ Goto(i, "pgrep") /\ UNCHANGED <<at, histVars>>
             \/ Reports(i)

\* pgrep finds no process.  While it does, it is run again.
Pgrep(i) ==
    /\ Runs(i, "pgrep")
    /\ up[App(i)] = "down"
    /\ Goto(i, "open")
    /\ UNCHANGED appVars

\* Mutant of PgrepGivesUp: the app is taken for restarted.
PgrepGivesUpSilent(i) ==
    /\ Runs(i, "pgrep")
    /\ NextApp(i)
    /\ UNCHANGED <<up, histVars>>

\* 30 seconds have gone by, or pgrep fails: nothing is opened.
PgrepGivesUp(i) ==
    /\ Runs(i, "pgrep")
    /\ UNCHANGED up
    /\ Reports(i)

\* open starts the app if it does not run; of one that runs, even if it is about
\* to end, it starts no second instance.
OpenApp(i) ==
    /\ Runs(i, "open")
    /\ IF up[App(i)] = "down"
          THEN /\ up' = [up EXCEPT ![App(i)] = "running"]
               /\ lines' = [j \in Slots |-> lines[j] \ {App(i)}]
               /\ settled' = settled \ {App(i)}
          ELSE UNCHANGED <<up, histVars>>
    /\ NextApp(i)

OpenFails(i) ==
    /\ Runs(i, "open")
    /\ UNCHANGED up
    /\ Reports(i)

\* An app that was told to ends, sooner or later.
AppEnds ==
    /\ \E a \in AppSet : up[a] = "stopping" /\ up' = [up EXCEPT ![a] = "down"]
    /\ UNCHANGED <<slotVars, at, histVars>>

Restarts(i) ==
    \/ Bundle(i) \/ Pkill(i) \/ Pgrep(i) \/ PgrepGivesUp(i)
    \/ OpenApp(i) \/ OpenFails(i)

\* The administrator reads the answer.
Tells(i) ==
    /\ Edit(i)
    /\ settled' = settled \cup lines[i]
    /\ lines' = [lines EXCEPT ![i] = {}]
    /\ UNCHANGED <<up, at>>

\* Nobody reads it.
TellsNobody(i) ==
    /\ EditFails(i)
    /\ settled' = settled \cup lines[i]
    /\ lines' = [lines EXCEPT ![i] = {}]
    /\ UNCHANGED <<up, at>>

\* The server ends: kill_on_drop ends what a restart had started, and no answer
\* is sent.
RestartLost ==
    /\ at' = [i \in Slots |-> 1]
    /\ settled' = settled \cup {a \in AppSet : up[a] # "running" /\ \E i \in Slots :
                                                Restarting(i, a) \/ a \in lines[i]}
    /\ lines' = [i \in Slots |-> {}]
    /\ UNCHANGED up

RestartOK ==
    /\ up \in [AppSet -> {"running", "stopping", "down"}]
    /\ at \in [Slots -> 1 .. Len(Apps)]
    /\ lines \in [Slots -> SUBSET AppSet]
    /\ settled \subseteq AppSet

\* A service a restart stopped is open again or still being restarted, or an
\* administrator has read that it is not, or the answer that says so is still to
\* be sent, however restarts overlap (system.rs:148-176).  Only an answer that
\* Discord does not take (discord_bot.rs:542-544), or the end of the server before
\* it is sent, leaves a service down without a word.
DownIsAccountedFor ==
    \A a \in AppSet : up[a] # "running" =>
        \/ a \in settled
        \/ \E i \in Slots : Restarting(i, a) \/ a \in lines[i]
================================================================================
