---------------------------- MODULE DiscordCommands ----------------------------
(***************************************************************************)
(* All slash commands side by side: those of MediaCommands, the restarts   *)
(* of RestartServices, which take Radarr away from the former, and the     *)
(* commands that are one exchange with a service or none at all.           *)
(***************************************************************************)
EXTENDS MediaCommands, RestartServices

CONSTANT MacOS      \* the build: restarts are refused elsewhere

ASSUME MacOSAssumption == MacOS \in BOOLEAN

vars == <<slotVars, mediaVars, appVars>>

Init == SlotsInit /\ MediaInit /\ RestartInit

\* The client of qBittorrent has no token: each of its requests has a header
\* without a name, an error before anything is sent (client.rs).
Sends(c) == c \notin {"torrent_list", "torrent_delete"}

\* Where the command begins.  "local" answers without a call.
Entry(c) ==
    CASE c = "search" -> "search"
      [] c = "add" -> "add lookup"
      [] c = "remove" -> "remove lookup"
      [] c = "restart_services" /\ MacOS -> "bundle"
      [] c \in {"docker_ps", "disk_space", "restart_container", "grant_access",
                 "torrent_list", "torrent_delete"} -> "exchange"
      [] OTHER -> "local"

AllSteps == MediaSteps \cup AppSteps \cup {"exchange", "local"}

ASSUME StepsAssumption == Steps = AllSteps

\* docker or df, whose status is checked, or a POST to plex.tv or qBittorrent.
Exchange(i) ==
    /\ Runs(i, "exchange")
    /\ Answers(i, "Failed") \/ (Sends(cmd[i]) /\ Answers(i, "Done"))

Local(i) == Runs(i, "local") /\ Answers(i, "Done")

\* Radarr does not answer while it is down.
ArrAnswers == up["Radarr"] # "down"

Interact(i) ==
    /\ \/ \E c \in Commands, isAdmin \in BOOLEAN : Receive(i, c, isAdmin)
       \/ Refuse(i)
       \/ Defer(i, Entry(cmd[i]))
       \/ DeferFails(i)
       \/ Exchange(i) \/ Local(i)
    /\ UNCHANGED <<mediaVars, appVars>>

ServerEnds == AllLost /\ MediaLost /\ RestartLost

Next ==
    \/ \E i \in Slots :
          \/ Interact(i)
          \/ /\ BadOptions(i) \/ CallFails(i) \/ (ArrAnswers /\ ArrCalls(i)) \/ Cleans(i)
             /\ UNCHANGED appVars
          \/ Restarts(i) /\ UNCHANGED mediaVars
          \/ (Tells(i) \/ TellsNobody(i)) /\ UNCHANGED mediaVars
    \/ Files /\ UNCHANGED appVars
    \/ AppEnds /\ UNCHANGED mediaVars
    \/ ServerEnds

Spec == Init /\ [][Next]_vars

-----------------------------------------------------------------------------

\* Every stage of a command, what Radarr and the disks hold and the apps'
\* states are of their types (discord_bot.rs:452-545, system.rs:126-177).
TypeOK == SlotsOK /\ MediaOK /\ RestartOK

\* Added, removed, tracked and not tracked are answered as by a library that
\* takes one command at a time, though each command is several calls with others
\* in between (radarr.rs:96-145, sonarr.rs:96-147, mod.rs:283-317).
Asked(i) == IF stage[i] # "free" /\ cmd[i] \in {"search", "add", "remove"}
            THEN cmd[i] ELSE "none"

Verdict(i) ==
    IF Asked(i) = "none" THEN "none"
    ELSE IF stage[i] = "edit" THEN answer[i]
    ELSE IF Cleaning(i) THEN "untracked" ELSE "open"

Calls == [i \in Slots |-> Asked(i)]
Verdicts == [i \in Slots |-> Verdict(i)]

Library == INSTANCE TitleLibrary WITH
    tracked <- tracked, call <- Calls, verdict <- Verdicts

Implements == Library!Spec
================================================================================
