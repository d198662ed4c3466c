----------------------------- MODULE TitleLibrary -----------------------------
(***************************************************************************)
(* What the bot promises about one title of Radarr or Sonarr to those who  *)
(* search, add and remove it at the same time: each answer is of a library *)
(* that takes the commands one at a time, each at one moment between its   *)
(* start and its answer.  "Added" and "Removed" stand for a change this    *)
(* command made, "Tracked" and "NotTracked" for a state it found; "Failed" *)
(* tells nothing: the change may have been made.                           *)
(* Module MediaCommands implements it (DiscordCommands!Implements).        *)
(***************************************************************************)
CONSTANT Slots

VARIABLES
    tracked,    \* the library holds the title
    call,       \* per slot: "none", "search", "add" or "remove"
    verdict     \* per slot: "none", "open", "untracked" or the answer

vars == <<tracked, call, verdict>>

Init ==
    /\ tracked = FALSE
    /\ call = [i \in Slots |-> "none"]
    /\ verdict = [i \in Slots |-> "none"]

Decide(i, v) == verdict' = [verdict EXCEPT ![i] = v] /\ UNCHANGED call

Open(i, C) == call[i] \in C /\ verdict[i] = "open"

Call(i) ==
    /\ call[i] = "none"
    /\ \E c \in {"search", "add", "remove"} : call' = [call EXCEPT ![i] = c]
    /\ verdict' = [verdict EXCEPT ![i] = "open"]
    /\ UNCHANGED tracked

Track(i) ==
    /\ Open(i, {"add"}) /\ ~tracked
    /\ tracked' = TRUE
    /\ Decide(i, "Added") \/ Decide(i, "Failed")

FindTracked(i) ==
    /\ Open(i, {"search", "add"}) /\ tracked
    /\ Decide(i, "Tracked")
    /\ UNCHANGED tracked

\* The files are still to be deleted.
Untrack(i) ==
    /\ Open(i, {"remove"}) /\ tracked
    /\ tracked' = FALSE
    /\ Decide(i, "untracked") \/ Decide(i, "Failed")

FindUntracked(i) ==
    /\ Open(i, {"search", "remove"}) /\ ~tracked
    /\ Decide(i, "NotTracked")
    /\ UNCHANGED tracked

Settle(i) ==
    /\ verdict[i] = "untracked"
    /\ Decide(i, "Removed") \/ Decide(i, "Failed")
    /\ UNCHANGED tracked

Fail(i) ==
    /\ verdict[i] = "open"
    /\ Decide(i, "Failed")
    /\ UNCHANGED tracked

\* The answers are given, or the calls are lost.
Return ==
    /\ \E R \in (SUBSET Slots) \ {{}} :
          /\ call' = [i \in Slots |-> IF i \in R THEN "none" ELSE call[i]]
          /\ verdict' = [i \in Slots |-> IF i \in R THEN "none" ELSE verdict[i]]
    /\ UNCHANGED tracked

Next ==
    \/ \E i \in Slots :
          \/ Call(i) \/ Track(i) \/ FindTracked(i) \/ Untrack(i)
          \/ FindUntracked(i) \/ Settle(i) \/ Fail(i)
    \/ Return

Spec == Init /\ [][Next]_vars
===============================================================================
