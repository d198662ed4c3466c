----------------------------- MODULE Interactions -----------------------------
(***************************************************************************)
(* A slash command between Discord and the code that runs it               *)
(* (discord_bot.rs, interaction_create): the check of the caller, the      *)
(* acknowledgement, the command itself and the answer.  serenity runs      *)
(* every interaction as a task of its own, here a slot.                    *)
(***************************************************************************)
EXTENDS Integers

CONSTANTS
    Slots,          \* interactions under way at the same time
    Commands,       \* the commands that are used
    Steps           \* where a command that runs can be

ASSUME NamesAssumption == "none" \notin Commands /\ "none" \notin Steps

VARIABLES
    cmd,        \* per slot: the command, or "none"
    stage,      \* per slot: "free", "refuse", "defer", "run" or "edit"
    pc,         \* per slot: where the command is while it runs
    answer      \* per slot: what the user is to be told

slotVars == <<cmd, stage, pc, answer>>

SlotsInit ==
    /\ cmd = [i \in Slots |-> "none"]
    /\ stage = [i \in Slots |-> "free"]
    /\ pc = [i \in Slots |-> "none"]
    /\ answer = [i \in Slots |-> "none"]

Runs(i, p) == stage[i] = "run" /\ pc[i] = p

Free(i) ==
    /\ cmd' = [cmd EXCEPT ![i] = "none"]
    /\ stage' = [stage EXCEPT ![i] = "free"]
    /\ pc' = [pc EXCEPT ![i] = "none"]
    /\ answer' = [answer EXCEPT ![i] = "none"]

\* For administrators only.
AdminCommands == {"docker_ps", "disk_space", "restart_container",
                  "restart_services", "torrent_list", "torrent_delete"}

\* isAdmin: the member has Administrator in the configured guild.
Receive(i, c, isAdmin) ==
    /\ stage[i] = "free"
    /\ cmd' = [cmd EXCEPT ![i] = c]
    /\ stage' = [stage EXCEPT ![i] =
                    IF c \in AdminCommands /\ ~isAdmin THEN "refuse" ELSE "defer"]
    /\ UNCHANGED <<pc, answer>>

\* Mutant of Refuse: the interaction is not given up.
RefuseKeeps(i) ==
    /\ stage[i] = "refuse"
    /\ stage' = [stage EXCEPT ![i] = "free"]
    /\ UNCHANGED <<cmd, pc, answer>>

\* create_response with the refusal; its error is logged.
Refuse(i) ==
    /\ stage[i] = "refuse"
    /\ Free(i)

\* create_response with Defer: the command begins at step p.
Defer(i, p) ==
    /\ stage[i] = "defer"
    /\ stage' = [stage EXCEPT ![i] = "run"]
    /\ pc' = [pc EXCEPT ![i] = p]
    /\ UNCHANGED <<cmd, answer>>

\* Its error: nothing is run.
DeferFails(i) ==
    /\ stage[i] = "defer"
    /\ Free(i)

Goto(i, p) ==
    /\ pc' = [pc EXCEPT ![i] = p]
    /\ UNCHANGED <<cmd, stage, answer>>

\* The command returns; an error becomes an answer like any other.
Answers(i, a) ==
    /\ answer' = [answer EXCEPT ![i] = a]
    /\ stage' = [stage EXCEPT ![i] = "edit"]
    /\ pc' = [pc EXCEPT ![i] = "none"]
    /\ UNCHANGED cmd

\* edit_response: the user reads the answer.
Edit(i) ==
    /\ stage[i] = "edit"
    /\ Free(i)

\* Its error is logged, and the answer is lost.
EditFails(i) ==
    /\ stage[i] = "edit"
    /\ Free(i)

\* The server ends, and every interaction with it.
AllLost ==
    /\ cmd' = [i \in Slots |-> "none"]
    /\ stage' = [i \in Slots |-> "free"]
    /\ pc' = [i \in Slots |-> "none"]
    /\ answer' = [i \in Slots |-> "none"]

\* What a user can be told.
Outcomes == {"Added", "Tracked", "NotTracked", "Removed", "Restarted", "Done",
             "Failed"}

\* Each stage has what it needs and nothing else.
SlotsOK ==
    /\ cmd \in [Slots -> Commands \cup {"none"}]
    /\ stage \in [Slots -> {"free", "refuse", "defer", "run", "edit"}]
    /\ pc \in [Slots -> Steps \cup {"none"}]
    /\ answer \in [Slots -> Outcomes \cup {"none"}]
    /\ \A i \in Slots :
          /\ stage[i] = "free" <=> cmd[i] = "none"
          /\ stage[i] = "run" <=> pc[i] # "none"
          /\ stage[i] = "edit" <=> answer[i] # "none"
===============================================================================
