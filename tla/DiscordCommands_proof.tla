------------------------- MODULE DiscordCommands_proof -------------------------
(***************************************************************************)
(* What DiscordCommands guarantees for any number of interactions at the   *)
(* same time, any commands and any apps.                                   *)
(***************************************************************************)
EXTENDS DiscordCommands, TLAPS

-----------------------------------------------------------------------------
(* The inductive invariant.                                                *)

AddSteps == {"add lookup", "profile", "folder", "post"}
RemoveSteps == {"remove lookup", "get", "delete", "clean first", "clean second"}
OtherSteps == AppSteps \cup {"exchange", "local"}

\* What a command does belongs to it.
PcFits ==
    \A i \in Slots :
        /\ pc[i] = "search" => cmd[i] = "search"
        /\ pc[i] \in AddSteps => cmd[i] = "add"
        /\ pc[i] \in RemoveSteps => cmd[i] = "remove"
        /\ pc[i] \in OtherSteps => cmd[i] \notin {"search", "add", "remove"}

\* An id that is good is that of a title Radarr has; a removal that is past its
\* DELETE has none.
Ids == \A i \in Slots : valid[i] => tracked /\ ~Cleaning(i)

\* A removal that has not passed p yet.
ToPass(p) ==
    \E i \in Slots : \/ pc[i] = "clean first"
                    \/ (pc[i] = "clean second" /\ p = Mirror(indexed))

\* Without an excuse, what is left of an untracked title is still to be deleted,
\* and the worker is in nobody's way.
ToClean ==
    ~tracked => /\ local # "none" => ToPass("local")
                /\ das /\ ~missed => ToPass("das")

WorkerApart ==
    /\ mover # "idle" => \A i \in Slots : pc[i] # "clean second"
    /\ mover \in {"copying", "copied"} => local = "files"
    /\ mover \in {"copied", "removed"} => das

\* A copy that was passed while the DAS was away is all that is left.
MissedAlone ==
    /\ missed => das /\ local = "none" /\ mover = "idle"
    /\ (\E i \in Slots : pc[i] = "clean second") /\ das /\ indexed = "local"
          => local = "none"

Unexcused == ~excused => ToClean /\ WorkerApart /\ MissedAlone

\* Radarr imports to one place, and only what is local is moved.
Placed == indexed = "das" => local = "none" /\ mover = "idle"

Accounted(a) == a \in settled \/ \E i \in Slots : a \in lines[i]

\* Somebody waits for an app that ends, or is about to open it.
AppAwaited(a) ==
    /\ up[a] = "stopping" => Accounted(a) \/ \E i \in Slots : pc[i] = "pgrep" /\ App(i) = a
    /\ up[a] = "down" => Accounted(a) \/ \E i \in Slots : Restarting(i, a)

Awaited == \A a \in AppSet : AppAwaited(a)

IInv == TypeOK /\ PcFits /\ Ids /\ Unexcused /\ Placed /\ Awaited

-----------------------------------------------------------------------------
(* The slots.                                                              *)

Family(p) ==
    CASE p = "search" -> "search"
      [] p \in AddSteps -> "add"
      [] p \in RemoveSteps -> "remove"
      [] OTHER -> "other"

\* A command goes on to a step of its own, or returns.
GoesOn(i, p) == stage[i] = "run" /\ p \in AllSteps /\ Family(p) = Family(pc[i]) /\ Goto(i, p)
Returns(i, a) == stage[i] = "run" /\ a \in Outcomes /\ Answers(i, a)

LEMMA StepNames == "none" \notin AllSteps /\ "none" \notin Commands /\ Steps = AllSteps
BY StepsAssumption, NamesAssumption

LEMMA GoesOnFits ==
    ASSUME SlotsOK, PcFits, NEW i \in Slots, NEW p, GoesOn(i, p)
    PROVE  /\ SlotsOK' /\ PcFits'
           /\ pc' = [pc EXCEPT ![i] = p] /\ pc'[i] = p /\ pc[i] # "none"
           /\ UNCHANGED <<cmd, stage, answer>>
<1>1. /\ pc' = [pc EXCEPT ![i] = p] /\ pc'[i] = p /\ pc[i] # "none"
      /\ UNCHANGED <<cmd, stage, answer>>
    BY DEF GoesOn, Goto, SlotsOK
<1>2. SlotsOK'
    BY <1>1, StepNames DEF GoesOn, SlotsOK
<1>3. PcFits'
  <2> SUFFICES ASSUME NEW j \in Slots
               PROVE  /\ pc'[j] = "search" => cmd'[j] = "search"
                      /\ pc'[j] \in AddSteps => cmd'[j] = "add"
                      /\ pc'[j] \in RemoveSteps => cmd'[j] = "remove"
                      /\ pc'[j] \in OtherSteps => cmd'[j] \notin {"search", "add", "remove"}
      BY DEF PcFits
  <2>1. CASE j # i
      BY <1>1, <2>1 DEF PcFits, SlotsOK
  <2>2. CASE j = i
    <3>1. /\ pc[i] \in {"search"} \cup AddSteps \cup RemoveSteps \cup OtherSteps
          /\ p \in {"search"} \cup AddSteps \cup RemoveSteps \cup OtherSteps
        BY <1>1, StepNames
        DEF SlotsOK, GoesOn, AllSteps, MediaSteps, AddSteps, RemoveSteps, OtherSteps
    <3>2. Family(p) = Family(pc[i]) /\ cmd'[i] = cmd[i] /\ pc'[i] = p
        BY <1>1 DEF GoesOn
    <3> QED
        BY <2>2, <3>1, <3>2
        DEF PcFits, Family, AddSteps, RemoveSteps, OtherSteps, AppSteps
  <2> QED
      BY <2>1, <2>2
<1> QED
    BY <1>1, <1>2, <1>3

LEMMA ReturnsFits ==
    ASSUME SlotsOK, PcFits, NEW i \in Slots, NEW a, Returns(i, a)
    PROVE  /\ SlotsOK' /\ PcFits'
           /\ pc' = [pc EXCEPT ![i] = "none"] /\ pc'[i] = "none" /\ pc[i] # "none"
           /\ answer' = [answer EXCEPT ![i] = a] /\ stage' = [stage EXCEPT ![i] = "edit"]
           /\ UNCHANGED cmd
<1>1. /\ pc' = [pc EXCEPT ![i] = "none"] /\ pc'[i] = "none" /\ pc[i] # "none"
      /\ answer' = [answer EXCEPT ![i] = a] /\ stage' = [stage EXCEPT ![i] = "edit"]
      /\ UNCHANGED cmd
    BY DEF Returns, Answers, SlotsOK
<1>2. SlotsOK'
  <2>1. /\ cmd' \in [Slots -> Commands \cup {"none"}]
        /\ stage' \in [Slots -> {"free", "refuse", "defer", "run", "edit"}]
        /\ pc' \in [Slots -> Steps \cup {"none"}]
        /\ answer' \in [Slots -> Outcomes \cup {"none"}]
      BY <1>1 DEF Returns, SlotsOK
  <2>2. ASSUME NEW j \in Slots
        PROVE  /\ stage'[j] = "free" <=> cmd'[j] = "none"
               /\ stage'[j] = "run" <=> pc'[j] # "none"
               /\ stage'[j] = "edit" <=> answer'[j] # "none"
      BY <1>1 DEF Returns, SlotsOK, Outcomes
  <2> QED
      BY <2>1, <2>2 DEF SlotsOK
<1>3. PcFits'
    BY <1>1 DEF PcFits, SlotsOK, AddSteps, RemoveSteps, OtherSteps, AppSteps
<1> QED
    BY <1>1, <1>2, <1>3

-----------------------------------------------------------------------------
(* The title and its files.                                                *)

CleanSteps == {"clean first", "clean second"}

\* A step of slot i that neither cleans nor untracks.
LEMMA TitleKept ==
    ASSUME SlotsOK, MediaOK, Ids, Unexcused, Placed, NEW i \in Slots,
           \A j \in Slots : j # i => pc'[j] = pc[j],
           pc[i] \notin CleanSteps, pc'[i] \notin CleanSteps,
           tracked' \in BOOLEAN, tracked => tracked', valid' \in [Slots -> BOOLEAN],
           \A j \in Slots : valid'[j] => tracked' /\ (valid[j] \/ j = i),
           UNCHANGED <<indexed, local, das, mover, excused, missed>>
    PROVE  MediaOK' /\ Ids' /\ Unexcused' /\ Placed'
<1>1. \A j \in Slots : \A q \in CleanSteps : pc'[j] = q <=> pc[j] = q
    BY DEF SlotsOK, CleanSteps
<1>2. MediaOK'
    BY DEF MediaOK, fileVars
<1>3. Ids'
    BY <1>1 DEF Ids, Cleaning, CleanSteps, MediaOK
<1>4. Unexcused'
  <2>1. ToClean => ToClean'
      BY <1>1 DEF ToClean, ToPass, Mirror, MediaOK, CleanSteps
  <2>2. WorkerApart => WorkerApart'
      BY <1>1 DEF WorkerApart, CleanSteps
  <2>3. MissedAlone => MissedAlone'
      BY <1>1 DEF MissedAlone, CleanSteps
  <2> QED
      BY <2>1, <2>2, <2>3 DEF Unexcused
<1>5. Placed'
    BY DEF Placed
<1> QED
    BY <1>2, <1>3, <1>4, <1>5

\* One that does not restart anything.
LEMMA AwaitedKept ==
    ASSUME SlotsOK, RestartOK, Awaited, NEW i \in Slots, NEW p,
           pc' = [pc EXCEPT ![i] = p], pc[i] \notin {"pgrep", "open"},
           UNCHANGED appVars
    PROVE  RestartOK' /\ Awaited'
<1>1. \A j \in Slots : \A q \in {"pgrep", "open"} : pc[j] = q => pc'[j] = q
    BY DEF SlotsOK
<1>2. RestartOK'
    BY DEF RestartOK, appVars, histVars
<1>3. Awaited'
    BY <1>1 DEF Awaited, AppAwaited, Accounted, App, Restarting, appVars, histVars
<1> QED
    BY <1>2, <1>3

LEMMA InteractInv ==
    ASSUME IInv, NEW i \in Slots, Interact(i)
    PROVE  IInv'
<1>1. UNCHANGED mediaVars /\ UNCHANGED appVars
    BY DEF Interact
<1> DEFINE Ordinary == pc[i] \notin CleanSteps \cup {"pgrep", "open"}
<1>2. ASSUME NEW p, pc' = [pc EXCEPT ![i] = p], p \notin CleanSteps, Ordinary,
             SlotsOK', PcFits'
      PROVE  IInv'
  <2>1. /\ valid' \in [Slots -> BOOLEAN]
        /\ \A j \in Slots : valid'[j] => tracked' /\ (valid[j] \/ j = i)
        /\ tracked' \in BOOLEAN
        /\ tracked => tracked'
        /\ UNCHANGED <<indexed, local, das, mover, excused, missed>>
      BY <1>1 DEF IInv, TypeOK, MediaOK, Ids, mediaVars
  <2>2. MediaOK' /\ Ids' /\ Unexcused' /\ Placed'
    <3>1. /\ SlotsOK /\ MediaOK /\ Ids /\ Unexcused /\ Placed
          /\ \A j \in Slots : j # i => pc'[j] = pc[j]
          /\ pc[i] \notin CleanSteps /\ pc'[i] \notin CleanSteps
        BY <1>2 DEF IInv, TypeOK, SlotsOK
    <3> QED
        BY <2>1, <3>1, TitleKept
  <2>3. RestartOK' /\ Awaited'
      BY <1>1, <1>2, AwaitedKept DEF IInv, TypeOK
  <2> QED
      BY <1>2, <2>2, <2>3 DEF IInv, TypeOK
<1>3. ASSUME NEW c \in Commands, NEW isAdmin \in BOOLEAN, Receive(i, c, isAdmin)
      PROVE  IInv'
  <2>1. pc[i] = "none" /\ pc' = [pc EXCEPT ![i] = "none"] /\ Ordinary
      BY <1>3 DEF Receive, IInv, TypeOK, SlotsOK, CleanSteps
  <2>2. SlotsOK'
      BY <1>3, StepNames DEF Receive, IInv, TypeOK, SlotsOK
  <2>3. PcFits'
      BY <1>3, <2>1 DEF Receive, IInv, TypeOK, SlotsOK, PcFits, AddSteps, RemoveSteps,
          OtherSteps, AppSteps
  <2> QED
      BY <1>2, <2>1, <2>2, <2>3 DEF CleanSteps
<1>4. CASE Free(i) /\ stage[i] # "run"
  <2>1. pc[i] = "none" /\ pc' = [pc EXCEPT ![i] = "none"] /\ Ordinary
      BY <1>4 DEF Free, IInv, TypeOK, SlotsOK, CleanSteps
  <2>2. SlotsOK'
      BY <1>4, StepNames DEF Free, IInv, TypeOK, SlotsOK
  <2>3. PcFits'
      BY <1>4, <2>1 DEF Free, IInv, TypeOK, SlotsOK, PcFits, AddSteps, RemoveSteps,
          OtherSteps, AppSteps
  <2> QED
      BY <1>2, <2>1, <2>2, <2>3 DEF CleanSteps
<1>5. CASE Defer(i, Entry(cmd[i]))
  <2> DEFINE p == Entry(cmd[i])
  <2>1. p \in AllSteps /\ p \notin CleanSteps
      BY DEF Entry, AllSteps, MediaSteps, AppSteps, CleanSteps
  <2>2. pc[i] = "none" /\ pc' = [pc EXCEPT ![i] = p] /\ Ordinary /\ pc'[i] = p
      BY <1>5 DEF Defer, IInv, TypeOK, SlotsOK, CleanSteps
  <2>3. SlotsOK'
      BY <1>5, <2>1, <2>2, StepNames DEF Defer, IInv, TypeOK, SlotsOK
  <2>4. /\ p = "search" => cmd[i] = "search"
        /\ p \in AddSteps => cmd[i] = "add"
        /\ p \in RemoveSteps => cmd[i] = "remove"
        /\ p \in OtherSteps => cmd[i] \notin {"search", "add", "remove"}
      BY DEF Entry, AddSteps, RemoveSteps, OtherSteps, AppSteps
  <2>5. PcFits'
      BY <1>5, <2>2, <2>4 DEF Defer, IInv, TypeOK, SlotsOK, PcFits
  <2> QED
      BY <1>2, <2>1, <2>2, <2>3, <2>5
<1>6. CASE Exchange(i) \/ Local(i)
  <2>1. \E a \in {"Failed", "Done"} : Answers(i, a)
      BY <1>6 DEF Exchange, Local
  <2>2. stage[i] = "run" /\ pc[i] \in {"exchange", "local"} /\ Ordinary
      BY <1>6 DEF Exchange, Local, Runs, CleanSteps
  <2>3. \E a : Returns(i, a)
      BY <2>1, <2>2 DEF Returns, Outcomes
  <2> QED
      BY <1>2, <2>2, <2>3, ReturnsFits DEF IInv, TypeOK, CleanSteps
<1>7. CASE Refuse(i) \/ DeferFails(i)
    BY <1>4, <1>7 DEF Refuse, DeferFails
<1> QED
    BY <1>3, <1>5, <1>6, <1>7 DEF Interact

\* A call of Radarr that does not end in a DELETE carried out.
LEMMA CallInv ==
    ASSUME IInv, NEW i \in Slots, UNCHANGED appVars,
           \/ BadOptions(i) \/ CallFails(i) \/ Search(i) \/ AddLookup(i) \/ Target(i)
           \/ Post(i) \/ RemoveLookup(i) \/ Get(i)
    PROVE  IInv'
<1>1. pc[i] \in MediaSteps \ CleanSteps /\ stage[i] = "run"
    BY DEF BadOptions, CallFails, Search, AddLookup, Target, Post, RemoveLookup, Get,
        Runs, MediaSteps, CleanSteps
<1>2. \/ \E a \in Outcomes : Answers(i, a)
      \/ /\ pc[i] \in AddSteps
         /\ \E p \in AddSteps : Goto(i, p)
      \/ /\ pc[i] \in RemoveSteps
         /\ \E p \in RemoveSteps \ CleanSteps : Goto(i, p)
  <2>1. CASE BadOptions(i) \/ CallFails(i) \/ Search(i) \/ Post(i)
      BY <2>1 DEF BadOptions, CallFails, Search, Post, AddReturns, RemoveReturns, Outcomes
  <2>2. CASE AddLookup(i) \/ Target(i)
      BY <2>2 DEF AddLookup, Target, AddReturns, Runs, Outcomes, AddSteps
  <2>3. CASE RemoveLookup(i) \/ Get(i)
      BY <2>3 DEF RemoveLookup, Get, Runs, Outcomes, RemoveSteps, CleanSteps
  <2> QED
      BY <2>1, <2>2, <2>3
<1>3. /\ SlotsOK' /\ PcFits'
      /\ \E p : pc' = [pc EXCEPT ![i] = p] /\ p \notin CleanSteps
  <2>1. CASE \E a \in Outcomes : Answers(i, a)
      BY <1>1, <2>1, ReturnsFits DEF Returns, IInv, TypeOK, CleanSteps
  <2>2. CASE pc[i] \in AddSteps /\ \E p \in AddSteps : Goto(i, p)
    <3>1. PICK p \in AddSteps : Goto(i, p)
        BY <2>2
    <3>2. GoesOn(i, p) /\ p \notin CleanSteps
        BY <1>1, <2>2, <3>1
        DEF GoesOn, Family, AddSteps, RemoveSteps, AllSteps, MediaSteps, CleanSteps
    <3> QED
        BY <3>2, GoesOnFits DEF IInv, TypeOK
  <2>3. CASE pc[i] \in RemoveSteps /\ \E p \in RemoveSteps \ CleanSteps : Goto(i, p)
    <3>1. PICK p \in RemoveSteps \ CleanSteps : Goto(i, p)
        BY <2>3
    <3>2. GoesOn(i, p)
        BY <1>1, <2>3, <3>1
        DEF GoesOn, Family, AddSteps, RemoveSteps, AllSteps, MediaSteps
    <3> QED
        BY <3>1, <3>2, GoesOnFits DEF IInv, TypeOK
  <2> QED
      BY <1>2, <2>1, <2>2, <2>3
<1>4. UNCHANGED <<indexed, local, das, mover, excused, missed>>
    BY DEF BadOptions, CallFails, Search, AddLookup, Target, Post, RemoveLookup, Get,
        mediaVars, fileVars, history
<1>5. /\ tracked' \in BOOLEAN
      /\ tracked => tracked'
      /\ valid' \in [Slots -> BOOLEAN]
      /\ \A j \in Slots : valid'[j] => tracked' /\ (valid[j] \/ j = i)
  <2>1. tracked' \in BOOLEAN /\ (tracked => tracked')
      BY DEF BadOptions, CallFails, Search, AddLookup, Target, Post, RemoveLookup, Get,
          mediaVars, IInv, TypeOK, MediaOK
  <2>2. CASE valid' = valid
      BY <2>1, <2>2 DEF IInv, TypeOK, MediaOK, Ids
  <2>3. CASE \E v \in BOOLEAN : valid' = [valid EXCEPT ![i] = v] /\ (v => tracked)
      BY <2>1, <2>3 DEF IInv, TypeOK, MediaOK, Ids
  <2>4. \/ valid' = valid
        \/ valid' = [valid EXCEPT ![i] = FALSE]
        \/ valid' = [valid EXCEPT ![i] = tracked]
      BY DEF BadOptions, CallFails, Search, AddLookup, Target, Post, RemoveLookup, Get,
          mediaVars, AddReturns, RemoveReturns
  <2> QED
      BY <2>2, <2>3, <2>4 DEF IInv, TypeOK, MediaOK
<1>6. /\ \A j \in Slots : j # i => pc'[j] = pc[j]
      /\ pc[i] \notin CleanSteps \cup {"pgrep", "open"} /\ pc'[i] \notin CleanSteps
    BY <1>1, <1>3 DEF IInv, TypeOK, SlotsOK, MediaSteps, CleanSteps
<1>7. MediaOK' /\ Ids' /\ Unexcused' /\ Placed'
    BY <1>4, <1>5, <1>6, TitleKept DEF IInv, TypeOK
<1>8. RestartOK' /\ Awaited'
    BY <1>3, <1>6, AwaitedKept DEF IInv, TypeOK
<1> QED
    BY <1>3, <1>7, <1>8 DEF IInv, TypeOK

LEMMA DeleteInv ==
    ASSUME IInv, NEW i \in Slots, UNCHANGED appVars, Delete(i)
    PROVE  IInv'
<1>1. /\ stage[i] = "run" /\ pc[i] = "delete" /\ tracked' = FALSE
      /\ valid' = [j \in Slots |-> FALSE]
      /\ UNCHANGED <<indexed, local, das, mover, missed>>
      /\ \/ Goto(i, "clean first") /\ excused' = excused
         \/ Answers(i, "Failed") /\ excused' = (excused \/ Leftovers)
    BY DEF Delete, Runs, fileVars
<1>2. /\ SlotsOK' /\ PcFits'
      /\ \/ pc' = [pc EXCEPT ![i] = "clean first"] /\ excused' = excused
         \/ pc' = [pc EXCEPT ![i] = "none"] /\ excused' = (excused \/ Leftovers)
  <2>1. CASE Goto(i, "clean first") /\ excused' = excused
    <3>1. GoesOn(i, "clean first")
        BY <1>1, <2>1 DEF GoesOn, Family, AddSteps, RemoveSteps, AllSteps, MediaSteps
    <3> QED
        BY <2>1, <3>1, GoesOnFits DEF IInv, TypeOK
  <2>2. CASE Answers(i, "Failed") /\ excused' = (excused \/ Leftovers)
    <3>1. Returns(i, "Failed")
        BY <1>1, <2>2 DEF Returns, Outcomes
    <3> QED
        BY <2>2, <3>1, ReturnsFits DEF IInv, TypeOK
  <2> QED
      BY <1>1, <2>1, <2>2
<1>3. MediaOK' /\ Ids'
    BY <1>1, <1>2 DEF IInv, TypeOK, MediaOK, Ids, Leftovers
<1>4. Unexcused'
  <2> SUFFICES ASSUME ~excused' PROVE ToClean' /\ WorkerApart' /\ MissedAlone'
      BY DEF Unexcused
  <2>1. ToClean /\ WorkerApart /\ MissedAlone
    <3>1. excused => excused'
        BY DEF Delete
    <3> QED
        BY <3>1 DEF IInv, Unexcused
  <2>2. ToClean'
    <3>1. CASE pc'[i] = "clean first"
        BY <1>1, <3>1 DEF ToClean, ToPass
    <3>2. CASE ~Leftovers
        BY <1>1, <3>2 DEF ToClean, Leftovers
    <3> QED
        BY <1>2, <3>1, <3>2 DEF IInv, TypeOK, SlotsOK
  <2>3. WorkerApart'
      BY <1>1, <1>2, <2>1 DEF WorkerApart, IInv, TypeOK, SlotsOK
  <2>4. MissedAlone'
      BY <1>1, <1>2, <2>1 DEF MissedAlone, IInv, TypeOK, SlotsOK
  <2> QED
      BY <2>2, <2>3, <2>4
<1>5. RestartOK' /\ Awaited'
    BY <1>1, <1>2, AwaitedKept DEF IInv, TypeOK
<1>6. Placed'
    BY <1>1 DEF IInv, Placed
<1> QED
    BY <1>2, <1>3, <1>4, <1>5, <1>6 DEF IInv, TypeOK

LEMMA CleanInv ==
    ASSUME IInv, NEW i \in Slots, UNCHANGED appVars, Cleans(i)
    PROVE  IInv'
<1>1. /\ stage[i] = "run" /\ pc[i] \in CleanSteps /\ UNCHANGED <<tracked, indexed, mover>>
      /\ excused' \in BOOLEAN /\ (excused => excused') /\ missed' \in BOOLEAN
      /\ local' \in {"none", local} /\ das' \in {FALSE, das}
    BY DEF Cleans, CleanFirst, CleanSecond, CleanFails, Runs, RemovePath, PathGone, PathMissed,
        Races, CleanSteps, fileVars, IInv, TypeOK, MediaOK
<1>2. /\ SlotsOK' /\ PcFits'
      /\ \/ /\ CleanFirst(i) /\ pc[i] = "clean first"
            /\ pc' = [pc EXCEPT ![i] = "clean second"]
         \/ /\ CleanSecond(i) /\ pc[i] = "clean second"
            /\ pc' = [pc EXCEPT ![i] = "none"]
         \/ CleanFails(i) /\ pc' = [pc EXCEPT ![i] = "none"]
  <2>1. CASE CleanFirst(i)
    <3>1. GoesOn(i, "clean second") /\ pc[i] = "clean first"
        BY <1>1, <2>1
        DEF CleanFirst, Runs, GoesOn, Family, AddSteps, RemoveSteps, AllSteps, MediaSteps
    <3> QED
        BY <2>1, <3>1, GoesOnFits DEF IInv, TypeOK
  <2>2. CASE CleanSecond(i)
    <3>1. Returns(i, "Removed") /\ pc[i] = "clean second"
        BY <1>1, <2>2 DEF CleanSecond, Runs, RemoveReturns, Returns, Outcomes
    <3> QED
        BY <2>2, <3>1, ReturnsFits DEF IInv, TypeOK
  <2>3. CASE CleanFails(i)
    <3>1. Returns(i, "Failed")
        BY <1>1, <2>3 DEF CleanFails, RemoveReturns, Returns, Outcomes
    <3> QED
        BY <2>3, <3>1, ReturnsFits DEF IInv, TypeOK
  <2> QED
      BY <2>1, <2>2, <2>3 DEF Cleans
<1>3. valid' \in [Slots -> BOOLEAN] /\ \A j \in Slots : valid'[j] => valid[j]
    BY DEF Cleans, CleanFirst, CleanSecond, CleanFails, RemoveReturns, IInv, TypeOK, MediaOK
<1>4. MediaOK'
    BY <1>1, <1>3 DEF IInv, TypeOK, MediaOK
<1>5. Ids'
  <2>1. \A j \in Slots : Cleaning(j)' => Cleaning(j)
      BY <1>1, <1>2 DEF Cleaning, CleanSteps, IInv, TypeOK, SlotsOK
  <2> QED
      BY <1>1, <1>3, <2>1 DEF IInv, Ids
<1>6. Unexcused'
  <2> SUFFICES ASSUME ~excused' PROVE ToClean' /\ WorkerApart' /\ MissedAlone'
      BY DEF Unexcused
  <2>0. mover = "idle" /\ mover' = "idle"
    <3>1. CASE CleanFirst(i) \/ CleanSecond(i)
        BY <1>1, <3>1 DEF CleanFirst, CleanSecond, RemovePath, Races, IInv, TypeOK, MediaOK
    <3>2. CASE CleanFails(i)
        BY <1>1, <3>2 DEF CleanFails, Races, IInv, TypeOK, MediaOK
    <3> QED
        BY <3>1, <3>2 DEF Cleans
  <2>1. ToClean /\ WorkerApart /\ MissedAlone
      BY <1>1 DEF IInv, Unexcused, TypeOK, MediaOK
\* An error that finds nothing left leaves nothing.
  <2>8. CASE CleanFails(i)
    <3>1. local = "none" /\ ~das
        BY <2>8 DEF CleanFails, Leftovers, IInv, TypeOK, MediaOK
    <3>2. UNCHANGED <<local, das, missed>>
        BY <2>8 DEF CleanFails, fileVars
    <3>3. ~missed
        BY <2>1, <3>1 DEF MissedAlone
    <3> QED
        BY <2>0, <3>1, <3>2, <3>3 DEF ToClean, WorkerApart, MissedAlone
  <2>9. SUFFICES ASSUME ~CleanFails(i) PROVE ToClean' /\ WorkerApart' /\ MissedAlone'
      BY <2>8
  <2>2. WorkerApart'
      BY <2>0 DEF WorkerApart
  <2>3. ASSUME NEW j \in Slots, j # i
        PROVE  pc'[j] = pc[j]
      BY <1>2, <2>3 DEF IInv, TypeOK, SlotsOK
\* The path p that is removed.
  <2> DEFINE p == IF CleanFirst(i) THEN indexed ELSE Mirror(indexed)
  <2>4. /\ p \in {"local", "das"} /\ (PathGone(p) \/ PathMissed(p))
        /\ IF CleanFirst(i)
              THEN pc[i] = "clean first" /\ pc'[i] = "clean second"
              ELSE pc[i] = "clean second" /\ pc'[i] = "none"
    <3>1. CASE CleanFirst(i)
      <4>1. p = indexed
          BY <3>1
      <4>2. pc[i] = "clean first" /\ pc'[i] = "clean second"
          BY <3>1 DEF CleanFirst, Runs, Goto, IInv, TypeOK, SlotsOK
      <4> QED
          BY <3>1, <4>1, <4>2 DEF CleanFirst, RemovePath, IInv, TypeOK, MediaOK
    <3>2. CASE ~CleanFirst(i)
      <4>1. p = Mirror(indexed) /\ CleanSecond(i)
          BY <2>9, <3>2 DEF Cleans
      <4>2. pc[i] = "clean second" /\ pc'[i] = "none"
          BY <4>1 DEF CleanSecond, Runs, RemoveReturns, Answers, IInv, TypeOK, SlotsOK
      <4> QED
          BY <3>2, <4>1, <4>2 DEF CleanSecond, RemovePath, Mirror
    <3> QED
        BY <3>1, <3>2
  <2>5. ASSUME NEW q \in {"local", "das"}, q # p, ToPass(q)
        PROVE  ToPass(q)'
    <3>1. PICK j \in Slots : \/ pc[j] = "clean first"
                             \/ (pc[j] = "clean second" /\ q = Mirror(indexed))
        BY <2>5 DEF ToPass
    <3>2. CASE j # i
      <4>1. pc'[j] = pc[j] /\ indexed' = indexed
          BY <1>1, <2>3, <3>2
      <4> QED
          BY <3>1, <4>1 DEF ToPass, Mirror
    <3>3. CASE j = i
      <4>1. CleanFirst(i) /\ q = Mirror(indexed) /\ pc'[i] = "clean second"
        <5>1. ~CleanFirst(i) => FALSE
            BY <2>4, <2>5, <3>1, <3>3
        <5>2. indexed \in {"local", "das"} /\ p = indexed
            BY <5>1 DEF IInv, TypeOK, MediaOK
        <5> QED
            BY <2>4, <2>5, <5>1, <5>2 DEF Mirror
      <4> QED
          BY <1>1, <4>1 DEF ToPass, Mirror
    <3> QED
        BY <3>2, <3>3
  <2>10. p = "local" => local' = "none" /\ das' = das /\ missed' = missed
    <3> HAVE p = "local"
    <3>1. PathGone("local")
        BY <2>4 DEF PathMissed
    <3> QED
        BY <3>1 DEF PathGone, IInv, TypeOK, MediaOK
  <2>6. ToClean'
    <3>1. CASE p = "local"
      <4>1. local' = "none" /\ das' = das /\ missed' = missed
          BY <2>10, <3>1
      <4> QED
          BY <1>1, <2>1, <2>5, <3>1, <4>1 DEF ToClean, IInv, TypeOK, MediaOK
    <3>2. CASE p = "das"
      <4>1. local' = local /\ (~das' \/ missed')
          BY <2>4, <3>2 DEF PathGone, PathMissed
      <4> QED
          BY <1>1, <2>1, <2>5, <3>2, <4>1 DEF ToClean
    <3> QED
        BY <2>4, <3>1, <3>2
  <2>7. MissedAlone'
    <3>1. CASE p = "local"
      <4>1. local' = "none" /\ das' = das /\ missed' = missed
          BY <2>10, <3>1
      <4> QED
          BY <2>0, <2>1, <4>1 DEF MissedAlone
    <3>2. CASE PathGone("das")
        BY <3>2 DEF PathGone, MissedAlone, IInv, TypeOK, MediaOK
    <3>3. CASE PathMissed("das") /\ p = "das"
      <4>1. das /\ das' /\ local' = local
          BY <3>3 DEF PathMissed
      <4>2. local = "none"
        <5>1. CASE indexed = "das"
            BY <5>1 DEF IInv, Placed
        <5>2. CASE indexed = "local"
          <6>1. pc[i] = "clean second"
              BY <2>4, <3>3, <5>2 DEF Mirror
          <6> QED
              BY <2>1, <4>1, <5>2, <6>1 DEF MissedAlone
        <5> QED
            BY <5>1, <5>2 DEF IInv, TypeOK, MediaOK
      <4> QED
          BY <2>0, <2>1, <4>1, <4>2 DEF MissedAlone
    <3> QED
        BY <2>4, <3>1, <3>2, <3>3
  <2> QED
      BY <2>2, <2>6, <2>7
<1>7. RestartOK' /\ Awaited'
    BY <1>1, <1>2, AwaitedKept DEF IInv, TypeOK, CleanSteps
<1>8. Placed'
    BY <1>1 DEF IInv, TypeOK, MediaOK, Placed
<1> QED
    BY <1>2, <1>4, <1>5, <1>6, <1>7, <1>8 DEF IInv, TypeOK

LEMMA FilesInv ==
    ASSUME IInv, Files, UNCHANGED appVars
    PROVE  IInv'
<1>1. /\ UNCHANGED slotVars /\ UNCHANGED <<tracked, valid, indexed>>
    BY DEF Files, Import, MoveBegins, MoveCopies, MoveFails, MoveRemoves,
        MoveLinks, OfFiles
<1>2. MediaOK'
    BY <1>1 DEF Files, Import, MoveBegins, MoveCopies, MoveFails, MoveRemoves, MoveLinks, history,
        IInv, TypeOK, MediaOK, Leftovers
<1>3. SlotsOK' /\ PcFits' /\ Ids'
    BY <1>1 DEF slotVars, IInv, TypeOK, SlotsOK, PcFits, Ids, Cleaning
<1>4. RestartOK' /\ Awaited'
    BY <1>1 DEF slotVars, appVars, histVars, IInv, TypeOK, RestartOK, Awaited, AppAwaited,
        Accounted, App, Restarting
<1>5. Placed'
    BY <1>1 DEF Files, Import, MoveBegins, MoveCopies, MoveFails, MoveRemoves, MoveLinks,
        IInv, TypeOK, MediaOK, Placed
<1>6. Unexcused'
  <2> SUFFICES ASSUME ~excused' PROVE ToClean' /\ WorkerApart' /\ MissedAlone'
      BY DEF Unexcused
  <2>1. CASE Import
    <3>1. tracked /\ mover = "idle" /\ mover' = "idle"
      <4>1. ~Leftovers /\ tracked /\ mover' = mover /\ excused' = (excused /\ mover # "idle")
          BY <2>1 DEF Import
      <4>2. ~excused => WorkerApart
          BY DEF IInv, Unexcused
      <4> QED
          BY <4>1, <4>2 DEF WorkerApart, Leftovers, IInv, TypeOK, MediaOK
    <3>2. MissedAlone'
        BY <1>1, <2>1 DEF Import, MissedAlone
    <3> QED
        BY <1>1, <3>1, <3>2 DEF ToClean, WorkerApart
  <2>2. ASSUME excused' = excused \/ MoveBegins
        PROVE  ToClean /\ WorkerApart /\ MissedAlone
      BY <2>2 DEF MoveBegins, IInv, Unexcused, TypeOK, MediaOK
  <2>3. CASE MoveBegins
    <3>1. \A i \in Slots : pc[i] # "clean second"
        BY <2>3 DEF MoveBegins, Cleaning, IInv, TypeOK, MediaOK
    <3>2. mover' = "copying" /\ local = "files" /\ UNCHANGED <<local, das, missed>>
        BY <2>3 DEF MoveBegins
    <3>3. ToClean'
        BY <1>1, <2>2, <2>3, <3>2 DEF ToClean, ToPass, Mirror, slotVars
    <3>4. WorkerApart'
        BY <1>1, <3>1, <3>2 DEF WorkerApart, slotVars
    <3>5. MissedAlone'
        BY <1>1, <2>2, <2>3, <3>1, <3>2 DEF MissedAlone, slotVars
    <3> QED
        BY <3>3, <3>4, <3>5
  <2>4. CASE MoveCopies \/ MoveFails \/ MoveRemoves \/ MoveLinks
    <3>1. /\ ToClean /\ WorkerApart /\ MissedAlone /\ mover # "idle" /\ missed' = missed
        BY <2>2, <2>4 DEF MoveCopies, MoveFails, MoveRemoves, MoveLinks, history
    <3>2. ~missed /\ \A i \in Slots : pc[i] # "clean second"
        BY <3>1 DEF WorkerApart, MissedAlone
    <3>3. local # "none" \/ das
        BY <3>1 DEF WorkerApart, IInv, TypeOK, MediaOK
    <3>4. ~tracked => \E i \in Slots : pc[i] = "clean first"
        BY <3>1, <3>2, <3>3 DEF ToClean, ToPass
    <3>5. ToClean'
        BY <1>1, <3>4 DEF ToClean, ToPass, slotVars
    <3>6. WorkerApart'
        BY <1>1, <2>4, <3>1
        DEF WorkerApart, MoveCopies, MoveFails, MoveRemoves, MoveLinks, slotVars, IInv, TypeOK,
            MediaOK
    <3>7. MissedAlone'
        BY <1>1, <3>1, <3>2 DEF MissedAlone, slotVars
    <3> QED
        BY <3>5, <3>6, <3>7
  <2> QED
      BY <2>1, <2>3, <2>4 DEF Files
<1> QED
    BY <1>2, <1>3, <1>4, <1>5, <1>6 DEF IInv, TypeOK

-----------------------------------------------------------------------------
(* The apps.                                                               *)

LEMMA AppNames == \A i \in Slots : RestartOK => App(i) \in AppSet
BY AppsAssumption DEF RestartOK, App, AppSet

\* On to the next app with this one accounted for.
LEMMA NextAppFits ==
    ASSUME SlotsOK, PcFits, RestartOK, NEW i \in Slots, stage[i] = "run",
           pc[i] \in AppSteps, NextApp(i)
    PROVE  /\ SlotsOK' /\ PcFits' /\ at' \in [Slots -> 1 .. Len(Apps)]
           /\ \A j \in Slots : j # i => pc'[j] = pc[j] /\ at'[j] = at[j]
           /\ pc'[i] \in {"bundle", "none"}
<1>1. CASE at[i] < Len(Apps)
  <2>1. at' = [at EXCEPT ![i] = @ + 1] /\ GoesOn(i, "bundle")
      BY <1>1 DEF NextApp, GoesOn, AllSteps, AppSteps, Family, AddSteps, RemoveSteps
  <2>2. at[i] \in 1 .. Len(Apps) /\ Len(Apps) \in Nat
      BY AppsAssumption DEF RestartOK
  <2> QED
      BY <1>1, <2>1, <2>2, GoesOnFits DEF RestartOK, SlotsOK
<1>2. CASE ~(at[i] < Len(Apps))
  <2>1. at' = [at EXCEPT ![i] = 1] /\ Returns(i, "Restarted")
      BY <1>2 DEF NextApp, Returns, Outcomes
  <2>2. 1 \in 1 .. Len(Apps)
      BY AppsAssumption
  <2> QED
      BY <2>1, <2>2, ReturnsFits DEF RestartOK, SlotsOK
<1> QED
    BY <1>1, <1>2

\* A step of slot i is about its own app only.
LEMMA OtherApps ==
    ASSUME IInv, NEW i \in Slots, NEW a \in AppSet, a # App(i),
           \A j \in Slots : j # i => pc'[j] = pc[j] /\ at'[j] = at[j],
           up'[a] = up[a], a \in settled => a \in settled',
           \A j \in Slots : a \in lines[j] => a \in lines'[j]
    PROVE  AppAwaited(a)'
<1>1. \A j \in Slots : App(j) = a => pc'[j] = pc[j] /\ App(j)' = a
    BY DEF App
<1> QED
    BY <1>1 DEF IInv, Awaited, AppAwaited, Accounted, Restarting

LEMMA RestartsInv ==
    ASSUME IInv, NEW i \in Slots, UNCHANGED mediaVars, Restarts(i)
    PROVE  IInv'
<1> DEFINE a == App(i)
<1>1. stage[i] = "run" /\ pc[i] \in AppSteps /\ a \in AppSet
    BY AppNames DEF Restarts, Bundle, Pkill, Pgrep, PgrepGivesUp, OpenApp, OpenFails, Runs,
        AppSteps, IInv, TypeOK
\* The five ways a step of a restart can go.
<1> DEFINE Goes == Bundle(i) /\ Goto(i, "pkill") /\ UNCHANGED appVars
           Signals == /\ pc[i] = "pkill" /\ Goto(i, "pgrep") /\ UNCHANGED <<at, histVars>>
                      /\ up' = [up EXCEPT ![a] = IF @ = "down" THEN @ ELSE "stopping"]
           Sees == pc[i] = "pgrep" /\ Goto(i, "open") /\ UNCHANGED appVars
           Opens == pc[i] = "open" /\ OpenApp(i)
           Errs == /\ Reports(i)
                   /\ up' \in {up, [up EXCEPT ![a] = IF @ = "down" THEN @ ELSE "stopping"]}
<1>2. Goes \/ Signals \/ Sees \/ Opens \/ Errs
  <2>1. CASE Bundle(i)
      BY <2>1 DEF Bundle, appVars, histVars
  <2>2. CASE Pkill(i)
      BY <2>2 DEF Pkill, Runs
  <2>3. CASE Pgrep(i)
      BY <2>3 DEF Pgrep, Runs
  <2>4. CASE PgrepGivesUp(i) \/ OpenFails(i)
      BY <2>4 DEF PgrepGivesUp, OpenFails
  <2>5. CASE OpenApp(i)
      BY <2>5 DEF OpenApp, Runs
  <2> QED
      BY <2>1, <2>2, <2>3, <2>4, <2>5 DEF Restarts
<1>3. ASSUME NEW p \in AppSteps, Goto(i, p)
      PROVE  SlotsOK' /\ PcFits' /\ pc' = [pc EXCEPT ![i] = p] /\ pc'[i] = p
  <2>1. GoesOn(i, p)
      BY <1>1, <1>3
      DEF GoesOn, AllSteps, AppSteps, Family, AddSteps, RemoveSteps
  <2> QED
      BY <2>1, GoesOnFits DEF IInv, TypeOK
<1>4. CASE Goes \/ Signals \/ Sees
  <2>1. \/ Goes /\ Goto(i, "pkill")
        \/ Signals /\ Goto(i, "pgrep")
        \/ Sees /\ Goto(i, "open")
      BY <1>4
  <2>2. /\ SlotsOK' /\ PcFits'
        /\ \A j \in Slots : j # i => pc'[j] = pc[j]
        /\ pc'[i] \in AppSteps
      BY <1>3, <2>1 DEF AppSteps, IInv, TypeOK, SlotsOK
  <2>3. RestartOK' /\ at' = at /\ settled' = settled /\ lines' = lines
        /\ \A b \in AppSet : b # a => up'[b] = up[b]
      BY <1>1, <1>4 DEF appVars, histVars, IInv, TypeOK, RestartOK
  <2>4. ASSUME NEW b \in AppSet, b = a
        PROVE  AppAwaited(b)'
    <3>0. App(i)' = b /\ \A j \in Slots : App(j)' = App(j)
        BY <2>3, <2>4 DEF App
    <3>1. CASE Goes
      <4>1. pc[i] = "bundle" /\ up' = up
          BY <3>1 DEF Bundle, Runs, appVars
      <4> QED
          BY <2>2, <2>3, <2>4, <3>0, <4>1 DEF IInv, Awaited, AppAwaited, Accounted, Restarting
    <3>2. CASE Signals
      <4>1. pc'[i] = "pgrep"
          BY <1>3, <3>2 DEF AppSteps
      <4> QED
          BY <3>0, <4>1 DEF AppAwaited, Restarting
    <3>3. CASE Sees
      <4>1. pc'[i] = "open" /\ up' = up
          BY <1>3, <3>3 DEF AppSteps, appVars
      <4>2. up[a] = "down"
        <5>1. Pgrep(i)
            BY <3>3 DEF Restarts, Bundle, Pkill, PgrepGivesUp, OpenApp, OpenFails, Runs,
                Reports, NextApp, Goto, Answers, appVars, IInv, TypeOK, SlotsOK
        <5> QED
            BY <5>1 DEF Pgrep
      <4> QED
          BY <2>4, <3>0, <4>1, <4>2 DEF AppAwaited, Restarting
    <3> QED
        BY <1>4, <3>1, <3>2, <3>3
  <2>5. Awaited'
    <3>1. ASSUME NEW b \in AppSet
          PROVE  AppAwaited(b)'
      <4>1. CASE b = a
          BY <2>4, <4>1
      <4>2. CASE b # a
        <5>1. /\ up'[b] = up[b] /\ (b \in settled => b \in settled')
              /\ \A j \in Slots : b \in lines[j] => b \in lines'[j]
              /\ \A j \in Slots : j # i => pc'[j] = pc[j] /\ at'[j] = at[j]
            BY <2>2, <2>3, <4>2
        <5> QED
            BY <4>2, <5>1, OtherApps
      <4> QED
          BY <4>1, <4>2
    <3> QED
        BY <3>1 DEF Awaited
  <2>6. pc[i] \notin CleanSteps /\ pc'[i] \notin CleanSteps
      BY <1>1, <2>2 DEF AppSteps, CleanSteps
  <2>7. MediaOK' /\ Ids' /\ Unexcused' /\ Placed'
      BY <2>2, <2>6, TitleKept DEF IInv, TypeOK, MediaOK, Ids, mediaVars
  <2> QED
      BY <2>2, <2>3, <2>5, <2>7 DEF IInv, TypeOK
<1>5. CASE Opens \/ Errs
  <2>1. NextApp(i)
      BY <1>5 DEF OpenApp, Reports
  <2>2. /\ SlotsOK' /\ PcFits' /\ at' \in [Slots -> 1 .. Len(Apps)]
        /\ \A j \in Slots : j # i => pc'[j] = pc[j] /\ at'[j] = at[j]
        /\ pc'[i] \in {"bundle", "none"}
      BY <1>1, <2>1, NextAppFits DEF IInv, TypeOK
  <2>3. /\ RestartOK'
        /\ \A b \in AppSet : b # a => /\ up'[b] = up[b] /\ (b \in settled => b \in settled')
                                      /\ \A j \in Slots : b \in lines[j] => b \in lines'[j]
    <3>1. CASE Errs
      <4>1. /\ up' \in [AppSet -> {"running", "stopping", "down"}]
            /\ \A b \in AppSet : b # a => up'[b] = up[b]
          BY <1>1, <3>1 DEF IInv, TypeOK, RestartOK
      <4>2. /\ settled' = settled
            /\ lines' \in {lines, [lines EXCEPT ![i] = @ \cup {a}]}
          BY <3>1 DEF Reports, IInv, TypeOK, RestartOK
      <4>3. /\ lines' \in [Slots -> SUBSET AppSet]
            /\ \A j \in Slots : lines[j] \subseteq lines'[j]
        <5>1. lines \in [Slots -> SUBSET AppSet]
            BY DEF IInv, TypeOK, RestartOK
        <5> HIDE DEF a
        <5>2. CASE lines' = lines
            BY <5>1, <5>2
        <5>3. CASE lines' = [lines EXCEPT ![i] = @ \cup {a}]
          <6>1. lines[i] \cup {a} \in SUBSET AppSet
              BY <1>1, <5>1
          <6> QED
              BY <5>1, <5>3, <6>1
        <5> QED
            BY <4>2, <5>2, <5>3
      <4>4. settled' \subseteq AppSet
          BY <4>2 DEF IInv, TypeOK, RestartOK
      <4>5. RestartOK'
          BY <2>2, <4>1, <4>3, <4>4 DEF RestartOK
      <4> QED
          BY <4>1, <4>2, <4>3, <4>5
    <3>2. CASE Opens /\ up[a] = "down"
        BY <1>1, <2>2, <3>2 DEF OpenApp, IInv, TypeOK, RestartOK
    <3>3. CASE Opens /\ up[a] # "down"
        BY <1>1, <2>2, <3>3 DEF OpenApp, histVars, IInv, TypeOK, RestartOK
    <3> QED
        BY <1>5, <3>1, <3>2, <3>3
  <2>4. ASSUME NEW b \in AppSet, b = a
        PROVE  AppAwaited(b)'
    <3>1. CASE Errs
      <4>1. up'[a] # "running" => a \in lines'[i]
          BY <1>1, <3>1 DEF Reports, IInv, TypeOK, RestartOK
      <4> QED
          BY <2>4, <4>1 DEF AppAwaited, Accounted
    <3>2. CASE Opens /\ up[a] = "down"
      <4>1. up'[a] = "running"
          BY <1>1, <3>2 DEF OpenApp, IInv, TypeOK, RestartOK
      <4> QED
          BY <2>4, <4>1 DEF AppAwaited
    <3>3. CASE Opens /\ up[a] # "down"
      <4>1. UNCHANGED <<up, settled, lines>> /\ pc[i] = "open"
          BY <3>3 DEF OpenApp, histVars
      <4>2. ASSUME up[b] = "stopping", ~Accounted(b)
            PROVE  \E j \in Slots : pc'[j] = "pgrep" /\ App(j)' = b
        <5>1. PICK j \in Slots : pc[j] = "pgrep" /\ App(j) = b
            BY <4>2 DEF IInv, Awaited, AppAwaited
        <5> QED
            BY <2>2, <4>1, <5>1 DEF App
      <4> QED
          BY <2>4, <3>3, <4>1, <4>2 DEF AppAwaited, Accounted
    <3> QED
        BY <1>5, <3>1, <3>2, <3>3
  <2>5. Awaited'
    <3>1. ASSUME NEW b \in AppSet
          PROVE  AppAwaited(b)'
      <4>1. CASE b = a
          BY <2>4, <4>1
      <4>2. CASE b # a
        <5>1. /\ up'[b] = up[b] /\ (b \in settled => b \in settled')
              /\ \A j \in Slots : b \in lines[j] => b \in lines'[j]
              /\ \A j \in Slots : j # i => pc'[j] = pc[j] /\ at'[j] = at[j]
            BY <2>2, <2>3, <4>2
        <5> QED
            BY <4>2, <5>1, OtherApps
      <4> QED
          BY <4>1, <4>2
    <3> QED
        BY <3>1 DEF Awaited
  <2>6. pc[i] \notin CleanSteps /\ pc'[i] \notin CleanSteps
      BY <1>1, <2>2 DEF AppSteps, CleanSteps
  <2>7. MediaOK' /\ Ids' /\ Unexcused' /\ Placed'
      BY <2>2, <2>6, TitleKept DEF IInv, TypeOK, MediaOK, Ids, mediaVars
  <2> QED
      BY <2>2, <2>3, <2>5, <2>7 DEF IInv, TypeOK
<1> QED
    BY <1>2, <1>4, <1>5

LEMMA AppEndsInv ==
    ASSUME IInv, AppEnds, UNCHANGED mediaVars
    PROVE  IInv'
<1>1. /\ UNCHANGED slotVars /\ UNCHANGED <<at, settled, lines>>
      /\ \E a \in AppSet : up[a] = "stopping" /\ up' = [up EXCEPT ![a] = "down"]
    BY DEF AppEnds, histVars
<1>2. SlotsOK' /\ PcFits'
    BY <1>1 DEF slotVars, IInv, TypeOK, SlotsOK, PcFits
<1>3. MediaOK' /\ Ids' /\ Unexcused' /\ Placed'
    BY <1>1 DEF slotVars, mediaVars, IInv, TypeOK, MediaOK, Ids, Cleaning, Unexcused, ToClean,
        ToPass, Mirror, WorkerApart, MissedAlone, Placed
<1>4. RestartOK'
    BY <1>1 DEF IInv, TypeOK, RestartOK
<1>5. Awaited'
    BY <1>1 DEF slotVars, IInv, TypeOK, RestartOK, Awaited, AppAwaited, Accounted, App, Restarting
<1> QED
    BY <1>2, <1>3, <1>4, <1>5 DEF IInv, TypeOK

LEMMA ToldInv ==
    ASSUME IInv, NEW i \in Slots, Tells(i) \/ TellsNobody(i), UNCHANGED mediaVars
    PROVE  IInv'
<1>1. /\ stage[i] = "edit" /\ Free(i) /\ UNCHANGED <<up, at>>
      /\ settled' = settled \cup lines[i] /\ lines' = [lines EXCEPT ![i] = {}]
    BY DEF Tells, TellsNobody, Edit, EditFails
<1>2. pc' = pc /\ pc[i] = "none"
    BY <1>1 DEF Free, IInv, TypeOK, SlotsOK
<1>3. SlotsOK'
    BY <1>1, StepNames DEF Free, IInv, TypeOK, SlotsOK
<1>7. PcFits'
    BY <1>1, <1>2 DEF Free, IInv, TypeOK, SlotsOK, PcFits, AddSteps, RemoveSteps, OtherSteps,
        AppSteps
<1>4. MediaOK' /\ Ids' /\ Unexcused' /\ Placed'
    BY <1>2 DEF mediaVars, IInv, TypeOK, MediaOK, Ids, Cleaning, Unexcused, ToClean, ToPass,
        Mirror, WorkerApart, MissedAlone, Placed
<1>5. RestartOK'
    BY <1>1 DEF IInv, TypeOK, RestartOK
<1>6. Awaited'
  <2>1. \A a \in AppSet : Accounted(a) => Accounted(a)'
      BY <1>1 DEF Accounted, IInv, TypeOK, RestartOK
  <2> QED
      BY <1>1, <1>2, <2>1 DEF IInv, Awaited, AppAwaited, App, Restarting
<1> QED
    BY <1>3, <1>4, <1>5, <1>6, <1>7 DEF IInv, TypeOK

LEMMA ServerEndsInv ==
    ASSUME IInv, ServerEnds
    PROVE  IInv'
<1> USE DEF ServerEnds
<1>1. SlotsOK' /\ PcFits'
    BY StepNames DEF AllLost, SlotsOK, PcFits, AddSteps, RemoveSteps, OtherSteps, AppSteps
<1>2. MediaOK'
    BY DEF MediaLost, IInv, TypeOK, MediaOK
<1>3. Ids'
    BY DEF MediaLost, Ids
<1>4. Unexcused'
  <2> SUFFICES ASSUME ~excused' PROVE ToClean' /\ WorkerApart' /\ MissedAlone'
      BY DEF Unexcused
  <2>1. ~excused /\ ~\E i \in Slots : Cleaning(i)
      BY DEF MediaLost, IInv, TypeOK, MediaOK
  <2>2. ~tracked => local = "none" /\ (das => missed)
      BY <2>1 DEF IInv, Unexcused, ToClean, ToPass, Cleaning, TypeOK, MediaOK
  <2>3. ToClean' /\ WorkerApart'
      BY <2>2 DEF MediaLost, ToClean, WorkerApart
  <2>4. MissedAlone'
      BY <2>1 DEF MediaLost, AllLost, MissedAlone, IInv, Unexcused
  <2> QED
      BY <2>3, <2>4
<1>5. RestartOK'
  <2>1. 1 \in 1 .. Len(Apps)
      BY AppsAssumption
  <2> QED
      BY <2>1 DEF RestartLost, IInv, TypeOK, RestartOK
<1>6. Awaited'
    BY DEF RestartLost, Awaited, AppAwaited, Accounted, Restarting, IInv, TypeOK, RestartOK
<1>7. Placed'
    BY DEF MediaLost, IInv, Placed
<1> QED
    BY <1>1, <1>2, <1>3, <1>4, <1>5, <1>6, <1>7 DEF IInv, TypeOK

-----------------------------------------------------------------------------
(* The theorems.                                                           *)

LEMMA InitInv == Init => IInv
<1> SUFFICES ASSUME Init PROVE IInv
    OBVIOUS
<1>1. SlotsOK /\ PcFits
    BY StepNames DEF Init, SlotsInit, SlotsOK, PcFits, AddSteps, RemoveSteps, OtherSteps, AppSteps
<1>2. MediaOK /\ Ids /\ Unexcused /\ Placed
    BY DEF Init, MediaInit, MediaOK, Ids, Unexcused, ToClean, WorkerApart, MissedAlone, Placed
<1>3. 1 \in 1 .. Len(Apps)
    BY AppsAssumption
<1>4. RestartOK /\ Awaited
    BY <1>3 DEF Init, RestartInit, RestartOK, Awaited, AppAwaited
<1> QED
    BY <1>1, <1>2, <1>4 DEF IInv, TypeOK

LEMMA NextInv == IInv /\ [Next]_vars => IInv'
<1> SUFFICES ASSUME IInv, [Next]_vars PROVE IInv'
    OBVIOUS
<1>1. CASE UNCHANGED vars
  <2>1. UNCHANGED slotVars /\ UNCHANGED mediaVars /\ UNCHANGED appVars
      BY <1>1 DEF vars
  <2>2. SlotsOK' /\ PcFits'
      BY <2>1 DEF slotVars, IInv, TypeOK, SlotsOK, PcFits
  <2>3. MediaOK' /\ Ids' /\ Unexcused' /\ Placed'
      BY <2>1 DEF slotVars, mediaVars, IInv, TypeOK, MediaOK, Ids, Cleaning, Unexcused, ToClean,
          ToPass, Mirror, WorkerApart, MissedAlone, Placed
  <2>4. RestartOK' /\ Awaited'
      BY <2>1 DEF slotVars, appVars, histVars, Accounted, IInv, TypeOK, RestartOK, Awaited, AppAwaited, App, Restarting
  <2> QED
      BY <2>2, <2>3, <2>4 DEF IInv, TypeOK
<1>2. ASSUME NEW i \in Slots, Interact(i)
      PROVE  IInv'
    BY <1>2, InteractInv
<1>3. ASSUME NEW i \in Slots, UNCHANGED appVars,
             BadOptions(i) \/ CallFails(i) \/ (ArrAnswers /\ ArrCalls(i)) \/ Cleans(i)
      PROVE  IInv'
    BY <1>3, CallInv, DeleteInv, CleanInv DEF ArrCalls
<1>4. ASSUME NEW i \in Slots, Restarts(i), UNCHANGED mediaVars
      PROVE  IInv'
    BY <1>4, RestartsInv
<1>8. ASSUME NEW i \in Slots, Tells(i) \/ TellsNobody(i), UNCHANGED mediaVars
      PROVE  IInv'
    BY <1>8, ToldInv
<1>5. CASE Files /\ UNCHANGED appVars
    BY <1>5, FilesInv
<1>6. CASE AppEnds /\ UNCHANGED mediaVars
    BY <1>6, AppEndsInv
<1>7. CASE ServerEnds
    BY <1>7, ServerEndsInv
<1> QED
    BY <1>1, <1>2, <1>3, <1>4, <1>5, <1>6, <1>7, <1>8 DEF Next

LEMMA Invariance == Spec => []IInv
BY InitInv, NextInv, PTL DEF Spec

\* Every stage of a command has what it needs and nothing else, and what Radarr,
\* the disks and the apps hold is of its type (discord_bot.rs:452-545).
THEOREM Types == Spec => []TypeOK
<1>1. IInv => TypeOK
    BY DEF IInv
<1> QED
    BY <1>1, Invariance, PTL

\* However many commands overlap, no file of a title Radarr has forgotten is left
\* without a trace of why; a removal that passed the files while the DAS was away is
\* one (radarr.rs:136-143, mod.rs:292-294, 323-344, 529-532).
THEOREM OrphansAreExplained == Spec => []OrphansExplained
<1>1. IInv => OrphansExplained
    BY DEF IInv, Ids, Unexcused, ToClean, ToPass, Leftovers, Cleaning, OrphansExplained
<1> QED
    BY <1>1, Invariance, PTL

\* However many restarts overlap, a service that a restart stopped is being
\* restarted, or the answer that tells of it is to be sent, was read, or is known
\* not to have arrived (system.rs:148-176, discord_bot.rs:542-544).
THEOREM StoppedServicesAreAccountedFor == Spec => []DownIsAccountedFor
<1>1. IInv => DownIsAccountedFor
    BY DEF IInv, TypeOK, RestartOK, Awaited, AppAwaited, Accounted, Restarting, DownIsAccountedFor
<1> QED
    BY <1>1, Invariance, PTL

-----------------------------------------------------------------------------
(* The refinement.                                                         *)

\* A step of slot i within its command.
LEMMA SlotVerdict ==
    ASSUME SlotsOK, NEW i \in Slots, NEW v,
           UNCHANGED cmd, stage[i] = "run", stage'[i] # "free", v = Verdict(i)',
           \A j \in Slots \ {i} :
               pc'[j] = pc[j] /\ stage'[j] = stage[j] /\ answer'[j] = answer[j]
    PROVE  Calls' = Calls /\ Verdicts' = [Verdicts EXCEPT ![i] = v]
<1>1. \A j \in Slots : Asked(j)' = Asked(j)
    BY DEF Asked, SlotsOK
<1>2. \A j \in Slots \ {i} : Verdict(j)' = Verdict(j)
    BY <1>1 DEF Verdict, Cleaning
<1>3. Calls' = Calls
    BY <1>1 DEF Calls
<1>4. Verdicts' = [Verdicts EXCEPT ![i] = v]
    BY <1>2 DEF Verdicts
<1> QED
    BY <1>3, <1>4

\* What is asked, and what is open, while a command runs.
LEMMA RunVerdict ==
    ASSUME SlotsOK, PcFits, NEW i \in Slots, stage[i] = "run"
    PROVE  /\ pc[i] = "search" => Asked(i) = "search"
           /\ pc[i] \in AddSteps => Asked(i) = "add"
           /\ pc[i] \in RemoveSteps => Asked(i) = "remove"
           /\ pc[i] \in OtherSteps => Asked(i) = "none" /\ Verdict(i) = "none"
           /\ Asked(i) # "none" =>
                Verdict(i) = IF pc[i] \in CleanSteps THEN "untracked" ELSE "open"
           /\ Calls[i] = Asked(i) /\ Verdicts[i] = Verdict(i)
<1>1. Calls[i] = Asked(i) /\ Verdicts[i] = Verdict(i)
    BY DEF Calls, Verdicts
<1>2. /\ pc[i] = "search" => Asked(i) = "search"
      /\ pc[i] \in AddSteps => Asked(i) = "add"
      /\ pc[i] \in RemoveSteps => Asked(i) = "remove"
      /\ pc[i] \in OtherSteps => Asked(i) = "none"
    BY DEF PcFits, Asked
<1>3. Asked(i) = "none" => Verdict(i) = "none"
    BY DEF Verdict
<1>4. Asked(i) # "none" => Verdict(i) = IF pc[i] \in CleanSteps THEN "untracked" ELSE "open"
    BY DEF Verdict, Cleaning, CleanSteps
<1> QED
    BY <1>1, <1>2, <1>3, <1>4

LEMMA GoesOnVerdict ==
    ASSUME SlotsOK, PcFits, NEW i \in Slots, NEW p, GoesOn(i, p)
    PROVE  /\ Calls' = Calls
           /\ \/ Asked(i) = "none" /\ Verdicts' = Verdicts
              \/ /\ Asked(i) # "none"
                 /\ Verdicts' = [Verdicts EXCEPT
                        ![i] = IF p \in CleanSteps THEN "untracked" ELSE "open"]
<1>1. /\ SlotsOK' /\ PcFits' /\ UNCHANGED <<cmd, stage, answer>>
      /\ pc' = [pc EXCEPT ![i] = p] /\ pc'[i] = p /\ stage[i] = "run"
    BY GoesOnFits DEF GoesOn
<1>2. Calls' = Calls /\ Verdicts' = [Verdicts EXCEPT ![i] = Verdict(i)']
    BY <1>1, SlotVerdict DEF SlotsOK
<1>3. Asked(i)' = Asked(i)
    BY <1>1 DEF Asked
<1>4. Asked(i) # "none" => Verdict(i)' = IF p \in CleanSteps THEN "untracked" ELSE "open"
    BY <1>1, <1>3 DEF Verdict, Cleaning, CleanSteps
<1>5. Asked(i) = "none" => Verdict(i)' = "none" /\ Verdicts[i] = "none"
  <2>1. Asked(i) = "none" => Verdict(i) = "none"
      BY DEF Verdict
  <2>2. Asked(i)' = "none" => Verdict(i)' = "none"
      BY DEF Verdict
  <2> QED
      BY <1>3, <2>1, <2>2 DEF Verdicts
<1>6. Asked(i) = "none" => Verdicts' = Verdicts
    BY <1>2, <1>5 DEF Verdicts
<1> QED
    BY <1>2, <1>4, <1>6

LEMMA ReturnsVerdict ==
    ASSUME SlotsOK, PcFits, NEW i \in Slots, NEW a, Returns(i, a)
    PROVE  /\ Calls' = Calls
           /\ \/ Asked(i) = "none" /\ Verdicts' = Verdicts
              \/ Asked(i) # "none" /\ Verdicts' = [Verdicts EXCEPT ![i] = a]
<1>1. /\ SlotsOK' /\ PcFits' /\ UNCHANGED cmd
      /\ pc' = [pc EXCEPT ![i] = "none"]
      /\ answer' = [answer EXCEPT ![i] = a] /\ stage' = [stage EXCEPT ![i] = "edit"]
      /\ stage[i] = "run"
    BY ReturnsFits DEF Returns
<1>2. Calls' = Calls /\ Verdicts' = [Verdicts EXCEPT ![i] = Verdict(i)']
    BY <1>1, SlotVerdict DEF SlotsOK
<1>3. Asked(i)' = Asked(i)
    BY <1>1 DEF Asked, SlotsOK
<1>4. Asked(i) # "none" => Verdict(i)' = a
  <2>1. stage'[i] = "edit" /\ answer'[i] = a
      BY <1>1 DEF SlotsOK
  <2>2. Asked(i)' # "none" => Verdict(i)' = a
      BY <2>1 DEF Verdict
  <2> QED
      BY <1>3, <2>2
<1>5. Asked(i) = "none" => Verdict(i)' = "none" /\ Verdicts[i] = "none"
  <2>1. Asked(i) = "none" => Verdict(i) = "none"
      BY DEF Verdict
  <2>2. Asked(i)' = "none" => Verdict(i)' = "none"
      BY DEF Verdict
  <2> QED
      BY <1>3, <2>1, <2>2 DEF Verdicts
<1>6. Asked(i) = "none" => Verdicts' = Verdicts
    BY <1>2, <1>5 DEF Verdicts
<1> QED
    BY <1>2, <1>4, <1>6

LibrarySteps(i) ==
    \/ Library!Call(i) \/ Library!Track(i) \/ Library!FindTracked(i) \/ Library!Untrack(i)
    \/ Library!FindUntracked(i) \/ Library!Settle(i) \/ Library!Fail(i)

LEMMA MediaImplements ==
    ASSUME IInv, NEW i \in Slots,
           BadOptions(i) \/ CallFails(i) \/ ArrCalls(i) \/ Cleans(i)
    PROVE  LibrarySteps(i) \/ UNCHANGED <<tracked, Calls, Verdicts>>
<1>1. SlotsOK /\ PcFits /\ MediaOK /\ Ids
    BY DEF IInv, TypeOK
<1>2. stage[i] = "run" /\ pc[i] \in MediaSteps
    BY DEF BadOptions, CallFails, ArrCalls, Search, AddLookup, Target, Post, RemoveLookup, Get,
        Delete, Cleans, CleanFirst, CleanSecond, CleanFails, Runs, MediaSteps
<1>3. /\ Calls[i] = Asked(i) /\ Verdicts[i] = Verdict(i) /\ Asked(i) # "none"
      /\ Verdict(i) = IF pc[i] \in CleanSteps THEN "untracked" ELSE "open"
      /\ pc[i] = "search" => Asked(i) = "search"
      /\ pc[i] \in AddSteps => Asked(i) = "add"
      /\ pc[i] \in RemoveSteps => Asked(i) = "remove"
  <2>1. pc[i] \in {"search"} \cup AddSteps \cup RemoveSteps
      BY <1>2 DEF MediaSteps, AddSteps, RemoveSteps
  <2> QED
      BY <1>1, <1>2, <2>1, RunVerdict
<1>4. ASSUME NEW a \in Outcomes, Answers(i, a)
      PROVE  Calls' = Calls /\ Verdicts' = [Verdicts EXCEPT ![i] = a]
  <2>1. Returns(i, a)
      BY <1>2, <1>4 DEF Returns
  <2> QED
      BY <1>1, <1>3, <2>1, ReturnsVerdict
<1>5. ASSUME NEW p \in AllSteps, Family(p) = Family(pc[i]), Goto(i, p)
      PROVE  /\ Calls' = Calls
             /\ Verdicts' = [Verdicts EXCEPT
                    ![i] = IF p \in CleanSteps THEN "untracked" ELSE "open"]
  <2>1. GoesOn(i, p)
      BY <1>2, <1>5 DEF GoesOn
  <2> QED
      BY <1>1, <1>3, <2>1, GoesOnVerdict
<1>6. ASSUME NEW p \in AllSteps, Family(p) = Family(pc[i]), Goto(i, p), tracked' = tracked,
             pc[i] \in CleanSteps <=> p \in CleanSteps
      PROVE  UNCHANGED <<tracked, Calls, Verdicts>>
  <2>1. Verdicts' = Verdicts
      BY <1>3, <1>5, <1>6 DEF Verdicts
  <2> QED
      BY <1>5, <1>6, <2>1
<1>7. CASE BadOptions(i) \/ CallFails(i)
  <2>1. Answers(i, "Failed") /\ tracked' = tracked /\ pc[i] \notin CleanSteps
      BY <1>7 DEF BadOptions, CallFails, AddReturns, RemoveReturns, Runs, CleanSteps
  <2> QED
      BY <1>3, <1>4, <2>1 DEF Outcomes, LibrarySteps, Library!Fail, Library!Decide
<1>8. CASE Search(i)
  <2>1. /\ Answers(i, IF tracked THEN "Tracked" ELSE "NotTracked") /\ tracked' = tracked
        /\ pc[i] = "search"
      BY <1>8 DEF Search, Runs, mediaVars
  <2> QED
      BY <1>3, <1>4, <2>1 DEF Outcomes, CleanSteps, LibrarySteps, Library!FindTracked,
          Library!FindUntracked, Library!Open, Library!Decide
<1>9. CASE AddLookup(i)
  <2>1. pc[i] = "add lookup" /\ tracked' = tracked
      BY <1>9 DEF AddLookup, Runs
  <2>2. CASE tracked
    <3>1. Answers(i, "Tracked")
        BY <1>9, <2>2 DEF AddLookup, AddReturns
    <3> QED
        BY <1>3, <1>4, <2>1, <2>2, <3>1 DEF Outcomes, CleanSteps, AddSteps, LibrarySteps,
            Library!FindTracked, Library!Open, Library!Decide
  <2>3. CASE ~tracked
    <3>1. Goto(i, "profile")
        BY <1>9, <2>3 DEF AddLookup
    <3> QED
        BY <1>6, <2>1, <3>1
        DEF AllSteps, MediaSteps, Family, AddSteps, RemoveSteps, CleanSteps
  <2> QED
      BY <2>2, <2>3
<1>10. CASE Target(i)
  <2>1. /\ pc[i] \in AddSteps /\ tracked' = tracked
        /\ Goto(i, "folder") \/ Goto(i, "post")
      BY <1>10 DEF Target, Runs, mediaVars, AddSteps
  <2> QED
      BY <1>6, <2>1 DEF AllSteps, MediaSteps, Family, AddSteps, RemoveSteps, CleanSteps
<1>11. CASE Post(i)
  <2>1. /\ pc[i] = "post" /\ ~tracked /\ tracked' = TRUE
        /\ Answers(i, "Added") \/ Answers(i, "Failed")
      BY <1>11 DEF Post, Runs, AddReturns
  <2> QED
      BY <1>3, <1>4, <2>1 DEF Outcomes, CleanSteps, AddSteps, LibrarySteps, Library!Track,
          Library!Open, Library!Decide
<1>12. CASE RemoveLookup(i)
  <2>1. pc[i] = "remove lookup" /\ tracked' = tracked
      BY <1>12 DEF RemoveLookup, Runs
  <2>2. CASE tracked
    <3>1. Goto(i, "get")
        BY <1>12, <2>2 DEF RemoveLookup
    <3> QED
        BY <1>6, <2>1, <3>1
        DEF AllSteps, MediaSteps, Family, AddSteps, RemoveSteps, CleanSteps
  <2>3. CASE ~tracked
    <3>1. Answers(i, "NotTracked")
        BY <1>12, <2>3 DEF RemoveLookup
    <3> QED
        BY <1>3, <1>4, <2>1, <2>3, <3>1 DEF Outcomes, CleanSteps, RemoveSteps, LibrarySteps,
            Library!FindUntracked, Library!Open, Library!Decide
  <2> QED
      BY <2>2, <2>3
<1>13. CASE Get(i)
  <2>1. pc[i] = "get" /\ tracked' = tracked /\ Goto(i, "delete")
      BY <1>13 DEF Get, Runs, mediaVars
  <2> QED
      BY <1>6, <2>1 DEF AllSteps, MediaSteps, Family, AddSteps, RemoveSteps, CleanSteps
<1>14. CASE Delete(i)
  <2>1. /\ pc[i] = "delete" /\ tracked /\ tracked' = FALSE
        /\ Goto(i, "clean first") \/ Answers(i, "Failed")
      BY <1>1, <1>14 DEF Delete, Runs, Ids
  <2>2. /\ Calls' = Calls
        /\ \/ Verdicts' = [Verdicts EXCEPT ![i] = "untracked"]
           \/ Verdicts' = [Verdicts EXCEPT ![i] = "Failed"]
      BY <1>4, <1>5, <2>1
      DEF Outcomes, AllSteps, MediaSteps, Family, AddSteps, RemoveSteps, CleanSteps
  <2> QED
      BY <1>3, <2>1, <2>2 DEF CleanSteps, RemoveSteps, LibrarySteps, Library!Untrack,
          Library!Open, Library!Decide
<1>15. CASE CleanFirst(i)
  <2>1. pc[i] = "clean first" /\ tracked' = tracked /\ Goto(i, "clean second")
      BY <1>15 DEF CleanFirst, Runs
  <2> QED
      BY <1>6, <2>1 DEF AllSteps, MediaSteps, Family, AddSteps, RemoveSteps, CleanSteps
<1>16. CASE CleanSecond(i) \/ CleanFails(i)
  <2>1. /\ pc[i] \in CleanSteps /\ tracked' = tracked
        /\ Answers(i, "Removed") \/ Answers(i, "Failed")
      BY <1>16 DEF CleanSecond, CleanFails, RemoveReturns, Runs, CleanSteps
  <2> QED
      BY <1>3, <1>4, <2>1 DEF Outcomes, LibrarySteps, Library!Settle, Library!Decide
<1> QED
    BY <1>7, <1>8, <1>9, <1>10, <1>11, <1>12, <1>13, <1>14, <1>15, <1>16 DEF ArrCalls, Cleans

\* An interaction that is over is a call that returns.
LEMMA FreeImplements ==
    ASSUME SlotsOK, NEW i \in Slots, Free(i), tracked' = tracked
    PROVE  Library!Return
<1>1. /\ stage'[i] = "free"
      /\ \A j \in Slots \ {i} :
            cmd'[j] = cmd[j] /\ stage'[j] = stage[j] /\ pc'[j] = pc[j] /\ answer'[j] = answer[j]
    BY DEF Free, SlotsOK
<1>2. \A j \in Slots \ {i} : Asked(j)' = Asked(j) /\ Verdict(j)' = Verdict(j)
    BY <1>1 DEF Asked, Verdict, Cleaning
<1>3. Asked(i)' = "none"
    BY <1>1 DEF Asked
<1>4. Verdict(i)' = "none"
    BY <1>3 DEF Verdict
<1> DEFINE R == {i}
<1>5. /\ R \in (SUBSET Slots) \ {{}}
      /\ Calls' = [j \in Slots |-> IF j \in R THEN "none" ELSE Calls[j]]
      /\ Verdicts' = [j \in Slots |-> IF j \in R THEN "none" ELSE Verdicts[j]]
    BY <1>2, <1>3, <1>4 DEF Calls, Verdicts
<1> QED
    BY <1>5 DEF Library!Return

LEMMA InteractImplements ==
    ASSUME IInv, NEW i \in Slots, Interact(i)
    PROVE  LibrarySteps(i) \/ Library!Return \/ UNCHANGED <<tracked, Calls, Verdicts>>
<1>1. SlotsOK /\ PcFits /\ tracked' = tracked
    BY DEF IInv, TypeOK, Interact, mediaVars
<1>2. ASSUME NEW c \in Commands, NEW isAdmin \in BOOLEAN, Receive(i, c, isAdmin)
      PROVE  LibrarySteps(i) \/ UNCHANGED <<tracked, Calls, Verdicts>>
  <2>1. /\ stage[i] = "free" /\ stage'[i] \in {"refuse", "defer"} /\ cmd'[i] = c
        /\ pc' = pc /\ pc[i] = "none"
        /\ \A j \in Slots \ {i} :
              cmd'[j] = cmd[j] /\ stage'[j] = stage[j] /\ pc'[j] = pc[j] /\ answer'[j] = answer[j]
      BY <1>1, <1>2 DEF Receive, SlotsOK
  <2>2. \A j \in Slots \ {i} : Asked(j)' = Asked(j) /\ Verdict(j)' = Verdict(j)
      BY <2>1 DEF Asked, Verdict, Cleaning
  <2>3. Asked(i) = "none" /\ Verdict(i) = "none"
      BY <2>1 DEF Asked, Verdict
  <2>4. CASE c \in {"search", "add", "remove"}
    <3>1. Asked(i)' = c
        BY <2>1, <2>4 DEF Asked
    <3>2. Verdict(i)' = "open"
        BY <2>1, <2>4, <3>1 DEF Verdict, Cleaning
    <3>3. Calls' = [Calls EXCEPT ![i] = c] /\ Verdicts' = [Verdicts EXCEPT ![i] = "open"]
        BY <2>2, <3>1, <3>2 DEF Calls, Verdicts
    <3>4. Calls[i] = "none"
        BY <2>3 DEF Calls
    <3> QED
        BY <1>1, <2>4, <3>3, <3>4 DEF LibrarySteps, Library!Call
  <2>5. CASE c \notin {"search", "add", "remove"}
    <3>1. Asked(i)' = "none"
        BY <2>1, <2>5 DEF Asked
    <3>2. Verdict(i)' = "none"
        BY <3>1 DEF Verdict
    <3> QED
        BY <1>1, <2>2, <2>3, <3>1, <3>2 DEF Calls, Verdicts
  <2> QED
      BY <2>4, <2>5
<1>4. CASE Defer(i, Entry(cmd[i]))
  <2> DEFINE p == Entry(cmd[i])
  <2>1. p \notin CleanSteps
      BY DEF Entry, CleanSteps
  <2>2. /\ stage[i] = "defer" /\ stage'[i] = "run" /\ cmd' = cmd /\ pc[i] = "none"
        /\ pc'[i] \notin CleanSteps
        /\ \A j \in Slots \ {i} : stage'[j] = stage[j] /\ pc'[j] = pc[j] /\ answer'[j] = answer[j]
      BY <1>1, <1>4, <2>1 DEF Defer, SlotsOK
  <2>3. \A j \in Slots : Asked(j)' = Asked(j) /\ Verdict(j)' = Verdict(j)
      BY <2>2 DEF Asked, Verdict, Cleaning, CleanSteps
  <2> QED
      BY <1>1, <2>3 DEF Calls, Verdicts
<1>5. ASSUME NEW a \in Outcomes, Answers(i, a), stage[i] = "run", pc[i] \in OtherSteps
      PROVE  UNCHANGED <<tracked, Calls, Verdicts>>
    BY <1>1, <1>5, ReturnsVerdict, RunVerdict DEF Returns
<1>6. CASE Exchange(i) \/ Local(i)
  <2>1. stage[i] = "run" /\ pc[i] \in OtherSteps
      BY <1>6 DEF Exchange, Local, Runs, OtherSteps
  <2>2. \E a \in Outcomes : Answers(i, a)
      BY <1>6 DEF Exchange, Local, Outcomes
  <2> QED
      BY <1>5, <2>1, <2>2
<1> QED
    BY <1>2, <1>4, <1>6, FreeImplements DEF Interact, Refuse, DeferFails, IInv, TypeOK, mediaVars

LEMMA RestartsImplement ==
    ASSUME IInv, NEW i \in Slots, UNCHANGED mediaVars, Restarts(i)
    PROVE  UNCHANGED <<tracked, Calls, Verdicts>>
<1>1. SlotsOK /\ PcFits /\ tracked' = tracked
    BY DEF IInv, TypeOK, mediaVars
<1>2. stage[i] = "run" /\ pc[i] \in AppSteps
    BY DEF Restarts, Bundle, Pkill, Pgrep, PgrepGivesUp, OpenApp, OpenFails, Runs, AppSteps
<1>3. (\E p \in AppSteps : Goto(i, p)) \/ Answers(i, "Restarted")
    BY DEF Restarts, Bundle, Pkill, Pgrep, PgrepGivesUp, OpenApp, OpenFails, Reports, NextApp,
        AppSteps
<1>4. Asked(i) = "none"
    BY <1>1, <1>2, RunVerdict DEF OtherSteps
<1>5. ASSUME NEW p \in AppSteps, Goto(i, p)
      PROVE  UNCHANGED <<Calls, Verdicts>>
  <2>1. GoesOn(i, p)
      BY <1>2, <1>5 DEF GoesOn, AllSteps, Family, AppSteps, AddSteps, RemoveSteps
  <2> QED
      BY <1>1, <1>4, <2>1, GoesOnVerdict
<1>6. CASE Answers(i, "Restarted")
  <2>1. Returns(i, "Restarted")
      BY <1>2, <1>6 DEF Returns, Outcomes
  <2> QED
      BY <1>1, <1>4, <2>1, ReturnsVerdict
<1> QED
    BY <1>1, <1>3, <1>5, <1>6

LEMMA ServerEndsImplements ==
    ASSUME ServerEnds
    PROVE  Library!Return \/ UNCHANGED <<tracked, Calls, Verdicts>>
<1>1. tracked' = tracked /\ stage' = [i \in Slots |-> "free"]
    BY DEF ServerEnds, AllLost, MediaLost
<1>2. \A i \in Slots : Asked(i)' = "none"
    BY <1>1 DEF Asked
<1>3. \A i \in Slots : Verdict(i)' = "none"
    BY <1>2 DEF Verdict
<1>4. Calls' = [i \in Slots |-> "none"] /\ Verdicts' = [i \in Slots |-> "none"]
    BY <1>2, <1>3 DEF Calls, Verdicts
<1>5. CASE Slots = {}
    BY <1>1, <1>4, <1>5 DEF Calls, Verdicts
<1>6. CASE Slots # {}
  <2> DEFINE R == Slots
  <2>1. /\ R \in (SUBSET Slots) \ {{}}
        /\ Calls' = [j \in Slots |-> IF j \in R THEN "none" ELSE Calls[j]]
        /\ Verdicts' = [j \in Slots |-> IF j \in R THEN "none" ELSE Verdicts[j]]
      BY <1>4, <1>6
  <2> QED
      BY <1>1, <2>1 DEF Library!Return
<1> QED
    BY <1>5, <1>6

LEMMA InitImplements == Init => Library!Init
<1> SUFFICES ASSUME Init PROVE Library!Init
    OBVIOUS
<1>1. tracked = FALSE /\ \A i \in Slots : stage[i] = "free"
    BY DEF Init, SlotsInit, MediaInit
<1>2. \A i \in Slots : Asked(i) = "none"
    BY <1>1 DEF Asked
<1>3. \A i \in Slots : Verdict(i) = "none"
    BY <1>2 DEF Verdict
<1> QED
    BY <1>1, <1>2, <1>3 DEF Library!Init, Calls, Verdicts

LEMMA NextImplements == IInv /\ [Next]_vars => [Library!Next]_(Library!vars)
<1> SUFFICES ASSUME IInv, [Next]_vars
             PROVE  Library!Next \/ UNCHANGED <<tracked, Calls, Verdicts>>
    BY DEF Library!vars
<1>1. ASSUME UNCHANGED slotVars, tracked' = tracked
      PROVE  UNCHANGED <<tracked, Calls, Verdicts>>
    BY <1>1 DEF slotVars, Calls, Verdicts, Asked, Verdict, Cleaning
<1>2. ASSUME NEW i \in Slots, LibrarySteps(i)
      PROVE  Library!Next
    BY <1>2 DEF LibrarySteps, Library!Next
<1>3. ASSUME NEW i \in Slots,
             BadOptions(i) \/ CallFails(i) \/ (ArrAnswers /\ ArrCalls(i)) \/ Cleans(i)
      PROVE  Library!Next \/ UNCHANGED <<tracked, Calls, Verdicts>>
    BY <1>2, <1>3, MediaImplements
<1>9. ASSUME NEW i \in Slots, Tells(i) \/ TellsNobody(i), UNCHANGED mediaVars
      PROVE  Library!Next
    BY <1>9, FreeImplements DEF Tells, TellsNobody, Edit, EditFails, mediaVars, IInv, TypeOK,
        Library!Next
<1>4. ASSUME NEW i \in Slots, Interact(i)
      PROVE  Library!Next \/ UNCHANGED <<tracked, Calls, Verdicts>>
    BY <1>2, <1>4, InteractImplements DEF Library!Next
<1>5. CASE UNCHANGED vars
    BY <1>1, <1>5 DEF vars, mediaVars
<1>6. CASE Files
    BY <1>1, <1>6
    DEF Files, Import, MoveBegins, MoveCopies, MoveFails, MoveRemoves,
        MoveLinks, OfFiles
<1>7. CASE AppEnds /\ UNCHANGED mediaVars
    BY <1>1, <1>7 DEF AppEnds, mediaVars
<1>8. CASE ServerEnds
    BY <1>8, ServerEndsImplements DEF Library!Next
<1> QED
    BY <1>3, <1>4, <1>5, <1>6, <1>7, <1>8, <1>9, RestartsImplement DEF Next

\* Searches, additions and removals of one title, though each is several calls
\* of Radarr with others in between, are answered as by a library that takes one
\* at a time (radarr.rs:96-145, sonarr.rs:96-147, mod.rs:283-317).
THEOREM AnswersAreOfALibrary == Spec => Implements
<1>1. Spec => Library!Init /\ [][Library!Next]_(Library!vars)
    BY InitImplements, NextImplements, Invariance, PTL DEF Spec
<1> QED
    BY <1>1 DEF Implements, Library!Spec
================================================================================
