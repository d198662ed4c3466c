----------------------------- MODULE MediaCommands -----------------------------
(***************************************************************************)
(* The commands that find, add and remove a title, from the interaction to *)
(* Radarr (movies) or Sonarr (shows), whose clients are the same code      *)
(* twice, and to the files: media.rs, media_bundle/{mod,radarr,sonarr}.rs. *)
(* One title is followed.  Every await is a point where another command,   *)
(* the mover or the end of the server comes in between.                    *)
(***************************************************************************)
EXTENDS Interactions

VARIABLES
    tracked,    \* Radarr has the title
    valid,      \* per slot: the id it looked up is the one Radarr has it under
    indexed,    \* the place Radarr knows: where it imports the files
    local,      \* at the local path: "none", "files" or "link"
    das,        \* the files are on the DAS
    mover,      \* the worker at this entry: "idle", "copying", "copied", "removed"
    excused,    \* history: files may have been left, and why is on record
    missed      \* history: a removal passed the files while the DAS was away

mediaVars == <<tracked, valid, indexed, local, das, mover, excused, missed>>
fileVars == <<local, das, mover>>
history == <<excused, missed>>

MediaSteps == {"search", "add lookup", "profile", "folder", "post",
               "remove lookup", "get", "delete", "clean first", "clean second"}

MediaInit ==
    /\ tracked = FALSE
    /\ valid = [i \in Slots |-> FALSE]
    /\ indexed \in {"local", "das"}
    /\ local = "none"
    /\ das = FALSE
    /\ mover = "idle"
    /\ excused = FALSE
    /\ missed = FALSE

Cleaning(i) == pc[i] \in {"clean first", "clean second"}
Leftovers == local # "none" \/ das

\* An addition and a removal return, with their outcome or an error.
AddReturns(i, a) == Answers(i, a) /\ UNCHANGED valid

RemoveReturns(i, a) == Answers(i, a) /\ valid' = [valid EXCEPT ![i] = FALSE]

-----------------------------------------------------------------------------
(* Calls of Radarr.  An error, a status outside 2xx or a body that does    *)
(* not parse ends the command.                                             *)

CallFails(i) ==
    /\ stage[i] = "run"
    /\ pc[i] \in MediaSteps \ {"clean first", "clean second"}
    /\ RemoveReturns(i, "Failed")
    /\ UNCHANGED <<tracked, indexed, fileVars, history>>

\* An id or a quality that is missing or unknown.
BadOptions(i) ==
    /\ \/ Runs(i, "add lookup") /\ AddReturns(i, "Failed")
       \/ Runs(i, "remove lookup") /\ RemoveReturns(i, "Failed")
    /\ UNCHANGED <<tracked, indexed, fileVars, history>>

\* GET lookup?term=..: each result comes with its status.
Search(i) ==
    /\ Runs(i, "search")
    /\ Answers(i, IF tracked THEN "Tracked" ELSE "NotTracked")
    /\ UNCHANGED mediaVars

\* GET lookup?term=tmdb:id: the title comes with its id, if it is tracked.
AddLookup(i) ==
    /\ Runs(i, "add lookup")
    /\ IF tracked THEN AddReturns(i, "Tracked")
                  ELSE Goto(i, "profile") /\ UNCHANGED valid
    /\ UNCHANGED <<tracked, indexed, fileVars, history>>

\* arr_util::add_target: one GET for the quality profile, one for the folder.
Target(i) ==
    /\ \/ Runs(i, "profile") /\ Goto(i, "folder")
       \/ Runs(i, "folder") /\ Goto(i, "post")
    /\ UNCHANGED mediaVars

\* Mutant of Post: a title that Radarr has is taken for added.
PostAgain(i) ==
    /\ Runs(i, "post")
    /\ Answers(i, "Added")
    /\ UNCHANGED mediaVars

\* Radarr tracks a title once: it refuses the POST of one it has.
\* The response may be lost after the title was added.
Post(i) ==
    /\ Runs(i, "post")
    /\ ~tracked
    /\ tracked' = TRUE
    /\ AddReturns(i, "Added") \/ AddReturns(i, "Failed")
    /\ UNCHANGED <<indexed, fileVars, history>>

RemoveLookup(i) ==
    /\ Runs(i, "remove lookup")
    /\ valid' = [valid EXCEPT ![i] = tracked]
    /\ IF tracked THEN Goto(i, "get") ELSE Answers(i, "NotTracked")
    /\ UNCHANGED <<tracked, indexed, fileVars, history>>

\* GET movie/id, for the path: an id that is gone is a 404.
Get(i) ==
    /\ Runs(i, "get")
    /\ valid[i]
    /\ Goto(i, "delete")
    /\ UNCHANGED mediaVars

\* DELETE movie/id?deleteFiles=false.  The response may be lost: then the title
\* is deleted and its files are not.
Delete(i) ==
    /\ Runs(i, "delete")
    /\ valid[i]
    /\ tracked' = FALSE
    /\ valid' = [j \in Slots |-> FALSE]
    /\ \/ Goto(i, "clean first") /\ UNCHANGED excused
       \/ Answers(i, "Failed") /\ excused' = (excused \/ Leftovers)
    /\ UNCHANGED <<indexed, fileVars, missed>>

-----------------------------------------------------------------------------
(* remove_media_files: the indexed path, then its mirror on the other side *)
(* of the pair.                                                            *)

Mirror(p) == IF p = "local" THEN "das" ELSE "local"

\* The worker has the entry in hand while its paths are removed.
Races == mover # "idle"

\* The path is deleted, or nothing is there; either is Ok.
PathGone(p) ==
    /\ local' = IF p = "local" THEN "none" ELSE local
    /\ das' = IF p = "das" THEN FALSE ELSE das
    /\ missed' = (missed /\ p # "das")

\* The DAS is away: what it holds is not found, and that is Ok too.
PathMissed(p) ==
    /\ p = "das" /\ das
    /\ missed' = TRUE
    /\ UNCHANGED <<local, das>>

RemovePath(p) ==
    /\ PathGone(p) \/ PathMissed(p)
    /\ excused' = (excused \/ Races)
    /\ UNCHANGED mover

\* Mutant of CleanFirst: the mirror is not looked for.
CleanFirstOnly(i) ==
    /\ Runs(i, "clean first")
    /\ RemovePath(indexed)
    /\ RemoveReturns(i, "Removed")
    /\ UNCHANGED <<tracked, indexed>>

CleanFirst(i) ==
    /\ Runs(i, "clean first")
    /\ RemovePath(indexed)
    /\ Goto(i, "clean second")
    /\ UNCHANGED <<tracked, valid, indexed>>

CleanSecond(i) ==
    /\ Runs(i, "clean second")
    /\ RemovePath(Mirror(indexed))
    /\ RemoveReturns(i, "Removed")
    /\ UNCHANGED <<tracked, indexed>>

\* remove_path(..).await?: any error but NotFound.
CleanFails(i) ==
    /\ Runs(i, "clean first") \/ Runs(i, "clean second")
    /\ excused' = (excused \/ Leftovers \/ Races)
    /\ RemoveReturns(i, "Failed")
    /\ UNCHANGED <<tracked, indexed, fileVars, missed>>

-----------------------------------------------------------------------------
(* The files: Radarr imports what it downloaded, and a batch of the worker *)
(* moves it (module MoveFiles has the detail).  The DAS may be unplugged    *)
(* between any two steps, so each step that needs it may find it away.     *)

OfFiles == UNCHANGED <<slotVars, tracked, valid, indexed>>

Import ==
    /\ tracked
    /\ ~Leftovers
    /\ local' = IF indexed = "local" THEN "files" ELSE local
    /\ das' = (indexed = "das")
    /\ excused' = (excused /\ mover # "idle")
    /\ missed' = FALSE
    /\ OfFiles /\ UNCHANGED mover

\* A removal that is under way may have passed by the place it moves to.
MoveBegins ==
    /\ mover = "idle"
    /\ local = "files"
    /\ mover' = "copying"
    /\ excused' = (excused \/ \E i \in Slots : Cleaning(i))
    /\ OfFiles /\ UNCHANGED <<local, das, missed>>

MoveCopies ==
    /\ mover = "copying"
    /\ das' = TRUE
    /\ mover' = "copied"
    /\ OfFiles /\ UNCHANGED <<local, history>>

\* The DAS is away: create_dir_all or the copy is an error, before or after files
\* were copied.
MoveFails ==
    /\ mover = "copying"
    /\ das' \in {das, TRUE}
    /\ mover' = "idle"
    /\ OfFiles /\ UNCHANGED <<local, history>>

\* The source is gone: an error, the batch goes on to the next entry.
MoveRemoves ==
    /\ mover = "copied"
    /\ \/ local = "files" /\ local' = "none" /\ mover' = "removed"
       \/ local # "files" /\ mover' = "idle" /\ UNCHANGED local
    /\ OfFiles /\ UNCHANGED <<das, history>>

MoveLinks ==
    /\ mover = "removed"
    /\ local' = IF local = "none" THEN "link" ELSE local
    /\ mover' = "idle"
    /\ OfFiles /\ UNCHANGED <<das, history>>

-----------------------------------------------------------------------------

\* Answered by Radarr.
ArrCalls(i) ==
    \/ Search(i) \/ AddLookup(i) \/ Target(i) \/ Post(i)
    \/ RemoveLookup(i) \/ Get(i) \/ Delete(i)

Cleans(i) == CleanFirst(i) \/ CleanSecond(i) \/ CleanFails(i)

Files ==
    \/ Import \/ MoveBegins \/ MoveCopies \/ MoveFails \/ MoveRemoves \/ MoveLinks

\* The server ends: the worker with it, and what a removal had still to delete
\* stays.
MediaLost ==
    /\ mover' = "idle"
    /\ valid' = [i \in Slots |-> FALSE]
    /\ excused' = (excused \/ \E i \in Slots : Cleaning(i))
    /\ UNCHANGED <<tracked, indexed, local, das, missed>>

-----------------------------------------------------------------------------

MediaOK ==
    /\ tracked \in BOOLEAN
    /\ valid \in [Slots -> BOOLEAN]
    /\ indexed \in {"local", "das"}
    /\ local \in {"none", "files", "link"}
    /\ das \in BOOLEAN
    /\ mover \in {"idle", "copying", "copied", "removed"}
    /\ excused \in BOOLEAN
    /\ missed \in BOOLEAN

\* Files are deleted only after the title they belong to is untracked, and no
\* file of an untracked title is left without a trace of why: a removal that was
\* answered with an error or cut by the end of the server, one that met the worker
\* at the same entry, or one that passed the files while the DAS was away
\* (radarr.rs:136-143, mod.rs:292-294, 341-343, 529-532).
OrphansExplained ==
    /\ \A i \in Slots : Cleaning(i) => ~valid[i]
    /\ ~tracked /\ Leftovers /\ ~excused /\ ~missed => \E i \in Slots : Cleaning(i)

\* A removal that is answered as done has deleted the local entry and the copy on
\* the DAS (README.md:48, media.rs:216), but where it met the worker.
RemovedDeletesFiles ==
    \A i \in Slots :
        answer[i] = "Removed" /\ ~tracked /\ ~excused /\ (\A j \in Slots : ~Cleaning(j))
            => ~Leftovers
================================================================================
