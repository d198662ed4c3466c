------------------------------ MODULE MoveFiles ------------------------------
(***************************************************************************)
(* What a batch of the move job does to one pair of the move map: move_dir *)
(* in src/server/src/lib.rs, with those that touch the same files: the     *)
(* programs that write them, remove_media_files of the Discord commands    *)
(* (media_bundle/mod.rs), errors of the disks and crashes of the server.   *)
(*                                                                         *)
(* A node is a path below the root of the pair.  It may exist on the local *)
(* disk and, at the same relative path, on the DAS.  move_dir calls itself *)
(* for what is in a directory: cur is the path at hand, the callers wait   *)
(* in the directories above it.  One action is one call of the disk.       *)
(***************************************************************************)
EXTENDS Integers, Sequences

CONSTANTS
    Root,      \* the two directories of the pair
    Dirs,      \* paths of directories below it
    Files,     \* paths of files and of links to elsewhere
    Parent,    \* the directory a path is in
    MaxEvents  \* bound: writes, removals, errors of a disk and crashes

Nodes == Dirs \cup Files

ASSUME TreeAssumption ==
    /\ Dirs \cap Files = {} /\ Root \notin Nodes
    /\ Parent \in [Nodes -> Dirs \cup {Root}]

ASSUME MaxEventsAssumption == MaxEvents \in Nat

\* What is at a path: the bytes of one write, or one of these.
None == 0
Dir == -1
Link == -2     \* on the local disk, at the top: a link to the DAS
Partial == -3  \* the bytes of an unfinished copy
Versions == 1 .. MaxEvents + 1

Kids(d) == { n \in Nodes : Parent[n] = d }
Tops == Kids(Root)

\* The paths from the top down to n: in each set that has n and, with a path, the
\* directory it is in.
Upward(S) == \A m \in S : Parent[m] \in S \cup {Root}
Path == [n \in Nodes |->
    { m \in Nodes : \A S \in SUBSET Nodes : n \in S /\ Upward(S) => m \in S }]
Under == [t \in Nodes \cup {Root} |-> { n \in Nodes : t \in Path[n] }]

\* The paths whose directory exists on a disk.
Within(disk) == { n \in Nodes : n \in Tops \/ disk[Parent[n]] = Dir }

VARIABLES
    local, das, \* what is at each path of either disk
    pc,         \* where the worker is in move_dir
    mode,       \* is_mass_move: "mass", or "aged" for targeted moves
    cur,        \* the path at hand
    todo,       \* what the streams of read_dir have left to give
    due,        \* old_list: paths found old enough by the survey
    held,       \* the bytes the copy under way will write
    rm,         \* remove_media_files: its path and the disks it has left, and
                \* what remove_dir_all has removed inside
    events,     \* number of events so far
    latest,     \* history: the last write to a path, None when it is to go
    raced,      \* history: files written while they were moved
    cut,        \* history: entries whose move ended in an error
    gone,       \* history: entries a removal reported removed
    clash,      \* history: entries moved or written while they were removed
    missed      \* history: entries on the DAS that a removal did not find

disks == <<local, das>>
worker == <<pc, mode, cur, todo, due, held>>
history == <<latest, raced, cut, gone, clash, missed>>
vars == <<disks, worker, rm, events, history>>

Idle == [node |-> Root, left |-> <<>>, stage |-> "off", seen |-> {}]

\* Files and directories as the download clients left them, and links that are
\* none of the job's below the top.
Trees ==
    { t \in [Nodes -> {None, Dir, Link, 1}] :
        \A n \in Nodes :
            /\ t[n] \in IF n \in Dirs THEN {None, Dir}
                       ELSE IF n \in Tops THEN {None, 1} ELSE {None, Link, 1}
            /\ t[n] # None => n \in Within(t) }

NoStream == [d \in Dirs \cup {Root} |-> {}]

Init ==
    /\ local \in Trees
    /\ das = [n \in Nodes |-> None]
    /\ pc = "idle" /\ mode = "aged" /\ cur = Root /\ held = None /\ due = {}
    /\ todo = NoStream
    /\ rm = Idle
    /\ events = 0
    /\ latest = [n \in Nodes |-> IF local[n] = 1 THEN 1 ELSE None]
    /\ raced = {} /\ cut = {} /\ gone = {} /\ clash = {} /\ missed = {}

-----------------------------------------------------------------------------
(* The worker.                                                             *)

Listing(d) == { n \in Kids(d) : local[n] # None }
IsFile(n) == local[n] \in Versions
Entry == Parent[cur] = Root \* cur is at the top

Go(l, n) == pc' = l /\ cur' = n

\* An entry the worker takes up while it is being removed.
Meets(S) == clash' = clash \cup (S \cap {rm.node})

\* The call above cur goes on with its loop, or the batch with the next path.
Return == IF Entry /\ mode = "aged" THEN Go("due", Root) ELSE Go("walk", Parent[cur])

Cut == cut' = cut \cup { n \in Tops : cur \in Under[n] }

\* The ? operators: an error ends every call, up to the loop of the batch.
Abandon ==
    /\ Go(IF mode = "mass" THEN "idle" ELSE "due", Root)
    /\ Cut
    /\ held' = None /\ todo' = NoStream
    /\ UNCHANGED <<disks, mode, due, rm, latest, raced, gone, clash, missed>>

Quit == Abandon /\ UNCHANGED events

\* A full disk or an explicit Start.
BeginMass ==
    /\ pc = "idle"
    /\ mode' = "mass"
    /\ todo' = [todo EXCEPT ![Root] = Listing(Root)]
    /\ Go("walk", Root)
    /\ UNCHANGED <<disks, due, held, rm, events, history>>

\* The survey of a scheduled batch: links are left out, age is any choice.
BeginAged(S) ==
    /\ pc = "idle"
    /\ S \subseteq { n \in Tops : local[n] \notin {None, Link} }
    /\ mode' = "aged"
    /\ due' = S
    /\ Go("due", Root)
    /\ Meets(S)
    /\ UNCHANGED <<disks, todo, held, rm, events, latest, raced, cut, gone, missed>>

NextDue(n) ==
    /\ pc = "due"
    /\ n \in due
    /\ due' = due \ {n}
    /\ Go("enter", n)
    /\ UNCHANGED <<disks, mode, todo, held, rm, events, history>>

EndAged ==
    /\ pc = "due"
    /\ due = {}
    /\ Go("idle", Root)
    /\ UNCHANGED <<disks, mode, todo, due, held, rm, events, history>>

NextEntry(n) ==
    /\ pc = "walk"
    /\ n \in todo[cur]
    /\ local[n] \notin {None, Link}
    /\ todo' = [todo EXCEPT ![cur] = @ \ {n}]
    /\ Go("enter", n)
    /\ Meets({n})
    /\ UNCHANGED <<disks, mode, due, held, rm, events, latest, raced, cut, gone, missed>>

\* A link, or a name that is gone and was not given.
SkipEntry(n) ==
    /\ pc = "walk"
    /\ n \in todo[cur]
    /\ local[n] \in {None, Link}
    /\ todo' = [todo EXCEPT ![cur] = @ \ {n}]
    /\ UNCHANGED <<disks, pc, mode, cur, due, held, rm, events, history>>

\* The stream gave a name before it went: its metadata is an error.
EntryGone(n) ==
    /\ pc = "walk"
    /\ n \in todo[cur]
    /\ local[n] = None
    /\ Quit

EndWalk ==
    /\ pc = "walk"
    /\ todo[cur] = {}
    /\ IF cur = Root THEN Go("idle", Root) ELSE Go("remove", cur)
    /\ UNCHANGED <<disks, mode, todo, due, held, rm, events, history>>

CanCopy == das[cur] # Dir /\ cur \in Within(das)

\* copy opens the source and then empties the destination.
OpenFile ==
    /\ pc = "enter"
    /\ IsFile(cur)
    /\ CanCopy
    /\ held' = local[cur]
    /\ das' = [das EXCEPT ![cur] = Partial]
    /\ Go("copy", cur)
    /\ UNCHANGED <<local, mode, todo, due, rm, events, history>>

OpenFileFails ==
    /\ pc = "enter"
    /\ IsFile(cur)
    /\ ~CanCopy
    /\ Quit

\* Mutant of CanMakeDir: create_dir in place of create_dir_all.
CanMakeDirOnce == das[cur] = None /\ \A n \in Path[cur] : das[n] \in {None, Dir}

CanMakeDir == \A n \in Path[cur] : das[n] \in {None, Dir}

\* create_dir_all: whatever is_file does not find, gone or not, gets one.
MakeDir ==
    /\ pc = "enter"
    /\ ~IsFile(cur)
    /\ CanMakeDir
    /\ das' = [n \in Nodes |-> IF n \in Path[cur] THEN Dir ELSE das[n]]
    /\ Go("open", cur)
    /\ UNCHANGED <<local, mode, todo, due, held, rm, events, history>>

MakeDirFails ==
    /\ pc = "enter"
    /\ ~IsFile(cur)
    /\ ~CanMakeDir
    /\ Quit

OpenDir ==
    /\ pc = "open"
    /\ local[cur] = Dir
    /\ todo' = [todo EXCEPT ![cur] = Listing(cur)]
    /\ Go("walk", cur)
    /\ UNCHANGED <<disks, mode, due, held, rm, events, history>>

OpenDirFails ==
    /\ pc = "open"
    /\ local[cur] # Dir
    /\ Quit

\* The end of a copy, into a file that may have been removed by now.  The
\* targeted move of a file returns here.
CopyEnds ==
    /\ pc = "copy"
    /\ das' = IF das[cur] = Partial THEN [das EXCEPT ![cur] = held] ELSE das
    /\ held' = None
    /\ IF Entry /\ mode = "aged" THEN Return ELSE Go("remove", cur)
    /\ UNCHANGED <<local, mode, todo, due, rm, events, history>>

\* Mutant of CanRemove: remove_dir_all in place of remove_dir.
CanRemoveAll == local[cur] # None

CanRemove == local[cur] # None /\ (local[cur] = Dir => Listing(cur) = {})

\* Mutant of Remove: every level is linked, is_root is not looked at.
RemoveLinksAll ==
    /\ pc = "remove"
    /\ CanRemove
    /\ local' = [n \in Nodes |-> IF cur \in Path[n] THEN None ELSE local[n]]
    /\ Go("link", cur)
    /\ UNCHANGED <<das, mode, todo, due, held, rm, events, history>>

\* remove_dir or remove_file.
Remove ==
    /\ pc = "remove"
    /\ CanRemove
    /\ local' = [n \in Nodes |-> IF cur \in Path[n] THEN None ELSE local[n]]
    /\ IF Entry THEN Go("link", cur) ELSE Go("walk", Parent[cur])
    /\ UNCHANGED <<das, mode, todo, due, held, rm, events, history>>

RemoveFails ==
    /\ pc = "remove"
    /\ ~CanRemove
    /\ Quit

LinkEntry ==
    /\ pc = "link"
    /\ local[cur] = None
    /\ local' = [local EXCEPT ![cur] = Link]
    /\ cut' = cut \ {cur}
    /\ Return
    /\ UNCHANGED <<das, mode, todo, due, held, rm, events, latest, raced, gone, clash,
                   missed>>

\* Mutant of LinkFails: the error of symlink is dropped.
LinkFailsIgnored ==
    /\ pc = "link"
    /\ local[cur] # None
    /\ Return
    /\ UNCHANGED <<disks, mode, todo, due, held, rm, events, history>>

LinkFails ==
    /\ pc = "link"
    /\ local[cur] # None
    /\ Quit

Batch == BeginMass \/ (\E S \in SUBSET Tops : BeginAged(S)) \/ EndAged

Walk ==
    \/ \E n \in Nodes : NextDue(n) \/ NextEntry(n) \/ SkipEntry(n) \/ EntryGone(n)
    \/ EndWalk

Move ==
    \/ OpenFile \/ OpenFileFails \/ MakeDir \/ MakeDirFails \/ OpenDir \/ OpenDirFails
    \/ CopyEnds \/ Remove \/ RemoveFails \/ LinkEntry \/ LinkFails

Worker == Batch \/ Walk \/ Move

-----------------------------------------------------------------------------
(* What happens around the worker, and the bytes a write leaves.           *)

Event == events < MaxEvents /\ events' = events + 1
NewVersion == events + 2

(* Errors of a disk, and the end of the server at any point.               *)

Fault ==
    /\ pc \notin {"idle", "due"}
    /\ Event
    /\ Abandon

Crash ==
    /\ Event
    /\ Go("idle", Root)
    /\ Cut
    /\ held' = None /\ todo' = NoStream /\ due' = {} /\ rm' = Idle
    /\ UNCHANGED <<disks, mode, latest, raced, gone, clash, missed>>

-----------------------------------------------------------------------------
(* The programs that write media.                                          *)

\* Entries the removal may find changed, and those that are there again.
Disturbs(n) ==
    /\ clash' = (clash \ Path[n]) \cup (Path[n] \cap {rm.node})
    /\ gone' = gone \ Path[n]

\* A stream that is open may give a name that is new.
Reading ==
    CASE pc \in {"idle", "due"} -> {}
      [] cur = Root -> {Root}
      [] OTHER -> Path[cur] \cup {Root}

MayList(n) ==
    \E news \in SUBSET ({n} \ {cur}) :
        todo' = IF Parent[n] \in Reading THEN [todo EXCEPT ![Parent[n]] = @ \cup news]
                                         ELSE todo

\* A write at the path of f on the local disk; the copy under way may see it,
\* or a part of it.
WriteLocal(f) ==
    /\ Event
    /\ f \in Within(local)
    /\ local[f] \notin {Dir, Link}
    /\ local' = [local EXCEPT ![f] = NewVersion]
    /\ latest' = [latest EXCEPT ![f] = IF f \in Under[rm.node] THEN None ELSE NewVersion]
    /\ IF cur = f /\ pc \in {"copy", "remove"}
          THEN raced' = raced \cup {f}
          ELSE raced' = raced \ {f}
    /\ held' \in IF cur = f /\ pc = "copy" THEN {held, Partial, NewVersion} ELSE {held}
    /\ MayList(f)
    /\ Disturbs(f)
    /\ UNCHANGED <<das, pc, mode, cur, due, rm, cut, missed>>

Linked(n) == \E t \in Tops : n \in Under[t] /\ local[t] = Link

\* A write that follows the link of the entry.
WriteLinked(f) ==
    /\ Event
    /\ Linked(f)
    /\ f \in Within(das)
    /\ das[f] # Dir
    /\ das' = [das EXCEPT ![f] = NewVersion]
    /\ latest' = [latest EXCEPT ![f] = IF f \in Under[rm.node] THEN None ELSE NewVersion]
    /\ raced' = raced \ {f}
    /\ Disturbs(f)
    /\ UNCHANGED <<local, worker, rm, cut, missed>>

\* A client that finds its directory missing makes it again.
MakeLocalDir(d) ==
    /\ Event
    /\ local[d] = None
    /\ d \in Within(local)
    /\ local' = [local EXCEPT ![d] = Dir]
    /\ MayList(d)
    /\ Disturbs(d)
    /\ UNCHANGED <<das, pc, mode, cur, due, held, rm, latest, raced, cut, missed>>

Writers ==
    \/ \E f \in Files : WriteLocal(f) \/ WriteLinked(f)
    \/ \E d \in Dirs : MakeLocalDir(d)

-----------------------------------------------------------------------------
(* remove_media_files, after Radarr or Sonarr dropped the title: the path  *)
(* it knows and the one that mirrors it, one after the other.              *)

Busy == due \cup { n \in Tops : cur \in Under[n] }

RmStart(t, left) ==
    /\ Event
    /\ rm = Idle
    /\ local[t] # None \/ das[t] # None
    /\ rm' = [node |-> t, left |-> left, stage |-> "stat", seen |-> {}]
    /\ latest' = [n \in Nodes |-> IF n \in Under[t] THEN None ELSE latest[n]]
    /\ clash' = (clash \ {t}) \cup (Busy \cap {t})
    /\ gone' = gone \ {t} /\ missed' = missed \ {t}
    /\ UNCHANGED <<disks, worker, raced, cut>>

\* The entry on the disk whose turn it is, and a change to that disk.
Disk == IF Head(rm.left) = "local" THEN local ELSE das

Erase(S) ==
    LET erased == [n \in Nodes |-> IF n \in S THEN None ELSE Disk[n]]
    IN  IF Head(rm.left) = "local" THEN local' = erased /\ UNCHANGED das
                                   ELSE das' = erased /\ UNCHANGED local

\* The next path, or the answer to the user.
RmNext ==
    IF Len(rm.left) = 1
      THEN rm' = Idle /\ gone' = gone \cup {rm.node}
      ELSE rm' = [rm EXCEPT !.left = Tail(@), !.stage = "stat", !.seen = {}] /\ UNCHANGED gone

\* Mutant of RmAbsent: a path that is not there ends the removal.
RmAbsentEnds ==
    /\ rm.stage = "stat"
    /\ Disk[rm.node] = None
    /\ rm' = Idle
    /\ gone' = gone \cup {rm.node}
    /\ UNCHANGED <<disks, worker, events, latest, raced, cut, clash, missed>>

\* symlink_metadata: NotFound is no error.
RmAbsent ==
    /\ rm.stage = "stat"
    /\ Disk[rm.node] = None
    /\ RmNext
    /\ UNCHANGED <<disks, worker, events, latest, raced, cut, clash, missed>>

\* The DAS is not mounted: what it holds is not found, and that is no error either.
RmMissed ==
    /\ rm.stage = "stat"
    /\ Head(rm.left) = "das"
    /\ das[rm.node] # None
    /\ RmNext
    /\ missed' = missed \cup {rm.node}
    /\ UNCHANGED <<disks, worker, events, latest, raced, cut, clash>>

RmStat ==
    /\ rm.stage = "stat"
    /\ Disk[rm.node] # None
    /\ rm' = [rm EXCEPT !.stage = IF Disk[rm.node] = Dir THEN "tree" ELSE "file"]
    /\ UNCHANGED <<disks, worker, events, history>>

\* remove_file, or remove_dir_all on a link.
RmFile ==
    /\ rm.stage \in {"file", "tree"}
    /\ Disk[rm.node] \notin {None, Dir}
    /\ rm.stage = "tree" => Disk[rm.node] = Link
    /\ Erase({rm.node})
    /\ RmNext
    /\ UNCHANGED <<worker, events, latest, raced, cut, clash, missed>>

\* remove_dir_all: what is inside, each once and from below, then the directory.
RmInner(n) ==
    /\ rm.stage = "tree"
    /\ n \in Under[rm.node] \ ({rm.node} \cup rm.seen)
    /\ Disk[n] # None
    /\ \A k \in Kids(n) : Disk[k] = None
    /\ Erase({n})
    /\ rm' = [rm EXCEPT !.seen = @ \cup {n}]
    /\ UNCHANGED <<worker, events, history>>

RmTree ==
    /\ rm.stage = "tree"
    /\ Disk[rm.node] = Dir
    /\ \A k \in Kids(rm.node) : Disk[k] = None
    /\ Erase({rm.node})
    /\ RmNext
    /\ UNCHANGED <<worker, events, latest, raced, cut, clash, missed>>

\* Any error, what another removed first included: the rest stays.
RmFails ==
    /\ rm # Idle
    /\ rm' = Idle
    /\ clash' = clash \ {rm.node}
    /\ UNCHANGED <<disks, worker, events, latest, raced, cut, gone, missed>>

Remover ==
    \/ \E t \in Tops, left \in {<<"local", "das">>, <<"das", "local">>} : RmStart(t, left)
    \/ RmAbsent \/ RmMissed \/ RmStat \/ RmFile \/ RmTree \/ RmFails
    \/ \E n \in Nodes : RmInner(n)

Next == Worker \/ Fault \/ Crash \/ Writers \/ Remover

Spec == Init /\ [][Next]_vars

\* The worker goes on and its batches recur, of which kind is not said.
FairSpec == Spec /\ WF_vars(Worker)

-----------------------------------------------------------------------------
(* Properties.                                                             *)

\* Every variable holds a value of its type.
TypeOK ==
    /\ local \in [Nodes -> {None, Dir, Link} \cup Versions]
    /\ \A n \in Dirs \ Tops : local[n] # Link
    /\ das \in [Nodes -> {None, Dir, Partial} \cup Versions]
    /\ pc \in {"idle", "due", "walk", "enter", "open", "copy", "remove", "link"}
    /\ mode \in {"mass", "aged"}
    /\ cur \in Nodes \cup {Root}
    /\ todo \in [Dirs \cup {Root} -> SUBSET Nodes]
    /\ due \subseteq Tops
    /\ held \in {None, Partial} \cup Versions
    /\ rm.node \in Tops \cup {Root}
    /\ events \in 0 .. MaxEvents
    /\ latest \in [Nodes -> {None} \cup Versions]
    /\ raced \subseteq Files /\ cut \subseteq Tops
    /\ gone \subseteq Tops /\ clash \subseteq Tops /\ missed \subseteq Tops

\* No byte of a file is ever lost, wherever an error or a crash cuts a batch,
\* unless the file is written between the start of its copy and its removal
\* (lib.rs:425-442).
NothingLost ==
    \A f \in Files \ raced : latest[f] # None => latest[f] \in {local[f], das[f]}

\* What the path of a file leads to.
At(f) == IF Linked(f) THEN das[f] ELSE local[f]

Handling(t) == cur \in Under[t]

\* A file is missing from its path only while the worker is at its entry, or
\* after an error cut the move of the entry: a batch that reports no error
\* leaves every file where it was found (lib.rs:433-468).
MissingOnlyIfCut ==
    \A t \in Tops : \A f \in Files \cap Under[t] :
        latest[f] # None /\ f \notin raced /\ At(f) # latest[f] => Handling(t) \/ t \in cut

\* A removal that reported success left nothing on the local disk, and nothing on
\* the DAS but what it did not find because the DAS was not mounted, unless the
\* worker or a writer was at the entry meanwhile (mod.rs:319-345, 529-532).
RemovedIsGone ==
    \A t \in gone \ clash : \A n \in Under[t] :
        local[n] = None /\ (das[n] = None \/ t \in missed)

\* What keeps an entry from being moved: a link inside, or a directory on the DAS
\* where a file goes, left by a move whose file went first.
Blocked(t) ==
    \E f \in Files \cap Under[t] : (f \notin Tops /\ local[f] = Link) \/ das[f] = Dir

Settled(t) == local[t] \in {None, Link}

\* A targeted batch over these entries at least.
Targeted(S) == \E T \in SUBSET Tops : S \subseteq T /\ BeginAged(T)

\* A directory that is there and that nothing blocks is moved and replaced by a
\* link in the end, if scheduled batches that find it old recur.  On a disk that
\* stays full there are only mass moves (lib.rs:305, 325), each of which ends at
\* its first error: then nothing may be blocked in the whole pair.  An error or a
\* crash is made good by a later batch (lib.rs:285-345, 403-484).
DirectoriesMove ==
    \A t \in Tops \cap Dirs :
        /\ []<><<Targeted({t})>>_vars => []<>(Settled(t) \/ Blocked(t))
        /\ <>[][~Targeted({})]_vars
              => []<>(Settled(t) \/ \E u \in Tops : Blocked(u))

-----------------------------------------------------------------------------
(* What the repository says and the code does not do.                      *)

\* README.md:31-33: files and directories "are moved and replaced by symlinks at
\* their original locations; existing symlinks, including broken ones, are
\* skipped": between batches a file that was moved is found at its path.
MovedIsLinked ==
    pc = "idle" =>
        \A f \in Files : latest[f] # None /\ das[f] = latest[f] => At(f) = latest[f]
=============================================================================
