---------------------------- MODULE MoveFiles_proof ----------------------------
(***************************************************************************)
(* What a batch does to the files of one pair, for any tree of paths and   *)
(* any number of writes, removals, errors and crashes.                     *)
(***************************************************************************)
EXTENDS MoveFiles, TLAPS

-----------------------------------------------------------------------------
(* The inductive invariant.                                                *)

Stages == {"off", "stat", "tree", "file"}
Orders == {<<>>, <<"local">>, <<"das">>, <<"local", "das">>, <<"das", "local">>}

Removing == rm.stage # "off"

\* Where the worker can be, and the removal.
Places ==
    /\ pc \in {"idle", "due"} => cur = Root
    /\ pc = "walk" => cur \in Dirs \cup {Root}
    /\ pc \in {"enter", "open", "remove"} => cur \in Nodes
    /\ pc = "copy" => cur \in Files
    /\ pc = "link" => cur \in Tops
    /\ \A d \in Dirs \cup {Root} : todo[d] \subseteq Kids(d)
    /\ rm \in [node : Tops \cup {Root}, left : Orders, stage : Stages, seen : SUBSET Nodes]
    /\ IF Removing THEN rm.node \in Tops /\ rm.left # <<>> ELSE rm = Idle

\* What is there is in a directory that is there, on either disk.
Grown(disk) == \A n \in Nodes : disk[n] # None => n \in Within(disk)

Grounded ==
    /\ Grown(local) /\ Grown(das)
    /\ \A d \in Dirs : local[d] \in {None, Dir, Link}
    /\ \A f \in Files : local[f] # Dir

\* A file whose last write nobody disturbed.
Kept(f) == f \in Files \ raced /\ latest[f] # None

\* A file that has bytes on the local disk has its last ones there; the copy under
\* way writes them, and what the worker is about to remove was copied.
Contents ==
    /\ \A f \in Files : Kept(f) /\ IsFile(f) => local[f] = latest[f]
    /\ pc = "copy" /\ Kept(cur) =>
          /\ At(cur) = latest[cur]
          /\ das[cur] = latest[cur] \/ (das[cur] = Partial /\ held = latest[cur])
    /\ pc = "remove" /\ Kept(cur) => das[cur] = latest[cur]
    /\ \A n \in Under[rm.node] : latest[n] = None

\* Nobody has been at an entry that is or was removed without a clash on record.
Apart ==
    /\ Removing => rm.node \notin gone
    /\ Removing /\ rm.node \notin clash => rm.node \notin Busy
    /\ \A t \in gone \ clash : t \notin Busy

\* What a removal that has one disk left has done on the other.
Passed(n) == IF rm.left = <<"local">> THEN das[n] = None \/ rm.node \in missed
                                      ELSE local[n] = None

Halfway ==
    Len(rm.left) = 1 /\ rm.node \notin clash => \A n \in Under[rm.node] : Passed(n)

IInv ==
    /\ TypeOK /\ Places /\ Grounded
    /\ Contents /\ NothingLost /\ MissingOnlyIfCut
    /\ Apart /\ Halfway /\ RemovedIsGone

-----------------------------------------------------------------------------
(* Values and paths.                                                       *)

LEMMA Values ==
    /\ None # Dir /\ None # Link /\ None # Partial /\ Dir # Link /\ Dir # Partial
    /\ Link # Partial
    /\ \A v \in Versions : v \notin {None, Dir, Link, Partial}
BY MaxEventsAssumption DEF None, Dir, Link, Partial, Versions

LEMMA Tree ==
    /\ \A n \in Nodes : Parent[n] \in Dirs \cup {Root} /\ n # Root
    /\ Dirs \subseteq Nodes /\ Files \subseteq Nodes /\ Tops \subseteq Nodes
    /\ \A n \in Nodes : n \in Dirs \/ n \in Files
    /\ \A n \in Nodes : ~(n \in Dirs /\ n \in Files)
    /\ Root \notin Nodes
    /\ \A n \in Nodes : n \in Tops <=> Parent[n] = Root
BY TreeAssumption DEF Nodes, Tops, Kids

LEMMA PathFacts ==
    ASSUME NEW n \in Nodes
    PROVE  Path[n] \subseteq Nodes /\ n \in Path[n] /\ Upward(Path[n])
<1>1. Path[n] = { m \in Nodes : \A S \in SUBSET Nodes : n \in S /\ Upward(S) => m \in S }
    BY DEF Path
<1>2. ASSUME NEW m \in Path[n], Parent[m] # Root
      PROVE  Parent[m] \in Path[n]
  <2>1. m \in Nodes /\ Parent[m] \in Nodes
      BY <1>1, <1>2, Tree
  <2>2. ASSUME NEW S \in SUBSET Nodes, n \in S, Upward(S)
        PROVE  Parent[m] \in S
      BY <1>1, <1>2, <2>2 DEF Upward
  <2> QED
      BY <1>1, <2>1, <2>2
<1> QED
    BY <1>1, <1>2 DEF Upward

LEMMA PathLeast ==
    ASSUME NEW n \in Nodes, NEW S \in SUBSET Nodes, n \in S, Upward(S)
    PROVE  Path[n] \subseteq S
BY DEF Path

LEMMA PathTransitive ==
    ASSUME NEW n \in Nodes, NEW m \in Path[n]
    PROVE  m \in Nodes /\ Path[m] \subseteq Path[n]
BY PathFacts, PathLeast

\* The path of n goes on with that of its directory.
LEMMA PathUp ==
    ASSUME NEW n \in Nodes
    PROVE  Path[n] = {n} \cup (IF Parent[n] = Root THEN {} ELSE Path[Parent[n]])
<1> DEFINE above == IF Parent[n] = Root THEN {} ELSE Path[Parent[n]]
<1>1. Parent[n] # Root => Parent[n] \in Nodes
    BY Tree
<1>2. above \subseteq Path[n]
    BY <1>1, PathFacts, PathTransitive DEF Upward
<1>3. {n} \cup above \in SUBSET Nodes /\ Upward({n} \cup above)
    BY <1>1, PathFacts DEF Upward
<1>4. Path[n] \subseteq {n} \cup above
    BY <1>3, PathLeast
<1> QED
    BY <1>2, <1>4, PathFacts

\* Whatever is on the path of n above n has its child there.
LEMMA ChildOnPath ==
    ASSUME NEW n \in Nodes, NEW m \in Path[n], m # n
    PROVE  \E k \in Path[n] : Parent[k] = m
<1> SUFFICES ASSUME \A k \in Path[n] : Parent[k] # m
             PROVE  FALSE
    OBVIOUS
<1>1. Path[n] \ {m} \in SUBSET Nodes /\ n \in Path[n] \ {m} /\ Upward(Path[n] \ {m})
    BY PathFacts DEF Upward
<1> QED
    BY <1>1, PathLeast

\* Of two paths on the path of n one is on that of the other.
LEMMA OnePath ==
    ASSUME NEW n \in Nodes, NEW a \in Path[n], NEW b \in Path[n]
    PROVE  a \in Path[b] \/ b \in Path[a]
<1> DEFINE S == { m \in Nodes : a \in Path[m] \/ m \in Path[a] }
<1>1. a \in Nodes /\ b \in Nodes
    BY PathFacts
<1>2. ASSUME NEW m \in S, Parent[m] # Root
      PROVE  Parent[m] \in S
  <2>1. m \in Nodes /\ Parent[m] \in Nodes
      BY Tree, <1>2
  <2>2. CASE m \in Path[a]
      BY <1>1, <1>2, <2>1, <2>2, PathFacts DEF Upward
  <2>3. CASE a \in Path[m] /\ m = a
      BY <1>1, <2>1, <2>3, <1>2, PathFacts DEF Upward
  <2>4. CASE a \in Path[m] /\ m # a
      BY <1>2, <2>1, <2>4, PathUp
  <2> QED
      BY <1>2, <2>2, <2>3, <2>4
<1>3. S \in SUBSET Nodes /\ n \in S /\ Upward(S)
    BY <1>2 DEF Upward
<1> QED
    BY <1>3, PathLeast

LEMMA TopPath == \A t \in Tops : t \in Nodes /\ Path[t] = {t}
BY PathUp, Tree

LEMMA OneTop ==
    ASSUME NEW n \in Nodes, NEW s \in Tops, NEW t \in Tops, s \in Path[n], t \in Path[n]
    PROVE  s = t
BY OnePath, TopPath

LEMMA UnderFacts ==
    /\ \A t \in Nodes \cup {Root} : Under[t] \subseteq Nodes
    /\ \A t \in Nodes : \A n \in Nodes : n \in Under[t] <=> t \in Path[n]
    /\ \A n \in Nodes : n \in Under[n]
    /\ Under[Root] = {}
BY PathFacts, Tree DEF Under

\* The worker stays in an entry when it goes down a level, and when it goes up
\* from below the top.
LEMMA SameEntry ==
    ASSUME NEW n \in Nodes, NEW t \in Tops, Parent[n] # Root
    PROVE  n \in Under[t] <=> Parent[n] \in Under[t]
<1>1. Parent[n] \in Nodes /\ n \notin Tops
    BY Tree
<1> QED
    BY <1>1, PathUp, UnderFacts, Tree

-----------------------------------------------------------------------------
(* Trees on a disk.                                                        *)

LEMMA AboveIsDir ==
    ASSUME NEW disk, Grown(disk), NEW n \in Nodes, n \in Within(disk)
    PROVE  \A m \in Path[n] : m = n \/ disk[m] = Dir
<1> DEFINE S == { m \in Path[n] : m = n \/ disk[m] = Dir }
<1>1. ASSUME NEW m \in S, Parent[m] # Root
      PROVE  Parent[m] \in S
  <2>1. m \in Nodes /\ m \in Within(disk)
      BY PathFacts, Values DEF Grown
  <2>2. disk[Parent[m]] = Dir
      BY <1>1, <2>1, Tree DEF Within
  <2> QED
      BY <1>1, <2>2, PathFacts DEF Upward
<1>2. S \in SUBSET Nodes /\ n \in S /\ Upward(S)
    BY <1>1, PathFacts DEF Upward
<1> QED
    BY <1>2, PathLeast

\* Below a path without children nothing is there.
LEMMA EmptyBelow ==
    ASSUME NEW disk, Grown(disk), NEW m \in Nodes, \A k \in Kids(m) : disk[k] = None,
           NEW n \in Under[m], n # m
    PROVE  disk[n] = None
<1> SUFFICES ASSUME disk[n] # None
             PROVE  FALSE
    OBVIOUS
<1>1. n \in Nodes /\ m \in Path[n]
    BY UnderFacts
<1>2. \A k \in Path[n] : k = n \/ disk[k] = Dir
    BY <1>1, AboveIsDir DEF Grown
<1>3. PICK k \in Path[n] : Parent[k] = m
    BY <1>1, ChildOnPath
<1>4. k \in Nodes /\ k \in Kids(m)
    BY <1>1, <1>3, PathFacts DEF Kids
<1> QED
    BY <1>2, <1>4, Values

LEMMA NoKids ==
    ASSUME NEW disk, Grown(disk), NEW m \in Nodes, disk[m] # Dir
    PROVE  \A k \in Kids(m) : disk[k] = None
BY Tree DEF Grown, Within, Kids

\* What may be put at a path of a tree.
LEMMA PutGrows ==
    ASSUME NEW disk, Grown(disk), NEW new, NEW x \in Nodes,
           \A n \in Nodes : n # x => new[n] = disk[n],
           new[x] # None => x \in Within(disk),
           \/ disk[x] = Dir => new[x] = Dir
           \/ \A k \in Kids(x) : disk[k] = None
    PROVE  Grown(new)
<1> SUFFICES ASSUME NEW n \in Nodes, new[n] # None
             PROVE  n \in Within(new)
    BY DEF Grown
<1>1. n \in Within(disk)
    BY DEF Grown
<1>2. CASE n \in Tops
    BY <1>2 DEF Within
<1>3. CASE n \notin Tops /\ Parent[n] # x
    BY <1>1, <1>3, Tree DEF Within
<1>4. CASE n \notin Tops /\ Parent[n] = x
  <2>1. disk[x] = Dir /\ n \in Kids(x)
      BY <1>1, <1>4 DEF Within, Kids
  <2>2. new[x] = Dir
      BY <2>1, Values
  <2> QED
      BY <1>4, <2>1, <2>2 DEF Within
<1> QED
    BY <1>2, <1>3, <1>4

-----------------------------------------------------------------------------
(* Types.                                                                  *)

LEMMA Walking ==
    ASSUME TypeOK, Places, Batch \/ Walk
    PROVE  TypeOK' /\ Places'
<1> USE Tree DEF TypeOK, Places, Go, Meets, Entry, Removing, disks, history
<1>1. CASE BeginMass
    BY <1>1 DEF BeginMass, Listing, Kids
<1>2. ASSUME NEW S \in SUBSET Tops, BeginAged(S)
      PROVE  TypeOK' /\ Places'
    BY <1>2 DEF BeginAged
<1>3. CASE EndAged
    BY <1>3 DEF EndAged
<1>4. ASSUME NEW n \in Nodes, NextDue(n)
      PROVE  TypeOK' /\ Places'
    BY <1>4 DEF NextDue
<1>5. ASSUME NEW n \in Nodes, NextEntry(n)
      PROVE  TypeOK' /\ Places'
    BY <1>5 DEF NextEntry
<1>6. ASSUME NEW n \in Nodes, SkipEntry(n)
      PROVE  TypeOK' /\ Places'
    BY <1>6 DEF SkipEntry
<1>7. ASSUME NEW n \in Nodes, EntryGone(n)
      PROVE  TypeOK' /\ Places'
    BY <1>7 DEF EntryGone, Quit, Abandon, Cut, NoStream
<1>8. CASE EndWalk
    BY <1>8 DEF EndWalk
<1> QED
    BY <1>1, <1>2, <1>3, <1>4, <1>5, <1>6, <1>7, <1>8 DEF Batch, Walk

\* Only files have bytes.
LEMMA FileIsFile ==
    ASSUME TypeOK, Grounded, NEW n \in Nodes, IsFile(n)
    PROVE  n \in Files
BY Tree, Values DEF Grounded, IsFile

LEMMA AbandonTypes ==
    ASSUME TypeOK, Places, Abandon, events' \in 0 .. MaxEvents
    PROVE  TypeOK' /\ Places'
BY Tree DEF TypeOK, Places, Go, Removing, disks, Abandon, Cut, NoStream

LEMMA Moving ==
    ASSUME TypeOK, Places, Grounded, Move
    PROVE  TypeOK' /\ Places'
<1> USE Tree DEF TypeOK, Places, Go, Meets, Entry, Removing, Return, disks, history
<1>1. CASE OpenFile
    BY <1>1, FileIsFile, Values DEF OpenFile, IsFile
<1>2. CASE OpenFileFails \/ MakeDirFails \/ OpenDirFails \/ RemoveFails \/ LinkFails
    BY <1>2, AbandonTypes
    DEF OpenFileFails, MakeDirFails, OpenDirFails, RemoveFails, LinkFails, Quit
<1>3. CASE MakeDir
    BY <1>3 DEF MakeDir
<1>4. CASE OpenDir
  <2>1. cur \in Dirs
      BY <1>4 DEF OpenDir, Grounded
  <2> QED
      BY <1>4, <2>1 DEF OpenDir, Listing, Kids
<1>5. CASE CopyEnds
    BY <1>5 DEF CopyEnds
<1>6. CASE Remove
  <2>1. local' \in [Nodes -> {None, Dir, Link} \cup Versions]
        /\ \A n \in Dirs \ Tops : local'[n] # Link
      BY <1>6, Values DEF Remove
  <2>2. CASE Parent[cur] = Root
      BY <1>6, <2>1, <2>2 DEF Remove
  <2>3. CASE Parent[cur] # Root
      BY <1>6, <2>1, <2>3 DEF Remove
  <2> QED
      BY <2>2, <2>3
<1>7. CASE LinkEntry
    BY <1>7 DEF LinkEntry
<1> QED
    BY <1>1, <1>2, <1>3, <1>4, <1>5, <1>6, <1>7 DEF Move

LEMMA Listed ==
    ASSUME TypeOK, Places, NEW n \in Nodes, MayList(n)
    PROVE  /\ todo' \in [Dirs \cup {Root} -> SUBSET Nodes]
           /\ \A d \in Dirs \cup {Root} : todo'[d] \subseteq Kids(d)
<1>1. PICK news \in SUBSET ({n} \ {cur}) :
          todo' = IF Parent[n] \in Reading THEN [todo EXCEPT ![Parent[n]] = @ \cup news]
                                           ELSE todo
    BY DEF MayList
<1>2. news \subseteq Kids(Parent[n]) /\ Parent[n] \in Dirs \cup {Root}
    BY Tree DEF Kids
<1>3. \A d \in Dirs \cup {Root} :
          todo'[d] \in {todo[d]} \cup (IF d = Parent[n] THEN {todo[d] \cup news} ELSE {})
    BY <1>1 DEF TypeOK
<1>4. todo' \in [Dirs \cup {Root} -> SUBSET Nodes]
    BY <1>1, <1>2 DEF TypeOK
<1> QED
    BY <1>2, <1>3, <1>4 DEF Places

LEMMA Happening ==
    ASSUME TypeOK, Places, Grounded, Fault \/ Crash \/ Writers
    PROVE  TypeOK' /\ Places'
<1>0. Event => events' \in 0 .. MaxEvents /\ NewVersion \in Versions
    BY MaxEventsAssumption DEF Event, NewVersion, Versions, TypeOK
<1> USE Tree DEF TypeOK, Places, Go, Removing, disks
<1>a. ASSUME NEW n \in Nodes, Disturbs(n)
      PROVE  gone' \subseteq Tops /\ clash' \subseteq Tops
    BY <1>a, PathFacts DEF Disturbs
<1>1. CASE Fault
    BY <1>0, <1>1, AbandonTypes DEF Fault
<1>2. CASE Crash
    BY <1>0, <1>2 DEF Crash, Cut, NoStream, Idle, Orders, Stages
<1>3. ASSUME NEW f \in Files, WriteLocal(f)
      PROVE  TypeOK' /\ Places'
    BY <1>0, <1>a, <1>3, Listed DEF WriteLocal
<1>4. ASSUME NEW f \in Files, WriteLinked(f)
      PROVE  TypeOK' /\ Places'
    BY <1>0, <1>a, <1>4 DEF WriteLinked, worker
<1>5. ASSUME NEW d \in Dirs, MakeLocalDir(d)
      PROVE  TypeOK' /\ Places'
    BY <1>0, <1>a, <1>5, Listed, Values DEF MakeLocalDir
<1> QED
    BY <1>1, <1>2, <1>3, <1>4, <1>5 DEF Writers

\* The paths a removal has left.
LEMMA OrderFacts ==
    ASSUME NEW o \in Orders, o # <<>>
    PROVE  /\ Head(o) \in {"local", "das"}
           /\ Len(o) = 1 => o = <<Head(o)>>
           /\ Len(o) # 1 => /\ Tail(o) \in {<<"local">>, <<"das">>} /\ Tail(o) \in Orders
                            /\ Len(Tail(o)) = 1 /\ Tail(o) # <<Head(o)>>
<1>1. CASE o \in {<<"local">>, <<"das">>}
    BY <1>1
<1>2. CASE o = <<"local", "das">>
  <2>1. Head(o) = "local" /\ Tail(o) = <<"das">> /\ Len(o) = 2
      BY <1>2
  <2>2. <<"das">> # <<"local">> /\ Len(<<"das">>) = 1
      OBVIOUS
  <2> QED
      BY <2>1, <2>2 DEF Orders
<1>3. CASE o = <<"das", "local">>
  <2>1. Head(o) = "das" /\ Tail(o) = <<"local">> /\ Len(o) = 2
      BY <1>3
  <2>2. <<"das">> # <<"local">> /\ Len(<<"local">>) = 1
      OBVIOUS
  <2> QED
      BY <2>1, <2>2 DEF Orders
<1> QED
    BY <1>1, <1>2, <1>3 DEF Orders

LEMMA RemoverTypes ==
    ASSUME TypeOK, Places, Grounded, Remover
    PROVE  TypeOK' /\ Places'
<1> USE Tree DEF TypeOK, Places, Removing, disks, worker, history
<1>1. ASSUME NEW t \in Tops, NEW left \in {<<"local", "das">>, <<"das", "local">>},
             RmStart(t, left)
      PROVE  TypeOK' /\ Places'
  <2>1. rm' = [node |-> t, left |-> left, stage |-> "stat", seen |-> {}]
      BY <1>1 DEF RmStart
  <2>2. left \in Orders /\ "stat" \in Stages /\ "stat" # "off"
      BY DEF Orders, Stages
  <2>3. left # <<>>
    <3>1. <<"local", "das">> # <<>> /\ <<"das", "local">> # <<>>
        OBVIOUS
    <3> QED
        BY <3>1
  <2>4. events' \in 0 .. MaxEvents
      BY <1>1, MaxEventsAssumption DEF RmStart, Event
  <2>5. Places'
      BY <1>1, <2>1, <2>2, <2>3 DEF RmStart
  <2> QED
      BY <1>1, <2>1, <2>4, <2>5 DEF RmStart
<1>2. ASSUME RmNext, Removing
      PROVE  /\ rm' \in [node : Tops \cup {Root}, left : Orders, stage : Stages,
                         seen : SUBSET Nodes]
             /\ IF Removing' THEN rm'.node \in Tops /\ rm'.left # <<>> ELSE rm' = Idle
             /\ gone' \subseteq Tops
  <2>1. CASE Len(rm.left) = 1
    <3>1. rm' = Idle /\ gone' = gone \cup {rm.node} /\ rm.node \in Tops
        BY <1>2, <2>1 DEF RmNext
    <3>2. Idle \in [node : Tops \cup {Root}, left : Orders, stage : Stages, seen : SUBSET Nodes]
          /\ Idle.stage = "off"
        BY DEF Idle, Orders, Stages
    <3> QED
        BY <3>1, <3>2
  <2>2. CASE Len(rm.left) # 1
    <3>1. Tail(rm.left) \in Orders /\ Tail(rm.left) # <<>>
      <4>1. rm.left \in Orders /\ rm.left # <<>>
          BY <1>2
      <4>2. <<"local">> # <<>> /\ <<"das">> # <<>>
          OBVIOUS
      <4> QED
          BY <2>2, <4>1, <4>2, OrderFacts
    <3>2. rm' = [node |-> rm.node, left |-> Tail(rm.left), stage |-> "stat", seen |-> {}]
        BY <1>2, <2>2 DEF RmNext
    <3>3. rm.node \in Tops /\ "stat" \in Stages /\ "stat" # "off"
        BY <1>2 DEF Stages
    <3> QED
        BY <1>2, <2>2, <3>1, <3>2, <3>3 DEF RmNext
  <2> QED
      BY <2>1, <2>2
<1>3. ASSUME NEW S \in SUBSET Nodes, Erase(S)
      PROVE  /\ local' \in [Nodes -> {None, Dir, Link} \cup Versions]
             /\ \A n \in Dirs \ Tops : local'[n] # Link
             /\ das' \in [Nodes -> {None, Dir, Partial} \cup Versions]
    BY <1>3, Values DEF Erase, Disk
<1>4. CASE RmAbsent \/ RmMissed
  <2>1. Removing /\ RmNext /\ rm.node \in Tops /\ UNCHANGED <<disks, worker, events, latest, raced,
                                                             cut, clash>>
        /\ missed' \subseteq missed \cup {rm.node}
      BY <1>4 DEF RmAbsent, RmMissed
  <2> QED
      BY <1>2, <2>1
<1>5. CASE RmStat
    BY <1>5 DEF RmStat, Stages, Idle
<1>6. CASE RmFile
  <2>1. Removing /\ RmNext /\ Erase({rm.node}) /\ rm.node \in Nodes
      BY <1>6 DEF RmFile
  <2> QED
      BY <1>2, <1>3, <1>6, <2>1 DEF RmFile
<1>7. ASSUME NEW n \in Nodes, RmInner(n)
      PROVE  TypeOK' /\ Places'
  <2>1. Erase({n})
      BY <1>7 DEF RmInner
  <2> QED
      BY <1>3, <1>7, <2>1 DEF RmInner
<1>8. CASE RmTree
  <2>1. Removing /\ RmNext /\ Erase({rm.node}) /\ rm.node \in Nodes
      BY <1>8 DEF RmTree
  <2> QED
      BY <1>2, <1>3, <1>8, <2>1 DEF RmTree
<1>9. CASE RmFails
    BY <1>9 DEF RmFails, Idle, Orders, Stages
<1> QED
    BY <1>1, <1>4, <1>5, <1>6, <1>7, <1>8, <1>9 DEF Remover

\* The removal goes on to the other disk, or is done.
LEMMA RmNextFacts ==
    ASSUME TypeOK, Places, Removing, RmNext
    PROVE  /\ rm'.node \in {rm.node, Root}
           /\ \/ Len(rm.left) = 1 /\ rm' = Idle /\ gone' = gone \cup {rm.node}
              \/ /\ Len(rm.left) # 1 /\ rm'.node = rm.node /\ rm'.left = Tail(rm.left)
                 /\ rm'.stage = "stat" /\ gone' = gone
<1>1. CASE Len(rm.left) = 1
    BY <1>1 DEF RmNext, Idle
<1>2. CASE Len(rm.left) # 1
  <2>1. rm' = [rm EXCEPT !.left = Tail(rm.left), !.stage = "stat", !.seen = {}]
        /\ gone' = gone
      BY <1>2 DEF RmNext
  <2>2. rm' = [node |-> rm.node, left |-> Tail(rm.left), stage |-> "stat", seen |-> {}]
      BY <2>1 DEF Places
  <2> QED
      BY <1>2, <2>1, <2>2
<1> QED
    BY <1>1, <1>2

-----------------------------------------------------------------------------
(* The trees of the two disks.                                             *)

\* Only what has nothing in it is removed by the worker.
LEMMA RemovesOne ==
    ASSUME TypeOK, Places, Grounded, Remove
    PROVE  /\ cur \in Nodes /\ \A k \in Kids(cur) : local[k] = None
           /\ local' = [local EXCEPT ![cur] = None]
<1>1. cur \in Nodes
    BY DEF Remove, Places
<1>2. \A k \in Kids(cur) : local[k] = None
    BY <1>1, NoKids DEF Remove, CanRemove, Listing, Grounded
<1>3. \A n \in Nodes : cur \in Path[n] => n = cur \/ local[n] = None
    BY <1>1, <1>2, EmptyBelow, UnderFacts DEF Grounded
<1>4. cur \in Path[cur]
    BY <1>1, PathFacts
<1>5. local' = [n \in Nodes |-> IF cur \in Path[n] THEN None ELSE local[n]]
    BY DEF Remove
<1> QED
    BY <1>1, <1>2, <1>3, <1>4, <1>5 DEF TypeOK

\* Likewise by the removal.
Erasing(x) == x \in Under[rm.node] /\ Removing /\ Erase({x}) /\ \A k \in Kids(x) : Disk[k] = None

LEMMA ErasesOne ==
    ASSUME TypeOK, Places, Grounded
    PROVE  /\ RmFile \/ RmTree => Erasing(rm.node)
           /\ \A n \in Nodes : RmInner(n) => Erasing(n)
<1>1. Grown(Disk)
    BY DEF Grounded, Disk
<1>2. Removing => rm.node \in Nodes /\ rm.node \in Under[rm.node]
    BY Tree, UnderFacts DEF Places
<1>3. RmFile => Erasing(rm.node)
    BY <1>1, <1>2, NoKids DEF RmFile, Erasing, Removing
<1>4. RmTree => Erasing(rm.node)
    BY <1>2 DEF RmTree, Erasing, Removing
<1>5. ASSUME NEW n \in Nodes, RmInner(n)
      PROVE  Erasing(n)
    BY <1>5 DEF RmInner, Erasing, Removing
<1> QED
    BY <1>3, <1>4, <1>5

LEMMA ErasedDisks ==
    ASSUME TypeOK, Places, Grounded, NEW x, Erasing(x)
    PROVE  /\ x \in Nodes
           /\ \/ /\ Head(rm.left) = "local" /\ local' = [local EXCEPT ![x] = None]
                 /\ das' = das /\ \A k \in Kids(x) : local[k] = None
              \/ /\ Head(rm.left) # "local" /\ das' = [das EXCEPT ![x] = None]
                 /\ local' = local /\ \A k \in Kids(x) : das[k] = None
<1>1. x \in Nodes
    BY Tree, UnderFacts DEF Erasing, Places
<1> QED
    BY <1>1 DEF Erasing, Erase, Disk, TypeOK

LEMMA GroundedStep ==
    ASSUME TypeOK, Places, Grounded, [Next]_vars
    PROVE  Grounded'
<1> USE DEF TypeOK, Places
<1>1. ASSUME UNCHANGED disks
      PROVE  Grounded'
    BY <1>1 DEF disks, Grounded, Grown, Within
<1>2. CASE Batch \/ Walk
  <2>1. UNCHANGED disks
      BY <1>2 DEF Batch, Walk, BeginMass, BeginAged, EndAged, NextDue, NextEntry,
                  SkipEntry, EntryGone, Quit, Abandon, EndWalk
  <2> QED
      BY <1>1, <2>1
<1>3. CASE \/ OpenFileFails \/ MakeDirFails \/ OpenDir \/ OpenDirFails \/ RemoveFails
           \/ LinkFails \/ Fault \/ Crash
  <2>1. UNCHANGED disks
      BY <1>3 DEF OpenFileFails, MakeDirFails, OpenDir, OpenDirFails, RemoveFails,
                  LinkFails, Fault, Crash, Quit, Abandon
  <2> QED
      BY <1>1, <2>1
<1>4. CASE OpenFile
  <2>1. local' = local /\ Grown(das')
      BY <1>4, FileIsFile, Values, Tree, PutGrows DEF OpenFile, CanCopy, Grounded
  <2> QED
      BY <2>1 DEF Grounded, Grown, Within
<1>5. CASE MakeDir
  <2>1. cur \in Nodes /\ das' = [n \in Nodes |-> IF n \in Path[cur] THEN Dir ELSE das[n]]
        /\ local' = local
      BY <1>5 DEF MakeDir
  <2>2. ASSUME NEW n \in Nodes, das'[n] # None, n \notin Tops
        PROVE  das'[Parent[n]] = Dir
    <3>1. Parent[n] \in Nodes
        BY <2>2, Tree
    <3>2. CASE n \in Path[cur]
        BY <2>1, <2>2, <3>1, <3>2, PathFacts, Tree DEF Upward
    <3>3. CASE n \notin Path[cur]
        BY <2>1, <2>2, <3>1, <3>3 DEF Grounded, Grown, Within
    <3> QED
        BY <3>2, <3>3
  <2> QED
      BY <2>1, <2>2 DEF Grounded, Grown, Within
<1>6. CASE CopyEnds
  <2>1. local' = local /\ cur \in Nodes
      BY <1>6, Tree DEF CopyEnds
  <2>2. Grown(das')
    <3>1. CASE das[cur] = Partial
        BY <1>6, <2>1, <3>1, Values, PutGrows DEF CopyEnds, Grounded, Grown
    <3>2. CASE das[cur] # Partial
        BY <1>6, <3>2 DEF CopyEnds, Grounded
    <3> QED
        BY <3>1, <3>2
  <2> QED
      BY <2>1, <2>2 DEF Grounded, Grown, Within
<1>7. CASE Remove
  <2>1. Grown(local') /\ das' = das
      BY <1>7, RemovesOne, PutGrows DEF Remove, Grounded
  <2>2. \A n \in Nodes : local'[n] \in {None, local[n]}
      BY <1>7, RemovesOne
  <2> QED
      BY <2>1, <2>2, Values, Tree DEF Grounded, Grown, Within
<1>8. CASE LinkEntry
  <2>1. cur \in Tops /\ cur \in Nodes /\ cur \in Within(local) /\ local[cur] = None
        /\ local' = [local EXCEPT ![cur] = Link] /\ das' = das
      BY <1>8, Tree DEF LinkEntry, Within
  <2>2. Grown(local')
      BY <2>1, Values, PutGrows DEF Grounded
  <2> QED
      BY <2>1, <2>2, Values, Tree DEF Grounded, Grown, Within
<1>9. ASSUME NEW f \in Files, WriteLocal(f)
      PROVE  Grounded'
  <2>1. f \in Within(local) /\ local[f] # Dir /\ NewVersion \in Versions /\ das' = das
        /\ local' = [local EXCEPT ![f] = NewVersion] /\ f \in Nodes
      BY <1>9, MaxEventsAssumption, Tree DEF WriteLocal, Event, NewVersion, Versions
  <2>2. Grown(local')
      BY <2>1, PutGrows DEF Grounded
  <2> QED
      BY <2>1, <2>2, Values, Tree DEF Grounded, Grown, Within
<1>10. ASSUME NEW f \in Files, WriteLinked(f)
       PROVE  Grounded'
  <2>1. f \in Within(das) /\ das[f] # Dir /\ local' = local
        /\ das' = [das EXCEPT ![f] = NewVersion] /\ f \in Nodes
      BY <1>10, Tree DEF WriteLinked
  <2>2. Grown(das')
      BY <2>1, PutGrows DEF Grounded
  <2> QED
      BY <2>1, <2>2 DEF Grounded, Grown, Within
<1>11. ASSUME NEW d \in Dirs, MakeLocalDir(d)
       PROVE  Grounded'
  <2>1. d \in Within(local) /\ das' = das /\ local' = [local EXCEPT ![d] = Dir] /\ d \in Nodes
      BY <1>11, Tree DEF MakeLocalDir
  <2>2. Grown(local')
      BY <2>1, PutGrows DEF Grounded
  <2> QED
      BY <2>1, <2>2, Values, Tree DEF Grounded, Grown, Within
<1>12. CASE Remover
  <2>1. ASSUME NEW x, Erasing(x)
        PROVE  Grounded'
    <3>1. Grown(local') /\ Grown(das')
        BY <2>1, ErasedDisks, PutGrows DEF Grounded
    <3>2. \A n \in Nodes : local'[n] \in {None, local[n]}
        BY <2>1, ErasedDisks
    <3> QED
        BY <3>1, <3>2, Values, Tree DEF Grounded, Grown, Within
  <2>2. \/ UNCHANGED disks
        \/ \E x : Erasing(x)
      BY <1>12, ErasesOne DEF Remover, RmStart, RmAbsent, RmMissed, RmStat, RmFails
  <2> QED
      BY <1>1, <2>1, <2>2
<1>13. CASE UNCHANGED vars
    BY <1>1, <1>13 DEF vars
<1> QED
    BY <1>2, <1>3, <1>4, <1>5, <1>6, <1>7, <1>8, <1>9, <1>10, <1>11, <1>12, <1>13
    DEF Next, Worker, Move, Writers

-----------------------------------------------------------------------------
(* The bytes of the files.                                                 *)

\* Where a file leads depends on its entry alone.
LEMMA LinkedByEntry ==
    ASSUME NEW n \in Nodes, NEW t \in Tops, n \in Under[t]
    PROVE  /\ Linked(n) <=> local[t] = Link
           /\ Linked(n)' <=> local'[t] = Link
BY OneTop, UnderFacts, TopPath DEF Linked

LEMMA NotLinked ==
    ASSUME Grounded, NEW n \in Nodes, n \in Within(local), local[n] # Link
    PROVE  ~Linked(n)
BY AboveIsDir, Values, UnderFacts, TopPath DEF Linked, Grounded

LEMMA SameLinks ==
    ASSUME \A t \in Tops : local'[t] = Link <=> local[t] = Link
    PROVE  \A n \in Nodes : Linked(n)' <=> Linked(n)
BY DEF Linked

\* A file that is kept is not touched by a removal.
LEMMA SparedByRemoval ==
    ASSUME TypeOK, Places, Grounded, Contents, NEW x, Erasing(x), NEW f \in Files, Kept(f)
    PROVE  local'[f] = local[f] /\ das'[f] = das[f] /\ (Linked(f)' <=> Linked(f))
<1>1. rm.node \in Tops /\ f \in Nodes /\ f \notin Under[rm.node]
    BY Tree DEF Erasing, Places, Contents, Kept
<1>2. x \in Nodes /\ x # f /\ (x \in Tops => x = rm.node)
    BY <1>1, ErasedDisks, UnderFacts, TopPath DEF Erasing
<1>3. local'[f] = local[f] /\ das'[f] = das[f]
    BY <1>1, <1>2, ErasedDisks DEF TypeOK
<1>4. \A t \in Tops : f \in Under[t] => local'[t] = local[t]
    BY <1>1, <1>2, ErasedDisks, TopPath DEF TypeOK
<1> QED
    BY <1>1, <1>3, <1>4 DEF Linked

\* The steps that leave the files alone.
LEMMA ContentsKept ==
    ASSUME Contents, UNCHANGED <<disks, latest, raced>>,
           pc' # "copy",
           pc' = "remove" => (pc = "remove" /\ cur' = cur) \/ cur' \notin Files,
           rm'.node = rm.node \/ Under[rm'.node] = {}
    PROVE  Contents'
BY DEF Contents, Kept, disks, IsFile, At, Linked

Errors ==
    \/ OpenFileFails \/ MakeDirFails \/ OpenDirFails \/ RemoveFails \/ LinkFails
    \/ Fault \/ Crash

LEMMA ErrorsAbandon ==
    Errors => /\ UNCHANGED <<disks, latest, raced, gone, clash, missed>> /\ Cut
              /\ pc' \in {"idle", "due"} /\ cur' = Root /\ due' \subseteq due
              /\ rm' \in {rm, Idle}
BY DEF Errors, OpenFileFails, MakeDirFails, OpenDirFails, RemoveFails, LinkFails, Fault,
       Crash, Quit, Abandon, Go

\* The worker looks around, goes on or gives up.
Aside == Batch \/ Walk \/ OpenDir \/ Errors

LEMMA AsideKeeps ==
    ASSUME TypeOK, Places, Aside
    PROVE  /\ UNCHANGED <<disks, latest, raced, gone>>
           /\ pc' # "copy" /\ (pc' = "remove" => cur' \notin Files)
           /\ rm'.node = rm.node \/ Under[rm'.node] = {}
           /\ \A t \in Tops : Handling(t) => Handling(t)' \/ t \in cut'
           /\ cut \subseteq cut'
<1> USE DEF Handling, TypeOK, Places, Go, disks
<1>0. \A t \in Tops : Root \notin Under[t]
    BY UnderFacts, Tree
<1>1. CASE BeginMass \/ (\E S \in SUBSET Tops : BeginAged(S)) \/ EndAged
           \/ \E n \in Nodes : NextDue(n)
    BY <1>0, <1>1 DEF BeginMass, BeginAged, EndAged, NextDue, history
<1>2. ASSUME NEW n \in Nodes, NextEntry(n)
      PROVE  /\ UNCHANGED <<disks, latest, raced, gone, rm, cut>> /\ pc' = "enter"
             /\ \A t \in Tops : cur \in Under[t] => cur' \in Under[t]
  <2>1. Parent[n] = cur /\ cur' = n
      BY <1>2, Tree DEF NextEntry, Kids
  <2> QED
      BY <1>0, <1>2, <2>1, SameEntry DEF NextEntry
<1>3. ASSUME NEW n \in Nodes, SkipEntry(n)
      PROVE  UNCHANGED <<disks, latest, raced, gone, rm, cut>> /\ pc' = "walk" /\ cur' = cur
    BY <1>3 DEF SkipEntry, history
<1>4. ASSUME \/ Errors
             \/ \E n \in Nodes : EntryGone(n)
      PROVE  /\ UNCHANGED <<disks, latest, raced, gone>> /\ Cut
             /\ pc' \in {"idle", "due"} /\ rm' \in {rm, Idle}
    BY <1>4, ErrorsAbandon DEF EntryGone, Quit, Abandon
<1>5. CASE EndWalk
    BY <1>0, <1>5, Tree DEF EndWalk, history
<1>6. CASE OpenDir
    BY <1>6 DEF OpenDir, history
<1>7. CASE \E n \in Nodes : NextEntry(n)
    BY <1>2, <1>7
<1>8. CASE \E n \in Nodes : SkipEntry(n)
    BY <1>3, <1>8
<1>9. CASE Errors \/ \E n \in Nodes : EntryGone(n)
    BY <1>4, <1>9, UnderFacts DEF Cut, Idle
<1> QED
    BY <1>1, <1>5, <1>6, <1>7, <1>8, <1>9 DEF Aside, Batch, Walk

\* What the others do to a file: nothing, or its last write.
Same(f) ==
    /\ Kept(f) /\ latest'[f] = latest[f] /\ local'[f] = local[f] /\ das'[f] = das[f]
    /\ At(f)' = At(f)
    /\ cur = f => held' = held

Fresh(f) ==
    /\ At(f)' = latest'[f] /\ latest'[f] \in {local'[f], das'[f]}
    /\ IsFile(f)' => local'[f] = latest'[f]
    /\ cur = f /\ pc \in {"copy", "remove"} => das'[f] = latest'[f]

Others == Writers \/ Remover \/ UNCHANGED vars

LEMMA OthersWrite ==
    ASSUME TypeOK, Places, Grounded, Contents, Others
    PROVE  /\ UNCHANGED <<pc, cur, cut>>
           /\ \A f \in Files : Kept(f)' => Same(f) \/ Fresh(f)
           /\ \A n \in Under[rm'.node] : latest'[n] = None
<1> DEFINE Goal == /\ UNCHANGED <<pc, cur, cut>>
                   /\ \A f \in Files : Kept(f)' => Same(f) \/ Fresh(f)
                   /\ \A n \in Under[rm'.node] : latest'[n] = None
<1> USE DEF TypeOK
<1>1. CASE RmStat \/ RmAbsent \/ RmMissed \/ RmFails \/ UNCHANGED vars
  <2>1. UNCHANGED <<disks, latest, raced, pc, cur, cut, held>>
        /\ rm'.node \in {rm.node, Root}
    <3>1. RmStat \/ RmAbsent \/ RmMissed => Removing
        BY DEF RmStat, RmAbsent, RmMissed, Removing
    <3> QED
        BY <1>1, <3>1, RmNextFacts
        DEF RmStat, RmAbsent, RmMissed, RmFails, worker, history, Idle, Places, vars, disks
  <2> QED
      BY <2>1, UnderFacts DEF Contents, Kept, Same, disks, At, Linked
<1>2. ASSUME NEW f \in Files, WriteLocal(f)
      PROVE  Goal
  <2>1. f \in Nodes /\ NewVersion \in Versions /\ local' = [local EXCEPT ![f] = NewVersion]
        /\ local[f] # Link /\ f \in Within(local) /\ UNCHANGED <<das, pc, cur, rm, cut>>
        /\ latest' = [latest EXCEPT
                         ![f] = IF f \in Under[rm.node] THEN None ELSE NewVersion]
        /\ raced' \in {raced \cup {f}, raced \ {f}}
        /\ (cur = f /\ pc \in {"copy", "remove"} => f \in raced')
        /\ (cur # f => held' = held)
      BY <1>2, Tree, MaxEventsAssumption DEF WriteLocal, Event, NewVersion, Versions
  <2>2. \A n \in Nodes : Linked(n)' <=> Linked(n)
      BY <2>1, Values, SameLinks, Tree
  <2>3. \A g \in Files \ {f} : Kept(g)' => Same(g)
      BY <2>1, <2>2, Tree DEF Kept, At, Same
  <2>4. Kept(f)' => Fresh(f)
    <3>1. ~Linked(f)'
        BY <2>1, <2>2, NotLinked
    <3> QED
        BY <2>1, <3>1 DEF Kept, Fresh, At
  <2> QED
      BY <2>1, <2>3, <2>4 DEF Contents
<1>3. ASSUME NEW f \in Files, WriteLinked(f)
      PROVE  Goal
  <2>1. f \in Nodes /\ das' = [das EXCEPT ![f] = NewVersion] /\ Linked(f)
        /\ UNCHANGED <<local, pc, cur, rm, held, cut>>
        /\ latest' = [latest EXCEPT
                         ![f] = IF f \in Under[rm.node] THEN None ELSE NewVersion]
        /\ raced' = raced \ {f}
      BY <1>3, Tree DEF WriteLinked, worker
  <2>2. ~IsFile(f)
      BY <2>1, NotLinked, Values DEF IsFile, Grounded, Grown
  <2>3. \A n \in Nodes : Linked(n)' <=> Linked(n)
      BY <2>1, SameLinks
  <2>4. \A g \in Files \ {f} : Kept(g)' => Same(g)
      BY <2>1, <2>3, Tree DEF Kept, At, Same
  <2>5. Kept(f)' => Fresh(f)
      BY <2>1, <2>2, <2>3 DEF Kept, Fresh, At, IsFile
  <2> QED
      BY <2>1, <2>4, <2>5 DEF Contents
<1>4. ASSUME NEW d \in Dirs, MakeLocalDir(d)
      PROVE  Goal
  <2>1. d \in Nodes /\ local' = [local EXCEPT ![d] = Dir] /\ local[d] = None
        /\ UNCHANGED <<das, pc, cur, rm, held, latest, raced, cut>>
      BY <1>4, Tree DEF MakeLocalDir
  <2>2. \A n \in Nodes : Linked(n)' <=> Linked(n)
      BY <2>1, Values, SameLinks, Tree
  <2>3. \A g \in Files : Kept(g)' => Same(g)
      BY <2>1, <2>2, Tree DEF Kept, At, Same
  <2> QED
      BY <2>1, <2>3 DEF Contents
<1>5. ASSUME NEW t \in Tops, NEW o \in {<<"local", "das">>, <<"das", "local">>},
             RmStart(t, o)
      PROVE  Goal
  <2>1. UNCHANGED <<local, das, pc, cur, held, raced, cut>> /\ rm'.node = t
        /\ latest' = [n \in Nodes |-> IF n \in Under[t] THEN None ELSE latest[n]]
      BY <1>5 DEF RmStart, disks, worker
  <2>2. \A g \in Files : Kept(g)' => Same(g)
      BY <2>1, Tree DEF Kept, At, Linked, Same
  <2>3. \A n \in Under[t] : latest'[n] = None
      BY <2>1, UnderFacts, Tree
  <2> QED
      BY <2>1, <2>2, <2>3
<1>6. CASE RmFile \/ RmTree \/ \E n \in Nodes : RmInner(n)
  <2>1. UNCHANGED <<pc, cur, held, latest, raced, cut>> /\ rm'.node \in {rm.node, Root}
    <3>1. CASE RmFile \/ RmTree
      <4>1. Removing /\ RmNext
          BY <3>1 DEF RmFile, RmTree, Removing
      <4> QED
          BY <3>1, <4>1, RmNextFacts DEF RmFile, RmTree, worker
    <3>2. CASE \E n \in Nodes : RmInner(n)
      <4>1. rm'.node = rm.node
          BY <3>2 DEF RmInner, Places
      <4> QED
          BY <3>2, <4>1 DEF RmInner, worker, history
    <3> QED
        BY <1>6, <3>1, <3>2
  <2>2. \E x : Erasing(x)
      BY <1>6, ErasesOne
  <2>3. \A g \in Files : Kept(g)' => Same(g)
      BY <2>1, <2>2, SparedByRemoval DEF Kept, At, Same
  <2>4. \A n \in Under[rm'.node] : latest'[n] = None
      BY <2>1, UnderFacts DEF Contents
  <2> QED
      BY <2>1, <2>3, <2>4
<1> QED
    BY <1>1, <1>2, <1>3, <1>4, <1>5, <1>6 DEF Others, Writers, Remover

\* The worker's own steps on the disks.
LEMMA OpensFile ==
    ASSUME TypeOK, Places, Grounded, OpenFile
    PROVE  /\ cur \in Files /\ cur \in Nodes /\ IsFile(cur) /\ ~Linked(cur)
           /\ das' = [das EXCEPT ![cur] = Partial] /\ held' = local[cur]
           /\ pc' = "copy" /\ UNCHANGED <<local, cur, rm, latest, raced, cut>>
           /\ \A n \in Nodes : Linked(n)' <=> Linked(n)
<1>1. cur \in Nodes /\ IsFile(cur)
    BY DEF OpenFile, Places
<1>2. cur \in Files /\ cur \in Within(local) /\ local[cur] # Link
  <2>1. local[cur] \notin {None, Link}
      BY <1>1, Values DEF IsFile
  <2> QED
      BY <1>1, <2>1, FileIsFile DEF Grounded, Grown
<1>3. ~Linked(cur)
    BY <1>1, <1>2, NotLinked
<1>4. das' = [das EXCEPT ![cur] = Partial] /\ held' = local[cur]
      /\ pc' = "copy" /\ UNCHANGED <<local, cur, rm, latest, raced, cut>>
    BY DEF OpenFile, Go, history
<1>5. \A n \in Nodes : Linked(n)' <=> Linked(n)
    BY <1>4, SameLinks
<1> QED
    BY <1>1, <1>2, <1>3, <1>4, <1>5

LEMMA EndsCopy ==
    ASSUME TypeOK, Places, CopyEnds
    PROVE  /\ cur \in Files /\ cur \in Nodes /\ pc = "copy"
           /\ das' = IF das[cur] = Partial THEN [das EXCEPT ![cur] = held] ELSE das
           /\ UNCHANGED <<local, rm, latest, raced, cut>>
           /\ \/ cur \in Tops /\ pc' = "due" /\ cur' = Root
              \/ pc' = "remove" /\ cur' = cur
           /\ \A n \in Nodes : Linked(n)' <=> Linked(n)
<1>1. cur \in Files /\ cur \in Nodes /\ pc = "copy"
    BY Tree DEF CopyEnds, Places
<1>2. /\ das' = IF das[cur] = Partial THEN [das EXCEPT ![cur] = held] ELSE das
      /\ UNCHANGED <<local, rm, latest, raced, cut>>
    BY DEF CopyEnds, history
<1>3. \/ cur \in Tops /\ pc' = "due" /\ cur' = Root
      \/ pc' = "remove" /\ cur' = cur
    BY <1>1, Tree DEF CopyEnds, Return, Go, Entry
<1>4. \A n \in Nodes : Linked(n)' <=> Linked(n)
    BY <1>2, SameLinks
<1> QED
    BY <1>1, <1>2, <1>3, <1>4

LEMMA ContentsStep ==
    ASSUME TypeOK, Places, Grounded, Contents, [Next]_vars
    PROVE  Contents'
<1> USE DEF TypeOK, Go
<1>1. CASE Aside
    BY <1>1, AsideKeeps, ContentsKept
<1>2. CASE OpenFile
  <2>1. At(cur)' = local[cur]
      BY <1>2, OpensFile DEF At
  <2> QED
      BY <1>2, <2>1, OpensFile DEF Contents, Kept, IsFile
<1>3. CASE MakeDir
    BY <1>3 DEF MakeDir, history, Contents, Kept, IsFile
<1>4. CASE CopyEnds
  <2>1. Kept(cur) => das'[cur] = latest[cur]
      BY <1>4, EndsCopy, Values DEF Contents, Kept
  <2> QED
      BY <1>4, <2>1, EndsCopy DEF Contents, Kept, IsFile
<1>5. CASE Remove
  <2>1. latest' = latest /\ raced' = raced /\ rm' = rm /\ pc' \in {"link", "walk"}
      BY <1>5 DEF Remove, history
  <2> QED
      BY <1>5, <2>1, RemovesOne, Values, Tree DEF Contents, Kept, IsFile
<1>6. CASE LinkEntry
  <2>1. cur \in Nodes /\ latest' = latest /\ raced' = raced /\ rm' = rm
        /\ local' = [local EXCEPT ![cur] = Link] /\ pc' \in {"due", "walk"}
      BY <1>6, Tree DEF LinkEntry, Places, Return
  <2> QED
      BY <2>1, Values DEF Contents, Kept, IsFile
<1>7. CASE Others
  <2>1. \A f \in Files : Kept(f)' /\ IsFile(f)' => local'[f] = latest'[f]
      BY <1>7, OthersWrite DEF Same, Fresh, IsFile, Contents
  <2>2. pc = "copy" /\ Kept(cur)' =>
          /\ At(cur)' = latest'[cur]
          /\ das'[cur] = latest'[cur] \/ (das'[cur] = Partial /\ held' = latest'[cur])
    <3>1. Kept(cur)' => cur \in Files
        BY <1>7, OthersWrite DEF Kept
    <3> QED
        BY <1>7, <3>1, OthersWrite DEF Same, Fresh, Contents
  <2>3. pc = "remove" /\ Kept(cur)' => das'[cur] = latest'[cur]
    <3>1. Kept(cur)' => cur \in Files
        BY <1>7, OthersWrite DEF Kept
    <3> QED
        BY <1>7, <3>1, OthersWrite DEF Same, Fresh, Contents
  <2> QED
      BY <1>7, <2>1, <2>2, <2>3, OthersWrite DEF Contents
<1> QED
    BY <1>1, <1>2, <1>3, <1>4, <1>5, <1>6, <1>7
    DEF Next, Worker, Move, Others, Aside, Errors

\* What the removal of a file by the worker leaves of it.
LEMMA NothingLostStep ==
    ASSUME TypeOK, Places, Grounded, Contents, NothingLost, [Next]_vars
    PROVE  NothingLost'
<1> USE DEF TypeOK, NothingLost
<1>1. CASE Aside
    BY <1>1, AsideKeeps DEF disks
<1>2. CASE OpenFile
    BY <1>2, OpensFile, Tree DEF Contents, Kept
<1>3. CASE MakeDir
  <2>1. /\ cur \in Nodes /\ \A n \in Path[cur] : das[n] \in {None, Dir}
        /\ das' = [n \in Nodes |-> IF n \in Path[cur] THEN Dir ELSE das[n]]
        /\ UNCHANGED <<local, latest, raced>>
      BY <1>3 DEF MakeDir, CanMakeDir, history, Places
  <2>2. ASSUME NEW f \in Files \ raced, latest[f] # None
        PROVE  latest[f] \in {local[f], das'[f]}
    <3>1. f \in Nodes /\ latest[f] \in Versions /\ latest[f] \in {local[f], das[f]}
        BY <2>2, Tree
    <3>2. f \in Path[cur] => das[f] # latest[f]
        BY <2>1, <3>1, Values
    <3>3. f \notin Path[cur] => das'[f] = das[f]
        BY <2>1, <3>1
    <3> QED
        BY <3>1, <3>2, <3>3
  <2> QED
      BY <2>1, <2>2
<1>4. CASE CopyEnds
    BY <1>4, EndsCopy, Values, Tree
<1>5. CASE Remove
  <2>1. UNCHANGED <<das, latest, raced>> /\ pc = "remove"
      BY <1>5 DEF Remove, history
  <2> QED
      BY <1>5, <2>1, RemovesOne, Tree DEF Contents, Kept
<1>6. CASE LinkEntry
    BY <1>6, Values, Tree DEF LinkEntry
<1>7. CASE Others
  <2>1. \A f \in Files : Kept(f)' => latest'[f] \in {local'[f], das'[f]}
      BY <1>7, OthersWrite DEF Same, Fresh, Kept
  <2> QED
      BY <2>1 DEF Kept
<1> QED
    BY <1>1, <1>2, <1>3, <1>4, <1>5, <1>6, <1>7
    DEF Next, Worker, Move, Others, Aside, Errors

LEMMA MissingStep ==
    ASSUME TypeOK, Places, Grounded, Contents, NothingLost, MissingOnlyIfCut, [Next]_vars
    PROVE  MissingOnlyIfCut'
<1> SUFFICES ASSUME NEW t \in Tops, NEW f \in Files, f \in Under[t], Kept(f)',
                    At(f)' # latest'[f], ~Handling(t)', t \notin cut'
             PROVE  FALSE
    BY DEF MissingOnlyIfCut, Kept
<1>0. f \in Nodes /\ t \in Nodes
    BY Tree
<1>a. Kept(f) /\ At(f) # latest[f] => Handling(t) \/ t \in cut
    BY DEF MissingOnlyIfCut, Kept
<1> USE DEF TypeOK
<1>1. CASE Aside
    BY <1>1, <1>a, AsideKeeps DEF Kept, At, Linked, disks
<1>2. CASE OpenFile
  <2>1. ~Handling(t) /\ t \notin cut /\ f # cur /\ Kept(f) /\ latest' = latest
      BY <1>2, <1>0, OpensFile, UnderFacts DEF Handling, Kept
  <2>2. At(f)' = At(f)
      BY <1>0, <1>2, <2>1, OpensFile DEF At
  <2> QED
      BY <1>a, <2>1, <2>2
<1>3. CASE MakeDir
  <2>1. cur \in Nodes /\ cur' = cur /\ UNCHANGED <<local, latest, raced, cut>>
        /\ das' = [n \in Nodes |-> IF n \in Path[cur] THEN Dir ELSE das[n]]
      BY <1>3 DEF MakeDir, Go, history, Places
  <2>2. ~Handling(t) /\ t \notin cut /\ Kept(f)
      BY <2>1 DEF Handling, Kept
  <2>3. f \notin Path[cur]
      BY <1>0, <2>1, <2>2, PathTransitive, UnderFacts DEF Handling
  <2>4. At(f)' = At(f)
      BY <1>0, <2>1, <2>3 DEF At, Linked
  <2> QED
      BY <1>a, <2>1, <2>2, <2>4
<1>4. CASE CopyEnds
  <2>1. Kept(f) /\ latest' = latest /\ t \notin cut /\ cur \in Nodes
      BY <1>4, EndsCopy DEF Kept
  <2>2. CASE Handling(t)
    <3>1. cur = t /\ f = t /\ pc = "copy"
      <4>1. cur \in Tops /\ cur \in Files
          BY <1>4, <2>2, EndsCopy DEF Handling
      <4>2. cur = t
          BY <2>2, <4>1, TopPath, UnderFacts, <1>0 DEF Handling
      <4>3. f = t
        <5>1. SUFFICES ASSUME f # t PROVE FALSE
            OBVIOUS
        <5>2. PICK k \in Path[f] : Parent[k] = t
            BY <1>0, <5>1, ChildOnPath, UnderFacts
        <5>3. k \in Nodes /\ Parent[k] \in Dirs \cup {Root}
            BY <1>0, <5>2, PathFacts, Tree
        <5> QED
            BY <4>1, <4>2, <5>2, <5>3, Tree
      <4> QED
          BY <1>4, <4>2, <4>3, EndsCopy
    <3>2. At(f) = latest[f] /\ (Linked(f) => das[f] # Partial)
        BY <2>1, <3>1, Values DEF Contents, At, Kept
    <3>3. At(f)' = At(f)
        BY <1>4, <1>0, <3>1, <3>2, EndsCopy DEF At
    <3> QED
        BY <2>1, <3>2, <3>3
  <2>3. CASE ~Handling(t)
    <3>1. f # cur
        BY <2>3 DEF Handling
    <3>2. At(f)' = At(f)
        BY <1>4, <1>0, <3>1, EndsCopy DEF At
    <3> QED
        BY <1>a, <2>1, <2>3, <3>2
  <2> QED
      BY <2>2, <2>3
<1>5. CASE Remove
  <2>1. UNCHANGED <<das, latest, raced, cut>>
        /\ IF Parent[cur] = Root THEN cur' = cur ELSE cur' = Parent[cur]
      BY <1>5 DEF Remove, history, Go, Entry
  <2>2. ~Handling(t) /\ cur \in Nodes
      BY <1>5, <2>1, RemovesOne, SameEntry DEF Handling
  <2>3. f # cur /\ t # cur
      BY <1>0, <2>2, UnderFacts DEF Handling
  <2>4. At(f)' = At(f)
      BY <1>0, <1>5, <2>1, <2>2, <2>3, RemovesOne, LinkedByEntry DEF At
  <2> QED
      BY <1>a, <2>1, <2>2, <2>4 DEF Kept
<1>6. CASE LinkEntry
  <2>1. cur \in Tops /\ cur \in Nodes /\ UNCHANGED <<das, latest, raced>>
        /\ local' = [local EXCEPT ![cur] = Link] /\ local[cur] = None /\ cut' = cut \ {cur}
      BY <1>6, Tree DEF LinkEntry, Places
  <2>2. CASE t = cur
    <3>1. local[f] = None
      <4>1. CASE f = t
          BY <2>1, <2>2, <4>1
      <4>2. CASE f # t
          BY <1>0, <2>1, <2>2, <4>2, Values, NoKids, EmptyBelow DEF Grounded
      <4> QED
          BY <4>1, <4>2
    <3>2. das[f] = latest[f]
        BY <2>1, <3>1 DEF NothingLost, Kept
    <3>3. Linked(f)'
        BY <1>0, <2>1, <2>2, LinkedByEntry
    <3> QED
        BY <2>1, <3>2, <3>3 DEF At
  <2>3. CASE t # cur
    <3>1. ~Handling(t) /\ t \notin cut /\ f # cur
        BY <1>0, <2>1, <2>3, TopPath, UnderFacts, OneTop DEF Handling
    <3>2. At(f)' = At(f)
        BY <1>0, <2>1, <2>3, <3>1, LinkedByEntry DEF At
    <3> QED
        BY <1>a, <2>1, <3>1, <3>2 DEF Kept
  <2> QED
      BY <2>2, <2>3
<1>7. CASE Others
    BY <1>7, <1>a, OthersWrite DEF Same, Fresh, Handling
<1> QED
    BY <1>1, <1>2, <1>3, <1>4, <1>5, <1>6, <1>7
    DEF Next, Worker, Move, Others, Aside, Errors

-----------------------------------------------------------------------------
(* Removals.                                                               *)

LEMMA BusyFacts ==
    ASSUME TypeOK, Places, NEW t \in Tops
    PROVE  /\ t \in Busy <=> t \in due \/ cur \in Under[t]
           /\ t \in Busy' <=> t \in due' \/ cur' \in Under[t]
           /\ cur = Root => cur \notin Under[t]
           /\ t \in Nodes /\ t \in Under[t] /\ \A n \in Under[t] : n \in Nodes /\ t \in Path[n]
BY UnderFacts, Tree DEF Busy

\* The worker takes up an entry that is there, on record if it is being removed,
\* and touches no other.
LEMMA WorkerTouches ==
    ASSUME TypeOK, Places, Grounded, Worker \/ Fault \/ Crash, NEW t \in Tops
    PROVE  /\ t \in Busy' => t \in Busy \/ (local[t] # None /\ (t = rm.node => t \in clash'))
           /\ t \notin Busy => \A n \in Under[t] : local'[n] = local[n] /\ das'[n] = das[n]
<1> USE BusyFacts DEF TypeOK, Go, disks, history
<1>1. CASE BeginMass \/ EndAged \/ (\E n \in Nodes : NextDue(n) \/ SkipEntry(n))
  <2>1. CASE BeginMass \/ EndAged
      BY <2>1 DEF BeginMass, EndAged, Places
  <2>2. ASSUME NEW n \in Nodes, NextDue(n)
        PROVE  UNCHANGED <<disks, rm, gone, clash>> /\ n \in due /\ cur' = n /\ due' \subseteq due
      BY <2>2 DEF NextDue
  <2>3. CASE \E n \in Nodes : NextDue(n)
      BY <2>2, <2>3, TopPath, UnderFacts
  <2>4. CASE \E n \in Nodes : SkipEntry(n)
      BY <2>4 DEF SkipEntry
  <2> QED
      BY <1>1, <2>1, <2>3, <2>4
<1>2. ASSUME NEW S \in SUBSET Tops, BeginAged(S)
      PROVE  /\ UNCHANGED <<disks, rm, gone>> /\ clash' = clash \cup (S \cap {rm.node})
             /\ due' = S /\ \A s \in S : local[s] # None
             /\ cur' = cur
    BY <1>2 DEF BeginAged, Meets, Places
<1>3. CASE \E S \in SUBSET Tops : BeginAged(S)
    BY <1>2, <1>3
<1>4. ASSUME NEW n \in Nodes, NextEntry(n)
      PROVE  /\ UNCHANGED <<disks, rm, gone, due>> /\ clash' = clash \cup ({n} \cap {rm.node})
             /\ cur' = n /\ Parent[n] = cur /\ local[n] # None
    BY <1>4 DEF NextEntry, Meets, Places, Kids
<1>5. CASE \E n \in Nodes : NextEntry(n)
  <2>1. PICK n \in Nodes : NextEntry(n)
      BY <1>5
  <2>2. cur' \in Under[t] => cur \in Under[t] \/ t = n
      BY <1>4, <2>1, PathUp, UnderFacts, Tree
  <2> QED
      BY <1>4, <2>1, <2>2
<1>6. CASE Errors \/ \E n \in Nodes : EntryGone(n)
  <2>1. /\ UNCHANGED <<disks, gone, clash>> /\ cur' = Root /\ due' \subseteq due
        /\ rm' \in {rm, Idle}
      BY <1>6, ErrorsAbandon DEF EntryGone, Quit, Abandon
  <2> QED
      BY <2>1, UnderFacts, Tree
<1>7. CASE EndWalk
    BY <1>7, UnderFacts, Tree DEF EndWalk
<1>8. CASE OpenDir
    BY <1>8 DEF OpenDir
<1>9. CASE OpenFile
    BY <1>9 DEF OpenFile
<1>10. CASE MakeDir
  <2>1. /\ cur \in Nodes /\ UNCHANGED <<local, cur, due, rm, gone, clash>>
        /\ das' = [n \in Nodes |-> IF n \in Path[cur] THEN Dir ELSE das[n]]
      BY <1>10 DEF MakeDir, Places
  <2>2. t \notin Busy => \A n \in Under[t] : n \notin Path[cur]
      BY <2>1, PathTransitive, UnderFacts
  <2> QED
      BY <2>1, <2>2
<1>11. CASE CopyEnds
  <2>1. UNCHANGED <<local, due, rm, gone, clash>>
      BY <1>11 DEF CopyEnds
  <2> QED
      BY <1>11, <2>1, EndsCopy, UnderFacts, Tree
<1>12. CASE Remove
  <2>1. /\ UNCHANGED <<das, due, rm, gone, clash>>
        /\ IF Parent[cur] = Root THEN cur' = cur ELSE cur' = Parent[cur]
      BY <1>12 DEF Remove, Entry
  <2> QED
      BY <1>12, <2>1, RemovesOne, SameEntry
<1>13. CASE LinkEntry
  <2>1. /\ UNCHANGED <<das, due, rm, gone, clash>> /\ cur' = Root /\ cur \in Nodes
        /\ local' = [local EXCEPT ![cur] = Link]
      BY <1>13, Tree DEF LinkEntry, Places, Return
  <2> QED
      BY <2>1, UnderFacts, Tree
<1> QED
    BY <1>1, <1>3, <1>5, <1>6, <1>7, <1>8, <1>9, <1>10, <1>11, <1>12, <1>13
    DEF Worker, Batch, Walk, Move, Errors

Removals == Apart /\ Halfway /\ RemovedIsGone

LEMMA WorkerRecords ==
    ASSUME Worker \/ Fault \/ Crash
    PROVE  UNCHANGED <<gone, missed>> /\ clash \subseteq clash' /\ rm' \in {rm, Idle}
<1>1. CASE Errors \/ \E n \in Nodes : EntryGone(n)
    BY <1>1, ErrorsAbandon DEF EntryGone, Quit, Abandon
<1>2. CASE Batch \/ EndWalk \/ \E n \in Nodes : NextDue(n) \/ NextEntry(n) \/ SkipEntry(n)
    BY <1>2 DEF Batch, BeginMass, BeginAged, EndAged, EndWalk, NextDue, NextEntry, SkipEntry,
                Meets, history
<1>3. CASE OpenFile \/ MakeDir \/ OpenDir \/ CopyEnds \/ Remove \/ LinkEntry
    BY <1>3 DEF OpenFile, MakeDir, OpenDir, CopyEnds, Remove, LinkEntry, history
<1> QED
    BY <1>1, <1>2, <1>3 DEF Worker, Walk, Move, Errors

LEMMA WorkerKeepsApart ==
    ASSUME TypeOK, Places, Grounded, Removals, Worker \/ Fault \/ Crash
    PROVE  Removals'
<1> USE DEF Removals
<1>1. /\ rm' = rm \/ (~Removing' /\ Len(rm'.left) # 1)
      /\ UNCHANGED <<gone, missed>> /\ clash \subseteq clash' /\ gone \subseteq Tops
  <2>1. Idle.stage = "off" /\ Len(Idle.left) = 0
      BY DEF Idle
  <2> QED
      BY <2>1, WorkerRecords DEF Removing, TypeOK
<1>2. Removing => rm.node \in Tops
    BY DEF Places
<1>3. Len(rm.left) = 1 => Removing
    BY DEF Places, Idle
<1>4. Apart'
  <2>1. Removing' => rm'.node \notin gone'
      BY <1>1 DEF Removing, Apart
  <2>2. Removing' /\ rm'.node \notin clash' => rm'.node \notin Busy'
      BY <1>1, <1>2, WorkerTouches DEF Removing, Apart
  <2>3. ASSUME NEW t \in gone' \ clash'
        PROVE  t \notin Busy'
    <3>1. t \in Tops /\ t \in gone \ clash /\ t \notin Busy
        BY <1>1, <2>3 DEF Apart
    <3>2. local[t] = None
        BY <3>1, BusyFacts DEF RemovedIsGone
    <3> QED
        BY <3>1, <3>2, WorkerTouches
  <2> QED
      BY <2>1, <2>2, <2>3 DEF Apart
<1>5. Halfway'
  <2> SUFFICES ASSUME Len(rm'.left) = 1, rm'.node \notin clash', NEW n \in Under[rm'.node]
               PROVE  Passed(n)'
      BY DEF Halfway, Passed
  <2>1. rm' = rm /\ Removing /\ rm.node \in Tops /\ rm.node \notin Busy
      BY <1>1, <1>2, <1>3 DEF Apart
  <2>2. local'[n] = local[n] /\ das'[n] = das[n] /\ Passed(n)
      BY <1>1, <2>1, WorkerTouches DEF Halfway
  <2> QED
      BY <1>1, <2>1, <2>2 DEF Passed
<1>6. RemovedIsGone'
  <2> SUFFICES ASSUME NEW t \in gone' \ clash', NEW n \in Under[t]
               PROVE  local'[n] = None /\ (das'[n] = None \/ t \in missed')
      BY DEF RemovedIsGone
  <2>1. t \in Tops /\ t \in gone \ clash /\ t \notin Busy
      BY <1>1 DEF Apart
  <2> QED
      BY <1>1, <2>1, WorkerTouches DEF RemovedIsGone
<1> QED
    BY <1>4, <1>5, <1>6

\* A write puts every entry it is in on record.
LEMMA WritersKeepApart ==
    ASSUME TypeOK, Places, Removals, Writers
    PROVE  Removals'
<1> USE DEF Removals, TypeOK
<1>1. PICK x \in Nodes :
          /\ Disturbs(x) /\ UNCHANGED <<rm, cur, due, missed>>
          /\ \A n \in Nodes : n # x => local'[n] = local[n] /\ das'[n] = das[n]
  <2>1. ASSUME NEW f \in Files, WriteLocal(f) \/ WriteLinked(f)
        PROVE  /\ Disturbs(f) /\ UNCHANGED <<rm, cur, due, missed>>
               /\ \A n \in Nodes : n # f => local'[n] = local[n] /\ das'[n] = das[n]
      BY <2>1 DEF WriteLocal, WriteLinked, worker
  <2>2. ASSUME NEW d \in Dirs, MakeLocalDir(d)
        PROVE  /\ Disturbs(d) /\ UNCHANGED <<rm, cur, due, missed>>
               /\ \A n \in Nodes : n # d => local'[n] = local[n] /\ das'[n] = das[n]
      BY <2>2 DEF MakeLocalDir
  <2> QED
      BY <2>1, <2>2, Tree DEF Writers
<1>2. /\ clash' = (clash \ Path[x]) \cup (Path[x] \cap {rm.node})
      /\ gone' = gone \ Path[x]
    BY <1>1 DEF Disturbs
<1>3. Busy' = Busy
    BY <1>1 DEF Busy
<1>4. \A t \in Tops : t \notin Path[x] => x \notin Under[t]
    BY BusyFacts
<1>5. Apart'
    BY <1>1, <1>2, <1>3 DEF Apart, Removing
<1>6. Halfway'
  <2>1. Len(rm.left) = 1 => rm.node \in Tops
      BY DEF Places, Idle
  <2> SUFFICES ASSUME Len(rm.left) = 1, rm.node \notin clash', NEW n \in Under[rm.node]
               PROVE  Passed(n)'
      BY <1>1 DEF Halfway, Passed
  <2>2. rm.node \notin Path[x] /\ rm.node \notin clash
      BY <1>2
  <2>3. n # x /\ n \in Nodes
      BY <1>4, <2>1, <2>2, BusyFacts
  <2> QED
      BY <1>1, <2>2, <2>3 DEF Halfway, Passed
<1>7. RemovedIsGone'
  <2> SUFFICES ASSUME NEW t \in gone' \ clash', NEW n \in Under[t]
               PROVE  local'[n] = None /\ (das'[n] = None \/ t \in missed')
      BY DEF RemovedIsGone
  <2>1. t \in Tops /\ t \in gone \ clash /\ t \notin Path[x]
      BY <1>2
  <2>2. n # x /\ n \in Nodes
      BY <1>4, <2>1, BusyFacts
  <2> QED
      BY <1>1, <2>1, <2>2 DEF RemovedIsGone
<1> QED
    BY <1>5, <1>6, <1>7

\* The disk at hand is clear: the removal goes on with what it has left.
LEMMA ClearedGoesOn ==
    ASSUME TypeOK, Places, Removals, Removing, RmNext, UNCHANGED <<cur, due, clash>>,
           \A n \in Nodes : local'[n] \in {local[n], None} /\ das'[n] \in {das[n], None},
           missed \subseteq missed',
           \A n \in Under[rm.node] :
               IF Head(rm.left) = "local" THEN local'[n] = None
                                          ELSE das'[n] = None \/ rm.node \in missed'
    PROVE  Removals'
<1> USE DEF Removals
<1>1. rm.node \in Tops /\ rm.left \in Orders /\ rm.left # <<>> /\ gone \subseteq Tops
    BY DEF Places, TypeOK
<1>2. Busy' = Busy
    BY DEF Busy
<1>3. Halfway'
  <2> SUFFICES ASSUME Len(rm'.left) = 1, rm'.node \notin clash', NEW n \in Under[rm'.node]
               PROVE  Passed(n)'
      BY DEF Halfway, Passed
  <2>1. rm'.node = rm.node /\ rm'.left = Tail(rm.left) /\ Len(rm.left) # 1
      BY RmNextFacts DEF Idle
  <2>2. CASE Head(rm.left) = "local"
    <3>1. rm'.left # <<"local">> /\ local'[n] = None
        BY <1>1, <2>1, <2>2, OrderFacts
    <3> QED
        BY <3>1 DEF Passed
  <2>3. CASE Head(rm.left) # "local"
    <3>1. rm'.left = <<"local">> /\ (das'[n] = None \/ rm'.node \in missed')
        BY <1>1, <2>1, <2>3, OrderFacts
    <3> QED
        BY <3>1 DEF Passed
  <2> QED
      BY <2>2, <2>3
<1>4. CASE Len(rm.left) # 1
  <2>1. rm'.node = rm.node /\ rm'.stage = "stat" /\ gone' = gone
      BY <1>4, RmNextFacts
  <2>2. Apart'
      BY <1>2, <2>1 DEF Apart, Removing
  <2>3. RemovedIsGone'
      BY <1>1, <2>1, BusyFacts DEF RemovedIsGone
  <2> QED
      BY <1>3, <2>2, <2>3
<1>5. CASE Len(rm.left) = 1
  <2>1. ~Removing' /\ gone' = gone \cup {rm.node}
      BY <1>5, RmNextFacts DEF Idle, Removing
  <2>2. rm.node \notin clash => rm.node \notin Busy
      BY DEF Apart
  <2>3. Apart'
      BY <1>2, <2>1, <2>2 DEF Apart
  <2>4. rm.node \notin clash =>
            \A n \in Under[rm.node] :
                local'[n] = None /\ (das'[n] = None \/ rm.node \in missed')
    <3>1. ASSUME rm.node \notin clash, NEW n \in Under[rm.node]
          PROVE  local'[n] = None /\ (das'[n] = None \/ rm.node \in missed')
      <4>1. Passed(n) /\ n \in Nodes
          BY <1>1, <1>5, <3>1, BusyFacts DEF Halfway
      <4>2. CASE Head(rm.left) = "local"
        <5>1. rm.left = <<"local">> /\ local'[n] = None
            BY <1>1, <1>5, <4>2, OrderFacts
        <5> QED
            BY <4>1, <5>1 DEF Passed
      <4>3. CASE Head(rm.left) = "das"
        <5>1. /\ rm.left = <<"das">> /\ <<"das">> # <<"local">>
              /\ das'[n] = None \/ rm.node \in missed'
            BY <1>1, <1>5, <4>3, OrderFacts
        <5> QED
            BY <4>1, <5>1 DEF Passed
      <4> QED
          BY <1>1, <4>2, <4>3, OrderFacts
    <3> QED
        BY <3>1
  <2>5. RemovedIsGone'
      BY <1>1, <2>1, <2>4, BusyFacts DEF RemovedIsGone
  <2> QED
      BY <1>3, <2>3, <2>5
<1> QED
    BY <1>4, <1>5

LEMMA RemoverKeepsApart ==
    ASSUME TypeOK, Places, Grounded, Removals, Remover
    PROVE  Removals'
<1> USE DEF Removals, TypeOK
<1>1. ASSUME NEW t \in Tops, NEW o \in {<<"local", "das">>, <<"das", "local">>},
             RmStart(t, o)
      PROVE  Removals'
  <2>1. /\ rm'.node = t /\ rm'.left = o /\ UNCHANGED <<local, das, cur, due>>
        /\ clash' = (clash \ {t}) \cup (Busy \cap {t}) /\ gone' = gone \ {t}
      BY <1>1 DEF RmStart, disks, worker
  <2>2. Busy' = Busy /\ Len(o) # 1
      BY <2>1 DEF Busy
  <2>3. Apart'
      BY <2>1, <2>2 DEF Apart
  <2>4. Halfway' /\ RemovedIsGone'
    <3>1. missed' = missed \ {t}
        BY <1>1 DEF RmStart
    <3> QED
        BY <2>1, <2>2, <3>1 DEF Halfway, RemovedIsGone
  <2> QED
      BY <2>3, <2>4
<1>2. CASE RmAbsent
  <2>1. /\ Removing /\ RmNext /\ Disk[rm.node] = None
        /\ UNCHANGED <<local, das, cur, due, clash, missed>>
      BY <1>2 DEF RmAbsent, Removing, disks, worker
  <2>2. rm.node \in Nodes /\ Grown(Disk)
      BY <2>1, Tree DEF Places, Grounded, Disk
  <2>3. ASSUME NEW n \in Under[rm.node]
        PROVE  Disk[n] = None
      BY <2>1, <2>2, Values, NoKids, EmptyBelow
  <2> QED
      BY <2>1, <2>3, ClearedGoesOn DEF Disk
<1>3. CASE RmFile \/ RmTree
  <2>1. Removing /\ RmNext /\ Erasing(rm.node) /\ UNCHANGED <<cur, due, clash, missed>>
      BY <1>3, ErasesOne DEF RmFile, RmTree, Erasing, worker
  <2>2. \A n \in Nodes : local'[n] \in {local[n], None} /\ das'[n] \in {das[n], None}
      BY <2>1, ErasedDisks
  <2>3. ASSUME NEW n \in Under[rm.node]
        PROVE  IF Head(rm.left) = "local" THEN local'[n] = None ELSE das'[n] = None
    <3>1. rm.node \in Nodes /\ n \in Nodes
        BY <2>1, ErasedDisks, UnderFacts
    <3> QED
        BY <2>1, <3>1, ErasedDisks, EmptyBelow DEF Grounded
  <2> QED
      BY <2>1, <2>2, <2>3, ClearedGoesOn
<1>4. ASSUME /\ rm'.node = rm.node /\ rm'.left = rm.left
             /\ UNCHANGED <<cur, due, clash, gone, missed>>
             /\ \A n \in Nodes : local'[n] \in {local[n], None} /\ das'[n] \in {das[n], None},
             Removing
      PROVE  Removals'
  <2>1. Busy' = Busy /\ rm.node \in Tops
      BY <1>4 DEF Busy, Places
  <2>2. Apart'
      BY <1>4, <2>1 DEF Apart
  <2>3. Halfway'
    <3> SUFFICES ASSUME Len(rm.left) = 1, rm.node \notin clash, NEW n \in Under[rm.node]
                 PROVE  Passed(n)'
        BY <1>4 DEF Halfway, Passed
    <3> QED
        BY <1>4, <2>1, BusyFacts DEF Halfway, Passed
  <2>4. RemovedIsGone'
      BY <1>4, BusyFacts DEF RemovedIsGone
  <2> QED
      BY <2>2, <2>3, <2>4
<1>5. CASE RmStat
  <2>1. rm'.node = rm.node /\ rm'.left = rm.left /\ Removing
      BY <1>5 DEF RmStat, Places, Removing
  <2> QED
      BY <1>4, <1>5, <2>1 DEF RmStat, disks, worker, history
<1>6. CASE \E n \in Nodes : RmInner(n)
  <2>1. rm'.node = rm.node /\ rm'.left = rm.left /\ Removing
      BY <1>6 DEF RmInner, Places, Removing
  <2>2. \A n \in Nodes : local'[n] \in {local[n], None} /\ das'[n] \in {das[n], None}
      BY <1>6, ErasesOne, ErasedDisks
  <2> QED
      BY <1>4, <1>6, <2>1, <2>2 DEF RmInner, worker, history
<1>7. CASE RmFails
  <2>1. /\ ~Removing' /\ Len(rm'.left) # 1 /\ clash' = clash \ {rm.node} /\ Removing
        /\ UNCHANGED <<local, das, cur, due, gone, missed>>
    <3>1. rm' = Idle /\ rm # Idle
        BY <1>7 DEF RmFails
    <3> QED
        BY <1>7, <3>1 DEF RmFails, Removing, Idle, Places, disks, worker
  <2>2. gone' \ clash' = gone \ clash /\ Busy' = Busy
      BY <2>1 DEF Apart, Busy
  <2>3. Apart' /\ Halfway'
      BY <2>1, <2>2 DEF Apart, Halfway, Removing
  <2>4. RemovedIsGone'
      BY <2>1, <2>2 DEF RemovedIsGone
  <2> QED
      BY <2>3, <2>4
<1>8. CASE RmMissed
  <2>1. /\ Removing /\ RmNext /\ Head(rm.left) = "das" /\ "das" # "local"
        /\ UNCHANGED <<local, das, cur, due, clash>> /\ missed' = missed \cup {rm.node}
      BY <1>8 DEF RmMissed, Removing, disks, worker
  <2> QED
      BY <2>1, ClearedGoesOn
<1> QED
    BY <1>1, <1>2, <1>3, <1>5, <1>6, <1>7, <1>8 DEF Remover

-----------------------------------------------------------------------------
(* The theorems.                                                           *)

LEMMA Initially == Init => IInv
<1> SUFFICES ASSUME Init
             PROVE  IInv
    OBVIOUS
<1>1. /\ local \in Trees /\ das = [n \in Nodes |-> None]
      /\ pc = "idle" /\ mode = "aged" /\ cur = Root /\ held = None /\ due = {}
      /\ todo = NoStream /\ rm = Idle /\ events = 0
      /\ latest = [n \in Nodes |-> IF local[n] = 1 THEN 1 ELSE None]
      /\ raced = {} /\ cut = {} /\ gone = {} /\ clash = {} /\ missed = {}
    BY DEF Init
<1>2. 1 \in Versions /\ 0 \in 0 .. MaxEvents
    BY MaxEventsAssumption DEF Versions
<1>3. /\ local \in [Nodes -> {None, Dir, Link, 1}]
      /\ \A n \in Dirs : local[n] \in {None, Dir}
      /\ \A n \in Files : local[n] \in {None, Link, 1}
      /\ \A t \in Tops : local[t] # Link
      /\ \A n \in Nodes : local[n] # None => n \in Within(local)
    BY <1>1, <1>2, Tree, Values DEF Trees
<1>4. TypeOK
    BY <1>1, <1>2, <1>3, Values, Tree DEF TypeOK, NoStream, Idle
<1>5. Places
    BY <1>1, Tree DEF Places, Removing, Idle, Orders, Stages, NoStream
<1>6. Grounded
    BY <1>1, <1>2, <1>3, Values, Tree DEF Grounded, Grown
<1>7. \A f \in Files : latest[f] # None => local[f] = latest[f] /\ At(f) = latest[f]
    BY <1>1, <1>3, Tree DEF At, Linked
<1>8. \A f \in Files : IsFile(f) => latest[f] = local[f]
    BY <1>1, <1>2, <1>3, Values, Tree DEF IsFile
<1>9. Contents
    BY <1>1, <1>8, UnderFacts DEF Contents, Idle, Kept
<1>10. NothingLost /\ MissingOnlyIfCut
    BY <1>7 DEF NothingLost, MissingOnlyIfCut
<1>11. Apart /\ Halfway /\ RemovedIsGone
    BY <1>1 DEF Apart, Halfway, RemovedIsGone, Removing, Idle
<1> QED
    BY <1>4, <1>5, <1>6, <1>9, <1>10, <1>11 DEF IInv

LEMMA Invariance == IInv /\ [Next]_vars => IInv'
<1> SUFFICES ASSUME TypeOK, Places, Grounded, Contents, NothingLost, MissingOnlyIfCut,
                    Removals, [Next]_vars
             PROVE  IInv'
    BY DEF IInv, Removals
<1>1. TypeOK' /\ Places'
  <2>1. CASE UNCHANGED vars
      BY <2>1 DEF vars, disks, worker, history, TypeOK, Places, Removing
  <2> QED
      BY <2>1, Walking, Moving, Happening, RemoverTypes DEF Next, Worker
<1>2. Grounded' /\ Contents' /\ NothingLost' /\ MissingOnlyIfCut'
    BY GroundedStep, ContentsStep, NothingLostStep, MissingStep
<1>3. Removals'
  <2>1. CASE UNCHANGED vars
      BY <2>1 DEF vars, disks, worker, history, Removals, Apart, Halfway, RemovedIsGone,
                  Removing, Busy, Passed
  <2> QED
      BY <2>1, WorkerKeepsApart, WritersKeepApart, RemoverKeepsApart DEF Next
<1> QED
    BY <1>1, <1>2, <1>3 DEF IInv, Removals

LEMMA Invariant == Spec => []IInv
BY Initially, Invariance, PTL DEF Spec

\* Every variable keeps its type, whatever happens to the files (lib.rs:285-484).
THEOREM FilesTyped == Spec => []TypeOK
<1>1. IInv => TypeOK
    BY DEF IInv
<1> QED
    BY <1>1, Invariant, PTL

\* For any tree and any number of events: a file's last bytes are on one of the
\* two disks, unless it was written while it was moved (lib.rs:425-442).
THEOREM NoByteIsLost == Spec => []NothingLost
<1>1. IInv => NothingLost
    BY DEF IInv
<1> QED
    BY <1>1, Invariant, PTL

\* A file that is not found at its path belongs to the entry at hand, or to one
\* whose move ended in an error (lib.rs:433-468).
THEOREM MissingIsExplained == Spec => []MissingOnlyIfCut
<1>1. IInv => MissingOnlyIfCut
    BY DEF IInv
<1> QED
    BY <1>1, Invariant, PTL

\* What was reported removed is gone from the local disk, and from the DAS unless it
\* was not mounted when the removal looked; an entry the worker or a writer was at
\* meanwhile is left aside (mod.rs:319-345, 529-532).
THEOREM RemovedMeansGone == Spec => []RemovedIsGone
<1>1. IInv => RemovedIsGone
    BY DEF IInv
<1> QED
    BY <1>1, Invariant, PTL
================================================================================
