----------------------------- MODULE SocketClaim -----------------------------
(***************************************************************************)
(* How an instance of dookie_server claims the CLI socket before it starts *)
(* a job: bind_cli_socket in src/server/src/listener.rs.  The lock file is *)
(* one inode for ever and carries the advisory lock and a record of the    *)
(* socket the last claim made; the socket is an inode at a path that an    *)
(* older daemon, which takes no lock, may also remove and bind.            *)
(*                                                                         *)
(* One action is one system call.  A process may die between any two: its  *)
(* lock and its listener go with it, the path and the record stay.         *)
(***************************************************************************)
EXTENDS Integers

CONSTANTS
    Procs,      \* instances of this server
    Legacy,     \* daemons of a version that takes no lock
    Nobody,
    MaxSockets  \* bound: sockets ever bound

ASSUME DaemonsAssumption ==
    /\ Procs \cap Legacy = {}
    /\ Nobody \notin Procs \cup Legacy

ASSUME MaxSocketsAssumption == MaxSockets \in Nat

Sockets == 1 .. MaxSockets  \* identities: device, inode and ctime
NoSocket == 0
File == -1                  \* at the path: something that is not a socket

VARIABLES
    macos,  \* cfg!(target_os = "macos")
    lock,   \* the instance that holds the lock
    record, \* the socket the lock file names, NoSocket when it names none
    path,   \* what is at the socket path
    live,   \* sockets with an open listener
    full,   \* live sockets whose backlog is full
    owner,  \* who bound each socket
    next,   \* number of sockets bound so far
    pc,     \* where each daemon is in its startup
    seen,   \* the identity bind_cli_socket read first
    mine,   \* the socket a daemon bound
    raced,    \* history: the windows no check covers that an older daemon met
    meddled,  \* history: claims under way when an older daemon moved the path
    finished, \* history: sockets whose claim was recorded
    stolen    \* history: sockets removed by a claim while a daemon held them

vars == <<macos, lock, record, path, live, full, owner, next, pc, seen, mine,
          raced, meddled, finished, stolen>>
fileVars == <<record, path>>
sockVars == <<live, full, owner, next>>
ghosts == <<raced, meddled, finished, stolen>>

Daemons == Procs \cup Legacy

Init ==
    /\ macos \in BOOLEAN
    /\ lock = Nobody
    /\ record = NoSocket
    /\ path \in {NoSocket, File}
    /\ live = {} /\ full = {}
    /\ owner = [s \in Sockets |-> Nobody]
    /\ next = 0
    /\ pc = [d \in Daemons |-> "off"]
    /\ seen = [d \in Daemons |-> NoSocket]
    /\ mine = [d \in Daemons |-> NoSocket]
    /\ raced = {} /\ meddled = {} /\ finished = {} /\ stolen = {}

-----------------------------------------------------------------------------
(* The end of a process, by an error returned from the claim or by a crash *)
(* at any point: the kernel closes its lock and its listener.              *)

\* Mutant of CloseAll: a dead listener is still counted.
CloseAllKeepsBacklog(d) ==
    /\ pc' = [pc EXCEPT ![d] = "off"]
    /\ lock' = IF lock = d THEN Nobody ELSE lock
    /\ live' = live \ {mine[d]}
    /\ mine' = [mine EXCEPT ![d] = NoSocket]
    /\ UNCHANGED <<macos, record, path, full, owner, next, seen, ghosts>>

CloseAll(d) ==
    /\ pc' = [pc EXCEPT ![d] = "off"]
    /\ lock' = IF lock = d THEN Nobody ELSE lock
    /\ live' = live \ {mine[d]}
    /\ full' = full \ {mine[d]}
    /\ mine' = [mine EXCEPT ![d] = NoSocket]
    /\ UNCHANGED <<macos, record, path, owner, next, seen, ghosts>>

Crash(d) ==
    /\ pc[d] # "off"
    /\ CloseAll(d)

GoTo(d, l) == pc' = [pc EXCEPT ![d] = l]

-----------------------------------------------------------------------------
(* bind_cli_socket                                                         *)

\* Mutant of TryLock: a lock that does not exclude.
TryLockShared(p) ==
    /\ pc[p] = "off"
    /\ lock' = p
    /\ GoTo(p, "stat")
    /\ meddled' = meddled \ {p}
    /\ UNCHANGED <<macos, fileVars, sockVars, seen, mine, raced, finished, stolen>>

\* open and try_lock: WouldBlock is AddrInUse and the process exits.
TryLock(p) ==
    /\ pc[p] = "off"
    /\ lock = Nobody
    /\ lock' = p
    /\ GoTo(p, "stat")
    /\ meddled' = meddled \ {p}
    /\ UNCHANGED <<macos, fileVars, sockVars, seen, mine, raced, finished, stolen>>

StatAbsent(p) ==
    /\ pc[p] = "stat"
    /\ path = NoSocket
    /\ GoTo(p, "bind")
    /\ UNCHANGED <<macos, lock, fileVars, sockVars, seen, mine, ghosts>>

\* Mutant of StatSocket: the record is invalidated before the socket is ours.
StatSocketTruncates(p) ==
    /\ pc[p] = "stat"
    /\ path \in Sockets
    /\ seen' = [seen EXCEPT ![p] = path]
    /\ record' = NoSocket
    /\ GoTo(p, "probe")
    /\ UNCHANGED <<macos, lock, path, sockVars, mine, ghosts>>

StatSocket(p) ==
    /\ pc[p] = "stat"
    /\ path \in Sockets
    /\ seen' = [seen EXCEPT ![p] = path]
    /\ GoTo(p, "probe")
    /\ UNCHANGED <<macos, lock, fileVars, sockVars, mine, ghosts>>

StatFile(p) ==
    /\ pc[p] = "stat"
    /\ path = File
    /\ CloseAll(p)

\* Who refuses a connection: a socket nobody listens on and, on macOS, a
\* listener whose backlog is full.
Refused == path \in Sockets /\ (path \notin live \/ (macos /\ path \in full))

\* Sockets whose owner still runs, be they listening yet or not.
Held == { mine[d] : d \in Daemons } \ {NoSocket}

\* The first window no check covers, on Linux: an older daemon has bound the
\* socket and does not listen yet, so the refusal is taken for a dead socket.
Probe(p) ==
    /\ pc[p] = "probe"
    /\ Refused
    /\ GoTo(p, IF macos THEN "record" ELSE "recheck")
    /\ raced' = raced \cup (IF ~macos /\ path \in Held THEN {"probe"} ELSE {})
    /\ UNCHANGED <<macos, lock, fileVars, sockVars, seen, mine, meddled, finished, stolen>>

\* Connected, would block, or gone: any answer but a refusal fails closed.
ProbeFails(p) ==
    /\ pc[p] = "probe"
    /\ ~Refused
    /\ CloseAll(p)

RecordMatches(p) ==
    /\ pc[p] = "record"
    /\ record = seen[p]
    /\ GoTo(p, "recheck")
    /\ UNCHANGED <<macos, lock, fileVars, sockVars, seen, mine, ghosts>>

RecordDiffers(p) ==
    /\ pc[p] = "record"
    /\ record # seen[p]
    /\ CloseAll(p)

\* Mutant of Recheck: the identity is not compared again.
RecheckSkipped(p) ==
    /\ pc[p] = "recheck"
    /\ GoTo(p, "unlink")
    /\ UNCHANGED <<macos, lock, fileVars, sockVars, seen, mine, ghosts>>

Recheck(p) ==
    /\ pc[p] = "recheck"
    /\ path = seen[p]
    /\ GoTo(p, "unlink")
    /\ UNCHANGED <<macos, lock, fileVars, sockVars, seen, mine, ghosts>>

RecheckFails(p) ==
    /\ pc[p] = "recheck"
    /\ path # seen[p]
    /\ CloseAll(p)

\* remove_file takes whatever is at the path by now.
Unlink(p) ==
    /\ pc[p] = "unlink"
    /\ path # NoSocket
    /\ path' = NoSocket
    /\ stolen' = stolen \cup (Held \cap {path})
    /\ GoTo(p, "bind")
    /\ UNCHANGED <<macos, lock, record, sockVars, seen, mine, raced, meddled, finished>>

UnlinkFails(p) ==
    /\ pc[p] = "unlink"
    /\ path = NoSocket
    /\ CloseAll(p)

\* bind makes a new inode, owned by d; it refuses connections until listen.
NewSocket(d) ==
    /\ path = NoSocket
    /\ next < MaxSockets
    /\ next' = next + 1
    /\ path' = next + 1
    /\ owner' = [owner EXCEPT ![next + 1] = d]
    /\ mine' = [mine EXCEPT ![d] = next + 1]
    /\ GoTo(d, "listen")
    /\ UNCHANGED <<live, full>>

Bind(p) ==
    /\ pc[p] = "bind"
    /\ NewSocket(p)
    /\ UNCHANGED <<macos, lock, record, seen, ghosts>>

Opens(d, l) ==
    /\ pc[d] = "listen"
    /\ live' = live \cup {mine[d]}
    /\ GoTo(d, l)
    /\ UNCHANGED <<macos, lock, fileVars, full, owner, next, seen, mine, ghosts>>

Listen(p) == Opens(p, "restat")

BindFails(p) ==
    /\ pc[p] = "bind"
    /\ path # NoSocket
    /\ CloseAll(p)

\* Mutant of Restat: the identity of the socket before the claim is kept.
RestatForgotten(p) ==
    /\ pc[p] = "restat"
    /\ path \in Sockets
    /\ GoTo(p, "truncate")
    /\ UNCHANGED <<macos, lock, fileVars, sockVars, seen, mine, ghosts>>

\* The identity that will be recorded is read from the path, not from the
\* descriptor.
Restat(p) ==
    /\ pc[p] = "restat"
    /\ path \in Sockets
    /\ seen' = [seen EXCEPT ![p] = path]
    /\ GoTo(p, "truncate")
    /\ UNCHANGED <<macos, lock, fileVars, sockVars, mine, ghosts>>

RestatFails(p) ==
    /\ pc[p] = "restat"
    /\ path \notin Sockets
    /\ CloseAll(p)

Truncate(p) ==
    /\ pc[p] = "truncate"
    /\ record' = NoSocket
    /\ GoTo(p, "write")
    /\ UNCHANGED <<macos, lock, path, sockVars, seen, mine, ghosts>>

\* Mutant of WriteRecord: the lock file is closed when the claim returns.
WriteRecordUnlocks(p) ==
    /\ pc[p] = "write"
    /\ record' = seen[p]
    /\ GoTo(p, "up")
    /\ lock' = Nobody
    /\ finished' = finished \cup {seen[p]}
    /\ UNCHANGED <<macos, path, sockVars, seen, mine, raced, meddled, stolen>>

\* write_all_at and sync_all.  From here on the instance starts its jobs.
WriteRecord(p) ==
    /\ pc[p] = "write"
    /\ record' = seen[p]
    /\ GoTo(p, "up")
    /\ finished' = finished \cup {seen[p]}
    /\ UNCHANGED <<macos, lock, path, sockVars, seen, mine, raced, meddled, stolen>>

Claim(p) ==
    \/ TryLock(p)
    \/ StatAbsent(p) \/ StatSocket(p) \/ StatFile(p)
    \/ Probe(p) \/ ProbeFails(p)
    \/ RecordMatches(p) \/ RecordDiffers(p)
    \/ Recheck(p) \/ RecheckFails(p)
    \/ Unlink(p) \/ UnlinkFails(p)
    \/ Bind(p) \/ BindFails(p) \/ Listen(p)
    \/ Restat(p) \/ RestatFails(p)
    \/ Truncate(p) \/ WriteRecord(p)

-----------------------------------------------------------------------------
(* The outside: an older daemon unlinks what it finds and binds; a backlog *)
(* fills and drains.                                                       *)

Claiming == { p \in Procs : pc[p] \notin {"off", "up"} }

LegacyUnlink(l) ==
    /\ pc[l] = "off"
    /\ meddled' = meddled \cup Claiming
    /\ path' = IF path \in Sockets THEN NoSocket ELSE path
    /\ GoTo(l, "bind")
    /\ UNCHANGED <<macos, lock, record, sockVars, seen, mine, raced, finished, stolen>>

\* The other two windows: after the identity is checked again and before the
\* path is removed, and after bind and before the path is read again.
Windows ==
    (IF \E p \in Procs : pc[p] = "unlink" THEN {"unlink"} ELSE {})
    \cup (IF \E p \in Procs : pc[p] \in {"listen", "restat"} THEN {"restat"} ELSE {})

LegacyBind(l) ==
    /\ pc[l] = "bind"
    /\ NewSocket(l)
    /\ raced' = raced \cup Windows
    /\ meddled' = meddled \cup Claiming
    /\ UNCHANGED <<macos, lock, record, seen, finished, stolen>>

LegacyListen(l) == Opens(l, "up")

BacklogFills(s) ==
    /\ s \in live \ full
    /\ full' = full \cup {s}
    /\ UNCHANGED <<macos, lock, fileVars, live, owner, next, pc, seen, mine, ghosts>>

BacklogDrains(s) ==
    /\ s \in full
    /\ full' = full \ {s}
    /\ UNCHANGED <<macos, lock, fileVars, live, owner, next, pc, seen, mine, ghosts>>

Next ==
    \/ \E p \in Procs : Claim(p)
    \/ \E l \in Legacy : LegacyUnlink(l) \/ LegacyBind(l) \/ LegacyListen(l)
    \/ \E d \in Daemons : Crash(d)
    \/ \E s \in Sockets : BacklogFills(s) \/ BacklogDrains(s)

Spec == Init /\ [][Next]_vars

-----------------------------------------------------------------------------
(* Properties.                                                             *)

\* Every variable holds a value of its type, and sockets are numbered as bound.
TypeOK ==
    /\ macos \in BOOLEAN
    /\ lock \in Procs \cup {Nobody}
    /\ record \in Sockets \cup {NoSocket}
    /\ path \in Sockets \cup {NoSocket, File}
    /\ live \subseteq 1 .. next
    /\ full \subseteq live
    /\ owner \in [Sockets -> Daemons \cup {Nobody}]
    /\ next \in 0 .. MaxSockets
    /\ pc \in [Daemons -> {"off", "stat", "probe", "record", "recheck", "unlink",
                           "bind", "listen", "restat", "truncate", "write", "up"}]
    /\ seen \in [Daemons -> Sockets \cup {NoSocket}]
    /\ mine \in [Daemons -> Sockets \cup {NoSocket}]
    /\ raced \subseteq {"probe", "unlink", "restat"}
    /\ meddled \subseteq Procs
    /\ finished \subseteq Sockets
    /\ stolen \subseteq Sockets

Up(p) == pc[p] = "up"

\* One instance at a time is anywhere between the lock and its end: two never
\* run jobs together (listener.rs:26-27, 50; main.rs:70).
OneInstance == \A p, q \in Procs : pc[p] # "off" /\ pc[q] # "off" => p = q

\* A socket of this version at the path is that of the instance that is up: the
\* client reaches it (listener.rs:58-103).
UpIsReachable ==
    \A p \in Procs :
        Up(p) /\ path \in Sockets /\ owner[path] \in Procs => path = mine[p]

\* The windows that can cost a socket: on Linux a wrong record cannot, for the
\* record is only read on macOS.
Costly == {"probe", "unlink"} \cup (IF macos THEN {"restat"} ELSE {})

\* No claim ever removes a socket whose daemon still runs, be its backlog full,
\* as long as no older daemon meets one of the windows (listener.rs:66-97).
LiveSurvives == raced \cap Costly = {} => stolen = {}

\* The record is never taken from a socket of an older daemon, and while an
\* instance is up it names the socket of that instance, unless an older daemon
\* bound between bind and the second look (listener.rs:104-116).
RecordIsOwn ==
    "restat" \notin raced =>
        /\ record # NoSocket => owner[record] \in Procs
        /\ \A p \in Procs : Up(p) => record = mine[p]

\* A claim that no older daemon disturbs gives up only because the path holds
\* something that is no socket, because somebody listens on the socket (the path
\* still is what it saw, so nothing else can make the probe, the check and the
\* removal fail) or, on macOS, because no finished claim left it: after the crash
\* of an instance that was up, the next start recovers (listener.rs:58-117).
ClaimFailsForCause ==
    \A p \in Procs \ meddled :
        /\ pc[p] \in {"probe", "record", "recheck", "unlink"} => path = seen[p]
        /\ pc[p] = "record" /\ record # seen[p] =>
              seen[p] \notin finished \/ owner[seen[p]] \in Legacy
        /\ pc[p] = "bind" => path = NoSocket
        /\ pc[p] \in {"listen", "restat"} => path = mine[p]
=============================================================================
