# dookie: specifications, model checking and proofs

dookie is a daemon (`dookie_server`) that keeps a Plex installation in order, and
a command-line client (`dookiec`). Everything that keeps state lives in the server:
one process, a handful of tokio tasks, the files of two disks. This directory holds
TLA+ models of its parts, what TLC checks of them and what TLAPS proves of them.
References such as `lib.rs:212` are to `src/server/src/lib.rs` and its neighbours.

## 1. Inventory

| Part | Code | State | Operations | Model |
|---|---|---|---|---|
| Move job | `lib.rs:38-401` | `is_moving`, `timer`, two channels, two tasks | Start, Stop, status; scheduled and explicit batches | `MoveJob`, `MoveService` |
| Batch on the files | `lib.rs:283-345, 403-484` | local disk, DAS | survey, mass move, targeted move: copy, remove, link | `MoveFiles` |
| Removal of a title's files | `mod.rs:319-345, 529-541` | the same disks | `remove_media_files` | `MoveFiles`, `MediaCommands` |
| Socket claim | `listener.rs:24-153` | lock file, ownership record, socket path | `bind_cli_socket` | `SocketClaim` |
| CLI listener and client | `listener.rs:214-300`, `cli_client` | the request in service | accept, read, decode, ask the move job, reply | `Server`; a caller in `MoveJob` |
| Lifecycle | `main.rs` | the tasks of the process | claim, spawn, end when any task ends, or for an update | `Server`, `SocketClaim`, `InstallUpdate` |
| Log retention | `logging.rs` | log files | delete after 7 days | `Server` |
| Scan job | `lib.rs:594-916` | event queue, debounce flag | watch, debounce, check links, ask the move job, refresh Plex | `ScanLibrary` |
| Updater | `update.rs`, `main.rs:123-147` | two executables, their backups, a staging directory | check, preflight, stop, install, roll back, exec | `InstallUpdate` |
| Radarr, Sonarr | `media_bundle/{mod,radarr,sonarr}.rs` | theirs: which titles are tracked | look up, add, remove | `MediaCommands`, `TitleLibrary` |
| qBittorrent, Plex | `media_bundle/{qbit,plex}.rs`, `client.rs` | none | list, delete, grant, refresh | `DiscordCommands`, in part |
| Discord commands | `discord_bot.rs:452-545`, `commands/` | one task per interaction | check the caller, defer, run, edit the answer | `Interactions`, `DiscordCommands` |
| Restart of the services | `commands/system.rs:126-177` | processes of macOS | pkill, wait, open | `RestartServices` |
| Discord bot | `lib.rs:918-1079`, `discord_bot.rs:86-450` | `has_ready_been_called`, the guild's channels and commands | webhook, ready | `DiscordBot` |
| Configuration, process helpers, web server job | `config.rs`, `mod.rs:543-596`, `lib.rs:504-592` | none | conversions; no caller; a stub | none, see section 6 |

How they interact. Three parts send to the move job's front desk: the CLI listener
(Start, status), the scan job (status) and the updater (Stop). The front desk
answers what it can from the flag and the timer and forwards Start and Stop to the
worker, awaiting its acknowledgement. The worker changes the directories the scan
job watches, which Discord's removals and the download clients change as well. The
updater stops the worker, then replaces the executables and the process; the new
process claims the socket the old one left. The Discord bot runs every interaction and
every ready event as a task of its own, in the same process: what two of them read from
Radarr, Discord or the disks may have changed by the time they use it. `main` polls the
handles of all tasks, and the end of any of them ends the process.

What is hard in this code:

- two tasks, a flag, a timer and two queues without a common lock: what one reads
  is old when it is used (`lib.rs:212-219, 233, 347-348, 382`);
- a front desk that awaits the worker while others await the front desk;
- a move that is four system calls per file on disks others use, cut by errors and
  crashes at any of them and resumed by a later batch;
- a claim of a path that is made of checks and effects by name, on two systems
  whose sockets refuse connections for different reasons;
- an installation of two files that must not be mixed, with its own rollback, which
  may fail too;
- a debounce, a check of links and a status request, each an await after which the
  libraries, the disk and the move job may be different;
- slash commands that look up, then change, then delete files, with an await before each
  step, an error possible after the effect, and another command or the mover in between;
- a restart of a service that is a signal, a wait with a timeout and an open, which two
  administrators may run at once;
- a ready handler whose guard is loaded before and stored after all its calls.

What makes each part correct, in a sentence: the move job answers every call,
never says it stopped while it may move, and moves again after each period; a batch
loses no byte and leaves every file reachable at its path; a claim admits one
instance, harms no live socket, and recovers from a dead one; a change is
followed by a refresh or a reason for none, and no refresh is sent through an outage or
a batch; an update leaves a matching pair or says that it does not, and what was there
before it can be restored; a client of the socket is told the truth of its own request,
or sees its stream end; an answer of add, remove or search is one a library without
concurrency would give, no file of a removed title is left without a trace of why, no
service stays down without a word, and the bot's channels, commands and webhook are
there once, or an error says why not. The
behaviours that could break these are listed with their lines under `hazards` in
`PROJECT.json`.

## 2. Modules

```
MoveJob  --implements-->  MoveService  <--INSTANCE--  Server
   |  \                                                |   \
MC_MoveJob  MoveJob_proof                     MC_Server   Server_proof

   SocketClaim                      MoveFiles                   DiscordBot
     |     \                         |     \                     |      \
MC_SocketClaim  SocketClaim_proof  MC_MoveFiles  MoveFiles_proof  MC_DiscordBot  DiscordBot_proof

   InstallUpdate               ScanLibrary
         |                       |     \
InstallUpdate_proof    MC_ScanLibrary  ScanLibrary_proof

            Interactions
             /        \
   MediaCommands   RestartServices
             \        /
          DiscordCommands  --implements-->  TitleLibrary
             |            \
   MC_DiscordCommands   DiscordCommands_proof
```

### MoveJob

The front desk (`lib.rs:206-260`), the worker (`lib.rs:263-397`), any number of
callers and the clock.

- `fdQueue` is the front desk's channel, `moveQueue` the one to the worker, `ack` the
  oneshot of the message forwarded last. A caller's `Ask` enqueues; `reply` holds what its
  oneshot holds: pending, an answer, or dropped. `isMoving` is the atomic flag, `elapsed`
  the age of the shared timer; the subtraction of `lib.rs:233` is done modulo the word
  (`Countdown`) or, with `OverflowChecks`, panics (`FdPanic`).
- The front desk's steps are the load of the flag (`FdBusy`, `FdStatus`, `FdCommand`), the
  read of the timer (`FdTimer`), the forwarding (`FdForward`, `FdForwardClosed`) and the
  await (`FdStarted`, `FdStopped`, `FdStartLost`, `FdStopLost`). Every await and every
  access of shared state is a step of its own.
- The worker's steps are the batch (`WBegin`, `WSurvey`, `WMove`, `WBatchEnd`,
  `WRearm`), the select of its sleep and the channel (`WWake`, `WTakeStart`,
  `WTakeStop`, `WClosed`), and the explicit batch (`WAck`, `WExplicitEnd`). The
  survey may fail (`WSurveyFails`): the task ends and the flag stays set.
- Time is `Tick`. With `Punctual` a task that can run does so within the second.
- `main` ends the process when the worker ends; in the model the other tasks live on, which
  only adds behaviours.

`MoveService` is what a caller may rely on: requests are answered in order, one Start
at a time is accepted, a Start is answered InProgress only if a batch ran at a moment
of the call. `MoveJob` implements it (`Implements`), with the queue, the call in
service and the flag mapped to those of the abstract job.

### MoveFiles

One pair of the move map as a tree of paths which may exist on the local disk and on
the DAS. `cur` is the path `move_dir` is at; the calls above it are the directories
above it, with what their `read_dir` streams have left in `todo`. One action is one
system call; an error ends all calls (`Abandon`), as the `?` operators do. Mass moves
(`BeginMass`) list the root; targeted moves (`BeginAged`, `NextDue`) go over the list
of the survey, of which age makes any subset. Around the worker: writers, which may
write to a file while it is copied, follow the link of a moved entry, or make a
directory again that is gone; the removal of a title over its two paths; errors and
crashes of the server at any point, which end the removal too. While the DAS is not mounted
the worker meets an error (`Fault`) and a removal finds nothing there, which is no error
(`RmMissed`, from `mod.rs:530-532`); `missed` remembers the entries it passed so.

A file's bytes are the number of the write they come from; `Partial` is an unfinished
copy. The copy carries what it `held` when it opened the file, or, when the file is
written meanwhile, the new bytes or a mixture. `Path[n]`, the paths from the top down to
`n`, is stated as what every set that is closed upwards (`Upward`) and has `n` contains.

### SocketClaim

Any instances of this server and any daemons of a version that takes no lock. One
action is one system call of `bind_cli_socket`, on Linux or macOS (`macos`). A socket
is its identity (device, inode, ctime), a number never given out again. Processes die
anywhere (`Crash`), which closes the lock and the listener and leaves the path and the
record. `bind` and `listen` are two calls (`Bind`, `Listen`): a socket between them is
refused like a dead one. A live socket's backlog fills and drains. History variables
remember which of the three windows the code cannot close an older daemon met (`raced`: on
Linux it had bound and did not listen yet at the probe; it bound between the second look
and the removal; it bound between bind and the look after it), claims disturbed by one
(`meddled`), sockets whose claim was completed (`finished`) and sockets removed while a
daemon held them (`stolen`). Each property excuses only the windows that can break it.

### InstallUpdate

The update branch of `main` and `update.rs`, from a start of the server to the exec of
its successor. `bin` and `bak` are what is at the install paths and their `_bak` paths:
the executable of a release, nothing, or something that is not a regular file. The process
checks and stages (`Prepare`), tries the staged server (`Preflight`), stops the move job
(`Stopped`), looks at the metadata of all paths (`Verify`, `Refuse`), and replaces one
executable after the other, two renames each (`Backup`, `Place`). `repl` and `saved` are the
list of replacements: the executables in it, and those of them with a backup. Any rename,
the sync and the exec may fail (`Fails`); `RollBack` goes over the list from its end,
`Incomplete` is a rollback with failures, after which `Drop` tries them once more, the other
way round because `rollback` pushes them in that order. `RolledBack` ends in `Restart`, an
exec of what is at the server's path with a backoff of a day. The successor's check may
install again: the cycle is closed. Around the process: crashes between any two calls,
releases, days, a start by launchd or an operator, who may also restore what the last
install replaced (`Restore`).

History variables remember what was installed before the last install (`old`), what the
last `RollbackIncomplete` names (`notice`), whether an install was cut or not rolled back
(`excused`), and whether a day has passed since the last failed one (`since`). Time is in
days: `left` is what remains of `RETRY_AFTER_ENV`, `rest` of a sleep.

### ScanLibrary

The job's loop as one program counter: `recv`, the half second of the `select!`
(`debounce`), the check of the links, the status request, the refresh. `res` is the
event at hand, which `Debounce` replaces by the next one as `res = res_` does. A library is
the number of its links and of its broken ones; `Enough` is the ten links after which
`find_broken_symlinks` stops, so that a broken link may be seen or not
(`LooksSound`, `LooksBroken`). A link that does not resolve is an error of `canonicalize` and
skips the scan at once (`LinksBroken`); one whose target goes between that call and `metadata`
skips it only after the status request (`LinkGoes`, `Skip`). The move job is its flag (`MoveJob!FlagTruthful` is what allows
that) or gone. Around the job the libraries change, the DAS comes and goes, and batches
run. History variables: changes without a decision on their library (`todo`), those whose
event the debounce dropped (`dropped`), and what held at some time in the round at hand
(`saw`, `calm`).

### Server

The process from its claim to its end. `phase` is a client's connection, `backlog` the
connections the kernel holds for the listener, `cur` the stream in its hands, `lPc` the
await it is at. A request is one of four: `status`, `move`, `other` (decodes, but
carries nothing the listener answers) and `broken` (does not decode, or carries no data).
`AcceptFails`, `ReadFails`, `ReadBroken` and `DeskGone` are the errors of the loop, each of
which ends the task and drops every stream with it; `ReadNothing`, `ReadBlocked` and
`ReadOther` go on with the next client. The move job is not modelled again: it is `MoveService`, the
specification `MoveJob` implements, with the listener and the updater as its callers.
`sweep` is the retention task, which an entry it cannot handle ends (`SweepStuck`). `main`
ends (`Over`) when a task it polls has ended, or after the move job has answered an update's
Stop (`UpdateReady`, `Replaced`); from `UpdateReady` on it polls no other task, as the
branch of its `select!` does not return. History variables: the batches begun for the client
in service (`begun`) and whether a batch ran while it waited (`ran`).

### Interactions, MediaCommands, RestartServices, DiscordCommands, TitleLibrary

A slot is one interaction, a task of serenity: received, refused or deferred, run, edited
(`Interactions`). What runs is a step `pc[i]` of one of the commands; each step is one
HTTP exchange, one process or one file removal, and other slots come in between.

`MediaCommands` follows one title: `tracked` is Radarr's (or Sonarr's) table, `valid[i]`
says that the id a removal has looked up is still the one of that table, `local` and `das`
are the title's two paths, `mover` the worker at that entry. A call fails with or without its effect: a
lost response to POST or DELETE is `Failed` after the change. The DAS may be unplugged between
any two steps, so that it is away is an outcome of each step that needs it: the worker's copy
fails (`MoveFails`), and a removal passes what is there without a word (`PathMissed`), which
`missed` remembers until the files are deleted after all or replaced. `excused` remembers that a
removal failed, was cut by the end of the server, or met the worker (module `MoveFiles`
has the detail of that race).

`RestartServices` has an app's process (`up`) and the position of each restart in the list
(`at`). What an administrator knows is only what arrives: `lines` are the apps a slot's answer
reports an error of, while it is composed and until it is sent; `settled` are those whose line was
read (`Tells`), or lost because Discord did not take the answer (`TellsNobody`) or the server
ended first (`RestartLost`). An app that is opened again leaves both. `DiscordCommands` puts the
commands side by side, with those that are one exchange with a service (`Exchange`) or none
(`Local`), Radarr that does not answer while it is down, and the end of the server, which
takes all slots with it (`ServerEnds`).

`TitleLibrary` is what the users may rely on: a search, an addition and a removal are
decided at one moment between their start and their answer. `DiscordCommands` implements it
(`Implements`); a `Delete` is that moment for a removal, whose files follow.

### DiscordBot

The task of the auto torrent shutoff job: `HookChannel` and `HookBind` are the webhook
listener's start, `Connect` the client's; `ClientEnds` ends the task, and with it the
server. A ready event is handled by one of the `Handlers`: list the channels, create those
that are missing, clear and register the commands, store the flag. Every call may fail,
with or without its effect. `Post` is what the webhook accepts and what it tells of it.
The configuration is any set of names, with or without `admin-notifications`, and may be
another one at each start; channels may exist that nobody configured.
History variables: a call failed since the start (`failed`), duplicates are possible
(`doubled`), a ready handler that had `admin-notifications` to make succeeded once (`settled`), and
nothing excuses a missing webhook at this start (`due`).

## 3. Runs

| Run | Question and answer |
|---|---|
| `move_job` | Three callers, all interleavings, release arithmetic. All invariants, the action property, the three liveness properties and the refinement hold. |
| `move_job_checked` | Overflow checks on, and tasks that lag behind the clock (`Punctual` FALSE): the front desk may die; nobody waits for ever. |
| `countdown_wraps` | violated: the countdown can exceed the period by wrapping. |
| `move_files` | A movie directory with a nested directory, and a loose file; two outside events, the DAS mounted or not. All invariants hold, and directories are moved in the end, on a full disk as well unless an entry is blocked. |
| `move_files_link` | violated, with no outside event: a directory with a link inside is emptied and not linked. |
| `socket_claim` | Two instances, one older daemon, four sockets, both systems. All invariants hold. |
| `install_update` | Two updates of two executables, every call failing or the process dying anywhere. All invariants, the action property and the liveness property hold. |
| `scan_library` | Two libraries, three changes, with batches, outages and broken links. The action property and the liveness property hold. |
| `server` | Two clients and an update beside the move job and log retention. The answers are true, every client is served, and the server does not outlive any of its tasks. |
| `discord_commands` | Two interactions at once, of six commands, the DAS unplugged at any step. The invariants and the refinement of `TitleLibrary` hold. |
| `remove_unplugged` | violated: a removal answers that the files were cleaned up and has left the copy on a DAS that was away. |
| `discord_bot` | Two ready events at once, restarts with any configuration, and what Plex posts. The invariant holds. |

Properties. In `move_job`: the flag is set exactly while a batch runs
(`FlagTruthful`), no caller is forgotten, one message is in flight and nobody waits out an
explicit batch (`DeskDiscipline`), a Stop
means quiet (`StopMeansQuiet`), the front desk outlives the worker
(`DeskOutlivesWorker`), the countdown is right while the worker sleeps after a
scheduled batch (`CountdownRightWhileAsleep`), calls are answered
(`EveryCallAnswered`), batches recur (`ScheduledBatchesRecur`). In `move_files`: no
byte is lost but for writes inside the copy window (`NothingLost`), a file is missing
from its path only while its entry is being moved or after a logged error
(`MissingOnlyIfCut`), a removal nothing met has left nothing, but on the DAS what it did not find
because the DAS was not mounted (`RemovedIsGone`), a directory nothing blocks is moved in the
end, after errors and crashes too, if scheduled batches find it old again and again, or
on a disk that stays full by the mass moves if nothing in the pair is blocked (`DirectoriesMove`).
In `socket_claim`: one instance (`OneInstance`), reached by its clients
(`UpIsReachable`), no live socket removed (`LiveSurvives`), a truthful record
(`RecordIsOwn`), and failure only for a cause (`ClaimFailsForCause`). In
`install_update`: a server runs beside executables of its own release unless a crash or
a reported rollback came between (`RunsMatchingPair`), what an install replaces is at its
path or its backup at every moment (`OldSurvives`), an update that fails has restored
everything or names what it has not (`ErrorsTellAll`), failing updates are a day apart
(`BackoffKept`), a process that stopped its move job does not stay (`StopLeadsOn`). In
`scan_library`: no refresh is sent through an outage or a batch that spans the whole round
(`RefreshJustified`), and a change is forgotten only when the debounce drops it
(`ForgottenOnlyByDebounce`). In `server`: what `dookiec` prints is true of its own request
(`AnswersAreTrue`), every client gets an answer or the end of
its stream (`EveryClientServed`), and when the listener, log retention or the move job has
ended the process ends too, even if it waits at that time for the job to stop
(`DeadTasksEndServer`). In `discord_commands`: no file of an untracked title
is left without a cause on record, a DAS that was away among them, and none is deleted under a title
that is tracked by the id the removal holds (`OrphansExplained`); a service a restart stopped is
open, being restarted, in an answer still to be sent, or in one that was read or lost
(`DownIsAccountedFor`); the answers are those of `TitleLibrary`
(`Implements`). In `discord_bot`: commands and configured channels are there when the flag is set,
once each, the webhook is there at each start after a ready handler had its channel to make, and what Plex was acknowledged was
told, an episode by its series, each unless a call failed or two events overlapped
(`SetUpExplained`).

### Findings

1. `countdown_wraps`. The timer is written after the flag is cleared and never after an
   explicit batch: a status in between subtracts more than the period.
2. `move_files_link`. `remove_dir` fails on a directory that holds a skipped link: its
   files are on the DAS, their paths are gone, and every later mass move of the pair
   ends there. `README.md:31-33` says existing links are skipped.
3. `remove_unplugged`. `remove_path` takes a path that is not found for removed
   (`mod.rs:529-532`), and on a DAS that is not mounted no path is found: the title is deleted
   in Radarr or Sonarr, the answer is that its files were cleaned up (`media.rs:216`), and
   the copy stays. `README.md:48` says that the mirrored DAS copy is deleted, and a second removal
   is answered that the title is not tracked.

### Known limits of the code, seen while modelling

Places where words and code differ, or where the models had to allow what a reader may not
expect; no run is about them.

- The client of qBittorrent is the only one without a token (`mod.rs:206-214`), and every
  request adds its token as a header (`client.rs:50, 79`): a header without a name is an error of
  the builder, so `/torrent_list` and `/torrent_delete` fail before anything is sent (`Sends`),
  though `README.md:45` says what they do.
- Bytes that are written to a file between the start of its copy and its removal are lost
  (`lib.rs:425-442`): `NothingLost` is about all others. The comment at `lib.rs:31-35` is of
  files in use; a mass move takes those as well.
- The targeted move of a file at the top of a pair copies it and neither removes nor links it
  (`lib.rs:427-431`): each scheduled batch copies it again, and only a mass move moves it.
- On a disk that stays full there are only mass moves (`lib.rs:305, 325`), and one blocked entry
  ends each of them: what is listed after it is not moved until the entry is cleared by hand.
- The models take a DAS that is not mounted for one on which nothing is found. Where its mount
  point stays behind as an empty directory, a batch copies to the local disk under it; that, and
  copies the DAS had not written out when it was pulled, are not modelled.
- The links are looked at once in a round, before the wait for the status (`lib.rs:811-821`): what
  `RefreshJustified` allows may be as old as a batch.
- A status waits for a whole batch when a Start or a Stop was forwarded just before the
  worker's sleep fired: the front desk reads the flag before it forwards a Start
  (`lib.rs:212-219`) and not at all for a Stop, then awaits the worker. `README.md:23-24`
  says that status remains available. `EveryCallAnswered` holds because copies end.
- On macOS a process that ends between its bind and its record leaves a socket no
  later one reclaims; the comment at `listener.rs:111-112` knows of it, `README.md:143-145` does not.
- An event of the other library within half a second takes the place of the one at hand
  (`lib.rs:804-808`): `ForgottenOnlyByDebounce` allows for it. A scan skipped for a batch is
  not tried again (`lib.rs:829`).
- A removal that finds nothing local between the removal of a source and its link is
  followed by the worker's link (`MediaCommands!MoveLinks`, `excused`); a removal takes no lock,
  and may leave at either path what the worker carries to it meanwhile (`clash` in `MoveFiles`).
- The comment at `lib.rs:596` asks for at least ten sound links, while
  `find_broken_symlinks` (`lib.rs:722-727`) is satisfied with none, as its own comment says.
- `README.md:153-156` has the operator restore the `_bak` files after a crash; a crash before
  the client was moved aside leaves the client's `_bak` of an earlier update, which does not match
  the server's.
- On Linux a daemon of an older version that has bound its socket and does not listen yet
  looks dead to the probe (`listener.rs:66-76`): its socket is removed. An older daemon that
  binds between the second look and `remove_file` (`listener.rs:89-97`) loses its socket too.
- `README.md:3-13` and the comment at `lib.rs:918-922` speak of torrents that are ended and
  resumed; nothing in the code does so.
- A client that connects and keeps silent holds up all others: `readable()` has no timeout
  (`listener.rs:229`). `EveryClientServed` assumes that clients send or go away.
- Any error of one client's stream (`listener.rs:229, 241-243`) and any bytes that do not
  decode (`listener.rs:245`) end the listener, and with it the server.
- A directory over a week old in the log directory, or a file removed by somebody else during
  the sweep, ends the retention task and the server (`logging.rs:67-70`).
- While an update waits for the move job to stop, `main` does not see other tasks end.
- The webhook needs its channel at the start, before ready has made it (`lib.rs:1053`): after
  the first start there is none, and with a configuration that does not list
  `admin-notifications` (those of `config.rs:110-121` and `discord_bot.rs:631-660` do not) there is
  none until somebody makes the channel by hand. Two ready events that overlap may make a channel
  twice, and so does a configuration that lists a name twice. A channel that is deleted in
  Discord is made again at the next start; the model has nobody delete one. When a call in ready fails the flag is stored all the same
  (`discord_bot.rs:448-450`), so nothing is retried until the next start; when the list of
  channels fails, all of them are created again (`discord_bot.rs:346-352`).
- When the files of a title cannot be removed after Radarr has forgotten it, a second
  `/remove` answers that it is not tracked (`radarr.rs:130-134`) and removes nothing.
- An answer that Discord does not take is logged and not sent again (`discord_bot.rs:542-544`): of a
  service that a restart could not open again nobody learns then.

### Bounds, and why they are enough

- `MoveJob`: the three callers the server has, with what each of them sends; a period of
  two seconds, ages of the timer up to four (`MaxElapsed`), so that a batch outlasts the
  period and the countdown wraps; a word of three bits (`Word` = 8); two pairs
  (`Pairs`), at most one old entry (`MaxOld`). Each caller awaits its answer, so queues of
  three (`QueueCap`) are never full, as the code's queues of 100 never are.
  CHECK_DEADLOCK is off: after a Stop every task has ended.
- `MoveFiles`: `MaxEvents` = 2 outside events, so that any two writes, removals, errors
  and crashes meet each other and the worker. The tree has a directory in a directory
  (the recursion is three calls deep), a file beside it that a mass move may be blocked at before it
  gets to the directory, and every initial content of it. `move_files_link`
  uses a flat tree with two files in the directory.
- `InstallUpdate`: `Count` = 2, the length of `BINARIES`. With `MaxRelease` = 4 the first
  server may be of any release and have backups of any older one; three
  installs can follow a server of the first release, with failures, restarts and
  backups of backups in between.
  CHECK_DEADLOCK is off: without a server executable at its path and nothing to restore,
  no server can be started again.
- `ScanLibrary`: the two libraries the job asserts (`lib.rs:898`) and three changes (`MaxChanges`), so that
  one is dropped while another waits in the channel; two links (`MaxLinks`) with `Enough` = 1,
  so that a library has too few, enough, or enough beside a broken one.
  CHECK_DEADLOCK is off: changes are bounded, and the job may have ended.
- `SocketClaim`: four sockets are ever bound: those of both instances, of the older
  daemon, and one more for a second generation of each in turn.
- `Server`: two clients, each connecting once, so that one waits behind the other at every step;
  the third party is the updater. CHECK_DEADLOCK is off: the server ends.
- `DiscordCommands`: two slots, the least number that interleaves; no action refers to more
  than two of them. Six commands (`Commands`), one of each kind: the others take the same
  steps as `grant_access` or `help`. Two apps (`Apps`), of which
  Radarr is one, so that a restart goes on after a failure. The slots are symmetric
  (`Symmetry`): no action or property tells them apart, and the run has no liveness property.
  `remove_unplugged` uses additions and removals alone, without symmetry.
- `DiscordBot`: two handlers, two names of channels (the webhook's and another), each configured
  or not and there or not, up to two channels of a name (`MaxCopies`), and four payloads, one for each way `Decodes` and
  `Title` can go.

### Fairness, and why the code justifies it

- `MoveJob`, `FairSpec`: weak fairness on every step of the front desk and the worker
  (tokio polls ready tasks; the front desk's steps share one condition), strong fairness on taking a Start or a Stop from the channel
  (`tokio::select!` polls its branches in random order, so a message that is there again
  and again is taken), strong fairness on the clock, whose guard excludes instants,
  not its progress. That a copy ends (`CopyEnds`) is assumed
  besides, since nothing in the code bounds a copy.
- `MoveFiles`, `FairSpec`: weak fairness of the worker, which is polled and whose batches recur
  (`ScheduledBatchesRecur` of `MoveJob`). Which kind of batch it runs is not assumed, since a disk
  that stays full admits no targeted moves: `DirectoriesMove` has a part for batches that find
  the entry old infinitely often, and one for a disk on which in the end there are mass
  moves only. Nothing is assumed of writers, removals or faults but their bound.
- `InstallUpdate`, `FairSpec`: weak fairness on `Update`, all steps of the process
  together: it goes on with what it does. Nothing is assumed of which of two outcomes a
  call has, nor of crashes, days, releases or operators.
- `ScanLibrary`, `FairSpec`: weak fairness on the job's steps: its task is polled, its timer
  fires, and the front desk answers, which is `EveryCallAnswered` of `MoveJob`.
- `Server`, `FairSpec`: weak fairness on the listener's steps (its task is polled), on `main`'s
  and on the move job's answers and the end of its batches, strong fairness on its halt, which
  waits for the end of a batch (together `EveryCallAnswered` of `MoveJob`), and clients that
  send or go away. Nothing is assumed of errors.
- `DiscordCommands` and `DiscordBot` have no liveness property: the HTTP clients have no
  timeout, so nothing in the code bounds a call of Radarr or Discord.
- `SocketClaim` has no liveness property: a claim may be cut anywhere.

## 4. Proofs

`MoveJob_proof`, for all sets of callers, periods, word sizes and batch sizes. The
invariants are not inductive alone. `IInv` adds where the one message in flight can be
and what each end knows of it (`Desk`, `Handshake`): while the front desk awaits, the
message is in the channel, in the worker's hands, or answered in `ack`, and nowhere
else; that the worker is about to acknowledge only with the front desk waiting for it is
what makes one message at most and keeps the desk free in an explicit batch. Proved from it:
`TypeOK`, `FlagTruthful`, `NoOrphanCall`, `OneInFlight`, `ExplicitBatchFreesDesk` (together
`DeskDiscipline`), `StopMeansQuiet`, `DeskOutlivesWorker`. `CountdownRightWhileAsleep` needs
one thing more, that the timer of a sleeping worker is at most a period old when tasks are
punctual (`Asleep`): the subtraction of `lib.rs:233` cannot wrap there.

`JobImplementsService` is `Implements` for builds without overflow checks: every step of
the front desk, the worker, a caller or the clock is mapped to a step of `MoveService` or
leaves it alone, one lemma per kind of step. `Desk` is what makes it go through: it knows
which call the front desk has at hand at each of its steps, and so whose call a step of the
service answers. `MoveService` states no fairness, so this is the whole of `Implements`. With
overflow checks the front desk may panic (`FdPanic`), which the service does not do; no run
claims it either.

`MoveFiles_proof`, for any tree and any number of outside events: all four invariants
of the run. What is there is in a directory that is there (`Grounded`); a file that nobody
disturbed has its last bytes on the local disk, or the copy at hand is about to write them, or
they are on the DAS before the source is removed (`Contents`); a removal that is half done has
nothing left behind it on the disk it has passed, unless that was the DAS and it was not mounted
(`Halfway`), and meets no mover
and no writer unless the clash is on record (`Apart`). `RemovedIsGone` needs all of them,
since a copy into a removed directory would bring it back. Where a step concerns a subtree
(`remove_dir_all`, `Abandon`, a write that makes its directories), the proof needs that
paths are closed upwards, which the definition of `Path` gives without induction over the tree.
TLC has checked `IInv` on the tree of `move_files` and on the flat one.

`SocketClaim_proof`, for all sets of instances and older daemons and any number of
sockets. `IInv` says who holds the lock (`LockHeld`), that socket numbers seen, recorded
or at the path were given out before (`Numbering`), which listener belongs to whom
(`Listeners`), that only macOS asks the record (`MacOnly`), what a claim knows of the path at each of its steps (`PathIsMine`,
`Doomed`, `Identity`), and which record a completed claim left (`Finished`). The lock
alone gives `OneInstance`; `LiveSurvives` needs that a socket that was refused is dead
or was recorded by a claim that is over, and `RecordIsOwn` that what is read back after
bind is what was bound unless an older daemon hit that window. On macOS the record covers
for a socket that is bound and does not listen; on Linux nothing does (`Costly`). All six properties of the
run are proved.

`InstallUpdate_proof`, for any number of executables and releases. The promises are about
the disk after everything is over, so `IInv` has to say what holds of it on the way:
an executable outside of the list is what it was, one inside has its old self at the backup if
it had one (`Transaction`); the loop has placed the release up to the executable at
hand and no further (`Progress`), which is what makes the pair match at the exec; a list that
was given up is named (`Notice`); and a server that does not install is what is at its path
(`Serving`). All invariants of the run are proved, and `BackoffKept` from a second
small invariant: a process rests for as long as the environment says (`Rested`).

`ScanLibrary_proof`, for any libraries, links and changes: `Knows` says what the job has
seen by each step of a round, and gives `RefreshJustified`. `NothingForgotten` is the part of
`ForgottenOnlyByDebounce` that needs no fairness: at every moment, while the job runs, a library
that changed and was not decided on has an event in the channel or at hand, or lost it to
the debounce. That the job then gets to the event is left to TLC.

`Server_proof`, for any number of clients. `IInv` says that every open stream
is in one place, waiting or in the listener's hands, and none is open once the listener has
ended (`Streams`); that the call the listener awaits is the one its client asked for, and
that the job holds no other of the listener's (`Call`); and how the answer at hand and the
history of the client's turn agree (`Account`). It gives `TypeOK`, and, step by step,
`AnswersAreTrue`. The move job in it is `MoveService`, whose promises
`JobImplementsService` carries over from `MoveJob`.

`DiscordBot_proof`, for any handlers, configurations, channels and payloads. As long as no call failed, a
handler past its loop has all configured channels there (`ChannelsMade`), and commands that are
cleared after a registration are about to be registered again (`CommandsSet`); without
overlap one handler is at work, and what it is about to create is not there (`OneHandler`);
and the first handler that succeeds with `admin-notifications` among its channels settles the
webhook for all later starts (`HookDue`). It
gives `TypeOK` and `SetUpExplained`.

`DiscordCommands_proof`, for any number of interactions at the same time, any commands and
any apps. `IInv` says that a step in progress is one of the command's own (`PcFits`);
that an id held as good is that of a title Radarr has (`Ids`); that, as long as nothing
excuses it, what is left of an untracked title on either path is still to be passed by a removal
(`ToClean`), a copy that was passed while the DAS was away is all there is (`MissedAlone`), and
the worker is not moving files a removal is about to pass (together `Unexcused`, with `Placed`);
and that an app which ends or is down is waited for, or accounted for by a line
of an answer (`Awaited`). It gives `TypeOK`, `OrphansExplained` and `DownIsAccountedFor`. From `PcFits` and
`Ids` every step is one of the library's or leaves it alone, and as `TitleLibrary` states
no fairness this is the whole of `Implements`.

The assumptions are those of the modules on their constants; TLC evaluates them in the
runs.

Every invariant and every action property of the passing runs is proved, and so are both
refinements. Only model-checked are the liveness properties, since fairness and ENABLED are
out of the prover's reach: `EveryCallAnswered`, `ScheduledBatchesRecur`, `DirectoriesMove`,
`StopLeadsOn`, `ForgottenOnlyByDebounce` (its safety part is proved),
`EveryClientServed` and `DeadTasksEndServer`.

## 5. Plan

Done, in this order: `MoveJob` with `MoveService`; `SocketClaim`; `MoveFiles`;
`InstallUpdate`; `ScanLibrary`; `Server`; `Interactions`, `MediaCommands`,
`RestartServices`, `DiscordCommands` and `TitleLibrary`; `DiscordBot`; each with its
proofs, the refinements of `MoveService` and `TitleLibrary` among them.

Next, in the proof modules that exist:

1. What `MoveService` promises by itself (requests are served in order, a Stop is final), as
   theorems of it in `MoveJob_proof`, carried over to `MoveJob` by the refinement.
2. The safety parts of the other liveness properties, as `NothingForgotten` is for
   `ForgottenOnlyByDebounce`: what is still to be done is always in somebody's hands.

The project is meant to stay at twelve runs, one question each. A new module's question takes
the place of a less telling run, or is asked of a composition that an existing run checks.

## 6. Not modelled

YAML, protobuf, tar, SHA-256 and the text of answers, announcements and logs: pure
conversions or I/O. Configuration (`config.rs`) is deserialised once. The process helpers
(`mod.rs:543-596`) have no caller. The web server job (`lib.rs:504-592`) is a stub that is
not spawned. What follows a qBittorrent login (`qbit.rs:86-140`) is never reached, see the
known limits. The update check (`update.rs:42-276`) is its outcomes. Discord, Plex, Radarr,
Sonarr and macOS are external: they are modelled by the effects and errors of the calls the
code makes. Whether the DAS is mounted is no variable: in `MoveFiles` and `MediaCommands` it is
away or there at each step anew, an error to the worker and nothing found to a removal; in
`ScanLibrary` it is `das`. Who deletes channels or files by hand is left out.
