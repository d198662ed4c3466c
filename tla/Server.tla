-------------------------------- MODULE Server --------------------------------
(***************************************************************************)
(* The server process between its claim of the socket and its end: the     *)
(* clients of the socket, the listener task that serves them one after the *)
(* other (listener.rs), the task that deletes old logs (logging.rs), and   *)
(* main's select over all tasks (main.rs).  The move job is its contract,  *)
(* module MoveService, which MoveJob implements; the listener and the      *)
(* updater are its callers.                                                *)
(***************************************************************************)
EXTENDS Integers, SequencesExt

CONSTANTS
    Clients,    \* the processes that connect to the socket, once each
    NoClient

ASSUME ClientsAssumption == NoClient \notin Clients

VARIABLES
    batch, owed, asked, reply,  \* the move job, see MoveService
    main,       \* "select", "stopping" (for an update) or "over"
    phase,      \* per client: "new", "connected", "sent" or "done"
    request,    \* per client: what it sends
    told,       \* per client: what it prints, or the error it ends with
    quit,       \* clients that closed their end before they were served
    backlog,    \* connected clients the listener has not accepted, in order
    cur,        \* the client whose stream the listener holds
    lPc,        \* the listener: "accept", "read", "wait" or "ended"
    sweep,      \* the retention task: "sleep", "sweep", "stuck" or "unreadable"
    begun,      \* history: batches begun for the client that is served
    ran         \* history: a batch ran while that client waited

jobVars == <<batch, owed, asked, reply>>
clientVars == <<phase, request, told, quit>>
listenerVars == <<backlog, cur, lPc>>
history == <<begun, ran>>
vars == <<jobVars, main, clientVars, listenerVars, sweep, history>>

Callers == {"listener", "updater"}
Asks == [c \in Callers |->
            IF c = "listener" THEN {"Start", "StatusRequest"} ELSE {"Stop"}]

\* The countdown is not followed here: MoveJob!CountdownRightWhileAsleep.
Job == INSTANCE MoveService WITH NoCaller <- "nobody", MaxSecs <- 0

Answer == reply["listener"].kind

Running == {"scheduled", "explicit"}

-----------------------------------------------------------------------------
(* Requests and answers.  dookiec sends "status" and "move"; "other" is a  *)
(* data type the listener does not support, or a move job request that     *)
(* carries another message; "broken" does not decode or carries none.      *)

Requests == {"status", "move", "other", "broken"}

\* "NoReply": the stream ended or broke off before a reply.
Outcomes == {"none", "Idle", "Running", "Started", "Error", "NoReply"}

Message(r) == IF r = "move" THEN "Start" ELSE "StatusRequest"

\* The status in the envelope of an answer.
Status(kind) ==
    CASE kind = "TimeUntilNextScan" -> "IDLE"
      [] kind = "InProgress" -> "RUNNING"
      [] kind = "Ok" -> "OK"
      [] kind = "Failed" -> "ERROR"

\* What dookiec prints for a status.
Shown(status) ==
    CASE status = "IDLE" -> "Idle"
      [] status = "RUNNING" -> "Running"
      [] status = "OK" -> "Started"
      [] status = "ERROR" -> "Error"

Init ==
    /\ Job!Init
    /\ main = "select"
    /\ phase = [c \in Clients |-> "new"]
    /\ request = [c \in Clients |-> "status"]
    /\ told = [c \in Clients |-> "none"]
    /\ quit = {}
    /\ backlog = <<>>
    /\ cur = NoClient
    /\ lPc = "accept"
    /\ sweep = "sleep"
    /\ begun = 0
    /\ ran = FALSE

-----------------------------------------------------------------------------
(* The clients.                                                            *)

Up == main # "over"

Listening == lPc \notin {"ended", "dropped"}

Open(c) == phase[c] \in {"connected", "sent"}

\* Nobody listens any more otherwise: connect is an error.
Connect(c, r) ==
    /\ Listening
    /\ phase[c] = "new"
    /\ phase' = [phase EXCEPT ![c] = "connected"]
    /\ request' = [request EXCEPT ![c] = r]
    /\ backlog' = Append(backlog, c)
    /\ UNCHANGED <<jobVars, main, told, quit, cur, lPc, sweep, history>>

Send(c) ==
    /\ phase[c] = "connected"
    /\ c \notin quit
    /\ phase' = [phase EXCEPT ![c] = "sent"]
    /\ UNCHANGED <<jobVars, main, request, told, quit, listenerVars, sweep, history>>

\* The client ends: the server finds it out when it reads or writes.
Quit(c) ==
    /\ Open(c)
    /\ c \notin quit
    /\ quit' = quit \cup {c}
    /\ UNCHANGED <<jobVars, main, phase, request, told, listenerVars, sweep, history>>

Client ==
    \E c \in Clients : (\E r \in Requests : Connect(c, r)) \/ Send(c) \/ Quit(c)

\* The server closes the streams of S: each of these clients, if it is still
\* there, is told o.
Close(S, o) ==
    /\ phase' = [c \in Clients |-> IF c \in S THEN "done" ELSE phase[c]]
    /\ told' = [c \in Clients |->
                   IF c \in S THEN (IF c \in quit THEN "NoReply" ELSE o) ELSE told[c]]
    /\ quit' = quit \ S
    /\ UNCHANGED request

-----------------------------------------------------------------------------
(* The listener.                                                           *)

\* The task ends: the socket goes, and every stream that waits in it.
EndListener ==
    /\ lPc' = "ended"
    /\ backlog' = <<>>
    /\ Close({c \in Clients : Open(c)}, "NoReply")
    /\ UNCHANGED <<jobVars, main, cur, sweep, history>>

Accept ==
    /\ Up
    /\ lPc = "accept"
    /\ backlog # <<>>
    /\ cur' = Head(backlog)
    /\ backlog' = Tail(backlog)
    /\ lPc' = "read"
    /\ UNCHANGED <<jobVars, main, clientVars, sweep, history>>

\* listener.accept().await?: no descriptor is left, for one.
AcceptFails ==
    /\ Up
    /\ lPc = "accept"
    /\ EndListener

\* Back to accept; the stream of cur is dropped.
NextClient(o) ==
    /\ lPc' = "accept"
    /\ cur' = NoClient
    /\ Close({cur}, o)
    /\ begun' = 0
    /\ ran' = FALSE
    /\ UNCHANGED <<batch, owed, asked, main, backlog, sweep>>

\* stream.readable().await: until the client sends or goes away.
AtRead(sends) ==
    /\ Up
    /\ lPc = "read"
    /\ phase[cur] = "sent" <=> sends
    /\ ~sends => cur \in quit

\* The stream ended before a byte came: continue.
ReadNothing ==
    /\ AtRead(FALSE)
    /\ NextClient("NoReply")
    /\ UNCHANGED reply

\* readable was wrong, and try_read would block: continue, and the stream of a
\* client that is still there is dropped.
ReadBlocked ==
    /\ Up
    /\ lPc = "read"
    /\ phase[cur] = "connected"
    /\ NextClient("NoReply")
    /\ UNCHANGED reply

\* readable().await?, or any other error of try_read, ends the task.
ReadFails ==
    /\ Up
    /\ lPc = "read"
    /\ EndListener

ReadRequest ==
    /\ AtRead(TRUE)
    /\ request[cur] \in {"status", "move"}
    /\ Job!Ask("listener", Message(request[cur]))
    /\ lPc' = "wait"
    /\ ran' = (batch \in Running \cup {"failed"})
    /\ UNCHANGED <<main, clientVars, backlog, cur, sweep, begun>>

\* Mutant of ReadOther: the stream is kept.
ReadOtherLeaks ==
    /\ AtRead(TRUE)
    /\ request[cur] = "other"
    /\ lPc' = "accept"
    /\ cur' = NoClient
    /\ UNCHANGED <<jobVars, main, clientVars, backlog, sweep, history>>

\* Mutant of ReadOther: it waits for an answer nobody was asked for.
ReadOtherWaits ==
    /\ AtRead(TRUE)
    /\ request[cur] = "other"
    /\ lPc' = "wait"
    /\ UNCHANGED <<jobVars, main, clientVars, backlog, cur, sweep, history>>

\* Continue without a reply, or an empty envelope, of which no byte is written.
ReadOther ==
    /\ AtRead(TRUE)
    /\ request[cur] = "other"
    /\ NextClient("NoReply")
    /\ UNCHANGED reply

\* Envelope::decode(..)? and ok_or("no data")? end the task.
ReadBroken ==
    /\ AtRead(TRUE)
    /\ request[cur] = "broken"
    /\ EndListener

Answered == Up /\ lPc = "wait" /\ Answer \notin {"none", "pending"}

\* The oneshot is used up.
TakeAnswer == reply' = [reply EXCEPT !["listener"] = Job!Told("none")]

\* Mutant of Respond: the answer of another client's call is kept.
RespondStarted ==
    /\ Answered
    /\ Answer # "dropped"
    /\ NextClient(IF Answer = "Failed" THEN "Error" ELSE "Started")
    /\ TakeAnswer

\* A failed write is logged and nothing else.
Respond ==
    /\ Answered
    /\ Answer # "dropped"
    /\ NextClient(Shown(Status(Answer)))
    /\ TakeAnswer

\* send(..).await? or receiver.await?: the front desk is gone.
DeskGone ==
    /\ Answered
    /\ Answer = "dropped"
    /\ EndListener

Serve ==
    \/ Accept \/ ReadNothing \/ ReadRequest \/ ReadOther \/ ReadBroken
    \/ Respond \/ DeskGone

Listener == Serve \/ AcceptFails \/ ReadBlocked \/ ReadFails

-----------------------------------------------------------------------------
(* The move job, and what of it the client that waits may be told.         *)

Note == ran' = (ran \/ (lPc = "wait" /\ batch' \in Running \cup {"failed"}))

JobBegins ==
    /\ Up
    /\ Job!BeginExplicit("listener")
    /\ begun' = begun + 1
    /\ Note
    /\ UNCHANGED <<main, clientVars, listenerVars, sweep>>

JobAnswers ==
    /\ Up
    /\ Job!Refuse("listener") \/ Job!Countdown("listener") \/ Job!Grant \/ Job!Abandon
    /\ Note
    /\ UNCHANGED <<main, clientVars, listenerVars, sweep, begun>>

JobEnds ==
    /\ Up
    /\ Job!EndBatch
    /\ UNCHANGED <<main, clientVars, listenerVars, sweep, history>>

JobHalts ==
    /\ Up
    /\ Job!Halt("updater")
    /\ UNCHANGED <<main, clientVars, listenerVars, sweep, history>>

JobRuns ==
    \/ /\ Up
       /\ Job!BeginScheduled \/ Job!Fail
       /\ Note
       /\ UNCHANGED <<main, clientVars, listenerVars, sweep, begun>>
    \/ JobEnds \/ JobHalts

-----------------------------------------------------------------------------
(* Log retention.  Which files it keeps or removes concerns nobody else.   *)

Sweep(from, to) ==
    /\ Up
    /\ sweep = from
    /\ sweep' = to
    /\ UNCHANGED <<jobVars, main, clientVars, listenerVars, history>>

SweepBegin == Sweep("sleep", "sweep")

\* read_dir(&path).await?
SweepBeginFails == Sweep("sleep", "unreadable")

\* metadata(..).await? of an entry that is gone since it was listed, and
\* remove_file(..).await? of a directory over a week old.
SweepStuck == Sweep("sweep", "stuck")

\* No entry is left, or the stream of entries fails: another day of sleep.
SweepEnd == Sweep("sweep", "sleep")

Retention == SweepBegin \/ SweepBeginFails \/ SweepStuck \/ SweepEnd

-----------------------------------------------------------------------------
(* main.                                                                   *)

\* The process ends or is replaced, its tasks and descriptors with it.
Over ==
    /\ main' = "over"
    /\ lPc' = "dropped"
    /\ cur' = NoClient
    /\ backlog' = <<>>
    /\ Close({c \in Clients : Open(c)}, "NoReply")
    /\ sweep' = "dropped"
    /\ begun' = 0
    /\ ran' = FALSE
    /\ UNCHANGED jobVars

\* A task main would poll has ended.
Dead ==
    \/ lPc = "ended"
    \/ sweep \in {"stuck", "unreadable"}
    \/ batch = "failed"

\* Mutant of TaskEnded: the listener is spawned and not polled.
TaskEndedUnpolled ==
    /\ main = "select"
    /\ sweep \in {"stuck", "unreadable"} \/ batch = "failed"
    /\ Over

\* The select sees the end of a task it polls.
TaskEnded ==
    /\ main = "select"
    /\ Dead
    /\ Over

\* The scan job or the Discord bot, for reasons of their own.
OtherTaskEnded ==
    /\ main = "select"
    /\ Over

\* A verified update: from here on the select polls no task any more.
UpdateReady ==
    /\ main = "select"
    /\ Job!Ask("updater", "Stop")
    /\ main' = "stopping"
    /\ UNCHANGED <<clientVars, listenerVars, sweep, history>>

\* Ok: the update is installed and another server replaces this one.
\* Anything else: run returns an error.
Replaced ==
    /\ main = "stopping"
    /\ reply["updater"].kind # "pending"
    /\ Over

Main == TaskEnded \/ OtherTaskEnded \/ UpdateReady \/ Replaced

Next ==
    Client \/ Listener \/ JobBegins \/ JobAnswers \/ JobRuns \/ Retention \/ Main

Spec == Init /\ [][Next]_vars

(***************************************************************************)
(* Fairness.  The runtime polls the listener, and the move job answers its *)
(* callers, the Stop of the updater included (MoveJob!EveryCallAnswered,   *)
(* with batches that end); main polls its select, or awaits that answer.   *)
(* A client that has connected sends or goes away, as dookiec does: the    *)
(* listener has no timeout, and one that does neither holds up all others. *)
(***************************************************************************)
Progress ==
    /\ WF_vars(Serve)
    /\ WF_vars(JobBegins \/ JobAnswers)
    /\ WF_vars(JobEnds) /\ SF_vars(JobHalts)
    /\ WF_vars(TaskEnded \/ Replaced)
    /\ \A c \in Clients : WF_vars(Send(c) \/ Quit(c))

FairSpec == Spec /\ Progress

-----------------------------------------------------------------------------
(* Properties.                                                             *)

\* Every variable holds a value of its type, and the listener holds a stream
\* that is open exactly while it reads or waits (listener.rs:225-287).
TypeOK ==
    /\ batch \in {"none", "scheduled", "explicit", "halted", "failed"}
    /\ owed \in Callers \cup {"nobody"}
    /\ asked \in [Callers -> {"Start", "StatusRequest", "Stop"}]
    /\ reply \in [Callers -> Job!Replies]
    /\ main \in {"select", "stopping", "over"}
    /\ phase \in [Clients -> {"new", "connected", "sent", "done"}]
    /\ request \in [Clients -> Requests]
    /\ told \in [Clients -> Outcomes]
    /\ quit \subseteq Clients
    /\ backlog \in Seq(Clients)
    /\ cur \in Clients \cup {NoClient}
    /\ lPc \in {"accept", "read", "wait", "ended", "dropped"}
    /\ lPc \in {"read", "wait"} => cur # NoClient /\ Open(cur)
    /\ \A c \in Clients : Open(c) => c = cur \/ c \in ToSet(backlog)
    /\ sweep \in {"sleep", "sweep", "stuck", "unreadable", "dropped"}
    /\ begun \in Nat
    /\ ran \in BOOLEAN

\* What dookiec prints is true of its own request, whatever the other clients
\* asked (listener.rs:249-274): "started" stands for exactly one batch, begun
\* for this client, which asked for it; "running" for a batch, or a failed job,
\* while it waited; "idle" is never said to a move.
AnswersAreTrue ==
    [][ \A c \in Clients : told'[c] # told[c] =>
          /\ told'[c] = "Started" => request[c] = "move" /\ c = cur /\ begun = 1
          /\ told'[c] = "Running" => ran /\ begun = 0
          /\ told'[c] = "Idle" => request[c] = "status" /\ begun = 0 ]_vars

\* The server never lives on without a task that has ended, be it the listener
\* for an error of one client's stream (listener.rs:228-245), log retention or the
\* move job: the process ends for launchd to start another, or an update replaces
\* it, which does not see the end while it waits for the move job (main.rs:107-150).
DeadTasksEndServer == Dead ~> main = "over"

\* Every client that has sent a request gets an answer, or the end of its
\* stream, though the listener serves one at a time (listener.rs:221-287).
EveryClientServed == \A c \in Clients : phase[c] = "sent" ~> phase[c] = "done"
===============================================================================
