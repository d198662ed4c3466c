------------------------------- MODULE MoveJob -------------------------------
(***************************************************************************)
(* The move job of dookie_server (src/server/src/lib.rs, mod move_job):    *)
(* the front desk task that answers the other tasks of the server, the     *)
(* worker task that runs the batches of moves, the two channels and the    *)
(* atomic flag between them.                                               *)
(*                                                                         *)
(* One action is one run of a task between two points at which another     *)
(* task can observe it: a store or load of is_moving, a channel operation, *)
(* a write of the timer.  What move_dir does to the files is the subject   *)
(* of module MoveFiles; here a call of it is one step that may take time.    *)
(***************************************************************************)
EXTENDS Integers, SequencesExt

CONSTANTS
    Callers,        \* the tasks that hold a clone of front_desk_sender
    Asks,           \* what each of them sends: [Callers -> SUBSET Messages]
    NoCaller,       \* the front desk serves nobody
    Period,         \* config.move_job_period, in seconds
    Word,           \* 2^64 in the code: the modulus of the u64 subtraction
    Pairs,          \* number of entries of move_map
    MaxOld,         \* bound: entries older than age_threshold in one batch
    MaxElapsed,     \* bound: the largest age of the timer
    QueueCap,       \* capacity of both mpsc channels (100 in the code)
    OverflowChecks, \* TRUE: a build that panics on overflow (dev profile)
    Punctual        \* TRUE: time passes only in a sleep or in a move

Messages == {"Start", "StatusRequest", "Stop"}

ASSUME CallersAssumption ==
    /\ NoCaller \notin Callers
    /\ Asks \in [Callers -> SUBSET Messages]

ASSUME NumbersAssumption ==
    /\ Period \in Nat
    /\ Word \in Nat \ {0}
    /\ Period < Word
    /\ Pairs \in Nat
    /\ MaxOld \in Nat
    /\ MaxElapsed \in Nat
    /\ QueueCap \in Nat \ {0}

ASSUME BuildAssumption == OverflowChecks \in BOOLEAN /\ Punctual \in BOOLEAN

VARIABLES
    isMoving,   \* the AtomicBool both tasks share
    elapsed,    \* timer.elapsed().as_secs(): the age of the shared timer
    fdQueue,    \* front_desk channel: callers, oldest first
    moveQueue,  \* move channel: messages, oldest first
    ack,        \* the oneshot of the message forwarded last
    fdPc,       \* where the front desk task is
    serving,    \* the caller whose message the front desk handles
    wPc,        \* where the worker task is
    left,       \* calls of move_dir the batch still has to make
    asked,      \* per caller: its last message
    reply       \* per caller: what its oneshot holds

vars == <<isMoving, elapsed, fdQueue, moveQueue, ack, fdPc, serving, wPc,
          left, asked, reply>>

fdVars == <<fdQueue, fdPc, serving>>
workerVars == <<wPc, left>>
callVars == <<asked, reply>>

-----------------------------------------------------------------------------
(* Replies.  "none": never asked.  "pending": the oneshot is open.         *)
(* "dropped": its sender was dropped, receiver.await is an error.          *)

Plain(k) == [kind |-> k, secs |-> 0]
TimeLeft(n) == [kind |-> "TimeUntilNextScan", secs |-> n]

Kinds == {"none", "pending", "dropped", "InProgress", "Ok", "Failed",
          "TimeUntilNextScan"}
Reply == [kind : Kinds, secs : 0 .. Word - 1]

Pending(c) == reply[c].kind = "pending"
Answer(c, r) == reply' = [reply EXCEPT ![c] = r]

FdEnded == fdPc \in {"done", "dead"}
WorkerEnded == wPc \in {"done", "failed"}

ScheduledPcs == {"survey", "copy"}
ExplicitPcs == {"ack", "explicit"}
BatchRunning == wPc \in ScheduledPcs \cup ExplicitPcs

Waiting == ToSet(fdQueue)

Init ==
    /\ isMoving = FALSE
    /\ elapsed = 0
    /\ fdQueue = <<>>
    /\ moveQueue = <<>>
    /\ ack = "none"
    /\ fdPc = "recv"
    /\ serving = NoCaller
    /\ wPc = "start"
    /\ left = 0
    /\ asked = [c \in Callers |-> "StatusRequest"]
    /\ reply = [c \in Callers |-> Plain("none")]

-----------------------------------------------------------------------------
(* The callers: the listener, the scan job and the updater.  Each awaits   *)
(* its reply before it sends again; after an error of send or receive the  *)
(* task returns, and nobody sends after a Stop.                            *)

CanAsk(c, m) ==
    /\ m \in Asks[c]
    /\ reply[c].kind \notin {"pending", "dropped"}
    /\ reply[c].kind # "none" => asked[c] # "Stop"

Ask(c, m) ==
    /\ CanAsk(c, m)
    /\ ~FdEnded
    /\ Len(fdQueue) < QueueCap
    /\ fdQueue' = Append(fdQueue, c)
    /\ asked' = [asked EXCEPT ![c] = m]
    /\ Answer(c, Plain("pending"))
    /\ UNCHANGED <<isMoving, elapsed, moveQueue, ack, fdPc, serving, workerVars>>

\* front_desk_sender.send(..).await? fails: the receiver is gone.
AskClosed(c, m) ==
    /\ CanAsk(c, m)
    /\ FdEnded
    /\ asked' = [asked EXCEPT ![c] = m]
    /\ Answer(c, Plain("dropped"))
    /\ UNCHANGED <<isMoving, elapsed, moveQueue, ack, fdVars, workerVars>>

-----------------------------------------------------------------------------
(* The front desk task.                                                    *)

\* Mutant of EndFrontDesk: the receiver is kept, and the queue in it.
EndFrontDeskKeepsQueue(pc, answers) ==
    /\ fdPc' = pc
    /\ serving' = NoCaller
    /\ Answer(serving, answers)
    /\ UNCHANGED fdQueue

\* It ends: its receiver goes, with the reply channel of every queued caller
\* and, when it did not answer, that of the caller it serves.
EndFrontDesk(pc, answers) ==
    /\ fdPc' = pc
    /\ fdQueue' = <<>>
    /\ serving' = NoCaller
    /\ reply' = [c \in Callers |->
                    IF c \in Waiting THEN Plain("dropped")
                    ELSE IF c = serving THEN answers
                    ELSE reply[c]]

FdReceive(c) ==
    /\ fdPc = "recv"
    /\ fdQueue # <<>>
    /\ c = Head(fdQueue)
    /\ fdQueue' = Tail(fdQueue)
    /\ UNCHANGED <<isMoving, elapsed, moveQueue, ack, workerVars, asked>>

\* Mutant of FdBusy: a Start is accepted though the flag is set.
FdBusyAccepts(c) ==
    /\ FdReceive(c)
    /\ asked[c] \in {"Start", "StatusRequest"}
    /\ isMoving
    /\ Answer(c, Plain(IF asked[c] = "Start" THEN "Ok" ELSE "InProgress"))
    /\ UNCHANGED <<fdPc, serving>>

\* Start or StatusRequest while the flag is set.
FdBusy(c) ==
    /\ FdReceive(c)
    /\ asked[c] \in {"Start", "StatusRequest"}
    /\ isMoving
    /\ Answer(c, Plain("InProgress"))
    /\ UNCHANGED <<fdPc, serving>>

\* StatusRequest, flag clear: the timer is read after the flag.
FdStatus(c) ==
    /\ FdReceive(c)
    /\ asked[c] = "StatusRequest"
    /\ ~isMoving
    /\ fdPc' = "timer"
    /\ serving' = c
    /\ UNCHANGED reply

\* Start with the flag clear, or Stop whatever the flag.
FdCommand(c) ==
    /\ FdReceive(c)
    /\ \/ asked[c] = "Start" /\ ~isMoving
       \/ asked[c] = "Stop"
    /\ fdPc' = "forward"
    /\ serving' = c
    /\ UNCHANGED reply

\* Mutant of Countdown: no wrap around 2^64.
CountdownSigned == Period - elapsed

\* move_job_period - elapsed, on u64.
Countdown == (Period - elapsed) % Word

FdTimer ==
    /\ fdPc = "timer"
    /\ ~(OverflowChecks /\ elapsed > Period)
    /\ fdPc' = "recv"
    /\ serving' = NoCaller
    /\ Answer(serving, TimeLeft(Countdown))
    /\ UNCHANGED <<isMoving, elapsed, fdQueue, moveQueue, ack, workerVars, asked>>

\* attempt to subtract with overflow: the task panics.
FdPanic ==
    /\ fdPc = "timer"
    /\ OverflowChecks
    /\ elapsed > Period
    /\ EndFrontDesk("dead", Plain("dropped"))
    /\ UNCHANGED <<isMoving, elapsed, moveQueue, ack, workerVars, asked>>

\* Mutant of FdForward: a Stop is answered once it is queued.
FdForwardStopNow ==
    /\ fdPc = "forward"
    /\ ~WorkerEnded
    /\ Len(moveQueue) < QueueCap
    /\ moveQueue' = Append(moveQueue, asked[serving])
    /\ ack' = "none"
    /\ IF asked[serving] = "Stop"
          THEN EndFrontDesk("done", Plain("Ok"))
          ELSE fdPc' = "await" /\ UNCHANGED <<fdQueue, serving, reply>>
    /\ UNCHANGED <<isMoving, elapsed, workerVars, asked>>

FdForward ==
    /\ fdPc = "forward"
    /\ ~WorkerEnded
    /\ Len(moveQueue) < QueueCap
    /\ moveQueue' = Append(moveQueue, asked[serving])
    /\ ack' = "none"
    /\ fdPc' = "await"
    /\ UNCHANGED <<isMoving, elapsed, fdQueue, serving, workerVars, callVars>>

\* move_sender.send is an error: the caller's oneshot is dropped unanswered.
FdForwardClosed ==
    /\ fdPc = "forward"
    /\ WorkerEnded
    /\ fdPc' = "recv"
    /\ serving' = NoCaller
    /\ Answer(serving, Plain("dropped"))
    /\ UNCHANGED <<isMoving, elapsed, fdQueue, moveQueue, ack, workerVars, asked>>

\* Mutant of FdStarted: the loop is left, as after a Stop.
FdStartedBreaks ==
    /\ fdPc = "await"
    /\ asked[serving] = "Start"
    /\ ack = "Ok"
    /\ EndFrontDesk("done", Plain("Ok"))
    /\ UNCHANGED <<isMoving, elapsed, moveQueue, ack, workerVars, asked>>

FdStarted ==
    /\ fdPc = "await"
    /\ asked[serving] = "Start"
    /\ ack = "Ok"
    /\ fdPc' = "recv"
    /\ serving' = NoCaller
    /\ Answer(serving, Plain("Ok"))
    /\ UNCHANGED <<isMoving, elapsed, fdQueue, moveQueue, ack, workerVars, asked>>

\* oneshot_receiver.await? on a Start: the error ends the front desk.
FdStartLost ==
    /\ fdPc = "await"
    /\ asked[serving] = "Start"
    /\ ack = "dropped"
    /\ EndFrontDesk("dead", Plain("dropped"))
    /\ UNCHANGED <<isMoving, elapsed, moveQueue, ack, workerVars, asked>>

FdStopped ==
    /\ fdPc = "await"
    /\ asked[serving] = "Stop"
    /\ ack = "Ok"
    /\ EndFrontDesk("done", Plain("Ok"))
    /\ UNCHANGED <<isMoving, elapsed, moveQueue, ack, workerVars, asked>>

FdStopLost ==
    /\ fdPc = "await"
    /\ asked[serving] = "Stop"
    /\ ack = "dropped"
    /\ fdPc' = "recv"
    /\ serving' = NoCaller
    /\ Answer(serving, Plain("Failed"))
    /\ UNCHANGED <<isMoving, elapsed, fdQueue, moveQueue, ack, workerVars, asked>>

FrontDesk ==
    \/ \E c \in Callers : FdBusy(c) \/ FdStatus(c) \/ FdCommand(c)
    \/ FdTimer \/ FdPanic \/ FdForward \/ FdForwardClosed
    \/ FdStarted \/ FdStartLost \/ FdStopped \/ FdStopLost

-----------------------------------------------------------------------------
(* The worker task.                                                        *)

WBegin ==
    /\ wPc = "start"
    /\ isMoving' = TRUE
    /\ wPc' = "survey"
    /\ UNCHANGED <<elapsed, moveQueue, ack, fdVars, left, callVars>>

\* The disk is full: every pair is moved whole.  Otherwise the old entries
\* are moved one by one.
WSurvey ==
    /\ wPc = "survey"
    /\ left' \in {Pairs} \cup 0 .. MaxOld
    /\ wPc' = "copy"
    /\ UNCHANGED <<isMoving, elapsed, moveQueue, ack, fdVars, callVars>>

\* No disk (expect), or an unreadable source (the ? operators): the task ends,
\* and its receiver with the oneshots queued in it.
WSurveyFails ==
    /\ wPc = "survey"
    /\ wPc' = "failed"
    /\ moveQueue' = <<>>
    /\ ack' = IF moveQueue # <<>> THEN "dropped" ELSE ack
    /\ UNCHANGED <<isMoving, elapsed, fdVars, left, callVars>>

\* One call of move_dir; an error of it is logged and the batch goes on.
WMove ==
    /\ wPc \in {"copy", "explicit"}
    /\ left > 0
    /\ left' = left - 1
    /\ UNCHANGED <<isMoving, elapsed, moveQueue, ack, fdVars, wPc, callVars>>

WBatchEnd ==
    /\ wPc = "copy"
    /\ left = 0
    /\ isMoving' = FALSE
    /\ wPc' = "rearm"
    /\ UNCHANGED <<elapsed, moveQueue, ack, fdVars, left, callVars>>

\* Mutant of WRearm: the timer is not written.
WRearmForgotten ==
    /\ wPc = "rearm"
    /\ wPc' = "select"
    /\ UNCHANGED <<isMoving, elapsed, moveQueue, ack, fdVars, left, callVars>>

WRearm ==
    /\ wPc = "rearm"
    /\ elapsed' = 0
    /\ wPc' = "select"
    /\ UNCHANGED <<isMoving, moveQueue, ack, fdVars, left, callVars>>

\* Mutant of WWake: no sleep branch, only a message ends the wait.
WWakeOnMessage ==
    /\ wPc = "select"
    /\ elapsed >= Period
    /\ moveQueue # <<>>
    /\ wPc' = "start"
    /\ UNCHANGED <<isMoving, elapsed, moveQueue, ack, fdVars, left, callVars>>

\* The sleep branch.  The sleep began when the timer was written.
WWake ==
    /\ wPc = "select"
    /\ elapsed >= Period
    /\ wPc' = "start"
    /\ UNCHANGED <<isMoving, elapsed, moveQueue, ack, fdVars, left, callVars>>

\* recv() is None once the front desk has dropped move_sender: the loop runs
\* again without having slept.
WClosed ==
    /\ wPc = "select"
    /\ FdEnded
    /\ moveQueue = <<>>
    /\ wPc' = "start"
    /\ UNCHANGED <<isMoving, elapsed, moveQueue, ack, fdVars, left, callVars>>

WTakeStart ==
    /\ wPc = "select"
    /\ moveQueue # <<>>
    /\ Head(moveQueue) = "Start"
    /\ moveQueue' = Tail(moveQueue)
    /\ isMoving' = TRUE
    /\ wPc' = "ack"
    /\ UNCHANGED <<elapsed, ack, fdVars, left, callVars>>

\* Mutant of WAck: the copies come before the acknowledgement.
WAckLater ==
    /\ wPc = "ack"
    /\ left' = Pairs
    /\ wPc' = "explicit"
    /\ UNCHANGED <<isMoving, elapsed, moveQueue, ack, fdVars, callVars>>

\* The Ok is sent before the first file is copied.
WAck ==
    /\ wPc = "ack"
    /\ ack' = "Ok"
    /\ left' = Pairs
    /\ wPc' = "explicit"
    /\ UNCHANGED <<isMoving, elapsed, moveQueue, fdVars, callVars>>

\* Mutant of WExplicitEnd: the flag stays set.
WExplicitEndNoReset ==
    /\ wPc = "explicit"
    /\ left = 0
    /\ wPc' = "start"
    /\ UNCHANGED <<isMoving, elapsed, moveQueue, ack, fdVars, left, callVars>>

\* The timer is not written here: the loop goes straight to a scheduled batch.
WExplicitEnd ==
    /\ wPc = "explicit"
    /\ left = 0
    /\ isMoving' = FALSE
    /\ wPc' = "start"
    /\ UNCHANGED <<elapsed, moveQueue, ack, fdVars, left, callVars>>

WTakeStop ==
    /\ wPc = "select"
    /\ moveQueue # <<>>
    /\ Head(moveQueue) = "Stop"
    /\ moveQueue' = <<>>
    /\ ack' = "Ok"
    /\ wPc' = "done"
    /\ UNCHANGED <<isMoving, elapsed, fdVars, left, callVars>>

Worker ==
    \/ WBegin \/ WSurvey \/ WSurveyFails \/ WMove \/ WBatchEnd \/ WRearm
    \/ WWake \/ WClosed \/ WTakeStart \/ WAck \/ WExplicitEnd \/ WTakeStop

-----------------------------------------------------------------------------
(* Time.  When Punctual, a task that can run does so within the second:    *)
(* the clock moves only while the worker sleeps before its deadline or     *)
(* copies, and never between the two loads of a status request.            *)

Tick ==
    /\ elapsed < MaxElapsed
    /\ Punctual => /\ \/ wPc = "select" /\ elapsed < Period
                      \/ wPc \in {"copy", "explicit"} /\ left > 0
                      \/ WorkerEnded
                   /\ fdPc # "timer"
    /\ elapsed' = elapsed + 1
    /\ UNCHANGED <<isMoving, moveQueue, ack, fdVars, workerVars, callVars>>

Next ==
    \/ \E c \in Callers, m \in Messages : Ask(c, m) \/ AskClosed(c, m)
    \/ FrontDesk
    \/ Worker
    \/ Tick

Spec == Init /\ [][Next]_vars

(***************************************************************************)
(* Fairness.  The runtime polls every task that is ready and the clock     *)
(* goes on (SF: its guard excludes instants, not its progress).            *)
(* tokio::select! polls its branches from a random one on, so a message    *)
(* that is ready again and again is taken: strong fairness.                *)
(* A call of move_dir ends (WMove) only under CopyEnds: nothing in the     *)
(* code bounds how long a copy takes.                                      *)
(***************************************************************************)
WorkerProgress ==
    /\ WF_vars(WBegin) /\ WF_vars(WSurvey) /\ WF_vars(WBatchEnd)
    /\ WF_vars(WRearm) /\ WF_vars(WWake) /\ WF_vars(WClosed)
    /\ WF_vars(WAck) /\ WF_vars(WExplicitEnd)
    /\ SF_vars(WTakeStart) /\ SF_vars(WTakeStop)

Progress == WF_vars(FrontDesk) /\ WorkerProgress /\ SF_vars(Tick)

CopyEnds == WF_vars(WMove)

FairSpec == Spec /\ Progress /\ CopyEnds

-----------------------------------------------------------------------------
(* Properties.                                                             *)

Optional(S, x) == S \cup {x}

\* Every variable holds a value of its type; in particular the u64 of a
\* countdown stays below 2^64 whatever the subtraction of lib.rs:233 does.
TypeOK ==
    /\ isMoving \in BOOLEAN
    /\ elapsed \in 0 .. MaxElapsed
    /\ fdQueue \in Seq(Callers)
    /\ moveQueue \in Seq(Messages)
    /\ ack \in {"none", "Ok", "dropped"}
    /\ fdPc \in {"recv", "timer", "forward", "await", "done", "dead"}
    /\ serving \in Optional(Callers, NoCaller)
    /\ wPc \in {"start", "survey", "copy", "rearm", "select", "ack",
                "explicit", "done", "failed"}
    /\ left \in Nat
    /\ asked \in [Callers -> Messages]
    /\ reply \in [Callers -> Reply]

\* The flag the front desk answers from is set exactly while a batch runs; a
\* worker that failed leaves it set for ever (lib.rs:272, 347, 357, 382).
FlagTruthful == wPc # "failed" => (isMoving <=> BatchRunning)

\* Ok to a Stop means that the worker is gone, between two batches: the
\* updater replaces the process on it (main.rs:124).
StopMeansQuiet ==
    \A c \in Callers :
        asked[c] = "Stop" /\ reply[c].kind = "Ok" => wPc = "done" /\ ~isMoving

\* No caller is forgotten: one that waits is in the queue, once, or is the one
\* the front desk serves (the oneshot senders of lib.rs:208-256).
NoOrphanCall ==
    /\ \A c \in Callers : Pending(c) <=> c \in Optional(Waiting, serving)
    /\ IsInjective(fdQueue)
    /\ serving \notin Waiting

\* The front desk waits for each answer, so the move channel holds at most the
\* message it waits for: send() never blocks on the capacity (lib.rs:217, 242).
OneInFlight ==
    /\ Len(moveQueue) <= 1
    /\ moveQueue # <<>> => /\ fdPc = "await"
                           /\ Head(moveQueue) = asked[serving]
                           /\ ack = "none"

\* A Start never waits out the explicit batch of another Start, because the
\* worker acknowledges before it copies (lib.rs:358-360).
ExplicitBatchFreesDesk ==
    wPc = "explicit" /\ fdPc \in {"forward", "await"} /\ asked[serving] = "Start"
        => fdPc = "await" /\ ack = "Ok"

\* The discipline of the front desk: no call is lost, one message at a time is
\* on its way to the worker, and no client waits for a batch of its own request
\* (lib.rs:207-258).
DeskDiscipline == NoOrphanCall /\ OneInFlight /\ ExplicitBatchFreesDesk

\* In a build without overflow checks the front desk never dies under a live
\* worker, which would then run batch after batch without its sleep
\* (lib.rs:218 against 350-353).
DeskOutlivesWorker == ~OverflowChecks /\ FdEnded => WorkerEnded

\* The countdown is right whenever the worker sleeps: the subtraction wraps only
\* while the timer is that of an earlier batch, which is between the store of
\* the flag and the write of the timer (lib.rs:347-348) and between an explicit
\* batch and the scheduled one that follows it (lib.rs:382 to 272).
CountdownRightWhileAsleep ==
    [][ Punctual /\ wPc = "select" =>
        \A c \in Callers :
            Pending(c) /\ reply'[c].kind = "TimeUntilNextScan"
                => reply'[c].secs + elapsed = Period ]_vars

\* Every request is answered or its oneshot is dropped, when copies end.
EveryCallAnswered == \A c \in Callers : Pending(c) ~> ~Pending(c)

\* The scheduled batches go on until the job ends, whatever is asked.
ScheduledBatchesRecur == []<>(wPc = "survey" \/ WorkerEnded)

-----------------------------------------------------------------------------
(* What the repository says and the code does not do.                      *)

\* README.md:34, the status shows "the time until its next scheduled run",
\* which lib.rs:1538 asserts to be at most the period.
CountdownWithinPeriod ==
    \A c \in Callers : reply[c].kind = "TimeUntilNextScan" => reply[c].secs <= Period

-----------------------------------------------------------------------------
(* The implementation of MoveService, in a build without overflow checks.  *)

AbstractBatch ==
    CASE wPc \in ScheduledPcs -> "scheduled"
      [] wPc \in ExplicitPcs -> "explicit"
      [] wPc = "done" -> "halted"
      [] wPc = "failed" -> "failed"
      [] OTHER -> "none"

\* Granted and not yet relayed.
Granted == fdPc = "await" /\ (ack = "Ok" \/ wPc = "ack")

Service == INSTANCE MoveService WITH
    batch <- AbstractBatch,
    owed <- IF Granted THEN serving ELSE NoCaller,
    MaxSecs <- Word - 1

\* Each answer the callers get is one that MoveService allows.
Implements == Service!Spec
=============================================================================
