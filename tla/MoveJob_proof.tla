---------------------------- MODULE MoveJob_proof ----------------------------
(* Safety of the move job for any callers, any period, any capacity and any *)
(* number of moves in a batch, in both builds and with or without lag.      *)
EXTENDS MoveJob, TLAPS, SequenceTheorems

USE CallersAssumption, NumbersAssumption, BuildAssumption

-----------------------------------------------------------------------------
(* The queue as a set.                                                     *)

\* A caller joins the queue: nobody else moves, and no caller is in it twice.
LEMMA JoinQueue ==
    ASSUME NEW S, NEW q \in Seq(S), NEW e \in S, IsInjective(q), e \notin ToSet(q)
    PROVE  /\ Append(q, e) \in Seq(S)
           /\ ToSet(Append(q, e)) = ToSet(q) \cup {e}
           /\ IsInjective(Append(q, e))
  <1>1. /\ Append(q, e) \in Seq(S)
        /\ Len(Append(q, e)) = Len(q) + 1
        /\ \A i \in 1 .. Len(q) : Append(q, e)[i] = q[i]
        /\ Append(q, e)[Len(q) + 1] = e
    BY AppendProperties
  <1>2. DOMAIN q = 1 .. Len(q) /\ Len(q) \in Nat
    BY LenProperties
  <1>3. DOMAIN Append(q, e) = 1 .. Len(q) + 1
    BY <1>1, LenProperties
  <1>4. ToSet(Append(q, e)) = ToSet(q) \cup {e}
    BY <1>1, <1>2, <1>3 DEF ToSet
  <1>5. IsInjective(Append(q, e))
    BY <1>1, <1>2, <1>3 DEF IsInjective, ToSet
  <1> QED BY <1>1, <1>4, <1>5

\* The head leaves the queue, and it alone.
LEMMA LeaveQueue ==
    ASSUME NEW S, NEW q \in Seq(S), q # <<>>, IsInjective(q)
    PROVE  /\ Head(q) \in ToSet(q)
           /\ Tail(q) \in Seq(S)
           /\ ToSet(Tail(q)) = ToSet(q) \ {Head(q)}
           /\ IsInjective(Tail(q))
  <1>1. /\ Tail(q) \in Seq(S)
        /\ Len(Tail(q)) = Len(q) - 1
        /\ \A i \in 1 .. Len(Tail(q)) : Tail(q)[i] = q[i + 1]
        /\ Head(q) = q[1]
        /\ Len(q) \in Nat \ {0}
    BY HeadTailProperties, EmptySeq, LenProperties
  <1>2. DOMAIN q = 1 .. Len(q) /\ DOMAIN Tail(q) = 1 .. Len(q) - 1
    BY <1>1, LenProperties
  <1>3. Head(q) \in ToSet(q)
    BY <1>1, <1>2 DEF ToSet
  <1>4. IsInjective(Tail(q))
    BY <1>1, <1>2 DEF IsInjective
  <1>5. ToSet(Tail(q)) \subseteq ToSet(q) \ {Head(q)}
    BY <1>1, <1>2 DEF ToSet, IsInjective
  <1>6. ASSUME NEW x \in ToSet(q) \ {Head(q)} PROVE x \in ToSet(Tail(q))
    <2>1. PICK i \in 1 .. Len(q) : x = q[i] /\ i # 1
      BY <1>1, <1>2, <1>6 DEF ToSet
    <2>2. i - 1 \in 1 .. Len(q) - 1 /\ Tail(q)[i - 1] = x
      BY <1>1, <2>1
    <2> QED BY <1>2, <2>2 DEF ToSet
  <1> QED BY <1>1, <1>3, <1>4, <1>5, <1>6

\* The empty queue holds nobody.
LEMMA EmptyQueue == ToSet(<<>>) = {} /\ IsInjective(<<>>)
  BY DEF ToSet, IsInjective

-----------------------------------------------------------------------------
(* The inductive invariant.  The properties of MoveJob are not inductive by *)
(* themselves: they hold because of where the one message of the front desk *)
(* can be, which Desk and Handshake say.                                    *)

\* The front desk serves a caller exactly when it is inside a message.
Desk ==
    /\ serving = NoCaller <=> fdPc \in {"recv", "done", "dead"}
    /\ fdPc \in {"forward", "await"} => asked[serving] \in {"Start", "Stop"}
    /\ fdPc = "timer" => asked[serving] = "StatusRequest"
    /\ FdEnded => fdQueue = <<>>

\* While it waits, its message is in the queue, in the worker's hands, or
\* answered by ack; what ack says of the worker is still so.
Handshake ==
    /\ moveQueue # <<>> => /\ fdPc = "await"
                           /\ moveQueue = <<asked[serving]>>
                           /\ ack = "none"
                           /\ ~WorkerEnded
    /\ wPc = "ack" => /\ fdPc = "await"
                      /\ asked[serving] = "Start"
                      /\ ack = "none"
                      /\ moveQueue = <<>>
    /\ fdPc = "await" /\ ack = "none" => moveQueue # <<>> \/ wPc = "ack"
    /\ fdPc = "await" /\ ack = "Ok" /\ asked[serving] = "Stop" => wPc = "done"
    /\ fdPc = "await" /\ ack = "dropped" => wPc = "failed"

IInv ==
    /\ TypeOK
    /\ FlagTruthful
    /\ NoOrphanCall
    /\ Desk
    /\ Handshake
    /\ ExplicitBatchFreesDesk
    /\ StopMeansQuiet
    /\ DeskOutlivesWorker

\* The two tasks start with empty queues and no caller.
LEMMA InitInv == Init => IInv
  <1> SUFFICES ASSUME Init PROVE IInv
    OBVIOUS
  <1>a. Plain("none") \in Reply
    BY DEF Plain, Reply, Kinds
  <1>b. fdQueue \in Seq(Callers) /\ moveQueue \in Seq(Messages)
    BY EmptySeq DEF Init
  <1>1. TypeOK
    <2>0. isMoving \in BOOLEAN
      BY DEF Init
    <2>1. elapsed \in 0 .. MaxElapsed /\ left \in Nat
      BY DEF Init
    <2>2. /\ serving \in Optional(Callers, NoCaller)
          /\ asked \in [Callers -> Messages]
      BY DEF Init, Optional, Messages
    <2>3. reply \in [Callers -> Reply]
      BY <1>a DEF Init
    <2> QED BY <1>b, <2>0, <2>1, <2>2, <2>3 DEF Init, TypeOK
  <1>2. NoOrphanCall
    BY EmptyQueue DEF Init, NoOrphanCall, Waiting, Optional, Pending, Plain
  <1>3. FlagTruthful /\ Desk /\ Handshake /\ ExplicitBatchFreesDesk
    BY DEF Init, FlagTruthful, Desk, Handshake, ExplicitBatchFreesDesk, BatchRunning,
           ScheduledPcs, ExplicitPcs, FdEnded
  <1>4. StopMeansQuiet /\ DeskOutlivesWorker
    BY DEF Init, StopMeansQuiet, DeskOutlivesWorker, FdEnded, WorkerEnded, Plain
  <1> QED BY <1>1, <1>2, <1>3, <1>4 DEF IInv

-----------------------------------------------------------------------------
(* A caller asks.                                                          *)

\* A new request enters the queue of a running front desk.
LEMMA AskStep ==
    ASSUME IInv, NEW c \in Callers, NEW m \in Messages, Ask(c, m)
    PROVE  IInv'
  <1> USE DEF IInv
  <1>1. ~Pending(c) /\ c \notin Waiting /\ c # serving /\ ~FdEnded
    BY DEF Ask, CanAsk, Pending, NoOrphanCall, Optional
  <1>2. /\ fdQueue' \in Seq(Callers)
        /\ Waiting' = Waiting \cup {c}
        /\ IsInjective(fdQueue')
    BY <1>1, JoinQueue DEF Ask, TypeOK, NoOrphanCall, Waiting
  <1>3. TypeOK'
    BY <1>2 DEF Ask, TypeOK, Answer, Plain, Reply, Kinds, workerVars
  <1>4. NoOrphanCall'
    BY <1>1, <1>2 DEF Ask, NoOrphanCall, Answer, Pending, Plain, Optional, TypeOK
  <1>5. FlagTruthful' /\ Desk' /\ Handshake' /\ ExplicitBatchFreesDesk'
    BY <1>1 DEF Ask, TypeOK, FlagTruthful, Desk, Handshake, ExplicitBatchFreesDesk,
                BatchRunning, FdEnded, WorkerEnded, workerVars
  <1>6. StopMeansQuiet' /\ DeskOutlivesWorker'
    BY DEF Ask, TypeOK, StopMeansQuiet, DeskOutlivesWorker, FdEnded, WorkerEnded,
           Answer, Plain, workerVars
  <1> QED BY <1>3, <1>4, <1>5, <1>6

\* A request to an ended front desk fails at once.
LEMMA AskClosedStep ==
    ASSUME IInv, NEW c \in Callers, NEW m \in Messages, AskClosed(c, m)
    PROVE  IInv'
  <1> USE DEF IInv
  <1>1. ~Pending(c) /\ c \notin Waiting /\ c # serving /\ FdEnded
    BY DEF AskClosed, CanAsk, Pending, NoOrphanCall, Optional
  <1>2. TypeOK'
    BY DEF AskClosed, TypeOK, Answer, Plain, Reply, Kinds, workerVars, fdVars
  <1>3. NoOrphanCall'
    BY <1>1 DEF AskClosed, NoOrphanCall, Answer, Pending, Plain, Optional, TypeOK, Waiting, fdVars
  <1>4. FlagTruthful' /\ Desk' /\ Handshake' /\ ExplicitBatchFreesDesk'
    BY <1>1 DEF AskClosed, TypeOK, FlagTruthful, Desk, Handshake, ExplicitBatchFreesDesk,
                BatchRunning, FdEnded, WorkerEnded, workerVars, fdVars
  <1>5. StopMeansQuiet' /\ DeskOutlivesWorker'
    BY DEF AskClosed, TypeOK, StopMeansQuiet, DeskOutlivesWorker, FdEnded, WorkerEnded,
           Answer, Plain, workerVars, fdVars
  <1> QED BY <1>2, <1>3, <1>4, <1>5

-----------------------------------------------------------------------------
(* The front desk.                                                         *)

\* What every step that takes a message from the queue has in common: the
\* caller was waiting there, nobody was served, and the others stay.
LEMMA Received ==
    ASSUME IInv, NEW c \in Callers, FdReceive(c)
    PROVE  /\ fdQueue' \in Seq(Callers)
           /\ Waiting' = Waiting \ {c}
           /\ IsInjective(fdQueue')
           /\ c \in Waiting
           /\ serving = NoCaller
           /\ Pending(c)
           /\ moveQueue = <<>>
           /\ wPc # "ack"
  <1> USE DEF IInv
  <1>1. fdQueue \in Seq(Callers) /\ fdQueue # <<>> /\ IsInjective(fdQueue)
    BY DEF TypeOK, NoOrphanCall, FdReceive
  <1>2. /\ fdQueue' \in Seq(Callers)
        /\ Waiting' = Waiting \ {c}
        /\ IsInjective(fdQueue')
        /\ c \in Waiting
    BY <1>1, LeaveQueue DEF FdReceive, Waiting
  <1>3. serving = NoCaller /\ moveQueue = <<>> /\ wPc # "ack"
    BY DEF FdReceive, Desk, Handshake
  <1>4. Pending(c)
    BY <1>2 DEF NoOrphanCall, Optional
  <1> QED BY <1>2, <1>3, <1>4

\* A Start or a status request answered InProgress.
LEMMA FdBusyStep ==
    ASSUME IInv, NEW c \in Callers, FdBusy(c)
    PROVE  IInv'
  <1> USE DEF IInv
  <1>1. FdReceive(c)
    BY DEF FdBusy
  <1>2. TypeOK'
    BY <1>1, Received DEF FdBusy, FdReceive, TypeOK, Answer, Plain, Reply, Kinds, workerVars
  <1>3. NoOrphanCall'
    BY <1>1, Received DEF FdBusy, FdReceive, NoOrphanCall, Answer, Pending, Plain, Optional, TypeOK
  <1>4. FlagTruthful' /\ Desk' /\ Handshake' /\ ExplicitBatchFreesDesk'
    BY <1>1, Received DEF FdBusy, FdReceive, TypeOK, FlagTruthful, Desk, Handshake,
       ExplicitBatchFreesDesk, BatchRunning, FdEnded, WorkerEnded, workerVars
  <1>5. StopMeansQuiet' /\ DeskOutlivesWorker'
    BY <1>1 DEF FdBusy, FdReceive, TypeOK, StopMeansQuiet, DeskOutlivesWorker, FdEnded,
       WorkerEnded, Answer, Plain, workerVars
  <1> QED BY <1>2, <1>3, <1>4, <1>5

\* A message the front desk keeps in hand: the caller moves from the queue to
\* serving, and its oneshot stays open.  A Start gets here with the flag clear,
\* so no explicit batch is under way.
LEMMA FdTakeStep ==
    ASSUME IInv, NEW c \in Callers, FdStatus(c) \/ FdCommand(c)
    PROVE  IInv'
  <1> USE DEF IInv
  <1>1. FdReceive(c) /\ serving' = c /\ reply' = reply
    BY DEF FdStatus, FdCommand
  <1>2. /\ fdPc' \in {"timer", "forward"}
        /\ fdPc' = "forward" => \/ asked[c] = "Stop"
                                \/ asked[c] = "Start" /\ ~isMoving
        /\ fdPc' = "timer" => asked[c] = "StatusRequest"
    BY DEF FdStatus, FdCommand
  <1>3. TypeOK'
    BY <1>1, <1>2, Received DEF FdReceive, TypeOK, Optional, workerVars
  <1>4. NoOrphanCall'
    BY <1>1, Received DEF NoOrphanCall, Pending, Optional
  <1>5. Desk' /\ Handshake'
    BY <1>1, <1>2, Received, CallersAssumption DEF FdReceive, Desk, Handshake, FdEnded,
       WorkerEnded, workerVars
  <1>6. FlagTruthful' /\ ExplicitBatchFreesDesk'
    BY <1>1, <1>2 DEF FdReceive, FlagTruthful, ExplicitBatchFreesDesk, BatchRunning,
       ExplicitPcs, workerVars
  <1>7. StopMeansQuiet' /\ DeskOutlivesWorker'
    BY <1>1, <1>2 DEF FdReceive, StopMeansQuiet, DeskOutlivesWorker, FdEnded, WorkerEnded,
       workerVars
  <1> QED BY <1>3, <1>4, <1>5, <1>6, <1>7

\* The caller being served is a caller, it waits, and it is not in the queue.
LEMMA Served ==
    ASSUME IInv, fdPc \in {"timer", "forward", "await"}
    PROVE  serving \in Callers /\ Pending(serving) /\ serving \notin Waiting
  BY DEF IInv, TypeOK, Desk, NoOrphanCall, Optional

\* The steps that answer the caller being served and go back to the queue.
LEMMA FdAnswerStep ==
    ASSUME IInv,
           FdTimer \/ FdForwardClosed \/ FdStarted \/ FdStopLost
    PROVE  IInv'
  <1> USE DEF IInv
  <1>1. PICK r : /\ r \in Reply
                 /\ r.kind # "pending"
                 /\ r.kind = "Ok" => asked[serving] = "Start"
                 /\ Answer(serving, r)
    <2>1. CASE FdTimer
      <3>1. Countdown \in 0 .. Word - 1
        BY NumbersAssumption DEF Countdown, TypeOK
      <3> WITNESS TimeLeft(Countdown)
      <3> QED BY <2>1, <3>1 DEF FdTimer, TimeLeft, Reply, Kinds
    <2>2. CASE FdForwardClosed
      <3> WITNESS Plain("dropped")
      <3> QED BY <2>2, NumbersAssumption DEF FdForwardClosed, Plain, Reply, Kinds
    <2>3. CASE FdStarted
      <3> WITNESS Plain("Ok")
      <3> QED BY <2>3, NumbersAssumption DEF FdStarted, Plain, Reply, Kinds
    <2>4. CASE FdStopLost
      <3> WITNESS Plain("Failed")
      <3> QED BY <2>4, NumbersAssumption DEF FdStopLost, Plain, Reply, Kinds
    <2> QED BY <2>1, <2>2, <2>3, <2>4
  <1>2. /\ fdPc' = "recv" /\ serving' = NoCaller
        /\ UNCHANGED <<isMoving, elapsed, fdQueue, moveQueue, ack, wPc, left, asked>>
        /\ fdPc \in {"timer", "forward", "await"}
    BY DEF FdTimer, FdForwardClosed, FdStarted, FdStopLost, workerVars
  <1>3. moveQueue = <<>> /\ wPc # "ack"
    BY DEF FdTimer, FdForwardClosed, FdStarted, FdStopLost, Handshake
  <1>4. serving \in Callers /\ Pending(serving) /\ serving \notin Waiting
    BY <1>2, Served
  <1>5. TypeOK'
    BY <1>1, <1>2 DEF TypeOK, Answer, Optional
  <1>6. NoOrphanCall'
    <2>1. Waiting' = Waiting
      BY <1>2 DEF Waiting
    <2>2. ASSUME NEW c \in Callers
          PROVE  Pending(c)' <=> Pending(c) /\ c # serving
      BY <1>1, <1>4 DEF TypeOK, Answer, Pending
    <2>3. \A c \in Callers : Pending(c)' <=> c \in Optional(Waiting', serving')
      BY <1>2, <1>4, <2>1, <2>2, CallersAssumption DEF NoOrphanCall, Optional
    <2>4. serving' \notin Waiting'
      <3>1. Waiting \subseteq Callers
        BY LenProperties DEF TypeOK, Waiting, ToSet
      <3> QED BY <1>2, <2>1, <3>1, CallersAssumption
    <2> QED BY <1>2, <2>3, <2>4 DEF NoOrphanCall
  <1>7. Desk' /\ Handshake' /\ FlagTruthful' /\ ExplicitBatchFreesDesk'
    BY <1>2, <1>3 DEF Desk, Handshake, FlagTruthful, ExplicitBatchFreesDesk, BatchRunning,
                      FdEnded, WorkerEnded
  <1>8. StopMeansQuiet'
    BY <1>1, <1>2, <1>4 DEF TypeOK, StopMeansQuiet, Answer
  <1>9. DeskOutlivesWorker'
    BY <1>2 DEF DeskOutlivesWorker, FdEnded, WorkerEnded
  <1> QED BY <1>5, <1>6, <1>7, <1>8, <1>9

\* The steps that end the front desk: all its callers are let down, but for
\* the one whose Stop was granted by a worker that is gone.
LEMMA FdEndStep ==
    ASSUME IInv, FdPanic \/ FdStartLost \/ FdStopped
    PROVE  IInv'
  <1> USE DEF IInv
  <1>1. PICK r, pc : /\ r \in Reply
                     /\ pc \in {"done", "dead"}
                     /\ r.kind # "pending"
                     /\ r.kind = "Ok" => wPc = "done"
                     /\ EndFrontDesk(pc, r)
    <2>1. CASE FdPanic
      <3> WITNESS Plain("dropped"), "dead"
      <3> QED BY <2>1, NumbersAssumption DEF FdPanic, Plain, Reply, Kinds
    <2>2. CASE FdStartLost
      <3> WITNESS Plain("dropped"), "dead"
      <3> QED BY <2>2, NumbersAssumption DEF FdStartLost, Plain, Reply, Kinds
    <2>3. CASE FdStopped
      <3> WITNESS Plain("Ok"), "done"
      <3> QED BY <2>3, NumbersAssumption DEF FdStopped, Plain, Reply, Kinds, Handshake
    <2> QED BY <2>1, <2>2, <2>3
  <1>2. /\ fdPc \in {"timer", "await"}
        /\ UNCHANGED <<isMoving, elapsed, moveQueue, ack, wPc, left, asked>>
        /\ ~OverflowChecks => WorkerEnded
    BY DEF FdPanic, FdStartLost, FdStopped, workerVars, Handshake, WorkerEnded
  <1>3. moveQueue = <<>> /\ wPc # "ack"
    BY DEF FdPanic, FdStartLost, FdStopped, Handshake
  <1>4. serving \in Callers /\ Pending(serving) /\ serving \notin Waiting
    BY <1>2, Served
  <1>5. /\ fdPc' \in {"done", "dead"} /\ fdQueue' = <<>> /\ serving' = NoCaller
        /\ Waiting' = {}
    BY <1>1, EmptyQueue DEF EndFrontDesk, Waiting
  <1>6. TypeOK'
    <2>1. Plain("dropped") \in Reply
      BY NumbersAssumption DEF Plain, Reply, Kinds
    <2>2. reply' \in [Callers -> Reply]
      BY <1>1, <2>1 DEF EndFrontDesk, TypeOK
    <2>3. fdQueue' \in Seq(Callers)
      BY <1>5, EmptySeq
    <2> QED BY <1>2, <1>5, <2>2, <2>3 DEF TypeOK, Optional
  <1>7. NoOrphanCall'
    <2>1. ASSUME NEW c \in Callers PROVE ~Pending(c)'
      BY <1>1, <1>4 DEF EndFrontDesk, Pending, Plain, NoOrphanCall, Optional
    <2> QED BY <1>5, <2>1, EmptyQueue, CallersAssumption DEF NoOrphanCall, Optional, Waiting
  <1>8. Desk' /\ Handshake' /\ FlagTruthful' /\ ExplicitBatchFreesDesk'
    BY <1>2, <1>3, <1>5 DEF Desk, Handshake, FlagTruthful, ExplicitBatchFreesDesk,
                            BatchRunning, FdEnded, WorkerEnded
  <1>9. StopMeansQuiet'
    <2>1. ASSUME NEW c \in Callers, asked'[c] = "Stop", reply'[c].kind = "Ok"
          PROVE  wPc = "done"
      <3>1. CASE c = serving
        BY <1>1, <1>4, <2>1, <3>1 DEF EndFrontDesk
      <3>2. CASE c # serving
        BY <1>1, <1>2, <2>1, <3>2 DEF EndFrontDesk, StopMeansQuiet, Plain
      <3> QED BY <3>1, <3>2
    <2>2. wPc = "done" => ~isMoving
      BY DEF FlagTruthful, BatchRunning, ScheduledPcs, ExplicitPcs
    <2> QED BY <1>2, <2>1, <2>2 DEF StopMeansQuiet
  <1>10. DeskOutlivesWorker'
    BY <1>2 DEF DeskOutlivesWorker, WorkerEnded
  <1> QED BY <1>6, <1>7, <1>8, <1>9, <1>10

\* The message of the caller being served goes to the empty move channel.
LEMMA FdForwardStep ==
    ASSUME IInv, FdForward
    PROVE  IInv'
  <1> USE DEF IInv
  <1>1. serving \in Callers /\ asked[serving] \in {"Start", "Stop"}
    BY Served DEF FdForward, Desk
  <1>2. moveQueue = <<>> /\ wPc # "ack"
    BY DEF FdForward, Handshake
  <1>3. moveQueue' = <<asked[serving]>> /\ moveQueue' # <<>>
    BY <1>2 DEF FdForward
  <1>4. TypeOK'
    <2>1. moveQueue' \in Seq(Messages)
      BY <1>1, <1>3 DEF Messages
    <2> QED BY <2>1 DEF FdForward, TypeOK, workerVars, callVars
  <1>5. NoOrphanCall'
    BY DEF FdForward, NoOrphanCall, Pending, Waiting, callVars
  <1>6. Desk' /\ Handshake' /\ FlagTruthful' /\ ExplicitBatchFreesDesk'
    BY <1>1, <1>2, <1>3 DEF FdForward, Desk, Handshake, FlagTruthful, ExplicitBatchFreesDesk,
       BatchRunning, FdEnded, WorkerEnded, workerVars, callVars
  <1>7. StopMeansQuiet' /\ DeskOutlivesWorker'
    BY DEF FdForward, StopMeansQuiet, DeskOutlivesWorker, FdEnded, WorkerEnded,
           workerVars, callVars
  <1> QED BY <1>4, <1>5, <1>6, <1>7

-----------------------------------------------------------------------------
(* The worker.                                                             *)

\* A live worker is one that no granted Stop has seen.
LEMMA LiveWorker ==
    ASSUME IInv, ~WorkerEnded
    PROVE  \A c \in Callers : ~(asked[c] = "Stop" /\ reply[c].kind = "Ok")
  BY DEF IInv, StopMeansQuiet, WorkerEnded

\* The steps of the worker that touch neither channel.
LEMMA WQuietStep ==
    ASSUME IInv,
           WBegin \/ WSurvey \/ WMove \/ WBatchEnd \/ WRearm \/ WWake \/ WClosed \/ WExplicitEnd
    PROVE  IInv'
  <1> USE DEF IInv
  <1>1. /\ ~WorkerEnded /\ ~WorkerEnded'
        /\ wPc # "ack" /\ wPc' # "ack"
        /\ UNCHANGED <<moveQueue, ack, fdQueue, fdPc, serving, asked, reply>>
    BY DEF WBegin, WSurvey, WMove, WBatchEnd, WRearm, WWake, WClosed, WExplicitEnd,
           WorkerEnded, fdVars, callVars
  <1>2. /\ wPc' \in {"start", "survey", "copy", "rearm", "select", "explicit"}
        /\ wPc' = "explicit" => wPc = "explicit"
    BY DEF WBegin, WSurvey, WMove, WBatchEnd, WRearm, WWake, WClosed, WExplicitEnd
  <1>3. isMoving' \in BOOLEAN
    BY DEF WBegin, WSurvey, WMove, WBatchEnd, WRearm, WWake, WClosed, WExplicitEnd, TypeOK
  <1>4. elapsed' \in 0 .. MaxElapsed
    BY NumbersAssumption
       DEF WBegin, WSurvey, WMove, WBatchEnd, WRearm, WWake, WClosed, WExplicitEnd, TypeOK
  <1>5. left' \in Nat
    BY NumbersAssumption
       DEF WBegin, WSurvey, WMove, WBatchEnd, WRearm, WWake, WClosed, WExplicitEnd, TypeOK
  <1>6. TypeOK'
    BY <1>1, <1>2, <1>3, <1>4, <1>5 DEF TypeOK
  <1>7. FlagTruthful'
    BY DEF WBegin, WSurvey, WMove, WBatchEnd, WRearm, WWake, WClosed, WExplicitEnd,
           FlagTruthful, BatchRunning, ScheduledPcs, ExplicitPcs
  <1>8. NoOrphanCall'
    BY <1>1 DEF NoOrphanCall, Pending, Waiting
  <1>9. Desk' /\ Handshake' /\ ExplicitBatchFreesDesk'
    BY <1>1, <1>2 DEF Desk, Handshake, ExplicitBatchFreesDesk, FdEnded, WorkerEnded
  <1>10. StopMeansQuiet' /\ DeskOutlivesWorker'
    BY <1>1, LiveWorker DEF StopMeansQuiet, DeskOutlivesWorker, FdEnded
  <1> QED BY <1>6, <1>7, <1>8, <1>9, <1>10

\* The worker takes the Start out of the channel and has not answered yet.
LEMMA WTakeStartStep ==
    ASSUME IInv, WTakeStart
    PROVE  IInv'
  <1> USE DEF IInv
  <1>1. /\ fdPc = "await" /\ asked[serving] = "Start" /\ ack = "none"
        /\ moveQueue' = <<>>
    <2>1. /\ fdPc = "await" /\ ack = "none"
          /\ moveQueue = <<asked[serving]>>
      BY DEF WTakeStart, Handshake
    <2>2. moveQueue' = Tail(moveQueue) /\ Head(moveQueue) = "Start"
      BY DEF WTakeStart
    <2>3. Head(<<asked[serving]>>) = asked[serving] /\ Tail(<<asked[serving]>>) = <<>>
      OBVIOUS
    <2> QED BY <2>1, <2>2, <2>3
  <1>2. /\ ~WorkerEnded /\ ~WorkerEnded' /\ wPc' = "ack" /\ isMoving' = TRUE
        /\ UNCHANGED <<elapsed, ack, fdQueue, fdPc, serving, left, asked, reply>>
    BY DEF WTakeStart, WorkerEnded, fdVars, callVars
  <1>3. TypeOK'
    BY <1>1, <1>2, EmptySeq DEF TypeOK
  <1>4. NoOrphanCall'
    BY <1>2 DEF NoOrphanCall, Pending, Waiting
  <1>5. FlagTruthful' /\ Desk' /\ Handshake' /\ ExplicitBatchFreesDesk'
    BY <1>1, <1>2 DEF FlagTruthful, Desk, Handshake, ExplicitBatchFreesDesk, BatchRunning,
                      ExplicitPcs, FdEnded
  <1>6. StopMeansQuiet' /\ DeskOutlivesWorker'
    BY <1>1, <1>2, LiveWorker DEF StopMeansQuiet, DeskOutlivesWorker, FdEnded
  <1> QED BY <1>3, <1>4, <1>5, <1>6

\* The Start is acknowledged, and only then does the batch begin.
LEMMA WAckStep ==
    ASSUME IInv, WAck
    PROVE  IInv'
  <1> USE DEF IInv
  <1>1. fdPc = "await" /\ asked[serving] = "Start" /\ moveQueue = <<>>
    BY DEF WAck, Handshake
  <1>2. /\ ~WorkerEnded /\ ~WorkerEnded' /\ wPc = "ack" /\ wPc' = "explicit" /\ ack' = "Ok"
        /\ left' = Pairs
        /\ UNCHANGED <<isMoving, elapsed, moveQueue, fdQueue, fdPc, serving, asked, reply>>
    BY DEF WAck, WorkerEnded, fdVars, callVars
  <1>3. TypeOK'
    BY <1>2, NumbersAssumption DEF TypeOK
  <1>4. NoOrphanCall'
    BY <1>2 DEF NoOrphanCall, Pending, Waiting
  <1>5. FlagTruthful' /\ Desk' /\ Handshake' /\ ExplicitBatchFreesDesk'
    BY <1>1, <1>2 DEF FlagTruthful, Desk, Handshake, ExplicitBatchFreesDesk, BatchRunning,
                      ExplicitPcs, FdEnded
  <1>6. StopMeansQuiet' /\ DeskOutlivesWorker'
    BY <1>1, <1>2, LiveWorker DEF StopMeansQuiet, DeskOutlivesWorker, FdEnded
  <1> QED BY <1>3, <1>4, <1>5, <1>6

\* The worker ends, on a Stop or on an error, and its receiver with it.
LEMMA WEndStep ==
    ASSUME IInv, WTakeStop \/ WSurveyFails
    PROVE  IInv'
  <1> USE DEF IInv
  <1>1. /\ moveQueue' = <<>> /\ ~WorkerEnded
        /\ wPc \in {"select", "survey"}
        /\ UNCHANGED <<isMoving, elapsed, fdQueue, fdPc, serving, left, asked, reply>>
    BY DEF WTakeStop, WSurveyFails, WorkerEnded, fdVars, callVars
  <1>2. \/ /\ WTakeStop
           /\ wPc = "select" /\ wPc' = "done" /\ ack' = "Ok"
           /\ fdPc = "await" /\ asked[serving] = "Stop"
        \/ /\ WSurveyFails
           /\ wPc' = "failed"
           /\ ack' = IF moveQueue # <<>> THEN "dropped" ELSE ack
    BY DEF WTakeStop, WSurveyFails, Handshake
  <1>3. TypeOK'
    BY <1>1, <1>2, EmptySeq DEF TypeOK
  <1>4. NoOrphanCall'
    BY <1>1 DEF NoOrphanCall, Pending, Waiting
  <1>5. Handshake'
    BY <1>1, <1>2 DEF Handshake, WorkerEnded
  <1>6. FlagTruthful' /\ Desk' /\ ExplicitBatchFreesDesk'
    BY <1>1, <1>2 DEF FlagTruthful, Desk, ExplicitBatchFreesDesk, BatchRunning,
                      ScheduledPcs, ExplicitPcs, FdEnded
  <1>7. StopMeansQuiet' /\ DeskOutlivesWorker'
    BY <1>1, <1>2, LiveWorker DEF StopMeansQuiet, DeskOutlivesWorker, FdEnded, WorkerEnded
  <1> QED BY <1>3, <1>4, <1>5, <1>6, <1>7

-----------------------------------------------------------------------------
(* Every step, and the theorem.                                            *)

\* The clock moves, or nothing does.
LEMMA TimeStep ==
    ASSUME IInv, Tick \/ UNCHANGED vars
    PROVE  IInv'
  <1> USE DEF IInv
  <1>1. UNCHANGED <<isMoving, fdQueue, moveQueue, ack, fdPc, serving, wPc, left, asked, reply>>
    BY DEF Tick, vars, fdVars, workerVars, callVars
  <1>2. elapsed' \in 0 .. MaxElapsed
    BY NumbersAssumption DEF Tick, vars, TypeOK
  <1>3. TypeOK'
    BY <1>1, <1>2 DEF TypeOK
  <1>4. /\ FlagTruthful' /\ NoOrphanCall' /\ Desk' /\ Handshake'
        /\ ExplicitBatchFreesDesk' /\ StopMeansQuiet' /\ DeskOutlivesWorker'
    BY <1>1 DEF FlagTruthful, NoOrphanCall, Desk, Handshake, ExplicitBatchFreesDesk,
                StopMeansQuiet, DeskOutlivesWorker, BatchRunning, Pending, Waiting,
                FdEnded, WorkerEnded
  <1> QED BY <1>3, <1>4

\* No step of any task breaks the invariant.
LEMMA NextInv == IInv /\ [Next]_vars => IInv'
  <1> SUFFICES ASSUME IInv, [Next]_vars PROVE IInv'
    OBVIOUS
  <1>1. ASSUME NEW c \in Callers, NEW m \in Messages, Ask(c, m) \/ AskClosed(c, m)
        PROVE  IInv'
    BY <1>1, AskStep, AskClosedStep
  <1>2. ASSUME NEW c \in Callers, FdBusy(c) \/ FdStatus(c) \/ FdCommand(c)
        PROVE  IInv'
    BY <1>2, FdBusyStep, FdTakeStep
  <1>3. CASE FdTimer \/ FdForwardClosed \/ FdStarted \/ FdStopLost
    BY <1>3, FdAnswerStep
  <1>4. CASE FdPanic \/ FdStartLost \/ FdStopped
    BY <1>4, FdEndStep
  <1>5. CASE FdForward
    BY <1>5, FdForwardStep
  <1>6. CASE WBegin \/ WSurvey \/ WMove \/ WBatchEnd \/ WRearm \/ WWake \/ WClosed \/ WExplicitEnd
    BY <1>6, WQuietStep
  <1>7. CASE WTakeStart \/ WAck \/ WTakeStop \/ WSurveyFails
    BY <1>7, WTakeStartStep, WAckStep, WEndStep
  <1>8. CASE Tick \/ UNCHANGED vars
    BY <1>8, TimeStep
  <1> QED BY <1>1, <1>2, <1>3, <1>4, <1>5, <1>6, <1>7, <1>8 DEF Next, FrontDesk, Worker

\* The inductive invariant holds of every behaviour of the move job.
THEOREM Invariance == Spec => []IInv
  BY InitInv, NextInv, PTL DEF Spec

\* Every variable keeps its type; a countdown is always a u64.
THEOREM TypeCorrect == Spec => []TypeOK
  <1>1. IInv => TypeOK
    BY DEF IInv
  <1> QED BY <1>1, Invariance, PTL

\* An Ok to a Stop is only ever given after the worker has ended between two
\* batches: the updater that gets it replaces a process that moves nothing.
THEOREM StopIsQuiet == Spec => []StopMeansQuiet
  <1>1. IInv => StopMeansQuiet
    BY DEF IInv
  <1> QED BY <1>1, Invariance, PTL

\* The flag is set exactly while a batch runs, up to a failure of the worker.
THEOREM FlagIsTruthful == Spec => []FlagTruthful
  <1>1. IInv => FlagTruthful
    BY DEF IInv
  <1> QED BY <1>1, Invariance, PTL

\* A caller that waits is queued once or being served: none is forgotten.
THEOREM NoCallIsOrphaned == Spec => []NoOrphanCall
  <1>1. IInv => NoOrphanCall
    BY DEF IInv
  <1> QED BY <1>1, Invariance, PTL

\* The move channel holds at most the message the front desk waits for.
THEOREM AtMostOneInFlight == Spec => []OneInFlight
  <1>1. IInv => OneInFlight
    <2> SUFFICES ASSUME IInv PROVE OneInFlight
      OBVIOUS
    <2>1. CASE moveQueue = <<>>
      BY <2>1 DEF OneInFlight
    <2>2. CASE moveQueue # <<>>
      <3>1. fdPc = "await" /\ moveQueue = <<asked[serving]>> /\ ack = "none"
        BY <2>2 DEF IInv, Handshake
      <3> QED BY <3>1 DEF OneInFlight
    <2> QED BY <2>1, <2>2
  <1> QED BY <1>1, Invariance, PTL

\* No Start waits out the explicit batch of another.
THEOREM DeskIsFreeInExplicitBatch == Spec => []ExplicitBatchFreesDesk
  <1>1. IInv => ExplicitBatchFreesDesk
    BY DEF IInv
  <1> QED BY <1>1, Invariance, PTL

\* The three invariants as one: the discipline of the front desk (lib.rs:207-258).
THEOREM DeskIsDisciplined == Spec => []DeskDiscipline
  BY NoCallIsOrphaned, AtMostOneInFlight, DeskIsFreeInExplicitBatch, PTL
     DEF DeskDiscipline

\* In a build without overflow checks the front desk outlives the worker, so
\* the worker never loops without its sleep.
THEOREM DeskIsLast == Spec => []DeskOutlivesWorker
  <1>1. IInv => DeskOutlivesWorker
    BY DEF IInv
  <1> QED BY <1>1, Invariance, PTL

-----------------------------------------------------------------------------
(* The countdown.                                                          *)

\* A sleeping worker has a timer younger than its period.
Asleep == Punctual /\ wPc = "select" => elapsed <= Period

\* The sleep begins with the timer at zero, and the clock stops at its end.
LEMMA AsleepStep == IInv /\ Asleep /\ [Next]_vars => Asleep'
  <1> SUFFICES ASSUME IInv, Asleep, [Next]_vars, Punctual, wPc' = "select"
               PROVE  elapsed' <= Period
    BY DEF Asleep
  <1>0. elapsed \in Nat /\ Period \in Nat
    BY NumbersAssumption DEF IInv, TypeOK
  <1>1. CASE WRearm
    BY <1>0, <1>1 DEF WRearm
  <1>2. CASE Tick
    BY <1>0, <1>2 DEF Tick, workerVars, WorkerEnded
  <1>3. CASE wPc = "select" /\ elapsed' = elapsed
    BY <1>3 DEF Asleep
  <1>4. ASSUME NEW c \in Callers, NEW m \in Messages, Ask(c, m) \/ AskClosed(c, m)
        PROVE  wPc' = wPc /\ elapsed' = elapsed
    BY <1>4 DEF Ask, AskClosed, workerVars
  <1>5. CASE FrontDesk
    BY <1>3, <1>5 DEF FrontDesk, FdBusy, FdStatus, FdCommand, FdReceive, FdTimer, FdPanic,
       FdForward, FdForwardClosed, FdStarted, FdStartLost, FdStopped, FdStopLost, workerVars
  <1>6. CASE Worker /\ ~WRearm
    BY <1>6 DEF Worker, WBegin, WSurvey, WSurveyFails, WMove, WBatchEnd, WWake, WClosed,
       WTakeStart, WAck, WExplicitEnd, WTakeStop
  <1>7. CASE UNCHANGED vars
    BY <1>3, <1>7 DEF vars
  <1> QED BY <1>1, <1>2, <1>3, <1>4, <1>5, <1>6, <1>7 DEF Next

\* Only the step that reads the timer answers with a countdown.
LEMMA OnlyTimerCounts ==
    ASSUME IInv, [Next]_vars, ~FdTimer,
           NEW c \in Callers, Pending(c)
    PROVE  reply'[c].kind # "TimeUntilNextScan"
  <1> USE DEF IInv
  <1>1. reply \in [Callers -> Reply] /\ reply[c].kind = "pending"
    BY DEF TypeOK, Pending
  <1>2. CASE reply' = reply
    BY <1>1, <1>2
  <1>3. ASSUME NEW d \in Callers \cup {NoCaller}, NEW k \in Kinds \ {"TimeUntilNextScan"},
               Answer(d, Plain(k))
        PROVE  reply'[c].kind # "TimeUntilNextScan"
    BY <1>1, <1>3 DEF Answer, Plain
  <1>4. ASSUME NEW pc, NEW k \in Kinds \ {"TimeUntilNextScan"}, EndFrontDesk(pc, Plain(k))
        PROVE  reply'[c].kind # "TimeUntilNextScan"
    BY <1>1, <1>4 DEF EndFrontDesk, Plain
  <1>5. /\ serving \in Callers \cup {NoCaller}
        /\ {"pending", "dropped", "InProgress", "Ok", "Failed"}
              \subseteq Kinds \ {"TimeUntilNextScan"}
    BY DEF TypeOK, Optional, Kinds
  <1>6. ASSUME NEW d \in Callers, NEW m \in Messages, Ask(d, m) \/ AskClosed(d, m)
        PROVE  reply'[c].kind # "TimeUntilNextScan"
    <2>1. \E k \in {"pending", "dropped"} : Answer(d, Plain(k))
      BY <1>6 DEF Ask, AskClosed
    <2> QED BY <1>3, <1>5, <2>1
  <1>7. ASSUME NEW d \in Callers, FdBusy(d) \/ FdStatus(d) \/ FdCommand(d)
        PROVE  reply'[c].kind # "TimeUntilNextScan"
    <2>1. Answer(d, Plain("InProgress")) \/ reply' = reply
      BY <1>7 DEF FdBusy, FdStatus, FdCommand
    <2> QED BY <1>2, <1>3, <1>5, <2>1
  <1>8. CASE FdForwardClosed \/ FdStarted \/ FdStopLost
    <2>1. \E k \in {"dropped", "Ok", "Failed"} : Answer(serving, Plain(k))
      BY <1>8 DEF FdForwardClosed, FdStarted, FdStopLost
    <2> QED BY <1>3, <1>5, <2>1
  <1>9. CASE FdPanic \/ FdStartLost \/ FdStopped
    <2>1. \E k \in {"dropped", "Ok"} : EndFrontDesk(fdPc', Plain(k))
      BY <1>9 DEF FdPanic, FdStartLost, FdStopped, EndFrontDesk
    <2> QED BY <1>4, <1>5, <2>1
  <1>10. CASE FdForward \/ Worker \/ Tick \/ UNCHANGED vars
    BY <1>2, <1>10 DEF FdForward, Worker, WBegin, WSurvey, WSurveyFails, WMove, WBatchEnd,
       WRearm, WWake, WClosed, WTakeStart, WAck, WExplicitEnd, WTakeStop, Tick, vars, callVars
  <1> QED BY <1>6, <1>7, <1>8, <1>9, <1>10 DEF Next, FrontDesk

\* A countdown given while the worker sleeps is what is left of its sleep: for
\* any period below 2^64 the subtraction of lib.rs:233 does not wrap there.
THEOREM CountdownIsRightAsleep == Spec => CountdownRightWhileAsleep
  <1>1. Init => Asleep
    BY DEF Init, Asleep
  <1>2. Spec => []Asleep
    BY <1>1, AsleepStep, Invariance, PTL DEF Spec
  <1>3. ASSUME IInv, Asleep, [Next]_vars, Punctual, wPc = "select",
               NEW c \in Callers, Pending(c), reply'[c].kind = "TimeUntilNextScan"
        PROVE  reply'[c].secs + elapsed = Period
    <2>1. FdTimer
      BY <1>3, OnlyTimerCounts
    <2>2. reply' = [reply EXCEPT ![serving] = TimeLeft(Countdown)]
      BY <2>1 DEF FdTimer, Answer
    <2>3. c = serving
      <3>1. CASE c # serving
        BY <1>3, <2>2, <3>1 DEF IInv, TypeOK, Pending
      <3> QED BY <3>1
    <2>4. reply'[c].secs = (Period - elapsed) % Word
      BY <1>3, <2>2, <2>3 DEF IInv, TypeOK, TimeLeft, Countdown
    <2>5. /\ Period - elapsed \in 0 .. Word - 1
          /\ elapsed \in Nat /\ Period \in Nat /\ Word \in Nat \ {0}
      BY <1>3, NumbersAssumption DEF IInv, TypeOK, Asleep
    <2>6. (Period - elapsed) % Word = Period - elapsed
      <3> DEFINE n == Period - elapsed
      <3>1. n \in 0 .. Word - 1
        BY <2>5
      <3> HIDE DEF n
      <3>2. n % Word = n
        BY <2>5, <3>1
      <3> QED BY <3>2 DEF n
    <2> QED BY <2>4, <2>5, <2>6
  <1>4. IInv /\ Asleep /\ [Next]_vars =>
          [ Punctual /\ wPc = "select" =>
              \A c \in Callers :
                  Pending(c) /\ reply'[c].kind = "TimeUntilNextScan"
                      => reply'[c].secs + elapsed = Period ]_vars
    BY <1>3
  <1> QED BY <1>2, <1>4, Invariance, PTL DEF Spec, CountdownRightWhileAsleep

-----------------------------------------------------------------------------
(* The implementation of MoveService, in a build without overflow checks:   *)
(* the desk, its channels and its flag amount to one answer per request.    *)

Owed == IF Granted THEN serving ELSE NoCaller

\* What of the worker's place the callers can tell.
LEMMA Batches ==
    /\ wPc \in {"survey", "copy"} => AbstractBatch = "scheduled"
    /\ wPc \in {"ack", "explicit"} => AbstractBatch = "explicit"
    /\ wPc \in {"start", "rearm", "select"} => AbstractBatch = "none"
    /\ wPc = "done" => AbstractBatch = "halted"
    /\ wPc = "failed" => AbstractBatch = "failed"
  BY DEF AbstractBatch, ScheduledPcs, ExplicitPcs

\* A place the worker keeps is a batch that goes on.
LEMMA SameBatch == wPc' = wPc => AbstractBatch' = AbstractBatch
  BY DEF AbstractBatch, ScheduledPcs, ExplicitPcs

\* A request that is granted is that of a caller who waits.
LEMMA OwedWaits ==
    ASSUME IInv, Granted
    PROVE  /\ serving \in Callers /\ serving # NoCaller
           /\ Pending(serving)
           /\ fdPc = "await"
  BY Served, CallersAssumption DEF Granted

LEMMA InitImplements == Init => Service!Init
  <1> SUFFICES ASSUME Init PROVE Service!Init
    OBVIOUS
  <1>1. AbstractBatch = "none" /\ ~Granted
    BY Batches DEF Init, Granted
  <1> QED BY <1>1 DEF Init, Service!Init, Service!Told, Plain

\* A request is taken, or fails because the job has ended.
LEMMA AskImplements ==
    ASSUME IInv, ~OverflowChecks,
           NEW c \in Callers, NEW m \in Messages, Ask(c, m) \/ AskClosed(c, m)
    PROVE  Service!Ask(c, m) /\ m \in Asks[c]
  <1>1. m \in Asks[c] /\ ~Service!Pending(c) /\ asked' = [asked EXCEPT ![c] = m]
    BY DEF Ask, AskClosed, CanAsk, Service!Pending
  <1>2. UNCHANGED <<AbstractBatch, Owed>>
    BY SameBatch DEF Ask, AskClosed, workerVars, fdVars, Owed, Granted
  <1>3. CASE Ask(c, m)
    BY <1>1, <1>2, <1>3 DEF Ask, Answer, Plain, Service!Ask, Service!Told, Owed
  <1>4. CASE AskClosed(c, m)
    <2>1. AbstractBatch \in {"halted", "failed"}
      BY <1>4, Batches DEF AskClosed, IInv, DeskOutlivesWorker, WorkerEnded
    <2> QED BY <1>1, <1>2, <1>4, <2>1 DEF AskClosed, Answer, Plain, Service!Ask, Service!Told, Owed
  <1> QED BY <1>1, <1>3, <1>4

\* InProgress is the answer of the flag, which tells the truth.
LEMMA BusyImplements ==
    ASSUME IInv, NEW c \in Callers, FdBusy(c)
    PROVE  Service!Refuse(c)
  <1> USE DEF IInv
  <1>1. /\ FdReceive(c) /\ isMoving /\ asked[c] \in {"Start", "StatusRequest"}
        /\ Answer(c, Plain("InProgress"))
        /\ UNCHANGED <<fdPc, serving, ack, wPc, asked>>
        /\ fdPc = "recv"
    BY DEF FdBusy, FdReceive, workerVars
  <1>2. AbstractBatch \in {"scheduled", "explicit", "failed"}
    BY <1>1, Batches DEF FlagTruthful, BatchRunning, ScheduledPcs, ExplicitPcs
  <1>3. Pending(c) /\ c # NoCaller /\ ~Granted /\ ~Granted'
    BY <1>1, Received, CallersAssumption DEF Granted
  <1>4. AbstractBatch' = AbstractBatch
    BY <1>1, SameBatch
  <1> QED BY <1>1, <1>2, <1>3, <1>4
     DEF Service!Refuse, Service!Pending, Service!Told, Pending, Answer, Plain

\* The countdown is an answer to a status request, whatever runs by then.
LEMMA TimerImplements ==
    ASSUME IInv, FdTimer
    PROVE  serving \in Callers /\ Service!Countdown(serving)
  <1> USE DEF IInv
  <1>1. serving \in Callers /\ Pending(serving) /\ asked[serving] = "StatusRequest"
    BY Served DEF FdTimer, Desk
  <1>2. Countdown \in 0 .. Word - 1
    BY NumbersAssumption DEF Countdown, TypeOK
  <1>3. ~Granted /\ ~Granted' /\ AbstractBatch' = AbstractBatch
    BY SameBatch DEF FdTimer, Granted, workerVars
  <1>4. asked' = asked /\ reply' = [reply EXCEPT ![serving] = TimeLeft(Countdown)]
    BY DEF FdTimer, Answer
  <1> QED BY <1>1, <1>2, <1>3, <1>4
     DEF Service!Countdown, Service!Pending, Pending, TimeLeft

\* One caller is told k, and the desk goes on.
LEMMA TellOne ==
    ASSUME IInv, NEW c \in Callers, NEW k, Answer(c, Plain(k))
    PROVE  reply' = Service!LetDown({c}, k, reply)
  BY DEF IInv, TypeOK, Answer, Plain, Service!LetDown, Service!Told

\* The relayed Ok of the worker.
LEMMA GrantImplements ==
    ASSUME IInv, FdStarted \/ FdStopped
    PROVE  Service!Grant
  <1> USE DEF IInv
  <1>1. /\ fdPc = "await" /\ ack = "Ok" /\ Granted
        /\ UNCHANGED <<wPc, asked>>
        /\ fdPc' \in {"recv", "done"} /\ ~Granted'
    BY DEF FdStarted, FdStopped, EndFrontDesk, Granted, workerVars
  <1>2. serving \in Callers /\ serving # NoCaller /\ Pending(serving) /\ serving \notin Waiting
    BY <1>1, Served, OwedWaits
  <1>3. AbstractBatch' = AbstractBatch
    BY <1>1, SameBatch
  <1>4. reply \in [Callers -> Reply]
    BY DEF TypeOK
  <1>5. CASE FdStarted
    <2>1. reply' = Service!LetDown({}, "dropped", [reply EXCEPT ![serving] = Service!Told("Ok")])
      BY <1>2, <1>4, <1>5 DEF FdStarted, Answer, Plain, Service!LetDown, Service!Told
    <2> DEFINE lost == {}
    <2>2. /\ lost \in SUBSET { c \in Callers : Service!Pending(c) /\ c # Owed }
          /\ lost # {} => AbstractBatch = "halted" /\ asked[Owed] = "Stop"
          /\ reply' = Service!LetDown(lost, "dropped",
                                      [reply EXCEPT ![Owed] = Service!Told("Ok")])
      BY <1>1, <2>1 DEF Owed
    <2> HIDE DEF lost
    <2> QED BY <1>1, <1>2, <1>3, <2>2 DEF Service!Grant, Owed
  <1>6. CASE FdStopped
    <2>1. asked[serving] = "Stop" /\ wPc = "done"
      BY <1>6 DEF FdStopped, Handshake
    <2>2. Waiting \in SUBSET { c \in Callers : Service!Pending(c) /\ c # serving }
      <3>1. Waiting \subseteq Callers
        BY LenProperties DEF TypeOK, Waiting, ToSet
      <3> QED BY <1>2, <3>1 DEF NoOrphanCall, Optional, Pending, Service!Pending
    <2>3. reply' = Service!LetDown(Waiting, "dropped",
                                   [reply EXCEPT ![serving] = Service!Told("Ok")])
      BY <1>2, <1>4, <1>6 DEF FdStopped, EndFrontDesk, Plain, Service!LetDown, Service!Told
    <2>4. AbstractBatch = "halted"
      BY <2>1, Batches
    <2> QED BY <1>1, <1>2, <1>3, <2>1, <2>2, <2>3, <2>4 DEF Service!Grant
  <1> QED BY <1>5, <1>6

\* A caller is let down only by a job that has ended.
LEMMA AbandonImplements ==
    ASSUME IInv, FdForwardClosed \/ FdStartLost \/ FdStopLost
    PROVE  Service!Abandon
  <1> USE DEF IInv
  <1>1. /\ fdPc \in {"forward", "await"}
        /\ UNCHANGED <<wPc, asked>>
        /\ fdPc' \in {"recv", "dead"} /\ ~Granted'
    BY DEF FdForwardClosed, FdStartLost, FdStopLost, EndFrontDesk, Granted, workerVars
  <1>2. wPc \in {"done", "failed"} /\ ~Granted
    BY DEF FdForwardClosed, FdStartLost, FdStopLost, Granted, Handshake, WorkerEnded
  <1>3. serving \in Callers /\ Pending(serving)
    BY <1>1, Served
  <1>4. AbstractBatch \in {"halted", "failed"} /\ AbstractBatch' = AbstractBatch
    BY <1>1, <1>2, Batches, SameBatch
  <1>5. ASSUME NEW lost \in SUBSET Callers, serving \in lost,
               \A c \in lost : Pending(c),
               NEW k \in {"dropped", "Failed"}, reply' = Service!LetDown(lost, k, reply)
        PROVE  Service!Abandon
    <2>1. lost \in (SUBSET { c \in Callers : Service!Pending(c) /\ c # NoCaller }) \ {{}}
      BY <1>5, CallersAssumption DEF Pending, Service!Pending
    <2> QED BY <1>1, <1>2, <1>4, <1>5, <2>1 DEF Service!Abandon
  <1>6. CASE FdForwardClosed
    BY <1>3, <1>5, <1>6, TellOne DEF FdForwardClosed
  <1>7. CASE FdStopLost
    <2>1. reply' = Service!LetDown({serving}, "Failed", reply)
      BY <1>3, <1>7, TellOne DEF FdStopLost
    <2> QED BY <1>3, <1>5, <2>1
  <1>8. CASE FdStartLost
    <2>1. Waiting \subseteq Callers /\ \A c \in Waiting : Pending(c)
      <3>1. Waiting \subseteq Callers
        BY LenProperties DEF TypeOK, Waiting, ToSet
      <3> QED BY <3>1 DEF NoOrphanCall, Optional
    <2>2. reply' = Service!LetDown(Waiting \cup {serving}, "dropped", reply)
      BY <1>3, <1>8 DEF FdStartLost, EndFrontDesk, Plain, Service!LetDown, Service!Told
    <2> QED BY <1>3, <1>5, <2>1, <2>2
  <1> QED BY <1>6, <1>7, <1>8

\* The worker takes the message of the caller the desk serves: the batch, or the
\* end of the job, is that caller's.
LEMMA TakeImplements ==
    ASSUME IInv, WTakeStart \/ WTakeStop
    PROVE  serving \in Callers /\ (Service!BeginExplicit(serving) \/ Service!Halt(serving))
  <1> USE DEF IInv
  <1>1. /\ moveQueue # <<>> /\ wPc = "select" /\ fdPc = "await" /\ ack = "none"
        /\ moveQueue = <<asked[serving]>> /\ Head(moveQueue) = asked[serving]
    <2>1. moveQueue # <<>> /\ wPc = "select"
      BY DEF WTakeStart, WTakeStop
    <2>2. fdPc = "await" /\ ack = "none" /\ moveQueue = <<asked[serving]>>
      BY <2>1 DEF Handshake
    <2>3. Head(<<asked[serving]>>) = asked[serving]
      OBVIOUS
    <2> QED BY <2>1, <2>2, <2>3
  <1>2. UNCHANGED <<serving, fdPc, asked, reply>>
    BY DEF WTakeStart, WTakeStop, fdVars, callVars
  <1>3. serving \in Callers /\ Pending(serving)
    BY <1>1, Served
  <1>4. AbstractBatch = "none" /\ ~Granted
    BY <1>1, Batches DEF Granted
  <1>5. CASE WTakeStart
    <2>1. AbstractBatch' = "explicit" /\ Granted' /\ asked[serving] = "Start"
      BY <1>1, <1>2, <1>5
         DEF WTakeStart, Granted, AbstractBatch, ScheduledPcs, ExplicitPcs
    <2> QED BY <1>2, <1>3, <1>4, <2>1 DEF Service!BeginExplicit, Service!Pending, Pending
  <1>6. CASE WTakeStop
    <2>1. AbstractBatch' = "halted" /\ Granted' /\ asked[serving] = "Stop"
      BY <1>1, <1>2, <1>6
         DEF WTakeStop, Granted, AbstractBatch, ScheduledPcs, ExplicitPcs
    <2> QED BY <1>2, <1>3, <1>4, <2>1 DEF Service!Halt, Service!Pending, Pending
  <1> QED BY <1>3, <1>5, <1>6

\* A batch begins on the schedule, ends, or fails.
LEMMA BatchImplements ==
    ASSUME IInv, WBegin \/ WBatchEnd \/ WExplicitEnd \/ WSurveyFails
    PROVE  Service!BeginScheduled \/ Service!EndBatch \/ Service!Fail
  <1> USE DEF IInv
  <1>1. /\ UNCHANGED <<fdPc, serving, asked, reply>>
        /\ wPc # "ack" /\ wPc' # "ack"
    BY DEF WBegin, WBatchEnd, WExplicitEnd, WSurveyFails, fdVars, callVars
  <1>2. ack' # ack => WSurveyFails /\ moveQueue # <<>> /\ ack' = "dropped"
    BY DEF WBegin, WBatchEnd, WExplicitEnd, WSurveyFails
  <1>3. Granted' <=> Granted
    BY <1>1, <1>2 DEF Granted, Handshake
  <1>4. CASE WBegin
    <2>1. AbstractBatch = "none" /\ AbstractBatch' = "scheduled"
      BY <1>4 DEF WBegin, AbstractBatch, ScheduledPcs, ExplicitPcs
    <2> QED BY <1>1, <1>3, <2>1 DEF Service!BeginScheduled
  <1>5. CASE WBatchEnd \/ WExplicitEnd
    <2>1. AbstractBatch \in {"scheduled", "explicit"} /\ AbstractBatch' = "none"
      BY <1>5 DEF WBatchEnd, WExplicitEnd, AbstractBatch, ScheduledPcs, ExplicitPcs
    <2> QED BY <1>1, <1>3, <2>1 DEF Service!EndBatch
  <1>6. CASE WSurveyFails
    <2>1. AbstractBatch = "scheduled" /\ AbstractBatch' = "failed"
      BY <1>6 DEF WSurveyFails, AbstractBatch, ScheduledPcs, ExplicitPcs
    <2> QED BY <1>1, <1>3, <2>1 DEF Service!Fail
  <1> QED BY <1>4, <1>5, <1>6

\* What no caller can tell: a message on its way, a file copied, a second gone.
LEMMA Unseen ==
    ASSUME IInv,
           \/ \E c \in Callers : FdStatus(c) \/ FdCommand(c)
           \/ FdForward \/ WSurvey \/ WMove \/ WRearm \/ WWake \/ WClosed \/ WAck
           \/ Tick \/ UNCHANGED vars
    PROVE  UNCHANGED <<AbstractBatch, Owed, asked, reply>>
  <1> USE DEF IInv
  <1>1. CASE \E c \in Callers : FdStatus(c) \/ FdCommand(c)
    BY <1>1, SameBatch DEF FdStatus, FdCommand, FdReceive, workerVars, Owed, Granted
  <1>2. CASE FdForward
    BY <1>2, SameBatch DEF FdForward, workerVars, callVars, Owed, Granted, Handshake
  <1>3. CASE WSurvey \/ WMove \/ WRearm \/ WWake \/ WClosed
    <2>1. UNCHANGED <<fdPc, serving, ack, asked, reply>> /\ wPc # "ack" /\ wPc' # "ack"
      BY <1>3 DEF WSurvey, WMove, WRearm, WWake, WClosed, fdVars, callVars
    <2>2. AbstractBatch' = AbstractBatch
      BY <1>3 DEF WSurvey, WMove, WRearm, WWake, WClosed, AbstractBatch, ScheduledPcs, ExplicitPcs
    <2> QED BY <2>1, <2>2 DEF Owed, Granted
  <1>4. CASE WAck
    BY <1>4 DEF WAck, fdVars, callVars, AbstractBatch, ScheduledPcs, ExplicitPcs, Owed,
                Granted, Handshake
  <1>5. CASE Tick \/ UNCHANGED vars
    BY <1>5, SameBatch DEF Tick, vars, workerVars, fdVars, callVars, Owed, Granted
  <1> QED BY <1>1, <1>2, <1>3, <1>4, <1>5

LEMMA NextImplements ==
    ~OverflowChecks /\ IInv /\ [Next]_vars => [Service!Next]_(Service!vars)
  <1> SUFFICES ASSUME ~OverflowChecks, IInv, [Next]_vars
               PROVE  Service!Next \/ UNCHANGED <<AbstractBatch, Owed, asked, reply>>
    BY DEF Service!vars, Owed
  <1>1. ASSUME NEW c \in Callers, NEW m \in Messages, Ask(c, m) \/ AskClosed(c, m)
        PROVE  Service!Next
    BY <1>1, AskImplements DEF Service!Next
  <1>2. ASSUME NEW c \in Callers, FdBusy(c)
        PROVE  Service!Next
    BY <1>2, BusyImplements DEF Service!Next
  <1>3. CASE FdTimer
    BY <1>3, TimerImplements DEF Service!Next
  <1>4. CASE FdStarted \/ FdStopped
    BY <1>4, GrantImplements DEF Service!Next
  <1>5. CASE FdForwardClosed \/ FdStartLost \/ FdStopLost
    BY <1>5, AbandonImplements DEF Service!Next
  <1>6. CASE WTakeStart \/ WTakeStop
    BY <1>6, TakeImplements DEF Service!Next
  <1>7. CASE WBegin \/ WBatchEnd \/ WExplicitEnd \/ WSurveyFails
    BY <1>7, BatchImplements DEF Service!Next
  <1>8. ~FdPanic
    BY DEF FdPanic
  <1> QED BY <1>1, <1>2, <1>3, <1>4, <1>5, <1>6, <1>7, <1>8, Unseen DEF Next, FrontDesk, Worker

\* Without overflow checks, for any callers and whatever they send, each answer
\* of the move job is one that MoveService allows (lib.rs:191-401).
THEOREM JobImplementsService == ~OverflowChecks => (Spec => Implements)
  <1> SUFFICES ASSUME ~OverflowChecks PROVE Spec => Implements
    OBVIOUS
  <1>1. IInv /\ [Next]_vars => [Service!Next]_(Service!vars)
    BY NextImplements
  <1>2. Spec => Service!Init /\ [][Service!Next]_(Service!vars)
    BY <1>1, InitImplements, Invariance, PTL DEF Spec
  <1> QED BY <1>2 DEF Implements, Service!Spec
=============================================================================
