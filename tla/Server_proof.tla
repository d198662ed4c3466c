------------------------------ MODULE Server_proof ------------------------------
(* The server process, for any number of clients: what a client is told is  *)
(* true of its own request.                                                 *)
EXTENDS Server, TLAPS, SequenceTheorems

-----------------------------------------------------------------------------
(* The inductive invariant.                                                *)

\* The stream the listener holds and those that wait are open, each is in one
\* place, and no stream outlives the listener.
Streams ==
    /\ IsInjective(backlog)
    /\ \A c \in ToSet(backlog) : Open(c) /\ c # cur
    /\ lPc \in {"accept", "dropped"} => cur = NoClient
    /\ ~Listening => backlog = <<>> /\ \A c \in Clients : ~Open(c)
    /\ main = "over" <=> lPc = "dropped"

\* The call the listener waits for is that of the client it serves, and the job
\* holds no other call of the listener.
Call ==
    /\ lPc = "wait" =>
          /\ request[cur] \in {"status", "move"}
          /\ asked["listener"] = Message(request[cur])
          /\ Answer # "none"
          /\ owed = "listener" => Answer = "pending" /\ asked["listener"] = "Start"
    /\ lPc \in {"accept", "read", "ended"} =>
          Answer \in {"none", "dropped"} /\ owed # "listener"
    /\ Answer = "dropped" => batch \in {"halted", "failed"}

\* What was begun for the client, and what it is about to be told.
Account ==
    /\ lPc # "wait" => begun = 0
    /\ lPc = "wait" =>
          /\ begun = IF owed = "listener" \/ Answer = "Ok" THEN 1 ELSE 0
          /\ Answer = "Ok" => asked["listener"] = "Start"
          /\ Answer = "InProgress" => ran
          /\ Answer = "TimeUntilNextScan" => asked["listener"] = "StatusRequest"

IInv == TypeOK /\ Streams /\ Call /\ Account

LEMMA Initially == Init => IInv
<1> SUFFICES ASSUME Init PROVE IInv
    OBVIOUS
<1>1. /\ batch = "none" /\ owed = "nobody"
      /\ asked \in [Callers -> {"Start", "StatusRequest", "Stop"}]
      /\ reply \in [Callers -> Job!Replies]
      /\ Answer = "none"
  <2>1. reply = [c \in Callers |-> [kind |-> "none", secs |-> 0]]
      BY DEF Init, Job!Init, Job!Told
  <2> QED
      BY <2>1 DEF Init, Job!Init, Job!Replies, Job!Kinds, Callers, Answer
<1>2. backlog \in Seq(Clients) /\ ToSet(backlog) = {} /\ IsInjective(backlog)
    BY EmptySeq DEF Init, ToSet, IsInjective
<1>3. \A c \in Clients : ~Open(c)
    BY DEF Init, Open
<1>4. TypeOK
    BY <1>1, <1>2, <1>3 DEF Init, TypeOK, Requests, Outcomes
<1>5. Streams
    BY <1>2, <1>3 DEF Init, Streams, Listening
<1>6. Call /\ Account
    BY <1>1 DEF Init, Call, Account
<1> QED
    BY <1>4, <1>5, <1>6 DEF IInv

-----------------------------------------------------------------------------
(* The queue of the streams that wait.                                     *)

\* A stream joins the queue: nobody else moves, and none is in it twice.
LEMMA JoinQueue ==
    ASSUME NEW S, NEW q \in Seq(S), NEW e \in S, IsInjective(q), e \notin ToSet(q)
    PROVE  /\ Append(q, e) \in Seq(S)
           /\ ToSet(Append(q, e)) = ToSet(q) \cup {e}
           /\ IsInjective(Append(q, e))
<1>1. /\ Append(q, e) \in Seq(S)
      /\ Len(Append(q, e)) = Len(q) + 1
      /\ \A i \in 1 .. Len(q) : Append(q, e)[i] = q[i]
      /\ Append(q, e)[Len(q) + 1] = e
    BY AppendProperties
<1>2. /\ DOMAIN q = 1 .. Len(q) /\ Len(q) \in Nat
      /\ DOMAIN Append(q, e) = 1 .. Len(q) + 1
    BY <1>1, LenProperties
<1>3. ToSet(Append(q, e)) = ToSet(q) \cup {e}
    BY <1>1, <1>2 DEF ToSet
<1>4. IsInjective(Append(q, e))
    BY <1>1, <1>2 DEF IsInjective, ToSet
<1> QED
    BY <1>1, <1>3, <1>4

\* The head leaves the queue, and it alone.
LEMMA LeaveQueue ==
    ASSUME NEW S, NEW q \in Seq(S), q # <<>>, IsInjective(q)
    PROVE  /\ Head(q) \in ToSet(q) /\ Head(q) \in S
           /\ Tail(q) \in Seq(S)
           /\ ToSet(Tail(q)) = ToSet(q) \ {Head(q)}
           /\ IsInjective(Tail(q))
<1>1. /\ Tail(q) \in Seq(S)
      /\ Len(Tail(q)) = Len(q) - 1
      /\ \A i \in 1 .. Len(Tail(q)) : Tail(q)[i] = q[i + 1]
      /\ Head(q) = q[1] /\ Head(q) \in S
      /\ Len(q) \in Nat \ {0}
    BY HeadTailProperties, EmptySeq, LenProperties
<1>2. DOMAIN q = 1 .. Len(q) /\ DOMAIN Tail(q) = 1 .. Len(q) - 1
    BY <1>1, LenProperties
<1>3. Head(q) \in ToSet(q)
    BY <1>1, <1>2 DEF ToSet
<1>4. IsInjective(Tail(q))
    BY <1>1, <1>2 DEF IsInjective
<1>5. ToSet(Tail(q)) \subseteq ToSet(q) \ {Head(q)}
    BY <1>1, <1>2 DEF ToSet, IsInjective
<1>6. ASSUME NEW x \in ToSet(q) \ {Head(q)} PROVE x \in ToSet(Tail(q))
  <2>1. PICK i \in 1 .. Len(q) : x = q[i] /\ i # 1
      BY <1>1, <1>2, <1>6 DEF ToSet
  <2>2. i - 1 \in 1 .. Len(q) - 1 /\ Tail(q)[i - 1] = x
      BY <1>1, <2>1
  <2> QED
      BY <1>2, <2>2 DEF ToSet
<1> QED
    BY <1>1, <1>3, <1>4, <1>5, <1>6

\* The empty queue holds nobody.
LEMMA EmptyQueue == <<>> \in Seq(Clients) /\ ToSet(<<>>) = {} /\ IsInjective(<<>>)
BY EmptySeq DEF ToSet, IsInjective

\* A queue holds clients.
LEMMA Queued == TypeOK => ToSet(backlog) \subseteq Clients
BY LenProperties DEF TypeOK, ToSet

\* A stream is closed for good, and nobody else's is touched.
LEMMA Closing ==
    ASSUME TypeOK, NEW S, NEW o \in Outcomes, Close(S, o)
    PROVE  /\ phase' \in [Clients -> {"new", "connected", "sent", "done"}]
           /\ request' \in [Clients -> Requests]
           /\ told' \in [Clients -> Outcomes]
           /\ quit' \subseteq Clients
           /\ \A c \in Clients : Open(c)' <=> Open(c) /\ c \notin S
           /\ \A c \in Clients \ S : phase'[c] = phase[c]
<1>1. phase' \in [Clients -> {"new", "connected", "sent", "done"}]
    BY DEF Close, TypeOK
<1>2. told' \in [Clients -> Outcomes]
    BY DEF Close, TypeOK, Outcomes
<1>3. \A c \in Clients : Open(c)' <=> Open(c) /\ c \notin S
    BY DEF Close, Open
<1>4. request' \in [Clients -> Requests] /\ quit' \subseteq Clients
    BY DEF Close, TypeOK
<1>5. \A c \in Clients \ S : phase'[c] = phase[c]
    BY DEF Close
<1> QED
    BY <1>1, <1>2, <1>3, <1>4, <1>5

-----------------------------------------------------------------------------
(* The clients.                                                            *)

LEMMA ConnectStep ==
    ASSUME IInv, NEW c \in Clients, NEW r \in Requests, Connect(c, r)
    PROVE  IInv'
<1> USE DEF IInv
<1>1. /\ UNCHANGED <<jobVars, main, told, quit, cur, lPc, sweep, history>>
      /\ phase[c] = "new" /\ phase' = [phase EXCEPT ![c] = "connected"]
      /\ request' = [request EXCEPT ![c] = r]
      /\ backlog' = Append(backlog, c)
      /\ Listening
    BY DEF Connect
<1>2. ~Open(c) /\ c \notin ToSet(backlog)
    BY <1>1 DEF Open, Streams
<1>3. /\ backlog' \in Seq(Clients)
      /\ ToSet(backlog') = ToSet(backlog) \cup {c}
      /\ IsInjective(backlog')
    BY <1>1, <1>2, JoinQueue DEF TypeOK, Streams
<1>4. Open(c)' /\ \A d \in Clients : d # c => (Open(d)' <=> Open(d))
    BY <1>1 DEF Open, TypeOK
<1>5. lPc \in {"read", "wait"} => cur \in Clients /\ cur # c
    BY <1>2 DEF TypeOK
<1>6. TypeOK'
    <2>1. /\ phase' \in [Clients -> {"new", "connected", "sent", "done"}]
          /\ request' \in [Clients -> Requests]
        BY <1>1 DEF TypeOK
    <2>2. lPc \in {"read", "wait"} => cur # NoClient /\ Open(cur)'
        BY <1>1, <1>5 DEF TypeOK, Open
    <2>3. \A d \in Clients : Open(d)' => d = cur \/ d \in ToSet(backlog')
        BY <1>1, <1>3, <1>4 DEF TypeOK
    <2>4. UNCHANGED <<batch, owed, asked, reply, main, told, quit, cur, lPc, sweep,
                      begun, ran>>
        BY <1>1 DEF jobVars, history
    <2> QED
        BY <1>3, <2>1, <2>2, <2>3, <2>4 DEF TypeOK
<1>7. Streams'
    <2>1. \A d \in ToSet(backlog') : Open(d)' /\ d # cur'
      <3>1. c # cur
          BY <1>2, <1>5, <1>1, ClientsAssumption DEF Streams, Listening, TypeOK
      <3> QED
          BY <1>1, <1>3, <1>4, <3>1, Queued DEF Streams
    <2> QED
        BY <1>1, <1>3, <2>1 DEF Streams, Listening
<1>8. Call' /\ Account'
    <2>1. lPc = "wait" => request'[cur] = request[cur]
        BY <1>1, <1>5 DEF TypeOK
    <2> QED
        BY <1>1, <2>1 DEF Call, Account, jobVars, history, Answer, Message
<1> QED
    BY <1>6, <1>7, <1>8

LEMMA SendStep ==
    ASSUME IInv, NEW c \in Clients, Send(c) \/ Quit(c)
    PROVE  IInv'
<1> USE DEF IInv
<1>1. /\ UNCHANGED <<jobVars, main, request, told, listenerVars, sweep, history>>
      /\ phase' \in [Clients -> {"new", "connected", "sent", "done"}]
      /\ quit' \subseteq Clients
      /\ \A d \in Clients : Open(d)' <=> Open(d)
    BY DEF Send, Quit, TypeOK, Open
<1>2. TypeOK'
    BY <1>1 DEF TypeOK, jobVars, listenerVars, history
<1>3. Streams'
    BY <1>1, Queued DEF Streams, Listening, listenerVars
<1>4. Call' /\ Account'
    BY <1>1 DEF Call, Account, jobVars, history, Answer, Message, listenerVars
<1> QED
    BY <1>2, <1>3, <1>4

-----------------------------------------------------------------------------
(* The listener.                                                           *)

\* It ends, between two clients or with one that was let down.
LEMMA EndStep ==
    ASSUME IInv, AcceptFails \/ ReadFails \/ ReadBroken \/ DeskGone
    PROVE  IInv'
<1> USE DEF IInv
<1>1. EndListener /\ Up
    BY DEF AcceptFails, ReadFails, ReadBroken, DeskGone, AtRead, Answered
<1>2. /\ UNCHANGED <<batch, owed, asked, reply, main, cur, sweep, begun, ran>>
      /\ lPc' = "ended" /\ backlog' = <<>>
      /\ Close({c \in Clients : Open(c)}, "NoReply")
    BY <1>1 DEF EndListener, jobVars, history
<1>3. "NoReply" \in Outcomes
    BY DEF Outcomes
<1>4. \A c \in Clients : ~Open(c)'
    BY <1>2, <1>3, Closing
<1>5. begun = 0 /\ Answer \in {"none", "dropped"} /\ owed # "listener"
    BY DEF AcceptFails, ReadFails, ReadBroken, DeskGone, AtRead, Answered, Call, Account
<1>6. TypeOK'
    BY <1>2, <1>3, <1>4, Closing, EmptyQueue DEF TypeOK
<1>7. Streams'
  <2>1. main' # "over"
      BY <1>1, <1>2 DEF Up
  <2> QED
      BY <1>2, <1>4, <2>1, EmptyQueue DEF Streams, Listening
<1>8. Call' /\ Account'
    BY <1>2, <1>5 DEF Call, Account, Answer
<1> QED
    BY <1>6, <1>7, <1>8

LEMMA AcceptStep ==
    ASSUME IInv, Accept
    PROVE  IInv'
<1> USE DEF IInv
<1>1. /\ lPc = "accept" /\ lPc' = "read" /\ backlog # <<>>
      /\ cur' = Head(backlog) /\ backlog' = Tail(backlog)
      /\ UNCHANGED <<batch, owed, asked, reply, main, phase, request, told, quit, sweep,
                     begun, ran>>
    BY DEF Accept, jobVars, clientVars, history
<1>2. /\ cur' \in ToSet(backlog) /\ cur' \in Clients
      /\ backlog' \in Seq(Clients)
      /\ ToSet(backlog') = ToSet(backlog) \ {cur'}
      /\ IsInjective(backlog')
    BY <1>1, LeaveQueue DEF TypeOK, Streams
<1>3. \A c \in Clients : Open(c)' <=> Open(c)
    BY <1>1 DEF Open
<1>4. cur = NoClient
    BY <1>1 DEF Streams
<1>5. TypeOK'
  <2>1. cur' # NoClient /\ phase[cur'] \in {"connected", "sent"}
      BY <1>2, ClientsAssumption DEF Streams, Open
  <2>2. \A c \in Clients : Open(c)' => c = cur' \/ c \in ToSet(backlog')
      BY <1>2, <1>3, <1>4, ClientsAssumption DEF TypeOK
  <2> QED
      BY <1>1, <1>2, <2>1, <2>2 DEF TypeOK, Open
<1>6. Streams'
    BY <1>1, <1>2, <1>3, Queued DEF Streams, Listening
<1>7. Call' /\ Account'
    BY <1>1 DEF Call, Account, Answer
<1> QED
    BY <1>5, <1>6, <1>7

\* What the listener tells its client is one of the outcomes.
LEMMA AnswerTyped ==
    ASSUME TypeOK
    PROVE  /\ Answer \in Job!Kinds
           /\ Answer \in {"InProgress", "Ok", "Failed", "TimeUntilNextScan"} =>
                 Shown(Status(Answer)) = CASE Answer = "TimeUntilNextScan" -> "Idle"
                                           [] Answer = "InProgress" -> "Running"
                                           [] Answer = "Ok" -> "Started"
                                           [] Answer = "Failed" -> "Error"
<1>1. Answer \in Job!Kinds
    BY DEF TypeOK, Answer, Job!Replies, Callers
<1>2. CASE Answer = "TimeUntilNextScan"
  <2>1. Status(Answer) = "IDLE" /\ Shown("IDLE") = "Idle"
      BY <1>2 DEF Status, Shown
  <2> QED
      BY <1>1, <1>2, <2>1
<1>3. CASE Answer = "InProgress"
  <2>1. Status(Answer) = "RUNNING" /\ Shown("RUNNING") = "Running"
      BY <1>3 DEF Status, Shown
  <2> QED
      BY <1>1, <1>3, <2>1
<1>4. CASE Answer = "Ok"
  <2>1. Status(Answer) = "OK" /\ Shown("OK") = "Started"
      BY <1>4 DEF Status, Shown
  <2> QED
      BY <1>1, <1>4, <2>1
<1>5. CASE Answer = "Failed"
  <2>1. Status(Answer) = "ERROR" /\ Shown("ERROR") = "Error"
      BY <1>5 DEF Status, Shown
  <2> QED
      BY <1>1, <1>5, <2>1
<1> QED
    BY <1>1, <1>2, <1>3, <1>4, <1>5

\* The listener is done with its client, and goes back to accept.
LEMMA NextClientStep ==
    ASSUME IInv, ReadNothing \/ ReadBlocked \/ ReadOther \/ Respond
    PROVE  IInv'
<1> USE DEF IInv
<1>1. PICK o \in Outcomes : NextClient(o)
  <2>1. CASE ReadNothing \/ ReadBlocked \/ ReadOther
      BY <2>1 DEF ReadNothing, ReadBlocked, ReadOther, Outcomes
  <2>2. CASE Respond
    <3>1. Answer \in {"InProgress", "Ok", "Failed", "TimeUntilNextScan"}
        BY <2>2, AnswerTyped DEF Respond, Answered, Job!Kinds
    <3>2. Shown(Status(Answer)) \in Outcomes
        BY <3>1, AnswerTyped DEF Outcomes
    <3> QED
        BY <2>2, <3>2 DEF Respond
  <2> QED
      BY <2>1, <2>2
<1>2. /\ UNCHANGED <<batch, owed, asked, main, backlog, sweep>>
      /\ lPc' = "accept" /\ cur' = NoClient /\ begun' = 0 /\ ran' = FALSE
      /\ Close({cur}, o)
    BY <1>1 DEF NextClient
<1>3. /\ lPc \in {"read", "wait"} /\ Up
      /\ lPc = "wait" => Answer \notin {"none", "pending"}
    BY DEF ReadNothing, ReadBlocked, ReadOther, Respond, AtRead, Answered
<1>4. /\ reply' \in [Callers -> Job!Replies]
      /\ Answer' \in {"none", "dropped"}
      /\ Answer' = "dropped" => Answer = "dropped"
  <2>1. CASE ReadNothing \/ ReadBlocked \/ ReadOther
      BY <2>1 DEF ReadNothing, ReadBlocked, ReadOther, AtRead, TypeOK, Call, Answer
  <2>2. CASE Respond
    <3>1. reply' = [reply EXCEPT !["listener"] = [kind |-> "none", secs |-> 0]]
        BY <2>2 DEF Respond, TakeAnswer, Job!Told
    <3> QED
        BY <3>1 DEF TypeOK, Callers, Job!Replies, Job!Kinds, Answer
  <2> QED
      BY <2>1, <2>2
<1>5. owed # "listener"
    BY <1>3 DEF Call
<1>6. \A c \in Clients : Open(c)' <=> Open(c) /\ c # cur
    BY <1>2, Closing
<1>7. TypeOK'
  <2>1. \A c \in Clients : Open(c)' => c = cur' \/ c \in ToSet(backlog)
      BY <1>6 DEF TypeOK
  <2> QED
      BY <1>2, <1>4, <2>1, Closing DEF TypeOK
<1>8. Streams'
  <2>1. \A c \in ToSet(backlog) : Open(c)' /\ c # cur'
      BY <1>2, <1>6, Queued, ClientsAssumption DEF Streams
  <2>2. lPc # "dropped" /\ main # "over"
      BY <1>3 DEF Up
  <2> QED
      BY <1>2, <2>1, <2>2 DEF Streams, Listening
<1>9. Call' /\ Account'
    BY <1>2, <1>4, <1>5 DEF Call, Account
<1> QED
    BY <1>7, <1>8, <1>9

\* A step that touches no stream leaves them as they are.
LEMMA StreamsKept ==
    ASSUME IInv, UNCHANGED <<main, phase, backlog, cur>>,
           lPc' = lPc \/ (lPc = "read" /\ lPc' = "wait")
    PROVE  Streams'
BY Queued DEF IInv, Streams, Listening, Open

LEMMA ReadRequestStep ==
    ASSUME IInv, ReadRequest
    PROVE  IInv'
<1> USE DEF IInv
<1> DEFINE m == Message(request[cur])
<1>1. /\ lPc = "read" /\ lPc' = "wait" /\ Up
      /\ request[cur] \in {"status", "move"}
      /\ Job!Ask("listener", m)
      /\ ran' \in BOOLEAN
      /\ UNCHANGED <<main, phase, request, told, quit, backlog, cur, sweep, begun>>
    BY DEF ReadRequest, AtRead, clientVars
<1>2. /\ UNCHANGED <<batch, owed>>
      /\ asked' = [asked EXCEPT !["listener"] = m]
      /\ \/ reply' = [reply EXCEPT !["listener"] = [kind |-> "pending", secs |-> 0]]
         \/ /\ batch \in {"halted", "failed"}
            /\ reply' = [reply EXCEPT !["listener"] = [kind |-> "dropped", secs |-> 0]]
    BY <1>1 DEF Job!Ask, Job!Told
<1>3. m \in {"Start", "StatusRequest"}
    BY DEF Message
<1>4. /\ asked' \in [Callers -> {"Start", "StatusRequest", "Stop"}]
      /\ asked'["listener"] = m
    BY <1>2, <1>3 DEF TypeOK, Callers
<1>5. /\ reply' \in [Callers -> Job!Replies]
      /\ Answer' \in {"pending", "dropped"}
      /\ Answer' = "dropped" => batch \in {"halted", "failed"}
    BY <1>2 DEF TypeOK, Callers, Job!Replies, Job!Kinds, Answer
<1>6. begun = 0 /\ owed # "listener"
    BY <1>1 DEF Call, Account
<1>7. TypeOK'
    BY <1>1, <1>2, <1>4, <1>5 DEF TypeOK, Open
<1>8. Streams'
    BY <1>1, StreamsKept
<1>9. Call' /\ Account'
    BY <1>1, <1>2, <1>4, <1>5, <1>6 DEF Call, Account, Message
<1> QED
    BY <1>7, <1>8, <1>9

-----------------------------------------------------------------------------
(* The move job.                                                           *)

\* The listener waits while its call is open.
LEMMA Waits ==
    ASSUME IInv, Up, Answer = "pending"
    PROVE  lPc = "wait" /\ cur \in Clients
BY DEF IInv, TypeOK, Streams, Call, Up

\* What a step of the job is to the listener: it hears nothing, its request
\* begins a batch, or it is answered.
LEMMA JobSteps ==
    ASSUME IInv, JobBegins \/ JobAnswers \/ JobRuns
    PROVE  /\ batch' \in {"none", "scheduled", "explicit", "halted", "failed"}
           /\ batch \in {"halted", "failed"} => batch' = batch
           /\ owed' \in Callers \cup {"nobody"}
           /\ asked' = asked
           /\ reply' \in [Callers -> Job!Replies]
           /\ \/ /\ Answer' = Answer /\ begun' = begun
                 /\ owed' = "listener" <=> owed = "listener"
              \/ /\ Answer = "pending" /\ Answer' = "pending" /\ asked["listener"] = "Start"
                 /\ owed # "listener" /\ owed' = "listener" /\ begun' = begun + 1
              \/ /\ Answer = "pending" /\ Answer' = "Ok"
                 /\ owed = "listener" /\ owed' # "listener" /\ begun' = begun
              \/ /\ Answer = "pending" /\ owed # "listener" /\ owed' # "listener"
                 /\ begun' = begun
                 /\ \/ Answer' = "InProgress" /\ batch' \in Running \cup {"failed"}
                    \/ Answer' = "TimeUntilNextScan" /\ asked["listener"] = "StatusRequest"
                    \/ Answer' \in {"dropped", "Failed"} /\ batch' \in {"halted", "failed"}
<1> USE DEF IInv
<1>0. /\ reply \in [Callers -> Job!Replies] /\ "listener" \in Callers /\ "updater" \in Callers
      /\ batch \in {"none", "scheduled", "explicit", "halted", "failed"}
      /\ owed \in Callers \cup {"nobody"}
      /\ "nobody" \notin Callers
    BY DEF TypeOK, Callers
<1>1. ASSUME NEW k \in Job!Kinds
      PROVE  Job!Told(k) \in Job!Replies /\ Job!Told(k).kind = k
    BY DEF Job!Told, Job!Replies
<1>2. {"dropped", "InProgress", "Ok", "Failed", "TimeUntilNextScan"} \subseteq Job!Kinds
    BY DEF Job!Kinds
<1>3. CASE JobBegins
    BY <1>0, <1>3 DEF JobBegins, Job!BeginExplicit, Job!Pending, Answer
<1>4. CASE JobRuns
    BY <1>0, <1>4 DEF JobRuns, JobEnds, JobHalts, Job!BeginScheduled, Job!EndBatch, Job!Fail,
                      Job!Halt, Answer, history
<1>5. CASE JobAnswers /\ Job!Refuse("listener")
  <2>1. /\ batch \in {"scheduled", "explicit", "failed"} /\ Answer = "pending"
        /\ owed # "listener"
        /\ reply' = [reply EXCEPT !["listener"] = Job!Told("InProgress")]
        /\ UNCHANGED <<batch, owed, asked, begun>>
      BY <1>5 DEF JobAnswers, Job!Refuse, Job!Pending, Answer
  <2>2. reply' \in [Callers -> Job!Replies] /\ Answer' = "InProgress"
      BY <1>0, <1>1, <1>2, <2>1 DEF Answer
  <2> QED
      BY <1>0, <2>1, <2>2 DEF Running
<1>6. CASE JobAnswers /\ Job!Countdown("listener")
  <2>1. /\ asked["listener"] = "StatusRequest" /\ Answer = "pending"
        /\ reply' = [reply EXCEPT !["listener"] = Job!Told("TimeUntilNextScan")]
        /\ UNCHANGED <<batch, owed, asked, begun>>
      BY <1>6 DEF JobAnswers, Job!Countdown, Job!Pending, Job!Told, Answer
  <2>2. reply' \in [Callers -> Job!Replies] /\ Answer' = "TimeUntilNextScan"
      BY <1>0, <1>1, <1>2, <2>1 DEF Answer
  <2>3. owed # "listener"
      BY <1>6, <2>1, Waits DEF JobAnswers, Call
  <2> QED
      BY <1>0, <2>1, <2>2, <2>3
<1>7. ASSUME NEW lost \in SUBSET {c \in Callers : Job!Pending(c) /\ c # owed},
             NEW k \in {"dropped", "Failed"}, NEW r \in [Callers -> Job!Replies],
             reply' = Job!LetDown(lost, k, r)
      PROVE  /\ reply' \in [Callers -> Job!Replies]
             /\ "listener" \in lost => Answer = "pending" /\ owed # "listener" /\ Answer' = k
             /\ "listener" \notin lost => Answer' = r["listener"].kind
    BY <1>0, <1>1, <1>2, <1>7 DEF Job!LetDown, Job!Pending, Answer
<1>8. CASE JobAnswers /\ Job!Grant
  <2> DEFINE r == [reply EXCEPT ![owed] = Job!Told("Ok")]
  <2>1. /\ owed # "nobody" /\ owed' = "nobody"
        /\ UNCHANGED <<batch, asked, begun>> /\ Up
      BY <1>8 DEF JobAnswers, Job!Grant
  <2>2. PICK lost \in SUBSET {c \in Callers : Job!Pending(c) /\ c # owed} :
               /\ lost # {} => batch = "halted" /\ asked[owed] = "Stop"
               /\ reply' = Job!LetDown(lost, "dropped", r)
      BY <1>8 DEF JobAnswers, Job!Grant
  <2>3. r \in [Callers -> Job!Replies]
      BY <1>0, <1>1, <1>2
  <2>4. /\ owed = "listener" => r["listener"].kind = "Ok"
        /\ owed # "listener" => r["listener"].kind = Answer
      BY <1>0, <1>1, <1>2, <2>1 DEF Answer
  <2> HIDE DEF r
  <2>5. /\ reply' \in [Callers -> Job!Replies]
        /\ "listener" \in lost => Answer = "pending" /\ owed # "listener" /\ Answer' = "dropped"
        /\ "listener" \notin lost => Answer' = r["listener"].kind
      BY <1>7, <2>2, <2>3
  <2>6. owed = "listener" => Answer = "pending"
      BY <2>1 DEF Call, Streams, TypeOK, Up
  <2> QED
      BY <1>0, <2>1, <2>2, <2>4, <2>5, <2>6
<1>9. CASE JobAnswers /\ Job!Abandon
  <2>1. batch \in {"halted", "failed"} /\ UNCHANGED <<batch, owed, asked, begun>>
      BY <1>9 DEF JobAnswers, Job!Abandon
  <2>2. PICK lost \in SUBSET {c \in Callers : Job!Pending(c) /\ c # owed},
             k \in {"dropped", "Failed"} : reply' = Job!LetDown(lost, k, reply)
      BY <1>9 DEF JobAnswers, Job!Abandon
  <2>3. /\ reply' \in [Callers -> Job!Replies]
        /\ "listener" \in lost => Answer = "pending" /\ owed # "listener" /\ Answer' = k
        /\ "listener" \notin lost => Answer' = Answer
      BY <1>0, <1>7, <2>2 DEF Answer
  <2> QED
      BY <1>0, <2>1, <2>2, <2>3
<1> QED
    BY <1>3, <1>4, <1>5, <1>6, <1>8, <1>9 DEF JobAnswers

LEMMA JobStep ==
    ASSUME IInv, JobBegins \/ JobAnswers \/ JobRuns
    PROVE  IInv'
<1> USE DEF IInv
<1>1. /\ Up /\ Note
      /\ UNCHANGED <<main, phase, request, told, quit, backlog, cur, lPc, sweep>>
  <2>1. CASE JobEnds \/ JobHalts
      BY <2>1 DEF JobEnds, JobHalts, Job!EndBatch, Job!Halt, Note, Running, TypeOK,
                  clientVars, listenerVars, history
  <2>2. CASE JobBegins \/ JobAnswers \/ (JobRuns /\ ~JobEnds /\ ~JobHalts)
      BY <2>2 DEF JobBegins, JobAnswers, JobRuns, clientVars, listenerVars
  <2> QED
      BY <2>1, <2>2
<1>2. begun' \in Nat /\ ran' \in BOOLEAN
    BY <1>1, JobSteps DEF TypeOK, Note
<1>3. TypeOK'
    BY <1>1, <1>2, JobSteps DEF TypeOK, Open
<1>4. Streams'
    BY <1>1, StreamsKept
<1>5. Answer = "pending" => lPc = "wait"
    BY <1>1, Waits
<1>6. lPc # "wait" =>
          /\ Answer' = Answer /\ begun' = begun
          /\ owed' = "listener" <=> owed = "listener"
    BY <1>5, JobSteps
<1>7. Answer' = "dropped" => batch' \in {"halted", "failed"}
    BY JobSteps DEF Call
<1>8. Call'
  <2>1. lPc = "wait" =>
            /\ Answer' # "none"
            /\ owed' = "listener" => Answer' = "pending" /\ asked["listener"] = "Start"
      BY JobSteps DEF Call
  <2> QED
      BY <1>1, <1>6, <1>7, <2>1, JobSteps DEF Call, Message
<1>9. Account'
  <2>1. CASE lPc # "wait"
      BY <1>1, <1>6, <2>1 DEF Account
  <2>2. CASE lPc = "wait"
    <3>1. begun' = IF owed' = "listener" \/ Answer' = "Ok" THEN 1 ELSE 0
        BY <2>2, JobSteps DEF Account, Call
    <3>2. Answer' = "Ok" => asked["listener"] = "Start"
        BY <2>2, JobSteps DEF Account, Call
    <3>3. Answer' = "InProgress" => ran'
        BY <1>1, <2>2, JobSteps DEF Account, Note
    <3>4. Answer' = "TimeUntilNextScan" => asked["listener"] = "StatusRequest"
        BY <2>2, JobSteps DEF Account
    <3> QED
        BY <1>1, <2>2, <3>1, <3>2, <3>3, <3>4, JobSteps DEF Account
  <2> QED
      BY <2>1, <2>2
<1> QED
    BY <1>3, <1>4, <1>8, <1>9

-----------------------------------------------------------------------------
(* Log retention, and main.                                                *)

LEMMA RetentionStep ==
    ASSUME IInv, Retention
    PROVE  IInv'
<1> USE DEF IInv
<1>1. /\ UNCHANGED <<jobVars, main, clientVars, listenerVars, history>>
      /\ sweep' \in {"sleep", "sweep", "stuck", "unreadable", "dropped"}
    BY DEF Retention, SweepBegin, SweepBeginFails, SweepEnd, SweepStuck, Sweep
<1>3. UNCHANGED <<batch, owed, asked, reply, main, phase, request, told, quit, backlog, cur,
                  lPc, begun, ran>>
    BY <1>1 DEF jobVars, clientVars, listenerVars, history
<1>4. TypeOK'
    BY <1>1, <1>3 DEF TypeOK, Open
<1>5. Streams'
    BY <1>3, StreamsKept
<1>6. Call' /\ Account'
    BY <1>3 DEF Call, Account, Answer, Message
<1> QED
    BY <1>4, <1>5, <1>6

\* The process goes, and every stream with it.
LEMMA OverStep ==
    ASSUME IInv, TaskEnded \/ OtherTaskEnded \/ Replaced
    PROVE  IInv'
<1> USE DEF IInv
<1>1. /\ UNCHANGED <<batch, owed, asked, reply>>
      /\ main' = "over" /\ lPc' = "dropped" /\ cur' = NoClient /\ backlog' = <<>>
      /\ Close({c \in Clients : Open(c)}, "NoReply")
      /\ sweep' = "dropped" /\ begun' = 0 /\ ran' = FALSE
    BY DEF TaskEnded, OtherTaskEnded, Replaced, Over, jobVars
<1>2. "NoReply" \in Outcomes
    BY DEF Outcomes
<1>3. \A c \in Clients : ~Open(c)'
    BY <1>1, <1>2, Closing
<1>4. TypeOK'
    BY <1>1, <1>2, <1>3, Closing, EmptyQueue DEF TypeOK
<1>5. Streams'
    BY <1>1, <1>3, EmptyQueue DEF Streams
<1>6. Call' /\ Account'
    BY <1>1 DEF Call, Account, Answer
<1> QED
    BY <1>4, <1>5, <1>6

\* The updater asks the job to stop; the listener's call is another.
LEMMA UpdateStep ==
    ASSUME IInv, UpdateReady
    PROVE  IInv'
<1> USE DEF IInv
<1>1. /\ main = "select" /\ main' = "stopping" /\ Job!Ask("updater", "Stop")
      /\ UNCHANGED <<phase, request, told, quit, backlog, cur, lPc, sweep, begun, ran>>
    BY DEF UpdateReady, clientVars, listenerVars, history
<1>2. /\ UNCHANGED <<batch, owed>>
      /\ asked' = [asked EXCEPT !["updater"] = "Stop"]
      /\ \E k \in {"pending", "dropped"} :
            reply' = [reply EXCEPT !["updater"] = [kind |-> k, secs |-> 0]]
    BY <1>1 DEF Job!Ask, Job!Told
<1>3. /\ asked' \in [Callers -> {"Start", "StatusRequest", "Stop"}]
      /\ asked'["listener"] = asked["listener"]
    BY <1>2 DEF TypeOK, Callers
<1>4. /\ reply' \in [Callers -> Job!Replies]
      /\ Answer' = Answer
    BY <1>2 DEF TypeOK, Callers, Job!Replies, Job!Kinds, Answer
<1>5. TypeOK'
    BY <1>1, <1>2, <1>3, <1>4 DEF TypeOK, Open
<1>6. Streams'
    BY <1>1, Queued DEF Streams, Listening, Open
<1>7. Call' /\ Account'
    BY <1>1, <1>2, <1>3, <1>4 DEF Call, Account, Message
<1> QED
    BY <1>5, <1>6, <1>7

LEMMA Invariance == IInv /\ [Next]_vars => IInv'
<1> SUFFICES ASSUME IInv, [Next]_vars PROVE IInv'
    OBVIOUS
<1>1. CASE Client
    BY <1>1, ConnectStep, SendStep DEF Client
<1>2. CASE Listener
    BY <1>2, EndStep, AcceptStep, NextClientStep, ReadRequestStep DEF Listener, Serve
<1>3. CASE JobBegins \/ JobAnswers \/ JobRuns
    BY <1>3, JobStep
<1>4. CASE Retention
    BY <1>4, RetentionStep
<1>5. CASE Main
    BY <1>5, OverStep, UpdateStep DEF Main
<1>6. CASE UNCHANGED vars
  <2>1. UNCHANGED <<batch, owed, asked, reply, main, phase, request, told, quit, backlog, cur,
                    lPc, sweep, begun, ran>>
      BY <1>6 DEF vars, jobVars, clientVars, listenerVars, history
  <2>2. TypeOK'
      BY <2>1 DEF IInv, TypeOK, Open
  <2>3. Streams'
      BY <2>1, StreamsKept
  <2>4. Call' /\ Account'
      BY <2>1 DEF IInv, Call, Account, Answer, Message
  <2> QED
      BY <2>2, <2>3, <2>4 DEF IInv
<1> QED
    BY <1>1, <1>2, <1>3, <1>4, <1>5, <1>6 DEF Next

LEMMA Invariant == Spec => []IInv
BY Initially, Invariance, PTL DEF Spec

\* Every variable keeps its type, and the listener holds an open stream exactly
\* while it reads or waits (listener.rs:225-287).
THEOREM ServerTyped == Spec => []TypeOK
<1>1. IInv => TypeOK
    BY DEF IInv
<1> QED
    BY <1>1, Invariant, PTL

-----------------------------------------------------------------------------
(* What the clients are told.                                              *)

\* A step that tells a client something closes streams, or answers one client.
LEMMA Telling ==
    ASSUME IInv, [Next]_vars, NEW c \in Clients, told'[c] # told[c]
    PROVE  \/ told'[c] = "NoReply"
           \/ Respond /\ c = cur /\ told'[c] = Shown(Status(Answer))
<1> USE DEF IInv
<1>1. ASSUME NEW S, Close(S, "NoReply")
      PROVE  told'[c] = "NoReply"
    BY <1>1 DEF Close
<1>2. CASE AcceptFails \/ ReadFails \/ ReadBroken \/ DeskGone
    BY <1>1, <1>2 DEF AcceptFails, ReadFails, ReadBroken, DeskGone, EndListener
<1>3. CASE ReadNothing \/ ReadBlocked \/ ReadOther
    BY <1>1, <1>3 DEF ReadNothing, ReadBlocked, ReadOther, NextClient
<1>4. CASE TaskEnded \/ OtherTaskEnded \/ Replaced
    BY <1>1, <1>4 DEF TaskEnded, OtherTaskEnded, Replaced, Over
<1>5. CASE Respond
  <2>1. Close({cur}, Shown(Status(Answer)))
      BY <1>5 DEF Respond, NextClient
  <2> QED
      BY <1>5, <2>1 DEF Close
<1>6. ASSUME told' = told
      PROVE  FALSE
    BY <1>6
<1>7. CASE Client \/ Accept \/ ReadRequest
    BY <1>6, <1>7 DEF Client, Connect, Send, Quit, Accept, ReadRequest, clientVars
<1>8. CASE JobBegins \/ JobAnswers \/ JobRuns \/ UpdateReady
    BY <1>6, <1>8 DEF JobBegins, JobAnswers, JobRuns, JobEnds, JobHalts, UpdateReady, clientVars
<1>9. CASE Retention
    BY <1>6, <1>9 DEF Retention, SweepBegin, SweepBeginFails, SweepEnd, SweepStuck,
       Sweep, clientVars
<1>10. CASE UNCHANGED vars
    BY <1>6, <1>10 DEF vars, clientVars
<1> QED
    BY <1>2, <1>3, <1>4, <1>5, <1>7, <1>8, <1>9, <1>10 DEF Next, Listener, Serve, Main

\* Any number of clients, served one after the other: what each is told is true
\* of its own request (listener.rs:249-274).
THEOREM ClientsAreToldTheTruth == Spec => AnswersAreTrue
<1>1. ASSUME IInv, [Next]_vars, NEW c \in Clients, told'[c] # told[c]
      PROVE  /\ told'[c] = "Started" => request[c] = "move" /\ c = cur /\ begun = 1
             /\ told'[c] = "Running" => ran /\ begun = 0
             /\ told'[c] = "Idle" => request[c] = "status" /\ begun = 0
  <2> USE DEF IInv
  <2>1. CASE told'[c] = "NoReply"
      BY <2>1
  <2>2. CASE Respond /\ c = cur /\ told'[c] = Shown(Status(Answer))
    <3>1. lPc = "wait" /\ Answer \in {"InProgress", "Ok", "Failed", "TimeUntilNextScan"}
        BY <1>1, <2>2, AnswerTyped DEF Respond, Answered, Job!Kinds
    <3>2. /\ told'[c] = "Started" => Answer = "Ok"
          /\ told'[c] = "Running" => Answer = "InProgress"
          /\ told'[c] = "Idle" => Answer = "TimeUntilNextScan"
        BY <1>1, <2>2, <3>1, AnswerTyped
    <3>3. /\ request[cur] \in {"status", "move"}
          /\ asked["listener"] = IF request[cur] = "move" THEN "Start" ELSE "StatusRequest"
          /\ Answer # "Ok" => begun = 0
          /\ Answer = "Ok" => begun = 1
        BY <1>1, <3>1 DEF Call, Account, Message
    <3>4. /\ Answer = "Ok" => asked["listener"] = "Start"
          /\ Answer = "InProgress" => ran
          /\ Answer = "TimeUntilNextScan" => asked["listener"] = "StatusRequest"
        BY <1>1, <3>1 DEF Account
    <3> QED
        BY <2>2, <3>2, <3>3, <3>4
  <2> QED
      BY <1>1, <2>1, <2>2, Telling
<1>2. IInv /\ [Next]_vars =>
        [ \A c \in Clients : told'[c] # told[c] =>
            /\ told'[c] = "Started" => request[c] = "move" /\ c = cur /\ begun = 1
            /\ told'[c] = "Running" => ran /\ begun = 0
            /\ told'[c] = "Idle" => request[c] = "status" /\ begun = 0 ]_vars
    BY <1>1
<1> QED
    BY <1>2, Invariant, PTL DEF Spec, AnswersAreTrue

=============================================================================
