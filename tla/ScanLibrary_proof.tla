-------------------------- MODULE ScanLibrary_proof --------------------------
(***************************************************************************)
(* What ScanLibrary guarantees for any number of libraries, links and      *)
(* changes.                                                                *)
(***************************************************************************)
EXTENDS ScanLibrary, TLAPS

-----------------------------------------------------------------------------
(* The inductive invariant.                                                *)

\* What the job knows at each step of a round: the DAS, if it is there, was seen
\* in this round, and so was a time without a batch, if none runs.
Knows ==
    /\ pc = "links" =>
          /\ das \/ (\E l \in res : links[l] = 0) => saw
          /\ ~moving => calm
    /\ pc = "ask" => saw /\ (~moving => calm)
    /\ pc = "refresh" => saw /\ calm

IInv == TypeOK /\ Knows

\* Steps that leave the channel alone.
InsideSteps ==
    \/ Quiet \/ LinksSound \/ LinksBroken \/ LinkGoes \/ Skip \/ NotMoving \/ Moving \/ AskFails \/ Refresh
    \/ Plug \/ Batch \/ DeskEnds

LEMMA InitInv == Init => IInv
<1> SUFFICES ASSUME Init PROVE IInv
    OBVIOUS
<1>1. links \in Counts /\ bad \in Counts /\ \A l \in Libs : bad[l] <= links[l]
    BY BoundsAssumption DEF Init, Counts, Sound
<1>2. changes \in 0 .. MaxChanges /\ queue \in Seq(Libs) /\ Len(queue) <= changes
    BY BoundsAssumption DEF Init
<1> QED
    BY <1>1, <1>2 DEF Init, IInv, TypeOK, Knows

LEMMA ReceiveInv == IInv /\ (Recv \/ Debounce) => IInv'
<1> SUFFICES ASSUME IInv, Recv \/ Debounce PROVE IInv'
    OBVIOUS
<1>1. /\ queue \in Seq(Libs) /\ queue # <<>> /\ Len(queue) <= changes /\ changes \in Nat
      /\ res' = {Head(queue)} /\ queue' = Tail(queue) /\ pc' = "debounce"
      /\ UNCHANGED <<outside, todo, saw, calm>>
    BY DEF IInv, TypeOK, Recv, Debounce, history
<1>2. /\ Head(queue) \in Libs /\ Tail(queue) \in Seq(Libs)
      /\ Len(Tail(queue)) <= changes
    BY <1>1
<1>3. dropped' \subseteq Libs
    BY DEF IInv, TypeOK, Recv, Debounce, Dropping, history
<1>4. TypeOK'
    BY <1>1, <1>2, <1>3 DEF IInv, TypeOK, outside, dirs
<1>5. Knows'
    BY <1>1 DEF Knows
<1> QED
    BY <1>4, <1>5 DEF IInv

LEMMA InsideInv == IInv /\ InsideSteps => IInv'
<1> SUFFICES ASSUME IInv, InsideSteps PROVE IInv'
    OBVIOUS
<1> USE DEF outside, dirs, history
<1>1. /\ UNCHANGED <<links, bad, changes, queue, res>>
      /\ pc' \in {"recv", "debounce", "links", "ask", "skip", "refresh", "dead"}
      /\ pc' # "recv" => pc # "recv" \/ pc' = pc
      /\ todo' \subseteq Libs /\ dropped' \subseteq Libs
    BY DEF IInv, TypeOK, InsideSteps, Quiet, LinksSound, LinksBroken, LinkGoes, Skip, NotMoving,
        Moving, AskFails, Refresh, Plug, Batch, DeskEnds
<1>2. {das', moving', desk', saw', calm'} \subseteq BOOLEAN
    BY DEF IInv, TypeOK, InsideSteps, Quiet, LinksSound, LinksBroken, LinkGoes, Skip, NotMoving,
        Moving, AskFails, Refresh, Plug, Batch, DeskEnds
<1>3. TypeOK'
    BY <1>1, <1>2 DEF IInv, TypeOK
<1>4. Knows'
  <2>1. CASE Quiet
      BY <2>1 DEF Knows, Quiet
  <2>2. CASE LinksSound
      BY <2>2 DEF IInv, TypeOK, Knows, LinksSound, LooksSound
  <2>3. CASE NotMoving
      BY <2>3 DEF IInv, Knows, NotMoving
  <2>4. CASE Moving \/ AskFails \/ Refresh \/ LinksBroken \/ LinkGoes \/ Skip
      BY <2>4 DEF Knows, Moving, AskFails, Refresh, LinksBroken, LinkGoes, Skip
  <2>5. CASE Plug
      BY <2>5 DEF IInv, Knows, Plug
  <2>6. CASE Batch
      BY <2>6 DEF IInv, Knows, Batch
  <2>7. CASE DeskEnds
      BY <2>7 DEF IInv, Knows, DeskEnds
  <2> QED
      BY <2>1, <2>2, <2>3, <2>4, <2>5, <2>6, <2>7 DEF InsideSteps
<1> QED
    BY <1>3, <1>4 DEF IInv

LEMMA ChangeInv == ASSUME IInv, NEW l \in Libs, Change(l) PROVE IInv'
<1> USE DEF outside, dirs, history
<1>1. PICK n \in 0 .. MaxLinks, b \in 0 .. (IF Trouble THEN MaxLinks ELSE 0) :
          /\ b <= n
          /\ links' = [links EXCEPT ![l] = n]
          /\ bad' = [bad EXCEPT ![l] = b]
          /\ saw' = (saw \/ (l \in res /\ n = 0))
    BY DEF Change
<1>2. b \in 0 .. MaxLinks
    BY BoundsAssumption
<1>3. /\ links' \in Counts /\ bad' \in Counts
      /\ \A m \in Libs : bad'[m] <= links'[m]
    BY <1>1, <1>2 DEF IInv, TypeOK, Counts
<1>4. /\ changes' \in 0 .. MaxChanges
      /\ queue' \in Seq(Libs) /\ Len(queue') <= changes'
    BY BoundsAssumption DEF IInv, TypeOK, Change
<1>5. saw' \in BOOLEAN
    BY <1>1
<1>6. TypeOK'
    BY <1>3, <1>4, <1>5 DEF IInv, TypeOK, Change
<1>7. Knows'
  <2>1. /\ saw => saw'
        /\ \A m \in res : links'[m] = 0 => links[m] = 0 \/ saw'
      BY <1>1 DEF IInv, TypeOK, Counts
  <2>2. UNCHANGED <<das, moving, pc, res, calm>>
      BY DEF Change
  <2> QED
      BY <2>1, <2>2 DEF IInv, Knows
<1> QED
    BY <1>6, <1>7 DEF IInv

LEMMA NextInv == IInv /\ [Next]_vars => IInv'
<1> SUFFICES ASSUME IInv, [Next]_vars PROVE IInv'
    OBVIOUS
<1>1. CASE UNCHANGED vars
    BY <1>1 DEF vars, outside, dirs, history, IInv, TypeOK, Knows
<1>2. CASE Recv \/ Debounce
    BY <1>2, ReceiveInv
<1>3. CASE InsideSteps
    BY <1>3, InsideInv
<1>4. CASE \E l \in Libs : Change(l)
    BY <1>4, ChangeInv
<1> QED
    BY <1>1, <1>2, <1>3, <1>4 DEF Next, Job, InsideSteps

-----------------------------------------------------------------------------
(* The theorems.                                                           *)

\* Every variable keeps its type.
THEOREM TypeCorrect == Spec => []TypeOK
<1>1. IInv => TypeOK
    BY DEF IInv
<1> QED
    BY <1>1, InitInv, NextInv, PTL DEF Spec

\* No refresh is sent through an outage of the DAS or a batch that lasts the
\* whole round, whatever changes meanwhile (lib.rs:811-830).
THEOREM Justified == Spec => RefreshJustified
<1>1. IInv /\ [Next]_vars => [pc = "refresh" /\ pc' # "refresh" => calm /\ saw]_vars
    BY DEF IInv, Knows
<1> QED
    BY <1>1, InitInv, NextInv, PTL DEF Spec, RefreshJustified

-----------------------------------------------------------------------------
(* What keeps a change from being forgotten.                               *)

Events == { queue[i] : i \in DOMAIN queue }

\* A library that changed and was not decided on has an event in the channel or
\* at hand, or the debounce dropped its event for another library's.  This is the
\* part of ForgottenOnlyByDebounce that no fairness gives (lib.rs:792-809).
NothingForgotten ==
    \A l \in todo : \/ l \in dropped \cup Events
                    \/ pc # "recv" /\ l \in res
                    \/ pc = "dead"

\* An event joins the channel.
LEMMA EventJoins ==
    ASSUME NEW q \in Seq(Libs), NEW l \in Libs, queue = q, queue' = Append(q, l)
    PROVE  Events' = Events \cup {l}
<1>1. /\ DOMAIN q = 1 .. Len(q) /\ Len(q) \in Nat
      /\ DOMAIN Append(q, l) = 1 .. Len(q) + 1
      /\ \A i \in 1 .. Len(q) : Append(q, l)[i] = q[i]
      /\ Append(q, l)[Len(q) + 1] = l
    OBVIOUS
<1> QED
    BY <1>1 DEF Events

\* The job takes the oldest event, and loses none of the others.
LEMMA EventLeaves ==
    ASSUME NEW q \in Seq(Libs), q # <<>>, queue = q, queue' = Tail(q)
    PROVE  Events \subseteq Events' \cup {Head(q)}
<1>1. /\ DOMAIN q = 1 .. Len(q) /\ Len(q) \in Nat \ {0}
      /\ DOMAIN Tail(q) = 1 .. Len(q) - 1
      /\ \A i \in 1 .. Len(q) - 1 : Tail(q)[i] = q[i + 1]
      /\ Head(q) = q[1]
    OBVIOUS
<1>2. ASSUME NEW i \in 1 .. Len(q), i # 1
      PROVE  q[i] \in Events'
  <2>1. i - 1 \in DOMAIN Tail(q) /\ Tail(q)[i - 1] = q[i]
      BY <1>1, <1>2
  <2> QED
      BY <2>1 DEF Events
<1> QED
    BY <1>1, <1>2 DEF Events

LEMMA RememberStep == IInv /\ NothingForgotten /\ [Next]_vars => NothingForgotten'
<1> SUFFICES ASSUME IInv, NothingForgotten, [Next]_vars PROVE NothingForgotten'
    OBVIOUS
<1>0. queue \in Seq(Libs)
    BY DEF IInv, TypeOK
<1>1. CASE Recv
  <2>1. /\ pc = "recv" /\ pc' = "debounce" /\ queue # <<>> /\ res' = {Head(queue)}
        /\ queue' = Tail(queue) /\ UNCHANGED <<todo, dropped>>
      BY <1>1 DEF Recv, history
  <2>2. Events \subseteq Events' \cup res'
      BY <1>0, <2>1, EventLeaves
  <2> QED
      BY <2>1, <2>2 DEF NothingForgotten
<1>2. CASE Debounce
  <2>1. /\ pc' = pc /\ pc = "debounce" /\ queue # <<>> /\ res' = {Head(queue)}
        /\ queue' = Tail(queue) /\ todo' = todo
        /\ dropped' = dropped \cup ((todo \cap res) \ (res' \cup Events))
      BY <1>2 DEF Debounce, Dropping, Events
  <2>2. Events \subseteq Events' \cup res'
      BY <1>0, <2>1, EventLeaves
  <2> QED
      BY <2>1, <2>2 DEF NothingForgotten
<1>3. CASE LinksBroken \/ Skip \/ Moving \/ Refresh
  <2>1. todo' = todo \ res /\ pc # "dead" /\ UNCHANGED <<queue, dropped>>
      BY <1>3 DEF LinksBroken, Skip, Moving, Refresh
  <2> QED
      BY <2>1 DEF NothingForgotten, Events
<1>4. CASE Quiet \/ LinksSound \/ LinkGoes \/ NotMoving \/ AskFails
  <2>1. pc # "recv" /\ pc' # "recv" /\ pc # "dead" /\ UNCHANGED <<queue, res, todo, dropped>>
      BY <1>4 DEF Quiet, LinksSound, LinkGoes, NotMoving, AskFails, history
  <2> QED
      BY <2>1 DEF NothingForgotten, Events
<1>5. ASSUME NEW l \in Libs, Change(l)
      PROVE  NothingForgotten'
  <2>1. /\ todo' = todo \cup {l} /\ dropped' = dropped \ {l} /\ UNCHANGED <<pc, res>>
        /\ queue' = Append(queue, l)
      BY <1>5 DEF Change
  <2>2. Events' = Events \cup {l}
      BY <1>0, <2>1, EventJoins
  <2> QED
      BY <2>1, <2>2 DEF NothingForgotten
<1>6. CASE Plug \/ Batch \/ DeskEnds \/ UNCHANGED vars
    BY <1>6 DEF Plug, Batch, DeskEnds, vars, history, NothingForgotten, Events
<1> QED
    BY <1>1, <1>2, <1>3, <1>4, <1>5, <1>6 DEF Next, Job

\* For any number of libraries and changes, a change is decided on, still has its
\* event, or was dropped by the debounce (lib.rs:792-809).
THEOREM ChangesAreRemembered == Spec => []NothingForgotten
<1>1. Init => NothingForgotten
    BY DEF Init, NothingForgotten
<1> QED
    BY <1>1, RememberStep, InitInv, NextInv, PTL DEF Spec
=============================================================================
