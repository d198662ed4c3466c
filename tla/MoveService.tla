----------------------------- MODULE MoveService -----------------------------
(***************************************************************************)
(* What the move job promises to the tasks that call it, without its front *)
(* desk, channels and flag: at most one batch runs at a time; an Ok to a   *)
(* Start stands for exactly one batch, begun on that request; an Ok to a   *)
(* Stop is given when no batch runs and none ever will; InProgress is said *)
(* only while a batch runs or after the job failed; a caller is let down   *)
(* ("dropped", "Failed") only when the job has ended.                      *)
(* Module MoveJob implements it (MoveJob!Implements).                      *)
(***************************************************************************)
EXTENDS Integers

CONSTANTS Callers, Asks, NoCaller, MaxSecs

VARIABLES
    batch,  \* "none", "scheduled", "explicit", "halted" or "failed"
    owed,   \* the caller whose request was granted and who is not yet told
    asked,  \* per caller: its last message
    reply   \* per caller: what it was told

vars == <<batch, owed, asked, reply>>

Kinds == {"none", "pending", "dropped", "InProgress", "Ok", "Failed",
          "TimeUntilNextScan"}
Replies == [kind : Kinds, secs : 0 .. MaxSecs]

Told(k) == [kind |-> k, secs |-> 0]
Pending(c) == reply[c].kind = "pending"

Init ==
    /\ batch = "none"
    /\ owed = NoCaller
    /\ asked = [c \in Callers |-> "StatusRequest"]
    /\ reply = [c \in Callers |-> Told("none")]

Ask(c, m) ==
    /\ m \in Asks[c]
    /\ ~Pending(c)
    /\ asked' = [asked EXCEPT ![c] = m]
    /\ \/ reply' = [reply EXCEPT ![c] = Told("pending")]
       \/ batch \in {"halted", "failed"} /\ reply' = [reply EXCEPT ![c] = Told("dropped")]
    /\ UNCHANGED <<batch, owed>>

BeginScheduled ==
    /\ batch = "none"
    /\ batch' = "scheduled"
    /\ UNCHANGED <<owed, asked, reply>>

BeginExplicit(c) ==
    /\ batch = "none"
    /\ owed = NoCaller
    /\ Pending(c) /\ asked[c] = "Start"
    /\ batch' = "explicit"
    /\ owed' = c
    /\ UNCHANGED <<asked, reply>>

Halt(c) ==
    /\ batch = "none"
    /\ owed = NoCaller
    /\ Pending(c) /\ asked[c] = "Stop"
    /\ batch' = "halted"
    /\ owed' = c
    /\ UNCHANGED <<asked, reply>>

EndBatch ==
    /\ batch \in {"scheduled", "explicit"}
    /\ batch' = "none"
    /\ UNCHANGED <<owed, asked, reply>>

Fail ==
    /\ batch = "scheduled"
    /\ batch' = "failed"
    /\ UNCHANGED <<owed, asked, reply>>

Refuse(c) ==
    /\ batch \in {"scheduled", "explicit", "failed"}
    /\ Pending(c) /\ asked[c] # "Stop" /\ c # owed
    /\ reply' = [reply EXCEPT ![c] = Told("InProgress")]
    /\ UNCHANGED <<batch, owed, asked>>

\* The countdown may be read after a scheduled batch began: the flag is
\* loaded first.
Countdown(c) ==
    /\ Pending(c) /\ asked[c] = "StatusRequest"
    /\ \E n \in 0 .. MaxSecs :
          reply' = [reply EXCEPT ![c] = [kind |-> "TimeUntilNextScan", secs |-> n]]
    /\ UNCHANGED <<batch, owed, asked>>

LetDown(lost, k, r) ==
    [c \in Callers |-> IF c \in lost THEN Told(k) ELSE r[c]]

\* The caller that stopped the job takes the queued callers down with it.
Grant ==
    /\ owed # NoCaller
    /\ owed' = NoCaller
    /\ \E lost \in SUBSET { c \in Callers : Pending(c) /\ c # owed } :
          /\ lost # {} => batch = "halted" /\ asked[owed] = "Stop"
          /\ reply' = LetDown(lost, "dropped", [reply EXCEPT ![owed] = Told("Ok")])
    /\ UNCHANGED <<batch, asked>>

Abandon ==
    /\ batch \in {"halted", "failed"}
    /\ \E lost \in (SUBSET { c \in Callers : Pending(c) /\ c # owed }) \ {{}},
          k \in {"dropped", "Failed"} :
          reply' = LetDown(lost, k, reply)
    /\ UNCHANGED <<batch, owed, asked>>

Next ==
    \/ \E c \in Callers :
          \/ \E m \in Asks[c] : Ask(c, m)
          \/ BeginExplicit(c) \/ Halt(c) \/ Refuse(c) \/ Countdown(c)
    \/ BeginScheduled \/ EndBatch \/ Fail \/ Grant \/ Abandon

Spec == Init /\ [][Next]_vars
==============================================================================
