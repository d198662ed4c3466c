----------------------------- MODULE ScanLibrary -----------------------------
(***************************************************************************)
(* The job that has Plex refresh a library when its directories change:    *)
(* scan_library_job in src/server/src/lib.rs.  Watchers send the number of *)
(* a library through a channel; the job waits until no event has come for  *)
(* half a second, looks for broken links, asks the move job for its status *)
(* and refreshes the library of the last event.                            *)
(*                                                                         *)
(* Around it: the libraries, which downloads, removals and batches of the  *)
(* move job change, the DAS the links lead to, and the move job as its     *)
(* flag is answered (MoveJob!FlagTruthful) or as it is gone.               *)
(***************************************************************************)
EXTENDS Integers, Sequences

CONSTANTS
    Libs,       \* the pairs of the move map, one per library of Plex
    Enough,     \* links that find_broken_symlinks looks at: 10
    MaxLinks,   \* bound: links at the top of a library
    MaxChanges, \* bound: changes of a library
    Trouble     \* TRUE: batches, outages of the DAS, errors and broken links

ASSUME BoundsAssumption ==
    /\ Enough \in Nat \ {0} /\ MaxLinks \in Nat /\ MaxChanges \in Nat
    /\ Trouble \in BOOLEAN

VARIABLES
    links, bad, \* per library: its links, and those broken while the DAS is on
    das,        \* the DAS is mounted
    moving,     \* a batch runs
    desk,       \* the front desk of the move job answers
    changes,    \* number of changes so far
    queue,      \* the events in the channel
    pc,         \* where the job is
    res,        \* the event at hand, {} before the first
    todo,       \* history: libraries changed since the last decision on them
    dropped,    \* history: those whose events the debounce dropped
    saw,        \* history: at some time since the debounce ended the DAS was
                \* mounted, or no link was in the library at hand
    calm        \* history: at some time since then no batch ran

dirs == <<links, bad, das>>
outside == <<dirs, moving, desk, changes>>
history == <<todo, dropped, saw, calm>>
vars == <<outside, queue, pc, res, history>>

Counts == [Libs -> 0 .. MaxLinks]
Sound == [l \in Libs |-> 0]

Init ==
    /\ links \in Counts /\ bad = Sound
    /\ das = TRUE /\ moving = FALSE /\ desk = TRUE
    /\ changes = 0
    /\ queue = <<>> /\ pc = "recv" /\ res = {}
    /\ todo = {} /\ dropped = {} /\ saw = FALSE /\ calm = FALSE

-----------------------------------------------------------------------------
(* The job.                                                                *)

\* Libraries whose change is decided on only if another event says so again.
Dropping(l) == (todo \cap res) \ ({l} \cup { queue[i] : i \in DOMAIN queue })

\* The first event of a round.
Recv ==
    /\ pc = "recv" /\ queue # <<>>
    /\ res' = {Head(queue)} /\ queue' = Tail(queue)
    /\ pc' = "debounce"
    /\ UNCHANGED <<outside, history>>

\* An event within the half second takes the place of the one at hand.
Debounce ==
    /\ pc = "debounce" /\ queue # <<>>
    /\ res' = {Head(queue)} /\ queue' = Tail(queue)
    /\ dropped' = dropped \cup Dropping(Head(queue))
    /\ UNCHANGED <<outside, pc, todo, saw, calm>>

\* Mutant of Quiet: the event waits for one more.
QuietWaits ==
    /\ pc = "debounce"
    /\ pc' = "recv"
    /\ UNCHANGED <<outside, queue, res, history>>

Quiet ==
    /\ pc = "debounce"
    /\ pc' = "links"
    /\ saw' = (das \/ \E l \in res : links[l] = 0)
    /\ calm' = ~moving
    /\ UNCHANGED <<outside, queue, res, todo, dropped>>

\* Mutant of LooksSound: a library with enough links is not looked at.
LooksSoundByNumber(l) ==
    \/ links[l] = 0 \/ links[l] >= Enough
    \/ das /\ bad[l] = 0

\* find_broken_symlinks goes through the top of the local directory in any
\* order, until a link is broken or enough are not.
LooksSound(l) ==
    \/ links[l] = 0
    \/ das /\ (bad[l] = 0 \/ links[l] - bad[l] >= Enough)

LooksBroken(l) == links[l] > 0 /\ (~das \/ bad[l] > 0)

LinksSound ==
    /\ pc = "links"
    /\ \A l \in res : LooksSound(l)
    /\ pc' = "ask"
    /\ UNCHANGED <<outside, queue, res, history>>

\* A broken link: canonicalize has an error for it, which skips the scan without a
\* look at the move job.  So does a directory that cannot be read.
LinksBroken ==
    /\ pc = "links"
    /\ \/ \E l \in res : LooksBroken(l)
       \/ Trouble
    /\ pc' = "recv"
    /\ todo' = todo \ res
    /\ UNCHANGED <<outside, queue, res, dropped, saw, calm>>

\* canonicalize found the target and metadata does not: the links are broken, which
\* is no error.  The move job is asked all the same.
LinkGoes ==
    /\ pc = "links"
    /\ Trouble /\ \E l \in res : links[l] > 0
    /\ pc' = "skip"
    /\ UNCHANGED <<outside, queue, res, history>>

Skip ==
    /\ pc = "skip" /\ desk
    /\ pc' = "recv"
    /\ todo' = todo \ res
    /\ UNCHANGED <<outside, queue, res, dropped, saw, calm>>

\* The front desk reads its flag for the answer: no batch runs.
NotMoving ==
    /\ pc = "ask" /\ desk
    /\ ~moving
    /\ pc' = "refresh"
    /\ UNCHANGED <<outside, queue, res, history>>

Moving ==
    /\ pc = "ask" /\ desk
    /\ moving
    /\ pc' = "recv"
    /\ todo' = todo \ res
    /\ UNCHANGED <<outside, queue, res, dropped, saw, calm>>

\* The send fails or the oneshot is dropped: a ? ends the job.
AskFails ==
    /\ pc \in {"ask", "skip"} /\ ~desk
    /\ pc' = "dead"
    /\ UNCHANGED <<outside, queue, res, history>>

\* The request goes to Plex; an answer other than 200 is logged.
Refresh ==
    /\ pc = "refresh"
    /\ pc' = "recv"
    /\ todo' = todo \ res
    /\ UNCHANGED <<outside, queue, res, dropped, saw, calm>>

Job ==
    \/ Recv \/ Debounce \/ Quiet
    \/ LinksSound \/ LinksBroken \/ LinkGoes \/ Skip
    \/ NotMoving \/ Moving \/ AskFails
    \/ Refresh

-----------------------------------------------------------------------------
(* Around the job.                                                         *)

\* Mutant of Change: one event too many.
ChangeUncounted(l) ==
    /\ changes < MaxChanges
    /\ queue' = queue \o <<l, l>>
    /\ changes' = changes + 1
    /\ todo' = todo \cup {l}
    /\ dropped' = dropped \ {l}
    /\ UNCHANGED <<dirs, moving, desk, pc, res, saw, calm>>

\* A file is created, modified or removed on either disk of a library.
Change(l) ==
    /\ changes < MaxChanges
    /\ changes' = changes + 1
    /\ queue' = Append(queue, l)
    /\ \E n \in 0 .. MaxLinks, b \in 0 .. (IF Trouble THEN MaxLinks ELSE 0) :
          /\ b <= n
          /\ links' = [links EXCEPT ![l] = n]
          /\ bad' = [bad EXCEPT ![l] = b]
          /\ saw' = (saw \/ (l \in res /\ n = 0))
    /\ todo' = todo \cup {l}
    /\ dropped' = dropped \ {l}
    /\ UNCHANGED <<das, moving, desk, pc, res, calm>>

Plug ==
    /\ Trouble
    /\ das' = ~das
    /\ saw' = (saw \/ das')
    /\ UNCHANGED <<links, bad, moving, desk, changes, queue, pc, res, todo, dropped, calm>>

Batch ==
    /\ Trouble /\ desk
    /\ moving' = ~moving
    /\ calm' = (calm \/ ~moving')
    /\ UNCHANGED <<dirs, desk, changes, queue, pc, res, todo, dropped, saw>>

\* The front desk ends with a Stop or an error, and the process soon after.
DeskEnds ==
    /\ Trouble /\ desk
    /\ desk' = FALSE
    /\ UNCHANGED <<dirs, moving, changes, queue, pc, res, history>>

Next == Job \/ (\E l \in Libs : Change(l)) \/ Plug \/ Batch \/ DeskEnds

Spec == Init /\ [][Next]_vars

\* The job's task runs, its timer fires, and the front desk answers
\* (MoveJob!EveryCallAnswered).
FairSpec == Spec /\ WF_vars(Job)

-----------------------------------------------------------------------------
(* What is checked.                                                        *)

\* Every variable keeps its type, and a library is at hand outside of recv.
TypeOK ==
    /\ links \in Counts /\ bad \in Counts
    /\ \A l \in Libs : bad[l] <= links[l]
    /\ {das, moving, desk, saw, calm} \subseteq BOOLEAN
    /\ changes \in 0 .. MaxChanges
    /\ queue \in Seq(Libs) /\ Len(queue) <= changes
    /\ pc \in {"recv", "debounce", "links", "ask", "skip", "refresh", "dead"}
    /\ res \subseteq Libs
    /\ pc # "recv" => \E l \in Libs : res = {l}
    /\ todo \subseteq Libs /\ dropped \subseteq Libs

\* lib.rs:600, "when the external storage is disconnected, we do not clear out
\* the library": a library that leads to the DAS is refreshed only if the DAS
\* was there, and no batch ran, at some time after its last event; an outage
\* or a batch that goes on through the whole round is never missed.
RefreshJustified ==
    [][ pc = "refresh" /\ pc' # "refresh" =>
            calm /\ saw ]_vars

\* A change is followed by a decision on its library, to refresh or to skip,
\* unless the debounce dropped its event for another library's or the job ended.
ForgottenOnlyByDebounce ==
    \A l \in Libs : l \in todo ~> l \notin todo \/ l \in dropped \/ pc = "dead"
=============================================================================
