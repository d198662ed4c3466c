-------------------------- MODULE SocketClaim_proof --------------------------
(* Safety of the claim of the CLI socket for any instances and any older   *)
(* daemons, with crashes anywhere, on both platforms.                      *)
EXTENDS SocketClaim, TLAPS

USE DaemonsAssumption, MaxSocketsAssumption

-----------------------------------------------------------------------------
(* The inductive invariant.                                                *)

\* An instance holds the lock from its first step to its end.
LockHeld == \A p \in Procs : pc[p] # "off" <=> lock = p

\* Sockets are numbered in the order they are bound, so a number seen or
\* recorded is never given out again.
Numbering ==
    /\ \A s \in Sockets : owner[s] \in Daemons <=> s <= next
    /\ path <= next
    /\ \A d \in Daemons : seen[d] <= next
    /\ finished \subseteq 1 .. next
    /\ record <= next

Bound == {"listen", "restat", "truncate", "write", "up"}

\* A daemon holds the one socket it bound and listens on it from its second call
\* on, and a listener is open only in the hands of who bound it.
Listeners ==
    /\ \A d \in Daemons : mine[d] # NoSocket => mine[d] <= next /\ owner[mine[d]] = d
    /\ \A s \in live : mine[owner[s]] = s
    /\ \A d \in Daemons : mine[d] # NoSocket <=> pc[d] \in Bound
    /\ \A d \in Daemons : pc[d] \in Bound \ {"listen"} => mine[d] \in live
    /\ \A l \in Legacy : pc[l] \in {"off", "bind", "listen", "up"}

\* A socket of this version at the path is that of the claim that bound last.
PathIsMine ==
    \A p \in Procs :
        pc[p] \in Bound /\ path \in Sockets /\ owner[path] \in Procs => path = mine[p]

\* No window that can cost a socket was met.
Calm == raced \cap Costly = {}

\* What is about to be removed is what was seen, and its daemon is dead.
Doomed ==
    \A p \in Procs :
        /\ pc[p] \in {"probe", "record", "recheck", "unlink", "truncate", "write"}
              => seen[p] \in Sockets
        /\ Calm /\ pc[p] \in {"recheck", "unlink"} /\ path = seen[p] => path \notin Held
        /\ Calm /\ pc[p] = "unlink" => path \in {NoSocket, seen[p]}

\* The record is read on macOS only.
MacOnly == \A p \in Procs : pc[p] = "record" => macos

\* What is about to be recorded is what was bound.
Identity ==
    \A p \in Procs :
        "restat" \notin raced =>
            /\ pc[p] \in {"listen", "restat"} /\ path \in Sockets => path = mine[p]
            /\ pc[p] \in {"truncate", "write"} => seen[p] = mine[p]

\* A record outlives the instance for as long as its socket is at the path.
Finished ==
    /\ \A s \in finished : path = s /\ owner[s] \in Procs => record = s
    /\ \A p \in Procs : pc[p] \in {"listen", "restat", "truncate", "write"} => mine[p] \notin finished

IInv ==
    /\ TypeOK
    /\ LockHeld
    /\ Numbering
    /\ Listeners
    /\ PathIsMine
    /\ Doomed
    /\ MacOnly
    /\ Identity
    /\ Finished
    /\ LiveSurvives
    /\ RecordIsOwn
    /\ ClaimFailsForCause

-----------------------------------------------------------------------------
(* The steps.                                                              *)

\* Nothing is bound or locked at first.
LEMMA InitInv == Init => IInv
  <1> SUFFICES ASSUME Init PROVE IInv
    OBVIOUS
  <1>1. TypeOK
    <2>1. raced \subseteq {"probe", "unlink", "restat"} /\ macos \in BOOLEAN
      BY DEF Init
    <2>2. /\ live \subseteq 1 .. next /\ full \subseteq live
          /\ next \in 0 .. MaxSockets
          /\ path \in Sockets \cup {NoSocket, File}
          /\ record \in Sockets \cup {NoSocket}
      BY DEF Init
    <2>3. /\ owner \in [Sockets -> Daemons \cup {Nobody}]
          /\ seen \in [Daemons -> Sockets \cup {NoSocket}]
          /\ mine \in [Daemons -> Sockets \cup {NoSocket}]
      BY DEF Init
    <2> QED BY <2>1, <2>2, <2>3 DEF Init, TypeOK
  <1>2. LockHeld /\ Listeners /\ PathIsMine /\ Doomed /\ MacOnly /\ Identity /\ Finished
    BY DEF Init, LockHeld, Listeners, PathIsMine, Doomed, MacOnly, Identity, Finished, Bound,
           Daemons, NoSocket, Sockets
  <1>3. Numbering
    BY DEF Init, Numbering, Daemons, Sockets, NoSocket, File
  <1>4. LiveSurvives /\ RecordIsOwn /\ ClaimFailsForCause
    BY DEF Init, LiveSurvives, RecordIsOwn, ClaimFailsForCause, Up, Daemons, NoSocket
  <1> QED BY <1>1, <1>2, <1>3, <1>4 DEF IInv

\* An instance past the lock is alone there.
LEMMA Alone ==
    ASSUME IInv, NEW p \in Procs, pc[p] # "off"
    PROVE  lock = p /\ \A q \in Procs : q # p => pc[q] = "off"
  BY DEF IInv, LockHeld

\* Nobody holds a socket of this version but the instance past the lock.
LEMMA OursIsDead ==
    ASSUME IInv, NEW p \in Procs, pc[p] # "off", pc[p] \notin Bound,
           NEW s \in Sockets, owner[s] \in Procs
    PROVE  s \notin Held
  <1>1. SUFFICES ASSUME s \in Held PROVE FALSE
    OBVIOUS
  <1>2. PICK d \in Daemons : mine[d] = s /\ s # NoSocket
    BY <1>1 DEF Held
  <1>3. owner[s] = d /\ pc[d] \in Bound
    BY <1>2 DEF IInv, Listeners
  <1>4. d = p
    BY <1>3, Alone DEF Bound
  <1> QED BY <1>3, <1>4

\* Who listens runs.
LEMMA LiveIsHeld ==
    ASSUME IInv
    PROVE  live \subseteq Held
  <1> SUFFICES ASSUME NEW s \in live PROVE s \in Held
    OBVIOUS
  <1>1. s \in Sockets /\ s # NoSocket /\ s <= next
    BY DEF IInv, TypeOK, Sockets, NoSocket
  <1>2. owner[s] \in Daemons /\ mine[owner[s]] = s
    BY <1>1 DEF IInv, Numbering, Listeners
  <1> QED BY <1>1, <1>2 DEF Held

-----------------------------------------------------------------------------
(* The end of a process.                                                   *)

\* A process that ends, at any point and for any reason, breaks nothing.
LEMMA CloseStep ==
    ASSUME IInv, NEW d \in Daemons, pc[d] # "off", CloseAll(d)
    PROVE  IInv'
  <1> USE DEF IInv
  <1>1. /\ pc' = [pc EXCEPT ![d] = "off"]
        /\ mine' = [mine EXCEPT ![d] = NoSocket]
        /\ live' = live \ {mine[d]}
        /\ full' = full \ {mine[d]}
        /\ lock' = IF lock = d THEN Nobody ELSE lock
        /\ UNCHANGED <<macos, record, path, owner, next, seen, raced, meddled, finished, stolen>>
    BY DEF CloseAll, ghosts
  <1>2. TypeOK'
    BY <1>1 DEF TypeOK, Daemons
  <1>3. LockHeld'
    BY <1>1 DEF TypeOK, LockHeld, Daemons
  <1>4. Numbering'
    BY <1>1 DEF Numbering
  <1>11. Held' \subseteq Held
    BY <1>1 DEF TypeOK, Held
  <1>5. Listeners'
    <2>1. ASSUME NEW e \in Daemons, e # d, mine[e] # NoSocket
          PROVE  mine[e] # mine[d]
      BY <2>1 DEF Listeners
    <2>2. \A e \in Daemons : mine'[e] # NoSocket => mine'[e] <= next' /\ owner'[mine'[e]] = e
      BY <1>1, <2>1 DEF Listeners, TypeOK
    <2>3. \A s \in live' : mine'[owner'[s]] = s
      <3> SUFFICES ASSUME NEW s \in live' PROVE mine'[owner'[s]] = s
        OBVIOUS
      <3>1. mine[owner[s]] = s /\ s # mine[d]
        BY <1>1 DEF Listeners
      <3>2. owner[s] # d
        BY <3>1
      <3> QED BY <1>1, <3>1, <3>2 DEF TypeOK
    <2>4. /\ \A e \in Daemons : mine'[e] # NoSocket <=> pc'[e] \in Bound
          /\ \A l \in Legacy : pc'[l] \in {"off", "bind", "listen", "up"}
      BY <1>1 DEF Listeners, TypeOK, Bound, Daemons
    <2>5. \A e \in Daemons : pc'[e] \in Bound \ {"listen"} => mine'[e] \in live'
      <3> SUFFICES ASSUME NEW e \in Daemons, pc'[e] \in Bound \ {"listen"}
                   PROVE  mine'[e] \in live'
        OBVIOUS
      <3>1. e # d /\ pc[e] \in Bound \ {"listen"} /\ mine'[e] = mine[e]
        BY <1>1 DEF TypeOK, Bound
      <3>2. mine[e] \in live /\ mine[e] # NoSocket
        BY <3>1 DEF Listeners
      <3> QED BY <1>1, <2>1, <3>1, <3>2
    <2> QED BY <2>2, <2>3, <2>4, <2>5 DEF Listeners
  <1>6. PathIsMine'
    BY <1>1 DEF TypeOK, PathIsMine, Bound, Daemons
  <1>7. Doomed' /\ MacOnly'
    BY <1>1, <1>11 DEF TypeOK, Doomed, MacOnly, Calm, Costly, Daemons
  <1>8. Identity' /\ Finished'
    BY <1>1 DEF TypeOK, Identity, Finished, Daemons
  <1>9. LiveSurvives' /\ RecordIsOwn'
    BY <1>1 DEF TypeOK, LiveSurvives, Costly, RecordIsOwn, Up, Daemons
  <1>10. ClaimFailsForCause'
    BY <1>1 DEF TypeOK, ClaimFailsForCause, Daemons
  <1> QED BY <1>2, <1>3, <1>4, <1>5, <1>6, <1>7, <1>8, <1>9, <1>10

-----------------------------------------------------------------------------
(* The claim.                                                              *)

\* The lock is taken by a process that has done nothing else yet.
LEMMA TryLockStep ==
    ASSUME IInv, NEW p \in Procs, TryLock(p)
    PROVE  IInv'
  <1> USE DEF IInv
  <1>1. /\ pc[p] = "off" /\ lock = Nobody
        /\ lock' = p
        /\ pc' = [pc EXCEPT ![p] = "stat"]
        /\ meddled' = meddled \ {p}
        /\ UNCHANGED <<macos, record, path, live, full, owner, next, seen, mine, raced,
                       finished, stolen>>
    BY DEF TryLock, GoTo, fileVars, sockVars
  <1>2. TypeOK'
    BY <1>1 DEF TypeOK, Daemons
  <1>3. LockHeld'
    BY <1>1 DEF TypeOK, LockHeld, Daemons
  <1>4. Numbering'
    BY <1>1 DEF Numbering
  <1>5. Listeners'
    BY <1>1 DEF TypeOK, Listeners, Bound, Daemons
  <1>6. PathIsMine' /\ Doomed' /\ MacOnly' /\ Identity' /\ Finished'
    BY <1>1 DEF TypeOK, PathIsMine, Doomed, MacOnly, Calm, Costly, Held, Identity, Finished, Bound, Daemons
  <1>7. LiveSurvives' /\ RecordIsOwn' /\ ClaimFailsForCause'
    BY <1>1 DEF TypeOK, LiveSurvives, Costly, RecordIsOwn, Up, ClaimFailsForCause, Daemons
  <1> QED BY <1>2, <1>3, <1>4, <1>5, <1>6, <1>7

\* The checks that come before the removal.  A refusal means that nobody listens,
\* but on macOS, where the record must also name a socket of this version: its
\* instance would still hold the lock.
LEMMA CheckStep ==
    ASSUME IInv, NEW p \in Procs,
           StatAbsent(p) \/ Probe(p) \/ RecordMatches(p) \/ Recheck(p)
    PROVE  IInv'
  <1> USE DEF IInv
  <1>1. PICK l \in {"bind", "record", "recheck", "unlink"} : pc' = [pc EXCEPT ![p] = l]
    BY DEF StatAbsent, Probe, RecordMatches, Recheck, GoTo
  <1>2. /\ UNCHANGED <<macos, lock, record, path, live, full, owner, next, seen, mine,
                       meddled, finished, stolen>>
        /\ raced' \in {raced, raced \cup {"probe"}}
    BY DEF StatAbsent, Probe, RecordMatches, Recheck, fileVars, sockVars, ghosts
  <1>3. pc[p] \in {"stat", "probe", "record", "recheck"}
    BY DEF StatAbsent, Probe, RecordMatches, Recheck
  <1>4. l = "bind" => path = NoSocket
    BY <1>1 DEF StatAbsent, Probe, RecordMatches, Recheck, GoTo, TypeOK, Daemons
  <1>5. l # "bind" => seen[p] \in Sockets
    BY <1>1 DEF StatAbsent, Probe, RecordMatches, Recheck, GoTo, TypeOK, Doomed, Daemons
  <1>6. l = "unlink" => path = seen[p]
    BY <1>1 DEF StatAbsent, Probe, RecordMatches, Recheck, GoTo, TypeOK, Daemons
  <1>14. Calm' => Calm
    BY <1>2 DEF Calm, Costly
  <1>15. l = "record" => macos
    BY <1>1 DEF StatAbsent, Probe, RecordMatches, Recheck, GoTo, TypeOK, Daemons
  <1>7. Calm' /\ l \in {"recheck", "unlink"} /\ path = seen[p] => path \notin Held
    <2> SUFFICES ASSUME Calm', l \in {"recheck", "unlink"}, path = seen[p]
                 PROVE  path \notin Held
      OBVIOUS
    <2>1. CASE Probe(p)
      <3>1. ~macos
        BY <1>1, <2>1 DEF Probe, GoTo, TypeOK, Daemons
      <3> QED BY <1>2, <2>1, <3>1 DEF Probe, Calm, Costly
    <2>2. CASE RecordMatches(p)
      <3>1. record = seen[p] /\ seen[p] \in Sockets /\ record # NoSocket
        BY <1>5, <2>2 DEF RecordMatches, Sockets, NoSocket
      <3>2. owner[seen[p]] \in Procs
        <4>1. macos
          BY <1>3, <2>2 DEF RecordMatches, MacOnly
        <4>2. "restat" \notin raced
          BY <1>14, <4>1 DEF Calm, Costly
        <4> QED BY <3>1, <4>2 DEF RecordIsOwn
      <3> QED BY <1>3, <3>1, <3>2, OursIsDead DEF Bound
    <2>3. CASE Recheck(p)
      BY <1>14, <2>3 DEF Recheck, Doomed
    <2>4. CASE StatAbsent(p)
      BY <1>1, <2>4 DEF StatAbsent, GoTo, TypeOK, Daemons
    <2> QED BY <2>1, <2>2, <2>3, <2>4
  <1>8. TypeOK' /\ LockHeld' /\ Numbering'
    BY <1>1, <1>2, <1>3 DEF TypeOK, LockHeld, Numbering, Daemons
  <1>9. Listeners'
    BY <1>1, <1>2, <1>3 DEF TypeOK, Listeners, Bound, Daemons
  <1>10. PathIsMine' /\ Identity' /\ Finished'
    BY <1>1, <1>2 DEF TypeOK, PathIsMine, Identity, Finished, Bound, Daemons
  <1>11. Doomed' /\ MacOnly'
    BY <1>1, <1>2, <1>5, <1>6, <1>7, <1>14, <1>15 DEF TypeOK, Doomed, MacOnly, Held, Daemons
  <1>12. LiveSurvives' /\ RecordIsOwn'
    BY <1>1, <1>2 DEF TypeOK, LiveSurvives, Costly, RecordIsOwn, Up, Daemons
  <1>13. ClaimFailsForCause'
    <2>1. CASE p \in meddled
      BY <1>1, <1>2, <2>1 DEF TypeOK, ClaimFailsForCause, Daemons
    <2>2. CASE p \notin meddled
      <3>1. l # "bind" => path = seen[p]
        BY <1>1, <1>4, <2>2
           DEF StatAbsent, Probe, RecordMatches, Recheck, GoTo, TypeOK, ClaimFailsForCause, Daemons
      <3>2. l = "record" /\ record # seen[p] => seen[p] \notin finished \/ owner[seen[p]] \in Legacy
        <4> SUFFICES ASSUME l = "record", record # seen[p], seen[p] \in finished
                     PROVE  owner[seen[p]] \in Legacy
          OBVIOUS
        <4>1. owner[seen[p]] \notin Procs
          BY <3>1 DEF Finished
        <4>2. owner[seen[p]] \in Daemons
          BY <1>5 DEF Numbering, TypeOK, Daemons
        <4> QED BY <4>1, <4>2 DEF Daemons
      <3> QED BY <1>1, <1>2, <1>4, <3>1, <3>2 DEF TypeOK, ClaimFailsForCause, Daemons
    <2> QED BY <2>1, <2>2
  <1> QED BY <1>8, <1>9, <1>10, <1>11, <1>12, <1>13

\* The identity is read: of the socket found, or of the socket just bound.
LEMMA ReadStep ==
    ASSUME IInv, NEW p \in Procs, StatSocket(p) \/ Restat(p)
    PROVE  IInv'
  <1> USE DEF IInv
  <1>1. /\ path \in Sockets
        /\ seen' = [seen EXCEPT ![p] = path]
        /\ UNCHANGED <<macos, lock, record, path, live, full, owner, next, mine, raced,
                       meddled, finished, stolen>>
    BY DEF StatSocket, Restat, fileVars, sockVars, ghosts
  <1>2. \/ pc[p] = "stat" /\ pc' = [pc EXCEPT ![p] = "probe"]
        \/ pc[p] = "restat" /\ pc' = [pc EXCEPT ![p] = "truncate"]
    BY DEF StatSocket, Restat, GoTo
  <1>3. TypeOK' /\ LockHeld' /\ Numbering'
    BY <1>1, <1>2 DEF TypeOK, LockHeld, Numbering, Daemons
  <1>4. Listeners'
    BY <1>1, <1>2 DEF TypeOK, Listeners, Bound, Daemons
  <1>5. PathIsMine' /\ Identity' /\ Finished'
    BY <1>1, <1>2 DEF TypeOK, PathIsMine, Identity, Finished, Bound, Daemons
  <1>6. Doomed' /\ MacOnly'
    BY <1>1, <1>2 DEF TypeOK, Doomed, MacOnly, Calm, Costly, Held, Daemons
  <1>7. LiveSurvives' /\ RecordIsOwn' /\ ClaimFailsForCause'
    BY <1>1, <1>2 DEF TypeOK, LiveSurvives, Costly, RecordIsOwn, Up, ClaimFailsForCause, Daemons
  <1> QED BY <1>3, <1>4, <1>5, <1>6, <1>7

\* What is removed is the socket that was seen, whose daemon is dead.
LEMMA UnlinkStep ==
    ASSUME IInv, NEW p \in Procs, Unlink(p)
    PROVE  IInv'
  <1> USE DEF IInv
  <1>1. /\ pc[p] = "unlink" /\ path # NoSocket /\ path' = NoSocket
        /\ pc' = [pc EXCEPT ![p] = "bind"]
        /\ stolen' = stolen \cup (Held \cap {path})
        /\ UNCHANGED <<macos, lock, record, live, full, owner, next, seen, mine, raced,
                       meddled, finished>>
    BY DEF Unlink, GoTo, sockVars
  <1>2. Calm => path \notin Held
    BY <1>1 DEF Doomed
  <1>3. Held \subseteq Sockets
    BY DEF TypeOK, Held
  <1>4. path' \notin Sockets
    BY <1>1 DEF Sockets, NoSocket
  <1>5. TypeOK'
    BY <1>1, <1>3 DEF TypeOK, Daemons
  <1>6. LockHeld' /\ Numbering'
    BY <1>1 DEF TypeOK, LockHeld, Numbering, NoSocket, Daemons
  <1>7. Listeners'
    BY <1>1 DEF TypeOK, Listeners, Bound, Daemons
  <1>8. PathIsMine' /\ Identity'
    BY <1>1, <1>4 DEF TypeOK, PathIsMine, Identity, Daemons
  <1>9. Doomed' /\ MacOnly'
    BY <1>1, <1>4 DEF TypeOK, Doomed, MacOnly, Calm, Costly, Held, Daemons
  <1>10. Finished'
    BY <1>1, <1>4 DEF TypeOK, Finished, Daemons
  <1>11. LiveSurvives' /\ RecordIsOwn'
    BY <1>1, <1>2 DEF TypeOK, LiveSurvives, Calm, Costly, RecordIsOwn, Up, Daemons
  <1>12. ClaimFailsForCause'
    BY <1>1, Alone DEF TypeOK, ClaimFailsForCause, Daemons
  <1> QED BY <1>5, <1>6, <1>7, <1>8, <1>9, <1>10, <1>11, <1>12

\* A new socket, bound by an instance or by an older daemon, has a number nobody
\* has seen, so everything that was known of the older ones stays.
LEMMA NewSocketFacts ==
    ASSUME IInv, NEW d \in Daemons, NewSocket(d), pc[d] \notin Bound
    PROVE  /\ next + 1 \in Sockets
           /\ path' = next + 1 /\ path = NoSocket
           /\ next' = next + 1
           /\ next + 1 \notin live /\ next + 1 \notin finished
           /\ live' = live /\ pc' = [pc EXCEPT ![d] = "listen"]
           /\ owner' = [owner EXCEPT ![next + 1] = d]
           /\ mine' = [mine EXCEPT ![d] = next + 1]
           /\ full' = full
           /\ \A e \in Daemons : seen[e] # next + 1 /\ mine[e] # next + 1
           /\ record # next + 1
           /\ mine[d] = NoSocket
  <1> USE DEF IInv
  <1>1. next + 1 \in Sockets /\ next + 1 \notin 1 .. next
    BY DEF NewSocket, TypeOK, Sockets
  <1>2. mine[d] = NoSocket
    BY DEF Listeners
  <1>3. \A e \in Daemons : seen[e] # next + 1 /\ mine[e] # next + 1
    <2>1. \A e \in Daemons : seen[e] \in Int /\ seen[e] <= next
      BY DEF TypeOK, Numbering, Sockets, NoSocket
    <2>2. \A e \in Daemons : mine[e] # NoSocket => mine[e] \in 1 .. next
      BY DEF TypeOK, Listeners, Sockets
    <2> QED BY <1>1, <2>1, <2>2 DEF TypeOK, NoSocket, Sockets
  <1>4. record # next + 1
    BY DEF TypeOK, Numbering, Sockets, NoSocket
  <1> QED BY <1>1, <1>2, <1>3, <1>4 DEF NewSocket, GoTo, TypeOK, Numbering

\* The parts of the invariant a new socket disturbs in the same way whoever
\* binds it.
LEMMA NewSocketStep ==
    ASSUME IInv, NEW d \in Daemons, NewSocket(d), pc[d] \notin Bound,
           pc[d] # "off",
           UNCHANGED <<lock, seen, record, finished, stolen, macos>>,
           raced' \subseteq {"probe", "unlink", "restat"}, meddled' \subseteq Procs
    PROVE  TypeOK' /\ LockHeld' /\ Numbering' /\ Listeners'
  <1> USE DEF IInv
  <1>1. TypeOK'
    <2>0. next' \in 0 .. MaxSockets /\ next \in Nat
      BY NewSocketFacts DEF TypeOK, Sockets
    <2>1. live' \subseteq 1 .. next' /\ full' \subseteq live'
      <3>1. 1 .. next' = (1 .. next) \cup {next + 1}
        BY <2>0, NewSocketFacts
      <3> QED BY <3>1, NewSocketFacts DEF TypeOK
    <2>2. /\ owner' \in [Sockets -> Daemons \cup {Nobody}]
          /\ mine' \in [Daemons -> Sockets \cup {NoSocket}]
          /\ path' \in Sockets \cup {NoSocket, File}
      BY NewSocketFacts DEF TypeOK
    <2>3. pc' \in [Daemons -> {"off", "stat", "probe", "record", "recheck", "unlink",
                               "bind", "listen", "restat", "truncate", "write", "up"}]
      BY NewSocketFacts DEF TypeOK
    <2> QED BY <2>0, <2>1, <2>2, <2>3 DEF TypeOK
  <1>2. LockHeld'
    BY NewSocketFacts DEF TypeOK, LockHeld, Daemons
  <1>3. Numbering'
    <2>1. \A s \in Sockets : owner'[s] \in Daemons <=> s <= next'
      <3> SUFFICES ASSUME NEW s \in Sockets PROVE owner'[s] \in Daemons <=> s <= next'
        OBVIOUS
      <3>1. next \in Nat /\ s \in Nat /\ next' = next + 1
        BY NewSocketFacts DEF TypeOK, Sockets
      <3>2. CASE s = next + 1
        BY <3>1, <3>2, NewSocketFacts DEF TypeOK
      <3>3. CASE s # next + 1
        <4>1. owner'[s] = owner[s]
          BY <3>3, NewSocketFacts DEF TypeOK
        <4> QED BY <3>1, <3>3, <4>1 DEF Numbering
      <3> QED BY <3>2, <3>3
    <2>2. /\ path' <= next' /\ finished' \subseteq 1 .. next' /\ record' <= next'
          /\ \A e \in Daemons : seen'[e] <= next'
      BY NewSocketFacts DEF TypeOK, Numbering, Sockets, NoSocket
    <2> QED BY <2>1, <2>2 DEF Numbering
  <1>4. Listeners'
    <2>1. \A e \in Daemons : mine'[e] # NoSocket => mine'[e] <= next' /\ owner'[mine'[e]] = e
      BY NewSocketFacts DEF TypeOK, Listeners, Sockets
    <2>2. \A s \in live' : mine'[owner'[s]] = s
      <3> SUFFICES ASSUME NEW s \in live' PROVE mine'[owner'[s]] = s
        OBVIOUS
      <3>1. s \in live /\ s # next + 1
        BY NewSocketFacts
      <3>2. s \in Sockets /\ s # NoSocket
        BY <3>1 DEF TypeOK, Sockets, NoSocket
      <3>3. mine[owner[s]] = s
        BY <3>1 DEF Listeners
      <3>4. owner[s] # d
        BY <3>2, <3>3, NewSocketFacts
      <3>5. owner'[s] = owner[s]
        BY <3>1, <3>2, NewSocketFacts DEF TypeOK
      <3>6. owner[s] \in Daemons
        BY <3>1, <3>2 DEF TypeOK, Numbering
      <3>7. mine'[owner[s]] = mine[owner[s]]
        BY <3>4, <3>6, NewSocketFacts DEF TypeOK
      <3> QED BY <3>3, <3>5, <3>7
    <2>3. \A e \in Daemons : mine'[e] # NoSocket <=> pc'[e] \in Bound
      BY NewSocketFacts DEF TypeOK, Listeners, Bound, Sockets, NoSocket
    <2>4. /\ \A e \in Daemons : pc'[e] \in Bound \ {"listen"} => mine'[e] \in live'
          /\ \A e \in Legacy : pc'[e] \in {"off", "bind", "listen", "up"}
      BY NewSocketFacts DEF TypeOK, Listeners, Daemons
    <2> QED BY <2>1, <2>2, <2>3, <2>4 DEF Listeners
  <1> QED BY <1>1, <1>2, <1>3, <1>4

\* The socket of the instance is at the path.
LEMMA BindStep ==
    ASSUME IInv, NEW p \in Procs, Bind(p)
    PROVE  IInv'
  <1> USE DEF IInv
  <1>1. /\ pc[p] = "bind" /\ NewSocket(p)
        /\ UNCHANGED <<macos, lock, record, seen, raced, meddled, finished, stolen>>
        /\ p \in Daemons /\ p \notin Legacy /\ pc[p] \notin Bound
    BY DEF Bind, ghosts, Daemons, Bound
  <1>2. TypeOK' /\ LockHeld' /\ Numbering' /\ Listeners'
    BY <1>1, NewSocketStep DEF Bound, TypeOK
  <1>3. \A q \in Procs : q # p => pc[q] = "off"
    BY <1>1, Alone
  <1>4. PathIsMine' /\ Doomed' /\ MacOnly' /\ Identity'
    BY <1>1, <1>3, NewSocketFacts DEF TypeOK, PathIsMine, Doomed, MacOnly, Identity, Bound, Daemons
  <1>5. Finished'
    BY <1>1, <1>3, NewSocketFacts DEF TypeOK, Finished, Numbering, Daemons
  <1>6. LiveSurvives'
    BY <1>1 DEF LiveSurvives, Costly
  <1>7. RecordIsOwn'
    BY <1>1, <1>3, NewSocketFacts DEF TypeOK, RecordIsOwn, Up, Daemons
  <1>8. ClaimFailsForCause'
    BY <1>1, <1>3, NewSocketFacts DEF TypeOK, ClaimFailsForCause, Daemons
  <1> QED BY <1>2, <1>4, <1>5, <1>6, <1>7, <1>8

\* From here on the socket answers.
LEMMA OpensStep ==
    ASSUME IInv, NEW d \in Daemons, NEW l \in {"restat", "up"}, Opens(d, l),
           l = "restat" <=> d \in Procs
    PROVE  IInv'
  <1> USE DEF IInv
  <1>1. /\ pc[d] = "listen" /\ pc' = [pc EXCEPT ![d] = l]
        /\ live' = live \cup {mine[d]}
        /\ UNCHANGED <<macos, lock, record, path, full, owner, next, seen, mine, raced,
                       meddled, finished, stolen>>
    BY DEF Opens, GoTo, fileVars, ghosts
  <1>2. mine[d] \in 1 .. next /\ owner[mine[d]] = d /\ mine[d] # NoSocket
    BY <1>1 DEF TypeOK, Listeners, Bound, Sockets
  <1>3. d \in Legacy <=> l = "up"
    BY DEF Daemons
  <1>4. TypeOK' /\ LockHeld' /\ Numbering'
    BY <1>1, <1>2, <1>3 DEF TypeOK, LockHeld, Numbering, Daemons
  <1>5. Listeners'
    BY <1>1, <1>2, <1>3 DEF TypeOK, Listeners, Bound, Daemons
  <1>6. PathIsMine' /\ Finished' /\ Identity'
    BY <1>1, <1>3 DEF TypeOK, PathIsMine, Finished, Identity, Bound, Daemons
  <1>7. Doomed' /\ MacOnly'
    BY <1>1, <1>3 DEF TypeOK, Doomed, MacOnly, Calm, Costly, Held, Daemons
  <1>8. LiveSurvives' /\ RecordIsOwn' /\ ClaimFailsForCause'
    BY <1>1, <1>3 DEF TypeOK, LiveSurvives, Costly, RecordIsOwn, Up, ClaimFailsForCause, Daemons
  <1> QED BY <1>4, <1>5, <1>6, <1>7, <1>8

\* The record is made invalid, then rewritten.
LEMMA RecordStep ==
    ASSUME IInv, NEW p \in Procs, Truncate(p) \/ WriteRecord(p)
    PROVE  IInv'
  <1> USE DEF IInv
  <1>1. /\ UNCHANGED <<macos, lock, path, live, full, owner, next, seen, mine, raced,
                       meddled, stolen>>
        /\ \/ /\ pc[p] = "truncate" /\ pc' = [pc EXCEPT ![p] = "write"]
              /\ record' = NoSocket /\ finished' = finished
           \/ /\ pc[p] = "write" /\ pc' = [pc EXCEPT ![p] = "up"]
              /\ record' = seen[p] /\ finished' = finished \cup {seen[p]}
              /\ seen[p] \in Sockets
    <2>1. CASE Truncate(p)
      BY <2>1 DEF Truncate, GoTo, sockVars, ghosts
    <2>2. CASE WriteRecord(p)
      BY <2>2 DEF WriteRecord, GoTo, sockVars, Doomed
    <2> QED BY <2>1, <2>2
  <1>2. \A q \in Procs : q # p => pc[q] = "off"
    BY <1>1, Alone
  <1>3. TypeOK' /\ LockHeld'
    BY <1>1 DEF TypeOK, LockHeld, Daemons
  <1>4. Numbering'
    <2>1. seen[p] <= next /\ NoSocket <= next /\ record' <= next
      BY <1>1 DEF Numbering, TypeOK, NoSocket, Daemons
    <2>2. finished' \subseteq 1 .. next
      <3>1. seen[p] \in Sockets => seen[p] \in 1 .. next
        BY <2>1 DEF TypeOK, Sockets
      <3> QED BY <1>1, <3>1 DEF Numbering
    <2> QED BY <1>1, <2>1, <2>2 DEF Numbering
  <1>5. Listeners' /\ PathIsMine'
    BY <1>1 DEF TypeOK, Listeners, PathIsMine, Bound, Daemons
  <1>6. Doomed' /\ MacOnly' /\ Identity'
    BY <1>1 DEF TypeOK, Doomed, MacOnly, Calm, Costly, Held, Identity, Daemons
  <1>7. Finished'
    <2>1. \A s \in finished : path = s /\ owner[s] \in Procs => FALSE
      BY <1>1 DEF Finished, PathIsMine, Bound, TypeOK, Sockets
    <2>2. \A q \in Procs :
            pc'[q] \in {"listen", "restat", "truncate", "write"} => mine'[q] \notin finished'
      BY <1>1, <1>2 DEF Finished, TypeOK, Daemons
    <2> QED BY <1>1, <2>1, <2>2 DEF Finished
  <1>8. LiveSurvives'
    BY <1>1 DEF LiveSurvives, Costly
  <1>9. RecordIsOwn'
    <2>1. "restat" \notin raced => seen[p] = mine[p]
      BY <1>1 DEF Identity
    <2>2. owner[mine[p]] = p
      BY <1>1 DEF Listeners, Bound, Daemons
    <2> QED BY <1>1, <1>2, <2>1, <2>2 DEF TypeOK, RecordIsOwn, Up, Daemons
  <1>10. ClaimFailsForCause'
    BY <1>1, <1>2 DEF TypeOK, ClaimFailsForCause, Daemons
  <1> QED BY <1>3, <1>4, <1>5, <1>6, <1>7, <1>8, <1>9, <1>10

-----------------------------------------------------------------------------
(* The outside, and the theorem.                                           *)

\* An older daemon removes what it finds: a claim under way is meddled with.
LEMMA LegacyUnlinkStep ==
    ASSUME IInv, NEW l \in Legacy, LegacyUnlink(l)
    PROVE  IInv'
  <1> USE DEF IInv
  <1>1. /\ pc[l] = "off" /\ pc' = [pc EXCEPT ![l] = "bind"]
        /\ path' = IF path \in Sockets THEN NoSocket ELSE path
        /\ meddled' = meddled \cup Claiming
        /\ UNCHANGED <<macos, lock, record, live, full, owner, next, seen, mine, raced,
                       finished, stolen>>
        /\ l \in Daemons /\ l \notin Procs
    BY DEF LegacyUnlink, GoTo, sockVars, Daemons
  <1>2. path' \notin Sockets /\ path' \in {NoSocket, File}
    BY <1>1 DEF TypeOK, Sockets, NoSocket, File
  <1>3. \A p \in Procs : pc'[p] = pc[p]
    BY <1>1 DEF TypeOK
  <1>4. TypeOK'
    BY <1>1, <1>2 DEF TypeOK, Claiming
  <1>5. LockHeld' /\ Identity' /\ PathIsMine'
    BY <1>1, <1>2, <1>3 DEF LockHeld, Identity, PathIsMine
  <1>6. Numbering'
    <2>1. path' <= next
      BY <1>2 DEF TypeOK, NoSocket, File
    <2> QED BY <1>1, <2>1 DEF Numbering
  <1>7. Listeners'
    BY <1>1 DEF TypeOK, Listeners, Bound
  <1>8. Doomed' /\ MacOnly'
    <2>1. ASSUME NEW p \in Procs, Calm, pc[p] = "unlink"
          PROVE  path' \in {NoSocket, seen[p]}
      BY <1>1, <2>1 DEF Doomed, NoSocket
    <2>2. ASSUME NEW p \in Procs, pc[p] \in {"recheck", "unlink"}
          PROVE  path' # seen[p]
      BY <1>2, <2>2 DEF Doomed
    <2> QED BY <1>1, <1>3, <2>1, <2>2 DEF Doomed, MacOnly, Calm, Costly
  <1>9. Finished'
    BY <1>1, <1>2, <1>3 DEF Finished, TypeOK
  <1>10. LiveSurvives' /\ RecordIsOwn'
    BY <1>1, <1>3 DEF LiveSurvives, Costly, RecordIsOwn, Up
  <1>11. ClaimFailsForCause'
    BY <1>1, <1>3 DEF ClaimFailsForCause, Claiming
  <1> QED BY <1>4, <1>5, <1>6, <1>7, <1>8, <1>9, <1>10, <1>11

\* An older daemon binds: in a window it spoils what the claim knew.
LEMMA LegacyBindStep ==
    ASSUME IInv, NEW l \in Legacy, LegacyBind(l)
    PROVE  IInv'
  <1> USE DEF IInv
  <1>1. /\ pc[l] = "bind" /\ NewSocket(l)
        /\ raced' = raced \cup Windows
        /\ meddled' = meddled \cup Claiming
        /\ UNCHANGED <<macos, lock, record, seen, finished, stolen>>
        /\ l \in Daemons /\ l \notin Procs /\ pc[l] \notin Bound
    BY DEF LegacyBind, Daemons, Bound
  <1>2. raced' \subseteq {"probe", "unlink", "restat"} /\ meddled' \subseteq Procs
    BY <1>1 DEF TypeOK, Windows, Claiming
  <1>3. TypeOK' /\ LockHeld' /\ Numbering' /\ Listeners'
    BY <1>1, <1>2, NewSocketStep DEF Bound
  <1>4. /\ \A p \in Procs : pc'[p] = pc[p] /\ mine'[p] = mine[p]
        /\ owner'[path'] = l
        /\ \A s \in Sockets : s # path' => owner'[s] = owner[s]
        /\ \A p \in Procs : seen[p] # path' /\ p \in Daemons
        /\ path' \in Sockets /\ path' # record /\ path' \notin finished
        /\ Held' = Held \cup {path'}
    BY <1>1, NewSocketFacts DEF TypeOK, Daemons, Held, Sockets, NoSocket
  <1>5. PathIsMine'
    BY <1>1, <1>4 DEF PathIsMine
  <1>6. /\ Calm' => Calm /\ \A p \in Procs : pc[p] # "unlink"
        /\ "restat" \notin raced' =>
               "restat" \notin raced /\ \A p \in Procs : pc[p] \notin {"listen", "restat"}
    BY <1>1 DEF Windows, Calm, Costly
  <1>7. Doomed' /\ MacOnly' /\ Identity'
    BY <1>1, <1>4, <1>6 DEF Doomed, MacOnly, Identity
  <1>8. Finished'
    BY <1>1, <1>4 DEF Finished
  <1>9. LiveSurvives'
    BY <1>1, <1>6 DEF LiveSurvives, Calm
  <1>10. RecordIsOwn'
    BY <1>1, <1>4, <1>6 DEF TypeOK, RecordIsOwn, Up, NoSocket
  <1>11. ClaimFailsForCause'
    BY <1>1, <1>4 DEF ClaimFailsForCause, Claiming
  <1> QED BY <1>3, <1>5, <1>7, <1>8, <1>9, <1>10, <1>11

\* Only full changes, or nothing.
LEMMA BacklogStep ==
    ASSUME IInv,
           \/ \E s \in Sockets : BacklogFills(s) \/ BacklogDrains(s)
           \/ UNCHANGED vars
    PROVE  IInv'
  <1> USE DEF IInv
  <1>1. /\ full' \subseteq live
        /\ UNCHANGED <<macos, lock, record, path, live, owner, next, pc, seen, mine, raced,
                       meddled, finished, stolen>>
    BY DEF BacklogFills, BacklogDrains, vars, fileVars, ghosts, TypeOK
  <1>2. TypeOK' /\ LockHeld' /\ Numbering' /\ Listeners' /\ PathIsMine'
    BY <1>1 DEF TypeOK, LockHeld, Numbering, Listeners, PathIsMine
  <1>3. Doomed' /\ MacOnly' /\ Identity' /\ Finished' /\ LiveSurvives' /\ RecordIsOwn' /\ ClaimFailsForCause'
    BY <1>1 DEF Doomed, MacOnly, Calm, Costly, Held, Identity, Finished, LiveSurvives,
                RecordIsOwn, ClaimFailsForCause, Up
  <1> QED BY <1>2, <1>3

\* No step of an instance, of an older daemon or of the kernel breaks the
\* invariant.
LEMMA NextInv == IInv /\ [Next]_vars => IInv'
  <1> SUFFICES ASSUME IInv, [Next]_vars PROVE IInv'
    OBVIOUS
  <1>1. ASSUME NEW p \in Procs, Claim(p) PROVE IInv'
    <2>1. CASE TryLock(p)
      BY <2>1, TryLockStep
    <2>2. CASE StatAbsent(p) \/ Probe(p) \/ RecordMatches(p) \/ Recheck(p)
      BY <2>2, CheckStep
    <2>3. CASE StatSocket(p) \/ Restat(p)
      BY <2>3, ReadStep
    <2>4. CASE Unlink(p) \/ Bind(p)
      BY <2>4, UnlinkStep, BindStep
    <2>7. CASE Listen(p)
      BY <2>7, OpensStep DEF Listen, Daemons
    <2>5. CASE Truncate(p) \/ WriteRecord(p)
      BY <2>5, RecordStep
    <2>6. CASE \/ StatFile(p) \/ ProbeFails(p) \/ RecordDiffers(p) \/ RecheckFails(p)
               \/ UnlinkFails(p) \/ BindFails(p) \/ RestatFails(p)
      <3>1. pc[p] # "off" /\ CloseAll(p) /\ p \in Daemons
        BY <2>6 DEF StatFile, ProbeFails, RecordDiffers, RecheckFails, UnlinkFails,
                    BindFails, RestatFails, Daemons
      <3> QED BY <3>1, CloseStep
    <2> QED BY <1>1, <2>1, <2>2, <2>3, <2>4, <2>5, <2>6, <2>7 DEF Claim
  <1>2. ASSUME NEW l \in Legacy, LegacyUnlink(l) \/ LegacyBind(l) \/ LegacyListen(l) PROVE IInv'
    <2>1. CASE LegacyListen(l)
      BY <2>1, OpensStep DEF LegacyListen, Daemons
    <2> QED BY <1>2, <2>1, LegacyUnlinkStep, LegacyBindStep
  <1>3. ASSUME NEW d \in Daemons, Crash(d) PROVE IInv'
    BY <1>3, CloseStep DEF Crash
  <1>4. ASSUME \/ \E s \in Sockets : BacklogFills(s) \/ BacklogDrains(s)
               \/ UNCHANGED vars
        PROVE  IInv'
    BY <1>4, BacklogStep
  <1> QED BY <1>1, <1>2, <1>3, <1>4 DEF Next

\* The inductive invariant holds of every behaviour of the claims.
THEOREM Invariance == Spec => []IInv
  BY InitInv, NextInv, PTL DEF Spec

\* Every variable keeps its type, for any instances and older daemons.
THEOREM TypeCorrect == Spec => []TypeOK
  <1>1. IInv => TypeOK
    BY DEF IInv
  <1> QED BY Invariance, <1>1, PTL

\* Two instances never are past the lock together: their jobs never overlap.
THEOREM Exclusion == Spec => []OneInstance
  <1>1. IInv => OneInstance
    BY DEF IInv, LockHeld, OneInstance
  <1> QED BY <1>1, Invariance, PTL

\* A socket of this version at the path belongs to the instance that is up.
THEOREM Reachable == Spec => []UpIsReachable
  <1>1. IInv => UpIsReachable
    BY DEF IInv, PathIsMine, UpIsReachable, Up, Bound
  <1> QED BY <1>1, Invariance, PTL

\* No claim removes a socket whose daemon runs, unless an older daemon meets one
\* of the windows that LiveSurvives names: on Linux it has bound and does not
\* listen at the probe, or it binds between the second look and the removal.
THEOREM NoLiveSocketIsRemoved == Spec => []LiveSurvives
  <1>1. IInv => LiveSurvives
    BY DEF IInv
  <1> QED BY <1>1, Invariance, PTL

\* The record names a socket of this version, that of the instance that is up.
THEOREM RecordIsTruthful == Spec => []RecordIsOwn
  <1>1. IInv => RecordIsOwn
    BY DEF IInv
  <1> QED BY <1>1, Invariance, PTL

\* An undisturbed claim fails only for a listener or an unfinished claim.
THEOREM Recovery == Spec => []ClaimFailsForCause
  <1>1. IInv => ClaimFailsForCause
    BY DEF IInv
  <1> QED BY <1>1, Invariance, PTL
=============================================================================
