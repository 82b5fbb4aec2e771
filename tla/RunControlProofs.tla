-------------------------- MODULE RunControlProofs --------------------------
(***************************************************************************)
(* Proofs about RunControl, for any sets of HTTP and WebSocket requests.   *)
(*                                                                         *)
(* ControlInv adds to the properties what they rest on: that a run which   *)
(* has not ended has no result and no final status stored, that what is    *)
(* still to be written ends with the result, and that one WebSocket        *)
(* request at most is under way, the one whose task is remembered.         *)
(*                                                                         *)
(* At the end, proofs about EventStream, which carries the events of the   *)
(* same runs, for any clients and limits.                                  *)
(***************************************************************************)
EXTENDS RunControl, EventStream, SequenceTheorems, TLAPS

UnderWay(r) == pc[r] \notin {"new", "answered", "dead"}

\* Before its run has ended a request has no result and stores no final status.
NoResultBeforeEnd ==
  \A r \in Request : pc[r] \in {"new", "opening", "opened", "head", "blocked", "woken"} =>
    /\ result[r] = "none"
    /\ store[r] \notin Terminal
    /\ pending[r] = <<>>

\* Of what is still to be written only the last may be final: the result.
PendingIsTrue ==
  \A r \in Request : \A i \in 1 .. Len(pending[r]) :
    pending[r][i] \in Terminal => pending[r][i] = result[r]

\* While it is written, an untouched row lacks its result or has it.
ReplayReachesResult ==
  \A r \in Request : pc[r] = "replaying" /\ r \notin touched =>
    /\ result[r] # "none"
    /\ pending[r] # <<>> => pending[r][Len(pending[r])] = result[r]
    /\ pending[r] = <<>> =>
         \/ store[r] = result[r]
         \/ store[r] = "created" /\ noise[r] /\ result[r] = "failed"

\* The row of an untouched run that is opened is there.
OpenedHasRow ==
  \A r \in Request : pc[r] = "opened" /\ r \notin touched => store[r] = "created"

OneTask == \A w \in Ws : UnderWay(w) => activeTask = w

ControlInv ==
  /\ TypeOK
  /\ OneRunAtATime
  /\ NoResultBeforeEnd /\ PendingIsTrue /\ StoredStatusIsTrue
  /\ OpenedHasRow /\ ReplayReachesResult /\ AnsweredRunIsStored
  /\ OneTask /\ WsRunsStayAttached
  /\ CommandsReachNoEndedRun

-----------------------------------------------------------------------------
(***************************************************************************)
(* Every reachable state has the right shape.                              *)
(***************************************************************************)
\* The sequences that pending can be set to are sequences of statuses.
LEMMA PendingType ==
  /\ <<>> \in Seq(RunStatus)
  /\ <<"failed">> \in Seq(RunStatus)
  /\ \A status \in Terminal : Replay(status) \in Seq(RunStatus)
<1> USE DEF RunStatus, Terminal, Replay
<1>1. <<>> \in Seq(RunStatus) /\ <<"failed">> \in Seq(RunStatus)
  OBVIOUS
<1>2. ASSUME NEW status \in Terminal PROVE Replay(status) \in Seq(RunStatus)
  OBVIOUS
<1> QED
  BY <1>1, <1>2

\* The initial state has the right shape.
LEMMA InitType == Init => TypeOK
<1> SUFFICES ASSUME Init PROVE TypeOK
  OBVIOUS
<1>1. pc \in [Request -> Places] /\ touched \subseteq Request
  BY DEF Init, Places
<1>2. pending \in [Request -> Seq(RunStatus)]
  BY PendingType DEF Init
<1>3. result \in [Request -> Terminal \cup {"none"}]
  BY DEF Init
<1>4. store \in [Request -> RunStatus \cup {"absent"}]
  BY DEF Init
<1> QED
  BY <1>1, <1>2, <1>3, <1>4 DEF Init, TypeOK

\* What opening the store does: it makes the run's row or ends the request.
LEMMA OpenStoreStep ==
  ASSUME NEW r \in Request, OpenStore(r)
  PROVE  /\ pc[r] = "opening"
         /\ UNCHANGED <<busy, activeRunner, activeTask, noise, result, pending,
                        touched>>
         /\ \/ /\ pc' = [pc EXCEPT ![r] = "opened"]
               /\ store[r] = "absent" /\ store' = [store EXCEPT ![r] = "created"]
            \/ /\ pc' = [pc EXCEPT ![r] = "dead"]
               /\ UNCHANGED store
BY DEF OpenStore, Goto

\* What update_run_status does: it writes the first status and keeps the rest,
\* or it gives up.
LEMMA UpdateStatusStep ==
  ASSUME TypeOK, NEW r \in Request, UpdateStatus(r)
  PROVE  /\ pc[r] = "replaying"
         /\ UNCHANGED <<busy, activeRunner, activeTask, paused, cancelled, noise,
                        result, touched>>
         /\ \/ \E status \in RunStatus, rest \in Seq(RunStatus) :
                 /\ status = pending[r][1]
                 /\ Len(pending[r]) = Len(rest) + 1
                 /\ \A i \in 1 .. Len(rest) : rest[i] = pending[r][i + 1]
                 /\ store' = [store EXCEPT ![r] = status]
                 /\ pending' = [pending EXCEPT ![r] = rest]
                 /\ UNCHANGED pc
            \/ /\ pc' = [pc EXCEPT ![r] = "dead"]
               /\ pending' = [pending EXCEPT ![r] = <<>>]
               /\ UNCHANGED store
<1>1. pending[r] # <<>> /\ pending[r] \in Seq(RunStatus)
  BY DEF UpdateStatus, TypeOK
<1> DEFINE rest == Tail(pending[r])
<1>2. /\ Head(pending[r]) \in RunStatus /\ rest \in Seq(RunStatus)
      /\ Head(pending[r]) = pending[r][1]
      /\ Len(pending[r]) = Len(rest) + 1
      /\ \A i \in 1 .. Len(rest) : rest[i] = pending[r][i + 1]
  BY <1>1
<1>3. CASE store[r] # "absent" /\ Head(pending[r]) \in Follows(store[r])
  BY <1>2, <1>3 DEF UpdateStatus, flags
<1>4. CASE ~(store[r] # "absent" /\ Head(pending[r]) \in Follows(store[r]))
  BY <1>4 DEF UpdateStatus, flags, Goto
<1> QED
  BY <1>3, <1>4

\* Writing a status keeps the shape of the state.
LEMMA UpdateStatusType ==
  ASSUME TypeOK, NEW r \in Request, UpdateStatus(r)
  PROVE  TypeOK'
<1>1. UNCHANGED <<busy, activeRunner, activeTask, paused, cancelled, noise,
                   result, touched>>
  BY UpdateStatusStep
<1>2. ASSUME NEW status \in RunStatus, NEW rest \in Seq(RunStatus),
             store' = [store EXCEPT ![r] = status],
             pending' = [pending EXCEPT ![r] = rest],
             UNCHANGED pc
      PROVE  TypeOK'
  BY <1>1, <1>2 DEF TypeOK
<1>3. CASE /\ pc' = [pc EXCEPT ![r] = "dead"]
           /\ pending' = [pending EXCEPT ![r] = <<>>]
           /\ UNCHANGED store
  BY <1>1, <1>3, PendingType DEF TypeOK, Places
<1> QED
  BY <1>2, <1>3, UpdateStatusStep

\* Every step keeps the shape of the state.
LEMMA NextType == TypeOK /\ [Next]_vars => TypeOK'
<1> SUFFICES ASSUME TypeOK, [Next]_vars PROVE TypeOK'
  OBVIOUS
<1> USE RequestAssumption DEF TypeOK, Request, Places, RunStatus, Terminal, flags
<1>1. ASSUME NEW h \in Http, HttpAccept(h) PROVE TypeOK'
  BY <1>1 DEF HttpAccept, Goto
<1>2. ASSUME NEW w \in Ws, WsStart(w) PROVE TypeOK'
  BY <1>2 DEF WsStart, Goto
<1>3. ASSUME NEW r \in Request, OpenStore(r) PROVE TypeOK'
  BY <1>3 DEF OpenStore, Goto, DropRunner
<1>4. ASSUME NEW r \in Request, StoreFails(r) PROVE TypeOK'
  BY <1>4 DEF StoreFails, Goto, DropRunner
<1>5. ASSUME NEW r \in Request, Reject(r) PROVE TypeOK'
  BY <1>5, PendingType DEF Reject, Goto, DropRunner, Released
<1>6. ASSUME NEW r \in Request, Begin(r) PROVE TypeOK'
  BY <1>6 DEF Begin, Goto
<1>7. ASSUME NEW r \in Request, Wait(r) PROVE TypeOK'
  BY <1>7 DEF Wait, Goto
<1>8. ASSUME NEW r \in Request, Proceed(r) PROVE TypeOK'
  BY <1>8 DEF Proceed, Goto
<1>9. ASSUME NEW r \in Request, NEW status \in Terminal, End(r, status) PROVE TypeOK'
  BY <1>9, PendingType DEF End, Goto, DropRunner, Released
<1>10. ASSUME NEW r \in Request, UpdateStatus(r) PROVE TypeOK'
  BY <1>10, UpdateStatusType
<1>11. ASSUME NEW r \in Request, AppendEvents(r) PROVE TypeOK'
  BY <1>11 DEF AppendEvents, Goto
<1>12. ASSUME NEW r \in Request, Command(r) PROVE TypeOK'
  <2>1. CASE Pause(r)
    BY <2>1 DEF Pause
  <2>2. CASE Resume(r)
    BY <2>2 DEF Resume
  <2>3. CASE Cancel(r)
    BY <2>3 DEF Cancel
  <2> QED
    BY <1>12, <2>1, <2>2, <2>3 DEF Command
<1>13. ASSUME NEW r \in Request, Post(r) PROVE TypeOK'
  BY <1>13 DEF Post, Touch
<1>14. ASSUME NEW R \in SUBSET Request, Delete(R) PROVE TypeOK'
  BY <1>14 DEF Delete, Touch
<1>15. CASE Restart
  BY <1>15, PendingType DEF Restart
<1>16. CASE UNCHANGED vars
  BY <1>16 DEF vars
<1> QED
  BY <1>1, <1>2, <1>3, <1>4, <1>5, <1>6, <1>7, <1>8, <1>9, <1>10, <1>11, <1>12,
     <1>13, <1>14, <1>15, <1>16 DEF Next, Progress

\* The server's state and the rows of the run store keep their shape.
THEOREM TypeCorrect == Spec => []TypeOK
BY InitType, NextType, PTL DEF Spec
-----------------------------------------------------------------------------
\* The flag and the executing run come and go together.
LEMMA NextOneRun ==
  ASSUME TypeOK, OneRunAtATime, [Next]_vars
  PROVE  OneRunAtATime'
<1> USE RequestAssumption DEF TypeOK, OneRunAtATime, Executing, flags, Request
<1>1. ASSUME NEW h \in Http, HttpAccept(h)
      PROVE  OneRunAtATime'
  BY <1>1 DEF HttpAccept, Goto
<1>2. ASSUME NEW w \in Ws, WsStart(w)
      PROVE  OneRunAtATime'
  BY <1>2 DEF WsStart, Goto
<1>3. ASSUME NEW r \in Request, OpenStore(r)
      PROVE  OneRunAtATime'
  <2>1. pc[r] = "opening" /\ UNCHANGED <<busy, activeRunner, activeTask, noise,
                                           result, pending, touched>>
    BY <1>3, OpenStoreStep
  <2>2. CASE pc' = [pc EXCEPT ![r] = "opened"] /\ store' = [store EXCEPT ![r] = "created"]
    BY <2>1, <2>2
  <2>3. CASE pc' = [pc EXCEPT ![r] = "dead"] /\ UNCHANGED store
    BY <2>1, <2>3
  <2> QED
    BY <1>3, <2>2, <2>3, OpenStoreStep
<1>4. ASSUME NEW r \in Request, StoreFails(r)
      PROVE  OneRunAtATime'
  BY <1>4 DEF StoreFails, Goto, DropRunner
<1>5. ASSUME NEW r \in Request, Reject(r)
      PROVE  OneRunAtATime'
  BY <1>5 DEF Reject, Goto, DropRunner, Released
<1>6. ASSUME NEW r \in Request, Begin(r)
      PROVE  OneRunAtATime'
  BY <1>6 DEF Begin, Goto
<1>7. ASSUME NEW r \in Request, Wait(r)
      PROVE  OneRunAtATime'
  BY <1>7 DEF Wait, Goto
<1>8. ASSUME NEW r \in Request, Proceed(r)
      PROVE  OneRunAtATime'
  BY <1>8 DEF Proceed, Goto
<1>9. ASSUME NEW r \in Request, NEW status \in Terminal, End(r, status)
      PROVE  OneRunAtATime'
  BY <1>9 DEF End, Goto, DropRunner, Released
<1>10. ASSUME NEW r \in Request, UpdateStatus(r)
      PROVE  OneRunAtATime'
  <2>1. /\ pc[r] = "replaying"
        /\ UNCHANGED <<busy, activeRunner, activeTask, result, touched>>
        /\ pc' = pc \/ pc' = [pc EXCEPT ![r] = "dead"]
    BY <1>10, UpdateStatusStep
  <2> QED
    BY <2>1
<1>11. ASSUME NEW r \in Request, AppendEvents(r)
      PROVE  OneRunAtATime'
  BY <1>11 DEF AppendEvents, Goto
<1>12. ASSUME NEW r \in Request, Pause(r)
      PROVE  OneRunAtATime'
  BY <1>12 DEF Pause, Reached, Finished
<1>13. ASSUME NEW r \in Request, Resume(r)
      PROVE  OneRunAtATime'
  BY <1>13 DEF Resume, Reached, Finished
<1>14. ASSUME NEW r \in Request, Cancel(r)
      PROVE  OneRunAtATime'
  BY <1>14 DEF Cancel
<1>15. ASSUME NEW r \in Request, Post(r)
      PROVE  OneRunAtATime'
  BY <1>15 DEF Post, Touch, Known
<1>16. ASSUME NEW R \in SUBSET Request, Delete(R)
      PROVE  OneRunAtATime'
  BY <1>16 DEF Delete, Touch
<1>17. CASE Restart
  BY <1>17 DEF Restart
<1>18. CASE UNCHANGED vars
  BY <1>18 DEF vars
<1> QED
  BY <1>1, <1>2, <1>3, <1>4, <1>5, <1>6, <1>7, <1>8, <1>9,
     <1>10, <1>11, <1>12, <1>13, <1>14, <1>15, <1>16, <1>17, <1>18
     DEF Next, Progress, Command

\* What is stored, or still to be written, as final is the result.
LEMMA NextResults ==
  ASSUME TypeOK, NoResultBeforeEnd, PendingIsTrue, StoredStatusIsTrue, [Next]_vars
  PROVE  NoResultBeforeEnd' /\ PendingIsTrue' /\ StoredStatusIsTrue'
<1> USE RequestAssumption DEF TypeOK, NoResultBeforeEnd, PendingIsTrue, StoredStatusIsTrue, flags
<1>1. ASSUME NEW h \in Http, HttpAccept(h)
      PROVE  NoResultBeforeEnd' /\ PendingIsTrue' /\ StoredStatusIsTrue'
  BY <1>1 DEF HttpAccept, Goto
<1>2. ASSUME NEW w \in Ws, WsStart(w)
      PROVE  NoResultBeforeEnd' /\ PendingIsTrue' /\ StoredStatusIsTrue'
  BY <1>2 DEF WsStart, Goto
<1>3. ASSUME NEW r \in Request, OpenStore(r)
      PROVE  NoResultBeforeEnd' /\ PendingIsTrue' /\ StoredStatusIsTrue'
  <2>1. pc[r] = "opening" /\ UNCHANGED <<busy, activeRunner, activeTask, noise,
                                           result, pending, touched>>
    BY <1>3, OpenStoreStep
  <2>2. CASE pc' = [pc EXCEPT ![r] = "opened"] /\ store' = [store EXCEPT ![r] = "created"]
    BY <2>1, <2>2 DEF Terminal
  <2>3. CASE pc' = [pc EXCEPT ![r] = "dead"] /\ UNCHANGED store
    BY <2>1, <2>3
  <2> QED
    BY <1>3, <2>2, <2>3, OpenStoreStep
<1>4. ASSUME NEW r \in Request, StoreFails(r)
      PROVE  NoResultBeforeEnd' /\ PendingIsTrue' /\ StoredStatusIsTrue'
  BY <1>4 DEF StoreFails, Goto, DropRunner
<1>5. ASSUME NEW r \in Request, Reject(r)
      PROVE  NoResultBeforeEnd' /\ PendingIsTrue' /\ StoredStatusIsTrue'
  BY <1>5 DEF Reject, Goto, DropRunner, Released
<1>6. ASSUME NEW r \in Request, Begin(r)
      PROVE  NoResultBeforeEnd' /\ PendingIsTrue' /\ StoredStatusIsTrue'
  BY <1>6 DEF Begin, Goto
<1>7. ASSUME NEW r \in Request, Wait(r)
      PROVE  NoResultBeforeEnd' /\ PendingIsTrue' /\ StoredStatusIsTrue'
  BY <1>7 DEF Wait, Goto
<1>8. ASSUME NEW r \in Request, Proceed(r)
      PROVE  NoResultBeforeEnd' /\ PendingIsTrue' /\ StoredStatusIsTrue'
  BY <1>8 DEF Proceed, Goto
<1>9. ASSUME NEW r \in Request, NEW status \in Terminal, End(r, status)
      PROVE  NoResultBeforeEnd' /\ PendingIsTrue' /\ StoredStatusIsTrue'
  <2>1. \A i \in 1 .. Len(Replay(status)) :
          Replay(status)[i] \in Terminal => Replay(status)[i] = status
    BY DEF Replay, Terminal
  <2>2. store[r] \notin Terminal
    BY <1>9 DEF End
  <2> QED
    BY <1>9, <2>1, <2>2 DEF End, Goto, DropRunner
<1>10. ASSUME NEW r \in Request, UpdateStatus(r)
      PROVE  NoResultBeforeEnd' /\ PendingIsTrue' /\ StoredStatusIsTrue'
  <2>1. pc[r] = "replaying" /\ UNCHANGED result
    BY <1>10, UpdateStatusStep
  <2>2. ASSUME NEW status \in RunStatus, NEW rest \in Seq(RunStatus),
               status = pending[r][1], Len(pending[r]) = Len(rest) + 1,
               \A i \in 1 .. Len(rest) : rest[i] = pending[r][i + 1],
               store' = [store EXCEPT ![r] = status],
               pending' = [pending EXCEPT ![r] = rest],
               UNCHANGED pc
        PROVE  NoResultBeforeEnd' /\ PendingIsTrue' /\ StoredStatusIsTrue'
    <3>1. Len(rest) \in Nat /\ Len(pending[r]) \in Nat
      BY <2>2
    <3>2. status \in Terminal => status = result[r]
      <4>1. 1 \in 1 .. Len(pending[r])
        BY <2>2, <3>1
      <4> QED
        BY <2>2, <4>1
    <3>3. ASSUME NEW i \in 1 .. Len(rest), rest[i] \in Terminal
          PROVE  rest[i] = result[r]
      <4>1. i + 1 \in 1 .. Len(pending[r]) /\ rest[i] = pending[r][i + 1]
        BY <2>2, <3>1
      <4> QED
        BY <3>3, <4>1
    <3>4. StoredStatusIsTrue' /\ NoResultBeforeEnd'
      BY <2>1, <2>2, <3>2
    <3>5. PendingIsTrue'
      BY <2>1, <2>2, <3>3
    <3> QED
      BY <3>4, <3>5
  <2>3. CASE /\ pc' = [pc EXCEPT ![r] = "dead"]
             /\ pending' = [pending EXCEPT ![r] = <<>>]
             /\ UNCHANGED store
    BY <2>1, <2>3
  <2> QED
    BY <1>10, <2>2, <2>3, UpdateStatusStep
<1>11. ASSUME NEW r \in Request, AppendEvents(r)
      PROVE  NoResultBeforeEnd' /\ PendingIsTrue' /\ StoredStatusIsTrue'
  BY <1>11 DEF AppendEvents, Goto
<1>12. ASSUME NEW r \in Request, Pause(r)
      PROVE  NoResultBeforeEnd' /\ PendingIsTrue' /\ StoredStatusIsTrue'
  BY <1>12 DEF Pause, Reached, Finished
<1>13. ASSUME NEW r \in Request, Resume(r)
      PROVE  NoResultBeforeEnd' /\ PendingIsTrue' /\ StoredStatusIsTrue'
  BY <1>13 DEF Resume, Reached, Finished
<1>14. ASSUME NEW r \in Request, Cancel(r)
      PROVE  NoResultBeforeEnd' /\ PendingIsTrue' /\ StoredStatusIsTrue'
  BY <1>14 DEF Cancel
<1>15. ASSUME NEW r \in Request, Post(r)
      PROVE  NoResultBeforeEnd' /\ PendingIsTrue' /\ StoredStatusIsTrue'
  BY <1>15 DEF Post, Touch, Terminal
<1>16. ASSUME NEW R \in SUBSET Request, Delete(R)
      PROVE  NoResultBeforeEnd' /\ PendingIsTrue' /\ StoredStatusIsTrue'
  BY <1>16 DEF Delete, Touch, Terminal
<1>17. CASE Restart
  BY <1>17 DEF Restart
<1>18. CASE UNCHANGED vars
  BY <1>18 DEF vars
<1> QED
  BY <1>1, <1>2, <1>3, <1>4, <1>5, <1>6, <1>7, <1>8, <1>9,
     <1>10, <1>11, <1>12, <1>13, <1>14, <1>15, <1>16, <1>17, <1>18
     DEF Next, Progress, Command

\* An untouched row is written up to the result.
LEMMA NextRows ==
  ASSUME TypeOK, NoResultBeforeEnd, OpenedHasRow, ReplayReachesResult,
         AnsweredRunIsStored, [Next]_vars
  PROVE  OpenedHasRow' /\ ReplayReachesResult' /\ AnsweredRunIsStored'
<1> USE RequestAssumption DEF TypeOK, NoResultBeforeEnd, OpenedHasRow, ReplayReachesResult,
                              AnsweredRunIsStored, flags
<1>1. ASSUME NEW h \in Http, HttpAccept(h)
      PROVE  OpenedHasRow' /\ ReplayReachesResult' /\ AnsweredRunIsStored'
  BY <1>1 DEF HttpAccept, Goto
<1>2. ASSUME NEW w \in Ws, WsStart(w)
      PROVE  OpenedHasRow' /\ ReplayReachesResult' /\ AnsweredRunIsStored'
  BY <1>2 DEF WsStart, Goto
<1>3. ASSUME NEW r \in Request, OpenStore(r)
      PROVE  OpenedHasRow' /\ ReplayReachesResult' /\ AnsweredRunIsStored'
  <2>1. pc[r] = "opening" /\ UNCHANGED <<busy, activeRunner, activeTask, noise,
                                           result, pending, touched>>
    BY <1>3, OpenStoreStep
  <2>2. CASE pc' = [pc EXCEPT ![r] = "opened"] /\ store' = [store EXCEPT ![r] = "created"]
    BY <2>1, <2>2
  <2>3. CASE pc' = [pc EXCEPT ![r] = "dead"] /\ UNCHANGED store
    BY <2>1, <2>3
  <2> QED
    BY <1>3, <2>2, <2>3, OpenStoreStep
<1>4. ASSUME NEW r \in Request, StoreFails(r)
      PROVE  OpenedHasRow' /\ ReplayReachesResult' /\ AnsweredRunIsStored'
  BY <1>4 DEF StoreFails, Goto, DropRunner
<1>5. ASSUME NEW r \in Request, Reject(r)
      PROVE  OpenedHasRow' /\ ReplayReachesResult' /\ AnsweredRunIsStored'
  BY <1>5 DEF Reject, Goto, DropRunner, Released
<1>6. ASSUME NEW r \in Request, Begin(r)
      PROVE  OpenedHasRow' /\ ReplayReachesResult' /\ AnsweredRunIsStored'
  BY <1>6 DEF Begin, Goto
<1>7. ASSUME NEW r \in Request, Wait(r)
      PROVE  OpenedHasRow' /\ ReplayReachesResult' /\ AnsweredRunIsStored'
  BY <1>7 DEF Wait, Goto
<1>8. ASSUME NEW r \in Request, Proceed(r)
      PROVE  OpenedHasRow' /\ ReplayReachesResult' /\ AnsweredRunIsStored'
  BY <1>8 DEF Proceed, Goto
<1>9. ASSUME NEW r \in Request, NEW status \in Terminal, End(r, status)
      PROVE  OpenedHasRow' /\ ReplayReachesResult' /\ AnsweredRunIsStored'
  <2>1. /\ Replay(status) # <<>> /\ Replay(status)[Len(Replay(status))] = status
        /\ status # "none"
    BY DEF Replay, Terminal
  <2> QED
    BY <1>9, <2>1 DEF End, Goto, DropRunner
<1>10. ASSUME NEW r \in Request, UpdateStatus(r)
      PROVE  OpenedHasRow' /\ ReplayReachesResult' /\ AnsweredRunIsStored'
  <2>1. /\ pc[r] = "replaying"
        /\ UNCHANGED <<noise, result, touched>>
    BY <1>10, UpdateStatusStep
  <2>2. ASSUME NEW status \in RunStatus, NEW rest \in Seq(RunStatus),
               status = pending[r][1], Len(pending[r]) = Len(rest) + 1,
               \A i \in 1 .. Len(rest) : rest[i] = pending[r][i + 1],
               store' = [store EXCEPT ![r] = status],
               pending' = [pending EXCEPT ![r] = rest],
               UNCHANGED pc
        PROVE  OpenedHasRow' /\ ReplayReachesResult' /\ AnsweredRunIsStored'
    <3>1. Len(rest) \in Nat /\ pending[r] # <<>> /\ (rest = <<>> <=> Len(rest) = 0)
      BY <2>2
    <3>2. ASSUME rest # <<>>
          PROVE  rest[Len(rest)] = pending[r][Len(pending[r])]
      <4>1. Len(rest) \in 1 .. Len(rest) /\ Len(rest) + 1 = Len(pending[r])
        BY <2>2, <3>1, <3>2
      <4> QED
        BY <2>2, <4>1
    <3>3. rest = <<>> => status = pending[r][Len(pending[r])]
      BY <2>2, <3>1
    <3> QED
      BY <2>1, <2>2, <3>1, <3>2, <3>3
  <2>3. CASE /\ pc' = [pc EXCEPT ![r] = "dead"]
             /\ pending' = [pending EXCEPT ![r] = <<>>]
             /\ UNCHANGED store
    BY <2>1, <2>3
  <2> QED
    BY <1>10, <2>2, <2>3, UpdateStatusStep
<1>11. ASSUME NEW r \in Request, AppendEvents(r)
      PROVE  OpenedHasRow' /\ ReplayReachesResult' /\ AnsweredRunIsStored'
  BY <1>11 DEF AppendEvents, Goto
<1>12. ASSUME NEW r \in Request, Pause(r)
      PROVE  OpenedHasRow' /\ ReplayReachesResult' /\ AnsweredRunIsStored'
  BY <1>12 DEF Pause, Reached, Finished
<1>13. ASSUME NEW r \in Request, Resume(r)
      PROVE  OpenedHasRow' /\ ReplayReachesResult' /\ AnsweredRunIsStored'
  BY <1>13 DEF Resume, Reached, Finished
<1>14. ASSUME NEW r \in Request, Cancel(r)
      PROVE  OpenedHasRow' /\ ReplayReachesResult' /\ AnsweredRunIsStored'
  BY <1>14 DEF Cancel
<1>15. ASSUME NEW r \in Request, Post(r)
      PROVE  OpenedHasRow' /\ ReplayReachesResult' /\ AnsweredRunIsStored'
  BY <1>15 DEF Post, Touch, Known
<1>16. ASSUME NEW R \in SUBSET Request, Delete(R)
      PROVE  OpenedHasRow' /\ ReplayReachesResult' /\ AnsweredRunIsStored'
  BY <1>16 DEF Delete, Touch
<1>17. CASE Restart
  BY <1>17 DEF Restart
<1>18. CASE UNCHANGED vars
  BY <1>18 DEF vars
<1> QED
  BY <1>1, <1>2, <1>3, <1>4, <1>5, <1>6, <1>7, <1>8, <1>9,
     <1>10, <1>11, <1>12, <1>13, <1>14, <1>15, <1>16, <1>17, <1>18
     DEF Next, Progress, Command

\* One WebSocket request is under way, and commands reach a run that has not
\* ended.
LEMMA NextControl ==
  ASSUME TypeOK, OneTask, WsRunsStayAttached, CommandsReachNoEndedRun, [Next]_vars
  PROVE  OneTask' /\ WsRunsStayAttached' /\ CommandsReachNoEndedRun'
<1> USE RequestAssumption DEF TypeOK, OneTask, WsRunsStayAttached, CommandsReachNoEndedRun,
                              UnderWay, Executing, Finished, Request, flags
<1>1. ASSUME NEW h \in Http, HttpAccept(h)
      PROVE  OneTask' /\ WsRunsStayAttached' /\ CommandsReachNoEndedRun'
  BY <1>1 DEF HttpAccept, Goto
<1>2. ASSUME NEW w \in Ws, WsStart(w)
      PROVE  OneTask' /\ WsRunsStayAttached' /\ CommandsReachNoEndedRun'
  BY <1>2 DEF WsStart, Goto
<1>3. ASSUME NEW r \in Request, OpenStore(r)
      PROVE  OneTask' /\ WsRunsStayAttached' /\ CommandsReachNoEndedRun'
  <2>1. pc[r] = "opening" /\ UNCHANGED <<busy, activeRunner, activeTask, noise,
                                           result, pending, touched>>
    BY <1>3, OpenStoreStep
  <2>2. CASE pc' = [pc EXCEPT ![r] = "opened"] /\ store' = [store EXCEPT ![r] = "created"]
    BY <2>1, <2>2
  <2>3. CASE pc' = [pc EXCEPT ![r] = "dead"] /\ UNCHANGED store
    BY <2>1, <2>3
  <2> QED
    BY <1>3, <2>2, <2>3, OpenStoreStep
<1>4. ASSUME NEW r \in Request, StoreFails(r)
      PROVE  OneTask' /\ WsRunsStayAttached' /\ CommandsReachNoEndedRun'
  BY <1>4 DEF StoreFails, Goto, DropRunner
<1>5. ASSUME NEW r \in Request, Reject(r)
      PROVE  OneTask' /\ WsRunsStayAttached' /\ CommandsReachNoEndedRun'
  BY <1>5 DEF Reject, Goto, DropRunner, Released
<1>6. ASSUME NEW r \in Request, Begin(r)
      PROVE  OneTask' /\ WsRunsStayAttached' /\ CommandsReachNoEndedRun'
  BY <1>6 DEF Begin, Goto
<1>7. ASSUME NEW r \in Request, Wait(r)
      PROVE  OneTask' /\ WsRunsStayAttached' /\ CommandsReachNoEndedRun'
  BY <1>7 DEF Wait, Goto
<1>8. ASSUME NEW r \in Request, Proceed(r)
      PROVE  OneTask' /\ WsRunsStayAttached' /\ CommandsReachNoEndedRun'
  BY <1>8 DEF Proceed, Goto
<1>9. ASSUME NEW r \in Request, NEW status \in Terminal, End(r, status)
      PROVE  OneTask' /\ WsRunsStayAttached' /\ CommandsReachNoEndedRun'
  BY <1>9 DEF End, Goto, DropRunner, Released
<1>10. ASSUME NEW r \in Request, UpdateStatus(r)
      PROVE  OneTask' /\ WsRunsStayAttached' /\ CommandsReachNoEndedRun'
  <2>1. /\ pc[r] = "replaying"
        /\ UNCHANGED <<busy, activeRunner, activeTask, result, touched>>
        /\ pc' = pc \/ pc' = [pc EXCEPT ![r] = "dead"]
    BY <1>10, UpdateStatusStep
  <2> QED
    BY <2>1
<1>11. ASSUME NEW r \in Request, AppendEvents(r)
      PROVE  OneTask' /\ WsRunsStayAttached' /\ CommandsReachNoEndedRun'
  BY <1>11 DEF AppendEvents, Goto
<1>12. ASSUME NEW r \in Request, Pause(r)
      PROVE  OneTask' /\ WsRunsStayAttached' /\ CommandsReachNoEndedRun'
  BY <1>12 DEF Pause, Reached, Finished
<1>13. ASSUME NEW r \in Request, Resume(r)
      PROVE  OneTask' /\ WsRunsStayAttached' /\ CommandsReachNoEndedRun'
  BY <1>13 DEF Resume, Reached, Finished
<1>14. ASSUME NEW r \in Request, Cancel(r)
      PROVE  OneTask' /\ WsRunsStayAttached' /\ CommandsReachNoEndedRun'
  BY <1>14 DEF Cancel
<1>15. ASSUME NEW r \in Request, Post(r)
      PROVE  OneTask' /\ WsRunsStayAttached' /\ CommandsReachNoEndedRun'
  BY <1>15 DEF Post, Touch, Known
<1>16. ASSUME NEW R \in SUBSET Request, Delete(R)
      PROVE  OneTask' /\ WsRunsStayAttached' /\ CommandsReachNoEndedRun'
  BY <1>16 DEF Delete, Touch
<1>17. CASE Restart
  BY <1>17 DEF Restart
<1>18. CASE UNCHANGED vars
  BY <1>18 DEF vars
<1> QED
  BY <1>1, <1>2, <1>3, <1>4, <1>5, <1>6, <1>7, <1>8, <1>9,
     <1>10, <1>11, <1>12, <1>13, <1>14, <1>15, <1>16, <1>17, <1>18
     DEF Next, Progress, Command

-----------------------------------------------------------------------------
(***************************************************************************)
(* ControlInv holds initially and every step keeps it.                     *)
(***************************************************************************)
LEMMA InitControlInv == Init => ControlInv
<1> SUFFICES ASSUME Init PROVE ControlInv
  OBVIOUS
<1>1. TypeOK
  BY InitType
<1>2. OneRunAtATime
  BY DEF Init, OneRunAtATime, Executing
<1>3. NoResultBeforeEnd /\ PendingIsTrue /\ StoredStatusIsTrue
  BY DEF Init, NoResultBeforeEnd, PendingIsTrue, StoredStatusIsTrue, Terminal
<1>4. OpenedHasRow /\ ReplayReachesResult /\ AnsweredRunIsStored
  BY DEF Init, OpenedHasRow, ReplayReachesResult, AnsweredRunIsStored
<1>5. OneTask /\ WsRunsStayAttached /\ CommandsReachNoEndedRun
  BY DEF Init, OneTask, WsRunsStayAttached, CommandsReachNoEndedRun, UnderWay,
         Executing, Request
<1> QED
  BY <1>1, <1>2, <1>3, <1>4, <1>5 DEF ControlInv

\* Every step keeps ControlInv.
LEMMA NextControlInv == ControlInv /\ [Next]_vars => ControlInv'
<1> SUFFICES ASSUME ControlInv, [Next]_vars PROVE ControlInv'
  OBVIOUS
<1> USE DEF ControlInv
<1>1. TypeOK'
  BY NextType
<1>2. OneRunAtATime'
  BY NextOneRun
<1>3. NoResultBeforeEnd' /\ PendingIsTrue' /\ StoredStatusIsTrue'
  BY NextResults
<1>4. OpenedHasRow' /\ ReplayReachesResult' /\ AnsweredRunIsStored'
  BY NextRows
<1>5. OneTask' /\ WsRunsStayAttached' /\ CommandsReachNoEndedRun'
  BY NextControl
<1> QED
  BY <1>1, <1>2, <1>3, <1>4, <1>5

\* The inductive invariant holds in every reachable state.
THEOREM ControlInvariant == Spec => []ControlInv
BY InitControlInv, NextControlInv, PTL DEF Spec

\* One graph runs at a time, and the flag of the runner class says so.
THEOREM OneRunAlways == Spec => []OneRunAtATime
<1>1. ControlInv => OneRunAtATime
  BY DEF ControlInv
<1> QED
  BY <1>1, ControlInvariant, PTL

\* A final status in the store is how the run ended.
THEOREM StoredStatusesAreTrue == Spec => []StoredStatusIsTrue
<1>1. ControlInv => StoredStatusIsTrue
  BY DEF ControlInv
<1> QED
  BY <1>1, ControlInvariant, PTL

\* An answered run that nobody else touched is stored with its result, but for
\* a rejected run that a command reached before.
THEOREM AnsweredRunsAreStored == Spec => []AnsweredRunIsStored
<1>1. ControlInv => AnsweredRunIsStored
  BY DEF ControlInv
<1> QED
  BY <1>1, ControlInvariant, PTL

\* Starts over the WebSocket alone never take the commands from a run.
THEOREM WsRunsAttached == Spec => []WsRunsStayAttached
<1>1. ControlInv => WsRunsStayAttached
  BY DEF ControlInv
<1> QED
  BY <1>1, ControlInvariant, PTL

\* Commands never reach a run that has ended.
THEOREM CommandsReachLiveRuns == Spec => []CommandsReachNoEndedRun
<1>1. ControlInv => CommandsReachNoEndedRun
  BY DEF ControlInv
<1> QED
  BY <1>1, ControlInvariant, PTL

\* The rows of runs are true and complete (main.py, run_graph).
THEOREM RowsStayTrue == Spec => []RowsAreTrue
BY StoredStatusesAreTrue, AnsweredRunsAreStored, PTL DEF RowsAreTrue

\* Commands reach the run they are meant for (main.py, the active runner).
THEOREM CommandsArrive == Spec => []CommandsReachTheirRun
BY WsRunsAttached, CommandsReachLiveRuns, PTL DEF CommandsReachTheirRun

-----------------------------------------------------------------------------
(***************************************************************************)
(* The events of runs: what each subscriber is promised.                   *)
(***************************************************************************)
Connection ==
  [at : {"wait", "send"}, since : Nat, queue : Seq(Nat), event : Nat, said : Nat,
   inbox : Seq(Nat), message : Nat, got : Seq(Nat), lost : Nat]

\* The shape of a connection k after n events.
Shape(k, n) ==
  /\ k.since \in 0 .. n
  /\ k.queue \in Seq(1 .. n) /\ Len(k.queue) <= MaxQueue
  /\ k.event \in 0 .. n /\ (k.at = "send" => k.event # Nothing)
  /\ k.said \in 0 .. MaxMessages /\ k.message \in 0 .. k.said
  /\ k.inbox \in Seq(1 .. k.said)
  /\ k.got \in Seq(1 .. n) /\ k.lost \in 0 .. n

StreamInv ==
  /\ published \in 0 .. MaxEvents
  /\ conn \in [Client -> {Off} \cup Connection]
  /\ \A c \in Client : On(c) => Shape(conn[c], published)

LEMMA SeqGrows ==
  ASSUME NEW n \in Nat, NEW s \in Seq(1 .. n)
  PROVE  s \in Seq(1 .. n + 1)
<1>1. 1 .. n \subseteq 1 .. n + 1
  OBVIOUS
<1>. QED
  BY <1>1, SeqMonotonic

LEMMA ConnectionIsOn == Off \notin Connection
BY DEF Off, Connection

LEMMA ShapeIsType == StreamInv => StreamTypeOK
BY DEF StreamInv, Shape, Connection, On, StreamTypeOK

\* What is on for a client that is connected.
LEMMA OnTypes ==
  ASSUME StreamInv, NEW c \in Client, On(c)
  PROVE  conn[c] \in Connection /\ Shape(conn[c], published)
BY DEF StreamInv, On

\* One connection changes.
LEMMA ConnectionMoves ==
  ASSUME StreamInv, NEW c \in Client, NEW k, Become(c, k),
         k = Off \/ (k \in Connection /\ Shape(k, published))
  PROVE  /\ StreamInv'
         /\ conn'[c] = k
         /\ \A d \in Client \ {c} : conn'[d] = conn[d]
BY DEF StreamInv, Become, On

LEMMA ConnectKept ==
  ASSUME StreamInv, NEW c \in Client, Connect(c) \/ Close(c)
  PROVE  StreamInv'
<1>1. Opened \in Connection /\ Shape(Opened, published)
  BY StreamAssumption, EmptySeq DEF StreamInv, Opened, Connection, Shape, Nothing
<1>2. Become(c, Opened) \/ Become(c, Off)
  BY DEF Connect, Close
<1>. QED
  BY <1>1, <1>2, ConnectionMoves

LEMMA SayKept ==
  ASSUME StreamInv, NEW c \in Client, Say(c)
  PROVE  StreamInv'
<1> DEFINE n == conn[c].said + 1
           k == [conn[c] EXCEPT !.said = @ + 1, !.inbox = Append(@, n)]
<1>1. conn[c] \in Connection /\ Shape(conn[c], published) /\ conn[c].said < MaxMessages
  BY OnTypes DEF Say
<1>2. n \in Nat /\ n \in 1 .. n /\ n \in 0 .. MaxMessages
  BY <1>1, StreamAssumption DEF Connection, Shape
<1>3. conn[c].inbox \in Seq(1 .. n)
  <2>1. 1 .. conn[c].said \subseteq 1 .. n
    BY <1>1 DEF Connection
  <2>2. conn[c].inbox \in Seq(1 .. conn[c].said)
    BY <1>1 DEF Shape
  <2>. QED
    BY <2>1, <2>2, SeqMonotonic
<1>4. Append(conn[c].inbox, n) \in Seq(1 .. n) /\ Append(conn[c].inbox, n) \in Seq(Nat)
  <2>1. Append(conn[c].inbox, n) \in Seq(1 .. n)
    BY <1>2, <1>3, AppendProperties
  <2>2. 1 .. n \subseteq Nat
    OBVIOUS
  <2>. QED
    BY <2>1, <2>2, SeqMonotonic
<1>5. k \in Connection
  BY <1>1, <1>2, <1>4 DEF Connection
<1>6. /\ k.said = n /\ k.inbox = Append(conn[c].inbox, n)
      /\ k.at = conn[c].at /\ k.since = conn[c].since /\ k.queue = conn[c].queue
      /\ k.event = conn[c].event /\ k.message = conn[c].message /\ k.got = conn[c].got
      /\ k.lost = conn[c].lost
  BY <1>1 DEF Connection
<1>7. Become(c, k)
  BY DEF Say
<1> HIDE DEF k
<1>8. conn[c].message \in 0 .. n
  BY <1>1 DEF Shape, Connection
<1>9. Shape(k, published)
  BY <1>1, <1>2, <1>4, <1>6, <1>8 DEF Shape
<1>. QED
  BY <1>5, <1>7, <1>9, ConnectionMoves

\* The two tasks, and what the loop does with what they have received.
LEMMA LoopKept ==
  ASSUME StreamInv, NEW c \in Client, Loop(c)
  PROVE  StreamInv'
<1>1. conn[c] \in Connection /\ Shape(conn[c], published) /\ published \in Nat
  BY OnTypes DEF Loop, TakeEvent, Receive, ChooseEvent, Send, Answer, StreamInv
<1> DEFINE o == conn[c]
<1>2. CASE TakeEvent(c)
  <2> DEFINE k == [o EXCEPT !.event = Head(o.queue), !.queue = Tail(@)]
  <2>1. o.queue # << >> /\ Become(c, k)
    BY <1>2 DEF TakeEvent
  <2>2. /\ Head(o.queue) \in 1 .. published /\ Tail(o.queue) \in Seq(1 .. published)
        /\ Len(Tail(o.queue)) = Len(o.queue) - 1
    BY <1>1, <2>1, HeadTailProperties DEF Shape
  <2>3. Head(o.queue) \in Nat /\ Tail(o.queue) \in Seq(Nat)
    BY <1>1, <2>1, <2>2, HeadTailProperties DEF Connection
  <2>4. k \in Connection
    BY <1>1, <2>3 DEF Connection
  <2>5. Shape(k, published)
    <3>1. /\ k.said = o.said /\ k.inbox = o.inbox /\ k.at = o.at /\ k.since = o.since
          /\ k.queue = Tail(o.queue) /\ k.event = Head(o.queue)
          /\ k.message = o.message /\ k.got = o.got /\ k.lost = o.lost
      BY <1>1 DEF Connection
    <3>2. Head(o.queue) \in 0 .. published /\ Head(o.queue) # Nothing
      BY <2>2, <1>1 DEF Nothing
    <3>3. Len(o.queue) \in Nat /\ Len(Tail(o.queue)) <= MaxQueue
      BY <1>1, <2>2, StreamAssumption, LenProperties DEF Shape
    <3> HIDE DEF k
    <3>. QED
      BY <1>1, <2>2, <3>1, <3>2, <3>3 DEF Shape
  <2>. QED
    BY <2>1, <2>4, <2>5, ConnectionMoves
<1>3. CASE Receive(c)
  <2> DEFINE k == [o EXCEPT !.message = Head(o.inbox), !.inbox = Tail(@)]
  <2>1. o.inbox # << >> /\ Become(c, k)
    BY <1>3 DEF Receive
  <2>2. Head(o.inbox) \in 1 .. o.said /\ Tail(o.inbox) \in Seq(1 .. o.said)
    BY <1>1, <2>1, HeadTailProperties DEF Shape
  <2>3. Head(o.inbox) \in Nat /\ Tail(o.inbox) \in Seq(Nat)
    BY <1>1, <2>1, <2>2, HeadTailProperties DEF Connection
  <2>4. k \in Connection
    BY <1>1, <2>3 DEF Connection
  <2>5. Shape(k, published)
    <3>1. /\ k.said = o.said /\ k.inbox = Tail(o.inbox) /\ k.at = o.at /\ k.since = o.since
          /\ k.queue = o.queue /\ k.event = o.event
          /\ k.message = Head(o.inbox) /\ k.got = o.got /\ k.lost = o.lost
      BY <1>1 DEF Connection
    <3>2. Head(o.inbox) \in 0 .. o.said
      BY <2>2, <1>1 DEF Connection
    <3> HIDE DEF k
    <3>. QED
      BY <1>1, <2>2, <3>1, <3>2 DEF Shape
  <2>. QED
    BY <2>1, <2>4, <2>5, ConnectionMoves
<1>4. CASE ChooseEvent(c)
  <2> DEFINE k == [o EXCEPT !.at = "send", !.message = Nothing]
  <2>1. o.event # Nothing /\ Become(c, k)
    BY <1>4 DEF ChooseEvent
  <2>3. k \in Connection
    BY <1>1 DEF Connection, Nothing
  <2>4. Shape(k, published)
    <3>1. /\ k.said = o.said /\ k.inbox = o.inbox /\ k.since = o.since
          /\ k.queue = o.queue /\ k.event = o.event
          /\ k.message = Nothing /\ k.got = o.got /\ k.lost = o.lost
      BY <1>1 DEF Connection
    <3> HIDE DEF k
    <3>. QED
      BY <1>1, <2>1, <3>1 DEF Shape, Connection, Nothing
  <2>. QED
    BY <2>1, <2>3, <2>4, ConnectionMoves
<1>5. CASE Send(c)
  <2> DEFINE k == [o EXCEPT !.at = "wait", !.event = Nothing, !.got = Append(@, o.event)]
  <2>1. o.at = "send" /\ Become(c, k)
    BY <1>5 DEF Send
  <2>2. o.event \in 1 .. published
    BY <1>1, <2>1 DEF Shape, Nothing
  <2>3. Append(o.got, o.event) \in Seq(1 .. published) /\ Append(o.got, o.event) \in Seq(Nat)
    <3>1. Append(o.got, o.event) \in Seq(1 .. published)
      BY <1>1, <2>2, AppendProperties DEF Shape
    <3>2. 1 .. published \subseteq Nat
      OBVIOUS
    <3>. QED
      BY <3>1, <3>2, SeqMonotonic
  <2>4. k \in Connection
    BY <1>1, <2>3 DEF Connection, Nothing
  <2>5. Shape(k, published)
    <3>1. /\ k.said = o.said /\ k.inbox = o.inbox /\ k.at = "wait" /\ k.since = o.since
          /\ k.queue = o.queue /\ k.event = Nothing
          /\ k.message = o.message /\ k.got = Append(o.got, o.event) /\ k.lost = o.lost
      BY <1>1 DEF Connection
    <3> HIDE DEF k
    <3>. QED
      BY <1>1, <2>3, <3>1 DEF Shape, Nothing
  <2>. QED
    BY <2>1, <2>4, <2>5, ConnectionMoves
<1>6. CASE Answer(c)
  <2> DEFINE k == [o EXCEPT !.message = Nothing, !.event = Nothing,
                            !.lost = IF o.event = Nothing THEN @ ELSE o.event]
  <2>1. o.at = "wait" /\ Become(c, k)
    BY <1>6 DEF Answer
  <2>3. k \in Connection
    BY <1>1 DEF Connection, Nothing
  <2>4. Shape(k, published)
    <3>1. /\ k.said = o.said /\ k.inbox = o.inbox /\ k.since = o.since /\ k.at = "wait"
          /\ k.queue = o.queue /\ k.event = Nothing
          /\ k.message = Nothing /\ k.got = o.got
          /\ k.lost = IF o.event = Nothing THEN o.lost ELSE o.event
      BY <1>1, <2>1 DEF Connection
    <3> HIDE DEF k
    <3>. QED
      BY <1>1, <3>1 DEF Shape, Connection, Nothing
  <2>. QED
    BY <2>1, <2>3, <2>4, ConnectionMoves
<1>. QED
  BY <1>2, <1>3, <1>4, <1>5, <1>6 DEF Loop

\* A queue takes a new event within its limit.
LEMMA DeliverFits ==
  ASSUME NEW n \in Nat, NEW q \in Seq(1 .. n), Len(q) <= MaxQueue
  PROVE  /\ Deliver(q, n + 1) \in Seq(1 .. n + 1)
         /\ Len(Deliver(q, n + 1)) <= MaxQueue
<1> DEFINE t == IF Len(q) = MaxQueue THEN Tail(q) ELSE q
<1>1. Len(q) \in Nat /\ MaxQueue \in Nat \ {0}
  BY StreamAssumption, LenProperties
<1>2. t \in Seq(1 .. n) /\ Len(t) \in Nat /\ Len(t) + 1 <= MaxQueue
  <2>1. CASE Len(q) = MaxQueue
    <3>1. q # << >>
      BY <1>1, <2>1, EmptySeq
    <3>2. Tail(q) \in Seq(1 .. n) /\ Len(Tail(q)) = Len(q) - 1
      BY <3>1, HeadTailProperties
    <3>. QED
      BY <1>1, <2>1, <3>2
  <2>2. CASE Len(q) # MaxQueue
    BY <1>1, <2>2
  <2>. QED
    BY <2>1, <2>2
<1>3. 1 .. n \subseteq 1 .. n + 1 /\ n + 1 \in 1 .. n + 1
  OBVIOUS
<1>4. t \in Seq(1 .. n + 1)
  BY <1>2, <1>3, SeqMonotonic
<1>5. Append(t, n + 1) \in Seq(1 .. n + 1) /\ Len(Append(t, n + 1)) = Len(t) + 1
  BY <1>3, <1>4, AppendProperties
<1>. QED
  BY <1>2, <1>5 DEF Deliver

LEMMA PublishKept ==
  ASSUME StreamInv, Publish
  PROVE  StreamInv'
<1>1. /\ published \in Nat /\ published' = published + 1 /\ published' \in 0 .. MaxEvents
      /\ conn' = [c \in Client |->
           IF On(c) THEN [conn[c] EXCEPT !.queue = Deliver(@, published + 1)] ELSE Off]
  BY StreamAssumption DEF StreamInv, Publish
<1>2. ASSUME NEW c \in Client, On(c)
      PROVE  conn'[c] \in Connection /\ Shape(conn'[c], published')
  <2> DEFINE o == conn[c]
             q == Deliver(o.queue, published + 1)
             k == [o EXCEPT !.queue = q]
  <2>1. o \in Connection /\ Shape(o, published) /\ conn'[c] = k
    BY <1>1, <1>2, OnTypes
  <2>2. q \in Seq(1 .. published + 1) /\ Len(q) <= MaxQueue
    BY <1>1, <2>1, DeliverFits DEF Shape
  <2>3. q \in Seq(Nat)
    <3>1. 1 .. published + 1 \subseteq Nat
      OBVIOUS
    <3>. QED
      BY <2>2, <3>1, SeqMonotonic
  <2>4. k \in Connection
    BY <2>1, <2>3 DEF Connection
  <2>5. /\ k.said = o.said /\ k.inbox = o.inbox /\ k.since = o.since /\ k.at = o.at
        /\ k.queue = q /\ k.event = o.event
        /\ k.message = o.message /\ k.got = o.got /\ k.lost = o.lost
    BY <2>1 DEF Connection
  <2>6. o.got \in Seq(1 .. published + 1)
    <3>1. o.got \in Seq(1 .. published)
      BY <2>1 DEF Shape
    <3>. QED
      BY <1>1, <3>1, SeqGrows
  <2>7. /\ o.event \in 0 .. published + 1 /\ o.since \in 0 .. published + 1
        /\ o.lost \in 0 .. published + 1
    BY <1>1, <2>1 DEF Shape, Connection
  <2>8. Shape(k, published + 1)
    <3> HIDE DEF k, q
    <3>. QED
      BY <2>1, <2>2, <2>5, <2>6, <2>7 DEF Shape
  <2>. QED
    BY <1>1, <2>1, <2>4, <2>8
<1>3. \A c \in Client : ~On(c) => conn'[c] = Off
  BY <1>1
<1>4. conn' \in [Client -> {Off} \cup Connection]
  <2>1. conn' = [c \in Client |-> conn'[c]]
    BY <1>1
  <2>. QED
    BY <2>1, <1>2, <1>3
<1>. QED
  BY <1>1, <1>2, <1>3, <1>4 DEF StreamInv, On

LEMMA StreamInitially == StreamInit => StreamInv
BY StreamAssumption DEF StreamInit, StreamInv, On

LEMMA StreamKept == StreamInv /\ [StreamNext]_stream => StreamInv'
<1>. SUFFICES ASSUME StreamInv, [StreamNext]_stream PROVE StreamInv'
  OBVIOUS
<1>1. CASE UNCHANGED stream
  BY <1>1 DEF stream, StreamInv, On
<1>2. CASE Publish
  BY <1>2, PublishKept
<1>3. ASSUME NEW c \in Client, Connect(c) \/ Close(c) \/ Say(c) \/ Loop(c)
      PROVE  StreamInv'
  BY <1>3, ConnectKept, SayKept, LoopKept
<1>. QED
  BY <1>1, <1>2, <1>3 DEF StreamNext

LEMMA StreamInvariant == StreamSpec => []StreamInv
BY StreamInitially, StreamKept, PTL DEF StreamSpec

\* Every connection keeps its shape, and its queue within its limit
\* (broker.py, publish; main.py, websocket).
THEOREM StreamTypeCorrect == StreamSpec => []StreamTypeOK
BY StreamInvariant, ShapeIsType, PTL

-----------------------------------------------------------------------------
(* The refinement: every connection loses events, but never their order.   *)

\* One event before a queue.
LEMMA EventBefore ==
  ASSUME NEW e \in Nat, NEW q \in Seq(Nat)
  PROVE  LET s == <<e>> \o q IN
         /\ s \in Seq(Nat) /\ s # << >> /\ Len(s) = Len(q) + 1
         /\ Head(s) = e /\ Tail(s) = q
         /\ s[1] = e /\ \A i \in 1 .. Len(q) : s[i + 1] = q[i]
<1> DEFINE s == <<e>> \o q
<1>1. <<e>> \in Seq(Nat) /\ Len(<<e>>) = 1 /\ <<e>>[1] = e
  OBVIOUS
<1>2. s \in Seq(Nat) /\ Len(s) = 1 + Len(q) /\ s[1] = e /\ \A i \in 1 .. Len(q) : s[i + 1] = q[i]
  <2>1. \A i \in 1 .. 1 + Len(q) : s[i] = IF i <= 1 THEN <<e>>[i] ELSE q[i - 1]
    BY <1>1, ConcatProperties
  <2>2. Len(q) \in Nat
    BY LenProperties
  <2>3. s \in Seq(Nat) /\ Len(s) = 1 + Len(q)
    BY <1>1, ConcatProperties
  <2> HIDE DEF s
  <2>. QED
    BY <1>1, <2>1, <2>2, <2>3
<1> HIDE DEF s
<1>3. Len(q) \in Nat /\ s # << >>
  BY <1>2, LenProperties, EmptySeq
<1>4. Head(s) = e
  BY <1>2, <1>3, HeadTailProperties
<1>5. Tail(s) = q
  <2>1. /\ Tail(s) \in Seq(Nat) /\ Len(Tail(s)) = Len(s) - 1
        /\ \A i \in 1 .. Len(Tail(s)) : Tail(s)[i] = s[i + 1]
    BY <1>2, <1>3, HeadTailProperties
  <2>. QED
    BY <1>2, <1>3, <2>1, SeqEqual
<1>. QED
  BY <1>2, <1>3, <1>4, <1>5 DEF s

\* A new event goes to the end.
LEMMA EventAppended ==
  ASSUME NEW e \in Nat, NEW q \in Seq(Nat), NEW x \in Nat
  PROVE  Append(<<e>> \o q, x) = <<e>> \o Append(q, x)
<1>1. <<e>> \in Seq(Nat) /\ <<x>> \in Seq(Nat)
  OBVIOUS
<1> DEFINE s == <<e>> \o q
<1>2. Append(s, x) = s \o <<x>>
  <2>1. s \in Seq(Nat)
    BY EventBefore
  <2> HIDE DEF s
  <2>. QED
    BY <2>1, AppendIsConcat
<1>3. Append(q, x) = q \o <<x>>
  BY AppendIsConcat
<1>. QED
  BY <1>1, <1>2, <1>3, ConcatAssociative

\* The line of a client that is connected.
LEMMA LineIs ==
  ASSUME StreamInv, NEW c \in Client, On(c)
  PROVE  /\ conn[c].queue \in Seq(Nat) /\ conn[c].event \in Nat
         /\ Line(c) = IF conn[c].event = Nothing THEN conn[c].queue
                      ELSE <<conn[c].event>> \o conn[c].queue
         /\ Line(c) \in Seq(Nat) /\ Got(c) = conn[c].got
<1>1. conn[c].queue \in Seq(Nat) /\ conn[c].event \in Nat
  BY OnTypes DEF Connection
<1>2. << >> \o conn[c].queue = conn[c].queue
  BY <1>1, ConcatEmptySeq
<1>3. Line(c) = IF conn[c].event = Nothing THEN conn[c].queue
                ELSE <<conn[c].event>> \o conn[c].queue
  BY <1>2 DEF Line
<1>. QED
  BY <1>1, <1>3, EventBefore DEF Got

StreamStep(c) == [Channel(c)!Next]_(Channel(c)!vars)

\* A client whose connection does not change.
LEMMA OthersStay ==
  ASSUME NEW c \in Client, conn'[c] = conn[c], UNCHANGED published
  PROVE  StreamStep(c)
BY DEF StreamStep, Channel!vars, Line, Got, On

LEMMA LosesFirst ==
  ASSUME NEW c \in Client, NEW s \in Seq(Nat), s # << >>, Line(c)' = Tail(s)
  PROVE  Channel(c)!Lossy(s)
<1>1. 1 \in DOMAIN s
  BY EmptySeq, LenProperties
<1>2. SubSeq(s, 1, 1 - 1) = << >>
  BY SubSeqEmpty
<1>3. Tail(s) = SubSeq(s, 1 + 1, Len(s)) /\ Tail(s) \in Seq(Nat)
  BY TailIsSubSeq, HeadTailProperties
<1>4. << >> \o Tail(s) = Tail(s)
  BY <1>3, ConcatEmptySeq
<1>5. Channel(c)!Without(s, 1) = Tail(s)
  BY <1>2, <1>3, <1>4 DEF Channel!Without
<1>. QED
  BY <1>1, <1>5 DEF Channel!Lossy

LEMMA LosesSecond ==
  ASSUME NEW c \in Client, NEW e \in Nat, NEW q \in Seq(Nat), q # << >>,
         Line(c)' = <<e>> \o Tail(q)
  PROVE  Channel(c)!Lossy(<<e>> \o q)
<1> DEFINE s == <<e>> \o q
<1>1. /\ s \in Seq(Nat) /\ Len(s) = Len(q) + 1 /\ s[1] = e
      /\ \A i \in 1 .. Len(q) : s[i + 1] = q[i]
  BY EventBefore
<1>2. /\ Len(q) \in Nat \ {0} /\ Tail(q) \in Seq(Nat) /\ Len(Tail(q)) = Len(q) - 1
      /\ \A i \in 1 .. Len(Tail(q)) : Tail(q)[i] = q[i + 1]
  BY EmptySeq, HeadTailProperties
<1> HIDE DEF s
<1>3. 2 \in DOMAIN s
  BY <1>1, <1>2, LenProperties
<1>4. SubSeq(s, 1, 2 - 1) = <<e>>
  <2> DEFINE t == SubSeq(s, 1, 1)
  <2>0. \A i \in 1 .. 1 : s[i] \in Nat
    BY <1>1
  <2>1. t \in Seq(Nat) /\ Len(t) = 1 /\ \A i \in 1 .. 1 : t[i] = s[1 + i - 1]
    BY <2>0, SubSeqProperties
  <2> HIDE DEF t
  <2>2. <<e>> \in Seq(Nat) /\ Len(<<e>>) = 1 /\ <<e>>[1] = e
    OBVIOUS
  <2>3. t = <<e>>
    BY <1>1, <2>1, <2>2, SeqEqual
  <2>. QED
    BY <2>3 DEF t
<1>5. SubSeq(s, 2 + 1, Len(s)) = Tail(q)
  <2> DEFINE n == Len(q)
             t == SubSeq(s, 3, n + 1)
  <2>0. n \in Nat \ {0} /\ \A i \in 3 .. n + 1 : s[i] \in Nat
    BY <1>1, <1>2, ElementOfSeq
  <2>1. /\ t \in Seq(Nat) /\ Len(t) = (IF 3 <= n + 1 THEN n + 1 - 3 + 1 ELSE 0)
        /\ \A i \in 1 .. (n + 1 - 3 + 1) : t[i] = s[3 + i - 1]
    BY <2>0, SubSeqProperties
  <2> HIDE DEF t
  <2>2. Len(t) = n - 1
    BY <2>0, <2>1
  <2>3. ASSUME NEW i \in 1 .. n - 1 PROVE t[i] = Tail(q)[i]
    <3>1. t[i] = s[(i + 1) + 1]
      BY <2>0, <2>1
    <3>2. s[(i + 1) + 1] = q[i + 1]
      BY <2>0, <1>1
    <3>. QED
      BY <3>1, <3>2, <1>2
  <2>4. t = Tail(q)
    BY <2>1, <2>2, <2>3, <1>2, SeqEqual
  <2>. QED
    BY <2>4, <1>1 DEF t
<1>6. Channel(c)!Without(s, 2) = <<e>> \o Tail(q)
  BY <1>4, <1>5 DEF Channel!Without
<1>7. Channel(c)!Lossy(s)
  BY <1>3, <1>6 DEF Channel!Lossy
<1>. QED
  BY <1>7 DEF s

\* A client that comes or goes.
LEMMA ConnectSteps ==
  ASSUME StreamInv, NEW c \in Client, Connect(c) \/ Close(c)
  PROVE  StreamStep(c)
<1>1. UNCHANGED published /\ (conn'[c] = Opened \/ conn'[c] = Off)
  BY DEF Connect, Close, Become, StreamInv
<1>2. << >> \o << >> = << >>
  BY EmptySeq, ConcatEmptySeq
<1>3. Line(c)' = << >> /\ Got(c)' = << >>
  BY <1>1, <1>2 DEF Line, Got, On, Opened
<1>. QED
  BY <1>1, <1>3 DEF StreamStep, Channel!Next, Channel!Reset

\* A turn of the loop: an event moves on, arrives or is lost.
LEMMA LoopSteps ==
  ASSUME StreamInv, NEW c \in Client, Loop(c)
  PROVE  StreamStep(c)
<1> DEFINE o == conn[c]
           k == conn'[c]
<1>1. On(c) /\ o \in Connection /\ Shape(o, published) /\ o # Off
  BY OnTypes DEF Loop, TakeEvent, Receive, ChooseEvent, Send, Answer, On
<1>2. /\ o.queue \in Seq(Nat) /\ o.event \in Nat /\ o.got \in Seq(Nat)
      /\ Line(c) = IF o.event = Nothing THEN o.queue ELSE <<o.event>> \o o.queue
      /\ Line(c) \in Seq(Nat) /\ Got(c) = o.got
  BY <1>1, LineIs DEF Connection
<1>3. StreamInv' /\ UNCHANGED published
  BY LoopKept DEF Loop, TakeEvent, Receive, ChooseEvent, Send, Answer, Become
<1>4. \A j : Become(c, j) => k = j
  BY DEF Become, StreamInv
<1>5. k # Off => /\ Line(c)' = (IF k.event = Nothing THEN << >> ELSE <<k.event>>) \o k.queue
                 /\ Got(c)' = k.got
  BY DEF Line, Got, On
<1>6. k \in Connection => k # Off
  BY ConnectionIsOn
<1>7. \A q \in Seq(Nat) : << >> \o q = q
  BY ConcatEmptySeq
<1>8. CASE TakeEvent(c)
  <2>1. /\ o.event = Nothing /\ o.queue # << >>
        /\ k = [o EXCEPT !.event = Head(o.queue), !.queue = Tail(@)]
    BY <1>4, <1>8 DEF TakeEvent
  <2>2. Head(o.queue) \in Nat /\ Tail(o.queue) \in Seq(Nat) /\ Head(o.queue) # Nothing
    <3>1. Head(o.queue) \in 1 .. published
      BY <1>1, <2>1, HeadTailProperties DEF Shape
    <3>. QED
      BY <3>1, <1>2, <2>1, HeadTailProperties DEF Nothing
  <2>3. /\ k \in Connection /\ k.event = Head(o.queue) /\ k.queue = Tail(o.queue)
        /\ k.got = o.got
    BY <1>1, <2>1, <2>2 DEF Connection
  <2>4. <<Head(o.queue)>> \o Tail(o.queue) = o.queue
    <3> DEFINE s == <<Head(o.queue)>> \o Tail(o.queue)
               q == o.queue
    <3>1. /\ s \in Seq(Nat) /\ Len(s) = Len(Tail(q)) + 1 /\ s[1] = Head(q)
          /\ \A i \in 1 .. Len(Tail(q)) : s[i + 1] = Tail(q)[i]
      BY <2>2, EventBefore
    <3>2. /\ q \in Seq(Nat) /\ Len(q) \in Nat /\ Len(Tail(q)) = Len(q) - 1 /\ Head(q) = q[1]
          /\ \A i \in 1 .. Len(Tail(q)) : Tail(q)[i] = q[i + 1]
      BY <1>2, <2>1, HeadTailProperties, LenProperties
    <3> HIDE DEF s, q
    <3>3. \A i \in 1 .. Len(q) : s[i] = q[i]
      <4>1. ASSUME NEW i \in 1 .. Len(q) PROVE s[i] = q[i]
        <5>1. i = 1 \/ (i - 1) \in 1 .. Len(Tail(q))
          BY <3>2
        <5>2. i = (i - 1) + 1
          OBVIOUS
        <5>. QED
          BY <3>1, <3>2, <5>1, <5>2
      <4>. QED
        BY <4>1
    <3>4. s = q
      BY <3>1, <3>2, <3>3, SeqEqual
    <3>. QED
      BY <3>4 DEF s, q
  <2>5. Line(c)' = Line(c) /\ Got(c)' = Got(c)
    BY <1>2, <1>5, <1>6, <2>1, <2>2, <2>3, <2>4
  <2>. QED
    BY <1>3, <2>5 DEF StreamStep, Channel!vars
<1>9. CASE Receive(c) \/ ChooseEvent(c)
  <2>1. /\ k \in Connection
        /\ k.event = o.event /\ k.queue = o.queue /\ k.got = o.got
    <3>1. \/ k = [o EXCEPT !.message = Head(o.inbox), !.inbox = Tail(@)]
          \/ k = [o EXCEPT !.at = "send", !.message = Nothing]
      BY <1>4, <1>9 DEF Receive, ChooseEvent
    <3>2. k.event = o.event /\ k.queue = o.queue /\ k.got = o.got
      BY <1>1, <3>1 DEF Connection
    <3>3. k # Off
      BY <1>1, <3>1 DEF Connection, Off
    <3>4. k \in Connection
      BY <1>3, <3>3 DEF StreamInv
    <3>. QED
      BY <3>2, <3>4
  <2>2. Line(c)' = Line(c) /\ Got(c)' = Got(c)
    BY <1>1, <1>5, <1>6, <2>1 DEF Line, Got
  <2>. QED
    BY <1>3, <2>2 DEF StreamStep, Channel!vars
<1>10. CASE Send(c)
  <2>1. /\ o.event # Nothing
        /\ k = [o EXCEPT !.at = "wait", !.event = Nothing, !.got = Append(@, o.event)]
    BY <1>1, <1>4, <1>10 DEF Send, Shape
  <2>2. k # Off /\ k.event = Nothing /\ k.queue = o.queue /\ k.got = Append(o.got, o.event)
    BY <1>1, <2>1 DEF Connection, Off
  <2>3. Line(c) # << >> /\ Head(Line(c)) = o.event /\ Tail(Line(c)) = o.queue
    BY <1>2, <2>1, EventBefore
  <2>4. Line(c)' = Tail(Line(c)) /\ Got(c)' = Append(Got(c), Head(Line(c)))
    BY <1>2, <1>5, <1>7, <2>2, <2>3
  <2>5. Channel(c)!Arrive
    BY <1>3, <2>3, <2>4 DEF Channel!Arrive
  <2>. QED
    BY <2>5 DEF StreamStep, Channel!Next
<1>11. CASE Answer(c)
  <2>1. k = [o EXCEPT !.message = Nothing, !.event = Nothing,
                    !.lost = IF o.event = Nothing THEN @ ELSE o.event]
    BY <1>4, <1>11 DEF Answer
  <2>2. k # Off /\ k.event = Nothing /\ k.queue = o.queue /\ k.got = o.got
    <3>1. k.at = o.at
      BY <1>1, <2>1 DEF Connection
    <3>. QED
      BY <3>1, <1>1, <2>1 DEF Connection, Off
  <2>3. Line(c)' = o.queue /\ Got(c)' = Got(c)
    BY <1>2, <1>5, <1>7, <2>2
  <2>4. CASE o.event = Nothing
    <3>1. Line(c)' = Line(c)
      BY <1>2, <2>3, <2>4
    <3>. QED
      BY <1>3, <2>3, <3>1 DEF StreamStep, Channel!vars
  <2>5. CASE o.event # Nothing
    <3>1. Line(c) # << >> /\ Tail(Line(c)) = o.queue
      BY <1>2, <2>5, EventBefore
    <3>2. Channel(c)!Lossy(Line(c))
      BY <1>2, <2>3, <3>1, LosesFirst
    <3>3. Channel(c)!Lose
      BY <1>3, <2>3, <3>2 DEF Channel!Lose
    <3>. QED
      BY <3>3 DEF StreamStep, Channel!Next
  <2>. QED
    BY <2>4, <2>5
<1>. QED
  BY <1>8, <1>9, <1>10, <1>11 DEF Loop

\* An event is published: a full queue loses its oldest one.
LEMMA PublishSteps ==
  ASSUME StreamInv, NEW c \in Client, Publish
  PROVE  StreamStep(c)
<1> DEFINE o == conn[c]
           k == conn'[c]
           e == published + 1
<1>1. /\ published \in Nat /\ published' = e /\ e \in Nat
      /\ k = IF On(c) THEN [o EXCEPT !.queue = Deliver(@, e)] ELSE Off
  BY StreamAssumption DEF StreamInv, Publish
<1>2. CASE ~On(c)
  <2>1. Line(c)' = Line(c) /\ Got(c)' = Got(c)
    BY <1>1, <1>2 DEF Line, Got, On
  <2>2. Channel(c)!Publish
    BY <1>1, <2>1 DEF Channel!Publish
  <2>. QED
    BY <2>2 DEF StreamStep, Channel!Next
<1>3. CASE On(c)
  <2>1. /\ o \in Connection /\ Shape(o, published) /\ o.queue \in Seq(Nat) /\ o.event \in Nat
        /\ Line(c) = IF o.event = Nothing THEN o.queue ELSE <<o.event>> \o o.queue
        /\ Line(c) \in Seq(Nat) /\ Got(c) = o.got
    BY <1>3, OnTypes, LineIs
  <2>2. k.event = o.event /\ k.queue = Deliver(o.queue, e) /\ k.got = o.got /\ k # Off
    <3>1. k = [o EXCEPT !.queue = Deliver(@, e)]
      BY <1>1, <1>3
    <3>2. k.at = o.at /\ o.at # "off"
      BY <2>1, <3>1 DEF Connection
    <3>3. k # Off
      BY <3>2 DEF Off
    <3>. QED
      BY <2>1, <3>1, <3>3 DEF Connection
  <2> DEFINE q == IF Len(o.queue) = MaxQueue THEN Tail(o.queue) ELSE o.queue
  <2>3. Len(o.queue) = MaxQueue => o.queue # << >>
    BY StreamAssumption, EmptySeq
  <2>4. q \in Seq(Nat) /\ Deliver(o.queue, e) = Append(q, e) /\ Append(q, e) \in Seq(Nat)
    <3>1. q \in Seq(Nat)
      BY <2>1, <2>3, HeadTailProperties
    <3>2. Deliver(o.queue, e) = Append(q, e)
      BY DEF Deliver
    <3> HIDE DEF q
    <3>. QED
      BY <1>1, <3>1, <3>2, AppendProperties
  <2>5. /\ Got(c)' = Got(c)
        /\ Line(c)' = IF o.event = Nothing THEN Append(q, e) ELSE Append(<<o.event>> \o q, e)
    <3>1. Line(c)' = (IF o.event = Nothing THEN << >> ELSE <<o.event>>) \o Append(q, e)
      BY <2>2, <2>4 DEF Line, On
    <3>2. << >> \o Append(q, e) = Append(q, e)
      BY <2>4, ConcatEmptySeq
    <3>3. <<o.event>> \o Append(q, e) = Append(<<o.event>> \o q, e)
      <4> HIDE DEF q
      <4>. QED
        BY <1>1, <2>1, <2>4, EventAppended
    <3>4. Got(c)' = Got(c)
      BY <2>1, <2>2 DEF Got, On
    <3>. QED
      BY <3>1, <3>2, <3>3, <3>4
  <2>6. Channel(c)!Lossy(Append(Line(c), e))
    <3>1. CASE Len(o.queue) # MaxQueue
      <4>1. Line(c)' = Append(Line(c), e)
        BY <2>1, <2>5, <3>1
      <4>. QED
        BY <4>1 DEF Channel!Lossy
    <3>2. CASE Len(o.queue) = MaxQueue /\ o.event = Nothing
      <4>1. Line(c) = o.queue /\ Line(c)' = Append(Tail(o.queue), e) /\ o.queue # << >>
        BY <2>1, <2>3, <2>5, <3>2
      <4>2. Tail(Append(o.queue, e)) = Append(Tail(o.queue), e)
        BY <2>1, <4>1, HeadTailAppend
      <4>3. Append(o.queue, e) \in Seq(Nat) /\ Append(o.queue, e) # << >>
        BY <1>1, <2>1, AppendProperties
      <4>. QED
        BY <4>1, <4>2, <4>3, LosesFirst
    <3>3. CASE Len(o.queue) = MaxQueue /\ o.event # Nothing
      <4>1. Line(c)' = Append(<<o.event>> \o Tail(o.queue), e) /\ o.queue # << >>
        BY <2>3, <2>5, <3>3
      <4>2. Tail(o.queue) \in Seq(Nat)
        BY <2>1, <4>1, HeadTailProperties
      <4>3. Line(c)' = <<o.event>> \o Append(Tail(o.queue), e)
        BY <1>1, <2>1, <4>1, <4>2, EventAppended
      <4>4. Tail(Append(o.queue, e)) = Append(Tail(o.queue), e)
        BY <2>1, <4>1, HeadTailAppend
      <4>5. Append(o.queue, e) \in Seq(Nat) /\ Append(o.queue, e) # << >>
        BY <1>1, <2>1, AppendProperties
      <4>6. Channel(c)!Lossy(<<o.event>> \o Append(o.queue, e))
        BY <2>1, <4>3, <4>4, <4>5, LosesSecond
      <4>7. <<o.event>> \o Append(o.queue, e) = Append(Line(c), e)
        <5>1. Line(c) = <<o.event>> \o o.queue
          BY <2>1, <3>3
        <5>2. Append(<<o.event>> \o o.queue, e) = <<o.event>> \o Append(o.queue, e)
          BY <1>1, <2>1, EventAppended
        <5>. QED
          BY <5>1, <5>2
      <4>. QED
        BY <4>6, <4>7
    <3>. QED
      BY <3>1, <3>2, <3>3
  <2>7. Channel(c)!Publish
    BY <1>1, <2>5, <2>6 DEF Channel!Publish
  <2>. QED
    BY <2>7 DEF StreamStep, Channel!Next
<1>. QED
  BY <1>2, <1>3

\* Every subscriber gets events in order and each once at most, whatever is
\* dropped on the way: each connection implements LossyFifo
\* (broker.py, publish; main.py, websocket).
THEOREM StreamImplementsFifo == StreamSpec => ImplementsLossyFifo
<1>1. StreamInit => \A c \in Client : Channel(c)!Init
  BY DEF StreamInit, Channel!Init, Line, Got, On
<1>2. StreamInv /\ [StreamNext]_stream =>
        [\A c \in Client : [Channel(c)!Next]_(Channel(c)!vars)]_stream
  <2>. SUFFICES ASSUME StreamInv, StreamNext, NEW c \in Client
                PROVE  StreamStep(c)
    BY DEF StreamStep
  <2>1. CASE Publish
    BY <2>1, PublishSteps
  <2>2. ASSUME NEW d \in Client, Connect(d) \/ Close(d) \/ Say(d) \/ Loop(d), d # c
        PROVE  StreamStep(c)
    <3>1. conn'[c] = conn[c] /\ UNCHANGED published
      BY <2>2 DEF Connect, Close, Say, Loop, TakeEvent, Receive, ChooseEvent, Send, Answer,
                  Become, StreamInv
    <3>. QED
      BY <3>1, OthersStay
  <2>3. CASE Connect(c) \/ Close(c) \/ Loop(c)
    BY <2>3, ConnectSteps, LoopSteps
  <2>4. CASE Say(c)
    <3>1. /\ On(c) /\ conn[c] \in Connection /\ UNCHANGED published
          /\ conn'[c] = [conn[c] EXCEPT !.said = @ + 1, !.inbox = Append(@, conn[c].said + 1)]
      BY <2>4, OnTypes DEF Say, Become, StreamInv
    <3>2. /\ conn'[c].event = conn[c].event /\ conn'[c].queue = conn[c].queue
          /\ conn'[c].got = conn[c].got /\ conn'[c].at = conn[c].at /\ conn[c].at # "off"
      BY <3>1 DEF Connection
    <3>3. conn'[c] # Off /\ conn[c] # Off
      BY <3>2 DEF Off
    <3>4. Line(c)' = Line(c) /\ Got(c)' = Got(c)
      BY <3>2, <3>3 DEF Line, Got, On
    <3>. QED
      BY <3>1, <3>4 DEF StreamStep, Channel!vars
  <2>. QED
    BY <2>1, <2>2, <2>3, <2>4 DEF StreamNext
<1>3. StreamSpec => [][\A c \in Client : [Channel(c)!Next]_(Channel(c)!vars)]_stream
  BY <1>2, StreamInvariant, PTL DEF StreamSpec
<1>. QED
  BY <1>1, <1>3 DEF StreamSpec, ImplementsLossyFifo
=============================================================================
