------------------------- MODULE ReplSessionsProofs --------------------------
(***************************************************************************)
(* Proofs about the REPL's sessions, for any number of sessions, requests  *)
(* and cells.                                                              *)
(*                                                                         *)
(* None of the properties is inductive: they rest on what a call that has  *)
(* a lock knows of the table, of the session's worker and of its pipe.     *)
(***************************************************************************)
EXTENDS ReplSessions, FiniteSetTheorems, TLAPS

\* A call about a session names one that was created, and only a cell comes to
\* the session's lock.
Named ==
  \A c \in Caller :
    /\ call[c].op \in {"execute", "interrupt"} => Of(c) \in Session
    /\ Of(c) \in Session => worker[Of(c)] # "none"
    /\ At(c, "queued") \/ At(c, "reading") \/ At(c, "ending") => call[c].op = "execute"

\* Who works with the table has the manager's lock, and finds room for a session
\* it starts.
Managed ==
  \A c \in Caller :
    /\ At(c, "managing") \/ At(c, "starting") => manager = c
    /\ At(c, "starting") => Cardinality(table) < MaxSessions

\* Who reads has the session's lock, and the session has a cell left; who ends
\* has it too, and has told the worker to stop.
Locked ==
  \A c \in Caller :
    /\ At(c, "reading") \/ At(c, "ending") => lock[Of(c)] = c
    /\ At(c, "reading") => cells[Of(c)] < MaxCells
    /\ At(c, "ending") => worker[Of(c)] \in {"stopping", "gone"}

\* While nobody has the lock nothing is left in the pipe, or its worker is gone; a
\* live worker has at most the cell of the call that reads.
PipesClean ==
  \A s \in Session :
    /\ worker[s] = "none" => pipe[s] = <<>>
    /\ lock[s] = Free /\ worker[s] # "gone" => pipe[s] = <<>>
    /\ worker[s] = "live" /\ pipe[s] # <<>> =>
         \E c \in Caller : At(c, "reading") /\ Of(c) = s

\* Who looks after a session of the table whose worker has ended.
Attended ==
  \A s \in table :
    /\ worker[s] # "none"
    /\ worker[s] = "stopping" => \E c \in Caller : At(c, "ending") /\ Of(c) = s
    /\ worker[s] = "gone" =>
         \E c \in Caller :
           /\ Of(c) = s
           /\ \/ At(c, "reading") /\ pipe[s] = <<>>
              \/ At(c, "ending")
              \/ At(c, "waiting") /\ call[c].op = "interrupt"

ReplInv ==
  /\ TypeOK
  /\ Named
  /\ Managed
  /\ Locked
  /\ AnswersAreOwn
  /\ PipesClean
  /\ Attended
  /\ LiveWorkersAreBounded

-----------------------------------------------------------------------------
\* The manager starts with an empty table.
LEMMA InitInv == Init => ReplInv
<1> SUFFICES ASSUME Init PROVE ReplInv
  OBVIOUS
<1> USE ReplAssumption DEF Init, Idle, At, Of
<1>1. TypeOK
  BY DEF TypeOK, Worker, Request, Op
<1>2. Named /\ Managed /\ Locked /\ AnswersAreOwn /\ PipesClean /\ Attended
  BY DEF Named, Managed, Locked, AnswersAreOwn, PipesClean, Attended
<1>3. Cardinality(table) = 0
  BY FS_EmptySet
<1>4. LiveWorkersAreBounded
  BY <1>3 DEF LiveWorkersAreBounded
<1> QED
  BY <1>1, <1>2, <1>4 DEF ReplInv

-----------------------------------------------------------------------------
(* What the steps do to calls, workers and sets                            *)

\* A call goes to another place, and no other call does.
LEMMA GoesMoves ==
  ASSUME TypeOK, NEW c \in Caller, NEW place \in Place, Goes(c, place)
  PROVE  /\ call' \in [Caller -> Request]
         /\ call'[c].at = place /\ call'[c].op = call[c].op /\ call'[c].s = call[c].s
         /\ \A d \in Caller \ {c} : call'[d] = call[d]
BY DEF TypeOK, Goes, Request

\* A call ends, and no other call does.
LEMMA EndsMoves ==
  ASSUME TypeOK, NEW c \in Caller, Ends(c)
  PROVE  /\ call' \in [Caller -> Request]
         /\ call'[c].at = "idle" /\ call'[c].op = "info" /\ call'[c].s = NoSession
         /\ \A d \in Caller \ {c} : call'[d] = call[d]
BY DEF TypeOK, Ends, Request, Idle, Op

\* A signal stops a live worker, and no other.
LEMMA SignalMoves ==
  ASSUME TypeOK, NEW s, Signal(s)
  PROVE  /\ worker' \in [Session -> Worker]
         /\ \A r \in Session \ {s} : worker'[r] = worker[r]
         /\ s \in Session => worker'[s] = IF worker[s] = "live" THEN "stopping" ELSE worker[s]
<1>1. CASE s \in Session
  BY <1>1 DEF TypeOK, Signal, Worker
<1>2. CASE s \notin Session
  BY <1>2 DEF TypeOK, Signal
<1> QED
  BY <1>1, <1>2

\* The shape of the state.
LEMMA NextType == ReplInv /\ [Next]_vars => TypeOK'
<1> SUFFICES ASSUME ReplInv, [Next]_vars PROVE TypeOK'
  OBVIOUS
<1>0. TypeOK
  BY DEF ReplInv
<1>1. ASSUME NEW s \in Session, WorkerEnds(s) \/ WorkerDies(s) PROVE TypeOK'
  <2>1. worker' \in [Session -> Worker]
    BY <1>0, <1>1 DEF WorkerEnds, WorkerDies, Worker, TypeOK
  <2>2. pipe' \in [Session -> Seq(Caller)]
    <3>1. <<>> \in Seq(Caller)
      OBVIOUS
    <3> QED
      BY <1>0, <1>1, <3>1 DEF WorkerEnds, WorkerDies, TypeOK
  <2> QED
    BY <1>0, <1>1, <2>1, <2>2 DEF WorkerEnds, WorkerDies, TypeOK
<1>2. ASSUME NEW s \in Session, FallsQuiet(s) PROVE TypeOK'
  BY <1>0, <1>2 DEF FallsQuiet, TypeOK
<1>3. ASSUME NEW c \in Caller, NEW op \in Op, NEW s \in Session \cup {NoSession},
             Ask(c, op, s)
      PROVE  TypeOK'
  BY <1>0, <1>3 DEF Ask, Place, TypeOK, Request
<1>4. ASSUME NEW c \in Caller, Enter(c) PROVE TypeOK'
  <2>1. call' \in [Caller -> Request]
    BY <1>0, <1>4, GoesMoves DEF Enter, Place
  <2> QED
    BY <1>0, <1>4, <2>1 DEF Enter, TypeOK
<1>5. ASSUME NEW c \in Caller, Expire(c) \/ Expired(c) PROVE TypeOK'
  <2>1. worker' \in [Session -> Worker]
    BY <1>0, <1>5, SignalMoves DEF Expire, Expired, TypeOK
  <2> QED
    BY <1>0, <1>5, <2>1 DEF Expire, Expired, TypeOK
<1>6. ASSUME NEW c \in Caller,
             \/ RefuseCreate(c) \/ StartFails(c) \/ Inform(c) \/ Stopped(c)
             \/ Deny(c) \/ SendFails(c)
      PROVE  TypeOK'
  <2>1. call' \in [Caller -> Request]
    BY <1>0, <1>6, EndsMoves DEF RefuseCreate, StartFails, Inform, Stopped, Deny, SendFails
  <2> QED
    BY <1>0, <1>6, <2>1
    DEF RefuseCreate, StartFails, Inform, Stopped, Deny, SendFails, TypeOK
<1>7. ASSUME NEW c \in Caller, StartWorker(c) PROVE TypeOK'
  <2>1. call' \in [Caller -> Request]
    BY <1>0, <1>7, GoesMoves DEF StartWorker, Place
  <2> QED
    BY <1>0, <1>7, <2>1 DEF StartWorker, TypeOK
<1>8. ASSUME NEW c \in Caller, Started(c) PROVE TypeOK'
  <2>1. call' \in [Caller -> Request]
    BY <1>0, <1>8, EndsMoves DEF Started
  <2> QED
    BY <1>0, <1>8, <2>1 DEF Started, TypeOK, Worker
<1>9. ASSUME NEW c \in Caller, LookUp(c) PROVE TypeOK'
  <2>1. call' \in [Caller -> Request]
    BY <1>0, <1>9, EndsMoves, GoesMoves DEF LookUp, Place
  <2> QED
    BY <1>0, <1>9, <2>1 DEF LookUp, TypeOK
<1>10. ASSUME NEW c \in Caller, Interrupt(c) PROVE TypeOK'
  <2>1. call' \in [Caller -> Request]
    BY <1>0, <1>10, EndsMoves, GoesMoves DEF Interrupt, Place
  <2>2. worker' \in [Session -> Worker]
    BY <1>0, <1>10, SignalMoves DEF Interrupt, TypeOK
  <2> QED
    BY <1>0, <1>10, <2>1, <2>2 DEF Interrupt, TypeOK
<1>11. ASSUME NEW c \in Caller, Send(c) PROVE TypeOK'
  <2>1. call' \in [Caller -> Request]
    BY <1>0, <1>11, GoesMoves DEF Send, Place
  <2>2. Of(c) \in Session
    BY <1>11 DEF Send, ReplInv, Named, At, Of
  <2>3. Append(pipe[Of(c)], c) \in Seq(Caller)
    BY <1>0, <2>2 DEF TypeOK
  <2>4. pipe' \in [Session -> Seq(Caller)]
    BY <1>0, <1>11, <2>3 DEF Send, TypeOK
  <2> QED
    BY <1>0, <1>11, <2>1, <2>4 DEF Send, TypeOK
<1>12. ASSUME NEW c \in Caller, Read(c) PROVE TypeOK'
  <2>1. call' \in [Caller -> Request]
    BY <1>0, <1>12, EndsMoves DEF Read
  <2>2. Of(c) \in Session /\ cells[Of(c)] < MaxCells
    BY <1>12 DEF Read, ReplInv, Named, Locked, At, Of
  <2>3. Tail(pipe[Of(c)]) \in Seq(Caller)
    BY <1>0, <1>12, <2>2 DEF Read, TypeOK
  <2>4. cells[Of(c)] + 1 \in 0 .. MaxCells
    BY <1>0, <2>2, ReplAssumption DEF TypeOK
  <2>5. pipe' \in [Session -> Seq(Caller)] /\ cells' \in [Session -> 0 .. MaxCells]
    BY <1>0, <1>12, <2>3, <2>4 DEF Read, TypeOK
  <2> QED
    BY <1>0, <1>12, <2>1, <2>5 DEF Read, TypeOK
<1>13. ASSUME NEW c \in Caller, TimeOut(c) PROVE TypeOK'
  <2>1. call' \in [Caller -> Request]
    BY <1>0, <1>13, GoesMoves DEF TimeOut, Place
  <2>2. worker' \in [Session -> Worker]
    BY <1>0, <1>13, SignalMoves DEF TimeOut
  <2> QED
    BY <1>0, <1>13, <2>1, <2>2 DEF TimeOut, TypeOK
<1>14. ASSUME NEW c \in Caller, End(c) PROVE TypeOK'
  <2>1. [at |-> "waiting", op |-> "interrupt", s |-> Of(c)] \in Request
    BY <1>0 DEF TypeOK, Request, Place, Op, Of
  <2> QED
    BY <1>0, <1>14, <2>1 DEF End, TypeOK
<1>15. CASE UNCHANGED vars
  BY <1>0, <1>15 DEF vars, TypeOK
<1> QED
  BY <1>1, <1>2, <1>3, <1>4, <1>5, <1>6, <1>7, <1>8, <1>9, <1>10, <1>11, <1>12, <1>13,
     <1>14, <1>15
  DEF Next, Proceeds, Manages, Executes

-----------------------------------------------------------------------------
(* What the locks protect                                                  *)

\* A worker that was started stays started, one that was told to stop does not
\* live again, and one that is gone stays gone.
LEMMA WorkersAge ==
  ASSUME ReplInv, [Next]_vars, NEW s \in Session
  PROVE  /\ worker[s] # "none" => worker'[s] # "none"
         /\ worker[s] \in {"stopping", "gone"} => worker'[s] \in {"stopping", "gone"}
         /\ worker[s] = "gone" => worker'[s] = "gone"
<1>0. TypeOK
  BY DEF ReplInv
<1>1. ASSUME NEW r, Signal(r)
      PROVE  worker'[s] = worker[s] \/ (worker[s] = "live" /\ worker'[s] = "stopping")
  BY <1>0, <1>1, SignalMoves
<1>2. CASE \E c \in Caller : Expire(c) \/ Interrupt(c) \/ TimeOut(c)
  BY <1>1, <1>2 DEF Expire, Interrupt, TimeOut
<1>3. CASE \E c \in Caller : Started(c)
  BY <1>0, <1>3 DEF Started, TypeOK
<1>4. CASE \E r \in Session : WorkerEnds(r) \/ WorkerDies(r)
  BY <1>0, <1>4 DEF WorkerEnds, WorkerDies, TypeOK
<1>5. CASE worker' = worker
  BY <1>5
<1> QED
  BY <1>2, <1>3, <1>4, <1>5
  DEF Next, vars, Proceeds, Manages, Executes, FallsQuiet, Ask, Enter, Expired,
      RefuseCreate, StartWorker, StartFails, Inform, LookUp, Stopped, Deny, Send,
      SendFails, Read, End

\* What a call may come to be in one step.
LEMMA CallMoves ==
  ASSUME ReplInv, [Next]_vars, NEW d \in Caller, call'[d] # call[d]
  PROVE  \/ call[d] = Idle /\ call'[d].at = "waiting"
            /\ IF call'[d].op = "create" THEN call'[d].s = NoSession
               ELSE call'[d].s \in Session /\ worker[call'[d].s] # "none"
         \/ call'[d].at = "idle" /\ call'[d].op = "info" /\ call'[d].s = NoSession
         \/ /\ call'[d].op = call[d].op /\ call'[d].s = call[d].s
            /\ \/ Enter(d) /\ call'[d].at = "managing"
               \/ StartWorker(d) /\ call'[d].at = "starting"
               \/ LookUp(d) /\ call'[d].at = "queued"
               \/ Interrupt(d) /\ call'[d].at = "stopping"
               \/ Send(d) /\ call'[d].at = "reading"
               \/ TimeOut(d) /\ call'[d].at = "ending"
         \/ /\ End(d) /\ call'[d].at = "waiting" /\ call'[d].op = "interrupt"
            /\ call'[d].s = call[d].s
<1>0. TypeOK
  BY DEF ReplInv
<1>1. CASE \E c \in Caller, op \in Op, s \in Session \cup {NoSession} : Ask(c, op, s)
  <2>1. PICK c \in Caller, op \in Op, s \in Session \cup {NoSession} : Ask(c, op, s)
    BY <1>1
  <2>2. c = d /\ call[d] = Idle
        /\ call'[d] = [at |-> "waiting", op |-> op, s |-> s]
    BY <1>0, <2>1 DEF Ask, TypeOK
  <2> QED
    BY <2>1, <2>2 DEF Ask
<1>2. CASE \E c \in Caller : End(c)
  <2>1. PICK c \in Caller : End(c)
    BY <1>2
  <2>2. c = d /\ call'[d] = [at |-> "waiting", op |-> "interrupt", s |-> call[d].s]
    BY <1>0, <2>1 DEF End, TypeOK, Of
  <2> QED
    BY <2>1, <2>2
<1>3. ASSUME NEW c \in Caller, Ends(c)
      PROVE  call'[d].at = "idle" /\ call'[d].op = "info" /\ call'[d].s = NoSession
  BY <1>0, <1>3, EndsMoves
<1>4. ASSUME NEW c \in Caller, NEW place \in Place, Goes(c, place)
      PROVE  /\ c = d /\ call'[d].at = place
             /\ call'[d].op = call[d].op /\ call'[d].s = call[d].s
  BY <1>0, <1>4, GoesMoves
<1>5. CASE \E c \in Caller : \/ Enter(c) \/ StartWorker(c) \/ Send(c) \/ TimeOut(c)
  BY <1>4, <1>5 DEF Enter, StartWorker, Send, TimeOut, Place
<1>6. CASE \E c \in Caller : LookUp(c) \/ Interrupt(c)
  BY <1>3, <1>4, <1>6 DEF LookUp, Interrupt, Place
<1>7. CASE \E c \in Caller : \/ RefuseCreate(c) \/ Started(c) \/ StartFails(c) \/ Inform(c)
                             \/ Stopped(c) \/ Deny(c) \/ SendFails(c) \/ Read(c)
  BY <1>3, <1>7 DEF RefuseCreate, Started, StartFails, Inform, Stopped, Deny, SendFails, Read
<1>8. call' # call
  OBVIOUS
<1> QED
  BY <1>1, <1>2, <1>5, <1>6, <1>7, <1>8
  DEF Next, vars, Proceeds, Manages, Executes, WorkerEnds, WorkerDies, FallsQuiet,
      Expire, Expired

\* The table grows by a live worker's session.
LEMMA TableMoves ==
  ASSUME ReplInv, [Next]_vars, NEW s \in table', s \notin table
  PROVE  worker'[s] = "live"
<1>0. TypeOK
  BY DEF ReplInv
<1>1. CASE \E c \in Caller : Started(c)
  BY <1>0, <1>1 DEF Started, TypeOK
<1> QED
  BY <1>1
  DEF Next, vars, Proceeds, Manages, Executes, WorkerEnds, WorkerDies, FallsQuiet, Ask,
      Enter, Expire, Expired, RefuseCreate, StartWorker, StartFails, Inform, LookUp,
      Interrupt, Stopped, Deny, Send, SendFails, Read, TimeOut, End

\* Why the worker of a session that stays in the table changes.
LEMMA WorkerMoves ==
  ASSUME ReplInv, [Next]_vars, NEW s \in Session, worker'[s] # worker[s],
         s \in table, s \in table'
  PROVE  \/ WorkerEnds(s) \/ WorkerDies(s) \/ worker'[s] = "live"
         \/ worker'[s] = "stopping" /\ \E c \in Caller : TimeOut(c) /\ Of(c) = s
<1>0. TypeOK
  BY DEF ReplInv
<1>1. ASSUME NEW r, Signal(r) PROVE r = s /\ worker'[s] = "stopping"
  BY <1>0, <1>1, SignalMoves
<1>2. CASE \E c \in Caller : Expire(c) \/ Interrupt(c)
  BY <1>1, <1>2 DEF Expire, Interrupt
<1>3. CASE \E c \in Caller : TimeOut(c)
  BY <1>1, <1>3 DEF TimeOut
<1>4. CASE \E c \in Caller : Started(c)
  BY <1>0, <1>4 DEF Started, TypeOK
<1>5. CASE \E r \in Session : WorkerEnds(r) \/ WorkerDies(r)
  BY <1>0, <1>5 DEF WorkerEnds, WorkerDies, TypeOK
<1> QED
  BY <1>2, <1>3, <1>4, <1>5
  DEF Next, vars, Proceeds, Manages, Executes, FallsQuiet, Ask, Enter, Expired,
      RefuseCreate, StartWorker, StartFails, Inform, LookUp, Stopped, Deny, Send,
      SendFails, Read, End

\* A live worker's session stays in the table, or gets there.
LEMMA LiveMoves ==
  ASSUME ReplInv, [Next]_vars, NEW s \in Session, worker'[s] = "live",
         worker[s] = "live" => s \in table
  PROVE  s \in table'
<1>0. TypeOK
  BY DEF ReplInv
<1>1. CASE \E c \in Caller : Started(c)
  BY <1>0, <1>1 DEF Started, TypeOK
<1>2. ASSUME NEW r, Signal(r) PROVE r # s /\ worker[s] = "live"
  BY <1>0, <1>2, SignalMoves
<1>3. CASE \E c \in Caller : Expire(c) \/ Interrupt(c) \/ TimeOut(c)
  BY <1>2, <1>3 DEF Expire, Interrupt, TimeOut
<1>4. CASE \E r \in Session : WorkerEnds(r) \/ WorkerDies(r)
  BY <1>0, <1>4 DEF WorkerEnds, WorkerDies, TypeOK
<1> QED
  BY <1>1, <1>3, <1>4
  DEF Next, vars, Proceeds, Manages, Executes, FallsQuiet, Ask, Enter, Expired,
      RefuseCreate, StartWorker, StartFails, Inform, LookUp, Stopped, Deny, Send,
      SendFails, Read, End

\* A call that reads goes on only when it has read or timed out.
LEMMA ReaderMoves ==
  ASSUME ReplInv, [Next]_vars, NEW d \in Caller, call[d].at = "reading", call'[d] # call[d]
  PROVE  TimeOut(d) \/ Read(d)
<1>0. TypeOK
  BY DEF ReplInv
<1>1. ASSUME NEW c \in Caller, Ends(c) \/ \E place \in Place : Goes(c, place)
      PROVE  c = d
  BY <1>0, <1>1, EndsMoves, GoesMoves
<1>2. \A c \in Caller : End(c) \/ (\E op \in Op, s \in Session \cup {NoSession} : Ask(c, op, s))
        => c = d
  BY <1>0 DEF End, Ask, TypeOK
<1>3. call[d] # Idle
  BY DEF Idle
<1> QED
  BY <1>1, <1>2, <1>3
  DEF Next, vars, Proceeds, Manages, Executes, WorkerEnds, WorkerDies, FallsQuiet, Ask,
      Enter, Expire, Expired, RefuseCreate, StartWorker, Started, StartFails, Inform,
      LookUp, Interrupt, Stopped, Deny, Send, SendFails, Read, TimeOut, End, At, Managing,
      Place

\* A call that ends goes on to interrupt its session.
LEMMA EnderMoves ==
  ASSUME ReplInv, [Next]_vars, NEW d \in Caller, call[d].at = "ending"
  PROVE  /\ call'[d].s = call[d].s
         /\ \/ call'[d].at = "ending"
            \/ End(d) /\ call'[d].at = "waiting" /\ call'[d].op = "interrupt"
<1>0. TypeOK
  BY DEF ReplInv
<1>1. ASSUME NEW c \in Caller, c # d, Ends(c) \/ \E place \in Place : Goes(c, place)
      PROVE  call'[d] = call[d]
  BY <1>0, <1>1, EndsMoves, GoesMoves
<1>2. \A c \in Caller \ {d} :
        End(c) \/ (\E op \in Op, s \in Session \cup {NoSession} : Ask(c, op, s))
          => call'[d] = call[d]
  BY <1>0 DEF End, Ask, TypeOK
<1>3. call[d] # Idle
  BY DEF Idle
<1>4. \A c \in Caller : End(c) => call'[d] = call[d] \/ End(d)
  BY <1>2
<1>5. \A op \in Op, s \in Session \cup {NoSession} : ~Ask(d, op, s)
  BY <1>3 DEF Ask
<1>6. call'[d] = call[d] \/ End(d)
  BY <1>1, <1>2, <1>4, <1>5
  DEF Next, vars, Proceeds, Manages, Executes, WorkerEnds, WorkerDies, FallsQuiet,
      Enter, Expire, Expired, RefuseCreate, StartWorker, Started, StartFails, Inform,
      LookUp, Interrupt, Stopped, Deny, Send, SendFails, Read, TimeOut, At, Managing,
      Place
<1>7. CASE End(d)
  BY <1>0, <1>7 DEF End, Of, TypeOK
<1> QED
  BY <1>6, <1>7

\* A call that is to interrupt a session waits until it has done so.
LEMMA WaiterMoves ==
  ASSUME ReplInv, [Next]_vars, NEW d \in Caller, call[d].at = "waiting",
         call[d].op = "interrupt", ~Interrupt(d)
  PROVE  call'[d] = call[d]
<1>0. TypeOK
  BY DEF ReplInv
<1>1. ASSUME NEW c \in Caller, c # d, Ends(c) \/ \E place \in Place : Goes(c, place)
      PROVE  call'[d] = call[d]
  BY <1>0, <1>1, EndsMoves, GoesMoves
<1>2. \A c \in Caller \ {d} :
        End(c) \/ (\E op \in Op, s \in Session \cup {NoSession} : Ask(c, op, s))
          => call'[d] = call[d]
  BY <1>0 DEF End, Ask, TypeOK
<1>3. call[d] # Idle
  BY DEF Idle
<1> QED
  BY <1>1, <1>2, <1>3
  DEF Next, vars, Proceeds, Manages, Executes, WorkerEnds, WorkerDies, FallsQuiet, Ask,
      Enter, Expire, Expired, RefuseCreate, StartWorker, Started, StartFails, Inform,
      LookUp, Interrupt, Stopped, Deny, Send, SendFails, Read, TimeOut, End, At, Managing,
      Place

\* Calls keep naming sessions that were created.
LEMMA NextNamed == ReplInv /\ [Next]_vars => Named'
<1> SUFFICES ASSUME ReplInv, [Next]_vars, NEW d \in Caller
             PROVE  /\ call'[d].op \in {"execute", "interrupt"} => call'[d].s \in Session
                    /\ call'[d].s \in Session => worker'[call'[d].s] # "none"
                    /\ call'[d].at \in {"queued", "reading", "ending"}
                         => call'[d].op = "execute"
  BY DEF Named, At, Of
<1>1. /\ call[d].op \in {"execute", "interrupt"} => call[d].s \in Session
      /\ call[d].s \in Session => worker[call[d].s] # "none"
      /\ call[d].at \in {"queued", "reading", "ending"} => call[d].op = "execute"
  BY DEF ReplInv, Named, At, Of
<1>2. \A s \in Session : worker[s] # "none" => worker'[s] # "none"
  BY WorkersAge
<1>3. LookUp(d) => call[d].op = "execute"
  BY DEF LookUp, Managing
<1>4. Send(d) \/ TimeOut(d) \/ End(d) => call[d].op = "execute"
  BY <1>1 DEF Send, TimeOut, End, At
<1>5. call'[d].op \in Op
  BY NextType DEF TypeOK, Request
<1>6. CASE call'[d] = call[d]
  BY <1>1, <1>2, <1>6
<1>7. CASE call'[d] # call[d]
  BY <1>1, <1>2, <1>3, <1>4, <1>5, <1>7, CallMoves, ReplAssumption DEF Op
<1> QED
  BY <1>6, <1>7

\* Whoever works with the table keeps the manager's lock until it is done.
LEMMA NextManaged == ReplInv /\ [Next]_vars => Managed'
<1> SUFFICES ASSUME ReplInv, [Next]_vars, NEW d \in Caller,
                    call'[d].at \in {"managing", "starting"}
             PROVE  /\ manager' = d
                    /\ call'[d].at = "starting" => Cardinality(table') < MaxSessions
  BY DEF Managed, At
<1>0. TypeOK /\ Managed
  BY DEF ReplInv
<1>1. Cardinality(table) \in Nat /\ \A S \in SUBSET table : Cardinality(S) <= Cardinality(table)
  <2>1. IsFiniteSet(table)
    BY <1>0, ReplAssumption, FS_Subset DEF TypeOK
  <2> QED
    BY <2>1, FS_Subset, FS_CardinalityType
<1>2. CASE Enter(d)
  BY <1>0, <1>2, GoesMoves DEF Enter, Place
<1>3. CASE StartWorker(d)
  BY <1>0, <1>1, <1>3, ReplAssumption DEF StartWorker, Managing, Managed, At, Full
<1>4. CASE call'[d] = call[d]
  <2>1. manager = d /\ d # Free
    BY <1>0, <1>4, ReplAssumption DEF Managed, At
  <2>2. ASSUME NEW c \in Caller,
               RefuseCreate(c) \/ Started(c) \/ StartFails(c) \/ Inform(c) \/ LookUp(c)
        PROVE  FALSE
    <3>1. c = d
      BY <1>0, <2>1, <2>2
      DEF Managed, At, Managing, RefuseCreate, Started, StartFails, Inform, LookUp
    <3>2. call'[d].at \in {"idle", "queued"}
      BY <1>0, <2>2, <3>1, GoesMoves, EndsMoves
      DEF RefuseCreate, Started, StartFails, Inform, LookUp, Place
    <3> QED
      BY <3>2
  <2>3. ASSUME NEW c \in Caller, Enter(c) \/ Interrupt(c) PROVE FALSE
    BY <2>1, <2>3 DEF Enter, Interrupt
  <2>4. manager' = manager /\ table' \in SUBSET table
    BY <2>2, <2>3
    DEF Next, vars, Proceeds, Manages, Executes, WorkerEnds, WorkerDies, FallsQuiet, Ask,
        Expire, Expired, StartWorker, Stopped, Deny, Send, SendFails, Read, TimeOut, End
  <2>5. call[d].at = "starting" => Cardinality(table) < MaxSessions
    BY <1>0 DEF Managed, At
  <2>6. Cardinality(table') \in Nat /\ Cardinality(table') <= Cardinality(table)
    <3>1. IsFiniteSet(table')
      BY <1>0, <2>4, ReplAssumption, FS_Subset DEF TypeOK
    <3> QED
      BY <1>1, <2>4, <3>1, FS_CardinalityType
  <2> QED
    BY <1>1, <1>4, <2>1, <2>4, <2>5, <2>6, ReplAssumption
<1> QED
  BY <1>2, <1>3, <1>4, CallMoves

\* A session's lock is taken to send a cell, and given up by its holder.
LEMMA LockMoves ==
  ASSUME ReplInv, [Next]_vars, NEW s \in Session, lock'[s] # lock[s]
  PROVE  \E c \in Caller :
           /\ Of(c) = s
           /\ \/ Send(c) /\ lock[s] = Free /\ lock'[s] = c
              \/ (Read(c) \/ End(c)) /\ lock[s] = c /\ lock'[s] = Free
<1>0. TypeOK
  BY DEF ReplInv
<1>1. PICK c \in Caller : Send(c) \/ Read(c) \/ End(c)
  BY DEF Next, vars, Proceeds, Manages, Executes, WorkerEnds, WorkerDies, FallsQuiet, Ask,
         Enter, Expire, Expired, RefuseCreate, StartWorker, Started, StartFails, Inform,
         LookUp, Interrupt, Stopped, Deny, SendFails, TimeOut
<1>2. Read(c) \/ End(c) => lock[Of(c)] = c
  BY DEF Read, End, ReplInv, Locked
<1>3. CASE Send(c)
  BY <1>0, <1>3 DEF Send, TypeOK
<1>4. CASE Read(c) \/ End(c)
  BY <1>0, <1>2, <1>4 DEF Read, End, TypeOK
<1> QED
  BY <1>1, <1>3, <1>4

\* A pipe is filled and emptied under the session's lock, or lost with the worker.
LEMMA PipeMoves ==
  ASSUME ReplInv, [Next]_vars, NEW s \in Session, pipe'[s] # pipe[s]
  PROVE  \/ WorkerDies(s) /\ pipe'[s] = <<>>
         \/ \E c \in Caller :
              /\ Of(c) = s
              /\ \/ /\ Send(c) /\ lock[s] = Free /\ worker[s] = "live"
                    /\ pipe'[s] = <<c>>
                 \/ Read(c) /\ lock[s] = c /\ pipe[s] = <<c>> /\ pipe'[s] = <<>>
<1>0. TypeOK
  BY DEF ReplInv
<1>1. CASE \E r \in Session : WorkerDies(r)
  BY <1>0, <1>1 DEF WorkerDies, TypeOK
<1>2. ASSUME NEW c \in Caller, Send(c)
      PROVE  Of(c) = s /\ lock[s] = Free /\ worker[s] = "live" /\ pipe'[s] = <<c>>
  <2>1. Of(c) = s /\ lock[s] = Free /\ worker[s] = "live" /\ pipe'[s] = Append(pipe[s], c)
    BY <1>0, <1>2 DEF Send, TypeOK
  <2>2. pipe[s] = <<>>
    BY <2>1 DEF ReplInv, PipesClean
  <2> QED
    BY <2>1, <2>2
<1>3. ASSUME NEW c \in Caller, Read(c)
      PROVE  Of(c) = s /\ lock[s] = c /\ pipe[s] = <<c>> /\ pipe'[s] = <<>>
  <2>1. Of(c) = s /\ pipe[s] # <<>> /\ pipe'[s] = Tail(pipe[s]) /\ At(c, "reading")
    BY <1>0, <1>3 DEF Read, TypeOK
  <2>2. lock[s] = c /\ pipe[s] \in {<<>>, <<c>>}
    BY <2>1 DEF ReplInv, Locked, AnswersAreOwn
  <2>3. Tail(<<c>>) = <<>>
    OBVIOUS
  <2> QED
    BY <2>1, <2>2, <2>3
<1> QED
  BY <1>1, <1>2, <1>3
  DEF Next, vars, Proceeds, Manages, Executes, WorkerEnds, FallsQuiet, Ask, Enter, Expire,
      Expired, RefuseCreate, StartWorker, Started, StartFails, Inform, LookUp, Interrupt,
      Stopped, Deny, SendFails, TimeOut, End

\* Who reads or ends keeps the session's lock.
LEMMA NextLocked == ReplInv /\ [Next]_vars => Locked'
<1> SUFFICES ASSUME ReplInv, [Next]_vars, NEW d \in Caller,
                    call'[d].at \in {"reading", "ending"}
             PROVE  /\ lock'[call'[d].s] = d
                    /\ call'[d].at = "reading" => cells'[call'[d].s] < MaxCells
                    /\ call'[d].at = "ending" => worker'[call'[d].s] \in {"stopping", "gone"}
  BY DEF Locked, At, Of
<1> DEFINE s == call[d].s
<1>0. TypeOK
  BY DEF ReplInv
<1>1. CASE Send(d)
  <2>1. s \in Session /\ call'[d].s = s /\ call'[d].at = "reading"
    BY <1>0, <1>1, GoesMoves DEF Send, ReplInv, Named, At, Of, Place
  <2>2. lock'[s] = d /\ cells'[s] < MaxCells
    BY <1>0, <1>1, <2>1 DEF Send, MaySend, TypeOK, Of
  <2> QED
    BY <2>1, <2>2
<1>2. CASE TimeOut(d)
  <2>1. s \in Session /\ call'[d].s = s /\ call'[d].at = "ending" /\ worker[s] # "none"
    BY <1>0, <1>2, GoesMoves DEF TimeOut, ReplInv, Named, At, Of, Place
  <2>2. lock'[s] = d
    BY <1>2 DEF TimeOut, ReplInv, Locked, Of
  <2>3. worker'[s] \in {"stopping", "gone"}
    <3>1. Signal(s)
      BY <1>2 DEF TimeOut, Of
    <3> QED
      BY <1>0, <2>1, <3>1, SignalMoves DEF TypeOK, Worker
  <2> QED
    BY <2>1, <2>2, <2>3
<1>3. CASE call'[d] = call[d]
  <2>1. /\ s \in Session /\ lock[s] = d /\ d # Free
        /\ call[d].at = "reading" => cells[s] < MaxCells
        /\ call[d].at = "ending" => worker[s] \in {"stopping", "gone"}
    BY <1>3, ReplAssumption DEF ReplInv, Named, Locked, At, Of
  <2>2. ~(Read(d) \/ End(d))
    <3>1. CASE Read(d)
      BY <1>0, <1>3, <3>1, EndsMoves DEF Read
    <3>2. CASE End(d)
      BY <1>0, <1>3, <3>2 DEF End, TypeOK
    <3> QED
      BY <3>1, <3>2
  <2>3. lock'[s] = d
    BY <2>1, <2>2, LockMoves
  <2>4. cells'[s] = cells[s]
    <3>1. ASSUME NEW c \in Caller, Read(c) PROVE Of(c) # s
      BY <2>1, <2>2, <3>1 DEF Read, ReplInv, Locked
    <3>2. CASE \E c \in Caller : Read(c)
      BY <1>0, <2>1, <3>1, <3>2 DEF Read, TypeOK
    <3>3. CASE ~\E c \in Caller : Read(c)
      BY <3>3
      DEF Next, vars, Proceeds, Manages, Executes, WorkerEnds, WorkerDies, FallsQuiet,
          Ask, Enter, Expire, Expired, RefuseCreate, StartWorker, Started, StartFails,
          Inform, LookUp, Interrupt, Stopped, Deny, Send, SendFails, TimeOut, End
    <3> QED
      BY <3>2, <3>3
  <2>5. worker[s] \in {"stopping", "gone"} => worker'[s] \in {"stopping", "gone"}
    BY <2>1, WorkersAge
  <2> QED
    BY <1>3, <2>1, <2>3, <2>4, <2>5
<1> QED
  BY <1>1, <1>2, <1>3, CallMoves

\* A call finds its own answer only.
LEMMA NextAnswers == ReplInv /\ [Next]_vars => AnswersAreOwn'
<1> SUFFICES ASSUME ReplInv, [Next]_vars, NEW d \in Caller, call'[d].at = "reading"
             PROVE  pipe'[call'[d].s] \in {<<>>, <<d>>}
  BY DEF AnswersAreOwn, At, Of
<1> DEFINE s == call[d].s
<1>0. TypeOK
  BY DEF ReplInv
<1>1. CASE Send(d)
  <2>1. s \in Session /\ call'[d].s = s
    BY <1>0, <1>1, GoesMoves DEF Send, ReplInv, Named, At, Of, Place
  <2>2. lock[s] = Free /\ worker[s] # "gone"
    BY <1>1 DEF Send, MaySend, Of
  <2>3. pipe[s] = <<>>
    BY <2>1, <2>2 DEF ReplInv, PipesClean
  <2>4. ~WorkerDies(s)
    BY <2>3 DEF WorkerDies
  <2>5. \A c \in Caller : Send(c) => c = d
    BY <1>0, <1>1, GoesMoves DEF Send, Place, At
  <2> QED
    BY <2>1, <2>3, <2>4, <2>5, PipeMoves
<1>2. CASE call'[d] = call[d]
  <2>1. s \in Session /\ lock[s] = d /\ d # Free /\ pipe[s] \in {<<>>, <<d>>}
    BY <1>2, ReplAssumption DEF ReplInv, Named, Locked, AnswersAreOwn, At, Of
  <2> QED
    BY <1>2, <2>1, PipeMoves
<1> QED
  BY <1>1, <1>2, CallMoves

\* Nothing is left in a pipe that the next cell would read.
LEMMA NextPipes == ReplInv /\ [Next]_vars => PipesClean'
<1> SUFFICES ASSUME ReplInv, [Next]_vars, NEW s \in Session
             PROVE  /\ worker'[s] = "none" => pipe'[s] = <<>>
                    /\ lock'[s] = Free /\ worker'[s] # "gone" => pipe'[s] = <<>>
                    /\ worker'[s] = "live" /\ pipe'[s] # <<>> =>
                         \E c \in Caller : call'[c].at = "reading" /\ call'[c].s = s
  BY DEF PipesClean, At, Of
<1>0. TypeOK
  BY DEF ReplInv
<1>1. /\ worker[s] = "none" => pipe[s] = <<>>
      /\ lock[s] = Free /\ worker[s] # "gone" => pipe[s] = <<>>
      /\ worker[s] = "live" /\ pipe[s] # <<>> =>
           \E c \in Caller : call[c].at = "reading" /\ call[c].s = s
  BY DEF ReplInv, PipesClean, At, Of
<1>2. CASE pipe'[s] # pipe[s]
  <2>1. CASE pipe'[s] = <<>>
    BY <2>1
  <2>2. CASE pipe'[s] # <<>>
    <3>1. PICK c \in Caller : Of(c) = s /\ Send(c) /\ lock[s] = Free /\ worker[s] = "live"
      BY <1>2, <2>2, PipeMoves
    <3>2. lock'[s] = c /\ c # Free /\ worker'[s] = "live"
      BY <1>0, <3>1, ReplAssumption DEF Send, TypeOK
    <3>3. call'[c].at = "reading" /\ call'[c].s = s
      BY <1>0, <3>1, GoesMoves DEF Send, Place, Of
    <3> QED
      BY <3>2, <3>3
  <2> QED
    BY <2>1, <2>2
<1>3. CASE pipe'[s] = pipe[s]
  <2>1. worker'[s] = "none" => pipe'[s] = <<>>
    BY <1>1, <1>3, WorkersAge
  <2>2. lock'[s] = Free /\ worker'[s] # "gone" => pipe'[s] = <<>>
    <3>1. worker'[s] # "gone" => worker[s] # "gone"
      BY WorkersAge
    <3>2. CASE lock'[s] = lock[s]
      BY <1>1, <1>3, <3>1, <3>2
    <3>3. ASSUME lock'[s] # lock[s], lock'[s] = Free, worker'[s] # "gone" PROVE FALSE
      <4>1. PICK c \in Caller : Of(c) = s /\ lock[s] = c /\ (Read(c) \/ End(c))
        BY <3>3, LockMoves, ReplAssumption
      <4>2. CASE Read(c)
        <5>1. pipe[s] # <<>> /\ pipe'[s] = Tail(pipe[s]) /\ pipe[s] \in {<<>>, <<c>>}
          BY <1>0, <4>1, <4>2 DEF Read, ReplInv, AnswersAreOwn, TypeOK
        <5>2. Tail(<<c>>) = <<>>
          OBVIOUS
        <5> QED
          BY <1>3, <5>1, <5>2
      <4>3. CASE End(c)
        BY <3>1, <3>3, <4>1, <4>3 DEF End
      <4> QED
        BY <4>1, <4>2, <4>3
    <3> QED
      BY <3>2, <3>3
  <2>3. ASSUME worker'[s] = "live", pipe'[s] # <<>>
        PROVE  \E c \in Caller : call'[c].at = "reading" /\ call'[c].s = s
    <3>1. worker[s] = "live"
      BY <1>0, <1>1, <1>3, <2>3, WorkersAge DEF TypeOK, Worker
    <3>2. PICK c \in Caller : call[c].at = "reading" /\ call[c].s = s
      BY <1>1, <1>3, <2>3, <3>1
    <3>3. CASE call'[c] = call[c]
      BY <3>2, <3>3
    <3>4. CASE call'[c] # call[c]
      <4>1. CASE TimeOut(c)
        <5>1. worker'[s] = "stopping"
          BY <1>0, <3>1, <3>2, <4>1, SignalMoves DEF TimeOut, Of
        <5> QED
          BY <2>3, <5>1
      <4>2. CASE Read(c)
        <5>1. pipe[s] # <<>> /\ pipe'[s] = Tail(pipe[s]) /\ pipe[s] \in {<<>>, <<c>>}
          BY <1>0, <3>2, <4>2 DEF Read, ReplInv, AnswersAreOwn, TypeOK, Of
        <5>2. Tail(<<c>>) = <<>>
          OBVIOUS
        <5> QED
          BY <2>3, <5>1, <5>2
      <4>3. TimeOut(c) \/ Read(c)
        BY <1>0, <3>2, <3>4, ReaderMoves
      <4> QED
        BY <4>1, <4>2, <4>3
    <3> QED
      BY <3>3, <3>4
  <2> QED
    BY <2>1, <2>2, <2>3
<1> QED
  BY <1>2, <1>3

\* A session whose worker has ended is looked after until it leaves the table.
LEMMA NextAttended == ReplInv /\ [Next]_vars => Attended'
<1> SUFFICES ASSUME ReplInv, [Next]_vars, NEW s \in table'
             PROVE  /\ worker'[s] # "none"
                    /\ worker'[s] = "stopping" =>
                         \E c \in Caller : call'[c].at = "ending" /\ call'[c].s = s
                    /\ worker'[s] = "gone" =>
                         \E c \in Caller :
                           /\ call'[c].s = s
                           /\ \/ call'[c].at = "reading" /\ pipe'[s] = <<>>
                              \/ call'[c].at = "ending"
                              \/ call'[c].at = "waiting" /\ call'[c].op = "interrupt"
  BY DEF Attended, At, Of
<1>0. TypeOK
  BY DEF ReplInv
<1>1. s \in Session
  BY NextType DEF TypeOK
<1>2. CASE s \notin table
  BY <1>0, <1>1, <1>2, TableMoves
<1>3. CASE s \in table
  <2>0. ~\E c \in Caller : Interrupt(c) /\ call[c].s = s
    BY <1>0 DEF Interrupt, Of
  <2>1. /\ worker[s] # "none"
        /\ worker[s] = "stopping" => \E c \in Caller : call[c].at = "ending" /\ call[c].s = s
        /\ worker[s] = "gone" =>
             \E c \in Caller :
               /\ call[c].s = s
               /\ \/ call[c].at = "reading" /\ pipe[s] = <<>>
                  \/ call[c].at = "ending"
                  \/ call[c].at = "waiting" /\ call[c].op = "interrupt"
    BY <1>3 DEF ReplInv, Attended, At, Of
  <2>2. worker'[s] # "none"
    BY <1>1, <2>1, WorkersAge
  <2>3. CASE worker'[s] = worker[s] /\ worker[s] = "stopping"
    <3>1. PICK c \in Caller : call[c].at = "ending" /\ call[c].s = s
      BY <2>1, <2>3
    <3>2. ~End(c)
      BY <2>3, <3>1 DEF End, Of
    <3> QED
      BY <2>3, <3>1, <3>2, EnderMoves
  <2>4. CASE worker'[s] = worker[s] /\ worker[s] = "gone"
    <3>1. PICK c \in Caller :
            /\ call[c].s = s
            /\ \/ call[c].at = "reading" /\ pipe[s] = <<>>
               \/ call[c].at = "ending"
               \/ call[c].at = "waiting" /\ call[c].op = "interrupt"
      BY <2>1, <2>4
    <3>2. CASE call[c].at = "reading" /\ pipe[s] = <<>>
      <4>1. lock[s] = c /\ c # Free
        BY <3>1, <3>2, ReplAssumption DEF ReplInv, Locked, At, Of
      <4>2. pipe'[s] = <<>>
        BY <1>1, <3>2, <4>1, PipeMoves
      <4>3. ~Read(c)
        BY <3>1, <3>2 DEF Read, Of
      <4>4. call'[c].s = s /\ call'[c].at \in {"reading", "ending"}
        <5>1. CASE call'[c] = call[c]
          BY <3>1, <3>2, <5>1
        <5>2. CASE TimeOut(c)
          BY <1>0, <3>1, <5>2, GoesMoves DEF TimeOut, Place
        <5> QED
          BY <3>2, <4>3, <5>1, <5>2, ReaderMoves
      <4> QED
        BY <2>4, <4>2, <4>4
    <3>3. CASE call[c].at = "ending"
      BY <2>4, <3>1, <3>3, EnderMoves
    <3>4. CASE call[c].at = "waiting" /\ call[c].op = "interrupt"
      BY <2>0, <2>4, <3>1, <3>4, WaiterMoves
    <3> QED
      BY <3>1, <3>2, <3>3, <3>4
  <2>5. CASE worker'[s] # worker[s]
    <3>1. CASE WorkerEnds(s)
      <4>1. worker[s] = "stopping" /\ worker'[s] = "gone" /\ call' = call
        BY <1>0, <1>1, <3>1 DEF WorkerEnds, TypeOK
      <4> QED
        BY <2>1, <4>1
    <3>2. CASE WorkerDies(s)
      <4>1. worker[s] = "live" /\ pipe[s] # <<>> /\ worker'[s] = "gone" /\ call' = call
            /\ pipe'[s] = <<>>
        BY <1>0, <1>1, <3>2 DEF WorkerDies, TypeOK
      <4>2. PICK c \in Caller : call[c].at = "reading" /\ call[c].s = s
        BY <1>1, <4>1 DEF ReplInv, PipesClean, At, Of
      <4> QED
        BY <4>1, <4>2
    <3>3. ASSUME NEW c \in Caller, TimeOut(c), Of(c) = s, worker'[s] = "stopping"
          PROVE  call'[c].at = "ending" /\ call'[c].s = s
      BY <1>0, <3>3, GoesMoves DEF TimeOut, Place, Of
    <3> QED
      BY <1>1, <1>3, <2>2, <2>5, <3>1, <3>2, <3>3, WorkerMoves
  <2> QED
    BY <1>0, <1>1, <2>2, <2>3, <2>4, <2>5 DEF TypeOK, Worker
<1> QED
  BY <1>2, <1>3

\* The limit of sessions, and no live worker outside the table.
LEMMA NextBounded == ReplInv /\ [Next]_vars => LiveWorkersAreBounded'
<1> SUFFICES ASSUME ReplInv, [Next]_vars PROVE LiveWorkersAreBounded'
  OBVIOUS
<1>0. TypeOK /\ LiveWorkersAreBounded
  BY DEF ReplInv
<1>1. IsFiniteSet(table) /\ Cardinality(table) \in Nat
  BY <1>0, ReplAssumption, FS_Subset, FS_CardinalityType DEF TypeOK
<1>2. Cardinality(table') <= MaxSessions
  <2>1. CASE table' \subseteq table
    BY <1>0, <1>1, <2>1, FS_Subset, FS_CardinalityType, ReplAssumption
    DEF LiveWorkersAreBounded
  <2>2. ASSUME NEW c \in Caller, NEW s \in Session, Started(c), table' = table \cup {s}
        PROVE  Cardinality(table') <= MaxSessions
    <3>1. Cardinality(table) < MaxSessions
      BY <2>2 DEF Started, ReplInv, Managed
    <3>2. Cardinality(table') \in {Cardinality(table), Cardinality(table) + 1}
      BY <1>1, <2>2, FS_AddElement
    <3> QED
      BY <1>1, <3>1, <3>2, ReplAssumption
  <2>3. CASE \E c \in Caller : Started(c)
    BY <2>2, <2>3 DEF Started
  <2> QED
    BY <2>1, <2>3
    DEF Next, vars, Proceeds, Manages, Executes, WorkerEnds, WorkerDies, FallsQuiet, Ask,
        Enter, Expire, Expired, RefuseCreate, StartWorker, StartFails, Inform, LookUp,
        Interrupt, Stopped, Deny, Send, SendFails, Read, TimeOut, End
<1>3. ASSUME NEW s \in Session, worker'[s] = "live" PROVE s \in table'
  BY <1>0, <1>3, LiveMoves DEF LiveWorkersAreBounded
<1> QED
  BY <1>2, <1>3 DEF LiveWorkersAreBounded

\* Every step preserves the invariant.
LEMMA NextInv == ReplInv /\ [Next]_vars => ReplInv'
  BY NextType, NextNamed, NextManaged, NextLocked, NextAnswers, NextPipes, NextAttended,
     NextBounded DEF ReplInv

-----------------------------------------------------------------------------
(* Theorems                                                                *)

\* The invariant holds in every reachable state (ReplSessionManager).
THEOREM ReplInvariant == Spec => []ReplInv
  BY InitInv, NextInv, PTL DEF Spec

\* Table, locks, workers, pipes and requests keep their shape, and no worker
\* answers more cells than the limit.
THEOREM TypeCorrect == Spec => []TypeOK
<1>1. ReplInv => TypeOK
  BY DEF ReplInv
<1> QED
  BY <1>1, ReplInvariant, PTL

\* No more sessions than the limit, and no live worker that is in none of them
\* (create, _expire_locked, interrupt).
THEOREM LiveWorkersBounded == Spec => []LiveWorkersAreBounded
<1>1. ReplInv => LiveWorkersAreBounded
  BY DEF ReplInv
<1> QED
  BY <1>1, ReplInvariant, PTL

\* A cell is answered with its own answer, whatever timed out before it (execute).
THEOREM OwnAnswers == Spec => []AnswersAreOwn
<1>1. ReplInv => AnswersAreOwn
  BY DEF ReplInv
<1> QED
  BY <1>1, ReplInvariant, PTL

\* A session whose worker has ended is on its way out of the table (execute).
THEOREM EndedSessionsAreAttended == Spec => []EndedSessionsLeave
<1>1. ReplInv => EndedSessionsLeave
  BY DEF ReplInv, Attended, EndedSessionsLeave
<1> QED
  BY <1>1, ReplInvariant, PTL

\* The table and the workers agree (create, execute, interrupt).
THEOREM SessionsStayMatched == Spec => []SessionsMatchWorkers
BY LiveWorkersBounded, EndedSessionsAreAttended, PTL DEF SessionsMatchWorkers
=============================================================================
