---------------------------- MODULE ReplSessions -----------------------------
(***************************************************************************)
(* The REPL's sessions: a table of worker processes under a manager's      *)
(* lock, and a lock per session under which one cell at a time is sent to  *)
(* the worker and its answer read.                                         *)
(*                                                                         *)
(* The manager's lock is held while expired sessions are stopped and while *)
(* a worker is started; an interrupt holds it only to take the session out *)
(* of the table, and no call asks for it with a session's lock in hand.  A *)
(* cell that waits for the session's lock has read the table before.       *)
(*                                                                         *)
(* A session stands for its id, its process and its lock, each made once.  *)
(* What a cell computes is left out: a pipe holds the calls whose cells    *)
(* were written and whose answers were not read.                           *)
(***************************************************************************)
EXTENDS Integers, Sequences, FiniteSets

CONSTANTS
  Session, Caller,
  MaxSessions, MaxCells,
  Free,        \* nobody holds the lock
  NoSession    \* of a call that names none

ASSUME ReplAssumption ==
  /\ IsFiniteSet(Session)
  /\ MaxSessions \in Nat \ {0} /\ MaxCells \in Nat \ {0}
  /\ Free \notin Caller /\ NoSession \notin Session

VARIABLES
  table,     \* the sessions of the table
  manager,   \* who holds the manager's lock
  doomed,    \* sessions its holder found expired and has still to stop
  lock,      \* [Session -> who holds the session's lock]
  worker,    \* [Session -> the state of its process]
  pipe,      \* [Session -> calls whose answers are to be read, oldest first]
  cells,     \* [Session -> cells answered]
  quiet,     \* sessions without activity for the session's time
  call       \* [Caller -> the request under way]

vars == <<table, manager, doomed, lock, worker, pipe, cells, quiet, call>>

Worker == {"none", "live", "stopping", "gone"}
Op == {"create", "info", "execute", "interrupt"}
Place == {"waiting", "managing", "starting", "queued", "reading", "ending", "stopping"}

Request == [at : Place \cup {"idle"}, op : Op, s : Session \cup {NoSession}]

Idle == [at |-> "idle", op |-> "info", s |-> NoSession]

Init ==
  /\ table = {} /\ manager = Free /\ doomed = {}
  /\ lock = [s \in Session |-> Free]
  /\ worker = [s \in Session |-> "none"]
  /\ pipe = [s \in Session |-> <<>>]
  /\ cells = [s \in Session |-> 0]
  /\ quiet = {}
  /\ call = [c \in Caller |-> Idle]

Goes(c, place) == call' = [call EXCEPT ![c].at = place]
Ends(c) == call' = [call EXCEPT ![c] = Idle]

\* The call of c at a place, and the session it is about.
At(c, place) == call[c].at = place
Of(c) == call[c].s

\* A worker is told to stop.
Signal(s) == worker' = [worker EXCEPT ![s] = IF @ = "live" THEN "stopping" ELSE @]

\* A worker that was told to stop ends; it may have given its answer before.
WorkerEnds(s) ==
  /\ worker[s] = "stopping"
  /\ worker' = [worker EXCEPT ![s] = "gone"]
  /\ UNCHANGED <<table, manager, doomed, lock, pipe, cells, quiet, call>>

\* A worker ends in the middle of a cell, at its limit of CPU time.
WorkerDies(s) ==
  /\ worker[s] = "live" /\ pipe[s] # <<>>
  /\ worker' = [worker EXCEPT ![s] = "gone"]
  /\ pipe' = [pipe EXCEPT ![s] = <<>>]
  /\ UNCHANGED <<table, manager, doomed, lock, cells, quiet, call>>

\* A session's time is far longer than a cell's, and each cell begins and ends
\* with activity.
FallsQuiet(s) ==
  /\ s \in table
  /\ \A c \in Caller : At(c, "queued") \/ At(c, "reading") \/ At(c, "ending") => Of(c) # s
  /\ quiet' = quiet \cup {s}
  /\ UNCHANGED <<table, manager, doomed, lock, worker, pipe, cells, call>>

-----------------------------------------------------------------------------
(* The manager's lock                                                      *)

\* A request comes in.
Ask(c, op, s) ==
  /\ call[c] = Idle
  /\ IF op = "create" THEN s = NoSession ELSE s \in Session /\ worker[s] # "none"
  /\ call' = [call EXCEPT ![c] = [at |-> "waiting", op |-> op, s |-> s]]
  /\ UNCHANGED <<table, manager, doomed, lock, worker, pipe, cells, quiet>>

\* With the lock a request that needs the table looks for expired sessions.
Enter(c) ==
  /\ At(c, "waiting") /\ call[c].op # "interrupt"
  /\ manager = Free
  /\ manager' = c
  /\ doomed' = quiet
  /\ Goes(c, "managing")
  /\ UNCHANGED <<table, lock, worker, pipe, cells, quiet>>

\* They are taken out of the table and stopped one after the other.
Expire(c) ==
  /\ At(c, "managing") /\ doomed \subseteq table
  /\ \E s \in doomed :
       /\ table' = table \ {s}
       /\ quiet' = quiet \ {s}
       /\ Signal(s)
  /\ UNCHANGED <<manager, doomed, lock, pipe, cells, call>>

Expired(c) ==
  /\ At(c, "managing")
  /\ \E s \in doomed \ table : worker[s] = "gone" /\ doomed' = doomed \ {s}
  /\ UNCHANGED <<table, manager, lock, worker, pipe, cells, quiet, call>>

Managing(c, op) == At(c, "managing") /\ doomed = {} /\ call[c].op = op

Full == Cardinality(table) >= MaxSessions

\* Mutant: a refusal at the limit keeps the lock.
RefuseHolding(c) ==
  /\ Managing(c, "create") /\ Full
  /\ Ends(c)
  /\ UNCHANGED <<table, manager, doomed, lock, worker, pipe, cells, quiet>>

RefuseCreate(c) ==
  /\ Managing(c, "create") /\ Full
  /\ manager' = Free
  /\ Ends(c)
  /\ UNCHANGED <<table, doomed, lock, worker, pipe, cells, quiet>>

\* A worker is started with the lock in hand.
StartWorker(c) ==
  /\ Managing(c, "create") /\ ~Full
  /\ Goes(c, "starting")
  /\ UNCHANGED <<table, manager, doomed, lock, worker, pipe, cells, quiet>>

Started(c) ==
  /\ At(c, "starting")
  /\ \E s \in Session :
       /\ worker[s] = "none"
       /\ worker' = [worker EXCEPT ![s] = "live"]
       /\ table' = table \cup {s}
  /\ manager' = Free
  /\ Ends(c)
  /\ UNCHANGED <<doomed, lock, pipe, cells, quiet>>

StartFails(c) ==
  /\ At(c, "starting")
  /\ manager' = Free
  /\ Ends(c)
  /\ UNCHANGED <<table, doomed, lock, worker, pipe, cells, quiet>>

Inform(c) ==
  /\ Managing(c, "info")
  /\ manager' = Free
  /\ Ends(c)
  /\ UNCHANGED <<table, doomed, lock, worker, pipe, cells, quiet>>

\* A cell's session is looked up: its activity is noted, and the call queues for
\* the session's lock.
LookUp(c) ==
  /\ Managing(c, "execute")
  /\ manager' = Free
  /\ IF Of(c) \in table THEN Goes(c, "queued") /\ quiet' = quiet \ {Of(c)}
                        ELSE Ends(c) /\ UNCHANGED quiet
  /\ UNCHANGED <<table, doomed, lock, worker, pipe, cells>>

\* An interrupt takes the session out of the table, and then stops the worker.
Interrupt(c) ==
  /\ At(c, "waiting") /\ call[c].op = "interrupt"
  /\ manager = Free
  /\ IF Of(c) \in table THEN Signal(Of(c)) /\ Goes(c, "stopping")
                        ELSE Ends(c) /\ UNCHANGED worker
  /\ table' = table \ {Of(c)}
  /\ quiet' = quiet \ {Of(c)}
  /\ UNCHANGED <<manager, doomed, lock, pipe, cells>>

Stopped(c) ==
  /\ At(c, "stopping") /\ worker[Of(c)] = "gone"
  /\ Ends(c)
  /\ UNCHANGED <<table, manager, doomed, lock, worker, pipe, cells, quiet>>

-----------------------------------------------------------------------------
(* The session's lock                                                      *)

\* The call has the lock and is refused: the session has had its cells, or the
\* policy denies the code.
Deny(c) ==
  /\ At(c, "queued") /\ lock[Of(c)] = Free
  /\ quiet' = quiet \ {Of(c)}
  /\ Ends(c)
  /\ UNCHANGED <<table, manager, doomed, lock, worker, pipe, cells>>

MaySend(s) == cells[s] < MaxCells /\ worker[s] \in {"live", "stopping"}

\* The cell is sent.  A worker that was told to stop does not come to it.
Send(c) ==
  LET s == Of(c) IN
  /\ At(c, "queued") /\ lock[s] = Free
  /\ MaySend(s)
  /\ lock' = [lock EXCEPT ![s] = c]
  /\ pipe' = IF worker[s] = "live" THEN [pipe EXCEPT ![s] = Append(@, c)] ELSE pipe
  /\ Goes(c, "reading")
  /\ UNCHANGED <<table, manager, doomed, worker, cells, quiet>>

\* The worker's end of the pipe is closed, or is when the cell is flushed: the call
\* fails, and leaves the session as it is.
SendFails(c) ==
  /\ At(c, "queued") /\ lock[Of(c)] = Free
  /\ cells[Of(c)] < MaxCells /\ worker[Of(c)] \in {"stopping", "gone"}
  /\ Ends(c)
  /\ UNCHANGED <<table, manager, doomed, lock, worker, pipe, cells, quiet>>

\* The oldest answer is read, which the worker may have given before it ended.
Read(c) ==
  LET s == Of(c) IN
  /\ At(c, "reading") /\ pipe[s] # <<>>
  /\ pipe' = [pipe EXCEPT ![s] = Tail(@)]
  /\ cells' = [cells EXCEPT ![s] = @ + 1]
  /\ lock' = [lock EXCEPT ![s] = Free]
  /\ quiet' = quiet \ {s}
  /\ Ends(c)
  /\ UNCHANGED <<table, manager, doomed, worker>>

\* Mutant: a cell that takes too long gives its lock up and leaves its worker be.
TimeOutOnly(c) ==
  /\ At(c, "reading")
  /\ lock' = [lock EXCEPT ![Of(c)] = Free]
  /\ Ends(c)
  /\ UNCHANGED <<table, manager, doomed, worker, pipe, cells, quiet>>

\* No answer in time, or none any more: the worker is stopped under the lock.
TimeOut(c) ==
  /\ At(c, "reading")
  /\ Signal(Of(c))
  /\ Goes(c, "ending")
  /\ UNCHANGED <<table, manager, doomed, lock, pipe, cells, quiet>>

\* Mutant: a session whose worker was stopped is left in the table.
EndOnly(c) ==
  /\ At(c, "ending") /\ worker[Of(c)] = "gone"
  /\ lock' = [lock EXCEPT ![Of(c)] = Free]
  /\ quiet' = quiet \ {Of(c)}
  /\ Ends(c)
  /\ UNCHANGED <<table, manager, doomed, worker, pipe, cells>>

\* With the worker gone the lock is given up, and the session interrupted.
End(c) ==
  /\ At(c, "ending") /\ worker[Of(c)] = "gone"
  /\ lock' = [lock EXCEPT ![Of(c)] = Free]
  /\ quiet' = quiet \ {Of(c)}
  /\ call' = [call EXCEPT ![c] = [at |-> "waiting", op |-> "interrupt", s |-> Of(c)]]
  /\ UNCHANGED <<table, manager, doomed, worker, pipe, cells>>

Proceeds(c) ==
  \/ Expire(c) \/ Expired(c) \/ RefuseCreate(c) \/ StartWorker(c)
  \/ Started(c) \/ StartFails(c) \/ Inform(c) \/ LookUp(c) \/ Stopped(c)
  \/ Read(c) \/ TimeOut(c) \/ End(c)

Manages(c) == Enter(c) \/ Interrupt(c)
Executes(c) == Deny(c) \/ Send(c) \/ SendFails(c)

Next ==
  \/ \E s \in Session : WorkerEnds(s) \/ WorkerDies(s) \/ FallsQuiet(s)
  \/ \E c \in Caller, op \in Op, s \in Session \cup {NoSession} : Ask(c, op, s)
  \/ \E c \in Caller : Proceeds(c) \/ Manages(c) \/ Executes(c)

Spec == Init /\ [][Next]_vars

\* Coroutines that are ready are scheduled, asyncio's locks serve in order, and a
\* worker that is told to stop is killed at the latest a second later.
FairSpec ==
  /\ Spec
  /\ \A c \in Caller : /\ WF_vars(Proceeds(c))
                       /\ SF_vars(Manages(c)) /\ SF_vars(Executes(c))
  /\ \A s \in Session : WF_vars(WorkerEnds(s))

-----------------------------------------------------------------------------
(* Properties                                                              *)

\* The shape of the table, the locks, the workers and the requests.
TypeOK ==
  /\ table \subseteq Session /\ quiet \subseteq table
  /\ manager \in Caller \cup {Free} /\ doomed \subseteq Session
  /\ lock \in [Session -> Caller \cup {Free}]
  /\ worker \in [Session -> Worker]
  /\ pipe \in [Session -> Seq(Caller)]
  /\ cells \in [Session -> 0 .. MaxCells]
  /\ call \in [Caller -> Request]

\* The limit of sessions holds while workers are started and stopped with the
\* manager's lock in hand, and every live worker belongs to a session of the table
\* (create, _expire_locked, interrupt).
LiveWorkersAreBounded ==
  /\ Cardinality(table) <= MaxSessions
  /\ \A s \in Session : worker[s] = "live" => s \in table

\* A call that reads from a worker finds no answer but its own, whatever timed
\* out or was interrupted before it (ReplRunner.execute).
AnswersAreOwn ==
  \A c \in Caller : At(c, "reading") => pipe[Of(c)] \in {<<>>, <<c>>}

\* A session whose worker has ended counts against the limit no longer than the
\* call that noticed takes to interrupt it (execute).
EndedSessionsLeave ==
  \A s \in table : worker[s] \in {"stopping", "gone"} =>
    \E c \in Caller : Of(c) = s /\ (\/ At(c, "reading") \/ At(c, "ending")
                                    \/ At(c, "waiting") /\ call[c].op = "interrupt")

\* The table and the workers agree (create, execute, interrupt and
\* _expire_locked): LiveWorkersAreBounded and EndedSessionsLeave.
SessionsMatchWorkers == LiveWorkersAreBounded /\ EndedSessionsLeave

\* No request hangs: the manager's lock and the sessions' locks are never waited
\* for in a circle, and each is given up on every path.
RequestsEnd == \A c \in Caller : call[c] # Idle ~> call[c] = Idle
=============================================================================
