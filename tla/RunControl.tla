----------------------------- MODULE RunControl -----------------------------
(***************************************************************************)
(* The server around the runner: run requests over HTTP and over the       *)
(* WebSocket, the commands that pause, resume and cancel a run, and the    *)
(* rows of the run store.                                                  *)
(*                                                                         *)
(* A request makes one run and stands for its id.  It is a coroutine that  *)
(* gives way to the others while it waits for the store or for its run.    *)
(* GraphRunner._active is one flag for the process, app.state.active_runner*)
(* the one runner that commands reach, app.state.active_task the task of   *)
(* the last run started over the WebSocket.                                *)
(*                                                                         *)
(* Of a run only its suspension points are kept (GraphRunner has the rest):*)
(* a run that is not paused may end at any time.                           *)
(***************************************************************************)
EXTENDS Integers, Sequences, FiniteSets

CONSTANTS
  Http,       \* run requests over HTTP
  Ws,         \* run requests over the WebSocket
  Nobody,     \* no runner, no task
  Endings,    \* bound: how runs that began may end
  MaxTouched  \* bound: runs whose rows other calls delete or make

Terminal == {"succeeded", "failed", "cancelled", "limit_exceeded"}

ASSUME RequestAssumption ==
  /\ Http \cap Ws = {}
  /\ Nobody \notin Http \cup Ws
  /\ Endings \subseteq Terminal
  /\ MaxTouched \in Nat

Request == Http \cup Ws

VARIABLES
  pc,             \* [Request -> where its coroutine is]
  busy,           \* GraphRunner._active
  activeRunner,   \* app.state.active_runner
  activeTask,     \* app.state.active_task
  paused,         \* [Request -> its runner's _paused]
  cancelled,      \* [Request -> its runner's _cancelled]
  noise,          \* [Request -> its runner holds an event and has not begun]
  result,         \* [Request -> status of the run's result, or "none"]
  pending,        \* [Request -> statuses still to be written]
  store,          \* [Request -> status column of its row, or "absent"]
  touched         \* history: runs whose row was deleted or made by another call

flags == <<paused, cancelled, noise>>
vars == <<pc, busy, activeRunner, activeTask, flags, result, pending, store, touched>>

Places == {"new", "opening", "opened", "head", "blocked", "woken", "replaying",
           "answered", "dead"}
Executing(r) == pc[r] \in {"head", "blocked", "woken"}
Finished(r) == pc[r] \in {"answered", "dead"}

RunStatus == {"created", "validating", "running"} \cup Terminal

\* _RUN_TRANSITIONS
Follows(status) ==
  CASE status = "created"    -> {"created", "validating", "failed"}
    [] status = "validating" -> {"validating", "running", "failed"}
    [] status = "running"    -> {"running"} \cup Terminal
    [] OTHER                 -> {status}

Init ==
  /\ pc = [r \in Request |-> "new"]
  /\ busy = FALSE
  /\ activeRunner = Nobody
  /\ activeTask = Nobody
  /\ paused = [r \in Request |-> FALSE]
  /\ cancelled = [r \in Request |-> FALSE]
  /\ noise = [r \in Request |-> FALSE]
  /\ result = [r \in Request |-> "none"]
  /\ pending = [r \in Request |-> <<>>]
  /\ store = [r \in Request |-> "absent"]
  /\ touched = {}

Goto(r, place) == pc' = [pc EXCEPT ![r] = place]

\* The runner of a request that is over is dropped, and its flags with it.
DropRunner(r) ==
  /\ paused' = [paused EXCEPT ![r] = FALSE]
  /\ cancelled' = [cancelled EXCEPT ![r] = FALSE]

-----------------------------------------------------------------------------
(* A request up to its run                                                 *)

\* POST /api/run sets the active runner before it waits for the store.
HttpAccept(h) ==
  /\ pc[h] = "new"
  /\ Goto(h, "opening")
  /\ activeRunner' = h
  /\ UNCHANGED <<busy, activeTask, flags, result, pending, store, touched>>

\* run.start, when the task before it is done.
WsStart(w) ==
  /\ pc[w] = "new"
  /\ activeTask # Nobody => Finished(activeTask)
  /\ Goto(w, "opening")
  /\ activeTask' = w
  /\ UNCHANGED <<busy, activeRunner, flags, result, pending, store, touched>>

\* initialize and create_run; a row of that id makes the INSERT fail.
OpenStore(r) ==
  /\ pc[r] = "opening"
  /\ IF store[r] = "absent"
       THEN /\ Goto(r, "opened")
            /\ store' = [store EXCEPT ![r] = "created"]
            /\ UNCHANGED <<paused, cancelled>>
       ELSE /\ Goto(r, "dead")
            /\ DropRunner(r)
            /\ UNCHANGED store
  /\ UNCHANGED <<busy, activeRunner, activeTask, noise, result, pending, touched>>

\* A call on the store raises: the request ends with an error, before the run or
\* in the middle of the writes after it.  An HTTP request ignores what append
\* raises.
StoreFails(r) ==
  /\ \/ pc[r] = "opening"
     \/ pc[r] = "replaying" /\ (pending[r] # <<>> \/ r \in Ws)
  /\ Goto(r, "dead")
  /\ DropRunner(r)
  /\ pending' = [pending EXCEPT ![r] = <<>>]
  /\ UNCHANGED <<busy, activeRunner, activeTask, noise, result, store, touched>>

-----------------------------------------------------------------------------
(* The run, and the finally block that follows it without suspending       *)

\* Mutant: only a WebSocket run gives the active runner up.
ReleasedByWs(r, runner) ==
  IF r \in Ws /\ runner = r THEN Nobody ELSE runner

\* An HTTP request gives the active runner up whoever's it is; a WebSocket run
\* only its own.
Released(r, runner) ==
  IF r \in Http \/ runner = r THEN Nobody ELSE runner

\* Mutant: run.cancelled is not mapped to a status.
ReplayNoCancel(status) ==
  IF status = "cancelled" THEN <<"validating", "running">>
  ELSE <<"validating", "running", status>>

\* The statuses that the events collected during a run stand for.
Replay(status) == <<"validating", "running", status>>

\* Mutant: the rejected run lowers the flag as if it had been the active one.
RejectLowering(r) ==
  /\ pc[r] = "opened" /\ busy
  /\ busy' = FALSE
  /\ Goto(r, "replaying")
  /\ activeRunner' = Released(r, IF r \in Ws THEN r ELSE activeRunner)
  /\ result' = [result EXCEPT ![r] = "failed"]
  /\ pending' = [pending EXCEPT ![r] = IF noise[r] THEN <<>> ELSE <<"failed">>]
  /\ DropRunner(r)
  /\ UNCHANGED <<activeTask, noise, store, touched>>

\* Mutant: a run that finds another one active waits for it to end.
RejectNever(r) ==
  /\ pc[r] = "opened" /\ busy
  /\ UNCHANGED vars

\* run() finds another run active.  No event of the run itself is collected:
\* its result is stored only if no command has left an event either.
Reject(r) ==
  /\ pc[r] = "opened" /\ busy
  /\ Goto(r, "replaying")
  /\ activeRunner' = Released(r, IF r \in Ws THEN r ELSE activeRunner)
  /\ result' = [result EXCEPT ![r] = "failed"]
  /\ pending' = [pending EXCEPT ![r] = IF noise[r] THEN <<>> ELSE <<"failed">>]
  /\ DropRunner(r)
  /\ UNCHANGED <<busy, activeTask, noise, store, touched>>

\* run() begins; a WebSocket run becomes the active runner just before.
Begin(r) ==
  /\ pc[r] = "opened" /\ ~busy
  /\ Goto(r, "head")
  /\ busy' = TRUE
  /\ activeRunner' = IF r \in Ws THEN r ELSE activeRunner
  /\ noise' = [noise EXCEPT ![r] = FALSE]
  /\ UNCHANGED <<activeTask, paused, cancelled, result, pending, store, touched>>

\* The loop finds its resume event cleared.
Wait(r) ==
  /\ pc[r] = "head" /\ paused[r]
  /\ Goto(r, "blocked")
  /\ UNCHANGED <<busy, activeRunner, activeTask, flags, result, pending, store,
                 touched>>

\* A woken run does one node at least, unless it ends.
Proceed(r) ==
  /\ pc[r] = "woken" /\ ~cancelled[r]
  /\ Goto(r, "head")
  /\ UNCHANGED <<busy, activeRunner, activeTask, flags, result, pending, store,
                 touched>>

\* What a run can end as where it stands: at the output node even if it is
\* paused or cancelled, elsewhere by the checks in their order.
Outcomes(r) ==
  (IF pc[r] = "head" THEN {"succeeded", "failed"} ELSE {})
    \cup (IF pc[r] = "head" /\ paused[r] THEN {}
          ELSE IF cancelled[r] THEN {"cancelled"}
          ELSE {"failed", "limit_exceeded"})

End(r, status) ==
  /\ pc[r] \in {"head", "woken"}
  /\ status \in Outcomes(r) \cap Endings
  /\ Goto(r, "replaying")
  /\ busy' = FALSE
  /\ activeRunner' = Released(r, activeRunner)
  /\ result' = [result EXCEPT ![r] = status]
  /\ pending' = [pending EXCEPT ![r] = Replay(status)]
  /\ DropRunner(r)
  /\ UNCHANGED <<activeTask, noise, store, touched>>

-----------------------------------------------------------------------------
(* What is stored after the run                                            *)

\* update_run_status for the next collected status.  Without a row, or from a
\* status it cannot follow, it raises and nothing more is stored.
UpdateStatus(r) ==
  /\ pc[r] = "replaying" /\ pending[r] # <<>>
  /\ LET status == Head(pending[r]) IN
       IF store[r] # "absent" /\ status \in Follows(store[r])
         THEN /\ store' = [store EXCEPT ![r] = status]
              /\ pending' = [pending EXCEPT ![r] = Tail(@)]
              /\ UNCHANGED pc
         ELSE /\ Goto(r, "dead")
              /\ pending' = [pending EXCEPT ![r] = <<>>]
              /\ UNCHANGED store
  /\ UNCHANGED <<busy, activeRunner, activeTask, flags, result, touched>>

\* append_event for every collected event: an HTTP request ignores that the
\* row is gone, the WebSocket's task ends with the error.
AppendEvents(r) ==
  /\ pc[r] = "replaying" /\ pending[r] = <<>>
  /\ Goto(r, IF r \in Ws /\ store[r] = "absent" THEN "dead" ELSE "answered")
  /\ UNCHANGED <<busy, activeRunner, activeTask, flags, result, pending, store,
                 touched>>

-----------------------------------------------------------------------------
(* Commands, and calls on the store                                        *)

\* The runner that a command reaches: a dead request's may be left there.
Reached(r) == activeRunner = r /\ ~Finished(r)

\* Pausing and resuming leave an event with the runner they reach, which
\* matters only before its run begins.
Pause(r) ==
  /\ Reached(r)
  /\ paused' = [paused EXCEPT ![r] = TRUE]
  /\ noise' = [noise EXCEPT ![r] = IF pc[r] \in {"opening", "opened"} THEN TRUE ELSE @]
  /\ UNCHANGED <<pc, busy, activeRunner, activeTask, cancelled, result, pending,
                 store, touched>>

Resume(r) ==
  /\ Reached(r)
  /\ paused' = [paused EXCEPT ![r] = FALSE]
  /\ noise' = [noise EXCEPT ![r] = IF pc[r] \in {"opening", "opened"} THEN TRUE ELSE @]
  /\ pc' = [pc EXCEPT ![r] = IF @ = "blocked" THEN "woken" ELSE @]
  /\ UNCHANGED <<busy, activeRunner, activeTask, cancelled, result, pending,
                 store, touched>>

Cancel(r) ==
  /\ Reached(r)
  /\ cancelled' = [cancelled EXCEPT ![r] = TRUE]
  /\ UNCHANGED <<pc, busy, activeRunner, activeTask, paused, noise, result,
                 pending, store, touched>>

Touch(R) ==
  /\ touched' = touched \cup R
  /\ Cardinality(touched') <= MaxTouched

\* DELETE of one run or of all there are, or the purge that every use of the
\* store begins with: it removes the rows older than the caller's retention, also those
\* of runs that a pause still holds.
Delete(R) ==
  /\ \A r \in R : store[r] # "absent"
  /\ store' = [r \in Request |-> IF r \in R THEN "absent" ELSE store[r]]
  /\ Touch(R)
  /\ UNCHANGED <<pc, busy, activeRunner, activeTask, flags, result, pending>>

\* A client can know the run's id: from run.started, or from an event.
Known(r) ==
  /\ pc[r] # "new"
  /\ r \in Http => noise[r] \/ pc[r] \notin {"opening", "opened"}

\* POST of a checkpoint or an event makes a row for a run that has none.
Post(r) ==
  /\ Known(r) /\ store[r] = "absent"
  /\ store' = [store EXCEPT ![r] = "created"]
  /\ Touch({r})
  /\ UNCHANGED <<pc, busy, activeRunner, activeTask, flags, result, pending>>

\* The server stops and starts again: only the store is left.
Restart ==
  /\ pc' = [r \in Request |-> IF pc[r] \in {"new", "answered"} THEN pc[r] ELSE "dead"]
  /\ busy' = FALSE
  /\ activeRunner' = Nobody /\ activeTask' = Nobody
  /\ paused' = [r \in Request |-> FALSE]
  /\ cancelled' = [r \in Request |-> FALSE]
  /\ pending' = [r \in Request |-> <<>>]
  /\ UNCHANGED <<noise, result, store, touched>>

Progress(r) ==
  \/ OpenStore(r) \/ StoreFails(r) \/ Reject(r) \/ Begin(r) \/ Wait(r) \/ Proceed(r)
  \/ \E status \in Terminal : End(r, status)
  \/ UpdateStatus(r) \/ AppendEvents(r)

Command(r) == Pause(r) \/ Resume(r) \/ Cancel(r)

Next ==
  \/ \E h \in Http : HttpAccept(h)
  \/ \E w \in Ws : WsStart(w)
  \/ \E r \in Request : Progress(r) \/ Command(r) \/ Post(r)
  \/ \E R \in SUBSET Request : Delete(R)
  \/ Restart

\* The event loop runs every coroutine that is ready, a store call returns or
\* fails, and a run that is not held ends (GraphRunner, RunEnds).
Spec == Init /\ [][Next]_vars /\ \A r \in Request : WF_vars(Progress(r))

-----------------------------------------------------------------------------
(* Properties                                                              *)

\* The shape of the server's state and of the rows.
TypeOK ==
  /\ pc \in [Request -> Places]
  /\ busy \in BOOLEAN
  /\ activeRunner \in Request \cup {Nobody}
  /\ activeTask \in Ws \cup {Nobody}
  /\ paused \in [Request -> BOOLEAN]
  /\ cancelled \in [Request -> BOOLEAN]
  /\ noise \in [Request -> BOOLEAN]
  /\ result \in [Request -> Terminal \cup {"none"}]
  /\ pending \in [Request -> Seq(RunStatus)]
  /\ store \in [Request -> RunStatus \cup {"absent"}]
  /\ touched \subseteq Request

\* The process runs one graph at a time, whichever way its run was asked for
\* and whatever failed before, and the flag says so (GraphRunner.run, _active).
OneRunAtATime ==
  /\ \A q, r \in Request : Executing(q) /\ Executing(r) => q = r
  /\ busy <=> \E r \in Request : Executing(r)

\* A final status in the store is how the run did end, through deletions,
\* rows made again by a checkpoint, and restarts in the middle of the writes.
StoredStatusIsTrue ==
  \A r \in Request : store[r] \in Terminal => store[r] = result[r]

\* A run whose request was answered, and whose row nobody else touched, is
\* stored with its result; but for a rejected run that a pause or resume
\* reached before it was rejected, which stays "created".
AnsweredRunIsStored ==
  \A r \in Request : pc[r] = "answered" /\ r \notin touched =>
    \/ store[r] = result[r]
    \/ store[r] = "created" /\ noise[r] /\ result[r] = "failed"

\* What the store says of a run that is over is true, and is there to be read
\* (main.py, run_graph and _run_background): both of the above.
RowsAreTrue == StoredStatusIsTrue /\ AnsweredRunIsStored

\* A WebSocket run that executes is the one that commands reach, unless an
\* HTTP request has come in: starts over the WebSocket alone never detach it.
WsRunsStayAttached ==
  \A w \in Ws : Executing(w) /\ activeRunner # w =>
    \E h \in Http : pc[h] # "new"

\* A command never reaches a run that has ended: it would be acknowledged and
\* have no effect.
CommandsReachNoEndedRun ==
  activeRunner # Nobody => pc[activeRunner] \notin {"replaying", "answered"}

\* Commands reach the run they are meant for, alive (main.py, the active runner):
\* both of the above.
CommandsReachTheirRun == WsRunsStayAttached /\ CommandsReachNoEndedRun

\* No request hangs: it is answered or fails, or its run is held by a pause.
RequestsEnd ==
  \A r \in Request : pc[r] # "new" ~> (Finished(r) \/ pc[r] = "blocked")
=============================================================================
