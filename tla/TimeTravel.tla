----------------------------- MODULE TimeTravel -----------------------------
(***************************************************************************)
(* Checkpoints of a run's state and the forks that are made of them.  A    *)
(* fork is a new run with the checkpoint's state, changed by reducers; it  *)
(* may have checkpoints and forks in its turn.                             *)
(*                                                                         *)
(* A request for a fork reads the checkpoint, the depth of its run and the *)
(* number of the run's forks, and inserts the new fork, in transactions of *)
(* their own.  Requests that do not fit the session, graph or workspace of *)
(* the checkpoint are refused and left out.  Secrets in the state are      *)
(* redacted before a checkpoint is validated, and after a fork's state is. *)
(***************************************************************************)
EXTENDS StateReducers

CONSTANTS
  Root,        \* runs that are no forks
  Fork,        \* ids of forks
  Checkpoint,  \* ids of checkpoints
  Caller,      \* requests for forks at the same time
  States,      \* states that clients save
  Requested,   \* sequences of reducers that clients ask for
  MaxForks,    \* EXTENSION_POLICY.max_forks_per_run
  MaxDepth     \* EXTENSION_POLICY.max_fork_depth

Run == Root \cup Fork

ASSUME ForkAssumption ==
  /\ Root \cap Fork = {} /\ IsFiniteSet(Fork) /\ IsFiniteSet(Caller)
  /\ MaxForks \in Nat \ {0} /\ MaxDepth \in Nat \ {0}
  /\ States \subseteq State /\ \A s \in States : Legal(s)
  /\ Requested \subseteq Seq(Reducer)

VARIABLES
  checkpoint,  \* [Checkpoint -> the row]
  fork,        \* [Fork -> the row]
  request      \* [Caller -> the request for a fork]

vars == <<checkpoint, fork, request>>

NoRow == [parent |-> "none"]
Idle == [at |-> "idle"]

Forks == {f \in Fork : fork[f] # NoRow}
ForksOf(r) == {f \in Forks : fork[f].parent = r}
Saved == {k \in Checkpoint : checkpoint[k] # NoRow}
Depth(r) == IF r \in Forks THEN fork[r].depth ELSE 0

Init ==
  /\ checkpoint = [k \in Checkpoint |-> NoRow]
  /\ fork = [f \in Fork |-> NoRow]
  /\ request = [c \in Caller |-> Idle]

Become(c, q) == request' = [request EXCEPT ![c] = q]

\* Clients save checkpoints of any run, also of a fork.  A state that is too large
\* once it is redacted is refused.
SaveCheckpoint(k, r, s) ==
  /\ k \notin Saved /\ r \in Root \cup Forks
  /\ Legal(Redacted(s))
  /\ checkpoint' = [checkpoint EXCEPT ![k] = [parent |-> r, state |-> Redacted(s)]]
  /\ UNCHANGED <<fork, request>>

Ask(c, k, reducers) ==
  /\ request[c] = Idle /\ k \in Saved
  /\ Become(c, [at |-> "depth", from |-> k, reducers |-> reducers,
                run |-> checkpoint[k].parent])
  /\ UNCHANGED <<checkpoint, fork>>

\* Mutant: the depth is counted from the checkpoint's run.
ReadDepthFlat(c) ==
  LET q == request[c] IN
  /\ q.at = "depth"
  /\ Become(c, [at |-> "count", from |-> q.from, run |-> q.run,
                reducers |-> q.reducers, depth |-> 1])
  /\ UNCHANGED <<checkpoint, fork>>

ReadDepth(c) ==
  LET q == request[c] IN
  /\ q.at = "depth" /\ Depth(q.run) + 1 <= MaxDepth
  /\ Become(c, [at |-> "count", from |-> q.from, run |-> q.run,
                reducers |-> q.reducers, depth |-> Depth(q.run) + 1])
  /\ UNCHANGED <<checkpoint, fork>>

\* Mutant: forks are counted by checkpoint.
RoomForCheckpoint(q) ==
  Cardinality({f \in Forks : fork[f].from = q.from}) < MaxForks

\* The run may have a further fork, as far as its forks are in the table.
Room(q) == Cardinality(ForksOf(q.run)) < MaxForks

\* The forks are counted; the new state is computed in the same step, and
\* redacted.  The request keeps, as a history, the state before that.
Count(c) ==
  LET q == request[c]
      state == Applied(checkpoint[q.from].state, q.reducers)
  IN /\ q.at = "count" /\ Room(q) /\ state # Rejected
     /\ Become(c, [at |-> "save", from |-> q.from, run |-> q.run, depth |-> q.depth,
                   state |-> Redacted(state), before |-> state])
     /\ UNCHANGED <<checkpoint, fork>>

Insert(c, f) ==
  LET q == request[c] IN
  /\ q.at = "save" /\ f \notin Forks
  /\ fork' = [fork EXCEPT ![f] = [parent |-> q.run, from |-> q.from, depth |-> q.depth,
                                  state |-> q.state, before |-> q.before]]
  /\ Become(c, Idle)
  /\ UNCHANGED checkpoint

\* Too deep, too many, a reducer that does not fit, a failure of the database,
\* or the request is aborted.
Refuse(c) ==
  /\ request[c] # Idle
  /\ Become(c, Idle)
  /\ UNCHANGED <<checkpoint, fork>>

Restart ==
  /\ request' = [c \in Caller |-> Idle]
  /\ UNCHANGED <<checkpoint, fork>>

Next ==
  \/ \E k \in Checkpoint, r \in Run, s \in States : SaveCheckpoint(k, r, s)
  \/ \E c \in Caller, k \in Checkpoint, rs \in Requested : Ask(c, k, rs)
  \/ \E c \in Caller : ReadDepth(c) \/ Count(c) \/ Refuse(c)
  \/ \E c \in Caller, f \in Fork : Insert(c, f)
  \/ Restart

Spec == Init /\ [][Next]_vars

-----------------------------------------------------------------------------
(* Properties                                                              *)

\* The shape of rows and requests; of the states in them, ForkStatesAreLegal.
TypeOK ==
  /\ \A k \in Saved : checkpoint[k].parent \in Root \cup Forks
  /\ \A f \in Forks : fork[f].parent \in Run /\ fork[f].from \in Checkpoint
                      /\ fork[f].depth \in 1 .. MaxDepth
  /\ \A c \in Caller : request[c].at \in {"idle", "depth", "count", "save"}

\* Requests that counted before the others inserted exceed the number of forks
\* per run, but by no more than one for each other request under way at a time
\* (forker.py, fork).
ForksAreNearlyBounded ==
  \A r \in Run : Cardinality(ForksOf(r)) <= MaxForks + Cardinality(Caller) - 1

\* Every fork goes back to a root: it is made of a checkpoint of its parent,
\* one step deeper than that and not too deep, whatever was inserted while it
\* was made (service.py, fork).
LineageIsSound ==
  \A f \in Forks :
    LET row == fork[f] IN
    /\ row.from \in Saved /\ checkpoint[row.from].parent = row.parent
    /\ row.parent \in Root \cup Forks
    /\ row.depth = Depth(row.parent) + 1 /\ row.depth <= MaxDepth

\* Whatever reducers are asked for, and along any chain of checkpoints and forks, a
\* fork's state is what redaction makes of a legal state, and keeps the rules of
\* the fields; it may break no rule but that of the size.  The state of a
\* checkpoint keeps that one too, also if it is a fork's (state.py,
\* apply_reducer; forker.py, fork; service.py, create_checkpoint).
ForkStatesAreLegal ==
  /\ \A f \in Forks : LET row == fork[f] IN
       Legal(row.before) /\ row.state = Redacted(row.before) /\ FieldsFit(row.state)
  /\ \A k \in Saved : Legal(checkpoint[k].state)
=============================================================================
