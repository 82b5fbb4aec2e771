----------------------------- MODULE HumanGates -----------------------------
(***************************************************************************)
(* The human-gate store: one SQLite table of approval requests, and the    *)
(* calls that create, decide, consume, cancel and expire them.             *)
(*                                                                         *)
(* Calls are coroutines.  A deciding or consuming call asks, opens a       *)
(* transaction with BEGIN IMMEDIATE (the database's single write lock),    *)
(* reads the row, and only then checks and writes; other calls and the     *)
(* clock move between those steps.  A decision compares the expiry with    *)
(* the time it read BEFORE it waited for the lock, a consumption with the  *)
(* time it reads while it holds the lock.                                  *)
(*                                                                         *)
(* A request id and its nonce are drawn at random, so a gate stands for    *)
(* both, and what a gate is bound to (run, session, action fingerprint) is *)
(* a constant of the gate.                                                 *)
(***************************************************************************)
EXTENDS Integers

CONSTANTS
  Gate,        \* request ids that may be drawn
  Run, Session, Action,
  Binding,     \* [Gate -> [run : Run, session : Session, action : Action]]
  Caller,      \* calls that are in flight at the same time
  NoOne,       \* nobody holds the write lock
  MaxTtl,      \* longest time to live a request may ask for
  MaxTime      \* bound of the clock

ASSUME GateAssumption ==
  /\ Binding \in [Gate -> [run : Run, session : Session, action : Action]]
  /\ NoOne \notin Caller
  /\ MaxTtl \in Nat \ {0}
  /\ MaxTime \in Nat

VARIABLES
  now,       \* the wall clock
  status,    \* [Gate -> status column, or "absent"]
  expires,   \* [Gate -> expires_at column]
  call,      \* [Caller -> the request it carries and the time it read]
  seen,      \* [Caller -> status its open transaction read, or "unread"]
  writer,    \* who holds the write lock
  uses,      \* history: [Gate -> successful answers of consume]
  late       \* history: gates approved at a time when they had expired

vars == <<now, status, expires, call, seen, writer, uses, late>>

GateStatus == {"pending", "approved", "denied", "expired", "cancelled", "consumed"}
Live == {"pending", "approved"}
Time == 0 .. MaxTime

Call ==
  [op : {"idle"}]
    \cup [op : {"create"}, gate : Gate, expires : Nat]
    \cup [op : {"decide"}, gate : Gate, nonce : Gate, session : Session,
          decision : {"approved", "denied"}, at : Time]
    \cup [op : {"consume"}, gate : Gate, nonce : Gate, run : Run,
          session : Session, action : Action]
    \cup [op : {"expire"}, at : Time]

Idle == [op |-> "idle"]

InTransaction(c) == seen[c] # "unread"

\* The call ends: its transaction, if it has one, is over and the lock free.
Return(c) ==
  /\ call' = [call EXCEPT ![c] = Idle]
  /\ seen' = [seen EXCEPT ![c] = "unread"]
  /\ writer' = IF writer = c THEN NoOne ELSE writer

Init ==
  /\ now = 0
  /\ status = [g \in Gate |-> "absent"]
  /\ expires = [g \in Gate |-> 0]
  /\ call = [c \in Caller |-> Idle]
  /\ seen = [c \in Caller |-> "unread"]
  /\ writer = NoOne
  /\ uses = [g \in Gate |-> 0]
  /\ late = {}

Tick ==
  /\ now < MaxTime
  /\ now' = now + 1
  /\ UNCHANGED <<status, expires, call, seen, writer, uses, late>>

-----------------------------------------------------------------------------
(* create: the expiry is fixed before the row is inserted                  *)

AskCreate(c, g, ttl) ==
  /\ call[c] = Idle
  /\ call' = [call EXCEPT ![c] =
                [op |-> "create", gate |-> g, expires |-> now + ttl]]
  /\ UNCHANGED <<now, status, expires, seen, writer, uses, late>>

\* INSERT and commit; the primary key rejects an id that exists.
Insert(c) ==
  /\ call[c].op = "create"
  /\ writer = NoOne
  /\ LET g == call[c].gate IN
       IF status[g] = "absent"
         THEN /\ status' = [status EXCEPT ![g] = "pending"]
              /\ expires' = [expires EXCEPT ![g] = call[c].expires]
         ELSE UNCHANGED <<status, expires>>
  /\ Return(c)
  /\ UNCHANGED <<now, uses, late>>

-----------------------------------------------------------------------------
(* decide and consume: ask, open the transaction, check and write          *)

AskDecide(c, g, n, s, d) ==
  /\ call[c] = Idle
  /\ call' = [call EXCEPT ![c] =
                [op |-> "decide", gate |-> g, nonce |-> n, session |-> s,
                 decision |-> d, at |-> now]]
  /\ UNCHANGED <<now, status, expires, seen, writer, uses, late>>

AskConsume(c, g, n, r, s, a) ==
  /\ call[c] = Idle
  /\ call' = [call EXCEPT ![c] =
                [op |-> "consume", gate |-> g, nonce |-> n, run |-> r,
                 session |-> s, action |-> a]]
  /\ UNCHANGED <<now, status, expires, seen, writer, uses, late>>

\* BEGIN IMMEDIATE and the SELECT.
Begin(c) ==
  /\ call[c].op \in {"decide", "consume"}
  /\ ~InTransaction(c)
  /\ writer = NoOne
  /\ writer' = c
  /\ seen' = [seen EXCEPT ![c] = status[call[c].gate]]
  /\ UNCHANGED <<now, status, expires, call, uses, late>>

\* A decision the store takes up: the nonce and the session are the gate's own.
OwnDecision(q) ==
  /\ q.nonce = q.gate
  /\ q.session = Binding[q.gate].session

Decide(c) ==
  LET q == call[c]
      g == q.gate
  IN
  /\ q.op = "decide" /\ InTransaction(c)
  /\ IF ~(OwnDecision(q) /\ seen[c] = "pending")
       THEN UNCHANGED <<status, late>>
       ELSE IF q.at >= expires[g]
         THEN /\ status' = [status EXCEPT ![g] = "expired"]
              /\ UNCHANGED late
         ELSE /\ status' = [status EXCEPT ![g] =
                              IF @ = "pending" THEN q.decision ELSE @]
              /\ late' = IF q.decision = "approved" /\ now >= expires[g]
                           THEN late \cup {g} ELSE late
  /\ Return(c)
  /\ UNCHANGED <<now, expires, uses>>

\* Mutant: the consumption does not look at the clock again.
ConsumeExpiredToo(c) ==
  LET q == call[c] IN
  /\ q.op = "consume" /\ InTransaction(c)
  /\ IF seen[c] = "approved" /\ q.nonce = q.gate
       THEN /\ status' = [status EXCEPT ![q.gate] = "consumed"]
            /\ uses' = [uses EXCEPT ![q.gate] = @ + 1]
       ELSE UNCHANGED <<status, uses>>
  /\ Return(c)
  /\ UNCHANGED <<now, expires, late>>

Consume(c) ==
  LET q == call[c]
      g == q.gate
      bound == q.nonce = g /\ [run |-> q.run, session |-> q.session,
                               action |-> q.action] = Binding[g]
  IN
  /\ q.op = "consume" /\ InTransaction(c)
  /\ IF seen[c] \in Live /\ now >= expires[g]
       THEN /\ status' = [status EXCEPT ![g] = "expired"]
            /\ UNCHANGED uses
       ELSE IF seen[c] = "approved" /\ bound
         THEN /\ status' = [status EXCEPT ![g] =
                              IF @ = "approved" THEN "consumed" ELSE @]
              /\ uses' = [uses EXCEPT ![g] = @ + 1]
         ELSE UNCHANGED <<status, uses>>
  /\ Return(c)
  /\ UNCHANGED <<now, expires, late>>

-----------------------------------------------------------------------------
(* statements that are a transaction of their own                          *)

\* Mutant: cancel_run touches every gate of the run, spent ones included.
CancelRunAll(r) ==
  /\ writer = NoOne
  /\ status' = [g \in Gate |->
                  IF Binding[g].run = r /\ status[g] # "absent"
                    THEN "cancelled" ELSE status[g]]
  /\ UNCHANGED <<now, expires, call, seen, writer, uses, late>>

CancelRun(r) ==
  /\ writer = NoOne
  /\ status' = [g \in Gate |->
                  IF Binding[g].run = r /\ status[g] \in Live
                    THEN "cancelled" ELSE status[g]]
  /\ UNCHANGED <<now, expires, call, seen, writer, uses, late>>

\* expire(), which every get() calls first, reads the clock before it connects.
AskExpire(c) ==
  /\ call[c] = Idle
  /\ call' = [call EXCEPT ![c] = [op |-> "expire", at |-> now]]
  /\ UNCHANGED <<now, status, expires, seen, writer, uses, late>>

Expire(c) ==
  /\ call[c].op = "expire"
  /\ writer = NoOne
  /\ status' = [g \in Gate |->
                  IF status[g] \in Live /\ expires[g] <= call[c].at
                    THEN "expired" ELSE status[g]]
  /\ Return(c)
  /\ UNCHANGED <<now, expires, uses, late>>

\* A call ends without effect: the lock is not free in time, the request is
\* aborted, or the server stops.  Closing the connection rolls back.
Abandon(c) ==
  /\ call[c] # Idle
  /\ Return(c)
  /\ UNCHANGED <<now, status, expires, uses, late>>

Next ==
  \/ Tick
  \/ \E c \in Caller, g \in Gate, ttl \in 1 .. MaxTtl : AskCreate(c, g, ttl)
  \/ \E c \in Caller, g, n \in Gate, s \in Session, d \in {"approved", "denied"} :
       AskDecide(c, g, n, s, d)
  \/ \E c \in Caller, g, n \in Gate, r \in Run, s \in Session, a \in Action :
       AskConsume(c, g, n, r, s, a)
  \/ \E c \in Caller :
       \/ Insert(c) \/ Begin(c) \/ Decide(c) \/ Consume(c)
       \/ AskExpire(c) \/ Expire(c) \/ Abandon(c)
  \/ \E r \in Run : CancelRun(r)

Spec == Init /\ [][Next]_vars

-----------------------------------------------------------------------------
(* Properties                                                              *)

\* The shape of the store's rows, of the calls and of the history variables: a
\* status column holds a status the contracts know (contracts.py, GateStatus).
TypeOK ==
  /\ now \in Time
  /\ status \in [Gate -> GateStatus \cup {"absent"}]
  /\ expires \in [Gate -> Nat]
  /\ call \in [Caller -> Call]
  /\ seen \in [Caller -> GateStatus \cup {"absent", "unread"}]
  /\ writer \in Caller \cup {NoOne}
  /\ uses \in [Gate -> Nat]
  /\ late \in SUBSET Gate

\* Between its SELECT and its UPDATE a transaction awaits twice.  What it read
\* is still what the table holds, whatever other calls did meanwhile
\* (store.py: BEGIN IMMEDIATE in _decide and consume).
SnapshotIsCurrent ==
  \A c \in Caller : InTransaction(c) =>
    /\ writer = c
    /\ seen[c] = status[call[c].gate]

\* However many calls race for one gate, one at most is told that it may act,
\* and the row says so: a gate was used exactly when it is consumed.
ServedOnce ==
  \A g \in Gate : uses[g] = IF status[g] = "consumed" THEN 1 ELSE 0

\* _decide reads the clock before it waits for the lock, so it may approve a
\* gate that has expired by then; consume reads it again under the lock, and
\* such an approval never lets an action run.
LateApprovalNeverUsed == \A g \in late : uses[g] = 0

\* The store keeps the gates' contract: a single use of a granted gate, within
\* its time, and no way back from denied, expired, cancelled or consumed.
GrantOf(s) ==
  CASE s = "absent"   -> "none"
    [] s = "pending"  -> "open"
    [] s = "approved" -> "granted"
    [] s = "consumed" -> "used"
    [] s \in {"denied", "expired", "cancelled"} -> "closed"

Grants == [g \in Gate |-> GrantOf(status[g])]

Overdue == {g \in Gate : status[g] # "absent" /\ now >= expires[g]}

Contract == INSTANCE GateContract WITH
  grant <- Grants,
  over <- Overdue,
  served <- uses

ImplementsGateContract == Contract!Spec
=============================================================================
