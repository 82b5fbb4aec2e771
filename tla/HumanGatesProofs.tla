-------------------------- MODULE HumanGatesProofs --------------------------
(***************************************************************************)
(* Proofs about HumanGates, for any sets of gates, runs, sessions, actions *)
(* and callers, any bindings, and any clock bound.                         *)
(*                                                                         *)
(* ServedOnce is not inductive: that a consumption serves a gate once      *)
(* rests on what its transaction read being still in the table, and that   *)
(* on the write lock.  GateInv joins the three, and adds that a gate       *)
(* approved too late stays overdue and is never consumed.                  *)
(***************************************************************************)
EXTENDS HumanGates, TLAPS

SnapshotHeld ==
  \A c \in Caller : InTransaction(c) =>
    /\ writer = c
    /\ call[c].op \in {"decide", "consume"}
    /\ seen[c] = status[call[c].gate]

LateStaysOverdue ==
  \A g \in late : now >= expires[g] /\ status[g] \notin {"absent", "consumed"}

GateInv == TypeOK /\ SnapshotHeld /\ ServedOnce /\ LateStaysOverdue

(***************************************************************************)
(* Every reachable state has rows, calls and counters of the right shape.  *)
(***************************************************************************)
LEMMA InitType == Init => TypeOK
BY GateAssumption DEF Init, TypeOK, Time, Call, Idle

\* Every step keeps rows, calls and counters in shape.
LEMMA NextType == TypeOK /\ [Next]_vars => TypeOK'
<1> SUFFICES ASSUME TypeOK, [Next]_vars PROVE TypeOK'
  OBVIOUS
<1> USE GateAssumption DEF TypeOK
<1>1. CASE Tick
  BY <1>1 DEF Tick, Time, Call
<1>2. ASSUME NEW c \in Caller, NEW g \in Gate, NEW ttl \in 1 .. MaxTtl,
             AskCreate(c, g, ttl)
      PROVE  TypeOK'
  BY <1>2 DEF AskCreate, Time, Call
<1>3. ASSUME NEW c \in Caller, NEW g \in Gate, NEW n \in Gate, NEW s \in Session,
             NEW d \in {"approved", "denied"}, AskDecide(c, g, n, s, d)
      PROVE  TypeOK'
  BY <1>3 DEF AskDecide, Call
<1>4. ASSUME NEW c \in Caller, NEW g \in Gate, NEW n \in Gate, NEW r \in Run,
             NEW s \in Session, NEW a \in Action, AskConsume(c, g, n, r, s, a)
      PROVE  TypeOK'
  BY <1>4 DEF AskConsume, Call
<1>5. ASSUME NEW c \in Caller, Insert(c) PROVE TypeOK'
  BY <1>5 DEF Insert, Return, Idle, Call, GateStatus
<1>6. ASSUME NEW c \in Caller, Begin(c) PROVE TypeOK'
  BY <1>6 DEF Begin, Call, GateStatus
<1>7. ASSUME NEW c \in Caller, Decide(c) PROVE TypeOK'
  BY <1>7 DEF Decide, OwnDecision, Return, Idle, Call, GateStatus
<1>8. ASSUME NEW c \in Caller, Consume(c) PROVE TypeOK'
  BY <1>8 DEF Consume, Return, Idle, Call, GateStatus, Live
<1>9. ASSUME NEW c \in Caller, AskExpire(c) PROVE TypeOK'
  BY <1>9 DEF AskExpire, Call
<1>10. ASSUME NEW c \in Caller, Expire(c) PROVE TypeOK'
  BY <1>10 DEF Expire, Return, Idle, Call, GateStatus
<1>11. ASSUME NEW c \in Caller, Abandon(c) PROVE TypeOK'
  BY <1>11 DEF Abandon, Return, Idle, Call
<1>12. ASSUME NEW r \in Run, CancelRun(r) PROVE TypeOK'
  BY <1>12 DEF CancelRun, GateStatus
<1>13. CASE UNCHANGED vars
  BY <1>13 DEF vars
<1> QED
  BY <1>1, <1>2, <1>3, <1>4, <1>5, <1>6, <1>7, <1>8, <1>9, <1>10, <1>11,
     <1>12, <1>13 DEF Next

\* The store's rows hold only statuses of the contract, in every reachable state.
THEOREM TypeCorrect == Spec => []TypeOK
BY InitType, NextType, PTL DEF Spec

(***************************************************************************)
(* GateInv holds initially and every step keeps it.                        *)
(***************************************************************************)
LEMMA InitGateInv == Init => GateInv
BY InitType DEF Init, GateInv, SnapshotHeld, InTransaction, ServedOnce,
                LateStaysOverdue

\* Every step keeps GateInv.
LEMMA NextGateInv == GateInv /\ [Next]_vars => GateInv'
<1> SUFFICES ASSUME GateInv, [Next]_vars PROVE GateInv'
  OBVIOUS
<1> USE DEF GateInv
<1>t. TypeOK'
  BY NextType
<1>s. SnapshotHeld'
  <2> USE GateAssumption DEF SnapshotHeld, TypeOK, InTransaction
  <2>1. CASE Tick
    BY <2>1 DEF Tick
  <2>2. ASSUME NEW c \in Caller, NEW g \in Gate, NEW ttl \in 1 .. MaxTtl,
               AskCreate(c, g, ttl)
        PROVE  SnapshotHeld'
    BY <2>2 DEF AskCreate, Idle
  <2>3. ASSUME NEW c \in Caller, NEW g \in Gate, NEW n \in Gate, NEW s \in Session,
               NEW d \in {"approved", "denied"}, AskDecide(c, g, n, s, d)
        PROVE  SnapshotHeld'
    BY <2>3 DEF AskDecide, Idle
  <2>4. ASSUME NEW c \in Caller, NEW g \in Gate, NEW n \in Gate, NEW r \in Run,
               NEW s \in Session, NEW a \in Action, AskConsume(c, g, n, r, s, a)
        PROVE  SnapshotHeld'
    BY <2>4 DEF AskConsume, Idle
  <2>5. ASSUME NEW c \in Caller, Insert(c) PROVE SnapshotHeld'
    BY <2>5 DEF Insert, Return
  <2>6. ASSUME NEW c \in Caller, Begin(c) PROVE SnapshotHeld'
    BY <2>6 DEF Begin
  <2>7. ASSUME NEW c \in Caller, Decide(c) PROVE SnapshotHeld'
    BY <2>7 DEF Decide, Return
  <2>8. ASSUME NEW c \in Caller, Consume(c) PROVE SnapshotHeld'
    BY <2>8 DEF Consume, Return
  <2>9. ASSUME NEW c \in Caller, AskExpire(c) PROVE SnapshotHeld'
    BY <2>9 DEF AskExpire, Idle
  <2>10. ASSUME NEW c \in Caller, Expire(c) PROVE SnapshotHeld'
    BY <2>10 DEF Expire, Return
  <2>11. ASSUME NEW c \in Caller, Abandon(c) PROVE SnapshotHeld'
    BY <2>11 DEF Abandon, Return
  <2>12. ASSUME NEW r \in Run, CancelRun(r) PROVE SnapshotHeld'
    BY <2>12 DEF CancelRun
  <2>13. CASE UNCHANGED vars
    BY <2>13 DEF vars
  <2> QED
    BY <2>1, <2>2, <2>3, <2>4, <2>5, <2>6, <2>7, <2>8, <2>9, <2>10, <2>11,
       <2>12, <2>13 DEF Next
<1>u. ServedOnce' /\ LateStaysOverdue'
  <2> USE DEF ServedOnce, LateStaysOverdue, TypeOK, Time
  <2>1. CASE Tick
    BY <2>1, GateAssumption DEF Tick
  <2>2. CASE UNCHANGED <<now, status, expires, uses, late>>
    BY <2>2
  <2>3. ASSUME NEW c \in Caller, Insert(c) PROVE ServedOnce' /\ LateStaysOverdue'
    BY <2>3 DEF Insert
  <2>4. ASSUME NEW c \in Caller, Decide(c) PROVE ServedOnce' /\ LateStaysOverdue'
    <3>1. call[c] \in Call /\ call[c].op = "decide" /\ call[c].gate \in Gate
      BY <2>4 DEF Decide, Call
    <3>2. call[c].decision \in {"approved", "denied"}
      BY <3>1 DEF Call
    <3>3. seen[c] = status[call[c].gate]
      BY <2>4 DEF Decide, SnapshotHeld
    <3> QED
      BY <2>4, <3>1, <3>2, <3>3 DEF Decide
  <2>5. ASSUME NEW c \in Caller, Consume(c) PROVE ServedOnce' /\ LateStaysOverdue'
    <3>1. call[c] \in Call /\ call[c].op = "consume" /\ call[c].gate \in Gate
      BY <2>5 DEF Consume, Call
    <3>2. seen[c] = status[call[c].gate]
      BY <2>5 DEF Consume, SnapshotHeld
    <3> QED
      BY <2>5, <3>1, <3>2 DEF Consume, Live
  <2>6. ASSUME NEW c \in Caller, Expire(c) PROVE ServedOnce' /\ LateStaysOverdue'
    BY <2>6 DEF Expire, Live
  <2>7. ASSUME NEW r \in Run, CancelRun(r) PROVE ServedOnce' /\ LateStaysOverdue'
    BY <2>7 DEF CancelRun, Live
  <2> QED
    BY <2>1, <2>2, <2>3, <2>4, <2>5, <2>6, <2>7
       DEF Next, vars, AskCreate, AskDecide, AskConsume, Begin, AskExpire, Abandon
<1> QED
  BY <1>t, <1>s, <1>u

\* The inductive invariant holds in every reachable state.
THEOREM GateInvariant == Spec => []GateInv
BY InitGateInv, NextGateInv, PTL DEF Spec

(***************************************************************************)
(* What a transaction read is still in the table when it writes.           *)
(***************************************************************************)
THEOREM SnapshotsAreCurrent == Spec => []SnapshotIsCurrent
<1>1. GateInv => SnapshotIsCurrent
  BY DEF GateInv, SnapshotHeld, SnapshotIsCurrent
<1> QED
  BY <1>1, GateInvariant, PTL

(***************************************************************************)
(* However many calls race for a gate, one at most is served.              *)
(***************************************************************************)
THEOREM GatesServeOnce == Spec => []ServedOnce
<1>1. GateInv => ServedOnce
  BY DEF GateInv
<1> QED
  BY <1>1, GateInvariant, PTL

(***************************************************************************)
(* An approval recorded after the expiry never lets an action run.         *)
(***************************************************************************)
THEOREM LateApprovalsAreDead == Spec => []LateApprovalNeverUsed
<1>1. GateInv => LateApprovalNeverUsed
  BY DEF GateInv, LateStaysOverdue, ServedOnce, LateApprovalNeverUsed, TypeOK
<1> QED
  BY <1>1, GateInvariant, PTL

(***************************************************************************)
(* The store implements the gates' contract.                               *)
(***************************************************************************)
LEMMA ContractInit == Init => Contract!Init
BY DEF Init, Contract!Init, Grants, GrantOf, Overdue

\* The stage of the contract that each status stands for.
LEMMA GrantOfStatus ==
  /\ GrantOf("absent") = "none"
  /\ GrantOf("pending") = "open"
  /\ GrantOf("approved") = "granted"
  /\ GrantOf("consumed") = "used"
  /\ GrantOf("denied") = "closed"
  /\ GrantOf("expired") = "closed"
  /\ GrantOf("cancelled") = "closed"
BY DEF GrantOf

\* Every step of the store is a step of the contract, or changes nothing of it.
LEMMA ContractStep ==
  GateInv /\ GateInv' /\ [Next]_vars => [Contract!Next]_(Contract!vars)
<1> SUFFICES ASSUME GateInv, GateInv', [Next]_vars
             PROVE  [Contract!Next]_(Contract!vars)
  OBVIOUS
<1> USE DEF GateInv, TypeOK
<1>1. CASE Tick
  <2>1. Overdue' \in SUBSET Gate /\ Overdue \subseteq Overdue'
    BY <1>1, GateAssumption DEF Tick, Overdue, Time
  <2>2. UNCHANGED <<Grants, uses>>
    BY <1>1 DEF Tick, Grants
  <2>3. Contract!Pass
    BY <2>1, <2>2 DEF Contract!Pass
  <2> QED
    BY <2>3 DEF Contract!Next
<1>2. CASE UNCHANGED <<now, status, expires, uses>>
  BY <1>2 DEF Contract!vars, Overdue, Grants
<1>3. ASSUME NEW c \in Caller, Insert(c)
      PROVE  [Contract!Next]_(Contract!vars)
  <2>1. PICK g \in Gate : g = call[c].gate
    BY <1>3 DEF Insert, Call
  <2>2. CASE status[g] = "absent"
    <3>1. status' = [status EXCEPT ![g] = "pending"]
      BY <1>3, <2>1, <2>2 DEF Insert
    <3>2. UNCHANGED <<uses, now>> /\ \A h \in Gate \ {g} : expires'[h] = expires[h]
      BY <1>3, <2>1, <2>2 DEF Insert
    <3>3. Grants[g] = "none" /\ Grants' = [Grants EXCEPT ![g] = "open"]
      BY <2>2, <3>1, GrantOfStatus DEF Grants
    <3>4. Overdue' \in {Overdue, Overdue \cup {g}}
      BY <2>2, <3>1, <3>2 DEF Overdue
    <3>5. Contract!Offer(g)
      BY <3>2, <3>3, <3>4 DEF Contract!Offer
    <3> QED
      BY <3>5 DEF Contract!Next
  <2>3. CASE status[g] # "absent"
    BY <1>2, <1>3, <2>1, <2>3 DEF Insert
  <2> QED
    BY <2>2, <2>3
<1>4. ASSUME NEW c \in Caller, Decide(c)
      PROVE  [Contract!Next]_(Contract!vars)
  <2>1. PICK g \in Gate : g = call[c].gate
    BY <1>4 DEF Decide, Call
  <2>2. seen[c] = status[g] /\ call[c].decision \in {"approved", "denied"}
    BY <1>4, <2>1 DEF Decide, SnapshotHeld, Call
  <2>3. UNCHANGED <<now, expires, uses>>
    BY <1>4 DEF Decide
  <2>4. CASE UNCHANGED status
    BY <1>2, <2>3, <2>4
  <2>5. CASE /\ status[g] = "pending"
             /\ status' = [status EXCEPT ![g] = "approved"]
    <3>1. Grants[g] = "open" /\ Grants' = [Grants EXCEPT ![g] = "granted"]
      BY <2>5, GrantOfStatus DEF Grants
    <3>2. Overdue' = Overdue
      BY <2>3, <2>5 DEF Overdue
    <3>3. Contract!Grant(g)
      BY <2>3, <3>1, <3>2 DEF Contract!Grant
    <3> QED
      BY <3>3 DEF Contract!Next
  <2>6. CASE /\ status[g] = "pending"
             /\ \/ status' = [status EXCEPT ![g] = "expired"]
                \/ status' = [status EXCEPT ![g] = "denied"]
    <3>1. /\ \A h \in {g} : Grants[h] \in {"open", "granted"}
          /\ Grants' = [h \in Gate |-> IF h \in {g} THEN "closed" ELSE Grants[h]]
      BY <2>6, GrantOfStatus DEF Grants
    <3>2. Overdue' = Overdue
      BY <2>3, <2>6 DEF Overdue
    <3>3. Contract!Close({g})
      BY <2>3, <3>1, <3>2 DEF Contract!Close
    <3> QED
      BY <3>3 DEF Contract!Next
  <2> QED
    BY <1>4, <2>1, <2>2, <2>4, <2>5, <2>6 DEF Decide
<1>5. ASSUME NEW c \in Caller, Consume(c)
      PROVE  [Contract!Next]_(Contract!vars)
  <2>1. PICK g \in Gate : g = call[c].gate
    BY <1>5 DEF Consume, Call
  <2>2. seen[c] = status[g]
    BY <1>5, <2>1 DEF Consume, SnapshotHeld
  <2>3. UNCHANGED <<now, expires>>
    BY <1>5 DEF Consume
  <2>4. CASE UNCHANGED <<status, uses>>
    BY <1>2, <2>3, <2>4
  <2>5. CASE /\ status[g] = "approved" /\ ~(now >= expires[g])
             /\ status' = [status EXCEPT ![g] = "consumed"]
             /\ uses' = [uses EXCEPT ![g] = @ + 1]
    <3>1. Grants[g] = "granted" /\ Grants' = [Grants EXCEPT ![g] = "used"]
      BY <2>5, GrantOfStatus DEF Grants
    <3>2. Overdue' = Overdue /\ g \notin Overdue
      BY <2>3, <2>5 DEF Overdue
    <3>3. Contract!Use(g)
      BY <2>5, <3>1, <3>2 DEF Contract!Use
    <3> QED
      BY <3>3 DEF Contract!Next
  <2>6. CASE /\ status[g] \in Live
             /\ status' = [status EXCEPT ![g] = "expired"]
             /\ UNCHANGED uses
    <3>1. /\ \A h \in {g} : Grants[h] \in {"open", "granted"}
          /\ Grants' = [h \in Gate |-> IF h \in {g} THEN "closed" ELSE Grants[h]]
      BY <2>6, GrantOfStatus DEF Grants, Live
    <3>2. Overdue' = Overdue
      BY <2>3, <2>6 DEF Overdue, Live
    <3>3. Contract!Close({g})
      BY <2>6, <3>1, <3>2 DEF Contract!Close
    <3> QED
      BY <3>3 DEF Contract!Next
  <2> QED
    BY <1>5, <2>1, <2>2, <2>4, <2>5, <2>6 DEF Consume, Live
<1>6. ASSUME NEW S \in SUBSET Gate, NEW end \in {"expired", "cancelled"},
             \A g \in S : status[g] \in Live,
             status' = [g \in Gate |-> IF g \in S THEN end ELSE status[g]],
             UNCHANGED <<now, expires, uses>>
      PROVE  [Contract!Next]_(Contract!vars)
  <2>1. /\ \A h \in S : Grants[h] \in {"open", "granted"}
        /\ Grants' = [h \in Gate |-> IF h \in S THEN "closed" ELSE Grants[h]]
    BY <1>6, GrantOfStatus DEF Grants, Live
  <2>2. Overdue' = Overdue
    BY <1>6 DEF Overdue, Live
  <2>3. Contract!Close(S)
    BY <1>6, <2>1, <2>2 DEF Contract!Close
  <2> QED
    BY <2>3 DEF Contract!Next
<1>7. ASSUME NEW c \in Caller, Expire(c)
      PROVE  [Contract!Next]_(Contract!vars)
  <2> DEFINE S == {g \in Gate : status[g] \in Live /\ expires[g] <= call[c].at}
  <2>1. status' = [g \in Gate |-> IF g \in S THEN "expired" ELSE status[g]]
    BY <1>7 DEF Expire
  <2>2. UNCHANGED <<now, expires, uses>>
    BY <1>7 DEF Expire
  <2> QED
    BY <1>6, <2>1, <2>2
<1>8. ASSUME NEW r \in Run, CancelRun(r)
      PROVE  [Contract!Next]_(Contract!vars)
  <2> DEFINE S == {g \in Gate : Binding[g].run = r /\ status[g] \in Live}
  <2>1. status' = [g \in Gate |-> IF g \in S THEN "cancelled" ELSE status[g]]
    BY <1>8 DEF CancelRun
  <2>2. UNCHANGED <<now, expires, uses>>
    BY <1>8 DEF CancelRun
  <2> QED
    BY <1>6, <2>1, <2>2
<1> QED
  BY <1>1, <1>2, <1>3, <1>4, <1>5, <1>7, <1>8
     DEF Next, vars, AskCreate, AskDecide, AskConsume, Begin, AskExpire, Abandon

\* Hence the store implements the contract of human gates.
THEOREM StoreImplementsContract == Spec => ImplementsGateContract
<1>1. Spec => Contract!Init /\ [][Contract!Next]_(Contract!vars)
  BY ContractInit, ContractStep, GateInvariant, PTL DEF Spec
<1> QED
  BY <1>1 DEF ImplementsGateContract, Contract!Spec
=============================================================================
