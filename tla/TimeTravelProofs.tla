-------------------------- MODULE TimeTravelProofs --------------------------
(***************************************************************************)
(* Proofs about TimeTravel, for any runs, checkpoints and callers, any     *)
(* reducers, and any limits.                                               *)
(*                                                                         *)
(* The number of a run's forks is not bounded by what a request counted:   *)
(* the bound rests on the forks together with the requests that have       *)
(* counted and not yet inserted (RoomLeft).  The lineage of a fork rests   *)
(* on what its request knew of the checkpoint (RequestsKnow), and that on  *)
(* rows that never change.  That a fork's state is legal before it is      *)
(* redacted rests on every prefix of its reducers: the first one to leave  *)
(* an illegal state would have been applied to a legal one (AppliedIsGood);*)
(* that redaction keeps the rules of the fields rests on what a text is    *)
(* cut to (RedactedFits).                                                  *)
(***************************************************************************)
EXTENDS TimeTravel, FiniteSetTheorems, WellFoundedInduction, TLAPS

Saving(r) == {c \in Caller : request[c].at = "save" /\ request[c].run = r}

Tables ==
  /\ checkpoint = [k \in Checkpoint |-> checkpoint[k]]
  /\ fork = [f \in Fork |-> fork[f]]
  /\ request = [c \in Caller |-> request[c]]

\* What a request knows of its checkpoint and of the run that saved it.
Known(q) ==
  /\ q.at \in {"depth", "count", "save"} =>
       /\ q.from \in Saved /\ checkpoint[q.from].parent = q.run
       /\ q.run \in Root \cup Forks
  /\ q.at \in {"count", "save"} =>
       q.depth \in 1 .. MaxDepth /\ q.depth = Depth(q.run) + 1

RequestsKnow == \A c \in Caller : Known(request[c])

RoomLeft ==
  \A r \in Run : Cardinality(ForksOf(r)) + Cardinality(Saving(r))
                   <= MaxForks + Cardinality(Caller) - 1

TravelInv == Tables /\ TypeOK /\ RequestsKnow /\ LineageIsSound /\ RoomLeft

\* The invariant holds initially.
LEMMA InitInv == Init => TravelInv
<1> SUFFICES ASSUME Init PROVE TravelInv
  OBVIOUS
<1>1. Forks = {} /\ Saved = {}
  BY DEF Init, Forks, Saved
<1>2. \A c \in Caller : request[c].at = "idle"
  BY DEF Init, Idle
<1>3. Tables
  BY DEF Init, Tables
<1>4. TypeOK /\ RequestsKnow /\ LineageIsSound
  BY <1>1, <1>2 DEF TypeOK, RequestsKnow, Known, LineageIsSound
<1>5. RoomLeft
  <2> SUFFICES ASSUME NEW r \in Run
               PROVE  Cardinality(ForksOf(r)) + Cardinality(Saving(r))
                        <= MaxForks + Cardinality(Caller) - 1
    BY DEF RoomLeft
  <2>1. ForksOf(r) = {} /\ Saving(r) = {}
    BY <1>1, <1>2 DEF ForksOf, Saving
  <2>2. Cardinality(ForksOf(r)) = 0 /\ Cardinality(Saving(r)) = 0
    BY <2>1, FS_EmptySet
  <2>3. Cardinality(Caller) \in Nat
    BY ForkAssumption, FS_CardinalityType
  <2> QED
    BY <2>2, <2>3, ForkAssumption
<1> QED
  BY <1>3, <1>4, <1>5 DEF TravelInv

\* A row that is in its table stays there as it is.
LEMMA RowsStay ==
  ASSUME Tables, [Next]_vars
  PROVE  /\ Saved \subseteq Saved' /\ \A k \in Saved : checkpoint'[k] = checkpoint[k]
         /\ Forks \subseteq Forks' /\ \A f \in Forks : fork'[f] = fork[f]
<1> USE DEF Tables, Saved, Forks
<1>1. ASSUME NEW k \in Checkpoint, NEW r \in Run, NEW s \in States, SaveCheckpoint(k, r, s)
      PROVE  /\ \A j \in Saved : checkpoint'[j] = checkpoint[j]
             /\ UNCHANGED fork
  BY <1>1 DEF SaveCheckpoint
<1>2. ASSUME NEW c \in Caller, NEW f \in Fork, Insert(c, f)
      PROVE  /\ \A g \in Forks : fork'[g] = fork[g]
             /\ UNCHANGED checkpoint
  BY <1>2 DEF Insert
<1> QED
  BY <1>1, <1>2 DEF Next, Ask, ReadDepth, Count, Refuse, Restart, vars

\* Hence the depth of a run that is there stays what it is.
LEMMA DepthStays ==
  ASSUME Tables, [Next]_vars, NEW r \in Root \cup Forks
  PROVE  Depth(r)' = Depth(r)
<1>1. CASE r \in Forks
  BY <1>1, RowsStay DEF Depth
<1>2. CASE r \notin Forks
  <2>1. r \notin Forks'
    BY <1>2, ForkAssumption DEF Forks
  <2> QED
    BY <1>2, <2>1 DEF Depth
<1> QED
  BY <1>1, <1>2

\* What one step can do to a request.
LEMMA RequestMoves ==
  ASSUME Tables, [Next]_vars, NEW c \in Caller
  PROVE  \/ request'[c] = request[c] \/ request'[c] = Idle
         \/ \E k \in Saved, reducers \in Requested :
              request'[c] = [at |-> "depth", from |-> k, reducers |-> reducers,
                             run |-> checkpoint[k].parent]
         \/ ReadDepth(c) \/ Count(c)
<1> USE DEF Tables
<1>1. ASSUME NEW d \in Caller, NEW k \in Checkpoint, NEW rs \in Requested, Ask(d, k, rs)
      PROVE  \/ request'[c] = request[c]
             \/ \E j \in Saved, reducers \in Requested :
                  request'[c] = [at |-> "depth", from |-> j, reducers |-> reducers,
                                 run |-> checkpoint[j].parent]
  BY <1>1 DEF Ask, Become
<1>2. ASSUME NEW d \in Caller, ReadDepth(d) \/ Count(d)
      PROVE  request'[c] = request[c] \/ ReadDepth(c) \/ Count(c)
  BY <1>2 DEF ReadDepth, Count, Become
<1>3. ASSUME NEW d \in Caller, Refuse(d)
      PROVE  request'[c] = request[c] \/ request'[c] = Idle
  BY <1>3 DEF Refuse, Become
<1>4. ASSUME NEW d \in Caller, NEW f \in Fork, Insert(d, f)
      PROVE  request'[c] = request[c] \/ request'[c] = Idle
  BY <1>4 DEF Insert, Become
<1> QED
  BY <1>1, <1>2, <1>3, <1>4 DEF Next, SaveCheckpoint, Restart, vars

\* What a request knows stays true, since rows never change.
LEMMA KnownStays ==
  ASSUME Tables, [Next]_vars, NEW q, Known(q)
  PROVE  Known(q)'
BY RowsStay, DepthStays DEF Known

\* A depth is read from its run, and zero or more.
LEMMA DepthType ==
  ASSUME TypeOK, NEW r
  PROVE  Depth(r) \in Nat
BY ForkAssumption DEF TypeOK, Depth

\* Every step keeps what requests know.
LEMMA NextKnowledge ==
  ASSUME Tables, TypeOK, RequestsKnow, [Next]_vars
  PROVE  RequestsKnow'
<1> SUFFICES ASSUME NEW c \in Caller, NEW q, q = request'[c] PROVE Known(q)'
  BY DEF RequestsKnow, Known
<1> USE DEF RequestsKnow
<1>1. CASE request'[c] = request[c]
  BY <1>1, KnownStays
<1>2. CASE request'[c] = Idle
  BY <1>2 DEF Idle, Known
<1>3. ASSUME NEW k \in Saved, NEW rs \in Requested,
             q = [at |-> "depth", from |-> k, reducers |-> rs, run |-> checkpoint[k].parent]
      PROVE  Known(q)'
  <2>1. Known(q)
    BY <1>3 DEF Known, TypeOK
  <2> QED
    BY <2>1, KnownStays
<1>4. CASE ReadDepth(c)
  <2>1. /\ q = [at |-> "count", from |-> request[c].from, run |-> request[c].run,
                reducers |-> request[c].reducers, depth |-> Depth(request[c].run) + 1]
        /\ request[c].at = "depth" /\ Depth(request[c].run) + 1 <= MaxDepth
    BY <1>4 DEF ReadDepth, Become, Tables
  <2>2. Known(q)
    BY <2>1, DepthType, ForkAssumption DEF Known
  <2> QED
    BY <2>2, KnownStays
<1>5. CASE Count(c)
  <2>1. /\ q.at = "save" /\ q.from = request[c].from /\ q.run = request[c].run
        /\ q.depth = request[c].depth /\ request[c].at = "count"
    BY <1>5 DEF Count, Become, Tables
  <2>2. Known(q)
    BY <2>1 DEF Known
  <2> QED
    BY <2>2, KnownStays
<1> QED
  BY <1>1, <1>2, <1>3, <1>4, <1>5, RequestMoves

\* A fork is inserted by a request.
LEMMA NewForks ==
  ASSUME Tables, [Next]_vars, NEW f \in Forks', f \notin Forks
  PROVE  \E c \in Caller : Insert(c, f)
<1>1. fork'[f] # fork[f]
  BY DEF Forks
<1>2. ASSUME NEW c \in Caller, NEW g \in Fork, Insert(c, g) PROVE g = f
  BY <1>1, <1>2 DEF Insert, Tables
<1> QED
  BY <1>1, <1>2 DEF Next, SaveCheckpoint, Ask, ReadDepth, Count, Refuse, Restart, vars

\* A new fork is what its request knew; the others stay.
LEMMA NextLineage ==
  ASSUME Tables, RequestsKnow, LineageIsSound, [Next]_vars
  PROVE  LineageIsSound'
<1> SUFFICES ASSUME NEW f \in Forks', NEW row, row = fork'[f]
             PROVE  /\ row.from \in Saved' /\ checkpoint'[row.from].parent = row.parent
                    /\ row.parent \in Root \cup Forks'
                    /\ row.depth = Depth(row.parent)' + 1 /\ row.depth <= MaxDepth
  BY DEF LineageIsSound, Depth
<1>1. CASE f \in Forks
  BY <1>1, RowsStay, DepthStays DEF LineageIsSound
<1>2. CASE f \notin Forks
  <2>1. PICK c \in Caller : Insert(c, f)
    BY <1>2, NewForks
  <2>2. /\ row.from = request[c].from /\ row.parent = request[c].run
        /\ row.depth = request[c].depth /\ request[c].at = "save"
    BY <2>1 DEF Insert, Tables, Forks
  <2>3. Known(request[c])
    BY DEF RequestsKnow
  <2> QED
    BY <2>2, <2>3, RowsStay, DepthStays, ForkAssumption DEF Known
<1> QED
  BY <1>1, <1>2

\* The tables stay functions, and rows and requests keep their shape.
LEMMA NextShape ==
  ASSUME Tables, TypeOK, RequestsKnow, [Next]_vars
  PROVE  Tables' /\ TypeOK'
<1>1. Tables'
  BY DEF Tables, Next, SaveCheckpoint, Ask, ReadDepth, Count, Insert, Refuse, Restart,
         Become, vars
<1>2. \A k \in Saved' : checkpoint'[k].parent \in Root \cup Forks'
  <2> SUFFICES ASSUME NEW k \in Saved' PROVE checkpoint'[k].parent \in Root \cup Forks'
    OBVIOUS
  <2>1. CASE k \in Saved
    BY <2>1, RowsStay DEF TypeOK
  <2>2. CASE k \notin Saved
    <3>1. PICK r \in Run, s \in States : SaveCheckpoint(k, r, s)
      <4>1. checkpoint'[k] # checkpoint[k]
        BY <2>2 DEF Saved
      <4>2. ASSUME NEW j \in Checkpoint, NEW r \in Run, NEW s \in States,
                   SaveCheckpoint(j, r, s)
            PROVE  j = k
        BY <4>1, <4>2 DEF SaveCheckpoint, Tables
      <4> QED
        BY <4>1, <4>2 DEF Next, Ask, ReadDepth, Count, Insert, Refuse, Restart, vars
    <3> QED
      BY <3>1, RowsStay DEF SaveCheckpoint, Tables, Saved
  <2> QED
    BY <2>1, <2>2
<1>3. \A f \in Forks' : /\ fork'[f].parent \in Run /\ fork'[f].from \in Checkpoint
                        /\ fork'[f].depth \in 1 .. MaxDepth
  <2> SUFFICES ASSUME NEW f \in Forks', f \notin Forks
               PROVE  /\ fork'[f].parent \in Run /\ fork'[f].from \in Checkpoint
                      /\ fork'[f].depth \in 1 .. MaxDepth
    BY RowsStay DEF TypeOK
  <2>1. PICK c \in Caller : /\ fork'[f].parent = request[c].run
                            /\ fork'[f].from = request[c].from
                            /\ fork'[f].depth = request[c].depth
                            /\ request[c].at = "save"
    BY NewForks DEF Insert, Tables, Forks
  <2>2. Known(request[c])
    BY DEF RequestsKnow
  <2> QED
    BY <2>1, <2>2 DEF Known, Saved, Run, Forks
<1>4. \A c \in Caller : request'[c].at \in {"idle", "depth", "count", "save"}
  <2> SUFFICES ASSUME NEW c \in Caller
               PROVE  request'[c].at \in {"idle", "depth", "count", "save"}
    OBVIOUS
  <2>1. CASE ReadDepth(c) \/ Count(c)
    BY <2>1 DEF ReadDepth, Count, Become, Tables
  <2>2. CASE request'[c] = request[c] \/ request'[c] = Idle
    BY <2>2 DEF TypeOK, Idle
  <2>3. ASSUME NEW k, NEW rs,
               request'[c] = [at |-> "depth", from |-> k, reducers |-> rs,
                              run |-> checkpoint[k].parent]
        PROVE  request'[c].at = "depth"
    BY <2>3
  <2> QED
    BY <2>1, <2>2, <2>3, RequestMoves
<1> QED
  BY <1>1, <1>2, <1>3, <1>4 DEF TypeOK

\* Forks and requests about to insert are finite sets.
LEMMA Finite ==
  ASSUME NEW r
  PROVE  /\ IsFiniteSet(ForksOf(r)) /\ Cardinality(ForksOf(r)) \in Nat
         /\ IsFiniteSet(Saving(r)) /\ Cardinality(Saving(r)) \in Nat
         /\ Cardinality(Saving(r)) <= Cardinality(Caller)
         /\ Cardinality(Caller) \in Nat
<1>1. ForksOf(r) \in SUBSET Fork /\ Saving(r) \in SUBSET Caller
  BY DEF ForksOf, Forks, Saving
<1> QED
  BY <1>1, ForkAssumption, FS_Subset, FS_CardinalityType

\* A request that counts finds room for one fork; a request that inserts uses
\* the room it has kept.
LEMMA NextRoom ==
  ASSUME Tables, TypeOK, RequestsKnow, RoomLeft, [Next]_vars
  PROVE  RoomLeft'
<1> SUFFICES ASSUME NEW r \in Run
             PROVE  Cardinality(ForksOf(r))' + Cardinality(Saving(r))'
                      <= MaxForks + Cardinality(Caller) - 1
  BY DEF RoomLeft
<1>t. Tables'
  BY NextShape
<1>0. Cardinality(ForksOf(r)) + Cardinality(Saving(r)) <= MaxForks + Cardinality(Caller) - 1
  BY DEF RoomLeft
<1>1. ASSUME UNCHANGED fork, Saving(r)' \subseteq Saving(r)
      PROVE  Cardinality(ForksOf(r))' + Cardinality(Saving(r))'
               <= MaxForks + Cardinality(Caller) - 1
  <2>1. ForksOf(r)' = ForksOf(r)
    BY <1>1 DEF ForksOf, Forks
  <2>2. Cardinality(Saving(r)') <= Cardinality(Saving(r)) /\ Cardinality(Saving(r)') \in Nat
    BY <1>1, Finite, FS_Subset, FS_CardinalityType
  <2> QED
    BY <1>0, <2>1, <2>2, Finite, ForkAssumption
<1>2. ASSUME NEW c \in Caller, Count(c)
      PROVE  Cardinality(ForksOf(r))' + Cardinality(Saving(r))'
               <= MaxForks + Cardinality(Caller) - 1
  <2>1. CASE request[c].run = r
    <3>1. Cardinality(ForksOf(r)) < MaxForks /\ ForksOf(r)' = ForksOf(r)
      BY <1>2, <2>1 DEF Count, Room, ForksOf, Forks
    <3>2. Saving(r)' \in SUBSET Caller
      BY DEF Saving
    <3>3. Cardinality(Saving(r)') <= Cardinality(Caller) /\ Cardinality(Saving(r)') \in Nat
      BY <3>2, ForkAssumption, FS_Subset, FS_CardinalityType
    <3> QED
      BY <3>1, <3>3, Finite, ForkAssumption
  <2>2. CASE request[c].run # r
    <3>1. Saving(r)' \subseteq Saving(r) /\ UNCHANGED fork
      BY <1>2, <2>2 DEF Count, Become, Tables, Saving
    <3> QED
      BY <1>1, <3>1
  <2> QED
    BY <2>1, <2>2
<1>3. ASSUME NEW c \in Caller, NEW f \in Fork, Insert(c, f)
      PROVE  Cardinality(ForksOf(r))' + Cardinality(Saving(r))'
               <= MaxForks + Cardinality(Caller) - 1
  <2>1. CASE request[c].run = r
    <3>1. ForksOf(r)' = ForksOf(r) \cup {f} /\ f \notin ForksOf(r)
      BY <1>3, <2>1 DEF Insert, Tables, ForksOf, Forks, NoRow
    <3>2. Saving(r)' = Saving(r) \ {c} /\ c \in Saving(r)
      BY <1>3, <2>1 DEF Insert, Become, Tables, Saving, Idle
    <3>3. Cardinality(ForksOf(r)') = Cardinality(ForksOf(r)) + 1
      BY <3>1, Finite, FS_AddElement
    <3>4. Cardinality(Saving(r)') = Cardinality(Saving(r)) - 1
      BY <3>2, Finite, FS_RemoveElement
    <3> QED
      BY <1>0, <3>3, <3>4, Finite, ForkAssumption
  <2>2. CASE request[c].run # r
    <3>1. ForksOf(r)' = ForksOf(r)
      BY <1>3, <2>2 DEF Insert, Tables, ForksOf, Forks, NoRow
    <3>2. Saving(r)' = Saving(r)
      BY <1>3, <2>2 DEF Insert, Become, Tables, Saving, Idle
    <3> QED
      BY <1>0, <3>1, <3>2
  <2> QED
    BY <2>1, <2>2
<1>4. ASSUME NEW c \in Caller, NEW k \in Checkpoint, NEW rs \in Requested, Ask(c, k, rs)
      PROVE  UNCHANGED fork /\ Saving(r)' \subseteq Saving(r)
  BY <1>4 DEF Ask, Become, Tables, Saving
<1>5. ASSUME NEW c \in Caller, ReadDepth(c) \/ Refuse(c)
      PROVE  UNCHANGED fork /\ Saving(r)' \subseteq Saving(r)
  BY <1>5 DEF ReadDepth, Refuse, Become, Tables, Saving, Idle
<1>6. ASSUME Restart \/ UNCHANGED <<fork, request>>
      PROVE  UNCHANGED fork /\ Saving(r)' \subseteq Saving(r)
  BY <1>6 DEF Restart, Saving, Idle
<1> QED
  BY <1>1, <1>2, <1>3, <1>4, <1>5, <1>6 DEF Next, SaveCheckpoint, vars

\* The invariant holds in every reachable state.
THEOREM TravelInvariant == Spec => []TravelInv
<1>1. TravelInv /\ [Next]_vars => TravelInv'
  BY NextShape, NextKnowledge, NextLineage, NextRoom DEF TravelInv
<1> QED
  BY InitInv, <1>1, PTL DEF Spec

\* Rows and requests keep their shape.
THEOREM TypeCorrect == Spec => []TypeOK
<1>1. TravelInv => TypeOK
  BY DEF TravelInv
<1> QED
  BY <1>1, TravelInvariant, PTL

\* Racing requests exceed the number of forks per run by no more than one for
\* each other request (forker.py, fork).
THEOREM ForksNearlyBounded == Spec => []ForksAreNearlyBounded
<1>1. TravelInv => ForksAreNearlyBounded
  BY Finite, ForkAssumption DEF TravelInv, RoomLeft, ForksAreNearlyBounded
<1> QED
  BY <1>1, TravelInvariant, PTL

\* Every fork goes back to a root, and its depth says in how many steps
\* (service.py, fork).
THEOREM LineagesAreSound == Spec => []LineageIsSound
<1>1. TravelInv => LineageIsSound
  BY DEF TravelInv
<1> QED
  BY <1>1, TravelInvariant, PTL

-----------------------------------------------------------------------------
(* The states of forks                                                     *)

\* A set of numbers has a least one.
LEMMA LeastExists ==
  ASSUME NEW S \in SUBSET Nat, S # {}
  PROVE  \E x \in S : \A y \in S : x =< y
<1>1. PICK x \in S : \A y \in S : ~ (<<y, x>> \in OpToRel(<, Nat))
  BY NatLessThanWellFounded, WFMin
<1>2. \A y \in S : ~ (y < x)
  BY <1>1 DEF OpToRel
<1> QED
  BY <1>2

\* The state after one more reducer.
Further(t, r) == IF t = Rejected THEN Rejected ELSE Apply(t, r)

\* The states after each of the first n reducers.
StepByStep(h, s, reducers, n) ==
  h = [i \in 0 .. n |-> IF i = 0 THEN s ELSE Further(h[i - 1], reducers[i])]

\* They exist: a shortest list of reducers without them would have them.
LEMMA StatesExist ==
  ASSUME NEW s, NEW reducers, NEW n \in Nat
  PROVE  \E h : StepByStep(h, s, reducers, n)
<1> DEFINE S == {m \in Nat : ~ \E h : StepByStep(h, s, reducers, m)}
<1> SUFFICES ASSUME n \in S PROVE FALSE
  OBVIOUS
<1>1. S \in SUBSET Nat /\ S # {}
  OBVIOUS
<1>2. PICK m \in S : \A k \in S : m =< k
  BY <1>1, LeastExists
<1>3. m \in Nat /\ ~ \E h : StepByStep(h, s, reducers, m)
  BY <1>2
<1>4. m # 0
  <2> DEFINE h == [i \in 0 .. 0 |-> s]
  <2>1. h = [i \in 0 .. 0 |-> IF i = 0 THEN s ELSE Further(h[i - 1], reducers[i])]
    OBVIOUS
  <2>2. StepByStep(h, s, reducers, 0)
    BY <2>1 DEF StepByStep
  <2> QED
    BY <2>2, <1>3
<1>5. PICK k \in Nat : m = k + 1
  BY <1>3, <1>4
<1>6. k \notin S
  BY <1>2, <1>5
<1>7. PICK h : StepByStep(h, s, reducers, k)
  BY <1>6
<1> DEFINE last == Further(h[k], reducers[k + 1])
           l == [i \in 0 .. k + 1 |-> IF i = k + 1 THEN last ELSE h[i]]
<1>8. \A i \in 0 .. k : h[i] = IF i = 0 THEN s ELSE Further(h[i - 1], reducers[i])
  <2>1. h = [i \in 0 .. k |-> IF i = 0 THEN s ELSE Further(h[i - 1], reducers[i])]
    BY <1>7 DEF StepByStep
  <2> QED
    BY <2>1
<1>9. ASSUME NEW i \in 0 .. k + 1
      PROVE  l[i] = IF i = 0 THEN s ELSE Further(l[i - 1], reducers[i])
  <2>1. CASE i = k + 1
    <3>1. i - 1 = k /\ k \in 0 .. k + 1 /\ k # k + 1 /\ i # 0
      BY <2>1
    <3>2. l[k] = h[k]
      BY <3>1
    <3>3. l[i] = Further(h[k], reducers[i])
      BY <2>1
    <3> QED
      BY <3>1, <3>2, <3>3
  <2>2. CASE i # k + 1
    <3>1. i \in 0 .. k /\ l[i] = h[i]
      BY <2>2
    <3>2. i # 0 => i - 1 \in 0 .. k + 1 /\ i - 1 # k + 1
      BY <3>1
    <3>3. i # 0 => l[i - 1] = h[i - 1]
      BY <3>2
    <3>4. h[i] = IF i = 0 THEN s ELSE Further(h[i - 1], reducers[i])
      BY <3>1, <1>8
    <3> QED
      BY <3>1, <3>3, <3>4
  <2> QED
    BY <2>1, <2>2
<1>10. l = [i \in 0 .. k + 1 |-> IF i = 0 THEN s ELSE Further(l[i - 1], reducers[i])]
  <2>1. l = [i \in 0 .. k + 1 |-> l[i]]
    OBVIOUS
  <2> HIDE DEF l
  <2> QED
    BY <2>1, <1>9
<1> HIDE DEF l
<1>11. StepByStep(l, s, reducers, k + 1)
  BY <1>10 DEF StepByStep
<1> QED
  BY <1>11, <1>5, <1>3

GoodState(t) == t \in State /\ Legal(t)

\* What a reducer makes of a value is a value.
LEMMA ResultIsValue ==
  ASSUME NEW r \in Reducer, NEW v \in Value, Fits(r, v)
  PROVE  Result(r, v) \in Value
<1>0. /\ r.value \in Value /\ r.op \in Op
      /\ r.value.n \in Int /\ r.value.size \in Nat /\ r.value.change \in Int
      /\ v.n \in Int /\ v.size \in Nat /\ v.change \in Int
      /\ v.kind \in Kind /\ v.size + v.change >= 0 /\ r.value.size + r.value.change >= 0
  BY DEF Reducer, Value
<1>1. CASE r.op = "SET"
  BY <1>0, <1>1 DEF Result
<1>2. ASSUME NEW kind \in {"dicts", "list", "dict"}, NEW n \in Int
      PROVE  Joined(v, r.value, kind, n) \in Value
  <2> DEFINE w == Joined(v, r.value, kind, n)
  <2>1. /\ w.kind = kind /\ w.size = v.size + r.value.size
        /\ w.change = v.change + r.value.change
        /\ w \in [kind : Kind, n : Int, size : Nat, change : Int]
    BY <1>0 DEF Joined, Kind
  <2>2. w.size + w.change >= 0
    BY <1>0, <2>1
  <2> QED
    BY <2>1, <2>2 DEF Value
<1>3. CASE r.op = "APPEND_LIST"
  <2>1. v.kind \in {"dicts", "list"} /\ v.n + 1 \in Int
    BY <1>0, <1>3 DEF Fits
  <2>2. Result(r, v) = Joined(v, r.value, IF r.value.kind = "dict" THEN v.kind ELSE "list", v.n + 1)
    BY <1>3 DEF Result
  <2> QED
    BY <1>2, <2>1, <2>2
<1>4. CASE r.op = "MERGE_DICT"
  <2>1. Result(r, v) = Joined(v, r.value, "dict", v.n + r.value.n)
    BY <1>4 DEF Result
  <2> QED
    BY <1>0, <1>2, <2>1
<1>5. CASE r.op = "INCREMENT"
  <2> DEFINE w == [v EXCEPT !.n = @ + r.value.n]
  <2>1. Result(r, v) = w /\ v.kind = "int"
    BY <1>5 DEF Result, Fits
  <2>2. /\ w \in [kind : Kind, n : Int, size : Nat, change : Int]
        /\ w.kind = "int" /\ w.size = v.size /\ w.change = v.change
    BY <1>0, <2>1 DEF Value
  <2> QED
    BY <1>0, <2>1, <2>2 DEF Value
<1> QED
  BY <1>0, <1>1, <1>3, <1>4, <1>5 DEF Op

\* A reducer that is applied leaves the state legal, or rejects.
LEMMA FurtherIsGood ==
  ASSUME NEW t, NEW r \in Reducer, t = Rejected \/ GoodState(t)
  PROVE  Further(t, r) = Rejected \/ GoodState(Further(t, r))
<1> DEFINE candidate == [t EXCEPT ![r.target] = Result(r, t[r.target])]
<1> SUFFICES ASSUME t # Rejected, Further(t, r) # Rejected
             PROVE  GoodState(Further(t, r))
  BY DEF Further
<1>1. /\ t \in State /\ Further(t, r) = candidate
      /\ t[r.target] # Absent /\ Fits(r, t[r.target]) /\ Legal(candidate)
  BY DEF Further, Apply, GoodState
<1>2. r.target \in Target
  BY DEF Reducer
<1>3. t[r.target] \in Value
  BY <1>1, <1>2 DEF State
<1>4. Result(r, t[r.target]) \in Value
  BY <1>1, <1>3, ResultIsValue
<1>5. candidate \in State
  BY <1>1, <1>2, <1>4 DEF State
<1> QED
  BY <1>1, <1>5 DEF GoodState

\* A value without its secrets is a value, of the same kind and length.
LEMMA CleanIsValue ==
  ASSUME NEW v \in Value
  PROVE  /\ Clean(v) \in Value
         /\ Clean(v).kind = v.kind /\ Clean(v).n = v.n /\ Clean(v).size = v.size + v.change
<1>1. /\ v \in [kind : Kind, n : Int, size : Nat, change : Int]
      /\ v.size + v.change >= 0 /\ (v.kind = "text" => v.size + v.change =< MaxText)
  BY DEF Value
<1>2. Clean(v) = [kind |-> v.kind, n |-> v.n, size |-> v.size + v.change, change |-> 0]
  BY DEF Clean
<1>3. v.kind \in Kind /\ v.n \in Int /\ v.size + v.change \in Nat
  BY <1>1
<1>4. Clean(v) \in [kind : Kind, n : Int, size : Nat, change : Int]
  BY <1>2, <1>3
<1> QED
  BY <1>1, <1>2, <1>3, <1>4 DEF Value

\* What redaction makes of a legal state keeps the rules of the fields.
LEMMA RedactedFits ==
  ASSUME NEW s, GoodState(s)
  PROVE  FieldsFit(Redacted(s))
<1> DEFINE d == Redacted(s)
<1>1. s \in State /\ FieldsFit(s)
  BY DEF GoodState, Legal
<1>2. ASSUME NEW t \in Target, s[t] # Absent, t \notin SecretKey
      PROVE  /\ d[t].kind = s[t].kind /\ d[t].n = s[t].n
             /\ d[t].kind = "text" => d[t].size =< MaxText
  <2>1. s[t] \in Value /\ d[t] = Clean(s[t])
    BY <1>1, <1>2 DEF State, Redacted
  <2> QED
    BY <2>1, CleanIsValue DEF Value
<1>3. \A t \in Target : t \in SecretKey /\ s[t] # Absent => d[t] = Marker
  BY DEF Redacted
<1>4. \A t \in Target : s[t] = Absent => d[t] = Absent
  BY DEF Redacted
<1>5. /\ {"iteration", "messages"} \subseteq Target
      /\ "iteration" \notin SecretKey /\ "messages" \notin SecretKey
      /\ s["iteration"] # Absent /\ s["messages"] # Absent
  BY <1>1, StateAssumption DEF Target, FieldsFit, Absent
<1>6. /\ d["iteration"].kind = "int" /\ d["iteration"].n \in 0 .. MaxIterations
      /\ d["messages"].kind = "dicts"
  BY <1>1, <1>2, <1>5 DEF FieldsFit
<1> HIDE DEF d
<1>7. ASSUME NEW t \in Target
      PROVE  /\ d[t].kind \in {"dicts", "list"} => d[t].n =< MaxItems
             /\ d[t].kind = "dict" => d[t].n =< MaxEntries
             /\ d[t].kind = "text" => d[t].size =< MaxText
  <2>1. CASE s[t] = Absent
    BY <1>4, <2>1 DEF Absent
  <2>2. CASE s[t] # Absent /\ t \in SecretKey
    BY <1>3, <2>2, StateAssumption DEF Marker
  <2>3. CASE s[t] # Absent /\ t \notin SecretKey
    BY <1>1, <1>2, <2>3 DEF FieldsFit
  <2> QED
    BY <2>1, <2>2, <2>3
<1>8. FieldsFit(d)
  BY <1>6, <1>7 DEF FieldsFit
<1> QED
  BY <1>8 DEF d

\* What redaction makes of a state is a state.
LEMMA RedactedIsState ==
  ASSUME NEW s \in State
  PROVE  Redacted(s) \in State
<1> SUFFICES ASSUME NEW t \in Target PROVE Redacted(s)[t] \in Value \cup {Absent}
  BY DEF Redacted, State
<1>1. CASE s[t] = Absent
  BY <1>1 DEF Redacted
<1>2. CASE s[t] # Absent /\ t \in SecretKey
  <2>1. Marker \in Value
    BY StateAssumption DEF Marker, Value, Kind
  <2> QED
    BY <1>2, <2>1 DEF Redacted
<1>3. CASE s[t] # Absent /\ t \notin SecretKey
  BY <1>3, CleanIsValue DEF State, Redacted
<1> QED
  BY <1>1, <1>2, <1>3

\* So do all of them, one after the other.
LEMMA AppliedIsGood ==
  ASSUME NEW s, NEW reducers \in Seq(Reducer), GoodState(s)
  PROVE  Applied(s, reducers) = Rejected \/ GoodState(Applied(s, reducers))
<1> DEFINE n == Len(reducers)
           after == CHOOSE h : StepByStep(h, s, reducers, n)
<1>0. n \in Nat /\ \A i \in 1 .. n : reducers[i] \in Reducer
  OBVIOUS
<1>1. StepByStep(after, s, reducers, n)
  BY <1>0, StatesExist
<1>2. Applied(s, reducers) = after[n]
  BY DEF Applied, StepByStep, Further
<1> HIDE DEF after, n
<1>3. \A i \in 0 .. n : after[i] = IF i = 0 THEN s ELSE Further(after[i - 1], reducers[i])
  <2>1. after = [i \in 0 .. n |-> IF i = 0 THEN s ELSE Further(after[i - 1], reducers[i])]
    BY <1>1 DEF StepByStep
  <2> QED
    BY <2>1
<1> DEFINE Good(t) == t = Rejected \/ GoodState(t)
           S == {i \in 0 .. n : ~Good(after[i])}
<1>4. S = {}
  <2> SUFFICES ASSUME S # {} PROVE FALSE
    OBVIOUS
  <2>1. S \in SUBSET Nat
    OBVIOUS
  <2>2. PICK m \in S : \A k \in S : m =< k
    BY <2>1, LeastExists
  <2>3. m \in 0 .. n /\ ~Good(after[m])
    BY <2>2
  <2>4. m # 0
    <3>1. after[0] = s \/ m # 0
      BY <2>3, <1>3
    <3> QED
      BY <3>1, <2>3
  <2>5. m \in Nat /\ m - 1 \in 0 .. n /\ ~(m =< m - 1)
    <3>1. n \in Nat /\ m \in 0 .. n
      BY <1>0, <2>3
    <3> HIDE DEF Good, S
    <3> QED
      BY <3>1, <2>4
  <2>6. Good(after[m - 1])
    BY <2>2, <2>5
  <2>7. after[m] = Further(after[m - 1], reducers[m])
    BY <1>3, <2>3, <2>4
  <2>8. reducers[m] \in Reducer
    <3>1. m \in 1 .. n
      BY <1>0, <2>3, <2>4
    <3> QED
      BY <1>0, <3>1
  <2> QED
    BY <2>3, <2>6, <2>7, <2>8, FurtherIsGood
<1>5. n \in 0 .. n
  BY <1>0
<1>6. Good(after[n])
  BY <1>4, <1>5
<1> QED
  BY <1>2, <1>6

\* What saved rows and requests carry: legal states, what redaction makes of
\* them, and reducers that a client asked for.
FromLegal(row) == GoodState(row.before) /\ row.state = Redacted(row.before)

StatesLegal ==
  /\ \A k \in Saved : GoodState(checkpoint[k].state)
  /\ \A c \in Caller :
       /\ request[c].at \in {"depth", "count"} => request[c].reducers \in Requested
       /\ request[c].at = "save" => FromLegal(request[c])
  /\ \A f \in Forks : FromLegal(fork[f])

\* Nothing is saved at first.
LEMMA InitLegal == Init => StatesLegal
<1> SUFFICES ASSUME Init PROVE StatesLegal
  OBVIOUS
<1>1. Forks = {} /\ Saved = {}
  BY DEF Init, Forks, Saved
<1>2. \A c \in Caller : request[c].at = "idle"
  BY DEF Init, Idle
<1> QED
  BY <1>1, <1>2 DEF StatesLegal

\* Every step keeps states legal.
LEMMA NextLegal ==
  ASSUME TravelInv, StatesLegal, [Next]_vars
  PROVE  StatesLegal'
<1>1. Tables
  BY DEF TravelInv
<1>2. ASSUME NEW k \in Saved' PROVE GoodState(checkpoint'[k].state)
  <2>1. CASE k \in Saved
    BY <1>1, <2>1, RowsStay DEF StatesLegal
  <2>2. CASE k \notin Saved
    <3>1. k \in Checkpoint /\ checkpoint[k] = NoRow /\ checkpoint'[k] # NoRow
      BY <2>2 DEF Saved
    <3>2. PICK j \in Checkpoint, r \in Run, s \in States : SaveCheckpoint(j, r, s)
      BY <3>1 DEF Next, vars, Ask, ReadDepth, Count, Refuse, Insert, Restart
    <3>3. checkpoint'[k] = [parent |-> r, state |-> Redacted(s)] /\ Legal(Redacted(s))
      BY <1>1, <3>1, <3>2 DEF SaveCheckpoint, Tables
    <3>4. Redacted(s) \in State
      BY ForkAssumption, RedactedIsState
    <3> QED
      BY <3>3, <3>4 DEF GoodState
  <2> QED
    BY <2>1, <2>2
<1>3. ASSUME NEW c \in Caller
      PROVE  /\ request'[c].at \in {"depth", "count"} => request'[c].reducers \in Requested
             /\ request'[c].at = "save" => FromLegal(request'[c])
  <2>1. CASE request'[c] = request[c]
    BY <2>1 DEF StatesLegal
  <2>2. CASE request'[c] = Idle
    BY <2>2 DEF Idle
  <2>3. ASSUME NEW k \in Saved, NEW reducers \in Requested,
               request'[c] = [at |-> "depth", from |-> k, reducers |-> reducers,
                              run |-> checkpoint[k].parent]
        PROVE  request'[c].at = "depth" /\ request'[c].reducers \in Requested
    BY <2>3
  <2>4. CASE ReadDepth(c)
    <3>1. request[c].at = "depth" /\ request'[c].at = "count"
          /\ request'[c].reducers = request[c].reducers
      BY <1>1, <2>4 DEF ReadDepth, Become, Tables
    <3> QED
      BY <3>1 DEF StatesLegal
  <2>5. CASE Count(c)
    <3> DEFINE q == request[c]
               state == Applied(checkpoint[q.from].state, q.reducers)
    <3>1. q.at = "count" /\ state # Rejected /\ request'[c].at = "save"
          /\ request'[c].state = Redacted(state) /\ request'[c].before = state
      BY <1>1, <2>5 DEF Count, Become, Tables
    <3>2. q.reducers \in Requested /\ q.from \in Saved
      BY <3>1 DEF StatesLegal, TravelInv, RequestsKnow, Known
    <3>3. q.reducers \in Seq(Reducer) /\ GoodState(checkpoint[q.from].state)
      BY <3>2, ForkAssumption DEF StatesLegal
    <3>4. GoodState(state)
      BY <3>1, <3>3, AppliedIsGood
    <3> QED
      BY <3>1, <3>4 DEF FromLegal
  <2> QED
    BY <1>1, <2>1, <2>2, <2>3, <2>4, <2>5, RequestMoves
<1>4. ASSUME NEW f \in Forks' PROVE FromLegal(fork'[f])
  <2>1. CASE f \in Forks
    BY <1>1, <2>1, RowsStay DEF StatesLegal
  <2>2. CASE f \notin Forks
    <3>1. f \in Fork /\ fork[f] = NoRow /\ fork'[f] # NoRow
      BY <2>2 DEF Forks
    <3>2. PICK c \in Caller, e \in Fork : Insert(c, e)
      BY <3>1 DEF Next, vars, Ask, ReadDepth, Count, Refuse, SaveCheckpoint, Restart
    <3>3. request[c].at = "save" /\ fork'[f].state = request[c].state
          /\ fork'[f].before = request[c].before
      BY <1>1, <3>1, <3>2 DEF Insert, Tables
    <3> QED
      BY <3>3 DEF StatesLegal, FromLegal
  <2> QED
    BY <2>1, <2>2
<1> QED
  BY <1>2, <1>3, <1>4 DEF StatesLegal

\* No sequence of reducers, however long, and no chain of forks and checkpoints
\* brings a fork into a state that is not what redaction makes of a legal one, or
\* that breaks a rule of the fields; and none brings a checkpoint into a state
\* that is not legal (state.py, apply_reducer; forker.py, fork).
THEOREM ForkStatesStayLegal == Spec => []ForkStatesAreLegal
<1>1. TravelInv /\ TravelInv' /\ StatesLegal /\ [Next]_vars => StatesLegal'
  BY NextLegal
<1>2. StatesLegal => ForkStatesAreLegal
  BY RedactedFits DEF StatesLegal, FromLegal, GoodState, ForkStatesAreLegal
<1> QED
  BY <1>1, <1>2, InitLegal, TravelInvariant, PTL DEF Spec
=============================================================================
