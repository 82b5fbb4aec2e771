--------------------------- MODULE RefinerProofs ----------------------------
(***************************************************************************)
(* Proofs about Refiner, for any suggestions, files, texts and gates.      *)
(*                                                                         *)
(* FileIsAccountedFor is not inductive: that a text which is put back is   *)
(* accounted for rests on what the call read before it wrote, and on the   *)
(* lock, which keeps an applied suggestion applied while another call      *)
(* works.  RefinerInv adds what a call that has written knows.             *)
(***************************************************************************)
EXTENDS Refiner, TLAPS

\* A gate answers success as often as it is used.
GatesServeOnce == \A g \in Gate : served[g] = IF grant[g] = "used" THEN 1 ELSE 0

\* The gate of a call that goes on to write is used.
GateIsUsed == work.at = "gated" => grant[work.gate] = "used"

\* Of a call that has replaced the file: the text it read was accounted for,
\* the text it wrote is still there, and an applied suggestion still applied.
WriterKnows ==
  work.at = "written" =>
    LET p == PathOf[work.s] IN
    /\ backup[work.s] = Old[work.s]
    /\ work.from = "applied" => status[work.s] = "applied"
    /\ p \notin edited \cup struck =>
         /\ work.read \in Accounted(p)
         /\ file[p] = IF work.from = "pending" THEN New[work.s] ELSE Old[work.s]

\* A rollback that has not written yet is of an applied suggestion.
UndoOfApplied == work.at = "undo" => status[work.s] = "applied"

\* The suggestion of an apply that has not written yet is not applied.
ApplyOfUnapplied ==
  work.at \in {"gate", "gated"} => status[work.s] \in {"pending", "rejected"}

RefinerInv ==
  /\ TypeOK
  /\ GatesServeOnce
  /\ GateIsUsed
  /\ ApplyOfUnapplied
  /\ UndoOfApplied
  /\ WriterKnows
  /\ FileIsAccountedFor
  /\ AppliedHasBackup
  /\ PatchedOnOwnApproval

\* The initial rows, files and gates have the right shape.
LEMMA InitType == Init => TypeOK
BY PatchAssumption DEF Init, TypeOK, Idle, Work, Gates!Init, Gates!Stage

\* What the moves of the gates keep: their shape, their counts, and a used gate.
LEMMA GatesKept ==
  ASSUME TypeOK, GatesServeOnce, GateMoves
  PROVE  /\ grant' \in [Gate -> Gates!Stage] /\ over' \subseteq Gate
         /\ served' \in [Gate -> Nat]
         /\ GatesServeOnce'
         /\ \A g \in Gate : grant[g] = "used" => grant'[g] = "used"
         /\ UNCHANGED <<file, status, expired, backup, work, history>>
<1> USE DEF TypeOK, GatesServeOnce
<1>1. ASSUME NEW g \in Gate, Gates!Offer(g)
      PROVE  /\ grant' \in [Gate -> Gates!Stage] /\ over' \subseteq Gate
             /\ served' \in [Gate -> Nat] /\ GatesServeOnce'
             /\ \A h \in Gate : grant[h] = "used" => grant'[h] = "used"
  BY <1>1 DEF Gates!Offer, Gates!Stage
<1>2. ASSUME NEW g \in Gate, Gates!Grant(g)
      PROVE  /\ grant' \in [Gate -> Gates!Stage] /\ over' \subseteq Gate
             /\ served' \in [Gate -> Nat] /\ GatesServeOnce'
             /\ \A h \in Gate : grant[h] = "used" => grant'[h] = "used"
  BY <1>2 DEF Gates!Grant, Gates!Stage
<1>3. ASSUME NEW S \in SUBSET Gate, Gates!Close(S)
      PROVE  /\ grant' \in [Gate -> Gates!Stage] /\ over' \subseteq Gate
             /\ served' \in [Gate -> Nat] /\ GatesServeOnce'
             /\ \A h \in Gate : grant[h] = "used" => grant'[h] = "used"
  BY <1>3 DEF Gates!Close, Gates!Stage
<1>4. ASSUME Gates!Pass
      PROVE  /\ grant' \in [Gate -> Gates!Stage] /\ over' \subseteq Gate
             /\ served' \in [Gate -> Nat] /\ GatesServeOnce'
             /\ \A h \in Gate : grant[h] = "used" => grant'[h] = "used"
  BY <1>4 DEF Gates!Pass, Gates!Stage
<1> QED
  BY <1>1, <1>2, <1>3, <1>4 DEF GateMoves, history

\* Every step keeps rows, files, gates and the call at work in shape.
LEMMA NextType == TypeOK /\ GatesServeOnce /\ [Next]_vars => TypeOK'
<1> SUFFICES ASSUME TypeOK, GatesServeOnce, [Next]_vars PROVE TypeOK'
  OBVIOUS
<1> USE PatchAssumption DEF TypeOK, gates, history
<1>1. ASSUME NEW s \in Suggestion, Propose(s) PROVE TypeOK'
  BY <1>1 DEF Propose, Status, Work
<1>2. ASSUME NEW s \in Suggestion, Reject(s) PROVE TypeOK'
  BY <1>2 DEF Reject, Status, Work
<1>3. ASSUME NEW s \in Suggestion, Expire(s) PROVE TypeOK'
  BY <1>3 DEF Expire, Work
<1>4. ASSUME NEW p \in Path, NEW text \in Text, Edit(p, text) PROVE TypeOK'
  BY <1>4 DEF Edit, Work
<1>5. CASE GateMoves
  BY <1>5, GatesKept
<1>6. ASSUME NEW s \in Suggestion, NEW g \in Gate, StartApply(s, g) PROVE TypeOK'
  BY <1>6 DEF StartApply, Work
<1>7. ASSUME NEW s \in Suggestion, NEW text \in Text, StartRollback(s, text)
      PROVE  TypeOK'
  BY <1>7 DEF StartRollback, Work
<1>8. CASE UseGate
  BY <1>8 DEF UseGate, Work, Gates!Use, Gates!Stage
<1>9. CASE Patch
  BY <1>9 DEF Patch, Work
<1>10. CASE PatchFails
  BY <1>10 DEF PatchFails, Work, Idle
<1>11. CASE Undo
  BY <1>11 DEF Undo, Work
<1>12. CASE Commit
  BY <1>12 DEF Commit, Work, Idle, Follower, Status
<1>13. CASE PutBack
  BY <1>13 DEF PutBack, Work, Idle
<1>14. CASE Refuse
  BY <1>14 DEF Refuse, Work, Idle
<1>15. CASE Strike
  BY <1>15 DEF Strike, Work, Idle
<1>16. CASE UNCHANGED vars
  BY <1>16 DEF vars
<1> QED
  BY <1>1, <1>2, <1>3, <1>4, <1>5, <1>6, <1>7, <1>8, <1>9, <1>10, <1>11, <1>12,
     <1>13, <1>14, <1>15, <1>16 DEF Next

\* Every step keeps the counts of the gates, and the gate of the call at work
\* used once it has been.
LEMMA NextGates ==
  TypeOK /\ GatesServeOnce /\ GateIsUsed /\ [Next]_vars => GatesServeOnce' /\ GateIsUsed'
<1> SUFFICES ASSUME TypeOK, GatesServeOnce, GateIsUsed, [Next]_vars
             PROVE  GatesServeOnce' /\ GateIsUsed'
  OBVIOUS
<1> USE DEF GateIsUsed
<1>1. CASE GateMoves
  BY <1>1, GatesKept DEF TypeOK, Work
<1>2. CASE UseGate
  <2>1. work.gate \in Gate /\ work'.gate = work.gate
    BY <1>2 DEF UseGate, TypeOK, Work
  <2> QED
    BY <1>2, <2>1 DEF UseGate, Gates!Use, TypeOK, GatesServeOnce
<1>3. ASSUME UNCHANGED gates, UNCHANGED work \/ work'.at # "gated"
      PROVE  GatesServeOnce' /\ GateIsUsed'
  BY <1>3 DEF GatesServeOnce, gates
<1>4. CASE UNCHANGED vars
  BY <1>3, <1>4 DEF vars
<1>5. CASE Next /\ ~GateMoves /\ ~UseGate
  <2>1. UNCHANGED gates
    BY <1>5 DEF Next, Propose, Reject, Expire, Edit, StartApply, StartRollback,
                Patch, PatchFails, Undo, Commit, PutBack, Refuse, Strike
  <2>2. UNCHANGED work \/ work'.at # "gated"
    BY <1>5 DEF Next, Propose, Reject, Expire, Edit, StartApply, StartRollback,
                Patch, PatchFails, Undo, Commit, PutBack, Refuse, Strike, Idle
  <2> QED
    BY <1>3, <2>1, <2>2
<1> QED
  BY <1>1, <1>2, <1>4, <1>5

\* Only the call that holds the lock moves an applied suggestion on, and none
\* moves one that was rejected or rolled back.
LEMMA StatusMoves ==
  ASSUME TypeOK, [Next]_vars, NEW s \in Suggestion, status'[s] # status[s]
  PROVE  \/ status[s] = "absent" /\ status'[s] = "pending" /\ UNCHANGED work
         \/ status[s] = "pending" /\ status'[s] = "rejected" /\ UNCHANGED work
         \/ Commit /\ work.s = s /\ status[s] = work.from
              /\ status'[s] = Follower(work.from) /\ work' = Idle
<1>1. ASSUME NEW t \in Suggestion, Propose(t)
      PROVE  status[s] = "absent" /\ status'[s] = "pending" /\ UNCHANGED work
  BY <1>1 DEF Propose, TypeOK
<1>2. ASSUME NEW t \in Suggestion, Reject(t)
      PROVE  status[s] = "pending" /\ status'[s] = "rejected" /\ UNCHANGED work
  BY <1>2 DEF Reject, TypeOK
<1>3. CASE Commit
  BY <1>3 DEF Commit, TypeOK
<1>4. CASE UNCHANGED vars
  BY <1>4 DEF vars
<1> QED
  BY <1>1, <1>2, <1>3, <1>4
  DEF Next, Expire, Edit, GateMoves, StartApply, StartRollback, UseGate, Patch,
      PatchFails, Undo, PutBack, Refuse, Strike

\* What was accounted for stays so while applied and rolled-back suggestions do.
LEMMA AccountedKept ==
  ASSUME \A s \in Suggestion : status[s] \in {"applied", "rolled_back"} =>
           status'[s] = status[s],
         NEW p \in Path
  PROVE  Accounted(p) \subseteq Accounted(p)'
BY DEF Accounted

\* No step but a commit makes a status of the two that account for a text
\* change.
LEMMA OthersKeepAccounts ==
  ASSUME TypeOK, [Next]_vars, ~Commit, NEW p \in Path
  PROVE  Accounted(p) \subseteq Accounted(p)'
BY StatusMoves, AccountedKept

\* A rollback at work is one of an applied suggestion until it commits.
LEMMA NextUndo ==
  ASSUME TypeOK, UndoOfApplied, [Next]_vars PROVE UndoOfApplied'
<1>1. CASE UNCHANGED work
  <2> SUFFICES ASSUME work.at = "undo", status'[work.s] # status[work.s]
               PROVE  FALSE
    BY <1>1 DEF UndoOfApplied
  <2>1. work.s \in Suggestion /\ status[work.s] = "applied"
    BY DEF UndoOfApplied, TypeOK, Work
  <2>2. ~Commit
    BY DEF Commit
  <2> QED
    BY <2>1, <2>2, StatusMoves
<1>2. ASSUME NEW s \in Suggestion, NEW text \in Text, StartRollback(s, text)
      PROVE  UndoOfApplied'
  BY <1>2 DEF StartRollback, UndoOfApplied
<1>3. CASE work'.at # "undo"
  BY <1>3 DEF UndoOfApplied
<1> QED
  BY <1>1, <1>2, <1>3
  DEF Next, vars, Propose, Reject, Expire, Edit, GateMoves, StartApply, UseGate,
      Patch, PatchFails, Undo, Commit, PutBack, Refuse, Strike, Idle

\* An apply at work is one of a suggestion that is not applied until it commits.
LEMMA NextApply ==
  ASSUME TypeOK, ApplyOfUnapplied, [Next]_vars PROVE ApplyOfUnapplied'
<1>1. CASE UNCHANGED work
  <2> SUFFICES ASSUME work.at \in {"gate", "gated"}, status'[work.s] # status[work.s]
               PROVE  status'[work.s] = "rejected"
    BY <1>1 DEF ApplyOfUnapplied
  <2>1. work.s \in Suggestion /\ status[work.s] \in {"pending", "rejected"}
    BY DEF ApplyOfUnapplied, TypeOK, Work
  <2>2. ~Commit
    BY DEF Commit
  <2> QED
    BY <2>1, <2>2, StatusMoves
<1>2. ASSUME NEW s \in Suggestion, NEW g \in Gate, StartApply(s, g)
      PROVE  ApplyOfUnapplied'
  BY <1>2 DEF StartApply, ApplyOfUnapplied
<1>3. CASE UseGate
  BY <1>3 DEF UseGate, ApplyOfUnapplied
<1>4. CASE work'.at \notin {"gate", "gated"}
  BY <1>4 DEF ApplyOfUnapplied
<1> QED
  BY <1>1, <1>2, <1>3, <1>4
  DEF Next, vars, Propose, Reject, Expire, Edit, GateMoves, StartRollback, Patch,
      PatchFails, Undo, Commit, PutBack, Refuse, Strike, Idle

\* An applied suggestion keeps the backup of the text it replaced.
LEMMA NextBackup ==
  ASSUME TypeOK, ApplyOfUnapplied, WriterKnows, AppliedHasBackup, [Next]_vars
  PROVE  AppliedHasBackup'
<1> SUFFICES ASSUME NEW s \in Suggestion, status'[s] = "applied"
             PROVE  backup'[s] = Old[s]
  BY DEF AppliedHasBackup
<1>1. CASE status[s] = "applied"
  <2>1. backup[s] = Old[s]
    BY <1>1 DEF AppliedHasBackup
  <2>2. CASE Patch
    <3>1. work.s # s /\ work.s \in Suggestion
      BY <1>1, <2>2 DEF Patch, ApplyOfUnapplied, TypeOK, Work
    <3> QED
      BY <2>1, <2>2, <3>1 DEF Patch, TypeOK
  <2>3. CASE PatchFails
    <3>1. work.s # s /\ work.s \in Suggestion
      BY <1>1, <2>3 DEF PatchFails, ApplyOfUnapplied, TypeOK, Work
    <3> QED
      BY <2>1, <2>3, <3>1 DEF PatchFails, TypeOK
  <2> QED
    BY <2>1, <2>2, <2>3
    DEF Next, vars, Propose, Reject, Expire, Edit, GateMoves, StartApply, UseGate,
        StartRollback, Undo, Commit, PutBack, Refuse, Strike
<1>2. CASE status[s] # "applied"
  <2>1. Commit /\ work.s = s
    BY <1>2, StatusMoves
  <2> QED
    BY <2>1 DEF Commit, WriterKnows
<1> QED
  BY <1>1, <1>2

\* A file nobody else touches is accounted for, and the call that has written
\* to it knows how, after every step.
LEMMA NextAccounts ==
  ASSUME TypeOK, UndoOfApplied, WriterKnows, FileIsAccountedFor, AppliedHasBackup,
         [Next]_vars
  PROVE  WriterKnows' /\ FileIsAccountedFor'
<1> USE DEF WriterKnows, FileIsAccountedFor, Changing
<1>1. ASSUME UNCHANGED <<file, work, backup, edited, struck>>, ~Commit
      PROVE  WriterKnows' /\ FileIsAccountedFor'
  <2>1. \A p \in Path : Accounted(p) \subseteq Accounted(p)'
    BY <1>1, OthersKeepAccounts
  <2>2. work.at = "written" => work.s \in Suggestion /\ PathOf[work.s] \in Path
    BY PatchAssumption DEF TypeOK, Work
  <2>3. work.at = "written" /\ status[work.s] = "applied" => status'[work.s] = "applied"
    BY <1>1, <2>2, StatusMoves
  <2> QED
    BY <1>1, <2>1, <2>2, <2>3
<1>2. ASSUME NEW p \in Path, NEW text \in Text, Edit(p, text)
      PROVE  WriterKnows' /\ FileIsAccountedFor'
  <2>1. \A q \in Path : Accounted(q)' = Accounted(q)
    BY <1>2 DEF Edit, Accounted
  <2>2. work.at = "written" => PathOf[work.s] \in Path
    BY PatchAssumption DEF TypeOK, Work
  <2> QED
    BY <1>2, <2>1, <2>2 DEF Edit, TypeOK
<1>3. CASE Patch
  <2> DEFINE s == work.s
             p == PathOf[s]
  <2>1. s \in Suggestion /\ p \in Path /\ work.at = "gated"
    BY <1>3, PatchAssumption DEF Patch, TypeOK, Work
  <2>2. \A q \in Path : Accounted(q)' = Accounted(q)
    BY <1>3 DEF Patch, Accounted
  <2>3. /\ file[p] = Old[s] /\ backup'[s] = Old[s] /\ file'[p] = New[s]
        /\ \A q \in Path \ {p} : file'[q] = file[q]
        /\ work' = [at |-> "written", s |-> s, from |-> "pending", read |-> file[p]]
        /\ UNCHANGED <<status, edited, struck>>
    BY <1>3, <2>1 DEF Patch, MayPatch, TypeOK, history
  <2> QED
    BY <2>1, <2>2, <2>3
<1>4. CASE Undo
  <2> DEFINE s == work.s
             p == PathOf[s]
  <2>1. s \in Suggestion /\ p \in Path /\ work.at = "undo"
    BY <1>4, PatchAssumption DEF Undo, TypeOK, Work
  <2>2. \A q \in Path : Accounted(q)' = Accounted(q)
    BY <1>4 DEF Undo, Accounted
  <2>3. status[s] = "applied" /\ backup[s] = Old[s]
    BY <2>1 DEF UndoOfApplied, AppliedHasBackup
  <2>4. /\ file'[p] = Old[s]
        /\ \A q \in Path \ {p} : file'[q] = file[q]
        /\ work' = [at |-> "written", s |-> s, from |-> "applied", read |-> file[p]]
        /\ UNCHANGED <<status, backup, edited, struck>>
    BY <1>4, <2>1, <2>3 DEF Undo, TypeOK, history
  <2> QED
    BY <2>1, <2>2, <2>3, <2>4
<1>5. CASE Commit
  <2> DEFINE s == work.s
             p == PathOf[s]
  <2>1. /\ s \in Suggestion /\ p \in Path /\ work.at = "written"
        /\ work.from \in {"pending", "applied"}
    BY <1>5, PatchAssumption DEF Commit, TypeOK, Work
  <2>2. /\ status[s] = work.from /\ status'[s] = Follower(work.from)
        /\ \A t \in Suggestion \ {s} : status'[t] = status[t]
        /\ UNCHANGED <<file, edited, struck>> /\ work'.at = "idle"
    BY <1>5, <2>1 DEF Commit, TypeOK, Idle, history
  <2>3. ASSUME NEW q \in Path \ (edited \cup struck) PROVE file[q] \in Accounted(q)'
    <3>1. CASE q = p
      BY <2>1, <2>2, <2>3, <3>1 DEF Follower, Accounted
    <3>2. CASE q # p
      <4>1. file[q] \in Accounted(q)
        BY <2>1, <2>3, <3>2
      <4> QED
        BY <2>1, <2>2, <3>2, <4>1 DEF Accounted
    <3> QED
      BY <3>1, <3>2
  <2> QED
    BY <2>2, <2>3
<1>6. CASE PutBack
  <2> DEFINE p == PathOf[work.s]
  <2>1. p \in Path /\ work.at = "written"
    BY <1>6, PatchAssumption DEF PutBack, TypeOK, Work
  <2>2. \A q \in Path : Accounted(q)' = Accounted(q)
    BY <1>6 DEF PutBack, Accounted
  <2>3. /\ file'[p] = work.read
        /\ \A q \in Path \ {p} : file'[q] = file[q]
        /\ work'.at = "idle"
        /\ UNCHANGED <<edited, struck>>
    BY <1>6, <2>1 DEF PutBack, TypeOK, Idle, history
  <2> QED
    BY <2>1, <2>2, <2>3
<1>7. CASE Strike
  <2>1. \A q \in Path : Accounted(q)' = Accounted(q)
    BY <1>7 DEF Strike, Accounted
  <2> QED
    BY <1>7, <2>1, PatchAssumption DEF Strike, TypeOK, Work, Idle
<1>8. ASSUME UNCHANGED <<file, status, edited, struck>>,
             work.at # "written", work'.at # "written"
      PROVE  WriterKnows' /\ FileIsAccountedFor'
  <2>1. \A q \in Path : Accounted(q)' = Accounted(q)
    BY <1>8 DEF Accounted
  <2> QED
    BY <1>8, <2>1
<1>9. CASE \/ \E s \in Suggestion, g \in Gate : StartApply(s, g)
           \/ \E s \in Suggestion, text \in Text : StartRollback(s, text)
           \/ UseGate \/ PatchFails \/ Refuse
  BY <1>8, <1>9 DEF StartApply, StartRollback, UseGate, PatchFails, Refuse, Idle,
                    history
<1>10. CASE \/ \E s \in Suggestion : Propose(s) \/ Reject(s) \/ Expire(s)
            \/ GateMoves \/ UNCHANGED vars
  <2>1. UNCHANGED <<file, work, backup, edited, struck>>
    BY <1>10 DEF Propose, Reject, Expire, GateMoves, vars, history
  <2>2. CASE ~Commit
    BY <1>1, <2>1, <2>2
  <2>3. CASE Commit
    BY <1>5, <2>3
  <2> QED
    BY <2>2, <2>3
<1> QED
  BY <1>2, <1>3, <1>4, <1>5, <1>6, <1>7, <1>9, <1>10 DEF Next

\* No suggestion gets into its file but with a used gate of its own.
LEMMA NextApproval ==
  ASSUME TypeOK, GatesServeOnce, GateIsUsed, UndoOfApplied, PatchedOnOwnApproval,
         [Next]_vars
  PROVE  PatchedOnOwnApproval'
<1> SUFFICES ASSUME NEW s \in Suggestion,
                    \/ status'[s] \in {"applied", "rolled_back"}
                    \/ work'.at = "written" /\ work'.s = s
             PROVE  \E g \in Gate : For[g] = s /\ grant'[g] = "used" /\ served'[g] = 1
  BY DEF PatchedOnOwnApproval
<1>1. \A g \in Gate : grant[g] = "used" => grant'[g] = "used"
  <2>1. CASE UseGate
    BY <2>1 DEF UseGate, Gates!Use, TypeOK
  <2>2. CASE GateMoves
    BY <2>2, GatesKept
  <2> QED
    BY <2>1, <2>2
    DEF Next, vars, gates, Propose, Reject, Expire, Edit, StartApply, StartRollback,
        Patch, PatchFails, Undo, Commit, PutBack, Refuse, Strike
<1>2. GatesServeOnce'
  BY NextGates
<1>3. SUFFICES \E g \in Gate : For[g] = s /\ grant[g] = "used"
  BY <1>1, <1>2 DEF GatesServeOnce
<1>4. CASE status[s] \in {"applied", "rolled_back"} \/ (work.at = "written" /\ work.s = s)
  BY <1>4 DEF PatchedOnOwnApproval
<1>5. CASE status'[s] # status[s] /\ status'[s] \in {"applied", "rolled_back"}
  BY <1>4, <1>5, StatusMoves DEF Commit
<1>6. CASE UNCHANGED work
  BY <1>4, <1>5, <1>6
<1>7. CASE Patch
  BY <1>4, <1>5, <1>7 DEF Patch, MayPatch, GateIsUsed, TypeOK, Work
<1>8. CASE Undo
  BY <1>4, <1>5, <1>8 DEF Undo, UndoOfApplied
<1>9. CASE work'.at # "written"
  BY <1>4, <1>5, <1>9
<1> QED
  BY <1>6, <1>7, <1>8, <1>9
  DEF Next, vars, Propose, Reject, Expire, Edit, GateMoves, StartApply, UseGate,
      StartRollback, PatchFails, Commit, PutBack, Refuse, Strike, Idle

\* Rows, files, gates and the call at work always have their shape, and the
\* conjunction that the other invariants rest on always holds.
THEOREM RefinerInvariant == Spec => []RefinerInv
<1>1. Init => RefinerInv
  <2> SUFFICES ASSUME Init PROVE RefinerInv
    OBVIOUS
  <2>1. TypeOK
    BY InitType
  <2>2. GatesServeOnce /\ PatchedOnOwnApproval
    BY DEF Init, Idle, Gates!Init, GatesServeOnce, PatchedOnOwnApproval
  <2>3. /\ GateIsUsed /\ UndoOfApplied /\ ApplyOfUnapplied
        /\ WriterKnows /\ AppliedHasBackup
    BY DEF Init, Idle, GateIsUsed, UndoOfApplied, ApplyOfUnapplied, WriterKnows, AppliedHasBackup
  <2>4. FileIsAccountedFor
    BY DEF Init, FileIsAccountedFor, Accounted
  <2> QED
    BY <2>1, <2>2, <2>3, <2>4 DEF RefinerInv
<1>2. RefinerInv /\ [Next]_vars => RefinerInv'
  BY NextType, NextGates, NextUndo, NextApply, NextBackup, NextAccounts, NextApproval
  DEF RefinerInv
<1> QED
  BY <1>1, <1>2, PTL DEF Spec

\* Every reachable state has rows, files and a call at work of the right shape.
THEOREM TypeCorrect == Spec => []TypeOK
BY RefinerInvariant, PTL DEF RefinerInv

\* No text of a rejected or pending suggestion stays in a file that only the
\* refiner changes and no failure struck (service.py, apply and rollback).
THEOREM FilesAreAccountedFor == Spec => []FileIsAccountedFor
BY RefinerInvariant, PTL DEF RefinerInv

\* What was applied can be taken back (service.py, the backup in apply).
THEOREM AppliedAreBackedUp == Spec => []AppliedHasBackup
BY RefinerInvariant, PTL DEF RefinerInv

\* What was applied had an approval of its own (service.py, the gate in apply).
THEOREM PatchesAreApproved == Spec => []PatchedOnOwnApproval
BY RefinerInvariant, PTL DEF RefinerInv

\* What was rejected or rolled back stays so (review_store.py, transition).
THEOREM DecisionsStay == Spec => DecisionsAreFinal
<1>1. TypeOK /\ [Next]_vars =>
        [\A s \in Suggestion : status[s] \in {"rejected", "rolled_back"}
                                 => status'[s] = status[s]]_vars
  <2> SUFFICES ASSUME TypeOK, [Next]_vars, NEW s \in Suggestion,
                      status[s] \in {"rejected", "rolled_back"}, status'[s] # status[s]
               PROVE  FALSE
    OBVIOUS
  <2> QED
    BY StatusMoves DEF TypeOK, Work, Commit
<1> QED
  BY <1>1, TypeCorrect, PTL DEF Spec, DecisionsAreFinal

\* Every file has a text the rows account for, and a backup of what it replaced.
THEOREM FilesStayRecoverable == Spec => []FilesAreRecoverable
BY FilesAreAccountedFor, AppliedAreBackedUp, PTL DEF FilesAreRecoverable
=============================================================================
