---------------------------- MODULE HarnessProofs ----------------------------
(***************************************************************************)
(* Proofs about the coding harness, for every set of plans, templates,     *)
(* requests and gates; and about the workspace it works in, for every set  *)
(* of writers, places, graphs, files, settings and rebuilds.               *)
(***************************************************************************)
EXTENDS Harness, Workspace, TLAPS

\* Before its first failed test a plan has no attempts; a plan that runs has
\* attempts left in some template.
Bounded(P) ==
  /\ P.status \in {"planned", "awaiting_gate"} => P.attempt = 0
  /\ P.status = "running" =>
       \E t \in Versions : P.step \in DOMAIN t /\ P.attempt < t[P.step].attempts

PlansBounded == \A p \in Plan : plan[p] # Absent => Bounded(plan[p])

\* Requests wait on behalf of plans that exist.
CallsHavePlans == \A c \in Caller : call[c] # Idle => plan[call[c].plan] # Absent

\* A gate that a request has used has let no step pass yet, and is used for no
\* other request.
UsedGateIsFresh ==
  \A c \in Caller : call[c].at = "gated" =>
    /\ grant[call[c].gate] = "used"
    /\ \A r \in passed : r.by # call[c].gate
    /\ \A d \in Caller : call[d].at = "gated" /\ call[d].gate = call[c].gate => d = c

\* A gate that let a step pass is used.
PassingGateIsUsed == \A r \in passed : r.by \in Gate => grant[r.by] = "used"

HarnessInv ==
  /\ TypeOK
  /\ PlansBounded
  /\ CallsHavePlans
  /\ UsedGateIsFresh
  /\ PassingGateIsUsed
  /\ GateLetsOneStepPass

-----------------------------------------------------------------------------
(* The planner                                                             *)

Forward(P, Q) ==
  \/ Q.step = P.step + 1 /\ Q.attempt = 0
  \/ Q.step = P.step /\ Q.attempt = P.attempt + 1
  \/ Q.step = P.step /\ Q.attempt = P.attempt /\ Q.status = "succeeded"

\* A valid template: its steps have actions, and one to five attempts.
LEMMA TemplateSteps ==
  ASSUME NEW t \in Versions
  PROVE  /\ Len(t) \in 1 .. 16 /\ DOMAIN t = 1 .. Len(t)
         /\ \A i \in 1 .. Len(t) : t[i] \in StepPolicy
BY HarnessAssumption DEF ValidTemplate

\* A step that is entered is a sound place for a plan.
LEMMA EnteredIsSound ==
  ASSUME TypeOK, NEW i \in 1 .. Len(template), NEW st \in {"planned", "running"}
  PROVE  /\ Entered(i, st) \in PlanRecord
         /\ Bounded(Entered(i, st))
         /\ Entered(i, st).step = i /\ Entered(i, st).attempt = 0
<1>1. /\ template \in Versions /\ Len(template) \in 1 .. 16
      /\ DOMAIN template = 1 .. Len(template) /\ template[i] \in StepPolicy
  BY TemplateSteps DEF TypeOK
<1>2. 0 < template[i].attempts
  BY <1>1 DEF StepPolicy
<1> QED
  BY <1>1, <1>2 DEF Entered, PlanRecord, Terminal, Bounded

\* A try moves a plan forward, and within its bounds.
LEMMA TriedIsSound ==
  ASSUME TypeOK, NEW P \in PlanRecord, P.attempt \in 0 .. 4,
         P.step \in DOMAIN template, NEW ok \in BOOLEAN
  PROVE  /\ Tried(P, ok) \in PlanRecord
         /\ Bounded(Tried(P, ok))
         /\ Forward(P, Tried(P, ok))
<1> DEFINE policy == template[P.step]
           Q == Tried(P, ok)
<1>1. /\ template \in Versions /\ Len(template) \in 1 .. 16
      /\ DOMAIN template = 1 .. Len(template) /\ policy \in StepPolicy
      /\ P.step \in 1 .. Len(template)
  BY TemplateSteps DEF TypeOK
<1>2. CASE policy.action = "test" /\ ~ok
  <2> DEFINE end == IF P.attempt + 1 >= policy.attempts THEN "failed" ELSE "running"
  <2>1. Q = [P EXCEPT !.attempt = @ + 1, !.status = end]
    BY <1>2 DEF Tried
  <2>2. end \in {"failed", "running"} /\ P.attempt + 1 \in 0 .. 5
    OBVIOUS
  <2> HIDE DEF end
  <2>4. Q \in PlanRecord /\ Q.step = P.step /\ Q.attempt = P.attempt + 1 /\ Q.status = end
    BY <2>1, <2>2 DEF PlanRecord, Terminal
  <2>3. Q.status = "running" => Q.attempt < policy.attempts
    BY <1>1, <2>4 DEF StepPolicy, end
  <2> QED
    BY <1>1, <2>2, <2>3, <2>4 DEF Bounded, Forward
<1>3. CASE ~(policy.action = "test" /\ ~ok) /\ P.step = Len(template)
  <2>1. Q = [P EXCEPT !.status = "succeeded"]
    BY <1>3 DEF Tried
  <2> QED
    BY <2>1 DEF PlanRecord, Terminal, Bounded, Forward
<1>4. CASE ~(policy.action = "test" /\ ~ok) /\ P.step # Len(template)
  <2>1. Q = Entered(P.step + 1, "running") /\ P.step + 1 \in 1 .. Len(template)
    BY <1>1, <1>4 DEF Tried
  <2> QED
    BY <2>1, EnteredIsSound DEF Forward
<1> QED
  BY <1>2, <1>3, <1>4

\* What a request that advances a plan changes: the plan goes forward, and at most
\* one step more is passed, with the gate of the request.
LEMMA AdvanceIsSound ==
  ASSUME TypeOK, PlansBounded, NEW p \in Plan, plan[p] # Absent,
         NEW by \in Gate \cup {NoGate}, Advance(p, by)
  PROVE  /\ plan' \in [Plan -> {Absent} \cup PlanRecord]
         /\ plan'[p] \in PlanRecord /\ Bounded(plan'[p])
         /\ plan[p].status \notin Terminal /\ Forward(plan[p], plan'[p])
         /\ \A o \in Plan \ {p} : plan'[o] = plan[o]
         /\ passed' = passed
              \/ \E a \in ActionName :
                   passed' = passed \cup {[plan |-> p, step |-> plan[p].step, by |-> by,
                                           waited |-> Waits(plan[p]), action |-> a]}
<1> DEFINE P == plan[p]
           R == IF Waits(P) THEN [P EXCEPT !.status = "running", !.gate = "approved"]
                ELSE P
<1>1. P \in PlanRecord /\ P.step \in DOMAIN template
  BY DEF TypeOK, Advance, TakeUp
<1>2. P.status \notin Terminal
  BY DEF Advance
<1>3. P.attempt \in 0 .. 4
  <2>1. Bounded(P) /\ P.attempt \in 0 .. 5
    BY <1>1 DEF PlansBounded, PlanRecord
  <2>2. P.status \in {"planned", "awaiting_gate", "running"}
    BY <1>1, <1>2 DEF PlanRecord
  <2>3. ASSUME NEW t \in Versions, P.step \in DOMAIN t, P.attempt < t[P.step].attempts
        PROVE  P.attempt \in 0 .. 4
    BY <2>1, <2>3, TemplateSteps DEF StepPolicy
  <2> QED
    BY <2>1, <2>2, <2>3 DEF Bounded
<1>4. R \in PlanRecord /\ R.attempt = P.attempt /\ R.step = P.step
  BY <1>1 DEF PlanRecord, Terminal
<1>5. PICK ok \in BOOLEAN :
        /\ plan' = [plan EXCEPT ![p] = Tried(R, ok)]
        /\ passed' = IF Tried(R, ok).step # P.step \/ Tried(R, ok).status = "succeeded"
                       THEN passed \cup {[plan |-> p, step |-> P.step, by |-> by,
                                          waited |-> Waits(P),
                                          action |-> template[P.step].action]}
                       ELSE passed
  BY DEF Advance, TakeUp
<1>6. /\ Tried(R, ok) \in PlanRecord /\ Bounded(Tried(R, ok))
      /\ Forward(R, Tried(R, ok))
  BY <1>1, <1>3, <1>4, TriedIsSound
<1>7. plan'[p] = Tried(R, ok)
  BY <1>5 DEF TypeOK
<1>8. Forward(P, plan'[p])
  BY <1>4, <1>6, <1>7 DEF Forward
<1>9. template[P.step].action \in ActionName
  BY <1>1, TemplateSteps DEF TypeOK, StepPolicy
<1>10. plan' \in [Plan -> {Absent} \cup PlanRecord]
       /\ \A o \in Plan \ {p} : plan'[o] = plan[o]
  BY <1>5, <1>6 DEF TypeOK
<1> QED
  BY <1>2, <1>5, <1>6, <1>7, <1>8, <1>9, <1>10
-----------------------------------------------------------------------------
(* Every step                                                              *)

\* Initially no plan exists, no request waits and no step is passed.
LEMMA InitInv == Init => HarnessInv
<1> SUFFICES ASSUME Init PROVE HarnessInv
  OBVIOUS
<1>1. TypeOK
  BY DEF Init, TypeOK, Call, Idle, Gates!Init, Gates!Stage
<1>2. GateLetsOneStepPass /\ PassingGateIsUsed
  BY DEF Init, GateLetsOneStepPass, PassingGateIsUsed
<1>3. PlansBounded
  BY DEF Init, PlansBounded
<1>4. \A c \in Caller : call[c] = Idle /\ call[c].at = "idle"
  BY DEF Init, Idle
<1>5. CallsHavePlans /\ UsedGateIsFresh
  BY <1>4 DEF CallsHavePlans, UsedGateIsFresh
<1> QED
  BY <1>1, <1>2, <1>3, <1>5 DEF HarnessInv

\* What the moves of the gates keep: their shape, and a used gate.
LEMMA GatesKept ==
  ASSUME TypeOK, GateMoves
  PROVE  /\ grant' \in [Gate -> Gates!Stage] /\ over' \subseteq Gate
         /\ served' \in [Gate -> Nat]
         /\ \A g \in Gate : grant[g] = "used" => grant'[g] = "used"
         /\ UNCHANGED <<template, plan, call, passed>>
<1> USE DEF TypeOK
<1>1. ASSUME NEW g \in Gate, Gates!Offer(g) \/ Gates!Grant(g)
      PROVE  /\ grant' \in [Gate -> Gates!Stage] /\ over' \subseteq Gate
             /\ served' \in [Gate -> Nat]
             /\ \A h \in Gate : grant[h] = "used" => grant'[h] = "used"
  BY <1>1 DEF Gates!Offer, Gates!Grant, Gates!Stage
<1>2. ASSUME NEW S \in SUBSET Gate, Gates!Close(S)
      PROVE  /\ grant' \in [Gate -> Gates!Stage] /\ over' \subseteq Gate
             /\ served' \in [Gate -> Nat]
             /\ \A h \in Gate : grant[h] = "used" => grant'[h] = "used"
  BY <1>2 DEF Gates!Close, Gates!Stage
<1>3. ASSUME Gates!Pass
      PROVE  /\ grant' \in [Gate -> Gates!Stage] /\ over' \subseteq Gate
             /\ served' \in [Gate -> Nat]
             /\ \A h \in Gate : grant[h] = "used" => grant'[h] = "used"
  BY <1>3 DEF Gates!Pass, Gates!Stage
<1> QED
  BY <1>1, <1>2, <1>3 DEF GateMoves

\* A request that is free, an import or a new plan.
LEMMA PlanningKeepsInv ==
  ASSUME HarnessInv,
         \/ \E t \in Versions : Import(t)
         \/ \E p \in Plan : Create(p)
         \/ UNCHANGED vars
  PROVE  HarnessInv'
<1> USE DEF HarnessInv
<1>1. UNCHANGED <<call, grant, over, served, passed>>
  BY DEF Import, Create, vars, gates
<1>2. TypeOK' /\ PlansBounded' /\ \A p \in Plan : plan[p] # Absent => plan'[p] # Absent
  <2>1. ASSUME NEW t \in Versions, Import(t)
        PROVE  TypeOK' /\ PlansBounded' /\ plan' = plan
    BY <2>1, <1>1 DEF Import, TypeOK, PlansBounded, Bounded
  <2>2. ASSUME NEW p \in Plan, Create(p)
        PROVE  TypeOK' /\ PlansBounded' /\ \A o \in Plan : plan[o] # Absent => plan'[o] # Absent
    <3>1. Entered(1, "planned") \in PlanRecord /\ Bounded(Entered(1, "planned"))
      <4>1. 1 \in 1 .. Len(template)
        <5>1. template \in Versions
          BY DEF TypeOK
        <5> DEFINE n == Len(template)
        <5>2. n \in 1 .. 16
          BY <5>1, TemplateSteps
        <5> HIDE DEF n
        <5>3. 1 \in 1 .. n
          BY <5>2
        <5> QED
          BY <5>3 DEF n
      <4> QED
        BY <4>1, EnteredIsSound
    <3>2. /\ plan' = [plan EXCEPT ![p] = Entered(1, "planned")]
          /\ template' = template /\ plan[p] = Absent
      BY <2>2 DEF Create
    <3>3. plan'[p] = Entered(1, "planned") /\ \A o \in Plan \ {p} : plan'[o] = plan[o]
      BY <3>2 DEF TypeOK
    <3>4. TypeOK'
      BY <1>1, <3>1, <3>2 DEF TypeOK
    <3>5. PlansBounded'
      BY <3>1, <3>3 DEF PlansBounded, Bounded
    <3> QED
      BY <3>2, <3>3, <3>4, <3>5
  <2>3. CASE UNCHANGED vars
    BY <2>3 DEF vars, gates, TypeOK, PlansBounded, Bounded
  <2> QED
    BY <2>1, <2>2, <2>3
<1>3. CallsHavePlans'
  BY <1>1, <1>2 DEF CallsHavePlans, TypeOK, Call
<1> QED
  BY <1>1, <1>2, <1>3 DEF UsedGateIsFresh, PassingGateIsUsed, GateLetsOneStepPass

\* A plan that awaits no gate is advanced: whatever it passes, it did not wait.
LEMMA FreeAdvanceKeepsInv ==
  ASSUME HarnessInv, NEW p \in Plan, AdvanceFreely(p)
  PROVE  HarnessInv'
<1> USE DEF HarnessInv
<1>1. /\ plan[p] # Absent /\ Waits(plan[p]) = FALSE /\ Advance(p, NoGate)
      /\ UNCHANGED <<template, call, grant, over, served>>
  BY DEF AdvanceFreely, gates, Waits
<1>2. /\ plan' \in [Plan -> {Absent} \cup PlanRecord]
      /\ plan'[p] \in PlanRecord /\ Bounded(plan'[p])
      /\ \A o \in Plan \ {p} : plan'[o] = plan[o]
  BY <1>1, AdvanceIsSound
<1>3. \/ passed' = passed
      \/ \E a \in ActionName :
           passed' = passed \cup {[plan |-> p, step |-> plan[p].step, by |-> NoGate,
                                   waited |-> FALSE, action |-> a]}
  BY <1>1, AdvanceIsSound
<1>4. plan[p].step \in 1 .. 16
  BY <1>1 DEF TypeOK, PlanRecord
<1>5. TypeOK'
  <2>1. passed' \subseteq [plan : Plan, step : 1 .. 16, by : Gate \cup {NoGate},
                          waited : BOOLEAN, action : ActionName]
    <3>1. ASSUME NEW a \in ActionName
          PROVE  [plan |-> p, step |-> plan[p].step, by |-> NoGate, waited |-> FALSE,
                  action |-> a]
                   \in [plan : Plan, step : 1 .. 16, by : Gate \cup {NoGate},
                        waited : BOOLEAN, action : ActionName]
      BY <1>4
    <3>2. passed \subseteq [plan : Plan, step : 1 .. 16, by : Gate \cup {NoGate},
                           waited : BOOLEAN, action : ActionName]
      BY DEF TypeOK
    <3> QED
      BY <1>3, <3>1, <3>2
  <2> QED
    BY <1>1, <1>2, <2>1 DEF TypeOK
<1>6. PlansBounded'
  BY <1>2 DEF PlansBounded, Bounded
<1>7. CallsHavePlans'
  <2>1. plan'[p] # Absent
    BY <1>2 DEF Absent, PlanRecord, Terminal
  <2> QED
    BY <1>1, <1>2, <2>1 DEF CallsHavePlans, TypeOK, Call
<1>8. \A r \in passed' : r \in passed \/ (r.by = NoGate /\ r.waited = FALSE)
  BY <1>3
<1>9. \A c \in Caller : call[c].at = "gated" => call[c].gate \in Gate
  BY DEF TypeOK, Call, Idle
<1>10. UsedGateIsFresh'
  BY <1>1, <1>8, <1>9, HarnessAssumption DEF UsedGateIsFresh
<1>11. PassingGateIsUsed' /\ GateLetsOneStepPass'
  BY <1>1, <1>8, HarnessAssumption DEF PassingGateIsUsed, GateLetsOneStepPass
<1> QED
  BY <1>5, <1>6, <1>7, <1>10, <1>11

\* A request begins to wait for a gate, or ends without effect.
LEMMA WaitingKeepsInv ==
  ASSUME HarnessInv,
         \/ \E c \in Caller, p \in Plan, g \in Gate : AskAdvance(c, p, g)
         \/ \E c \in Caller : Refuse(c)
  PROVE  HarnessInv'
<1> USE DEF HarnessInv
<1>1. UNCHANGED <<template, plan, grant, over, served, passed>>
  BY DEF AskAdvance, Refuse, gates
<1>2. /\ call' \in [Caller -> Call]
      /\ \A c \in Caller :
           \/ call'[c] = call[c]
           \/ call'[c] = Idle
           \/ call'[c].at = "gate" /\ plan[call'[c].plan] # Absent
  <2>1. ASSUME NEW c \in Caller, NEW p \in Plan, NEW g \in Gate, AskAdvance(c, p, g)
        PROVE  /\ call' \in [Caller -> Call]
               /\ call'[c].at = "gate" /\ plan[call'[c].plan] # Absent
               /\ \A d \in Caller \ {c} : call'[d] = call[d]
    <3>1. plan[p] \in PlanRecord /\ template[plan[p].step].action \in ActionName
      BY <2>1, TemplateSteps DEF AskAdvance, TypeOK, StepPolicy
    <3> QED
      BY <2>1, <3>1 DEF AskAdvance, TypeOK, Call, PlanRecord
  <2>2. ASSUME NEW c \in Caller, Refuse(c)
        PROVE  /\ call' \in [Caller -> Call] /\ call'[c] = Idle
               /\ \A d \in Caller \ {c} : call'[d] = call[d]
    BY <2>2 DEF Refuse, TypeOK, Call
  <2> QED
    BY <2>1, <2>2
<1>3. TypeOK'
  BY <1>1, <1>2 DEF TypeOK
<1>4. CallsHavePlans'
  BY <1>1, <1>2 DEF CallsHavePlans
<1>5. \A c \in Caller : call'[c].at = "gated" => call'[c] = call[c]
  BY <1>2 DEF Idle
<1>6. UsedGateIsFresh'
  BY <1>1, <1>5 DEF UsedGateIsFresh
<1> QED
  BY <1>1, <1>3, <1>4, <1>6
  DEF PlansBounded, Bounded, PassingGateIsUsed, GateLetsOneStepPass

\* A gate that is used now was not used before: no request and no step has it.
LEMMA UseKeepsInv ==
  ASSUME HarnessInv, NEW c \in Caller, UseGate(c)
  PROVE  HarnessInv'
<1> DEFINE g == call[c].gate
<1> USE DEF HarnessInv
<1>1. /\ call[c].at = "gate" /\ g \in Gate /\ grant[g] = "granted"
      /\ grant' = [grant EXCEPT ![g] = "used"]
      /\ served' = [served EXCEPT ![g] = @ + 1]
      /\ call' = [call EXCEPT ![c].at = "gated"]
      /\ UNCHANGED <<template, plan, over, passed>>
  BY DEF UseGate, Gates!Use, TypeOK, Call, Idle
<1>2. /\ call'[c].at = "gated" /\ call'[c].gate = g /\ call'[c].plan = call[c].plan
      /\ call'[c] \in Call /\ call[c] # Idle
      /\ \A d \in Caller \ {c} : call'[d] = call[d]
  BY <1>1 DEF TypeOK, Call, Idle
<1>3. /\ grant'[g] = "used"
      /\ \A h \in Gate \ {g} : grant'[h] = grant[h]
  BY <1>1 DEF TypeOK
<1>4. TypeOK'
  BY <1>1, <1>2 DEF TypeOK, Gates!Stage
<1>5. CallsHavePlans'
  BY <1>1, <1>2 DEF CallsHavePlans
<1>6. \A d \in Caller : call[d].at = "gated" => call[d].gate # g
  BY <1>1 DEF UsedGateIsFresh
<1>7. \A r \in passed : r.by # g
  BY <1>1 DEF PassingGateIsUsed
<1>8. UsedGateIsFresh'
  <2>1. \A d \in Caller : call[d].at = "gated" => call[d].gate \in Gate
    BY DEF TypeOK, Call, Idle
  <2> QED
    BY <1>1, <1>2, <1>3, <1>6, <1>7, <2>1 DEF UsedGateIsFresh
<1>9. PassingGateIsUsed' /\ GateLetsOneStepPass'
  BY <1>1, <1>3, <1>7 DEF PassingGateIsUsed, GateLetsOneStepPass
<1> QED
  BY <1>1, <1>4, <1>5, <1>8, <1>9 DEF PlansBounded, Bounded

\* A request with a gate advances the plan and gives the gate up.
LEMMA GatedAdvanceKeepsInv ==
  ASSUME HarnessInv, NEW c \in Caller, AdvanceGated(c)
  PROVE  HarnessInv'
<1> DEFINE p == call[c].plan
           g == call[c].gate
<1> USE DEF HarnessInv
<1>1. /\ call[c].at = "gated" /\ Bound(call[c]) /\ Advance(p, g)
      /\ call' = [call EXCEPT ![c] = Idle]
      /\ UNCHANGED <<template, grant, over, served>>
  BY DEF AdvanceGated, gates
<1>2. p \in Plan /\ g \in Gate /\ plan[p] # Absent /\ For[g].plan = p
  BY <1>1 DEF TypeOK, Call, Idle, CallsHavePlans, Bound
<1> HIDE DEF p, g
<1>3. /\ plan' \in [Plan -> {Absent} \cup PlanRecord]
      /\ plan'[p] \in PlanRecord /\ Bounded(plan'[p])
      /\ \A o \in Plan \ {p} : plan'[o] = plan[o]
  BY <1>1, <1>2, AdvanceIsSound
<1>4. \/ passed' = passed
      \/ \E a \in ActionName :
           passed' = passed \cup {[plan |-> p, step |-> plan[p].step, by |-> g,
                                   waited |-> Waits(plan[p]), action |-> a]}
  BY <1>1, <1>2, AdvanceIsSound
<1>5. plan[p].step \in 1 .. 16 /\ Waits(plan[p]) \in BOOLEAN
  BY <1>2 DEF TypeOK, PlanRecord, Waits
<1>6. /\ call'[c] = Idle /\ call'[c].at = "idle" /\ call' \in [Caller -> Call]
      /\ \A d \in Caller \ {c} : call'[d] = call[d]
  BY <1>1 DEF TypeOK, Call, Idle
<1>7. TypeOK'
  BY <1>1, <1>2, <1>3, <1>4, <1>5, <1>6 DEF TypeOK
<1>8. PlansBounded'
  BY <1>3 DEF PlansBounded, Bounded
<1>9. CallsHavePlans'
  <2>1. plan'[p] # Absent
    BY <1>3 DEF Absent, PlanRecord, Terminal
  <2> QED
    BY <1>3, <1>6, <2>1 DEF CallsHavePlans, TypeOK, Call
<1>10. /\ grant[g] = "used"
       /\ \A r \in passed : r.by # g
       /\ \A d \in Caller \ {c} : call[d].at = "gated" => call[d].gate # g
  BY <1>1 DEF UsedGateIsFresh, g
<1>11. \A q, r \in passed' : q.by = g /\ r.by = g => q = r
  BY <1>4, <1>10
<1>12. \A r \in passed' : r \in passed \/ (r.by = g /\ r.plan = p)
  BY <1>4
<1>13. UsedGateIsFresh'
  BY <1>1, <1>6, <1>10, <1>12 DEF UsedGateIsFresh
<1>14. PassingGateIsUsed' /\ GateLetsOneStepPass'
  BY <1>1, <1>2, <1>10, <1>11, <1>12 DEF PassingGateIsUsed, GateLetsOneStepPass
<1> QED
  BY <1>7, <1>8, <1>9, <1>13, <1>14

\* The moves of the gates leave a used gate used.
LEMMA GateMovesKeepInv ==
  ASSUME HarnessInv, GateMoves
  PROVE  HarnessInv'
<1> USE DEF HarnessInv
<1>1. /\ \A g \in Gate : grant[g] = "used" => grant'[g] = "used"
      /\ UNCHANGED <<template, plan, call, passed>>
      /\ TypeOK'
  BY GatesKept DEF TypeOK
<1>2. \A c \in Caller : call[c].at = "gated" => call[c].gate \in Gate
  BY DEF TypeOK, Call, Idle
<1>3. UsedGateIsFresh'
  BY <1>1, <1>2 DEF UsedGateIsFresh
<1>4. PassingGateIsUsed' /\ GateLetsOneStepPass'
  BY <1>1 DEF PassingGateIsUsed, GateLetsOneStepPass
<1> QED
  BY <1>1, <1>3, <1>4 DEF PlansBounded, Bounded, CallsHavePlans

\* Every step keeps the invariant.
LEMMA NextInv == HarnessInv /\ [Next]_vars => HarnessInv'
<1> SUFFICES ASSUME HarnessInv, [Next]_vars PROVE HarnessInv'
  OBVIOUS
<1> QED
  BY PlanningKeepsInv, FreeAdvanceKeepsInv, WaitingKeepsInv, UseKeepsInv,
     GatedAdvanceKeepsInv, GateMovesKeepInv DEF Next

-----------------------------------------------------------------------------
(* Theorems                                                                *)

\* The invariant holds in every reachable state (advance, with whatever
\* requests race and whatever templates are imported).
THEOREM HarnessInvariant == Spec => []HarnessInv
  BY InitInv, NextInv, PTL DEF Spec

\* Plans, templates and waiting requests keep their shape: a step is one of the
\* sixteen a template may have, an attempt one of five.
THEOREM TypeCorrect == Spec => []TypeOK
<1>1. HarnessInv => TypeOK
  BY DEF HarnessInv
<1> QED
  BY <1>1, HarnessInvariant, PTL

\* A gate lets one step pass, of the plan it is bound to, whichever requests race
\* (service.py, advance).
THEOREM GatesLetOneStepPass == Spec => []GateLetsOneStepPass
<1>1. HarnessInv => GateLetsOneStepPass
  BY DEF HarnessInv
<1> QED
  BY <1>1, HarnessInvariant, PTL

\* Repair is bounded, whatever is imported while a plan runs (planner.py, the
\* test step).
THEOREM RepairBounded == Spec => []RepairsAreBounded
<1>1. HarnessInv => RepairsAreBounded
  BY DEF HarnessInv, PlansBounded, Bounded, RepairsAreBounded, Absent
<1> QED
  BY <1>1, HarnessInvariant, PTL

\* A plan goes forward only, and one that is over stays as it is (planner.py,
\* advance).
THEOREM PlansAdvance == Spec => PlansGoForward
<1>1. ASSUME HarnessInv, [Next]_vars, NEW p \in Plan,
             plan[p] # Absent, plan'[p] # plan[p]
      PROVE  plan[p].status \notin Terminal /\ Forward(plan[p], plan'[p])
  <2> USE DEF HarnessInv
  <2>1. PICK o \in Plan, by \in Gate \cup {NoGate} :
          plan[o] # Absent /\ Advance(o, by)
    <3>1. CASE \E o \in Plan : AdvanceFreely(o)
      BY <3>1 DEF AdvanceFreely
    <3>2. ASSUME NEW c \in Caller, AdvanceGated(c)
          PROVE  \E o \in Plan, by \in Gate \cup {NoGate} :
                   plan[o] # Absent /\ Advance(o, by)
      <4>1. call[c].plan \in Plan /\ call[c].gate \in Gate /\ call[c] # Idle
        BY <1>1, <3>2 DEF AdvanceGated, TypeOK, Call, Idle
      <4> QED
        BY <1>1, <3>2, <4>1 DEF AdvanceGated, CallsHavePlans
    <3>3. CASE \E o \in Plan : Create(o)
      BY <1>1, <3>3 DEF Create, TypeOK
    <3>4. plan' # plan
      BY <1>1
    <3> QED
      BY <1>1, <3>1, <3>2, <3>3, <3>4
      DEF Next, vars, Import, AskAdvance, UseGate, Refuse, GateMoves
  <2>2. plan[o].status \notin Terminal /\ Forward(plan[o], plan'[o])
        /\ \A q \in Plan \ {o} : plan'[q] = plan[q]
    BY <1>1, <2>1, AdvanceIsSound
  <2>3. o = p
    BY <1>1, <2>2
  <2> QED
    BY <2>2, <2>3
<1>2. HarnessInv /\ [Next]_vars =>
        [\A p \in Plan : plan[p] # Absent /\ plan'[p] # plan[p] =>
           LET P == plan[p]
               Q == plan'[p]
           IN /\ P.status \notin Terminal
              /\ \/ Q.step = P.step + 1 /\ Q.attempt = 0
                 \/ Q.step = P.step /\ Q.attempt = P.attempt + 1
                 \/ Q.step = P.step /\ Q.attempt = P.attempt /\ Q.status = "succeeded"]_vars
  BY <1>1 DEF Forward
<1> QED
  BY <1>2, HarnessInvariant, PTL DEF Spec, PlansGoForward

-----------------------------------------------------------------------------
(* The workspace: published files                                          *)

UnderWay ==
  [at : {"lock", "stage", "unlock"}, kind : Kind, place : Place, graph : Graph,
   staged : SUBSET (Graph \X File)]

FileJob ==
  {NoJob} \cup UnderWay
    \cup [at : {"answered"}, place : Place, graph : Graph]

FilesTypeOK ==
  /\ out \in [Kind \X Place -> SUBSET (Graph \X File)]
  /\ lock \subseteq Kind \X Place
  /\ orphan \subseteq Kind \X Place
  /\ job \in [Writer -> FileJob]

\* What a request relies on in its destination, which holds o: the output it
\* has put there, and the bundle that its archive is made of.
Relies(j, o) ==
  /\ j.at \in {"lock", "unlock"} => j.kind # "graph"
  /\ j.at \in {"lock", "stage", "unlock"} /\ (j.at = "unlock" \/ j.kind = "archive") =>
       o[<<"bundle", j.place>>] = Whole(j.graph)
  /\ j.at = "unlock" /\ j.kind = "archive" => o[<<"archive", j.place>>] = Whole(j.graph)
  /\ j.at = "answered" =>
       o[<<"bundle", j.place>>] = Whole(j.graph) /\ o[<<"archive", j.place>>] = Whole(j.graph)

OutputsAreWhole == \A k \in Kind \X Place : out[k] = {} \/ \E g \in Graph : out[k] = Whole(g)
JobsRely == \A w \in Writer : Relies(job[w], out)
HeldAreNotOrphans == \A w \in Writer : Held(w) \cap orphan = {}

FilesInv ==
  /\ FilesTypeOK
  /\ OutputsAreWhole
  /\ JobsRely
  /\ LocksHaveHolders
  /\ HeldAreNotOrphans

\* Something of a graph is not nothing.
LEMMA WholeIsSome == ASSUME NEW g PROVE Whole(g) # {}
<1>1. PICK f \in File : TRUE
  BY FilesAssumption
<1>2. <<g, f>> \in Whole(g)
  BY <1>1 DEF Whole
<1>. QED
  BY <1>2

\* A request goes on relying on a place where no output is replaced.
LEMMA StillRelies ==
  ASSUME NEW j \in FileJob, NEW o, NEW q, Relies(j, o),
         j # NoJob => \A k \in {"bundle", "archive"} :
           o[<<k, j.place>>] # {} => q[<<k, j.place>>] = o[<<k, j.place>>]
  PROVE  Relies(j, q)
<1>1. CASE j = NoJob
  BY <1>1 DEF NoJob, Relies
<1>2. CASE j # NoJob
  <2>1. \A k \in {"bundle", "archive"} : o[<<k, j.place>>] = Whole(j.graph) => q[<<k, j.place>>] = Whole(j.graph)
    BY <1>2, WholeIsSome
  <2>. QED
    BY <2>1 DEF Relies
<1>. QED
  BY <1>1, <1>2

LEMMA FilesInitially == FilesInit => FilesInv
<1>. SUFFICES ASSUME FilesInit PROVE FilesInv
  OBVIOUS
<1>1. \A w \in Writer : job[w] = NoJob /\ Held(w) = {}
  BY DEF FilesInit, NoJob, Held
<1>2. FilesTypeOK
  BY DEF FilesInit, FilesTypeOK, FileJob
<1>3. JobsRely
  BY <1>1 DEF JobsRely, Relies, NoJob
<1>4. LocksHaveHolders
  BY <1>1 DEF FilesInit, LocksHaveHolders
<1>. QED
  BY <1>1, <1>2, <1>3, <1>4 DEF FilesInv, OutputsAreWhole, HeldAreNotOrphans, FilesInit

\* What one request comes to hold, and gives up, passes through the lock files.
LEMMA LocksPass ==
  ASSUME LocksHaveHolders, HeldAreNotOrphans, NEW w \in Writer,
         \A v \in Writer \ {w} : Held(v)' = Held(v),
         lock' = (lock \ Held(w)) \cup Held(w)',
         Held(w)' \cap (lock \ Held(w)) = {},
         orphan' = orphan
  PROVE  LocksHaveHolders' /\ HeldAreNotOrphans'
<1>1. \A v \in Writer : Held(v) \subseteq lock
  BY DEF LocksHaveHolders
<1>2. \A v \in Writer \ {w} : Held(v) \cap Held(w) = {}
  BY DEF LocksHaveHolders
<1>3. orphan \subseteq lock \ Held(w)
  BY DEF LocksHaveHolders, HeldAreNotOrphans
<1>4. lock' = (UNION {Held(v)' : v \in Writer}) \cup orphan'
  <2>1. ASSUME NEW k \in lock' PROVE k \in (UNION {Held(v)' : v \in Writer}) \cup orphan'
    <3>1. CASE k \in Held(w)'
      BY <3>1
    <3>2. CASE k \in lock \ Held(w)
      <4>1. k \in orphan \/ \E v \in Writer \ {w} : k \in Held(v)
        BY <3>2 DEF LocksHaveHolders
      <4>. QED
        BY <4>1
    <3>. QED
      BY <2>1, <3>1, <3>2
  <2>2. ASSUME NEW v \in Writer PROVE Held(v)' \subseteq lock'
    BY <1>1, <1>2, <2>2
  <2>. QED
    BY <2>1, <2>2, <1>3
<1>5. \A u, v \in Writer : u # v => Held(u)' \cap Held(v)' = {}
  <2>1. \A v \in Writer \ {w} : Held(v)' \cap Held(w)' = {}
    BY <1>1, <1>2
  <2>2. \A u, v \in Writer : u # v => Held(u) \cap Held(v) = {}
    BY DEF LocksHaveHolders
  <2>. QED
    BY <2>1, <2>2
<1>6. \A v \in Writer : Held(v)' \cap orphan' = {}
  BY <1>3 DEF HeldAreNotOrphans
<1>. QED
  BY <1>4, <1>5, <1>6 DEF LocksHaveHolders, HeldAreNotOrphans

\* A request moves on, and the destinations with it.
LEMMA RequestMoves ==
  ASSUME FilesInv, NEW w \in Writer, NEW j \in FileJob, Become(w, j),
         out' \in [Kind \X Place -> SUBSET (Graph \X File)],
         \A k \in Kind \X Place :
           out'[k] = out[k] \/ ((out[k] = {} \/ k[1] = "graph") /\ \E g \in Graph : out'[k] = Whole(g)),
         Relies(j, out'),
         \/ /\ orphan' = orphan
            /\ lock' = (lock \ Held(w)) \cup Held(w)'
            /\ Held(w)' \cap (lock \ Held(w)) = {}
         \/ orphan' = orphan \cup Held(w) /\ Held(w)' = {} /\ lock' = lock
  PROVE  FilesInv'
<1>. USE DEF FilesInv
<1>1. job' \in [Writer -> FileJob] /\ job'[w] = j /\ \A v \in Writer \ {w} : job'[v] = job[v]
  BY DEF FilesTypeOK, Become
<1>2. \A v \in Writer \ {w} : Held(v)' = Held(v)
  BY <1>1 DEF Held, Key
<1>3. \A v \in Writer : Held(v) \subseteq lock
  BY DEF LocksHaveHolders
<1>4. ASSUME NEW v \in Writer PROVE Held(v)' \subseteq Kind \X Place
  BY <1>1 DEF Held, Key, FileJob, UnderWay, NoJob
<1>5. FilesTypeOK'
  <2>1. lock' \subseteq Kind \X Place /\ orphan' \subseteq Kind \X Place
    BY <1>3, <1>4 DEF FilesTypeOK
  <2>. QED
    BY <2>1, <1>1 DEF FilesTypeOK
<1>6. OutputsAreWhole'
  BY DEF OutputsAreWhole
<1>7. JobsRely'
  <2>1. ASSUME NEW v \in Writer \ {w} PROVE Relies(job'[v], out')
    <3>1. job[v] \in FileJob /\ Relies(job[v], out)
      BY DEF FilesTypeOK, JobsRely
    <3>2. job[v] # NoJob => job[v].place \in Place
      BY <3>1 DEF FileJob, UnderWay
    <3>3. job[v] # NoJob => \A k \in {"bundle", "archive"} :
            out[<<k, job[v].place>>] # {} => out'[<<k, job[v].place>>] = out[<<k, job[v].place>>]
      BY <3>2 DEF Kind
    <3>. QED
      BY <3>1, <3>3, <1>1, StillRelies
  <2>. QED
    BY <2>1, <1>1 DEF JobsRely
<1>8. LocksHaveHolders' /\ HeldAreNotOrphans'
  <2>1. CASE orphan' = orphan /\ lock' = (lock \ Held(w)) \cup Held(w)'
             /\ Held(w)' \cap (lock \ Held(w)) = {}
    BY <2>1, <1>2, LocksPass
  <2>2. CASE orphan' = orphan \cup Held(w) /\ Held(w)' = {} /\ lock' = lock
    <3>1. (UNION {Held(v)' : v \in Writer}) \cup Held(w) = UNION {Held(v) : v \in Writer}
      BY <1>2, <2>2
    <3>2. lock' = (UNION {Held(v)' : v \in Writer}) \cup orphan'
      BY <3>1, <2>2 DEF LocksHaveHolders
    <3>3. \A u, v \in Writer : u # v => Held(u)' \cap Held(v)' = {}
      BY <1>2, <2>2 DEF LocksHaveHolders
    <3>4. \A v \in Writer : Held(v)' \cap orphan' = {}
      BY <1>2, <2>2 DEF LocksHaveHolders, HeldAreNotOrphans
    <3>. QED
      BY <3>2, <3>3, <3>4 DEF LocksHaveHolders, HeldAreNotOrphans
  <2>. QED
    BY <2>1, <2>2
<1>. QED
  BY <1>5, <1>6, <1>7, <1>8

LEMMA BeginKept ==
  ASSUME FilesInv, NEW w \in Writer, NEW k \in Kind, NEW p \in Place, NEW g \in Graph,
         Begin(w, k, p, g)
  PROVE  FilesInv'
<1> DEFINE j == [at |-> IF k = "graph" THEN "stage" ELSE "lock",
                 kind |-> k, place |-> p, graph |-> g, staged |-> {}]
<1>1. j \in FileJob
  BY DEF Begin, FileJob, UnderWay
<1>2. Relies(j, out')
  BY DEF Begin, Relies
<1>3. job'[w] = j /\ job[w] = NoJob
  BY DEF Begin, Become, FilesInv, FilesTypeOK
<1>4. Held(w) = {} /\ Held(w)' = {}
  BY <1>3 DEF Held, NoJob
<1> HIDE DEF j
<1>5. Become(w, j) /\ UNCHANGED <<out, lock, orphan>>
  BY DEF Begin, j
<1>. QED
  BY <1>1, <1>2, <1>4, <1>5, RequestMoves DEF FilesInv, FilesTypeOK

\* What is known of a request under way.
LEMMA JobTypes ==
  ASSUME FilesInv, NEW w \in Writer
  PROVE  /\ job[w] \in FileJob /\ Relies(job[w], out)
         /\ job[w].at \in {"lock", "stage", "unlock"} =>
              /\ job[w] \in UnderWay
              /\ job[w].kind \in Kind /\ job[w].place \in Place
              /\ job[w].graph \in Graph /\ job[w].staged \in SUBSET (Graph \X File)
              /\ Key(w) \in Kind \X Place
         /\ \A j : Become(w, j) => job'[w] = j
BY DEF FilesInv, FilesTypeOK, JobsRely, FileJob, UnderWay, NoJob, Become, Key

LEMMA LockKept ==
  ASSUME FilesInv, NEW w \in Writer, Lock(w)
  PROVE  FilesInv'
<1> DEFINE j == [job[w] EXCEPT !.at = "stage"]
<1>1. j \in FileJob /\ Relies(j, out')
  <2>1. job[w].at \in {"lock", "stage", "unlock"} /\ UNCHANGED out
    BY DEF Lock
  <2>2. job[w] \in UnderWay /\ Relies(job[w], out)
    BY <2>1, JobTypes
  <2>3. j \in UnderWay
    BY <2>1, <2>2 DEF UnderWay, Kind
  <2>4. j.at = "stage" /\ j.kind = job[w].kind
    BY <2>2 DEF UnderWay
  <2>5. j.place = job[w].place /\ j.graph = job[w].graph
    BY <2>2 DEF UnderWay
  <2>. QED
    BY <2>2, <2>3, <2>4, <2>5, <2>1 DEF FileJob, Lock, Relies
<1>2. Held(w) = {} /\ Held(w)' = {Key(w)}
  <2>1. job[w].at = "lock" /\ job[w].kind # "graph" /\ job'[w] = j
    BY JobTypes DEF Lock, Relies
  <2>2. job[w] \in UnderWay
    BY <2>1, JobTypes
  <2>3. j.at = "stage" /\ j.kind = job[w].kind /\ j.place = job[w].place
    BY <2>2 DEF UnderWay
  <2>. QED
    BY <2>1, <2>3 DEF Held, Key
<1>3. Become(w, j) /\ UNCHANGED <<out, orphan>> /\ lock' = lock \cup {Key(w)} /\ Key(w) \notin lock
  BY DEF Lock
<1> HIDE DEF j
<1>. QED
  BY <1>1, <1>2, <1>3, RequestMoves DEF FilesInv, FilesTypeOK

LEMMA StageKept ==
  ASSUME FilesInv, NEW w \in Writer, NEW x \in Graph \X File, Stage(w, x)
  PROVE  FilesInv'
<1> DEFINE j == [job[w] EXCEPT !.staged = @ \cup {x}]
<1>1. j \in FileJob /\ Relies(j, out')
  <2>1. job[w].at \in {"lock", "stage", "unlock"} /\ UNCHANGED out
    BY DEF Stage
  <2>2. job[w] \in UnderWay /\ Relies(job[w], out)
    BY <2>1, JobTypes
  <2>3. j \in UnderWay
    BY <2>1, <2>2 DEF UnderWay, Kind
  <2>4. j.at = job[w].at /\ j.kind = job[w].kind
    BY <2>2 DEF UnderWay
  <2>5. j.place = job[w].place /\ j.graph = job[w].graph
    BY <2>2 DEF UnderWay
  <2>. QED
    BY <2>2, <2>3, <2>4, <2>5, <2>1 DEF FileJob, Stage, Relies
<1>2. Held(w)' = Held(w) /\ Held(w) \subseteq lock
  <2>1. job[w].at = "stage" /\ job'[w] = j
    BY JobTypes DEF Stage
  <2>2. job[w] \in UnderWay
    BY <2>1, JobTypes
  <2>3. j.at = job[w].at /\ j.kind = job[w].kind /\ j.place = job[w].place
    BY <2>2 DEF UnderWay
  <2>. QED
    BY <2>1, <2>3 DEF Held, Key, FilesInv, LocksHaveHolders
<1>3. Become(w, j) /\ UNCHANGED <<out, lock, orphan>>
  BY DEF Stage
<1> HIDE DEF j
<1>. QED
  BY <1>1, <1>2, <1>3, RequestMoves DEF FilesInv, FilesTypeOK

\* What is renamed into place is whole: an archive's bundle is.
LEMMA GoalIsWhole ==
  ASSUME FilesInv, NEW w \in Writer, job[w].at = "stage"
  PROVE  Goal(w) = Whole(job[w].graph)
BY JobTypes DEF Goal, Relies

LEMMA PublishKept ==
  ASSUME FilesInv, NEW w \in Writer, Publish(w)
  PROVE  FilesInv'
<1> DEFINE j == IF job[w].kind = "graph" THEN NoJob ELSE [job[w] EXCEPT !.at = "unlock"]
<1>1. /\ job[w].at = "stage" /\ Become(w, j) /\ UNCHANGED <<lock, orphan>>
      /\ out' = [out EXCEPT ![Key(w)] = Whole(job[w].graph)]
      /\ job[w].kind # "graph" => out[Key(w)] = {}
  BY GoalIsWhole DEF Publish
<1>2. /\ out'[Key(w)] = Whole(job[w].graph)
      /\ \A k \in Kind \X Place : k # Key(w) => out'[k] = out[k]
      /\ Whole(job[w].graph) \in SUBSET (Graph \X File)
  BY <1>1, JobTypes DEF FilesInv, FilesTypeOK, Whole
<1>3. out' \in [Kind \X Place -> SUBSET (Graph \X File)]
  BY <1>1, <1>2 DEF FilesInv, FilesTypeOK
<1>4. j \in FileJob /\ Relies(j, out')
  <2>1. CASE job[w].kind = "graph"
    <3>1. j = NoJob
      BY <2>1
    <3>. QED
      BY <3>1 DEF FileJob, Relies, NoJob
  <2>2. CASE job[w].kind # "graph"
    <3>0. job[w] \in UnderWay /\ j = [job[w] EXCEPT !.at = "unlock"]
      BY <2>2, <1>1, JobTypes
    <3>1. j.at = "unlock" /\ j.kind = job[w].kind /\ j.place = job[w].place /\ j.graph = job[w].graph
      BY <3>0 DEF UnderWay
    <3>2. j \in FileJob
      BY <3>0 DEF FileJob, UnderWay
    <3>3. out'[<<job[w].kind, job[w].place>>] = Whole(job[w].graph)
      BY <1>2 DEF Key
    <3>4. out'[<<"bundle", job[w].place>>] = Whole(job[w].graph)
      <4>1. CASE job[w].kind = "archive"
        <5>1. out[<<"bundle", job[w].place>>] = Whole(job[w].graph)
          BY <4>1, <1>1, JobTypes DEF Relies
        <5>. QED
          BY <4>1, <5>1, <1>1, <1>2, JobTypes DEF Key, Kind
      <4>. QED
        BY <4>1, <2>2, <3>3, <1>1, JobTypes DEF Kind
    <3>. QED
      BY <3>1, <3>2, <3>3, <3>4, <2>2 DEF Relies
  <2>. QED
    BY <2>1, <2>2
<1>5. \A k \in Kind \X Place :
        out'[k] = out[k] \/ ((out[k] = {} \/ k[1] = "graph") /\ \E g \in Graph : out'[k] = Whole(g))
  BY <1>1, <1>2, JobTypes, <1>1 DEF Key
<1>6. Held(w)' = Held(w) /\ Held(w) \subseteq lock
  <2>1. job'[w] = j
    BY <1>1, JobTypes
  <2>2. CASE job[w].kind = "graph"
    BY <2>1, <2>2 DEF Held, NoJob
  <2>3. CASE job[w].kind # "graph"
    <3>1. job[w] \in UnderWay /\ j = [job[w] EXCEPT !.at = "unlock"]
      BY <2>3, <1>1, JobTypes
    <3>2. j.at = "unlock" /\ j.kind = job[w].kind /\ j.place = job[w].place
      BY <3>1 DEF UnderWay
    <3>3. Held(w)' = Held(w)
      BY <2>1, <2>3, <3>2, <1>1 DEF Held, Key
    <3>. QED
      BY <3>3 DEF FilesInv, LocksHaveHolders
  <2>. QED
    BY <2>2, <2>3
<1> HIDE DEF j
<1>7. /\ Become(w, j) /\ orphan' = orphan
      /\ lock' = (lock \ Held(w)) \cup Held(w)' /\ Held(w)' \cap (lock \ Held(w)) = {}
  BY <1>1, <1>6
<1>. QED
  BY <1>3, <1>4, <1>5, <1>7, RequestMoves

LEMMA ArchiveKept ==
  ASSUME FilesInv, NEW w \in Writer, Archive(w)
  PROVE  FilesInv'
<1> DEFINE j == [job[w] EXCEPT !.at = "lock", !.kind = "archive", !.staged = {}]
<1>1. j \in FileJob /\ Relies(j, out')
  <2>1. job[w].at \in {"lock", "stage", "unlock"} /\ UNCHANGED out
    BY DEF Archive
  <2>2. job[w] \in UnderWay /\ Relies(job[w], out)
    BY <2>1, JobTypes
  <2>3. j \in UnderWay
    BY <2>1, <2>2 DEF UnderWay, Kind
  <2>4. j.at = "lock" /\ j.kind = "archive"
    BY <2>2 DEF UnderWay
  <2>5. j.place = job[w].place /\ j.graph = job[w].graph
    BY <2>2 DEF UnderWay
  <2>. QED
    BY <2>2, <2>3, <2>4, <2>5, <2>1 DEF FileJob, Archive, Relies
<1>2. Held(w) = {Key(w)} /\ Held(w)' = {}
  <2>1. job[w].at = "unlock" /\ job[w].kind = "bundle" /\ job'[w] = j /\ j.at = "lock"
    BY JobTypes DEF Archive
  <2>. QED
    BY <2>1 DEF Held, Key
<1>3. Become(w, j) /\ UNCHANGED <<out, orphan>> /\ lock' = lock \ {Key(w)}
  BY DEF Archive
<1> HIDE DEF j
<1>. QED
  BY <1>1, <1>2, <1>3, RequestMoves DEF FilesInv, FilesTypeOK

LEMMA AnswerKept ==
  ASSUME FilesInv, NEW w \in Writer, Answer(w)
  PROVE  FilesInv'
<1> DEFINE j == [at |-> "answered", place |-> job[w].place, graph |-> job[w].graph]
<1>1. j \in FileJob /\ Relies(j, out')
  <2>1. job[w].at = "unlock" /\ job[w].kind = "archive" /\ UNCHANGED out
    BY DEF Answer
  <2>2. j \in FileJob
    BY <2>1, JobTypes DEF FileJob
  <2>. QED
    BY <2>1, <2>2, JobTypes DEF Relies
<1>2. Held(w) = {Key(w)} /\ Held(w)' = {}
  <2>1. job[w].at = "unlock" /\ job[w].kind = "archive" /\ job'[w] = j
    BY JobTypes DEF Answer
  <2>. QED
    BY <2>1 DEF Held, Key
<1>3. Become(w, j) /\ UNCHANGED <<out, orphan>> /\ lock' = lock \ {Key(w)}
  BY DEF Answer
<1> HIDE DEF j
<1>. QED
  BY <1>1, <1>2, <1>3, RequestMoves DEF FilesInv, FilesTypeOK

\* A request ends: with its answer, with an error, or with its process.
LEMMA EndKept ==
  ASSUME FilesInv, NEW w \in Writer, Return(w) \/ Fail(w) \/ Die(w)
  PROVE  FilesInv'
<1>1. NoJob \in FileJob /\ Relies(NoJob, out')
  BY DEF NoJob, Relies, FileJob
<1>2. Become(w, NoJob) /\ UNCHANGED out
  BY DEF Return, Fail, Die
<1>3. Held(w)' = {}
  BY <1>2, JobTypes DEF Held, NoJob
<1>4. Return(w) => Held(w) = {}
  BY DEF Held, Return
<1>. QED
  BY <1>1, <1>2, <1>3, <1>4, RequestMoves DEF FilesInv, FilesTypeOK, Return, Fail, Die

LEMMA RemoveKept ==
  ASSUME FilesInv, NEW k \in Kind, NEW p \in Place, Remove(k, p)
  PROVE  FilesInv'
<1>1. \A w \in Writer : Held(w)' = Held(w) /\ <<k, p>> \notin Held(w)
  <2>1. SUFFICES ASSUME NEW w \in Writer PROVE Held(w)' = Held(w) /\ <<k, p>> \notin Held(w)
    OBVIOUS
  <2>2. job[w] # NoJob => job[w].place # p
    BY DEF Remove
  <2>3. Held(w) # {} => job[w] # NoJob
    BY DEF Held, NoJob
  <2>. QED
    BY <2>2, <2>3 DEF Held, Key, Remove
<1>2. FilesTypeOK'
  BY DEF Remove, FilesInv, FilesTypeOK
<1>3. \A q \in Kind \X Place : out'[q] = IF q = <<k, p>> THEN {} ELSE out[q]
  BY DEF Remove, FilesInv, FilesTypeOK
<1>4. OutputsAreWhole'
  BY <1>3 DEF OutputsAreWhole, FilesInv
<1>5. JobsRely'
  <2>1. ASSUME NEW w \in Writer PROVE Relies(job[w], out')
    <3>1. job[w] \in FileJob /\ Relies(job[w], out)
      BY JobTypes
    <3>2. job[w] # NoJob => job[w].place # p /\ job[w].place \in Place
      BY <3>1 DEF Remove, FileJob, UnderWay
    <3>3. job[w] # NoJob => \A b \in {"bundle", "archive"} :
            out'[<<b, job[w].place>>] = out[<<b, job[w].place>>]
      BY <3>2, <1>3 DEF Kind
    <3>. QED
      BY <3>1, <3>3, StillRelies
  <2>. QED
    BY <2>1 DEF JobsRely, Remove
<1>6. LocksHaveHolders' /\ HeldAreNotOrphans'
  <2>1. lock' = lock \ {<<k, p>>} /\ orphan' = orphan \ {<<k, p>>}
    BY DEF Remove
  <2>2. (UNION {Held(w)' : w \in Writer}) = (UNION {Held(w) : w \in Writer})
    BY <1>1
  <2>3. <<k, p>> \notin UNION {Held(w) : w \in Writer}
    BY <1>1
  <2>4. lock' = (UNION {Held(w)' : w \in Writer}) \cup orphan'
    BY <2>1, <2>2, <2>3 DEF FilesInv, LocksHaveHolders
  <2>. QED
    BY <2>1, <2>4, <1>1 DEF FilesInv, LocksHaveHolders, HeldAreNotOrphans
<1>. QED
  BY <1>2, <1>4, <1>5, <1>6 DEF FilesInv

\* Everything but the files leaves them alone.
LEMMA FilesStay == FilesInv /\ UNCHANGED files => FilesInv'
<1>. SUFFICES ASSUME FilesInv, UNCHANGED files PROVE FilesInv'
  OBVIOUS
<1>1. \A w \in Writer : Held(w)' = Held(w)
  BY DEF Held, Key, files
<1>2. LocksHaveHolders' /\ HeldAreNotOrphans'
  BY <1>1 DEF FilesInv, LocksHaveHolders, HeldAreNotOrphans, files
<1>. QED
  BY <1>2 DEF FilesInv, FilesTypeOK, OutputsAreWhole, JobsRely, files

LEMMA FilesInvariant == WorkspaceSpec => []FilesInv
<1>1. WorkspaceInit => FilesInv
  BY FilesInitially DEF WorkspaceInit
<1>2. FilesInv /\ [WorkspaceNext]_workspace => FilesInv'
  <2>. SUFFICES ASSUME FilesInv, FilesNext PROVE FilesInv'
    BY FilesStay DEF WorkspaceNext, workspace, Restart
  <2>1. CASE \E w \in Writer, k \in Kind, p \in Place, g \in Graph : Begin(w, k, p, g)
    BY <2>1, BeginKept
  <2>2. CASE \E w \in Writer, x \in Graph \X File : Stage(w, x)
    BY <2>2, StageKept
  <2>3. ASSUME NEW w \in Writer, Lock(w) \/ Publish(w) \/ Archive(w) \/ Answer(w)
                 \/ Return(w) \/ Fail(w) \/ Die(w)
        PROVE  FilesInv'
    BY <2>3, LockKept, PublishKept, ArchiveKept, AnswerKept, EndKept
  <2>4. CASE \E k \in Kind, p \in Place : Remove(k, p)
    BY <2>4, RemoveKept
  <2>. QED
    BY <2>1, <2>2, <2>3, <2>4 DEF FilesNext
<1>. QED
  BY <1>1, <1>2, PTL DEF WorkspaceSpec

\* Whatever requests run, fail, die or are cleaned up after, what is in place is
\* whole, and an export that has succeeded has both its outputs there
\* (export_bundle, package_zip, save_graph).
THEOREM PublishedStaysWhole == WorkspaceSpec => []PublishedIsWhole
<1>1. FilesInv => PublishedIsWhole
  BY DEF FilesInv, OutputsAreWhole, JobsRely, Relies, PublishedIsWhole
<1>. QED
  BY <1>1, FilesInvariant, PTL

\* A lock file belongs to one request under way or to a dead process
\* (export_bundle, package_zip).
THEOREM LocksKeepHolders == WorkspaceSpec => []LocksHaveHolders
<1>1. FilesInv => LocksHaveHolders
  BY DEF FilesInv
<1>. QED
  BY <1>1, FilesInvariant, PTL

-----------------------------------------------------------------------------
(* The workspace: settings of providers                                    *)

\* The environment and the file hold values or nothing, and of each name that is
\* not excepted the same.
SettingsInv ==
  /\ env \in [Name -> Value \cup {None}]
  /\ dotenv \in [Name -> Value \cup {None}]
  /\ FileLagsOnlyThere

Files == [Name -> Value \cup {None}]

\* What is read of a file are values of one line, or nothing.
LEMMA LinesRead ==
  ASSUME NEW file \in Files
  PROVE  Lines(file) \in [Name -> {v \in Value \cup {None} : OneLine(v)}]
<1>1. SUFFICES ASSUME NEW n \in Name
               PROVE  Lines(file)[n] \in {v \in Value \cup {None} : OneLine(v)}
  BY DEF Lines
<1>2. CASE Sources(file, n) = {}
  BY <1>2 DEF Lines, OneLine
<1>3. CASE Sources(file, n) # {}
  <2>1. \E m \in Sources(file, n) : \A o \in Sources(file, n) : Listed[o] =< Listed[m]
    BY <1>3, SettingsAssumption DEF Sources
  <2>2. PICK m \in Sources(file, n) :
          Lines(file)[n] = IF Further[file[m]][n] # Same THEN Further[file[m]][n] ELSE Read[file[m]]
    BY <1>3, <2>1 DEF Lines
  <2>3. m \in Name /\ file[m] \in Value
    BY <2>2 DEF Sources, Files
  <2>. QED
    BY <2>2, <2>3, SettingsAssumption
<1>. QED
  BY <1>1, <1>2, <1>3

\* A name that no further line assigns to is read from its own line.
LEMMA OwnLine ==
  ASSUME NEW file \in Files, NEW n \in Name,
         \A m \in Name : file[m] = None \/ Further[file[m]][n] = Same
  PROVE  Core(Lines(file)[n]) = Core(file[n])
<1>1. CASE file[n] = None
  <2>1. Sources(file, n) = {}
    BY <1>1 DEF Sources
  <2>. QED
    BY <1>1, <2>1 DEF Lines
<1>2. CASE file[n] # None
  <2>1. Sources(file, n) = {n}
    BY <1>2 DEF Sources
  <2>2. Lines(file)[n] = Read[file[n]]
    BY <1>2, <2>1, SettingsAssumption DEF Lines
  <2>. QED
    BY <1>2, <2>2, SettingsAssumption DEF Files, Core
<1>. QED
  BY <1>1, <1>2

\* An update writes what it read, and what it was asked for.
LEMMA UpdateKeepsUp ==
  ASSUME SettingsInv, NEW request \in Requests, Update(request)
  PROVE  SettingsInv'
<1>. DEFINE names == Changed(request)
            lines == [n \in Name |-> IF n \in names THEN request[n] ELSE Parsed[n]]
<1>0. Parsed \in [Name -> {v \in Value \cup {None} : OneLine(v)}]
  BY LinesRead DEF SettingsInv, Files, Parsed
<1>1. names \subseteq Name /\ \A n \in names : request[n] \in Value \cup {None}
  BY DEF Changed, Requests
<1>2. /\ dotenv' = lines
      /\ env' = [n \in Name |-> IF n \in names THEN request[n] ELSE env[n]]
      /\ behind' = (behind \ names) \cup Astray(request)
  BY DEF Update, Put
<1>3. /\ env' \in [Name -> Value \cup {None}]
      /\ dotenv' \in [Name -> Value \cup {None}]
  BY <1>1, <1>2, <1>0 DEF SettingsInv
<1>4. ASSUME NEW n \in Name \ behind'
      PROVE  Core(Parsed'[n]) = Core(env'[n])
  <2>1. n \notin Astray(request) /\ (n \in names \/ n \notin behind)
    BY <1>2, <1>4
  <2>2. ASSUME NEW m \in Name
        PROVE  dotenv'[m] = None \/ Further[dotenv'[m]][n] = Same
    <3>1. CASE m \in names
      BY <1>2, <2>1, <3>1 DEF Astray, OneLine
    <3>2. CASE m \notin names
      BY <1>0, <1>2, <3>2 DEF OneLine
    <3>. QED
      BY <3>1, <3>2
  <2>4. Core(Parsed'[n]) = Core(dotenv'[n])
    BY <1>3, <2>2, OwnLine DEF Files, Parsed
  <2>5. CASE n \in names
    BY <1>2, <2>4, <2>5
  <2>6. CASE n \notin names
    <3>1. dotenv'[n] = Parsed[n] /\ env'[n] = env[n]
      BY <1>2, <2>6
    <3>2. Core(Parsed[n]) = Core(env[n])
      BY <2>1, <2>6 DEF SettingsInv, FileLagsOnlyThere
    <3>. QED
      BY <2>4, <3>1, <3>2
  <2>. QED
    BY <2>5, <2>6
<1>. QED
  BY <1>3, <1>4 DEF SettingsInv, FileLagsOnlyThere

\* An update that is refused, or that fails, changes names of the environment,
\* and they are excepted.
LEMMA EnvironmentMoves ==
  ASSUME SettingsInv, NEW request \in Requests, RefuseValue(request) \/ FailToSave(request)
  PROVE  SettingsInv'
<1>1. PICK names \in SUBSET Changed(request) :
        /\ env' = Put(env, request, names)
        /\ behind' = behind \cup names
        /\ UNCHANGED dotenv
  BY DEF RefuseValue, FailToSave
<1>2. names \subseteq Name /\ \A n \in names : request[n] \in Value \cup {None}
  BY DEF Changed, Requests
<1>3. env' = [n \in Name |-> IF n \in names THEN request[n] ELSE env[n]]
  BY <1>1 DEF Put
<1>4. Parsed' = Parsed
  BY <1>1 DEF Parsed
<1>5. env' \in [Name -> Value \cup {None}]
  BY <1>2, <1>3 DEF SettingsInv
<1>6. FileLagsOnlyThere'
  BY <1>1, <1>3, <1>4 DEF SettingsInv, FileLagsOnlyThere
<1>. QED
  BY <1>1, <1>5, <1>6 DEF SettingsInv

\* The server starts with the names of the file as they are read, or with none.
LEMMA LaunchReads ==
  ASSUME SettingsInv, NEW fromFile \in BOOLEAN, Launch(fromFile)
  PROVE  SettingsInv'
<1>1. Parsed' = Parsed
  BY DEF Launch, Parsed
<1>2. env' \in [Name -> Value \cup {None}]
  BY LinesRead DEF Launch, SettingsInv, Files, Parsed
<1>3. FileLagsOnlyThere'
  BY <1>1 DEF Launch, FileLagsOnlyThere
<1>. QED
  BY <1>2, <1>3 DEF Launch, SettingsInv

\* The .env file would be read as the settings in use, but for the names of
\* updates that did not come to their end, of values of several lines, and of a
\* start without the file (settings_api.py, update_provider_settings).
THEOREM FileLagsOnlyThen == WorkspaceSpec => []FileLagsOnlyThere
<1>1. WorkspaceInit => SettingsInv
  <2>. SUFFICES ASSUME SettingsInit PROVE SettingsInv
    BY DEF WorkspaceInit
  <2>1. \A n \in Name : Sources(dotenv, n) = {}
    BY DEF SettingsInit, Sources
  <2>. QED
    BY <2>1 DEF SettingsInit, SettingsInv, FileLagsOnlyThere, Parsed, Lines
<1>2. SettingsInv /\ [WorkspaceNext]_workspace => SettingsInv'
  <2>. SUFFICES ASSUME SettingsInv, [WorkspaceNext]_workspace
                PROVE  SettingsInv'
    OBVIOUS
  <2>1. CASE UNCHANGED settings
    BY <2>1 DEF settings, SettingsInv, FileLagsOnlyThere, Parsed
  <2>2. CASE SettingsNext
    BY <2>2, UpdateKeepsUp, EnvironmentMoves DEF SettingsNext
  <2>3. CASE Restart
    BY <2>3, LaunchReads DEF Restart
  <2>. QED
    BY <2>1, <2>2, <2>3 DEF WorkspaceNext, workspace
<1>3. SettingsInv => FileLagsOnlyThere
  BY DEF SettingsInv
<1>. QED
  BY <1>1, <1>2, <1>3, PTL DEF WorkspaceSpec

-----------------------------------------------------------------------------
(* The workspace: the index                                                *)

RebuildState == {Off} \cup [at : {"write"}, of : Nat] \cup [at : {"done"}]

IndexTypeOK ==
  /\ edition \in Nat
  /\ table \in [version : Nat, of : Nat]
  /\ rebuild \in [Rebuild -> RebuildState]

\* One rebuild at a time is past the service's lock.
OneRebuild ==
  \A r, q \in Rebuild :
    rebuild[r].at \in {"write", "done"} /\ rebuild[q].at \in {"write", "done"} => r = q

\* What is read is not older than what is on disk, and not newer than the files.
ReadingsAreInOrder ==
  /\ table.of =< edition
  /\ \A r \in Rebuild :
       rebuild[r].at = "write" => table.of =< rebuild[r].of /\ rebuild[r].of =< edition

IndexInv == IndexTypeOK /\ OneRebuild /\ ReadingsAreInOrder /\ RunningIsTrue

LEMMA IndexInitially == IndexInit => IndexInv
<1>. SUFFICES ASSUME IndexInit PROVE IndexInv
  OBVIOUS
<1>1. \A r \in Rebuild : rebuild[r].at = "off"
  BY DEF IndexInit, Off
<1>2. IndexTypeOK
  BY DEF IndexInit, IndexTypeOK, RebuildState
<1>. QED
  BY <1>1, <1>2 DEF IndexInit, IndexInv, OneRebuild, ReadingsAreInOrder, RunningIsTrue

\* One rebuild moves on.
LEMMA RebuildMoves ==
  ASSUME IndexInv, NEW r \in Rebuild, Scan(r) \/ Commit(r) \/ Succeed(r) \/ Abort(r)
  PROVE  IndexInv' /\ (table' # table => Commit(r) /\ table'.of >= table.of
                                            /\ table'.version = table.version + 1)
<1>. USE DEF IndexInv
<1>0. /\ rebuild \in [Rebuild -> RebuildState]
      /\ \A q : Turn(r, q) => rebuild'[r] = q /\ \A s \in Rebuild \ {r} : rebuild'[s] = rebuild[s]
  BY DEF IndexTypeOK, Turn
<1>1. CASE Scan(r)
  <2>1. \/ UNCHANGED rebuild /\ (status' = "failed" \/ broken' = TRUE)
        \/ rebuild' = [rebuild EXCEPT ![r] = [at |-> "write", of |-> edition]]
    BY <1>1 DEF Scan, Turn
  <2>2. \A q \in Rebuild : rebuild[q].at \notin {"write", "done"}
    BY <1>1 DEF Scan, Locked
  <2>3. CASE UNCHANGED rebuild /\ (status' = "failed" \/ broken' = TRUE)
    BY <1>1, <2>3 DEF Scan, IndexTypeOK, OneRebuild, ReadingsAreInOrder, RunningIsTrue
  <2>4. CASE rebuild' = [rebuild EXCEPT ![r] = [at |-> "write", of |-> edition]]
    <3>1. rebuild'[r] = [at |-> "write", of |-> edition] /\ \A s \in Rebuild \ {r} : rebuild'[s] = rebuild[s]
      BY <2>4, <1>0
    <3>2. IndexTypeOK'
      BY <1>1, <2>4 DEF Scan, IndexTypeOK, RebuildState
    <3>3. OneRebuild'
      BY <2>2, <3>1 DEF OneRebuild
    <3>4. ReadingsAreInOrder'
      BY <1>1, <2>2, <3>1 DEF Scan, ReadingsAreInOrder, IndexTypeOK
    <3>5. RunningIsTrue'
      BY <3>1 DEF RunningIsTrue, Locked
    <3>. QED
      BY <1>1, <3>2, <3>3, <3>4, <3>5 DEF Scan
  <2>. QED
    BY <2>1, <2>3, <2>4
<1>2. CASE Commit(r)
  <2>1. /\ rebuild'[r] = [at |-> "done"] /\ \A s \in Rebuild \ {r} : rebuild'[s] = rebuild[s]
        /\ table' = [version |-> table.version + 1, of |-> rebuild[r].of]
        /\ rebuild[r].at = "write" /\ UNCHANGED <<edition, status, broken>>
    BY <1>2, <1>0 DEF Commit
  <2>2. rebuild[r].of \in Nat /\ table.of \in Nat /\ table.version \in Nat /\ edition \in Nat
    BY <2>1 DEF IndexTypeOK, RebuildState, Off
  <2>3. IndexTypeOK'
    BY <1>2, <2>1, <2>2 DEF Commit, Turn, IndexTypeOK, RebuildState
  <2>4. \A s \in Rebuild \ {r} : rebuild[s].at \notin {"write", "done"}
    BY <2>1 DEF OneRebuild
  <2>5. OneRebuild' /\ ReadingsAreInOrder' /\ RunningIsTrue'
    BY <2>1, <2>2, <2>4 DEF OneRebuild, ReadingsAreInOrder, RunningIsTrue, Locked
  <2>6. table'.of >= table.of /\ table'.version = table.version + 1
    BY <2>1, <2>2 DEF ReadingsAreInOrder
  <2>. QED
    BY <1>2, <2>3, <2>5, <2>6
<1>3. CASE Succeed(r) \/ Abort(r)
  <2>1. /\ rebuild' = [rebuild EXCEPT ![r] = Off] /\ UNCHANGED <<edition, table>>
        /\ status' \in {"succeeded", "failed"} \/ broken' = TRUE
    BY <1>3 DEF Succeed, Abort, Turn
  <2>2. rebuild'[r] = Off /\ \A s \in Rebuild \ {r} : rebuild'[s] = rebuild[s]
    BY <2>1, <1>0
  <2>3. IndexTypeOK'
    BY <2>1 DEF IndexTypeOK, RebuildState
  <2>. QED
    BY <2>1, <2>2, <2>3 DEF OneRebuild, ReadingsAreInOrder, RunningIsTrue, Off
<1>. QED
  BY <1>1, <1>2, <1>3

\* A new edition of the workspace, a pause, a restart, or something else.
LEMMA IndexWaits ==
  ASSUME IndexInv, Change \/ Pause \/ Resume \/ Reopen \/ UNCHANGED index
  PROVE  IndexInv' /\ UNCHANGED table
<1>. USE DEF IndexInv
<1>1. CASE Change
  <2>1. edition \in Nat /\ edition' = edition + 1 /\ UNCHANGED <<table, status, rebuild, broken>>
    BY <1>1 DEF Change, IndexTypeOK
  <2>2. IndexTypeOK' /\ OneRebuild' /\ RunningIsTrue'
    BY <2>1 DEF IndexTypeOK, OneRebuild, RunningIsTrue, Locked
  <2>3. \A r \in Rebuild : rebuild[r].at = "write" => rebuild[r].of \in Nat
    BY DEF IndexTypeOK, RebuildState, Off
  <2>4. ReadingsAreInOrder'
    BY <2>1, <2>3 DEF ReadingsAreInOrder, IndexTypeOK
  <2>. QED
    BY <2>1, <2>2, <2>4
<1>2. CASE Pause \/ Resume \/ UNCHANGED index
  BY <1>2 DEF Pause, Resume, index, IndexTypeOK, OneRebuild, ReadingsAreInOrder, RunningIsTrue, Locked
<1>3. CASE Reopen
  <2>1. \A r \in Rebuild : rebuild'[r].at = "off"
    BY <1>3 DEF Reopen, Off
  <2>2. IndexTypeOK'
    BY <1>3 DEF Reopen, IndexTypeOK, RebuildState
  <2>. QED
    BY <1>3, <2>1, <2>2 DEF Reopen, OneRebuild, ReadingsAreInOrder, RunningIsTrue
<1>. QED
  BY <1>1, <1>2, <1>3

LEMMA IndexStep ==
  ASSUME IndexInv, [WorkspaceNext]_workspace
  PROVE  IndexInv' /\ (table' = table \/ (table'.of >= table.of /\ table'.version = table.version + 1))
<1>1. CASE \E r \in Rebuild : Scan(r) \/ Commit(r) \/ Succeed(r) \/ Abort(r)
  BY <1>1, RebuildMoves
<1>2. CASE Change \/ Pause \/ Resume \/ Reopen \/ UNCHANGED index
  BY <1>2, IndexWaits
<1>. QED
  BY <1>1, <1>2 DEF WorkspaceNext, workspace, IndexNext, Restart

LEMMA IndexInvariant == WorkspaceSpec => []IndexInv
<1>1. WorkspaceInit => IndexInv
  BY IndexInitially DEF WorkspaceInit
<1>. QED
  BY <1>1, IndexStep, PTL DEF WorkspaceSpec

\* The status says "running" only while a rebuild is past the lock, or after one
\* that was ended by what the service does not handle (service.py, rebuild).
THEOREM RunningStaysTrue == WorkspaceSpec => []RunningIsTrue
<1>1. IndexInv => RunningIsTrue
  BY DEF IndexInv
<1>. QED
  BY <1>1, IndexInvariant, PTL

\* The index never goes back to an older reading, with any number of rebuilds,
\* failures, pauses and restarts (service.py, rebuild; writer.py, rebuild).
THEOREM IndexGoesForward == WorkspaceSpec => IndexNeverGoesBack
<1>1. IndexInv /\ [WorkspaceNext]_workspace =>
        [table'.of >= table.of /\ table'.version >= table.version]_index
  <2>. SUFFICES ASSUME IndexInv, [WorkspaceNext]_workspace
                PROVE  table'.of >= table.of /\ table'.version >= table.version
    OBVIOUS
  <2>1. table.of \in Nat /\ table.version \in Nat
    BY DEF IndexInv, IndexTypeOK
  <2>. QED
    BY <2>1, IndexStep
<1>. QED
  BY <1>1, IndexInvariant, PTL DEF WorkspaceSpec, IndexNeverGoesBack
=============================================================================
