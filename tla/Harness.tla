------------------------------ MODULE Harness -------------------------------
(***************************************************************************)
(* The coding harness: plans that clients advance step by step along a     *)
(* template, and the gates that some of the steps wait for.                *)
(*                                                                         *)
(* advance reads the plan; if the plan awaits a gate it consumes the gate  *)
(* that the request names, which takes time, compares the gate's binding   *)
(* with the step it had read, and lets the planner advance the plan as it  *)
(* is by then.  Without a gate to wait for advance is one step.            *)
(*                                                                         *)
(* Plans share one template, which an import may replace at any time. The  *)
(* gates are those of GateContract, each bound to a plan, a step and its   *)
(* action.  Reports and diffs are left out, and so is the end of the       *)
(* process, with which all plans are gone.                                 *)
(***************************************************************************)
EXTENDS Integers, Sequences

CONSTANTS
  Plan,        \* plan ids
  Versions,    \* templates that may be imported under one id
  Caller,      \* requests that wait for a gate at the same time
  Gate,
  For,         \* [Gate -> [plan, step, action]]
  NoGate       \* a step was passed without a gate

ActionName == {"inspect", "edit", "test", "git_commit", "git_push"}
StepPolicy == [action : ActionName, gated : BOOLEAN, attempts : 1 .. 5]

\* What the template validator accepts.
Publishing == {"git_commit", "git_push"}
ValidTemplate(t) ==
  /\ t \in Seq(StepPolicy) /\ Len(t) \in 1 .. 16
  /\ \A i \in DOMAIN t : t[i].action \in Publishing => t[i].gated

ASSUME HarnessAssumption ==
  /\ \A t \in Versions : ValidTemplate(t)
  /\ For \in [Gate -> [plan : Plan, step : 1 .. 16, action : ActionName]]
  /\ NoGate \notin Gate

VARIABLES
  template,    \* the template as last imported
  plan,        \* [Plan -> the plan's record]
  call,        \* [Caller -> the request that waits for its gate]
  grant, over, served,    \* the gates, as in GateContract
  passed       \* history: steps passed, with the gate that let them pass

gates == <<grant, over, served>>
vars == <<template, plan, call, gates, passed>>

Gates == INSTANCE GateContract

Absent == [status |-> "absent"]
Idle == [at |-> "idle"]
Terminal == {"succeeded", "failed"}

PlanRecord ==
  [step : 1 .. 16, attempt : 0 .. 5, gate : {"not_required", "required", "approved"},
   status : {"planned", "running", "awaiting_gate"} \cup Terminal]

Call ==
  {Idle} \cup [at : {"gate", "gated"}, plan : Plan, gate : Gate, step : 1 .. 16,
               action : ActionName]

Init ==
  /\ template \in Versions
  /\ plan = [p \in Plan |-> Absent]
  /\ call = [c \in Caller |-> Idle]
  /\ Gates!Init
  /\ passed = {}

-----------------------------------------------------------------------------
(* The planner                                                             *)

\* A plan that comes to a step: it awaits a gate, or has the given status.
Entered(step, status) ==
  IF template[step].gated
    THEN [step |-> step, attempt |-> 0, gate |-> "required", status |-> "awaiting_gate"]
    ELSE [step |-> step, attempt |-> 0, gate |-> "not_required", status |-> status]

\* Mutant: one attempt more than the step allows.
TriedOnceMore(P, ok) ==
  LET policy == template[P.step] IN
  IF policy.action = "test" /\ ~ok
    THEN [P EXCEPT !.attempt = @ + 1,
                   !.status = IF P.attempt + 1 > policy.attempts THEN "failed"
                              ELSE "running"]
    ELSE IF P.step = Len(template)
      THEN [P EXCEPT !.status = "succeeded"]
      ELSE Entered(P.step + 1, "running")

\* The plan after its step was tried with the given outcome of a test.
Tried(P, ok) ==
  LET policy == template[P.step] IN
  IF policy.action = "test" /\ ~ok
    THEN [P EXCEPT !.attempt = @ + 1,
                   !.status = IF P.attempt + 1 >= policy.attempts THEN "failed"
                              ELSE "running"]
    ELSE IF P.step = Len(template)
      THEN [P EXCEPT !.status = "succeeded"]
      ELSE Entered(P.step + 1, "running")

Waits(P) == P.status = "awaiting_gate"

\* The planner takes up a plan, with the gate that allowed it: a step behind the
\* end of a shorter template makes it raise.
TakeUp(p, by) ==
  LET P == plan[p] IN
  /\ P.step \in DOMAIN template
  /\ \E ok \in BOOLEAN :
       LET Q == Tried(IF Waits(P) THEN [P EXCEPT !.status = "running",
                                                 !.gate = "approved"] ELSE P, ok)
       IN /\ plan' = [plan EXCEPT ![p] = Q]
          /\ passed' = IF Q.step # P.step \/ Q.status = "succeeded"
                         THEN passed \cup {[plan |-> p, step |-> P.step, by |-> by,
                                            waited |-> Waits(P),
                                            action |-> template[P.step].action]}
                         ELSE passed

\* Mutant: a plan that is over is advanced again.
AdvanceAgain(p, by) == TakeUp(p, by)

\* HarnessPlanner.advance.
Advance(p, by) == plan[p].status \notin Terminal /\ TakeUp(p, by)

-----------------------------------------------------------------------------
(* Requests                                                                *)

Import(t) ==
  /\ template' = t
  /\ UNCHANGED <<plan, call, gates, passed>>

Create(p) ==
  /\ plan[p] = Absent
  /\ plan' = [plan EXCEPT ![p] = Entered(1, "planned")]
  /\ UNCHANGED <<template, call, gates, passed>>

\* A plan that awaits no gate is advanced at once.
AdvanceFreely(p) ==
  /\ plan[p] # Absent /\ ~Waits(plan[p])
  /\ Advance(p, NoGate)
  /\ UNCHANGED <<template, call, gates>>

\* A request for a plan that awaits a gate, with a gate: what the gate has to be
\* bound to is read before it is consumed.
AskAdvance(c, p, g) ==
  /\ call[c] = Idle
  /\ plan[p] # Absent /\ Waits(plan[p])
  /\ plan[p].step \in DOMAIN template
  /\ call' = [call EXCEPT ![c] =
                [at |-> "gate", plan |-> p, gate |-> g, step |-> plan[p].step,
                 action |-> template[plan[p].step].action]]
  /\ UNCHANGED <<template, plan, gates, passed>>

UseGate(c) ==
  /\ call[c].at = "gate"
  /\ Gates!Use(call[c].gate)
  /\ call' = [call EXCEPT ![c].at = "gated"]
  /\ UNCHANGED <<template, plan, passed>>

\* Mutant: the gate's binding names no plan.
BoundToStep(q) == For[q.gate].step = q.step /\ For[q.gate].action = q.action

\* The gate is bound to the plan and to the step and action that were read.
Bound(q) == For[q.gate] = [plan |-> q.plan, step |-> q.step, action |-> q.action]

AdvanceGated(c) ==
  LET q == call[c] IN
  /\ q.at = "gated" /\ Bound(q)
  /\ Advance(q.plan, q.gate)
  /\ call' = [call EXCEPT ![c] = Idle]
  /\ UNCHANGED <<template, gates>>

\* The gate is refused or not bound to the step, the request is for another
\* session, the plan is over by then, or the request is aborted.
Refuse(c) ==
  /\ call[c] # Idle
  /\ call' = [call EXCEPT ![c] = Idle]
  /\ UNCHANGED <<template, plan, gates, passed>>

\* What becomes of gates apart from their use.
GateMoves ==
  /\ \/ \E g \in Gate : Gates!Offer(g) \/ Gates!Grant(g)
     \/ \E S \in SUBSET Gate : Gates!Close(S)
     \/ Gates!Pass
  /\ UNCHANGED <<template, plan, call, passed>>

Next ==
  \/ \E t \in Versions : Import(t)
  \/ \E p \in Plan : Create(p) \/ AdvanceFreely(p)
  \/ \E c \in Caller, p \in Plan, g \in Gate : AskAdvance(c, p, g)
  \/ \E c \in Caller : UseGate(c) \/ AdvanceGated(c) \/ Refuse(c)
  \/ GateMoves

Spec == Init /\ [][Next]_vars

-----------------------------------------------------------------------------
(* Properties                                                              *)

\* The shape of templates, plans and of the requests that wait.
TypeOK ==
  /\ template \in Versions
  /\ plan \in [Plan -> {Absent} \cup PlanRecord]
  /\ call \in [Caller -> Call]
  /\ grant \in [Gate -> Gates!Stage] /\ over \subseteq Gate
  /\ served \in [Gate -> Nat]
  /\ passed \subseteq [plan : Plan, step : 1 .. 16, by : Gate \cup {NoGate},
                       waited : BOOLEAN, action : ActionName]

\* A step that waited for a gate was passed with a used gate of the same plan,
\* and a gate lets one step pass, though requests race (service.py, advance).
GateLetsOneStepPass ==
  /\ \A r \in passed : r.waited =>
       r.by \in Gate /\ For[r.by].plan = r.plan /\ grant[r.by] = "used"
  /\ \A q, r \in passed : q.by = r.by /\ q.by \in Gate => q = r

\* Whatever requests race and whatever is imported meanwhile, a plan goes
\* forward: to the next step, to a further attempt, to a gate or to its end,
\* and a plan that is over stays as it is (planner.py, advance).
PlansGoForward ==
  [][\A p \in Plan : plan[p] # Absent /\ plan'[p] # plan[p] =>
       LET P == plan[p]
           Q == plan'[p]
       IN /\ P.status \notin Terminal
          /\ \/ Q.step = P.step + 1 /\ Q.attempt = 0
             \/ Q.step = P.step /\ Q.attempt = P.attempt + 1
             \/ Q.step = P.step /\ Q.attempt = P.attempt /\ Q.status = "succeeded"]_vars

\* The repair loop is bounded: a plan that runs has attempts left at its step by
\* some template of those that may be imported under the id, whichever one is in
\* force now and whichever one counted its attempts (planner.py, the test step).
RepairsAreBounded ==
  \A p \in Plan : plan[p].status = "running" =>
    \E t \in Versions : /\ plan[p].step \in DOMAIN t
                        /\ plan[p].attempt < t[plan[p].step].attempts
=============================================================================
