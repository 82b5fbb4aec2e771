---------------------------- MODULE GraphRunner -----------------------------
(***************************************************************************)
(* One run of one graph: the interpreter loop of GraphRunner, and the      *)
(* pause, resume, cancel calls and the clock that act on it meanwhile.     *)
(*                                                                         *)
(* The run is a coroutine.  It gives way to other callers where it really  *)
(* suspends: at a cleared resume event, in a provider or tool call, and in *)
(* the sleep after each node.  From one such point to the next the code is *)
(* one step here.  A wait on an event that is set does not suspend; a wait *)
(* that has been woken goes on even if the event was cleared again.        *)
(*                                                                         *)
(* Loop conditions are abstracted to a free choice, the contents of the    *)
(* agent state to nothing; a node of any kind but loop may fail.           *)
(***************************************************************************)
EXTENDS ForgeGraph

CONSTANTS
  Graphs,     \* well-formed graphs, valid or not
  StepCap     \* CAPS.max_nodes * CAPS.max_loop_iterations

ASSUME GraphAssumption ==
  /\ \A g \in Graphs : WellFormed(g) /\ NoRoute \notin Nodes(g)
  /\ NoHandle \notin {"true", "false", "fallback"}
  /\ StepCap \in Nat

VARIABLES
  graph,        \* the graph
  pc,           \* where the coroutine is
  current,      \* the node to run, or running
  steps,        \* nodes begun
  loopCounts,   \* [loop nodes of the graph -> turns taken]
  cancelled,    \* _cancelled
  paused,       \* _paused; the resume event is set exactly when it is FALSE
  late,         \* max_run_seconds have passed since run() began
  status,       \* the run's last public state
  begunPaused   \* history: nodes begun since the pause in force

flags == <<cancelled, paused, late>>
vars == <<graph, pc, current, steps, loopCounts, flags, status, begunPaused>>

Places == {"created", "head", "blocked", "woken", "service", "done"}
RunState == {"created", "running", "succeeded", "failed", "cancelled",
             "limit_exceeded"}

Kind == graph.type[current]

Init ==
  /\ graph \in Graphs
  /\ pc = "created"
  /\ current = Start(graph)
  /\ steps = 0
  /\ loopCounts = [l \in Loops(graph) |-> 0]
  /\ cancelled = FALSE /\ paused = FALSE /\ late = FALSE
  /\ status = "created"
  /\ begunPaused = 0

-----------------------------------------------------------------------------
(* The coroutine                                                           *)

End(result) ==
  /\ pc' = "done"
  /\ status' = result

\* What validate_graph accepts.
Accepted == {g \in Graphs : Valid(g)}

\* run() up to the loop: the graph is validated again.
Validate ==
  /\ pc = "created"
  /\ IF graph \in Accepted THEN pc' = "head" /\ status' = "running" ELSE End("failed")
  /\ UNCHANGED <<graph, current, steps, loopCounts, flags, begunPaused>>

Succeed ==
  /\ pc = "head" /\ Kind = "output"
  /\ End("succeeded")
  /\ UNCHANGED <<graph, current, steps, loopCounts, flags, begunPaused>>

Wait ==
  /\ pc = "head" /\ Kind # "output" /\ paused
  /\ pc' = "blocked"
  /\ UNCHANGED <<graph, current, steps, loopCounts, flags, status, begunPaused>>

\* Mutant: the loop does not wait; a pause is noticed only by sleepers.
PastUnheld == pc \in {"woken", "head"} /\ Kind # "output"

\* Past the wait: the event was set, or has been since.
Past ==
  \/ pc = "woken"
  \/ pc = "head" /\ Kind # "output" /\ ~paused

\* The checks made before a node, in their order.
Stop ==
  /\ Past
  /\ \/ cancelled /\ End("cancelled")
     \/ ~cancelled /\ late /\ End("limit_exceeded")
     \/ ~cancelled /\ ~late /\ steps >= StepCap /\ End("limit_exceeded")
  /\ UNCHANGED <<graph, current, steps, loopCounts, flags, begunPaused>>

\* Mutant: the cap on steps is not looked at.
BeginUncapped ==
  /\ Past /\ ~cancelled /\ ~late
  /\ steps' = steps + 1
  /\ begunPaused' = IF paused THEN begunPaused + 1 ELSE 0

\* Mutant: steps are not counted.
BeginUncounted ==
  /\ Past /\ ~cancelled /\ ~late /\ steps < StepCap
  /\ begunPaused' = IF paused THEN begunPaused + 1 ELSE 0
  /\ UNCHANGED steps

Begin ==
  /\ Past /\ ~cancelled /\ ~late /\ steps < StepCap
  /\ steps' = steps + 1
  /\ begunPaused' = IF paused THEN begunPaused + 1 ELSE 0

\* Leave the node through the edge chosen, or fail for want of one.
GoTo(target) ==
  IF target = NoRoute
    THEN End("failed") /\ UNCHANGED current
    ELSE current' = target /\ pc' = "head" /\ UNCHANGED status

\* A node that does its work without suspending.
RunPlain ==
  /\ Kind \in {"start", "reducer", "rag"}
  /\ Begin
  /\ \/ GoTo(Choose(graph, current, NoHandle))
     \/ Kind # "start" /\ End("failed") /\ UNCHANGED current
  /\ UNCHANGED <<graph, loopCounts, flags>>

\* A node that awaits a provider or a tool, or finds that it has none.
CallService ==
  /\ Kind \in {"llm", "tool"}
  /\ Begin
  /\ \/ pc' = "service" /\ UNCHANGED status
     \/ End("failed")
  /\ UNCHANGED <<graph, current, loopCounts, flags>>

ServiceReturns ==
  /\ pc = "service"
  /\ \/ GoTo(Choose(graph, current, NoHandle))
     \/ End("failed") /\ UNCHANGED current
  /\ UNCHANGED <<graph, steps, loopCounts, flags, begunPaused>>

\* Mutant: one turn more than the limit.
RunLoopOneMore ==
  /\ Kind = "loop"
  /\ Begin
  /\ IF loopCounts[current] > graph.max[current]
       THEN /\ GoTo(Choose(graph, current, "fallback"))
            /\ UNCHANGED loopCounts
       ELSE /\ \E branch \in {"true", "false"} :
                 GoTo(Choose(graph, current, branch))
            /\ loopCounts' = [loopCounts EXCEPT ![current] = @ + 1]
  /\ UNCHANGED <<graph, flags>>

RunLoop ==
  /\ Kind = "loop"
  /\ Begin
  /\ IF loopCounts[current] >= graph.max[current]
       THEN /\ GoTo(Choose(graph, current, "fallback"))
            /\ UNCHANGED loopCounts
       ELSE /\ \E branch \in {"true", "false"} :
                 GoTo(Choose(graph, current, branch))
            /\ loopCounts' = [loopCounts EXCEPT ![current] = @ + 1]
  /\ UNCHANGED <<graph, flags>>

Advance ==
  \/ Validate \/ Succeed \/ Wait \/ Stop
  \/ RunPlain \/ CallService \/ ServiceReturns \/ RunLoop

-----------------------------------------------------------------------------
(* What other callers and the clock do                                     *)

Pause ==
  /\ paused' = TRUE
  /\ UNCHANGED <<graph, pc, current, steps, loopCounts, cancelled, late, status,
                 begunPaused>>

Resume ==
  /\ paused' = FALSE
  /\ pc' = IF pc = "blocked" THEN "woken" ELSE pc
  /\ begunPaused' = 0
  /\ UNCHANGED <<graph, current, steps, loopCounts, cancelled, late, status>>

Cancel ==
  /\ cancelled' = TRUE
  /\ UNCHANGED <<graph, pc, current, steps, loopCounts, paused, late, status,
                 begunPaused>>

TimeUp ==
  /\ pc \notin {"created", "done"}
  /\ late' = TRUE
  /\ UNCHANGED <<graph, pc, current, steps, loopCounts, cancelled, paused, status,
                 begunPaused>>

Next == Advance \/ Pause \/ Resume \/ Cancel \/ TimeUp

\* The event loop runs a coroutine that is ready, and a provider or tool call
\* ends: both have time limits of their own.
Fairness == WF_vars(Advance)

Spec == Init /\ [][Next]_vars /\ Fairness

-----------------------------------------------------------------------------
(* Properties                                                              *)

\* The shape of the run's state.
TypeOK ==
  /\ graph \in Graphs
  /\ pc \in Places
  /\ current \in Nodes(graph)
  /\ steps \in 0 .. StepCap
  /\ loopCounts \in [Loops(graph) -> Nat]
  /\ cancelled \in BOOLEAN /\ paused \in BOOLEAN /\ late \in BOOLEAN
  /\ status \in RunState
  /\ begunPaused \in Nat

\* No wake-up is lost: a run that sleeps at the resume event is a paused run,
\* in whatever order pause, resume and the loop came (engine.py, pause, resume
\* and the wait in run).
SleepsOnlyIfPaused == pc = "blocked" => paused

\* Pausing stops the run before its next node, but for one that a resume has
\* let through already: a pause that comes before the woken run is scheduled
\* does not hold it back.
PauseStartsAtMostOne == begunPaused <= 1

\* A pause is kept as long as it lasts, and no longer (engine.py, pause, resume
\* and the wait in run): both of the above.
PauseIsKept == SleepsOnlyIfPaused /\ PauseStartsAtMostOne

\* The validator makes the runner safe: in a validated graph a loop node never
\* fails for want of an edge, whichever way its condition and its count point.
LoopAlwaysRoutes ==
  [][status = "running" /\ Kind = "loop" /\ steps' # steps => status' # "failed"]_vars

\* A run is a walk along edges from the start node to the output, with no more
\* turns through a loop node than it allows, left by a fallback edge.
Walk == INSTANCE GovernedWalk WITH
  at <- current,
  turns <- loopCounts,
  outcome <- CASE status \in {"created", "running"} -> "going"
               [] status = "succeeded" -> "succeeded"
               [] OTHER -> "stopped"

ImplementsGovernedWalk == Walk!Spec

\* A run ends: through a cycle that no loop node governs, through a fallback
\* that leads back into its loop, and whatever the order of pauses and resumes,
\* unless it is left paused.
RunEnds == <>[]~paused => <>(pc = "done")
=============================================================================
