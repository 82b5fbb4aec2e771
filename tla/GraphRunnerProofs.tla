------------------------- MODULE GraphRunnerProofs --------------------------
(***************************************************************************)
(* Proofs about the server's graph runner and about the life of a graph,   *)
(* for any graphs, any answers of models and any caps.                     *)
(*                                                                         *)
(* Of GraphRunner: no wake-up is lost, a pause lets one node begin at      *)
(* most, a loop node always finds an edge, and every run is a governed     *)
(* walk. PauseStartsAtMostOne is not inductive.  PauseInv adds why:        *)
(* nothing has begun under a pause while the run is only woken, and while  *)
(* it is not paused.  That a loop node finds its edge rests on the graph   *)
(* having been accepted before the run went on (RunInv), and on the choice *)
(* finding an edge wherever there is one (RouteExists).                    *)
(*                                                                         *)
(* Of GraphLife: what the validator's search reports is right.  SearchInv  *)
(* is why: the stack is a path of distinct nodes from the start node, what *)
(* has been followed leads to a node that is visited or on the stack, and  *)
(* while nothing is reported and there are no loop nodes, what is visited  *)
(* leads only to what is visited.  What becomes of a graph afterwards      *)
(* rests on LifeInv: a repair keeps the contract but for edges to nowhere  *)
(* (Proper), a synthesized graph has no fault (Flawless), and an           *)
(* exportable graph has one way out of every node (OneWay).                *)
(***************************************************************************)
EXTENDS GraphRunner, GraphLife, FiniteSetTheorems, WellFoundedInduction,
        SequenceTheorems, TLAPS

ShapeOK ==
  /\ pc \in Places
  /\ paused \in BOOLEAN
  /\ begunPaused \in Nat

PauseInv ==
  /\ ShapeOK
  /\ SleepsOnlyIfPaused
  /\ PauseStartsAtMostOne
  /\ pc = "woken" \/ ~paused => begunPaused = 0

\* The inductive invariant holds initially.
LEMMA InitPauseInv == Init => PauseInv
<1> SUFFICES ASSUME Init PROVE PauseInv
  OBVIOUS
<1>1. begunPaused = 0 /\ begunPaused \in Nat /\ PauseStartsAtMostOne
  BY DEF Init, PauseStartsAtMostOne
<1>2. pc \in Places /\ SleepsOnlyIfPaused
  BY DEF Init, Places, SleepsOnlyIfPaused
<1>3. paused \in BOOLEAN
  BY DEF Init
<1> QED
  BY <1>1, <1>2, <1>3 DEF PauseInv, ShapeOK

\* To begin a node the run must have been let through, or not be paused.
LEMMA BeginStep ==
  ASSUME PauseInv, Begin, pc' \in {"head", "service", "done"}, UNCHANGED paused
  PROVE  PauseInv'
<1> USE DEF PauseInv, ShapeOK, SleepsOnlyIfPaused, PauseStartsAtMostOne, Places
<1>1. begunPaused = 0
  BY DEF Begin, Past
<1>2. begunPaused' = IF paused THEN 1 ELSE 0
  BY <1>1 DEF Begin
<1> QED
  BY <1>2

\* Every step keeps the invariant.
LEMMA NextPauseInv == PauseInv /\ [Next]_vars => PauseInv'
<1> SUFFICES ASSUME PauseInv, [Next]_vars PROVE PauseInv'
  OBVIOUS
<1> USE DEF PauseInv, ShapeOK, SleepsOnlyIfPaused, PauseStartsAtMostOne, Places, flags
<1>1. CASE Validate
  BY <1>1 DEF Validate, End
<1>2. CASE Succeed
  BY <1>2 DEF Succeed, End
<1>3. CASE Wait
  BY <1>3 DEF Wait
<1>4. CASE Stop
  BY <1>4 DEF Stop, End
<1>5. CASE RunPlain
  BY <1>5, BeginStep DEF RunPlain, GoTo, End
<1>6. CASE CallService
  BY <1>6, BeginStep DEF CallService, End
<1>7. CASE ServiceReturns
  BY <1>7 DEF ServiceReturns, GoTo, End
<1>8. CASE RunLoop
  BY <1>8, BeginStep DEF RunLoop, GoTo, End
<1>9. CASE Pause
  BY <1>9 DEF Pause
<1>10. CASE Resume
  <2>1. begunPaused' = 0 /\ begunPaused' \in Nat /\ PauseStartsAtMostOne'
    BY <1>10 DEF Resume
  <2>2. pc' \in Places /\ pc' # "blocked"
    BY <1>10 DEF Resume
  <2>3. paused' \in BOOLEAN
    BY <1>10 DEF Resume
  <2> QED
    BY <2>1, <2>2, <2>3
<1>11. CASE Cancel
  BY <1>11 DEF Cancel
<1>12. CASE TimeUp
  BY <1>12 DEF TimeUp
<1>13. CASE UNCHANGED vars
  BY <1>13 DEF vars
<1> QED
  BY <1>1, <1>2, <1>3, <1>4, <1>5, <1>6, <1>7, <1>8, <1>9, <1>10, <1>11, <1>12,
     <1>13 DEF Next, Advance

\* The inductive invariant holds in every reachable state.
THEOREM PauseInvariant == Spec => []PauseInv
BY InitPauseInv, NextPauseInv, PTL DEF Spec

\* A run that sleeps at its resume event is a paused run.
THEOREM NoWakeUpLost == Spec => []SleepsOnlyIfPaused
<1>1. PauseInv => SleepsOnlyIfPaused
  BY DEF PauseInv
<1> QED
  BY <1>1, PauseInvariant, PTL

\* A pause lets one node begin at most.
THEOREM PauseHolds == Spec => []PauseStartsAtMostOne
<1>1. PauseInv => PauseStartsAtMostOne
  BY DEF PauseInv
<1> QED
  BY <1>1, PauseInvariant, PTL

\* Both together: a pause is kept, and given up (engine.py, pause and resume).
THEOREM PausesAreKept == Spec => []PauseIsKept
BY NoWakeUpLost, PauseHolds, PTL DEF PauseIsKept

-----------------------------------------------------------------------------
(* The choice of an edge                                                   *)

\* A set of numbers has a least one.
LEMMA LeastExists ==
  ASSUME NEW S \in SUBSET Nat, S # {}
  PROVE  \E x \in S : \A y \in S : x =< y
<1>1. PICK x \in S : \A y \in S : ~ (<<y, x>> \in OpToRel(<, Nat))
  BY NatLessThanWellFounded, WFMin
<1>2. \A y \in S : ~ (y < x)
  BY <1>1 DEF OpToRel
<1> QED
  BY <1>2

\* Min is the least number of a set.
LEMMA MinIsIn ==
  ASSUME NEW S \in SUBSET Nat, S # {}
  PROVE  Min(S) \in S /\ \A y \in S : Min(S) =< y
BY LeastExists DEF Min

\* What is chosen is the target of an edge of the node, with the handle asked for.
LEMMA ChosenEdge ==
  ASSUME NEW g \in Graphs, NEW n, NEW h, Choose(g, n, h) # NoRoute
  PROVE  \E e \in Edges(g) : /\ e.source = n /\ e.target = Choose(g, n, h)
                             /\ h # NoHandle => e.handle = h
<1> DEFINE all == Out(g, n)
           fits == {i \in all : g.edges[i].handle = h}
<1>1. all \in SUBSET Nat /\ fits \in SUBSET Nat
  BY GraphAssumption DEF WellFormed, Shaped, Out
<1>2. CASE fits # {}
  <2>1. Min(fits) \in fits
    BY <1>1, <1>2, MinIsIn
  <2>2. Choose(g, n, h) = g.edges[Min(fits)].target
    BY <1>2 DEF Choose
  <2> QED
    BY <2>1, <2>2 DEF Edges, Out
<1>3. CASE fits = {}
  <2>1. h = NoHandle /\ Cardinality(all) = 1 /\ Choose(g, n, h) = g.edges[Min(all)].target
    BY <1>3 DEF Choose
  <2>2. all # {}
    <3> HIDE DEF all
    <3>1. Cardinality({}) = 0
      BY FS_EmptySet
    <3> QED
      BY <2>1, <3>1
  <2>3. Min(all) \in all
    BY <1>1, <2>2, MinIsIn
  <2> QED
    BY <2>1, <2>3 DEF Edges, Out
<1> QED
  BY <1>2, <1>3

\* If the node has an edge with the handle, an edge is chosen.
LEMMA RouteExists ==
  ASSUME NEW g \in Graphs, NEW n, NEW h, Targets(g, n, h) # {}
  PROVE  Choose(g, n, h) # NoRoute
<1> DEFINE all == Out(g, n)
           fits == {i \in all : g.edges[i].handle = h}
<1>0. all \in SUBSET Nat
  BY GraphAssumption DEF WellFormed, Shaped, Out
<1>1. fits \in SUBSET Nat /\ fits # {}
  BY <1>0 DEF Targets, Edges, Out
<1>2. Min(fits) \in fits
  BY <1>1, MinIsIn
<1>3. Choose(g, n, h) = g.edges[Min(fits)].target
  BY <1>1 DEF Choose
<1>4. g.edges[Min(fits)] \in Edges(g)
  BY <1>2 DEF Edges, Out
<1> QED
  BY <1>3, <1>4, GraphAssumption DEF WellFormed, Shaped, Joined

-----------------------------------------------------------------------------
(* What is true of every run                                               *)

\* The inductive invariant: public state and place agree, a run that goes on
\* runs an accepted graph, and no loop node is beyond its limit.
RunInv ==
  /\ TypeOK
  /\ pc = "created" <=> status = "created"
  /\ pc \in {"head", "blocked", "woken", "service"} <=> status = "running"
  /\ status = "created" => \A l \in Loops(graph) : loopCounts[l] = 0
  /\ status = "running" => graph \in Accepted
  /\ pc = "service" => Kind \in {"llm", "tool"}
  /\ status = "running" => \A l \in Loops(graph) : loopCounts[l] <= graph.max[l]

\* The inductive invariant holds initially.
LEMMA RunInvInit == Init => RunInv
<1> SUFFICES ASSUME Init PROVE RunInv
  OBVIOUS
<1>1. Start(graph) \in Nodes(graph)
  BY GraphAssumption DEF Init, WellFormed, Shaped, OneOf, Start
<1>2. TypeOK
  <2>1. graph \in Graphs /\ current \in Nodes(graph) /\ steps \in 0 .. StepCap
    BY <1>1, GraphAssumption DEF Init
  <2>2. pc \in Places /\ status \in RunState /\ begunPaused \in Nat
    BY DEF Init, Places, RunState
  <2>3. loopCounts \in [Loops(graph) -> Nat]
    BY DEF Init
  <2>4. cancelled \in BOOLEAN /\ paused \in BOOLEAN /\ late \in BOOLEAN
    BY DEF Init
  <2> QED
    BY <2>1, <2>2, <2>3, <2>4 DEF TypeOK
<1>3. pc = "created" /\ status = "created" /\ \A l \in Loops(graph) : loopCounts[l] = 0
  BY DEF Init
<1> QED
  BY <1>2, <1>3 DEF RunInv

\* A validated graph gives every loop node a limit and an edge for each way out
\* of it.
LEMMA AcceptedLoops ==
  ASSUME NEW g \in Accepted, NEW l \in Loops(g)
  PROVE  /\ g.max[l] \in Nat
         /\ \A h \in {"true", "false", "fallback"} : Choose(g, l, h) # NoRoute
<1>1. g \in Graphs /\ g.max[l] \in 1 .. MaxLoopIterations /\ LoopRouted(g, l)
  BY DEF Accepted, Valid, RulesKept
<1>2. \A h \in {"true", "false", "fallback"} : Targets(g, l, h) # {}
  BY <1>1 DEF LoopRouted
<1> QED
  BY <1>1, <1>2, RouteExists

\* Wherever a run goes, it goes to a node of its graph.
LEMMA GoesToNode ==
  ASSUME NEW g \in Graphs, NEW n, NEW h, Choose(g, n, h) # NoRoute
  PROVE  Choose(g, n, h) \in Nodes(g)
BY ChosenEdge, GraphAssumption DEF WellFormed, Shaped, Joined

\* Every step keeps the invariant.
LEMMA RunInvNext == RunInv /\ [Next]_vars => RunInv'
<1> SUFFICES ASSUME RunInv, [Next]_vars PROVE RunInv'
  OBVIOUS
<1> USE DEF RunInv, TypeOK, Places, RunState, flags
<1>1. CASE Validate
  <2>1. CASE graph \in Accepted
    <3>1. \A l \in Loops(graph) : graph.max[l] \in Nat
      BY <2>1, AcceptedLoops
    <3> QED
      BY <1>1, <2>1, <3>1 DEF Validate
  <2>2. CASE graph \notin Accepted
    BY <1>1, <2>2 DEF Validate, End
  <2> QED
    BY <2>1, <2>2
<1>2. CASE Succeed
  BY <1>2 DEF Succeed, End
<1>3. CASE Wait
  BY <1>3 DEF Wait
<1>4. CASE Stop
  BY <1>4 DEF Stop, End
<1>b. ASSUME Begin
      PROVE  steps' \in 0 .. StepCap /\ begunPaused' \in Nat /\ pc \in {"woken", "head"}
  BY <1>b, GraphAssumption DEF Begin, Past
<1>5. CASE RunPlain
  BY <1>5, <1>b, GoesToNode DEF RunPlain, GoTo, End
<1>6. CASE CallService
  BY <1>6, <1>b DEF CallService, End, Kind
<1>7. CASE ServiceReturns
  BY <1>7, GoesToNode DEF ServiceReturns, GoTo, End
<1>8. CASE RunLoop
  <2>1. current \in Loops(graph) /\ graph \in Accepted
    BY <1>8, <1>b DEF RunLoop, Kind, Loops
  <2>2. graph.max[current] \in Nat
    BY <2>1, AcceptedLoops
  <2>3. pc \in {"woken", "head"} /\ steps' \in 0 .. StepCap /\ begunPaused' \in Nat
    BY <1>8, <1>b DEF RunLoop
  <2>4. /\ current' \in Nodes(graph)
        /\ \/ pc' = "head" /\ status' = status
           \/ pc' = "done" /\ status' = "failed"
    BY <1>8, GoesToNode DEF RunLoop, GoTo, End
  <2>5. /\ loopCounts' \in [Loops(graph) -> Nat]
        /\ \A l \in Loops(graph) : loopCounts'[l] <= graph.max[l]
    <3>1. CASE loopCounts[current] >= graph.max[current]
      BY <1>8, <2>3, <3>1 DEF RunLoop
    <3>2. CASE ~(loopCounts[current] >= graph.max[current])
      <4>1. loopCounts' = [loopCounts EXCEPT ![current] = @ + 1]
        BY <1>8, <3>2 DEF RunLoop
      <4>2. \A l \in Loops(graph) : graph.max[l] \in Nat
        BY <2>1, AcceptedLoops
      <4> QED
        BY <2>1, <2>3, <3>2, <4>1, <4>2
    <3> QED
      BY <3>1, <3>2
  <2>6. UNCHANGED <<graph, cancelled, paused, late>>
    BY <1>8 DEF RunLoop
  <2>7. status = "running"
    BY <2>3
  <2>8. TypeOK'
    <3>1. pc' \in Places /\ status' \in RunState
      BY <2>4
    <3> QED
      BY <2>3, <2>4, <2>5, <2>6, <3>1
  <2>9. CASE pc' = "head" /\ status' = "running"
    BY <2>1, <2>5, <2>6, <2>8, <2>9
  <2>10. CASE pc' = "done" /\ status' = "failed"
    BY <2>8, <2>10
  <2> QED
    BY <2>4, <2>7, <2>9, <2>10
<1>9. ASSUME UNCHANGED <<graph, current, steps, loopCounts, status>>,
             \/ pc' = pc
             \/ pc = "blocked" /\ pc' = "woken",
             /\ cancelled' \in BOOLEAN /\ paused' \in BOOLEAN /\ late' \in BOOLEAN
             /\ begunPaused' \in Nat
      PROVE  RunInv'
  <2>1. TypeOK'
    BY <1>9
  <2> QED
    BY <1>9, <2>1 DEF Kind
<1>10. CASE Pause
  BY <1>9, <1>10 DEF Pause
<1>11. CASE Resume
  BY <1>9, <1>11 DEF Resume
<1>12. CASE Cancel
  BY <1>9, <1>12 DEF Cancel
<1>13. CASE TimeUp
  BY <1>9, <1>13 DEF TimeUp
<1>14. CASE UNCHANGED vars
  BY <1>9, <1>14 DEF vars
<1> QED
  BY <1>1, <1>2, <1>3, <1>4, <1>5, <1>6, <1>7, <1>8, <1>10, <1>11, <1>12, <1>13,
     <1>14 DEF Next, Advance

\* It holds in every reachable state.
THEOREM RunInvariant == Spec => []RunInv
BY RunInvInit, RunInvNext, PTL DEF Spec

\* The run's state has its shape, its steps stay below the cap, and wherever it
\* is, it is at a node of its graph.
THEOREM TypeCorrect == Spec => []TypeOK
<1>1. RunInv => TypeOK
  BY DEF RunInv
<1> QED
  BY <1>1, RunInvariant, PTL

\* In a validated graph a loop node never fails for want of an edge (engine.py,
\* _choose; validator.py, the rules for loop nodes).
THEOREM LoopsAlwaysRoute == Spec => LoopAlwaysRoutes
<1>1. RunInv /\ [Next]_vars =>
        [status = "running" /\ Kind = "loop" /\ steps' # steps => status' # "failed"]_vars
  <2> SUFFICES ASSUME RunInv, [Next]_vars, status = "running", Kind = "loop",
                      steps' # steps
               PROVE  status' # "failed"
    OBVIOUS
  <2>1. current \in Loops(graph) /\ graph \in Accepted
    BY DEF RunInv, TypeOK, Kind, Loops
  <2>2. RunLoop
    BY DEF Next, Advance, Validate, Succeed, Wait, Stop, RunPlain, CallService,
           ServiceReturns, Pause, Resume, Cancel, TimeUp, vars
  <2>3. \E h \in {"true", "false", "fallback"} : GoTo(Choose(graph, current, h))
    BY <2>2 DEF RunLoop
  <2> QED
    BY <2>1, <2>3, AcceptedLoops DEF GoTo
<1> QED
  BY <1>1, RunInvariant, PTL DEF Spec, LoopAlwaysRoutes

-----------------------------------------------------------------------------
(* A run is a governed walk                                                *)

\* A run begins as a walk does.
LEMMA WalkInit == Init => Walk!Init
BY DEF Init, Walk!Init, Start, Nodes, Loops, Walk!Start, Walk!Nodes, Walk!Loops

\* Every step of a run is a step of the walk, or changes nothing of it.
LEMMA RunStepIsWalkStep ==
  RunInv /\ RunInv' /\ [Next]_vars => [Walk!Next]_(Walk!vars)
<1> SUFFICES ASSUME RunInv, RunInv', [Next]_vars
             PROVE  [Walk!Next]_(Walk!vars)
  OBVIOUS
<1> USE DEF RunInv, TypeOK, Places, RunState
<1>0. ASSUME UNCHANGED <<graph, current, loopCounts>>,
             \/ status' = status
             \/ status = "created" /\ status' = "running"
      PROVE  UNCHANGED Walk!vars
  BY <1>0 DEF Walk!vars
<1>s. ASSUME UNCHANGED <<graph, current, loopCounts>>,
             status \in {"created", "running"},
             status' \in {"failed", "cancelled", "limit_exceeded"}
      PROVE  Walk!Next
  BY <1>s DEF Walk!Next, Walk!Stop
<1>1. CASE Validate
  BY <1>0, <1>s, <1>1 DEF Validate, End
<1>2. CASE Succeed
  <2>1. Walk!Succeed
    BY <1>2 DEF Succeed, End, Kind, Walk!Succeed
  <2> QED
    BY <2>1 DEF Walk!Next
<1>3. CASE Wait
  BY <1>0, <1>3 DEF Wait
<1>4. CASE Stop
  BY <1>s, <1>4 DEF Stop, End, Past
<1>m. ASSUME NEW h, GoTo(Choose(graph, current, h)), status = "running",
             Kind # "loop", UNCHANGED <<graph, loopCounts>>
      PROVE  Walk!Next
  <2>1. CASE Choose(graph, current, h) = NoRoute
    BY <1>s, <1>m, <2>1 DEF GoTo, End
  <2>2. CASE Choose(graph, current, h) # NoRoute
    <3>1. current \notin Walk!Loops(graph)
      BY <1>m DEF Kind, Walk!Loops
    <3>2. \E e \in Walk!Edges(graph) : e.source = current /\ current' = e.target
      BY <1>m, <2>2, ChosenEdge DEF GoTo, Walk!Edges, Edges
    <3>3. Walk!Move
      BY <1>m, <2>2, <3>1, <3>2 DEF GoTo, Walk!Move
    <3> QED
      BY <3>3 DEF Walk!Next
  <2> QED
    BY <2>1, <2>2
<1>5. CASE RunPlain
  BY <1>5, <1>m, <1>s DEF RunPlain, Begin, Past, End
<1>6. CASE CallService
  BY <1>6, <1>0, <1>s DEF CallService, Begin, Past, End
<1>7. CASE ServiceReturns
  BY <1>7, <1>m, <1>s DEF ServiceReturns, End
<1>8. CASE RunLoop
  <2>1. status = "running" /\ UNCHANGED graph
    BY <1>8 DEF RunLoop, Begin, Past
  <2>2. current \in Loops(graph) /\ graph \in Accepted
    BY <1>8, <2>1 DEF RunLoop, Kind, Loops
  <2>3. current \in Walk!Loops(graph)
    BY <2>2 DEF Loops, Walk!Loops, Nodes, Walk!Nodes
  <2>4. graph.max[current] \in Nat /\ loopCounts[current] <= graph.max[current]
    BY <2>1, <2>2, AcceptedLoops
  <2>5. ASSUME NEW h \in {"true", "false", "fallback"}, GoTo(Choose(graph, current, h))
        PROVE  /\ \E e \in Walk!Edges(graph) : /\ e.source = current /\ e.handle = h
                                             /\ current' = e.target
               /\ status' = status
    <3>1. Choose(graph, current, h) # NoRoute
      BY <2>2, AcceptedLoops
    <3>2. h # NoHandle
      BY GraphAssumption
    <3> QED
      BY <2>5, <3>1, <3>2, ChosenEdge DEF GoTo, Walk!Edges, Edges
  <2>6. CASE loopCounts[current] >= graph.max[current]
    <3>1. GoTo(Choose(graph, current, "fallback")) /\ UNCHANGED loopCounts
      BY <1>8, <2>6 DEF RunLoop
    <3>2. Walk!Along({"fallback"}) /\ status' = status
      BY <2>5, <3>1 DEF Walk!Along
    <3>3. loopCounts[current] = graph.max[current]
      BY <2>2, <2>4, <2>6
    <3>4. Walk!LeaveLoop
      BY <2>1, <2>3, <3>1, <3>2, <3>3 DEF Walk!LeaveLoop
    <3> QED
      BY <3>4 DEF Walk!Next
  <2>7. CASE ~(loopCounts[current] >= graph.max[current])
    <3>1. /\ \E h \in {"true", "false"} : GoTo(Choose(graph, current, h))
          /\ loopCounts' = [loopCounts EXCEPT ![current] = @ + 1]
      BY <1>8, <2>7 DEF RunLoop
    <3>2. Walk!Along({"true", "false"}) /\ status' = status
      BY <2>5, <3>1 DEF Walk!Along
    <3>3. loopCounts[current] < graph.max[current]
      BY <2>2, <2>4, <2>7
    <3>4. Walk!Turn
      BY <2>1, <2>3, <3>1, <3>2, <3>3 DEF Walk!Turn
    <3> QED
      BY <3>4 DEF Walk!Next
  <2> QED
    BY <2>6, <2>7
<1>9. CASE Pause \/ Resume \/ Cancel \/ TimeUp
  BY <1>0, <1>9 DEF Pause, Resume, Cancel, TimeUp
<1>10. CASE UNCHANGED vars
  BY <1>0, <1>10 DEF vars
<1> QED
  BY <1>1, <1>2, <1>3, <1>4, <1>5, <1>6, <1>7, <1>8, <1>9, <1>10 DEF Next, Advance

\* Hence every run of every graph is a governed walk (engine.py, run).
THEOREM RunnerImplementsWalk == Spec => ImplementsGovernedWalk
<1>1. Spec => Walk!Init /\ [][Walk!Next]_(Walk!vars)
  BY WalkInit, RunStepIsWalkStep, RunInvariant, PTL DEF Spec
<1> QED
  BY <1>1 DEF ImplementsGovernedWalk, Walk!Spec

-----------------------------------------------------------------------------
(* The validator's search: its invariant                                   *)

\* What the search relies on of its graph.
Searchable(g) ==
  /\ \E n \in Nodes(g) : g.type[n] = "start"
  /\ DOMAIN g.edges \subseteq Nat

\* The edges of frame i that have been followed.
Done(g, w, i) == Out(g, w.stack[i].node) \ w.stack[i].todo

Target(g, k) == g.edges[k].target

Frames(g) == [node : Reachable(g), todo : SUBSET Nat]

SearchState(g) ==
  [stack : Seq(Frames(g)), visited : SUBSET Reachable(g), cyclic : SUBSET Reachable(g)]

\* The stack is a path of distinct reachable nodes from the start node.
StackIsPath(g, w) ==
  /\ \A i \in 1 .. Len(w.stack) :
       /\ w.stack[i].node \in Reachable(g)
       /\ w.stack[i].node \notin w.visited
       /\ w.stack[i].todo \subseteq Out(g, w.stack[i].node)
       /\ \A j \in 1 .. Len(w.stack) :
            w.stack[i].node = w.stack[j].node => i = j
  /\ \A i \in 1 .. Len(w.stack) - 1 :
       \E k \in Out(g, w.stack[i].node) : Target(g, k) = w.stack[i + 1].node

\* What has been followed leads to a node that is visited or being visited.
NothingSkipped(g, w) ==
  /\ Start(g) \in w.visited \cup Visiting(w)
  /\ \A n \in w.visited : \A k \in Out(g, n) :
       Target(g, k) \in w.visited \cup Visiting(w)
  /\ \A i \in 1 .. Len(w.stack) : \A k \in Done(g, w, i) :
       Target(g, k) \in w.visited \cup Visiting(w)

\* Without loop nodes, and without a report so far, nothing behind the search
\* leads back to the stack.
BehindIsAcyclic(g, w) ==
  Loops(g) = {} /\ w.cyclic = {} =>
    /\ \A n \in w.visited : ~OnUngovernedCycle(g, n)
    /\ \A n \in w.visited : \A k \in Out(g, n) : Target(g, k) \in w.visited
    /\ \A i \in 1 .. Len(w.stack) : \A k \in Done(g, w, i) :
         \/ Target(g, k) \in w.visited
         \/ i < Len(w.stack) /\ Target(g, k) = w.stack[i + 1].node

SearchInv(g, w) ==
  /\ w \in SearchState(g)
  /\ StackIsPath(g, w)
  /\ NothingSkipped(g, w)
  /\ \A n \in w.cyclic : OnUngovernedCycle(g, n)
  /\ BehindIsAcyclic(g, w)

-----------------------------------------------------------------------------
(* Sequences and reachability                                              *)

\* The last element of a sequence.
LEMMA LastOfSeq ==
  ASSUME NEW S, NEW s \in Seq(S), s # <<>>
  PROVE  Len(s) \in Nat \ {0} /\ DOMAIN s = 1 .. Len(s) /\ s[Len(s)] \in S
BY EmptySeq, LenProperties, ElementOfSeq

\* A stack without its top.
LEMMA BelowTop ==
  ASSUME NEW S, NEW s \in Seq(S), s # <<>>
  PROVE  /\ SubSeq(s, 1, Len(s) - 1) \in Seq(S)
         /\ Len(SubSeq(s, 1, Len(s) - 1)) = Len(s) - 1
         /\ \A i \in 1 .. Len(s) - 1 : SubSeq(s, 1, Len(s) - 1)[i] = s[i]
<1>1. Len(s) \in Nat \ {0} /\ \A i \in 1 .. Len(s) : s[i] \in S
  BY LastOfSeq, ElementOfSeq
<1>2. PICK n \in Nat : n = Len(s) - 1 /\ Len(s) = n + 1
  BY <1>1
<1>3. \A i \in 1 .. n : s[i] \in S
  BY <1>1, <1>2
<1>4. /\ SubSeq(s, 1, n) \in Seq(S)
      /\ Len(SubSeq(s, 1, n)) = IF 1 <= n THEN n - 1 + 1 ELSE 0
      /\ \A i \in 1 .. n - 1 + 1 : SubSeq(s, 1, n)[i] = s[1 + i - 1]
  BY <1>3, SubSeqProperties
<1>5. /\ Len(SubSeq(s, 1, n)) = n
      /\ \A i \in 1 .. n : SubSeq(s, 1, n)[i] = s[i]
  BY <1>4
<1> QED
  BY <1>2, <1>4, <1>5

\* What is reached stays reached along the edges.
LEMMA ReachedOn ==
  ASSUME NEW g, NEW k \in DOMAIN g.edges, g.edges[k].source \in Reachable(g),
         g.edges[k].target \in Nodes(g)
  PROVE  g.edges[k].target \in Reachable(g)
<1> DEFINE N == Nodes(g)
           closed == {S \in SUBSET N : {Start(g)} \cap N \subseteq S /\ ClosedIn(g, S, N)}
<1>1. Reachable(g) = {n \in N : \A S \in closed : n \in S}
  BY DEF Reachable, Spread
<1>2. ASSUME NEW S \in closed PROVE g.edges[k].target \in S
  <2>1. g.edges[k].source \in S
    BY <1>1
  <2>2. g.edges[k] \in Edges(g)
    BY DEF Edges
  <2> QED
    BY <2>1, <2>2 DEF ClosedIn
<1> QED
  BY <1>1, <1>2

\* The start node is reached, and only nodes are.
LEMMA StartReached ==
  ASSUME NEW g, Searchable(g)
  PROVE  Start(g) \in Nodes(g) /\ Start(g) \in Reachable(g) /\ Reachable(g) \subseteq Nodes(g)
<1>1. Start(g) \in Nodes(g)
  BY DEF Searchable, Start
<1> QED
  BY <1>1 DEF Reachable, Spread

\* A set with the start node that no edge leaves has all that is reached.
LEMMA ReachedWithin ==
  ASSUME NEW g, NEW S, Start(g) \in S,
         \A k \in DOMAIN g.edges : g.edges[k].source \in S => g.edges[k].target \in S
  PROVE  Reachable(g) \subseteq S
<1> DEFINE T == S \cap Nodes(g)
<1>1. T \in SUBSET Nodes(g) /\ {Start(g)} \cap Nodes(g) \subseteq T
  OBVIOUS
<1>2. ClosedIn(g, T, Nodes(g))
  BY DEF ClosedIn, Edges
<1> QED
  BY <1>1, <1>2 DEF Reachable, Spread

\* A node that no path leads back to is on no cycle.
LEMMA OffCycles ==
  ASSUME NEW g, NEW n, NEW S, n \notin S,
         \A k \in Out(g, n) : g.edges[k].target \in S,
         \A k \in DOMAIN g.edges : g.edges[k].source \in S => g.edges[k].target \in S
  PROVE  ~OnUngovernedCycle(g, n)
<1> DEFINE free == Nodes(g) \ Loops(g)
           next == {e.target : e \in {d \in Edges(g) : d.source = n}}
           T == S \cap free
<1>1. T \in SUBSET free /\ next \cap free \subseteq T
  BY DEF Edges, Out
<1>2. ClosedIn(g, T, free)
  BY DEF ClosedIn, Edges
<1>3. n \notin Spread(g, next, free)
  BY <1>1, <1>2 DEF Spread
<1> QED
  BY <1>3 DEF OnUngovernedCycle

-----------------------------------------------------------------------------
(* Every step of the search keeps its invariant                            *)

\* The frames of the search, and the nodes on its stack.
LEMMA StackNodes ==
  ASSUME NEW g, NEW w, SearchInv(g, w)
  PROVE  /\ w \in SearchState(g)
         /\ w.stack \in Seq(Frames(g))
         /\ Len(w.stack) \in Nat /\ DOMAIN w.stack = 1 .. Len(w.stack)
         /\ Visiting(w) = {w.stack[i].node : i \in 1 .. Len(w.stack)}
         /\ ~Ended(w) => w.stack # <<>> /\ Len(w.stack) \in Nat \ {0}
<1>1. w \in SearchState(g)
  BY DEF SearchInv
<1>2. w.stack \in Seq(Frames(g))
  BY <1>1 DEF SearchState
<1> QED
  BY <1>1, <1>2, LenProperties, LastOfSeq DEF Visiting, Ended

\* The cycle that an edge back to the stack closes: the node it leads to is on a
\* cycle that avoids every loop node, if the stack from there on does.
LEMMA ClosedCycle ==
  ASSUME NEW g, NEW w, SearchInv(g, w), NEW k \in Out(g, Top(w).node), w.stack # <<>>,
         Target(g, k) \in Visiting(w), CycleAt(w, Target(g, k)) \cap Loops(g) = {},
         Searchable(g)
  PROVE  OnUngovernedCycle(g, Target(g, k))
<1> DEFINE n == Target(g, k)
           top == Len(w.stack)
           node(i) == w.stack[i].node
           free == Nodes(g) \ Loops(g)
           next == {e.target : e \in {d \in Edges(g) : d.source = n}}
<1>0. top \in Nat \ {0} /\ DOMAIN w.stack = 1 .. top
  BY StackNodes DEF Visiting, Ended
<1>1. PICK from \in 1 .. top : /\ node(from) = n
                               /\ CycleAt(w, n) = {node(i) : i \in from .. top}
  <2>1. \E i \in DOMAIN w.stack : w.stack[i].node = n
    BY DEF Visiting
  <2> QED
    BY <2>1, <1>0 DEF CycleAt
<1>2. \A i \in 1 .. top : node(i) \in Nodes(g)
  <2>1. \A i \in 1 .. top : node(i) \in Reachable(g)
    BY <1>0 DEF SearchInv, StackIsPath
  <2> QED
    BY <2>1, StartReached
<1>3. \A i \in from .. top : node(i) \in free
  BY <1>0, <1>1, <1>2
<1>4. n \in free
  BY <1>0, <1>1, <1>3
<1>5. ASSUME NEW i \in from .. top - 1
      PROVE  \E e \in Edges(g) : e.source = node(i) /\ e.target = node(i + 1)
  <2>1. PICK m \in Out(g, node(i)) : Target(g, m) = node(i + 1)
    BY <1>0, <1>1 DEF SearchInv, StackIsPath
  <2> QED
    BY <2>1 DEF Out, Edges, Target
<1>6. ASSUME NEW S \in SUBSET free, next \cap free \subseteq S, ClosedIn(g, S, free)
      PROVE  n \in S
  <2>1. ASSUME node(top) \in S PROVE n \in S
    <3>1. g.edges[k] \in Edges(g) /\ g.edges[k].source = node(top)
      BY DEF Out, Edges, Top
    <3> QED
      BY <1>6, <2>1, <3>1, <1>4 DEF ClosedIn, Target
  <2>2. CASE from = top
    <3>1. g.edges[k] \in Edges(g) /\ g.edges[k].source = n
      BY <2>2, <1>1 DEF Out, Edges, Top
    <3> QED
      BY <1>6, <3>1, <1>4 DEF Target
  <2>3. CASE from < top
    <3> DEFINE Bad == {i \in from + 1 .. top : node(i) \notin S}
    <3>1. node(from + 1) \in S
      <4>1. PICK e \in Edges(g) : e.source = node(from) /\ e.target = node(from + 1)
        BY <1>5, <2>3, <1>0
      <4> QED
        BY <1>6, <4>1, <1>1, <1>3, <2>3, <1>0
    <3>2. Bad = {}
      <4> SUFFICES ASSUME Bad # {} PROVE FALSE
        OBVIOUS
      <4>1. Bad \in SUBSET Nat
        BY <1>0
      <4> DEFINE j == Min(Bad)
      <4>2. j \in Bad /\ \A i \in Bad : j =< i
        <5> HIDE DEF Bad
        <5> QED
          BY <4>1, MinIsIn
      <4> HIDE DEF j
      <4>3. j \in from + 2 .. top
        BY <4>2, <3>1, <1>0
      <4>4. j - 1 \in from + 1 .. top /\ j - 1 \notin Bad
        BY <4>2, <4>3, <1>0
      <4>5. node(j - 1) \in S
        BY <4>4
      <4>6. \E e \in Edges(g) : e.source = node(j - 1) /\ e.target = node(j)
        <5>1. j - 1 \in from .. top - 1 /\ (j - 1) + 1 = j
          BY <4>3, <1>0
        <5> QED
          BY <5>1, <1>5
      <4>7. node(j) \in free
        BY <4>3, <1>3, <1>0
      <4> QED
        BY <1>6, <4>2, <4>5, <4>6, <4>7 DEF ClosedIn
    <3> QED
      BY <3>2, <2>1, <2>3, <1>0
  <2> QED
    BY <2>2, <2>3, <1>0
<1> QED
  BY <1>4, <1>6 DEF OnUngovernedCycle, Spread

\* The search leaves a node when every edge of it has been followed.
LEMMA LeaveKeeps ==
  ASSUME NEW g, NEW w, SearchInv(g, w), ~Ended(w), Top(w).todo = {}
  PROVE  SearchInv(g, Leave(w))
<1> DEFINE v == Leave(w)
           L == Len(w.stack)
           n == w.stack[L].node
           F == Frames(g)
<1>0. L \in Nat \ {0} /\ DOMAIN w.stack = 1 .. L /\ w.stack \in Seq(F) /\ w.stack # <<>>
  BY StackNodes
<1>1. /\ v.stack = SubSeq(w.stack, 1, L - 1) /\ v.visited = w.visited \cup {n}
      /\ v.cyclic = w.cyclic
  BY StackNodes DEF Leave, Below, Top, SearchState
<1>2. /\ v.stack \in Seq(F)
      /\ Len(v.stack) = L - 1 /\ DOMAIN v.stack = 1 .. L - 1
      /\ \A i \in 1 .. L - 1 : v.stack[i] = w.stack[i]
  <2>1. Len(v.stack) = L - 1 /\ v.stack \in Seq(F) /\ \A i \in 1 .. L - 1 : v.stack[i] = w.stack[i]
    <3> HIDE DEF v, F
    <3> QED
      BY <1>0, <1>1, BelowTop
  <2> QED
    BY <2>1, LenProperties
<1>4. n \in Reachable(g) /\ w.stack[L].todo = {}
  BY <1>0 DEF SearchInv, StackIsPath, Top
<1>t. v \in SearchState(g)
  BY <1>1, <1>2, <1>4, StackNodes DEF Leave, SearchState
<1>p. /\ \A i \in 1 .. L :
          /\ w.stack[i].node \in Reachable(g)
          /\ w.stack[i].node \notin w.visited
          /\ w.stack[i].todo \subseteq Out(g, w.stack[i].node)
          /\ \A j \in 1 .. L : w.stack[i].node = w.stack[j].node => i = j
      /\ \A i \in 1 .. L - 1 :
          \E k \in Out(g, w.stack[i].node) : Target(g, k) = w.stack[i + 1].node
  BY DEF SearchInv, StackIsPath
<1>n. n = w.stack[L].node
  OBVIOUS
<1> HIDE DEF v, L, n
<1>3. v.visited \cup Visiting(v) = w.visited \cup Visiting(w)
  <2>0. \A i : i \in 1 .. L <=> i \in 1 .. L - 1 \/ i = L
    BY <1>0
  <2>1. Visiting(w) = Visiting(v) \cup {n}
    BY <1>0, <1>2, <1>n, <2>0, Zenon DEF Visiting
  <2> QED
    BY <2>1, <1>1
<1>5. StackIsPath(g, v)
  <2>1. ASSUME NEW i \in 1 .. L - 1
        PROVE  /\ v.stack[i].node \in Reachable(g)
               /\ v.stack[i].node \notin v.visited
               /\ v.stack[i].todo \subseteq Out(g, v.stack[i].node)
               /\ \A j \in 1 .. L - 1 : v.stack[i].node = v.stack[j].node => i = j
    BY <1>0, <1>1, <1>2, <1>n, <1>p
  <2>2. ASSUME NEW i \in 1 .. (L - 1) - 1
        PROVE  \E k \in Out(g, v.stack[i].node) : Target(g, k) = v.stack[i + 1].node
    <3>1. i \in 1 .. L - 1 /\ i + 1 \in 1 .. L - 1
      BY <1>0
    <3> QED
      BY <1>2, <1>p, <3>1
  <2> QED
    BY <1>0, <1>2, <2>1, <2>2 DEF StackIsPath
<1>6. Out(g, n) = Done(g, w, L)
  BY <1>4, <1>n DEF Done
<1>7. \A i \in 1 .. L - 1 : Done(g, v, i) = Done(g, w, i)
  BY <1>2 DEF Done
<1>8. NothingSkipped(g, v)
  <2>1. \A m \in v.visited : \A k \in Out(g, m) : Target(g, k) \in w.visited \cup Visiting(w)
    BY <1>0, <1>1, <1>6 DEF SearchInv, NothingSkipped, L
  <2>2. \A i \in 1 .. L - 1 : \A k \in Done(g, v, i) :
          Target(g, k) \in w.visited \cup Visiting(w)
    BY <1>0, <1>7 DEF SearchInv, NothingSkipped, L
  <2> QED
    BY <1>2, <1>3, <2>1, <2>2 DEF SearchInv, NothingSkipped
<1>9. BehindIsAcyclic(g, v)
  <2> SUFFICES ASSUME Loops(g) = {}, v.cyclic = {} PROVE BehindIsAcyclic(g, v)
    BY DEF BehindIsAcyclic
  <2>1. /\ \A m \in w.visited : ~OnUngovernedCycle(g, m)
        /\ \A m \in w.visited : \A k \in Out(g, m) : Target(g, k) \in w.visited
        /\ \A i \in 1 .. L : \A k \in Done(g, w, i) :
             \/ Target(g, k) \in w.visited
             \/ i < L /\ Target(g, k) = w.stack[i + 1].node
    BY <1>1 DEF SearchInv, BehindIsAcyclic, L
  <2>2. \A k \in Out(g, n) : Target(g, k) \in w.visited
    BY <2>1, <1>0, <1>6
  <2>3. ~OnUngovernedCycle(g, n)
    <3>1. n \notin w.visited
      BY <1>0, <1>n, <1>p
    <3>2. \A k \in DOMAIN g.edges : g.edges[k].source \in w.visited =>
                                    g.edges[k].target \in w.visited
      BY <2>1 DEF Out, Target
    <3> QED
      BY <3>1, <3>2, <2>2, OffCycles DEF Target
  <2>4. \A i \in 1 .. L - 1 : \A k \in Done(g, v, i) :
             \/ Target(g, k) \in v.visited
             \/ i < L - 1 /\ Target(g, k) = v.stack[i + 1].node
    <3> SUFFICES ASSUME NEW i \in 1 .. L - 1, NEW k \in Done(g, v, i)
                 PROVE  \/ Target(g, k) \in v.visited
                        \/ i < L - 1 /\ Target(g, k) = v.stack[i + 1].node
      OBVIOUS
    <3>1. \/ Target(g, k) \in w.visited
          \/ Target(g, k) = w.stack[i + 1].node
      <4>1. i \in 1 .. L /\ k \in Done(g, w, i)
        BY <1>7, <1>0
      <4> QED
        BY <2>1, <4>1
    <3>2. CASE i = L - 1
      <4>1. i + 1 = L
        BY <3>2, <1>0
      <4> QED
        BY <3>1, <4>1, <1>1, <1>n
    <3>3. CASE i # L - 1
      BY <3>1, <3>3, <1>1, <1>2, <1>0
    <3> QED
      BY <3>2, <3>3
  <2> QED
    BY <1>1, <1>2, <2>1, <2>2, <2>3, <2>4 DEF BehindIsAcyclic
<1>10. v.visited \subseteq Reachable(g) /\ v.cyclic \subseteq Reachable(g)
       /\ \A m \in v.cyclic : OnUngovernedCycle(g, m)
  BY <1>1, <1>t DEF SearchInv, SearchState
<1>11. SearchInv(g, v)
  BY <1>t, <1>5, <1>8, <1>9, <1>10 DEF SearchInv
<1> QED
  BY <1>11 DEF v

\* The search follows an edge to a node that it has been at: the top of its
\* stack has an edge less to follow.
LEMMA RestOfStack ==
  ASSUME NEW g, NEW w, SearchInv(g, w), ~Ended(w), NEW k
  PROVE  LET r == OneLess(w.stack, k) IN
         /\ r \in Seq(Frames(g)) /\ Len(r) = Len(w.stack) /\ DOMAIN r = 1 .. Len(w.stack)
         /\ \A i \in 1 .. Len(w.stack) : r[i].node = w.stack[i].node
         /\ \A i \in 1 .. Len(w.stack) - 1 : r[i].todo = w.stack[i].todo
         /\ r[Len(w.stack)].todo = w.stack[Len(w.stack)].todo \ {k}
<1> DEFINE s == w.stack
           L == Len(s)
           f == [s[L] EXCEPT !.todo = @ \ {k}]
           t == [s EXCEPT ![L].todo = @ \ {k}]
<1>0. s \in Seq(Frames(g)) /\ s # <<>>
  BY StackNodes
<1>1. L \in Nat \ {0} /\ s[L] \in Frames(g) /\ DOMAIN s = 1 .. L
  BY <1>0, LastOfSeq
<1> HIDE DEF L, s
<1>2. f \in Frames(g) /\ f.node = s[L].node /\ f.todo = s[L].todo \ {k}
  BY <1>1 DEF Frames
<1>3. t = [s EXCEPT ![L] = f]
  BY Zenon
<1>4. t \in Seq(Frames(g)) /\ Len(t) = L /\ \A i \in 1 .. L : t[i] = IF i = L THEN f ELSE s[i]
  <2> HIDE DEF f, t
  <2> QED
    BY <1>0, <1>1, <1>2, <1>3, ExceptSeq DEF L
<1> HIDE DEF t
<1>5. /\ \A i \in 1 .. L : t[i].node = s[i].node
      /\ \A i \in 1 .. L - 1 : t[i].todo = s[i].todo
      /\ t[L].todo = s[L].todo \ {k}
  <2> HIDE DEF f
  <2> QED
    BY <1>1, <1>2, <1>4
<1>6. DOMAIN t = 1 .. L
  BY <1>4, LenProperties
<1> QED
  BY <1>4, <1>5, <1>6, Zenon DEF t, L, s, OneLess

\* What following an edge to a node that was met before keeps.
LEMMA MetBefore ==
  ASSUME NEW g, NEW w, SearchInv(g, w), ~Ended(w), Searchable(g),
         NEW k \in Top(w).todo, NEW v \in SearchState(g),
         v.stack = OneLess(w.stack, k),
         v.visited = w.visited, w.cyclic \subseteq v.cyclic,
         Target(g, k) \in w.visited \cup Visiting(w),
         Loops(g) = {} /\ v.cyclic = {} => Target(g, k) \in w.visited,
         \A n \in v.cyclic : OnUngovernedCycle(g, n)
  PROVE  SearchInv(g, v)
<1> DEFINE L == Len(w.stack)
<1>0. L \in Nat \ {0} /\ DOMAIN w.stack = 1 .. L /\ w.stack # <<>>
  BY StackNodes
<1>1. /\ Len(v.stack) = L /\ DOMAIN v.stack = 1 .. L
      /\ \A i \in 1 .. L : v.stack[i].node = w.stack[i].node
      /\ \A i \in 1 .. L - 1 : v.stack[i].todo = w.stack[i].todo
      /\ v.stack[L].todo = w.stack[L].todo \ {k}
  BY RestOfStack
<1>p. /\ \A i \in 1 .. L :
          /\ w.stack[i].node \in Reachable(g)
          /\ w.stack[i].node \notin w.visited
          /\ w.stack[i].todo \subseteq Out(g, w.stack[i].node)
          /\ \A j \in 1 .. L : w.stack[i].node = w.stack[j].node => i = j
      /\ \A i \in 1 .. L - 1 :
          \E m \in Out(g, w.stack[i].node) : Target(g, m) = w.stack[i + 1].node
  BY DEF SearchInv, StackIsPath
<1>k. k \in w.stack[L].todo
  BY DEF Top
<1> HIDE DEF L
<1>2. Visiting(v) = Visiting(w)
  BY <1>0, <1>1 DEF Visiting
<1>3. StackIsPath(g, v)
  <2>1. \A i \in 1 .. L : v.stack[i].todo \subseteq w.stack[i].todo
    BY <1>0, <1>1
  <2>2. ASSUME NEW i \in 1 .. L
        PROVE  /\ v.stack[i].node \in Reachable(g)
               /\ v.stack[i].node \notin v.visited
               /\ v.stack[i].todo \subseteq Out(g, v.stack[i].node)
               /\ \A j \in 1 .. L : v.stack[i].node = v.stack[j].node => i = j
    BY <1>1, <1>p, <2>1
  <2>3. ASSUME NEW i \in 1 .. L - 1
        PROVE  \E m \in Out(g, v.stack[i].node) : Target(g, m) = v.stack[i + 1].node
    <3>1. i \in 1 .. L /\ i + 1 \in 1 .. L
      BY <1>0
    <3> QED
      BY <1>1, <1>p, <3>1
  <2> QED
    BY <1>1, <2>2, <2>3 DEF StackIsPath
<1>4. ASSUME NEW i \in 1 .. L, NEW m \in Done(g, v, i)
      PROVE  m \in Done(g, w, i) \/ (i = L /\ m = k)
  BY <1>0, <1>1, <1>4 DEF Done
<1>5. NothingSkipped(g, v)
  <2>1. \A i \in 1 .. L : \A m \in Done(g, w, i) : Target(g, m) \in w.visited \cup Visiting(w)
    BY DEF SearchInv, NothingSkipped, L
  <2>2. \A i \in 1 .. L : \A m \in Done(g, v, i) : Target(g, m) \in w.visited \cup Visiting(w)
    BY <1>4, <2>1
  <2> QED
    BY <1>1, <1>2, <2>2 DEF SearchInv, NothingSkipped
<1>6. BehindIsAcyclic(g, v)
  <2> SUFFICES ASSUME Loops(g) = {}, v.cyclic = {} PROVE BehindIsAcyclic(g, v)
    BY DEF BehindIsAcyclic
  <2>1. /\ \A m \in w.visited : ~OnUngovernedCycle(g, m)
        /\ \A m \in w.visited : \A e \in Out(g, m) : Target(g, e) \in w.visited
        /\ \A i \in 1 .. L : \A m \in Done(g, w, i) :
             \/ Target(g, m) \in w.visited
             \/ i < L /\ Target(g, m) = w.stack[i + 1].node
    BY DEF SearchInv, BehindIsAcyclic, L
  <2>2. ASSUME NEW i \in 1 .. L, NEW m \in Done(g, v, i)
        PROVE  \/ Target(g, m) \in v.visited
               \/ i < L /\ Target(g, m) = v.stack[i + 1].node
    <3>1. CASE m \in Done(g, w, i) /\ i < L
      <4>1. i + 1 \in 1 .. L
        BY <3>1, <1>0
      <4> QED
        BY <2>1, <3>1, <4>1, <1>1
    <3>2. CASE m \in Done(g, w, i) /\ ~(i < L)
      BY <2>1, <3>2
    <3>3. CASE m = k
      BY <3>3
    <3> QED
      BY <1>4, <3>1, <3>2, <3>3
  <2> QED
    BY <1>1, <2>1, <2>2 DEF BehindIsAcyclic
<1> QED
  BY <1>3, <1>5, <1>6 DEF SearchInv

\* The search goes on to a node that it has not met: the stack grows by it.
LEMMA MetFirst ==
  ASSUME NEW g, NEW w, SearchInv(g, w), ~Ended(w), Searchable(g),
         NEW k \in Top(w).todo, NEW v \in SearchState(g),
         v.stack = Append(OneLess(w.stack, k), Frame(g, Target(g, k))),
         v.visited = w.visited, v.cyclic = w.cyclic,
         Target(g, k) \notin w.visited \cup Visiting(w), Target(g, k) \in Reachable(g)
  PROVE  SearchInv(g, v)
<1> DEFINE L == Len(w.stack)
           M == Len(v.stack)
           r == OneLess(w.stack, k)
           n == Target(g, k)
<1>0. L \in Nat \ {0} /\ DOMAIN w.stack = 1 .. L /\ w.stack # <<>>
  BY StackNodes
<1>r. /\ r \in Seq(Frames(g)) /\ Len(r) = L /\ DOMAIN r = 1 .. L
      /\ \A i \in 1 .. L : r[i].node = w.stack[i].node
      /\ \A i \in 1 .. L - 1 : r[i].todo = w.stack[i].todo
      /\ r[L].todo = w.stack[L].todo \ {k}
  BY RestOfStack
<1>1. /\ M = L + 1 /\ DOMAIN v.stack = 1 .. L + 1
      /\ v.stack[L + 1] = Frame(g, n)
      /\ \A i \in 1 .. L : v.stack[i] = r[i]
  <2>1. v.stack = Append(r, Frame(g, n))
    OBVIOUS
  <2> HIDE DEF r, n, L
  <2> QED
    BY <2>1, <1>r, <1>0
<1>p. /\ \A i \in 1 .. L :
          /\ w.stack[i].node \in Reachable(g)
          /\ w.stack[i].node \notin w.visited
          /\ w.stack[i].todo \subseteq Out(g, w.stack[i].node)
          /\ \A j \in 1 .. L : w.stack[i].node = w.stack[j].node => i = j
      /\ \A i \in 1 .. L - 1 :
          \E m \in Out(g, w.stack[i].node) : Target(g, m) = w.stack[i + 1].node
  BY DEF SearchInv, StackIsPath
<1>k. k \in w.stack[L].todo /\ k \in Out(g, w.stack[L].node)
  <2>1. k \in w.stack[L].todo
    BY DEF Top
  <2> QED
    BY <2>1, <1>p, <1>0
<1>n. /\ n \notin w.visited /\ n \in Reachable(g) /\ n = Target(g, k)
      /\ \A i \in 1 .. L : w.stack[i].node # n
  BY <1>0 DEF Visiting
<1>v. v.visited = w.visited /\ v.cyclic = w.cyclic
  OBVIOUS
<1>f. Frame(g, n).node = n /\ Frame(g, n).todo = Out(g, n)
  BY DEF Frame
<1> HIDE DEF L, M, r, n
<1>2. /\ \A i \in 1 .. L : v.stack[i].node = w.stack[i].node
      /\ \A i \in 1 .. L : v.stack[i].todo \subseteq w.stack[i].todo
      /\ v.stack[L + 1].node = n /\ v.stack[L + 1].todo = Out(g, n)
      /\ \A i \in 1 .. L - 1 : v.stack[i].todo = w.stack[i].todo
      /\ v.stack[L].todo = w.stack[L].todo \ {k}
  <2>1. L + 1 \notin 1 .. L /\ L \in 1 .. L /\ \A i \in 1 .. L - 1 : i \in 1 .. L /\ i # L
    BY <1>0
  <2>2. v.stack[L + 1].node = n /\ v.stack[L + 1].todo = Out(g, n)
    BY <1>1, <1>f
  <2>3. \A i \in 1 .. L : v.stack[i].node = w.stack[i].node
    BY <1>1, <1>r
  <2>4. \A i \in 1 .. L - 1 : v.stack[i].todo = w.stack[i].todo
    BY <1>1, <1>r, <2>1
  <2>5. v.stack[L].todo = w.stack[L].todo \ {k}
    BY <1>1, <1>r, <2>1
  <2>6. \A i \in 1 .. L : i = L \/ i \in 1 .. L - 1
    BY <1>0
  <2>7. \A i \in 1 .. L : v.stack[i].todo \subseteq w.stack[i].todo
    BY <2>4, <2>5, <2>6
  <2> QED
    BY <2>2, <2>3, <2>4, <2>5, <2>7
<1>3. Visiting(v) = Visiting(w) \cup {n}
  BY <1>0, <1>1, <1>2 DEF Visiting
<1>4. StackIsPath(g, v)
  <2>1. ASSUME NEW i \in 1 .. L + 1
        PROVE  /\ v.stack[i].node \in Reachable(g)
               /\ v.stack[i].node \notin v.visited
               /\ v.stack[i].todo \subseteq Out(g, v.stack[i].node)
               /\ \A j \in 1 .. L + 1 : v.stack[i].node = v.stack[j].node => i = j
    <3>0. \A j \in 1 .. L + 1 : j = L + 1 \/ j \in 1 .. L
      BY <1>0
    <3>1. CASE i = L + 1
      <4>1. v.stack[i].node = n /\ v.stack[i].todo = Out(g, n)
        BY <3>1, <1>2
      <4>2. \A j \in 1 .. L + 1 : v.stack[j].node = n => i = j
        BY <3>0, <3>1, <1>2, <1>n
      <4> QED
        BY <4>1, <4>2, <1>n, <1>v
    <3>2. CASE i \in 1 .. L
      <4>1. /\ v.stack[i].node = w.stack[i].node /\ v.stack[i].node # n
            /\ v.stack[i].todo \subseteq w.stack[i].todo
        BY <3>2, <1>2, <1>n
      <4>2. \A j \in 1 .. L + 1 : v.stack[i].node = v.stack[j].node => i = j
        BY <4>1, <3>0, <3>2, <1>2, <1>p
      <4> QED
        BY <4>1, <4>2, <3>2, <1>p, <1>v
    <3> QED
      BY <3>0, <3>1, <3>2
  <2>2. ASSUME NEW i \in 1 .. (L + 1) - 1
        PROVE  \E m \in Out(g, v.stack[i].node) : Target(g, m) = v.stack[i + 1].node
    <3>1. CASE i = L
      <4>1. v.stack[i].node = w.stack[L].node /\ v.stack[i + 1].node = n
        <5>1. i \in 1 .. L /\ i + 1 = L + 1
          BY <3>1, <1>0
        <5>2. v.stack[i].node = w.stack[i].node
          BY <5>1, <1>2
        <5> QED
          BY <5>1, <5>2, <3>1, <1>2, Zenon
      <4> QED
        BY <4>1, <1>k, <1>n
    <3>2. CASE i # L
      <4>1. i \in 1 .. L - 1 /\ i \in 1 .. L /\ i + 1 \in 1 .. L
        BY <3>2, <1>0
      <4> QED
        BY <4>1, <1>2, <1>p
    <3> QED
      BY <3>1, <3>2
  <2> QED
    BY <1>1, <2>1, <2>2 DEF StackIsPath, M
<1>5. ASSUME NEW i \in 1 .. L + 1, NEW m \in Done(g, v, i)
      PROVE  i \in 1 .. L /\ (m \in Done(g, w, i) \/ (i = L /\ m = k))
  <2>1. i # L + 1
    BY <1>2, <1>5 DEF Done
  <2>2. i \in 1 .. L
    BY <2>1, <1>0
  <2>3. CASE i = L
    BY <2>2, <2>3, <1>2, <1>5 DEF Done
  <2>4. CASE i # L
    <3>1. i \in 1 .. L - 1
      BY <2>2, <2>4, <1>0
    <3> QED
      BY <3>1, <2>2, <1>2, <1>5 DEF Done
  <2> QED
    BY <2>2, <2>3, <2>4
<1>6. NothingSkipped(g, v)
  <2>1. \A i \in 1 .. L : \A m \in Done(g, w, i) : Target(g, m) \in w.visited \cup Visiting(w)
    BY DEF SearchInv, NothingSkipped, L
  <2>2. \A i \in 1 .. L + 1 : \A m \in Done(g, v, i) :
          Target(g, m) \in w.visited \cup Visiting(w) \cup {n}
    BY <1>5, <2>1, <1>n
  <2>3. /\ Start(g) \in w.visited \cup Visiting(w)
        /\ \A m \in w.visited : \A e \in Out(g, m) : Target(g, e) \in w.visited \cup Visiting(w)
    BY DEF SearchInv, NothingSkipped
  <2> QED
    BY <1>1, <1>3, <1>v, <2>2, <2>3 DEF NothingSkipped, M
<1>7. BehindIsAcyclic(g, v)
  <2> SUFFICES ASSUME Loops(g) = {}, v.cyclic = {} PROVE BehindIsAcyclic(g, v)
    BY DEF BehindIsAcyclic
  <2>1. /\ \A m \in w.visited : ~OnUngovernedCycle(g, m)
        /\ \A m \in w.visited : \A e \in Out(g, m) : Target(g, e) \in w.visited
        /\ \A i \in 1 .. L : \A m \in Done(g, w, i) :
             \/ Target(g, m) \in w.visited
             \/ i < L /\ Target(g, m) = w.stack[i + 1].node
    BY <1>v DEF SearchInv, BehindIsAcyclic, L
  <2>2. ASSUME NEW i \in 1 .. L + 1, NEW m \in Done(g, v, i)
        PROVE  \/ Target(g, m) \in v.visited
               \/ i < L + 1 /\ Target(g, m) = v.stack[i + 1].node
    <3>0. i \in 1 .. L /\ (m \in Done(g, w, i) \/ (i = L /\ m = k))
      BY <1>5
    <3>1. CASE m \in Done(g, w, i) /\ i < L
      <4>1. i + 1 \in 1 .. L
        BY <3>0, <3>1, <1>0
      <4> QED
        <5>1. v.stack[i + 1].node = w.stack[i + 1].node
          BY <4>1, <1>2
        <5>2. i < L + 1
          BY <3>0, <1>0
        <5> QED
          BY <2>1, <3>0, <3>1, <5>1, <5>2, <1>v
    <3>2. CASE m \in Done(g, w, i) /\ ~(i < L)
      BY <2>1, <3>0, <3>2, <1>v
    <3>3. CASE i = L /\ m = k
      BY <3>3, <1>2, <1>n, <1>0
    <3> QED
      BY <3>0, <3>1, <3>2, <3>3
  <2> QED
    BY <1>1, <1>v, <2>1, <2>2 DEF BehindIsAcyclic, M
<1> QED
  BY <1>4, <1>6, <1>7 DEF SearchInv

\* Following an edge keeps the invariant.
LEMMA FollowKeeps ==
  ASSUME NEW g, NEW w, SearchInv(g, w), ~Ended(w), Searchable(g), ~Dangling(g),
         Top(w).todo # {}
  PROVE  SearchInv(g, Follow(g, w))
<1> DEFINE k == Min(Top(w).todo)
           n == g.edges[k].target
           r == OneLess(w.stack, k)
           L == Len(w.stack)
<1>0. L \in Nat \ {0} /\ DOMAIN w.stack = 1 .. L /\ w \in SearchState(g)
  BY StackNodes
<1>1. /\ Top(w).todo \subseteq Out(g, Top(w).node) /\ Top(w).node \in Reachable(g)
      /\ Top(w).todo \subseteq DOMAIN g.edges
  BY <1>0 DEF SearchInv, StackIsPath, Top, Out
<1>2. k \in Top(w).todo
  BY <1>1, MinIsIn DEF Searchable
<1>r. r \in Seq(Frames(g))
  BY RestOfStack
<1> HIDE DEF k
<1>3. k \in Out(g, Top(w).node) /\ k \in DOMAIN g.edges /\ n = Target(g, k)
  BY <1>1, <1>2 DEF Target
<1>4. n \in Reachable(g)
  <2>1. g.edges[k].source \in Reachable(g) /\ g.edges[k] \in Edges(g)
    BY <1>1, <1>3 DEF Out, Edges
  <2>2. n \in Nodes(g)
    BY <2>1 DEF Dangling
  <2> QED
    BY <2>1, <2>2, <1>3, ReachedOn
<1> HIDE DEF n, r
<1>5. CASE n \in Visiting(w)
  <2> DEFINE c == IF CycleAt(w, n) \cap Loops(g) = {} THEN w.cyclic \cup {n} ELSE w.cyclic
             v == [w EXCEPT !.stack = r, !.cyclic = c]
  <2>1. Follow(g, w) = v
    BY <1>5 DEF Follow, n, k, r
  <2>2. c \in SUBSET Reachable(g)
    BY <1>0, <1>4 DEF SearchState
  <2>3. \A m \in c : OnUngovernedCycle(g, m)
    BY <1>5, <1>3, ClosedCycle DEF SearchInv, Ended
  <2>4. Loops(g) = {} => c # {}
    OBVIOUS
  <2>5. w.cyclic \subseteq c
    OBVIOUS
  <2> HIDE DEF c
  <2>6. v \in SearchState(g) /\ v.stack = r /\ v.visited = w.visited /\ v.cyclic = c
    BY <1>0, <1>r, <2>2 DEF SearchState
  <2> HIDE DEF v
  <2>7. SearchInv(g, v)
    BY <1>2, <1>3, <1>5, <2>3, <2>4, <2>5, <2>6, MetBefore DEF r
  <2> QED
    BY <2>1, <2>7
<1>6. CASE n \in w.visited \ Visiting(w)
  <2> DEFINE v == [w EXCEPT !.stack = r]
  <2>1. Follow(g, w) = v
    BY <1>6 DEF Follow, n, k, r
  <2>2. v \in SearchState(g) /\ v.stack = r /\ v.visited = w.visited /\ v.cyclic = w.cyclic
    BY <1>0, <1>r DEF SearchState
  <2> HIDE DEF v
  <2>3. \A m \in v.cyclic : OnUngovernedCycle(g, m)
    BY <2>2 DEF SearchInv
  <2>4. SearchInv(g, v)
    BY <1>2, <1>3, <1>6, <2>2, <2>3, MetBefore DEF r
  <2> QED
    BY <2>1, <2>4
<1>7. CASE n \notin w.visited \cup Visiting(w)
  <2> DEFINE q == Append(r, Frame(g, n))
             v == [w EXCEPT !.stack = q]
  <2>1. Follow(g, w) = v
    BY <1>7 DEF Follow, n, k, r
  <2>2. Frame(g, n) \in Frames(g)
    <3>1. Out(g, n) \subseteq Nat
      BY DEF Searchable, Out
    <3> QED
      BY <1>4, <3>1 DEF Frame, Frames
  <2>3. q \in Seq(Frames(g))
    BY <1>r, <2>2
  <2> HIDE DEF q
  <2>4. v \in SearchState(g) /\ v.stack = q /\ v.visited = w.visited /\ v.cyclic = w.cyclic
    BY <1>0, <2>3 DEF SearchState
  <2> HIDE DEF v
  <2>5. v.stack = Append(OneLess(w.stack, k), Frame(g, Target(g, k)))
    BY <2>4, <1>3 DEF q, r
  <2>6. SearchInv(g, v)
    BY <1>2, <1>3, <1>4, <1>7, <2>4, <2>5, MetFirst
  <2> QED
    BY <2>1, <2>6
<1> QED
  BY <1>5, <1>6, <1>7

\* The search begins at the start node.
LEMMA SearchBegins ==
  ASSUME NEW g, Searchable(g)
  PROVE  SearchInv(g, WalkStart(g))
<1> DEFINE w == WalkStart(g)
<1>0. Start(g) \in Reachable(g) /\ Out(g, Start(g)) \subseteq Nat
  BY StartReached DEF Out, Searchable
<1>1. Frame(g, Start(g)) \in Frames(g)
  BY <1>0 DEF Frame, Frames
<1>2. /\ w \in SearchState(g) /\ w.stack = <<Frame(g, Start(g))>>
      /\ w.visited = {} /\ w.cyclic = {}
  BY <1>1 DEF WalkStart, SearchState
<1>3. /\ Len(w.stack) = 1 /\ DOMAIN w.stack = {1}
      /\ w.stack[1].node = Start(g) /\ w.stack[1].todo = Out(g, Start(g))
  BY <1>2 DEF Frame
<1> HIDE DEF w
<1>4. \A i \in 1 .. Len(w.stack) : i = 1
  BY <1>3
<1>5. StackIsPath(g, w)
  BY <1>0, <1>2, <1>3, <1>4 DEF StackIsPath
<1>6. Visiting(w) = {Start(g)} /\ \A i \in 1 .. Len(w.stack) : Done(g, w, i) = {}
  BY <1>3, <1>4 DEF Visiting, Done
<1>7. NothingSkipped(g, w) /\ BehindIsAcyclic(g, w)
  BY <1>2, <1>6 DEF NothingSkipped, BehindIsAcyclic
<1>8. SearchInv(g, w)
  BY <1>2, <1>5, <1>7 DEF SearchInv
<1> QED
  BY <1>8 DEF w

\* The search has its shape, and what it reports is right.
LEMMA SearchIsRight ==
  ASSUME SearchInv(draft, walk), Searchable(draft)
  PROVE  SearchTypeOK /\ ReportsAreRight
<1> DEFINE w == walk
<1>1. walk \in SearchState(draft) /\ Reachable(draft) \subseteq Nodes(draft)
  BY StackNodes, StartReached
<1>2. SearchTypeOK
  <2>1. walk.visited \subseteq Nodes(draft) /\ walk.cyclic \subseteq Nodes(draft)
    BY <1>1 DEF SearchState
  <2>2. DOMAIN walk.stack = 1 .. Len(walk.stack) /\ Len(walk.stack) \in Nat
    BY StackNodes
  <2>3. ASSUME NEW i \in DOMAIN walk.stack
        PROVE  /\ walk.stack[i].node \in Nodes(draft) \ walk.visited
               /\ walk.stack[i].todo \subseteq Out(draft, walk.stack[i].node)
               /\ \A j \in 1 .. i - 1 : walk.stack[j].node # walk.stack[i].node
    <3>1. \A j \in 1 .. i - 1 : j \in 1 .. Len(walk.stack) /\ j # i
      BY <2>2
    <3> QED
      BY <1>1, <2>2, <3>1 DEF SearchInv, StackIsPath
  <2> QED
    BY <2>1, <2>3 DEF SearchTypeOK
<1>3. ASSUME Ended(walk), Loops(draft) = {}, UngovernedCycle
      PROVE  walk.cyclic # {}
  <2>1. Visiting(walk) = {}
    BY <1>3 DEF Ended, Visiting
  <2>2. /\ Start(draft) \in walk.visited
        /\ \A k \in DOMAIN draft.edges : draft.edges[k].source \in walk.visited =>
                                         draft.edges[k].target \in walk.visited
    BY <2>1 DEF SearchInv, NothingSkipped, Out, Target
  <2>3. Reachable(draft) \subseteq walk.visited
    BY <2>2, ReachedWithin
  <2>4. PICK n \in walk.visited : OnUngovernedCycle(draft, n)
    BY <1>3, <2>3 DEF UngovernedCycle
  <2> QED
    BY <1>3, <2>4 DEF SearchInv, BehindIsAcyclic
<1>4. ReportsAreRight
  BY <1>3 DEF ReportsAreRight, SearchInv
<1> QED
  BY <1>2, <1>4

-----------------------------------------------------------------------------
(* What a repair makes of a candidate                                      *)

\* What the contract of a graph promises but for the targets of its edges.
Proper(g) ==
  /\ OneOf(g, "start") /\ OneOf(g, "output")
  /\ IsFiniteSet(Nodes(g))
  /\ DOMAIN g.edges \subseteq Nat /\ IsFiniteSet(DOMAIN g.edges)
  /\ \A i \in DOMAIN g.edges :
       /\ g.edges[i].source \in Nodes(g)
       /\ g.type[g.edges[i].source] # "output"
       /\ g.type[g.edges[i].source] = "loop" =>
            g.edges[i].handle \in {NoHandle, "true", "false", "fallback"}

\* What a model's answer is before its repair.
Candidate(c) ==
  /\ WellFormed(c) /\ c.edges \in Seq(Edges(c))
  /\ \A n \in c.mistaken : c.type[n] = "tool"

\* A graph that keeps the contract keeps this part of it.
LEMMA WellFormedIsProper ==
  ASSUME NEW g, WellFormed(g)
  PROVE  Proper(g)
BY DEF WellFormed, Shaped, Joined, Proper, Edges

\* With edges to its nodes only, such a graph has the shape that the contract
\* asks for.
LEMMA ProperIsShaped ==
  ASSUME NEW g, Proper(g), RulesKept(g), ~Dangling(g)
  PROVE  Shaped(g)
<1>1. \A e \in Edges(g) : \E i \in DOMAIN g.edges : e = g.edges[i]
  BY DEF Edges
<1>2. \A e \in Edges(g) : e.source \in Nodes(g) /\ e.target \in Nodes(g)
  BY <1>1 DEF Proper, RulesKept, Dangling
<1> QED
  BY <1>1, <1>2 DEF Shaped, Joined, Proper

\* The whole contract is more than what a repair leaves of its caps and ids.
LEMMA ContractIsMore ==
  ASSUME NEW g, WellFormed(g)
  PROVE  AfterRepair(g)
<1>1. Loops(g) \in SUBSET Nodes(g) /\ IsFiniteSet(Nodes(g)) /\ IsFiniteSet(DOMAIN g.edges)
  BY DEF Loops, WellFormed, Shaped
<1>2. /\ Cardinality(Loops(g)) \in Nat /\ Cardinality(DOMAIN g.edges) \in Nat
  BY <1>1, FS_Subset, FS_CardinalityType
<1>3. Cardinality(DOMAIN g.edges) <= MaxEdges + 3 * Cardinality(Loops(g))
  BY <1>2, CapsAssumption DEF WellFormed, WithinCaps
<1>4. /\ DOMAIN g.ids = DOMAIN g.edges
      /\ \A i, j \in DOMAIN g.ids : g.ids[i] = g.ids[j] => i = j
  BY DEF WellFormed, EdgesNamed, IsInjective
<1>5. Cardinality(Nodes(g)) <= MaxNodes
  BY DEF WellFormed, WithinCaps
<1> QED
  BY <1>3, <1>4, <1>5 DEF AfterRepair

\* The search asks for no more of its graph than that.
LEMMA ProperIsSearchable ==
  ASSUME NEW g, Proper(g)
  PROVE  Searchable(g)
BY DEF Proper, OneOf, Searchable

\* A finite set as a sequence.
LEMMA SequenceOfSet ==
  ASSUME NEW S, IsFiniteSet(S)
  PROVE  /\ Len(SetToSeq(S)) \in Nat /\ Len(SetToSeq(S)) = Cardinality(S)
         /\ \A i \in 1 .. Len(SetToSeq(S)) : SetToSeq(S)[i] \in S
<1> DEFINE n == Cardinality(S)
<1>1. n \in Nat /\ ExistsBijection(1 .. n, S)
  BY FS_CardinalityType
<1>2. \E f \in [1 .. n -> S] : IsInjective(f)
  BY <1>1 DEF ExistsBijection, Bijection, Injection, IsInjective
<1> DEFINE q == SetToSeq(S)
<1>3. q \in [1 .. n -> S]
  BY <1>2 DEF SetToSeq
<1> HIDE DEF n, q
<1>4. q \in Seq(S) /\ Len(q) = n
  BY <1>1, <1>3
<1>5. \A i \in 1 .. Len(q) : q[i] \in S
  BY <1>3, <1>4
<1> QED
  BY <1>1, <1>4, <1>5 DEF n, q

\* The fields of a repaired graph: every edge is one of the candidate, with its id,
\* or one of the branches of a loop that lacked one, with the id of that branch.
LEMMA RepairedFields ==
  ASSUME NEW c, NEW b, Len(c.edges) \in Nat, IsFiniteSet(Unrouted(c))
  PROVE  LET r    == Repaired(c, b)
             lost == SetToSeq(Unrouted(c))
             kept == {i \in DOMAIN c.edges : c.edges[i].source \notin Unrouted(c)}
         IN /\ r.type = [n \in Nodes(c) |-> IF n \in c.mistaken THEN "rag" ELSE c.type[n]]
            /\ DOMAIN r.edges = kept \cup (Len(c.edges) + 1 .. Len(c.edges) + 3 * Len(lost))
            /\ \A i \in kept : r.edges[i] = c.edges[i]
            /\ \A i \in DOMAIN r.edges \ kept :
                 /\ r.edges[i].source \in Unrouted(c)
                 /\ r.edges[i].handle \in Branches
            /\ DOMAIN r.ids = DOMAIN r.edges
            /\ \A i \in kept : r.ids[i] = c.ids[i]
            /\ \A i \in DOMAIN r.edges \ kept : r.ids[i] \in Unrouted(c) \X Branches
<1> DEFINE lost == SetToSeq(Unrouted(c))
           last == Len(c.edges)
           kept == {i \in DOMAIN c.edges : c.edges[i].source \notin Unrouted(c)}
           added == last + 1 .. last + 3 * Len(lost)
           fallback == [l \in Loops(c) |-> Or(c.fallback[l], Output(c))]
           routes(l) == << Edge(l, Output(c), "true"), Edge(l, b, "false"),
                           Edge(l, fallback[l], "fallback") >>
           new(k) == routes(lost[(k \div 3) + 1])[(k % 3) + 1]
           edges == [i \in kept \cup added |-> IF i \in kept THEN c.edges[i]
                                               ELSE new(i - last - 1)]
           ids == [i \in kept \cup added |->
                     IF i \in kept THEN c.ids[i]
                     ELSE << new(i - last - 1).source, new(i - last - 1).handle >>]
           type == [n \in Nodes(c) |-> IF n \in c.mistaken THEN "rag" ELSE c.type[n]]
<1>1. /\ Repaired(c, b).type = type /\ Repaired(c, b).edges = edges
      /\ Repaired(c, b).ids = ids
  BY DEF Repaired
<1>2. \A l : \A x \in 1 .. 3 : routes(l)[x].source = l /\ routes(l)[x].handle \in Branches
  BY DEF Edge, Branches
<1>3. last \in Nat /\ Len(lost) \in Nat /\ \A i \in 1 .. Len(lost) : lost[i] \in Unrouted(c)
  BY SequenceOfSet
<1> HIDE DEF routes, lost, last
<1>4. ASSUME NEW i \in added
      PROVE  new(i - last - 1).source \in Unrouted(c) /\ new(i - last - 1).handle \in Branches
  <2> DEFINE k == i - last - 1
  <2>1. k \in 0 .. 3 * Len(lost) - 1
    BY <1>3
  <2> HIDE DEF k
  <2>2. (k \div 3) + 1 \in 1 .. Len(lost) /\ (k % 3) + 1 \in 1 .. 3
    BY <1>3, <2>1
  <2>3. new(k).source = lost[(k \div 3) + 1] /\ new(k).handle \in Branches
    BY <1>2, <2>2
  <2>4. new(k).source \in Unrouted(c)
    BY <1>3, <2>2, <2>3
  <2> QED
    BY <2>3, <2>4 DEF k
<1> HIDE DEF new
<1>5. /\ DOMAIN edges = kept \cup added
      /\ \A i \in kept : edges[i] = c.edges[i]
      /\ \A i \in DOMAIN edges \ kept : /\ edges[i].source \in Unrouted(c)
                                        /\ edges[i].handle \in Branches
  BY <1>4
<1>6. /\ DOMAIN ids = kept \cup added
      /\ \A i \in kept : ids[i] = c.ids[i]
      /\ \A i \in DOMAIN ids \ kept : ids[i] \in Unrouted(c) \X Branches
  BY <1>4
<1> HIDE DEF edges, ids, type
<1> QED
  BY <1>1, <1>5, <1>6 DEF type, lost, last

\* A repaired graph keeps the contract, but for the targets of its edges.
LEMMA RepairedIsProper ==
  ASSUME NEW c, Candidate(c), NEW b
  PROVE  Proper(Repaired(c, b))
<1> DEFINE r == Repaired(c, b)
           kept == {i \in DOMAIN c.edges : c.edges[i].source \notin Unrouted(c)}
           lost == SetToSeq(Unrouted(c))
           added == Len(c.edges) + 1 .. Len(c.edges) + 3 * Len(lost)
<1>0. WellFormed(c) /\ Len(c.edges) \in Nat /\ \A n \in c.mistaken : c.type[n] = "tool"
  BY DEF Candidate
<1>1. Unrouted(c) \subseteq Loops(c) /\ Loops(c) \subseteq Nodes(c) /\ IsFiniteSet(Unrouted(c))
  <2>1. Unrouted(c) \subseteq Loops(c) /\ Loops(c) \subseteq Nodes(c) /\ IsFiniteSet(Nodes(c))
    BY <1>0 DEF Unrouted, Loops, WellFormed, Shaped
  <2> QED
    BY <2>1, FS_Subset
<1>2. /\ r.type = [n \in Nodes(c) |-> IF n \in c.mistaken THEN "rag" ELSE c.type[n]]
      /\ DOMAIN r.edges = kept \cup added
      /\ \A i \in kept : r.edges[i] = c.edges[i]
      /\ \A i \in DOMAIN r.edges \ kept : /\ r.edges[i].source \in Unrouted(c)
                                          /\ r.edges[i].handle \in Branches
  BY <1>0, <1>1, RepairedFields
<1>3. Len(lost) \in Nat
  BY <1>1, SequenceOfSet
<1> HIDE DEF r
<1>4. Nodes(r) = Nodes(c)
  BY <1>2 DEF Nodes
<1>5. /\ \A n \in Nodes(c) : r.type[n] = c.type[n] \/ (c.type[n] = "tool" /\ r.type[n] = "rag")
  BY <1>0, <1>2
<1>6. /\ {m \in Nodes(r) : r.type[m] = "start"} = {m \in Nodes(c) : c.type[m] = "start"}
      /\ {m \in Nodes(r) : r.type[m] = "output"} = {m \in Nodes(c) : c.type[m] = "output"}
  BY <1>4, <1>5
<1>7. /\ \E n \in Nodes(r) : {m \in Nodes(r) : r.type[m] = "start"} = {n}
      /\ \E n \in Nodes(r) : {m \in Nodes(r) : r.type[m] = "output"} = {n}
      /\ IsFiniteSet(Nodes(r))
  BY <1>0, <1>4, <1>6 DEF WellFormed, Shaped, OneOf
<1>8. DOMAIN r.edges \subseteq Nat /\ IsFiniteSet(DOMAIN r.edges)
  <2>1. kept \subseteq Nat /\ IsFiniteSet(kept)
    <3>1. kept \in SUBSET DOMAIN c.edges /\ IsFiniteSet(DOMAIN c.edges) /\ DOMAIN c.edges \subseteq Nat
      BY <1>0 DEF WellFormed, Shaped
    <3> HIDE DEF kept
    <3> QED
      BY <3>1, FS_Subset
  <2>2. added \subseteq Nat /\ IsFiniteSet(added)
    <3> HIDE DEF lost
    <3>1. Len(c.edges) + 1 \in Int /\ Len(c.edges) + 3 * Len(lost) \in Int
      BY <1>0, <1>3
    <3>2. IsFiniteSet(added)
      BY <3>1, FS_Interval
    <3>3. \A x, y \in Nat : x + 1 .. x + 3 * y \subseteq Nat
      OBVIOUS
    <3>4. added \subseteq Nat
      BY <1>0, <1>3, <3>3
    <3> QED
      BY <3>2, <3>4
  <2>3. DOMAIN r.edges = kept \cup added
    BY <1>2
  <2> HIDE DEF kept, added
  <2>4. IsFiniteSet(kept \cup added)
    BY <2>1, <2>2, FS_Union
  <2> QED
    BY <2>1, <2>2, <2>3, <2>4
<1>9. ASSUME NEW i \in DOMAIN r.edges
      PROVE  /\ r.edges[i].source \in Nodes(r)
             /\ r.type[r.edges[i].source] # "output"
             /\ r.type[r.edges[i].source] = "loop" =>
                  r.edges[i].handle \in {NoHandle, "true", "false", "fallback"}
  <2>1. CASE i \in kept
    <3>1. r.edges[i] = c.edges[i] /\ c.edges[i] \in Edges(c)
      BY <2>1, <1>2 DEF Edges
    <3>2. /\ c.edges[i].source \in Nodes(c)
          /\ c.type[c.edges[i].source] # "output"
          /\ c.type[c.edges[i].source] = "loop" =>
               c.edges[i].handle \in {NoHandle, "true", "false", "fallback"}
      BY <3>1, <1>0 DEF WellFormed, Shaped, Joined
    <3> QED
      BY <3>1, <3>2, <1>4, <1>5
  <2>2. CASE i \notin kept
    <3>1. r.edges[i].source \in Loops(c) /\ r.edges[i].handle \in Branches
      BY <2>2, <1>1, <1>2
    <3> QED
      BY <3>1, <1>1, <1>4, <1>5 DEF Loops, Branches
  <2> QED
    BY <2>1, <2>2
<1>10. Proper(r)
  BY <1>7, <1>8, <1>9 DEF Proper, OneOf
<1> QED
  BY <1>10 DEF r

\* It has as many nodes as the candidate, three edges more for every loop at most,
\* and ids of its own but for those of the new edges.
LEMMA RepairedIsNamed ==
  ASSUME NEW c, Candidate(c), NEW b
  PROVE  AfterRepair(Repaired(c, b))
<1> DEFINE r == Repaired(c, b)
           kept == {i \in DOMAIN c.edges : c.edges[i].source \notin Unrouted(c)}
           lost == SetToSeq(Unrouted(c))
           added == Len(c.edges) + 1 .. Len(c.edges) + 3 * Len(lost)
<1>0. WellFormed(c) /\ Len(c.edges) \in Nat /\ \A n \in c.mistaken : c.type[n] = "tool"
  BY DEF Candidate
<1>1. /\ Unrouted(c) \in SUBSET Loops(c) /\ Loops(c) \in SUBSET Nodes(c)
      /\ IsFiniteSet(Nodes(c)) /\ IsFiniteSet(DOMAIN c.edges)
  BY <1>0 DEF Unrouted, Loops, WellFormed, Shaped
<1>2. /\ IsFiniteSet(Loops(c)) /\ IsFiniteSet(Unrouted(c))
      /\ Cardinality(Loops(c)) \in Nat /\ Cardinality(Unrouted(c)) \in Nat
      /\ Cardinality(Unrouted(c)) <= Cardinality(Loops(c))
  BY <1>1, FS_Subset, FS_CardinalityType
<1>3. /\ r.type = [n \in Nodes(c) |-> IF n \in c.mistaken THEN "rag" ELSE c.type[n]]
      /\ DOMAIN r.edges = kept \cup added /\ DOMAIN r.ids = DOMAIN r.edges
      /\ \A i \in kept : r.ids[i] = c.ids[i]
      /\ \A i \in DOMAIN r.edges \ kept : r.ids[i] \in Unrouted(c) \X Branches
  BY <1>0, <1>2, RepairedFields
<1>4. Len(lost) \in Nat /\ Len(lost) = Cardinality(Unrouted(c))
  BY <1>2, SequenceOfSet
<1> HIDE DEF r
<1>5. Nodes(r) = Nodes(c) /\ Loops(r) = Loops(c)
  <2>1. Nodes(r) = Nodes(c)
    BY <1>3 DEF Nodes
  <2>2. \A n \in Nodes(c) : r.type[n] = "loop" <=> c.type[n] = "loop"
    BY <1>0, <1>3
  <2> QED
    BY <2>1, <2>2 DEF Loops
<1>6. Cardinality(DOMAIN r.edges) <= MaxEdges + 3 * Cardinality(Loops(r))
  <2> HIDE DEF lost
  <2>1. kept \in SUBSET DOMAIN c.edges /\ Cardinality(DOMAIN c.edges) <= MaxEdges
    BY <1>0 DEF WellFormed, WithinCaps
  <2> HIDE DEF kept
  <2>2. IsFiniteSet(kept) /\ Cardinality(kept) \in Nat /\ Cardinality(kept) <= MaxEdges
    BY <2>1, <1>1, FS_Subset, FS_CardinalityType, CapsAssumption
  <2>3. IsFiniteSet(added) /\ Cardinality(added) = 3 * Len(lost)
    <3> DEFINE low == Len(c.edges) + 1  high == Len(c.edges) + 3 * Len(lost)
    <3>1. low \in Int /\ high \in Int /\ high - low + 1 = 3 * Len(lost) /\ (low > high => Len(lost) = 0)
      BY <1>0, <1>4
    <3>2. added = low .. high
      OBVIOUS
    <3> HIDE DEF low, high, added
    <3>3. IsFiniteSet(low .. high) /\ Cardinality(low .. high) = IF low > high THEN 0 ELSE high - low + 1
      BY <3>1, FS_Interval, Zenon
    <3> QED
      BY <1>4, <3>1, <3>2, <3>3
  <2> HIDE DEF added
  <2>4. Cardinality(kept \cup added) <= Cardinality(kept) + Cardinality(added)
    <3>1. kept \cap added \in SUBSET kept
      OBVIOUS
    <3>2. Cardinality(kept \cap added) \in Nat
      BY <3>1, <2>2, FS_Subset, FS_CardinalityType
    <3>3. Cardinality(kept \cup added) =
            Cardinality(kept) + Cardinality(added) - Cardinality(kept \cap added)
      BY <2>2, <2>3, FS_Union
    <3> QED
      BY <3>2, <3>3, <2>2, <2>3, <1>4
  <2>5. Cardinality(kept \cup added) \in Nat
    BY <2>2, <2>3, FS_Union, FS_CardinalityType
  <2> QED
    BY <2>2, <2>3, <2>4, <2>5, <1>2, <1>3, <1>4, <1>5, CapsAssumption
<1>7. ASSUME NEW i \in DOMAIN r.ids, NEW j \in DOMAIN r.ids, i # j, r.ids[i] = r.ids[j]
      PROVE  r.ids[i] \in Loops(r) \X Branches
  <2>1. CASE i \in kept /\ j \in kept
    BY <1>0, <1>3, <1>7, <2>1 DEF WellFormed, EdgesNamed, IsInjective
  <2>2. CASE i \notin kept \/ j \notin kept
    BY <1>1, <1>3, <1>5, <1>7, <2>2
  <2> QED
    BY <2>1, <2>2
<1>8. Cardinality(Nodes(r)) <= MaxNodes
  BY <1>0, <1>5 DEF WellFormed, WithinCaps
<1>9. AfterRepair(r)
  BY <1>3, <1>6, <1>7, <1>8 DEF AfterRepair
<1> QED
  BY <1>9 DEF r

-----------------------------------------------------------------------------
(* The synthesized graphs                                                  *)

\* A graph whose nodes have an order, which every edge between nodes that are no
\* loops follows, has no cycle without a loop.
LEMMA OrderedIsGoverned ==
  ASSUME NEW g, NEW rank \in [Nodes(g) -> Nat],
         \A e \in Edges(g) : e.source \in Nodes(g) \ Loops(g) /\ e.target \in Nodes(g) \ Loops(g)
                               => rank[e.source] < rank[e.target],
         NEW n
  PROVE  ~OnUngovernedCycle(g, n)
<1> DEFINE free == Nodes(g) \ Loops(g)
           next == {e.target : e \in {d \in Edges(g) : d.source = n}}
           S == {m \in free : rank[n] < rank[m]}
<1> SUFFICES ASSUME n \in free PROVE n \notin Spread(g, next, free)
  BY DEF OnUngovernedCycle
<1>1. S \in SUBSET free /\ next \cap free \subseteq S
  OBVIOUS
<1>2. \A m \in free : rank[m] \in Nat
  OBVIOUS
<1>3. ClosedIn(g, S, free)
  BY <1>2 DEF ClosedIn
<1>4. n \notin S
  BY <1>2
<1> HIDE DEF S
<1> QED
  BY <1>1, <1>3, <1>4 DEF Spread

\* Nodes in a row, with their kinds.
IsRow(row, names, kinds, m) ==
  /\ Nodes(row) = {names[i] : i \in 1 .. m + 1}
  /\ \A i \in 1 .. m + 1 : row.type[names[i]] = kinds[i]
  /\ DOMAIN row.edges = 1 .. m /\ Len(row.edges) = m
  /\ \A i \in 1 .. m : row.edges[i] = Edge(names[i], names[i + 1], NoHandle)
  /\ DOMAIN row.ids = 1 .. m /\ \A i \in 1 .. m : row.ids[i] = << "e", i >>
  /\ row.faulty = {} /\ row.mistaken = {}

\* Every node of a row has its kind.
LEMMA RowKinds ==
  ASSUME NEW names, NEW kinds, NEW m \in Nat, DOMAIN names = 1 .. m + 1, Len(names) = m + 1,
         IsInjective(names)
  PROVE  IsRow(Row(names, kinds), names, kinds, m)
<1> DEFINE type == [x \in ToSet(names) |-> kinds[CHOOSE i \in DOMAIN names : names[i] = x]]
           edges == [i \in 1 .. m |-> Edge(names[i], names[i + 1], NoHandle)]
           ids == [i \in 1 .. m |-> << "e", i >>]
<1>0. Len(names) - 1 = m
  OBVIOUS
<1>1. /\ Row(names, kinds).type = type /\ Row(names, kinds).edges = edges
      /\ Row(names, kinds).ids = ids
      /\ Row(names, kinds).faulty = {} /\ Row(names, kinds).mistaken = {}
  BY <1>0 DEF Row
<1>2. \A i \in 1 .. m + 1 : (CHOOSE j \in DOMAIN names : names[j] = names[i]) = i
  BY DEF IsInjective
<1>3. \A i \in 1 .. m + 1 : type[names[i]] = kinds[i]
  BY <1>2 DEF ToSet
<1>4. DOMAIN type = {names[i] : i \in 1 .. m + 1}
  BY DEF ToSet
<1>5. DOMAIN edges = 1 .. m /\ Len(edges) = m
  OBVIOUS
<1>6. \A i \in 1 .. m : edges[i] = Edge(names[i], names[i + 1], NoHandle)
  OBVIOUS
<1>7. DOMAIN ids = 1 .. m /\ \A i \in 1 .. m : ids[i] = << "e", i >>
  OBVIOUS
<1> HIDE DEF type, edges, ids
<1> QED
  BY <1>1, <1>3, <1>4, <1>5, <1>6, <1>7 DEF Nodes, IsRow

\* The repair leaves a graph as it is in which no loop lacks a branch.
LEMMA NothingToRepair ==
  ASSUME NEW c, NEW b, Unrouted(c) = {}, Len(c.edges) \in Nat, DOMAIN c.edges = 1 .. Len(c.edges),
         c.faulty = {}, c.mistaken = {}
  PROVE  LET r == Repaired(c, b) IN
         /\ Nodes(r) = Nodes(c) /\ \A n \in Nodes(c) : r.type[n] = c.type[n]
         /\ DOMAIN r.edges = DOMAIN c.edges /\ DOMAIN r.ids = DOMAIN c.edges
         /\ \A i \in DOMAIN c.edges : r.edges[i] = c.edges[i] /\ r.ids[i] = c.ids[i]
         /\ \A l \in Loops(c) : /\ r.max[l] = Or(c.max[l], 4)
                                /\ r.fallback[l] = Or(c.fallback[l], Output(c))
         /\ r.faulty = {}
<1> DEFINE r == Repaired(c, b)
           lost == SetToSeq(Unrouted(c))
           kept == {i \in DOMAIN c.edges : c.edges[i].source \notin Unrouted(c)}
<1>1. IsFiniteSet(Unrouted(c)) /\ Len(lost) = 0
  BY FS_EmptySet, SequenceOfSet
<1>2. kept = DOMAIN c.edges
  OBVIOUS
<1>3. /\ r.type = [n \in Nodes(c) |-> IF n \in c.mistaken THEN "rag" ELSE c.type[n]]
      /\ DOMAIN r.edges = kept \cup (Len(c.edges) + 1 .. Len(c.edges) + 3 * Len(lost))
      /\ \A i \in kept : r.edges[i] = c.edges[i]
  BY <1>1, RepairedFields
<1>a. DOMAIN r.ids = DOMAIN r.edges /\ \A i \in kept : r.ids[i] = c.ids[i]
  BY <1>1, RepairedFields
<1>4. Len(c.edges) + 1 .. Len(c.edges) + 3 * Len(lost) = {}
  <2> HIDE DEF lost
  <2> QED
    BY <1>1
<1>5. /\ \A l \in Loops(c) : /\ r.max[l] = Or(c.max[l], 4)
                             /\ r.fallback[l] = Or(c.fallback[l], Output(c))
      /\ r.faulty = {}
  BY DEF Repaired
<1> HIDE DEF r
<1> QED
  BY <1>2, <1>3, <1>a, <1>4, <1>5 DEF Nodes, r

\* What is said of a synthesized graph: it keeps the contract, and the validator
\* has nothing to report.
Flawless(g) ==
  /\ Proper(g) /\ ~Dangling(g) /\ RulesKept(g)
  /\ WithinCaps(g) /\ EdgesNamed(g)
  /\ \A n \in Nodes(g) : ~OnUngovernedCycle(g, n)

\* A set with one element more.
LEMMA OneMore ==
  ASSUME NEW S, NEW x, NEW n \in Nat, NEW m, m = n + 1, IsFiniteSet(S), Cardinality(S) <= n
  PROVE  IsFiniteSet(S \cup {x}) /\ Cardinality(S \cup {x}) <= m
<1>1. Cardinality(S) \in Nat
  BY FS_CardinalityType
<1> QED
  BY <1>1, FS_AddElement

\* Sets of four and of five.
LEMMA FewAreFinite ==
  ASSUME NEW a, NEW b, NEW c, NEW d, NEW e
  PROVE  /\ IsFiniteSet({a, b, c, d}) /\ Cardinality({a, b, c, d}) <= 4
         /\ IsFiniteSet({a, b, c, d, e}) /\ Cardinality({a, b, c, d, e}) <= 5
<1> DEFINE two == {a} \cup {b}  three == two \cup {c}  four == three \cup {d}
           five == four \cup {e}
<1>0. 1 \in Nat /\ 2 \in Nat /\ 3 \in Nat /\ 4 \in Nat /\ 2 = 1 + 1 /\ 3 = 2 + 1 /\ 4 = 3 + 1 /\ 5 = 4 + 1
  OBVIOUS
<1>1. IsFiniteSet({a}) /\ Cardinality({a}) <= 1
  BY FS_Singleton
<1>2. IsFiniteSet(two) /\ Cardinality(two) <= 2
  BY <1>0, <1>1, OneMore, Zenon
<1>6. four = {a, b, c, d} /\ five = {a, b, c, d, e}
  OBVIOUS
<1> HIDE DEF two
<1>3. IsFiniteSet(three) /\ Cardinality(three) <= 3
  BY <1>0, <1>2, OneMore, Zenon
<1> HIDE DEF three
<1>4. IsFiniteSet(four) /\ Cardinality(four) <= 4
  BY <1>0, <1>3, OneMore, Zenon
<1> HIDE DEF four
<1>5. IsFiniteSet(five) /\ Cardinality(five) <= 5
  BY <1>0, <1>4, OneMore, Zenon
<1> QED
  BY <1>4, <1>5, <1>6

\* Four nodes in a row, none of them a loop.
LEMMA RowIsFlawless ==
  ASSUME NEW a, NEW b, NEW c, NEW d, NEW kb, NEW kc, NEW before,
         a # b, a # c, a # d, b # c, b # d, c # d,
         kb \notin {"start", "loop", "output"}, kc \notin {"start", "loop", "output"}
  PROVE  Flawless(Repaired(Row(<<a, b, c, d>>, <<"start", kb, kc, "output">>), before))
<1> DEFINE row == Row(<<a, b, c, d>>, <<"start", kb, kc, "output">>)
           g == Repaired(row, before)
<1>1. /\ Nodes(row) = {a, b, c, d}
      /\ row.type[a] = "start" /\ row.type[b] = kb /\ row.type[c] = kc /\ row.type[d] = "output"
      /\ DOMAIN row.edges = 1 .. 3 /\ Len(row.edges) = 3
      /\ row.edges[1] = Edge(a, b, NoHandle) /\ row.edges[2] = Edge(b, c, NoHandle)
      /\ row.edges[3] = Edge(c, d, NoHandle) /\ row.faulty = {} /\ row.mistaken = {}
      /\ \A i \in 1 .. 3 : row.ids[i] = << "e", i >>
  <2> DEFINE names == <<a, b, c, d>>
             kinds == <<"start", kb, kc, "output">>
  <2>1. /\ DOMAIN names = 1 .. 3 + 1 /\ Len(names) = 3 + 1 /\ 3 \in Nat
        /\ IsInjective(names)
    BY DEF IsInjective
  <2>2. /\ names[1] = a /\ names[2] = b /\ names[3] = c /\ names[4] = d
        /\ kinds[1] = "start" /\ kinds[2] = kb /\ kinds[3] = kc /\ kinds[4] = "output"
    OBVIOUS
  <2>3. row = Row(names, kinds)
    OBVIOUS
  <2> HIDE DEF names, kinds, row
  <2>4. /\ Nodes(row) = {names[i] : i \in 1 .. 3 + 1}
        /\ \A i \in 1 .. 3 + 1 : row.type[names[i]] = kinds[i]
        /\ DOMAIN row.edges = 1 .. 3 /\ Len(row.edges) = 3
        /\ \A i \in 1 .. 3 : row.edges[i] = Edge(names[i], names[i + 1], NoHandle)
        /\ \A i \in 1 .. 3 : row.ids[i] = << "e", i >>
        /\ row.faulty = {} /\ row.mistaken = {}
    <3>1. IsRow(row, names, kinds, 3)
      BY <2>1, <2>3, RowKinds, Zenon
    <3> QED
      BY <3>1 DEF IsRow
  <2>5. {names[i] : i \in 1 .. 3 + 1} = {a, b, c, d}
    BY <2>2
  <2>6. /\ row.edges[1] = Edge(a, b, NoHandle) /\ row.edges[2] = Edge(b, c, NoHandle)
        /\ row.edges[3] = Edge(c, d, NoHandle)
    BY <2>2, <2>4
  <2>7. row.type[a] = "start" /\ row.type[b] = kb /\ row.type[c] = kc /\ row.type[d] = "output"
    BY <2>2, <2>4
  <2> QED
    BY <2>4, <2>5, <2>6, <2>7
<1> HIDE DEF row
<1>2. Loops(row) = {} /\ Unrouted(row) = {}
  BY <1>1 DEF Loops, Unrouted
<1>4. /\ Nodes(g) = {a, b, c, d}
      /\ g.type[a] = "start" /\ g.type[b] = kb /\ g.type[c] = kc /\ g.type[d] = "output"
      /\ DOMAIN g.edges = {1, 2, 3}
      /\ g.edges[1] = Edge(a, b, NoHandle) /\ g.edges[2] = Edge(b, c, NoHandle)
      /\ g.edges[3] = Edge(c, d, NoHandle)
      /\ DOMAIN g.ids = DOMAIN g.edges /\ \A i \in DOMAIN g.ids : g.ids[i] = << "e", i >>
      /\ g.faulty = {}
  BY <1>1, <1>2, NothingToRepair
<1> HIDE DEF g
<1>5. Edges(g) = {Edge(a, b, NoHandle), Edge(b, c, NoHandle), Edge(c, d, NoHandle)}
  BY <1>4 DEF Edges
<1>6. Proper(g)
  <2>1. {m \in Nodes(g) : g.type[m] = "start"} = {a} /\ {m \in Nodes(g) : g.type[m] = "output"} = {d}
    BY <1>4
  <2>2. IsFiniteSet({1, 2, 3}) /\ IsFiniteSet({a, b, c, d})
    <3>1. {1, 2, 3} = {1, 2, 3, 3}
      OBVIOUS
    <3> QED
      BY <3>1, FewAreFinite
  <2>3. \A i \in DOMAIN g.edges : g.edges[i].source \in {a, b, c}
    BY <1>4 DEF Edge
  <2> QED
    BY <1>4, <2>1, <2>2, <2>3 DEF Proper, OneOf
<1>a. WithinCaps(g) /\ EdgesNamed(g)
  <2>1. Cardinality(Nodes(g)) <= 4
    <3>1. Cardinality({a, b, c, d}) <= 4
      BY FewAreFinite, Zenon
    <3> QED
      BY <1>4, <3>1
  <2>2. IsFiniteSet({1, 2, 3, 3}) /\ Cardinality({1, 2, 3, 3}) <= 4
    BY FewAreFinite
  <2>3. Cardinality(Nodes(g)) \in Nat /\ Cardinality({1, 2, 3, 3}) \in Nat
    BY <1>6, <2>2, FS_CardinalityType DEF Proper
  <2>4. DOMAIN g.edges = {1, 2, 3, 3}
    BY <1>4
  <2>5. Cardinality(DOMAIN g.edges) <= 4 /\ Cardinality(DOMAIN g.edges) \in Nat
    BY <2>2, <2>3, <2>4
  <2>6. WithinCaps(g)
    BY <2>1, <2>3, <2>5, CapsAssumption, RoomAssumption DEF WithinCaps
  <2>7. EdgesNamed(g)
    BY <1>4 DEF EdgesNamed, IsInjective
  <2> QED
    BY <2>6, <2>7
<1>7. Loops(g) = {}
  BY <1>4 DEF Loops
<1>8. Start(g) = a
  BY <1>4 DEF Start
<1>9. Nodes(g) \subseteq Reachable(g)
  <2>1. a \in Reachable(g)
    BY <1>6, <1>8, ProperIsSearchable, StartReached
  <2>2. b \in Reachable(g)
    BY <2>1, <1>4, ReachedOn DEF Edge
  <2>3. c \in Reachable(g)
    BY <2>2, <1>4, ReachedOn DEF Edge
  <2>4. d \in Reachable(g)
    BY <2>3, <1>4, ReachedOn DEF Edge
  <2> QED
    BY <1>4, <2>1, <2>2, <2>3, <2>4
<1>10. ~Dangling(g)
  BY <1>4, <1>5 DEF Dangling, Edge
<1>11. RulesKept(g)
  BY <1>4, <1>7, <1>9 DEF RulesKept
<1>12. \A n : ~OnUngovernedCycle(g, n)
  <2> DEFINE rank == [n \in Nodes(g) |-> IF n = a THEN 1 ELSE IF n = b THEN 2 ELSE IF n = c THEN 3 ELSE 4]
  <2>1. rank \in [Nodes(g) -> Nat]
    OBVIOUS
  <2>2. rank[a] = 1 /\ rank[b] = 2 /\ rank[c] = 3 /\ rank[d] = 4
    BY <1>4
  <2> HIDE DEF rank
  <2>3. \A e \in Edges(g) : rank[e.source] < rank[e.target]
    BY <1>5, <2>2 DEF Edge
  <2> QED
    BY <2>1, <2>3, OrderedIsGoverned
<1>13. Flawless(g)
  BY <1>6, <1>a, <1>10, <1>11, <1>12 DEF Flawless
<1> QED
  BY <1>13 DEF g, row

\* Two sequences of three, one after the other.
LEMMA ThreeAndThree ==
  ASSUME NEW S, NEW p \in Seq(S), NEW q \in Seq(S), Len(p) = 3, Len(q) = 3
  PROVE  /\ DOMAIN (p \o q) = 1 .. 6 /\ Len(p \o q) = 6
         /\ (p \o q)[1] = p[1] /\ (p \o q)[2] = p[2] /\ (p \o q)[3] = p[3]
         /\ (p \o q)[4] = q[1] /\ (p \o q)[5] = q[2] /\ (p \o q)[6] = q[3]
<1> DEFINE r == p \o q
<1>1. /\ r \in Seq(S) /\ Len(r) = Len(p) + Len(q)
      /\ \A i \in 1 .. Len(p) + Len(q) : r[i] = IF i <= Len(p) THEN p[i] ELSE q[i - Len(p)]
  BY ConcatProperties, Zenon
<1> HIDE DEF r
<1>2. Len(r) = 6 /\ DOMAIN r = 1 .. 6
  <2>1. Len(r) = 6
    BY <1>1
  <2> QED
    BY <1>1, <2>1, LenProperties
<1>3. \A i \in 1 .. 6 : r[i] = IF i =< 3 THEN p[i] ELSE q[i - 3]
  BY <1>1
<1>4. r[1] = p[1] /\ r[2] = p[2] /\ r[3] = p[3]
  BY <1>3
<1>5. r[4] = q[1] /\ r[5] = q[2] /\ r[6] = q[3]
  BY <1>3
<1> QED
  BY <1>2, <1>4, <1>5 DEF r

\* The edges of the synthesized graph with a loop.
LEMMA LoopEdges ==
  LET c == SynthesizedLoop IN
  /\ Nodes(c) = {"start-1", "llm-1", "tool-1", "loop-1", "out-1"}
  /\ c.type["start-1"] = "start" /\ c.type["llm-1"] = "llm" /\ c.type["tool-1"] = "tool"
  /\ c.type["loop-1"] = "loop" /\ c.type["out-1"] = "output"
  /\ DOMAIN c.edges = 1 .. 6 /\ Len(c.edges) = 6
  /\ c.edges[1] = Edge("start-1", "llm-1", NoHandle)
  /\ c.edges[2] = Edge("llm-1", "tool-1", NoHandle)
  /\ c.edges[3] = Edge("tool-1", "loop-1", NoHandle)
  /\ c.edges[4] = Edge("loop-1", "out-1", "true")
  /\ c.edges[5] = Edge("loop-1", "llm-1", "false")
  /\ c.edges[6] = Edge("loop-1", "out-1", "fallback")
  /\ \A i \in 1 .. 6 : c.ids[i] = << "e", i >>
  /\ c.max["loop-1"] = 4 /\ c.fallback["loop-1"] = "out-1"
  /\ c.faulty = {} /\ c.mistaken = {}
<1> DEFINE names == <<"start-1", "llm-1", "tool-1", "loop-1", "out-1">>
           kinds == <<"start", "llm", "tool", "loop", "output">>
           row == Row(names, kinds)
           back == << Edge("loop-1", "out-1", "true"), Edge("loop-1", "llm-1", "false"),
                      Edge("loop-1", "out-1", "fallback") >>
           c == SynthesizedLoop
<1>1. /\ DOMAIN names = 1 .. 4 + 1 /\ Len(names) = 4 + 1 /\ 4 \in Nat /\ IsInjective(names)
  BY DEF IsInjective
<1>2. /\ names[1] = "start-1" /\ names[2] = "llm-1" /\ names[3] = "tool-1" /\ names[4] = "loop-1"
      /\ names[5] = "out-1" /\ kinds[1] = "start" /\ kinds[2] = "llm" /\ kinds[3] = "tool"
      /\ kinds[4] = "loop" /\ kinds[5] = "output"
  OBVIOUS
<1>3. /\ c.type = row.type /\ c.edges = SubSeq(row.edges, 1, 3) \o back
      /\ c.max["loop-1"] = 4 /\ c.fallback["loop-1"] = "out-1"
      /\ c.faulty = row.faulty /\ c.mistaken = row.mistaken
      /\ \A i \in 1 .. 6 : c.ids[i] = << "e", i >>
  BY DEF SynthesizedLoop, Row
<1> DEFINE first == SubSeq(row.edges, 1, 3)
<1>4. IsRow(row, names, kinds, 4)
  <2> HIDE DEF names, kinds
  <2> QED
    BY <1>1, RowKinds, Zenon
<1>5. row.edges \in Seq(Edges(row))
  BY DEF Row, Edges
<1> HIDE DEF row, names, kinds, c
<1>6. /\ Nodes(row) = {names[i] : i \in 1 .. 5} /\ \A i \in 1 .. 5 : row.type[names[i]] = kinds[i]
      /\ DOMAIN row.edges = 1 .. 4 /\ Len(row.edges) = 4
      /\ \A i \in 1 .. 4 : row.edges[i] = Edge(names[i], names[i + 1], NoHandle)
      /\ row.faulty = {} /\ row.mistaken = {}
  BY <1>4 DEF IsRow
<1>7. {names[i] : i \in 1 .. 5} = {"start-1", "llm-1", "tool-1", "loop-1", "out-1"}
  BY <1>2
<1>8. first \in Seq(Edges(row)) /\ Len(first) = 3 /\ \A i \in 1 .. 3 : first[i] = row.edges[i]
  BY <1>5, <1>6
<1>9. /\ row.edges[1] = Edge("start-1", "llm-1", NoHandle)
      /\ row.edges[2] = Edge("llm-1", "tool-1", NoHandle)
      /\ row.edges[3] = Edge("tool-1", "loop-1", NoHandle)
  BY <1>2, <1>6
<1>10. /\ Len(back) = 3 /\ back[1] = Edge("loop-1", "out-1", "true")
       /\ back[2] = Edge("loop-1", "llm-1", "false") /\ back[3] = Edge("loop-1", "out-1", "fallback")
       /\ back \in Seq({back[1], back[2], back[3]})
  <2> DEFINE ways(p, q, r) == << p, q, r >>
  <2>1. \A p, q, r : /\ Len(ways(p, q, r)) = 3 /\ ways(p, q, r)[1] = p
                     /\ ways(p, q, r)[2] = q /\ ways(p, q, r)[3] = r
                     /\ ways(p, q, r) \in Seq({p, q, r})
    OBVIOUS
  <2>2. back = ways(Edge("loop-1", "out-1", "true"), Edge("loop-1", "llm-1", "false"),
                    Edge("loop-1", "out-1", "fallback"))
    OBVIOUS
  <2> HIDE DEF ways, back
  <2> QED
    BY <2>1, <2>2
<1> HIDE DEF back, first
<1>11. /\ DOMAIN (first \o back) = 1 .. 6 /\ Len(first \o back) = 6
       /\ (first \o back)[1] = first[1] /\ (first \o back)[2] = first[2]
       /\ (first \o back)[3] = first[3] /\ (first \o back)[4] = back[1]
       /\ (first \o back)[5] = back[2] /\ (first \o back)[6] = back[3]
  <2> DEFINE S == Edges(row) \cup {back[1], back[2], back[3]}
  <2>1. first \in Seq(S) /\ back \in Seq(S)
    BY <1>8, <1>10
  <2> HIDE DEF S
  <2> QED
    BY <2>1, <1>8, <1>10, ThreeAndThree
<1>12. c.edges = first \o back
  BY <1>3 DEF first
<1>13. /\ c.type["start-1"] = "start" /\ c.type["llm-1"] = "llm" /\ c.type["tool-1"] = "tool"
       /\ c.type["loop-1"] = "loop" /\ c.type["out-1"] = "output"
  BY <1>2, <1>3, <1>6
<1> HIDE DEF names, kinds, row
<1>14. DOMAIN c.edges = 1 .. 6 /\ Len(c.edges) = 6
  BY <1>11, <1>12
<1>15. /\ c.edges[1] = Edge("start-1", "llm-1", NoHandle)
       /\ c.edges[2] = Edge("llm-1", "tool-1", NoHandle)
       /\ c.edges[3] = Edge("tool-1", "loop-1", NoHandle)
  BY <1>8, <1>9, <1>11, <1>12
<1>16. /\ c.edges[4] = Edge("loop-1", "out-1", "true")
       /\ c.edges[5] = Edge("loop-1", "llm-1", "false")
       /\ c.edges[6] = Edge("loop-1", "out-1", "fallback")
  BY <1>10, <1>11, <1>12
<1>17. Nodes(c) = {"start-1", "llm-1", "tool-1", "loop-1", "out-1"}
  BY <1>3, <1>6, <1>7 DEF Nodes
<1>18. c.faulty = {} /\ c.mistaken = {}
  BY <1>3, <1>6
<1> QED
  BY <1>3, <1>13, <1>14, <1>15, <1>16, <1>17, <1>18 DEF c

\* The synthesized graph with a loop, repaired: it lacked nothing.
LEMMA LoopIsFlawless ==
  ASSUME NEW before
  PROVE  Flawless(Repaired(SynthesizedLoop, before))
<1> DEFINE s == "start-1"  m == "llm-1"  t == "tool-1"  l == "loop-1"  o == "out-1"
           c == SynthesizedLoop
           g == Repaired(c, before)
<1>1. /\ Nodes(c) = {s, m, t, l, o}
      /\ c.type[s] = "start" /\ c.type[m] = "llm" /\ c.type[t] = "tool"
      /\ c.type[l] = "loop" /\ c.type[o] = "output"
      /\ DOMAIN c.edges = 1 .. 6 /\ Len(c.edges) = 6
      /\ c.edges[1] = Edge(s, m, NoHandle) /\ c.edges[2] = Edge(m, t, NoHandle)
      /\ c.edges[3] = Edge(t, l, NoHandle) /\ c.edges[4] = Edge(l, o, "true")
      /\ c.edges[5] = Edge(l, m, "false") /\ c.edges[6] = Edge(l, o, "fallback")
      /\ \A i \in 1 .. 6 : c.ids[i] = << "e", i >>
      /\ c.max[l] = 4 /\ c.fallback[l] = o /\ c.faulty = {} /\ c.mistaken = {}
  BY LoopEdges
<1> HIDE DEF c
<1>2. Loops(c) = {l} /\ Output(c) = o
  BY <1>1 DEF Loops, Output
<1>3. Unrouted(c) = {}
  <2>1. c.edges[4] \in Edges(c) /\ c.edges[5] \in Edges(c) /\ c.edges[6] \in Edges(c)
    BY <1>1 DEF Edges
  <2>2. /\ c.edges[4].source = l /\ c.edges[4].handle = "true"
        /\ c.edges[5].source = l /\ c.edges[5].handle = "false"
        /\ c.edges[6].source = l /\ c.edges[6].handle = "fallback"
    BY <1>1 DEF Edge
  <2>3. \A h \in Branches : Targets(c, l, h) # {}
    BY <2>1, <2>2 DEF Targets, Branches
  <2> QED
    BY <1>2, <2>3 DEF Unrouted
<1>4. /\ Nodes(g) = Nodes(c) /\ \A n \in Nodes(c) : g.type[n] = c.type[n]
      /\ DOMAIN g.edges = DOMAIN c.edges /\ DOMAIN g.ids = DOMAIN c.edges
      /\ \A i \in DOMAIN c.edges : g.edges[i] = c.edges[i] /\ g.ids[i] = c.ids[i]
      /\ g.max[l] = Or(c.max[l], 4) /\ g.fallback[l] = Or(c.fallback[l], Output(c))
      /\ g.faulty = {}
  <2>1. Len(c.edges) \in Nat /\ DOMAIN c.edges = 1 .. Len(c.edges)
    BY <1>1
  <2> QED
    BY <2>1, <1>1, <1>2, <1>3, NothingToRepair
<1> HIDE DEF g
<1>5. g.max[l] = 4 /\ g.fallback[l] = o
  BY <1>1, <1>2, <1>4 DEF Or
<1>6. /\ Nodes(g) = {s, m, t, l, o}
      /\ g.type[s] = "start" /\ g.type[m] = "llm" /\ g.type[t] = "tool"
      /\ g.type[l] = "loop" /\ g.type[o] = "output"
  BY <1>1, <1>4
<1>7. /\ DOMAIN g.edges = 1 .. 6
      /\ g.edges[1] = Edge(s, m, NoHandle) /\ g.edges[2] = Edge(m, t, NoHandle)
      /\ g.edges[3] = Edge(t, l, NoHandle) /\ g.edges[4] = Edge(l, o, "true")
      /\ g.edges[5] = Edge(l, m, "false") /\ g.edges[6] = Edge(l, o, "fallback")
  BY <1>1, <1>4
<1>8. \A i \in DOMAIN g.edges :
        /\ g.edges[i].source \in {s, m, t, l} /\ g.edges[i].target \in {m, t, l, o}
        /\ g.edges[i].source = l => g.edges[i].handle \in {"true", "false", "fallback"}
  BY <1>7 DEF Edge
<1>9. Proper(g)
  <2>1. {n \in Nodes(g) : g.type[n] = "start"} = {s} /\ {n \in Nodes(g) : g.type[n] = "output"} = {o}
    BY <1>6
  <2>2. IsFiniteSet(1 .. 6) /\ IsFiniteSet({s, m, t, l, o}) /\ 1 .. 6 \subseteq Nat
    <3>1. IsFiniteSet({s, m, t, l, o})
      BY FewAreFinite, Zenon
    <3>2. 1 \in Int /\ 6 \in Int
      OBVIOUS
    <3>3. IsFiniteSet(1 .. 6)
      BY <3>2, FS_Interval, Zenon
    <3> QED
      BY <3>1, <3>3
  <2>3. \A i \in DOMAIN g.edges :
          /\ g.edges[i].source \in Nodes(g) /\ g.type[g.edges[i].source] # "output"
          /\ g.type[g.edges[i].source] = "loop" => g.edges[i].source = l
    BY <1>6, <1>8
  <2> QED
    BY <1>6, <1>7, <1>8, <2>1, <2>2, <2>3 DEF Proper, OneOf
<1>a. WithinCaps(g) /\ EdgesNamed(g)
  <2>1. Cardinality(Nodes(g)) <= 5 /\ Cardinality(Nodes(g)) \in Nat
    <3>1. Cardinality(Nodes(g)) <= 5
      BY <1>6, FewAreFinite
    <3>2. Cardinality(Nodes(g)) \in Nat
      BY <1>9, FS_CardinalityType DEF Proper
    <3> QED
      BY <3>1, <3>2
  <2>2. Cardinality(DOMAIN g.edges) = 6
    <3>1. 1 \in Int /\ 6 \in Int
      OBVIOUS
    <3>2. Cardinality(1 .. 6) = IF 1 > 6 THEN 0 ELSE 6 - 1 + 1
      BY <3>1, FS_Interval, Zenon
    <3> QED
      BY <3>2, <1>7
  <2>3. WithinCaps(g)
    BY <2>1, <2>2, CapsAssumption, RoomAssumption DEF WithinCaps
  <2>4. DOMAIN g.ids = 1 .. 6 /\ \A i \in 1 .. 6 : g.ids[i] = << "e", i >>
    BY <1>1, <1>4
  <2>5. EdgesNamed(g)
    BY <2>4, <1>7 DEF EdgesNamed, IsInjective
  <2> QED
    BY <2>3, <2>5
<1>10. Loops(g) = {l} /\ Start(g) = s
  BY <1>6 DEF Loops, Start
<1>11. Nodes(g) \subseteq Reachable(g)
  <2>1. s \in Reachable(g)
    BY <1>9, <1>10, ProperIsSearchable, StartReached
  <2>2. m \in Reachable(g)
    BY <2>1, <1>6, <1>7, ReachedOn DEF Edge
  <2>3. t \in Reachable(g)
    BY <2>2, <1>6, <1>7, ReachedOn DEF Edge
  <2>4. l \in Reachable(g)
    BY <2>3, <1>6, <1>7, ReachedOn DEF Edge
  <2>5. o \in Reachable(g)
    BY <2>4, <1>6, <1>7, ReachedOn DEF Edge
  <2> QED
    BY <1>6, <2>1, <2>2, <2>3, <2>4, <2>5
<1>12. ~Dangling(g)
  BY <1>6, <1>8 DEF Dangling, Edges
<1>13. LoopRouted(g, l)
  <2>1. g.edges[4] \in Edges(g) /\ g.edges[5] \in Edges(g) /\ g.edges[6] \in Edges(g)
    BY <1>7 DEF Edges
  <2>2. /\ g.edges[4].source = l /\ g.edges[4].handle = "true"
        /\ g.edges[5].source = l /\ g.edges[5].handle = "false"
        /\ g.edges[6].source = l /\ g.edges[6].handle = "fallback" /\ g.edges[6].target = o
    BY <1>7 DEF Edge
  <2> QED
    BY <2>1, <2>2, <1>5 DEF LoopRouted, Targets
<1>14. RulesKept(g)
  <2>1. g.max[l] \in 1 .. MaxLoopIterations
    BY <1>5, LoopLimitAssumption
  <2>2. o \in Reachable(g) /\ g.type[o] = "output"
    BY <1>6, <1>11
  <2>3. g.faulty = {}
    BY <1>4
  <2> QED
    BY <2>1, <2>2, <2>3, <1>10, <1>11, <1>13 DEF RulesKept
<1>15. \A n : ~OnUngovernedCycle(g, n)
  <2> DEFINE rank == [n \in Nodes(g) |-> IF n = s THEN 1 ELSE IF n = m THEN 2 ELSE 3]
  <2>1. rank \in [Nodes(g) -> Nat]
    OBVIOUS
  <2>2. rank[s] = 1 /\ rank[m] = 2 /\ rank[t] = 3
    BY <1>6
  <2> HIDE DEF rank
  <2>3. \A i \in DOMAIN g.edges : g.edges[i].source # l /\ g.edges[i].target # l
                                    => rank[g.edges[i].source] < rank[g.edges[i].target]
    BY <1>7, <2>2 DEF Edge
  <2>4. \A e \in Edges(g) : \E i \in DOMAIN g.edges : e = g.edges[i]
    BY DEF Edges
  <2>5. \A e \in Edges(g) : e.source \in Nodes(g) \ Loops(g) /\ e.target \in Nodes(g) \ Loops(g)
                              => rank[e.source] < rank[e.target]
    BY <2>3, <2>4, <1>10
  <2> QED
    BY <2>1, <2>5, OrderedIsGoverned
<1>16. Flawless(g)
  BY <1>9, <1>a, <1>12, <1>14, <1>15 DEF Flawless
<1> QED
  BY <1>16 DEF g, c

\* What is synthesized needs no repair and is flawless.
LEMMA SynthesizedIsFlawless ==
  ASSUME NEW g \in Synthesized
  PROVE  Flawless(g)
<1>1. PICK c \in {SynthesizedRag, SynthesizedLoop, SynthesizedChain} : g \in Repairs(c)
  BY DEF Synthesized
<1>2. PICK before : g = Repaired(c, before)
  BY <1>1 DEF Repairs
<1>3. CASE c = SynthesizedLoop
  BY <1>2, <1>3, LoopIsFlawless
<1>4. CASE c = SynthesizedRag
  <2>1. Flawless(Repaired(SynthesizedRag, before))
    BY RowIsFlawless DEF SynthesizedRag
  <2> QED
    BY <1>2, <1>4, <2>1
<1>5. CASE c = SynthesizedChain
  <2>1. Flawless(Repaired(SynthesizedChain, before))
    BY RowIsFlawless DEF SynthesizedChain
  <2> QED
    BY <1>2, <1>5, <2>1
<1> QED
  BY <1>1, <1>3, <1>4, <1>5

-----------------------------------------------------------------------------
(* The life of a graph                                                     *)

\* What holds in every state of a graph's life.
LifeInv ==
  /\ source \in Source /\ stage \in {"search", "refused", "valid", "exported", "kept"}
  /\ Proper(draft) /\ AfterRepair(draft) /\ SearchInv(draft, walk)
  /\ source \in {"client", "synthesis"} => WellFormed(draft)
  /\ stage # "refused" => ~Dangling(draft)
  /\ stage \in {"valid", "exported", "kept"} => RulesKept(draft)
  /\ stage = "exported" => Exportable(draft)
  /\ stage # "exported" => run = NoRun
  /\ source = "synthesis" => Flawless(draft) /\ stage # "refused"
  /\ Going(run) => run.at \in Nodes(draft)
  /\ run # EndedRun("invalid route")
  /\ run = EndedRun("no start") => ~KnownHandles(draft) \/ draft.mistral # {}

\* A graph of a client keeps the contract; one of a model, but for the targets of
\* its edges, their number and their ids; a synthesized one is flawless.
LEMMA ProposalsAreProper ==
  ASSUME NEW s \in Source, NEW g \in Proposals(s)
  PROVE  /\ Proper(g) /\ AfterRepair(g)
         /\ s = "synthesis" => Flawless(g)
         /\ s \in {"client", "synthesis"} => WellFormed(g)
<1>1. CASE s = "client"
  BY <1>1, DraftsWellFormed, WellFormedIsProper, ContractIsMore DEF Proposals
<1>2. CASE s = "synthesis"
  <2>1. Flawless(g)
    BY <1>2, SynthesizedIsFlawless DEF Proposals
  <2>2. WellFormed(g)
    BY <2>1, ProperIsShaped DEF Flawless, WellFormed
  <2> QED
    BY <2>1, <2>2, ContractIsMore DEF Flawless
<1>3. CASE s \in {"mistral", "ollama"}
  <2>1. PICK c \in Candidates : g \in Repairs(c)
    BY <1>3 DEF Proposals, Answers
  <2>2. PICK b : g = Repaired(c, b)
    BY <2>1 DEF Repairs
  <2>3. Candidate(c)
    BY CandidatesWellFormed DEF Candidate
  <2> QED
    BY <1>3, <2>2, <2>3, RepairedIsProper, RepairedIsNamed
<1> QED
  BY <1>1, <1>2, <1>3 DEF Source

\* An exported program finds one way from every node, and the server's runner
\* takes the same.
LEMMA OneWay ==
  ASSUME NEW g, Proper(g), Exportable(g), NEW n \in Nodes(g), g.type[n] # "output",
         NEW h \in IF n \in Loops(g) THEN Branches ELSE {NoHandle}
  PROVE  /\ Cardinality(Routes(g, n, h)) = 1
         /\ Followed(g, n, h) = Choose(g, n, h)
         /\ \E k \in Out(g, n) : Followed(g, n, h) = Target(g, k)
<1> DEFINE all == Out(g, n)
           fits == {i \in all : g.edges[i].handle = h}
<1>1. IsFiniteSet(all) /\ all \subseteq Nat
  <2>1. DOMAIN g.edges \subseteq Nat /\ IsFiniteSet(DOMAIN g.edges) /\ all \in SUBSET DOMAIN g.edges
    BY DEF Proper, Out
  <2> HIDE DEF all
  <2> QED
    BY <2>1, FS_Subset
<1>2. \A k \in all : Min({k}) = k
  BY <1>1, MinIsIn
<1>3. CASE n \notin Loops(g)
  <2>1. Cardinality(all) = 1 /\ h = NoHandle
    BY <1>3 DEF Exportable, Loops
  <2>2. PICK k : all = {k}
    BY <2>1, <1>1, FS_Singleton
  <2>3. Routes(g, n, h) = all
    BY <1>3 DEF Routes, Loops
  <2>4. Followed(g, n, h) = Target(g, k)
    BY <1>2, <2>2, <2>3 DEF Followed, Target
  <2>5. fits = {} \/ fits = {k}
    BY <2>2
  <2>6. Choose(g, n, h) = Target(g, k)
    BY <1>2, <2>1, <2>2, <2>5 DEF Choose, Target
  <2> QED
    BY <2>1, <2>2, <2>3, <2>4, <2>6
<1>4. CASE n \in Loops(g)
  <2>1. /\ Cardinality(all) = 3 /\ h \in Branches
        /\ \A x \in Branches : Targets(g, n, x) # {}
    BY <1>4 DEF Exportable, Loops, Branches
  <2>2. \A x \in Branches : \E i \in all : g.edges[i].handle = x
    BY <2>1 DEF Targets, Edges, Out
  <2>3. PICK t \in all : g.edges[t].handle = "true"
    BY <2>2 DEF Branches
  <2>4. PICK f \in all : g.edges[f].handle = "false"
    BY <2>2 DEF Branches
  <2>5. PICK b \in all : g.edges[b].handle = "fallback"
    BY <2>2 DEF Branches
  <2>6. t # f /\ t # b /\ f # b
    BY <2>3, <2>4, <2>5
  <2>7. all = {t, f, b}
    <3>1. IsFiniteSet({t}) /\ Cardinality({t}) = 1
      BY FS_Singleton
    <3>2. f \notin {t} /\ b \notin {t} \cup {f}
      BY <2>6
    <3>3. IsFiniteSet({t} \cup {f}) /\ Cardinality({t} \cup {f}) = 1 + 1
      BY <3>1, <3>2, FS_AddElement, Zenon
    <3>4. Cardinality(({t} \cup {f}) \cup {b}) = (1 + 1) + 1
      BY <3>2, <3>3, FS_AddElement, Zenon
    <3>5. ({t} \cup {f}) \cup {b} = {t, f, b} /\ {t, f, b} \in SUBSET all
      OBVIOUS
    <3> HIDE DEF all
    <3> QED
      BY <3>4, <3>5, <2>1, <1>1, FS_Subset
  <2>8. PICK k \in all : fits = {k}
    BY <2>1, <2>3, <2>4, <2>5, <2>7 DEF Branches
  <2>9. Routes(g, n, h) = {k}
    BY <1>4, <2>8 DEF Routes, Loops
  <2>10. Followed(g, n, h) = Target(g, k)
    BY <1>2, <2>9 DEF Followed, Target
  <2>11. Choose(g, n, h) = Target(g, k)
    BY <1>2, <2>8 DEF Choose, Target
  <2> QED
    BY <2>9, <2>10, <2>11, FS_Singleton
<1> QED
  BY <1>3, <1>4

\* A run of an exported program goes on to a node of the graph, or ends with
\* something else than a lack of ways.
LEMMA RunGoesOn ==
  ASSUME NEW g, Proper(g), Exportable(g), RulesKept(g), ~Dangling(g),
         NEW r, r.at \in Nodes(g), NEW s \in RunSteps(g, r)
  PROVE  /\ Going(s) => s.at \in Nodes(g)
         /\ s # EndedRun("invalid route") /\ s # EndedRun("no start")
<1> DEFINE n == r.at
<1>0. \A how : ~Going(EndedRun(how))
  BY DEF EndedRun, Going
<1>a. /\ EndedRun("invalid route") \notin {EndedRun("succeeded"), EndedRun("limit"), EndedRun("failed")}
      /\ EndedRun("no start") \notin {EndedRun("succeeded"), EndedRun("limit"), EndedRun("failed")}
  BY DEF EndedRun
<1>1. CASE s \in {EndedRun("succeeded"), EndedRun("limit"), EndedRun("failed")}
  BY <1>0, <1>a, <1>1
<1>2. CASE s \notin {EndedRun("succeeded"), EndedRun("limit"), EndedRun("failed")}
  <2>1. g.type[n] # "output"
    BY <1>2 DEF RunSteps
  <2>2. PICK h \in AskedHandles(g, n, r.count) :
          s \in IF Cardinality(Routes(g, n, h)) # 1 THEN {EndedRun("invalid route")}
                ELSE { [at |-> Followed(g, n, h), steps |-> r.steps + 1, count |-> k] :
                         k \in IF g.type[n] = "reducer" THEN {r.count, r.count + 1} ELSE {r.count} }
    BY <1>2 DEF RunSteps
  <2>3. h \in IF n \in Loops(g) THEN Branches ELSE {NoHandle}
    BY DEF AskedHandles, Loops, Branches
  <2>4. PICK e \in Out(g, n) : /\ Cardinality(Routes(g, n, h)) = 1
                               /\ Followed(g, n, h) = Target(g, e)
    BY <2>1, <2>3, OneWay
  <2>5. Target(g, e) \in Nodes(g)
    BY DEF RulesKept, Dangling, Edges, Out, Target
  <2>6. PICK k : s = [at |-> Followed(g, n, h), steps |-> r.steps + 1, count |-> k]
    BY <2>2, <2>4
  <2> QED
    BY <2>4, <2>5, <2>6 DEF EndedRun, Going
<1> QED
  BY <1>1, <1>2

\* The search is in its invariant when a graph is at hand.
LEMMA ProposalBegins ==
  ASSUME NEW s \in Source, NEW g \in Proposals(s)
  PROVE  /\ Proper(g) /\ AfterRepair(g) /\ SearchInv(g, WalkStart(g))
         /\ s \in {"client", "synthesis"} => WellFormed(g)
         /\ Judged(g) \in {"search", "refused"} /\ (Judged(g) # "refused" => ~Dangling(g))
         /\ s = "synthesis" => Flawless(g) /\ Judged(g) # "refused"
<1>1. /\ Proper(g) /\ AfterRepair(g) /\ (s = "synthesis" => Flawless(g))
      /\ s \in {"client", "synthesis"} => WellFormed(g)
  BY ProposalsAreProper
<1>2. SearchInv(g, WalkStart(g))
  BY <1>1, ProperIsSearchable, SearchBegins
<1> QED
  BY <1>1, <1>2 DEF Judged, Flawless

\* The invariant holds initially.
LEMMA LifeBegins == LifeInit => LifeInv
<1> SUFFICES ASSUME LifeInit PROVE LifeInv
  OBVIOUS
<1>1. run = NoRun /\ ~Going(NoRun) /\ NoRun # EndedRun("invalid route") /\ NoRun # EndedRun("no start")
  BY DEF LifeInit, NoRun, Going, EndedRun
<1>2. source \in Source /\ draft \in Proposals(source) /\ walk = WalkStart(draft) /\ stage = Judged(draft)
  BY DEF LifeInit
<1>3. /\ Proper(draft) /\ AfterRepair(draft) /\ SearchInv(draft, WalkStart(draft))
      /\ source \in {"client", "synthesis"} => WellFormed(draft)
      /\ Judged(draft) \in {"search", "refused"} /\ (Judged(draft) # "refused" => ~Dangling(draft))
      /\ source = "synthesis" => Flawless(draft) /\ Judged(draft) # "refused"
  BY <1>2, ProposalBegins
<1> QED
  BY <1>1, <1>2, <1>3 DEF LifeInv

\* A step of the search keeps it.
LEMMA SearchKeepsLife == LifeInv /\ Search => LifeInv'
<1> SUFFICES ASSUME LifeInv, Search PROVE LifeInv'
  OBVIOUS
<1>1. /\ stage = "search" /\ ~Ended(walk) /\ walk' = WalkStep(draft, walk)
      /\ draft' = draft /\ source' = source /\ stage' = stage /\ run' = run
  BY DEF Search, Step
<1>2. SearchInv(draft, walk) /\ Searchable(draft) /\ ~Dangling(draft)
  BY <1>1, ProperIsSearchable DEF LifeInv
<1>3. SearchInv(draft, walk')
  <2>1. CASE Top(walk).todo = {}
    BY <1>1, <1>2, <2>1, LeaveKeeps DEF WalkStep
  <2>2. CASE Top(walk).todo # {}
    BY <1>1, <1>2, <2>2, FollowKeeps DEF WalkStep
  <2> QED
    BY <2>1, <2>2
<1> QED
  BY <1>1, <1>3 DEF LifeInv

\* The end of the search keeps it: of a flawless graph nothing is reported.
LEMMA JudgeKeepsLife == LifeInv /\ Judge => LifeInv'
<1> SUFFICES ASSUME LifeInv, Judge PROVE LifeInv'
  OBVIOUS
<1>1. /\ stage = "search"
      /\ stage' = IF walk.cyclic = {} /\ RulesKept(draft) THEN "valid" ELSE "refused"
      /\ draft' = draft /\ walk' = walk /\ source' = source /\ run' = run
  BY DEF Judge
<1>2. ASSUME source = "synthesis" PROVE walk.cyclic = {} /\ RulesKept(draft)
  <2>1. Flawless(draft) /\ SearchInv(draft, walk) /\ Searchable(draft)
    BY <1>2, ProperIsSearchable DEF LifeInv
  <2>2. walk.cyclic \subseteq Nodes(draft) /\ \A n \in walk.cyclic : OnUngovernedCycle(draft, n)
    BY <2>1, SearchIsRight DEF SearchTypeOK, ReportsAreRight
  <2> QED
    BY <2>1, <2>2 DEF Flawless
<1> QED
  BY <1>1, <1>2 DEF LifeInv

\* The next proposal keeps it.
LEMMA TryNextKeepsLife == LifeInv /\ TryNext => LifeInv'
<1> SUFFICES ASSUME LifeInv, TryNext PROVE LifeInv'
  OBVIOUS
<1>1. /\ stage = "refused" /\ draft' \in Proposals(source')
      /\ walk' = WalkStart(draft') /\ stage' = Judged(draft') /\ run' = run
  BY DEF TryNext
<1>2. source' \in Source
  BY DEF TryNext, Source
<1>3. /\ Proper(draft') /\ AfterRepair(draft') /\ SearchInv(draft', WalkStart(draft'))
      /\ source' \in {"client", "synthesis"} => WellFormed(draft')
      /\ Judged(draft') \in {"search", "refused"} /\ (Judged(draft') # "refused" => ~Dangling(draft'))
      /\ source' = "synthesis" => Flawless(draft') /\ Judged(draft') # "refused"
  BY <1>1, <1>2, ProposalBegins
<1>4. run = NoRun /\ ~Going(NoRun) /\ NoRun # EndedRun("invalid route") /\ NoRun # EndedRun("no start")
  BY <1>1 DEF LifeInv, NoRun, Going, EndedRun
<1> QED
  BY <1>1, <1>2, <1>3, <1>4 DEF LifeInv

\* An export keeps it: a program that does not start has met an unknown handle or
\* provider, or no workspace.
LEMMA ExportKeepsLife == LifeInv /\ Export => LifeInv'
<1> SUFFICES ASSUME LifeInv, Export PROVE LifeInv'
  OBVIOUS
<1>1. /\ stage = "valid" /\ draft' = draft /\ walk' = walk /\ source' = source
      /\ RulesKept(draft) /\ Proper(draft) /\ run = NoRun
  BY DEF Export, LifeInv
<1>2. ASSUME NEW workspace \in BOOLEAN, Exportable(draft), stage' = "exported",
             run' = Begun(draft, workspace)
      PROVE  LifeInv'
  <2>1. CASE workspace /\ Starts(draft)
    <3>1. run' = RunStart(draft)
      BY <1>2, <2>1 DEF Begun
    <3>2. Start(draft) \in Nodes(draft)
      BY <1>1, ProperIsSearchable, StartReached
    <3>3. /\ RunStart(draft).at = Start(draft)
          /\ RunStart(draft) # EndedRun("invalid route") /\ RunStart(draft) # EndedRun("no start")
      BY DEF RunStart, EndedRun
    <3> QED
      BY <1>1, <1>2, <3>1, <3>2, <3>3 DEF LifeInv
  <2>2. CASE workspace /\ ~Starts(draft)
    <3>1. run' = EndedRun("no start")
      BY <1>2, <2>2 DEF Begun
    <3>2. ~KnownHandles(draft) \/ draft.mistral # {}
      BY <1>1, <1>2, <2>2 DEF Starts, RulesKept, Exportable, WellFormed, Shaped
    <3>3. ~Going(EndedRun("no start")) /\ EndedRun("no start") # EndedRun("invalid route")
      BY DEF EndedRun, Going
    <3> QED
      BY <1>1, <1>2, <3>1, <3>2, <3>3 DEF LifeInv
  <2>3. CASE ~workspace
    <3>1. run' = EndedRun("no workspace")
      BY <1>2, <2>3 DEF Begun
    <3>2. /\ ~Going(EndedRun("no workspace"))
          /\ EndedRun("no workspace") # EndedRun("invalid route")
          /\ EndedRun("no workspace") # EndedRun("no start")
      BY DEF EndedRun, Going
    <3> QED
      BY <1>1, <1>2, <3>1, <3>2 DEF LifeInv
  <2> QED
    BY <2>1, <2>2, <2>3
<1>3. CASE stage' = "kept" /\ run' = run
  BY <1>1, <1>3 DEF LifeInv
<1> QED
  BY <1>2, <1>3 DEF Export

\* A step of an exported program keeps it.
LEMMA RunKeepsLife == LifeInv /\ RunOn => LifeInv'
<1> SUFFICES ASSUME LifeInv, RunOn PROVE LifeInv'
  OBVIOUS
<1>1. /\ Going(run) /\ run' \in RunSteps(draft, run)
      /\ draft' = draft /\ walk' = walk /\ source' = source /\ stage' = stage
  BY DEF RunOn
<1>2. ~Going(NoRun)
  BY DEF NoRun, Going
<1>3. stage = "exported"
  BY <1>1, <1>2 DEF LifeInv
<1>4. /\ Proper(draft) /\ Exportable(draft) /\ RulesKept(draft) /\ ~Dangling(draft)
      /\ run.at \in Nodes(draft)
  BY <1>1, <1>3 DEF LifeInv
<1>5. /\ Going(run') => run'.at \in Nodes(draft)
      /\ run' # EndedRun("invalid route") /\ run' # EndedRun("no start")
  BY <1>1, <1>4, RunGoesOn
<1> QED
  BY <1>1, <1>3, <1>5 DEF LifeInv

\* The invariant of a graph's life.
THEOREM LifeInvariant == LifeSpec => []LifeInv
<1>1. LifeInv /\ [LifeNext]_life => LifeInv'
  <2>1. LifeInv /\ UNCHANGED life => LifeInv'
    BY DEF LifeInv, life
  <2> QED
    BY <2>1, SearchKeepsLife, JudgeKeepsLife, TryNextKeepsLife, ExportKeepsLife, RunKeepsLife
       DEF LifeNext
<1> QED
  BY <1>1, LifeBegins, PTL DEF LifeSpec

\* The invariant has the search's shape and the truth of its reports.
LEMMA LifeIsRight == LifeInv => SearchTypeOK /\ ReportsAreRight
BY SearchIsRight, ProperIsSearchable DEF LifeInv

\* The search of the validator has its shape: its stack holds distinct nodes of
\* the graph that it has not left yet, each with edges of its own still to follow
\* (validator.py, walk).
THEOREM SearchTypeCorrect == LifeSpec => []SearchTypeOK
BY LifeInvariant, LifeIsRight, PTL

\* On any graph, a node that is reported lies on a cycle without a loop node; and
\* a graph without loop nodes is accepted only when it has no cycle
\* (validator.py, walk).
THEOREM ReportsStayRight == LifeSpec => []ReportsAreRight
BY LifeInvariant, LifeIsRight, PTL

\* A search that has ended has been at every reachable node and at no other: what
\* SearchCoversGraph says of it but that it ends (validator.py, walk).
THEOREM EndedSearchCoversGraph ==
  LifeSpec => [](Ended(walk) => walk.visited = Reachable(draft))
<1>1. LifeInv => (Ended(walk) => walk.visited = Reachable(draft))
  <2> SUFFICES ASSUME LifeInv, Ended(walk) PROVE walk.visited = Reachable(draft)
    OBVIOUS
  <2>0. SearchInv(draft, walk)
    BY DEF LifeInv
  <2>1. SearchInv(draft, walk) /\ Visiting(walk) = {}
    BY <2>0 DEF Ended, Visiting
  <2>2. /\ Start(draft) \in walk.visited
        /\ \A k \in DOMAIN draft.edges : draft.edges[k].source \in walk.visited =>
                                         draft.edges[k].target \in walk.visited
    BY <2>1 DEF SearchInv, NothingSkipped, Out, Target
  <2>3. walk.visited \subseteq Reachable(draft)
    BY <2>1 DEF SearchInv, SearchState
  <2> QED
    BY <2>2, <2>3, ReachedWithin
<1> QED
  BY <1>1, LifeInvariant, PTL

\* Whatever the models answer, a graph that has become valid keeps the contract but
\* for as many edges as a repair adds and for ids that it gives twice; and generation
\* never fails, as what is synthesized is valid and keeps the whole contract
\* (generator.py, normalize_and_repair_graph, generate_graph_from_prompt).
THEOREM GeneratedStaysSound == LifeSpec => []GeneratedIsSound
<1>1. LifeInv => GeneratedIsSound
  <2> SUFFICES ASSUME LifeInv PROVE GeneratedIsSound
    OBVIOUS
  <2>1. ASSUME stage \notin {"search", "refused"} PROVE Shaped(draft)
    BY <2>1, ProperIsShaped DEF LifeInv
  <2>2. source = "synthesis" => stage # "refused"
    BY DEF LifeInv
  <2>3. AfterRepair(draft) /\ (source \in {"client", "synthesis"} => WellFormed(draft))
    BY DEF LifeInv
  <2> QED
    BY <2>1, <2>2, <2>3 DEF GeneratedIsSound
<1> QED
  BY <1>1, LifeInvariant, PTL

\* Any exported program finds one way from every node, the one that the server's
\* runner takes, and refuses to start in a workspace that is there only for a handle
\* that no loop has or for a node with Mistral as its provider (validator.py,
\* validate_export; standalone_runner.py.jinja, validate_startup).
THEOREM ExportsRunAlike == LifeSpec => []ExportedRunsAlike
<1>1. LifeInv => ExportedRunsAlike
  <2> SUFFICES ASSUME LifeInv PROVE ExportedRunsAlike
    OBVIOUS
  <2>1. ASSUME stage = "exported", NEW n \in Nodes(draft) \ {Output(draft)},
               NEW h \in IF n \in Loops(draft) THEN Branches ELSE {NoHandle}
        PROVE  /\ Cardinality(Routes(draft, n, h)) = 1
               /\ Followed(draft, n, h) = Choose(draft, n, h)
    <3>1. Proper(draft) /\ Exportable(draft)
      BY <2>1 DEF LifeInv
    <3>2. draft.type[n] # "output"
      BY <3>1 DEF Proper, OneOf, Output
    <3> QED
      BY <2>1, <3>1, <3>2, OneWay
  <2>2. /\ run # EndedRun("invalid route")
        /\ run = EndedRun("no start") => ~KnownHandles(draft) \/ draft.mistral # {}
    BY DEF LifeInv
  <2> QED
    BY <2>1, <2>2 DEF ExportedRunsAlike
<1> QED
  BY <1>1, LifeInvariant, PTL
=============================================================================
