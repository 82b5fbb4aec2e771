-------------------------- MODULE GatedCallsProofs --------------------------
(***************************************************************************)
(* Proofs about GatedCalls, for any servers, tools, scripts, agents, gates *)
(* and callers, and any limits.                                            *)
(*                                                                         *)
(* That a gate lets one thing happen rests on a used gate having exactly   *)
(* one request behind it until it acts, the process it has started         *)
(* included (UsedGateIsFresh), and on a script being what was checked      *)
(* until its file is edited (ChecksHold).  The budget rests on the table   *)
(* of counts being the calls made, and finite.                             *)
(***************************************************************************)
EXTENDS GatedCalls, FiniteSetTheorems, TLAPS

-----------------------------------------------------------------------------
(* The registry                                                            *)

\* What was revoked stays revoked, through failed saves and restarts.
LEMMA RegistryStep ==
  ASSUME RegistryTypeOK, RevocationHolds,
         RegistryNext \/ Reload \/ UNCHANGED registry
  PROVE  RegistryTypeOK' /\ RevocationHolds'
<1> USE DEF RegistryTypeOK, RevocationHolds, Manifest, Descriptor, Listed
<1>1. ASSUME NEW s \in Server, NEW ok \in BOOLEAN, Register(s, ok)
      PROVE  RegistryTypeOK' /\ RevocationHolds'
  BY <1>1 DEF Register, Saved
<1>2. ASSUME NEW s \in Server, NEW ok \in BOOLEAN, Approve(s, ok)
      PROVE  RegistryTypeOK' /\ RevocationHolds'
  BY <1>2 DEF Approve, Saved
<1>3. ASSUME NEW s \in Server, NEW ok \in BOOLEAN, Disable(s, ok)
      PROVE  RegistryTypeOK' /\ RevocationHolds'
  BY <1>3 DEF Disable, Saved
<1>4. ASSUME NEW t \in Tool, NEW d \in {"free", "gated"}, RegisterTool(t, d)
      PROVE  RegistryTypeOK' /\ RevocationHolds'
  BY <1>4 DEF RegisterTool
<1>5. ASSUME NEW s \in Server, Revalue(s)
      PROVE  RegistryTypeOK' /\ RevocationHolds'
  BY <1>5 DEF Revalue
<1>6. CASE Reload
  BY <1>6 DEF Reload
<1>7. CASE UNCHANGED registry
  BY <1>7 DEF registry
<1> QED
  BY <1>1, <1>2, <1>3, <1>4, <1>5, <1>6, <1>7 DEF RegistryNext

-----------------------------------------------------------------------------
(* Shapes                                                                  *)

\* What a step does to the registry.
LEMMA RegistryMoves ==
  ASSUME [Next]_vars PROVE RegistryNext \/ Reload \/ UNCHANGED registry
BY DEF Next, vars, ActFreely, AskGate, UseGate, ActGated, Execute, Refuse, StartChild,
       EndChild, Spawn, Cancel, Answer, Edit, Restart, GateMoves

\* The gates move as their contract says.
LEMMA GatesStep ==
  ASSUME grant \in [Gate -> Gates!Stage], over \subseteq Gate, served \in [Gate -> Nat],
         \/ \E g \in Gate : Gates!Offer(g) \/ Gates!Grant(g) \/ Gates!Use(g)
         \/ \E S \in SUBSET Gate : Gates!Close(S)
         \/ Gates!Pass
         \/ UNCHANGED gates
  PROVE  /\ grant' \in [Gate -> Gates!Stage] /\ over' \subseteq Gate
         /\ served' \in [Gate -> Nat]
         /\ \A g \in Gate : grant[g] = "used" => grant'[g] = "used"
BY DEF Gates!Offer, Gates!Grant, Gates!Use, Gates!Close, Gates!Pass, Gates!Stage, gates

\* The set of requests, taken apart.
LEMMA RequestShape ==
  ASSUME NEW q \in Request
  PROVE  /\ q.at \in {"idle", "done", "gate", "gated", "starts", "runs"}
         /\ q.at \in {"gate", "gated"} =>
              /\ q.runs \in SUBSET Run /\ q.what \in What /\ q.gate \in Gate
              /\ q.edited \in BOOLEAN
         /\ q.at = "starts" =>
              q.what \in Script /\ q.gate \in Gate \cup {NoGate} /\ q.edited \in BOOLEAN
BY DEF Request, Idle, Done

\* A request that waits for its gate, once it has used it.
LEMMA GatedShape ==
  ASSUME NEW q \in Request, q.at = "gate"
  PROVE  LET p == [q EXCEPT !.at = "gated"] IN
         /\ p \in Request /\ p.at = "gated" /\ p.runs = q.runs /\ p.what = q.what
         /\ p.gate = q.gate /\ p.edited = q.edited
<1>1. q \in [at : {"gate", "gated"}, runs : SUBSET Run, what : What, gate : Gate,
             edited : BOOLEAN]
  BY DEF Request, Idle, Done
<1> QED
  BY <1>1 DEF Request

\* A request for the script, once the file is edited.
LEMMA EditedShape ==
  ASSUME NEW q \in Request, AsksForScript(q)
  PROVE  LET p == [q EXCEPT !.edited = TRUE] IN
         /\ p \in Request /\ p.at = q.at /\ p.what = q.what /\ p.gate = q.gate /\ p.edited
         /\ q.at \in {"gate", "gated"} => p.runs = q.runs
<1> USE DEF AsksForScript
<1>1. CASE q.at \in {"gate", "gated"}
  <2>1. q \in [at : {"gate", "gated"}, runs : SUBSET Run, what : What, gate : Gate,
               edited : BOOLEAN]
    BY <1>1 DEF Request, Idle, Done
  <2> QED
    BY <1>1, <2>1 DEF Request
<1>2. CASE q.at = "starts"
  <2>1. q \in [at : {"starts"}, what : Script, gate : Gate \cup {NoGate}, edited : BOOLEAN]
    BY <1>2 DEF Request, Idle, Done
  <2> QED
    BY <1>2, <2>1 DEF Request
<1> QED
  BY <1>1, <1>2

\* Tools belong to servers, texts are texts.
LEMMA WhatShape ==
  ASSUME NEW w \in What
  PROVE  /\ w.call \in {"mcp", "tool", "rlm"}
         /\ w.call = "mcp" => w.of \in Tool /\ ServerOf[w.of] \in Server
         /\ w.call = "tool" => /\ w.of \in Text /\ w \in Script
                               /\ w = [call |-> "tool", of |-> w.of]
         /\ w.call = "rlm" => w.of \in Agent
BY CallsAssumption, RegistryAssumption DEF What, Script

\* The process for the script of request q, or of a new one, is started.
Started(c) ==
  /\ call'[c].at = "starts" /\ call'[c].what.call = "tool" /\ UNCHANGED <<acted, script>>
  /\ \/ /\ call'[c].gate = NoGate /\ ~call'[c].edited /\ call'[c].what.of = script
     \/ /\ call[c].at = "gated" /\ Bound(call[c])
        /\ call'[c].what = call[c].what /\ call'[c].gate = call[c].gate
        /\ call'[c].edited = call[c].edited

\* What a step does to one request.
Moved(c) ==
  \/ call'[c] = call[c] /\ (AsksForScript(call[c]) => script' = script)
  \/ call'[c] = Idle
  \/ call'[c] = Done /\ c \in children
  \/ /\ call'[c].at = "gate" /\ call[c] = Idle
     /\ call'[c].what.call # "rlm" \/ c \in children'
     /\ call'[c].runs = {} \/ call'[c].what.call = "mcp"
     /\ call'[c].what.call = "tool" => call'[c].what.of = script /\ script' = script
  \/ /\ UseGate(c) /\ call'[c] = [call[c] EXCEPT !.at = "gated"]
     /\ script' = script
  \/ Started(c)
  \/ call'[c] = [call[c] EXCEPT !.edited = TRUE] /\ AsksForScript(call[c]) /\ UNCHANGED gates
  \/ call'[c].at = "runs" /\ (c \in children' \/ StartChild(c))

LEMMA RequestMoves ==
  ASSUME TypeOK, [Next]_vars, NEW c \in Caller
  PROVE  call'[c] \in Request /\ Moved(c)
<1> USE DEF TypeOK, Moved
<1>0. call[c] \in Request /\ Idle \in Request /\ Done \in Request
  BY DEF Request
<1>1. ASSUME NEW d \in Caller, NEW r \in Run, NEW w \in What, NEW g \in Gate,
             AskGate(d, r, w, g)
      PROVE  call'[c] \in Request /\ Moved(c)
  <2>1. CASE d = c
    <3>1. /\ call'[c] = [at |-> "gate", runs |-> IF w.call = "mcp" THEN {r} ELSE {},
                         what |-> w, gate |-> g, edited |-> FALSE]
          /\ w.call # "rlm" /\ call[c] = Idle /\ script' = script
          /\ w.call = "tool" => w.of = script
      BY <1>1, <2>1 DEF AskGate, Become, Asking, Accepted
    <3> QED
      BY <3>1 DEF Request
  <2>2. CASE d # c
    BY <1>0, <1>1, <2>2 DEF AskGate, Become
  <2> QED
    BY <2>1, <2>2
<1>2. ASSUME NEW d \in Caller, UseGate(d)
      PROVE  call'[c] \in Request /\ Moved(c)
  BY <1>0, <1>2, GatedShape DEF UseGate, Become
<1>3. ASSUME NEW d \in Caller, Execute(d) \/ Refuse(d)
      PROVE  call'[c] \in Request /\ Moved(c)
  BY <1>0, <1>3 DEF Execute, Refuse, Become
<1>4. ASSUME NEW d \in Caller, EndChild(d)
      PROVE  call'[c] \in Request /\ Moved(c)
  BY <1>0, <1>4 DEF EndChild, Become
<1>5. ASSUME NEW d \in Caller, StartChild(d)
      PROVE  call'[c] \in Request /\ Moved(c)
  <2>1. CASE d = c
    <3>1. /\ call'[c] = [at |-> "runs", what |-> call[c].what]
          /\ call[c].at = "gated"
      BY <1>5, <2>1 DEF StartChild, Become
    <3>2. call[c].what \in What
      BY <1>0, <3>1, RequestShape
    <3>3. call'[c] \in Request
      BY <3>1, <3>2 DEF Request
    <3> QED
      BY <1>5, <2>1, <3>1, <3>3
  <2>2. CASE d # c
    BY <1>0, <1>5, <2>2 DEF StartChild, Become
  <2> QED
    BY <2>1, <2>2
<1>6. ASSUME NEW C \in SUBSET Caller, NEW agent \in [C -> Agent],
             NEW gate \in [C -> Gate \cup {NoGate}], Spawn(C, agent, gate)
      PROVE  call'[c] \in Request /\ Moved(c)
  <2>1. CASE c \in C
    <3> DEFINE w == [call |-> "rlm", of |-> agent[c]]
    <3>1. w \in What /\ c \in children' /\ call[c] = Idle
      BY <1>6, <2>1 DEF Spawn, What
    <3>2. CASE gate[c] = NoGate
      <4>1. call'[c] = [at |-> "runs", what |-> w]
        BY <1>6, <2>1, <3>2 DEF Spawn
      <4> QED
        BY <3>1, <4>1 DEF Request
    <3>3. CASE gate[c] # NoGate
      <4>1. call'[c] = [at |-> "gate", runs |-> {}, what |-> w, gate |-> gate[c],
                        edited |-> FALSE]
        BY <1>6, <2>1, <3>3 DEF Spawn, Asking
      <4> QED
        BY <2>1, <3>1, <3>3, <4>1 DEF Request
    <3> QED
      BY <3>2, <3>3
  <2>2. CASE c \notin C
    BY <1>0, <1>6, <2>2 DEF Spawn
  <2> QED
    BY <2>1, <2>2
<1>7. CASE Answer
  BY <1>0, <1>7 DEF Answer
<1>8. CASE Restart
  BY <1>0, <1>8 DEF Restart
<1>9. ASSUME NEW d \in Caller, NEW p \in Request, Become(d, p), p.at = "starts",
             p.what.call = "tool", UNCHANGED <<acted, script>>,
             \/ p.gate = NoGate /\ ~p.edited /\ p.what.of = script
             \/ /\ call[d].at = "gated" /\ Bound(call[d])
                /\ p.what = call[d].what /\ p.gate = call[d].gate /\ p.edited = call[d].edited
      PROVE  call'[c] \in Request /\ Moved(c)
  BY <1>0, <1>9 DEF Become, Started
<1>10. ASSUME NEW d \in Caller, ActGated(d)
       PROVE  call'[c] \in Request /\ Moved(c)
  <2>1. /\ call[d].what \in What /\ call[d].gate \in Gate /\ call[d].edited \in BOOLEAN
        /\ call[d].at = "gated" /\ Bound(call[d]) /\ script' = script
    BY <1>10, RequestShape DEF ActGated
  <2>2. CASE Become(d, Idle)
    BY <1>0, <2>1, <2>2 DEF Become
  <2>3. CASE Start(d, call[d].what, call[d].gate, call[d].edited)
    <3> DEFINE p == [at |-> "starts", what |-> call[d].what, gate |-> call[d].gate,
                     edited |-> call[d].edited]
    <3>1. Become(d, p) /\ UNCHANGED <<acted, script>> /\ call[d].what.call = "tool"
      BY <2>1, <2>3 DEF Start, Nothing
    <3>2. call[d].what \in Script
      BY <2>1, <3>1, WhatShape
    <3>3. p \in Request
      BY <2>1, <3>2 DEF Request
    <3> QED
      BY <1>9, <2>1, <3>1, <3>3
  <2> QED
    BY <1>10, <2>2, <2>3 DEF ActGated
<1>11. ASSUME NEW d \in Caller, NEW r \in Run, NEW w \in What, ActFreely(d, r, w)
       PROVE  call'[c] \in Request /\ Moved(c)
  <2>1. CASE Start(d, w, NoGate, FALSE)
    <3> DEFINE p == [at |-> "starts", what |-> w, gate |-> NoGate, edited |-> FALSE]
    <3>1. /\ Become(d, p) /\ UNCHANGED <<acted, script>> /\ w.call = "tool" /\ w.of = script
          /\ w \in Script
      BY <1>11, <2>1, WhatShape DEF ActFreely, Accepted, Start, Nothing
    <3>2. p \in Request
      BY <3>1 DEF Request
    <3> QED
      BY <1>9, <3>1, <3>2
  <2> QED
    BY <1>0, <1>11, <2>1 DEF ActFreely
<1>12. ASSUME NEW v \in Text, Edit(v)
       PROVE  call'[c] \in Request /\ Moved(c)
  <2>1. CASE AsksForScript(call[c])
    BY <1>0, <1>12, <2>1, EditedShape DEF Edit
  <2>2. CASE ~AsksForScript(call[c])
    BY <1>0, <1>12, <2>2 DEF Edit
  <2> QED
    BY <2>1, <2>2
<1>13. CASE Cancel \/ UNCHANGED calls
  BY <1>0, <1>13 DEF Cancel, calls
<1> QED
  BY <1>1, <1>2, <1>3, <1>4, <1>5, <1>6, <1>7, <1>8, <1>10, <1>11, <1>12, <1>13
     DEF Next, GateMoves, vars

-----------------------------------------------------------------------------
(* Children                                                                *)

\* What a step does to the set of children: a spawn ends when all of them have,
\* or with the server, which ends everything but the processes of scripts.
LEMMA ChildrenMove ==
  ASSUME TypeOK, [Next]_vars
  PROVE  /\ children' \subseteq Caller /\ cancelled' \in BOOLEAN
         /\ \/ children' = children
            \/ children = {}
            \/ \A c \in children : \/ call'[c] = Idle
                                   \/ call[c].at = "starts" /\ call'[c] = call[c]
<1> USE DEF TypeOK
<1>1. ASSUME NEW C \in SUBSET Caller, NEW agent, NEW gate, Spawn(C, agent, gate)
      PROVE  children = {} /\ children' \subseteq Caller /\ cancelled' \in BOOLEAN
  BY <1>1 DEF Spawn
<1>2. CASE Answer
  BY <1>2 DEF Answer, AllEnded
<1>3. CASE Restart
  BY <1>3 DEF Restart
<1>4. CASE Cancel
  BY <1>4 DEF Cancel
<1> QED
  BY <1>1, <1>2, <1>3, <1>4 DEF Next, ActFreely, AskGate, UseGate, ActGated, Execute, Refuse,
     StartChild, EndChild, Edit, GateMoves, calls, vars

\* Every step keeps children within their spawn.
LEMMA NextChildren ==
  ASSUME TypeOK, ChildrenHaveTheirSpawn, [Next]_vars
  PROVE  ChildrenHaveTheirSpawn'
<1> DEFINE Elsewhere(q) == q.at \in {"gate", "gated", "starts"} /\ q.what.call # "rlm"
<1> SUFFICES ASSUME NEW c \in Caller
             PROVE  call'[c].at = "idle" \/ c \in children' \/ Elsewhere(call'[c])
  BY DEF ChildrenHaveTheirSpawn
<1>0. /\ call[c] \in Request
      /\ call[c].at = "idle" \/ c \in children \/ Elsewhere(call[c])
  BY DEF ChildrenHaveTheirSpawn, TypeOK
<1>s. ASSUME NEW q \in Request, q.at = "starts" PROVE Elsewhere(q)
  BY <1>s, RequestShape DEF Script
<1>1. CASE call'[c] = call[c] \/ call'[c] = Idle
  BY <1>0, <1>s, <1>1, ChildrenMove DEF Idle
<1>2. CASE call'[c] = Done /\ c \in children
  BY <1>2, ChildrenMove DEF Idle, Done
<1>3. CASE UseGate(c) /\ call'[c] = [call[c] EXCEPT !.at = "gated"]
  BY <1>0, <1>3, GatedShape DEF UseGate
<1>4. CASE StartChild(c)
  BY <1>0, <1>4 DEF StartChild
<1>5. CASE Started(c)
  BY <1>5 DEF Started
<1>6. CASE call'[c] = [call[c] EXCEPT !.edited = TRUE] /\ AsksForScript(call[c])
  BY <1>0, <1>6, EditedShape DEF AsksForScript
<1> QED
  BY <1>1, <1>2, <1>3, <1>4, <1>5, <1>6, RequestMoves DEF Moved

-----------------------------------------------------------------------------
(* What is done, and the budget                                            *)

\* Only calls of servers belong to runs.
RunsAreForServers ==
  \A c \in Caller : call[c].at \in {"gate", "gated"} /\ call[c].runs # {} =>
    call[c].what.call = "mcp"

\* A script that nobody has edited is what was checked, and a process that was
\* started with a gate is for the script that gate is bound to.
ChecksHold ==
  \A c \in Caller :
    /\ AsksForScript(call[c]) => call[c].edited \/ call[c].what.of = script
    /\ call[c].at = "starts" /\ call[c].gate # NoGate => Bound(call[c])

\* The request has used a gate and may still act with it.
Holds(q) == q.at \in {"gated", "starts"} /\ q.gate # NoGate

\* A used gate has one request behind it until it acts, and has let nothing
\* happen before.
UsedGateIsFresh ==
  \A c \in Caller : Holds(call[c]) =>
    /\ grant[call[c].gate] = "used" /\ acted[call[c].gate] = << >>
    /\ \A d \in Caller : Holds(call[d]) /\ call[d].gate = call[c].gate => d = c

\* What may happen with a gate.
Permitted(a, g) ==
  \/ a.what = For[g]
  \/ a.edited /\ a.what.call = "tool" /\ For[g].call = "tool"

\* The request of c acts with the permission of its gate.
Acts(c) ==
  /\ Holds(call[c]) /\ ~Holds(call'[c])
  /\ \E a \in Act : /\ Permitted(a, call[c].gate)
                    /\ acted' = [acted EXCEPT ![call[c].gate] = Append(@, a)]

\* What is done with a gate is done by a request that has used it.
LEMMA ActMoves ==
  ASSUME TypeOK, RunsAreForServers, ChecksHold, [Next]_vars
  PROVE  UNCHANGED acted \/ \E c \in Caller : Acts(c)
<1> USE DEF TypeOK
<1>1. ASSUME NEW c \in Caller, NEW r \in Run, NEW w \in What, ActFreely(c, r, w)
      PROVE  UNCHANGED acted
  BY <1>1 DEF ActFreely, Send, Did, Start, Nothing
<1>2. ASSUME NEW c \in Caller, Holds(call[c]), ~Holds(call'[c]), NEW w \in What,
             NEW edited, edited \in BOOLEAN, Did(w, call[c].gate, edited),
             w = For[call[c].gate] \/ (edited /\ w.call = "tool" /\ For[call[c].gate].call = "tool")
      PROVE  Acts(c)
  <2> DEFINE a == [what |-> w, edited |-> edited]
  <2>1. a \in Act /\ Permitted(a, call[c].gate)
    BY <1>2 DEF Act, Permitted
  <2>2. acted' = [acted EXCEPT ![call[c].gate] = Append(@, a)]
    BY <1>2 DEF Did, Holds
  <2> QED
    BY <1>2, <2>1, <2>2 DEF Acts
<1>3. ASSUME NEW c \in Caller, ActGated(c) PROVE UNCHANGED acted \/ Acts(c)
  <2>1. /\ call[c].at = "gated" /\ Bound(call[c]) /\ call[c].gate \in Gate
        /\ call[c].gate # NoGate /\ call[c].what \in What
    BY <1>3, RequestShape, CallsAssumption DEF ActGated
  <2>2. ASSUME NEW r \in call[c].runs, Send(r, call[c].what.of, call[c].gate), Become(c, Idle)
        PROVE  Acts(c)
    <3>1. call[c].what = [call |-> "mcp", of |-> call[c].what.of]
      BY <2>1, <2>2, RequestShape DEF RunsAreForServers, What, Script
    <3>2. Holds(call[c]) /\ ~Holds(call'[c])
      BY <2>1, <2>2 DEF Holds, Become, Idle
    <3>3. Did(call[c].what, call[c].gate, FALSE) /\ call[c].what = For[call[c].gate]
      BY <2>1, <2>2, <3>1 DEF Send, Bound
    <3> QED
      BY <1>2, <2>1, <3>2, <3>3
  <2> QED
    BY <1>3, <2>2 DEF ActGated, Start, Nothing
<1>4. ASSUME NEW c \in Caller, StartChild(c) PROVE Acts(c)
  <2>1. /\ call[c].at = "gated" /\ Bound(call[c]) /\ call[c].gate \in Gate
        /\ call[c].gate # NoGate /\ call[c].what \in What /\ call'[c].at = "runs"
        /\ Did(call[c].what, call[c].gate, FALSE)
    BY <1>4, RequestShape, CallsAssumption DEF StartChild, Become
  <2> QED
    BY <1>2, <2>1 DEF Holds, Bound
<1>5. ASSUME NEW c \in Caller, Execute(c) PROVE UNCHANGED acted \/ Acts(c)
  <2> DEFINE w == [call |-> "tool", of |-> script]
  <2>1. /\ call[c].at = "starts" /\ call[c].what \in Script /\ call[c].edited \in BOOLEAN
        /\ Did(w, call[c].gate, call[c].edited) /\ w \in What /\ w.call = "tool"
        /\ call'[c] = Idle
    BY <1>5, RequestShape DEF Execute, Become, What, Script
  <2>2. CASE call[c].gate = NoGate
    BY <2>1, <2>2 DEF Did
  <2>3. CASE call[c].gate # NoGate
    <3>1. Holds(call[c]) /\ ~Holds(call'[c])
      BY <2>1, <2>3 DEF Holds, Idle
    <3>2. /\ call[c].what = [call |-> "tool", of |-> call[c].what.of]
          /\ call[c].edited \/ call[c].what.of = script
          /\ For[call[c].gate] = call[c].what /\ For[call[c].gate].call = "tool"
      BY <2>1, <2>3 DEF ChecksHold, AsksForScript, Script, Bound
    <3>3. w = For[call[c].gate]
             \/ (call[c].edited /\ w.call = "tool" /\ For[call[c].gate].call = "tool")
      BY <2>1, <3>2
    <3> HIDE DEF w
    <3> QED
      BY <1>2, <2>1, <3>1, <3>3, Zenon
  <2> QED
    BY <2>2, <2>3
<1> QED
  BY <1>1, <1>3, <1>4, <1>5 DEF Next, AskGate, UseGate, Refuse, EndChild, Spawn, Cancel,
     Answer, Edit, Restart, GateMoves, Nothing, calls, vars

\* Gates keep their shape, and a used gate stays used.
LEMMA GatesMove ==
  ASSUME TypeOK, [Next]_vars
  PROVE  /\ grant' \in [Gate -> Gates!Stage] /\ over' \subseteq Gate
         /\ served' \in [Gate -> Nat]
         /\ \A g \in Gate : grant[g] = "used" => grant'[g] = "used"
<1> USE DEF TypeOK
<1>1. ASSUME NEW c \in Caller, UseGate(c)
      PROVE  \E g \in Gate : Gates!Use(g)
  BY <1>1, RequestShape DEF UseGate
<1>2. \/ \E g \in Gate : Gates!Offer(g) \/ Gates!Grant(g) \/ Gates!Use(g)
      \/ \E S \in SUBSET Gate : Gates!Close(S)
      \/ Gates!Pass
      \/ UNCHANGED gates
  BY <1>1 DEF Next, ActFreely, AskGate, ActGated, Execute, Refuse, StartChild, EndChild,
     Spawn, Cancel, Answer, Edit, Restart, GateMoves, vars
<1> QED
  BY <1>2, GatesStep

\* A gate lets one thing happen, since it is fresh when its request acts.
LEMMA NextAuthority ==
  ASSUME TypeOK, RunsAreForServers, ChecksHold, UsedGateIsFresh, EveryActIsAuthorized,
         [Next]_vars
  PROVE  RunsAreForServers' /\ ChecksHold' /\ UsedGateIsFresh' /\ EveryActIsAuthorized'
<1> USE DEF TypeOK
<1>m. \A c \in Caller : Moved(c) /\ call[c] \in Request
  BY RequestMoves
<1>i. Idle.at = "idle" /\ Done.at = "done"
  BY DEF Idle, Done
<1>1. RunsAreForServers'
  <2> SUFFICES ASSUME NEW c \in Caller, call'[c].at \in {"gate", "gated"}, call'[c].runs # {}
               PROVE  call'[c].what.call = "mcp"
    BY DEF RunsAreForServers
  <2>1. CASE UseGate(c) /\ call'[c] = [call[c] EXCEPT !.at = "gated"]
    BY <1>m, <2>1, GatedShape DEF UseGate, RunsAreForServers
  <2>2. CASE call'[c] = call[c]
    BY <2>2 DEF RunsAreForServers
  <2>3. CASE call'[c] = [call[c] EXCEPT !.edited = TRUE] /\ AsksForScript(call[c])
    BY <1>m, <2>3, EditedShape DEF AsksForScript, RunsAreForServers
  <2> QED
    BY <1>m, <1>i, <2>1, <2>2, <2>3 DEF Moved, Started
<1>2. ChecksHold'
  <2> SUFFICES ASSUME NEW c \in Caller
               PROVE  /\ AsksForScript(call'[c]) =>
                           call'[c].edited \/ call'[c].what.of = script'
                      /\ call'[c].at = "starts" /\ call'[c].gate # NoGate => Bound(call'[c])
    BY DEF ChecksHold, AsksForScript, Bound
  <2>0. call[c] \in Request
    BY <1>m
  <2>1. CASE call'[c] = call[c] /\ (AsksForScript(call[c]) => script' = script)
    BY <2>1 DEF ChecksHold
  <2>2. CASE UseGate(c) /\ call'[c] = [call[c] EXCEPT !.at = "gated"] /\ script' = script
    BY <2>0, <2>2, GatedShape DEF UseGate, ChecksHold, AsksForScript
  <2>3. CASE Started(c)
    BY <2>3 DEF Started, ChecksHold, AsksForScript, Bound
  <2>4. CASE call'[c] = [call[c] EXCEPT !.edited = TRUE] /\ AsksForScript(call[c])
    BY <2>0, <2>4, EditedShape DEF ChecksHold, Bound
  <2> QED
    BY <1>m, <1>i, <2>1, <2>2, <2>3, <2>4 DEF Moved, AsksForScript
\* A request has used its gate now, or before and has not acted yet.
<1>3. ASSUME NEW c \in Caller, Holds(call'[c])
      PROVE  \/ Holds(call[c]) /\ call'[c].gate = call[c].gate /\ ~UseGate(c)
             \/ UseGate(c) /\ call'[c].gate = call[c].gate /\ call[c].gate \in Gate
  <2>1. CASE UseGate(c) /\ call'[c] = [call[c] EXCEPT !.at = "gated"]
    <3>1. call[c] \in Request /\ call[c].at = "gate"
      BY <1>m, <2>1 DEF UseGate
    <3>2. call[c].gate \in Gate /\ call'[c].gate = call[c].gate
      BY <2>1, <3>1, GatedShape, RequestShape
    <3> QED
      BY <2>1, <3>2
  <2>2. CASE call'[c] = call[c]
    BY <1>3, <2>2 DEF Holds, UseGate
  <2>3. CASE Started(c)
    BY <1>3, <2>3 DEF Holds, Started, UseGate
  <2>4. CASE call'[c] = [call[c] EXCEPT !.edited = TRUE] /\ AsksForScript(call[c])
             /\ UNCHANGED gates
    <3>1. call'[c].at = call[c].at /\ call'[c].gate = call[c].gate
      BY <1>m, <2>4, EditedShape
    <3> QED
      BY <1>3, <2>4, <3>1 DEF Holds, UseGate
  <2> QED
    BY <1>m, <1>i, <1>3, <2>1, <2>2, <2>3, <2>4 DEF Moved, Holds
<1>4. \A g \in Gate : grant[g] = "used" => grant'[g] = "used"
  BY GatesMove
<1>g. \A c \in Caller : Holds(call[c]) => call[c].gate \in Gate
  BY <1>m, RequestShape DEF Holds
<1>5. ASSUME UNCHANGED acted
      PROVE  EveryActIsAuthorized'
  BY <1>4, <1>5 DEF EveryActIsAuthorized
<1>6. ASSUME NEW c \in Caller, Acts(c)
      PROVE  EveryActIsAuthorized'
  <2>1. /\ call[c].gate \in Gate /\ grant[call[c].gate] = "used"
        /\ acted[call[c].gate] = << >>
    BY <1>g, <1>6 DEF Acts, UsedGateIsFresh
  <2>2. PICK a \in Act : /\ Permitted(a, call[c].gate)
                         /\ acted' = [acted EXCEPT ![call[c].gate] = Append(@, a)]
    BY <1>6 DEF Acts
  <2>3. acted'[call[c].gate] = <<a>> /\ \A g \in Gate \ {call[c].gate} : acted'[g] = acted[g]
    BY <2>1, <2>2
  <2> QED
    BY <1>4, <2>1, <2>2, <2>3 DEF EveryActIsAuthorized, Permitted
<1>7. EveryActIsAuthorized'
  BY <1>5, <1>6, ActMoves
<1>8. UsedGateIsFresh'
  <2> SUFFICES ASSUME NEW c \in Caller, Holds(call'[c])
               PROVE  /\ grant'[call'[c].gate] = "used" /\ acted'[call'[c].gate] = << >>
                      /\ \A d \in Caller : /\ Holds(call'[d])
                                          /\ call'[d].gate = call'[c].gate => d = c
    BY DEF UsedGateIsFresh, Holds
  <2>1. ASSUME UseGate(c), call'[c].gate = call[c].gate, call[c].gate \in Gate
        PROVE  /\ grant'[call'[c].gate] = "used" /\ acted'[call'[c].gate] = << >>
               /\ \A d \in Caller : /\ Holds(call'[d])
                                   /\ call'[d].gate = call'[c].gate => d = c
    <3>1. /\ grant[call[c].gate] = "granted" /\ grant'[call[c].gate] = "used"
          /\ UNCHANGED acted /\ \A d \in Caller \ {c} : call'[d] = call[d]
      BY <2>1 DEF UseGate, Gates!Use, Become, Nothing
    <3>2. acted[call[c].gate] = << >>
      BY <2>1, <3>1 DEF EveryActIsAuthorized
    <3>3. \A d \in Caller \ {c} : Holds(call[d]) => call[d].gate # call[c].gate
      BY <3>1 DEF UsedGateIsFresh
    <3> QED
      BY <2>1, <3>1, <3>2, <3>3
  <2>2. ASSUME Holds(call[c]), call'[c].gate = call[c].gate
        PROVE  /\ grant'[call'[c].gate] = "used" /\ acted'[call'[c].gate] = << >>
               /\ \A d \in Caller : /\ Holds(call'[d])
                                   /\ call'[d].gate = call'[c].gate => d = c
    <3>1. /\ call[c].gate \in Gate /\ grant[call[c].gate] = "used"
          /\ acted[call[c].gate] = << >>
      BY <1>g, <2>2 DEF UsedGateIsFresh
    <3>2. grant'[call[c].gate] = "used"
      BY <1>4, <3>1
    <3>3. acted'[call[c].gate] = << >>
      <4>1. ASSUME NEW d \in Caller, Acts(d) PROVE call[d].gate # call[c].gate
        BY <2>2, <4>1 DEF Acts, UsedGateIsFresh
      <4> QED
        BY <3>1, <4>1, ActMoves DEF Acts
    <3>4. ASSUME NEW d \in Caller, Holds(call'[d]), call'[d].gate = call[c].gate
          PROVE  d = c
      <4>1. CASE Holds(call[d]) /\ call'[d].gate = call[d].gate
        BY <2>2, <3>4, <4>1 DEF UsedGateIsFresh
      <4>2. CASE UseGate(d) /\ call'[d].gate = call[d].gate
        BY <3>1, <3>4, <4>2 DEF UseGate, Gates!Use
      <4> QED
        BY <1>3, <3>4, <4>1, <4>2
    <3> QED
      BY <2>2, <3>2, <3>3, <3>4
  <2> QED
    BY <1>3, <2>1, <2>2
<1> QED
  BY <1>1, <1>2, <1>7, <1>8

\* The calls made are the calls counted, and the table of them is finite.
BudgetKept ==
  /\ made = counts
  /\ \A k \in Run \X Server : counts[k] <= MaxCalls
  /\ IsFiniteSet(Keys) /\ Cardinality(Keys) <= MaxKeys

\* What a step does to the counts.
LEMMA CountMoves ==
  ASSUME TypeOK, RunsAreForServers, [Next]_vars
  PROVE  \/ UNCHANGED <<counts, made>>
         \/ \E k \in Run \X Server : /\ Budget(k)
                                     /\ counts' = [counts EXCEPT ![k] = @ + 1]
                                     /\ made' = [made EXCEPT ![k] = @ + 1]
         \/ counts' = [k \in Run \X Server |-> 0] /\ made' = counts'
<1> USE DEF TypeOK
<1> DEFINE Counted == \E k \in Run \X Server : /\ Budget(k)
                                               /\ counts' = [counts EXCEPT ![k] = @ + 1]
                                               /\ made' = [made EXCEPT ![k] = @ + 1]
<1>1. ASSUME NEW r \in Run, NEW t \in Tool, NEW g, Send(r, t, g)
      PROVE  Counted
  <2>1. <<r, ServerOf[t]>> \in Run \X Server
    BY RegistryAssumption
  <2> QED
    BY <1>1, <2>1 DEF Send
<1>2. ASSUME NEW c \in Caller, NEW r \in Run, NEW w \in What, ActFreely(c, r, w)
      PROVE  UNCHANGED <<counts, made>> \/ Counted
  BY <1>1, <1>2, WhatShape DEF ActFreely, Start, Nothing
<1>3. ASSUME NEW c \in Caller, ActGated(c)
      PROVE  UNCHANGED <<counts, made>> \/ Counted
  <2>1. call[c].runs \in SUBSET Run /\ call[c].what \in What /\ call[c].at = "gated"
    BY <1>3, RequestShape DEF ActGated
  <2>2. ASSUME NEW r \in call[c].runs, Send(r, call[c].what.of, call[c].gate)
        PROVE  Counted
    <3>1. call[c].what.of \in Tool
      BY <2>1, WhatShape DEF RunsAreForServers
    <3> QED
      BY <1>1, <2>1, <2>2, <3>1
  <2> QED
    BY <1>3, <2>2 DEF ActGated, Start, Nothing
<1>4. ASSUME NEW C, NEW agent, NEW gate, Spawn(C, agent, gate)
      PROVE  UNCHANGED <<counts, made>>
  BY <1>4 DEF Spawn, Nothing
<1>5. CASE Restart
  BY <1>5 DEF Restart
<1> QED
  BY <1>2, <1>3, <1>4, <1>5 DEF Next, AskGate, UseGate, Execute, Refuse, StartChild,
     EndChild, Cancel, Answer, Edit, GateMoves, Nothing, calls, vars

\* A call is counted only within the budget, and adds one entry at most.
LEMMA NextBudget ==
  ASSUME TypeOK, RunsAreForServers, BudgetKept, [Next]_vars
  PROVE  BudgetKept' /\ counts' \in [Run \X Server -> Nat] /\ made' \in [Run \X Server -> Nat]
<1> USE CallsAssumption DEF TypeOK, BudgetKept
<1>1. CASE UNCHANGED <<counts, made>>
  BY <1>1 DEF Keys
<1>2. ASSUME NEW k \in Run \X Server, Budget(k), counts' = [counts EXCEPT ![k] = @ + 1],
             made' = [made EXCEPT ![k] = @ + 1]
      PROVE  BudgetKept' /\ counts' \in [Run \X Server -> Nat]
                /\ made' \in [Run \X Server -> Nat]
  <2>1. Keys' = Keys \cup {k}
    BY <1>2 DEF Keys
  <2>2. k \in Keys \/ Cardinality(Keys) < MaxKeys
    BY <1>2 DEF Budget, Keys
  <2>3. /\ IsFiniteSet(Keys \cup {k})
        /\ Cardinality(Keys \cup {k}) =
             IF k \in Keys THEN Cardinality(Keys) ELSE Cardinality(Keys) + 1
    BY FS_AddElement
  <2>4. Cardinality(Keys) \in Nat
    BY FS_CardinalityType
  <2>5. IsFiniteSet(Keys)' /\ Cardinality(Keys)' <= MaxKeys
    <3>1. Cardinality(Keys \cup {k}) <= MaxKeys
      BY <2>2, <2>3, <2>4
    <3> QED
      BY <2>1, <2>3, <3>1
  <2>6. \A j \in Run \X Server : counts'[j] <= MaxCalls
    BY <1>2 DEF Budget
  <2> QED
    BY <1>2, <2>5, <2>6
<1>3. CASE counts' = [k \in Run \X Server |-> 0] /\ made' = counts'
  <2>1. Keys' = {}
    BY <1>3 DEF Keys
  <2> QED
    BY <1>3, <2>1, FS_EmptySet
<1> QED
  BY <1>1, <1>2, <1>3, CountMoves

-----------------------------------------------------------------------------
(* The invariant                                                           *)

\* All that the proof keeps.
CallsInvariant ==
  /\ TypeOK /\ RevocationHolds /\ ChildrenHaveTheirSpawn
  /\ RunsAreForServers /\ ChecksHold /\ UsedGateIsFresh /\ EveryActIsAuthorized
  /\ BudgetKept

\* It holds when a server starts with an empty registry.
LEMMA InitInvariant == Init => CallsInvariant
<1> SUFFICES ASSUME Init PROVE CallsInvariant
  OBVIOUS
<1> USE CallsAssumption DEF Init, RegistryInit, Gates!Init
<1>1. TypeOK
  <2>1. RegistryTypeOK
    BY DEF RegistryTypeOK, Manifest, Descriptor
  <2>2. counts \in [Run \X Server -> Nat] /\ made \in [Run \X Server -> Nat]
    OBVIOUS
  <2>3. call \in [Caller -> Request] /\ children \subseteq Caller /\ cancelled \in BOOLEAN
    BY DEF Request
  <2>4. grant \in [Gate -> Gates!Stage] /\ over \subseteq Gate /\ served \in [Gate -> Nat]
    BY DEF Gates!Stage
  <2>5. acted \in [Gate -> Seq(Act)]
    <3>1. << >> \in Seq(Act)
      OBVIOUS
    <3> QED
      BY <3>1
  <2> QED
    BY <2>1, <2>2, <2>3, <2>4, <2>5 DEF TypeOK
<1>2. RevocationHolds /\ ChildrenHaveTheirSpawn /\ RunsAreForServers /\ ChecksHold /\ UsedGateIsFresh
  BY DEF RevocationHolds, ChildrenHaveTheirSpawn, RunsAreForServers, ChecksHold, AsksForScript,
     UsedGateIsFresh, Holds, Idle
<1>3. EveryActIsAuthorized
  BY DEF EveryActIsAuthorized
<1>4. BudgetKept
  <2>1. Keys = {}
    BY DEF Keys
  <2> QED
    BY <2>1, FS_EmptySet DEF BudgetKept
<1> QED
  BY <1>1, <1>2, <1>3, <1>4 DEF CallsInvariant

\* Every step keeps the shape of the state.
LEMMA NextType ==
  ASSUME CallsInvariant, [Next]_vars PROVE TypeOK'
<1> USE DEF CallsInvariant
<1>1. RegistryTypeOK'
  BY RegistryMoves, RegistryStep DEF TypeOK
<1>2. script' \in Text
  BY DEF TypeOK, Next, ActFreely, AskGate, UseGate, ActGated, Execute, Refuse, StartChild,
     EndChild, Spawn, Cancel, Answer, Edit, Restart, GateMoves, calls, vars
<1>3. call' \in [Caller -> Request]
  <2>1. call' = [c \in Caller |-> call'[c]]
    <3>1. ASSUME NEW c, NEW q, Become(c, q) PROVE call' = [d \in Caller |-> call'[d]]
      BY <3>1 DEF TypeOK, Become
    <3>2. ASSUME NEW C, NEW agent, NEW gate, Spawn(C, agent, gate)
          PROVE  call' = [d \in Caller |-> call'[d]]
      BY <3>2 DEF Spawn
    <3>3. CASE Answer \/ Restart \/ \E v \in Text : Edit(v)
      BY <3>3 DEF Answer, Restart, Edit
    <3>4. CASE UNCHANGED call
      BY <3>4 DEF TypeOK
    <3> QED
      BY <3>1, <3>2, <3>3, <3>4 DEF Next, ActFreely, Start, AskGate, UseGate, ActGated,
         Execute, Refuse, StartChild, EndChild, Cancel, GateMoves, calls, vars
  <2>2. \A c \in Caller : call'[c] \in Request
    BY RequestMoves
  <2> QED
    BY <2>1, <2>2
<1>4. acted' \in [Gate -> Seq(Act)]
  <2>1. ASSUME NEW c \in Caller, Acts(c)
        PROVE  acted' \in [Gate -> Seq(Act)]
    <3>1. call[c].gate \in Gate
      BY <2>1, RequestShape DEF TypeOK, Acts, Holds
    <3> QED
      BY <2>1, <3>1 DEF TypeOK, Acts
  <2> QED
    BY <2>1, ActMoves DEF TypeOK
<1> QED
  BY <1>1, <1>2, <1>3, <1>4, GatesMove, ChildrenMove, NextBudget DEF TypeOK

\* The invariant holds throughout.
THEOREM CallsAreInvariant == Spec => []CallsInvariant
<1>1. CallsInvariant /\ [Next]_vars => CallsInvariant'
  <2> SUFFICES ASSUME CallsInvariant, [Next]_vars PROVE CallsInvariant'
    OBVIOUS
  <2>1. TypeOK'
    BY NextType
  <2>2. RevocationHolds'
    BY RegistryMoves, RegistryStep DEF CallsInvariant, TypeOK
  <2>3. ChildrenHaveTheirSpawn'
    BY NextChildren DEF CallsInvariant
  <2>4. RunsAreForServers' /\ ChecksHold' /\ UsedGateIsFresh' /\ EveryActIsAuthorized'
    BY NextAuthority DEF CallsInvariant
  <2>5. BudgetKept'
    BY NextBudget DEF CallsInvariant
  <2> QED
    BY <2>1, <2>2, <2>3, <2>4, <2>5 DEF CallsInvariant
<1> QED
  BY <1>1, InitInvariant, PTL DEF Spec

\* Registry, requests, gates and counts keep their shape.
THEOREM TypeCorrect == Spec => []TypeOK
<1>1. CallsInvariant => TypeOK
  BY DEF CallsInvariant
<1> QED
  BY <1>1, CallsAreInvariant, PTL

\* A gate lets one thing happen, the one it is bound to; of a script whose file
\* was edited after its check the text may be another one (proxy.py, runner.py,
\* spawner.py).
THEOREM ActsAreAuthorized == Spec => []EveryActIsAuthorized
<1>1. CallsInvariant => EveryActIsAuthorized
  BY DEF CallsInvariant
<1> QED
  BY <1>1, CallsAreInvariant, PTL

\* No run exceeds its calls of a server, and the table of counts has its limit
\* (proxy.py, call_tool).
THEOREM BudgetsHold == Spec => []CallsWithinBudget
<1>1. CallsInvariant => CallsWithinBudget
  <2> SUFFICES ASSUME CallsInvariant PROVE CallsWithinBudget
    OBVIOUS
  <2>1. {k \in Run \X Server : made[k] > 0} = Keys
    BY DEF CallsInvariant, BudgetKept, Keys
  <2> QED
    BY <2>1 DEF CallsInvariant, BudgetKept, CallsWithinBudget
<1> QED
  BY <1>1, CallsAreInvariant, PTL

\* Child agents end before their spawn answers or its abort goes on (spawner.py,
\* spawn).
THEOREM ChildrenEndWithTheirSpawn == Spec => []ChildrenHaveTheirSpawn
<1>1. CallsInvariant => ChildrenHaveTheirSpawn
  BY DEF CallsInvariant
<1> QED
  BY <1>1, CallsAreInvariant, PTL

\* What was disabled stays disabled, in memory and on disk (registry.py).
THEOREM RevocationsHold == Spec => []RevocationHolds
<1>1. CallsInvariant => RevocationHolds
  BY DEF CallsInvariant
<1> QED
  BY <1>1, CallsAreInvariant, PTL
=============================================================================
