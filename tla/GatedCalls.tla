----------------------------- MODULE GatedCalls -----------------------------
(***************************************************************************)
(* The features that act with the permission of a human gate: calls of MCP *)
(* tools, runs of workspace scripts, and child agents of a language model. *)
(*                                                                         *)
(* All three check the request, consume the gate, which takes time, check  *)
(* what the gate is bound to, and act.  A request that needs no gate acts  *)
(* as soon as it is checked.  MCP calls are counted per run and server in  *)
(* a table that only grows.  A script is checked long before the process   *)
(* that was started for it reads its file.  Child agents are spawned       *)
(* together, run at the same time and share one time limit.                *)
(*                                                                         *)
(* The registry of MCP servers is McpRegistry, the gates are those of      *)
(* GateContract.  Refusals that leave everything as it is are left out.    *)
(***************************************************************************)
EXTENDS McpRegistry, Sequences

CONSTANTS
  Caller,      \* requests, or child agents of a spawn, under way at a time
  Run,
  Text,        \* contents of the one script
  Agent,       \* specifications of child agents
  Gate,
  For,         \* [Gate -> what the gate is bound to]
  NoGate,
  MaxCalls,    \* EXTENSION_POLICY.max_mcp_calls_per_run
  MaxKeys,     \* entries of the table of counts: max_mcp_calls_per_run * 128
  MaxChildren  \* EXTENSION_POLICY.max_rlm_children

\* What a gate may be bound to: a tool of a server, a script by its hash, or
\* an agent by the hash of its specification.
Script == [call : {"tool"}, of : Text]
What == [call : {"mcp"}, of : Tool] \cup Script \cup [call : {"rlm"}, of : Agent]

ASSUME CallsAssumption ==
  /\ For \in [Gate -> What] /\ NoGate \notin Gate
  /\ {MaxCalls, MaxKeys, MaxChildren} \subseteq Nat

VARIABLES
  script,      \* the text of the script
  counts,      \* [Run \X Server -> calls counted, 0 if there is no entry]
  call,        \* [Caller -> the request]
  children,    \* the callers that are children of the spawn under way
  cancelled,   \* it has cancelled them and waits for their end
  grant, over, served,    \* the gates, as in GateContract
  acted,       \* history: [Gate -> what was done with it, in order]
  made         \* history: [Run \X Server -> calls that left since the start]

gates == <<grant, over, served>>
calls == <<script, counts, call, children, cancelled, acted, made>>
vars == <<registry, calls, gates>>

Gates == INSTANCE GateContract

Idle == [at |-> "idle"]
Done == [at |-> "done"]

\* What is done with a gate, and whether a script's file was edited after it
\* was checked (history).
Act == [what : What, edited : BOOLEAN]

\* A request that was checked: it waits for its gate, has used it, or has
\* started the process for its script.  A child agent runs.
Request ==
  {Idle, Done}
    \cup [at : {"gate", "gated"}, runs : SUBSET Run, what : What, gate : Gate, edited : BOOLEAN]
    \cup [at : {"starts"}, what : Script, gate : Gate \cup {NoGate}, edited : BOOLEAN]
    \cup [at : {"runs"}, what : What]

Init ==
  /\ RegistryInit
  /\ script \in Text
  /\ counts = [k \in Run \X Server |-> 0]
  /\ call = [c \in Caller |-> Idle]
  /\ children = {} /\ cancelled = FALSE
  /\ Gates!Init
  /\ acted = [g \in Gate |-> << >>]
  /\ made = counts

Become(c, request) == call' = [call EXCEPT ![c] = request]

\* A request that waits for its gate; a call of a server belongs to a run.
Asking(runs, w, g) ==
  [at |-> "gate", runs |-> runs, what |-> w, gate |-> g, edited |-> FALSE]

\* What is done, if it is done with a gate.
Did(w, g, edited) ==
  acted' = IF g = NoGate THEN acted
           ELSE [acted EXCEPT ![g] = Append(@, [what |-> w, edited |-> edited])]
Nothing == UNCHANGED <<acted, made>>

-----------------------------------------------------------------------------
(* MCP calls and scripts                                                   *)

Callable(t) == /\ items[ServerOf[t]] = "approved" /\ ServerOf[t] \in valid
               /\ catalog[t] # "none"

Keys == {k \in Run \X Server : counts[k] > 0}

\* Mutant: the table is bounded, the calls of a run are not.
BudgetOfTable(k) == counts[k] > 0 \/ Cardinality(Keys) < MaxKeys

\* An entry is made only if the table has room, and it has its limit.
Budget(k) ==
  /\ counts[k] > 0 \/ Cardinality(Keys) < MaxKeys
  /\ counts[k] < MaxCalls

\* The call is counted and leaves for its server.
Send(r, t, g) ==
  LET k == <<r, ServerOf[t]>> IN
  /\ Budget(k)
  /\ counts' = [counts EXCEPT ![k] = @ + 1]
  /\ made' = [made EXCEPT ![k] = @ + 1]
  /\ Did([call |-> "mcp", of |-> t], g, FALSE)

\* What a request is checked for before its gate.
Accepted(w) ==
  CASE w.call = "mcp" -> Callable(w.of)
    [] w.call = "tool" -> script = w.of
    [] OTHER -> TRUE

\* The process for a script is started; what it runs is another step.
Start(c, w, g, edited) ==
  /\ w.call = "tool"
  /\ Become(c, [at |-> "starts", what |-> w, gate |-> g, edited |-> edited])
  /\ Nothing /\ UNCHANGED counts

\* A request for a tool or script that needs no gate.
ActFreely(c, r, w) ==
  /\ call[c] = Idle /\ Accepted(w)
  /\ \/ /\ w.call = "mcp" /\ catalog[w.of] = "free" /\ Send(r, w.of, NoGate)
        /\ UNCHANGED call
     \/ Start(c, w, NoGate, FALSE)
  /\ UNCHANGED <<registry, script, children, cancelled, gates>>

\* One that needs a gate goes and asks for it.
AskGate(c, r, w, g) ==
  /\ call[c] = Idle /\ Accepted(w)
  /\ w.call = "tool" \/ (w.call = "mcp" /\ catalog[w.of] = "gated")
  /\ Become(c, Asking(IF w.call = "mcp" THEN {r} ELSE {}, w, g))
  /\ Nothing
  /\ UNCHANGED <<registry, script, counts, children, cancelled, gates>>

UseGate(c) ==
  /\ call[c].at = "gate"
  /\ Gates!Use(call[c].gate)
  /\ Become(c, [call[c] EXCEPT !.at = "gated"])
  /\ Nothing
  /\ UNCHANGED <<registry, script, counts, children, cancelled>>

\* Mutant: the gate's class is compared, and not the command.
BoundToClass(q) == For[q.gate].call = q.what.call

\* What the used gate is bound to.
Bound(q) == For[q.gate] = q.what

\* The call goes on after its gate: nothing but the binding and the budget is
\* looked at again.
ActGated(c) ==
  LET q == call[c] IN
  /\ q.at = "gated" /\ Bound(q)
  /\ \/ \E r \in q.runs : Send(r, q.what.of, q.gate) /\ Become(c, Idle)
     \/ Start(c, q.what, q.gate, q.edited)
  /\ UNCHANGED <<registry, script, children, cancelled, gates>>

\* The process runs what the file holds by now.
Execute(c) ==
  LET q == call[c] IN
  /\ q.at = "starts"
  /\ Did([call |-> "tool", of |-> script], q.gate, q.edited)
  /\ Become(c, Idle)
  /\ UNCHANGED <<registry, script, counts, children, cancelled, made, gates>>

\* The gate is refused or bound to something else, or the budget is used up,
\* or the request is aborted, or the process is killed before it has read the
\* file: a gate that was used stays used.
Refuse(c) ==
  /\ call[c].at \in {"gate", "gated", "starts"} /\ call[c].what.call # "rlm"
  /\ Become(c, Idle)
  /\ Nothing
  /\ UNCHANGED <<registry, script, counts, children, cancelled, gates>>

-----------------------------------------------------------------------------
(* Child agents                                                            *)

\* A child starts with its gate, or at once if it needs none.
Spawn(C, agent, gate) ==
  /\ children = {} /\ C # {} /\ Cardinality(C) <= MaxChildren
  /\ \A c \in C : call[c] = Idle
  /\ children' = C /\ cancelled' = FALSE
  /\ call' = [c \in Caller |->
       LET w == [call |-> "rlm", of |-> agent[c]] IN
       IF c \notin C THEN call[c]
       ELSE IF gate[c] = NoGate THEN [at |-> "runs", what |-> w]
       ELSE Asking({}, w, gate[c])]
  /\ Nothing
  /\ UNCHANGED <<registry, script, counts, gates>>

\* A child that was cancelled at its gate does not go on, though the gate may
\* have been used.
StartChild(c) ==
  LET q == call[c] IN
  /\ q.at = "gated" /\ q.what.call = "rlm" /\ Bound(q) /\ ~cancelled
  /\ Become(c, [at |-> "runs", what |-> q.what])
  /\ Did(q.what, q.gate, FALSE)
  /\ UNCHANGED <<registry, script, counts, children, cancelled, made, gates>>

\* A child ran to its end, was refused by its gate and has failed, or has
\* found that it is cancelled, which may take it a while.
EndChild(c) ==
  /\ c \in children /\ call[c] # Done
  /\ Become(c, Done)
  /\ Nothing
  /\ UNCHANGED <<registry, script, counts, children, cancelled, gates>>

\* The time of the spawn is up, or it is aborted: it cancels its children.
Cancel ==
  /\ children # {} /\ ~cancelled
  /\ cancelled' = TRUE
  /\ Nothing
  /\ UNCHANGED <<registry, script, counts, call, children, gates>>

\* Mutant: children that were cancelled are not waited for.
AllEndedOrCancelled == cancelled \/ \A c \in children : call[c] = Done

AllEnded == \A c \in children : call[c] = Done

\* The spawn is answered, or its abort goes on, when all children have ended.
Answer ==
  /\ children # {} /\ AllEnded
  /\ children' = {} /\ cancelled' = FALSE
  /\ call' = [c \in Caller |-> IF call[c] = Done THEN Idle ELSE call[c]]
  /\ Nothing
  /\ UNCHANGED <<registry, script, counts, gates>>

-----------------------------------------------------------------------------
(* Everything else                                                         *)

\* A request for the script, from its check until the file is read.
AsksForScript(q) == q.at \in {"gate", "gated", "starts"} /\ q.what.call = "tool"

Edit(v) ==
  /\ v # script
  /\ script' = v
  /\ call' = [c \in Caller |-> IF AsksForScript(call[c]) THEN [call[c] EXCEPT !.edited = TRUE]
                              ELSE call[c]]
  /\ Nothing
  /\ UNCHANGED <<registry, counts, children, cancelled, gates>>

\* The server is started again: counts and requests are gone, but not the
\* processes, which have a session of their own.
Restart ==
  /\ Reload
  /\ counts' = [k \in Run \X Server |-> 0]
  /\ made' = counts'
  /\ call' = [c \in Caller |-> IF call[c].at = "starts" THEN call[c] ELSE Idle]
  /\ children' = {} /\ cancelled' = FALSE
  /\ UNCHANGED <<script, acted, gates>>

\* What becomes of gates apart from their use.
GateMoves ==
  /\ \/ \E g \in Gate : Gates!Offer(g) \/ Gates!Grant(g)
     \/ \E S \in SUBSET Gate : Gates!Close(S)
     \/ Gates!Pass
  /\ UNCHANGED <<registry, calls>>

Next ==
  \/ RegistryNext /\ UNCHANGED <<calls, gates>>
  \/ \E c \in Caller, r \in Run, w \in What : ActFreely(c, r, w)
  \/ \E c \in Caller, r \in Run, w \in What, g \in Gate : AskGate(c, r, w, g)
  \/ \E c \in Caller : UseGate(c) \/ ActGated(c) \/ Execute(c) \/ Refuse(c)
                       \/ StartChild(c) \/ EndChild(c)
  \/ \E C \in SUBSET Caller :
       \E agent \in [C -> Agent], gate \in [C -> Gate \cup {NoGate}] : Spawn(C, agent, gate)
  \/ Cancel \/ Answer
  \/ \E v \in Text : Edit(v)
  \/ Restart
  \/ GateMoves

Spec == Init /\ [][Next]_vars

-----------------------------------------------------------------------------
(* Properties                                                              *)

\* The shape of registry, requests, gates and counts.
TypeOK ==
  /\ RegistryTypeOK
  /\ script \in Text
  /\ counts \in [Run \X Server -> Nat] /\ made \in [Run \X Server -> Nat]
  /\ call \in [Caller -> Request] /\ children \subseteq Caller /\ cancelled \in BOOLEAN
  /\ grant \in [Gate -> Gates!Stage] /\ over \subseteq Gate
  /\ served \in [Gate -> Nat]
  /\ acted \in [Gate -> Seq(Act)]

\* A gate lets one thing happen, the one it is bound to, and is used up by it,
\* whichever features race for it, with whatever they have asked for.  Of a
\* script it is bound to the text, and another text runs only if the file was
\* edited after this request was checked (proxy.py, runner.py and spawner.py,
\* before and after their consume).
EveryActIsAuthorized ==
  \A g \in Gate : acted[g] # << >> =>
    /\ grant[g] = "used" /\ Len(acted[g]) = 1
    /\ \/ acted[g][1].what = For[g]
       \/ /\ acted[g][1].edited
          /\ acted[g][1].what.call = "tool" /\ For[g].call = "tool"

\* A run has no more calls of a server than its limit, and no more pairs of a
\* run and a server have calls than the table may hold, though calls wait for
\* their gates before they are counted (proxy.py, call_tool).
CallsWithinBudget ==
  /\ \A k \in Run \X Server : made[k] <= MaxCalls
  /\ Cardinality({k \in Run \X Server : made[k] > 0}) <= MaxKeys

\* Nobody works as a child agent, or waits for the gate of one, once the spawn
\* has answered or its abort has gone on, though a child that was cancelled
\* takes its time to end (spawner.py, spawn).
ChildrenHaveTheirSpawn ==
  \A c \in Caller : \/ call[c].at = "idle" \/ c \in children
                    \/ /\ call[c].at \in {"gate", "gated", "starts"}
                       /\ call[c].what.call # "rlm"
=============================================================================
