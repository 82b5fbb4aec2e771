# HarnessForge, a specification

TLA+ models of the HarnessForge backend (`src/backend/app`), the TLC
configurations that check them, and TLAPS proofs about them. HarnessForge runs
agent graphs: a person draws a graph, the server validates it, runs it with
language-model providers and tools, stores what happened, and asks a person for
approval (a *human gate*) before anything risky is done.

To check a run: `tlc -workers 2 -config MCHumanGates.cfg MCHumanGates`. To check
the proofs: `tlapm HumanGatesProofs.tla`. `PROJECT.json` lists components, runs,
the source lines of every definition, hazards, findings and theorems.

## 1. The system

The backend is one Python process (FastAPI, asyncio) with SQLite files. All
concurrency is that of coroutines: a call gives way where it awaits something
that is not ready. The process may be stopped at any time, and only the rows and
files survive. Several processes may share a workspace when they export.

| component | state | operations | hard part |
|---|---|---|---|
| human gates (`human_gates/`) | table of gates: status, binding, nonce, expiry | create, approve, deny, consume, cancel_run, expire, get | concurrent transactions; the clock moves between steps |
| graph validation (`graph_authoring/validator.py`, `contracts.py`) | none | validate a graph | a depth-first search whose verdict depends on edge order |
| graph generator, graph files (`generator.py`, `graph_authoring/api.py`) | files | generate, load, save | a graph that is repaired after it was checked |
| graph runner (`execution/engine.py`) | `_active`, `_cancelled`, `_paused`, resume event, loop counts | run, pause, resume, cancel | callers act on a suspended coroutine |
| run control (`main.py`, `observability/store.py`) | `active_runner`, `active_task`, run rows | HTTP and WebSocket run requests, commands, delete, checkpoints | two entry points share one runner; rows are written after the run; crashes; a purge on every use |
| event broker (`observability/broker.py`, the socket's loop in `main.py`) | one queue per subscriber | publish, subscribe | a full queue drops its oldest event; two receives end together |
| agent state (`execution/state.py`) | values by key | reducers | sequences of operations that each look harmless |
| continual refiner (`continual_refiner/`) | suggestions, files, backups | propose, apply, reject, rollback | a file and a row must agree across a failure |
| coding harness (`coding_harness/`) | plans by session | create plan, advance | the plan is read before an await and used after it |
| MCP gateway (`mcp_gateway/`) | registry and its file, catalog, call counts per run | register, approve, disable, call a tool | a registry that changes while a call awaits its gate; saves that fail |
| tool execution (`tool_execution/runner.py`) | none | run a script | the script is hashed before the gate, run after it |
| RLM child agents (`rlm/`) | none | spawn children | a time limit that meets children with used gates |
| REPL sessions (`repl_sandbox/`) | sessions and their processes | create, execute, interrupt, expire | a manager's lock and a lock per session |
| time travel (`time_travel/`) | checkpoints, forks | fork, resume, read | read, count and insert are three transactions |
| workspace indexer (`workspace_indexer/`) | index status, files table | rebuild, pause, resume | a pause during a rebuild |
| export (`export/`, `templates/standalone_runner.py.jinja`) | lock files, bundles, archives | export, run the export | a process that dies half way; a second interpreter of graphs |
| provider settings (`providers/settings_api.py`) | environment, `.env` file | read, update | an update that stops half way |
| providers and retrieval | none | call a model, search | network I/O |
| authentication, request guards | token | check a request | none that has state |
| frontend | browser state | editor | a client of the above |

Who calls whom:

    client --HTTP/WS--> run control --> graph validation
                            |  \------> run store, event broker --WS--> client
                            v
                       graph runner --> providers, retrieval, tool execution
    tool execution, MCP gateway, coding harness,
    continual refiner, RLM  ------------consume----------->  human gates
    client --HTTP--> REPL sessions, time travel (-> agent state), indexer,
                     settings, generator -> graph validation,
                     export -> graph validation -> standalone program

The features reach a gate only through the store's `create`, `approve`, `deny`,
`consume` and `cancel_run`; what they rely on is the contract in
`GateContract.tla`.

### What makes each component correct

- **Human gates.** An approval lets one action run once, only within its time and
  only the action, run and session it was given for; a gate that is denied,
  expired, cancelled or used stays so, whatever calls race.
- **Graph validation.** A graph is rejected for a cycle only if a cycle without a
  loop node exists; every loop-free cycle is found; everything reachable
  is looked at. (The second is not quite so: see Findings.)
- **Graph generator.** What it answers keeps the contract and is valid, whichever
  model answered what; it never answers nothing. (The first is not quite so: see
  Findings.)
- **Graph runner.** A run is a walk along edges with bounded turns through each
  loop node; no wake-up is lost; a pause holds; every run that is not left
  paused ends.
- **Run control.** One run at a time per process; commands reach the run that
  executes; a stored final status is how the run ended; no request hangs.
- **Event broker.** A subscriber sees a run's events in order, and sees the one
  that ends it.
- **Agent state.** Reducers keep every state within its limits. (The redaction of a
  fork's state does not: see Findings.)
- **Continual refiner.** A suggestion is `applied` exactly if the file holds its
  text, and the backup holds what was there before; a rejected suggestion's
  text is never in the file.
- **Coding harness.** A gate lets one step pass; steps pass in order.
- **MCP gateway, tool execution, RLM.** Nothing happens but what was approved (a
  script may be edited meanwhile: see Findings), and once; a run makes no more than its number of calls; nobody works for a
  spawn that is over; a server that was disabled stays so.
- **REPL.** A process belongs to one session in the table; no more sessions than
  the limit; a cell is answered with its own answer.
- **Time travel.** Forks are bounded in number and depth, and their lineage is
  true.
- **Indexer.** The index only goes forward; the status tells whether it is being
  rebuilt.
- **Export.** What is in place is whole; no error leaves a lock; an export runs as
  the server would run the graph.
- **Provider settings.** The file holds what is in use, wherever no update failed and
  no value has several lines.

## 2. The modules

| module | what it is |
|---|---|
| `GateContract` | what a human gate promises (abstract) |
| `HumanGates` | the gate store and its callers; implements `GateContract` |
| `ForgeGraph` | graphs, the choice of an edge, the validator's search, the validator's verdict (operators) |
| `GraphValidation` | the search as a machine over all graphs of a family |
| `GraphGenerator` | the repair of a model's graph, and the graphs made without a model (operators) |
| `StandaloneRunner` | the exporter's check and the exported program (operators) |
| `GraphLife` | a graph from its source through validation and export to the program's run |
| `GovernedWalk` | what a run of a graph is: a governed walk (abstract) |
| `GraphRunner` | the interpreter loop with pause, resume, cancel and the clock; implements `GovernedWalk` |
| `RunControl` | run requests, commands, the run store, restarts |
| `LossyFifo` | what a subscriber of events is promised (abstract) |
| `EventStream` | the broker's queues and the sockets' loops; implements `LossyFifo` |
| `Refiner` | suggestions, the files they patch, their backups; uses `GateContract` |
| `Harness` | plans, templates and the requests that advance them; uses `GateContract` |
| `McpRegistry` | manifests of MCP servers in memory and on disk, and the catalog of tools |
| `GatedCalls` | MCP calls, scripts and child agents; extends `McpRegistry`, uses `GateContract` |
| `ReplSessions` | the REPL's table of sessions, its locks and workers |
| `StateReducers` | the agent state and its reducers (operators) |
| `TimeTravel` | checkpoints and forks; uses `StateReducers` |
| `WorkspaceFiles` | published files, their staging and locks |
| `ProviderSettings` | the environment and the `.env` file |
| `WorkspaceIndex` | the index, its rebuilds, its status |
| `Workspace` | the three before, under one restart |
| `*Proofs` | theorems about the module of that name |
| `GraphRunnerProofs` | also about `GraphLife` and what it is made of |
| `RunControlProofs` | also about `EventStream` |
| `HarnessProofs` | also about `Workspace` and its three parts |
| `MC*` | the instances TLC checks |

`HumanGates`, `GraphRunner` and `EventStream` are each tied to their abstract
specification by `INSTANCE ... WITH`; the channel to every client is an instance
of `LossyFifo` of its own. `GraphRunner`, `GraphValidation` and `GraphLife` share
`ForgeGraph`, so what the runner accepts is what the validator's search says and
not a predicate written for it. `RunControl` keeps of a run only where it
suspends; that a run which is not held ends is what `GraphRunner` shows.
`Refiner`, `Harness` and `GatedCalls` are composed with the gates: they hold the
contract's variables, use a gate by the contract's `Use`, and let all its other
steps happen at any time (`GateMoves`). Since `HumanGates` implements the
contract, what they show holds with the real store behind it.

### HumanGates and the code

| module | `human_gates/store.py` |
|---|---|
| `AskCreate`, `Insert` | `create`: the expiry is computed, then the row is inserted |
| `AskDecide`, `Begin`, `Decide` | `_decide`: reads the clock, `BEGIN IMMEDIATE` and SELECT, checks, UPDATE, commit |
| `AskConsume`, `Begin`, `Consume` | `consume`: `BEGIN IMMEDIATE` and SELECT, reads the clock, checks, UPDATE, commit |
| `CancelRun` | `cancel_run`, one UPDATE |
| `AskExpire`, `Expire` | `expire` (which `get` calls first): reads the clock, then one UPDATE |
| `Abandon` | a lock that is not free in time, an aborted request, a stop of the process |

The steps are cut where the code awaits, so two calls interleave as they do in the
process. `writer` is SQLite's write lock. `seen` is what the transaction's
SELECT returned; `Consume` and `Decide` check `seen`, and their UPDATE's `WHERE
status = ...` looks at `status`, as in the code. Request id and nonce are both
random, so a gate stands for both, and a call carries any pair of them. The
fields a gate is bound to are a constant (`Binding`). A rowcount is ignored by
the code, so `uses` counts every success that is reported.

### ForgeGraph, GraphValidation, GraphRunner and the code

`WalkStart`, `Leave` and `Follow` are the validator's recursive `visit` as a stack
machine: one step per edge or per end of a node. `Follow` keeps the two sets the
code keeps (the stack of nodes being visited, and `visited`), and asks for a loop
node in the slice of the stack that an edge back closes. Edges have numbers, in the
order they are stored in; `Out` is the set of the numbers of the edges that leave a
node, and the next edge is the least of those still to follow. `Valid` is the
verdict: the search reports nothing and the other rules are kept (`RulesKept`).
What a node reaches is stated as the least set that no edge leaves (`Spread`),
which is what the code's worklists compute. The rules on single nodes (missing
names, limits, unknown tools) are one set, `faulty`. `GraphValidation` starts from
any graph of its family and runs the search, step by step.

`GraphRunner` follows `GraphRunner.run` from one real suspension to the next:

| place (`pc`) | in `engine.py` |
|---|---|
| `created` | `run` before the loop; `Validate` |
| `head` | the top of the loop; `Succeed`, `Wait`, `Stop`, `RunPlain`, `CallService`, `RunLoop` |
| `blocked`, `woken` | `await self._resume.wait()`, not yet and already set |
| `service` | awaiting a provider or a tool; `ServiceReturns` |
| `done` | `run` has returned |

An `asyncio.Event.wait` on an event that is set does not suspend, so `Past` lets a
run that is not paused go straight on; a waiter that was woken goes on even if the
event is cleared before it is scheduled. That is why a pause may let one more
node begin (`PauseIsKept`) and not none.

Whether a loop's condition holds is a free choice, and the contents of the agent
state are left out: the properties do not depend on them. A node of any kind
but `loop` may fail.

### RunControl and the code

| module | code |
|---|---|
| `HttpAccept` | `POST /api/run`: sets `active_runner` at once |
| `WsStart` | `run.start` over `/ws`: refused while `active_task` is not done |
| `OpenStore`, `StoreFails` | `initialize` and `create_run`, and a store call that raises |
| `Begin`, `Reject` | `GraphRunner.run`: `_active` is lowered or not |
| `Wait`, `Proceed`, `End` | the run's suspension points, and the `finally` blocks after it |
| `UpdateStatus`, `AppendEvents` | the statuses and events collected during the run, written after it |
| `Pause`, `Resume`, `Cancel` | the commands, through `active_runner` |
| `Delete`, `Post` | DELETE of a run or all runs; a checkpoint or event that makes a missing row |
| `Restart` | the process stops and starts: only `store` survives |

`update_run_status` reads the row and writes it within one connection; the two
are one step, since a DELETE between them has the effect of a DELETE just after.
All events of a run are appended in one step. Every use of the store purges
rows older than the retention; `Delete` of any set of runs stands for it, since
the default retention of a listing may be shorter than that of the run's graph.

### Refiner and the code

| module | `continual_refiner/` |
|---|---|
| `Propose` | `analyze`, with a patch the policy admits |
| `Reject` | `reject`, without the lock that `apply` and `rollback` take |
| `StartApply`, `UseGate` | `apply`: reads the row under the lock, checks it, consumes the gate |
| `Patch`, `PatchFails` | compares the gate's binding and the file's hash, writes the backup, replaces the file |
| `StartRollback`, `Undo` | `rollback`: reads the row, compares the hash, puts the backup's text back |
| `Commit`, `PutBack` | the row's transition, and the text that is restored if it is refused |
| `Refuse`, `Strike` | a call that ends before it has written, or between write and transition |
| `Expire`, `Edit` | the clock, and everybody else who writes the file |

A text stands for its hash, and a suggestion for all the fields a gate is bound
to. `transition` is one transaction and so one step. `Strike` is a stop of the
process, any database error but a conflict (the code restores the text on
`OSError` and `ReviewStoreError` only), or a text that cannot be put back.

### Harness and the code

| module | `coding_harness/` |
|---|---|
| `Create`, `Import` | `create` of a plan; a template is imported, or replaced under its id |
| `AdvanceFreely` | `advance` of a plan that awaits no gate: no await, one step |
| `AskAdvance`, `UseGate`, `AdvanceGated` | `advance` of a plan that awaits one: reads the plan, consumes the gate, compares its binding with what it *had read*, advances the plan as it *is* |
| `Entered`, `Tried`, `TakeUp`, `Advance` | `HarnessPlanner.create` and `advance` |

Plans are kept in memory: with the process they are gone, which is left out. So are
reports and diffs, which nothing reads back.

### ReplSessions and the code

| module | `repl_sandbox/runner.py` |
|---|---|
| `Ask` | a request comes in (`api.py`) |
| `Enter`, `Expire`, `Expired` | `_expire_locked`: the expired sessions are listed under the manager's lock, then popped and stopped one by one |
| `RefuseCreate`, `StartWorker`, `Started`, `StartFails` | `create` |
| `Inform` | `info` |
| `LookUp` | `execute` under the manager's lock |
| `Deny`, `Send`, `SendFails`, `Read` | `execute` under the session's lock, with `ReplRunner.execute` |
| `TimeOut`, `End` | `stop` after a time limit or an end of file; the lock is given up and `interrupt` called |
| `Interrupt`, `Stopped` | `interrupt`: pops the session under the manager's lock, stops its worker without it |
| `Signal`, `WorkerEnds` | `stop`: the signal, and the end of the process |
| `WorkerDies`, `FallsQuiet` | the limit of CPU time; the time of the last activity |

`close` is `interrupt`, and `close_all` calls it for each session. A session's
removal from the table and the signal to its worker have no suspension between
them and are one step. A worker ends of itself only in the middle of a cell. What
it wrote before it ended may still be read; when it was stopped its pipe is
closed, so a cell that had waited for the lock fails on sending (`SendFails`), and
leaves the session to whoever stopped it. A request for an unknown id answers as
one for a session that has gone. The answer `repl.invalid_response` needs a line that
is not JSON, which the worker does not write; an answer that is JSON and invalid
counts as a cell (`Read`).

### GraphLife, GraphGenerator, StandaloneRunner and the code

| module | code |
|---|---|
| `LifeInit`, `Proposals` | a graph of a client, or the first answer of `generate_graph_from_prompt` |
| `Dangling`, `Judged`, `Search`, `Judge` | `validate_graph`: edges to nodes that do not exist make it fail, then the search, then the verdict |
| `TryNext` | the next model, or synthesis, after an answer that was not valid |
| `Repaired`, `Unrouted`, `Before` | `normalize_and_repair_graph` |
| `SynthesizedRag`, `SynthesizedChain`, `SynthesizedLoop` | the graphs of `synthesize_graph_from_prompt` |
| `Export`, `Exportable` | `validate_export` |
| `Begun`, `Starts` | the template's `main`: `validate_startup` with the workspace, the shape of the graph, its handles, providers and loops |
| `Routes`, `Followed`, `RunStart`, `RunSteps`, `RunOn` | the template's choice of an edge, and `run` |

A candidate is a graph whose loops may lack a limit, a fallback or branches. The
parser of the contract has seen it (`WellFormed`: one start and one output node,
edges between nodes, the caps, ids of edges that differ), the repair comes
afterwards, and nothing looks at the contract again. A repaired graph keeps the
numbers and ids of the edges that stay; those it adds come after the last, with ids
that are made of the loop and the branch and that an edge of the candidate may
have as well. Where the repaired loop leads back to is the first of some nodes in
the code, and any of them here.

The configuration of a node is `faulty` or not, but for one case: `mistral` is the set
of the nodes with Mistral as their provider, which `ProviderConfig` and the exporter
know and the program does not.

The program follows the same edges with other rules: it takes a way only if
there is exactly one, it knows only the handles of loops, and it compares
`iteration` with a loop's limit. Nothing in the program counts `iteration` up (only
a reducer could), so a loop that waits for its limit runs until the cap on
steps; `AskedHandles` says which handles the program may ask for.

### EventStream and the code

| module | code |
|---|---|
| `Connect`, `Close` | a socket is accepted or ends: `subscribe`, `unsubscribe` |
| `Publish`, `Deliver` | `EventBroker.publish` to every queue; a full queue drops its oldest |
| `Say`, `Receive` | the client's message, and the task that receives it |
| `TakeEvent` | the task that takes an event from the queue |
| `ChooseEvent`, `Answer` | after `asyncio.wait`: one of the finished tasks is gone on with, the other's result is dropped |
| `Send` | the event is sent |

Event and message are ready together when both tasks have finished before the loop
is scheduled again; `lost` remembers the last event that was dropped for a message.

### McpRegistry, GatedCalls and the code

| module | code |
|---|---|
| `Register`, `Approve`, `Disable` | `registry.py`: the memory is changed, then saved; `ok` says whether the save succeeded |
| `RegisterTool` | the catalog of tools, in memory |
| `Revalue` | an endpoint resolves elsewhere, a command is edited: manifests are validated each time |
| `Reload`, `Restart` | the file is read; counts and requests are gone |
| `Accepted`, `AskGate` | what each feature checks before it consumes the gate |
| `ActFreely` | a call or script that needs no gate: no await before it leaves, or its process is started |
| `UseGate`, `Bound`, `ActGated` | `consume`, the comparison of class and command, then the act |
| `Send`, `Budget` | `proxy.py` after the gate: the table of counts, the run's count, the transport |
| `Start`, `Execute` | `runner.py`: the process is started; it reads its file, and runs the text that the file has *by then* |
| `Spawn`, `StartChild`, `EndChild` | `spawner.py`: children at the same time, each with its gate or none |
| `Cancel`, `AllEnded`, `Answer` | the time limit or an abort cancels the children; `gather` waits until all have ended; the spawn is answered |
| `Refuse`, `Edit`, `GateMoves` | a refusal or abort after the gate was asked for; an editor of the script; the life of a gate |

`acted` records what each gate let happen: for a script the text that ran, and
whether the file was edited between the comparison of the hash and the reading of the
file (`edited`). `made` records what a run was charged. A child that was cancelled
ends when it gets to it, and until then may still use its gate, but not start. The
process of a script has a session of its own and survives a restart of the server.

### StateReducers, TimeTravel and the code

| module | code |
|---|---|
| `Fits`, `Result`, `Apply`, `Applied` | `apply_reducer`: reads, checks the operation, writes to a copy, validates the whole |
| `Redacted`, `Clean`, `Marker` | `redact_payload` |
| `SaveCheckpoint` | `POST` of a checkpoint: a state that was validated, redacted and measured again |
| `Ask`, `ReadDepth` | `service.fork`: the checkpoint and the reducers, the depth of its run |
| `Count`, `Room` | `forker.fork`: the number of the run's forks, in a transaction of its own; then the reducers, and the redaction |
| `Insert` | the row of the fork, in another |
| `Refuse`, `Restart` | a refusal or failure at any point; a stop of the process |

A value has a kind, the length of a list or dictionary or the value of an integer, a
size in bytes, and the change of that size by redaction: a short secret becomes
longer, a long text is cut. The cap on a state is on the sum of the sizes, after
each reducer. Names and punctuation weigh nothing; that an object's key which is
merged again replaces the old value is left out, as are paths into dictionaries
deeper than one level. Every fork's row keeps, as a history, the state `before`
its redaction.

### Workspace and the code

| module | code |
|---|---|
| `Begin`, `Lock`, `Stage`, `Publish` | `export_bundle` and `save_graph`: a lock file with `O_EXCL` (not for graphs), a temporary name, one rename |
| `Archive`, `Answer`, `Return` | `package_zip` after the bundle, and the end of the request |
| `Fail`, `Die`, `Remove` | an error (its `finally` removes the lock), a death, somebody who tidies up |
| `Parsed`, `Lines`, `Sources` | `_parse_env_file`: the lines of the values as they were written, the last one of a name counts |
| `Update`, `RefuseValue`, `FailToSave` | `update_provider_settings`: done, stopped at a value that is refused, failed at the file |
| `Launch` | a start of the server, with the environment of the file or without |
| `Change`, `Scan`, `Commit`, `Succeed` | the workspace changes; `rebuild` under its lock: the scan, the writer's transaction, the status |
| `Abort` | an error, handled or not |
| `Pause`, `Resume`, `Reopen` | `pause`, `resume`, a start of the server |

The scan of the files does not suspend and is one step; it may be refused, fail, or
raise an error that `rebuild` does not handle (a record with too many symbols, or
with a snippet that grew by its redaction), which leaves the status at `running`.

A value of `.env` is written as it is, one line per name in the order of the names. If
it holds line breaks, its further lines are lines like others when the file is read:
`Further` says which names they assign to, `Read` what is left of its first line.
Quotes and blanks around a line's value are lost as well (`Core` compares without them).

## 3. What TLC checks

| run | question | instance | states | result |
|---|---|---|---|---|
| `gates` | do racing calls, the clock and aborted calls ever break the gates' contract? | 2 gates of 2 runs and 2 sessions, 2 calls in flight, 1 tick | 895,770 | holds |
| `graph_life` | are reports right, generated graphs sound, and does an exported program run alike? | graphs of clients and answers of models, with and without Mistral, missing branches and doubled ids; 8 steps of the program | 36,218 | holds |
| `validator_cycle` | has an accepted graph no cycle without a loop node? | the graphs of clients | | violated |
| `runner` | does a run keep to its graph and limits, keep its pauses, and end? | 8 graphs, 2 turns, cap of 12 steps | 2,578 | holds |
| `run_control` | are rows, flags and commands right, with restarts, failures, deletions? | 1 HTTP and 2 WebSocket requests | 456,071 | holds |
| `events` | do events arrive in order, and the last one at all? | 2 clients, queues of 2, 3 events, 2 messages each | 119,446 | holds |
| `refiner` | do files, rows and backups agree, whatever races and fails? | 1 file, 2 suggestions, the second built on the first, a gate each | 144,272 | holds |
| `harness` | does a gate let one step pass, do plans go forward, is repair bounded? | 2 plans, 2 requests, 2 gates of one step, 2 templates under one id | 193,586 | holds |
| `gated_calls` | does only happen what was approved, once, within its budget, and does a revocation stay? | 2 servers, 1 tool, 2 texts of a script, 1 agent, 4 gates, 2 requests, 2 runs, in three scenes | 288,545 | holds |
| `repl` | do table, locks, workers and answers agree while sessions expire, time out, die and are interrupted, and does every request end? | 2 sessions for 1 place, 2 cells each, 2 requests | 66,266 | holds |
| `time_travel` | how far do racing requests exceed the caps, and are forks' states legal? | 1 run, 3 forks, 3 checkpoints, 2 requests, cap 1, depth 2 | 85,179 | holds |
| `workspace` | is what is published whole, do locks go, does the index go forward, does the file keep up? | 2 writers, 1 place, 2 graphs of 2 files, 2 keys and the address with values of one line and of several, 2 rebuilds | 16,236 | holds |

### What the properties say

- `gates`: `LateApprovalNeverUsed`, `_decide` compares the expiry with a time it read
  *before* it waited for the lock and so may approve an expired gate, which is
  harmless only because `consume` reads the clock again; `ImplementsGateContract`,
  every step is one of the contract's or a stutter. The contract serves a gate
  once.
- `graph_life`: `ReportsAreRight` bounds the search from both sides where it is right
  (a reported node is on an ungoverned cycle; a cycle of a graph that has no
  loop node is always reported); `SearchTypeOK`, its stack never holds a node twice,
  nor one it has left; `SearchCoversGraph`, it ends having visited all
  that is reachable; `GeneratedIsSound`, a generated graph that is valid keeps the
  contract as well, but for the ids of the edges that a repair appends and their
  number, at most three for a loop; a synthesized graph keeps all of it, and
  synthesis never fails; `ExportedRunsAlike`, the program
  takes the server's way from every node and for every handle, and in a workspace
  that is there refuses to start only for a handle that no loop has or a node with
  Mistral as its provider.
- `runner`: `PauseIsKept`, a sleeper is paused and a pause lets at most one node
  begin; `LoopAlwaysRoutes`, no loop node of an accepted graph fails for want of
  an edge; `ImplementsGovernedWalk`; `RunEnds`.
- `run_control`: `OneRunAtATime`; `RowsAreTrue`, a final status is how the run ended
  and an answered run is stored; `CommandsReachTheirRun`, starts over WebSocket
  alone never detach a run and commands reach no run that is over;
  `RequestsEnd`.
- `events`: `ImplementsLossyFifo`, what arrives is new and in order, whatever a full
  queue or a dropped receive loses; `LastEventArrives`, a client that stays gets
  the last event unless this very event was dropped for a message of the same turn,
  whatever it lost before.
- `refiner`: `FilesAreRecoverable`, a file holds a text that some row accounts for,
  in whatever order apply, rollback and the lock-free reject came, and an
  applied suggestion has a whole backup, also after attempts that tore it;
  `PatchedOnOwnApproval`; `DecisionsAreFinal`. The first one excepts files that
  somebody else edited and those a `Strike` caught (see section 5).
- `harness`: `GateLetsOneStepPass` (of the plan the gate is bound to, though not
  always of the step: see section 5), `PlansGoForward`, `RepairsAreBounded`, even if
  the template is replaced under a running plan.
- `gated_calls`: `EveryActIsAuthorized`, each gate lets one act happen and is used up
  by it, though three features race for it, and the act is the one it is bound to;
  the exception is a script that was edited after this request's check, which runs
  with its new text (see section 5); `CallsWithinBudget`, counted after the gate and
  still never exceeded; `ChildrenHaveTheirSpawn`, nobody works as a child or waits for
  its gate once the spawn is answered, however long the children that it cancelled
  take to end; `RevocationHolds`, no failed save,
  no save of another change and no restart brings an approval back.
- `repl`: `SessionsMatchWorkers`, no worker lives outside the table, which keeps to
  its limit, and a session whose worker has ended is on its way out;
  `AnswersAreOwn`, a call that reads finds nothing that a cell before it left in
  the pipe; `RequestsEnd`, the two kinds of locks are never waited for in a
  circle.
- `time_travel`: `ForksAreNearlyBounded`, the cap is exceeded by one for each other
  request under way, and by no more; `LineageIsSound`;
  `ForkStatesAreLegal`, a fork's state is what redaction makes of a legal state and
  keeps the rules of the fields, along any chain of checkpoints and forks; the cap on
  its size it keeps before the redaction only (see section 5), a checkpoint's state
  after it, too.
- `workspace`: `PublishedIsWhole`; `LocksHaveHolders`, only a death leaves a lock;
  `RunningIsTrue`, except after an end of a rebuild that the service does not handle: a
  refused record, an error of the database, an aborted request; `IndexNeverGoesBack`;
  `FileLagsOnlyThere`, file and environment agree, up to quotes and blanks, on all names
  but three kinds: what a refused or failed update had changed, what a value of
  several lines was saved for or spills into, and the file's names when the server
  was started without it; each until an update sets the name anew.

### Bounds, and why they are enough

- *gates*: the rows of two gates interact only through the write lock and through
  `cancel_run`/`expire`; two calls in flight show every order of two transactions,
  and a third waits for the same lock. One tick separates times before and
  after an expiry, and a call reads the clock before or after it. Callers are
  symmetric. The proofs hold for any number.
- *graph_life*, *validator_cycle*: the family of clients' graphs has every
  combination of one or two edges, in both orders, at two plain nodes, around a
  loop node that leads back to either of them, and the same without a loop
  node. The search's weakness needs just a node entered first through a loop
  node, and an edge to it from outside. The models' answers are a row of
  nodes with a loop whose branches are missing, doubled, without handles or
  crossed, and whose limit and fallback are missing, out of range or name no
  node; one has an edge with the id that a repair gives its own, and one so many
  edges that its repair exceeds the cap. The caps (`MaxNodes`, `MaxEdges`) are small
  for that, and leave synthesis its room. Nodes with a model have
  Mistral as their provider or another one. Eight steps (`MaxSteps`) take the program around a loop twice. The
  proofs hold for any graphs, and any number of steps.
- *runner*: the eight graphs are a governed loop, a fallback that leads back, two
  fallbacks, a cycle the validator does not see, a loop without a `false` edge
  and one fault (both refused), a plain node that cannot choose between
  two edges, and a straight line. `MaxLoopIterations` times nodes, the
  code's cap on steps, is the constant `StepCap`: 12 lets every loop take its
  two turns, and endless cycles reach the cap.
- *run_control*: one active run, one that is rejected and one that starts later
  are all there can be of interest at one moment; both orders of HTTP and WebSocket
  are there. `Endings` has a success and a cancellation (the statuses are
  treated alike but for `cancelled`, whose event has a name of its own);
  `MaxTouched` bounds how many runs lose or regain their row. The liveness
  check is what keeps the instance small; the safety properties are proved for
  any number of requests.
- *events*: three events overflow a queue of two; the clients share nothing but
  what is published; of two messages one can cost its socket the event that comes
  in the same turn and the other not. The
  refinement is proved for any number of each.
- *refiner*: a suggestion built on another one's text is the closest that two can
  interact: suggestions of different files share only the lock. `Edit` may write
  every text of the instance, also those that a suggestion expects. The proofs
  hold for any number. Rolling back the first suggestion after the second one
  was applied is refused, since the text differs, unless the request names the
  newer text: then the second one stays `applied` without its text, and its own
  rollback puts back the text of the first. The code accepts this, and no
  document forbids it.
- *harness*: two requests and two approvals of one step are what it takes to
  advance a plan twice on one reading; a further plan shows that its gates are
  not taken for another's. The templates have a repair step, gated and not, and
  put a gated and an ungated step at the same place.
- *gated_calls*: the constraint `Scenes` admits three kinds of states. In `Acts` calls,
  scripts and children race for their gates, with two gates at a time, any request
  for any gate, one run, and a registry that stays as it is until a restart. In
  `Calls` two runs race for a budget and a table with room for one call (`MaxCalls`,
  `MaxKeys`), with two gates and free calls, while their server is approved, disabled
  and saved or not. In `Listing` two servers are registered and saved, so that the
  save of one writes what the other's failed to. Overdue and closed gates are
  refusals and are cut off (`InTime`). The proofs need none of this.
- *time_travel*: with a cap of one fork, two requests exceed it; three forks let a
  fork be forked in its turn. States stand at their limits, and the sequences of
  reducers go over each of them or change a type; one key is a secret whose value is
  shorter than the marker. Forks, checkpoints and requests are symmetric. All three
  properties are proved for any number and any sequences of reducers.
- *workspace*: files, settings and index share nothing but a restart of the server;
  the constraint `OneAtATime` lets one of them be away from where it began. A value
  of settings is a line, a line in quotes, or several lines of which one sets
  the other name.
  `MaxEdition` and `MaxVersion` let a rebuild read an older workspace than the one
  that commits before it. The proofs need none of this.
- *repl*: one place for two sessions makes each new session wait for the end of the
  old one; of two requests one can hold a lock, or have ended the worker, while
  the other waits. The liveness check is what keeps it at two; the safety
  properties are proved for any number. A session that is busy does not fall
  quiet: it is given 900 seconds, a cell 30.

Deadlock is checked in all runs but `graph_life` and `validator_cycle`, where a
graph's way ends.

### Fairness, and why the code justifies it

- `GraphRunner`: weak fairness of the run's own step. The event loop schedules a
  coroutine that is ready; providers and tools have timeouts, so a call
  returns. Nothing is assumed of pause, resume, cancel or the clock.
- `RunControl`: weak fairness of each request's own steps; a store call returns or
  raises, and a run that is not held ends (`RunEnds`).
- `GraphLife`: weak fairness of the search, which runs in one call.
- `EventStream`: weak fairness of each socket's loop, as long as its client takes
  what is sent. Clients need not speak, and nobody need publish.
- `ReplSessions`: weak fairness of the steps of a call that has what it waits for, and
  of the end of a worker that was told to stop (it is killed a second later).
  Strong fairness of taking a lock: an `asyncio.Lock` serves in order, so one
  that is free again and again is got.
- The others: none; their properties are about safety.

## 4. What is proved

For every value of the constants, from the named assumptions of each module:

| theorem | module | by |
|---|---|---|
| `TypeCorrect`, `GateInvariant` | `HumanGatesProofs` | induction on `GateInv` |
| `SnapshotsAreCurrent`, `GatesServeOnce`, `LateApprovalsAreDead` | `HumanGatesProofs` | from `GateInvariant` |
| `StoreImplementsContract` | `HumanGatesProofs` | step by step, with `GateInv` |
| `PauseInvariant`, `NoWakeUpLost`, `PauseHolds`, `PausesAreKept` | `GraphRunnerProofs` | induction on `PauseInv` |
| `RunInvariant`, `TypeCorrect` | `GraphRunnerProofs` | induction on `RunInv` |
| `LoopsAlwaysRoute` | `GraphRunnerProofs` | from `RunInv` and the lemma `RouteExists` |
| `RunnerImplementsWalk` | `GraphRunnerProofs` | step by step, with `RunInv` |
| `LifeInvariant` | `GraphRunnerProofs` | induction on `LifeInv` |
| `SearchTypeCorrect`, `ReportsStayRight`, `EndedSearchCoversGraph` | `GraphRunnerProofs` | from `LifeInvariant`: its part `SearchInv` |
| `GeneratedStaysSound`, `ExportsRunAlike` | `GraphRunnerProofs` | from `LifeInvariant` and the lemmas on repair, synthesis and export |
| `TypeCorrect`, `ControlInvariant` | `RunControlProofs` | induction on `ControlInv` |
| `OneRunAlways`, `RowsStayTrue`, `CommandsArrive` | `RunControlProofs` | from `ControlInvariant` |
| `StreamTypeCorrect` | `RunControlProofs` | induction on `StreamInv` |
| `StreamImplementsFifo` | `RunControlProofs` | step by step, with `StreamInv` |
| `TypeCorrect`, `RefinerInvariant` | `RefinerProofs` | induction on `RefinerInv` |
| `FilesStayRecoverable`, `PatchesAreApproved`, `DecisionsStay` | `RefinerProofs` | from `RefinerInvariant` |
| `HarnessInvariant` | `HarnessProofs` | induction on `HarnessInv` |
| `TypeCorrect`, `GatesLetOneStepPass`, `RepairBounded`, `PlansAdvance` | `HarnessProofs` | from `HarnessInvariant` |
| `PublishedStaysWhole`, `LocksKeepHolders` | `HarnessProofs` | induction on `FilesInv` |
| `FileLagsOnlyThen` | `HarnessProofs` | induction on `SettingsInv` |
| `RunningStaysTrue`, `IndexGoesForward` | `HarnessProofs` | induction on `IndexInv` |
| `CallsAreInvariant` | `GatedCallsProofs` | induction on `CallsInvariant` |
| `TypeCorrect`, `ActsAreAuthorized`, `BudgetsHold`, `ChildrenEndWithTheirSpawn`, `RevocationsHold` | `GatedCallsProofs` | from `CallsAreInvariant` |
| `ReplInvariant` | `ReplSessionsProofs` | induction on `ReplInv` |
| `TypeCorrect`, `SessionsStayMatched`, `OwnAnswers` | `ReplSessionsProofs` | from `ReplInvariant` |
| `TravelInvariant` | `TimeTravelProofs` | induction on `TravelInv` |
| `TypeCorrect`, `ForksNearlyBounded`, `LineagesAreSound` | `TimeTravelProofs` | from `TravelInvariant` |
| `ForkStatesStayLegal` | `TimeTravelProofs` | induction on `StatesLegal`, with the lemmas `AppliedIsGood` and `RedactedFits` |

- `GateInv` is `TypeOK`, `ServedOnce`, and two strengthenings. `SnapshotHeld` says who
  holds the lock as well as that what was read is current: without it a
  `Consume` could not be shown to find the `approved` that it read, and
  `ServedOnce` would not be kept. `LateStaysOverdue` says that a gate approved late
  is past its expiry and never used: the expiry column never changes and the clock
  never goes back, which is what makes `consume` refuse it.
- In the refinement every step is mapped: `Insert` to `Offer`, `Decide` to `Grant` or
  `Close`, `Consume` to `Use` or `Close`, `CancelRun` and `Expire` to `Close`,
  `Tick` to `Pass`, the rest to stutters. `Decide` needs `SnapshotHeld` (a granted gate
  was open), `Consume` also that it read the clock under the lock.
- `PauseInv` adds to the two parts of `PauseIsKept` that a run which is woken, or not
  paused, has begun no node since the pause in force. It needs nothing of graphs.
- `RunInv` is `TypeOK`, that place and status agree, that loop counts keep to their
  limits, and that the graph of a running run is accepted. The last two are what
  the walk asks of every turn. The choice of an edge takes the first that fits;
  `RouteExists` says that one does if the validator has found the routes of
  loops complete.
- `ControlInv` ties the rows to the requests: what is still to be written is
  a suffix of what the result stands for (`PendingIsTrue`), no result before the
  run's end (`NoResultBeforeEnd`), a run that has opened its store has its row
  unless another call touched it (`OpenedHasRow`), the row and the suffix
  together reach the result (`ReplayReachesResult`), and at most one WebSocket
  request is under way (`OneTask`).
- `RefinerInv` adds to the properties what the call at work knows. Only the holder
  of the lock makes a row `applied` or `rolled_back`, and reject closes pending
  rows only; so a suggestion that is being applied is still pending or was
  rejected (`ApplyOfUnapplied`), and one being undone is still applied
  (`UndoOfApplied`), whatever happened since the row was read.
  `WriterKnows`: a call that has replaced the file knows the text it read, and
  unless the file is edited or struck the file holds what it wrote.
  `GatesServeOnce` and `GateIsUsed` say that the gate in use was granted to this
  call.
- `HarnessInv` adds `UsedGateIsFresh`: between a gate's use and the step it lets
  pass, no other request holds it and no step has been passed with it; the
  contract's `Use` gives that, since a used gate is never granted again.
  `PlansBounded` says where attempts may stand, which is also what keeps them
  within the contract's five when a template is replaced.
- `CallsInvariant` has a `UsedGateIsFresh` of its own, over all three features at
  once: that is why no two of them can act on one gate. `ChecksHold` says what a
  check is still good for: a request for a script holds the text that its file
  has, unless the file was edited since, and one that has a gate and is about to
  act is what the gate is bound to. `RunsAreForServers` says
  that only MCP calls are charged; `BudgetKept` adds to `CallsWithinBudget` that the
  table agrees with what was charged.
- `TravelInv` carries the count. `RoomLeft`: the forks of a run, and the requests
  that have counted them and not inserted yet, are together no more than the cap
  and the number of other requests. A request joins only when there is room,
  and every insertion takes one off the second number. `RequestsKnow` says that
  the depth a request carries is that of its checkpoint's run, which never
  changes.
- `ReplInv` says what each lock is good for. Who starts a worker has the manager's
  lock and room in the table (`Managed`); who reads has the session's lock and a
  cell left (`Locked`); a pipe whose session nobody has locked is empty, or its
  worker is gone (`PipesClean`), which is why a time limit must end the worker
  *before* it gives the lock up. `Attended` is `EndedSessionsLeave` made
  inductive: a stopped worker's session in the table has a call that is `ending`, and
  one whose worker has died a call that will find its pipe closed.

- `SearchInv` is what makes the validator's search right, on any finite graph whose
  edges have sources. `StackIsPath`: the stack is a path of distinct nodes, so what
  an edge back closes is a cycle, and no node reported is off one.
  `NothingSkipped`: what was followed leads to a node that is visited or being
  visited, so the end of the search has covered what is reachable.
  `BehindIsAcyclic`: in a graph without loop nodes, as long as nothing is
  reported, nothing behind the search leads back to its stack. With loop nodes this
  fails, which is the first finding of section 5: a cycle that a loop node governs
  is behind the search and not reported, and its nodes are `visited` all the same.
- `LifeInv` carries through a graph's life what each place relies on: the graph is
  `Proper` (the contract, but for the caps, the ids and the targets of edges, which
  the repair may get wrong), and has no other ids twice, and no more edges beyond the
  cap, than a repair leaves (`AfterRepair`); a client's and a synthesized one is
  `WellFormed`; a valid one keeps the rules, an exported one can be exported; and a
  program that refused to start had a reason (`KnownHandles`, Mistral). The lemma
  `SynthesizedIsFlawless` says of each synthesized graph that nothing can be
  reported of it, `OneWay` that an exportable graph has one route at each node for
  each handle asked for, and that the runner's choice takes it.
- `StreamInv` says what a connection holds: numbers of events already published, a
  queue within its bound. In the refinement the line of a client is the event it
  holds and then its queue; dropping the oldest of a full queue, or the event of a
  socket that goes on with a message, loses one element of that line, and keeps
  the order of the others.
- `FilesInv`: what an export put at its destination stays there until its answer
  (`JobsRely`), since its bundle and its archive are looked for once more before the
  rename, and the rename is one step. `IndexInv`: only one rebuild is past the lock
  (`OneRebuild`), and what it read is no older than what is on disk
  (`ReadingsAreInOrder`), whatever happened to the workspace since.
- `SettingsInv` is the property and the types that it needs: what is read of a file
  has one line per value (`LinesRead`), so a value that comes back is the one that was
  written, up to quotes and blanks, unless it had several lines or the name is
  set again in the lines of such a value.
- `StatesLegal` says that saved states keep the rules of the fields, and that the state
  of a fork, or of a request about to save one, is the redaction of a legal state.
  A list of reducers is applied one after the other, and each of them returns a
  state that keeps the rules or is rejected (`AppliedIsGood`). Redaction keeps the
  kinds of the fields (`RedactedFits`), but not the cap on their size.

The assumptions are those the modules declare. Besides sizes that are natural
numbers, they say: a client's graph keeps the contract (`DraftsWellFormed`), and so
does a model's answer before its repair (`CandidatesWellFormed`), since the parser of
the contract has let it through; the cap on a loop's limit is at least the four
that synthesis asks for (`LoopLimitAssumption`; the code's cap is 50), and a graph may
have as many nodes and edges as synthesis makes (`RoomAssumption`; the code's caps are
50 and 200); a request's reducers are a list (`ForkAssumption`); the marker that
redaction puts in place of a secret is no longer than a text may be
(`StateAssumption`; 10 bytes and 128 kB); and of settings, that a line which is read of a
file has the bare value of what was written, that no two names are written to the same
place, and that of the lines for a name one is the last (`SettingsAssumption`).

Inductions over data that the proofs need (the nodes of a path, the reducers of a
list) are by the least counterexample: a non-empty set of numbers has a least
element (`LeastExists`), which leads to a contradiction.

Only model-checked:

- Liveness: `RunEnds`, `RequestsEnd` of `run_control` and of `repl`,
  `LastEventArrives`, and that a search ends (`SearchCoversGraph`; what it has
  covered by then is proved). Fairness and `ENABLED` are beyond the prover.
- That the bound on the steps of `Walked` is enough for the search to end. `Walked`
  is the search in one go, as `GraphRunner` uses it; its bound is not used by any
  proof. It is the next thing to prove: a measure that each step of the search
  takes one off, and from it and `SearchInv` that a graph without loop nodes that
  `GraphRunner` accepts has no cycle.

## 5. Findings

One is shown by a run:

- **The validator accepts a cycle without a loop node** (`validator.py:46`, run
  `validator_cycle`). It never looks again through a node it has left; a cycle
  whose nodes it first entered through a loop node goes unseen.

The following came up in modelling. The models contain each of them, and the
properties say what holds in spite of it.

- A paused run is not ended by cancel (`engine.py:26`), though ADR-002 promises that
  Stop ends at once: cancel sets a flag and does not wake the run, which also
  keeps `_active`. `RunEnds` excepts it.
- At its limit a loop takes the first fallback edge, not the configured one
  (`engine.py:93`; `CONTEXT.md:39`). The walk allows any.
- A run may become unreachable (`main.py:318`; `docs/API.md:13`): a request that is
  rejected because another run is active has already replaced `active_runner`,
  and then clears it. `CommandsReachTheirRun` excepts it.
- A push may pass without its own approval (`coding_harness/service.py:36`;
  `docs/API.md:26`): two requests that both read a plan at its commit step, with two
  approvals of that step, advance it twice. A template imported again under a
  running plan has the same effect.
- A failure between the replaced file and the row leaves a patched file and a
  pending suggestion (`continual_refiner/service.py:54`; `CONTEXT.md:140` promises
  atomic transitions, which the rows by themselves keep). `struck` names these
  files.
- Racing requests exceed the number of forks per run (`forker.py:16`), which
  `CONTEXT.md:123` calls hard limited.
- `SET` of a custom key that does not exist fails on the server (`state.py:142`), in
  spite of the comment at `state.py:119`; the exported program allows it.
- What runs after a gate is not compared again. A script is hashed before its gate
  is consumed (`tool_execution/runner.py:61`) and read only when it runs, though
  ADR-003 (`docs/adr/ADR-003-workspace-tool-local-trust-mode.md:13`) says that every
  relevant change makes an approval void and that the check is repeated just before
  execution. `EveryActIsAuthorized` therefore excepts a script that was edited in
  between. A server may have been disabled, or a tool registered anew, since the call
  was checked (`proxy.py:40`).
- An approval of an MCP server whose save failed is answered with an error and
  takes effect until the next start (`registry.py:83`). A command that was edited
  keeps the server from starting (`registry.py:33`), and from being disabled
  (`registry.py:86`).
- A pause during a rebuild is overwritten by its success
  (`workspace_indexer/service.py:27`). An error of the database leaves the status at
  `running` (`service.py:28`), and so does a record that its contract refuses, such as
  one of a file with a very long symbol (`scanner.py:31`), of which the service catches
  nothing. `RunningIsTrue` excepts both.
- A lock file left by a death makes every later export to its place refused
  (`export/generator.py:60`). An archive that fails leaves its bundle, so the same
  export is refused as well.
- A refused or failed update of settings has changed the environment
  (`settings_api.py:143`); the code never loads the `.env` file it writes. A value of
  several lines is written as it is (`settings_api.py:40`) and read line by line
  (`settings_api.py:30`), so the file loses its tail, or sets other names with it.
  `FileLagsOnlyThere` names both.
- An export whose plain edges carry other handles is written and refuses to start;
  its loops never reach their limit (template, line 118).
- A node with Mistral as its provider passes the check of exports (`validator.py:47`),
  and the program refuses to start (template, lines 19 and 32); ADR-005 (line 27) says
  that unsupported nodes block the export. `ExportedRunsAlike` allows this refusal.
- A repaired graph is not validated against the contract again
  (`graph_authoring/generator.py:72`), though the comment at line 73 says that it conforms
  strictly to all rules. The edges that a repair appends
  (lines 164-168) have fixed ids, which the answer may have used, and may exceed the
  cap on edges. `AfterRepair` bounds both.
- A fork's state may exceed the cap on its size (`task.md:140`, `docs/PLAN.md:213`):
  it is validated before secrets are replaced (`forker.py:23`), and the marker may be
  longer than what it replaces. `ForkStatesAreLegal` claims the cap before the
  redaction only.

## 6. Not modelled

- *Providers and retrieval*: single calls of network I/O without state; the runner
  sees a call that returns or fails.
- *Authentication and request guards*: decisions on one request.
- *Frontend*: a client of the API; the models let any client do any call at any
  time.

Of the components that are modelled, the data is left out where no property is
about it: what nodes compute, prompts, texts, reports, positions of nodes, the
configuration of nodes beyond whether it is faulty, tokens and costs, and what
REPL cells and scripts print. Two things of the code are never used by the server
and left out with them: the broker's `close` and `watcher.py`'s change queue. A
script that exceeds its output and ignores the signal to stop
(`tool_execution/runner.py:93`) holds its request for ever; of a script's process only
the start, and what its file holds then, are modelled.
