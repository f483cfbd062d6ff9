# FluxAgentPro v2: a TLA+ model of the orchestrator

FluxAgentPro is a multi-tenant service that runs *flows* (pipelines of language
model crews) for its clients, pauses them for human approval, tracks the
clients' tickets, and lets a client install *bundles* of agents, flows and
skills while it runs. It is a FastAPI application over Supabase: every piece of
state is a row, every access to it an HTTP request to the database that can
fail, and several requests make up one operation without a transaction around
them. That is what most of these modules are about: what a reader of the tables
can rely on when threads, event loops, API workers and MCP servers interleave at
every one of those requests, and any of them can be refused, lose its answer,
be sent twice, or die with its process.

Paths below are relative to the repository.

## Inventory

| Component | State | Operations | What makes it correct |
|---|---|---|---|
| Flow lifecycle (`src/flows/base_flow.py`, `multi_crew_flow.py`, `dynamic_flow.py`, `state.py`) | `tasks`, `snapshots`, `pending_approvals`, `domain_events`; the flow object in memory | `create_task_record`, `execute`, `request_approval`, `persist_state`, `emit_event`, `resume`, `_on_approved`, `_on_rejected` | nothing completes without the approval it asked for; the decision is in the log before its consequences; who finds an approval can resume it; the tables agree |
| Approval API (`src/api/routes/approvals.py`, `src/mcp/handlers.py`) | `pending_approvals` | `process_approval`, `approve_task`, `reject_task` | one decision per approval; a late one is refused |
| Flow triggers (`src/api/routes/webhooks.py`) | `tasks` | webhook trigger, `execute_flow` | a task that was announced runs |
| Database session (`src/db/session.py`) | client cache | `execute_with_retry`, `TenantClient` | retries are harmless |
| Event store (`src/events/store.py`, `002_governance.sql`) | `domain_events`, the queue of a flow object | `append`, `flush`, `append_sync` | sequence numbers are unique and increasing |
| Tickets (`src/api/routes/tickets.py`) | `tickets` | create, patch, delete, execute | executions exclude each other; notes are kept; no ticket stays in progress; a failed flow blocks its ticket |
| Bundles (`src/services/import_service.py`, `bundle_manager.py`, `import_bundle_atomic`) | `bundle_imports`, `agent_catalog`, `workflow_templates`, `skill_catalog` | `process_bundle`, `delete_bundle` | what is deleted is inactive and unloaded; no downgrade |
| Flow and tool registries (`src/flows/registry.py`, `src/tools/registry.py`) | caches of each process | `get`, `_load_from_db`, `invalidate_tenant`, `detect_cycles` | what is served is what the rows say |
| Workflow definitions (`src/flows/workflow_definition.py`, `architect_flow.py`, `dynamic_flow.py`, `src/api/routes/workflows.py`) | `workflow_templates`, the flows bound in memory | generate, store, archive, import, warm up, look up; run a template | an accepted template has no dangling or cyclic step; what the registry serves is the active row; steps run in order and stop where a rule asks |
| Transcripts and timeline (`src/api/routes/transcripts.py`, `dashboard/hooks/useTranscriptTimeline.ts`) | pages, `last_sequence`, the merged list | snapshot, subscription, merge, reconnect, load more | nothing is lost unless for a known reason, nothing shown is taken back |
| MCP connection pool (`src/tools/mcp_pool.py`) | adapters, circuit breaker | `get_tools`: cache, reconnect, retry, time out, open and close the circuit | one adapter per server; calls end; the circuit closes again |
| Agents and crews (`src/crews/base_crew.py`, `factory.py`, `src/guardrails/base_guardrail.py`) | the functions of the pool's tools, wrapped by each run | `run_async`, limits of an organisation | a run's counts are its calls; limits that cannot be read do not refuse |
| Inventory and staffing (`src/tools/demo/inventario_tool.py`, `src/crews/bartenders/reserva_crews.py`) | stock, assignments | reserve, release, assign | nothing is oversold; reports are exact; nobody is in two teams |
| Events of Bartenders NOA (`src/crews/bartenders/preventa_crews.py`, `cierre_crews.py`, `escandallo_tool.py`) | `eventos`, `cotizaciones`, `auditorias` | register, quote, audit, close | a quoted event has its quotation; the price audited is one its client chose; a choice stands |
| Agent builder (`src/api/routes/agents.py`, `dashboard/components/builder/`, `dashboard/lib/canvasUtils.ts`) | `agent_catalog`, `tasks`, the canvas, loops and polls of the page | save, run, poll, Run All, playground, gestures | a task says how its run ended; one answer for each message; Run All ends |
| Analytical chat (`src/api/routes/analytical_chat.py`, `src/crews/analytical_crew.py`, `src/tools/analytical.py`, the chat page) | the limiter of each worker; the page | `ask`, five queries, submit, abort | the limit holds and refuses only when reached; question and answer alternate; the page settles |
| MCP server and SSE (`src/mcp/`, `src/api/routes/mcp.py`) | connected clients | the gateways over HTTP and standard input, `broadcast` | only members act; errors have the codes they are named after |
| Scheduler (`src/scheduler/`) | `eventos`, prices, `last_health_status` | climate check, prices, health checks | one failure keeps no other from its turn |
| Connectors, vault, memory (`src/tools/service_connector.py`, `src/db/`) | secrets, integrations, memories | call a service, search, expire | no call without an active integration and its secret; the record is true |
| Other routes (`src/api/routes/chat.py`, `tools.py`, `tasks.py`, `flow_metrics.py`) | conversations | chat with the architect, list, count | every conversation comes to an end that its user sees |
| Command line (`src/cli/`) | the working tree, the project's documents, the server it talks to | doctors, suites, validators, publish, export, save, run, phase-close, sync | the exit code says what happened; a repeated repair changes nothing |

How they interact. A webhook or an MCP client creates a task and the flow runs
in a *thread* of some API worker's pool. The approval handlers are coroutines
on a worker's *event loop*, or run in an MCP server, which is a *process of its
own* for each client; they find the flow's class in that process' registry and
resume the flow from its snapshot. `execute_ticket` runs a flow *inside* its
request. An import or a deletion writes rows in the database and empties the
caches of *the worker that served it*, and of no other. The number of workers
is a deployment choice (`Makefile:73` starts four, `launch.sh` one unless `WORKERS` is set),
so each module says what holds for one worker and what for several.

What is hard: check-then-act across two requests (approvals, tickets, staffing);
a state written back after somebody else changed it (`persist_state`); one
operation made of four or five writes of which any can fail; a retry of an
insert; caches and limiters without a common owner; coroutines that keep their
turn between two requests, and threads that do not; late answers of what was
given up (timeouts of the pool, of the page, of a poll); one object wrapped by
several runs. The list with lines is in `PROJECT.json`, "hazards".

## The modules

| Module | Models | Proofs |
|---|---|---|
| `TaskLifecycle` | what `tasks.status` promises: created, runs, ends or waits, and a ruling is carried out (abstract) | |
| `FlowHitl` | one task: the thread that runs its flow, and the requests that decide on it | `FlowHitl_proofs` |
| `Tickets` | one ticket and the requests about it; the flow is seen from outside | `Tickets_proofs` |
| `Bundles` | a tenant's bundles, their rows, and each worker's caches | `Bundles_proofs` |
| `EventLog` | the rows of `domain_events` about one task, and the stores and `append_sync` calls that write them | `Timeline_proofs` |
| `Timeline` (extends `EventLog`) | the readers of that log: a client that pages, and the dashboard's hook | `Timeline_proofs` |
| `McpPool` | concurrent `get_tools` for one server | `McpCrews_proofs` |
| `McpCrews` (extends `McpPool`) | the agent runs that share and wrap the pool's tool | `McpCrews_proofs` |
| `Inventory` | stock, its stored procedures, the reserve and release tools | `Bartenders_proofs` |
| `Staffing` | `create_staffing_crew` and its table | `Bartenders_proofs` |
| `Escandallo` | the arithmetic of a quotation (functions) | `Bartenders_proofs` |
| `Eventos` (extends `Escandallo`) | the life of an event through the crews that write it | `Bartenders_proofs` |
| `WorkflowGraph` | the two searches for cycles (`RECURSIVE`, so TLC only) | |
| `Workflows` | definitions: made, stored, warmed up, looked up; the run of a template (a function); the search for cycles is its constant `Cyclic` | `Bundles_proofs` |
| `AgentRuns` | saving and running agents, `GET /tasks/{id}` | `Builder_proofs` |
| `Builder` (extends `AgentRuns`) | Run All and the playground over those routes | `Builder_proofs` |
| `Canvas` | the builder's canvas, gesture by gesture (functions) | |
| `Analytical` | the limiter of each worker, the handler's turns, the chat page | `Analytical_proofs` |
| `AnalyticalQueries` | intents, the five queries in Python and as SQL, the pipeline (functions) | |
| `Services` | architect conversations, limits, connector and health checks, scheduler, MCP gateways, memory, counts (functions) | |
| `Doctors`, `Suites`, `Validators`, `Commands`, `ProjectDocs` | the commands of `fap` (functions) | |
| `MC...` | instances for TLC: symmetry, definitions for constants; and, as named `ASSUME`s, what the modules of functions compute over small inputs | |

A module of *functions* has no state of its own: what it models reads, computes
and writes without a step of somebody else in between, so that an operation is
one operator from what it is given (and what fails) to what it answers and
leaves behind. Their properties are the named `ASSUME`s of `MCBuilder` (canvas),
`MCWorkflows` (runs of a template, searches for cycles, validation), `MCAnalytical` (queries and
pipeline), `MCCommands` (command line, documents) and `MCServices`; TLC
evaluates every one, over every input of the sets named beside it, whenever the
run of that module starts. Some of them state what a comment says, most say
exactly where the code departs from it; the comment above each tells which.

In `FlowHitl`, `Tickets`, `Bundles`, `EventLog` and `AgentRuns` a program counter names the *next database request* of a thread or handler. An
action is that request with what the code does in memory up to the next one; a
label per request is the coarsest grain that shows every interleaving the
database can. A request ends in one of these ways:

- `ok`: served, and the code goes on;
- `lost`: served, but the caller gets an exception;
- `refused`: not served, and the caller gets an exception;
- `again`: `execute_with_retry` (`src/db/session.py`) sends it once more after it
  was served, so an insert may be made twice.

Each fault counts against `MaxFaults`. A crash kills any set of threads or
handlers that could share a process; nothing in the code picks their work up.

### FlowHitl

`kind` is the class that runs (`base`: `BaseFlow` and what inherits its resume;
`multi`: `MultiCrewFlow`). `mem[t]` is `self.state.status` of thread `t`'s flow
object, which is *not* the row: a decider builds its own from the snapshot.
`task` is `tasks.status`; `snapshot` the row of `snapshots` with whether it has
the aggregate key by which `resume` looks for it (`persist_state` updates the
row and leaves the key; only `request_approval` writes it); `approvals` the
rows of `pending_approvals`; `events` the log. `verdict` is history.

The runner follows `execute`: insert the task, emit `flow.created`, persist, run
crews (`CrewStep` is a step with its persist and event; `CrewReturns`,
`CrewPauses`, `CrewRaises` are the outcomes), then either emit and persist the
completion, or `request_approval`'s snapshot, approval row, persist and event,
after which `BaseFlow.execute` persists once more. `Handled` is
`with_error_handling`: an exception goes to `fail_snap`, `fail_row`, `raised`. A
decider asks, checks for one pending row, marks it, looks up the class, loads
the snapshot, logs the decision, and runs `_on_approved` or `_on_rejected`.
`Deciders` come through a worker of `Workers` or through `"mcp"`. `MyTurn` is the
event loop: a worker's REST handler does not reach its check while another is
between check and the end of its turn. `Serial` restricts when a supervisor
answers (only when no thread of the task is at work); it is an assumption about
people, used in one run to say what *does* hold then.

Left out: contents of inputs, outputs, tokens and events; event sequence
numbers (the request for one can fail like any other); `approval_status`, which
is computed from `status`; `validate_input`, which fails before any write; the
`set_config` calls, whose failure is a refused request. Which threads share a
process is not fixed, so a crash may take any subset.

### Tickets

`ticket` is the row: status, the authors of the notes in it (a note is its
author), the linked task. `runs[c]` is the status of the task the execution `c`
made. Handlers are coroutines: with `OneWorker`, `Turn` keeps another one from
moving while a handler is at a label it reached without an await. The flow is
`FlowEnds`: it returns, pauses, fails with or without a text, or never starts.
`Supervise` is the outcome of a paused flow, which the ticket is never told. A
`PATCH` writes a status of `PatchStatuses`, replaces the notes, or both; `byHand` is
history, that the status there is was written by a `PATCH`.

### Bundles

A bundle is its position in `bundle_imports`; it ships one agent, one flow, one
skill, always with the same names, so that an import replaces the rows of the
one before. `imports[i].version` is the column, `imports[i].shipped` (history)
what the archive said. `rows[k]` is the bundle whose code the row holds and
`is_active`; `cache[w][k]` the bundle of the class worker `w` has loaded, 0 if
none. `import_bundle_atomic` is modelled as its last migration (`0029`) leaves
it. What an import does after its RPC beyond invalidation has no effect: it uses
`self.security_guard`, which `ImportService` does not have, and the exception is
swallowed (`src/services/import_service.py`). The flow's lookup is a handler on
the loop, the skill's a background thread (`OnLoop`).

Left out: the archive's checks (seen as a refusal), other writers of those rows,
flows written in Python, classes registered at import time, the file-system
fallback, and the naming of skills inside the archive.

### EventLog and Timeline

`log` is the table's rows in the order of their commits; a store numbers its
events from its own `counter` and sends its `queue` at `flush`, `append_sync`
asks for `MAX + 1` and inserts in two requests (`sync`, `number`). `pager` is a
client that follows `last_sequence`; the hook is `fetch`/`snapshot` (the request
and the answer React Query keeps), `channel` and `connection` (the subscription
with its errors, `closing`, `retries`), `loading` and `shown`. The shown list is a
set: every writer of it sorts by sequence. `Accounted` names each reason a
row may be missing: a tie or a lower number than `last_sequence`, inserted while
no channel was joined, or beyond the page.

### McpPool and McpCrews

One server of one organisation. A label of `pc` is an `await` of `get_tools`; an
adapter is entered by a thread that nothing stops, not even the timeout of the
call that waits for it. `rested` stands for the 60 s of the breaker.
`undisturbed` is history: no two calls overlapped, none timed out.
`McpCrews` wraps each call in the run of an agent: `chain` is what the tool's
function calls, `original` what each tracer found, `sees` the function the run's
agent took, `called` and `counted` the truth and what is reported.

### Inventory, Staffing, Eventos

`Inventory`: a stored procedure locks its row and is one step; a tool loops over
the lines of `order`, at line `at`, and its request may be refused or its answer
lost. `Staffing`: a crew reads who is available, chooses (`Teams`: the head first,
then by rating), then marks the chosen one at a time. `Eventos`: each crew function
is a chain of requests, and `crews` those functions that have their update of the
event left. No function looks at the event's status, and the flows that would order
them are not in the repository: any may be called for any registered event, again,
and while others are between two requests; a failure leaves what went before. So an
event can be closed before it is audited, and quoted again after it was. That a
client chooses an option is external. `Escandallo` gives the amounts, with tariffs as
constants.

### Workflows

`row` is `workflow_templates` by tenant and name, `flows` the definitions that
`FlowRegistry._flows` has bound for a tenant. The process serves a handler as one
action, since none awaits between its requests; imports of several workers are the
subject of `Bundles`, the requests of a run that of `FlowHitl`. `Warmup` is a restart:
the lifespan calls `warmup_all_active_tenants`, which looks every active flow up, and
what fails is left out. `Lookup` is `FlowRegistry.get` for a tenant whose flow is not
in memory, as a decision on an approval reaches it. The webhook,
`POST /flows/{type}/run`, the execution of a ticket and the MCP tools first ask `has()`,
which knows a tenant's flow by its key in memory only, so that they load nothing; the
model, which allows a lookup at any time, is wider than the code there. `stale` is history:
tenants whose flows the code knows to be outdated.

What a run makes of a template is the function `RunCrew`, not a part of the state: the
classes that lookups bind have an empty template, and `load_dynamic_flows_from_db`,
which would register others, is called by nothing. A template with steps is run by
`fap run` only, in a process without a registry of others. `MCWorkflows` compares
`RunCrew` with what it should be for lists of three steps, any of them alike or without
an agent, up to two rules of every operator, and every answer. Nothing in the code
keeps a definition from naming two steps alike, so neither does the model.
`Cyclic(deps)` is the answer of `no_circular_dependencies`; `MCWorkflows` gives it
`WorkflowGraph`'s search.

### AgentRuns, Builder, Canvas

A run of an agent is a row of `tasks` and a background job (`jobs`) that marks it,
runs the crew and files the outcome, each request served, refused, or served
without an answer; a process that ends takes its jobs along. `loops` are the Run
Alls, also those of a page that was left; `shown` and `play` what the mounted page
knows. A message of the playground is sent by a click or by Enter, which does not look
at `isPending`: `flying` are the tasks of POSTs whose answers are on their way, and
`failing` counts those that failed. What the route does is in the step of the click
(`Send`), since the page knows nothing of the task before the answer is here
(`Arrive`), where it takes the place of one that may be polled already. `Canvas` models
every handler of the canvas and what is saved of it.

### Analytical

`kept` is `_rate_limit_store` of each worker, `accepted` (history) all it let in
since it started. A request passes up to three turns (`Ask`, `Classified`,
`Narrated`), the model may hang, a page gives up (`Abort`) and its handler goes on.

## Runs

| Run | Bounds | Shows |
|---|---|---|
| `hitl_faults` | 2 deciders, 2 workers and MCP, 2 steps, 1 fault | `ApprovalGate`, `DecisionLoggedFirst`, `ApprovalHasSnapshot`, `OneDecisionPerWorker`, `LateDecisionRefused` under every interleaving, fault and crash |
| `hitl_serial` | 2 deciders, no faults, `Serial`, fair | at rest the tables agree; `tasks` implements `TaskLifecycle`, liveness included |
| `tickets_worker` | 3 requests, 1 worker, 1 fault, `PATCH` to three statuses, `in_progress` among them, fair | `OneExecution`, `NotesKept`, `LeavesProgress` |
| `bundles` | 4 requests or lookups, 2 workers, 1 fault | `DeletedInactive`, `DeletedFlowUnloaded`, `FlowCurrent` |
| `timeline` | a store and an `append_sync`, 2 events each, pages of 1, 1 retry, 1 fault | `StoreOrdered`, `PagerMissesTiesOnly`, `Accounted`, `ShownKept` |
| `pool` | 2 runs with a call each, 2 attempts, a threshold of 2 | `OneAdapterAlone`, `TracedRight`, `CallsEnd`, `CircuitCloses` |
| `inventory` | 2 events, 2 items, 3 calls, 2 faults | `NoOversell`, `ReportsExact`, `Backed` |
| `staffing` | 2 crews, 3 bartenders, 1 fault | `TeamMarked`, `OneTeamEachAlone`, `BestTeam` |
| `eventos` | 2 events, 3 quotations, 2 faults, any order and overlap of the functions | `QuoteStored`, `AuditedAtChoice`, `ChoiceStands` |
| `workflows` | 2 tenants, 2 names, 2 definitions, 2 bundles waiting, 2 faults, any restarts | `CacheCurrent`; `RunCrew` over templates of three steps, the searches for cycles over every graph of three nodes |
| `builder` | 1 agent, 2 runs, 2 polls, 2 messages that may overlap, 1 fault | `TaskTruth`, `OneAnswerEach`, `RunAllEnds`, `RunsSettle`; the canvas over every canvas of three nodes |
| `assistant` | 2 workers, 3 questions, a limit of 2 in 2 units of time, 1 restart | `WindowKept`, `AnsweredInTurn`, `RefusedWhenFull`, `PageSettles`; `MCAnalytical`, `MCCommands`, `MCServices` |

The type invariants of all modules with states (`TypeOK`, `LogTypeOK`, `AgentTypeOK`, `StaffTypeOK`, `EventosTypeOK`,
`WorkflowTypeOK`) are proved, not run.

**What the code does not keep.** These definitions state what a doc, a comment, an
error message or a test says, and TLC violates them; they are not among the runs.
`PROJECT.json`, "findings", quotes the sentence and tells the story. Four have a
configuration of their own; for the others, add the property to the configuration
named (with the change in parentheses).

| Property | Module | How | Story |
|---|---|---|---|
| `ApprovedEndsCompleted` | `FlowHitl` | `hitl_race.cfg` | an early approval is overwritten by the runner's persist |
| `HaltedFlowStays` | `FlowHitl` | `hitl_halt.cfg` | a flow halted because `approval.requested` could not be logged is approved and completes |
| `OneDecision` | `FlowHitl` | `hitl_faults.cfg` (no faults) | two decisions on one approval, in two workers, are accepted |
| `NotesKept` | `Tickets` | `tickets_worker.cfg` (`Spec`, `OneWorker = FALSE`) | a note is lost between two workers |
| `NoneStranded` | `Tickets` | `tickets_worker.cfg` | a `PATCH` to in_progress strands a ticket without any fault |
| `FailedFlowBlocks` | `Tickets` | `tickets_worker.cfg` (`Spec`) | a failed flow leaves its ticket done |
| `NoDowngrade` | `Bundles` | `bundles.cfg` (`Versions = {1, 2}`, no faults) | 1.0.0 is accepted after 2.0.0 |
| `DeletedSkillUnloaded` | `Bundles` | `bundles.cfg` (no faults) | a deleted skill is loaded again |
| `HandOff` | `Timeline` | `timeline.cfg` | a row between snapshot and subscription is dropped |
| `OneAdapter`, `HalfOpenOne` | `McpPool` | `pool.cfg` | two calls keep two adapters; the half-open circuit lets several through |
| `CountsExact` | `McpCrews` | `crews_counts.cfg` | runs that share a tool count each other's calls |
| `OneTeamEach` | `Staffing` | `staffing.cfg` | two crews assign the same bartender |
| `ClosedAudited`, `SoldAsLinked` | `Eventos` | `eventos.cfg` | an event is closed without an audit; an audited one is quoted again and names the new quotation |
| `ArchivedNotServed` | `Workflows` | `workflows.cfg` | an archived workflow is still served |
| `ResultsTrue` | `Builder` | `builder_results.cfg` | an agent that completed is shown as a failure |
| `NoneDropped` | `Builder` | `builder.cfg` | a second message's task takes the place of the first, whose answer is never shown |

**Why the bounds are enough.** Every race in `FlowHitl` is between the runner and a
decider, or two deciders; the code has no third role. Two steps are the most a
`MultiCrewFlow` has, and further steps of a template repeat the same three
requests. One fault reaches every error path but a failure while `FAILED` is
being persisted, which ends the thread as the first one would have; the theorems
hold for any number of faults. For tickets, two executions race and a
third request patches or deletes. For bundles, four callers give an import, its
deletion, another import and a lookup, the shortest story in which a lookup can
bring back what was deleted; `Versions = {0}` with `Default = 1` in that run
makes the version guard accept only forced imports after the first, and both
branches occur. Pages of one row and two events of each writer give ties on
both sides of a page and a page that is not the last. Two calls with two attempts
each overlap in every pair of awaits, and a threshold of two opens the circuit
within a call or between two. Two events over two items, and two crews over three
bartenders, are the least for which a reservation can fail in the middle and
teams can overlap without being equal. A limit of two in a window of two lets a
question be kept, expire and be refused; the third question is the first over the
limit, and two workers with a restart are the ways to go round it. Two
quotations of one event and one of the other, or two linked in either order, are what
quoting again needs; two faults reach an insert and the update after it. Two bundles of
one name waiting, or of both, meet every order of import, lost answer, archive, lookup and
restart. Two messages of a playground overlap and
contend for its one task, or one of them fails; the theorem is for any number.

**Assumed of the libraries.** `maybe_single()` on no row answers an object with
`data = None`, as the handlers expect; Supabase's realtime delivers in the order of
commits while a channel is joined; React applies updates in the order of their
calls; a thread of an executor cannot be cancelled.

### Fairness

`FlowHitl!FairSpec` is weak fairness of the runner and of each decider's
handler: threads of a pool and coroutines of a loop are scheduled again.
Nobody is obliged to *ask* (`Ask` is not fair), so a task may wait for ever. In
`Tickets`, weak fairness of each handler also says that the flow inside the
request ends, which `execute_ticket` assumes (it sets no timeout).
`LeavesProgress` excuses runs with a fault, since nothing retries a failed update, and a
ticket whose status was set to in_progress by hand (`byHand`): no execution is behind it,
and execute refuses it.
In `McpCrews`, each call's own coroutine goes on (every wait has a timeout) and the
60 s pass (`Rest`); neither threads nor servers are fair, and nobody is obliged to
call. In `Builder`, jobs and the turns of each Run All are fair: they are awaited or
on a timer. In `Analytical` only the page's `Abort` is:
`AbortSignal.timeout` fires; no handler is obliged to answer.

### Mutants

Every checked property has a mutant: the operators named `X_Something` before
`X` are plausible slips (a paused flow not returned from, a lost key in the
snapshot, a swallowed failure of the log, notes replaced, a popped cache, a tool
wrapped once for all, a window compared the wrong way). They are not part of any
specification.

## Proofs

All for every value of the constants under the assumptions each module names
(`RunnerAssumption`, `BoundAssumption`, ...), which only say that identities are
distinct and bounds natural numbers.

**FlowHitl_proofs.** `TypeCorrect` goes through one lemma per kind of request
(`RequestTyped`, `WriteSnapshotTyped`, ...) and one per group of actions;
`RequestsMade` (a decider past idle has a request) is its strengthening.
`GateCorrect` (`ApprovalGate`) and `SnapshotCorrect` (`ApprovalHasSnapshot`) rest
on the inductive invariant `GateInv`. `ApprovalGate` alone is not inductive: one
must know that the *runner* cannot hold a result once it has asked
(`RunnerInv`: `mem = "completed"` only at the done labels, and none of these
after an approval row exists; a flow that has not yet asked has shown nothing),
and that a *decider* on an accept path has itself ruled "approved"
(`DeciderInv`, label by label). `RunFlowGate` and `DecideGate` treat the
actions of one thread; `GateInductive` adds that the conjuncts about the other
threads are undisturbed, since `verdict` of another decider and `Paused` only grow.

`OneDecisionCorrect` and `LateRefusedCorrect` rest on `RuledInv`: while the task has
one approval row, a decision taken shows in that row, and of each worker at most one
request is past the check without having written. The event loop gives the second
half (`SameWorker`), the check's filter on `pending` the first (`CheckFindsPending`).
`DecisionLoggedCorrect` rests on `LoggedInv`: who is on an accept or a reject path
has its decision in the log, and before the row exists nothing a decision leads to
is there. `RunFlowLogs` and `DecideLogs` sort the actions by what they log;
`LogGrows` and `OrderGrows` say what one more event does to the log.

`TablesAgreeCorrect` and `LifecycleKeptCorrect` are about the mode of `hitl_serial`
(`OneAtATime`: `Serial`, and no faults), without its bounds on deciders and steps.
`StoryInv` tells, label by label, what the tables, the log and the memory of the one
thread at work are (`RunnerStory`, `DeciderStory`), and what they are when none is
(`RestStory`). Each step lemma shows where the story goes on and, with it, that the
step is one of `TaskLifecycle` or leaves the task and the ruling alone (`Lives`):
agreement at rest and refinement are one induction.

**Tickets_proofs.** `OneExecutionCorrect`, from `ExecutionInv`: with one worker and
no status patched, an execution past `progress` keeps the row `in_progress` (or
deleted), and no other is in flight *or about to write its progress*. The last
clause is where the event loop enters: between the select and the update nobody
else moves (`TurnInv`). `NotesKeptOnOneWorker` is of the same kind: `ReadInv`
says that what a handler holds of the row is what the row still holds when the
handler writes its notes (`HandleNotes`, `NotesStep`). `TypeCorrect` is its base.

**Bundles_proofs.** `TypeCorrect`, `DeletedInactiveCorrect` and
`DeletedFlowUnloadedCorrect`, from `DeleteInv`: what a deletion has updated so far
stays inactive (`DeletionInv`; later imports have larger numbers, and
`import_bundle_atomic` gives the row to the new bundle), and no handler of the
deleting worker still holds the deleted flow in hand (`UnloadInv`; a lookup that
read the row before would have to be in its turn).
`FlowCurrentCorrect` adds `CurrentInv`: as long as every import and deletion is one
worker's, none failed and none is between its write and the invalidation
(`Caught`), neither the cache nor a lookup about to fill it holds another flow than
the row's.

The same module proves `Workflows`, the other writer of what the registry serves:
`WorkflowTypeCorrect` and `CacheAlwaysCurrent` (`CacheCurrent`). `CacheCurrent` is
inductive with the types: whatever writes a row either unbinds the tenant's flows or makes
the tenant `stale`, a lookup binds what it has just read, and so does the warm-up, which
starts from nothing bound.

**Timeline_proofs.** For any stores, `append_sync` calls, page size and retries.
`StoresInOrder` (`StoreOrdered`) from `OrderInv`: a store's queue holds consecutive
numbers up to its counter (`QueueInv`), all below are in the table, and each row has
those with lower numbers before it; a flush that was served
without an answer keeps its queue, and the ids, which are unique, refuse it the second
time.
`PagerSees` (`PagerMissesTiesOnly`) needs `NumberedInv` (no row is numbered 0, from
where a client starts) and `PagerInv` (of the rows there were at the beginning, those
passed are seen or tie with one seen). `Accounting` (`Accounted`) rests on `HookInv`:
what an answer left out lies beyond its page (`AnswerInv`), and what a joined channel
dropped is not above the snapshot's last number (`ChannelInv`). `ShownStays`
(`ShownKept`) follows from each handler by itself. What every step does to
the log is one lemma (`LogStep`: rows stay where they are), so that the readers'
lemmas see the writers through it alone.

**Bartenders_proofs.** Three modules that share no state; one module holds their
proofs.
*Inventory*: `TypeCorrect` and `NeverOversold` together are inductive (`IInv`): the
procedure's comparison of what is free with what is asked is the only step that adds
to `reserved`, and both are functions of the same row. `ReportsTrue` (`ReportsExact`)
and `ReportsBacked` (`Backed`) compare a number in a row with a sum over the reports of
all events. The model counts units (`Cardinality` of `Units`), and the sum needs no
induction then: a line more is a disjoint product more (`LineUnits`), fewer lines are a
subset (`FewerUnits`). `BookInv` says which lines a call lists, label by label:
without it a line could be listed twice, or freed while not listed.
*Staffing*: `CreatedTeamMarked` from `MarkedInv` (of a chosen team only those still to
be marked are available; a crew that fails stops in the middle and creates nothing).
`NobodyTwice` from `AloneInv`: as long as no crew has read while another one was
marking, of two teams one was read after the other was marked. `BestChosen`
(`BestTeam`) is about the choice alone: `NeededBounds` is the ceiling, `PrefixSize` a
prefix of an order, and `TeamsBest` puts the head in front of them.
*Eventos*: `AlwaysStored` (`QuoteStored`), `PricedAtChoice` (`AuditedAtChoice`) and
`ChoiceAlwaysStands` (`ChoiceStands`) from `EventosIInv`: the types and `RowsInv`.
`EventInv` says what a row has by its status, `CrewInv` what a function between two
requests still holds (who is about to link has its quotation stored and not yet chosen
from; who is about to execute has the audit), and `ChoiceInv` that an event still to be
confirmed names a quotation nobody has chosen from and no function is about to link
again: this, and not any guard on the status, keeps a choice from being made twice.
`PricedBy` carries the price of an audit along the rows it was read from. `OptionsAscend` and `MarginKept` are
arithmetic: with the code's three margins and its rounding, the options ascend for
every cost, and none is critical that cost what was computed.

**McpCrews_proofs.** Of the pool: `OneAdapterKept` from `CalmInv`: while calls neither
overlap nor time out, the live adapters are at most the cached one and that of the call
under way, and a call that connects has found the cached one dead. Every step of the runs is a step of the pool or leaves it
alone (`StepOfPool`), which carries the pool's invariant over: `OneAdapterOfCrews`.
`CrewTraced` is the conjunction of the two properties of the tracer. It rests on
`CrewInv`: a wrapper is found only on its own run's tool, never in what that run
itself found (`OwnTool`, `OwnFound`, `OwnSeen`), so that of the wrappers a lone run
sees exactly one counts for it, and nothing another run does counts for it at all;
and on `BareInv`, that while nothing failed or shared, a tool carries the wrapper
of the run that has it or none. Neither is inductive without the pool's part: a
run's result must stay what it was once returned (`PoolKeeps`).

**Analytical_proofs.** `LimitKept` from `Limited`: of any span of a window, the
accepted questions are still in the worker's store when the last of them is
counted, so that there are fewer than the limit before it. This needs the
monotone clock, and that a refused question is not stored. `RefusedRightly` is the
other direction: what is stored was accepted. Both need `SentForKept`, that a
request is for an organisation as soon as it is sent. `InTurnAlways` (`AnsweredInTurn`)
rests on `TurnInv`: a page with nothing pending has an even number of messages, one that
waits an odd number, the last of which is the question it waits for (`PageInv`), so that
whatever arrives late finds no place (`AppendInTurn`).

**Builder_proofs.** For any roles, loops, polls, tasks and faults. `TaskTruthAlways`
(`TaskTruth`) from `JobInv`: `Fits` says of each stage of a job what its row may be, and
with how many failed requests; a result is stored only after the crew ended, and the
failure that may be filed over it needs a fault. `AnsweredOnce` (`OneAnswerEach`) from
`PlayInv`, whose `Counted` says that the answers shown and those still owed (`Owed`: the
POSTs on their way, the failed ones, and the task that is polled) are no more than the
messages, that no task of these was answered, and that none is both on its way and polled.
`SendCounts`, `ArriveCounts` and `AnswerCounts` say what each step does to the count: a
task that takes another's place only lowers what is owed. `LoopInv` (who is polled
heads the queue) is needed for the types of `Advance`.

Every invariant and action property of a passing run is proved, except that
`ImplementsLifecycle` is proved without its fairness.

**Assumed of the constants.** That identities are distinct where the code's are
(`Stores` and `Syncs`, `Deciders` and the runner; no request is called `"none"`; the
value for no row is not a row: `Null`, `NoRow`), that bounds and quantities are natural
numbers, that events with reservations, bartenders and requests are finite sets, that
an event has guests, and that products cost more than nothing. Bounds on faults,
calls and tasks are any number. `Cyclic` is any operator: what is proved of
`Workflows` holds whatever the validator lets through, and so `WorkflowGraph`'s
recursive search is not in the way.

**What is only model-checked.** Liveness (`LeavesProgress`, `CallsEnd`, `CircuitCloses`,
`RunAllEnds`, `RunsSettle`, `PageSettles`, the fairness of `TaskLifecycle`) and
`ENABLED`, which are beyond the proof system; and the modules of functions, whose named
`ASSUME`s TLC evaluates over small inputs. Those that search graphs (`WorkflowGraph`,
and `Validators` over it) are recursive: what they compute for every input would take an
induction over data. The others are not out of reach, but not proved yet.

## Plan

Written, in this order: `FlowHitl` with `TaskLifecycle` (the core), `Tickets`,
`Bundles` with their proofs; then `EventLog` and `Timeline`, `McpPool` and
`McpCrews`, `Inventory`, `Staffing`, `Eventos`, `Workflows`, `AgentRuns` with `Builder`
and `Canvas`, `Analytical`, and the functions of the command line and the services;
then the proofs of all of them that have states. To come:

1. Hazards that still have no property (their notes say why): a retried insert
   leaves two pending rows; an import of a deleted bundle serves again. What *does*
   hold around each of them deserves a theorem.
2. Refinements: that `Builder`'s tasks, like those of `FlowHitl`, implement an abstract
   life of a task; that `EventLog` with one store implements a log without gaps.
3. Theorems on the functions that do not recurse: `Escandallo`'s amounts, the canvas,
   the limits and counts of `Services`.

## Not modelled

- Contents: what a language model answers, texts, tokens, embeddings, prices of
  drinks. To every module a nondeterministic outcome or a small number.
- Authentication: signatures of tokens, row level security, the dashboard's
  middleware. Membership is in `Services`.
- Framing of MCP over standard input, the queues of connected clients, the
  sanitising of outputs.
- Routes that only list, and edits of a single row without a reader in the models
  (integrations, templates, `PATCH /workflows`, `PATCH` of a conversation).
- The rest of the dashboard: presentation and forms.
- Formats of files, colours, progress and prompts of the command line, and `serve`.
- `MCPPool.close`, which no code calls while the pool is in use.
