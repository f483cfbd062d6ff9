------------------------------ MODULE FlowHitl ------------------------------
(***************************************************************************)
(* One task of the orchestrator, from the request that creates it to its   *)
(* end: the thread that runs the flow (BaseFlow.execute or                 *)
(* MultiCrewFlow.execute) and the supervisors' requests that decide its    *)
(* approval (POST /approvals/{task_id}, or the MCP tools approve_task and  *)
(* reject_task) and resume it.                                             *)
(*                                                                         *)
(* Background flows run in threads of an API worker's thread pool, the API *)
(* has one worker or several, and each MCP client has a server process of  *)
(* its own, so that these interleave at every database request; only the   *)
(* REST handlers of one worker take turns on its event loop.  A label of   *)
(* pc is the next request of a thread; what happens in memory between two  *)
(* requests belongs to the first.                                          *)
(*                                                                         *)
(* Left out: the contents of inputs, outputs and events; event sequence    *)
(* numbers; tasks.approval_status, which every write sets from status.     *)
(***************************************************************************)
EXTENDS Naturals, Sequences, FiniteSets

CONSTANTS
    Runner,      \* the thread that executes the flow
    Deciders,    \* the requests that decide on it
    Workers,     \* the API workers that serve them, unless an MCP server does
    MaxSteps,    \* bound: steps of one flow (a MultiCrewFlow has two)
    MaxFaults,   \* bound: failed requests, crashes and unknown flow types
    Serial       \* TRUE: a decision arrives only when no thread is at work

ASSUME RunnerAssumption == Runner \notin Deciders
ASSUME BoundAssumption  == MaxSteps \in Nat /\ MaxFaults \in Nat
ASSUME WorkerAssumption == {"mcp", "none"} \intersect Workers = {}
ASSUME ModeAssumption   == Serial \in BOOLEAN

VARIABLES
    kind,        \* which class runs: "base" or "multi"
    pc,          \* the next database request of each thread
    mem,         \* self.state.status of each thread's flow object
    request,     \* what each decider asks for, and through which interface
    found,       \* the row of pending_approvals each decider has read
    steps,       \* steps the flow has run
    task,        \* tasks.status
    snapshot,    \* the row of snapshots: status, and its aggregate key is set
    approvals,   \* the statuses of the task's rows in pending_approvals
    events,      \* the types of the task's rows in domain_events
    verdict,     \* history: what each decider wrote into pending_approvals
    faults       \* faults that happened

rows == <<task, snapshot, approvals, events>>
vars == <<kind, pc, mem, request, found, steps, rows, verdict, faults>>

Threads == Deciders \union {Runner}
Status  == {"none", "pending", "running", "awaiting_approval", "completed", "failed"}
Rulings == {"approved", "rejected"}

Requests  == [via : Workers \union {"mcp"}, decision : Rulings]
NoRequest == [via |-> "none", decision |-> "none"]

EventTypes == {"flow.created", "step.completed", "approval.requested",
               "approval.approved", "approval.rejected", "flow.resumed",
               "flow.completed", "flow.tokens_recorded", "flow.rejected"}

PauseLabels  == {"pause_v2", "pause_insert", "pause_snap", "pause_row",
                 "pause_event", "repause_snap", "repause_row"}
DoneLabels   == {"done_event", "tokens_event", "done_snap", "done_row"}
RunnerLabels == {"insert", "trigger_event", "created_event", "start_snap", "start_row", "crew",
                 "step_snap", "step_row", "step_event", "fail_snap", "fail_row"}
                \union PauseLabels \union DoneLabels
AcceptLabels == {"accept_snap", "accept_row", "accept_event", "resume_snap",
                 "resume_row", "resumed_event", "final_event", "final_snap",
                 "final_row"}
RejectLabels == {"reject_snap", "reject_row", "reject_event"}
DeciderLabels == {"idle", "check", "mark", "lookup", "load", "verdict_event"}
                 \union AcceptLabels \union RejectLabels
EndLabels    == {"returned", "raised", "refused", "dead"}
Labels       == RunnerLabels \union DeciderLabels \union EndLabels

TypeOK ==
    /\ kind \in {"base", "multi"}
    /\ pc \in [Threads -> Labels]
    /\ mem \in [Threads -> Status]
    /\ request \in [Deciders -> Requests \union {NoRequest}]
    /\ found \in [Deciders -> Nat]
    /\ steps \in 0..MaxSteps
    /\ task \in Status
    /\ snapshot \in [status : Status, aggregate : BOOLEAN]
    /\ approvals \in Seq({"pending"} \union Rulings)
    /\ events \in Seq(EventTypes)
    /\ verdict \in [Deciders -> Rulings \union {"none"}]
    /\ faults \in 0..MaxFaults

Init ==
    /\ kind \in {"base", "multi"}
    /\ pc = [t \in Threads |-> IF t = Runner THEN "insert" ELSE "idle"]
    /\ mem = [t \in Threads |-> "none"]
    /\ request = [d \in Deciders |-> NoRequest]
    /\ found = [d \in Deciders |-> 0]
    /\ steps = 0
    /\ task = "none"
    /\ snapshot = [status |-> "none", aggregate |-> FALSE]
    /\ approvals = << >>
    /\ events = << >>
    /\ verdict = [d \in Deciders |-> "none"]
    /\ faults = 0

-----------------------------------------------------------------------------
\* Database requests.

\* What becomes of a request: it is served; it is served but the answer never
\* comes; or it is not served.  execute_with_retry also sends it again when the
\* connection breaks, and the first one may have been served.
Replies == {"ok", "lost", "refused"}
Retried == Replies \union {"again"}

Served(reply) == reply # "refused"

\* Where an exception takes a thread.  with_error_handling marks the state of
\* execute as failed and persists it, except that a failure to persist that is
\* swallowed, and that there is no state to fail before the task row exists.
\* The trigger's create_task_record and resume have no such handler.
Handled(t) ==
    /\ t = Runner
    /\ pc[t] \notin {"insert", "trigger_event", "fail_snap", "fail_row"}

Fault == faults < MaxFaults /\ faults' = faults + 1

\* Thread t's request at label `from` is answered: it goes on at `to` with
\* status m in memory, or sends it again, or an exception is raised.
Request(t, from, to, m, reply) ==
    /\ pc[t] = from
    /\ \/ /\ reply = "ok"
          /\ pc' = [pc EXCEPT ![t] = to]
          /\ mem' = [mem EXCEPT ![t] = m]
          /\ UNCHANGED faults
       \/ /\ reply = "again"
          /\ Fault
          /\ UNCHANGED <<pc, mem>>
       \/ /\ reply \notin {"ok", "again"}
          /\ pc' = [pc EXCEPT ![t] = IF Handled(t) THEN "fail_snap" ELSE "raised"]
          /\ mem' = [mem EXCEPT ![t] = IF Handled(t) THEN "failed" ELSE @]
          /\ Fault
    /\ UNCHANGED <<kind, request>>

\* persist_state, first half: the upsert into snapshots.
WriteSnapshot(t, from, to) ==
    \E reply \in Retried :
        /\ Request(t, from, to, mem[t], reply)
        /\ snapshot' = IF Served(reply) THEN [snapshot EXCEPT !.status = mem[t]]
                                        ELSE snapshot
        /\ UNCHANGED <<found, steps, task, approvals, events, verdict>>

\* persist_state, second half: the update of tasks.  m is the status the code
\* goes on with in memory.
WriteTask(t, from, to, m) ==
    \E reply \in Retried :
        /\ Request(t, from, to, m, reply)
        /\ task' = IF Served(reply) THEN mem[t] ELSE task
        /\ UNCHANGED <<found, steps, snapshot, approvals, events, verdict>>

\* One event is inserted into the log.
Log(t, from, to, m, type, replies) ==
    \E reply \in replies :
        /\ Request(t, from, to, m, reply)
        /\ events' = IF Served(reply) THEN Append(events, type) ELSE events
        /\ UNCHANGED <<found, steps, task, snapshot, approvals, verdict>>

\* emit_event queues the event and flushes the queue, with no retry; append_sync
\* writes it itself, with retries.
Emit(t, from, to, m, type)       == Log(t, from, to, m, type, Replies)
AppendSync(t, from, to, m, type) == Log(t, from, to, m, type, Retried)

-----------------------------------------------------------------------------
\* The thread that executes the flow.

\* create_task_record: insert the row, build the state, emit flow.created.  The
\* webhook's trigger calls it by itself, before there is a background thread.
InsertTask ==
    \E reply \in Replies, to \in {"trigger_event", "created_event"} :
        /\ Request(Runner, "insert", to, "pending", reply)
        /\ task' = IF Served(reply) THEN "pending" ELSE task
        /\ UNCHANGED <<found, steps, snapshot, approvals, events, verdict>>

\* execute then sets RUNNING in memory.
EmitCreated ==
    \E from \in {"trigger_event", "created_event"} :
        Emit(Runner, from, "start_snap", "running", "flow.created")

StartSnapshot == WriteSnapshot(Runner, "start_snap", "start_row")
StartTask     == WriteTask(Runner, "start_row", "crew", "running")

\* A crew works outside the database; what it decides is nondeterministic.
CrewMoves(to, m) ==
    /\ pc[Runner] = "crew"
    /\ pc' = [pc EXCEPT ![Runner] = to]
    /\ mem' = [mem EXCEPT ![Runner] = m]
    /\ UNCHANGED <<kind, request, found, rows, verdict, faults>>

\* A step (a crew of MultiCrewFlow, a template step of DynamicWorkflow) ended.
CrewStep ==
    /\ steps < MaxSteps
    /\ kind = "multi" => steps < 2
    /\ steps' = steps + 1
    /\ CrewMoves("step_snap", "running")

StepSnapshot == WriteSnapshot(Runner, "step_snap", "step_row")
StepTask     == WriteTask(Runner, "step_row", "step_event", "running")
EmitStep     == Emit(Runner, "step_event", "crew", "running", "step.completed")

\* The flow has its result: state.complete() precedes any write.  A
\* MultiCrewFlow has it only after its two crews.
CrewReturns ==
    /\ kind = "multi" => steps = 2
    /\ CrewMoves("done_event", "completed")
    /\ UNCHANGED steps

\* An approval rule fires: request_approval sets AWAITING_APPROVAL.
CrewPauses ==
    /\ kind = "multi" => steps = 2
    /\ CrewMoves("pause_v2", "awaiting_approval")
    /\ UNCHANGED steps

CrewRaises ==
    /\ CrewMoves("fail_snap", "failed")
    /\ UNCHANGED steps

\* execute emits flow.completed, and flow.tokens_recorded when there are any,
\* before it persists; so does MultiCrewFlow._finalise, without the tokens.
EmitCompleted ==
    \E to \in {"done_snap", "tokens_event"} :
        /\ kind = "multi" => to = "done_snap"
        /\ Emit(Runner, "done_event", to, "completed", "flow.completed")

EmitTokens == Emit(Runner, "tokens_event", "done_snap", "completed", "flow.tokens_recorded")

DoneSnapshot == WriteSnapshot(Runner, "done_snap", "done_row")
DoneTask     == WriteTask(Runner, "done_row", "returned", "completed")

\* Variants: the status the docstring of request_approval names, and the
\* snapshot of persist_state, which has no aggregate key.
PauseSnapshotV2_DocStatus ==
    /\ Request(Runner, "pause_v2", "pause_insert", "awaiting_approval", "ok")
    /\ snapshot' = [status |-> "pending_approval", aggregate |-> TRUE]
    /\ UNCHANGED <<found, steps, task, approvals, events, verdict>>

PauseSnapshotV2_Phase1 == WriteSnapshot(Runner, "pause_v2", "pause_insert")

\* request_approval: a snapshot with the aggregate key (the sequence number it
\* asks for first only fills its version) ...
PauseSnapshotV2 ==
    \E reply \in Retried :
        /\ Request(Runner, "pause_v2", "pause_insert", "awaiting_approval", reply)
        /\ snapshot' = IF Served(reply)
                         THEN [status |-> "awaiting_approval", aggregate |-> TRUE]
                         ELSE snapshot
        /\ UNCHANGED <<found, steps, task, approvals, events, verdict>>

\* ... then the row a supervisor decides on, which a retry inserts once more ...
PauseInsert ==
    \E reply \in Retried :
        /\ Request(Runner, "pause_insert", "pause_snap", "awaiting_approval", reply)
        /\ approvals' = IF Served(reply) THEN Append(approvals, "pending")
                                         ELSE approvals
        /\ UNCHANGED <<found, steps, task, snapshot, events, verdict>>

\* Variant: execute does not look whether the flow was paused.
PauseEvent_NoReturn ==
    AppendSync(Runner, "pause_event", "done_event", "completed", "approval.requested")

\* ... then persist_state and the blocking event.
PauseSnapshot == WriteSnapshot(Runner, "pause_snap", "pause_row")
PauseTask     == WriteTask(Runner, "pause_row", "pause_event", "awaiting_approval")
PauseEvent    == AppendSync(Runner, "pause_event",
                            IF kind = "base" THEN "repause_snap" ELSE "returned",
                            "awaiting_approval", "approval.requested")

\* BaseFlow.execute sees AWAITING_APPROVAL, persists once more and returns.
RepauseSnapshot == WriteSnapshot(Runner, "repause_snap", "repause_row")
RepauseTask     == WriteTask(Runner, "repause_row", "returned", "awaiting_approval")

\* with_error_handling persists FAILED and raises again.
FailSnapshot == WriteSnapshot(Runner, "fail_snap", "fail_row")
FailTask     == WriteTask(Runner, "fail_row", "raised", "failed")

RunFlow ==
    \/ InsertTask \/ EmitCreated \/ StartSnapshot \/ StartTask
    \/ CrewStep \/ StepSnapshot \/ StepTask \/ EmitStep
    \/ CrewReturns \/ CrewPauses \/ CrewRaises
    \/ EmitCompleted \/ EmitTokens \/ DoneSnapshot \/ DoneTask
    \/ PauseSnapshotV2 \/ PauseInsert \/ PauseSnapshot \/ PauseTask \/ PauseEvent
    \/ RepauseSnapshot \/ RepauseTask \/ FailSnapshot \/ FailTask

-----------------------------------------------------------------------------
\* A supervisor's request.

AtWork(t) == pc[t] \notin EndLabels \union {"idle"}

\* The supervisor sends the request.
Ask(d) ==
    /\ pc[d] = "idle"
    /\ Serial => \A t \in Threads : ~ AtWork(t)
    /\ pc' = [pc EXCEPT ![d] = "check"]
    /\ \E r \in Requests : request' = [request EXCEPT ![d] = r]
    /\ UNCHANGED <<kind, mem, found, steps, rows, verdict, faults>>

\* Variant: the select does not filter on the status.
Pending_AnyStatus == DOMAIN approvals

Pending == {i \in DOMAIN approvals : approvals[i] = "pending"}

\* Variant: the handler awaits its database requests.
MyTurn_Awaits(d) == TRUE

\* Nothing is awaited in process_approval between its select and its response:
\* the next REST decision on the same event loop starts after that.
MyTurn(d) ==
    request[d].via # "mcp" =>
        \A e \in Deciders : request[e].via = request[d].via => pc[e] \notin {"mark", "lookup"}

\* The select with maybe_single: anything but one pending row is an error.
CheckPending(d) ==
    /\ MyTurn(d)
    /\ \E reply \in {"ok", "refused"} :
        /\ Request(d, "check",
                   IF \E i \in Pending : Pending = {i} THEN "mark" ELSE "refused",
                   mem[d], reply)
        /\ found' = [found EXCEPT ![d] = IF Pending = {} THEN 0
                                         ELSE CHOOSE i \in Pending : TRUE]
        /\ UNCHANGED <<steps, rows, verdict>>

\* The update, which does not ask again that the row be pending.  The REST
\* route updates every row of the task, with retries, the MCP handler the one
\* it has read.
MarkDecided(d) ==
    \E reply \in IF request[d].via = "mcp" THEN Replies ELSE Retried :
        LET ruling == request[d].decision
            marked == IF request[d].via = "mcp" THEN {found[d]} ELSE DOMAIN approvals
        IN  /\ Request(d, "mark", "lookup", mem[d], reply)
            /\ approvals' = IF Served(reply)
                              THEN [i \in DOMAIN approvals |->
                                       IF i \in marked THEN ruling ELSE approvals[i]]
                              ELSE approvals
            /\ verdict' = IF Served(reply) THEN [verdict EXCEPT ![d] = ruling]
                                           ELSE verdict
            /\ UNCHANGED <<found, steps, task, snapshot, events>>

\* flow_registry.get: the process of the decision may not know the flow type.
LookUpFlow(d) ==
    \E reply \in {"ok", "refused"} :
        /\ Request(d, "lookup", "load", mem[d], reply)
        /\ UNCHANGED <<found, steps, rows, verdict>>

\* resume: the state comes from the snapshot, found by its aggregate key.
LoadSnapshot(d) ==
    \E reply \in {"ok", "refused"} :
        /\ Request(d, "load", IF snapshot.aggregate THEN "verdict_event" ELSE "raised",
                   snapshot.status, reply)
        /\ UNCHANGED <<found, steps, rows, verdict>>

\* Variants: a failure to log the decision is swallowed; the decision is not
\* looked at.
VerdictEvent_Swallowed(d) ==
    /\ request[d].decision = "approved"
    /\ \/ AppendSync(d, "verdict_event", "accept_snap", "completed", "approval.approved")
       \/ /\ pc[d] = "verdict_event"
          /\ pc' = [pc EXCEPT ![d] = "accept_snap"]
          /\ mem' = [mem EXCEPT ![d] = "completed"]
          /\ Fault
          /\ UNCHANGED <<kind, request, found, steps, rows, verdict>>

VerdictEvent_Ignored(d) ==
    AppendSync(d, "verdict_event", "accept_snap", "completed", "approval.approved")

\* resume: the decision is an event, and then _on_approved or _on_rejected
\* sets the state.
VerdictEvent(d) ==
    \/ /\ request[d].decision = "rejected"
       /\ AppendSync(d, "verdict_event", "reject_snap", "failed", "approval.rejected")
    \/ /\ request[d].decision = "approved"
       /\ kind = "base"
       /\ AppendSync(d, "verdict_event", "accept_snap", "completed", "approval.approved")
    \/ /\ request[d].decision = "approved"
       /\ kind = "multi"
       /\ AppendSync(d, "verdict_event", "resume_snap", "running", "approval.approved")

\* Variant: only the snapshot is persisted.
AcceptTask_Skipped(d) ==
    /\ Request(d, "accept_row", "accept_event", "completed", "ok")
    /\ UNCHANGED <<found, steps, rows, verdict>>

\* BaseFlow._on_approved
AcceptSnapshot(d) == WriteSnapshot(d, "accept_snap", "accept_row")
AcceptTask(d)     == WriteTask(d, "accept_row", "accept_event", "completed")
AcceptEvent(d)    == Emit(d, "accept_event", "returned", "completed", "flow.completed")

\* BaseFlow._on_rejected
RejectSnapshot(d) == WriteSnapshot(d, "reject_snap", "reject_row")
RejectTask(d)     == WriteTask(d, "reject_row", "reject_event", "failed")
RejectEvent(d)    == Emit(d, "reject_event", "returned", "failed", "flow.rejected")

\* MultiCrewFlow._on_approved, which ends in _finalise
ResumeSnapshot(d) == WriteSnapshot(d, "resume_snap", "resume_row")
ResumeTask(d)     == WriteTask(d, "resume_row", "resumed_event", "running")
ResumedEvent(d)   == Emit(d, "resumed_event", "final_event", "completed", "flow.resumed")
FinalEvent(d)     == Emit(d, "final_event", "final_snap", "completed", "flow.completed")
FinalSnapshot(d)  == WriteSnapshot(d, "final_snap", "final_row")
FinalTask(d)      == WriteTask(d, "final_row", "returned", "completed")

Decide(d) ==
    \/ CheckPending(d) \/ MarkDecided(d) \/ LookUpFlow(d) \/ LoadSnapshot(d)
    \/ VerdictEvent(d)
    \/ AcceptSnapshot(d) \/ AcceptTask(d) \/ AcceptEvent(d)
    \/ RejectSnapshot(d) \/ RejectTask(d) \/ RejectEvent(d)
    \/ ResumeSnapshot(d) \/ ResumeTask(d) \/ ResumedEvent(d)
    \/ FinalEvent(d) \/ FinalSnapshot(d) \/ FinalTask(d)

-----------------------------------------------------------------------------
\* A worker or an MCP server dies with the threads it runs, and nothing picks
\* their work up again.  Which threads share a process is not fixed.
Crash(dying) ==
    /\ dying # {} /\ \A t \in dying : AtWork(t)
    /\ pc' = [t \in Threads |-> IF t \in dying THEN "dead" ELSE pc[t]]
    /\ Fault
    /\ UNCHANGED <<kind, mem, request, found, steps, rows, verdict>>

\* Nothing is left to do: the task's story is over.
Terminated ==
    /\ \A t \in Threads : pc[t] \in EndLabels
    /\ UNCHANGED vars

Next ==
    \/ RunFlow
    \/ \E d \in Deciders : Ask(d) \/ Decide(d)
    \/ \E dying \in SUBSET Threads : Crash(dying)
    \/ Terminated

Spec == Init /\ [][Next]_vars

\* A thread that has started is scheduled again; nobody has to ask for a
\* decision.
FairSpec ==
    /\ Spec
    /\ WF_vars(RunFlow)
    /\ \A d \in Deciders : WF_vars(Decide(d))
-----------------------------------------------------------------------------
\* Properties.

InLog(type) == \E i \in DOMAIN events : events[i] = type

Paused == approvals # << >>

\* Some reader is shown a completed flow: in tasks, in snapshots, by an event.
Shown == task = "completed" \/ snapshot.status = "completed" \/ InLog("flow.completed")

Approved == \E d \in Deciders : verdict[d] = "approved"

\* A flow that has put itself before a supervisor is not shown as completed
\* unless some supervisor approved it: whatever threads overlap, requests fail
\* or processes die.
ApprovalGate == Paused /\ Shown => Approved

\* Rule R6, "the flow does not advance until the event is confirmed": what a
\* decision leads to (flow.resumed, flow.completed, flow.rejected) comes after
\* the event of a decision of that kind in the log.
DecisionLoggedFirst ==
    Paused => \A i \in DOMAIN events :
        /\ events[i] \in {"flow.completed", "flow.resumed"}
             => \E j \in 1..(i - 1) : events[j] = "approval.approved"
        /\ events[i] = "flow.rejected"
             => \E j \in 1..(i - 1) : events[j] = "approval.rejected"

\* Steps 1 and 2 of request_approval are in this order for a reason: whoever
\* finds a pending approval finds the snapshot resume needs.
ApprovalHasSnapshot == Paused => snapshot.aggregate

\* The parts of an inductive invariant that implies ApprovalGate and
\* ApprovalHasSnapshot.
EarlyLabels == {"insert", "trigger_event", "created_event", "start_snap", "start_row",
                "crew", "step_snap", "step_row", "step_event", "pause_v2"}

\* Only a flow that has not asked for approval holds a result, and whoever asks
\* has written the snapshot with its key.
RunnerInv ==
    /\ pc[Runner] \in RunnerLabels \union EndLabels
    /\ mem[Runner] = "completed" => pc[Runner] \in DoneLabels \union EndLabels
    /\ Paused => pc[Runner] \notin EarlyLabels \union DoneLabels
    /\ ~ Paused /\ pc[Runner] \in EarlyLabels \union {"pause_insert"} => ~ Shown
    /\ pc[Runner] \in PauseLabels \ {"pause_v2"} => snapshot.aggregate

\* A decider acts on an approval row that exists, and as it has ruled.
DeciderInv(d) ==
    /\ pc[d] \in DeciderLabels \union EndLabels
    /\ pc[d] # "idle" => request[d] \in Requests
    /\ pc[d] \in {"mark", "lookup", "load", "verdict_event"} \union AcceptLabels
                 \union RejectLabels => Paused
    /\ pc[d] \in {"idle", "check"} => verdict[d] = "none"
    /\ pc[d] = "mark" => verdict[d] \in {"none", request[d].decision}
    /\ pc[d] \in {"lookup", "load", "verdict_event"} => verdict[d] = request[d].decision
    /\ pc[d] \in AcceptLabels => verdict[d] = "approved"
    /\ pc[d] \in RejectLabels => mem[d] = "failed"

GateInv ==
    /\ TypeOK
    /\ RunnerInv
    /\ \A d \in Deciders : DeciderInv(d)
    /\ ApprovalHasSnapshot
    /\ ApprovalGate

\* As long as a task has one approval row, a request that gets past the check
\* finds no decision written by anyone: what is decided is refused there, through
\* either interface.
LateDecisionRefused ==
    [][\A d \in Deciders :
          pc[d] = "check" /\ pc'[d] = "mark" /\ Len(approvals) = 1
              => \A e \in Deciders : verdict[e] = "none"]_vars

\* The event loop of a worker is what keeps two of its decisions on one approval
\* row from both being accepted.
OneDecisionPerWorker ==
    Len(approvals) = 1 => \A w \in Workers :
        Cardinality({d \in Deciders : verdict[d] # "none" /\ request[d].via = w}) <= 1

\* When nobody is at work and nothing has failed, the three tables tell one
\* story: snapshots and tasks agree, flow.completed is logged exactly for a
\* completed task, and the approval row, if any, says why it is where it is.
TablesAgreeAtRest ==
    (\A t \in Threads : ~ AtWork(t)) =>
        /\ snapshot.status = task
        /\ task = "completed" <=> InLog("flow.completed")
        /\ Paused => /\ Len(approvals) = 1
                     /\ task = CASE approvals[1] = "pending"  -> "awaiting_approval"
                                 [] approvals[1] = "approved" -> "completed"
                                 [] approvals[1] = "rejected" -> "failed"

\* The rows of tasks behave as TaskLifecycle promises, and a ruling is carried
\* out, when decisions arrive one at a time at a flow that rests.
Ruling == IF \E d \in Deciders : verdict[d] # "none"
            THEN verdict[CHOOSE d \in Deciders : verdict[d] # "none"]
            ELSE "none"

Lifecycle == INSTANCE TaskLifecycle WITH status <- task, ruling <- Ruling

ImplementsLifecycle == Lifecycle!Spec

\* The test of the whole lifecycle, "execute -> pause -> approve -> complete":
\* once all threads are through and nothing failed, an approved task is completed.
ApprovedEndsCompleted ==
    faults = 0 /\ (\A t \in Threads : pc[t] \in EndLabels)
        => \A d \in Deciders : verdict[d] = "approved" => task = "completed"

\* "The flow must stop when the event cannot be recorded": a flow whose
\* execution failed after it asked for approval does not complete.
HaltedFlowStays ==
    pc[Runner] = "raised" /\ Paused => ~ InLog("flow.completed")

\* "Approval not found or already processed": of the requests that decide on
\* one approval, one is accepted.
OneDecision ==
    Len(approvals) = 1
        => Cardinality({d \in Deciders : verdict[d] # "none"}) <= 1
=============================================================================
