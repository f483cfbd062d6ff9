----------------------------- MODULE AgentRuns -----------------------------
(***************************************************************************)
(* The agents of one organization: the routes that save and list them,     *)
(* POST /agents/{role}/run with the task it leaves and the background job  *)
(* that carries it out, and GET /tasks/{id}, which clients poll.           *)
(*                                                                         *)
(* A save is two requests, one that looks for the role and one that writes.*)
(* A job marks its task, runs the crew and files what came of it; each of  *)
(* its requests can be served, refused, or served without an answer.       *)
(***************************************************************************)
EXTENDS Naturals, Sequences

CONSTANTS
    Roles,       \* names of agents
    Savers,      \* clients that save agents: the form, the command line
    MaxTasks,    \* bound on the runs that are asked for
    MaxFaults    \* bound on requests that fail

None == "none"
ASSUME AgentRunsAssumption ==
    /\ MaxTasks \in Nat /\ MaxFaults \in Nat
    /\ None \notin Roles

VARIABLES
    catalog,     \* agent_catalog: the row of a role, which is unique: none, or active or not
    saves,       \* what each saver is about: nothing, or a role it has looked for
    tasks,       \* the rows of tasks with flow_type agent:<role>, in order
    jobs,        \* the background job of each task
    faults       \* requests that failed

agentVars == <<catalog, saves, tasks, jobs, faults>>

Rows  == {None, "active", "inactive"}
NoSave == [role |-> None, found |-> FALSE]
Saves == {NoSave} \union [role : Roles, found : BOOLEAN]
Statuses == {"pending", "running", "completed", "failed"}

AgentTypeOK ==
    /\ catalog \in [Roles -> Rows]
    /\ saves \in [Savers -> Saves]
    /\ tasks \in Seq([role : Roles, status : Statuses, text : BOOLEAN])
    /\ jobs \in [DOMAIN tasks ->
                    {"queued", "working", "filing", "failing", "done", "gone"}]
    /\ faults \in 0..MaxFaults

AgentInit ==
    /\ catalog \in [Roles -> {None, "active"}]
    /\ saves = [s \in Savers |-> NoSave]
    /\ tasks = <<>> /\ jobs = <<>>
    /\ faults = 0

\* What a request can come to.
Replies == {"served", "lost", "refused"}
Fault(reply) ==
    /\ reply # "served" => faults < MaxFaults
    /\ faults' = IF reply = "served" THEN faults ELSE faults + 1

-----------------------------------------------------------------------------
\* POST /agents

SaveLook(s, r) ==
    /\ saves[s] = NoSave
    /\ saves' = [saves EXCEPT ![s] = [role |-> r, found |-> catalog[r] # None]]
    /\ UNCHANGED <<catalog, tasks, jobs, faults>>

\* The row is updated when there was one, and active again; an insert of a role that
\* came into being since the look is refused by the table.
SaveWrite(s, reply) ==
    LET save    == saves[s]
        allowed == reply # "refused" /\ (save.found \/ catalog[save.role] = None)
    IN
    /\ save # NoSave
    /\ Fault(reply)
    /\ catalog' = [catalog EXCEPT ![save.role] = IF allowed THEN "active" ELSE @]
    /\ saves' = [saves EXCEPT ![s] = NoSave]
    /\ UNCHANGED <<tasks, jobs>>

\* GET /agents, as the palette of the canvas asks for it, and GET /agents/by-role/{role}.
ListAgents == {r \in Roles : catalog[r] = "active"}

\* The end of a bundle that brought the agent: its rows become inactive.
Deactivate(r) ==
    /\ catalog[r] = "active"
    /\ catalog' = [catalog EXCEPT ![r] = "inactive"]
    /\ UNCHANGED <<saves, tasks, jobs, faults>>

\* GET /agents/{id}/detail: everything after the row's check stands behind a raise, and
\* what follows uses a name that was never bound.
Detail(r) == IF catalog[r] = None THEN "404" ELSE "500"

-----------------------------------------------------------------------------
\* POST /agents/{role}/run: the role need not exist.  Past the bound on tasks every
\* request is refused.

Accept(r, reply) ==
    /\ IF Len(tasks) < MaxTasks THEN Fault(reply) ELSE reply = "refused" /\ UNCHANGED faults
    /\ tasks' = IF reply = "refused" THEN tasks
                ELSE Append(tasks, [role |-> r, status |-> "pending", text |-> FALSE])
    /\ jobs' = IF reply = "refused" THEN jobs
               ELSE Append(jobs, IF reply = "served" THEN "queued" ELSE "gone")
    /\ UNCHANGED <<catalog, saves>>

Update(i, reply, row) ==
    /\ Fault(reply)
    /\ tasks' = [tasks EXCEPT ![i] = IF reply = "refused" THEN @ ELSE row]
    /\ UNCHANGED <<catalog, saves>>

Mark(i, reply) ==
    /\ jobs[i] = "queued"
    /\ Update(i, reply, [tasks[i] EXCEPT !.status = "running"])
    /\ jobs' = [jobs EXCEPT ![i] = IF reply = "served" THEN "working" ELSE "failing"]

\* A plausible slip: a job whose agent is not found, or not active, just returns.
CrewEnds_Returns(i, well) ==
    /\ jobs[i] = "working"
    /\ jobs' = [jobs EXCEPT ![i] = IF catalog[tasks[i].role] # "active" THEN "gone"
                                   ELSE IF well THEN "filing" ELSE "failing"]
    /\ UNCHANGED <<catalog, saves, tasks, faults>>

\* BaseCrew loads the configuration only now, and the crew may fail on its own.
CrewEnds(i, well) ==
    /\ jobs[i] = "working"
    /\ jobs' = [jobs EXCEPT ![i] =
                   IF well /\ catalog[tasks[i].role] = "active" THEN "filing" ELSE "failing"]
    /\ UNCHANGED <<catalog, saves, tasks, faults>>

File(i, reply) ==
    /\ jobs[i] = "filing"
    /\ Update(i, reply, [tasks[i] EXCEPT !.status = "completed", !.text = TRUE])
    /\ jobs' = [jobs EXCEPT ![i] = IF reply = "served" THEN "done" ELSE "failing"]

\* A plausible slip: the failure is only logged.
Fail_Logs(i, reply) ==
    /\ jobs[i] = "failing"
    /\ Update(i, reply, tasks[i])
    /\ jobs' = [jobs EXCEPT ![i] = "done"]

Fail(i, reply) ==
    /\ jobs[i] = "failing"
    /\ Update(i, reply, [tasks[i] EXCEPT !.status = "failed"])
    /\ jobs' = [jobs EXCEPT ![i] = IF reply = "served" THEN "done" ELSE "gone"]

\* The process that serves the API ends, with the jobs it has.
Crash ==
    /\ faults < MaxFaults /\ faults' = faults + 1
    /\ \E i \in DOMAIN jobs : jobs[i] \notin {"done", "gone"}
    /\ jobs' = [i \in DOMAIN jobs |-> IF jobs[i] = "done" THEN "done" ELSE "gone"]
    /\ UNCHANGED <<catalog, saves, tasks>>

\* GET /tasks/{id}: the response model wants an object for a result, and what the
\* crew returned is stored as a text.
View(i) == IF tasks[i].text THEN "error" ELSE tasks[i].status

JobStep(i) ==
    \E reply \in Replies :
        \/ Mark(i, reply) \/ File(i, reply) \/ Fail(i, reply)
        \/ \E well \in BOOLEAN : reply = "served" /\ CrewEnds(i, well)

=============================================================================
