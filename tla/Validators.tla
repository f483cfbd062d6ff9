----------------------------- MODULE Validators -----------------------------
(* The commands of `fap` that validate something before it is used: the    *)
(* architect's JSON and the six scenarios that go through the same check,  *)
(* the tools of a bundle or an agent, the payload of an export, a bundle's *)
(* directory; and the structure the definition of a workflow must have.    *)
(*                                                                         *)
(* The name of a tool is the sequence of its parts between colons.  A      *)
(* definition of a workflow is a record of its agents (role, tools and the *)
(* lengths of goal and backstory) and its steps (id, role and what it      *)
(* depends on).  db is what the database knows: the servers                *)
(* and integrations of the organisation that are active, the services that *)
(* have tools, and whether it answers at all.                              *)
EXTENDS WorkflowGraph, FiniteSets

CONSTANTS Registered, MinGoal, MinBackstory, MaxSkills

Connector == <<"service_connector">>
IsMcp(tool) == Len(tool) >= 2 /\ tool[1] = "mcp"
ToolsOf(data) == UNION {data.agents[i].tools : i \in DOMAIN data.agents}
Kinds(level, findings) == {f \in findings : f.level = level}
Finding(level, about) == [level |-> level, about |-> about]
ExitOf(ok) == IF ok THEN 0 ELSE 1

-----------------------------------------------------------------------------
\* WorkflowDefinition: the fields' bounds and the two validators across them.
AgentValid(agent) ==
    agent.goal >= 10 /\ agent.backstory >= 10 /\ agent.maxIter \in 1..5

StepsHaveAgents(data) ==
    \A i \in DOMAIN data.steps : \E j \in DOMAIN data.agents :
        data.agents[j].role = data.steps[i].role

DependencyGraph(data) ==
    [id \in {data.steps[i].id : i \in DOMAIN data.steps} |->
        data.steps[Max({i \in DOMAIN data.steps : data.steps[i].id = id})].after]

WorkflowValid(data) ==
    /\ data.steps # <<>> /\ data.agents # <<>>
    /\ \A i \in DOMAIN data.agents : AgentValid(data.agents[i])
    /\ StepsHaveAgents(data)
    /\ ~HasCycle(DependencyGraph(data))

-----------------------------------------------------------------------------
(* fap validate-architect.  A finding is a warning, an error the text marks*)
(* red, or a plain one; "raise" stands for the exception of a database that*)
(* does not answer.                                                        *)
ValidateStructural(data) ==
    IF WorkflowValid(data) THEN {} ELSE {Finding("plain", <<"schema">>)}

ValidateMcpTools(data, org, db) ==
    LET mcp     == {t \in ToolsOf(data) : IsMcp(t)}
        servers == {t[2] : t \in {u \in mcp : Len(u) >= 3}}
    IN  {Finding("plain", t) : t \in {u \in mcp : Len(u) < 3}}
        \cup (IF ~org THEN {Finding("warn", <<s>>) : s \in servers}
              ELSE IF db.down /\ servers # {} THEN {Finding("raise", <<"mcp">>)}
              ELSE {Finding("red", <<s>>) : s \in servers \ db.servers})

ValidateServiceConnectors(data, org, db) ==
    IF Connector \notin ToolsOf(data) THEN {}
    ELSE IF ~org THEN {Finding("warn", Connector)}
    ELSE IF db.down THEN {Finding("raise", Connector)}
    ELSE IF db.integrations = {} THEN {Finding("red", Connector)}
    ELSE IF db.integrations \cap db.withTools = {} THEN {Finding("warn", Connector)}
    ELSE {}

ValidateToolsRegistry(data) ==
    {Finding("warn", t) : t \in {u \in ToolsOf(data) :
                                    ~IsMcp(u) /\ u # Connector /\ u \notin Registered}}

\* A check that raises is skipped with a warning, whatever it had found.
Downgraded(findings, strict) ==
    IF Kinds("raise", findings) # {} THEN {Finding("warn", <<"skipped">>)}
    ELSE Kinds("warn", findings) \cup Kinds("plain", findings)
         \cup {[f EXCEPT !.level = IF strict THEN @ ELSE "warn"] : f \in Kinds("red", findings)}

ValidateArchitectData(data, org, strict, db) ==
    ValidateStructural(data) \cup ValidateToolsRegistry(data)
    \cup Downgraded(ValidateMcpTools(data, org, db), strict)
    \cup Downgraded(ValidateServiceConnectors(data, org, db), strict)

ErrorsOf(findings) == {f \in findings : f.level # "warn"}

\* json holds what the file parses to: nothing, an empty object or a definition.
ValidateArchitectOutput(json, org, db) ==
    ExitOf(/\ json # {}
           /\ \A data \in json :
                ErrorsOf(ValidateStructural(data) \cup ValidateMcpTools(data, org, db)
                         \cup ValidateServiceConnectors(data, org, db)) = {})

-----------------------------------------------------------------------------
(* fap test-scenarios: six definitions that never change.                  *)
Agent(role, tools) ==
    [role |-> role, tools |-> tools, goal |-> MinGoal, backstory |-> MinBackstory, maxIter |-> 3]
\* A step of each agent in turn, each after the one before it.
InTurn(roles) ==
    [i \in DOMAIN roles |-> [id |-> i, role |-> roles[i], after |-> {i - 1} \ {0}]]

Greeter == [agents |-> <<Agent("greeter", {})>>, steps |-> InTurn(<<"greeter">>)]

Integration ==
    [agents |-> <<Agent("notifier", {Connector})>>, steps |-> InTurn(<<"notifier">>)]

FileManager ==
    [agents |-> <<[Agent("file_manager", {<<"mcp", "filesystem", "list_files">>,
                                          <<"mcp", "filesystem", "read_file">>})
                     EXCEPT !.maxIter = 5]>>,
     steps  |-> InTurn(<<"file_manager", "file_manager">>)]

Hybrid ==
    [agents |-> <<Agent("researcher", {<<"mcp", "google", "search">>}),
                  Agent("crm_writer", {Connector})>>,
     steps  |-> InTurn(<<"researcher", "crm_writer">>)]

MultiAgent ==
    LET roles == <<"researcher", "writer", "reviewer">>
    IN  [agents |-> [i \in 1..3 |-> Agent(roles[i], {})], steps |-> InTurn(roles)]

FullStack ==
    [agents |-> <<Agent("data_fetcher", {<<"mcp", "google", "search">>,
                                         <<"mcp", "google", "fetch">>}),
                  Agent("processor", {}), Agent("notifier", {Connector})>>,
     steps  |-> InTurn(<<"data_fetcher", "processor", "notifier">>)]

Scenarios == <<Greeter, Integration, FileManager, Hybrid, MultiAgent, FullStack>>

ScenarioPasses(n, db) ==
    ErrorsOf(ValidateArchitectData(Scenarios[n], TRUE, FALSE, db)) = {}

\* choice is a set of numbers; one that names no scenario leaves nothing to fail.
TestScenarios(choice, db) ==
    ExitOf(\A n \in choice \cap DOMAIN Scenarios : ScenarioPasses(n, db))

-----------------------------------------------------------------------------
(* fap validate-tools.  offers maps a server that can be reached to the    *)
(* names of the tools it offers.                                           *)
ParseMcpPrefix(tool) ==
    IF IsMcp(tool) /\ Len(tool) >= 3 /\ tool[2] # "" /\ (Len(tool) > 3 \/ tool[3] # "")
    THEN {[server |-> tool[2], name |-> SubSeq(tool, 3, Len(tool))]} ELSE {}

ValidateMcpTool(mcp, org, db, offers) ==
    /\ org /\ mcp.server \in db.servers \cap DOMAIN offers
    /\ mcp.name \in offers[mcp.server]

\* What does not parse as a tool of a server is looked up in the registry.
ValidateSingleTool(tool, org, db, offers) ==
    IF ParseMcpPrefix(tool) = {} THEN tool \in Registered
    ELSE \A mcp \in ParseMcpPrefix(tool) : ValidateMcpTool(mcp, org, db, offers)

\* what holds the tools named by the option given first, {} when there is none:
\* no option, no manifest, or no active agent of the role.
ValidateTools(what, org, db, offers) ==
    ExitOf(/\ what # {}
           /\ \A tools \in what : \A t \in tools : ValidateSingleTool(t, org, db, offers))

-----------------------------------------------------------------------------
(* fap bundle validate-payload.  The short fields of an agent are warnings;*)
(* the exit that follows them asks for errors, which have left before.     *)
PayloadWarnings(payload) ==
    {i \in DOMAIN payload.agents : payload.agents[i].goal < MinGoal}
    \cup {i \in DOMAIN payload.agents : payload.agents[i].backstory < MinBackstory}
    \cup (IF Len(payload.agents) > MaxSkills THEN {0} ELSE {})

ValidatePayload(sources, payload) ==
    LET read == Cardinality(sources) = 1
    IN  [exit     |-> ExitOf(read /\ payload.accepted),
         warnings |-> IF read /\ payload.accepted THEN PayloadWarnings(payload) ELSE {}]

(* fap validate on a directory: the hashes its manifest gives ({} for none)*)
(* against those of its files, and the guard's answer for the skills.         *)
IntegrityHolds(expected, actual) ==
    \A path \in DOMAIN expected : path \in DOMAIN actual /\ actual[path] = expected[path]

ValidateDirectory(dir) ==
    ExitOf(/\ dir.manifest
           /\ IntegrityHolds(dir.expected, dir.actual)
           /\ \A path \in dir.skills : path \in dir.safe)
=============================================================================
