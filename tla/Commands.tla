------------------------------ MODULE Commands ------------------------------
(* The commands of `fap` that change something or run something: login,    *)
(* package, publish and the hot reload that chains them, the exports, the  *)
(* creation of agents, the snapshots of a crew, and the runs of skills,    *)
(* agents, flows and tool calls, here and on the server.                   *)
(*                                                                         *)
(* An HTTP answer is its status code, 0 when nothing listens.  A text that *)
(* may be missing is "" then, and an option is a set of at most one value. *)
(* A command answers its exit code, with what it leaves behind.            *)
EXTENDS Integers, Sequences, FiniteSets, FiniteSetsExt, SequencesExt

Ok(code) == code \in {200, 201}
ExitOf(ok) == IF ok THEN 0 ELSE 1
Or(text, default) == IF text # "" THEN text ELSE default
Authenticated(config) == config.org # "" /\ config.token # ""

-----------------------------------------------------------------------------
\* The configuration is written only after the server has accepted it.
Login(config, given, code) ==
    [config |-> IF code = 200 THEN given ELSE config, exit |-> ExitOf(code = 200)]

(* A bundle's directory: the content of its files by path, hidden ones     *)
(* apart; the manifest's version, its info and its hashes; the skills the  *)
(* guard accepts.  A hash is the content it is taken of.                   *)
BundleHashes(dir) == dir.files

UpdateManifest(dir) ==
    [dir EXCEPT !.manifest =
        {[version |-> "2.0", hashes |-> BundleHashes(dir),
          info    |-> IF m.version # "2.0" /\ m.info = "" THEN "migrated" ELSE m.info]
         : m \in @}]

PackageBundle(dir) ==
    IF dir.manifest = {} THEN [dir |-> dir, zip |-> {}, exit |-> 1]
    ELSE LET packed == UpdateManifest(dir)
         IN  [dir |-> packed, zip |-> {packed}, exit |-> 0]

\* A 401 is printed as an error and then answered like a success.
PublishBundle(zip, config, code) ==
    ExitOf(zip # {} /\ Authenticated(config) /\ code \in {201, 401})
Published(zip, config, code) == zip # {} /\ Authenticated(config) /\ code = 201

\* One update of the watcher: what it says and whether the server has the bundle.
DoUpdate(dir, config, code) ==
    LET package == PackageBundle(dir)
    IN  IF ~(dir.skills \subseteq dir.safe) THEN [says |-> "stopped", published |-> FALSE]
        ELSE IF package.exit # 0 \/ PublishBundle(package.zip, config, code) # 0
             THEN [says |-> "aborted", published |-> FALSE]
        ELSE [says |-> "successful", published |-> Published(package.zip, config, code)]

\* The events the watcher follows: files of the four directories, none hidden.
Watched(event) ==
    /\ ~event.directory /\ ~event.hidden
    /\ event.suffix # ".zip" /\ event.name # "manifest.json"
    /\ event.top \in {"agents", "flows", "skills", "context"}

-----------------------------------------------------------------------------
(* The exports.  rows are the agents of the organisation; a role list is a *)
(* set of roles, {} for all of them.  Each export leaves with code 0 when  *)
(* it finds nobody, from within a try whose except answers 1.              *)
ExportRoles(rows, roles) ==
    {a \in rows : a.active /\ (roles = {} \/ a.role \in roles)}

ExportBundle(rows, roles, fails) ==
    LET found == ExportRoles(rows, roles)
    IN  [zip  |-> IF found # {} /\ ~fails THEN {found} ELSE {},
         exit |-> ExitOf(found # {} /\ ~fails)]

ExportCrew(rows, roles, fails) ==
    IF roles = {} THEN [zip |-> {}, exit |-> 1] ELSE ExportBundle(rows, roles, fails)

\* fap export takes the inactive ones too, and names a file after each role.
ExportMigration(rows, fails) ==
    [files |-> IF fails THEN {} ELSE {a.role : a \in rows}, exit |-> ExitOf(rows # {} /\ ~fails)]

-----------------------------------------------------------------------------
(* fap agent create and fap templates use.  rows are the system templates. *)
MapProvider(provider) ==
    IF provider \in {"groq", "openai", "anthropic", "openrouter"} THEN provider ELSE "groq"

TemplatePayload(template, given) ==
    [role      |-> Or(given.role, Or(template.role, template.name)),
     goal      |-> Or(given.goal, template.goal),
     backstory |-> Or(given.backstory, Or(template.backstory, template.description)),
     tools     |-> template.tools \o SelectSeq(given.tools, LAMBDA t : t \notin ToSet(template.tools)),
     provider  |-> MapProvider(template.provider),
     maxIter   |-> IF given.maxIter # 0 THEN given.maxIter
                   ELSE IF template.maxIter # 0 THEN template.maxIter ELSE 3]

\* A conflict is told and answered with 0, by both commands.
Posted(code) == ExitOf(Ok(code) \/ code = 409)

UseTemplate(rows, name, given, dry, code) ==
    LET found == {t \in rows : t.name = name}
    IN  [sent |-> IF dry THEN {} ELSE {TemplatePayload(t, given) : t \in found},
         exit |-> IF found = {} THEN 1 ELSE IF dry THEN 0 ELSE Posted(code)]

CreateAgent(config, payload, dry, code) ==
    LET known == config.org # "" /\ payload.maxIter \in 1..10
    IN  [sent |-> IF known /\ ~dry THEN {payload} ELSE {},
         exit |-> IF ~known THEN 1 ELSE IF dry THEN 0 ELSE Posted(code)]

-----------------------------------------------------------------------------
(* fap crew.  GET /agents lists an agent's goal beside its role.  The      *)
(* snapshot of a crew has a node for each of them, its goal read from a    *)
(* soul_json the list does not have, and no edge; a preset's nodes and     *)
(* edges are copied as they are.                                           *)
ListAgents(rows) ==
    LET active == SelectSeq(rows, LAMBDA a : a.active)
    IN  [i \in DOMAIN active |-> [role |-> active[i].role, goal |-> active[i].goal]]

Snapshot(items) ==
    [nodes |-> [i \in DOMAIN items |->
                  [role |-> items[i].role,
                   goal |-> IF "soul_json" \in DOMAIN items[i] THEN items[i].soul_json.goal
                            ELSE ""]],
     edges |-> {}]

SaveCrew(config, rows, code) ==
    LET listed == config.org # "" /\ code = 200
    IN  [file |-> IF listed THEN {Snapshot(ListAgents(rows))} ELSE {}, exit |-> ExitOf(listed)]

ScaffoldCrew(config, presets, preset) ==
    [file |-> IF config.org # "" /\ preset \in DOMAIN presets THEN {presets[preset]} ELSE {},
     exit |-> ExitOf(config.org # "" /\ preset \in DOMAIN presets)]

-----------------------------------------------------------------------------
(* fap run.  A bundle has skills, each safe or not and loading or not, the *)
(* roles of its agents and the types of its flows.                         *)
Prepare(bundle) ==
    IF \E s \in bundle.skills : ~s.safe THEN {}
    ELSE {[tools |-> {s.name : s \in {t \in bundle.skills : t.loads}},
           roles |-> bundle.roles, flows |-> bundle.flows]}

RunLocal(kind, name, bundle, runs) ==
    ExitOf(/\ runs /\ Prepare(bundle) # {}
           /\ \A p \in Prepare(bundle) :
                name \in (IF kind = "agents" THEN p.roles ELSE p.flows))

\* A skill runs behind the guard, or without it when the user confirms.
RunSkill(skill, sandbox, confirms) ==
    IF ~skill.exists \/ ~skill.inputs THEN 1
    ELSE IF sandbox THEN ExitOf(skill.safe /\ skill.runs)
    ELSE ExitOf(confirms /\ skill.runs)

\* The routers the API mounts for these commands, and where each one posts.
Routes == {<<"agents", "run">>, <<"flows", "run">>, <<"tasks">>}
RunPath(kind) == <<"api", kind, "run">>

(* statuses is what the task shows, one look after the other.              *)
FirstOf(statuses, looks, ends) ==
    LET at == {i \in 1..Min({looks, Len(statuses)}) : statuses[i] \in ends}
    IN  IF at = {} THEN {} ELSE {statuses[Min(at)]}

\* fap run waits for two of the states a task may end in, and gives up with 0.
PollTask(statuses, looks) ==
    ExitOf("failed" \notin FirstOf(statuses, looks, {"completed", "failed"}))

RunRemote(kind, config, statuses, looks) ==
    IF config.org = "" \/ RunPath(kind) \notin Routes THEN 1 ELSE PollTask(statuses, looks)

\* fap agent run waits for all of them, and gives up with 1.
AgentPoll(statuses, looks) ==
    ExitOf("completed" \in FirstOf(statuses, looks,
                {"completed", "failed", "cancelled", "rejected", "error"}))

AgentRun(config, code, statuses, timeout) ==
    IF config.org = "" \/ code \notin {200, 201, 202} THEN 1
    ELSE AgentPoll(statuses, Max({1, timeout \div 2}))

(* fap test-tool-call.                                                     *)
ToolCallTest(registered, key, dry, force, runs, calls) ==
    IF ~registered THEN 1
    ELSE IF dry \/ (~key /\ ~force) THEN 0
    ELSE ExitOf(key /\ runs /\ calls > 0)

(* fap test-builder: pytest's exit code, through an except that answers 1. *)
TestBuilder(exists, code) == ExitOf(exists /\ code = 0)
=============================================================================
