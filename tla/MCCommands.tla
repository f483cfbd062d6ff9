----------------------------- MODULE MCCommands -----------------------------
(* The commands of `fap` over small inputs: what their verdicts are worth. *)
EXTENDS Integers, Sequences, FiniteSets, TLC

D == INSTANCE Doctors WITH Templates <- {"analyst", "writer"}, MinGoal <- 2, MinBackstory <- 2
S == INSTANCE Suites
V == INSTANCE Validators WITH Registered <- {<<"excel_reader">>, <<"mcp", "excel">>},
                              MinGoal <- 10, MinBackstory <- 10, MaxSkills <- 2
K == INSTANCE Commands

\* Two headed steps, two sources that name them differently, one name a prefix of
\* another.
Written == {<<"audit">>, <<"audit", "again">>, <<"cover">>}
P == INSTANCE ProjectDocs WITH
        Headed    <- {0, 1},
        Canonical <- [phaseState |-> 0 :> <<"audit">> @@ 1 :> <<"cover">>,
                      plan       |-> 0 :> <<"audit", "again">> @@ 1 :> <<"cover">>]

-----------------------------------------------------------------------------
(* The doctors.                                                            *)
Healthy ==
    [seed |-> {{"upsert", "on_conflict"}}, page |-> {{"BuilderTabProvider"}}, crumb |-> {{}},
     scenarios |-> {{}}, form |-> {{"min(10", "goal", "backstory"}},
     conftest |-> {{"patch agents tenant"}},
     catalog |-> {{"created_at: str", "created_at", "select", "select *"}},
     phaseState |-> {<<{"/api/templates"}, {}, {"require_org_id"}>>},
     cli |-> {{"httpx.Client(", "httpx.AsyncClient"}},
     schemas |-> {{"MIN_GOAL_LENGTH", "MIN_BACKSTORY_LENGTH",
                   "MAX_FLOWS_PER_BUNDLE", "MAX_SKILLS_PER_BUNDLE"}},
     migration |-> {{"created_at"}}]
Forms == {{}} \cup {{t} : t \in SUBSET {"min(10", "goal", "backstory"}}
Conftests == {{}, {{}}, {{"patch agents tenant"}}, {{"patch agents tenant", "global_llm_mock"}}}
Clis == SUBSET {{"httpx.Client("}, {"emoji"}, {}}
Repos == {[Healthy EXCEPT !.form = f, !.conftest = c, !.cli = l] :
             f \in Forms, c \in Conftests, l \in Clis}

\* Two rows, one of which a person may have edited; some requests fail.
Tables == UNION {[names -> {"shipped", "edited"}] :
                    names \in SUBSET {"analyst", "own"}}
Fails == [probe : BOOLEAN, reset : BOOLEAN, rows : SUBSET {"analyst", "writer"}]
NoFails == [probe |-> FALSE, reset |-> FALSE, rows |-> {}]

\* Seeding keeps every row that is there, also one that was edited, and what a run
\* leaves out because it failed the next one puts in.  seed_templates.
ASSUME SeedRepeats == \A table \in Tables, fails \in Fails :
    LET once  == D!SeedTemplates(table, FALSE, FALSE, fails).table
        twice == D!SeedTemplates(once, FALSE, FALSE, NoFails)
    IN  /\ \A name \in DOMAIN table : once[name] = table[name] /\ twice.table[name] = table[name]
        /\ {"analyst", "writer"} \subseteq DOMAIN twice.table
        /\ D!SeedTemplates(twice.table, FALSE, FALSE, NoFails).inserted = {}

\* A preview may empty what it previews: with --reset it deletes the system's rows and
\* inserts none; without, it changes nothing.  seed_templates.
ASSUME PreviewResets == \A table \in Tables :
    /\ D!SeedTemplates(table, FALSE, TRUE, NoFails).table = table
    /\ D!SeedTemplates(table, TRUE, TRUE, NoFails).table = [n \in DOMAIN table \ {"analyst"} |-> table[n]]

Worlds == [fails : Fails, registered : {{"excel"}}, mcp : {{}, {"mcp:fs:read"}},
           answer : {[code |-> 200, tools |-> {"excel"}],
                     [code |-> 200, tools |-> {"excel", "mcp:fs:read"}],
                     [code |-> 0, tools |-> {}]},
           templates : {{}, {[goal |-> 2, backstory |-> 0, description |-> 2]},
                        {[goal |-> 1, backstory |-> 2, description |-> 2]}},
           created : {0, 201, 409, 500}, accepted : BOOLEAN, script : {"exit 0", "timeout"}]

\* A green dogfood run means a green doctor, a table with every template and an API
\* whose tools are the registry's alone: where a server offers a tool and the API lists
\* it, no run is green, since the run reads the servers from inside a loop and drops
\* them.  dogfood_check, _collect_tools.
ASSUME DogfoodMeans == \A repo \in {Healthy, [Healthy EXCEPT !.form = {}]}, table \in Tables,
                          world \in Worlds :
    D!DogfoodCheck(repo, table, world, FALSE) = 0 =>
        /\ D!DoctorBuilder(repo) = 0
        /\ {"analyst", "writer"} \subseteq DOMAIN D!DogfoodSeed(table, world.fails).table
        /\ world.answer.tools = world.registered
        /\ ~(world.mcp # {} /\ world.mcp \subseteq world.answer.tools)

\* The backend's doctor never passes on a checkout that has its own source in it, and
\* its answer in JSON is always a success.  doctor_backend.
OwnSource == {"new_event_loop", "httpx.Client(", "httpx.AsyncClient"}
ASSUME BackendVerdict == \A repo \in Repos :
    /\ D!DoctorBackend([repo EXCEPT !.cli = @ \cup {OwnSource}], FALSE) = 1
    /\ D!DoctorBackend(repo, TRUE) = 0

-----------------------------------------------------------------------------
(* The commands that read what pytest prints.                              *)
Tests(name) == [name : {name}, outcome : {"PASSED", "FAILED", "SKIPPED"},
                time : {{}, {10}, {13}}, prints : BOOLEAN]
Suite == {<<a, b>> : a \in Tests("ask"), b \in Tests("bid")}
Stored == {{}} \cup {{<<[test |-> "ask", passed |-> TRUE, time |-> t]>>} : t \in {{}, {10}}}

\* perf-check attributes a result to the wrong test when one prints no time; a green
\* answer still means that every test passed, the number of the summary agreeing with
\* that of the lines.  _run_and_parse, _build_report.
ASSUME PerfTruthful ==
    /\ \A tests \in Suite, base \in Stored :
         S!PerfCheck(tests, base, FALSE, FALSE).exit = 0 =>
            \A i \in DOMAIN tests : tests[i].outcome = "PASSED"
    /\ \E tests \in Suite :
         /\ \A i \in DOMAIN tests : tests[i].outcome = "PASSED"
         /\ S!PerfCheck(tests, {}, FALSE, FALSE).exit = 1

\* A slower test is seen against the baseline that was stored, and never when the same
\* call also stores its own.  perf_check with --baseline --compare.
ASSUME BaselineHides ==
    /\ \A tests \in Suite, base \in Stored :
         S!PerfCheck(tests, base, TRUE, TRUE).exit = S!PerfCheck(tests, base, TRUE, FALSE).exit
    /\ \E tests \in Suite, base \in Stored :
         S!PerfCheck(tests, base, FALSE, TRUE).exit # S!PerfCheck(tests, base, FALSE, FALSE).exit

\* A bench of no iteration passes, and the sizes of its units are powers of 1024.
ASSUME BenchIdle ==
    /\ S!StressBench(<<>>) = 0
    /\ S!ParseSize(1, "MB") = S!ParseSize(1024, "KB")

Counts == {[covered |-> c, statements |-> t] : c \in 0..2, t \in 0..2}
Coverages == {files \in [{<<"src", "a", "x", "m.py">>, <<"src", "a", "x", "n.py">>,
                          <<"src", "b.py">>} -> Counts] :
                 \A p \in DOMAIN files : files[p].covered <= files[p].statements}

\* The total the report shows and does not ask about follows from the modules it asks
\* about; with --diff only the failing modules are shown; without data nothing is below.
\* coverage_report.
ASSUME TotalFollows ==
    /\ \A files \in Coverages, threshold \in {0, 50, 80} :
         LET code == S!CoverageReport(FALSE, {files}, threshold)
         IN  /\ code = 0 => S!TotalPasses(files, threshold)
             /\ (code = 0) <=> (S!RowsShown(files, threshold, TRUE) = {})
    /\ S!CoverageReport(FALSE, {}, 100) = 0

\* What the two last commands let by: a missing suite when the answer is JSON, and any
\* coverage of a step, whose thresholds are never read.  security_audit, test_step.
ASSUME LetBy ==
    /\ \A category \in {{}, {"calls"}}, code \in 0..1 : S!SecurityAudit(category, TRUE, TRUE, code) = 0
    /\ \A step \in 0..8, code \in 0..1, missing \in BOOLEAN :
         LET checkout == [docsMissing |-> missing, ruff |-> code, testsMissing |-> missing,
                          pytest |-> code, data |-> {}]
         IN  S!TestStep(step, TRUE, checkout) = S!TestStep(step, FALSE, checkout)

-----------------------------------------------------------------------------
(* The validators.                                                         *)
Databases == [down : BOOLEAN, servers : SUBSET {"google", "filesystem"},
              integrations : SUBSET {"crm"}, withTools : SUBSET {"crm"}]
ToolNames == {<<"excel_reader">>, <<"unknown">>, <<"service_connector">>,
          <<"mcp", "google">>, <<"mcp", "google", "search">>, <<"mcp", "files", "read">>}
Definition(tools, goal, after) ==
    [agents |-> <<[role |-> "clerk", tools |-> tools, goal |-> goal, backstory |-> 10, maxIter |-> 3]>>,
     steps  |-> <<[id |-> 1, role |-> "clerk", after |-> after]>>]
Definitions == {Definition(t, g, a) : t \in SUBSET ToolNames, g \in {9, 10}, a \in {{}, {1}}}

\* Strict mode never accepts what the lenient one refuses, and without the database it
\* accepts less than with it or skips the check.  validate_architect_data.
ASSUME StrictNoWeaker == \A data \in Definitions, org \in BOOLEAN, db \in Databases :
    LET Errors(strict, down) ==
            V!ErrorsOf(V!ValidateArchitectData(data, org, strict, [db EXCEPT !.down = down]))
    IN  /\ Errors(FALSE, db.down) \subseteq Errors(TRUE, db.down)
        /\ Errors(TRUE, TRUE) \subseteq Errors(TRUE, FALSE)

\* A malformed tool of a server, found before the database is asked, is an error, and no
\* longer one when another tool makes the check ask a database that does not answer.
\* _validate_mcp_tools, validate_architect_data.
ASSUME FormatErrorLost == \A db \in Databases :
    LET Passes(tools) == V!ErrorsOf(V!ValidateArchitectData(Definition(tools, 10, {}), TRUE, TRUE, db)) = {}
    IN  /\ ~Passes({<<"mcp", "google">>})
        /\ db.down => Passes({<<"mcp", "google">>, <<"mcp", "google", "search">>})

\* The scenarios pass whatever the database holds: every one has the structure the check
\* asks for, and all the rest of it is a warning; a choice that names none passes too.
\* test_scenarios.
ASSUME ScenariosPass == \A db \in Databases, choice \in SUBSET (1..7) :
    V!TestScenarios(choice, db) = 0

\* A tool of a server is what validate-tools reads it as, and one that does not parse
\* as such falls to the registry, which may hold it.  validate_tools, parse_mcp_prefix.
ASSUME ToolsAreFound == \A tools \in SUBSET ToolNames, org \in BOOLEAN, db \in Databases :
    LET offers == [s \in {"google"} |-> {<<"search">>}]
    IN  V!ValidateTools({tools}, org, db, offers) = 0 =>
            /\ {<<"unknown">>, <<"mcp", "files", "read">>, <<"service_connector">>} \cap tools = {}
            /\ <<"mcp", "google", "search">> \in tools => org /\ "google" \in db.servers

Payload(goal, agents) ==
    [accepted |-> TRUE, agents |-> [i \in 1..agents |-> [goal |-> goal, backstory |-> 10]]]
\* Short goals and too many skills are said and never fail the command; a directory's
\* integrity is that of the files its manifest names.  bundle_validate_payload, validate.
ASSUME OnlyWhatIsNamed ==
    /\ \A goal \in {0, 10}, n \in 0..3 :
         LET answer == V!ValidatePayload({"file"}, Payload(goal, n))
         IN  answer.exit = 0 /\ (answer.warnings = {} <=> (goal = 10 \/ n = 0) /\ n <= 2)
    /\ \A extra \in SUBSET {"c"}, changed \in SUBSET {"a", "b"} :
         LET hash   == [f \in {"a", "b"} |-> 1]
             actual == [f \in {"a", "b"} \cup extra |-> IF f \in changed \cup extra THEN 2 ELSE 1]
             dir    == [manifest |-> TRUE, expected |-> hash, actual |-> actual,
                        skills |-> {"a"}, safe |-> {"a"}]
         IN  (V!ValidateDirectory(dir) = 0) <=> (changed = {})

-----------------------------------------------------------------------------
(* The commands that change or run something.                              *)
Configs == [org : {"", "o1"}, token : {"", "t"}]
Dirs == [files : [{"flows/f", "skills/s"} -> 1..2], skills : {{"s"}}, safe : {{}, {"s"}},
         manifest : {{}} \cup {{[version |-> v, info |-> i, hashes |-> [f \in {"flows/f"} |-> 1]]} :
                               v \in {"1.0", "2.0"}, i \in {"", "mine"}}]

\* What package writes is what validate accepts, and packaging again changes nothing; an
\* older manifest without info is given one.  package, update_manifest, validate.
ASSUME PackagedValid == \A dir \in Dirs : \A zip \in K!PackageBundle(dir).zip :
    \A m \in zip.manifest :
        /\ V!IntegrityHolds(m.hashes, zip.files)
        /\ K!UpdateManifest(zip) = zip
        /\ m.version = "2.0"

\* The watcher says that a reload was successful either when the server has the bundle
\* or when it answered 401.  dev, publish.
ASSUME HotReloadHonest == \A dir \in Dirs, config \in Configs, code \in {0, 201, 401, 409, 500} :
    LET update == K!DoUpdate(dir, config, code)
    IN  /\ update.published => update.says = "successful" /\ dir.skills \subseteq dir.safe
        /\ (update.says = "successful" /\ ~update.published) => code = 401

Statuses == {"pending", "running", "completed", "failed", "cancelled", "rejected"}
Histories == UNION {[1..n -> Statuses] : n \in 1..3}
\* agent run answers 0 only for a task it saw completed; run answers 0 also for one that
\* was cancelled or rejected, or that did not end while it looked.  And every run on a
\* server is a 404.  agent_run, run.
ASSUME RunsAnswer == \A config \in Configs, looks \in 1..3, statuses \in Histories :
    /\ K!AgentRun(config, 202, statuses, 2 * looks) = 0 =>
         \E i \in DOMAIN statuses : i <= looks /\ statuses[i] = "completed"
    /\ \A i \in DOMAIN statuses : statuses[i] \in {"cancelled", "rejected", "running"} =>
         K!PollTask(SubSeq(statuses, i, i), looks) = 0
    /\ \A kind \in {"agents", "flows"} : K!RunRemote(kind, config, statuses, looks) = 1

Agents == [role : {"clerk", "cook"}, active : BOOLEAN, goal : {"serve"}]
\* The snapshot of a crew has its roles in their order and none of its goals.
\* crew save, GET /agents.
ASSUME SnapshotsLoseGoals == \A a, b \in Agents :
    \A crew \in K!SaveCrew([org |-> "o1"], <<a, b>>, 200).file :
        /\ Len(crew.nodes) = Cardinality({i \in 1..2 : <<a, b>>[i].active})
        /\ \A i \in DOMAIN crew.nodes : crew.nodes[i].goal = ""

\* An export takes active agents alone, drops a role nobody has without a word, and is
\* an error when it finds nobody; the migration takes the inactive ones.
\* bundle export, crew export, export.
ASSUME ExportsTake == \A rows \in SUBSET Agents, roles \in SUBSET {"clerk", "cook"} :
    LET done == K!ExportBundle(rows, roles, FALSE)
    IN  /\ \A zip \in done.zip : zip # {} /\ \A a \in zip : a.active /\ a \in rows
        /\ (done.exit = 0) <=> (done.zip # {})
        /\ K!ExportCrew(rows, {}, FALSE).exit = 1
        /\ (\A a \in rows : ~a.active) /\ rows # {} =>
             done.exit = 1 /\ K!ExportMigration(rows, FALSE).files # {}

Givens == [role : {"", "cook"}, goal : {""}, backstory : {""},
           tools : {<<>>, <<"excel", "word">>}, maxIter : {0, 99}]
Row == [name |-> "chef", role |-> "", goal |-> "cook", backstory |-> "", description |-> "a chef",
        tools |-> <<"excel">>, provider |-> "mistral", maxIter |-> 0]
\* The payload made of a template names a role and a story, no tool twice and a provider
\* the API knows; its number of iterations is whatever was given.  templates_use.
ASSUME PayloadsOfTemplates == \A given \in Givens, code \in {201, 409, 422} :
    LET done == K!UseTemplate({Row}, "chef", given, FALSE, code)
    IN  /\ (done.exit = 0) <=> (code # 422)
        /\ \A p \in done.sent :
             /\ p.role # "" /\ p.backstory # "" /\ p.provider = "groq"
             /\ \A i, j \in DOMAIN p.tools : p.tools[i] = p.tools[j] => i = j
             /\ p.maxIter = (IF given.maxIter = 0 THEN 3 ELSE 99)

Bundle == [skills : SUBSET [name : {"s"}, safe : BOOLEAN, loads : BOOLEAN],
           roles : {{"clerk"}}, flows : {{"audit"}}]
\* One unsafe skill keeps every agent and flow of the bundle from running here; one that
\* does not load does not.  run, LocalExecutor.prepare.
ASSUME LocalRuns == \A bundle \in Bundle, kind \in {"agents", "flows"} :
    (K!RunLocal(kind, IF kind = "agents" THEN "clerk" ELSE "audit", bundle, TRUE) = 0)
        <=> (\A s \in bundle.skills : s.safe)

-----------------------------------------------------------------------------
(* The commands that rewrite the project's documents.                      *)
Headings == {h \in UNION {[1..n -> [step : {0, 1}, name : Written]] : n \in 1..2} :
                \A i, j \in DOMAIN h : h[i].step = h[j].step => i = j}
Trees == [config     : [name : {"expected", "other"}, step : {"expected", "other", "closing"},
                        total : 0..1, done : 0..1, pending : -1..1],
          plan       : [md : 0..1, json : 0..1],
          phaseState : {[wording |-> w, stale |-> FALSE, notes |-> n] :
                            w \in P!Wordings, n \in {<<>>, <<"estado-fase">>}},
          estado     : {"open", "other"}, readme : {"open", "other"}, heads : {<<>>}]

\* Correcting proyecto-config.json takes one run: whatever was done to it before, what
\* is left is the phase's name, which --fix does not write, and what has to be edited by
\* hand; a second run changes nothing.  _apply_fixes against _drift_report.
ASSUME FixSettles == \A t \in Trees :
    LET once == P!SyncConfig(t, TRUE, FALSE).tree
    IN  /\ P!Drift(once) \subseteq {"phase_name", "plan.json", "stale refs"}
        /\ P!SyncConfig(once, TRUE, FALSE).tree = once

\* A document that heads each step once has every name right after one correction,
\* whichever source it followed before, and no heading changes its step.
\* sync_step_names.
ASSUME NamesSettle == \A h \in Headings, source \in {"phaseState", "plan"} :
    LET t     == [heads |-> [d \in P!Heads |-> h]]
        after == P!SyncStepNames(t, source, TRUE).tree
    IN  /\ P!SyncStepNames(after, source, FALSE).pass
        /\ \A d \in P!Heads : \A i \in DOMAIN h : after.heads[d][i].step = h[i].step

\* A PASS means that no document of the phase still reads as the command expects to find
\* it before the closing, and that the configuration is at the closing step; a FAIL may
\* have closed them all.  The note that the second phase adds is added every time.
\* phase_close.
ASSUME PassIsClosed ==
    \A t \in {u \in Trees : u.config = [u.config EXCEPT !.name = "other", !.total = 0, !.done = 0]},
       usable \in SUBSET P!Files, checks \in {{"lint"}, {"unit"}} :
        LET testing == P!CertifyTesting(t, checks, usable)
            details == P!CertifyDetails(t, checks, usable)
        IN  /\ testing.pass => /\ testing.tree.config.step = "closing"
                               /\ testing.tree.phaseState.wording # "open"
                               /\ testing.tree.readme # "open"
            /\ details.pass => details.tree.config.step = "closing" /\ details.tree.estado # "open"
            /\ "phase-state" \in usable =>
                 Len(details.tree.phaseState.notes) = Len(t.phaseState.notes) + 1
            /\ "lint" \notin checks => ~testing.pass /\ ~details.pass
=============================================================================
