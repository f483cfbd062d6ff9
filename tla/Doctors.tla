------------------------------ MODULE Doctors ------------------------------
(* The commands of `fap` that pronounce a checkout healthy: doctor builder,*)
(* doctor backend, baseline check, check-env, check-deadlock, the seeding  *)
(* of the system templates and `fap dogfood check`, which runs seven of    *)
(* them one after the other.  Each is a function from what it reads to its *)
(* verdict and to the exit code a pipeline sees.                           *)
(*                                                                         *)
(* A checkout is a record of files.  A file is {} when it does not exist   *)
(* and {t} otherwise, t the set of those texts the checks look for that    *)
(* occur in it; a directory is the set of the files' texts.  An answer of  *)
(* an HTTP call is a status code, or "down" when nothing listens.          *)
EXTENDS Integers, Sequences, FiniteSets, TLC

LOCAL INSTANCE Functions

CONSTANTS Templates, MinGoal, MinBackstory

Exists(file) == file # {}
Has(file, text) == \E t \in file : text \in t
AllOf(checks) == \A i \in DOMAIN checks : checks[i]
ExitOf(ok) == IF ok THEN 0 ELSE 1

----------------------------------------------------------------------------
(* fap doctor builder.                                                     *)
SeedIdempotency(seed) ==
    /\ ~(Has(seed, "select id") /\ Has(seed, "insert"))
    /\ Has(seed, "upsert") \/ Has(seed, "on_conflict")

BreadcrumbSync(page, crumb) ==
    /\ Exists(page) /\ Exists(crumb)
    /\ Has(page, "activeTab fixed") => Has(page, "BuilderTabProvider")

MockPatching(scenarios) ==
    Exists(scenarios) /\ ~Has(scenarios, "patch session")

\* One ".min(10" anywhere in the form stands for both of its fields.
TypescriptIntegrity(form) ==
    /\ \A text \in {"min(10", "goal", "backstory"} : Has(form, text)
    /\ Has(form, "z.enum provider") => Has(form, "z.string provider")

ConftestRegression(conftest) ==
    Exists(conftest) /\ ~Has(conftest, "global_llm_mock")

ConftestTenantPatches(conftest) ==
    Has(conftest, "patch agents tenant")

BuilderChecks(repo) ==
    << SeedIdempotency(repo.seed), BreadcrumbSync(repo.page, repo.crumb),
       MockPatching(repo.scenarios), TypescriptIntegrity(repo.form),
       ConftestTenantPatches(repo.conftest), ConftestRegression(repo.conftest) >>

DoctorBuilder(repo) == ExitOf(AllOf(BuilderChecks(repo)))

----------------------------------------------------------------------------
(* fap doctor backend.  phaseState holds sequences of lines, a line being  *)
(* the texts in it; cli the texts of every file under src/cli; migration   *)
(* and catalog the migration of agent_catalog and the route of the agents. *)
StrictTyping(catalog) ==
    Has(catalog, "created_at: str") /\ ~Has(catalog, "created_at: str | None")

\* Only the first line that names /api/templates and the one after it count.
DocCodeSync(phaseState) ==
    /\ Exists(phaseState)
    /\ \A lines \in phaseState : \A i \in DOMAIN lines :
         /\ "/api/templates" \in lines[i]
         /\ \A j \in 1..(i - 1) : "/api/templates" \notin lines[j]
         => \A j \in {i, i + 1} \cap DOMAIN lines : "require_org_id" \notin lines[j]

EventLoopHealth(cli) == \A t \in cli : "new_event_loop" \notin t

ConstantProvenance(schemas) ==
    \A c \in {"MIN_GOAL_LENGTH", "MIN_BACKSTORY_LENGTH",
              "MAX_FLOWS_PER_BUNDLE", "MAX_SKILLS_PER_BUNDLE"} : Has(schemas, c)

AsyncClientCoverage(cli) ==
    \A t \in cli : "httpx.Client(" \in t => "httpx.AsyncClient" \in t

EmojiFreeCli(cli) == \A t \in cli : "emoji" \notin t

TyperOptionStyle(seed) ==
    Exists(seed) /\ ~Has(seed, "bare Option") /\ ~Has(seed, "syntax error")

\* The NOT NULL the check names is looked for, and the answer not used.
DbSync(migration, catalog) ==
    /\ Has(migration, "created_at")
    /\ \A text \in {"created_at", "select", "select *"} : Has(catalog, text)

BackendChecks(repo) ==
    << StrictTyping(repo.catalog), DocCodeSync(repo.phaseState),
       EventLoopHealth(repo.cli), ConstantProvenance(repo.schemas),
       AsyncClientCoverage(repo.cli), EmojiFreeCli(repo.cli),
       TyperOptionStyle(repo.seed), DbSync(repo.migration, repo.catalog) >>

\* The exit code is raised in the branch that prints the table only.
DoctorBackend(repo, json) == ExitOf(json \/ AllOf(BackendChecks(repo)))

----------------------------------------------------------------------------
(* fap baseline check: the exit status of its three commands, the registry *)
(* of the tools ("error" when it raises, else the tools) and the fixtures. *)
ToolRegistry(registry) == registry # "error"

\* The fixtures the command prints are compared, and only warned about.
Fixtures(listing) == listing.exit = 0

BaselineGate(collects, suite, lint, registry, listing) ==
    ExitOf(AllOf(<< collects, suite, lint, ToolRegistry(registry), Fixtures(listing) >>))

(* fap check-env.  set are the variables with a value; example the         *)
(* variables of .env.example, {} when the file is missing.                 *)
Critical == {"SUPABASE_URL", "SUPABASE_SERVICE_KEY"}

FullProfile(example) == Critical \cup UNION example

CheckEnv(profile, set) ==
    ExitOf(profile \in {"integration", "full"} /\ Critical \subseteq set)

(* fap check-deadlock.  scan is {} when the path does not exist, else it   *)
(* holds the set of its files, "clean", "pattern" or "unreadable" each.    *)
CheckDeadlock(scan, check) ==
    ExitOf(Exists(scan) /\ (check => ~Has(scan, "pattern")))

----------------------------------------------------------------------------
(* fap templates seed.  The table maps the names of its rows to who wrote  *)
(* them last; Templates are the names the command ships.  fails says which *)
(* of its requests fail: the probe, the reset, and the rows of some names. *)
Upserted(table, rows) == table @@ [t \in rows |-> "shipped"]

WithoutSystem(table) == Restrict(table, DOMAIN table \ Templates)

SeedTemplates(table, reset, dry, fails) ==
    LET after == IF reset /\ ~fails.reset THEN WithoutSystem(table) ELSE table
        rows  == Templates \ fails.rows
    IN  IF ~dry /\ fails.probe
        THEN [table |-> table, inserted |-> {}, exit |-> 1]
        ELSE IF dry THEN [table |-> after, inserted |-> {}, exit |-> 0]
        ELSE [table    |-> Upserted(after, rows),
              inserted |-> rows \ DOMAIN after, exit |-> 0]

----------------------------------------------------------------------------
(* fap dogfood check.  Its own seeding counts a failed row against it; the *)
(* tools are compared by name; 409 counts as an agent that is there; the   *)
(* short goal of its bundle is put in a warning, so that its step fails    *)
(* only when the schema refuses the payload.                               *)
DogfoodSeed(table, fails) ==
    [table |-> IF fails.probe THEN table ELSE Upserted(table, Templates \ fails.rows),
     ok    |-> ~fails.probe /\ fails.rows = {}]

\* registered are the tools of the registry that have metadata, mcp those the
\* servers offer.  The loop that reads the servers cannot be started inside a loop.
CollectTools(registered, mcp, source, looping) ==
    (IF source # "mcp" THEN registered ELSE {})
    \cup (IF source # "local" /\ ~looping THEN mcp ELSE {})

ToolsAgree(registered, mcp, answer) ==
    /\ answer.code = 200
    /\ CollectTools(registered, mcp, "all", TRUE) = answer.tools

LongEnough(template) ==
    LET backstory == IF template.backstory > 0
                     THEN template.backstory ELSE template.description
    IN  template.goal >= MinGoal /\ backstory >= MinBackstory

DryRunAll(templates) == \A t \in templates : LongEnough(t)

AgentThere(code) == code \in {200, 201, 409}

BundleMinGoal(accepted) == accepted

BuilderNav(script) == script = "exit 0"

DogfoodSteps(repo, table, world) ==
    << AllOf(BuilderChecks(repo)), DogfoodSeed(table, world.fails).ok,
       ToolsAgree(world.registered, world.mcp, world.answer), DryRunAll(world.templates),
       AgentThere(world.created), BundleMinGoal(world.accepted),
       BuilderNav(world.script) >>

DogfoodCheck(repo, table, world, dry) ==
    ExitOf(dry \/ AllOf(DogfoodSteps(repo, table, world)))
=============================================================================
