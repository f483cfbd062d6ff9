------------------------------- MODULE Suites -------------------------------
(* The commands of `fap` that run pytest and read its output: perf-check,  *)
(* stress-bench, coverage report, security-audit and test-step.  A run of  *)
(* pytest is given by what it prints and by its exit code; what a command  *)
(* makes of it is its verdict and the exit code it answers.                *)
EXTENDS Integers, Sequences, FiniteSets, SequencesExt, FiniteSetsExt

ExitOf(ok) == IF ok THEN 0 ELSE 1

-----------------------------------------------------------------------------
(* fap perf-check.  A test of the suite has a name, an outcome, the time   *)
(* it prints ({} when it prints none) and whether it prints at all: with   *)
(* -s what it prints stands on its line and pushes the outcome to the next.*)
Lines(test) ==
    IF test.prints
    THEN << [test |-> test.name, status |-> "", time |-> test.time],
            [test |-> "", status |-> test.outcome, time |-> {}] >>
    ELSE << [test |-> test.name, status |-> test.outcome, time |-> {}] >>

Output(tests) == FlattenSeq([i \in DOMAIN tests |-> Lines(tests[i])])

\* The summary line is read only when it starts with the number that passed.
Summary(tests) ==
    IF \E i \in DOMAIN tests : tests[i].outcome = "FAILED" THEN 0
    ELSE Cardinality({i \in DOMAIN tests : tests[i].outcome = "PASSED"})

\* A status alone on a line goes to the last timed test that has not passed.
ReadLine(parsed, line) ==
    LET open == {i \in DOMAIN parsed : parsed[i].time # {} /\ ~parsed[i].passed}
    IN  IF line.test # ""
        THEN Append(parsed, [test |-> line.test, passed |-> line.status = "PASSED",
                             time |-> line.time])
        ELSE IF line.status \notin {"PASSED", "FAILED", "ERROR"} \/ open = {} THEN parsed
        ELSE [parsed EXCEPT ![Max(open)].passed = line.status = "PASSED"]

RunAndParse(lines) == FoldLeft(ReadLine, <<>>, lines)

\* The thresholds of the benchmarks are put in the report and nowhere compared.
SuitePassed(parsed, summary) ==
    /\ \A i \in DOMAIN parsed : parsed[i].passed
    /\ summary = Len(parsed)

Slower(now, before) == before > 0 /\ (now - before) * 100 > 20 * before

Regressions(parsed, base) ==
    {i \in DOMAIN parsed : \E j \in DOMAIN base :
        /\ base[j].test = parsed[i].test
        /\ \E now \in parsed[i].time, before \in base[j].time : Slower(now, before)}

(* base holds the stored baseline or nothing.  --baseline stores the report*)
(* before --compare reads what is stored.                                  *)
PerfCheck(tests, base, baseline, compare) ==
    LET parsed == RunAndParse(Output(tests))
        stored == IF baseline /\ parsed # <<>> THEN {parsed} ELSE base
    IN  [stored |-> stored,
         exit   |-> ExitOf(/\ parsed # <<>>
                           /\ SuitePassed(parsed, Summary(tests))
                           /\ compare => \A b \in stored : Regressions(parsed, b) = {})]

-----------------------------------------------------------------------------
(* fap stress-bench.  An iteration has pytest's exit code and the outcomes *)
(* by test that its output shows.                                          *)
ParseSize(number, unit) ==
    number * (CASE unit = "GB" -> 1024 * 1024 * 1024 [] unit = "MB" -> 1024 * 1024
                [] unit = "KB" -> 1024 [] OTHER -> 1)

StressRow(iterations, test) ==
    \A i \in DOMAIN iterations :
        test \in DOMAIN iterations[i].tests /\ iterations[i].tests[test] = "PASSED"

StressBench(iterations) == ExitOf(\A i \in DOMAIN iterations : iterations[i].exit = 0)

-----------------------------------------------------------------------------
(* fap coverage report.  files maps the path of a file, as its parts, to   *)
(* its statements and to how many of them are covered; json holds it when  *)
(* coverage.json can be read.  The paths that do not start with src are    *)
(* left out.                                                               *)
ModuleOf(path) == SubSeq(path, 1, IF Len(path) > 3 THEN 3 ELSE 2)

Lines_In(files, mod, part) ==
    MapThenSumSet(LAMBDA p : files[p][part],
                  {p \in DOMAIN files : p[1] = "src" /\ ModuleOf(p) = mod})

Modules(files) == {ModuleOf(p) : p \in {q \in DOMAIN files : q[1] = "src"}}

Reaches(covered, statements, threshold) ==
    IF statements > 0 THEN covered * 100 >= threshold * statements ELSE 0 >= threshold

ModulePasses(files, mod, threshold) ==
    Reaches(Lines_In(files, mod, "covered"), Lines_In(files, mod, "statements"), threshold)

TotalPasses(files, threshold) ==
    LET Sum(part) == MapThenSumSet(LAMBDA mod : Lines_In(files, mod, part), Modules(files))
    IN  Reaches(Sum("covered"), Sum("statements"), threshold)

\* --module replaces the report of the terminal and leaves --cov=src in place.
Measured(module) == {"src"} \cup module

RowsShown(files, threshold, diff) ==
    {mod \in Modules(files) : ~(diff /\ ModulePasses(files, mod, threshold))}

\* The total is shown and not asked; with nothing to read, nothing is below.
CoverageReport(failed, json, threshold) ==
    ExitOf(~failed /\ \A files \in json : \A mod \in Modules(files) :
                        ModulePasses(files, mod, threshold))

-----------------------------------------------------------------------------
(* fap security-audit.                                                     *)
Categories == {"imports", "calls", "async", "regresion", "escape"}

\* category is {} or holds one; missing: a test file is not there; code: pytest's.
SecurityAudit(category, missing, json, code) ==
    IF ~(category \subseteq Categories) THEN 1
    ELSE IF missing THEN (IF json THEN 0 ELSE 1)
    ELSE code

(* fap test-step.  A checkout says which documents and which of the step's *)
(* test files are missing, what ruff and pytest exit with, and what the    *)
(* coverage data of the step says of each file that has a threshold.       *)
Steps == 1..7
Thresholds(step) ==
    IF step # 1 THEN <<>>
    ELSE [file \in {"mcp_pool", "service_connector", "sanitizer"} |->
            CASE file = "mcp_pool" -> 80 [] file = "service_connector" -> 70 [] OTHER -> 100]

\* importlib.util has no import_module: the lookup always ends in its except.
CoverageForFile(data, file) == {}

BelowThreshold(data, step) ==
    \E file \in DOMAIN Thresholds(step) :
        \E pct \in CoverageForFile(data, file) : pct < Thresholds(step)[file]

TestStep(step, cov, checkout) ==
    IF step \notin Steps THEN 1
    ELSE IF step = 7 THEN (IF checkout.docsMissing THEN 1 ELSE checkout.ruff)
    ELSE IF checkout.testsMissing THEN 1
    ELSE IF cov /\ BelowThreshold(checkout.data, step) THEN 2
    ELSE checkout.pytest
=============================================================================
