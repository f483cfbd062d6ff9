----------------------------- MODULE Workflows -----------------------------
(***************************************************************************)
(* Workflow definitions, from the document to the process that serves      *)
(* them: ArchitectFlow, the rows of workflow_templates that POST and       *)
(* DELETE /workflows and the import of a bundle write, and the flow        *)
(* registry of the one API process, which is filled by its start and by    *)
(* lookups.  A lookup comes from a decision on an approval of a flow; the  *)
(* webhook, POST /flows/{type}/run, the execution of a ticket and the MCP  *)
(* tools ask has() first, which knows a tenant's flow by its key in memory *)
(* only, and load nothing.  The model allows a lookup at any time.         *)
(*                                                                         *)
(* A handler makes its requests without an await in between, so that the   *)
(* process serves it as one action; the imports of several workers and the *)
(* order of their requests are the subject of Bundles.                     *)
(*                                                                         *)
(* What DynamicWorkflow makes of a template is the function RunCrew and    *)
(* not a part of the state: the class a lookup binds has an empty          *)
(* template, and nothing in the API process registers one that has steps.  *)
(* load_dynamic_flows_from_db would, and nothing calls it; `fap run` does, *)
(* in a process of its own.                                                *)
(***************************************************************************)
EXTENDS Naturals, Sequences, SequencesExt

CONSTANTS
    Orgs,        \* tenants
    Wanted,      \* the flow_type that everybody asks for
    Suffixed,    \* the flow_types with a suffix that the architect may try
    Definitions, \* definitions: see Definition below
    Rules,       \* approval rules
    Text,        \* a result of a step that is not a number
    NoRow,       \* no row, no class
    MaxBundles, MaxWorkflowFaults,   \* bounds
    Cyclic(_)    \* no_circular_dependencies finds a cycle: WorkflowGraph has the search

(* A definition has steps, the agent's role missing in some, the steps each
   one depends on, and approval rules. *)
Definition(d) ==
    /\ d.steps \in Seq(DOMAIN d.deps) /\ d.mute \subseteq DOMAIN d.deps
    /\ d.rules \in Seq(Rules)

\* A rule's operator is "none" when no operator and number are found in it.
Ops == {">=", "<=", "==", ">", "<", "none"}

Names  == {Wanted} \union Suffixed
Empty  == [steps |-> <<>>, mute |-> {}, rules |-> <<>>, deps |-> <<>>]   \* no keys
Stored == Definitions \union {Empty}
Rows   == [definition : Stored, active : BOOLEAN]

ASSUME WorkflowsAssumption ==
    /\ \A d \in Definitions : Definition(d)
    /\ \A r \in Rules : r.op \in Ops /\ r.at \in Nat
    /\ Text \notin Nat
    /\ NoRow \notin Rows
    /\ MaxBundles \in Nat /\ MaxWorkflowFaults \in Nat

\* Who made a bundle's flow file: the architect; somebody who put the definition's
\* keys at the top, as docs/bundle-schema-v2.md does, or under a key `definition`.
Makers == {"architect", "flat", "nested"}

VARIABLES
    bundles,   \* bundles made and not imported yet
    row,       \* workflow_templates, by tenant and flow_type
    flows,     \* FlowRegistry._flows, by tenant and flow_type: the definition bound
    workflowFaults,
    stale      \* history: tenants of which an import's answer was lost or a workflow
               \* archived since their flows were last emptied

workflowVars == <<bundles, row, flows, workflowFaults, stale>>

WorkflowTypeOK ==
    /\ bundles \subseteq [org : Orgs, name : Names, maker : Makers, definition : Definitions]
    /\ row \in [Orgs -> [Names -> Rows \union {NoRow}]]
    /\ flows \in [Orgs -> [Names -> Definitions \union {NoRow}]]
    /\ \A o \in Orgs, n \in Names : flows[o][n] # NoRow => row[o][n] # NoRow
    /\ workflowFaults \in 0..MaxWorkflowFaults /\ stale \subseteq Orgs

WorkflowInit ==
    /\ bundles = {}
    /\ row = [o \in Orgs |-> [n \in Names |-> NoRow]]
    /\ flows = [o \in Orgs |-> [n \in Names |-> NoRow]]
    /\ workflowFaults = 0 /\ stale = {}

WorkflowFault == workflowFaults < MaxWorkflowFaults /\ workflowFaults' = workflowFaults + 1

-----------------------------------------------------------------------------
\* Writing definitions

Having(n) == {o \in Orgs : row[o][n] # NoRow}

\* _ensure_unique_flow_type: the name asked for, or one with a suffix when some
\* tenant has it.  The query wants one row at most: it raises when two have it.
FreeNames == IF Having(Wanted) = {} THEN {Wanted}
             ELSE {n \in Suffixed : Having(n) = {}}

Bundle(b) ==
    /\ Cardinality(bundles) < MaxBundles
    /\ bundles' = bundles \union {b}
    /\ UNCHANGED <<row, flows, workflowFaults, stale>>

\* What the agent answers is validated, gets its name and becomes a bundle, which
\* the user downloads: nothing is stored.
Generate(o, d) ==
    /\ ~Cyclic(d.deps) /\ d.mute = {}
    /\ Cardinality(Having(Wanted)) <= 1
    /\ \E n \in FreeNames :
          Bundle([org |-> o, name |-> n, maker |-> "architect", definition |-> d])

WriteByHand(o, d) ==
    \E m \in Makers \ {"architect"} :
        Bundle([org |-> o, name |-> Wanted, maker |-> m, definition |-> d])

\* POST /workflows: 409 when the tenant has the flow_type, archived or not.
Create(o, d) ==
    /\ row[o][Wanted] = NoRow
    /\ row' = [row EXCEPT ![o][Wanted] = [definition |-> d, active |-> TRUE]]
    /\ UNCHANGED <<bundles, flows, workflowFaults, stale>>

\* DELETE /workflows/{flow_type}
Archive(o, n) ==
    /\ row[o][n] # NoRow
    /\ row' = [row EXCEPT ![o][n].active = FALSE]
    /\ stale' = stale \union {o}
    /\ UNCHANGED <<bundles, flows, workflowFaults>>

\* import_bundle_atomic stores the value of the key `definition`, and a row it
\* finds keeps its is_active.
Imported(old, b) ==
    [definition |-> IF b.maker = "nested" THEN b.definition ELSE Empty,
     active     |-> IF old = NoRow THEN TRUE ELSE old.active]

\* A plausible slip: the flows in memory are left alone.
Import_KeepsCache(b) ==
    /\ b \in bundles
    /\ bundles' = bundles \ {b}
    /\ row' = [row EXCEPT ![b.org][b.name] = Imported(@, b)]
    /\ UNCHANGED <<flows, workflowFaults, stale>>

\* The rows are written, and then the tenant's flows are emptied.
Import(b) ==
    /\ b \in bundles
    /\ bundles' = bundles \ {b}
    /\ row' = [row EXCEPT ![b.org][b.name] = Imported(@, b)]
    /\ flows' = [flows EXCEPT ![b.org] = [n \in Names |-> NoRow]]
    /\ stale' = stale \ {b.org}
    /\ UNCHANGED workflowFaults

\* The answer of the import is lost: the rows are written, the flows are not emptied.
ImportLost(b) ==
    /\ b \in bundles /\ WorkflowFault
    /\ bundles' = bundles \ {b}
    /\ row' = [row EXCEPT ![b.org][b.name] = Imported(@, b)]
    /\ stale' = stale \union {b.org}
    /\ UNCHANGED flows

-----------------------------------------------------------------------------
\* Looking flows up

\* _load_from_db: an active row with a definition.
Registrable(r) == r # NoRow /\ r.active /\ r.definition # Empty

\* The process starts again and warms up: each active row of each tenant is looked
\* up.  A flow, a tenant or all of them are left out when a request fails.
Warmup ==
    /\ LET warm == [o \in Orgs |-> [n \in Names |->
                      IF Registrable(row[o][n]) THEN row[o][n].definition ELSE NoRow]]
       IN  \/ flows' = warm /\ UNCHANGED workflowFaults
          \/ /\ flows' \in [Orgs -> [Names -> Definitions \union {NoRow}]]
             /\ \A o \in Orgs, n \in Names : flows'[o][n] \in {warm[o][n], NoRow}
             /\ WorkflowFault
    /\ stale' = {}
    /\ UNCHANGED <<bundles, row>>

\* FlowRegistry.get: a flow that is not in memory is loaded, and bound to the row's
\* definition.
Lookup(o, n) ==
    /\ flows[o][n] = NoRow /\ Registrable(row[o][n])
    /\ flows' = [flows EXCEPT ![o][n] = row[o][n].definition]
    /\ UNCHANGED <<bundles, row, workflowFaults, stale>>

-----------------------------------------------------------------------------
\* Running

Compares(op, v, at) ==
    CASE op = ">=" -> v >= at
      [] op = "<=" -> v <= at
      [] op = "==" -> v = at
      [] op = ">"  -> v > at
      [] op = "<"  -> v < at
      [] op = "none" -> FALSE

\* _check_approval_rule: any result that is a number, whatever the rule's left side
\* names.
Triggered(rule, results) ==
    \E s \in DOMAIN results : results[s] # Text /\ Compares(rule.op, results[s], rule.at)

NeedsApproval(rules, results) == \E i \in DOMAIN rules : Triggered(rules[i], results)

\* _run_crew over a template whose i-th step comes to answers[i]: a step without an
\* agent is passed over, a result takes the place of an earlier one of its name, and
\* the run waits where a rule asks about the results so far.
RunCrew(t, answers) ==
    LET Take(s, i) ==
            IF s.waits \/ t.steps[i] \in t.mute THEN s
            ELSE LET results == (t.steps[i] :> answers[i]) @@ s.results
                 IN  [results |-> results, waits |-> NeedsApproval(t.rules, results)]
    IN  FoldLeft(Take, [results |-> <<>>, waits |-> FALSE], [i \in 1..Len(t.steps) |-> i])

-----------------------------------------------------------------------------

Write == \E o \in Orgs, d \in Definitions :
            Generate(o, d) \/ WriteByHand(o, d) \/ Create(o, d)

WorkflowNext ==
    \/ Write
    \/ \E o \in Orgs, n \in Names : Archive(o, n) \/ Lookup(o, n)
    \/ \E b \in bundles : Import(b) \/ ImportLost(b)
    \/ Warmup

WorkflowSpec == WorkflowInit /\ [][WorkflowNext]_workflowVars

-----------------------------------------------------------------------------

\* The definition bound to a flow in memory is the one of the row, and the row is
\* active, unless the tenant archived a workflow, or an import's answer was lost,
\* since.  ImportService.process_bundle, FlowRegistry._load_from_db.
CacheCurrent ==
    \A o \in Orgs \ stale, n \in Names : flows[o][n] # NoRow =>
        row[o][n] = [definition |-> flows[o][n], active |-> TRUE]

\* "Desactivar (soft-delete) un workflow": no flow in memory is of an archived one.
ArchivedNotServed ==
    \A o \in Orgs, n \in Names : flows[o][n] # NoRow => row[o][n].active
=============================================================================
