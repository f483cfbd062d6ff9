---------------------------- MODULE ProjectDocs ----------------------------
(***************************************************************************)
(* The documents that say where the project stands, and the commands of    *)
(* fap that rewrite them: phase-close, sync-config and sync-step-names.    *)
(*                                                                         *)
(* A document is what the commands look for in it; a working tree is a     *)
(* record of the documents:                                                *)
(*   config      proyecto-config.json                                      *)
(*   plan        the number of steps of plan.md and of plan.json           *)
(*   phaseState  phase-state.md                                            *)
(*   estado      estado-fase.md                                            *)
(*   readme      README.md                                                 *)
(*   heads       the headings of steps in TESTING.md and CHANGELOG.md      *)
(* A command is a function from a tree to the tree it leaves and whether   *)
(* it reports success.  It edits one document after the other; one that    *)
(* cannot be read or written is left as it is, and phase-close goes on     *)
(* with the next.                                                          *)
(***************************************************************************)
EXTENDS Integers, Sequences, SequencesExt, FiniteSets

CONSTANTS
    Headed,      \* numbers of the steps that have a canonical name
    Canonical    \* for each source, the name of each of those steps

Files == {"config", "phase-state", "estado", "readme", "archive"}
Heads == {"TESTING", "CHANGELOG"}

\* A text is as the commands expect to find it, as they leave it, or worded
\* otherwise.
Wordings == {"open", "closed", "other"}
Closed(wording) == IF wording = "open" THEN "closed" ELSE wording

-----------------------------------------------------------------------------
\* sync-config

\* _drift_report
Drift(t) ==
    {f \in {"phase_name", "current_step", "total", "pending", "plan.json", "stale refs"} :
        CASE f = "phase_name"   -> t.config.name # "expected"
          [] f = "current_step" -> t.config.step # "expected"
          [] f = "total"        -> t.config.total # t.plan.md
          [] f = "pending"      -> t.config.pending # t.plan.md - t.config.done
          [] f = "plan.json"    -> t.plan.json < t.plan.md
          [] f = "stale refs"   -> t.phaseState.stale}

\* _apply_fixes, which leaves the name of the phase.
Fixed(t) ==
    [t EXCEPT !.config.step = "expected", !.config.total = t.plan.md,
              !.config.pending = t.plan.md - t.config.done]

\* With --check the exit code is that of the drift found before the corrections.
SyncConfig(t, fix, dryRun) ==
    [tree |-> IF Drift(t) # {} /\ fix /\ ~dryRun THEN Fixed(t) ELSE t,
     pass |-> Drift(t) = {}]

-----------------------------------------------------------------------------
\* sync-step-names

\* _scan_heads: of several headings of a step the last one counts.
Scanned(hs) ==
    [s \in {hs[i].step : i \in DOMAIN hs} |->
        hs[SelectLastInSeq(hs, LAMBDA h : h.step = s)].name]

Discrepancies(hs, names) ==
    {s \in DOMAIN names \intersect DOMAIN Scanned(hs) : Scanned(hs)[s] # names[s]}

\* str.replace, once: the first heading of the step whose text begins with the name
\* found takes the canonical one in its place.
Renamed(hs, s, names) ==
    LET found == Scanned(hs)[s]
        i     == SelectInSeq(hs, LAMBDA h : h.step = s /\ IsPrefix(found, h.name))
        rest  == SubSeq(hs[i].name, Len(found) + 1, Len(hs[i].name))
    IN  [hs EXCEPT ![i].name = names[s] \o rest]

Corrected(hs, names) ==
    FoldLeft(LAMBDA acc, s : Renamed(acc, s, names), hs, SetToSeq(Discrepancies(hs, names)))

SyncStepNames(t, source, fix) ==
    LET names == Canonical[source]
    IN  [tree |-> [t EXCEPT !.heads = IF fix THEN [d \in Heads |-> Corrected(@[d], names)] ELSE @],
         pass |-> \A d \in Heads : Discrepancies(t.heads[d], names) = {}]

-----------------------------------------------------------------------------
\* phase-close --certify.  `checks` are the suites that passed, `usable` the files
\* that can be read and written.

Suites(phase) ==
    IF phase = "testing"
    THEN {"lint", "unit", "integration", "e2e", "security", "stress", "perf", "coverage"}
    ELSE {"lint", "unit", "e2e"}

\* The documents whose discrepancies a phase resolves.  D6 is only noted, and every
\* name but "testing" closes the phase of the scenarios.
Edited(phase) ==
    IF phase = "testing" THEN {"config", "phase-state", "readme", "archive"}
                         ELSE {"config", "estado", "phase-state"}

\* resolve_d5 looks for "Fuente canonica", which its own note does not contain.
Noted(p) == [p EXCEPT !.notes = Append(@, "estado-fase")]

\* resolve_testing_phase_state
TestingClosed(p) ==
    [p EXCEPT !.wording = Closed(@), !.notes = [i \in DOMAIN @ |-> "phase-state"]]

\* The other suites that fail are warnings or errors of the report.
Verdict(phase, checks, usable) == "lint" \in checks /\ Edited(phase) \subseteq usable

\* phase_close --phase testing --certify, and the same for any other name: every file
\* that can be edited is edited, whatever the suites said.
CertifyTesting(t, checks, usable) ==
    LET does(file) == file \in Edited("testing") \intersect usable
    IN  [tree |-> [t EXCEPT
                     !.config.step = IF does("config") THEN "closing" ELSE @,
                     !.phaseState  = IF does("phase-state") THEN TestingClosed(@) ELSE @,
                     !.readme      = IF does("readme") THEN Closed(@) ELSE @],
         pass |-> Verdict("testing", checks, usable)]

CertifyDetails(t, checks, usable) ==
    LET does(file) == file \in Edited("details4agents") \intersect usable
    IN  [tree |-> [t EXCEPT
                     !.config.step = IF does("config") THEN "closing" ELSE @,
                     !.estado      = IF does("estado") THEN Closed(@) ELSE @,
                     !.phaseState  = IF does("phase-state") THEN Noted(@) ELSE @],
         pass |-> Verdict("details4agents", checks, usable)]
=============================================================================
