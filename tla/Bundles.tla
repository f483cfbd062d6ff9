------------------------------ MODULE Bundles ------------------------------
(***************************************************************************)
(* Bundles of one tenant: ImportService.process_bundle and delete_bundle,  *)
(* the rows of agent_catalog, workflow_templates and skill_catalog that    *)
(* they write, and the registries of flows and tools in which every API    *)
(* worker caches what it has loaded from those rows.                       *)
(*                                                                         *)
(* Import, delete and the lookup of a flow are handlers: those of one      *)
(* worker take turns on its event loop.  The lookup of a skill is made by  *)
(* a background thread that builds an agent, at any time.  Workers         *)
(* interleave at every database request, which is what a label of pc names *)
(* (and, as threads share the caches, every access to them).               *)
(*                                                                         *)
(* Bundles ship one agent, one flow and one skill, always the same ones.   *)
(* Left out: the archive's checks, of which only the refusal is seen; the  *)
(* code a row holds, which is the bundle's; other writers of the rows.     *)
(***************************************************************************)
EXTENDS Naturals, Sequences, FiniteSets

CONSTANTS
    Callers,    \* the requests and background threads, each of one worker
    Workers,    \* the API workers
    Versions,   \* the versions bundles come in
    Default,    \* version 1.0.0, the default of bundle_imports.version
    MaxFaults   \* bound: failed database requests and restarts

ASSUME VersionAssumption == Versions \subseteq Nat /\ Default \in Nat
ASSUME BoundAssumption   == MaxFaults \in Nat

VARIABLES
    imports,  \* the rows of bundle_imports; shipped is history, not a column
    rows,     \* the bundle each component's row belongs to, and is_active
    cache,    \* the bundle of the class in each worker's registries, 0 if none
    pc,       \* where each caller is
    home,     \* the worker that serves each caller
    body,     \* what each caller asks for
    got,      \* the bundle of the row each lookup has read, 0 if none
    faults    \* faults that happened

vars == <<imports, rows, cache, pc, home, body, got, faults>>

Kinds  == {"agent", "flow", "skill"}
Cached == {"flow", "skill"}

Imports   == [op : {"import"}, version : Versions, force : BOOLEAN, bundle : {0}]
Deletions == [op : {"delete"}, version : {Default}, force : {FALSE}, bundle : Nat \ {0}]
Lookups   == [op : Cached, version : {Default}, force : {FALSE}, bundle : {0}]
NoBody    == [op |-> "none", version |-> Default, force |-> FALSE, bundle |-> 0]

ImportRows == [version : Versions \union {Default}, shipped : Versions, active : BOOLEAN]

EndLabels == {"ok", "error", "refused", "dead"}
Labels == {"idle", "guard", "rpc", "del_import", "del_agent", "del_skill", "del_flow",
           "invalidate", "get", "fill"} \union EndLabels

TypeOK ==
    /\ imports \in Seq(ImportRows)
    /\ rows \in [Kinds -> [bundle : Nat, active : BOOLEAN]]
    /\ cache \in [Workers -> [Cached -> Nat]]
    /\ pc \in [Callers -> Labels]
    /\ home \in [Callers -> Workers]
    /\ body \in [Callers -> Imports \union Deletions \union Lookups \union {NoBody}]
    /\ got \in [Callers -> Nat]
    /\ faults \in 0..MaxFaults

Init ==
    /\ imports = << >>
    /\ rows = [k \in Kinds |-> [bundle |-> 0, active |-> FALSE]]
    /\ cache = [w \in Workers |-> [k \in Cached |-> 0]]
    /\ pc = [c \in Callers |-> "idle"]
    /\ home \in [Callers -> Workers]
    /\ body = [c \in Callers |-> NoBody]
    /\ got = [c \in Callers |-> 0]
    /\ faults = 0

-----------------------------------------------------------------------------
\* Database requests, each a plain execute() without retry.

Replies == {"ok", "lost", "refused"}

Fault == faults < MaxFaults /\ faults' = faults + 1

OnLoop(c) == body[c].op # "skill"

\* Labels a handler reaches without an await since its last step.
MidTurn == {"rpc", "del_agent", "del_skill", "del_flow", "invalidate", "fill"}

\* Variant: handlers run in threads.
Turn_Threads(c) == c \in Callers

\* On its worker's event loop a handler keeps its turn until it returns.
Turn(c) ==
    OnLoop(c) => \A e \in Callers \ {c} :
                     home[e] = home[c] /\ OnLoop(e) => pc[e] \notin MidTurn

Moves(c, from, to) ==
    /\ pc[c] = from
    /\ Turn(c)
    /\ pc' = [pc EXCEPT ![c] = to]
    /\ UNCHANGED <<home, body>>

Request(c, from, to, reply) ==
    \/ reply = "ok" /\ Moves(c, from, to) /\ UNCHANGED faults
    \/ reply # "ok" /\ Moves(c, from, "error") /\ Fault

-----------------------------------------------------------------------------
Ask(c, b, label) ==
    /\ pc[c] = "idle"
    /\ pc' = [pc EXCEPT ![c] = label]
    /\ body' = [body EXCEPT ![c] = b]
    /\ UNCHANGED <<imports, rows, cache, home, got, faults>>

AskImport(c) == \E b \in Imports : Ask(c, b, "guard")
AskDelete(c) == \E i \in DOMAIN imports :
                   Ask(c, [NoBody EXCEPT !.op = "delete", !.bundle = i], "del_import")
AskLookup(c) == \E b \in Lookups : Ask(c, b, "get")

\* _check_version_guard: the version recorded with the latest import, unless the
\* import is forced.  A bundle that is not valid is refused, too.
Downgrade(v) == imports # << >> /\ v < imports[Len(imports)].version

Guard(c) ==
    /\ \E reply \in {"ok", "refused"}, to \in {"rpc", "refused"} :
        /\ body[c].force => reply = "ok"
        /\ to = "rpc" => body[c].force \/ ~ Downgrade(body[c].version)
        /\ Request(c, "guard", to, reply)
    /\ UNCHANGED <<imports, rows, cache, got>>

\* import_bundle_atomic, as its last migration defines it: neither the version
\* nor is_active is written, so that a new row has the columns' defaults and a
\* row that exists keeps its is_active.
Upsert(row, b) == [bundle |-> b, active |-> row.bundle = 0 \/ row.active]

ImportRPC(c) ==
    \E reply \in Replies :
        /\ Request(c, "rpc", "invalidate", reply)
        /\ imports' = IF reply = "refused" THEN imports
                      ELSE Append(imports, [version |-> Default,
                                            shipped |-> body[c].version,
                                            active  |-> TRUE])
        /\ rows' = IF reply = "refused" THEN rows
                   ELSE [k \in Kinds |-> Upsert(rows[k], Len(imports) + 1)]
        /\ UNCHANGED <<cache, got>>

\* delete_bundle: four updates.
DeleteImport(c) ==
    \E reply \in Replies :
        /\ Request(c, "del_import", "del_agent", reply)
        /\ imports' = IF reply = "refused" THEN imports
                      ELSE [imports EXCEPT ![body[c].bundle].active = FALSE]
        /\ UNCHANGED <<rows, cache, got>>

\* is_active of the rows of bundle b becomes false.
Deactivate(row, b) == IF row.bundle = b THEN [row EXCEPT !.active = FALSE] ELSE row

DeleteRows(c, from, kind, to) ==
    \E reply \in Replies :
        /\ Request(c, from, to, reply)
        /\ rows' = IF reply = "refused" THEN rows
                   ELSE [rows EXCEPT ![kind] = Deactivate(@, body[c].bundle)]
        /\ UNCHANGED <<imports, cache, got>>

DeleteAgents(c) == DeleteRows(c, "del_agent", "agent", "del_skill")
DeleteSkills(c) == DeleteRows(c, "del_skill", "skill", "del_flow")

\* Variant: workflow templates are not part of a deletion.
DeleteFlows_None(c) ==
    /\ Request(c, "del_flow", "invalidate", "ok")
    /\ UNCHANGED <<imports, rows, cache, got>>

DeleteFlows(c)  == DeleteRows(c, "del_flow", "flow", "invalidate")

\* Variants: the tenant's caches are popped whole; only tools are invalidated.
Emptied_Popped(w) == [cache EXCEPT ![w] = [k \in {} |-> 0]]

Emptied_ToolsOnly(w) == [cache EXCEPT ![w]["skill"] = 0]

Emptied(w) == [cache EXCEPT ![w] = [k \in Cached |-> 0]]

\* Both end with the tenant's entries out of this worker's caches.  What an
\* import should register after that fails: ImportService has no security_guard.
Invalidate(c) ==
    /\ Moves(c, "invalidate", "ok")
    /\ cache' = Emptied(home[c])
    /\ UNCHANGED <<imports, rows, got, faults>>

\* get of either registry: what is cached, else the tenant's row, of which the
\* flow registry, but not the tool registry, asks that it be active.
Loadable(kind) ==
    IF kind = "flow" /\ ~ rows[kind].active THEN 0 ELSE rows[kind].bundle

Hit(c) ==
    /\ cache[home[c]][body[c].op] # 0
    /\ Moves(c, "get", "ok")
    /\ got' = [got EXCEPT ![c] = cache[home[c]][body[c].op]]
    /\ UNCHANGED <<imports, rows, cache, faults>>

Miss(c) ==
    /\ cache[home[c]][body[c].op] = 0
    /\ \E reply \in {"ok", "refused"} :
        /\ Request(c, "get", IF Loadable(body[c].op) = 0 THEN "refused" ELSE "fill", reply)
        /\ got' = [got EXCEPT ![c] = Loadable(body[c].op)]
        /\ UNCHANGED <<imports, rows, cache>>

Fill(c) ==
    /\ Moves(c, "fill", "ok")
    /\ cache' = [cache EXCEPT ![home[c]][body[c].op] = got[c]]
    /\ UNCHANGED <<imports, rows, got, faults>>

Get(c) == body[c].op \in Cached /\ (Hit(c) \/ Miss(c) \/ Fill(c))

Handle(c) ==
    \/ Guard(c) \/ ImportRPC(c)
    \/ DeleteImport(c) \/ DeleteAgents(c) \/ DeleteSkills(c) \/ DeleteFlows(c)
    \/ Invalidate(c) \/ Get(c)

\* A worker dies, with its callers and its caches, and is started again.
Restart(w) ==
    /\ pc' = [c \in Callers |-> IF home[c] = w /\ pc[c] \notin EndLabels \union {"idle"}
                                THEN "dead" ELSE pc[c]]
    /\ cache' = Emptied(w)
    /\ Fault
    /\ UNCHANGED <<imports, rows, home, body, got>>

Terminated == (\A c \in Callers : pc[c] \in EndLabels) /\ UNCHANGED vars

Next ==
    \/ \E c \in Callers : AskImport(c) \/ AskDelete(c) \/ AskLookup(c) \/ Handle(c)
    \/ \E w \in Workers : Restart(w)
    \/ Terminated

Spec == Init /\ [][Next]_vars

-----------------------------------------------------------------------------
\* Properties.

Deletes(c) == body[c].op = "delete"

\* What a request for deletion that was answered with success leaves behind:
\* nothing of the bundle is active, whatever was imported meanwhile.
DeletedInactive ==
    \A c \in Callers : Deletes(c) /\ pc[c] = "ok" =>
        /\ ~ imports[body[c].bundle].active
        /\ \A k \in Kinds : rows[k].bundle = body[c].bundle => ~ rows[k].active

\* "Invalidate memory cache to trigger reload without deleted assets": the
\* worker that deleted a bundle does not serve its flow again, though lookups
\* and imports go on there and elsewhere.
DeletedFlowUnloaded ==
    \A c \in Callers : Deletes(c) /\ pc[c] = "ok"
        => cache[home[c]]["flow"] # body[c].bundle

\* The same of skills.
DeletedSkillUnloaded ==
    \A c \in Callers : Deletes(c) /\ pc[c] = "ok"
        => cache[home[c]]["skill"] # body[c].bundle

\* The parts of an inductive invariant that implies DeletedInactive and
\* DeletedFlowUnloaded.  What a handler does is what was asked for; a bundle to
\* delete exists; one handler of a worker at most is in its turn.
HandlerInv ==
    /\ \A c \in Callers :
        /\ pc[c] = "idle" => body[c].op = "none"
        /\ pc[c] \in {"guard", "rpc"} => body[c].op = "import"
        /\ pc[c] \in {"del_import", "del_agent", "del_skill", "del_flow"} => Deletes(c)
        /\ pc[c] = "invalidate" => body[c].op \in {"import", "delete"}
        /\ pc[c] \in {"get", "fill"} => body[c].op \in Cached
        /\ Deletes(c) => body[c].bundle \in 1..Len(imports)
    /\ \A c, e \in Callers :
        pc[c] \in MidTurn /\ pc[e] \in MidTurn /\ OnLoop(c) /\ OnLoop(e) /\ home[c] = home[e]
            => c = e

Inactive(row, b) == row.bundle = b => ~ row.active

\* What a deletion has updated so far stays inactive.
DeletionInv(c) ==
    /\ pc[c] \in {"del_agent", "del_skill", "del_flow", "invalidate", "ok"}
        => ~ imports[body[c].bundle].active
    /\ pc[c] \in {"del_skill", "del_flow", "invalidate", "ok"}
        => Inactive(rows["agent"], body[c].bundle)
    /\ pc[c] \in {"del_flow", "invalidate", "ok"}
        => Inactive(rows["skill"], body[c].bundle)
    /\ pc[c] \in {"invalidate", "ok"}
        => Inactive(rows["flow"], body[c].bundle)

\* No handler of the worker that deleted a bundle still holds its flow.
UnloadInv(c) ==
    pc[c] = "ok" =>
        /\ cache[home[c]]["flow"] # body[c].bundle
        /\ \A e \in Callers : body[e].op = "flow" /\ pc[e] = "fill" /\ home[e] = home[c]
                                 => got[e] # body[c].bundle

DeleteInv ==
    /\ TypeOK
    /\ HandlerInv
    /\ \A c \in Callers : Deletes(c) => DeletionInv(c) /\ UnloadInv(c)

\* A worker that has served all imports and deletions there were, and answered
\* them, has no other flow in its cache than the tenant's row says.
Changed(c) == body[c].op \in {"import", "delete"}

FlowCurrent ==
    \A w \in Workers :
        (\A c \in Callers : Changed(c) => home[c] = w /\ pc[c] \in {"ok", "refused"})
            => cache[w]["flow"] \in {0, rows["flow"].bundle}

\* "Prevent downgrades by comparing with the latest imported bundle version":
\* the bundle of an import that is not forced is not older than the one before.
NoDowngrade ==
    [][\A c \in Callers :
          Len(imports) > 0 /\ Len(imports') > Len(imports)
          /\ pc[c] = "rpc" /\ pc'[c] # "rpc" /\ ~ body[c].force
              => body[c].version >= imports[Len(imports)].shipped]_vars
=============================================================================
