-------------------------- MODULE Bundles_proofs --------------------------
(***************************************************************************)
(* Theorems about what comes in a bundle and what is run of it.            *)
(*                                                                         *)
(* Bundles: for every number of callers, workers, versions and faults.     *)
(*                                                                         *)
(* Workflows: its type invariant, that a flow in memory is what its row    *)
(* says, and that a run follows its template; for every set of tenants and *)
(* definitions.                                                            *)
(***************************************************************************)
EXTENDS Bundles, Workflows, SequenceTheorems, TLAPS

\* A step of a handler or thread moves it alone, and in its turn.
LEMMA MoveEffect ==
    ASSUME TypeOK, NEW c \in Callers, NEW from, NEW to \in Labels, Moves(c, from, to)
    PROVE  /\ pc[c] = from
           /\ pc' \in [Callers -> Labels]
           /\ pc'[c] = to
           /\ \A e \in Callers \ {c} : pc'[e] = pc[e]
           /\ home' = home /\ body' = body
           /\ Turn(c)
BY DEF Moves, TypeOK

\* A database request does the same, and may end in an error instead.
LEMMA RequestEffect ==
    ASSUME TypeOK, NEW c \in Callers, NEW from, NEW to \in Labels, NEW reply,
           Request(c, from, to, reply)
    PROVE  /\ pc[c] = from
           /\ pc' \in [Callers -> Labels]
           /\ pc'[c] \in {to, "error"}
           /\ reply # "ok" => pc'[c] = "error"
           /\ \A e \in Callers \ {c} : pc'[e] = pc[e]
           /\ home' = home /\ body' = body
           /\ Turn(c)
           /\ faults' \in 0..MaxFaults
<1>1. "error" \in Labels  BY DEF Labels, EndLabels
<1>2. CASE reply = "ok" /\ Moves(c, from, to) /\ UNCHANGED faults
  BY <1>2, MoveEffect DEF TypeOK
<1>3. CASE reply # "ok" /\ Moves(c, from, "error") /\ Fault
  <2>1. faults' \in 0..MaxFaults  BY <1>3, BoundAssumption DEF Fault, TypeOK
  <2>2. QED BY <1>1, <1>3, <2>1, MoveEffect
<1>4. QED BY <1>2, <1>3 DEF Request

\* Every step of a handler or thread preserves the types.
LEMMA HandleTyped ==
    ASSUME TypeOK, HandlerInv, NEW c \in Callers, Handle(c)
    PROVE  TypeOK'
<1> USE DEF Kinds, Cached
<1>1. {"rpc", "del_agent", "del_skill", "del_flow", "invalidate", "fill",
       "ok", "error", "refused"} \subseteq Labels
  BY DEF Labels, EndLabels
<1>2. CASE Guard(c)
  BY <1>1, <1>2, RequestEffect DEF Guard, TypeOK
<1>3. CASE ImportRPC(c)
  <2>1. PICK reply \in Replies : /\ Request(c, "rpc", "invalidate", reply)
                                 /\ ImportRPC(c)!(reply)
    BY <1>3 DEF ImportRPC
  <2>2. body[c].version \in Versions
    <3>1. body[c].op = "import"  BY <2>1, RequestEffect, <1>1 DEF HandlerInv
    <3>2. body[c] \notin Deletions \union Lookups \union {NoBody}
      <4>1. \A b \in Deletions : b.op = "delete"  BY DEF Deletions
      <4>2. \A b \in Lookups : b.op \in {"flow", "skill"}  BY DEF Lookups
      <4>3. NoBody.op = "none"  BY DEF NoBody
      <4>4. QED BY <3>1, <4>1, <4>2, <4>3
    <3>3. body[c] \in Imports  BY <3>2 DEF TypeOK
    <3>4. QED BY <3>3 DEF Imports
  <2>3. imports' \in Seq(ImportRows)
    <3> DEFINE new == [version |-> Default, shipped |-> body[c].version, active |-> TRUE]
    <3>1. new \in ImportRows  BY <2>2 DEF ImportRows
    <3>2. imports' = imports \/ imports' = Append(imports, new)  BY <2>1
    <3> HIDE DEF new
    <3>3. imports \in Seq(ImportRows)  BY DEF TypeOK
    <3>4. Append(imports, new) \in Seq(ImportRows)  BY <3>1, <3>3
    <3>5. QED BY <3>2, <3>3, <3>4
  <2>4. rows' \in [Kinds -> [bundle : Nat, active : BOOLEAN]]
    <3>1. Len(imports) + 1 \in Nat  BY DEF TypeOK
    <3>2. QED BY <2>1, <3>1 DEF TypeOK, Upsert
  <2>5. QED BY <1>1, <2>1, <2>3, <2>4, RequestEffect DEF TypeOK
<1>4. CASE DeleteImport(c)
  <2>1. PICK reply \in Replies : /\ Request(c, "del_import", "del_agent", reply)
                                 /\ DeleteImport(c)!(reply)
    BY <1>4 DEF DeleteImport
  <2>2. imports' \in Seq(ImportRows)
    <3> DEFINE new == [imports[body[c].bundle] EXCEPT !.active = FALSE]
    <3>1. body[c].bundle \in 1..Len(imports)
      BY <1>1, <2>1, RequestEffect DEF HandlerInv, Deletes
    <3>2. new \in ImportRows
      <4>1. imports[body[c].bundle] \in ImportRows  BY <3>1 DEF TypeOK
      <4>2. QED BY <4>1 DEF ImportRows
    <3>3. imports' = imports \/ imports' = [imports EXCEPT ![body[c].bundle] = new]
      BY <2>1
    <3> HIDE DEF new
    <3>4. imports \in Seq(ImportRows)  BY DEF TypeOK
    <3>5. [imports EXCEPT ![body[c].bundle] = new] \in Seq(ImportRows)
      BY <3>1, <3>2, <3>4
    <3>6. QED BY <3>3, <3>4, <3>5
  <2>3. QED BY <1>1, <2>1, <2>2, RequestEffect DEF TypeOK
<1>5. ASSUME NEW from, NEW kind \in Kinds, NEW to \in Labels, DeleteRows(c, from, kind, to)
      PROVE  TypeOK'
  <2>1. rows' \in [Kinds -> [bundle : Nat, active : BOOLEAN]]
    <3> DEFINE new == Deactivate(rows[kind], body[c].bundle)
    <3>1. new \in [bundle : Nat, active : BOOLEAN]
      <4>1. rows[kind] \in [bundle : Nat, active : BOOLEAN]  BY DEF TypeOK
      <4>2. [rows[kind] EXCEPT !.active = FALSE] \in [bundle : Nat, active : BOOLEAN]
        BY <4>1
      <4>3. QED BY <4>1, <4>2 DEF Deactivate
    <3>2. rows' \in {rows, [rows EXCEPT ![kind] = new]}  BY <1>5 DEF DeleteRows
    <3> HIDE DEF new
    <3>3. QED BY <3>1, <3>2 DEF TypeOK
  <2>2. QED BY <1>5, <2>1, RequestEffect DEF DeleteRows, TypeOK
<1>6. CASE DeleteAgents(c) \/ DeleteSkills(c) \/ DeleteFlows(c)
  BY <1>1, <1>5, <1>6 DEF DeleteAgents, DeleteSkills, DeleteFlows
<1>7. CASE Invalidate(c)
  BY <1>1, <1>7, MoveEffect DEF Invalidate, Emptied, TypeOK
<1>8. CASE Get(c)
  <2>1. CASE Hit(c)
    BY <1>1, <1>8, <2>1, MoveEffect DEF Get, Hit, TypeOK
  <2>2. CASE Miss(c)
    <3>1. Loadable(body[c].op) \in Nat  BY <1>8 DEF Get, Loadable, TypeOK
    <3>2. \E reply, to : to \in Labels /\ Request(c, "get", to, reply)
      BY <1>1, <2>2 DEF Miss
    <3>3. /\ pc' \in [Callers -> Labels] /\ faults' \in 0..MaxFaults
          /\ UNCHANGED <<home, body>>
      BY <3>2, RequestEffect
    <3>4. got' \in [Callers -> Nat] /\ UNCHANGED <<imports, rows, cache>>
      BY <2>2, <3>1 DEF Miss, TypeOK
    <3>5. QED BY <3>3, <3>4 DEF TypeOK
  <2>3. CASE Fill(c)
    BY <1>1, <1>8, <2>3, MoveEffect DEF Get, Fill, TypeOK
  <2>4. QED BY <1>8, <2>1, <2>2, <2>3 DEF Get
<1>9. QED BY <1>2, <1>3, <1>4, <1>6, <1>7, <1>8 DEF Handle

\* So does every request that arrives, ...
LEMMA AskTyped ==
    ASSUME TypeOK, NEW c \in Callers, AskImport(c) \/ AskDelete(c) \/ AskLookup(c)
    PROVE  TypeOK'
<1>1. {"guard", "del_import", "get"} \subseteq Labels  BY DEF Labels
<1>2. CASE AskImport(c)  BY <1>1, <1>2 DEF AskImport, Ask, TypeOK
<1>3. CASE AskDelete(c)
  <2>1. PICK i \in DOMAIN imports :
            Ask(c, [NoBody EXCEPT !.op = "delete", !.bundle = i], "del_import")
    BY <1>3 DEF AskDelete
  <2>2. i \in Nat \ {0}  BY DEF TypeOK
  <2>3. [NoBody EXCEPT !.op = "delete", !.bundle = i] \in Deletions
    BY <2>2 DEF NoBody, Deletions
  <2>4. QED BY <1>1, <2>1, <2>3 DEF Ask, TypeOK
<1>4. CASE AskLookup(c)  BY <1>1, <1>4 DEF AskLookup, Ask, TypeOK
<1>5. QED BY <1>2, <1>3, <1>4

\* ... and every restart.
LEMMA RestartTyped ==
    ASSUME TypeOK, NEW w \in Workers, Restart(w)
    PROVE  TypeOK'
<1>1. "dead" \in Labels  BY DEF Labels, EndLabels
<1>2. faults' \in 0..MaxFaults  BY BoundAssumption DEF Restart, Fault, TypeOK
<1>3. QED BY <1>1, <1>2 DEF Restart, Emptied, TypeOK

-----------------------------------------------------------------------------
\* A step of c on the way its request takes preserves HandlerInv; Turn keeps the
\* other handlers of the worker out.
LEMMA HandlerStep ==
    ASSUME TypeOK, HandlerInv, NEW c \in Callers,
           Turn(c), home' = home, body' = body, pc' \in [Callers -> Labels],
           \A e \in Callers \ {c} : pc'[e] = pc[e],
           Len(imports') \in Nat, Len(imports) <= Len(imports'),
           \/ pc'[c] \in EndLabels
           \/ pc'[c] = "rpc" /\ body[c].op = "import"
           \/ pc'[c] \in {"del_agent", "del_skill", "del_flow"} /\ Deletes(c)
           \/ pc'[c] = "invalidate" /\ body[c].op \in {"import", "delete"}
           \/ pc'[c] = "fill" /\ body[c].op \in Cached
    PROVE  HandlerInv'
<1>1. ASSUME NEW e \in Callers
      PROVE  /\ pc'[e] = "idle" => body'[e].op = "none"
             /\ pc'[e] \in {"guard", "rpc"} => body'[e].op = "import"
             /\ pc'[e] \in {"del_import", "del_agent", "del_skill", "del_flow"} => Deletes(e)'
             /\ pc'[e] = "invalidate" => body'[e].op \in {"import", "delete"}
             /\ pc'[e] \in {"get", "fill"} => body'[e].op \in Cached
  BY <1>1 DEF HandlerInv, Deletes, EndLabels
<1>2. \A e \in Callers : Deletes(e)' => body'[e].bundle \in 1..Len(imports')
  <2>1. Len(imports) \in Nat  BY DEF TypeOK
  <2>2. QED BY <2>1 DEF HandlerInv, Deletes
<1>3. ASSUME NEW d \in Callers, NEW e \in Callers,
             pc'[d] \in MidTurn, pc'[e] \in MidTurn, OnLoop(d), OnLoop(e), home[d] = home[e]
      PROVE  d = e
  BY <1>3 DEF HandlerInv, Turn
<1>4. QED BY <1>1, <1>2, <1>3 DEF HandlerInv, OnLoop, MidTurn

\* Every step of a handler or thread preserves HandlerInv.
LEMMA HandleHandler ==
    ASSUME TypeOK, HandlerInv, NEW c \in Callers, Handle(c)
    PROVE  HandlerInv'
<1>1. {"rpc", "del_agent", "del_skill", "del_flow", "invalidate", "fill",
       "ok", "error", "refused"} \subseteq Labels
  BY DEF Labels, EndLabels
<1>2. {"ok", "error", "refused"} \subseteq EndLabels  BY DEF EndLabels
<1>3. Len(imports) \in Nat  BY DEF TypeOK
<1>4. CASE Guard(c)
  BY <1>1, <1>2, <1>3, <1>4, RequestEffect, HandlerStep DEF Guard, HandlerInv
<1>5. CASE ImportRPC(c)
  <2>1. PICK reply \in Replies : /\ Request(c, "rpc", "invalidate", reply)
                                 /\ ImportRPC(c)!(reply)
    BY <1>5 DEF ImportRPC
  <2>2. Len(imports') \in Nat /\ Len(imports) <= Len(imports')
    BY <2>1, <1>3 DEF TypeOK
  <2>3. body[c].op = "import"  BY <1>1, <2>1, RequestEffect DEF HandlerInv
  <2>4. QED BY <1>1, <1>2, <2>1, <2>2, <2>3, RequestEffect, HandlerStep
<1>6. CASE DeleteImport(c)
  <2>1. PICK reply \in Replies : /\ Request(c, "del_import", "del_agent", reply)
                                 /\ DeleteImport(c)!(reply)
    BY <1>6 DEF DeleteImport
  <2>2. Len(imports') = Len(imports)  BY <2>1 DEF TypeOK
  <2>3. Deletes(c)  BY <1>1, <2>1, RequestEffect DEF HandlerInv
  <2>4. /\ Turn(c) /\ home' = home /\ body' = body /\ pc' \in [Callers -> Labels]
        /\ \A e \in Callers \ {c} : pc'[e] = pc[e]
        /\ pc'[c] \in {"del_agent", "error"}
    BY <1>1, <2>1, RequestEffect
  <2>5. QED BY <1>2, <1>3, <2>2, <2>3, <2>4, HandlerStep
<1>7. CASE DeleteAgents(c) \/ DeleteSkills(c) \/ DeleteFlows(c)
  <2>1. PICK from \in {"del_agent", "del_skill", "del_flow"}, kind \in Kinds,
             to \in {"del_skill", "del_flow", "invalidate"} : DeleteRows(c, from, kind, to)
    BY <1>7 DEF DeleteAgents, DeleteSkills, DeleteFlows, Kinds
  <2>2. PICK reply \in Replies : Request(c, from, to, reply) /\ UNCHANGED imports
    BY <2>1 DEF DeleteRows
  <2>3. Deletes(c)  BY <1>1, <2>1, <2>2, RequestEffect DEF HandlerInv
  <2>4. /\ Turn(c) /\ home' = home /\ body' = body /\ pc' \in [Callers -> Labels]
        /\ \A e \in Callers \ {c} : pc'[e] = pc[e]
        /\ pc'[c] \in {to, "error"}
    BY <1>1, <2>2, RequestEffect
  <2>5. Len(imports') = Len(imports) /\ body[c].op = "delete"  BY <2>2, <2>3 DEF Deletes
  <2>6. QED BY <1>2, <1>3, <2>3, <2>4, <2>5, HandlerStep
<1>8. CASE Invalidate(c)
  BY <1>1, <1>2, <1>3, <1>8, MoveEffect, HandlerStep DEF Invalidate
<1>9. CASE Get(c)
  <2>1. CASE Hit(c) \/ Fill(c)
    BY <1>1, <1>2, <1>3, <2>1, MoveEffect, HandlerStep DEF Hit, Fill
  <2>2. CASE Miss(c)
    <3>1. PICK to \in {"fill", "refused"}, reply \in {"ok", "refused"} :
              Request(c, "get", to, reply)
      BY <2>2 DEF Miss
    <3>2. UNCHANGED imports  BY <2>2 DEF Miss
    <3>3. body[c].op \in Cached  BY <1>9 DEF Get
    <3>4. /\ Turn(c) /\ home' = home /\ body' = body /\ pc' \in [Callers -> Labels]
          /\ \A e \in Callers \ {c} : pc'[e] = pc[e]
          /\ pc'[c] \in {to, "error"}
      BY <1>1, <3>1, RequestEffect
    <3>5. QED BY <1>2, <1>3, <3>1, <3>2, <3>3, <3>4, HandlerStep
  <2>3. QED BY <1>9, <2>1, <2>2 DEF Get
<1>10. QED BY <1>4, <1>5, <1>6, <1>7, <1>8, <1>9 DEF Handle

\* So does every request that arrives, ...
LEMMA AskHandler ==
    ASSUME TypeOK, HandlerInv, NEW c \in Callers,
           AskImport(c) \/ AskDelete(c) \/ AskLookup(c)
    PROVE  HandlerInv'
<1> DEFINE Asked(b, label) ==
        \/ label = "guard" /\ b.op = "import"
        \/ label = "del_import" /\ b.op = "delete" /\ b.bundle \in 1..Len(imports)
        \/ label = "get" /\ b.op \in Cached
<1>1. PICK b, label : Ask(c, b, label) /\ Asked(b, label)
  <2>1. CASE AskImport(c)  BY <2>1 DEF AskImport, Imports
  <2>2. CASE AskDelete(c)
    <3>1. PICK i \in DOMAIN imports :
              Ask(c, [NoBody EXCEPT !.op = "delete", !.bundle = i], "del_import")
      BY <2>2 DEF AskDelete
    <3>2. DOMAIN imports = 1..Len(imports)  BY DEF TypeOK
    <3>3. /\ [NoBody EXCEPT !.op = "delete", !.bundle = i].op = "delete"
          /\ [NoBody EXCEPT !.op = "delete", !.bundle = i].bundle = i
      BY DEF NoBody
    <3>4. QED BY <3>1, <3>2, <3>3
  <2>3. CASE AskLookup(c)  BY <2>3 DEF AskLookup, Lookups
  <2>4. QED BY <2>1, <2>2, <2>3
<1>2. /\ pc'[c] = label /\ body'[c] = b
      /\ \A e \in Callers \ {c} : pc'[e] = pc[e] /\ body'[e] = body[e]
      /\ UNCHANGED <<imports, home>>
  BY <1>1 DEF Ask, TypeOK
<1>3. QED BY <1>1, <1>2 DEF HandlerInv, Deletes, OnLoop, MidTurn, Cached

\* ... and every restart.
LEMMA RestartHandler ==
    ASSUME TypeOK, HandlerInv, NEW w \in Workers, Restart(w)
    PROVE  HandlerInv'
<1>1. \A e \in Callers : pc'[e] \in {pc[e], "dead"}  BY DEF Restart, TypeOK
<1>2. QED BY <1>1 DEF Restart, HandlerInv, Deletes, OnLoop, MidTurn, Cached

-----------------------------------------------------------------------------
\* No step makes a bundle's import or rows active again: an import writes rows
\* of its own, a deletion only deactivates.
LEMMA StaysInactive ==
    ASSUME TypeOK, HandlerInv, NEW e \in Callers, Handle(e), NEW b \in 1..Len(imports)
    PROVE  /\ ~ imports[b].active => ~ imports'[b].active
           /\ \A k \in Kinds : Inactive(rows[k], b) => Inactive(rows'[k], b)
<1>1. CASE ImportRPC(e)
  <2>1. \/ imports' = imports /\ rows' = rows
        \/ /\ imports' = Append(imports, [version |-> Default, shipped |-> body[e].version,
                                          active |-> TRUE])
           /\ rows' = [k \in Kinds |-> Upsert(rows[k], Len(imports) + 1)]
    BY <1>1 DEF ImportRPC
  <2>2. Len(imports) \in Nat /\ b # Len(imports) + 1  BY DEF TypeOK
  <2>3. CASE imports' = imports /\ rows' = rows  BY <2>3 DEF Inactive
  <2>4. CASE /\ imports' = Append(imports, [version |-> Default, shipped |-> body[e].version,
                                            active |-> TRUE])
             /\ rows' = [k \in Kinds |-> Upsert(rows[k], Len(imports) + 1)]
    <3>1. imports'[b] = imports[b]  BY <2>2, <2>4 DEF TypeOK
    <3>2. \A k \in Kinds : rows'[k].bundle = Len(imports) + 1  BY <2>4 DEF Upsert
    <3>3. QED BY <2>2, <3>1, <3>2 DEF Inactive
  <2>5. QED BY <2>1, <2>3, <2>4
<1>2. CASE DeleteImport(e)
  <2>1. \/ imports' = imports
        \/ imports' = [imports EXCEPT ![body[e].bundle] =
                                      [imports[body[e].bundle] EXCEPT !.active = FALSE]]
    BY <1>2 DEF DeleteImport
  <2>2. imports[b] \in ImportRows /\ imports \in Seq(ImportRows)  BY DEF TypeOK
  <2>3. [imports[b] EXCEPT !.active = FALSE].active = FALSE  BY <2>2 DEF ImportRows
  <2>4. rows' = rows  BY <1>2 DEF DeleteImport
  <2>5. imports'[b] \in {imports[b], [imports[b] EXCEPT !.active = FALSE]}
    BY <2>1, <2>2
  <2>6. QED BY <2>3, <2>4, <2>5 DEF Inactive
<1>3. CASE DeleteAgents(e) \/ DeleteSkills(e) \/ DeleteFlows(e)
  <2>1. PICK kind \in Kinds : rows' \in {rows, [rows EXCEPT ![kind] =
                                                   Deactivate(rows[kind], body[e].bundle)]}
    BY <1>3 DEF DeleteAgents, DeleteSkills, DeleteFlows, DeleteRows, Kinds
  <2>2. imports' = imports
    BY <1>3 DEF DeleteAgents, DeleteSkills, DeleteFlows, DeleteRows
  <2>3. ASSUME NEW k \in Kinds, Inactive(rows[k], b)
        PROVE  Inactive(rows'[k], b)
    <3>1. rows[k] \in [bundle : Nat, active : BOOLEAN]  BY DEF TypeOK
    <3>2. [rows[k] EXCEPT !.active = FALSE].active = FALSE  BY <3>1
    <3>3. rows'[k] \in {rows[k], [rows[k] EXCEPT !.active = FALSE]}
      BY <2>1, <2>3 DEF Deactivate, TypeOK
    <3>4. QED BY <2>3, <3>2, <3>3 DEF Inactive
  <2>4. QED BY <2>2, <2>3
<1>4. CASE Guard(e) \/ Invalidate(e) \/ Get(e)
  BY <1>4 DEF Guard, Invalidate, Get, Hit, Miss, Fill, Inactive
<1>5. QED BY <1>1, <1>2, <1>3, <1>4 DEF Handle

\* The step of a deletion updates what DeletionInv says of its next label.
LEMMA DeletionStep ==
    ASSUME TypeOK, HandlerInv, NEW c \in Callers, Handle(c), Deletes(c), DeletionInv(c)
    PROVE  DeletionInv(c)'
<1> DEFINE b == body[c].bundle
<1>1. {"del_agent", "del_skill", "del_flow", "invalidate", "ok", "error"} \subseteq Labels
  BY DEF Labels, EndLabels
<1>2. b \in 1..Len(imports)  BY DEF HandlerInv
<1>3. /\ ~ imports[b].active => ~ imports'[b].active
      /\ \A k \in Kinds : Inactive(rows[k], b) => Inactive(rows'[k], b)
  BY <1>2, StaysInactive
<1>4. {"agent", "skill", "flow"} \subseteq Kinds  BY DEF Kinds
<1>5. CASE DeleteImport(c)
  <2>1. PICK reply \in Replies : /\ Request(c, "del_import", "del_agent", reply)
                                 /\ DeleteImport(c)!(reply)
    BY <1>5 DEF DeleteImport
  <2>2. pc'[c] \in {"del_agent", "error"} /\ body' = body
    BY <1>1, <2>1, RequestEffect
  <2>3. pc'[c] = "del_agent" => reply = "ok"  BY <1>1, <2>1, RequestEffect
  <2>4. reply = "ok" => ~ imports'[b].active
    <3>1. imports[b] \in ImportRows /\ imports \in Seq(ImportRows)  BY <1>2 DEF TypeOK
    <3>2. [imports[b] EXCEPT !.active = FALSE].active = FALSE  BY <3>1 DEF ImportRows
    <3>3. reply = "ok" =>
             imports' = [imports EXCEPT ![b] = [imports[b] EXCEPT !.active = FALSE]]
      BY <2>1
    <3> DEFINE new == [imports[b] EXCEPT !.active = FALSE]
    <3>4. b \in DOMAIN imports  BY <1>2, <3>1
    <3>5. [imports EXCEPT ![b] = new][b] = new  BY <3>4
    <3>6. QED BY <3>2, <3>3, <3>5
  <2>5. QED BY <2>2, <2>3, <2>4 DEF DeletionInv
<1>6. ASSUME NEW from, NEW kind \in Kinds, NEW to \in Labels, DeleteRows(c, from, kind, to)
      PROVE  /\ pc[c] = from
             /\ pc'[c] \in {to, "error"} /\ body' = body
             /\ pc'[c] # "error" => Inactive(rows'[kind], b)
  <2>1. PICK reply \in Replies : /\ Request(c, from, to, reply)
                                 /\ DeleteRows(c, from, kind, to)!(reply)
    BY <1>6 DEF DeleteRows
  <2>2. ASSUME reply = "ok"  PROVE  Inactive(rows'[kind], b)
    <3>1. rows[kind] \in [bundle : Nat, active : BOOLEAN]  BY DEF TypeOK
    <3>2. [rows[kind] EXCEPT !.active = FALSE].active = FALSE  BY <3>1
    <3>3. rows'[kind] = Deactivate(rows[kind], b)  BY <2>1, <2>2 DEF TypeOK
    <3>4. QED BY <3>2, <3>3 DEF Deactivate, Inactive
  <2>3. /\ pc[c] = from /\ pc'[c] \in {to, "error"} /\ body' = body
        /\ reply # "ok" => pc'[c] = "error"
    BY <1>6, <2>1, RequestEffect
  <2>4. QED BY <2>2, <2>3
<1>7. CASE DeleteAgents(c) \/ DeleteSkills(c) \/ DeleteFlows(c)
  BY <1>1, <1>3, <1>4, <1>6, <1>7 DEF DeleteAgents, DeleteSkills, DeleteFlows, DeletionInv
<1>8. CASE Invalidate(c)
  BY <1>1, <1>3, <1>4, <1>8, MoveEffect DEF Invalidate, DeletionInv
<1>9. ~ Guard(c) /\ ~ ImportRPC(c) /\ ~ Get(c)
  <2>1. body[c].op = "delete" /\ pc[c] \notin {"guard", "rpc"}
    BY DEF Deletes, HandlerInv
  <2>2. QED BY <2>1 DEF Guard, ImportRPC, Get, Request, Moves, Cached
<1>10. QED BY <1>5, <1>7, <1>8, <1>9 DEF Handle

\* No step of another caller brings the flow of a deleted bundle back, nor does
\* the deletion's last step leave one behind.
LEMMA UnloadStep ==
    ASSUME TypeOK, HandlerInv, NEW e \in Callers, Handle(e),
           NEW c \in Callers, Deletes(c), DeletionInv(c), UnloadInv(c)
    PROVE  UnloadInv(c)'
<1> DEFINE b == body[c].bundle
<1> USE DEF Cached
<1>1. {"rpc", "del_agent", "del_skill", "del_flow", "invalidate", "fill", "ok", "error",
       "refused"} \subseteq Labels
  BY DEF Labels, EndLabels
<1>2. b \in Nat /\ b # 0  BY DEF HandlerInv, TypeOK
<1>3. body[c].op = "delete"  BY DEF Deletes
<1>4. CASE Guard(e) \/ ImportRPC(e) \/ DeleteImport(e) \/ DeleteAgents(e) \/ DeleteSkills(e)
           \/ DeleteFlows(e)
  <2>1. PICK to \in {"rpc", "refused", "invalidate", "del_agent", "del_skill", "del_flow"} :
            \E from, reply : Request(e, from, to, reply)
    BY <1>4 DEF Guard, ImportRPC, DeleteImport, DeleteAgents, DeleteSkills, DeleteFlows,
                DeleteRows
  <2>2. /\ pc'[e] \notin {"ok", "fill"}
        /\ \A d \in Callers \ {e} : pc'[d] = pc[d]
        /\ home' = home /\ body' = body
    BY <1>1, <2>1, RequestEffect
  <2>3. cache' = cache /\ got' = got
    BY <1>4 DEF Guard, ImportRPC, DeleteImport, DeleteAgents, DeleteSkills, DeleteFlows,
                DeleteRows
  <2>4. QED BY <2>2, <2>3 DEF UnloadInv
<1>5. CASE Invalidate(e)
  <2>1. /\ pc[e] = "invalidate" /\ pc'[e] = "ok" /\ Turn(e)
        /\ \A d \in Callers \ {e} : pc'[d] = pc[d]
        /\ home' = home /\ body' = body
    BY <1>1, <1>5, MoveEffect DEF Invalidate
  <2>2. /\ cache' = [cache EXCEPT ![home[e]] = [k \in Cached |-> 0]]
        /\ got' = got
    BY <1>5 DEF Invalidate, Emptied
  <2>3. home[e] \in Workers /\ home[c] \in Workers  BY DEF TypeOK
  <2>4. cache'[home[c]]["flow"] = IF home[c] = home[e] THEN 0 ELSE cache[home[c]]["flow"]
    BY <2>2, <2>3 DEF TypeOK
  <2>5. CASE e = c
    <3>1. ASSUME NEW d \in Callers, body[d].op = "flow", pc'[d] = "fill", home[d] = home[c]
          PROVE  FALSE
      <4>1. d # e /\ pc[d] = "fill"  BY <2>1, <3>1
      <4>2. OnLoop(e) /\ OnLoop(d)  BY <1>3, <2>5, <3>1 DEF OnLoop
      <4>3. QED BY <2>1, <2>5, <3>1, <4>1, <4>2 DEF Turn, MidTurn
    <3>2. QED BY <1>2, <2>1, <2>4, <2>5, <3>1 DEF UnloadInv
  <2>6. CASE e # c
    BY <1>2, <2>1, <2>2, <2>4, <2>6 DEF UnloadInv
  <2>7. QED BY <2>5, <2>6
<1>6. CASE Get(e)
  <2>1. body[e].op \in Cached /\ e # c  BY <1>3, <1>6 DEF Get
  <2>2. CASE Hit(e)
    <3>1. /\ pc'[e] = "ok"
          /\ \A d \in Callers \ {e} : pc'[d] = pc[d]
          /\ home' = home /\ body' = body
      BY <1>1, <2>2, MoveEffect DEF Hit
    <3>2. cache' = cache /\ \A d \in Callers \ {e} : got'[d] = got[d]
      BY <2>2 DEF Hit, TypeOK
    <3>3. QED BY <2>1, <3>1, <3>2 DEF UnloadInv
  <2>3. CASE Miss(e)
    <3>1. PICK reply : Request(e, "get", IF Loadable(body[e].op) = 0 THEN "refused" ELSE "fill",
                               reply)
      BY <2>3 DEF Miss
    <3>2. /\ pc'[e] = "fill" => Loadable(body[e].op) # 0
          /\ \A d \in Callers \ {e} : pc'[d] = pc[d]
          /\ home' = home /\ body' = body
      <4>1. CASE Loadable(body[e].op) = 0
        <5>1. Request(e, "get", "refused", reply)  BY <3>1, <4>1
        <5>2. QED BY <1>1, <5>1, RequestEffect
      <4>2. CASE Loadable(body[e].op) # 0
        <5>1. Request(e, "get", "fill", reply)  BY <3>1, <4>2
        <5>2. QED BY <1>1, <4>2, <5>1, RequestEffect
      <4>3. QED BY <4>1, <4>2
    <3>3. /\ cache' = cache
          /\ \A d \in Callers \ {e} : got'[d] = got[d]
          /\ got'[e] = Loadable(body[e].op)
      BY <2>3 DEF Miss, TypeOK
    <3>4. ASSUME pc[c] = "ok", body[e].op = "flow", Loadable("flow") # 0
          PROVE  Loadable("flow") # b
      BY <3>4 DEF DeletionInv, Inactive, Loadable
    <3>5. QED BY <2>1, <3>2, <3>3, <3>4 DEF UnloadInv
  <2>4. CASE Fill(e)
    <3>1. /\ pc[e] = "fill" /\ pc'[e] = "ok"
          /\ \A d \in Callers \ {e} : pc'[d] = pc[d]
          /\ home' = home /\ body' = body
      BY <1>1, <2>4, MoveEffect DEF Fill
    <3>2. got' = got  BY <2>4 DEF Fill
    <3>3. home[e] \in Workers /\ home[c] \in Workers  BY DEF TypeOK
    <3>4. cache'[home[c]]["flow"] = IF home[c] = home[e] /\ body[e].op = "flow"
                                      THEN got[e] ELSE cache[home[c]]["flow"]
      BY <2>1, <2>4, <3>3 DEF Fill, TypeOK
    <3>5. QED BY <2>1, <3>1, <3>2, <3>4 DEF UnloadInv
  <2>5. QED BY <1>6, <2>2, <2>3, <2>4 DEF Get
<1>7. QED BY <1>4, <1>5, <1>6 DEF Handle

-----------------------------------------------------------------------------
\* The parts together are inductive.
LEMMA DeleteInit ==
    Init => DeleteInv
<1> SUFFICES ASSUME Init PROVE DeleteInv  OBVIOUS
<1>1. "idle" \in Labels  BY DEF Labels
<1>2. TypeOK
  BY <1>1, BoundAssumption DEF Init, TypeOK, Kinds, Cached
<1>3. \A c \in Callers : pc[c] = "idle" /\ body[c].op = "none"  BY DEF Init, NoBody
<1>4. HandlerInv  BY <1>3 DEF HandlerInv, Deletes, MidTurn
<1>5. QED BY <1>2, <1>3, <1>4 DEF DeleteInv, Deletes

\* Every step preserves them.
LEMMA DeleteNext ==
    DeleteInv /\ [Next]_vars => DeleteInv'
<1> SUFFICES ASSUME DeleteInv, [Next]_vars PROVE DeleteInv'  OBVIOUS
<1> USE DEF DeleteInv
<1>1. ASSUME NEW e \in Callers, Handle(e)  PROVE  DeleteInv'
  <2>1. TypeOK' /\ HandlerInv'  BY <1>1, HandleTyped, HandleHandler
  <2>2. body' = body
    BY <1>1 DEF Handle, Guard, ImportRPC, DeleteImport, DeleteAgents, DeleteSkills,
                DeleteFlows, DeleteRows, Invalidate, Get, Hit, Miss, Fill, Request, Moves
  <2>3. ASSUME NEW c \in Callers, Deletes(c)'
        PROVE  DeletionInv(c)' /\ UnloadInv(c)'
    <3>1. Deletes(c)  BY <2>2, <2>3 DEF Deletes
    <3>2. UnloadInv(c)'  BY <1>1, <3>1, UnloadStep
    <3>3. CASE e = c  BY <1>1, <3>1, <3>2, <3>3, DeletionStep
    <3>4. CASE e # c
      <4>1. pc'[c] = pc[c]
        BY <1>1, <3>4 DEF Handle, Guard, ImportRPC, DeleteImport, DeleteAgents, DeleteSkills,
                          DeleteFlows, DeleteRows, Invalidate, Get, Hit, Miss, Fill, Request,
                          Moves, TypeOK
      <4>2. body[c].bundle \in 1..Len(imports)  BY <3>1 DEF HandlerInv
      <4>3. /\ ~ imports[body[c].bundle].active => ~ imports'[body[c].bundle].active
            /\ \A k \in Kinds : Inactive(rows[k], body[c].bundle)
                                   => Inactive(rows'[k], body[c].bundle)
        BY <1>1, <4>2, StaysInactive
      <4>4. {"agent", "skill", "flow"} \subseteq Kinds  BY DEF Kinds
      <4>5. QED BY <2>2, <3>1, <3>2, <4>1, <4>3, <4>4 DEF DeletionInv
    <3>5. QED BY <3>3, <3>4
  <2>4. QED BY <2>1, <2>3
<1>2. ASSUME NEW e \in Callers, AskImport(e) \/ AskDelete(e) \/ AskLookup(e)
      PROVE  DeleteInv'
  <2>1. TypeOK' /\ HandlerInv'  BY <1>2, AskTyped, AskHandler
  <2>2. PICK label \in {"guard", "del_import", "get"} : \E b : Ask(e, b, label)
    BY <1>2 DEF AskImport, AskDelete, AskLookup
  <2>3. /\ pc'[e] = label
        /\ \A d \in Callers \ {e} : pc'[d] = pc[d] /\ body'[d] = body[d]
        /\ UNCHANGED <<imports, rows, cache, home, got>>
    BY <2>2 DEF Ask, TypeOK
  <2>4. QED BY <2>1, <2>3 DEF Deletes, DeletionInv, UnloadInv, Inactive
<1>3. ASSUME NEW w \in Workers, Restart(w)  PROVE  DeleteInv'
  <2>1. TypeOK' /\ HandlerInv'  BY <1>3, RestartTyped, RestartHandler
  <2>2. \A d \in Callers : pc'[d] \in {pc[d], "dead"}  BY <1>3 DEF Restart, TypeOK
  <2>3. UNCHANGED <<imports, rows, home, body, got>>  BY <1>3 DEF Restart
  <2>4. \A c \in Callers : cache'[home[c]]["flow"] \in {0, cache[home[c]]["flow"]}
    BY <1>3 DEF Restart, Emptied, TypeOK, Cached
  <2>5. \A c \in Callers : Deletes(c) => body[c].bundle # 0  BY DEF HandlerInv, TypeOK
  <2>6. QED BY <2>1, <2>2, <2>3, <2>4, <2>5 DEF Deletes, DeletionInv, UnloadInv, Inactive
<1>4. CASE UNCHANGED vars
  BY <1>4 DEF vars, TypeOK, HandlerInv, Deletes, DeletionInv, UnloadInv, Inactive, OnLoop
<1>5. QED BY <1>1, <1>2, <1>3, <1>4 DEF Next, Terminated

\* Hence they hold throughout.
LEMMA DeleteInvariant ==
    Spec => []DeleteInv
BY DeleteInit, DeleteNext, PTL DEF Spec

\* The variables keep their types: of Spec, whatever callers ask for and however
\* they interleave.
THEOREM TypeCorrect ==
    Spec => []TypeOK
<1>1. DeleteInv => TypeOK  BY DEF DeleteInv
<1>2. QED BY <1>1, DeleteInvariant, PTL

\* After delete_bundle has answered, nothing of the bundle is active, whatever
\* other workers import, delete or look up meanwhile.
THEOREM DeletedInactiveCorrect ==
    Spec => []DeletedInactive
<1>1. DeleteInv => DeletedInactive
  BY DEF DeleteInv, DeletedInactive, DeletionInv, Inactive, Kinds
<1>2. QED BY <1>1, DeleteInvariant, PTL

\* The worker that has deleted a bundle does not serve its flow again.
THEOREM DeletedFlowUnloadedCorrect ==
    Spec => []DeletedFlowUnloaded
<1>1. DeleteInv => DeletedFlowUnloaded
  BY DEF DeleteInv, DeletedFlowUnloaded, UnloadInv
<1>2. QED BY <1>1, DeleteInvariant, PTL

-----------------------------------------------------------------------------
\* Every import and deletion so far is worker w's, none has failed, and none has
\* written rows that w has not dropped from its caches.
Caught(w) ==
    \A c \in Callers : Changed(c) =>
        /\ home[c] = w
        /\ pc[c] \notin {"error", "dead"}
        /\ pc[c] = "invalidate" => Deletes(c)

\* Then neither w's cache nor a lookup about to fill it holds another flow than the
\* row's.
CurrentInv ==
    \A w \in Workers : Caught(w) =>
        /\ cache[w]["flow"] \in {0, rows["flow"].bundle}
        /\ \A e \in Callers : body[e].op = "flow" /\ pc[e] = "fill" /\ home[e] = w
                                 => got[e] = rows["flow"].bundle

\* What a deletion writes leaves the row with its bundle; an import that writes it is
\* not caught up with, until it has emptied the cache in the same turn.
LEMMA CurrentStep ==
    ASSUME TypeOK, HandlerInv, CurrentInv, NEW c \in Callers, Handle(c)
    PROVE  CurrentInv'
<1> USE DEF Cached
<1>1. {"rpc", "del_agent", "del_skill", "del_flow", "invalidate", "fill", "ok", "error",
       "refused"} \subseteq Labels
  BY DEF Labels, EndLabels
<1> SUFFICES ASSUME NEW w \in Workers, Caught(w)'
             PROVE  /\ cache'[w]["flow"] \in {0, rows'["flow"].bundle}
                    /\ \A e \in Callers : body'[e].op = "flow" /\ pc'[e] = "fill" /\ home'[e] = w
                                             => got'[e] = rows'["flow"].bundle
  BY DEF CurrentInv
<1>2. CASE ImportRPC(c)
  <2>1. PICK reply \in Replies : Request(c, "rpc", "invalidate", reply)
    BY <1>2 DEF ImportRPC
  <2>2. pc[c] = "rpc" /\ pc'[c] \in {"invalidate", "error"} /\ body' = body
    BY <1>1, <2>1, RequestEffect
  <2>3. body[c].op = "import"  BY <2>2 DEF HandlerInv
  <2>4. QED BY <2>2, <2>3 DEF Caught, Changed, Deletes
<1>3. CASE Guard(c) \/ DeleteImport(c) \/ DeleteAgents(c) \/ DeleteSkills(c) \/ DeleteFlows(c)
  <2>1. PICK to \in {"rpc", "refused", "del_agent", "del_skill", "del_flow", "invalidate"} :
            \E from \in {"guard", "del_import", "del_agent", "del_skill", "del_flow"} : \E reply :
                Request(c, from, to, reply)
    BY <1>3 DEF Guard, DeleteImport, DeleteAgents, DeleteSkills, DeleteFlows, DeleteRows
  <2>2. /\ pc[c] \in {"guard", "del_import", "del_agent", "del_skill", "del_flow"}
        /\ pc'[c] # "fill"
        /\ \A e \in Callers \ {c} : pc'[e] = pc[e]
        /\ home' = home /\ body' = body
    BY <1>1, <2>1, RequestEffect
  <2>3. Caught(w)  BY <2>2 DEF Caught, Changed, Deletes
  <2>4. cache' = cache /\ got' = got
    BY <1>3 DEF Guard, DeleteImport, DeleteAgents, DeleteSkills, DeleteFlows, DeleteRows
  <2>5. rows'["flow"].bundle = rows["flow"].bundle
    <3>1. rows["flow"] \in [bundle : Nat, active : BOOLEAN]  BY DEF TypeOK, Kinds
    <3>2. [rows["flow"] EXCEPT !.active = FALSE].bundle = rows["flow"].bundle  BY <3>1
    <3>3. rows'["flow"] \in {rows["flow"], [rows["flow"] EXCEPT !.active = FALSE]}
      BY <1>3 DEF Guard, DeleteImport, DeleteAgents, DeleteSkills, DeleteFlows, DeleteRows,
                  Deactivate, TypeOK, Kinds
    <3>4. QED BY <3>2, <3>3
  <2>6. QED BY <2>2, <2>3, <2>4, <2>5 DEF CurrentInv
<1>4. CASE Invalidate(c)
  <2>1. /\ pc[c] = "invalidate" /\ pc'[c] = "ok" /\ Turn(c)
        /\ \A e \in Callers \ {c} : pc'[e] = pc[e]
        /\ home' = home /\ body' = body
    BY <1>1, <1>4, MoveEffect DEF Invalidate
  <2>2. home[c] = w /\ body[c].op \in {"import", "delete"}
    BY <2>1 DEF HandlerInv, Caught, Changed
  <2>3. cache'[w]["flow"] = 0
    BY <1>4, <2>2 DEF Invalidate, Emptied, TypeOK
  <2>4. ASSUME NEW e \in Callers, body[e].op = "flow", pc'[e] = "fill", home[e] = w
        PROVE  FALSE
    <3>1. e # c /\ pc[e] = "fill"  BY <2>1, <2>4
    <3>2. OnLoop(c) /\ OnLoop(e)  BY <2>2, <2>4 DEF OnLoop
    <3>3. QED BY <2>1, <2>2, <2>4, <3>1, <3>2 DEF Turn, MidTurn
  <2>5. QED BY <2>1, <2>3, <2>4
<1>5. CASE Get(c)
  <2>1. body[c].op \in {"flow", "skill"} /\ ~ Changed(c)  BY <1>5 DEF Get, Changed
  <2>2. /\ \A e \in Callers \ {c} : pc'[e] = pc[e]
        /\ home' = home /\ body' = body /\ rows' = rows
        /\ \A e \in Callers \ {c} : got'[e] = got[e]
    BY <1>5 DEF Get, Hit, Miss, Fill, Request, Moves, TypeOK
  <2>3. Caught(w)  BY <2>1, <2>2 DEF Caught, Changed, Deletes
  <2>4. CASE Hit(c)
    BY <1>1, <2>2, <2>3, <2>4, MoveEffect DEF Hit, CurrentInv
  <2>5. CASE Miss(c)
    <3>1. cache' = cache /\ got'[c] = Loadable(body[c].op)  BY <2>5 DEF Miss, TypeOK
    <3>2. pc'[c] = "fill" => Loadable(body[c].op) # 0
      <4>1. PICK reply \in {"ok", "refused"} :
                Request(c, "get", IF Loadable(body[c].op) = 0 THEN "refused" ELSE "fill", reply)
        BY <2>5 DEF Miss
      <4>2. CASE Loadable(body[c].op) = 0
        <5>1. Request(c, "get", "refused", reply)  BY <4>1, <4>2
        <5>2. QED BY <1>1, <5>1, RequestEffect
      <4>3. QED BY <4>2
    <3>3. body[c].op = "flow" /\ pc'[c] = "fill" => got'[c] = rows["flow"].bundle
      BY <3>1, <3>2 DEF Loadable
    <3>4. QED BY <2>2, <2>3, <3>1, <3>3 DEF CurrentInv
  <2>6. CASE Fill(c)
    <3>1. pc[c] = "fill" /\ pc'[c] = "ok" /\ got' = got
      BY <1>1, <2>6, MoveEffect DEF Fill
    <3>2. home[c] \in Workers  BY DEF TypeOK
    <3>3. cache'[w]["flow"] = IF home[c] = w /\ body[c].op = "flow" THEN got[c]
                                ELSE cache[w]["flow"]
      BY <2>1, <2>6, <3>2 DEF Fill, TypeOK
    <3>4. QED BY <2>2, <2>3, <3>1, <3>3 DEF CurrentInv
  <2>7. QED BY <1>5, <2>4, <2>5, <2>6 DEF Get
<1>6. QED BY <1>2, <1>3, <1>4, <1>5 DEF Handle

\* With DeleteInv it is inductive.
LEMMA CurrentInductive == DeleteInv /\ CurrentInv /\ [Next]_vars => CurrentInv'
<1> SUFFICES ASSUME DeleteInv, CurrentInv, [Next]_vars  PROVE CurrentInv'
  OBVIOUS
<1>t. TypeOK /\ HandlerInv  BY DEF DeleteInv
<1>1. ASSUME NEW e \in Callers, AskImport(e) \/ AskDelete(e) \/ AskLookup(e)
      PROVE  CurrentInv'
  <2>1. PICK label \in {"guard", "del_import", "get"} : \E b : Ask(e, b, label)
    BY <1>1 DEF AskImport, AskDelete, AskLookup
  <2>2. /\ pc[e] = "idle" /\ pc'[e] = label
        /\ \A d \in Callers \ {e} : pc'[d] = pc[d] /\ body'[d] = body[d]
        /\ UNCHANGED <<rows, cache, home, got>>
    BY <1>t, <2>1 DEF Ask, TypeOK
  <2>3. body[e].op = "none"  BY <1>t, <2>2 DEF HandlerInv
  <2>4. ASSUME NEW w \in Workers, Caught(w)'  PROVE Caught(w)
    BY <2>2, <2>3, <2>4 DEF Caught, Changed, Deletes
  <2>5. QED BY <2>2, <2>4 DEF CurrentInv
<1>2. ASSUME NEW x \in Workers, Restart(x)  PROVE CurrentInv'
  <2>1. \A e \in Callers : pc'[e] = IF home[e] = x /\ pc[e] \notin EndLabels \union {"idle"}
                                      THEN "dead" ELSE pc[e]
    BY <1>2 DEF Restart
  <2>2. UNCHANGED <<rows, home, body, got>>  BY <1>2 DEF Restart
  <2>3. \A w \in Workers : cache'[w]["flow"] = IF w = x THEN 0 ELSE cache[w]["flow"]
    BY <1>t, <1>2 DEF Restart, Emptied, TypeOK, Cached
  <2>4. ASSUME NEW w \in Workers, Caught(w)'  PROVE Caught(w)
    BY <2>1, <2>2, <2>4 DEF Caught, Changed, Deletes
  <2>5. QED BY <2>1, <2>2, <2>3, <2>4 DEF CurrentInv
<1>3. CASE UNCHANGED vars
  BY <1>3 DEF vars, CurrentInv, Caught, Changed, Deletes
<1>4. QED BY <1>t, <1>1, <1>2, <1>3, CurrentStep DEF Next, Terminated

\* A worker that has served all imports and deletions there were, and answered them,
\* serves no other flow than the tenant's row says.
THEOREM FlowCurrentCorrect == Spec => []FlowCurrent
<1>1. Init => CurrentInv
  BY DEF Init, CurrentInv, NoBody, Cached
<1>2. CurrentInv => FlowCurrent
  BY DEF CurrentInv, Caught, FlowCurrent
<1>3. QED BY <1>1, <1>2, DeleteInvariant, CurrentInductive, PTL
          DEF Spec

-----------------------------------------------------------------------------
(* Workflows.                                                              *)

\* A row is a row, and not the lack of one.
LEMMA RowType ==
    ASSUME WorkflowTypeOK, NEW o \in Orgs, NEW n \in Names, row[o][n] # NoRow
    PROVE  row[o][n] \in Rows
BY DEF WorkflowTypeOK

LEMMA ImportedRow ==
    ASSUME NEW b \in [org : Orgs, name : Names, maker : Makers, definition : Definitions],
           NEW old \in Rows \union {NoRow}
    PROVE  Imported(old, b) \in Rows /\ Imported(old, b) # NoRow
<1>1. Imported(old, b) \in Rows
  BY DEF Imported, Rows, Stored
<1> QED BY <1>1, WorkflowsAssumption

-----------------------------------------------------------------------------
(* What is stored, and what is bound to a flow in memory.                  *)

\* One row is written.
LEMMA RowWritten ==
    ASSUME WorkflowTypeOK, CacheCurrent, NEW o \in Orgs, NEW n \in Names, NEW r \in Rows,
           row' = [row EXCEPT ![o][n] = r],
           \/ flows' = flows /\ stale' = stale \union {o}
           \/ flows' = flows /\ stale' = stale /\ row[o][n] = NoRow
           \/ flows' = [flows EXCEPT ![o] = [m \in Names |-> NoRow]] /\ stale' = stale \ {o}
    PROVE  /\ row' \in [Orgs -> [Names -> Rows \union {NoRow}]]
           /\ flows' \in [Orgs -> [Names -> Definitions \union {NoRow}]]
           /\ \A p \in Orgs, m \in Names : flows'[p][m] # NoRow => row'[p][m] # NoRow
           /\ stale' \subseteq Orgs
           /\ CacheCurrent'
<1>t. /\ row \in [Orgs -> [Names -> Rows \union {NoRow}]]
      /\ flows \in [Orgs -> [Names -> Definitions \union {NoRow}]]
      /\ \A p \in Orgs, m \in Names : flows[p][m] # NoRow => row[p][m] # NoRow
      /\ stale \subseteq Orgs
  BY DEF WorkflowTypeOK
<1>1. /\ row'[o][n] = r /\ r # NoRow
      /\ \A m \in Names : m # n => row'[o][m] = row[o][m]
      /\ \A p \in Orgs : p # o => row'[p] = row[p]
      /\ row' \in [Orgs -> [Names -> Rows \union {NoRow}]]
  BY <1>t, WorkflowsAssumption
<1>2. /\ \A p \in Orgs : p # o => flows'[p] = flows[p]
      /\ \/ flows'[o] = flows[o] /\ (o \in stale' \/ (row[o][n] = NoRow /\ stale' = stale))
         \/ \A m \in Names : flows'[o][m] = NoRow
      /\ flows' \in [Orgs -> [Names -> Definitions \union {NoRow}]]
      /\ stale' \subseteq Orgs
      /\ \A p \in Orgs : p # o /\ p \notin stale' => p \notin stale
  <2>1. CASE flows' = flows
    BY <2>1, <1>t
  <2>2. CASE flows' = [flows EXCEPT ![o] = [m \in Names |-> NoRow]] /\ stale' = stale \ {o}
    BY <2>2, <1>t
  <2> QED BY <2>1, <2>2
<1>3. ASSUME NEW p \in Orgs, NEW m \in Names, flows'[p][m] # NoRow PROVE row'[p][m] # NoRow
  <2>1. CASE p = o /\ m = n
    BY <2>1, <1>1
  <2>2. CASE p # o \/ m # n
    <3>1. row'[p][m] = row[p][m]
      BY <2>2, <1>1
    <3>2. flows[p][m] # NoRow
      BY <1>2, <1>3
    <3> QED BY <3>1, <3>2, <1>t
  <2> QED BY <2>1, <2>2
<1>4. ASSUME NEW p \in Orgs \ stale', NEW m \in Names, flows'[p][m] # NoRow
      PROVE  row'[p][m] = [definition |-> flows'[p][m], active |-> TRUE]
  <2>1. CASE p # o
    <3>1. row'[p][m] = row[p][m] /\ flows'[p][m] = flows[p][m] /\ p \notin stale
      BY <2>1, <1>1, <1>2
    <3> QED BY <3>1, <1>4 DEF CacheCurrent
  <2>2. CASE p = o
    <3>1. flows'[o] = flows[o] /\ row[o][n] = NoRow /\ stale' = stale
      BY <2>2, <1>2, <1>4
    <3>2. m # n
      BY <2>2, <3>1, <1>4, <1>t
    <3>3. row'[p][m] = row[p][m] /\ flows'[p][m] = flows[p][m] /\ p \notin stale
      BY <2>2, <3>1, <3>2, <1>1, <1>4
    <3> QED BY <3>3, <1>4 DEF CacheCurrent
  <2> QED BY <2>1, <2>2
<1> QED BY <1>1, <1>2, <1>3, <1>4 DEF CacheCurrent

WriteStep ==
    \/ Write
    \/ \E o \in Orgs, n \in Names : Archive(o, n)
    \/ \E b \in bundles : Import(b) \/ ImportLost(b)

LEMMA WriteKeeps ==
    ASSUME WorkflowTypeOK, CacheCurrent, WriteStep
    PROVE  WorkflowTypeOK' /\ CacheCurrent'
<1>t. /\ bundles \subseteq [org : Orgs, name : Names, maker : Makers, definition : Definitions]
      /\ workflowFaults \in 0..MaxWorkflowFaults
  BY DEF WorkflowTypeOK
<1>w. Wanted \in Names /\ \A n \in FreeNames : n \in Names
  BY DEF Names, FreeNames
<1>1. ASSUME NEW b \in [org : Orgs, name : Names, maker : Makers, definition : Definitions], Bundle(b)
      PROVE  WorkflowTypeOK' /\ CacheCurrent'
  <2>1. bundles' \subseteq [org : Orgs, name : Names, maker : Makers, definition : Definitions]
    BY <1>1, <1>t DEF Bundle
  <2>2. UNCHANGED <<row, flows, workflowFaults, stale>>
    BY <1>1 DEF Bundle
  <2> QED BY <2>1, <2>2 DEF WorkflowTypeOK, CacheCurrent
<1>2. ASSUME NEW o \in Orgs, NEW d \in Definitions, Generate(o, d)
      PROVE  WorkflowTypeOK' /\ CacheCurrent'
  <2>1. PICK n \in FreeNames :
          Bundle([org |-> o, name |-> n, maker |-> "architect", definition |-> d])
    BY <1>2 DEF Generate
  <2>2. [org |-> o, name |-> n, maker |-> "architect", definition |-> d]
           \in [org : Orgs, name : Names, maker : Makers, definition : Definitions]
    BY <1>w DEF Makers
  <2> QED BY <2>1, <2>2, <1>1
<1>3. ASSUME NEW o \in Orgs, NEW d \in Definitions, WriteByHand(o, d)
      PROVE  WorkflowTypeOK' /\ CacheCurrent'
  <2>1. PICK m \in Makers :
          Bundle([org |-> o, name |-> Wanted, maker |-> m, definition |-> d])
    BY <1>3 DEF WriteByHand
  <2>2. [org |-> o, name |-> Wanted, maker |-> m, definition |-> d]
           \in [org : Orgs, name : Names, maker : Makers, definition : Definitions]
    BY <1>w
  <2> QED BY <2>1, <2>2, <1>1
<1>4. ASSUME NEW o \in Orgs, NEW d \in Definitions, Create(o, d)
      PROVE  WorkflowTypeOK' /\ CacheCurrent'
  <2>1. [definition |-> d, active |-> TRUE] \in Rows
    BY DEF Rows, Stored
  <2>2. /\ row[o][Wanted] = NoRow /\ UNCHANGED <<bundles, flows, workflowFaults, stale>>
        /\ row' = [row EXCEPT ![o][Wanted] = [definition |-> d, active |-> TRUE]]
    BY <1>4 DEF Create
  <2> QED BY <2>1, <2>2, <1>t, <1>w, RowWritten DEF WorkflowTypeOK
<1>5. ASSUME NEW o \in Orgs, NEW n \in Names, Archive(o, n)
      PROVE  WorkflowTypeOK' /\ CacheCurrent'
  <2> DEFINE r == [row[o][n] EXCEPT !.active = FALSE]
  <2>1. row[o][n] \in Rows
    BY <1>5, RowType DEF Archive
  <2>2. r \in Rows
    BY <2>1 DEF Rows
  <2>3. /\ row' = [row EXCEPT ![o][n] = r] /\ stale' = stale \union {o}
        /\ UNCHANGED <<bundles, flows, workflowFaults>>
    BY <1>5 DEF Archive
  <2> HIDE DEF r
  <2> QED BY <2>2, <2>3, <1>t, RowWritten DEF WorkflowTypeOK
<1>6. ASSUME NEW b \in bundles, Import(b)
      PROVE  WorkflowTypeOK' /\ CacheCurrent'
  <2> DEFINE r == Imported(row[b.org][b.name], b)
  <2>1. b.org \in Orgs /\ b.name \in Names /\ bundles' \subseteq bundles
    BY <1>6, <1>t DEF Import
  <2>2. row[b.org][b.name] \in Rows \union {NoRow}
    BY <2>1 DEF WorkflowTypeOK
  <2>3. r \in Rows
    BY <2>2, <1>t, ImportedRow
  <2>4. /\ row' = [row EXCEPT ![b.org][b.name] = r] /\ stale' = stale \ {b.org}
        /\ flows' = [flows EXCEPT ![b.org] = [m \in Names |-> NoRow]]
        /\ UNCHANGED workflowFaults
    BY <1>6 DEF Import
  <2> HIDE DEF r
  <2> QED BY <2>1, <2>3, <2>4, <1>t, RowWritten DEF WorkflowTypeOK
<1>7. ASSUME NEW b \in bundles, ImportLost(b)
      PROVE  WorkflowTypeOK' /\ CacheCurrent'
  <2> DEFINE r == Imported(row[b.org][b.name], b)
  <2>1. b.org \in Orgs /\ b.name \in Names /\ bundles' \subseteq bundles
    BY <1>7, <1>t DEF ImportLost
  <2>2. row[b.org][b.name] \in Rows \union {NoRow}
    BY <2>1 DEF WorkflowTypeOK
  <2>3. r \in Rows
    BY <2>2, <1>t, ImportedRow
  <2>4. /\ row' = [row EXCEPT ![b.org][b.name] = r] /\ stale' = stale \union {b.org}
        /\ UNCHANGED flows /\ workflowFaults' \in 0..MaxWorkflowFaults
    BY <1>7, <1>t, WorkflowsAssumption DEF ImportLost, WorkflowFault
  <2> HIDE DEF r
  <2> QED BY <2>1, <2>3, <2>4, <1>t, RowWritten DEF WorkflowTypeOK
<1> QED BY <1>2, <1>3, <1>4, <1>5, <1>6, <1>7 DEF WriteStep, Write

-----------------------------------------------------------------------------

WorkflowIInv == WorkflowTypeOK /\ CacheCurrent

LEMMA WorkflowInitIInv == WorkflowInit => WorkflowIInv
BY WorkflowsAssumption DEF WorkflowInit, WorkflowIInv, WorkflowTypeOK, CacheCurrent

LEMMA LookupKeeps ==
    ASSUME WorkflowIInv, NEW o \in Orgs, NEW n \in Names, Lookup(o, n) PROVE WorkflowIInv'
<1> DEFINE d == row[o][n].definition
<1>t. /\ row \in [Orgs -> [Names -> Rows \union {NoRow}]]
      /\ flows \in [Orgs -> [Names -> Definitions \union {NoRow}]]
      /\ \A p \in Orgs, m \in Names : flows[p][m] # NoRow => row[p][m] # NoRow
      /\ WorkflowTypeOK /\ CacheCurrent
  BY DEF WorkflowIInv, WorkflowTypeOK
<1>1. /\ UNCHANGED <<bundles, row, workflowFaults, stale>>
      /\ flows' = [flows EXCEPT ![o][n] = d] /\ Registrable(row[o][n])
  BY DEF Lookup
<1>2. row[o][n] \in Rows /\ row[o][n] # NoRow
  BY <1>1, <1>t DEF Registrable
<1>3. row[o][n] = [definition |-> d, active |-> TRUE] /\ d \in Definitions
  BY <1>1, <1>2 DEF Registrable, Rows, Stored
<1> HIDE DEF d
<1>4. /\ flows' \in [Orgs -> [Names -> Definitions \union {NoRow}]]
      /\ flows'[o][n] = d
      /\ \A p \in Orgs, m \in Names : p # o \/ m # n => flows'[p][m] = flows[p][m]
  BY <1>1, <1>3, <1>t
<1>5. ASSUME NEW p \in Orgs, NEW m \in Names, flows'[p][m] # NoRow
      PROVE  /\ row[p][m] # NoRow
             /\ p \notin stale => row[p][m] = [definition |-> flows'[p][m], active |-> TRUE]
  <2>1. CASE p = o /\ m = n
    BY <2>1, <1>2, <1>3, <1>4
  <2>2. CASE p # o \/ m # n
    <3>1. flows'[p][m] = flows[p][m]
      BY <2>2, <1>4
    <3> QED BY <3>1, <1>5, <1>t DEF CacheCurrent
  <2> QED BY <2>1, <2>2
<1>6. CacheCurrent'
  BY <1>1, <1>5 DEF CacheCurrent
<1> QED BY <1>1, <1>4, <1>5, <1>6, <1>t DEF WorkflowIInv, WorkflowTypeOK

\* What the process warms up with is what the rows say, or nothing.
LEMMA WarmupKeeps ==
    ASSUME WorkflowIInv, Warmup PROVE WorkflowIInv'
<1> DEFINE warm == [o \in Orgs |-> [n \in Names |->
                       IF Registrable(row[o][n]) THEN row[o][n].definition ELSE NoRow]]
<1>t. /\ row \in [Orgs -> [Names -> Rows \union {NoRow}]] /\ WorkflowTypeOK
      /\ stale' = {} /\ UNCHANGED <<bundles, row>>
  BY DEF WorkflowIInv, WorkflowTypeOK, Warmup
<1>1. ASSUME NEW o \in Orgs, NEW n \in Names
      PROVE  /\ warm[o][n] \in Definitions \union {NoRow}
             /\ warm[o][n] # NoRow =>
                   row[o][n] # NoRow /\ row[o][n] = [definition |-> warm[o][n], active |-> TRUE]
  <2>1. CASE Registrable(row[o][n])
    <3>1. row[o][n] \in Rows /\ warm[o][n] = row[o][n].definition
      BY <2>1, <1>t DEF Registrable
    <3>2. /\ row[o][n] = [definition |-> row[o][n].definition, active |-> TRUE]
          /\ row[o][n].definition \in Definitions /\ row[o][n] # NoRow
      BY <2>1, <3>1 DEF Registrable, Rows, Stored
    <3> QED BY <3>1, <3>2
  <2>2. CASE ~Registrable(row[o][n])
    BY <2>2
  <2> QED BY <2>1, <2>2
<1>2. /\ flows' \in [Orgs -> [Names -> Definitions \union {NoRow}]]
      /\ \A o \in Orgs, n \in Names : flows'[o][n] \in {warm[o][n], NoRow}
  <2>1. warm \in [Orgs -> [Names -> Definitions \union {NoRow}]]
    BY <1>1
  <2>2. \/ flows' = warm
        \/ /\ flows' \in [Orgs -> [Names -> Definitions \union {NoRow}]]
           /\ \A o \in Orgs, n \in Names : flows'[o][n] \in {warm[o][n], NoRow}
    BY DEF Warmup
  <2> HIDE DEF warm
  <2> QED BY <2>1, <2>2
<1>3. workflowFaults' \in 0..MaxWorkflowFaults
  BY <1>t, WorkflowsAssumption DEF Warmup, WorkflowFault, WorkflowTypeOK
<1> HIDE DEF warm
<1>4. \A o \in Orgs, n \in Names : flows'[o][n] # NoRow =>
          row[o][n] # NoRow /\ row[o][n] = [definition |-> flows'[o][n], active |-> TRUE]
  BY <1>1, <1>2
<1> QED BY <1>t, <1>2, <1>3, <1>4 DEF WorkflowIInv, WorkflowTypeOK, CacheCurrent

LEMMA WorkflowNextIInv == WorkflowIInv /\ [WorkflowNext]_workflowVars => WorkflowIInv'
<1> SUFFICES ASSUME WorkflowIInv, [WorkflowNext]_workflowVars PROVE WorkflowIInv'
  OBVIOUS
<1>1. CASE WriteStep
  BY <1>1, WriteKeeps DEF WorkflowIInv
<1>2. ASSUME NEW o \in Orgs, NEW n \in Names, Lookup(o, n) PROVE WorkflowIInv'
  BY <1>2, LookupKeeps
<1>3. CASE Warmup
  BY <1>3, WarmupKeeps
<1>4. CASE UNCHANGED workflowVars
  BY <1>4 DEF workflowVars, WorkflowIInv, WorkflowTypeOK, CacheCurrent
<1> QED BY <1>1, <1>2, <1>3, <1>4 DEF WorkflowNext, WriteStep

LEMMA WorkflowInvariance == WorkflowSpec => []WorkflowIInv
BY WorkflowInitIInv, WorkflowNextIInv, PTL DEF WorkflowSpec

\* The rows and the flows in memory are of their types, for any definitions.
THEOREM WorkflowTypeCorrect == WorkflowSpec => []WorkflowTypeOK
<1>1. WorkflowIInv => WorkflowTypeOK
  BY DEF WorkflowIInv
<1> QED BY <1>1, WorkflowInvariance, PTL

\* What is bound to a flow in memory is what its row says, and the row is active, unless
\* a workflow was archived or an import's answer lost since, also when the process starts
\* again and loads only some; for any tenants.
THEOREM CacheAlwaysCurrent == WorkflowSpec => []CacheCurrent
<1>1. WorkflowIInv => CacheCurrent
  BY DEF WorkflowIInv
<1> QED BY <1>1, WorkflowInvariance, PTL
=============================================================================
