--------------------------- MODULE WorkflowGraph ---------------------------
(***************************************************************************)
(* The depth-first searches that look for cycles: the validator's over the *)
(* steps of a workflow definition, which stops at the first cycle, and the *)
(* registry's over the registered flows, which lists them.                 *)
(*                                                                         *)
(* A graph maps a node to the sequence or the set of the nodes it depends  *)
(* on; those may include names that are no node.                           *)
(***************************************************************************)
EXTENDS Naturals, Sequences, SequencesExt

\* The nodes a graph has cycles through are those that reach themselves.
Reaches(g, deps(_), n, m) ==
    LET RECURSIVE From(_)
        From(S) == LET T == S \union UNION {deps(k) : k \in S \intersect DOMAIN g}
                   IN  IF T = S THEN S ELSE From(T)
    IN  m \in From(deps(n))

Acyclic(g) == LET deps(k) == g[k] IN \A n \in DOMAIN g : ~Reaches(g, deps, n, n)

-----------------------------------------------------------------------------
\* WorkflowDefinition.no_circular_dependencies.  A search keeps what it visited,
\* the nodes on its way, and whether it found a cycle, after which it does nothing.

Search == [visited |-> {}, rec |-> {}, cycle |-> FALSE]

RECURSIVE ValidatorDfs(_, _, _)
ValidatorDfs(g, node, s) ==
    LET deps == IF node \in DOMAIN g THEN g[node] ELSE {}
        Dep(r, d) == IF r.cycle THEN r
                     ELSE IF d \notin r.visited THEN ValidatorDfs(g, d, r)
                     ELSE [r EXCEPT !.cycle = d \in r.rec]
        done == FoldLeft(Dep, [s EXCEPT !.visited = @ \union {node}, !.rec = @ \union {node}],
                         SetToSeq(deps))
    IN  IF done.cycle THEN done ELSE [done EXCEPT !.rec = @ \ {node}]

HasCycle(g) ==
    LET From(s, n) == IF s.cycle \/ n \in s.visited THEN s ELSE ValidatorDfs(g, n, s)
    IN  FoldLeft(From, Search, SetToSeq(DOMAIN g)).cycle

-----------------------------------------------------------------------------
\* FlowRegistry.detect_cycles: g gives the depends_on of a registered flow.  The
\* path is the way as a sequence, and every cycle is listed as the part of the path
\* that closes it.

RECURSIVE RegistryDfs(_, _, _)
RegistryDfs(g, node, s) ==
    LET Dep(r, d) ==
            IF d \notin DOMAIN g THEN r
            ELSE IF d \notin r.visited THEN RegistryDfs(g, d, r)
            ELSE IF d \in r.rec
            THEN LET start == SelectInSeq(r.path, LAMBDA k : k = d)
                 IN  [r EXCEPT !.cycles = Append(@, SubSeq(r.path, start, Len(r.path)) \o <<d>>)]
            ELSE r
        done == FoldLeft(Dep, [s EXCEPT !.visited = @ \union {node}, !.rec = @ \union {node},
                                        !.path = Append(@, node)],
                         g[node])
    IN  [done EXCEPT !.rec = @ \ {node}, !.path = Front(@)]

DetectCycles(g) ==
    LET From(s, n) == IF n \in s.visited THEN s ELSE RegistryDfs(g, n, s)
    IN  FoldLeft(From, [visited |-> {}, rec |-> {}, path |-> <<>>, cycles |-> <<>>],
                 SetToSeq(DOMAIN g)).cycles

\* validate_dependencies and run_full_validation
InvalidDependencies(g) ==
    [n \in {k \in DOMAIN g : ~(ToSet(g[k]) \subseteq DOMAIN g)} |->
        SelectSeq(g[n], LAMBDA d : d \notin DOMAIN g)]
FullValidation(g) ==
    IF DOMAIN InvalidDependencies(g) # {} \/ DetectCycles(g) # <<>> THEN "error" ELSE "success"

=============================================================================
