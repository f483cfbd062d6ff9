---------------------------- MODULE MCWorkflows ----------------------------
EXTENDS Workflows, WorkflowGraph

AtLeast == [op |-> ">=", at |-> 1]
Unread  == [op |-> "none", at |-> 0]
MCRules == {AtLeast, Unread}

\* Listed against its dependencies, with a step that has no agent.
Sale == [steps |-> <<"a", "b", "c">>, mute |-> {"b"}, rules |-> <<Unread, AtLeast>>,
         deps |-> [s \in {"a", "b", "c"} |-> IF s = "a" THEN {"c"} ELSE {}]]
\* What the architect may answer, with two steps of one name: the later result may ask
\* for approval where the earlier one did not.
Alike == [steps |-> <<"a", "b", "a">>, mute |-> {}, rules |-> <<AtLeast>>,
          deps |-> [s \in {"a", "b"} |-> {}]]
MCDefinitions == {Sale, Alike}

Symmetric == Permutations(Orgs)

-----------------------------------------------------------------------------
\* The run of a template against what it should be, over lists of three steps that
\* may have one name, any of them without an agent, and up to two rules.

Lists     == {<<"a", "b", "c">>, <<"a", "b", "a">>, <<"a", "a", "a">>}
Templates == {[steps |-> l, mute |-> m, rules |-> r] :
                 l \in Lists, m \in SUBSET {"a", "b"},
                 r \in BoundedSeq([op : Ops, at : {1}], 2)}

\* The results are of the steps with an agent up to the first at which a rule asks for
\* a human, or of all of them; of two steps of one name the later one's counts.
\* DynamicWorkflow._run_crew, _check_approval_rule.
ASSUME RunCrewExact ==
    \A t \in Templates, answers \in [1..3 -> {0, 1, 2, Text}] :
        LET agents  == {i \in 1..3 : t.steps[i] \notin t.mute}
            upTo(k) == {i \in agents : i <= k}
            made(k) == [s \in {t.steps[i] : i \in upTo(k)} |->
                           answers[Max({i \in upTo(k) : t.steps[i] = s})]]
            asked   == {k \in agents : \E r \in ToSet(t.rules), s \in DOMAIN made(k) :
                           made(k)[s] # Text /\ Compares(r.op, made(k)[s], r.at)}
        IN  RunCrew(t, answers) =
                [results |-> made(IF asked = {} THEN 3 ELSE Min(asked)), waits |-> asked # {}]

-----------------------------------------------------------------------------
\* The searches against their definition, over every graph of three nodes whose
\* edges may also lead to a name that is no node.

Nodes  == {"x", "y", "z"}
Graphs == [Nodes -> SUBSET (Nodes \union {"unknown"})]
Listed(g) == [n \in DOMAIN g |-> SetToSeq(g[n])]

\* The validator refuses a workflow exactly when its steps have a cycle.
\* WorkflowDefinition.no_circular_dependencies.
ASSUME ValidatorExact == \A g \in Graphs : HasCycle(g) <=> ~Acyclic(g)

\* The registry reports a cycle exactly when there is one, and whatever it reports
\* is one: it ends where it starts, follows dependencies, and passes no flow twice.
\* FlowRegistry.detect_cycles.
ASSUME RegistryExact == \A g \in Graphs :
    LET cycles == DetectCycles(Listed(g))
    IN  /\ cycles = <<>> <=> Acyclic(g)
        /\ \A i \in DOMAIN cycles :
              LET c == cycles[i]
              IN  /\ Len(c) >= 2 /\ c[1] = c[Len(c)] /\ IsInjective(Front(c))
                  /\ \A k \in 1..Len(c) - 1 : c[k + 1] \in g[c[k]]

\* The full validation passes exactly the graphs that are closed and acyclic.
ASSUME ValidationExact == \A g \in Graphs :
    FullValidation(Listed(g)) = "success"
        <=> Acyclic(g) /\ \A n \in Nodes : g[n] \subseteq Nodes
=============================================================================
