---------------------------- MODULE MCAnalytical ----------------------------
(* Analytical for TLC, with what its queries and its pipeline compute over *)
(* small tables, with the commands of MCCommands and the services of       *)
(* MCServices.                                                             *)
EXTENDS Analytical, MCCommands, MCServices

MCOrgOf == [p \in Pages |-> CHOOSE o \in Orgs : TRUE]

MCKeywords ==
    <<[intent |-> "agent_success_rate", words |-> {"agent", "tasa", "exito"}],
      [intent |-> "tickets_by_status", words |-> {"ticket", "estado"}],
      [intent |-> "flow_token_consumption", words |-> {"token", "consumo"}],
      [intent |-> "recent_events_summary", words |-> {"event", "24"}],
      [intent |-> "tasks_by_flow_type", words |-> {"tarea", "flow", "tipo"}]>>
AllIntents == {MCKeywords[i].intent : i \in DOMAIN MCKeywords}

\* The keywords in each text of QUERY_DESCRIPTIONS, which the page offers as questions.
Descriptions ==
    [agent_success_rate     |-> {"agent", "tasa"},
     tickets_by_status      |-> {"ticket", "estado"},
     flow_token_consumption |-> {"token", "consumo", "flow", "tipo"},
     recent_events_summary  |-> {"event", "24"},
     tasks_by_flow_type     |-> {"estado", "tarea", "flow"}]

Q == INSTANCE AnalyticalQueries WITH Intents <- AllIntents, Keywords <- MCKeywords, Limit <- 1

\* Offered as a question, a query's description means the query, without a model too,
\* for all but one: the tasks by flow type "y estado" are taken for the tickets by
\* status.  _classify_intent_keywords, QUERY_DESCRIPTIONS.
ASSUME QuickQueries ==
    {k \in AllIntents : Q!ByKeywords(Descriptions[k]) # k} = {"tasks_by_flow_type"}

Task == [role : {"analyst", "null"}, flow : {"quote", "null"}, status : {"completed", "failed"},
         tokens : {0, 1}, recent : BOOLEAN]
TaskTables == UNION {{{[id |-> i, role |-> f[i].role, flow |-> f[i].flow, status |-> f[i].status,
                        tokens |-> f[i].tokens, recent |-> f[i].recent] : i \in 1..n} :
                         f \in [1..n -> Task]} : n \in 0..2}

Events(tasks) == {[id |-> t.id, type |-> t.status, recent |-> t.recent] : t \in tasks}

\* The Python and the SQL of a query agree where every column has a value, and, for the
\* agents, where the catalog has every role.  tools/analytical.py: "Equivalente a la
\* template SQL".
ASSUME QueriesAgree == \A tasks \in TaskTables :
    /\ (\A t \in tasks : t.flow # "null") =>
          /\ Q!FlowTokens(tasks) = Q!FlowTokensSQL(tasks)
          /\ Q!TasksByFlow(tasks) = Q!TasksByFlowSQL(tasks)
    /\ (\A t \in tasks : t.role = "analyst") =>
          Q!AgentSuccessRate(tasks) = Q!AgentSuccessRateSQL(tasks, {"analyst"})
    /\ Q!TicketsByStatus(tasks) = Q!TicketsByStatusSQL(tasks)
    /\ Q!RecentEvents(Events(tasks)) = Q!RecentEventsSQL(Events(tasks))

\* Where it has not, a task of no agent, or of an agent that was deleted, may be what
\* the answer says is the agent with the best rate; the template never says so.
\* _query_agent_success_rate.
ASSUME RatesDiffer ==
    /\ \E tasks \in TaskTables : \E top \in Q!AgentSuccessRate(tasks) :
          [role |-> "unknown", total |-> 1, completed |-> 1, rate |-> 10000] \in top
    /\ \A tasks \in TaskTables : \A top \in Q!AgentSuccessRateSQL(tasks, {"analyst"}) :
          \A r \in top : r.role = "analyst"

AskWorlds == [says : AllIntents \cup {"fails", "unknown"}, fails : BOOLEAN, found : 0..1,
              made : BOOLEAN, text : {"written", "fails"}]
Questions == {Descriptions[k] : k \in AllIntents} \cup {{}}

\* With the model's service down, a question that has a keyword is still answered, from
\* a template; but not where a model cannot even be made.  "Fallback por keywords si el
\* LLM falla".
ASSUME AnswersWithoutModel == \A question \in Questions \ {{}}, made \in BOOLEAN :
    LET answer == Q!Ask("null", question,
                        [says |-> "fails", fails |-> FALSE, found |-> 1, made |-> made, text |-> "fails"])
    IN  IF made THEN answer.code = 200 /\ answer.summary = "template" ELSE answer.code = 500

\* An answer of no data says nothing of the database: it is the same when the query
\* failed.  SQLAnalyticalTool._run, AnalyticalCrew.ask.
ASSUME FailureReadsAsNone ==
    \A hint \in AllIntents \cup {"null"}, question \in Questions, w \in AskWorlds :
        Q!Ask(hint, question, [w EXCEPT !.fails = TRUE])
            = Q!Ask(hint, question, [w EXCEPT !.fails = FALSE, !.found = 0])

\* Every answer with rows is of the intent that was named, or that was found.  ask
ASSUME AnswersWhatWasFound ==
    \A hint \in AllIntents \cup {"null", "bogus"}, question \in Questions, w \in AskWorlds :
        LET answer == Q!Ask(hint, question, w)
        IN  answer.code = 200 =>
                /\ answer.intent \in AllIntents
                /\ hint # "null" => answer.intent = hint
                /\ hint = "null" /\ w.says # "fails" => answer.intent = w.says
=============================================================================
