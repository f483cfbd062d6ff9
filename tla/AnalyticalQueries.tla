------------------------- MODULE AnalyticalQueries -------------------------
(***************************************************************************)
(* What the analytical crew answers: how a question is given an intent,    *)
(* the five queries as tools/analytical.py computes them and as the SQL    *)
(* templates of analytical_queries.py define them, and the way from the    *)
(* question to the answer.                                                 *)
(*                                                                         *)
(* Rows are records with an id.  A result is the set of its rows; that a   *)
(* limit picks the first ones of an order, among equals whichever, is a    *)
(* set of results.  A question is the set of the keywords it contains.     *)
(***************************************************************************)
EXTENDS Integers, Sequences, FiniteSets, FiniteSetsExt

CONSTANTS Intents, Keywords, Limit

Null    == "null"
Unknown == "unknown"

-----------------------------------------------------------------------------
(* Intents.                                                                *)

\* _classify_intent_keywords, over _INTENT_KEYWORDS in its order
ByKeywords(question) ==
    LET hits == {i \in DOMAIN Keywords : Keywords[i].words \cap question # {}}
    IN  IF hits = {} THEN Unknown ELSE Keywords[Min(hits)].intent

\* _classify_intent: what the model said, or that calling it failed
Classify(question, model) ==
    CASE model = "fails"   -> ByKeywords(question)
      [] model \in Intents -> model
      [] OTHER             -> Unknown

-----------------------------------------------------------------------------
(* The queries, in Python.  A row's "unknown" may be a null or an empty    *)
(* text.                                                                   *)

Or(x) == IF x = Null THEN Unknown ELSE x

Groups(rows, Key(_)) == {Key(r) : r \in rows}
In(rows, Key(_), k)  == {r \in rows : Key(r) = k}

Tokens(rows) == MapThenSumSet(LAMBDA r : r.tokens, rows)

\* The results a query may have that gives the first n rows by a number.
First(rows, By(_), n) ==
    {top \in SUBSET rows :
        /\ Cardinality(top) = IF Cardinality(rows) < n THEN Cardinality(rows) ELSE n
        /\ \A r \in top, s \in rows \ top : By(r) >= By(s)}

\* In hundredths, rounded.
PerCent(part, whole) == (20000 * part + whole) \div (2 * whole)

RateRow(role, rows) ==
    LET done == Cardinality({t \in rows : t.status = "completed"})
    IN  [role |-> role, total |-> Cardinality(rows), completed |-> done,
         rate |-> PerCent(done, Cardinality(rows))]

AgentSuccessRate(tasks) ==
    LET recent  == {t \in tasks : t.recent}
        Role(t) == Or(t.role)
    IN  First({RateRow(k, In(recent, Role, k)) : k \in Groups(recent, Role)},
              LAMBDA r : r.rate, Limit)

CountRows(rows, Key(_)) ==
    {[key |-> k, count |-> Cardinality(In(rows, Key, k))] : k \in Groups(rows, Key)}

TicketsByStatus(tickets) == CountRows(tickets, LAMBDA t : Or(t.status))

FlowTokens(tasks) ==
    LET spent   == {t \in tasks : t.tokens # 0}
        Flow(t) == Or(t.flow)
    IN  First({[key |-> k, runs |-> Cardinality(In(spent, Flow, k)),
                tokens |-> Tokens(In(spent, Flow, k))] : k \in Groups(spent, Flow)},
              LAMBDA r : r.tokens, Limit)

RecentEvents(events) ==
    First(CountRows({e \in events : e.recent}, LAMBDA e : Or(e.type)),
          LAMBDA r : r.count, 2 * Limit)

TasksByFlow(tasks) == CountRows(tasks, LAMBDA t : <<Or(t.flow), Or(t.status)>>)

-----------------------------------------------------------------------------
(* The templates.                                                          *)

\* The join leaves out the tasks of a role that is not in the catalog.
AgentSuccessRateSQL(tasks, catalog) ==
    LET joined  == {t \in tasks : t.recent /\ t.role \in catalog}
        Role(t) == t.role
    IN  First({RateRow(k, In(joined, Role, k)) : k \in Groups(joined, Role)},
              LAMBDA r : r.rate, Limit)

TicketsByStatusSQL(tickets) == CountRows(tickets, LAMBDA t : t.status)

FlowTokensSQL(tasks) ==
    LET spent   == {t \in tasks : t.tokens > 0}
        Flow(t) == t.flow
    IN  First({[key |-> k, runs |-> Cardinality(In(spent, Flow, k)),
                tokens |-> Tokens(In(spent, Flow, k))] : k \in Groups(spent, Flow)},
              LAMBDA r : r.tokens, Limit)

RecentEventsSQL(events) ==
    First(CountRows({e \in events : e.recent}, LAMBDA e : e.type),
          LAMBDA r : r.count, 2 * Limit)

TasksByFlowSQL(tasks) == CountRows(tasks, LAMBDA t : <<t.flow, t.status>>)

-----------------------------------------------------------------------------
(* From the question to the answer.                                        *)

\* SQLAnalyticalTool._run: the fields of the text it returns, with a number for the rows.
RunQuery(fails, found) ==
    IF fails THEN [error |-> TRUE] ELSE [data |-> found]

\* ask_analytical and AnalyticalCrew.ask.  What the environment does: what the model
\* says of the question, whether the query fails and what it finds, whether a model can
\* be made for the answer and what comes of its text.
Ask(hint, question, world) ==
    LET intent == IF hint # Null THEN hint ELSE Classify(question, world.says)
        result == RunQuery(world.fails, world.found)
        rows   == IF "data" \in DOMAIN result THEN result.data ELSE 0
    IN  CASE hint # Null /\ hint \notin Intents -> [code |-> 400]
          [] intent \notin Intents              -> [code |-> 400]
          [] rows = 0  -> [code |-> 200, intent |-> intent, rows |-> 0, summary |-> "no data"]
          [] rows > 0 /\ ~world.made            -> [code |-> 500]
          [] OTHER     -> [code |-> 200, intent |-> intent, rows |-> rows,
                           summary |-> IF world.text = "written" THEN "model" ELSE "template"]
=============================================================================
