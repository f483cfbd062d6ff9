---------------------------- MODULE MCServices ----------------------------
(* What Services computes, over small inputs.                              *)
EXTENDS Integers, Sequences, FiniteSets

Sv == INSTANCE Services

-----------------------------------------------------------------------------
(* Every conversation of up to three messages, each long or not, with the  *)
(* ends of the jobs in any order between them.                             *)

Turned(c) == LET m == Cardinality(Sv!FromUser(c)) + 1
             IN  IF m > 3 THEN {} ELSE {Sv!ArchitectChat(c, m, long) : long \in BOOLEAN}
Ended(c)  == UNION {{Sv!Designed(c, m, g) : g \in Sv!FlowGives} : m \in c.jobs}

Talks[n \in 0..6] ==
    IF n = 0 THEN {Sv!Started} ELSE Talks[n - 1] \cup UNION {Turned(c) \cup Ended(c) : c \in Talks[n - 1]}

Of(c, role) == {i \in DOMAIN c.messages : c.messages[i].role = role}
Designs(c)  == Of(c, "designing")

\* Every message but a short first one starts a job; every job that has ended told of
\* itself, after the message it is about; and once none is left, the conversation is not
\* in progress.  architect_chat, _run_architect_background.
ASSUME ConversationsEnd == \A c \in Talks[6] :
    /\ \A i \in Sv!FromUser(c) : i > 1 => \E j \in Designs(c) : c.messages[j].of = c.messages[i].of
    /\ \A j \in Designs(c) : c.messages[j].of \in c.jobs \/
          \E k \in DOMAIN c.messages : k > j /\ c.messages[k] = [role |-> "could not", of |-> c.messages[j].of]
    /\ c.jobs = {} /\ Designs(c) # {} => c.status # "in_progress"

\* But no conversation is ever completed, since what the flow gives back is never what
\* the handler expects.  ArchitectFlow.execute, chat.py:167.
ASSUME NeverCompleted == \A c \in Talks[6] : c.status # "completed"

\* A conversation may be said to have failed while it still designs.  The page shows
\* neither how a job ended.
ASSUME FailsTooSoon == \E c \in Talks[6] :
    /\ c.status = "failed" /\ c.jobs # {}
    /\ Sv!ShownReplies(c) # {} /\ Sv!ShownReplies(c) \cap Of(c, "could not") = {}

-----------------------------------------------------------------------------
(* Limits.                                                                 *)

LimitSets == SUBSET {[key |-> "approval_threshold", value |-> 1], [key |-> "max_tasks", value |-> 2]}

\* Limits that cannot be read are no limits: a quota is open, and what asks for approval
\* is the default's to say, less or more than the organisation's.  load_org_limits
ASSUME LimitsUnread == \A config \in LimitSets, n \in 0..3 :
    LET unread == Sv!LoadOrgLimits(TRUE, config)
    IN  /\ ~Sv!QuotaExceeded(n, unread)
        /\ Sv!NeedsApproval(n, unread, 2) = (n > 2)
        /\ Sv!NeedsApproval(n, Sv!LoadOrgLimits(FALSE, config), 2)
              = IF [key |-> "approval_threshold", value |-> 1] \in config THEN n > 1 ELSE n > 2

-----------------------------------------------------------------------------
(* Service catalog.                                                        *)

Secrets == SUBSET [org : {"o1", "o2"}, name : {"k"}]
Rows == [org : {"o1"}, status : {"active", "pending_setup"}, url : BOOLEAN,
         secretNames : {<<>>, <<"k">>}, health : {"none"}]

\* A connector calls a service only for who has it active and its secret stored; and
\* what is recorded says success exactly where data was answered.  ServiceConnectorTool
ASSUME ConnectorTrue ==
    \A found \in BOOLEAN, row \in Rows, secrets \in Secrets, http \in Sv!Calls, audits \in BOOLEAN :
        LET answer == Sv!ServiceConnector(found, row, secrets, "o1", http, audits)
        IN  /\ answer.result \in {"data", "error"} =>
                  /\ found /\ row.status = "active"
                  /\ row.secretNames = <<>> \/ [org |-> "o1", name |-> "k"] \in secrets
            /\ \A r \in answer.recorded : r.success = (answer.result = "data") /\ (r.success => r.answered)

\* The health check and the connector agree on a service, but for one that redirects: it
\* is healthy, and every call of it an error.  run_health_checks
ASSUME HealthMeans == \A row \in Rows, secrets \in Secrets, http \in Sv!Calls :
    LET checked == CHOOSE r \in Sv!HealthChecks({row}, secrets, [r \in {row} |-> http], {}) : TRUE
        answer  == Sv!ServiceConnector(TRUE, row, secrets, "o1", http, TRUE)
    IN  row.status = "active" /\ row.url /\ http # "redirect" =>
            (checked.health = "ok") = (answer.result = "data")

\* One that hangs, or cannot be written, keeps no other from its check.
ASSUME EachChecked == \A bad \in Rows, good \in Rows :
    LET one == [bad EXCEPT !.org = "o2"]
        after == Sv!HealthChecks({one, good}, {},
                                [r \in {one, good} |-> IF r = one THEN "says nothing" ELSE "success"], {one})
    IN  /\ one \in after
        /\ good.status = "active" /\ good.url =>
              [good EXCEPT !.health = IF good.secretNames = <<>> THEN "ok" ELSE "error"] \in after

-----------------------------------------------------------------------------
(* The scheduler.                                                          *)

Planned == SUBSET [id : {1, 2}, status : {"confirmado", "borrador"}, day : {7, 8}]

\* On consecutive days every confirmed event is looked at once, and one whose flow fails
\* is not looked at again.  check_upcoming_events_climate
ASSUME AlertedOnce == \A events \in Planned, broken \in SUBSET {1, 2} :
    LET On(today) == Sv!ClimateCheck(events, today, FALSE, {e \in events : e.id \in broken})
    IN  /\ On(0) \cap On(1) = {}
        /\ On(0) \cup On(1) = {e \in events : e.status = "confirmado" /\ e.id \notin broken}

\* An offer is no rise.  _actualizar_precios
ASSUME OffersAreNoRises == \A price \in 0..30, reference \in 0..20 :
    ~(Sv!IsOffer(price, reference, 15) /\ Sv!IsRise(price, reference, 20))

-----------------------------------------------------------------------------
(* MCP.                                                                    *)

Users   == [valid : {TRUE}, name : {"ana"}]
Members == SUBSET [user : Users, org : {"o1", "o2"}, role : {"fap_admin", "org_owner"}, active : BOOLEAN]
McpWorlds == [flow : BOOLEAN, task : BOOLEAN, waits : BOOLEAN, down : BOOLEAN,
              raises : BOOLEAN]

\* Over HTTP no call of somebody who is no member succeeds, and the code of the error is
\* that of an internal one, not AuthError's.  mcp_gateway
ASSUME MembersOnly == \A user \in Users, members \in Members, w \in McpWorlds, method \in Sv!Methods :
    Sv!Membership(user, "o1", members) # "member" => Sv!McpGateway(method, TRUE, user, "o1", members, w) = -32603

\* Over standard input no call that decides, runs or looks at a task ever succeeds,
\* whoever is a member: its user is none, and the database's error is what its client
\* gets.  _handle_get_task and those after it.
ASSUME StdioRefused == \A members \in Members, w \in McpWorlds :
    \A name \in {"get_task", "approve_task", "reject_task", "bill"} :
        Sv!HandleToolCall(name, {"bill"}, TRUE, "o1", members, w) = Sv!InvalidText

\* What says that a task cannot be decided says so with the code for what is not found.
ASSUME NotFoundSaid == \A user \in Users, members \in Members, w \in McpWorlds :
    Sv!Membership(user, "o1", members) = "member" /\ ~w.waits /\ ~w.down =>
        Sv!McpGateway("approve_task", TRUE, user, "o1", members, w) = -32004

\* An update reaches the clients of the process that sends it and no other client of the
\* organisation.  SSEConnectionManager.broadcast
ASSUME OwnProcessOnly == \A clients \in SUBSET [id : {1, 2}, worker : {"w1", "w2"}, org : {"o1", "o2"}] :
    Sv!Notified(clients, "w1", "o1") \cup Sv!Notified(clients, "w2", "o1") = {c \in clients : c.org = "o1"}
    /\ Sv!Notified(clients, "w1", "o1") \cap Sv!Notified(clients, "w2", "o1") = {}

-----------------------------------------------------------------------------
(* Tools, memory, counts.                                                  *)

LocalTools == {[name |-> "a", tags |-> {"math"}, colon |-> FALSE], [name |-> "b", tags |-> {}, colon |-> TRUE]}
Servers == SUBSET {[name |-> "s1", active |-> TRUE, tools |-> {[name |-> "x", tags |-> {"s1"}, colon |-> TRUE]}],
                   [name |-> "s2", active |-> FALSE, tools |-> {[name |-> "y", tags |-> {"s2"}, colon |-> TRUE]}]}

\* A server that is down takes no tool of another one along, nor a local one.
ASSUME ToolsDegrade == \A servers \in Servers, down \in SUBSET {"s1", "s2"}, category \in {"null", "math"} :
    LET Listed(source) == Sv!CollectTools(LocalTools, servers, source, category, down)
    IN  /\ Listed("null") = Listed("local") \cup Listed("mcp")
        /\ Listed("local") = Sv!CollectTools(LocalTools, {}, "null", category, {})

Memory == [org : {"o1"}, role : {"null", "cook"}, validTo : 0..2, similarity : {6, 8}]

\* What is cleaned up is found by no later search; what a role remembers is found by the
\* role, and what all share, by no role: "null = shared org-wide memory".
ASSUME MemoryKept == \A memories \in SUBSET Memory, role \in {"null", "cook"} :
    /\ Sv!SearchMemory(memories, "o1", role, 1, 1, 7)
          = Sv!SearchMemory(Sv!CleanupExpired(memories, "o1", 1), "o1", role, 1, 1, 7)
    /\ \A top \in Sv!SearchMemory(memories, "o1", "cook", 1, 1, 7) : \A m \in top : m.role = "cook"

\* Tokens of a flow that has the names of two agents in its own count for both.
ASSUME TokensTwice ==
    LET tasks == {[id |-> 1, flow |-> {"sales", "salesbot"}, tokens |-> 5]}
    IN  Sv!AgentTokens(tasks, "sales") + Sv!AgentTokens(tasks, "salesbot") = 10

\* The total of a page is the page's: "total count" it is only of what fits on one.
ASSUME TotalOfPage == \A n \in 0..4, limit \in 1..3, offset \in 0..2 :
    LET tasks == [i \in 1..n |-> [id |-> i, status |-> "done"]]
        page  == Sv!TasksPage(tasks, "null", limit, offset)
    IN  page.total = n <=> (n = 0 \/ (offset = 0 /\ n <= limit))

\* Of a tenant without an active workflow nothing is loaded, its skills neither.
ASSUME WarmsTenants ==
    \A rows \in SUBSET [org : {"o1", "o2"}, kind : {"flow", "skill"}, active : BOOLEAN] :
        \A r \in Sv!Warmup(rows, {}) :
            r.active /\ [org |-> r.org, kind |-> "flow", active |-> TRUE] \in rows
=============================================================================
