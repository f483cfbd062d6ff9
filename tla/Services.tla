------------------------------ MODULE Services ------------------------------
(***************************************************************************)
(* The services around the flows: the architect's conversations, the MCP   *)
(* gateways, the connector of catalogued services and its health checks,   *)
(* the jobs of the scheduler, the limits of an organisation, the memory of *)
(* agents, and what some routes count.                                     *)
(*                                                                         *)
(* Each is a function of what it is given and of what its environment      *)
(* does.  None of them awaits between what it reads and what it writes,    *)
(* except for the flow that a conversation starts: its end is a function   *)
(* of its own.  What a service answers is a result; how it is worded is    *)
(* left out.                                                               *)
(***************************************************************************)
EXTENDS Integers, Sequences, FiniteSets, FiniteSetsExt

Null == "null"

-----------------------------------------------------------------------------
(* Conversations.  A message is who wrote it and about which message of    *)
(* the user; a conversation also has the jobs it started that run.         *)

Started == [status |-> "in_progress", messages |-> <<>>, jobs |-> {}]

Says(c, role, m) == [c EXCEPT !.messages = Append(@, [role |-> role, of |-> m])]

FromUser(c) == {i \in DOMAIN c.messages : c.messages[i].role = "user"}

\* architect_chat: the user's message m, which may be long.  The job has the message's
\* text for its description.
ArchitectChat(c, m, long) ==
    LET asked == Says(c, "user", m)
    IN  IF Cardinality(FromUser(asked)) >= 2 \/ long
        THEN [Says(asked, "designing", m) EXCEPT !.status = "in_progress", !.jobs = @ \cup {m}]
        ELSE Says(asked, "followup", m)

\* What ArchitectFlow.execute gives back: BaseFlow returns the state of the flow.
FlowGives == {"state", "exception"}

\* _run_architect_background, from where the flow gives something back.  It asks that for
\* "flow_type" as of a mapping, which the state of a flow is not.
Designed(c, m, gives) ==
    LET ended == [c EXCEPT !.jobs = @ \ {m}]
    IN  IF gives = "mapping"
        THEN [Says(ended, "designed", m) EXCEPT !.status = "completed"]
        ELSE [Says(ended, "could not", m) EXCEPT !.status = "failed"]

\* ArchitectPage: what its user is shown is what the request itself answered.
ShownReplies(c) == {i \in DOMAIN c.messages : c.messages[i].role \in {"designing", "followup"}}

-----------------------------------------------------------------------------
(* Limits.                                                                 *)

\* load_org_limits: none where they cannot be read
LoadOrgLimits(fails, config) == IF fails THEN {} ELSE config

LimitOf(limits, key, default) ==
    IF \E l \in limits : l.key = key THEN (CHOOSE l \in limits : l.key = key).value ELSE default

\* make_approval_check
NeedsApproval(value, limits, default) == value > LimitOf(limits, "approval_threshold", default)

\* check_quota; no limit is more than any usage
QuotaExceeded(usage, limits) == usage >= LimitOf(limits, "max_tasks", usage + 1)

-----------------------------------------------------------------------------
(* Service catalog.                                                        *)

\* get_secret
SecretOf(secrets, org, name) == {s \in secrets : s.org = org /\ s.name = name}

\* What a call over HTTP may come to.
Calls == {"success", "redirect", "error status", "says timeout", "says nothing"}

\* ServiceConnectorTool._run: the first reason to refuse, or what came of the call and
\* what is recorded of it.  (A record that cannot be written is missed by nobody.)
ServiceConnector(found, integration, secrets, org, http, audits) ==
    LET refusal ==
            CASE ~found                         -> "no tool"
              [] integration.status # "active"  -> "inactive"
              [] /\ integration.secretNames # <<>>
                 /\ SecretOf(secrets, org, Head(integration.secretNames)) = {} -> "no secret"
              [] OTHER                          -> Null
    IN  IF refusal # Null
        THEN [result |-> refusal, recorded |-> {}]
        ELSE [result   |-> IF http = "success" THEN "data" ELSE "error",
              recorded |-> IF audits THEN {[answered |-> http \notin {"says timeout", "says nothing"},
                                            success  |-> http = "success"]} ELSE {}]

\* run_health_checks, for one integration: what its row says afterwards.  An exception
\* is told by the text it has.
HealthCheck(row, secrets, http, stored) ==
    LET noSecret == /\ row.secretNames # <<>>
                    /\ SecretOf(secrets, row.org, Head(row.secretNames)) = {}
        health == CASE noSecret                          -> "error"
                    [] http = "says timeout"             -> "timeout"
                    [] http \in {"success", "redirect"}  -> "ok"
                    [] OTHER                             -> "error"
    IN  IF stored THEN [row EXCEPT !.health = health] ELSE row

\* run_health_checks: each by itself
HealthChecks(rows, secrets, http, lost) ==
    {IF r.status = "active" /\ r.url THEN HealthCheck(r, secrets, http[r], r \notin lost) ELSE r : r \in rows}

-----------------------------------------------------------------------------
(* The scheduler's jobs.                                                   *)

\* check_upcoming_events_climate: the events whose flow ran.  Where the events cannot be
\* read, or a flow cannot be made, nothing comes of it.
ClimateCheck(events, today, fails, raising) ==
    IF fails THEN {}
    ELSE {e \in events : e.status = "confirmado" /\ e.day = today + 7} \ raising

\* update_prices_all_orgs: each organisation with a bartender, whatever came of others
PricesUpdated(bartenders, raising) == {b.org : b \in bartenders} \ raising

\* _actualizar_precios, for one product: a new price in hundredths of its reference
IsOffer(price, reference, threshold) == 100 * price < reference * (100 - threshold)
IsRise(price, reference, threshold)  == 100 * price > reference * (100 + threshold)

-----------------------------------------------------------------------------
(* MCP.  A user is a member of organisations, in a role; an identifier     *)
(* that is none makes the query fail.                                      *)

\* verify_org_membership
Membership(user, org, members) ==
    CASE ~user.valid -> "fails"
      [] \E m \in members : m.user = user /\ m.active /\ (m.org = org \/ m.role = "fap_admin") -> "member"
      [] OTHER -> "refused"

\* mcp_error_to_response: the code an error has, or that of an internal one.  What
\* verify_org_membership raises has none; an error of the database has the database's.
InvalidText == 22
ErrorCode(error) ==
    CASE error = "MethodNotFound" -> -32601
      [] error = "InvalidParams"  -> -32602
      [] error = "NotFound"       -> -32004
      [] error = "AuthError"      -> -32001
      [] error = "APIError"       -> InvalidText
      [] OTHER                    -> -32603

\* What the handlers of handlers.py come to: an error, or Null.  Of the world: whether the
\* flow is known, the task is there, it waits for a decision, the table can be read, and
\* the flow raises.
HandlerError(method, user, org, members, world) ==
    CASE Membership(user, org, members) = "fails"                           -> "APIError"
      [] Membership(user, org, members) = "refused"                         -> "HTTPException"
      [] method = "execute_flow" /\ ~world.flow                             -> "MethodNotFound"
      [] method # "execute_flow" /\ world.down                              -> "Exception"
      [] method = "get_task" /\ ~world.task                                 -> "NotFound"
      [] method \in {"approve_task", "reject_task"} /\ ~world.waits         -> "NotFound"
      [] method \in {"execute_flow", "approve_task", "reject_task"} /\ world.raises -> "Exception"
      [] OTHER                                                              -> Null

Methods == {"execute_flow", "get_task", "approve_task", "reject_task"}

\* mcp_gateway
McpGateway(method, named, user, org, members, world) ==
    LET error == CASE method \notin Methods -> "MethodNotFound"
                   [] ~named                -> "InvalidParams"
                   [] OTHER                 -> HandlerError(method, user, org, members, world)
    IN  IF error = Null THEN 0 ELSE ErrorCode(error)

\* The user in whose name the server on standard input calls the handlers.
StdioUser == [valid |-> FALSE, name |-> "mcp-stdio-user"]

Static == {"list_flows", "list_agents", "get_agent_detail", "get_server_time", "list_capabilities",
           "get_task", "approve_task", "reject_task"}

\* handle_tool_call, for the tools and the names of the flows
HandleToolCall(name, flows, given, org, members, world) ==
    LET error ==
            CASE name \notin Static \cup flows -> "MethodNotFound"
              [] name \in {"get_agent_detail", "get_task", "approve_task", "reject_task"} /\ ~given
                                               -> "InvalidParams"
              [] name \in {"list_agents", "get_agent_detail"} /\ world.down -> "InternalError"
              [] name = "get_agent_detail"     -> IF world.task THEN Null ELSE "MethodNotFound"
              [] name \in Static \ Methods     -> Null
              [] OTHER -> HandlerError(IF name \in Static THEN name ELSE "execute_flow",
                                       StdioUser, org, members, world)
    IN  IF error = Null THEN 0 ELSE ErrorCode(error)

\* SSEConnectionManager.broadcast: each process has a manager of its own.
Notified(clients, worker, org) == {c \in clients : c.worker = worker /\ c.org = org}

-----------------------------------------------------------------------------
(* Tools, memory, counts.                                                  *)

\* _collect_tools, with _fetch_mcp_tools: a server that cannot be reached is left out.
CollectTools(local, servers, source, category, down) ==
    (IF source \in {Null, "local"}
     THEN {t \in local : ~t.colon /\ (category = Null \/ category \in t.tags)} ELSE {})
    \cup (IF source \in {Null, "mcp"}
          THEN UNION {s.tools : s \in {x \in servers : x.active /\ x.name \notin down}} ELSE {})

\* search_memories, behind search_memory: the most similar ones, of a role or of all
SearchMemory(memories, org, role, now, limit, least) ==
    LET fit == {m \in memories : /\ m.org = org
                                 /\ role = Null \/ m.role = role
                                 /\ m.validTo > now
                                 /\ m.similarity >= least}
    IN  {top \in SUBSET fit :
            /\ Cardinality(top) = IF Cardinality(fit) < limit THEN Cardinality(fit) ELSE limit
            /\ \A m \in top, x \in fit \ top : m.similarity >= x.similarity}

\* cleanup_expired_memory
CleanupExpired(memories, org, now) == {m \in memories : ~(m.org = org /\ m.validTo < now)}

\* get_metrics_by_agent: tokens of the flows whose type has the role in its name
AgentTokens(tasks, role) ==
    MapThenSumSet(LAMBDA t : t.tokens, {t \in tasks : role \in t.flow})

\* list_tasks: a page of the tasks that pass the filters, and the total
TasksPage(tasks, status, limit, offset) ==
    LET kept == SelectSeq(tasks, LAMBDA t : status = Null \/ t.status = status)
        last == IF offset + limit < Len(kept) THEN offset + limit ELSE Len(kept)
        page == SubSeq(kept, offset + 1, last)
    IN  [items |-> page, total |-> Len(page)]

\* warmup_registries, for every tenant with an active workflow: what is loaded.  A flow
\* or a skill that cannot be loaded is left for its first use.
Warmup(rows, broken) ==
    LET tenants == {r.org : r \in {x \in rows : x.kind = "flow" /\ x.active}}
    IN  {r \in rows : r.org \in tenants /\ r.active} \ broken
=============================================================================
