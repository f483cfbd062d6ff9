----------------------------- MODULE Analytical -----------------------------
(***************************************************************************)
(* The analytical assistant: POST /analytical/ask in several API workers,  *)
(* each with a rate limiter of its own in memory, and the chat pages that  *)
(* ask it.                                                                 *)
(*                                                                         *)
(* A question is answered in up to three steps, for the handler awaits the *)
(* model twice: to find the intent, and to write the answer.  The check of *)
(* the limit, and the query, await nothing.  A call of the model may fail  *)
(* or hang.  A page gives a question up after a while; its handler goes    *)
(* on.  A worker that restarts forgets what it counted.                    *)
(***************************************************************************)
EXTENDS Integers, Sequences, FiniteSets

CONSTANTS
    Workers,     \* API worker processes
    Orgs,        \* organisations
    Pages,       \* chat pages
    OrgOf,       \* the organisation of a page
    Requests,    \* the questions that are ever asked
    Intents,     \* the keys of ALLOWED_ANALYTICAL_QUERIES
    Limit,       \* _RATE_LIMIT_MAX
    Window,      \* _RATE_LIMIT_WINDOW
    MaxTime,     \* bound: the clock stops there
    MaxRestarts  \* bound: restarts of a worker

ASSUME AnalyticalAssumption ==
    /\ Limit \in Nat \ {0} /\ Window \in Nat \ {0}
    /\ MaxTime \in Nat /\ MaxRestarts \in Nat
    /\ IsFiniteSet(Requests)
    /\ OrgOf \in [Pages -> Orgs]
    /\ "none" \notin Requests

None    == "none"
Unknown == "unknown"

VARIABLES
    now,       \* time.time()
    kept,      \* _rate_limit_store of each worker: the accepted requests it remembers
    accepted,  \* history: every request a worker accepted since it started
    req,       \* the requests
    shown,     \* the messages of each page
    pending,   \* the question each page waits for
    restarts

vars == <<now, kept, accepted, req, shown, pending, restarts>>

\* A request: where its handler is, in which worker; for whom; the query type it
\* names; the answer: status 200, 429, or another (400 or 500, which differ in text).
Unused == [pc |-> "unused", worker |-> None, org |-> None, hint |-> None, answer |-> None]

Answers == {"ok", "limit", "error"}

InWorker == {"classify", "write"}
Answered == {"answered", "lost"}

Stamps  == Requests \X (0..MaxTime)
Message == [role : {"user", "assistant", "error"}, of : Requests]

TypeOK ==
    /\ now \in 0..MaxTime
    /\ kept \in [Workers -> [Orgs -> SUBSET Stamps]]
    /\ accepted \in [Workers -> [Orgs -> SUBSET Stamps]]
    /\ req \in [Requests -> [pc : {"unused", "sent"} \cup InWorker \cup Answered,
                             worker : Workers \cup {None}, org : Orgs \cup {None},
                             hint : Intents \cup {None, Unknown},
                             answer : Answers \cup {None}]]
    /\ shown \in [Pages -> Seq(Message)]
    /\ pending \in [Pages -> Requests \cup {None}]
    /\ restarts \in 0..MaxRestarts

Init ==
    /\ now = 0
    /\ kept = [w \in Workers |-> [o \in Orgs |-> {}]]
    /\ accepted = [w \in Workers |-> [o \in Orgs |-> {}]]
    /\ req = [r \in Requests |-> Unused]
    /\ shown = [p \in Pages |-> <<>>]
    /\ pending = [p \in Pages |-> None]
    /\ restarts = 0

-----------------------------------------------------------------------------
(* The page, and other clients.                                            *)

\* Which request is the next one makes no difference.
New(r) == req[r].pc = "unused" /\ r = CHOOSE x \in Requests : req[x].pc = "unused"

Asks(p, r) ==
    /\ New(r)
    /\ req' = [req EXCEPT ![r] = [@ EXCEPT !.pc = "sent", !.org = OrgOf[p]]]
    /\ shown' = [shown EXCEPT ![p] = Append(@, [role |-> "user", of |-> r])]
    /\ pending' = [pending EXCEPT ![p] = r]
    /\ UNCHANGED <<now, kept, accepted, restarts>>

\* A plausible slip: a question may be submitted while another one waits.
Submit_Twice(p, r) == Asks(p, r)

\* handleSubmit
Submit(p, r) == pending[p] = None /\ Asks(p, r)

\* handleQuickQuery looks at nothing; its buttons are there while there are no messages.
QuickQuery(p, r) == shown[p] = <<>> /\ Asks(p, r)

\* A client of the API may name the query type, also one that there is not.  (One that
\* names none is like a page that gives its question up.)
Call(o, r) ==
    /\ New(r)
    /\ \E hint \in Intents \cup {Unknown} :
          req' = [req EXCEPT ![r] = [@ EXCEPT !.pc = "sent", !.org = o, !.hint = hint]]
    /\ UNCHANGED <<now, kept, accepted, shown, pending, restarts>>

Settles(p, role) ==
    /\ shown' = [shown EXCEPT ![p] = Append(@, [role |-> role, of |-> pending[p]])]
    /\ pending' = [pending EXCEPT ![p] = None]
    /\ UNCHANGED <<now, kept, accepted, req, restarts>>

\* onSuccess and onError
Receive(p) ==
    /\ pending[p] # None
    /\ req[pending[p]].pc \in Answered
    /\ Settles(p, IF req[pending[p]].answer = "ok" THEN "assistant" ELSE "error")

\* A plausible slip: the request carries no signal.
Abort_Never(p) == FALSE /\ UNCHANGED vars

\* The signal of the request: its time is over.
Abort(p) ==
    /\ pending[p] # None
    /\ Settles(p, "error")

-----------------------------------------------------------------------------
(* The route and the crew.                                                 *)

\* A plausible slip: what is too old is kept while newer ones follow.
Recent_All(w, o) == kept[w][o]

\* A plausible slip: the window is one short.
Recent_Short(w, o) == {s \in kept[w][o] : now - s[2] < Window - 1}

\* The timestamps that are not too old.
Recent(w, o) == {s \in kept[w][o] : now - s[2] < Window}

Answer(r, w, answer) ==
    req' = [req EXCEPT ![r] = [@ EXCEPT !.worker = w, !.pc = "answered", !.answer = answer]]

\* The query is run and, with rows to tell of, the model is asked to.  Without rows,
\* whether there are none or the query failed, the answer is that there are none.
\* The model is made where nothing catches what that raises.
Tell(r, w) ==
    \/ req' = [req EXCEPT ![r] = [@ EXCEPT !.worker = w, !.pc = "write"]]
    \/ Answer(r, w, "ok")
    \/ Answer(r, w, "error")

\* ask_analytical up to the first await, with _check_rate_limit
Ask(w, r) ==
    LET o == req[r].org
        Full == Cardinality(Recent(w, o)) >= Limit
    IN  /\ req[r].pc = "sent"
        /\ IF Full
           THEN /\ kept' = [kept EXCEPT ![w][o] = Recent(w, o)]
                /\ Answer(r, w, "limit")
                /\ UNCHANGED accepted
           ELSE /\ kept' = [kept EXCEPT ![w][o] = Recent(w, o) \cup {<<r, now>>}]
                /\ accepted' = [accepted EXCEPT ![w][o] = @ \cup {<<r, now>>}]
                /\ \/ req[r].hint = Unknown /\ Answer(r, w, "error")
                   \/ req[r].hint \in Intents /\ Tell(r, w)
                   \/ /\ req[r].hint = None
                      /\ req' = [req EXCEPT ![r] = [@ EXCEPT !.worker = w, !.pc = "classify"]]
        /\ UNCHANGED <<now, shown, pending, restarts>>

\* The model names an intent, or the keywords do where it failed; or there is none.
Classified(r) ==
    /\ req[r].pc = "classify"
    /\ \/ Answer(r, req[r].worker, "error")
       \/ Tell(r, req[r].worker)
    /\ UNCHANGED <<now, kept, accepted, shown, pending, restarts>>

\* The model's text, or a template where it failed.
Narrated(r) ==
    /\ req[r].pc = "write"
    /\ Answer(r, req[r].worker, "ok")
    /\ UNCHANGED <<now, kept, accepted, shown, pending, restarts>>

Restart(w) ==
    /\ restarts < MaxRestarts
    /\ restarts' = restarts + 1
    /\ kept' = [kept EXCEPT ![w] = [o \in Orgs |-> {}]]
    /\ accepted' = [accepted EXCEPT ![w] = [o \in Orgs |-> {}]]
    /\ req' = [r \in Requests |-> IF req[r].worker = w /\ req[r].pc \in InWorker
                                  THEN [req[r] EXCEPT !.pc = "lost"] ELSE req[r]]
    /\ UNCHANGED <<now, shown, pending>>

Tick ==
    /\ now < MaxTime
    /\ now' = now + 1
    /\ UNCHANGED <<kept, accepted, req, shown, pending, restarts>>

Next ==
    \/ Tick
    \/ \E p \in Pages, r \in Requests : Submit(p, r) \/ QuickQuery(p, r)
    \/ \E o \in Orgs, r \in Requests : Call(o, r)
    \/ \E p \in Pages : Receive(p) \/ Abort(p)
    \/ \E w \in Workers : Restart(w) \/ \E r \in Requests : Ask(w, r)
    \/ \E r \in Requests : Classified(r) \/ Narrated(r)

\* The signal of a request fires; nothing is assumed of the workers and the model.
Spec == Init /\ [][Next]_vars /\ \A p \in Pages : WF_vars(Abort(p))

-----------------------------------------------------------------------------

\* "max 10 requests/min por org", of one worker and from one start of it to the next:
\* no span of Window holds more than Limit accepted questions.  _check_rate_limit.
WindowKept ==
    \A w \in Workers, o \in Orgs, t \in 0..MaxTime :
        Cardinality({s \in accepted[w][o] : t <= s[2] /\ s[2] < t + Window}) <= Limit

\* Who is refused for the limit meets a worker that did accept Limit questions of the
\* organisation within the last Window: refused questions do not count against the
\* next, and what is older is forgotten.  _check_rate_limit.
RefusedWhenFull ==
    [][\A r \in Requests : req[r].answer # "limit" /\ req'[r].answer = "limit" =>
          Cardinality({s \in accepted[req'[r].worker][req[r].org] : now - s[2] < Window}) >= Limit]_vars

\* A page shows questions and answers in turn, each answer after its question, also
\* when the answer of a question it had given up is still on its way.
\* handleSubmit, handleQuickQuery, the callbacks of askMutation.
AnsweredInTurn ==
    \A p \in Pages : \A i \in DOMAIN shown[p] :
        /\ (shown[p][i].role = "user") = (i % 2 = 1)
        /\ shown[p][i].role # "user" => shown[p][i].of = shown[p][i - 1].of

\* A page that waits is answered in the end, also when the model never answers.
\* The signal of askMutation.
PageSettles == \A p \in Pages : pending[p] # None ~> pending[p] = None
=============================================================================
