------------------------------ MODULE Builder ------------------------------
(***************************************************************************)
(* The dashboard's agent builder over the routes of AgentRuns: Run All,    *)
(* which runs the agents of a canvas one after the other, and the          *)
(* playground, which talks to one agent.  What is drawn on the canvas is   *)
(* Canvas's subject; here it is the roles that are on it at the click.     *)
(*                                                                         *)
(* A tab that is left is unmounted: a Run All that was started in it goes  *)
(* on, and shows its results to nobody.                                    *)
(*                                                                         *)
(* The playground knows a task from the moment a POST's answer is here.    *)
(* Until then it takes further messages, so that several POSTs may be on   *)
(* their way, answered in any order; a later task takes the place of one   *)
(* that is polled.                                                         *)
(***************************************************************************)
EXTENDS AgentRuns, SequencesExt

CONSTANTS
    MaxAgents,   \* bound on the agents of a canvas
    MaxPolls,    \* polls of one task before Run All gives up
    MaxLoops,    \* bound on the times Run All is pressed
    MaxSent      \* bound on the messages of a playground

ASSUME BuilderAssumption ==
    MaxPolls \in Nat \ {0} /\ {MaxLoops, MaxAgents, MaxSent} \subseteq Nat

VARIABLES
    loops,       \* every Run All: the roles that wait, the task it polls, its polls
    shown,       \* the Run All of this mount, 0 when it has none, and its results
    play         \* the playground: the task it polls, the data of the last poll, its
                 \* messages, and the answers of POSTs that are on their way

vars == <<agentVars, loops, shown, play>>

Unseen == [loop |-> 0, results |-> [r \in {} |-> None]]
Quiet  == [task |-> 0, data |-> None, late |-> FALSE, sent |-> 0, answers |-> <<>>,
           flying |-> {}, failing |-> 0]

Init ==
    /\ AgentInit
    /\ loops = <<>> /\ shown = Unseen
    /\ play = Quiet

-----------------------------------------------------------------------------
\* The canvas as far as it matters here: it is left by setActiveTab, or by a visit of
\* another page.
Switch == shown' = Unseen /\ UNCHANGED <<agentVars, loops, play>>

-----------------------------------------------------------------------------
\* Run All, for the roles of the canvas as it was at the click.

Running == shown.loop # 0 /\ ~loops[shown.loop].over

RunAll(roles) ==
    /\ ~Running /\ Len(loops) < MaxLoops
    /\ loops' = Append(loops, [queue |-> roles, task |-> 0, polls |-> 0, over |-> FALSE])
    /\ shown' = [Unseen EXCEPT !.loop = Len(loops) + 1]
    /\ UNCHANGED <<agentVars, play>>

\* A result goes to the board of the mount the loop was started in.
Show(l, r, result) ==
    shown' = IF shown.loop = l
             THEN [shown EXCEPT !.results =
                      [x \in DOMAIN @ \union {r} |-> IF x = r THEN result ELSE @[x]]]
             ELSE shown

Advance(l) == [loops EXCEPT ![l] = [queue |-> Tail(@.queue), task |-> 0, polls |-> 0, over |-> @.over]]

RunNext(l, reply) ==
    /\ ~loops[l].over /\ loops[l].queue # <<>> /\ loops[l].task = 0
    /\ Accept(Head(loops[l].queue), reply)
    /\ IF reply = "served"
       THEN /\ loops' = [loops EXCEPT ![l].task = Len(tasks')]
            /\ Show(l, Head(loops[l].queue), "running")
       ELSE /\ loops' = Advance(l)
            /\ Show(l, Head(loops[l].queue), "failed")
    /\ UNCHANGED play

\* A poll that fails ends the agent's turn as one that says the task failed, and so do
\* sixty that say neither.
RunPoll_Waits(l) ==
    /\ loops[l].task # 0
    /\ View(loops[l].task) \in {"completed", "failed"}
    /\ loops' = Advance(l)
    /\ Show(l, Head(loops[l].queue), View(loops[l].task))
    /\ UNCHANGED <<agentVars, play>>

RunPoll(l) ==
    LET seen == View(loops[l].task)
        last == loops[l].polls + 1 = MaxPolls IN
    /\ loops[l].task # 0
    /\ IF seen \in {"pending", "running"} /\ ~last
       THEN loops' = [loops EXCEPT ![l].polls = @ + 1] /\ UNCHANGED shown
       ELSE /\ loops' = Advance(l)
            /\ Show(l, Head(loops[l].queue), IF seen = "completed" THEN seen ELSE "failed")
    /\ UNCHANGED <<agentVars, play>>

RunOver(l) ==
    /\ ~loops[l].over /\ loops[l].queue = <<>>
    /\ loops' = [loops EXCEPT ![l].over = TRUE]
    /\ UNCHANGED <<agentVars, shown, play>>

-----------------------------------------------------------------------------
\* The playground, for one role at a time.

\* handleSend looks at the current task alone, and Enter not even at isPending: there is
\* none until a POST's answer is here, so several may be on their way.  What the route
\* does, nobody sees before: it is in the step of the click.
Send(r, reply) ==
    /\ play.task = 0 /\ play.sent < MaxSent /\ Len(tasks) < MaxTasks
    /\ Accept(r, reply)
    /\ play' = IF reply = "served"
               THEN [play EXCEPT !.sent = @ + 1, !.flying = @ \union {Len(tasks')}]
               ELSE [play EXCEPT !.sent = @ + 1, !.failing = @ + 1]
    /\ UNCHANGED <<loops, shown>>

\* onSuccess: the task takes the place of one that may be polled already.
Arrive(t) ==
    /\ t \in play.flying
    /\ play' = [play EXCEPT !.flying = @ \ {t}, !.task = t, !.data = None, !.late = FALSE]
    /\ UNCHANGED <<agentVars, loops, shown>>

\* onError: a message says so, and the task that is polled stays.
ArriveError ==
    /\ play.failing > 0
    /\ play' = [play EXCEPT !.failing = @ - 1, !.answers = Append(@, 0)]
    /\ UNCHANGED <<agentVars, loops, shown>>

\* The query asks again while its data says the task goes on and the time is not over;
\* an answer that fails leaves the data as it was.
Asks == play.task # 0 /\ play.data \notin {"completed", "failed"} /\ ~(play.late /\ play.data # None)

\* The effect runs when the data changes.
PlayPoll_Keeps ==
    /\ Asks
    /\ LET seen == View(play.task) IN
       /\ seen # "error" /\ seen # play.data
       /\ play' = IF seen \in {"completed", "failed"}
                  THEN [play EXCEPT !.answers = Append(@, play.task)]
                  ELSE [play EXCEPT !.data = seen]
    /\ UNCHANGED <<agentVars, loops, shown>>

PlayPoll ==
    /\ Asks
    /\ LET seen == View(play.task) IN
       /\ seen # "error" /\ seen # play.data
       /\ play' = IF seen \in {"completed", "failed"} \/ play.late
                  THEN [play EXCEPT !.task = 0, !.data = None, !.late = FALSE,
                                    !.answers = Append(@, play.task)]
                  ELSE [play EXCEPT !.data = seen]
    /\ UNCHANGED <<agentVars, loops, shown>>

\* Two minutes pass.
PlayLate ==
    /\ play.task # 0 /\ ~play.late
    /\ play' = [play EXCEPT !.late = TRUE]
    /\ UNCHANGED <<agentVars, loops, shown>>

\* The sheet is closed, or the role changes: the component begins anew, and what is on
\* its way finds nobody.
PlayClose ==
    /\ play # Quiet
    /\ play' = Quiet
    /\ UNCHANGED <<agentVars, loops, shown>>

-----------------------------------------------------------------------------

Backend ==
    /\ \/ \E s \in Savers :
            \/ \E r \in Roles : SaveLook(s, r)
            \/ \E reply \in Replies : SaveWrite(s, reply)
       \/ \E r \in Roles : Deactivate(r)
       \/ \E i \in DOMAIN jobs : JobStep(i)
       \/ Crash
    /\ UNCHANGED <<loops, shown, play>>

Loop(l) == \/ \E reply \in Replies : RunNext(l, reply)
           \/ RunPoll(l) \/ RunOver(l)

Next ==
    \/ Backend \/ Switch
    \/ \E roles \in SeqOf(Roles, MaxAgents) \ {<<>>} : RunAll(roles)
    \/ \E l \in DOMAIN loops : Loop(l)
    \/ \E r \in Roles, reply \in Replies : Send(r, reply)
    \/ \E t \in 1..Len(tasks) : Arrive(t)
    \/ ArriveError
    \/ PlayPoll \/ PlayLate \/ PlayClose

\* The jobs and the loops of the page go on; requests are sent, or fail.
Fairness ==
    /\ \A i \in 1..MaxTasks : WF_vars(i \in DOMAIN jobs /\ JobStep(i) /\ UNCHANGED <<loops, shown, play>>)
    /\ \A l \in 1..MaxLoops : WF_vars(l \in DOMAIN loops /\ Loop(l))

Spec == Init /\ [][Next]_vars /\ Fairness

-----------------------------------------------------------------------------

Loops   == [queue : Seq(Roles), task : 0..Len(tasks), polls : 0..(MaxPolls - 1), over : BOOLEAN]
Results == UNION {[R -> {"running", "completed", "failed"}] : R \in SUBSET Roles}

TypeOK ==
    /\ AgentTypeOK
    /\ loops \in Seq(Loops)
    /\ shown \in [loop : 0..Len(loops), results : Results]
    /\ play \in [task : 0..Len(tasks), data : {None, "pending", "running"}, late : BOOLEAN,
                 sent : Nat, answers : Seq(0..Len(tasks)),
                 flying : SUBSET (1..Len(tasks)), failing : Nat]

\* A job that is over has settled its task, a completed task is one whose crew came to
\* its end, and what the crew made is kept as completed, unless an answer was lost.
TaskTruth ==
    \A i \in DOMAIN tasks :
        /\ jobs[i] = "done" => tasks[i].status \in {"completed", "failed"}
        /\ tasks[i].status = "completed" => tasks[i].text
        /\ faults = 0 /\ tasks[i].text => tasks[i].status = "completed"

\* Nobody is answered twice: the playground shows at most one answer for each message,
\* and one answer for each task, also when messages overlap and one task takes the
\* other's place.
OneAnswerEach ==
    /\ Len(play.answers) <= play.sent
    /\ \A i, j \in DOMAIN play.answers :
          i # j /\ play.answers[i] # 0 => play.answers[i] # play.answers[j]

\* Run All ends, whatever comes of its agents.
RunAllEnds == \A l \in 1..MaxLoops : (l \in DOMAIN loops) ~> (l \in DOMAIN loops /\ loops[l].over)

\* A run that is accepted is settled, unless a request of it fails or its process ends.
RunsSettle ==
    \A i \in 1..MaxTasks :
        (i \in DOMAIN jobs) ~> (i \in DOMAIN jobs
            /\ (tasks[i].status \in {"completed", "failed"} \/ faults > 0))

\* A completed agent is shown as completed.
ResultsTrue ==
    \A l \in DOMAIN loops : shown.loop = l => \A r \in DOMAIN shown.results :
        shown.results[r] = "failed" =>
            \A i \in DOMAIN tasks : tasks[i].role = r => tasks[i].status # "completed"

\* A task that is polled is given up for its answer only, or with the whole playground:
\* violated by two messages whose POSTs overlap, and not checked.
NoneDropped ==
    [][play.task \in {0, play'.task} \/ play' = Quiet \/ Len(play'.answers) > Len(play.answers)]_vars
=============================================================================
