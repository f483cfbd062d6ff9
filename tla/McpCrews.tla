----------------------------- MODULE McpCrews ------------------------------
(***************************************************************************)
(* Runs of agents whose tool comes from McpPool.  The pool gives every run *)
(* the same tool object; BaseCrew.run_async wraps the tool's function to   *)
(* count the calls of its run, and puts back what it found when the run is *)
(* through.  A run that fails puts nothing back.                           *)
(*                                                                         *)
(* Each caller of McpPool is the run of one agent, with one tool.  What a  *)
(* tool's function calls is the sequence of the runs that wrapped it, the  *)
(* latest first; in the end there is always the server's own.              *)
(***************************************************************************)
EXTENDS McpPool, Sequences, FiniteSets

CONSTANT MaxCalls     \* bound: tool calls of a run

VARIABLES
    phase,      \* where each run is
    chain,      \* tool._run of each adapter's tool
    original,   \* what each tracer found
    sees,       \* the function the run's agent took when it began
    called,     \* history: how often the agent called its tool
    counted,    \* tracer._calls
    reported,   \* _last_tool_calls
    alone       \* history: no other run was under way on the tool meanwhile

crewVars == <<phase, chain, original, sees, called, counted, reported, alone>>
allVars  == <<vars, crewVars>>

UnderWay == {"traced", "running"}

CrewInit ==
    /\ Init
    /\ phase = [c \in Callers |-> "resolving"]
    /\ chain = [a \in Adapters |-> <<>>]
    /\ original = [c \in Callers |-> <<>>]
    /\ sees = [c \in Callers |-> <<>>]
    /\ called = [c \in Callers |-> 0]
    /\ counted = [c \in Callers |-> 0]
    /\ reported = [c \in Callers |-> 0]
    /\ alone = [c \in Callers |-> TRUE]

Sharing(c) == {d \in Callers \ {c} : phase[d] \in UnderWay /\ result[d] = result[c]}

-----------------------------------------------------------------------------

\* A plausible slip: what is wrapped already is not wrapped again.
Wrapped_Once(c) == IF chain[result[c]] = <<>> THEN <<c>> ELSE chain[result[c]]

\* ToolCallTracer.trace
Wrapped(c) == <<c>> \o chain[result[c]]

\* create_agent_async is through, and the tracer wraps the tool.  (A run whose server
\* is not to be had goes on without the tool: it stays out of what follows.)
Trace(c) ==
    /\ phase[c] = "resolving" /\ pc[c] = "returned"
    /\ phase' = [phase EXCEPT ![c] = "traced"]
    /\ original' = [original EXCEPT ![c] = chain[result[c]]]
    /\ chain' = [chain EXCEPT ![result[c]] = Wrapped(c)]
    /\ alone' = [d \in Callers |-> IF d = c THEN Sharing(c) = {}
                                   ELSE alone[d] /\ d \notin Sharing(c)]
    /\ UNCHANGED <<sees, called, counted, reported>>

\* kickoff_async goes on in a thread, where the agent takes the tool's function.
Start(c) ==
    /\ phase[c] = "traced"
    /\ phase' = [phase EXCEPT ![c] = "running"]
    /\ sees' = [sees EXCEPT ![c] = chain[result[c]]]
    /\ UNCHANGED <<chain, original, called, counted, reported, alone>>

\* Every wrapper on the way counts.
CallTool(c) ==
    /\ phase[c] = "running" /\ called[c] < MaxCalls
    /\ called' = [called EXCEPT ![c] = @ + 1]
    /\ counted' = [d \in Callers |->
                      counted[d] + Cardinality({i \in DOMAIN sees[c] : sees[c][i] = d})]
    /\ UNCHANGED <<phase, chain, original, sees, reported, alone>>

\* ToolCallTracer.restore
Restored(c) == [chain EXCEPT ![result[c]] = original[c]]

Finish(c) ==
    /\ phase[c] = "running"
    /\ phase' = [phase EXCEPT ![c] = "done"]
    /\ reported' = [reported EXCEPT ![c] = counted[c]]
    /\ chain' = Restored(c)
    /\ UNCHANGED <<original, sees, called, counted, alone>>

Fail(c) ==
    /\ phase[c] \in UnderWay
    /\ phase' = [phase EXCEPT ![c] = "failed"]
    /\ UNCHANGED <<chain, original, sees, called, counted, reported, alone>>

CrewStep(c) == Trace(c) \/ Start(c) \/ CallTool(c) \/ Finish(c) \/ Fail(c)

CrewNext ==
    \/ Next /\ UNCHANGED crewVars
    \/ \E c \in Callers : CrewStep(c) /\ UNCHANGED vars

CrewSpec ==
    /\ CrewInit /\ [][CrewNext]_allVars
    /\ WF_allVars(Rest /\ UNCHANGED crewVars)
    /\ \A c \in Callers : WF_allVars(GoesOn(c) /\ UNCHANGED crewVars)

-----------------------------------------------------------------------------

\* A run that had its tool to itself reports exactly the calls it made, whatever
\* earlier runs left around the tool.  BaseCrew.run_async, ToolCallTracer.
CountsExactAlone ==
    \A c \in Callers : phase[c] = "done" /\ alone[c] => reported[c] = called[c]

\* A tool that no run failed with, and no two runs had at once, is wrapped once while a
\* run has it and not at all afterwards.  ToolCallTracer.
ToolLeftBare ==
    (\A c \in Callers : phase[c] # "failed" /\ alone[c]) =>
        \A a \in Adapters : Len(chain[a])
            = Cardinality({c \in Callers : phase[c] \in UnderWay /\ result[c] = a})

\* The two of them.
TracedRight == CountsExactAlone /\ ToolLeftBare

\* "Return tool invocation counts from last run": of that run and no other.
CountsExact == \A c \in Callers : phase[c] = "done" => reported[c] = called[c]
=============================================================================
