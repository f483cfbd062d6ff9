------------------------------ MODULE McpPool -------------------------------
(***************************************************************************)
(* MCPPool for one MCP server of one organisation (the pool's dictionaries *)
(* are keyed by both): concurrent calls of get_tools share one cached      *)
(* adapter and one circuit breaker.                                        *)
(*                                                                         *)
(* Calls are coroutines: a label of pc is a place where one awaits, and    *)
(* what it does from one await to the next is one action.  An adapter is   *)
(* entered by a thread of the executor, which nothing stops: not even the  *)
(* timeout of the call that waits for it.  A server that dies breaks the   *)
(* adapter that is connected to it, which shows when its tools are read.   *)
(***************************************************************************)
EXTENDS Naturals

CONSTANTS
    Callers,      \* calls of get_tools
    Threshold,    \* failures that open the circuit (5 in the code)
    MaxAttempts   \* max_retries

ASSUME PoolAssumption == Threshold \in Nat \ {0} /\ MaxAttempts \in Nat \ {0}

VARIABLES
    secret,       \* the server's configuration names a secret
    pc,           \* where each call waits
    attempt,      \* its attempt
    result,       \* the adapter whose tools it returned
    adapters,     \* the state of the adapter each attempt makes
    cached,       \* _adapters[key]
    failures,     \* _health[key]["failures"]
    rested,       \* 60 s have passed since _health[key]["last_check"]
    undisturbed   \* history: no two calls overlapped and none timed out

vars == <<secret, pc, attempt, result, adapters, cached, failures, rested, undisturbed>>

Adapters == Callers \X (1..MaxAttempts)
None     == <<"none", 0>>

Waiting == {"start", "secret", "enter", "backoff"}
Ended   == {"returned", "raised"}

TypeOK ==
    /\ secret \in BOOLEAN
    /\ pc \in [Callers -> {"idle"} \union Waiting \union Ended]
    /\ attempt \in [Callers -> 1..MaxAttempts]
    /\ result \in [Callers -> Adapters \union {None}]
    /\ adapters \in [Adapters -> {"unused", "connecting", "connected", "broken", "gone"}]
    /\ cached \in Adapters \union {None}
    /\ failures \in Nat
    /\ rested \in BOOLEAN
    /\ undisturbed \in BOOLEAN

Init ==
    /\ secret \in BOOLEAN
    /\ pc = [c \in Callers |-> "idle"]
    /\ attempt = [c \in Callers |-> 1]
    /\ result = [c \in Callers |-> None]
    /\ adapters = [a \in Adapters |-> "unused"]
    /\ cached = None
    /\ failures \in 0..Threshold      \* left by earlier calls
    /\ rested \in BOOLEAN
    /\ undisturbed = TRUE

Mine(c)       == <<c, attempt[c]>>
InProgress    == {c \in Callers : pc[c] \in Waiting}
Live          == {a \in Adapters : adapters[a] \in {"connected", "broken"}}

\* A plausible slip: the failures are compared, and the time is not.
IsCircuitOpen_Forever == failures >= Threshold

IsCircuitOpen == failures >= Threshold /\ ~rested

-----------------------------------------------------------------------------

\* get_tools: refused while the circuit is open, else the first attempt starts.
\* (The retry helper runs the first attempt without waiting.)
Call(c) ==
    /\ pc[c] = "idle"
    /\ IF IsCircuitOpen
       THEN pc' = [pc EXCEPT ![c] = "raised"] /\ UNCHANGED undisturbed
       ELSE pc' = [pc EXCEPT ![c] = "start"] /\ undisturbed' = (undisturbed /\ InProgress = {})
    /\ UNCHANGED <<secret, attempt, result, adapters, cached, failures, rested>>

\* A plausible slip: the attempts are not counted.
AttemptFails_Again(c, counted, health) ==
    /\ pc' = [pc EXCEPT ![c] = "backoff"]
    /\ failures' = health
    /\ UNCHANGED <<attempt, rested>>

\* A plausible slip: one attempt too many.
AttemptFails_Late(c, counted, health) ==
    /\ attempt' = [attempt EXCEPT ![c] = @ + 1]
    /\ pc' = [pc EXCEPT ![c] = IF attempt[c] <= MaxAttempts THEN "backoff" ELSE "raised"]
    /\ failures' = health
    /\ UNCHANGED rested

\* An attempt of c ends with an exception: another one follows after a while, or
\* get_tools fails, and counts the failure unless it is that the server is not
\* configured.
AttemptFails(c, counted, health) ==
    IF attempt[c] < MaxAttempts
    THEN /\ attempt' = [attempt EXCEPT ![c] = @ + 1]
         /\ pc' = [pc EXCEPT ![c] = "backoff"]
         /\ failures' = health
         /\ UNCHANGED rested
    ELSE /\ pc' = [pc EXCEPT ![c] = "raised"]
         /\ failures' = IF counted THEN health + 1 ELSE health
         /\ rested' = (rested /\ ~counted)
         /\ UNCHANGED attempt

Returns(c, a) ==
    /\ pc' = [pc EXCEPT ![c] = "returned"]
    /\ result' = [result EXCEPT ![c] = a]

\* The cached adapter is there and gives its tools.
UseCached(c) ==
    /\ pc[c] \in {"start", "backoff"}
    /\ cached # None
    /\ adapters[cached] = "connected"
    /\ Returns(c, cached)
    /\ UNCHANGED <<secret, attempt, adapters, cached, failures, rested, undisturbed>>

\* Its adapter is entered in a thread.
Enter(c, base) ==
    /\ adapters' = [base EXCEPT ![Mine(c)] = "connecting"]
    /\ pc' = [pc EXCEPT ![c] = "enter"]

\* A plausible slip: an adapter that fails is forgotten, not closed.
SafeClose_Forgets == adapters

\* _safe_close
SafeClose == IF cached = None THEN adapters ELSE [adapters EXCEPT ![cached] = "gone"]

\* There is no adapter, or it is broken and closed: the configuration is read,
\* and with it at hand the secret is asked for, or the adapter entered.
Reconnect(c) ==
    /\ pc[c] \in {"start", "backoff"}
    /\ cached # None => adapters[cached] = "broken"
    /\ cached' = None
    /\ \/ \E counted \in BOOLEAN : AttemptFails(c, counted, failures)
          /\ adapters' = SafeClose
       \/ /\ IF secret THEN pc' = [pc EXCEPT ![c] = "secret"] /\ adapters' = SafeClose
                       ELSE Enter(c, SafeClose)
          /\ UNCHANGED <<attempt, failures, rested>>
    /\ UNCHANGED <<secret, result, undisturbed>>

SecretFetched(c) ==
    /\ pc[c] = "secret"
    /\ \/ Enter(c, adapters) /\ UNCHANGED <<attempt, failures, rested>>
       \/ AttemptFails(c, TRUE, failures) /\ UNCHANGED adapters
    /\ UNCHANGED <<secret, result, cached, undisturbed>>

\* The adapter's thread is through before the timeout: the adapter is cached,
\* whatever is cached now; its tools are read, which fails if it broke meanwhile.
Entered(c) ==
    /\ pc[c] = "enter"
    /\ adapters[Mine(c)] \in {"connected", "broken"}
    /\ cached' = Mine(c)
    /\ IF adapters[Mine(c)] = "connected"
       THEN Returns(c, Mine(c)) /\ failures' = 0 /\ UNCHANGED <<attempt, rested>>
       ELSE AttemptFails(c, TRUE, 0) /\ UNCHANGED result
    /\ UNCHANGED <<secret, adapters, undisturbed>>

EnterFails(c) ==
    /\ pc[c] = "enter"
    /\ adapters[Mine(c)] = "gone"
    /\ AttemptFails(c, TRUE, failures)
    /\ UNCHANGED <<secret, result, adapters, cached, undisturbed>>

\* wait_for gives up; the thread goes on.
EnterTimesOut(c) ==
    /\ pc[c] = "enter"
    /\ adapters[Mine(c)] = "connecting"
    /\ AttemptFails(c, TRUE, failures)
    /\ undisturbed' = FALSE
    /\ UNCHANGED <<secret, result, adapters, cached>>

\* What the servers' processes do, and the clock.  That an adapter nobody will use
\* breaks makes no difference.
ThreadEnds(a) ==
    /\ adapters[a] = "connecting"
    /\ \E outcome \in {"connected", "gone"} : adapters' = [adapters EXCEPT ![a] = outcome]
    /\ UNCHANGED <<secret, pc, attempt, result, cached, failures, rested, undisturbed>>

ServerDies(a) ==
    /\ adapters[a] = "connected"
    /\ a \in {cached} \union {Mine(c) : c \in InProgress}
    /\ adapters' = [adapters EXCEPT ![a] = "broken"]
    /\ UNCHANGED <<secret, pc, attempt, result, cached, failures, rested, undisturbed>>

Rest ==
    /\ ~rested
    /\ rested' = TRUE
    /\ UNCHANGED <<secret, pc, attempt, result, adapters, cached, failures, undisturbed>>

GoesOn(c) ==
    \/ UseCached(c) \/ Reconnect(c) \/ SecretFetched(c)
    \/ Entered(c) \/ EnterFails(c) \/ EnterTimesOut(c)

Terminated == \A c \in Callers : pc[c] \in Ended

Next ==
    \/ \E c \in Callers : Call(c) \/ GoesOn(c)
    \/ \E a \in Adapters : ThreadEnds(a) \/ ServerDies(a)
    \/ Rest
    \/ Terminated /\ UNCHANGED vars

Spec == Init /\ [][Next]_vars

\* The event loop resumes a coroutine that can go on, a timeout at the latest
\* makes it so; the clock runs.  Threads may hang.
FairSpec == Spec /\ WF_vars(Rest) /\ \A c \in Callers : WF_vars(GoesOn(c))

-----------------------------------------------------------------------------

\* Calls one after the other, none of which times out, keep at most one adapter:
\* the cached one, or the one that is being entered to be cached.
\* MCPPool.get_tools with _safe_close.
OneAdapterAlone ==
    undisturbed => Live \subseteq {cached} \union {Mine(c) : c \in InProgress}

\* "Keeps one adapter per (org_id, server_name) pair alive for the process
\* lifetime": no adapter is left connected without being the cached one, unless a
\* call is about to cache it.
OneAdapter == Live \subseteq {cached} \union {Mine(c) : c \in InProgress}

\* "Circuito half-open tras 60s. Permite 1 intento."
HalfOpenOne ==
    [][\A c \in Callers : failures >= Threshold /\ pc[c] = "idle" /\ pc'[c] = "start"
            => InProgress = {}]_vars

\* Every call ends, also when no thread that enters an adapter ever does.
\* The timeout and the bounded retries of get_tools.
CallsEnd == \A c \in Callers : pc[c] \in Waiting ~> pc[c] \in Ended

\* An open circuit lets calls through again.  _is_circuit_open.
CircuitCloses == IsCircuitOpen ~> ~IsCircuitOpen
=============================================================================
