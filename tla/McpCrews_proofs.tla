-------------------------- MODULE McpCrews_proofs ---------------------------
(***************************************************************************)
(* Proofs about McpPool: its type invariant, and that calls which do not   *)
(* overlap and do not time out keep at most one adapter.  And about        *)
(* McpCrews: what McpPool promises holds of the pool the runs share, and a *)
(* run that had its tool to itself counts its calls and leaves the tool as *)
(* it found it.                                                            *)
(***************************************************************************)
EXTENDS McpCrews, FiniteSetTheorems, SequenceTheorems, TLAPS

LEMMA MineType == ASSUME TypeOK, NEW c \in Callers PROVE Mine(c) \in Adapters
  BY DEF TypeOK, Mine, Adapters

\* How an attempt that fails leaves the variables it may change.
LEMMA AttemptFailsType ==
    ASSUME TypeOK, NEW c \in Callers, NEW counting \in BOOLEAN, NEW health \in Nat,
           AttemptFails(c, counting, health)
    PROVE  /\ pc' \in [Callers -> {"idle"} \union Waiting \union Ended]
           /\ attempt' \in [Callers -> 1..MaxAttempts]
           /\ failures' \in Nat
           /\ rested' \in BOOLEAN
<1>1. pc' \in [Callers -> {"idle"} \union Waiting \union Ended]
  BY DEF TypeOK, AttemptFails, Waiting, Ended
<1>2. attempt' \in [Callers -> 1..MaxAttempts]
  BY PoolAssumption DEF TypeOK, AttemptFails
<1>3. failures' \in Nat
  BY DEF AttemptFails
<1>4. rested' \in BOOLEAN
  BY DEF TypeOK, AttemptFails
<1> QED BY <1>1, <1>2, <1>3, <1>4

LEMMA EnterType ==
    ASSUME TypeOK, NEW c \in Callers, Enter(c, adapters) \/ Enter(c, SafeClose)
    PROVE  /\ pc' \in [Callers -> {"idle"} \union Waiting \union Ended]
           /\ adapters' \in [Adapters -> {"unused", "connecting", "connected", "broken", "gone"}]
  BY MineType DEF TypeOK, Enter, SafeClose, Waiting, Ended

LEMMA InitType == Init => TypeOK
<1> SUFFICES ASSUME Init PROVE TypeOK
  OBVIOUS
<1>1. pc \in [Callers -> {"idle"} \union Waiting \union Ended]
  BY DEF Init
<1>2. attempt \in [Callers -> 1..MaxAttempts]
  BY PoolAssumption DEF Init
<1>3. result \in [Callers -> Adapters \union {None}] /\ cached \in Adapters \union {None}
  BY DEF Init
<1>4. adapters \in [Adapters -> {"unused", "connecting", "connected", "broken", "gone"}]
  BY DEF Init
<1>5. failures \in Nat
  BY PoolAssumption DEF Init
<1>6. secret \in BOOLEAN /\ rested \in BOOLEAN /\ undisturbed \in BOOLEAN
  BY Zenon DEF Init
<1> QED BY <1>1, <1>2, <1>3, <1>4, <1>5, <1>6 DEF TypeOK

LEMMA NextType == TypeOK /\ [Next]_vars => TypeOK'
<1> SUFFICES ASSUME TypeOK, [Next]_vars PROVE TypeOK'
  OBVIOUS
<1>1. ASSUME NEW c \in Callers, Call(c) PROVE TypeOK'
  <2>1. pc' \in [Callers -> {"idle"} \union Waiting \union Ended]
    BY <1>1 DEF Call, TypeOK, Waiting, Ended
  <2>2. undisturbed' \in BOOLEAN
    BY <1>1, Zenon DEF Call, TypeOK
  <2> QED BY <1>1, <2>1, <2>2 DEF Call, TypeOK
<1>2. ASSUME NEW c \in Callers, UseCached(c) PROVE TypeOK'
  BY <1>2 DEF UseCached, Returns, TypeOK, Waiting, Ended
<1>3. ASSUME NEW c \in Callers, Reconnect(c) PROVE TypeOK'
  <2>1. cached' = None /\ UNCHANGED <<secret, result, undisturbed>>
    BY <1>3 DEF Reconnect
  <2>2. SafeClose \in [Adapters -> {"unused", "connecting", "connected", "broken", "gone"}]
    BY DEF SafeClose, TypeOK
  <2>3. CASE (\E counting \in BOOLEAN : AttemptFails(c, counting, failures)) /\ adapters' = SafeClose
    <3>1. failures \in Nat
      BY DEF TypeOK
    <3> QED BY <2>1, <2>2, <2>3, <3>1, AttemptFailsType DEF TypeOK
  <2>4. CASE secret /\ pc' = [pc EXCEPT ![c] = "secret"] /\ adapters' = SafeClose
             /\ UNCHANGED <<attempt, failures, rested>>
    BY <2>1, <2>2, <2>4 DEF TypeOK, Waiting
  <2>5. CASE Enter(c, SafeClose) /\ UNCHANGED <<attempt, failures, rested>>
    BY <2>1, <2>5, EnterType DEF TypeOK
  <2> QED BY <1>3, <2>3, <2>4, <2>5 DEF Reconnect
<1>4. ASSUME NEW c \in Callers, SecretFetched(c) PROVE TypeOK'
  <2>1. UNCHANGED <<secret, result, cached, undisturbed>>
    BY <1>4 DEF SecretFetched
  <2>2. CASE Enter(c, adapters) /\ UNCHANGED <<attempt, failures, rested>>
    BY <2>1, <2>2, EnterType DEF TypeOK
  <2>3. CASE AttemptFails(c, TRUE, failures) /\ UNCHANGED adapters
    <3>1. failures \in Nat
      BY DEF TypeOK
    <3> QED BY <2>1, <2>3, <3>1, AttemptFailsType DEF TypeOK
  <2> QED BY <1>4, <2>2, <2>3 DEF SecretFetched
<1>5. ASSUME NEW c \in Callers, Entered(c) PROVE TypeOK'
  <2>1. cached' = Mine(c) /\ Mine(c) \in Adapters /\ UNCHANGED <<secret, adapters, undisturbed>>
    BY <1>5, MineType DEF Entered
  <2>2. CASE Returns(c, Mine(c)) /\ failures' = 0 /\ UNCHANGED <<attempt, rested>>
    BY <2>1, <2>2 DEF Returns, TypeOK, Ended
  <2>3. CASE AttemptFails(c, TRUE, 0) /\ UNCHANGED result
    BY <2>1, <2>3, AttemptFailsType DEF TypeOK
  <2> QED BY <1>5, <2>2, <2>3 DEF Entered
<1>6. ASSUME NEW c \in Callers, EnterFails(c) PROVE TypeOK'
  <2>1. failures \in Nat
    BY DEF TypeOK
  <2> QED BY <1>6, <2>1, AttemptFailsType DEF EnterFails, TypeOK
<1>7. ASSUME NEW c \in Callers, EnterTimesOut(c) PROVE TypeOK'
  <2>1. failures \in Nat
    BY DEF TypeOK
  <2>2. undisturbed' \in BOOLEAN
    BY <1>7, Zenon DEF EnterTimesOut
  <2> QED BY <1>7, <2>1, <2>2, AttemptFailsType DEF EnterTimesOut, TypeOK
<1>8. ASSUME NEW a \in Adapters, ThreadEnds(a) PROVE TypeOK'
  BY <1>8 DEF ThreadEnds, TypeOK
<1>9. ASSUME NEW a \in Adapters, ServerDies(a) PROVE TypeOK'
  BY <1>9 DEF ServerDies, TypeOK
<1>10. CASE Rest
  <2>1. rested' \in BOOLEAN
    BY <1>10, Zenon DEF Rest
  <2> QED BY <1>10, <2>1 DEF Rest, TypeOK
<1>11. CASE UNCHANGED vars
  BY <1>11 DEF vars, TypeOK
<1> QED BY <1>1, <1>2, <1>3, <1>4, <1>5, <1>6, <1>7, <1>8, <1>9, <1>10, <1>11 DEF Next, GoesOn

\* McpPool: the variables keep their types; no call makes more than MaxAttempts
\* attempts.  MCPPool.get_tools.
THEOREM TypeCorrect == Spec => []TypeOK
  BY InitType, NextType, PTL DEF Spec

-----------------------------------------------------------------------------

Busy(a)     == adapters[a] \in {"connecting", "connected", "broken"}
Entering(c) == pc[c] = "enter"

\* Without overlaps and timeouts one call is in progress at most; while it connects
\* nothing is cached; and an adapter that is connected, or connecting, is the cached
\* one or that call's.
CalmInv ==
    undisturbed =>
        /\ \A c, d \in Callers : pc[c] \in Waiting /\ pc[d] \in Waiting => c = d
        /\ \A c \in Callers : pc[c] \in {"secret", "enter"} => cached = None
        /\ \A a \in Adapters : Busy(a) => \/ a = cached
                                          \/ \E c \in Callers : Entering(c) /\ a = Mine(c)

IInv == TypeOK /\ CalmInv

\* An attempt that fails leaves its call out of "enter", and no other call moves.
LEMMA AttemptFailsMoves ==
    ASSUME TypeOK, NEW c \in Callers, NEW counting, NEW health, AttemptFails(c, counting, health)
    PROVE  /\ pc'[c] \in {"backoff", "raised"}
           /\ \A d \in Callers \ {c} : pc'[d] = pc[d] /\ attempt'[d] = attempt[d]
  BY DEF TypeOK, AttemptFails

\* A step after which c waits for no connection, nobody else moves, and every busy
\* adapter is the cached one, keeps the invariant.
LEMMA CalmStep ==
    ASSUME IInv, NEW c \in Callers, pc[c] \in Waiting,
           undisturbed' = undisturbed,
           \A d \in Callers \ {c} : pc'[d] = pc[d],
           pc'[c] \notin {"secret", "enter"},
           undisturbed => \A a \in Adapters : Busy(a)' => a = cached'
    PROVE  CalmInv'
<1> SUFFICES ASSUME undisturbed
             PROVE  /\ \A d, e \in Callers : pc'[d] \in Waiting /\ pc'[e] \in Waiting => d = e
                    /\ \A d \in Callers : pc'[d] \in {"secret", "enter"} => cached' = None
                    /\ \A a \in Adapters : Busy(a)' => a = cached'
  BY DEF CalmInv
<1>1. \A d \in Callers \ {c} : pc[d] \notin Waiting
  BY DEF IInv, CalmInv
<1>2. \A d \in Callers \ {c} : pc'[d] \notin Waiting
  BY <1>1
<1> QED BY <1>2 DEF Waiting

\* While c is the one call in progress and connects, every busy adapter is its own.
LEMMA BusyMine ==
    ASSUME IInv, undisturbed, NEW c \in Callers, pc[c] \in {"secret", "enter"},
           NEW a \in Adapters, Busy(a)
    PROVE  \/ a = None
           \/ pc[c] = "enter" /\ a = Mine(c)
<1>1. cached = None
  BY DEF IInv, CalmInv
<1>2. CASE a = cached
  BY <1>1, <1>2
<1>3. CASE \E d \in Callers : Entering(d) /\ a = Mine(d)
  BY <1>3 DEF IInv, CalmInv, Entering, Waiting
<1> QED BY <1>2, <1>3 DEF IInv, CalmInv

LEMMA NoneIsNoAdapter == None \notin Adapters
  BY PoolAssumption DEF None, Adapters

LEMMA InitCalm == Init => CalmInv
<1> SUFFICES ASSUME Init PROVE CalmInv
  OBVIOUS
<1>1. \A c \in Callers : pc[c] = "idle"
  BY DEF Init
<1>2. \A a \in Adapters : ~Busy(a)
  BY DEF Init, Busy
<1> QED BY <1>1, <1>2 DEF CalmInv, Waiting

LEMMA NextCalm == IInv /\ [Next]_vars => CalmInv'
<1> SUFFICES ASSUME IInv, [Next]_vars PROVE CalmInv'
  OBVIOUS
<1>t. TypeOK
  BY DEF IInv
<1>d. DOMAIN pc = Callers /\ DOMAIN adapters = Adapters /\ DOMAIN attempt = Callers
  BY <1>t DEF TypeOK
<1>1. ASSUME NEW c \in Callers, Call(c) PROVE CalmInv'
  <2>1. CASE IsCircuitOpen
    <3>1. pc' = [pc EXCEPT ![c] = "raised"] /\ undisturbed' = undisturbed
      BY <1>1, <2>1 DEF Call
    <3>2. UNCHANGED <<attempt, adapters, cached>> /\ pc[c] = "idle"
      BY <1>1 DEF Call
    <3> QED BY <3>1, <3>2, <1>d DEF IInv, CalmInv, Busy, Entering, Mine, Waiting
  <2>2. CASE ~IsCircuitOpen
    <3>1. pc' = [pc EXCEPT ![c] = "start"] /\ undisturbed' = (undisturbed /\ InProgress = {})
      BY <1>1, <2>2 DEF Call
    <3>2. UNCHANGED <<attempt, adapters, cached>> /\ pc[c] = "idle"
      BY <1>1 DEF Call
    <3>3. ASSUME undisturbed' PROVE \A d \in Callers \ {c} : pc'[d] \notin Waiting
      BY <3>1, <3>3, <1>d DEF InProgress
    <3>4. ASSUME undisturbed', NEW a \in Adapters, Busy(a)' PROVE a = cached'
      BY <3>1, <3>2, <3>4 DEF IInv, CalmInv, Busy, Entering, InProgress, Waiting
    <3> QED BY <3>1, <3>3, <3>4, <1>d DEF CalmInv, Waiting
  <2> QED BY <2>1, <2>2
<1>2. ASSUME NEW c \in Callers, UseCached(c) PROVE CalmInv'
  <2>1. /\ pc[c] \in {"start", "backoff"} /\ pc' = [pc EXCEPT ![c] = "returned"]
        /\ UNCHANGED <<attempt, adapters, cached, undisturbed>>
    BY <1>2 DEF UseCached, Returns
  <2> QED BY <2>1, <1>d DEF IInv, CalmInv, Busy, Entering, Mine, Waiting
<1>3. ASSUME NEW c \in Callers, Reconnect(c) PROVE CalmInv'
  <2>1. pc[c] \in {"start", "backoff"} /\ cached' = None /\ undisturbed' = undisturbed
    BY <1>3 DEF Reconnect
  <2>2. ASSUME undisturbed PROVE \A d \in Callers \ {c} : pc[d] \notin Waiting
    BY <2>1, <2>2 DEF IInv, CalmInv, Waiting
  \* Only the cached adapter can be busy, and it is closed.
  <2>3. ASSUME undisturbed, NEW a \in Adapters
        PROVE  SafeClose[a] \notin {"connecting", "connected", "broken"}
    <3>1. Busy(a) => a = cached
      BY <2>1, <2>2, <2>3 DEF IInv, CalmInv, Entering, Waiting
    <3> QED BY <3>1, <1>d, NoneIsNoAdapter DEF SafeClose, Busy
  <2>4. CASE (\E counting \in BOOLEAN : AttemptFails(c, counting, failures)) /\ adapters' = SafeClose
    <3>1. pc'[c] \in {"backoff", "raised"} /\ \A d \in Callers \ {c} : pc'[d] = pc[d]
      BY <2>4, <1>t, AttemptFailsMoves
    <3>2. undisturbed => \A a \in Adapters : ~Busy(a)'
      BY <2>3, <2>4 DEF Busy
    <3>3. pc[c] \in Waiting
      BY <2>1 DEF Waiting
    <3> QED BY <2>1, <3>1, <3>2, <3>3, CalmStep
  <2>5. CASE pc' = [pc EXCEPT ![c] = "secret"] /\ adapters' = SafeClose
    BY <2>1, <2>2, <2>3, <2>5, <1>d DEF CalmInv, Busy, Waiting
  <2>6. CASE Enter(c, SafeClose) /\ UNCHANGED attempt
    <3>1. pc' = [pc EXCEPT ![c] = "enter"] /\ adapters' = [SafeClose EXCEPT ![Mine(c)] = "connecting"]
      BY <2>6 DEF Enter
    <3>2. DOMAIN SafeClose = Adapters /\ Mine(c)' = Mine(c)
      BY <2>6, <1>d DEF SafeClose, Mine
    <3>3. ASSUME undisturbed, NEW a \in Adapters, Busy(a)' PROVE a = Mine(c)'
      BY <2>3, <3>1, <3>2, <3>3 DEF Busy
    <3> QED BY <2>1, <2>2, <3>1, <3>3, <1>d DEF CalmInv, Entering, Waiting
  <2> QED BY <1>3, <2>4, <2>5, <2>6 DEF Reconnect
<1>4. ASSUME NEW c \in Callers, SecretFetched(c) PROVE CalmInv'
  <2>1. pc[c] = "secret" /\ UNCHANGED <<cached, undisturbed>>
    BY <1>4 DEF SecretFetched
  <2>2. ASSUME undisturbed, NEW a \in Adapters PROVE ~Busy(a)
    BY <2>1, <2>2, BusyMine, NoneIsNoAdapter
  <2>3. ASSUME undisturbed PROVE cached = None /\ \A d \in Callers \ {c} : pc[d] \notin Waiting
    BY <2>1, <2>3 DEF IInv, CalmInv, Waiting
  <2>4. CASE Enter(c, adapters) /\ UNCHANGED attempt
    <3>1. pc' = [pc EXCEPT ![c] = "enter"] /\ adapters' = [adapters EXCEPT ![Mine(c)] = "connecting"]
      BY <2>4 DEF Enter
    <3>2. Mine(c)' = Mine(c)
      BY <2>4 DEF Mine
    <3>3. ASSUME undisturbed, NEW a \in Adapters, Busy(a)' PROVE a = Mine(c)'
      BY <2>2, <3>1, <3>2, <3>3, <1>d DEF Busy
    <3> QED BY <2>1, <2>3, <3>1, <3>3, <1>d DEF CalmInv, Entering, Waiting
  <2>5. CASE AttemptFails(c, TRUE, failures) /\ UNCHANGED adapters
    <3>1. pc'[c] \in {"backoff", "raised"} /\ \A d \in Callers \ {c} : pc'[d] = pc[d]
      BY <2>5, <1>t, AttemptFailsMoves
    <3>2. undisturbed => \A a \in Adapters : ~Busy(a)'
      BY <2>2, <2>5 DEF Busy
    <3>3. pc[c] \in Waiting
      BY <2>1 DEF Waiting
    <3> QED BY <2>1, <3>1, <3>2, <3>3, CalmStep
  <2> QED BY <1>4, <2>4, <2>5 DEF SecretFetched
<1>5. ASSUME NEW c \in Callers, Entered(c) PROVE CalmInv'
  <2>1. pc[c] = "enter" /\ cached' = Mine(c) /\ UNCHANGED <<adapters, undisturbed>>
    BY <1>5 DEF Entered
  <2>2. undisturbed => \A a \in Adapters : Busy(a)' => a = cached'
    BY <2>1, BusyMine, NoneIsNoAdapter DEF Busy
  <2>3. pc'[c] \notin {"secret", "enter"} /\ \A d \in Callers \ {c} : pc'[d] = pc[d]
    BY <1>5, <1>t, <1>d, AttemptFailsMoves DEF Entered, Returns
  <2>4. pc[c] \in Waiting
    BY <2>1 DEF Waiting
  <2> QED BY <2>1, <2>2, <2>3, <2>4, CalmStep
<1>6. ASSUME NEW c \in Callers, EnterFails(c) PROVE CalmInv'
  <2>1. pc[c] = "enter" /\ adapters[Mine(c)] = "gone" /\ UNCHANGED <<adapters, cached, undisturbed>>
    BY <1>6 DEF EnterFails
  <2>2. undisturbed => \A a \in Adapters : ~Busy(a)'
    BY <2>1, BusyMine, NoneIsNoAdapter DEF Busy
  <2>3. pc'[c] \in {"backoff", "raised"} /\ \A d \in Callers \ {c} : pc'[d] = pc[d]
    BY <1>6, <1>t, AttemptFailsMoves DEF EnterFails
  <2>4. pc[c] \in Waiting
    BY <2>1 DEF Waiting
  <2> QED BY <2>1, <2>2, <2>3, <2>4, CalmStep
<1>7. ASSUME NEW c \in Callers, EnterTimesOut(c) PROVE CalmInv'
  BY <1>7 DEF EnterTimesOut, CalmInv
<1>8. ASSUME NEW a \in Adapters, ThreadEnds(a) PROVE CalmInv'
  BY <1>8, <1>d DEF ThreadEnds, IInv, CalmInv, Busy, Entering, Mine
<1>9. ASSUME NEW a \in Adapters, ServerDies(a) PROVE CalmInv'
  BY <1>9, <1>d DEF ServerDies, IInv, CalmInv, Busy, Entering, Mine
<1>10. CASE Rest
  BY <1>10 DEF Rest, IInv, CalmInv, Busy, Entering, Mine
<1>11. CASE UNCHANGED vars
  BY <1>11 DEF vars, IInv, CalmInv, Busy, Entering, Mine
<1> QED BY <1>1, <1>2, <1>3, <1>4, <1>5, <1>6, <1>7, <1>8, <1>9, <1>10, <1>11 DEF Next, GoesOn

\* MCPPool.get_tools with _safe_close: calls that do not overlap, none of which times
\* out, leave no adapter connected but the cached one and the one being entered.
THEOREM OneAdapterKept == Spec => []OneAdapterAlone
<1>1. Init /\ TypeOK => IInv
  BY InitCalm DEF IInv
<1>2. IInv /\ TypeOK' /\ [Next]_vars => IInv'
  BY NextCalm DEF IInv
<1>3. IInv => OneAdapterAlone
  BY DEF IInv, CalmInv, OneAdapterAlone, Live, Busy, Entering, InProgress, Waiting
<1> QED BY <1>1, <1>2, <1>3, TypeCorrect, PTL DEF Spec

-----------------------------------------------------------------------------
(* The runs that share the pool.                                           *)

\* Every step of the runs is one of the pool, or leaves the pool alone.
LEMMA StepOfPool == [CrewNext]_allVars => [Next]_vars
  BY DEF CrewNext, allVars

\* A call of the pool that has returned is at its end.
LEMMA PoolKeeps ==
    ASSUME TypeOK, [Next]_vars, NEW c \in Callers, pc[c] = "returned"
    PROVE  pc'[c] = "returned" /\ result'[c] = result[c]
<1>d. DOMAIN pc = Callers /\ DOMAIN result = Callers
  BY DEF TypeOK
<1>1. ASSUME NEW d \in Callers, Call(d) \/ GoesOn(d), d # c PROVE pc'[c] = pc[c] /\ result'[c] = result[c]
  BY <1>1, <1>d DEF Call, GoesOn, UseCached, Reconnect, SecretFetched, Entered, EnterFails,
                    EnterTimesOut, Enter, AttemptFails, Returns
<1>2. ~Call(c) /\ ~GoesOn(c)
  BY DEF Call, GoesOn, UseCached, Reconnect, SecretFetched, Entered, EnterFails, EnterTimesOut
<1>3. ASSUME NEW a \in Adapters, ThreadEnds(a) \/ ServerDies(a) PROVE UNCHANGED <<pc, result>>
  BY <1>3 DEF ThreadEnds, ServerDies
<1>4. Rest \/ UNCHANGED vars => UNCHANGED <<pc, result>>
  BY DEF Rest, vars
<1> QED BY <1>1, <1>2, <1>3, <1>4 DEF Next

\* What a call of the pool returned is an adapter.
ReturnedInv == \A c \in Callers : pc[c] = "returned" => result[c] \in Adapters

LEMMA NextReturned == TypeOK /\ ReturnedInv /\ [Next]_vars => ReturnedInv'
<1> SUFFICES ASSUME TypeOK, ReturnedInv, [Next]_vars PROVE ReturnedInv'
  OBVIOUS
<1>d. DOMAIN pc = Callers /\ DOMAIN result = Callers
  BY DEF TypeOK
<1>1. ASSUME NEW d \in Callers, Call(d) PROVE ReturnedInv'
  BY <1>1, <1>d DEF Call, ReturnedInv
<1>2. ASSUME NEW d \in Callers, UseCached(d) PROVE ReturnedInv'
  BY <1>2, <1>d DEF UseCached, Returns, ReturnedInv, TypeOK
<1>3. ASSUME NEW d \in Callers, Reconnect(d) \/ SecretFetched(d) \/ EnterFails(d) \/ EnterTimesOut(d)
      PROVE  ReturnedInv'
  BY <1>3, <1>d DEF Reconnect, SecretFetched, EnterFails, EnterTimesOut, Enter, AttemptFails, ReturnedInv
<1>4. ASSUME NEW d \in Callers, Entered(d) PROVE ReturnedInv'
  BY <1>4, <1>d, MineType DEF Entered, Returns, AttemptFails, ReturnedInv
<1>5. ASSUME NEW a \in Adapters, ThreadEnds(a) \/ ServerDies(a) PROVE ReturnedInv'
  BY <1>5 DEF ThreadEnds, ServerDies, ReturnedInv
<1>6. Rest \/ UNCHANGED vars => ReturnedInv'
  BY DEF Rest, vars, ReturnedInv
<1> QED BY <1>1, <1>2, <1>3, <1>4, <1>5, <1>6 DEF Next, GoesOn

-----------------------------------------------------------------------------
(* Sequences of wrappers.                                                  *)

Wraps(s, c) == \E i \in DOMAIN s : s[i] = c

LEMMA WrapsOne ==
    ASSUME NEW c \in Callers, NEW s \in Seq(Callers)
    PROVE  /\ <<c>> \o s \in Seq(Callers)
           /\ \A d : Wraps(<<c>> \o s, d) => d = c \/ Wraps(s, d)
           /\ ~Wraps(s, c) => Cardinality({i \in DOMAIN (<<c>> \o s) : (<<c>> \o s)[i] = c}) = 1
<1> DEFINE t == <<c>> \o s
<1>1. /\ t \in Seq(Callers) /\ Len(t) = 1 + Len(s) /\ Len(s) \in Nat
      /\ t[1] = c
      /\ \A i \in 2..Len(t) : i - 1 \in 1..Len(s) /\ t[i] = s[i - 1]
  OBVIOUS
<1>2. DOMAIN t = 1..Len(t) /\ DOMAIN s = 1..Len(s)
  OBVIOUS
<1>3. ASSUME NEW d, Wraps(t, d) PROVE d = c \/ Wraps(s, d)
  <2>1. PICK i \in 1..Len(t) : t[i] = d
    BY <1>2, <1>3 DEF Wraps
  <2>2. CASE i = 1
    BY <2>1, <2>2, <1>1
  <2>3. CASE i # 1
    BY <2>1, <2>3, <1>1, <1>2 DEF Wraps
  <2> QED BY <2>2, <2>3
<1>4. ASSUME ~Wraps(s, c) PROVE {i \in DOMAIN t : t[i] = c} = {1}
  <2>1. \A i \in 2..Len(t) : t[i] # c
    BY <1>1, <1>2, <1>4 DEF Wraps
  <2> QED BY <2>1, <1>1, <1>2
<1> QED BY <1>1, <1>3, <1>4, FS_Singleton

LEMMA WrapsNone ==
    ASSUME NEW s \in Seq(Callers), NEW c
    PROVE  /\ Cardinality({i \in DOMAIN s : s[i] = c}) \in Nat
           /\ ~Wraps(s, c) => Cardinality({i \in DOMAIN s : s[i] = c}) = 0
<1>1. DOMAIN s = 1..Len(s) /\ Len(s) \in Nat
  OBVIOUS
<1> DEFINE T == {i \in DOMAIN s : s[i] = c}
<1>2. IsFiniteSet(T)
  <2>1. IsFiniteSet(1..Len(s))
    BY <1>1, FS_Interval
  <2>2. T \in SUBSET (1..Len(s))
    BY <1>1
  <2> HIDE DEF T
  <2> QED BY <2>1, <2>2, FS_Subset
<1>3. ASSUME ~Wraps(s, c) PROVE {i \in DOMAIN s : s[i] = c} = {}
  BY <1>3 DEF Wraps
<1> QED BY <1>2, <1>3, FS_CardinalityType, FS_EmptySet
-----------------------------------------------------------------------------
(* The invariant of the runs.                                              *)

Phases == {"resolving", "traced", "running", "done", "failed"}

CrewType ==
    /\ phase \in [Callers -> Phases]
    /\ chain \in [Adapters -> Seq(Callers)]
    /\ original \in [Callers -> Seq(Callers)]
    /\ sees \in [Callers -> Seq(Callers)]
    /\ called \in [Callers -> Nat] /\ counted \in [Callers -> Nat] /\ reported \in [Callers -> Nat]
    /\ alone \in [Callers -> BOOLEAN]

\* A run that has traced its tool has the tool that the pool returned.
Tracing == \A c \in Callers : phase[c] # "resolving" => pc[c] = "returned"

\* A run is on its own tool's way only, as it is called, was found, or is seen.
Traced(c)  == phase[c] # "resolving"
OwnTool    == \A c \in Callers, a \in Adapters : Wraps(chain[a], c) => Traced(c) /\ result[c] = a
OwnFound   == \A c, d \in Callers : Wraps(original[d], c) => /\ c # d /\ Traced(c) /\ Traced(d)
                                                            /\ result[c] = result[d]
OwnSeen    == \A c, d \in Callers : Wraps(sees[d], c) => /\ Traced(c) /\ Traced(d)
                                                        /\ result[c] = result[d]

\* What is so of each run that was alone.
Untraced(c) == phase[c] = "resolving" => alone[c] /\ called[c] = 0 /\ counted[c] = 0
Alone(c)    == phase[c] \in UnderWay /\ alone[c] =>
                  /\ Sharing(c) = {}
                  /\ phase[c] = "traced" => chain[result[c]] = <<c>> \o original[c]
                  /\ phase[c] = "running" => sees[c] = <<c>> \o original[c]
                  /\ counted[c] = called[c]
Exact(c)    == phase[c] = "done" /\ alone[c] => reported[c] = called[c]

CountInv == OwnTool /\ OwnFound /\ OwnSeen /\ \A c \in Callers : Untraced(c) /\ Alone(c) /\ Exact(c)

CrewInv == TypeOK /\ ReturnedInv /\ CrewType /\ Tracing /\ CountInv

LEMMA InitCrew == CrewInit => CrewInv
<1> SUFFICES ASSUME CrewInit PROVE CrewInv
  OBVIOUS
<1>1. TypeOK
  BY InitType DEF CrewInit
<1>2. ReturnedInv
  BY DEF CrewInit, Init, ReturnedInv
<1>3. CrewType
  BY DEF CrewInit, CrewType, Phases
<1>4. Tracing
  BY DEF CrewInit, Tracing
<1>5. \A d : ~Wraps(<<>>, d)
  BY DEF Wraps
<1>6. CountInv
  BY <1>5 DEF CrewInit, CountInv, OwnTool, OwnFound, OwnSeen, Untraced, Alone, Exact, UnderWay
<1> QED BY <1>1, <1>2, <1>3, <1>4, <1>6 DEF CrewInv

\* A step of the pool changes nothing of a run that has traced its tool.
LEMMA PoolStep ==
    ASSUME CrewInv, [Next]_vars, UNCHANGED crewVars
    PROVE  CrewInv'
<1>1. TypeOK' /\ ReturnedInv'
  BY NextType, NextReturned DEF CrewInv
<1>2. CrewType'
  BY DEF CrewInv, CrewType, crewVars
<1>3. \A c \in Callers : Traced(c) => pc'[c] = "returned" /\ result'[c] = result[c]
  BY PoolKeeps DEF CrewInv, Tracing, Traced
<1>4. Tracing'
  BY <1>3 DEF Tracing, Traced, crewVars
<1>5. OwnTool' /\ OwnFound' /\ OwnSeen'
  BY <1>3 DEF CrewInv, CountInv, OwnTool, OwnFound, OwnSeen, Traced, crewVars
<1>6. ASSUME NEW c \in Callers PROVE Untraced(c)' /\ Alone(c)' /\ Exact(c)'
  <2>1. Untraced(c) /\ Alone(c) /\ Exact(c)
    BY DEF CrewInv, CountInv
  <2>2. Untraced(c)' /\ Exact(c)'
    BY <2>1 DEF Untraced, Exact, crewVars
  <2>3. Alone(c)'
    BY <1>3, <2>1 DEF Alone, Sharing, Traced, UnderWay, crewVars
  <2> QED BY <2>2, <2>3
<1> QED BY <1>1, <1>2, <1>4, <1>5, <1>6 DEF CrewInv, CountInv

\* A step of a run leaves the pool, and so what the invariant says of the pool alone.
LEMMA PoolRests ==
    ASSUME CrewInv, UNCHANGED vars
    PROVE  TypeOK' /\ ReturnedInv'
  BY DEF CrewInv, TypeOK, ReturnedInv, vars, InProgress

LEMMA TraceStep ==
    ASSUME CrewInv, NEW c \in Callers, Trace(c), UNCHANGED vars
    PROVE  CrewInv'
<1> DEFINE r == result[c]
<1>t. CrewType /\ Tracing /\ OwnTool /\ OwnFound /\ OwnSeen
  BY DEF CrewInv, CountInv
<1>r. r \in Adapters /\ phase[c] = "resolving" /\ pc[c] = "returned" /\ UNCHANGED <<result, pc>>
  BY DEF CrewInv, ReturnedInv, Trace, vars
<1>w. chain[r] \in Seq(Callers) /\ Wrapped(c) = <<c>> \o chain[r]
  BY <1>t, <1>r DEF CrewType, Wrapped
<1>1. /\ phase' = [phase EXCEPT ![c] = "traced"]
      /\ original' = [original EXCEPT ![c] = chain[r]]
      /\ chain' = [chain EXCEPT ![r] = <<c>> \o chain[r]]
      /\ UNCHANGED <<sees, called, counted, reported>>
  BY <1>w DEF Trace
<1>2. \A d \in Callers : alone'[d] = IF d = c THEN Sharing(c) = {} ELSE alone[d] /\ d \notin Sharing(c)
  BY DEF Trace
<1>3. alone' \in [Callers -> BOOLEAN]
  <2>1. alone' = [d \in Callers |-> IF d = c THEN Sharing(c) = {} ELSE alone[d] /\ d \notin Sharing(c)]
    BY DEF Trace
  <2>2. \A d \in Callers : (IF d = c THEN Sharing(c) = {} ELSE alone[d] /\ d \notin Sharing(c)) \in BOOLEAN
    OBVIOUS
  <2> QED BY <2>1, <2>2
<1>4. CrewType'
  BY <1>1, <1>3, <1>t, <1>r, <1>w, WrapsOne DEF CrewType, Phases
<1>5. Tracing'
  BY <1>1, <1>t, <1>r DEF Tracing, CrewType
<1>6. \A d \in Callers : phase'[d] = IF d = c THEN "traced" ELSE phase[d]
  BY <1>1, <1>t DEF CrewType
<1>7. OwnTool'
  <2> SUFFICES ASSUME NEW d \in Callers, NEW a \in Adapters, Wraps(chain'[a], d)
               PROVE  Traced(d)' /\ result[d] = a
    BY <1>r DEF OwnTool
  <2>1. CASE a = r
    <3>1. d = c \/ Wraps(chain[r], d)
      BY <2>1, <1>1, <1>w, <1>t, <1>r, WrapsOne DEF CrewType
    <3> QED BY <3>1, <2>1, <1>6, <1>t, <1>r DEF OwnTool, Traced
  <2>2. CASE a # r
    BY <2>2, <1>1, <1>6, <1>t, <1>r DEF OwnTool, Traced, CrewType
  <2> QED BY <2>1, <2>2
<1>8. OwnFound'
  <2> SUFFICES ASSUME NEW d \in Callers, NEW e \in Callers, Wraps(original'[e], d)
               PROVE  d # e /\ Traced(d)' /\ Traced(e)' /\ result[d] = result[e]
    BY <1>r DEF OwnFound
  <2>1. CASE e = c
    BY <2>1, <1>1, <1>6, <1>t, <1>r DEF OwnTool, Traced, CrewType
  <2>2. CASE e # c
    BY <2>2, <1>1, <1>6, <1>t DEF OwnFound, Traced, CrewType
  <2> QED BY <2>1, <2>2
<1>9. OwnSeen'
  BY <1>1, <1>6, <1>r, <1>t DEF OwnSeen, Traced
<1>10. ASSUME NEW d \in Callers PROVE Untraced(d)' /\ Alone(d)' /\ Exact(d)'
  <2>1. Untraced(d) /\ Alone(d) /\ Exact(d)
    BY DEF CrewInv, CountInv
  <2>a. d # c /\ alone'[d] => alone[d]
    BY <1>2
  <2>b. d # c /\ alone[d] /\ phase[d] = "resolving" => alone'[d]
    BY <1>2 DEF Sharing, UnderWay
  <2>2. Untraced(d)'
    BY <2>1, <2>b, <1>1, <1>6 DEF Untraced
  <2>3. Exact(d)'
    BY <2>1, <2>a, <1>1, <1>6 DEF Exact
  <2>4. CASE d = c
    <3>1. Sharing(c)' = Sharing(c)
      BY <1>6, <1>r DEF Sharing
    <3>2. alone'[c] => Sharing(c) = {}
      BY <1>2
    <3>3. chain'[r] = <<c>> \o original'[c] /\ counted'[c] = called'[c]
      BY <1>1, <1>t, <1>r, <2>1, <2>4 DEF CrewType, Untraced
    <3> QED BY <2>2, <2>3, <2>4, <3>1, <3>2, <3>3, <1>6, <1>r DEF Alone
  <2>5. CASE d # c
    <3> SUFFICES ASSUME phase[d] \in UnderWay, alone'[d] PROVE Alone(d)'
      BY <2>2, <2>3, <2>5, <1>6 DEF Alone
    <3>1. alone[d] /\ d \notin Sharing(c)
      BY <2>5, <1>2
    <3>2. result[d] # r
      BY <2>5, <3>1 DEF Sharing
    <3>3. Sharing(d)' = Sharing(d)
      BY <3>2, <2>5, <1>6, <1>r DEF Sharing
    <3>4. result[d] \in Adapters /\ chain'[result[d]] = chain[result[d]] /\ original'[d] = original[d]
      BY <3>2, <2>5, <1>1, <1>t DEF CrewInv, ReturnedInv, Tracing, CrewType, UnderWay
    <3> QED BY <2>1, <2>5, <3>1, <3>3, <3>4, <1>1, <1>6, <1>r DEF Alone
  <2> QED BY <2>2, <2>3, <2>4, <2>5
<1> QED BY <1>4, <1>5, <1>7, <1>8, <1>9, <1>10, PoolRests DEF CrewInv, CountInv

LEMMA StartStep ==
    ASSUME CrewInv, NEW c \in Callers, Start(c), UNCHANGED vars
    PROVE  CrewInv'
<1>t. CrewType /\ Tracing /\ OwnTool /\ OwnFound /\ OwnSeen
  BY DEF CrewInv, CountInv
<1>r. /\ phase[c] = "traced" /\ pc[c] = "returned" /\ result[c] \in Adapters
      /\ UNCHANGED <<result, pc>>
  BY <1>t DEF CrewInv, ReturnedInv, Tracing, Start, vars
<1>1. /\ phase' = [phase EXCEPT ![c] = "running"]
      /\ sees' = [sees EXCEPT ![c] = chain[result[c]]]
      /\ UNCHANGED <<chain, original, called, counted, reported, alone>>
  BY DEF Start
<1>2. CrewType'
  BY <1>1, <1>t, <1>r DEF CrewType, Phases
<1>3. \A d \in Callers : phase'[d] = IF d = c THEN "running" ELSE phase[d]
  BY <1>1, <1>t DEF CrewType
<1>4. Tracing'
  BY <1>3, <1>t, <1>r DEF Tracing
<1>5. OwnTool' /\ OwnFound'
  BY <1>1, <1>3, <1>t, <1>r DEF OwnTool, OwnFound, Traced
<1>6. OwnSeen'
  <2> SUFFICES ASSUME NEW d \in Callers, NEW e \in Callers, Wraps(sees'[e], d)
               PROVE  Traced(d)' /\ Traced(e)' /\ result[d] = result[e]
    BY <1>r DEF OwnSeen
  <2>1. CASE e = c
    BY <2>1, <1>1, <1>3, <1>t, <1>r DEF OwnTool, Traced, CrewType
  <2>2. CASE e # c
    BY <2>2, <1>1, <1>3, <1>t DEF OwnSeen, Traced, CrewType
  <2> QED BY <2>1, <2>2
<1>7. ASSUME NEW d \in Callers PROVE Untraced(d)' /\ Alone(d)' /\ Exact(d)'
  <2>1. Untraced(d) /\ Alone(d) /\ Exact(d)
    BY DEF CrewInv, CountInv
  <2>2. Untraced(d)' /\ Exact(d)'
    BY <2>1, <1>1, <1>3 DEF Untraced, Exact
  <2>3. Sharing(d)' = Sharing(d)
    BY <1>3, <1>r DEF Sharing, UnderWay
  <2>4. CASE d = c
    <3>1. sees'[c] = chain[result[c]]
      BY <1>1, <1>t DEF CrewType
    <3> QED BY <2>1, <2>2, <2>3, <2>4, <3>1, <1>1, <1>3, <1>r DEF Alone, UnderWay
  <2>5. CASE d # c
    <3>1. sees'[d] = sees[d]
      BY <2>5, <1>1, <1>t DEF CrewType
    <3> QED BY <2>1, <2>2, <2>3, <2>5, <3>1, <1>1, <1>3, <1>r DEF Alone
  <2> QED BY <2>4, <2>5
<1> QED BY <1>2, <1>4, <1>5, <1>6, <1>7, PoolRests DEF CrewInv, CountInv

LEMMA CallStep ==
    ASSUME CrewInv, NEW c \in Callers, CallTool(c), UNCHANGED vars
    PROVE  CrewInv'
<1> DEFINE Counts(d) == Cardinality({i \in DOMAIN sees[c] : sees[c][i] = d})
<1>t. CrewType /\ Tracing /\ OwnTool /\ OwnFound /\ OwnSeen
  BY DEF CrewInv, CountInv
<1>1. /\ phase[c] = "running"
      /\ called' = [called EXCEPT ![c] = @ + 1]
      /\ counted' = [d \in Callers |-> counted[d] + Counts(d)]
      /\ UNCHANGED <<phase, chain, original, sees, reported, alone, result, pc>>
  BY DEF CallTool, vars
<1>2. sees[c] \in Seq(Callers) /\ original[c] \in Seq(Callers)
  BY <1>t DEF CrewType
<1>3. \A d \in Callers : Counts(d) \in Nat /\ (~Wraps(sees[c], d) => Counts(d) = 0)
  BY <1>2, WrapsNone
<1> HIDE DEF Counts
<1>4. CrewType'
  BY <1>1, <1>3, <1>t DEF CrewType
<1>5. Tracing' /\ OwnTool' /\ OwnFound' /\ OwnSeen'
  BY <1>1, <1>t DEF Tracing, OwnTool, OwnFound, OwnSeen, Traced
<1>6. ASSUME NEW d \in Callers PROVE Untraced(d)' /\ Alone(d)' /\ Exact(d)'
  <2>1. Untraced(d) /\ Alone(d) /\ Exact(d)
    BY DEF CrewInv, CountInv
  <2>2. Exact(d)'
    BY <2>1, <1>1, <1>t DEF Exact
  <2>3. Untraced(d)'
    <3>1. ASSUME phase[d] = "resolving" PROVE Counts(d) = 0 /\ d # c
      BY <3>1, <1>1, <1>3, <1>t DEF OwnSeen, Traced
    <3> QED BY <2>1, <3>1, <1>1, <1>t DEF Untraced, CrewType
  <2>4. Sharing(d)' = Sharing(d)
    BY <1>1 DEF Sharing
  <2>5. ASSUME phase[d] \in UnderWay, alone[d] PROVE counted'[d] = called'[d]
    <3>1. counted[d] = called[d] /\ Sharing(d) = {}
      BY <2>1, <2>5 DEF Alone
    <3>2. CASE d = c
      <4>1. sees[c] = <<c>> \o original[c]
        BY <3>2, <2>1, <2>5, <1>1 DEF Alone
      <4>2. ~Wraps(original[c], c)
        BY <1>t DEF OwnFound
      <4>3. Counts(c) = 1
        BY <4>1, <4>2, <1>2, WrapsOne DEF Counts
      <4> QED BY <3>1, <3>2, <4>3, <1>1, <1>t DEF CrewType
    <3>3. CASE d # c
      <4>1. result[c] # result[d]
        BY <3>1, <3>3, <1>1 DEF Sharing, UnderWay
      <4>2. Counts(d) = 0
        BY <4>1, <1>3, <1>t DEF OwnSeen
      <4> QED BY <3>1, <3>3, <4>2, <1>1, <1>t DEF CrewType
    <3> QED BY <3>2, <3>3
  <2> QED BY <2>1, <2>2, <2>3, <2>4, <2>5, <1>1 DEF Alone
<1> QED BY <1>4, <1>5, <1>6, PoolRests DEF CrewInv, CountInv

LEMMA FinishStep ==
    ASSUME CrewInv, NEW c \in Callers, Finish(c), UNCHANGED vars
    PROVE  CrewInv'
<1> DEFINE r == result[c]
<1>t. CrewType /\ Tracing /\ OwnTool /\ OwnFound /\ OwnSeen
  BY DEF CrewInv, CountInv
<1>r. /\ phase[c] = "running" /\ pc[c] = "returned" /\ r \in Adapters
      /\ UNCHANGED <<result, pc>>
  BY <1>t DEF CrewInv, ReturnedInv, Tracing, Finish, vars
<1>1. /\ phase' = [phase EXCEPT ![c] = "done"]
      /\ reported' = [reported EXCEPT ![c] = counted[c]]
      /\ chain' = [chain EXCEPT ![r] = original[c]]
      /\ UNCHANGED <<original, sees, called, counted, alone>>
  BY DEF Finish, Restored
<1>2. CrewType'
  BY <1>1, <1>t, <1>r DEF CrewType, Phases
<1>3. \A d \in Callers : phase'[d] = IF d = c THEN "done" ELSE phase[d]
  BY <1>1, <1>t DEF CrewType
<1>4. Tracing'
  BY <1>3, <1>t, <1>r DEF Tracing
<1>5. OwnTool'
  <2> SUFFICES ASSUME NEW d \in Callers, NEW a \in Adapters, Wraps(chain'[a], d)
               PROVE  Traced(d)' /\ result[d] = a
    BY <1>r DEF OwnTool
  <2>1. CASE a = r
    BY <2>1, <1>1, <1>3, <1>t, <1>r DEF OwnFound, Traced, CrewType
  <2>2. CASE a # r
    BY <2>2, <1>1, <1>3, <1>t, <1>r DEF OwnTool, Traced, CrewType
  <2> QED BY <2>1, <2>2
<1>6. OwnFound' /\ OwnSeen'
  BY <1>1, <1>3, <1>t, <1>r DEF OwnFound, OwnSeen, Traced
<1>7. ASSUME NEW d \in Callers PROVE Untraced(d)' /\ Alone(d)' /\ Exact(d)'
  <2>1. Untraced(d) /\ Alone(d) /\ Exact(d)
    BY DEF CrewInv, CountInv
  <2>2. Untraced(d)'
    BY <2>1, <1>1, <1>3 DEF Untraced
  <2>3. CASE d = c
    <3>1. reported'[c] = counted[c]
      BY <1>1, <1>t DEF CrewType
    <3>2. Alone(c)'
      BY <1>3 DEF Alone, UnderWay
    <3> QED BY <2>1, <2>2, <2>3, <3>1, <3>2, <1>1, <1>r DEF Alone, Exact, UnderWay
  <2>4. CASE d # c
    <3>1. reported'[d] = reported[d] /\ phase'[d] = phase[d]
      BY <2>4, <1>1, <1>3, <1>t DEF CrewType
    <3>2. Exact(d)'
      BY <2>1, <3>1, <1>1 DEF Exact
    <3>3. ASSUME phase[d] \in UnderWay, alone[d]
          PROVE  Sharing(d)' = {} /\ chain'[result[d]] = chain[result[d]]
      <4>1. Sharing(d) = {}
        BY <2>1, <3>3 DEF Alone
      <4>2. result[d] # r
        BY <4>1, <2>4, <1>r DEF Sharing, UnderWay
      <4>3. Sharing(d)' \subseteq Sharing(d)
        BY <1>3, <1>r DEF Sharing, UnderWay
      <4>4. chain'[result[d]] = chain[result[d]]
        BY <4>2, <3>3, <1>1, <1>t DEF CrewInv, ReturnedInv, Tracing, CrewType, UnderWay
      <4> QED BY <4>1, <4>3, <4>4
    <3> QED BY <2>1, <2>2, <3>1, <3>2, <3>3, <1>1, <1>r DEF Alone
  <2> QED BY <2>3, <2>4
<1> QED BY <1>2, <1>4, <1>5, <1>6, <1>7, PoolRests DEF CrewInv, CountInv

LEMMA FailStep ==
    ASSUME CrewInv, NEW c \in Callers, Fail(c), UNCHANGED vars
    PROVE  CrewInv'
<1>t. CrewType /\ Tracing /\ OwnTool /\ OwnFound /\ OwnSeen
  BY DEF CrewInv, CountInv
<1>1. /\ phase[c] \in UnderWay
      /\ phase' = [phase EXCEPT ![c] = "failed"]
      /\ UNCHANGED <<chain, original, sees, called, counted, reported, alone, result, pc>>
  BY DEF Fail, vars
<1>2. CrewType'
  BY <1>1, <1>t DEF CrewType, Phases
<1>3. \A d \in Callers : phase'[d] = IF d = c THEN "failed" ELSE phase[d]
  BY <1>1, <1>t DEF CrewType
<1>4. Tracing' /\ OwnTool' /\ OwnFound' /\ OwnSeen'
  BY <1>1, <1>3, <1>t DEF Tracing, OwnTool, OwnFound, OwnSeen, Traced, UnderWay
<1>5. ASSUME NEW d \in Callers PROVE Untraced(d)' /\ Alone(d)' /\ Exact(d)'
  <2>1. Untraced(d) /\ Alone(d) /\ Exact(d)
    BY DEF CrewInv, CountInv
  <2>2. Untraced(d)' /\ Exact(d)'
    BY <2>1, <1>1, <1>3 DEF Untraced, Exact
  <2>3. Sharing(d)' \subseteq Sharing(d)
    BY <1>1, <1>3 DEF Sharing, UnderWay
  <2> QED BY <2>1, <2>2, <2>3, <1>1, <1>3 DEF Alone, UnderWay
<1> QED BY <1>2, <1>4, <1>5, PoolRests DEF CrewInv, CountInv

LEMMA NextCrew == CrewInv /\ [CrewNext]_allVars => CrewInv'
<1> SUFFICES ASSUME CrewInv, [CrewNext]_allVars PROVE CrewInv'
  OBVIOUS
<1>1. CASE Next /\ UNCHANGED crewVars
  BY <1>1, PoolStep
<1>2. ASSUME NEW c \in Callers, CrewStep(c) /\ UNCHANGED vars PROVE CrewInv'
  BY <1>2, TraceStep, StartStep, CallStep, FinishStep, FailStep DEF CrewStep
<1>3. CASE UNCHANGED allVars
  BY <1>3, PoolStep DEF allVars
<1> QED BY <1>1, <1>2, <1>3 DEF CrewNext

\* MCPPool.get_tools as BaseCrew.run_async uses it: the runs that share the pool's tools
\* never disturb what the pool promises, so runs whose requests do not overlap and do
\* not time out still keep one adapter at most.
THEOREM OneAdapterOfCrews == CrewSpec => []OneAdapterAlone
<1>1. CrewInit => IInv
  BY InitType, InitCalm DEF CrewInit, IInv
<1>2. IInv /\ [CrewNext]_allVars => IInv'
  BY StepOfPool, NextType, NextCalm DEF IInv
<1>3. IInv => OneAdapterAlone
  BY DEF IInv, CalmInv, OneAdapterAlone, Live, Busy, Entering, InProgress, Waiting
<1> QED BY <1>1, <1>2, <1>3, PTL DEF CrewSpec

-----------------------------------------------------------------------------
(* The tool that the runs leave behind.                                    *)

Holds(c, a) == phase[c] \in UnderWay /\ result[c] = a
Smooth      == \A c \in Callers : phase[c] # "failed" /\ alone[c]

BareInv ==
    Smooth =>
        /\ \A c \in Callers : phase[c] \in UnderWay => original[c] = <<>>
        /\ \A a \in Adapters, c \in Callers : Holds(c, a) => chain[a] = <<c>>
        /\ \A a \in Adapters : (\A c \in Callers : ~Holds(c, a)) => chain[a] = <<>>

LEMMA InitBare == CrewInit => BareInv
  BY DEF CrewInit, BareInv, Holds, UnderWay

\* What failed stays failed, and what shared its tool has shared it.
LEMMA SmoothBefore ==
    ASSUME CrewInv, NEW c \in Callers, CrewStep(c), Smooth'
    PROVE  Smooth
<1>t. CrewType
  BY DEF CrewInv
<1> SUFFICES ASSUME NEW d \in Callers PROVE phase[d] # "failed" /\ alone[d]
  BY DEF Smooth
<1>1. phase'[d] # "failed" /\ alone'[d]
  BY DEF Smooth
<1>2. ASSUME phase[d] = "failed" PROVE phase'[d] = "failed"
  BY <1>2, <1>t DEF CrewStep, Trace, Start, CallTool, Finish, Fail, CrewType, UnderWay
<1>3. CASE Trace(c)
  <2>1. CASE d = c
    BY <1>1, <1>2, <1>3, <2>1 DEF Trace, CrewInv, CountInv, Untraced
  <2>2. CASE d # c
    <3>1. alone'[d] = (alone[d] /\ d \notin Sharing(c))
      BY <1>3, <2>2 DEF Trace
    <3> QED BY <1>1, <1>2, <3>1
  <2> QED BY <2>1, <2>2
<1>4. CASE Start(c) \/ CallTool(c) \/ Finish(c) \/ Fail(c)
  BY <1>1, <1>2, <1>4 DEF Start, CallTool, Finish, Fail
<1> QED BY <1>3, <1>4 DEF CrewStep

LEMMA NextBare == CrewInv /\ BareInv /\ [CrewNext]_allVars => BareInv'
<1> SUFFICES ASSUME CrewInv, BareInv, [CrewNext]_allVars PROVE BareInv'
  OBVIOUS
<1>t. CrewType
  BY DEF CrewInv
<1>1. ASSUME [Next]_vars, UNCHANGED crewVars PROVE BareInv'
  <2>1. \A c \in Callers : phase[c] \in UnderWay => result'[c] = result[c]
    BY <1>1, PoolKeeps DEF CrewInv, Tracing, UnderWay
  <2> QED BY <1>1, <2>1 DEF BareInv, Holds, Smooth, crewVars
<1>2. ASSUME NEW c \in Callers, CrewStep(c), UNCHANGED vars PROVE BareInv'
  <2> SUFFICES ASSUME Smooth'
      PROVE  /\ \A d \in Callers : phase'[d] \in UnderWay => original'[d] = <<>>
             /\ \A a \in Adapters, d \in Callers : Holds(d, a)' => chain'[a] = <<d>>
             /\ \A a \in Adapters : (\A d \in Callers : ~Holds(d, a)') => chain'[a] = <<>>
    BY DEF BareInv
  <2>1. /\ \A d \in Callers : phase[d] \in UnderWay => original[d] = <<>>
        /\ \A a \in Adapters, d \in Callers : Holds(d, a) => chain[a] = <<d>>
        /\ \A a \in Adapters : (\A d \in Callers : ~Holds(d, a)) => chain[a] = <<>>
    BY <1>2, SmoothBefore DEF BareInv
  <2>2. UNCHANGED result
    BY <1>2 DEF vars
  <2>3. CASE Trace(c)
    <3>1. phase[c] = "resolving" /\ pc[c] = "returned"
      BY <2>3 DEF Trace
    <3>2. result[c] \in Adapters
      BY <3>1 DEF CrewInv, ReturnedInv
    <3>3. alone'[c] => Sharing(c) = {}
      BY <2>3 DEF Trace
    <3>4. \A d \in Callers : ~Holds(d, result[c])
      BY <3>1, <3>3 DEF Smooth, Sharing, Holds, UnderWay
    <3>5. chain[result[c]] = <<>>
      BY <2>1, <3>2, <3>4
    <3>6. Wrapped(c) = <<c>>
      BY <3>5 DEF Wrapped
    <3>7. /\ \A d \in Callers : phase'[d] = IF d = c THEN "traced" ELSE phase[d]
          /\ \A d \in Callers : original'[d] = IF d = c THEN <<>> ELSE original[d]
          /\ \A a \in Adapters : chain'[a] = IF a = result[c] THEN <<c>> ELSE chain[a]
      BY <2>3, <3>2, <3>5, <3>6, <1>t DEF Trace, CrewType
    <3> QED BY <2>1, <2>2, <3>1, <3>4, <3>7 DEF Holds, UnderWay
  <2>4. CASE Start(c) \/ CallTool(c)
    <3>1. /\ \A d \in Callers : phase'[d] \in UnderWay <=> phase[d] \in UnderWay
          /\ UNCHANGED <<original, chain>>
      BY <2>4, <1>t DEF Start, CallTool, CrewType, UnderWay
    <3> QED BY <2>1, <2>2, <3>1 DEF Holds
  <2>5. CASE Finish(c)
    <3>1. phase[c] = "running" /\ result[c] \in Adapters
      BY <2>5 DEF Finish, CrewInv, Tracing, ReturnedInv
    <3>2. original[c] = <<>>
      BY <2>1, <3>1 DEF UnderWay
    <3>3. /\ \A d \in Callers : phase'[d] = IF d = c THEN "done" ELSE phase[d]
          /\ original' = original
          /\ \A a \in Adapters : chain'[a] = IF a = result[c] THEN <<>> ELSE chain[a]
      BY <2>5, <3>1, <3>2, <1>t DEF Finish, Restored, CrewType
    <3>4. ASSUME NEW d \in Callers, Holds(d, result[c]) PROVE d = c
      <4>1. chain[result[c]] = <<c>> /\ chain[result[c]] = <<d>>
        BY <2>1, <3>1, <3>4 DEF Holds, UnderWay
      <4> QED BY <4>1
    <3>5. ASSUME NEW a \in Adapters, NEW d \in Callers
          PROVE  Holds(d, a)' <=> Holds(d, a) /\ d # c
      BY <2>2, <3>3 DEF Holds, UnderWay
    <3> QED BY <2>1, <3>1, <3>3, <3>4, <3>5 DEF Holds, UnderWay
  <2>6. ~Fail(c)
    BY <1>t DEF Fail, Smooth, CrewType
  <2> QED BY <1>2, <2>3, <2>4, <2>5, <2>6 DEF CrewStep
<1>3. CASE UNCHANGED allVars
  BY <1>1, <1>3 DEF allVars
<1> QED BY <1>1, <1>2, <1>3 DEF CrewNext

LEMMA BareTool == BareInv => ToolLeftBare
<1> SUFFICES ASSUME BareInv, Smooth, NEW a \in Adapters
             PROVE  Len(chain[a])
                        = Cardinality({c \in Callers : phase[c] \in UnderWay /\ result[c] = a})
  BY DEF ToolLeftBare, Smooth
<1>1. CASE \E c \in Callers : Holds(c, a)
  <2>1. PICK c \in Callers : Holds(c, a)
    BY <1>1
  <2>2. chain[a] = <<c>> /\ \A d \in Callers : Holds(d, a) => chain[a] = <<d>>
    BY <2>1 DEF BareInv
  <2>3. \A d \in Callers : Holds(d, a) => d = c
    BY <2>2
  <2>4. {d \in Callers : phase[d] \in UnderWay /\ result[d] = a} = {c}
    BY <2>1, <2>3 DEF Holds
  <2>5. Len(chain[a]) = 1
    BY <2>2
  <2> QED BY <2>4, <2>5, FS_Singleton
<1>2. CASE \A c \in Callers : ~Holds(c, a)
  <2>1. chain[a] = <<>>
    BY <1>2 DEF BareInv
  <2>2. {c \in Callers : phase[c] \in UnderWay /\ result[c] = a} = {}
    BY <1>2 DEF Holds
  <2>3. Len(chain[a]) = 0
    BY <2>1
  <2>4. Cardinality({}) = 0
    BY FS_EmptySet
  <2> QED BY <2>2, <2>3, <2>4
<1> QED BY <1>1, <1>2

\* BaseCrew.run_async with ToolCallTracer: a run that had its tool to itself reports
\* exactly its calls, and while no run fails and none shares its tool, a tool is wrapped
\* by the run that has it and by nothing once that run is through.
THEOREM CrewTraced == CrewSpec => []TracedRight
<1>1. CrewInv /\ BareInv => TracedRight
  BY BareTool DEF CrewInv, CountInv, Exact, CountsExactAlone, TracedRight
<1>2. CrewSpec => [](CrewInv /\ BareInv)
  BY InitCrew, NextCrew, InitBare, NextBare, PTL DEF CrewSpec
<1> QED BY <1>1, <1>2, PTL
=============================================================================
