-------------------------- MODULE Analytical_proofs --------------------------
(***************************************************************************)
(* Proofs about Analytical: its type invariant, that the limit of a worker *)
(* holds over every span of time, and that nobody is refused below it.     *)
(***************************************************************************)
EXTENDS Analytical, FiniteSetTheorems, SequenceTheorems, TLAPS

StampSets == [Workers -> [Orgs -> SUBSET Stamps]]

LEMMA RecentType ==
    ASSUME TypeOK, NEW w \in Workers, NEW o \in Orgs
    PROVE  Recent(w, o) \subseteq Stamps /\ Recent(w, o) \subseteq kept[w][o]
  BY DEF TypeOK, Recent

Requested == [pc : {"unused", "sent"} \cup InWorker \cup Answered,
              worker : Workers \cup {None}, org : Orgs \cup {None},
              hint : Intents \cup {None, Unknown}, answer : Answers \cup {None}]

LEMMA AnswerType ==
    ASSUME TypeOK, NEW r \in Requests, NEW w \in Workers \cup {None}, NEW a \in Answers,
           Answer(r, w, a)
    PROVE  req' \in [Requests -> Requested]
<1>1. req \in [Requests -> Requested]
  BY DEF TypeOK, Requested
<1> QED BY <1>1 DEF Answer, Requested, Answered

LEMMA TellType ==
    ASSUME TypeOK, NEW r \in Requests, NEW w \in Workers \cup {None}, Tell(r, w)
    PROVE  req' \in [Requests -> Requested]
<1>1. req \in [Requests -> Requested]
  BY DEF TypeOK, Requested
<1>2. CASE req' = [req EXCEPT ![r].worker = w, ![r].pc = "write"]
  BY <1>1, <1>2 DEF Requested, InWorker
<1>3. CASE Answer(r, w, "ok") \/ Answer(r, w, "error")
  BY <1>3, AnswerType DEF Answers
<1> QED BY <1>2, <1>3 DEF Tell

LEMMA AsksType ==
    ASSUME TypeOK, NEW p \in Pages, NEW r \in Requests, Asks(p, r)
    PROVE  TypeOK'
<1>1. req \in [Requests -> Requested] /\ OrgOf[p] \in Orgs
  BY AnalyticalAssumption DEF TypeOK, Requested
<1>2. req' \in [Requests -> Requested]
  BY <1>1 DEF Asks, Requested
<1>3. [role |-> "user", of |-> r] \in Message
  BY DEF Message
<1>4. shown' \in [Pages -> Seq(Message)]
  BY <1>3 DEF Asks, TypeOK
<1>5. pending' \in [Pages -> Requests \cup {None}]
  BY DEF Asks, TypeOK
<1> QED BY <1>2, <1>4, <1>5 DEF Asks, TypeOK, Requested

LEMMA SettlesType ==
    ASSUME TypeOK, NEW p \in Pages, NEW role \in {"assistant", "error"},
           pending[p] # None, Settles(p, role)
    PROVE  TypeOK'
<1>1. pending[p] \in Requests
  BY DEF TypeOK
<1>2. [role |-> role, of |-> pending[p]] \in Message
  BY <1>1 DEF Message
<1>3. shown' \in [Pages -> Seq(Message)]
  BY <1>2 DEF Settles, TypeOK
<1>4. pending' \in [Pages -> Requests \cup {None}]
  BY DEF Settles, TypeOK
<1> QED BY <1>3, <1>4 DEF Settles, TypeOK

LEMMA StoreStep ==
    ASSUME NEW f \in StampSets, NEW g, NEW w \in Workers, NEW o \in Orgs,
           \E S \in SUBSET Stamps : g = [f EXCEPT ![w][o] = S]
    PROVE  /\ g \in StampSets
           /\ \A v \in Workers, u \in Orgs : v # w \/ u # o => g[v][u] = f[v][u]
<1> PICK S \in SUBSET Stamps : g = [f EXCEPT ![w][o] = S]
  OBVIOUS
<1>1. f[w] \in [Orgs -> SUBSET Stamps] /\ [f[w] EXCEPT ![o] = S] \in [Orgs -> SUBSET Stamps]
  BY DEF StampSets
<1>2. g = [f EXCEPT ![w] = [f[w] EXCEPT ![o] = S]]
  OBVIOUS
<1>3. g \in StampSets
  BY <1>1, <1>2 DEF StampSets
<1>4. g[w] = [f[w] EXCEPT ![o] = S] /\ \A v \in Workers : v # w => g[v] = f[v]
  BY <1>2 DEF StampSets
<1>5. \A u \in Orgs : u # o => g[w][u] = f[w][u]
  BY <1>1, <1>4
<1> QED BY <1>3, <1>4, <1>5

\* An answer, and the step to one, leave the organisation of every request alone, and
\* say nothing of any other request.
LEMMA AnswerMoves ==
    ASSUME TypeOK, NEW r \in Requests, NEW w, NEW a, Answer(r, w, a), NEW q \in Requests
    PROVE  /\ req'[q].org = req[q].org
           /\ q # r => req'[q] = req[q]
           /\ q = r => req'[q].answer = a /\ req'[q].worker = w
<1>1. req \in [Requests -> Requested]
  BY DEF TypeOK, Requested
<1>2. req' = [req EXCEPT ![r] = [req[r] EXCEPT !.worker = w, !.pc = "answered", !.answer = a]]
  BY DEF Answer
<1>3. CASE q = r
  <2>1. req'[q] = [req[r] EXCEPT !.worker = w, !.pc = "answered", !.answer = a]
    BY <1>1, <1>2, <1>3
  <2> QED BY <1>1, <1>3, <2>1 DEF Requested
<1>4. CASE q # r
  BY <1>1, <1>2, <1>4
<1> QED BY <1>3, <1>4

LEMMA TellMoves ==
    ASSUME TypeOK, NEW r \in Requests, NEW w, Tell(r, w), NEW q \in Requests
    PROVE  /\ req'[q].org = req[q].org
           /\ req'[q].answer = "limit" => req[q].answer = "limit"
<1>1. CASE Answer(r, w, "ok") \/ Answer(r, w, "error")
  BY <1>1, AnswerMoves
<1>2. CASE req' = [req EXCEPT ![r] = [@ EXCEPT !.worker = w, !.pc = "write"]]
  BY <1>2 DEF TypeOK
<1> QED BY <1>1, <1>2 DEF Tell

\* A request is for an organisation as soon as it is sent.
SentFor == \A r \in Requests : req[r].pc # "unused" => req[r].org \in Orgs

\* What the check of the limit does, in the two cases.
LEMMA AskStores ==
    ASSUME TypeOK, NEW w \in Workers, NEW r \in Requests, NEW o \in Orgs,
           o = req[r].org, Ask(w, r)
    PROVE  \/ /\ Cardinality(Recent(w, o)) >= Limit
              /\ kept' = [kept EXCEPT ![w][o] = Recent(w, o)]
              /\ accepted' = accepted
              /\ Answer(r, w, "limit")
           \/ /\ ~(Cardinality(Recent(w, o)) >= Limit)
              /\ kept' = [kept EXCEPT ![w][o] = Recent(w, o) \cup {<<r, now>>}]
              /\ accepted' = [accepted EXCEPT ![w][o] = @ \cup {<<r, now>>}]
              /\ \/ Answer(r, w, "error")
                 \/ Tell(r, w)
                 \/ req' = [req EXCEPT ![r] = [@ EXCEPT !.worker = w, !.pc = "classify"]]
  BY DEF Ask

LEMMA AskType ==
    ASSUME TypeOK, SentFor, NEW w \in Workers, NEW r \in Requests, Ask(w, r)
    PROVE  TypeOK'
<1>1. PICK o \in Orgs : o = req[r].org
  BY DEF SentFor, Ask
<1>2. req \in [Requests -> Requested] /\ kept \in StampSets /\ accepted \in StampSets
  BY DEF TypeOK, Requested, StampSets
<1>3. <<r, now>> \in Stamps /\ Recent(w, o) \subseteq Stamps
  BY RecentType DEF TypeOK, Stamps
<1>4. kept' \in StampSets /\ accepted' \in StampSets
  <2>1. accepted[w][o] \cup {<<r, now>>} \in SUBSET Stamps
    BY <1>2, <1>3 DEF StampSets
  <2>2. Recent(w, o) \cup {<<r, now>>} \in SUBSET Stamps
    BY <1>3
  <2>3. \/ kept' = [kept EXCEPT ![w][o] = Recent(w, o)] /\ accepted' = accepted
        \/ /\ kept' = [kept EXCEPT ![w][o] = Recent(w, o) \cup {<<r, now>>}]
           /\ accepted' = [accepted EXCEPT ![w][o] = accepted[w][o] \cup {<<r, now>>}]
    BY <1>1, AskStores
  <2>4. \/ kept' = kept \/ \E S \in SUBSET Stamps : kept' = [kept EXCEPT ![w][o] = S]
    BY <1>3, <2>2, <2>3
  <2>5. \/ accepted' = accepted
        \/ \E S \in SUBSET Stamps : accepted' = [accepted EXCEPT ![w][o] = S]
    BY <2>1, <2>3
  <2>6. kept' \in StampSets
    BY <1>2, <2>4, StoreStep
  <2>7. accepted' \in StampSets
    BY <1>2, <2>5, StoreStep
  <2> QED BY <2>6, <2>7
<1>5. req' \in [Requests -> Requested]
  <2>1. CASE Answer(r, w, "limit") \/ Answer(r, w, "error")
    BY <2>1, AnswerType DEF Answers
  <2>2. CASE Tell(r, w)
    BY <2>2, TellType
  <2>3. CASE req' = [req EXCEPT ![r] = [@ EXCEPT !.worker = w, !.pc = "classify"]]
    BY <2>3, <1>2 DEF Requested, InWorker
  <2> QED BY <1>1, <2>1, <2>2, <2>3, AskStores
<1> QED BY <1>4, <1>5 DEF Ask, TypeOK, Requested, StampSets

LEMMA InitType == Init => TypeOK /\ SentFor
<1> SUFFICES ASSUME Init PROVE TypeOK /\ SentFor
  OBVIOUS
<1>1. Unused \in Requested
  BY DEF Unused, Requested
<1>2. req \in [Requests -> Requested] /\ SentFor
  BY <1>1 DEF Init, SentFor, Unused
<1>3. shown \in [Pages -> Seq(Message)]
  BY DEF Init
<1> QED BY <1>2, <1>3, AnalyticalAssumption DEF Init, TypeOK, Requested

LEMMA NextType == TypeOK /\ SentFor /\ [Next]_vars => TypeOK'
<1> SUFFICES ASSUME TypeOK, SentFor, [Next]_vars PROVE TypeOK'
  OBVIOUS
<1>r. req \in [Requests -> Requested]
  BY DEF TypeOK, Requested
<1>1. CASE Tick
  BY <1>1, AnalyticalAssumption DEF Tick, TypeOK
<1>2. ASSUME NEW p \in Pages, NEW r \in Requests, Submit(p, r) \/ QuickQuery(p, r) PROVE TypeOK'
  BY <1>2, AsksType DEF Submit, QuickQuery
<1>3. ASSUME NEW o \in Orgs, NEW r \in Requests, Call(o, r) PROVE TypeOK'
  <2>1. req' \in [Requests -> Requested]
    BY <1>3, <1>r DEF Call, Requested
  <2> QED BY <1>3, <2>1 DEF Call, TypeOK, Requested
<1>4. ASSUME NEW p \in Pages, Receive(p) \/ Abort(p) PROVE TypeOK'
  BY <1>4, SettlesType DEF Receive, Abort
<1>5. ASSUME NEW w \in Workers, Restart(w) PROVE TypeOK'
  <2>1. req' \in [Requests -> Requested]
    BY <1>5, <1>r DEF Restart, Requested, Answered
  <2>2. restarts' \in 0..MaxRestarts
    BY <1>5, AnalyticalAssumption DEF Restart, TypeOK
  <2> QED BY <1>5, <2>1, <2>2 DEF Restart, TypeOK, Requested
<1>6. ASSUME NEW w \in Workers, NEW r \in Requests, Ask(w, r) PROVE TypeOK'
  BY <1>6, AskType
<1>7. ASSUME NEW r \in Requests, Classified(r) \/ Narrated(r) PROVE TypeOK'
  <2>1. req[r].worker \in Workers \cup {None}
    BY <1>r DEF Requested
  <2>2. req' \in [Requests -> Requested]
    BY <1>7, <2>1, AnswerType, TellType DEF Classified, Narrated, Answers
  <2> QED BY <1>7, <2>2 DEF Classified, Narrated, TypeOK, Requested
<1>8. CASE UNCHANGED vars
  BY <1>8 DEF vars, TypeOK
<1> QED BY <1>1, <1>2, <1>3, <1>4, <1>5, <1>6, <1>7, <1>8 DEF Next

LEMMA NextSent == TypeOK /\ SentFor /\ [Next]_vars => SentFor'
<1> SUFFICES ASSUME TypeOK, SentFor, [Next]_vars, NEW q \in Requests,
                    req'[q].pc # "unused"
             PROVE  req'[q].org \in Orgs
  BY DEF SentFor
<1>r. req \in [Requests -> Requested] /\ (req[q].pc # "unused" => req[q].org \in Orgs)
  BY DEF TypeOK, Requested, SentFor
<1>1. ASSUME NEW p \in Pages, NEW r \in Requests, Asks(p, r) PROVE req'[q].org \in Orgs
  BY <1>1, <1>r, AnalyticalAssumption DEF Asks
<1>2. ASSUME NEW o \in Orgs, NEW r \in Requests, Call(o, r) PROVE req'[q].org \in Orgs
  BY <1>2, <1>r DEF Call
<1>3. ASSUME NEW w \in Workers, Restart(w) PROVE req'[q].org \in Orgs
  BY <1>3, <1>r DEF Restart, InWorker
<1>4. ASSUME NEW r \in Requests, req[r].pc # "unused",
             NEW w, NEW a, Answer(r, w, a) \/ Tell(r, w)
      PROVE  req'[q].org \in Orgs
  <2>1. req'[q].org = req[q].org /\ req[q].pc # "unused"
    <3>1. CASE q = r
      BY <1>4, <3>1, AnswerMoves, TellMoves
    <3>2. CASE q # r
      <4>1. req'[q] = req[q]
        BY <1>4, <1>r, <3>2, AnswerMoves DEF Tell
      <4> QED BY <4>1
    <3> QED BY <3>1, <3>2
  <2> QED BY <1>r, <2>1
<1>5. ASSUME NEW w \in Workers, NEW r \in Requests, Ask(w, r) PROVE req'[q].org \in Orgs
  <2>1. req[r].pc = "sent"
    BY <1>5 DEF Ask
  <2>2. PICK o \in Orgs : o = req[r].org
    BY <2>1 DEF SentFor
  <2>3. CASE Answer(r, w, "limit") \/ Answer(r, w, "error") \/ Tell(r, w)
    BY <2>1, <2>3, <1>4
  <2>4. CASE req' = [req EXCEPT ![r] = [@ EXCEPT !.worker = w, !.pc = "classify"]]
    BY <2>1, <2>2, <2>4, <1>r
  <2> QED BY <1>5, <2>2, <2>3, <2>4, AskStores
<1>6. ASSUME NEW r \in Requests, Classified(r) \/ Narrated(r) PROVE req'[q].org \in Orgs
  BY <1>6, <1>4 DEF Classified, Narrated
<1>7. CASE Tick \/ UNCHANGED vars \/ \E p \in Pages : Receive(p) \/ Abort(p)
  BY <1>7, <1>r DEF Tick, vars, Receive, Abort, Settles
<1> QED BY <1>1, <1>2, <1>3, <1>5, <1>6, <1>7 DEF Next, Submit, QuickQuery

\* Analytical: the variables keep their types.
THEOREM TypeCorrect == Spec => []TypeOK
<1>1. TypeOK /\ SentFor /\ [Next]_vars => TypeOK' /\ SentFor'
  BY NextType, NextSent
<1> QED BY InitType, <1>1, PTL DEF Spec

\* Call, Submit, QuickQuery: a request that was sent is for one of the organisations.
THEOREM SentForKept == Spec => []SentFor
<1>1. TypeOK /\ SentFor /\ [Next]_vars => TypeOK' /\ SentFor'
  BY NextType, NextSent
<1> QED BY InitType, <1>1, PTL DEF Spec

-----------------------------------------------------------------------------

Span(w, o, t) == {s \in accepted[w][o] : t <= s[2] /\ s[2] < t + Window}
Last(w, o)    == {s \in accepted[w][o] : now - s[2] < Window}

\* What a worker remembers of an organisation are requests it accepted, Limit of them
\* at most, and among them every one of the last Window; none was accepted later than
\* now; and no span of Window ever held more than Limit.
Limited(w, o) ==
    /\ kept[w][o] \subseteq accepted[w][o]
    /\ Last(w, o) \subseteq kept[w][o]
    /\ \A s \in accepted[w][o] : s[2] <= now
    /\ Cardinality(kept[w][o]) <= Limit
    /\ \A t \in 0..MaxTime : Cardinality(Span(w, o, t)) <= Limit

IInv == TypeOK /\ SentFor /\ \A w \in Workers, o \in Orgs : Limited(w, o)

LEMMA StampsFinite ==
    ASSUME NEW S, S \subseteq Stamps
    PROVE  IsFiniteSet(S) /\ Cardinality(S) \in Nat
<1>1. IsFiniteSet(0..MaxTime)
  BY AnalyticalAssumption, FS_Interval
<1>2. IsFiniteSet(Stamps)
  BY <1>1, AnalyticalAssumption, FS_Product DEF Stamps
<1>3. IsFiniteSet(S)
  BY <1>2, FS_Subset
<1> QED BY <1>3, FS_CardinalityType

LEMMA SmallerSet ==
    ASSUME NEW S, NEW T, S \subseteq T, T \subseteq Stamps
    PROVE  Cardinality(S) <= Cardinality(T)
<1>1. IsFiniteSet(T)
  BY StampsFinite
<1> QED BY <1>1, FS_Subset

\* The limiter of w and o when neither moves but the clock, forward.
LEMMA LaterStill ==
    ASSUME TypeOK, NEW w \in Workers, NEW o \in Orgs, Limited(w, o),
           kept'[w][o] = kept[w][o], accepted'[w][o] = accepted[w][o],
           now' \in Nat, now <= now'
    PROVE  Limited(w, o)'
<1>1. now \in Nat /\ \A s \in accepted[w][o] : s[2] \in Nat
  BY AnalyticalAssumption DEF TypeOK, Stamps
<1>2. Last(w, o)' \subseteq Last(w, o)
  BY <1>1, AnalyticalAssumption DEF Last
<1>3. \A s \in accepted'[w][o] : s[2] <= now'
  BY <1>1 DEF Limited
<1>4. \A t \in 0..MaxTime : Span(w, o, t)' = Span(w, o, t)
  BY DEF Span
<1> QED BY <1>2, <1>3, <1>4 DEF Limited

LEMMA AskLimited ==
    ASSUME TypeOK, NEW w \in Workers, NEW o \in Orgs, Limited(w, o), NEW r \in Requests,
           now' = now,
           ~(Cardinality(Recent(w, o)) >= Limit),
           kept'[w][o] = Recent(w, o) \cup {<<r, now>>},
           accepted'[w][o] = accepted[w][o] \cup {<<r, now>>}
    PROVE  Limited(w, o)'
<1> DEFINE s0 == <<r, now>>
<1>t. /\ now \in Nat /\ now \in 0..MaxTime /\ s0 \in Stamps /\ s0[2] = now
      /\ accepted[w][o] \subseteq Stamps /\ kept[w][o] \subseteq Stamps
      /\ \A s \in accepted[w][o] : s[2] \in Nat
      /\ Window \in Nat \ {0} /\ Limit \in Nat
  BY AnalyticalAssumption DEF TypeOK, Stamps
<1>1. Recent(w, o) \subseteq Stamps /\ Recent(w, o) \subseteq kept[w][o]
  BY RecentType
<1>2. Cardinality(Recent(w, o) \cup {s0}) <= Limit
  <2>1. IsFiniteSet(Recent(w, o)) /\ Cardinality(Recent(w, o)) \in Nat
    BY <1>1, StampsFinite
  <2>2. \/ Cardinality(Recent(w, o) \cup {s0}) = Cardinality(Recent(w, o))
        \/ Cardinality(Recent(w, o) \cup {s0}) = Cardinality(Recent(w, o)) + 1
    BY <2>1, FS_AddElement
  <2> QED BY <2>1, <2>2, <1>t
<1>3. kept'[w][o] \subseteq accepted'[w][o]
  BY <1>1 DEF Limited
<1>4. Last(w, o) \subseteq Recent(w, o)
  BY DEF Last, Recent, Limited
<1>5. Last(w, o)' \subseteq kept'[w][o]
  BY <1>4 DEF Last
<1>6. \A s \in accepted'[w][o] : s[2] <= now'
  BY <1>t DEF Limited
<1>7. ASSUME NEW t \in 0..MaxTime PROVE Cardinality(Span(w, o, t)') <= Limit
  <2>1. CASE ~(t <= now /\ now < t + Window)
    <3>1. Span(w, o, t)' = Span(w, o, t)
      BY <2>1, <1>t DEF Span
    <3> QED BY <3>1 DEF Limited
  <2>2. CASE t <= now /\ now < t + Window
    <3>1. Span(w, o, t)' \subseteq Last(w, o) \cup {s0}
      BY <2>2, <1>t DEF Span, Last, Limited
    <3>2. Span(w, o, t)' \subseteq Recent(w, o) \cup {s0}
      BY <3>1, <1>4
    <3>3. Cardinality(Span(w, o, t)') <= Cardinality(Recent(w, o) \cup {s0})
      BY <3>2, <1>1, <1>t, SmallerSet
    <3>4. /\ Cardinality(Span(w, o, t)') \in Nat
          /\ Cardinality(Recent(w, o) \cup {s0}) \in Nat
      BY <3>2, <1>1, <1>t, StampsFinite
    <3> QED BY <3>3, <3>4, <1>2, <1>t
  <2> QED BY <2>1, <2>2
<1> QED BY <1>2, <1>3, <1>5, <1>6, <1>7 DEF Limited

\* A worker that forgets what is too old, and accepts nothing.
LEMMA RefuseLimited ==
    ASSUME TypeOK, NEW w \in Workers, NEW o \in Orgs, Limited(w, o),
           now' = now, kept'[w][o] = Recent(w, o), accepted'[w][o] = accepted[w][o]
    PROVE  Limited(w, o)'
<1>1. kept[w][o] \subseteq Stamps /\ Recent(w, o) \subseteq kept[w][o] /\ Limit \in Nat
  BY RecentType, AnalyticalAssumption DEF TypeOK
<1>2. Cardinality(Recent(w, o)) <= Limit
  <2>1. Cardinality(Recent(w, o)) <= Cardinality(kept[w][o])
    BY <1>1, SmallerSet
  <2>2. Cardinality(Recent(w, o)) \in Nat /\ Cardinality(kept[w][o]) \in Nat
    BY <1>1, StampsFinite
  <2> QED BY <1>1, <2>1, <2>2 DEF Limited
<1>3. Last(w, o)' \subseteq Recent(w, o)
  BY DEF Last, Recent, Limited
<1>4. \A t \in 0..MaxTime : Span(w, o, t)' = Span(w, o, t)
  BY DEF Span
<1>5. kept'[w][o] \subseteq accepted'[w][o] /\ \A s \in accepted'[w][o] : s[2] <= now'
  BY <1>1 DEF Limited
<1> QED BY <1>2, <1>3, <1>4, <1>5 DEF Limited

LEMMA NothingLimited ==
    ASSUME NEW w \in Workers, NEW o \in Orgs, kept[w][o] = {}, accepted[w][o] = {}
    PROVE  Limited(w, o)
<1>1. Last(w, o) = {} /\ \A t \in 0..MaxTime : Span(w, o, t) = {}
  BY DEF Last, Span
<1> QED BY <1>1, FS_EmptySet, AnalyticalAssumption DEF Limited

LEMMA InitLimited == Init => IInv
<1> SUFFICES ASSUME Init, NEW w \in Workers, NEW o \in Orgs PROVE Limited(w, o)
  BY InitType DEF IInv
<1> QED BY NothingLimited DEF Init

LEMMA NextLimited == IInv /\ [Next]_vars => IInv'
<1> SUFFICES ASSUME IInv, [Next]_vars, NEW w \in Workers, NEW o \in Orgs
             PROVE  Limited(w, o)'
  BY NextType, NextSent DEF IInv
<1>t. TypeOK /\ Limited(w, o) /\ now \in Nat
  BY AnalyticalAssumption DEF IInv, TypeOK
<1>k. kept \in StampSets /\ accepted \in StampSets
  BY <1>t DEF TypeOK, StampSets
<1>1. CASE Tick
  BY <1>1, <1>t, LaterStill DEF Tick
<1>2. CASE UNCHANGED <<now, kept, accepted>>
  BY <1>2, <1>t, LaterStill
<1>3. ASSUME NEW v \in Workers, Restart(v) PROVE Limited(w, o)'
  <2>1. CASE v = w
    <3>1. kept'[w][o] = {} /\ accepted'[w][o] = {}
      BY <1>3, <1>k, <2>1 DEF Restart, StampSets
    <3>2. Last(w, o)' = {} /\ \A t \in 0..MaxTime : Span(w, o, t)' = {}
      BY <3>1 DEF Last, Span
    <3> QED BY <3>1, <3>2, FS_EmptySet, AnalyticalAssumption DEF Limited
  <2>2. CASE v # w
    <3>1. kept'[w][o] = kept[w][o] /\ accepted'[w][o] = accepted[w][o] /\ now' = now
      BY <1>3, <1>k, <2>2 DEF Restart, StampSets
    <3> QED BY <3>1, <1>t, LaterStill
  <2> QED BY <2>1, <2>2
<1>4. ASSUME NEW v \in Workers, NEW r \in Requests, Ask(v, r) PROVE Limited(w, o)'
  <2>1. PICK u \in Orgs : u = req[r].org
    BY <1>4 DEF IInv, SentFor, Ask
  <2>2. now' = now
    BY <1>4 DEF Ask
  <2>3. CASE v = w /\ u = o
    <3>1. CASE kept' = [kept EXCEPT ![v][u] = Recent(v, u)] /\ accepted' = accepted
      <4>1. kept'[w][o] = Recent(w, o) /\ accepted'[w][o] = accepted[w][o]
        BY <2>3, <3>1, <1>k DEF StampSets
      <4> QED BY <4>1, <1>t, <2>2, RefuseLimited
    <3>2. CASE /\ ~(Cardinality(Recent(v, u)) >= Limit)
               /\ kept' = [kept EXCEPT ![v][u] = Recent(v, u) \cup {<<r, now>>}]
               /\ accepted' = [accepted EXCEPT ![v][u] = @ \cup {<<r, now>>}]
      <4>1. /\ kept'[w][o] = Recent(w, o) \cup {<<r, now>>}
            /\ accepted'[w][o] = accepted[w][o] \cup {<<r, now>>}
        BY <2>3, <3>2, <1>k DEF StampSets
      <4> QED BY <4>1, <1>t, <2>2, <2>3, <3>2, AskLimited
    <3> QED BY <1>4, <1>t, <2>1, <3>1, <3>2, AskStores
  <2>4. CASE ~(v = w /\ u = o)
    <3>1. kept'[w][o] = kept[w][o] /\ accepted'[w][o] = accepted[w][o]
      <4>1. \/ kept' = [kept EXCEPT ![v][u] = Recent(v, u)] /\ accepted' = accepted
            \/ /\ kept' = [kept EXCEPT ![v][u] = Recent(v, u) \cup {<<r, now>>}]
               /\ accepted' = [accepted EXCEPT ![v][u] = accepted[v][u] \cup {<<r, now>>}]
        BY <1>4, <1>t, <2>1, AskStores
      <4>2. /\ Recent(v, u) \subseteq Stamps /\ <<r, now>> \in Stamps
            /\ accepted[v][u] \subseteq Stamps
        BY <1>t, <1>k, RecentType DEF TypeOK, Stamps, StampSets
      <4>3. \E S \in SUBSET Stamps : kept' = [kept EXCEPT ![v][u] = S]
        BY <4>1, <4>2
      <4>4. \/ accepted' = accepted
            \/ \E S \in SUBSET Stamps : accepted' = [accepted EXCEPT ![v][u] = S]
        <5>1. accepted[v][u] \cup {<<r, now>>} \in SUBSET Stamps
          BY <4>2
        <5> QED BY <4>1, <5>1
      <4>5. kept'[w][o] = kept[w][o]
        BY <1>k, <2>4, <4>3, StoreStep
      <4>6. accepted'[w][o] = accepted[w][o]
        BY <1>k, <2>4, <4>4, StoreStep
      <4> QED BY <4>5, <4>6
    <3> QED BY <3>1, <2>2, <1>t, LaterStill
  <2> QED BY <2>3, <2>4
<1>5. ASSUME NEW p \in Pages, NEW r \in Requests, Submit(p, r) \/ QuickQuery(p, r)
      PROVE  UNCHANGED <<now, kept, accepted>>
  BY <1>5 DEF Submit, QuickQuery, Asks
<1>6. ASSUME NEW p \in Pages, Receive(p) \/ Abort(p) PROVE UNCHANGED <<now, kept, accepted>>
  BY <1>6 DEF Receive, Abort, Settles
<1>7. ASSUME NEW u \in Orgs, NEW r \in Requests, Call(u, r)
      PROVE  UNCHANGED <<now, kept, accepted>>
  BY <1>7 DEF Call
<1>8. ASSUME NEW r \in Requests, Classified(r) \/ Narrated(r)
      PROVE  UNCHANGED <<now, kept, accepted>>
  BY <1>8 DEF Classified, Narrated
<1>9. CASE UNCHANGED vars
  BY <1>2, <1>9 DEF vars
<1> QED BY <1>1, <1>2, <1>3, <1>4, <1>5, <1>6, <1>7, <1>8, <1>9 DEF Next

\* Within a worker, from one start of it to the next, no span of Window holds more than
\* Limit accepted questions of an organisation.  _check_rate_limit.
THEOREM LimitKept == Spec => []WindowKept
<1>1. IInv => WindowKept
  BY DEF IInv, Limited, WindowKept, Span
<1> QED BY InitLimited, NextLimited, <1>1, PTL DEF Spec

\* Nobody is refused unless the worker did accept Limit questions of the organisation
\* within the last Window.  _check_rate_limit.
THEOREM RefusedRightly == Spec => RefusedWhenFull
<1> DEFINE Rightly == \A r \in Requests : req[r].answer # "limit" /\ req'[r].answer = "limit" =>
          Cardinality({s \in accepted[req'[r].worker][req[r].org] : now - s[2] < Window}) >= Limit
<1>1. IInv /\ [Next]_vars => [Rightly]_vars
  <2> SUFFICES ASSUME IInv, Next, NEW r \in Requests,
                      req[r].answer # "limit", req'[r].answer = "limit"
               PROVE  Cardinality({s \in accepted[req'[r].worker][req[r].org] :
                                     now - s[2] < Window}) >= Limit
    OBVIOUS
  <2>r. req \in [Requests -> Requested]
    BY DEF IInv, TypeOK, Requested
  <2>1. ASSUME NEW q \in Requests, NEW w, NEW a, a # "limit",
               Answer(q, w, a) \/ Tell(q, w)
        PROVE  FALSE
    BY <2>1, AnswerMoves, TellMoves DEF IInv
  <2>2. ASSUME NEW w \in Workers, NEW q \in Requests, Ask(w, q)
        PROVE  Cardinality({s \in accepted[req'[r].worker][req[r].org] :
                              now - s[2] < Window}) >= Limit
    <3>1. PICK o \in Orgs : o = req[q].org
      BY <2>2 DEF IInv, SentFor, Ask
    <3>2. CASE Cardinality(Recent(w, o)) >= Limit /\ Answer(q, w, "limit")
      <4>1. r = q /\ req'[r].worker = w /\ req[r].org = o
        BY <2>r, <3>1, <3>2 DEF Answer
      <4>2. Limited(w, o) /\ Recent(w, o) \subseteq Last(w, o)
        BY DEF IInv, Limited, Recent, Last
      <4>3. Last(w, o) \subseteq Stamps
        BY DEF IInv, TypeOK, Last
      <4>4. Cardinality(Recent(w, o)) <= Cardinality(Last(w, o))
        BY <4>2, <4>3, SmallerSet
      <4>5. Cardinality(Recent(w, o)) \in Nat /\ Cardinality(Last(w, o)) \in Nat
        BY <4>2, <4>3, StampsFinite
      <4>6. Cardinality(Last(w, o)) >= Limit
        BY <3>2, <4>4, <4>5, AnalyticalAssumption
      <4> QED BY <4>1, <4>6 DEF Last
    <3>3. CASE Answer(q, w, "error") \/ Tell(q, w)
      BY <3>3, <2>1
    <3>4. CASE req' = [req EXCEPT ![q] = [@ EXCEPT !.worker = w, !.pc = "classify"]]
      BY <3>4, <2>r
    <3> QED BY <2>2, <3>1, <3>2, <3>3, <3>4, AskStores DEF IInv
  <2>3. ASSUME NEW q \in Requests, Classified(q) \/ Narrated(q) PROVE FALSE
    BY <2>3, <2>1 DEF Classified, Narrated
  <2>4. ASSUME NEW w \in Workers, Restart(w) PROVE FALSE
    BY <2>4, <2>r DEF Restart
  <2>5. ASSUME NEW p \in Pages, NEW q \in Requests, Asks(p, q) PROVE FALSE
    BY <2>5, <2>r DEF Asks
  <2>6. ASSUME NEW o \in Orgs, NEW q \in Requests, Call(o, q) PROVE FALSE
    BY <2>6, <2>r DEF Call
  <2>7. CASE Tick \/ \E p \in Pages : Receive(p) \/ Abort(p)
    BY <2>7 DEF Tick, Receive, Abort, Settles
  <2> QED BY <2>2, <2>3, <2>4, <2>5, <2>6, <2>7 DEF Next, Submit, QuickQuery
<1>2. [][Rightly]_vars <=> RefusedWhenFull
  BY DEF RefusedWhenFull
<1> QED BY InitLimited, NextLimited, <1>1, <1>2, PTL DEF Spec

-----------------------------------------------------------------------------
(* The page.                                                               *)

\* One message and the one before it, as AnsweredInTurn has them.
InTurn(list, i) ==
    /\ (list[i].role = "user") = (i % 2 = 1)
    /\ list[i].role # "user" => list[i].of = list[i - 1].of

\* A page that waits shows the question it waits for last; the messages of one that
\* does not are question and answer, question and answer.
PageInv(p) ==
    /\ \A i \in 1..Len(shown[p]) : InTurn(shown[p], i)
    /\ IF pending[p] = None
       THEN Len(shown[p]) % 2 = 0
       ELSE Len(shown[p]) % 2 = 1 /\ shown[p][Len(shown[p])].of = pending[p]

TurnInv == \A p \in Pages : PageInv(p)

LEMMA Parity ==
    ASSUME NEW n \in Nat
    PROVE  (n % 2 = 0 <=> (n + 1) % 2 = 1) /\ (n % 2 = 1 <=> (n + 1) % 2 = 0)
  OBVIOUS

\* What is in turn stays so behind a message that is.
LEMMA AppendInTurn ==
    ASSUME NEW list \in Seq(Message), \A i \in 1..Len(list) : InTurn(list, i),
           NEW m \in Message,
           (m.role = "user") = (Len(list) % 2 = 0),
           m.role # "user" => m.of = list[Len(list)].of
    PROVE  /\ Len(Append(list, m)) = Len(list) + 1
           /\ Append(list, m)[Len(list) + 1] = m
           /\ \A i \in 1..Len(Append(list, m)) : InTurn(Append(list, m), i)
<1> DEFINE longer == Append(list, m)
           n == Len(list)
<1>n. n \in Nat
  BY LenProperties
<1>1. Len(longer) = n + 1 /\ longer[n + 1] = m /\ \A i \in 1..n : longer[i] = list[i]
  BY AppendProperties
<1> HIDE DEF longer
<1>2. ASSUME NEW i \in 1..n PROVE InTurn(longer, i)
  <2>1. i # 1 => i - 1 \in 1..n
    BY <1>n
  <2>2. InTurn(list, i) /\ longer[i] = list[i]
    BY <1>1
  <2>3. 1 % 2 = 1
    OBVIOUS
  <2>4. CASE i = 1
    BY <2>2, <2>3, <2>4 DEF InTurn
  <2>5. CASE i # 1
    BY <2>1, <2>2, <2>5, <1>1 DEF InTurn
  <2> QED BY <2>4, <2>5
<1>3. InTurn(longer, n + 1)
  <2>1. (n % 2 = 0) = ((n + 1) % 2 = 1)
    BY <1>n
  <2>2. (m.role = "user") = ((n + 1) % 2 = 1)
    BY <2>1, Zenon DEF n
  <2>3. CASE m.role = "user"
    BY <2>2, <2>3, <1>1 DEF InTurn
  <2>4. CASE m.role # "user"
    <3>1. n # 0
      BY <2>4, <1>n
    <3>2. n \in 1..n /\ n + 1 - 1 = n
      BY <3>1, <1>n
    <3>3. longer[n + 1 - 1] = list[n]
      BY <3>2, <1>1
    <3> QED BY <2>2, <2>4, <3>3, <1>1 DEF InTurn
  <2> QED BY <2>3, <2>4
<1>4. \A i \in 1..(n + 1) : i \in 1..n \/ i = n + 1
  BY <1>n
<1>5. \A i \in 1..Len(longer) : InTurn(longer, i)
  BY <1>1, <1>2, <1>3, <1>4
<1> QED BY <1>1, <1>5 DEF longer

\* handleSubmit, handleQuickQuery: a question is put to a page that does not wait.
LEMMA AsksInTurn ==
    ASSUME TypeOK, TurnInv, NEW p \in Pages, NEW r \in Requests,
           pending[p] = None \/ shown[p] = <<>>, Asks(p, r)
    PROVE  TurnInv'
<1> DEFINE m == [role |-> "user", of |-> r]
<1>s. /\ shown \in [Pages -> Seq(Message)] /\ DOMAIN pending = Pages
      /\ r # None /\ m \in Message
  BY AnalyticalAssumption DEF TypeOK, Message, None
<1>1. shown' = [shown EXCEPT ![p] = Append(shown[p], m)] /\ pending' = [pending EXCEPT ![p] = r]
  BY DEF Asks
<1>2. Len(shown[p]) \in Nat /\ Len(shown[p]) % 2 = 0
  <2>1. Len(shown[p]) \in Nat
    BY <1>s, LenProperties
  <2>2. CASE pending[p] = None
    BY <2>1, <2>2 DEF TurnInv, PageInv
  <2>3. CASE shown[p] = <<>>
    BY <2>3
  <2> QED BY <2>1, <2>2, <2>3
<1>3. m.role = "user" /\ m.of = r
  OBVIOUS
<1> HIDE DEF m
<1>4. /\ Len(Append(shown[p], m)) = Len(shown[p]) + 1
      /\ Append(shown[p], m)[Len(shown[p]) + 1] = m
      /\ \A i \in 1..Len(Append(shown[p], m)) : InTurn(Append(shown[p], m), i)
  BY <1>s, <1>2, <1>3, AppendInTurn DEF TurnInv, PageInv
<1>5. (Len(shown[p]) + 1) % 2 = 1
  BY <1>2, Parity
<1>6. PageInv(p)'
  <2>1. shown'[p] = Append(shown[p], m) /\ pending'[p] = r
    BY <1>1, <1>s
  <2>2. Len(shown'[p]) % 2 = 1 /\ shown'[p][Len(shown'[p])].of = pending'[p]
    BY <2>1, <1>3, <1>4, <1>5
  <2> QED BY <2>1, <2>2, <1>4, <1>s DEF PageInv
<1>7. ASSUME NEW q \in Pages, q # p PROVE PageInv(q)'
  BY <1>7, <1>1, <1>s DEF TurnInv, PageInv
<1> QED BY <1>6, <1>7 DEF TurnInv

\* onSuccess, onError: the answer follows the question the page waits for.
LEMMA SettlesInTurn ==
    ASSUME TypeOK, TurnInv, NEW p \in Pages, NEW role \in {"assistant", "error"},
           pending[p] # None, Settles(p, role)
    PROVE  TurnInv'
<1> DEFINE m == [role |-> role, of |-> pending[p]]
<1>s. /\ shown \in [Pages -> Seq(Message)] /\ DOMAIN pending = Pages /\ m \in Message
  BY DEF TypeOK, Message
<1>1. shown' = [shown EXCEPT ![p] = Append(shown[p], m)] /\ pending' = [pending EXCEPT ![p] = None]
  BY DEF Settles
<1>2. /\ Len(shown[p]) \in Nat /\ Len(shown[p]) % 2 = 1
      /\ shown[p][Len(shown[p])].of = pending[p]
  BY <1>s, LenProperties DEF TurnInv, PageInv
<1>3. m.role # "user" /\ m.of = pending[p]
  OBVIOUS
<1> HIDE DEF m
<1>p. (Len(shown[p]) + 1) % 2 = 0 /\ ~(Len(shown[p]) % 2 = 0)
  <2>1. (Len(shown[p]) + 1) % 2 = 0
    BY <1>2, Parity
  <2>2. 1 # 0
    OBVIOUS
  <2> QED BY <1>2, <2>1, <2>2, Zenon
<1>r. (m.role = "user") = (Len(shown[p]) % 2 = 0)
  BY <1>3, <1>p, Zenon
<1>4. /\ Len(Append(shown[p], m)) = Len(shown[p]) + 1
      /\ \A i \in 1..Len(Append(shown[p], m)) : InTurn(Append(shown[p], m), i)
  BY <1>s, <1>2, <1>3, <1>r, AppendInTurn DEF TurnInv, PageInv
<1>5. PageInv(p)'
  <2>1. shown'[p] = Append(shown[p], m) /\ pending'[p] = None
    BY <1>1, <1>s
  <2> QED BY <2>1, <1>4, <1>p DEF PageInv
<1>6. ASSUME NEW q \in Pages, q # p PROVE PageInv(q)'
  BY <1>6, <1>1, <1>s DEF TurnInv, PageInv
<1> QED BY <1>5, <1>6 DEF TurnInv

LEMMA NextTurn == TypeOK /\ TurnInv /\ [Next]_vars => TurnInv'
<1> SUFFICES ASSUME TypeOK, TurnInv, [Next]_vars PROVE TurnInv'
  OBVIOUS
<1>1. ASSUME NEW p \in Pages, NEW r \in Requests, Submit(p, r) \/ QuickQuery(p, r) PROVE TurnInv'
  BY <1>1, AsksInTurn DEF Submit, QuickQuery
<1>2. ASSUME NEW p \in Pages, Receive(p) \/ Abort(p) PROVE TurnInv'
  <2>1. CASE Abort(p)
    BY <2>1, SettlesInTurn DEF Abort
  <2>2. CASE Receive(p)
    <3>1. PICK role \in {"assistant", "error"} : Settles(p, role) /\ pending[p] # None
      BY <2>2 DEF Receive
    <3> QED BY <3>1, SettlesInTurn
  <2> QED BY <1>2, <2>1, <2>2
<1>3. CASE UNCHANGED <<shown, pending>>
  BY <1>3 DEF TurnInv, PageInv
<1> QED BY <1>1, <1>2, <1>3
        DEF Next, Tick, Call, Restart, Ask, Classified, Narrated, vars

\* handleSubmit, handleQuickQuery and the callbacks of askMutation: questions and
\* answers alternate and each answer is of its question, for any number of pages and
\* workers, however late the answers come.
THEOREM InTurnAlways == Spec => []AnsweredInTurn
<1>1. Init => TurnInv
  <2> SUFFICES ASSUME Init, NEW p \in Pages PROVE PageInv(p)
    BY DEF TurnInv
  <2>1. shown[p] = <<>> /\ pending[p] = None
    BY DEF Init
  <2>2. Len(<<>>) = 0 /\ 0 % 2 = 0 /\ 1..0 = {}
    OBVIOUS
  <2> QED BY <2>1, <2>2 DEF PageInv
<1>2. TypeOK /\ TurnInv => AnsweredInTurn
  <2> SUFFICES ASSUME TypeOK, TurnInv, NEW p \in Pages, NEW i \in DOMAIN shown[p]
               PROVE  InTurn(shown[p], i)
    BY Zenon DEF AnsweredInTurn, InTurn
  <2>1. i \in 1..Len(shown[p])
    BY LenProperties DEF TypeOK
  <2> QED BY <2>1 DEF TurnInv, PageInv
<1> QED BY <1>1, <1>2, TypeCorrect, NextTurn, PTL DEF Spec
=============================================================================
