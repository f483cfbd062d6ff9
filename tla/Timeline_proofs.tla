--------------------------- MODULE Timeline_proofs ---------------------------
(***************************************************************************)
(* Proofs about Timeline and the log it reads: the type invariant, the     *)
(* order in which a store's events are in the log, what a client that      *)
(* pages has seen, and what the timeline of the dashboard may not show.    *)
(***************************************************************************)
EXTENDS Timeline, FiniteSetTheorems, SequenceTheorems, WellFoundedInduction, TLAPS

-----------------------------------------------------------------------------
(* Numbers: the least of a set, a bound of finitely many, and the largest. *)

LEMMA LeastNat ==
    ASSUME NEW S \in SUBSET Nat, S # {}
    PROVE  \E m \in S : \A k \in S : m <= k
<1> DEFINE R == {p \in Nat \X Nat : p[1] < p[2]}
<1>1. R = OpToRel(<, Nat)
  BY Zenon DEF OpToRel
<1>2. \E m \in S : \A k \in S : ~(<<k, m>> \in R)
  BY <1>1, NatLessThanWellFounded, WFMin, Zenon
<1>3. \A k \in Nat, m \in Nat : k < m => <<k, m>> \in R
  OBVIOUS
<1>4. PICK m \in S : \A k \in S : ~(<<k, m>> \in R)
  BY <1>2
<1> HIDE DEF R
<1>5. \A k \in S : ~(k < m)
  BY <1>3, <1>4
<1>6. \A k \in S : m <= k
  BY <1>5
<1> QED BY <1>6

LEMMA Bounded ==
    ASSUME NEW n \in Nat, NEW g \in [1..n -> Nat]
    PROVE  \E b \in Nat : \A i \in 1..n : g[i] <= b
<1> DEFINE Unbounded == {k \in 0..n : ~\E b \in Nat : \A i \in 1..k : g[i] <= b}
<1>1. ASSUME Unbounded # {} PROVE FALSE
  <2>1. PICK m \in Unbounded : \A k \in Unbounded : m <= k
    <3>1. Unbounded \in SUBSET Nat
      OBVIOUS
    <3> HIDE DEF Unbounded
    <3> QED BY <1>1, <3>1, LeastNat
  <2>2. m \in 0..n /\ ~\E b \in Nat : \A i \in 1..m : g[i] <= b
    BY <2>1
  <2>3. m # 0
    <3>1. \A i \in 1..0 : g[i] <= 0
      OBVIOUS
    <3> QED BY <3>1, <2>2
  <2>4. m - 1 \in 0..n /\ ~(m <= m - 1)
    BY <2>2, <2>3
  <2>5. PICK b \in Nat : \A i \in 1..(m - 1) : g[i] <= b
    <3>1. m - 1 \notin Unbounded
      BY <2>1, <2>4
    <3> QED BY <3>1, <2>4
  <2>6. g[m] \in Nat
    BY <2>2, <2>3
  <2>7. CASE g[m] <= b
    <3>1. \A i \in 1..m : g[i] <= b
      BY <2>5, <2>7, <2>2
    <3> QED BY <3>1, <2>2
  <2>8. CASE b < g[m]
    <3>1. \A i \in 1..m : g[i] <= g[m]
      BY <2>5, <2>8, <2>2, <2>6
    <3> QED BY <3>1, <2>2, <2>6
  <2> QED BY <2>6, <2>7, <2>8
<1>2. n \notin Unbounded
  BY <1>1
<1> QED BY <1>2

LEMMA MaxOfBounded ==
    ASSUME NEW S \in SUBSET Nat, S # {}, NEW b \in Nat, \A x \in S : x <= b
    PROVE  Max(S) \in S /\ \A x \in S : Max(S) >= x
<1> DEFINE Above == {u \in Nat : \A x \in S : x <= u}
<1>1. PICK m \in Above : \A k \in Above : m <= k
  <2>1. b \in Above
    OBVIOUS
  <2> QED BY <2>1, LeastNat
<1>2. m \in S
  <2>1. SUFFICES ASSUME m \notin S PROVE FALSE
    OBVIOUS
  <2>2. m \in Nat /\ \A x \in S : x < m
    BY <1>1, <2>1
  <2>3. PICK x \in S : TRUE
    OBVIOUS
  <2>4. m # 0
    BY <2>2, <2>3
  <2>5. m - 1 \in Nat /\ ~(m <= m - 1) /\ \A y \in S : y <= m - 1
    BY <2>2, <2>4
  <2>6. m - 1 \in Above
    BY <2>5
  <2> QED BY <1>1, <2>5, <2>6
<1>3. \E x \in S : \A y \in S : x >= y
  BY <1>1, <1>2
<1> QED BY <1>3 DEF Max

-----------------------------------------------------------------------------
(* Types.                                                                  *)

LEMMA RowType ==
    ASSUME log \in Seq(Events), NEW i \in 1..Len(log)
    PROVE  log[i] \in Events /\ log[i].sequence \in Nat
<1>1. log[i] \in Events
  BY ElementOfSeq
<1> QED BY <1>1 DEF Events

\* The numbers of the rows of a log are bounded.
LEMMA LogBounded ==
    ASSUME log \in Seq(Events)
    PROVE  \E b \in Nat : \A i \in 1..Len(log) : log[i].sequence <= b
<1> DEFINE g == [i \in 1..Len(log) |-> log[i].sequence]
<1>1. Len(log) \in Nat
  BY LenProperties
<1>2. \A i \in 1..Len(log) : log[i].sequence \in Nat
  BY RowType
<1>3. g \in [1..Len(log) -> Nat]
  BY <1>2
<1>4. \A i \in 1..Len(log) : g[i] = log[i].sequence
  OBVIOUS
<1> HIDE DEF g
<1>5. PICK b \in Nat : \A i \in 1..Len(log) : g[i] <= b
  BY <1>1, <1>3, Bounded
<1> QED BY <1>4, <1>5

\* The number next_event_sequence gives is above those of the log.
LEMMA NextSequenceType ==
    ASSUME log \in Seq(Events)
    PROVE  NextSequence \in Nat \ {0}
<1> DEFINE S == {0} \union {e.sequence : e \in Range(log)}
<1>1. DOMAIN log = 1..Len(log)
  BY LenProperties
<1>2. PICK b \in Nat : \A i \in 1..Len(log) : log[i].sequence <= b
  BY LogBounded
<1>3. \A i \in 1..Len(log) : log[i].sequence \in Nat
  BY RowType
<1>4. S \in SUBSET Nat /\ S # {} /\ \A x \in S : x <= b
  BY <1>1, <1>2, <1>3 DEF Range
<1> HIDE DEF S
<1>5. Max(S) \in Nat
  BY <1>4, MaxOfBounded
<1> QED BY <1>5 DEF NextSequence, S

\* Every step adds rows to the log's end, or none.
Extended == /\ Len(log) <= Len(log')
            /\ \A i \in 1..Len(log) : log'[i] = log[i]

LEMMA LogStep ==
    ASSUME LogTypeOK, LogNext
    PROVE  LogTypeOK' /\ Extended
<1>l. log \in Seq(Events) /\ Len(log) \in Nat
  BY LenProperties DEF LogTypeOK
<1>f. Fault => faults' \in 0..MaxFaults
  BY LogBoundAssumption DEF Fault, LogTypeOK
<1>u. UNCHANGED log => Extended
  BY <1>l DEF Extended
<1>1. ASSUME NEW s \in Stores, Append_(s) PROVE LogTypeOK' /\ Extended
  <2>1. PICK kind \in Kinds :
           queue' = [queue EXCEPT ![s] = Append(@,
              [by |-> s, n |-> counter[s] + 1, sequence |-> counter[s] + 1, kind |-> kind])]
    BY <1>1 DEF Append_
  <2> DEFINE e == [by |-> s, n |-> counter[s] + 1, sequence |-> counter[s] + 1, kind |-> kind]
  <2>2. counter[s] \in Nat
    BY DEF LogTypeOK
  <2>3. e \in Events
    BY <2>2 DEF Events
  <2>4. Append(queue[s], e) \in Seq(Events)
    BY <2>3, AppendProperties DEF LogTypeOK
  <2> HIDE DEF e
  <2>5. queue' = [queue EXCEPT ![s] = Append(queue[s], e)]
    BY <2>1 DEF e
  <2>6. queue' \in [Stores -> Seq(Events)]
    BY <2>4, <2>5 DEF LogTypeOK
  <2>7. counter' \in [Stores -> 0..MaxAppends]
    BY <1>1, LogBoundAssumption DEF Append_, LogTypeOK
  <2>8. UNCHANGED <<log, sync, number, faults>>
    BY <1>1 DEF Append_
  <2> QED BY <2>6, <2>7, <2>8, <1>u DEF LogTypeOK
<1>2. ASSUME NEW s \in Stores, Flush(s) PROVE LogTypeOK' /\ Extended
  <2>1. queue[s] \in Seq(Events)
    BY DEF LogTypeOK
  <2>2. /\ log \o queue[s] \in Seq(Events)
        /\ Len(log \o queue[s]) = Len(log) + Len(queue[s])
        /\ \A i \in 1..Len(log) : (log \o queue[s])[i] = log[i]
    BY <2>1, <1>l, ConcatProperties, LenProperties
  <2>3. Len(queue[s]) \in Nat
    BY <2>1, LenProperties
  <2>4. log' = log \o queue[s] \/ log' = log
    BY <1>2 DEF Flush
  <2>5. log' \in Seq(Events) /\ Extended
    <3>1. CASE log' = log \o queue[s]
      <4> HIDE DEF LogTypeOK
      <4>1. log' \in Seq(Events)
        BY <3>1, <2>2
      <4>2. Len(log) <= Len(log')
        BY <3>1, <2>2, <2>3, <1>l
      <4>3. \A i \in 1..Len(log) : log'[i] = log[i]
        BY <3>1, <2>2
      <4> QED BY <4>1, <4>2, <4>3 DEF Extended
    <3> QED BY <3>1, <2>4, <1>l, <1>u
  <2>6. << >> \in Seq(Events)
    BY EmptySeq
  <2>7. queue' \in [Stores -> Seq(Events)]
    BY <1>2, <2>6 DEF Flush, LogTypeOK
  <2>8. faults' \in 0..MaxFaults
    BY <1>2, <1>f DEF Flush, LogTypeOK
  <2>9. UNCHANGED <<counter, sync, number>>
    BY <1>2 DEF Flush
  <2> QED BY <2>5, <2>7, <2>8, <2>9 DEF LogTypeOK
<1>3. ASSUME NEW c \in Syncs, SyncNumber(c) PROVE LogTypeOK' /\ Extended
  <2>1. NextSequence \in Nat
    BY <1>l, NextSequenceType
  <2>2. number' \in [Syncs -> Nat]
    BY <1>3, <2>1 DEF SyncNumber, LogTypeOK
  <2>3. sync' \in [Syncs -> {"number", "insert", "done", "raised"}]
    BY <1>3 DEF SyncNumber, LogTypeOK
  <2>4. faults' \in 0..MaxFaults
    BY <1>3, <1>f DEF SyncNumber, LogTypeOK
  <2>5. UNCHANGED <<log, counter, queue>>
    BY <1>3 DEF SyncNumber
  <2> QED BY <2>2, <2>3, <2>4, <2>5, <1>u DEF LogTypeOK
<1>4. ASSUME NEW c \in Syncs, SyncInsert(c) PROVE LogTypeOK' /\ Extended
  <2>1. ASSUME NEW kind \in Kinds,
               log' = Append(log, [by |-> c, n |-> Len(log) + 1, sequence |-> number[c], kind |-> kind])
        PROVE  log' \in Seq(Events) /\ Extended
    <3> DEFINE e == [by |-> c, n |-> Len(log) + 1, sequence |-> number[c], kind |-> kind]
    <3>1. e \in Events
      BY <1>l DEF Events, LogTypeOK
    <3> HIDE DEF e
    <3>2. log' = Append(log, e)
      BY <2>1 DEF e
    <3>3. /\ Append(log, e) \in Seq(Events)
          /\ Len(Append(log, e)) = Len(log) + 1
          /\ \A i \in 1..Len(log) : Append(log, e)[i] = log[i]
      BY <3>1, <1>l, AppendProperties
    <3> QED BY <3>2, <3>3, <1>l DEF Extended
  <2>a. \/ UNCHANGED log
        \/ \E kind \in Kinds :
              log' = Append(log, [by |-> c, n |-> Len(log) + 1, sequence |-> number[c], kind |-> kind])
    BY <1>4 DEF SyncInsert
  <2>2. log' \in Seq(Events) /\ Extended
    BY <2>a, <2>1, <1>u, <1>l, Zenon
  <2>3. sync' \in [Syncs -> {"number", "insert", "done", "raised"}]
    BY <1>4 DEF SyncInsert, LogTypeOK
  <2>4. faults' \in 0..MaxFaults
    BY <1>4, <1>f DEF SyncInsert, LogTypeOK
  <2>5. UNCHANGED <<counter, queue, number>>
    BY <1>4 DEF SyncInsert
  <2> QED BY <2>2, <2>3, <2>4, <2>5 DEF LogTypeOK
<1> QED BY <1>1, <1>2, <1>3, <1>4 DEF LogNext

LEMMA LogStutters == UNCHANGED logVars /\ LogTypeOK => LogTypeOK' /\ Extended
<1> SUFFICES ASSUME UNCHANGED logVars, LogTypeOK PROVE LogTypeOK' /\ Extended
  OBVIOUS
<1>1. Len(log) \in Nat
  BY LenProperties DEF LogTypeOK
<1> QED BY <1>1 DEF logVars, LogTypeOK, Extended

\* What a page is, and the number it ends with.
LEMMA PageType ==
    ASSUME log \in Seq(Events), NEW after \in Nat, NEW page \in Pages(after)
    PROVE  /\ page \subseteq Beyond(after) /\ page \subseteq Positions
           /\ LastSequence(page, after) \in Nat
           /\ LastSequence(page, after) >= after
           /\ \A i \in page : LastSequence(page, after) >= log[i].sequence
           /\ \/ LastSequence(page, after) = after
              \/ \E i \in page : log[i].sequence = LastSequence(page, after)
<1>1. page \subseteq Beyond(after) /\ page \subseteq Positions
  BY DEF Pages, Sized, Beyond
<1>2. PICK b \in Nat : \A i \in 1..Len(log) : log[i].sequence <= b
  BY LogBounded
<1>3. \A i \in page : log[i].sequence \in Nat /\ log[i].sequence <= b
  BY <1>1, <1>2, RowType DEF Positions
<1> DEFINE S == {after} \union {log[i].sequence : i \in page}
<1>4. PICK c \in Nat : b <= c /\ after <= c
  BY b <= b + after /\ after <= b + after /\ b + after \in Nat
<1>5. S \in SUBSET Nat /\ S # {} /\ \A x \in S : x <= c
  BY <1>3, <1>4
<1>6. /\ after \in S
      /\ \A i \in page : log[i].sequence \in S
      /\ \A x \in S : x = after \/ \E i \in page : log[i].sequence = x
  OBVIOUS
<1> HIDE DEF S
<1>7. Max(S) \in S /\ \A x \in S : Max(S) >= x
  BY <1>5, MaxOfBounded
<1>8. LastSequence(page, after) = Max(S)
  BY DEF LastSequence, S
<1> QED BY <1>1, <1>5, <1>6, <1>7, <1>8

LEMMA InitType == Init => TypeOK
<1> SUFFICES ASSUME Init PROVE TypeOK
  OBVIOUS
<1>1. log = << >> /\ Len(log) = 0 /\ << >> \in Seq(Events)
  BY EmptySeq DEF Init, LogInit
<1>2. LogTypeOK
  BY <1>1, LogBoundAssumption DEF Init, LogInit, LogTypeOK
<1>3. NoSnapshot \in Snapshots
  BY <1>1 DEF NoSnapshot, Snapshots
<1>4. fetch \in [step : {"idle", "events", "answer"}, answer : Snapshots] /\ snapshot \in Snapshots
  BY <1>3 DEF Init
<1>5. pager \in [after : Nat, seen : SUBSET Positions, start : Nat, more : BOOLEAN]
  BY DEF Init
<1>6. /\ loading \in [answered : BOOLEAN, events : SUBSET Positions]
      /\ channel \in [state : {"none", "joining", "joined", "error"}, low : Nat,
                    from : 0..Len(log), at : 0..Len(log)]
  BY <1>1 DEF Init, NotLoading
<1>7. /\ status \in Statuses /\ reader \in {"client", "dashboard"} /\ shown \subseteq Positions
      /\ connection \in {"connected", "connecting", "disconnected", "error"}
      /\ retries \in 0..MaxRetries
  BY ReaderAssumption DEF Init, Statuses
<1>8. hasMore \in BOOLEAN /\ closing \in BOOLEAN
  BY Zenon DEF Init
<1> QED BY <1>2, <1>4, <1>5, <1>6, <1>7, <1>8 DEF TypeOK

\* What the readers keep stays of its type when the log gets longer.
ReadersTypeOK ==
    /\ reader \in {"client", "dashboard"}
    /\ pager \in [after : Nat, seen : SUBSET Positions, start : Nat, more : BOOLEAN]
    /\ snapshot \in Snapshots
    /\ fetch \in [step : {"idle", "events", "answer"}, answer : Snapshots]
    /\ shown \subseteq Positions
    /\ hasMore \in BOOLEAN
    /\ loading \in [answered : BOOLEAN, events : SUBSET Positions]
    /\ channel \in [state : {"none", "joining", "joined", "error"}, low : Nat,
                    from : 0..Len(log), at : 0..Len(log)]
    /\ connection \in {"connected", "connecting", "disconnected", "error"}
    /\ closing \in BOOLEAN
    /\ retries \in 0..MaxRetries

LEMMA ReadersKept ==
    ASSUME ReadersTypeOK, Extended, Len(log) \in Nat, Len(log') \in Nat,
           UNCHANGED <<reader, pager, hookVars>>
    PROVE  ReadersTypeOK'
<1>1. Positions \subseteq Positions' /\ 0..Len(log) \subseteq 0..Len(log')
  BY DEF Positions, Extended
<1>2. Snapshots \subseteq Snapshots'
  BY <1>1 DEF Snapshots
<1>u. /\ UNCHANGED <<reader, pager, fetch, snapshot, shown, hasMore, loading, channel,
                     connection, closing, retries>>
  BY DEF hookVars
<1>3. pager' \in [after : Nat, seen : SUBSET Positions', start : Nat, more : BOOLEAN]
  BY <1>1, <1>u DEF ReadersTypeOK
<1>4. snapshot' \in Snapshots' /\ fetch' \in [step : {"idle", "events", "answer"}, answer : Snapshots']
  BY <1>2, <1>u DEF ReadersTypeOK
<1>5. loading' \in [answered : BOOLEAN, events : SUBSET Positions'] /\ shown' \subseteq Positions'
  BY <1>1, <1>u DEF ReadersTypeOK
<1>6. channel' \in [state : {"none", "joining", "joined", "error"}, low : Nat,
                    from : 0..Len(log'), at : 0..Len(log')]
  BY <1>1, <1>u DEF ReadersTypeOK
<1>7. /\ reader' \in {"client", "dashboard"}
      /\ connection' \in {"connected", "connecting", "disconnected", "error"}
      /\ retries' \in 0..MaxRetries /\ hasMore' \in BOOLEAN /\ closing' \in BOOLEAN
  BY <1>u, Zenon DEF ReadersTypeOK
<1> QED BY <1>3, <1>4, <1>5, <1>6, <1>7 DEF ReadersTypeOK

\* What a new channel is.
LEMMA SubscribeType ==
    ASSUME ReadersTypeOK, Len(log) \in Nat, NEW low \in Nat, Subscribe(low)
    PROVE  /\ channel' \in [state : {"none", "joining", "joined", "error"}, low : Nat,
                            from : 0..Len(log), at : 0..Len(log)]
           /\ closing' \in BOOLEAN
           /\ connection' \in {"connected", "connecting", "disconnected", "error"}
<1>1. closing' \in BOOLEAN
  BY Zenon DEF Subscribe, ReadersTypeOK
<1>2. channel' = [state |-> "joining", low |-> low, from |-> Len(log), at |-> Len(log)]
  BY DEF Subscribe
<1>3. connection' = "connecting"
  BY DEF Subscribe
<1> QED BY <1>1, <1>2, <1>3

\* A page of the beginning, read as a snapshot.
LEMMA AnswerType ==
    ASSUME log \in Seq(Events), NEW page \in Pages(0), NEW st \in Statuses \union {"none"}
    PROVE  [status |-> st, events |-> page, last |-> LastSequence(page, 0),
            more |-> page # Beyond(0), readAt |-> Len(log)] \in Snapshots
<1>1. page \subseteq Positions /\ LastSequence(page, 0) \in Nat
  BY PageType
<1>2. Len(log) \in 0..Len(log)
  BY LenProperties
<1>3. (page # Beyond(0)) \in BOOLEAN
  OBVIOUS
<1> HIDE DEF Beyond
<1> QED BY <1>1, <1>2, <1>3 DEF Snapshots

LEMMA HookType ==
    ASSUME TypeOK, DashboardNext
    PROVE  ReadersTypeOK'
<1>l. log \in Seq(Events) /\ Len(log) \in Nat /\ UNCHANGED log
  BY LenProperties DEF TypeOK, LogTypeOK, DashboardNext, logVars
<1>t. ReadersTypeOK
  BY DEF TypeOK, ReadersTypeOK
<1>p. UNCHANGED <<Positions, Snapshots>>
  BY <1>l DEF Positions, Snapshots
<1>c. UNCHANGED <<reader, pager>>
  BY DEF DashboardNext
<1>n. NoSnapshot \in Snapshots /\ NotLoading \in [answered : BOOLEAN, events : SUBSET Positions]
  BY <1>l DEF NoSnapshot, NotLoading, Snapshots
<1> DEFINE Channels == [state : {"none", "joining", "joined", "error"}, low : Nat,
                        from : 0..Len(log), at : 0..Len(log)]
           Fetches == [step : {"idle", "events", "answer"}, answer : Snapshots]
<1>s. snapshot \in Snapshots /\ snapshot.last \in Nat /\ snapshot.events \subseteq Positions
      /\ snapshot.more \in BOOLEAN
  BY <1>t DEF ReadersTypeOK, Snapshots
<1>a. /\ fetch.answer \in Snapshots /\ fetch.answer.last \in Nat /\ fetch.answer.events \subseteq Positions
      /\ fetch.answer.more \in BOOLEAN /\ fetch.answer.status \in Statuses \union {"none"}
  BY <1>t DEF ReadersTypeOK, Snapshots
<1>1. ASSUME FetchTask PROVE ReadersTypeOK'
  <2>1. [NoSnapshot EXCEPT !.status = status] \in Snapshots
    BY <1>n DEF NoSnapshot, Snapshots, TypeOK
  <2>2. fetch' \in Fetches
    BY <1>1, <2>1 DEF FetchTask
  <2> QED BY <1>1, <2>2, <1>t, <1>p, <1>l, <1>c DEF FetchTask, ReadersTypeOK
<1>2. ASSUME FetchEvents PROVE ReadersTypeOK'
  <2>1. fetch' \in Fetches
    <3>1. PICK page \in Pages(0) :
             fetch' = [step |-> "answer",
                    answer |-> [status |-> fetch.answer.status, events |-> page,
                                last |-> LastSequence(page, 0),
                                more |-> page # Beyond(0), readAt |-> Len(log)]]
      BY <1>2, Zenon DEF FetchEvents
    <3>2. [status |-> fetch.answer.status, events |-> page, last |-> LastSequence(page, 0),
           more |-> page # Beyond(0), readAt |-> Len(log)] \in Snapshots
      BY <1>l, <1>a, AnswerType, Zenon
    <3> QED BY <3>1, <3>2
  <2> QED BY <1>2, <2>1, <1>t, <1>p, <1>l, <1>c DEF FetchEvents, ReadersTypeOK
<1>3. ASSUME FetchFails PROVE ReadersTypeOK'
  <2>1. fetch' \in Fetches
    BY <1>3, <1>n DEF FetchFails
  <2> QED BY <1>3, <2>1, <1>t, <1>p, <1>l, <1>c DEF FetchFails, ReadersTypeOK
<1>4. ASSUME SnapshotArrives PROVE ReadersTypeOK'
  <2>1. fetch' \in Fetches /\ UNCHANGED <<loading, retries>>
    BY <1>4, <1>n DEF SnapshotArrives
  <2>2. CASE UNCHANGED <<snapshot, shown, hasMore, channel, closing, connection>>
    BY <2>1, <2>2, <1>t, <1>p, <1>l, <1>c DEF ReadersTypeOK
  <2>3. CASE /\ snapshot' = fetch.answer
             /\ shown' = fetch.answer.events
             /\ hasMore' = fetch.answer.more
             /\ IF IsRunning(fetch.answer.status)
                THEN Subscribe(fetch.answer.last)
                ELSE /\ channel' = NoChannel
                     /\ closing' = (closing \/ channel.state = "joined")
                     /\ connection' = "disconnected"
    <3>1. /\ channel' \in Channels /\ closing' \in BOOLEAN
          /\ connection' \in {"connected", "connecting", "disconnected", "error"}
      <4>1. CASE Subscribe(fetch.answer.last)
        BY <4>1, <1>t, <1>l, <1>a, SubscribeType
      <4>2. CASE /\ channel' = NoChannel /\ closing' = (closing \/ channel.state = "joined")
                 /\ connection' = "disconnected"
        <5>1. closing' \in BOOLEAN
          BY <4>2, <1>t, Zenon DEF ReadersTypeOK
        <5> QED BY <5>1, <4>2, <1>l DEF NoChannel
      <4> QED BY <2>3, <4>1, <4>2
    <3>2. snapshot' \in Snapshots /\ shown' \subseteq Positions /\ hasMore' \in BOOLEAN
      BY <2>3, <1>a
    <3> QED BY <2>1, <3>1, <3>2, <1>t, <1>p, <1>l, <1>c DEF ReadersTypeOK
  <2> QED BY <1>4, <2>2, <2>3 DEF SnapshotArrives
<1>5. ASSUME Remounts PROVE ReadersTypeOK'
  <2>1. channel' \in Channels /\ connection' \in {"connected", "connecting", "disconnected", "error"}
    BY <1>5, <1>s, <1>l DEF Remounts, NoChannel
  <2>2. shown' \subseteq Positions /\ hasMore' \in BOOLEAN
    BY <1>5, <1>s DEF Remounts
  <2>3. loading' \in [answered : BOOLEAN, events : SUBSET Positions]
    BY <1>5, <1>n DEF Remounts
  <2>4. retries' \in 0..MaxRetries /\ UNCHANGED <<fetch, snapshot>>
    BY <1>5, ReaderAssumption DEF Remounts
  <2>5. closing' \in BOOLEAN
    BY <1>5, Zenon DEF Remounts
  <2> QED BY <2>1, <2>2, <2>3, <2>4, <2>5, <1>t, <1>p, <1>l, <1>c DEF ReadersTypeOK
<1>6. ASSUME ChannelJoins \/ ChannelFails \/ OldChannelClosed \/ Deliver PROVE ReadersTypeOK'
  <2>1. channel' \in Channels
    <3>1. channel \in Channels
      BY <1>t DEF ReadersTypeOK
    <3>2. ASSUME ChannelJoins PROVE channel' \in Channels
      <4>1. channel' = [channel EXCEPT !.state = "joined", !.from = Len(log), !.at = Len(log)]
        BY <3>2 DEF ChannelJoins
      <4>2. Len(log) \in 0..Len(log)
        BY <1>l
      <4> QED BY <4>1, <4>2, <3>1
    <3>3. ASSUME ChannelFails PROVE channel' \in Channels
      BY <3>1, <3>3 DEF ChannelFails
    <3>4. ASSUME OldChannelClosed PROVE channel' \in Channels
      BY <3>1, <3>4 DEF OldChannelClosed
    <3>5. ASSUME Deliver PROVE channel' \in Channels
      <4>1. channel.at + 1 \in 0..Len(log)
        BY <3>5, <1>l DEF Deliver, Positions
      <4> QED BY <4>1, <3>1, <3>5 DEF Deliver
    <3> QED BY <1>6, <3>2, <3>3, <3>4, <3>5
  <2>2. shown' \subseteq Positions /\ retries' \in 0..MaxRetries
    BY <1>6, <1>t, ReaderAssumption DEF ChannelJoins, ChannelFails, OldChannelClosed, Deliver,
                                        ReadersTypeOK
  <2>3. connection' \in {"connected", "connecting", "disconnected", "error"}
    BY <1>6, <1>t DEF ChannelJoins, ChannelFails, OldChannelClosed, Deliver, ReadersTypeOK
  <2>4. closing' \in BOOLEAN /\ UNCHANGED <<fetch, snapshot, hasMore, loading>>
    BY <1>6, <1>t, Zenon DEF ChannelJoins, ChannelFails, OldChannelClosed, Deliver, ReadersTypeOK
  <2> QED BY <2>1, <2>2, <2>3, <2>4, <1>t, <1>p, <1>l, <1>c DEF ReadersTypeOK
<1>7. ASSUME Retry \/ Reconnect PROVE ReadersTypeOK'
  <2>1. Subscribe(snapshot.last) /\ UNCHANGED <<fetch, snapshot, shown, hasMore, loading>>
    BY <1>7 DEF Retry, Reconnect
  <2>2. retries' \in 0..MaxRetries
    BY <1>7, <1>t, ReaderAssumption DEF Retry, Reconnect, ReadersTypeOK
  <2>3. /\ channel' \in Channels /\ closing' \in BOOLEAN
        /\ connection' \in {"connected", "connecting", "disconnected", "error"}
    BY <2>1, <1>t, <1>l, <1>s, SubscribeType
  <2> QED BY <2>1, <2>2, <2>3, <1>t, <1>p, <1>l, <1>c DEF ReadersTypeOK
<1>8. ASSUME LoadMore PROVE ReadersTypeOK'
  <2>1. loading' \in [answered : BOOLEAN, events : SUBSET Positions]
    BY <1>8, <1>l, PageType DEF LoadMore
  <2>2. UNCHANGED <<fetch, snapshot, shown, hasMore, channel, connection, closing, retries>>
    BY <1>8 DEF LoadMore
  <2> QED BY <2>1, <2>2, <1>t, <1>p, <1>l, <1>c DEF ReadersTypeOK
<1>9. ASSUME MoreArrives PROVE ReadersTypeOK'
  <2>1. shown' \subseteq Positions /\ loading' \in [answered : BOOLEAN, events : SUBSET Positions]
    BY <1>9, <1>n, <1>t DEF MoreArrives, ReadersTypeOK
  <2>b. (Cardinality(loading.events) >= Limit) \in BOOLEAN
    OBVIOUS
  <2>2. hasMore' \in BOOLEAN
    BY <1>9, <2>b, Zenon DEF MoreArrives
  <2>3. UNCHANGED <<fetch, snapshot, channel, connection, closing, retries>>
    BY <1>9 DEF MoreArrives
  <2> QED BY <2>1, <2>2, <2>3, <1>t, <1>p, <1>l, <1>c DEF ReadersTypeOK
<1> QED BY <1>1, <1>2, <1>3, <1>4, <1>5, <1>6, <1>7, <1>8, <1>9 DEF DashboardNext

LEMMA ClientType ==
    ASSUME TypeOK, ClientNext
    PROVE  ReadersTypeOK'
<1>l. log \in Seq(Events) /\ Len(log) \in Nat /\ UNCHANGED <<log, reader, hookVars>>
  BY LenProperties DEF TypeOK, LogTypeOK, ClientNext, logVars
<1>t. ReadersTypeOK
  BY DEF TypeOK, ReadersTypeOK
<1>p. UNCHANGED <<Positions, Snapshots>>
  BY <1>l DEF Positions, Snapshots
<1> DEFINE Pagers == [after : Nat, seen : SUBSET Positions, start : Nat, more : BOOLEAN]
<1>1. ASSUME PagerStarts PROVE pager' \in Pagers
  BY <1>1, <1>l DEF PagerStarts
<1>2. ASSUME PagerReads PROVE pager' \in Pagers
  <2>1. PICK page \in Pages(pager.after) :
           pager' = [pager EXCEPT !.after = LastSequence(page, @), !.seen = @ \union page,
                                  !.more = page # Beyond(pager.after)]
    BY <1>2, Zenon DEF PagerReads
  <2>2. pager \in Pagers /\ pager.after \in Nat
    BY <1>t DEF ReadersTypeOK
  <2>3. page \subseteq Positions /\ LastSequence(page, pager.after) \in Nat
    BY <1>l, <2>2, PageType
  <2>4. (page # Beyond(pager.after)) \in BOOLEAN
    OBVIOUS
  <2> HIDE DEF Beyond
  <2> QED BY <2>1, <2>2, <2>3, <2>4
<1>3. pager' \in Pagers
  BY <1>1, <1>2 DEF ClientNext
<1> QED BY <1>3, <1>t, <1>p, <1>l DEF ReadersTypeOK, hookVars

LEMMA NextType == TypeOK /\ [Next]_vars => TypeOK'
<1> SUFFICES ASSUME TypeOK, [Next]_vars PROVE TypeOK'
  OBVIOUS
<1>t. LogTypeOK /\ ReadersTypeOK /\ status \in Statuses
  BY DEF TypeOK, ReadersTypeOK
<1>l. Len(log) \in Nat
  BY <1>t, LenProperties DEF LogTypeOK
<1>1. CASE TaskMoves
  <2>1. LogTypeOK' /\ Extended
    BY <1>1, <1>t, LogStep, LogStutters DEF TaskMoves
  <2>2. Len(log') \in Nat
    BY <2>1, LenProperties DEF LogTypeOK
  <2>3. ReadersTypeOK'
    BY <1>1, <1>t, <1>l, <2>1, <2>2, ReadersKept DEF TaskMoves
  <2>4. status' \in Statuses
    BY <1>1, <1>t DEF TaskMoves, Statuses
  <2> QED BY <2>1, <2>3, <2>4 DEF TypeOK, ReadersTypeOK
<1>2. CASE ClientNext \/ DashboardNext
  <2>1. ReadersTypeOK'
    BY <1>2, ClientType, HookType
  <2>2. LogTypeOK' /\ status' \in Statuses
    BY <1>2, <1>t, LogStutters DEF ClientNext, DashboardNext
  <2> QED BY <2>1, <2>2 DEF TypeOK, ReadersTypeOK
<1>3. CASE UNCHANGED vars
  <2>1. LogTypeOK' /\ Extended
    BY <1>3, <1>t, LogStutters DEF vars
  <2>2. Len(log') \in Nat
    BY <2>1, LenProperties DEF LogTypeOK
  <2>3. ReadersTypeOK' /\ status' \in Statuses
    BY <1>3, <1>t, <1>l, <2>1, <2>2, ReadersKept DEF vars
  <2> QED BY <2>1, <2>3 DEF TypeOK, ReadersTypeOK
<1> QED BY <1>1, <1>2, <1>3 DEF Next

\* Type correctness of the log, the client and the hook, for any number of stores,
\* of calls of append_sync and of rows of a page.
THEOREM TypeCorrect == Spec => []TypeOK
<1> QED BY InitType, NextType, PTL DEF Spec

\* Every step adds rows to the log's end, or none.
LEMMA NextExtends == TypeOK /\ [Next]_vars => Extended
<1> SUFFICES ASSUME TypeOK, [Next]_vars PROVE Extended
  OBVIOUS
<1>1. LogNext \/ UNCHANGED logVars
  BY DEF Next, TaskMoves, ClientNext, DashboardNext, vars
<1> QED BY <1>1, LogStep, LogStutters DEF TypeOK

-----------------------------------------------------------------------------
(* What is shown stays shown.                                              *)

LEMMA DashboardKeeps ==
    ASSUME DashboardNext
    PROVE  shown \subseteq shown' \/ snapshot' # snapshot \/ Remounts
<1>1. CASE SnapshotArrives
  <2>1. CASE SameAnswer(fetch.answer, snapshot)
    BY <1>1, <2>1 DEF SnapshotArrives
  <2>2. CASE ~SameAnswer(fetch.answer, snapshot)
    BY <1>1, <2>2 DEF SnapshotArrives, SameAnswer
  <2> QED BY <2>1, <2>2
<1>2. CASE \/ FetchTask \/ FetchEvents \/ FetchFails \/ ChannelJoins \/ ChannelFails
           \/ OldChannelClosed \/ Deliver \/ Retry \/ Reconnect \/ LoadMore \/ MoreArrives
  BY <1>2 DEF FetchTask, FetchEvents, FetchFails, ChannelJoins, ChannelFails, OldChannelClosed,
              Deliver, Retry, Reconnect, LoadMore, MoreArrives
<1> QED BY <1>1, <1>2 DEF DashboardNext

\* Deliveries, retries, reconnections and loading more only add to what the timeline
\* shows: it loses a row only to another snapshot or another visit.
\* useTranscriptTimeline.
THEOREM ShownStays == Spec => ShownKept
<1>1. [Next]_vars => [shown \subseteq shown' \/ snapshot' # snapshot \/ Remounts]_vars
  <2> SUFFICES ASSUME [Next]_vars
               PROVE  [shown \subseteq shown' \/ snapshot' # snapshot \/ Remounts]_vars
    OBVIOUS
  <2>1. CASE TaskMoves \/ ClientNext
    BY <2>1 DEF TaskMoves, ClientNext, hookVars
  <2>2. CASE DashboardNext
    BY <2>2, DashboardKeeps
  <2> QED BY <2>1, <2>2 DEF Next
<1> QED BY <1>1, PTL DEF Spec, ShownKept

-----------------------------------------------------------------------------
(* What a store has logged is in the log in its order.                     *)

\* The events of a queue are the last ones of their store, in order; the ones before
\* them are in the log.
QueueInv(s) ==
    /\ Len(queue[s]) <= counter[s]
    /\ \A k \in 1..Len(queue[s]) :
          /\ queue[s][k].by = s /\ queue[s][k].n = queue[s][k].sequence
          /\ queue[s][k].sequence = counter[s] - Len(queue[s]) + k
    /\ \A m \in 1..(counter[s] - Len(queue[s])) :
          \E j \in 1..Len(log) : log[j].by = s /\ log[j].sequence = m

\* The rows of a store have their number for an id, no two of them the same, and each
\* has those with lower numbers before it.
RowsInv ==
    /\ \A i \in 1..Len(log) : log[i].by \in Stores =>
          /\ log[i].n = log[i].sequence /\ log[i].sequence >= 1
          /\ \A m \in 1..log[i].sequence :
                \E j \in 1..i : log[j].by = log[i].by /\ log[j].sequence = m
    /\ \A i, j \in 1..Len(log) :
          log[i].by \in Stores /\ log[i].by = log[j].by /\ log[i].sequence = log[j].sequence
             => i = j

OrderInv == RowsInv /\ \A s \in Stores : QueueInv(s)

\* A longer log keeps what is said of a queue that stays the same.
LEMMA QueueKept ==
    ASSUME NEW s \in Stores, QueueInv(s), Extended, Len(log) \in Nat, Len(log') \in Nat,
           queue'[s] = queue[s], counter'[s] = counter[s]
    PROVE  QueueInv(s)'
<1>1. \A m \in 1..(counter[s] - Len(queue[s])) :
         \E j \in 1..Len(log') : log'[j].by = s /\ log'[j].sequence = m
  BY DEF QueueInv, Extended
<1> QED BY <1>1 DEF QueueInv

LEMMA AppendOrder ==
    ASSUME LogTypeOK, OrderInv, NEW s \in Stores, Append_(s)
    PROVE  OrderInv'
<1>1. PICK kind \in Kinds :
         queue' = [queue EXCEPT ![s] = Append(@,
            [by |-> s, n |-> counter[s] + 1, sequence |-> counter[s] + 1, kind |-> kind])]
  BY DEF Append_
<1> DEFINE e == [by |-> s, n |-> counter[s] + 1, sequence |-> counter[s] + 1, kind |-> kind]
<1>2. counter[s] \in Nat /\ DOMAIN counter = Stores /\ DOMAIN queue = Stores
  BY DEF LogTypeOK
<1>3. queue[s] \in Seq(Events) /\ Len(queue[s]) \in Nat
  BY LenProperties DEF LogTypeOK
<1>4. e \in Events
  BY <1>2 DEF Events
<1>5. e.by = s /\ e.n = counter[s] + 1 /\ e.sequence = counter[s] + 1
  OBVIOUS
<1> HIDE DEF e
<1>6. queue'[s] = Append(queue[s], e) /\ \A t \in Stores \ {s} : queue'[t] = queue[t]
  BY <1>1, <1>2 DEF e
<1>7. /\ Len(Append(queue[s], e)) = Len(queue[s]) + 1
      /\ \A k \in 1..Len(queue[s]) : Append(queue[s], e)[k] = queue[s][k]
      /\ Append(queue[s], e)[Len(queue[s]) + 1] = e
  BY <1>3, <1>4, AppendProperties
<1>8. counter'[s] = counter[s] + 1 /\ (\A t \in Stores \ {s} : counter'[t] = counter[t]) /\ UNCHANGED log
  BY <1>2 DEF Append_
<1>9. QueueInv(s)'
  <2>1. QueueInv(s)
    BY DEF OrderInv
  <2>2. Len(queue'[s]) <= counter'[s]
    BY <1>2, <1>3, <1>6, <1>7, <1>8, <2>1 DEF QueueInv
  <2>3. \A k \in 1..Len(queue'[s]) :
          /\ queue'[s][k].by = s /\ queue'[s][k].n = queue'[s][k].sequence
          /\ queue'[s][k].sequence = counter'[s] - Len(queue'[s]) + k
    <3> TAKE k \in 1..Len(queue'[s])
    <3>1. CASE k = Len(queue[s]) + 1
      BY <3>1, <1>2, <1>3, <1>5, <1>6, <1>7, <1>8
    <3>2. CASE k \in 1..Len(queue[s])
      BY <3>2, <1>2, <1>3, <1>6, <1>7, <1>8, <2>1 DEF QueueInv
    <3> QED BY <3>1, <3>2, <1>3, <1>6, <1>7
  <2>4. counter'[s] - Len(queue'[s]) = counter[s] - Len(queue[s])
    BY <1>2, <1>3, <1>6, <1>7, <1>8
  <2>5. \A m \in 1..(counter'[s] - Len(queue'[s])) :
          \E j \in 1..Len(log') : log'[j].by = s /\ log'[j].sequence = m
    BY <2>1, <2>4, <1>8 DEF QueueInv
  <2> QED BY <2>2, <2>3, <2>5 DEF QueueInv
<1>10. ASSUME NEW t \in Stores \ {s} PROVE QueueInv(t)'
  BY <1>6, <1>8 DEF OrderInv, QueueInv
<1>11. RowsInv'
  BY <1>8 DEF OrderInv, RowsInv
<1> QED BY <1>9, <1>10, <1>11 DEF OrderInv

\* The queue goes to the end of the log, of which no row is one of its.
LEMMA InsertOrder ==
    ASSUME LogTypeOK, RowsInv, NEW s \in Stores, QueueInv(s),
           queue[s] # << >>, Insertable(queue[s]), log' = log \o queue[s]
    PROVE  /\ RowsInv'
           /\ \A m \in 1..counter[s] : \E j \in 1..Len(log') : log'[j].by = s /\ log'[j].sequence = m
<1> DEFINE q == queue[s]
           L == Len(log)
           base == counter[s] - Len(q)
<1>1. q \in Seq(Events) /\ log \in Seq(Events)
  BY DEF LogTypeOK
<1>2. L \in Nat /\ Len(q) \in Nat \ {0} /\ DOMAIN log = 1..L /\ DOMAIN q = 1..Len(q)
  BY <1>1, LenProperties, EmptySeq
<1>3. counter[s] \in Nat /\ base \in Nat
  BY <1>2 DEF LogTypeOK, QueueInv
<1>4. Len(log') = L + Len(q) /\ \A i \in 1..(L + Len(q)) : log'[i] = IF i <= L THEN log[i] ELSE q[i - L]
  BY <1>1, ConcatProperties
<1>5. \A k \in 1..Len(q) : q[k].by = s /\ q[k].n = q[k].sequence /\ q[k].sequence = base + k
  BY DEF QueueInv
<1>6. \A m \in 1..base : \E j \in 1..L : log[j].by = s /\ log[j].sequence = m
  BY DEF QueueInv
<1>n. \A i \in 1..L : log[i].sequence \in Nat
  BY <1>1, RowType
<1> HIDE DEF q, L, base
<1>7. \A i \in 1..L : log[i].by = s => log[i].sequence <= base
  <2> SUFFICES ASSUME NEW i \in 1..L, log[i].by = s, base < log[i].sequence PROVE FALSE
    BY <1>n, <1>3
  <2>1. base + 1 \in 1..log[i].sequence
    BY <1>n, <1>3
  <2>2. PICK j \in 1..i : log[j].by = s /\ log[j].sequence = base + 1
    BY <2>1 DEF RowsInv, L
  <2>3. j \in 1..L
    BY <1>2
  <2>4. log[j].n = base + 1
    BY <2>2, <2>3 DEF RowsInv, L
  <2>5. 1 \in DOMAIN q /\ q[1].by = s /\ q[1].n = base + 1
    BY <1>2, <1>5
  <2>6. q[1] \in Range(q) /\ log[j] \in Range(log)
    BY <2>3, <2>5, <1>2 DEF Range
  <2>7. Id(q[1]) = Id(log[j])
    BY <2>2, <2>4, <2>5 DEF Id
  <2> QED BY <2>6, <2>7 DEF Insertable, q
<1>8. \A i \in 1..L : log'[i] = log[i]
  BY <1>2, <1>4
<1>9. \A i \in 1..Len(log') : i \in 1..L \/ (i - L \in 1..Len(q) /\ log'[i] = q[i - L])
  BY <1>2, <1>4
<1>k. \A k \in 1..Len(q) : L + k \in 1..Len(log') /\ log'[L + k] = q[k] /\ ~(L + k <= L)
  <2> TAKE k \in 1..Len(q)
  <2>1. L + k \in 1..(L + Len(q)) /\ ~(L + k <= L) /\ (L + k) - L = k
    BY <1>2
  <2> QED BY <2>1, <1>4
<1>10. \A m \in 1..counter[s] : \E j \in 1..Len(log') : log'[j].by = s /\ log'[j].sequence = m
  <2> TAKE m \in 1..counter[s]
  <2>1. CASE m \in 1..base
    <3>1. PICK j \in 1..L : log[j].by = s /\ log[j].sequence = m
      BY <2>1, <1>6
    <3>2. j \in 1..Len(log')
      BY <1>2, <1>4
    <3> QED BY <3>1, <3>2, <1>8
  <2>2. CASE m - base \in 1..Len(q)
    <3>1. q[m - base].by = s /\ q[m - base].sequence = m
      BY <2>2, <1>5, <1>3
    <3> QED BY <3>1, <2>2, <1>k
  <2>3. m \in 1..base \/ m - base \in 1..Len(q)
    BY <1>2, <1>3 DEF base
  <2> QED BY <2>1, <2>2, <2>3
<1>11. ASSUME NEW i \in 1..Len(log'), log'[i].by \in Stores
       PROVE  /\ log'[i].n = log'[i].sequence /\ log'[i].sequence >= 1
              /\ \A m \in 1..log'[i].sequence :
                    \E j \in 1..i : log'[j].by = log'[i].by /\ log'[j].sequence = m
  <2>1. CASE i \in 1..L
    <3>1. log'[i] = log[i] /\ \A j \in 1..i : j \in 1..L /\ log'[j] = log[j]
      BY <2>1, <1>2, <1>8
    <3> QED BY <3>1, <2>1, <1>11 DEF RowsInv, L
  <2>2. CASE i - L \in 1..Len(q) /\ log'[i] = q[i - L]
    <3>1. log'[i].by = s /\ log'[i].n = log'[i].sequence /\ log'[i].sequence = base + (i - L)
      BY <2>2, <1>5
    <3>2. log'[i].sequence >= 1
      BY <3>1, <2>2, <1>2, <1>3
    <3>3. ASSUME NEW m \in 1..log'[i].sequence PROVE \E j \in 1..i : log'[j].by = s /\ log'[j].sequence = m
      <4>1. CASE m \in 1..base
        <5>1. PICK j \in 1..L : log[j].by = s /\ log[j].sequence = m
          BY <4>1, <1>6
        <5>2. j \in 1..i
          BY <2>2, <1>2
        <5> QED BY <5>1, <5>2, <1>8
      <4>2. CASE m - base \in 1..(i - L)
        <5>1. m - base \in 1..Len(q) /\ L + (m - base) \in 1..i
          BY <4>2, <2>2, <1>2
        <5>2. q[m - base].by = s /\ q[m - base].sequence = m
          BY <5>1, <1>5, <1>3
        <5> QED BY <5>1, <5>2, <1>k
      <4>3. m \in 1..base \/ m - base \in 1..(i - L)
        BY <3>1, <2>2, <1>2, <1>3
      <4> QED BY <4>1, <4>2, <4>3
    <3> QED BY <3>1, <3>2, <3>3
  <2> QED BY <2>1, <2>2, <1>9
<1>12. ASSUME NEW i \in 1..Len(log'), NEW j \in 1..Len(log'),
              log'[i].by \in Stores, log'[i].by = log'[j].by, log'[i].sequence = log'[j].sequence
       PROVE  i = j
  <2>1. CASE i \in 1..L /\ j \in 1..L
    BY <2>1, <1>8, <1>12 DEF RowsInv, L
  <2>2. ASSUME NEW a \in 1..L, NEW b \in 1..Len(log'), b - L \in 1..Len(q), log'[b] = q[b - L],
               log'[a].by = log'[b].by, log'[a].sequence = log'[b].sequence
        PROVE  FALSE
    <3>1. log[a].by = s /\ log[a].sequence = base + (b - L)
      BY <2>2, <1>5, <1>8
    <3>2. ~(base + (b - L) <= base)
      BY <2>2, <1>2, <1>3
    <3> QED BY <3>1, <3>2, <1>7
  <2>3. CASE i - L \in 1..Len(q) /\ log'[i] = q[i - L] /\ j - L \in 1..Len(q) /\ log'[j] = q[j - L]
    <3>1. base + (i - L) = base + (j - L)
      BY <2>3, <1>5, <1>12
    <3> QED BY <3>1, <2>3, <1>2, <1>3
  <2> QED BY <2>1, <2>2, <2>3, <1>9, <1>12
<1> QED BY <1>10, <1>11, <1>12 DEF RowsInv

LEMMA FlushOrder ==
    ASSUME LogTypeOK, OrderInv, NEW s \in Stores, Flush(s)
    PROVE  OrderInv'
<1>t. LogTypeOK' /\ Extended
  BY LogStep DEF LogNext
<1>l. Len(log) \in Nat /\ Len(log') \in Nat
  BY <1>t, LenProperties DEF LogTypeOK
<1>d. DOMAIN queue = Stores /\ UNCHANGED counter
  BY DEF LogTypeOK, Flush
<1>1. ASSUME NEW t \in Stores \ {s} PROVE QueueInv(t)'
  <2>1. queue'[t] = queue[t]
    BY <1>d DEF Flush
  <2> QED BY <2>1, <1>d, <1>t, <1>l, QueueKept DEF OrderInv
<1>2. CASE UNCHANGED log /\ UNCHANGED queue
  <2>1. RowsInv'
    BY <1>2 DEF OrderInv, RowsInv
  <2>2. ASSUME NEW t \in Stores PROVE QueueInv(t)'
    BY <1>2, <1>d, <2>2 DEF OrderInv, QueueInv
  <2> QED BY <2>1, <2>2 DEF OrderInv
<1>3. CASE Insertable(queue[s]) /\ log' = log \o queue[s]
  <2>1. /\ RowsInv'
        /\ \A m \in 1..counter[s] : \E j \in 1..Len(log') : log'[j].by = s /\ log'[j].sequence = m
    BY <1>3, InsertOrder DEF OrderInv, Flush
  <2>2. CASE queue'[s] = << >>
    <3>1. Len(queue'[s]) = 0 /\ counter[s] \in Nat
      BY <2>2 DEF LogTypeOK
    <3>2. counter'[s] - Len(queue'[s]) = counter[s]
      BY <3>1, <1>d
    <3>3. QueueInv(s)'
      <4>1. counter'[s] = counter[s]
        BY <1>d
      <4>2. Len(queue'[s]) <= counter'[s]
        BY <3>1, <4>1
      <4>3. \A m \in 1..(counter'[s] - Len(queue'[s])) :
               \E j \in 1..Len(log') : log'[j].by = s /\ log'[j].sequence = m
        BY <2>1, <3>2
      <4>4. 1..Len(queue'[s]) = {}
        BY <3>1
      <4> QED BY <4>2, <4>3, <4>4 DEF QueueInv
    <3> QED BY <2>1, <3>3, <1>1 DEF OrderInv
  <2>3. CASE queue' = queue
    <3>1. QueueInv(s)'
      BY <2>3, <1>d, <1>t, <1>l, QueueKept DEF OrderInv
    <3> QED BY <2>1, <3>1, <1>1 DEF OrderInv
  <2> QED BY <2>2, <2>3, <1>d DEF Flush
<1> QED BY <1>2, <1>3 DEF Flush

\* Another writer's rows come after those of the stores.
LEMMA SyncOrder ==
    ASSUME LogTypeOK, OrderInv, NEW c \in Syncs, SyncNumber(c) \/ SyncInsert(c)
    PROVE  OrderInv'
<1>t. LogTypeOK' /\ Extended
  BY LogStep DEF LogNext
<1>l. Len(log) \in Nat /\ Len(log') \in Nat
  BY <1>t, LenProperties DEF LogTypeOK
<1>d. UNCHANGED <<counter, queue>>
  BY DEF SyncNumber, SyncInsert
<1>1. ASSUME NEW s \in Stores PROVE QueueInv(s)'
  BY <1>t, <1>l, <1>d, QueueKept DEF OrderInv
<1>2. RowsInv'
  <2>1. CASE UNCHANGED log
    BY <2>1 DEF OrderInv, RowsInv
  <2>2. ASSUME NEW kind \in Kinds,
               log' = Append(log, [by |-> c, n |-> Len(log) + 1, sequence |-> number[c], kind |-> kind])
        PROVE  RowsInv'
    <3> DEFINE e == [by |-> c, n |-> Len(log) + 1, sequence |-> number[c], kind |-> kind]
    <3>1. e \in Events /\ e.by \notin Stores
      BY <1>l, WriterAssumption DEF Events, LogTypeOK
    <3> HIDE DEF e
    <3>2. Len(log') = Len(log) + 1 /\ log'[Len(log) + 1] = e
      BY <2>2, <3>1, AppendProperties DEF LogTypeOK, e
    <3>3. \A i \in 1..Len(log') : i \in 1..Len(log) \/ log'[i].by \notin Stores
      BY <3>1, <3>2, <1>l
    <3>4. \A i \in 1..Len(log) : \A j \in 1..i : j \in 1..Len(log) /\ log'[j] = log[j] /\ log'[i] = log[i]
      BY <1>t, <1>l DEF Extended
    <3>5. ASSUME NEW i \in 1..Len(log'), log'[i].by \in Stores
          PROVE  /\ log'[i].n = log'[i].sequence /\ log'[i].sequence >= 1
                 /\ \A m \in 1..log'[i].sequence :
                       \E j \in 1..i : log'[j].by = log'[i].by /\ log'[j].sequence = m
      <4>1. i \in 1..Len(log) /\ log'[i] = log[i]
        BY <3>3, <3>5, <1>t DEF Extended
      <4> QED BY <4>1, <3>4, <3>5 DEF OrderInv, RowsInv
    <3>6. ASSUME NEW i \in 1..Len(log'), NEW j \in 1..Len(log'), log'[i].by \in Stores,
                 log'[i].by = log'[j].by, log'[i].sequence = log'[j].sequence
          PROVE  i = j
      <4>1. i \in 1..Len(log) /\ j \in 1..Len(log) /\ log'[i] = log[i] /\ log'[j] = log[j]
        BY <3>3, <3>6, <1>t DEF Extended
      <4> QED BY <4>1, <3>6 DEF OrderInv, RowsInv
    <3> QED BY <3>5, <3>6 DEF RowsInv
  <2>3. \/ UNCHANGED log
        \/ \E kind \in Kinds :
              log' = Append(log, [by |-> c, n |-> Len(log) + 1, sequence |-> number[c], kind |-> kind])
    BY DEF SyncNumber, SyncInsert
  <2> QED BY <2>1, <2>2, <2>3, Zenon
<1> QED BY <1>1, <1>2 DEF OrderInv

LEMMA InitOrder == Init => OrderInv
<1> SUFFICES ASSUME Init PROVE OrderInv
  OBVIOUS
<1>1. Len(log) = 0
  BY DEF Init, LogInit
<1>2. RowsInv
  BY <1>1 DEF RowsInv
<1>3. ASSUME NEW s \in Stores PROVE Len(queue[s]) = 0 /\ counter[s] = 0
  BY DEF Init, LogInit
<1>4. ASSUME NEW s \in Stores PROVE QueueInv(s)
  BY <1>3 DEF QueueInv
<1> QED BY <1>2, <1>4 DEF OrderInv

LEMMA NextOrder == TypeOK /\ OrderInv /\ [Next]_vars => OrderInv'
<1> SUFFICES ASSUME TypeOK, OrderInv, [Next]_vars PROVE OrderInv'
  OBVIOUS
<1>1. CASE LogNext
  BY <1>1, AppendOrder, FlushOrder, SyncOrder DEF LogNext, TypeOK
<1>2. CASE UNCHANGED logVars
  BY <1>2 DEF logVars, OrderInv, RowsInv, QueueInv
<1> QED BY <1>1, <1>2 DEF Next, TaskMoves, ClientNext, DashboardNext, vars

LEMMA OrderCorrect == Spec => []OrderInv
<1> QED BY TypeCorrect, InitOrder, NextOrder, PTL DEF Spec

LEMMA OrderGivesStore == TypeOK /\ OrderInv => StoreOrdered
<1> SUFFICES ASSUME TypeOK, OrderInv, NEW i \in DOMAIN log, log[i].by \in Stores,
                    NEW m \in 1..log[i].sequence
             PROVE  Cardinality({j \in 1..i : log[j].by = log[i].by /\ log[j].sequence = m}) = 1
  BY DEF StoreOrdered
<1>1. DOMAIN log = 1..Len(log) /\ Len(log) \in Nat
  BY LenProperties DEF TypeOK, LogTypeOK
<1>2. PICK k \in 1..i : log[k].by = log[i].by /\ log[k].sequence = m
  BY <1>1 DEF OrderInv, RowsInv
<1>3. \A j \in 1..i : j \in 1..Len(log)
  BY <1>1
<1>4. \A j \in 1..i : log[j].by = log[i].by /\ log[j].sequence = m => j = k
  BY <1>2, <1>3 DEF OrderInv, RowsInv
<1>5. {j \in 1..i : log[j].by = log[i].by /\ log[j].sequence = m} = {k}
  BY <1>2, <1>4
<1> QED BY <1>5, FS_Singleton

\* What one flow object logs is in the log in the order it was emitted, without a gap
\* and without repetition, for any number of stores and of failed requests.  Inductive
\* with the queues' contents: what is queued follows on what is in the log, or has been
\* served already and is refused for ever.  EventStore.flush.
THEOREM StoresInOrder == Spec => []StoreOrdered
<1> QED BY TypeCorrect, OrderCorrect, OrderGivesStore, PTL

-----------------------------------------------------------------------------
(* What a client that pages has seen.                                      *)

\* Every row has a positive number, also those of append_sync.
NumberedInv ==
    /\ \A i \in 1..Len(log) : log[i].sequence >= 1
    /\ \A c \in Syncs : sync[c] = "insert" => number[c] >= 1

LEMMA LogNumbered == LogTypeOK /\ OrderInv /\ NumberedInv /\ LogNext => NumberedInv'
<1> SUFFICES ASSUME LogTypeOK, OrderInv, NumberedInv, LogNext PROVE NumberedInv'
  OBVIOUS
<1>l. log \in Seq(Events) /\ Len(log) \in Nat /\ DOMAIN sync = Syncs /\ DOMAIN number = Syncs
  BY LenProperties DEF LogTypeOK
<1>1. ASSUME NEW s \in Stores, Append_(s) PROVE NumberedInv'
  BY <1>1 DEF Append_, NumberedInv
<1>2. ASSUME NEW s \in Stores, Flush(s) PROVE NumberedInv'
  <2>1. UNCHANGED <<sync, number>>
    BY <1>2 DEF Flush
  <2>2. CASE UNCHANGED log
    BY <2>1, <2>2 DEF NumberedInv
  <2>3. CASE log' = log \o queue[s]
    <3>1. queue[s] \in Seq(Events) /\ Len(queue[s]) \in Nat /\ counter[s] \in Nat
      BY LenProperties DEF LogTypeOK
    <3>2. Len(log') = Len(log) + Len(queue[s])
          /\ \A i \in 1..Len(log') : log'[i] = IF i <= Len(log) THEN log[i] ELSE queue[s][i - Len(log)]
      BY <2>3, <3>1, <1>l, ConcatProperties
    <3>3. \A k \in 1..Len(queue[s]) : queue[s][k].sequence >= 1
      BY <3>1 DEF OrderInv, QueueInv
    <3>4. \A i \in 1..Len(log') : i \in 1..Len(log) \/ (~(i <= Len(log)) /\ i - Len(log) \in 1..Len(queue[s]))
      BY <3>1, <3>2, <1>l
    <3>5. ASSUME NEW i \in 1..Len(log') PROVE log'[i].sequence >= 1
      <4>1. CASE i \in 1..Len(log)
        BY <4>1, <3>2 DEF NumberedInv
      <4>2. CASE ~(i <= Len(log)) /\ i - Len(log) \in 1..Len(queue[s])
        BY <4>2, <3>2, <3>3
      <4> QED BY <4>1, <4>2, <3>4
    <3> QED BY <3>5, <2>1 DEF NumberedInv
  <2> QED BY <1>2, <2>2, <2>3 DEF Flush
<1>3. ASSUME NEW c \in Syncs, SyncNumber(c) PROVE NumberedInv'
  <2>1. NextSequence >= 1
    BY <1>l, NextSequenceType
  <2> QED BY <1>3, <1>l, <2>1 DEF SyncNumber, NumberedInv
<1>4. ASSUME NEW c \in Syncs, SyncInsert(c) PROVE NumberedInv'
  <2>1. \A d \in Syncs : sync'[d] = "insert" => number'[d] >= 1
    BY <1>4, <1>l DEF SyncInsert, NumberedInv
  <2>2. CASE UNCHANGED log
    BY <2>1, <2>2 DEF NumberedInv
  <2>3. ASSUME NEW kind \in Kinds,
               log' = Append(log, [by |-> c, n |-> Len(log) + 1, sequence |-> number[c], kind |-> kind])
        PROVE  NumberedInv'
    <3> DEFINE e == [by |-> c, n |-> Len(log) + 1, sequence |-> number[c], kind |-> kind]
    <3>1. e \in Events /\ e.sequence >= 1
      BY <1>4, <1>l DEF Events, LogTypeOK, SyncInsert, NumberedInv
    <3> HIDE DEF e
    <3>2. /\ Len(log') = Len(log) + 1 /\ log'[Len(log) + 1] = e
          /\ \A i \in 1..Len(log) : log'[i] = log[i]
      BY <2>3, <3>1, <1>l, AppendProperties DEF e
    <3>3. \A i \in 1..Len(log') : i \in 1..Len(log) \/ i = Len(log) + 1
      BY <3>2, <1>l
    <3>4. \A i \in 1..Len(log') : log'[i].sequence >= 1
      BY <3>1, <3>2, <3>3 DEF NumberedInv
    <3> QED BY <3>4, <2>1 DEF NumberedInv
  <2>4. \/ UNCHANGED log
        \/ \E kind \in Kinds :
              log' = Append(log, [by |-> c, n |-> Len(log) + 1, sequence |-> number[c], kind |-> kind])
    BY <1>4 DEF SyncInsert
  <2> QED BY <2>2, <2>3, <2>4, Zenon
<1> QED BY <1>1, <1>2, <1>3, <1>4 DEF LogNext

LEMMA NumberedCorrect == Spec => []NumberedInv
<1>1. Init => NumberedInv
  BY DEF Init, LogInit, NumberedInv
<1>2. TypeOK /\ OrderInv /\ NumberedInv /\ [Next]_vars => NumberedInv'
  <2>1. UNCHANGED logVars /\ NumberedInv => NumberedInv'
    BY DEF logVars, NumberedInv
  <2>2. [Next]_vars => LogNext \/ UNCHANGED logVars
    BY DEF Next, TaskMoves, ClientNext, DashboardNext, vars
  <2> QED BY <2>1, <2>2, LogNumbered DEF TypeOK
<1> QED BY <1>1, <1>2, TypeCorrect, OrderCorrect, PTL DEF Spec

\* Of the rows that were there when it began, the client has those it has passed, and
\* at its end all of them, or one with the same number.
PagerInv ==
    /\ pager.start <= Len(log)
    /\ \A i \in 1..pager.start :
          log[i].kind \in Defaults /\ (log[i].sequence <= pager.after \/ ~pager.more) =>
              i \in pager.seen \/ \E j \in pager.seen : log[j].sequence = log[i].sequence

LEMMA ReadsPager ==
    ASSUME TypeOK, PagerInv, PagerReads, UNCHANGED log
    PROVE  PagerInv'
<1>l. log \in Seq(Events) /\ Len(log) \in Nat
  BY LenProperties DEF TypeOK, LogTypeOK
<1>p. /\ pager \in [after : Nat, seen : SUBSET Positions, start : Nat, more : BOOLEAN]
      /\ pager.after \in Nat /\ pager.start \in Nat
  BY DEF TypeOK
<1>1. PICK page \in Pages(pager.after) :
         pager' = [pager EXCEPT !.after = LastSequence(page, @), !.seen = @ \union page,
                                !.more = page # Beyond(pager.after)]
  BY Zenon DEF PagerReads
<1> DEFINE last == LastSequence(page, pager.after)
<1>2. /\ pager'.after = last /\ pager'.seen = pager.seen \union page
      /\ pager'.more = (page # Beyond(pager.after)) /\ pager'.start = pager.start
  BY <1>1, <1>p
<1>3. /\ page \subseteq Positions /\ last \in Nat
      /\ \/ last = pager.after
         \/ \E j \in page : log[j].sequence = last
  BY <1>l, <1>p, PageType
<1>g. \A j \in page : last >= log[j].sequence
  BY <1>l, <1>p, PageType
<1>4. \A i \in page, j \in Beyond(pager.after) \ page : log[i].sequence <= log[j].sequence
  BY DEF Pages
<1> HIDE DEF last
<1>5. ASSUME NEW i \in 1..pager.start, log[i].kind \in Defaults,
             log[i].sequence <= last \/ page = Beyond(pager.after)
      PROVE  i \in pager'.seen \/ \E j \in pager'.seen : log[j].sequence = log[i].sequence
  <2>1. i \in Positions /\ log[i].sequence \in Nat
    BY <1>l, <1>p, RowType DEF PagerInv, Positions
  <2>2. CASE log[i].sequence <= pager.after
    BY <2>2, <1>5, <1>2 DEF PagerInv
  <2>3. CASE log[i].sequence > pager.after /\ i \in page
    BY <2>3, <1>2
  <2>4. CASE log[i].sequence > pager.after /\ i \notin page
    <3>1. i \in Beyond(pager.after) \ page
      BY <2>4, <2>1, <1>5 DEF Beyond
    <3>2. log[i].sequence <= last /\ last # pager.after
      BY <3>1, <2>4, <2>1, <1>5, <1>p, <1>3
    <3>3. PICK j \in page : log[j].sequence = last
      BY <3>2, <1>3
    <3>4. log[j].sequence = log[i].sequence
      BY <3>1, <3>2, <3>3, <1>4, <1>3, <2>1
    <3> QED BY <3>4, <1>2
  <2> QED BY <2>1, <2>2, <2>3, <2>4, <1>p
<1>6. \A i \in 1..pager'.start :
         log[i].kind \in Defaults /\ (log[i].sequence <= pager'.after \/ ~pager'.more) =>
            i \in pager'.seen \/ \E j \in pager'.seen : log[j].sequence = log[i].sequence
  BY <1>5, <1>2, Zenon
<1>7. pager'.start <= Len(log)
  BY <1>2 DEF PagerInv
<1> QED BY <1>6, <1>7 DEF PagerInv

LEMMA NextPager == TypeOK /\ NumberedInv /\ PagerInv /\ [Next]_vars => PagerInv'
<1> SUFFICES ASSUME TypeOK, NumberedInv, PagerInv, [Next]_vars PROVE PagerInv'
  OBVIOUS
<1>l. log \in Seq(Events) /\ Len(log) \in Nat /\ Len(log') \in Nat
  BY NextType, LenProperties DEF TypeOK, LogTypeOK
<1>p. pager.start \in Nat /\ pager.seen \subseteq Positions
  BY DEF TypeOK
<1>e. Extended
  BY NextExtends
<1>1. CASE UNCHANGED pager
  <2>1. pager.start <= Len(log')
    BY <1>l, <1>p, <1>e DEF Extended, PagerInv
  <2>2. \A i \in 1..pager.start : log'[i] = log[i]
    BY <1>l, <1>p, <1>e DEF Extended, PagerInv
  <2>3. \A j \in pager.seen : log'[j] = log[j]
    BY <1>p, <1>e DEF Extended, Positions
  <2>4. \A i \in 1..pager.start :
          log'[i].kind \in Defaults /\ (log'[i].sequence <= pager.after \/ ~pager.more) =>
              i \in pager.seen \/ \E j \in pager.seen : log'[j].sequence = log'[i].sequence
    BY <2>2, <2>3 DEF PagerInv
  <2> QED BY <1>1, <2>1, <2>4 DEF PagerInv
<1>2. CASE ClientNext
  <2>1. UNCHANGED log
    BY <1>2 DEF ClientNext, logVars
  <2>2. CASE PagerStarts
    <3>1. pager' = [after |-> 0, seen |-> {}, start |-> Len(log), more |-> TRUE]
      BY <2>2 DEF PagerStarts
    <3>2. \A i \in 1..Len(log) : ~(log[i].sequence <= 0)
      BY <1>l, RowType DEF NumberedInv
    <3>3. /\ pager'.start = Len(log) /\ pager'.after = 0 /\ pager'.more
      BY <3>1
    <3> QED BY <3>2, <3>3, <2>1, <1>l DEF PagerInv
  <2> QED BY <1>2, <2>1, <2>2, ReadsPager DEF ClientNext
<1> QED BY <1>1, <1>2 DEF Next, TaskMoves, DashboardNext, vars

\* A client that follows last_sequence to the last page misses none of the events that
\* were there when it began, but for those that share their number with one it has; for
\* any number of writers and rows of a page.  get_flow_transcript.
THEOREM PagerSees == Spec => []PagerMissesTiesOnly
<1>1. Init => PagerInv
  <2> SUFFICES ASSUME Init PROVE PagerInv
    OBVIOUS
  <2>1. pager.start = 0 /\ Len(log) = 0
    BY DEF Init, LogInit
  <2> QED BY <2>1 DEF PagerInv
<1>2. PagerInv => PagerMissesTiesOnly
  BY DEF PagerInv, PagerMissesTiesOnly
<1> QED BY <1>1, <1>2, TypeCorrect, NumberedCorrect, NextPager, PTL DEF Spec

-----------------------------------------------------------------------------
(* What the timeline may not show.                                         *)

\* What an answer leaves out of the rows it was read from lies beyond its page.
AnswerInv(a) ==
    \A i \in 1..a.readAt : log[i].kind \in Defaults /\ i \notin a.events =>
        a.more /\ log[i].sequence >= a.last

\* The hook shows the snapshot's events, and what its channel delivered above the
\* snapshot's last number.
ChannelInv ==
    /\ snapshot.events \subseteq shown
    /\ channel.state # "none" => channel.low = snapshot.last
    /\ channel.state = "joined" =>
          \A i \in (channel.from + 1)..channel.at : i \in shown \/ log[i].sequence <= channel.low

HookInv == AnswerInv(snapshot) /\ AnswerInv(fetch.answer) /\ ChannelInv

LEMMA FetchedAnswer ==
    ASSUME log \in Seq(Events), NumberedInv, NEW page \in Pages(0), NEW st
    PROVE  AnswerInv([status |-> st, events |-> page, last |-> LastSequence(page, 0),
                      more |-> page # Beyond(0), readAt |-> Len(log)])
<1> DEFINE last == LastSequence(page, 0)
<1>1. last = 0 \/ \E j \in page : log[j].sequence = last
  BY PageType
<1>2. \A j \in page, i \in Beyond(0) \ page : log[j].sequence <= log[i].sequence
  BY DEF Pages
<1>3. ASSUME NEW i \in 1..Len(log), log[i].kind \in Defaults, i \notin page
      PROVE  page # Beyond(0) /\ log[i].sequence >= last
  <2>1. log[i].sequence \in Nat /\ log[i].sequence >= 1 /\ log[i].sequence > 0
    BY RowType DEF NumberedInv
  <2>2. i \in Beyond(0) \ page
    BY <2>1, <1>3 DEF Beyond, Positions
  <2>3. CASE last = 0
    BY <2>1, <2>2, <2>3
  <2>4. ASSUME NEW j \in page, log[j].sequence = last PROVE log[i].sequence >= last
    <3>1. log[j].sequence <= log[i].sequence
      BY <2>2, <1>2
    <3>2. j \in 1..Len(log)
      BY DEF Pages, Sized, Beyond, Positions
    <3>3. log[j].sequence \in Nat
      BY <3>2, RowType
    <3> QED BY <3>1, <3>3, <2>1, <2>4
  <2> QED BY <1>1, <2>2, <2>3, <2>4
<1> HIDE DEF last
<1> QED BY <1>3, Zenon DEF AnswerInv, last

\* A channel that has delivered nothing has lost nothing.
LEMMA NothingDelivered ==
    ASSUME TypeOK', snapshot'.events \subseteq shown',
           channel'.state # "none" => channel'.low = snapshot'.last,
           channel'.state = "joined" => channel'.from = channel'.at
    PROVE  ChannelInv'
<1>1. channel'.from \in Nat /\ channel'.at \in Nat
  BY LenProperties DEF TypeOK, LogTypeOK
<1>2. channel'.from = channel'.at => (channel'.from + 1)..channel'.at = {}
  BY <1>1
<1> QED BY <1>2 DEF ChannelInv

LEMMA HookStep ==
    ASSUME TypeOK, TypeOK', NumberedInv, HookInv, DashboardNext
    PROVE  HookInv'
<1>l. log \in Seq(Events) /\ Len(log) \in Nat /\ UNCHANGED log
  BY LenProperties DEF TypeOK, LogTypeOK, DashboardNext, logVars
<1>c. channel \in [state : {"none", "joining", "joined", "error"}, low : Nat,
                   from : 0..Len(log), at : 0..Len(log)]
  BY DEF TypeOK
<1>a. \A a : AnswerInv(a) = (\A i \in 1..a.readAt : log'[i].kind \in Defaults /\ i \notin a.events =>
                                 a.more /\ log'[i].sequence >= a.last)
  BY <1>l DEF AnswerInv
<1>s. UNCHANGED snapshot => AnswerInv(snapshot)'
  BY <1>a, Zenon DEF HookInv, AnswerInv
<1>f. UNCHANGED fetch => AnswerInv(fetch.answer)'
  BY <1>a, Zenon DEF HookInv, AnswerInv
<1>n. fetch'.answer = NoSnapshot => AnswerInv(fetch.answer)'
  <2>1. NoSnapshot.readAt = 0 /\ 1..0 = {}
    BY DEF NoSnapshot
  <2> QED BY <2>1 DEF AnswerInv
<1>k. UNCHANGED <<snapshot, shown, channel>> => ChannelInv'
  BY <1>l DEF HookInv, ChannelInv
<1>1. ASSUME FetchTask PROVE HookInv'
  <2>1. fetch'.answer.readAt = 0 /\ 1..0 = {}
    BY <1>1 DEF FetchTask, NoSnapshot
  <2>2. AnswerInv(fetch.answer)'
    BY <2>1 DEF AnswerInv
  <2> QED BY <1>1, <2>2, <1>s, <1>k DEF FetchTask, HookInv
<1>2. ASSUME FetchEvents PROVE HookInv'
  <2>1. PICK page \in Pages(0) :
           fetch' = [step |-> "answer",
                     answer |-> [status |-> fetch.answer.status, events |-> page,
                                 last |-> LastSequence(page, 0),
                                 more |-> page # Beyond(0), readAt |-> Len(log)]]
    BY <1>2, Zenon DEF FetchEvents
  <2> DEFINE a == [status |-> fetch.answer.status, events |-> page, last |-> LastSequence(page, 0),
                   more |-> page # Beyond(0), readAt |-> Len(log)]
  <2>2. AnswerInv(a)
    BY <1>l, FetchedAnswer
  <2>3. fetch'.answer = a
    BY <2>1
  <2> HIDE DEF a
  <2>4. AnswerInv(fetch.answer)'
    BY <2>2, <2>3, <1>a, Zenon DEF AnswerInv
  <2> QED BY <1>2, <2>4, <1>s, <1>k DEF FetchEvents, HookInv
<1>3. ASSUME FetchFails PROVE HookInv'
  <2>1. fetch'.answer = NoSnapshot
    BY <1>3 DEF FetchFails
  <2> QED BY <1>3, <2>1, <1>n, <1>s, <1>k DEF FetchFails, HookInv
<1>4. ASSUME SnapshotArrives PROVE HookInv'
  <2>1. fetch'.answer = NoSnapshot
    BY <1>4 DEF SnapshotArrives
  <2>2. CASE UNCHANGED <<snapshot, shown, channel>>
    BY <2>1, <2>2, <1>n, <1>s, <1>k DEF HookInv
  <2>3. CASE /\ snapshot' = fetch.answer
             /\ shown' = fetch.answer.events
             /\ IF IsRunning(fetch.answer.status)
                THEN Subscribe(fetch.answer.last)
                ELSE channel' = NoChannel
    <3>1. AnswerInv(snapshot)'
      BY <2>3, <1>a, Zenon DEF HookInv, AnswerInv
    <3>2. snapshot'.events \subseteq shown'
      BY <2>3
    <3>3. channel'.state # "joined" /\ (channel'.state # "none" => channel'.low = snapshot'.last)
      BY <2>3 DEF Subscribe, NoChannel
    <3>4. ChannelInv'
      BY <3>2, <3>3, NothingDelivered
    <3> QED BY <3>1, <3>4, <2>1, <1>n DEF HookInv
  <2> QED BY <1>4, <2>2, <2>3 DEF SnapshotArrives
<1>5. ASSUME Remounts PROVE HookInv'
  <2>1. UNCHANGED <<fetch, snapshot>> /\ snapshot'.events \subseteq shown'
    BY <1>5 DEF Remounts
  <2>2. channel'.state # "joined" /\ (channel'.state # "none" => channel'.low = snapshot'.last)
    BY <1>5 DEF Remounts, NoChannel
  <2>3. ChannelInv'
    BY <2>1, <2>2, NothingDelivered
  <2> QED BY <2>1, <2>3, <1>s, <1>f DEF HookInv
<1>6. ASSUME ChannelJoins PROVE HookInv'
  <2>1. UNCHANGED <<fetch, snapshot, shown>>
    BY <1>6 DEF ChannelJoins
  <2>2. channel' = [channel EXCEPT !.state = "joined", !.from = Len(log), !.at = Len(log)]
    BY <1>6 DEF ChannelJoins
  <2>3. channel'.from = channel'.at /\ channel'.low = channel.low /\ channel.state # "none"
    BY <1>6, <2>2, <1>c DEF ChannelJoins
  <2>4. ChannelInv'
    BY <2>1, <2>3, NothingDelivered DEF HookInv, ChannelInv
  <2> QED BY <2>1, <2>4, <1>s, <1>f DEF HookInv
<1>7. ASSUME ChannelFails PROVE HookInv'
  <2>1. UNCHANGED <<fetch, snapshot, shown>>
    BY <1>7 DEF ChannelFails
  <2>2. channel'.state = "error" /\ channel'.low = channel.low /\ channel.state # "none"
    BY <1>7, <1>c DEF ChannelFails
  <2>3. ChannelInv'
    BY <2>1, <2>2, NothingDelivered DEF HookInv, ChannelInv
  <2> QED BY <2>1, <2>3, <1>s, <1>f DEF HookInv
<1>8. ASSUME Deliver PROVE HookInv'
  <2> DEFINE i == channel.at + 1
  <2>1. UNCHANGED <<fetch, snapshot>> /\ channel.state = "joined"
    BY <1>8 DEF Deliver
  <2>2. channel' = [channel EXCEPT !.at = i]
    BY <1>8 DEF Deliver
  <2>3. /\ channel'.state = channel.state /\ channel'.low = channel.low
        /\ channel'.from = channel.from /\ channel'.at = i
        /\ channel.from \in Nat /\ channel.at \in Nat
    BY <2>2, <1>c, <1>l
  <2>4. shown \subseteq shown' /\ (log[i].sequence <= channel.low \/ i \in shown')
    BY <1>8 DEF Deliver
  <2>5. \A k \in (channel.from + 1)..i : k = i \/ k \in (channel.from + 1)..channel.at
    BY <2>3
  <2>6. \A k \in (channel.from + 1)..i : k \in shown' \/ log[k].sequence <= channel.low
    BY <2>1, <2>4, <2>5 DEF HookInv, ChannelInv
  <2> HIDE DEF i
  <2>7. ChannelInv'
    BY <2>1, <2>3, <2>4, <2>6, <1>l DEF HookInv, ChannelInv
  <2> QED BY <2>1, <2>7, <1>s, <1>f DEF HookInv
<1>9. ASSUME Retry \/ Reconnect PROVE HookInv'
  <2>1. UNCHANGED <<fetch, snapshot, shown>> /\ Subscribe(snapshot.last)
    BY <1>9 DEF Retry, Reconnect
  <2>2. channel'.state = "joining" /\ channel'.low = snapshot.last
    BY <2>1 DEF Subscribe
  <2>3. ChannelInv'
    BY <2>1, <2>2, NothingDelivered DEF HookInv, ChannelInv
  <2> QED BY <2>1, <2>3, <1>s, <1>f DEF HookInv
<1>10. ASSUME LoadMore \/ OldChannelClosed PROVE HookInv'
  BY <1>10, <1>s, <1>f, <1>k DEF LoadMore, OldChannelClosed, HookInv
<1>11. ASSUME MoreArrives PROVE HookInv'
  <2>1. UNCHANGED <<fetch, snapshot, channel>> /\ shown \subseteq shown'
    BY <1>11 DEF MoreArrives
  <2>2. ChannelInv'
    BY <2>1, <1>l DEF HookInv, ChannelInv
  <2> QED BY <2>1, <2>2, <1>s, <1>f DEF HookInv
<1> QED BY <1>1, <1>2, <1>3, <1>4, <1>5, <1>6, <1>7, <1>8, <1>9, <1>10, <1>11 DEF DashboardNext

LEMMA NextHook == TypeOK /\ NumberedInv /\ HookInv /\ [Next]_vars => HookInv'
<1> SUFFICES ASSUME TypeOK, NumberedInv, HookInv, [Next]_vars PROVE HookInv'
  OBVIOUS
<1>t. TypeOK'
  BY NextType
<1>1. CASE DashboardNext
  BY <1>1, <1>t, HookStep
<1>2. CASE UNCHANGED <<fetch, snapshot, shown, channel>>
  <2>e. Extended
    BY NextExtends
  <2>l. Len(log) \in Nat
    BY LenProperties DEF TypeOK, LogTypeOK
  <2>1. \A i \in 1..Len(log) : log'[i] = log[i]
    BY <2>e DEF Extended
  <2>2. ASSUME NEW a, a.readAt \in 0..Len(log), AnswerInv(a)
        PROVE  \A i \in 1..a.readAt : log'[i].kind \in Defaults /\ i \notin a.events =>
                   a.more /\ log'[i].sequence >= a.last
    <3>1. \A i \in 1..a.readAt : i \in 1..Len(log)
      BY <2>l, <2>2
    <3> QED BY <3>1, <2>1, <2>2, Zenon DEF AnswerInv
  <2>3. snapshot.readAt \in 0..Len(log) /\ fetch.answer.readAt \in 0..Len(log)
    BY DEF TypeOK, Snapshots
  <2>4. AnswerInv(snapshot)' /\ AnswerInv(fetch.answer)'
    <3>1. \A i \in 1..snapshot.readAt : log'[i].kind \in Defaults /\ i \notin snapshot.events =>
              snapshot.more /\ log'[i].sequence >= snapshot.last
      BY <2>2, <2>3, Zenon DEF HookInv
    <3>2. \A i \in 1..fetch.answer.readAt :
              log'[i].kind \in Defaults /\ i \notin fetch.answer.events =>
                  fetch.answer.more /\ log'[i].sequence >= fetch.answer.last
      BY <2>2, <2>3, Zenon DEF HookInv
    <3> QED BY <3>1, <3>2, <1>2 DEF AnswerInv
  <2>5. \A i \in (channel.from + 1)..channel.at : i \in 1..Len(log)
    BY <2>l DEF TypeOK
  <2>6. ChannelInv'
    BY <2>5, <2>1, <1>2 DEF HookInv, ChannelInv
  <2> QED BY <2>4, <2>6 DEF HookInv
<1> QED BY <1>1, <1>2 DEF Next, TaskMoves, ClientNext, hookVars, vars

\* What the timeline does not show while its subscription is up is on its way, or was
\* inserted between the snapshot and the joining, or lies beyond the first page, or came
\* later with a number as low as the snapshot's last; for any writers, page and retries.
\* useTranscriptTimeline.
THEOREM Accounting == Spec => []Accounted
<1>1. Init => HookInv
  <2> SUFFICES ASSUME Init PROVE HookInv
    OBVIOUS
  <2>1. 1..0 = {} /\ NoSnapshot.readAt = 0 /\ NoSnapshot.events = {} /\ NoSnapshot.last = 0
    BY DEF NoSnapshot
  <2>2. snapshot = NoSnapshot /\ fetch.answer = NoSnapshot
    BY DEF Init
  <2>3. AnswerInv(snapshot) /\ AnswerInv(fetch.answer)
    BY <2>1, <2>2 DEF AnswerInv
  <2>4. channel.state = "joining" /\ channel.low = 0
    BY DEF Init
  <2> QED BY <2>1, <2>2, <2>3, <2>4 DEF HookInv, ChannelInv
<1>2. TypeOK /\ HookInv => Accounted
  <2> SUFFICES ASSUME TypeOK, HookInv, channel.state = "joined", NEW i \in Beyond(0) \ shown,
                      ~(i > channel.at), ~(snapshot.readAt < i /\ i <= channel.from)
               PROVE  \/ i <= snapshot.readAt /\ snapshot.more /\ log[i].sequence >= snapshot.last
                      \/ snapshot.readAt < i /\ log[i].sequence <= snapshot.last
    BY DEF Accounted
  <2>l. Len(log) \in Nat
    BY LenProperties DEF TypeOK, LogTypeOK
  <2>1. /\ i \in 1..Len(log) /\ log[i].kind \in Defaults
        /\ snapshot.readAt \in 0..Len(log)
        /\ channel.from \in 0..Len(log) /\ channel.at \in 0..Len(log)
    BY DEF TypeOK, Snapshots, Beyond, Positions
  <2>2. CASE i <= snapshot.readAt
    <3>1. i \in 1..snapshot.readAt
      BY <2>l, <2>1, <2>2
    <3>2. i \notin snapshot.events
      BY DEF HookInv, ChannelInv
    <3> QED BY <3>1, <3>2, <2>1, <2>2 DEF HookInv, AnswerInv
  <2>3. CASE snapshot.readAt < i
    <3>1. i \in (channel.from + 1)..channel.at
      BY <2>l, <2>1, <2>3
    <3>2. log[i].sequence <= channel.low /\ channel.low = snapshot.last
      BY <3>1 DEF HookInv, ChannelInv
    <3> QED BY <3>2, <2>3
  <2> QED BY <2>l, <2>1, <2>2, <2>3
<1> QED BY <1>1, <1>2, TypeCorrect, NumberedCorrect, NextHook, PTL DEF Spec
==============================================================================
