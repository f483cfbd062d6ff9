------------------------------ MODULE Timeline ------------------------------
(***************************************************************************)
(* The readers of a task's log while it is written: the pages of GET       *)
(* /transcripts/{task_id} for a client that follows last_sequence, and the *)
(* dashboard's hook useTranscriptTimeline, which joins a snapshot (the     *)
(* first page) with a realtime subscription to the inserts.                *)
(*                                                                         *)
(* The list the hook shows is a set here: every writer of it sorts by      *)
(* sequence.  Realtime delivers the rows inserted while a channel is       *)
(* joined, in their order, until it is removed or fails.                   *)
(***************************************************************************)
EXTENDS EventLog

CONSTANTS
    Defaults,    \* the kinds a transcript has by default
    Limit,       \* rows of a page
    MaxRetries   \* MAX_RETRIES of the hook

ASSUME ReaderAssumption == Limit \in Nat \ {0} /\ MaxRetries \in Nat

VARIABLES
    status,      \* tasks.status
    reader,      \* who reads: a "client" that pages, or the "dashboard"
    pager,       \* where the client is, what it has seen, how long the log was
    fetch,       \* the dashboard's request for a snapshot
    snapshot,    \* what it was answered last
    shown,       \* the rows the hook shows
    hasMore,     \* it offers to load more
    loading,     \* what a request for more was answered, until it is merged
    channel,     \* its subscription
    connection,  \* connectionStatus
    closing,     \* a channel that was removed has not yet said CLOSED
    retries      \* retryCount

hookVars == <<fetch, snapshot, shown, hasMore, loading, channel, connection, closing, retries>>
vars     == <<logVars, status, reader, pager, hookVars>>

\* A row is identified by its position in the log.
Positions == 1..Len(log)

Statuses        == {"running", "completed", "failed"}
TERMINAL_STATES == {"done", "failed", "cancelled", "blocked"}
IsRunning(st)   == st \notin TERMINAL_STATES

NoSnapshot == [status |-> "none", events |-> {}, last |-> 0, more |-> FALSE, readAt |-> 0]
NotLoading == [answered |-> FALSE, events |-> {}]
NoChannel  == [state |-> "none", low |-> 0, from |-> 0, at |-> 0]

Snapshots == [status : Statuses \union {"none"}, events : SUBSET Positions,
              last : Nat, more : BOOLEAN, readAt : 0..Len(log)]

TypeOK ==
    /\ LogTypeOK
    /\ status \in Statuses
    /\ reader \in {"client", "dashboard"}
    /\ pager \in [after : Nat, seen : SUBSET Positions, start : Nat, more : BOOLEAN]
    /\ snapshot \in Snapshots
    /\ fetch \in [step : {"idle", "events", "answer"}, answer : Snapshots]
    /\ shown \subseteq Positions
    /\ hasMore \in BOOLEAN
    /\ loading \in [answered : BOOLEAN, events : SUBSET Positions]
    /\ channel \in [state : {"none", "joining", "joined", "error"}, low : Nat,
                    from : 0..Len(log), at : 0..Len(log)]
    /\ connection \in {"connected", "connecting", "disconnected", "error"}
    /\ closing \in BOOLEAN
    /\ retries \in 0..MaxRetries

-----------------------------------------------------------------------------
\* GET /transcripts/{task_id}

\* The rows of which a page is the beginning.
Beyond(after) == {i \in Positions : log[i].kind \in Defaults /\ log[i].sequence > after}

Sized(page, after) ==
    page \subseteq Beyond(after) /\ Cardinality(page) = Min({Limit, Cardinality(Beyond(after))})

\* A plausible slip: the rows come in no particular order.
Pages_Unordered(after) == {p \in SUBSET Beyond(after) : Sized(p, after)}

\* A page is the first rows by sequence; the database breaks ties as it likes.
Pages(after) ==
    {p \in SUBSET Beyond(after) :
        /\ Sized(p, after)
        /\ \A i \in p, j \in Beyond(after) \ p : log[i].sequence <= log[j].sequence}

LastSequence(page, after) == Max({after} \union {log[i].sequence : i \in page})

-----------------------------------------------------------------------------
\* A client that reads the transcript page after page, from the last_sequence
\* of one to the next while has_more.

PagerStarts ==
    /\ ~pager.more
    /\ pager' = [after |-> 0, seen |-> {}, start |-> Len(log), more |-> TRUE]

PagerReads ==
    /\ pager.more
    /\ \E page \in Pages(pager.after) :
          pager' = [pager EXCEPT !.after = LastSequence(page, @),
                                 !.seen = @ \union page,
                                 !.more = page # Beyond(pager.after)]

-----------------------------------------------------------------------------
\* The hook.

\* setupSubscription: the channel there is is removed and another one joins.  Its
\* handler closes over the snapshot of this render.  A joined channel says CLOSED
\* when its leaving is acknowledged, any other one at once.
Subscribe(low) ==
    /\ channel' = [state |-> "joining", low |-> low, from |-> Len(log), at |-> Len(log)]
    /\ closing' = (closing \/ channel.state = "joined")
    /\ connection' = "connecting"

\* useQuery asks when the page is mounted, and again when the network is back.
FetchTask ==
    /\ fetch.step = "idle"
    /\ fetch' = [step |-> "events", answer |-> [NoSnapshot EXCEPT !.status = status]]
    /\ UNCHANGED <<snapshot, shown, hasMore, loading, channel,
                   connection, closing, retries>>

FetchEvents ==
    /\ fetch.step = "events"
    /\ \E page \in Pages(0) :
          fetch' = [step |-> "answer",
                    answer |-> [status |-> fetch.answer.status, events |-> page,
                                last |-> LastSequence(page, 0),
                                more |-> page # Beyond(0), readAt |-> Len(log)]]
    /\ UNCHANGED <<snapshot, shown, hasMore, loading, channel,
                   connection, closing, retries>>

FetchFails ==
    /\ fetch.step # "idle"
    /\ fetch' = [step |-> "idle", answer |-> NoSnapshot]
    /\ UNCHANGED <<snapshot, shown, hasMore, loading, channel,
                   connection, closing, retries>>

\* An answer equal to the one before is the same object to useQuery.
SameAnswer(a, b) == [a EXCEPT !.readAt = 0] = [b EXCEPT !.readAt = 0]

\* The two effects on the snapshot: the list becomes its events; the channel is
\* removed, and while the task runs another one is made.
SnapshotArrives ==
    LET answer == fetch.answer IN
    /\ fetch.step = "answer"
    /\ fetch' = [step |-> "idle", answer |-> NoSnapshot]
    /\ IF SameAnswer(answer, snapshot)
       THEN UNCHANGED <<snapshot, shown, hasMore, channel, closing, connection>>
       ELSE /\ snapshot' = answer
            /\ shown' = answer.events
            /\ hasMore' = answer.more
            /\ IF IsRunning(answer.status)
               THEN Subscribe(answer.last)
               ELSE /\ channel' = NoChannel
                    /\ closing' = (closing \/ channel.state = "joined")
                    /\ connection' = "disconnected"
    /\ UNCHANGED <<loading, retries>>

\* The page is left and entered again: the list is made from the cached snapshot.
Remounts ==
    /\ shown' = snapshot.events
    /\ hasMore' = snapshot.more
    /\ loading' = NotLoading
    /\ retries' = 0
    /\ closing' = FALSE
    /\ IF snapshot # NoSnapshot /\ ~IsRunning(snapshot.status)
       THEN channel' = NoChannel /\ connection' = "disconnected"
       ELSE /\ channel' = [state |-> "joining", low |-> snapshot.last,
                           from |-> Len(log), at |-> Len(log)]
            /\ connection' = "connecting"
    /\ UNCHANGED <<fetch, snapshot>>

\* SUBSCRIBED: what is inserted from here on is delivered.  The client library
\* also joins again by itself after an error.
ChannelJoins ==
    /\ channel.state \in {"joining", "error"}
    /\ channel' = [channel EXCEPT !.state = "joined", !.from = Len(log), !.at = Len(log)]
    /\ connection' = "connected"
    /\ retries' = 0
    /\ UNCHANGED <<fetch, snapshot, shown, hasMore, loading, closing>>

\* CHANNEL_ERROR or TIMED_OUT
ChannelFails ==
    /\ channel.state \in {"joining", "joined"}
    /\ channel' = [channel EXCEPT !.state = "error"]
    /\ connection' = "error"
    /\ UNCHANGED <<fetch, snapshot, shown, hasMore, loading,
                   closing, retries>>

\* CLOSED, of a channel that was removed
OldChannelClosed ==
    /\ closing
    /\ closing' = FALSE
    /\ connection' = "disconnected"
    /\ UNCHANGED <<fetch, snapshot, shown, hasMore, loading,
                   channel, retries>>

\* The handler of an insert: rows that the snapshot is taken to hold are dropped.
Deliver ==
    LET i == channel.at + 1 IN
    /\ channel.state = "joined"
    /\ i \in Positions
    /\ channel' = [channel EXCEPT !.at = i]
    /\ IF log[i].sequence <= channel.low
       THEN UNCHANGED <<shown, retries>>
       ELSE shown' = shown \union {i} /\ retries' = 0
    /\ UNCHANGED <<fetch, snapshot, hasMore, loading, connection, closing>>

\* A plausible slip: the retries are counted and not compared.
Retry_Unlimited ==
    /\ connection = "error"
    /\ snapshot # NoSnapshot /\ IsRunning(snapshot.status)
    /\ retries' = retries + 1
    /\ Subscribe(snapshot.last)
    /\ UNCHANGED <<fetch, snapshot, shown, hasMore, loading>>

\* After RETRY_INTERVAL_MS
Retry ==
    /\ connection = "error"
    /\ snapshot # NoSnapshot /\ IsRunning(snapshot.status)
    /\ retries < MaxRetries
    /\ retries' = retries + 1
    /\ Subscribe(snapshot.last)
    /\ UNCHANGED <<fetch, snapshot, shown, hasMore, loading>>

\* A plausible slip: reconnecting starts the list over.
Reconnect_Restarts ==
    /\ connection = "error"
    /\ retries' = 0
    /\ shown' = snapshot.events
    /\ Subscribe(snapshot.last)
    /\ UNCHANGED <<fetch, snapshot, hasMore, loading>>

\* reconnect, the button beside the error
Reconnect ==
    /\ connection = "error"
    /\ retries' = 0
    /\ Subscribe(snapshot.last)
    /\ UNCHANGED <<fetch, snapshot, shown, hasMore, loading>>

\* loadMore asks for the first page again, ...
LoadMore ==
    /\ hasMore
    /\ ~loading.answered
    /\ \E page \in Pages(0) : loading' = [answered |-> TRUE, events |-> page]
    /\ UNCHANGED <<fetch, snapshot, shown, hasMore, channel,
                   connection, closing, retries>>

\* A plausible slip: the page replaces the list.
MoreArrives_Replaces ==
    /\ loading.answered
    /\ shown' = loading.events
    /\ hasMore' = (Cardinality(loading.events) >= Limit)
    /\ loading' = NotLoading
    /\ UNCHANGED <<fetch, snapshot, channel, connection, closing, retries>>

\* ... and merges it into the list.
MoreArrives ==
    /\ loading.answered
    /\ shown' = shown \union loading.events
    /\ hasMore' = (Cardinality(loading.events) >= Limit)
    /\ loading' = NotLoading
    /\ UNCHANGED <<fetch, snapshot, channel, connection, closing, retries>>

-----------------------------------------------------------------------------

\* The flows write, and end or resume the task.
TaskMoves ==
    /\ \/ LogNext /\ UNCHANGED status
       \/ status = "running" /\ status' \in {"completed", "failed"} /\ UNCHANGED logVars
    /\ UNCHANGED <<reader, pager, hookVars>>

DashboardNext ==
    /\ reader = "dashboard"
    /\ UNCHANGED <<logVars, status, reader, pager>>
    /\ \/ FetchTask \/ FetchEvents \/ FetchFails \/ SnapshotArrives \/ Remounts
       \/ ChannelJoins \/ ChannelFails \/ OldChannelClosed \/ Deliver \/ Retry \/ Reconnect
       \/ LoadMore \/ MoreArrives

ClientNext ==
    /\ reader = "client"
    /\ UNCHANGED <<logVars, status, reader, hookVars>>
    /\ PagerStarts \/ PagerReads

Init ==
    /\ LogInit
    /\ status = "running"
    /\ reader \in {"client", "dashboard"}
    /\ pager = [after |-> 0, seen |-> {}, start |-> 0, more |-> FALSE]
    /\ fetch = [step |-> "idle", answer |-> NoSnapshot]
    /\ snapshot = NoSnapshot
    /\ shown = {}
    /\ hasMore = FALSE
    /\ loading = NotLoading
    /\ channel = [state |-> "joining", low |-> 0, from |-> 0, at |-> 0]
    /\ connection = "connecting"
    /\ closing = FALSE
    /\ retries = 0

Next == TaskMoves \/ ClientNext \/ DashboardNext

Spec == Init /\ [][Next]_vars

-----------------------------------------------------------------------------

\* A client that follows last_sequence to the last page has every event that was
\* there when it began, but for those that carry the sequence number of one it
\* has: a page ends between them.  get_flow_transcript and next_event_sequence.
PagerMissesTiesOnly ==
    ~pager.more =>
        \A i \in 1..pager.start : log[i].kind \in Defaults =>
            i \in pager.seen \/ \E j \in pager.seen : log[j].sequence = log[i].sequence

\* What the timeline of a running task does not show while its subscription is
\* up is on its way, or was inserted between the reading of the snapshot and the
\* joining of the channel, or lies beyond the first page, or came later than the
\* snapshot with a number as low as its last.  useTranscriptTimeline.
Accounted ==
    snapshot # NoSnapshot /\ channel.state = "joined" =>
        \A i \in Beyond(0) \ shown :
            \/ i > channel.at
            \/ snapshot.readAt < i /\ i <= channel.from
            \/ i <= snapshot.readAt /\ snapshot.more /\ log[i].sequence >= snapshot.last
            \/ snapshot.readAt < i /\ log[i].sequence <= snapshot.last

\* What is shown stays shown ("los ya cargados se mantienen") until another
\* snapshot or another visit to the page: deliveries, retries, reconnections and
\* loading more only add.
ShownKept ==
    [][shown \subseteq shown' \/ snapshot' # snapshot \/ Remounts]_vars

\* Nothing is lost in the hand-off from the snapshot to the subscription.
HandOff ==
    /\ snapshot # NoSnapshot
    /\ channel.state = "joined" /\ channel.at = Len(log)
    /\ fetch.step = "idle"
    => Beyond(0) \subseteq shown
=============================================================================
