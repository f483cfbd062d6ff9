------------------------------ MODULE EventLog ------------------------------
(***************************************************************************)
(* The rows of domain_events about one task, and who writes them: the      *)
(* EventStore objects of the flows that run it (the one that executes and, *)
(* after an approval, the one that resume() builds) and the calls of       *)
(* append_sync (approval.requested, approval.approved).                    *)
(*                                                                         *)
(* An EventStore numbers its events itself, in memory, from one; append_   *)
(* sync asks the database for the largest number plus one and inserts in a *)
(* second request.  The table's only key is the id of a row.               *)
(***************************************************************************)
EXTENDS Naturals, Sequences, FiniteSets, SequencesExt

CONSTANTS
    Stores,      \* EventStore objects
    Syncs,       \* calls of append_sync
    Kinds,       \* the kinds of events that are written
    MaxAppends,  \* bound: events of one store
    MaxFaults    \* bound: failed requests

ASSUME LogBoundAssumption == MaxAppends \in Nat /\ MaxFaults \in Nat
ASSUME WriterAssumption   == Stores \intersect Syncs = {}

VARIABLES
    log,         \* the rows of the task, in the order they were committed
    counter,     \* _sequence of each store
    queue,       \* _queue of each store
    sync,        \* where each append_sync is: the request it makes next
    number,      \* the sequence number each append_sync was given
    faults       \* faults that happened

logVars == <<log, counter, queue, sync, number, faults>>

\* A row: n tells apart the events of one writer.
Events == [by : Stores \union Syncs, n : Nat, sequence : Nat, kind : Kinds]

Id(e) == <<e.by, e.n>>

LogTypeOK ==
    /\ log \in Seq(Events)
    /\ counter \in [Stores -> 0..MaxAppends]
    /\ queue \in [Stores -> Seq(Events)]
    /\ sync \in [Syncs -> {"number", "insert", "done", "raised"}]
    /\ number \in [Syncs -> Nat]
    /\ faults \in 0..MaxFaults

LogInit ==
    /\ log = << >>
    /\ counter = [s \in Stores |-> 0]
    /\ queue = [s \in Stores |-> << >>]
    /\ sync = [c \in Syncs |-> "number"]
    /\ number = [c \in Syncs |-> 0]
    /\ faults = 0

Fault == faults < MaxFaults /\ faults' = faults + 1

\* append: the event gets its id and the next number of this store.
Append_(s) ==
    /\ counter[s] < MaxAppends
    /\ \E kind \in Kinds :
          queue' = [queue EXCEPT ![s] = Append(@,
              [by |-> s, n |-> counter[s] + 1, sequence |-> counter[s] + 1, kind |-> kind])]
    /\ counter' = [counter EXCEPT ![s] = @ + 1]
    /\ UNCHANGED <<log, sync, number, faults>>

\* The batch is one INSERT: a row whose id exists refuses all of it.
Insertable(batch) == \A e \in Range(batch), f \in Range(log) : Id(e) # Id(f)

\* A plausible slip: the queue is emptied before the insert is made.
Flush_ClearsFirst(s) ==
    /\ queue[s] # << >>
    /\ queue' = [queue EXCEPT ![s] = << >>]
    /\ \/ Insertable(queue[s]) /\ log' = log \o queue[s] /\ UNCHANGED faults
       \/ Fault /\ UNCHANGED log
    /\ UNCHANGED <<counter, sync, number>>

\* flush: the queue is inserted, and emptied only when the answer came.
Flush(s) ==
    /\ queue[s] # << >>
    /\ \/ /\ Insertable(queue[s])
          /\ log' = log \o queue[s]
          /\ \/ queue' = [queue EXCEPT ![s] = << >>] /\ UNCHANGED faults
             \/ Fault /\ UNCHANGED queue
       \/ Fault /\ UNCHANGED <<log, queue>>
    /\ UNCHANGED <<counter, sync, number>>

\* next_event_sequence: MAX(sequence) + 1 over the rows that are there.
NextSequence == 1 + Max({0} \union {e.sequence : e \in Range(log)})

SyncNumber(c) ==
    /\ sync[c] = "number"
    /\ \/ /\ number' = [number EXCEPT ![c] = NextSequence]
          /\ sync' = [sync EXCEPT ![c] = "insert"]
          /\ UNCHANGED faults
       \/ /\ sync' = [sync EXCEPT ![c] = "raised"]
          /\ Fault
          /\ UNCHANGED number
    /\ UNCHANGED <<log, counter, queue>>

\* The insert leaves the id to the database, so that a retry of one that was
\* served makes another row with the same number.
SyncInsert(c) ==
    /\ sync[c] = "insert"
    /\ \/ \E kind \in Kinds :
             /\ log' = Append(log, [by |-> c, n |-> Len(log) + 1,
                                    sequence |-> number[c], kind |-> kind])
             /\ \/ sync' = [sync EXCEPT ![c] = "done"] /\ UNCHANGED faults
                \/ sync' = [sync EXCEPT ![c] = "raised"] /\ Fault
                \/ Fault /\ UNCHANGED sync
       \/ /\ sync' = [sync EXCEPT ![c] = "raised"]
          /\ Fault
          /\ UNCHANGED log
    /\ UNCHANGED <<counter, queue, number>>

LogNext ==
    \/ \E s \in Stores : Append_(s) \/ Flush(s)
    \/ \E c \in Syncs : SyncNumber(c) \/ SyncInsert(c)

-----------------------------------------------------------------------------

\* What one flow object logs is in the log in the order it was emitted, without
\* a gap and without repetition, whatever requests fail: what a failed flush
\* left in the queue goes in front of what comes later, and a flush that was
\* served but not answered is never made again.  EventStore.flush.
StoreOrdered ==
    \A i \in DOMAIN log : log[i].by \in Stores =>
        \A m \in 1..log[i].sequence :
            Cardinality({j \in 1..i : log[j].by = log[i].by /\ log[j].sequence = m}) = 1
=============================================================================
