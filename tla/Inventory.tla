----------------------------- MODULE Inventory ------------------------------
(***************************************************************************)
(* The stock of one organisation: the inventario table with its two stored *)
(* procedures, and the tools that reserve an event's items and free them.  *)
(*                                                                         *)
(* A procedure locks the item's row and is one step.  A tool's call loops  *)
(* over the event's items, one procedure after the other, and the calls of *)
(* several events interleave between items.  A procedure's request can     *)
(* fail with an exception, before the procedure ran or after it committed. *)
(***************************************************************************)
EXTENDS Naturals, Sequences, FiniteSets, FiniteSetsExt

CONSTANTS
    Events,       \* events that reserve stock
    Items,        \* item ids
    MaxCantidad,  \* bound on the quantity of a line
    Stocks,       \* values of stock_actual
    MaxCalls,     \* calls of a tool for one event (the agent's max_iter)
    MaxFaults     \* bound on failed requests

ASSUME InventoryAssumption ==
    /\ MaxCantidad \in Nat /\ MaxCalls \in Nat /\ MaxFaults \in Nat
    /\ Stocks \subseteq Nat
    /\ IsFiniteSet(Events)

VARIABLES
    rows,         \* items that have a row in inventario
    actual,       \* stock_actual
    reserved,     \* stock_reservado
    order,        \* the list of lines an event's call is given
    call,         \* what the event's agent is doing
    at,           \* the line its call is at
    booked,       \* lines in reservas_exitosas that no report says are freed
    short,        \* lines in items_a_comprar
    calls,        \* calls made for the event
    faults,       \* requests that failed
    unheard       \* history: a release was committed and its answer lost

vars == <<rows, actual, reserved, order, call, at, booked, short, calls, faults, unheard>>

Lines  == [item : Items, cantidad : 1..MaxCantidad]
Orders == {<<a>> : a \in Lines}
             \union {<<p[1], p[2]>> : p \in {q \in Lines \X Lines : q[1].item # q[2].item}}

TypeOK ==
    /\ rows \subseteq Items
    /\ actual \in [Items -> Nat]
    /\ reserved \in [Items -> Nat]
    /\ order \in [Events -> Orders]
    /\ call \in [Events -> {"idle", "reserving", "reported", "raised", "releasing", "released"}]
    /\ at \in [Events -> Nat]
    /\ booked \in [Events -> SUBSET Nat]
    /\ short \in [Events -> SUBSET Nat]
    /\ calls \in [Events -> Nat]
    /\ faults \in 0..MaxFaults
    /\ unheard \in BOOLEAN
    /\ \A e \in Events : booked[e] \subseteq DOMAIN order[e]

Init ==
    /\ rows \in SUBSET Items
    /\ actual \in [Items -> Stocks]
    /\ reserved = [i \in Items |-> 0]
    /\ order \in [Events -> Orders]
    /\ call = [e \in Events |-> "idle"]
    /\ at = [e \in Events |-> 1]
    /\ booked = [e \in Events |-> {}]
    /\ short = [e \in Events |-> {}]
    /\ calls = [e \in Events |-> 0]
    /\ faults = 0
    /\ unheard = FALSE

Line(e) == order[e][at[e]]

Fault == faults < MaxFaults /\ faults' = faults + 1

-----------------------------------------------------------------------------
\* The stored procedures: what they refuse and what they change.

\* A plausible slip: what is reserved is left out of the comparison.
Reservable_Actual(l) == l.item \in rows /\ actual[l.item] >= l.cantidad

Reservable(l) ==
    l.item \in rows /\ actual[l.item] - reserved[l.item] >= l.cantidad

reserve_inventory_item(l) == reserved' = [reserved EXCEPT ![l.item] = @ + l.cantidad]

\* A plausible slip: more may be freed than is reserved.
Releasable_Unchecked(l) == l.item \in rows

Releasable(l) == l.item \in rows /\ reserved[l.item] >= l.cantidad

release_inventory_item(l) == reserved' = [reserved EXCEPT ![l.item] = @ - l.cantidad]

-----------------------------------------------------------------------------
\* ReservarStockTool

Reserve(e) ==
    /\ call[e] \in {"idle", "raised"} /\ calls[e] < MaxCalls
    /\ calls' = [calls EXCEPT ![e] = @ + 1]
    /\ call' = [call EXCEPT ![e] = "reserving"]
    /\ at' = [at EXCEPT ![e] = 1]
    /\ booked' = [booked EXCEPT ![e] = {}]
    /\ short' = [short EXCEPT ![e] = {}]
    /\ UNCHANGED <<rows, actual, reserved, order, faults, unheard>>

\* A plausible slip: the procedure's error is not looked at, as in release_stock.
ReserveLine_Unread(e) ==
    /\ call[e] = "reserving" /\ at[e] <= Len(order[e])
    /\ IF Reservable(Line(e)) THEN reserve_inventory_item(Line(e)) ELSE UNCHANGED reserved
    /\ booked' = [booked EXCEPT ![e] = @ \union {at[e]}]
    /\ at' = [at EXCEPT ![e] = @ + 1]
    /\ UNCHANGED <<rows, actual, order, call, calls, short, faults, unheard>>

\* The item is reserved and listed, or refused and listed as one to buy.
ReserveLine(e) ==
    /\ call[e] = "reserving" /\ at[e] <= Len(order[e])
    /\ IF Reservable(Line(e))
       THEN /\ reserve_inventory_item(Line(e))
            /\ booked' = [booked EXCEPT ![e] = @ \union {at[e]}]
            /\ UNCHANGED short
       ELSE /\ short' = [short EXCEPT ![e] = @ \union {at[e]}]
            /\ UNCHANGED <<reserved, booked>>
    /\ at' = [at EXCEPT ![e] = @ + 1]
    /\ UNCHANGED <<rows, actual, order, call, calls, faults, unheard>>

\* The request fails: the exception leaves the tool, and nobody is told what the
\* lines before it reserved.
ReserveFails(e) ==
    /\ call[e] = "reserving" /\ at[e] <= Len(order[e])
    /\ Fault
    /\ \/ UNCHANGED reserved
       \/ Reservable(Line(e)) /\ reserve_inventory_item(Line(e))
    /\ call' = [call EXCEPT ![e] = "raised"]
    /\ booked' = [booked EXCEPT ![e] = {}]
    /\ UNCHANGED <<rows, actual, order, at, calls, short, unheard>>

Report(e) ==
    /\ call[e] = "reserving" /\ at[e] > Len(order[e])
    /\ call' = [call EXCEPT ![e] = "reported"]
    /\ UNCHANGED <<rows, actual, reserved, order, at, booked, short, calls, faults, unheard>>

-----------------------------------------------------------------------------
\* LiberarStockTool, given the lines that are booked.

Release(e) ==
    /\ call[e] \in {"reported", "released"} /\ booked[e] # {} /\ calls[e] < MaxCalls
    /\ calls' = [calls EXCEPT ![e] = @ + 1]
    /\ call' = [call EXCEPT ![e] = "releasing"]
    /\ at' = [at EXCEPT ![e] = Min(booked[e])]
    /\ UNCHANGED <<rows, actual, reserved, order, booked, short, faults, unheard>>

\* The loop goes to the next booked line, or the report is returned.
NextBooked(e) ==
    LET later == {k \in booked[e] : k > at[e]} IN
    IF later = {} THEN call' = [call EXCEPT ![e] = "released"] /\ UNCHANGED at
                  ELSE at' = [at EXCEPT ![e] = Min(later)] /\ UNCHANGED call

\* The line is freed, or the procedure refuses; either way the report says freed.
ReleaseLine(e) ==
    /\ call[e] = "releasing"
    /\ IF Releasable(Line(e)) THEN release_inventory_item(Line(e)) ELSE UNCHANGED reserved
    /\ booked' = [booked EXCEPT ![e] = @ \ {at[e]}]
    /\ NextBooked(e)
    /\ UNCHANGED <<rows, actual, order, short, calls, faults, unheard>>

\* The request fails: the report says the line is not freed, which it may be.
ReleaseFails(e) ==
    /\ call[e] = "releasing"
    /\ Fault
    /\ \/ UNCHANGED <<reserved, unheard>>
       \/ Releasable(Line(e)) /\ release_inventory_item(Line(e)) /\ unheard' = TRUE
    /\ NextBooked(e)
    /\ UNCHANGED <<rows, actual, order, booked, short, calls>>

Reserving(e) == Reserve(e) \/ ReserveLine(e) \/ ReserveFails(e) \/ Report(e)
Releasing(e) == Release(e) \/ ReleaseLine(e) \/ ReleaseFails(e)

Next == \E e \in Events : Reserving(e) \/ Releasing(e)

Spec == Init /\ [][Next]_vars

-----------------------------------------------------------------------------

\* The units of item i on the lines that b lists, one by one: a line, and a number
\* up to its quantity.  (An order has at most two lines.)
Units(b, i) ==
    {u \in (Events \X (1..2)) \X (1..MaxCantidad) :
        LET e == u[1][1]
            k == u[1][2]
        IN  k \in b[e] /\ order[e][k].item = i /\ u[2] <= order[e][k].cantidad}

\* How many of item i the reports of all events say are reserved.
Held(i) == Cardinality(Units(booked, i))

\* No item is reserved beyond its stock, whatever calls interleave or fail: the
\* CHECK of the table never has to refuse what the procedures do.
NoOversell == \A i \in Items : reserved[i] <= actual[i]

\* "Nunca falla silenciosamente: siempre informa qué pudo reservar y qué no": as
\* long as no request fails, the reserved units are those that reports list.
\* ReservarStockTool and LiberarStockTool.
ReportsExact == faults = 0 => \A i \in Items : reserved[i] = Held(i)

\* What an event's report says is reserved for it is there when it takes place,
\* unless the answer to a release was lost: freeing the line again would take the
\* units of another event.
Backed == ~unheard => \A i \in Items : Held(i) <= reserved[i]
=============================================================================
