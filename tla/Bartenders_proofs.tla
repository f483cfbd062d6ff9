-------------------------- MODULE Bartenders_proofs -------------------------
(***************************************************************************)
(* Proofs about the parts of Bartenders NOA.                               *)
(*                                                                         *)
(* Inventory: its type invariant, that no item is reserved beyond its      *)
(* stock, and that the reports account for what is reserved.               *)
(*                                                                         *)
(* Staffing: its type invariant, that the best team is chosen, that the    *)
(* team of a created crew is marked, and that no bartender is in two teams *)
(* as long as no crew has chosen while another one was marking.            *)
(*                                                                         *)
(* Eventos: its type invariant, that a quoted event has its quotation, an  *)
(* audited one the price it was sold at and a margin, and that a closed    *)
(* one stays closed.                                                       *)
(***************************************************************************)
EXTENDS Inventory, Staffing, Eventos, FiniteSetTheorems, TLAPS

-----------------------------------------------------------------------------
(* Inventory.                                                              *)

\* An order has one line, or two.
LEMMA OrderLines ==
    ASSUME NEW o \in Orders
    PROVE  /\ DOMAIN o \in {1..1, 1..2} /\ Len(o) \in 1..2 /\ DOMAIN o = 1..Len(o)
           /\ \A k \in DOMAIN o : o[k] \in Lines
<1>1. CASE \E a \in Lines : o = <<a>>
  BY <1>1
<1>2. CASE \E a, b \in Lines : o = <<a, b>>
  BY <1>2
<1> QED BY <1>1, <1>2 DEF Orders

LEMMA LineType ==
    ASSUME TypeOK, NEW e \in Events, at[e] \in DOMAIN order[e]
    PROVE  Line(e) \in Lines /\ Line(e).item \in Items /\ Line(e).cantidad \in Nat
  BY InventoryAssumption, OrderLines DEF TypeOK, Line, Lines

\* The least element of a set of line numbers is one of them.
LEMMA MinIn ==
    ASSUME NEW S, S \subseteq 1..2, S # {}
    PROVE  Min(S) \in S
<1>1. \E x \in S : \A y \in S : x <= y
  <2>1. CASE 1 \in S
    BY <2>1
  <2>2. CASE 1 \notin S
    <3>1. \A x \in S : x \in 1..2 /\ x # 1
      BY <2>2
    <3>2. \A x \in 1..2 : x # 1 => x = 2
      OBVIOUS
    <3>3. \A x \in S : x = 2
      BY <3>1, <3>2, Zenon
    <3>4. PICK x : x \in S
      OBVIOUS
    <3>5. \A y \in S : x <= y
      BY <3>3, <3>4
    <3> QED BY <3>4, <3>5
  <2> QED BY <2>1, <2>2
<1>2. Min(S) = CHOOSE x \in S : \A y \in S : x <= y
  BY DEF Min
<1> QED BY <1>1, <1>2

LEMMA BookedLines ==
    ASSUME TypeOK, NEW e \in Events
    PROVE  booked[e] \subseteq 1..2 /\ booked[e] \subseteq DOMAIN order[e]
<1>1. order[e] \in Orders /\ booked[e] \subseteq DOMAIN order[e]
  BY DEF TypeOK
<1>2. DOMAIN order[e] \in {1..1, 1..2}
  BY <1>1, OrderLines
<1>3. DOMAIN order[e] \subseteq 1..2
  <2>1. CASE DOMAIN order[e] = 1..1
    BY <2>1
  <2>2. CASE DOMAIN order[e] = 1..2
    BY <2>2
  <2> QED BY <1>2, <2>1, <2>2
<1> QED BY <1>1, <1>3

-----------------------------------------------------------------------------
\* The stock

StockOK == reserved \in [Items -> Nat] /\ NoOversell

LEMMA ReserveKeeps ==
    ASSUME StockOK, actual \in [Items -> Nat], actual' = actual, NEW l \in Lines,
           Reservable(l), reserve_inventory_item(l)
    PROVE  StockOK'
<1>1. l.item \in Items /\ l.cantidad \in Nat
  BY InventoryAssumption DEF Lines
<1>2. reserved' = [reserved EXCEPT ![l.item] = reserved[l.item] + l.cantidad]
  BY DEF reserve_inventory_item
<1>3. reserved[l.item] + l.cantidad <= actual[l.item]
  BY <1>1 DEF Reservable, StockOK
<1> QED BY <1>1, <1>2, <1>3 DEF StockOK, NoOversell

LEMMA ReleaseKeeps ==
    ASSUME StockOK, actual \in [Items -> Nat], actual' = actual, NEW l \in Lines,
           Releasable(l), release_inventory_item(l)
    PROVE  StockOK'
<1>1. l.item \in Items /\ l.cantidad \in Nat
  BY InventoryAssumption DEF Lines
<1>2. reserved' = [reserved EXCEPT ![l.item] = reserved[l.item] - l.cantidad]
  BY DEF release_inventory_item
<1>3. reserved[l.item] - l.cantidad \in Nat
  BY <1>1 DEF Releasable, StockOK
<1>4. reserved[l.item] - l.cantidad <= actual[l.item]
  BY <1>1 DEF StockOK, NoOversell
<1> QED BY <1>1, <1>2, <1>3, <1>4 DEF StockOK, NoOversell

-----------------------------------------------------------------------------

\* A line being freed is a booked one, so that it is a line of the order.
IInv == TypeOK /\ NoOversell
        /\ \A e \in Events : /\ at[e] # 0
                             /\ call[e] = "releasing" => at[e] \in DOMAIN order[e]

LEMMA InitIInv == Init => IInv
<1> SUFFICES ASSUME Init PROVE IInv
  OBVIOUS
<1>1. /\ actual \in [Items -> Nat] /\ reserved \in [Items -> Nat] /\ rows \subseteq Items
      /\ order \in [Events -> Orders]
  BY InventoryAssumption DEF Init
<1>2. /\ call \in [Events -> {"idle", "reserving", "reported", "raised", "releasing", "released"}]
      /\ at \in [Events -> Nat] /\ calls \in [Events -> Nat]
  BY DEF Init
<1>3. /\ booked \in [Events -> SUBSET Nat] /\ short \in [Events -> SUBSET Nat]
      /\ \A e \in Events : booked[e] \subseteq DOMAIN order[e]
  BY DEF Init
<1>4. faults \in 0..MaxFaults
  BY InventoryAssumption, SMT DEF Init
<1>5. unheard \in BOOLEAN
  BY Zenon DEF Init
<1>6. NoOversell
  BY <1>1 DEF Init, NoOversell
<1>7. \A e \in Events : at[e] # 0 /\ call[e] # "releasing"
  BY DEF Init
<1> QED BY <1>1, <1>2, <1>3, <1>4, <1>5, <1>6, <1>7 DEF IInv, TypeOK

LEMMA FaultType == ASSUME TypeOK, Fault PROVE faults' \in 0..MaxFaults
  BY InventoryAssumption DEF TypeOK, Fault

\* What a call changes of its own: where it is, at which line, and what it lists.
CallOK ==
    /\ call' \in [Events -> {"idle", "reserving", "reported", "raised", "releasing", "released"}]
    /\ at' \in [Events -> Nat]
    /\ booked' \in [Events -> SUBSET Nat] /\ short' \in [Events -> SUBSET Nat]
    /\ calls' \in [Events -> Nat]
    /\ \A e \in Events : /\ booked'[e] \subseteq DOMAIN order[e] /\ at'[e] # 0
                         /\ call'[e] = "releasing" => at'[e] \in DOMAIN order[e]

LEMMA Assemble ==
    ASSUME TypeOK, CallOK, StockOK', UNCHANGED <<rows, actual, order>>,
           faults' \in 0..MaxFaults, unheard' \in BOOLEAN
    PROVE  IInv'
  BY DEF TypeOK, CallOK, StockOK, IInv

LEMMA NextBookedType ==
    ASSUME IInv, NEW e \in Events, call[e] = "releasing", NextBooked(e)
    PROVE  /\ call' \in [Events -> {"idle", "reserving", "reported", "raised", "releasing", "released"}]
           /\ at' \in [Events -> Nat]
           /\ \A d \in Events : at'[d] # 0 /\ (call'[d] = "releasing" => at'[d] \in DOMAIN order[d])
<1> DEFINE later == {k \in booked[e] : k > at[e]}
<1>1. call \in [Events -> {"idle", "reserving", "reported", "raised", "releasing", "released"}]
      /\ at \in [Events -> Nat]
  BY DEF IInv, TypeOK
<1>2. CASE later = {}
  <2>1. call' = [call EXCEPT ![e] = "released"] /\ at' = at
    BY <1>2 DEF NextBooked
  <2> QED BY <1>1, <2>1 DEF IInv
<1>3. CASE later # {}
  <2>1. at' = [at EXCEPT ![e] = Min(later)] /\ call' = call
    BY <1>3 DEF NextBooked
  <2>2. later \subseteq 1..2 /\ later \subseteq DOMAIN order[e]
    BY BookedLines DEF IInv
  <2>3. Min(later) \in later
    BY <1>3, <2>2, MinIn
  <2> QED BY <1>1, <2>1, <2>2, <2>3 DEF IInv
<1> QED BY <1>2, <1>3

LEMMA NextIInv == IInv /\ [Next]_vars => IInv'
<1> SUFFICES ASSUME IInv, [Next]_vars PROVE IInv'
  OBVIOUS
<1>t. TypeOK /\ StockOK
  BY DEF IInv, StockOK, TypeOK
<1>a. actual \in [Items -> Nat] /\ faults \in 0..MaxFaults
  BY <1>t DEF TypeOK
<1>u. unheard \in BOOLEAN
  BY <1>t, Zenon DEF TypeOK
<1>1. ASSUME NEW e \in Events, Reserve(e) PROVE IInv'
  <2>1. call \in [Events -> {"idle", "reserving", "reported", "raised", "releasing", "released"}]
        /\ calls \in [Events -> Nat] /\ at \in [Events -> Nat]
        /\ booked \in [Events -> SUBSET Nat] /\ short \in [Events -> SUBSET Nat]
        /\ \A d \in Events : booked[d] \subseteq DOMAIN order[d]
    BY <1>t DEF TypeOK
  <2>3. /\ call' \in [Events -> {"idle", "reserving", "reported", "raised", "releasing", "released"}]
        /\ calls' \in [Events -> Nat] /\ at' \in [Events -> Nat]
        /\ booked' \in [Events -> SUBSET Nat] /\ short' \in [Events -> SUBSET Nat]
    BY <1>1, <2>1 DEF Reserve
  <2>4. \A d \in Events : booked'[d] \subseteq DOMAIN order[d]
    BY <1>1, <2>1 DEF Reserve
  <2>5. \A d \in Events : at'[d] # 0 /\ (call'[d] = "releasing" => at'[d] \in DOMAIN order[d])
    BY <1>1, <2>1 DEF Reserve, IInv
  <2>6. CallOK
    BY <2>3, <2>4, <2>5 DEF CallOK
  <2>2. StockOK' /\ UNCHANGED <<rows, actual, order, faults, unheard>>
    BY <1>1, <1>t DEF Reserve, StockOK, NoOversell
  <2> QED BY <2>2, <2>6, <1>t, <1>a, <1>u, Assemble
<1>2. ASSUME NEW e \in Events, ReserveLine(e) PROVE IInv'
  <2>1. at[e] \in DOMAIN order[e]
    BY <1>2, OrderLines DEF ReserveLine, IInv, TypeOK
  <2>a. call \in [Events -> {"idle", "reserving", "reported", "raised", "releasing", "released"}]
        /\ calls \in [Events -> Nat] /\ at \in [Events -> Nat]
        /\ booked \in [Events -> SUBSET Nat] /\ short \in [Events -> SUBSET Nat]
        /\ \A d \in Events : booked[d] \subseteq DOMAIN order[d]
    BY <1>t DEF TypeOK
  <2>b. /\ at' \in [Events -> Nat] /\ UNCHANGED <<call, calls>>
        /\ booked' = booked \/ booked' = [booked EXCEPT ![e] = booked[e] \union {at[e]}]
        /\ short' = short \/ short' = [short EXCEPT ![e] = short[e] \union {at[e]}]
    BY <1>2, <2>a DEF ReserveLine
  <2>c. booked' \in [Events -> SUBSET Nat] /\ short' \in [Events -> SUBSET Nat]
    BY <2>a, <2>b
  <2>d. \A d \in Events : booked'[d] \subseteq DOMAIN order[d]
    BY <2>1, <2>a, <2>b
  <2>e. \A d \in Events : at'[d] # 0 /\ (call'[d] = "releasing" => at'[d] \in DOMAIN order[d])
    BY <1>2, <2>a DEF ReserveLine, IInv
  <2>2. CallOK
    BY <2>a, <2>b, <2>c, <2>d, <2>e DEF CallOK
  <2>3. StockOK'
    <3>1. CASE Reservable(Line(e))
      BY <1>2, <2>1, <3>1, <1>t, <1>a, LineType, ReserveKeeps DEF ReserveLine
    <3>2. CASE ~Reservable(Line(e))
      BY <1>2, <3>2, <1>t DEF ReserveLine, StockOK, NoOversell
    <3> QED BY <3>1, <3>2
  <2>4. UNCHANGED <<rows, actual, order, faults, unheard>>
    BY <1>2 DEF ReserveLine
  <2> QED BY <2>2, <2>3, <2>4, <1>t, <1>a, <1>u, Assemble
<1>3. ASSUME NEW e \in Events, ReserveFails(e) PROVE IInv'
  <2>1. at[e] \in DOMAIN order[e]
    BY <1>3, OrderLines DEF ReserveFails, IInv, TypeOK
  <2>2. CallOK
    BY <1>3 DEF ReserveFails, CallOK, IInv, TypeOK
  <2>3. StockOK'
    <3>1. CASE Reservable(Line(e)) /\ reserve_inventory_item(Line(e))
      BY <1>3, <2>1, <3>1, <1>t, <1>a, LineType, ReserveKeeps DEF ReserveFails
    <3>2. CASE UNCHANGED reserved
      BY <1>3, <3>2, <1>t DEF ReserveFails, StockOK, NoOversell
    <3> QED BY <1>3, <3>1, <3>2 DEF ReserveFails
  <2>4. UNCHANGED <<rows, actual, order, unheard>> /\ faults' \in 0..MaxFaults
    BY <1>3, <1>t, FaultType DEF ReserveFails
  <2> QED BY <2>2, <2>3, <2>4, <1>t, <1>u, Assemble
<1>4. ASSUME NEW e \in Events, Report(e) PROVE IInv'
  <2>1. CallOK
    BY <1>4 DEF Report, CallOK, IInv, TypeOK
  <2>2. StockOK' /\ UNCHANGED <<rows, actual, order, faults, unheard>>
    BY <1>4, <1>t DEF Report, StockOK, NoOversell
  <2> QED BY <2>1, <2>2, <1>t, <1>a, <1>u, Assemble
<1>5. ASSUME NEW e \in Events, Release(e) PROVE IInv'
  <2>1. Min(booked[e]) \in booked[e]
    BY <1>5, <1>t, BookedLines, MinIn DEF Release
  <2>2. booked[e] \subseteq 1..2 /\ booked[e] \subseteq DOMAIN order[e]
    BY <1>t, BookedLines
  <2>3. CallOK
    BY <1>5, <2>1, <2>2 DEF Release, CallOK, IInv, TypeOK
  <2>4. StockOK' /\ UNCHANGED <<rows, actual, order, faults, unheard>>
    BY <1>5, <1>t DEF Release, StockOK, NoOversell
  <2> QED BY <2>3, <2>4, <1>t, <1>a, <1>u, Assemble
<1>6. ASSUME NEW e \in Events, ReleaseLine(e) PROVE IInv'
  <2>1. call[e] = "releasing" /\ at[e] \in DOMAIN order[e] /\ NextBooked(e)
    BY <1>6 DEF ReleaseLine, IInv
  <2>2. CallOK
    BY <1>6, <2>1, NextBookedType DEF ReleaseLine, CallOK, IInv, TypeOK
  <2>3. StockOK'
    <3>1. CASE Releasable(Line(e))
      BY <1>6, <2>1, <3>1, <1>t, <1>a, LineType, ReleaseKeeps DEF ReleaseLine
    <3>2. CASE ~Releasable(Line(e))
      BY <1>6, <3>2, <1>t DEF ReleaseLine, StockOK, NoOversell
    <3> QED BY <3>1, <3>2
  <2>4. UNCHANGED <<rows, actual, order, faults, unheard>>
    BY <1>6 DEF ReleaseLine
  <2> QED BY <2>2, <2>3, <2>4, <1>t, <1>a, <1>u, Assemble
<1>7. ASSUME NEW e \in Events, ReleaseFails(e) PROVE IInv'
  <2>1. call[e] = "releasing" /\ at[e] \in DOMAIN order[e] /\ NextBooked(e)
    BY <1>7 DEF ReleaseFails, IInv
  <2>2. CallOK
    BY <1>7, <2>1, NextBookedType DEF ReleaseFails, CallOK, IInv, TypeOK
  <2>3. StockOK'
    <3>1. CASE Releasable(Line(e)) /\ release_inventory_item(Line(e))
      BY <1>7, <2>1, <3>1, <1>t, <1>a, LineType, ReleaseKeeps DEF ReleaseFails
    <3>2. CASE UNCHANGED reserved
      BY <1>7, <3>2, <1>t DEF ReleaseFails, StockOK, NoOversell
    <3> QED BY <1>7, <3>1, <3>2 DEF ReleaseFails
  <2>4. UNCHANGED <<rows, actual, order>> /\ faults' \in 0..MaxFaults
    BY <1>7, <1>t, FaultType DEF ReleaseFails
  <2>5. unheard' \in BOOLEAN
    BY <1>7, <1>u, Zenon DEF ReleaseFails
  <2> QED BY <2>2, <2>3, <2>4, <2>5, <1>t, Assemble
<1>8. CASE UNCHANGED vars
  BY <1>8 DEF vars, IInv, TypeOK, NoOversell
<1> QED BY <1>1, <1>2, <1>3, <1>4, <1>5, <1>6, <1>7, <1>8 DEF Next, Reserving, Releasing

LEMMA Invariance == Spec => []IInv
  BY InitIInv, NextIInv, PTL DEF Spec

\* Inventory: the variables keep their types; what a report lists are lines of its
\* order.
THEOREM TypeCorrect == Spec => []TypeOK
<1>1. IInv => TypeOK
  BY DEF IInv
<1> QED BY <1>1, Invariance, PTL

\* reserve_inventory_item and release_inventory_item: whatever calls interleave or
\* fail, no item is reserved beyond its stock.
THEOREM NeverOversold == Spec => []NoOversell
<1>1. IInv => NoOversell
  BY DEF IInv
<1> QED BY <1>1, Invariance, PTL

-----------------------------------------------------------------------------
(* What the reports list.                                                  *)

LEMMA UnitsFinite ==
    ASSUME NEW b, NEW i
    PROVE  IsFiniteSet(Units(b, i)) /\ Cardinality(Units(b, i)) \in Nat
<1>1. IsFiniteSet((Events \X (1..2)) \X (1..MaxCantidad))
  <2>1. IsFiniteSet(Events) /\ MaxCantidad \in Int
    BY InventoryAssumption
  <2>2. IsFiniteSet(1..2) /\ IsFiniteSet(1..MaxCantidad)
    <3>1. 1 \in Int /\ 2 \in Int /\ MaxCantidad \in Int
      BY <2>1
    <3> QED BY <3>1, FS_Interval
  <2>3. IsFiniteSet(Events \X (1..2))
    BY <2>1, <2>2, FS_Product
  <2> QED BY <2>2, <2>3, FS_Product
<1>2. Units(b, i) \subseteq (Events \X (1..2)) \X (1..MaxCantidad)
  BY DEF Units
<1> QED BY <1>1, <1>2, FS_Subset, FS_CardinalityType

\* Fewer lines, fewer units.
LEMMA FewerUnits ==
    ASSUME NEW a, NEW b, \A e \in Events : a[e] \subseteq b[e], NEW i
    PROVE  Cardinality(Units(a, i)) <= Cardinality(Units(b, i))
<1>1. Units(a, i) \subseteq Units(b, i)
  BY DEF Units
<1> QED BY <1>1, UnitsFinite, FS_Subset

\* How many of item i a line says.
Quantity(e, k, i) == IF order[e][k].item = i THEN order[e][k].cantidad ELSE 0

\* A line more is as many units more as it says.
LEMMA LineUnits ==
    ASSUME TypeOK, NEW b \in [Events -> SUBSET Nat], NEW e \in Events,
           NEW k \in DOMAIN order[e], k \notin b[e], NEW i,
           NEW b1, b1[e] = b[e] \union {k}, \A d \in Events : d # e => b1[d] = b[d]
    PROVE  Cardinality(Units(b1, i)) = Cardinality(Units(b, i)) + Quantity(e, k, i)
<1> DEFINE c == order[e][k].cantidad
           line == {<<e, k>>} \X (1..c)
<1>1. k \in 1..2 /\ c \in 1..MaxCantidad
  <2>1. order[e] \in Orders
    BY DEF TypeOK
  <2>2. DOMAIN order[e] \in {1..1, 1..2} /\ order[e][k] \in Lines
    BY <2>1, OrderLines
  <2>3. k \in 1..2
    <3>1. CASE DOMAIN order[e] = 1..1
      BY <3>1
    <3>2. CASE DOMAIN order[e] = 1..2
      BY <3>2
    <3> QED BY <2>2, <3>1, <3>2
  <2> QED BY <2>2, <2>3 DEF Lines
<1>2. /\ b1[e] = b[e] \union {k}
      /\ \A d \in Events : d # e => b1[d] = b[d]
  OBVIOUS
<1>c. c \in Nat /\ MaxCantidad \in Nat
  BY <1>1, InventoryAssumption
<1>3. CASE order[e][k].item # i
  <2>1. Units(b1, i) = Units(b, i)
    BY <1>2, <1>3 DEF Units
  <2> QED BY <1>3, <2>1, UnitsFinite DEF Quantity
<1>4. CASE order[e][k].item = i
  <2>1. \A n \in 1..c : n \in 1..MaxCantidad /\ n <= c
    BY <1>1, <1>c
  <2>2. \A n \in 1..MaxCantidad : n <= c => n \in 1..c
    BY <1>c
  <2> DEFINE all == (Events \X (1..2)) \X (1..MaxCantidad)
             In(a, u) == /\ u[1][2] \in a[u[1][1]]
                         /\ order[u[1][1]][u[1][2]].item = i
                         /\ u[2] <= order[u[1][1]][u[1][2]].cantidad
  <2>3. Units(b, i) = {u \in all : In(b, u)} /\ Units(b1, i) = {u \in all : In(b1, u)}
    BY DEF Units
  <2>4. \A d \in Events, j \in 1..2, n \in 1..MaxCantidad :
           In(b1, <<<<d, j>>, n>>) <=> \/ In(b, <<<<d, j>>, n>>)
                                       \/ d = e /\ j = k /\ n <= c
    <3> SUFFICES ASSUME NEW d \in Events, NEW j \in 1..2, NEW n \in 1..MaxCantidad
                 PROVE  In(b1, <<<<d, j>>, n>>) <=> \/ In(b, <<<<d, j>>, n>>)
                                                    \/ d = e /\ j = k /\ n <= c
      OBVIOUS
    <3>1. CASE d = e /\ j = k
      BY <3>1, <1>2, <1>4
    <3>2. CASE d = e /\ j # k
      BY <3>2, <1>2
    <3>3. CASE d # e
      BY <3>3, <1>2
    <3> QED BY <3>1, <3>2, <3>3
  <2>5. \A n \in 1..MaxCantidad : ~In(b, <<<<e, k>>, n>>)
    OBVIOUS
  <2>6. line \subseteq all
    BY <1>1, <2>1
  <2> HIDE DEF In
  <2>7. {u \in all : In(b1, u)} = {u \in all : In(b, u)} \union line
    <3>1. ASSUME NEW u \in all PROVE In(b1, u) <=> In(b, u) \/ u \in line
      <4>1. PICK d \in Events, j \in 1..2, n \in 1..MaxCantidad : u = <<<<d, j>>, n>>
        OBVIOUS
      <4>2. u \in line <=> d = e /\ j = k /\ n <= c
        BY <4>1, <2>1, <2>2
      <4> QED BY <4>1, <4>2, <2>4
    <3> HIDE DEF all, line
    <3> QED BY <3>1, <2>6
  <2>8. {u \in all : In(b, u)} \intersect line = {}
    <3>1. ASSUME NEW u \in line PROVE ~In(b, u)
      <4>1. PICK n \in 1..c : u = <<<<e, k>>, n>>
        OBVIOUS
      <4> QED BY <4>1, <2>1, <2>5
    <3> HIDE DEF all, line
    <3> QED BY <3>1
  <2>9. IsFiniteSet(line) /\ Cardinality(line) = c
    <3>1. IsFiniteSet({<<e, k>>}) /\ Cardinality({<<e, k>>}) = 1
      BY FS_Singleton
    <3>2. IsFiniteSet(1..c) /\ Cardinality(1..c) = c
      <4>1. 1 \in Int /\ c \in Int /\ (IF 1 > c THEN 0 ELSE c - 1 + 1) = c
        BY <1>1, <1>c
      <4> HIDE DEF c
      <4> QED BY <4>1, FS_Interval
    <3>3. 1 * c = c
      BY <1>c
    <3>4. IsFiniteSet(line) /\ Cardinality(line) = Cardinality({<<e, k>>}) * Cardinality(1..c)
      <4> DEFINE one == {<<e, k>>}
                 some == 1..c
      <4>1. IsFiniteSet(one) /\ IsFiniteSet(some) /\ line = one \X some
        BY <3>1, <3>2
      <4> HIDE DEF one, some, line
      <4>2. IsFiniteSet(line) /\ Cardinality(line) = Cardinality(one) * Cardinality(some)
        BY <4>1, FS_Product
      <4> QED BY <4>2 DEF one, some
    <3> HIDE DEF c, line
    <3> QED BY <3>1, <3>2, <3>3, <3>4
  <2> HIDE DEF all, line
  <2>10. Units(b1, i) = Units(b, i) \union line /\ Units(b, i) \intersect line = {}
    BY <2>3, <2>7, <2>8
  <2>11. Cardinality(Units(b1, i)) = Cardinality(Units(b, i)) + c
    <3> DEFINE old == Units(b, i)
    <3>1. IsFiniteSet(old) /\ Cardinality(old) \in Nat
      BY UnitsFinite
    <3>2. Units(b1, i) = old \union line /\ old \intersect line = {}
      BY <2>10
    <3> HIDE DEF old, c
    <3>3. Cardinality(old \union line) =
             Cardinality(old) + Cardinality(line) - Cardinality(old \intersect line)
      BY <3>1, <2>9, FS_Union
    <3>4. Cardinality(old \intersect line) = 0
      BY <3>2, FS_EmptySet
    <3>5. Cardinality(old \union line) = Cardinality(old) + c
      BY <3>1, <3>3, <3>4, <2>9, <1>c
    <3> QED BY <3>2, <3>5 DEF old
  <2> QED BY <2>11, <1>4 DEF Quantity
<1> QED BY <1>3, <1>4

-----------------------------------------------------------------------------

\* Where a call is says which lines it lists: none before it begins; while it reserves,
\* some of those before the one it is at; while it frees, that one.  What is listed has
\* a row.  Only a failed request ends a call without a report.
BookInv ==
    \A e \in Events :
        /\ \A k \in booked[e] : order[e][k].item \in rows
        /\ call[e] = "idle" => booked[e] = {}
        /\ call[e] = "raised" => faults # 0
        /\ call[e] = "reserving" => \A k \in booked[e] : k < at[e]
        /\ call[e] = "releasing" => at[e] \in booked[e]

\* A line is reserved and listed.
LEMMA LineListed ==
    ASSUME TypeOK, TypeOK', UNCHANGED order, NEW e \in Events, at[e] \in DOMAIN order[e],
           at[e] \notin booked[e], reserve_inventory_item(Line(e)),
           booked'[e] = booked[e] \union {at[e]},
           \A d \in Events : d # e => booked'[d] = booked[d], NEW i \in Items
    PROVE  /\ Held(i)' - Held(i) = reserved'[i] - reserved[i]
           /\ Held(i) \in Nat /\ Held(i)' \in Nat
<1> DEFINE c == Quantity(e, at[e], i)
<1>1. Line(e).item \in Items /\ Line(e).cantidad \in Nat
  BY LineType
<1>2. reserved \in [Items -> Nat] /\ booked \in [Events -> SUBSET Nat]
  BY DEF TypeOK
<1>3. reserved'[i] = reserved[i] + c
  BY <1>1, <1>2 DEF reserve_inventory_item, Quantity, Line
<1>4. Cardinality(Units(booked', i)) = Cardinality(Units(booked, i)) + c
  BY <1>2, LineUnits
<1>5. Units(booked', i) = Units(booked, i)'
  BY DEF Units
<1>6. Held(i) \in Nat /\ Held(i)' \in Nat /\ Held(i)' = Held(i) + c
  <2>1. Held(i) = Cardinality(Units(booked, i)) /\ Held(i)' = Cardinality(Units(booked', i))
    BY <1>5 DEF Held
  <2> QED BY <2>1, <1>4, UnitsFinite
<1>7. c \in Nat /\ reserved[i] \in Nat
  BY <1>1, <1>2 DEF Quantity, Line
<1> QED BY <1>3, <1>6, <1>7

\* A line is freed and listed no more.
LEMMA LineFreed ==
    ASSUME TypeOK, TypeOK', UNCHANGED order, NEW e \in Events, at[e] \in DOMAIN order[e],
           at[e] \notin booked'[e], release_inventory_item(Line(e)),
           booked[e] = booked'[e] \union {at[e]},
           \A d \in Events : d # e => booked[d] = booked'[d], NEW i \in Items
    PROVE  /\ Held(i)' - Held(i) = reserved'[i] - reserved[i]
           /\ Held(i) \in Nat /\ Held(i)' \in Nat
<1> DEFINE c == Quantity(e, at[e], i)
<1>1. Line(e).item \in Items /\ Line(e).cantidad \in Nat
  BY LineType
<1>2. /\ reserved \in [Items -> Nat] /\ booked \in [Events -> SUBSET Nat]
      /\ booked' \in [Events -> SUBSET Nat]
  BY DEF TypeOK
<1>3. reserved'[i] = reserved[i] - c
  BY <1>1, <1>2 DEF release_inventory_item, Quantity, Line
<1>5. Units(booked', i) = Units(booked, i)'
  BY DEF Units
<1>6. Cardinality(Units(booked, i)) = Cardinality(Units(booked', i)) + c
  BY <1>2, LineUnits
<1>7. Held(i) \in Nat /\ Held(i)' \in Nat /\ Held(i) = Held(i)' + c
  <2>1. Held(i) = Cardinality(Units(booked, i)) /\ Held(i)' = Cardinality(Units(booked', i))
    BY <1>5 DEF Held
  <2> QED BY <2>1, <1>6, UnitsFinite
<1>8. c \in Nat /\ reserved[i] \in Nat
  BY <1>1, <1>2 DEF Quantity, Line
<1> QED BY <1>3, <1>7, <1>8

\* The lines of a call that has said nothing, or that fails, are no longer listed.
LEMMA NoneListed ==
    ASSUME TypeOK, UNCHANGED order, NEW e \in Events, booked' = [booked EXCEPT ![e] = {}],
           NEW i \in Items
    PROVE  Held(i)' <= Held(i) /\ (booked[e] = {} => Held(i)' = Held(i))
<1>1. booked \in [Events -> SUBSET Nat]
  BY DEF TypeOK
<1>2. \A d \in Events : booked'[d] \subseteq booked[d]
  BY <1>1
<1> DEFINE after == booked'
<1>3. \A d \in Events : after[d] \subseteq booked[d]
  BY <1>2
<1>4. booked[e] = {} => after = booked
  BY <1>1
<1>5. Held(i) = Cardinality(Units(booked, i)) /\ Held(i)' = Cardinality(Units(after, i))
  BY DEF Held, Units
<1> HIDE DEF after
<1>6. Cardinality(Units(after, i)) <= Cardinality(Units(booked, i))
  BY <1>3, FewerUnits
<1> QED BY <1>4, <1>5, <1>6

\* What a step that leaves order and rows alone must show: where the calls are, and
\* that neither count falls behind the other.
Accounts(e) ==
    /\ \A k \in booked'[e] : order[e][k].item \in rows
    /\ call'[e] = "idle" => booked'[e] = {}
    /\ call'[e] = "raised" => faults' # 0
    /\ call'[e] = "reserving" => \A k \in booked'[e] : k < at'[e]
    /\ call'[e] = "releasing" => at'[e] \in booked'[e]

LEMMA BookKept ==
    ASSUME BookInv, UNCHANGED <<rows, order>>, faults # 0 => faults' # 0,
           NEW e \in Events, Accounts(e),
           \A d \in Events \ {e} : UNCHANGED <<call[d], at[d], booked[d]>>
    PROVE  BookInv'
<1>1. ASSUME NEW d \in Events, d # e PROVE Accounts(d)
  BY <1>1 DEF BookInv, Accounts
<1> QED BY <1>1 DEF BookInv, Accounts

LEMMA NextBook == IInv /\ BookInv /\ [Next]_vars => BookInv'
<1> SUFFICES ASSUME IInv, BookInv, [Next]_vars PROVE BookInv'
  OBVIOUS
<1>t. /\ call \in [Events -> {"idle", "reserving", "reported", "raised", "releasing", "released"}]
      /\ at \in [Events -> Nat] /\ booked \in [Events -> SUBSET Nat] /\ faults \in Nat
      /\ TypeOK
  BY InventoryAssumption DEF IInv, TypeOK
<1>f. Fault => faults' # 0
  BY <1>t DEF Fault
<1>1. ASSUME NEW e \in Events, Reserve(e) PROVE BookInv'
  <2>1. Accounts(e) /\ \A d \in Events \ {e} : UNCHANGED <<call[d], at[d], booked[d]>>
    BY <1>1, <1>t DEF Reserve, Accounts
  <2> QED BY <1>1, <2>1, BookKept DEF Reserve
<1>2. ASSUME NEW e \in Events, ReserveLine(e) PROVE BookInv'
  <2>1. /\ \A d \in Events \ {e} : UNCHANGED <<call[d], at[d], booked[d]>>
        /\ call' = call /\ call[e] = "reserving" /\ at'[e] = at[e] + 1
        /\ booked'[e] \subseteq booked[e] \union {at[e]}
        /\ at[e] \in booked'[e] => at[e] \in booked[e] \/ Line(e).item \in rows
    BY <1>2, <1>t DEF ReserveLine, Reservable
  <2>2. \A k \in booked[e] : k \in Nat /\ k < at[e]
    BY <1>t, <2>1 DEF BookInv
  <2>3. \A k \in booked'[e] : k < at'[e]
    BY <1>t, <2>1, <2>2
  <2>4. \A k \in booked'[e] : order[e][k].item \in rows
    BY <2>1 DEF BookInv, Line
  <2>5. Accounts(e)
    BY <2>1, <2>3, <2>4 DEF Accounts
  <2> QED BY <1>2, <2>1, <2>5, BookKept DEF ReserveLine
<1>3. ASSUME NEW e \in Events, ReserveFails(e) PROVE BookInv'
  <2>1. Accounts(e) /\ \A d \in Events \ {e} : UNCHANGED <<call[d], at[d], booked[d]>>
    BY <1>3, <1>t, <1>f DEF ReserveFails, Accounts
  <2> QED BY <1>3, <1>f, <2>1, BookKept DEF ReserveFails
<1>4. ASSUME NEW e \in Events, Report(e) PROVE BookInv'
  <2>1. Accounts(e) /\ \A d \in Events \ {e} : UNCHANGED <<call[d], at[d], booked[d]>>
    BY <1>4, <1>t DEF Report, Accounts, BookInv
  <2> QED BY <1>4, <2>1, BookKept DEF Report
<1>5. ASSUME NEW e \in Events, Release(e) PROVE BookInv'
  <2>1. Min(booked[e]) \in booked[e]
    BY <1>5, <1>t, BookedLines, MinIn DEF Release
  <2>2. Accounts(e) /\ \A d \in Events \ {e} : UNCHANGED <<call[d], at[d], booked[d]>>
    BY <1>5, <1>t, <2>1 DEF Release, Accounts, BookInv
  <2> QED BY <1>5, <2>2, BookKept DEF Release
<1>6. ASSUME NEW e \in Events, ReleaseLine(e) \/ ReleaseFails(e) PROVE BookInv'
  <2> DEFINE later == {k \in booked[e] : k > at[e]}
  <2>1. call[e] = "releasing" /\ NextBooked(e) /\ UNCHANGED <<rows, order>>
        /\ (faults # 0 => faults' # 0)
    BY <1>6, <1>f DEF ReleaseLine, ReleaseFails
  <2>2. /\ booked'[e] \subseteq booked[e] /\ later \subseteq booked'[e]
        /\ \A d \in Events \ {e} : booked'[d] = booked[d]
    BY <1>6, <1>t DEF ReleaseLine, ReleaseFails
  <2>3. \A k \in booked'[e] : order[e][k].item \in rows
    BY <2>2 DEF BookInv
  <2>4. CASE later = {}
    <3>1. call' = [call EXCEPT ![e] = "released"] /\ at' = at
      BY <2>1, <2>4 DEF NextBooked
    <3>2. Accounts(e) /\ \A d \in Events \ {e} : UNCHANGED <<call[d], at[d], booked[d]>>
      BY <3>1, <2>2, <2>3, <1>t DEF Accounts
    <3> QED BY <3>2, <2>1, BookKept
  <2>5. CASE later # {}
    <3>1. call' = call /\ at' = [at EXCEPT ![e] = Min(later)]
      BY <2>1, <2>5 DEF NextBooked
    <3>2. Min(later) \in later
      BY <2>5, <1>t, BookedLines, MinIn
    <3>3. Accounts(e) /\ \A d \in Events \ {e} : UNCHANGED <<call[d], at[d], booked[d]>>
      BY <3>1, <3>2, <2>1, <2>2, <2>3, <1>t DEF Accounts
    <3> QED BY <3>3, <2>1, BookKept
  <2> QED BY <2>4, <2>5
<1>7. CASE UNCHANGED vars
  BY <1>7 DEF vars, BookInv
<1> QED BY <1>1, <1>2, <1>3, <1>4, <1>5, <1>6, <1>7 DEF Next, Reserving, Releasing

\* The counts of the reports and of the table, between two states.
LEMMA NextHeld ==
    IInv /\ IInv' /\ BookInv /\ Backed /\ ReportsExact /\ [Next]_vars => Backed' /\ ReportsExact'
<1> SUFFICES ASSUME IInv, IInv', BookInv, Backed, ReportsExact, [Next]_vars
             PROVE  Backed' /\ ReportsExact'
  OBVIOUS
<1>t. /\ TypeOK /\ TypeOK' /\ faults \in Nat /\ unheard \in BOOLEAN
      /\ booked \in [Events -> SUBSET Nat] /\ booked' \in [Events -> SUBSET Nat]
      /\ at \in [Events -> Nat] /\ reserved \in [Items -> Nat] /\ reserved' \in [Items -> Nat]
  BY InventoryAssumption DEF IInv, TypeOK
<1>n. \A i \in Items : Held(i) \in Nat /\ Held(i)' \in Nat
  <2>1. UNCHANGED order
    BY DEF Next, Reserving, Releasing, Reserve, ReserveLine, ReserveFails, Report,
           Release, ReleaseLine, ReleaseFails, vars
  <2>2. \A i : Held(i) = Cardinality(Units(booked, i)) /\ Held(i)' = Cardinality(Units(booked', i))
    BY <2>1 DEF Held, Units
  <2> QED BY <2>2, UnitsFinite
<1>f. Fault => faults' # 0
  BY <1>t DEF Fault
<1>1. ASSUME NEW e \in Events, Reserve(e) PROVE Backed' /\ ReportsExact'
  <2>1. \A i \in Items : Held(i)' <= Held(i) /\ (booked[e] = {} => Held(i)' = Held(i))
    BY <1>1, <1>t, NoneListed DEF Reserve
  <2>2. faults = 0 => booked[e] = {}
    BY <1>1 DEF Reserve, BookInv
  <2>3. UNCHANGED <<reserved, faults, unheard>>
    BY <1>1 DEF Reserve
  <2>4. Backed'
    BY <2>1, <2>3, <1>n, <1>t DEF Backed
  <2>5. ReportsExact'
    BY <2>1, <2>2, <2>3 DEF ReportsExact
  <2> QED BY <2>4, <2>5
<1>2. ASSUME NEW e \in Events, ReserveLine(e) PROVE Backed' /\ ReportsExact'
  <2>0. UNCHANGED <<order, faults, unheard>>
    BY <1>2 DEF ReserveLine
  <2>1. CASE Reservable(Line(e))
    <3>1. at[e] \in DOMAIN order[e]
      BY <1>2, OrderLines DEF ReserveLine, IInv, TypeOK
    <3>2. at[e] \notin booked[e]
      BY <1>2, <1>t DEF ReserveLine, BookInv
    <3>3. /\ booked'[e] = booked[e] \union {at[e]} /\ \A d \in Events : d # e => booked'[d] = booked[d]
          /\ reserve_inventory_item(Line(e))
      BY <1>2, <2>1, <1>t DEF ReserveLine
    <3>4. \A i \in Items : Held(i)' - Held(i) = reserved'[i] - reserved[i]
      BY <3>1, <3>2, <3>3, <2>0, <1>t, LineListed
    <3>5. Backed'
      BY <3>4, <2>0, <1>n, <1>t DEF Backed
    <3>6. ReportsExact'
      BY <3>4, <2>0, <1>n, <1>t DEF ReportsExact
    <3> QED BY <3>5, <3>6
  <2>2. CASE ~Reservable(Line(e))
    <3>1. UNCHANGED <<reserved, booked>>
      BY <1>2, <2>2 DEF ReserveLine
    <3> QED BY <3>1, <2>0 DEF Backed, ReportsExact, Held, Units
  <2> QED BY <2>1, <2>2
<1>3. ASSUME NEW e \in Events, ReserveFails(e) PROVE Backed' /\ ReportsExact'
  <2>1. \A i \in Items : Held(i)' <= Held(i)
    BY <1>3, <1>t, NoneListed DEF ReserveFails
  <2>2. at[e] \in DOMAIN order[e]
    BY <1>3, OrderLines DEF ReserveFails, IInv, TypeOK
  <2>3. \A i \in Items : reserved[i] <= reserved'[i]
    <3>1. CASE reserve_inventory_item(Line(e))
      <4>1. Line(e).item \in Items /\ Line(e).cantidad \in Nat
        BY <2>2, <1>t, LineType
      <4> QED BY <3>1, <4>1, <1>t DEF reserve_inventory_item
    <3>2. CASE UNCHANGED reserved
      BY <3>2, <1>t
    <3> QED BY <1>3, <3>1, <3>2 DEF ReserveFails
  <2>4. faults' # 0 /\ unheard' = unheard
    BY <1>3, <1>f DEF ReserveFails
  <2>5. Backed'
    BY <2>1, <2>3, <2>4, <1>n, <1>t DEF Backed
  <2> QED BY <2>4, <2>5 DEF ReportsExact
<1>4. ASSUME NEW e \in Events, Report(e) \/ Release(e) PROVE Backed' /\ ReportsExact'
  <2>1. UNCHANGED <<order, booked, reserved, faults, unheard>>
    BY <1>4 DEF Report, Release
  <2> QED BY <2>1 DEF Backed, ReportsExact, Held, Units
<1>5. ASSUME NEW e \in Events, ReleaseLine(e) PROVE Backed' /\ ReportsExact'
  <2>1. /\ at[e] \in booked[e] /\ at[e] \in DOMAIN order[e] /\ Line(e).item \in rows
        /\ UNCHANGED <<order, faults, unheard>>
    BY <1>5 DEF ReleaseLine, BookInv, IInv, Line
  <2>2. /\ booked'[e] = booked[e] \ {at[e]}
        /\ \A d \in Events : d # e => booked'[d] = booked[d]
    BY <1>5, <1>t DEF ReleaseLine
  <2>3. CASE Releasable(Line(e))
    <3>1. /\ at[e] \notin booked'[e] /\ booked[e] = booked'[e] \union {at[e]}
          /\ \A d \in Events : d # e => booked[d] = booked'[d]
          /\ release_inventory_item(Line(e))
      BY <1>5, <2>1, <2>2, <2>3 DEF ReleaseLine
    <3>2. \A i \in Items : Held(i)' - Held(i) = reserved'[i] - reserved[i]
      BY <3>1, <2>1, <1>t, LineFreed
    <3>3. Backed'
      BY <3>2, <2>1, <1>n, <1>t DEF Backed
    <3>4. ReportsExact'
      <4>1. ASSUME NEW i \in Items, reserved[i] = Held(i) PROVE reserved'[i] = Held(i)'
        BY <4>1, <3>2, <1>n, <1>t
      <4> QED BY <4>1, <2>1 DEF ReportsExact
    <3> QED BY <3>3, <3>4
  <2>4. CASE ~Releasable(Line(e))
    <3>1. UNCHANGED reserved
      BY <1>5, <2>4 DEF ReleaseLine
    <3>2. \A i \in Items : Held(i)' <= Held(i)
      <4>1. \A d \in Events : booked'[d] \subseteq booked[d]
        BY <2>2
      <4> DEFINE after == booked'
      <4>2. \A d \in Events : after[d] \subseteq booked[d]
        BY <4>1
      <4>3. \A i : Held(i) = Cardinality(Units(booked, i)) /\ Held(i)' = Cardinality(Units(after, i))
        BY <2>1 DEF Held, Units
      <4> HIDE DEF after
      <4> QED BY <4>2, <4>3, FewerUnits
    <3>3. faults # 0
      <4>1. reserved[Line(e).item] < Line(e).cantidad /\ Line(e).item \in Items
        <5>1. Line(e).item \in Items /\ Line(e).cantidad \in Nat
          BY <2>1, <1>t, LineType
        <5> QED BY <5>1, <2>1, <2>4, <1>t DEF Releasable
      <4>2. Line(e).cantidad <= Held(Line(e).item)
        <5> DEFINE before == [booked EXCEPT ![e] = @ \ {at[e]}]
                   i == Line(e).item
        <5>1. /\ before \in [Events -> SUBSET Nat] /\ at[e] \notin before[e]
              /\ booked[e] = before[e] \union {at[e]}
              /\ \A d \in Events : d # e => booked[d] = before[d]
          BY <2>1, <1>t
        <5> HIDE DEF before, i
        <5>2. Cardinality(Units(booked, i)) = Cardinality(Units(before, i)) + Quantity(e, at[e], i)
          BY <5>1, <2>1, <1>t, LineUnits
        <5>3. Quantity(e, at[e], i) = Line(e).cantidad /\ Line(e).cantidad \in Nat
          BY <2>1, <1>t, LineType DEF Quantity, Line, i
        <5>4. Cardinality(Units(before, i)) \in Nat
          BY UnitsFinite
        <5> QED BY <5>2, <5>3, <5>4 DEF Held, i
      <4>3. Line(e).cantidad \in Nat
        BY <2>1, <1>t, LineType
      <4> QED BY <4>1, <4>2, <4>3, <1>n, <1>t DEF ReportsExact
    <3>4. Backed'
      BY <3>1, <3>2, <2>1, <1>n, <1>t DEF Backed
    <3> QED BY <3>3, <3>4, <2>1 DEF ReportsExact
  <2> QED BY <2>3, <2>4
<1>6. ASSUME NEW e \in Events, ReleaseFails(e) PROVE Backed' /\ ReportsExact'
  <2>1. faults' # 0 /\ UNCHANGED <<order, booked>>
    BY <1>6, <1>f DEF ReleaseFails
  <2>2. unheard' \/ UNCHANGED <<reserved, unheard>>
    BY <1>6 DEF ReleaseFails
  <2>3. Backed'
    BY <2>1, <2>2 DEF Backed, Held, Units
  <2> QED BY <2>1, <2>3 DEF ReportsExact
<1>7. CASE UNCHANGED vars
  BY <1>7 DEF vars, Backed, ReportsExact, Held, Units
<1> QED BY <1>1, <1>2, <1>3, <1>4, <1>5, <1>6, <1>7 DEF Next, Reserving, Releasing

LEMMA HeldCorrect == Spec => [](Backed /\ ReportsExact)
<1>1. Init => BookInv /\ Backed /\ ReportsExact
  <2> SUFFICES ASSUME Init PROVE BookInv /\ Backed /\ ReportsExact
    OBVIOUS
  <2>1. \A e \in Events : booked[e] = {} /\ call[e] = "idle"
    BY DEF Init
  <2>2. \A i \in Items : Units(booked, i) = {} /\ reserved[i] = 0
    BY <2>1 DEF Units, Init
  <2>3. \A i \in Items : Held(i) = 0
    BY <2>2, FS_EmptySet DEF Held
  <2> QED BY <2>1, <2>2, <2>3 DEF BookInv, Backed, ReportsExact
<1> QED BY <1>1, Invariance, NextBook, NextHeld, PTL DEF Spec

\* ReservarStockTool and LiberarStockTool: while no request fails, what the reports list
\* is exactly what the table holds reserved, for any number of events that interleave.
THEOREM ReportsTrue == Spec => []ReportsExact
  BY HeldCorrect, PTL

\* What the reports list is reserved, whatever fails, unless the answer to a release was
\* lost; for any number of events, items and failed requests.
THEOREM ReportsBacked == Spec => []Backed
  BY HeldCorrect, PTL

-----------------------------------------------------------------------------
(* Staffing.                                                               *)

\* A team is chosen among the bartenders it is given.
LEMMA TeamsSubset ==
    ASSUME NEW c \in Crews, NEW S, NEW T \in Teams(c, S)
    PROVE  T \subseteq S
<1> DEFINE heads == IF pax[c] > HeadPax THEN S \intersect head ELSE {}
<1>1. ASSUME NEW m, NEW R, NEW n, NEW P \in Prefixes(m, R, n)
      PROVE  P \subseteq R
  BY <1>1 DEF Prefixes
<1>2. CASE heads = {}
  <2>1. T \in Prefixes(menu[c], S, Needed(pax[c]))
    BY <1>2 DEF Teams
  <2> QED BY <2>1, <1>1
<1>3. CASE heads # {}
  <2>1. PICK h \in Firsts(menu[c], heads) :
           T \in {{h} \union P : P \in Prefixes(menu[c], S \ {h}, Needed(pax[c]) - 1)}
    BY <1>3, Zenon DEF Teams
  <2>2. PICK P \in Prefixes(menu[c], S \ {h}, Needed(pax[c]) - 1) : T = {h} \union P
    BY <2>1
  <2>3. h \in S
    BY <2>1 DEF Firsts
  <2>4. P \subseteq S \ {h}
    BY <2>2, <1>1
  <2> QED BY <2>2, <2>3, <2>4
<1> QED BY <1>2, <1>3

-----------------------------------------------------------------------------

\* Staffing: the variables keep their types, and only a crew that is marking or has
\* given up has bartenders left to mark.
THEOREM StaffTypeCorrect == StaffSpec => []StaffTypeOK
<1>1. StaffInit => StaffTypeOK
  <2> SUFFICES ASSUME StaffInit PROVE StaffTypeOK
    OBVIOUS
  <2>1. pc \in [Crews -> {"idle", "marking", "created", "raised"}]
    BY DEF StaffInit
  <2>2. team \in [Crews -> SUBSET Bartenders] /\ left \in [Crews -> SUBSET Bartenders]
    BY DEF StaffInit
  <2>3. /\ \A c \in Crews : left[c] \subseteq team[c]
        /\ \A c \in Crews : pc[c] \in {"idle", "created"} => left[c] = {}
    BY DEF StaffInit
  <2>4. staffFaults \in 0..MaxStaffFaults
    BY StaffingAssumption, SMT DEF StaffInit
  <2>7. overlapped \in BOOLEAN
    BY Zenon DEF StaffInit
  <2>5. premium \subseteq Bartenders /\ head \subseteq Bartenders /\ disponible \subseteq Bartenders
    BY DEF StaffInit
  <2>6. /\ rating \in [Bartenders -> Ratings]
        /\ pax \in [Crews -> Guests] /\ menu \in [Crews -> {"premium", "other"}]
    BY DEF StaffInit
  <2> QED BY <2>1, <2>2, <2>3, <2>4, <2>5, <2>6, <2>7 DEF StaffTypeOK
<1>2. StaffTypeOK /\ [StaffNext]_staffVars => StaffTypeOK'
  <2> SUFFICES ASSUME StaffTypeOK, [StaffNext]_staffVars PROVE StaffTypeOK'
    OBVIOUS
  <2> USE StaffingAssumption DEF StaffTypeOK
  <2>1. ASSUME NEW c \in Crews, Select(c) PROVE StaffTypeOK'
    <3>1. PICK T \in Teams(c, disponible) :
             IF disponible = {} \/ Cardinality(T) < Needed(pax[c])
             THEN Raise(c) /\ UNCHANGED <<team, left>>
             ELSE /\ pc' = [pc EXCEPT ![c] = "marking"]
                  /\ team' = [team EXCEPT ![c] = T]
                  /\ left' = [left EXCEPT ![c] = T]
      BY <2>1 DEF Select
    <3>2. T \subseteq Bartenders
      BY TeamsSubset
    <3>3. CASE Raise(c) /\ UNCHANGED <<team, left>>
      BY <2>1, <3>3 DEF Select, Raise
    <3>4. CASE /\ pc' = [pc EXCEPT ![c] = "marking"]
               /\ team' = [team EXCEPT ![c] = T]
               /\ left' = [left EXCEPT ![c] = T]
      BY <2>1, <3>2, <3>4 DEF Select
    <3> QED BY <3>1, <3>3, <3>4
  <2>2. ASSUME NEW c \in Crews, Mark(c) PROVE StaffTypeOK'
    BY <2>2 DEF Mark
  <2>3. ASSUME NEW c \in Crews, Create(c) PROVE StaffTypeOK'
    BY <2>3 DEF Create
  <2>4. ASSUME NEW c \in Crews, RequestFails(c) PROVE StaffTypeOK'
    BY <2>4 DEF RequestFails, Raise
  <2>5. CASE UNCHANGED staffVars
    BY <2>5 DEF staffVars
  <2> QED BY <2>1, <2>2, <2>3, <2>4, <2>5 DEF StaffNext
<1> QED BY <1>1, <1>2, PTL DEF StaffSpec

-----------------------------------------------------------------------------

Holding(c) == pc[c] \in {"marking", "created"}

\* What a crew has marked stays marked: the bartenders of its team still available
\* are those left to mark.
MarkedInv == \A c \in Crews : Holding(c) => team[c] \intersect disponible \subseteq left[c]

\* As long as no crew has chosen beside one that was marking, one at most is marking.
AloneInv == ~overlapped =>
    /\ \A c, d \in Crews : c # d => ~(pc[c] = "marking" /\ pc[d] = "marking")
    /\ OneTeamEach

StaffIInv == StaffTypeOK /\ MarkedInv /\ AloneInv

LEMMA InitOthers == StaffInit => MarkedInv /\ AloneInv
<1> SUFFICES ASSUME StaffInit PROVE MarkedInv /\ AloneInv
  OBVIOUS
<1>1. \A c \in Crews : pc[c] = "idle"
  BY DEF StaffInit
<1> QED BY <1>1 DEF MarkedInv, AloneInv, OneTeamEach, Holding

\* What a step other than a choice leaves as it was.
Later == /\ team' = team /\ disponible' \subseteq disponible /\ overlapped' = overlapped
         /\ \A c \in Crews : Holding(c)' => Holding(c)
         /\ \A c \in Crews : pc'[c] = "marking" => pc[c] = "marking"
         /\ \A c \in Crews : Holding(c)' => left[c] \intersect disponible' \subseteq left'[c]

LEMMA LaterKeeps == StaffIInv /\ Later => MarkedInv' /\ AloneInv'
<1> SUFFICES ASSUME StaffIInv, Later PROVE MarkedInv' /\ AloneInv'
  OBVIOUS
<1>1. MarkedInv'
  BY DEF StaffIInv, MarkedInv, Later
<1>2. AloneInv'
  BY DEF StaffIInv, AloneInv, OneTeamEach, Holding, Later
<1> QED BY <1>1, <1>2

LEMMA SelectKeeps ==
    ASSUME StaffIInv, NEW c \in Crews, Select(c) PROVE MarkedInv' /\ AloneInv'
<1>1. PICK T \in Teams(c, disponible) :
         IF disponible = {} \/ Cardinality(T) < Needed(pax[c])
         THEN Raise(c) /\ UNCHANGED <<team, left>>
         ELSE /\ pc' = [pc EXCEPT ![c] = "marking"]
              /\ team' = [team EXCEPT ![c] = T]
              /\ left' = [left EXCEPT ![c] = T]
  BY DEF Select
<1>2. T \subseteq disponible
  BY TeamsSubset
<1>3. /\ pc[c] = "idle" /\ disponible' = disponible
      /\ overlapped' = (overlapped \/ \E d \in Crews : pc[d] = "marking")
  BY DEF Select
<1>4. pc \in [Crews -> {"idle", "marking", "created", "raised"}]
  BY DEF StaffIInv, StaffTypeOK
<1>5. CASE Raise(c) /\ UNCHANGED <<team, left>>
  <2>1. MarkedInv'
    BY <1>3, <1>4, <1>5 DEF StaffIInv, MarkedInv, Holding, Raise
  <2>2. AloneInv'
    BY <1>3, <1>4, <1>5 DEF StaffIInv, AloneInv, OneTeamEach, Raise
  <2> QED BY <2>1, <2>2
<1>6. CASE /\ pc' = [pc EXCEPT ![c] = "marking"]
           /\ team' = [team EXCEPT ![c] = T]
           /\ left' = [left EXCEPT ![c] = T]
  <2>0. team \in [Crews -> SUBSET Bartenders]
    BY DEF StaffIInv, StaffTypeOK
  <2>1. MarkedInv'
    <3> SUFFICES ASSUME NEW d \in Crews, Holding(d)'
                 PROVE  team'[d] \intersect disponible' \subseteq left'[d]
      BY DEF MarkedInv
    <3>a. DOMAIN left = Crews
      BY DEF StaffIInv, StaffTypeOK
    <3>1. CASE d = c
      BY <3>1, <1>6, <2>0, <3>a
    <3>2. CASE d # c
      BY <3>2, <1>3, <1>4, <1>6, <2>0, <3>a DEF StaffIInv, MarkedInv, Holding
    <3> QED BY <3>1, <3>2
  <2>2. ASSUME ~overlapped'
        PROVE  \A d \in Crews \ {c} : /\ pc[d] # "marking"
                                      /\ pc[d] = "created" => T \intersect team[d] = {}
    <3>1. \A d \in Crews : pc[d] # "marking"
      BY <2>2, <1>3
    <3>2. \A d \in Crews : pc[d] = "created" => team[d] \intersect disponible = {}
      BY <1>4 DEF StaffIInv, StaffTypeOK, MarkedInv, Holding
    <3> QED BY <3>1, <3>2, <1>2
  <2>3. AloneInv'
    BY <2>2, <2>0, <1>3, <1>4, <1>6 DEF StaffIInv, AloneInv, OneTeamEach
  <2> QED BY <2>1, <2>3
<1> QED BY <1>1, <1>5, <1>6

LEMMA StaffNextIInv == StaffIInv /\ StaffTypeOK' /\ [StaffNext]_staffVars => StaffIInv'
<1> SUFFICES ASSUME StaffIInv, StaffTypeOK', [StaffNext]_staffVars PROVE MarkedInv' /\ AloneInv'
  BY DEF StaffIInv
<1>0. pc \in [Crews -> {"idle", "marking", "created", "raised"}] /\ DOMAIN left = Crews
  BY DEF StaffIInv, StaffTypeOK
<1>1. ASSUME NEW c \in Crews, Select(c) PROVE MarkedInv' /\ AloneInv'
  BY <1>1, SelectKeeps
<1>2. ASSUME NEW c \in Crews, Mark(c) PROVE Later
  BY <1>0, <1>2 DEF Mark, Later, Holding
<1>3. ASSUME NEW c \in Crews, Create(c) PROVE Later
  BY <1>0, <1>3 DEF Create, Later, Holding
<1>4. ASSUME NEW c \in Crews, RequestFails(c) PROVE Later
  BY <1>0, <1>4 DEF RequestFails, Raise, Later, Holding
<1>5. CASE UNCHANGED staffVars
  BY <1>5 DEF staffVars, StaffIInv, MarkedInv, AloneInv, OneTeamEach, Holding
<1> QED BY <1>1, <1>2, <1>3, <1>4, <1>5, LaterKeeps DEF StaffNext

LEMMA StaffInvariance == StaffSpec => []StaffIInv
<1>1. StaffInit /\ StaffTypeOK => StaffIInv
  BY InitOthers DEF StaffIInv
<1> QED BY <1>1, StaffNextIInv, StaffTypeCorrect, PTL DEF StaffSpec

\* create_staffing_crew: the team of a created crew is marked as not available.
THEOREM CreatedTeamMarked == StaffSpec => []TeamMarked
<1>1. StaffIInv => TeamMarked
  BY DEF StaffIInv, StaffTypeOK, MarkedInv, Holding, TeamMarked
<1> QED BY <1>1, StaffInvariance, PTL

\* create_staffing_crew: crews that do not choose while another one is marking have
\* no bartender in common.
THEOREM NobodyTwice == StaffSpec => []OneTeamEachAlone
<1>1. StaffIInv => OneTeamEachAlone
  BY DEF StaffIInv, AloneInv, OneTeamEachAlone
<1> QED BY <1>1, StaffInvariance, PTL

-----------------------------------------------------------------------------
(* The choice.                                                             *)

\* Enough bartenders for the guests, and no more.
LEMMA NeededBounds ==
    ASSUME NEW n \in Nat \ {0}
    PROVE  /\ Needed(n) \in Nat \ {0}
           /\ PaxPerBartender * Needed(n) \in n..(n + PaxPerBartender - 1)
<1> DEFINE P == PaxPerBartender
           q == (n + P - 1) \div P
<1>1. P \in Nat /\ P > 0
  BY StaffingAssumption
<1> HIDE DEF P
<1>2. q \in Int /\ P * q <= n + P - 1 /\ n + P - 1 < P * q + P
  BY <1>1
<1> HIDE DEF q
<1>3. P * q \in Int
  BY <1>1, <1>2
<1>4. P * q > 0
  BY <1>1, <1>2, <1>3
<1>5. q > 0
  BY <1>1, <1>2, <1>4
<1> QED BY <1>1, <1>2, <1>3, <1>5 DEF Needed, P, q

LEMMA PrefixSize ==
    ASSUME NEW m, NEW S, IsFiniteSet(S), NEW n \in Nat, NEW T \in Prefixes(m, S, n)
    PROVE  /\ T \subseteq S /\ IsFiniteSet(T) /\ Cardinality(T) \in Nat /\ Cardinality(T) <= n
           /\ \A t \in T, b \in S \ T : ~Before(m, b, t)
<1>1. T \subseteq S /\ Cardinality(T) = IF n < Cardinality(S) THEN n ELSE Cardinality(S)
  BY DEF Prefixes
<1>2. IsFiniteSet(T) /\ Cardinality(T) \in Nat /\ Cardinality(S) \in Nat
  BY <1>1, FS_Subset, FS_CardinalityType
<1>3. Cardinality(T) <= n
  BY <1>1, <1>2
<1> QED BY <1>1, <1>2, <1>3, Zenon DEF Prefixes

\* A team large enough has the needed number exactly, the best of those there are
\* but for the head.
LEMMA TeamsBest ==
    ASSUME NEW c \in Crews, pax[c] \in Nat \ {0}, NEW S, IsFiniteSet(S), NEW T \in Teams(c, S),
           ~(Cardinality(T) < Needed(pax[c]))
    PROVE  /\ Cardinality(T) = Needed(pax[c])
           /\ \E h \in T : \A t \in T \ {h}, b \in S \ T : ~Before(menu[c], b, t)
           /\ pax[c] > HeadPax /\ S \intersect head # {} => T \intersect head # {}
<1> DEFINE n == Needed(pax[c])
           heads == IF pax[c] > HeadPax THEN S \intersect head ELSE {}
<1>n. n \in Nat \ {0} /\ n - 1 \in Nat
  BY NeededBounds
<1>1. CASE heads = {}
  <2>1. T \in Prefixes(menu[c], S, n)
    BY <1>1 DEF Teams
  <2> HIDE DEF n
  <2>2. /\ Cardinality(T) = n
        /\ \A t \in T, b \in S \ T : ~Before(menu[c], b, t)
    <3>1. Cardinality(T) \in Nat /\ Cardinality(T) <= n
      BY <2>1, <1>n, PrefixSize
    <3>2. \A t \in T, b \in S \ T : ~Before(menu[c], b, t)
      BY <2>1, <1>n, PrefixSize
    <3>3. ~(Cardinality(T) < n)
      BY DEF n
    <3> QED BY <3>1, <3>2, <3>3, <1>n
  <2>3. T # {}
    BY <2>2, <1>n, FS_EmptySet
  <2>4. ~(pax[c] > HeadPax /\ S \intersect head # {})
    BY <1>1
  <2>5. \E h \in T : \A t \in T \ {h}, b \in S \ T : ~Before(menu[c], b, t)
    BY <2>2, <2>3, Zenon
  <2> QED BY <2>2, <2>4, <2>5 DEF n
<1>2. CASE heads # {}
  <2>1. PICK h \in Firsts(menu[c], heads) :
           T \in {{h} \union P : P \in Prefixes(menu[c], S \ {h}, n - 1)}
    BY <1>2, Zenon DEF Teams
  <2>2. PICK P \in Prefixes(menu[c], S \ {h}, n - 1) : T = {h} \union P
    BY <2>1
  <2>3. h \in S /\ h \in head
    BY <2>1 DEF Firsts
  <2> HIDE DEF n, heads
  <2>4. IsFiniteSet(S \ {h})
    BY FS_Subset
  <2>5. /\ P \subseteq S \ {h} /\ IsFiniteSet(P)
        /\ Cardinality(P) \in Nat /\ Cardinality(P) <= n - 1
        /\ \A t \in P, b \in (S \ {h}) \ P : ~Before(menu[c], b, t)
    BY <2>2, <2>4, <1>n, PrefixSize
  <2>6. Cardinality(T) = Cardinality(P) + 1
    <3>1. h \notin P /\ T = P \union {h}
      BY <2>2, <2>5
    <3> QED BY <3>1, <2>5, FS_AddElement
  <2>7. Cardinality(T) = n
    <3>1. ~(Cardinality(T) < n)
      BY DEF n
    <3> QED BY <3>1, <2>5, <2>6, <1>n
  <2>8. h \in T /\ \A t \in T \ {h}, b \in S \ T : ~Before(menu[c], b, t)
    BY <2>2, <2>5, Zenon
  <2> QED BY <2>3, <2>7, <2>8 DEF n
<1> QED BY <1>1, <1>2

\* _seleccionar_bartenders: the team chosen has the needed number of the bartenders
\* available, and nobody left out is a better choice than one taken, except than the
\* head, whom a large event has if there is one; for any table, menus and guests.
THEOREM BestChosen == StaffSpec => BestTeam
<1>1. StaffTypeOK /\ [StaffNext]_staffVars =>
        [\A c \in Crews : pc[c] = "idle" /\ pc'[c] = "marking" =>
            /\ team'[c] \subseteq disponible
            /\ PaxPerBartender * Cardinality(team'[c]) \in pax[c]..(pax[c] + PaxPerBartender - 1)
            /\ \E h \in team'[c] : \A t \in team'[c] \ {h}, b \in disponible \ team'[c] :
                    ~Before(menu[c], b, t)
            /\ pax[c] > HeadPax /\ disponible \intersect head # {}
                   => team'[c] \intersect head # {}]_staffVars
  <2> SUFFICES ASSUME StaffTypeOK, StaffNext, NEW c \in Crews, pc[c] = "idle", pc'[c] = "marking"
               PROVE  /\ team'[c] \subseteq disponible
                      /\ PaxPerBartender * Cardinality(team'[c])
                            \in pax[c]..(pax[c] + PaxPerBartender - 1)
                      /\ \E h \in team'[c] : \A t \in team'[c] \ {h}, b \in disponible \ team'[c] :
                              ~Before(menu[c], b, t)
                      /\ pax[c] > HeadPax /\ disponible \intersect head # {}
                             => team'[c] \intersect head # {}
    BY Zenon
  <2>t. /\ pc \in [Crews -> {"idle", "marking", "created", "raised"}]
        /\ team \in [Crews -> SUBSET Bartenders]
        /\ pax[c] \in Nat \ {0} /\ IsFiniteSet(disponible)
    BY StaffingAssumption, FS_Subset DEF StaffTypeOK
  <2>1. Select(c)
    <3>1. PICK d \in Crews : Select(d) \/ Mark(d) \/ Create(d) \/ RequestFails(d)
      BY DEF StaffNext
    <3>2. ~Mark(d) /\ ~Create(d) /\ ~RequestFails(d)
      BY <2>t DEF Mark, Create, RequestFails, Raise
    <3>3. d = c
      BY <3>1, <3>2, <2>t DEF Select, Raise
    <3> QED BY <3>1, <3>2, <3>3
  <2>2. PICK T \in Teams(c, disponible) :
           IF disponible = {} \/ Cardinality(T) < Needed(pax[c])
           THEN Raise(c) /\ UNCHANGED <<team, left>>
           ELSE /\ pc' = [pc EXCEPT ![c] = "marking"]
                /\ team' = [team EXCEPT ![c] = T]
                /\ left' = [left EXCEPT ![c] = T]
    BY <2>1 DEF Select
  <2>3. ~Raise(c)
    BY <2>t DEF Raise
  <2>4. ~(Cardinality(T) < Needed(pax[c])) /\ team'[c] = T
    BY <2>2, <2>3, <2>t
  <2>5. T \subseteq disponible
    BY TeamsSubset
  <2>6. /\ Cardinality(T) = Needed(pax[c])
        /\ \E h \in T : \A t \in T \ {h}, b \in disponible \ T : ~Before(menu[c], b, t)
        /\ pax[c] > HeadPax /\ disponible \intersect head # {} => T \intersect head # {}
    BY <2>t, <2>4, TeamsBest
  <2>7. PaxPerBartender * Cardinality(T) \in pax[c]..(pax[c] + PaxPerBartender - 1)
    BY <2>t, <2>6, NeededBounds
  <2> QED BY <2>4, <2>5, <2>6, <2>7, Zenon
<1> QED BY <1>1, StaffTypeCorrect, PTL DEF StaffSpec, BestTeam

-----------------------------------------------------------------------------
(* Eventos: the arithmetic of a quotation first.                           *)

\* Rounding gives an integer.
LEMMA RoundInt == ASSUME NEW n \in Int, NEW d \in Nat \ {0} PROVE Round(n, d) \in Int
<1>1. n \div d \in Int /\ n % d \in 0..(d - 1)
  OBVIOUS
<1> QED BY <1>1 DEF Round

\* A price is near what the margin asks for, and not nothing.
LEMMA PrecioNear ==
    ASSUME NEW total \in Nat, NEW o \in Opciones
    PROVE  /\ Precio(total, o) \in Nat
           /\ 10 * Precio(total, o) >= 16 * total - 5
           /\ total > 0 => Precio(total, o) > 0
<1>1. CASE o = "basica"
  <2>1. Precio(total, o) = Round(total * 100, 60)
    BY <1>1 DEF Precio, MARGENES
  <2> QED BY <2>1 DEF Round
<1>2. CASE o = "recomendada"
  <2>1. Precio(total, o) = Round(total * 100, 55)
    BY <1>2 DEF Precio, MARGENES
  <2> QED BY <2>1 DEF Round
<1>3. CASE o = "premium"
  <2>1. Precio(total, o) = Round(total * 100, 50)
    BY <1>3 DEF Precio, MARGENES
  <2> QED BY <2>1 DEF Round
<1> QED BY <1>1, <1>2, <1>3 DEF Opciones

\* What is k times d at least is k at least when it is divided.
LEMMA RoundAtLeast ==
    ASSUME NEW n \in Int, NEW d \in Nat \ {0}, NEW k \in Int, n >= k * d
    PROVE  Round(n, d) >= k
<1> DEFINE q == n \div d
           r == n % d
<1>1. q \in Int /\ r \in 0..(d - 1) /\ n = d * q + r
  OBVIOUS
<1>2. Round(n, d) \in {q, q + 1}
  BY DEF Round
<1> HIDE DEF q, r
<1>3. q >= k
  <2> SUFFICES ASSUME q <= k - 1 PROVE FALSE
    BY <1>1
  <2>1. d * q <= d * (k - 1)
    BY <1>1
  <2>2. d * (k - 1) = k * d - d
    OBVIOUS
  <2> QED BY <1>1, <2>1, <2>2
<1> QED BY <1>1, <1>2, <1>3

\* Each option leaves a margin above the threshold when the event cost what was computed.
LEMMA MarginKept ==
    ASSUME NEW total \in Nat, NEW o \in Opciones, NEW costo \in Nat, costo <= total, total > 0
    PROVE  ~MargenCritico(Precio(total, o), costo)
<1> DEFINE p == Precio(total, o)
<1>1. p \in Nat /\ p > 0 /\ 10 * p >= 16 * total - 5
  BY PrecioNear
<1> HIDE DEF p
<1>2. (p - costo) * 10000 >= 1000 * p
  BY <1>1
<1>3. Round((p - costo) * 10000, p) >= 1000
  BY <1>1, <1>2, RoundAtLeast
<1>4. MargenPct(p, costo) = Round((p - costo) * 10000, p)
  BY <1>1 DEF MargenPct
<1>5. (p - costo) * 10000 \in Int
  BY <1>1
<1>6. MargenPct(p, costo) \in Int
  BY <1>1, <1>4, <1>5, RoundInt
<1> QED BY <1>3, <1>4, <1>6 DEF MargenCritico, p

\* The three options ascend in price, whatever the escandallo: the check that refuses a
\* quotation whose options do not never has cause to.  _guardar_cotizacion.
THEOREM OptionsAscend ==
    ASSUME NEW total \in Nat
    PROVE  /\ Precio(total, "basica") <= Precio(total, "recomendada")
           /\ Precio(total, "recomendada") <= Precio(total, "premium")
<1>1. /\ Precio(total, "basica") = Round(total * 100, 60)
      /\ Precio(total, "recomendada") = Round(total * 100, 55)
      /\ Precio(total, "premium") = Round(total * 100, 50)
  BY DEF Precio, MARGENES
<1>2. Round(total * 100, 60) <= Round(total * 100, 55)
  BY DEF Round
<1>3. Round(total * 100, 55) <= Round(total * 100, 50)
  BY DEF Round
<1> QED BY <1>1, <1>2, <1>3

\* The escandallo is an integer for any tariffs.
LEMMA EscandalloInt ==
    ASSUME NEW p \in Nat, NEW x \in Nat, NEW d \in Nat, NEW prov \in Provincias, NEW f \in Nat
    PROVE  EscandalloFinal(p, 0, x, d, prov, f) \in Int
<1>1. ASSUME NEW n \in Nat PROVE When(TRUE, n) \in Nat /\ When(FALSE, n) \in Nat
  BY DEF When
<1>2. CeilDiv(x, PaxPorBartender) \in Int
  BY TarifasAssumption DEF CeilDiv
<1>t. /\ TarifaBartender \in Nat /\ TarifaHead \in Nat /\ TarifaAsistente \in Nat /\ HorasSetup \in Nat
      /\ LogisticaLocal \in Nat /\ HorasLogistica \in Nat /\ TarifaKm \in Nat /\ Peajes \in Nat
      /\ Km[prov] \in Nat
  BY TarifasAssumption
<1>3. BloquePersonal(x, d) \in Int
  <2>1. When(x > PaxHead, TarifaHead) \in Nat /\ When(d > HorasAsistente, TarifaAsistente) \in Nat
    BY <1>t DEF When
  <2> DEFINE a == CeilDiv(x, PaxPorBartender)
             b == When(x > PaxHead, TarifaHead)
             c == When(d > HorasAsistente, TarifaAsistente)
  <2>2. BloquePersonal(x, d) = (d + HorasSetup) * (a * TarifaBartender + b + c)
    BY DEF BloquePersonal
  <2>3. a \in Int /\ b \in Nat /\ c \in Nat
    BY <1>2, <2>1
  <2> HIDE DEF a, b, c
  <2>4. a * TarifaBartender + b + c \in Int
    BY <2>3, <1>t
  <2> QED BY <2>2, <2>4, <1>t
<1>4. BloqueLogistica(prov) \in Int
  BY <1>t DEF BloqueLogistica
<1>5. Round((p + 0) * f, 100) \in Int
  BY RoundInt
<1> DEFINE base == p + 0 + BloquePersonal(x, d) + BloqueLogistica(prov) + Round((p + 0) * f, 100)
<1>6. base \in Int
  BY <1>3, <1>4, <1>5
<1>7. EscandalloFinal(p, 0, x, d, prov, f) = base + Round(base * 5, 100) + Round(base * 3, 100)
  BY DEF EscandalloFinal
<1> HIDE DEF base
<1>8. Round(base * 5, 100) \in Int /\ Round(base * 3, 100) \in Int
  BY <1>6, RoundInt
<1> QED BY <1>6, <1>7, <1>8

-----------------------------------------------------------------------------

\* An event is audited by a quotation of its own that somebody chose.
PricedBy(e, q) ==
    /\ quotes[q].evento = e /\ quotes[q].elegida # Null
    /\ audit[e].precio = Precio(quotes[q].total, quotes[q].elegida)

\* What the rows of an event are to each other: from the status cotizado on it names a
\* quotation, which nobody has chosen while that status lasts; and it is not executed
\* before it is audited.
EventInv(e) ==
    /\ linked[e] # Null => linked[e] \in DOMAIN quotes /\ quotes[linked[e]].evento = e
    /\ status[e] \in {"cotizado", "confirmado", "ejecutado"} => linked[e] # Null
    /\ status[e] = "cotizado" => quotes[linked[e]].elegida = Null
    /\ status[e] = "ejecutado" => audit[e] # Null
    /\ audit[e] # Null => linked[e] # Null /\ \E q \in DOMAIN quotes : PricedBy(e, q)

\* A quotation whose update is still to be made is stored and not yet named by its
\* event, so that nobody can have chosen it.
CrewInv(c) ==
    /\ c.does = "link" =>
          /\ c.quote \in DOMAIN quotes /\ quotes[c.quote].evento = c.evento
          /\ quotes[c.quote].elegida = Null /\ linked[c.evento] # c.quote
    /\ c.does = "execute" => audit[c.evento] # Null

\* Only a quotation that its event has named has been chosen.
ChoiceInv ==
    \A q \in DOMAIN quotes : quotes[q].elegida # Null => linked[quotes[q].evento] # Null

RowsInv == (\A e \in Ids : EventInv(e)) /\ (\A c \in crews : CrewInv(c)) /\ ChoiceInv

EventosIInv == EventosTypeOK /\ RowsInv

\* The fields of a crew's record.
LEMMA CrewFields ==
    ASSUME EventosTypeOK, NEW c \in crews
    PROVE  /\ c.evento \in Ids /\ c.does \in {"link", "execute"}
           /\ c.does = "link" =>
                c.quote \in Cotizaciones /\ c = [does |-> "link", evento |-> c.evento, quote |-> c.quote]
<1>1. c \in CrewCalls
  BY DEF EventosTypeOK
<1> QED BY <1>1 DEF CrewCalls

\* When nothing but the status of an event changes, and to one that fits its rows.
LEMMA StatusKeeps ==
    ASSUME EventosIInv, NEW e \in Ids, NEW s \in Statuses, UNCHANGED <<brief, linked, quotes, audit>>,
           s \in {"nuevo", "cerrado"} \/ (s = "ejecutado" /\ audit[e] # Null),
           status' = [status EXCEPT ![e] = s] \/ status' = status,
           crews' \subseteq crews, eventosFaults' \in 0..MaxEventosFaults
    PROVE  EventosIInv'
<1>t. status \in [Ids -> Statuses] /\ EventosTypeOK /\ RowsInv
  BY DEF EventosIInv, EventosTypeOK
<1>1. /\ status' \in [Ids -> Statuses]
      /\ \A g \in Ids : status'[g] = status[g] \/ (g = e /\ status'[g] = s)
  BY <1>t
<1>2. EventosTypeOK'
  BY <1>t, <1>1 DEF EventosTypeOK
<1>3. ASSUME NEW g \in Ids PROVE EventInv(g)'
  <2>1. EventInv(g)
    BY <1>t DEF RowsInv
  <2>2. audit'[g] # Null => \E q \in DOMAIN quotes' : PricedBy(g, q)'
    BY <2>1 DEF EventInv, PricedBy
  <2>3. CASE status'[g] = status[g]
    BY <2>1, <2>2, <2>3 DEF EventInv
  <2>4. CASE g = e /\ status'[g] = s
    BY <2>1, <2>2, <2>4 DEF EventInv
  <2> QED BY <1>1, <2>3, <2>4
<1>4. ASSUME NEW c \in crews' PROVE CrewInv(c)'
  BY <1>t DEF RowsInv, CrewInv
<1>5. ChoiceInv'
  BY <1>t DEF RowsInv, ChoiceInv
<1> QED BY <1>2, <1>3, <1>4, <1>5 DEF EventosIInv, RowsInv

LEMMA CotizarKeeps ==
    ASSUME EventosIInv, NEW e \in Ids, NEW q \in Cotizaciones, NEW p \in Productos, NEW f \in Factores,
           Cotizar(e, q, p, f)
    PROVE  EventosIInv'
<1> DEFINE total == Escandallo(e, p, f)
           row   == [evento |-> e, total |-> total, elegida |-> Null]
           new   == [does |-> "link", evento |-> e, quote |-> q]
<1>t. brief \in [Ids -> Briefs] /\ EventosTypeOK /\ RowsInv
  BY DEF EventosIInv, EventosTypeOK
<1>1. total \in Nat
  <2>1. /\ brief[e].pax \in Nat /\ brief[e].duracion \in Nat /\ brief[e].provincia \in Provincias
        /\ p \in Nat /\ f \in Nat
    BY <1>t, EventosAssumption DEF Briefs
  <2>2. total \in Int
    BY <2>1, EscandalloInt DEF Escandallo
  <2> QED BY <2>2 DEF Cotizar
<1>2. row \in Quote /\ row.evento = e /\ row.elegida = Null
  BY <1>1 DEF Quote
<1>3. /\ q \notin DOMAIN quotes
      /\ quotes' = [r \in DOMAIN quotes \union {q} |-> IF r = q THEN row ELSE quotes[r]]
      /\ UNCHANGED <<status, brief, linked, audit>>
      /\ crews' \subseteq crews \union {new}
  BY DEF Cotizar
<1>n. new \in CrewCalls /\ new.does = "link" /\ new.evento = e /\ new.quote = q
  BY DEF CrewCalls
<1> HIDE DEF total, row, new
<1>4. /\ DOMAIN quotes' = DOMAIN quotes \union {q} /\ quotes'[q] = row
      /\ \A r \in DOMAIN quotes : quotes'[r] = quotes[r]
  BY <1>3
<1>5. EventosTypeOK'
  <2>1. eventosFaults' \in 0..MaxEventosFaults
    BY <1>t, EventosAssumption DEF Cotizar, EventosTypeOK, Fails
  <2> QED BY <2>1, <1>t, <1>n, <1>2, <1>3, <1>4 DEF EventosTypeOK
<1>6. ASSUME NEW g \in Ids PROVE EventInv(g)'
  <2>1. EventInv(g)
    BY <1>t DEF RowsInv
  <2>2. audit'[g] # Null => \E r \in DOMAIN quotes' : PricedBy(g, r)'
    BY <2>1, <1>3, <1>4 DEF EventInv, PricedBy
  <2> QED BY <2>1, <2>2, <1>3, <1>4 DEF EventInv
<1>7. ASSUME NEW c \in crews' PROVE CrewInv(c)'
  <2>1. CASE c \in crews
    BY <2>1, <1>t, <1>3, <1>4 DEF RowsInv, CrewInv
  <2>2. CASE c = new
    <3>1. linked[e] # q
      BY <1>t, <1>3, EventosAssumption DEF RowsInv, EventInv
    <3> QED BY <2>2, <3>1, <1>n, <1>2, <1>3, <1>4 DEF CrewInv
  <2> QED BY <2>1, <2>2, <1>3
<1>8. ChoiceInv'
  BY <1>t, <1>2, <1>3, <1>4 DEF RowsInv, ChoiceInv
<1> QED BY <1>5, <1>6, <1>7, <1>8 DEF EventosIInv, RowsInv

LEMMA VincularKeeps ==
    ASSUME EventosIInv, NEW c \in crews, Vincular(c) PROVE EventosIInv'
<1> DEFINE e == c.evento
<1>t. /\ status \in [Ids -> Statuses] /\ linked \in [Ids -> Cotizaciones \union {Null}]
      /\ EventosTypeOK /\ RowsInv /\ CrewInv(c) /\ c.does = "link"
  BY DEF EventosIInv, EventosTypeOK, RowsInv, Vincular
<1>c. /\ e \in Ids /\ c.quote \in Cotizaciones /\ c.quote # Null
      /\ c = [does |-> "link", evento |-> e, quote |-> c.quote]
  BY <1>t, CrewFields, EventosAssumption
<1>1. /\ UNCHANGED <<brief, quotes, audit>> /\ crews' = crews \ {c}
      /\ \/ UNCHANGED <<status, linked>>
         \/ /\ status' = [status EXCEPT ![e] = "cotizado"]
            /\ linked' = [linked EXCEPT ![e] = c.quote]
  BY DEF Vincular
<1>2. /\ c.quote \in DOMAIN quotes /\ quotes[c.quote].evento = e /\ quotes[c.quote].elegida = Null
  BY <1>t DEF CrewInv
<1> HIDE DEF e
<1>3. /\ status' \in [Ids -> Statuses] /\ linked' \in [Ids -> Cotizaciones \union {Null}]
      /\ \A g \in Ids : \/ status'[g] = status[g] /\ linked'[g] = linked[g]
                        \/ g = e /\ status'[g] = "cotizado" /\ linked'[g] = c.quote
  BY <1>t, <1>c, <1>1 DEF Statuses
<1>4. EventosTypeOK'
  <2>1. eventosFaults' \in 0..MaxEventosFaults
    BY <1>t, EventosAssumption DEF Vincular, EventosTypeOK, Fails
  <2> QED BY <2>1, <1>t, <1>1, <1>3 DEF EventosTypeOK
<1>5. ASSUME NEW g \in Ids PROVE EventInv(g)'
  <2>1. EventInv(g)
    BY <1>t DEF RowsInv
  <2>2. audit'[g] # Null => \E r \in DOMAIN quotes' : PricedBy(g, r)'
    BY <2>1, <1>1 DEF EventInv, PricedBy
  <2>3. CASE status'[g] = status[g] /\ linked'[g] = linked[g]
    BY <2>1, <2>2, <2>3, <1>1 DEF EventInv
  <2>4. CASE g = e /\ status'[g] = "cotizado" /\ linked'[g] = c.quote
    BY <2>2, <2>4, <1>c, <1>1, <1>2 DEF EventInv
  <2> QED BY <1>3, <2>3, <2>4
\* Each quotation is in one crew: another one's is not what the event now names.
<1>6. ASSUME NEW d \in crews' PROVE CrewInv(d)'
  <2>1. d \in crews /\ d # c /\ CrewInv(d)
    BY <1>1, <1>t DEF RowsInv
  <2>2. CASE d.does = "link"
    <3>1. d.evento \in Ids /\ d = [does |-> "link", evento |-> d.evento, quote |-> d.quote]
      BY <2>1, <2>2, <1>t, CrewFields
    <3>2. linked'[d.evento] # d.quote
      <4>1. CASE linked'[d.evento] = linked[d.evento]
        BY <4>1, <2>1, <2>2 DEF CrewInv
      <4>2. CASE d.evento = e /\ linked'[d.evento] = c.quote
        BY <4>2, <2>1, <3>1, <1>c
      <4> QED BY <3>1, <4>1, <4>2, <1>3
    <3> QED BY <2>1, <2>2, <3>2, <1>1 DEF CrewInv
  <2>3. CASE d.does # "link"
    BY <2>1, <2>3, <1>1 DEF CrewInv
  <2> QED BY <2>2, <2>3
<1>7. ChoiceInv'
  <2> SUFFICES ASSUME NEW q \in DOMAIN quotes, quotes[q].elegida # Null
               PROVE  linked'[quotes[q].evento] # Null
    BY <1>1 DEF ChoiceInv
  <2>1. linked[quotes[q].evento] # Null /\ quotes[q].evento \in Ids
    BY <1>t DEF RowsInv, ChoiceInv, EventosTypeOK, Quote
  <2> QED BY <2>1, <1>c, <1>3
<1> QED BY <1>4, <1>5, <1>6, <1>7 DEF EventosIInv, RowsInv

LEMMA ConfirmarKeeps ==
    ASSUME EventosIInv, NEW e \in Ids, NEW o \in Opciones, Confirmar(e, o) PROVE EventosIInv'
<1> DEFINE sold == linked[e]
<1>t. /\ status \in [Ids -> Statuses] /\ EventosTypeOK /\ RowsInv /\ EventInv(e)
      /\ status[e] = "cotizado"
  BY DEF EventosIInv, EventosTypeOK, RowsInv, Confirmar
<1>1. /\ UNCHANGED <<brief, linked, audit, crews, eventosFaults>>
      /\ status' = [status EXCEPT ![e] = "confirmado"]
      /\ quotes' = [quotes EXCEPT ![sold].elegida = o]
  BY DEF Confirmar
<1>2. /\ sold \in DOMAIN quotes /\ quotes[sold].evento = e /\ quotes[sold] \in Quote
      /\ quotes[sold].elegida = Null /\ linked[e] # Null
  BY <1>t DEF EventInv, EventosTypeOK
<1>s. sold = linked[e]
  OBVIOUS
<1> HIDE DEF sold
<1>3. /\ DOMAIN quotes' = DOMAIN quotes /\ quotes'[sold] = [quotes[sold] EXCEPT !.elegida = o]
      /\ \A q \in DOMAIN quotes : q # sold => quotes'[q] = quotes[q]
  BY <1>1, <1>2
<1>4. /\ quotes'[sold] \in Quote /\ quotes'[sold].evento = e
  BY <1>2, <1>3 DEF Quote
<1>5. /\ status'[e] = "confirmado" /\ \A g \in Ids : g # e => status'[g] = status[g]
      /\ status' \in [Ids -> Statuses]
  BY <1>t, <1>1 DEF Statuses
<1>6. EventosTypeOK'
  BY <1>t, <1>1, <1>3, <1>4, <1>5 DEF EventosTypeOK
<1>7. ASSUME NEW g \in Ids PROVE EventInv(g)'
  <2>1. EventInv(g)
    BY <1>t DEF RowsInv
  <2>2. audit'[g] # Null => \E q \in DOMAIN quotes' : PricedBy(g, q)'
    <3> SUFFICES ASSUME audit[g] # Null PROVE \E q \in DOMAIN quotes' : PricedBy(g, q)'
      BY <1>1
    <3>1. PICK q \in DOMAIN quotes : PricedBy(g, q)
      BY <2>1 DEF EventInv
    <3>2. q # sold
      BY <3>1, <1>2 DEF PricedBy
    <3> QED BY <3>1, <3>2, <1>1, <1>3 DEF PricedBy
  <2>3. CASE g = e
    BY <2>1, <2>2, <2>3, <1>s, <1>1, <1>2, <1>3, <1>4, <1>5 DEF EventInv
  <2>4. CASE g # e
    <3>1. linked[g] # Null => linked[g] \in DOMAIN quotes /\ linked[g] # sold
      BY <2>1, <2>4, <1>2 DEF EventInv
    <3> QED BY <2>1, <2>2, <2>4, <3>1, <1>1, <1>3, <1>5 DEF EventInv
  <2> QED BY <2>3, <2>4
<1>8. ASSUME NEW c \in crews' PROVE CrewInv(c)'
  <2>1. c \in crews /\ CrewInv(c)
    BY <1>1, <1>t DEF RowsInv
  <2>2. c.does = "link" => c.quote # sold
    BY <2>1, <1>s, <1>2 DEF CrewInv
  <2> QED BY <2>1, <2>2, <1>1, <1>3 DEF CrewInv
<1>9. ChoiceInv'
  <2> SUFFICES ASSUME NEW q \in DOMAIN quotes, quotes'[q].elegida # Null
               PROVE  linked[quotes'[q].evento] # Null
    BY <1>1, <1>3 DEF ChoiceInv
  <2>1. CASE q = sold
    BY <2>1, <1>2, <1>4
  <2>2. CASE q # sold
    BY <2>2, <1>3, <1>t DEF RowsInv, ChoiceInv
  <2> QED BY <2>1, <2>2
<1> QED BY <1>6, <1>7, <1>8, <1>9 DEF EventosIInv, RowsInv

LEMMA AuditarKeeps ==
    ASSUME EventosIInv, NEW e \in Ids, NEW costo \in Costos, Auditar(e, costo) PROVE EventosIInv'
<1>t. /\ audit \in [Ids -> {Null} \union Audit]
      /\ EventosTypeOK /\ RowsInv /\ EventInv(e)
  BY DEF EventosIInv, EventosTypeOK, RowsInv
<1>1. PICK q \in DOMAIN quotes :
        /\ quotes[q].evento = e /\ Auditable(e, PrecioCobrado(q), costo)
        /\ audit' = [audit EXCEPT ![e] = [precio |-> PrecioCobrado(q), costo |-> costo]]
  BY DEF Auditar
<1> DEFINE row == [precio |-> PrecioCobrado(q), costo |-> costo]
           new == [does |-> "execute", evento |-> e]
<1>2. /\ PrecioCobrado(q) > 0 /\ audit[e] = Null
      /\ UNCHANGED <<status, brief, linked, quotes>> /\ crews' \subseteq crews \union {new}
  BY <1>1 DEF Auditar, Auditable
\* A quotation nobody chose costs nothing, and the table refuses that.
<1>3. /\ quotes[q].elegida # Null /\ linked[e] # Null
      /\ PrecioCobrado(q) = Precio(quotes[q].total, quotes[q].elegida)
  BY <1>1, <1>2, <1>t DEF PrecioCobrado, RowsInv, ChoiceInv
<1>4. row \in Audit /\ row # Null /\ row.precio = PrecioCobrado(q)
  <2>1. quotes[q].total \in Nat /\ quotes[q].elegida \in Opciones
    BY <1>3, <1>t DEF EventosTypeOK, Quote
  <2>2. PrecioCobrado(q) \in Nat \ {0} /\ costo \in Nat \ {0}
    BY <2>1, <1>2, <1>3, PrecioNear, EventosAssumption
  <2>3. row \in Audit
    BY <2>2 DEF Audit
  <2> QED BY <2>3, EventosAssumption
<1>5. audit' = [audit EXCEPT ![e] = row]
  BY <1>1
<1>n. new \in CrewCalls /\ new.does = "execute" /\ new.evento = e
  BY DEF CrewCalls
<1> HIDE DEF row, new
<1>6. /\ audit'[e] = row /\ \A g \in Ids : g # e => audit'[g] = audit[g]
      /\ audit' \in [Ids -> {Null} \union Audit]
  BY <1>t, <1>4, <1>5
<1>7. EventosTypeOK'
  <2>1. eventosFaults' \in 0..MaxEventosFaults
    BY <1>t, EventosAssumption DEF Auditar, EventosTypeOK, Fails
  <2> QED BY <2>1, <1>t, <1>n, <1>2, <1>6 DEF EventosTypeOK
<1>8. ASSUME NEW g \in Ids PROVE EventInv(g)'
  <2>1. EventInv(g)
    BY <1>t DEF RowsInv
  <2>2. CASE g = e
    <3>1. PricedBy(e, q)'
      BY <1>1, <1>2, <1>3, <1>4, <1>6 DEF PricedBy
    <3>2. \E r \in DOMAIN quotes' : PricedBy(e, r)'
      BY <3>1, <1>2
    <3>3. audit'[e] # Null /\ linked'[e] # Null
      BY <1>2, <1>3, <1>4, <1>6
    <3> QED BY <2>1, <2>2, <3>2, <3>3, <1>2 DEF EventInv
  <2>3. CASE g # e
    <3>1. audit'[g] # Null => \E r \in DOMAIN quotes' : PricedBy(g, r)'
      BY <2>1, <2>3, <1>2, <1>6 DEF EventInv, PricedBy
    <3> QED BY <2>1, <2>3, <3>1, <1>2, <1>6 DEF EventInv
  <2> QED BY <2>2, <2>3
<1>9. ASSUME NEW c \in crews' PROVE CrewInv(c)'
  <2>1. CASE c = new
    BY <2>1, <1>n, <1>4, <1>6 DEF CrewInv
  <2>2. CASE c \in crews
    <3>1. CrewInv(c) /\ c.evento \in Ids
      BY <2>2, <1>t, CrewFields DEF RowsInv
    <3> QED BY <3>1, <1>2, <1>4, <1>6 DEF CrewInv
  <2> QED BY <2>1, <2>2, <1>2
<1>10. ChoiceInv'
  BY <1>t, <1>2 DEF RowsInv, ChoiceInv
<1> QED BY <1>7, <1>8, <1>9, <1>10 DEF EventosIInv, RowsInv

LEMMA EventosInitIInv == EventosInit => EventosIInv
<1> SUFFICES ASSUME EventosInit PROVE EventosIInv
  OBVIOUS
<1>1. EventosTypeOK
  BY EventosAssumption DEF EventosInit, EventosTypeOK, Statuses
<1>2. RowsInv
  BY DEF EventosInit, RowsInv, ChoiceInv, EventInv, CrewInv
<1> QED BY <1>1, <1>2 DEF EventosIInv

LEMMA EventosNextIInv == EventosIInv /\ [EventosNext]_eventosVars => EventosIInv'
<1> SUFFICES ASSUME EventosIInv, [EventosNext]_eventosVars PROVE EventosIInv'
  OBVIOUS
<1>f. (UNCHANGED eventosFaults \/ Fails) => eventosFaults' \in 0..MaxEventosFaults
  BY EventosAssumption DEF EventosIInv, EventosTypeOK, Fails
<1>s. {"nuevo", "ejecutado", "cerrado"} \subseteq Statuses
  BY DEF Statuses
<1>1. ASSUME NEW e \in Ids, Registrar(e) PROVE EventosIInv'
  BY <1>1, <1>f, <1>s, StatusKeeps DEF Registrar
<1>2. ASSUME NEW e \in Ids, NEW q \in Cotizaciones, NEW p \in Productos, NEW f \in Factores,
             Cotizar(e, q, p, f)
      PROVE  EventosIInv'
  BY <1>2, CotizarKeeps
<1>3. ASSUME NEW c \in crews, Vincular(c) PROVE EventosIInv'
  BY <1>3, VincularKeeps
<1>4. ASSUME NEW e \in Ids, NEW o \in Opciones, Confirmar(e, o) PROVE EventosIInv'
  BY <1>4, ConfirmarKeeps
<1>5. ASSUME NEW e \in Ids, NEW c \in Costos, Auditar(e, c) PROVE EventosIInv'
  BY <1>5, AuditarKeeps
<1>6. ASSUME NEW c \in crews, Ejecutar(c) PROVE EventosIInv'
  <2>1. audit[c.evento] # Null /\ c.evento \in Ids
    BY <1>6, CrewFields DEF Ejecutar, EventosIInv, RowsInv, CrewInv
  <2>2. /\ UNCHANGED <<brief, linked, quotes, audit>> /\ crews' \subseteq crews
        /\ status' = [status EXCEPT ![c.evento] = "ejecutado"] \/ status' = status
        /\ UNCHANGED eventosFaults \/ Fails
    BY <1>6 DEF Ejecutar
  <2> QED BY <2>1, <2>2, <1>f, <1>s, StatusKeeps
<1>7. ASSUME NEW e \in Ids, Cerrar(e) PROVE EventosIInv'
  BY <1>7, <1>f, <1>s, StatusKeeps DEF Cerrar
<1>8. CASE UNCHANGED eventosVars
  BY <1>8 DEF eventosVars, EventosIInv, EventosTypeOK, RowsInv, EventInv, PricedBy, CrewInv, ChoiceInv
<1> QED BY <1>1, <1>2, <1>3, <1>4, <1>5, <1>6, <1>7, <1>8 DEF EventosNext

LEMMA EventosInvariance == EventosSpec => []EventosIInv
BY EventosInitIInv, EventosNextIInv, PTL DEF EventosSpec

\* The rows of events, quotations and audits are of their types.
THEOREM EventosTypeCorrect == EventosSpec => []EventosTypeOK
<1>1. EventosIInv => EventosTypeOK
  BY DEF EventosIInv
<1> QED BY <1>1, EventosInvariance, PTL

\* An event that is quoted has its quotation stored, whatever request fails or is
\* repeated and in whatever order the crews run.
THEOREM AlwaysStored == EventosSpec => []QuoteStored
<1>1. EventosIInv => QuoteStored
  BY DEF EventosIInv, RowsInv, EventInv, QuoteStored
<1> QED BY <1>1, EventosInvariance, PTL

\* An event is audited at what the chosen option of a quotation of its own costs, for any
\* tariffs, prices and number of quotations; and the three margins are wide enough that
\* one that cost no more than was computed is not critical, however the prices round.
THEOREM PricedAtChoice == EventosSpec => []AuditedAtChoice
<1>1. ASSUME EventosIInv PROVE AuditedAtChoice
  <2>1. ASSUME NEW e \in Ids, audit[e] # Null
        PROVE  \E q \in DOMAIN quotes :
                  /\ PricedBy(e, q)
                  /\ audit[e].costo <= quotes[q].total => ~MargenCritico(audit[e].precio, audit[e].costo)
    <3>1. PICK q \in DOMAIN quotes : PricedBy(e, q)
      BY <1>1, <2>1 DEF EventosIInv, RowsInv, EventInv
    <3> DEFINE total  == quotes[q].total
               opcion == quotes[q].elegida
    <3>2. opcion # Null /\ audit[e].precio = Precio(total, opcion)
      BY <3>1 DEF PricedBy
    <3>3. total \in Nat /\ opcion \in Opciones
      BY <1>1, <3>2 DEF EventosIInv, EventosTypeOK, Quote
    <3>4. audit[e].costo \in Nat \ {0}
      BY <1>1, <2>1 DEF EventosIInv, EventosTypeOK, Audit
    <3> HIDE DEF total, opcion
    <3>5. audit[e].costo <= total => ~MargenCritico(audit[e].precio, audit[e].costo)
      BY <3>2, <3>3, <3>4, MarginKept
    <3> QED BY <3>1, <3>5 DEF total
  <2>2. \A e \in Ids : status[e] = "ejecutado" => audit[e] # Null
    BY <1>1 DEF EventosIInv, RowsInv, EventInv
  <2> QED BY <2>1, <2>2 DEF AuditedAtChoice, PricedBy
<1> QED BY <1>1, EventosInvariance, PTL

\* A quotation that was chosen stays as it is, for any number of crews between their
\* requests: one that is named by an event again would have to be in another crew.
THEOREM ChoiceAlwaysStands == EventosSpec => ChoiceStands
<1>1. EventosIInv /\ [EventosNext]_eventosVars =>
        [\A q \in DOMAIN quotes :
            quotes[q].elegida # Null => q \in DOMAIN quotes' /\ quotes'[q] = quotes[q]]_eventosVars
  <2> SUFFICES ASSUME EventosIInv, EventosNext, NEW q \in DOMAIN quotes, quotes[q].elegida # Null
               PROVE  q \in DOMAIN quotes' /\ quotes'[q] = quotes[q]
    OBVIOUS
  <2>1. ASSUME NEW e \in Ids, NEW r \in Cotizaciones, NEW p \in Productos, NEW f \in Factores,
               Cotizar(e, r, p, f)
        PROVE  q \in DOMAIN quotes' /\ quotes'[q] = quotes[q]
    BY <2>1 DEF Cotizar
  <2>2. ASSUME NEW e \in Ids, NEW o \in Opciones, Confirmar(e, o)
        PROVE  q \in DOMAIN quotes' /\ quotes'[q] = quotes[q]
    <3>1. quotes' = [quotes EXCEPT ![linked[e]].elegida = o] /\ status[e] = "cotizado"
      BY <2>2 DEF Confirmar
    <3>2. q # linked[e]
      BY <3>1 DEF EventosIInv, RowsInv, EventInv
    <3> QED BY <3>1, <3>2
  <2>3. ASSUME UNCHANGED quotes PROVE q \in DOMAIN quotes' /\ quotes'[q] = quotes[q]
    BY <2>3
  <2> QED BY <2>1, <2>2, <2>3 DEF EventosNext, Registrar, Vincular, Auditar, Ejecutar, Cerrar
<1> QED BY <1>1, EventosInvariance, PTL DEF EventosSpec, ChoiceStands
=============================================================================
