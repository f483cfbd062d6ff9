------------------------------ MODULE Eventos -------------------------------
(***************************************************************************)
(* The life of an event of Bartenders NOA through the crews that write it: *)
(* it is registered, quoted, audited and closed.                           *)
(*                                                                         *)
(* A crew function writes to the tables while it builds its crew, one      *)
(* request after the other, without a transaction; a request that fails    *)
(* leaves what went before it.  No function looks at the event's status,   *)
(* and the flows that would call them in an order are not in the           *)
(* repository: any function may be called at any time, again, and while    *)
(* another is between its requests.  That the client chooses an option of  *)
(* the quotation sent and so confirms the event is written by nothing in   *)
(* the repository either.                                                  *)
(***************************************************************************)
EXTENDS Escandallo, FiniteSets

CONSTANTS
    Ids,          \* evento_id
    Cotizaciones, \* cotizacion_id
    Paxes, Duraciones, Factores,
    Productos,    \* cost of drinks and equipment at the prices of the day
    Costos,       \* costo_real
    MaxEventosFaults,   \* bound on failed requests
    Null

Audit == [precio : Nat \ {0}, costo : Nat \ {0}]

ASSUME EventosAssumption ==
    /\ Productos \subseteq Nat \ {0} /\ Costos \subseteq Nat \ {0}
    /\ Paxes \subseteq Nat /\ Duraciones \subseteq Nat /\ Factores \subseteq Nat
    /\ MaxEventosFaults \in Nat /\ Null \notin Cotizaciones \union Audit

VARIABLES
    status,       \* eventos.status, "none" before the row exists
    brief,        \* pax, duracion_horas and provincia of the event
    linked,       \* eventos.cotizacion_id
    quotes,       \* rows of cotizaciones
    audit,        \* the event's row of auditorias
    crews,        \* the crew functions that have their update of the event left
    eventosFaults \* requests that failed

eventosVars == <<status, brief, linked, quotes, audit, crews, eventosFaults>>

Statuses == {"none", "nuevo", "cotizado", "confirmado", "ejecutado", "cerrado"}
Briefs   == [pax : Paxes, duracion : Duraciones, provincia : Provincias]
Quote    == [evento : Ids, total : Nat, elegida : Opciones \union {Null}]
CrewCalls == [does : {"link"}, evento : Ids, quote : Cotizaciones] \union
             [does : {"execute"}, evento : Ids]

EventosTypeOK ==
    /\ status \in [Ids -> Statuses]
    /\ brief \in [Ids -> Briefs]
    /\ linked \in [Ids -> Cotizaciones \union {Null}]
    /\ DOMAIN quotes \subseteq Cotizaciones
    /\ \A q \in DOMAIN quotes : quotes[q] \in Quote
    /\ audit \in [Ids -> {Null} \union Audit]
    /\ crews \subseteq CrewCalls
    /\ eventosFaults \in 0..MaxEventosFaults

EventosInit ==
    /\ status = [e \in Ids |-> "none"]
    /\ brief \in [Ids -> Briefs]
    /\ linked = [e \in Ids |-> Null]
    /\ quotes = [q \in {} |-> Null]
    /\ audit = [e \in Ids |-> Null]
    /\ crews = {}
    /\ eventosFaults = 0

\* The row of eventos is there: the others refer to it.
Registered(e) == status[e] # "none"

\* The request fails; what it asks for is done or it is not.
Fails == eventosFaults < MaxEventosFaults /\ eventosFaults' = eventosFaults + 1

-----------------------------------------------------------------------------
\* create_requerimientos_crew: the answer of the insert may be lost, and then the
\* flow that repeats it registers another event.

Registrar(e) ==
    /\ status[e] = "none"
    /\ status' = [status EXCEPT ![e] = "nuevo"]
    /\ \/ UNCHANGED eventosFaults
       \/ Fails
    /\ UNCHANGED <<brief, linked, quotes, audit, crews>>

\* create_presupuestador_crew, whatever the event's status is.

Escandallo(e, productos, factor) ==
    EscandalloFinal(productos, 0, brief[e].pax, brief[e].duracion, brief[e].provincia, factor)

\* The quotation is inserted: its total is positive and its prices ascend.
Cotizar(e, q, productos, factor) ==
    LET total == Escandallo(e, productos, factor) IN
    /\ Registered(e)
    /\ q \in Cotizaciones \ DOMAIN quotes
    /\ total > 0
    /\ Precio(total, "basica") <= Precio(total, "recomendada")
    /\ Precio(total, "recomendada") <= Precio(total, "premium")
    /\ quotes' = [r \in DOMAIN quotes \union {q} |->
                    IF r = q THEN [evento |-> e, total |-> total, elegida |-> Null] ELSE quotes[r]]
    /\ \/ /\ crews' = crews \union {[does |-> "link", evento |-> e, quote |-> q]}
          /\ UNCHANGED eventosFaults
       \/ Fails /\ UNCHANGED crews
    /\ UNCHANGED <<status, brief, linked, audit>>

\* A plausible slip: the event's status is updated and its quotation is not.
Vincular_Status(c) ==
    /\ c.does = "link"
    /\ \/ UNCHANGED eventosFaults
       \/ Fails
    /\ status' = [status EXCEPT ![c.evento] = "cotizado"]
    /\ crews' = crews \ {c}
    /\ UNCHANGED <<brief, linked, quotes, audit>>

\* A plausible slip: an update that was not answered is made again.
Vincular_Retried(c) ==
    /\ c.does = "link"
    /\ status' = [status EXCEPT ![c.evento] = "cotizado"]
    /\ linked' = [linked EXCEPT ![c.evento] = c.quote]
    /\ \/ crews' = crews \ {c} /\ UNCHANGED eventosFaults
       \/ Fails /\ UNCHANGED crews
    /\ UNCHANGED <<brief, quotes, audit>>

\* The event is updated with the quotation, or the update fails.
Vincular(c) ==
    /\ c.does = "link"
    /\ \/ /\ status' = [status EXCEPT ![c.evento] = "cotizado"]
          /\ linked' = [linked EXCEPT ![c.evento] = c.quote]
          /\ (UNCHANGED eventosFaults \/ Fails)
       \/ Fails /\ UNCHANGED <<status, linked>>
    /\ crews' = crews \ {c}
    /\ UNCHANGED <<brief, quotes, audit>>

\* The client's choice of an option of the quotation the event is linked to.
Confirmar(e, opcion) ==
    /\ status[e] = "cotizado"
    /\ quotes' = [quotes EXCEPT ![linked[e]].elegida = opcion]
    /\ status' = [status EXCEPT ![e] = "confirmado"]
    /\ UNCHANGED <<brief, linked, audit, crews, eventosFaults>>

-----------------------------------------------------------------------------
\* create_auditoria_crew

\* A plausible slip: a missing choice is read as the recommended option.
PrecioCobrado_Default(q) ==
    Precio(quotes[q].total, IF quotes[q].elegida = Null THEN "recomendada" ELSE quotes[q].elegida)

\* The column opcion_None does not exist: a quotation nobody chose charges nothing.
PrecioCobrado(q) ==
    IF quotes[q].elegida = Null THEN 0 ELSE Precio(quotes[q].total, quotes[q].elegida)

\* What the table's constraints ask of a row: one for an event, a positive price, and
\* a margin that fits NUMERIC(5,2): an event that cost eleven times its price cannot
\* be audited.
Auditable(e, precio, costo) ==
    precio > 0 /\ audit[e] = Null /\ MargenPct(precio, costo) > -100000

\* Any one of the event's quotations is read, and the audit inserted; without one,
\* or when the table refuses the row, the function raises and nothing changes.
Auditar(e, costo) ==
    /\ \E q \in {r \in DOMAIN quotes : quotes[r].evento = e} :
          /\ Auditable(e, PrecioCobrado(q), costo)
          /\ audit' = [audit EXCEPT ![e] = [precio |-> PrecioCobrado(q), costo |-> costo]]
    /\ \/ crews' = crews \union {[does |-> "execute", evento |-> e]} /\ UNCHANGED eventosFaults
       \/ Fails /\ UNCHANGED crews
    /\ UNCHANGED <<status, brief, linked, quotes>>

\* The event is executed, or the update fails.
Ejecutar(c) ==
    /\ c.does = "execute"
    /\ \/ /\ status' = [status EXCEPT ![c.evento] = "ejecutado"]
          /\ (UNCHANGED eventosFaults \/ Fails)
       \/ Fails /\ UNCHANGED status
    /\ crews' = crews \ {c}
    /\ UNCHANGED <<brief, linked, quotes, audit>>

\* create_feedback_crew, for any event there is.
Cerrar(e) ==
    /\ Registered(e)
    /\ status' = [status EXCEPT ![e] = "cerrado"]
    /\ (UNCHANGED eventosFaults \/ Fails)
    /\ UNCHANGED <<brief, linked, quotes, audit, crews>>

EventosNext ==
    \/ \E c \in crews : Vincular(c) \/ Ejecutar(c)
    \/ \E e \in Ids :
        \/ Registrar(e)
        \/ \E q \in Cotizaciones, p \in Productos, f \in Factores : Cotizar(e, q, p, f)
        \/ \E o \in Opciones : Confirmar(e, o)
        \/ \E c \in Costos : Auditar(e, c)
        \/ Cerrar(e)

EventosSpec == EventosInit /\ [][EventosNext]_eventosVars

-----------------------------------------------------------------------------

\* "NUNCA generes una cotización sin guardarla en la base de datos": the quotation an
\* event names is stored and its own, and an event that is quoted, sold or executed
\* names one, in whatever order and however often the crews run.  _guardar_cotizacion.
QuoteStored ==
    \A e \in Ids :
        /\ linked[e] # Null => linked[e] \in DOMAIN quotes /\ quotes[linked[e]].evento = e
        /\ status[e] \in {"cotizado", "confirmado", "ejecutado"} => linked[e] # Null

\* An event is audited at the price of the option its client chose of one of its
\* quotations, also when it was quoted again meanwhile; when it cost no more than
\* that quotation computed, its margin is not critical; and it is not executed
\* before.  create_auditoria_crew with _calcular_opciones.
AuditedAtChoice ==
    \A e \in Ids :
        /\ audit[e] # Null =>
            \E q \in DOMAIN quotes :
                /\ quotes[q].evento = e /\ quotes[q].elegida # Null
                /\ audit[e].precio = Precio(quotes[q].total, quotes[q].elegida)
                /\ audit[e].costo <= quotes[q].total
                    => ~MargenCritico(audit[e].precio, audit[e].costo)
        /\ status[e] = "ejecutado" => audit[e] # Null

\* What a client chose is not chosen again, though the event may be quoted and sold
\* again: a quotation is offered by one update only.  _guardar_cotizacion.
ChoiceStands ==
    [][\A q \in DOMAIN quotes :
        quotes[q].elegida # Null => q \in DOMAIN quotes' /\ quotes'[q] = quotes[q]]_eventosVars

\* "NUNCA cerrar un evento sin registrar la auditoría".  Not so:
\* create_feedback_crew closes an event whatever has become of it.
ClosedAudited == \A e \in Ids : status[e] = "cerrado" => audit[e] # Null

\* An audited event names the quotation it was audited by.  Not so: one that is
\* quoted again names the new quotation, and is only quoted once more.
SoldAsLinked ==
    \A e \in Ids : audit[e] # Null =>
        LET q == quotes[linked[e]]
        IN  q.elegida # Null /\ audit[e].precio = Precio(q.total, q.elegida)
=============================================================================
