----------------------------- MODULE Escandallo -----------------------------
(***************************************************************************)
(* The arithmetic of a quotation: the cost of an event in four blocks with *)
(* its surcharges (EscandalloTool), the prices of its three options, the   *)
(* margin an audit finds and the climate alert.  Amounts are integers; the *)
(* tariffs are parameters, and the drinks and the equipment are amounts a  *)
(* caller reads from the tables of prices.                                 *)
(***************************************************************************)
EXTENDS Integers

CONSTANTS
    PaxPorBartender,      \* RATIO_PAX_POR_BARTENDER
    TarifaBartender, TarifaHead, TarifaAsistente,
    HorasSetup, PaxHead, HorasAsistente,
    LogisticaLocal,       \* per hour, in Tucuman
    HorasLogistica, TarifaKm, Peajes,
    Provincias, Km        \* DISTANCIAS_KM

ASSUME TarifasAssumption ==
    /\ PaxPorBartender \in Nat \ {0}
    /\ {TarifaBartender, TarifaHead, TarifaAsistente, HorasSetup, PaxHead,
        HorasAsistente, LogisticaLocal, HorasLogistica, TarifaKm, Peajes} \subseteq Nat
    /\ Km \in [Provincias -> Nat]

\* round(n / d): to the nearest integer, a half to the even one.
Round(n, d) ==
    LET q == n \div d
        r == 2 * (n % d)
    IN  IF r > d \/ (r = d /\ q % 2 = 1) THEN q + 1 ELSE q

CeilDiv(n, d) == (n + d - 1) \div d

When(condition, amount) == IF condition THEN amount ELSE 0

BloquePersonal(pax, duracion) ==
    (duracion + HorasSetup) *
        (CeilDiv(pax, PaxPorBartender) * TarifaBartender
            + When(pax > PaxHead, TarifaHead)
            + When(duracion > HorasAsistente, TarifaAsistente))

BloqueLogistica(provincia) ==
    IF Km[provincia] = 0 THEN LogisticaLocal * HorasLogistica
                         ELSE Km[provincia] * 2 * TarifaKm + Peajes

\* The climate factor weighs on drinks and equipment only; losses (5%) and
\* contingencies (3%) on the sum, one beside the other.
EscandalloFinal(productos, equipamiento, pax, duracion, provincia, factor) ==
    LET base == productos + equipamiento
                  + BloquePersonal(pax, duracion) + BloqueLogistica(provincia)
                  + Round((productos + equipamiento) * factor, 100)
    IN  base + Round(base * 5, 100) + Round(base * 3, 100)

-----------------------------------------------------------------------------
\* MARGENES, in percent, and _calcular_opciones.

Opciones == {"basica", "recomendada", "premium"}
MARGENES == [basica |-> 40, recomendada |-> 45, premium |-> 50]

Precio(escandallo, opcion) == Round(escandallo * 100, 100 - MARGENES[opcion])

\* margen_pct, in hundredths of a percent, and the threshold of the audit.
MargenPct(precio, costo) ==
    IF precio > 0 THEN Round((precio - costo) * 10000, precio) ELSE 0
MargenCritico(precio, costo) == MargenPct(precio, costo) < 1000
=============================================================================
