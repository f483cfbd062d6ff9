----------------------------- MODULE MCEventos ------------------------------
(* Eventos for TLC. *)
EXTENDS Eventos, TLC

\* A local province and one that is some way off.
KmPorProvincia == [p \in Provincias |-> IF p = "Tucuman" THEN 0 ELSE 3]

\* Which id an event or a quotation gets makes no difference.
Symmetric == Permutations(Cotizaciones) \union Permutations(Ids)
=============================================================================
