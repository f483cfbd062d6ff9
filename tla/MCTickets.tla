----------------------------- MODULE MCTickets -----------------------------
(* Tickets for TLC. *)
EXTENDS Tickets
=============================================================================
