---------------------------- MODULE MCEscalation ----------------------------
(* Escalation on a clock of a few ticks, with a ledger small enough to fill. *)
EXTENDS Escalation
=============================================================================
