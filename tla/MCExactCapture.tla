--------------------------- MODULE MCExactCapture ---------------------------
(* ExactCapture for TLC.  The configurations give every constant a value;  *)
(* the events and the backends are model values.                           *)
EXTENDS ExactCapture
=============================================================================
