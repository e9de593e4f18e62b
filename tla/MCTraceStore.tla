---------------------------- MODULE MCTraceStore ----------------------------
(* TraceStore on a small directory. *)
EXTENDS TraceStore
====
