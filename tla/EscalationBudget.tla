-------------------------- MODULE EscalationBudget --------------------------
(***************************************************************************)
(* The rolling-hour budget accounting of src/escalation_budget.c: the      *)
(* ledger of full-fidelity segments, what it bills at an instant, the      *)
(* grant decision and the "over budget" test.  Pure operators: the ledger  *)
(* and the clock are arguments, the engine that owns them is Escalation.   *)
(*                                                                         *)
(* The C array of segments, kept in opening order, is a set of segments    *)
(* here: opening times are distinct, so the order is that of the starts.   *)
(* As in the code, end = 0 marks the segment that is still open.           *)
(***************************************************************************)
EXTENDS Integers, FiniteSets

CONSTANTS
    LedgerMax,      \* PGWT_ESC_LEDGER_MAX
    RollingWindow,  \* rolling_window_ns, in clock ticks
    Budget,         \* budget_ns, in clock ticks (0 = deny all)
    Unlimited       \* budget_unlimited

ASSUME BudgetAssumption ==
    /\ LedgerMax \in Nat /\ LedgerMax >= 2
    /\ RollingWindow \in Nat \ {0}
    /\ Budget \in Nat
    /\ Unlimited \in BOOLEAN

Segments == [start : Nat, end : Nat]

IsOpen(s) == s.end = 0

\* The end a segment is billed to at time t: now for the open one.
SegEnd(s, t) == IF IsOpen(s) THEN t ELSE s.end

WindowFloor(t) == IF t > RollingWindow THEN t - RollingWindow ELSE 0

(***************************************************************************)
(* pgwt_esc_budget_consumed_ns drops the segments that ended before the    *)
(* rolling window and sums, over the others, the ticks that lie inside it: *)
(* the sum of the lengths is the number of (segment, tick) pairs.          *)
(***************************************************************************)
Prune(ledger, t) == {s \in ledger : SegEnd(s, t) > WindowFloor(t)}

Covers(s, k, t) == s.start <= k /\ k < SegEnd(s, t)

BilledTicks(ledger, t) ==
    {p \in Prune(ledger, t) \X (WindowFloor(t) .. (t - 1)) : Covers(p[1], p[2], t)}

MutConsumedClosed(ledger, t) == Cardinality(BilledTicks({s \in ledger : ~IsOpen(s)}, t))
Consumed(ledger, t) == Cardinality(BilledTicks(ledger, t))

\* pgwt_esc_budget_decide: what may be granted at t of a request for `want`;
\* 0 is the denial (a grant is always positive, because `want` is).
MutGrantUnclamped(ledger, t, want) ==
    IF Unlimited THEN want
    ELSE IF Budget > Consumed(ledger, t) THEN want ELSE 0
Grant(ledger, t, want) ==
    LET avail == Budget - Consumed(ledger, t)
    IN  IF Unlimited THEN want
        ELSE IF Budget = 0 \/ avail <= 0 THEN 0
        ELSE IF want < avail THEN want ELSE avail

\* pgwt_esc_budget_decide prunes only when it had to compute consumption.
AfterDecide(ledger, t) ==
    IF Unlimited \/ Budget = 0 THEN ledger ELSE Prune(ledger, t)

\* pgwt_esc_budget_over.
OverBudget(ledger, t) ==
    /\ ~Unlimited
    /\ Budget # 0
    /\ Consumed(ledger, t) >= Budget

(***************************************************************************)
(* coalesce_oldest merges the two oldest segments into one that spans      *)
(* both, billing the gap between them.                                     *)
(***************************************************************************)
Oldest(ledger) == CHOOSE s \in ledger : \A r \in ledger : s.start <= r.start

MutDropOldest(ledger) == ledger \ {Oldest(ledger)}
CoalesceOldest(ledger) ==
    LET a == Oldest(ledger)
        b == Oldest(ledger \ {a})
        merged == [start |-> a.start,
                   end   |-> IF IsOpen(a) \/ IsOpen(b) THEN 0
                             ELSE IF a.end > b.end THEN a.end ELSE b.end]
    IN  (ledger \ {a, b}) \cup {merged}

\* pgwt_esc_ledger_open: prune, make room, append the open segment.
MutOpenUnlessFull(ledger, t) ==
    LET kept == Prune(ledger, t)
    IN  IF Cardinality(kept) >= LedgerMax THEN kept
        ELSE kept \cup {[start |-> t, end |-> 0]}
MutOpenUnclamped(ledger, t) == Prune(ledger, t) \cup {[start |-> t - RollingWindow, end |-> 0]}
LedgerOpen(ledger, t) ==
    LET kept == Prune(ledger, t)
        room == IF Cardinality(kept) >= LedgerMax THEN CoalesceOldest(kept) ELSE kept
    IN  IF Cardinality(room) < LedgerMax
        THEN room \cup {[start |-> t, end |-> 0]}
        ELSE room

\* pgwt_esc_ledger_close: the most recently opened segment that is still open
\* ends at t.
MutCloseLate(ledger, t) ==
    {IF IsOpen(s) THEN [s EXCEPT !.end = t + 1] ELSE s : s \in ledger}
LedgerClose(ledger, t) ==
    LET open == {s \in ledger : IsOpen(s)}
        last == CHOOSE s \in open : \A r \in open : r.start <= s.start
    IN  IF open = {} THEN ledger
        ELSE (ledger \ {last}) \cup {[last EXCEPT !.end = t]}

=============================================================================
