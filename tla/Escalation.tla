----------------------------- MODULE Escalation -----------------------------
(***************************************************************************)
(* The tiered-mode escalation engine of src/escalation.c: bounded windows  *)
(* of full-fidelity capture, opened on request, extended, and closed by    *)
(* the deadline timer, the budget check, a request or shutdown.            *)
(*                                                                         *)
(* The daemon is single-threaded: a handler runs to completion, so each is *)
(* one action.  Between handlers the clock advances; the loop serves a due *)
(* deadline at most Lag ticks late.                                        *)
(***************************************************************************)
EXTENDS EscalationBudget

CONSTANTS
    Durations,  \* the window lengths callers ask for
    Lag,        \* how many ticks late the loop may serve a due deadline
    MaxTime,    \* bound: the last clock tick explored
    MaxGen      \* bound: how many generations are begun

ASSUME EscalationAssumption ==
    /\ Durations \subseteq Nat \ {0}
    /\ Lag \in Nat
    /\ MaxTime \in Nat
    /\ MaxGen \in Nat

VARIABLES
    now,         \* CLOCK_MONOTONIC
    active,      \* e->active
    deadline,    \* e->window_deadline_ns
    windowStart, \* e->window_start_ns
    ledger,      \* e->ledger[0 .. ledger_count)
    generation,  \* e->generation, 0 = none
    nextGeneration,
    probeGen,    \* generation the exact probe bundle is held for, 0 = released
    seeds,       \* generations that have per-backend seeds in exact_seed_map
    cpuActive,   \* exact_cpu_active, the BPF switch accounting gate
    exactTicks   \* history: the ticks of the last RollingWindow spent escalated

budgetVars == <<now, active, deadline, windowStart, ledger, exactTicks>>
exactVars  == <<generation, nextGeneration, probeGen, seeds, cpuActive>>
vars       == <<budgetVars, exactVars>>

Init ==
    /\ now = 1
    /\ active = FALSE
    /\ deadline = 0
    /\ windowStart = 0
    /\ ledger = {}
    /\ generation = 0
    /\ nextGeneration = 0
    /\ probeGen = 0
    /\ seeds = {}
    /\ cpuActive = FALSE
    /\ exactTicks = {}

-----------------------------------------------------------------------------
\* The budget denies the request: nothing but the pruned ledger changes.
EscalateDenied(want) ==
    /\ Grant(ledger, now, want) = 0
    /\ ledger' = AfterDecide(ledger, now)
    /\ UNCHANGED <<now, active, deadline, windowStart, exactTicks, exactVars>>

\* A request while a window is open only ever moves the deadline later.
MutExtend(want) ==
    /\ active
    /\ Grant(ledger, now, want) > 0
    /\ ledger' = AfterDecide(ledger, now)
    /\ deadline' = now + Grant(ledger, now, want)
    /\ UNCHANGED <<now, active, windowStart, exactTicks, exactVars>>
Extend(want) ==
    /\ active
    /\ Grant(ledger, now, want) > 0
    /\ ledger' = AfterDecide(ledger, now)
    /\ LET later == now + Grant(ledger, now, want)
       IN  deadline' = IF later > deadline THEN later ELSE deadline
    /\ UNCHANGED <<now, active, windowStart, exactTicks, exactVars>>

\* A fresh window: the boundary is opened, the bundle acquired, the backends
\* seeded, the watchpoints armed, and the segment billed from the boundary.
EscalateFresh(want) ==
    /\ ~active
    /\ Grant(ledger, now, want) > 0
    /\ nextGeneration < MaxGen
    /\ generation' = nextGeneration + 1
    /\ nextGeneration' = nextGeneration + 1
    /\ probeGen' = generation'
    /\ seeds' = seeds \cup {generation'}
    /\ cpuActive' = TRUE
    /\ active' = TRUE
    /\ windowStart' = now
    /\ ledger' = LedgerOpen(AfterDecide(ledger, now), now)
    /\ deadline' = now + Grant(ledger, now, want)
    /\ UNCHANGED <<now, exactTicks>>

\* A fresh window whose bundle cannot be attached: rolled back, no window.
EscalateAttachFails(want) ==
    /\ ~active
    /\ Grant(ledger, now, want) > 0
    /\ nextGeneration < MaxGen
    /\ nextGeneration' = nextGeneration + 1
    /\ generation' = 0
    /\ ledger' = AfterDecide(ledger, now)
    /\ UNCHANGED <<now, active, deadline, windowStart, exactTicks,
                   probeGen, seeds, cpuActive>>

\* A fresh window whose preseed fails part-way: the seeds already written for
\* the new generation are cleared, the bundle is released.
MutPreseedFails(want) ==
    /\ ~active
    /\ Grant(ledger, now, want) > 0
    /\ nextGeneration < MaxGen
    /\ nextGeneration' = nextGeneration + 1
    /\ generation' = 0
    /\ probeGen' = 0
    /\ \E written \in {{}, {nextGeneration'}} : seeds' = seeds \cup written
    /\ cpuActive' = FALSE
    /\ ledger' = AfterDecide(ledger, now)
    /\ UNCHANGED <<now, active, deadline, windowStart, exactTicks>>
EscalatePreseedFails(want) ==
    /\ ~active
    /\ Grant(ledger, now, want) > 0
    /\ nextGeneration < MaxGen
    /\ nextGeneration' = nextGeneration + 1
    /\ generation' = 0
    /\ probeGen' = 0
    /\ \E written \in {{}, {nextGeneration'}} :
           seeds' = (seeds \cup written) \ {nextGeneration'}
    /\ cpuActive' = FALSE
    /\ ledger' = AfterDecide(ledger, now)
    /\ UNCHANGED <<now, active, deadline, windowStart, exactTicks>>

Escalate ==
    \E want \in Durations :
        \/ EscalateDenied(want)
        \/ Extend(want)
        \/ EscalateFresh(want)
        \/ EscalateAttachFails(want)
        \/ EscalatePreseedFails(want)

\* pgwt_deescalate, run on ledger l: the segment is closed, the bundle
\* released and the seeds of the generation cleared.  Attaching and detaching
\* take time, so a window lasts at least a tick.
CloseWindow(l) ==
    /\ now > windowStart
    /\ active' = FALSE
    /\ ledger' = LedgerClose(l, now)
    /\ probeGen' = 0
    /\ seeds' = seeds \ {generation}
    /\ generation' = 0
    /\ cpuActive' = FALSE
    /\ UNCHANGED <<now, deadline, windowStart, exactTicks, nextGeneration>>

\* A client's deescalate request, or pgwt_escalation_cleanup at shutdown.
Deescalate ==
    /\ active
    /\ CloseWindow(ledger)

\* pgwt_escalation_on_timer.
OnTimer ==
    /\ active
    /\ now >= deadline
    /\ CloseWindow(ledger)

\* pgwt_escalation_check_budget, from the display timer.
CheckBudget ==
    /\ active
    /\ IF OverBudget(ledger, now)
       THEN CloseWindow(AfterDecide(ledger, now))
       ELSE /\ ledger' = AfterDecide(ledger, now)
            /\ UNCHANGED <<now, active, deadline, windowStart, exactTicks, exactVars>>

\* pgwt_escalation_budget_remaining_s, from the status command: the read-only
\* query prunes the ledger as a side effect.
QueryRemaining ==
    /\ ledger' = AfterDecide(ledger, now)
    /\ UNCHANGED <<now, active, deadline, windowStart, exactTicks, exactVars>>

\* The clock moves on, unless a due deadline has waited Lag ticks.
Tick ==
    /\ now < MaxTime
    /\ ~(active /\ now >= deadline + Lag)
    /\ now' = now + 1
    /\ exactTicks' = {t \in exactTicks \cup (IF active THEN {now} ELSE {}) :
                          t >= WindowFloor(now + 1)}
    /\ UNCHANGED <<active, deadline, windowStart, ledger, exactVars>>

Next == Escalate \/ Deescalate \/ OnTimer \/ CheckBudget \/ QueryRemaining \/ Tick

Spec == Init /\ [][Next]_vars

-----------------------------------------------------------------------------
TypeOK ==
    /\ now \in Nat \ {0}
    /\ active \in BOOLEAN
    /\ deadline \in Nat
    /\ windowStart \in Nat
    /\ ledger \in SUBSET Segments
    /\ generation \in Nat
    /\ nextGeneration \in Nat
    /\ probeGen \in Nat
    /\ seeds \in SUBSET Nat
    /\ cpuActive \in BOOLEAN
    /\ exactTicks \in SUBSET Nat

(***************************************************************************)
(* ESC-5: full-fidelity time is never unbilled.  Whatever was pruned or    *)
(* coalesced, every tick of the rolling window that was spent escalated    *)
(* lies inside a segment of the ledger.                                    *)
(***************************************************************************)
NeverUnbilled == \A t \in exactTicks : \E s \in ledger : Covers(s, t, now)

(***************************************************************************)
(* ESC-1: however often a window is extended and however many windows are  *)
(* opened, the full-fidelity time inside the rolling hour that ends now    *)
(* stays within the budget, give or take the loop's lateness in serving a  *)
(* due deadline.                                                           *)
(***************************************************************************)
BudgetHolds == Unlimited \/ Cardinality(exactTicks) <= Budget + Lag

(***************************************************************************)
(* The deadline armed for a window, moved by any number of extensions,     *)
(* commits no more than the budget: the full-fidelity time already spent   *)
(* in the rolling hour plus what the deadline still allows (negative once  *)
(* it has passed).  This is what makes BudgetHolds inductive               *)
(* (escalation_budget.h, "consumed_now + grant_ns <= budget").             *)
(***************************************************************************)
CommitmentWithinBudget ==
    active /\ ~Unlimited => Cardinality(exactTicks) + (deadline - now) <= Budget

Disjoint(l, t) ==
    \A s, r \in l : s # r => SegEnd(s, t) <= r.start \/ SegEnd(r, t) <= s.start

(***************************************************************************)
(* The ledger mirrors the engine: exactly the active window has an open    *)
(* segment, there is never a second one, segments do not overlap, so no    *)
(* time is billed twice, and the array is never overrun.                   *)
(***************************************************************************)
LedgerSound ==
    /\ active <=> \E s \in ledger : IsOpen(s)
    /\ Disjoint(ledger, now)
    /\ Cardinality(ledger) <= LedgerMax

(***************************************************************************)
(* What the ledger's soundness rests on: closed segments are non-empty and *)
(* in the past, the open one began at the active window's boundary, and    *)
(* the escalated ticks on record are those of the rolling window.          *)
(***************************************************************************)
LedgerShape ==
    /\ IsFiniteSet(ledger)
    /\ \A s \in ledger : ~IsOpen(s) => s.start < s.end /\ s.end <= now
    /\ \A s \in ledger : IsOpen(s) => s.start = windowStart
    /\ windowStart <= now
    /\ exactTicks \subseteq WindowFloor(now) .. (now - 1)
    /\ active => now <= deadline + Lag

(***************************************************************************)
(* A failed or finished escalation leaves nothing behind: outside a window *)
(* no generation, no held bundle, no seed and no switch accounting; inside *)
(* one, the bundle and the seeds belong to its generation.                 *)
(***************************************************************************)
NothingLeftBehind ==
    /\ active => generation # 0 /\ probeGen = generation /\ seeds = {generation} /\ cpuActive
    /\ ~active => generation = 0 /\ probeGen = 0 /\ seeds = {} /\ ~cpuActive

\* A live window is never shortened by another request: only closing it ends it.
NeverShortened == [][active /\ active' => deadline' >= deadline]_vars

=============================================================================
