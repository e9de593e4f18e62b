-------------------------- MODULE QueryAttribution --------------------------
(***************************************************************************)
(* Exact query attribution: which query, and whether a command is open,    *)
(* for a backend inside an exact window.                                   *)
(*                                                                         *)
(* A backend's report calls run a uprobe (src/bpf/pg_wait_tracer.bpf.c)    *)
(* before they write shared memory.  The daemon opens a window by taking a *)
(* boundary, naming a generation, attaching the probes, reading a seed of  *)
(* every backend and arming its watchpoint (src/escalation.c,              *)
(* src/exact_probe.c, src/backend.c).  Both sides then merge seed and edge *)
(* by one rule (src/pg_wait_tracer.h).                                     *)
(*                                                                         *)
(* Time stamps are compared with the window's boundary only, so a stamp is *)
(* kept as `fresh': taken at or after the latest boundary.  The markers of *)
(* a backend are kept as how far they pair up in time-stamp order, so the  *)
(* number of reports needs no bound.  PG14+ reports are modelled; backends *)
(* neither fork nor exit here.                                             *)
(***************************************************************************)
EXTENDS ProbeBundle, FiniteSets

CONSTANTS Backends,      \* the live backends of the registry
          Queries,       \* query ids, without 0
          Layouts,       \* PgBackendStatus layouts at startup
          AttachFaults,  \* sets of members that may fail to attach together
          MaxWindows     \* bound: windows requested

ASSUME AttributionAssumption ==
    /\ IsFiniteSet(Backends)
    /\ Queries \subseteq Nat \ {0}
    /\ Layouts \subseteq {"validated", "degraded"}
    /\ AttachFaults \subseteq SUBSET Members
    /\ MaxWindows \in Nat

VARIABLES
    layout,    \* pgwt_pgbs_sampled_attr_enabled, or the degraded fallback
    pc,        \* where the daemon is in pgwt_escalate / pgwt_deescalate
    todo,      \* backends the current loop over the registry has left
    windows,   \* next_generation
    core,      \* struct pgwt_exact_probe_core
    cfg,       \* exact_config_map
    mem,       \* the backend's own state: query id, command, executor
    call,      \* the report call the backend is in
    edge,      \* exact_attr_map
    seed,      \* exact_seed_map
    live,      \* state_map.wp_live
    marks,     \* how the current window's markers of the backend pair up
    source,    \* history: what the backend's seed was made from
    torn       \* history: a boundary is in the merged state or marked, not both

daemonVars  == <<layout, pc, todo, windows, core, cfg>>
backendVars == <<mem, call>>
history     == <<source, torn>>
vars == <<daemonVars, backendVars, edge, seed, live, marks, history>>

QueryIds == Queries \union {0}
Kinds    == {"query_id", "activity", "exec"}
Closed   == [query_id |-> 0, activity |-> FALSE, exec |-> FALSE]
States   == [query_id : QueryIds, activity : BOOLEAN, exec : BOOLEAN]
\* `noted' is history: the edge of the call counts in the current window.
Idle     == [step |-> "idle", kind |-> "activity", val |-> FALSE,
             fresh |-> FALSE, noted |-> FALSE]
NoStamp(v) == [gen |-> 0, fresh |-> FALSE, val |-> v]
NoEdge   == [k \in Kinds |-> NoStamp(Closed[k])]
NoMarks  == [activity |-> "none", exec |-> "none"]
NoSeed   == [gen |-> 0, query_id |-> 0, activity |-> FALSE]

-----------------------------------------------------------------------------
\* pgwt_exact_merge_attr: generation 0 reads the edge; otherwise the seed, and
\* over it each field with an edge of this generation not before the boundary.
Current(b, k) == edge[b][k].gen = cfg.generation /\ edge[b][k].fresh

MutMerge(b, k) ==
    IF cfg.generation # 0 /\ seed[b].gen = cfg.generation THEN seed[b][k]
    ELSE edge[b][k].val
Merge(b, k) ==
    IF cfg.generation = 0 \/ Current(b, k) THEN edge[b][k].val
    ELSE IF seed[b].gen = cfg.generation THEN seed[b][k]
    ELSE Closed[k]

exact_admission_open == cfg.generation = 0 \/ cfg.admitting

\* Between the synthetic command start and the armed watchpoint of a backend.
InGap(b) == pc = "attach" \/ (pc = "synth" /\ b \notin todo)

-----------------------------------------------------------------------------
(* A backend: one report call at a time.                                   *)

\* What a backend reports next: a command opens, is re-announced while it
\* runs, names a query or resets it to 0, executes, and closes with neither.
MayReport(b, k, v) ==
    \/ k = "activity" /\ (v \/ (mem[b].activity /\ mem[b].query_id = 0 /\ ~mem[b].exec))
    \/ k = "query_id" /\ mem[b].activity /\ v # mem[b].query_id
    \/ k = "exec" /\ mem[b].activity /\ v # mem[b].exec

\* The call enters: the uprobe runs when its member is attached.
Report(b, k, v) ==
    /\ call[b].step = "idle"
    /\ MayReport(b, k, v)
    /\ call' = [call EXCEPT ![b] =
           [step |-> IF k \in core.attached THEN "check" ELSE "write",
            kind |-> k, val |-> v, fresh |-> FALSE, noted |-> FALSE]]
    /\ UNCHANGED <<daemonVars, mem, edge, seed, live, marks, history>>

\* The probe's admission check, and the time stamp it takes after it.
Check(b) ==
    /\ call[b].step = "check"
    /\ call' = [call EXCEPT ![b].step = IF exact_admission_open THEN "note" ELSE "write",
                            ![b].fresh = TRUE]
    /\ UNCHANGED <<daemonVars, mem, edge, seed, live, marks, history>>

\* note_query_edge, note_cmd_edge, note_phase_edge: the field's generation,
\* stamp and value.  A command marker follows only when the merged gate flips
\* and the watchpoint is live; an executor marker always follows.
Note(b) ==
    LET c     == call[b]
        flips == c.kind = "activity" /\ Merge(b, "activity") # c.val
        emits == c.kind = "exec" \/ (flips /\ live[b])
    IN  /\ c.step = "note"
        /\ edge' = [edge EXCEPT ![b][c.kind] =
                       [gen |-> cfg.generation, fresh |-> c.fresh, val |-> c.val]]
        /\ call' = [call EXCEPT ![b].step = IF emits THEN "emit" ELSE "write",
                                ![b].noted = c.fresh]
        /\ torn' = [torn EXCEPT ![b] = @ \/ (flips /\ ~live[b] /\ InGap(b))]
        /\ UNCHANGED <<daemonVars, mem, seed, live, marks, source>>

\* The record of one more marker: a START opens a pair and an END closes it.
\* An execution that began before the window may send a first END alone.
Paired(state, k, start) ==
    CASE start /\ state \in {"none", "closed"}             -> "open"
      [] ~start /\ state = "open"                          -> "closed"
      [] ~start /\ state = "none" /\ k = "exec"            -> "closed"
      [] OTHER                                             -> "broken"
Marked(b, k, start) == [marks EXCEPT ![b][k] = Paired(@, k, start)]

\* The second admission check, immediately before emit_event.
Emit(b) ==
    /\ call[b].step = "emit"
    /\ marks' = IF exact_admission_open THEN Marked(b, call[b].kind, call[b].val)
                                        ELSE marks
    /\ torn' = [torn EXCEPT ![b] = @ \/ ~exact_admission_open \/ ~call[b].fresh]
    /\ call' = [call EXCEPT ![b].step = "write"]
    /\ UNCHANGED <<daemonVars, mem, edge, seed, live, source>>

\* The body of the report function writes the backend's status.
WriteStatus(b) ==
    /\ call[b].step = "write"
    /\ mem' = [mem EXCEPT ![b][call[b].kind] = call[b].val]
    /\ call' = [call EXCEPT ![b] = Idle]
    /\ UNCHANGED <<daemonVars, edge, seed, live, marks, history>>

-----------------------------------------------------------------------------
(* The daemon.                                                             *)

\* The uprobe unregistration of a member waits for its running handlers.
Detachable(members) ==
    \A b \in Backends :
        call[b].step \in {"check", "note", "emit"} => call[b].kind \notin members

\* pgwt_exact_probe_startup: a degraded layout pins what attaches.
Startup(fail) ==
    /\ pc = "start"
    /\ pc' = "warm"
    /\ core' = IF layout = "validated" THEN core ELSE PinBestEffort(core, Attr, 0, fail)
    /\ UNCHANGED <<layout, todo, windows, cfg, backendVars>>
    /\ UNCHANGED <<edge, seed, live, marks, history>>

\* pgwt_exact_probe_reconcile_sampled, once, after the validation warm-up: a
\* layout validated by then releases the pinned probes.
Reconcile(validated) ==
    /\ pc = "warm"
    /\ layout = "validated" => validated
    /\ validated => Detachable(Attr)
    /\ pc' = "idle"
    /\ layout' = IF validated THEN "validated" ELSE layout
    /\ core' = IF validated THEN Unpin(core, Attr) ELSE core
    /\ UNCHANGED <<todo, windows, cfg, backendVars, edge, seed, live, marks, history>>

\* pgwt_escalate takes the generation and the boundary: every stamp taken so
\* far is before it, those of the probes still running included.
Boundary ==
    /\ pc = "idle"
    /\ windows < MaxWindows
    /\ windows' = windows + 1
    /\ edge' = [b \in Backends |-> [k \in Kinds |-> [edge[b][k] EXCEPT !.fresh = FALSE]]]
    /\ call' = [b \in Backends |-> [call[b] EXCEPT !.fresh = FALSE]]
    /\ pc' = "boundary"
    /\ UNCHANGED <<layout, todo, core, cfg, mem, seed, live, marks, history>>

\* pgwt_exact_probe_acquire publishes the config before it attaches.
SetConfig ==
    /\ pc = "boundary"
    /\ cfg' = [generation |-> windows, admitting |-> TRUE]
    /\ call' = [b \in Backends |-> [call[b] EXCEPT !.noted = FALSE]]
    /\ pc' = "config"
    /\ UNCHANGED <<layout, todo, windows, core, mem, edge, seed, live, marks, history>>

\* The markers and the history are of one window.
NewWindow ==
    /\ marks' = [b \in Backends |-> NoMarks]
    /\ torn' = [b \in Backends |-> FALSE]
    /\ source' = [b \in Backends |-> "none"]

AcquireProbes(fail) ==
    /\ pc = "config"
    /\ Acquirable(core, Members, windows, fail)
    /\ core' = Acquire(core, Members, windows, fail)
    /\ pc' = "seed"
    /\ todo' = Backends
    /\ NewWindow
    /\ UNCHANGED <<layout, windows, cfg, backendVars, edge, seed, live>>

AcquireDenied(fail) ==
    /\ pc = "config"
    /\ ~Acquirable(core, Members, windows, fail)
    /\ cfg' = [generation |-> 0, admitting |-> TRUE]
    /\ pc' = "idle"
    /\ UNCHANGED <<layout, todo, windows, core, backendVars>>
    /\ UNCHANGED <<edge, seed, live, marks, history>>

Unprobed(b) == call[b].step = "write" /\ ~call[b].noted
HasEdge(b)  == Current(b, "query_id") \/ Current(b, "activity")

\* pgwt_exact_seed_backend.  A validated layout reads the backend's status
\* coherently ("straddled": while a call no probe has seen is under way).  When
\* the read fails, an edge of this window in either field stands in for both.
\* A degraded layout takes the last edge of any generation, and over it what
\* pgwt_read_cmd_gate can read: the gate, then the query id while it is open.
SeedFrom(b, from) ==
    LET value(k) ==
            CASE from \in {"read", "straddled"}     -> mem[b][k]
              [] from = "edge"                      -> Merge(b, k)
              [] from = "none"                      -> Closed[k]
              [] from = "gate" /\ k = "activity"    -> mem[b][k]
              [] from \in {"last", "gate"}          -> edge[b][k].val
    IN  [gen |-> cfg.generation, query_id |-> value("query_id"),
         activity |-> value("activity")]

Sources(b, require_coherent) ==
    LET whole == IF Unprobed(b) THEN "straddled" ELSE "read"
    IN  IF layout = "validated"
        THEN {whole} \union (IF HasEdge(b) THEN {"edge"} ELSE {})
                     \union (IF require_coherent \/ HasEdge(b) THEN {} ELSE {"none"})
        ELSE {"last", "gate"} \union (IF mem[b].activity THEN {whole} ELSE {})

PutSeed(b, from) ==
    /\ seed' = [seed EXCEPT ![b] = SeedFrom(b, from)]
    /\ source' = [source EXCEPT ![b] = from]

\* The registry loop of the daemon: b is done, and after the last one the next
\* loop, or step, starts.
MutLoop(b, next, again) ==
    /\ b \in todo
    /\ todo' = IF todo # {b} THEN todo \ {b} ELSE Backends
    /\ pc' = IF todo = {b} THEN next ELSE pc
Loop(b, next, again) ==
    /\ b \in todo
    /\ todo' = IF todo # {b} THEN todo \ {b} ELSE IF again THEN Backends ELSE {}
    /\ pc' = IF todo = {b} THEN next ELSE pc

\* pgwt_exact_seed_all, with require_coherent.
Seed(b) ==
    /\ pc = "seed"
    /\ \E from \in Sources(b, TRUE) : PutSeed(b, from)
    /\ Loop(b, "synth", TRUE)
    /\ UNCHANGED <<layout, windows, core, cfg, backendVars, edge, live, marks, torn>>

Clear(g) == [b \in Backends |-> IF seed[b].gen = g THEN NoSeed ELSE seed[b]]

\* pgwt_exact_probe_release, then pgwt_exact_seed_clear.
MutReleaseExact ==
    /\ core' = Release(core)
    /\ cfg' = [cfg EXCEPT !.generation = 0]
    /\ UNCHANGED seed
    /\ NewWindow
ReleaseExact ==
    /\ Detachable(core.attached \ core.pinned)
    /\ core' = Release(core)
    /\ cfg' = IF core'.consumers = 0 THEN [generation |-> 0, admitting |-> TRUE] ELSE cfg
    /\ seed' = Clear(cfg.generation)
    /\ NewWindow

\* No coherent seed for a live backend: the escalation is rolled back.
SeedDenied(b) ==
    /\ pc = "seed"
    /\ b \in todo
    /\ layout = "validated"
    /\ ~HasEdge(b)
    /\ ReleaseExact
    /\ pc' = "idle"
    /\ todo' = {}
    /\ UNCHANGED <<layout, windows, backendVars, edge, live>>

\* synthesize_command_starts: a command open in the merged state.
Synth(b) ==
    /\ pc = "synth"
    /\ marks' = IF Merge(b, "activity") THEN Marked(b, "activity", TRUE) ELSE marks
    /\ Loop(b, "attach", TRUE)
    /\ UNCHANGED <<layout, windows, core, cfg, backendVars, edge, seed, live, history>>

\* attach_all, pgwt_attach_backend_watchpoint: the backend is seeded again,
\* this time without require_coherent, then preseed_state_map sets wp_live.
Attach(b) ==
    /\ pc = "attach"
    /\ \E from \in Sources(b, FALSE) : PutSeed(b, from)
    /\ torn' = [torn EXCEPT ![b] =
           @ \/ (~Current(b, "activity") /\ seed'[b].activity # seed[b].activity)]
    /\ live' = [live EXCEPT ![b] = TRUE]
    /\ Loop(b, "open", FALSE)
    /\ UNCHANGED <<layout, windows, core, cfg, backendVars, edge, marks>>

\* pgwt_deescalate: admission closes with the bundle still attached.
Quiesce ==
    /\ pc = "open"
    /\ cfg' = [cfg EXCEPT !.admitting = FALSE]
    /\ pc' = "terminal"
    /\ todo' = Backends
    /\ UNCHANGED <<layout, windows, core, backendVars, edge, seed, live, marks, history>>

\* synthesize_terminal_markers: the command end, then the end of an execution
\* whose start belongs to this window.
EndsNow(b, k) == IF k = "activity" THEN Merge(b, k)
                                   ELSE Current(b, k) /\ edge[b][k].val

MutTerminal(b) ==
    /\ pc = "terminal"
    /\ Loop(b, "detach", TRUE)
    /\ UNCHANGED <<layout, windows, core, cfg, backendVars, edge, seed, live, marks, history>>
Terminal(b) ==
    /\ pc = "terminal"
    /\ marks' = [marks EXCEPT ![b] =
           [k \in DOMAIN @ |-> IF EndsNow(b, k) THEN Paired(@[k], k, FALSE) ELSE @[k]]]
    /\ Loop(b, "detach", TRUE)
    /\ UNCHANGED <<layout, windows, core, cfg, backendVars, edge, seed, live, history>>

\* detach_all clears wp_live.
Detach(b) ==
    /\ pc = "detach"
    /\ live' = [live EXCEPT ![b] = FALSE]
    /\ Loop(b, "release", FALSE)
    /\ UNCHANGED <<layout, windows, core, cfg, backendVars, edge, seed, marks, history>>

ReleaseWindow ==
    /\ pc = "release"
    /\ ReleaseExact
    /\ pc' = "idle"
    /\ UNCHANGED <<layout, todo, windows, backendVars, edge, live>>

-----------------------------------------------------------------------------
Init ==
    /\ layout \in Layouts
    /\ pc = "start"
    /\ todo = {}
    /\ windows = 0
    /\ core = NoCore
    /\ cfg = [generation |-> 0, admitting |-> TRUE]
    /\ mem = [b \in Backends |-> Closed]
    /\ call = [b \in Backends |-> Idle]
    /\ edge = [b \in Backends |-> NoEdge]
    /\ seed = [b \in Backends |-> NoSeed]
    /\ live = [b \in Backends |-> FALSE]
    /\ marks = [b \in Backends |-> NoMarks]
    /\ source = [b \in Backends |-> "none"]
    /\ torn = [b \in Backends |-> FALSE]

Next ==
    \/ \E fail \in AttachFaults :
           Startup(fail) \/ AcquireProbes(fail) \/ AcquireDenied(fail)
    \/ \E validated \in BOOLEAN : Reconcile(validated)
    \/ Boundary
    \/ SetConfig
    \/ \E b \in Backends : Seed(b) \/ SeedDenied(b) \/ Synth(b) \/ Attach(b)
    \/ Quiesce
    \/ \E b \in Backends : Terminal(b) \/ Detach(b)
    \/ ReleaseWindow
    \/ \E b \in Backends, k \in {"activity", "exec"}, v \in BOOLEAN : Report(b, k, v)
    \/ \E b \in Backends, v \in QueryIds : Report(b, "query_id", v)
    \/ \E b \in Backends : Check(b) \/ Note(b) \/ Emit(b) \/ WriteStatus(b)

Spec == Init /\ [][Next]_vars

-----------------------------------------------------------------------------
(* Properties.                                                             *)

Stamps(V) == [gen : Nat, fresh : BOOLEAN, val : V]

\* Every variable keeps the shape of the structure it stands for, and the
\* daemon has backends left to visit only inside a loop over the registry.
TypeOK ==
    /\ layout \in {"validated", "degraded"}
    /\ pc \in {"start", "warm", "idle", "boundary", "config", "seed", "synth",
               "attach", "open", "terminal", "detach", "release"}
    /\ todo \subseteq Backends
    /\ todo # {} => pc \in {"seed", "synth", "attach", "terminal", "detach"}
    /\ windows \in Nat
    /\ core \in Cores
    /\ cfg \in [generation : Nat, admitting : BOOLEAN]
    /\ mem \in [Backends -> States]
    /\ \A b \in Backends :
        /\ call[b].step \in {"idle", "check", "note", "emit", "write"}
        /\ call[b].kind \in Kinds
        /\ call[b].val \in (IF call[b].kind = "query_id" THEN QueryIds ELSE BOOLEAN)
        /\ edge[b]["query_id"] \in Stamps(QueryIds)
        /\ edge[b]["activity"] \in Stamps(BOOLEAN)
        /\ edge[b]["exec"] \in Stamps(BOOLEAN)
    /\ seed \in [Backends -> [gen : Nat, query_id : QueryIds, activity : BOOLEAN]]
    /\ live \in [Backends -> BOOLEAN]
    /\ marks \in [Backends ->
           [{"activity", "exec"} -> {"none", "open", "closed", "broken"}]]
    /\ source \in [Backends -> {"none", "read", "straddled", "edge", "last", "gate"}]
    /\ torn \in [Backends -> BOOLEAN]

Admitting == layout = "validated" /\ cfg.generation # 0 /\ cfg.admitting

\* With a validated layout, inside an admitting window, a field of a backend
\* between report calls is what the backend reports, once it was read into the
\* seed coherently or reported in the window, whatever reports came between
\* boundary, attach, seed and now (pgwt_exact_merge_attr, pgwt_exact_seed_all).
Attributed ==
    Admitting =>
        \A b \in Backends, k \in {"query_id", "activity"} :
            (call[b].step = "idle" /\
             ((seed[b].gen = cfg.generation /\ source[b] = "read") \/ Current(b, k)))
            => Merge(b, k) = mem[b][k]

\* pgwt_escalate calls its order "fail-closed" with a "coherent per-backend
\* seed" before the watchpoints: in a window that was granted, both fields of
\* every backend are right, save for a report already under way unprobed.
AttributedWhenGranted ==
    (Admitting /\ pc = "open") =>
        \A b \in Backends, k \in {"query_id", "activity"} :
            (call[b].step = "idle" /\ source[b] # "straddled") => Merge(b, k) = mem[b][k]

\* Once a window's terminal markers are written, the command markers of every
\* backend are START/END pairs, and an execution started in the window has
\* ended in it: synthetic and probe markers neither repeat nor contradict each
\* other, unless a boundary is known to the merged state or marked, but not both.
MarksPaired ==
    pc \in {"detach", "release"} =>
        \A b \in Backends : (~torn[b] /\ call[b].step # "emit") =>
            \A k \in {"activity", "exec"} : marks[b][k] \in {"none", "closed"}

\* A window never runs on half a bundle, and links never outlive their user:
\* pinned links are attached, with no consumer nothing but pinned links is, and
\* a consumer has every required member, of the generation the probes stamp.
BundleSound ==
    /\ core.pinned \subseteq core.attached
    /\ core.consumers = 0 => core.attached \subseteq core.pinned
    /\ core.consumers > 0 =>
           Attr \subseteq core.attached /\ core.generation = cfg.generation

\* Outside a window no trace of one is left, whichever way it ended (closed,
\* denied at attach, denied at seed): no exact generation in the config, no
\* consumer, no phase probe, no seed, no live watchpoint.
NothingOutlives ==
    pc = "idle" =>
        /\ cfg = [generation |-> 0, admitting |-> TRUE]
        /\ core.consumers = 0 /\ core.attached \intersect Phase = {}
        /\ \A b \in Backends : seed[b] = NoSeed /\ ~live[b]
=============================================================================
