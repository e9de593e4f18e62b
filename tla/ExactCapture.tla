---------------------------- MODULE ExactCapture ----------------------------
(***************************************************************************)
(* Exact capture: the BPF programs that turn writes of a backend's         *)
(* wait_event_info into interval records (src/bpf/pg_wait_tracer.bpf.c),   *)
(* the ring that carries the records, and the daemon that enrolls new      *)
(* backends, arms the watchpoints, repairs stale entries, drains the ring  *)
(* and closes what is still open at the end of a window (src/backend.c,    *)
(* src/escalation.c) or of the process (src/daemon.c).                     *)
(*                                                                         *)
(* Backends run concurrently with the daemon.  A BPF program is several    *)
(* steps (read the clock, emit, store), a daemon handler one step per      *)
(* backend of its loops and per access to what a backend may change, and   *)
(* the daemon does nothing else in between.                                *)
(*                                                                         *)
(* Time is a clock of whole units.  A record says that a backend was in    *)
(* one wait event from one instant to another; `trace' counts, for each    *)
(* backend and unit, the records that the writer has accepted for it.      *)
(***************************************************************************)
EXTENDS Integers, Sequences, FiniteSets

CONSTANTS
    Backends,     \* the backends, one process each
    Late,         \* those that fork after the daemon's first scan
    Events,       \* values of wait_event_info; one of them stands for CPU
    CPU,          \* the event of a backend that does not wait (0)
    None,         \* no entry in state_map
    Modes,        \* the modes explored: "tiered" (windows), "full" (always exact)
    Faults,       \* the calls that may fail for a live process
    FrozenAfter,  \* PGWT_SWEEP_FROZEN_NS
    Prompt,       \* a BPF program in flight ends before the daemon's next read
    MaxClock,     \* bound on time
    MaxWrites,    \* bound on the writes of each backend
    MaxDrops,     \* bound on records the ring refuses
    MaxWindows    \* bound on escalation windows

ASSUME CaptureAssumption ==
    /\ Late \subseteq Backends
    /\ CPU \in Events
    /\ None \notin Events
    /\ Modes \subseteq {"tiered", "full"}
    /\ Faults \subseteq {"open", "enable", "map"}
    /\ Prompt \in BOOLEAN
    /\ FrozenAfter \in Nat \ {0}
    /\ {MaxClock, MaxWrites, MaxDrops, MaxWindows} \subseteq Nat

VARIABLES
    mode,      \* d->mode, fixed at start
    clock,     \* CLOCK_MONOTONIC, the clock of bpf_ktime_get_ns too
    life,      \* each process: "unborn", "starting" (in InitProcess), "alive", "dead"
    wei,       \* each backend's wait_event_info
    writes,    \* how many times each backend has written it
    entry,     \* state_map
    fd,        \* wp_fd >= 0
    armed,     \* the watchpoint is enabled
    boot,      \* the bootstrap watchpoint is enabled
    known,     \* the registry holds the backend (is_alive)
    probe,     \* the BPF program that each backend's process is inside
    ring,      \* event_ringbuf
    lifecycle, \* lifecycle_rb: FORK, INIT and EXIT events
    drops,     \* ringbuf_drops
    gate,      \* exact_admission_open()
    pc,        \* what the daemon is doing
    todo,      \* the backends its loop has still to visit
    job,       \* its local variables
    active,    \* watchpoints are in use (escalation.active, or full mode)
    windows,   \* windows opened so far
    trace,     \* records per backend, unit and event that reached the writer
    hole,      \* history: units without a record of their own, with the cause
    owed,      \* history: units that exact capture undertook to record
    since,     \* history: the backend is under exact capture now
    stale,     \* history: why the entry's label is not the backend's event
    truth,     \* history: what each backend really was in, one value per past unit
    astray     \* history: what the end of a window will not find (see Sealed)

proc     == <<life, wei, writes>>
registry == <<fd, armed, boot, known>>
bpf      == <<entry, probe, ring, lifecycle, drops, gate>>
daemon   == <<pc, todo, job, active, windows>>
history  == <<trace, hole, owed, since, stale, truth, astray>>
vars     == <<mode, clock, proc, registry, bpf, daemon, history>>

Units == 0 .. MaxClock - 1
During(from, to) == from .. to - 1
Entry(live, event, ts) == [wp_live |-> live, last_event |-> event, last_ts |-> ts]
Record(b, event, from, to) == [pid |-> b, event |-> event, from |-> from, to |-> to]
Idle == [at |-> "idle", now |-> 0, event |-> CPU, st |-> None]
NoJob == [now |-> 0, pid |-> None, wei |-> CPU, entry |-> None,
          keep |-> FALSE, stop |-> FALSE, sweep |-> FALSE]
Live(b) == entry[b] # None /\ entry[b].wp_live
Alive(b) == life[b] \in {"starting", "alive"}

\* What /proc shows of a process whose exit path has run.
Gone(b) == life[b] = "dead" /\ probe[b].at = "idle"

Init ==
    /\ mode \in Modes
    /\ clock = 0
    /\ life = [b \in Backends |-> IF b \in Late THEN "unborn" ELSE "alive"]
    /\ wei \in [Backends -> Events]
    /\ writes = [b \in Backends |-> 0]
    /\ known = [b \in Backends |-> life[b] = "alive"]
    /\ entry = [b \in Backends |->
                   IF known[b] THEN Entry(FALSE, CPU, 0) ELSE None]
    /\ fd = [b \in Backends |-> FALSE]
    /\ armed = [b \in Backends |-> FALSE]
    /\ boot = [b \in Backends |-> FALSE]
    /\ probe = [b \in Backends |-> Idle]
    /\ ring = <<>> /\ lifecycle = <<>> /\ drops = 0 /\ gate = TRUE
    /\ active = (mode = "full")
    /\ pc = IF active THEN "open" ELSE "loop"
    /\ todo = IF active THEN {b \in Backends : known[b]} ELSE {}
    /\ job = NoJob
    /\ windows = 0
    /\ trace = [b \in Backends |-> [t \in Units |-> [e \in Events |-> 0]]]
    /\ hole = [b \in Backends |-> {}]
    /\ owed = [b \in Backends |-> {}]
    /\ since = [b \in Backends |-> FALSE]
    /\ stale = [b \in Backends |-> "no"]
    /\ truth = [b \in Backends |-> <<>>]
    /\ astray = [b \in Backends |-> FALSE]

-----------------------------------------------------------------------------
(* The backends and their BPF programs.                                    *)

Holes(b, units, cause) == [hole EXCEPT ![b] = @ \union (units \X {cause})]

\* A unit passes.  Nobody can say what a backend was in while no armed
\* watchpoint watched it, or while a write that nothing saw is outstanding.
Tick ==
    /\ clock < MaxClock /\ pc # "stopped"
    /\ clock' = clock + 1
    /\ truth' = [b \in Backends |-> Append(truth[b],
                    CASE ~Alive(b) -> "gone"
                      [] Alive(b) /\ (~armed[b] \/ stale[b] = "missed") -> "blind"
                      [] OTHER -> wei[b])]
    /\ hole' = [b \in Backends |->
                   IF stale[b] = "clobbered" THEN hole[b] \union {<<clock, "doubt">>}
                                             ELSE hole[b]]
    /\ owed' = [b \in Backends |->
                   IF since[b] THEN owed[b] \union {clock} ELSE owed[b]]
    /\ UNCHANGED <<mode, proc, registry, bpf, daemon, trace, since, stale, astray>>

\* The record enters the ring, or the ring refuses it and counts the drop.
Emit(r) ==
    \/ /\ ring' = Append(ring, r)
       /\ UNCHANGED <<drops, hole>>
    \/ /\ drops < MaxDrops
       /\ drops' = drops + 1
       /\ hole' = Holes(r.pid, During(r.from, r.to), "dropped")
       /\ UNCHANGED ring

\* An event enters the lifecycle ring, or is silently lost when that is full.
Notify(kind, b) == lifecycle' \in {lifecycle, Append(lifecycle, <<kind, b>>)}

\* What a program in flight closes: it works on the element that it looked up.
Closing(b) == Record(b, probe[b].st.last_event, probe[b].st.last_ts, probe[b].now)

\* A store reaches the map only while that element is still the one in it: an
\* update from the daemon puts another in its place.
Stores(b, e) == entry' = IF entry[b] = probe[b].st THEN [entry EXCEPT ![b] = e] ELSE entry

\* The trap of an armed watchpoint: on_watchpoint up to its last admission
\* check.  Without an entry, or with one that is only a seed, the write starts
\* tracking; a write of the value already recorded is skipped.
OnWatchpoint(b, new) ==
    CASE ~gate -> UNCHANGED <<entry, probe>>
      [] gate /\ ~Live(b) ->
            /\ \/ entry' = [entry EXCEPT ![b] = Entry(TRUE, new, clock)]
               \/ entry[b] = None /\ "map" \in Faults /\ UNCHANGED entry
            /\ UNCHANGED probe
      [] gate /\ Live(b) /\ new = entry[b].last_event -> UNCHANGED <<entry, probe>>
      [] OTHER ->
            /\ probe' = [probe EXCEPT ![b] = [at |-> "emit", now |-> clock,
                                              event |-> new, st |-> entry[b]]]
            /\ UNCHANGED entry

Write(b, new) ==
    /\ life[b] = "alive" /\ probe[b].at = "idle" /\ writes[b] < MaxWrites
    /\ writes' = [writes EXCEPT ![b] = @ + 1]
    /\ wei' = [wei EXCEPT ![b] = new]
    /\ stale' = [stale EXCEPT ![b] =
                    IF ~armed[b] /\ Live(b) /\ new # entry[b].last_event
                    THEN "missed" ELSE "no"]
    /\ IF armed[b] THEN OnWatchpoint(b, new) ELSE UNCHANGED <<entry, probe>>
    /\ UNCHANGED <<clock, mode, life, ring, lifecycle, drops, gate, registry,
                   daemon, trace, hole, owed, since, truth, astray>>

EmitTransition(b) ==
    /\ probe[b].at = "emit"
    /\ Emit(Closing(b))
    /\ probe' = [probe EXCEPT ![b].at = "store"]
    /\ UNCHANGED <<clock, mode, proc, entry, lifecycle, gate, registry, daemon,
                   trace, owed, since, stale, truth, astray>>

Ends(b) ==
    /\ probe' = [probe EXCEPT ![b] = Idle]
    /\ UNCHANGED <<clock, mode, proc, ring, lifecycle, drops, gate, registry,
                   daemon, history>>

\* Mutant: the timestamp does not advance.
MutStoreKeepsTime(b) ==
    /\ probe[b].at = "store"
    /\ Stores(b, Entry(TRUE, probe[b].event, probe[b].st.last_ts))
    /\ Ends(b)

\* Mutant: the label is not updated.
MutStoreKeepsEvent(b) ==
    /\ probe[b].at = "store"
    /\ Stores(b, Entry(TRUE, probe[b].st.last_event, probe[b].now))
    /\ Ends(b)

StoreTransition(b) ==
    /\ probe[b].at = "store"
    /\ Stores(b, Entry(TRUE, probe[b].event, probe[b].now))
    /\ Ends(b)

\* on_fork: the child gets a seed entry before the daemon hears of it.
Fork(b) ==
    /\ life[b] = "unborn"
    /\ life' = [life EXCEPT ![b] = "starting"]
    /\ \/ entry' = [entry EXCEPT ![b] = Entry(FALSE, CPU, 0)]
       \/ "map" \in Faults /\ UNCHANGED entry
    /\ Notify("FORK", b)
    /\ UNCHANGED <<clock, mode, wei, writes, probe, ring, drops, gate, registry,
                   daemon, history>>

\* InitProcess() points my_wait_event_info into shared memory; a bootstrap
\* watchpoint traps that write (on_bootstrap).
InitProcess(b) ==
    /\ life[b] = "starting"
    /\ life' = [life EXCEPT ![b] = "alive"]
    /\ IF boot[b] THEN Notify("INIT", b) ELSE UNCHANGED lifecycle
    /\ UNCHANGED <<clock, mode, wei, writes, entry, probe, ring, drops, gate,
                   registry, daemon, history>>

\* on_exit, first part: the process is gone and only its exit path still runs.
OnExit(b) ==
    /\ Alive(b) /\ probe[b].at = "idle"
    /\ life' = [life EXCEPT ![b] = "dead"]
    /\ since' = [since EXCEPT ![b] = FALSE]
    /\ stale' = [stale EXCEPT ![b] = "no"]
    /\ probe' = [probe EXCEPT ![b] =
                    IF entry[b] = None THEN Idle
                    ELSE [at |-> IF Live(b) /\ gate THEN "exitCheck" ELSE "exitNotify",
                          now |-> clock, event |-> CPU, st |-> entry[b]]]
    /\ UNCHANGED <<clock, mode, wei, writes, entry, ring, lifecycle, drops, gate,
                   registry, daemon, trace, hole, owed, truth, astray>>

\* The second admission check, right before the record is published.
ExitCheck(b) ==
    /\ probe[b].at = "exitCheck"
    /\ probe' = [probe EXCEPT ![b].at = IF gate THEN "exitEmit" ELSE "exitNotify"]
    /\ UNCHANGED <<clock, mode, proc, entry, ring, lifecycle, drops, gate,
                   registry, daemon, history>>

ExitEmit(b) ==
    /\ probe[b].at = "exitEmit"
    /\ Emit(Closing(b))
    /\ probe' = [probe EXCEPT ![b].at = "exitStore"]
    /\ UNCHANGED <<clock, mode, proc, entry, lifecycle, gate, registry, daemon,
                   trace, owed, since, stale, truth, astray>>

\* Mutant: the exit path leaves last_ts alone, as it once did.
MutExitStore(b) ==
    /\ probe[b].at = "exitStore"
    /\ probe' = [probe EXCEPT ![b].at = "exitNotify"]
    /\ UNCHANGED <<clock, mode, proc, entry, ring, lifecycle, drops, gate,
                   registry, daemon, history>>

\* last_ts advances past the interval just accounted.
ExitStore(b) ==
    /\ probe[b].at = "exitStore"
    /\ Stores(b, [probe[b].st EXCEPT !.last_ts = probe[b].now])
    /\ probe' = [probe EXCEPT ![b].at = "exitNotify"]
    /\ UNCHANGED <<clock, mode, proc, ring, lifecycle, drops, gate, registry,
                   daemon, history>>

ExitNotify(b) ==
    /\ probe[b].at = "exitNotify"
    /\ Notify("EXIT", b)
    /\ probe' = [probe EXCEPT ![b] = Idle]
    /\ UNCHANGED <<clock, mode, proc, entry, ring, drops, gate, registry, daemon,
                   history>>

-----------------------------------------------------------------------------
(* The daemon.                                                             *)

\* The writer accepts the records of a sequence.
Accepted(s) ==
    [b \in Backends |-> [t \in Units |-> [e \in Events |->
        trace[b][t][e] + Cardinality({i \in DOMAIN s :
            s[i].pid = b /\ s[i].event = e /\ t \in During(s[i].from, s[i].to)})]]]

\* BPF programs run with preemption disabled for nanoseconds, the daemon's side
\* of each race takes microseconds (drain_event_ring_for_tick says so).
Quiet == Prompt => \A b \in Backends : probe[b].at = "idle"

\* A handler returns: to the event loop, or to the last pass over the lifecycle
\* ring at shutdown.
Return ==
    /\ pc' = IF job.stop THEN "finalLifecycle" ELSE "loop"
    /\ job' = [NoJob EXCEPT !.stop = job.stop]

\* One pass of the event loop consumes some of the ring.
Consume ==
    /\ pc = "loop" /\ ring # <<>>
    /\ trace' = Accepted(<<Head(ring)>>)
    /\ ring' = Tail(ring)
    /\ UNCHANGED <<clock, mode, proc, entry, probe, lifecycle, drops, gate, registry,
                   daemon, hole, owed, since, stale, truth, astray>>

\* pgwt_handle_exit: close the watchpoints, delete the entry, free the slot.
Forget(b) ==
    /\ fd' = [fd EXCEPT ![b] = FALSE]
    /\ armed' = [armed EXCEPT ![b] = FALSE]
    /\ boot' = [boot EXCEPT ![b] = FALSE]
    /\ known' = [known EXCEPT ![b] = FALSE]
    /\ entry' = [entry EXCEPT ![b] = None]
    /\ astray' = [astray EXCEPT ![b] = FALSE]
    /\ UNCHANGED <<pc, todo, job>>

\* pgwt_handle_init of a process that still exists: it takes a slot, closes the
\* bootstrap watchpoint and a watchpoint from an earlier attach (closing waits for
\* a program it is running), and attaches, whether or not a window is open.
BeginInit(b) ==
    /\ probe[b].at \notin {"emit", "store"}
    /\ known' = [known EXCEPT ![b] = TRUE]
    /\ boot' = [boot EXCEPT ![b] = FALSE]
    /\ fd' = [fd EXCEPT ![b] = FALSE]
    /\ armed' = [armed EXCEPT ![b] = FALSE]
    /\ astray' = [astray EXCEPT ![b] = ~active]
    /\ pc' = "open" /\ todo' = {b}
    /\ job' = [NoJob EXCEPT !.stop = job.stop]
    /\ UNCHANGED entry

\* handle_lifecycle_event: the oldest event of the ring.
Take(kind, b) ==
    /\ pc \in {"loop", "finalLifecycle"}
    /\ lifecycle # <<>> /\ Head(lifecycle) = <<kind, b>>
    /\ lifecycle' = Tail(lifecycle)
    /\ UNCHANGED <<clock, mode, proc, probe, ring, drops, gate, active, windows,
                   trace, hole, owed, since, stale, truth>>

\* pgwt_handle_fork of a process that still exists and has no slot: between windows
\* it only gets one; while watchpoints are in use it gets a bootstrap watchpoint
\* too.  If that cannot be opened, an initialized backend is attached at once and
\* any other is left without a slot.
Enroll(b) ==
    IF ~active
    THEN /\ known' = [known EXCEPT ![b] = TRUE]
         /\ UNCHANGED <<fd, armed, boot, entry, astray, pc, todo, job>>
    ELSE \/ /\ Alive(b)
            /\ known' = [known EXCEPT ![b] = TRUE]
            /\ boot' = [boot EXCEPT ![b] = TRUE]
            /\ pc' = "forked" /\ job' = [job EXCEPT !.pid = b]
            /\ UNCHANGED <<fd, armed, entry, astray, todo>>
         \/ /\ ~Alive(b) \/ "open" \in Faults
            /\ IF life[b] = "alive" THEN BeginInit(b)
               ELSE UNCHANGED <<registry, entry, astray, pc, todo, job>>

HandleFork(b) ==
    /\ Take("FORK", b)
    /\ CASE Gone(b) -> Forget(b)
         [] ~Gone(b) /\ known[b] -> UNCHANGED <<registry, entry, astray, pc, todo, job>>
         [] OTHER -> Enroll(b)

\* With the bootstrap watchpoint armed, a pointer that is already in shared memory
\* will not be written again: attach directly.
ForkCheck ==
    /\ pc = "forked"
    /\ IF life[job.pid] = "alive"
       THEN BeginInit(job.pid)
       ELSE Return /\ UNCHANGED <<registry, entry, astray, todo>>
    /\ UNCHANGED <<clock, mode, proc, probe, ring, lifecycle, drops, gate, active,
                   windows, trace, hole, owed, since, stale, truth>>

HandleInit(b) ==
    /\ Take("INIT", b)
    /\ IF Gone(b) THEN Forget(b) ELSE BeginInit(b)

HandleExit(b) == Take("EXIT", b) /\ Forget(b)

\* pgwt_recover_unattached_backends: each tick looks for initialized backends
\* that have no watchpoint, whether or not the registry knows them.
Recover(b) ==
    /\ pc = "loop" /\ active /\ life[b] = "alive" /\ ~fd[b]
    /\ BeginInit(b)
    /\ UNCHANGED <<clock, mode, proc, probe, ring, lifecycle, drops, gate, active,
                   windows, trace, hole, owed, since, stale, truth>>

\* Every 60 ticks: a registered process that no longer exists is cleaned up even
\* if its EXIT event never came.
Gc(b) ==
    /\ pc = "loop" /\ known[b] /\ Gone(b)
    /\ Forget(b)
    /\ UNCHANGED <<clock, mode, proc, probe, ring, lifecycle, drops, gate, active,
                   windows, trace, hole, owed, since, stale, truth>>

\* pgwt_escalate after the budget decision: attach_all takes one timestamp and
\* attaches every registered backend that has no watchpoint and whose address the
\* sampler has resolved, which may not be so yet for a new one.
Escalate ==
    /\ mode = "tiered" /\ pc = "loop" /\ ~active /\ windows < MaxWindows
    /\ windows' = windows + 1
    /\ active' = TRUE
    /\ pc' = "open"
    /\ \E unresolved \in SUBSET Late :
          todo' = {b \in Backends : known[b] /\ ~fd[b] /\ life[b] # "starting"} \ unresolved
    /\ job' = [NoJob EXCEPT !.now = clock, !.keep = TRUE]
    /\ since' = [b \in Backends |-> fd[b] /\ Live(b) /\ Alive(b)]
    /\ UNCHANGED <<clock, mode, proc, bpf, registry, trace, hole, owed, stale, truth,
                   astray>>

\* After a failed attach the scan and pgwt_handle_init free the slot, attach_all
\* leaves it to the exit path.  A live entry stays; nobody owns its open stretch.
AttachFailed(b) ==
    /\ known' = [known EXCEPT ![b] = job.keep]
    /\ hole' = IF Live(b)
               THEN Holes(b, During(entry[b].last_ts, clock), "doubt") ELSE hole
    /\ since' = [since EXCEPT ![b] = FALSE]
    /\ astray' = [astray EXCEPT ![b] = Live(b)]

\* Opening a watchpoint (disabled) fails for a process that is gone.  The attach is
\* stamped after the open, for attach_all before its loop.
OpenWatchpoint(b) ==
    /\ pc = "open" /\ b \in todo
    /\ \/ /\ life[b] = "alive"
          /\ fd' = [fd EXCEPT ![b] = TRUE]
          /\ job' = [job EXCEPT !.pid = b, !.now = IF job.keep THEN @ ELSE clock]
          /\ pc' = "preseed"
          /\ UNCHANGED <<todo, known, hole, since, astray>>
       \/ /\ life[b] = "dead" \/ "open" \in Faults
          /\ todo' = todo \ {b}
          /\ AttachFailed(b)
          /\ UNCHANGED <<fd, job, pc>>
    /\ UNCHANGED <<clock, mode, proc, bpf, armed, boot, active, windows, trace, owed,
                   stale, truth>>

\* preseed_state_map is the attach's seed and the sweep's repair.
AfterSeed == IF job.sweep THEN Return ELSE pc' = "arm" /\ UNCHANGED job

\* It reads the backend's current event; the memory of a process that is gone
\* cannot be read and nothing is seeded.
PreseedRead ==
    /\ pc = "preseed"
    /\ IF life[job.pid] = "alive"
       THEN /\ pc' = "seed"
            /\ job' = [job EXCEPT !.wei = wei[job.pid],
                                  !.entry = IF job.sweep THEN @ ELSE entry[job.pid]]
       ELSE AfterSeed
    /\ UNCHANGED <<clock, mode, proc, bpf, registry, todo, active, windows, history>>

\* What the update puts an end to: an interval that the sweep gives up, one that
\* a second attach discards, or the account of a backend that moved on (or ended)
\* after the daemon had looked at it.
Overtaken(b) ==
    \/ life[b] = "dead" \/ probe[b].at # "idle" \/ entry[b] # job.entry
    \/ armed[b] /\ wei[b] # job.wei
Discards(b) ==
    LET from == IF job.entry # None /\ job.entry.wp_live THEN job.entry.last_ts
                                                         ELSE job.now
    IN  CASE Overtaken(b)               -> Holes(b, During(from, clock), "doubt")
          [] ~Overtaken(b) /\ job.sweep -> Holes(b, During(from, job.now), "swept")
          [] OTHER                      -> Holes(b, During(from, job.now), "reinit")

\* The update at time ts of the label read.
Seed(ts) ==
    /\ pc = "seed"
    /\ AfterSeed
    /\ LET b == job.pid IN
       \/ /\ entry' = [entry EXCEPT ![b] = Entry(TRUE, job.wei, ts)]
          /\ hole' = Discards(b)
          /\ since' = [since EXCEPT ![b] = @ \/ (active /\ Alive(b))]
          /\ owed' = [owed EXCEPT ![b] =
                         IF since'[b] THEN @ \union During(job.now, clock) ELSE @]
          /\ astray' = [astray EXCEPT ![b] = @ \/ ~Alive(b)]
          /\ stale' = [stale EXCEPT ![b] =
                          IF wei[b] = job.wei \/ ~Alive(b) THEN "no"
                          ELSE IF armed[b] THEN "clobbered" ELSE "missed"]
       \/ /\ entry[b] = None /\ "map" \in Faults
          /\ UNCHANGED <<entry, hole, since, owed, stale, astray>>
    /\ UNCHANGED <<clock, mode, proc, probe, ring, lifecycle, drops, gate, registry,
                   todo, active, windows, trace, truth>>

\* Mutant: the seed is stamped one unit early.
MutPreseedUpdate == Seed(job.now - 1)

PreseedUpdate == Seed(job.now)

\* Enabling may fail: the watchpoint is closed again.
Arm ==
    /\ pc = "arm"
    /\ pc' = "open" /\ todo' = todo \ {job.pid}
    /\ \/ /\ armed' = [armed EXCEPT ![job.pid] = TRUE]
          /\ UNCHANGED <<fd, known, hole, since, astray>>
       \/ /\ "enable" \in Faults
          /\ fd' = [fd EXCEPT ![job.pid] = FALSE]
          /\ AttachFailed(job.pid)
          /\ UNCHANGED armed
    /\ UNCHANGED <<clock, mode, proc, bpf, boot, job, active, windows, trace, owed,
                   stale, truth>>

Attached ==
    /\ pc = "open" /\ todo = {}
    /\ Return
    /\ UNCHANGED <<clock, mode, proc, bpf, registry, todo, active, windows, history>>

\* pgwt_sweep_stale_state, first half: the entry has seen no transition for long
\* and the backend is in another event.
SweepLook(b) ==
    /\ pc = "loop" /\ active /\ known[b] /\ fd[b] /\ Live(b)
    /\ life[b] = "alive"
    /\ clock - entry[b].last_ts >= FrozenAfter
    /\ wei[b] # entry[b].last_event
    /\ pc' = "recheck"
    /\ job' = [NoJob EXCEPT !.pid = b, !.wei = wei[b], !.entry = entry[b]]
    /\ UNCHANGED <<clock, mode, proc, bpf, registry, todo, active, windows, history>>

\* After the pause, in which a program in flight ends, the mismatch must still be
\* there and the entry untouched; the time of the repair is taken here.
Recheck(same) ==
    /\ pc = "recheck" /\ (Prompt => probe[job.pid].at = "idle")
    /\ LET b == job.pid IN
       IF life[b] = "alive" /\ wei[b] = job.wei /\ same
       THEN /\ pc' = "preseed"
            /\ job' = [job EXCEPT !.now = clock, !.entry = entry[b], !.sweep = TRUE]
       ELSE Return
    /\ UNCHANGED <<clock, mode, proc, bpf, registry, todo, active, windows, history>>

\* Mutant: the entry is not looked up again.
MutSweepRecheck == Recheck(TRUE)

\* Mutant: the second reading is compared with the label, not with the first one.
MutSweepGivesUp == Recheck(wei[job.pid] = job.entry.last_event)

SweepRecheck == Recheck(entry[job.pid] = job.entry)

\* An escalation window is open.
Windowed == mode = "tiered" /\ active

\* pgwt_deescalate: every watchpoint is disabled first.
Deescalate ==
    /\ pc = "loop" /\ Windowed
    /\ pc' = "disarm" /\ todo' = {b \in Backends : fd[b] \/ boot[b]}
    /\ UNCHANGED <<clock, mode, proc, bpf, registry, job, active, windows, history>>

\* Disabling a perf event waits for a program it is running.
Disarm(b) ==
    /\ pc = "disarm" /\ b \in todo /\ probe[b].at \notin {"emit", "store"}
    /\ armed' = [armed EXCEPT ![b] = FALSE]
    /\ boot' = [boot EXCEPT ![b] = FALSE]
    /\ todo' = todo \ {b}
    /\ UNCHANGED <<clock, mode, proc, bpf, fd, known, pc, job, active, windows,
                   history>>

Quiesce ==
    /\ pc = "disarm" /\ todo = {}
    /\ gate' = FALSE
    /\ pc' = "boundary"
    /\ UNCHANGED <<clock, mode, proc, entry, probe, ring, lifecycle, drops,
                   registry, todo, job, active, windows, history>>

\* The one instant at which everything still open is closed.  De-escalation
\* drains the ring after it; the flush at the end of full mode does not.
Close(next) ==
    /\ pc = "boundary"
    /\ job' = [job EXCEPT !.now = clock]
    /\ since' = [b \in Backends |-> FALSE]
    /\ pc' = next
    /\ todo' = {b \in Backends : known[b] /\ fd[b]}
    /\ UNCHANGED <<clock, mode, proc, bpf, registry, active, windows, trace, hole,
                   owed, stale, truth, astray>>

\* Mutant: de-escalation flushes without draining the ring.
MutBoundary == Close("flush")

Boundary == Close(IF Windowed THEN "drain" ELSE "flush")

\* ring_buffer__consume without a budget runs until the ring is empty.
Drain(to) ==
    /\ trace' = Accepted(ring)
    /\ ring' = <<>>
    /\ pc' = to
    /\ UNCHANGED <<clock, mode, proc, entry, probe, lifecycle, drops, gate, registry,
                   todo, job, active, windows, hole, owed, since, stale, truth, astray>>

DrainWindow == pc = "drain" /\ Quiet /\ Drain("flush")

\* flush_open_intervals for one backend: the open stretch becomes a record.
Flush(b) ==
    /\ pc = "flush" /\ b \in todo /\ Quiet
    /\ todo' = todo \ {b}
    /\ IF Live(b) /\ entry[b].last_ts < job.now
       THEN trace' = Accepted(<<Record(b, entry[b].last_event,
                                       entry[b].last_ts, job.now)>>)
       ELSE UNCHANGED trace
    /\ UNCHANGED <<clock, mode, proc, bpf, registry, pc, job, active, windows, hole,
                   owed, since, stale, truth, astray>>

Flushed ==
    /\ pc = "flush" /\ todo = {}
    /\ pc' = IF Windowed THEN "detach" ELSE "stopped"
    /\ todo' = IF Windowed THEN {b \in Backends : known[b]} ELSE {}
    /\ UNCHANGED <<clock, mode, proc, bpf, registry, job, active, windows, history>>

\* detach_all: close the watchpoint and turn the entry back into a seed.
Closed(b, closes) ==
    /\ pc = "detach" /\ b \in todo
    /\ todo' = todo \ {b}
    /\ fd' = [fd EXCEPT ![b] = @ /\ ~closes]
    /\ entry' = [entry EXCEPT ![b] = Entry(FALSE, CPU, clock)]
    /\ stale' = [stale EXCEPT ![b] = "no"]
    /\ astray' = [astray EXCEPT ![b] = FALSE]
    /\ UNCHANGED <<clock, mode, proc, armed, boot, known, probe, ring, lifecycle,
                   drops, gate, pc, job, active, windows, trace, hole, owed, since,
                   truth>>

\* Mutant: the watchpoint is not closed.
MutDetach(b) == Closed(b, FALSE)

Detach(b) == Closed(b, TRUE)

\* pgwt_exact_probe_release reopens the gate for the baseline generation.
Release ==
    /\ pc = "detach" /\ todo = {}
    /\ gate' = TRUE
    /\ active' = FALSE
    /\ pc' = IF job.stop THEN "boundary" ELSE "loop"
    /\ job' = IF job.stop THEN job ELSE NoJob
    /\ UNCHANGED <<clock, mode, proc, entry, probe, ring, lifecycle, drops, registry,
                   todo, windows, history>>

\* The loop ends.  What is in the rings is consumed (the lifecycle ring by the
\* same handlers), then cleanup closes an open window and flushes what is left.
Shutdown ==
    /\ pc = "loop"
    /\ pc' = "finalDrain" /\ job' = [NoJob EXCEPT !.stop = TRUE]
    /\ UNCHANGED <<clock, mode, proc, bpf, registry, todo, active, windows, history>>

FinalDrain == pc = "finalDrain" /\ Drain("finalLifecycle")

FinalLifecycle ==
    /\ pc = "finalLifecycle" /\ lifecycle = <<>>
    /\ pc' = IF Windowed THEN "disarm" ELSE "boundary"
    /\ todo' = {b \in Backends : fd[b] \/ boot[b]}
    /\ UNCHANGED <<clock, mode, proc, bpf, registry, job, active, windows, history>>

BackendStep(b) ==
    \/ \E e \in Events : Write(b, e)
    \/ EmitTransition(b) \/ StoreTransition(b)
    \/ Fork(b) \/ InitProcess(b) \/ OnExit(b)
    \/ ExitCheck(b) \/ ExitEmit(b) \/ ExitStore(b) \/ ExitNotify(b)

DaemonStep ==
    \/ Consume \/ ForkCheck \/ Escalate \/ PreseedRead \/ PreseedUpdate \/ Arm
    \/ Attached \/ SweepRecheck \/ Deescalate \/ Quiesce \/ Boundary \/ DrainWindow
    \/ Flushed \/ Release \/ Shutdown \/ FinalDrain \/ FinalLifecycle
    \/ \E b \in Backends :
          \/ HandleFork(b) \/ HandleInit(b) \/ HandleExit(b) \/ Recover(b) \/ Gc(b)
          \/ OpenWatchpoint(b) \/ SweepLook(b)
          \/ Disarm(b) \/ Flush(b) \/ Detach(b)

Next == Tick \/ DaemonStep \/ \E b \in Backends : BackendStep(b)

Spec == Init /\ [][Next]_vars

\* The daemon finishes a handler it has begun, the kernel a program, and every
\* tick of the event loop runs the sweep over all attached backends.
FairSpec ==
    /\ Spec
    /\ WF_vars(pc # "loop" /\ DaemonStep)
    /\ \A b \in Backends :
          /\ WF_vars(SweepLook(b))
          /\ WF_vars(EmitTransition(b) \/ StoreTransition(b))

-----------------------------------------------------------------------------
(* Properties.                                                             *)

Entries == [wp_live : BOOLEAN, last_event : Events, last_ts : 0 .. MaxClock]
             \union {None}
Records == [pid : Backends, event : Events, from : 0 .. MaxClock, to : 0 .. MaxClock]
Stages == {"idle", "emit", "store", "exitCheck", "exitEmit", "exitStore",
           "exitNotify"}
Places == {"loop", "forked", "open", "preseed", "seed", "arm", "recheck", "disarm",
           "boundary", "drain", "flush", "detach", "finalDrain", "finalLifecycle",
           "stopped"}
Causes == {"dropped", "swept", "reinit", "doubt"}

\* Every variable stays in its range; in particular a timestamp stored by a BPF
\* program or by the daemon never exceeds the clock's bound.
TypeOK ==
    /\ clock \in 0 .. MaxClock
    /\ life \in [Backends -> {"unborn", "starting", "alive", "dead"}]
    /\ wei \in [Backends -> Events]
    /\ writes \in [Backends -> 0 .. MaxWrites]
    /\ entry \in [Backends -> Entries]
    /\ {fd, armed, boot, known, since, astray} \subseteq [Backends -> BOOLEAN]
    /\ probe \in [Backends -> [at : Stages, now : 0 .. MaxClock, event : Events,
                               st : Entries]]
    /\ ring \in Seq(Records)
    /\ lifecycle \in Seq({"FORK", "INIT", "EXIT"} \X Backends)
    /\ drops \in 0 .. MaxDrops
    /\ gate \in BOOLEAN /\ active \in BOOLEAN
    /\ pc \in Places
    /\ todo \subseteq Backends
    /\ job \in [now : 0 .. MaxClock, pid : Backends \union {None}, wei : Events,
                entry : Entries, keep : BOOLEAN, stop : BOOLEAN, sweep : BOOLEAN]
    /\ windows \in 0 .. MaxWindows
    /\ trace \in [Backends -> [Units -> [Events -> Nat]]]
    /\ hole \in [Backends -> SUBSET (Units \X Causes)]
    /\ owed \in [Backends -> SUBSET Units]
    /\ stale \in [Backends -> {"no", "missed", "clobbered"}]
    /\ \A b \in Backends :
          truth[b] \in Seq(Events \union {"blind", "gone"}) /\ Len(truth[b]) = clock

Truth(b, t) == truth[b][t + 1]
InDoubt(b, t) == <<t, "doubt">> \in hole[b]
InHole(b, t) == {c \in Causes \ {"doubt"} : <<t, c>> \in hole[b]}
InTrace(b, t) == {<<e, n>> \in Events \X (1 .. 3) : n <= trace[b][t][e]}
InRing(b, t) == {i \in DOMAIN ring :
                    ring[i].pid = b /\ t \in During(ring[i].from, ring[i].to)}

\* A program in flight holds what it is about to emit, and while its element is
\* the one in the map the open stretch begins where that ends.
InProgram(b, t) ==
    /\ probe[b].at \in {"emit", "exitCheck", "exitEmit"}
    /\ t \in During(probe[b].st.last_ts, probe[b].now)
OpenFrom(b) == IF probe[b].at \notin {"idle", "exitNotify"} /\ entry[b] = probe[b].st
               THEN probe[b].now ELSE entry[b].last_ts
FlushedAlready(b) ==
    pc \in {"detach", "stopped"} \/ (pc = "flush" /\ b \notin todo)
StillOpen(b, t) == Live(b) /\ known[b] /\ ~FlushedAlready(b) /\ OpenFrom(b) <= t

\* Every unit of a backend's life that exact capture undertook to record is in
\* exactly one place: in one accepted record, in one record in the ring, in the
\* hands of a BPF program, in the stretch that is still open in state_map, or
\* among the units of a record that was dropped (and counted), of a stretch that
\* the sweep gave up, or of one that a second attach discarded.  Not so the units
\* put in doubt by a transition between the sweep's re-check and its update, or by
\* a second attach that fails: only an exit still closes that stretch.
\* In full mode the account ends where the final flush begins: nobody reads the
\* ring after it.
Accounted ==
    (pc \in {"flush", "stopped"} => mode = "tiered") =>
    \A b \in Backends : \A t \in {u \in owed[b] : ~InDoubt(b, u)} :
        Cardinality(InTrace(b, t)) + Cardinality(InRing(b, t))
          + Cardinality(InHole(b, t)) + (IF StillOpen(b, t) THEN 1 ELSE 0)
          + (IF InProgram(b, t) THEN 1 ELSE 0) = 1

\* No window is open, or the process has stopped.
Settled == pc = "stopped" \/ (pc = "loop" /\ ~active)

RecordedOnce ==
    Settled => \A b \in Backends : \A t \in {u \in owed[b] : ~InDoubt(b, u)} :
        Cardinality(InTrace(b, t)) = (IF InHole(b, t) = {} THEN 1 ELSE 0)

\* Once a window is closed (or the tiered daemon has stopped) the trace itself
\* tells what each captured backend did in it, unit by unit and only once: a wait
\* that spans the end of the window is recorded exactly once, and the only holes
\* are dropped records, swept intervals and intervals cut by a second attach.
Complete == mode = "tiered" => RecordedOnce

\* The same of full mode, whose final flush "closes every open wp_live interval
\* with its measured cpu_ns, exactly like de-escalation".
CompleteAtStop == mode = "full" => RecordedOnce

\* A record names the event that the backend really was in, in every unit in which
\* an armed watchpoint watched it, no write had gone unseen and no repair had
\* overwritten a transition.
Faithful ==
    \A b \in Backends : \A t \in DOMAIN trace[b] : \A e \in Events :
        trace[b][t][e] > 0 /\ t < clock =>
            InDoubt(b, t) \/ Truth(b, t) \in {e, "blind", "gone"}

\* The sweep gives up only intervals that really were not observed: a stretch it
\* drops for a stale label is one in which the armed watchpoint had missed the
\* write, never one that the watchpoint was maintaining ("a genuine in-flight
\* transition must never trip it").
SweptWasBlind ==
    \A b \in Backends : \A t \in Units :
        <<t, "swept">> \in hole[b] => InDoubt(b, t) \/ Truth(b, t) = "blind"

\* A label that the seed got wrong (the write fell between the seed and the
\* enabling of the watchpoint) does not stay wrong for the backend's whole life:
\* once the entry has been frozen for long enough the sweep repairs it, unless the
\* watchpoint goes away first.
StaleRepaired ==
    \A b \in Backends :
        (/\ active /\ armed[b] /\ Live(b) /\ pc # "stopped"
         /\ wei[b] # entry[b].last_event /\ clock - entry[b].last_ts >= FrozenAfter)
        ~> (~armed[b] \/ life[b] = "dead" \/ pc = "stopped"
              \/ wei[b] = entry[b].last_event)

\* Between windows no trace of exact capture is left: no watchpoint is open, no
\* entry looks live and no program still holds an interval to emit, so an exit in
\* the sampled tier never closes an interval that no watchpoint maintained.  Astray
\* are a backend whose INIT was handled after the window had closed, which is
\* watched until the next one ends, and a live entry left by an attach that failed
\* after its seed or met a process that was going.
Sealed ==
    pc = "loop" /\ ~active =>
        \A b \in Backends : astray[b] \/
            /\ ~fd[b] /\ ~armed[b] /\ ~Live(b)
            /\ probe[b].at \in {"idle", "exitNotify"}

\* No record says that a backend waited after its process had gone ("an invented
\* one just looks plausible", on_exit).
NoPhantom ==
    \A b \in Backends : \A t \in DOMAIN trace[b] : \A e \in Events :
        trace[b][t][e] > 0 /\ t < clock => Truth(b, t) # "gone"
=============================================================================
