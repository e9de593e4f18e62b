# A TLA+ model of pg_wait_tracer

pg_wait_tracer watches PostgreSQL backends from outside. A daemon attaches
hardware watchpoints to each backend's `wait_event_info`, BPF programs turn the
writes into interval records, and the daemon writes the records to hourly trace
files. A replay server reads those files and answers questions about them. This
directory holds TLA+ modules of the parts whose correctness depends on the order
of events, the TLC configurations that check them, and the TLAPS proofs.

File and line references are to `src/` in the repository.

## 1. The system

### Parts

| Part | State | Operations | Talks to |
|---|---|---|---|
| Escalation engine (`escalation.c`, `escalation_budget.c`) | window, deadline timer, ledger of full-fidelity segments, generation | escalate, extend, de-escalate, deadline timer, budget check | probe bundle, backend registry, writer |
| BPF capture (`bpf/pg_wait_tracer.bpf.c`) | `state_map`, event ring, lifecycle ring, admission gate | `on_watchpoint`, `on_fork`, `on_exit`, `on_sched_switch`, uprobes | daemon, through two rings and shared maps |
| Backend registry (`backend.c`, `perf_event.c`) | slots, watchpoint fds, PID index | scan, attach, arm, sweep, recover, GC | BPF maps, `/proc` |
| Daemon loop (`daemon.c`) | epoll set, ring buffers, timers | drain, lifecycle dispatch, tick, shutdown | everything above |
| Exact probe bundle (`exact_probe.c`) | attached and pinned links, consumers, generation, seeds | pin, acquire, quiesce, release, seed, merge | BPF links |
| Trace writer (`event_writer.c`, `open_ckpt.h`, `trace_closure.h`) | `current.trace`, `.meta`, `.open`, hourly archives, pending block | push, flush, rotate, close, checkpoint, recover, retention | file system |
| Summary writer (`summary_writer.c`) | per-second buckets, `current.summary` | accumulate, flush, rotate | file system |
| Sampler (`sampler.c`) | per-target state, timer health | sample tick, batch flush, health | `/proc`, writer |
| Anomaly rules (`anomaly.c`, `idle_rule.c`) | baseline, cooldown | evaluate | escalation engine |
| Control socket (`control.c`, `ctrl_outq.h`) | clients, output queues | accept, read, reply, pump, drop | escalation engine, snapshot |
| Open snapshot and overlay (`open_snapshot.c`, `open_overlay.c`) | sequence number, publication boundary | publish, read, merge | writer, server |
| Reader and replay (`event_reader.c`, `replay.c`) | block index | open, find, decode | trace files |
| Server (`server.c`, `compute.c`, indexes) | loaded events, caches | one request per JSON line | reader, overlay |
| Web bridge (`web/`) | SSH session | relay | server |

Two address spaces meet in the BPF maps and the rings, and two processes meet in
the trace directory and on the control socket. The daemon itself is one thread.

### What is hard about it

* A BPF program reads the clock, emits a record and only then stores its new
  start; the daemon may read the entry in between (`bpf.c:591`).
* A watchpoint is opened, its entry seeded and only then armed, while the backend
  keeps writing (`backend.c:333`).
* The end of a window has a boundary instant before which everything must come
  from the ring and after which from the flush (`escalation.c:583`).
* Lifecycle events may be lost, so fork and exit have slow-path repairs
  (`backend.c:587`, `backend.c:756`).
* The daemon may die between any two system calls of rotation, of a checkpoint
  and of recovery itself (`event_writer.c:1454`).
* Hours repeat (clock changes, restarts), and archive names run out
  (`event_writer.c:172`).
* A backend reports its query and command while a window is being opened: before
  the probes, between probe and seed, after the seed (`exact_probe.c:807`).
* The budget is a promise about every rolling hour, built from windows that are
  extended, closed late and coalesced (`escalation_budget.c`).

`PROJECT.json` lists each such hazard at its line, with the properties that would
catch it.

## 2. Modules

| Module | Models | Instance |
|---|---|---|
| `EscalationBudget` | the ledger arithmetic, as operators | – |
| `Escalation` | the engine: one action per handler | `MCEscalation` |
| `EscalationProofs` | theorems about `Escalation` | – |
| `TraceStore` | the trace directory, the writer, rotation, close, recovery, retention | `MCTraceStore` |
| `ExactCapture` | BPF programs, rings, registry, window boundary, shutdown | `MCExactCapture` |
| `ProbeBundle` | the exact probe bundle's core, as operators | – |
| `QueryAttribution` | probes, edges, seeds, their merge and the markers, over windows | `MCQueryAttribution` |
| `AttributionProofs` | theorems about `QueryAttribution` | – |

Operators named `Mut...` are deliberately wrong versions of the definition that
follows them. No specification uses them; they are the bugs each property is
known to catch.

### Escalation

The daemon is one thread and a handler runs to completion, so each handler is one
action. `now` is the monotonic clock in ticks. `ledger` is the C array as a set of
segments, `end = 0` marking the open one as in the code. `Escalate` has the five
outcomes of `pgwt_escalate`: denied, extended, opened, attach failed, preseed
failed. `exactTicks` is a history variable: the ticks of the rolling window that
were really spent at full fidelity, against which the ledger is judged.
`Lag` bounds how late the loop serves a due deadline; the code has no such
number, so every result is stated relative to it.

### TraceStore

The directory is `cur`, `meta`, `live` (the checkpoint `current.trace.open`),
`archives`, `sidecars` and `aside` (`*.corrupt.<ts>`). A handler that makes several
system calls is a chain of actions sequenced by `pc`, because the process may die
between any two. A death loses the process's memory and its stdio buffer and
keeps what it handed to the kernel. A power cut, which also loses the page cache,
is not modelled: the code does not call `fsync` on block writes and claims nothing
there. Records are numbers, a block is a set of records, a torn block is `{-1}`.
`Faults` names the system calls that may fail in an instance. `accepted`,
`committed`, `attested` and `died` are history variables.

Recovery's scan checks that a block's claimed payload lies inside the file, not
that it is intact. `Scans` therefore allows a torn block with enough bytes behind it
to count as a block (of no record); `trails` says that a footer lies behind a torn
last block. When truncation fails (`TruncateFails`) the file is archived unlabelled;
when an unusable file cannot be moved aside it stays, and its meta and checkpoint
are deleted all the same. Retention is a scan that picks its files (`Cleanup`,
`doomed`) and deletes them one at a time, an archive before its sidecar. The cutoff
lies `RetentionHours` before an instant within the present hour, so an archive may
expire as soon as its hour began that long ago. Not modelled: the size cap, an
`unlink` that fails, and retention of live sidecars without a `current.trace`, which
no state with an idle daemon has.

### ExactCapture

Backends are processes that write `wei` and exit. `OnWatchpoint`,
`EmitTransition` and `StoreTransition` are the three parts of `on_watchpoint` that the
daemon can see apart; `ExitCheck` to `ExitNotify` are those of `on_exit`. The daemon's
loops over backends are one action per backend, sequenced by `pc`. Time is a clock of
whole units and `trace[b][t][e]` counts the records the writer has for a unit, so
"recorded exactly once" is a statement about a number. `owed` holds the units that
the daemon undertook to record. `hole` holds those that have no record of their own,
with the cause:

* `dropped`: the ring refused the record, and counted it;
* `swept`: the sweep reseeded the entry and gave the stretch up;
* `reinit`: a second attach of the same backend discarded the open stretch;
* `doubt`: a transition fell between the sweep's re-check and its update, or a second
  attach failed; such a unit may be recorded, recorded wrongly or missing.

A new backend forks (`Fork`), runs through `InitProcess` (life `starting`) and writes its
wait pointer. `HandleFork`, `Enroll` and `ForkCheck` register it, arm the bootstrap
watchpoint and look whether the write has already happened; otherwise the bootstrap
program queues an INIT, which `HandleInit` serves like the code, whatever the mode. The
lifecycle ring may refuse any of FORK, INIT and EXIT; `Recover` and `Gc` repair that. An
attach is open, preseed (`PreseedRead`, `PreseedUpdate`), enable (`Arm`), and the backend
runs between any two of them. The sweep is a look, a later re-check and an update.
An update of `state_map` replaces the element, so a program in flight stores into
the old one: `probe.st` is the element it holds. `Faults` are a watchpoint that cannot
be opened or enabled and a map that is full.

`astray` marks what the end of a window does not find: a backend whose INIT was
handled between windows, and a live entry left by an attach that failed after its
seed. `stale` tells whether a wrong label comes from a write that no armed watchpoint
saw or from a repair that overwrote one.

Disabling a perf event waits for a running `on_watchpoint`, so a disarmed backend is
inside no watchpoint program. `on_exit` is a tracepoint program and is not covered by
that. `Prompt` is the code's own timescale argument (`daemon.c:259-288`): a BPF program
in flight ends before the daemon's next read. It is a constant so that the run
without it shows what depends on it.

### QueryAttribution

A backend is in at most one report call: `Report` enters it, `Check`, `Note` and `Emit`
are the steps of its probe that the daemon can come between, and `WriteStatus` is
the write to shared memory that follows the probe. The daemon's `pc` walks through
`pgwt_escalate` (boundary, config, acquire, seed, synthetic starts, attach) and
`pgwt_deescalate` (quiesce, terminal markers, detach, release). `edge` and `seed` are the
two BPF maps; `Merge` is `pgwt_exact_merge_attr`, which both sides use. A time stamp is
only ever compared with the window's boundary, so it is kept as the Boolean `fresh`,
which `Boundary` clears. The markers of a backend are kept as the state of their
pairing, so the number of reports is not bounded. `source` (what the seed was made
from) and `torn` (a boundary that reached only one of merged state and markers) are
history variables. PostgreSQL 14+ is modelled, where reports come from
`pgstat_report_activity` and `pgstat_report_query_id`; that a statement resets its query
id before its command ends is taken from the comment at `bpf.c:935`. Backends neither
fork nor exit in this module, and they are client backends, whose first seed must be
coherent. Three simplifications. `Note` writes an edge in one step; the program stores
generation, stamp and value one after the other, so the daemon could read a new
stamp over the old value. A seed made from that is overruled by the same edge in
every later merge. `Acquire` attaches the links in one step, so no probe runs between
two attaches of a window. The terminal marker of a plan phase (`escalation.c:385-388`)
is left out.

## 3. What is checked

All runs are by TLC on the instances below.

| Run | Instance | Shows |
|---|---|---|
| `escalation` | ledger of 2 segments, rolling window 6, budget 3, clock to 14 | the budget, billing and rollback properties, with the ledger overflowing |
| `store_crash` | two deaths at any point, repeated hours, exhausted archive names | no committed record, checkpoint or archive is lost; verdicts are true |
| `store_io_faults` | failing renames, footers, flags, truncations, meta and checkpoint writes, retention on | the same under faults, and no foreign checkpoint beside an archive |
| `store_write_faults` | failing block writes and checkpoint renames, fair daemon | no stranded checkpoint, archives are written once, a leftover `current.trace` is archived or set aside by a later start |
| `capture_window` | tiered and full mode, one backend, one window, two writes, one refused record, failing open and enable, fair daemon | every owed unit is recorded once and truthfully; the sweep repairs stale labels and gives up nothing that was observed |
| `capture_two_backends` | two backends, one forked late, two windows, a full map | the same while backends fork, initialize and exit inside the loops |
| `attribution` | one backend, one query, two windows, both layouts, failing attaches and status reads | attribution, marker pairing, and a bundle that is whole in a window and gone after it |

### Properties

* `BudgetHolds`, `CommitmentWithinBudget`: the full-fidelity time of a rolling hour
  stays within the budget plus `Lag`, however windows are extended.
* `NeverUnbilled`, `LedgerSound`, `LedgerShape`: nothing escalated goes unbilled or is
  billed twice, and the array does not overflow.
* `NothingLeftBehind`: a failed escalation is rolled back whole. `NeverShortened`: an
  extension never moves the deadline earlier.
* `CommittedSurvives`, `ArchivesImmutable`: a flushed and advertised record outlives
  every crash, restart, rotation and name collision until retention removes it.
* `ClosureHonest`, `ArchiveSettled`: the header flags of a file never claim more than
  happened, and every tracked archive says how it ended.
* `NeverStranded`, `EvidenceSurvives`, `SidecarMatches`: the checkpoint follows its
  file, and only its file.
* `LeftoverArchived` (liveness): see fairness below.
* `Accounted`: at every instant the closed records, the records in flight, the
  holes and the open stretch partition what was owed, except what is in doubt.
* `Complete`: when no window is open, every owed unit has exactly one record or one
  hole; `CompleteAtStop` says it of the end of full mode.
* `Faithful`: a record names the event the backend really was in, except in doubt.
* `SweptWasBlind`: the sweep gives up only stretches in which the watchpoint had missed
  a write.
* `StaleRepaired` (liveness): a wrong label that has been frozen for long enough is
  repaired or its watchpoint goes away.
* `Sealed`: nothing of a window survives its end, except what is `astray`.
* `Attributed`: with a validated layout, a field read coherently or reported in the
  window is merged to what the backend reports, in every interleaving.
  `AttributedWhenGranted` asks it of every backend of a granted window.
* `MarksPaired`: command and execution markers of a window pair up, synthetic and
  probe-made ones together, unless `torn`.
* `BundleSound`, `NothingOutlives`: never half a bundle; and no generation, consumer,
  phase probe, seed or live watchpoint after a close or a rollback.
* `NoPhantom`: no record covers time after the backend's exit.

### Bounds

The escalation clock runs past two rolling windows, so segments are pruned,
straddle the floor and are coalesced. Two files, two deaths and two hours are
enough to reach every pair of (crash point, recovery step) of the store, because
recovery looks at one leftover file at a time. In `capture_window` the clock has two
units and a backend two writes, enough for a wait that starts before the attach, one
that crosses the boundary, and a transition that races the seed or the sweep
(`FrozenAfter` is one unit). `capture_two_backends` has two windows, enough for state
left by one to reach the next; its backends do not write, so that fork, bootstrap,
INIT and exit can meet every point of the loops.
Backends meet in `QueryAttribution` only through the daemon's loops, whose order over
them no property depends on, so one backend is enough there; two windows let edges
and seeds of one reach the next. Which members fail to attach is chosen from none,
a required one, and all optional ones.

The runs of `ExactCapture`, `Escalation` and `QueryAttribution` allow deadlock, because
their clock or number of windows is bounded and the daemon may be stopped.

### Fairness

`store_write_faults` and `capture_window` use fairness. A daemon inside a handler keeps executing
it (weak fairness of its steps), which an operating system gives any process that
is not killed. `WF(Start)` says that a later start happens; the repository ships no
service definition that restarts the daemon, so the property reads "if the daemon
is started again". Nothing is assumed about when work arrives.
In `ExactCapture` the daemon's handlers run to completion, a BPF program that began
ends, and the tick that runs the sweep comes again and again (`daemon.c:433`). Backends
are not assumed to write or to exit, nor clients to close a window.

### What the runs found

Each disagreement below is a run whose expected result is a violation; the quoted
lines are in `PROJECT.json`.

* `store_false_clean`: after a failed block write the later close still stamps
  `CLOSED_CLEAN`.
* `store_flush_hole`: after a failed flush the writer appends behind the torn block,
  and recovery truncates what it committed there.
* `capture_phantom`: a backend whose exit event is still queued when the window ends
  gets an interval after its death; so does one that exits after the gate has closed,
  whose open stretch is carried to the boundary.
* `capture_last_record`: in full mode a transition between the last drain and the
  final flush is lost.
* `attribution_half_seeded`: arming a watchpoint seeds the backend a second time, and
  when that status read fails the coherent first seed is overwritten with nothing.
  The same run has a second cause: when the first read fails, an edge in one field
  is accepted for both (`exact_probe.c:893-912`).

`MarksPaired` excepts the backends that are `torn`; dropping the exception shows the
gaps of the code behind it. A command that starts or ends between its synthetic
marker and the live watchpoint changes the gate without a marker, through its probe
or through the second seed. A probe between its two admission checks at the quiesce
notes the edge and publishes nothing, so a start is left without its end.

`Attributed` says nothing of a degraded layout, and stated for one it fails in two
ways. The pinned probes note nothing between quiesce and release, so a statement
that ends there leaves its query id in the edge that the next window's seed starts
from. And a probe that took its time stamp before a boundary and notes after the
seed is disregarded by the merge.

The exceptions that the capture properties name are likewise gaps of the code:

* `Sealed`: `pgwt_handle_init` does not ask whether a window is open, so an INIT served
  after the window attaches a live watchpoint. `daemon.h:460` says that between windows
  there are "no traps on PG". It stays until a later window ends.
* `Sealed`: when enabling fails, the watchpoint is closed and the live entry stays
  (`backend.c:337-343`).
* `Accounted`: a backend that initializes while its FORK is served is attached directly
  and again by the queued INIT; the second seed discards the stretch the first opened.
* `Faithful`: a write between the sweep's re-check and its update is overwritten. The
  comment at `backend.c:738-743` says a fire-less entry "by definition has nothing
  racing in that window", but a backend whose one write was missed may write again.
  The next sweep repairs the label.

Three more are reproduced by changing one constant of a run:

* With `renameCkpt` and `index` in `Faults`, `SidecarMatches` fails: when the rename of the
  live checkpoint fails, `ckpt_handover` does not look at a sidecar another file left
  at the destination (`event_writer.c:344`).
* With `renameTrace` in `Faults` and retention on, `EvidenceSurvives` fails: retention takes
  the checkpoint that waits for its trace as an orphan (`event_writer.c:1579`).
* With `Prompt = FALSE`, `Accounted`, `Complete`, `Faithful` and `Sealed` fail: "recorded
  exactly once" at the boundary rests on a program in flight ending before the daemon
  reads (`escalation.c:597`).

## 4. What is proved

`EscalationProofs` proves, for every ledger size of at least 2, every rolling window,
budget, set of durations and `Lag`, and every bound on time and generations:

* `TypeCorrect`, `BillingTheorem`, `BudgetTheorem`, `LedgerTheorem`, `RollbackTheorem`.

The assumptions are `BudgetAssumption` and `EscalationAssumption`, which TLC evaluates in
the run `escalation`. The bounds `MaxTime` and `MaxGen` are arbitrary naturals in the
proofs.

The argument. `BudgetHolds` is not inductive: whether the next tick stays within
the budget depends on the deadline, and whether the deadline was granted rightly
depends on the ledger. The inductive invariant `IInv` is `TypeOK`, `LedgerShape`,
`LedgerSound`, `NeverUnbilled`, `CommitmentWithinBudget`, `BudgetHolds` and
`NothingLeftBehind`. The key lemma is that the ticks really escalated number no more
than the ticks billed: each is covered by a segment (`NeverUnbilled`), so counting
(segment, tick) pairs can only overcount. Hence a grant of `Budget - Consumed`
commits no more than the budget, which is `CommitmentWithinBudget`; a tick keeps the
sum of time spent and time left; and a deadline served at most `Lag` late gives
`BudgetHolds`. Coalescing covers what its two segments covered (and the gap), so it
preserves `NeverUnbilled`, and disjointness is preserved because the merged
segments are the two oldest. TLC checks every conjunct of `IInv` in the run.

`AttributionProofs` proves `BundleTheorem` and `OutliveTheorem` (`BundleSound` and
`NothingOutlives`) for every set of backends and queries, every attach failure and any
number of windows. One lemma for each operation of the bundle says what it does to
any bundle. The inductive invariant ties the bundle, the config, the seeds and the
live watchpoints to the daemon's position: with only the two properties, a release
could meet a consumer of another generation, and a clear could miss a seed.

Only model-checked: everything about `TraceStore` and `ExactCapture`; `Attributed`,
`MarksPaired` and the type invariant of `QueryAttribution`; liveness, which is outside the
prover's reach; and `NeverShortened`.

## 5. What is not modelled, and the plan

`PROJECT.json` names every part with its status and reason. In order:

1. `ControlQueue`: the bounded reply queue and its teardown.
2. `BlockIndex`: event and sample blocks, the index's order, and the reader's three
   ways to open a growing or rotating file; size-cap retention.
3. PID reuse and slot allocation in the backend lifecycle.
4. Sampler health, anomaly rules and their coupling to escalation.
5. Summary writer, open snapshot and overlay, with the server as second process.
6. Compute functions and indexes as operators against reference definitions.
7. Proofs: `NeverStranded` and `SidecarMatches` of the store, `Accounted` of capture,
   `Attributed`, and an abstract recorder that capture implements.

Left out for good: ELF and `/proc` discovery, structure layouts, name tables,
formatting, the JSON library, and the page's JavaScript. They are data and layout;
no property here tells one from another.
