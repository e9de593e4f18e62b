----------------------------- MODULE TraceStore -----------------------------
(***************************************************************************)
(* The raw trace's file lifecycle in src/event_writer.c: lazy open, block  *)
(* commit, rotation, close, startup recovery, hours retention, and the     *)
(* open-interval checkpoint that travels with the trace file.              *)
(*                                                                         *)
(* One daemon at a time owns the directory.  It may die between any two    *)
(* system calls whose effect another process can see, so a handler is a    *)
(* chain of steps sequenced by pc.  A death loses the process memory and   *)
(* its stdio buffer and keeps the page cache.                              *)
(*                                                                         *)
(* Faults names the calls that may fail in an instance.                    *)
(***************************************************************************)
EXTENDS Integers, Sequences, FiniteSets, Functions

CONSTANTS
    None,           \* no such file, no name
    BlockEvents,    \* PGWT_BLOCK_EVENTS
    MaxFileBlocks,  \* PGWT_MAX_FILE_BLOCKS
    MaxSuffix,      \* the largest N of an archive name YYYY-MM-DD_HH.N
    RetentionHours, \* w->retention_hours, 0 = keep forever
    Faults,         \* the calls that may fail
    MaxHour,        \* bound: the last wall-clock hour explored
    MaxFiles,       \* bound: trace files created
    MaxRecords,     \* bound: records pushed
    MaxCkpt,        \* bound: checkpoints written per file
    MaxStarts       \* bound: daemon starts

AllFaults == {"write", "fflush", "index", "meta", "footer", "flags",
              "ckpt", "renameTrace", "renameCkpt", "openRecover", "truncate",
              "renameAside"}

ASSUME StoreAssumption ==
    /\ BlockEvents \in Nat \ {0} /\ MaxFileBlocks \in Nat \ {0}
    /\ MaxSuffix \in Nat /\ RetentionHours \in Nat
    /\ Faults \subseteq AllFaults
    /\ {MaxHour, MaxFiles, MaxRecords, MaxCkpt, MaxStarts} \subseteq Nat

VARIABLES
    cur,       \* current.trace
    meta,      \* current.trace.meta: the committed block count, 0 = no file
    live,      \* current.trace.open: the live checkpoint
    archives,  \* archive name -> trace file
    sidecars,  \* archive name -> the checkpoint at <name>.open
    aside,     \* files preserved as current.trace.corrupt.<ts>
    pc,        \* the daemon's next step, "down" = no daemon
    job,       \* the handler the step belongs to
    dest,      \* the archive name a handover has picked, or retention deleted
    doomed,    \* what the retention scan has still to delete
    w,         \* struct pgwt_event_writer
    hour,      \* wall clock, in hours
    starts,    \* daemon starts so far
    files,     \* trace files created so far; the newest one's identity
    records,   \* records pushed so far; a record is its number
    accepted,  \* history: file id -> records the writer took for that file
    committed, \* history: records whose block is flushed and advertised
    attested,  \* history: file id -> newest durable checkpoint
    died       \* history: files whose daemon died before finalizing them

disk    == <<cur, meta, live, archives, sidecars, aside>>
ctl     == <<pc, job, dest, doomed>>
history == <<accepted, committed, attested, died>>
env     == <<hour, starts, files, records>>
vars    == <<disk, ctl, w, env, history>>

-----------------------------------------------------------------------------
Torn  == {-1}                      \* a block whose payload is incomplete
Names == (0 .. MaxHour) \X (0 .. MaxSuffix)
Ids   == 0 .. MaxFiles             \* 0 is a file a pre-#424 daemon left

\* trails: bytes follow the last block, which is torn.
TraceFile(i, h, flags) ==
    [id |-> i, hour |-> h, header |-> FALSE, blocks |-> <<>>, trails |-> FALSE,
     flags |-> flags]

\* The blocks before the first torn one.
Scanned(f) ==
    LET good == {k \in 0 .. Len(f.blocks) : \A j \in 1 .. k : f.blocks[j] # Torn}
    IN  SubSeq(f.blocks, 1, CHOOSE k \in good : \A j \in good : j <= k)

\* What recovery's sequential scan may find.  A torn block ends it, unless so much
\* follows in the file that the payload it claims lies inside: then it counts as a
\* block (of no record) and the scan ends in the middle of what follows.
Scans(f) ==
    LET k == Len(Scanned(f))
        covered == k + 1 < Len(f.blocks) \/ (k + 1 = Len(f.blocks) /\ f.trails)
    IN  {Scanned(f)} \cup (IF covered THEN {Append(Scanned(f), {})} ELSE {})

\* The records whose blocks are whole in the file.
Holds(f) == UNION (Range(f.blocks) \ {Torn})

TraceFiles == Range(archives) \cup (IF cur = None THEN {} ELSE {cur})

\* pgwt_closure_from_flags
Closure(flags) ==
    CASE "tracked" \notin flags -> "UNKNOWN"
      [] "tracked" \in flags /\ "recovered" \in flags -> "UNCLEAN"
      [] "tracked" \in flags /\ "recovered" \notin flags ->
           IF {"clean", "rotated"} \subseteq flags THEN "UNCLEAN"
           ELSE IF "clean" \in flags THEN "CLEAN"
           ELSE IF "rotated" \in flags THEN "ROTATED" ELSE "IN_PROGRESS"

\* pgwt_archive_path_nonclobber: the first name of the hour that is not taken.
MutArchivePath(h) == <<h, 0>>
MutArchivePathPastEnd(h) ==
    LET free == {n \in 0 .. MaxSuffix + 1 : <<h, n>> \notin DOMAIN archives}
    IN  IF free = {} THEN None
        ELSE <<h, CHOOSE n \in free : \A k \in free : n <= k>>
ArchivePath(h) ==
    LET free == {n \in 0 .. MaxSuffix : <<h, n>> \notin DOMAIN archives}
    IN  IF free = {} THEN None
        ELSE <<h, CHOOSE n \in free : \A k \in free : n <= k>>

Writer(on) ==
    [enabled |-> on, fp |-> FALSE, id |-> 0, hour |-> -1, blocks |-> 0,
     pending |-> {}, seq |-> 0, forceRotate |-> FALSE, ok |-> TRUE,
     flags |-> {}]

NoneDoomed == [names |-> {}, files |-> {}]

Goto(p) == pc' = p /\ UNCHANGED <<job, dest, doomed>>
Done    == pc' = "idle" /\ job' = "none" /\ dest' = None /\ UNCHANGED doomed

\* Where finalize_current_file goes after a flush, or a pushed block returns.
AfterFlush ==
    IF job \in {"rotate", "close"} THEN Goto("footer") ELSE Done

\* The directory is empty or holds what a daemon that tracked no closure left.
Init ==
    /\ cur \in {None,
                [TraceFile(0, 0, {}) EXCEPT !.header = TRUE, !.blocks = <<{0}>>]}
    /\ meta = (IF cur = None THEN 0 ELSE 1)
    /\ live = None
    /\ archives = <<>>
    /\ sidecars = <<>>
    /\ aside = {}
    /\ pc = "down" /\ job = "none" /\ dest = None /\ doomed = NoneDoomed
    /\ w = Writer(FALSE)
    /\ hour = 0 /\ starts = 0 /\ files = 0 /\ records = 0
    /\ accepted = [i \in Ids |-> IF i = 0 THEN {0} ELSE {}]
    /\ committed = (IF cur = None THEN {} ELSE {0})
    /\ attested = [i \in Ids |-> 0]
    /\ died = {}

-----------------------------------------------------------------------------
(* Writing *)

\* The tail of pgwt_writer_push_event: buffer the record, flush a full buffer.
Buffer(wr) ==
    LET r == records + 1
        pending == wr.pending \cup {r}
    IN  /\ records' = r
        /\ accepted' = [accepted EXCEPT ![wr.id] = @ \cup {r}]
        /\ w' = [wr EXCEPT !.pending = pending]
        /\ IF Cardinality(pending) >= BlockEvents
           THEN pc' = "write" /\ job' = "push" /\ dest' = None /\ UNCHANGED doomed
           ELSE Done

Push ==
    /\ pc = "idle" /\ w.enabled /\ w.fp
    /\ records < MaxRecords
    /\ Buffer(w)
    /\ UNCHANGED <<disk, hour, starts, files, committed, attested, died>>

\* The first push without a file opens one, recovering a leftover first.
BeginOpen ==
    /\ pc = "idle" /\ w.enabled /\ ~w.fp
    /\ records < MaxRecords /\ files < MaxFiles
    /\ pc' = (IF cur = None THEN "create" ELSE "scan")
    /\ job' = "open" /\ UNCHANGED <<dest, doomed>>
    /\ UNCHANGED <<disk, w, env, history>>

\* fopen "wbx": never over an existing file; failing it ends the capture.
MutCreate ==
    /\ pc = "create"
    /\ files' = files + 1
    /\ cur' = TraceFile(files + 1, hour, {"tracked"})
    /\ w' = [w EXCEPT !.fp = TRUE, !.id = files + 1, !.hour = hour,
                      !.blocks = 0, !.seq = 0, !.flags = {"tracked"}]
    /\ Goto("discard")
    /\ UNCHANGED <<aside, meta, live, archives, sidecars, hour, starts, records, history>>
Create ==
    /\ pc = "create"
    /\ IF cur = None
       THEN /\ files' = files + 1
            /\ cur' = TraceFile(files + 1, hour, {"tracked"})
            /\ w' = [w EXCEPT !.fp = TRUE, !.id = files + 1, !.hour = hour,
                              !.blocks = 0, !.seq = 0, !.flags = {"tracked"}]
            /\ Goto("discard")
       ELSE /\ w' = [w EXCEPT !.enabled = FALSE]
            /\ Done
            /\ UNCHANGED <<cur, files>>
    /\ UNCHANGED <<aside, meta, live, archives, sidecars, hour, starts, records, history>>

\* The new file drops whatever checkpoint sits under the live name.
DiscardStale ==
    /\ pc = "discard"
    /\ live' = None
    /\ Buffer(w)
    /\ UNCHANGED <<aside, cur, meta, archives, sidecars, hour, starts, files,
                   committed, attested, died>>

\* write_typed_block up to its fflush.  The entry joins the in-memory index
\* before the bytes are written; a failed write ends the capture, a failed
\* flush does not.  The buffer is emptied whatever happens.
Flushed(f) == [f EXCEPT !.header = TRUE, !.blocks = Append(@, w.pending)]

WriteBlock ==
    /\ pc = "write" /\ w.pending # {}
    /\ cur' = Flushed(cur)
    /\ w' = [w EXCEPT !.blocks = @ + 1, !.pending = {},
                      !.forceRotate = @ \/ w.blocks >= MaxFileBlocks]
    /\ Goto("meta")
    /\ UNCHANGED <<aside, meta, live, archives, sidecars, env, history>>

\* What a write cut short leaves: nothing, or a block without its payload.
CutShort(f) == {f, [f EXCEPT !.header = TRUE, !.blocks = Append(@, Torn)]}

WriteBlockFails ==
    /\ pc = "write" /\ w.pending # {}
    /\ \E fault \in {"write", "fflush", "index"} \cap Faults :
         /\ w' = [w EXCEPT !.pending = {}, !.ok = FALSE,
                           !.blocks = IF fault = "index" THEN @ ELSE @ + 1,
                           !.enabled = @ /\ fault = "fflush",
                           !.forceRotate = @ \/ w.blocks >= MaxFileBlocks]
         /\ cur' \in IF fault = "index" THEN {cur} ELSE CutShort(cur)
    /\ AfterFlush
    /\ UNCHANGED <<aside, meta, live, archives, sidecars, env, history>>

NothingToWrite ==
    /\ pc = "write" /\ w.pending = {}
    /\ AfterFlush
    /\ UNCHANGED <<disk, w, env, history>>

\* The committed-block count is renamed into place; failing is not noticed.
WriteMeta ==
    /\ pc = "meta"
    /\ \/ meta' = w.blocks
       \/ "meta" \in Faults /\ UNCHANGED meta
    /\ committed' = committed \cup cur.blocks[Len(cur.blocks)]
    /\ AfterFlush
    /\ UNCHANGED <<aside, cur, live, archives, sidecars, w, env, accepted, attested, died>>

\* pgwt_writer_publish
Publish ==
    /\ pc = "idle" /\ w.enabled /\ w.fp /\ w.pending # {}
    /\ pc' = "write" /\ job' = "publish" /\ UNCHANGED <<dest, doomed>>
    /\ UNCHANGED <<disk, w, env, history>>

\* pgwt_writer_checkpoint_open: it flushes nothing and replaces the live
\* sidecar atomically; a failed write leaves the previous one standing.
CheckpointOpen ==
    /\ pc = "idle" /\ w.enabled /\ w.fp /\ w.seq < MaxCkpt
    /\ w' = [w EXCEPT !.seq = @ + 1]
    /\ \/ /\ live' = [id |-> w.id, seq |-> w.seq + 1, at |-> hour]
          /\ attested' = [attested EXCEPT ![w.id] = w.seq + 1]
       \/ "ckpt" \in Faults /\ UNCHANGED <<live, attested>>
    /\ UNCHANGED <<aside, cur, meta, archives, sidecars, ctl, env, accepted, committed, died>>

-----------------------------------------------------------------------------
(* Finalizing: rotation and close *)

Begin(j) ==
    /\ pc' = "write" /\ job' = j /\ UNCHANGED <<dest, doomed>>
    /\ w' = [w EXCEPT !.ok = TRUE]
    /\ UNCHANGED <<disk, env, history>>

\* pgwt_writer_check_rotation, once per daemon tick.
BeginRotate ==
    /\ pc = "idle" /\ w.enabled /\ w.fp
    /\ hour # w.hour \/ w.forceRotate
    /\ Begin("rotate")

\* pgwt_writer_close, at shutdown; it does not ask whether writing is enabled.
MutBeginClose ==
    /\ pc = "idle" /\ w.fp
    /\ pc' = "footer" /\ job' = "close" /\ UNCHANGED <<dest, doomed>>
    /\ w' = [w EXCEPT !.ok = TRUE]
    /\ UNCHANGED <<disk, env, history>>
BeginClose ==
    /\ pc = "idle" /\ w.fp
    /\ Begin("close")

\* Shutdown with no file open.
StopIdle ==
    /\ pc = "idle" /\ ~w.fp
    /\ pc' = "down" /\ w' = Writer(FALSE)
    /\ UNCHANGED <<disk, job, dest, doomed, env, history>>

\* Footer, fflush, fsync: attempted whatever failed before.  Only an intact
\* chain goes on to the header bit.
EndFinalize ==
    IF job = "rotate" THEN Goto("handover") ELSE Goto("exit")

\* A footer matters to a later scan only where it trails a torn block.
Footed(f) ==
    [f EXCEPT !.header = TRUE, !.trails = f.blocks # <<>> /\ f.blocks[Len(f.blocks)] = Torn]

WriteFooter ==
    /\ pc = "footer"
    /\ cur' = Footed(cur)
    /\ IF w.ok THEN Goto("flags") ELSE EndFinalize
    /\ w' = [w EXCEPT !.fp = w.ok]
    /\ UNCHANGED <<aside, meta, live, archives, sidecars, env, history>>

WriteFooterFails ==
    /\ pc = "footer" /\ "footer" \in Faults
    /\ cur' \in {cur, Footed(cur)}
    /\ w' = [w EXCEPT !.ok = FALSE, !.fp = FALSE]
    /\ EndFinalize
    /\ UNCHANGED <<aside, meta, live, archives, sidecars, env, history>>

\* write_header_flags: the terminal bit, after the data is durable.  A failed
\* call may or may not have reached the file.
Terminal == IF job = "rotate" THEN "rotated" ELSE "clean"
Stamp(f) == [f EXCEPT !.flags = @ \cup w.flags \cup {Terminal}]

WriteFlags ==
    /\ pc = "flags"
    /\ cur' = Stamp(cur)
    /\ w' = [w EXCEPT !.flags = @ \cup {Terminal}, !.fp = FALSE]
    /\ IF job = "rotate" THEN Goto("handover") ELSE Goto("drop")
    /\ UNCHANGED <<aside, meta, live, archives, sidecars, env, history>>

WriteFlagsFails ==
    /\ pc = "flags" /\ "flags" \in Faults
    /\ cur' \in {cur, Stamp(cur)}
    /\ w' = [w EXCEPT !.flags = @ \cup {Terminal}, !.fp = FALSE]
    /\ EndFinalize
    /\ UNCHANGED <<aside, meta, live, archives, sidecars, env, history>>

\* A certified close drops the checkpoint; the daemon then exits, and
\* current.trace stays where it is until the next start archives it.
DropCheckpoint ==
    /\ pc = "drop"
    /\ live' = None
    /\ Goto("exit")
    /\ UNCHANGED <<aside, cur, meta, archives, sidecars, w, env, history>>

Exit ==
    /\ pc = "exit"
    /\ pc' = "down" /\ job' = "none" /\ UNCHANGED <<dest, doomed>>
    /\ w' = Writer(FALSE)
    /\ UNCHANGED <<disk, env, history>>

-----------------------------------------------------------------------------
(* Archiving: the checkpoint moves first, then the trace, then meta goes *)

\* Recovery returns to whoever called it: pgwt_writer_init or open_trace_file.
RecoverReturns == IF job = "open" THEN Goto("create") ELSE Done

\* ckpt_handover for the archive name n: <<live', sidecars'>>, one pair for
\* each way the calls can go.
With(f, x, v) == [y \in DOMAIN f \cup {x} |-> IF y = x THEN v ELSE f[y]]

MutHandoverLate(n) == {<<live, sidecars>>}
MutHandoverDrops(n) == {<<None, sidecars>>}
MutHandoverAdoptsAny(n) ==
    IF live # None /\ live.id = cur.id
    THEN {<<None, With(sidecars, n, live)>>}
    ELSE {<<None, sidecars>>}
Handover(n) ==
    IF live # None /\ live.id = cur.id
    THEN {<<None, With(sidecars, n, live)>>}
           \cup (IF "renameCkpt" \in Faults THEN {<<None, sidecars>>} ELSE {})
    ELSE IF live # None THEN {<<None, sidecars>>}
    ELSE IF n \in DOMAIN sidecars /\ sidecars[n].id # cur.id
         THEN {<<None, Restrict(sidecars, DOMAIN sidecars \ {n})>>}
         ELSE {<<None, sidecars>>}

HandOver ==
    /\ pc = "handover"
    /\ LET n == ArchivePath(cur.hour)
       IN  IF n = None
           THEN /\ IF job = "rotate" THEN Goto("unmeta") ELSE RecoverReturns
                /\ UNCHANGED <<live, sidecars>>
           ELSE /\ \E r \in Handover(n) : live' = r[1] /\ sidecars' = r[2]
                /\ pc' = "rename" /\ dest' = n /\ UNCHANGED <<job, doomed>>
    /\ UNCHANGED <<aside, cur, meta, archives, w, env, history>>

RenameTrace ==
    /\ pc = "rename"
    /\ archives' = With(archives, dest, cur)
    /\ cur' = None
    /\ Goto("unmeta")
    /\ UNCHANGED <<aside, meta, live, sidecars, w, env, history>>

\* A rotation goes on without the rename; recovery gives up and leaves the file.
RenameTraceFails ==
    /\ pc = "rename" /\ "renameTrace" \in Faults
    /\ IF job = "rotate" THEN Goto("unmeta") ELSE RecoverReturns
    /\ UNCHANGED <<disk, w, env, history>>

UnlinkMeta ==
    /\ pc = "unmeta"
    /\ meta' = 0
    /\ IF job = "rotate"
       THEN Done /\ w' = [w EXCEPT !.forceRotate = FALSE]
       ELSE RecoverReturns /\ UNCHANGED w
    /\ UNCHANGED <<aside, cur, live, archives, sidecars, env, history>>

-----------------------------------------------------------------------------
(* Starting: recover_current_trace *)

Start ==
    /\ pc = "down" /\ starts < MaxStarts
    /\ starts' = starts + 1
    /\ pc' = "scan" /\ job' = "init" /\ dest' = None /\ UNCHANGED doomed
    /\ w' = Writer(TRUE)
    /\ UNCHANGED <<disk, hour, files, records, history>>

\* No trace to recover: its meta file and checkpoint describe nothing.
ScanAbsent ==
    /\ pc = "scan" /\ cur = None
    /\ Goto("forgetMeta")
    /\ UNCHANGED <<disk, w, env, history>>

ForgetMeta ==
    /\ pc = "forgetMeta"
    /\ meta' = 0
    /\ Goto("forgetCkpt")
    /\ UNCHANGED <<aside, cur, live, archives, sidecars, w, env, history>>

ForgetCheckpoint ==
    /\ pc = "forgetCkpt"
    /\ live' = None
    /\ RecoverReturns
    /\ UNCHANGED <<aside, cur, meta, archives, sidecars, w, env, history>>

ScanCannotOpen ==
    /\ pc = "scan" /\ cur # None /\ "openRecover" \in Faults
    /\ RecoverReturns
    /\ UNCHANGED <<disk, w, env, history>>

\* Without a readable header or a complete block the file is set aside (or
\* removed, when nothing follows the header); the rest is as if it were absent,
\* even when the file could not be moved and stays where it is.
ScanUnusable ==
    /\ pc = "scan" /\ cur # None
    /\ ~cur.header \/ <<>> \in Scans(cur)
    /\ \/ /\ cur' = None
          /\ \/ aside' = aside \cup {cur}
             \/ cur.header /\ cur.blocks = <<>> /\ UNCHANGED aside
       \/ "renameAside" \in Faults /\ UNCHANGED <<cur, aside>>
    /\ Goto("forgetMeta")
    /\ UNCHANGED <<meta, live, archives, sidecars, w, env, history>>

\* What follows the last block found is cut off and a footer appended; if that
\* fails the file is archived all the same, unlabelled.
Cut(s) == [cur EXCEPT !.blocks = s, !.trails = FALSE]
Usable == pc = "scan" /\ cur # None /\ cur.header

MutTruncate ==
    /\ Usable
    /\ \E s \in Scans(cur) \ {<<>>} : cur' = Cut(s)
    /\ IF "clean" \in cur.flags THEN RecoverReturns ELSE Goto("label")
    /\ UNCHANGED <<aside, meta, live, archives, sidecars, w, env, history>>
Truncate ==
    /\ Usable
    /\ \E s \in Scans(cur) \ {<<>>} : cur' = Cut(s)
    /\ Goto("label")
    /\ UNCHANGED <<aside, meta, live, archives, sidecars, w, env, history>>

TruncateFails ==
    /\ Usable /\ "truncate" \in Faults
    /\ \E s \in Scans(cur) \ {<<>>} : cur' \in {cur, Cut(s)}
    /\ Goto("handover")
    /\ UNCHANGED <<aside, meta, live, archives, sidecars, w, env, history>>

\* RECOVERED goes on a tracked file that was never finalized, or whose terminal
\* bit is contradicted by blocks missing below the committed count.
MutMustLabel == "tracked" \in cur.flags /\ meta > Len(cur.blocks)
MustLabel ==
    /\ "tracked" \in cur.flags
    /\ {"clean", "rotated"} \cap cur.flags = {} \/ meta > Len(cur.blocks)
    /\ "recovered" \notin cur.flags

Label ==
    /\ pc = "label"
    /\ cur' = IF MustLabel THEN [cur EXCEPT !.flags = @ \cup {"recovered"}] ELSE cur
    /\ Goto("handover")
    /\ UNCHANGED <<aside, meta, live, archives, sidecars, w, env, history>>

LabelFails ==
    /\ pc = "label" /\ {"footer", "flags"} \cap Faults # {}
    /\ Goto("handover")
    /\ UNCHANGED <<disk, w, env, history>>

-----------------------------------------------------------------------------
\* pgwt_writer_cleanup_old_files with no size cap.  The cutoff is RetentionHours
\* before the present instant, which lies at or after the start of its hour, and an
\* archive is as old as the start of the hour in its name.  A file set aside is as
\* old as its last write, an orphaned sidecar goes once an hour old.
Cutoffs == IF RetentionHours = 0 THEN {0}
           ELSE {hour - RetentionHours, hour - RetentionHours + 1}
Expired(cutoff) == {n \in DOMAIN archives : n[1] < cutoff}
Orphans == {n \in DOMAIN sidecars \ DOMAIN archives : sidecars[n].at < hour}

Cleanup ==
    /\ pc = "idle"
    /\ \E cutoff \in Cutoffs, stale \in SUBSET Orphans :
       \E old \in SUBSET {f \in aside : f.hour < cutoff} :
          /\ {n \in Orphans : sidecars[n].at < hour - 1} \subseteq stale
          /\ doomed' = [names |-> Expired(cutoff) \cup stale, files |-> old]
    /\ doomed' # NoneDoomed
    /\ pc' = "cleanup" /\ UNCHANGED <<job, dest>>
    /\ UNCHANGED <<disk, w, env, history>>

\* The scan meets the files in any order; an archive goes before its sidecar.
UnlinkOld ==
    /\ pc = "cleanup"
    /\ \E n \in doomed.names :
          /\ archives' = Restrict(archives, DOMAIN archives \ {n})
          /\ committed' = IF n \in DOMAIN archives
                          THEN committed \ Holds(archives[n]) ELSE committed
          /\ doomed' = [doomed EXCEPT !.names = @ \ {n}]
          /\ pc' = "unsidecar" /\ dest' = n /\ UNCHANGED job
    /\ UNCHANGED <<aside, cur, meta, live, sidecars, w, env, accepted, attested, died>>

UnlinkSidecar ==
    /\ pc = "unsidecar"
    /\ sidecars' = Restrict(sidecars, DOMAIN sidecars \ {dest})
    /\ pc' = "cleanup" /\ dest' = None /\ UNCHANGED <<job, doomed>>
    /\ UNCHANGED <<aside, cur, meta, live, archives, w, env, history>>

UnlinkAside ==
    /\ pc = "cleanup"
    /\ \E f \in doomed.files :
          /\ aside' = aside \ {f}
          /\ committed' = committed \ Holds(f)
          /\ doomed' = [doomed EXCEPT !.files = @ \ {f}]
    /\ UNCHANGED <<cur, meta, live, archives, sidecars, pc, job, dest, w, env,
                   accepted, attested, died>>

CleanedUp ==
    /\ pc = "cleanup" /\ doomed = NoneDoomed
    /\ Done
    /\ UNCHANGED <<disk, w, env, history>>

\* The wall-clock hour changes: forward, or back at a DST fold or a clock step.
HourChanges ==
    /\ \E h \in 0 .. MaxHour \ {hour} : hour' = h
    /\ UNCHANGED <<disk, ctl, w, starts, files, records, history>>

\* The daemon dies between two calls, or inside a block write.
Crash ==
    /\ pc # "down" /\ starts < MaxStarts
    /\ pc' = "down" /\ job' = "none" /\ dest' = None /\ doomed' = NoneDoomed
    /\ w' = Writer(FALSE)
    /\ IF pc = "write" /\ w.pending # {}
       THEN cur' \in CutShort(cur) \cup {Flushed(cur)}
       ELSE UNCHANGED cur
    /\ died' = IF w.fp THEN died \cup {w.id} ELSE died
    /\ UNCHANGED <<aside, meta, live, archives, sidecars, env, accepted, committed, attested>>

Daemon ==
    \/ Push \/ BeginOpen \/ Create \/ DiscardStale
    \/ WriteBlock \/ WriteBlockFails \/ NothingToWrite \/ WriteMeta
    \/ Publish \/ CheckpointOpen
    \/ BeginRotate \/ BeginClose \/ StopIdle
    \/ WriteFooter \/ WriteFooterFails \/ WriteFlags \/ WriteFlagsFails
    \/ DropCheckpoint \/ Exit
    \/ HandOver \/ RenameTrace \/ RenameTraceFails \/ UnlinkMeta
    \/ Start \/ ScanAbsent \/ ForgetMeta \/ ForgetCheckpoint
    \/ ScanCannotOpen \/ ScanUnusable \/ Truncate \/ TruncateFails
    \/ Label \/ LabelFails
    \/ Cleanup \/ UnlinkOld \/ UnlinkSidecar \/ UnlinkAside \/ CleanedUp

Next == Daemon \/ HourChanges \/ Crash

Spec == Init /\ [][Next]_vars

-----------------------------------------------------------------------------
(* Properties *)

Pcs == {"down", "idle", "create", "discard", "write", "meta", "footer", "flags",
        "drop", "exit", "handover", "rename", "unmeta", "scan", "label",
        "forgetMeta", "forgetCkpt", "cleanup", "unsidecar"}

File == [id : Ids, hour : 0 .. MaxHour, header : BOOLEAN,
         blocks : Seq(SUBSET (-1 .. MaxRecords)), trails : BOOLEAN,
         flags : SUBSET {"tracked", "clean", "rotated", "recovered"}]
Checkpoint == [id : Ids, seq : 1 .. MaxCkpt, at : 0 .. MaxHour]

\* Type invariant of the directory, the writer and the daemon's control point.
TypeOK ==
    /\ cur \in File \cup {None}
    /\ meta \in Nat
    /\ live \in Checkpoint \cup {None}
    /\ DOMAIN archives \subseteq Names /\ Range(archives) \subseteq File
    /\ DOMAIN sidecars \subseteq Names /\ Range(sidecars) \subseteq Checkpoint
    /\ aside \subseteq File
    /\ pc \in Pcs /\ job \in {"none", "init", "open", "push", "publish", "rotate", "close"}
    /\ dest \in Names \cup {None}
    /\ doomed.names \subseteq Names /\ doomed.files \subseteq aside
    /\ w.pending \subseteq 1 .. MaxRecords /\ w.id \in Ids
    /\ hour \in 0 .. MaxHour /\ starts \in 0 .. MaxStarts
    /\ files \in Ids /\ records \in 0 .. MaxRecords

\* No crash, restart, rotation or name collision loses a committed record: once
\* a block was flushed and advertised it stays in current.trace, in an archive or
\* in a file set aside until retention deletes that archive ("NEVER truncate", DUR-1/2).
CommittedSurvives ==
    committed \subseteq UNION {Holds(f) : f \in TraceFiles \cup aside}

\* A file whose header reads CLEAN or ROTATED holds every record the writer
\* took for it, and its daemon did not die before finalizing it: the verdict
\* that silences the reader's "intervals may be missing" is never false.
ClosureHonest ==
    \A f \in TraceFiles :
        Closure(f.flags) \in {"CLEAN", "ROTATED"}
            => accepted[f.id] \subseteq Holds(f) /\ f.id \notin died

\* Whatever the crash point, the archive of a tracked file says how it ended:
\* it is never left reading as an unfinished capture.
ArchiveSettled ==
    \A f \in Range(archives) : Closure(f.flags) # "IN_PROGRESS"

\* "The one state that must never exist" of ckpt_handover: a trace already
\* archived while its checkpoint still has the live name, where the next start
\* would delete it as unattributable.
NeverStranded ==
    live # None => \A f \in Range(archives) : f.id # live.id

\* A checkpoint beside an archive is about that archive: the identity check
\* keeps a foreign sidecar from being adopted by a reused archive name.
SidecarMatches ==
    \A n \in DOMAIN archives \cap DOMAIN sidecars : sidecars[n].id = archives[n].id

\* The newest durable checkpoint of a file outlives every crash and handover as
\* long as the file has a block to be read with and was not cleanly closed: it
\* is under the live name, or beside the name the file has or will get.
EvidenceSurvives ==
    \A f \in TraceFiles :
        LET held(c) == c # None /\ c.id = f.id /\ c.seq = attested[f.id]
            at(n)   == n \in DOMAIN sidecars /\ held(sidecars[n])
        IN  attested[f.id] > 0 /\ "clean" \notin f.flags /\ Scanned(f) # <<>>
              => \/ held(live)
                 \/ f = cur /\ at(ArchivePath(f.hour))
                 \/ \E n \in DOMAIN archives : archives[n] = f /\ at(n)

\* An archive is written once: no later step changes or replaces a file under
\* an archive name, whatever hours repeat; retention may only remove it.
ArchivesImmutable ==
    [][\A n \in DOMAIN archives \cap DOMAIN archives' : archives'[n] = archives[n]]_vars

\* Fairness: a daemon that runs keeps executing, and a stopped one is started
\* again while the bound allows: what LeftoverArchived says of a later start.
FairSpec ==
    /\ Spec
    /\ WF_vars(pc \notin {"idle", "down"} /\ Daemon)
    /\ WF_vars(Start)

\* A trace a dead daemon left behind is eventually archived by a later start,
\* or set aside when it holds no complete block.
LeftoverArchived ==
    (cur # None /\ pc = "down" /\ starts < MaxStarts) ~> (cur = None)
====
