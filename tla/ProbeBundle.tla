---------------------------- MODULE ProbeBundle -----------------------------
(***************************************************************************)
(* The bundle of exact-attribution probes of src/exact_probe.c, as         *)
(* operators on struct pgwt_exact_probe_core.  A member is one uprobe, or  *)
(* one USDT start/done pair, which attaches both links or neither.         *)
(*                                                                         *)
(* `fail' is the set of members whose attach call fails.                   *)
(***************************************************************************)
EXTENDS Naturals

Attr    == {"query_id", "activity"}  \* PGWT_EXACT_PROBE_ATTR_MASK, required
Phase   == {"exec", "plan"}          \* PGWT_EXACT_PROBE_PHASE_MASK, optional
Members == Attr \union Phase

Cores == [attached : SUBSET Members, pinned : SUBSET Members,
          consumers : Nat, generation : Nat]

NoCore == [attached |-> {}, pinned |-> {}, consumers |-> 0, generation |-> 0]

\* attach_missing: all the members of the mask that are not attached yet, or,
\* when one attach fails, none of them.
Attachable(core, mask, fail) == (mask \ core.attached) \intersect fail = {}

AttachMissing(core, mask, fail) ==
    IF Attachable(core, mask, fail)
    THEN [core EXCEPT !.attached = @ \union mask]
    ELSE core

\* pgwt_exact_probe_core_pin_best_effort: one member at a time, keeping what
\* attaches.
Pinnable(core, mask, fail) ==
    {m \in mask : m \in core.pinned \/ Attachable(core, {m}, fail)}

PinBestEffort(core, mask, generation, fail) ==
    LET got == Pinnable(core, mask, fail)
    IN  [core EXCEPT !.attached = @ \union got,
                     !.pinned = @ \union got,
                     !.generation = IF generation # 0 /\ got # {} THEN generation
                                                                  ELSE @]

\* pgwt_exact_probe_core_acquire succeeds when the required members attach; a
\* second consumer must be of the same generation.
Acquirable(core, mask, generation, fail) ==
    /\ generation # 0
    /\ IF core.consumers > 0 THEN core.generation = generation
                             ELSE Attachable(core, mask \ Phase, fail)

Acquire(core, mask, generation, fail) ==
    IF core.consumers > 0
    THEN [core EXCEPT !.consumers = @ + 1]
    ELSE LET required == AttachMissing(core, mask \ Phase, fail)
             optional == {m \in mask \intersect Phase : Attachable(core, {m}, fail)}
         IN  [required EXCEPT !.attached = @ \union optional,
                              !.generation = generation,
                              !.consumers = 1]

\* pgwt_exact_probe_core_release: the last consumer detaches what is not pinned.
MutRelease(core) ==
    IF core.consumers = 0 THEN core ELSE [core EXCEPT !.consumers = @ - 1, !.generation = 0]
Release(core) ==
    IF core.consumers = 0 THEN core
    ELSE IF core.consumers > 1 THEN [core EXCEPT !.consumers = @ - 1]
    ELSE [core EXCEPT !.consumers = 0,
                      !.attached = @ \intersect core.pinned,
                      !.generation = 0]

\* pgwt_exact_probe_core_unpin: links a consumer still uses stay until release.
Unpin(core, mask) ==
    [core EXCEPT !.pinned = @ \ mask,
                 !.attached = IF core.consumers > 0 THEN @ ELSE @ \ mask]
=============================================================================
