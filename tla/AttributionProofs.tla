------------------------- MODULE AttributionProofs --------------------------
(***************************************************************************)
(* The probe bundle is whole while a window uses it, and nothing of a      *)
(* window is left when it is over, for every set of backends, every        *)
(* combination of attach failures and any number of windows.               *)
(***************************************************************************)
EXTENDS QueryAttribution, TLAPS

Window == {"seed", "synth", "attach", "open", "terminal", "detach", "release"}
Before == {"start", "warm", "idle", "boundary"}

Shape ==
    /\ pc \in Before \union {"config"} \union Window
    /\ windows \in Nat
    /\ core \in Cores
    /\ cfg \in [generation : Nat, admitting : BOOLEAN]
    /\ live \in [Backends -> BOOLEAN]
    /\ seed = [b \in Backends |-> seed[b]]

\* The bundle and the config follow the daemon's position.
BundlePhase ==
    /\ core.pinned \subseteq core.attached
    /\ core.pinned \subseteq Attr
    /\ core.consumers = 0 => core.attached \subseteq core.pinned
    /\ pc \in Window => /\ core.consumers = 1
                        /\ Attr \subseteq core.attached
                        /\ core.generation = windows
    /\ pc \notin Window => core.consumers = 0
    /\ pc \in Window \union {"config"} => cfg.generation = windows
    /\ pc \in Before => cfg = [generation |-> 0, admitting |-> TRUE]
    /\ pc \in Window \union {"config", "boundary"} => windows # 0

SeedPhase ==
    \A b \in Backends : seed[b] = NoSeed \/ (pc \in Window /\ seed[b].gen = windows)

LivePhase ==
    \A b \in Backends : live[b] => \/ pc \in {"attach", "open", "terminal"}
                                   \/ pc = "detach" /\ b \in todo

IInv == Shape /\ BundlePhase /\ SeedPhase /\ LivePhase

-----------------------------------------------------------------------------
(* The operations of the bundle, for any bundle.                           *)

\* Pinning keeps what attaches and nothing else (pin_best_effort).
LEMMA PinLemma ==
    ASSUME NEW c \in Cores, NEW fail, c.consumers = 0,
           c.pinned \subseteq c.attached, c.attached \subseteq c.pinned,
           c.pinned \subseteq Attr
    PROVE  LET d == PinBestEffort(c, Attr, 0, fail)
           IN  /\ d \in Cores /\ d.consumers = 0
               /\ d.pinned \subseteq d.attached /\ d.attached \subseteq d.pinned
               /\ d.pinned \subseteq Attr
<1> DEFINE got == Pinnable(c, Attr, fail)
           d == PinBestEffort(c, Attr, 0, fail)
<1>1. got \subseteq Attr
  BY DEF Pinnable
<1>2. d = [c EXCEPT !.attached = c.attached \union got, !.pinned = c.pinned \union got]
  BY DEF PinBestEffort, Cores
<1> HIDE DEF got, d
<1>3. d \in Cores /\ d.attached = c.attached \union got /\ d.pinned = c.pinned \union got
        /\ d.consumers = 0
  BY <1>1, <1>2 DEF Cores, Members
<1> QED
  BY <1>1, <1>3 DEF d

\* Unpinning without a consumer detaches what it unpins (core_unpin).
LEMMA UnpinLemma ==
    ASSUME NEW c \in Cores, c.consumers = 0,
           c.pinned \subseteq c.attached, c.attached \subseteq c.pinned,
           c.pinned \subseteq Attr
    PROVE  LET d == Unpin(c, Attr)
           IN  /\ d \in Cores /\ d.consumers = 0
               /\ d.pinned \subseteq d.attached /\ d.attached \subseteq d.pinned
               /\ d.pinned \subseteq Attr
<1> DEFINE d == Unpin(c, Attr)
<1>1. d = [c EXCEPT !.pinned = c.pinned \ Attr, !.attached = c.attached \ Attr]
  BY DEF Unpin, Cores
<1> HIDE DEF d
<1>2. d \in Cores /\ d.pinned = c.pinned \ Attr /\ d.attached = c.attached \ Attr
        /\ d.consumers = 0
  BY <1>1 DEF Cores
<1> QED
  BY <1>2 DEF d

\* A first consumer that is granted has every required member (core_acquire).
LEMMA AcquireLemma ==
    ASSUME NEW c \in Cores, NEW g \in Nat, NEW fail, c.consumers = 0,
           c.pinned \subseteq c.attached, c.pinned \subseteq Attr,
           Acquirable(c, Members, g, fail)
    PROVE  LET d == Acquire(c, Members, g, fail)
           IN  /\ d \in Cores /\ d.consumers = 1 /\ d.generation = g
               /\ d.pinned = c.pinned
               /\ Attr \subseteq d.attached /\ d.pinned \subseteq d.attached
<1> DEFINE opt == {m \in Members \intersect Phase : Attachable(c, {m}, fail)}
           d == Acquire(c, Members, g, fail)
<1>1. Members \ Phase = Attr
  BY DEF Members, Attr, Phase
<1>2. Attachable(c, Attr, fail)
  BY <1>1 DEF Acquirable, Cores
<1>3. AttachMissing(c, Attr, fail) = [c EXCEPT !.attached = c.attached \union Attr]
  BY <1>2 DEF AttachMissing
<1> DEFINE r == AttachMissing(c, Attr, fail)
<1>4. d = [r EXCEPT !.attached = r.attached \union opt, !.generation = g, !.consumers = 1]
  <2>1. ~(c.consumers > 0)
    OBVIOUS
  <2>2. r = AttachMissing(c, Members \ Phase, fail)
    BY <1>1
  <2> QED
    BY <2>1, <2>2, Zenon DEF Acquire
<1>5. opt \subseteq Members /\ Attr \subseteq Members
  BY DEF Members
<1> HIDE DEF opt, d, r
<1>6. r \in Cores /\ r.attached = c.attached \union Attr /\ r.pinned = c.pinned
  BY <1>3, <1>5 DEF Cores, r
<1>7. d \in Cores /\ d.attached = (c.attached \union Attr) \union opt
        /\ d.pinned = c.pinned /\ d.generation = g /\ d.consumers = 1
  BY <1>4, <1>5, <1>6 DEF Cores
<1> QED
  BY <1>7 DEF d

\* The last consumer leaves the pinned members only (core_release).
LEMMA ReleaseLemma ==
    ASSUME NEW c \in Cores, c.consumers = 1, c.pinned \subseteq c.attached
    PROVE  LET d == Release(c)
           IN  /\ d \in Cores /\ d.consumers = 0 /\ d.pinned = c.pinned
               /\ d.attached = c.pinned
<1>1. Release(c) = [c EXCEPT !.consumers = 0,
                             !.attached = c.attached \intersect c.pinned,
                             !.generation = 0]
  BY DEF Release, Cores
<1> DEFINE d == Release(c)
<1> HIDE DEF d
<1>2. c.attached \intersect c.pinned = c.pinned
  OBVIOUS
<1>3. d = [c EXCEPT !.consumers = 0, !.attached = c.pinned, !.generation = 0]
  BY <1>1, <1>2 DEF d
<1>4. d \in Cores /\ d.consumers = 0 /\ d.pinned = c.pinned /\ d.attached = c.pinned
  BY <1>3 DEF Cores
<1> QED
  BY <1>4 DEF d

-----------------------------------------------------------------------------
(* The invariant.                                                          *)

\* The daemon starts with no probe, no generation and no seed.
LEMMA Initial == Init => IInv
  BY DEF Init, IInv, Shape, BundlePhase, SeedPhase, LivePhase, Window, Before,
         NoCore, Cores, NoSeed, Members, Attr, Phase

\* A backend's report call touches nothing the invariant is about.
LEMMA BackendStep ==
    ASSUME IInv, NEW b \in Backends,
           \/ \E k \in Kinds, v \in QueryIds \union BOOLEAN : Report(b, k, v)
           \/ Check(b) \/ Note(b) \/ Emit(b) \/ WriteStatus(b)
    PROVE  IInv'
<1>1. UNCHANGED <<daemonVars, seed, live>>
  BY DEF Report, Check, Note, Emit, WriteStatus
<1> QED
  BY <1>1 DEF IInv, Shape, BundlePhase, SeedPhase, LivePhase, daemonVars

\* Releasing returns to the state outside a window (pgwt_exact_probe_release
\* and pgwt_exact_seed_clear).
LEMMA ReleaseStep ==
    ASSUME IInv, pc \in Window, ReleaseExact, pc' = "idle",
           \A b \in Backends : ~live[b], UNCHANGED <<windows, live>>
    PROVE  IInv'
<1>1. /\ core' \in Cores /\ core'.consumers = 0
      /\ core'.pinned = core.pinned /\ core'.attached = core.pinned
  BY ReleaseLemma DEF IInv, Shape, BundlePhase, ReleaseExact
<1>2. cfg' = [generation |-> 0, admitting |-> TRUE]
  BY <1>1 DEF ReleaseExact
<1>3. seed' = [b \in Backends |-> NoSeed]
  BY DEF ReleaseExact, Clear, IInv, BundlePhase, SeedPhase
<1>4. Shape'
  BY <1>1, <1>2, <1>3 DEF IInv, Shape, Before
<1>5. BundlePhase'
  BY <1>1, <1>2 DEF IInv, BundlePhase, Before, Window
<1>6. SeedPhase' /\ LivePhase'
  BY <1>3 DEF SeedPhase, LivePhase
<1> QED
  BY <1>4, <1>5, <1>6 DEF IInv

\* Before a window: startup, the warm-up's end, the boundary, the config, and
\* the acquisition, granted or denied.
LEMMA OpeningStep ==
    ASSUME IInv,
           \/ \E fail \in AttachFaults :
                  Startup(fail) \/ AcquireProbes(fail) \/ AcquireDenied(fail)
           \/ \E validated \in BOOLEAN : Reconcile(validated)
           \/ Boundary
           \/ SetConfig
    PROVE  IInv'
<1> USE DEF IInv
<1>0. UNCHANGED <<seed, live>>
  BY DEF Startup, AcquireProbes, AcquireDenied, Reconcile, Boundary, SetConfig
<1>1. ASSUME NEW fail \in AttachFaults, Startup(fail) PROVE IInv'
  <2>1. /\ core' \in Cores /\ core'.consumers = 0
        /\ core'.pinned \subseteq core'.attached /\ core'.attached \subseteq core'.pinned
        /\ core'.pinned \subseteq Attr
    BY <1>1, PinLemma DEF Startup, Shape, BundlePhase, Window
  <2>2. pc = "start" /\ pc' = "warm" /\ UNCHANGED <<cfg, windows>>
    BY <1>1 DEF Startup
  <2> QED
    BY <1>0, <2>1, <2>2 DEF Shape, BundlePhase, SeedPhase, LivePhase, Window, Before
<1>2. ASSUME NEW validated \in BOOLEAN, Reconcile(validated) PROVE IInv'
  <2>1. /\ core' \in Cores /\ core'.consumers = 0
        /\ core'.pinned \subseteq core'.attached /\ core'.attached \subseteq core'.pinned
        /\ core'.pinned \subseteq Attr
    BY <1>2, UnpinLemma DEF Reconcile, Shape, BundlePhase, Window
  <2>2. pc = "warm" /\ pc' = "idle" /\ UNCHANGED <<cfg, windows>>
    BY <1>2 DEF Reconcile
  <2> QED
    BY <1>0, <2>1, <2>2 DEF Shape, BundlePhase, SeedPhase, LivePhase, Window, Before
<1>3. CASE Boundary
  <2>1. /\ pc = "idle" /\ pc' = "boundary" /\ UNCHANGED <<cfg, core>>
        /\ windows' \in Nat /\ windows' # 0
    BY <1>3 DEF Boundary, Shape
  <2> QED
    BY <1>0, <2>1 DEF Shape, BundlePhase, SeedPhase, LivePhase, Window, Before
<1>4. CASE SetConfig
  <2>1. /\ pc = "boundary" /\ pc' = "config" /\ UNCHANGED <<windows, core>>
        /\ cfg' = [generation |-> windows, admitting |-> TRUE]
    BY <1>4 DEF SetConfig
  <2> QED
    BY <1>0, <2>1 DEF Shape, BundlePhase, SeedPhase, LivePhase, Window, Before
<1>5. ASSUME NEW fail \in AttachFaults, AcquireProbes(fail) PROVE IInv'
  <2>1. /\ core' \in Cores /\ core'.consumers = 1 /\ core'.generation = windows
        /\ core'.pinned = core.pinned
        /\ Attr \subseteq core'.attached /\ core'.pinned \subseteq core'.attached
    BY <1>5, AcquireLemma DEF AcquireProbes, Shape, BundlePhase, Window
  <2>2. pc = "config" /\ pc' = "seed" /\ UNCHANGED <<cfg, windows>>
    BY <1>5 DEF AcquireProbes
  <2> QED
    BY <1>0, <2>1, <2>2 DEF Shape, BundlePhase, SeedPhase, LivePhase, Window, Before
<1>6. ASSUME NEW fail \in AttachFaults, AcquireDenied(fail) PROVE IInv'
  <2>1. /\ pc = "config" /\ pc' = "idle" /\ UNCHANGED <<windows, core>>
        /\ cfg' = [generation |-> 0, admitting |-> TRUE]
    BY <1>6 DEF AcquireDenied
  <2> QED
    BY <1>0, <2>1 DEF Shape, BundlePhase, SeedPhase, LivePhase, Window, Before
<1> QED
  BY <1>1, <1>2, <1>3, <1>4, <1>5, <1>6

\* Inside a window: the loops over the registry, and admission closing.
LEMMA WindowStep ==
    ASSUME IInv,
           \/ \E b \in Backends : \/ Seed(b) \/ Synth(b) \/ Attach(b)
                                  \/ Terminal(b) \/ Detach(b)
           \/ Quiesce
    PROVE  IInv'
<1> USE DEF IInv
<1>1. pc \in Window /\ pc' \in Window /\ UNCHANGED <<core, windows>>
  BY DEF Seed, Synth, Attach, Terminal, Detach, Quiesce, Loop, Window
<1>2. cfg' \in [generation : Nat, admitting : BOOLEAN] /\ cfg'.generation = cfg.generation
  BY DEF Seed, Synth, Attach, Terminal, Detach, Quiesce, Shape
<1>3. BundlePhase'
  BY <1>1, <1>2 DEF BundlePhase, Window, Before
<1>4. seed' = [b \in Backends |-> seed'[b]] /\ SeedPhase'
  <2>1. CASE UNCHANGED seed
    BY <1>1, <2>1 DEF SeedPhase, Shape
  <2>2. ASSUME NEW b \in Backends, Seed(b) \/ Attach(b)
        PROVE  seed' = [c \in Backends |-> seed'[c]] /\ SeedPhase'
    <3>1. PICK from : seed' = [seed EXCEPT ![b] = SeedFrom(b, from)]
      BY <2>2 DEF Seed, Attach, PutSeed
    <3> DEFINE s == SeedFrom(b, from)
    <3>2. s.gen = cfg.generation
      BY DEF SeedFrom
    <3> HIDE DEF s
    <3>3. seed' = [c \in Backends |-> IF c = b THEN s ELSE seed[c]]
      BY <3>1 DEF Shape, s
    <3> QED
      BY <1>1, <3>2, <3>3 DEF SeedPhase, BundlePhase
  <2> QED
    BY <2>1, <2>2 DEF Synth, Terminal, Detach, Quiesce
<1>5. live' \in [Backends -> BOOLEAN] /\ LivePhase'
  <2>1. ASSUME NEW b \in Backends, Attach(b)
        PROVE  live' \in [Backends -> BOOLEAN] /\ LivePhase'
    BY <2>1 DEF Attach, Loop, Shape, LivePhase
  <2>2. ASSUME NEW b \in Backends, Detach(b)
        PROVE  live' \in [Backends -> BOOLEAN] /\ LivePhase'
    BY <2>2 DEF Detach, Loop, Shape, LivePhase
  <2>3. ASSUME NEW b \in Backends, Seed(b) \/ Synth(b) \/ Terminal(b)
        PROVE  live' \in [Backends -> BOOLEAN] /\ LivePhase'
    BY <2>3 DEF Seed, Synth, Terminal, Loop, Shape, LivePhase
  <2>4. CASE Quiesce
    BY <2>4 DEF Quiesce, Shape, LivePhase
  <2> QED
    BY <2>1, <2>2, <2>3, <2>4
<1> QED
  BY <1>1, <1>2, <1>3, <1>4, <1>5 DEF Shape

\* Every step of the daemon and of a backend keeps the invariant.
LEMMA Inductive == IInv /\ [Next]_vars => IInv'
<1> SUFFICES ASSUME IInv, [Next]_vars PROVE IInv'
  OBVIOUS
<1>1. ASSUME NEW b \in Backends, SeedDenied(b) PROVE IInv'
  BY <1>1, ReleaseStep DEF SeedDenied, IInv, LivePhase, Window
<1>2. CASE ReleaseWindow
  BY <1>2, ReleaseStep DEF ReleaseWindow, IInv, LivePhase, Window
<1>3. CASE UNCHANGED vars
  BY <1>3 DEF IInv, Shape, BundlePhase, SeedPhase, LivePhase, vars, daemonVars
<1>4. ASSUME NEW b \in Backends, NEW k \in {"activity", "exec"}, NEW v \in BOOLEAN,
             Report(b, k, v)
      PROVE  IInv'
  BY <1>4, BackendStep DEF Kinds
<1>5. ASSUME NEW b \in Backends, NEW v \in QueryIds, Report(b, "query_id", v)
      PROVE  IInv'
  BY <1>5, BackendStep DEF Kinds
<1> QED
  BY <1>1, <1>2, <1>3, <1>4, <1>5, BackendStep, OpeningStep, WindowStep DEF Next

-----------------------------------------------------------------------------
\* The invariant holds throughout, for any number of backends and windows.
LEMMA Invariance == Spec => []IInv
  BY Initial, Inductive, PTL DEF Spec

\* An exact window always has every required probe attached, of the generation
\* it stamps, and links without a consumer are the pinned ones, whatever fails
\* to attach and however windows end (exact_probe.c's core operations as
\* escalation.c calls them).
THEOREM BundleTheorem == Spec => []BundleSound
<1>1. IInv => BundleSound
  BY DEF IInv, BundlePhase, BundleSound, Shape, Window
<1> QED
  BY <1>1, Invariance, PTL

\* Between windows neither the config, nor a consumer, a phase probe, a seed or
\* a live watchpoint of a window is left, after a close, a denied attach and a
\* denied seed alike (pgwt_escalate's rollbacks and pgwt_deescalate).
THEOREM OutliveTheorem == Spec => []NothingOutlives
<1>1. IInv => NothingOutlives
  BY DEF IInv, BundlePhase, SeedPhase, LivePhase, NothingOutlives, Window, Before,
         Attr, Phase
<1> QED
  BY <1>1, Invariance, PTL
=============================================================================
