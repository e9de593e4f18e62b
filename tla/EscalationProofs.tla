-------------------------- MODULE EscalationProofs --------------------------
(***************************************************************************)
(* For every ledger size, rolling window, budget and lateness: full-       *)
(* fidelity time is never unbilled and never exceeds the budget, and a     *)
(* failed or finished escalation leaves nothing behind.                    *)
(***************************************************************************)
EXTENDS Escalation, TLAPS, FiniteSetTheorems, WellFoundedInduction

USE DEF IsOpen, SegEnd, Covers

-----------------------------------------------------------------------------
(* The clock and the rolling window. *)

LEMMA WindowFloorType ==
    ASSUME NEW t \in Nat \ {0}
    PROVE  WindowFloor(t) \in Nat /\ WindowFloor(t) < t
BY BudgetAssumption DEF WindowFloor

LEMMA WindowFloorMonotone ==
    ASSUME NEW t \in Nat \ {0}
    PROVE  WindowFloor(t) <= WindowFloor(t + 1)
BY BudgetAssumption DEF WindowFloor

LEMMA AddOne ==
    ASSUME NEW S, NEW x, IsFiniteSet(S)
    PROVE  /\ IsFiniteSet(S \cup {x})
           /\ Cardinality(S) \in Nat
           /\ Cardinality(S \cup {x}) \in Nat
           /\ Cardinality(S \cup {x}) <= Cardinality(S) + 1
<1>1. /\ IsFiniteSet(S \cup {x})
      /\ Cardinality(S \cup {x}) = IF x \in S THEN Cardinality(S) ELSE Cardinality(S) + 1
  BY FS_AddElement
<1>2. Cardinality(S) \in Nat
  BY FS_CardinalityType
<1> QED BY <1>1, <1>2

-----------------------------------------------------------------------------
(* Pruning. *)

\* Pruning forgets no tick of the rolling window.
LEMMA PruneKeepsCoverage ==
    ASSUME NEW l \in SUBSET Segments, NEW t \in Nat \ {0},
           NEW k \in WindowFloor(t) .. (t - 1),
           NEW s \in l, Covers(s, k, t)
    PROVE  s \in Prune(l, t)
BY WindowFloorType DEF Prune, Segments

LEMMA PruneIsSubset ==
    ASSUME NEW l, NEW t
    PROVE  Prune(l, t) \subseteq l /\ AfterDecide(l, t) \subseteq l
BY DEF Prune, AfterDecide

\* Neither does the decision, whichever branch it takes.
LEMMA DecideKeepsCoverage ==
    ASSUME NEW l \in SUBSET Segments, NEW t \in Nat \ {0},
           NEW k \in WindowFloor(t) .. (t - 1),
           NEW s \in l, Covers(s, k, t)
    PROVE  s \in AfterDecide(l, t)
BY PruneKeepsCoverage DEF AfterDecide

\* The open segment survives: it is billed up to now.
LEMMA DecideKeepsOpen ==
    ASSUME NEW l \in SUBSET Segments, NEW t \in Nat \ {0}, NEW s \in l, IsOpen(s)
    PROVE  s \in AfterDecide(l, t)
BY WindowFloorType DEF AfterDecide, Prune

-----------------------------------------------------------------------------
(* Coalescing the two oldest segments. *)

LEMMA OldestExists ==
    ASSUME NEW l \in SUBSET Segments, l # {}
    PROVE  Oldest(l) \in l /\ \A r \in l : Oldest(l).start <= r.start
<1> DEFINE starts == {s.start : s \in l}
<1>1. starts \subseteq Nat /\ starts # {}
  BY DEF Segments
<1>2. PICK x \in starts : \A y \in starts : ~ (<<y, x>> \in OpToRel(<, Nat))
  <2> HIDE DEF starts
  <2> QED BY <1>1, NatLessThanWellFounded, WFMin
<1>3. \A y \in starts : x <= y
  <2> SUFFICES ASSUME NEW y \in starts, ~(x <= y) PROVE FALSE
    OBVIOUS
  <2>1. y \in Nat /\ x \in Nat /\ y < x
    BY <1>1
  <2>2. <<y, x>> \in Nat \X Nat /\ <<y, x>>[1] < <<y, x>>[2]
    BY <2>1
  <2>3. <<y, x>> \in OpToRel(<, Nat)
    BY <2>2, Zenon DEF OpToRel
  <2> QED BY <1>2, <2>3
<1>4. \E s \in l : \A r \in l : s.start <= r.start
  BY <1>3
<1> QED BY <1>4 DEF Oldest

(* Among closed segments, coalescing frees a slot, and what was covered    *)
(* stays covered: the gap is billed, never the windows forgotten.          *)
LEMMA CoalesceSound ==
    ASSUME NEW l \in SUBSET Segments, IsFiniteSet(l), Cardinality(l) >= 2,
           NEW t \in Nat, \A s \in l : ~IsOpen(s) /\ s.start < s.end /\ s.end <= t,
           Disjoint(l, t)
    PROVE  /\ CoalesceOldest(l) \in SUBSET Segments
           /\ Disjoint(CoalesceOldest(l), t)
           /\ IsFiniteSet(CoalesceOldest(l))
           /\ Cardinality(CoalesceOldest(l)) < Cardinality(l)
           /\ \A s \in CoalesceOldest(l) : ~IsOpen(s) /\ s.start < s.end /\ s.end <= t
           /\ \A s \in l : \A k \in Nat :
                  Covers(s, k, t) => \E r \in CoalesceOldest(l) : Covers(r, k, t)
<1> DEFINE a == Oldest(l)
           rest == l \ {a}
           b == Oldest(rest)
           m == [start |-> a.start, end |-> IF a.end > b.end THEN a.end ELSE b.end]
<1>1. l # {}
  BY FS_EmptySet
<1>2. a \in l /\ \A r \in l : a.start <= r.start
  BY <1>1, OldestExists
<1>3. IsFiniteSet(rest) /\ Cardinality(rest) = Cardinality(l) - 1
  BY <1>2, FS_RemoveElement
<1>4. Cardinality(l) \in Nat
  BY FS_CardinalityType
<1>5. rest # {}
  BY <1>3, <1>4, FS_EmptySet
<1>6. b \in rest /\ b \in l /\ a.start <= b.start
  BY <1>2, <1>5, OldestExists
<1>6a. \A r \in rest : b.start <= r.start
  BY <1>5, OldestExists
<1>7. IsFiniteSet(rest \ {b}) /\ Cardinality(rest \ {b}) = Cardinality(l) - 2
  <2> HIDE DEF rest, b
  <2>1. Cardinality(rest \ {b}) = Cardinality(rest) - 1 /\ IsFiniteSet(rest \ {b})
    BY <1>3, <1>6, FS_RemoveElement
  <2> QED BY <1>3, <1>4, <2>1
<1>8. CoalesceOldest(l) = (rest \ {b}) \cup {m}
  BY <1>2, <1>6 DEF CoalesceOldest, Segments
<1>9. IsFiniteSet(CoalesceOldest(l)) /\ Cardinality(CoalesceOldest(l)) < Cardinality(l)
  <2> DEFINE others == rest \ {b}
  <2> HIDE DEF others, m
  <2>1. IsFiniteSet(others \cup {m}) /\ Cardinality(others \cup {m}) <= Cardinality(others) + 1
    BY <1>7, AddOne DEF others
  <2>2. CoalesceOldest(l) = others \cup {m}
    BY <1>8 DEF others
  <2>3. Cardinality(others) = Cardinality(l) - 2
    BY <1>7 DEF others
  <2> QED BY <1>4, <2>1, <2>2, <2>3, FS_CardinalityType
<1>10. m \in Segments /\ ~IsOpen(m) /\ m.start < m.end /\ m.end <= t
  BY <1>2, <1>6 DEF Segments
<1>11. ASSUME NEW s \in l, NEW k \in Nat, Covers(s, k, t)
       PROVE  \E r \in CoalesceOldest(l) : Covers(r, k, t)
  <2>1. CASE s = a \/ s = b
    <3>1. Covers(m, k, t)
      BY <1>2, <1>6, <1>10, <1>11, <2>1 DEF Segments
    <3> QED BY <1>8, <3>1
  <2>2. CASE s # a /\ s # b
    BY <1>8, <1>11, <2>2
  <2> QED BY <2>1, <2>2
<1>12. Disjoint(CoalesceOldest(l), t)
  <2>1. ASSUME NEW r \in rest \ {b}
        PROVE  m.end <= r.start
    <3>1. r \in l /\ r # a /\ r # b /\ a \in l /\ b \in l
      BY <1>2, <1>6
    <3>2. a.end <= r.start
      BY <1>2, <3>1 DEF Disjoint, Segments
    <3>3. b.end <= r.start
      BY <1>6, <1>6a, <3>1 DEF Disjoint, Segments
    <3> QED BY <3>2, <3>3
  <2>2. \A r \in rest \ {b} : r \in l
    OBVIOUS
  <2>3. SegEnd(m, t) = m.end
    BY <1>10
  <2> HIDE DEF m, rest, a, b
  <2>4. ASSUME NEW s \in CoalesceOldest(l), NEW r \in CoalesceOldest(l), s # r
        PROVE  SegEnd(s, t) <= r.start \/ SegEnd(r, t) <= s.start
    <3>1. CASE s \in l /\ r \in l
      BY <2>4, <3>1 DEF Disjoint
    <3>2. CASE s = m /\ r \in rest \ {b}
      BY <2>1, <2>3, <3>2
    <3>3. CASE r = m /\ s \in rest \ {b}
      BY <2>1, <2>3, <3>3
    <3> QED BY <1>8, <2>2, <2>4, <3>1, <3>2, <3>3
  <2> QED BY <2>4 DEF Disjoint
<1> QED BY <1>8, <1>9, <1>10, <1>11, <1>12

-----------------------------------------------------------------------------
(* Opening a segment when none is open: a slot is always found, the array  *)
(* does not overflow, the new segment is open and starts now, and every    *)
(* tick of the rolling window that was covered stays covered.              *)
LEMMA LedgerOpenSound ==
    ASSUME NEW l \in SUBSET Segments, IsFiniteSet(l), Cardinality(l) <= LedgerMax,
           NEW t \in Nat \ {0},
           \A s \in l : ~IsOpen(s) /\ s.start < s.end /\ s.end <= t,
           Disjoint(l, t)
    PROVE  /\ LedgerOpen(l, t) \in SUBSET Segments
           /\ Disjoint(LedgerOpen(l, t), t)
           /\ IsFiniteSet(LedgerOpen(l, t))
           /\ Cardinality(LedgerOpen(l, t)) <= LedgerMax
           /\ [start |-> t, end |-> 0] \in LedgerOpen(l, t)
           /\ \A s \in LedgerOpen(l, t) :
                  \/ s = [start |-> t, end |-> 0]
                  \/ ~IsOpen(s) /\ s.start < s.end /\ s.end <= t
           /\ \A k \in WindowFloor(t) .. (t - 1) :
                  (\E s \in l : Covers(s, k, t)) => \E s \in LedgerOpen(l, t) : Covers(s, k, t)
<1> DEFINE new == [start |-> t, end |-> 0]
           kept == Prune(l, t)
           room == IF Cardinality(kept) >= LedgerMax THEN CoalesceOldest(kept) ELSE kept
<1>1. kept \subseteq l
  BY PruneIsSubset
<1>2. IsFiniteSet(kept) /\ Cardinality(kept) <= LedgerMax /\ Cardinality(kept) \in Nat
  BY <1>1, FS_Subset, FS_CardinalityType, BudgetAssumption
<1>3. \A k \in WindowFloor(t) .. (t - 1) :
         (\E s \in l : Covers(s, k, t)) => \E s \in kept : Covers(s, k, t)
  BY PruneKeepsCoverage
<1>4. /\ room \in SUBSET Segments
      /\ Disjoint(room, t)
      /\ IsFiniteSet(room)
      /\ Cardinality(room) < LedgerMax
      /\ \A s \in room : ~IsOpen(s) /\ s.start < s.end /\ s.end <= t
      /\ \A s \in kept : \A k \in Nat :
             Covers(s, k, t) => \E r \in room : Covers(r, k, t)
  <2>1. CASE Cardinality(kept) >= LedgerMax
    <3>1. Cardinality(kept) >= 2 /\ kept \in SUBSET Segments
      BY <1>1, <1>2, <2>1, BudgetAssumption
    <3>2. Disjoint(kept, t) /\ \A s \in kept : ~IsOpen(s) /\ s.start < s.end /\ s.end <= t
      BY <1>1 DEF Disjoint
    <3>3. room = CoalesceOldest(kept)
      BY <2>1
    <3> HIDE DEF kept, room
    <3>4. /\ CoalesceOldest(kept) \in SUBSET Segments
          /\ Disjoint(CoalesceOldest(kept), t)
          /\ IsFiniteSet(CoalesceOldest(kept))
          /\ Cardinality(CoalesceOldest(kept)) < Cardinality(kept)
          /\ \A s \in CoalesceOldest(kept) : ~IsOpen(s) /\ s.start < s.end /\ s.end <= t
          /\ \A s \in kept : \A k \in Nat :
                 Covers(s, k, t) => \E r \in CoalesceOldest(kept) : Covers(r, k, t)
      BY <1>2, <3>1, <3>2, CoalesceSound
    <3>5. Cardinality(CoalesceOldest(kept)) \in Nat
      BY <3>4, FS_CardinalityType
    <3> QED BY <1>2, <3>3, <3>4, <3>5, BudgetAssumption
  <2>2. CASE ~(Cardinality(kept) >= LedgerMax)
    BY <1>1, <1>2, <2>2, BudgetAssumption DEF Disjoint
  <2> QED BY <2>1, <2>2
<1>5. LedgerOpen(l, t) = room \cup {new}
  BY <1>4 DEF LedgerOpen
<1> HIDE DEF kept, room
<1>6. IsFiniteSet(room \cup {new}) /\ Cardinality(room \cup {new}) <= LedgerMax
  <2>1. Cardinality(room) \in Nat /\ Cardinality(room \cup {new}) \in Nat
        /\ Cardinality(room \cup {new}) <= Cardinality(room) + 1
        /\ IsFiniteSet(room \cup {new})
    BY <1>4, AddOne
  <2> QED BY <1>4, <2>1, BudgetAssumption
<1>7. new \in Segments
  BY DEF Segments
<1>8. \A k \in WindowFloor(t) .. (t - 1) :
         (\E s \in l : Covers(s, k, t)) => \E s \in room : Covers(s, k, t)
  BY <1>3, <1>4, WindowFloorType
<1>9. Disjoint(room \cup {new}, t)
  BY <1>4, <1>7 DEF Disjoint, Segments
<1> QED BY <1>4, <1>5, <1>6, <1>7, <1>8, <1>9

-----------------------------------------------------------------------------
(* What is billed is at least the time that lies in the ledger's segments. *)
LEMMA BilledAtLeastCovered ==
    ASSUME NEW l \in SUBSET Segments, IsFiniteSet(l), NEW t \in Nat \ {0},
           NEW E \in SUBSET (WindowFloor(t) .. (t - 1)),
           \A k \in E : \E s \in l : Covers(s, k, t)
    PROVE  /\ Consumed(l, t) \in Nat
           /\ IsFiniteSet(E) /\ Cardinality(E) \in Nat
           /\ Cardinality(E) <= Consumed(l, t)
<1> DEFINE B == BilledTicks(l, t)
           f == [k \in E |-> <<CHOOSE s \in Prune(l, t) : Covers(s, k, t), k>>]
<1>1. IsFiniteSet(Prune(l, t)) /\ IsFiniteSet(WindowFloor(t) .. (t - 1))
  <2>1. IsFiniteSet(Prune(l, t))
    BY PruneIsSubset, FS_Subset
  <2>2. WindowFloor(t) \in Int /\ t - 1 \in Int
    BY WindowFloorType
  <2>3. IsFiniteSet(WindowFloor(t) .. (t - 1))
    BY <2>2, FS_Interval
  <2> QED BY <2>1, <2>3
<1>2. IsFiniteSet(Prune(l, t) \X (WindowFloor(t) .. (t - 1)))
  BY <1>1, FS_Product
<1>3. IsFiniteSet(B) /\ Cardinality(B) \in Nat
  BY <1>2, FS_Subset, FS_CardinalityType DEF BilledTicks
<1>4. ASSUME NEW k \in E
      PROVE  f[k] \in B /\ f[k][2] = k
  <2>1. \E s \in Prune(l, t) : Covers(s, k, t)
    BY PruneKeepsCoverage
  <2> QED BY <2>1 DEF BilledTicks
<1>5. f \in Injection(E, B)
  BY <1>4 DEF Injection, IsInjective
<1>6. IsFiniteSet(E) /\ Cardinality(E) <= Cardinality(B)
  <2> HIDE DEF f, B
  <2> QED BY <1>3, <1>5, FS_Injection
<1> QED BY <1>3, <1>6, FS_CardinalityType DEF Consumed

(* A grant keeps the escalated ticks within the budget.                    *)
LEMMA GrantWithinBudget ==
    ASSUME NEW l \in SUBSET Segments, IsFiniteSet(l), NEW t \in Nat \ {0},
           NEW E \in SUBSET (WindowFloor(t) .. (t - 1)),
           \A k \in E : \E s \in l : Covers(s, k, t),
           NEW want \in Nat
    PROVE  /\ Grant(l, t, want) \in Nat
           /\ ~Unlimited /\ Grant(l, t, want) > 0
                  => Cardinality(E) + Grant(l, t, want) <= Budget
BY BilledAtLeastCovered, BudgetAssumption DEF Grant

-----------------------------------------------------------------------------
(* The ledger's part of the inductive invariant, for a ledger l, an engine *)
(* whose active flag is a and whose window began at w, at time t.          *)
LedgerOK(l, a, w, t) ==
    /\ l \in SUBSET Segments
    /\ IsFiniteSet(l)
    /\ Cardinality(l) <= LedgerMax
    /\ a <=> \E s \in l : IsOpen(s)
    /\ Disjoint(l, t)
    /\ \A s \in l : ~IsOpen(s) => s.start < s.end /\ s.end <= t
    /\ \A s \in l : IsOpen(s) => s.start = w
    /\ w <= t

LEMMA DecidePreserves ==
    ASSUME NEW l, NEW a \in BOOLEAN, NEW w \in Nat, NEW t \in Nat \ {0},
           LedgerOK(l, a, w, t)
    PROVE  LedgerOK(AfterDecide(l, t), a, w, t)
<1> DEFINE d == AfterDecide(l, t)
<1>1. d \subseteq l
  BY PruneIsSubset
<1>2. IsFiniteSet(l) /\ IsFiniteSet(d) /\ Cardinality(d) <= Cardinality(l)
      /\ Cardinality(d) \in Nat /\ Cardinality(l) \in Nat
  <2> HIDE DEF d
  <2> QED BY <1>1, FS_Subset, FS_CardinalityType DEF LedgerOK
<1>3. Cardinality(d) <= LedgerMax
  <2> HIDE DEF d
  <2> QED BY <1>2, BudgetAssumption DEF LedgerOK
<1>4. \A s \in l : IsOpen(s) => s \in d
  BY DecideKeepsOpen DEF LedgerOK
<1> HIDE DEF d
<1>5. a <=> \E s \in d : IsOpen(s)
  BY <1>1, <1>4 DEF LedgerOK
<1>6. Disjoint(d, t)
  BY <1>1 DEF LedgerOK, Disjoint
<1>7. LedgerOK(d, a, w, t)
  BY <1>1, <1>2, <1>3, <1>5, <1>6 DEF LedgerOK
<1> QED BY <1>7 DEF d

LEMMA OpenPreserves ==
    ASSUME NEW l, NEW w \in Nat, NEW t \in Nat \ {0}, LedgerOK(l, FALSE, w, t)
    PROVE  LedgerOK(LedgerOpen(l, t), TRUE, t, t)
<1>1. \A s \in l : ~IsOpen(s) /\ s.start < s.end /\ s.end <= t
  BY DEF LedgerOK
<1>2. /\ LedgerOpen(l, t) \in SUBSET Segments
      /\ Disjoint(LedgerOpen(l, t), t)
      /\ IsFiniteSet(LedgerOpen(l, t))
      /\ Cardinality(LedgerOpen(l, t)) <= LedgerMax
      /\ [start |-> t, end |-> 0] \in LedgerOpen(l, t)
      /\ \A s \in LedgerOpen(l, t) :
             \/ s = [start |-> t, end |-> 0]
             \/ ~IsOpen(s) /\ s.start < s.end /\ s.end <= t
  BY <1>1, LedgerOpenSound DEF LedgerOK
<1> QED BY <1>2 DEF LedgerOK

(* Closing replaces the one open segment by a closed, non-empty one that   *)
(* covers the same ticks.                                                  *)
LEMMA ClosePreserves ==
    ASSUME NEW l, NEW w \in Nat, NEW t \in Nat \ {0}, w < t, LedgerOK(l, TRUE, w, t)
    PROVE  /\ LedgerOK(LedgerClose(l, t), FALSE, w, t)
           /\ \A k \in Nat : (\E s \in l : Covers(s, k, t))
                               => \E s \in LedgerClose(l, t) : Covers(s, k, t)
<1> DEFINE o == [start |-> w, end |-> 0]
           c == [start |-> w, end |-> t]
<1>1. o \in l /\ \A s \in l : IsOpen(s) => s = o
  BY DEF LedgerOK, Segments
<1>2. {s \in l : IsOpen(s)} = {o}
  BY <1>1
<1>3. LedgerClose(l, t) = (l \ {o}) \cup {c}
  <2> DEFINE open == {s \in l : IsOpen(s)}
  <2>1. (CHOOSE s \in open : \A r \in open : r.start <= s.start) = o
    BY <1>2
  <2>2. [o EXCEPT !.end = t] = c
    OBVIOUS
  <2>3. open # {}
    BY <1>2
  <2> QED BY <2>1, <2>2, <2>3 DEF LedgerClose
<1>4. c \in Segments
  BY DEF Segments
<1>5. /\ IsFiniteSet((l \ {o}) \cup {c})
      /\ Cardinality((l \ {o}) \cup {c}) <= LedgerMax
  <2> DEFINE r == l \ {o}
  <2>1. IsFiniteSet(r) /\ Cardinality(r) = Cardinality(l) - 1 /\ Cardinality(l) \in Nat
    BY <1>1, FS_RemoveElement, FS_CardinalityType DEF LedgerOK
  <2> HIDE DEF r
  <2>2. /\ IsFiniteSet(r \cup {c}) /\ Cardinality(r \cup {c}) \in Nat
        /\ Cardinality(r \cup {c}) <= Cardinality(r) + 1
    BY <2>1, AddOne
  <2> QED BY <2>1, <2>2, BudgetAssumption DEF LedgerOK, r
<1>6. Disjoint((l \ {o}) \cup {c}, t)
  BY <1>1, <1>4 DEF LedgerOK, Disjoint, Segments
<1>7. \A s \in (l \ {o}) \cup {c} : ~IsOpen(s) /\ s.start < s.end /\ s.end <= t
  BY <1>1 DEF LedgerOK
<1>8. \A k \in Nat : Covers(o, k, t) => Covers(c, k, t)
  OBVIOUS
<1> QED BY <1>1, <1>3, <1>4, <1>5, <1>6, <1>7, <1>8 DEF LedgerOK

(* The passing of a tick lengthens the open segment and nothing else.      *)
LEMMA TickPreserves ==
    ASSUME NEW l, NEW a \in BOOLEAN, NEW w \in Nat, NEW t \in Nat \ {0},
           LedgerOK(l, a, w, t)
    PROVE  /\ LedgerOK(l, a, w, t + 1)
           /\ \A s \in l : \A k \in Nat : Covers(s, k, t) => Covers(s, k, t + 1)
           /\ a => \E s \in l : Covers(s, t, t + 1)
<1>1. Disjoint(l, t + 1)
  BY DEF LedgerOK, Disjoint, Segments
<1> QED BY <1>1 DEF LedgerOK, Segments

-----------------------------------------------------------------------------
(* The inductive invariant, and the theorem for every action.              *)
IInv ==
    /\ TypeOK
    /\ LedgerSound
    /\ LedgerShape
    /\ NeverUnbilled
    /\ BudgetHolds
    /\ CommitmentWithinBudget
    /\ NothingLeftBehind

LEMMA InvLedgerOK ==
    ASSUME IInv PROVE LedgerOK(ledger, active, windowStart, now)
BY DEF IInv, TypeOK, LedgerSound, LedgerShape, LedgerOK

LEMMA InitInv == Init => IInv
<1> SUFFICES ASSUME Init PROVE IInv
  OBVIOUS
<1>1. IsFiniteSet({}) /\ Cardinality({}) = 0
  BY FS_EmptySet
<1>2. TypeOK
  <2>1. now \in Nat \ {0} /\ deadline \in Nat /\ windowStart \in Nat /\ generation \in Nat
        /\ nextGeneration \in Nat /\ probeGen \in Nat
    BY DEF Init
  <2>2. ledger \in SUBSET Segments /\ seeds \in SUBSET Nat /\ exactTicks \in SUBSET Nat
    BY DEF Init
  <2>3. active \in BOOLEAN /\ cpuActive \in BOOLEAN
    BY DEF Init
  <2> QED BY <2>1, <2>2, <2>3 DEF TypeOK
<1>3. LedgerSound
  BY <1>1, BudgetAssumption DEF Init, LedgerSound, Disjoint
<1>4. LedgerShape
  BY <1>1 DEF Init, LedgerShape
<1>5. NeverUnbilled /\ BudgetHolds /\ CommitmentWithinBudget /\ NothingLeftBehind
  BY <1>1, BudgetAssumption, EscalationAssumption
  DEF Init, NeverUnbilled, BudgetHolds, CommitmentWithinBudget, NothingLeftBehind
<1> QED BY <1>2, <1>3, <1>4, <1>5 DEF IInv

(* A step that leaves the clock, the ticks and the active flag's window    *)
(* alone and moves only the ledger (by a decision) and the deadline.       *)
LEMMA LedgerOnlyStep ==
    ASSUME IInv,
           ledger' = AfterDecide(ledger, now),
           UNCHANGED <<now, active, windowStart, exactTicks>>,
           deadline' \in Nat,
           active => deadline <= deadline',
           active /\ ~Unlimited => Cardinality(exactTicks) + (deadline' - now) <= Budget
    PROVE  /\ ledger' \in SUBSET Segments
           /\ LedgerSound' /\ LedgerShape' /\ NeverUnbilled' /\ BudgetHolds'
           /\ CommitmentWithinBudget'
<1>1. LedgerOK(AfterDecide(ledger, now), active, windowStart, now)
  BY InvLedgerOK, DecidePreserves DEF IInv, TypeOK
<1>2. LedgerSound' /\ ledger' \in SUBSET Segments
  BY <1>1 DEF LedgerOK, LedgerSound
<1>3. LedgerShape'
  <2>1. (active => now <= deadline + Lag)'
    <3>1. ASSUME active PROVE now <= deadline' + Lag
      <4>1. now <= deadline + Lag
        BY <3>1 DEF LedgerShape, IInv
      <4>2. now \in Nat /\ deadline \in Nat /\ Lag \in Nat
        BY EscalationAssumption DEF IInv, TypeOK
      <4>3. deadline <= deadline'
        BY <3>1
      <4>4. \A n, d, e, g \in Nat : n <= d + g /\ d <= e => n <= e + g
        OBVIOUS
      <4> QED BY <4>1, <4>2, <4>3, <4>4
    <3> QED BY <3>1
  <2>2. (exactTicks \subseteq WindowFloor(now) .. (now - 1))'
    BY DEF LedgerShape, IInv
  <2> QED BY <1>1, <2>1, <2>2 DEF LedgerOK, LedgerShape
<1>4. NeverUnbilled'
  BY DecideKeepsCoverage DEF IInv, TypeOK, NeverUnbilled, LedgerShape
<1>5. BudgetHolds' /\ CommitmentWithinBudget'
  BY DEF IInv, BudgetHolds, CommitmentWithinBudget
<1> QED BY <1>2, <1>3, <1>4, <1>5

(* What a positive grant commits in the current state.                     *)
LEMMA StateGrant ==
    ASSUME IInv, NEW want \in Durations
    PROVE  /\ Grant(ledger, now, want) \in Nat
           /\ ~Unlimited /\ Grant(ledger, now, want) > 0
                  => Cardinality(exactTicks) + Grant(ledger, now, want) <= Budget
           /\ Cardinality(exactTicks) \in Nat /\ IsFiniteSet(exactTicks)
<1>1. /\ ledger \in SUBSET Segments /\ IsFiniteSet(ledger) /\ now \in Nat \ {0}
      /\ exactTicks \in SUBSET (WindowFloor(now) .. (now - 1))
      /\ \A k \in exactTicks : \E s \in ledger : Covers(s, k, now)
      /\ want \in Nat
  BY EscalationAssumption DEF IInv, TypeOK, LedgerShape, NeverUnbilled
<1> QED BY <1>1, GrantWithinBudget, BilledAtLeastCovered

LEMMA DeniedInv ==
    ASSUME IInv, NEW want \in Durations, EscalateDenied(want) PROVE IInv'
<1> USE DEF EscalateDenied, exactVars
<1>1. /\ ledger' \in SUBSET Segments
      /\ LedgerSound' /\ LedgerShape' /\ NeverUnbilled' /\ BudgetHolds'
      /\ CommitmentWithinBudget'
  BY LedgerOnlyStep DEF IInv, TypeOK, CommitmentWithinBudget
<1>2. TypeOK'
  BY <1>1 DEF IInv, TypeOK
<1>3. NothingLeftBehind'
  BY DEF IInv, NothingLeftBehind
<1> QED BY <1>1, <1>2, <1>3 DEF IInv

LEMMA ExtendInv ==
    ASSUME IInv, NEW want \in Durations, Extend(want) PROVE IInv'
<1> USE DEF Extend, exactVars
<1> DEFINE later == now + Grant(ledger, now, want)
<1>1. /\ Grant(ledger, now, want) \in Nat
      /\ ~Unlimited => Cardinality(exactTicks) + Grant(ledger, now, want) <= Budget
      /\ Cardinality(exactTicks) \in Nat
  BY StateGrant
<1>2. now \in Nat /\ deadline \in Nat /\ Budget \in Nat
  BY BudgetAssumption DEF IInv, TypeOK
<1>3. deadline' \in Nat /\ deadline <= deadline' /\ (deadline' = later \/ deadline' = deadline)
  BY <1>1, <1>2
<1>4. ~Unlimited => Cardinality(exactTicks) + (deadline' - now) <= Budget
  <2>1. CASE deadline' = later
    BY <1>1, <1>2, <2>1
  <2>2. CASE deadline' = deadline
    BY <2>2 DEF IInv, CommitmentWithinBudget
  <2> QED BY <1>3, <2>1, <2>2
<1>5. /\ ledger' \in SUBSET Segments
      /\ LedgerSound' /\ LedgerShape' /\ NeverUnbilled' /\ BudgetHolds'
      /\ CommitmentWithinBudget'
  BY <1>3, <1>4, LedgerOnlyStep
<1>6. TypeOK'
  BY <1>3, <1>5 DEF IInv, TypeOK
<1>7. NothingLeftBehind'
  BY DEF IInv, NothingLeftBehind
<1> QED BY <1>5, <1>6, <1>7 DEF IInv

LEMMA FreshInv ==
    ASSUME IInv, NEW want \in Durations, EscalateFresh(want) PROVE IInv'
<1> USE DEF EscalateFresh
<1> DEFINE d == AfterDecide(ledger, now)
           g == Grant(ledger, now, want)
<1>1. /\ g \in Nat
      /\ ~Unlimited => Cardinality(exactTicks) + g <= Budget
      /\ Cardinality(exactTicks) \in Nat
  BY StateGrant
<1>2. /\ now \in Nat \ {0} /\ windowStart \in Nat /\ nextGeneration \in Nat
      /\ Lag \in Nat /\ Budget \in Nat
  BY BudgetAssumption, EscalationAssumption DEF IInv, TypeOK
<1>3. LedgerOK(ledger, FALSE, windowStart, now)
  BY InvLedgerOK DEF LedgerOK
<1>4. LedgerOK(d, FALSE, windowStart, now)
  BY <1>2, <1>3, DecidePreserves
<1>5. LedgerOK(ledger', TRUE, now, now)
  BY <1>2, <1>4, OpenPreserves
<1>6. TypeOK'
  <2>1. deadline' \in Nat /\ generation' \in Nat /\ nextGeneration' \in Nat
        /\ probeGen' \in Nat /\ windowStart' \in Nat /\ now' \in Nat \ {0}
    BY <1>1, <1>2
  <2>2. ledger' \in SUBSET Segments
    BY <1>5 DEF LedgerOK
  <2>3. seeds' \in SUBSET Nat /\ exactTicks' \in SUBSET Nat
    BY <1>2 DEF IInv, TypeOK
  <2>4. active' \in BOOLEAN /\ cpuActive' \in BOOLEAN
    OBVIOUS
  <2> QED BY <2>1, <2>2, <2>3, <2>4 DEF TypeOK
<1>7. LedgerSound'
  BY <1>5 DEF LedgerOK, LedgerSound
<1>8. LedgerShape'
  <2>1. now <= deadline' + Lag
    BY <1>1, <1>2
  <2>2. (exactTicks \subseteq WindowFloor(now) .. (now - 1))'
    BY DEF LedgerShape, IInv
  <2> QED BY <1>5, <2>1, <2>2 DEF LedgerOK, LedgerShape
<1>9. NeverUnbilled'
  <2>1. \A s \in d : ~IsOpen(s) /\ s.start < s.end /\ s.end <= now
    BY <1>4 DEF LedgerOK
  <2>2. \A k \in WindowFloor(now) .. (now - 1) :
           (\E s \in d : Covers(s, k, now)) => \E s \in LedgerOpen(d, now) : Covers(s, k, now)
    <3> HIDE DEF d
    <3>1. d \in SUBSET Segments /\ IsFiniteSet(d) /\ Cardinality(d) <= LedgerMax /\ Disjoint(d, now)
      BY <1>4 DEF LedgerOK
    <3> QED BY <1>2, <2>1, <3>1, LedgerOpenSound
  <2>3. \A k \in exactTicks : \E s \in d : Covers(s, k, now)
    BY DecideKeepsCoverage DEF IInv, TypeOK, NeverUnbilled, LedgerShape
  <2>4. exactTicks \subseteq WindowFloor(now) .. (now - 1)
    BY DEF IInv, LedgerShape
  <2>5. \A k \in exactTicks : \E s \in ledger' : Covers(s, k, now)
    BY <2>2, <2>3, <2>4
  <2> QED BY <2>5 DEF NeverUnbilled
<1>10. CommitmentWithinBudget'
  BY <1>1, <1>2 DEF CommitmentWithinBudget
<1>11. BudgetHolds'
  BY DEF IInv, BudgetHolds
<1>12. NothingLeftBehind'
  BY <1>2 DEF IInv, NothingLeftBehind
<1> QED BY <1>6, <1>7, <1>8, <1>9, <1>10, <1>11, <1>12 DEF IInv

LEMMA AttachFailsInv ==
    ASSUME IInv, NEW want \in Durations, EscalateAttachFails(want) PROVE IInv'
<1> USE DEF EscalateAttachFails
<1>1. /\ ledger' \in SUBSET Segments
      /\ LedgerSound' /\ LedgerShape' /\ NeverUnbilled' /\ BudgetHolds'
      /\ CommitmentWithinBudget'
  BY LedgerOnlyStep DEF IInv, TypeOK
<1>2. TypeOK'
  BY <1>1 DEF IInv, TypeOK
<1>3. NothingLeftBehind'
  BY DEF IInv, NothingLeftBehind
<1> QED BY <1>1, <1>2, <1>3 DEF IInv

LEMMA PreseedFailsInv ==
    ASSUME IInv, NEW want \in Durations, EscalatePreseedFails(want) PROVE IInv'
<1> USE DEF EscalatePreseedFails
<1>1. /\ ledger' \in SUBSET Segments
      /\ LedgerSound' /\ LedgerShape' /\ NeverUnbilled' /\ BudgetHolds'
      /\ CommitmentWithinBudget'
  BY LedgerOnlyStep DEF IInv, TypeOK
<1>2. seeds = {} /\ seeds' = {}
  BY DEF IInv, NothingLeftBehind
<1>3. TypeOK'
  <2>1. nextGeneration' \in Nat /\ generation' \in Nat /\ probeGen' \in Nat
    BY DEF IInv, TypeOK
  <2>2. seeds' \in SUBSET Nat /\ cpuActive' \in BOOLEAN
    BY <1>2
  <2>3. now' \in Nat \ {0} /\ deadline' \in Nat /\ windowStart' \in Nat
        /\ exactTicks' \in SUBSET Nat
    BY DEF IInv, TypeOK
  <2>4. active' \in BOOLEAN
    BY DEF IInv, TypeOK
  <2> QED BY <1>1, <2>1, <2>2, <2>3, <2>4 DEF TypeOK
<1>4. NothingLeftBehind'
  BY <1>2 DEF IInv, NothingLeftBehind
<1> QED BY <1>1, <1>3, <1>4 DEF IInv

(* Closing a window on the ledger as it stands or as a decision left it.   *)
LEMMA CloseInv ==
    ASSUME IInv, active, NEW l \in {ledger, AfterDecide(ledger, now)}, CloseWindow(l)
    PROVE  IInv'
<1> USE DEF CloseWindow
<1>1. /\ now \in Nat \ {0} /\ windowStart \in Nat /\ windowStart < now
      /\ exactTicks \in SUBSET Nat
  BY DEF IInv, TypeOK
<1>2. LedgerOK(l, TRUE, windowStart, now)
  <2>1. LedgerOK(ledger, TRUE, windowStart, now)
    BY InvLedgerOK DEF LedgerOK
  <2> QED BY <1>1, <2>1, DecidePreserves
<1>3. \A k \in exactTicks : \E s \in l : Covers(s, k, now)
  BY DecideKeepsCoverage DEF IInv, TypeOK, NeverUnbilled, LedgerShape
<1> HIDE DEF CloseWindow
<1>4. /\ LedgerOK(LedgerClose(l, now), FALSE, windowStart, now)
      /\ \A k \in Nat : (\E s \in l : Covers(s, k, now))
                          => \E s \in LedgerClose(l, now) : Covers(s, k, now)
  BY <1>1, <1>2, ClosePreserves
<1> USE DEF CloseWindow
<1>5. LedgerOK(ledger', FALSE, windowStart, now)
  BY <1>4
<1>6. TypeOK'
  BY <1>5 DEF IInv, TypeOK, LedgerOK
<1>7. LedgerSound'
  BY <1>5 DEF LedgerOK, LedgerSound
<1>8. LedgerShape'
  <2>1. (exactTicks \subseteq WindowFloor(now) .. (now - 1))'
    BY DEF LedgerShape, IInv
  <2> QED BY <1>5, <2>1 DEF LedgerOK, LedgerShape
<1>9. NeverUnbilled'
  <2>1. \A k \in exactTicks : \E s \in ledger' : Covers(s, k, now)
    BY <1>1, <1>3, <1>4
  <2> QED BY <2>1 DEF NeverUnbilled
<1>10. BudgetHolds' /\ CommitmentWithinBudget'
  BY DEF IInv, BudgetHolds, CommitmentWithinBudget
<1>11. NothingLeftBehind'
  BY DEF IInv, NothingLeftBehind
<1> QED BY <1>6, <1>7, <1>8, <1>9, <1>10, <1>11 DEF IInv

LEMMA CheckBudgetInv ==
    ASSUME IInv, CheckBudget PROVE IInv'
<1>1. CASE OverBudget(ledger, now)
  BY <1>1, CloseInv DEF CheckBudget
<1>2. CASE ~OverBudget(ledger, now)
  <2> USE <1>2 DEF CheckBudget, exactVars
  <2>1. /\ ledger' \in SUBSET Segments
        /\ LedgerSound' /\ LedgerShape' /\ NeverUnbilled' /\ BudgetHolds'
        /\ CommitmentWithinBudget'
    BY LedgerOnlyStep DEF IInv, TypeOK, CommitmentWithinBudget
  <2>2. TypeOK'
    BY <2>1 DEF IInv, TypeOK
  <2>3. NothingLeftBehind'
    BY DEF IInv, NothingLeftBehind
  <2> QED BY <2>1, <2>2, <2>3 DEF IInv
<1> QED BY <1>1, <1>2

LEMMA QueryRemainingInv ==
    ASSUME IInv, QueryRemaining PROVE IInv'
<1> USE DEF QueryRemaining, exactVars
<1>1. /\ ledger' \in SUBSET Segments
      /\ LedgerSound' /\ LedgerShape' /\ NeverUnbilled' /\ BudgetHolds'
      /\ CommitmentWithinBudget'
  BY LedgerOnlyStep DEF IInv, TypeOK, CommitmentWithinBudget
<1>2. TypeOK'
  BY <1>1 DEF IInv, TypeOK
<1>3. NothingLeftBehind'
  BY DEF IInv, NothingLeftBehind
<1> QED BY <1>1, <1>2, <1>3 DEF IInv

LEMMA TickInv ==
    ASSUME IInv, Tick PROVE IInv'
<1> USE DEF Tick, exactVars
<1> DEFINE added == exactTicks \cup {now}
<1>1. /\ now \in Nat \ {0} /\ windowStart \in Nat /\ active \in BOOLEAN
      /\ deadline \in Nat /\ Lag \in Nat /\ Budget \in Nat
      /\ exactTicks \subseteq WindowFloor(now) .. (now - 1)
      /\ \A k \in exactTicks : \E s \in ledger : Covers(s, k, now)
  BY BudgetAssumption, EscalationAssumption DEF IInv, TypeOK, LedgerShape, NeverUnbilled
<1>2. /\ LedgerOK(ledger, active, windowStart, now + 1)
      /\ \A s \in ledger : \A k \in Nat : Covers(s, k, now) => Covers(s, k, now + 1)
      /\ active => \E s \in ledger : Covers(s, now, now + 1)
  <2> HIDE DEF Tick
  <2> QED BY <1>1, InvLedgerOK, TickPreserves
<1>3. /\ WindowFloor(now) \in Nat /\ WindowFloor(now + 1) \in Nat
      /\ WindowFloor(now) <= WindowFloor(now + 1)
  BY <1>1, WindowFloorType, WindowFloorMonotone
<1>4. /\ exactTicks' \subseteq added
      /\ ~active => exactTicks' \subseteq exactTicks
      /\ exactTicks' \subseteq WindowFloor(now + 1) .. now
      /\ exactTicks \subseteq Nat /\ exactTicks' \subseteq Nat
  <2>1. \A k \in exactTicks' :
           k >= WindowFloor(now + 1) /\ (k \in exactTicks \/ (active /\ k = now))
    OBVIOUS
  <2>2. exactTicks \subseteq Nat /\ \A k \in exactTicks : k < now
    BY <1>1, <1>3
  <2> HIDE DEF Tick
  <2>3. exactTicks' \subseteq added /\ (~active => exactTicks' \subseteq exactTicks)
    BY <2>1
  <2>4. \A k \in exactTicks' : k \in Nat /\ k <= now /\ k >= WindowFloor(now + 1)
    <3>1. \A k \in exactTicks' : k >= WindowFloor(now + 1) /\ (k \in exactTicks \/ k = now)
      BY <2>1
    <3>2. now \in Nat /\ WindowFloor(now + 1) \in Nat
      BY <1>1, <1>3
    <3>3. \A k \in exactTicks' : k \in Nat
      BY <2>2, <3>1, <3>2
    <3>4. ASSUME NEW k \in exactTicks' PROVE k <= now
      <4>1. k \in Nat
        BY <3>3
      <4>2. CASE k \in exactTicks
        <5>1. k < now
          BY <2>2, <4>2
        <5> QED BY <3>2, <4>1, <5>1
      <4>3. CASE k = now
        BY <3>2, <4>3
      <4> QED BY <3>1, <4>2, <4>3
    <3> QED BY <3>1, <3>3, <3>4
  <2> QED BY <1>1, <1>3, <2>2, <2>3, <2>4
<1>5. /\ IsFiniteSet(exactTicks) /\ Cardinality(exactTicks) \in Nat
      /\ Cardinality(exactTicks') \in Nat
      /\ Cardinality(exactTicks') <= Cardinality(exactTicks) + 1
      /\ ~active => Cardinality(exactTicks') <= Cardinality(exactTicks)
  <2>1. IsFiniteSet(exactTicks) /\ Cardinality(exactTicks) \in Nat
    <3>1. IsFiniteSet(WindowFloor(now) .. (now - 1))
      BY <1>1, <1>3, FS_Interval
    <3> QED BY <1>1, <3>1, FS_Subset, FS_CardinalityType
  <2>2. IsFiniteSet(added) /\ Cardinality(added) \in Nat
        /\ Cardinality(added) <= Cardinality(exactTicks) + 1
    BY <2>1, AddOne
  <2> HIDE DEF added, Tick
  <2>3. IsFiniteSet(exactTicks') /\ Cardinality(exactTicks') <= Cardinality(added)
    BY <1>4, <2>2, FS_Subset
  <2>4. Cardinality(exactTicks') \in Nat
    BY <2>3, FS_CardinalityType
  <2>5. ~active => Cardinality(exactTicks') <= Cardinality(exactTicks)
    BY <1>4, <2>1, FS_Subset
  <2> QED BY <2>1, <2>2, <2>3, <2>4, <2>5
<1>6. TypeOK'
  BY <1>1, <1>4 DEF IInv, TypeOK
<1>7. LedgerSound'
  BY <1>2 DEF LedgerOK, LedgerSound
<1>8. active => now + 1 <= deadline + Lag
  BY <1>1
<1>9. LedgerShape'
  BY <1>1, <1>2, <1>4, <1>8 DEF LedgerOK, LedgerShape
<1>10. NeverUnbilled'
  <2>1. \A k \in exactTicks' : k \in exactTicks \/ (active /\ k = now)
    OBVIOUS
  <2>2. \A k \in exactTicks' : \E s \in ledger : Covers(s, k, now + 1)
    <3> HIDE DEF Tick
    <3> QED BY <1>1, <1>2, <1>4, <2>1
  <2> QED BY <2>2 DEF NeverUnbilled
<1>11. CommitmentWithinBudget'
  BY <1>1, <1>5 DEF IInv, CommitmentWithinBudget
<1>12. BudgetHolds'
  <2>1. CASE active
    BY <1>1, <1>5, <1>8, <2>1 DEF IInv, CommitmentWithinBudget, BudgetHolds
  <2>2. CASE ~active
    BY <1>1, <1>5, <2>2 DEF IInv, BudgetHolds
  <2> QED BY <2>1, <2>2
<1>13. NothingLeftBehind'
  BY DEF IInv, NothingLeftBehind
<1> QED BY <1>6, <1>7, <1>9, <1>10, <1>11, <1>12, <1>13 DEF IInv

LEMMA NextInv == IInv /\ [Next]_vars => IInv'
<1> SUFFICES ASSUME IInv, [Next]_vars PROVE IInv'
  OBVIOUS
<1>1. CASE Escalate
  BY <1>1, DeniedInv, ExtendInv, FreshInv, AttachFailsInv, PreseedFailsInv DEF Escalate
<1>2. CASE Deescalate
  BY <1>2, CloseInv DEF Deescalate
<1>3. CASE OnTimer
  BY <1>3, CloseInv DEF OnTimer
<1>4. CASE CheckBudget
  BY <1>4, CheckBudgetInv
<1>5. CASE QueryRemaining
  BY <1>5, QueryRemainingInv
<1>6. CASE Tick
  BY <1>6, TickInv
<1>7. CASE UNCHANGED vars
  BY <1>7 DEF vars, budgetVars, exactVars, IInv, TypeOK, LedgerSound, LedgerShape, NeverUnbilled,
              BudgetHolds, CommitmentWithinBudget, NothingLeftBehind
<1> QED BY <1>1, <1>2, <1>3, <1>4, <1>5, <1>6, <1>7 DEF Next

-----------------------------------------------------------------------------
(* pgwt_escalate, pgwt_deescalate and the timers keep the whole invariant. *)
THEOREM Invariance == Spec => []IInv
BY InitInv, NextInv, PTL DEF Spec

(* The engine's variables have their types.                                *)
THEOREM TypeCorrect == Spec => []TypeOK
<1>1. IInv => TypeOK
  BY DEF IInv
<1> QED BY <1>1, Invariance, PTL

(* ESC-1, for every budget, rolling window, ledger size and lateness: the  *)
(* full-fidelity time of a rolling hour never exceeds the budget by more   *)
(* than the loop's lateness, whatever pgwt_escalate grants and extends.    *)
THEOREM BudgetTheorem == Spec => []BudgetHolds
<1>1. IInv => BudgetHolds
  BY DEF IInv
<1> QED BY <1>1, Invariance, PTL

(* ESC-5, for every ledger size: pruning, coalescing and closing in        *)
(* escalation_budget.c never lose a tick of the rolling window.            *)
THEOREM BillingTheorem == Spec => []NeverUnbilled
<1>1. IInv => NeverUnbilled
  BY DEF IInv
<1> QED BY <1>1, Invariance, PTL

(* The ledger and the active flag agree, segments never overlap, and the   *)
(* array of pgwt_esc_ledger_open never overflows.                          *)
THEOREM LedgerTheorem == Spec => []LedgerSound
<1>1. IInv => LedgerSound
  BY DEF IInv
<1> QED BY <1>1, Invariance, PTL

(* A failed or finished pgwt_escalate leaves nothing attached or seeded.   *)
THEOREM RollbackTheorem == Spec => []NothingLeftBehind
<1>1. IInv => NothingLeftBehind
  BY DEF IInv
<1> QED BY <1>1, Invariance, PTL
=============================================================================
