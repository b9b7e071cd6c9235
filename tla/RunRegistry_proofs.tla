------------------------- MODULE RunRegistry_proofs -------------------------
(***************************************************************************)
(* Proofs about RunRegistry, for any number of runs and requests, any cap  *)
(* and a clock and restarts without bound.                                 *)
(***************************************************************************)
EXTENDS RunRegistry, FiniteSetTheorems, WellFoundedInduction, TLAPS

(***************************************************************************)
(* What the retention rests on: a run in the map is being worked on or has *)
(* finished, and the map holds every run being worked on.  So when evictL- *)
(* ocked finds nothing to give up, the map holds live runs only.           *)
(***************************************************************************)
MapInv ==
    /\ IsFiniteSet(runs)
    /\ runs \subseteq Live \cup Terminal
    /\ LiveRunsAreKept
    /\ Cardinality(Live) <= peak
    /\ \A r \in Runs : call[r] = "insert" => phase[r] = "made"

IInv == TypeOK /\ MapInv

-----------------------------------------------------------------------------

USE RegistryAssumption DEF history

\* A set of naturals that is not empty has a least element.
LEMMA LeastNatural ==
    ASSUME NEW T, T \subseteq Nat, T # {}
    PROVE  \E x \in T : \A y \in T : x <= y
  <1>1. \E x \in T : \A y \in T : <<y, x>> \notin OpToRel(<, Nat)
    BY NatLessThanWellFounded, WFMin
  <1>2. PICK x \in T : \A y \in T : <<y, x>> \notin OpToRel(<, Nat)
    BY <1>1
  <1>3. ASSUME NEW y \in T PROVE x <= y
    <2>1. x \in Nat /\ y \in Nat
      BY <1>3
    <2>2. ~(y < x)
      BY <1>2, <1>3, <2>1 DEF OpToRel
    <2> QED
      BY <2>1, <2>2
  <1> QED
    BY <1>2, <1>3

\* evictLocked gives up nothing above the cap only when no run has finished.
LEMMA NothingEvictable ==
    ASSUME TypeOK, NEW S \in SUBSET Runs,
           ~(Cardinality(S) <= MaxRuns), Evictable(S) = {}
    PROVE  S \cap Terminal = {}
  <1> SUFFICES ASSUME S \cap Terminal # {} PROVE FALSE
    OBVIOUS
  <1> DEFINE T == {created[r] : r \in S \cap Terminal}
  <1>1. T \subseteq Nat /\ T # {}
    BY DEF TypeOK
  <1>2. PICK x \in T : \A y \in T : x <= y
    BY <1>1, LeastNatural
  <1>3. PICK r \in S \cap Terminal : created[r] = x
    BY <1>2
  <1>4. r \in Evictable(S)
    BY <1>2, <1>3 DEF Evictable
  <1> QED
    BY <1>4

\* What a Start that evicts leaves behind.
LEMMA EvictedHadFinished ==
    ASSUME NEW S, NEW old \in Evictable(S)
    PROVE  old \in S /\ old \in Terminal /\ ~(Cardinality(S) <= MaxRuns)
  BY DEF Evictable

LEMMA InitIInv == Init => IInv
  <1> SUFFICES ASSUME Init PROVE IInv
    OBVIOUS
  <1>1. TypeOK
    BY DEF Init, TypeOK, Phases, Calls
  <1>2. Live = {} /\ runs = {}
    BY DEF Init, Live
  <1>3. MapInv
    BY <1>2, FS_EmptySet DEF Init, MapInv, LiveRunsAreKept
  <1> QED
    BY <1>1, <1>3 DEF IInv

\* Live runs are finitely many, before and after one more is added.
LEMMA LiveIsFinite ==
    ASSUME IInv
    PROVE  /\ IsFiniteSet(Live) /\ Cardinality(Live) \in Nat
           /\ \A r : /\ IsFiniteSet(Live \cup {r})
                     /\ Cardinality(Live \cup {r}) \in Nat
  <1>1. IsFiniteSet(Live)
    BY FS_Subset DEF IInv, MapInv, LiveRunsAreKept
  <1>2. ASSUME NEW r
        PROVE  /\ IsFiniteSet(Live \cup {r})
               /\ Cardinality(Live \cup {r}) \in Nat
    BY <1>1, FS_AddElement, FS_CardinalityType
  <1> QED
    BY <1>1, <1>2, FS_CardinalityType

\* The peak after an Insert.
LEMMA PeakGrows ==
    ASSUME IInv, NEW r \in Runs, Insert(r)
    PROVE  /\ peak' \in Nat /\ peak <= peak'
           /\ Live' = Live \cup {r}
           /\ Cardinality(Live') <= peak'
  <1> DEFINE n == Cardinality(Live \cup {r})
  <1>1. n \in Nat /\ peak \in Nat
    BY LiveIsFinite DEF IInv, TypeOK
  <1>2. peak' = IF n > peak THEN n ELSE peak
    BY DEF Insert
  <1>3. Live' = Live \cup {r}
    BY DEF Insert, Live, IInv, TypeOK
  <1>4. Cardinality(Live') = n
    BY <1>3
  <1> HIDE DEF n
  <1> QED
    BY <1>1, <1>2, <1>3, <1>4

LEMMA NextTypeOK == IInv /\ [Next]_vars => TypeOK'
  <1> SUFFICES ASSUME IInv, [Next]_vars PROVE TypeOK'
    OBVIOUS
  <1> USE DEF IInv, TypeOK, Phases, Calls
  <1>1. ASSUME NEW r \in Runs, MakeWorkspace(r) PROVE TypeOK'
    BY <1>1 DEF MakeWorkspace
  <1>2. ASSUME NEW r \in Runs, Insert(r) PROVE TypeOK'
    <2>1. runs' \subseteq Runs /\ disk' \subseteq Runs /\ stuck' \subseteq Runs
      BY <1>2 DEF Insert, RemoveWorkspace, Removed, Evictable
    <2>2. peak' \in Nat
      BY <1>2, PeakGrows
    <2>3. /\ phase' \in [Runs -> Phases]
          /\ call' \in [Runs -> Calls]
          /\ UNCHANGED <<created, handle, now, restarts, late>>
      BY <1>2 DEF Insert
    <2> QED
      BY <2>1, <2>2, <2>3
  <1>3. ASSUME NEW r \in Runs, StartReturns(r) PROVE TypeOK'
    BY <1>3 DEF StartReturns
  <1>4. ASSUME NEW r \in Runs, Finish(r) PROVE TypeOK'
    BY <1>4 DEF Finish
  <1>5. ASSUME NEW h \in Reverters,
               (\E r \in Runs : RevertBegin(h, r)) \/ RevertWrite(h)
                   \/ RevertEnds(h)
        PROVE  TypeOK'
    <2>1. ASSUME NEW r \in Runs, RevertBegin(h, r) PROVE TypeOK'
      BY <2>1 DEF RevertBegin
    <2>2. CASE RevertWrite(h)
      BY <2>2 DEF RevertWrite
    <2>3. CASE RevertEnds(h)
      BY <2>3 DEF RevertEnds
    <2> QED
      BY <1>5, <2>1, <2>2, <2>3
  <1>6. CASE Tick
    BY <1>6 DEF Tick
  <1>7. CASE Restart
    BY <1>7 DEF Restart
  <1>8. CASE UNCHANGED vars
    BY <1>8 DEF vars
  <1> QED
    BY <1>1, <1>2, <1>3, <1>4, <1>5, <1>6, <1>7, <1>8 DEF Next

LEMMA NextMapInv == IInv /\ [Next]_vars => MapInv'
  <1> SUFFICES ASSUME IInv, [Next]_vars PROVE MapInv'
    OBVIOUS
  <1> USE DEF IInv, TypeOK, MapInv, LiveRunsAreKept
  <1>1. ASSUME NEW r \in Runs, MakeWorkspace(r) PROVE MapInv'
    <2>1. Live' = Live /\ Terminal' = Terminal
      BY <1>1 DEF MakeWorkspace, Live, Terminal
    <2> QED
      BY <1>1, <2>1 DEF MakeWorkspace
  <1>2. ASSUME NEW r \in Runs, Insert(r) PROVE MapInv'
    <2> DEFINE all == runs \cup {r}
    <2>1. /\ Live' = Live \cup {r} /\ Cardinality(Live') <= peak'
      BY <1>2, PeakGrows
    <2>2. Terminal' = Terminal /\ r \notin Terminal
      BY <1>2 DEF Insert, Terminal
    <2>3. IsFiniteSet(all)
      BY FS_AddElement
    <2>4. \/ runs' = all
          \/ \E old \in Terminal : runs' = all \ {old}
      <3>1. CASE runs' = all
        BY <3>1
      <3>2. CASE \E old \in Evictable(all) : runs' = all \ {old}
        BY <3>2, EvictedHadFinished
      <3> QED
        BY <1>2, <3>1, <3>2 DEF Insert
    <2>5. IsFiniteSet(runs')
      <3>1. \A old : IsFiniteSet(all \ {old})
        BY <2>3, FS_RemoveElement
      <3> HIDE DEF all
      <3> QED
        BY <2>3, <2>4, <3>1
    <2>6. runs' \subseteq Live' \cup Terminal'
      BY <2>1, <2>2, <2>4
    <2>7. Live' \subseteq runs'
      <3>1. Live \cap Terminal = {}
        BY DEF Live, Terminal
      <3> QED
        BY <2>1, <2>2, <2>4, <3>1
    <2>8. \A q \in Runs : call'[q] = "insert" => phase'[q] = "made"
      BY <1>2 DEF Insert
    <2> QED
      BY <2>1, <2>5, <2>6, <2>7, <2>8
  <1>3. ASSUME NEW r \in Runs, StartReturns(r) PROVE MapInv'
    <2>1. Live' = Live /\ Terminal' = Terminal
      BY <1>3 DEF StartReturns, Live, Terminal
    <2> QED
      BY <1>3, <2>1 DEF StartReturns
  <1>4. ASSUME NEW r \in Runs, Finish(r) PROVE MapInv'
    <2>1. Live' = Live \ {r} /\ Terminal' = Terminal \cup {r}
      BY <1>4 DEF Finish, Live, Terminal
    <2>2. Cardinality(Live') <= peak'
      <3>1. /\ Cardinality(Live') <= Cardinality(Live)
            /\ Cardinality(Live') \in Nat
        BY <2>1, LiveIsFinite, FS_Subset, FS_CardinalityType
      <3> QED
        BY <1>4, <3>1, LiveIsFinite DEF Finish
    <2> QED
      BY <1>4, <2>1, <2>2 DEF Finish
  <1>5. ASSUME NEW h \in Reverters,
               (\E r \in Runs : RevertBegin(h, r)) \/ RevertWrite(h)
                   \/ RevertEnds(h)
        PROVE  MapInv'
    <2>1. UNCHANGED <<runs, phase, call, peak>>
      BY <1>5 DEF RevertBegin, RevertWrite, RevertEnds
    <2> QED
      BY <2>1 DEF Live, Terminal
  <1>6. CASE Tick \/ UNCHANGED vars
    <2>1. UNCHANGED <<runs, phase, call, peak>>
      BY <1>6 DEF Tick, vars
    <2> QED
      BY <2>1 DEF Live, Terminal
  <1>7. CASE Restart
    <2>1. Live' = {} /\ runs' = {} /\ peak' = 0
      BY <1>7 DEF Restart, Live
    <2>2. \A q \in Runs : call'[q] # "insert"
      BY <1>7 DEF Restart
    <2> QED
      BY <2>1, <2>2, FS_EmptySet
  <1> QED
    BY <1>1, <1>2, <1>3, <1>4, <1>5, <1>6, <1>7 DEF Next

LEMMA Invariance == Spec => []IInv
  <1>1. IInv /\ [Next]_vars => IInv'
    BY NextTypeOK, NextMapInv DEF IInv
  <1> QED
    BY InitIInv, <1>1, PTL DEF Spec

\* Every variable of the registry stays in its range (Start, evictLocked,
\* Revert and a restart in any order).
THEOREM TypeCorrect == Spec => []TypeOK
  BY Invariance, PTL DEF IInv

\* "In-flight runs are never evicted", however many are started.
THEOREM LiveKept == Spec => []LiveRunsAreKept
  BY Invariance, PTL DEF IInv, MapInv

-----------------------------------------------------------------------------

\* Eviction of one run per Start is enough: above the cap, a Start that finds
\* nothing to evict finds live runs only, and those were counted by the peak.
THEOREM RetentionIsBounded == Spec => []RetentionBound
  <1>1. Init => RetentionBound
    <2> SUFFICES ASSUME Init PROVE RetentionBound
      OBVIOUS
    <2> QED
      BY FS_EmptySet DEF Init, RetentionBound
  <1>2. IInv /\ RetentionBound /\ [Next]_vars => RetentionBound'
    <2> SUFFICES ASSUME IInv, RetentionBound, [Next]_vars
                 PROVE  RetentionBound'
      OBVIOUS
    <2> USE DEF RetentionBound
    <2>1. ASSUME NEW r \in Runs, Insert(r) PROVE RetentionBound'
      <3> DEFINE all == runs \cup {r}
      <3>1. /\ IsFiniteSet(runs) /\ IsFiniteSet(all)
            /\ Cardinality(runs) \in Nat /\ Cardinality(all) \in Nat
        BY FS_AddElement, FS_CardinalityType DEF IInv, MapInv
      <3>2. /\ peak \in Nat /\ peak' \in Nat /\ peak <= peak'
            /\ Live' = Live \cup {r} /\ Cardinality(Live') <= peak'
        BY <2>1, PeakGrows DEF IInv, TypeOK
      <3>3. all \in SUBSET Runs
        BY DEF IInv, TypeOK
      <3>4. CASE Evictable(all) = {} /\ runs' = all
        <4>1. CASE Cardinality(all) <= MaxRuns
          BY <3>4, <4>1
        <4>2. CASE ~(Cardinality(all) <= MaxRuns)
          <5>1. all \cap Terminal = {}
            BY <3>3, <3>4, <4>2, NothingEvictable DEF IInv
          <5>2. all \subseteq Live'
            BY <3>2, <5>1 DEF IInv, MapInv
          <5>3. /\ IsFiniteSet(Live')
                /\ Cardinality(Live') \in Nat
            BY <3>2, LiveIsFinite
          <5>4. Cardinality(all) <= Cardinality(Live')
            BY <5>2, <5>3, FS_Subset
          <5> QED
            BY <3>1, <3>2, <3>4, <5>3, <5>4
        <4> QED
          BY <4>1, <4>2
      <3>5. ASSUME NEW old \in Evictable(all), runs' = all \ {old}
            PROVE  RetentionBound'
        <4>1. old \in all
          BY EvictedHadFinished
        <4>2. /\ Cardinality(runs') = Cardinality(all) - 1
              /\ Cardinality(all) <= Cardinality(runs) + 1
          <5>1. Cardinality(all \ {old}) = Cardinality(all) - 1
            BY <3>1, <4>1, FS_RemoveElement
          <5>2. Cardinality(all) <= Cardinality(runs) + 1
            BY <3>1, FS_AddElement
          <5> QED
            BY <3>5, <5>1, <5>2
        <4>3. Cardinality(runs') <= Cardinality(runs)
          BY <3>1, <4>2
        <4>4. Cardinality(runs') \in Nat
          BY <3>1, <3>5, FS_RemoveElement, FS_CardinalityType
        <4> QED
          BY <3>1, <3>2, <4>3, <4>4
      <3> QED
        BY <2>1, <3>4, <3>5 DEF Insert
    <2>2. CASE Restart
      <3>1. Cardinality(runs') = 0
        BY <2>2, FS_EmptySet DEF Restart
      <3> QED
        BY <3>1
    <2>3. CASE UNCHANGED <<runs, peak>>
      BY <2>3
    <2> QED
      BY <2>1, <2>2, <2>3 DEF Next, MakeWorkspace, StartReturns, Finish,
           RevertBegin, RevertWrite, RevertEnds, Tick, vars
  <1> QED
    BY <1>1, <1>2, Invariance, PTL DEF Spec

\* A Start gives up a run only if that run had finished and the map is full
\* without it.
THEOREM EvictionNeedsPressure == Spec => EvictsUnderPressure
  <1>1. IInv /\ [Next]_vars =>
            [restarts' = restarts =>
                \A r \in runs \ runs' :
                    phase[r] = "terminal" /\ Cardinality(runs') >= MaxRuns]_vars
    <2> SUFFICES ASSUME IInv, Next, restarts' = restarts,
                        NEW q \in runs \ runs'
                 PROVE  phase[q] = "terminal" /\ Cardinality(runs') >= MaxRuns
      OBVIOUS
    <2>1. ASSUME NEW r \in Runs, Insert(r)
          PROVE  phase[q] = "terminal" /\ Cardinality(runs') >= MaxRuns
      <3> DEFINE all == runs \cup {r}
      <3>1. PICK old \in Evictable(all) : runs' = all \ {old}
        BY <2>1 DEF Insert
      <3>2. q = old
        BY <3>1
      <3>3. q \in all /\ q \in Terminal /\ ~(Cardinality(all) <= MaxRuns)
        BY <3>1, <3>2, EvictedHadFinished
      <3>4. IsFiniteSet(all) /\ Cardinality(all) \in Nat
        BY FS_AddElement, FS_CardinalityType DEF IInv, MapInv
      <3>5. Cardinality(runs') = Cardinality(all) - 1
        BY <3>1, <3>2, <3>3, <3>4, FS_RemoveElement
      <3>6. Cardinality(runs') >= MaxRuns
        BY <3>3, <3>4, <3>5
      <3> QED
        BY <3>3, <3>6 DEF Terminal
    <2>2. CASE Restart
      BY <2>2 DEF Restart, IInv, TypeOK
    <2>3. CASE UNCHANGED runs
      BY <2>3
    <2> QED
      BY <2>1, <2>2, <2>3 DEF Next, MakeWorkspace, StartReturns, Finish,
           RevertBegin, RevertWrite, RevertEnds, Tick
  <1> QED
    BY <1>1, Invariance, PTL DEF Spec, EvictsUnderPressure

-----------------------------------------------------------------------------

\* A directory, and a workspace a Revert holds, belong to a run that was
\* started: a restart loses it.
DiskInv ==
    /\ LeaksAreKnown
    /\ \A r \in disk : phase[r] # "unborn"
    /\ \A h \in Reverters : handle[h] # None => phase[handle[h]] # "unborn"

\* Start, evictLocked and Revert leave no directory behind except by the race
\* of a Revert with the eviction of its run, by a removal that failed, whose
\* error evictLocked drops, or by a restart.
THEOREM LeaksHaveThreeCauses == Spec => []LeaksAreKnown
  <1>1. Init => DiskInv
    BY DEF Init, DiskInv, LeaksAreKnown
  <1>2. IInv /\ DiskInv /\ [Next]_vars => DiskInv'
    <2> SUFFICES ASSUME IInv, DiskInv, [Next]_vars PROVE DiskInv'
      OBVIOUS
    <2> USE DEF IInv, TypeOK, DiskInv, LeaksAreKnown
    <2>1. ASSUME NEW r \in Runs, MakeWorkspace(r) PROVE DiskInv'
      BY <2>1 DEF MakeWorkspace
    <2>2. ASSUME NEW r \in Runs, Insert(r) PROVE DiskInv'
      <3>1. phase[r] = "made"
        BY <2>2 DEF Insert, MapInv
      <3>2. \A q \in Runs : q # r => phase'[q] = phase[q] /\ call'[q] = call[q]
        BY <2>2 DEF Insert
      <3>3. phase'[r] = "live"
        BY <2>2 DEF Insert
      <3>4. /\ disk' \subseteq disk /\ handle' = handle /\ late' = late
            /\ stuck \subseteq stuck'
        BY <2>2 DEF Insert, RemoveWorkspace, Removed
      <3>5. r \in runs' /\ disk' \cap runs \subseteq runs' \cup stuck'
        <4>1. ASSUME NEW old \in Evictable(runs \cup {r}),
                     runs' = (runs \cup {r}) \ {old}, RemoveWorkspace(old)
              PROVE  r \in runs' /\ disk' \cap runs \subseteq runs' \cup stuck'
          <5>1. old # r
            BY <3>1, EvictedHadFinished DEF Terminal
          <5> QED
            BY <4>1, <5>1 DEF RemoveWorkspace, Removed
        <4> QED
          BY <2>2, <4>1 DEF Insert
      <3> QED
        BY <3>1, <3>2, <3>3, <3>4, <3>5
    <2>3. ASSUME NEW r \in Runs, StartReturns(r) \/ Finish(r) PROVE DiskInv'
      BY <2>3 DEF StartReturns, Finish
    <2>4. ASSUME NEW h \in Reverters, NEW r \in Runs, RevertBegin(h, r)
          PROVE  DiskInv'
      BY <2>4 DEF RevertBegin, MapInv, Live, Terminal
    <2>5. ASSUME NEW h \in Reverters, RevertWrite(h) \/ RevertEnds(h)
          PROVE  DiskInv'
      BY <2>5 DEF RevertWrite, RevertEnds
    <2>6. CASE Tick \/ UNCHANGED vars
      BY <2>6 DEF Tick, vars
    <2>7. CASE Restart
      BY <2>7 DEF Restart
    <2> QED
      BY <2>1, <2>2, <2>3, <2>4, <2>5, <2>6, <2>7 DEF Next
  <1>3. DiskInv => LeaksAreKnown
    BY DEF DiskInv
  <1> QED
    BY <1>1, <1>2, <1>3, Invariance, PTL DEF Spec

=============================================================================
