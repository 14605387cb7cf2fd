----------------------- MODULE MergedWeightCacheProofs -----------------------
(***************************************************************************)
(* Theorems about MergedWeightCache, for every set of adapters and every   *)
(* size of the cache.                                                      *)
(***************************************************************************)
EXTENDS MergedWeightCache, SequenceLemmas, FiniteSetTheorems

\* The adapters that something holds: a thread, the list of loaded ones, the
\* running process(), or the cache.
OnTheWay == loading \cup ToSet(loaded) \cup Resident
            \cup (IF merging = None THEN {} ELSE {merging})

\* What makes the invariants inductive: an adapter on its way stays in
\* _requested, so that request() ignores it (until the cache has no room and
\* ignores everything); merging belongs to one stretch of process(); and the
\* flags go stale in that stretch only.
Inv ==
    /\ TypeOK
    /\ WithinCapacity
    /\ InOnePlace
    /\ NoneStranded
    /\ turn = "merge" <=> merging # None
    /\ kHot # 0 => OnTheWay \subseteq requested
    /\ turn \in {"process", "merge"} => flagged \subseteq Resident
    /\ turn = "run" => \E e : flagged \ Resident \subseteq {e}

USE DEF None, Larger

LEMMA EmptyFacts == ToSet(<<>>) = {} /\ IsInjective(<<>>) /\ Len(<<>>) = 0
  BY DEF ToSet, IsInjective

LEMMA NoneIsNoAdapter == None \notin Adapters
  BY CacheAssumption

LEMMA InitInv == Init => Inv
  BY EmptyFacts, NoneIsNoAdapter, CacheAssumption
     DEF Init, Inv, TypeOK, WithinCapacity, InOnePlace, NoneStranded, OnTheWay, Resident

LEMMA ScheduleInv == Inv /\ Schedule => Inv'
  <1> SUFFICES ASSUME Inv, Schedule PROVE Inv'
    OBVIOUS
  <1>1. PICK hot \in SUBSET Adapters :
            LET fresh == {a \in hot : ~Ignored(a)} IN
            requested' = requested \cup fresh /\ loading' = loading \cup fresh
    BY DEF Schedule
  <1> DEFINE fresh == {a \in hot : ~Ignored(a)}
  <1>2. fresh \subseteq Adapters /\ fresh \cap Resident = {} /\ fresh \cap requested = {}
        /\ (kHot = 0 => fresh = {})
    BY DEF Ignored
  <1>3. /\ UNCHANGED <<kHot, weights, loaded, failed, merging>>
        /\ flagged' = Resident /\ Resident' = Resident
        /\ turn = "schedule" /\ turn' = "process"
    BY DEF Schedule, Resident
  <1>4. merging = None
    BY <1>3 DEF Inv
  <1> HIDE DEF fresh
  <1>5. TypeOK'
    <2>1. Resident \subseteq Adapters
      BY DEF Inv, TypeOK, Resident, ToSet
    <2> QED
      BY <1>1, <1>2, <1>3, <2>1 DEF Inv, TypeOK, fresh
  <1>6. WithinCapacity'
    BY <1>3 DEF Inv, WithinCapacity
  <1>7. InOnePlace'
    <2>1. fresh \cap ToSet(loaded) = {}
      BY <1>2 DEF Inv, OnTheWay
    <2>2. loading' = loading \cup fresh
      BY <1>1 DEF fresh
    <2>3. None \notin fresh
      BY <1>2, NoneIsNoAdapter
    <2> QED
      BY <1>2, <1>3, <1>4, <2>1, <2>2, <2>3 DEF Inv, InOnePlace
  <1>8. NoneStranded'
    BY <1>1, <1>3 DEF Inv, NoneStranded, fresh
  <1>9. (kHot # 0 => OnTheWay \subseteq requested)'
    BY <1>1, <1>3, <1>4 DEF Inv, OnTheWay, fresh
  <1> QED
    BY <1>3, <1>4, <1>5, <1>6, <1>7, <1>8, <1>9 DEF Inv

LEMMA LoaderInv == ASSUME NEW a \in Adapters PROVE Inv /\ LoaderStep(a) => Inv'
  <1> SUFFICES ASSUME Inv, LoaderStep(a) PROVE Inv'
    OBVIOUS
  <1>1. /\ a \in loading /\ loading' = loading \ {a}
        /\ UNCHANGED <<kHot, weights, requested, merging, turn, flagged>>
        /\ Resident' = Resident
    BY DEF LoaderStep, LoadEnds, LoadFails, Resident
  <1>2. a \notin ToSet(loaded) /\ a \notin Resident /\ a # merging
    BY <1>1 DEF Inv, InOnePlace
  <1>3. loaded \in Seq(Adapters)
    BY DEF Inv, TypeOK
  <1>4. CASE LoadEnds(a)
    <2>1. loaded' = Append(loaded, a) /\ failed' = failed
      BY <1>2, <1>4 DEF LoadEnds
    <2>2. /\ loaded' \in Seq(Adapters) /\ ToSet(loaded') = ToSet(loaded) \cup {a}
          /\ IsInjective(loaded')
      BY <1>2, <1>3, <2>1, AppendOnce DEF Inv, InOnePlace
    <2>3. TypeOK'
      BY <1>1, <2>1, <2>2 DEF Inv, TypeOK
    <2>4. InOnePlace'
      BY <1>1, <1>2, <2>1, <2>2 DEF Inv, InOnePlace
    <2> QED
      BY <1>1, <2>1, <2>2, <2>3, <2>4 DEF Inv, WithinCapacity, NoneStranded, OnTheWay
  <1>5. CASE LoadFails(a)
    <2>1. loaded' = loaded /\ failed' = failed \cup {a}
      BY <1>5 DEF LoadFails
    <2> QED
      BY <1>1, <1>2, <2>1
         DEF Inv, TypeOK, WithinCapacity, InOnePlace, NoneStranded, OnTheWay
  <1> QED
    BY <1>4, <1>5 DEF LoaderStep

LEMMA PopInv == Inv /\ PopLoaded => Inv'
  <1> SUFFICES ASSUME Inv, PopLoaded PROVE Inv'
    OBVIOUS
  <1>1. /\ turn = "process" /\ turn' = "merge" /\ loaded # <<>>
        /\ merging' = Last(loaded) /\ loaded' = Front(loaded)
        /\ UNCHANGED <<kHot, weights, requested, loading, failed, flagged>>
        /\ Resident' = Resident
    BY DEF PopLoaded, Resident
  <1>2. merging = None
    BY <1>1 DEF Inv
  <1>3. /\ loaded' \in Seq(Adapters) /\ merging' \in Adapters
        /\ ToSet(loaded) = ToSet(loaded') \cup {merging'}
        /\ IsInjective(loaded') /\ merging' \notin ToSet(loaded')
    BY <1>1, PopOnce DEF Inv, TypeOK, InOnePlace
  <1>4. merging' # None
    BY <1>3, NoneIsNoAdapter
  <1>5. TypeOK' /\ WithinCapacity'
    BY <1>1, <1>3 DEF Inv, TypeOK, WithinCapacity
  <1>6. InOnePlace'
    BY <1>1, <1>3 DEF Inv, InOnePlace
  <1>7. NoneStranded'
    BY <1>1, <1>2, <1>3, NoneIsNoAdapter DEF Inv, TypeOK, NoneStranded
  <1>8. OnTheWay' = OnTheWay
    BY <1>1, <1>2, <1>3, <1>4 DEF OnTheWay
  <1> QED
    BY <1>1, <1>4, <1>5, <1>6, <1>7, <1>8 DEF Inv

LEMMA MergeInv == Inv /\ Merge => Inv'
  <1> SUFFICES ASSUME Inv, Merge PROVE Inv'
    OBVIOUS
  <1> DEFINE gone == SubSeq(weights, 1, Evicted)
             kept == SubSeq(weights, Evicted + 1, Len(weights))
  <1>1. /\ turn = "merge" /\ turn' = "run" /\ kHot > 0
        /\ weights' = Append(kept, merging)
        /\ requested' = requested \ ToSet(gone)
        /\ merging' = None
        /\ UNCHANGED <<kHot, loaded, loading, failed, flagged>>
    BY DEF Merge
  <1>2. /\ weights \in Seq(Adapters) /\ kHot \in Nat /\ Len(weights) \in Nat
        /\ Len(weights) <= kHot
    BY <1>1, CacheAssumption DEF Inv, TypeOK, WithinCapacity
  <1>3. merging \in Adapters /\ merging \notin Resident
    BY <1>1 DEF Inv, TypeOK, InOnePlace
  <1>4. Evicted \in 0 .. Len(weights) /\ Evicted <= 1 /\ Len(weights) - Evicted < kHot
    BY <1>1, <1>2 DEF Evicted
  <1>5. /\ gone \in Seq(Adapters) /\ kept \in Seq(Adapters)
        /\ Len(gone) = Evicted /\ Len(kept) = Len(weights) - Evicted
        /\ ToSet(gone) \cup ToSet(kept) = Resident
        /\ ToSet(gone) \cap ToSet(kept) = {} /\ IsInjective(kept)
    BY <1>2, <1>4, CutOnce DEF Inv, WithinCapacity, Resident
  <1> HIDE DEF gone, kept
  <1>6. /\ weights' \in Seq(Adapters) /\ Len(weights') = Len(kept) + 1
        /\ Resident' = ToSet(kept) \cup {merging} /\ IsInjective(weights')
    BY <1>1, <1>3, <1>5, AppendOnce DEF Resident
  <1>7. TypeOK'
    BY <1>1, <1>6 DEF Inv, TypeOK
  <1>8. WithinCapacity'
    BY <1>1, <1>2, <1>4, <1>5, <1>6 DEF WithinCapacity
  <1>9. InOnePlace'
    <2>1. None \notin loading \cup ToSet(loaded) \cup Resident'
      BY <1>3, <1>5, <1>6, NoneIsNoAdapter DEF Inv, TypeOK, ToSet
    <2> QED
      BY <1>1, <1>5, <1>6, <2>1 DEF Inv, InOnePlace
  <1>10. NoneStranded'
    BY <1>1, <1>5, <1>6 DEF Inv, NoneStranded
  <1>11. (kHot # 0 => OnTheWay \subseteq requested)'
    BY <1>1, <1>3, <1>5, <1>6 DEF Inv, InOnePlace, OnTheWay
  <1>12. (turn = "run" => \E e : flagged \ Resident \subseteq {e})'
    <2>1. \A i, j \in DOMAIN gone : i = j
      BY <1>4, <1>5
    <2>2. \E e : ToSet(gone) \subseteq {e}
      BY <2>1 DEF ToSet
    <2>3. flagged' \ Resident' \subseteq ToSet(gone)
      BY <1>1, <1>5, <1>6 DEF Inv
    <2> QED
      BY <2>2, <2>3
  <1> QED
    BY <1>1, <1>7, <1>8, <1>9, <1>10, <1>11, <1>12 DEF Inv

LEMMA RunInv == Inv /\ Run => Inv'
  <1> SUFFICES ASSUME Inv, Run PROVE Inv'
    OBVIOUS
  <1>1. /\ turn = "run" /\ turn' = "schedule" /\ flagged' = {}
        /\ UNCHANGED <<kHot, loaded, requested, loading, failed, merging>>
    BY DEF Run
  <1>2. /\ weights' \in Seq(Adapters) /\ Len(weights') = Len(weights)
        /\ Resident' = Resident /\ IsInjective(weights')
    <2>1. weights \in Seq(Adapters) /\ IsInjective(weights)
      BY DEF Inv, TypeOK, WithinCapacity
    <2>2. CASE UNCHANGED weights
      BY <2>1, <2>2 DEF Resident
    <2>3. CASE \E i \in DOMAIN weights : weights' = MarkUsed(i)
      BY <2>1, <2>3, MoveToEndOnce DEF Resident, MarkUsed
    <2> QED
      BY <2>2, <2>3 DEF Run
  <1> QED
    BY <1>1, <1>2
       DEF Inv, TypeOK, WithinCapacity, InOnePlace, NoneStranded, OnTheWay

LEMMA NextInv == Inv /\ [Next]_vars => Inv'
  <1> SUFFICES ASSUME Inv, [Next]_vars PROVE Inv'
    OBVIOUS
  <1>1. CASE Schedule
    BY <1>1, ScheduleInv
  <1>2. CASE NothingLoaded
    BY <1>2 DEF NothingLoaded, Inv, TypeOK, WithinCapacity, InOnePlace, NoneStranded,
                OnTheWay, Resident
  <1>3. CASE PopLoaded
    BY <1>3, PopInv
  <1>4. CASE Size
    <2>1. /\ kHot = None /\ kHot' \in 0 .. KHotMax
          /\ UNCHANGED <<weights, loaded, requested, loading, failed, merging, turn, flagged>>
          /\ Resident' = Resident
      BY <1>4 DEF Size, Resident
    <2>2. WithinCapacity'
      <3>1. Len(weights) \in Nat /\ Len(weights) <= 0 /\ IsInjective(weights)
        BY <2>1 DEF Inv, TypeOK, WithinCapacity
      <3> QED
        BY <2>1, <3>1, CacheAssumption DEF WithinCapacity
    <2> QED
      BY <2>1, <2>2 DEF Inv, TypeOK, InOnePlace, NoneStranded, OnTheWay
  <1>5. CASE GiveUp
    <2>1. /\ turn = "merge" /\ turn' = "run" /\ kHot = 0
          /\ requested' = {} /\ loaded' = <<>> /\ merging' = None
          /\ UNCHANGED <<kHot, weights, loading, failed, flagged>>
          /\ Resident' = Resident
      BY <1>5 DEF GiveUp, Resident
    <2>2. <<>> \in Seq(Adapters)
      OBVIOUS
    <2>3. None \notin loading \cup Resident
      BY NoneIsNoAdapter DEF Inv, TypeOK, Resident, ToSet
    <2> QED
      BY <2>1, <2>2, <2>3, EmptyFacts
         DEF Inv, TypeOK, WithinCapacity, InOnePlace, NoneStranded, OnTheWay
  <1>6. CASE Merge
    BY <1>6, MergeInv
  <1>7. CASE Run
    BY <1>7, RunInv
  <1>8. CASE \E a \in Adapters : LoaderStep(a)
    BY <1>8, LoaderInv
  <1>9. CASE UNCHANGED vars
    BY <1>9 DEF vars, Inv, TypeOK, WithinCapacity, InOnePlace, NoneStranded, OnTheWay, Resident
  <1> QED
    BY <1>1, <1>2, <1>3, <1>4, <1>5, <1>6, <1>7, <1>8, <1>9 DEF Next, EngineStep

LEMMA Invariance == Spec => []Inv
  BY InitInv, NextInv, PTL DEF Spec

-----------------------------------------------------------------------------
\* The cache's variables keep their types under every interleaving of the
\* threads.
THEOREM TypeCorrect == Spec => []TypeOK
  <1>1. Inv => TypeOK
    BY DEF Inv
  <1> QED
    BY <1>1, Invariance, PTL

\* The cache never holds more adapters than it was sized for, none before it
\* is sized, and none twice, whatever threads end between the steps.
THEOREM NeverOverfull == Spec => []WithinCapacity
  <1>1. Inv => WithinCapacity
    BY DEF Inv
  <1> QED
    BY <1>1, Invariance, PTL

\* No adapter is loaded or merged twice at a time.
THEOREM MergedOnce == Spec => []InOnePlace
  <1>1. Inv => InOnePlace
    BY DEF Inv
  <1> QED
    BY <1>1, Invariance, PTL

\* An adapter whose request is ignored is on its way, resident, or its loader
\* thread died: eviction and clearing leave no stale request behind.
THEOREM NoStaleRequest == Spec => []NoneStranded
  <1>1. Inv => NoneStranded
    BY DEF Inv
  <1> QED
    BY <1>1, Invariance, PTL

\* Between the scheduler's look at the cache and the step, at most one of the
\* adapters it flagged is evicted.
THEOREM OneStaleFlag == Spec => []AtMostOneStaleFlag
  <1>1. Inv => AtMostOneStaleFlag
    <2> SUFFICES ASSUME Inv, turn = "run" PROVE Cardinality(flagged \ Resident) <= 1
      BY DEF AtMostOneStaleFlag
    <2>1. PICK e : flagged \ Resident \subseteq {e}
      BY DEF Inv
    <2>2. IsFiniteSet({e}) /\ Cardinality({e}) = 1
      BY FS_Singleton
    <2>3. Cardinality(flagged \ Resident) <= Cardinality({e})
      BY <2>1, <2>2, FS_Subset
    <2> QED
      BY <2>2, <2>3
  <1> QED
    BY <1>1, Invariance, PTL

=============================================================================
