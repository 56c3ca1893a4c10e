------------------------ MODULE PendingTrackerProofs ------------------------
(***************************************************************************)
(* The operations of CrossDomainPendingRequestTracker keep its hand-kept   *)
(* size right and its bounds, whatever the bounds are and however many     *)
(* keys and sources there are: only finitely many are ever recorded.       *)
(***************************************************************************)
EXTENDS PendingTracker, FiniteSetTheorems, TLAPS

TrackerOK(tracker) ==
  /\ tracker \in Tracker
  /\ IsFiniteSet(tracker.sources)
  /\ TrackerConsistent(tracker)

(***************************************************************************)
(* The sizes the tracker's count has to follow: one source more or less.   *)
(***************************************************************************)
LEMMA AddOne ==
  ASSUME NEW S, IsFiniteSet(S), NEW x, x \notin S
  PROVE  /\ IsFiniteSet(S \union {x})
         /\ Cardinality(S \union {x}) = Cardinality(S) + 1
BY FS_AddElement

LEMMA TakeOne ==
  ASSUME NEW S, IsFiniteSet(S), NEW x \in S
  PROVE  /\ IsFiniteSet(S \ {x})
         /\ Cardinality(S \ {x}) = Cardinality(S) - 1
BY FS_RemoveElement

(***************************************************************************)
(* Taking a part out of a finite set takes its size off: the count that    *)
(* remove and the dismissals subtract.                                     *)
(***************************************************************************)
LEMMA TakePart ==
  ASSUME NEW S, IsFiniteSet(S), NEW part, S \intersect part = part
  PROVE  /\ IsFiniteSet(S \ part)
         /\ Cardinality(S \ part) = Cardinality(S) - Cardinality(part)
<1>1. /\ IsFiniteSet(S \ part)
      /\ Cardinality(S \ part) = Cardinality(S) - Cardinality(S \intersect part)
  BY FS_Difference
<1> QED
  BY <1>1

(***************************************************************************)
(* An initial or cleared tracker (clear) is consistent.                    *)
(***************************************************************************)
LEMMA EmptyTrackerOK == TrackerOK(EmptyTracker)
<1>1. \A key \in Keys : SourcesOf(EmptyTracker, key) = {}
  BY DEF SourcesOf, EmptyTracker
<1> QED
  BY <1>1, FS_EmptySet, TrackerAssumption DEF TrackerOK, TrackerConsistent, Tracker, EmptyTracker

(***************************************************************************)
(* The sources of a key of a consistent tracker are finitely many.         *)
(***************************************************************************)
LEMMA SourcesOfFinite ==
  ASSUME NEW tracker, TrackerOK(tracker), NEW key
  PROVE  /\ IsFiniteSet(SourcesOf(tracker, key))
         /\ Cardinality(SourcesOf(tracker, key)) \in Nat
         /\ SourcesOf(tracker, key) \in SUBSET tracker.sources
<1>1. SourcesOf(tracker, key) \in SUBSET tracker.sources
  BY DEF SourcesOf
<1>2. IsFiniteSet(SourcesOf(tracker, key))
  BY <1>1, FS_Subset DEF TrackerOK
<1> QED
  BY <1>1, <1>2, FS_CardinalityType

(***************************************************************************)
(* record, within the bounds, keeps the tracker consistent.                *)
(***************************************************************************)
LEMMA RecordOK ==
  ASSUME NEW tracker, TrackerOK(tracker), NEW key \in Keys, NEW source \in Sources,
         MayRecord(tracker, key, source)
  PROVE  TrackerOK(Record(tracker, key, source))
<1> DEFINE after == Record(tracker, key, source)
<1>1. after.sources = tracker.sources \union {<<key, source>>} /\ after.size = tracker.size + 1
  BY DEF Record
<1>2. after \in Tracker
  BY DEF Record, Tracker, TrackerOK
<1>3. /\ IsFiniteSet(after.sources)
      /\ Cardinality(after.sources) = Cardinality(tracker.sources) + 1
  <2>1. IsFiniteSet(tracker.sources) /\ <<key, source>> \notin tracker.sources
    BY DEF TrackerOK, MayRecord, IsPending
  <2>2. /\ IsFiniteSet(tracker.sources \union {<<key, source>>})
        /\ Cardinality(tracker.sources \union {<<key, source>>}) = Cardinality(tracker.sources) + 1
    BY <2>1, AddOne
  <2> QED
    BY <1>1, <2>2
<1>4. after.size = Cardinality(after.sources) /\ after.size <= MaxPendingSources
  BY <1>1, <1>3, TrackerAssumption DEF TrackerOK, TrackerConsistent, MayRecord, Tracker
<1>5. ASSUME NEW k \in Keys
      PROVE  Cardinality(SourcesOf(after, k)) <= MaxSourcesPerRequest
  <2>1. CASE k = key
    <3>1. SourcesOf(after, k) = SourcesOf(tracker, k) \union {<<key, source>>}
      BY <1>1, <2>1 DEF SourcesOf
    <3>2. <<key, source>> \notin SourcesOf(tracker, k)
      BY DEF SourcesOf, MayRecord, IsPending
    <3>3. Cardinality(SourcesOf(after, k)) = Cardinality(SourcesOf(tracker, k)) + 1
      <4>1. IsFiniteSet(SourcesOf(tracker, k))
        BY SourcesOfFinite
      <4>2. Cardinality(SourcesOf(tracker, k) \union {<<key, source>>}) = Cardinality(SourcesOf(tracker, k)) + 1
        BY <3>2, <4>1, AddOne
      <4> QED
        BY <3>1, <4>2
    <3> QED
      BY <3>3, <2>1, SourcesOfFinite, TrackerAssumption DEF MayRecord
  <2>2. CASE k # key
    <3>1. SourcesOf(after, k) = SourcesOf(tracker, k)
      BY <1>1, <2>2 DEF SourcesOf
    <3> QED
      BY <3>1 DEF TrackerOK, TrackerConsistent
  <2> QED
    BY <2>1, <2>2
<1> QED
  BY <1>2, <1>3, <1>4, <1>5 DEF TrackerOK, TrackerConsistent

(***************************************************************************)
(* A tracker with fewer sources and the right size is consistent.          *)
(***************************************************************************)
LEMMA ShrinkOK ==
  ASSUME NEW tracker, TrackerOK(tracker), NEW after \in Tracker,
         after.sources \subseteq tracker.sources, after.size = Cardinality(after.sources)
  PROVE  TrackerOK(after)
<1>1. /\ IsFiniteSet(after.sources)
      /\ Cardinality(after.sources) <= Cardinality(tracker.sources)
  BY FS_Subset DEF TrackerOK
<1>2. after.size <= MaxPendingSources
  BY <1>1, FS_CardinalityType, TrackerAssumption DEF TrackerOK, TrackerConsistent, Tracker
<1>3. ASSUME NEW k \in Keys
      PROVE  Cardinality(SourcesOf(after, k)) <= MaxSourcesPerRequest
  <2>1. SourcesOf(after, k) \in SUBSET SourcesOf(tracker, k)
    BY DEF SourcesOf
  <2>2. Cardinality(SourcesOf(after, k)) <= Cardinality(SourcesOf(tracker, k))
    BY <2>1, SourcesOfFinite, FS_Subset
  <2>3. IsFiniteSet(SourcesOf(after, k))
    BY <2>1, SourcesOfFinite, FS_Subset
  <2>4. Cardinality(SourcesOf(after, k)) \in Nat
    BY <2>3, FS_CardinalityType
  <2> QED
    BY <2>2, <2>4, SourcesOfFinite, TrackerAssumption DEF TrackerOK, TrackerConsistent
<1> QED
  BY <1>1, <1>2, <1>3 DEF TrackerOK, TrackerConsistent

(***************************************************************************)
(* remove discounts exactly the sources the key had.                       *)
(***************************************************************************)
LEMMA RemoveOK ==
  ASSUME NEW tracker, TrackerOK(tracker), NEW key
  PROVE  TrackerOK(RemoveKey(tracker, key))
<1> DEFINE gone == SourcesOf(tracker, key)
           after == RemoveKey(tracker, key)
<1>1. after.sources = tracker.sources \ gone /\ after.size = tracker.size - Cardinality(gone)
  BY DEF RemoveKey
<1>2. tracker.sources \intersect gone = gone
  BY DEF SourcesOf
<1>3. /\ IsFiniteSet(after.sources)
      /\ Cardinality(after.sources) = Cardinality(tracker.sources) - Cardinality(gone)
  <2>1. IsFiniteSet(tracker.sources)
    BY DEF TrackerOK
  <2>2. /\ IsFiniteSet(tracker.sources \ gone)
        /\ Cardinality(tracker.sources \ gone) = Cardinality(tracker.sources) - Cardinality(gone)
    <3> HIDE DEF gone
    <3> QED
      BY <1>2, <2>1, TakePart
  <2> QED
    BY <1>1, <2>2
<1>4. after.size = Cardinality(after.sources) /\ after.size \in Nat
  BY <1>1, <1>3, FS_CardinalityType DEF TrackerOK, TrackerConsistent
<1>5. after \in Tracker
  BY <1>1, <1>4 DEF RemoveKey, Tracker, TrackerOK
<1> QED
  BY <1>1, <1>4, <1>5, ShrinkOK

(***************************************************************************)
(* removeSource discounts one source, and only if it was recorded.         *)
(***************************************************************************)
LEMMA RemoveSourceOK ==
  ASSUME NEW tracker, TrackerOK(tracker), NEW key, NEW source
  PROVE  TrackerOK(RemoveSource(tracker, key, source))
<1>1. CASE ~ IsPending(tracker, key, source)
  BY <1>1 DEF RemoveSource
<1>2. CASE IsPending(tracker, key, source)
  <2> DEFINE after == RemoveSource(tracker, key, source)
  <2>1. after.sources = tracker.sources \ {<<key, source>>} /\ after.size = tracker.size - 1
    BY <1>2 DEF RemoveSource
  <2>2. /\ IsFiniteSet(after.sources)
        /\ Cardinality(after.sources) = Cardinality(tracker.sources) - 1
    <3>1. IsFiniteSet(tracker.sources) /\ <<key, source>> \in tracker.sources
      BY <1>2 DEF TrackerOK, IsPending
    <3>2. /\ IsFiniteSet(tracker.sources \ {<<key, source>>})
          /\ Cardinality(tracker.sources \ {<<key, source>>}) = Cardinality(tracker.sources) - 1
      BY <3>1, TakeOne
    <3> QED
      BY <2>1, <3>2
  <2>3. after.size = Cardinality(after.sources) /\ after.size \in Nat
    BY <2>1, <2>2, FS_CardinalityType DEF TrackerOK, TrackerConsistent
  <2>4. after \in Tracker
    BY <1>2, <2>1, <2>3 DEF RemoveSource, Tracker, TrackerOK
  <2> QED
    BY <2>1, <2>3, <2>4, ShrinkOK
<1> QED
  BY <1>1, <1>2

(***************************************************************************)
(* Dismissing any set of sources discounts exactly those recorded.         *)
(***************************************************************************)
LEMMA ForgetOK ==
  ASSUME NEW tracker, TrackerOK(tracker), NEW gone
  PROVE  TrackerOK(Forget(tracker, gone))
<1> DEFINE after == Forget(tracker, gone)
           found == tracker.sources \intersect gone
<1>1. after.sources = tracker.sources \ found /\ after.size = tracker.size - Cardinality(found)
  BY DEF Forget
<1>2. tracker.sources \intersect found = found
  OBVIOUS
<1>3. /\ IsFiniteSet(after.sources)
      /\ Cardinality(after.sources) = Cardinality(tracker.sources) - Cardinality(found)
  <2>1. IsFiniteSet(tracker.sources)
    BY DEF TrackerOK
  <2>2. /\ IsFiniteSet(tracker.sources \ found)
        /\ Cardinality(tracker.sources \ found) = Cardinality(tracker.sources) - Cardinality(found)
    <3> HIDE DEF found
    <3> QED
      BY <1>2, <2>1, TakePart
  <2> QED
    BY <1>1, <2>2
<1>4. after.size = Cardinality(after.sources) /\ after.size \in Nat
  BY <1>1, <1>3, FS_CardinalityType DEF TrackerOK, TrackerConsistent
<1>5. after \in Tracker
  BY <1>1, <1>4 DEF Forget, Tracker, TrackerOK
<1> QED
  BY <1>1, <1>4, <1>5, ShrinkOK

(***************************************************************************)
(* Dismissing nothing changes nothing.                                     *)
(***************************************************************************)
LEMMA ForgetNothing ==
  ASSUME NEW tracker \in Tracker
  PROVE  Forget(tracker, {}) = tracker
<1>1. tracker.sources \ {} = tracker.sources /\ tracker.sources \intersect {} = {}
  OBVIOUS
<1>2. tracker.size - Cardinality({}) = tracker.size
  BY FS_EmptySet DEF Tracker
<1>3. tracker = [sources |-> tracker.sources, size |-> tracker.size]
  BY DEF Tracker
<1> QED
  BY <1>1, <1>2, <1>3 DEF Forget

=============================================================================
