-------------------------- MODULE PendingTracker --------------------------
(***************************************************************************)
(* CrossDomainPendingRequestTracker (src/src/CrossDomainRequestInterceptor *)
(* .cpp and .h): the bounded set of blocked request sources whose question *)
(* has not been answered.  m_sourcesByRequest maps a request key to a set  *)
(* of source fingerprints and never holds an empty set, so it is the       *)
(* relation "sources"; m_size is kept beside it by hand.                   *)
(*                                                                         *)
(* A source stands for its fingerprint: SHA-256 of a page URL, or of an    *)
(* origin with the origin-only mark.                                       *)
(***************************************************************************)
EXTENDS Naturals, FiniteSets

CONSTANTS
  Keys,                  \* request keys: source site and target host
  Sources,               \* source fingerprints
  MaxSourcesPerRequest,  \* maximumSourcesPerRequest (16)
  MaxPendingSources      \* maximumPendingSources (128)

ASSUME TrackerAssumption ==
  /\ MaxSourcesPerRequest \in Nat \ {0}
  /\ MaxPendingSources \in Nat \ {0}

Tracker == [sources: SUBSET (Keys \X Sources), size: Nat]

EmptyTracker == [sources |-> {}, size |-> 0]

SourcesOf(tracker, key) == { pair \in tracker.sources : pair[1] = key }

IsPending(tracker, key, source) == <<key, source>> \in tracker.sources

\* Mutant of MayRecord: the bound of one key is not checked.
MayRecordUnbounded(tracker, key, source) ==
  /\ tracker.size < MaxPendingSources
  /\ ~ IsPending(tracker, key, source)

(***************************************************************************)
(* record returns false, and records nothing, at either bound and for a    *)
(* source already waiting.                                                 *)
(***************************************************************************)
MayRecord(tracker, key, source) ==
  /\ tracker.size < MaxPendingSources
  /\ Cardinality(SourcesOf(tracker, key)) < MaxSourcesPerRequest
  /\ ~ IsPending(tracker, key, source)

Record(tracker, key, source) ==
  [sources |-> tracker.sources \union {<<key, source>>}, size |-> tracker.size + 1]

RemoveSource(tracker, key, source) ==
  IF IsPending(tracker, key, source)
  THEN [sources |-> tracker.sources \ {<<key, source>>}, size |-> tracker.size - 1]
  ELSE tracker

\* Mutant of Forget: sources are discounted without looking them up.
ForgetUnchecked(tracker, gone) ==
  [sources |-> tracker.sources \ gone, size |-> tracker.size - Cardinality(gone)]

(***************************************************************************)
(* removeSource for every member of a set of key and source pairs.         *)
(***************************************************************************)
Forget(tracker, gone) ==
  [sources |-> tracker.sources \ gone,
   size |-> tracker.size - Cardinality(tracker.sources \intersect gone)]

RemoveKey(tracker, key) ==
  [sources |-> tracker.sources \ SourcesOf(tracker, key),
   size |-> tracker.size - Cardinality(SourcesOf(tracker, key))]

(***************************************************************************)
(* m_size is the number of recorded sources, within both bounds: a count   *)
(* that drifts upwards would one day stop every prompt of the process.     *)
(***************************************************************************)
TrackerConsistent(tracker) ==
  /\ tracker.size = Cardinality(tracker.sources)
  /\ tracker.size <= MaxPendingSources
  /\ \A key \in Keys : Cardinality(SourcesOf(tracker, key)) <= MaxSourcesPerRequest

=============================================================================
