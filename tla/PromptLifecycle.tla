-------------------------- MODULE PromptLifecycle --------------------------
(***************************************************************************)
(* What the Site Connections prompt pipeline promises, whoever the threads *)
(* and windows are: a blocked request whose key is undecided is recorded,  *)
(* announced once, joins the one prompt of its key, and leaves the pending *)
(* set when the key is decided, the policy is replaced, or its views are   *)
(* gone.  The state is BrowserProfile's policy, the interceptor's session  *)
(* decisions and pending sources, the requestBlocked notifications on      *)
(* their way (retry timers included), and for each key the sources that    *)
(* joined its prompt.                                                      *)
(*                                                                         *)
(* A policy is what ConnectionSettings!Compile answers for each key:       *)
(* before session decisions ("user") and after them ("preset").            *)
(***************************************************************************)
EXTENDS PendingTracker

CONSTANT Policies   \* policies the settings page may save

Decisions == {"allow", "block"}
Evaluations == {"allow", "block", "ask"}
Undecided == "none"

Policy == [enabled: BOOLEAN, user: [Keys -> Evaluations], preset: [Keys -> Evaluations]]

ASSUME PolicyAssumption ==
  /\ Policies \subseteq Policy
  /\ \A p \in Policies : ~ p.enabled => \A k \in Keys : p.user[k] = "allow"

VARIABLES
  policy,    \* m_crossDomainSettings and m_policy
  session,   \* m_sessionDecisions
  pending,   \* m_pendingRequests
  notices,   \* notifications not yet routed, counted by key and source
  prompts,   \* PendingRequest::sources of the prompt of each key, as pairs
  refused    \* history: sources a full prompt did not take

lifecycleVars == <<policy, session, pending, notices, prompts, refused>>

PromptOf(key) == { pair \in prompts : pair[1] = key }

Prompted(key) == PromptOf(key) # {}

(***************************************************************************)
(* The decision in force: user policy, then session, then presets.         *)
(***************************************************************************)
InForceOf(p, s, key) ==
  IF p.user[key] # "ask" THEN p.user[key]
  ELSE IF s[key] # Undecided THEN s[key]
  ELSE p.preset[key]

InForce(key) == InForceOf(policy, session, key)

NoNotices == [key \in Keys |-> [source \in Sources |-> 0]]

LifecycleInit ==
  /\ policy \in Policies
  /\ session = [key \in Keys |-> Undecided]
  /\ pending = EmptyTracker
  /\ notices = NoNotices
  /\ prompts = {}
  /\ refused = {}

----------------------------------------------------------------------------
(***************************************************************************)
(* A request with no decision in force is recorded (or finds itself        *)
(* recorded, or the tracker full) and announced if it was recorded.        *)
(***************************************************************************)
BlockUndecided(key, source) ==
  /\ InForce(key) = "ask"
  /\ MayRecord(pending, key, source)
  /\ pending' = Record(pending, key, source)
  /\ notices' = [notices EXCEPT ![key][source] = @ + 1]
  /\ UNCHANGED <<policy, session, prompts, refused>>

TakeNotice(key, source) ==
  /\ notices[key][source] > 0
  /\ notices' = [notices EXCEPT ![key][source] = @ - 1]

(***************************************************************************)
(* CrossDomainWindowRouter::route for a notice whose source is no longer   *)
(* pending, or whose key was decided meanwhile.                            *)
(***************************************************************************)
DropStaleNotice(key, source) ==
  /\ TakeNotice(key, source)
  /\ IsPending(pending, key, source) =>
       InForceOf(policy, [session EXCEPT ![key] = Undecided], key) # "ask"
  /\ pending' = IF IsPending(pending, key, source) THEN RemoveKey(pending, key) ELSE pending
  /\ UNCHANGED <<policy, session, prompts, refused>>

(***************************************************************************)
(* Handlers end by showing the next prompt of the current view, which      *)
(* dismisses the queued prompts whose view is gone: their sources leave    *)
(* the prompt and the pending set together.  A key may have a second       *)
(* prompt, left behind by a closed tab (PromptRouting!Stranded), that      *)
(* still lists such a source, or is still there when the other is answered *)
(* ("left" in Decide).                                                     *)
(***************************************************************************)
Dismissing(tracker, shown, gone) ==
  /\ gone \subseteq shown
  /\ pending' = Forget(tracker, gone)
  /\ \E again \in SUBSET gone : prompts' = (shown \ gone) \union again

(***************************************************************************)
(* CrossDomainWindowRouter::route for a notice whose source is pending and *)
(* whose key is undecided.  Routed to a window with a matching view, the   *)
(* source joins the prompt of its key (CrossDomainPromptController::       *)
(* request).  A prompt that holds the maximum number of other sources      *)
(* refuses it.  Where a key has a second prompt, one of them may be full   *)
(* and the other not.                                                      *)
(***************************************************************************)
Routed(key, source) ==
  /\ TakeNotice(key, source)
  /\ IsPending(pending, key, source)
  /\ InForceOf(policy, [session EXCEPT ![key] = Undecided], key) = "ask"

IsFull(key, source) ==
  \E others \in SUBSET PromptOf(key) :
    <<key, source>> \notin others /\ Cardinality(others) = MaxSourcesPerRequest

JoinPrompt(key, source, gone) ==
  /\ Routed(key, source)
  /\ Dismissing(pending, prompts \union {<<key, source>>}, gone)
  /\ UNCHANGED <<policy, session, refused>>

RefuseSource(key, source) ==
  /\ Routed(key, source)
  /\ IsFull(key, source)
  /\ refused' = refused \union {<<key, source>>}
  /\ UNCHANGED <<policy, session, pending, prompts>>

\* Mutant of GiveUp: the source nobody shows stays pending.
GiveUpKeeping(key, source) ==
  /\ TakeNotice(key, source)
  /\ IsPending(pending, key, source)
  /\ UNCHANGED <<policy, session, pending, prompts, refused>>

(***************************************************************************)
(* No view shows the source after the last retry: only it is forgotten.    *)
(***************************************************************************)
GiveUp(key, source) ==
  /\ TakeNotice(key, source)
  /\ IsPending(pending, key, source)
  /\ pending' = RemoveSource(pending, key, source)
  /\ UNCHANGED <<policy, session, prompts, refused>>

----------------------------------------------------------------------------
(***************************************************************************)
(* The interceptor's part of an answer (resolveForSession,                 *)
(* setSettingsResolvingPendingRequest): what it leaves pending.  The rule  *)
(* that a lasting answer adds decides that key and no other: see           *)
(* ConnectionSettings!DecisionSettlesOnlyItsKey.                           *)
(***************************************************************************)
ResolveForSession(key, decision) ==
  /\ session' = [session EXCEPT ![key] = decision]
  /\ UNCHANGED policy

ResolvePersistently(key, decision) ==
  /\ policy' = [policy EXCEPT !.user[key] = decision]
  /\ session' = IF policy.enabled THEN session ELSE [k \in Keys |-> Undecided]

\* Mutant of Resolved: an answer for the session keeps the key's sources.
ResolvedKeeping(key, lasting) ==
  IF ~ lasting THEN pending ELSE IF policy.enabled THEN RemoveKey(pending, key) ELSE EmptyTracker

Resolved(key, lasting) ==
  IF lasting /\ ~ policy.enabled THEN EmptyTracker ELSE RemoveKey(pending, key)

(***************************************************************************)
(* CrossDomainPromptController::resolveCurrent, for a prompt that is up.   *)
(***************************************************************************)
Decide(key, lasting, left, gone) ==
  /\ Prompted(key) /\ left \subseteq PromptOf(key)
  /\ \E decision \in Decisions :
       IF lasting THEN ResolvePersistently(key, decision) ELSE ResolveForSession(key, decision)
  /\ Dismissing(Resolved(key, lasting), (prompts \ PromptOf(key)) \union left, gone)
  /\ UNCHANGED <<notices, refused>>

(***************************************************************************)
(* The views behind some prompted sources are gone.  A prompt whose anchor *)
(* went moves to the window of another of its views; where that has a full *)
(* prompt of the same key, some sources are refused after all ("lost").    *)
(***************************************************************************)
DismissSources(gone, lost) ==
  /\ \A pair \in lost : IsFull(pair[1], pair[2])
  /\ gone \union lost \subseteq prompts
  /\ pending' = Forget(pending, gone)
  /\ refused' = refused \union lost
  /\ \E again \in SUBSET (gone \union lost) : prompts' = (prompts \ (gone \union lost)) \union again
  /\ UNCHANGED <<policy, session, notices>>

(***************************************************************************)
(* BrowserProfile::setCrossDomainSettings reaching the interceptor: the    *)
(* policy is swapped, nothing is pending any more, and disabling the       *)
(* protection forgets the session decisions.                               *)
(***************************************************************************)
ApplySettings(updated) ==
  /\ updated \in Policies
  /\ policy' = updated
  /\ pending' = EmptyTracker
  /\ session' = IF updated.enabled THEN session ELSE [key \in Keys |-> Undecided]

SaveSettings ==
  /\ \E updated \in Policies : ApplySettings(updated)
  /\ prompts' = {}
  /\ UNCHANGED <<notices, refused>>

LifecycleNext ==
  \/ \E key \in Keys, source \in Sources :
       \/ BlockUndecided(key, source)
       \/ DropStaleNotice(key, source)
       \/ GiveUp(key, source)
       \/ /\ notices[key][source] > 0
          /\ \/ RefuseSource(key, source)
             \/ \E gone \in SUBSET (prompts \union {<<key, source>>}) : JoinPrompt(key, source, gone)
  \/ \E key \in { pair[1] : pair \in prompts }, lasting \in BOOLEAN :
       \E left \in SUBSET PromptOf(key), gone \in SUBSET prompts : Decide(key, lasting, left, gone)
  \/ \E gone, lost \in SUBSET prompts : DismissSources(gone, lost)
  \/ SaveSettings

LifecycleSpec == LifecycleInit /\ [][LifecycleNext]_lifecycleVars

----------------------------------------------------------------------------
LifecycleTypeOK ==
  /\ policy \in Policy
  /\ session \in [Keys -> Decisions \union {Undecided}]
  /\ pending \in Tracker
  /\ notices \in [Keys -> [Sources -> Nat]]
  /\ prompts \subseteq Keys \X Sources
  /\ refused \subseteq Keys \X Sources

(***************************************************************************)
(* A source is pending only while its key is undecided: no answered key    *)
(* keeps swallowing requests, and no stale notice reopens a prompt.        *)
(***************************************************************************)
PendingIsUndecided ==
  \A pair \in pending.sources : InForce(pair[1]) = "ask"

=============================================================================
