-------------------------- MODULE RequestInterceptor --------------------------
(***************************************************************************)
(* CrossDomainRequestInterceptor::allowRequest, called on any thread, with *)
(* everything the user interface thread does to the same state meanwhile.  *)
(* A call takes m_lock three times at most: to copy the policy, to look at *)
(* the session decisions, and (for writing) to look at the latest policy   *)
(* and record the blocked source.  Between those it holds no lock, so the  *)
(* settings may be replaced and prompts answered under its feet; the       *)
(* notification is emitted after the lock is released.                     *)
(*                                                                         *)
(* The user interface thread's own state (prompts, notifications) is that  *)
(* of PromptLifecycle, whose actions are taken over; saving the settings   *)
(* and dismissing prompts are split where the code releases m_lock.        *)
(***************************************************************************)
EXTENDS PromptLifecycle

CONSTANTS
  Threads,       \* threads that intercept requests
  ProxyBlocked,  \* keys whose target the proxy configuration error blocks
  MaxRequests    \* bound: calls of allowRequest

ASSUME InterceptorAssumption ==
  /\ ProxyBlocked \subseteq Keys
  /\ MaxRequests \in Nat

VARIABLES
  calls,     \* the call each thread is in
  applying,  \* the settings are replaced, the prompts not reset yet
  begun      \* calls begun so far

vars == <<lifecycleVars, calls, applying, begun>>

(***************************************************************************)
(* snapshot is the copied policy; seen is history: the decisions in force  *)
(* for the key at some moment of the call, with "off" for a moment when    *)
(* the protection was disabled and "proxy" when the proxy gate answered.   *)
(***************************************************************************)
Call == [pc: {"session", "record", "notify", "allowed", "blocked"},
         key: Keys, source: Sources, snapshot: Policy,
         seen: SUBSET (Evaluations \union {"off", "proxy"})]

Idle == [pc |-> "idle"]

Now(p, s, key) ==
  {InForceOf(p, s, key)} \union (IF p.enabled THEN {} ELSE {"off"})

\* Every call in progress witnesses the decisions in force after a step.
Witnessed(p, s) ==
  [t \in Threads |->
     IF calls[t].pc = "idle" THEN calls[t]
     ELSE [calls[t] EXCEPT !.seen = @ \union Now(p, s, calls[t].key)]]

Init ==
  /\ LifecycleInit
  /\ calls = [t \in Threads |-> Idle]
  /\ applying = FALSE
  /\ begun = 0

----------------------------------------------------------------------------
(***************************************************************************)
(* allowRequest up to the user policy: the copy is evaluated after the     *)
(* lock is released, which nobody can tell from evaluating it at once.     *)
(***************************************************************************)
AfterUserPolicy(key) ==
  CASE key \in ProxyBlocked        -> "blocked"
    [] key \notin ProxyBlocked /\ policy.user[key] = "allow" -> "allowed"
    [] key \notin ProxyBlocked /\ policy.user[key] = "block" -> "blocked"
    [] key \notin ProxyBlocked /\ policy.user[key] = "ask"   -> "session"

Begin(t, key, source) ==
  /\ calls[t] = Idle /\ begun < MaxRequests
  /\ calls' = [calls EXCEPT ![t] =
       [pc |-> AfterUserPolicy(key), key |-> key, source |-> source, snapshot |-> policy,
        seen |-> Now(policy, session, key)
                   \union (IF key \in ProxyBlocked THEN {"proxy"} ELSE {})]]
  /\ begun' = begun + 1
  /\ UNCHANGED <<lifecycleVars, applying>>

Verdict(decision, otherwise) ==
  CASE decision = "allow" -> "allowed"
    [] decision = "block" -> "blocked"
    [] OTHER              -> otherwise

\* Mutant of Configured: the presets of the copy outrank the session decision.
ConfiguredPresetFirst(call) ==
  IF call.snapshot.preset[call.key] # "ask" \/ session[call.key] = Undecided
  THEN call.snapshot.preset[call.key]
  ELSE session[call.key]

(***************************************************************************)
(* The session decision, read under the lock; without one, the presets of  *)
(* the policy that was copied before.                                      *)
(***************************************************************************)
Configured(call) ==
  IF session[call.key] # Undecided THEN session[call.key]
  ELSE call.snapshot.preset[call.key]

ReadSession(t) ==
  /\ calls[t].pc = "session"
  /\ calls' = [calls EXCEPT ![t].pc = Verdict(Configured(calls[t]), "record")]
  /\ UNCHANGED <<lifecycleVars, applying, begun>>

(***************************************************************************)
(* Under the write lock everything is looked up again in the latest        *)
(* policy; a key still undecided is recorded, and only a source that was   *)
(* not waiting yet is announced.                                           *)
(***************************************************************************)
RecordPending(t) ==
  LET key == calls[t].key
      source == calls[t].source
      fresh == InForce(key) = "ask" /\ MayRecord(pending, key, source)
  IN  /\ calls[t].pc = "record"
      /\ calls' = [calls EXCEPT ![t].pc =
           Verdict(InForce(key), IF fresh THEN "notify" ELSE "blocked")]
      /\ pending' = IF fresh THEN Record(pending, key, source) ELSE pending
      /\ UNCHANGED <<policy, session, notices, prompts, refused, applying, begun>>

Notify(t) ==
  /\ calls[t].pc = "notify"
  /\ calls' = [calls EXCEPT ![t].pc = "blocked"]
  /\ notices' = [notices EXCEPT ![calls[t].key][calls[t].source] = @ + 1]
  /\ UNCHANGED <<policy, session, pending, prompts, refused, applying, begun>>

Return(t) ==
  /\ calls[t].pc \in {"allowed", "blocked"}
  /\ calls' = [calls EXCEPT ![t] = Idle]
  /\ UNCHANGED <<lifecycleVars, applying, begun>>

----------------------------------------------------------------------------
(***************************************************************************)
(* The user interface thread: PromptLifecycle's handlers.  A prompt whose  *)
(* views are gone dismisses its sources one by one, releasing the lock     *)
(* between them.  A key has one prompt here: PromptRouting shows when a    *)
(* second one can be left behind.                                          *)
(***************************************************************************)
HandleNotice(key, source) ==
  /\ ~ applying
  /\ \/ DropStaleNotice(key, source)
     \/ GiveUp(key, source)
     \/ ~ IsFull(key, source) /\ JoinPrompt(key, source, {})
     \/ RefuseSource(key, source)
  /\ UNCHANGED <<calls, applying, begun>>

Answer(key, lasting) ==
  /\ ~ applying
  /\ Decide(key, lasting, {}, {})
  /\ calls' = Witnessed(policy', session')
  /\ UNCHANGED <<applying, begun>>

DismissSource(key, source) ==
  /\ DismissSources({<<key, source>>}, {})
  /\ UNCHANGED <<calls, applying, begun>>

(***************************************************************************)
(* MainWindow::openSettingsPage's apply handler: the policy first, then    *)
(* every window's prompts are reset, source by source (DismissSource).     *)
(***************************************************************************)
ReplaceSettings ==
  /\ ~ applying
  /\ \E updated \in Policies : ApplySettings(updated)
  /\ calls' = Witnessed(policy', session')
  /\ applying' = TRUE
  /\ UNCHANGED <<notices, prompts, refused, begun>>

PromptsReset ==
  /\ applying
  /\ \A key \in Keys : ~ Prompted(key)
  /\ applying' = FALSE
  /\ UNCHANGED <<lifecycleVars, calls, begun>>

Next ==
  \/ \E t \in Threads :
       \/ \E key \in Keys, source \in Sources : Begin(t, key, source)
       \/ ReadSession(t)
       \/ RecordPending(t)
       \/ Notify(t)
       \/ Return(t)
  \/ \E key \in Keys :
       \/ \E source \in Sources : HandleNotice(key, source) \/ DismissSource(key, source)
       \/ \E lasting \in BOOLEAN : Answer(key, lasting)
  \/ ReplaceSettings
  \/ PromptsReset

Spec == Init /\ [][Next]_vars

----------------------------------------------------------------------------
TypeOK ==
  /\ LifecycleTypeOK
  /\ calls \in [Threads -> Call \union {Idle}]
  /\ applying \in BOOLEAN
  /\ begun \in 0 .. MaxRequests

(***************************************************************************)
(* The hand-kept count is right and the bounds hold whatever threads       *)
(* record while the user interface removes (m_size).                       *)
(***************************************************************************)
PendingCounted == TrackerConsistent(pending)

(***************************************************************************)
(* A prompt never asks about a key that is already decided, except between *)
(* the two halves of saving the settings.                                  *)
(***************************************************************************)
PromptIsUndecided ==
  ~ applying => \A key \in Keys : Prompted(key) => InForce(key) = "ask"

(***************************************************************************)
(* No blocked source waits in silence, which would also mute every later   *)
(* request of that page to that host: while it is pending it is about to   *)
(* be announced, its notification is on its way, or it is in a prompt --   *)
(* or a full prompt refused it.                                            *)
(***************************************************************************)
Announced(key, source) ==
  \/ \E t \in Threads : calls[t] # Idle /\ calls[t].pc = "notify"
                          /\ calls[t].key = key /\ calls[t].source = source
  \/ notices[key][source] > 0
  \/ <<key, source>> \in prompts
  \/ <<key, source>> \in refused

PendingIsAnnounced ==
  \A pair \in pending.sources : Announced(pair[1], pair[2])

(***************************************************************************)
(* However the three looks at the state interleave with answers and saved  *)
(* settings, a request is let through only if its key was allowed at some  *)
(* moment of the call, and blocked only if it was blocked or undecided at  *)
(* one.  The exception is a call that overlaps disabling the protection:   *)
(* it may pair the presets it copied before with the session decisions     *)
(* cleared after, and block what was allowed throughout.                   *)
(***************************************************************************)
VerdictInForce ==
  \A t \in Threads :
    /\ calls[t].pc = "allowed" => "allow" \in calls[t].seen
    /\ calls[t].pc = "blocked" =>
         calls[t].seen \intersect {"block", "ask", "off", "proxy"} # {}

=============================================================================
