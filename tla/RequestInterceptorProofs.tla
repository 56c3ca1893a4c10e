---------------------- MODULE RequestInterceptorProofs ----------------------
(***************************************************************************)
(* The invariants of RequestInterceptor for any number of threads, keys,   *)
(* sources, policies and requests.                                         *)
(***************************************************************************)
EXTENDS RequestInterceptor, PendingTrackerProofs

Seen == Evaluations \union {"off", "proxy"}

Refusals == {"block", "ask", "off", "proxy"}

(***************************************************************************)
(* A disabled policy, however it was reached, allows every key.            *)
(***************************************************************************)
DisabledAllows == ~ policy.enabled => \A key \in Keys : policy.user[key] = "allow"

(***************************************************************************)
(* What a call knows at each of its steps.  The decision in force now has  *)
(* been seen; so has the session decision it is about to read or, without  *)
(* one, the preset it copied -- unless the protection was off meanwhile.   *)
(***************************************************************************)
CallWitnessed(call) ==
  /\ InForce(call.key) \in call.seen
  /\ call.pc = "session" /\ session[call.key] # Undecided => session[call.key] \in call.seen
  /\ call.pc = "session" /\ session[call.key] = Undecided =>
       call.snapshot.preset[call.key] \in call.seen \/ {"allow", "off"} \subseteq call.seen
  /\ call.pc \in {"notify", "blocked"} => call.seen \intersect Refusals # {}
  /\ call.pc = "allowed" => "allow" \in call.seen

CallsWitnessed == \A t \in Threads : calls[t] # Idle => CallWitnessed(calls[t])

IInv ==
  /\ TypeOK
  /\ TrackerOK(pending)
  /\ DisabledAllows
  /\ PendingIsUndecided
  /\ PromptIsUndecided
  /\ PendingIsAnnounced
  /\ CallsWitnessed

----------------------------------------------------------------------------
(***************************************************************************)
(* The evaluation order yields one of the three evaluations.               *)
(***************************************************************************)
LEMMA InForceType ==
  ASSUME NEW p \in Policy, NEW s \in [Keys -> Decisions \union {Undecided}], NEW key \in Keys
  PROVE  InForceOf(p, s, key) \in Evaluations /\ Now(p, s, key) \in SUBSET Seen
<1>1. InForceOf(p, s, key) \in Evaluations
  BY DEF InForceOf, Policy, Decisions, Evaluations, Undecided
<1> QED
  BY <1>1 DEF Now, Seen

(***************************************************************************)
(* A call keeps its step and copy while others change the decisions, and   *)
(* sees the decision they leave in force.                                  *)
(***************************************************************************)
LEMMA WitnessedCalls ==
  ASSUME TypeOK, NEW p \in Policy, NEW s \in [Keys -> Decisions \union {Undecided}],
         NEW t \in Threads
  PROVE  /\ Witnessed(p, s) \in [Threads -> Call \union {Idle}]
         /\ Witnessed(p, s)[t] = Idle <=> calls[t] = Idle
         /\ calls[t] # Idle =>
              /\ calls[t] \in Call
              /\ Witnessed(p, s)[t] =
                   [calls[t] EXCEPT !.seen = @ \union Now(p, s, calls[t].key)]
<1>1. ASSUME NEW u \in Threads, calls[u] # Idle
      PROVE  /\ calls[u] \in Call /\ calls[u].pc # "idle"
             /\ [calls[u] EXCEPT !.seen = @ \union Now(p, s, calls[u].key)] \in Call
  <2>1. calls[u] \in Call
    BY <1>1 DEF TypeOK
  <2>2. calls[u].key \in Keys /\ calls[u].pc # "idle"
    BY <2>1 DEF Call
  <2>3. Now(p, s, calls[u].key) \in SUBSET Seen
    BY <2>2, InForceType
  <2> QED
    BY <2>1, <2>2, <2>3 DEF Call, Seen
<1>2. ASSUME NEW u \in Threads
      PROVE  calls[u] = Idle <=> calls[u].pc = "idle"
  <2>1. Idle.pc = "idle"
    BY DEF Idle
  <2> QED
    BY <1>1, <2>1
<1>3. ASSUME NEW u \in Threads
      PROVE  /\ Witnessed(p, s)[u] \in Call \union {Idle}
             /\ Witnessed(p, s)[u] = Idle <=> calls[u] = Idle
  BY <1>1, <1>2 DEF Witnessed, Idle, Call
<1> QED
  BY <1>1, <1>2, <1>3 DEF Witnessed

(***************************************************************************)
(* The call of an interceptor step, and the other threads' calls.          *)
(***************************************************************************)
LEMMA CallType ==
  ASSUME TypeOK, NEW t \in Threads, calls[t] # Idle
  PROVE  /\ calls[t] \in Call
         /\ calls[t].key \in Keys /\ calls[t].source \in Sources
         /\ calls[t].snapshot \in Policy /\ calls[t].seen \subseteq Seen
BY DEF TypeOK, Call, Seen

(***************************************************************************)
(* The decision in force is typed, whatever the state.                     *)
(***************************************************************************)
LEMMA InForceNow ==
  ASSUME TypeOK, NEW key \in Keys
  PROVE  InForce(key) \in Evaluations /\ Now(policy, session, key) \in SUBSET Seen
BY InForceType DEF TypeOK, LifecycleTypeOK, InForce

(***************************************************************************)
(* The state a program starts in satisfies the invariant.                  *)
(***************************************************************************)
LEMMA InitIInv == Init => IInv
<1> SUFFICES ASSUME Init PROVE IInv
  OBVIOUS
<1> USE DEF Init, LifecycleInit
<1>1. TypeOK
  <2>1. LifecycleTypeOK
    <3>1. policy \in Policy
      BY PolicyAssumption
    <3>2. session \in [Keys -> Decisions \union {Undecided}] /\ pending \in Tracker
      BY EmptyTrackerOK DEF TrackerOK
    <3>3. notices \in [Keys -> [Sources -> Nat]]
      BY DEF NoNotices
    <3> QED
      BY <3>1, <3>2, <3>3 DEF LifecycleTypeOK
  <2>2. calls \in [Threads -> Call \union {Idle}] /\ applying \in BOOLEAN
    OBVIOUS
  <2>3. begun \in 0 .. MaxRequests
    BY InterceptorAssumption
  <2> QED
    BY <2>1, <2>2, <2>3 DEF TypeOK
<1>2. TrackerOK(pending)
  BY EmptyTrackerOK
<1>3. DisabledAllows
  BY PolicyAssumption DEF DisabledAllows
<1>4. PendingIsUndecided /\ PendingIsAnnounced
  BY DEF PendingIsUndecided, PendingIsAnnounced, EmptyTracker
<1>5. PromptIsUndecided
  BY DEF PromptIsUndecided, Prompted, PromptOf
<1>6. CallsWitnessed
  BY DEF CallsWitnessed
<1> QED
  BY <1>1, <1>2, <1>3, <1>4, <1>5, <1>6 DEF IInv

----------------------------------------------------------------------------
(***************************************************************************)
(* Steps of the intercepting threads.                                      *)
(***************************************************************************)
LEMMA BeginKeeps ==
  ASSUME IInv, NEW t \in Threads, NEW key \in Keys, NEW source \in Sources,
         Begin(t, key, source)
  PROVE  IInv'
<1> DEFINE call == [pc |-> AfterUserPolicy(key), key |-> key, source |-> source,
                    snapshot |-> policy,
                    seen |-> Now(policy, session, key)
                               \union (IF key \in ProxyBlocked THEN {"proxy"} ELSE {})]
<1> USE DEF IInv
<1>1. calls' = [calls EXCEPT ![t] = call] /\ UNCHANGED <<lifecycleVars, applying>>
  BY DEF Begin
<1>2. policy.user[key] \in Evaluations
  BY DEF TypeOK, LifecycleTypeOK, Policy
<1>3. call \in Call
  <2>1. AfterUserPolicy(key) \in {"allowed", "blocked", "session"}
    BY <1>2 DEF AfterUserPolicy, Evaluations
  <2>2. call.seen \subseteq Seen
    BY InForceNow DEF Seen
  <2> QED
    BY <2>1, <2>2 DEF Call, Seen, TypeOK, LifecycleTypeOK
<1>4. TypeOK'
  BY <1>1, <1>3, InterceptorAssumption DEF TypeOK, LifecycleTypeOK, lifecycleVars, Begin
<1>5. (TrackerOK(pending) /\ DisabledAllows /\ PendingIsUndecided /\ PromptIsUndecided)'
  BY <1>1 DEF lifecycleVars, TrackerOK, TrackerConsistent, SourcesOf, DisabledAllows,
              PendingIsUndecided, InForce, PromptIsUndecided, Prompted, PromptOf
<1>6. PendingIsAnnounced'
  BY <1>1 DEF lifecycleVars, PendingIsAnnounced, Announced, TypeOK, Begin
<1>7. CallWitnessed(call)
  <2>1. InForce(key) \in call.seen
    BY DEF Now, InForce
  <2>2. CASE key \in ProxyBlocked
    BY <2>1, <2>2 DEF CallWitnessed, AfterUserPolicy, Refusals
  <2>3. CASE key \notin ProxyBlocked /\ policy.user[key] = "allow"
    BY <2>1, <2>3 DEF CallWitnessed, AfterUserPolicy, InForce, InForceOf
  <2>4. CASE key \notin ProxyBlocked /\ policy.user[key] = "block"
    BY <2>1, <2>4 DEF CallWitnessed, AfterUserPolicy, InForce, InForceOf, Refusals
  <2>5. CASE key \notin ProxyBlocked /\ policy.user[key] = "ask"
    BY <2>1, <2>5 DEF CallWitnessed, AfterUserPolicy, InForce, InForceOf
  <2> QED
    BY <1>2, <2>2, <2>3, <2>4, <2>5 DEF Evaluations
<1>8. CallsWitnessed'
  BY <1>1, <1>7 DEF CallsWitnessed, CallWitnessed, InForce, lifecycleVars, TypeOK
<1> QED
  BY <1>4, <1>5, <1>6, <1>8

LEMMA ReadSessionKeeps ==
  ASSUME IInv, NEW t \in Threads, ReadSession(t)
  PROVE  IInv'
<1> DEFINE call == calls[t]
           next == Verdict(Configured(call), "record")
<1> USE DEF IInv
<1>1. /\ calls' = [calls EXCEPT ![t] = [call EXCEPT !.pc = next]]
      /\ UNCHANGED <<lifecycleVars, applying, begun>>
  BY DEF ReadSession, TypeOK
<1>2. call # Idle /\ call.pc = "session"
  BY DEF ReadSession, Idle
<1>3. call \in Call /\ call.key \in Keys /\ call.snapshot \in Policy
  BY <1>2, CallType
<1>4. Configured(call) \in Evaluations
  BY <1>3 DEF Configured, TypeOK, LifecycleTypeOK, Policy, Decisions, Evaluations, Undecided
<1>5. [call EXCEPT !.pc = next] \in Call
  BY <1>3, <1>4 DEF Call, Verdict
<1>6. TypeOK'
  BY <1>1, <1>5 DEF TypeOK, LifecycleTypeOK, lifecycleVars
<1>7. (TrackerOK(pending) /\ DisabledAllows /\ PendingIsUndecided /\ PromptIsUndecided)'
  BY <1>1 DEF lifecycleVars, TrackerOK, TrackerConsistent, SourcesOf, DisabledAllows,
              PendingIsUndecided, InForce, PromptIsUndecided, Prompted, PromptOf
<1>8. PendingIsAnnounced'
  BY <1>1, <1>2 DEF lifecycleVars, PendingIsAnnounced, Announced, TypeOK
<1>9. CallWitnessed([call EXCEPT !.pc = next])
  <2>1. CallWitnessed(call)
    BY <1>2 DEF CallsWitnessed
  <2>2. Configured(call) \in call.seen \/ {"allow", "off"} \subseteq call.seen
    BY <1>2, <2>1 DEF CallWitnessed, Configured
  <2>3. /\ next \notin {"session", "notify"}
        /\ next = "allowed" => Configured(call) = "allow"
        /\ next = "blocked" => Configured(call) = "block"
    BY <1>4 DEF Verdict
  <2> QED
    BY <1>3, <2>1, <2>2, <2>3 DEF CallWitnessed, Call, Refusals
<1>10. CallsWitnessed'
  BY <1>1, <1>9 DEF CallsWitnessed, CallWitnessed, InForce, lifecycleVars, TypeOK
<1> QED
  BY <1>6, <1>7, <1>8, <1>10

LEMMA RecordPendingKeeps ==
  ASSUME IInv, NEW t \in Threads, RecordPending(t)
  PROVE  IInv'
<1> DEFINE call == calls[t]
           key == call.key
           source == call.source
           fresh == InForce(key) = "ask" /\ MayRecord(pending, key, source)
           next == Verdict(InForce(key), IF fresh THEN "notify" ELSE "blocked")
<1> USE DEF IInv
<1>1. /\ calls' = [calls EXCEPT ![t] = [call EXCEPT !.pc = next]]
      /\ pending' = IF fresh THEN Record(pending, key, source) ELSE pending
      /\ UNCHANGED <<policy, session, notices, prompts, refused, applying, begun>>
  BY DEF RecordPending, TypeOK
<1>2. call # Idle /\ call.pc = "record"
  BY DEF RecordPending, Idle
<1>3. call \in Call /\ key \in Keys /\ source \in Sources
  BY <1>2, CallType
<1>4. InForce(key) \in Evaluations
  BY <1>3, InForceNow
<1>5. /\ next \in {"allowed", "blocked", "notify"}
      /\ next = "allowed" => InForce(key) = "allow"
      /\ next # "allowed" => InForce(key) \in {"block", "ask"}
      /\ next = "notify" <=> fresh
  BY <1>4 DEF Verdict, Evaluations
<1>6. TrackerOK(pending)'
  <2>1. TrackerOK(pending')
    BY <1>1, <1>3, RecordOK
  <2> QED
    BY <2>1 DEF TrackerOK, TrackerConsistent, SourcesOf
<1>7. TypeOK'
  <2>1. [call EXCEPT !.pc = next] \in Call
    BY <1>3, <1>5 DEF Call
  <2> QED
    BY <1>1, <1>6, <2>1 DEF TypeOK, LifecycleTypeOK, TrackerOK
<1>8. (DisabledAllows /\ PromptIsUndecided)'
  BY <1>1 DEF DisabledAllows, PromptIsUndecided, Prompted, PromptOf, InForce
<1>9. pending'.sources = IF fresh THEN pending.sources \union {<<key, source>>}
                                  ELSE pending.sources
  BY <1>1 DEF Record
<1>10. PendingIsUndecided'
  BY <1>1, <1>9 DEF PendingIsUndecided, InForce
<1>11. PendingIsAnnounced'
  <2>1. [call EXCEPT !.pc = next] # Idle
    BY <1>3, <1>5 DEF Call, Idle
  <2>2. ASSUME fresh PROVE Announced(key, source)'
    BY <1>1, <1>3, <1>5, <2>1, <2>2 DEF Announced, TypeOK, Call
  <2>3. ASSUME NEW k, NEW s, Announced(k, s) PROVE Announced(k, s)'
    BY <1>1, <1>2, <2>3 DEF Announced, TypeOK
  <2>4. ASSUME NEW pair \in pending'.sources PROVE Announced(pair[1], pair[2])'
    <3>1. CASE pair \in pending.sources
      BY <2>3, <3>1 DEF PendingIsAnnounced
    <3>2. CASE fresh /\ pair = <<key, source>>
      <4>1. pair[1] = key' /\ pair[2] = source'
        BY <1>1, <1>3, <3>2 DEF Call, TypeOK
      <4> QED
        BY <2>2, <3>2, <4>1
    <3> QED
      BY <1>9, <3>1, <3>2
  <2> QED
    BY <2>4 DEF PendingIsAnnounced
<1>12. CallsWitnessed'
  <2>1. CallWitnessed(call)
    BY <1>2 DEF CallsWitnessed
  <2>2. CallWitnessed([call EXCEPT !.pc = next])
    BY <1>3, <1>5, <2>1 DEF CallWitnessed, Call, Refusals
  <2> QED
    BY <1>1, <2>2 DEF CallsWitnessed, CallWitnessed, InForce, TypeOK
<1> QED
  BY <1>6, <1>7, <1>8, <1>10, <1>11, <1>12

LEMMA NotifyKeeps ==
  ASSUME IInv, NEW t \in Threads, Notify(t)
  PROVE  IInv'
<1> DEFINE call == calls[t]
<1> USE DEF IInv
<1>1. /\ calls' = [calls EXCEPT ![t] = [call EXCEPT !.pc = "blocked"]]
      /\ notices' = [notices EXCEPT ![call.key][call.source] = @ + 1]
      /\ UNCHANGED <<policy, session, pending, prompts, refused, applying, begun>>
  BY DEF Notify, TypeOK
<1>2. call # Idle /\ call.pc = "notify"
  BY DEF Notify, Idle
<1>3. call \in Call /\ call.key \in Keys /\ call.source \in Sources
  BY <1>2, CallType
<1>4. TypeOK'
  <2>1. [call EXCEPT !.pc = "blocked"] \in Call
    BY <1>3 DEF Call
  <2> QED
    BY <1>1, <1>3, <2>1 DEF TypeOK, LifecycleTypeOK
<1>5. (TrackerOK(pending) /\ DisabledAllows /\ PendingIsUndecided /\ PromptIsUndecided)'
  BY <1>1 DEF TrackerOK, TrackerConsistent, SourcesOf, DisabledAllows,
              PendingIsUndecided, InForce, PromptIsUndecided, Prompted, PromptOf
<1>6. PendingIsAnnounced'
  <2>1. ASSUME NEW k \in Keys, NEW s \in Sources, Announced(k, s)
        PROVE  Announced(k, s)'
    <3>1. CASE k = call.key /\ s = call.source
      <4>1. notices'[k][s] > 0
        BY <1>1, <1>3, <3>1 DEF TypeOK, LifecycleTypeOK
      <4> QED
        BY <4>1 DEF Announced
    <3>2. CASE ~ (k = call.key /\ s = call.source)
      <4>1. notices'[k][s] = notices[k][s]
        BY <1>1, <1>3, <3>2 DEF TypeOK, LifecycleTypeOK
      <4> QED
        BY <1>1, <2>1, <3>2, <4>1 DEF Announced, TypeOK
    <3> QED
      BY <3>1, <3>2
  <2> QED
    BY <1>1, <2>1 DEF PendingIsAnnounced, TypeOK, LifecycleTypeOK, Tracker
<1>7. CallsWitnessed'
  <2>1. CallWitnessed([call EXCEPT !.pc = "blocked"])
    BY <1>2, <1>3 DEF CallsWitnessed, CallWitnessed, Call
  <2> QED
    BY <1>1, <2>1 DEF CallsWitnessed, CallWitnessed, InForce, TypeOK
<1> QED
  BY <1>4, <1>5, <1>6, <1>7

LEMMA ReturnKeeps ==
  ASSUME IInv, NEW t \in Threads, Return(t)
  PROVE  IInv'
<1> USE DEF IInv
<1>1. calls' = [calls EXCEPT ![t] = Idle] /\ UNCHANGED <<lifecycleVars, applying, begun>>
  BY DEF Return
<1>2. TypeOK'
  BY <1>1 DEF TypeOK, LifecycleTypeOK, lifecycleVars
<1>3. (TrackerOK(pending) /\ DisabledAllows /\ PendingIsUndecided /\ PromptIsUndecided)'
  BY <1>1 DEF lifecycleVars, TrackerOK, TrackerConsistent, SourcesOf, DisabledAllows,
              PendingIsUndecided, InForce, PromptIsUndecided, Prompted, PromptOf
<1>4. PendingIsAnnounced'
  BY <1>1 DEF lifecycleVars, PendingIsAnnounced, Announced, TypeOK, Return
<1>5. CallsWitnessed'
  BY <1>1 DEF CallsWitnessed, CallWitnessed, InForce, lifecycleVars, TypeOK
<1> QED
  BY <1>2, <1>3, <1>4, <1>5

----------------------------------------------------------------------------
(***************************************************************************)
(* Steps of the user interface thread.                                     *)
(***************************************************************************)
LEMMA HandleNoticeKeeps ==
  ASSUME IInv, NEW key \in Keys, NEW source \in Sources, HandleNotice(key, source)
  PROVE  IInv'
<1> USE DEF IInv
<1>1. /\ ~ applying /\ TakeNotice(key, source)
      /\ UNCHANGED <<policy, session, calls, applying, begun>>
  BY DEF HandleNotice, DropStaleNotice, JoinPrompt, RefuseSource, Routed, GiveUp
<1>2. \/ UNCHANGED <<pending, prompts, refused>> /\ ~ IsPending(pending, key, source)
      \/ pending' = RemoveKey(pending, key) /\ UNCHANGED <<prompts, refused>>
      \/ pending' = RemoveSource(pending, key, source) /\ UNCHANGED <<prompts, refused>>
      \/ /\ pending' = pending /\ IsPending(pending, key, source)
         /\ \/ prompts' = prompts \union {<<key, source>>} /\ refused' = refused
            \/ prompts' = prompts /\ refused' = refused \union {<<key, source>>}
  <2>1. ASSUME JoinPrompt(key, source, {})
        PROVE  /\ pending' = pending /\ IsPending(pending, key, source)
               /\ prompts' = prompts \union {<<key, source>>} /\ refused' = refused
    BY <2>1, ForgetNothing DEF JoinPrompt, Routed, Dismissing, TypeOK, LifecycleTypeOK
  <2>2. ASSUME RefuseSource(key, source)
        PROVE  /\ pending' = pending /\ IsPending(pending, key, source)
               /\ prompts' = prompts /\ refused' = refused \union {<<key, source>>}
    BY <2>2 DEF RefuseSource, Routed
  <2> QED
    BY <2>1, <2>2 DEF HandleNotice, DropStaleNotice, GiveUp
<1>3. TrackerOK(pending)'
  <2>1. TrackerOK(pending')
    BY <1>2, RemoveOK, RemoveSourceOK
  <2> QED
    BY <2>1 DEF TrackerOK, TrackerConsistent, SourcesOf
<1>4. TypeOK'
  <2>1. notices' \in [Keys -> [Sources -> Nat]]
    BY <1>1 DEF TakeNotice, TypeOK, LifecycleTypeOK
  <2>2. prompts' \subseteq Keys \X Sources /\ refused' \subseteq Keys \X Sources
    BY <1>2 DEF TypeOK, LifecycleTypeOK
  <2> QED
    BY <1>1, <1>3, <2>1, <2>2 DEF TypeOK, LifecycleTypeOK, TrackerOK
<1>5. DisabledAllows'
  BY <1>1 DEF DisabledAllows
<1>6. pending'.sources \subseteq pending.sources
  BY <1>2 DEF RemoveKey, RemoveSource
<1>7. PendingIsUndecided'
  BY <1>1, <1>6 DEF PendingIsUndecided, InForce
<1>8. PromptIsUndecided'
  <2>1. ASSUME NEW k \in Keys, Prompted(k)' PROVE InForce(k) = "ask"
    <3>1. CASE Prompted(k)
      BY <1>1, <3>1 DEF PromptIsUndecided
    <3>2. CASE ~ Prompted(k)
      <4>1. k = key /\ IsPending(pending, key, source)
        BY <1>2, <2>1, <3>2 DEF Prompted, PromptOf
      <4> QED
        BY <4>1 DEF PendingIsUndecided, IsPending
    <3> QED
      BY <3>1, <3>2
  <2> QED
    BY <1>1, <2>1 DEF PromptIsUndecided, InForce
<1>9. PendingIsAnnounced'
  <2>1. ASSUME NEW k \in Keys, NEW s \in Sources,
               <<k, s>> \in pending'.sources, Announced(k, s)
        PROVE  Announced(k, s)'
    <3>1. CASE k = key /\ s = source
      <4>1. <<key, source>> \in prompts' \/ <<key, source>> \in refused'
        BY <1>2, <2>1, <3>1 DEF RemoveKey, RemoveSource, SourcesOf, IsPending
      <4> QED
        BY <3>1, <4>1 DEF Announced
    <3>2. CASE ~ (k = key /\ s = source)
      <4>1. notices'[k][s] = notices[k][s]
        BY <1>1, <3>2 DEF TakeNotice, TypeOK, LifecycleTypeOK
      <4>2. prompts \subseteq prompts' /\ refused \subseteq refused'
        BY <1>2
      <4> QED
        BY <1>1, <2>1, <4>1, <4>2 DEF Announced
    <3> QED
      BY <3>1, <3>2
  <2> QED
    BY <1>4, <1>6, <2>1 DEF PendingIsAnnounced, TypeOK, LifecycleTypeOK, Tracker
<1>10. CallsWitnessed'
  BY <1>1 DEF CallsWitnessed, CallWitnessed, InForce
<1> QED
  BY <1>3, <1>4, <1>5, <1>7, <1>8, <1>9, <1>10

LEMMA DismissSourceKeeps ==
  ASSUME IInv, NEW key \in Keys, NEW source \in Sources, DismissSource(key, source)
  PROVE  IInv'
<1> USE DEF IInv
<1>1. /\ pending' = Forget(pending, {<<key, source>>})
      /\ prompts \ {<<key, source>>} \subseteq prompts'
      /\ prompts' \subseteq prompts
      /\ UNCHANGED <<policy, session, notices, refused, calls, applying, begun>>
  BY DEF DismissSource, DismissSources
<1>3. TrackerOK(pending)'
  <2>1. TrackerOK(pending')
    BY <1>1, ForgetOK
  <2> QED
    BY <2>1 DEF TrackerOK, TrackerConsistent, SourcesOf
<1>4. TypeOK'
  <2>1. prompts' \subseteq Keys \X Sources
    BY <1>1 DEF TypeOK, LifecycleTypeOK
  <2> QED
    BY <1>1, <1>3, <2>1 DEF TypeOK, LifecycleTypeOK, TrackerOK
<1>5. DisabledAllows' /\ CallsWitnessed'
  BY <1>1 DEF DisabledAllows, CallsWitnessed, CallWitnessed, InForce
<1>6. pending'.sources = pending.sources \ {<<key, source>>}
  BY <1>1 DEF Forget
<1>7. PendingIsUndecided'
  BY <1>1, <1>6 DEF PendingIsUndecided, InForce
<1>8. PromptIsUndecided'
  BY <1>1 DEF PromptIsUndecided, Prompted, PromptOf, InForce, TypeOK, LifecycleTypeOK
<1>9. PendingIsAnnounced'
  <2>1. ASSUME NEW k \in Keys, NEW s \in Sources,
               <<k, s>> # <<key, source>>, Announced(k, s)
        PROVE  Announced(k, s)'
    BY <1>1, <2>1 DEF Announced, TypeOK, LifecycleTypeOK
  <2> QED
    BY <1>6, <2>1 DEF PendingIsAnnounced, TypeOK, LifecycleTypeOK, Tracker
<1> QED
  BY <1>3, <1>4, <1>5, <1>7, <1>8, <1>9

LEMMA AnswerKeeps ==
  ASSUME IInv, NEW key \in Keys, NEW lasting \in BOOLEAN, Answer(key, lasting)
  PROVE  IInv'
<1> USE DEF IInv
<1>1. /\ ~ applying /\ Prompted(key)
      /\ prompts' = prompts \ PromptOf(key)
      /\ pending' = Forget(Resolved(key, lasting), {})
      /\ calls' = Witnessed(policy', session')
      /\ UNCHANGED <<notices, refused, applying, begun>>
  <2>1. /\ (prompts \ PromptOf(key)) \union {} = prompts \ PromptOf(key)
        /\ \A again \in SUBSET {} :
             ((prompts \ PromptOf(key)) \ {}) \union again = prompts \ PromptOf(key)
    OBVIOUS
  <2> QED
    BY <2>1 DEF Answer, Decide, Dismissing
<1>2. InForce(key) = "ask" /\ policy.user[key] = "ask" /\ policy.enabled
  BY <1>1 DEF PromptIsUndecided, InForce, InForceOf, DisabledAllows, TypeOK, LifecycleTypeOK, Policy
<1>3. PICK decision \in Decisions :
        IF lasting THEN ResolvePersistently(key, decision) ELSE ResolveForSession(key, decision)
  BY DEF Answer, Decide
<1>4. /\ pending' = RemoveKey(pending, key)
      /\ \/ policy' = policy /\ session' = [session EXCEPT ![key] = decision]
         \/ policy' = [policy EXCEPT !.user[key] = decision] /\ session' = session
  <2>1. Resolved(key, lasting) = RemoveKey(pending, key)
    BY <1>2 DEF Resolved
  <2>2. RemoveKey(pending, key) \in Tracker
    BY RemoveOK DEF TrackerOK
  <2>3. pending' = RemoveKey(pending, key)
    BY <1>1, <2>1, <2>2, ForgetNothing
  <2> QED
    BY <1>2, <1>3, <2>3 DEF ResolveForSession, ResolvePersistently
<1>5. policy' \in Policy /\ session' \in [Keys -> Decisions \union {Undecided}]
  <2>1. policy \in Policy /\ session \in [Keys -> Decisions \union {Undecided}]
    BY DEF TypeOK, LifecycleTypeOK
  <2>2. [policy EXCEPT !.user[key] = decision] \in Policy
    BY <2>1 DEF Policy, Decisions, Evaluations
  <2> QED
    BY <1>4, <2>1, <2>2
<1>6. /\ policy'.enabled = policy.enabled
      /\ policy'.preset = policy.preset
      /\ \A k \in Keys : k # key => policy'.user[k] = policy.user[k] /\ session'[k] = session[k]
  BY <1>4 DEF TypeOK, LifecycleTypeOK, Policy
<1>7. ASSUME NEW k \in Keys, k # key PROVE InForce(k)' = InForce(k)
  BY <1>6, <1>7 DEF InForce, InForceOf
<1>8. InForceOf(policy', session', key) = decision
  BY <1>2, <1>4 DEF InForceOf, Decisions, Undecided, TypeOK, LifecycleTypeOK, Policy
<1>9. TrackerOK(pending)'
  <2>1. TrackerOK(pending')
    BY <1>4, RemoveOK
  <2> QED
    BY <2>1 DEF TrackerOK, TrackerConsistent, SourcesOf
<1>10. TypeOK'
  <2>1. calls' \in [Threads -> Call \union {Idle}]
    BY <1>1, <1>5, WitnessedCalls DEF Witnessed
  <2>2. prompts' \subseteq Keys \X Sources
    BY <1>1 DEF TypeOK, LifecycleTypeOK
  <2> QED
    BY <1>1, <1>5, <1>9, <2>1, <2>2 DEF TypeOK, LifecycleTypeOK, TrackerOK
<1>11. DisabledAllows'
  BY <1>2, <1>6 DEF DisabledAllows
<1>12. \A pair \in pending'.sources : pair \in pending.sources /\ pair[1] # key
  BY <1>4 DEF RemoveKey, SourcesOf
<1>13. PendingIsUndecided'
  BY <1>7, <1>12 DEF PendingIsUndecided, TypeOK, LifecycleTypeOK, Tracker
<1>14. PromptIsUndecided'
  BY <1>1, <1>7 DEF PromptIsUndecided, Prompted, PromptOf, TypeOK, LifecycleTypeOK
<1>15. PendingIsAnnounced'
  <2>1. ASSUME NEW k \in Keys, NEW s \in Sources, k # key, Announced(k, s)
        PROVE  Announced(k, s)'
    <3>1. <<k, s>> \in prompts => <<k, s>> \in prompts'
      BY <1>1, <2>1 DEF PromptOf
    <3>2. ASSUME NEW t \in Threads, calls[t] # Idle
          PROVE  /\ calls'[t] # Idle /\ calls'[t].pc = calls[t].pc
                 /\ calls'[t].key = calls[t].key /\ calls'[t].source = calls[t].source
      <4>1. /\ calls[t] \in Call /\ calls'[t] # Idle
            /\ calls'[t] = [calls[t] EXCEPT !.seen = @ \union Now(policy', session', calls[t].key)]
        BY <1>1, <1>5, <3>2, WitnessedCalls
      <4> QED
        BY <4>1 DEF Call
    <3> QED
      BY <1>1, <2>1, <3>1, <3>2 DEF Announced
  <2> QED
    BY <1>12, <2>1 DEF PendingIsAnnounced, TypeOK, LifecycleTypeOK, Tracker
<1>16. CallsWitnessed'
  <2>1. SUFFICES ASSUME NEW t \in Threads, calls'[t] # Idle
                 PROVE  CallWitnessed(calls[t])'
    BY DEF CallsWitnessed
  <2> DEFINE call == calls[t]
             new == Now(policy', session', call.key)
  <2>2. /\ call # Idle /\ call \in Call /\ CallWitnessed(call)
        /\ calls'[t] = [call EXCEPT !.seen = @ \union new]
    BY <1>1, <1>5, <2>1, WitnessedCalls DEF CallsWitnessed
  <2>3. /\ calls'[t].pc = call.pc /\ calls'[t].key = call.key
        /\ calls'[t].snapshot = call.snapshot
        /\ calls'[t].seen = call.seen \union new
    BY <2>2 DEF Call
  <2>4. InForceOf(policy', session', call.key) \in new
    BY DEF Now
  <2>5. call.key \in Keys
    BY <2>2 DEF Call
  <2>6. session'[call.key] # session[call.key] => session'[call.key] \in new
    BY <1>4, <1>6, <1>8, <2>4, <2>5 DEF TypeOK, LifecycleTypeOK
  <2>7. session'[call.key] = Undecided => session[call.key] = Undecided
    BY <1>4, <2>5 DEF TypeOK, LifecycleTypeOK, Decisions, Undecided
  <2>8. InForce(call.key)' \in new
    BY <2>2, <2>3, <2>4 DEF InForce
  <2> QED
    BY <2>2, <2>3, <2>4, <2>6, <2>7 DEF CallWitnessed, InForce
<1> QED
  BY <1>9, <1>10, <1>11, <1>13, <1>14, <1>15, <1>16

LEMMA ReplaceSettingsKeeps ==
  ASSUME IInv, ReplaceSettings
  PROVE  IInv'
<1> USE DEF IInv
<1>1. PICK updated \in Policies : ApplySettings(updated)
  BY DEF ReplaceSettings
<1>2. /\ policy' = updated /\ pending' = EmptyTracker
      /\ session' = IF updated.enabled THEN session ELSE [key \in Keys |-> Undecided]
      /\ calls' = Witnessed(policy', session')
      /\ applying' = TRUE
      /\ UNCHANGED <<notices, prompts, refused, begun>>
  BY <1>1 DEF ApplySettings, ReplaceSettings
<1>3. policy' \in Policy /\ session' \in [Keys -> Decisions \union {Undecided}]
  BY <1>2, PolicyAssumption DEF TypeOK, LifecycleTypeOK
<1>4. DisabledAllows'
  BY <1>2, PolicyAssumption DEF DisabledAllows
<1>5. TrackerOK(pending)'
  <2>1. TrackerOK(pending')
    BY <1>2, EmptyTrackerOK
  <2> QED
    BY <2>1 DEF TrackerOK, TrackerConsistent, SourcesOf
<1>6. TypeOK'
  <2>1. calls' \in [Threads -> Call \union {Idle}]
    BY <1>2, <1>3, WitnessedCalls DEF Witnessed
  <2> QED
    BY <1>2, <1>3, <1>5, <2>1 DEF TypeOK, LifecycleTypeOK, TrackerOK
<1>7. (PendingIsUndecided /\ PendingIsAnnounced /\ PromptIsUndecided)'
  BY <1>2 DEF PendingIsUndecided, PendingIsAnnounced, PromptIsUndecided, EmptyTracker
<1>8. CallsWitnessed'
  <2>1. SUFFICES ASSUME NEW t \in Threads, calls'[t] # Idle
                 PROVE  CallWitnessed(calls[t])'
    BY DEF CallsWitnessed
  <2> DEFINE call == calls[t]
             new == Now(policy', session', call.key)
  <2>2. /\ call # Idle /\ call \in Call /\ CallWitnessed(call)
        /\ calls'[t] = [call EXCEPT !.seen = @ \union new]
    BY <1>2, <1>3, <2>1, WitnessedCalls DEF CallsWitnessed
  <2>3. /\ calls'[t].pc = call.pc /\ calls'[t].key = call.key
        /\ calls'[t].snapshot = call.snapshot
        /\ calls'[t].seen = call.seen \union new
    BY <2>2 DEF Call
  <2>4. InForceOf(policy', session', call.key) \in new
    BY DEF Now
  <2>5. call.key \in Keys
    BY <2>2 DEF Call
  <2>6. CASE updated.enabled
    BY <1>2, <2>2, <2>3, <2>4, <2>6 DEF CallWitnessed, InForce
  <2>7. CASE ~ updated.enabled
    <3>1. session'[call.key] = Undecided
      BY <1>2, <2>5, <2>7
    <3>2. InForceOf(policy', session', call.key) = "allow"
      BY <1>2, <1>4, <2>5, <2>7 DEF DisabledAllows, InForceOf
    <3>3. {"allow", "off"} \subseteq new
      BY <1>2, <2>7, <3>2 DEF Now
    <3> QED
      BY <2>2, <2>3, <2>4, <3>1, <3>3 DEF CallWitnessed, InForce
  <2> QED
    BY <2>6, <2>7
<1> QED
  BY <1>4, <1>5, <1>6, <1>7, <1>8

LEMMA PromptsResetKeeps ==
  ASSUME IInv, PromptsReset
  PROVE  IInv'
<1> USE DEF IInv
<1>1. /\ \A key \in Keys : ~ Prompted(key)
      /\ applying' = FALSE /\ UNCHANGED <<lifecycleVars, calls, begun>>
  BY DEF PromptsReset
<1>2. TypeOK' /\ DisabledAllows' /\ CallsWitnessed'
  BY <1>1 DEF TypeOK, LifecycleTypeOK, lifecycleVars, DisabledAllows, CallsWitnessed,
              CallWitnessed, InForce
<1>3. (TrackerOK(pending) /\ PendingIsUndecided /\ PendingIsAnnounced)'
  BY <1>1 DEF lifecycleVars, TrackerOK, TrackerConsistent, SourcesOf, PendingIsUndecided,
              InForce, PendingIsAnnounced, Announced
<1>4. PromptIsUndecided'
  BY <1>1 DEF PromptIsUndecided, Prompted, PromptOf, lifecycleVars
<1> QED
  BY <1>2, <1>3, <1>4

LEMMA StutterKeeps == IInv /\ UNCHANGED vars => IInv'
<1> SUFFICES ASSUME IInv, UNCHANGED vars PROVE IInv'
  OBVIOUS
<1>1. TypeOK' /\ DisabledAllows' /\ CallsWitnessed'
  BY DEF IInv, vars, lifecycleVars, TypeOK, LifecycleTypeOK, DisabledAllows, CallsWitnessed,
         CallWitnessed, InForce
<1>2. (TrackerOK(pending) /\ PendingIsUndecided /\ PendingIsAnnounced /\ PromptIsUndecided)'
  BY DEF IInv, vars, lifecycleVars, TrackerOK, TrackerConsistent, SourcesOf,
         PendingIsUndecided, InForce, PendingIsAnnounced, Announced, PromptIsUndecided, Prompted, PromptOf
<1> QED
  BY <1>1, <1>2 DEF IInv

----------------------------------------------------------------------------
(***************************************************************************)
(* The invariant is inductive: each step of each thread keeps it.          *)
(***************************************************************************)
THEOREM Invariance == Spec => []IInv
<1>1. IInv /\ [Next]_vars => IInv'
  <2> SUFFICES ASSUME IInv, [Next]_vars PROVE IInv'
    OBVIOUS
  <2>1. ASSUME NEW t \in Threads,
               \/ \E key \in Keys, source \in Sources : Begin(t, key, source)
               \/ ReadSession(t) \/ RecordPending(t) \/ Notify(t) \/ Return(t)
        PROVE  IInv'
    BY <2>1, BeginKeeps, ReadSessionKeeps, RecordPendingKeeps, NotifyKeeps, ReturnKeeps
  <2>2. ASSUME NEW key \in Keys,
               \/ \E source \in Sources : HandleNotice(key, source) \/ DismissSource(key, source)
               \/ \E lasting \in BOOLEAN : Answer(key, lasting)
        PROVE  IInv'
    BY <2>2, HandleNoticeKeeps, DismissSourceKeeps, AnswerKeeps
  <2>3. CASE ReplaceSettings \/ PromptsReset
    BY <2>3, ReplaceSettingsKeeps, PromptsResetKeeps
  <2>4. CASE UNCHANGED vars
    BY <2>4, StutterKeeps
  <2> QED
    BY <2>1, <2>2, <2>3, <2>4 DEF Next
<1> QED
  BY <1>1, InitIInv, PTL DEF Spec

(***************************************************************************)
(* Every variable keeps its type; in particular no count goes negative.    *)
(***************************************************************************)
THEOREM TypeCorrect == Spec => []TypeOK
<1>1. IInv => TypeOK
  BY DEF IInv
<1> QED
  BY <1>1, Invariance, PTL

(***************************************************************************)
(* m_size always counts the recorded sources, within both bounds.          *)
(***************************************************************************)
THEOREM PendingCountedAlways == Spec => []PendingCounted
<1>1. IInv => PendingCounted
  BY DEF IInv, TrackerOK, PendingCounted
<1> QED
  BY <1>1, Invariance, PTL

(***************************************************************************)
(* An answered key has no pending source, and no prompt.                   *)
(***************************************************************************)
THEOREM DecidedIsSettled == Spec => [](PendingIsUndecided /\ PromptIsUndecided)
<1>1. IInv => PendingIsUndecided /\ PromptIsUndecided
  BY DEF IInv
<1> QED
  BY <1>1, Invariance, PTL

(***************************************************************************)
(* No pending source waits in silence.                                     *)
(***************************************************************************)
THEOREM NobodyWaitsInSilence == Spec => []PendingIsAnnounced
<1>1. IInv => PendingIsAnnounced
  BY DEF IInv
<1> QED
  BY <1>1, Invariance, PTL

(***************************************************************************)
(* Every verdict is one that was in force during the call.                 *)
(***************************************************************************)
THEOREM VerdictsInForce == Spec => []VerdictInForce
<1>1. IInv => VerdictInForce
  <2> SUFFICES ASSUME IInv, NEW t \in Threads
               PROVE  /\ calls[t].pc = "allowed" => "allow" \in calls[t].seen
                      /\ calls[t].pc = "blocked" => calls[t].seen \intersect Refusals # {}
    BY DEF VerdictInForce, Refusals
  <2>1. CASE calls[t] = Idle
    <3>1. calls[t].pc = "idle"
      BY <2>1 DEF Idle
    <3> QED
      BY <3>1
  <2>2. CASE calls[t] # Idle
    BY <2>2 DEF IInv, CallsWitnessed, CallWitnessed
  <2> QED
    BY <2>1, <2>2
<1> QED
  BY <1>1, Invariance, PTL

=============================================================================
