---------------------------- MODULE VotTransport ----------------------------
(***************************************************************************)
(* Network requests of the VOT userscript.  A page's script asks through   *)
(* the console; the page's VotUserscriptBridge checks, authorizes and      *)
(* holds the request; VotChromiumNetworkTransport runs it in a session of  *)
(* its own once its profile, extension and control page are ready; the     *)
(* answer goes back through the bridge into the frame that asked.          *)
(* VotUserscriptManager replaces every bridge when the settings or the     *)
(* state of the transport change.                                          *)
(*                                                                         *)
(* External: the scripts, the renderers, the extension manager.  A page    *)
(* has one frame here, and is the initiator of its requests.               *)
(***************************************************************************)
EXTENDS Naturals, FiniteSets

CONSTANTS
  Pages,           \* browser pages
  Requests,        \* bound: GM_xmlhttpRequest calls made in a behaviour
  MaxConcurrent,   \* maximumConcurrentRequests of a bridge
  MaxLoads,        \* bound: documents loaded after the first
  MaxApplied       \* bound: applySettings

ASSUME VotTransportAssumption == MaxConcurrent \in Nat \ {0} /\ MaxLoads \in Nat /\ MaxApplied \in Nat

VARIABLE vt

vtVars == << vt >>

(***************************************************************************)
(* transport, stage: m_state and what its loading waits for; profile:      *)
(* m_transportProfile with its interceptor; manager: state of the manager; *)
(* bridge, frame: the pages with a bridge, and whose frame it has cached;  *)
(* script: the document has the injected script, and document counts them. *)
(* Of a request: script is the entry of the pending map, asked and         *)
(* abortSent messages under way, held the entry of m_requests, session the *)
(* VotChromiumRequestSession, authorized the entry of the interceptor,     *)
(* reply the delivery.  dropped: its bridge was replaced (history).        *)
(***************************************************************************)
NoRequestYet == [page |-> CHOOSE p \in Pages : TRUE, script |-> "new", asked |-> FALSE, abortSent |-> FALSE,
                 held |-> "no", session |-> "none", authorized |-> FALSE, reply |-> "none", dropped |-> FALSE]

VtInit ==
  vt = [transport |-> "Uninitialized", stage |-> "none", profile |-> FALSE, enabled |-> FALSE, manager |-> "Disabled",
        bridge |-> {}, frame |-> {}, script |-> {}, loads |-> 0, applied |-> 0,
        req |-> [r \in Requests |-> NoRequestYet]]

Change(v, who, F(_)) == [v EXCEPT !.req = [r \in Requests |-> IF r \in who THEN F(@[r]) ELSE @[r]]]

(***************************************************************************)
(* deliver: at once into a frame that is cached; otherwise the frames are  *)
(* probed, and the answer is posted when the right one replies, if the     *)
(* bridge still exists.                                                    *)
(***************************************************************************)
Deliver(v, r) == [v EXCEPT !.req[r].reply = IF v.req[r].page \in v.frame THEN "posted" ELSE "probing"]

FrameFound(r) ==
  /\ vt.req[r].reply = "probing"
  /\ vt' = IF vt.req[r].script = "gone" THEN [vt EXCEPT !.req[r].reply = "lost"]
           ELSE [vt EXCEPT !.req[r].reply = "posted", !.frame = @ \union { vt.req[r].page }]

DeliverToFrame(r) ==
  /\ vt.req[r].reply = "posted"
  /\ vt' = [vt EXCEPT !.req[r].reply = "given", !.req[r].script = IF @ = "pending" THEN "settled" ELSE @]

(***************************************************************************)
(* A session finishes once; the transport forgets it, and the bridge that  *)
(* holds the request, if one does, answers the frame.                      *)
(***************************************************************************)
\* Mutant of Released: the authorization is left to the next profile.
ReleasedAuthorized(v, r) == [v EXCEPT !.req[r].held = "no"]

Released(v, r) == [v EXCEPT !.req[r].held = "no", !.req[r].authorized = FALSE]

HandleTransportResponse(v, r) == IF v.req[r].held = "no" THEN v ELSE Deliver(Released(v, r), r)

Live(q) == q.session \in { "queued", "opening", "started" }

Finish(v, r) ==
  IF Live(v.req[r]) THEN HandleTransportResponse([v EXCEPT !.req[r].session = "ended"], r) ELSE v

\* fail: every session fails, then the state changes.
FailAll(v) ==
  LET active == { r \in Requests : Live(v.req[r]) }
      answered(q) == [q EXCEPT !.session = "ended", !.held = "no", !.authorized = FALSE,
                               !.reply = IF q.held = "no" THEN @
                                         ELSE IF q.page \in v.frame THEN "posted" ELSE "probing"]
  IN  Change(v, active, answered)

(***************************************************************************)
(* configurePage: the bridge of a page, with the requests it holds, goes,  *)
(* and a new one comes if the manager is preparing or ready.  Probes of    *)
(* the old one find nobody.                                                *)
(***************************************************************************)
Orphaned(q) ==
  [q EXCEPT !.held = "no", !.authorized = FALSE, !.session = IF q.held # "no" THEN "ended" ELSE @,
            !.reply = IF @ = "probing" THEN "lost" ELSE @, !.dropped = @ \/ q.held # "no" \/ q.reply = "probing"]

ConfigurePages(v, pages) ==
  LET cleared == Change(v, { r \in Requests : v.req[r].page \in pages /\ v.req[r].page \in v.bridge }, Orphaned)
      served == v.enabled /\ v.manager \in { "Preparing", "Ready" }
  IN  [cleared EXCEPT !.frame = @ \ pages, !.bridge = IF served THEN @ \union pages ELSE @ \ pages]

(***************************************************************************)
(* handleTransportStateChanged.                                            *)
(***************************************************************************)
ManagerFollows(v) ==
  IF ~ v.enabled THEN v
  ELSE ConfigurePages([v EXCEPT !.manager = CASE v.transport = "Ready" -> "Ready"
                                              [] v.transport = "Error" -> "Error"
                                              [] OTHER -> "Preparing"], Pages)

SetState(v, state, stage) == ManagerFollows([v EXCEPT !.transport = state, !.stage = stage])

Fail(v) == SetState(FailAll(v), "Error", "none")

(***************************************************************************)
(* ensureReady: from an error the profile is made anew.  The files or the  *)
(* profile may fail.                                                       *)
(***************************************************************************)
ResetTransportProfile(v) == [v EXCEPT !.profile = FALSE, !.transport = "Uninitialized"]

EnsureReady(v, prepared) ==
  IF v.transport \in { "Ready", "Loading" } THEN v
  ELSE LET fresh == IF v.transport = "Error" THEN ResetTransportProfile(v) ELSE v
       IN  IF prepared THEN SetState([fresh EXCEPT !.profile = TRUE], "Loading", "bootstrap") ELSE Fail(fresh)

LoadingStep(stage) == vt.transport = "Loading" /\ vt.stage = stage

BootstrapFinished(ok) ==
  /\ LoadingStep("bootstrap")
  /\ vt' = IF ok THEN [vt EXCEPT !.stage = "extension"] ELSE Fail(vt)

ExtensionLoaded(ok) ==
  /\ LoadingStep("extension")
  /\ vt' = IF ok THEN [vt EXCEPT !.stage = "enabling"] ELSE Fail(vt)

ActivateExtension == LoadingStep("enabling") /\ vt' = [vt EXCEPT !.stage = "control"]

ControlPageLoaded(ok) ==
  /\ LoadingStep("control")
  /\ vt' = IF ok THEN [vt EXCEPT !.stage = "check"] ELSE Fail(vt)

FlushPendingRequests(v) ==
  LET open(q) == [q EXCEPT !.session = "opening"]
  IN  Change(v, { r \in Requests : v.req[r].session = "queued" }, open)

TransportChecked(available) ==
  /\ LoadingStep("check")
  /\ vt' = IF available THEN FlushPendingRequests(SetState(vt, "Ready", "none")) ELSE Fail(vt)

InitializationTimeout == vt.transport = "Loading" /\ vt' = Fail(vt)

ControlPageCrashed ==
  /\ vt.transport = "Ready" \/ LoadingStep("control") \/ LoadingStep("check")
  /\ vt' = Fail(vt)

(***************************************************************************)
(* applySettings with the userscript off, on and valid, or on and not      *)
(* loadable; MainWindow then reconfigures the pages.                       *)
(***************************************************************************)
ApplySettings(mode, prepared) ==
  LET off == [vt EXCEPT !.applied = @ + 1, !.enabled = FALSE,
                        !.manager = IF mode = "off" THEN "Disabled" ELSE "Error"]
      on == [vt EXCEPT !.applied = @ + 1, !.enabled = TRUE]
  IN  /\ vt.applied < MaxApplied
      /\ vt' = ConfigurePages(IF mode = "on" THEN ManagerFollows(EnsureReady(on, prepared)) ELSE off, Pages)

(***************************************************************************)
(* A page loads a document: the script is in it if the page has a bridge,  *)
(* and the old one is gone with whatever it waited for.                    *)
(***************************************************************************)
LoadDocument(p) ==
  LET gone(q) == [q EXCEPT !.script = IF @ \in { "pending", "settled" } THEN "gone" ELSE @]
  IN  /\ vt.loads < MaxLoads
      /\ vt' = [Change(vt, { r \in Requests : vt.req[r].page = p /\ vt.req[r].script # "new" }, gone)
                  EXCEPT !.loads = @ + 1, !.frame = @ \ { p },
                         !.script = IF p \in vt.bridge THEN @ \union { p } ELSE @ \ { p }]

(***************************************************************************)
(* The script asks, and may take it back.                                  *)
(***************************************************************************)
ScriptAsks(r, p) ==
  /\ vt.req[r].script = "new" /\ p \in vt.script
  /\ vt' = [vt EXCEPT !.req[r].script = "pending", !.req[r].page = p, !.req[r].asked = TRUE]

ScriptAborts(r) ==
  /\ vt.req[r].script = "pending"
  /\ vt' = [vt EXCEPT !.req[r].script = "settled", !.req[r].abortSent = TRUE]

(***************************************************************************)
(* The bridge handles a message; without a bridge nobody does.             *)
(***************************************************************************)
Holds(v, p) == { r \in Requests : v.req[r].held # "no" /\ v.req[r].page = p }

SendRequest(v, r, prepared) ==
  LET created == [v EXCEPT !.req[r].session = "queued"]
      ensured == IF created.transport = "Uninitialized" THEN EnsureReady(created, prepared) ELSE created
  IN  CASE ensured.transport = "Error" -> Finish(ensured, r)
        [] ensured.transport = "Ready" -> [ensured EXCEPT !.req[r].session = "opening"]
        [] OTHER -> ensured

Admitted(v, p) == Cardinality(Holds(v, p)) < MaxConcurrent /\ v.profile

\* permitted: destination, policy, method, headers and body are acceptable.
HandleRequest(r, permitted, prepared) ==
  LET q == vt.req[r]
      read == [vt EXCEPT !.req[r].asked = FALSE]
      taken == [read EXCEPT !.req[r].held = "active", !.req[r].authorized = vt.profile]
  IN  /\ q.asked
      /\ vt' = IF q.page \notin vt.bridge THEN [read EXCEPT !.req[r].dropped = TRUE]
               ELSE IF permitted /\ Admitted(vt, q.page) THEN SendRequest(taken, r, prepared)
               ELSE Deliver(read, r)

AbortRequest(r) ==
  LET q == vt.req[r]
      read == [vt EXCEPT !.req[r].abortSent = FALSE]
  IN  /\ q.abortSent /\ ~ q.asked
      /\ vt' = IF q.page \in vt.bridge /\ q.held = "active"
               THEN Finish([read EXCEPT !.req[r].held = "aborted"], r)
               ELSE read

(***************************************************************************)
(* A session: its page loads, its script runs, and answers, or not.        *)
(***************************************************************************)
SessionPageLoaded(r, ok) ==
  /\ vt.req[r].session = "opening"
  /\ vt' = IF ok THEN [vt EXCEPT !.req[r].session = "started"] ELSE Finish(vt, r)

SessionAnswered(r) == vt.req[r].session = "started" /\ vt' = Finish(vt, r)

SessionCrashed(r) == vt.req[r].session \in { "opening", "started" } /\ vt' = Finish(vt, r)

\* Mutant of MayTimeOut: the timer runs only once the page has been opened.
MayTimeOutOpened(q) == q.session \in { "started" }

MayTimeOut(q) == Live(q)

SessionTimeout(r) == MayTimeOut(vt.req[r]) /\ vt' = Finish(vt, r)

VtNext ==
  \/ \E mode \in { "off", "on", "broken" }, prepared \in BOOLEAN : ApplySettings(mode, prepared)
  \/ \E ok \in BOOLEAN : BootstrapFinished(ok) \/ ExtensionLoaded(ok) \/ ControlPageLoaded(ok) \/ TransportChecked(ok)
  \/ ActivateExtension \/ InitializationTimeout \/ ControlPageCrashed
  \/ \E p \in Pages : LoadDocument(p)
  \/ \E r \in Requests :
       \/ \E p \in Pages : ScriptAsks(r, p)
       \/ ScriptAborts(r) \/ AbortRequest(r)
       \/ \E permitted, prepared \in BOOLEAN : HandleRequest(r, permitted, prepared)
       \/ \E ok \in BOOLEAN : SessionPageLoaded(r, ok)
       \/ SessionAnswered(r) \/ SessionCrashed(r) \/ SessionTimeout(r)
       \/ FrameFound(r) \/ DeliverToFrame(r)

(***************************************************************************)
(* Timers fire and messages between bridge and renderer arrive.  Nothing   *)
(* is assumed of the extension, of request pages or of the network.        *)
(***************************************************************************)
VtFairness ==
  \A r \in Requests :
    /\ WF_vt(SessionTimeout(r)) /\ WF_vt(FrameFound(r)) /\ WF_vt(DeliverToFrame(r))
    /\ WF_vt(\E permitted, prepared \in BOOLEAN : HandleRequest(r, permitted, prepared))

VtTypeOK ==
  /\ vt.transport \in { "Uninitialized", "Loading", "Ready", "Error" }
  /\ vt.stage \in { "none", "bootstrap", "extension", "enabling", "control", "check" }
  /\ vt.stage # "none" <=> vt.transport = "Loading"
  /\ vt.manager \in { "Disabled", "Preparing", "Ready", "Error" }
  /\ vt.bridge \subseteq Pages /\ vt.frame \subseteq vt.bridge /\ vt.script \subseteq Pages

(***************************************************************************)
(* Bridges and transport agree on what is under way: a request a bridge    *)
(* holds has a running session and an authorization, which without the     *)
(* bridge's request neither outlives; a ready transport leaves nobody      *)
(* queued, and a failed one has nothing running.                           *)
(***************************************************************************)
RequestsAgree ==
  /\ \A r \in Requests :
       LET q == vt.req[r] IN
       /\ Live(q) <=> q.held # "no"
       /\ q.authorized <=> q.held # "no"
       /\ q.held # "no" => q.page \in vt.bridge /\ vt.transport \in { "Loading", "Ready" }
       /\ q.session = "queued" => vt.transport = "Loading"
  /\ \A p \in Pages : Cardinality(Holds(vt, p)) <= MaxConcurrent

(***************************************************************************)
(* Every request of a script whose document stays gets one of its final    *)
(* callbacks, unless its bridge was replaced meanwhile: no answer of a     *)
(* session is needed, nor that the transport ever gets ready.              *)
(***************************************************************************)
ScriptsAreAnswered ==
  \A r \in Requests : vt.req[r].script = "pending" ~> (vt.req[r].script # "pending" \/ vt.req[r].dropped)

(***************************************************************************)
(* "Requests created during initialization ... remain queued until the     *)
(* extension control page is ready": none of them ends because it is.      *)
(***************************************************************************)
QueuedUntilReady ==
  [][\A r \in Requests : vt.req[r].session = "queued" /\ vt'.transport = "Ready" =>
                           vt'.req[r].session \in { "opening", "started" }]_vtVars

=============================================================================
