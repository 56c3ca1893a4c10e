----------------------------- MODULE TabSecurity -----------------------------
(***************************************************************************)
(* What a tab of MainWindow says of the security of its connection, and    *)
(* how it answers the certificate errors Chromium reports: by the trust    *)
(* rules in force (TrustRules).  The engine is external: its loads do not  *)
(* overlap, a redirect is a further request of the same load, and it       *)
(* reports an error of the certificate each time, also to a page that is   *)
(* loaded already or is about to be left.                                  *)
(***************************************************************************)
EXTENDS TrustRules, FiniteSets

CONSTANTS
  MaxLoads,     \* bound: loads of the tab
  MaxRedirects  \* bound: redirects of a load

VARIABLE ts

tsVars == << ts >>

\* An error of the certificate of https://host, as far as the answer depends on it
SystemRoot == "system"
Chain == [overridable : BOOLEAN, authorityInvalid : BOOLEAN, valid : BOOLEAN, root : TrustCertificates \cup {SystemRoot}]

Origins == [https : BOOLEAN, host : TrustHosts]
Nowhere == [https |-> FALSE, host |-> << >>]

Plainly(kind) == [kind |-> kind, rule |-> ""]
SecureBy(rule) == [kind |-> "secure", rule |-> rule]

(***************************************************************************)
(* page: the URL of the page shown; target: what is being loaded, Nowhere  *)
(* if nothing is; top: topLevelUrl; rule: lastAcceptedRule; status:        *)
(* trustStatus; before: previousTrustStatus and previousAcceptedRule;      *)
(* delegated: externalNavigationDelegated.  Of the engine: committed, and  *)
(* refused, the load cannot succeed.  History of the load: visited, the    *)
(* origins it was sent to; accepted and recovered, the origins whose       *)
(* certificate was accepted, with the rule, for anything and for the load  *)
(* itself; ended, how it ended.                                            *)
(***************************************************************************)
TsInit ==
  ts = [page |-> Nowhere, target |-> Nowhere, top |-> Nowhere, loading |-> FALSE, rule |-> "",
        status |-> Plainly("ready"), before |-> << Plainly("ready"), "" >>, delegated |-> FALSE,
        committed |-> FALSE, refused |-> FALSE, visited |-> {}, accepted |-> {}, recovered |-> {},
        ended |-> "", loads |-> 0]

(***************************************************************************)
(* acceptNavigationRequest, for a load and for each of its redirects: the  *)
(* page goes there (mainFrameNavigationRequested); or the scheme is        *)
(* another program's (externalUrlRequested); or nothing may use it, or the *)
(* page is not of the web app.                                             *)
(***************************************************************************)
Requested(S) ==
  { [S EXCEPT !.top = o, !.target = o, !.visited = @ \cup {o}] : o \in Origins \ S.visited }
    \cup { [S EXCEPT !.delegated = TRUE, !.refused = TRUE], [S EXCEPT !.refused = TRUE] }

\* loadStarted; the request follows at once.
LoadStarted ==
  /\ ~ts.loading /\ ts.loads < MaxLoads
  /\ ts' \in Requested(
       [ts EXCEPT !.before = << ts.status, ts.rule >>, !.delegated = FALSE, !.rule = "", !.loading = TRUE,
                  !.status = Plainly("loading"), !.target = Nowhere, !.committed = FALSE, !.refused = FALSE,
                  !.visited = {}, !.accepted = {}, !.recovered = {}, !.ended = "", !.loads = @ + 1])

Requesting == ts.loading /\ ~ts.committed /\ ~ts.refused

Redirected == Requesting /\ Cardinality(ts.visited) <= MaxRedirects /\ ts' \in Requested(ts)

\* urlChanged: the page, or the error page in its place
UrlChanged ==
  /\ ts.loading /\ ~ts.committed /\ ts.target # Nowhere
  /\ ts' = [ts EXCEPT !.page = ts.target, !.top = ts.target, !.committed = TRUE]

Scheme(page) == IF page = Nowhere THEN "" ELSE IF page.https THEN "https" ELSE "http"

StatusOfLoaded(page) ==
  CASE Scheme(page) = "https" -> IF ts.rule = "" THEN SecureBy("") ELSE ts.status
    [] Scheme(page) = "http"  -> Plainly("insecure")
    [] OTHER                  -> Plainly("none")

\* loadFinished: succeeded, or failed, was stopped or became a download
LoadFinished ==
  /\ ts.loading
  /\ LET S == [ts EXCEPT !.loading = FALSE, !.target = Nowhere, !.refused = FALSE]
     IN  \/ /\ ts.delegated
            /\ ts' = [S EXCEPT !.delegated = FALSE, !.status = ts.before[1], !.rule = ts.before[2],
                               !.ended = "delegated"]
         \/ /\ ~ts.delegated /\ ts.committed /\ ~ts.refused
            /\ ts' = [S EXCEPT !.status = StatusOfLoaded(ts.page), !.ended = "ok"]
         \/ /\ ~ts.delegated
            /\ ts' = [S EXCEPT !.status = IF ts.rule = "" THEN Plainly("failed") ELSE @, !.ended = "failed"]

\* evaluate: a valid chain for the host, up to an anchor or, unless the rule forbids it, to the system's roots
Evaluate(chain, rule) ==
  /\ chain.valid /\ rule.anchors # {}
  /\ \/ chain.root \in rule.anchors
     \/ chain.root = SystemRoot /\ rule.mode # "custom-only"

\* Mutant of IsSameWebOrigin: the decision describes the page, whatever it was about.
OfTheSameSite(left, right) == right # Nowhere

IsSameWebOrigin(left, right) == left = right

Recovers(chain, rule) ==
  chain.overridable /\ chain.authorityInvalid /\ rule.mode # "system-only" /\ Evaluate(chain, rule)

\* handleCertificateError, of the load itself or of something else on its origin
HandleCertificateError(origin, chain, ofLoad) ==
  LET i == RuleForHost(tr.policy, origin.host)
  IN  IF i # 0 /\ Recovers(chain, tr.policy[i])
      THEN LET name == tr.policy[i].name
               S == [ts EXCEPT !.accepted = @ \cup {<< origin, name >>},
                               !.recovered = IF ofLoad THEN @ \cup {<< origin, name >>} ELSE @]
           IN  IF IsSameWebOrigin(origin, ts.top) THEN [S EXCEPT !.rule = name, !.status = SecureBy(name)] ELSE S
      ELSE [ts EXCEPT !.status = Plainly("blocked"), !.refused = @ \/ ofLoad]

CertificateError ==
  \E chain \in Chain :
    \/ /\ Requesting /\ ts.target.https
       /\ ts' = HandleCertificateError(ts.target, chain, TRUE)
    \/ /\ ts.page # Nowhere
       /\ \E o \in Origins : o.https /\ ts' = HandleCertificateError(o, chain, FALSE)

TsNext ==
  LoadStarted \/ Redirected \/ UrlChanged \/ LoadFinished \/ CertificateError

(***************************************************************************)
(* Properties.                                                             *)
(***************************************************************************)
\* After a load that succeeded, a tab that says it is secure shows an HTTPS page; a rule it names has
\* accepted the certificate of an origin the load went through, not just of something the page uses; and
\* a page whose certificate a rule had to recover is not put down to the system's trust.
\* This is weaker than docs/ARCHITECTURE.md, 4.1, which wants the rule to be that of the origin shown:
\* after a redirect, the code keeps the rule of the origin that redirected.
SecurityAgrees ==
  ts.ended = "ok" /\ ts.status.kind = "secure" =>
    /\ ts.page.https
    /\ ts.status.rule # "" => \E o \in ts.visited : << o, ts.status.rule >> \in ts.accepted
    /\ ts.status.rule = "" => \A recovery \in ts.recovered : recovery[1] # ts.page

\* "no HTTP page can display a secure TLS indicator" (docs/ARCHITECTURE.md, 14).  It does not hold: a load
\* that is stopped after its certificate was accepted leaves the indicator of what was not loaded.
HttpIsNeverSecure == ~ts.loading /\ ts.status.kind = "secure" => Scheme(ts.page) # "http"
=============================================================================
