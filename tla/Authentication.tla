--------------------------- MODULE Authentication ---------------------------
(***************************************************************************)
(* HttpAuthenticationController and ProxyAuthenticationController: what a  *)
(* challenge is answered with, and what is remembered of it.  The handler  *)
(* of a challenge waits in nested event loops (the password manager, the   *)
(* dialog), so that further challenges arrive while one is handled; those  *)
(* are answered with nothing.                                              *)
(*                                                                         *)
(* Server, engine and password manager are external.  The engine repeats a *)
(* request with the answer it was given and may use answers that were      *)
(* accepted before, or forget them.  The password manager's own protocol   *)
(* is SecretService's; here an operation succeeds or fails.                *)
(***************************************************************************)
EXTENDS Naturals, FiniteSets

CONSTANTS
  Keys,           \* challenge keys: origin or proxy, and realm
  Persistable,    \* those a credential can be saved for
  Passwords,
  AuthRequests,       \* bound: requests made in a behaviour
  MaxRemembered,  \* maximumRememberedChallenges
  MaxChanges      \* bound: changes of a server's password

ASSUME AuthenticationAssumption ==
  /\ Persistable \subseteq Keys
  /\ MaxRemembered \in Nat \ {0} /\ MaxChanges \in Nat

VARIABLE au

auVars == << au >>

NoPassword == "none"
NoRequest == "none"

Answers == Passwords \union { NoPassword }

(***************************************************************************)
(* persisted, suppressed, submitted are m_persistedCredentialAttempts,     *)
(* m_suppressedStoredChallenges and m_submittedChallenges (m_promptedHosts *)
(* of the proxy); active is the request m_promptActive stands for, phase   *)
(* what its handler waits for.  saved is the password manager, server and  *)
(* cache are external.  History: refused, the passwords a server has       *)
(* refused; forgot, the keys an overflow dropped.                          *)
(***************************************************************************)
AuInit ==
  \E saved \in [Keys -> Answers], server \in [Keys -> Passwords] :
    /\ \A k \in Keys \ Persistable : saved[k] = NoPassword
    /\ au = [persisted |-> {}, suppressed |-> {}, submitted |-> {}, active |-> NoRequest, phase |-> "idle",
             saved |-> saved, server |-> server, cache |-> [k \in Keys |-> NoPassword], changes |-> 0,
             req |-> [r \in AuthRequests |-> [state |-> "new", key |-> CHOOSE k \in Keys : TRUE,
                                          answer |-> NoPassword, stored |-> FALSE]],
             refused |-> {}, forgot |-> {}]

(***************************************************************************)
(* rememberChallenge: a full set is emptied first.                         *)
(***************************************************************************)
Overflows(set, k) == Cardinality(set) >= MaxRemembered /\ k \notin set

RememberChallenge(a, field, k) ==
  IF Overflows(a[field], k) THEN [a EXCEPT ![field] = { k }, !.forgot = @ \union a[field]]
  ELSE [a EXCEPT ![field] = @ \union { k }]

(***************************************************************************)
(* External: a request is sent, with an answer the engine still has; the   *)
(* server accepts or challenges it; the engine tries an answer accepted    *)
(* meanwhile, or forgets it; the server's password changes.  A request     *)
(* whose challenge is being handled waits for that.                        *)
(***************************************************************************)
Send(r, k) ==
  /\ au.req[r].state = "new"
  /\ au' = [au EXCEPT !.req[r] = [state |-> "sent", key |-> k, answer |-> au.cache[k], stored |-> FALSE]]

ServerAnswers(r) ==
  LET q == au.req[r] IN
  /\ q.state = "sent"
  /\ au' = IF q.answer = au.server[q.key]
           THEN [au EXCEPT !.req[r].state = "done", !.cache[q.key] = q.answer]
           ELSE [au EXCEPT !.req[r].state = "challenged",
                           !.cache[q.key] = IF @ = q.answer THEN NoPassword ELSE @,
                           !.refused = IF q.answer = NoPassword THEN @ ELSE @ \union { << q.key, q.answer >> }]

EngineRetries(r) ==
  LET q == au.req[r] IN
  /\ q.state = "challenged" /\ r # au.active /\ au.cache[q.key] \notin { NoPassword, q.answer }
  /\ au' = [au EXCEPT !.req[r].state = "sent", !.req[r].answer = au.cache[q.key], !.req[r].stored = FALSE]

EngineForgets(k) == au.cache[k] # NoPassword /\ au' = [au EXCEPT !.cache[k] = NoPassword]

ServerChanges(k, p) ==
  /\ au.changes < MaxChanges /\ p # au.server[k]
  /\ au' = [au EXCEPT !.server[k] = p, !.changes = @ + 1, !.refused = @ \ { << k, p >> }]

(***************************************************************************)
(* The end of a handler.  *authenticator is reset, or filled in; then the  *)
(* engine repeats the request, or gives it up.                             *)
(***************************************************************************)
BlankAnswer(a, r) == [a EXCEPT !.req[r].state = "failed"]

AnsweredWith(a, r, p, stored) ==
  [a EXCEPT !.req[r].state = "sent", !.req[r].answer = p, !.req[r].stored = stored]

Idle(a) == [a EXCEPT !.active = NoRequest, !.phase = "idle"]

(***************************************************************************)
(* requestAuthentication up to its first wait.  A challenge whose key was  *)
(* answered with the saved password counts as its refusal.                 *)
(***************************************************************************)
\* Mutant of Rejected: the refused password is deleted, but not suppressed.
RejectedUnsuppressed(a, k) == [a EXCEPT !.persisted = @ \ { k }]

Rejected(a, k) == RememberChallenge([a EXCEPT !.persisted = @ \ { k }], "suppressed", k)

MayRead(k) == k \notin au.suppressed /\ k \notin au.submitted

RequestAuthentication(r, promptAllowed) ==
  LET k == au.req[r].key
      begun == [au EXCEPT !.active = r]
  IN  /\ au.req[r].state = "challenged" /\ r # au.active
      /\ \/ ~ promptAllowed /\ au' = BlankAnswer(au, r)
         \/ promptAllowed /\ au.active # NoRequest /\ au' = BlankAnswer(au, r)
         \/ /\ promptAllowed /\ au.active = NoRequest
            /\ \E available \in BOOLEAN :
                 au' = IF available /\ k \in Persistable
                       THEN IF k \in au.persisted THEN [Rejected(begun, k) EXCEPT !.phase = "removing"]
                            ELSE IF MayRead(k) THEN [begun EXCEPT !.phase = "reading"]
                            ELSE [begun EXCEPT !.phase = "dialog"]
                       ELSE [begun EXCEPT !.phase = "dialog"]

RemoveFinished(ok) ==
  LET k == au.req[au.active].key
  IN  /\ au.phase = "removing"
      /\ au' = IF ok THEN [au EXCEPT !.phase = "dialog", !.saved[k] = NoPassword]
               ELSE [au EXCEPT !.phase = "dialog"]

StoredAnswer(a, r, k) == RememberChallenge(AnsweredWith(a, r, a.saved[k], TRUE), "persisted", k)

ReadFinished(ok) ==
  LET k == au.req[au.active].key IN
  /\ au.phase = "reading"
  /\ au' = IF ok /\ au.saved[k] # NoPassword THEN Idle(StoredAnswer(au, au.active, k))
           ELSE [au EXCEPT !.phase = "dialog"]

DialogRejected == au.phase = "dialog" /\ au' = Idle(BlankAnswer(au, au.active))

\* A password the user types again is the user's.
Submitted(a, k, p) == RememberChallenge([a EXCEPT !.refused = @ \ { << k, p >> }], "submitted", k)

DialogAccepted(p, remember) ==
  LET r == au.active
      k == au.req[r].key
      filled == [au EXCEPT !.req[r].answer = p]
  IN  /\ au.phase = "dialog"
      /\ au' = IF remember /\ k \in Persistable THEN [filled EXCEPT !.phase = "saving"]
               ELSE Idle(AnsweredWith(Submitted(filled, k, p), r, p, FALSE))

SavedFor(a, k, p) == RememberChallenge([a EXCEPT !.saved[k] = p, !.suppressed = @ \ { k }], "persisted", k)

WriteFinished(ok) ==
  LET r == au.active
      k == au.req[r].key
      p == au.req[r].answer
      written == IF ok THEN SavedFor(au, k, p) ELSE au
  IN  /\ au.phase = "saving"
      /\ au' = Idle(AnsweredWith(Submitted(written, k, p), r, p, FALSE))

\* Removal in the settings page.
RemoveSaved(k) == au.saved[k] # NoPassword /\ au' = [au EXCEPT !.saved[k] = NoPassword]

AuNext ==
  \/ \E r \in AuthRequests :
       \/ \E k \in Keys : Send(r, k)
       \/ ServerAnswers(r) \/ EngineRetries(r)
       \/ \E promptAllowed \in BOOLEAN : RequestAuthentication(r, promptAllowed)
  \/ \E k \in Keys : EngineForgets(k) \/ RemoveSaved(k) \/ \E p \in Passwords : ServerChanges(k, p)
  \/ \E ok \in BOOLEAN : RemoveFinished(ok) \/ ReadFinished(ok) \/ WriteFinished(ok)
  \/ DialogRejected
  \/ \E p \in Passwords, remember \in BOOLEAN : DialogAccepted(p, remember)

AuTypeOK ==
  /\ au.persisted \subseteq Persistable /\ au.suppressed \subseteq Persistable /\ au.submitted \subseteq Keys
  /\ \A set \in { au.persisted, au.suppressed, au.submitted } : Cardinality(set) <= MaxRemembered
  /\ au.active \in AuthRequests \union { NoRequest }
  /\ au.phase \in { "idle", "removing", "reading", "dialog", "saving" }
  /\ au.phase = "idle" <=> au.active = NoRequest
  /\ au.saved \in [Keys -> Answers] /\ au.server \in [Keys -> Passwords] /\ au.cache \in [Keys -> Answers]
  /\ au.req \in [AuthRequests -> [state : { "new", "sent", "challenged", "failed", "done" }, key : Keys,
                              answer : Answers, stored : BOOLEAN]]

(***************************************************************************)
(* A saved password that the server has refused is not read and sent again *)
(* for a later challenge, whether or not it could be deleted, whatever     *)
(* other requests of the same realm do meanwhile: no loop of automatic     *)
(* attempts.  Not held against it: keys that an overflow has dropped, a    *)
(* password typed again, a server that has changed to this password.       *)
(***************************************************************************)
RefusedIsNotResent ==
  [][\A r \in AuthRequests :
       au'.req[r].stored /\ ~ au.req[r].stored => \/ au.req[r].key \in au.forgot
            \/ << au.req[r].key, au'.req[r].answer >> \notin au.refused]_auVars

=============================================================================
