----------------------------- MODULE LibraryProofs -----------------------------
(***************************************************************************)
(* What the browser promises of the passwords and values it keeps, of the  *)
(* process that keeps them, of the documents it shows for reading, of the  *)
(* web apps it installs and of what it keeps for the user, for any number  *)
(* of requests, pages, tabs, passwords, writes, processes, apps, visits,   *)
(* bookmarks, downloads, credentials and search engines.                   *)
(***************************************************************************)
EXTENDS MCLibrary, SubsequenceProofs

----------------------------------------------------------------------------
(***************************************************************************)
(* Authentication.  Met: a password has been submitted or read for the key *)
(* before, and that is remembered, unless an overflow dropped it.  Only    *)
(* for such keys can a request carry an answer, the engine hold one, or    *)
(* the server have refused one; and the saved password is read only for a  *)
(* key of which nothing is remembered.                                     *)
(***************************************************************************)
AuSpec == AuInit /\ [][AuNext]_auVars

AuKeys == Keys \union { CHOOSE k \in Keys : TRUE }

AuRequestType ==
  [state : { "new", "sent", "challenged", "failed", "done" }, key : AuKeys, answer : Answers, stored : BOOLEAN]

AuType ==
  [persisted : SUBSET AuKeys, suppressed : SUBSET AuKeys, submitted : SUBSET AuKeys,
   active : AuthRequests \union { NoRequest }, phase : { "idle", "removing", "reading", "dialog", "saving" },
   saved : [Keys -> Answers], server : [Keys -> Passwords], cache : [Keys -> Answers], changes : Nat,
   req : [AuthRequests -> AuRequestType], refused : SUBSET (AuKeys \X Answers), forgot : SUBSET AuKeys]

Remembered(a) == a.persisted \union a.suppressed \union a.submitted

Met(a, k) == k \in Remembered(a) \union a.forgot

\* A handler that waits has a request, and reads only what it has not met.
HandlerOK(a) ==
  /\ a.phase # "idle" => a.active \in AuthRequests /\ a.req[a.active].state = "challenged"
  /\ a.phase = "reading" => a.req[a.active].key \notin Remembered(a)

AnswersMet(a) ==
  /\ \A r \in AuthRequests : a.req[r].state # "new" => a.req[r].key \in Keys
  /\ \A r \in AuthRequests : a.req[r].state = "sent" /\ a.req[r].answer # NoPassword => Met(a, a.req[r].key)
  /\ \A k \in Keys : a.cache[k] # NoPassword => Met(a, k)
  /\ \A k \in AuKeys, p \in Answers : << k, p >> \in a.refused => Met(a, k)

AuOK(a) == a \in AuType /\ HandlerOK(a) /\ AnswersMet(a)

\* What the action property says of a step, and what is so of every step but one: no request gets a saved password.
NotResent(a, x) ==
  \A r \in AuthRequests :
    x.req[r].stored /\ ~ a.req[r].stored =>
      a.req[r].key \in a.forgot \/ << a.req[r].key, x.req[r].answer >> \notin a.refused

NothingRead(a, x) == \A r \in AuthRequests : x.req[r].stored => a.req[r].stored

LEMMA AuInitEstablishes == AuInit => AuOK(au)
<1> SUFFICES ASSUME NEW saved \in [Keys -> Answers], NEW server \in [Keys -> Passwords],
                    au = [persisted |-> {}, suppressed |-> {}, submitted |-> {}, active |-> NoRequest, phase |-> "idle",
                          saved |-> saved, server |-> server, cache |-> [k \in Keys |-> NoPassword], changes |-> 0,
                          req |-> [r \in AuthRequests |-> [state |-> "new", key |-> CHOOSE k \in Keys : TRUE,
                                                           answer |-> NoPassword, stored |-> FALSE]],
                          refused |-> {}, forgot |-> {}]
             PROVE  AuOK(au)
  BY DEF AuInit
<1> DEFINE first == [state |-> "new", key |-> CHOOSE k \in Keys : TRUE, answer |-> NoPassword, stored |-> FALSE]
           req == [r \in AuthRequests |-> first]
<1>1. first \in AuRequestType /\ first.state = "new" /\ NoPassword \in Answers
  BY DEF AuRequestType, AuKeys, Answers
<1> HIDE DEF first
<1>2. req \in [AuthRequests -> AuRequestType] /\ \A r \in AuthRequests : req[r].state = "new"
  BY <1>1
<1>3. au.req = req
  BY DEF first
<1> HIDE DEF req
<1>4. au \in AuType
  BY <1>1, <1>2, <1>3 DEF AuType
<1>5. HandlerOK(au) /\ AnswersMet(au)
  BY <1>2, <1>3 DEF HandlerOK, AnswersMet
<1> QED BY <1>4, <1>5 DEF AuOK

\* What is remembered of a challenge is remembered, or known to have been dropped.
LEMMA RememberKeeps ==
  ASSUME NEW a \in AuType, NEW field \in { "persisted", "suppressed", "submitted" }, NEW k \in AuKeys,
         NEW x, x = RememberChallenge(a, field, k)
  PROVE  /\ x \in AuType /\ Met(x, k) /\ \A j : Met(a, j) => Met(x, j)
         /\ x.active = a.active /\ x.phase = a.phase /\ x.saved = a.saved /\ x.cache = a.cache
         /\ x.req = a.req /\ x.refused = a.refused
<1> DEFINE set == IF Overflows(a[field], k) THEN { k } ELSE a[field] \union { k }
           forgot == IF Overflows(a[field], k) THEN a.forgot \union a[field] ELSE a.forgot
<1>1. x = [a EXCEPT ![field] = set, !.forgot = forgot]
  BY DEF RememberChallenge, AuType
<1>2. a[field] \subseteq AuKeys /\ a.forgot \subseteq AuKeys
  BY DEF AuType
<1>3. /\ set \subseteq AuKeys /\ forgot \subseteq AuKeys /\ a.forgot \subseteq forgot
      /\ k \in set /\ a[field] \subseteq set \union forgot
  BY <1>2
<1> HIDE DEF set, forgot
<1>4. /\ x \in AuType /\ x[field] = set /\ x.forgot = forgot
      /\ \A other \in { "persisted", "suppressed", "submitted" } \ { field } : x[other] = a[other]
      /\ x.active = a.active /\ x.phase = a.phase /\ x.saved = a.saved /\ x.cache = a.cache
      /\ x.req = a.req /\ x.refused = a.refused
  BY <1>1, <1>3, ZenonT(60) DEF AuType
<1>5. \A z : Remembered(z) = z["persisted"] \union z["suppressed"] \union z["submitted"]
  BY DEF Remembered
<1>6. Met(x, k) /\ \A j : Met(a, j) => Met(x, j)
  BY <1>3, <1>4, <1>5 DEF Met
<1> QED BY <1>4, <1>6

(***************************************************************************)
(* One request is written, while nothing that is remembered changes.       *)
(***************************************************************************)
PutRequest(a, r, q) == [a EXCEPT !.req = [a.req EXCEPT ![r] = q]]

LEMMA PutRequestFields ==
  ASSUME NEW a \in AuType, NEW r \in AuthRequests, NEW q \in AuRequestType
  PROVE  /\ PutRequest(a, r, q) \in AuType /\ PutRequest(a, r, q).req[r] = q
         /\ \A o \in AuthRequests \ { r } : PutRequest(a, r, q).req[o] = a.req[o]
         /\ \A j : Met(PutRequest(a, r, q), j) <=> Met(a, j)
         /\ Remembered(PutRequest(a, r, q)) = Remembered(a)
         /\ PutRequest(a, r, q).phase = a.phase /\ PutRequest(a, r, q).active = a.active
         /\ PutRequest(a, r, q).cache = a.cache /\ PutRequest(a, r, q).refused = a.refused
<1> DEFINE req == [a.req EXCEPT ![r] = q]
           x == PutRequest(a, r, q)
<1>1. x = [a EXCEPT !.req = req] /\ a.req \in [AuthRequests -> AuRequestType]
  BY DEF PutRequest, AuType
<1>2. /\ req \in [AuthRequests -> AuRequestType] /\ req[r] = q
      /\ \A o \in AuthRequests \ { r } : req[o] = a.req[o]
  BY <1>1
<1> HIDE DEF req, x
<1>3. /\ x \in AuType /\ x.req = req /\ x.persisted = a.persisted /\ x.suppressed = a.suppressed
      /\ x.submitted = a.submitted /\ x.forgot = a.forgot /\ x.phase = a.phase /\ x.active = a.active
      /\ x.cache = a.cache /\ x.refused = a.refused
  BY <1>1, <1>2 DEF AuType
<1>4. Remembered(x) = Remembered(a) /\ \A j : Met(x, j) <=> Met(a, j)
  BY <1>3 DEF Remembered, Met
<1> QED BY <1>2, <1>3, <1>4 DEF x

LEMMA PutRequestKeeps ==
  ASSUME NEW a, AuOK(a), NEW r \in AuthRequests, NEW q \in AuRequestType, q.state # "new", q.key \in Keys,
         a.phase = "idle" \/ r # a.active, q.stored => a.req[r].stored,
         q.state = "sent" /\ q.answer # NoPassword => Met(a, q.key)
  PROVE  AuOK(PutRequest(a, r, q)) /\ NothingRead(a, PutRequest(a, r, q))
<1> DEFINE x == PutRequest(a, r, q)
<1>1. a \in AuType /\ HandlerOK(a) /\ AnswersMet(a)
  BY DEF AuOK
<1>2. /\ x \in AuType /\ x.req[r] = q /\ \A o \in AuthRequests \ { r } : x.req[o] = a.req[o]
      /\ \A j : Met(x, j) <=> Met(a, j)
      /\ Remembered(x) = Remembered(a) /\ x.phase = a.phase /\ x.active = a.active
      /\ x.cache = a.cache /\ x.refused = a.refused
  BY <1>1, PutRequestFields
<1> HIDE DEF x
<1>3. HandlerOK(x)
  BY <1>1, <1>2 DEF HandlerOK
<1>4. AnswersMet(x)
  BY <1>1, <1>2 DEF AnswersMet
<1>5. AuOK(x) /\ NothingRead(a, x)
  BY <1>2, <1>3, <1>4 DEF AuOK, NothingRead
<1> QED BY <1>5 DEF x

\* The engine's cache and the server.
LEMMA OutsideKeeps ==
  ASSUME NEW a, AuOK(a), NEW x \in AuType,
         x.persisted = a.persisted, x.suppressed = a.suppressed, x.submitted = a.submitted, x.forgot = a.forgot,
         x.active = a.active, x.phase = a.phase, x.req = a.req,
         \A k \in Keys : x.cache[k] # NoPassword => Met(a, k),
         \A k \in AuKeys, p \in Answers : << k, p >> \in x.refused => Met(a, k)
  PROVE  AuOK(x) /\ NothingRead(a, x)
<1>1. Remembered(x) = Remembered(a) /\ \A j : Met(x, j) <=> Met(a, j)
  BY DEF Remembered, Met
<1>2. HandlerOK(x)
  BY <1>1 DEF AuOK, HandlerOK
<1>3. AnswersMet(x)
  BY <1>1 DEF AuOK, AnswersMet
<1> QED BY <1>2, <1>3 DEF AuOK, NothingRead

LEMMA ExternalKeeps ==
  ASSUME AuOK(au),
         \/ \E r \in AuthRequests : ServerAnswers(r) \/ EngineRetries(r) \/ \E k \in Keys : Send(r, k)
         \/ \E k \in Keys : EngineForgets(k) \/ RemoveSaved(k) \/ \E p \in Passwords : ServerChanges(k, p)
  PROVE  AuOK(au') /\ NothingRead(au, au')
<1>1. /\ au \in AuType /\ HandlerOK(au) /\ AnswersMet(au) /\ au.req \in [AuthRequests -> AuRequestType] /\ NoPassword \in Answers
      /\ au.cache \in [Keys -> Answers] /\ au.saved \in [Keys -> Answers] /\ Passwords \subseteq Answers
      /\ au.server \in [Keys -> Passwords] /\ au.changes \in Nat /\ au.refused \subseteq AuKeys \X Answers
      /\ Keys \subseteq AuKeys
  BY DEF AuOK, AuType, Answers, AuKeys
<1>2. ASSUME NEW r \in AuthRequests, NEW k \in Keys, Send(r, k) PROVE AuOK(au') /\ NothingRead(au, au')
  <2> DEFINE q == [state |-> "sent", key |-> k, answer |-> au.cache[k], stored |-> FALSE]
  <2>1. q \in AuRequestType /\ q.state = "sent" /\ q.key = k /\ q.answer = au.cache[k] /\ ~ q.stored
    BY <1>1 DEF AuRequestType
  <2>2. au.req[r].state = "new" /\ (au.phase = "idle" \/ r # au.active) /\ au' = PutRequest(au, r, q)
    BY <1>1, <1>2 DEF Send, PutRequest, HandlerOK
  <2> HIDE DEF q
  <2>3. q.answer # NoPassword => Met(au, q.key)
    BY <1>1, <2>1 DEF AnswersMet
  <2> QED BY <2>1, <2>2, <2>3, PutRequestKeeps
<1>3. ASSUME NEW r \in AuthRequests, EngineRetries(r) PROVE AuOK(au') /\ NothingRead(au, au')
  <2> DEFINE old == au.req[r]
             q == [old EXCEPT !.state = "sent", !.answer = au.cache[old.key], !.stored = FALSE]
  <2>1. /\ old.state = "challenged" /\ r # au.active /\ old \in AuRequestType /\ au' = PutRequest(au, r, q)
        /\ au.cache[old.key] # NoPassword
    BY <1>1, <1>3 DEF EngineRetries, PutRequest, AuType
  <2>2. old.key \in Keys
    BY <1>1, <2>1 DEF AnswersMet
  <2>3. q \in AuRequestType /\ q.state = "sent" /\ q.key = old.key /\ q.answer = au.cache[old.key] /\ ~ q.stored
    BY <1>1, <2>1, <2>2 DEF AuRequestType
  <2>4. Met(au, q.key)
    BY <1>1, <2>1, <2>2, <2>3 DEF AnswersMet
  <2> HIDE DEF q
  <2> QED BY <2>1, <2>2, <2>3, <2>4, PutRequestKeeps
<1>4. ASSUME NEW r \in AuthRequests, ServerAnswers(r) PROVE AuOK(au') /\ NothingRead(au, au')
  <2> DEFINE old == au.req[r]
             state == IF old.answer = au.server[old.key] THEN "done" ELSE "challenged"
             q == [old EXCEPT !.state = state]
             held == IF old.answer = au.server[old.key] THEN old.answer
                     ELSE IF au.cache[old.key] = old.answer THEN NoPassword ELSE au.cache[old.key]
             cache == [au.cache EXCEPT ![old.key] = held]
             refused == IF old.answer = au.server[old.key] \/ old.answer = NoPassword THEN au.refused
                        ELSE au.refused \union { << old.key, old.answer >> }
             w == PutRequest(au, r, q)
             x == au'
  <2>1. /\ old.state = "sent" /\ old \in AuRequestType /\ old.key \in Keys /\ old.answer \in Answers
        /\ old.answer # NoPassword => Met(au, old.key)
        /\ au.phase = "idle" \/ r # au.active
    BY <1>1, <1>4 DEF ServerAnswers, AnswersMet, AuRequestType, HandlerOK
  <2>2. x = [w EXCEPT !.cache = cache, !.refused = refused]
    <3>1. CASE old.answer = au.server[old.key]
      <4>1. x = [au EXCEPT !.req[r].state = "done", !.cache[old.key] = old.answer]
        BY <1>4, <3>1 DEF ServerAnswers
      <4>2. refused = au.refused /\ cache = [au.cache EXCEPT ![old.key] = old.answer]
            /\ q = [old EXCEPT !.state = "done"]
        BY <3>1
      <4> HIDE DEF x, refused, cache, q
      <4> QED BY <1>1, <4>1, <4>2 DEF PutRequest, AuType
    <3>2. CASE old.answer # au.server[old.key]
      <4>1. x = [au EXCEPT !.req[r].state = "challenged", !.cache[old.key] = held, !.refused = refused]
        <5>1. x = [au EXCEPT !.req[r].state = "challenged",
                             !.cache[old.key] = IF @ = old.answer THEN NoPassword ELSE @,
                             !.refused = IF old.answer = NoPassword THEN @ ELSE @ \union { << old.key, old.answer >> }]
          BY <1>4, <3>2 DEF ServerAnswers
        <5> HIDE DEF x
        <5> QED BY <1>1, <3>2, <5>1 DEF AuType
      <4>2. q = [old EXCEPT !.state = "challenged"]
        BY <3>2
      <4> HIDE DEF x, refused, held, q
      <4> QED BY <1>1, <4>1, <4>2 DEF PutRequest, AuType
    <3> QED BY <3>1, <3>2
  <2>3. state \in { "done", "challenged" }
    OBVIOUS
  <2>4. q \in AuRequestType /\ q.state \in { "done", "challenged" } /\ q.key = old.key /\ q.stored = old.stored
    <3> HIDE DEF state
    <3> QED BY <2>1, <2>3 DEF AuRequestType
  <2>5. /\ cache \in [Keys -> Answers] /\ refused \subseteq AuKeys \X Answers
        /\ \A k \in Keys : cache[k] # NoPassword => Met(au, k)
        /\ \A k \in AuKeys, p \in Answers : << k, p >> \in refused => Met(au, k)
    <3>1. held \in Answers /\ (held # NoPassword => Met(au, old.key))
      BY <1>1, <2>1 DEF AnswersMet
    <3>2. refused \subseteq AuKeys \X Answers
      BY <1>1, <2>1
    <3>3. \A k \in AuKeys, p \in Answers : << k, p >> \in refused => Met(au, k)
      BY <1>1, <2>1 DEF AnswersMet
    <3> HIDE DEF held, refused
    <3>4. cache \in [Keys -> Answers] /\ \A k \in Keys : cache[k] # NoPassword => Met(au, k)
      BY <1>1, <3>1 DEF AnswersMet
    <3> QED BY <3>2, <3>3, <3>4
  <2> HIDE DEF q, cache, refused, x
  <2>6. AuOK(w) /\ NothingRead(au, w) /\ w \in AuType /\ \A k : Met(w, k) <=> Met(au, k)
    BY <1>1, <2>1, <2>4, PutRequestKeeps, PutRequestFields
  <2> HIDE DEF w
  <2>7. /\ x \in AuType /\ x.cache = cache /\ x.refused = refused
        /\ x.persisted = w.persisted /\ x.suppressed = w.suppressed /\ x.submitted = w.submitted
        /\ x.forgot = w.forgot /\ x.active = w.active /\ x.phase = w.phase /\ x.req = w.req
    BY <2>2, <2>5, <2>6 DEF AuType
  <2>8. AuOK(x) /\ NothingRead(au, x)
    BY <2>5, <2>6, <2>7, OutsideKeeps DEF NothingRead
  <2> QED BY <2>8 DEF x
<1>5. ASSUME NEW k \in Keys, EngineForgets(k) PROVE AuOK(au') /\ NothingRead(au, au')
  <2> DEFINE cache == [au.cache EXCEPT ![k] = NoPassword]
             x == au'
  <2>1. x = [au EXCEPT !.cache = cache]
    BY <1>1, <1>5 DEF EngineForgets
  <2>2. cache \in [Keys -> Answers] /\ \A j \in Keys : cache[j] # NoPassword => au.cache[j] # NoPassword
    BY <1>1
  <2> HIDE DEF cache, x
  <2>3. /\ x \in AuType /\ x.cache = cache /\ x.refused = au.refused
        /\ x.persisted = au.persisted /\ x.suppressed = au.suppressed /\ x.submitted = au.submitted
        /\ x.forgot = au.forgot /\ x.active = au.active /\ x.phase = au.phase /\ x.req = au.req
    BY <1>1, <2>1, <2>2 DEF AuType
  <2>4. AuOK(x) /\ NothingRead(au, x)
    BY <1>1, <2>2, <2>3, OutsideKeeps DEF AnswersMet
  <2> QED BY <2>4 DEF x
<1>6. ASSUME NEW k \in Keys, RemoveSaved(k) PROVE AuOK(au') /\ NothingRead(au, au')
  <2> DEFINE saved == [au.saved EXCEPT ![k] = NoPassword]
             x == au'
  <2>1. x = [au EXCEPT !.saved = saved] /\ saved \in [Keys -> Answers]
    BY <1>1, <1>6 DEF RemoveSaved
  <2> HIDE DEF saved, x
  <2>2. /\ x \in AuType /\ x.cache = au.cache /\ x.refused = au.refused
        /\ x.persisted = au.persisted /\ x.suppressed = au.suppressed /\ x.submitted = au.submitted
        /\ x.forgot = au.forgot /\ x.active = au.active /\ x.phase = au.phase /\ x.req = au.req
    BY <1>1, <2>1 DEF AuType
  <2>3. AuOK(x) /\ NothingRead(au, x)
    BY <1>1, <2>2, OutsideKeeps DEF AnswersMet
  <2> QED BY <2>3 DEF x
<1>7. ASSUME NEW k \in Keys, NEW p \in Passwords, ServerChanges(k, p) PROVE AuOK(au') /\ NothingRead(au, au')
  <2> DEFINE server == [au.server EXCEPT ![k] = p]
             changes == au.changes + 1
             refused == au.refused \ { << k, p >> }
             x == au'
  <2>1. /\ x = [au EXCEPT !.server = server, !.changes = changes, !.refused = refused]
        /\ server \in [Keys -> Passwords] /\ changes \in Nat /\ refused \subseteq au.refused
        /\ refused \subseteq AuKeys \X Answers
    <3>1. x = [au EXCEPT !.server = server, !.changes = changes, !.refused = refused]
      <4>1. x = [au EXCEPT !.server[k] = p, !.changes = changes, !.refused = refused]
        BY <1>7 DEF ServerChanges
      <4> HIDE DEF x, changes, refused
      <4> QED BY <1>1, <4>1 DEF AuType
    <3> HIDE DEF x
    <3> QED BY <1>1, <3>1
  <2> HIDE DEF server, changes, refused, x
  <2>2. /\ x \in AuType /\ x.cache = au.cache /\ x.refused = refused
        /\ x.persisted = au.persisted /\ x.suppressed = au.suppressed /\ x.submitted = au.submitted
        /\ x.forgot = au.forgot /\ x.active = au.active /\ x.phase = au.phase /\ x.req = au.req
    BY <1>1, <2>1 DEF AuType
  <2>3. AuOK(x) /\ NothingRead(au, x)
    BY <1>1, <2>1, <2>2, OutsideKeeps DEF AnswersMet
  <2> QED BY <2>3 DEF x
<1> QED BY <1>2, <1>3, <1>4, <1>5, <1>6, <1>7

----------------------------------------------------------------------------
(***************************************************************************)
(* A step of a handler: nothing that was remembered is forgotten unless an *)
(* overflow drops it, and what is sent is remembered.                      *)
(***************************************************************************)
LEMMA HandlerMoves ==
  ASSUME NEW a, AuOK(a), NEW x \in AuType, HandlerOK(x), \A j : Met(a, j) => Met(x, j),
         x.cache = a.cache, x.refused \subseteq a.refused,
         \A r \in AuthRequests :
           \/ x.req[r] = a.req[r]
           \/ /\ x.req[r].key = a.req[r].key /\ a.req[r].state # "new"
              /\ x.req[r].state = "sent" /\ x.req[r].answer # NoPassword => Met(x, x.req[r].key)
  PROVE  AuOK(x)
<1>1. AnswersMet(x)
  BY DEF AuOK, AnswersMet
<1> QED BY <1>1 DEF AuOK

\* What a handler that ends leaves behind.
LEMMA IdleFields ==
  ASSUME NEW a \in AuType
  PROVE  /\ Idle(a) \in AuType /\ HandlerOK(Idle(a)) /\ Idle(a).req = a.req /\ Idle(a).cache = a.cache
         /\ Idle(a).refused = a.refused /\ \A j : Met(Idle(a), j) <=> Met(a, j)
<1> DEFINE x == Idle(a)
<1>1. /\ x \in AuType /\ x.req = a.req /\ x.cache = a.cache /\ x.refused = a.refused /\ x.phase = "idle"
      /\ x.persisted = a.persisted /\ x.suppressed = a.suppressed /\ x.submitted = a.submitted
      /\ x.forgot = a.forgot
  BY DEF Idle, AuType
<1> HIDE DEF x
<1>2. HandlerOK(x) /\ \A j : Met(x, j) <=> Met(a, j)
  BY <1>1 DEF HandlerOK, Met, Remembered
<1> QED BY <1>1, <1>2 DEF x

LEMMA BlankAnswerKeeps ==
  ASSUME NEW a, AuOK(a), NEW r \in AuthRequests, a.req[r].state = "challenged"
  PROVE  /\ a.phase = "idle" \/ r # a.active => AuOK(BlankAnswer(a, r)) /\ NothingRead(a, BlankAnswer(a, r))
         /\ AuOK(Idle(BlankAnswer(a, r))) /\ NothingRead(a, Idle(BlankAnswer(a, r)))
<1> DEFINE old == a.req[r]
           q == [old EXCEPT !.state = "failed"]
           x == PutRequest(a, r, q)
<1>1. a \in AuType /\ AnswersMet(a) /\ old \in AuRequestType
  BY DEF AuOK, AuType
<1>2. BlankAnswer(a, r) = x
  BY <1>1 DEF BlankAnswer, PutRequest, AuType
<1>3. /\ q \in AuRequestType /\ q.state = "failed" /\ q.key = old.key /\ q.stored = old.stored /\ q.key \in Keys
  BY <1>1 DEF AuRequestType, AnswersMet
<1> HIDE DEF q
<1>4. a.phase = "idle" \/ r # a.active => AuOK(x) /\ NothingRead(a, x)
  BY <1>3, PutRequestKeeps
<1>5. /\ x \in AuType /\ x.req[r] = q /\ \A o \in AuthRequests \ { r } : x.req[o] = a.req[o]
      /\ \A j : Met(x, j) <=> Met(a, j)
      /\ x.cache = a.cache /\ x.refused = a.refused
  BY <1>1, <1>3, PutRequestFields
<1> HIDE DEF x
<1> DEFINE z == Idle(x)
<1>6. /\ z \in AuType /\ HandlerOK(z) /\ z.req = x.req /\ z.cache = x.cache /\ z.refused = x.refused
      /\ \A j : Met(z, j) <=> Met(x, j)
  BY <1>5, IdleFields
<1> HIDE DEF z
<1>7. AuOK(z)
  BY <1>3, <1>5, <1>6, HandlerMoves
<1>8. NothingRead(a, z)
  BY <1>3, <1>5, <1>6 DEF NothingRead
<1> QED BY <1>2, <1>4, <1>7, <1>8 DEF z

\* An answer is sent, once it is remembered that it was given.
LEMMA AnsweredWithKeeps ==
  ASSUME NEW a, AuOK(a), NEW r \in AuthRequests, a.req[r].state = "challenged",
         NEW w \in AuType, w.req[r].key = a.req[r].key, w.req[r].state = "challenged",
         \A o \in AuthRequests \ { r } : w.req[o] = a.req[o],
         \A j : Met(a, j) => Met(w, j), Met(w, a.req[r].key),
         w.cache = a.cache, w.refused \subseteq a.refused,
         NEW p \in Answers, NEW z, z = Idle(AnsweredWith(w, r, p, FALSE))
  PROVE  AuOK(z) /\ NothingRead(a, z)
<1> DEFINE old == w.req[r]
           q == [old EXCEPT !.state = "sent", !.answer = p, !.stored = FALSE]
           x == PutRequest(w, r, q)
<1>1. old \in AuRequestType
  BY DEF AuType
<1>2. AnsweredWith(w, r, p, FALSE) = x
  BY <1>1 DEF AnsweredWith, PutRequest, AuType
<1>3. /\ q \in AuRequestType /\ q.state = "sent" /\ q.key = a.req[r].key /\ q.answer = p
      /\ q.stored = FALSE
  BY <1>1 DEF AuRequestType
<1> HIDE DEF q
<1>4. /\ x \in AuType /\ x.req[r] = q /\ \A o \in AuthRequests \ { r } : x.req[o] = w.req[o]
      /\ \A j : Met(x, j) <=> Met(w, j)
      /\ x.cache = w.cache /\ x.refused = w.refused
  BY <1>3, PutRequestFields
<1> HIDE DEF x
<1>5. /\ z \in AuType /\ HandlerOK(z) /\ z.req = x.req /\ z.cache = x.cache /\ z.refused = x.refused
      /\ \A j : Met(z, j) <=> Met(x, j)
  BY <1>2, <1>4, IdleFields
<1>6. AuOK(z)
  <2>1. \A o \in AuthRequests :
          \/ z.req[o] = a.req[o]
          \/ /\ z.req[o].key = a.req[o].key /\ a.req[o].state # "new"
             /\ z.req[o].state = "sent" /\ z.req[o].answer # NoPassword => Met(z, z.req[o].key)
    BY <1>3, <1>4, <1>5, ZenonT(60)
  <2>2. /\ z \in AuType /\ HandlerOK(z) /\ z.cache = a.cache /\ z.refused \subseteq a.refused
        /\ \A j : Met(a, j) => Met(z, j)
    BY <1>4, <1>5
  <2> QED BY <2>1, <2>2, HandlerMoves
<1>7. NothingRead(a, z)
  BY <1>3, <1>4, <1>5 DEF NothingRead
<1> QED BY <1>6, <1>7

\* A challenge is taken up, or answered with nothing.
LEMMA RequestAuthenticationKeeps ==
  ASSUME AuOK(au), NEW r \in AuthRequests, NEW promptAllowed \in BOOLEAN, RequestAuthentication(r, promptAllowed)
  PROVE  AuOK(au') /\ NothingRead(au, au')
<1> DEFINE k == au.req[r].key
           begun == [au EXCEPT !.active = r]
<1>1. /\ au \in AuType /\ HandlerOK(au) /\ au.req[r].state = "challenged" /\ r # au.active
      /\ k \in AuKeys /\ au.persisted \subseteq AuKeys
  BY DEF AuOK, AuType, AuRequestType, RequestAuthentication
<1>2. AuOK(BlankAnswer(au, r)) /\ NothingRead(au, BlankAnswer(au, r))
  BY <1>1, BlankAnswerKeeps
<1>3. /\ begun \in AuType /\ begun.active = r /\ begun.phase = au.phase /\ begun.req = au.req
      /\ begun.persisted = au.persisted /\ begun.suppressed = au.suppressed
      /\ begun.submitted = au.submitted /\ begun.forgot = au.forgot /\ begun.cache = au.cache
      /\ begun.refused = au.refused
  BY <1>1 DEF AuType
<1>4. ASSUME NEW w \in AuType, w.active = r, w.req = au.req, w.cache = au.cache, w.refused = au.refused,
             \A j : Met(au, j) => Met(w, j),
             NEW phase \in { "removing", "reading", "dialog" }, phase = "reading" => k \notin Remembered(w),
             au' = [w EXCEPT !.phase = phase]
      PROVE  AuOK(au') /\ NothingRead(au, au')
  <2> DEFINE x == au'
  <2> HIDE DEF x
  <2>1. x = [w EXCEPT !.phase = phase]
    BY <1>4 DEF x
  <2>2. /\ x \in AuType /\ x.active = r /\ x.phase = phase /\ x.req = w.req /\ x.cache = w.cache
        /\ x.refused = w.refused /\ x.persisted = w.persisted /\ x.suppressed = w.suppressed
        /\ x.submitted = w.submitted /\ x.forgot = w.forgot
    BY <1>4, <2>1 DEF AuType
  <2>3. Remembered(x) = Remembered(w) /\ \A j : Met(au, j) => Met(x, j)
    BY <1>4, <2>2 DEF Remembered, Met
  <2>4. HandlerOK(x)
    BY <1>1, <1>4, <2>2, <2>3 DEF HandlerOK
  <2>5. AuOK(x)
    BY <1>4, <2>2, <2>3, <2>4, HandlerMoves
  <2>6. NothingRead(au, x)
    BY <1>4, <2>2 DEF NothingRead
  <2> QED BY <2>5, <2>6 DEF x
<1>5. ASSUME NEW available \in BOOLEAN,
             au' = IF available /\ k \in Persistable
                   THEN IF k \in au.persisted THEN [Rejected(begun, k) EXCEPT !.phase = "removing"]
                        ELSE IF MayRead(k) THEN [begun EXCEPT !.phase = "reading"]
                        ELSE [begun EXCEPT !.phase = "dialog"]
                   ELSE [begun EXCEPT !.phase = "dialog"]
      PROVE  AuOK(au') /\ NothingRead(au, au')
  <2>1. Remembered(begun) = Remembered(au) /\ \A j : Met(au, j) => Met(begun, j)
    BY <1>3 DEF Remembered, Met
  <2>2. CASE au' = [begun EXCEPT !.phase = "dialog"]
    <3> HIDE DEF begun, k
    <3> QED BY <1>3, <1>4, <2>1, <2>2
  <2>3. CASE k \notin au.persisted /\ MayRead(k) /\ au' = [begun EXCEPT !.phase = "reading"]
    <3>1. k \notin Remembered(begun)
      BY <1>3, <2>3 DEF Remembered, MayRead
    <3> HIDE DEF begun, k
    <3> QED BY <1>3, <1>4, <2>1, <2>3, <3>1
  <2>4. CASE au' = [Rejected(begun, k) EXCEPT !.phase = "removing"]
    <3> DEFINE persisted == begun.persisted \ { k }
               v == [begun EXCEPT !.persisted = persisted]
               w == RememberChallenge(v, "suppressed", k)
    <3>1. Rejected(begun, k) = w
      BY <1>3 DEF Rejected
    <3>2. persisted \subseteq AuKeys
      BY <1>1, <1>3
    <3>3. \A j : j \in begun.persisted => j = k \/ j \in persisted
      OBVIOUS
    <3> HIDE DEF persisted, begun
    <3>4. /\ v \in AuType /\ v.persisted = persisted /\ v.active = r /\ v.req = au.req
          /\ v.suppressed = au.suppressed /\ v.submitted = au.submitted /\ v.forgot = au.forgot
          /\ v.cache = au.cache /\ v.refused = au.refused
      BY <1>3, <3>2 DEF AuType
    <3> HIDE DEF v
    <3>5. /\ w \in AuType /\ Met(w, k) /\ \A j : Met(v, j) => Met(w, j)
          /\ w.active = v.active /\ w.cache = v.cache /\ w.req = v.req /\ w.refused = v.refused
      <4>1. w = RememberChallenge(v, "suppressed", k) /\ "suppressed" \in { "persisted", "suppressed", "submitted" }
        OBVIOUS
      <4> HIDE DEF w, k
      <4> QED BY <1>1, <3>4, <4>1, RememberKeeps, SMTT(40)
    <3> HIDE DEF w
    <3>6. \A j : Met(au, j) => Met(w, j)
      <4>1. \A j : Met(au, j) => j = k \/ Met(v, j)
        BY <1>3, <3>3, <3>4 DEF Met, Remembered
      <4> QED BY <3>5, <4>1
    <3>7. au' = [w EXCEPT !.phase = "removing"]
      BY <2>4, <3>1
    <3> HIDE DEF k
    <3> QED BY <1>4, <3>4, <3>5, <3>6, <3>7
  <2> QED BY <1>5, <2>2, <2>3, <2>4
<1>6. \/ au' = BlankAnswer(au, r)
      \/ \E available \in BOOLEAN :
           au' = IF available /\ k \in Persistable
                 THEN IF k \in au.persisted THEN [Rejected(begun, k) EXCEPT !.phase = "removing"]
                      ELSE IF MayRead(k) THEN [begun EXCEPT !.phase = "reading"]
                      ELSE [begun EXCEPT !.phase = "dialog"]
                 ELSE [begun EXCEPT !.phase = "dialog"]
  BY DEF RequestAuthentication
<1> QED BY <1>2, <1>5, <1>6

\* A handler goes on, with nothing changed of what is remembered.
LEMMA WaitingKeeps ==
  ASSUME AuOK(au), au.phase # "idle", NEW saved \in [Keys -> Answers], NEW x \in AuType,
         x = [au EXCEPT !.saved = saved, !.phase = "dialog"]
  PROVE  AuOK(x) /\ NothingRead(au, x)
<1>1. au \in AuType /\ HandlerOK(au)
  BY DEF AuOK
<1>2. /\ x.active = au.active /\ x.phase = "dialog" /\ x.req = au.req /\ x.cache = au.cache
      /\ x.refused = au.refused /\ x.persisted = au.persisted /\ x.suppressed = au.suppressed
      /\ x.submitted = au.submitted /\ x.forgot = au.forgot
  BY <1>1 DEF AuType
<1>3. HandlerOK(x) /\ \A j : Met(au, j) => Met(x, j)
  BY <1>1, <1>2 DEF HandlerOK, Met, Remembered
<1>4. AuOK(x)
  BY <1>2, <1>3, HandlerMoves
<1> QED BY <1>2, <1>4 DEF NothingRead

LEMMA RemoveFinishedKeeps ==
  ASSUME AuOK(au), NEW ok \in BOOLEAN, RemoveFinished(ok)
  PROVE  AuOK(au') /\ NothingRead(au, au')
<1> DEFINE k == au.req[au.active].key
           saved == IF ok THEN [au.saved EXCEPT ![k] = NoPassword] ELSE au.saved
           x == [au EXCEPT !.saved = saved, !.phase = "dialog"]
<1>1. au \in AuType /\ au.saved \in [Keys -> Answers] /\ NoPassword \in Answers /\ au.phase # "idle"
  BY DEF AuOK, AuType, Answers, RemoveFinished
<1>2. au' = x
  <2>1. CASE ok
    <3>1. au' = [au EXCEPT !.phase = "dialog", !.saved[k] = NoPassword]
      BY <2>1 DEF RemoveFinished
    <3> HIDE DEF k
    <3> QED BY <1>1, <2>1, <3>1 DEF AuType
  <2>2. CASE ~ ok
    BY <1>1, <2>2 DEF RemoveFinished, AuType
  <2> QED BY <2>1, <2>2
<1>3. saved \in [Keys -> Answers]
  BY <1>1
<1> HIDE DEF saved
<1>4. x \in AuType
  BY <1>1, <1>3 DEF AuType
<1> HIDE DEF x
<1>5. AuOK(x) /\ NothingRead(au, x)
  BY <1>1, <1>3, <1>4, WaitingKeeps DEF x
<1> QED BY <1>2, <1>5

\* The one step that sends a saved password: nothing was remembered of its key when it was read.
LEMMA ReadFinishedKeeps ==
  ASSUME AuOK(au), NEW ok \in BOOLEAN, ReadFinished(ok)
  PROVE  AuOK(au') /\ NotResent(au, au')
<1> DEFINE r == au.active
           k == au.req[r].key
           p == au.saved[k]
           v == AnsweredWith(au, r, p, TRUE)
           w == RememberChallenge(v, "persisted", k)
<1>1. /\ au \in AuType /\ HandlerOK(au) /\ AnswersMet(au) /\ au.saved \in [Keys -> Answers]
      /\ au.phase = "reading" /\ r \in AuthRequests /\ au.req \in [AuthRequests -> AuRequestType]
      /\ au.req[r].state = "challenged"
      /\ k \in Keys /\ k \in AuKeys /\ p \in Answers /\ k \notin Remembered(au)
  BY DEF AuOK, AuType, HandlerOK, AnswersMet, AuKeys, ReadFinished
<1>2. CASE ~ (ok /\ au.saved[k] # NoPassword)
  <2> DEFINE x == [au EXCEPT !.saved = au.saved, !.phase = "dialog"]
  <2>1. au' = x
    BY <1>1, <1>2 DEF ReadFinished, AuType
  <2>2. x \in AuType
    BY <1>1 DEF AuType
  <2> HIDE DEF x
  <2>3. AuOK(x) /\ NothingRead(au, x)
    BY <1>1, <2>2, WaitingKeeps DEF x
  <2> QED BY <2>1, <2>3 DEF NothingRead, NotResent
<1>3. CASE ok /\ au.saved[k] # NoPassword
  <2> DEFINE x == Idle(w)
  <2>1. au' = x
    BY <1>3 DEF ReadFinished, StoredAnswer
  <2> DEFINE q == [au.req[r] EXCEPT !.state = "sent", !.answer = p, !.stored = TRUE]
  <2>2. q \in AuRequestType /\ q.state = "sent" /\ q.key = k /\ q.answer = p
    BY <1>1 DEF AuRequestType
  <2>3. v = PutRequest(au, r, q)
    BY <1>1 DEF AnsweredWith, PutRequest, AuType
  <2> HIDE DEF q, v
  <2>4. /\ v \in AuType /\ v.req[r] = q /\ \A o \in AuthRequests \ { r } : v.req[o] = au.req[o]
        /\ \A j : Met(v, j) <=> Met(au, j)
        /\ v.cache = au.cache /\ v.refused = au.refused
    <3>1. au \in AuType /\ r \in AuthRequests /\ q \in AuRequestType
      BY <1>1, <2>2
    <3> HIDE DEF r, k, p
    <3> QED BY <2>3, <3>1, PutRequestFields
  <2>5. /\ w \in AuType /\ Met(w, k) /\ \A j : Met(v, j) => Met(w, j)
        /\ w.cache = v.cache /\ w.req = v.req /\ w.refused = v.refused
    <3>1. w = RememberChallenge(v, "persisted", k) /\ "persisted" \in { "persisted", "suppressed", "submitted" }
      OBVIOUS
    <3> HIDE DEF w, k
    <3> QED BY <1>1, <2>4, <3>1, RememberKeeps, SMTT(40)
  <2> HIDE DEF w
  <2>6. /\ x \in AuType /\ HandlerOK(x) /\ x.req = w.req /\ x.cache = w.cache /\ x.refused = w.refused
        /\ \A j : Met(x, j) <=> Met(w, j)
    BY <2>5, IdleFields
  <2> HIDE DEF x
  <2>7. AuOK(x)
    <3>1. \A o \in AuthRequests :
            \/ x.req[o] = au.req[o]
            \/ /\ x.req[o].key = au.req[o].key /\ au.req[o].state # "new"
               /\ x.req[o].state = "sent" /\ x.req[o].answer # NoPassword => Met(x, x.req[o].key)
      <4>1. x.req[r] = q /\ Met(x, k)
        BY <2>4, <2>5, <2>6
      <4>2. \A o \in AuthRequests \ { r } : x.req[o] = au.req[o]
        BY <2>4, <2>5, <2>6
      <4> HIDE DEF r
      <4> QED BY <1>1, <2>2, <4>1, <4>2 DEF k
    <3>2. \A j : Met(au, j) => Met(x, j)
      BY <2>4, <2>5, <2>6
    <3> QED BY <2>4, <2>5, <2>6, <3>1, <3>2, HandlerMoves
  <2>8. NotResent(au, x)
    <3>1. \A o \in AuthRequests \ { r } : x.req[o] = au.req[o]
      BY <2>4, <2>5, <2>6
    <3>2. x.req[r].answer = p
      BY <2>2, <2>4, <2>5, <2>6
    <3>3. << k, p >> \in au.refused => k \in au.forgot
      BY <1>1 DEF AnswersMet, Met
    <3> QED BY <3>1, <3>2, <3>3 DEF NotResent
  <2> QED BY <2>1, <2>7, <2>8
<1> QED BY <1>2, <1>3

LEMMA DialogKeeps ==
  ASSUME AuOK(au), DialogRejected \/ \E p \in Passwords, remember \in BOOLEAN : DialogAccepted(p, remember)
  PROVE  AuOK(au') /\ NothingRead(au, au')
<1> DEFINE r == au.active
           k == au.req[r].key
<1>1. /\ au \in AuType /\ HandlerOK(au) /\ AnswersMet(au) /\ au.refused \subseteq AuKeys \X Answers
      /\ au.phase = "dialog" /\ r \in AuthRequests /\ au.req[r] \in AuRequestType
      /\ au.req[r].state = "challenged" /\ k \in Keys /\ k \in AuKeys
  BY DEF AuOK, AuType, HandlerOK, AnswersMet, AuKeys, DialogRejected, DialogAccepted
<1>2. CASE DialogRejected
  <2>1. au' = Idle(BlankAnswer(au, r))
    BY <1>2 DEF DialogRejected
  <2> HIDE DEF r
  <2> QED BY <1>1, <2>1, BlankAnswerKeeps
<1>3. ASSUME NEW p \in Passwords, NEW remember \in BOOLEAN, DialogAccepted(p, remember)
      PROVE  AuOK(au') /\ NothingRead(au, au')
  <2> DEFINE q == [au.req[r] EXCEPT !.answer = p]
             f == [au EXCEPT !.req[r].answer = p]
  <2>1. p \in Answers
    BY DEF Answers
  <2>2. /\ q \in AuRequestType /\ q.state = "challenged" /\ q.key = k /\ q.stored = au.req[r].stored
    BY <1>1, <2>1 DEF AuRequestType
  <2>3. f = PutRequest(au, r, q)
    BY <1>1 DEF PutRequest, AuType
  <2> HIDE DEF q, f
  <2>4. /\ f \in AuType /\ f.req[r] = q /\ \A o \in AuthRequests \ { r } : f.req[o] = au.req[o]
        /\ \A j : Met(f, j) <=> Met(au, j)
        /\ Remembered(f) = Remembered(au) /\ f.phase = au.phase /\ f.active = au.active
        /\ f.cache = au.cache /\ f.refused = au.refused
    <3> HIDE DEF r, k
    <3> QED BY <1>1, <2>2, <2>3, PutRequestFields
  <2>5. CASE remember /\ k \in Persistable
    <3> DEFINE x == [f EXCEPT !.phase = "saving"]
    <3>1. au' = x
      BY <1>3, <2>5 DEF DialogAccepted, f
    <3>2. /\ x \in AuType /\ x.phase = "saving" /\ x.active = f.active /\ x.req = f.req /\ x.cache = f.cache
          /\ x.refused = f.refused /\ x.persisted = f.persisted /\ x.suppressed = f.suppressed
          /\ x.submitted = f.submitted /\ x.forgot = f.forgot
      BY <2>4 DEF AuType
    <3> HIDE DEF x
    <3>3. HandlerOK(x) /\ \A j : Met(au, j) => Met(x, j)
      BY <1>1, <2>2, <2>4, <3>2 DEF HandlerOK, Met, Remembered
    <3>4. AnswersMet(x)
      BY <1>1, <2>2, <2>4, <3>2, <3>3 DEF AnswersMet
    <3>5. AuOK(x) /\ NothingRead(au, x)
      BY <2>2, <2>4, <3>2, <3>3, <3>4 DEF AuOK, NothingRead
    <3> QED BY <3>1, <3>5
  <2>6. CASE ~ (remember /\ k \in Persistable)
    <3> DEFINE refused == f.refused \ { << k, p >> }
               v == [f EXCEPT !.refused = refused]
               w == RememberChallenge(v, "submitted", k)
    <3>1. au' = Idle(AnsweredWith(w, r, p, FALSE))
      <4>1. Submitted(f, k, p) = w
        <5> HIDE DEF k
        <5> QED BY <2>4 DEF Submitted, AuType
      <4> HIDE DEF w
      <4> QED BY <1>3, <2>6, <4>1 DEF DialogAccepted, f
    <3>2. refused \subseteq AuKeys \X Answers /\ refused \subseteq au.refused
      BY <1>1, <2>4
    <3> HIDE DEF refused
    <3>3. /\ v \in AuType /\ v.req = f.req /\ v.cache = f.cache
          /\ v.refused = refused /\ v.persisted = f.persisted /\ v.suppressed = f.suppressed
          /\ v.submitted = f.submitted /\ v.forgot = f.forgot
      BY <2>4, <3>2 DEF AuType
    <3> HIDE DEF v
    <3>4. \A j : Met(au, j) => Met(v, j)
      BY <2>4, <3>3 DEF Met, Remembered
    <3>5. /\ w \in AuType /\ Met(w, k) /\ \A j : Met(v, j) => Met(w, j)
          /\ w.cache = v.cache /\ w.req = v.req /\ w.refused = v.refused
      <4>1. w = RememberChallenge(v, "submitted", k) /\ "submitted" \in { "persisted", "suppressed", "submitted" }
        OBVIOUS
      <4> HIDE DEF w, k
      <4> QED BY <1>1, <3>3, <4>1, RememberKeeps, SMTT(40)
    <3> HIDE DEF w
    <3>6. /\ w.req[r].key = au.req[r].key /\ w.req[r].state = "challenged"
          /\ \A o \in AuthRequests \ { r } : w.req[o] = au.req[o]
          /\ \A j : Met(au, j) => Met(w, j)
          /\ Met(w, au.req[r].key) /\ w.cache = au.cache /\ w.refused \subseteq au.refused
      BY <2>2, <2>4, <3>2, <3>3, <3>4, <3>5
    <3> DEFINE x == Idle(AnsweredWith(w, r, p, FALSE))
    <3>7. au.req[r].state = "challenged" /\ r \in AuthRequests /\ x = Idle(AnsweredWith(w, r, p, FALSE))
      BY <1>1
    <3> HIDE DEF r, k, x
    <3>8. AuOK(x) /\ NothingRead(au, x)
      BY <2>1, <3>5, <3>6, <3>7, AnsweredWithKeeps
    <3> QED BY <3>1, <3>8 DEF x
  <2> QED BY <2>5, <2>6
<1> QED BY <1>2, <1>3

LEMMA WriteFinishedKeeps ==
  ASSUME AuOK(au), NEW ok \in BOOLEAN, WriteFinished(ok)
  PROVE  AuOK(au') /\ NothingRead(au, au')
<1> DEFINE r == au.active
           k == au.req[r].key
           p == au.req[r].answer
           written == IF ok THEN SavedFor(au, k, p) ELSE au
           refused == written.refused \ { << k, p >> }
           v == [written EXCEPT !.refused = refused]
           w == RememberChallenge(v, "submitted", k)
           x == Idle(AnsweredWith(w, r, p, FALSE))
<1>1. /\ au \in AuType /\ au.refused \subseteq AuKeys \X Answers /\ au.saved \in [Keys -> Answers]
      /\ r \in AuthRequests /\ au.suppressed \subseteq AuKeys
      /\ au.req[r].state = "challenged" /\ k \in Keys /\ k \in AuKeys /\ p \in Answers
  BY DEF AuOK, AuType, AuRequestType, HandlerOK, AnswersMet, AuKeys, WriteFinished
<1>2. au' = Idle(AnsweredWith(Submitted(written, k, p), r, p, FALSE))
  BY DEF WriteFinished
<1> HIDE DEF r, k, p
<1>3. /\ written \in AuType /\ \A j : Met(au, j) => Met(written, j)
      /\ written.cache = au.cache /\ written.req = au.req /\ written.refused = au.refused
  <2>1. CASE ~ ok
    BY <1>1, <2>1
  <2>2. CASE ok
    <3> DEFINE saved == [au.saved EXCEPT ![k] = p]
               suppressed == au.suppressed \ { k }
               b == [au EXCEPT !.saved = saved, !.suppressed = suppressed]
               c == RememberChallenge(b, "persisted", k)
    <3>1. written = c
      BY <1>1, <2>2 DEF SavedFor, AuType
    <3>2. saved \in [Keys -> Answers] /\ suppressed \subseteq AuKeys /\ \A j \in au.suppressed : j = k \/ j \in suppressed
      BY <1>1
    <3> HIDE DEF saved, suppressed
    <3>3. /\ b \in AuType /\ b.persisted = au.persisted /\ b.suppressed = suppressed /\ b.submitted = au.submitted
          /\ b.forgot = au.forgot /\ b.req = au.req /\ b.cache = au.cache /\ b.refused = au.refused
      BY <1>1, <3>2 DEF AuType
    <3> HIDE DEF b
    <3>4. /\ c \in AuType /\ Met(c, k) /\ \A j : Met(b, j) => Met(c, j)
          /\ c.cache = b.cache /\ c.req = b.req /\ c.refused = b.refused
      <4>1. c = RememberChallenge(b, "persisted", k) /\ "persisted" \in { "persisted", "suppressed", "submitted" }
        OBVIOUS
      <4> HIDE DEF c
      <4> QED BY <1>1, <3>3, <4>1, RememberKeeps, SMTT(40)
    <3> HIDE DEF c
    <3>5. \A j : Met(au, j) => Met(c, j)
      <4>1. \A j : Met(au, j) => j = k \/ Met(b, j)
        BY <3>2, <3>3 DEF Met, Remembered
      <4> QED BY <3>4, <4>1
    <3> QED BY <3>1, <3>3, <3>4, <3>5
  <2> QED BY <2>1, <2>2
<1>4. Submitted(written, k, p) = w
  <2> HIDE DEF written
  <2> QED BY <1>3 DEF Submitted, AuType
<1>5. refused \subseteq AuKeys \X Answers /\ refused \subseteq au.refused
  BY <1>1, <1>3
<1> HIDE DEF written, refused
<1>6. /\ v \in AuType /\ v.req = written.req /\ v.cache = written.cache
      /\ v.refused = refused /\ v.persisted = written.persisted /\ v.suppressed = written.suppressed
      /\ v.submitted = written.submitted /\ v.forgot = written.forgot
  BY <1>3, <1>5 DEF AuType
<1> HIDE DEF v
<1>7. \A j : Met(au, j) => Met(v, j)
  BY <1>3, <1>6 DEF Met, Remembered
<1>8. /\ w \in AuType /\ Met(w, k) /\ \A j : Met(v, j) => Met(w, j)
      /\ w.cache = v.cache /\ w.req = v.req /\ w.refused = v.refused
  <2>1. w = RememberChallenge(v, "submitted", k) /\ "submitted" \in { "persisted", "suppressed", "submitted" }
    OBVIOUS
  <2> HIDE DEF w
  <2> QED BY <1>1, <1>6, <2>1, RememberKeeps, SMTT(40)
<1> HIDE DEF w
<1>9. /\ w.req[r].key = au.req[r].key /\ w.req[r].state = "challenged"
      /\ \A o \in AuthRequests \ { r } : w.req[o] = au.req[o]
      /\ \A j : Met(au, j) => Met(w, j)
      /\ Met(w, au.req[r].key) /\ w.cache = au.cache /\ w.refused \subseteq au.refused
  BY <1>1, <1>3, <1>5, <1>6, <1>7, <1>8 DEF k
<1>10. x = Idle(AnsweredWith(w, r, p, FALSE))
  OBVIOUS
<1> HIDE DEF x
<1>11. AuOK(x) /\ NothingRead(au, x)
  BY <1>1, <1>8, <1>9, <1>10, AnsweredWithKeeps
<1> QED BY <1>2, <1>4, <1>10, <1>11

AuInv == AuOK(au)

LEMMA AuStepKeeps ==
  AuInv /\ [AuNext]_auVars =>
    AuInv' /\ [\A r \in AuthRequests :
                 au'.req[r].stored /\ ~ au.req[r].stored => \/ au.req[r].key \in au.forgot
                      \/ << au.req[r].key, au'.req[r].answer >> \notin au.refused]_auVars
<1> SUFFICES ASSUME AuOK(au), [AuNext]_auVars
             PROVE  AuOK(au') /\ (au' = au \/ NotResent(au, au'))
  BY DEF AuInv, NotResent, auVars
<1>1. CASE UNCHANGED auVars
  BY <1>1 DEF auVars
<1>2. ASSUME NothingRead(au, au') PROVE NotResent(au, au')
  BY <1>2 DEF NothingRead, NotResent
<1>3. CASE AuNext
  BY <1>2, <1>3, ExternalKeeps, RequestAuthenticationKeeps, RemoveFinishedKeeps, ReadFinishedKeeps, DialogKeeps,
     WriteFinishedKeeps DEF AuNext
<1> QED BY <1>1, <1>3

(***************************************************************************)
(* No loop of automatic attempts: a saved password that a server has       *)
(* refused is not read and sent again for a later challenge of its key,    *)
(* however many requests of the realm are under way and whether or not it  *)
(* could be deleted, unless an overflow dropped what was remembered.       *)
(***************************************************************************)
THEOREM RefusedPasswordsStay == AuSpec => RefusedIsNotResent
<1>1. AuInit => AuInv
  BY AuInitEstablishes DEF AuInv
<1> QED BY <1>1, AuStepKeeps, PTL DEF AuSpec, RefusedIsNotResent

----------------------------------------------------------------------------
(***************************************************************************)
(* The stored values.  Announced: the last update under way to a document  *)
(* is the store's value.  Settling: a document no update is under way to   *)
(* has that value, or has written last what is still under way, unless its *)
(* last write was refused.                                                 *)
(***************************************************************************)
VsSpec == VsInit /\ [][VsNext]_vsVars

VsType ==
  [values : Entry, disk : Entry, copy : [StoragePages -> Entry], up : [StoragePages -> Seq(Entry)],
   down : [StoragePages -> Seq(Entry)], unsaved : SUBSET StoragePages, uncertain : BOOLEAN, writes : Nat,
   replaced : Nat]

Final(queue) == queue[Len(queue)]

Announced(s) == \A p \in StoragePages : s.down[p] # << >> => Final(s.down[p]) = s.values

Settling(s) ==
  \A p \in StoragePages \ s.unsaved :
    s.down[p] = << >> => s.copy[p] = s.values \/ (s.up[p] # << >> /\ s.copy[p] = Final(s.up[p]))

SavedOrUncertain(s) == s.disk # s.values => s.uncertain

VsOK(s) == s \in VsType /\ Announced(s) /\ Settling(s) /\ SavedOrUncertain(s)

LEMMA FinalOfAppend ==
  ASSUME NEW queue \in Seq(Entry), NEW entry \in Entry
  PROVE  Append(queue, entry) \in Seq(Entry) /\ Append(queue, entry) # << >> /\ Final(Append(queue, entry)) = entry
BY DEF Final

LEMMA FinalOfTail ==
  ASSUME NEW queue \in Seq(Entry), queue # << >>
  PROVE  /\ Tail(queue) \in Seq(Entry) /\ Head(queue) \in Entry
         /\ Tail(queue) = << >> => Head(queue) = Final(queue)
         /\ Tail(queue) # << >> => Final(Tail(queue)) = Final(queue)
<1>1. Tail(queue) \in Seq(Entry) /\ Head(queue) \in Entry
  OBVIOUS
<1>2. Len(queue) \in Nat \ {0} /\ Len(Tail(queue)) = Len(queue) - 1
  OBVIOUS
<1>3. \A i \in 1..Len(Tail(queue)) : Tail(queue)[i] = queue[i + 1]
  OBVIOUS
<1>4. ASSUME Tail(queue) = << >> PROVE Head(queue) = Final(queue)
  <2>1. Len(queue) = 1
    BY <1>2, <1>4
  <2> QED BY <2>1 DEF Final
<1>5. ASSUME Tail(queue) # << >> PROVE Final(Tail(queue)) = Final(queue)
  <2>1. Len(Tail(queue)) \in Nat \ {0}
    BY <1>1, <1>5, EmptySeq
  <2>2. Len(Tail(queue)) + 1 = Len(queue) /\ Len(Tail(queue)) \in 1..Len(Tail(queue))
    BY <1>2, <2>1
  <2> QED BY <1>3, <2>2 DEF Final
<1> QED BY <1>1, <1>4, <1>5

LEMMA VsInitEstablishes == VsInit => VsOK(vs)
<1> SUFFICES ASSUME NEW stored \in Entry,
                    vs = [values |-> stored, disk |-> stored, copy |-> [p \in StoragePages |-> stored],
                          up |-> [p \in StoragePages |-> << >>], down |-> [p \in StoragePages |-> << >>],
                          unsaved |-> {}, uncertain |-> FALSE, writes |-> 0, replaced |-> 0]
             PROVE  VsOK(vs)
  BY DEF VsInit
<1>1. << >> \in Seq(Entry)
  OBVIOUS
<1>2. vs \in VsType
  BY <1>1 DEF VsType
<1> QED BY <1>2 DEF VsOK, Announced, Settling, SavedOrUncertain

LEMMA DocumentKeeps ==
  ASSUME VsOK(vs), NEW p \in StoragePages,
         ApplyUpdate(p) \/ NewDocument(p) \/ \E entry \in Entry : ScriptWrites(p, entry)
  PROVE  VsOK(vs')
<1>1. /\ vs \in VsType /\ vs.copy \in [StoragePages -> Entry] /\ vs.up \in [StoragePages -> Seq(Entry)]
      /\ vs.down \in [StoragePages -> Seq(Entry)] /\ vs.values \in Entry /\ vs.writes \in Nat /\ vs.replaced \in Nat
      /\ << >> \in Seq(Entry)
  BY DEF VsOK, VsType
<1> DEFINE x == vs'
<1>2. ASSUME x \in VsType, x.values = vs.values, x.disk = vs.disk, x.uncertain = vs.uncertain,
             vs.unsaved \subseteq x.unsaved \union { p },
             \A o \in StoragePages \ { p } : x.copy[o] = vs.copy[o] /\ x.up[o] = vs.up[o] /\ x.down[o] = vs.down[o],
             x.down[p] # << >> => Final(x.down[p]) = vs.values,
             p \notin x.unsaved /\ x.down[p] = << >> =>
               x.copy[p] = vs.values \/ (x.up[p] # << >> /\ x.copy[p] = Final(x.up[p]))
      PROVE  VsOK(vs')
  <2> HIDE DEF x
  <2>1. Announced(x)
    BY <1>2 DEF VsOK, Announced
  <2>2. Settling(x)
    BY <1>2 DEF VsOK, Settling
  <2>3. SavedOrUncertain(x)
    BY <1>2 DEF VsOK, SavedOrUncertain
  <2>4. VsOK(x)
    BY <1>2, <2>1, <2>2, <2>3 DEF VsOK
  <2> QED BY <2>4 DEF x
<1>3. ASSUME NEW entry \in Entry, ScriptWrites(p, entry) PROVE VsOK(vs')
  <2> DEFINE sent == Append(vs.up[p], entry)
             copy == [vs.copy EXCEPT ![p] = entry]
             up == [vs.up EXCEPT ![p] = sent]
             writes == vs.writes + 1
  <2>1. sent \in Seq(Entry) /\ sent # << >> /\ Final(sent) = entry
    BY <1>1, FinalOfAppend
  <2>2. x = [vs EXCEPT !.copy = copy, !.up = up, !.writes = writes]
    BY <1>1, <1>3 DEF ScriptWrites, VsType
  <2> HIDE DEF sent, x
  <2>3. copy \in [StoragePages -> Entry] /\ copy[p] = entry /\ \A o \in StoragePages \ { p } : copy[o] = vs.copy[o]
    BY <1>1
  <2>4. up \in [StoragePages -> Seq(Entry)] /\ up[p] = sent /\ \A o \in StoragePages \ { p } : up[o] = vs.up[o]
    BY <1>1, <2>1
  <2>5. writes \in Nat
    BY <1>1
  <2> HIDE DEF copy, up, writes
  <2>6. /\ x \in VsType /\ x.copy = copy /\ x.up = up /\ x.down = vs.down /\ x.unsaved = vs.unsaved
        /\ x.values = vs.values /\ x.disk = vs.disk /\ x.uncertain = vs.uncertain
    BY <1>1, <2>2, <2>3, <2>4, <2>5 DEF VsType
  <2>7. vs.down[p] # << >> => Final(vs.down[p]) = vs.values
    BY DEF VsOK, Announced
  <2> QED BY <1>2, <2>1, <2>3, <2>4, <2>6, <2>7
<1>4. ASSUME ApplyUpdate(p) PROVE VsOK(vs')
  <2> DEFINE rest == Tail(vs.down[p])
             first == Head(vs.down[p])
             copy == [vs.copy EXCEPT ![p] = first]
             down == [vs.down EXCEPT ![p] = rest]
  <2>1. /\ rest \in Seq(Entry) /\ first \in Entry
        /\ rest = << >> => first = Final(vs.down[p])
        /\ rest # << >> => Final(rest) = Final(vs.down[p])
    BY <1>1, <1>4, FinalOfTail DEF ApplyUpdate
  <2>2. Final(vs.down[p]) = vs.values
    BY <1>4 DEF ApplyUpdate, VsOK, Announced
  <2>3. x = [vs EXCEPT !.copy = copy, !.down = down]
    BY <1>1, <1>4 DEF ApplyUpdate, VsType
  <2> HIDE DEF rest, first, x
  <2>4. copy \in [StoragePages -> Entry] /\ copy[p] = first /\ \A o \in StoragePages \ { p } : copy[o] = vs.copy[o]
    BY <1>1, <2>1
  <2>5. down \in [StoragePages -> Seq(Entry)] /\ down[p] = rest /\ \A o \in StoragePages \ { p } : down[o] = vs.down[o]
    BY <1>1, <2>1
  <2> HIDE DEF copy, down
  <2>6. /\ x \in VsType /\ x.copy = copy /\ x.up = vs.up /\ x.down = down /\ x.unsaved = vs.unsaved
        /\ x.values = vs.values /\ x.disk = vs.disk /\ x.uncertain = vs.uncertain
    BY <1>1, <2>3, <2>4, <2>5 DEF VsType
  <2> QED BY <1>2, <2>1, <2>2, <2>4, <2>5, <2>6
<1>5. ASSUME NewDocument(p) PROVE VsOK(vs')
  <2> DEFINE copy == [vs.copy EXCEPT ![p] = vs.values]
             down == [vs.down EXCEPT ![p] = << >>]
             unsaved == vs.unsaved \ { p }
             replaced == vs.replaced + 1
  <2>1. copy \in [StoragePages -> Entry] /\ copy[p] = vs.values /\ \A o \in StoragePages \ { p } : copy[o] = vs.copy[o]
    BY <1>1
  <2>2. down \in [StoragePages -> Seq(Entry)] /\ down[p] = << >> /\ \A o \in StoragePages \ { p } : down[o] = vs.down[o]
    BY <1>1
  <2>3. x = [vs EXCEPT !.copy = copy, !.down = down, !.unsaved = unsaved, !.replaced = replaced]
    BY <1>1, <1>5 DEF NewDocument, VsType
  <2>4. unsaved \in SUBSET StoragePages /\ vs.unsaved \subseteq unsaved \union { p } /\ replaced \in Nat
    BY <1>1 DEF VsType
  <2> HIDE DEF copy, down, unsaved, replaced, x
  <2>5. /\ x \in VsType /\ x.copy = copy /\ x.up = vs.up /\ x.down = down /\ x.unsaved = unsaved
        /\ x.values = vs.values /\ x.disk = vs.disk /\ x.uncertain = vs.uncertain
    BY <1>1, <2>1, <2>2, <2>3, <2>4 DEF VsType
  <2> QED BY <1>2, <2>1, <2>2, <2>4, <2>5
<1> QED BY <1>3, <1>4, <1>5

LEMMA HandleWriteKeeps ==
  ASSUME VsOK(vs), NEW p \in StoragePages, NEW outcome \in { "saved", "refused", "unrestricted" },
         HandleWrite(p, outcome)
  PROVE  VsOK(vs')
<1> DEFINE entry == Head(vs.up[p])
           rest == Tail(vs.up[p])
           up == [vs.up EXCEPT ![p] = rest]
<1>1. /\ vs \in VsType /\ vs.up \in [StoragePages -> Seq(Entry)] /\ vs.down \in [StoragePages -> Seq(Entry)]
      /\ vs.values \in Entry /\ vs.disk \in Entry /\ vs.unsaved \in SUBSET StoragePages
  BY DEF VsOK, VsType
<1>2. /\ rest \in Seq(Entry) /\ entry \in Entry
      /\ rest = << >> => entry = Final(vs.up[p])
      /\ rest # << >> => Final(rest) = Final(vs.up[p])
  BY <1>1, FinalOfTail DEF HandleWrite
<1>3. up \in [StoragePages -> Seq(Entry)] /\ up[p] = rest /\ \A o \in StoragePages \ { p } : up[o] = vs.up[o]
  BY <1>1, <1>2
<1>4. CASE entry = NoValue /\ vs.values = NoValue
  <2> DEFINE x == vs'
  <2>1. x = [vs EXCEPT !.up = up]
    BY <1>1, <1>4 DEF HandleWrite, VsType
  <2> HIDE DEF x, up, rest, entry
  <2>2. /\ x \in VsType /\ x.copy = vs.copy /\ x.up = up /\ x.down = vs.down /\ x.unsaved = vs.unsaved
        /\ x.values = vs.values /\ x.disk = vs.disk /\ x.uncertain = vs.uncertain
    BY <1>1, <1>3, <2>1 DEF VsType
  <2>3. Announced(x) /\ SavedOrUncertain(x)
    BY <2>2 DEF VsOK, Announced, SavedOrUncertain
  <2>4. Settling(x)
    <3> SUFFICES ASSUME NEW o \in StoragePages \ vs.unsaved, vs.down[o] = << >>
                 PROVE  vs.copy[o] = vs.values \/ (up[o] # << >> /\ vs.copy[o] = Final(up[o]))
      BY <2>2 DEF Settling
    <3>1. vs.copy[o] = vs.values \/ (vs.up[o] # << >> /\ vs.copy[o] = Final(vs.up[o]))
      BY DEF VsOK, Settling
    <3>2. CASE o = p
      BY <1>2, <1>3, <1>4, <3>1, <3>2
    <3>3. CASE o # p
      BY <1>3, <3>1, <3>3
    <3> QED BY <3>2, <3>3
  <2>5. VsOK(x)
    BY <2>2, <2>3, <2>4 DEF VsOK
  <2> QED BY <2>5 DEF x
<1>5. CASE ~(entry = NoValue /\ vs.values = NoValue) /\ outcome = "saved"
  <2> DEFINE x == vs'
             down == [o \in StoragePages |-> Append(vs.down[o], entry)]
  <2>1. x = [vs EXCEPT !.up = up, !.values = entry, !.disk = entry, !.uncertain = FALSE, !.down = down, !.unsaved = {}]
    BY <1>1, <1>5 DEF HandleWrite, Broadcast, VsType
  <2>2. \A o \in StoragePages : down[o] \in Seq(Entry) /\ down[o] # << >> /\ Final(down[o]) = entry
    BY <1>1, <1>2, FinalOfAppend
  <2>3. down \in [StoragePages -> Seq(Entry)]
    BY <2>2
  <2> HIDE DEF x, up, rest, entry, down
  <2>4. /\ x \in VsType /\ x.down = down /\ x.unsaved = {} /\ x.values = entry /\ x.disk = entry
    BY <1>1, <1>2, <1>3, <2>1, <2>3 DEF VsType
  <2>5. Announced(x) /\ Settling(x) /\ SavedOrUncertain(x)
    BY <2>2, <2>4 DEF Announced, Settling, SavedOrUncertain
  <2>6. VsOK(x)
    BY <2>4, <2>5 DEF VsOK
  <2> QED BY <2>6 DEF x
<1>6. ASSUME NEW disk \in Entry, NEW uncertain \in BOOLEAN, disk # vs.values => uncertain,
             vs' = [vs EXCEPT !.up = up, !.unsaved = vs.unsaved \union { p }, !.disk = disk, !.uncertain = uncertain]
      PROVE  VsOK(vs')
  <2> DEFINE x == vs'
  <2>1. x = [vs EXCEPT !.up = up, !.unsaved = vs.unsaved \union { p }, !.disk = disk, !.uncertain = uncertain]
    BY <1>6
  <2> HIDE DEF x, up, rest, entry
  <2>2. /\ x.copy = vs.copy /\ x.up = up /\ x.down = vs.down /\ x.unsaved = vs.unsaved \union { p }
        /\ x.values = vs.values /\ x.disk = disk /\ x.uncertain = uncertain
    BY <1>1, <2>1 DEF VsType
  <2>3. x \in VsType
    BY <1>1, <1>3, <2>1 DEF VsType
  <2>4. Announced(x) /\ SavedOrUncertain(x)
    BY <1>6, <2>2 DEF VsOK, Announced, SavedOrUncertain
  <2>5. Settling(x)
    BY <1>3, <2>2 DEF VsOK, Settling
  <2>6. VsOK(x)
    BY <2>3, <2>4, <2>5 DEF VsOK
  <2> QED BY <2>6 DEF x
<1>7. CASE ~(entry = NoValue /\ vs.values = NoValue) /\ outcome = "refused"
  <2>1. vs' = [vs EXCEPT !.up = up, !.unsaved = vs.unsaved \union { p }, !.disk = vs.disk, !.uncertain = vs.uncertain]
    BY <1>1, <1>7 DEF HandleWrite, VsType
  <2>2. vs.uncertain \in BOOLEAN /\ (vs.disk # vs.values => vs.uncertain)
    BY DEF VsOK, VsType, SavedOrUncertain
  <2> HIDE DEF up, rest, entry
  <2> QED BY <1>1, <1>6, <2>1, <2>2
<1>8. CASE ~(entry = NoValue /\ vs.values = NoValue) /\ outcome = "unrestricted"
  <2>1. vs' = [vs EXCEPT !.up = up, !.unsaved = vs.unsaved \union { p }, !.disk = entry, !.uncertain = TRUE]
    BY <1>1, <1>8 DEF HandleWrite, VsType
  <2> HIDE DEF up, rest, entry
  <2> QED BY <1>2, <1>6, <2>1
<1> QED BY <1>4, <1>5, <1>7, <1>8

LEMMA RestartKeeps ==
  ASSUME VsOK(vs), Restart
  PROVE  VsOK(vs')
<1> DEFINE x == vs'
           copy == [p \in StoragePages |-> vs.disk]
           none == [p \in StoragePages |-> << >>]
<1>1. vs \in VsType /\ vs.disk \in Entry /\ vs.replaced \in Nat /\ << >> \in Seq(Entry)
  BY DEF VsOK, VsType
<1>2. x = [vs EXCEPT !.values = vs.disk, !.copy = copy, !.up = none, !.down = none, !.unsaved = {},
                     !.uncertain = FALSE, !.replaced = vs.replaced + 1]
  BY <1>1 DEF Restart, VsType
<1>3. copy \in [StoragePages -> Entry] /\ none \in [StoragePages -> Seq(Entry)]
  BY <1>1
<1>4. \A p \in StoragePages : copy[p] = vs.disk /\ none[p] = << >>
  OBVIOUS
<1> DEFINE replaced == vs.replaced + 1
<1>5. replaced \in Nat /\ {} \in SUBSET StoragePages /\ FALSE \in BOOLEAN
  BY <1>1
<1>6. x = [vs EXCEPT !.values = vs.disk, !.copy = copy, !.up = none, !.down = none, !.unsaved = {},
                     !.uncertain = FALSE, !.replaced = replaced]
  BY <1>2
<1> HIDE DEF x, copy, none, replaced
<1>7. x.values = vs.disk /\ x.disk = vs.disk /\ x.copy = copy /\ x.down = none
  BY <1>1, <1>6 DEF VsType
<1>8. x \in VsType
  BY <1>1, <1>3, <1>5, <1>6 DEF VsType
<1>9. Announced(x) /\ Settling(x) /\ SavedOrUncertain(x)
  BY <1>4, <1>7 DEF Announced, Settling, SavedOrUncertain
<1>10. VsOK(x)
  BY <1>8, <1>9 DEF VsOK
<1> QED BY <1>10 DEF x

VsInv == VsOK(vs)

LEMMA VsStepKeeps == VsInv /\ [VsNext]_vsVars => VsInv'
<1> SUFFICES ASSUME VsOK(vs), [VsNext]_vsVars PROVE VsOK(vs')
  BY DEF VsInv
<1>1. CASE Restart
  BY <1>1, RestartKeeps
<1>2. CASE \E p \in StoragePages : \E outcome \in { "saved", "refused", "unrestricted" } : HandleWrite(p, outcome)
  BY <1>2, HandleWriteKeeps
<1>3. CASE \E p \in StoragePages : ApplyUpdate(p) \/ NewDocument(p) \/ \E entry \in Entry : ScriptWrites(p, entry)
  BY <1>3, DocumentKeeps
<1>4. CASE UNCHANGED vsVars
  BY <1>4 DEF vsVars
<1> QED BY <1>1, <1>2, <1>3, <1>4 DEF VsNext

(***************************************************************************)
(* Once nothing is under way to or from a document of the VOT userscript,  *)
(* it has the value of VotUserscriptStore, which is also the one on disk,  *)
(* however the documents' writes cross the updates and whichever of the    *)
(* saves fail; only a document whose own last write was refused keeps it,  *)
(* and only a save that failed with the file already replaced leaves       *)
(* another value on disk.                                                  *)
(***************************************************************************)
THEOREM StoredValuesConverge == VsSpec => []StorageConverges
<1>1. VsInit => VsInv
  BY VsInitEstablishes DEF VsInv
<1>2. VsInv => StorageConverges
  BY DEF VsInv, VsOK, Settling, SavedOrUncertain, StorageConverges
<1> QED BY <1>1, <1>2, VsStepKeeps, PTL DEF VsSpec

----------------------------------------------------------------------------
(***************************************************************************)
(* Application launch: however many processes are started for one profile, *)
(* and wherever they end or die, one at most works with it and no request  *)
(* is handled twice or vanishes unnoticed.                                 *)
(***************************************************************************)
Places ==
  {"off", "starting", "locked", "nameless", "listening", "running", "ending", "unlocked", "forwarding"}

\* The places in which a process has the lock
Holding == {"locked", "nameless", "listening", "running", "ending"}

LaTypeOK ==
  la \in [at : [Processes -> Places], tries : [Processes -> Nat], lock : Processes \union {Nobody},
          name : Processes \union {Nobody}, queue : [Processes -> SUBSET Processes],
          handled : [Processes -> Nat],
          ended : [Processes -> {"no", "forwarded", "error", "primary", "dead"}], lost : SUBSET Processes]

LockIsHeld == \A p \in Processes : la.at[p] \in Holding <=> la.lock = p

\* A process that has not ended, and has no window of its own yet, has its request before it; the
\* request of one that has handed it over is in one queue while nobody has handled it.
HandledAtMostOnce ==
  \A p \in Processes :
    /\ la.handled[p] \in {0, 1}
    /\ la.handled[p] = 1 => la.at[p] \in {"running", "ending", "unlocked"} \/ la.ended[p] # "no"
    /\ la.at[p] # "off" => la.ended[p] = "no"

QueuedOnce ==
  \A p, q \in Processes :
    p \in la.queue[q] =>
      /\ la.handled[p] = 0 /\ la.ended[p] = "forwarded"
      /\ \A r \in Processes : p \in la.queue[r] => r = q

ForwardedIsSomewhere ==
  \A p \in Processes :
    la.ended[p] = "forwarded" => la.handled[p] = 1 \/ p \in la.lost \/ \E q \in Processes : p \in la.queue[q]

LaInv == LaTypeOK /\ LockIsHeld /\ HandledAtMostOnce /\ QueuedOnce /\ ForwardedIsSomewhere

(***************************************************************************)
(* The start of the program.                                               *)
(***************************************************************************)
LEMMA LaInitHolds == LaInit => LaInv
BY ApplicationLaunchAssumption
DEF LaInit, LaInv, LaTypeOK, LockIsHeld, HandledAtMostOnce, QueuedOnce, ForwardedIsSomewhere, Places, Holding

(***************************************************************************)
(* What the steps have in common: a process moves on, or ends without      *)
(* having handed its request over.  What they do to the lock is left to    *)
(* the actions.                                                            *)
(***************************************************************************)
LEMMA MovesKeep ==
  ASSUME LaInv, LaTypeOK', LockIsHeld', NEW p \in Processes, NEW place,
         la.ended[p] = "no",
         la.handled[p] = 1 => place \in {"running", "ending", "unlocked"},
         la'.at = [la.at EXCEPT ![p] = place],
         la'.queue = la.queue, la'.handled = la.handled, la'.ended = la.ended, la'.lost = la.lost
  PROVE  LaInv'
<1>1. la.at \in [Processes -> Places]
  BY DEF LaInv, LaTypeOK
<1>2. HandledAtMostOnce'
  BY <1>1 DEF LaInv, HandledAtMostOnce
<1>3. QueuedOnce' /\ ForwardedIsSomewhere'
  BY DEF LaInv, QueuedOnce, ForwardedIsSomewhere
<1> QED
  BY <1>2, <1>3 DEF LaInv

\* A process ends; its queue stays, if it has none, or is lost with it.
LEMMA EndingKeeps ==
  ASSUME LaInv, LaTypeOK', LockIsHeld', NEW p \in Processes, NEW how \in {"error", "primary", "dead"},
         la.at[p] # "off",
         la'.at = [la.at EXCEPT ![p] = "off"], la'.ended = [la.ended EXCEPT ![p] = how],
         la'.handled = la.handled,
         \/ la'.queue = la.queue /\ la'.lost = la.lost
         \/ la'.queue = [la.queue EXCEPT ![p] = {}] /\ la'.lost = la.lost \union la.queue[p]
  PROVE  LaInv'
<1>1. /\ la.at \in [Processes -> Places]
      /\ la.queue \in [Processes -> SUBSET Processes]
      /\ la.ended \in [Processes -> {"no", "forwarded", "error", "primary", "dead"}]
  BY DEF LaInv, LaTypeOK
<1>2. la.ended[p] = "no"
  BY DEF LaInv, HandledAtMostOnce
<1>3. HandledAtMostOnce'
  BY <1>1 DEF LaInv, HandledAtMostOnce
<1>4. \A q \in Processes : p \notin la.queue[q]
  BY <1>2 DEF LaInv, QueuedOnce
<1>5. QueuedOnce'
  BY <1>1, <1>4 DEF LaInv, QueuedOnce
<1>6. ForwardedIsSomewhere'
  BY <1>1 DEF LaInv, ForwardedIsSomewhere
<1> QED
  BY <1>3, <1>5, <1>6 DEF LaInv

\* A step that leaves the lock alone, of a process that stays among those that have it, or the others.
LEMMA LockUntouched ==
  ASSUME LaInv, NEW p \in Processes, NEW place,
         la'.lock = la.lock, la'.at = [la.at EXCEPT ![p] = place],
         la.at[p] \in Holding <=> place \in Holding
  PROVE  LockIsHeld'
<1>1. la.at \in [Processes -> Places]
  BY DEF LaInv, LaTypeOK
<1> QED
  BY <1>1 DEF LaInv, LockIsHeld

\* A step that releases the lock of its process.
LEMMA LockReleased ==
  ASSUME LaInv, NEW p \in Processes, NEW place, place \notin Holding,
         la'.lock = IF la.lock = p THEN Nobody ELSE la.lock, la'.at = [la.at EXCEPT ![p] = place]
  PROVE  LockIsHeld'
<1>1. la.at \in [Processes -> Places]
  BY DEF LaInv, LaTypeOK
<1> QED
  BY <1>1, ApplicationLaunchAssumption DEF LaInv, LockIsHeld

(***************************************************************************)
(* The actions.                                                            *)
(***************************************************************************)
\* A process starts with its request before it.
LEMMA LaunchKeeps == LaInv /\ Launch => LaInv'
<1> SUFFICES ASSUME LaInv, NEW p \in Processes, At(p, "off"), la.ended[p] = "no", la' = Go(la, p, "starting")
             PROVE  LaInv'
  BY DEF Launch, LaIs
<1>1. LaTypeOK'
  BY DEF LaInv, LaTypeOK, Go, Places
<1>2. /\ la'.at = [la.at EXCEPT ![p] = "starting"] /\ la'.lock = la.lock /\ la'.queue = la.queue
      /\ la'.handled = la.handled /\ la'.ended = la.ended /\ la'.lost = la.lost
  BY DEF LaInv, LaTypeOK, Go
<1>3. LockIsHeld'
  BY <1>2, LockUntouched DEF At, Holding
<1>4. la.handled[p] # 1
  BY DEF LaInv, HandledAtMostOnce, At
<1> QED
  BY <1>1, <1>2, <1>3, <1>4, MovesKeep

\* The lock is taken only while nobody has it (start).
LEMMA TryLockKeeps == LaInv /\ TryLock => LaInv'
<1> SUFFICES ASSUME LaInv, NEW p \in Processes, At(p, "starting"),
                    la' = IF LockIsFree THEN Go([la EXCEPT !.lock = p], p, "locked") ELSE Go(la, p, "forwarding")
             PROVE  LaInv'
  BY DEF TryLock, LaIs
<1>1. LaTypeOK'
  BY DEF LaInv, LaTypeOK, Go, Places
<1>2. /\ la'.at = [la.at EXCEPT ![p] = IF LockIsFree THEN "locked" ELSE "forwarding"]
      /\ la'.lock = IF LockIsFree THEN p ELSE la.lock
      /\ la'.queue = la.queue /\ la'.handled = la.handled /\ la'.ended = la.ended /\ la'.lost = la.lost
  BY DEF LaInv, LaTypeOK, Go
<1>3. LockIsHeld'
  <2>1. CASE LockIsFree
    <3>1. la.at \in [Processes -> Places]
      BY DEF LaInv, LaTypeOK
    <3> QED
      BY <2>1, <3>1, <1>2, ApplicationLaunchAssumption DEF LaInv, LockIsHeld, LockIsFree, Holding
  <2>2. CASE ~LockIsFree
    BY <2>2, <1>2, LockUntouched DEF At, Holding
  <2> QED
    BY <2>1, <2>2
<1>4. la.handled[p] # 1 /\ la.ended[p] = "no"
  BY DEF LaInv, HandledAtMostOnce, At
<1> QED
  BY <1>1, <1>2, <1>3, <1>4, MovesKeep

\* The socket file an earlier primary left goes (start).
LEMMA RemoveServerKeeps == LaInv /\ RemoveServer => LaInv'
<1> SUFFICES ASSUME LaInv, NEW p \in Processes, At(p, "locked"), la' = Go([la EXCEPT !.name = Nobody], p, "nameless")
             PROVE  LaInv'
  BY DEF RemoveServer, LaIs
<1>1. LaTypeOK'
  BY DEF LaInv, LaTypeOK, Go, Places
<1>2. /\ la'.at = [la.at EXCEPT ![p] = "nameless"] /\ la'.lock = la.lock /\ la'.queue = la.queue
      /\ la'.handled = la.handled /\ la'.ended = la.ended /\ la'.lost = la.lost
  BY DEF LaInv, LaTypeOK, Go
<1>3. LockIsHeld'
  BY <1>2, LockUntouched DEF At, Holding
<1>4. la.handled[p] # 1 /\ la.ended[p] = "no"
  BY DEF LaInv, HandledAtMostOnce, At
<1> QED
  BY <1>1, <1>2, <1>3, <1>4, MovesKeep

\* A server that cannot listen gives the lock up and ends (listen).
LEMMA ListenKeeps == LaInv /\ Listen => LaInv'
<1> SUFFICES ASSUME LaInv, NEW p \in Processes, At(p, "nameless"),
                    \/ la' = Go([la EXCEPT !.name = p], p, "listening")
                    \/ la' = EndAs([la EXCEPT !.lock = Nobody], p, "error")
             PROVE  LaInv'
  BY DEF Listen, LaIs
<1>1. la.handled[p] # 1 /\ la.ended[p] = "no" /\ la.lock = p
  BY DEF LaInv, HandledAtMostOnce, LockIsHeld, Holding, At
<1>2. CASE la' = Go([la EXCEPT !.name = p], p, "listening")
  <2>1. LaTypeOK'
    BY <1>2 DEF LaInv, LaTypeOK, Go, Places
  <2>2. /\ la'.at = [la.at EXCEPT ![p] = "listening"] /\ la'.lock = la.lock /\ la'.queue = la.queue
        /\ la'.handled = la.handled /\ la'.ended = la.ended /\ la'.lost = la.lost
    BY <1>2 DEF LaInv, LaTypeOK, Go
  <2>3. LockIsHeld'
    BY <2>2, LockUntouched DEF At, Holding
  <2> QED
    BY <1>1, <2>1, <2>2, <2>3, MovesKeep
<1>3. CASE la' = EndAs([la EXCEPT !.lock = Nobody], p, "error")
  <2>1. LaTypeOK'
    BY <1>3 DEF LaInv, LaTypeOK, EndAs, Go, Places
  <2>2. /\ la'.at = [la.at EXCEPT ![p] = "off"] /\ la'.lock = Nobody /\ la'.queue = la.queue
        /\ la'.handled = la.handled /\ la'.ended = [la.ended EXCEPT ![p] = "error"] /\ la'.lost = la.lost
    BY <1>3 DEF LaInv, LaTypeOK, EndAs, Go
  <2>3. LockIsHeld'
    BY <1>1, <2>2, LockReleased DEF Holding
  <2> QED
    BY <2>1, <2>2, <2>3, EndingKeeps DEF At
<1> QED
  BY <1>2, <1>3

\* A request goes into the queue of the server the name leads to, or is tried again (forwardRequest).
LEMMA ForwardRequestKeeps == LaInv /\ ForwardRequest => LaInv'
<1> SUFFICES ASSUME LaInv, NEW p \in Processes, At(p, "forwarding"),
                    \/ /\ la.name # Nobody
                       /\ la' = EndAs([la EXCEPT !.queue[la.name] = @ \union {p}], p, "forwarded")
                    \/ la' = Undelivered(la, p)
             PROVE  LaInv'
  BY DEF ForwardRequest, LaIs
<1>1. /\ la.handled[p] = 0 /\ la.ended[p] = "no"
      /\ \A q \in Processes : p \notin la.queue[q]
  BY DEF LaInv, HandledAtMostOnce, QueuedOnce, At
<1>2. /\ la.at \in [Processes -> Places]
      /\ la.queue \in [Processes -> SUBSET Processes]
      /\ la.ended \in [Processes -> {"no", "forwarded", "error", "primary", "dead"}]
  BY DEF LaInv, LaTypeOK
<1>3. ASSUME la.name # Nobody, la' = EndAs([la EXCEPT !.queue[la.name] = @ \union {p}], p, "forwarded")
      PROVE  LaInv'
  <2>1. LaTypeOK'
    <3>1. [la EXCEPT !.queue[la.name] = @ \union {p}] = [la EXCEPT !.queue = [la.queue EXCEPT ![la.name] = @ \union {p}]]
      BY DEF LaInv, LaTypeOK
    <3>2. [la.queue EXCEPT ![la.name] = @ \union {p}] \in [Processes -> SUBSET Processes]
      BY <1>2
    <3> QED
      BY <1>3, <3>1, <3>2 DEF LaInv, LaTypeOK, EndAs, Go, Places
  <2>2. la.name \in Processes
    BY <1>3 DEF LaInv, LaTypeOK
  <2>3. /\ la'.at = [la.at EXCEPT ![p] = "off"] /\ la'.lock = la.lock
        /\ la'.queue = [la.queue EXCEPT ![la.name] = @ \union {p}]
        /\ la'.handled = la.handled /\ la'.ended = [la.ended EXCEPT ![p] = "forwarded"] /\ la'.lost = la.lost
    BY <1>3 DEF LaInv, LaTypeOK, EndAs, Go
  <2>4. LockIsHeld'
    BY <2>3, LockUntouched DEF At, Holding
  <2>5. HandledAtMostOnce'
    BY <1>2, <2>3 DEF LaInv, HandledAtMostOnce
  <2>6. QueuedOnce'
    BY <1>1, <1>2, <2>2, <2>3 DEF LaInv, QueuedOnce
  <2>7. ForwardedIsSomewhere'
    BY <1>2, <2>2, <2>3 DEF LaInv, ForwardedIsSomewhere
  <2> QED
    BY <2>1, <2>4, <2>5, <2>6, <2>7 DEF LaInv
<1>4. ASSUME la' = [la EXCEPT !.tries[p] = @ + 1]
      PROVE  LaInv'
  <2>1. LaTypeOK'
    <3>1. [la.tries EXCEPT ![p] = @ + 1] \in [Processes -> Nat]
      BY DEF LaInv, LaTypeOK
    <3> QED
      BY <1>4, <3>1 DEF LaInv, LaTypeOK
  <2>2. /\ la'.at = la.at /\ la'.lock = la.lock /\ la'.queue = la.queue
        /\ la'.handled = la.handled /\ la'.ended = la.ended /\ la'.lost = la.lost
    BY <1>4 DEF LaInv, LaTypeOK
  <2> QED
    BY <2>1, <2>2 DEF LaInv, LockIsHeld, HandledAtMostOnce, QueuedOnce, ForwardedIsSomewhere
<1>5. ASSUME la' = EndAs(la, p, "error")
      PROVE  LaInv'
  <2>1. LaTypeOK'
    BY <1>5 DEF LaInv, LaTypeOK, EndAs, Go, Places
  <2>2. /\ la'.at = [la.at EXCEPT ![p] = "off"] /\ la'.lock = la.lock /\ la'.queue = la.queue
        /\ la'.handled = la.handled /\ la'.ended = [la.ended EXCEPT ![p] = "error"] /\ la'.lost = la.lost
    BY <1>5 DEF LaInv, LaTypeOK, EndAs, Go
  <2>3. LockIsHeld'
    BY <2>2, LockUntouched DEF At, Holding
  <2> QED
    BY <2>1, <2>2, <2>3, EndingKeeps DEF At
<1> QED
  BY <1>3, <1>4, <1>5 DEF Undelivered

\* The primary handles its own request when its window is there (main).
LEMMA OpenKeeps == LaInv /\ Open => LaInv'
<1> SUFFICES ASSUME LaInv, NEW p \in Processes, At(p, "listening"),
                    la' = Go(Handle(la, p), p, "running") \/ la' = Go(la, p, "ending")
             PROVE  LaInv'
  BY DEF Open, LaIs
<1>1. /\ la.handled[p] = 0 /\ la.ended[p] = "no"
      /\ \A q \in Processes : p \notin la.queue[q]
  BY DEF LaInv, HandledAtMostOnce, QueuedOnce, At
<1>2. /\ la.at \in [Processes -> Places]
      /\ la.handled \in [Processes -> Nat]
  BY DEF LaInv, LaTypeOK
<1>3. CASE la' = Go(Handle(la, p), p, "running")
  <2>1. LaTypeOK'
    <3>1. [la.handled EXCEPT ![p] = @ + 1] \in [Processes -> Nat]
      BY <1>2
    <3> QED
      BY <1>3, <3>1 DEF LaInv, LaTypeOK, Go, Handle, Places
  <2>2. /\ la'.at = [la.at EXCEPT ![p] = "running"] /\ la'.lock = la.lock /\ la'.queue = la.queue
        /\ la'.handled = [la.handled EXCEPT ![p] = 1] /\ la'.ended = la.ended /\ la'.lost = la.lost
    BY <1>1, <1>3 DEF LaInv, LaTypeOK, Go, Handle
  <2>3. LockIsHeld'
    BY <2>2, LockUntouched DEF At, Holding
  <2>4. HandledAtMostOnce'
    BY <1>1, <1>2, <2>2 DEF LaInv, HandledAtMostOnce
  <2>5. QueuedOnce' /\ ForwardedIsSomewhere'
    BY <1>1, <1>2, <2>2 DEF LaInv, QueuedOnce, ForwardedIsSomewhere
  <2> QED
    BY <2>1, <2>3, <2>4, <2>5 DEF LaInv
<1>4. CASE la' = Go(la, p, "ending")
  <2>1. LaTypeOK'
    BY <1>4 DEF LaInv, LaTypeOK, Go, Places
  <2>2. /\ la'.at = [la.at EXCEPT ![p] = "ending"] /\ la'.lock = la.lock /\ la'.queue = la.queue
        /\ la'.handled = la.handled /\ la'.ended = la.ended /\ la'.lost = la.lost
    BY <1>4 DEF LaInv, LaTypeOK, Go
  <2>3. LockIsHeld'
    BY <2>2, LockUntouched DEF At, Holding
  <2> QED
    BY <1>1, <2>1, <2>2, <2>3, MovesKeep
<1> QED
  BY <1>3, <1>4

\* A request leaves the queue as it is handled (consumeSocket).
LEMMA ConsumeSocketKeeps == LaInv /\ ConsumeSocket => LaInv'
<1> SUFFICES ASSUME LaInv, NEW p \in Processes, NEW request \in la.queue[p], la' = Consumed(la, p, request)
             PROVE  LaInv'
  BY DEF ConsumeSocket, LaIs
<1>1. /\ la.queue \in [Processes -> SUBSET Processes]
      /\ la.handled \in [Processes -> Nat]
      /\ request \in Processes
  BY DEF LaInv, LaTypeOK
<1>2. /\ la.handled[request] = 0 /\ la.ended[request] = "forwarded"
      /\ \A q \in Processes : request \in la.queue[q] => q = p
  BY <1>1 DEF LaInv, QueuedOnce
<1>3. LaTypeOK'
  <2>1. [la.handled EXCEPT ![request] = @ + 1] \in [Processes -> Nat]
    BY <1>1
  <2>2. [la.queue EXCEPT ![p] = @ \ {request}] \in [Processes -> SUBSET Processes]
    BY <1>1
  <2> QED
    BY <2>1, <2>2 DEF LaInv, LaTypeOK, Consumed, Handle
<1>4. /\ la'.at = la.at /\ la'.lock = la.lock
      /\ la'.queue = [la.queue EXCEPT ![p] = @ \ {request}]
      /\ la'.handled = [la.handled EXCEPT ![request] = 1] /\ la'.ended = la.ended /\ la'.lost = la.lost
  BY <1>1, <1>2 DEF LaInv, LaTypeOK, Consumed, Handle
<1>5. LockIsHeld'
  BY <1>4 DEF LaInv, LockIsHeld
<1>6. HandledAtMostOnce'
  BY <1>1, <1>2, <1>4 DEF LaInv, HandledAtMostOnce
<1>7. QueuedOnce'
  BY <1>1, <1>2, <1>4 DEF LaInv, QueuedOnce
<1>8. ForwardedIsSomewhere'
  BY <1>1, <1>2, <1>4 DEF LaInv, ForwardedIsSomewhere
<1> QED
  BY <1>3, <1>5, <1>6, <1>7, <1>8 DEF LaInv

\* A primary that ends keeps the lock until its coordinator goes (main).
LEMMA EndOfMainKeeps == LaInv /\ EndOfMain => LaInv'
<1> SUFFICES ASSUME LaInv, NEW p \in Processes, At(p, "running"), la' = Go(la, p, "ending")
             PROVE  LaInv'
  BY DEF EndOfMain, LaIs
<1>1. LaTypeOK'
  BY DEF LaInv, LaTypeOK, Go, Places
<1>2. /\ la'.at = [la.at EXCEPT ![p] = "ending"] /\ la'.lock = la.lock /\ la'.queue = la.queue
      /\ la'.handled = la.handled /\ la'.ended = la.ended /\ la'.lost = la.lost
  BY DEF LaInv, LaTypeOK, Go
<1>3. LockIsHeld'
  BY <1>2, LockUntouched DEF At, Holding
<1>4. la.ended[p] = "no"
  BY DEF LaInv, HandledAtMostOnce, At
<1> QED
  BY <1>1, <1>2, <1>3, <1>4, MovesKeep

\* The lock goes first.
LEMMA UnlockKeeps == LaInv /\ Unlock => LaInv'
<1> SUFFICES ASSUME LaInv, NEW p \in Processes, At(p, "ending"), la' = Go([la EXCEPT !.lock = Nobody], p, "unlocked")
             PROVE  LaInv'
  BY DEF Unlock, LaIs
<1>1. LaTypeOK'
  BY DEF LaInv, LaTypeOK, Go, Places
<1>2. /\ la'.at = [la.at EXCEPT ![p] = "unlocked"] /\ la'.lock = Nobody /\ la'.queue = la.queue
      /\ la'.handled = la.handled /\ la'.ended = la.ended /\ la'.lost = la.lost
  BY DEF LaInv, LaTypeOK, Go
<1>3. la.lock = p /\ la.ended[p] = "no"
  BY DEF LaInv, LockIsHeld, HandledAtMostOnce, Holding, At
<1>4. LockIsHeld'
  BY <1>2, <1>3, LockReleased DEF Holding
<1> QED
  BY <1>1, <1>2, <1>3, <1>4, MovesKeep

\* The server goes last, with the connections nobody has read.
LEMMA CloseServerKeeps == LaInv /\ CloseServer => LaInv'
<1> SUFFICES ASSUME LaInv, NEW p \in Processes, At(p, "unlocked"),
                    la' = EndAs(WithoutServer([la EXCEPT !.name = Nobody], p), p, "primary")
             PROVE  LaInv'
  BY DEF CloseServer, LaIs
<1>1. LaTypeOK'
  BY DEF LaInv, LaTypeOK, EndAs, Go, WithoutServer, Places
<1>2. /\ la'.at = [la.at EXCEPT ![p] = "off"] /\ la'.lock = la.lock
      /\ la'.queue = [la.queue EXCEPT ![p] = {}] /\ la'.lost = la.lost \union la.queue[p]
      /\ la'.handled = la.handled /\ la'.ended = [la.ended EXCEPT ![p] = "primary"]
  BY DEF LaInv, LaTypeOK, EndAs, Go, WithoutServer
<1>3. LockIsHeld'
  BY <1>2, LockUntouched DEF At, Holding
<1> QED
  BY <1>1, <1>2, <1>3, EndingKeeps DEF At

\* A process that dies leaves the lock free, and its queue lost.
LEMMA DieKeeps == LaInv /\ Die => LaInv'
<1> SUFFICES ASSUME LaInv, NEW p \in Processes, ~At(p, "off"),
                    la' = EndAs([WithoutServer(la, p) EXCEPT !.lock = IF @ = p THEN Nobody ELSE @,
                                                             !.name = IF @ = p THEN Nobody ELSE @], p, "dead")
             PROVE  LaInv'
  BY DEF Die, LaIs
<1>1. LaTypeOK'
  BY ZenonT(60) DEF LaInv, LaTypeOK, EndAs, Go, WithoutServer, Places
<1>2. /\ la'.at = [la.at EXCEPT ![p] = "off"] /\ la'.lock = IF la.lock = p THEN Nobody ELSE la.lock
      /\ la'.queue = [la.queue EXCEPT ![p] = {}] /\ la'.lost = la.lost \union la.queue[p]
      /\ la'.handled = la.handled /\ la'.ended = [la.ended EXCEPT ![p] = "dead"]
  BY DEF LaInv, LaTypeOK, EndAs, Go, WithoutServer
<1>3. LockIsHeld'
  BY <1>2, LockReleased DEF Holding
<1> QED
  BY <1>1, <1>2, <1>3, EndingKeeps DEF At

(***************************************************************************)
(* The invariant, and what a user can rely on.                             *)
(***************************************************************************)
\* The inductive invariant: type, lock, handling and queues, for any processes.
THEOREM LaunchInvariance == LaSpec => []LaInv
<1>1. LaInv /\ [LaNext]_laVars => LaInv'
  <2>1. LaInv /\ UNCHANGED laVars => LaInv'
    BY DEF laVars, LaInv, LaTypeOK, LockIsHeld, HandledAtMostOnce, QueuedOnce, ForwardedIsSomewhere
  <2> QED
    BY <2>1, LaunchKeeps, TryLockKeeps, RemoveServerKeeps, ListenKeeps, ForwardRequestKeeps, OpenKeeps,
       ConsumeSocketKeeps, EndOfMainKeeps, UnlockKeeps, CloseServerKeeps, DieKeeps
    DEF LaNext
<1> QED
  BY <1>1, LaInitHolds, PTL DEF LaSpec

\* Those that have the lock are one at most: LockIsHeld as a count.
LEMMA OneHolder == LaInv => Cardinality({ p \in Processes : la.at[p] \in Holding }) <= 1
<1> SUFFICES ASSUME LaInv
             PROVE  Cardinality({ p \in Processes : la.at[p] \in Holding }) <= 1
  OBVIOUS
<1> DEFINE holders == { p \in Processes : la.at[p] \in Holding }
<1>1. holders \subseteq {la.lock}
  BY DEF LaInv, LockIsHeld
<1>2. IsFiniteSet({la.lock}) /\ Cardinality({la.lock}) = 1
  BY FS_Singleton
<1>3. Cardinality(holders) <= Cardinality({la.lock})
  BY <1>1, <1>2, FS_Subset
<1> QED
  BY <1>2, <1>3

(***************************************************************************)
(* Whatever processes are started, end and die for a profile, only one at  *)
(* a time works with it, and no request is handled twice or vanishes while *)
(* its process ends as if it had been delivered                            *)
(* (SingleInstanceCoordinator::start, forwardRequest, consumeSocket).      *)
(***************************************************************************)
THEOREM EveryLaunchIsAccounted == LaSpec => []LaunchesAreAccounted
<1>1. LaInv => LaunchesAreAccounted
  <2>1. LaInv => \A p \in Processes :
          /\ la.handled[p] <= 1
          /\ la.ended[p] = "forwarded" =>
               la.handled[p] = 1 \/ p \in la.lost \/ \E q \in Processes : p \in la.queue[q]
    BY DEF LaInv, HandledAtMostOnce, ForwardedIsSomewhere
  <2> QED
    BY <2>1, OneHolder DEF LaunchesAreAccounted, Holding
<1> QED
  BY <1>1, LaunchInvariance, PTL

----------------------------------------------------------------------------
(***************************************************************************)
(* Reader mode.  Off: after n more scripts the page has no overlay, because*)
(* it has none and none of them brings one up, or because one removes it   *)
(* and none after that brings one up.  Styled: after all scripts the       *)
(* overlay has the appearance a.                                           *)
(***************************************************************************)
RdSpec == RdInit /\ [][RdNext]_rdVars

RdScript ==
  [kind : { "probe", "activate", "destroy", "appearance" }, appearance : Appearances \union { NoOverlay },
   stale : BOOLEAN]

RdResult ==
  [kind : { "probe", "activate", "close", "change" }, ok : BOOLEAN, stale : BOOLEAN, document : Nat,
   appearance : Appearances \union { NoOverlay }]

RdTab ==
  [availability : { "Unknown", "Available", "Unavailable" }, active : BOOLEAN, pending : BOOLEAN, attempts : Nat,
   timer : BOOLEAN, loading : BOOLEAN, overlay : Appearances \union { NoOverlay }, scripts : Seq(RdScript),
   results : Seq(RdResult), document : Nat, judged : Nat, missed : BOOLEAN]

RdType == [appearance : Appearances, events : Nat, tab : [ReaderTabs -> RdTab]]

Off(scripts, overlay, n) ==
  \/ overlay = NoOverlay /\ \A i \in 1..n : scripts[i].kind # "activate"
  \/ \E m \in 1..n : scripts[m].kind = "destroy" /\ \A i \in 1..n : i > m => scripts[i].kind # "activate"

Styled(scripts, overlay, a) ==
  \/ overlay = a /\ \A i \in 1..Len(scripts) : scripts[i].kind # "appearance"
  \/ \E m \in 1..Len(scripts) :
       /\ scripts[m].kind = "appearance" /\ scripts[m].appearance = a
       /\ \A i \in 1..Len(scripts) : i > m => scripts[i].kind # "appearance"

\* The overlay is there and stays, and will be in the appearance of the settings.
On(tab, a) ==
  /\ tab.overlay # NoOverlay
  /\ \A i \in 1..Len(tab.scripts) : tab.scripts[i].kind \in { "probe", "appearance" }
  /\ tab.missed \/ Styled(tab.scripts, tab.overlay, a)

(***************************************************************************)
(* The activation that counts is among the scripts (Called) or the results *)
(* (Replied).  It finds no overlay, nothing follows it but probes.        *)
(***************************************************************************)
Called(tab, i) == i \in 1..Len(tab.scripts) /\ tab.scripts[i].kind = "activate" /\ ~ tab.scripts[i].stale

Replied(tab, i) == i \in 1..Len(tab.results) /\ tab.results[i].kind = "activate" /\ ~ tab.results[i].stale

CalledOnce(tab, a) ==
  \A i \in 1..Len(tab.scripts) :
    Called(tab, i) =>
      /\ \A j \in 1..Len(tab.results) : ~ Replied(tab, j)
      /\ \A j \in 1..Len(tab.scripts) : j > i => tab.scripts[j].kind = "probe"
      /\ Off(tab.scripts, tab.overlay, i - 1)
      /\ tab.missed \/ tab.scripts[i].appearance = a

AnsweredOnce(tab, a) ==
  \A i \in 1..Len(tab.results) :
    Replied(tab, i) =>
      /\ \A j \in 1..Len(tab.results) : Replied(tab, j) => j = i
      /\ IF tab.results[i].ok THEN On(tab, a) ELSE Off(tab.scripts, tab.overlay, Len(tab.scripts))

ActivationOK(tab, a) ==
  /\ tab.pending <=> \/ \E i \in 1..Len(tab.scripts) : Called(tab, i)
                     \/ \E i \in 1..Len(tab.results) : Replied(tab, i)
  /\ CalledOnce(tab, a) /\ AnsweredOnce(tab, a)
  /\ tab.active => ~ tab.pending /\ On(tab, a)
  /\ ~ tab.active /\ ~ tab.pending => Off(tab.scripts, tab.overlay, Len(tab.scripts))

\* A probe that counts is of a page that has loaded, and its result is about the document shown.
DocumentOK(tab) ==
  /\ tab.loading => ~ tab.active /\ ~ tab.pending /\ ~ tab.timer /\ tab.availability # "Available"
  /\ \A i \in 1..Len(tab.scripts) : tab.scripts[i].kind = "probe" /\ ~ tab.scripts[i].stale => ~ tab.loading
  /\ \A i \in 1..Len(tab.results) :
       tab.results[i].kind = "probe" /\ ~ tab.results[i].stale => ~ tab.loading /\ tab.results[i].document = tab.document
  /\ tab.availability = "Available" => tab.judged = tab.document

\* What is applied is an appearance.
QueuesOK(tab) ==
  /\ \A i \in 1..Len(tab.scripts) :
       tab.scripts[i].kind \in { "activate", "appearance" } => tab.scripts[i].appearance \in Appearances
  /\ \A i \in 1..Len(tab.results) : tab.results[i].kind = "change" => tab.results[i].appearance \in Appearances

TabOK(tab, a) == tab \in RdTab /\ QueuesOK(tab) /\ ActivationOK(tab, a) /\ DocumentOK(tab)

RdInv ==
  /\ rd \in RdType
  /\ \A t \in ReaderTabs : TabOK(rd.tab[t], rd.appearance)

(***************************************************************************)
(* Queues of scripts and results.                                          *)
(***************************************************************************)
\* Appending lengthens a queue by the last element.
LEMMA Appended ==
  ASSUME NEW S, NEW queue \in Seq(S), NEW e \in S
  PROVE  /\ Append(queue, e) \in Seq(S) /\ Len(Append(queue, e)) = Len(queue) + 1
         /\ \A i \in 1..Len(queue) : Append(queue, e)[i] = queue[i]
         /\ Append(queue, e)[Len(queue) + 1] = e
OBVIOUS

\* Taking the first element shifts the others by one.
LEMMA Taken ==
  ASSUME NEW S, NEW queue \in Seq(S), queue # << >>
  PROVE  /\ Tail(queue) \in Seq(S) /\ Head(queue) = queue[1] /\ Head(queue) \in S
         /\ Len(queue) \in Nat \ {0} /\ Len(Tail(queue)) = Len(queue) - 1
         /\ \A i \in 1..Len(Tail(queue)) : i + 1 \in 1..Len(queue) /\ Tail(queue)[i] = queue[i + 1]
OBVIOUS

\* Marking scripts stale changes nothing else of them.
LEMMA StaleScripts ==
  ASSUME NEW queue \in Seq(RdScript), NEW kinds
  PROVE  /\ Stale(queue, kinds) \in Seq(RdScript) /\ Len(Stale(queue, kinds)) = Len(queue)
         /\ \A i \in 1..Len(queue) :
              LET e == Stale(queue, kinds)[i] IN
              /\ e.kind = queue[i].kind /\ e.appearance = queue[i].appearance
              /\ e.stale <=> queue[i].stale \/ queue[i].kind \in kinds
<1>1. DOMAIN queue = 1..Len(queue) /\ Len(queue) \in Nat /\ \A i \in 1..Len(queue) : queue[i] \in RdScript
  OBVIOUS
<1> DEFINE e(i) == IF queue[i].kind \in kinds THEN [queue[i] EXCEPT !.stale = TRUE] ELSE queue[i]
<1>2. \A i \in 1..Len(queue) :
        /\ e(i) \in RdScript /\ e(i).kind = queue[i].kind /\ e(i).appearance = queue[i].appearance
        /\ e(i).stale <=> queue[i].stale \/ queue[i].kind \in kinds
  BY <1>1 DEF RdScript
<1>3. Stale(queue, kinds) = [i \in 1..Len(queue) |-> e(i)]
  BY <1>1 DEF Stale
<1> HIDE DEF e
<1> QED BY <1>1, <1>2, <1>3

\* Marking results stale changes nothing else of them.
LEMMA StaleResults ==
  ASSUME NEW queue \in Seq(RdResult), NEW kinds
  PROVE  /\ Stale(queue, kinds) \in Seq(RdResult) /\ Len(Stale(queue, kinds)) = Len(queue)
         /\ \A i \in 1..Len(queue) :
              LET e == Stale(queue, kinds)[i] IN
              /\ e.kind = queue[i].kind /\ e.appearance = queue[i].appearance
              /\ e.ok = queue[i].ok /\ e.document = queue[i].document
              /\ e.stale <=> queue[i].stale \/ queue[i].kind \in kinds
<1>1. DOMAIN queue = 1..Len(queue) /\ Len(queue) \in Nat /\ \A i \in 1..Len(queue) : queue[i] \in RdResult
  OBVIOUS
<1> DEFINE e(i) == IF queue[i].kind \in kinds THEN [queue[i] EXCEPT !.stale = TRUE] ELSE queue[i]
<1>2. \A i \in 1..Len(queue) :
        /\ e(i) \in RdResult /\ e(i).kind = queue[i].kind /\ e(i).appearance = queue[i].appearance
        /\ e(i).ok = queue[i].ok /\ e(i).document = queue[i].document
        /\ e(i).stale <=> queue[i].stale \/ queue[i].kind \in kinds
  BY <1>1 DEF RdResult
<1>3. Stale(queue, kinds) = [i \in 1..Len(queue) |-> e(i)]
  BY <1>1 DEF Stale
<1> HIDE DEF e
<1> QED BY <1>1, <1>2, <1>3

\* Only the kinds of the first n scripts matter.
LEMMA OffSame ==
  ASSUME NEW p, NEW q, NEW overlay, NEW n \in Nat, Off(p, overlay, n), \A i \in 1..n : q[i].kind = p[i].kind
  PROVE  Off(q, overlay, n)
BY DEF Off

\* Scripts that bring up no overlay keep it away.
LEMMA OffLonger ==
  ASSUME NEW q, NEW overlay, NEW n \in Nat, NEW k \in Nat, n <= k, Off(q, overlay, n),
         \A i \in 1..k : i > n => q[i].kind # "activate"
  PROVE  Off(q, overlay, k)
BY DEF Off

\* A removal at the end leaves no overlay.
LEMMA OffDestroyed ==
  ASSUME NEW q, NEW overlay, NEW n \in Nat \ {0}, q[n].kind = "destroy"
  PROVE  Off(q, overlay, n)
BY DEF Off

\* What holds after n scripts holds after n - 1, once the first has run.
LEMMA OffAfter ==
  ASSUME NEW scripts \in Seq(RdScript), scripts # << >>, NEW overlay, NEW ok \in BOOLEAN,
         NEW n \in 1..Len(scripts), Off(scripts, overlay, n)
  PROVE  Off(Tail(scripts), After(Head(scripts), overlay, ok), n - 1)
<1> DEFINE rest == Tail(scripts)
           kept == After(Head(scripts), overlay, ok)
<1>1. Len(rest) = Len(scripts) - 1 /\ scripts[1] \in RdScript /\ Head(scripts) = scripts[1] /\ n - 1 \in Nat
  BY Taken
<1>2. \A i \in 1..n - 1 : i + 1 \in 1..n /\ rest[i] = scripts[i + 1]
  BY <1>1, Taken
<1>3. CASE overlay = NoOverlay /\ \A i \in 1..n : scripts[i].kind # "activate"
  <2>1. 1 \in 1..n
    OBVIOUS
  <2>2. kept = NoOverlay
    BY <1>1, <1>3, <2>1 DEF After, RdScript
  <2>3. \A i \in 1..n - 1 : rest[i].kind # "activate"
    BY <1>2, <1>3
  <2> QED BY <2>2, <2>3 DEF Off
<1>4. ASSUME NEW m \in 1..n, scripts[m].kind = "destroy", \A i \in 1..n : i > m => scripts[i].kind # "activate"
      PROVE  Off(rest, kept, n - 1)
  <2>1. CASE m = 1
    <3>1. kept = NoOverlay
      BY <1>1, <1>4, <2>1 DEF After
    <3>2. \A i \in 1..n - 1 : rest[i].kind # "activate"
      BY <1>2, <1>4, <2>1
    <3> QED BY <3>1, <3>2 DEF Off
  <2>2. CASE m # 1
    <3>1. m - 1 \in 1..n - 1 /\ m - 1 + 1 = m
      BY <2>2
    <3>2. rest[m - 1].kind = "destroy"
      BY <1>2, <1>4, <3>1
    <3>3. \A i \in 1..n - 1 : i > m - 1 => rest[i].kind # "activate"
      BY <1>2, <1>4
    <3> QED BY <3>1, <3>2, <3>3 DEF Off
  <2> QED BY <2>1, <2>2
<1> QED BY <1>3, <1>4 DEF Off

\* Running the first script does not change the appearance the overlay ends with.
LEMMA StyledAfter ==
  ASSUME NEW scripts \in Seq(RdScript), scripts # << >>, NEW overlay, overlay # NoOverlay, NEW ok \in BOOLEAN, NEW a,
         Head(scripts).kind \in { "probe", "appearance" }, Styled(scripts, overlay, a)
  PROVE  Styled(Tail(scripts), After(Head(scripts), overlay, ok), a)
<1> DEFINE rest == Tail(scripts)
           kept == After(Head(scripts), overlay, ok)
           n == Len(scripts)
<1>1. Len(rest) = n - 1 /\ scripts[1] \in RdScript /\ Head(scripts) = scripts[1] /\ n \in Nat \ {0}
  BY Taken
<1>2. \A i \in 1..n - 1 : i + 1 \in 1..n /\ rest[i] = scripts[i + 1]
  BY <1>1, Taken
<1>3. CASE overlay = a /\ \A i \in 1..n : scripts[i].kind # "appearance"
  <2>1. 1 \in 1..n
    BY <1>1
  <2>2. kept = a
    BY <1>1, <1>3, <2>1 DEF After
  <2>3. \A i \in 1..n - 1 : rest[i].kind # "appearance"
    BY <1>2, <1>3
  <2> QED BY <1>1, <2>2, <2>3 DEF Styled
<1>4. ASSUME NEW m \in 1..n, scripts[m].kind = "appearance", scripts[m].appearance = a,
             \A i \in 1..n : i > m => scripts[i].kind # "appearance"
      PROVE  Styled(rest, kept, a)
  <2>1. CASE m = 1
    <3>1. kept = a
      BY <1>1, <1>4, <2>1 DEF After
    <3>2. \A i \in 1..n - 1 : rest[i].kind # "appearance"
      BY <1>2, <1>4, <2>1
    <3> QED BY <1>1, <3>1, <3>2 DEF Styled
  <2>2. CASE m # 1
    <3>1. m - 1 \in 1..n - 1 /\ m - 1 + 1 = m
      BY <1>1, <2>2
    <3>2. rest[m - 1].kind = "appearance" /\ rest[m - 1].appearance = a
      BY <1>2, <1>4, <3>1
    <3>3. \A i \in 1..n - 1 : i > m - 1 => rest[i].kind # "appearance"
      BY <1>2, <1>4
    <3> QED BY <1>1, <3>1, <3>2, <3>3 DEF Styled
  <2> QED BY <2>1, <2>2
<1> QED BY <1>3, <1>4 DEF Styled

(***************************************************************************)
(* What leaves the activation as it is: scripts that count or not no more  *)
(* than before as far as they are activations, and more probes; results    *)
(* likewise, and more reports.                                             *)
(***************************************************************************)
SameScripts(p, q) ==
  /\ Len(p) <= Len(q)
  /\ \A i \in 1..Len(p) : q[i].kind = p[i].kind /\ q[i].appearance = p[i].appearance
                          /\ (p[i].kind = "activate" => q[i].stale = p[i].stale)
  /\ \A i \in 1..Len(q) : i > Len(p) => q[i].kind = "probe"

SameResults(p, q) ==
  /\ Len(p) <= Len(q)
  /\ \A i \in 1..Len(p) : q[i].kind = p[i].kind /\ q[i].ok = p[i].ok
                          /\ (p[i].kind = "activate" => q[i].stale = p[i].stale)
  /\ \A i \in 1..Len(q) : i > Len(p) => q[i].kind # "activate"

\* The same activations under way, and no new ones, keep the activation in order.
LEMMA SameKeeps ==
  ASSUME NEW a, NEW tab \in RdTab, NEW x \in RdTab, ActivationOK(tab, a),
         SameScripts(tab.scripts, x.scripts), SameResults(tab.results, x.results),
         x.overlay = tab.overlay, x.active = tab.active, x.pending = tab.pending, x.missed = tab.missed
  PROVE  ActivationOK(x, a)
<1>1. /\ Len(tab.scripts) \in Nat /\ Len(x.scripts) \in Nat /\ Len(tab.scripts) <= Len(x.scripts)
      /\ Len(tab.results) \in Nat /\ Len(x.results) \in Nat /\ Len(tab.results) <= Len(x.results)
  <2>1. tab.scripts \in Seq(RdScript) /\ x.scripts \in Seq(RdScript)
        /\ tab.results \in Seq(RdResult) /\ x.results \in Seq(RdResult)
    BY DEF RdTab
  <2> QED BY <2>1, LenProperties DEF SameScripts, SameResults
<1>2. \A i \in 1..Len(x.scripts) : Called(x, i) <=> i \in 1..Len(tab.scripts) /\ Called(tab, i)
  BY <1>1 DEF Called, SameScripts
<1>3. \A i \in 1..Len(x.results) : Replied(x, i) <=> i \in 1..Len(tab.results) /\ Replied(tab, i)
  BY <1>1 DEF Replied, SameResults
<1>4. \A n \in 0..Len(tab.scripts) : Off(tab.scripts, tab.overlay, n) => Off(x.scripts, x.overlay, n)
  BY <1>1, OffSame DEF SameScripts
<1>5. Off(tab.scripts, tab.overlay, Len(tab.scripts)) => Off(x.scripts, x.overlay, Len(x.scripts))
  <2> SUFFICES ASSUME Off(tab.scripts, tab.overlay, Len(tab.scripts)) PROVE Off(x.scripts, x.overlay, Len(x.scripts))
    OBVIOUS
  <2>1. Off(x.scripts, x.overlay, Len(tab.scripts))
    BY <1>1, <1>4
  <2>2. \A i \in 1..Len(x.scripts) : i > Len(tab.scripts) => x.scripts[i].kind # "activate"
    BY DEF SameScripts
  <2> QED BY <1>1, <2>1, <2>2, OffLonger
<1>6. Styled(tab.scripts, tab.overlay, a) => Styled(x.scripts, x.overlay, a)
  <2>1. ASSUME tab.overlay = a, \A i \in 1..Len(tab.scripts) : tab.scripts[i].kind # "appearance"
        PROVE  Styled(x.scripts, x.overlay, a)
    BY <1>1, <2>1 DEF Styled, SameScripts
  <2>2. ASSUME NEW m \in 1..Len(tab.scripts), tab.scripts[m].kind = "appearance", tab.scripts[m].appearance = a,
               \A i \in 1..Len(tab.scripts) : i > m => tab.scripts[i].kind # "appearance"
        PROVE  Styled(x.scripts, x.overlay, a)
    <3>1. m \in 1..Len(x.scripts) /\ x.scripts[m].kind = "appearance" /\ x.scripts[m].appearance = a
      BY <1>1, <2>2 DEF SameScripts
    <3>2. \A i \in 1..Len(x.scripts) : i > m => x.scripts[i].kind # "appearance"
      BY <1>1, <2>2 DEF SameScripts
    <3> QED BY <3>1, <3>2 DEF Styled
  <2> QED BY <2>1, <2>2 DEF Styled
<1>7. On(tab, a) => On(x, a)
  <2>1. (\A i \in 1..Len(tab.scripts) : tab.scripts[i].kind \in { "probe", "appearance" }) =>
          \A i \in 1..Len(x.scripts) : x.scripts[i].kind \in { "probe", "appearance" }
    BY <1>1 DEF SameScripts
  <2> QED BY <1>6, <2>1 DEF On
<1>8. CalledOnce(x, a)
  <2> SUFFICES ASSUME NEW i \in 1..Len(x.scripts), Called(x, i)
               PROVE  /\ \A j \in 1..Len(x.results) : ~ Replied(x, j)
                      /\ \A j \in 1..Len(x.scripts) : j > i => x.scripts[j].kind = "probe"
                      /\ Off(x.scripts, x.overlay, i - 1)
                      /\ x.missed \/ x.scripts[i].appearance = a
    BY DEF CalledOnce
  <2>1. i \in 1..Len(tab.scripts) /\ Called(tab, i)
    BY <1>2
  <2>2. /\ \A j \in 1..Len(tab.results) : ~ Replied(tab, j)
        /\ \A j \in 1..Len(tab.scripts) : j > i => tab.scripts[j].kind = "probe"
        /\ Off(tab.scripts, tab.overlay, i - 1)
        /\ tab.missed \/ tab.scripts[i].appearance = a
    BY <2>1 DEF ActivationOK, CalledOnce
  <2>3. \A j \in 1..Len(x.results) : ~ Replied(x, j)
    BY <1>3, <2>2
  <2>4. ASSUME NEW j \in 1..Len(x.scripts), j > i PROVE x.scripts[j].kind = "probe"
    <3>1. CASE j > Len(tab.scripts)
      BY <3>1 DEF SameScripts
    <3>2. CASE ~(j > Len(tab.scripts))
      <4>1. j \in 1..Len(tab.scripts)
        BY <1>1, <3>2
      <4>2. x.scripts[j].kind = tab.scripts[j].kind
        BY <4>1 DEF SameScripts
      <4> QED BY <2>2, <2>4, <4>1, <4>2
    <3> QED BY <3>1, <3>2
  <2>5. Off(x.scripts, x.overlay, i - 1)
    <3>1. i - 1 \in 0..Len(tab.scripts)
      BY <1>1, <2>1
    <3> QED BY <1>4, <2>2, <3>1
  <2>6. x.missed \/ x.scripts[i].appearance = a
    BY <2>1, <2>2 DEF SameScripts
  <2> QED BY <2>3, <2>4, <2>5, <2>6
<1>9. AnsweredOnce(x, a)
  <2> SUFFICES ASSUME NEW i \in 1..Len(x.results), Replied(x, i)
               PROVE  /\ \A j \in 1..Len(x.results) : Replied(x, j) => j = i
                      /\ IF x.results[i].ok THEN On(x, a) ELSE Off(x.scripts, x.overlay, Len(x.scripts))
    BY DEF AnsweredOnce
  <2>1. i \in 1..Len(tab.results) /\ Replied(tab, i)
    BY <1>3
  <2>2. /\ \A j \in 1..Len(tab.results) : Replied(tab, j) => j = i
        /\ IF tab.results[i].ok THEN On(tab, a) ELSE Off(tab.scripts, tab.overlay, Len(tab.scripts))
    BY <2>1 DEF ActivationOK, AnsweredOnce
  <2>3. x.results[i].ok = tab.results[i].ok
    BY <2>1 DEF SameResults
  <2> QED BY <1>3, <1>5, <1>7, <2>2, <2>3
<1>10. x.pending <=> \/ \E i \in 1..Len(x.scripts) : Called(x, i)
                     \/ \E i \in 1..Len(x.results) : Replied(x, i)
  <2>1. \A i \in 1..Len(tab.scripts) : Called(tab, i) => i \in 1..Len(x.scripts) /\ Called(x, i)
    BY <1>1, <1>2
  <2>2. \A i \in 1..Len(tab.results) : Replied(tab, i) => i \in 1..Len(x.results) /\ Replied(x, i)
    BY <1>1, <1>3
  <2>3. tab.pending <=> \/ \E i \in 1..Len(tab.scripts) : Called(tab, i)
                        \/ \E i \in 1..Len(tab.results) : Replied(tab, i)
    BY DEF ActivationOK
  <2> QED BY <1>2, <1>3, <2>1, <2>2, <2>3
<1>11. x.active => ~ x.pending /\ On(x, a)
  BY <1>7 DEF ActivationOK
<1>12. ~ x.active /\ ~ x.pending => Off(x.scripts, x.overlay, Len(x.scripts))
  BY <1>5 DEF ActivationOK
<1> QED BY <1>8, <1>9, <1>10, <1>11, <1>12 DEF ActivationOK

\* Without an activation that counts, and out of reader mode, all that matters is that the overlay goes.
LEMMA QuietKeeps ==
  ASSUME NEW a, NEW x \in RdTab, ~ x.active, ~ x.pending, Off(x.scripts, x.overlay, Len(x.scripts)),
         \A i \in 1..Len(x.scripts) : ~ Called(x, i), \A i \in 1..Len(x.results) : ~ Replied(x, i)
  PROVE  ActivationOK(x, a)
BY DEF ActivationOK, CalledOnce, AnsweredOnce

(***************************************************************************)
(* The handlers of the controller.                                         *)
(***************************************************************************)
\* What ResetForNavigation and Deactivated make of the scripts.
LEMMA DestroyedScripts ==
  ASSUME NEW a, NEW tab \in RdTab, ActivationOK(tab, a), QueuesOK(tab), NEW q,
         q = IF tab.active \/ tab.pending THEN Append(tab.scripts, Script("destroy", NoOverlay)) ELSE tab.scripts
  PROVE  /\ q \in Seq(RdScript) /\ Off(q, tab.overlay, Len(q))
         /\ \A i \in 1..Len(q) : q[i].kind \in { "activate", "appearance" } => q[i].appearance \in Appearances
<1>1. Script("destroy", NoOverlay) \in RdScript /\ tab.scripts \in Seq(RdScript)
      /\ Script("destroy", NoOverlay).kind = "destroy"
  BY DEF Script, RdScript, RdTab
<1>2. CASE tab.active \/ tab.pending
  <2>1. /\ q \in Seq(RdScript) /\ Len(q) = Len(tab.scripts) + 1 /\ \A i \in 1..Len(tab.scripts) : q[i] = tab.scripts[i]
        /\ q[Len(q)].kind = "destroy" /\ Len(tab.scripts) \in Nat
    BY <1>1, <1>2, Appended
  <2>2. Off(q, tab.overlay, Len(q))
    <3>1. Len(q) \in Nat \ {0}
      BY <2>1
    <3> QED BY <2>1, <3>1, OffDestroyed
  <2>3. \A i \in 1..Len(q) : i \in 1..Len(tab.scripts) \/ i = Len(q)
    BY <2>1
  <2> QED BY <2>1, <2>2, <2>3 DEF QueuesOK
<1>3. CASE ~ (tab.active \/ tab.pending)
  <2>1. q = tab.scripts
    BY <1>3
  <2> QED BY <1>1, <1>3, <2>1 DEF ActivationOK, QueuesOK
<1> QED BY <1>2, <1>3

\* ++m_generation touches only the marks.
LEMMA NextGenerationFields ==
  ASSUME NEW tab \in RdTab
  PROVE  LET x == NextGeneration(tab) IN
         /\ x \in RdTab
         /\ x.scripts = Stale(tab.scripts, { "probe", "activate" })
         /\ x.results = Stale(tab.results, { "probe", "activate" })
         /\ x.availability = tab.availability /\ x.timer = tab.timer /\ x.loading = tab.loading
         /\ x.overlay = tab.overlay /\ x.document = tab.document /\ x.judged = tab.judged
<1> DEFINE p == Stale(tab.scripts, { "probe", "activate" })
           q == Stale(tab.results, { "probe", "activate" })
<1>1. tab.scripts \in Seq(RdScript) /\ tab.results \in Seq(RdResult)
  BY DEF RdTab
<1>2. p \in Seq(RdScript) /\ q \in Seq(RdResult)
  BY <1>1, StaleScripts, StaleResults
<1>3. NextGeneration(tab) = [tab EXCEPT !.scripts = p, !.results = q]
  BY DEF NextGeneration
<1> HIDE DEF p, q
<1>4. LET x == [tab EXCEPT !.scripts = p, !.results = q] IN
      /\ x \in RdTab /\ x.scripts = p /\ x.results = q
      /\ x.availability = tab.availability /\ x.timer = tab.timer /\ x.loading = tab.loading
      /\ x.overlay = tab.overlay /\ x.document = tab.document /\ x.judged = tab.judged
  BY <1>2 DEF RdTab
<1> QED BY <1>3, <1>4 DEF p, q

\* After ++m_generation nothing under way counts any more.
LEMMA NextGenerationQuiets ==
  ASSUME NEW a, NEW tab \in RdTab, Off(tab.scripts, tab.overlay, Len(tab.scripts)),
         QueuesOK(tab), NEW y \in RdTab, y.overlay = tab.overlay,
         y.scripts = NextGeneration(tab).scripts, y.results = NextGeneration(tab).results, ~ y.active, ~ y.pending
  PROVE  /\ QueuesOK(y) /\ ActivationOK(y, a)
         /\ \A i \in 1..Len(y.scripts) : ~ (y.scripts[i].kind = "probe" /\ ~ y.scripts[i].stale)
         /\ \A i \in 1..Len(y.results) : ~ (y.results[i].kind = "probe" /\ ~ y.results[i].stale)
<1>1. tab.scripts \in Seq(RdScript) /\ tab.results \in Seq(RdResult)
  BY DEF RdTab
<1>2. /\ y.scripts = Stale(tab.scripts, { "probe", "activate" })
      /\ y.results = Stale(tab.results, { "probe", "activate" })
  BY NextGenerationFields
<1>3. /\ Len(y.scripts) = Len(tab.scripts) /\ Len(y.scripts) \in Nat
      /\ \A i \in 1..Len(y.scripts) :
           /\ y.scripts[i].kind = tab.scripts[i].kind /\ y.scripts[i].appearance = tab.scripts[i].appearance
           /\ y.scripts[i].kind \in { "probe", "activate" } => y.scripts[i].stale
  BY <1>1, <1>2, StaleScripts, LenProperties
<1>4. /\ Len(y.results) = Len(tab.results)
      /\ \A i \in 1..Len(y.results) :
           /\ y.results[i].kind = tab.results[i].kind /\ y.results[i].appearance = tab.results[i].appearance
           /\ y.results[i].kind \in { "probe", "activate" } => y.results[i].stale
  BY <1>1, <1>2, StaleResults
<1>5. Off(y.scripts, y.overlay, Len(y.scripts))
  BY <1>3, OffSame
<1>6. ActivationOK(y, a)
  BY <1>3, <1>4, <1>5, QuietKeeps DEF Called, Replied
<1>7. QueuesOK(y)
  BY <1>3, <1>4 DEF QueuesOK
<1> QED BY <1>3, <1>4, <1>6, <1>7

\* Resetting the attempts keeps the type.
LEMMA AttemptsTyped ==
  ASSUME NEW tab \in RdTab, NEW n \in Nat
  PROVE  [tab EXCEPT !.attempts = n, !.timer = FALSE] \in RdTab
BY DEF RdTab

\* resetForNavigation keeps a tab in order, whatever it was in the middle of.
LEMMA ResetKeeps ==
  ASSUME NEW a, NEW tab \in RdTab, QueuesOK(tab), ActivationOK(tab, a), NEW x, x = ResetForNavigation(tab)
  PROVE  /\ TabOK(x, a) /\ x.loading = tab.loading /\ ~ x.timer /\ ~ x.active /\ ~ x.pending
         /\ x.availability = "Unknown"
<1> DEFINE q == IF tab.active \/ tab.pending THEN Append(tab.scripts, Script("destroy", NoOverlay)) ELSE tab.scripts
           cleared == [tab EXCEPT !.scripts = q]
           g == NextGeneration(cleared)
<1>1. /\ q \in Seq(RdScript) /\ Off(q, tab.overlay, Len(q))
      /\ \A i \in 1..Len(q) : q[i].kind \in { "activate", "appearance" } => q[i].appearance \in Appearances
  BY DestroyedScripts
<1>2. x = [g EXCEPT !.availability = "Unknown", !.active = FALSE, !.pending = FALSE, !.attempts = 0, !.timer = FALSE]
  <2>1. cleared = IF tab.active \/ tab.pending THEN Run(tab, Script("destroy", NoOverlay)) ELSE tab
    <3>1. tab = [tab EXCEPT !.scripts = tab.scripts]
      BY DEF RdTab
    <3> QED BY <3>1 DEF Run
  <2> QED BY <2>1 DEF ResetForNavigation
<1> HIDE DEF q
<1>3. cleared \in RdTab /\ cleared.scripts = q /\ cleared.overlay = tab.overlay /\ cleared.results = tab.results
      /\ cleared.loading = tab.loading /\ QueuesOK(cleared)
  BY <1>1 DEF RdTab, QueuesOK
<1> HIDE DEF cleared
<1>4. g \in RdTab /\ g.overlay = cleared.overlay /\ g.loading = cleared.loading
  BY <1>3, NextGenerationFields
<1> HIDE DEF g
<1>5. /\ x \in RdTab /\ x.scripts = g.scripts /\ x.results = g.results /\ x.overlay = cleared.overlay
      /\ x.loading = tab.loading /\ ~ x.timer /\ ~ x.active /\ ~ x.pending /\ x.availability = "Unknown"
  <2>1. x.loading = g.loading /\ x.overlay = g.overlay
    BY <1>2, <1>4 DEF RdTab
  <2>2. x.scripts = g.scripts /\ x.results = g.results
    BY <1>2, <1>4 DEF RdTab
  <2>3. ~ x.timer /\ ~ x.active /\ ~ x.pending /\ x.availability = "Unknown"
    BY <1>2, <1>4 DEF RdTab
  <2>4. x \in RdTab
    <3> DEFINE y == [g EXCEPT !.availability = "Unknown", !.active = FALSE, !.pending = FALSE]
    <3>1. x = [y EXCEPT !.attempts = 0, !.timer = FALSE]
      BY <1>2
    <3>2. y \in RdTab
      BY <1>4 DEF RdTab
    <3> HIDE DEF y
    <3>3. 0 \in Nat
      OBVIOUS
    <3> QED BY <3>1, <3>2, <3>3, AttemptsTyped, Zenon
  <2> QED BY <1>3, <1>4, <2>1, <2>2, <2>3, <2>4
<1>6. Off(cleared.scripts, cleared.overlay, Len(cleared.scripts))
  BY <1>1, <1>3
<1>7. /\ QueuesOK(x) /\ ActivationOK(x, a)
      /\ \A i \in 1..Len(x.scripts) : ~ (x.scripts[i].kind = "probe" /\ ~ x.scripts[i].stale)
      /\ \A i \in 1..Len(x.results) : ~ (x.results[i].kind = "probe" /\ ~ x.results[i].stale)
  BY <1>3, <1>5, <1>6, NextGenerationQuiets DEF g
<1>8. DocumentOK(x)
  BY <1>5, <1>7 DEF DocumentOK
<1> QED BY <1>5, <1>7, <1>8 DEF TabOK

\* deactivate keeps a tab in order.
LEMMA DeactivatedKeeps ==
  ASSUME NEW a, NEW tab, TabOK(tab, a)
  PROVE  TabOK(Deactivated(tab), a)
<1>1. tab \in RdTab /\ QueuesOK(tab) /\ ActivationOK(tab, a) /\ DocumentOK(tab)
  BY DEF TabOK
<1>2. CASE tab.active \/ tab.pending
  <2> DEFINE g == NextGeneration(tab)
             e == Script("destroy", NoOverlay)
             x == Deactivated(tab)
             q == Append(g.scripts, e)
  <2>1. /\ g \in RdTab
        /\ g.loading = tab.loading /\ g.timer = tab.timer /\ g.availability = tab.availability
        /\ g.judged = tab.judged /\ g.document = tab.document
        /\ g.scripts = Stale(tab.scripts, { "probe", "activate" })
        /\ g.results = Stale(tab.results, { "probe", "activate" })
    BY <1>1, NextGenerationFields
  <2>2. x = [[g EXCEPT !.active = FALSE, !.pending = FALSE] EXCEPT !.scripts = Append(@, e)]
    BY <1>2 DEF Deactivated, Run
  <2>3. e \in RdScript /\ e.kind = "destroy" /\ g.scripts \in Seq(RdScript) /\ g.results \in Seq(RdResult)
        /\ tab.scripts \in Seq(RdScript) /\ tab.results \in Seq(RdResult)
    BY <1>1, <2>1 DEF Script, RdScript, RdTab
  <2>4. /\ \A i \in 1..Len(g.scripts) : g.scripts[i].kind = tab.scripts[i].kind
             /\ g.scripts[i].appearance = tab.scripts[i].appearance
             /\ (g.scripts[i].kind \in { "probe", "activate" } => g.scripts[i].stale)
        /\ \A i \in 1..Len(g.results) : g.results[i].kind = tab.results[i].kind
             /\ g.results[i].appearance = tab.results[i].appearance
             /\ (g.results[i].kind \in { "probe", "activate" } => g.results[i].stale)
        /\ Len(g.scripts) = Len(tab.scripts) /\ Len(g.results) = Len(tab.results)
    BY <2>1, <2>3, StaleScripts, StaleResults
  <2> HIDE DEF g, e
  <2>5. /\ q \in Seq(RdScript) /\ Len(q) = Len(g.scripts) + 1 /\ q[Len(g.scripts) + 1] = e
        /\ \A i \in 1..Len(g.scripts) : q[i] = g.scripts[i]
    BY <2>3, Appended
  <2>6. Len(g.scripts) \in Nat /\ \A i \in 1..Len(q) : i \in 1..Len(g.scripts) \/ i = Len(g.scripts) + 1
    BY <2>3, <2>5, LenProperties
  <2> HIDE DEF q, x
  <2>7. /\ x \in RdTab /\ x.scripts = q /\ x.results = g.results /\ ~ x.active /\ ~ x.pending
        /\ x.loading = tab.loading /\ x.timer = tab.timer /\ x.availability = tab.availability
        /\ x.judged = tab.judged /\ x.document = tab.document
    <3>1. x = [g EXCEPT !.active = FALSE, !.pending = FALSE, !.scripts = q]
      BY <2>1, <2>2 DEF q, RdTab
    <3> QED BY <2>1, <2>5, <3>1 DEF RdTab
  <2>8. Off(x.scripts, x.overlay, Len(x.scripts))
    <3>1. Len(q) \in Nat \ {0} /\ q[Len(q)].kind = "destroy"
      BY <2>3, <2>5, <2>6
    <3> QED BY <2>7, <3>1, OffDestroyed
  <2>9. /\ \A i \in 1..Len(x.scripts) : x.scripts[i].kind \in { "probe", "activate" } => x.scripts[i].stale
        /\ \A i \in 1..Len(x.results) : x.results[i].kind \in { "probe", "activate" } => x.results[i].stale
    BY <2>3, <2>4, <2>5, <2>6, <2>7
  <2>10. ActivationOK(x, a)
    BY <2>7, <2>8, <2>9, QuietKeeps DEF Called, Replied
  <2>11. QueuesOK(x)
    <3>1. \A i \in 1..Len(q) : q[i].kind \in { "activate", "appearance" } => q[i].appearance \in Appearances
      <4> SUFFICES ASSUME NEW i \in 1..Len(q), q[i].kind \in { "activate", "appearance" }
                   PROVE  q[i].appearance \in Appearances
        OBVIOUS
      <4>1. CASE i \in 1..Len(g.scripts)
        BY <1>1, <2>4, <2>5, <4>1 DEF QueuesOK
      <4>2. CASE i = Len(g.scripts) + 1
        BY <2>3, <2>5, <4>2
      <4> QED BY <2>6, <4>1, <4>2
    <3>2. \A i \in 1..Len(x.results) : x.results[i].kind = "change" => x.results[i].appearance \in Appearances
      BY <1>1, <2>4, <2>7 DEF QueuesOK
    <3> QED BY <2>7, <3>1, <3>2 DEF QueuesOK
  <2>12. DocumentOK(x)
    BY <1>1, <2>7, <2>9 DEF DocumentOK
  <2>13. TabOK(x, a)
    BY <2>7, <2>10, <2>11, <2>12 DEF TabOK
  <2> QED BY <2>13 DEF x
<1>3. CASE ~ (tab.active \/ tab.pending)
  BY <1>3 DEF Deactivated
<1> QED BY <1>2, <1>3

\* A probe, and what loadFinished makes stale before it.
LEMMA ProbeKeeps ==
  ASSUME NEW a, NEW tab, TabOK(tab, a), ~ tab.loading, NEW supported \in BOOLEAN
  PROVE  TabOK(Probe(tab, supported), a)
<1>1. tab \in RdTab /\ QueuesOK(tab) /\ ActivationOK(tab, a) /\ DocumentOK(tab)
  BY DEF TabOK
<1>2. CASE supported
  <2> DEFINE p == Stale(tab.scripts, { "probe" })
             r == Stale(tab.results, { "probe" })
             e == Script("probe", NoOverlay)
             q == Append(p, e)
             x == Probe(tab, supported)
  <2>1. /\ tab.scripts \in Seq(RdScript) /\ tab.results \in Seq(RdResult) /\ e \in RdScript /\ e.kind = "probe"
        /\ Len(tab.scripts) \in Nat /\ Len(tab.results) \in Nat
    BY <1>1, LenProperties DEF Script, RdScript, RdTab
  <2>2. x = [tab EXCEPT !.scripts = q, !.results = r, !.timer = FALSE, !.availability = "Unknown", !.attempts = @ + 1]
    BY <1>1, <1>2 DEF Probe, Run, NextProbe, RdTab
  <2>3. /\ p \in Seq(RdScript) /\ Len(p) = Len(tab.scripts)
        /\ \A i \in 1..Len(tab.scripts) : p[i].kind = tab.scripts[i].kind /\ p[i].appearance = tab.scripts[i].appearance
             /\ (p[i].stale <=> tab.scripts[i].stale \/ tab.scripts[i].kind = "probe")
    BY <2>1, StaleScripts
  <2>4. /\ r \in Seq(RdResult) /\ Len(r) = Len(tab.results)
        /\ \A i \in 1..Len(tab.results) : r[i].kind = tab.results[i].kind /\ r[i].appearance = tab.results[i].appearance
             /\ r[i].ok = tab.results[i].ok
             /\ (r[i].stale <=> tab.results[i].stale \/ tab.results[i].kind = "probe")
    BY <2>1, StaleResults
  <2> HIDE DEF p, r, e
  <2>5. /\ q \in Seq(RdScript) /\ Len(q) = Len(p) + 1 /\ q[Len(p) + 1] = e /\ \A i \in 1..Len(p) : q[i] = p[i]
    BY <2>1, <2>3, Appended
  <2> HIDE DEF q, x
  <2>6. /\ x \in RdTab /\ x.scripts = q /\ x.results = r /\ x.overlay = tab.overlay /\ x.active = tab.active
        /\ x.pending = tab.pending /\ x.missed = tab.missed /\ x.loading = tab.loading /\ x.availability = "Unknown"
    <3>1. x.scripts = q /\ x.results = r /\ x.overlay = tab.overlay
      BY <1>1, <2>2 DEF RdTab
    <3>2. x.active = tab.active /\ x.pending = tab.pending /\ x.missed = tab.missed
      BY <1>1, <2>2 DEF RdTab
    <3>3. x.loading = tab.loading /\ x.availability = "Unknown"
      BY <1>1, <2>2 DEF RdTab
    <3>4. x \in RdTab
      <4> DEFINE y == [tab EXCEPT !.scripts = q, !.results = r]
      <4>1. x = [[y EXCEPT !.availability = "Unknown"] EXCEPT !.attempts = y.attempts + 1, !.timer = FALSE]
        BY <1>1, <2>2 DEF RdTab
      <4>2. y \in RdTab
        BY <1>1, <2>4, <2>5 DEF RdTab
      <4> HIDE DEF y
      <4>3. [y EXCEPT !.availability = "Unknown"] \in RdTab
        BY <4>2 DEF RdTab
      <4>4. y.attempts + 1 \in Nat
        BY <4>2 DEF RdTab
      <4> QED BY <4>1, <4>3, <4>4, AttemptsTyped, Zenon
    <3> QED BY <3>1, <3>2, <3>3, <3>4
  <2>7. SameScripts(tab.scripts, x.scripts)
    <3>1. \A i \in 1..Len(tab.scripts) : tab.scripts[i] \in RdScript /\ p[i] \in RdScript
      BY <2>1, <2>3
    <3>2. \A i \in 1..Len(tab.scripts) : tab.scripts[i].kind = "activate" => p[i].stale = tab.scripts[i].stale
      BY <2>3, <3>1 DEF RdScript
    <3>3. \A i \in 1..Len(q) : i > Len(tab.scripts) => i = Len(p) + 1
      BY <2>1, <2>3, <2>5
    <3> QED BY <2>1, <2>3, <2>5, <2>6, <3>2, <3>3 DEF SameScripts
  <2>8. SameResults(tab.results, x.results)
    <3>1. \A i \in 1..Len(tab.results) : tab.results[i] \in RdResult /\ r[i] \in RdResult
      BY <2>1, <2>4
    <3>2. \A i \in 1..Len(tab.results) : tab.results[i].kind = "activate" => r[i].stale = tab.results[i].stale
      BY <2>4, <3>1 DEF RdResult
    <3> QED BY <2>1, <2>4, <2>6, <3>2 DEF SameResults
  <2>9. ActivationOK(x, a)
    BY <1>1, <2>6, <2>7, <2>8, SameKeeps
  <2>10. QueuesOK(x)
    <3>1. \A i \in 1..Len(q) : q[i].kind \in { "activate", "appearance" } => q[i].appearance \in Appearances
      <4> SUFFICES ASSUME NEW i \in 1..Len(q), q[i].kind \in { "activate", "appearance" }
                   PROVE  q[i].appearance \in Appearances
        OBVIOUS
      <4>1. i \in 1..Len(tab.scripts) \/ i = Len(p) + 1
        BY <2>1, <2>3, <2>5
      <4>2. CASE i \in 1..Len(tab.scripts)
        BY <1>1, <2>3, <2>5, <4>2 DEF QueuesOK
      <4>3. CASE i = Len(p) + 1
        BY <2>1, <2>5, <4>3
      <4> QED BY <4>1, <4>2, <4>3
    <3>2. \A i \in 1..Len(x.results) : x.results[i].kind = "change" => x.results[i].appearance \in Appearances
      BY <1>1, <2>4, <2>6 DEF QueuesOK
    <3> QED BY <2>6, <3>1, <3>2 DEF QueuesOK
  <2>11. DocumentOK(x)
    <3>1. \A i \in 1..Len(x.results) : x.results[i].kind = "probe" => x.results[i].stale
      BY <2>4, <2>6
    <3> QED BY <2>6, <3>1 DEF DocumentOK
  <2>12. TabOK(x, a)
    BY <2>6, <2>9, <2>10, <2>11 DEF TabOK
  <2> QED BY <2>12 DEF x
<1>3. CASE ~ supported
  <2> DEFINE x == [tab EXCEPT !.timer = FALSE, !.availability = "Unavailable"]
  <2>1. /\ x \in RdTab /\ x.scripts = tab.scripts /\ x.results = tab.results /\ x.overlay = tab.overlay
        /\ x.active = tab.active /\ x.pending = tab.pending /\ x.missed = tab.missed /\ x.loading = tab.loading
        /\ x.availability = "Unavailable" /\ x.document = tab.document
    BY <1>1 DEF RdTab
  <2> HIDE DEF x
  <2>2. TabOK(x, a)
    <3>1. ActivationOK(x, a)
      BY <1>1, <2>1 DEF ActivationOK, CalledOnce, AnsweredOnce, Called, Replied, On
    <3> QED BY <1>1, <2>1, <3>1 DEF TabOK, QueuesOK, DocumentOK
  <2> QED BY <1>3, <2>2 DEF x, Probe
<1> QED BY <1>2, <1>3

\* What leaves queues, overlay and activation alone keeps them in order.
LEMMA QueuesKept ==
  ASSUME NEW a, NEW tab \in RdTab, NEW x \in RdTab, QueuesOK(tab), ActivationOK(tab, a), x.scripts = tab.scripts,
         x.results = tab.results, x.overlay = tab.overlay, x.active = tab.active, x.pending = tab.pending,
         x.missed = tab.missed
  PROVE  QueuesOK(x) /\ ActivationOK(x, a)
BY DEF QueuesOK, ActivationOK, CalledOnce, AnsweredOnce, Called, Replied, On

\* One more script at the end.
LEMMA RunFields ==
  ASSUME NEW tab \in RdTab, NEW script \in RdScript
  PROVE  LET x == Run(tab, script) IN
         /\ x \in RdTab /\ x.scripts = Append(tab.scripts, script) /\ x.results = tab.results
         /\ x.overlay = tab.overlay /\ x.active = tab.active /\ x.pending = tab.pending /\ x.missed = tab.missed
         /\ x.availability = tab.availability /\ x.timer = tab.timer /\ x.loading = tab.loading
         /\ x.document = tab.document /\ x.judged = tab.judged
         /\ Len(tab.scripts) \in Nat /\ Len(x.scripts) = Len(tab.scripts) + 1
         /\ \A i \in 1..Len(tab.scripts) : x.scripts[i] = tab.scripts[i]
         /\ x.scripts[Len(tab.scripts) + 1] = script
         /\ \A i \in 1..Len(x.scripts) : i \in 1..Len(tab.scripts) \/ i = Len(tab.scripts) + 1
<1> DEFINE q == Append(tab.scripts, script)
           x == [tab EXCEPT !.scripts = q]
<1>1. tab.scripts \in Seq(RdScript) /\ Len(tab.scripts) \in Nat
  BY LenProperties DEF RdTab
<1>2. /\ q \in Seq(RdScript) /\ Len(q) = Len(tab.scripts) + 1 /\ q[Len(tab.scripts) + 1] = script
      /\ \A i \in 1..Len(tab.scripts) : q[i] = tab.scripts[i]
  BY <1>1, Appended
<1> HIDE DEF q
<1>3. x \in RdTab
  BY <1>2 DEF RdTab
<1>4. /\ x.scripts = q /\ x.results = tab.results
      /\ x.overlay = tab.overlay /\ x.active = tab.active /\ x.pending = tab.pending /\ x.missed = tab.missed
      /\ x.availability = tab.availability /\ x.timer = tab.timer /\ x.loading = tab.loading
      /\ x.document = tab.document /\ x.judged = tab.judged
  BY DEF RdTab
<1>5. Run(tab, script) = x
  BY DEF Run, q
<1> HIDE DEF x
<1>6. \A i \in 1..Len(q) : i \in 1..Len(tab.scripts) \/ i = Len(tab.scripts) + 1
  BY <1>1, <1>2
<1> QED BY <1>1, <1>2, <1>3, <1>4, <1>5, <1>6 DEF q

\* A script that is no probe that counts leaves the documents in order.
LEMMA RunDocument ==
  ASSUME NEW tab \in RdTab, NEW script \in RdScript, QueuesOK(tab), DocumentOK(tab), script.kind # "probe",
         script.kind \in { "activate", "appearance" } => script.appearance \in Appearances,
         NEW x \in RdTab, x.scripts = Append(tab.scripts, script), x.results = tab.results, x.document = tab.document,
         x.loading = tab.loading, x.timer = tab.timer, x.availability = tab.availability, x.judged = tab.judged,
         tab.loading => ~ x.active /\ ~ x.pending
  PROVE  QueuesOK(x) /\ DocumentOK(x)
<1>1. /\ Len(tab.scripts) \in Nat
      /\ \A i \in 1..Len(tab.scripts) : x.scripts[i] = tab.scripts[i]
      /\ x.scripts[Len(tab.scripts) + 1] = script
      /\ \A i \in 1..Len(x.scripts) : i \in 1..Len(tab.scripts) \/ i = Len(tab.scripts) + 1
  BY RunFields
<1>2. \A i \in 1..Len(x.scripts) :
        x.scripts[i].kind \in { "activate", "appearance" } => x.scripts[i].appearance \in Appearances
  BY <1>1 DEF QueuesOK
<1>3. \A i \in 1..Len(x.scripts) : x.scripts[i].kind = "probe" /\ ~ x.scripts[i].stale => ~ x.loading
  BY <1>1 DEF DocumentOK
<1> QED BY <1>2, <1>3 DEF QueuesOK, DocumentOK

Activating(tab, a) == Run([tab EXCEPT !.pending = TRUE, !.missed = FALSE], Script("activate", a))

\* activate keeps a tab in order: nothing counts before it, and no overlay is left.
LEMMA ActivateKeeps ==
  ASSUME NEW a \in Appearances, NEW tab, TabOK(tab, a), ~ tab.active, ~ tab.pending, tab.availability = "Available"
  PROVE  TabOK(Activating(tab, a), a)
<1> DEFINE e == Script("activate", a)
           y == [tab EXCEPT !.pending = TRUE, !.missed = FALSE]
           x == Run(y, e)
           n == Len(tab.scripts)
<1>1. tab \in RdTab /\ QueuesOK(tab) /\ ActivationOK(tab, a) /\ DocumentOK(tab)
  BY DEF TabOK
<1>2. e \in RdScript /\ e.kind = "activate" /\ e.appearance = a /\ ~ e.stale
  BY DEF Script, RdScript
<1>3. /\ y \in RdTab /\ y.scripts = tab.scripts /\ y.results = tab.results /\ y.overlay = tab.overlay
      /\ y.active = tab.active /\ y.pending
      /\ y.availability = tab.availability /\ y.timer = tab.timer /\ y.loading = tab.loading
      /\ y.document = tab.document /\ y.judged = tab.judged
  BY <1>1 DEF RdTab
<1> HIDE DEF e, y
<1>4. /\ x \in RdTab /\ x.scripts = Append(tab.scripts, e) /\ x.results = tab.results /\ x.overlay = tab.overlay
      /\ ~ x.active /\ x.pending /\ x.availability = tab.availability /\ x.timer = tab.timer
      /\ x.loading = tab.loading /\ x.document = tab.document /\ x.judged = tab.judged
      /\ n \in Nat /\ Len(x.scripts) = n + 1 /\ x.scripts[n + 1] = e
      /\ \A i \in 1..n : x.scripts[i] = tab.scripts[i]
      /\ \A i \in 1..Len(x.scripts) : i \in 1..n \/ i = n + 1
  <2>1. Len(y.scripts) = n /\ x = Run(y, e)
    BY <1>3
  <2> HIDE DEF n, x
  <2>2. x.active = y.active /\ x.pending = y.pending /\ x.timer = y.timer /\ x.loading = y.loading
    BY <1>2, <1>3, <2>1, RunFields
  <2>3. /\ x \in RdTab /\ x.scripts = Append(tab.scripts, e) /\ x.results = tab.results
        /\ x.overlay = tab.overlay /\ x.availability = tab.availability
        /\ x.document = tab.document /\ x.judged = tab.judged
        /\ n \in Nat /\ Len(x.scripts) = n + 1 /\ x.scripts[n + 1] = e
        /\ \A i \in 1..n : x.scripts[i] = tab.scripts[i]
        /\ \A i \in 1..Len(x.scripts) : i \in 1..n \/ i = n + 1
    BY <1>2, <1>3, <2>1, RunFields
  <2> QED BY <1>3, <2>2, <2>3
<1> HIDE DEF x, n
<1>5. /\ \A i \in 1..n : ~ Called(tab, i)
      /\ \A i \in 1..Len(tab.results) : ~ Replied(tab, i)
      /\ Off(tab.scripts, tab.overlay, n)
  BY <1>1 DEF ActivationOK, n
<1>6. \A i \in 1..Len(x.scripts) : Called(x, i) <=> i = n + 1
  <2>1. \A i \in 1..n : ~ (x.scripts[i].kind = "activate" /\ ~ x.scripts[i].stale)
    BY <1>4, <1>5 DEF Called, n
  <2> QED BY <1>2, <1>4, <2>1 DEF Called
<1>7. \A i \in 1..Len(x.results) : ~ Replied(x, i)
  BY <1>4, <1>5 DEF Replied
<1>8. CalledOnce(x, a)
  <2>1. Off(x.scripts, x.overlay, n)
    BY <1>4, <1>5, OffSame
  <2>2. n + 1 - 1 = n /\ \A j \in 1..Len(x.scripts) : ~ (j > n + 1)
    BY <1>4
  <2> QED BY <1>2, <1>4, <1>6, <1>7, <2>1, <2>2 DEF CalledOnce
<1>9. n + 1 \in 1..Len(x.scripts)
  BY <1>4
<1>10. ActivationOK(x, a)
  BY <1>4, <1>6, <1>7, <1>8, <1>9 DEF ActivationOK, AnsweredOnce
<1>11. QueuesOK(x) /\ DocumentOK(x)
  <2>1. ~ tab.loading
    BY <1>1 DEF DocumentOK
  <2> QED BY <1>1, <1>2, <1>4, <2>1, RunDocument
<1>12. TabOK(x, a)
  BY <1>4, <1>10, <1>11 DEF TabOK
<1> QED BY <1>12 DEF x, y, e, Activating

\* A change of the appearance reaches every overlay there is, or is marked as missed.
LEMMA AppearanceKeeps ==
  ASSUME NEW a, NEW b \in Appearances, NEW tab, TabOK(tab, a)
  PROVE  TabOK(ApplyAppearance(tab, b), b)
<1>1. tab \in RdTab /\ QueuesOK(tab) /\ ActivationOK(tab, a) /\ DocumentOK(tab)
  BY DEF TabOK
<1>2. CASE tab.active
  <2> DEFINE e == Script("appearance", b)
             y == [tab EXCEPT !.missed = FALSE]
             x == Run(y, e)
             n == Len(tab.scripts)
  <2>1. e \in RdScript /\ e.kind = "appearance" /\ e.appearance = b
    BY DEF Script, RdScript
  <2>2. /\ y \in RdTab /\ y.scripts = tab.scripts /\ y.results = tab.results /\ y.overlay = tab.overlay
        /\ y.active = tab.active /\ y.pending = tab.pending
        /\ y.availability = tab.availability /\ y.timer = tab.timer /\ y.loading = tab.loading
        /\ y.document = tab.document /\ y.judged = tab.judged
    BY <1>1 DEF RdTab
  <2> HIDE DEF e, y
  <2>3. /\ x \in RdTab /\ x.scripts = Append(tab.scripts, e) /\ x.results = tab.results /\ x.overlay = tab.overlay
        /\ x.active = tab.active /\ x.pending = tab.pending
        /\ x.availability = tab.availability /\ x.timer = tab.timer
        /\ x.loading = tab.loading /\ x.document = tab.document /\ x.judged = tab.judged
        /\ n \in Nat /\ Len(x.scripts) = n + 1 /\ x.scripts[n + 1] = e
        /\ \A i \in 1..n : x.scripts[i] = tab.scripts[i]
        /\ \A i \in 1..Len(x.scripts) : i \in 1..n \/ i = n + 1
    <3>1. x.active = y.active /\ x.pending = y.pending /\ x.timer = y.timer /\ x.loading = y.loading
      BY <2>1, <2>2, RunFields
    <3>2. /\ x \in RdTab /\ x.scripts = Append(tab.scripts, e) /\ x.results = tab.results
          /\ x.overlay = tab.overlay /\ x.availability = tab.availability
          /\ x.document = tab.document /\ x.judged = tab.judged
          /\ n \in Nat /\ Len(x.scripts) = n + 1 /\ x.scripts[n + 1] = e
          /\ \A i \in 1..n : x.scripts[i] = tab.scripts[i]
          /\ \A i \in 1..Len(x.scripts) : i \in 1..n \/ i = n + 1
      BY <2>1, <2>2, RunFields
    <3> QED BY <2>2, <3>1, <3>2
  <2> HIDE DEF x, n
  <2>4. /\ ~ tab.pending /\ tab.overlay # NoOverlay
        /\ \A i \in 1..n : tab.scripts[i].kind \in { "probe", "appearance" }
        /\ \A i \in 1..Len(tab.results) : ~ Replied(tab, i)
    BY <1>1, <1>2 DEF ActivationOK, On, n
  <2>5. \A i \in 1..Len(x.scripts) : x.scripts[i].kind \in { "probe", "appearance" }
    BY <2>1, <2>3, <2>4
  <2>6. Styled(x.scripts, x.overlay, b)
    <3>1. n + 1 \in 1..Len(x.scripts) /\ \A i \in 1..Len(x.scripts) : ~ (i > n + 1)
      BY <2>3
    <3> QED BY <2>1, <2>3, <3>1 DEF Styled
  <2>7. \A i \in 1..Len(x.scripts) : ~ Called(x, i)
    BY <2>5 DEF Called
  <2>8. \A i \in 1..Len(x.results) : ~ Replied(x, i)
    BY <2>3, <2>4 DEF Replied
  <2>9. ActivationOK(x, b)
    BY <1>2, <2>3, <2>4, <2>5, <2>6, <2>7, <2>8 DEF ActivationOK, On, CalledOnce, AnsweredOnce
  <2>10. QueuesOK(x) /\ DocumentOK(x)
    <3>1. ~ tab.loading
      BY <1>1, <1>2 DEF DocumentOK
    <3> QED BY <1>1, <2>1, <2>3, <3>1, RunDocument
  <2>11. TabOK(x, b)
    BY <2>3, <2>9, <2>10 DEF TabOK
  <2> QED BY <1>2, <2>11 DEF ApplyAppearance, x, y, e
<1>3. CASE ~ tab.active
  <2> DEFINE x == [tab EXCEPT !.missed = @ \/ tab.pending]
  <2>1. /\ x \in RdTab /\ x.scripts = tab.scripts /\ x.results = tab.results /\ x.overlay = tab.overlay
        /\ x.active = tab.active /\ x.pending = tab.pending /\ x.missed = (tab.missed \/ tab.pending)
        /\ x.availability = tab.availability /\ x.timer = tab.timer /\ x.loading = tab.loading
        /\ x.document = tab.document /\ x.judged = tab.judged
    BY <1>1 DEF RdTab
  <2> HIDE DEF x
  <2>2. /\ \A i \in 1..Len(x.scripts) : Called(x, i) <=> Called(tab, i)
        /\ \A i \in 1..Len(x.results) : Replied(x, i) <=> Replied(tab, i)
    BY <2>1 DEF Called, Replied
  <2>3. ASSUME tab.pending PROVE ActivationOK(x, b)
    <3>1. On(tab, a) => On(x, b)
      BY <2>1, <2>3 DEF On
    <3>2. CalledOnce(x, b)
      BY <1>1, <2>1, <2>2, <2>3 DEF ActivationOK, CalledOnce
    <3>3. AnsweredOnce(x, b)
      BY <1>1, <2>1, <2>2, <3>1 DEF ActivationOK, AnsweredOnce
    <3> QED BY <1>1, <1>3, <2>1, <2>2, <2>3, <3>2, <3>3 DEF ActivationOK
  <2>4. ASSUME ~ tab.pending PROVE ActivationOK(x, b)
    <3>1. /\ \A i \in 1..Len(tab.scripts) : ~ Called(tab, i)
          /\ \A i \in 1..Len(tab.results) : ~ Replied(tab, i)
          /\ Off(tab.scripts, tab.overlay, Len(tab.scripts))
      BY <1>1, <1>3, <2>4 DEF ActivationOK
    <3> QED BY <1>3, <2>1, <2>2, <2>4, <3>1, QuietKeeps
  <2>5. ActivationOK(x, b)
    BY <2>3, <2>4
  <2>6. TabOK(x, b)
    BY <1>1, <2>1, <2>5 DEF TabOK, QueuesOK, DocumentOK
  <2> QED BY <1>3, <2>6 DEF ApplyAppearance, x
<1> QED BY <1>2, <1>3

(***************************************************************************)
(* The page runs a script.                                                 *)
(***************************************************************************)
\* The page running its first script keeps a tab in order.
LEMMA PageKeeps ==
  ASSUME NEW a, NEW tab, TabOK(tab, a), tab.scripts # << >>, NEW ok \in BOOLEAN, NEW result, NEW x \in RdTab,
         result = [kind |-> Head(tab.scripts).kind, ok |-> ok, stale |-> Head(tab.scripts).stale,
                   document |-> tab.document, appearance |-> NoOverlay],
         x.scripts = Tail(tab.scripts), x.overlay = After(Head(tab.scripts), tab.overlay, ok),
         x.results = IF Head(tab.scripts).kind \in ResultKinds THEN Append(tab.results, result)
                     ELSE tab.results,
         x.active <=> tab.active, x.pending <=> tab.pending, x.missed <=> tab.missed, x.loading <=> tab.loading,
         x.timer <=> tab.timer, x.availability = tab.availability, x.document = tab.document, x.judged = tab.judged
  PROVE  TabOK(x, a)
<1> DEFINE s == tab.scripts[1]
           n == Len(tab.scripts)
           m == Len(tab.results)
<1>1. /\ tab \in RdTab /\ QueuesOK(tab) /\ ActivationOK(tab, a) /\ DocumentOK(tab)
      /\ tab.scripts \in Seq(RdScript) /\ tab.results \in Seq(RdResult) /\ m \in Nat
      /\ tab.document \in Nat /\ tab.overlay \in Appearances \union { NoOverlay }
  BY LenProperties DEF TabOK, RdTab
<1>2. /\ s \in RdScript /\ Head(tab.scripts) = s /\ n \in Nat \ {0} /\ Len(x.scripts) = n - 1
      /\ \A i \in 1..n - 1 : i + 1 \in 1..n /\ x.scripts[i] = tab.scripts[i + 1]
  BY <1>1, Taken
<1>3. /\ result.kind = s.kind /\ result.ok = ok /\ result.stale = s.stale /\ result.document = tab.document
      /\ result.appearance = NoOverlay
  BY <1>2
<1>4. /\ m <= Len(x.results) /\ \A i \in 1..m : x.results[i] = tab.results[i]
      /\ \A i \in 1..Len(x.results) : i > m => i = m + 1 /\ x.results[i] = result
      /\ s.kind \in ResultKinds => m + 1 \in 1..Len(x.results) /\ x.results[m + 1] = result
  <2>1. CASE s.kind \in ResultKinds
    <3>1. result \in RdResult
      BY <1>1, <1>2, <2>1 DEF RdResult, RdScript, ResultKinds
    <3>2. x.results = Append(tab.results, result)
      BY <1>2, <2>1
    <3>3. /\ Len(x.results) = m + 1 /\ \A i \in 1..m : x.results[i] = tab.results[i]
          /\ x.results[m + 1] = result
      BY <1>1, <3>1, <3>2, Appended
    <3> QED BY <1>1, <3>3
  <2>2. CASE s.kind \notin ResultKinds
    BY <1>1, <1>2, <2>2
  <2> QED BY <2>1, <2>2
<1> HIDE DEF s, n, m
<1>5. \A i \in 1..n - 1 : Called(x, i) <=> Called(tab, i + 1)
  BY <1>2 DEF Called, n
<1>6. \A i \in 1..m : Replied(x, i) <=> Replied(tab, i)
  BY <1>1, <1>4 DEF Replied, m
<1>7. s.kind = "appearance" \/ s.kind = "activate" => s.appearance \in Appearances
  <2>1. 1 \in 1..n
    BY <1>2
  <2> QED BY <1>1, <2>1 DEF QueuesOK, n, s
<1>8. QueuesOK(x)
  <2>1. \A i \in 1..n - 1 :
          x.scripts[i].kind \in { "activate", "appearance" } => x.scripts[i].appearance \in Appearances
    BY <1>1, <1>2 DEF QueuesOK, n
  <2>2. s.kind = "change" => FALSE
    BY <1>2 DEF RdScript
  <2>3. \A i \in 1..Len(x.results) : x.results[i].kind = "change" => x.results[i].appearance \in Appearances
    <3> SUFFICES ASSUME NEW i \in 1..Len(x.results), x.results[i].kind = "change"
                 PROVE  x.results[i].appearance \in Appearances
      OBVIOUS
    <3>1. ~ (i > m)
      BY <1>3, <1>4, <2>2
    <3>2. i \in 1..m
      BY <1>1, <3>1
    <3> QED BY <1>1, <1>4, <3>2 DEF QueuesOK, m
  <2> QED BY <1>2, <2>1, <2>3 DEF QueuesOK
<1>9. DocumentOK(x)
  <2>1. \A i \in 1..n - 1 : x.scripts[i].kind = "probe" /\ ~ x.scripts[i].stale => ~ x.loading
    BY <1>1, <1>2 DEF DocumentOK, n
  <2>2. s.kind = "probe" /\ ~ s.stale => ~ x.loading
    <3>1. 1 \in 1..n
      BY <1>2
    <3> QED BY <1>1, <3>1 DEF DocumentOK, n, s
  <2>3. ASSUME NEW i \in 1..Len(x.results), x.results[i].kind = "probe", ~ x.results[i].stale
        PROVE  ~ x.loading /\ x.results[i].document = x.document
    <3>1. CASE i > m
      BY <1>3, <1>4, <2>2, <2>3, <3>1
    <3>2. CASE ~ (i > m)
      <4>1. i \in 1..m
        BY <1>1, <3>2
      <4> QED BY <1>1, <1>4, <2>3, <4>1 DEF DocumentOK, m
    <3> QED BY <3>1, <3>2
  <2> QED BY <1>1, <1>2, <2>1, <2>3 DEF DocumentOK
<1>10. ASSUME s.kind = "activate", ~ s.stale PROVE ActivationOK(x, a)
  <2>1. 1 \in 1..n /\ Called(tab, 1)
    BY <1>2, <1>10 DEF Called, n, s
  <2>2. /\ \A i \in 1..m : ~ Replied(tab, i)
        /\ \A j \in 1..n : j > 1 => tab.scripts[j].kind = "probe"
        /\ Off(tab.scripts, tab.overlay, 0)
        /\ tab.missed \/ s.appearance = a
        /\ tab.pending /\ ~ tab.active
    BY <1>1, <2>1 DEF ActivationOK, CalledOnce, n, m, s
  <2>3. tab.overlay = NoOverlay
    BY <2>2 DEF Off
  <2>4. \A i \in 1..n - 1 : x.scripts[i].kind = "probe"
    BY <1>2, <2>2
  <2>5. x.overlay = IF ok THEN s.appearance ELSE NoOverlay
    BY <1>2, <1>10, <2>3 DEF After
  <2>6. \A i \in 1..Len(x.scripts) : ~ Called(x, i)
    BY <1>2, <2>4 DEF Called
  <2>7. m + 1 \in 1..Len(x.results) /\ Replied(x, m + 1) /\ x.results[m + 1].ok = ok
    BY <1>3, <1>4, <1>10 DEF Replied, ResultKinds
  <2>8. \A i \in 1..Len(x.results) : Replied(x, i) => i = m + 1
    <3> SUFFICES ASSUME NEW i \in 1..Len(x.results), Replied(x, i), ~ (i > m) PROVE FALSE
      BY <1>4
    <3>1. i \in 1..m
      BY <1>1
    <3> QED BY <1>6, <2>2, <3>1
  <2>9. IF ok THEN On(x, a) ELSE Off(x.scripts, x.overlay, Len(x.scripts))
    <3>1. CASE ok
      <4>1. x.overlay # NoOverlay
        BY <1>7, <1>10, <2>5, <3>1, ReaderModeAssumption
      <4> QED BY <1>2, <2>2, <2>4, <2>5, <3>1, <4>1 DEF On, Styled
    <3>2. CASE ~ ok
      BY <1>2, <2>4, <2>5, <3>2 DEF Off
    <3> QED BY <3>1, <3>2
  <2>10. AnsweredOnce(x, a)
    BY <2>7, <2>8, <2>9 DEF AnsweredOnce
  <2> QED BY <2>2, <2>6, <2>7, <2>10 DEF ActivationOK, CalledOnce
<1>11. ASSUME ~ (s.kind = "activate" /\ ~ s.stale) PROVE ActivationOK(x, a)
  <2>1. ~ Called(tab, 1)
    BY <1>11 DEF Called, s
  <2>2. \A i \in 1..Len(x.results) : Replied(x, i) => i \in 1..m /\ Replied(tab, i)
    <3> SUFFICES ASSUME NEW i \in 1..Len(x.results), Replied(x, i) PROVE i \in 1..m
      BY <1>6
    <3>1. ~ (i > m)
      BY <1>3, <1>4, <1>11 DEF Replied
    <3> QED BY <1>1, <3>1
  <2>3. \A i \in 1..m : Replied(tab, i) => i \in 1..Len(x.results) /\ Replied(x, i)
    <3> SUFFICES ASSUME NEW i \in 1..m, Replied(tab, i) PROVE i \in 1..Len(x.results)
      BY <1>6
    <3>1. x.results \in Seq(RdResult)
      BY DEF RdTab
    <3>2. Len(x.results) \in Nat
      BY <3>1, LenProperties
    <3> QED BY <1>1, <1>4, <3>2
  <2>4. x.pending <=> \/ \E i \in 1..Len(x.scripts) : Called(x, i)
                      \/ \E i \in 1..Len(x.results) : Replied(x, i)
    <3>1. tab.pending <=> (\E i \in 1..n : Called(tab, i)) \/ \E i \in 1..m : Replied(tab, i)
      BY <1>1 DEF ActivationOK, n, m
    <3>2. ASSUME NEW i \in 1..n, Called(tab, i) PROVE \E j \in 1..n - 1 : Called(x, j)
      <4>1. i # 1
        BY <2>1, <3>2
      <4>2. i - 1 \in 1..n - 1 /\ i - 1 + 1 = i
        BY <1>2, <4>1
      <4>3. Called(x, i - 1)
        BY <1>5, <3>2, <4>2
      <4> QED BY <4>2, <4>3
    <3>3. (\E i \in 1..n : Called(tab, i)) <=> \E j \in 1..Len(x.scripts) : Called(x, j)
      BY <1>2, <1>5, <3>2
    <3>4. (\E i \in 1..m : Replied(tab, i)) <=> \E j \in 1..Len(x.results) : Replied(x, j)
      BY <2>2, <2>3
    <3> QED BY <3>1, <3>3, <3>4
  <2>5. \A i \in 1..n : Off(tab.scripts, tab.overlay, i) => Off(x.scripts, x.overlay, i - 1)
    BY <1>1, <1>2, OffAfter DEF n
  <2>6. On(tab, a) => On(x, a)
    <3> SUFFICES ASSUME On(tab, a) PROVE On(x, a)
      OBVIOUS
    <3>1. s.kind \in { "probe", "appearance" } /\ tab.overlay # NoOverlay
          /\ (tab.missed \/ Styled(tab.scripts, tab.overlay, a))
      BY <1>2 DEF On, n, s
    <3>2. x.overlay # NoOverlay
      BY <1>2, <1>7, <3>1, ReaderModeAssumption DEF After
    <3>3. \A i \in 1..n - 1 : x.scripts[i].kind \in { "probe", "appearance" }
      BY <1>2 DEF On, n
    <3>4. Styled(tab.scripts, tab.overlay, a) => Styled(x.scripts, x.overlay, a)
      BY <1>1, <1>2, <3>1, StyledAfter
    <3> QED BY <1>2, <3>1, <3>2, <3>3, <3>4 DEF On
  <2>7. CalledOnce(x, a)
    <3> SUFFICES ASSUME NEW i \in 1..Len(x.scripts), Called(x, i)
                 PROVE  /\ \A j \in 1..Len(x.results) : ~ Replied(x, j)
                        /\ \A j \in 1..Len(x.scripts) : j > i => x.scripts[j].kind = "probe"
                        /\ Off(x.scripts, x.overlay, i - 1)
                        /\ x.missed \/ x.scripts[i].appearance = a
      BY DEF CalledOnce
    <3>1. i \in 1..n - 1 /\ i + 1 \in 1..n /\ i \in 1..n /\ Called(tab, i + 1)
      BY <1>2, <1>5
    <3>2. /\ \A j \in 1..m : ~ Replied(tab, j)
          /\ \A j \in 1..n : j > i + 1 => tab.scripts[j].kind = "probe"
          /\ Off(tab.scripts, tab.overlay, i + 1 - 1)
          /\ tab.missed \/ tab.scripts[i + 1].appearance = a
      BY <1>1, <3>1 DEF ActivationOK, CalledOnce, n, m
    <3>3. \A j \in 1..n - 1 : j > i => x.scripts[j].kind = "probe"
      <4> SUFFICES ASSUME NEW j \in 1..n - 1, j > i PROVE x.scripts[j].kind = "probe"
        OBVIOUS
      <4>1. j + 1 \in 1..n /\ j + 1 > i + 1 /\ x.scripts[j] = tab.scripts[j + 1]
        BY <1>2, <3>1
      <4> QED BY <3>2, <4>1
    <3>4. i + 1 - 1 = i
      BY <3>1
    <3>5. Off(x.scripts, x.overlay, i - 1)
      BY <2>5, <3>1, <3>2, <3>4
    <3>6. x.missed \/ x.scripts[i].appearance = a
      BY <1>2, <3>1, <3>2
    <3>7. \A j \in 1..Len(x.results) : ~ Replied(x, j)
      BY <2>2, <3>2
    <3>8. \A j \in 1..Len(x.scripts) : j > i => x.scripts[j].kind = "probe"
      BY <1>2, <3>3
    <3> QED BY <3>5, <3>6, <3>7, <3>8
  <2>8. n \in 1..n /\ Len(x.scripts) = n - 1
    BY <1>2
  <2>9. AnsweredOnce(x, a)
    <3> SUFFICES ASSUME NEW i \in 1..Len(x.results), Replied(x, i)
                 PROVE  /\ \A j \in 1..Len(x.results) : Replied(x, j) => j = i
                        /\ IF x.results[i].ok THEN On(x, a) ELSE Off(x.scripts, x.overlay, Len(x.scripts))
      BY DEF AnsweredOnce
    <3>1. i \in 1..m /\ Replied(tab, i) /\ x.results[i] = tab.results[i]
      BY <1>4, <2>2
    <3>2. /\ \A j \in 1..m : Replied(tab, j) => j = i
          /\ IF tab.results[i].ok THEN On(tab, a) ELSE Off(tab.scripts, tab.overlay, n)
      BY <1>1, <3>1 DEF ActivationOK, AnsweredOnce, n, m
    <3> QED BY <2>2, <2>5, <2>6, <2>8, <3>1, <3>2
  <2>10. (tab.active => ~ tab.pending /\ On(tab, a)) /\ (~ tab.active /\ ~ tab.pending => Off(tab.scripts, tab.overlay, n))
    BY <1>1 DEF ActivationOK, n
  <2> QED BY <2>4, <2>5, <2>6, <2>7, <2>8, <2>9, <2>10 DEF ActivationOK
<1> QED BY <1>8, <1>9, <1>10, <1>11 DEF TabOK

(***************************************************************************)
(* Results and reports that arrive.                                        *)
(***************************************************************************)
\* The first result is taken, and is not one that completes an activation.
LEMMA TakenKeeps ==
  ASSUME NEW a, NEW tab, TabOK(tab, a), tab.results # << >>, ~ Replied(tab, 1), NEW x \in RdTab,
         x = [tab EXCEPT !.results = Tail(@)]
  PROVE  TabOK(x, a)
<1> DEFINE m == Len(tab.results)
<1>1. /\ tab \in RdTab /\ QueuesOK(tab) /\ ActivationOK(tab, a) /\ DocumentOK(tab)
      /\ tab.results \in Seq(RdResult)
  BY DEF TabOK, RdTab
<1>2. /\ x.scripts = tab.scripts /\ x.results = Tail(tab.results) /\ x.overlay = tab.overlay
      /\ x.document = tab.document /\ x.judged = tab.judged /\ x.availability = tab.availability
  BY <1>1 DEF RdTab
<1>3. /\ x.active = tab.active /\ x.pending = tab.pending /\ x.missed = tab.missed
      /\ x.loading = tab.loading /\ x.timer = tab.timer
  BY <1>1 DEF RdTab
<1>4. /\ m \in Nat \ {0} /\ Len(x.results) = m - 1
      /\ \A i \in 1..m - 1 : i + 1 \in 1..m /\ x.results[i] = tab.results[i + 1]
  BY <1>1, <1>2, Taken
<1> HIDE DEF m
<1>5. \A i \in 1..m - 1 : Replied(x, i) <=> Replied(tab, i + 1)
  BY <1>4 DEF Replied, m
<1>6. \A i \in 1..m : Replied(tab, i) => i - 1 \in 1..m - 1 /\ Replied(x, i - 1)
  <2> SUFFICES ASSUME NEW i \in 1..m, Replied(tab, i) PROVE i - 1 \in 1..m - 1 /\ Replied(x, i - 1)
    OBVIOUS
  <2>1. i # 1
    OBVIOUS
  <2>2. i - 1 \in 1..m - 1 /\ i - 1 + 1 = i
    BY <1>4, <2>1
  <2> QED BY <1>5, <2>2
<1>7. \A i \in 1..Len(x.scripts) : Called(x, i) <=> Called(tab, i)
  BY <1>2 DEF Called
<1>8. On(tab, a) => On(x, a)
  BY <1>2, <1>3 DEF On
<1>9. CalledOnce(x, a)
  <2> SUFFICES ASSUME NEW i \in 1..Len(x.scripts), Called(x, i)
               PROVE  /\ \A j \in 1..Len(x.results) : ~ Replied(x, j)
                      /\ \A j \in 1..Len(x.scripts) : j > i => x.scripts[j].kind = "probe"
                      /\ Off(x.scripts, x.overlay, i - 1)
                      /\ x.missed \/ x.scripts[i].appearance = a
    BY DEF CalledOnce
  <2>1. /\ \A j \in 1..m : ~ Replied(tab, j)
        /\ \A j \in 1..Len(tab.scripts) : j > i => tab.scripts[j].kind = "probe"
        /\ Off(tab.scripts, tab.overlay, i - 1)
        /\ tab.missed \/ tab.scripts[i].appearance = a
    BY <1>1, <1>2, <1>7 DEF ActivationOK, CalledOnce, m
  <2>2. \A j \in 1..Len(x.results) : ~ Replied(x, j)
    BY <1>4, <1>5, <2>1
  <2> QED BY <1>2, <1>3, <2>1, <2>2
<1>10. AnsweredOnce(x, a)
  <2> SUFFICES ASSUME NEW i \in 1..Len(x.results), Replied(x, i)
               PROVE  /\ \A j \in 1..Len(x.results) : Replied(x, j) => j = i
                      /\ IF x.results[i].ok THEN On(x, a) ELSE Off(x.scripts, x.overlay, Len(x.scripts))
    BY DEF AnsweredOnce
  <2>1. i + 1 \in 1..m /\ Replied(tab, i + 1) /\ x.results[i] = tab.results[i + 1]
    BY <1>4, <1>5
  <2>2. /\ \A j \in 1..m : Replied(tab, j) => j = i + 1
        /\ IF tab.results[i + 1].ok THEN On(tab, a) ELSE Off(tab.scripts, tab.overlay, Len(tab.scripts))
    BY <1>1, <2>1 DEF ActivationOK, AnsweredOnce, m
  <2>3. ASSUME NEW j \in 1..Len(x.results), Replied(x, j) PROVE j = i
    <3>1. j \in 1..m - 1 /\ i \in 1..m - 1
      BY <1>4
    <3>2. j + 1 \in 1..m /\ Replied(tab, j + 1)
      BY <1>4, <1>5, <2>3, <3>1
    <3>3. j + 1 = i + 1
      BY <2>2, <3>2
    <3> QED BY <3>1, <3>3
  <2> QED BY <1>2, <1>8, <2>1, <2>2, <2>3
<1>11. tab.pending <=> (\E i \in 1..Len(x.scripts) : Called(x, i)) \/ \E i \in 1..Len(x.results) : Replied(x, i)
  <2>1. tab.pending <=> (\E i \in 1..Len(tab.scripts) : Called(tab, i)) \/ \E i \in 1..m : Replied(tab, i)
    BY <1>1 DEF ActivationOK, m
  <2>2. (\E i \in 1..m : Replied(tab, i)) <=> \E i \in 1..Len(x.results) : Replied(x, i)
    BY <1>4, <1>5, <1>6
  <2> QED BY <1>2, <1>7, <2>1, <2>2
<1>12. ActivationOK(x, a)
  BY <1>1, <1>2, <1>3, <1>8, <1>9, <1>10, <1>11 DEF ActivationOK
<1>13. QueuesOK(x)
  BY <1>1, <1>2, <1>4 DEF QueuesOK, m
<1>14. DocumentOK(x)
  <2>1. ASSUME NEW i \in 1..Len(x.results), x.results[i].kind = "probe", ~ x.results[i].stale
        PROVE  ~ tab.loading /\ x.results[i].document = tab.document
    <3>1. i + 1 \in 1..m /\ x.results[i] = tab.results[i + 1]
      BY <1>4
    <3> QED BY <1>1, <2>1, <3>1 DEF DocumentOK, m
  <2> QED BY <1>1, <1>2, <1>3, <2>1 DEF DocumentOK
<1> QED BY <1>12, <1>13, <1>14 DEF TabOK

\* The answer to a probe keeps a tab in order.
LEMMA ProbedKeeps ==
  ASSUME NEW a, NEW tab, TabOK(tab, a), NEW result,
         result.kind = "probe", result.stale \in BOOLEAN, result.ok \in BOOLEAN, result.document \in Nat,
         ~ result.stale => ~ tab.loading /\ result.document = tab.document
  PROVE  TabOK(Probed(tab, result), a)
<1>1. tab \in RdTab /\ QueuesOK(tab) /\ ActivationOK(tab, a) /\ DocumentOK(tab)
  BY DEF TabOK
<1>2. CASE result.stale
  BY <1>2 DEF Probed
<1>3. CASE ~ result.stale /\ ~ result.ok /\ tab.attempts <= ProbeRetries
  <2> DEFINE x == [tab EXCEPT !.timer = TRUE]
  <2>1. x \in RdTab /\ x.scripts = tab.scripts /\ x.results = tab.results /\ x.overlay = tab.overlay
        /\ x.active = tab.active /\ x.pending = tab.pending /\ x.missed = tab.missed
        /\ x.document = tab.document /\ x.judged = tab.judged /\ x.availability = tab.availability
        /\ x.loading = tab.loading
    BY <1>1 DEF RdTab
  <2> HIDE DEF x
  <2>2. QueuesOK(x) /\ ActivationOK(x, a)
    BY <1>1, <2>1, QueuesKept
  <2>3. DocumentOK(x)
    BY <1>1, <1>3, <2>1 DEF DocumentOK
  <2>4. TabOK(x, a)
    BY <2>1, <2>2, <2>3 DEF TabOK
  <2> QED BY <1>3, <2>4 DEF Probed, x
<1>4. CASE ~ result.stale /\ ~ (~ result.ok /\ tab.attempts <= ProbeRetries)
  <2> DEFINE verdict == IF result.ok THEN "Available" ELSE "Unavailable"
             x == [tab EXCEPT !.availability = verdict, !.judged = result.document]
  <2>1. verdict \in { "Unknown", "Available", "Unavailable" }
    OBVIOUS
  <2> HIDE DEF verdict
  <2>2. x \in RdTab
    BY <1>1, <2>1 DEF RdTab
  <2>3. x.scripts = tab.scripts /\ x.results = tab.results /\ x.overlay = tab.overlay
        /\ x.active = tab.active /\ x.pending = tab.pending /\ x.missed = tab.missed
        /\ x.document = tab.document /\ x.judged = result.document /\ x.loading = tab.loading
    BY <1>1 DEF RdTab
  <2> HIDE DEF x
  <2>4. QueuesOK(x) /\ ActivationOK(x, a)
    BY <1>1, <2>2, <2>3, QueuesKept
  <2>5. DocumentOK(x)
    BY <1>1, <1>4, <2>3 DEF DocumentOK
  <2>6. TabOK(x, a)
    BY <2>2, <2>4, <2>5 DEF TabOK
  <2> QED BY <1>4, <2>6 DEF Probed, x, verdict
<1> QED BY <1>2, <1>3, <1>4

\* The answer to an activation keeps a tab in order.
LEMMA ReaderActivatedKeeps ==
  ASSUME NEW a, NEW tab, TabOK(tab, a), tab.results # << >>, Head(tab.results).kind = "activate", NEW rest,
         rest = [tab EXCEPT !.results = Tail(@)], rest \in RdTab
  PROVE  TabOK(ReaderActivated(rest, Head(tab.results)), a)
<1> DEFINE r == tab.results[1]
           m == Len(tab.results)
           x == ReaderActivated(rest, r)
<1>1. /\ tab \in RdTab /\ QueuesOK(tab) /\ ActivationOK(tab, a) /\ DocumentOK(tab)
      /\ tab.results \in Seq(RdResult)
  BY DEF TabOK, RdTab
<1>2. /\ Head(tab.results) = r /\ r \in RdResult /\ r.kind = "activate" /\ m \in Nat \ {0}
      /\ Len(Tail(tab.results)) = m - 1
      /\ \A i \in 1..m - 1 : i + 1 \in 1..m /\ Tail(tab.results)[i] = tab.results[i + 1]
  BY <1>1, Taken
<1>3. CASE r.stale
  <2>1. ~ Replied(tab, 1)
    BY <1>3 DEF Replied
  <2>2. TabOK(rest, a)
    BY <2>1, TakenKeeps
  <2> QED BY <1>2, <1>3, <2>2 DEF ReaderActivated
<1>4. CASE ~ r.stale
  <2>1. 1 \in 1..m /\ Replied(tab, 1)
    BY <1>2, <1>4 DEF Replied
  <2>2. /\ \A i \in 1..m : Replied(tab, i) => i = 1
        /\ IF r.ok THEN On(tab, a) ELSE Off(tab.scripts, tab.overlay, Len(tab.scripts))
        /\ \A i \in 1..Len(tab.scripts) : ~ Called(tab, i)
        /\ tab.pending /\ ~ tab.active /\ ~ tab.loading
    BY <1>1, <2>1 DEF ActivationOK, AnsweredOnce, CalledOnce, DocumentOK, m
  <2>3. /\ rest.scripts = tab.scripts /\ rest.results = Tail(tab.results) /\ rest.overlay = tab.overlay
        /\ rest.document = tab.document /\ rest.judged = tab.judged /\ rest.availability = tab.availability
        /\ rest.missed = tab.missed /\ ~ rest.active /\ ~ rest.loading
    BY <1>1, <2>2 DEF RdTab
  <2>4. /\ x \in RdTab /\ x.scripts = tab.scripts /\ x.results = Tail(tab.results) /\ x.overlay = tab.overlay
        /\ x.missed = rest.missed /\ ~ x.pending /\ ~ x.loading
        /\ x.document = tab.document /\ x.judged = tab.judged
    <3>1. CASE r.ok
      <4>1. x = [rest EXCEPT !.pending = FALSE, !.active = TRUE]
        BY <1>4, <3>1 DEF ReaderActivated
      <4> HIDE DEF x
      <4> QED BY <2>3, <4>1 DEF RdTab
    <3>2. CASE ~ r.ok
      <4>1. x = [rest EXCEPT !.pending = FALSE, !.availability = "Unavailable"]
        BY <1>4, <3>2 DEF ReaderActivated
      <4> HIDE DEF x
      <4> QED BY <2>3, <4>1 DEF RdTab
    <3> QED BY <3>1, <3>2
  <2>5. /\ x.active <=> r.ok
        /\ x.availability \in { tab.availability, "Unavailable" }
    <3>1. CASE r.ok
      <4>1. x = [rest EXCEPT !.pending = FALSE, !.active = TRUE]
        BY <1>4, <3>1 DEF ReaderActivated
      <4> HIDE DEF x
      <4> QED BY <2>3, <3>1, <4>1 DEF RdTab
    <3>2. CASE ~ r.ok
      <4>1. x = [rest EXCEPT !.pending = FALSE, !.availability = "Unavailable"]
        BY <1>4, <3>2 DEF ReaderActivated
      <4> HIDE DEF x
      <4> QED BY <2>3, <3>2, <4>1 DEF RdTab
    <3> QED BY <3>1, <3>2
  <2> HIDE DEF x, m, r
  <2>6. \A i \in 1..Len(x.results) : i + 1 \in 1..m /\ x.results[i] = tab.results[i + 1] /\ ~ Replied(x, i)
    <3> SUFFICES ASSUME NEW i \in 1..Len(x.results)
                 PROVE  i + 1 \in 1..m /\ x.results[i] = tab.results[i + 1] /\ ~ Replied(x, i)
      OBVIOUS
    <3>1. i + 1 \in 1..m /\ x.results[i] = tab.results[i + 1] /\ i + 1 # 1
      BY <1>2, <2>4
    <3>2. ~ Replied(tab, i + 1)
      BY <2>2, <3>1
    <3> QED BY <3>1, <3>2 DEF Replied, m
  <2>7. \A i \in 1..Len(x.scripts) : ~ Called(x, i)
    BY <2>2, <2>4 DEF Called
  <2>8. ActivationOK(x, a)
    <3>1. On(tab, a) => On(x, a)
      BY <2>3, <2>4 DEF On
    <3> QED BY <2>2, <2>4, <2>5, <2>6, <2>7, <3>1 DEF ActivationOK, CalledOnce, AnsweredOnce
  <2>9. QueuesOK(x)
    BY <1>1, <2>4, <2>6 DEF QueuesOK, m
  <2>10. DocumentOK(x)
    <3>1. ASSUME NEW i \in 1..Len(x.results), x.results[i].kind = "probe", ~ x.results[i].stale
          PROVE  x.results[i].document = tab.document
      BY <1>1, <2>6, <3>1 DEF DocumentOK, m
    <3> QED BY <1>1, <2>4, <2>5, <3>1 DEF DocumentOK
  <2>11. TabOK(x, a)
    BY <2>4, <2>8, <2>9, <2>10 DEF TabOK
  <2> QED BY <1>2, <2>11 DEF x
<1> QED BY <1>2, <1>3, <1>4 DEF RdResult

(***************************************************************************)
(* The page loads, and clicks in it are reported.                          *)
(***************************************************************************)
\* Another document keeps the type and changes nothing else.
LEMMA DocumentTyped ==
  ASSUME NEW tab \in RdTab
  PROVE  LET x == [tab EXCEPT !.document = @ + 1] IN
         /\ x \in RdTab /\ x.scripts = tab.scripts /\ x.results = tab.results /\ x.overlay = tab.overlay
         /\ x.active = tab.active /\ x.pending = tab.pending /\ x.missed = tab.missed
         /\ x.loading = tab.loading /\ x.timer = tab.timer /\ x.availability = tab.availability
<1> DEFINE n == tab.document + 1
           x == [tab EXCEPT !.document = n]
<1>1. n \in Nat
  BY DEF RdTab
<1> HIDE DEF n
<1>2. x \in RdTab
  BY <1>1 DEF RdTab
<1>3. /\ x.scripts = tab.scripts /\ x.results = tab.results /\ x.overlay = tab.overlay
      /\ x.active = tab.active /\ x.pending = tab.pending /\ x.missed = tab.missed
      /\ x.loading = tab.loading /\ x.timer = tab.timer /\ x.availability = tab.availability
  BY <1>1 DEF RdTab
<1>4. [tab EXCEPT !.document = @ + 1] = x
  BY DEF n
<1> HIDE DEF x
<1> QED BY <1>2, <1>3, <1>4

Committed(tab) == [tab EXCEPT !.document = @ + 1, !.overlay = NoOverlay, !.scripts = << >>]

\* A new document takes overlay and scripts with it.
LEMMA CommittedKeeps ==
  ASSUME NEW a, NEW tab, TabOK(tab, a), tab.loading, NEW x, x = Committed(tab)
  PROVE  TabOK(x, a)
<1> DEFINE y == [tab EXCEPT !.document = @ + 1]
<1>1. tab \in RdTab /\ QueuesOK(tab) /\ ActivationOK(tab, a) /\ DocumentOK(tab)
  BY DEF TabOK
<1>2. /\ y \in RdTab /\ y.scripts = tab.scripts /\ y.results = tab.results /\ y.overlay = tab.overlay
      /\ y.active = tab.active /\ y.pending = tab.pending /\ y.missed = tab.missed
      /\ y.loading = tab.loading /\ y.timer = tab.timer /\ y.availability = tab.availability
  BY <1>1, DocumentTyped
<1>7. x = [y EXCEPT !.overlay = NoOverlay, !.scripts = << >>]
  BY DEF y, Committed
<1> HIDE DEF y
<1>3. /\ ~ tab.active /\ ~ tab.pending /\ ~ tab.timer /\ tab.availability # "Available"
      /\ \A i \in 1..Len(tab.results) : ~ (tab.results[i].kind = "probe" /\ ~ tab.results[i].stale)
      /\ \A i \in 1..Len(tab.results) : ~ Replied(tab, i)
  BY <1>1 DEF DocumentOK, ActivationOK
<1>4. << >> \in Seq(RdScript) /\ Len(<< >>) = 0
  BY EmptySeq
<1>5. x \in RdTab
  BY <1>2, <1>4, <1>7 DEF RdTab
<1>6. /\ x.scripts = << >> /\ x.results = y.results /\ x.overlay = NoOverlay /\ x.availability = y.availability
      /\ x.active = y.active /\ x.pending = y.pending /\ x.loading = y.loading /\ x.timer = y.timer
  BY <1>2, <1>7 DEF RdTab
<1>8. ActivationOK(x, a)
  <2>1. Off(x.scripts, x.overlay, Len(x.scripts))
    BY <1>4, <1>6 DEF Off
  <2>2. \A i \in 1..Len(x.results) : ~ Replied(x, i)
    BY <1>2, <1>3, <1>6 DEF Replied
  <2>3. \A i \in 1..Len(x.scripts) : ~ Called(x, i)
    BY <1>4, <1>6 DEF Called
  <2>4. ~ x.active /\ ~ x.pending
    BY <1>2, <1>3, <1>6
  <2> QED BY <1>5, <2>1, <2>2, <2>3, <2>4, QuietKeeps
<1>9. QueuesOK(x)
  BY <1>1, <1>2, <1>4, <1>6 DEF QueuesOK
<1>10. DocumentOK(x)
  BY <1>2, <1>3, <1>4, <1>6 DEF DocumentOK
<1> QED BY <1>5, <1>8, <1>9, <1>10 DEF TabOK

\* loadStarted keeps a tab in order.
LEMMA LoadStartedKeeps ==
  ASSUME NEW a, NEW tab, TabOK(tab, a)
  PROVE  TabOK(ResetForNavigation([tab EXCEPT !.loading = TRUE]), a)
<1> DEFINE y == [tab EXCEPT !.loading = TRUE]
<1>1. tab \in RdTab /\ QueuesOK(tab) /\ ActivationOK(tab, a)
  BY DEF TabOK
<1>2. /\ y \in RdTab /\ y.scripts = tab.scripts /\ y.results = tab.results /\ y.overlay = tab.overlay
      /\ y.active = tab.active /\ y.pending = tab.pending /\ y.missed = tab.missed
  BY <1>1 DEF RdTab
<1> HIDE DEF y
<1>3. QueuesOK(y) /\ ActivationOK(y, a)
  BY <1>1, <1>2, QueuesKept
<1>4. TabOK(ResetForNavigation(y), a)
  BY <1>2, <1>3, ResetKeeps
<1> QED BY <1>4 DEF y

\* urlChanged keeps a tab in order.
LEMMA UrlChangedKeeps ==
  ASSUME NEW a, NEW tab, TabOK(tab, a), NEW y, y = [tab EXCEPT !.document = @ + 1]
  PROVE  TabOK(IF y.loading THEN y ELSE [ResetForNavigation(y) EXCEPT !.timer = TRUE], a)
<1>1. tab \in RdTab /\ QueuesOK(tab) /\ ActivationOK(tab, a) /\ DocumentOK(tab)
  BY DEF TabOK
<1>2. /\ y \in RdTab /\ y.scripts = tab.scripts /\ y.results = tab.results /\ y.overlay = tab.overlay
      /\ y.active = tab.active /\ y.pending = tab.pending /\ y.missed = tab.missed
      /\ y.loading = tab.loading /\ y.timer = tab.timer /\ y.availability = tab.availability
  BY <1>1, DocumentTyped
<1>3. QueuesOK(y) /\ ActivationOK(y, a)
  BY <1>1, <1>2, QueuesKept
<1>4. CASE y.loading
  <2>1. DocumentOK(y)
    BY <1>1, <1>2, <1>4 DEF DocumentOK
  <2> QED BY <1>2, <1>3, <1>4, <2>1 DEF TabOK
<1>5. CASE ~ y.loading
  <2> DEFINE r == ResetForNavigation(y)
             x == [r EXCEPT !.timer = TRUE]
  <2>1. TabOK(r, a) /\ r.loading = y.loading
    BY <1>2, <1>3, ResetKeeps
  <2> HIDE DEF r
  <2>2. r \in RdTab /\ QueuesOK(r) /\ ActivationOK(r, a) /\ DocumentOK(r) /\ ~ r.loading
    BY <1>5, <2>1 DEF TabOK
  <2>3. x \in RdTab /\ x.scripts = r.scripts /\ x.results = r.results /\ x.overlay = r.overlay
        /\ x.active = r.active /\ x.pending = r.pending /\ x.missed = r.missed
        /\ x.document = r.document /\ x.judged = r.judged /\ x.availability = r.availability /\ x.loading = r.loading
    BY <2>2 DEF RdTab
  <2> HIDE DEF x
  <2>4. QueuesOK(x) /\ ActivationOK(x, a)
    BY <2>2, <2>3, QueuesKept
  <2>5. DocumentOK(x)
    BY <2>2, <2>3 DEF DocumentOK
  <2>6. TabOK(x, a)
    BY <2>3, <2>4, <2>5 DEF TabOK
  <2> QED BY <1>5, <2>6 DEF x, r
<1> QED BY <1>4, <1>5

Finishing(tab) == NextProbe([tab EXCEPT !.loading = FALSE, !.timer = FALSE])

Finished(tab, ok, supported) ==
  IF ok THEN Probe([Finishing(tab) EXCEPT !.attempts = 0], supported)
  ELSE [Finishing(tab) EXCEPT !.availability = "Unavailable"]

\* loadFinished keeps a tab in order.
LEMMA LoadFinishedKeeps ==
  ASSUME NEW a, NEW tab, TabOK(tab, a), tab.loading, NEW ok \in BOOLEAN, NEW supported \in BOOLEAN
  PROVE  TabOK(Finished(tab, ok, supported), a)
<1> DEFINE y == Finishing(tab)
           p == Stale(tab.scripts, { "probe" })
           r == Stale(tab.results, { "probe" })
<1>1. /\ tab \in RdTab /\ QueuesOK(tab) /\ ActivationOK(tab, a) /\ DocumentOK(tab)
      /\ tab.scripts \in Seq(RdScript) /\ tab.results \in Seq(RdResult)
      /\ Len(tab.scripts) \in Nat /\ Len(tab.results) \in Nat
  BY LenProperties DEF TabOK, RdTab
<1>2. y = [tab EXCEPT !.loading = FALSE, !.timer = FALSE, !.scripts = p, !.results = r]
  BY <1>1 DEF NextProbe, RdTab, Finishing
<1>3. /\ p \in Seq(RdScript) /\ Len(p) = Len(tab.scripts)
      /\ \A i \in 1..Len(tab.scripts) : p[i].kind = tab.scripts[i].kind /\ p[i].appearance = tab.scripts[i].appearance
           /\ (p[i].stale <=> tab.scripts[i].stale \/ tab.scripts[i].kind = "probe")
  BY <1>1, StaleScripts
<1>4. /\ r \in Seq(RdResult) /\ Len(r) = Len(tab.results)
      /\ \A i \in 1..Len(tab.results) : r[i].kind = tab.results[i].kind /\ r[i].appearance = tab.results[i].appearance
           /\ r[i].ok = tab.results[i].ok
           /\ (r[i].stale <=> tab.results[i].stale \/ tab.results[i].kind = "probe")
  BY <1>1, StaleResults
<1> HIDE DEF p, r, y
<1>5. y \in RdTab
  BY <1>1, <1>2, <1>3, <1>4 DEF RdTab
<1>6. /\ y.scripts = p /\ y.results = r /\ y.overlay = tab.overlay /\ y.active = tab.active
      /\ y.pending = tab.pending /\ y.missed = tab.missed /\ ~ y.loading /\ y.availability = tab.availability
  BY <1>1, <1>2 DEF RdTab
<1>7. SameScripts(tab.scripts, y.scripts)
  <2>1. \A i \in 1..Len(tab.scripts) : tab.scripts[i] \in RdScript /\ p[i] \in RdScript
    BY <1>1, <1>3
  <2>2. \A i \in 1..Len(tab.scripts) : tab.scripts[i].kind = "activate" => p[i].stale = tab.scripts[i].stale
    BY <1>3, <2>1 DEF RdScript
  <2> QED BY <1>1, <1>3, <1>6, <2>2 DEF SameScripts
<1>8. SameResults(tab.results, y.results)
  <2>1. \A i \in 1..Len(tab.results) : tab.results[i] \in RdResult /\ r[i] \in RdResult
    BY <1>1, <1>4
  <2>2. \A i \in 1..Len(tab.results) : tab.results[i].kind = "activate" => r[i].stale = tab.results[i].stale
    BY <1>4, <2>1 DEF RdResult
  <2> QED BY <1>1, <1>4, <1>6, <2>2 DEF SameResults
<1>9. ActivationOK(y, a)
  BY <1>1, <1>5, <1>6, <1>7, <1>8, SameKeeps
<1>10. QueuesOK(y)
  BY <1>1, <1>3, <1>4, <1>6 DEF QueuesOK
<1>11. /\ \A i \in 1..Len(y.results) : y.results[i].kind = "probe" => y.results[i].stale
       /\ y.availability # "Available"
  BY <1>1, <1>4, <1>6 DEF DocumentOK
<1>12. CASE ok
  <2> DEFINE x == [y EXCEPT !.attempts = 0]
  <2>1. x \in RdTab
    <3>1. PICK n \in Nat : n = 0
      OBVIOUS
    <3>2. [y EXCEPT !.attempts = n] \in RdTab
      BY <1>5 DEF RdTab
    <3> QED BY <3>1, <3>2, Zenon
  <2>2. /\ x.scripts = y.scripts /\ x.results = y.results /\ x.overlay = y.overlay
        /\ x.active = y.active /\ x.pending = y.pending /\ x.missed = y.missed
        /\ x.loading = y.loading /\ x.availability = y.availability
    BY <1>5 DEF RdTab
  <2> HIDE DEF x
  <2>3. QueuesOK(x) /\ ActivationOK(x, a)
    BY <1>5, <1>9, <1>10, <2>1, <2>2, QueuesKept
  <2>4. ~ x.loading /\ DocumentOK(x)
    BY <1>6, <1>11, <2>2 DEF DocumentOK
  <2>5. TabOK(x, a)
    BY <2>1, <2>3, <2>4 DEF TabOK
  <2>6. TabOK(Probe(x, supported), a)
    BY <2>4, <2>5, ProbeKeeps
  <2> QED BY <1>12, <2>6 DEF x, y, Finished
<1>13. CASE ~ ok
  <2> DEFINE x == [y EXCEPT !.availability = "Unavailable"]
  <2>1. /\ x \in RdTab /\ x.scripts = y.scripts /\ x.results = y.results /\ x.overlay = y.overlay
        /\ x.active = y.active /\ x.pending = y.pending /\ x.missed = y.missed
        /\ x.loading = y.loading /\ x.availability = "Unavailable"
    BY <1>5 DEF RdTab
  <2> HIDE DEF x
  <2>2. QueuesOK(x) /\ ActivationOK(x, a)
    BY <1>5, <1>9, <1>10, <2>1, QueuesKept
  <2>3. DocumentOK(x)
    BY <1>6, <1>11, <2>1 DEF DocumentOK
  <2>4. TabOK(x, a)
    BY <2>1, <2>2, <2>3 DEF TabOK
  <2> QED BY <1>13, <2>4 DEF x, y, Finished
<1> QED BY <1>12, <1>13

\* A click in the overlay keeps a tab in order.
LEMMA ReportKeeps ==
  ASSUME NEW a, NEW tab, TabOK(tab, a), NEW result \in RdResult, result.kind \in { "close", "change" },
         result.kind = "change" => result.appearance \in Appearances
  PROVE  TabOK([tab EXCEPT !.results = Append(@, result)], a)
<1> DEFINE q == Append(tab.results, result)
           m == Len(tab.results)
           x == [tab EXCEPT !.results = q]
<1>1. /\ tab \in RdTab /\ QueuesOK(tab) /\ ActivationOK(tab, a) /\ DocumentOK(tab)
      /\ tab.scripts \in Seq(RdScript) /\ Len(tab.scripts) \in Nat /\ tab.results \in Seq(RdResult) /\ m \in Nat
  BY LenProperties DEF TabOK, RdTab
<1>2. /\ q \in Seq(RdResult) /\ Len(q) = m + 1 /\ q[m + 1] = result /\ \A i \in 1..m : q[i] = tab.results[i]
  BY <1>1, Appended
<1> HIDE DEF q, m
<1>3. /\ x \in RdTab /\ x.scripts = tab.scripts /\ x.results = q /\ x.overlay = tab.overlay
      /\ x.active = tab.active /\ x.pending = tab.pending /\ x.missed = tab.missed
      /\ x.loading = tab.loading /\ x.timer = tab.timer /\ x.availability = tab.availability
      /\ x.document = tab.document /\ x.judged = tab.judged
  BY <1>1, <1>2 DEF RdTab
<1>4. [tab EXCEPT !.results = Append(@, result)] = x
  BY DEF q
<1> HIDE DEF x
<1>5. \A i \in 1..Len(q) : i \in 1..m \/ i = m + 1
  BY <1>1, <1>2
<1>6. SameScripts(tab.scripts, x.scripts)
  BY <1>1, <1>3 DEF SameScripts
<1>7. SameResults(tab.results, x.results)
  BY <1>1, <1>2, <1>3, <1>5 DEF SameResults, m
<1>8. ActivationOK(x, a)
  BY <1>1, <1>3, <1>6, <1>7, SameKeeps
<1>9. QueuesOK(x)
  BY <1>1, <1>2, <1>3, <1>5 DEF QueuesOK, m
<1>10. DocumentOK(x)
  BY <1>1, <1>2, <1>3, <1>5 DEF DocumentOK, m
<1>11. TabOK(x, a)
  BY <1>3, <1>8, <1>9, <1>10 DEF TabOK
<1> QED BY <1>4, <1>11

(***************************************************************************)
(* Every step keeps every tab in order.                                    *)
(***************************************************************************)
\* A step of one tab that keeps it in order keeps all of them in order.
LEMMA TabStepKeeps ==
  ASSUME RdInv, NEW t \in ReaderTabs, NEW x, TabOK(x, rd.appearance),
         TabStep(t, x) \/ ReaderEvent(t, x)
  PROVE  RdInv'
<1>1. /\ rd \in RdType /\ rd.events \in Nat /\ rd.events + 1 \in Nat /\ x \in RdTab
      /\ \A u \in ReaderTabs : TabOK(rd.tab[u], rd.appearance)
  BY DEF RdInv, RdType, TabOK
<1> DEFINE tabs == [rd.tab EXCEPT ![t] = x]
           n == rd.events + 1
<1>2. tabs \in [ReaderTabs -> RdTab] /\ \A u \in ReaderTabs : tabs[u] = IF u = t THEN x ELSE rd.tab[u]
  BY <1>1 DEF RdType
<1>3. rd' = [rd EXCEPT !.tab = tabs] \/ rd' = [rd EXCEPT !.tab = tabs, !.events = n]
  BY DEF TabStep, ReaderEvent
<1> HIDE DEF tabs, n
<1>4. rd' \in RdType /\ rd'.tab = tabs /\ rd'.appearance = rd.appearance
  <2>1. n \in Nat
    BY <1>1 DEF n
  <2>2. [rd EXCEPT !.tab = tabs] \in RdType /\ [rd EXCEPT !.tab = tabs].events \in Nat
    BY <1>1, <1>2 DEF RdType
  <2>3. CASE rd' = [rd EXCEPT !.tab = tabs]
    BY <1>1, <1>2, <2>3 DEF RdType
  <2>4. CASE rd' = [rd EXCEPT !.tab = tabs, !.events = n]
    BY <1>1, <1>2, <2>1, <2>4 DEF RdType
  <2> QED BY <1>3, <2>3, <2>4
<1>5. \A u \in ReaderTabs : TabOK(tabs[u], rd.appearance)
  BY <1>1, <1>2
<1> QED BY <1>4, <1>5 DEF RdInv

\* So does a script that runs,
LEMMA RunScriptKeeps ==
  ASSUME RdInv, NEW t \in ReaderTabs, NEW ok \in BOOLEAN, RunScript(t, ok)
  PROVE  RdInv'
<1> DEFINE a == rd.appearance
<1>1. PICK tab : tab = rd.tab[t]
  OBVIOUS
<1> DEFINE script == Head(tab.scripts)
           result == [kind |-> script.kind, ok |-> ok, stale |-> script.stale, document |-> tab.document,
                      appearance |-> NoOverlay]
           x == Ran(tab, ok)
           over == After(script, tab.overlay, ok)
           answers == IF script.kind \in ResultKinds THEN Append(tab.results, result) ELSE tab.results
<1>2. tab.scripts # << >> /\ TabStep(t, x)
  BY <1>1 DEF RunScript
<1>3. TabOK(tab, a) /\ tab \in RdTab
  BY <1>1 DEF RdInv, TabOK
<1>4. /\ tab.scripts \in Seq(RdScript) /\ script \in RdScript /\ tab.results \in Seq(RdResult)
      /\ Tail(tab.scripts) \in Seq(RdScript) /\ tab.document \in Nat
  BY <1>2, <1>3, Taken DEF RdTab
<1>5. answers \in Seq(RdResult)
  <2>1. CASE script.kind \in ResultKinds
    <3>1. result \in RdResult
      BY <1>4, <2>1 DEF RdResult, RdScript, ResultKinds
    <3> HIDE DEF result
    <3> QED BY <1>4, <2>1, <3>1, Appended
  <2>2. CASE script.kind \notin ResultKinds
    BY <1>4, <2>2
  <2> QED BY <2>1, <2>2
<1>6. over \in Appearances \union { NoOverlay }
  BY <1>3, <1>4 DEF After, RdScript, RdTab
<1>7. x = [tab EXCEPT !.scripts = Tail(tab.scripts), !.overlay = over, !.results = answers]
  BY <1>3 DEF Ran, RdTab
<1>8. /\ x \in RdTab /\ x.scripts = Tail(tab.scripts) /\ x.overlay = over /\ x.results = answers
      /\ x.availability = tab.availability /\ x.document = tab.document /\ x.judged = tab.judged
      /\ (x.active <=> tab.active) /\ (x.pending <=> tab.pending) /\ (x.missed <=> tab.missed)
      /\ (x.loading <=> tab.loading) /\ (x.timer <=> tab.timer)
  <2> HIDE DEF x, over, answers
  <2>1. x \in RdTab
    BY <1>3, <1>4, <1>5, <1>6, <1>7 DEF RdTab
  <2> QED BY <1>3, <1>7, <2>1 DEF RdTab
<1> HIDE DEF x
<1>9. TabOK(x, a)
  <2> HIDE DEF a, script
  <2> QED BY <1>2, <1>3, <1>8, PageKeeps DEF script
<1> QED BY <1>2, <1>9, TabStepKeeps

\* a result or a report that arrives,
LEMMA ResultArrivesKeeps ==
  ASSUME RdInv, NEW t \in ReaderTabs, ResultArrives(t)
  PROVE  RdInv'
<1> DEFINE a == rd.appearance
<1>0. PICK was, tab, result :
        was = rd.tab[t] /\ tab = [was EXCEPT !.results = Tail(@)] /\ result = Head(was.results)
  OBVIOUS
<1>1. /\ was.results # << >>
      /\ \/ result.kind = "probe" /\ TabStep(t, Probed(tab, result))
         \/ result.kind = "activate" /\ TabStep(t, ReaderActivated(tab, result))
         \/ result.kind \notin ResultKinds /\ ~ tab.active /\ TabStep(t, tab)
         \/ result.kind = "close" /\ tab.active /\ TabStep(t, Deactivated(tab))
         \/ result.kind = "change" /\ tab.active
              /\ AppearanceChanged([rd.tab EXCEPT ![t] = tab], result.appearance)
  BY <1>0 DEF ResultArrives
<1>2. /\ TabOK(was, a) /\ was \in RdTab /\ rd \in RdType /\ rd.tab \in [ReaderTabs -> RdTab] /\ a \in Appearances
      /\ QueuesOK(was) /\ DocumentOK(was)
  BY <1>0 DEF RdInv, TabOK, RdType
<1>3. /\ was.results \in Seq(RdResult) /\ result = was.results[1] /\ result \in RdResult
      /\ Tail(was.results) \in Seq(RdResult) /\ 1 \in 1..Len(was.results)
  BY <1>0, <1>1, <1>2, Taken DEF RdTab
<1>4. /\ tab \in RdTab /\ tab.document = was.document /\ (tab.loading <=> was.loading) /\ (tab.active <=> was.active)
  BY <1>0, <1>2, <1>3 DEF RdTab
<1> HIDE DEF a
<1>5. result.kind # "activate" => TabOK(tab, a)
  <2>1. result.kind # "activate" => ~ Replied(was, 1)
    BY <1>3 DEF Replied
  <2> QED BY <1>0, <1>1, <1>2, <1>4, <2>1, TakenKeeps
<1>6. ASSUME result.kind = "probe", TabStep(t, Probed(tab, result)) PROVE RdInv'
  <2>1. result.stale \in BOOLEAN /\ result.ok \in BOOLEAN /\ result.document \in Nat
    BY <1>3 DEF RdResult
  <2>2. ~ result.stale => ~ tab.loading /\ result.document = tab.document
    BY <1>2, <1>3, <1>4, <1>6 DEF DocumentOK
  <2>3. TabOK(Probed(tab, result), a)
    BY <1>5, <1>6, <2>1, <2>2, ProbedKeeps
  <2> QED BY <1>6, <2>3, TabStepKeeps DEF a
<1>7. ASSUME result.kind = "activate", TabStep(t, ReaderActivated(tab, result)) PROVE RdInv'
  <2>1. TabOK(ReaderActivated(tab, result), a)
    BY <1>0, <1>1, <1>2, <1>4, <1>7, ReaderActivatedKeeps
  <2> QED BY <1>7, <2>1, TabStepKeeps DEF a
<1>8. ASSUME result.kind \notin ResultKinds, TabStep(t, tab) PROVE RdInv'
  BY <1>5, <1>8, TabStepKeeps DEF ResultKinds, a
<1>9. ASSUME result.kind = "close", TabStep(t, Deactivated(tab)) PROVE RdInv'
  <2>1. TabOK(Deactivated(tab), a)
    BY <1>5, <1>9, DeactivatedKeeps
  <2> QED BY <1>9, <2>1, TabStepKeeps DEF a
<1>10. ASSUME result.kind = "change", AppearanceChanged([rd.tab EXCEPT ![t] = tab], result.appearance)
       PROVE  RdInv'
  <2> DEFINE b == result.appearance
             tabs == [rd.tab EXCEPT ![t] = tab]
             changed == [u \in ReaderTabs |-> ApplyAppearance(tabs[u], b)]
  <2>1. b \in Appearances
    BY <1>2, <1>3, <1>10 DEF QueuesOK
  <2>2. rd' = [rd EXCEPT !.appearance = b, !.tab = changed]
    BY <1>10 DEF AppearanceChanged
  <2>3. \A u \in ReaderTabs : TabOK(tabs[u], a)
    BY <1>2, <1>5, <1>10 DEF RdInv, a
  <2>4. \A u \in ReaderTabs : TabOK(changed[u], b)
    <3> HIDE DEF tabs, b
    <3> QED BY <2>1, <2>3, AppearanceKeeps
  <2>5. changed \in [ReaderTabs -> RdTab]
    <3> HIDE DEF tabs, b
    <3> QED BY <2>4 DEF TabOK
  <2> HIDE DEF changed, b
  <2>6. rd' \in RdType /\ rd'.tab = changed /\ rd'.appearance = b
    BY <1>2, <2>1, <2>2, <2>5 DEF RdType
  <2> QED BY <2>4, <2>6 DEF RdInv
<1> QED BY <1>1, <1>6, <1>7, <1>8, <1>9, <1>10

\* and every other step.
LEMMA RdStepKeeps == RdInv /\ RdNext => RdInv'
<1> SUFFICES ASSUME RdInv, RdNext PROVE RdInv'
  OBVIOUS
<1> DEFINE a == rd.appearance
<1>1. PICK t \in ReaderTabs :
        \/ LoadStarted(t) \/ DocumentCommitted(t) \/ UrlChanged(t) \/ Activate(t) \/ Deactivate(t) \/ ResultArrives(t)
        \/ \E ok, supported \in BOOLEAN : LoadFinished(t, ok, supported)
        \/ \E supported \in BOOLEAN : ProbeTimer(t, supported)
        \/ \E ok \in BOOLEAN : RunScript(t, ok)
        \/ Report(t, "close", NoOverlay) \/ \E appearance \in Appearances : Report(t, "change", appearance)
  BY DEF RdNext
<1>2. TabOK(rd.tab[t], a) /\ DocumentOK(rd.tab[t]) /\ a \in Appearances
  BY DEF RdInv, RdType, TabOK
<1> HIDE DEF a
<1>3. CASE LoadStarted(t)
  <2> DEFINE x == ResetForNavigation([rd.tab[t] EXCEPT !.loading = TRUE])
  <2>1. ReaderEvent(t, x)
    BY <1>3 DEF LoadStarted
  <2>2. TabOK(x, a)
    BY <1>2, LoadStartedKeeps
  <2> HIDE DEF x
  <2> QED BY <2>1, <2>2, TabStepKeeps DEF a
<1>4. CASE DocumentCommitted(t)
  <2>1. ReaderEvent(t, Committed(rd.tab[t])) /\ rd.tab[t].loading
    BY <1>4 DEF DocumentCommitted, Committed
  <2>2. TabOK(Committed(rd.tab[t]), a)
    BY <1>2, <2>1, CommittedKeeps
  <2> QED BY <2>1, <2>2, TabStepKeeps DEF a
<1>5. CASE UrlChanged(t)
  <2> DEFINE y == [rd.tab[t] EXCEPT !.document = @ + 1]
             x == IF y.loading THEN y ELSE [ResetForNavigation(y) EXCEPT !.timer = TRUE]
  <2>1. ReaderEvent(t, x)
    BY <1>5 DEF UrlChanged
  <2>2. TabOK(x, a)
    <3>1. y = [rd.tab[t] EXCEPT !.document = @ + 1]
      OBVIOUS
    <3> HIDE DEF y
    <3> QED BY <1>2, <3>1, UrlChangedKeeps
  <2> HIDE DEF x
  <2> QED BY <2>1, <2>2, TabStepKeeps DEF a
<1>6. CASE Activate(t)
  <2> DEFINE tab == rd.tab[t]
  <2>1. ReaderEvent(t, Activating(tab, a)) /\ ~ tab.active /\ ~ tab.pending /\ tab.availability = "Available"
    BY <1>6 DEF Activate, Activating, a
  <2>2. TabOK(Activating(tab, a), a)
    BY <1>2, <2>1, ActivateKeeps
  <2> QED BY <2>1, <2>2, TabStepKeeps DEF a
<1>7. CASE Deactivate(t)
  <2>1. TabOK(Deactivated(rd.tab[t]), a)
    BY <1>2, DeactivatedKeeps
  <2> QED BY <1>7, <2>1, TabStepKeeps DEF Deactivate, a
<1>8. CASE ResultArrives(t)
  BY <1>8, ResultArrivesKeeps
<1>9. ASSUME NEW ok \in BOOLEAN, NEW supported \in BOOLEAN, LoadFinished(t, ok, supported) PROVE RdInv'
  <2>1. TabStep(t, Finished(rd.tab[t], ok, supported)) /\ rd.tab[t].loading
    BY <1>9 DEF LoadFinished, Finished, Finishing
  <2>2. TabOK(Finished(rd.tab[t], ok, supported), a)
    BY <1>2, <2>1, LoadFinishedKeeps
  <2> QED BY <2>1, <2>2, TabStepKeeps DEF a
<1>10. ASSUME NEW supported \in BOOLEAN, ProbeTimer(t, supported) PROVE RdInv'
  <2>1. ~ rd.tab[t].loading
    BY <1>2, <1>10 DEF ProbeTimer, DocumentOK
  <2>2. TabOK(Probe(rd.tab[t], supported), a)
    BY <1>2, <2>1, ProbeKeeps
  <2> QED BY <1>10, <2>2, TabStepKeeps DEF ProbeTimer, a
<1>11. ASSUME NEW ok \in BOOLEAN, RunScript(t, ok) PROVE RdInv'
  BY <1>11, RunScriptKeeps
<1>12. ASSUME NEW kind \in { "close", "change" }, NEW b \in Appearances \union { NoOverlay },
              kind = "change" => b \in Appearances, Report(t, kind, b)
       PROVE  RdInv'
  <2> DEFINE result == [kind |-> kind, ok |-> TRUE, stale |-> FALSE, document |-> 0, appearance |-> b]
  <2>1. result \in RdResult /\ result.kind = kind /\ result.appearance = b
    BY DEF RdResult
  <2>2. ReaderEvent(t, [rd.tab[t] EXCEPT !.results = Append(@, result)])
    BY <1>12 DEF Report
  <2> HIDE DEF result
  <2>3. TabOK([rd.tab[t] EXCEPT !.results = Append(@, result)], a)
    BY <1>2, <1>12, <2>1, ReportKeeps
  <2> QED BY <2>2, <2>3, TabStepKeeps DEF a
<1>13. CASE Report(t, "close", NoOverlay)
  BY <1>12, <1>13
<1>14. ASSUME NEW b \in Appearances, Report(t, "change", b) PROVE RdInv'
  BY <1>12, <1>14
<1> QED BY <1>1, <1>3, <1>4, <1>5, <1>6, <1>7, <1>8, <1>9, <1>10, <1>11, <1>13, <1>14

\* A state put together from typed parts is typed.
LEMMA RdTyped ==
  ASSUME NEW a \in Appearances, NEW n \in Nat, NEW tabs \in [ReaderTabs -> RdTab],
         rd = [appearance |-> a, events |-> n, tab |-> tabs]
  PROVE  rd \in RdType
BY DEF RdType

\* All tabs start in order.
LEMMA RdInitEstablishes == RdInit => RdInv
<1> SUFFICES ASSUME NEW a \in Appearances,
                    rd = [appearance |-> a, events |-> 0,
                          tab |-> [t \in ReaderTabs |->
                            [availability |-> "Unknown", active |-> FALSE, pending |-> FALSE, attempts |-> 0,
                             timer |-> FALSE, loading |-> TRUE, overlay |-> NoOverlay, scripts |-> << >>,
                             results |-> << >>, document |-> 0, judged |-> 0, missed |-> FALSE]]]
             PROVE  RdInv
  BY DEF RdInit
<1> DEFINE first == [availability |-> "Unknown", active |-> FALSE, pending |-> FALSE, attempts |-> 0,
                     timer |-> FALSE, loading |-> TRUE, overlay |-> NoOverlay, scripts |-> << >>,
                     results |-> << >>, document |-> 0, judged |-> 0, missed |-> FALSE]
<1>1. << >> \in Seq(RdScript) /\ << >> \in Seq(RdResult) /\ Len(<< >>) = 0
  BY EmptySeq
<1>2. first \in RdTab
  BY <1>1 DEF RdTab
<1>3. /\ first.scripts = << >> /\ first.results = << >> /\ first.overlay = NoOverlay
      /\ ~ first.active /\ ~ first.pending /\ ~ first.timer /\ first.availability = "Unknown"
  OBVIOUS
<1>4. rd.appearance = a /\ rd.events = 0 /\ rd.tab = [t \in ReaderTabs |-> first]
      /\ rd = [appearance |-> a, events |-> 0, tab |-> [t \in ReaderTabs |-> first]]
  OBVIOUS
<1> HIDE DEF first
<1>5. TabOK(first, a)
  <2>1. Off(first.scripts, first.overlay, Len(first.scripts))
    BY <1>1, <1>3 DEF Off
  <2>2. ActivationOK(first, a)
    BY <1>1, <1>2, <1>3, <2>1, QuietKeeps
  <2> QED BY <1>1, <1>2, <1>3, <2>2 DEF TabOK, QueuesOK, DocumentOK
<1>6. rd \in RdType
  <2> DEFINE tabs == [t \in ReaderTabs |-> first]
  <2>1. tabs \in [ReaderTabs -> RdTab] /\ 0 \in Nat /\ rd = [appearance |-> a, events |-> 0, tab |-> tabs]
    BY <1>2, <1>4
  <2> HIDE DEF tabs
  <2> QED BY <2>1, RdTyped, Zenon
<1> QED BY <1>4, <1>5, <1>6 DEF RdInv

(***************************************************************************)
(* The controller and the page agree on reader mode, for any number of     *)
(* tabs, appearances, retries and events: whatever is clicked, loaded or   *)
(* changed while scripts and results are under way, a tab is in reader     *)
(* mode exactly if its page has the overlay once they have arrived.        *)
(***************************************************************************)
THEOREM ReaderModesAgree == RdSpec => []ReaderAgrees
<1>1. RdInv /\ UNCHANGED rdVars => RdInv'
  BY DEF RdInv, rdVars
<1>2. RdInv => ReaderAgrees
  <2> SUFFICES ASSUME RdInv, NEW t \in ReaderTabs, NEW tab, tab = rd.tab[t]
               PROVE  /\ tab.scripts = << >> /\ tab.results = << >> =>
                           /\ tab.active <=> tab.overlay # NoOverlay
                           /\ tab.active /\ ~ tab.missed => tab.overlay = rd.appearance
                           /\ ~ tab.pending
                      /\ tab.availability = "Available" => ~ tab.loading /\ tab.judged = tab.document
    BY DEF ReaderAgrees
  <2>1. tab \in RdTab /\ ActivationOK(tab, rd.appearance) /\ DocumentOK(tab)
    BY DEF RdInv, TabOK
  <2>2. tab.availability = "Available" => ~ tab.loading /\ tab.judged = tab.document
    BY <2>1 DEF DocumentOK
  <2>3. ASSUME tab.scripts = << >>, tab.results = << >>
        PROVE  /\ tab.active <=> tab.overlay # NoOverlay
               /\ tab.active /\ ~ tab.missed => tab.overlay = rd.appearance
               /\ ~ tab.pending
    <3>1. Len(tab.scripts) = 0 /\ Len(tab.results) = 0
      BY <2>3
    <3>2. ~ tab.pending
      BY <2>1, <3>1 DEF ActivationOK
    <3>3. tab.active => On(tab, rd.appearance)
      BY <2>1 DEF ActivationOK
    <3>4. ~ tab.active => tab.overlay = NoOverlay
      BY <2>1, <3>1, <3>2 DEF ActivationOK, Off
    <3> QED BY <3>1, <3>2, <3>3, <3>4 DEF On, Styled
  <2> QED BY <2>2, <2>3
<1> QED BY <1>1, <1>2, RdInitEstablishes, RdStepKeeps, PTL DEF RdSpec

----------------------------------------------------------------------------
(***************************************************************************)
(* Web apps.  Registry, Offers and the windows are the parts of            *)
(* WebAppsAgree; Detected: an answer that is still expected is one about   *)
(* the load that the tab shows.                                            *)
(***************************************************************************)
WaFields ==
  {"file", "found", "available", "apps", "open", "current", "action", "load", "finished", "detecting", "probes",
   "state", "requests", "requested", "dialogs", "shortcuts", "windows", "ahead"}

WaShape(S) ==
  /\ DOMAIN S = WaFields
  /\ S.load \in [Views -> Nat] /\ DOMAIN S.detecting = Views /\ DOMAIN S.state = Views /\ DOMAIN S.finished = Views
  /\ S.open \subseteq Views

Registry(S) == IF S.available THEN S.ahead \/ S.apps = S.file ELSE S.file = S.found /\ S.apps = << >>

DetectedIn(S, v) ==
  /\ S.detecting[v] = 0 \/ S.detecting[v] = S.load[v]
  /\ S.state[v].manifest # NoManifest => S.state[v].load = S.load[v]
  /\ S.finished[v] \/ S.load[v] # 0

Detected(S) == (\A v \in Views : DetectedIn(S, v)) /\ \A p \in S.probes : p.view \in Views /\ p.load # 0

Offers(S) == IF S.action = "reading" THEN S.requests # {} ELSE S.action = Offered(S)

WindowsOfApps(S) == S.windows \subseteq Ids(S.apps)

Kept(S) == WaShape(S) /\ Registry(S) /\ Detected(S) /\ WindowsOfApps(S)

WaInv(S) == Kept(S) /\ Offers(S)

\* What the window offers is looked up anew.
LEMMA OfferedAnew ==
  ASSUME NEW S, Kept(S)
  PROVE  /\ WaInv(CurrentViewChanged(S))
         /\ \A v : WaInv(S) => WaInv(IfCurrent(S, v))
<1>1. PICK C : C = [S EXCEPT !.action = Offered(S)]
  OBVIOUS
<1>2. DOMAIN C = DOMAIN S /\ WaShape(C) /\ C.action = Offered(S)
  BY <1>1 DEF Kept, WaShape, WaFields
<1>3. /\ C.file = S.file /\ C.found = S.found /\ C.apps = S.apps /\ C.open = S.open /\ C.current = S.current
      /\ C.load = S.load /\ C.finished = S.finished /\ C.detecting = S.detecting /\ C.probes = S.probes
      /\ C.state = S.state /\ C.requests = S.requests /\ C.windows = S.windows
  BY <1>1 DEF Kept, WaShape, WaFields
<1>4. (C.available <=> S.available) /\ (C.ahead <=> S.ahead)
  BY <1>1, Zenon DEF Kept, WaShape, WaFields
<1>5. Registry(C)
  BY <1>3, <1>4 DEF Kept, Registry
<1>6. Detected(C) /\ WindowsOfApps(C)
  BY <1>3 DEF Kept, Detected, DetectedIn, WindowsOfApps
<1>7. Offered(C) = Offered(S)
  BY <1>3, <1>4 DEF Offered, AppForManifest
<1>8. Offered(S) # "reading"
  BY DEF Offered
<1>9. Offers(C)
  BY <1>2, <1>7, <1>8 DEF Offers
<1> QED BY <1>1, <1>2, <1>5, <1>6, <1>9 DEF WaInv, Kept, CurrentViewChanged, IfCurrent


\* What the tab v offered is forgotten.
LEMMA ClearKeeps ==
  ASSUME NEW S, NEW v \in Views, WaShape(S), Registry(S), WindowsOfApps(S), Offers(S),
         \A w \in Views \ {v} : DetectedIn(S, w), S.finished[v] \/ S.load[v] # 0,
         \A p \in S.probes : p.view \in Views /\ p.load # 0
  PROVE  WaInv(ClearManifest(S, v))
<1>1. PICK detecting, state : detecting = [S.detecting EXCEPT ![v] = 0] /\ state = [S.state EXCEPT ![v] = NoState]
  OBVIOUS
<1>2. /\ DOMAIN detecting = Views /\ DOMAIN state = Views /\ detecting[v] = 0 /\ state[v] = NoState
      /\ \A w \in Views \ {v} : detecting[w] = S.detecting[w] /\ state[w] = S.state[w]
  BY <1>1 DEF WaShape
<1>3. PICK C : C = [S EXCEPT !.detecting = detecting, !.state = state]
  OBVIOUS
<1>4. ClearManifest(S, v) = IfCurrent(C, v)
  <2>1. [S EXCEPT !.detecting[v] = 0, !.state[v] = NoState] = C
    BY <1>1, <1>3
  <2> QED BY <2>1 DEF ClearManifest
<1>5. WaShape(C)
  BY <1>2, <1>3 DEF WaShape, WaFields
<1>6. /\ C.file = S.file /\ C.found = S.found /\ C.apps = S.apps /\ C.open = S.open /\ C.current = S.current
      /\ C.load = S.load /\ C.finished = S.finished /\ C.detecting = detecting /\ C.probes = S.probes
      /\ C.state = state /\ C.requests = S.requests /\ C.windows = S.windows /\ C.action = S.action
  BY <1>3 DEF WaShape, WaFields
<1>7. (C.available <=> S.available) /\ (C.ahead <=> S.ahead)
  BY <1>3, Zenon DEF WaShape, WaFields
<1>8. Registry(C) /\ WindowsOfApps(C)
  BY <1>6, <1>7 DEF Registry, WindowsOfApps
<1>9. Detected(C)
  BY <1>2, <1>6 DEF Detected, DetectedIn, NoState
<1>10. Kept(C)
  BY <1>5, <1>8, <1>9 DEF Kept
<1>11. CASE S.current = v
  BY <1>4, <1>6, <1>10, <1>11, OfferedAnew DEF IfCurrent
<1>12. CASE S.current # v
  <2>1. S.current \in S.open => S.current \in Views /\ state[S.current] = S.state[S.current]
    BY <1>2, <1>12 DEF WaShape
  <2>2. Offered(C) = Offered(S)
    BY <1>6, <1>7, <2>1 DEF Offered, AppForManifest
  <2>3. Offers(C)
    BY <1>6, <2>2 DEF Offers
  <2> QED BY <1>4, <1>6, <1>10, <1>12, <2>3 DEF IfCurrent, WaInv
<1> QED BY <1>11, <1>12

LEMMA PageLoadSteps ==
  ASSUME WaInv(wa), PageLoadStarted \/ PageLoadFinished
  PROVE  WaInv(wa')
<1>1. WaShape(wa) /\ Registry(wa) /\ Detected(wa) /\ WindowsOfApps(wa) /\ Offers(wa)
  BY DEF WaInv, Kept
<1>2. CASE PageLoadStarted
  <2>1. PICK v \in wa.open : wa' = ClearManifest([wa EXCEPT !.load[v] = @ + 1, !.finished[v] = FALSE], v)
    BY <1>2, Zenon DEF PageLoadStarted, WaIs
  <2>2. v \in Views
    BY <1>1 DEF WaShape
  <2>3. PICK load : load = [wa.load EXCEPT ![v] = @ + 1]
    OBVIOUS
  <2>4. PICK finished : finished = [wa.finished EXCEPT ![v] = FALSE]
    OBVIOUS
  <2>5. PICK S : S = [wa EXCEPT !.load = load, !.finished = finished]
    OBVIOUS
  <2>6. [wa EXCEPT !.load[v] = @ + 1, !.finished[v] = FALSE] = S
    BY <2>3, <2>4, <2>5
  <2>7. load \in [Views -> Nat] /\ load[v] # 0 /\ \A w \in Views \ {v} : load[w] = wa.load[w]
    BY <1>1, <2>2, <2>3 DEF WaShape
  <2>8. DOMAIN finished = Views
    BY <1>1, <2>4 DEF WaShape
  <2>9. \A w \in Views \ {v} : finished[w] <=> wa.finished[w]
    BY <1>1, <2>4, Zenon DEF WaShape
  <2>10. WaShape(S)
    BY <1>1, <2>5, <2>7, <2>8 DEF WaShape, WaFields
  <2>11. /\ S.file = wa.file /\ S.found = wa.found /\ S.apps = wa.apps /\ S.open = wa.open /\ S.current = wa.current
         /\ S.load = load /\ S.finished = finished /\ S.detecting = wa.detecting /\ S.probes = wa.probes
         /\ S.state = wa.state /\ S.requests = wa.requests /\ S.windows = wa.windows /\ S.action = wa.action
    BY <1>1, <2>5 DEF WaShape, WaFields
  <2>12. (S.available <=> wa.available) /\ (S.ahead <=> wa.ahead)
    BY <1>1, <2>5, Zenon DEF WaShape, WaFields
  <2>13. Registry(S) /\ WindowsOfApps(S)
    BY <1>1, <2>11, <2>12 DEF Registry, WindowsOfApps
  <2>14. Offers(S)
    BY <1>1, <2>11, <2>12 DEF Offers, Offered, AppForManifest
  <2>15. \A w \in Views \ {v} : DetectedIn(S, w)
    BY <1>1, <2>7, <2>9, <2>11 DEF Detected, DetectedIn
  <2>16. \A p \in S.probes : p.view \in Views /\ p.load # 0
    BY <1>1, <2>11 DEF Detected
  <2> QED BY <2>1, <2>2, <2>6, <2>7, <2>10, <2>11, <2>13, <2>14, <2>15, <2>16, ClearKeeps
<1>3. CASE PageLoadFinished
  <2>1. PICK v \in wa.open :
          LET S == [wa EXCEPT !.finished[v] = TRUE]
          IN  /\ ~wa.finished[v]
              /\ \/ wa' = S
                 \/ wa' = ClearManifest(S, v)
                 \/ wa' = [S EXCEPT !.detecting[v] = S.load[v], !.probes = @ \cup {[view |-> v, load |-> S.load[v]]}]
    BY <1>3, Zenon DEF PageLoadFinished, WaIs
  <2>2. v \in Views
    BY <1>1 DEF WaShape
  <2>3. PICK finished : finished = [wa.finished EXCEPT ![v] = TRUE]
    OBVIOUS
  <2>4. PICK S : S = [wa EXCEPT !.finished = finished]
    OBVIOUS
  <2>5. S = [wa EXCEPT !.finished[v] = TRUE]
    BY <2>3, <2>4, Zenon
  <2>6. DOMAIN finished = Views
    BY <1>1, <2>3 DEF WaShape
  <2>7. finished[v] /\ \A w \in Views \ {v} : finished[w] <=> wa.finished[w]
    BY <1>1, <2>2, <2>3, Zenon DEF WaShape
  <2>8. WaShape(S)
    BY <1>1, <2>4, <2>6 DEF WaShape, WaFields
  <2>9. /\ S.file = wa.file /\ S.found = wa.found /\ S.apps = wa.apps /\ S.open = wa.open /\ S.current = wa.current
        /\ S.load = wa.load /\ S.finished = finished /\ S.detecting = wa.detecting /\ S.probes = wa.probes
        /\ S.state = wa.state /\ S.requests = wa.requests /\ S.windows = wa.windows /\ S.action = wa.action
    BY <1>1, <2>4 DEF WaShape, WaFields
  <2>10. (S.available <=> wa.available) /\ (S.ahead <=> wa.ahead)
    BY <1>1, <2>4, Zenon DEF WaShape, WaFields
  <2>11. Registry(S) /\ WindowsOfApps(S)
    BY <1>1, <2>9, <2>10 DEF Registry, WindowsOfApps
  <2>12. Offers(S)
    BY <1>1, <2>9, <2>10 DEF Offers, Offered, AppForManifest
  <2>13. \A w \in Views : DetectedIn(S, w)
    BY <1>1, <2>7, <2>9 DEF Detected, DetectedIn
  <2>14. \A p \in S.probes : p.view \in Views /\ p.load # 0
    BY <1>1, <2>9 DEF Detected
  <2>15. WaInv(S)
    BY <2>8, <2>11, <2>12, <2>13, <2>14 DEF WaInv, Kept, Detected
  <2>16. WaInv(ClearManifest(S, v))
    BY <2>2, <2>7, <2>8, <2>9, <2>11, <2>12, <2>13, <2>14, ClearKeeps
  <2>17. ASSUME NEW P, P = [S EXCEPT !.detecting[v] = S.load[v], !.probes = @ \cup {[view |-> v, load |-> S.load[v]]}]
         PROVE  WaInv(P)
    <3>1. PICK detecting : detecting = [S.detecting EXCEPT ![v] = S.load[v]]
      OBVIOUS
    <3>2. /\ DOMAIN detecting = Views /\ detecting[v] = S.load[v]
          /\ \A w \in Views \ {v} : detecting[w] = S.detecting[w]
      BY <2>2, <2>8, <3>1 DEF WaShape
    <3>3. PICK probe : probe = [view |-> v, load |-> S.load[v]]
      OBVIOUS
    <3>4. P = [S EXCEPT !.detecting = detecting, !.probes = @ \cup {probe}]
      BY <2>17, <3>1, <3>3
    <3>5. WaShape(P)
      BY <2>8, <3>2, <3>4 DEF WaShape, WaFields
    <3>6. /\ P.file = S.file /\ P.found = S.found /\ P.apps = S.apps /\ P.open = S.open /\ P.current = S.current
          /\ P.load = S.load /\ P.finished = S.finished /\ P.detecting = detecting /\ P.probes = S.probes \cup {probe}
          /\ P.state = S.state /\ P.requests = S.requests /\ P.windows = S.windows /\ P.action = S.action
      BY <2>8, <3>4 DEF WaShape, WaFields
    <3>7. (P.available <=> S.available) /\ (P.ahead <=> S.ahead)
      BY <2>8, <3>4, Zenon DEF WaShape, WaFields
    <3>8. Registry(P) /\ WindowsOfApps(P)
      BY <2>11, <3>6, <3>7 DEF Registry, WindowsOfApps
    <3>9. Offers(P)
      BY <2>12, <3>6, <3>7 DEF Offers, Offered, AppForManifest
    <3>10. \A w \in Views : DetectedIn(P, w)
      BY <2>13, <3>2, <3>6 DEF DetectedIn
    <3>11. S.load[v] # 0
      BY <1>1, <2>1, <2>2, <2>9 DEF Detected, DetectedIn
    <3>12. \A p \in P.probes : p.view \in Views /\ p.load # 0
      BY <2>2, <2>14, <3>3, <3>6, <3>11
    <3> QED BY <3>5, <3>8, <3>9, <3>10, <3>12 DEF WaInv, Kept, Detected
  <2> QED BY <2>1, <2>5, <2>15, <2>16, <2>17, Zenon
<1> QED BY <1>2, <1>3


LEMMA ManifestDetectedStep ==
  ASSUME WaInv(wa), ManifestDetected
  PROVE  WaInv(wa')
<1>1. WaShape(wa) /\ Registry(wa) /\ Detected(wa) /\ WindowsOfApps(wa) /\ Offers(wa)
  BY DEF WaInv, Kept
<1>2. PICK p \in wa.probes, manifest \in Manifests \cup {NoManifest} :
        LET S == [wa EXCEPT !.probes = @ \ {p}]
        IN  wa' = IF ~IsExpected(wa, p) THEN S
                  ELSE IfCurrent([S EXCEPT !.detecting[p.view] = 0,
                                           !.state[p.view] = [load |-> p.load, manifest |-> manifest]], p.view)
  BY Zenon DEF ManifestDetected, WaIs
<1>3. PICK v : v = p.view
  OBVIOUS
<1>4. v \in Views /\ p.load # 0
  BY <1>1, <1>3 DEF Detected
<1>5. PICK S : S = [wa EXCEPT !.probes = @ \ {p}]
  OBVIOUS
<1>6. WaShape(S)
  BY <1>1, <1>5 DEF WaShape, WaFields
<1>7. /\ S.file = wa.file /\ S.found = wa.found /\ S.apps = wa.apps /\ S.open = wa.open /\ S.current = wa.current
      /\ S.load = wa.load /\ S.finished = wa.finished /\ S.detecting = wa.detecting /\ S.probes = wa.probes \ {p}
      /\ S.state = wa.state /\ S.requests = wa.requests /\ S.windows = wa.windows /\ S.action = wa.action
  BY <1>1, <1>5 DEF WaShape, WaFields
<1>8. (S.available <=> wa.available) /\ (S.ahead <=> wa.ahead)
  BY <1>1, <1>5, Zenon DEF WaShape, WaFields
<1>9. Registry(S) /\ WindowsOfApps(S)
  BY <1>1, <1>7, <1>8 DEF Registry, WindowsOfApps
<1>10. Offers(S)
  BY <1>1, <1>7, <1>8 DEF Offers, Offered, AppForManifest
<1>11. Detected(S)
  BY <1>1, <1>7 DEF Detected, DetectedIn
<1>12. CASE ~IsExpected(wa, p)
  BY <1>2, <1>5, <1>6, <1>9, <1>10, <1>11, <1>12 DEF WaInv, Kept
<1>13. CASE IsExpected(wa, p)
  <2>1. PICK detecting, state : /\ detecting = [S.detecting EXCEPT ![v] = 0]
                                /\ state = [S.state EXCEPT ![v] = [load |-> p.load, manifest |-> manifest]]
    OBVIOUS
  <2>2. /\ DOMAIN detecting = Views /\ DOMAIN state = Views /\ detecting[v] = 0 /\ state[v].load = p.load
        /\ \A w \in Views \ {v} : detecting[w] = S.detecting[w] /\ state[w] = S.state[w]
    BY <1>4, <1>6, <2>1 DEF WaShape
  <2>3. PICK C : C = [S EXCEPT !.detecting = detecting, !.state = state]
    OBVIOUS
  <2>4. wa' = IfCurrent(C, v)
    BY <1>2, <1>3, <1>5, <1>13, <2>1, <2>3
  <2>5. WaShape(C)
    BY <1>6, <2>2, <2>3 DEF WaShape, WaFields
  <2>6. /\ C.file = S.file /\ C.found = S.found /\ C.apps = S.apps /\ C.open = S.open /\ C.current = S.current
        /\ C.load = S.load /\ C.finished = S.finished /\ C.detecting = detecting /\ C.probes = S.probes
        /\ C.state = state /\ C.requests = S.requests /\ C.windows = S.windows /\ C.action = S.action
    BY <1>6, <2>3 DEF WaShape, WaFields
  <2>7. (C.available <=> S.available) /\ (C.ahead <=> S.ahead)
    BY <1>6, <2>3, Zenon DEF WaShape, WaFields
  <2>8. Registry(C) /\ WindowsOfApps(C)
    BY <1>9, <2>6, <2>7 DEF Registry, WindowsOfApps
  <2>9. p.load = S.load[v]
    BY <1>1, <1>3, <1>4, <1>7, <1>13 DEF IsExpected, Detected, DetectedIn
  <2>10. Detected(C)
    BY <1>11, <2>2, <2>6, <2>9 DEF Detected, DetectedIn
  <2>11. Kept(C)
    BY <2>5, <2>8, <2>10 DEF Kept
  <2>12. CASE S.current = v
    BY <2>4, <2>6, <2>11, <2>12, OfferedAnew DEF IfCurrent
  <2>13. CASE S.current # v
    <3>1. S.current \in S.open => S.current \in Views /\ state[S.current] = S.state[S.current]
      BY <1>6, <2>2, <2>13 DEF WaShape
    <3>2. Offered(C) = Offered(S)
      BY <2>6, <2>7, <3>1 DEF Offered, AppForManifest
    <3>3. Offers(C)
      BY <1>10, <2>6, <3>2 DEF Offers
    <3> QED BY <2>4, <2>6, <2>11, <2>13, <3>3 DEF IfCurrent, WaInv
  <2> QED BY <2>12, <2>13
<1> QED BY <1>12, <1>13

LEMMA ViewSteps ==
  ASSUME WaInv(wa), CloseView \/ SelectView
  PROVE  WaInv(wa')
<1>1. WaShape(wa) /\ Registry(wa) /\ Detected(wa) /\ WindowsOfApps(wa) /\ Offers(wa)
  BY DEF WaInv, Kept
<1>2. CASE CloseView
  <2>1. PICK v \in wa.open, next \in Views :
          wa' = CurrentViewChanged(
                  [wa EXCEPT !.open = @ \ {v}, !.current = next, !.detecting[v] = 0, !.state[v] = NoState,
                             !.probes = { p \in @ : p.view # v }, !.requests = { r \in @ : r.view # v }])
    BY <1>2, Zenon DEF CloseView, WaIs
  <2>2. v \in Views
    BY <1>1 DEF WaShape
  <2>3. PICK detecting, state : detecting = [wa.detecting EXCEPT ![v] = 0] /\ state = [wa.state EXCEPT ![v] = NoState]
    OBVIOUS
  <2>4. /\ DOMAIN detecting = Views /\ DOMAIN state = Views /\ detecting[v] = 0 /\ state[v] = NoState
        /\ \A w \in Views \ {v} : detecting[w] = wa.detecting[w] /\ state[w] = wa.state[w]
    BY <1>1, <2>2, <2>3 DEF WaShape
  <2>5. PICK probes, requests : /\ probes = { p \in wa.probes : p.view # v }
                                /\ requests = { r \in wa.requests : r.view # v }
    OBVIOUS
  <2>6. PICK S : S = [wa EXCEPT !.open = @ \ {v}, !.current = next, !.detecting = detecting, !.state = state,
                                !.probes = probes, !.requests = requests]
    OBVIOUS
  <2>7. wa' = CurrentViewChanged(S)
    BY <1>1, <2>1, <2>3, <2>5, <2>6 DEF WaShape, WaFields
  <2>8. WaShape(S)
    BY <1>1, <2>4, <2>6 DEF WaShape, WaFields
  <2>9. /\ S.file = wa.file /\ S.found = wa.found /\ S.apps = wa.apps
        /\ S.load = wa.load /\ S.finished = wa.finished /\ S.detecting = detecting /\ S.probes = probes
        /\ S.state = state /\ S.windows = wa.windows
    BY <1>1, <2>6 DEF WaShape, WaFields
  <2>10. (S.available <=> wa.available) /\ (S.ahead <=> wa.ahead)
    BY <1>1, <2>6, Zenon DEF WaShape, WaFields
  <2>11. Registry(S) /\ WindowsOfApps(S)
    BY <1>1, <2>9, <2>10 DEF Registry, WindowsOfApps
  <2>12. Detected(S)
    BY <1>1, <2>4, <2>5, <2>9 DEF Detected, DetectedIn, NoState
  <2> QED BY <2>7, <2>8, <2>11, <2>12, OfferedAnew DEF Kept
<1>3. CASE SelectView
  <2>1. PICK v \in wa.open : wa' = CurrentViewChanged([wa EXCEPT !.current = v])
    BY <1>3, Zenon DEF SelectView, WaIs
  <2>2. PICK S : S = [wa EXCEPT !.current = v]
    OBVIOUS
  <2>3. WaShape(S)
    BY <1>1, <2>2 DEF WaShape, WaFields
  <2>4. /\ S.file = wa.file /\ S.found = wa.found /\ S.apps = wa.apps
        /\ S.load = wa.load /\ S.finished = wa.finished /\ S.detecting = wa.detecting /\ S.probes = wa.probes
        /\ S.state = wa.state /\ S.windows = wa.windows
    BY <1>1, <2>2 DEF WaShape, WaFields
  <2>5. (S.available <=> wa.available) /\ (S.ahead <=> wa.ahead)
    BY <1>1, <2>2, Zenon DEF WaShape, WaFields
  <2>6. Kept(S)
    BY <1>1, <2>3, <2>4, <2>5 DEF Kept, Registry, WindowsOfApps, Detected, DetectedIn
  <2> QED BY <2>1, <2>2, <2>6, OfferedAnew
<1> QED BY <1>2, <1>3


\* The pages, and what is offered for them, do not depend on the file, the dialogs and the shortcuts.
LEMMA PagesUntouched ==
  ASSUME NEW S, NEW T, WaInv(S), DOMAIN T = WaFields, T.apps = S.apps, T.open = S.open, T.current = S.current,
         T.load = S.load, T.finished = S.finished, T.detecting = S.detecting, T.probes = S.probes,
         T.state = S.state, T.action = S.action, T.requests = S.requests, T.available <=> S.available,
         Registry(T), T.windows \subseteq Ids(S.apps)
  PROVE  WaInv(T)
<1>1. WaShape(T) /\ WindowsOfApps(T) /\ Detected(T)
  BY DEF WaInv, Kept, WaShape, WindowsOfApps, Detected, DetectedIn
<1>2. Offers(T)
  BY DEF WaInv, Offers, Offered, AppForManifest
<1> QED BY <1>1, <1>2 DEF WaInv, Kept

LEMMA WindowOpens ==
  ASSUME NEW S, NEW id, WaInv(S)
  PROVE  WaInv(OpenWindow(S, id))
<1>1. CASE id \notin Ids(S.apps)
  BY <1>1 DEF OpenWindow
<1>2. CASE id \in Ids(S.apps)
  <2>1. PICK T : T = [S EXCEPT !.windows = @ \cup {id}]
    OBVIOUS
  <2>2. DOMAIN S = WaFields /\ Registry(S) /\ S.windows \subseteq Ids(S.apps)
    BY DEF WaInv, Kept, WaShape, WindowsOfApps
  <2>3. /\ DOMAIN T = WaFields /\ T.file = S.file /\ T.found = S.found /\ T.apps = S.apps /\ T.open = S.open
        /\ T.current = S.current
        /\ T.load = S.load /\ T.finished = S.finished /\ T.detecting = S.detecting /\ T.probes = S.probes
        /\ T.state = S.state /\ T.requests = S.requests /\ T.windows = S.windows \cup {id} /\ T.action = S.action
    BY <2>1, <2>2 DEF WaFields
  <2>4. (T.available <=> S.available) /\ (T.ahead <=> S.ahead)
    BY <2>1, <2>2, Zenon DEF WaFields
  <2>5. Registry(T)
    BY <2>2, <2>3, <2>4 DEF Registry
  <2>6. WaInv(T)
    BY <1>2, <2>2, <2>3, <2>4, <2>5, PagesUntouched
  <2> QED BY <1>2, <2>1, <2>6 DEF OpenWindow
<1> QED BY <1>1, <1>2

\* A dialog opens or closes.
LEMMA DialogsChange ==
  ASSUME NEW S, NEW dialogs, WaInv(S)
  PROVE  /\ WaInv([S EXCEPT !.dialogs = dialogs])
         /\ [S EXCEPT !.dialogs = dialogs].available <=> S.available
<1>1. PICK T : T = [S EXCEPT !.dialogs = dialogs]
  OBVIOUS
<1>2. DOMAIN S = WaFields /\ Registry(S) /\ S.windows \subseteq Ids(S.apps)
  BY DEF WaInv, Kept, WaShape, WindowsOfApps
<1>3. /\ DOMAIN T = WaFields /\ T.file = S.file /\ T.found = S.found /\ T.apps = S.apps /\ T.open = S.open
      /\ T.current = S.current
      /\ T.load = S.load /\ T.finished = S.finished /\ T.detecting = S.detecting /\ T.probes = S.probes
      /\ T.state = S.state /\ T.requests = S.requests /\ T.windows = S.windows /\ T.action = S.action
  BY <1>1, <1>2 DEF WaFields
<1>4. (T.available <=> S.available) /\ (T.ahead <=> S.ahead)
  BY <1>1, <1>2, Zenon DEF WaFields
<1>5. Registry(T)
  BY <1>2, <1>3, <1>4 DEF Registry
<1> QED BY <1>1, <1>2, <1>3, <1>4, <1>5, PagesUntouched

LEMMA ShortcutsChange ==
  ASSUME NEW S, NEW id, WaInv(S), NEW T \in ShortcutCreated(S, id) \cup ShortcutRemoved(S, id)
  PROVE  WaInv(T) /\ (T.available <=> S.available)
<1>1. DOMAIN S = WaFields /\ Registry(S) /\ S.windows \subseteq Ids(S.apps)
  BY DEF WaInv, Kept, WaShape, WindowsOfApps
<1>2. ASSUME NEW shortcuts, NEW U, U = [S EXCEPT !.shortcuts = shortcuts]
      PROVE WaInv(U) /\ (U.available <=> S.available)
  <2>1. /\ DOMAIN U = WaFields /\ U.file = S.file /\ U.found = S.found /\ U.apps = S.apps /\ U.open = S.open
        /\ U.current = S.current
        /\ U.load = S.load /\ U.finished = S.finished /\ U.detecting = S.detecting /\ U.probes = S.probes
        /\ U.state = S.state /\ U.requests = S.requests /\ U.windows = S.windows /\ U.action = S.action
    BY <1>1, <1>2 DEF WaFields
  <2>2. (U.available <=> S.available) /\ (U.ahead <=> S.ahead)
    BY <1>1, <1>2, Zenon DEF WaFields
  <2>3. Registry(U)
    BY <1>1, <2>1, <2>2 DEF Registry
  <2> QED BY <1>1, <2>1, <2>2, <2>3, PagesUntouched
<1> QED BY <1>2 DEF ShortcutCreated, ShortcutRemoved

\* A save replaces the apps, keeps the windows of those that are left and looks up the offer anew; one
\* that fails leaves the apps, and the file may be ahead of them.
LEMMA SavedKeeps ==
  ASSUME NEW S, NEW apps, WaInv(S), S.available
  PROVE  /\ WaInv(StoreSaved(S, apps))
         /\ \A T \in SaveFailed(S, apps) : WaInv(T)
<1>1. WaShape(S) /\ Registry(S) /\ Detected(S) /\ WindowsOfApps(S) /\ DOMAIN S = WaFields
  BY DEF WaInv, Kept, WaShape
<1>2. WaInv(StoreSaved(S, apps))
  <2>1. PICK T : T = [S EXCEPT !.apps = apps, !.file = apps, !.ahead = FALSE]
    OBVIOUS
  <2>2. /\ DOMAIN T = WaFields /\ T.file = apps /\ T.apps = apps /\ T.open = S.open
        /\ T.load = S.load /\ T.finished = S.finished /\ T.detecting = S.detecting /\ T.probes = S.probes
        /\ T.state = S.state /\ T.windows = S.windows
    BY <1>1, <2>1 DEF WaFields
  <2>3. T.available
    BY <1>1, <2>1, Zenon DEF WaFields
  <2>4. PICK U : U = [T EXCEPT !.windows = @ \cap Ids(T.apps)]
    OBVIOUS
  <2>5. /\ DOMAIN U = WaFields /\ U.file = apps /\ U.apps = apps /\ U.open = S.open
        /\ U.load = S.load /\ U.finished = S.finished /\ U.detecting = S.detecting /\ U.probes = S.probes
        /\ U.state = S.state /\ U.windows = S.windows \cap Ids(apps)
    BY <2>2, <2>4 DEF WaFields
  <2>6. U.available
    BY <2>2, <2>3, <2>4, Zenon DEF WaFields
  <2>7. Kept(U)
    BY <1>1, <2>5, <2>6 DEF Kept, WaShape, Registry, Detected, DetectedIn, WindowsOfApps
  <2>8. StoreSaved(S, apps) = CurrentViewChanged(U)
    BY <2>1, <2>4, Zenon DEF StoreSaved, AppsChanged
  <2> QED BY <2>7, <2>8, OfferedAnew
<1>3. ASSUME NEW T, T = [S EXCEPT !.file = apps, !.ahead = TRUE] PROVE WaInv(T)
  <2>1. /\ DOMAIN T = WaFields /\ T.found = S.found /\ T.apps = S.apps /\ T.open = S.open
        /\ T.current = S.current
        /\ T.load = S.load /\ T.finished = S.finished /\ T.detecting = S.detecting /\ T.probes = S.probes
        /\ T.state = S.state /\ T.requests = S.requests /\ T.windows = S.windows /\ T.action = S.action
    BY <1>1, <1>3 DEF WaFields
  <2>2. T.available /\ T.ahead
    BY <1>1, <1>3, Zenon DEF WaFields
  <2>3. Registry(T)
    BY <2>2 DEF Registry
  <2> QED BY <1>1, <2>1, <2>2, <2>3, PagesUntouched DEF WindowsOfApps
<1>4. ASSUME NEW T \in SaveFailed(S, apps) PROVE WaInv(T)
  <2>1. T = S \/ T = [S EXCEPT !.file = apps, !.ahead = TRUE]
    BY <1>4, Zenon DEF SaveFailed
  <2> QED BY <1>3, <2>1
<1> QED BY <1>2, <1>4

LEMMA AnsweredStep ==
  ASSUME WaInv(wa), Answered
  PROVE  WaInv(wa')
<1>1. PICK asked, S :
        /\ S = [wa EXCEPT !.dialogs = Tail(@)]
        /\ \/ wa' = S
           \/ wa' \in Install(S, asked.app)
           \/ wa' \in Uninstall(S, asked.app)
  <2>1. \/ wa' = [wa EXCEPT !.dialogs = Tail(@)]
        \/ wa' \in Install([wa EXCEPT !.dialogs = Tail(@)], Head(wa.dialogs).app)
        \/ wa' \in Uninstall([wa EXCEPT !.dialogs = Tail(@)], Head(wa.dialogs).app)
    BY Zenon DEF Answered, WaIs
  <2> QED BY <2>1, Zenon
<1>2. WaInv(S)
  BY <1>1, DialogsChange
<1>3. PICK app : app = asked.app
  OBVIOUS
<1>4. ASSUME wa' \in Install(S, app) PROVE WaInv(wa')
  <2>1. CASE ~MayInstall(S, app)
    BY <1>2, <1>4, <2>1 DEF Install
  <2>2. CASE MayInstall(S, app)
    <3>1. S.available
      BY <2>2 DEF MayInstall
    <3>2. PICK apps : apps = Installed(S, app)
      OBVIOUS
    <3>3. \/ wa' \in SaveFailed(S, apps)
          \/ \E T \in ShortcutCreated(StoreSaved(S, apps), app.id) : wa' = OpenWindow(T, app.id)
      BY <1>4, <2>2, <3>2 DEF Install
    <3>4. ASSUME NEW T \in ShortcutCreated(StoreSaved(S, apps), app.id) PROVE WaInv(OpenWindow(T, app.id))
      BY <1>2, <3>1, <3>4, SavedKeeps, ShortcutsChange, WindowOpens
    <3> QED BY <1>2, <3>1, <3>3, <3>4, SavedKeeps
  <2> QED BY <2>1, <2>2
<1>5. ASSUME wa' \in Uninstall(S, app) PROVE WaInv(wa')
  <2>0. PICK T \in ShortcutRemoved(S, app.id) : \E rest :
          wa' \in IF ~T.available \/ rest = T.apps THEN {T} ELSE {StoreSaved(T, rest)} \cup SaveFailed(T, rest)
    BY <1>5, Zenon DEF Uninstall
  <2>1. PICK rest :
          wa' \in IF ~T.available \/ rest = T.apps THEN {T} ELSE {StoreSaved(T, rest)} \cup SaveFailed(T, rest)
    BY <2>0
  <2>2. WaInv(T)
    BY <1>2, ShortcutsChange
  <2>3. CASE ~T.available \/ rest = T.apps
    BY <2>1, <2>2, <2>3
  <2>4. CASE T.available /\ rest # T.apps
    <3>1. wa' = StoreSaved(T, rest) \/ wa' \in SaveFailed(T, rest)
      BY <2>1, <2>4
    <3> QED BY <2>2, <2>4, <3>1, SavedKeeps
  <2> QED BY <2>3, <2>4
<1> QED BY <1>1, <1>2, <1>3, <1>4, <1>5


\* A manifest begins to be read, or has been read or given up.
LEMMA RequestsChange ==
  ASSUME NEW S, NEW requests, Kept(S)
  PROVE  Kept([S EXCEPT !.requests = requests])
<1>1. PICK T : T = [S EXCEPT !.requests = requests]
  OBVIOUS
<1>2. DOMAIN S = WaFields
  BY DEF Kept, WaShape
<1>3. /\ DOMAIN T = WaFields /\ T.file = S.file /\ T.found = S.found /\ T.apps = S.apps /\ T.open = S.open
      /\ T.load = S.load /\ T.finished = S.finished /\ T.detecting = S.detecting /\ T.probes = S.probes
      /\ T.state = S.state /\ T.windows = S.windows
  BY <1>1, <1>2 DEF WaFields
<1>4. (T.available <=> S.available) /\ (T.ahead <=> S.ahead)
  BY <1>1, <1>2, Zenon DEF WaFields
<1>5. Registry(T)
  BY <1>3, <1>4 DEF Kept, Registry
<1>6. WaShape(T) /\ Detected(T) /\ WindowsOfApps(T)
  BY <1>3 DEF Kept, WaShape, Detected, DetectedIn, WindowsOfApps
<1> QED BY <1>1, <1>5, <1>6 DEF Kept

LEMMA InstallCurrentStep ==
  ASSUME WaInv(wa), InstallCurrent
  PROVE  WaInv(wa')
<1> DEFINE Reading(r) == [wa EXCEPT !.requests = @ \cup {r}, !.requested = @ + 1, !.action = "reading"]
<1>1. (\E id : wa' = OpenWindow(wa, id)) \/ \E r : wa' = Reading(r)
  BY Zenon DEF InstallCurrent, WaIs
<1>2. ASSUME NEW id, wa' = OpenWindow(wa, id) PROVE WaInv(wa')
  BY <1>2, WindowOpens
<1>3. ASSUME NEW r, wa' = Reading(r) PROVE WaInv(wa')
  <2>1. PICK T : T = wa'
    OBVIOUS
  <2>2. DOMAIN wa = WaFields
    BY DEF WaInv, Kept, WaShape
  <2>3. /\ DOMAIN T = WaFields /\ T.file = wa.file /\ T.found = wa.found /\ T.apps = wa.apps /\ T.open = wa.open
        /\ T.load = wa.load /\ T.finished = wa.finished /\ T.detecting = wa.detecting /\ T.probes = wa.probes
        /\ T.state = wa.state /\ T.windows = wa.windows /\ T.action = "reading" /\ r \in T.requests
    BY <1>3, <2>1, <2>2 DEF WaFields
  <2>4. (T.available <=> wa.available) /\ (T.ahead <=> wa.ahead)
    BY <1>3, <2>1, <2>2, Zenon DEF WaFields
  <2>5. Registry(T)
    BY <2>3, <2>4 DEF WaInv, Kept, Registry
  <2>6. WaShape(T) /\ Detected(T) /\ WindowsOfApps(T) /\ Offers(T)
    BY <2>3 DEF WaInv, Kept, WaShape, Detected, DetectedIn, WindowsOfApps, Offers
  <2> QED BY <2>1, <2>5, <2>6 DEF WaInv, Kept
<1> HIDE DEF Reading
<1> QED BY <1>1, <1>2, <1>3

\* A request ends, and what is offered is looked up anew; perhaps an app is proposed.
LEMMA RequestEnds ==
  ASSUME WaInv(wa), ManifestFetched \/ FetchTimedOut
  PROVE  WaInv(wa')
<1>1. ASSUME NEW r PROVE WaInv(Concluded(wa, r))
  <2>1. Kept([wa EXCEPT !.requests = @ \ {r}])
    BY RequestsChange DEF WaInv
  <2> QED BY <2>1, OfferedAnew, Zenon DEF Concluded
<1>2. \/ \E r \in wa.requests : wa' = Concluded(wa, r)
      \/ \E r \in wa.requests : \E app :
           wa' = [Concluded(wa, r) EXCEPT !.dialogs = << [asks |-> "install", app |-> app] >> \o @]
  BY Zenon DEF ManifestFetched, FetchTimedOut, WaIs
<1>3. ASSUME NEW r, NEW app,
             wa' = [Concluded(wa, r) EXCEPT !.dialogs = << [asks |-> "install", app |-> app] >> \o @]
      PROVE WaInv(wa')
  BY <1>1, <1>3, DialogsChange
<1> QED BY <1>1, <1>2, <1>3

LEMMA LaunchedKeeps ==
  ASSUME NEW file, NEW shortcuts
  PROVE  WaInv(Launched(file, shortcuts))
<1>1. PICK S : S = Launched(file, shortcuts)
  OBVIOUS
<1>2. /\ DOMAIN S = WaFields /\ S.load = [v \in Views |-> 0] /\ S.finished = [v \in Views |-> TRUE]
      /\ S.detecting = [v \in Views |-> 0] /\ S.state = [v \in Views |-> NoState] /\ S.open = Views
      /\ S.probes = {} /\ S.windows = {} /\ S.action = "none" /\ S.file = file /\ S.found = file
      /\ S.apps = IF Loadable(file) THEN file ELSE << >>
  BY <1>1 DEF Launched, WaFields
<1>3. S.available <=> Loadable(file)
  BY <1>1, Zenon DEF Launched
<1>4. WaShape(S) /\ Detected(S) /\ WindowsOfApps(S)
  BY <1>2 DEF WaShape, Detected, DetectedIn, WindowsOfApps, NoState
<1>5. Registry(S)
  BY <1>2, <1>3 DEF Registry
<1>6. Offered(S) = "none"
  BY <1>2 DEF Offered, NoState
<1>7. Offers(S)
  BY <1>2, <1>6 DEF Offers
<1> QED BY <1>1, <1>4, <1>5, <1>7 DEF WaInv, Kept

LEMMA OtherSteps ==
  ASSUME WaInv(wa), AskToRemove \/ ChangeShortcut \/ LaunchInstalledWebApp \/ CloseAppWindow \/ Relaunch
  PROVE  WaInv(wa')
<1>1. CASE AskToRemove
  <2>1. PICK dialogs : wa' = [wa EXCEPT !.dialogs = dialogs]
    BY <1>1, Zenon DEF AskToRemove, WaIs
  <2> QED BY <2>1, DialogsChange
<1>2. CASE ChangeShortcut
  <2>1. PICK id : wa' \in ShortcutCreated(wa, id) \cup ShortcutRemoved(wa, id)
    BY <1>2, Zenon DEF ChangeShortcut, WaIs
  <2> QED BY <2>1, ShortcutsChange
<1>3. CASE LaunchInstalledWebApp
  <2>1. PICK id : wa' = OpenWindow(wa, id)
    BY <1>3, Zenon DEF LaunchInstalledWebApp, WaIs
  <2> QED BY <2>1, WindowOpens
<1>4. CASE CloseAppWindow
  <2>1. PICK id : wa' = [wa EXCEPT !.windows = @ \ {id}]
    BY <1>4, Zenon DEF CloseAppWindow, WaIs
  <2>2. PICK T : T = wa'
    OBVIOUS
  <2>3. DOMAIN wa = WaFields /\ Registry(wa) /\ wa.windows \subseteq Ids(wa.apps)
    BY DEF WaInv, Kept, WaShape, WindowsOfApps
  <2>4. /\ DOMAIN T = WaFields /\ T.file = wa.file /\ T.found = wa.found /\ T.apps = wa.apps /\ T.open = wa.open
        /\ T.current = wa.current
        /\ T.load = wa.load /\ T.finished = wa.finished /\ T.detecting = wa.detecting /\ T.probes = wa.probes
        /\ T.state = wa.state /\ T.requests = wa.requests /\ T.windows = wa.windows \ {id} /\ T.action = wa.action
    BY <2>1, <2>2, <2>3 DEF WaFields
  <2>5. (T.available <=> wa.available) /\ (T.ahead <=> wa.ahead)
    BY <2>1, <2>2, <2>3, Zenon DEF WaFields
  <2>6. Registry(T)
    BY <2>3, <2>4, <2>5 DEF Registry
  <2>7. T.windows \subseteq Ids(wa.apps)
    BY <2>3, <2>4
  <2> QED BY <2>2, <2>4, <2>5, <2>6, <2>7, PagesUntouched
<1>5. CASE Relaunch
  BY <1>5, LaunchedKeeps DEF Relaunch, WaIs
<1> QED BY <1>1, <1>2, <1>3, <1>4, <1>5

\* The apps, their file, their windows and what is offered for the tab in front agree at all times.
THEOREM AppsAgree == WaSpec => []WebAppsAgree
<1>1. WaInit => WaInv(wa)
  BY LaunchedKeeps DEF WaInit
<1>2. WaInv(wa) /\ [WaNext]_waVars => WaInv(wa)'
  <2> SUFFICES ASSUME WaInv(wa), [WaNext]_waVars PROVE WaInv(wa)'
    OBVIOUS
  <2>1. WaInv(wa)' <=> WaInv(wa')
    BY DEF WaInv, Kept, WaShape, Registry, Detected, DetectedIn, WindowsOfApps, Offers, Offered, AppForManifest, Ids
  <2>2. CASE UNCHANGED waVars
    BY <2>1, <2>2 DEF waVars
  <2>3. CASE PageLoadStarted \/ PageLoadFinished
    BY <2>1, <2>3, PageLoadSteps
  <2>4. CASE ManifestDetected
    BY <2>1, <2>4, ManifestDetectedStep
  <2>5. CASE CloseView \/ SelectView
    BY <2>1, <2>5, ViewSteps
  <2>6. CASE InstallCurrent
    BY <2>1, <2>6, InstallCurrentStep
  <2>7. CASE ManifestFetched \/ FetchTimedOut
    BY <2>1, <2>7, RequestEnds
  <2>8. CASE Answered
    BY <2>1, <2>8, AnsweredStep
  <2>9. CASE AskToRemove \/ ChangeShortcut \/ LaunchInstalledWebApp \/ CloseAppWindow \/ Relaunch
    BY <2>1, <2>9, OtherSteps
  <2> QED BY <2>2, <2>3, <2>4, <2>5, <2>6, <2>7, <2>8, <2>9 DEF WaNext
<1>3. WaInv(wa) => WebAppsAgree
  BY DEF WaInv, Kept, Registry, Detected, DetectedIn, WindowsOfApps, Offers, WebAppsAgree
<1> QED BY <1>1, <1>2, <1>3, PTL DEF WaSpec

----------------------------------------------------------------------------
(***************************************************************************)
(* Bookmarks.  No id is given twice, as none is above the bound and the    *)
(* next one is above all; every change of the rows redraws all stars.      *)
(***************************************************************************)
Rows == [id : 1 .. MaxBookmarkId, address : Links]

BmInv(S) ==
  /\ S \in [rows : SUBSET Rows, address : [Windows -> Links \cup {Blank}], star : [Windows -> BOOLEAN]]
  /\ \A r, s \in S.rows : r.address = s.address \/ r.id = s.id => r = s
  /\ \A w \in Windows : S.star[w] = Bookmarked(S.rows, S.address[w])

\* The next id is free.
LEMMA NextIsFree ==
  ASSUME NEW rows \in SUBSET Rows
  PROVE  NextBookmark(rows) \in Nat \ {0} /\ \A r \in rows : r.id # NextBookmark(rows)
<1>1. CASE rows = {}
  <2>1. NextBookmark(rows) = 1
    BY <1>1 DEF NextBookmark
  <2> QED BY <1>1, <2>1
<1>2. CASE rows # {}
  <2>1. PICK ids : ids = { r.id : r \in rows }
    OBVIOUS
  <2>2. ids \in SUBSET Nat /\ ids # {} /\ \A n \in ids : n <= MaxBookmarkId
    BY <1>2, <2>1, BookmarksAssumption DEF Rows
  <2>3. Max(ids) \in ids /\ \A n \in ids : n <= Max(ids)
    BY <2>2, BookmarksAssumption, LargestOfBounded
  <2>4. NextBookmark(rows) = 1 + Max(ids)
    BY <1>2, <2>1 DEF NextBookmark
  <2>5. \A r \in rows : r.id \in ids
    BY <2>1
  <2>6. Max(ids) \in Nat
    BY <2>2, <2>3
  <2>7. \A r \in rows : r.id \in Nat /\ r.id <= Max(ids)
    BY <2>2, <2>3, <2>5
  <2> QED BY <2>4, <2>6, <2>7
<1> QED BY <1>1, <1>2

\* Other rows, and all stars redrawn.
LEMMA ChangedAgrees ==
  ASSUME BmInv(bm), NEW rows \in SUBSET Rows,
         \A r, s \in rows : r.address = s.address \/ r.id = s.id => r = s
  PROVE  BmInv(BookmarksChanged([bm EXCEPT !.rows = rows]))
<1>1. PICK star \in [Windows -> BOOLEAN] : star = [w \in Windows |-> Bookmarked(rows, bm.address[w])]
  <2>1. [w \in Windows |-> Bookmarked(rows, bm.address[w])] \in [Windows -> BOOLEAN]
    BY DEF Bookmarked
  <2> QED BY <2>1
<1>2. PICK S : S = BookmarksChanged([bm EXCEPT !.rows = rows])
  OBVIOUS
<1>3. S = [bm EXCEPT !.rows = rows, !.star = star]
  BY <1>1, <1>2 DEF BookmarksChanged, BmInv
<1>4. S \in [rows : SUBSET Rows, address : [Windows -> Links \cup {Blank}], star : [Windows -> BOOLEAN]]
  BY <1>3 DEF BmInv
<1>5. S.rows = rows /\ S.address = bm.address /\ S.star = star
  BY <1>3 DEF BmInv
<1>6. \A w \in Windows : S.star[w] = Bookmarked(S.rows, S.address[w])
  BY <1>1, <1>5
<1> QED BY <1>2, <1>4, <1>5, <1>6 DEF BmInv

\* Every operation on bookmarks keeps BmInv.
LEMMA BmSteps ==
  ASSUME BmInv(bm), BmNext
  PROVE  BmInv(bm')
<1>1. bm \in [rows : SUBSET Rows, address : [Windows -> Links \cup {Blank}], star : [Windows -> BOOLEAN]]
  BY DEF BmInv
<1>2. CASE ShowAddress
  <2>1. PICK w \in Windows, address \in Links \cup {Blank} :
          bm' = UpdateBookmarkAction([bm EXCEPT !.address[w] = address], w)
    BY <1>2 DEF ShowAddress, BmIs
  <2>2. PICK shown : shown = [bm.address EXCEPT ![w] = address]
    OBVIOUS
  <2>3. shown \in [Windows -> Links \cup {Blank}] /\ shown[w] = address
        /\ \A v \in Windows \ {w} : shown[v] = bm.address[v]
    BY <1>1, <2>2
  <2>4. PICK here \in BOOLEAN : here = Bookmarked(bm.rows, address)
    BY DEF Bookmarked
  <2>5. PICK star : star = [bm.star EXCEPT ![w] = here]
    OBVIOUS
  <2>6. star \in [Windows -> BOOLEAN] /\ star[w] = here /\ \A v \in Windows \ {w} : star[v] = bm.star[v]
    BY <1>1, <2>5
  <2>7. bm' = [bm EXCEPT !.address = shown, !.star = star]
    BY <1>1, <2>1, <2>2, <2>3, <2>4, <2>5 DEF UpdateBookmarkAction
  <2>8. bm' \in [rows : SUBSET Rows, address : [Windows -> Links \cup {Blank}], star : [Windows -> BOOLEAN]]
    BY <1>1, <2>3, <2>6, <2>7
  <2>9. bm'.rows = bm.rows /\ bm'.address = shown /\ bm'.star = star
    BY <1>1, <2>7
  <2>10. ASSUME NEW v \in Windows PROVE bm'.star[v] = Bookmarked(bm'.rows, bm'.address[v])
    <3>1. CASE v = w
      BY <2>3, <2>4, <2>6, <2>9, <3>1
    <3>2. CASE v # w
      BY <2>3, <2>6, <2>9, <3>2 DEF BmInv
    <3> QED BY <3>1, <3>2
  <2> QED BY <2>8, <2>9, <2>10 DEF BmInv
<1>3. CASE AddOrUpdate
  <2>1. PICK address \in Links :
          /\ NextBookmark(bm.rows) <= MaxBookmarkId
          /\ bm' = IF Bookmarked(bm.rows, address) THEN bm
                   ELSE BookmarksChanged([bm EXCEPT !.rows = bm.rows \cup
                                            { [id |-> NextBookmark(bm.rows), address |-> address] }])
    BY <1>3 DEF AddOrUpdate, BmIs
  <2>2. PICK next : next = NextBookmark(bm.rows)
    OBVIOUS
  <2>3. next \in Nat \ {0} /\ \A r \in bm.rows : r.id # next
    BY <1>1, <2>2, NextIsFree
  <2>4. PICK row \in Rows : row = [id |-> next, address |-> address]
    <3>1. next \in 1 .. MaxBookmarkId
      BY <2>1, <2>2, <2>3, BookmarksAssumption
    <3>2. [id |-> next, address |-> address] \in Rows
      BY <3>1 DEF Rows
    <3> QED BY <3>2
  <2>5. CASE Bookmarked(bm.rows, address)
    BY <2>1, <2>5
  <2>6. CASE ~Bookmarked(bm.rows, address)
    <3>1. bm' = BookmarksChanged([bm EXCEPT !.rows = bm.rows \cup {row}])
      BY <2>1, <2>2, <2>4, <2>6
    <3>2. \A r \in bm.rows : r.address # row.address /\ r.id # row.id
      BY <2>3, <2>4, <2>6 DEF Bookmarked
    <3>3. \A r, s \in bm.rows \cup {row} : r.address = s.address \/ r.id = s.id => r = s
      BY <3>2 DEF BmInv
    <3>4. bm.rows \cup {row} \in SUBSET Rows
      BY <1>1
    <3> QED BY <3>1, <3>3, <3>4, ChangedAgrees
  <2> QED BY <2>5, <2>6
<1>4. CASE UpdateBookmark
  <2>1. PICK r \in bm.rows, address \in Links :
          /\ ~\E other \in bm.rows : other # r /\ other.address = address
          /\ bm' = BookmarksChanged([bm EXCEPT !.rows = (bm.rows \ {r}) \cup { [r EXCEPT !.address = address] }])
    BY <1>4 DEF UpdateBookmark, BmIs
  <2>2. PICK row : row = [r EXCEPT !.address = address]
    OBVIOUS
  <2>3. r \in Rows
    BY <1>1
  <2>4. row \in Rows /\ row.id = r.id /\ row.address = address
    BY <2>2, <2>3 DEF Rows
  <2>5. \A s \in bm.rows \ {r} : s.address # row.address /\ s.id # row.id
    BY <2>1, <2>4 DEF BmInv
  <2>6. \A s, t \in (bm.rows \ {r}) \cup {row} : s.address = t.address \/ s.id = t.id => s = t
    BY <2>5 DEF BmInv
  <2>7. (bm.rows \ {r}) \cup {row} \in SUBSET Rows
    BY <1>1, <2>4
  <2> QED BY <2>1, <2>2, <2>6, <2>7, ChangedAgrees
<1>5. CASE RemoveBookmarks
  <2>1. PICK gone \in SUBSET bm.rows : bm' = BookmarksChanged([bm EXCEPT !.rows = bm.rows \ gone])
    BY <1>5 DEF RemoveBookmarks, BmIs
  <2>2. bm.rows \ gone \in SUBSET Rows
    BY <1>1
  <2>3. \A r, s \in bm.rows \ gone : r.address = s.address \/ r.id = s.id => r = s
    BY DEF BmInv
  <2> QED BY <2>1, <2>2, <2>3, ChangedAgrees
<1> QED BY <1>2, <1>3, <1>4, <1>5 DEF BmNext

\* No bookmarks, no stars.
LEMMA BmStarts ==
  ASSUME BmInit
  PROVE  BmInv(bm)
<1>1. bm = [rows |-> {}, address |-> [w \in Windows |-> Blank], star |-> [w \in Windows |-> FALSE]]
  BY DEF BmInit
<1>2. bm \in [rows : SUBSET Rows, address : [Windows -> Links \cup {Blank}], star : [Windows -> BOOLEAN]]
  BY <1>1
<1>3. bm.rows = {} /\ \A w \in Windows : bm.star[w] = FALSE
  BY <1>1
<1>4. \A w \in Windows : Bookmarked(bm.rows, bm.address[w]) = FALSE
  BY <1>3 DEF Bookmarked
<1> QED BY <1>2, <1>3, <1>4 DEF BmInv

----------------------------------------------------------------------------
(***************************************************************************)
(* The page of the credentials.  What is shown or has been read tells what *)
(* the store holds, unless a page has signed in since; a removal runs only *)
(* while the dialog is open and busy with it.                              *)
(***************************************************************************)
Operations == { NoOperation, "list", "remove", "removeAll" }

ListType ==
  [shown : SUBSET Credentials, error : { "None", "CorruptData", "AccessDenied", "Unavailable" }]

DialogType == [open : BOOLEAN, loaded : BOOLEAN, busy : Operations, active : BOOLEAN, warning : BOOLEAN]

CpType ==
  [dialog : DialogType, list : ListType, selected : SUBSET Credentials, store : BOOLEAN,
   items : [Credentials -> { "none", "stored", "damaged" }], todo : SUBSET Credentials,
   failed : SUBSET Credentials, result : SUBSET ListType, confirmed : SUBSET Credentials,
   removed : SUBSET Credentials, stale : BOOLEAN, signIns : Nat, dialogs : Nat]

Told(S, list) ==
  ~S.stale /\ list.error \in { "None", "CorruptData" } =>
    /\ list.shown = { c \in Credentials : S.items[c] = "stored" }
    /\ (\E c \in Credentials : S.items[c] = "damaged") => list.error = "CorruptData"

\* A removal is one of the dialog, and confirmed there.
Confirmed(S) ==
  /\ S.todo # {} => S.dialog.active
  /\ S.todo \subseteq S.confirmed /\ S.removed \subseteq S.confirmed
  /\ S.selected \subseteq S.list.shown

DialogOK(d) ==
  /\ d \in DialogType
  /\ d.active <=> d.busy \in { "remove", "removeAll" }
  /\ d.active => ~d.warning
  /\ d.busy # NoOperation \/ d.warning => d.open

Idling(d) == d.open /\ d.loaded /\ d.busy = NoOperation /\ ~d.warning

ListsTold(S) ==
  /\ S.result # {} => S.dialog.busy = "list"
  /\ \A list \in S.result : Told(S, list)
  /\ Idling(S.dialog) => Told(S, S.list)

CpInv(S) == S \in CpType /\ DialogOK(S.dialog) /\ Confirmed(S) /\ ListsTold(S)

\* The page that does nothing is in no operation.
LEMMA NothingDiffers == NoOperation \notin { "list", "remove", "removeAll" }
BY Zenon DEF NoOperation

LEMMA NoListTyped == NoList \in ListType
BY DEF NoList, ListType

\* A dialog that is opened.
LEMMA OpenedOK ==
  /\ DialogOK([ClosedDialog EXCEPT !.open = TRUE])
  /\ ~Idling([ClosedDialog EXCEPT !.open = TRUE])
  /\ [ClosedDialog EXCEPT !.open = TRUE].active = FALSE
<1>1. PICK c : c = ClosedDialog
  OBVIOUS
<1>2. c.busy = NoOperation /\ c.active = FALSE /\ c.warning = FALSE /\ c.loaded = FALSE /\ c \in DialogType
  BY <1>1 DEF ClosedDialog, DialogType, Operations
<1>3. PICK d : d = [c EXCEPT !.open = TRUE]
  OBVIOUS
<1>4. d.busy = NoOperation /\ d.active = FALSE /\ d.warning = FALSE /\ d.loaded = FALSE /\ d \in DialogType /\ d.open = TRUE
  BY <1>2, <1>3 DEF DialogType
<1>5. DialogOK(d)
  BY <1>4, NothingDiffers DEF DialogOK
<1>6. ~Idling(d)
  BY <1>4 DEF Idling
<1> QED BY <1>1, <1>3, <1>4, <1>5, <1>6

\* A list that is applied, from a dialog that is not removing anything.
LEMMA AppliedAgrees ==
  ASSUME NEW S \in CpType, DialogOK(S.dialog), ~S.dialog.active, Confirmed(S),
         NEW list \in ListType, Told(S, list)
  PROVE  CpInv(ApplyListResult(S, list))
<1>1. PICK d : d = [S.dialog EXCEPT !.busy = NoOperation]
  OBVIOUS
<1>2. S.dialog \in DialogType
  BY DEF CpType
<1>3. d \in DialogType /\ d.busy = NoOperation /\ d.active = S.dialog.active /\ d.open = S.dialog.open
      /\ d.warning = S.dialog.warning
  BY <1>1, <1>2 DEF DialogType, Operations
<1>4. PICK T : T = ApplyListResult(S, list)
  OBVIOUS
<1>5. T = [S EXCEPT !.list = list, !.selected = S.selected \cap list.shown, !.dialog = d, !.result = {}]
  <2>1. T = [S EXCEPT !.list = list, !.selected = @ \cap list.shown, !.dialog.busy = NoOperation, !.result = {}]
    BY <1>4, Zenon DEF ApplyListResult
  <2> QED BY <1>1, <2>1 DEF CpType
<1>6. T \in CpType
  BY <1>3, <1>5 DEF CpType
<1>7. /\ T.list = list /\ T.selected = S.selected \cap list.shown /\ T.dialog = d /\ T.result = {}
      /\ T.todo = S.todo /\ T.confirmed = S.confirmed /\ T.removed = S.removed /\ T.items = S.items
      /\ T.stale = S.stale
  BY <1>5 DEF CpType
<1>8. DialogOK(d)
  BY <1>3, NothingDiffers DEF DialogOK
<1>9. Confirmed(T)
  BY <1>3, <1>7 DEF Confirmed
<1>10. ListsTold(T)
  BY <1>7 DEF ListsTold, Told
<1> QED BY <1>4, <1>6, <1>7, <1>8, <1>9, <1>10 DEF CpInv

\* The list is read again, or there is no store to read.
LEMMA ReloadAgrees ==
  ASSUME NEW S \in CpType, DialogOK(S.dialog), S.dialog.open, ~S.dialog.active, Confirmed(S)
  PROVE  CpInv(Reload(S))
<1>1. S.dialog \in DialogType
  BY DEF CpType
<1>2. CASE ~S.store
  <2>1. PICK d : d = [S.dialog EXCEPT !.loaded = TRUE]
    OBVIOUS
  <2>2. d \in DialogType /\ d.busy = S.dialog.busy /\ d.active = S.dialog.active /\ d.open /\ d.warning = S.dialog.warning
    BY <1>1, <2>1 DEF DialogType
  <2>3. DialogOK(d)
    BY <2>2 DEF DialogOK
  <2>4. PICK T : T = [S EXCEPT !.dialog = d]
    OBVIOUS
  <2>5. T \in CpType
    BY <2>2, <2>4 DEF CpType
  <2>6. /\ T.dialog = d /\ T.todo = S.todo /\ T.confirmed = S.confirmed /\ T.removed = S.removed
        /\ T.selected = S.selected /\ T.list = S.list
    BY <2>4 DEF CpType
  <2>7. Confirmed(T)
    BY <2>2, <2>6 DEF Confirmed
  <2>8. PICK list : list = [shown |-> {}, error |-> "Unavailable"]
    OBVIOUS
  <2>9. list \in ListType /\ Told(T, list)
    BY <2>8 DEF ListType, Told
  <2>10. Reload(S) = ApplyListResult(T, list)
    <3>1. T = [S EXCEPT !.dialog.loaded = TRUE]
      BY <2>1, <2>4 DEF CpType
    <3> QED BY <1>2, <2>8, <3>1, Zenon DEF Reload
  <2> QED BY <2>2, <2>3, <2>5, <2>6, <2>7, <2>9, <2>10, AppliedAgrees
<1>3. CASE S.store
  <2>1. PICK d : d = [S.dialog EXCEPT !.loaded = TRUE, !.busy = "list"]
    OBVIOUS
  <2>2. d \in DialogType /\ d.busy = "list" /\ d.active = S.dialog.active /\ d.open
    BY <1>1, <2>1 DEF DialogType, Operations
  <2>3. DialogOK(d) /\ ~Idling(d)
    BY <2>2, NothingDiffers DEF DialogOK, Idling
  <2>4. PICK T : T = [S EXCEPT !.dialog = d, !.result = {}]
    OBVIOUS
  <2>5. T \in CpType
    BY <2>2, <2>4 DEF CpType
  <2>6. /\ T.dialog = d /\ T.todo = S.todo /\ T.confirmed = S.confirmed /\ T.removed = S.removed
        /\ T.selected = S.selected /\ T.list = S.list /\ T.result = {}
    BY <2>4 DEF CpType
  <2>7. Confirmed(T)
    BY <2>2, <2>6 DEF Confirmed
  <2>8. ListsTold(T)
    BY <2>3, <2>6 DEF ListsTold
  <2>9. Reload(S) = T
    BY <1>3, <2>1, <2>4 DEF Reload, CpType
  <2> QED BY <2>3, <2>5, <2>6, <2>7, <2>8, <2>9 DEF CpInv
<1> QED BY <1>2, <1>3

\* A page without anything to do may begin a removal.
LEMMA RemovingAgrees ==
  ASSUME CpInv(cp), PageIdle, NEW operation \in { "remove", "removeAll" }, NEW targets \in SUBSET Credentials,
         NEW confirmed \in SUBSET Credentials, targets \subseteq confirmed, Removing(operation, targets, confirmed)
  PROVE  CpInv(cp')
<1>1. cp \in CpType /\ cp.dialog \in DialogType /\ DialogOK(cp.dialog) /\ Confirmed(cp) /\ ListsTold(cp)
  BY DEF CpInv, CpType
<1>2. cp.dialog.open /\ ~cp.dialog.warning /\ cp.dialog.busy = NoOperation
  BY Zenon DEF PageIdle
<1>3. PICK d : d = [cp.dialog EXCEPT !.active = TRUE, !.busy = operation]
  OBVIOUS
<1>4. d \in DialogType /\ d.busy = operation /\ d.active /\ d.open = cp.dialog.open /\ d.warning = cp.dialog.warning
  BY <1>1, <1>3 DEF DialogType, Operations
<1>5. DialogOK(d) /\ ~Idling(d)
  BY <1>2, <1>4, NothingDiffers DEF DialogOK, Idling
<1>6. cp' = [cp EXCEPT !.dialog = d, !.todo = targets, !.failed = {}, !.confirmed = cp.confirmed \cup confirmed]
  BY <1>1, <1>3 DEF Removing, CpIs, CpType
<1>7. cp' \in CpType
  BY <1>1, <1>4, <1>6 DEF CpType
<1>8. /\ cp'.dialog = d /\ cp'.todo = targets /\ cp'.confirmed = cp.confirmed \cup confirmed
      /\ cp'.removed = cp.removed /\ cp'.selected = cp.selected /\ cp'.list = cp.list /\ cp'.result = cp.result
  BY <1>1, <1>6 DEF CpType
<1>9. Confirmed(cp')
  BY <1>1, <1>4, <1>8 DEF Confirmed
<1>10. cp.result = {}
  BY <1>1, <1>2, NothingDiffers DEF ListsTold
<1>11. ListsTold(cp')
  BY <1>5, <1>8, <1>10 DEF ListsTold
<1> QED BY <1>5, <1>7, <1>8, <1>9, <1>11 DEF CpInv

\* Every operation of the credentials page keeps CpInv.
LEMMA CpSteps ==
  ASSUME CpInv(cp), CpNext
  PROVE  CpInv(cp')
<1>1. cp \in CpType /\ cp.dialog \in DialogType /\ DialogOK(cp.dialog) /\ Confirmed(cp) /\ ListsTold(cp)
  BY DEF CpInv, CpType
<1>2. ASSUME PageIdle
      PROVE  cp.dialog.open /\ ~cp.dialog.warning /\ cp.dialog.busy = NoOperation /\ ~cp.dialog.active /\ cp.result = {}
  <2>1. cp.dialog.open /\ ~cp.dialog.warning /\ cp.dialog.busy = NoOperation
    BY <1>2 DEF PageIdle
  <2>2. ~cp.dialog.active
    BY <1>1, <2>1, NothingDiffers DEF DialogOK
  <2>3. cp.result = {}
    BY <1>1, <2>1, NothingDiffers DEF ListsTold
  <2> QED BY <2>1, <2>2, <2>3
<1>3. CASE OpenDialog
  <2>1. PICK d : d = [ClosedDialog EXCEPT !.open = TRUE]
    OBVIOUS
  <2>2. DialogOK(d) /\ ~Idling(d) /\ d.active = FALSE /\ d \in DialogType
    BY <2>1, OpenedOK DEF DialogOK
  <2>3. ~cp.dialog.open
    BY <1>3 DEF OpenDialog
  <2>4. cp.todo = {} /\ cp.result = {}
    <3>1. cp.dialog.busy = NoOperation
      BY <1>1, <2>3 DEF DialogOK
    <3> QED BY <1>1, <3>1, NothingDiffers DEF DialogOK, Confirmed, ListsTold
  <2>5. cp' = [cp EXCEPT !.dialog = d, !.list = NoList, !.selected = {}, !.confirmed = {}, !.removed = {}, !.failed = {},
                         !.dialogs = cp.dialogs + 1]
    BY <1>3, <2>1 DEF OpenDialog, CpIs
  <2>6. PICK list \in ListType : list = NoList
    BY NoListTyped
  <2>7. PICK n \in Nat : n = cp.dialogs + 1
    BY <1>1 DEF CpType
  <2>8. cp' = [cp EXCEPT !.dialog = d, !.list = list, !.selected = {}, !.confirmed = {}, !.removed = {}, !.failed = {},
                         !.dialogs = n]
    BY <2>5, <2>6, <2>7
  <2>9. cp' \in CpType
    BY <1>1, <2>2, <2>8 DEF CpType
  <2>10. /\ cp'.dialog = d /\ cp'.todo = cp.todo /\ cp'.confirmed = {} /\ cp'.removed = {} /\ cp'.selected = {}
         /\ cp'.list = list /\ cp'.result = cp.result /\ cp'.items = cp.items /\ cp'.stale = cp.stale
    BY <1>1, <2>8 DEF CpType
  <2>11. Confirmed(cp')
    BY <2>4, <2>10 DEF Confirmed
  <2>12. ListsTold(cp')
    BY <2>2, <2>4, <2>10 DEF ListsTold
  <2> QED BY <2>2, <2>9, <2>10, <2>11, <2>12 DEF CpInv
<1>4. CASE ShowPage \/ Refresh
  <2>1. PageIdle /\ cp' = Reload(cp)
    BY <1>4 DEF ShowPage, Refresh, CpIs
  <2> QED BY <1>1, <1>2, <2>1, ReloadAgrees
<1>5. CASE ListRead
  <2>1. PICK list \in Lists : cp' = [cp EXCEPT !.result = { list }, !.stale = FALSE]
    BY <1>5, Zenon DEF ListRead, CpIs
  <2>2. cp.dialog.busy = "list"
    BY <1>5, Zenon DEF ListRead
  <2>3. list \in ListType
    BY <2>1 DEF Lists, ListType, With
  <2>4. cp' \in CpType
    BY <1>1, <2>1, <2>3 DEF CpType
  <2>5. /\ cp'.dialog = cp.dialog /\ cp'.todo = cp.todo /\ cp'.confirmed = cp.confirmed /\ cp'.removed = cp.removed
        /\ cp'.selected = cp.selected /\ cp'.list = cp.list /\ cp'.result = {list} /\ cp'.items = cp.items
    BY <1>1, <2>1 DEF CpType
  <2>6. Told(cp', list)
    <3>1. CASE list = [shown |-> With("stored"), error |-> IF With("damaged") = {} THEN "None" ELSE "CorruptData"]
      <4>1. list.shown = { c \in Credentials : cp.items[c] = "stored" }
        BY <3>1 DEF With
      <4>2. (\E c \in Credentials : cp.items[c] = "damaged") => list.error = "CorruptData"
        BY <3>1 DEF With
      <4> QED BY <2>5, <4>1, <4>2 DEF Told
    <3>2. CASE list \in [shown : {{}}, error : { "AccessDenied", "Unavailable" }]
      BY <3>2 DEF Told
    <3> QED BY <2>1, <3>1, <3>2 DEF Lists
  <2>7. Confirmed(cp')
    BY <1>1, <2>5 DEF Confirmed
  <2>8. ~Idling(cp'.dialog)
    BY <2>2, <2>5, NothingDiffers DEF Idling
  <2>9. ListsTold(cp')
    BY <2>2, <2>5, <2>6, <2>8 DEF ListsTold
  <2> QED BY <1>1, <2>4, <2>5, <2>7, <2>9 DEF CpInv
<1>6. CASE ListFinished
  <2>1. PICK list \in cp.result : cp' = ApplyListResult(cp, list)
    BY <1>6 DEF ListFinished, CpIs
  <2>2. ~cp.dialog.active
    BY <1>1, <1>6, NothingDiffers DEF ListFinished, DialogOK
  <2>3. list \in ListType /\ Told(cp, list)
    BY <1>1 DEF CpType, ListsTold
  <2> QED BY <1>1, <2>1, <2>2, <2>3, AppliedAgrees
<1>7. CASE SelectCredentials
  <2>1. PICK selected \in SUBSET cp.list.shown : cp' = [cp EXCEPT !.selected = selected]
    BY <1>7 DEF SelectCredentials, CpIs
  <2>2. cp.list.shown \in SUBSET Credentials
    BY <1>1 DEF CpType, ListType
  <2>3. cp' \in CpType
    BY <1>1, <2>1, <2>2 DEF CpType
  <2>4. /\ cp'.dialog = cp.dialog /\ cp'.todo = cp.todo /\ cp'.confirmed = cp.confirmed /\ cp'.removed = cp.removed
        /\ cp'.selected = selected /\ cp'.list = cp.list /\ cp'.result = cp.result /\ cp'.items = cp.items
        /\ cp'.stale = cp.stale
    BY <1>1, <2>1 DEF CpType
  <2>5. Confirmed(cp')
    BY <1>1, <2>1, <2>4 DEF Confirmed
  <2>6. ListsTold(cp')
    BY <1>1, <2>4 DEF ListsTold, Told
  <2> QED BY <1>1, <2>3, <2>4, <2>5, <2>6 DEF CpInv
<1>8. CASE RemoveSelected
  <2>1. PageIdle /\ Removing("remove", cp.selected, cp.selected)
    BY <1>8 DEF RemoveSelected
  <2>2. cp.selected \in SUBSET Credentials
    BY <1>1 DEF CpType
  <2> QED BY <2>1, <2>2, RemovingAgrees
<1>9. CASE RemoveAll
  <2>1. PageIdle /\ Removing("removeAll", Credentials \ With("none"), Credentials)
    BY <1>9 DEF RemoveAll
  <2>2. Credentials \ With("none") \subseteq Credentials
    OBVIOUS
  <2> QED BY <2>1, <2>2, RemovingAgrees
<1>10. CASE RemoveOne
  <2>1. PICK c \in cp.todo :
          \/ cp' = [cp EXCEPT !.todo = cp.todo \ {c}, !.items[c] = "none", !.removed = cp.removed \cup {c}]
          \/ cp' = [cp EXCEPT !.todo = cp.todo \ {c}, !.failed = cp.failed \cup {c}]
    BY <1>10, Zenon DEF RemoveOne, CpIs
  <2>2. c \in Credentials /\ c \in cp.confirmed /\ cp.dialog.active
    BY <1>1 DEF CpType, Confirmed
  <2>3. cp.dialog.busy \in { "remove", "removeAll" } /\ cp.result = {} /\ ~Idling(cp.dialog)
    BY <1>1, <2>2, NothingDiffers DEF DialogOK, ListsTold, Idling
  <2>4. CASE cp' = [cp EXCEPT !.todo = cp.todo \ {c}, !.items[c] = "none", !.removed = cp.removed \cup {c}]
    <3>1. cp' \in CpType
      BY <1>1, <2>2, <2>4 DEF CpType
    <3>2. /\ cp'.dialog = cp.dialog /\ cp'.todo = cp.todo \ {c} /\ cp'.confirmed = cp.confirmed
          /\ cp'.removed = cp.removed \cup {c} /\ cp'.selected = cp.selected /\ cp'.list = cp.list
          /\ cp'.result = cp.result
      BY <1>1, <2>4 DEF CpType
    <3>3. Confirmed(cp')
      BY <1>1, <2>2, <3>2 DEF Confirmed
    <3>4. ListsTold(cp')
      BY <2>3, <3>2 DEF ListsTold
    <3> QED BY <1>1, <3>1, <3>2, <3>3, <3>4 DEF CpInv
  <2>5. CASE cp' = [cp EXCEPT !.todo = cp.todo \ {c}, !.failed = cp.failed \cup {c}]
    <3>1. cp' \in CpType
      BY <1>1, <2>2, <2>5 DEF CpType
    <3>2. /\ cp'.dialog = cp.dialog /\ cp'.todo = cp.todo \ {c} /\ cp'.confirmed = cp.confirmed
          /\ cp'.removed = cp.removed /\ cp'.selected = cp.selected /\ cp'.list = cp.list
          /\ cp'.result = cp.result
      BY <1>1, <2>5 DEF CpType
    <3>3. Confirmed(cp')
      BY <1>1, <2>2, <3>2 DEF Confirmed
    <3>4. ListsTold(cp')
      BY <2>3, <3>2 DEF ListsTold
    <3> QED BY <1>1, <3>1, <3>2, <3>3, <3>4 DEF CpInv
  <2> QED BY <2>1, <2>4, <2>5
<1>11. CASE RemovalFinished
  <2>1. PICK d : d = [cp.dialog EXCEPT !.busy = NoOperation, !.active = FALSE]
    OBVIOUS
  <2>2. d \in DialogType /\ d.busy = NoOperation /\ ~d.active /\ d.open = cp.dialog.open
    BY <1>1, <2>1 DEF DialogType, Operations
  <2>3. cp.dialog.open
    BY <1>1, <1>11, NothingDiffers DEF DialogOK, RemovalFinished
  <2>4. DialogOK(d)
    BY <2>2, <2>3, NothingDiffers DEF DialogOK
  <2>5. PICK S : S = [cp EXCEPT !.dialog = d]
    OBVIOUS
  <2>6. cp.todo = {} /\ cp.dialog.busy \in { "remove", "removeAll" }
    BY <1>11 DEF RemovalFinished
  <2>7. cp.result = {}
    BY <1>1, <2>6 DEF ListsTold
  <2>8. cp' = RemovalOver(S)
    BY <1>1, <1>11, <2>1, <2>5 DEF RemovalFinished, CpIs, CpType
  <2>9. S \in CpType
    BY <1>1, <2>2, <2>5 DEF CpType
  <2>10. /\ S.dialog = d /\ S.todo = cp.todo /\ S.confirmed = cp.confirmed /\ S.removed = cp.removed
        /\ S.selected = cp.selected /\ S.list = cp.list /\ S.result = cp.result
    BY <1>1, <2>5 DEF CpType
  <2>11. Confirmed(S)
    BY <1>1, <2>6, <2>10 DEF Confirmed
  <2>12. CASE S.failed = {}
    <3>1. cp' = Reload(S)
      BY <2>8, <2>12 DEF RemovalOver
    <3> QED BY <2>2, <2>4, <2>9, <2>10, <2>11, <2>3, <3>1, ReloadAgrees
  <2>13. CASE S.failed # {}
    <3>1. PICK e : e = [d EXCEPT !.warning = TRUE]
      OBVIOUS
    <3>2. e \in DialogType /\ e.busy = d.busy /\ e.active = d.active /\ e.warning /\ e.open = d.open
      BY <2>2, <3>1 DEF DialogType
    <3>3. cp' = [S EXCEPT !.dialog = e]
      BY <2>8, <2>9, <2>10, <2>13, <3>1 DEF RemovalOver, CpType
    <3>4. cp' \in CpType
      BY <2>9, <3>2, <3>3 DEF CpType
    <3>5. /\ cp'.dialog = e /\ cp'.todo = S.todo /\ cp'.confirmed = S.confirmed /\ cp'.removed = S.removed
          /\ cp'.selected = S.selected /\ cp'.list = S.list /\ cp'.result = S.result
      BY <2>9, <3>3 DEF CpType
    <3>6. DialogOK(e) /\ ~Idling(e)
      BY <2>2, <2>3, <3>2, NothingDiffers DEF DialogOK, Idling
    <3>7. Confirmed(cp')
      BY <2>6, <2>10, <2>11, <3>5 DEF Confirmed
    <3>8. ListsTold(cp')
      BY <2>7, <2>10, <3>5, <3>6 DEF ListsTold
    <3> QED BY <3>4, <3>5, <3>6, <3>7, <3>8 DEF CpInv
  <2> QED BY <2>12, <2>13
<1>12. CASE CloseWarning
  <2>1. PICK d : d = [cp.dialog EXCEPT !.warning = FALSE]
    OBVIOUS
  <2>2. ~cp.dialog.active /\ cp.dialog.open
    BY <1>1, <1>12 DEF CloseWarning, DialogOK
  <2>3. d \in DialogType /\ d.busy = cp.dialog.busy /\ d.active = cp.dialog.active /\ d.open = cp.dialog.open
        /\ ~d.warning
    BY <1>1, <2>1 DEF DialogType
  <2>4. DialogOK(d) /\ ~d.active /\ d.open
    BY <1>1, <2>2, <2>3 DEF DialogOK
  <2>5. PICK S : S = [cp EXCEPT !.dialog = d]
    OBVIOUS
  <2>6. cp' = Reload(S)
    BY <1>1, <1>12, <2>1, <2>5 DEF CloseWarning, CpIs, CpType
  <2>7. S \in CpType
    BY <1>1, <2>3, <2>5 DEF CpType
  <2>8. /\ S.dialog = d /\ S.todo = cp.todo /\ S.confirmed = cp.confirmed /\ S.removed = cp.removed
        /\ S.selected = cp.selected /\ S.list = cp.list
    BY <1>1, <2>5 DEF CpType
  <2>9. Confirmed(S)
    BY <1>1, <2>2, <2>8 DEF Confirmed
  <2> QED BY <2>4, <2>6, <2>7, <2>8, <2>9, ReloadAgrees
<1>13. CASE CloseDialog
  <2>1. ~cp.dialog.active
    BY <1>13 DEF CloseDialog, MayClose
  <2>2. PICK d : d = [cp.dialog EXCEPT !.open = FALSE, !.busy = IF cp.dialog.busy = "list" THEN NoOperation ELSE cp.dialog.busy]
    OBVIOUS
  <2>3. d.busy \in Operations /\ d.open = FALSE /\ d.active = cp.dialog.active /\ d \in DialogType
        /\ d.warning = cp.dialog.warning /\ d.busy = IF cp.dialog.busy = "list" THEN NoOperation ELSE cp.dialog.busy
    BY <1>1, <2>2 DEF DialogType, Operations
  <2>4. DialogOK(d) /\ ~Idling(d) /\ ~d.active
    <3>1. d.busy = NoOperation
      BY <1>1, <2>1, <2>3 DEF DialogOK, DialogType, Operations
    <3>2. ~d.warning
      BY <1>13, <2>3 DEF CloseDialog
    <3> QED BY <2>1, <2>3, <3>1, <3>2, NothingDiffers DEF DialogOK, Idling
  <2>5. cp' = [cp EXCEPT !.dialog = d, !.result = {}]
    BY <1>1, <1>13, <2>2 DEF CloseDialog, CpIs, CpType
  <2>6. cp' \in CpType
    BY <1>1, <2>3, <2>5 DEF CpType
  <2>7. /\ cp'.dialog = d /\ cp'.todo = cp.todo /\ cp'.confirmed = cp.confirmed /\ cp'.removed = cp.removed
        /\ cp'.selected = cp.selected /\ cp'.list = cp.list /\ cp'.result = {}
    BY <1>1, <2>5 DEF CpType
  <2>8. Confirmed(cp')
    BY <1>1, <2>1, <2>7 DEF Confirmed
  <2>9. ListsTold(cp')
    BY <2>4, <2>7 DEF ListsTold
  <2> QED BY <2>4, <2>6, <2>7, <2>8, <2>9 DEF CpInv
<1>14. CASE SignIn
  <2>1. PICK c \in Credentials : cp' = [cp EXCEPT !.items[c] = "stored", !.stale = TRUE, !.signIns = cp.signIns + 1]
    BY <1>14, Zenon DEF SignIn, CpIs
  <2>2. PICK items : items = [cp.items EXCEPT ![c] = "stored"]
    OBVIOUS
  <2>3. items \in [Credentials -> { "none", "stored", "damaged" }]
    BY <1>1, <2>2 DEF CpType
  <2>4. PICK n \in Nat : n = cp.signIns + 1
    BY <1>1 DEF CpType
  <2>5. cp' = [cp EXCEPT !.items = items, !.stale = TRUE, !.signIns = n]
    BY <2>1, <2>2, <2>4
  <2>6. cp' \in CpType
    BY <1>1, <2>3, <2>5 DEF CpType
  <2>7. /\ cp'.dialog = cp.dialog /\ cp'.todo = cp.todo /\ cp'.confirmed = cp.confirmed /\ cp'.removed = cp.removed
        /\ cp'.selected = cp.selected /\ cp'.list = cp.list /\ cp'.result = cp.result /\ cp'.stale
    BY <1>1, <2>5 DEF CpType
  <2>8. Confirmed(cp')
    BY <1>1, <2>7 DEF Confirmed
  <2>9. ListsTold(cp')
    BY <1>1, <2>7 DEF ListsTold, Told
  <2> QED BY <1>1, <2>6, <2>7, <2>8, <2>9 DEF CpInv
<1> QED BY <1>3, <1>4, <1>5, <1>6, <1>7, <1>8, <1>9, <1>10, <1>11, <1>12, <1>13, <1>14 DEF CpNext

LEMMA CpStarts ==
  ASSUME CpInit
  PROVE  CpInv(cp)
<1>1. PICK items \in [Credentials -> { "none", "stored", "damaged" }], store \in BOOLEAN :
        cp = [dialog |-> ClosedDialog, list |-> NoList, selected |-> {}, store |-> store, items |-> items,
              todo |-> {}, failed |-> {}, result |-> {}, confirmed |-> {}, removed |-> {}, stale |-> FALSE,
              signIns |-> 0, dialogs |-> 0]
  BY DEF CpInit
<1>2. PICK d : d = ClosedDialog
  OBVIOUS
<1>3. d.open = FALSE /\ d.busy = NoOperation /\ d.active = FALSE /\ d.warning = FALSE /\ d \in DialogType
  BY <1>2 DEF ClosedDialog, DialogType, Operations
<1>4. DialogOK(d) /\ ~Idling(d)
  BY <1>3, NothingDiffers DEF DialogOK, Idling
<1>5. cp \in CpType
  BY <1>1, <1>2, <1>3, NoListTyped DEF CpType
<1>6. cp.dialog = d /\ cp.todo = {} /\ cp.removed = {} /\ cp.selected = {} /\ cp.result = {}
  BY <1>1, <1>2
<1>7. Confirmed(cp) /\ ListsTold(cp)
  BY <1>4, <1>6 DEF Confirmed, ListsTold
<1> QED BY <1>4, <1>5, <1>6, <1>7 DEF CpInv

\* What the page promises of removals and lists.
LEMMA CpAgrees ==
  ASSUME CpInv(cp)
  PROVE  CredentialsAgree
<1>1. DialogOK(cp.dialog) /\ Confirmed(cp) /\ ListsTold(cp)
  BY DEF CpInv
<1>2. cp.todo # {} => cp.dialog.open /\ cp.dialog.active
  BY <1>1, NothingDiffers DEF DialogOK, Confirmed
<1>3. ASSUME PageIdle, cp.dialog.loaded, ~cp.stale, cp.list.error \in { "None", "CorruptData" }
      PROVE  cp.list.shown = With("stored") /\ (With("damaged") # {} => CanRemoveAll)
  <2>1. Told(cp, cp.list)
    BY <1>1, <1>3 DEF ListsTold, Idling, PageIdle
  <2> QED BY <1>3, <2>1 DEF Told, With, CanRemoveAll
<1> QED BY <1>1, <1>2, <1>3, Zenon DEF CredentialsAgree, Confirmed

----------------------------------------------------------------------------
(***************************************************************************)
(* History.  A database is the sets of its visits with the pages counted   *)
(* over them: what every statement makes of one is one again.              *)
(***************************************************************************)
Visit == [id : Nat, page : Addresses, at : Times, typed : BOOLEAN]

VisitSets == { V \in SUBSET Visit : IsFiniteSet(V) /\ \A u, v \in V : u.id = v.id => u = v }

Among(V, page) == { v \in V : v.page = page }

CountOf(V, page) ==
  [page |-> page, count |-> Cardinality(Among(V, page)),
   typed |-> Cardinality({ v \in Among(V, page) : v.typed }), last |-> Max({ v.at : v \in Among(V, page) })]

Tables(V) == [visits |-> V, pages |-> { CountOf(V, v.page) : v \in V }]

\* A set of numbers that is finite is bounded.
LEMMA FiniteIsBounded ==
  ASSUME NEW S \in SUBSET Nat, IsFiniteSet(S)
  PROVE  \E b \in Nat : \A n \in S : n <= b
<1>1. PICK n \in Nat : ExistsSurjection(1 .. n, S)
  BY FS_NatSurjection
<1>2. PICK f \in Surjection(1 .. n, S) : TRUE
  BY <1>1 DEF ExistsSurjection
<1>3. f \in [1 .. n -> S] /\ \A s \in S : \E i \in 1 .. n : f[i] = s
  BY <1>2 DEF Surjection
<1>4. \A i \in 1 .. n : f[i] \in Nat
  BY <1>3
<1> DEFINE Unbounded == { k \in 0 .. n : ~ \E b \in Nat : \A i \in 1 .. k : f[i] <= b }
<1>5. Unbounded \subseteq 0 .. n /\ Unbounded \subseteq Nat
  <2>1. Unbounded \subseteq 0 .. n
    BY Zenon
  <2>2. 0 .. n \subseteq Nat
    OBVIOUS
  <2> QED BY <2>1, <2>2, Zenon
<1>6. \A k \in 0 .. n : k \notin Unbounded <=> \E b \in Nat : \A i \in 1 .. k : f[i] <= b
  OBVIOUS
<1> HIDE DEF Unbounded
<1>7. n \notin Unbounded
  <2>1. SUFFICES ASSUME Unbounded # {} PROVE FALSE
    BY <1>5
  <2>2. PICK k \in Unbounded : \A j \in Unbounded : k <= j
    BY <1>5, <2>1, LeastNumber
  <2>3. k \in 0 .. n
    BY <1>5
  <2>4. k # 0
    <3>1. \A i \in 1 .. 0 : f[i] <= 0
      OBVIOUS
    <3> QED BY <1>6, <2>2, <2>3, <3>1
  <2>5. k - 1 \in 0 .. n /\ ~ (k <= k - 1)
    BY <2>3, <2>4
  <2>6. k - 1 \notin Unbounded
    BY <2>2, <2>5
  <2>7. PICK b \in Nat : \A i \in 1 .. (k - 1) : f[i] <= b
    BY <1>6, <2>5, <2>6
  <2>8. f[k] \in Nat
    BY <1>4, <2>3, <2>4
  <2>9. PICK c \in Nat : c >= b /\ c >= f[k]
    BY <2>7, <2>8
  <2>10. ASSUME NEW i \in 1 .. k PROVE f[i] <= c
    <3>1. i = k \/ i \in 1 .. (k - 1)
      BY <2>3
    <3>2. f[i] \in Nat
      BY <1>4, <2>3
    <3> QED BY <2>7, <2>8, <2>9, <3>1, <3>2
  <2> QED BY <1>6, <2>2, <2>3, <2>10
<1>8. PICK b \in Nat : \A i \in 1 .. n : f[i] <= b
  BY <1>6, <1>7
<1>9. ASSUME NEW s \in S PROVE s <= b
  BY <1>3, <1>8
<1> QED BY <1>9

\* The largest of finitely many numbers.
LEMMA LargestOfFinite ==
  ASSUME NEW S \in SUBSET Nat, S # {}, IsFiniteSet(S)
  PROVE  Max(S) \in S /\ \A n \in S : n <= Max(S)
<1>1. PICK b \in Nat : \A n \in S : n <= b
  BY FiniteIsBounded
<1> QED BY <1>1, LargestOfBounded

\* An element that bounds a set is what Max finds.
LEMMA MaxIs ==
  ASSUME NEW S \in SUBSET Nat, NEW m \in S, \A n \in S : n <= m
  PROVE  Max(S) = m
<1>1. S # {} /\ m \in Nat
  OBVIOUS
<1>2. Max(S) \in S /\ \A n \in S : n <= Max(S)
  BY <1>1, LargestOfBounded
<1>3. Max(S) <= m /\ m <= Max(S) /\ Max(S) \in Nat
  BY <1>2
<1> QED BY <1>1, <1>3

\* The times of finitely many visits.
LEMMA TimesFinite ==
  ASSUME NEW V \in SUBSET Visit, IsFiniteSet(V)
  PROVE  { v.at : v \in V } \in SUBSET Nat /\ IsFiniteSet({ v.at : v \in V })
<1>1. { v.at : v \in V } \in SUBSET Nat
  BY HistoryAssumption DEF Visit
<1>2. [v \in V |-> v.at] \in Surjection(V, { v.at : v \in V })
  BY DEF Surjection
<1> QED BY <1>1, <1>2, FS_Surjection

\* The aggregate of the visits of a page is what the tables hold for it.
LEMMA AggregateCounts ==
  ASSUME NEW db, NEW page
  PROVE  Aggregate(db, page) = CountOf(db.visits, page)
BY DEF Aggregate, CountOf, VisitsOf, Among

\* What is removed with its counts rebuilt leaves the visits that remain with theirs.
LEMMA RemovedCounts ==
  ASSUME NEW V, NEW gone \in SUBSET V
  PROVE  WithoutVisits(Tables(V), gone) = Tables(V \ gone)
<1>1. PICK W : W = V \ gone
  BY Zenon
<1>2. PICK touched : touched = { v.page : v \in gone }
  OBVIOUS
<1>3. PICK counts : counts = { CountOf(V, v.page) : v \in V }
  OBVIOUS
<1>4. PICK db : db = [visits |-> W, pages |-> counts]
  OBVIOUS
<1>5. WithoutVisits(Tables(V), gone) = Rebuilt(db, touched)
  <2>1. Tables(V) = [visits |-> V, pages |-> counts]
    BY <1>3, Zenon DEF Tables
  <2>2. [Tables(V) EXCEPT !.visits = @ \ gone] = db
    BY <1>1, <1>4, <2>1
  <2> QED BY <1>2, <2>2, Zenon DEF WithoutVisits
<1>6. PICK pages :
        pages = { r \in db.pages : r.page \notin touched }
                  \cup { Aggregate(db, p) : p \in { q \in touched : VisitsOf(db, q) # {} } }
  OBVIOUS
<1>7. Rebuilt(db, touched) = [visits |-> W, pages |-> pages]
  <2>1. Rebuilt(db, touched) = [db EXCEPT !.pages = pages]
    BY <1>6, Zenon DEF Rebuilt
  <2> QED BY <1>4, <2>1
<1>8. \A p : VisitsOf(db, p) = Among(W, p) /\ Aggregate(db, p) = CountOf(W, p)
  BY <1>4, AggregateCounts DEF VisitsOf, Among
<1>9. ASSUME NEW p, p \notin touched PROVE CountOf(W, p) = CountOf(V, p)
  <2>1. Among(W, p) = Among(V, p)
    BY <1>1, <1>2, <1>9 DEF Among
  <2> QED BY <2>1 DEF CountOf
<1>10. \A p, X : CountOf(X, p).page = p
  BY DEF CountOf
<1>11. ASSUME NEW r \in pages PROVE r \in { CountOf(W, v.page) : v \in W }
  <2>1. CASE r \in counts /\ r.page \notin touched
    <3>1. PICK v \in V : r = CountOf(V, v.page)
      BY <1>3, <2>1
    <3>2. v.page \notin touched /\ r = CountOf(W, v.page)
      BY <1>9, <1>10, <2>1, <3>1
    <3>3. v \in W
      BY <1>1, <1>2, <3>2
    <3> QED BY <3>2, <3>3
  <2>2. CASE r \in { Aggregate(db, p) : p \in { q \in touched : VisitsOf(db, q) # {} } }
    <3>1. PICK p \in touched : Among(W, p) # {} /\ r = CountOf(W, p)
      BY <1>8, <2>2
    <3>2. PICK v \in W : v.page = p
      BY <3>1 DEF Among
    <3> QED BY <3>1, <3>2
  <2> QED BY <1>4, <1>6, <2>1, <2>2
<1>12. ASSUME NEW v \in W PROVE CountOf(W, v.page) \in pages
  <2>1. CASE v.page \in touched
    <3>1. VisitsOf(db, v.page) # {} /\ CountOf(W, v.page) = Aggregate(db, v.page)
      BY <1>8 DEF Among
    <3> QED BY <1>6, <2>1, <3>1
  <2>2. CASE v.page \notin touched
    <3>1. CountOf(W, v.page) = CountOf(V, v.page) /\ v \in V
      BY <1>1, <1>9, <2>2
    <3>2. CountOf(W, v.page) \in counts
      BY <1>3, <3>1
    <3> QED BY <1>4, <1>6, <1>10, <2>2, <3>2
  <2> QED BY <2>1, <2>2
<1>13. pages = { CountOf(W, v.page) : v \in W }
  BY <1>11, <1>12
<1> QED BY <1>1, <1>5, <1>7, <1>13, Zenon DEF Tables

\* The counts of the page that is visited.
LEMMA VisitCounts ==
  ASSUME NEW V \in SUBSET Visit, IsFiniteSet(V), NEW x \in Visit, x \notin V, NEW one,
         one = IF x.typed THEN 1 ELSE 0
  PROVE  /\ Among(V, x.page) = {} =>
              CountOf(V \cup {x}, x.page) = [page |-> x.page, count |-> 1, typed |-> one, last |-> x.at]
         /\ Among(V, x.page) # {} =>
              CountOf(V \cup {x}, x.page) =
                [page |-> x.page, count |-> CountOf(V, x.page).count + 1, typed |-> CountOf(V, x.page).typed + one,
                 last |-> Max({ CountOf(V, x.page).last, x.at })]
<1>1. PICK A : A = Among(V, x.page)
  OBVIOUS
<1>2. PICK B : B = A \cup {x}
  OBVIOUS
<1>3. Among(V \cup {x}, x.page) = B
  BY <1>1, <1>2 DEF Among
<1>4. A \in SUBSET V /\ IsFiniteSet(A) /\ x \notin A
  BY <1>1, FS_Subset DEF Among
<1>5. Cardinality(A) \in Nat /\ Cardinality(B) = Cardinality(A) + 1
  BY <1>2, <1>4, FS_AddElement, FS_CardinalityType
<1>6. PICK T : T = { v \in A : v.typed }
  OBVIOUS
<1>7. IsFiniteSet(T) /\ x \notin T /\ Cardinality(T) \in Nat
  BY <1>4, <1>6, FS_Subset, FS_CardinalityType
<1>8. Cardinality({ v \in B : v.typed }) = Cardinality(T) + one
  <2>1. CASE x.typed
    <3>1. { v \in B : v.typed } = T \cup {x}
      BY <1>2, <1>6, <2>1
    <3> QED BY <1>7, <2>1, <3>1, FS_AddElement
  <2>2. CASE ~x.typed
    <3>1. ASSUME NEW v PROVE v \in { w \in B : w.typed } <=> v \in T
      <4>1. v \in B <=> v \in A \/ v = x
        BY <1>2
      <4> QED BY <1>6, <2>2, <4>1, Zenon
    <3>2. { v \in B : v.typed } = T
      BY <3>1, Zenon
    <3>3. one = 0
      BY <2>2, Zenon
    <3>4. Cardinality(T) + one = Cardinality(T)
      BY <1>7, <3>3
    <3> QED BY <3>2, <3>4, Zenon
  <2> QED BY <2>1, <2>2
<1>9. PICK times : times = { v.at : v \in A }
  OBVIOUS
<1>10. { v.at : v \in B } = times \cup { x.at }
  BY <1>2, <1>9
<1>11. x.at \in Nat /\ times \in SUBSET Nat /\ IsFiniteSet(times)
  BY <1>4, <1>9, HistoryAssumption, TimesFinite DEF Visit
<1>12. CountOf(V \cup {x}, x.page) =
         [page |-> x.page, count |-> Cardinality(A) + 1, typed |-> Cardinality(T) + one, last |-> Max(times \cup { x.at })]
  BY <1>3, <1>5, <1>8, <1>10 DEF CountOf
<1>13. CASE A = {}
  <2>1. T = {} /\ times = {} /\ Cardinality(A) = 0 /\ Cardinality(T) = 0
    BY <1>6, <1>9, <1>13, FS_EmptySet
  <2>2. Max(times \cup { x.at }) = x.at
    <3>1. times \cup { x.at } \in SUBSET Nat /\ x.at \in times \cup { x.at } /\ \A n \in times \cup { x.at } : n <= x.at
      BY <1>11, <2>1
    <3> QED BY <3>1, MaxIs
  <2>3. 0 + 1 = 1 /\ 0 + one = one
    OBVIOUS
  <2> QED BY <1>1, <1>12, <1>13, <2>1, <2>2, <2>3
<1>14. CASE A # {}
  <2>1. times # {}
    BY <1>9, <1>14
  <2>2. PICK m : m = Max(times)
    OBVIOUS
  <2>3. m \in times /\ m \in Nat /\ \A n \in times : n <= m
    BY <1>11, <2>1, <2>2, LargestOfFinite
  <2>4. PICK top \in { m, x.at } : top >= m /\ top >= x.at
    BY <1>11, <2>3
  <2>5. Max({ m, x.at }) = top
    <3>1. { m, x.at } \in SUBSET Nat /\ \A n \in { m, x.at } : n <= top
      BY <1>11, <2>3, <2>4
    <3> QED BY <2>4, <3>1, MaxIs
  <2>6. Max(times \cup { x.at }) = top
    <3>1. times \cup { x.at } \in SUBSET Nat
      BY <1>11
    <3>2. top \in times \cup { x.at } /\ top \in Nat
      BY <1>11, <2>3, <2>4
    <3>3. ASSUME NEW n \in times \cup { x.at } PROVE n <= top
      <4>1. n \in Nat /\ m \in Nat /\ x.at \in Nat
        BY <1>11, <2>3
      <4>2. n <= m \/ n = x.at
        BY <2>3
      <4> QED BY <2>4, <3>2, <4>1, <4>2
    <3> QED BY <3>1, <3>2, <3>3, MaxIs
  <2>7. CountOf(V, x.page).count = Cardinality(A) /\ CountOf(V, x.page).typed = Cardinality(T)
        /\ CountOf(V, x.page).last = m
    BY <1>1, <1>6, <1>9, <2>2 DEF CountOf
  <2> QED BY <1>1, <1>12, <1>14, <2>5, <2>6, <2>7
<1> QED BY <1>13, <1>14

\* Upserting a page counts one visit more.
LEMMA VisitedCounts ==
  ASSUME NEW V \in SUBSET Visit, IsFiniteSet(V), NEW x \in Visit, x \notin V
  PROVE  [visits |-> V \cup {x}, pages |-> Upserted(Tables(V).pages, x.page, x.typed, x.at)] = Tables(V \cup {x})
<1>1. PICK counts : counts = { CountOf(V, v.page) : v \in V }
  OBVIOUS
<1>2. Tables(V).pages = counts
  BY <1>1 DEF Tables
<1>3. PICK one : one = IF x.typed THEN 1 ELSE 0
  OBVIOUS
<1>4. PICK old : old = { r \in counts : r.page = x.page }
  OBVIOUS
<1>5. PICK new :
        new = IF old = {} THEN { [page |-> x.page, count |-> 1, typed |-> one, last |-> x.at] }
              ELSE { [page |-> x.page, count |-> r.count + 1, typed |-> r.typed + one,
                      last |-> Max({ r.last, x.at })] : r \in old }
  OBVIOUS
<1>6. Upserted(counts, x.page, x.typed, x.at) = (counts \ old) \cup new
  BY <1>3, <1>4, <1>5, Zenon DEF Upserted
<1>7. \A p, X : CountOf(X, p).page = p
  BY DEF CountOf
<1>8. new = { CountOf(V \cup {x}, x.page) }
  <2>1. CASE Among(V, x.page) = {}
    <3>1. old = {}
      <4>1. SUFFICES ASSUME NEW r \in counts, r.page = x.page PROVE FALSE
        BY <1>4
      <4>2. PICK v \in V : r = CountOf(V, v.page)
        BY <1>1
      <4>3. v.page = x.page
        BY <1>7, <4>1, <4>2
      <4> QED BY <2>1, <4>3 DEF Among
    <3> QED BY <1>3, <1>5, <2>1, <3>1, VisitCounts
  <2>2. CASE Among(V, x.page) # {}
    <3>1. PICK c : c = CountOf(V, x.page)
      OBVIOUS
    <3>2. PICK v \in V : v.page = x.page
      BY <2>2 DEF Among
    <3>3. c \in counts
      BY <1>1, <3>1, <3>2
    <3>4. old = { c }
      <4>1. ASSUME NEW r \in counts, r.page = x.page PROVE r = c
        <5>1. PICK u \in V : r = CountOf(V, u.page)
          BY <1>1
        <5>2. u.page = x.page
          BY <1>7, <4>1, <5>1
        <5> QED BY <3>1, <5>1, <5>2
      <4>2. c.page = x.page
        BY <1>7, <3>1
      <4> QED BY <1>4, <3>3, <4>1, <4>2
    <3>5. new = { [page |-> x.page, count |-> c.count + 1, typed |-> c.typed + one, last |-> Max({ c.last, x.at })] }
      BY <1>5, <3>4
    <3>6. CountOf(V \cup {x}, x.page) =
            [page |-> x.page, count |-> c.count + 1, typed |-> c.typed + one, last |-> Max({ c.last, x.at })]
      BY <1>3, <2>2, <3>1, VisitCounts
    <3> QED BY <3>5, <3>6
  <2> QED BY <2>1, <2>2
<1>9. ASSUME NEW p, p # x.page PROVE CountOf(V \cup {x}, p) = CountOf(V, p)
  <2>1. Among(V \cup {x}, p) = Among(V, p)
    BY <1>9 DEF Among
  <2> QED BY <2>1 DEF CountOf
<1>10. PICK W : W = V \cup {x}
  OBVIOUS
<1>11. ASSUME NEW r \in (counts \ old) \cup new PROVE r \in { CountOf(W, v.page) : v \in W }
  <2>1. CASE r \in counts \ old
    <3>1. PICK v \in V : r = CountOf(V, v.page)
      BY <1>1, <2>1
    <3>2. v.page # x.page
      BY <1>4, <1>7, <2>1, <3>1
    <3> QED BY <1>9, <1>10, <3>1, <3>2
  <2>2. CASE r \in new
    BY <1>8, <1>10, <2>2
  <2> QED BY <2>1, <2>2
<1>12. ASSUME NEW v \in W PROVE CountOf(W, v.page) \in (counts \ old) \cup new
  <2>1. CASE v.page = x.page
    BY <1>8, <1>10, <2>1
  <2>2. CASE v.page # x.page
    <3>1. v \in V /\ CountOf(W, v.page) = CountOf(V, v.page)
      BY <1>9, <1>10, <2>2
    <3>2. CountOf(W, v.page) \in counts \ old
      BY <1>1, <1>4, <1>7, <2>2, <3>1
    <3> QED BY <3>2
  <2> QED BY <2>1, <2>2
<1>13. (counts \ old) \cup new = { CountOf(W, v.page) : v \in W }
  BY <1>11, <1>12
<1> QED BY <1>2, <1>6, <1>10, <1>13, Zenon DEF Tables

\* The next id is above all that are there, and the next one after the bound of them or less.
LEMMA NextIsAbove ==
  ASSUME NEW V \in VisitSets, NEW n \in Nat, \A v \in V : v.id \in 1 .. n
  PROVE  NextRow(Tables(V)) \in 1 .. n + 1 /\ \A v \in V : v.id < NextRow(Tables(V))
<1>1. Tables(V).visits = V
  BY DEF Tables
<1>2. CASE V = {}
  <2>1. NextRow(Tables(V)) = 1
    BY <1>1, <1>2 DEF NextRow
  <2> QED BY <1>2, <2>1
<1>3. CASE V # {}
  <2>1. PICK ids : ids = { v.id : v \in V }
    OBVIOUS
  <2>2. ids \in SUBSET Nat /\ ids # {} /\ \A i \in ids : i \in 1 .. n
    BY <1>3, <2>1
  <2>3. \A i \in ids : i <= n
    BY <2>2
  <2>4. Max(ids) \in ids /\ \A i \in ids : i <= Max(ids)
    BY <2>2, <2>3, LargestOfBounded
  <2>5. NextRow(Tables(V)) = 1 + Max(ids)
    BY <1>1, <1>3, <2>1 DEF NextRow
  <2>6. Max(ids) \in 1 .. n
    BY <2>2, <2>4
  <2>7. \A v \in V : v.id \in ids
    BY <2>1
  <2>8. ASSUME NEW v \in V PROVE v.id < NextRow(Tables(V))
    <3>1. v.id \in 1 .. n /\ v.id <= Max(ids)
      BY <2>2, <2>4, <2>7
    <3> QED BY <2>5, <2>6, <3>1
  <2> QED BY <2>5, <2>6, <2>8
<1> QED BY <1>2, <1>3

\* A cleanup leaves no more than the bound.
Elder(V, v) == { u \in V : Older(u, v) }

\* Visits have different numbers of elders, so that a limit keeps as many as it says.
LEMMA EldersCounted ==
  ASSUME NEW V \in VisitSets, NEW v \in V
  PROVE  /\ Cardinality(Elder(V, v)) \in 0 .. Cardinality(V) - 1
         /\ \A u \in V \ {v} : Cardinality(Elder(V, u)) # Cardinality(Elder(V, v))
<1>1. IsFiniteSet(V) /\ V \subseteq Visit /\ \A a, b \in V : a.id = b.id => a = b
  BY DEF VisitSets
<1>2. \A a \in V : a.at \in Nat /\ a.id \in Nat
  BY <1>1, HistoryAssumption DEF Visit
<1>3. ASSUME NEW a \in V PROVE Elder(V, a) \in SUBSET V /\ a \notin Elder(V, a)
  BY <1>2 DEF Elder, Older
<1>4. ASSUME NEW a \in V, NEW b \in V, Older(a, b)
      PROVE  Cardinality(Elder(V, a)) < Cardinality(Elder(V, b))
  <2>1. Elder(V, a) \in SUBSET Elder(V, b)
    <3>1. ASSUME NEW c \in V, Older(c, a) PROVE Older(c, b)
      BY <1>2, <1>4, <3>1 DEF Older
    <3> QED BY <3>1 DEF Elder
  <2>2. a \in Elder(V, b) \ Elder(V, a)
    BY <1>3, <1>4 DEF Elder
  <2>3. IsFiniteSet(Elder(V, b))
    BY <1>1, <1>3, FS_Subset
  <2>4. Cardinality(Elder(V, a)) <= Cardinality(Elder(V, b)) /\ Cardinality(Elder(V, a)) # Cardinality(Elder(V, b))
    BY <2>1, <2>2, <2>3, FS_Subset
  <2>5. Cardinality(Elder(V, a)) \in Nat /\ Cardinality(Elder(V, b)) \in Nat
    BY <2>1, <2>3, FS_Subset, FS_CardinalityType
  <2> QED BY <2>4, <2>5
<1>5. ASSUME NEW u \in V \ {v} PROVE Cardinality(Elder(V, u)) # Cardinality(Elder(V, v))
  <2>1. Older(u, v) \/ Older(v, u)
    BY <1>1, <1>2 DEF Older
  <2>2. Cardinality(Elder(V, u)) \in Nat /\ Cardinality(Elder(V, v)) \in Nat
    BY <1>1, <1>3, FS_Subset, FS_CardinalityType
  <2> QED BY <1>4, <2>1, <2>2
<1>6. Cardinality(Elder(V, v)) \in 0 .. Cardinality(V) - 1
  <2>1. PICK E \in SUBSET V : E = Elder(V, v) /\ v \notin E
    BY <1>3
  <2>2. IsFiniteSet(E) /\ Cardinality(E) <= Cardinality(V) /\ Cardinality(E) # Cardinality(V)
    BY <1>1, <2>1, FS_Subset
  <2>3. Cardinality(E) \in Nat /\ Cardinality(V) \in Nat
    BY <1>1, <2>2, FS_CardinalityType
  <2> QED BY <2>1, <2>2, <2>3
<1> QED BY <1>5, <1>6

\* Pruning leaves the tables of fewer visits, and only when there were too many.
LEMMA PrunedFits ==
  ASSUME NEW V \in VisitSets
  PROVE  \E W \in SUBSET V :
           /\ Pruned(Tables(V)) = Tables(W)
           /\ Cardinality(V) <= MaximumVisits + PruneSlack => W = V
           /\ Cardinality(W) <= MaximumVisits + PruneSlack
<1>1. Tables(V).visits = V /\ IsFiniteSet(V)
  BY DEF Tables, VisitSets
<1>2. Cardinality(V) \in Nat /\ MaximumVisits \in Nat /\ PruneSlack \in Nat
  BY <1>1, HistoryAssumption, FS_CardinalityType
<1>3. CASE Cardinality(V) <= MaximumVisits + PruneSlack
  BY <1>1, <1>3 DEF Pruned
<1>4. CASE ~ (Cardinality(V) <= MaximumVisits + PruneSlack)
  <2>1. PICK n \in Nat : n = Cardinality(V) - MaximumVisits
    BY <1>2, <1>4
  <2>2. PICK gone : gone = Oldest(Tables(V), n)
    OBVIOUS
  <2>3. gone = { v \in V : Cardinality(Elder(V, v)) < n }
    BY <1>1, <2>2, Zenon DEF Oldest, Elder
  <2>4. Pruned(Tables(V)) = Tables(V \ gone)
    <3>1. Pruned(Tables(V)) = WithoutVisits(Tables(V), gone)
      BY <1>1, <1>4, <2>1, <2>2 DEF Pruned
    <3> QED BY <2>3, <3>1, RemovedCounts
  <2>5. PICK W \in SUBSET V : W = V \ gone
    OBVIOUS
  <2>6. \A v \in W : Cardinality(Elder(V, v)) \in n .. Cardinality(V) - 1
    <3>1. ASSUME NEW v \in W PROVE Cardinality(Elder(V, v)) \in n .. Cardinality(V) - 1
      <4>1. v \in V /\ ~ (Cardinality(Elder(V, v)) < n)
        BY <2>3, <2>5
      <4>2. Cardinality(Elder(V, v)) \in 0 .. Cardinality(V) - 1
        BY <4>1, EldersCounted
      <4> QED BY <1>2, <2>1, <4>1, <4>2
    <3> QED BY <3>1
  <2>7. PICK f : f = [v \in W |-> Cardinality(Elder(V, v))]
    OBVIOUS
  <2>8. f \in Injection(W, n .. Cardinality(V) - 1)
    <3>1. f \in [W -> n .. Cardinality(V) - 1]
      BY <2>6, <2>7
    <3>2. ASSUME NEW u \in W, NEW v \in W, f[u] = f[v] PROVE u = v
      BY <2>5, <2>7, <3>2, EldersCounted
    <3> QED BY <3>1, <3>2 DEF Injection, IsInjective
  <2>9. IsFiniteSet(n .. Cardinality(V) - 1) /\ Cardinality(n .. Cardinality(V) - 1) = MaximumVisits
    <3>1. PICK c \in Int : c = Cardinality(V) - 1
      BY <1>2
    <3>2. IsFiniteSet(n .. c) /\ Cardinality(n .. c) = IF n > c THEN 0 ELSE c - n + 1
      BY FS_Interval
    <3>3. Cardinality(n .. c) = MaximumVisits
      BY <1>2, <1>4, <2>1, <3>1, <3>2
    <3> QED BY <3>1, <3>2, <3>3
  <2>10. Cardinality(W) <= MaximumVisits
    BY <2>8, <2>9, FS_Injection
  <2>11. Cardinality(W) \in Nat
    BY <1>1, <2>5, FS_Subset, FS_CardinalityType
  <2> QED BY <1>2, <1>4, <2>4, <2>5, <2>10, <2>11
<1> QED BY <1>3, <1>4

\* A state of the history: the visits the connection sees, those on disk and those listed.
HsState(view, disk, open, listed, overdue, recorded) ==
  [view |-> Tables(view), disk |-> Tables(disk), inTransaction |-> open, listed |-> listed, overdue |-> overdue,
   recorded |-> recorded]

\* No id above the number of visits recorded; without a transaction what is seen is on disk, and what
\* is listed is below the next id; and the bound, by which a cleanup goes.
HsFits(view, disk, open, listed, overdue, recorded) ==
  /\ \A v \in view \cup disk \cup listed : v.id \in 1 .. recorded
  /\ ~open => view = disk /\ \A v \in listed : v.id < NextRow(Tables(view))
  /\ \A l \in listed, v \in view : l.id = v.id => l = v
  /\ ~overdue => /\ Cardinality(disk) <= MaximumVisits + PruneSlack
                 /\ Cardinality(view) <= MaximumVisits + PruneSlack + 1

HsInv(S) ==
  \E view \in VisitSets, disk \in VisitSets, open \in BOOLEAN, listed \in SUBSET Visit, overdue \in BOOLEAN, recorded \in Nat :
    S = HsState(view, disk, open, listed, overdue, recorded) /\ HsFits(view, disk, open, listed, overdue, recorded)

LEMMA TablesSeen ==
  ASSUME NEW V
  PROVE  Tables(V).visits = V
BY DEF Tables

\* What is listed is what is there.
LEMMA ListedFits ==
  ASSUME NEW view \in VisitSets, NEW disk \in VisitSets, NEW open \in BOOLEAN, NEW overdue \in BOOLEAN,
         NEW recorded \in Nat,
         \A v \in view \cup disk : v.id \in 1 .. recorded,
         ~open => view = disk,
         ~overdue => /\ Cardinality(disk) <= MaximumVisits + PruneSlack
                     /\ Cardinality(view) <= MaximumVisits + PruneSlack + 1
  PROVE  HsInv(HsState(view, disk, open, view, overdue, recorded))
<1>1. view \in SUBSET Visit /\ \A u, v \in view : u.id = v.id => u = v
  BY DEF VisitSets
<1>2. \A v \in view : v.id < NextRow(Tables(view))
  BY NextIsAbove
<1>3. HsFits(view, disk, open, view, overdue, recorded)
  BY <1>1, <1>2 DEF HsFits
<1> QED BY <1>1, <1>3, Zenon DEF HsInv

\* What remains of the visits.
LEMMA SubsetKept ==
  ASSUME NEW V \in VisitSets, NEW W \in SUBSET V
  PROVE  W \in VisitSets /\ Cardinality(W) \in Nat /\ Cardinality(V) \in Nat /\ Cardinality(W) <= Cardinality(V)
<1>1. IsFiniteSet(V) /\ V \in SUBSET Visit /\ \A u, v \in V : u.id = v.id => u = v
  BY DEF VisitSets
<1>2. IsFiniteSet(W) /\ Cardinality(W) <= Cardinality(V)
  BY <1>1, FS_Subset
<1>3. W \in VisitSets
  BY <1>1, <1>2 DEF VisitSets
<1> QED BY <1>1, <1>2, <1>3, FS_CardinalityType

\* A visit with the next id.
LEMMA OneMoreKept ==
  ASSUME NEW V \in VisitSets, NEW x \in Visit, \A v \in V : v.id # x.id
  PROVE  /\ V \cup {x} \in VisitSets /\ x \notin V
         /\ Cardinality(V) \in Nat /\ Cardinality(V \cup {x}) = Cardinality(V) + 1
<1>1. IsFiniteSet(V) /\ V \in SUBSET Visit /\ \A u, v \in V : u.id = v.id => u = v
  BY DEF VisitSets
<1>2. x \notin V
  OBVIOUS
<1>3. IsFiniteSet(V \cup {x}) /\ Cardinality(V \cup {x}) = Cardinality(V) + 1
  BY <1>1, <1>2, FS_AddElement
<1>4. V \cup {x} \in SUBSET Visit
  BY <1>1
<1>5. \A u, v \in V \cup {x} : u.id = v.id => u = v
  BY <1>1
<1>6. V \cup {x} \in VisitSets
  BY <1>3, <1>4, <1>5 DEF VisitSets
<1> QED BY <1>1, <1>2, <1>3, <1>6, FS_CardinalityType

LEMMA TablesDiffer ==
  ASSUME NEW V, NEW W, Tables(V) = Tables(W)
  PROVE  V = W
BY TablesSeen

\* What is made of a state by a commit.
LEMMA CommitsOf ==
  ASSUME NEW view, NEW disk, NEW open, NEW listed, NEW overdue, NEW recorded, NEW after,
         NEW S \in Commits(HsState(view, disk, open, listed, overdue, recorded), Tables(after))
  PROVE  \/ S = HsState(after, after, open, listed, overdue, recorded)
         \/ S = HsState(after, disk, TRUE, listed, overdue, recorded)
         \/ S = HsState(view, disk, open, listed, overdue, recorded)
<1>1. PICK V : V = Tables(view)
  OBVIOUS
<1>2. PICK D : D = Tables(disk)
  OBVIOUS
<1>3. PICK A : A = Tables(after)
  OBVIOUS
<1>4. PICK R : R = HsState(view, disk, open, listed, overdue, recorded)
  OBVIOUS
<1>5. R = [view |-> V, disk |-> D, inTransaction |-> open, listed |-> listed, overdue |-> overdue, recorded |-> recorded]
  BY <1>1, <1>2, <1>4, Zenon DEF HsState
<1>6. \/ S = [R EXCEPT !.view = A, !.disk = A]
      \/ S = [R EXCEPT !.view = A, !.inTransaction = TRUE]
      \/ S = R
  BY <1>3, <1>4, Zenon DEF Commits
<1>7. CASE S = [R EXCEPT !.view = A, !.disk = A]
  <2>1. S = [view |-> A, disk |-> A, inTransaction |-> open, listed |-> listed, overdue |-> overdue, recorded |-> recorded]
    BY <1>5, <1>7
  <2> QED BY <1>3, <2>1, Zenon DEF HsState
<1>8. CASE S = [R EXCEPT !.view = A, !.inTransaction = TRUE]
  <2>1. S = [view |-> A, disk |-> D, inTransaction |-> TRUE, listed |-> listed, overdue |-> overdue, recorded |-> recorded]
    BY <1>5, <1>8
  <2> QED BY <1>2, <1>3, <2>1, Zenon DEF HsState
<1> QED BY <1>4, <1>6, <1>7, <1>8

\* A state of the store is made of two sets of visits and what its ghosts say.
LEMMA StateFields ==
  ASSUME NEW view, NEW disk, NEW open, NEW listed, NEW overdue, NEW recorded
  PROVE  /\ HsState(view, disk, open, listed, overdue, recorded).view = Tables(view)
         /\ HsState(view, disk, open, listed, overdue, recorded).disk = Tables(disk)
         /\ HsState(view, disk, open, listed, overdue, recorded).inTransaction = open
         /\ HsState(view, disk, open, listed, overdue, recorded).listed = listed
         /\ HsState(view, disk, open, listed, overdue, recorded).overdue = overdue
         /\ HsState(view, disk, open, listed, overdue, recorded).recorded = recorded
BY DEF HsState

LEMMA Relisted ==
  ASSUME NEW view, NEW disk, NEW open, NEW listed, NEW overdue, NEW recorded
  PROVE  HistoryChanged(HsState(view, disk, open, listed, overdue, recorded)) =
           HsState(view, disk, open, view, overdue, recorded)
<1>1. PICK V : V = Tables(view) /\ V.visits = view
  BY TablesSeen
<1>2. PICK D : D = Tables(disk)
  OBVIOUS
<1>3. PICK S :
        S = [view |-> V, disk |-> D, inTransaction |-> open, listed |-> listed, overdue |-> overdue, recorded |-> recorded]
  OBVIOUS
<1>4. S.view.visits = view
  BY <1>1, <1>3
<1>5. PICK T : T = [S EXCEPT !.listed = view]
  BY Zenon
<1>6. T = [view |-> V, disk |-> D, inTransaction |-> open, listed |-> view, overdue |-> overdue, recorded |-> recorded]
  BY <1>3, <1>5
<1> QED BY <1>1, <1>2, <1>3, <1>4, <1>5, <1>6, Zenon DEF HsState, HistoryChanged

LEMMA Otherwise ==
  ASSUME NEW view, NEW disk, NEW open, NEW listed, NEW overdue, NEW recorded, NEW late, NEW count
  PROVE  /\ [HsState(view, disk, open, listed, overdue, recorded) EXCEPT !.overdue = late] =
              HsState(view, disk, open, listed, late, recorded)
         /\ [HsState(view, disk, open, listed, overdue, recorded) EXCEPT !.recorded = count] =
              HsState(view, disk, open, listed, overdue, count)
<1>1. PICK V : V = Tables(view)
  OBVIOUS
<1>2. PICK D : D = Tables(disk)
  OBVIOUS
<1>3. PICK S :
        S = [view |-> V, disk |-> D, inTransaction |-> open, listed |-> listed, overdue |-> overdue, recorded |-> recorded]
  OBVIOUS
<1>4. [S EXCEPT !.overdue = late] =
        [view |-> V, disk |-> D, inTransaction |-> open, listed |-> listed, overdue |-> late, recorded |-> recorded]
  BY <1>3
<1>5. [S EXCEPT !.recorded = count] =
        [view |-> V, disk |-> D, inTransaction |-> open, listed |-> listed, overdue |-> overdue, recorded |-> count]
  BY <1>3
<1> QED BY <1>1, <1>2, <1>3, <1>4, <1>5, Zenon DEF HsState

\* A program that starts has what is on disk.
AsStarted(S, no, none) == [S EXCEPT !.view = S.disk, !.inTransaction = no, !.listed = none]

LEMMA Restarted ==
  ASSUME NEW view, NEW disk, NEW open, NEW listed, NEW overdue, NEW recorded, NEW no, NEW none
  PROVE  AsStarted(HsState(view, disk, open, listed, overdue, recorded), no, none) =
           HsState(disk, disk, no, none, overdue, recorded)
<1>1. PICK V : V = Tables(view)
  OBVIOUS
<1>2. PICK D : D = Tables(disk)
  OBVIOUS
<1>3. PICK S :
        S = [view |-> V, disk |-> D, inTransaction |-> open, listed |-> listed, overdue |-> overdue, recorded |-> recorded]
  OBVIOUS
<1>4. S.disk = D
  BY <1>3
<1>5. PICK T : T = [S EXCEPT !.view = D, !.inTransaction = no, !.listed = none]
  OBVIOUS
<1>6. T = [view |-> D, disk |-> D, inTransaction |-> no, listed |-> none, overdue |-> overdue, recorded |-> recorded]
  <2>1. PICK U : U = [S EXCEPT !.view = D]
    BY Zenon
  <2>2. U = [view |-> D, disk |-> D, inTransaction |-> open, listed |-> listed, overdue |-> overdue, recorded |-> recorded]
    BY <1>3, <2>1
  <2>3. T = [U EXCEPT !.inTransaction = no, !.listed = none]
    BY <1>5, <2>1, Zenon
  <2> QED BY <2>2, <2>3
<1> QED BY <1>1, <1>2, <1>3, <1>4, <1>5, <1>6, Zenon DEF HsState, AsStarted

\* A statement of its own.
LEMMA ExecutesIs ==
  ASSUME NEW view, NEW disk, NEW open, NEW listed, NEW overdue, NEW recorded, NEW after
  PROVE  Executes(HsState(view, disk, open, listed, overdue, recorded), Tables(after)) =
           HsState(after, IF open THEN disk ELSE after, open, listed, overdue, recorded)
<1>1. PICK V : V = Tables(view)
  OBVIOUS
<1>2. PICK D : D = Tables(disk)
  OBVIOUS
<1>3. PICK A : A = Tables(after)
  OBVIOUS
<1>4. PICK S :
        S = [view |-> V, disk |-> D, inTransaction |-> open, listed |-> listed, overdue |-> overdue, recorded |-> recorded]
  OBVIOUS
<1>5. PICK X : X = IF open THEN D ELSE A
  OBVIOUS
<1>6. PICK T : T = [S EXCEPT !.view = A, !.disk = X]
  OBVIOUS
<1>7. T = [view |-> A, disk |-> X, inTransaction |-> open, listed |-> listed, overdue |-> overdue, recorded |-> recorded]
  BY <1>4, <1>6
<1>8. S.inTransaction = open /\ S.disk = D
  BY <1>4
<1>9. Executes(S, A) = T
  <2>1. Executes(S, A) = [S EXCEPT !.view = A, !.disk = IF S.inTransaction THEN S.disk ELSE A]
    BY Zenon DEF Executes
  <2> QED BY <1>5, <1>6, <1>8, <2>1, Zenon
<1>10. X = Tables(IF open THEN disk ELSE after)
  BY <1>2, <1>3, <1>5, Zenon
<1> QED BY <1>1, <1>2, <1>3, <1>4, <1>7, <1>9, <1>10, Zenon DEF HsState

\* What may come of a visit that is inserted.
Outcome(R, db) ==
  \E S \in Commits(R, db) :
    IF S.disk # db THEN HsIs(S)
    ELSE \/ HsIs(HistoryChanged([Executes(S, Pruned(db)) EXCEPT
                                   !.overdue = @ /\ Cardinality(db.visits) <= MaximumVisits + PruneSlack]))
         \/ /\ Pruned(db) # db
            /\ \E T \in Commits(S, Pruned(db)) : T.disk = db /\ HsIs([T EXCEPT !.overdue = TRUE])

\* A visit is recorded, and the cleanup after it.
LEMMA RecordsFit ==
  ASSUME HsInv(hs), RecordVisit
  PROVE  HsInv(hs')
<1>1. PICK view \in VisitSets, disk \in VisitSets, open \in BOOLEAN, listed \in SUBSET Visit, overdue \in BOOLEAN, recorded \in Nat :
        hs = HsState(view, disk, open, listed, overdue, recorded) /\ HsFits(view, disk, open, listed, overdue, recorded)
  BY Zenon DEF HsInv
<1>2. hs.view = Tables(view) /\ hs.inTransaction = open /\ hs.view.visits = view /\ hs.recorded = recorded
      /\ hs.view.pages = Tables(view).pages
  BY <1>1, StateFields, TablesSeen
<1>3. ~open /\ disk = view
  BY <1>1, <1>2, Zenon DEF RecordVisit, HsFits
<1>4. PICK page \in Addresses, typed \in BOOLEAN, at \in Times :
        Outcome([hs EXCEPT !.recorded = @ + 1],
                [visits |-> hs.view.visits \cup { [id |-> NextRow(hs.view), page |-> page, at |-> at, typed |-> typed] },
                 pages |-> Upserted(hs.view.pages, page, typed, at)])
  BY Zenon DEF RecordVisit, Outcome
<1>5. PICK visit : visit = [id |-> NextRow(hs.view), page |-> page, at |-> at, typed |-> typed]
  OBVIOUS
<1>6. PICK db : db = [visits |-> hs.view.visits \cup {visit}, pages |-> Upserted(hs.view.pages, page, typed, at)]
  OBVIOUS
<1>7. PICK R : R = [hs EXCEPT !.recorded = @ + 1]
  OBVIOUS
<1>8. Outcome(R, db)
  BY <1>4, <1>5, <1>6, <1>7, Zenon
<1>9. PICK n \in Nat : n = recorded + 1
  OBVIOUS
<1>10. \A v \in view : v.id \in 1 .. recorded
  BY <1>1 DEF HsFits
<1>11. visit.id \in 1 .. n /\ \A v \in view : v.id < visit.id
  BY <1>2, <1>5, <1>9, <1>10, NextIsAbove
<1>12. visit \in Visit /\ visit.page = page /\ visit.typed = typed /\ visit.at = at
  <2>1. NextRow(hs.view) \in Nat
    BY <1>11, <1>5
  <2>2. visit \in Visit
    BY <1>5, <2>1 DEF Visit
  <2> QED BY <1>5, <2>2
<1>13. \A v \in view : v.id # visit.id
  <2>1. ASSUME NEW v \in view PROVE v.id # visit.id
    <3>1. v.id \in Nat /\ visit.id \in Nat /\ v.id < visit.id
      BY <1>10, <1>11
    <3> QED BY <3>1
  <2> QED BY <2>1
<1>14. PICK W : W = view \cup {visit}
  OBVIOUS
<1>15. W \in VisitSets /\ visit \notin view /\ Cardinality(view) \in Nat /\ Cardinality(W) = Cardinality(view) + 1
  BY <1>12, <1>13, <1>14, OneMoreKept
<1>16. db = Tables(W)
  <2>1. view \in SUBSET Visit /\ IsFiniteSet(view)
    BY DEF VisitSets
  <2>2. [visits |-> view \cup {visit}, pages |-> Upserted(Tables(view).pages, visit.page, visit.typed, visit.at)] =
          Tables(view \cup {visit})
    BY <1>12, <1>15, <2>1, VisitedCounts
  <2> QED BY <1>2, <1>12, <1>14, <1>6, <2>2
<1>17. R = HsState(view, view, open, listed, overdue, n)
  BY <1>1, <1>2, <1>3, <1>9, <1>7, Otherwise
<1>18. W # view /\ Tables(view) # db /\ db.visits = W
  <2>1. W # view
    BY <1>14, <1>15
  <2> QED BY <1>16, <2>1, TablesDiffer, TablesSeen
<1>19. \A v \in view \cup W \cup listed : v.id \in 1 .. n
  BY <1>1, <1>9, <1>11, <1>14 DEF HsFits
<1>20. NextRow(Tables(view)) \in Nat /\ \A l \in listed : l.id < visit.id
  BY <1>1, <1>2, <1>3, <1>11, <1>5 DEF HsFits
<1>21. NextRow(Tables(W)) \in Nat /\ visit.id < NextRow(Tables(W))
  BY <1>9, <1>14, <1>15, <1>19, NextIsAbove
<1>22. \A l \in listed : l.id < NextRow(Tables(W))
  <2>1. ASSUME NEW l \in listed PROVE l.id < NextRow(Tables(W))
    <3>1. l.id \in Nat /\ visit.id \in Nat /\ l.id < visit.id
      BY <1>11, <1>19, <1>20
    <3> QED BY <1>21, <3>1
  <2> QED BY <2>1
<1>23. \A l \in listed, v \in W : l.id = v.id => l = v
  <2>1. ASSUME NEW l \in listed, NEW v \in W, l.id = v.id PROVE l = v
    <3>1. l.id \in Nat /\ visit.id \in Nat /\ l.id < visit.id
      BY <1>11, <1>19, <1>20
    <3>2. v \in view
      BY <1>14, <2>1, <3>1
    <3> QED BY <1>1, <2>1, <3>2 DEF HsFits
  <2> QED BY <2>1
<1>24. ~overdue => Cardinality(view) <= MaximumVisits + PruneSlack
  BY <1>1, <1>3 DEF HsFits
<1>25. Cardinality(view) \in Nat /\ MaximumVisits \in Nat /\ PruneSlack \in Nat
  BY <1>15, HistoryAssumption
<1>26. PICK P \in SUBSET W :
         /\ Pruned(db) = Tables(P)
         /\ Cardinality(W) <= MaximumVisits + PruneSlack => P = W
         /\ Cardinality(P) <= MaximumVisits + PruneSlack
  BY <1>15, <1>16, PrunedFits
<1>27. P \in VisitSets /\ Cardinality(P) \in Nat
  BY <1>15, SubsetKept
<1>28. PICK S \in Commits(R, db) :
             IF S.disk # db THEN HsIs(S)
             ELSE \/ HsIs(HistoryChanged([Executes(S, Pruned(db)) EXCEPT
                                            !.overdue = @ /\ Cardinality(db.visits) <= MaximumVisits + PruneSlack]))
                  \/ /\ Pruned(db) # db
                     /\ \E T \in Commits(S, Pruned(db)) :
                          T.disk = db /\ HsIs([T EXCEPT !.overdue = TRUE])
  BY <1>8, Zenon DEF Outcome
<1>29. \/ S = HsState(W, W, open, listed, overdue, n)
       \/ S = HsState(W, view, TRUE, listed, overdue, n)
       \/ S = HsState(view, view, open, listed, overdue, n)
  BY <1>16, <1>17, <1>28, CommitsOf
<1>30. CASE S = HsState(W, view, TRUE, listed, overdue, n)
  <2>1. hs' = S
    <3>1. S.disk # db
      <4>1. HsState(W, view, TRUE, listed, overdue, n).disk = Tables(view)
        BY DEF HsState
      <4> QED BY <1>18, <1>30, <4>1
    <3> QED BY <1>28, <3>1, Zenon DEF HsIs
  <2>2. ~overdue => Cardinality(view) <= MaximumVisits + PruneSlack /\ Cardinality(W) <= MaximumVisits + PruneSlack + 1
    BY <1>15, <1>24, <1>25
  <2>3. HsFits(W, view, TRUE, listed, overdue, n)
    BY <1>19, <1>23, <2>2 DEF HsFits
  <2> QED BY <1>15, <1>30, <2>1, <2>3, Zenon DEF HsInv
<1>31. CASE S = HsState(view, view, open, listed, overdue, n)
  <2>1. hs' = S
    <3>1. S.disk # db
      BY <1>18, <1>31, StateFields
    <3> QED BY <1>28, <3>1, Zenon DEF HsIs
  <2>2. ~overdue => Cardinality(view) <= MaximumVisits + PruneSlack /\ Cardinality(view) <= MaximumVisits + PruneSlack + 1
    BY <1>24, <1>25
  <2>3. HsFits(view, view, open, listed, overdue, n)
    BY <1>1, <1>19, <2>2 DEF HsFits
  <2> QED BY <1>31, <2>1, <2>3, Zenon DEF HsInv
<1>32. CASE S = HsState(W, W, open, listed, overdue, n)
  <2>1. S.disk = db
    BY <1>16, <1>32, StateFields
  <2>2. CASE HsIs(HistoryChanged([Executes(S, Pruned(db)) EXCEPT
                                   !.overdue = @ /\ Cardinality(db.visits) <= MaximumVisits + PruneSlack]))
    <3>1. PICK E : E = Executes(S, Pruned(db))
      OBVIOUS
    <3>2. E = HsState(P, P, open, listed, overdue, n)
      <4>1. E = HsState(P, IF open THEN W ELSE P, open, listed, overdue, n)
        BY <1>26, <1>32, <3>1, ExecutesIs
      <4> QED BY <1>3, <4>1
    <3>3. PICK late \in BOOLEAN : late <=> E.overdue /\ Cardinality(db.visits) <= MaximumVisits + PruneSlack
      OBVIOUS
    <3>4. PICK F : F = [E EXCEPT !.overdue = late]
      OBVIOUS
    <3>5. F = HsState(P, P, open, listed, late, n)
      BY <3>2, <3>4, Otherwise
    <3>6. hs' = HistoryChanged(F)
      BY <2>2, <3>1, <3>3, <3>4, Zenon DEF HsIs
    <3>7. hs' = HsState(P, P, open, P, late, n)
      BY <3>5, <3>6, Relisted
    <3>8. \A v \in P \cup P : v.id \in 1 .. n
      BY <1>19
    <3>9. ~late => Cardinality(P) <= MaximumVisits + PruneSlack /\ Cardinality(P) <= MaximumVisits + PruneSlack + 1
      BY <1>25, <1>26, <1>27
    <3> QED BY <1>27, <3>7, <3>8, <3>9, ListedFits
  <2>3. CASE Pruned(db) # db /\ \E T \in Commits(S, Pruned(db)) : T.disk = db /\ HsIs([T EXCEPT !.overdue = TRUE])
    <3>1. PICK T \in Commits(S, Tables(P)) : T.disk = db /\ hs' = [T EXCEPT !.overdue = TRUE]
      BY <1>26, <2>3, Zenon DEF HsIs
    <3>2. \/ T = HsState(P, P, open, listed, overdue, n)
          \/ T = HsState(P, W, TRUE, listed, overdue, n)
          \/ T = HsState(W, W, open, listed, overdue, n)
      BY <1>32, <3>1, CommitsOf
    <3>3. CASE T = HsState(P, P, open, listed, overdue, n)
      <4>1. T.disk = Pruned(db)
        BY <1>26, <3>3, StateFields
      <4> QED BY <2>3, <3>1, <4>1
    <3>4. CASE T = HsState(P, W, TRUE, listed, overdue, n)
      <4>1. hs' = HsState(P, W, TRUE, listed, TRUE, n)
        <5>1. \A begun, late : [HsState(P, W, begun, listed, overdue, n) EXCEPT !.overdue = late] =
                                HsState(P, W, begun, listed, late, n)
          BY Otherwise
        <5> QED BY <3>1, <3>4, <5>1, Zenon
      <4>2. HsFits(P, W, TRUE, listed, TRUE, n)
        BY <1>19, <1>23 DEF HsFits
      <4> QED BY <1>15, <1>27, <4>1, <4>2, Zenon DEF HsInv
    <3>5. CASE T = HsState(W, W, open, listed, overdue, n)
      <4>1. hs' = HsState(W, W, open, listed, TRUE, n)
        <5>1. \A late : [HsState(W, W, open, listed, overdue, n) EXCEPT !.overdue = late] =
                         HsState(W, W, open, listed, late, n)
          BY Otherwise
        <5> QED BY <3>1, <3>5, <5>1, Zenon
      <4>2. HsFits(W, W, open, listed, TRUE, n)
        BY <1>19, <1>22, <1>23 DEF HsFits
      <4> QED BY <1>15, <4>1, <4>2, Zenon DEF HsInv
    <3> QED BY <3>2, <3>3, <3>4, <3>5
  <2> QED BY <1>28, <2>1, <2>2, <2>3, Zenon
<1> QED BY <1>29, <1>30, <1>31, <1>32

LEMMA EmptyTablesKept == {} \in VisitSets /\ EmptyTables = Tables({}) /\ Cardinality({}) = 0
<1>1. IsFiniteSet({}) /\ Cardinality({}) = 0
  BY FS_EmptySet
<1>2. {} \in VisitSets
  BY <1>1 DEF VisitSets
<1>3. { CountOf({}, v.page) : v \in {} } = {}
  OBVIOUS
<1> QED BY <1>1, <1>2, <1>3, Zenon DEF EmptyTables, Tables

\* Every operation on history keeps HsInv.
LEMMA HsSteps ==
  ASSUME HsInv(hs), HsNext
  PROVE  HsInv(hs')
<1>1. PICK view \in VisitSets, disk \in VisitSets, open \in BOOLEAN, listed \in SUBSET Visit, overdue \in BOOLEAN, recorded \in Nat :
        hs = HsState(view, disk, open, listed, overdue, recorded) /\ HsFits(view, disk, open, listed, overdue, recorded)
  BY Zenon DEF HsInv
<1>2. hs.view = Tables(view) /\ hs.disk = Tables(disk) /\ hs.inTransaction = open /\ hs.view.visits = view
      /\ hs.listed = listed
  BY <1>1, StateFields, TablesSeen
<1>3. \A v \in view \cup disk : v.id \in 1 .. recorded
  BY <1>1 DEF HsFits
<1>4. ~open => view = disk
  BY <1>1, Zenon DEF HsFits
<1>5. ~overdue => /\ Cardinality(disk) <= MaximumVisits + PruneSlack
                  /\ Cardinality(view) <= MaximumVisits + PruneSlack + 1
  BY <1>1, Zenon DEF HsFits
<1>6. Cardinality(view) \in Nat /\ Cardinality(disk) \in Nat /\ MaximumVisits \in Nat /\ PruneSlack \in Nat
  BY SubsetKept, HistoryAssumption
<1>7. CASE RecordVisit
  BY <1>7, RecordsFit
<1>8. CASE RemoveVisits
  <2>1. PICK selected, db : /\ db = WithoutVisits(hs.view, { v \in hs.view.visits : v.id \in selected })
                            /\ \E S \in Commits(hs, db) : HsIs(IF S.disk = db THEN HistoryChanged(S) ELSE S)
    BY <1>8, Zenon DEF RemoveVisits
  <2>2. ~open /\ disk = view
    BY <1>2, <1>4, <1>8, Zenon DEF RemoveVisits
  <2>3. PICK W \in SUBSET view : db = Tables(W)
    <3>1. PICK gone \in SUBSET view : gone = { v \in hs.view.visits : v.id \in selected }
      BY <1>2
    <3>2. db = WithoutVisits(Tables(view), gone)
      BY <1>2, <2>1, <3>1
    <3>3. db = Tables(view \ gone) /\ view \ gone \in SUBSET view
      BY <3>2, RemovedCounts
    <3> QED BY <3>3, Zenon
  <2>4. W \in VisitSets /\ Cardinality(W) \in Nat /\ Cardinality(W) <= Cardinality(view)
    BY <2>3, SubsetKept
  <2>5. PICK S \in Commits(hs, db) : hs' = IF S.disk = db THEN HistoryChanged(S) ELSE S
    BY <2>1, Zenon DEF HsIs
  <2>6. \/ S = HsState(W, W, open, listed, overdue, recorded)
        \/ S = HsState(W, view, TRUE, listed, overdue, recorded)
        \/ S = HsState(view, view, open, listed, overdue, recorded)
    BY <1>1, <2>2, <2>3, <2>5, CommitsOf
  <2>7. \A v \in W \cup view : v.id \in 1 .. recorded
    BY <1>3, <2>3
  <2>8. ~overdue => /\ Cardinality(W) <= MaximumVisits + PruneSlack
                    /\ Cardinality(W) <= MaximumVisits + PruneSlack + 1
                    /\ Cardinality(view) <= MaximumVisits + PruneSlack
    BY <1>5, <1>6, <2>2, <2>4
  <2>9. CASE S = HsState(W, W, open, listed, overdue, recorded)
    <3>1. HistoryChanged(S) = HsState(W, W, open, W, overdue, recorded) /\ S.disk = db
      BY <2>3, <2>9, Relisted, StateFields
    <3>2. hs' = HsState(W, W, open, W, overdue, recorded)
      BY <2>5, <3>1, Zenon
    <3> QED BY <2>4, <2>7, <2>8, <3>2, ListedFits
  <2>10. CASE S = HsState(W, view, TRUE, listed, overdue, recorded)
    <3>1. CASE S.disk = db
      <4>1. hs' = HsState(W, view, TRUE, W, overdue, recorded)
        <5>1. \A begun : HistoryChanged(HsState(W, view, begun, listed, overdue, recorded)) =
                            HsState(W, view, begun, W, overdue, recorded)
          BY Relisted
        <5> QED BY <2>5, <2>10, <3>1, <5>1, Zenon
      <4>2. W \in VisitSets /\ view \in VisitSets /\ TRUE \in BOOLEAN
        BY <2>4
      <4> QED BY <2>7, <2>8, <4>1, <4>2, ListedFits
    <3>2. CASE S.disk # db
      <4>1. hs' = HsState(W, view, TRUE, listed, overdue, recorded)
        BY <2>5, <2>10, <3>2, Zenon
      <4>2. \A v \in W \cup view \cup listed : v.id \in 1 .. recorded
        BY <1>1, <2>3 DEF HsFits
      <4>3. \A l \in listed, v \in W : l.id = v.id => l = v
        BY <1>1, <2>3 DEF HsFits
      <4>4. HsFits(W, view, TRUE, listed, overdue, recorded)
        BY <2>8, <4>2, <4>3 DEF HsFits
      <4> QED BY <2>4, <4>1, <4>4, Zenon DEF HsInv
    <3> QED BY <3>1, <3>2
  <2>11. CASE S = HsState(view, view, open, listed, overdue, recorded)
    <3>1. CASE S.disk = db
      <4>1. hs' = HsState(view, view, open, view, overdue, recorded)
        BY <2>5, <2>11, <3>1, Relisted
      <4> QED BY <1>5, <2>2, <2>7, <4>1, ListedFits
    <3>2. CASE S.disk # db
      <4>1. hs' = hs
        BY <1>1, <2>2, <2>5, <2>11, <3>2, Zenon
      <4> QED BY <4>1
    <3> QED BY <3>1, <3>2
  <2> QED BY <2>6, <2>9, <2>10, <2>11
<1>9. CASE ClearHistory
  <2>1. PICK E : E = Executes(hs, EmptyTables)
    OBVIOUS
  <2>2. PICK left : left = IF open THEN disk ELSE {}
    OBVIOUS
  <2>3. E = HsState({}, left, open, listed, overdue, recorded)
    BY <1>1, <2>1, <2>2, EmptyTablesKept, ExecutesIs
  <2>4. PICK late \in BOOLEAN : late <=> E.overdue /\ hs.inTransaction
    OBVIOUS
  <2>5. PICK F : F = [E EXCEPT !.overdue = late]
    OBVIOUS
  <2>6. hs' = HistoryChanged(F)
    <3>1. hs' = HistoryChanged([E EXCEPT !.overdue = E.overdue /\ hs.inTransaction])
      BY <1>9, <2>1, Zenon DEF ClearHistory, HsIs, Cleared
    <3> QED BY <2>4, <2>5, <3>1, Zenon
  <2>7. F = HsState({}, left, open, listed, late, recorded)
    BY <2>3, <2>5, Otherwise
  <2>8. hs' = HsState({}, left, open, {}, late, recorded)
    BY <2>6, <2>7, Relisted
  <2>9. left \in VisitSets /\ {} \in VisitSets /\ (~open => {} = left)
    BY <2>2, EmptyTablesKept
  <2>10. \A v \in {} \cup left : v.id \in 1 .. recorded
    BY <1>3, <2>2
  <2>11. ~late => /\ Cardinality(left) <= MaximumVisits + PruneSlack
                  /\ Cardinality({}) <= MaximumVisits + PruneSlack + 1
    <3>1. E.overdue = overdue
      BY <2>3, StateFields
    <3>2. ~late => ~open \/ ~overdue
      BY <1>2, <2>4, <3>1
    <3>3. Cardinality({}) = 0
      BY EmptyTablesKept
    <3>4. CASE open
      BY <1>5, <1>6, <2>2, <3>2, <3>3, <3>4
    <3>5. CASE ~open
      BY <1>6, <2>2, <3>3, <3>5
    <3> QED BY <3>4, <3>5
  <2> QED BY <2>8, <2>9, <2>10, <2>11, ListedFits
<1>10. CASE OpenHistoryPage
  <2>1. hs' = HsState(view, disk, open, view, overdue, recorded)
    BY <1>1, <1>10, Relisted DEF OpenHistoryPage, HsIs
  <2> QED BY <1>3, <1>4, <1>5, <2>1, ListedFits
<1>11. CASE RestartHistory
  <2>1. hs' = HsState(disk, disk, FALSE, {}, overdue, recorded)
    <3>1. hs' = AsStarted(hs, FALSE, {})
      BY <1>11, Zenon DEF RestartHistory, HsIs, AsStarted
    <3>2. \A no, none :
            AsStarted(HsState(view, disk, open, listed, overdue, recorded), no, none) =
              HsState(disk, disk, no, none, overdue, recorded)
      BY Restarted
    <3> QED BY <1>1, <3>1, <3>2, Zenon
  <2>2. ~overdue => /\ Cardinality(disk) <= MaximumVisits + PruneSlack
                    /\ Cardinality(disk) <= MaximumVisits + PruneSlack + 1
    BY <1>5, <1>6
  <2>3. HsFits(disk, disk, FALSE, {}, overdue, recorded)
    BY <1>3, <2>2 DEF HsFits
  <2>4. {} \in SUBSET Visit
    OBVIOUS
  <2> QED BY <2>1, <2>3, <2>4, Zenon DEF HsInv
<1> QED BY <1>7, <1>8, <1>9, <1>10, <1>11, Zenon DEF HsNext

LEMMA HsStarts ==
  ASSUME HsInit
  PROVE  HsInv(hs)
<1>1. hs = HsState({}, {}, FALSE, {}, FALSE, 0)
  BY EmptyTablesKept, Zenon DEF HsInit, HsState
<1>2. HsFits({}, {}, FALSE, {}, FALSE, 0)
  BY EmptyTablesKept, HistoryAssumption DEF HsFits
<1>3. {} \in SUBSET Visit /\ {} \in VisitSets /\ 0 \in Nat
  BY EmptyTablesKept
<1> QED BY <1>1, <1>2, <1>3, Zenon DEF HsInv

\* What is told of the tables.
LEMMA TablesAgree ==
  ASSUME NEW V \in VisitSets
  PROVE  /\ { r.page : r \in Tables(V).pages } = { v.page : v \in V }
         /\ \A r \in Tables(V).pages : r = Aggregate(Tables(V), r.page)
         /\ Cardinality({ v.id : v \in V }) = Cardinality(V)
<1>1. PICK counts : counts = { CountOf(V, v.page) : v \in V }
  OBVIOUS
<1>2. Tables(V).pages = counts /\ Tables(V).visits = V
  BY <1>1 DEF Tables
<1>3. \A p : CountOf(V, p).page = p
  BY DEF CountOf
<1>4. { r.page : r \in counts } = { v.page : v \in V }
  BY <1>1, <1>3
<1>5. ASSUME NEW r \in counts PROVE r = Aggregate(Tables(V), r.page)
  <2>1. PICK v \in V : r = CountOf(V, v.page)
    BY <1>1
  <2> QED BY <1>2, <1>3, <2>1, AggregateCounts
<1>6. PICK f : f = [v \in V |-> v.id]
  OBVIOUS
<1>7. IsFiniteSet(V) /\ \A u, v \in V : u.id = v.id => u = v
  BY DEF VisitSets
<1>8. f \in Surjection(V, { v.id : v \in V })
  BY <1>6 DEF Surjection
<1>9. f \in Injection(V, { v.id : v \in V })
  <2>1. f \in [V -> { v.id : v \in V }]
    BY <1>6
  <2>2. \A u, v \in V : f[u] = f[v] => u = v
    BY <1>6, <1>7
  <2> QED BY <2>1, <2>2 DEF Injection, IsInjective
<1>10. Cardinality({ v.id : v \in V }) = Cardinality(V)
  BY <1>7, <1>8, <1>9, FS_Surjection
<1> QED BY <1>2, <1>4, <1>5, <1>10

\* Tables made of visits count them.
LEMMA HsAgrees ==
  ASSUME HsInv(hs)
  PROVE  HistoryAgrees
<1>1. PICK view \in VisitSets, disk \in VisitSets, open \in BOOLEAN, listed \in SUBSET Visit, overdue \in BOOLEAN, recorded \in Nat :
        hs = HsState(view, disk, open, listed, overdue, recorded) /\ HsFits(view, disk, open, listed, overdue, recorded)
  BY Zenon DEF HsInv
<1>2. hs.view = Tables(view) /\ hs.disk = Tables(disk) /\ hs.view.visits = view /\ hs.disk.visits = disk
      /\ hs.listed = listed /\ hs.overdue = overdue
  BY <1>1, StateFields, TablesSeen
<1>3. overdue \/ (Cardinality(disk) <= MaximumVisits + PruneSlack + 1 /\ Cardinality(view) <= MaximumVisits + PruneSlack + 1)
  <2>1. Cardinality(view) \in Nat /\ Cardinality(disk) \in Nat /\ MaximumVisits \in Nat /\ PruneSlack \in Nat
    BY SubsetKept, HistoryAssumption
  <2>2. CASE ~overdue
    <3>1. Cardinality(disk) <= MaximumVisits + PruneSlack /\ Cardinality(view) <= MaximumVisits + PruneSlack + 1
      BY <1>1, <2>2 DEF HsFits
    <3> QED BY <2>1, <3>1
  <2> QED BY <2>2
<1>4. \A l \in hs.listed, v \in hs.view.visits : l.id = v.id => l = v
  BY <1>1, <1>2 DEF HsFits
<1>5. ASSUME NEW db \in { hs.view, hs.disk }
      PROVE  /\ { r.page : r \in db.pages } = { v.page : v \in db.visits }
             /\ \A r \in db.pages : r = Aggregate(db, r.page)
             /\ Cardinality({ v.id : v \in db.visits }) = Cardinality(db.visits)
             /\ hs.overdue \/ Cardinality(db.visits) <= MaximumVisits + PruneSlack + 1
  <2>1. PICK V \in VisitSets : V \in { view, disk } /\ db = Tables(V) /\ db.visits = V
    BY <1>2
  <2>2. overdue \/ Cardinality(db.visits) <= MaximumVisits + PruneSlack + 1
    BY <1>3, <2>1
  <2>3. hs.overdue \/ Cardinality(db.visits) <= MaximumVisits + PruneSlack + 1
    BY <1>2, <2>2, Zenon
  <2> QED BY <2>1, <2>3, TablesAgree
<1> QED BY <1>4, <1>5, Zenon DEF HistoryAgrees

----------------------------------------------------------------------------
(***************************************************************************)
(* Downloads.  The records are found in the rows, at growing positions;    *)
(* both name a download once (Within, NamesOnce).                          *)
(***************************************************************************)
Statuses == { "InProgress", "Paused", "Interrupted", Ended }

Record == [id : Downloads, status : Statuses]

\* Marking changes the status of a download, in place.
LEMMA MarkedIs ==
  ASSUME NEW s \in Seq(Record), NEW d, NEW status \in Statuses
  PROVE  /\ Marked(s, d, status) \in Seq(Record) /\ Len(Marked(s, d, status)) = Len(s)
         /\ \A i \in 1 .. Len(s) :
              Marked(s, d, status)[i] =
                IF s[i].id = d THEN [id |-> d, status |-> status] ELSE s[i]
<1>1. PICK m : m = Marked(s, d, status)
  OBVIOUS
<1>2. m = [i \in 1 .. Len(s) |-> IF s[i].id = d THEN [s[i] EXCEPT !.status = status] ELSE s[i]]
  BY <1>1 DEF Marked
<1>3. ASSUME NEW i \in 1 .. Len(s)
      PROVE  m[i] = (IF s[i].id = d THEN [id |-> d, status |-> status] ELSE s[i]) /\ m[i] \in Record
  <2>1. s[i] \in Record
    OBVIOUS
  <2>2. CASE s[i].id = d
    <3>1. m[i] = [s[i] EXCEPT !.status = status]
      BY <1>2, <2>2
    <3>2. m[i] = [id |-> d, status |-> status]
      BY <2>1, <2>2, <3>1 DEF Record
    <3>3. m[i] \in Record
      BY <2>1, <2>2, <3>2 DEF Record
    <3> QED BY <2>2, <3>2, <3>3
  <2>3. CASE s[i].id # d
    BY <1>2, <2>1, <2>3
  <2> QED BY <2>2, <2>3
<1>4. m \in Seq(Record) /\ Len(m) = Len(s)
  <2>1. Len(s) \in Nat /\ DOMAIN m = 1 .. Len(s)
    BY <1>2
  <2>2. m \in [1 .. Len(s) -> Record]
    BY <1>2, <1>3
  <2> QED BY <2>1, <2>2
<1> QED BY <1>1, <1>3, <1>4

\* What is marked keeps its names and positions.
LEMMA MarkedFits ==
  ASSUME NEW s \in Seq(Record), NEW t \in Seq(Record), NEW d, NEW status \in Statuses, Within(s, t)
  PROVE  Within(Marked(s, d, status), Marked(t, d, status))
<1>1. PICK f \in [1 .. Len(s) -> 1 .. Len(t)] :
        /\ \A n, l \in 1 .. Len(s) : n < l => f[n] < f[l]
        /\ \A n \in 1 .. Len(s) : s[n] = t[f[n]]
  BY DEF Within
<1>2. PICK u : u = Marked(s, d, status)
  OBVIOUS
<1>3. PICK v : v = Marked(t, d, status)
  OBVIOUS
<1>4. Len(u) = Len(s) /\ \A i \in 1 .. Len(s) : u[i] = IF s[i].id = d THEN [id |-> d, status |-> status] ELSE s[i]
  BY <1>2, MarkedIs
<1>5. Len(v) = Len(t) /\ \A i \in 1 .. Len(t) : v[i] = IF t[i].id = d THEN [id |-> d, status |-> status] ELSE t[i]
  BY <1>3, MarkedIs
<1>6. \A n \in 1 .. Len(s) : u[n] = v[f[n]]
  BY <1>1, <1>4, <1>5
<1>7. f \in [1 .. Len(u) -> 1 .. Len(v)]
  BY <1>4, <1>5
<1>8. (\A n, l \in 1 .. Len(u) : n < l => f[n] < f[l]) /\ \A n \in 1 .. Len(u) : u[n] = v[f[n]]
  BY <1>1, <1>4, <1>6
<1>9. Within(u, v)
  BY <1>7, <1>8 DEF Within
<1> QED BY <1>2, <1>3, <1>9

\* Marking renames nothing.
LEMMA MarkedNames ==
  ASSUME NEW s \in Seq(Record), NEW d, NEW status \in Statuses
  PROVE  /\ \A i \in 1 .. Len(s) : Marked(s, d, status)[i].id = s[i].id
         /\ NamesOnce(s) => NamesOnce(Marked(s, d, status))
         /\ \A e : Names(Marked(s, d, status), e) <=> Names(s, e)
<1>1. PICK u : u = Marked(s, d, status)
  OBVIOUS
<1>2. Len(u) = Len(s) /\ \A i \in 1 .. Len(s) : u[i] = IF s[i].id = d THEN [id |-> d, status |-> status] ELSE s[i]
  BY <1>1, MarkedIs
<1>3. \A i \in 1 .. Len(s) : u[i].id = s[i].id
  BY <1>2
<1>4. NamesOnce(s) => NamesOnce(u)
  BY <1>2, <1>3 DEF NamesOnce
<1>5. \A e : Names(u, e) <=> Names(s, e)
  BY <1>2, <1>3 DEF Names
<1> QED BY <1>1, <1>3, <1>4, <1>5

LEMMA UpdateRecordIs ==
  ASSUME NEW S, NEW d
  PROVE  UpdateRecord(S, d) = [S EXCEPT !.rows = Marked(S.rows, d, S.records[FirstWithId(S.records, d)].status)]
BY Zenon DEF UpdateRecord, FirstWithId, SelectInSeq

LEMMA AddRecordIs ==
  ASSUME NEW S, NEW d, ~ \E row \in ToSet(S.rows) : row.id = d
  PROVE  AddRecord(S, d) = [S EXCEPT !.rows = << S.records[FirstWithId(S.records, d)] >> \o S.rows]
BY Zenon DEF AddRecord, FirstWithId, SelectInSeq

\* One more record in front, and a row for it.
LEMMA BoundedIs ==
  ASSUME NEW R, NEW s \in Seq(R)
  PROVE  /\ Bounded(s) \in Seq(R)
         /\ Len(Bounded(s)) = IF Len(s) < MaximumRecords THEN Len(s) ELSE MaximumRecords
         /\ \A i \in 1 .. Len(Bounded(s)) : i \in 1 .. Len(s) /\ Bounded(s)[i] = s[i]
<1>1. PICK m \in Nat : m = IF Len(s) < MaximumRecords THEN Len(s) ELSE MaximumRecords
  BY DownloadsAssumption
<1>2. Len(s) \in Nat /\ m <= Len(s) /\ MaximumRecords \in Nat
  BY <1>1, DownloadsAssumption
<1>3. Bounded(s) = SubSeq(s, 1, m)
  BY <1>1 DEF Bounded
<1>4. \A i \in 1 .. m : s[i] \in R
  BY <1>2
<1>5. /\ SubSeq(s, 1, m) \in Seq(R) /\ Len(SubSeq(s, 1, m)) = m
      /\ \A i \in 1 .. m : SubSeq(s, 1, m)[i] = s[i]
  <2>1. PICK u : u = SubSeq(s, 1, m)
    OBVIOUS
  <2>2. u \in Seq(R) /\ Len(u) = IF 1 <= m THEN m - 1 + 1 ELSE 0
    BY <1>4, <2>1, SubSeqProperties
  <2>3. \A i \in 1 .. m - 1 + 1 : u[i] = s[1 + i - 1]
    BY <1>4, <2>1, SubSeqProperties
  <2>4. Len(u) = m
    BY <2>2
  <2>5. \A i \in 1 .. m : u[i] = s[i]
    <3>1. ASSUME NEW i \in 1 .. m PROVE u[i] = s[i]
      <4>1. i \in 1 .. m - 1 + 1 /\ 1 + i - 1 = i
        OBVIOUS
      <4> QED BY <2>3, <4>1
    <3> QED BY <3>1
  <2> QED BY <2>1, <2>2, <2>4, <2>5
<1> QED BY <1>1, <1>2, <1>3, <1>5

\* Rows that are bounded after an addition are still within the records.
LEMMA AddedFits ==
  ASSUME NEW R, NEW s \in Seq(R), NEW t \in Seq(R), NEW x \in R, Within(s, t)
  PROVE  Within(Bounded(<< x >> \o s), << x >> \o t)
<1>1. PICK f \in [1 .. Len(s) -> 1 .. Len(t)] :
        /\ \A n, l \in 1 .. Len(s) : n < l => f[n] < f[l]
        /\ \A n \in 1 .. Len(s) : s[n] = t[f[n]]
  BY DEF Within
<1>2. PICK p : p = << x >> \o s
  OBVIOUS
<1>3. PICK u : u = Bounded(p)
  OBVIOUS
<1>4. PICK v : v = << x >> \o t
  OBVIOUS
<1>5. p \in Seq(R) /\ Len(p) = Len(s) + 1 /\ p[1] = x /\ \A i \in 2 .. Len(s) + 1 : i - 1 \in 1 .. Len(s) /\ p[i] = s[i - 1]
  BY <1>2, FrontIs
<1>6. v \in Seq(R) /\ Len(v) = Len(t) + 1 /\ v[1] = x /\ \A i \in 2 .. Len(t) + 1 : i - 1 \in 1 .. Len(t) /\ v[i] = t[i - 1]
  BY <1>4, FrontIs
<1>7. u \in Seq(R) /\ \A i \in 1 .. Len(u) : i \in 1 .. Len(p) /\ u[i] = p[i]
  BY <1>3, <1>5, BoundedIs
<1>8. Len(s) \in Nat /\ Len(t) \in Nat /\ Len(u) \in Nat
  BY <1>7
<1>9. PICK g : g = [i \in 1 .. Len(u) |-> IF i = 1 THEN 1 ELSE f[i - 1] + 1]
  OBVIOUS
<1>10. \A i \in 1 .. Len(u) : i = 1 \/ (i \in 2 .. Len(s) + 1 /\ i - 1 \in 1 .. Len(s))
  BY <1>5, <1>7, <1>8
<1>11. ASSUME NEW i \in 1 .. Len(u) PROVE g[i] \in 1 .. Len(v) /\ u[i] = v[g[i]]
  <2>1. CASE i = 1
    <3>1. g[i] = 1 /\ 1 \in 1 .. Len(v)
      BY <1>6, <1>8, <1>9, <2>1
    <3> QED BY <1>5, <1>6, <1>7, <2>1, <3>1
  <2>2. CASE i # 1
    <3>1. i - 1 \in 1 .. Len(s) /\ i \in 2 .. Len(s) + 1
      BY <1>10, <2>2
    <3>2. f[i - 1] \in 1 .. Len(t) /\ s[i - 1] = t[f[i - 1]]
      BY <1>1, <3>1
    <3>3. g[i] = f[i - 1] + 1 /\ g[i] \in 2 .. Len(t) + 1
      BY <1>8, <1>9, <2>2, <3>2
    <3>4. v[g[i]] = t[f[i - 1]]
      <4>1. g[i] - 1 = f[i - 1]
        BY <1>8, <3>2, <3>3
      <4> QED BY <1>6, <3>3, <4>1
    <3>5. u[i] = s[i - 1]
      BY <1>5, <1>7, <3>1
    <3>6. g[i] \in 1 .. Len(v)
      BY <1>6, <1>8, <3>3
    <3> QED BY <3>2, <3>4, <3>5, <3>6
  <2> QED BY <2>1, <2>2
<1>12. ASSUME NEW i \in 1 .. Len(u), NEW j \in 1 .. Len(u), i < j PROVE g[i] < g[j]
  <2>1. j - 1 \in 1 .. Len(s) /\ j # 1
    BY <1>8, <1>10, <1>12
  <2>2. g[j] = f[j - 1] + 1 /\ f[j - 1] \in Nat /\ f[j - 1] >= 1
    BY <1>9, <2>1
  <2>3. CASE i = 1
    <3>1. g[i] = 1
      BY <1>9, <2>3
    <3> QED BY <2>2, <3>1
  <2>4. CASE i # 1
    <3>1. i - 1 \in 1 .. Len(s) /\ i - 1 < j - 1
      BY <1>10, <1>12, <2>4
    <3>2. PICK a \in 1 .. Len(s), b \in 1 .. Len(s) : a = i - 1 /\ b = j - 1 /\ a < b
      BY <2>1, <3>1
    <3>3. f[a] < f[b] /\ f[a] \in Nat /\ f[b] \in Nat
      <4>1. f[a] \in 1 .. Len(t) /\ f[b] \in 1 .. Len(t)
        BY <1>1
      <4>2. f[a] < f[b]
        BY <1>1, <3>2
      <4> QED BY <1>8, <4>1, <4>2
    <3>4. g[i] = f[a] + 1 /\ g[j] = f[b] + 1
      BY <1>9, <2>2, <2>4, <3>2
    <3> QED BY <3>3, <3>4
  <2> QED BY <2>3, <2>4
<1>13. g \in [1 .. Len(u) -> 1 .. Len(v)]
  BY <1>9, <1>11
<1>14. Within(u, v)
  BY <1>11, <1>12, <1>13 DEF Within
<1> QED BY <1>2, <1>3, <1>4, <1>14

\* What is active is interrupted.
LEMMA InterruptedIs ==
  ASSUME NEW s \in Seq(Record)
  PROVE  /\ Interrupted(s) \in Seq(Record) /\ Len(Interrupted(s)) = Len(s)
         /\ \A i \in 1 .. Len(s) : Interrupted(s)[i].id = s[i].id /\ Interrupted(s)[i].status \notin Active
<1>1. PICK m : m = Interrupted(s)
  OBVIOUS
<1>2. m = [i \in 1 .. Len(s) |-> IF s[i].status \in Active THEN [s[i] EXCEPT !.status = "Interrupted"] ELSE s[i]]
  BY <1>1 DEF Interrupted
<1>3. ASSUME NEW i \in 1 .. Len(s)
      PROVE  m[i] \in Record /\ m[i].id = s[i].id /\ m[i].status \notin Active
  <2>1. s[i] \in Record
    OBVIOUS
  <2>2. CASE s[i].status \in Active
    <3>1. m[i] = [s[i] EXCEPT !.status = "Interrupted"]
      BY <1>2, <2>2
    <3> QED BY <2>1, <3>1 DEF Record, Statuses, Active
  <2>3. CASE s[i].status \notin Active
    BY <1>2, <2>1, <2>3
  <2> QED BY <2>2, <2>3
<1>4. m \in Seq(Record) /\ Len(m) = Len(s)
  <2>1. Len(s) \in Nat /\ DOMAIN m = 1 .. Len(s)
    BY <1>2
  <2>2. m \in [1 .. Len(s) -> Record]
    BY <1>2, <1>3
  <2> QED BY <2>1, <2>2
<1> QED BY <1>1, <1>3, <1>4

\* The states a request of Chromium can be in.
Requests == { "none", "requested", "InProgress", "Paused", Ended, "gone" }

DlType ==
  [request : [Downloads -> Requests], dialogs : Seq(Downloads), records : Seq(Record), rows : Seq(Record),
   held : SUBSET Downloads, timer : BOOLEAN, file : Seq(Record), running : BOOLEAN, behind : BOOLEAN,
   dropped : SUBSET Downloads, pauses : Nat, starts : Nat]

\* The rows have the records, and others only of records the bound has pushed out.
ShownFits(records, rows, dropped) ==
  /\ NamesOnce(records) /\ NamesOnce(rows) /\ Within(records, rows)
  /\ \A i \in 1 .. Len(rows) : Names(records, rows[i].id) \/ rows[i].id \in dropped

\* An active record is of a request that is held, and has its state.
HeldFits(request, records, held, dropped) ==
  /\ \A i \in 1 .. Len(records) :
       /\ records[i].status \in Active => records[i].id \in held /\ request[records[i].id] = records[i].status
       /\ records[i].id \in held => records[i].status \in Active
  /\ \A d \in held : Names(records, d) \/ d \in dropped
  /\ \A d \in Downloads : request[d] \in Active => d \in held

\* Only what was begun is recorded; a dialog is of a request that waits for it.
Begun(request, s) == \A i \in 1 .. Len(s) : request[s[i].id] \notin { "none", "requested" }

Asked(request, dialogs) ==
  /\ \A i \in 1 .. Len(dialogs) : request[dialogs[i]] = "requested"
  /\ \A i, j \in 1 .. Len(dialogs) : dialogs[i] = dialogs[j] => i = j

\* What the file misses is due or told of.
SavedFits(S) == S.timer \/ S.behind \/ S.file = S.records

DlFits(S) ==
  /\ ShownFits(S.records, S.rows, S.dropped)
  /\ HeldFits(S.request, S.records, S.held, S.dropped)
  /\ Begun(S.request, S.records) /\ Begun(S.request, S.rows) /\ Begun(S.request, S.file)
  /\ Asked(S.request, S.dialogs)
  /\ NamesOnce(S.file)

\* Between two runs nothing is there but the file.
Stopped(S) ==
  /\ S.records = << >> /\ S.held = {} /\ S.dialogs = << >> /\ ~S.timer
  /\ \A d \in Downloads : S.request[d] \in { "none", "gone" }

DlInv(S) ==
  /\ S \in DlType /\ DlFits(S)
  /\ S.running => SavedFits(S)
  /\ ~S.running => Stopped(S)

\* A save that is made now.
LEMMA SavedNowFits ==
  ASSUME NEW S \in DlType, DlFits(S), S.running, NEW T \in SavedNow(S)
  PROVE  DlInv(T)
<1>1. T = [S EXCEPT !.timer = FALSE, !.file = S.records, !.behind = FALSE]
      \/ T = [S EXCEPT !.timer = FALSE, !.behind = TRUE]
  BY DEF SavedNow
<1>2. T \in DlType
  BY <1>1 DEF DlType
<1>3. /\ T.request = S.request /\ T.dialogs = S.dialogs /\ T.records = S.records /\ T.rows = S.rows
      /\ T.held = S.held /\ T.dropped = S.dropped /\ T.file \in { S.file, S.records }
  BY <1>1 DEF DlType
<1>4. T.running /\ (T.behind \/ T.file = T.records)
  BY <1>1 DEF DlType
<1>5. Begun(T.request, T.file) /\ NamesOnce(T.file)
  BY <1>3 DEF DlFits, ShownFits
<1>6. DlFits(T)
  BY <1>3, <1>5 DEF DlFits
<1> QED BY <1>2, <1>4, <1>6 DEF DlInv, SavedFits

\* A scheduled save leaves nothing behind without a timer.
LEMMA ScheduledFits ==
  ASSUME NEW S \in DlType, DlFits(S), S.running
  PROVE  DlInv(ScheduleSave(S))
<1>1. PICK T : T = ScheduleSave(S)
  OBVIOUS
<1>2. T = [S EXCEPT !.timer = TRUE]
  BY <1>1 DEF ScheduleSave
<1>3. T \in DlType
  BY <1>2 DEF DlType
<1>4. /\ T.request = S.request /\ T.dialogs = S.dialogs /\ T.records = S.records /\ T.rows = S.rows
      /\ T.held = S.held /\ T.dropped = S.dropped /\ T.file = S.file
  BY <1>2 DEF DlType
<1>5. T.running /\ T.timer
  BY <1>2 DEF DlType
<1>6. DlFits(T)
  BY <1>4 DEF DlFits
<1> QED BY <1>1, <1>3, <1>5, <1>6 DEF DlInv, SavedFits

\* A record and its row get a status.
LEMMA MarkedShown ==
  ASSUME NEW records \in Seq(Record), NEW rows \in Seq(Record), NEW dropped, ShownFits(records, rows, dropped),
         NEW d, NEW status \in Statuses
  PROVE  ShownFits(Marked(records, d, status), Marked(rows, d, status), dropped)
<1>1. PICK s \in Seq(Record) : s = Marked(records, d, status)
  BY MarkedIs
<1>2. PICK t \in Seq(Record) : t = Marked(rows, d, status)
  BY MarkedIs
<1>3. /\ NamesOnce(s) /\ NamesOnce(t) /\ \A e : Names(s, e) <=> Names(records, e)
      /\ Len(t) = Len(rows) /\ \A i \in 1 .. Len(rows) : t[i].id = rows[i].id
  <2>1. NamesOnce(records) /\ NamesOnce(rows)
    BY DEF ShownFits
  <2>2. NamesOnce(s) /\ \A e : Names(s, e) <=> Names(records, e)
    BY <1>1, <2>1, MarkedNames
  <2>3. NamesOnce(t) /\ \A i \in 1 .. Len(rows) : t[i].id = rows[i].id
    BY <1>2, <2>1, MarkedNames
  <2>4. Len(t) = Len(rows)
    <3>1. Len(Marked(rows, d, status)) = Len(rows)
      BY MarkedIs
    <3> QED BY <1>2, <3>1
  <2> QED BY <2>2, <2>3, <2>4
<1>4. Within(s, t)
  BY <1>1, <1>2, MarkedFits DEF ShownFits
<1>5. \A i \in 1 .. Len(t) : Names(s, t[i].id) \/ t[i].id \in dropped
  BY <1>3 DEF ShownFits
<1> QED BY <1>1, <1>2, <1>3, <1>4, <1>5 DEF ShownFits

\* The status of the record that was marked is that status.
LEMMA MarkedFirst ==
  ASSUME NEW records \in Seq(Record), NEW d, NEW status \in Statuses, Names(records, d)
  PROVE  Marked(records, d, status)[FirstWithId(Marked(records, d, status), d)].status = status
<1>1. PICK s \in Seq(Record) : s = Marked(records, d, status)
  BY MarkedIs
<1>2. Names(s, d)
  BY <1>1, MarkedNames
<1>3. PICK k \in 1 .. Len(s) : k = FirstWithId(s, d) /\ s[k].id = d
  BY <1>2, FirstNamed
<1>4. Len(s) = Len(records) /\ s[k] = IF records[k].id = d THEN [id |-> d, status |-> status] ELSE records[k]
  BY <1>1, <1>3, MarkedIs
<1>5. records[k].id = d
  BY <1>1, <1>3, <1>4, MarkedNames
<1> QED BY <1>1, <1>3, <1>4, <1>5

\* Updating a row after its record changes both alike.
LEMMA UpdatedRow ==
  ASSUME NEW S \in DlType, NEW d, NEW status \in Statuses, Names(S.records, d)
  PROVE  UpdateRecord([S EXCEPT !.records = Marked(S.records, d, status)], d) =
           [S EXCEPT !.records = Marked(S.records, d, status), !.rows = Marked(S.rows, d, status)]
<1>1. PICK marked \in Seq(Record) : marked = Marked(S.records, d, status)
  BY MarkedIs DEF DlType
<1>2. marked[FirstWithId(marked, d)].status = status
  BY <1>1, MarkedFirst DEF DlType
<1>3. PICK T : T = [S EXCEPT !.records = marked]
  OBVIOUS
<1>4. T.records = marked /\ T.rows = S.rows
  BY <1>3 DEF DlType
<1>5. UpdateRecord(T, d) = [T EXCEPT !.rows = Marked(S.rows, d, status)]
  BY <1>2, <1>4, UpdateRecordIs
<1> QED BY <1>1, <1>3, <1>5

\* What an update makes of a record of which the request has that state.
LEMMA UpdateFits ==
  ASSUME NEW S \in DlType, S.running, ShownFits(S.records, S.rows, S.dropped), Asked(S.request, S.dialogs),
         Begun(S.request, S.records), Begun(S.request, S.rows), Begun(S.request, S.file), NamesOnce(S.file),
         NEW d \in Downloads, S.request[d] \in Statuses \ { "Interrupted" }, d \in S.held,
         \A i \in 1 .. Len(S.records) : S.records[i].id # d =>
           /\ S.records[i].status \in Active =>
                S.records[i].id \in S.held /\ S.request[S.records[i].id] = S.records[i].status
           /\ S.records[i].id \in S.held => S.records[i].status \in Active,
         \A e \in S.held : Names(S.records, e) \/ e \in S.dropped,
         \A e \in Downloads : e # d /\ S.request[e] \in Active => e \in S.held,
         SavedFits(S), NEW T \in Update(S, d)
  PROVE  DlInv(T)
<1>1. PICK status \in Statuses : status = S.request[d]
  OBVIOUS
<1>2. CASE ~DownloadsListed(S, d)
  <2>1. T = S
    BY <1>2 DEF Update
  <2>2. ~Names(S.records, d)
    BY <1>2 DEF DownloadsListed, Names, DlType
  <2>3. \A i \in 1 .. Len(S.records) : S.records[i].id # d
    BY <2>2 DEF Names
  <2>4. HeldFits(S.request, S.records, S.held, S.dropped)
    BY <2>3 DEF HeldFits
  <2>5. DlFits(S)
    BY <2>4 DEF DlFits
  <2> QED BY <2>1, <2>5 DEF DlInv
<1>3. CASE DownloadsListed(S, d)
  <2>1. Names(S.records, d)
    BY <1>3 DEF DownloadsListed, Names, DlType
  <2>2. PICK marked \in Seq(Record) : marked = Marked(S.records, d, status)
    BY MarkedIs DEF DlType
  <2>3. PICK rows \in Seq(Record) : rows = Marked(S.rows, d, status)
    BY MarkedIs DEF DlType
  <2>4. PICK U : U = [S EXCEPT !.records = marked, !.rows = rows]
    OBVIOUS
  <2>5. U = UpdateRecord([S EXCEPT !.records = Marked(@, d, S.request[d])], d)
    <3>1. marked[FirstWithId(marked, d)].status = status
      BY <2>1, <2>2, MarkedFirst DEF DlType
    <3>2. PICK R : R = [S EXCEPT !.records = marked]
      OBVIOUS
    <3>3. R.records = marked /\ R.rows = S.rows
      BY <3>2 DEF DlType
    <3>4. UpdateRecord(R, d) = [R EXCEPT !.rows = Marked(R.rows, d, R.records[FirstWithId(R.records, d)].status)]
      BY UpdateRecordIs, Zenon
    <3>5. UpdateRecord(R, d) = [R EXCEPT !.rows = rows]
      BY <2>3, <3>1, <3>3, <3>4
    <3>6. [R EXCEPT !.rows = rows] = U
      BY <2>4, <3>2
    <3>7. R = [S EXCEPT !.records = Marked(@, d, S.request[d])]
      BY <1>1, <2>2, <3>2
    <3> QED BY <3>5, <3>6, <3>7
  <2>6. U \in DlType
    BY <2>4 DEF DlType
  <2>7. /\ U.request = S.request /\ U.dialogs = S.dialogs /\ U.records = marked /\ U.rows = rows
        /\ U.held = S.held /\ U.dropped = S.dropped /\ U.file = S.file
    BY <2>4 DEF DlType
  <2>8. U.running
    BY <2>4 DEF DlType
  <2>9. ShownFits(marked, rows, S.dropped)
    BY <2>2, <2>3, MarkedShown DEF DlType
  <2>10. /\ Len(marked) = Len(S.records) /\ Len(rows) = Len(S.rows)
         /\ \A i \in 1 .. Len(marked) : marked[i] = IF S.records[i].id = d THEN [id |-> d, status |-> status] ELSE S.records[i]
         /\ \A i \in 1 .. Len(rows) : rows[i] = IF S.rows[i].id = d THEN [id |-> d, status |-> status] ELSE S.rows[i]
    <3>1. PICK p \in Seq(Record), q \in Seq(Record) : p = S.records /\ q = S.rows
      BY DEF DlType
    <3>2. /\ Len(Marked(p, d, status)) = Len(p)
          /\ \A i \in 1 .. Len(p) :
               Marked(p, d, status)[i] = IF p[i].id = d THEN [id |-> d, status |-> status] ELSE p[i]
      BY MarkedIs
    <3>3. /\ Len(Marked(q, d, status)) = Len(q)
          /\ \A i \in 1 .. Len(q) :
               Marked(q, d, status)[i] = IF q[i].id = d THEN [id |-> d, status |-> status] ELSE q[i]
      BY MarkedIs
    <3> QED BY <2>2, <2>3, <3>1, <3>2, <3>3
  <2>11. (\A i \in 1 .. Len(marked) : marked[i].id = S.records[i].id) /\ \A i \in 1 .. Len(rows) : rows[i].id = S.rows[i].id
    BY <2>10
  <2>12. Begun(S.request, marked) /\ Begun(S.request, rows)
    BY <2>10, <2>11 DEF Begun
  <2>13. \A e : Names(marked, e) <=> Names(S.records, e)
    BY <2>10, <2>11 DEF Names
  <2>14. T \in IF status \in Active THEN { ScheduleSave(U) } ELSE SavedNow([U EXCEPT !.held = @ \ {d}])
    <3>1. Update(S, d) = IF S.request[d] \in Active THEN { ScheduleSave(U) } ELSE SavedNow([U EXCEPT !.held = @ \ {d}])
      BY <1>3, <2>5, Zenon DEF Update
    <3> QED BY <1>1, <3>1
  <2>15. CASE status \in Active
    <3>1. HeldFits(S.request, marked, S.held, S.dropped)
      <4>1. ASSUME NEW i \in 1 .. Len(marked)
            PROVE  /\ marked[i].status \in Active => marked[i].id \in S.held /\ S.request[marked[i].id] = marked[i].status
                   /\ marked[i].id \in S.held => marked[i].status \in Active
        <5>1. CASE S.records[i].id = d
          BY <1>1, <2>10, <2>15, <4>1, <5>1
        <5>2. CASE S.records[i].id # d
          BY <2>10, <4>1, <5>2
        <5> QED BY <5>1, <5>2
      <4>2. \A e \in Downloads : S.request[e] \in Active => e \in S.held
        OBVIOUS
      <4> QED BY <2>13, <4>1, <4>2 DEF HeldFits
    <3>2. DlFits(U)
      BY <2>7, <2>9, <2>12, <3>1 DEF DlFits
    <3>3. T = ScheduleSave(U)
      BY <2>14, <2>15
    <3> QED BY <2>6, <2>8, <3>2, <3>3, ScheduledFits
  <2>16. CASE status \notin Active
    <3>1. PICK V : V = [U EXCEPT !.held = S.held \ {d}]
      OBVIOUS
    <3>2. V \in DlType
      BY <2>6, <3>1 DEF DlType
    <3>3. /\ V.request = S.request /\ V.dialogs = S.dialogs /\ V.records = marked /\ V.rows = rows
          /\ V.held = S.held \ {d} /\ V.dropped = S.dropped /\ V.file = S.file
      BY <2>6, <2>7, <3>1 DEF DlType
    <3>4. V.running
      BY <2>6, <2>8, <3>1 DEF DlType
    <3>5. HeldFits(S.request, marked, S.held \ {d}, S.dropped)
      <4>1. ASSUME NEW i \in 1 .. Len(marked)
            PROVE  /\ marked[i].status \in Active =>
                        marked[i].id \in S.held \ {d} /\ S.request[marked[i].id] = marked[i].status
                   /\ marked[i].id \in S.held \ {d} => marked[i].status \in Active
        <5>1. CASE S.records[i].id = d
          BY <2>10, <2>16, <4>1, <5>1
        <5>2. CASE S.records[i].id # d
          BY <2>10, <4>1, <5>2
        <5> QED BY <5>1, <5>2
      <4>2. \A e \in Downloads : S.request[e] \in Active => e \in S.held \ {d}
        BY <1>1, <2>16
      <4> QED BY <2>13, <4>1, <4>2 DEF HeldFits
    <3>6. DlFits(V)
      BY <2>9, <2>12, <3>3, <3>5 DEF DlFits
    <3>7. T \in SavedNow(V)
      BY <2>7, <2>14, <2>16, <3>1
    <3> QED BY <3>2, <3>4, <3>6, <3>7, SavedNowFits
  <2> QED BY <2>15, <2>16
<1> QED BY <1>2, <1>3

----------------------------------------------------------------------------
\* A request that was not begun is not recorded, so its state can change.
LEMMA BegunStill ==
  ASSUME NEW request \in [Downloads -> Requests], NEW s \in Seq(Record), Begun(request, s),
         NEW d \in Downloads, NEW state \in Requests,
         request[d] \in { "none", "requested" } \/ state \notin { "none", "requested" }
  PROVE  Begun([request EXCEPT ![d] = state], s)
<1>1. PICK q : q = [request EXCEPT ![d] = state]
  OBVIOUS
<1>2. ASSUME NEW i \in 1 .. Len(s) PROVE q[s[i].id] \notin { "none", "requested" }
  <2>5. s[i] \in Record
    OBVIOUS
  <2>1. s[i].id \in Downloads
    BY <2>5 DEF Record
  <2>2. request[s[i].id] \notin { "none", "requested" }
    BY DEF Begun
  <2>3. CASE s[i].id = d
    BY <1>1, <2>2, <2>3
  <2>4. CASE s[i].id # d
    BY <1>1, <2>1, <2>2, <2>4
  <2> QED BY <2>3, <2>4
<1> QED BY <1>1, <1>2 DEF Begun

\* The innermost dialog is answered.
LEMMA AskedLess ==
  ASSUME NEW request \in [Downloads -> Requests], NEW dialogs \in Seq(Downloads), dialogs # << >>,
         Asked(request, dialogs), NEW state \in Requests
  PROVE  /\ Head(dialogs) \in Downloads /\ request[Head(dialogs)] = "requested"
         /\ Tail(dialogs) \in Seq(Downloads)
         /\ Asked([request EXCEPT ![Head(dialogs)] = state], Tail(dialogs))
<1>1. PICK q : q = [request EXCEPT ![Head(dialogs)] = state]
  OBVIOUS
<1>2. PICK rest : rest = Tail(dialogs)
  OBVIOUS
<1>3. /\ Head(dialogs) \in Downloads /\ Head(dialogs) = dialogs[1] /\ 1 \in 1 .. Len(dialogs) /\ rest \in Seq(Downloads)
      /\ Len(rest) = Len(dialogs) - 1 /\ Len(dialogs) \in Nat /\ Len(dialogs) >= 1
      /\ \A i \in 1 .. Len(rest) : rest[i] = dialogs[i + 1]
  BY <1>2
<1>4. ASSUME NEW i \in 1 .. Len(rest)
      PROVE  /\ i + 1 \in 1 .. Len(dialogs) /\ i + 1 # 1 /\ rest[i] = dialogs[i + 1]
             /\ dialogs[i + 1] \in Downloads /\ dialogs[i + 1] # dialogs[1]
  <2>1. i + 1 \in 1 .. Len(dialogs) /\ i + 1 # 1 /\ rest[i] = dialogs[i + 1]
    BY <1>3
  <2>2. dialogs[i + 1] \in Downloads
    BY <2>1
  <2>3. dialogs[i + 1] # dialogs[1]
    BY <1>3, <2>1 DEF Asked
  <2> QED BY <2>1, <2>2, <2>3
<1>5. \A i \in 1 .. Len(rest) : q[rest[i]] = "requested"
  BY <1>1, <1>3, <1>4 DEF Asked
<1>6. \A i, j \in 1 .. Len(rest) : rest[i] = rest[j] => i = j
  <2>1. ASSUME NEW i \in 1 .. Len(rest), NEW j \in 1 .. Len(rest), rest[i] = rest[j] PROVE i = j
    <3>1. i + 1 = j + 1
      BY <1>4, <2>1 DEF Asked
    <3> QED BY <1>3, <3>1
  <2> QED BY <2>1
<1>7. request[Head(dialogs)] = "requested"
  BY <1>3 DEF Asked
<1>8. Asked(q, rest)
  BY <1>5, <1>6 DEF Asked
<1> QED BY <1>1, <1>2, <1>3, <1>7, <1>8

\* A request of which no dialog is open has another state.
LEMMA AskedStill ==
  ASSUME NEW request \in [Downloads -> Requests], NEW dialogs \in Seq(Downloads), Asked(request, dialogs),
         NEW d \in Downloads, request[d] # "requested", NEW state \in Requests
  PROVE  Asked([request EXCEPT ![d] = state], dialogs)
<1>1. \A i \in 1 .. Len(dialogs) : dialogs[i] \in Downloads /\ dialogs[i] # d
  BY DEF Asked
<1> QED BY <1>1 DEF Asked

\* What is held and recorded fits the state of another request.
LEMMA HeldStill ==
  ASSUME NEW request \in [Downloads -> Requests], NEW records \in Seq(Record), NEW held, NEW dropped,
         HeldFits(request, records, held, dropped), Begun(request, records),
         NEW d \in Downloads, request[d] \in { "none", "requested" }, NEW state \in Requests, state \notin Active
  PROVE  HeldFits([request EXCEPT ![d] = state], records, held, dropped)
<1>1. PICK q : q = [request EXCEPT ![d] = state]
  OBVIOUS
<1>2. ASSUME NEW i \in 1 .. Len(records) PROVE records[i].id \in Downloads /\ records[i].id # d
  <2>1. records[i] \in Record /\ request[records[i].id] \notin { "none", "requested" }
    BY DEF Begun
  <2> QED BY <2>1 DEF Record
<1>3. \A e \in Downloads : e # d => q[e] = request[e]
  BY <1>1
<1>4. q[d] = state
  BY <1>1
<1>5. ASSUME NEW i \in 1 .. Len(records)
      PROVE  /\ records[i].status \in Active => records[i].id \in held /\ q[records[i].id] = records[i].status
             /\ records[i].id \in held => records[i].status \in Active
  BY <1>2, <1>3 DEF HeldFits
<1>6. \A e \in Downloads : q[e] \in Active => e \in held
  BY <1>3, <1>4 DEF HeldFits
<1>7. \A e \in held : Names(records, e) \/ e \in dropped
  BY DEF HeldFits
<1> QED BY <1>1, <1>5, <1>6, <1>7 DEF HeldFits

LEMMA RequestedFits ==
  ASSUME DlInv(dl), Requested
  PROVE  DlInv(dl')
<1>1. PICK d \in Downloads :
        /\ dl.request[d] = "none"
        /\ dl' = [dl EXCEPT !.request[d] = "requested", !.dialogs = << d >> \o dl.dialogs]
  BY Zenon DEF Requested, Is
<1>2. dl \in DlType /\ DlFits(dl) /\ dl.running /\ SavedFits(dl)
  BY DEF DlInv, Requested
<1>3. PICK request \in [Downloads -> Requests], dialogs \in Seq(Downloads), records \in Seq(Record), rows \in Seq(Record),
           file \in Seq(Record) :
        request = dl.request /\ dialogs = dl.dialogs /\ records = dl.records /\ rows = dl.rows /\ file = dl.file
  BY <1>2 DEF DlType
<1>4. PICK asked : asked = [request EXCEPT ![d] = "requested"]
  OBVIOUS
<1>5. PICK open : open = << d >> \o dialogs
  OBVIOUS
<1>6. asked \in [Downloads -> Requests] /\ asked[d] = "requested" /\ \A e \in Downloads \ {d} : asked[e] = request[e]
  BY <1>3, <1>4 DEF Requests
<1>7. /\ open \in Seq(Downloads) /\ Len(open) = Len(dialogs) + 1 /\ open[1] = d
      /\ \A i \in 2 .. Len(dialogs) + 1 : i - 1 \in 1 .. Len(dialogs) /\ open[i] = dialogs[i - 1]
  BY <1>5, FrontIs
<1>8. dl' = [dl EXCEPT !.request = asked, !.dialogs = open]
  BY <1>1, <1>2, <1>3, <1>4, <1>5 DEF DlType
<1>9. dl' \in DlType
  BY <1>2, <1>6, <1>7, <1>8 DEF DlType
<1>10. /\ dl'.request = asked /\ dl'.dialogs = open /\ dl'.records = records /\ dl'.rows = rows /\ dl'.file = file
       /\ dl'.held = dl.held /\ dl'.dropped = dl.dropped
  BY <1>2, <1>3, <1>8 DEF DlType
<1>11. dl'.running /\ SavedFits(dl')
  <2>1. dl'.running /\ dl'.timer = dl.timer /\ dl'.behind = dl.behind
    BY <1>2, <1>8 DEF DlType
  <2> QED BY <1>2, <1>3, <1>10, <2>1 DEF SavedFits
<1>12. /\ Begun(request, records) /\ Begun(request, rows) /\ Begun(request, file) /\ Asked(request, dialogs)
       /\ HeldFits(request, records, dl.held, dl.dropped) /\ ShownFits(records, rows, dl.dropped) /\ NamesOnce(file)
  BY <1>2, <1>3 DEF DlFits
<1>13. "requested" \in Requests /\ "requested" \notin Active /\ request[d] \in { "none", "requested" }
  BY <1>1, <1>3 DEF Requests, Active
<1>14. Begun(asked, records)
  BY <1>4, <1>12, <1>13, BegunStill
<1>15. Begun(asked, rows)
  BY <1>4, <1>12, <1>13, BegunStill
<1>16. Begun(asked, file)
  BY <1>4, <1>12, <1>13, BegunStill
<1>17. HeldFits(asked, records, dl.held, dl.dropped)
  BY <1>4, <1>12, <1>13, HeldStill
<1>18. Asked(asked, open)
  <2>1. \A i \in 1 .. Len(dialogs) : dialogs[i] # d /\ dialogs[i] \in Downloads /\ asked[dialogs[i]] = "requested"
    BY <1>1, <1>3, <1>6, <1>12 DEF Asked
  <2>2. Len(dialogs) \in Nat
    OBVIOUS
  <2>3. \A i \in 1 .. Len(open) : i = 1 \/ i \in 2 .. Len(dialogs) + 1
    BY <1>7, <2>2
  <2>4. ASSUME NEW i \in 1 .. Len(open) PROVE asked[open[i]] = "requested"
    <3>1. CASE i = 1
      BY <1>6, <1>7, <3>1
    <3>2. CASE i # 1
      <4>1. PICK l \in 1 .. Len(dialogs) : open[i] = dialogs[l]
        BY <1>7, <2>3, <3>2
      <4> QED BY <2>1, <4>1
    <3> QED BY <3>1, <3>2
  <2>5. ASSUME NEW i \in 1 .. Len(open), NEW j \in 1 .. Len(open), open[i] = open[j] PROVE i = j
    <3>3. ASSUME NEW l \in 1 .. Len(open), l # 1 PROVE open[l] # d
      <4>1. PICK m \in 1 .. Len(dialogs) : open[l] = dialogs[m]
        BY <1>7, <2>3, <3>3
      <4> QED BY <2>1, <4>1
    <3>1. CASE i = 1 \/ j = 1
      BY <1>7, <2>5, <3>1, <3>3
    <3>2. CASE i # 1 /\ j # 1
      <4>1. i \in 2 .. Len(dialogs) + 1 /\ j \in 2 .. Len(dialogs) + 1
        BY <2>3, <3>2
      <4>2. i - 1 = j - 1
        BY <1>7, <1>12, <2>5, <4>1 DEF Asked
      <4> QED BY <4>1, <4>2
    <3> QED BY <3>1, <3>2
  <2> QED BY <2>4, <2>5 DEF Asked
<1>19. DlFits(dl')
  BY <1>10, <1>12, <1>14, <1>15, <1>16, <1>17, <1>18 DEF DlFits
<1> QED BY <1>9, <1>11, <1>19 DEF DlInv

LEMMA RejectedFits ==
  ASSUME DlInv(dl), RejectDialog
  PROVE  DlInv(dl')
<1>2. dl \in DlType /\ DlFits(dl) /\ dl.running /\ SavedFits(dl) /\ dl.dialogs # << >>
  BY DEF DlInv, RejectDialog, Answering
<1>3. PICK request \in [Downloads -> Requests], dialogs \in Seq(Downloads), records \in Seq(Record), rows \in Seq(Record),
           file \in Seq(Record) :
        request = dl.request /\ dialogs = dl.dialogs /\ records = dl.records /\ rows = dl.rows /\ file = dl.file
  BY <1>2 DEF DlType
<1>12. /\ Begun(request, records) /\ Begun(request, rows) /\ Begun(request, file) /\ Asked(request, dialogs)
       /\ HeldFits(request, records, dl.held, dl.dropped) /\ ShownFits(records, rows, dl.dropped) /\ NamesOnce(file)
  BY <1>2, <1>3 DEF DlFits
<1>4. Ended \in Requests /\ Ended \notin Active
  BY DEF Requests, Active, Ended
<1>5. PICK d \in Downloads : d = Head(dialogs) /\ request[d] = "requested"
  BY <1>2, <1>3, <1>4, <1>12, AskedLess
<1>6. PICK answered : answered = [request EXCEPT ![d] = Ended]
  OBVIOUS
<1>7. Tail(dialogs) \in Seq(Downloads) /\ Asked(answered, Tail(dialogs))
  BY <1>2, <1>3, <1>4, <1>5, <1>6, <1>12, AskedLess
<1>8. answered \in [Downloads -> Requests]
  BY <1>4, <1>6
<1>9. dl' = [dl EXCEPT !.request = answered, !.dialogs = Tail(dialogs)]
  <2>1. dl' = [dl EXCEPT !.dialogs = Tail(dl.dialogs), !.request[Head(dl.dialogs)] = Ended]
    BY DEF RejectDialog, Is
  <2> QED BY <1>2, <1>3, <1>5, <1>6, <2>1 DEF DlType
<1>10. dl' \in DlType
  BY <1>2, <1>7, <1>8, <1>9 DEF DlType
<1>11. /\ dl'.request = answered /\ dl'.dialogs = Tail(dialogs) /\ dl'.records = records /\ dl'.rows = rows
       /\ dl'.file = file /\ dl'.held = dl.held /\ dl'.dropped = dl.dropped
  BY <1>2, <1>3, <1>9 DEF DlType
<1>13. dl'.running /\ SavedFits(dl')
  <2>1. dl'.running /\ dl'.timer = dl.timer /\ dl'.behind = dl.behind
    BY <1>2, <1>9 DEF DlType
  <2> QED BY <1>2, <1>3, <1>11, <2>1 DEF SavedFits
<1>14. request[d] \in { "none", "requested" }
  BY <1>5
<1>15. Begun(answered, records)
  BY <1>4, <1>6, <1>12, <1>14, BegunStill
<1>16. Begun(answered, rows)
  BY <1>4, <1>6, <1>12, <1>14, BegunStill
<1>17. Begun(answered, file)
  BY <1>4, <1>6, <1>12, <1>14, BegunStill
<1>18. HeldFits(answered, records, dl.held, dl.dropped)
  BY <1>4, <1>6, <1>12, <1>14, HeldStill
<1>19. DlFits(dl')
  BY <1>7, <1>11, <1>12, <1>15, <1>16, <1>17, <1>18 DEF DlFits
<1> QED BY <1>10, <1>13, <1>19 DEF DlInv

\* A record in front, bounded: what it names is what was named, less what is dropped, and the new one.
LEMMA AddedNames ==
  ASSUME NEW s \in Seq(Record), NEW x \in Record, NamesOnce(s), ~Names(s, x.id)
  PROVE  /\ << x >> \o s \in Seq(Record) /\ NamesOnce(<< x >> \o s)
         /\ Bounded(<< x >> \o s) \in Seq(Record) /\ NamesOnce(Bounded(<< x >> \o s))
         /\ 1 \in 1 .. Len(Bounded(<< x >> \o s)) /\ Bounded(<< x >> \o s)[1] = x
         /\ \A i \in 2 .. Len(Bounded(<< x >> \o s)) : i - 1 \in 1 .. Len(s) /\ Bounded(<< x >> \o s)[i] = s[i - 1]
<1>1. PICK p : p = << x >> \o s
  OBVIOUS
<1>2. /\ p \in Seq(Record) /\ Len(p) = Len(s) + 1 /\ p[1] = x
      /\ \A i \in 2 .. Len(s) + 1 : i - 1 \in 1 .. Len(s) /\ p[i] = s[i - 1]
  BY <1>1, FrontIs
<1>3. PICK u : u = Bounded(p)
  OBVIOUS
<1>4. /\ u \in Seq(Record) /\ Len(u) = (IF Len(p) < MaximumRecords THEN Len(p) ELSE MaximumRecords)
      /\ \A i \in 1 .. Len(u) : i \in 1 .. Len(p) /\ u[i] = p[i]
  BY <1>2, <1>3, BoundedIs
<1>5. Len(s) \in Nat /\ Len(p) \in Nat /\ Len(u) \in Nat /\ Len(u) >= 1
  BY <1>2, <1>4, DownloadsAssumption
<1>6. \A i \in 1 .. Len(p) : i = 1 \/ i \in 2 .. Len(s) + 1
  BY <1>2, <1>5
<1>7. ASSUME NEW i \in 1 .. Len(p), i # 1 PROVE p[i].id # x.id
  <2>1. PICK l \in 1 .. Len(s) : p[i] = s[l]
    BY <1>2, <1>6, <1>7
  <2> QED BY <2>1 DEF Names
<1>8. ASSUME NEW i \in 1 .. Len(p), NEW j \in 1 .. Len(p), p[i].id = p[j].id PROVE i = j
  <2>1. CASE i = 1 \/ j = 1
    BY <1>2, <1>7, <1>8, <2>1
  <2>2. CASE i # 1 /\ j # 1
    <3>1. i \in 2 .. Len(s) + 1 /\ j \in 2 .. Len(s) + 1
      BY <1>6, <2>2
    <3>2. PICK a \in 1 .. Len(s), b \in 1 .. Len(s) : a = i - 1 /\ b = j - 1 /\ p[i] = s[a] /\ p[j] = s[b]
      BY <1>2, <3>1
    <3>3. a = b
      BY <1>8, <3>2 DEF NamesOnce
    <3> QED BY <3>1, <3>2, <3>3
  <2> QED BY <2>1, <2>2
<1>9. NamesOnce(p)
  BY <1>8 DEF NamesOnce
<1>10. NamesOnce(u)
  BY <1>4, <1>8 DEF NamesOnce
<1>11. 1 \in 1 .. Len(u) /\ u[1] = x
  <2>1. 1 \in 1 .. Len(u)
    BY <1>5
  <2> QED BY <1>2, <1>4, <2>1
<1>12. ASSUME NEW i \in 2 .. Len(u) PROVE i - 1 \in 1 .. Len(s) /\ u[i] = s[i - 1]
  <2>1. i \in 1 .. Len(u) /\ i # 1
    BY <1>5
  <2>2. i \in 2 .. Len(s) + 1
    BY <1>4, <1>6, <2>1
  <2> QED BY <1>2, <1>4, <2>1, <2>2
<1> QED BY <1>1, <1>2, <1>3, <1>4, <1>9, <1>10, <1>11, <1>12

LEMMA SavedAsFits ==
  ASSUME DlInv(dl), SaveAs
  PROVE  DlInv(dl')
<1>1. dl \in DlType /\ DlFits(dl) /\ dl.running /\ SavedFits(dl) /\ dl.dialogs # << >>
  BY DEF DlInv, SaveAs, Answering
<1>2. PICK request \in [Downloads -> Requests], dialogs \in Seq(Downloads), records \in Seq(Record), rows \in Seq(Record),
           file \in Seq(Record) :
        request = dl.request /\ dialogs = dl.dialogs /\ records = dl.records /\ rows = dl.rows /\ file = dl.file
  BY <1>1 DEF DlType
<1>3. /\ Begun(request, records) /\ Begun(request, rows) /\ Begun(request, file) /\ Asked(request, dialogs)
      /\ HeldFits(request, records, dl.held, dl.dropped) /\ ShownFits(records, rows, dl.dropped) /\ NamesOnce(file)
  BY <1>1, <1>2 DEF DlFits
<1>4. "InProgress" \in Requests /\ "InProgress" \in Active /\ "InProgress" \in Statuses
  BY DEF Requests, Active, Statuses
<1>5. PICK d \in Downloads : d = Head(dialogs) /\ request[d] = "requested"
  BY <1>1, <1>2, <1>3, <1>4, AskedLess
<1>6. PICK answered : answered = [request EXCEPT ![d] = "InProgress"]
  OBVIOUS
<1>7. Tail(dialogs) \in Seq(Downloads) /\ Asked(answered, Tail(dialogs))
  BY <1>1, <1>2, <1>3, <1>4, <1>5, <1>6, AskedLess
<1>8. answered \in [Downloads -> Requests] /\ answered[d] = "InProgress" /\ \A e \in Downloads \ {d} : answered[e] = request[e]
  BY <1>4, <1>6
<1>9. PICK x \in Record : x = [id |-> d, status |-> "InProgress"]
  BY <1>4 DEF Record
<1>10. x.id = d /\ x.status = "InProgress"
  BY <1>9
<1>11. ~Names(records, d) /\ ~Names(rows, d)
  BY <1>3, <1>5 DEF Begun, Names
<1>12. PICK p : p = << x >> \o records
  OBVIOUS
<1>13. PICK u : u = Bounded(p)
  OBVIOUS
<1>14. /\ NamesOnce(records) /\ NamesOnce(rows) /\ Within(records, rows)
       /\ \A i \in 1 .. Len(rows) : Names(records, rows[i].id) \/ rows[i].id \in dl.dropped
  BY <1>3 DEF ShownFits
<1>15. /\ u \in Seq(Record) /\ NamesOnce(u) /\ 1 \in 1 .. Len(u) /\ u[1] = x
       /\ \A i \in 2 .. Len(u) : i - 1 \in 1 .. Len(records) /\ u[i] = records[i - 1]
  BY <1>10, <1>11, <1>12, <1>13, <1>14, AddedNames
<1>16. PICK shown : shown = << x >> \o rows
  OBVIOUS
<1>17. shown \in Seq(Record) /\ NamesOnce(shown)
  BY <1>10, <1>11, <1>14, <1>16, AddedNames
<1>18. Within(u, shown)
  BY <1>12, <1>13, <1>14, <1>16, AddedFits
<1>19. PICK dropped : dropped = dl.dropped \cup { r.id : r \in ToSet(p) \ ToSet(u) }
  OBVIOUS
<1>20. /\ p \in Seq(Record) /\ Len(p) = Len(records) + 1
       /\ \A i \in 2 .. Len(records) + 1 : i - 1 \in 1 .. Len(records) /\ p[i] = records[i - 1]
  BY <1>12, FrontIs
<1>21. dropped \in SUBSET Downloads /\ dl.dropped \subseteq dropped
  <2>1. dl.dropped \in SUBSET Downloads
    BY <1>1 DEF DlType
  <2>2. ToSet(p) \subseteq Record
    BY <1>20 DEF ToSet
  <2>3. \A r \in ToSet(p) : r.id \in Downloads
    BY <2>2 DEF Record
  <2> QED BY <1>19, <2>1, <2>3
<1>22. ASSUME NEW e, Names(records, e) PROVE Names(u, e) \/ e \in dropped
  <2>1. PICK i \in 1 .. Len(records) : records[i].id = e
    BY <1>22 DEF Names
  <2>2. i + 1 \in 2 .. Len(records) + 1 /\ i + 1 \in 1 .. Len(p) /\ (i + 1) - 1 = i
    BY <1>20
  <2>3. p[i + 1] = records[i]
    BY <1>20, <2>2
  <2>4. records[i] \in ToSet(p)
    <3>1. i + 1 \in DOMAIN p
      BY <1>20, <2>2
    <3> QED BY <2>3, <3>1, Zenon DEF ToSet
  <2>5. CASE records[i] \in ToSet(u)
    <3>1. PICK j \in DOMAIN u : u[j] = records[i]
      BY <2>5, Zenon DEF ToSet
    <3>2. j \in 1 .. Len(u)
      BY <1>15
    <3> QED BY <2>1, <3>1, <3>2 DEF Names
  <2>6. CASE records[i] \notin ToSet(u)
    BY <1>19, <2>1, <2>4, <2>6
  <2> QED BY <2>5, <2>6
<1>23. ASSUME NEW i \in 1 .. Len(shown) PROVE Names(u, shown[i].id) \/ shown[i].id \in dropped
  <2>1. /\ Len(shown) = Len(rows) + 1 /\ shown[1] = x /\ Len(rows) \in Nat
        /\ \A j \in 2 .. Len(rows) + 1 : j - 1 \in 1 .. Len(rows) /\ shown[j] = rows[j - 1]
    BY <1>16, FrontIs
  <2>2. CASE i = 1
    BY <1>15, <2>1, <2>2 DEF Names
  <2>3. CASE i # 1
    <3>1. i \in 2 .. Len(rows) + 1
      BY <2>1, <2>3
    <3>2. PICK j \in 1 .. Len(rows) : shown[i] = rows[j]
      BY <2>1, <3>1
    <3>3. Names(records, rows[j].id) \/ rows[j].id \in dropped
      BY <1>14, <1>21
    <3> QED BY <1>22, <3>2, <3>3
  <2> QED BY <2>2, <2>3
<1>24. ShownFits(u, shown, dropped)
  BY <1>15, <1>17, <1>18, <1>23 DEF ShownFits
<1>25. PICK held : held = dl.held \cup {d}
  OBVIOUS
<1>26. held \in SUBSET Downloads
  BY <1>1, <1>25 DEF DlType
<1>27. ASSUME NEW i \in 1 .. Len(u), i # 1
       PROVE  /\ u[i].id \in Downloads /\ u[i].id # d
              /\ u[i].status \in Active => u[i].id \in dl.held /\ request[u[i].id] = u[i].status
              /\ u[i].id \in dl.held => u[i].status \in Active
  <2>1. i \in 2 .. Len(u)
    BY <1>15, <1>27
  <2>2. PICK j \in 1 .. Len(records) : u[i] = records[j]
    BY <1>15, <2>1
  <2>3. records[j] \in Record /\ records[j].id # d
    BY <1>11 DEF Names
  <2> QED BY <1>3, <2>2, <2>3 DEF HeldFits, Record
<1>28. HeldFits(answered, u, held, dropped)
  <2>1. ASSUME NEW i \in 1 .. Len(u)
        PROVE  /\ u[i].status \in Active => u[i].id \in held /\ answered[u[i].id] = u[i].status
               /\ u[i].id \in held => u[i].status \in Active
    <3>1. CASE i = 1
      BY <1>4, <1>8, <1>10, <1>15, <1>25, <3>1
    <3>2. CASE i # 1
      BY <1>8, <1>25, <1>27, <3>2
    <3> QED BY <3>1, <3>2
  <2>2. ASSUME NEW e \in held PROVE Names(u, e) \/ e \in dropped
    <3>1. CASE e = d
      BY <1>10, <1>15, <3>1 DEF Names
    <3>2. CASE e # d
      <4>1. Names(records, e) \/ e \in dl.dropped
        BY <1>3, <1>25, <3>2 DEF HeldFits
      <4> QED BY <1>21, <1>22, <4>1
    <3> QED BY <3>1, <3>2
  <2>3. ASSUME NEW e \in Downloads, answered[e] \in Active PROVE e \in held
    <3>1. CASE e = d
      BY <1>25, <3>1
    <3>2. CASE e # d
      BY <1>3, <1>8, <1>25, <2>3, <3>2 DEF HeldFits
    <3> QED BY <3>1, <3>2
  <2> QED BY <2>1, <2>2, <2>3 DEF HeldFits
<1>29. Begun(answered, u) /\ Begun(answered, shown)
  <2>1. ASSUME NEW s \in Seq(Record), Begun(request, s), NEW i \in 1 .. Len(s) PROVE answered[s[i].id] \notin { "none", "requested" }
    <3>1. s[i] \in Record /\ s[i].id # d /\ request[s[i].id] \notin { "none", "requested" }
      BY <1>5, <2>1 DEF Begun
    <3>2. s[i].id \in Downloads
      BY <3>1 DEF Record
    <3> QED BY <1>8, <3>1, <3>2
  <2>2. ASSUME NEW i \in 1 .. Len(u) PROVE answered[u[i].id] \notin { "none", "requested" }
    <3>1. CASE i = 1
      BY <1>8, <1>10, <1>15, <3>1
    <3>2. CASE i # 1
      <4>1. i \in 2 .. Len(u)
        BY <1>15, <3>2
      <4> QED BY <1>3, <1>15, <2>1, <4>1
    <3> QED BY <3>1, <3>2
  <2>3. ASSUME NEW i \in 1 .. Len(shown) PROVE answered[shown[i].id] \notin { "none", "requested" }
    <3>1. /\ Len(shown) = Len(rows) + 1 /\ shown[1] = x /\ Len(rows) \in Nat
          /\ \A j \in 2 .. Len(rows) + 1 : j - 1 \in 1 .. Len(rows) /\ shown[j] = rows[j - 1]
      BY <1>16, FrontIs
    <3>2. CASE i = 1
      BY <1>8, <1>10, <3>1, <3>2
    <3>3. CASE i # 1
      <4>1. i \in 2 .. Len(rows) + 1
        BY <3>1, <3>3
      <4> QED BY <1>3, <2>1, <3>1, <4>1
    <3> QED BY <3>2, <3>3
  <2> QED BY <2>2, <2>3 DEF Begun
<1>30. Begun(answered, file)
  BY <1>3, <1>4, <1>5, <1>6, BegunStill
<1>31. PICK S : S = [dl EXCEPT !.dialogs = Tail(dialogs), !.request = answered, !.held = held, !.records = u,
                               !.dropped = dropped]
  OBVIOUS
<1>32. PICK T : T = [S EXCEPT !.rows = shown]
  OBVIOUS
<1>33. S.records = u /\ S.rows = rows
  BY <1>1, <1>2, <1>31 DEF DlType
<1>34. AddRecord(S, d) = T
  <2>1. ~ \E row \in ToSet(S.rows) : row.id = d
    BY <1>11, <1>33 DEF Names, ToSet
  <2>2. AddRecord(S, d) = [S EXCEPT !.rows = << S.records[FirstWithId(S.records, d)] >> \o S.rows]
    BY <2>1, AddRecordIs
  <2>3. Names(u, d)
    BY <1>10, <1>15 DEF Names
  <2>4. FirstWithId(u, d) \in 1 .. Len(u) /\ u[FirstWithId(u, d)].id = d
    BY <1>15, <2>3, FirstNamed
  <2>5. FirstWithId(u, d) = 1
    BY <1>10, <1>15, <2>4 DEF NamesOnce
  <2> QED BY <1>15, <1>16, <1>32, <1>33, <2>2, <2>5
<1>35. dl' = ScheduleSave(T)
  <2>1. dl' = ScheduleSave(AddRecord([dl EXCEPT
                !.dialogs = Tail(dl.dialogs), !.request[Head(dl.dialogs)] = "InProgress",
                !.held = dl.held \cup {Head(dl.dialogs)},
                !.records = Bounded(<< [id |-> Head(dl.dialogs), status |-> "InProgress"] >> \o dl.records),
                !.dropped = dl.dropped \cup
                  { r.id : r \in ToSet(<< [id |-> Head(dl.dialogs), status |-> "InProgress"] >> \o dl.records)
                                 \ ToSet(Bounded(<< [id |-> Head(dl.dialogs), status |-> "InProgress"] >> \o dl.records)) }],
              Head(dl.dialogs)))
    BY Zenon DEF SaveAs, Is
  <2>2. dl' = ScheduleSave(AddRecord([dl EXCEPT
                !.dialogs = Tail(dialogs), !.request[d] = "InProgress",
                !.held = held, !.records = u, !.dropped = dropped], d))
    BY <1>2, <1>5, <1>9, <1>12, <1>13, <1>19, <1>25, <2>1
  <2>3. [dl EXCEPT !.dialogs = Tail(dialogs), !.request[d] = "InProgress",
                   !.held = held, !.records = u, !.dropped = dropped] = S
    BY <1>1, <1>2, <1>6, <1>31 DEF DlType
  <2> QED BY <1>34, <2>2, <2>3
<1>36. S \in DlType
  BY <1>1, <1>7, <1>8, <1>15, <1>21, <1>26, <1>31 DEF DlType
<1>37. T \in DlType
  BY <1>17, <1>32, <1>36 DEF DlType
<1>38. /\ S.request = answered /\ S.dialogs = Tail(dialogs) /\ S.held = held /\ S.dropped = dropped /\ S.file = file
  BY <1>1, <1>2, <1>31 DEF DlType
<1>39. /\ T.request = answered /\ T.dialogs = Tail(dialogs) /\ T.records = u /\ T.rows = shown /\ T.held = held
       /\ T.dropped = dropped /\ T.file = file
  BY <1>32, <1>33, <1>36, <1>38 DEF DlType
<1>40. T.running
  <2>1. S.running
    BY <1>1, <1>31 DEF DlType
  <2> QED BY <1>32, <1>36, <2>1 DEF DlType
<1>41. DlFits(T)
  BY <1>3, <1>7, <1>24, <1>28, <1>29, <1>30, <1>39 DEF DlFits
<1> QED BY <1>35, <1>37, <1>40, <1>41, ScheduledFits

LEMMA ProgressFits ==
  ASSUME DlInv(dl), Progress
  PROVE  DlInv(dl')
<1>1. PICK d \in Downloads : dl.running /\ dl.request[d] \in Active /\ \E T \in Update(dl, d) : dl' = T
  BY Zenon DEF Progress, Running, Is
<1>2. dl \in DlType /\ DlFits(dl) /\ SavedFits(dl)
  BY <1>1 DEF DlInv
<1>3. /\ ShownFits(dl.records, dl.rows, dl.dropped) /\ Asked(dl.request, dl.dialogs)
      /\ Begun(dl.request, dl.records) /\ Begun(dl.request, dl.rows) /\ Begun(dl.request, dl.file)
      /\ NamesOnce(dl.file) /\ HeldFits(dl.request, dl.records, dl.held, dl.dropped)
  BY <1>2 DEF DlFits
<1>4. dl.request[d] \in Statuses \ { "Interrupted" } /\ d \in dl.held
  BY <1>1, <1>3 DEF HeldFits, Active, Statuses
<1>5. \A i \in 1 .. Len(dl.records) : dl.records[i].id # d =>
           /\ dl.records[i].status \in Active =>
                dl.records[i].id \in dl.held /\ dl.request[dl.records[i].id] = dl.records[i].status
           /\ dl.records[i].id \in dl.held => dl.records[i].status \in Active
  BY <1>3 DEF HeldFits
<1>6. \A e \in dl.held : Names(dl.records, e) \/ e \in dl.dropped
  BY <1>3 DEF HeldFits
<1>7. \A e \in Downloads : e # d /\ dl.request[e] \in Active => e \in dl.held
  BY <1>3 DEF HeldFits
<1>8. dl' \in Update(dl, d)
  BY <1>1
<1> QED BY <1>1, <1>2, <1>3, <1>4, <1>5, <1>6, <1>7, <1>8, UpdateFits

\* A request that is held changes its state and its record is updated.
LEMMA ChangedFits ==
  ASSUME DlInv(dl), dl.running, NEW d \in Downloads, dl.request[d] \in Active, NEW state \in Active \cup { Ended },
         NEW pauses \in Nat, NEW T \in Update([dl EXCEPT !.pauses = pauses, !.request[d] = state], d)
  PROVE  DlInv(T)
<1>1. dl \in DlType /\ DlFits(dl) /\ SavedFits(dl)
  BY DEF DlInv
<1>2. PICK request \in [Downloads -> Requests], dialogs \in Seq(Downloads), records \in Seq(Record), rows \in Seq(Record),
           file \in Seq(Record) :
        request = dl.request /\ dialogs = dl.dialogs /\ records = dl.records /\ rows = dl.rows /\ file = dl.file
  BY <1>1 DEF DlType
<1>3. /\ Begun(request, records) /\ Begun(request, rows) /\ Begun(request, file) /\ Asked(request, dialogs)
      /\ HeldFits(request, records, dl.held, dl.dropped) /\ ShownFits(records, rows, dl.dropped) /\ NamesOnce(file)
  BY <1>1, <1>2 DEF DlFits
<1>4. state \in Requests /\ state \notin { "none", "requested" } /\ state \in Statuses \ { "Interrupted" }
  BY DEF Active, Ended, Requests, Statuses
<1>5. PICK changed : changed = [request EXCEPT ![d] = state]
  OBVIOUS
<1>6. changed \in [Downloads -> Requests] /\ changed[d] = state /\ \A e \in Downloads \ {d} : changed[e] = request[e]
  BY <1>4, <1>5
<1>7. Begun(changed, records)
  BY <1>3, <1>4, <1>5, BegunStill
<1>8. Begun(changed, rows)
  BY <1>3, <1>4, <1>5, BegunStill
<1>9. Begun(changed, file)
  BY <1>3, <1>4, <1>5, BegunStill
<1>10. Asked(changed, dialogs)
  <2>1. request[d] # "requested"
    BY <1>2 DEF Active
  <2> QED BY <1>3, <1>4, <1>5, <2>1, AskedStill
<1>11. d \in dl.held
  BY <1>2, <1>3 DEF HeldFits
<1>12. PICK S : S = [dl EXCEPT !.pauses = pauses, !.request = changed]
  OBVIOUS
<1>13. S \in DlType
  BY <1>1, <1>6, <1>12 DEF DlType
<1>14. /\ S.request = changed /\ S.dialogs = dialogs /\ S.records = records /\ S.rows = rows /\ S.file = file
       /\ S.held = dl.held /\ S.dropped = dl.dropped
  BY <1>1, <1>2, <1>12 DEF DlType
<1>15. S.running /\ SavedFits(S)
  <2>1. S.running /\ S.timer = dl.timer /\ S.behind = dl.behind
    BY <1>1, <1>12 DEF DlType
  <2> QED BY <1>1, <1>2, <1>14, <2>1 DEF SavedFits
<1>16. T \in Update(S, d)
  <2>1. S = [dl EXCEPT !.pauses = pauses, !.request[d] = state]
    BY <1>1, <1>2, <1>5, <1>12 DEF DlType
  <2> QED BY <2>1
<1>17. ASSUME NEW i \in 1 .. Len(S.records), S.records[i].id # d
       PROVE  /\ S.records[i].status \in Active =>
                   S.records[i].id \in S.held /\ S.request[S.records[i].id] = S.records[i].status
              /\ S.records[i].id \in S.held => S.records[i].status \in Active
  <2>1. i \in 1 .. Len(records) /\ S.records[i] = records[i]
    BY <1>14
  <2>2. records[i] \in Record
    BY <2>1
  <2>3. records[i].id \in Downloads \ {d}
    BY <1>17, <2>1, <2>2 DEF Record
  <2> QED BY <1>3, <1>6, <1>14, <2>1, <2>3 DEF HeldFits
<1>18. \A e \in S.held : Names(S.records, e) \/ e \in S.dropped
  BY <1>3, <1>14 DEF HeldFits
<1>19. \A e \in Downloads : e # d /\ S.request[e] \in Active => e \in S.held
  BY <1>3, <1>6, <1>14 DEF HeldFits
<1>20. ShownFits(S.records, S.rows, S.dropped) /\ Asked(S.request, S.dialogs)
  BY <1>3, <1>10, <1>14
<1>21. Begun(S.request, S.records) /\ Begun(S.request, S.rows) /\ Begun(S.request, S.file) /\ NamesOnce(S.file)
  BY <1>3, <1>7, <1>8, <1>9, <1>14
<1>22. S.request[d] \in Statuses \ { "Interrupted" } /\ d \in S.held
  BY <1>4, <1>6, <1>11, <1>14
<1>23. \A i \in 1 .. Len(S.records) : S.records[i].id # d =>
           /\ S.records[i].status \in Active =>
                S.records[i].id \in S.held /\ S.request[S.records[i].id] = S.records[i].status
           /\ S.records[i].id \in S.held => S.records[i].status \in Active
  BY <1>17
<1> QED BY <1>13, <1>15, <1>16, <1>18, <1>19, <1>20, <1>21, <1>22, <1>23, UpdateFits

LEMMA EndFits ==
  ASSUME DlInv(dl), End
  PROVE  DlInv(dl')
<1>1. PICK d \in Downloads :
        dl.running /\ dl.request[d] \in Active /\ \E T \in Update([dl EXCEPT !.request[d] = Ended], d) : dl' = T
  BY Zenon DEF End, Running, Is
<1>2. dl \in DlType
  BY DEF DlInv
<1>3. PICK pauses \in Nat : pauses = dl.pauses
  BY <1>2 DEF DlType
<1>4. [dl EXCEPT !.pauses = pauses, !.request[d] = Ended] = [dl EXCEPT !.request[d] = Ended]
  BY <1>2, <1>3 DEF DlType
<1>5. dl' \in Update([dl EXCEPT !.pauses = pauses, !.request[d] = Ended], d)
  BY <1>1, <1>4
<1>6. Ended \in Active \cup { Ended }
  OBVIOUS
<1> QED BY <1>1, <1>5, <1>6, ChangedFits, Zenon

LEMMA PauseFits ==
  ASSUME DlInv(dl), PauseOrResume
  PROVE  DlInv(dl')
<1>1. dl \in DlType
  BY DEF DlInv
<1>2. dl.held \subseteq Downloads
  BY <1>1 DEF DlType
<1>3. PICK d \in Downloads :
        /\ dl.running /\ dl.request[d] \in Active
        /\ \E T \in Update([dl EXCEPT !.pauses = dl.pauses + 1,
                                      !.request[d] = IF dl.request[d] = "Paused" THEN "InProgress" ELSE "Paused"], d) :
             dl' = T
  BY <1>2, Zenon DEF PauseOrResume, Running, Is
<1>4. PICK pauses \in Nat : pauses = dl.pauses + 1
  BY <1>1 DEF DlType
<1>5. PICK state \in Active \cup { Ended } : state = IF dl.request[d] = "Paused" THEN "InProgress" ELSE "Paused"
  BY DEF Active
<1>6. dl' \in Update([dl EXCEPT !.pauses = pauses, !.request[d] = state], d)
  BY <1>3, <1>4, <1>5
<1> QED BY <1>3, <1>6, ChangedFits, Zenon

\* The states that S, of which T is known to be without the request, goes over to.
Gone(S, T, d) ==
  IF \E r \in ToSet(S.records) : r.id = d /\ r.status \in Active
  THEN SavedNow(UpdateRecord([T EXCEPT !.records = Marked(T.records, d, "Interrupted")], d))
  ELSE {T}

LEMMA DestroyFits ==
  ASSUME DlInv(dl), Destroy
  PROVE  DlInv(dl')
<1>1. PICK d \in Downloads :
        /\ dl.running /\ dl.request[d] \in Active \cup { Ended } /\ \E T \in Destroyed(dl, d) : dl' = T
  BY Zenon DEF Destroy, Is
<1>2. dl \in DlType /\ DlFits(dl) /\ SavedFits(dl)
  BY <1>1 DEF DlInv
<1>3. PICK request \in [Downloads -> Requests], dialogs \in Seq(Downloads), records \in Seq(Record), rows \in Seq(Record),
           file \in Seq(Record) :
        request = dl.request /\ dialogs = dl.dialogs /\ records = dl.records /\ rows = dl.rows /\ file = dl.file
  BY <1>2 DEF DlType
<1>4. /\ Begun(request, records) /\ Begun(request, rows) /\ Begun(request, file) /\ Asked(request, dialogs)
      /\ HeldFits(request, records, dl.held, dl.dropped) /\ ShownFits(records, rows, dl.dropped) /\ NamesOnce(file)
  BY <1>2, <1>3 DEF DlFits
<1>5. "gone" \in Requests /\ "gone" \notin { "none", "requested" } /\ "gone" \notin Active
      /\ "Interrupted" \in Statuses /\ "Interrupted" \notin Active /\ request[d] # "requested"
  BY <1>1, <1>3 DEF Requests, Active, Ended, Statuses
<1>6. PICK gone : gone = [request EXCEPT ![d] = "gone"]
  OBVIOUS
<1>7. gone \in [Downloads -> Requests] /\ gone[d] = "gone" /\ \A e \in Downloads \ {d} : gone[e] = request[e]
  BY <1>5, <1>6
<1>8. Begun(gone, records)
  BY <1>4, <1>5, <1>6, BegunStill
<1>9. Begun(gone, rows)
  BY <1>4, <1>5, <1>6, BegunStill
<1>10. Begun(gone, file)
  BY <1>4, <1>5, <1>6, BegunStill
<1>11. Asked(gone, dialogs)
  BY <1>4, <1>5, <1>6, AskedStill
<1>12. PICK held : held = dl.held \ {d}
  OBVIOUS
<1>13. PICK T : T = [dl EXCEPT !.request = gone, !.held = held]
  OBVIOUS
<1>14. T \in DlType
  BY <1>2, <1>7, <1>12, <1>13 DEF DlType
<1>15. /\ T.request = gone /\ T.dialogs = dialogs /\ T.records = records /\ T.rows = rows /\ T.file = file
       /\ T.held = held /\ T.dropped = dl.dropped
  BY <1>2, <1>3, <1>13 DEF DlType
<1>16. T.running /\ SavedFits(T)
  <2>1. T.running /\ T.timer = dl.timer /\ T.behind = dl.behind
    BY <1>1, <1>2, <1>13 DEF DlType
  <2> QED BY <1>2, <1>3, <1>15, <2>1 DEF SavedFits
<1>17. T = [dl EXCEPT !.request[d] = "gone", !.held = dl.held \ {d}]
  BY <1>2, <1>3, <1>6, <1>12, <1>13 DEF DlType
<1>18. dl' \in IF \E r \in ToSet(dl.records) : r.id = d /\ r.status \in Active
               THEN SavedNow(UpdateRecord([T EXCEPT !.records = Marked(T.records, d, "Interrupted")], d))
               ELSE {T}
  <2>1. Destroyed(dl, d) = Gone(dl, [dl EXCEPT !.request[d] = "gone", !.held = dl.held \ {d}], d)
    BY Zenon DEF Destroyed, Gone
  <2>2. dl' \in Gone(dl, T, d)
    BY <1>1, <1>17, <2>1
  <2> QED BY <2>2, Zenon DEF Gone
<1>19. ASSUME NEW i \in 1 .. Len(records), records[i].id # d
       PROVE  /\ records[i].status \in Active => records[i].id \in held /\ gone[records[i].id] = records[i].status
              /\ records[i].id \in held => records[i].status \in Active
  <2>1. records[i] \in Record
    OBVIOUS
  <2>2. records[i].id \in Downloads \ {d}
    BY <1>19, <2>1 DEF Record
  <2> QED BY <1>4, <1>7, <1>12, <2>2 DEF HeldFits
<1>20. \A e \in held : Names(records, e) \/ e \in dl.dropped
  BY <1>4, <1>12 DEF HeldFits
<1>21. \A e \in Downloads : gone[e] \in Active => e \in held
  <2>1. ASSUME NEW e \in Downloads, gone[e] \in Active PROVE e \in held
    <3>1. e # d
      BY <1>5, <1>7, <2>1
    <3> QED BY <1>4, <1>7, <1>12, <2>1, <3>1 DEF HeldFits
  <2> QED BY <2>1
<1>22. CASE ~ \E r \in ToSet(dl.records) : r.id = d /\ r.status \in Active
  <2>1. ASSUME NEW i \in 1 .. Len(records), records[i].id = d PROVE records[i].status \notin Active
    <3>1. i \in DOMAIN records
      OBVIOUS
    <3>2. records[i] \in ToSet(dl.records)
      BY <1>3, <3>1, Zenon DEF ToSet
    <3> QED BY <1>22, <2>1, <3>2
  <2>2. ASSUME NEW i \in 1 .. Len(records)
        PROVE  /\ records[i].status \in Active => records[i].id \in held /\ gone[records[i].id] = records[i].status
               /\ records[i].id \in held => records[i].status \in Active
    <3>1. CASE records[i].id = d
      BY <1>12, <2>1, <3>1
    <3>2. CASE records[i].id # d
      BY <1>19, <3>2
    <3> QED BY <3>1, <3>2
  <2>3. HeldFits(gone, records, held, dl.dropped)
    BY <1>20, <1>21, <2>2 DEF HeldFits
  <2>4. DlFits(T)
    BY <1>4, <1>8, <1>9, <1>10, <1>11, <1>15, <2>3 DEF DlFits
  <2>5. DlInv(T)
    BY <1>14, <1>16, <2>4 DEF DlInv
  <2>6. dl' = T
    BY <1>18, <1>22
  <2> QED BY <2>5, <2>6
<1>23. CASE \E r \in ToSet(dl.records) : r.id = d /\ r.status \in Active
  <2>1. Names(records, d)
    <3>1. PICK i \in DOMAIN records : records[i].id = d
      BY <1>3, <1>23, Zenon DEF ToSet
    <3>2. i \in 1 .. Len(records)
      OBVIOUS
    <3> QED BY <3>1, <3>2 DEF Names
  <2>2. PICK marked \in Seq(Record) : marked = Marked(records, d, "Interrupted")
    BY <1>5, MarkedIs
  <2>3. PICK shown \in Seq(Record) : shown = Marked(rows, d, "Interrupted")
    BY <1>5, MarkedIs
  <2>4. marked[FirstWithId(marked, d)].status = "Interrupted"
    BY <1>5, <2>1, <2>2, MarkedFirst
  <2>5. PICK R : R = [T EXCEPT !.records = marked]
    OBVIOUS
  <2>6. R.records = marked /\ R.rows = rows
    BY <1>14, <1>15, <2>5 DEF DlType
  <2>7. UpdateRecord(R, d) = [R EXCEPT !.rows = Marked(R.rows, d, R.records[FirstWithId(R.records, d)].status)]
    BY UpdateRecordIs, Zenon
  <2>8. UpdateRecord(R, d) = [R EXCEPT !.rows = shown]
    BY <2>3, <2>4, <2>6, <2>7
  <2>9. PICK U : U = [R EXCEPT !.rows = shown]
    OBVIOUS
  <2>10. R \in DlType
    BY <1>14, <2>5 DEF DlType
  <2>11. U \in DlType
    BY <2>9, <2>10 DEF DlType
  <2>12. /\ R.request = gone /\ R.dialogs = dialogs /\ R.file = file /\ R.held = held /\ R.dropped = dl.dropped
    BY <1>14, <1>15, <2>5 DEF DlType
  <2>13. /\ U.request = gone /\ U.dialogs = dialogs /\ U.records = marked /\ U.rows = shown /\ U.file = file
         /\ U.held = held /\ U.dropped = dl.dropped
    BY <2>6, <2>9, <2>10, <2>12 DEF DlType
  <2>14. U.running
    <3>1. R.running
      BY <1>14, <1>16, <2>5 DEF DlType
    <3> QED BY <2>9, <2>10, <3>1 DEF DlType
  <2>15. /\ Len(marked) = Len(records)
         /\ \A i \in 1 .. Len(records) :
              marked[i] = IF records[i].id = d THEN [id |-> d, status |-> "Interrupted"] ELSE records[i]
    BY <1>5, <2>2, MarkedIs
  <2>16. (\A i \in 1 .. Len(records) : marked[i].id = records[i].id) /\ \A e : Names(marked, e) <=> Names(records, e)
    BY <1>5, <2>2, MarkedNames
  <2>17. ASSUME NEW i \in 1 .. Len(marked)
         PROVE  /\ marked[i].status \in Active => marked[i].id \in held /\ gone[marked[i].id] = marked[i].status
                /\ marked[i].id \in held => marked[i].status \in Active
    <3>1. i \in 1 .. Len(records)
      BY <2>15
    <3>2. CASE records[i].id = d
      BY <1>5, <1>12, <2>15, <3>1, <3>2
    <3>3. CASE records[i].id # d
      <4>1. marked[i] = records[i]
        BY <2>15, <3>1, <3>3
      <4> QED BY <1>19, <3>1, <3>3, <4>1
    <3> QED BY <3>2, <3>3
  <2>18. HeldFits(gone, marked, held, dl.dropped)
    BY <1>20, <1>21, <2>16, <2>17 DEF HeldFits
  <2>19. Begun(gone, marked)
    BY <1>8, <2>15, <2>16 DEF Begun
  <2>20. Begun(gone, shown)
    <3>3. PICK status \in Statuses : status = "Interrupted"
      BY <1>5
    <3>4. Len(Marked(rows, d, status)) = Len(rows)
      BY MarkedIs
    <3>1. Len(shown) = Len(rows)
      BY <2>3, <3>3, <3>4
    <3>2. \A i \in 1 .. Len(rows) : shown[i].id = rows[i].id
      BY <1>5, <2>3, MarkedNames
    <3> QED BY <1>9, <3>1, <3>2 DEF Begun
  <2>21. ShownFits(marked, shown, dl.dropped)
    BY <1>4, <1>5, <2>2, <2>3, MarkedShown
  <2>22. DlFits(U)
    BY <1>4, <1>10, <1>11, <2>13, <2>18, <2>19, <2>20, <2>21 DEF DlFits
  <2>23. dl' \in SavedNow(U)
    <3>1. dl' \in SavedNow(UpdateRecord([T EXCEPT !.records = Marked(T.records, d, "Interrupted")], d))
      BY <1>18, <1>23
    <3>2. R = [T EXCEPT !.records = Marked(T.records, d, "Interrupted")]
      BY <1>15, <2>2, <2>5
    <3> QED BY <2>8, <2>9, <3>1, <3>2
  <2> QED BY <2>11, <2>14, <2>22, <2>23, SavedNowFits
<1> QED BY <1>22, <1>23

LEMMA RemovedFits ==
  ASSUME DlInv(dl), RemoveFromHistory
  PROVE  DlInv(dl')
<1>1. dl \in DlType /\ DlFits(dl) /\ SavedFits(dl) /\ dl.running
  BY DEF DlInv, RemoveFromHistory
<1>2. PICK request \in [Downloads -> Requests], dialogs \in Seq(Downloads), records \in Seq(Record), rows \in Seq(Record),
           file \in Seq(Record) :
        request = dl.request /\ dialogs = dl.dialogs /\ records = dl.records /\ rows = dl.rows /\ file = dl.file
  BY <1>1 DEF DlType
<1>3. /\ Begun(request, records) /\ Begun(request, rows) /\ Begun(request, file) /\ Asked(request, dialogs)
      /\ HeldFits(request, records, dl.held, dl.dropped) /\ ShownFits(records, rows, dl.dropped) /\ NamesOnce(file)
  BY <1>1, <1>2 DEF DlFits
<1>4. PICK row \in ToSet(dl.rows) :
        /\ row.id \notin dl.held
        /\ \E T \in SavedNow([[dl EXCEPT !.records = ElementsAt(dl.records, { i \in DOMAIN dl.records : dl.records[i].id # row.id })]
                               EXCEPT !.rows = ElementsAt(@, { i \in DOMAIN @ : @[i].id # row.id })]) : dl' = T
  BY Zenon DEF RemoveFromHistory, Saves, Is, RemoveRecord, ElementsWith
<1>5. PICK x : x = row.id
  OBVIOUS
<1>6. PICK ks \in SUBSET (1 .. Len(records)) : ks = { i \in 1 .. Len(records) : records[i].id # x }
  OBVIOUS
<1>7. PICK kt \in SUBSET (1 .. Len(rows)) : kt = { i \in 1 .. Len(rows) : rows[i].id # x }
  OBVIOUS
<1>8. PICK u : u = ElementsAt(records, ks)
  OBVIOUS
<1>9. PICK v : v = ElementsAt(rows, kt)
  OBVIOUS
<1>10. PICK S : S = [dl EXCEPT !.records = u]
  OBVIOUS
<1>11. PICK T : T = [S EXCEPT !.rows = v]
  OBVIOUS
<1>12. NamesOnce(records) /\ NamesOnce(rows) /\ Within(records, rows)
       /\ \A i \in 1 .. Len(rows) : Names(records, rows[i].id) \/ rows[i].id \in dl.dropped
  BY <1>3 DEF ShownFits
<1>13. u \in Seq(Record) /\ NamesOnce(u) /\ (\A n \in 1 .. Len(u) : \E i \in ks : u[n] = records[i])
       /\ \A i \in ks : \E n \in 1 .. Len(u) : u[n] = records[i]
  BY <1>8, <1>12, KeptNames
<1>14. v \in Seq(Record) /\ NamesOnce(v) /\ \A n \in 1 .. Len(v) : \E i \in kt : v[n] = rows[i]
  BY <1>9, <1>12, KeptNames
<1>15. Within(u, v)
  <2>1. Within(ElementsAt(records, Apart(records, x)), ElementsAt(rows, Apart(rows, x)))
    BY <1>12, KeptFits
  <2>2. Apart(records, x) = ks /\ Apart(rows, x) = kt
    BY <1>6, <1>7 DEF Apart
  <2> QED BY <1>8, <1>9, <2>1, <2>2
<1>16. ASSUME NEW e, e # x, Names(records, e) PROVE Names(u, e)
  <2>1. PICK i \in ks : records[i].id = e
    BY <1>6, <1>16 DEF Names
  <2> QED BY <1>13, <2>1 DEF Names
<1>17. \A i \in 1 .. Len(v) : Names(u, v[i].id) \/ v[i].id \in dl.dropped
  <2>1. ASSUME NEW i \in 1 .. Len(v) PROVE Names(u, v[i].id) \/ v[i].id \in dl.dropped
    <3>1. PICK j \in kt : v[i] = rows[j]
      BY <1>14
    <3>2. rows[j].id # x /\ j \in 1 .. Len(rows)
      BY <1>7
    <3> QED BY <1>12, <1>16, <3>1, <3>2
  <2> QED BY <2>1
<1>18. ShownFits(u, v, dl.dropped)
  BY <1>13, <1>14, <1>15, <1>17 DEF ShownFits
<1>19. Begun(request, u)
  <2>1. ASSUME NEW n \in 1 .. Len(u) PROVE request[u[n].id] \notin { "none", "requested" }
    <3>1. PICK i \in ks : u[n] = records[i]
      BY <1>13
    <3> QED BY <1>3, <3>1 DEF Begun
  <2> QED BY <2>1 DEF Begun
<1>20. Begun(request, v)
  <2>1. ASSUME NEW n \in 1 .. Len(v) PROVE request[v[n].id] \notin { "none", "requested" }
    <3>1. PICK i \in kt : v[n] = rows[i]
      BY <1>14
    <3> QED BY <1>3, <3>1 DEF Begun
  <2> QED BY <2>1 DEF Begun
<1>21. HeldFits(request, u, dl.held, dl.dropped)
  <2>1. ASSUME NEW n \in 1 .. Len(u)
        PROVE  /\ u[n].status \in Active => u[n].id \in dl.held /\ request[u[n].id] = u[n].status
               /\ u[n].id \in dl.held => u[n].status \in Active
    <3>1. PICK i \in ks : u[n] = records[i]
      BY <1>13
    <3> QED BY <1>3, <3>1 DEF HeldFits
  <2>2. \A e \in dl.held : Names(u, e) \/ e \in dl.dropped
    BY <1>3, <1>4, <1>5, <1>16 DEF HeldFits
  <2>3. \A e \in Downloads : request[e] \in Active => e \in dl.held
    BY <1>3 DEF HeldFits
  <2> QED BY <2>1, <2>2, <2>3 DEF HeldFits
<1>22. S \in DlType /\ S.rows = rows
  BY <1>1, <1>2, <1>10, <1>13 DEF DlType
<1>23. T \in DlType
  BY <1>11, <1>14, <1>22 DEF DlType
<1>24. /\ S.request = request /\ S.dialogs = dialogs /\ S.records = u /\ S.file = file
       /\ S.held = dl.held /\ S.dropped = dl.dropped
  BY <1>1, <1>2, <1>10 DEF DlType
<1>25. /\ T.request = request /\ T.dialogs = dialogs /\ T.records = u /\ T.rows = v /\ T.file = file
       /\ T.held = dl.held /\ T.dropped = dl.dropped
  BY <1>11, <1>22, <1>24 DEF DlType
<1>26. T.running
  <2>1. S.running
    BY <1>1, <1>10 DEF DlType
  <2> QED BY <1>11, <1>22, <2>1 DEF DlType
<1>27. DlFits(T)
  BY <1>3, <1>18, <1>19, <1>20, <1>21, <1>25 DEF DlFits
<1>28. dl' \in SavedNow(T)
  <2>1. S = [dl EXCEPT !.records = ElementsAt(dl.records, { i \in DOMAIN dl.records : dl.records[i].id # row.id })]
    <3>1. { i \in DOMAIN dl.records : dl.records[i].id # row.id } = ks
      <4>1. DOMAIN records = 1 .. Len(records)
        OBVIOUS
      <4> QED BY <1>2, <1>5, <1>6, <4>1
    <3> QED BY <1>2, <1>8, <1>10, <3>1
  <2>2. T = [S EXCEPT !.rows = ElementsAt(S.rows, { i \in DOMAIN S.rows : S.rows[i].id # row.id })]
    <3>1. { i \in DOMAIN rows : rows[i].id # row.id } = kt
      <4>1. DOMAIN rows = 1 .. Len(rows)
        OBVIOUS
      <4> QED BY <1>5, <1>7, <4>1
    <3> QED BY <1>9, <1>11, <1>22, <3>1
  <2>3. dl' \in SavedNow([S EXCEPT !.rows = ElementsAt(S.rows, { i \in DOMAIN S.rows : S.rows[i].id # row.id })])
    BY <1>4, <2>1
  <2> QED BY <2>2, <2>3
<1> QED BY <1>23, <1>26, <1>27, <1>28, SavedNowFits

LEMMA ClearedFits ==
  ASSUME DlInv(dl), ClearDownloads
  PROVE  DlInv(dl')
<1>1. dl \in DlType /\ DlFits(dl) /\ SavedFits(dl) /\ dl.running
  BY DEF DlInv, ClearDownloads
<1>2. PICK request \in [Downloads -> Requests], dialogs \in Seq(Downloads), records \in Seq(Record), rows \in Seq(Record),
           file \in Seq(Record) :
        request = dl.request /\ dialogs = dl.dialogs /\ records = dl.records /\ rows = dl.rows /\ file = dl.file
  BY <1>1 DEF DlType
<1>3. /\ Begun(request, records) /\ Begun(request, rows) /\ Begun(request, file) /\ Asked(request, dialogs)
      /\ HeldFits(request, records, dl.held, dl.dropped) /\ ShownFits(records, rows, dl.dropped) /\ NamesOnce(file)
  BY <1>1, <1>2 DEF DlFits
<1>4. PICK kept \in SUBSET (1 .. Len(records)) : kept = { i \in 1 .. Len(records) : records[i].status \in Active }
  OBVIOUS
<1>5. PICK u : u = ElementsAt(records, kept)
  OBVIOUS
<1>6. NamesOnce(records)
  BY <1>3 DEF ShownFits
<1>7. u \in Seq(Record) /\ NamesOnce(u) /\ (\A n \in 1 .. Len(u) : \E i \in kept : u[n] = records[i])
      /\ \A i \in kept : \E n \in 1 .. Len(u) : u[n] = records[i]
  BY <1>5, <1>6, KeptNames
<1>8. PICK T : T = [dl EXCEPT !.records = u, !.rows = u]
  OBVIOUS
<1>9. T \in DlType
  BY <1>1, <1>7, <1>8 DEF DlType
<1>10. /\ T.request = request /\ T.dialogs = dialogs /\ T.records = u /\ T.rows = u /\ T.file = file
       /\ T.held = dl.held /\ T.dropped = dl.dropped
  BY <1>1, <1>2, <1>8 DEF DlType
<1>11. T.running
  BY <1>1, <1>8 DEF DlType
<1>12. ShownFits(u, u, dl.dropped)
  <2>1. Within(u, u)
    BY <1>7, WithinItself
  <2> QED BY <1>7, <2>1 DEF ShownFits, Names
<1>13. Begun(request, u)
  <2>1. ASSUME NEW n \in 1 .. Len(u) PROVE request[u[n].id] \notin { "none", "requested" }
    <3>1. PICK i \in kept : u[n] = records[i]
      BY <1>7
    <3> QED BY <1>3, <3>1 DEF Begun
  <2> QED BY <2>1 DEF Begun
<1>14. HeldFits(request, u, dl.held, dl.dropped)
  <2>1. ASSUME NEW n \in 1 .. Len(u)
        PROVE  /\ u[n].status \in Active => u[n].id \in dl.held /\ request[u[n].id] = u[n].status
               /\ u[n].id \in dl.held => u[n].status \in Active
    <3>1. PICK i \in kept : u[n] = records[i]
      BY <1>7
    <3> QED BY <1>3, <3>1 DEF HeldFits
  <2>2. ASSUME NEW e \in dl.held PROVE Names(u, e) \/ e \in dl.dropped
    <3>1. CASE e \in dl.dropped
      BY <3>1
    <3>2. CASE e \notin dl.dropped
      <4>1. PICK i \in 1 .. Len(records) : records[i].id = e
        BY <1>3, <3>2 DEF HeldFits, Names
      <4>2. i \in kept
        BY <1>3, <1>4, <4>1 DEF HeldFits
      <4> QED BY <1>7, <4>1, <4>2 DEF Names
    <3> QED BY <3>1, <3>2
  <2>3. \A e \in Downloads : request[e] \in Active => e \in dl.held
    BY <1>3 DEF HeldFits
  <2> QED BY <2>1, <2>2, <2>3 DEF HeldFits
<1>15. DlFits(T)
  BY <1>3, <1>10, <1>12, <1>13, <1>14 DEF DlFits
<1>16. dl' \in SavedNow(T)
  <2>1. PICK S : S = [dl EXCEPT !.records = ElementsAt(dl.records, { i \in DOMAIN dl.records : dl.records[i].status \in Active })]
    OBVIOUS
  <2>2. \E X \in SavedNow([S EXCEPT !.rows = S.records]) : dl' = X
    BY <2>1, Zenon DEF ClearDownloads, Saves, Is, Rebuild, ElementsWith
  <2>3. S = [dl EXCEPT !.records = u]
    <3>1. { i \in DOMAIN records : records[i].status \in Active } = kept
      <4>1. DOMAIN records = 1 .. Len(records)
        OBVIOUS
      <4> QED BY <1>4, <4>1
    <3> QED BY <1>2, <1>5, <2>1, <3>1
  <2>4. S.records = u
    BY <1>1, <2>3 DEF DlType
  <2>5. T = [S EXCEPT !.rows = S.records]
    BY <1>1, <1>8, <2>3, <2>4 DEF DlType
  <2> QED BY <2>2, <2>5
<1> QED BY <1>9, <1>11, <1>15, <1>16, SavedNowFits

\* An empty list shows no records.
LEMMA NothingFits == \A dropped : ShownFits(<< >>, << >>, dropped)
<1>1. PICK none \in Seq(Record) : none = << >>
  BY EmptySeq
<1>2. Within(none, none)
  BY WithinItself
<1>3. Len(none) = 0
  BY <1>1
<1>4. \A dropped : ShownFits(none, none, dropped)
  BY <1>2, <1>3 DEF ShownFits, NamesOnce
<1> QED BY <1>1, <1>4

\* The program ends: what it leaves is the file.
LEMMA OverFits ==
  ASSUME NEW S \in DlType, NamesOnce(S.file), Begun(S.request, S.file)
  PROVE  DlInv(Over(S))
<1>1. PICK request : request = [d \in Downloads |-> IF S.request[d] = "none" THEN "none" ELSE "gone"]
  OBVIOUS
<1>2. PICK T : T = [S EXCEPT !.running = FALSE, !.held = {}, !.dialogs = << >>, !.timer = FALSE, !.records = << >>,
                             !.rows = << >>, !.request = request]
  OBVIOUS
<1>3. T = Over(S)
  <2>1. Over(S) = [S EXCEPT !.running = FALSE, !.held = {}, !.dialogs = << >>, !.timer = FALSE, !.records = << >>,
                            !.rows = << >>,
                            !.request = [d \in Downloads |-> IF S.request[d] = "none" THEN "none" ELSE "gone"]]
    BY DEF Over, DlType
  <2> QED BY <1>1, <1>2, <2>1
<1>4. /\ request \in [Downloads -> Requests]
      /\ \A d \in Downloads : request[d] \in { "none", "gone" }
      /\ \A d \in Downloads : request[d] = "none" <=> S.request[d] = "none"
  BY <1>1 DEF Requests
<1>5. T \in DlType
  <2>1. << >> \in Seq(Record)
    BY EmptySeq
  <2>2. << >> \in Seq(Downloads)
    BY EmptySeq
  <2> QED BY <1>2, <1>4, <2>1, <2>2 DEF DlType
<1>6. /\ T.request = request /\ T.dialogs = << >> /\ T.records = << >> /\ T.rows = << >> /\ T.file = S.file
      /\ T.held = {} /\ T.dropped = S.dropped
  BY <1>2 DEF DlType
<1>7. ~T.running /\ ~T.timer
  BY <1>2 DEF DlType
<1>8. ShownFits(T.records, T.rows, T.dropped)
  BY <1>6, NothingFits
<1>9. HeldFits(T.request, T.records, T.held, T.dropped)
  <2>1. \A d \in Downloads : T.request[d] \notin Active
    BY <1>4, <1>6 DEF Active
  <2>2. Len(T.records) = 0
    BY <1>6
  <2> QED BY <1>6, <2>1, <2>2 DEF HeldFits
<1>10. Begun(T.request, T.records) /\ Begun(T.request, T.rows) /\ Asked(T.request, T.dialogs)
  <2>1. Len(T.records) = 0 /\ Len(T.rows) = 0 /\ Len(T.dialogs) = 0
    BY <1>6
  <2> QED BY <2>1 DEF Begun, Asked
<1>11. Begun(T.request, T.file)
  <2>1. PICK file \in Seq(Record) : file = S.file
    BY DEF DlType
  <2>2. ASSUME NEW i \in 1 .. Len(file) PROVE request[file[i].id] \notin { "none", "requested" }
    <3>1. file[i] \in Record /\ S.request[file[i].id] \notin { "none", "requested" }
      BY <2>1 DEF Begun
    <3>2. file[i].id \in Downloads
      BY <3>1 DEF Record
    <3> QED BY <1>4, <3>1, <3>2
  <2> QED BY <1>6, <2>1, <2>2 DEF Begun
<1>12. DlFits(T)
  BY <1>6, <1>8, <1>9, <1>10, <1>11 DEF DlFits
<1>13. Stopped(T)
  BY <1>4, <1>6, <1>7 DEF Stopped
<1> QED BY <1>3, <1>5, <1>7, <1>12, <1>13 DEF DlInv

LEMMA CrashFits ==
  ASSUME DlInv(dl), Crash
  PROVE  DlInv(dl')
<1>1. dl \in DlType /\ DlFits(dl)
  BY DEF DlInv
<1>2. PICK behind \in BOOLEAN : behind = (dl.behind \/ dl.timer)
  OBVIOUS
<1>3. PICK S : S = [dl EXCEPT !.behind = behind]
  OBVIOUS
<1>4. S \in DlType /\ S.file = dl.file /\ S.request = dl.request
  BY <1>1, <1>3 DEF DlType
<1>5. NamesOnce(S.file) /\ Begun(S.request, S.file)
  BY <1>1, <1>4 DEF DlFits
<1>6. dl' = Over(S)
  <2>1. dl' = Over([dl EXCEPT !.behind = dl.behind \/ dl.timer])
    BY Zenon DEF Crash, Is
  <2> QED BY <1>2, <1>3, <2>1
<1> QED BY <1>4, <1>5, <1>6, OverFits

LEMMA QuitFits ==
  ASSUME DlInv(dl), Quit
  PROVE  DlInv(dl')
<1>1. dl \in DlType /\ DlFits(dl)
  BY DEF DlInv
<1>2. PICK S : S = [dl EXCEPT !.records = Interrupted(dl.records)]
  OBVIOUS
<1>3. PICK T \in SavedNow(S) : dl' = Over(T)
  BY <1>2, Zenon DEF Quit, Is
<1>4. PICK records \in Seq(Record) : records = dl.records
  BY <1>1 DEF DlType
<1>5. PICK stopped \in Seq(Record) : stopped = Interrupted(records)
  BY InterruptedIs
<1>6. Len(stopped) = Len(records) /\ \A i \in 1 .. Len(records) : stopped[i].id = records[i].id
  BY <1>5, InterruptedIs
<1>7. NamesOnce(records) /\ Begun(dl.request, records) /\ NamesOnce(dl.file) /\ Begun(dl.request, dl.file)
  BY <1>1, <1>4 DEF DlFits, ShownFits
<1>8. NamesOnce(stopped) /\ Begun(dl.request, stopped)
  BY <1>6, <1>7 DEF NamesOnce, Begun
<1>9. S \in DlType /\ S.records = stopped /\ S.file = dl.file /\ S.request = dl.request
  BY <1>1, <1>2, <1>4, <1>5 DEF DlType
<1>10. T = [S EXCEPT !.timer = FALSE, !.file = S.records, !.behind = FALSE]
       \/ T = [S EXCEPT !.timer = FALSE, !.behind = TRUE]
  BY <1>3 DEF SavedNow
<1>11. T \in DlType
  BY <1>9, <1>10 DEF DlType
<1>12. T.request = dl.request /\ T.file \in { dl.file, stopped }
  BY <1>9, <1>10 DEF DlType
<1>13. NamesOnce(T.file) /\ Begun(T.request, T.file)
  BY <1>7, <1>8, <1>12
<1> QED BY <1>3, <1>11, <1>13, OverFits

\* The start that has read the file, or not.
StartedWith(S, loaded) ==
  Rebuild([S EXCEPT !.running = TRUE, !.starts = @ + 1, !.records = Interrupted(loaded), !.behind = loaded # S.file])

LEMMA StartFits ==
  ASSUME DlInv(dl), Start
  PROVE  DlInv(dl')
<1>1. dl \in DlType /\ DlFits(dl) /\ Stopped(dl) /\ ~dl.running
  BY DEF DlInv, Start
<1>2. PICK loaded \in Loading :
        IF Interrupted(loaded) = loaded THEN dl' = StartedWith(dl, loaded)
        ELSE \E T \in SavedNow(StartedWith(dl, loaded)) : dl' = T
  BY Zenon DEF Start, StartedWith, Is, Saves
<1>3. loaded \in Seq(Record) /\ (loaded = dl.file \/ loaded = << >>)
  <2>1. << >> \in Seq(Record)
    BY EmptySeq
  <2>2. dl.file \in Seq(Record)
    BY <1>1 DEF DlType
  <2> QED BY <2>1, <2>2 DEF Loading
<1>4. PICK records \in Seq(Record) : records = Interrupted(loaded)
  BY <1>3, InterruptedIs
<1>5. Len(records) = Len(loaded)
      /\ \A i \in 1 .. Len(loaded) : records[i].id = loaded[i].id /\ records[i].status \notin Active
  BY <1>3, <1>4, InterruptedIs
<1>6. NamesOnce(loaded) /\ Begun(dl.request, loaded)
  <2>1. CASE loaded = dl.file
    BY <1>1, <2>1 DEF DlFits
  <2>2. CASE loaded = << >>
    <3>1. Len(loaded) = 0
      BY <2>2
    <3> QED BY <3>1 DEF NamesOnce, Begun
  <2> QED BY <1>3, <2>1, <2>2
<1>7. NamesOnce(records) /\ Begun(dl.request, records)
  BY <1>5, <1>6 DEF NamesOnce, Begun
<1>8. PICK behind \in BOOLEAN : behind = (loaded # dl.file)
  OBVIOUS
<1>9. PICK starts \in Nat : starts = dl.starts + 1
  BY <1>1 DEF DlType
<1>10. PICK S : S = [dl EXCEPT !.running = TRUE, !.starts = starts, !.records = records, !.behind = behind]
  OBVIOUS
<1>11. PICK T : T = [S EXCEPT !.rows = records]
  OBVIOUS
<1>12. S \in DlType /\ S.records = records
  BY <1>1, <1>10 DEF DlType
<1>13. T \in DlType
  BY <1>11, <1>12 DEF DlType
<1>14. T = StartedWith(dl, loaded)
  <2>1. S = [dl EXCEPT !.running = TRUE, !.starts = dl.starts + 1, !.records = Interrupted(loaded),
                       !.behind = loaded # dl.file]
    BY <1>4, <1>8, <1>9, <1>10
  <2>2. StartedWith(dl, loaded) = Rebuild(S)
    BY <2>1, Zenon DEF StartedWith
  <2> QED BY <1>11, <1>12, <2>2 DEF Rebuild
<1>15. /\ S.request = dl.request /\ S.dialogs = dl.dialogs /\ S.file = dl.file /\ S.held = dl.held /\ S.dropped = dl.dropped
       /\ S.timer = dl.timer
  BY <1>1, <1>10 DEF DlType
<1>16. /\ T.request = dl.request /\ T.dialogs = dl.dialogs /\ T.file = dl.file /\ T.held = dl.held
       /\ T.dropped = dl.dropped /\ T.records = records /\ T.rows = records
  BY <1>11, <1>12, <1>15 DEF DlType
<1>17. T.running /\ T.behind = behind
  <2>1. S.running /\ S.behind = behind
    BY <1>1, <1>10 DEF DlType
  <2> QED BY <1>11, <1>12, <2>1 DEF DlType
<1>18. ShownFits(records, records, dl.dropped)
  <2>1. Within(records, records)
    BY WithinItself
  <2> QED BY <1>7, <2>1 DEF ShownFits, Names
<1>19. HeldFits(dl.request, records, dl.held, dl.dropped)
  <2>1. dl.held = {} /\ \A d \in Downloads : dl.request[d] \notin Active
    BY <1>1 DEF Stopped, Active
  <2>2. \A i \in 1 .. Len(records) : records[i].status \notin Active
    BY <1>5
  <2> QED BY <2>1, <2>2 DEF HeldFits
<1>20. DlFits(T)
  BY <1>1, <1>7, <1>16, <1>18, <1>19 DEF DlFits
<1>21. CASE Interrupted(loaded) = loaded
  <2>1. dl' = T
    BY <1>2, <1>14, <1>21
  <2>2. T.behind \/ T.file = T.records
    BY <1>3, <1>4, <1>8, <1>16, <1>17, <1>21
  <2> QED BY <1>13, <1>17, <1>20, <2>1, <2>2 DEF DlInv, SavedFits
<1>22. CASE Interrupted(loaded) # loaded
  <2>1. dl' \in SavedNow(T)
    BY <1>2, <1>14, <1>22
  <2> QED BY <1>13, <1>17, <1>20, <2>1, SavedNowFits
<1> QED BY <1>21, <1>22

\* Every operation on downloads keeps DlInv.
LEMMA DlSteps ==
  ASSUME DlInv(dl), DlNext
  PROVE  DlInv(dl')
<1>1. CASE SaveTimer
  <2>1. dl \in DlType /\ DlFits(dl) /\ dl.running
    BY <1>1 DEF DlInv, SaveTimer
  <2>2. dl' \in SavedNow(dl)
    BY <1>1 DEF SaveTimer, Saves, Is
  <2> QED BY <2>1, <2>2, SavedNowFits
<1> QED BY <1>1, RequestedFits, SavedAsFits, RejectedFits, ProgressFits, EndFits, PauseFits, DestroyFits, RemovedFits,
           ClearedFits, CrashFits, QuitFits, StartFits DEF DlNext

LEMMA DlStarts ==
  ASSUME DlInit
  PROVE  DlInv(dl)
<1>1. dl = [request |-> [d \in Downloads |-> "none"], dialogs |-> << >>, records |-> << >>, rows |-> << >>,
            held |-> {}, timer |-> FALSE, file |-> << >>, running |-> TRUE, behind |-> FALSE, dropped |-> {},
            pauses |-> 0, starts |-> 0]
  BY DEF DlInit
<1>2. PICK request : request = [d \in Downloads |-> "none"]
  BY Zenon
<1>3. request \in [Downloads -> Requests] /\ \A d \in Downloads : request[d] = "none"
  BY <1>2 DEF Requests
<1>4. dl \in DlType
  <2>1. << >> \in Seq(Record)
    BY EmptySeq
  <2>2. << >> \in Seq(Downloads)
    BY EmptySeq
  <2> QED BY <1>1, <1>2, <1>3, <2>1, <2>2 DEF DlType
<1>5. /\ dl.request = request /\ dl.dialogs = << >> /\ dl.records = << >> /\ dl.rows = << >> /\ dl.file = << >>
      /\ dl.held = {} /\ dl.dropped = {}
  BY <1>1, <1>2
<1>6. dl.running
  BY <1>1
<1>7. Len(dl.records) = 0 /\ Len(dl.rows) = 0 /\ Len(dl.file) = 0 /\ Len(dl.dialogs) = 0
  BY <1>5
<1>8. ShownFits(dl.records, dl.rows, dl.dropped)
  BY <1>5, NothingFits
<1>9. HeldFits(dl.request, dl.records, dl.held, dl.dropped)
  BY <1>3, <1>5, <1>7 DEF HeldFits, Active
<1>10. /\ Begun(dl.request, dl.records) /\ Begun(dl.request, dl.rows) /\ Begun(dl.request, dl.file)
       /\ Asked(dl.request, dl.dialogs) /\ NamesOnce(dl.file)
  BY <1>7 DEF Begun, Asked, NamesOnce
<1>11. DlFits(dl)
  BY <1>8, <1>9, <1>10 DEF DlFits
<1>12. SavedFits(dl)
  BY <1>5 DEF SavedFits
<1> QED BY <1>4, <1>6, <1>11, <1>12 DEF DlInv

\* The invariant tells the rows, the records and the file right.
LEMMA DlAgrees ==
  ASSUME DlInv(dl)
  PROVE  DownloadsAgree
<1> SUFFICES ASSUME dl.running PROVE DownloadsAgree
  BY DEF DownloadsAgree
<1>1. dl \in DlType /\ DlFits(dl) /\ SavedFits(dl)
  BY DEF DlInv
<1>2. PICK records \in Seq(Record), rows \in Seq(Record) : records = dl.records /\ rows = dl.rows
  BY <1>1 DEF DlType
<1>3. HeldFits(dl.request, records, dl.held, dl.dropped) /\ ShownFits(records, rows, dl.dropped)
  BY <1>1, <1>2 DEF DlFits
<1>4. DOMAIN records = 1 .. Len(records) /\ DOMAIN rows = 1 .. Len(rows)
  OBVIOUS
<1>5. \A d : DownloadsListed(dl, d) <=> Names(records, d)
  BY <1>2, <1>4 DEF DownloadsListed, Names
<1>6. ASSUME NEW r \in ToSet(dl.records)
      PROVE  /\ r.status \in Active => r.id \in dl.held /\ dl.request[r.id] = r.status
             /\ r.id \in dl.held => r.status \in Active
  <2>1. PICK i \in DOMAIN records : r = records[i]
    BY <1>2, <1>6, Zenon DEF ToSet
  <2> QED BY <1>3, <1>4, <2>1 DEF HeldFits
<1>7. \A d \in dl.held : DownloadsListed(dl, d) \/ d \in dl.dropped
  BY <1>3, <1>5 DEF HeldFits
<1>8. ElementsWith(dl.rows, LAMBDA row : DownloadsListed(dl, row.id)) = dl.records
  <2>1. ElementsAt(rows, { i \in 1 .. Len(rows) : Names(records, rows[i].id) }) = records
    BY <1>3, NamedAre DEF ShownFits
  <2>2. PICK named : named = { i \in 1 .. Len(rows) : Names(records, rows[i].id) }
    OBVIOUS
  <2>3. named = { i \in DOMAIN rows : DownloadsListed(dl, rows[i].id) }
    BY <1>4, <1>5, <2>2
  <2>4. ElementsAt(rows, { i \in DOMAIN rows : DownloadsListed(dl, rows[i].id) }) = records
    BY <2>1, <2>2, <2>3
  <2> QED BY <1>2, <2>4, Zenon DEF ElementsWith
<1>9. ASSUME NEW row \in ToSet(dl.rows) PROVE DownloadsListed(dl, row.id) \/ row.id \in dl.dropped
  <2>1. PICK i \in DOMAIN rows : row = rows[i]
    BY <1>2, <1>9, Zenon DEF ToSet
  <2> QED BY <1>3, <1>4, <1>5, <2>1 DEF ShownFits
<1>10. ~dl.timer /\ ~dl.behind => dl.file = dl.records
  BY <1>1 DEF SavedFits
<1> QED BY <1>6, <1>7, <1>8, <1>9, <1>10 DEF DownloadsAgree

----------------------------------------------------------------------------
(***************************************************************************)
(* Search engines.  Two engines differ in id, name and keyword, whatever   *)
(* is done to them; every change ends in a rebuilt box, which makes the    *)
(* default one of the engines that are enabled.                            *)
(***************************************************************************)
EngineIds == CustomIds \cup STRING
EngineWords == EngineNames \cup Keywords \cup STRING \cup { NoName, NoKeyword }

Engine == [id : EngineIds, name : EngineWords, keyword : EngineWords, enabled : BOOLEAN, builtIn : BOOLEAN]

EngineRow == [id : EngineIds, checked : BOOLEAN]

EnginePage == [engines : Seq(Engine), default : EngineIds]

SrType ==
  [page : EnginePage, rows : Seq(EngineRow), choices : Seq(EngineIds),
   choice : EngineIds \cup { NoEngine }]

Differ(engines) ==
  \A i, j \in 1 .. Len(engines) :
    i # j => /\ engines[i].id # engines[j].id
             /\ engines[i].name # engines[j].name
             /\ engines[i].keyword = NoKeyword \/ engines[i].keyword # engines[j].keyword

Enabled(engines) == ElementsAt(engines, { i \in DOMAIN engines : engines[i].enabled })

IdsOf(engines) == [i \in DOMAIN engines |-> engines[i].id]

SrInv(S) ==
  /\ S \in SrType
  /\ S.rows = RowsOf(S.page)
  /\ Differ(S.page.engines)
  /\ S.choices = IdsOf(Enabled(S.page.engines))
  /\ IF Enabled(S.page.engines) = << >> THEN S.choice = NoEngine
     ELSE S.choice = S.page.default /\ DefaultIsEnabled(S.page)

\* The enabled engines are engines, and some are there if one is enabled.
LEMMA EnabledAre ==
  ASSUME NEW engines \in Seq(Engine)
  PROVE  /\ Enabled(engines) \in Seq(Engine)
         /\ \A n \in 1 .. Len(Enabled(engines)) :
              \E i \in 1 .. Len(engines) : engines[i].enabled /\ Enabled(engines)[n] = engines[i]
         /\ \A i \in 1 .. Len(engines) : engines[i].enabled => Enabled(engines) # << >>
         /\ Enabled(engines) # << >> => 1 \in 1 .. Len(Enabled(engines))
<1>1. PICK kept \in SUBSET (1 .. Len(engines)) : kept = { i \in 1 .. Len(engines) : engines[i].enabled }
  OBVIOUS
<1>2. PICK u : u = ElementsAt(engines, kept)
  OBVIOUS
<1>3. /\ u \in Seq(Engine) /\ (\A n \in 1 .. Len(u) : \E i \in kept : u[n] = engines[i])
      /\ \A i \in kept : \E n \in 1 .. Len(u) : u[n] = engines[i]
  BY <1>2, KeptNames
<1>4. u = Enabled(engines)
  <2>1. DOMAIN engines = 1 .. Len(engines)
    OBVIOUS
  <2> QED BY <1>1, <1>2, <2>1 DEF Enabled
<1>5. \A n \in 1 .. Len(u) : \E i \in 1 .. Len(engines) : engines[i].enabled /\ u[n] = engines[i]
  BY <1>1, <1>3
<1>6. ASSUME NEW i \in 1 .. Len(engines), engines[i].enabled PROVE u # << >>
  <2>1. PICK n \in 1 .. Len(u) : TRUE
    BY <1>1, <1>3, <1>6
  <2>2. Len(u) # 0
    BY <2>1
  <2> QED BY <2>2
<1>7. u # << >> => 1 \in 1 .. Len(u)
  BY <1>3, EmptySeq
<1> QED BY <1>3, <1>4, <1>5, <1>6, <1>7

\* RebuildDefaultEngines with its local definitions named.
DefaultOf(page, enabled) == IF DefaultIsEnabled(page) \/ enabled = << >> THEN page.default ELSE enabled[1].id

RebuiltBox(S, enabled, default) ==
  [S EXCEPT !.page.default = default, !.choices = IdsOf(enabled), !.choice = IF enabled = << >> THEN NoEngine ELSE default]

LEMMA RebuildIs ==
  ASSUME NEW S
  PROVE  RebuildDefaultEngines(S) = RebuiltBox(S, Enabled(S.page.engines), DefaultOf(S.page, Enabled(S.page.engines)))
BY Zenon DEF RebuildDefaultEngines, RebuiltBox, DefaultOf, IdsOf, EnabledEngines, Enabled, ElementsWith

\* A rebuilt box lists the enabled engines and selects the default one.
LEMMA RebuildAgrees ==
  ASSUME NEW S \in SrType, S.rows = RowsOf(S.page), Differ(S.page.engines)
  PROVE  SrInv(RebuildDefaultEngines(S))
<1>1. PICK engines \in Seq(Engine), old \in EngineIds : engines = S.page.engines /\ old = S.page.default
  BY DEF SrType, EnginePage
<1>2. PICK enabled \in Seq(Engine) : enabled = Enabled(engines)
  BY EnabledAre
<1>3. /\ \A n \in 1 .. Len(enabled) : \E i \in 1 .. Len(engines) : engines[i].enabled /\ enabled[n] = engines[i]
      /\ \A i \in 1 .. Len(engines) : engines[i].enabled => enabled # << >>
      /\ enabled # << >> => 1 \in 1 .. Len(enabled)
  BY <1>2, EnabledAre
<1>4. PICK default : default = DefaultOf(S.page, enabled)
  OBVIOUS
<1>5. default \in EngineIds /\ (enabled # << >> => \E i \in 1 .. Len(engines) : engines[i].id = default /\ engines[i].enabled)
  <2>1. CASE DefaultIsEnabled(S.page)
    <3>1. default = old
      BY <1>1, <1>4, <2>1 DEF DefaultOf
    <3>2. PICK i \in DOMAIN engines : engines[i].id = old /\ engines[i].enabled
      BY <1>1, <2>1 DEF DefaultIsEnabled
    <3>3. i \in 1 .. Len(engines)
      OBVIOUS
    <3> QED BY <3>1, <3>2, <3>3
  <2>2. CASE ~DefaultIsEnabled(S.page) /\ enabled = << >>
    BY <1>1, <1>4, <2>2 DEF DefaultOf
  <2>3. CASE ~DefaultIsEnabled(S.page) /\ enabled # << >>
    <3>1. default = enabled[1].id
      BY <1>4, <2>3 DEF DefaultOf
    <3>2. PICK i \in 1 .. Len(engines) : engines[i].enabled /\ enabled[1] = engines[i]
      BY <1>3, <2>3
    <3>3. engines[i] \in Engine
      OBVIOUS
    <3>4. engines[i].id \in EngineIds
      BY <3>3 DEF Engine
    <3> QED BY <3>1, <3>2, <3>4
  <2> QED BY <2>1, <2>2, <2>3
<1>6. PICK choice : choice = IF enabled = << >> THEN NoEngine ELSE default
  OBVIOUS
<1>7. PICK ids : ids = IdsOf(enabled)
  OBVIOUS
<1>8. ids \in Seq(EngineIds)
  <2>1. ASSUME NEW i \in 1 .. Len(enabled) PROVE enabled[i].id \in EngineIds
    <3>1. enabled[i] \in Engine
      OBVIOUS
    <3> QED BY <3>1 DEF Engine
  <2>2. ids = [i \in 1 .. Len(enabled) |-> enabled[i].id]
    BY <1>7 DEF IdsOf
  <2>3. ids \in [1 .. Len(enabled) -> EngineIds] /\ Len(enabled) \in Nat
    BY <2>1, <2>2
  <2> QED BY <2>3
<1>9. PICK page : page = [S.page EXCEPT !.default = default]
  OBVIOUS
<1>10. page \in EnginePage /\ page.engines = engines /\ page.default = default
  BY <1>1, <1>5, <1>9 DEF SrType, EnginePage
<1>11. PICK T : T = [S EXCEPT !.page = page, !.choices = ids, !.choice = choice]
  OBVIOUS
<1>12. T = RebuildDefaultEngines(S)
  <2>1. T = RebuiltBox(S, enabled, default)
    BY <1>6, <1>7, <1>9, <1>11 DEF RebuiltBox, SrType
  <2> QED BY <1>1, <1>2, <1>4, <2>1, RebuildIs
<1>13. T \in SrType
  BY <1>5, <1>6, <1>8, <1>10, <1>11 DEF SrType
<1>14. T.page = page /\ T.choices = ids /\ T.choice = choice /\ T.rows = S.rows
  BY <1>11 DEF SrType
<1>15. T.rows = RowsOf(T.page)
  <2>1. RowsOf(page) = RowsOf(S.page)
    BY <1>1, <1>10 DEF RowsOf
  <2> QED BY <1>14, <2>1
<1>16. enabled # << >> => DefaultIsEnabled(page)
  BY <1>5, <1>10 DEF DefaultIsEnabled
<1>17. Differ(T.page.engines)
  BY <1>1, <1>10, <1>14
<1>18. T.choices = IdsOf(Enabled(T.page.engines))
  BY <1>2, <1>7, <1>10, <1>14
<1>19. IF Enabled(T.page.engines) = << >> THEN T.choice = NoEngine ELSE T.choice = T.page.default /\ DefaultIsEnabled(T.page)
  BY <1>2, <1>6, <1>10, <1>14, <1>16
<1> QED BY <1>12, <1>13, <1>15, <1>17, <1>18, <1>19 DEF SrInv

LEMMA RowsTyped ==
  ASSUME NEW page \in EnginePage
  PROVE  RowsOf(page) \in Seq(EngineRow)
<1>1. PICK engines \in Seq(Engine) : engines = page.engines
  BY DEF EnginePage
<1>2. ASSUME NEW i \in 1 .. Len(engines)
      PROVE  [id |-> engines[i].id, checked |-> engines[i].enabled] \in EngineRow
  <2>1. engines[i] \in Engine
    OBVIOUS
  <2> QED BY <2>1 DEF Engine, EngineRow
<1>3. RowsOf(page) = [i \in 1 .. Len(engines) |-> [id |-> engines[i].id, checked |-> engines[i].enabled]]
  BY <1>1 DEF RowsOf
<1>4. Len(engines) \in Nat
  OBVIOUS
<1>5. RowsOf(page) \in [1 .. Len(engines) -> EngineRow]
  BY <1>2, <1>3
<1> QED BY <1>4, <1>5

\* A rebuilt list agrees with the engines.
LEMMA RebuiltList ==
  ASSUME NEW S \in SrType, Differ(S.page.engines)
  PROVE  SrInv(RebuildList(S))
<1>1. PICK rows \in Seq(EngineRow) : rows = RowsOf(S.page)
  <2>1. S.page \in EnginePage
    BY DEF SrType
  <2> QED BY <2>1, RowsTyped
<1>2. PICK T : T = [S EXCEPT !.rows = rows]
  OBVIOUS
<1>3. T \in SrType /\ T.page = S.page /\ T.rows = rows
  BY <1>1, <1>2 DEF SrType
<1>4. SrInv(RebuildDefaultEngines(T))
  BY <1>1, <1>3, RebuildAgrees
<1> QED BY <1>1, <1>2, <1>4 DEF RebuildList

\* The default may pass on; the engines stay.
LEMMA ReassignedIs ==
  ASSUME NEW c \in EnginePage, NEW id
  PROVE  Reassigned(c, id) \in EnginePage /\ Reassigned(c, id).engines = c.engines
<1>1. PICK engines \in Seq(Engine) : engines = c.engines
  BY DEF EnginePage
<1>2. PICK enabled \in Seq(Engine) : enabled = Enabled(engines)
  BY EnabledAre
<1>3. EnabledEngines(c) = enabled
  BY <1>1, <1>2, Zenon DEF EnabledEngines, Enabled, ElementsWith
<1>4. Reassigned(c, id) = c
      \/ (enabled # << >> /\ Reassigned(c, id) = [c EXCEPT !.default = enabled[1].id])
  BY <1>3, Zenon DEF Reassigned
<1>5. CASE Reassigned(c, id) = c
  BY <1>5
<1>6. CASE enabled # << >> /\ Reassigned(c, id) = [c EXCEPT !.default = enabled[1].id]
  <2>1. PICK first : first = enabled[1].id
    OBVIOUS
  <2>2. 1 \in 1 .. Len(enabled)
    BY <1>6, EmptySeq
  <2>3. enabled[1] \in Engine
    BY <2>2
  <2>4. first \in EngineIds
    BY <2>1, <2>3 DEF Engine
  <2>5. [c EXCEPT !.default = first] \in EnginePage /\ [c EXCEPT !.default = first].engines = c.engines
    BY <2>4 DEF EnginePage
  <2> QED BY <1>6, <2>1, <2>5
<1> QED BY <1>4, <1>5, <1>6

\* What can be saved differs.
LEMMA ValidDiffer ==
  ASSUME NEW c \in EnginePage
  PROVE  ValidEngines(c) <=> Differ(c.engines) /\ DefaultIsEnabled(c)
<1>1. PICK engines \in Seq(Engine) : engines = c.engines
  BY DEF EnginePage
<1>2. DOMAIN engines = 1 .. Len(engines)
  OBVIOUS
<1> QED BY <1>1, <1>2 DEF ValidEngines, Differ

\* Engines that validate differ.
LEMMA AcceptedAgrees ==
  ASSUME SrInv(sr), NEW candidate \in EnginePage, Accepted(candidate)
  PROVE  SrInv(sr')
<1>1. ValidEngines(candidate) /\ sr' = RebuildList([sr EXCEPT !.page = candidate])
  BY DEF Accepted, SrIs
<1>2. PICK S : S = [sr EXCEPT !.page = candidate]
  OBVIOUS
<1>3. S \in SrType /\ S.page = candidate
  BY <1>2 DEF SrInv, SrType
<1>4. Differ(candidate.engines)
  BY <1>1, ValidDiffer
<1> QED BY <1>1, <1>2, <1>3, <1>4, RebuiltList

LEMMA EditedTyped ==
  ASSUME NEW base \in Engine, NEW engine \in Edited(base)
  PROVE  engine \in Engine
BY DEF Edited, Engine, EngineWords

LEMMA AddedAgrees ==
  ASSUME SrInv(sr), AddEngine
  PROVE  SrInv(sr')
<1>1. PICK id \in CustomIds :
        \E engine \in Edited([id |-> id, name |-> NoName, keyword |-> NoKeyword, enabled |-> TRUE, builtIn |-> FALSE]) :
          Accepted(Reassigned([sr.page EXCEPT !.engines = Append(sr.page.engines, engine)], id))
  BY Zenon DEF AddEngine
<1>0. PICK base : base = [id |-> id, name |-> NoName, keyword |-> NoKeyword, enabled |-> TRUE, builtIn |-> FALSE]
  OBVIOUS
<1>2. PICK engine \in Edited(base) :
        Accepted(Reassigned([sr.page EXCEPT !.engines = Append(sr.page.engines, engine)], id))
  BY <1>1, <1>0
<1>3. engine \in Engine
  <2>1. id \in EngineIds /\ NoName \in EngineWords /\ NoKeyword \in EngineWords
    BY DEF EngineIds, EngineWords
  <2>2. base \in Engine
    BY <1>0, <2>1 DEF Engine
  <2> QED BY <2>2, EditedTyped
<1>4. PICK engines \in Seq(Engine) : engines = sr.page.engines
  BY DEF SrInv, SrType, EnginePage
<1>5. PICK more \in Seq(Engine) : more = Append(engines, engine)
  <2>1. Append(engines, engine) \in Seq(Engine)
    BY <1>3, AppendProperties
  <2> QED BY <2>1
<1>6. PICK page : page = [sr.page EXCEPT !.engines = more]
  OBVIOUS
<1>7. page \in EnginePage
  BY <1>6 DEF SrInv, SrType, EnginePage
<1>8. Accepted(Reassigned(page, id))
  BY <1>2, <1>4, <1>5, <1>6
<1>9. Reassigned(page, id) \in EnginePage
  BY <1>7, ReassignedIs
<1> QED BY <1>8, <1>9, AcceptedAgrees

LEMMA EditAgrees ==
  ASSUME SrInv(sr), EditSelectedEngine
  PROVE  SrInv(sr')
<1>1. PICK engines \in Seq(Engine) : engines = sr.page.engines
  BY DEF SrInv, SrType, EnginePage
<1>2. PICK i \in DOMAIN engines :
        \E engine \in Edited(engines[i]) : Accepted(Reassigned([sr.page EXCEPT !.engines[i] = engine], engine.id))
  BY <1>1, Zenon DEF EditSelectedEngine
<1>3. PICK engine \in Edited(engines[i]) : Accepted(Reassigned([sr.page EXCEPT !.engines[i] = engine], engine.id))
  BY <1>2
<1>4. i \in 1 .. Len(engines) /\ engines[i] \in Engine
  OBVIOUS
<1>5. engine \in Engine
  BY <1>4, EditedTyped
<1>6. PICK other \in Seq(Engine) : other = [engines EXCEPT ![i] = engine]
  <2>1. [engines EXCEPT ![i] = engine] \in Seq(Engine)
    BY <1>4, <1>5
  <2> QED BY <2>1
<1>7. PICK page : page = [sr.page EXCEPT !.engines = other]
  OBVIOUS
<1>8. page \in EnginePage
  BY <1>7 DEF SrInv, SrType, EnginePage
<1>9. Accepted(Reassigned(page, engine.id))
  BY <1>1, <1>3, <1>6, <1>7
<1>10. Reassigned(page, engine.id) \in EnginePage
  BY <1>8, ReassignedIs
<1> QED BY <1>9, <1>10, AcceptedAgrees

LEMMA RemoveAgrees ==
  ASSUME SrInv(sr), RemoveSelectedEngine
  PROVE  SrInv(sr')
<1>1. PICK engines \in Seq(Engine) : engines = sr.page.engines
  BY DEF SrInv, SrType, EnginePage
<1>2. PICK i \in DOMAIN engines : sr' = RebuildList([sr EXCEPT !.page.engines = RemoveAt(sr.page.engines, i)])
  BY <1>1, Zenon DEF RemoveSelectedEngine, SrIs
<1>3. i \in 1 .. Len(engines)
  OBVIOUS
<1>4. PICK fewer : fewer = RemoveAt(engines, i)
  OBVIOUS
<1>5. /\ fewer \in Seq(Engine) /\ Len(fewer) = Len(engines) - 1
      /\ \A k \in 1 .. Len(engines) - 1 : fewer[k] = IF k < i THEN engines[k] ELSE engines[k + 1]
  BY <1>3, <1>4, RemovedAt
<1>6. PICK m \in Nat : m = Len(engines)
  OBVIOUS
<1>7. \A k \in 1 .. m - 1 : \E a \in 1 .. m : fewer[k] = engines[a] /\ a = IF k < i THEN k ELSE k + 1
  BY <1>5, <1>6
<1>8. Differ(fewer)
  <2>1. ASSUME NEW k \in 1 .. Len(fewer), NEW l \in 1 .. Len(fewer), k # l
        PROVE  /\ fewer[k].id # fewer[l].id /\ fewer[k].name # fewer[l].name
               /\ fewer[k].keyword = NoKeyword \/ fewer[k].keyword # fewer[l].keyword
    <3>1. PICK a \in 1 .. m : fewer[k] = engines[a] /\ a = IF k < i THEN k ELSE k + 1
      BY <1>5, <1>6, <1>7
    <3>2. PICK b \in 1 .. m : fewer[l] = engines[b] /\ b = IF l < i THEN l ELSE l + 1
      BY <1>5, <1>6, <1>7
    <3>3. k \in Int /\ l \in Int /\ i \in Int
      BY <1>3, <1>5, <1>6
    <3>4. a # b
      <4>1. CASE k < i /\ l < i
        BY <2>1, <3>1, <3>2, <4>1
      <4>2. CASE k < i /\ ~(l < i)
        BY <3>1, <3>2, <3>3, <4>2
      <4>3. CASE ~(k < i) /\ l < i
        BY <3>1, <3>2, <3>3, <4>3
      <4>4. CASE ~(k < i) /\ ~(l < i)
        BY <2>1, <3>1, <3>2, <3>3, <4>4
      <4> QED BY <4>1, <4>2, <4>3, <4>4
    <3>5. engines[a].id # engines[b].id /\ engines[a].name # engines[b].name
          /\ (engines[a].keyword = NoKeyword \/ engines[a].keyword # engines[b].keyword)
      <4>1. Differ(engines)
        BY <1>1 DEF SrInv
      <4> QED BY <1>6, <3>4, <4>1 DEF Differ
    <3> QED BY <3>1, <3>2, <3>5
  <2> QED BY <2>1 DEF Differ
<1>9. PICK page : page = [sr.page EXCEPT !.engines = fewer]
  OBVIOUS
<1>10. page \in EnginePage /\ page.engines = fewer
  BY <1>5, <1>9 DEF SrInv, SrType, EnginePage
<1>11. PICK S : S = [sr EXCEPT !.page = page]
  OBVIOUS
<1>12. S \in SrType /\ S.page = page
  BY <1>10, <1>11 DEF SrInv, SrType
<1>13. sr' = RebuildList(S)
  BY <1>1, <1>2, <1>4, <1>9, <1>11
<1> QED BY <1>8, <1>10, <1>12, <1>13, RebuiltList

LEMMA ChosenAgrees ==
  ASSUME SrInv(sr), ChooseDefault
  PROVE  SrInv(sr')
<1>1. PICK id \in ToSet(sr.choices) : sr' = [sr EXCEPT !.page.default = id, !.choice = id]
  BY Zenon DEF ChooseDefault, SrIs
<1>2. PICK engines \in Seq(Engine) : engines = sr.page.engines
  BY DEF SrInv, SrType, EnginePage
<1>3. PICK enabled \in Seq(Engine) : enabled = Enabled(engines)
  BY EnabledAre
<1>4. PICK n \in DOMAIN enabled : id = enabled[n].id
  <2>1. sr.choices = IdsOf(enabled)
    BY <1>2, <1>3 DEF SrInv
  <2> QED BY <2>1, <1>1, Zenon DEF ToSet, IdsOf
<1>5. n \in 1 .. Len(enabled)
  OBVIOUS
<1>6. PICK i \in 1 .. Len(engines) : engines[i].enabled /\ enabled[n] = engines[i]
  BY <1>3, <1>5, EnabledAre
<1>7. engines[i] \in Engine /\ i \in DOMAIN engines
  OBVIOUS
<1>8. id \in EngineIds
  BY <1>4, <1>6, <1>7 DEF Engine
<1>9. PICK page : page = [sr.page EXCEPT !.default = id]
  OBVIOUS
<1>10. page \in EnginePage /\ page.engines = engines /\ page.default = id
  BY <1>2, <1>8, <1>9 DEF SrInv, SrType, EnginePage
<1>11. sr' = [sr EXCEPT !.page = page, !.choice = id]
  BY <1>1, <1>9 DEF SrInv, SrType
<1>12. sr' \in SrType /\ sr'.page = page /\ sr'.rows = sr.rows /\ sr'.choices = sr.choices /\ sr'.choice = id
  BY <1>8, <1>10, <1>11 DEF SrInv, SrType
<1>13. DefaultIsEnabled(page)
  BY <1>4, <1>6, <1>7, <1>10 DEF DefaultIsEnabled
<1>14. enabled # << >>
  BY <1>3, <1>6, EnabledAre
<1>15. sr'.rows = RowsOf(sr'.page)
  <2>1. RowsOf(page) = RowsOf(sr.page)
    BY <1>2, <1>10 DEF RowsOf
  <2> QED BY <1>12, <2>1 DEF SrInv
<1>16. Differ(sr'.page.engines)
  BY <1>2, <1>10, <1>12 DEF SrInv
<1>17. sr'.choices = IdsOf(Enabled(sr'.page.engines))
  BY <1>2, <1>10, <1>12 DEF SrInv
<1>18. IF Enabled(sr'.page.engines) = << >> THEN sr'.choice = NoEngine
       ELSE sr'.choice = sr'.page.default /\ DefaultIsEnabled(sr'.page)
  BY <1>3, <1>10, <1>12, <1>13, <1>14
<1> QED BY <1>12, <1>15, <1>16, <1>17, <1>18 DEF SrInv

\* The engine of that id is found.
LEMMA EngineFound ==
  ASSUME NEW c \in EnginePage, Differ(c.engines), NEW i \in DOMAIN c.engines
  PROVE  EngineById(c, c.engines[i].id) = i
<1>1. PICK engines \in Seq(Engine) : engines = c.engines
  BY DEF EnginePage
<1>2. i \in 1 .. Len(engines)
  BY <1>1
<1>3. Names(engines, engines[i].id)
  BY <1>2 DEF Names
<1>4. PICK k \in 1 .. Len(engines) : k = FirstWithId(engines, engines[i].id) /\ engines[k].id = engines[i].id
  BY <1>3, FirstNamed
<1>5. k = i
  BY <1>1, <1>2, <1>4 DEF Differ
<1>6. EngineById(c, engines[i].id) = FirstWithId(engines, engines[i].id)
  BY <1>1, Zenon DEF EngineById, FirstWithId, SelectInSeq
<1> QED BY <1>1, <1>4, <1>5, <1>6

\* The built-in engines are enabled and differ.
LEMMA BuiltInTyped ==
  BuiltInEngines \in Seq(Engine) /\ Differ(BuiltInEngines) /\ 1 \in 1 .. Len(BuiltInEngines)
  /\ \A i \in 1 .. Len(BuiltInEngines) : BuiltInEngines[i].enabled
<1>1. PICK shipped : shipped = [id : STRING, name : STRING, keyword : STRING, enabled : {TRUE}, builtIn : {TRUE}]
  OBVIOUS
<1>2. PICK engines \in Seq(shipped) : engines = BuiltInEngines
  BY <1>1, SearchAssumption
<1>3. shipped \subseteq Engine
  BY <1>1 DEF Engine, EngineIds, EngineWords
<1>4. ASSUME NEW i \in 1 .. Len(engines) PROVE engines[i] \in Engine /\ engines[i].enabled
  <2>1. engines[i] \in shipped
    OBVIOUS
  <2> QED BY <1>1, <1>3, <2>1
<1>5. engines \in Seq(Engine)
  <2>1. Len(engines) \in Nat /\ DOMAIN engines = 1 .. Len(engines) /\ engines = [i \in 1 .. Len(engines) |-> engines[i]]
    OBVIOUS
  <2>2. engines \in [1 .. Len(engines) -> Engine]
    BY <1>4, <2>1
  <2> QED BY <2>1, <2>2
<1>6. 1 \in 1 .. Len(engines)
  BY <1>2, <1>5, EmptySeq, SearchAssumption
<1>7. DOMAIN engines = 1 .. Len(engines)
  OBVIOUS
<1>8. Differ(engines)
  BY <1>2, <1>7, SearchAssumption DEF Differ
<1> QED BY <1>2, <1>4, <1>5, <1>6, <1>8

LEMMA RestoreAgrees ==
  ASSUME SrInv(sr), RestoreBuiltInEngines
  PROVE  SrInv(sr')
<1>1. Accepted(RestoreBuiltIns(sr.page))
  BY DEF RestoreBuiltInEngines
<1>2. PICK engines \in Seq(Engine) : engines = sr.page.engines
  BY DEF SrInv, SrType, EnginePage
<1>3. PICK own : own = ElementsAt(engines, { i \in DOMAIN engines : ~engines[i].builtIn })
  OBVIOUS
<1>4. own \in Seq(Engine)
  <2>1. { i \in DOMAIN engines : ~engines[i].builtIn } \in SUBSET (1 .. Len(engines))
    OBVIOUS
  <2> QED BY <1>3, <2>1, KeptNames
<1>5. PICK all \in Seq(Engine) : all = BuiltInEngines \o own
  <2>1. BuiltInEngines \o own \in Seq(Engine)
    BY <1>4, BuiltInTyped, ConcatProperties
  <2> QED BY <2>1
<1>6. PICK page : page = [sr.page EXCEPT !.engines = all]
  OBVIOUS
<1>7. page \in EnginePage
  BY <1>6 DEF SrInv, SrType, EnginePage
<1>8. RestoreBuiltIns(sr.page) = IF DefaultIsEnabled(page) THEN page ELSE [page EXCEPT !.default = BuiltInEngines[1].id]
  <2>1. ElementsWith(sr.page.engines, LAMBDA e : ~e.builtIn) = own
    BY <1>2, <1>3, Zenon DEF ElementsWith
  <2>2. page = [sr.page EXCEPT !.engines = BuiltInEngines \o ElementsWith(sr.page.engines, LAMBDA e : ~e.builtIn)]
    BY <1>5, <1>6, <2>1
  <2> QED BY <2>2, Zenon DEF RestoreBuiltIns
<1>9. PICK first \in EngineIds : first = BuiltInEngines[1].id
  <2>1. BuiltInEngines[1] \in Engine
    BY BuiltInTyped
  <2> QED BY <2>1 DEF Engine
<1>10. [page EXCEPT !.default = first] \in EnginePage
  BY <1>7 DEF EnginePage
<1>11. RestoreBuiltIns(sr.page) \in EnginePage
  BY <1>7, <1>8, <1>9, <1>10
<1> QED BY <1>1, <1>11, AcceptedAgrees

\* A click on a check box.
Clicked(S, i) == [S EXCEPT !.rows[i].checked = ~@]

Switched(S, i, at) == Reassigned([S.page EXCEPT !.engines[at].enabled = ~S.rows[i].checked], S.rows[i].id)

LEMMA SwitchedAgrees ==
  ASSUME SrInv(sr), SetEngineEnabled
  PROVE  SrInv(sr')
<1>1. PICK engines \in Seq(Engine) : engines = sr.page.engines
  BY DEF SrInv, SrType, EnginePage
<1>2. PICK rows \in Seq(EngineRow) : rows = sr.rows
  BY DEF SrInv, SrType
<1>3. PICK i \in DOMAIN rows :
        sr' = IF ValidEngines(Switched(sr, i, EngineById(sr.page, rows[i].id)))
              THEN RebuildDefaultEngines([Clicked(sr, i) EXCEPT !.page = Switched(sr, i, EngineById(sr.page, rows[i].id))])
              ELSE [Clicked(sr, i) EXCEPT
                      !.rows[i].checked = sr.page.engines[EngineById(sr.page, rows[i].id)].enabled]
  BY <1>2, Zenon DEF SetEngineEnabled, Clicked, Switched, SrIs
<1>4. rows = [j \in DOMAIN engines |-> [id |-> engines[j].id, checked |-> engines[j].enabled]]
  BY <1>1, <1>2 DEF SrInv, RowsOf
<1>5. i \in DOMAIN engines /\ i \in 1 .. Len(engines) /\ rows[i].id = engines[i].id /\ rows[i].checked = engines[i].enabled
  BY <1>4
<1>6. EngineById(sr.page, rows[i].id) = i
  <2>1. sr.page \in EnginePage /\ Differ(sr.page.engines)
    BY DEF SrInv, SrType
  <2> QED BY <1>1, <1>5, <2>1, EngineFound
<1>7. engines[i] \in Engine
  BY <1>5
<1>8. PICK on \in BOOLEAN : on = ~rows[i].checked
  OBVIOUS
<1>9. PICK engine : engine = [engines[i] EXCEPT !.enabled = on]
  OBVIOUS
<1>10. engine \in Engine /\ engine.id = engines[i].id /\ engine.enabled = on
  BY <1>7, <1>9 DEF Engine
<1>11. PICK other : other = [engines EXCEPT ![i] = engine]
  OBVIOUS
<1>12. /\ other \in Seq(Engine) /\ DOMAIN other = DOMAIN engines /\ other[i] = engine
       /\ \A j \in DOMAIN engines \ {i} : other[j] = engines[j]
  BY <1>5, <1>10, <1>11
<1>13. PICK page : page = [sr.page EXCEPT !.engines = other]
  OBVIOUS
<1>14. page \in EnginePage /\ page.engines = other
  BY <1>12, <1>13 DEF SrInv, SrType, EnginePage
<1>15. PICK candidate : candidate = Reassigned(page, rows[i].id)
  OBVIOUS
<1>16. candidate \in EnginePage /\ candidate.engines = other
  BY <1>14, <1>15, ReassignedIs
<1>17. Switched(sr, i, i) = candidate
  <2>1. page = [sr.page EXCEPT !.engines[i].enabled = ~sr.rows[i].checked]
    BY <1>1, <1>2, <1>8, <1>9, <1>11, <1>13
  <2> QED BY <1>2, <1>15, <2>1 DEF Switched
<1>18. PICK row : row = [rows[i] EXCEPT !.checked = on]
  OBVIOUS
<1>19. rows[i] \in EngineRow
  <2>1. i \in 1 .. Len(rows)
    OBVIOUS
  <2> QED BY <2>1
<1>20. row = [id |-> engines[i].id, checked |-> on] /\ row \in EngineRow
  BY <1>5, <1>7, <1>18, <1>19 DEF EngineRow, Engine
<1>21. PICK shown : shown = [rows EXCEPT ![i] = row]
  OBVIOUS
<1>22. /\ shown \in Seq(EngineRow) /\ DOMAIN shown = DOMAIN rows /\ shown[i] = row
       /\ \A j \in DOMAIN rows \ {i} : shown[j] = rows[j]
  BY <1>20, <1>21
<1>23. Clicked(sr, i) = [sr EXCEPT !.rows = shown]
  BY <1>2, <1>8, <1>18, <1>21 DEF Clicked
<1>24. shown = RowsOf(candidate)
  <2>1. RowsOf(candidate) = [j \in DOMAIN other |-> [id |-> other[j].id, checked |-> other[j].enabled]]
    BY <1>16 DEF RowsOf
  <2>2. shown = [j \in DOMAIN rows |-> shown[j]]
    BY <1>21
  <2>3. DOMAIN rows = DOMAIN other
    BY <1>4, <1>12
  <2>4. ASSUME NEW j \in DOMAIN rows PROVE shown[j] = [id |-> other[j].id, checked |-> other[j].enabled]
    <3>1. CASE j = i
      BY <1>10, <1>12, <1>20, <1>22, <3>1
    <3>2. CASE j # i
      BY <1>4, <1>12, <1>22, <2>3, <3>2
    <3> QED BY <3>1, <3>2
  <2> QED BY <2>1, <2>2, <2>3, <2>4
<1>25. PICK C : C = [sr EXCEPT !.rows = shown]
  OBVIOUS
<1>26. C \in SrType /\ C.rows = shown
  BY <1>22, <1>25 DEF SrInv, SrType
<1>27. CASE ValidEngines(candidate)
  <2>1. PICK S : S = [C EXCEPT !.page = candidate]
    OBVIOUS
  <2>2. sr' = RebuildDefaultEngines(S)
    BY <1>3, <1>6, <1>17, <1>23, <1>25, <1>27, <2>1
  <2>3. S \in SrType /\ S.page = candidate /\ S.rows = shown
    BY <1>16, <1>26, <2>1 DEF SrType
  <2>4. Differ(candidate.engines)
    BY <1>16, <1>27, ValidDiffer
  <2> QED BY <1>24, <2>2, <2>3, <2>4, RebuildAgrees
<1>28. CASE ~ValidEngines(candidate)
  <2>1. sr' = [C EXCEPT !.rows[i].checked = engines[i].enabled]
    BY <1>1, <1>3, <1>6, <1>17, <1>23, <1>25, <1>28
  <2>2. [row EXCEPT !.checked = engines[i].enabled] = rows[i]
    BY <1>5, <1>19, <1>20 DEF EngineRow
  <2>3. [shown EXCEPT ![i] = rows[i]] = rows
    <3>1. PICK back : back = [shown EXCEPT ![i] = rows[i]]
      OBVIOUS
    <3>2. DOMAIN back = DOMAIN rows /\ \A j \in DOMAIN rows : back[j] = rows[j]
      BY <1>22, <3>1
    <3>3. rows = [j \in DOMAIN rows |-> rows[j]]
      <4>1. rows \in [1 .. Len(rows) -> EngineRow] /\ DOMAIN rows = 1 .. Len(rows)
        BY LenProperties
      <4> QED BY <4>1
    <3>5. back = [j \in DOMAIN rows |-> back[j]]
      BY <3>1, <3>2
    <3>4. back = rows
      BY <3>2, <3>3, <3>5
    <3> QED BY <3>1, <3>4
  <2>4. sr' = [C EXCEPT !.rows = rows]
    BY <1>22, <1>26, <2>1, <2>2, <2>3
  <2>5. sr' = sr
    BY <1>2, <1>25, <2>4 DEF SrInv, SrType
  <2> QED BY <2>5
<1> QED BY <1>27, <1>28

\* Every operation on search engines keeps SrInv.
LEMMA SrSteps ==
  ASSUME SrInv(sr), SrNext
  PROVE  SrInv(sr')
BY ChosenAgrees, AddedAgrees, EditAgrees, RemoveAgrees, RestoreAgrees, SwitchedAgrees DEF SrNext

LEMMA SrStarts ==
  ASSUME SrInit
  PROVE  SrInv(sr)
<1>1. PICK page : page = ShippedEngines
  OBVIOUS
<1>2. page \in EnginePage /\ Differ(page.engines)
  <2>1. BuiltInEngines[1] \in Engine
    BY BuiltInTyped
  <2>2. BuiltInEngines[1].id \in EngineIds
    BY <2>1 DEF Engine
  <2> QED BY <1>1, <2>2, BuiltInTyped DEF ShippedEngines, EnginePage
<1>3. PICK S : S = [page |-> page, rows |-> << >>, choices |-> << >>, choice |-> NoEngine]
  OBVIOUS
<1>4. S \in SrType
  <2>1. << >> \in Seq(EngineRow)
    BY EmptySeq
  <2>2. << >> \in Seq(EngineIds)
    BY EmptySeq
  <2> QED BY <1>2, <1>3, <2>1, <2>2 DEF SrType
<1>5. S.page = page
  BY <1>3
<1>6. sr = RebuildList(S)
  BY <1>1, <1>3 DEF SrInit
<1> QED BY <1>2, <1>4, <1>5, <1>6, RebuiltList

LEMMA SrAgrees ==
  ASSUME SrInv(sr)
  PROVE  SearchAgrees
<1>1. PICK engines \in Seq(Engine) : engines = sr.page.engines
  BY DEF SrInv, SrType, EnginePage
<1>2. sr.page \in EnginePage /\ Differ(sr.page.engines)
  BY DEF SrInv, SrType
<1>3. PICK enabled \in Seq(Engine) : enabled = Enabled(engines)
  BY EnabledAre
<1>4. EnabledEngines(sr.page) = enabled
  BY <1>1, <1>3, Zenon DEF EnabledEngines, Enabled, ElementsWith
<1>5. DOMAIN engines = 1 .. Len(engines) /\ DOMAIN enabled = 1 .. Len(enabled)
  OBVIOUS
<1>6. sr.choices = [i \in DOMAIN enabled |-> enabled[i].id]
  BY <1>1, <1>3 DEF SrInv, IdsOf
<1>7. sr.choices = << >> <=> enabled = << >>
  <2>1. Len(sr.choices) = Len(enabled)
    <3>1. sr.choices \in Seq(EngineIds)
      BY DEF SrInv, SrType
    <3>2. DOMAIN sr.choices = 1 .. Len(sr.choices) /\ DOMAIN sr.choices = 1 .. Len(enabled)
      BY <1>6, <3>1
    <3> QED BY <3>1, <3>2
  <2>2. sr.choices \in Seq(EngineIds)
    BY DEF SrInv, SrType
  <2> QED BY <2>1, <2>2, EmptySeq
<1>8. IF sr.choices = << >> THEN sr.choice = NoEngine ELSE sr.choice = sr.page.default /\ ValidEngines(sr.page)
  BY <1>1, <1>2, <1>3, <1>7, ValidDiffer DEF SrInv
<1>9. ASSUME ValidEngines(sr.page) PROVE ResolveAddressInput(sr.page, NoKeyword) = sr.page.default
  <2>1. PICK i \in DOMAIN engines : engines[i].id = sr.page.default /\ engines[i].enabled
    BY <1>1, <1>2, <1>9, ValidDiffer DEF DefaultIsEnabled
  <2>2. EngineById(sr.page, sr.page.default) = i
    BY <1>1, <1>2, <2>1, EngineFound
  <2>3. i # 0
    BY <1>5, <2>1
  <2>4. SearchUrl(sr.page, i) = engines[i].id
    BY <1>1, <2>1, <2>3 DEF SearchUrl
  <2> QED BY <2>1, <2>2, <2>4 DEF ResolveAddressInput
<1>10. ASSUME NEW e \in ToSet(EnabledEngines(sr.page)), e.keyword # NoKeyword
       PROVE  ResolveAddressInput(sr.page, e.keyword) = e.id
  <2>1. PICK n \in DOMAIN enabled : e = enabled[n]
    BY <1>4, Zenon DEF ToSet
  <2>2. PICK i \in 1 .. Len(engines) : engines[i].enabled /\ e = engines[i]
    BY <1>3, <1>5, <2>1, EnabledAre
  <2>3. PICK I : I = { j \in 1 .. Len(engines) : engines[j].enabled /\ engines[j].keyword = e.keyword }
    OBVIOUS
  <2>4. I = {i}
    BY <1>1, <1>2, <1>10, <2>2, <2>3 DEF Differ
  <2>5. Min(I) \in I
    <3>1. i \in Nat
      BY <2>2
    <3> QED BY <2>4, <3>1 DEF Min
  <2>6. EngineForKeyword(sr.page, e.keyword) = Min(I)
    BY <1>1, <2>3, <2>4, Zenon DEF EngineForKeyword, SelectInSeq
  <2>7. EngineForKeyword(sr.page, e.keyword) = i /\ i # 0
    BY <2>2, <2>4, <2>5, <2>6
  <2>8. SearchUrl(sr.page, i) = e.id
    BY <1>1, <2>2, <2>7 DEF SearchUrl
  <2> QED BY <1>10, <2>7, <2>8 DEF ResolveAddressInput
<1>11. sr.rows = RowsOf(sr.page)
  BY DEF SrInv
<1> QED BY <1>4, <1>6, <1>8, <1>9, <1>10, <1>11 DEF SearchAgrees

----------------------------------------------------------------------------
(***************************************************************************)
(* What is kept for the user is told right: each part keeps its invariant, *)
(* whichever part a behaviour is of.                                       *)
(***************************************************************************)
LEMMA BmAgrees ==
  ASSUME BmInv(bm)
  PROVE  BookmarksAgree
BY DEF BmInv, BookmarksAgree

DataInv == HsInv(hs) /\ BmInv(bm) /\ DlInv(dl) /\ CpInv(cp) /\ SrInv(sr)

\* Visits, bookmarks, downloads, credentials and search engines are told right wherever they are shown:
\* history counts, stars, download rows, the credentials page and the choice of engines (DataAgrees).
THEOREM DataIsTold == Spec => []DataAgrees
<1>1. Init => DataInv
  <2> SUFFICES ASSUME Init PROVE DataInv
    OBVIOUS
  <2>1. HsInit /\ BmInit /\ DlInit /\ CpInit /\ SrInit
    BY DEF Init
  <2> QED BY <2>1, HsStarts, BmStarts, DlStarts, CpStarts, SrStarts DEF DataInv
<1>2. DataInv /\ [Next]_vars => DataInv'
  <2> SUFFICES ASSUME DataInv, [Next]_vars PROVE HsInv(hs') /\ BmInv(bm') /\ DlInv(dl') /\ CpInv(cp') /\ SrInv(sr')
    BY DEF DataInv
  <2>1. /\ HsNext \/ hs' = hs
        /\ BmNext \/ bm' = bm
        /\ DlNext \/ dl' = dl
        /\ CpNext \/ cp' = cp
        /\ SrNext \/ sr' = sr
    BY DEF Next, vars, states, hsVars, bmVars, dlVars, cpVars, srVars
  <2>2. HsInv(hs) /\ BmInv(bm) /\ DlInv(dl) /\ CpInv(cp) /\ SrInv(sr)
    BY DEF DataInv
  <2> QED BY <2>1, <2>2, HsSteps, BmSteps, DlSteps, CpSteps, SrSteps
<1>3. DataInv => DataAgrees
  BY HsAgrees, BmAgrees, DlAgrees, CpAgrees, SrAgrees DEF DataInv, DataAgrees
<1> QED BY <1>1, <1>2, <1>3, PTL DEF Spec
=============================================================================
