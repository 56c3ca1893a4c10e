----------------------------- MODULE ServiceProofs -----------------------------
(***************************************************************************)
(* What SecretService and VotTransport promise, for any number of calls,   *)
(* credentials, pages and requests, whatever the services outside answer.  *)
(***************************************************************************)
EXTENDS SecretService, VotTransport, WellFoundedInduction, FiniteSetTheorems, TLAPS

(* A nonempty set of natural numbers has a least element. *)
LEMMA LeastNumber ==
  ASSUME NEW S, S \subseteq Nat, S # {}
  PROVE  \E x \in S : \A y \in S : x <= y
<1>1. PICK x \in S : \A y \in S : ~ (<<y, x>> \in OpToRel(<, Nat))
  BY NatLessThanWellFounded, WFMin
<1>2. ASSUME NEW y \in S PROVE x <= y
  <2>1. y \in Nat /\ x \in Nat
    OBVIOUS
  <2>2. y < x => <<y, x>> \in OpToRel(<, Nat)
    BY <2>1 DEF OpToRel
  <2>3. ~ (y < x)
    BY <1>1, <2>2, Zenon
  <2> QED BY <2>1, <2>3
<1> QED BY <1>2

----------------------------------------------------------------------------
(***************************************************************************)
(* The secret service.  Known: what is stored is known of a credential of  *)
(* which a success was acknowledged, and then nobody holds its lease.      *)
(* Excluded: no two calls hold the lease of one credential.  Effects: a    *)
(* call past its effect, whose success is not yet acknowledged, has what   *)
(* it was to do in the store, because nobody else may touch it.            *)
(***************************************************************************)
SSSpec == SSInit /\ [][SSNext]_ssVars

CallType ==
  [kind : Kinds, ids : SUBSET Ids, secret : Secrets \union { Absent }, rest : Seq(Ids),
   waiting : BOOLEAN, timedOut : BOOLEAN, inFlight : BOOLEAN, phase : Phases, result : Results]

StoreType(s) ==
  /\ s = [items |-> s.items, acked |-> s.acked, calls |-> s.calls, stack |-> s.stack, available |-> s.available]
  /\ s.items \in [Ids -> Secrets \union { Absent }]
  /\ s.acked \in [Ids -> Secrets \union { Absent, Unknown }]
  /\ s.calls \in Seq(CallType)

\* What a call may look like by itself.
CallOK(call) ==
  /\ call.kind = "write" => call.phase \in { "store", "reply" }
  /\ call.kind \in { "remove", "removeAll" } => call.phase \in { "search", "clear", "verify" } /\ call.secret = Absent
  /\ call.kind \notin Mutations => call.phase = "ask"
  /\ call.inFlight => call.result = "none"
  /\ ~ call.waiting /\ ~ call.inFlight => call = NoCall

Excluded(calls) ==
  \A c, d \in DOMAIN calls :
    c # d /\ HoldsLease(calls[c]) /\ HoldsLease(calls[d]) => calls[c].ids \cap calls[d].ids = {}

Free(calls, id) == \A c \in DOMAIN calls : HoldsLease(calls[c]) => id \notin calls[c].ids

Known(s) == \A id \in Ids : s.acked[id] # Unknown => s.items[id] = s.acked[id] /\ Free(s.calls, id)

\* The call has had its effect.
Done(call) ==
  call.kind \in Mutations /\ ((call.phase = "reply" /\ HoldsLease(call)) \/ call.result = "ok")

Effects(s) ==
  \A c \in DOMAIN s.calls : Done(s.calls[c]) => \A id \in s.calls[c].ids : s.items[id] = s.calls[c].secret

SecretsOK(s) ==
  /\ StoreType(s)
  /\ \A c \in DOMAIN s.calls : CallOK(s.calls[c])
  /\ Excluded(s.calls) /\ Known(s) /\ Effects(s)

\* A success counts only for a call whose caller still waits for it.
LEMMA DoneHoldsLease ==
  ASSUME NEW call \in CallType, CallOK(call), Done(call)
  PROVE  HoldsLease(call)
BY DEF CallOK, Done, HoldsLease, NoCall, Mutations

LEMMA SSInitEstablishes == SSInit => SecretsOK(ss)
<1> SUFFICES ASSUME NEW items \in [Ids -> Secrets \union { Absent }],
                    ss = [items |-> items, acked |-> items, calls |-> << >>, stack |-> << >>, available |-> FALSE]
             PROVE  SecretsOK(ss)
  BY DEF SSInit
<1> QED BY DEF SecretsOK, StoreType, Excluded, Known, Free, Effects

\* A call is handed to the service: nobody may hold a lease it needs.
LEMMA RunNativeCallKeeps ==
  ASSUME NEW s, SecretsOK(s), NEW kind \in Kinds, NEW ids \in SUBSET Ids,
         NEW secret \in Secrets \union { Absent }, NEW rest \in Seq(Ids),
         kind # "write" => secret = Absent,
         kind \in Mutations => \A id \in ids : Free(s.calls, id)
  PROVE  SecretsOK(RunNativeCall(s, kind, ids, secret, rest))
<1> DEFINE call == [NoCall EXCEPT !.kind = kind, !.ids = ids, !.secret = secret, !.rest = rest,
                                  !.waiting = TRUE, !.inFlight = TRUE, !.phase = FirstPhase(kind)]
           acked == [id \in Ids |-> IF kind \in Mutations /\ id \in ids THEN Unknown ELSE s.acked[id]]
           n == Len(s.calls) + 1
           x == RunNativeCall(s, kind, ids, secret, rest)
<1>1. /\ call \in CallType /\ CallOK(call) /\ ~ Done(call)
      /\ call.ids = ids /\ call.kind = kind /\ (HoldsLease(call) <=> kind \in Mutations)
  BY DEF CallType, CallOK, Done, NoCall, FirstPhase, Kinds, Mutations, Phases, Results, HoldsLease
<1>2. StoreType(s)
  BY DEF SecretsOK
<1>3. /\ x.items = s.items /\ x.acked = acked /\ x.calls = Append(s.calls, call)
      /\ x = [items |-> x.items, acked |-> x.acked, calls |-> x.calls, stack |-> x.stack, available |-> x.available]
  <2>1. x = [s EXCEPT !.calls = Append(s.calls, call), !.stack = Append(s.stack, n), !.acked = acked]
    BY DEF RunNativeCall
  <2> HIDE DEF call, x, acked, n
  <2> QED BY <1>2, <2>1 DEF StoreType
<1> HIDE DEF call, x
<1>4. /\ x.calls \in Seq(CallType) /\ DOMAIN x.calls = DOMAIN s.calls \union { n } /\ n \notin DOMAIN s.calls
      /\ x.calls[n] = call /\ \A c \in DOMAIN s.calls : x.calls[c] = s.calls[c]
  BY <1>1, <1>2, <1>3 DEF StoreType
<1> HIDE DEF n
<1>5. StoreType(x)
  BY <1>2, <1>3, <1>4 DEF StoreType
<1>6. \A c \in DOMAIN x.calls : CallOK(x.calls[c])
  BY <1>1, <1>4 DEF SecretsOK
<1>7. Excluded(x.calls)
  BY <1>1, <1>4 DEF SecretsOK, Excluded, Free
<1>8. Known(x)
  BY <1>1, <1>3, <1>4 DEF SecretsOK, Known, Free
<1>9. Effects(x)
  BY <1>1, <1>3, <1>4 DEF SecretsOK, Effects
<1>10. SecretsOK(x)
  BY <1>5, <1>6, <1>7, <1>8, <1>9 DEF SecretsOK
<1> QED BY <1>10 DEF x

(***************************************************************************)
(* One call goes on, or ends.  It may touch the credentials it holds the   *)
(* lease of, and those only; a success is acknowledged when its caller     *)
(* returns, and the lease ends with that.                                  *)
(***************************************************************************)
LEMMA CallGoesOn ==
  ASSUME NEW s, SecretsOK(s), NEW c \in DOMAIN s.calls, NEW call \in CallType, CallOK(call),
         HoldsLease(call) => HoldsLease(s.calls[c]) /\ call.ids = s.calls[c].ids,
         NEW x, x.items \in [Ids -> Secrets \union { Absent }],
         \A id \in Ids : x.items[id] # s.items[id] => HoldsLease(s.calls[c]) /\ id \in s.calls[c].ids,
         Done(call) => \A id \in call.ids : x.items[id] = call.secret,
         x.acked \in [Ids -> Secrets \union { Absent, Unknown }],
         \A id \in Ids : x.acked[id] # s.acked[id] =>
           /\ HoldsLease(s.calls[c]) /\ id \in s.calls[c].ids /\ ~ HoldsLease(call)
           /\ x.items[id] = x.acked[id],
         StoreType(x) <=> x.calls \in Seq(CallType), x.calls = [s.calls EXCEPT ![c] = call]
  PROVE  SecretsOK(x)
<1>1. s.calls \in Seq(CallType) /\ s.calls[c] \in CallType /\ CallOK(s.calls[c])
  BY DEF SecretsOK, StoreType
<1>2. /\ x.calls \in Seq(CallType) /\ DOMAIN x.calls = DOMAIN s.calls /\ x.calls[c] = call
      /\ \A d \in DOMAIN s.calls \ { c } : x.calls[d] = s.calls[d]
  BY <1>1
<1>3. /\ StoreType(x)
      /\ \A d \in DOMAIN x.calls : CallOK(x.calls[d])
  BY <1>2 DEF SecretsOK
<1>4. Excluded(x.calls)
  BY <1>2 DEF SecretsOK, Excluded
<1>5. ASSUME NEW id \in Ids, x.acked[id] # Unknown
      PROVE  x.items[id] = x.acked[id] /\ Free(x.calls, id)
  <2>1. CASE x.acked[id] = s.acked[id]
    <3>1. s.items[id] = s.acked[id] /\ Free(s.calls, id)
      BY <1>5, <2>1 DEF SecretsOK, Known
    <3>2. x.items[id] = s.items[id]
      BY <3>1 DEF Free
    <3>3. Free(x.calls, id)
      BY <1>2, <3>1 DEF Free
    <3> QED BY <2>1, <3>1, <3>2, <3>3
  <2>2. CASE x.acked[id] # s.acked[id]
    <3>1. HoldsLease(s.calls[c]) /\ id \in s.calls[c].ids /\ ~ HoldsLease(call) /\ x.items[id] = x.acked[id]
      BY <2>2
    <3>2. Free(x.calls, id)
      BY <1>2, <3>1 DEF Free, SecretsOK, Excluded
    <3> QED BY <3>1, <3>2
  <2> QED BY <2>1, <2>2
<1>6. ASSUME NEW d \in DOMAIN x.calls, Done(x.calls[d]), NEW id \in x.calls[d].ids
      PROVE  x.items[id] = x.calls[d].secret
  <2>1. CASE d = c
    BY <1>2, <1>6, <2>1
  <2>2. CASE d # c
    <3>1. s.calls[d] \in CallType /\ CallOK(s.calls[d]) /\ Done(s.calls[d])
      BY <1>1, <1>2, <1>6, <2>2 DEF SecretsOK
    <3>2. id \in Ids /\ s.items[id] = s.calls[d].secret
      BY <1>2, <1>6, <2>2, <3>1 DEF SecretsOK, Effects, CallType
    <3>3. HoldsLease(s.calls[d])
      BY <3>1, DoneHoldsLease
    <3>4. ~ (HoldsLease(s.calls[c]) /\ id \in s.calls[c].ids)
      BY <1>2, <1>6, <2>2, <3>3 DEF SecretsOK, Excluded
    <3> QED BY <1>2, <2>2, <3>2, <3>4
  <2> QED BY <2>1, <2>2
<1> QED BY <1>3, <1>4, <1>5, <1>6 DEF SecretsOK, Known, Effects

\* The end of a call of which nothing is left.
LEMMA SettledCall ==
  ASSUME NEW call \in CallType,
         call.waiting \/ call.inFlight => CallOK(call)
  PROVE  /\ Settled(call) \in CallType /\ CallOK(Settled(call))
         /\ Done(Settled(call)) => Settled(call) = call
         /\ HoldsLease(Settled(call)) => Settled(call) = call /\ HoldsLease(call)
<1>1. NoCall \in CallType /\ CallOK(NoCall) /\ ~ Done(NoCall) /\ ~ HoldsLease(NoCall)
  BY DEF NoCall, CallType, CallOK, Kinds, Phases, Results, Mutations, Done, HoldsLease
<1> QED BY <1>1 DEF Settled

LEMMA AnsweredKeeps ==
  ASSUME NEW s, SecretsOK(s), NEW c \in DOMAIN s.calls, s.calls[c].inFlight,
         NEW result \in Results,
         result = "ok" /\ s.calls[c].kind \in Mutations =>
           \A id \in s.calls[c].ids : s.items[id] = s.calls[c].secret
  PROVE  SecretsOK(Answered(s, c, result))
<1> DEFINE old == s.calls[c]
           new == [old EXCEPT !.inFlight = FALSE, !.result = IF old.timedOut THEN "none" ELSE result]
           call == Settled(new)
           x == Answered(s, c, result)
<1>1. StoreType(s) /\ s.calls \in Seq(CallType) /\ old \in CallType /\ CallOK(old)
  BY DEF SecretsOK, StoreType
<1>2. /\ new \in CallType /\ new.ids = old.ids /\ new.kind = old.kind /\ new.secret = old.secret
      /\ new.waiting = old.waiting /\ ~ new.inFlight /\ new.phase = old.phase
      /\ new.result \in { "none", result }
  BY <1>1 DEF CallType, Results
<1>3. new.waiting => CallOK(new)
  BY <1>1, <1>2 DEF CallOK
<1>4. /\ call \in CallType /\ CallOK(call) /\ (Done(call) => call = new)
      /\ (HoldsLease(call) => call = new /\ HoldsLease(new))
  BY <1>2, <1>3, SettledCall
<1>5. HoldsLease(new) => HoldsLease(old)
  BY <1>2 DEF HoldsLease
<1>6. ASSUME Done(new), NEW id \in new.ids PROVE s.items[id] = new.secret
  <2>1. CASE new.result = "ok"
    BY <1>2, <1>6, <2>1 DEF Done
  <2>2. CASE new.result # "ok"
    <3>1. Done(old)
      BY <1>2, <1>5, <1>6, <2>2 DEF Done
    <3> QED BY <1>2, <1>6, <3>1 DEF SecretsOK, Effects
  <2> QED BY <2>1, <2>2
<1>7. x.items = s.items /\ x.acked = s.acked /\ x.calls = [s.calls EXCEPT ![c] = call]
      /\ x = [items |-> x.items, acked |-> x.acked, calls |-> x.calls, stack |-> x.stack, available |-> x.available]
  <2>1. x = [s EXCEPT !.calls[c] = call]
    BY DEF Answered
  <2> HIDE DEF x, call
  <2> QED BY <1>1, <2>1 DEF StoreType
<1> HIDE DEF x, call, new
<1>8. StoreType(x) <=> x.calls \in Seq(CallType)
  BY <1>1, <1>7 DEF StoreType
<1>9. SecretsOK(x)
  <2>1. s.items \in [Ids -> Secrets \union { Absent }] /\ s.acked \in [Ids -> Secrets \union { Absent, Unknown }]
    BY <1>1 DEF StoreType
  <2>2. Done(call) => \A id \in call.ids : s.items[id] = call.secret
    BY <1>4, <1>6
  <2>3. HoldsLease(call) => HoldsLease(s.calls[c]) /\ call.ids = s.calls[c].ids
    BY <1>2, <1>4, <1>5
  <2>4. /\ x.items \in [Ids -> Secrets \union { Absent }] /\ x.acked \in [Ids -> Secrets \union { Absent, Unknown }]
        /\ Done(call) => \A id \in call.ids : x.items[id] = call.secret
        /\ \A id \in Ids : x.items[id] = s.items[id] /\ x.acked[id] = s.acked[id]
    BY <1>7, <2>1, <2>2
  <2> QED BY <1>4, <1>7, <1>8, <2>3, <2>4, CallGoesOn
<1> QED BY <1>9 DEF x

\* The next of a batch of removals, if the lease of one of them is free.
LEMMA RemoveNextKeeps ==
  ASSUME NEW s, SecretsOK(s), NEW targets \in Seq(Ids), NEW free \in SUBSET Ids,
         \A id \in free : Free(s.calls, id)
  PROVE  SecretsOK(RemoveNext(s, targets, free))
<1> DEFINE startable == { i \in DOMAIN targets : targets[i] \in free }
           i == CHOOSE j \in startable : \A k \in startable : j <= k
<1>1. CASE startable = {} \/ Len(s.calls) >= MaxCalls
  BY <1>1 DEF RemoveNext
<1>2. CASE ~ (startable = {} \/ Len(s.calls) >= MaxCalls)
  <2>1. startable \subseteq Nat /\ startable # {}
    BY <1>2
  <2>2. i \in startable
    <3> HIDE DEF startable
    <3>1. \E x \in startable : \A y \in startable : x <= y
      BY <2>1, LeastNumber
    <3> QED BY <3>1
  <2>3. i \in 1..Len(targets) /\ targets[i] \in free
    BY <2>2
  <2>4. RemoveNext(s, targets, free)
          = RunNativeCall(s, "remove", { targets[i] }, Absent, SubSeq(targets, i + 1, Len(targets)))
    BY <1>2 DEF RemoveNext
  <2> HIDE DEF i
  <2>5. SubSeq(targets, i + 1, Len(targets)) \in Seq(Ids)
    BY <2>3
  <2>6. { targets[i] } \in SUBSET Ids /\ \A id \in { targets[i] } : Free(s.calls, id)
    BY <2>3
  <2>7. "remove" \in Kinds /\ Absent \in Secrets \union { Absent } /\ "remove" # "write"
    BY DEF Kinds
  <2> QED BY <2>4, <2>5, <2>6, <2>7, RunNativeCallKeeps
<1> QED BY <1>1, <1>2

\* A new call: the registry has no lease of what it changes.
LEMMA StartKeeps ==
  ASSUME SecretsOK(ss),
         \/ IsAvailable \/ ListCredentials \/ RemoveAll
         \/ \E id \in Ids : Read(id) \/ Remove(id) \/ \E secret \in Secrets : Write(id, secret)
         \/ \E first, second \in Ids : first # second /\ RemoveSelected(<< first, second >>)
  PROVE  SecretsOK(ss')
<1>1. /\ Absent \in Secrets \union { Absent } /\ << >> \in Seq(Ids)
      /\ Kinds = { "probe", "read", "list", "write", "remove", "removeAll" }
      /\ Mutations = { "write", "remove", "removeAll" }
  BY DEF Kinds, Mutations
<1>2. \A id \in Ids : ~ Leased(id) => Free(ss.calls, id)
  BY DEF Leased, Free
<1>3. ASSUME NEW kind \in Kinds, NEW ids \in SUBSET Ids, NEW secret \in Secrets \union { Absent },
             kind # "write" => secret = Absent,
             kind \in Mutations => \A id \in ids : ~ Leased(id),
             ss' = RunNativeCall(ss, kind, ids, secret, << >>)
      PROVE  SecretsOK(ss')
  BY <1>1, <1>2, <1>3, RunNativeCallKeeps
<1>4. CASE IsAvailable
  BY <1>1, <1>3, <1>4 DEF IsAvailable
<1>5. CASE ListCredentials
  BY <1>1, <1>3, <1>5 DEF ListCredentials
<1>6. CASE RemoveAll
  BY <1>1, <1>3, <1>6 DEF RemoveAll
<1>7. ASSUME NEW id \in Ids, Read(id) PROVE SecretsOK(ss')
  BY <1>1, <1>3, <1>7 DEF Read
<1>8. ASSUME NEW id \in Ids, Remove(id) PROVE SecretsOK(ss')
  BY <1>1, <1>3, <1>8 DEF Remove
<1>9. ASSUME NEW id \in Ids, NEW secret \in Secrets, Write(id, secret) PROVE SecretsOK(ss')
  <2>1. ~ Leased(id) /\ ss' = RunNativeCall(ss, "write", { id }, secret, << >>)
    BY <1>9 DEF Write
  <2>2. "write" \in Kinds /\ { id } \in SUBSET Ids /\ secret \in Secrets \union { Absent }
    BY <1>1
  <2>3. \A x \in { id } : ~ Leased(x)
    BY <2>1
  <2> QED BY <1>3, <2>1, <2>2, <2>3
<1>10. ASSUME NEW first \in Ids, NEW second \in Ids, RemoveSelected(<< first, second >>) PROVE SecretsOK(ss')
  <2>1. << first, second >> \in Seq(Ids)
    OBVIOUS
  <2> QED BY <1>2, <1>10, <2>1, RemoveNextKeeps DEF RemoveSelected
<1> QED BY <1>4, <1>5, <1>6, <1>7, <1>8, <1>9, <1>10

----------------------------------------------------------------------------
\* The service works on a call.
LEMMA ServiceKeeps ==
  ASSUME SecretsOK(ss), NEW c \in DOMAIN ss.calls,
         \/ ServiceFails(c) \/ ServiceAnswers(c) \/ PasswordStored(c)
         \/ RemovalSearchFinished(c) \/ RemovalClearFinished(c) \/ RemovalVerifyFinished(c)
         \/ Timeout(c)
  PROVE  SecretsOK(ss')
<1> DEFINE old == ss.calls[c]
<1>1. StoreType(ss) /\ ss.calls \in Seq(CallType) /\ old \in CallType /\ CallOK(old)
  BY DEF SecretsOK, StoreType
<1>2. /\ ss.items \in [Ids -> Secrets \union { Absent }] /\ ss.acked \in [Ids -> Secrets \union { Absent, Unknown }]
      /\ ss = [items |-> ss.items, acked |-> ss.acked, calls |-> ss.calls, stack |-> ss.stack,
               available |-> ss.available]
  BY <1>1 DEF StoreType
<1>3. /\ Results = { "none", "ok", "failed", "unavailable", "remain" } /\ Mutations = { "write", "remove", "removeAll" }
      /\ old.ids \subseteq Ids /\ old.secret \in Secrets \union { Absent }
  BY <1>1 DEF Results, Mutations, CallType
<1>4. ASSUME old.inFlight, Matching(ss, c) = {}, old.kind \in { "remove", "removeAll" }
      PROVE  \A id \in old.ids : ss.items[id] = old.secret
  BY <1>1, <1>4 DEF Matching, CallOK
<1>5. CASE ServiceFails(c)
  <2>1. PICK result \in { "failed", "unavailable" } : ss' = Answered(ss, c, result)
    BY <1>5 DEF ServiceFails
  <2> QED BY <1>3, <1>5, <2>1, AnsweredKeeps DEF ServiceFails
<1>6. CASE ServiceAnswers(c)
  <2>1. old.inFlight /\ old.phase \in { "ask", "reply" } /\ ss' = Answered(ss, c, "ok")
    BY <1>6 DEF ServiceAnswers
  <2>2. old.kind \in Mutations => Done(old)
    BY <1>1, <2>1 DEF CallOK, Done, HoldsLease, Mutations
  <2>3. old.kind \in Mutations => \A id \in old.ids : ss.items[id] = old.secret
    BY <2>2 DEF SecretsOK, Effects
  <2> QED BY <1>3, <2>1, <2>3, AnsweredKeeps
<1>7. CASE PasswordStored(c)
  <2> DEFINE items == [id \in Ids |-> IF id \in old.ids THEN old.secret ELSE ss.items[id]]
             call == [old EXCEPT !.phase = "reply"]
             x == [ss EXCEPT !.items = items, !.calls[c] = call]
  <2>1. old.inFlight /\ old.phase = "store"
    BY <1>7 DEF PasswordStored
  <2>2. ss' = x
    <3>1. ss' = [ss EXCEPT !.items = items, !.calls[c].phase = "reply"]
      BY <1>2, <1>7 DEF PasswordStored
    <3> HIDE DEF items
    <3>2. [ss EXCEPT !.items = items, !.calls[c].phase = "reply"] = x
      BY <1>1, <1>2
    <3> QED BY <3>1, <3>2
  <2>3. old.kind = "write"
    BY <1>1, <2>1 DEF CallOK, Mutations, CallType, Kinds
  <2>4. /\ call \in CallType /\ CallOK(call) /\ HoldsLease(call) /\ HoldsLease(old) /\ call.ids = old.ids
        /\ call.secret = old.secret
    BY <1>1, <2>1, <2>3 DEF CallType, Phases, CallOK, HoldsLease, Mutations
  <2>5. items \in [Ids -> Secrets \union { Absent }] /\ \A id \in old.ids : items[id] = old.secret
    BY <1>2, <1>3
  <2>6. \A id \in Ids : items[id] # ss.items[id] => id \in old.ids
    OBVIOUS
  <2> HIDE DEF call, items
  <2>7. /\ x.items = items /\ x.acked = ss.acked /\ x.calls = [ss.calls EXCEPT ![c] = call]
        /\ x = [items |-> x.items, acked |-> x.acked, calls |-> x.calls, stack |-> x.stack, available |-> x.available]
    <3>1. x = [ss EXCEPT !.items = items, !.calls[c] = call]
      OBVIOUS
    <3> HIDE DEF x
    <3> QED BY <1>1, <1>2, <3>1
  <2> HIDE DEF x
  <2>8. StoreType(x) <=> x.calls \in Seq(CallType)
    BY <1>2, <2>5, <2>7 DEF StoreType
  <2>9. SecretsOK(x)
    <3>1. /\ x.items \in [Ids -> Secrets \union { Absent }] /\ x.acked \in [Ids -> Secrets \union { Absent, Unknown }]
          /\ Done(call) => \A id \in call.ids : x.items[id] = call.secret
          /\ \A id \in Ids : x.items[id] # ss.items[id] => HoldsLease(ss.calls[c]) /\ id \in ss.calls[c].ids
          /\ \A id \in Ids : x.acked[id] = ss.acked[id]
      BY <1>2, <2>4, <2>5, <2>6, <2>7
    <3> QED BY <2>4, <2>7, <2>8, <3>1, CallGoesOn
  <2> QED BY <2>2, <2>9
<1>8. CASE RemovalSearchFinished(c)
  <2>1. old.inFlight /\ old.phase = "search"
    BY <1>8 DEF RemovalSearchFinished
  <2>2. old.kind \in { "remove", "removeAll" }
    BY <1>1, <2>1 DEF CallOK, Mutations, CallType, Kinds
  <2>3. CASE Matching(ss, c) = {}
    <3>1. ss' = Answered(ss, c, "ok")
      BY <1>8, <2>3 DEF RemovalSearchFinished
    <3> QED BY <1>3, <1>4, <2>1, <2>2, <2>3, <3>1, AnsweredKeeps
  <2>4. CASE Matching(ss, c) # {}
    <3> DEFINE call == [old EXCEPT !.phase = "clear"]
               x == [ss EXCEPT !.calls[c] = call]
    <3>1. ss' = x
      BY <1>1, <1>2, <1>8, <2>4 DEF RemovalSearchFinished
    <3>2. /\ call \in CallType /\ CallOK(call) /\ HoldsLease(old) /\ call.ids = old.ids /\ ~ Done(call)
      BY <1>1, <2>1, <2>2 DEF CallType, Phases, CallOK, HoldsLease, Mutations, Done
    <3> HIDE DEF call
    <3>3. /\ x.items = ss.items /\ x.acked = ss.acked /\ x.calls = [ss.calls EXCEPT ![c] = call]
          /\ x = [items |-> x.items, acked |-> x.acked, calls |-> x.calls, stack |-> x.stack,
                  available |-> x.available]
      <4>1. x = [ss EXCEPT !.calls[c] = call]
        OBVIOUS
      <4> HIDE DEF x
      <4> QED BY <1>1, <1>2, <4>1
    <3> HIDE DEF x
    <3>4. StoreType(x) <=> x.calls \in Seq(CallType)
      BY <1>2, <3>3 DEF StoreType
    <3>5. SecretsOK(x)
      BY <1>2, <3>2, <3>3, <3>4, CallGoesOn
    <3> QED BY <3>1, <3>5
  <2> QED BY <2>3, <2>4
<1>9. CASE RemovalClearFinished(c)
  <2>1. old.inFlight /\ old.phase = "clear"
    BY <1>9 DEF RemovalClearFinished
  <2>2. old.kind \in { "remove", "removeAll" }
    BY <1>1, <2>1 DEF CallOK, Mutations, CallType, Kinds
  <2>3. PICK locked \in SUBSET Matching(ss, c) :
          ss' = [ss EXCEPT !.items = [id \in Ids |-> IF id \in Matching(ss, c) \ locked THEN Absent ELSE @[id]],
                           !.calls[c].phase = "verify"]
    BY <1>9 DEF RemovalClearFinished
  <2> DEFINE items == [id \in Ids |-> IF id \in Matching(ss, c) \ locked THEN Absent ELSE ss.items[id]]
             call == [old EXCEPT !.phase = "verify"]
             x == [ss EXCEPT !.items = items, !.calls[c] = call]
  <2>4. ss' = x
    <3>1. ss' = [ss EXCEPT !.items = items, !.calls[c].phase = "verify"]
      BY <1>2, <2>3
    <3> HIDE DEF items
    <3>2. [ss EXCEPT !.items = items, !.calls[c].phase = "verify"] = x
      BY <1>1, <1>2
    <3> QED BY <3>1, <3>2
  <2>5. /\ call \in CallType /\ CallOK(call) /\ HoldsLease(old) /\ call.ids = old.ids /\ ~ Done(call)
    BY <1>1, <2>1, <2>2 DEF CallType, Phases, CallOK, HoldsLease, Mutations, Done
  <2>6. items \in [Ids -> Secrets \union { Absent }]
    BY <1>2
  <2>7. \A id \in Ids : items[id] # ss.items[id] => id \in old.ids
    BY DEF Matching
  <2> HIDE DEF call, items
  <2>8. /\ x.items = items /\ x.acked = ss.acked /\ x.calls = [ss.calls EXCEPT ![c] = call]
        /\ x = [items |-> x.items, acked |-> x.acked, calls |-> x.calls, stack |-> x.stack, available |-> x.available]
    <3>1. x = [ss EXCEPT !.items = items, !.calls[c] = call]
      OBVIOUS
    <3> HIDE DEF x
    <3> QED BY <1>1, <1>2, <3>1
  <2> HIDE DEF x
  <2>9. StoreType(x) <=> x.calls \in Seq(CallType)
    BY <1>2, <2>6, <2>8 DEF StoreType
  <2>10. SecretsOK(x)
    BY <1>2, <2>5, <2>6, <2>7, <2>8, <2>9, CallGoesOn
  <2> QED BY <2>4, <2>10
<1>10. CASE RemovalVerifyFinished(c)
  <2>1. old.inFlight /\ old.phase = "verify" /\ ss' = Answered(ss, c, Verified(ss, c))
    BY <1>10 DEF RemovalVerifyFinished
  <2>2. old.kind \in { "remove", "removeAll" }
    BY <1>1, <2>1 DEF CallOK, Mutations, CallType, Kinds
  <2>3. Verified(ss, c) \in Results /\ (Verified(ss, c) = "ok" => Matching(ss, c) = {})
    BY <1>3 DEF Verified
  <2> QED BY <1>4, <2>1, <2>2, <2>3, AnsweredKeeps
<1>11. CASE Timeout(c)
  <2> DEFINE call == [old EXCEPT !.timedOut = TRUE]
             x == [ss EXCEPT !.calls[c] = call]
  <2>1. ss' = x /\ old.waiting /\ old.inFlight
    BY <1>1, <1>2, <1>11 DEF Timeout, TimedOut
  <2>2. /\ call \in CallType /\ CallOK(call) /\ call.ids = old.ids /\ call.secret = old.secret
        /\ (Done(call) => Done(old)) /\ (HoldsLease(call) => HoldsLease(old))
    BY <1>1, <2>1 DEF CallType, CallOK, HoldsLease, Done
  <2>3. Done(call) => \A id \in call.ids : ss.items[id] = call.secret
    BY <2>2 DEF SecretsOK, Effects
  <2> HIDE DEF call
  <2>4. /\ x.items = ss.items /\ x.acked = ss.acked /\ x.calls = [ss.calls EXCEPT ![c] = call]
        /\ x = [items |-> x.items, acked |-> x.acked, calls |-> x.calls, stack |-> x.stack, available |-> x.available]
    <3>1. x = [ss EXCEPT !.calls[c] = call]
      OBVIOUS
    <3> HIDE DEF x
    <3> QED BY <1>1, <1>2, <3>1
  <2> HIDE DEF x
  <2>5. StoreType(x) <=> x.calls \in Seq(CallType)
    BY <1>2, <2>4 DEF StoreType
  <2>6. SecretsOK(x)
    <3>1. /\ x.items \in [Ids -> Secrets \union { Absent }] /\ x.acked \in [Ids -> Secrets \union { Absent, Unknown }]
          /\ Done(call) => \A id \in call.ids : x.items[id] = call.secret
          /\ HoldsLease(call) => HoldsLease(ss.calls[c]) /\ call.ids = ss.calls[c].ids
          /\ \A id \in Ids : x.items[id] = ss.items[id] /\ x.acked[id] = ss.acked[id]
      BY <1>2, <2>2, <2>3, <2>4
    <3> QED BY <2>2, <2>4, <2>5, <3>1, CallGoesOn
  <2> QED BY <2>1, <2>6
<1> QED BY <1>5, <1>6, <1>7, <1>8, <1>9, <1>10, <1>11

\* A caller goes on: what it was told is true, and stays so.
LEMMA ReturnKeeps ==
  ASSUME SecretsOK(ss), NEW c \in DOMAIN ss.calls, Return(c)
  PROVE  SecretsOK(ss')
<1> DEFINE old == ss.calls[c]
           new == [old EXCEPT !.waiting = FALSE, !.rest = << >>]
           call == Settled(new)
           acked == Acknowledged(ss, old)
           available == IF KeepsAvailability(old) THEN ss.available ELSE Succeeded(old)
           stack == SubSeq(ss.stack, 1, Len(ss.stack) - 1)
           x == [ss EXCEPT !.stack = stack, !.calls[c] = call, !.acked = acked, !.available = available]
           free == { id \in Ids : \A d \in DOMAIN x.calls : id \in x.calls[d].ids => ~ HoldsLease(x.calls[d]) }
           lost == old.timedOut \/ old.result = "unavailable"
<1>1. StoreType(ss) /\ ss.calls \in Seq(CallType) /\ old \in CallType /\ CallOK(old)
  BY DEF SecretsOK, StoreType
<1>2. /\ ss.items \in [Ids -> Secrets \union { Absent }] /\ ss.acked \in [Ids -> Secrets \union { Absent, Unknown }]
      /\ ss = [items |-> ss.items, acked |-> ss.acked, calls |-> ss.calls, stack |-> ss.stack,
               available |-> ss.available]
  BY <1>1 DEF StoreType
<1>3. /\ old.timedOut \/ ~ old.inFlight
      /\ ss' = IF lost THEN x ELSE RemoveNext(x, old.rest, free)
  BY DEF Return
<1>4. /\ new \in CallType /\ new.ids = old.ids /\ new.kind = old.kind /\ new.secret = old.secret
      /\ ~ new.waiting /\ new.inFlight = old.inFlight /\ new.phase = old.phase /\ new.result = old.result
  <2>1. << >> \in Seq(Ids)
    OBVIOUS
  <2> QED BY <1>1, <2>1 DEF CallType
<1>5. new.inFlight => CallOK(new)
  BY <1>1, <1>4 DEF CallOK
<1>6. /\ call \in CallType /\ CallOK(call) /\ (Done(call) => call = new)
      /\ (HoldsLease(call) => call = new /\ HoldsLease(new))
  BY <1>4, <1>5, SettledCall
<1>7. (HoldsLease(new) => HoldsLease(old)) /\ (Done(new) => Done(old))
  BY <1>4 DEF HoldsLease, Done
<1>8. \A id \in old.ids : Done(old) => ss.items[id] = old.secret
  BY DEF SecretsOK, Effects
<1>9. acked \in [Ids -> Secrets \union { Absent, Unknown }]
  BY <1>1, <1>2 DEF Acknowledged, CallType
<1>10. ASSUME NEW id \in Ids, acked[id] # ss.acked[id]
       PROVE  HoldsLease(old) /\ id \in old.ids /\ ~ HoldsLease(call) /\ ss.items[id] = acked[id]
  <2>1. old.kind \in Mutations /\ id \in old.ids /\ old.result = "ok" /\ acked[id] = old.secret
    BY <1>10 DEF Acknowledged, Succeeded
  <2>2. Done(old)
    BY <2>1 DEF Done
  <2>3. HoldsLease(old) /\ ~ old.inFlight
    BY <1>1, <2>1, <2>2, DoneHoldsLease DEF CallOK
  <2>4. ~ HoldsLease(call)
    BY <1>4, <1>6, <2>3 DEF HoldsLease
  <2> QED BY <1>8, <2>1, <2>2, <2>3, <2>4
<1>11. /\ x.items = ss.items /\ x.acked = acked /\ x.calls = [ss.calls EXCEPT ![c] = call]
       /\ x = [items |-> x.items, acked |-> x.acked, calls |-> x.calls, stack |-> x.stack, available |-> x.available]
  <2> DEFINE calls == [ss.calls EXCEPT ![c] = call]
  <2>1. x = [ss EXCEPT !.stack = stack, !.calls = calls, !.acked = acked, !.available = available]
    <3> HIDE DEF call, acked, available, stack
    <3> QED BY <1>1, <1>2
  <2> HIDE DEF x, calls, acked, available, stack
  <2>2. x.items = ss.items /\ x.acked = acked /\ x.calls = calls
        /\ x = [items |-> x.items, acked |-> x.acked, calls |-> x.calls, stack |-> x.stack, available |-> x.available]
    BY <1>2, <2>1
  <2> QED BY <2>2 DEF calls
<1> HIDE DEF new, call, acked, x
<1>12. StoreType(x) <=> x.calls \in Seq(CallType)
  BY <1>2, <1>9, <1>11 DEF StoreType
<1>13. SecretsOK(x)
  <2>1. /\ x.items \in [Ids -> Secrets \union { Absent }] /\ x.acked \in [Ids -> Secrets \union { Absent, Unknown }]
        /\ Done(call) => \A id \in call.ids : x.items[id] = call.secret
        /\ HoldsLease(call) => HoldsLease(ss.calls[c]) /\ call.ids = ss.calls[c].ids
        /\ \A id \in Ids : x.items[id] # ss.items[id] => HoldsLease(ss.calls[c]) /\ id \in ss.calls[c].ids
        /\ \A id \in Ids : x.acked[id] # ss.acked[id] =>
             /\ HoldsLease(ss.calls[c]) /\ id \in ss.calls[c].ids /\ ~ HoldsLease(call)
             /\ x.items[id] = x.acked[id]
    BY <1>2, <1>4, <1>6, <1>7, <1>8, <1>9, <1>10, <1>11
  <2>2. call \in CallType /\ CallOK(call) /\ x.calls = [ss.calls EXCEPT ![c] = call]
    BY <1>6, <1>11
  <2> HIDE DEF free, old, lost, available, stack
  <2> QED BY <1>12, <2>1, <2>2, CallGoesOn
<1>14. SecretsOK(RemoveNext(x, old.rest, free))
  <2>1. old.rest \in Seq(Ids)
    BY <1>1 DEF CallType
  <2>2. free \in SUBSET Ids /\ \A id \in free : Free(x.calls, id)
    BY DEF Free
  <2> QED BY <1>13, <2>1, <2>2, RemoveNextKeeps
<1> QED BY <1>3, <1>13, <1>14

SecretsInv == SecretsOK(ss)

LEMMA SSStepKeeps == SecretsInv /\ [SSNext]_ssVars => SecretsInv'
<1> SUFFICES ASSUME SecretsOK(ss), [SSNext]_ssVars PROVE SecretsOK(ss')
  BY DEF SecretsInv
<1>1. CASE UNCHANGED ssVars
  BY <1>1 DEF ssVars
<1>2. CASE SSNext
  BY <1>2, StartKeeps, ServiceKeeps, ReturnKeeps DEF SSNext
<1> QED BY <1>1, <1>2

(***************************************************************************)
(* What a write or removal that reported success left in the Secret        *)
(* Service stays until the next one begins, whatever calls were given up   *)
(* before and whenever the service answers them.                           *)
(***************************************************************************)
THEOREM SuccessIsStored == SSSpec => []AcknowledgedIsStored
<1>1. SSInit => SecretsInv
  BY SSInitEstablishes DEF SecretsInv
<1>2. SecretsInv => AcknowledgedIsStored
  BY DEF SecretsInv, SecretsOK, Known, AcknowledgedIsStored
<1> QED BY <1>1, <1>2, SSStepKeeps, PTL DEF SSSpec

----------------------------------------------------------------------------
(***************************************************************************)
(* The transport of the userscript.  Between two steps the bridges and the *)
(* transport agree (Agreed); within one, while sessions are failed and     *)
(* bridges replaced, they agree on what is held (Paired), and nothing is   *)
(* held once every bridge is new or every session has failed (Idle).       *)
(***************************************************************************)
VotSpec == VtInit /\ [][VtNext]_vtVars

RequestType ==
  [page : Pages \union { NoRequestYet.page }, script : { "new", "pending", "settled", "gone" },
   asked : BOOLEAN, abortSent : BOOLEAN, held : { "no", "active", "aborted" },
   session : { "none", "queued", "opening", "started", "ended" }, authorized : BOOLEAN,
   reply : { "none", "probing", "posted", "lost", "given" }, dropped : BOOLEAN]

VtType ==
  [transport : { "Uninitialized", "Loading", "Ready", "Error" },
   stage : { "none", "bootstrap", "extension", "enabling", "control", "check" },
   profile : BOOLEAN, enabled : BOOLEAN, manager : { "Disabled", "Preparing", "Ready", "Error" },
   bridge : SUBSET Pages, frame : SUBSET (Pages \union { NoRequestYet.page }), script : SUBSET Pages,
   loads : Nat, applied : Nat, req : [Requests -> RequestType]]

\* The bridge, the transport and the interceptor have the same request, one that a script made.
PairedRequest(q) ==
  /\ (Live(q) <=> q.held # "no") /\ (q.authorized <=> q.held # "no")
  /\ q.script = "new" => q.held = "no" /\ ~ q.asked

Paired(v) ==
  /\ v \in VtType /\ (v.transport = "Uninitialized" => ~ v.profile)
  /\ \A r \in Requests : PairedRequest(v.req[r]) /\ (v.req[r].held # "no" => v.req[r].page \in v.bridge)

Idle(v) == Paired(v) /\ \A r \in Requests : v.req[r].held = "no"

\* No bridge holds more than it may.
Limited(v) ==
  \A p \in Pages : IsFiniteSet(Holds(v, p)) /\ Cardinality(Holds(v, p)) <= MaxConcurrent

Agreed(v) ==
  /\ Paired(v) /\ Limited(v)
  /\ \A r \in Requests : v.req[r].held # "no" => v.transport \in { "Loading", "Ready" }
  /\ \A r \in Requests : v.req[r].session = "queued" => v.transport = "Loading"

LEMMA VtInitEstablishes == VtInit => Idle(vt)
<1>1. NoRequestYet \in RequestType /\ PairedRequest(NoRequestYet) /\ NoRequestYet.held = "no"
  BY DEF NoRequestYet, RequestType, PairedRequest, Live
<1> QED BY <1>1 DEF VtInit, Idle, Paired, VtType

LEMMA IdleIsAgreed == ASSUME NEW v, Idle(v) PROVE Agreed(v)
<1>1. \A p \in Pages : Holds(v, p) = {}
  BY DEF Holds, Idle
<1>2. Limited(v)
  BY <1>1, FS_EmptySet, VotTransportAssumption DEF Limited
<1> QED BY <1>2 DEF Agreed, Idle, Paired, PairedRequest, Live

\* What holds less is within the limit.
LEMMA FewerAreLimited ==
  ASSUME NEW v, Limited(v), NEW x,
         \A r \in Requests : x.req[r].held # "no" => v.req[r].held # "no" /\ x.req[r].page = v.req[r].page
  PROVE  Limited(x)
<1> SUFFICES ASSUME NEW p \in Pages
             PROVE  IsFiniteSet(Holds(x, p)) /\ Cardinality(Holds(x, p)) <= MaxConcurrent
  BY DEF Limited
<1>1. Holds(x, p) \subseteq Holds(v, p)
  BY DEF Holds
<1>2. IsFiniteSet(Holds(v, p)) /\ Cardinality(Holds(v, p)) <= MaxConcurrent
  BY DEF Limited
<1>3. IsFiniteSet(Holds(x, p)) /\ Cardinality(Holds(x, p)) <= Cardinality(Holds(v, p))
  BY <1>1, <1>2, FS_Subset
<1>4. Cardinality(Holds(x, p)) \in Nat /\ Cardinality(Holds(v, p)) \in Nat
  BY <1>2, <1>3, FS_CardinalityType
<1> QED BY <1>2, <1>3, <1>4, VotTransportAssumption

----------------------------------------------------------------------------
\* Every session fails: whatever a bridge held is answered.
LEMMA FailAllEnds ==
  ASSUME NEW v, Paired(v)
  PROVE  /\ Idle(FailAll(v))
         /\ FailAll(v).transport = v.transport /\ FailAll(v).profile = v.profile
<1> DEFINE active == { r \in Requests : Live(v.req[r]) }
           answered(q) == [q EXCEPT !.session = "ended", !.held = "no", !.authorized = FALSE,
                                    !.reply = IF q.held = "no" THEN @
                                              ELSE IF q.page \in v.frame THEN "posted" ELSE "probing"]
           req == [r \in Requests |-> IF r \in active THEN answered(v.req[r]) ELSE v.req[r]]
           x == FailAll(v)
<1>1. x = [v EXCEPT !.req = req] /\ v \in VtType /\ v.req \in [Requests -> RequestType]
  BY DEF FailAll, Change, Paired, VtType
<1>2. \A q \in RequestType :
        PairedRequest(q) =>
          answered(q) \in RequestType /\ PairedRequest(answered(q)) /\ answered(q).held = "no"
  <2> SUFFICES ASSUME NEW q \in RequestType, PairedRequest(q)
               PROVE  answered(q) \in RequestType /\ PairedRequest(answered(q)) /\ answered(q).held = "no"
    OBVIOUS
  <2> DEFINE reply == IF q.held = "no" THEN q.reply ELSE IF q.page \in v.frame THEN "posted" ELSE "probing"
  <2>1. reply \in { "none", "probing", "posted", "lost", "given" }
    BY DEF RequestType
  <2>2. answered(q) = [q EXCEPT !.session = "ended", !.held = "no", !.authorized = FALSE, !.reply = reply]
    OBVIOUS
  <2> HIDE DEF reply, answered
  <2> QED BY <2>1, <2>2, ZenonT(60) DEF RequestType, PairedRequest, Live
<1> HIDE DEF answered
<1>3. req \in [Requests -> RequestType]
  BY <1>1, <1>2 DEF Paired
<1>4. \A r \in Requests : PairedRequest(req[r]) /\ req[r].held = "no"
  BY <1>1, <1>2 DEF Paired, PairedRequest
<1> HIDE DEF req, x
<1>5. x \in VtType /\ x.req = req /\ x.transport = v.transport /\ x.profile = v.profile
  BY <1>1, <1>3 DEF VtType
<1>6. Idle(x)
  BY <1>1, <1>4, <1>5 DEF Idle, Paired
<1> QED BY <1>5, <1>6 DEF x

\* The bridges of all pages are replaced: what they held is gone.
LEMMA ConfigurePagesEnds ==
  ASSUME NEW v, Paired(v)
  PROVE  /\ Idle(ConfigurePages(v, Pages))
         /\ ConfigurePages(v, Pages).transport = v.transport /\ ConfigurePages(v, Pages).profile = v.profile
<1> DEFINE who == { r \in Requests : v.req[r].page \in Pages /\ v.req[r].page \in v.bridge }
           req == [r \in Requests |-> IF r \in who THEN Orphaned(v.req[r]) ELSE v.req[r]]
           served == v.enabled /\ v.manager \in { "Preparing", "Ready" }
           bridge == IF served THEN v.bridge \union Pages ELSE v.bridge \ Pages
           frame == v.frame \ Pages
           x == ConfigurePages(v, Pages)
<1>1. v \in VtType /\ v.req \in [Requests -> RequestType] /\ v.bridge \subseteq Pages
      /\ v.frame \subseteq Pages \union { NoRequestYet.page }
  BY DEF Paired, VtType
<1>2. x = [v EXCEPT !.req = req, !.frame = frame, !.bridge = bridge]
  <2> DEFINE cleared == Change(v, who, Orphaned)
  <2>1. cleared = [v EXCEPT !.req = req]
    BY DEF Change
  <2>2. x = [cleared EXCEPT !.frame = @ \ Pages, !.bridge = IF served THEN @ \union Pages ELSE @ \ Pages]
    BY DEF ConfigurePages
  <2> HIDE DEF cleared, x, req, served, who
  <2>3. cleared.frame = v.frame /\ cleared.bridge = v.bridge
    BY <1>1, <2>1 DEF VtType
  <2>4. x = [cleared EXCEPT !.frame = frame, !.bridge = bridge]
    BY <2>2, <2>3
  <2> HIDE DEF frame, bridge
  <2> QED BY <1>1, <2>1, <2>4 DEF VtType
<1>3. \A q \in RequestType :
        PairedRequest(q) =>
          Orphaned(q) \in RequestType /\ PairedRequest(Orphaned(q)) /\ Orphaned(q).held = "no"
  <2> SUFFICES ASSUME NEW q \in RequestType, PairedRequest(q)
               PROVE  Orphaned(q) \in RequestType /\ PairedRequest(Orphaned(q)) /\ Orphaned(q).held = "no"
    OBVIOUS
  <2> DEFINE session == IF q.held # "no" THEN "ended" ELSE q.session
             reply == IF q.reply = "probing" THEN "lost" ELSE q.reply
             dropped == q.dropped \/ q.held # "no" \/ q.reply = "probing"
  <2>1. /\ session \in { "none", "queued", "opening", "started", "ended" } /\ dropped \in BOOLEAN
        /\ reply \in { "none", "probing", "posted", "lost", "given" }
        /\ session \notin { "queued", "opening", "started" }
    BY DEF RequestType, PairedRequest, Live
  <2>2. Orphaned(q) = [q EXCEPT !.held = "no", !.authorized = FALSE, !.session = session, !.reply = reply,
                                !.dropped = dropped]
    BY DEF Orphaned
  <2> HIDE DEF session, reply, dropped
  <2>3. Orphaned(q) \in RequestType
    <3>1. [q EXCEPT !.held = "no", !.authorized = FALSE, !.session = session, !.reply = reply] \in RequestType
      BY <2>1, ZenonT(60) DEF RequestType
    <3>2. \A z \in RequestType, b \in BOOLEAN : [z EXCEPT !.dropped = b] \in RequestType
      BY DEF RequestType
    <3> QED BY <2>1, <2>2, <3>1, <3>2
  <2>4. /\ Orphaned(q).held = "no" /\ Orphaned(q).authorized = FALSE /\ Orphaned(q).session = session
        /\ Orphaned(q).script = q.script /\ Orphaned(q).asked = q.asked
    BY <2>2 DEF RequestType
  <2> QED BY <2>1, <2>3, <2>4 DEF PairedRequest, Live
<1>4. req \in [Requests -> RequestType]
  BY <1>1, <1>3 DEF Paired
<1>5. \A r \in Requests : PairedRequest(req[r]) /\ req[r].held = "no"
  BY <1>1, <1>3 DEF Paired
<1>6. bridge \in SUBSET Pages /\ frame \in SUBSET (Pages \union { NoRequestYet.page })
  BY <1>1
<1> HIDE DEF req, bridge, frame, x
<1>7. x \in VtType /\ x.req = req /\ x.transport = v.transport /\ x.profile = v.profile
  BY <1>1, <1>2, <1>4, <1>6 DEF VtType
<1>8. Idle(x)
  BY <1>5, <1>7 DEF Idle, Paired
<1> QED BY <1>7, <1>8 DEF x

LEMMA ManagerFollowsKeeps ==
  ASSUME NEW v, Paired(v)
  PROVE  /\ Paired(ManagerFollows(v)) /\ (Idle(ManagerFollows(v)) \/ ManagerFollows(v) = v)
         /\ ManagerFollows(v).transport = v.transport /\ ManagerFollows(v).profile = v.profile
<1> DEFINE manager == CASE v.transport = "Ready" -> "Ready" [] v.transport = "Error" -> "Error" [] OTHER -> "Preparing"
           w == [v EXCEPT !.manager = manager]
<1>1. CASE ~ v.enabled
  BY <1>1 DEF ManagerFollows
<1>2. CASE v.enabled
  <2>1. ManagerFollows(v) = ConfigurePages(w, Pages)
    BY <1>2 DEF ManagerFollows
  <2>2. manager \in { "Disabled", "Preparing", "Ready", "Error" }
    OBVIOUS
  <2> HIDE DEF manager
  <2>3. w \in VtType /\ w.transport = v.transport /\ w.profile = v.profile /\ w.req = v.req /\ w.bridge = v.bridge
    BY <2>2 DEF Paired, VtType
  <2> HIDE DEF w
  <2>4. Paired(w)
    BY <2>3 DEF Paired
  <2> QED BY <2>1, <2>3, <2>4, ConfigurePagesEnds DEF Idle
<1> QED BY <1>1, <1>2

LEMMA SetStateKeeps ==
  ASSUME NEW v, Paired(v), NEW state \in { "Uninitialized", "Loading", "Ready", "Error" },
         NEW stage \in { "none", "bootstrap", "extension", "enabling", "control", "check" },
         state = "Uninitialized" => ~ v.profile
  PROVE  /\ Paired(SetState(v, state, stage)) /\ SetState(v, state, stage).transport = state
         /\ Idle(SetState(v, state, stage)) \/ SetState(v, state, stage).req = v.req
         /\ SetState(v, state, stage).profile = v.profile
<1> DEFINE w == [v EXCEPT !.transport = state, !.stage = stage]
<1>1. /\ w \in VtType /\ w.transport = state /\ w.profile = v.profile /\ w.req = v.req /\ w.bridge = v.bridge
  BY DEF Paired, VtType
<1>2. SetState(v, state, stage) = ManagerFollows(w)
  BY DEF SetState
<1> HIDE DEF w
<1>3. Paired(w)
  BY <1>1 DEF Paired
<1> QED BY <1>1, <1>2, <1>3, ManagerFollowsKeeps

LEMMA SetStateIdle ==
  ASSUME NEW v, Idle(v), NEW state \in { "Uninitialized", "Loading", "Ready", "Error" },
         NEW stage \in { "none", "bootstrap", "extension", "enabling", "control", "check" },
         state = "Uninitialized" => ~ v.profile
  PROVE  Idle(SetState(v, state, stage)) /\ SetState(v, state, stage).transport = state
<1>1. Paired(v)
  BY DEF Idle
<1>2. /\ Paired(SetState(v, state, stage)) /\ SetState(v, state, stage).transport = state
      /\ Idle(SetState(v, state, stage)) \/ SetState(v, state, stage).req = v.req
  BY <1>1, SetStateKeeps
<1> QED BY <1>2 DEF Idle

LEMMA FailEnds ==
  ASSUME NEW v, Paired(v)
  PROVE  Idle(Fail(v)) /\ Fail(v).transport = "Error"
<1>1. Idle(FailAll(v))
  BY FailAllEnds
<1>2. "Error" \in { "Uninitialized", "Loading", "Ready", "Error" } /\ "Error" # "Uninitialized"
      /\ "none" \in { "none", "bootstrap", "extension", "enabling", "control", "check" }
  OBVIOUS
<1> QED BY <1>1, <1>2, SetStateIdle DEF Fail

\* ensureReady: only a transport with nothing under way is made anew.
LEMMA EnsureReadyKeeps ==
  ASSUME NEW v, Agreed(v), NEW prepared \in BOOLEAN
  PROVE  Agreed(EnsureReady(v, prepared))
<1> DEFINE fresh == IF v.transport = "Error" THEN ResetTransportProfile(v) ELSE v
           w == [fresh EXCEPT !.profile = TRUE]
<1>1. CASE v.transport \in { "Ready", "Loading" }
  BY <1>1 DEF EnsureReady
<1>2. CASE v.transport \notin { "Ready", "Loading" }
  <2>1. EnsureReady(v, prepared) = IF prepared THEN SetState(w, "Loading", "bootstrap") ELSE Fail(fresh)
    BY <1>2 DEF EnsureReady
  <2>2. Idle(v)
    BY <1>2 DEF Agreed, Idle
  <2>3. v \in VtType
    BY <2>2 DEF Idle, Paired
  <2>4. fresh \in VtType /\ fresh.req = v.req /\ fresh.bridge = v.bridge /\ (fresh.transport = "Uninitialized" => ~ fresh.profile)
    <3>1. CASE v.transport = "Error"
      <4>1. fresh = [v EXCEPT !.profile = FALSE, !.transport = "Uninitialized"]
        BY <3>1 DEF ResetTransportProfile
      <4> HIDE DEF fresh
      <4> QED BY <2>3, <4>1 DEF VtType
    <3>2. CASE v.transport # "Error"
      BY <2>2, <2>3, <3>2 DEF Idle, Paired
    <3> QED BY <3>1, <3>2
  <2> HIDE DEF fresh
  <2>5. Idle(fresh)
    BY <2>2, <2>4 DEF Idle, Paired
  <2>6. CASE prepared
    <3>1. SetState(w, "Loading", "bootstrap") = ManagerFollows([w EXCEPT !.transport = "Loading", !.stage = "bootstrap"])
      BY DEF SetState
    <3> DEFINE z == [w EXCEPT !.transport = "Loading", !.stage = "bootstrap"]
    <3>2. z \in VtType /\ z.transport = "Loading" /\ z.req = fresh.req /\ z.bridge = fresh.bridge
      BY <2>4 DEF VtType
    <3> HIDE DEF z, w
    <3>3. Idle(z)
      BY <2>5, <3>2 DEF Idle, Paired
    <3>4. Idle(ManagerFollows(z))
      BY <3>3, ManagerFollowsKeeps DEF Idle
    <3> QED BY <2>1, <2>6, <3>1, <3>4, IdleIsAgreed DEF z
  <2>7. CASE ~ prepared
    BY <2>1, <2>5, <2>7, FailEnds, IdleIsAgreed DEF Idle
  <2> QED BY <2>6, <2>7
<1> QED BY <1>1, <1>2

----------------------------------------------------------------------------
\* One request is written.
Put(v, r, q) == [v EXCEPT !.req = [v.req EXCEPT ![r] = q]]

LEMMA PutFields ==
  ASSUME NEW v \in VtType, NEW r \in Requests, NEW q \in RequestType
  PROVE  /\ Put(v, r, q) \in VtType /\ Put(v, r, q).req = [v.req EXCEPT ![r] = q] /\ Put(v, r, q).req[r] = q
         /\ Put(v, r, q).transport = v.transport /\ Put(v, r, q).profile = v.profile
         /\ Put(v, r, q).bridge = v.bridge /\ Put(v, r, q).frame = v.frame
<1> DEFINE req == [v.req EXCEPT ![r] = q]
           x == Put(v, r, q)
<1>1. x = [v EXCEPT !.req = req] /\ v.req \in [Requests -> RequestType]
  BY DEF Put, VtType
<1>2. req \in [Requests -> RequestType] /\ req[r] = q
  BY <1>1
<1> HIDE DEF x, req
<1>3. /\ x \in VtType /\ x.req = req /\ x.transport = v.transport /\ x.profile = v.profile
      /\ x.bridge = v.bridge /\ x.frame = v.frame
  BY <1>1, <1>2 DEF VtType
<1> QED BY <1>2, <1>3 DEF x, req

LEMMA PutTwice ==
  ASSUME NEW v \in VtType, NEW r \in Requests, NEW q \in RequestType, NEW z
  PROVE  Put(Put(v, r, q), r, z) = Put(v, r, z)
<1> DEFINE req == [v.req EXCEPT ![r] = q]
           later == [v.req EXCEPT ![r] = z]
           x == Put(v, r, q)
<1>1. x = [v EXCEPT !.req = req] /\ x.req = req /\ v.req \in [Requests -> RequestType]
  BY PutFields DEF Put, VtType
<1>2. [req EXCEPT ![r] = z] = later
  BY <1>1
<1>3. Put(x, r, z) = [x EXCEPT !.req = later] /\ Put(v, r, z) = [v EXCEPT !.req = later]
  BY <1>1, <1>2 DEF Put
<1> HIDE DEF x, req, later
<1>4. Put(x, r, z) = Put(v, r, z)
  BY <1>1, <1>3 DEF VtType
<1> QED BY <1>4 DEF x

\* A request is let go of, or goes on.
LEMMA RequestGoesOn ==
  ASSUME NEW v, Agreed(v), NEW r \in Requests, NEW q \in RequestType, PairedRequest(q),
         q.held # "no" => v.req[r].held # "no" /\ q.page = v.req[r].page,
         q.session = "queued" => v.req[r].session = "queued",
         NEW x \in VtType, x.req = [v.req EXCEPT ![r] = q], x.bridge = v.bridge,
         x.transport = v.transport, x.profile = v.profile
  PROVE  Agreed(x)
<1>1. v \in VtType /\ v.req \in [Requests -> RequestType]
  BY DEF Agreed, Paired, VtType
<1>2. x.req[r] = q /\ \A o \in Requests \ { r } : x.req[o] = v.req[o]
  BY <1>1
<1>3. Limited(x)
  <2>1. \A o \in Requests : x.req[o].held # "no" => v.req[o].held # "no" /\ x.req[o].page = v.req[o].page
    BY <1>2
  <2> QED BY <2>1, FewerAreLimited DEF Agreed
<1>4. Paired(x)
  BY <1>2 DEF Agreed, Paired
<1> QED BY <1>2, <1>3, <1>4 DEF Agreed

LEMMA PutKeeps ==
  ASSUME NEW v, Agreed(v), NEW r \in Requests, NEW q \in RequestType, PairedRequest(q),
         q.held # "no" => v.req[r].held # "no" /\ q.page = v.req[r].page,
         q.session = "queued" => v.req[r].session = "queued"
  PROVE  Agreed(Put(v, r, q))
<1>1. v \in VtType
  BY DEF Agreed, Paired
<1> DEFINE x == Put(v, r, q)
<1>2. x \in VtType /\ x.req = [v.req EXCEPT ![r] = q] /\ x.bridge = v.bridge /\ x.transport = v.transport
      /\ x.profile = v.profile
  BY <1>1, PutFields
<1> HIDE DEF x
<1>3. Agreed(x)
  BY <1>2, RequestGoesOn
<1> QED BY <1>3 DEF x

\* A session that ends: its bridge answers, and nothing of it stays.
LEMMA FinishPuts ==
  ASSUME NEW v \in VtType, NEW r \in Requests, PairedRequest(v.req[r])
  PROVE  \E q \in RequestType : Finish(v, r) = Put(v, r, q) /\ PairedRequest(q) /\ q.held = "no"
<1> DEFINE old == v.req[r]
<1>1. old \in RequestType /\ v.req \in [Requests -> RequestType]
  BY DEF VtType
<1>2. CASE ~ Live(old)
  <2>1. Finish(v, r) = v /\ old.held = "no"
    BY <1>2 DEF Finish, PairedRequest
  <2>2. Put(v, r, old) = v
    BY <1>1 DEF Put, VtType
  <2> QED BY <1>1, <2>1, <2>2
<1>3. CASE Live(old)
  <2> DEFINE a == [old EXCEPT !.session = "ended"]
             b == [a EXCEPT !.held = "no", !.authorized = FALSE]
             reply == IF b.page \in v.frame THEN "posted" ELSE "probing"
             q == [b EXCEPT !.reply = reply]
  <2>1. old.held # "no"
    BY <1>3 DEF PairedRequest
  <2>2. a \in RequestType /\ b \in RequestType /\ q \in RequestType /\ a.held # "no"
    BY <1>1, <2>1, ZenonT(60) DEF RequestType
  <2>3. q.held = "no" /\ PairedRequest(q)
    BY <1>1 DEF RequestType, PairedRequest, Live
  <2>4. Finish(v, r) = HandleTransportResponse(Put(v, r, a), r)
    BY <1>1, <1>3 DEF Finish, Put, VtType
  <2>5. HandleTransportResponse(Put(v, r, a), r) = Deliver(Released(Put(v, r, a), r), r)
    <3> HIDE DEF a
    <3>1. Put(v, r, a).req[r] = a
      BY <2>2, PutFields
    <3> QED BY <2>2, <3>1 DEF HandleTransportResponse
  <2>6. Released(Put(v, r, a), r) = Put(v, r, b)
    <3> HIDE DEF a
    <3>1. /\ Put(v, r, a) \in VtType /\ Put(v, r, a).req[r] = a
          /\ Put(Put(v, r, a), r, b) = Put(v, r, b)
      <4> HIDE DEF b
      <4>1. Put(v, r, a) \in VtType /\ Put(v, r, a).req[r] = a
        BY <2>2, PutFields
      <4>2. Put(Put(v, r, a), r, b) = Put(v, r, b)
        BY <2>2, PutTwice
      <4> QED BY <4>1, <4>2
    <3> DEFINE w == Put(v, r, a)
    <3>2. Released(w, r) = Put(w, r, b)
      <4> HIDE DEF w
      <4>1. w \in VtType /\ w.req[r] = a
        BY <3>1 DEF w
      <4> QED BY <4>1 DEF Released, Put, VtType
    <3> QED BY <3>1, <3>2
  <2>7. Deliver(Put(v, r, b), r) = Put(v, r, q)
    <3> HIDE DEF b
    <3> DEFINE w == Put(v, r, b)
    <3>1. w \in VtType /\ w.req[r] = b /\ w.frame = v.frame /\ Put(w, r, q) = Put(v, r, q)
      <4> HIDE DEF q
      <4>1. w \in VtType /\ w.req[r] = b /\ w.frame = v.frame
        BY <2>2, PutFields, ZenonT(60)
      <4>2. Put(w, r, q) = Put(v, r, q)
        BY <2>2, PutTwice
      <4> QED BY <4>1, <4>2
    <3> HIDE DEF w
    <3>2. Deliver(w, r) = Put(w, r, q)
      BY <3>1 DEF Deliver, Put, VtType
    <3> QED BY <3>1, <3>2 DEF w
  <2> QED BY <2>2, <2>3, <2>4, <2>5, <2>6, <2>7
<1> QED BY <1>2, <1>3

LEMMA FinishKeeps ==
  ASSUME NEW v, Agreed(v), NEW r \in Requests
  PROVE  Agreed(Finish(v, r))
<1>1. v \in VtType /\ PairedRequest(v.req[r])
  BY DEF Agreed, Paired
<1>2. PICK q \in RequestType : Finish(v, r) = Put(v, r, q) /\ PairedRequest(q) /\ q.held = "no"
  BY <1>1, FinishPuts
<1>3. q.session # "queued"
  BY <1>2 DEF PairedRequest, Live
<1> QED BY <1>2, <1>3, PutKeeps

\* A step that leaves alone what bridges and transport share.
LEMMA QuietKeeps ==
  ASSUME NEW v, Agreed(v), NEW x \in VtType,
         x.bridge = v.bridge, x.transport = v.transport, x.profile = v.profile,
         \A r \in Requests :
           /\ PairedRequest(x.req[r]) /\ x.req[r].held = v.req[r].held
           /\ v.req[r].held # "no" => x.req[r].page = v.req[r].page
           /\ x.req[r].session = v.req[r].session
  PROVE  Agreed(x)
<1>1. Limited(x)
  BY FewerAreLimited DEF Agreed
<1>2. Paired(x)
  BY DEF Agreed, Paired
<1> QED BY <1>1, <1>2 DEF Agreed

\* A request is taken up by a bridge that has room for it.
LEMMA AdmitKeeps ==
  ASSUME NEW v, Agreed(v), NEW r \in Requests, NEW q \in RequestType, PairedRequest(q),
         q.page = v.req[r].page, q.page \in v.bridge, Cardinality(Holds(v, q.page)) < MaxConcurrent,
         v.transport \in { "Loading", "Ready" }, q.session = "queued" => v.transport = "Loading"
  PROVE  Agreed(Put(v, r, q))
<1> DEFINE x == Put(v, r, q)
<1>1. v \in VtType /\ v.req \in [Requests -> RequestType] /\ v.bridge \subseteq Pages
  BY DEF Agreed, Paired, VtType
<1>2. /\ x \in VtType /\ x.req = [v.req EXCEPT ![r] = q] /\ x.bridge = v.bridge /\ x.transport = v.transport
      /\ x.profile = v.profile
  BY <1>1, PutFields
<1> HIDE DEF x
<1>3. x.req[r] = q /\ \A o \in Requests \ { r } : x.req[o] = v.req[o]
  BY <1>1, <1>2
<1>4. Paired(x)
  BY <1>2, <1>3 DEF Agreed, Paired
<1>5. ASSUME NEW p \in Pages
      PROVE  IsFiniteSet(Holds(x, p)) /\ Cardinality(Holds(x, p)) <= MaxConcurrent
  <2>1. IsFiniteSet(Holds(v, p)) /\ Cardinality(Holds(v, p)) \in Nat /\ Cardinality(Holds(v, p)) <= MaxConcurrent
    BY FS_CardinalityType DEF Agreed, Limited
  <2>2. CASE p = q.page
    <3>1. Holds(x, p) \subseteq Holds(v, p) \union { r }
      BY <1>3 DEF Holds
    <3>2. /\ IsFiniteSet(Holds(v, p) \union { r })
          /\ Cardinality(Holds(v, p) \union { r }) <= Cardinality(Holds(v, p)) + 1
      <4> DEFINE S == Holds(v, p)
      <4>1. IsFiniteSet(S) /\ Cardinality(S) \in Nat
        BY <2>1
      <4> HIDE DEF S
      <4>2. /\ IsFiniteSet(S \union { r })
            /\ \/ Cardinality(S \union { r }) = Cardinality(S)
               \/ Cardinality(S \union { r }) = Cardinality(S) + 1
        BY <4>1, FS_AddElement
      <4>3. Cardinality(S \union { r }) <= Cardinality(S) + 1
        BY <4>1, <4>2
      <4> QED BY <4>2, <4>3 DEF S
    <3>3. IsFiniteSet(Holds(x, p)) /\ Cardinality(Holds(x, p)) <= Cardinality(Holds(v, p) \union { r })
      BY <3>1, <3>2, FS_Subset
    <3>4. Cardinality(Holds(x, p)) \in Nat /\ Cardinality(Holds(v, p) \union { r }) \in Nat
      BY <3>2, <3>3, FS_CardinalityType
    <3>5. Cardinality(Holds(v, p)) < MaxConcurrent
      BY <2>2
    <3> QED BY <2>1, <3>2, <3>3, <3>4, <3>5, VotTransportAssumption
  <2>3. CASE p # q.page
    <3>1. Holds(x, p) \subseteq Holds(v, p)
      BY <1>3, <2>3 DEF Holds
    <3>2. IsFiniteSet(Holds(x, p)) /\ Cardinality(Holds(x, p)) <= Cardinality(Holds(v, p))
      BY <2>1, <3>1, FS_Subset
    <3>3. Cardinality(Holds(x, p)) \in Nat
      BY <3>2, FS_CardinalityType
    <3> QED BY <2>1, <3>2, <3>3, VotTransportAssumption
  <2> QED BY <2>2, <2>3
<1>6. Agreed(x)
  BY <1>2, <1>3, <1>4, <1>5 DEF Agreed, Limited
<1> QED BY <1>6 DEF x

\* The transport is ready: what waited for it starts.
LEMMA FlushKeeps ==
  ASSUME NEW v, Paired(v), Limited(v), v.transport = "Ready"
  PROVE  Agreed(FlushPendingRequests(v))
<1> DEFINE open(q) == [q EXCEPT !.session = "opening"]
           who == { r \in Requests : v.req[r].session = "queued" }
           req == [r \in Requests |-> IF r \in who THEN open(v.req[r]) ELSE v.req[r]]
           x == FlushPendingRequests(v)
<1>1. x = [v EXCEPT !.req = req] /\ v \in VtType /\ v.req \in [Requests -> RequestType]
  BY DEF FlushPendingRequests, Change, Paired, VtType
<1>2. \A q \in RequestType :
        q.session = "queued" /\ PairedRequest(q) =>
          /\ open(q) \in RequestType /\ PairedRequest(open(q)) /\ open(q).held = q.held /\ open(q).page = q.page
          /\ open(q).session = "opening"
  BY DEF RequestType, PairedRequest, Live
<1> HIDE DEF open
<1>3. req \in [Requests -> RequestType]
  BY <1>1, <1>2 DEF Paired
<1>4. \A r \in Requests : /\ PairedRequest(req[r]) /\ req[r].held = v.req[r].held /\ req[r].page = v.req[r].page
                          /\ req[r].session # "queued"
  BY <1>1, <1>2 DEF Paired
<1> HIDE DEF req, x
<1>5. /\ x \in VtType /\ x.req = req /\ x.transport = v.transport /\ x.profile = v.profile
      /\ x.bridge = v.bridge
  BY <1>1, <1>3 DEF VtType
<1>6. Limited(x)
  BY <1>4, <1>5, FewerAreLimited
<1>7. Paired(x)
  BY <1>4, <1>5 DEF Paired
<1>8. Agreed(x)
  BY <1>4, <1>5, <1>6, <1>7 DEF Agreed
<1> QED BY <1>8 DEF x

----------------------------------------------------------------------------
\* Settings are applied: whatever the userscript held is gone.
LEMMA ApplySettingsKeeps ==
  ASSUME Agreed(vt), NEW mode \in { "off", "on", "broken" }, NEW prepared \in BOOLEAN, ApplySettings(mode, prepared)
  PROVE  Agreed(vt')
<1> DEFINE applied == vt.applied + 1
           manager == IF mode = "off" THEN "Disabled" ELSE "Error"
           off == [vt EXCEPT !.applied = applied, !.enabled = FALSE, !.manager = manager]
           on == [vt EXCEPT !.applied = applied, !.enabled = TRUE]
           v == IF mode = "on" THEN ManagerFollows(EnsureReady(on, prepared)) ELSE off
<1>1. vt \in VtType /\ applied \in Nat /\ manager \in { "Disabled", "Preparing", "Ready", "Error" }
  BY DEF Agreed, Paired, VtType
<1>2. vt' = ConfigurePages(v, Pages)
  BY DEF ApplySettings
<1> HIDE DEF applied, manager
<1>3. /\ off \in VtType /\ off.transport = vt.transport /\ off.profile = vt.profile
      /\ off.req = vt.req /\ off.bridge = vt.bridge
  BY <1>1 DEF VtType
<1>4. /\ on \in VtType /\ on.transport = vt.transport /\ on.profile = vt.profile
      /\ on.req = vt.req /\ on.bridge = vt.bridge
  BY <1>1 DEF VtType
<1> HIDE DEF on, off
<1>5. Paired(off)
  BY <1>3 DEF Agreed, Paired
<1>6. Agreed(on)
  <2>1. \A r \in Requests : PairedRequest(on.req[r])
    BY <1>4 DEF Agreed, Paired
  <2> QED BY <1>4, <2>1, QuietKeeps
<1>7. Paired(ManagerFollows(EnsureReady(on, prepared)))
  BY <1>6, EnsureReadyKeeps, ManagerFollowsKeeps DEF Agreed
<1>8. Paired(v)
  BY <1>5, <1>7
<1> HIDE DEF v
<1> QED BY <1>2, <1>8, ConfigurePagesEnds, IdleIsAgreed

\* The loading of the transport goes on, ends, or fails.
LEMMA LoadingKeeps ==
  ASSUME Agreed(vt),
         \/ \E ok \in BOOLEAN : BootstrapFinished(ok) \/ ExtensionLoaded(ok) \/ ControlPageLoaded(ok) \/ TransportChecked(ok)
         \/ ActivateExtension \/ InitializationTimeout \/ ControlPageCrashed
  PROVE  Agreed(vt')
<1>1. Paired(vt) /\ vt \in VtType /\ Limited(vt)
  BY DEF Agreed, Paired
<1>2. Agreed(Fail(vt))
  BY <1>1, FailEnds, IdleIsAgreed
<1>3. ASSUME NEW stage \in { "extension", "enabling", "control", "check" }
      PROVE  Agreed([vt EXCEPT !.stage = stage])
  <2> DEFINE x == [vt EXCEPT !.stage = stage]
  <2>1. /\ x \in VtType /\ x.transport = vt.transport /\ x.profile = vt.profile
        /\ x.req = vt.req /\ x.bridge = vt.bridge
    BY <1>1 DEF VtType
  <2> HIDE DEF x
  <2>2. \A r \in Requests : PairedRequest(x.req[r])
    BY <1>1, <2>1 DEF Paired
  <2>3. Agreed(x)
    BY <2>1, <2>2, QuietKeeps
  <2> QED BY <2>3 DEF x
<1>4. Agreed(FlushPendingRequests(SetState(vt, "Ready", "none")))
  <2> DEFINE x == SetState(vt, "Ready", "none")
  <2>1. Paired(x) /\ x.transport = "Ready" /\ (Idle(x) \/ x.req = vt.req)
    BY <1>1, SetStateKeeps
  <2> HIDE DEF x
  <2>2. Limited(x)
    <3>1. CASE Idle(x)
      BY <3>1, IdleIsAgreed DEF Agreed
    <3>2. CASE x.req = vt.req
      BY <1>1, <3>2, FewerAreLimited
    <3> QED BY <2>1, <3>1, <3>2
  <2> QED BY <2>1, <2>2, FlushKeeps DEF x
<1>5. ASSUME NEW ok \in BOOLEAN, BootstrapFinished(ok) \/ ExtensionLoaded(ok) \/ ControlPageLoaded(ok)
      PROVE  Agreed(vt')
  BY <1>2, <1>3, <1>5 DEF BootstrapFinished, ExtensionLoaded, ControlPageLoaded
<1>6. ASSUME NEW ok \in BOOLEAN, TransportChecked(ok) PROVE Agreed(vt')
  BY <1>2, <1>4, <1>6 DEF TransportChecked
<1>7. CASE ActivateExtension
  BY <1>3, <1>7 DEF ActivateExtension
<1>8. CASE InitializationTimeout \/ ControlPageCrashed
  BY <1>2, <1>8 DEF InitializationTimeout, ControlPageCrashed
<1> QED BY <1>5, <1>6, <1>7, <1>8

\* A document goes, and its script with it; what the bridge holds stays.
LEMMA LoadDocumentKeeps ==
  ASSUME Agreed(vt), NEW p \in Pages, LoadDocument(p)
  PROVE  Agreed(vt')
<1> DEFINE gone(q) == [q EXCEPT !.script = IF @ \in { "pending", "settled" } THEN "gone" ELSE @]
           who == { r \in Requests : vt.req[r].page = p /\ vt.req[r].script # "new" }
           req == [r \in Requests |-> IF r \in who THEN gone(vt.req[r]) ELSE vt.req[r]]
           loads == vt.loads + 1
           frame == vt.frame \ { p }
           script == IF p \in vt.bridge THEN vt.script \union { p } ELSE vt.script \ { p }
           x == vt'
<1>1. Paired(vt) /\ vt \in VtType /\ vt.req \in [Requests -> RequestType]
  BY DEF Agreed, Paired, VtType
<1>2. x = [vt EXCEPT !.req = req, !.loads = loads, !.frame = frame, !.script = script]
  <2> DEFINE w == [vt EXCEPT !.req = req]
  <2>1. x = [w EXCEPT !.loads = w.loads + 1, !.frame = w.frame \ { p },
                      !.script = IF p \in vt.bridge THEN w.script \union { p } ELSE w.script \ { p }]
    BY DEF LoadDocument, Change
  <2> HIDE DEF req, x
  <2>2. w.loads = vt.loads /\ w.frame = vt.frame /\ w.script = vt.script
    BY <1>1 DEF VtType
  <2> HIDE DEF w
  <2>3. x = [w EXCEPT !.loads = loads, !.frame = frame, !.script = script]
    BY <2>1, <2>2
  <2> HIDE DEF loads, frame, script
  <2> QED BY <1>1, <2>3 DEF VtType, w
<1>3. \A q \in RequestType :
        PairedRequest(q) =>
          /\ gone(q) \in RequestType /\ PairedRequest(gone(q)) /\ gone(q).held = q.held /\ gone(q).page = q.page
          /\ gone(q).session = q.session
  <2> SUFFICES ASSUME NEW q \in RequestType, PairedRequest(q)
               PROVE  /\ gone(q) \in RequestType /\ PairedRequest(gone(q)) /\ gone(q).held = q.held
                      /\ gone(q).page = q.page /\ gone(q).session = q.session
    OBVIOUS
  <2> DEFINE later == IF q.script \in { "pending", "settled" } THEN "gone" ELSE q.script
  <2>1. later \in { "new", "pending", "settled", "gone" } /\ (later = "new" => q.script = "new")
    BY DEF RequestType
  <2>2. gone(q) = [q EXCEPT !.script = later]
    OBVIOUS
  <2> HIDE DEF later, gone
  <2> QED BY <2>1, <2>2 DEF RequestType, PairedRequest, Live
<1> HIDE DEF gone
<1>4. req \in [Requests -> RequestType]
  BY <1>1, <1>3 DEF Paired
<1>5. \A r \in Requests : /\ PairedRequest(req[r]) /\ req[r].held = vt.req[r].held /\ req[r].page = vt.req[r].page
                          /\ req[r].session = vt.req[r].session
  BY <1>1, <1>3 DEF Paired
<1>6. loads \in Nat /\ frame \subseteq Pages \union { NoRequestYet.page } /\ script \subseteq Pages
  BY <1>1 DEF VtType
<1> HIDE DEF req, loads, frame, script, x
<1>7. /\ x \in VtType /\ x.req = req /\ x.transport = vt.transport /\ x.profile = vt.profile
      /\ x.bridge = vt.bridge
  BY <1>1, <1>2, <1>4, <1>6 DEF VtType
<1>8. Agreed(x)
  BY <1>5, <1>7, QuietKeeps
<1> QED BY <1>8 DEF x

----------------------------------------------------------------------------
\* The script of a page, and the frames that answers go to.
LEMMA ScriptKeeps ==
  ASSUME Agreed(vt), NEW r \in Requests,
         \/ \E p \in Pages : ScriptAsks(r, p)
         \/ ScriptAborts(r) \/ FrameFound(r) \/ DeliverToFrame(r)
  PROVE  Agreed(vt')
<1> DEFINE old == vt.req[r]
<1>1. vt \in VtType /\ vt.req \in [Requests -> RequestType] /\ old \in RequestType /\ PairedRequest(old)
  BY DEF Agreed, Paired, VtType
<1>2. ASSUME NEW q \in RequestType, q = [old EXCEPT !.reply = q.reply, !.script = q.script, !.abortSent = q.abortSent],
             q.script = "new" => old.script = "new", vt' = Put(vt, r, q)
      PROVE  Agreed(vt')
  <2>1. q.held = old.held /\ q.page = old.page /\ q.session = old.session /\ PairedRequest(q)
    BY <1>1, <1>2, ZenonT(60) DEF RequestType, PairedRequest, Live
  <2> QED BY <1>2, <2>1, PutKeeps
<1>3. ASSUME NEW p \in Pages, ScriptAsks(r, p) PROVE Agreed(vt')
  <2> DEFINE q == [old EXCEPT !.script = "pending", !.page = p, !.asked = TRUE]
  <2>1. old.script = "new" /\ vt' = Put(vt, r, q)
    BY <1>1, <1>3 DEF ScriptAsks, Put, VtType
  <2>2. old.held = "no"
    BY <1>1, <2>1 DEF PairedRequest
  <2>3. q \in RequestType /\ PairedRequest(q) /\ q.held = "no" /\ q.session = old.session
    BY <1>1, <2>2 DEF RequestType, PairedRequest, Live
  <2> HIDE DEF q
  <2> QED BY <2>1, <2>3, PutKeeps
<1>4. CASE ScriptAborts(r)
  <2> DEFINE q == [old EXCEPT !.script = "settled", !.abortSent = TRUE]
  <2>1. vt' = Put(vt, r, q)
    BY <1>1, <1>4 DEF ScriptAborts, Put, VtType
  <2>2. /\ q \in RequestType /\ q.script # "new"
        /\ q = [old EXCEPT !.reply = q.reply, !.script = q.script, !.abortSent = q.abortSent]
    BY <1>1 DEF RequestType
  <2> HIDE DEF q
  <2> QED BY <1>2, <2>1, <2>2
<1>5. CASE DeliverToFrame(r)
  <2> DEFINE script == IF old.script = "pending" THEN "settled" ELSE old.script
             q == [old EXCEPT !.reply = "given", !.script = script]
  <2>1. vt' = Put(vt, r, q)
    BY <1>1, <1>5 DEF DeliverToFrame, Put, VtType
  <2>2. script \in { "new", "pending", "settled", "gone" } /\ (script = "new" => old.script = "new")
    BY <1>1 DEF RequestType
  <2> HIDE DEF script
  <2>3. /\ q \in RequestType /\ q.script = script
        /\ q = [old EXCEPT !.reply = q.reply, !.script = q.script, !.abortSent = q.abortSent]
    BY <1>1, <2>2, ZenonT(60) DEF RequestType
  <2> HIDE DEF q
  <2> QED BY <1>2, <2>1, <2>2, <2>3
<1>6. CASE FrameFound(r) /\ old.script = "gone"
  <2> DEFINE q == [old EXCEPT !.reply = "lost"]
  <2>1. vt' = Put(vt, r, q)
    BY <1>1, <1>6 DEF FrameFound, Put, VtType
  <2>2. /\ q \in RequestType /\ q.script = old.script
        /\ q = [old EXCEPT !.reply = q.reply, !.script = q.script, !.abortSent = q.abortSent]
    BY <1>1 DEF RequestType
  <2> HIDE DEF q
  <2> QED BY <1>2, <2>1, <2>2
<1>7. CASE FrameFound(r) /\ old.script # "gone"
  <2> DEFINE q == [old EXCEPT !.reply = "posted"]
             w == Put(vt, r, q)
             frame == vt.frame \union { old.page }
             x == vt'
  <2>1. q \in RequestType /\ PairedRequest(q) /\ q.held = old.held /\ q.page = old.page /\ q.session = old.session
    BY <1>1 DEF RequestType, PairedRequest, Live
  <2>2. vt' = [w EXCEPT !.frame = frame]
    BY <1>1, <1>7 DEF FrameFound, Put, VtType
  <2>3. frame \subseteq Pages \union { NoRequestYet.page }
    BY <1>1 DEF VtType, RequestType
  <2> HIDE DEF q, x
  <2>4. /\ w \in VtType /\ w.req = [vt.req EXCEPT ![r] = q] /\ w.transport = vt.transport
        /\ w.profile = vt.profile /\ w.bridge = vt.bridge
    BY <1>1, <2>1, PutFields
  <2> HIDE DEF w, frame
  <2>5. /\ x \in VtType /\ x.req = [vt.req EXCEPT ![r] = q] /\ x.transport = vt.transport
        /\ x.profile = vt.profile /\ x.bridge = vt.bridge
    BY <2>2, <2>3, <2>4 DEF VtType, x
  <2>6. Agreed(x)
    BY <2>1, <2>5, RequestGoesOn
  <2> QED BY <2>6 DEF x
<1> QED BY <1>3, <1>4, <1>5, <1>6, <1>7

\* A session goes on or ends, by itself or because the script takes it back.
LEMMA SessionKeeps ==
  ASSUME Agreed(vt), NEW r \in Requests,
         \/ AbortRequest(r) \/ SessionAnswered(r) \/ SessionCrashed(r) \/ SessionTimeout(r)
         \/ \E ok \in BOOLEAN : SessionPageLoaded(r, ok)
  PROVE  Agreed(vt')
<1> DEFINE old == vt.req[r]
<1>1. vt \in VtType /\ vt.req \in [Requests -> RequestType] /\ old \in RequestType /\ PairedRequest(old)
  BY DEF Agreed, Paired, VtType
<1>2. Agreed(Finish(vt, r))
  BY FinishKeeps
<1>3. CASE AbortRequest(r)
  <2> DEFINE a == [old EXCEPT !.abortSent = FALSE]
             b == [a EXCEPT !.held = "aborted"]
             read == [vt EXCEPT !.req[r].abortSent = FALSE]
             w == Put(vt, r, a)
  <2>1. read = w
    BY <1>1 DEF Put, VtType
  <2>2. a \in RequestType /\ PairedRequest(a) /\ a.held = old.held /\ a.page = old.page /\ a.session = old.session
    BY <1>1, ZenonT(60) DEF RequestType, PairedRequest, Live
  <2>3. CASE ~ (old.page \in vt.bridge /\ old.held = "active")
    <3>1. vt' = w
      BY <1>3, <2>1, <2>3 DEF AbortRequest
    <3> HIDE DEF a
    <3> QED BY <2>2, <3>1, PutKeeps
  <2>4. CASE old.page \in vt.bridge /\ old.held = "active"
    <3>1. vt' = Finish([w EXCEPT !.req[r].held = "aborted"], r)
      BY <1>3, <2>1, <2>4 DEF AbortRequest
    <3>2. b \in RequestType /\ PairedRequest(b) /\ b.held = "aborted" /\ b.page = old.page /\ b.session = old.session
      BY <1>1, <2>4 DEF RequestType, PairedRequest, Live
    <3> HIDE DEF a, b
    <3>3. w \in VtType /\ w.req[r] = a /\ Put(w, r, b) = Put(vt, r, b)
      <4>1. w \in VtType /\ w.req[r] = a
        BY <1>1, <2>2, PutFields
      <4>2. Put(w, r, b) = Put(vt, r, b)
        BY <1>1, <2>2, PutTwice
      <4> QED BY <4>1, <4>2
    <3> HIDE DEF w
    <3>4. [w EXCEPT !.req[r].held = "aborted"] = Put(w, r, b)
      BY <3>3 DEF Put, VtType, b
    <3>5. Agreed(Put(vt, r, b))
      BY <2>4, <3>2, PutKeeps
    <3> QED BY <3>1, <3>3, <3>4, <3>5, FinishKeeps
  <2> QED BY <2>3, <2>4
<1>4. CASE SessionAnswered(r) \/ SessionCrashed(r) \/ SessionTimeout(r)
  BY <1>2, <1>4 DEF SessionAnswered, SessionCrashed, SessionTimeout
<1>5. ASSUME NEW ok \in BOOLEAN, SessionPageLoaded(r, ok) PROVE Agreed(vt')
  <2> DEFINE q == [old EXCEPT !.session = "started"]
  <2>1. CASE ok
    <3>1. old.session = "opening" /\ vt' = Put(vt, r, q)
      BY <1>1, <1>5, <2>1 DEF SessionPageLoaded, Put, VtType
    <3>2. /\ q \in RequestType /\ PairedRequest(q) /\ q.held = old.held /\ q.page = old.page
          /\ q.session # "queued"
      BY <1>1, <3>1 DEF RequestType, PairedRequest, Live
    <3> HIDE DEF q
    <3> QED BY <3>1, <3>2, PutKeeps
  <2>2. CASE ~ ok
    BY <1>2, <1>5, <2>2 DEF SessionPageLoaded
  <2> QED BY <2>1, <2>2
<1> QED BY <1>3, <1>4, <1>5

\* A bridge takes up a request, or refuses it.
LEMMA HandleRequestKeeps ==
  ASSUME Agreed(vt), NEW r \in Requests, NEW permitted \in BOOLEAN, NEW prepared \in BOOLEAN,
         HandleRequest(r, permitted, prepared)
  PROVE  Agreed(vt')
<1> DEFINE old == vt.req[r]
           a == [old EXCEPT !.asked = FALSE]
           b == [a EXCEPT !.held = "active", !.authorized = TRUE]
           q == [b EXCEPT !.session = "queued"]
           o == [b EXCEPT !.session = "opening"]
           read == [vt EXCEPT !.req[r].asked = FALSE]
           taken == [read EXCEPT !.req[r].held = "active", !.req[r].authorized = vt.profile]
           w == Put(vt, r, a)
<1>1. /\ vt \in VtType /\ vt.req \in [Requests -> RequestType] /\ vt.frame \subseteq Pages \union { NoRequestYet.page }
      /\ old \in RequestType /\ PairedRequest(old) /\ vt.profile \in BOOLEAN
      /\ vt.transport = "Uninitialized" => ~ vt.profile
      /\ vt.transport \in { "Uninitialized", "Loading", "Ready", "Error" }
  BY DEF Agreed, Paired, VtType
<1>2. a \in RequestType /\ PairedRequest(a) /\ a.held = old.held /\ a.page = old.page /\ a.session = old.session
      /\ a.script = old.script
  BY <1>1 DEF RequestType, PairedRequest, Live
<1>3. read = w
  BY <1>1 DEF Put, VtType
<1>4. old.asked /\ old.script # "new"
  BY <1>1 DEF HandleRequest, PairedRequest
<1>5. w \in VtType /\ w.req[r] = a /\ w.frame = vt.frame
  <2>1. a \in RequestType /\ vt \in VtType
    BY <1>1, <1>2
  <2> HIDE DEF a, old
  <2> QED BY <2>1, PutFields, ZenonT(60)
<1>6. ASSUME NEW z \in RequestType PROVE Put(w, r, z) = Put(vt, r, z)
  <2> HIDE DEF a
  <2> QED BY <1>1, <1>2, PutTwice
<1>7. CASE old.page \notin vt.bridge
  <2> DEFINE z == [a EXCEPT !.dropped = TRUE]
  <2>1. z \in RequestType /\ PairedRequest(z) /\ z.held = old.held /\ z.page = old.page /\ z.session = old.session
    BY <1>1, ZenonT(60) DEF RequestType, PairedRequest, Live
  <2>2. vt' = [w EXCEPT !.req[r].dropped = TRUE]
    BY <1>3, <1>7 DEF HandleRequest
  <2> HIDE DEF w, a
  <2>3. [w EXCEPT !.req[r].dropped = TRUE] = Put(w, r, z)
    BY <1>5 DEF Put, VtType
  <2> HIDE DEF z
  <2>4. vt' = Put(vt, r, z)
    BY <1>6, <2>1, <2>2, <2>3
  <2> QED BY <2>1, <2>4, PutKeeps
<1>8. CASE old.page \in vt.bridge /\ ~ (permitted /\ Admitted(vt, old.page))
  <2> DEFINE reply == IF a.page \in vt.frame THEN "posted" ELSE "probing"
             z == [a EXCEPT !.reply = reply]
  <2>1. z \in RequestType /\ PairedRequest(z) /\ z.held = old.held /\ z.page = old.page /\ z.session = old.session
    BY <1>1, ZenonT(60) DEF RequestType, PairedRequest, Live
  <2>2. vt' = Deliver(w, r)
    BY <1>3, <1>8 DEF HandleRequest
  <2> HIDE DEF w, a
  <2>3. Deliver(w, r) = Put(w, r, z)
    BY <1>5 DEF Deliver, Put, VtType
  <2> HIDE DEF z
  <2>4. vt' = Put(vt, r, z)
    BY <1>6, <2>1, <2>2, <2>3
  <2> QED BY <2>1, <2>4, PutKeeps
<1>9. CASE old.page \in vt.bridge /\ permitted /\ Admitted(vt, old.page)
  <2>1. vt' = SendRequest(taken, r, prepared)
    BY <1>9 DEF HandleRequest
  <2>2. vt.profile = TRUE /\ Cardinality(Holds(vt, old.page)) < MaxConcurrent /\ vt.transport # "Uninitialized"
    BY <1>1, <1>9 DEF Admitted
  <2>3. /\ b \in RequestType /\ q \in RequestType /\ o \in RequestType /\ PairedRequest(q) /\ PairedRequest(o)
        /\ q.held = "active" /\ o.held = "active" /\ q.page = old.page /\ o.page = old.page
        /\ q.session = "queued" /\ o.session = "opening"
    BY <1>1, <1>4, ZenonT(60) DEF RequestType, PairedRequest, Live
  <2>4. taken = Put(vt, r, b)
    <3>1. taken = [w EXCEPT !.req[r].held = "active", !.req[r].authorized = TRUE]
      BY <1>3, <2>2
    <3> HIDE DEF taken, w, a
    <3>2. [w EXCEPT !.req[r].held = "active", !.req[r].authorized = TRUE] = Put(w, r, b)
      BY <1>5 DEF Put, VtType
    <3> HIDE DEF b
    <3> QED BY <1>6, <2>3, <3>1, <3>2
  <2> DEFINE created == Put(vt, r, q)
  <2>5. [taken EXCEPT !.req[r].session = "queued"] = created
    <3> HIDE DEF taken, b, w
    <3>1. taken \in VtType /\ taken.req[r] = b
      BY <1>1, <2>3, <2>4, PutFields, ZenonT(60)
    <3>2. [taken EXCEPT !.req[r].session = "queued"] = Put(taken, r, q)
      BY <3>1 DEF Put, VtType
    <3> HIDE DEF q
    <3>3. Put(taken, r, q) = Put(vt, r, q)
      BY <1>1, <2>3, <2>4, PutTwice
    <3> QED BY <3>2, <3>3
  <2> HIDE DEF taken, b, w, a
  <2>6. created \in VtType /\ created.transport = vt.transport /\ created.req[r] = q
    <3>1. vt \in VtType /\ q \in RequestType
      BY <1>1, <2>3
    <3> HIDE DEF q, o, old, read
    <3> QED BY <3>1, PutFields
  <2>7. vt' = CASE vt.transport = "Error" -> Finish(created, r)
                [] vt.transport = "Ready" -> [created EXCEPT !.req[r].session = "opening"]
                [] OTHER -> created
    <3> HIDE DEF created, q
    <3> QED BY <2>1, <2>2, <2>5, <2>6 DEF SendRequest
  <2>8. CASE vt.transport = "Error"
    <3> HIDE DEF q
    <3>1. vt' = Finish(created, r)
      BY <2>7, <2>8
    <3>2. PICK z \in RequestType : Finish(created, r) = Put(created, r, z) /\ PairedRequest(z) /\ z.held = "no"
      <4> HIDE DEF created
      <4> QED BY <2>3, <2>6, FinishPuts
    <3>3. Put(created, r, z) = Put(vt, r, z)
      BY <1>1, <2>3, PutTwice
    <3>4. z.session # "queued"
      BY <3>2 DEF PairedRequest, Live
    <3> QED BY <3>1, <3>2, <3>3, <3>4, PutKeeps
  <2>9. CASE vt.transport = "Ready"
    <3>1. vt' = [created EXCEPT !.req[r].session = "opening"]
      BY <2>7, <2>9
    <3>2. [created EXCEPT !.req[r].session = "opening"] = Put(created, r, o)
      <4>1. o = [q EXCEPT !.session = "opening"]
        BY <2>3 DEF RequestType
      <4> HIDE DEF created, q, o
      <4> QED BY <2>6, <4>1 DEF Put, VtType
    <3> HIDE DEF q, o
    <3>3. Put(created, r, o) = Put(vt, r, o)
      BY <1>1, <2>3, PutTwice
    <3>4. Agreed(Put(vt, r, o))
      BY <1>9, <2>2, <2>3, <2>9, AdmitKeeps
    <3> QED BY <3>1, <3>2, <3>3, <3>4
  <2>10. CASE vt.transport = "Loading"
    <3> HIDE DEF q
    <3>1. vt' = created
      BY <2>7, <2>10
    <3>2. Agreed(created)
      BY <1>9, <2>2, <2>3, <2>10, AdmitKeeps
    <3> QED BY <3>1, <3>2
  <2> QED BY <1>1, <2>2, <2>8, <2>9, <2>10
<1> QED BY <1>7, <1>8, <1>9

VotInv == Agreed(vt)

LEMMA VtStepKeeps == VotInv /\ [VtNext]_vtVars => VotInv'
<1> SUFFICES ASSUME Agreed(vt), [VtNext]_vtVars PROVE Agreed(vt')
  BY DEF VotInv
<1>1. CASE UNCHANGED vtVars
  BY <1>1 DEF vtVars
<1>2. CASE VtNext
  BY <1>2, ApplySettingsKeeps, LoadingKeeps, LoadDocumentKeeps, ScriptKeeps, SessionKeeps, HandleRequestKeeps DEF VtNext
<1> QED BY <1>1, <1>2

(***************************************************************************)
(* Bridges, sessions and authorizations agree on every request, whatever   *)
(* fails, is replaced or times out, and no bridge holds more than it may.  *)
(***************************************************************************)
THEOREM BridgesAndTransportAgree == VotSpec => []RequestsAgree
<1>1. VtInit => VotInv
  BY VtInitEstablishes, IdleIsAgreed DEF VotInv
<1>2. VotInv => RequestsAgree
  BY DEF VotInv, Agreed, Paired, PairedRequest, Limited, RequestsAgree
<1> QED BY <1>1, <1>2, VtStepKeeps, PTL DEF VotSpec
=============================================================================
