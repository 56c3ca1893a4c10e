--------------------------- MODULE SecretService ---------------------------
(***************************************************************************)
(* The Linux credential store (CredentialStoreLinux.cpp): calls to the     *)
(* Secret Service are asynchronous, but a caller waits for each in a       *)
(* nested event loop of at most thirty seconds.  While it waits, timers    *)
(* and other events may start further calls, so that the waiting calls     *)
(* form a stack; a call that timed out returns while the service may still *)
(* be working on it.                                                       *)
(*                                                                         *)
(* The service itself is external: it answers or does not, with success or *)
(* an error, and has its effect, if any, before its answer arrives.        *)
(***************************************************************************)
EXTENDS Naturals, Sequences, FiniteSets

CONSTANTS
  Ids,        \* identifiers of credential targets
  Secrets,    \* credentials
  MaxCalls    \* bound: calls made in a behaviour

ASSUME SecretServiceAssumption == MaxCalls \in Nat

VARIABLE ss

ssVars == << ss >>

Absent == "absent"
Unknown == "unknown"

Calls == 1..MaxCalls
Kinds == { "probe", "read", "list", "write", "remove", "removeAll" }
Phases == { "ask", "store", "search", "clear", "verify", "reply" }
Results == { "none", "ok", "failed", "unavailable", "remain" }

(***************************************************************************)
(* A call: what was asked; whether its caller waits and whether the wait   *)
(* was given up; whether the callback of the service is still to come, and *)
(* what it said.  rest is the remainder of a batch of removals.            *)
(***************************************************************************)
NoCall == [kind |-> "probe", ids |-> {}, secret |-> Absent, rest |-> << >>, waiting |-> FALSE,
           timedOut |-> FALSE, inFlight |-> FALSE, phase |-> "ask", result |-> "none"]

Mutations == { "write", "remove", "removeAll" }

FirstPhase(kind) ==
  IF kind = "write" THEN "store" ELSE IF kind \in { "remove", "removeAll" } THEN "search" ELSE "ask"

SSInit ==
  \E items \in [Ids -> Secrets \union { Absent }] :
    ss = [items |-> items, acked |-> items, calls |-> << >>, stack |-> << >>, available |-> FALSE]

(***************************************************************************)
(* The mutation registry.  A lease is owned by the waiting caller and by   *)
(* the state that the callback of the service will be given; it ends with  *)
(* the later of the two.                                                   *)
(***************************************************************************)
\* Mutant of HoldsLease: the state of the call does not own the lease.
HoldsLeaseWhileWaiting(call) == call.kind \in Mutations /\ call.waiting

HoldsLease(call) == call.kind \in Mutations /\ (call.waiting \/ call.inFlight)

Leased(id) == \E c \in DOMAIN ss.calls : id \in ss.calls[c].ids /\ HoldsLease(ss.calls[c])

(***************************************************************************)
(* runNativeCall: the call is handed to the service and its caller waits.  *)
(***************************************************************************)
RunNativeCall(s, kind, ids, secret, rest) ==
  LET call == [NoCall EXCEPT !.kind = kind, !.ids = ids, !.secret = secret, !.rest = rest,
                             !.waiting = TRUE, !.inFlight = TRUE, !.phase = FirstPhase(kind)]
  IN  [s EXCEPT !.calls = Append(@, call), !.stack = Append(@, Len(s.calls) + 1),
                !.acked = [id \in Ids |-> IF kind \in Mutations /\ id \in ids THEN Unknown ELSE @[id]]]

Room == Len(ss.calls) < MaxCalls

IsAvailable ==
  /\ Room /\ ~ ss.available
  /\ ss' = RunNativeCall(ss, "probe", {}, Absent, << >>)

ListCredentials == Room /\ ss' = RunNativeCall(ss, "list", {}, Absent, << >>)

Read(id) ==
  /\ Room /\ ~ Leased(id)
  /\ ss' = RunNativeCall(ss, "read", { id }, Absent, << >>)

Write(id, secret) ==
  /\ Room /\ ~ Leased(id)
  /\ ss' = RunNativeCall(ss, "write", { id }, secret, << >>)

Remove(id) ==
  /\ Room /\ ~ Leased(id)
  /\ ss' = RunNativeCall(ss, "remove", { id }, Absent, << >>)

RemoveAll ==
  /\ Room /\ \A id \in Ids : ~ Leased(id)
  /\ ss' = RunNativeCall(ss, "removeAll", Ids, Absent, << >>)

(***************************************************************************)
(* removeAsync: the targets in turn; one whose lease is taken is reported  *)
(* and skipped.                                                            *)
(***************************************************************************)
RemoveNext(s, targets, free) ==
  LET startable == { i \in DOMAIN targets : targets[i] \in free }
      i == CHOOSE j \in startable : \A k \in startable : j <= k
  IN  IF startable = {} \/ Len(s.calls) >= MaxCalls THEN s
      ELSE RunNativeCall(s, "remove", { targets[i] }, Absent, SubSeq(targets, i + 1, Len(targets)))

RemoveSelected(targets) ==
  LET free == { id \in Ids : ~ Leased(id) }
  IN  Room /\ ss' = RemoveNext(ss, targets, free)

(***************************************************************************)
(* The service works on a call.  A clear leaves locked items alone; a      *)
(* cancelled or failing call may have had its effect before.               *)
(***************************************************************************)
\* Nothing is left of a call that nobody waits for and nobody works on.
Settled(call) == IF call.waiting \/ call.inFlight THEN call ELSE NoCall

Answered(s, c, result) ==
  LET call == s.calls[c]
  IN  [s EXCEPT !.calls[c] = Settled([call EXCEPT !.inFlight = FALSE,
                                                  !.result = IF call.timedOut THEN "none" ELSE result])]

Matching(s, c) == { id \in s.calls[c].ids : s.items[id] # Absent }

ServiceFails(c) ==
  /\ ss.calls[c].inFlight
  /\ \E result \in { "failed", "unavailable" } : ss' = Answered(ss, c, result)

ServiceAnswers(c) ==
  /\ ss.calls[c].inFlight /\ ss.calls[c].phase \in { "ask", "reply" }
  /\ ss' = Answered(ss, c, "ok")

PasswordStored(c) ==
  /\ ss.calls[c].inFlight /\ ss.calls[c].phase = "store"
  /\ ss' = [ss EXCEPT !.items = [id \in Ids |-> IF id \in ss.calls[c].ids THEN ss.calls[c].secret ELSE @[id]],
                      !.calls[c].phase = "reply"]

RemovalSearchFinished(c) ==
  /\ ss.calls[c].inFlight /\ ss.calls[c].phase = "search"
  /\ ss' = IF Matching(ss, c) = {} THEN Answered(ss, c, "ok") ELSE [ss EXCEPT !.calls[c].phase = "clear"]

RemovalClearFinished(c) ==
  /\ ss.calls[c].inFlight /\ ss.calls[c].phase = "clear"
  /\ \E locked \in SUBSET Matching(ss, c) :
       ss' = [ss EXCEPT !.items = [id \in Ids |-> IF id \in Matching(ss, c) \ locked THEN Absent ELSE @[id]],
                        !.calls[c].phase = "verify"]

Verified(s, c) == IF Matching(s, c) = {} THEN "ok" ELSE "remain"

RemovalVerifyFinished(c) ==
  /\ ss.calls[c].inFlight /\ ss.calls[c].phase = "verify"
  /\ ss' = Answered(ss, c, Verified(ss, c))

(***************************************************************************)
(* The deadline of a waiting call.  A call that is finished by then only   *)
(* quits its loop.                                                         *)
(***************************************************************************)
\* Mutant of TimedOut: the call is cancelled, but its caller waits for the callback.
CancelledOnly(call) == call

TimedOut(call) == [call EXCEPT !.timedOut = TRUE]

Timeout(c) ==
  /\ ss.calls[c].waiting /\ ss.calls[c].inFlight /\ ~ ss.calls[c].timedOut
  /\ ss' = [ss EXCEPT !.calls[c] = TimedOut(@)]

(***************************************************************************)
(* The innermost waiting call returns to its caller.  A success is         *)
(* acknowledged; a failure makes the next user of the store probe it; a    *)
(* batch goes on unless the service has become unavailable.                *)
(***************************************************************************)
Succeeded(call) == ~ call.timedOut /\ call.result = "ok"

Acknowledged(s, call) ==
  [id \in Ids |-> IF call.kind \in Mutations /\ id \in call.ids /\ Succeeded(call)
                  THEN call.secret ELSE s.acked[id]]

KeepsAvailability(call) ==
  \/ call.kind = "read" /\ Succeeded(call)
  \/ call.kind = "probe" /\ ~ Succeeded(call)
  \/ call.result = "remain" /\ ~ call.timedOut

Return(c) ==
  LET call == ss.calls[c]
      over == [ss EXCEPT !.stack = SubSeq(@, 1, Len(@) - 1), !.calls[c] = Settled([@ EXCEPT !.waiting = FALSE, !.rest = << >>]),
                         !.acked = Acknowledged(ss, call),
                         !.available = IF KeepsAvailability(call) THEN @ ELSE Succeeded(call)]
      free == { id \in Ids : \A d \in DOMAIN over.calls : id \in over.calls[d].ids => ~ HoldsLease(over.calls[d]) }
      lost == call.timedOut \/ call.result = "unavailable"
  IN  /\ ss.stack # << >> /\ c = ss.stack[Len(ss.stack)]
      /\ call.timedOut \/ ~ call.inFlight
      /\ ss' = IF lost THEN over ELSE RemoveNext(over, call.rest, free)

SSNext ==
  \/ IsAvailable \/ ListCredentials \/ RemoveAll
  \/ \E id \in Ids : Read(id) \/ Remove(id) \/ \E secret \in Secrets : Write(id, secret)
  \/ \E first, second \in Ids : first # second /\ RemoveSelected(<< first, second >>)
  \/ \E c \in DOMAIN ss.calls :
       \/ ServiceFails(c) \/ ServiceAnswers(c) \/ PasswordStored(c)
       \/ RemovalSearchFinished(c) \/ RemovalClearFinished(c) \/ RemovalVerifyFinished(c)
       \/ Timeout(c) \/ Return(c)

(***************************************************************************)
(* The deadline timer of every waiting call fires, and a loop told to quit *)
(* quits.  Nothing is assumed of the service.                              *)
(***************************************************************************)
SSFairness ==
  \A c \in Calls : WF_ss(c \in DOMAIN ss.calls /\ Timeout(c)) /\ WF_ss(c \in DOMAIN ss.calls /\ Return(c))

SSTypeOK ==
  /\ ss.items \in [Ids -> Secrets \union { Absent }]
  /\ ss.acked \in [Ids -> Secrets \union { Absent, Unknown }]
  /\ ss.calls \in Seq([kind : Kinds, ids : SUBSET Ids, secret : Secrets \union { Absent }, rest : Seq(Ids),
                       waiting : BOOLEAN, timedOut : BOOLEAN, inFlight : BOOLEAN, phase : Phases,
                       result : Results])
  /\ ss.stack \in Seq(DOMAIN ss.calls)
  /\ ss.available \in BOOLEAN

(***************************************************************************)
(* What a write or removal that reported success left behind stays until   *)
(* the next one begins: no call that was given up earlier takes effect     *)
(* later ("A timed-out write or removal therefore cannot be overtaken by   *)
(* another mutation of the same credential"), and a removal that left      *)
(* locked items is no success.                                             *)
(***************************************************************************)
AcknowledgedIsStored == \A id \in Ids : ss.acked[id] # Unknown => ss.items[id] = ss.acked[id]

(***************************************************************************)
(* Every caller gets its answer, although others may start calls while it  *)
(* waits and the service may never answer: the deadline is hard.           *)
(***************************************************************************)
CallsReturn == \A c \in Calls : (c \in DOMAIN ss.calls /\ ss.calls[c].waiting)
                                  ~> (c \in DOMAIN ss.calls /\ ~ ss.calls[c].waiting)

=============================================================================
