-------------------------- MODULE ApplicationLaunch --------------------------
(***************************************************************************)
(* Processes of the browser that are started for the same data directory   *)
(* (SingleInstanceCoordinator, main).  The one that gets the lock is the   *)
(* primary and listens; the others connect to it, hand their request over  *)
(* and end.  A process can die at any step; the lock of a dead process     *)
(* counts as free (QLockFile), its socket file stays and leads nowhere.    *)
(* At the end of main the window goes, then the coordinator: its lock,     *)
(* which is a member, and after that its server, which is a child object   *)
(* and removes the file of its name (QLocalServer::close).                 *)
(***************************************************************************)
EXTENDS Naturals, FiniteSets

CONSTANTS
  Processes,      \* a process, and the request it is started with
  MaxForwards     \* bound: attempts in the two seconds of start

Nobody == "nobody"

ASSUME ApplicationLaunchAssumption == MaxForwards \in Nat \ {0} /\ Nobody \notin Processes

VARIABLE la

laVars == << la >>

(***************************************************************************)
(* at: where a process is; tries: its attempts; lock: m_instanceLock;      *)
(* name: whose server the socket file leads to; queue: the connections     *)
(* waiting at a server; handled: how often a request was handled; ended:   *)
(* how its process ended; lost: requests whose primary ended first.        *)
(***************************************************************************)
LaInit ==
  la = [at |-> [p \in Processes |-> "off"], tries |-> [p \in Processes |-> 0], lock |-> Nobody, name |-> Nobody,
        queue |-> [p \in Processes |-> {}], handled |-> [p \in Processes |-> 0],
        ended |-> [p \in Processes |-> "no"], lost |-> {}]

At(p, place) == la.at[p] = place
LaIs(S) == la' = S
Go(S, p, place) == [S EXCEPT !.at[p] = place]
EndAs(S, p, how) == [Go(S, p, "off") EXCEPT !.ended[p] = how]

\* A server that is gone takes the connections nobody has read with it.
WithoutServer(S, p) == [S EXCEPT !.queue[p] = {}, !.lost = @ \cup S.queue[p]]

(***************************************************************************)
(* The start.                                                              *)
(***************************************************************************)
Launch == \E p \in Processes : At(p, "off") /\ la.ended[p] = "no" /\ LaIs(Go(la, p, "starting"))

LockIsFree == la.lock = Nobody

TryLock ==
  \E p \in Processes :
    /\ At(p, "starting")
    /\ LaIs(IF LockIsFree THEN Go([la EXCEPT !.lock = p], p, "locked") ELSE Go(la, p, "forwarding"))

RemoveServer == \E p \in Processes : At(p, "locked") /\ LaIs(Go([la EXCEPT !.name = Nobody], p, "nameless"))

\* QLocalServer::listen, which can fail
Listen ==
  \E p \in Processes :
    /\ At(p, "nameless")
    /\ \/ LaIs(Go([la EXCEPT !.name = p], p, "listening"))
       \/ LaIs(EndAs([la EXCEPT !.lock = Nobody], p, "error"))

\* Mutant of Undelivered: the process ends as if it had handed its request over.
GivenUp(S, p) == EndAs(S, p, "forwarded")

\* The server is not there; start tries again for two seconds.
Undelivered(S, p) ==
  IF S.tries[p] + 1 < MaxForwards THEN [S EXCEPT !.tries[p] = @ + 1] ELSE EndAs(S, p, "error")

\* The request is written to the connection, which nobody needs to have accepted; the write can fail.
ForwardRequest ==
  \E p \in Processes :
    /\ At(p, "forwarding")
    /\ \/ la.name # Nobody /\ LaIs(EndAs([la EXCEPT !.queue[la.name] = @ \cup {p}], p, "forwarded"))
       \/ LaIs(Undelivered(la, p))

(***************************************************************************)
(* The primary.  Its own request is handled once its window is there.      *)
(***************************************************************************)
Handle(S, p) == [S EXCEPT !.handled[p] = @ + 1]

\* The window is there, and launchRequested is connected; or it reports an error and main ends.
Open ==
  \E p \in Processes :
    /\ At(p, "listening")
    /\ LaIs(Go(Handle(la, p), p, "running")) \/ LaIs(Go(la, p, "ending"))

Consumed(S, p, request) == Handle([S EXCEPT !.queue[p] = @ \ {request}], request)

\* acceptPendingConnections, consumeSocket, handleLaunchRequest
ConsumeSocket ==
  \E p \in Processes : \E request \in la.queue[p] : At(p, "running") /\ LaIs(Consumed(la, p, request))

EndOfMain == \E p \in Processes : At(p, "running") /\ LaIs(Go(la, p, "ending"))

\* The destructor: the lock is released, the server is destroyed and removes its file, whosever it is now.
Unlock == \E p \in Processes : At(p, "ending") /\ LaIs(Go([la EXCEPT !.lock = Nobody], p, "unlocked"))

CloseServer ==
  \E p \in Processes :
    At(p, "unlocked") /\ LaIs(EndAs(WithoutServer([la EXCEPT !.name = Nobody], p), p, "primary"))

\* The process dies: its lock is stale at once, and its name refuses connections.
Die ==
  \E p \in Processes :
    /\ ~At(p, "off")
    /\ LaIs(EndAs([WithoutServer(la, p) EXCEPT !.lock = IF @ = p THEN Nobody ELSE @,
                                             !.name = IF @ = p THEN Nobody ELSE @], p, "dead"))

LaNext ==
  \/ Launch \/ TryLock \/ RemoveServer \/ Listen \/ ForwardRequest
  \/ Open \/ ConsumeSocket \/ EndOfMain \/ Unlock \/ CloseServer \/ Die

LaSpec == LaInit /\ [][LaNext]_laVars

(***************************************************************************)
(* Properties.                                                             *)
(***************************************************************************)
\* Only one process at a time works with the profile; a request is handled once at most; and a process
\* that ends as if its request had been taken over leaves it handled, waiting at a server, or lost
\* because the primary that had it ended (SingleInstanceCoordinator::start, forwardRequest, consumeSocket).
LaunchesAreAccounted ==
  /\ Cardinality({ p \in Processes : la.at[p] \in {"locked", "nameless", "listening", "running", "ending"} }) <= 1
  /\ \A p \in Processes :
       /\ la.handled[p] <= 1
       /\ la.ended[p] = "forwarded" =>
            la.handled[p] = 1 \/ p \in la.lost \/ \E q \in Processes : p \in la.queue[q]

=============================================================================
