----------------------------- MODULE MCServices -----------------------------
(***************************************************************************)
(* The services that wait for an answer from outside: the calls of the     *)
(* secret service, and the network transport of the video-translation      *)
(* script.  They share no state, so a behaviour is one of one part, and    *)
(* the state spaces add.                                                   *)
(***************************************************************************)
EXTENDS SecretService, VotTransport

VARIABLE part

Parts == {"secrets", "transport"}

vars == << ssVars, vtVars, part >>

Init ==
  /\ part \in Parts
  /\ SSInit /\ VtInit
  /\ part # "secrets" => ss.items = [i \in Ids |-> Absent]

Next ==
  /\ UNCHANGED part
  /\ \/ part = "secrets" /\ SSNext /\ UNCHANGED vtVars
     \/ part = "transport" /\ VtNext /\ UNCHANGED ssVars

Spec == Init /\ [][Next]_vars

FairSpec == Spec /\ SSFairness /\ VtFairness
=============================================================================
