--------------------------- MODULE MCVotTransport ---------------------------
(***************************************************************************)
(* Two pages with a request each, the first made while the transport is    *)
(* being initialized.                                                      *)
(***************************************************************************)
EXTENDS VotTransport

FairSpec == VtInit /\ [][VtNext]_vtVars /\ VtFairness
=============================================================================
