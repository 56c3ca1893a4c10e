--------------------------- MODULE MCPromptRouting ---------------------------
(***************************************************************************)
(* The primary window and one popup, three views, one page and one origin  *)
(* it may be reduced to.                                                   *)
(***************************************************************************)
EXTENDS PromptRouting, TLC

CONSTANTS v1, v2, v3, k1, k2, p1, p2, s1, o

MCMatching == [s \in Sources |-> IF s = o THEN {p1, p2} \intersect Urls ELSE {p1}]

AskAll == [enabled |-> TRUE, user |-> [k \in Keys |-> "ask"], preset |-> [k \in Keys |-> "ask"]]

Off == [enabled |-> FALSE, user |-> [k \in Keys |-> "allow"], preset |-> [k \in Keys |-> "ask"]]

BlockPreset == [AskAll EXCEPT !.preset[k1] = "block"]

MCPolicies == {AskAll, Off, BlockPreset}

Symmetry == Permutations({v2, v3})

=============================================================================
