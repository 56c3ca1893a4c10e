------------------------ MODULE MCRequestInterceptor ------------------------
(***************************************************************************)
(* Two undecided keys and one the proxy gate blocks, two pages, and four   *)
(* policies: protection off, everything undecided, a preset block and a    *)
(* preset allow of the first key.                                          *)
(***************************************************************************)
EXTENDS RequestInterceptor, TLC

CONSTANTS k1, k2, k3, s1, s2, t1, t2

All(decision) == [key \in Keys |-> decision]

Off == [enabled |-> FALSE, user |-> All("allow"), preset |-> All("allow")]
AskAll == [enabled |-> TRUE, user |-> All("ask"), preset |-> All("ask")]

MCPolicies ==
  {Off, AskAll} \union
  { [AskAll EXCEPT !.preset[k1] = decision] : decision \in Decisions }

Symmetry == Permutations({s1, s2}) \union Permutations({t1, t2})

=============================================================================
