----------------------------- MODULE Subsequences -----------------------------
(***************************************************************************)
(* What a sequence has at some positions, in its order: SelectSeq of the   *)
(* standard module, without the recursion that proofs cannot follow.       *)
(***************************************************************************)
EXTENDS Naturals, Sequences, FiniteSets

ElementsAt(s, kept) ==
  LET Nth(n) == CHOOSE i \in kept : Cardinality({ j \in kept : j <= i }) = n
  IN  [n \in 1 .. Cardinality(kept) |-> s[Nth(n)]]

ElementsWith(s, Test(_)) == ElementsAt(s, { i \in DOMAIN s : Test(s[i]) })
=============================================================================
