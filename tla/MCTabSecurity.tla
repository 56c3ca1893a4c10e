--------------------------- MODULE MCTabSecurity ----------------------------
(***************************************************************************)
(* One tab, and a policy with a rule for the hosts below corp.com and one  *)
(* for b.com.  Among the files that may be written by hand are one with a  *)
(* mode that does not exist, in a disabled rule, and one with two rules of *)
(* a name, one of them disabled.                                           *)
(***************************************************************************)
EXTENDS TabSecurity

Corp == <<"corp", "com">>
Www == <<"www", "corp", "com">>
Other == <<"b", "com">>
MCTrustHosts == { Www, Other }

MCDomainLists ==
  { << >>, << Pattern(FALSE, Www) >>, << Pattern(TRUE, Corp), Pattern(FALSE, Other) >>,
    << Pattern(TRUE, <<"com">>) >> }

TrustRule(name, enabled, mode, domains, certificates) ==
  [name |-> name, enabled |-> enabled, mode |-> mode, domains |-> domains, anchors |-> certificates]

MCHandWritten ==
  { << >>,
    << TrustRule("corp", TRUE, "custom-only", << Pattern(TRUE, Corp) >>, TrustCertificates),
       TrustRule("b", TRUE, "system-plus-custom", << Pattern(FALSE, Other) >>, TrustCertificates) >>,
    << TrustRule("corp", FALSE, "unheard-of", << Pattern(FALSE, Corp) >>, {}) >>,
    << TrustRule("corp", TRUE, "system-only", << Pattern(FALSE, Corp) >>, {}),
       TrustRule("corp", FALSE, "system-only", << >>, {}) >> }

TabSecurityInit == TrInit /\ TsInit /\ Len(tr.policy) = 2

TabSecurityNext == TsNext /\ UNCHANGED trVars

TabSecuritySpec == TabSecurityInit /\ [][TabSecurityNext]_<< trVars, tsVars >>
=============================================================================
