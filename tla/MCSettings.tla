----------------------------- MODULE MCSettings -----------------------------
(***************************************************************************)
(* The settings: the public suffix rules under them (every host of at most *)
(* three labels and every small set of rules), the Site Connections policy *)
(* (two sites and a subdomain under one suffix, a host with an underscore  *)
(* that the rule editor refuses, one preset of each decision), its file,   *)
(* the trust rules, a tab under them, and the save of the settings dialog. *)
(* A behaviour is one of one part, so the state spaces add.                *)
(***************************************************************************)
EXTENDS ConnectionSettings, ConnectionSettingsStore, SettingsTransaction, MCTabSecurity, TLC

CONSTANT Labels

ASSUME LabelsAssumption == "*" \notin Labels

SiteA == <<"a", "com">>
SiteB == <<"b", "com">>
CdnB == <<"cdn", "b", "com">>
Underscored == <<"x_y", "b", "com">>

MCStorable == {SiteA, SiteB, CdnB}
MCHosts == MCStorable \union {Underscored}
MCPublicSuffixes == [exact |-> {<<"com">>}, wildcardBases |-> {}, exceptions |-> {}]
MCPresetDecision == [id \in {"trackers", "cdn"} |-> IF id = "cdn" THEN "allow" ELSE "block"]
MCPresetPatterns == [id \in {"trackers", "cdn"} |-> IF id = "cdn" THEN {CdnB} ELSE {SiteB}]

Symmetry == Permutations(Certificates)

----------------------------------------------------------------------------
ShortHosts == UNION { [1 .. n -> Labels] : n \in 1 .. 3 }

AtMost(k, S) == UNION { kSubset(n, S) : n \in 0 .. k }

VARIABLES
  suffixes, host,  \* a public suffix list and the host it is asked about
  part

SuffixLists ==
  [ exact: AtMost(2, ShortHosts), wildcardBases: AtMost(1, ShortHosts), exceptions: AtMost(1, ShortHosts) ]

NoSuffixes == [exact |-> {}, wildcardBases |-> {}, exceptions |-> {}]

Examine ==
  /\ host = NoHost
  /\ host' \in ShortHosts
  /\ UNCHANGED suffixes

Star == "*"

(***************************************************************************)
(* The reference: a rule matches a host label by label from the right,     *)
(* "*" matching any label; an exception rule beats every other and loses   *)
(* its leftmost label, otherwise the longest rule wins, and "*" is the     *)
(* rule of last resort.                                                    *)
(***************************************************************************)
RuleMatches(rule, h) ==
  /\ Len(rule) <= Len(h)
  /\ \A i \in 1 .. Len(rule) :
       rule[i] \in { Star, h[Len(h) - Len(rule) + i] }

PlainRules ==
  suffixes.exact \union { <<Star>> \o base : base \in suffixes.wildcardBases } \union { <<Star>> }

Longest(S) == CHOOSE r \in S : \A other \in S : Len(other) <= Len(r)

PrevailingLength(h) ==
  LET exceptions == { r \in suffixes.exceptions : RuleMatches(r, h) }
      plain == { r \in PlainRules : RuleMatches(r, h) }
  IN  IF exceptions # {} THEN Len(Longest(exceptions)) - 1 ELSE Len(Longest(plain))

ReferenceSite(h) ==
  IF h \in Addresses \/ Len(h) <= PrevailingLength(h)
  THEN h
  ELSE SubSeq(h, Len(h) - PrevailingLength(h), Len(h))

(***************************************************************************)
(* registrableDomain computes the site the Public Suffix List algorithm    *)
(* prescribes, wildcard, exception and default rules included; and a site  *)
(* reduced again (by requestKey, the rule store, the prompt) is the same,  *)
(* or a decision would be filed under a key the interceptor never looks up.*)
(***************************************************************************)
SiteFollowsPublicSuffixList ==
  host # NoHost =>
    LET site == RegistrableDomain(suffixes, host)
    IN  site = ReferenceSite(host) /\ RegistrableDomain(suffixes, site) = site

----------------------------------------------------------------------------
suffixesVars == <<suffixes, host>>

vars == <<suffixesVars, policyVars, storeVars, transactionVars, trVars, tsVars, part>>

\* In each part the others stay in one of their initial states.
Init ==
  /\ part \in {"suffixes", "policy", "store", "transaction", "trust", "tab"}
  /\ PolicyInit /\ StoreInit /\ TransactionInit
  /\ IF part = "tab" THEN TabSecurityInit ELSE TrInit /\ TsInit
  /\ part \notin {"trust", "tab"} => tr.file = << >>
  /\ part # "transaction" => installed = {} /\ disk = [f \in FileNames |-> 0]
  /\ suffixes \in IF part = "suffixes" THEN SuffixLists ELSE { NoSuffixes }
  /\ host = NoHost

Next ==
  /\ UNCHANGED part
  /\ \/ part = "suffixes" /\ Examine
     \/ part # "suffixes" /\ UNCHANGED suffixesVars
  /\ \/ part = "policy" /\ PolicyNext
     \/ part # "policy" /\ UNCHANGED policyVars
  /\ \/ part = "store" /\ StoreNext
     \/ part # "store" /\ UNCHANGED storeVars
  /\ \/ part = "transaction" /\ TransactionNext
     \/ part # "transaction" /\ UNCHANGED transactionVars
  /\ \/ part = "trust" /\ TrNext
     \/ part # "trust" /\ UNCHANGED trVars
  /\ \/ part = "tab" /\ TsNext
     \/ part # "tab" /\ UNCHANGED tsVars

Spec == Init /\ [][Next]_vars

(***************************************************************************)
(* The policy the interceptor reads is the one that was stored, and no     *)
(* host is both allowed and blocked everywhere.                            *)
(***************************************************************************)
PolicyAgrees == part = "policy" => RouterAgreesWithInterceptor /\ NoContradictoryGlobals

(***************************************************************************)
(* The rules the user has entered are those that are saved and in force,   *)
(* and a tab calls a connection secure for the reason it names.            *)
(***************************************************************************)
TrustAgrees == (part = "trust" => RulesAgree) /\ (part = "tab" => SecurityAgrees)
=============================================================================
