---------------------------- MODULE SiteDomains ----------------------------
(***************************************************************************)
(* Hosts, public suffixes and host patterns: src/src/SiteDomain.cpp and    *)
(* src/src/DomainPatternMatcher.cpp.                                       *)
(*                                                                         *)
(* A normalized host name is the sequence of its labels, left to right;    *)
(* the empty sequence is the empty string.  A pattern is a host too (the   *)
(* "*." prefix is dropped by normalization).  Lower-casing, IDNA and URL   *)
(* parsing are abstracted: every host here is already normalized.          *)
(***************************************************************************)
EXTENDS Naturals, Sequences, FiniteSets, FiniteSetsExt

CONSTANTS
  Addresses    \* hosts QHostAddress parses (IP literals)

NoHost == << >>

(***************************************************************************)
(* A set of public suffix rules, as loadPublicSuffixRules sorts the lines  *)
(* of the list: plain rules, "*." rules without the star, "!" rules.       *)
(***************************************************************************)
SuffixRules(hosts) ==
  [exact: SUBSET hosts, wildcardBases: SUBSET hosts, exceptions: SUBSET hosts]

SuffixFrom(host, first) == SubSeq(host, first, Len(host))

\* Mutant of PublicSuffixLabelCount: a wildcard rule counted without its star.
StarlessLabelCount(rules, host) ==
  LET n == Len(host)
      lengths(S) == { n - i + 1 : i \in { j \in 1 .. n : SuffixFrom(host, j) \in S } }
  IN  IF lengths(rules.exceptions) # {}
      THEN Max(lengths(rules.exceptions)) - 1
      ELSE Max({1} \union lengths(rules.exact \union rules.wildcardBases))

(***************************************************************************)
(* publicSuffixLabelCount: an exception rule prevails over any length;     *)
(* otherwise the longest exact or wildcard rule, never more than the host. *)
(***************************************************************************)
PublicSuffixLabelCount(rules, host) ==
  LET n == Len(host)
      exceptionLengths ==
        { n - i + 1 : i \in { j \in 1 .. n : SuffixFrom(host, j) \in rules.exceptions } }
      exactLengths ==
        { n - i + 1 : i \in { j \in 1 .. n : SuffixFrom(host, j) \in rules.exact } }
      wildcardLengths ==
        { n - i + 2 : i \in { j \in 2 .. n : SuffixFrom(host, j) \in rules.wildcardBases } }
  IN  IF exceptionLengths # {}
      THEN Max(exceptionLengths) - 1
      ELSE Min({ n, Max({1} \union exactLengths \union wildcardLengths) })

RegistrableDomain(rules, host) ==
  IF host \in Addresses \/ Len(host) <= 1
  THEN host
  ELSE LET suffixLabels == PublicSuffixLabelCount(rules, host)
       IN  IF Len(host) <= suffixLabels
           THEN host
           ELSE SuffixFrom(host, Len(host) - suffixLabels)

(***************************************************************************)
(* SiteDomain::hostMatchesPattern: equality, or the pattern after a dot.   *)
(***************************************************************************)
EndsWith(host, pattern) ==
  \E first \in 2 .. Len(host) : SuffixFrom(host, first) = pattern

HostMatchesPattern(host, pattern) ==
  /\ host # NoHost
  /\ pattern # NoHost
  /\ host = pattern \/ EndsWith(host, pattern)

(***************************************************************************)
(* DomainPatternMatcher::matches: a hash lookup of the host and, unless    *)
(* the host is an address, of each of its proper dot-suffixes.             *)
(***************************************************************************)
MatcherMatches(suffixes, host) ==
  /\ host # NoHost
  /\ \/ host \in suffixes
     \/ /\ host \notin Addresses
        /\ \E first \in 2 .. Len(host) : SuffixFrom(host, first) \in suffixes

=============================================================================
