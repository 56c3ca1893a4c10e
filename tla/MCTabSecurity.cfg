SPECIFICATION TabSecuritySpec
CONSTANTS
  TrustHosts <- MCTrustHosts
  DomainLists <- MCDomainLists
  RuleNames = {"", "corp", "b"}
  NewNames = {"New rule", "New rule 2", "New rule 3", "New rule 4"}
  TrustCertificates = {"ca"}
  HandWritten <- MCHandWritten
  MaxTrustEdits = 3
  MaxLoads = 2
  MaxRedirects = 1
CHECK_DEADLOCK FALSE
INVARIANT HttpIsNeverSecure
