SPECIFICATION Spec
CONSTANTS
  Labels = {"a", "b"}
  Addresses = {}
  Hosts <- MCHosts
  Storable <- MCStorable
  PublicSuffixes <- MCPublicSuffixes
  PresetIds = {"trackers", "cdn"}
  PresetDecision <- MCPresetDecision
  PresetPatterns <- MCPresetPatterns
  MaxRules = 2
  MaxEdition = 4
  MaxDamage = 2
  Certificates = {c1, c2}
  MaxAttempts = 2
  MaxFaults = 2
  TrustHosts <- MCTrustHosts
  DomainLists <- MCDomainLists
  RuleNames = {"", "corp", "b"}
  NewNames = {"New rule", "New rule 2", "New rule 3", "New rule 4"}
  TrustCertificates = {"ca"}
  HandWritten <- MCHandWritten
  MaxTrustEdits = 3
  MaxLoads = 2
  MaxRedirects = 1
SYMMETRY Symmetry
CHECK_DEADLOCK FALSE
INVARIANT SiteFollowsPublicSuffixList
INVARIANT PolicyAgrees
INVARIANT TrustAgrees
INVARIANT LossIsBounded
INVARIANT FailedSaveChangesNothing
INVARIANT TrustIsLast
INVARIANT AnchorsExist
INVARIANT LiveIsSaved
PROPERTY DecisionSettlesOnlyItsKey
PROPERTY UnreadableFailsClosed
