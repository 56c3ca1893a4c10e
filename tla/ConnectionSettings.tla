------------------------- MODULE ConnectionSettings -------------------------
(***************************************************************************)
(* The Site Connections policy: CrossDomainSettings (the editable, stored  *)
(* form, searched rule by rule), CrossDomainPolicySnapshot (the compiled   *)
(* form the request interceptor reads) and the two ways the policy         *)
(* changes while the browser runs: saving the settings page and answering  *)
(* a prompt with "always".                                                 *)
(*                                                                         *)
(* The router asks the stored form whether a key still needs a prompt, the *)
(* interceptor asks the compiled one: the two implementations must agree.  *)
(***************************************************************************)
EXTENDS SiteDomains

CONSTANTS
  Hosts,           \* normalized host names requests and rules may carry
  Storable,        \* those normalizeHostPattern accepts (no "_" in a label, ...)
  PublicSuffixes,  \* the bundled public suffix rules
  PresetIds,       \* presets of the bundled catalog
  PresetDecision,  \* PresetIds -> {"allow", "block"}
  PresetPatterns,  \* PresetIds -> sets of patterns
  MaxRules         \* maximumRules

ASSUME SettingsAssumption ==
  /\ Storable \subseteq Hosts
  /\ PresetDecision \in [PresetIds -> {"allow", "block"}]
  /\ PresetPatterns \in [PresetIds -> SUBSET Storable]
  /\ MaxRules \in Nat

\* Hosts are sequences of labels, and the site of a host is one; what is left of an address without its
\* first numbers is read as another address, not as a pattern.
ASSUME HostsAssumption ==
  /\ \A host \in Hosts :
       host \in Seq({ host[i] : i \in DOMAIN host }) /\ RegistrableDomain(PublicSuffixes, host) \in Hosts
  /\ \A address \in Addresses \intersect Hosts : \A first \in 2 .. Len(address) :
       SuffixFrom(address, first) \notin Storable

Decisions == {"allow", "block"}
Evaluations == {"allow", "block", "ask"}

(***************************************************************************)
(* What a request carries: whether each URL has a web scheme, and hosts.   *)
(***************************************************************************)
Request == [sourceIsWeb: BOOLEAN, source: Hosts \union {NoHost},
            targetIsWeb: BOOLEAN, target: Hosts \union {NoHost}]

SiteOf == [host \in Hosts \union {NoHost} |-> RegistrableDomain(PublicSuffixes, host)]
Site(host) == SiteOf[host]
NormalizeHostPattern(host) == IF host \in Storable THEN host ELSE NoHost

NormalizedRule(rule) ==
  [ source |-> Site(NormalizeHostPattern(rule.source)),
    target |-> NormalizeHostPattern(rule.target),
    decision |-> rule.decision ]

SameKey(r, s) == r.source = s.source /\ r.target = s.target

(***************************************************************************)
(* setRules: normalize, drop what does not normalize, keep the first rule  *)
(* of a key.                                                               *)
(***************************************************************************)
SetRules(settings, rules) ==
  LET normalized == [i \in DOMAIN rules |-> NormalizedRule(rules[i])]
      kept == { i \in DOMAIN rules :
                  /\ normalized[i].source # NoHost /\ normalized[i].target # NoHost
                  /\ \A j \in 1 .. (i - 1) : ~ SameKey(normalized[j], normalized[i]) }
      Nth(n) == CHOOSE i \in kept : Cardinality({ j \in kept : j <= i }) = n
  IN  [settings EXCEPT !.rules = [n \in 1 .. Cardinality(kept) |-> normalized[Nth(n)]]]

\* Mutant of SetRule: the decision is widened to every source of the target.
SetRuleForHost(settings, site, host, decision) ==
  [settings EXCEPT !.allow = IF decision = "allow" THEN @ \union {host} ELSE @,
                   !.block = IF decision = "block" THEN @ \union {host} ELSE @]

(***************************************************************************)
(* setRule: overwrite the decision of the key's rule, else append one.     *)
(***************************************************************************)
SetRule(settings, site, host, decision) ==
  LET rule == NormalizedRule([source |-> site, target |-> host, decision |-> decision])
      same == { i \in DOMAIN settings.rules : SameKey(settings.rules[i], rule) }
  IN  IF same # {}
      THEN [settings EXCEPT !.rules[Min(same)].decision = decision]
      ELSE [settings EXCEPT !.rules = Append(@, rule)]

PatternsOverlap(left, right) ==
  HostMatchesPattern(left, right) \/ HostMatchesPattern(right, left)

ValidGlobals(settings) ==
  \A blocked \in settings.block, allowed \in settings.allow :
    ~ PatternsOverlap(blocked, allowed)

ValidRules(settings) ==
  /\ Len(settings.rules) <= MaxRules
  /\ \A i \in DOMAIN settings.rules :
       LET rule == NormalizedRule(settings.rules[i])
       IN  /\ rule.source # NoHost /\ rule.target # NoHost
           /\ rule.source # Site(rule.target)
           /\ \A j \in 1 .. (i - 1) : ~ SameKey(NormalizedRule(settings.rules[j]), rule)

Validate(settings) == ValidGlobals(settings) /\ ValidRules(settings)

----------------------------------------------------------------------------
(***************************************************************************)
(* The stored form: CrossDomainSettings::evaluate and its parts.           *)
(***************************************************************************)
EvaluateUserKey(settings, sourceSite, targetHost) ==
  LET site == Site(sourceSite)
      matching == { i \in DOMAIN settings.rules :
                      settings.rules[i].source = site /\ settings.rules[i].target = targetHost }
      Listed(patterns) == \E p \in patterns : HostMatchesPattern(targetHost, p)
  IN  IF ~ settings.enabled THEN "allow"
      ELSE IF NoHost \in {site, targetHost} \/ site = Site(targetHost) THEN "allow"
      ELSE IF Listed(settings.block) THEN "block"
      ELSE IF matching # {} THEN settings.rules[Min(matching)].decision
      ELSE IF Listed(settings.allow) THEN "allow"
      ELSE "ask"

EvaluatePresets(settings, targetHost) ==
  LET decisions == { PresetDecision[id] :
                       id \in { i \in settings.presets \intersect PresetIds :
                                 MatcherMatches(PresetPatterns[i], targetHost) } }
  IN  IF ~ settings.enabled THEN "allow"
      ELSE IF "block" \in decisions THEN "block"
      ELSE IF "allow" \in decisions THEN "allow"
      ELSE "ask"

EvaluateKey(settings, sourceSite, targetHost) ==
  LET user == EvaluateUserKey(settings, sourceSite, targetHost)
  IN  IF user # "ask" THEN user ELSE EvaluatePresets(settings, targetHost)

EvaluateRequest(settings, request) ==
  LET sourceSite == Site(request.source)
      targetSite == Site(request.target)
      user ==
        IF ~ settings.enabled \/ ~ request.targetIsWeb THEN "allow"
        ELSE IF ~ request.sourceIsWeb \/ sourceSite = NoHost THEN "block"
        ELSE IF targetSite = NoHost \/ sourceSite = targetSite THEN "allow"
        ELSE EvaluateUserKey(settings, sourceSite, request.target)
  IN  IF user # "ask" THEN user ELSE EvaluatePresets(settings, request.target)

----------------------------------------------------------------------------
(***************************************************************************)
(* The compiled form: what the CrossDomainPolicySnapshot constructor       *)
(* builds.  A later rule of a key overwrites an earlier one (QHash insert),*)
(* unknown preset IDs are skipped, a disabled policy compiles to nothing.  *)
(***************************************************************************)
Compile(settings) ==
  LET known == settings.presets \intersect PresetIds
      Patterns(decision) ==
        UNION { PresetPatterns[id] : id \in { i \in known : PresetDecision[i] = decision } }
      keys == { <<settings.rules[i].source, settings.rules[i].target>> : i \in DOMAIN settings.rules }
      LastOf(key) == Max({ i \in DOMAIN settings.rules :
                             <<settings.rules[i].source, settings.rules[i].target>> = key })
  IN  IF ~ settings.enabled
      THEN [enabled |-> FALSE, block |-> {}, allow |-> {}, rules |-> << >>,
            presetBlock |-> {}, presetAllow |-> {}]
      ELSE [enabled |-> TRUE, block |-> settings.block, allow |-> settings.allow,
            rules |-> [key \in keys |-> settings.rules[LastOf(key)].decision],
            presetBlock |-> Patterns("block"), presetAllow |-> Patterns("allow")]

\* Mutant of SnapshotUser: an exact rule is looked up before the global blocks.
SnapshotUserRuleFirst(policy, request) ==
  LET key == <<Site(request.source), request.target>>
  IN  IF ~ policy.enabled \/ ~ request.targetIsWeb THEN "allow"
      ELSE IF ~ request.sourceIsWeb \/ key[1] = NoHost THEN "block"
      ELSE IF request.target = NoHost \/ key[1] = Site(request.target) THEN "allow"
      ELSE IF key \in DOMAIN policy.rules THEN policy.rules[key]
      ELSE IF MatcherMatches(policy.block, request.target) THEN "block"
      ELSE IF MatcherMatches(policy.allow, request.target) THEN "allow"
      ELSE "ask"

SnapshotUser(policy, request) ==
  LET key == <<Site(request.source), request.target>>
  IN  IF ~ policy.enabled \/ ~ request.targetIsWeb THEN "allow"
      ELSE IF ~ request.sourceIsWeb \/ key[1] = NoHost THEN "block"
      ELSE IF request.target = NoHost \/ key[1] = Site(request.target) THEN "allow"
      ELSE IF MatcherMatches(policy.block, request.target) THEN "block"
      ELSE IF key \in DOMAIN policy.rules THEN policy.rules[key]
      ELSE IF MatcherMatches(policy.allow, request.target) THEN "allow"
      ELSE "ask"

SnapshotPresets(policy, targetHost) ==
  IF ~ policy.enabled THEN "allow"
  ELSE IF MatcherMatches(policy.presetBlock, targetHost) THEN "block"
  ELSE IF MatcherMatches(policy.presetAllow, targetHost) THEN "allow"
  ELSE "ask"

SnapshotEvaluate(policy, request) ==
  LET user == SnapshotUser(policy, request)
  IN  IF user # "ask" THEN user ELSE SnapshotPresets(policy, request.target)

----------------------------------------------------------------------------
VARIABLES
  settings,   \* BrowserProfile::m_crossDomainSettings
  policy      \* CrossDomainRequestInterceptor::m_policy

policyVars == <<settings, policy>>

Defaults == [enabled |-> FALSE, allow |-> {}, block |-> {}, rules |-> << >>, presets |-> {}]

PolicyInit == settings = Defaults /\ policy = Compile(Defaults)

(***************************************************************************)
(* BrowserProfile::setCrossDomainSettings: what does not validate changes  *)
(* nothing.  The page hands over normalized lists (setRules, ...).         *)
(***************************************************************************)
SetCrossDomainSettings(updated) ==
  /\ Validate(updated)
  /\ settings' = updated
  /\ policy' = Compile(updated)

(***************************************************************************)
(* The settings page changes one field of the current settings: the        *)
(* switch, a pattern list, the presets, a rule added or the rules cleared. *)
(***************************************************************************)
EditSettings ==
  \/ SetCrossDomainSettings([settings EXCEPT !.enabled = ~ @])
  \/ \E p \in Storable :
       \/ SetCrossDomainSettings([settings EXCEPT !.allow = @ \union {p}])
       \/ SetCrossDomainSettings([settings EXCEPT !.allow = @ \ {p}])
       \/ SetCrossDomainSettings([settings EXCEPT !.block = @ \union {p}])
       \/ SetCrossDomainSettings([settings EXCEPT !.block = @ \ {p}])
  \/ \E ids \in SUBSET PresetIds : SetCrossDomainSettings([settings EXCEPT !.presets = ids])
  \/ \E s, t \in Hosts, d \in Decisions :
       SetCrossDomainSettings(
         SetRules(settings, Append(settings.rules, [source |-> s, target |-> t, decision |-> d])))
  \/ SetCrossDomainSettings([settings EXCEPT !.rules = << >>])

(***************************************************************************)
(* BrowserProfile::resolveCrossDomainRequest with persist, for a request   *)
(* that was turned into a prompt: setRule, then save, which validates;     *)
(* when it fails nothing changes and the prompt stays.                     *)
(***************************************************************************)
WebRequest(source, target) ==
  [sourceIsWeb |-> TRUE, source |-> source, targetIsWeb |-> TRUE, target |-> target]

Asked(source, target) == SnapshotEvaluate(policy, WebRequest(source, target)) = "ask"

PersistDecision(source, target, decision) ==
  LET updated == SetRule(settings, Site(source), target, decision)
  IN  /\ Asked(source, target)
      /\ Validate(updated)
      /\ settings' = updated
      /\ policy' = Compile(updated)

PolicyNext ==
  \/ EditSettings
  \/ \E source, target \in Hosts, d \in Decisions : PersistDecision(source, target, d)

----------------------------------------------------------------------------
(***************************************************************************)
(* The compiled policy answers every request as the stored settings do,    *)
(* and a request it would ask about is still "ask" for the router, which   *)
(* evaluates the bare site and host: otherwise the router would withdraw   *)
(* the question and the request would stay blocked without a prompt        *)
(* (CrossDomainWindowRouter::route, CrossDomainPolicySnapshot).            *)
(***************************************************************************)
RouterAgreesWithInterceptor ==
  \A request \in Request :
    /\ SnapshotEvaluate(policy, request) = EvaluateRequest(settings, request)
    /\ SnapshotEvaluate(policy, request) = "ask"
         => EvaluateKey(settings, Site(request.source), request.target) = "ask"

(***************************************************************************)
(* README.md: conflicting global entries are rejected on save.  No host    *)
(* can ever be both globally allowed and globally blocked, subdomains      *)
(* included (CrossDomainSettings::validate, patternsOverlap).              *)
(***************************************************************************)
NoContradictoryGlobals ==
  \A host \in Hosts :
    ~ (MatcherMatches(settings.allow, host) /\ MatcherMatches(settings.block, host))

(***************************************************************************)
(* Answering a prompt with "always" decides that source site and target    *)
(* host, and changes the evaluation of no other pair.                      *)
(***************************************************************************)
DecisionSettlesOnlyItsKey ==
  [][ settings' # settings =>
      \A source, target \in Hosts, d \in Decisions :
        PersistDecision(source, target, d) =>
          \A s, t \in Hosts :
            EvaluateRequest(settings, WebRequest(s, t))' =
              IF Site(s) = Site(source) /\ t = target
              THEN d
              ELSE EvaluateRequest(settings, WebRequest(s, t)) ]_policyVars

=============================================================================
