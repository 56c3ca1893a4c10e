----------------------------- MODULE TrustRules -----------------------------
(***************************************************************************)
(* The trust rules, which say for which hosts certificates of one's own    *)
(* authorities are accepted: the page of the settings dialog that edits    *)
(* them (TrustRulesSettingsPage, TrustRuleEditor, TrustSettings), and the  *)
(* policy the browser runs with (TrustPolicy), which parses the same file  *)
(* with code of its own.  The file may also be edited by hand.  How it is  *)
(* written, and what becomes of imported certificate files, is the subject *)
(* of SettingsTransaction.                                                 *)
(***************************************************************************)
EXTENDS Naturals, Sequences, SequencesExt, Subsequences

CONSTANTS
  TrustHosts,         \* host names, sequences of labels
  DomainLists,        \* what may be typed as the domains of a rule: sequences of patterns
  RuleNames,          \* names that may be typed, "" among them
  NewNames,           \* "New rule", "New rule 2", ...: more than there can be rules
  TrustCertificates,  \* certificates that can be imported
  HandWritten,        \* files that may be written by hand
  MaxTrustEdits       \* bound: changes of a dialog or of a file

Modes == { "system-only", "system-plus-custom", "custom-only" }

\* A rule written by hand may have any name and mode, and name certificates that are not to be had.
WrittenRules == UNION { ToSet(file) : file \in HandWritten }
UsedNames == {""} \cup RuleNames \cup NewNames \cup { r.name : r \in WrittenRules }
UsedModes == Modes \cup { r.mode : r \in WrittenRules }
UsedCertificates == TrustCertificates \cup UNION { r.anchors : r \in WrittenRules }

PatternType == [star : BOOLEAN, labels : Seq(STRING)]
TrustRuleType == [name : UsedNames, enabled : BOOLEAN, mode : UsedModes, domains : Seq(PatternType),
                  anchors : SUBSET UsedCertificates]

ASSUME TrustRulesAssumption ==
  /\ MaxTrustEdits \in Nat /\ "" \notin NewNames
  /\ TrustHosts \subseteq Seq(STRING) /\ DomainLists \subseteq Seq(PatternType)
  /\ HandWritten \subseteq Seq(TrustRuleType)

VARIABLE tr

trVars == << tr >>

(***************************************************************************)
(* Domain patterns: a host, or the hosts below one.                        *)
(***************************************************************************)
Pattern(star, labels) == [star |-> star, labels |-> labels]

ParsedDomain(p) == p.labels # << >> /\ (p.star => Len(p.labels) >= 2)

MatchesDomain(p, h) == ParsedDomain(p) /\ IF p.star THEN IsStrictSuffix(p.labels, h) ELSE h = p.labels

DomainPatternsOverlap(p, q) ==
  IF p.star /\ q.star THEN IsSuffix(p.labels, q.labels) \/ IsSuffix(q.labels, p.labels)
  ELSE IF p.star THEN IsStrictSuffix(p.labels, q.labels)
  ELSE IF q.star THEN IsStrictSuffix(q.labels, p.labels)
  ELSE p.labels = q.labels

Enabled(rules) == ElementsWith(rules, LAMBDA rule : rule.enabled)

(***************************************************************************)
(* validate and TrustPolicy::load check the enabled rules alike, and names *)
(* differently; only what is written by hand has other modes.              *)
(***************************************************************************)
UsableRule(rule) ==
  /\ rule.domains # << >>
  /\ \A p \in ToSet(rule.domains) : ParsedDomain(p)
  /\ rule.mode # "system-only" => rule.anchors # {}
  /\ rule.anchors \subseteq TrustCertificates

\* No two domains overlap, be they of two rules or of one.
NoOverlap(rules) ==
  \A i, j \in DOMAIN rules : \A m \in DOMAIN rules[i].domains, n \in DOMAIN rules[j].domains :
    << i, m >> # << j, n >> => ~DomainPatternsOverlap(rules[i].domains[m], rules[j].domains[n])

NamesDiffer(rules) ==
  \A i, j \in DOMAIN rules : rules[i].name # "" /\ (i # j => rules[i].name # rules[j].name)

TrustValidated(rules) ==
  /\ NamesDiffer(rules)
  /\ \A r \in ToSet(Enabled(rules)) : UsableRule(r)
  /\ NoOverlap(Enabled(rules))

PolicyLoads(file) ==
  LET rules == Enabled(file)
  IN  NamesDiffer(rules) /\ NoOverlap(rules) /\ \A r \in ToSet(rules) : r.mode \in Modes /\ UsableRule(r)

\* TrustSettings::load
SettingsLoad(file) == \A r \in ToSet(file) : r.mode \in Modes

\* Rules that do not load are no rules.
TrustPolicyOf(file) == IF PolicyLoads(file) THEN Enabled(file) ELSE << >>

\* TrustRule::matches
RuleCovers(rule, h) == \E p \in ToSet(rule.domains) : MatchesDomain(p, h)

\* ruleForHost: the first rule that matches, 0 if none does.
RuleForHost(policy, h) == SelectInSeq(policy, LAMBDA r : RuleCovers(r, h))

\* testDomain: the name the page answers
TestDomain(rules, h) ==
  LET i == SelectInSeq(rules, LAMBDA r : r.enabled /\ r.name # "" /\ RuleCovers(r, h))
  IN  IF i = 0 THEN "" ELSE rules[i].name

(***************************************************************************)
(* file: rules.json; policy: m_rules of TrustPolicy; open: the dialog is;  *)
(* rules: TrustSettings::m_rules; row: m_currentRule, 0 for none; form:    *)
(* what the editor shows.  History: wanted, the rules as the user has      *)
(* entered them; byHand, the file was changed and not loaded since.        *)
(***************************************************************************)
BlankRule == [name |-> "", enabled |-> FALSE, mode |-> "system-only", domains |-> << >>, anchors |-> {}]

TrInit ==
  \E file \in HandWritten :
    tr = [file |-> file, policy |-> TrustPolicyOf(file), open |-> FALSE, rules |-> << >>, row |-> 0,
          form |-> BlankRule, wanted |-> << >>, byHand |-> FALSE, edits |-> 0]

TrIs(S) == tr' = S

(***************************************************************************)
(* The page.  Whatever changes the editor stores it into the current rule. *)
(***************************************************************************)
LoadCurrentRule(S, row) ==
  [S EXCEPT !.row = row, !.form = IF row \in DOMAIN S.rules THEN S.rules[row] ELSE BlankRule]

\* The editor knows everything but the anchors.
StoreCurrentRule(S) ==
  IF S.row \notin DOMAIN S.rules THEN S
  ELSE [S EXCEPT !.rules[S.row] = [S.form EXCEPT !.anchors = S.rules[S.row].anchors]]

SelectRule(S, row) == LoadCurrentRule(StoreCurrentRule(S), row)

RebuildRuleList(S) == [S EXCEPT !.row = 0]

OpenTrustPage ==
  /\ ~tr.open /\ SettingsLoad(tr.file)
  /\ LET S == RebuildRuleList([tr EXCEPT !.open = TRUE, !.rules = tr.file, !.wanted = tr.file])
     IN  TrIs(SelectRule(S, IF tr.file = << >> THEN 0 ELSE 1))

Editing == tr.open /\ tr.edits < MaxTrustEdits
OnRule == Editing /\ tr.row # 0
Edited(S) == [S EXCEPT !.edits = @ + 1]

ChooseRule == tr.open /\ \E row \in DOMAIN tr.rules \ {tr.row} : TrIs(SelectRule(tr, row))

\* A field of the editor changes.
EditRule ==
  /\ OnRule
  /\ \E form \in { [tr.form EXCEPT !.name = n] : n \in RuleNames } \cup { [tr.form EXCEPT !.enabled = ~@] }
                 \cup { [tr.form EXCEPT !.mode = m] : m \in Modes }
                 \cup { [tr.form EXCEPT !.domains = d] : d \in DomainLists } :
       /\ form # tr.form
       /\ TrIs(StoreCurrentRule(Edited([tr EXCEPT !.form = form, !.wanted[tr.row] = form])))

AddRule ==
  /\ Editing
  /\ LET S == StoreCurrentRule(tr)
         fresh == { n \in NewNames : \A r \in ToSet(S.rules) : r.name # n }
         rule == [BlankRule EXCEPT !.name = CHOOSE n \in fresh : TRUE, !.mode = "system-plus-custom"]
         T == RebuildRuleList([S EXCEPT !.rules = Append(@, rule), !.wanted = Append(@, rule)])
     IN  fresh # {} /\ TrIs(Edited(SelectRule(T, Len(T.rules))))

RemoveRule ==
  /\ OnRule
  /\ LET S == RebuildRuleList([tr EXCEPT !.rules = RemoveAt(@, tr.row), !.wanted = RemoveAt(@, tr.row)])
         next == IF tr.row <= Len(S.rules) THEN tr.row ELSE Len(S.rules)
     IN  TrIs(Edited(SelectRule(S, next)))

\* importCertificates and removeCertificate show the certificates of the current rule again.
ChangeAnchors(S) ==
  TrIs(Edited([tr EXCEPT !.rules[tr.row].anchors = S, !.wanted[tr.row].anchors = S, !.form.anchors = S]))

ImportCertificates == OnRule /\ \E c \in TrustCertificates : ChangeAnchors(tr.rules[tr.row].anchors \cup {c})

\* The row that is removed is one of the list shown.
RemoveCertificate == OnRule /\ \E c \in tr.form.anchors : ChangeAnchors(tr.rules[tr.row].anchors \ {c})

ClosedPage(S) == [S EXCEPT !.open = FALSE, !.rules = << >>, !.row = 0, !.form = BlankRule, !.wanted = << >>]

Reloaded(S) == [S EXCEPT !.policy = TrustPolicyOf(S.file), !.byHand = FALSE]

\* validate, save and, the dialog having been accepted, reloadRules
SaveTrustRules ==
  /\ tr.open
  /\ LET S == StoreCurrentRule(tr)
     IN  TrustValidated(S.rules) /\ TrIs(ClosedPage(Reloaded([S EXCEPT !.file = S.rules])))

CancelTrustPage == tr.open /\ TrIs(ClosedPage(tr))

EditByHand ==
  /\ ~tr.open /\ tr.edits < MaxTrustEdits
  /\ \E file \in HandWritten \ {tr.file} : TrIs(Edited([tr EXCEPT !.file = file, !.byHand = TRUE]))

\* The command of the menu, and a start
ReloadRules == ~tr.open /\ TrIs(Reloaded(tr))

TrNext ==
  \/ OpenTrustPage \/ ChooseRule \/ EditRule \/ AddRule \/ RemoveRule \/ ImportCertificates \/ RemoveCertificate
  \/ SaveTrustRules \/ CancelTrustPage \/ EditByHand \/ ReloadRules

(***************************************************************************)
(* Property.                                                               *)
(***************************************************************************)
\* What is typed lands in the rule it was typed for, whatever is selected, added and removed around
\* it; no host is covered by two rules of the policy, so their order does not matter; what the page can
\* save the policy can load, and the page's test of a domain names the rule the browser will then use;
\* and the browser runs with what the page has saved (docs/ARCHITECTURE.md, 4.4).
RulesAgree ==
  /\ tr.rules = tr.wanted
  /\ tr.row # 0 => tr.form = tr.rules[tr.row]
  /\ \A h \in TrustHosts, r, s \in ToSet(tr.policy) : RuleCovers(r, h) /\ RuleCovers(s, h) => r = s
  /\ TrustValidated(tr.rules) =>
       /\ PolicyLoads(tr.rules)
       /\ \A h \in TrustHosts :
            LET i == RuleForHost(TrustPolicyOf(tr.rules), h)
            IN  TestDomain(tr.rules, h) = IF i = 0 THEN "" ELSE TrustPolicyOf(tr.rules)[i].name
  /\ ~tr.byHand => tr.policy = TrustPolicyOf(tr.file)
=============================================================================
