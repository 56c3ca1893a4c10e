# PanBrowser in TLA+

Models, model-checking runs and machine-checked proofs for PanBrowser, a Qt WebEngine browser (C++ in
`src/`, described in `docs/ARCHITECTURE.md`). Paths such as `MainWindow.cpp:1616` are relative to the
repository's `src/` directory. `PROJECT.json` lists components, runs, mutants, findings, hazards and
theorems, and maps each definition to the lines it translates.

To repeat a run: `tlc -config MCPromptRouting.cfg MCPromptRouting`; to repeat the proofs:
`tlapm RequestInterceptorProofs.tla` (and the other modules whose names end in `Proofs`).

## 1. The system and where it is hard

PanBrowser is one process. Almost everything runs on the user interface thread, one handler at a time; what
makes it hard is what happens *between* handlers: page events, timers, queued notifications and deferred
deletions. Two things leave that pattern: `CrossDomainRequestInterceptor::allowRequest` may be called on any
thread, and the settings live in files that a crash can leave half-saved.

| Component | State | Operations | Talks to | Hard because | Correct when |
|---|---|---|---|---|---|
| Sites and host patterns (`SiteDomain`, `DomainPatternMatcher`) | the public suffix list | registrable domain, pattern match | everything that compares sites | rules of three kinds at exact lengths | it is the Public Suffix List algorithm |
| Site Connections policy (`CrossDomainSettings`, `CrossDomainPolicySnapshot`) | global patterns, rules, presets | edit, normalise, validate, evaluate | interceptor, router, settings | two implementations of one policy | both give one verdict; an answer decides its key only |
| Request interceptor (`CrossDomainRequestInterceptor`) | policy copy, session decisions, pending sources behind `m_lock` | decide, record, notify, remove, replace | profile, router | three lock sections per call; notification after unlock | verdicts were in force, counts right, nobody waits in silence |
| Prompt routing (`CrossDomainWindowRouter`, `CrossDomainPromptController`) | routes, prompts and queues of every window | route, retry, merge, reanchor, resolve, cancel, reset | interceptor, windows, tabs | tabs move while notifications and retries are under way | what is pending is prompted, in one place, in front |
| Site Connections file | primary, backup, memory | load with recovery, save with backup | profile | crash, damage, partial failure | loses at most the last save; never fails open |
| Settings transaction (`SettingsDialog`, `SettingsSaveTransaction`, `TrustCertificateRepository`) | seven files and backups, preferences, certificates | capture, save, roll back, import, clean up | all stores | one of many steps fails, or restoring after it; crash; cancel | what a failed save does not name it has not changed; trust last; anchors exist |
| Permission prompts (`PermissionController`) | active request, queue | request, allow, deny, cancel, tab change | main window | navigation and tab changes race answers | asks only for the page in front, loses none |
| Full screen and detached video (`BrowserFullScreenController`, `DetachedVideoSession`, `MainWindow`) | owner of full screen, sessions, expected exits, pop-out serials | enter, exit, detach, return, expire | page, permission prompt | the page answers early, late or never | page and window agree again, whatever the order |
| Main window (`MainWindow`, `BrowserWindowUi`, `BrowserPage`) | tabs, windows, current tab | open, switch, load, close, apply settings | all of the above | every event calls several controllers in order | as above |
| HTTP and proxy authentication | challenges remembered, answers tried, the dialog | challenge, prompt, save, suppress | credential stores | nested event loops, a saved password that is wrong | a refused password is not sent again on its own |
| Credential stores (Secret Service, Keychain, Windows) | items, waiting calls, leases | read, store, remove, prompt | system services | asynchronous answers after a timeout, nested calls | what was acknowledged is stored; every call returns |
| Reader mode | generation, probe request, overlay | probe, activate, leave, restyle | page scripts | answers of an earlier page | the state is that of the page in front |
| VOT userscript (bridge, transport, session, store, package) | requests in four places, bridges, values | request, abort, time out, forget page, set value | hidden page, scripts | late answers, replaced bridges, order of updates | one answer per request; copies converge |
| Downloads | records, requests, rows, file | request, save dialog, progress, remove, clear, restart | panel | nested event loop, bound of 200, dying | record, row, file and request tell the same |
| History and bookmarks | visits, pages, counts; bookmarks | record, prune, remove; add, edit, star | settings, windows | failing statements, reused ids | counts and lists agree with the visits |
| Session and tabs | bar, stack, closing tabs, file | open, move, pin, close, reopen, restore, save | windows, other programs | animations, three kinds of start | the file is what is open; bar and stack agree |
| Trust rules and security status | rules on disk, in the editor, in force; status of a tab | edit, save, parse, accept, show | certificate errors | two parsers, order of the engine's events | what is entered is in force; "secure" has its reason |
| Search engines | engines, default, selection | edit, enable, remove, restore, choose | address bar | default removed or disabled | what is shown can be saved, or is refused |
| Web apps | registry, shortcuts, detection, windows | detect, install, update, remove | pages, shortcuts | answers of an earlier page, lookup by two keys | offers, registry, shortcuts and windows agree |
| Application launch | lock, socket, queue | become primary, hand over, end | second process | several start at once, one ends or dies | one primary, no request twice or lost |
| Find bar, zoom, external links | query, serial, factor per site | find, close, zoom, ask | pages | late results, several windows | what is shown is about the page in front |
| Other settings pages, dialogs, decoration | widgets | - | - | presentation | - |

## 2. Modules

| Module | Models | Uses |
|---|---|---|
| `SiteDomains` | public suffixes, registrable domain, host patterns, as operators over label sequences | - |
| `ConnectionSettings` | editing, validating, compiling and evaluating the policy; lasting answers | `SiteDomains` |
| `ConnectionSettingsStore` | load and save of the policy file, step by step | - |
| `PendingTracker` | the interceptor's `PendingRequestTracker`, as operators on `[sources, size]` | - |
| `PromptLifecycle` | **abstract specification** of the prompt pipeline: policy, session decisions, pending sources, notifications, prompts | `PendingTracker` |
| `RequestInterceptor` | `allowRequest`, one action per lock section, beside `PromptLifecycle`'s handlers | `PromptLifecycle` |
| `PromptRouting` | router, controllers and the `MainWindow` handlers around them; **implements `PromptLifecycle`** | `PendingTracker`, instance of `PromptLifecycle` |
| `SettingsTransaction` | the settings dialog's save, rollback and imported certificates | - |
| `TrustRules`, `TabSecurity` | the rules' editor, file and parser; what a tab says of its connection | `TabSecurity` extends `TrustRules` |
| `PermissionPrompts` | `PermissionController`, as operators | - |
| `VideoPresentation` | full screen, detached videos and permission prompts of one window | `PermissionPrompts` |
| `TabStrip`, `PageTools`, `PageZoom` | animated tab widths; find bar and external links; zoom of sites | - |
| `SecretService` | the calls of `CredentialStoreLinux`, nested in each other's event loops | - |
| `VotTransport`, `VotStorage` | network requests and stored values of the VOT userscript | - |
| `Authentication` | both authentication controllers | - |
| `TabSession` | tab bar, tab stack, session file, starts | - |
| `ReaderMode`, `Downloads`, `History`, `Bookmarks`, `WebApps`, `ApplicationLaunch`, `CredentialsPage`, `SearchEngines` | the component of that name | - |
| `Subsequences` | what a sequence has at some positions, in its order, without recursion | - |
| `SubsequenceProofs` | theorems and proofs about that operator, and about least and greatest elements | `Subsequences` |
| `PendingTrackerProofs`, `RequestInterceptorProofs`, `PromptRoutingProofs` | theorems and proofs | the modules they name |
| `SettingsProofs` | theorems and proofs | `MCSettings`, `SubsequenceProofs` |
| `WindowProofs` | theorems and proofs | `MCWindow`, `TabSession`, `SubsequenceProofs` |
| `ServiceProofs` | theorems and proofs | `SecretService`, `VotTransport` |
| `LibraryProofs` | theorems and proofs | `MCLibrary`, `SubsequenceProofs` |
| `MCSettings`, `MCServices`, `MCLibrary`, `MCWindow` | several components side by side, see below | the modules they name |
| `MCPromptRouting`, `MCRequestInterceptor`, `MCTabSecurity`, `MCVotTransport` | values and sets for TLC | the module they name |

Components that share no state are checked by one run: its module has a variable `part`, chosen initially and
then constant, and only the part's component moves. The state spaces add instead of multiplying, and every
behaviour of each component is explored. Each component keeps its state in one record (`tb`, `wa`, `ts`, ...)
or in variables of its own, with prefixed `Init` and `Next`, so that it can also be instantiated alone.

How state and actions correspond to the code:

* **ConnectionSettings.** `settings` is `CrossDomainSettings`, `policy` what `CrossDomainPolicySnapshot`
  compiled from it. `EditSettings` is a settings page saved after normalisation and validation;
  `SetRule` is `setRule`. A request is a pair of hosts with "is it a web source" and "is it same-site"
  computed by `SiteDomains`. `SaveSettings` rejected by `setCrossDomainSettings` cannot happen from the
  dialog, which validates first, and is left out.
* **PendingTracker, RequestInterceptor.** `calls[t]` is the program counter and locals of one call;
  `Begin`, `ReadSession`, `RecordPending` are the three lock sections, `Notify` the emission after
  unlocking. `seen` is history: the verdicts in force at some moment of the call. Qt may call the
  interceptor on the user interface thread only; a model with threads allows that and more. A key has one
  prompt in this module; `PromptLifecycle` itself also allows a second one, stranded by a closing tab
  (`left`, `again`, and `lost`: a prompt that moves meets a full one), which `PromptRouting` needs.
* **PromptRouting.** Handlers call one another (cancelling a prompt in one window may hand it to another
  window's controller, which may dismiss others), so each handler is an operator from the prompt state
  `ui` to the prompt state, and an action is one event: a notification or retry timer (`Route`), an answer
  (`Resolve`), an event of the window (`OpenTab`, `SwitchTab`, `LoadStarted`, `Commit`, `CloseTab`,
  `FinishClosingTab`, `DeleteView`, `CloseWindow`), or saved settings. A controller's queue is a set of
  requests numbered by their place in it (`place`; the prompt on screen has place 0): the code takes the first
  of some view or of some key, appends, and puts one in front, and that is all it asks of the order. Handlers
  that go from window to window, view to view or request to request are recursive functions (`after`). A save of a lasting
  answer that fails changes nothing and is a stutter. Not modelled: URL changes within a document; closing the primary window's last tab, which ends
  the process. A view keeps its URL after `BrowserPage::retire`, as in the code.
* **ConnectionSettingsStore.** Each file is missing, spoiled or a valid configuration. A file that cannot
  be read counts as spoiled. `QSaveFile` and `QFile::copy` are taken as atomic (the latter's partial copy
  is a spoiled backup, which `damage` covers).
* **SettingsTransaction.** `Files` is the capture order, `SaveOrder` the save order. Each store's save is its
  own steps: drop the backup, copy, write, restrict. Only Site Connections validates before it copies,
  and video keeps no backup. A failing `restrictFile` counts as a failure of the next step. A failure while
  capturing changes nothing and is a stutter. Proxy and user agent take effect after a restart in the
  program; here they count as taken over. A failing `restoreFile` (`FailRestore`) may have written, since
  `restrictFile` comes last; so may the preferences (`FailPreferences`, `RestorePreferences`), and a failure of
  theirs as the first step is not rolled back. `outcome` and `reported` say how the last save ended and what its
  message names; `left` and `abandoned` are history: what failed saves may have left other than it is in use,
  and trust rules among it that a cancelled dialog has left behind. The four properties of the transaction leave out a case each
  by these names; section 5 (*Settings*) says what happens in them.
* **VideoPresentation.** `u` is the window's state; a handler is an operator on it. `engine[v]` is the
  engine's own flag: accepting a request sets it as asked, rejecting leaves or resets it. The engine asks
  to enter only from outside full screen (or overtaking an exit), and to leave only from inside.
  A request to leave may be answered inside the handler that made it, later, or never (`answers`).
  `fresh` is history. The window's maximised or minimised state, the other tool bars, sizes, and closing
  the whole window are not modelled.
* **TrustRules.** `tr` has the editor's rules, the file and the rules in force. Host lists are normalised as in
  the editor. The file is parsed twice by the code, for the editor (`TrustSettings`) and for the policy
  (`TrustPolicy`), with different checks; both are modelled, and a hand-written file (`HandWritten`) can pass one
  and fail the other. **TabSecurity** adds a tab: `LoadStarted` (with its first request), `Redirected`,
  `UrlChanged` (the commit), `LoadFinished`, and `CertificateError` anywhere between them. Assumed of the engine: loads do not overlap, the
  start of a load and its first request are one step, an error of the certificate is reported at every load, and
  error pages commit under the address that was asked for.
* **TabStrip.** `held` is the width an animation holds in the data of a tab; without it the width follows the
  number of tabs. Pixels are computed as in the code. The layout has set the available width before the bar
  is shown; 75 is the minimum `QTabBar` gives.
* **PageTools.** A result of `findText` is delivered at any later moment, in any order, or never; the question
  about an external link is modal and outlives a navigation. Closing the last tab ends the window.
* **PageZoom.** A factor is its number in `zoomLevels`; the window in front is the only one whose commands are
  enabled. A stored value that cannot be written may still be found by the next reader. The browser is in the
  foreground and has no detached video.
* **SecretService.** `calls` is the stack of waiting calls. The service has its effect, if it has one, before
  it answers; the 30 s timer ends the wait and not the operation. Leases are the code's locks per credential.
* **VotTransport.** A request is recorded in the script, the bridge, the transport and the session, and each
  end of it (answer, timeout, abort, load, lost renderer, reconfigured bridge) is an action. `VotStorage` keeps the queues
  of reports and updates of each page.
* **TabSession.** `tb.open` is the window, `tb.file` the session file; `bar` and `stack` are kept separately and
  moved separately, as the handlers do. Starts are a plain one, one for a web app and one for an address handed
  over; the process may die at any moment, and a save or the removal of the file may fail.
* **ReaderMode.** Results of scripts stand in a queue per page, marked stale when the generation or the probe request has been
  counted on. **Downloads.** The save dialog runs the event loop, so every other action may come while
  it is open. **History.** Each transaction may fail at any statement; ids are reused as SQLite does.
  **WebApps.** A detection and an installation carry the load they were asked for; an app is looked up by
  id or manifest, first match first. **ApplicationLaunch.** Lock, socket name and the listening server are three things,
  and the lock goes before the name at the end of a process. **CredentialsPage** and **SearchEngines** are
  pages of the settings dialog with the stores behind them. The credentials are those of the Windows store, listed and removed
  in another thread (`CredentialStore::listAsync`, `removeAsync`). That a name, keyword or template is not well-formed
  is one more reason for a refusal.
* **Authentication.** `req` is a challenge and its answer, `au.forgot` the keys whose memory was cleared because a
  bounded set was full. The server may accept, refuse, or change its password.

## 3. Runs

Every run is complete over its bounds; every passing property has a mutant, a plausible bug in a mapped
definition, under which TLC finds it violated. A run of several components states a property of each, joined
in one formula where they answer the same question; the parts keep their names.

| Run | Bounds | Shows |
|---|---|---|
| `settings` | hosts of at most 3 labels over 2, 2 exact rules, 1 wildcard, 1 exception; 2 sites with a subdomain, 2 presets, 2 rules; 4 saves of the file, 2 damaged; 2 attempts, 2 certificates, 2 faults; 3 edits of trust rules; 2 loads with 1 redirect | `SiteFollowsPublicSuffixList` (against the algorithm, written separately in `MCSettings`); `PolicyAgrees`: interceptor and router agree, global lists never contradict; `DecisionSettlesOnlyItsKey`; `LossIsBounded`, `UnreadableFailsClosed`; `FailedSaveChangesNothing`, `LiveIsSaved`, `TrustIsLast`, `AnchorsExist`; `TrustAgrees` = `RulesAgree`, `SecurityAgrees` |
| `interceptor` | 2 threads, 3 keys (one blocked by the proxy gate), 2 sources, 3 calls, limits 1 per key and 2 in all | counting, settlement, announcement and verdicts, with answers, saves and dismissals between lock sections |
| `routing` | 2 keys, 2 windows, 3 tabs, 2 sources (page and origin only), 2 blocked requests, 4 moves | pending is prompted; `RoutesAgree`: a route leads to a prompt, one per window and key, and a key with one prompt keeps one unless a closing tab strands it; `PromptFollowsTab`: the prompt in front is about the tab in front; `PromptLifecycle` is implemented |
| `routing_live` | 1 key, 2 windows, 2 tabs, 1 source per prompt, 3 requests, 4 moves | notifications are settled; the refinement with prompts that are full |
| `window` | 2 tabs, 2 full-screen requests, 2 pop-out clicks, 1 navigation, 2 permission requests; 3 tabs at 2 widths, 4 events; 2 queries, 4 events; 3 tabs in 2 windows on 2 sites, 4 zoom events | `PageAndWindowAgree` (full screen has an owner, a surface is backed), `NobodyIsThrownOut`, `ExitsComplete`, `PopoutFollowsClick`, `AskingIsCurrent`, `NoRequestIsForgotten`; `WindowAgrees` = `ToolsFollowPage`, `ZoomAgrees`, `WidthsSettle` |
| `services` | 2 credentials, 2 nested calls; 2 pages, 2 requests, 1 at a time, 2 loads, 2 reconfigurations | `AcknowledgedIsStored`: what a call reports as stored is, whatever timed out; `CallsReturn`; `RequestsAgree`: the four holders of a request do; `ScriptsAreAnswered` |
| `library` | 3 tabs, 2 saved, 2 starts; 2 reader tabs; 2 servers, 2 passwords, 1 remembered; 3 downloads, 2 records; 3 visits, 1 kept; 2 addresses, 2 windows; 2 pages, 2 app ids, 1 manifest, 1 installation; 3 writes; 3 processes, 2 requests; 2 credentials; 2 built-in and 1 custom engine | `TabsAgree`, `SessionIsSaved`; `ReaderAgrees`; `RefusedIsNotResent`; `DataAgrees` = `HistoryAgrees`, `BookmarksAgree`, `DownloadsAgree`, `CredentialsAgree`, `SearchAgrees`; `WebAppsAgree`; `LaunchesAreAccounted`; `StorageConverges` |
| `prompt_hidden`, `session_restored`, `apps_unloadable`, `vot_queue`, `tab_security` | the same, smaller | *findings 1 to 5* |

**Why the bounds are enough.** Each is the least number at which the hazard exists: two threads race for one
slot of a limit of one; a second source of a key makes merging and the limit per prompt happen; three tabs in
two windows let a prompt move between windows while a third tab shows something else; four moves suffice to
open a second tab, start and commit a load, and close; two faults let a rollback fail after a save did; two
full-screen requests let the timer of the first meet the second; two clicks do the same for pop-outs; three
processes let one start while another ends and a third hands over; three tabs let one close between two others
while the bound of two leaves one out of the session; three downloads and a bound of two push a running one out of
the list; two loads with one redirect let an error be reported for a page that is left. Where a limit is small
in a run (sources of a prompt 1 for 16, concurrent requests 1, records 2 for 200), the code's constant is
reached by it in the same way. Symmetry is declared only for keys, sources, threads and certificates, in runs
whose temporal properties are none or do not tell the elements apart.

**Deadlock** is checked in `interceptor` and `prompt_hidden`. In the others the bounds end every behaviour, or
the user may simply stop.

**Fairness** is assumed in three runs. `routing_live`: each notification and retry timer that is due is
delivered (weak fairness per key, source and attempt), which a running event loop does. `window`: the 500 ms
and 250 ms timers of full screen fire; nothing is assumed of the page, which is why the timers exist.
`services` (and `vot_queue`): the timeouts of calls and requests fire and events that are queued are delivered; nothing is assumed of
the secret service, of the network, or of the extension. Nowhere is anything assumed of the user.

## 4. What is proved

For any number of threads, keys, sources, requests and policies, and any limits (`RequestInterceptorProofs`):

* `TypeCorrect`, `PendingCountedAlways`, `DecidedIsSettled`, `NobodyWaitsInSilence`, `VerdictsInForce` —
  the properties of the run `interceptor`;
* `Invariance`: `Spec => []IInv`, from which the others follow.

Assumptions: `TrackerAssumption` (limits are positive numbers), `PolicyAssumption` (policies are well-formed; a
disabled one allows every key), `InterceptorAssumption`; keys and sources are arbitrary sets.

*The argument.* The invariants are not inductive. `PendingCounted` needs `TrackerOK`: the sets are finite, the
count is their cardinality, and both bounds hold; `PendingTrackerProofs` proves that recording, removing and
forgetting preserve it. `VerdictInForce` needs to know what a call that is half-way through has seen:
`CallsWitnessed` says that the verdict now in force has been seen, that the session decision about to be read
has been seen, and that the preset copied earlier was in force at some moment *or* the protection was disabled
during the call — which needs `DisabledAllows`. The exception "off" is real: a call that copied its presets
before the protection was disabled and reads session decisions after may block what was allowed throughout;
without it TLC finds the behaviour. Each action has a lemma (`BeginKeeps`, `RecordPendingKeeps`, …), each with
one step per conjunct it can disturb.

For any number of saves and of damaged files (`SettingsProofs`, assumption: the one of
`ConnectionSettingsStore` on its bounds):

* `LossIsBoundedAlways`, `ProtectionFailsClosed` — the properties of the store in the run `settings`;
* `StoreInvariance`: `StoreSpec => []StoreInv`.

*The argument.* What a start finds is the primary, or the backup when the primary does not load. Undamaged, the
primary has all that was acknowledged (`FilesInOrder`), but while a save replaces it the backup must have it too
(`BackupComesFirst`): that is the order the code writes in, and damage may strike at any step. Once one file is
damaged the order of the files is gone; what is left is that a start finds the last edition but one
(`FoundOnceDamaged`), and that a save about to be acknowledged has its primary, or the backup from before
(`SavedOnceDamaged`). The save of defaults by a start happens only while nothing was acknowledged
(`DefaultsAreFirst`), so it overwrites nothing.

For any number of saves, faults and certificates (`SettingsProofs`, assumption
`TransactionAssumption`: the bounds are numbers):

* `FailedSavesChangeNothing`, `TrustComesLast`, `AnchorsAlwaysExist`, `LiveIsAlwaysSaved` — the properties of
  the transaction in the run `settings`, each with the case its comment leaves out (section 5, *Settings*);
* `TransactionInvariance`: `TransactionSpec => []TransactionInv`.

*The argument.* `Settled` is what the files were when the save began, or are when none is under way; the program
runs with it but for what failed saves have left (`LiveIsSettled`). Of certificates (`AnchorsAreSettled`), those of the
rules in use are none of those imported since the dialog was opened, so cancelling may delete the latter; those of the
settled rules are there, unless a cancelled dialog has made these rules `abandoned`. `SavedSoFar` says which primaries a save has written, and
that the trust rules are old until the last step: with `SaveIsNew` (the captured rules are older than the
attempt) new trust on disk means that all else is new. `RestoredSoFar` is its counterpart in a rollback: the files
passed are as captured, unless `reported` names them.

For any labels, lists of suffixes, hosts, patterns, presets and rules (`SettingsProofs`; assumptions:
`LabelsAssumption` — "*" is no label —, `HostsAssumption` — hosts are sequences of labels, closed under "site of",
and the end of an address is no pattern —, `SettingsAssumption`):

* `SitesFollowPublicSuffixList`, `PolicyFollowsSettings`, `AnswerSettlesOnlyItsKey` — `SiteFollowsPublicSuffixList`,
  `PolicyAgrees` and `DecisionSettlesOnlyItsKey` of the run `settings`.

*The argument for sites.* Nothing changes, so all is in the comparison of two algorithms. `LabelCount` says what
the code's search yields in terms of the lengths of the suffixes of a host that are rules (`SuffixLengths`,
`WildcardLengths`); `ReferenceSite` takes the longest matching rule, or the exception. That the site of a site is
itself needs that the rules that match a suffix of the host are those of the host that are no longer than it.

*The argument for policies.* The settings' own evaluation takes the first rule for a site and host, the
interceptor looks up a table filled from first to last; they agree because the rules of settings that validate
have different keys (`KeysDiffer`), and the policy in force is compiled from settings that do (`PolicyInForce`). A
prompt asks only about a site and host that no rule names (`AskedIsOpen`), so "always" appends one (`AnswerAppended`),
which no other site and host finds.

For any hosts, patterns, names and certificates, and any number of edits and loads (`SettingsProofs`; assumption:
`TrustRulesAssumption` — hosts and patterns are sequences of labels, the file holds rules, "" names no rule, bounds are
numbers):

* `TrustHolds` — `TrustAgrees`, the trust rules and the tab under them, of the run `settings`.

*The argument for trust.* `TrInv`: what the page shows of a rule is the rule it has selected, its rules are the ones
the user entered, and the policy, with different names and no overlaps, is what the file gives unless that was
edited by hand since. Suffixes of one host nest, so two rules that cover a host overlap (`OneCovers`): at most one
rule of the policy covers a host, and testing a site on the page, which goes through all rules, finds that one
(`TestAgrees`). `TabInv`: while a load goes on that nothing refused, the URL taken for the top level's is one it was
sent to; a secure status names a rule accepted for an origin the load went through, and as long as the load names no
rule none had to recover anything of it (`Recovered`).

For any windows, tabs, keys and sources, any number of blocked requests and moves, and any limits
(`PromptRoutingProofs`; assumptions: `RoutingAssumption` — the primary window is no popup, the first tab is a
tab, a blank page matches no source, bounds are numbers —, `PoliciesAssumption` — what is saved is a policy —
and `TrackerAssumption`):

* `NothingWaitsForever`, `PromptsFollowTabs`, `RoutesLeadToOnePrompt` — `PendingIsPrompted`, `PromptFollowsTab`
  and `RoutesAgree` of the run `routing`;
* `WindowsImplementLifecycle`: `Spec => ImplementsLifecycle`, the refinement of `PromptLifecycle`;
* `RoutingInvariance`, `AgreeInvariance`: the inductive invariants they rest on.

*The argument for prompts.* In the middle of an event the properties do not hold: a request may have been taken
out of one controller and not yet be in another, and a window may not have been asked for its next prompt. So
the invariant has parameters. `Sound(u, st, hand, due)` says of a prompt state `u` and states of views `st` that
each pending pair is in `hand`, in a prompt of some window, or was refused by a full one (`Covered`); that a
prompt on screen is of the current tab in every window; and that a tab with a question waiting shows one in
every window but those in `due`. Each handler has a lemma: `ShowNext` takes its window out of `due`, `Reanchor`
takes the pairs of its request out of `hand`, and so on; the recursive functions over windows, views and
requests have theirs by least counterexample. Between events `due` is empty and `hand` is what has a
notification on its way, which is the invariant of the theorem. Queues are numbered by distinct and bounded
places (`Numbered`), which is what makes "the first" exist.

*The argument for routes.* `AgreeInv` adds that a tab is of one window and shows no view that is gone
(`TabsOK`), and `Tidy`: a window asks once about a key, and every route leads to a request of its key. `Led`
says that the route of a key leads to all the requests of that key. A handler keeps `Led` key by key, with the
tabs of before the event as well as with those of after it; the one exception is a tab that closes in front of a
prompt which another window asks for too, and that is what `RoutesAgree` calls stranded.

*The argument for the refinement.* `AgreeInv` again: `JoinPrompt` needs that a source joins the one prompt of
its key in its window. `Flows` and `Keeps` follow the pairs of all prompts through a handler: every pair is
still in a prompt, or dismissed with its views (`gone`: not pending any more), or refused by a full prompt
(`lost`). The steps map as follows: a blocked request is `BlockUndecided`; a notification that arrives is
`DropStaleNotice`, `JoinPrompt`, `RefuseSource` or `GiveUp`, or shows nothing when it is put on a timer, as
`Total` counts the notifications of all attempts; an answer is `Decide`; a save is `SaveSettings`; a tab or
window that moves, loads or closes is `DismissSources`.

For any tabs, and any number of full-screen requests, clicks, navigations and permission requests
(`WindowProofs`; assumptions: `ViewsAssumption` and `WindowAssumption`):

* `PagesAndWindowsAgree`, `NobodyIsEverThrownOut`, `PopoutsFollowClicks`, `AskingStaysCurrent`,
  `RequestsAreAccountedFor` — the safety properties of full screen, pop-outs and prompts in the run `window`.

*The argument.* The invariant is `WindowInv`. Full screen (`SurfacesOK`): who owns it is among the open tabs
and, like every detached tab, is in full screen for the engine too (`Backed`); a tab the engine has in full
screen owns it, is detached, or has overtaken an exit (`Owned`); expected exits and exit timers carry serials no
later than the last one (`Exits`), and no more serials are used than requests were made (`Budget`). Permission
prompts (`Accounted`, `From`, `Asking`): each request is decided or still to be decided, the undecided ones are
all from the page in front. Pop-outs (`Popouts`): a tab's serial counts its clicks and navigations. Handlers
again have lemmas of their own, since a page may answer a request to leave inside the handler that makes it.

For any tabs, queries, windows, sites and widths, and any number of events (assumptions: `ToolsAssumption`,
`ZoomAssumption`, `StripAssumption` — there are tabs, windows and widths, the marks of "none" are none of them):

* `WindowsAgree` — `WindowAgrees`, the find bar, the zoom and the tab widths of the run `window`.

*The argument.* Find bar: an answer on its way with the serial of the last search was asked of the tab in front
as it is loaded now (`Searched`); everything that changes either counts the serial on. Zoom: a window's front tab
is one of its tabs (`FrontsAreThere`), pages of a site follow its stored factor (`ZoomIsStored`), the command
follows the front. Tab strip: a width is held by one animation (`OneRun`), and each ends at the width the tab has
(`EndsAtWidth`); between a change of the tabs and `updateTabWidths`, which sets the ends anew, only the first holds
(`Drawn`).

For any tabs, limits, events and starts (assumption `TabSessionAssumption`: the limits are numbers, and the mark of
"none" is no tab):

* `BarAndStackAgree`, `SavedSessionsAreTrue` — `TabsAgree` and `SessionIsSaved` of the run `library`.

*The argument.* The invariant is `TbInv` (`TabsAreSound`). `Sound`: bar and stack are one sequence without
repetition that has the current, the dragged and the closing tabs, a window whose tabs are not there yet has
nothing, and the file is canonical (pinned tabs first, none twice, no more than are restored). `Told`: the file
tells what is wanted of the bar (`Tells`) unless a save is due or the file is behind. `Told` has a second half
that neither property states but the induction needs: in the mode that starts afresh, the file that the last program
left has pinned tabs only, so a start that restores the pinned ones restores all of it and need not save. What a handler does to
bar and stack is a lemma on sequences (`InsertedAt`, `OthersAre`, `PlacedAre`); that saved tabs are drawn from the bar
in its order, pinned ones first, rests on `SubsequenceProofs` (`DrawnAre`).

For any calls, credentials and secrets; and for any pages, requests and limit (`ServiceProofs`; assumption
`VotTransportAssumption`: a page may have at least one request, bounds are numbers):

* `SuccessIsStored`, `BridgesAndTransportAgree` — `AcknowledgedIsStored` and `RequestsAgree` of the run
  `services`.

*The argument.* In the secret service, no two calls hold the lease of one credential (`Excluded`), a call past
its effect whose success is not yet reported still has it (`Effects`), so what is reported is stored; what was
reported earlier stays until the next call takes the lease (`Known`). A call given up keeps its lease while its
operation is in flight. In the transport, `Paired` holds even within a handler: bridge, transport and
interceptor hold the same requests, of pages with a bridge; `Agreed` adds the limit per page and the states in
which requests may be held or queued; `Idle`, nothing held, is what failing all sessions or replacing all
bridges leaves.

For any requests, keys and passwords; any writes and documents; any processes and attempts to forward; any tabs
and appearances; any apps and manifests (`LibraryProofs`; assumptions `ApplicationLaunchAssumption`: attempts are
limited, and the mark of a free lock is no process; `ReaderModeAssumption`: the mark of no overlay is no
appearance, bounds are numbers; `WebAppsAssumption`: bounds are numbers):

* `RefusedPasswordsStay`, `StoredValuesConverge`, `EveryLaunchIsAccounted`, `ReaderModesAgree`, `AppsAgree` —
  `RefusedIsNotResent`, `StorageConverges`, `LaunchesAreAccounted`, `ReaderAgrees` and `WebAppsAgree` of the run
  `library`;
* `LaunchInvariance`: `LaSpec => []LaInv`.

*The argument.* Authentication: a request carries an answer, the engine caches one, or a server has refused one,
only for a key that was met before (`Met`: remembered, or forgotten by an overflow), and a saved password is
read only for a key that is not remembered. Stored values: the last update on its way to a document is the
store's value (`Announced`), and a document with none on its way has that value, or wrote last what is on its
way to the store, or had its last write refused (`Settling`). Launch: `LockIsHeld` ties the lock to the places in a start where a process has it;
"one primary" follows. `HandledAtMostOnce` needs `QueuedOnce`: a request in a queue is in that queue only, of a
process that has ended, and unhandled. `ForwardedIsSomewhere` says that a request handed over was handled, waits
in a queue, or died with the primary that had it. Reader mode: `ReaderAgrees` speaks of empty queues, the
invariant of full ones. While an activation is pending exactly one that counts is among the scripts or the
results (`ActivationOK`); it finds no overlay, because a removal precedes it or nothing that would bring one up
(`Off`), and only probes follow it; once it has succeeded the overlay stays, and will have the appearance of the
settings when all scripts have run (`Styled`), unless a change was missed while it was pending. A probe that
counts is of a page that has loaded, and its answer of the document shown (`DocumentOK`). Web apps: an answer that
is still expected is about the load shown (`Detected`), and whatever changes a tab, its manifest or the registry
looks up the offer anew (`Offers`), except while an installation reads, when a request is under way.

For any visits, addresses, downloads, credentials and engines, and any number of operations, failures and starts
(`LibraryProofs`; assumptions of the components: bounds are numbers; `SearchAssumption`: the engines shipped are
enabled and have different ids, names and keywords, as those of `builtInEngines()` do):

* `DataIsTold` — `DataAgrees` of the run `library`.

*The argument.* One invariant per component (`DataInv`); each says in full what was told in part.
History (`HsInv`): each state is made of two sets of visits, the connection's and the disk's, of which the tables
are counted (`Tables`), so that an upsert is a count of one more (`VisitedCounts`) and pruning the tables of fewer
visits (`PrunedFits`); no visit has an id above the number recorded, and what is listed was there with that id
(`HsFits`). The first attempt failed for a good reason: the ghost `overdue`, that a cleanup is owed, was reset when
the history is cleared even if the clearing stays in an open transaction, so the disk of a crash could exceed the
bound; `ClearHistory` now keeps it then. Bookmarks (`BmInv`): no two rows of one address or id, as the next id is
above all; every change redraws all stars. Downloads (`DlInv`): the records are what is left of the rows, in their
order (`Within`), the others having been pushed out (`ShownFits`); each held id has a request under way and a record
of that status, or was pushed out (`HeldFits`); ids that wait for a dialog have no record yet (`Asked`); the file has
the records unless a save is due or failed (`SavedFits`). Credentials (`CpInv`): a removal is under way exactly while
the page says so (`DialogOK`), only confirmed entries are removed, and a list on its way or shown is that of the store
unless the store changed behind it (`ListsTold`). Search engines (`SrInv`): list and box show the page as it is, ids,
names and keywords differ (`Differ`), and the default is enabled if any engine is.

`Subsequences` selects what a sequence has at some positions by their ranks, where the library's `SelectSeq` recurses;
`SubsequenceProofs` shows that the result has those elements in their order (`ElementsHave`), and that whatever has
them in their order is the result (`ElementsAre`).

**Only model-checked:** liveness, that is `EveryNoticeIsSettled`, `ExitsComplete`, `CallsReturn` and `ScriptsAreAnswered`,
as fairness and `ENABLED` are beyond the prover. Every other property of a passing run is a theorem.

## 5. Findings

1. `prompt_hidden` - full screen saves and restores the permission prompt's tool bar, so that a prompt that came
   up meanwhile is hidden and stays active, with later requests waiting behind it
   (`BrowserFullScreenController.cpp:83`).
2. `session_restored` - with "continue with the previous tabs", a start for an address handed over by another
   program brings back pinned tabs only, and the next save drops the others (`MainWindow.cpp:3075`).
3. `apps_unloadable` - an update that matches one registry entry by id and another by manifest leaves both, and
   the file is refused as a whole at the next start (`WebAppStore.cpp:278`).
4. `vot_queue` - a request queued while the transport is initialized is aborted when it becomes ready, because
   the bridges are replaced before the queue is flushed (`VotUserscriptManager.cpp:172`).
5. `tab_security` - the secure indicator of a load that was stopped, or failed, after a rule had accepted its
   certificate stays on the HTTP page below (`MainWindow.cpp:1710`).

Met while modelling; no run states them:

*Site Connections.* A host with an underscore is prompted for, but its lasting answer can never be saved
(`SiteDomain.cpp:177`). A tab that opens the same page after the notification is not reloaded by "allow"
(`CrossDomainPromptController.cpp:306`; `docs/ARCHITECTURE.md:763`). A notification routed between `loadStarted`
and the commit attaches a prompt to a page that is gone (`MainWindow.cpp:1618`; `docs/ARCHITECTURE.md:776`). A prompt
may be anchored to a tab that is already closing (`CrossDomainWindowRouter.cpp:271`) and is dismissed with it,
although `docs/ARCHITECTURE.md:768` promises it to a surviving view; `PromptRouting` calls it `Stranded`. Until
it is dismissed its key may get a second prompt, and in an unlucky order keeps both: when another view is
cancelled, the stranded request is anchored to a further view it affects (`CrossDomainPromptController.cpp:234`)
and the route follows it (`CrossDomainWindowRouter.cpp:151`), away from the window of the second prompt, whereas
`docs/ARCHITECTURE.md:755` has one prompt owner per decision. It takes four views and seven moves;
`RoutesAgree` states what remains true, that nothing but stranding leads there.

*Settings.* Three cases are left out of the properties of the transaction, and each is real:

* A failing first step is not rolled back (`SettingsDialog.cpp:503`). `BrowserPreferences::save` can fail after it has written,
  as in `restrictFile` (`BrowserPreferences.cpp:155`): the message says that the settings cannot be saved, and
  the next start has the new preferences all the same. `FailedSaveChangesNothing` and
  `LiveIsSaved` say nothing of preferences that failed in this way; they hold the files to what they were.
* A cancelled dialog deletes every certificate imported in it (`SettingsDialog.cpp:153`,
  `TrustCertificateRepository.cpp:162`), whatever rules are on disk. Import a certificate, save a rule that
  names it, let applying the DNS mode fail (the last step, after the rules) and then restoring the rules' file:
  the new rules stay on disk, the message names the file, and Cancel deletes the certificate. The next start
  reads rules without their certificate, whereas `docs/ARCHITECTURE.md:1015` has `Certificates/` hold the files
  that `rules.json` refers to. Without `abandoned`, TLC finds this in `AnchorsExist`. Until Cancel nothing is lost: the dialog stays open,
  and a save that succeeds keeps the certificate.
* A rollback restores the trust rules last, so that dying in one, or not restoring them, leaves new trust beside
  old settings. `TrustIsLast` leaves out a rollback, a crash in it, and rules that the message names.

*Trust.* An origin that is accepted by a rule and redirects to another HTTPS origin leaves "Secure" with the
rule's name on the second (`MainWindow.cpp:1700`; `docs/ARCHITECTURE.md:379`); `SecurityAgrees` allows it. The editor wants names unique among
all rules, the policy among enabled ones, so a file the browser runs with may be one the editor refuses.

*Tabs and windows.* The background tab opened for external content leaves a restored pinned tab in front unloaded.
Reopening a closed pinned tab while another is dragged breaks "pinned first" in the bar. A Zoom menu that is
greyed out while another window is active is not enabled again when its own becomes active
(`MainWindow.cpp:2629`), until the tab, its address or the zoom changes. A change of the reader's appearance
while an activation is under way is missed.

*Stores.* A challenge that returns for another reason than a wrong password, as when the
engine forgot an accepted one, deletes a good saved password and calls it known-bad (`HttpAuthenticationController.cpp:172`). A download's record that is
pushed out by the bound of 200 while it runs leaves a row without one. A commit of the history that fails
leaves its transaction open. Removing the last enabled custom engine that is the default leaves a page of the
settings that only "Restore built-ins" or Cancel leads out of (`SearchSettingsPage.cpp:287`). Removing an
installed app also removes its shortcut, and replacing one leaves the old id's shortcut without an owner; dying
between the two renames of a shortcut leaves a `.backup-` directory. A failing initialization of the VOT
transport is not reported to requests already queued.

*Launch.* The member lock of a coordinator that ends is released before its server, a child object, removes the
name of the socket: a process started in between becomes primary and loses its name
(`ApplicationLaunch.cpp:181`; `docs/ARCHITECTURE.md:318`). A request handed to a primary that is about to end is lost, too; `la.lost`
holds such requests.

## 6. Not modelled, and the plan

Not modelled, for these reasons:

* *the platform decides*: certificate chains, the calls of the macOS and Windows credential stores (but listing and removal on
  Windows, see `CredentialsPage`), window decoration and
  placement, the launcher of macOS, file permissions;
* *data without control*: IDNA and URL parsing, the extraction script of the reader, verification of the VOT
  package, header rules, the contents of DNS, proxy, user-agent and translation settings, address suggestions;
* *presentation*: pages and dialogs that copy values between widgets and settings, hover previews and drawing.

What comes next:

1. **Composition**: `SecretService` under `Authentication`; tabs of `TabSession` under `PromptRouting`.
2. **More of the window**: history, downloads and web app windows at the closing of the program; the capability
   of a pop-out click.
